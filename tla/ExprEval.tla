------------------------------ MODULE ExprEval ------------------------------
(***************************************************************************)
(* expr_eval.go: an expression over a row.  A value is a tuple of its Go    *)
(* type and what it holds.  An int64 from a literal is "int" and holds the  *)
(* number, a float64, from a literal or the table's JSON, is "float" and    *)
(* holds it in units so small that each float64 is a whole number of them   *)
(* (an infinity is a number beyond all the others).  A literal with a       *)
(* decimal point is a *MyDecimal, which, as a hexadecimal or a bit literal, *)
(* no function of the file has a case for: they are all "decimal".  No      *)
(* function of the file ever returns an error, but lookup panics on a row   *)
(* that is shorter than the list of columns.                                *)
(***************************************************************************)
EXTENDS Integers, Sequences, ThreeValued

CONSTANTS
    Expr,             \* expressions
    Nesting(_),       \* how deep one is nested
    Lower(_),         \* strings.ToLower
    Float(_),         \* float64 of an int64: the nearest there is
    NumberIn(_),      \* the float64s ParseFloat reads in a text: one or none
    NaN,              \* the float64 it reads in "nan"
    Rendered(_),      \* a number as fmt's %v writes it
    Precedes(_, _),   \* one text comes before another
    Arithmetic(_, _, _),   \* float64 arithmetic
    Runes(_),         \* the characters of a text, by their numbers
    Bytes(_),         \* its bytes in UTF-8
    SameFold(_, _),   \* two characters differ in case at most
    BadPatterns,      \* texts that are no regular expressions
    Finds(_, _)       \* a regular expression finds a match in a text

ASSUME NaNAssumption == NaN \notin Int

Nil == <<"nil">>
Panic == <<"panic">>
BoolOf(b) == <<"bool", b>>
Truth(t) == IF t = "unknown" THEN Nil ELSE BoolOf(t = "true")

(* The value of an operator, unless evaluating an operand panicked. *)
Strict(operands, value) == IF Panic \in operands THEN Panic ELSE value

-----------------------------------------------------------------------------
(* Conversions *)

IsNumber(v) == v[1] \in {"int", "float"}
IsText(v) == v[1] = "text"

triOf(v) ==
    CASE v = Nil -> "unknown"
      [] v[1] = "bool" -> IF v[2] THEN "true" ELSE "false"
      [] IsNumber(v) -> IF v[2] # 0 THEN "true" ELSE "false"
      [] IsText(v) -> IF v[2] # "" THEN "true" ELSE "false"
      [] OTHER -> "true"

(* A bool and a *MyDecimal are not numbers to toFloat; "9" is. *)
toFloat(v) == CASE v[1] = "int" -> {Float(v[2])}
                [] v[1] = "float" -> {v[2]}
                [] IsText(v) -> NumberIn(v[2])
                [] OTHER -> {}

stringOfOr(v) == CASE IsNumber(v) -> Rendered(v)
                   [] v[1] = "bool" -> IF v[2] THEN "true" ELSE "false"
                   [] OTHER -> v[2]

NumberOf(v) == CHOOSE n \in toFloat(v) : TRUE

(* -1, 0 or 1 as the first of two things comes before, with or after.       *)
Sign(before, after) == IF before THEN -1 ELSE IF after THEN 1 ELSE 0
Ordered(m, n) == IF NaN \in {m, n} THEN 0 ELSE Sign(m < n, m > n)

(* NULL first, two numbers as numbers, all else as text. *)
compareValues(a, b) ==
    LET x == Lower(stringOfOr(a))
        y == Lower(stringOfOr(b))
    IN IF Nil \in {a, b} THEN Sign(b # Nil, a # Nil)
       ELSE IF toFloat(a) # {} /\ toFloat(b) # {}
         THEN Ordered(NumberOf(a), NumberOf(b))
       ELSE Sign(Precedes(x, y), Precedes(y, x))

-----------------------------------------------------------------------------
(* Operators *)

Relation == {"eq", "ne", "lt", "le", "gt", "ge"}
Holds(op, c) == CASE op = "eq" -> c = 0 [] op = "ne" -> c # 0
                  [] op = "lt" -> c < 0 [] op = "le" -> c <= 0
                  [] op = "gt" -> c > 0 [] op = "ge" -> c >= 0

compareOp(op, l, r) ==
    CASE op = "nulleq" -> BoolOf((l = Nil) = (r = Nil) /\ (l # Nil => compareValues(l, r) = 0))
      [] op # "nulleq" /\ Nil \in {l, r} -> Nil
      [] OTHER -> BoolOf(Holds(op, compareValues(l, r)))

arithmetic(op, l, r) ==
    IF toFloat(l) = {} \/ toFloat(r) = {} \/ (op \in {"div", "mod"} /\ toFloat(r) = {0}) THEN Nil
    ELSE <<"float", Arithmetic(op, NumberOf(l), NumberOf(r))>>

(* n.Not turns an answer around; it leaves NULL alone. *)
Turned(b, not) == BoolOf(b # not)

evalUnary(op, v) ==
    CASE op = "not" -> Truth(Not(triOf(v)))
      [] op = "plus" -> v
      [] op = "minus" -> IF toFloat(v) = {} THEN Nil
                         ELSE <<"float", Arithmetic("sub", 0, NumberOf(v))>>
      [] OTHER -> Nil

evalBetween(v, lo, hi, not) ==
    IF Nil \in {v, lo, hi} THEN Nil
    ELSE Turned(compareValues(v, lo) >= 0 /\ compareValues(v, hi) <= 0, not)

\* Mutant: NULLs in the list are passed over.
MutevalIn(v, items, not) ==
    IF v = Nil THEN Nil
    ELSE Turned(\E i \in items : i # Nil /\ compareValues(v, i) = 0, not)

evalIn(v, items, not) ==
    LET matched == \E i \in items : i # Nil /\ compareValues(v, i) = 0
    IN IF v = Nil \/ (~matched /\ Nil \in items) THEN Nil ELSE Turned(matched, not)

Newline == 10
Percent == 37
Underscore == 95
Backslash == 92

\* Mutant: no case for _.
MutPiece(byte) == IF byte = Percent THEN <<"any">> ELSE <<"rune", byte>>

(* likeToRegexp makes a regular expression of a pattern, byte by byte: each *)
(* byte but %, _ and \ is the character of that number.                     *)
Piece(byte) == CASE byte = Percent -> <<"any">>
                 [] byte = Underscore -> <<"one">>
                 [] OTHER -> <<"rune", byte>>
likeToRegexp(pattern) ==
    LET read[i \in 0..Len(pattern)] ==
          IF i = 0 THEN [pieces |-> <<>>, escaped |-> FALSE]
          ELSE LET byte == pattern[i]
                   sofar == read[i - 1]
               IN IF byte = Backslash /\ ~sofar.escaped THEN [sofar EXCEPT !.escaped = TRUE]
                  ELSE [pieces |-> Append(sofar.pieces, IF sofar.escaped THEN <<"rune", byte>>
                                                        ELSE Piece(byte)),
                        escaped |-> FALSE]
    IN read[Len(pattern)].pieces

(* MatchString: the pieces match somewhere in the text, neither end of      *)
(* which is anchored, and a dot does not match the end of a line.           *)
Takes(piece, runes) ==
    CASE piece = <<"any">> -> \A i \in DOMAIN runes : runes[i] # Newline
      [] piece = <<"one">> -> Len(runes) = 1 /\ runes[1] # Newline
      [] OTHER -> Len(runes) = 1 /\ SameFold(piece[2], runes[1])
MatchString(pieces, runes) ==
    LET ends[n \in 0..Len(pieces)] ==   \* where a match of the first n may end
          IF n = 0 THEN 0..Len(runes)
          ELSE {j \in 0..Len(runes) :
                  \E i \in ends[n - 1] : i <= j /\ Takes(pieces[n], SubSeq(runes, i + 1, j))}
    IN ends[Len(pieces)] # {}

evalLike(v, p, not) ==
    IF Nil \in {v, p} THEN Nil
    ELSE Turned(MatchString(likeToRegexp(Bytes(stringOfOr(p))), Runes(stringOfOr(v))), not)

evalRegexp(v, p, not) ==
    IF Nil \in {v, p} \/ stringOfOr(p) \in BadPatterns THEN Nil
    ELSE Turned(Finds(stringOfOr(p), stringOfOr(v)), not)

-----------------------------------------------------------------------------
(* Expressions *)

\* Mutant: counted from zero.
MutcolumnIndex(columns, name) ==
    LET mine == {i \in DOMAIN columns : Lower(columns[i]) = Lower(name)}
    IN IF mine = {} THEN 0 ELSE 1 + CHOOSE i \in mine : \A j \in mine : i <= j

(* lookup and columnIndex: the first column of that name, or 0. *)
columnIndex(columns, name) ==
    LET mine == {i \in DOMAIN columns : Lower(columns[i]) = Lower(name)}
    IN IF mine = {} THEN 0 ELSE CHOOSE i \in mine : \A j \in mine : i <= j

Cell(row, i) == IF i \in DOMAIN row THEN row[i] ELSE Panic

lookup(columns, row, name) ==
    LET i == columnIndex(columns, name) IN IF i = 0 THEN Nil ELSE Cell(row, i)

BinaryOp == {"and", "or", "nulleq", "add", "sub", "mul", "div", "mod"} \cup Relation

(* The expressions another is made of. *)
Operands(e) ==
    CASE e.op \in BinaryOp -> {e.l, e.r}
      [] e.op \in {"not", "plus", "minus", "is null", "is truth"} -> {e.of}
      [] e.op = "between" -> {e.of, e.lo, e.hi}
      [] e.op = "in" -> {e.of} \cup {e.list[i] : i \in DOMAIN e.list}
      [] e.op \in {"like", "regexp"} -> {e.of, e.pattern}
      [] OTHER -> {}

(* The parser makes trees, lists that are not empty, and literals of these  *)
(* types; Not is a bool.                                                    *)
ASSUME ExprAssumption ==
    \A e \in Expr :
      /\ Nesting(e) \in Nat
      /\ \A x \in Operands(e) : x \in Expr /\ Nesting(x) < Nesting(e)
      /\ e.op = "in" => DOMAIN e.list # {}
      /\ e.op = "value" => \/ e.v = Nil \/ e.v[1] \in {"text", "decimal"}
                           \/ (IsNumber(e.v) /\ {e.v[2]} \cup toFloat(e.v) \subseteq Int)

ASSUME NotAssumption ==
    \A e \in Expr :
      e.op \in {"is null", "is truth", "between", "in", "like", "regexp"} => e.not \in BOOLEAN

(* The value of an expression by those of its operands.  The parser has     *)
(* positions under ORDER BY only, where orderRows replaces them.            *)
ValueOf(columns, row, value, e) ==
    LET l == value[e.l]
        r == value[e.r]
        v == value[e.of]
    IN CASE e.op = "value" -> e.v
         [] e.op = "column" -> lookup(columns, row, e.name)
         [] e.op = "and" ->
              Strict({l}, IF triOf(l) = "false" THEN BoolOf(FALSE)
                          ELSE Strict({r}, Truth(And(triOf(l), triOf(r)))))
         [] e.op = "or" ->
              Strict({l}, IF triOf(l) = "true" THEN BoolOf(TRUE)
                          ELSE Strict({r}, Truth(Or(triOf(l), triOf(r)))))
         [] e.op \in Relation \cup {"nulleq"} -> Strict({l, r}, compareOp(e.op, l, r))
         [] e.op \in {"add", "sub", "mul", "div", "mod"} -> Strict({l, r}, arithmetic(e.op, l, r))
         [] e.op \in {"not", "plus", "minus"} -> Strict({v}, evalUnary(e.op, v))
         [] e.op = "is null" -> Strict({v}, Turned(v = Nil, e.not))
         [] e.op = "is truth" ->
              Strict({v}, BoolOf((IF e.not THEN notTri(triOf(v)) ELSE triOf(v)) = e.truth))
         [] e.op = "between" ->
              Strict({v, value[e.lo], value[e.hi]}, evalBetween(v, value[e.lo], value[e.hi], e.not))
         [] e.op = "in" ->
              LET items == {value[e.list[i]] : i \in DOMAIN e.list}
              IN Strict({v}, IF v = Nil THEN Nil ELSE Strict(items, evalIn(v, items, e.not)))
         [] e.op = "like" ->
              Strict({v, value[e.pattern]}, evalLike(v, value[e.pattern], e.not))
         [] e.op = "regexp" ->
              Strict({v, value[e.pattern]}, evalRegexp(v, value[e.pattern], e.not))
         [] OTHER -> Nil

evalExpr(columns, row, e) ==
    LET value[x \in Expr] == ValueOf(columns, row, value, x) IN value[e]
=============================================================================
