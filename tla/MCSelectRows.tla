---------------------------- MODULE MCSelectRows ----------------------------
(***************************************************************************)
(* Small tables and statements for SelectRows.                              *)
(***************************************************************************)
EXTENDS SelectRows

(* Texts.  The character ' is written for one that UTF-8 has two bytes for. *)
MCLower(t) == IF t = "Ann" THEN "ann" ELSE IF t = "Id" THEN "id" ELSE t
MCAlphabet == <<"", "-9", "0", "1", "10", "100", "102", "2", "3", "4", "5", "8", "8.5", "9", "9.5",
                "ann", "bob", "false", "joanna", "nan", "ren'e", "true">>
MCPlace(t) == CHOOSE i \in DOMAIN MCAlphabet : MCAlphabet[i] = t
MCPrecedes(t, s) == MCPlace(t) < MCPlace(s)
MCCode(c) ==
    CASE c = "%" -> Percent [] c = "_" -> Underscore [] c = "'" -> 233
      [] OTHER -> LET From(n, marks) == {n + i : i \in {j \in 1..Len(marks) : SubSeq(marks, j, j) = c}}
                  IN CHOOSE n \in From(96, "abcdefghijklmnopqrstuvwxyz")
                                 \cup From(64, "ABCDEFGHIJKLMNOPQRSTUVWXYZ")
                                 \cup From(39, "()*+,-./0123456789") : TRUE
MCRunes(t) == [i \in 1..Len(t) |-> MCCode(SubSeq(t, i, i))]
MCBytes(t) == FlattenSeq([i \in 1..Len(t) |-> LET n == MCRunes(t)[i]
                                              IN IF n = 233 THEN <<195, 169>> ELSE <<n>>])
MCSameFold(m, n) == m = n \/ (m \in 65..90 /\ n = m + 32) \/ (n \in 65..90 /\ m = n + 32)
MCFinds(p, t) == \E i \in 1..Len(t) + 1, j \in 0..Len(t) : SubSeq(t, i, j) = p

(* Numbers: floats are measured in halves, and past 100 they are even.      *)
MCFloat(n) == IF n <= 100 THEN 2 * n ELSE 4 * (n \div 2)
MCNumberIn(t) == CASE t = "9" -> {18} [] t = "10" -> {20} [] t = "nan" -> {NaN} [] OTHER -> {}
MCRendered(v) ==
    CASE v[2] = NaN -> "nan"
      [] v[2] # NaN /\ v[1] = "float" -> ToString(v[2] \div 2) \o IF v[2] % 2 = 0 THEN "" ELSE ".5"
      [] OTHER -> ToString(v[2])
MCArithmetic(op, m, n) ==
    IF NaN \in {m, n} THEN NaN
    ELSE CASE op = "add" -> m + n [] op = "sub" -> m - n [] op = "mul" -> (m * n) \div 2
           [] op = "div" -> (2 * m) \div n [] op = "mod" -> m % n

(* Tables: one with NULLs, in it names that differ in case only; one of     *)
(* large numbers, with rows that tie; an empty one; one of a column of two  *)
(* types, whose order is none; one with a short row.                        *)
Halves(n) == <<"float", n>>
Fl(n) == Halves(2 * n)
Tx(t) == <<"text", t>>
MCCols == <<"Id", "name", "score">>
MCPeople == [columns |-> MCCols, rows |-> <<
    <<Fl(1), Tx("bob"), Nil>>, <<Fl(2), Tx("Ann"), Fl(9)>>,
    <<Fl(3), Tx("ann"), Fl(10)>>, <<Fl(4), Nil, Fl(9)>>, <<Fl(5), Tx("joanna"), Halves(17)>> >>]
MCLarge == [columns |-> MCCols, rows |-> <<
    <<Fl(4), Tx("bob"), Fl(102)>>, <<Fl(2), Tx("ann"), Fl(100)>>,
    <<Fl(3), Tx("ren'e"), Fl(102)>>, <<Fl(1), Tx("joanna"), Fl(100)>> >>]
MCEmpty == [columns |-> MCCols, rows |-> <<>>]
MCMixed == [columns |-> MCCols, rows |-> <<
    <<Fl(1), Tx("bob"), Fl(10)>>, <<Fl(2), Tx("ann"), Tx("nan")>>, <<Fl(3), Nil, Fl(9)>> >>]
MCRagged == [columns |-> MCCols, rows |-> <<
    <<Fl(2), Tx("bob"), Fl(3)>>, <<Fl(1), Tx("ann")>>, <<Fl(3), Tx("bob"), Fl(2)>> >>]

(* Expressions *)
Co(c) == [op |-> "column", name |-> c]
Li(v) == [op |-> "value", v |-> v]
In(n) == Li(<<"int", n>>)
Bi(op, x, y) == [op |-> op, l |-> x, r |-> y]
Un(op, x) == [op |-> op, of |-> x]
IsIn(x, l, n) == [op |-> "in", of |-> x, list |-> l, not |-> n]
Between(x, a, b, n) == [op |-> "between", of |-> x, lo |-> a, hi |-> b, not |-> n]
Alike(op, x, p, n) == [op |-> op, of |-> x, pattern |-> Li(p), not |-> n]

MCAtoms == {
    Bi("gt", Co("score"), In(9)), Bi("eq", Co("name"), Li(Tx("ann"))), Bi("ne", Co("id"), In(3)), Bi("eq", Co("score"), In(101)),
    [op |-> "is null", of |-> Co("score"), not |-> FALSE],
    IsIn(Co("name"), <<Li(Tx("bob")), Li(Nil)>>, TRUE), Bi("nulleq", Co("score"), Li(Nil)),
    Between(Co("score"), In(8), In(9), TRUE) }
MCPairs == {Bi(op, x, y) : op \in {"and", "or"}, x \in MCAtoms, y \in MCAtoms}
MCNots(S) == {Un("not", x) : x \in S}
MCOthers == {
    Alike("like", Co("name"), Tx("an%"), FALSE), Alike("like", Co("name"), Tx("%o_N%"), FALSE),
    Alike("like", Co("name"), Tx("%b__b%"), TRUE), Alike("like", Co("name"), Tx("%n'e%"), FALSE),
    Alike("regexp", Co("name"), Tx("an"), FALSE),
    Alike("regexp", Co("name"), Tx("("), TRUE),
    Between(Co("score"), In(9), Co("id"), TRUE),
    Bi("gt", Bi("add", Co("score"), In(1)), In(10)), Bi("le", Bi("div", Co("score"), In(0)), In(1)),
    Bi("lt", Un("minus", Co("score")), Un("plus", In(1))), Bi("ge", Co("score"), Li(<<"decimal", "9.5">>)),
    [op |-> "is truth", of |-> Co("score"), not |-> TRUE, truth |-> "true"],
    [op |-> "function"], Co("nosuch"), Li(Tx("")), Bi("eq", Co("nosuch"), Bi("eq", Co("id"), In(1))) }

Stmt(w, o, l, f) == [where |-> w, order |-> o, limit |-> l, fields |-> f]
By(e, d) == [by |-> e, desc |-> d]
Pos(n) == [op |-> "position", n |-> n]
Lim(o, c) == [offset |-> o, count |-> c]
Fld(e, a) == [expr |-> e, as |-> a]
Star == <<Fld(None, "")>>
MCFields == { Star, <<Fld(Co("NAME"), ""), Fld(Co("score"), "")>>,
    <<Fld(Bi("eq", Co("score"), In(9)), "nine"), Fld(Li(<<"decimal", "9.5">>), "")>>,
    <<Fld(Bi("gt", Co("id"), In(2)), ""), Fld(Un("plus", Co("name")), "")>>,
    <<Fld(Un("plus", Li(<<"decimal", "9.5">>)), "")>>, <<Fld(Co("score"), "points"), Fld(Co("nosuch"), "")>> }
MCOrders == { <<>>, <<By(Co("score"), FALSE)>>, <<By(Co("score"), TRUE), By(Co("name"), FALSE)>>,
              <<By(Pos(1), FALSE)>>, <<By(Pos(2), TRUE)>> }
MCLimits == {None, Lim(1, 2), Lim(0, 15), Lim(9, 0), Lim(2, 9)}
MCSomeWheres == {None, CHOOSE x \in MCAtoms : x.op = "ne"} \cup MCOthers

MCDatum == {Nil, Halves(17)} \cup {Fl(n) : n \in {1, 2, 3, 4, 5, 8, 9, 10, 100, 102}}
               \cup {Tx(t) : t \in {"bob", "Ann", "ann", "joanna", "nan", "ren'e"}}
MCName == {"Id", "name", "score"}
MCTables == {MCPeople, MCLarge, MCEmpty, MCMixed, MCRagged}
MCSelects ==
    {Stmt(w, <<By(Co("name"), TRUE)>>, Lim(1, 2), Star) :
        w \in MCAtoms \cup MCPairs \cup MCNots(MCAtoms) \cup MCNots(MCPairs) \cup MCNots(MCNots(MCAtoms))}
    \cup {Stmt(w, o, l, Star) : w \in MCSomeWheres, o \in MCOrders, l \in {None, Lim(1, 2)}}
    \cup {Stmt(None, o, l, f) : o \in MCOrders, l \in MCLimits, f \in MCFields}

(* The expressions of some statements, with their operands. *)
With(S) == UNION {{e} \cup Operands(e) : e \in S}
Expressions(selects) == With(With(With(With(UNION
    {({s.where} \cup {s.order[i].by : i \in DOMAIN s.order} \cup {s.fields[i].expr : i \in DOMAIN s.fields})
        \ {None} : s \in selects}))))
MCExpressions == Expressions(MCSelects)

(* TLC looks a constant up faster when it is given the name of a value. *)
MCStatements == MCSelects
MCExpr == MCExpressions
RECURSIVE MCNesting(_)
MCNesting(e) == 1 + Max({0} \cup {MCNesting(x) : x \in Operands(e)})
=============================================================================
