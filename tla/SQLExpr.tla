------------------------------- MODULE SQLExpr -------------------------------
(***************************************************************************)
(* What SQL makes of the expressions of ExprEval, as the reference for      *)
(* them: three-valued logic, BETWEEN and IN by the comparisons they stand   *)
(* for, LIKE of the whole text.  Values that are compared are of one kind:  *)
(* what SQL makes of a number next to a text is no concern here.            *)
(***************************************************************************)
EXTENDS ExprEval

CONSTANT Unit   \* how many units, such as a float64 is measured in, make one

ASSUME UnitAssumption == Unit \in Nat \ {0}

(* Numbers are compared as they are, whatever their types. *)
Number(v) == IF v[1] = "int" THEN v[2] * Unit ELSE v[2]
SQLCompare(a, b) ==
    IF IsNumber(a) THEN Sign(Number(a) < Number(b), Number(a) > Number(b))
    ELSE Sign(Precedes(Lower(a[2]), Lower(b[2])), Precedes(Lower(b[2]), Lower(a[2])))

SQLHolds(op, a, b) == IF Nil \in {a, b} THEN "unknown"
                      ELSE IF Holds(op, SQLCompare(a, b)) THEN "true" ELSE "false"
SQLTurned(t, not) == IF not THEN SQLNot(t) ELSE t

(* LIKE of the whole text, by where each character of the pattern, which    *)
(* has no escapes, ends in it.                                              *)
SQLLike(text, pattern) ==
    LET t == Runes(text)
        p == Runes(pattern)
    IN \E cut \in [0..Len(p) -> 0..Len(t)] :
         /\ cut[0] = 0 /\ cut[Len(p)] = Len(t)
         /\ \A n \in DOMAIN p :
              IF p[n] = Percent THEN cut[n] >= cut[n - 1]
              ELSE cut[n] = cut[n - 1] + 1 /\ (p[n] = Underscore \/ SameFold(p[n], t[cut[n]]))

(* The disjunction of a set of truth values. *)
SQLSome(truths) == IF "true" \in truths THEN "true"
                   ELSE IF "unknown" \in truths THEN "unknown" ELSE "false"

(* The truth of an expression, whose operands are columns and constants     *)
(* where SQL wants a value, by their values and the truth of the conditions  *)
(* it is made of.                                                           *)
SQLTruthBy(value, truth, e) ==
    LET If(b) == IF b THEN "true" ELSE "false"
    IN CASE e.op \in {"value", "column"} -> triOf(value[e])
         [] e.op = "and" -> SQLAnd(truth[e.l], truth[e.r])
         [] e.op = "or" -> SQLOr(truth[e.l], truth[e.r])
         [] e.op = "not" -> SQLNot(truth[e.of])
         [] e.op \in Relation -> SQLHolds(e.op, value[e.l], value[e.r])
         [] e.op = "nulleq" -> IF Nil \in {value[e.l], value[e.r]} THEN If(value[e.l] = value[e.r])
                               ELSE SQLHolds("eq", value[e.l], value[e.r])
         [] e.op = "is null" -> If((value[e.of] = Nil) # e.not)
         [] e.op = "is truth" -> If((truth[e.of] = e.truth) # e.not)
         [] e.op = "between" ->
              SQLTurned(SQLAnd(SQLHolds("ge", value[e.of], value[e.lo]),
                               SQLHolds("le", value[e.of], value[e.hi])), e.not)
         [] e.op = "in" ->
              SQLTurned(SQLSome({SQLHolds("eq", value[e.of], value[e.list[i]]) : i \in DOMAIN e.list}),
                        e.not)
         [] e.op = "like" ->
              SQLTurned(IF Nil \in {value[e.of], value[e.pattern]} THEN "unknown"
                        ELSE If(SQLLike(value[e.of][2], value[e.pattern][2])), e.not)
         [] OTHER -> "unknown"

SQLTruth(columns, row, e) ==
    LET truth[x \in Expr] == SQLTruthBy([y \in Expr |-> evalExpr(columns, row, y)], truth, x)
    IN truth[e]
=============================================================================
