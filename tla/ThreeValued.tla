----------------------------- MODULE ThreeValued -----------------------------
(***************************************************************************)
(* The truth values of expr_eval.go, what its AND, OR and NOT make of them, *)
(* and what SQL's make of them.                                             *)
(***************************************************************************)
Tri == {"true", "false", "unknown"}

notTri(t) == CASE t = "true" -> "false" [] t = "false" -> "true" [] OTHER -> "unknown"

(* evalBinary, LogicAnd: an unknown left side is no obstacle. *)
And(l, r) == IF l = "false" THEN "false" ELSE IF r = "true" THEN "true" ELSE "false"

\* Mutant: what is unknown is looked for before what is true.
MutOr(l, r) == IF "unknown" \in {l, r} THEN "unknown"
               ELSE IF "true" \in {l, r} THEN "true" ELSE "false"

(* evalBinary, LogicOr. *)
Or(l, r) == IF "true" \in {l, r} THEN "true"
            ELSE IF "unknown" \in {l, r} THEN "unknown" ELSE "false"

(* evalUnary, Not: never unknown. *)
Not(t) == IF notTri(t) = "true" THEN "true" ELSE "false"

-----------------------------------------------------------------------------
(* SQL *)

SQLNot(t) == notTri(t)
SQLAnd(l, r) == IF "false" \in {l, r} THEN "false"
                ELSE IF "unknown" \in {l, r} THEN "unknown" ELSE "true"
SQLOr(l, r) == SQLNot(SQLAnd(SQLNot(l), SQLNot(r)))

(* How the truth value c of the code may stand to the truth value s of SQL. *)
Follows(s, c) == s # "unknown" => c = s             \* what SQL decides stands
SameRows(s, c) == (s = "true") <=> (c = "true")     \* WHERE cannot tell them apart
=============================================================================
