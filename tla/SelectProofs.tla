---------------------------- MODULE SelectProofs ----------------------------
(***************************************************************************)
(* Proofs about SelectRows, in five parts.                                  *)
(*                                                                         *)
(* 1. Recursions and loops are what their rounds make them: evalExpr has    *)
(*    the value ValueOf gives it, by induction on Nesting; Filter and       *)
(*    Projection are the last of their rounds.                              *)
(* 2. SelectInv, the inductive invariant: what each function of             *)
(*    handleSelect returned is what it makes of its argument, a panic had   *)
(*    a short row for a reason, and a refusal rows that cannot be built.    *)
(* 3. Conditions: comparisons of operands of one kind are SQL's, and AND,   *)
(*    OR and NOT carry over what holds of their operands.                   *)
(* 4. Sorting: the less function is the strict weak order of ORDER BY, and  *)
(*    SQL's order of the rows, which is total, is that order, with the rows *)
(*    that tie in the order of the table.                                   *)
(* 5. The page: a row stands on it where its rank in SQL's order puts it.   *)
(***************************************************************************)
EXTENDS SelectRows, Counting

-----------------------------------------------------------------------------
(* Expressions have values: the recursion of evalExpr ends. *)

LEMMA ValueIsLocal ==
  ASSUME NEW columns, NEW row, NEW f, NEW g, NEW e \in Expr,
         \A x \in Operands(e) : f[x] = g[x]
  PROVE  ValueOf(columns, row, f, e) = ValueOf(columns, row, g, e)
<1>1. CASE e.op \in BinaryOp
  <2>1. f[e.l] = g[e.l] /\ f[e.r] = g[e.r]
    BY <1>1 DEF Operands, BinaryOp, Relation
  <2>2. QED
    BY <1>1, <2>1 DEF ValueOf, BinaryOp, Relation
<1>2. CASE e.op \in {"not", "plus", "minus", "is null", "is truth"}
  <2>1. f[e.of] = g[e.of]
    BY <1>2 DEF Operands, BinaryOp, Relation
  <2>2. QED
    BY <1>2, <2>1 DEF ValueOf, BinaryOp, Relation
<1>3. CASE e.op = "between"
  <2>1. f[e.of] = g[e.of] /\ f[e.lo] = g[e.lo] /\ f[e.hi] = g[e.hi]
    BY <1>3 DEF Operands, BinaryOp, Relation
  <2>2. QED
    BY <1>3, <2>1 DEF ValueOf, BinaryOp, Relation
<1>4. CASE e.op = "in"
  <2>1. f[e.of] = g[e.of] /\ \A i \in DOMAIN e.list : f[e.list[i]] = g[e.list[i]]
    BY <1>4 DEF Operands, BinaryOp, Relation
  <2>2. {f[e.list[i]] : i \in DOMAIN e.list} = {g[e.list[i]] : i \in DOMAIN e.list}
    BY <2>1
  <2>3. QED
    BY <1>4, <2>1, <2>2 DEF ValueOf, BinaryOp, Relation
<1>5. CASE e.op \in {"like", "regexp"}
  <2>1. f[e.of] = g[e.of] /\ f[e.pattern] = g[e.pattern]
    BY <1>5 DEF Operands, BinaryOp, Relation
  <2>2. QED
    BY <1>5, <2>1 DEF ValueOf, BinaryOp, Relation
<1>6. QED
  BY <1>1, <1>2, <1>3, <1>4, <1>5 DEF ValueOf, BinaryOp, Relation

(* f has the values of the expressions that are nested less than n deep.    *)
Evaluated(columns, row, f, n) ==
    /\ f = [x \in Expr |-> f[x]]
    /\ \A x \in Expr : Nesting(x) < n => f[x] = ValueOf(columns, row, f, x)

LEMMA EvaluatedOnce ==
  ASSUME NEW columns, NEW row, NEW f, NEW g, NEW m \in Nat, NEW n \in Nat,
         Evaluated(columns, row, f, m), Evaluated(columns, row, g, n)
  PROVE  \A x \in Expr : Nesting(x) < m /\ Nesting(x) < n => f[x] = g[x]
<1> DEFINE T == {k \in Nat : \A x \in Expr :
                   Nesting(x) < k /\ Nesting(x) < m /\ Nesting(x) < n => f[x] = g[x]}
<1>1. 0 \in T
  BY ExprAssumption
<1>2. ASSUME NEW k \in T PROVE k + 1 \in T
  <2>1. ASSUME NEW x \in Expr, Nesting(x) < k + 1, Nesting(x) < m, Nesting(x) < n
        PROVE  f[x] = g[x]
    <3>1. \A y \in Operands(x) : y \in Expr /\ Nesting(y) \in Nat /\ Nesting(y) < Nesting(x)
      BY ExprAssumption
    <3>2. k \in Nat /\ Nesting(x) \in Nat
      BY ExprAssumption
    <3>3. \A y \in Operands(x) : f[y] = g[y]
      BY <2>1, <3>1, <3>2
    <3>4. ValueOf(columns, row, f, x) = ValueOf(columns, row, g, x)
      BY <3>3, ValueIsLocal
    <3>5. f[x] = ValueOf(columns, row, f, x) /\ g[x] = ValueOf(columns, row, g, x)
      BY <2>1 DEF Evaluated
    <3>6. QED
      BY <3>4, <3>5
  <2>2. QED
    BY <2>1
<1>3. T = Nat
  <2>1. T \in SUBSET Nat
    OBVIOUS
  <2> HIDE DEF T
  <2>2. QED
    BY <1>1, <1>2, <2>1, Counted
<1>4. ASSUME NEW x \in Expr, Nesting(x) < m, Nesting(x) < n PROVE f[x] = g[x]
  <2>1. Nesting(x) \in Nat /\ Nesting(x) + 1 \in T /\ Nesting(x) < Nesting(x) + 1
    BY <1>3, ExprAssumption
  <2>2. QED
    BY <1>4, <2>1
<1>5. QED
  BY <1>4

LEMMA EvaluatedToAnyDepth ==
  ASSUME NEW columns, NEW row, NEW n \in Nat
  PROVE  \E f : Evaluated(columns, row, f, n)
<1> DEFINE T == {k \in Nat : \E f : Evaluated(columns, row, f, k)}
<1>1. 0 \in T
  <2> DEFINE f == [x \in Expr |-> x]
  <2>1. f = [x \in Expr |-> f[x]] /\ \A x \in Expr : ~(Nesting(x) < 0)
    BY ExprAssumption
  <2> HIDE DEF f
  <2>2. Evaluated(columns, row, f, 0)
    BY <2>1 DEF Evaluated
  <2>3. QED
    BY <2>2
<1>2. ASSUME NEW k \in T PROVE k + 1 \in T
  <2>1. PICK f : Evaluated(columns, row, f, k)
    OBVIOUS
  <2> DEFINE g == [x \in Expr |-> ValueOf(columns, row, f, x)]
  <2>2. g = [x \in Expr |-> g[x]] /\ \A x \in Expr : g[x] = ValueOf(columns, row, f, x)
    OBVIOUS
  <2> HIDE DEF g
  <2>3. ASSUME NEW x \in Expr, Nesting(x) < k + 1
        PROVE  g[x] = ValueOf(columns, row, g, x)
    <3>1. \A y \in Operands(x) : y \in Expr /\ Nesting(y) \in Nat /\ Nesting(y) < Nesting(x)
      BY ExprAssumption
    <3>2. k \in Nat /\ Nesting(x) \in Nat
      BY ExprAssumption
    <3>3. \A y \in Operands(x) : f[y] = ValueOf(columns, row, f, y)
      BY <2>1, <2>3, <3>1, <3>2 DEF Evaluated
    <3>4. \A y \in Operands(x) : f[y] = g[y]
      BY <2>2, <3>1, <3>3
    <3>5. QED
      BY <2>2, <3>4, ValueIsLocal
  <2>4. Evaluated(columns, row, g, k + 1)
    BY <2>2, <2>3 DEF Evaluated
  <2>5. QED
    BY <2>4
<1>3. T = Nat
  <2>1. T \in SUBSET Nat
    OBVIOUS
  <2> HIDE DEF T
  <2>2. QED
    BY <1>1, <1>2, <2>1, Counted
<1>4. QED
  BY <1>3

LEMMA EvalExprIsValueOf ==
  ASSUME NEW columns, NEW row
  PROVE  LET value == [x \in Expr |-> evalExpr(columns, row, x)]
         IN \A e \in Expr : evalExpr(columns, row, e) = ValueOf(columns, row, value, e)
<1> DEFINE Good(f) == f = [x \in Expr |-> ValueOf(columns, row, f, x)]
           value == CHOOSE f : Good(f)
           upto(n) == CHOOSE f : Evaluated(columns, row, f, n)
           h == [x \in Expr |-> upto(Nesting(x) + 1)[x]]
<1>1. \A n \in Nat : Evaluated(columns, row, upto(n), n)
  BY EvaluatedToAnyDepth
<1> HIDE DEF upto
<1>2. h = [x \in Expr |-> h[x]] /\ \A x \in Expr : h[x] = upto(Nesting(x) + 1)[x]
  OBVIOUS
<1> HIDE DEF h
<1>3. ASSUME NEW x \in Expr PROVE h[x] = ValueOf(columns, row, h, x)
  <2> DEFINE n == Nesting(x) + 1
             f == upto(n)
  <2>1. n \in Nat /\ Nesting(x) < n
    BY ExprAssumption
  <2>2. Evaluated(columns, row, f, n)
    BY <1>1, <2>1
  <2>3. h[x] = ValueOf(columns, row, f, x)
    BY <1>2, <2>1, <2>2 DEF Evaluated
  <2>4. ASSUME NEW y \in Operands(x) PROVE f[y] = h[y]
    <3>1. y \in Expr /\ Nesting(y) \in Nat /\ Nesting(y) < n /\ Nesting(y) + 1 \in Nat
      BY <2>1, ExprAssumption
    <3>2. Evaluated(columns, row, upto(Nesting(y) + 1), Nesting(y) + 1)
      BY <1>1, <3>1
    <3>3. Nesting(y) < Nesting(y) + 1
      BY <3>1
    <3> HIDE DEF n, f
    <3>4. f[y] = upto(Nesting(y) + 1)[y]
      BY <2>1, <2>2, <3>1, <3>2, <3>3, EvaluatedOnce
    <3>5. QED
      BY <1>2, <3>1, <3>4
  <2>5. QED
    <3> HIDE DEF n, f
    <3>1. ValueOf(columns, row, f, x) = ValueOf(columns, row, h, x)
      BY <2>4, ValueIsLocal
    <3>2. QED
      BY <2>3, <3>1
<1>4. Good(h)
  BY <1>2, <1>3
<1> HIDE DEF Good
<1>5. Good(value)
  BY <1>4
<1>6. \A e \in Expr : evalExpr(columns, row, e) = value[e]
  BY DEF evalExpr, Good
<1> HIDE DEF value
<1>7. value = [x \in Expr |-> evalExpr(columns, row, x)]
  BY <1>5, <1>6 DEF Good
<1>8. ASSUME NEW e \in Expr PROVE evalExpr(columns, row, e) = ValueOf(columns, row, value, e)
  BY <1>5, <1>6 DEF Good
<1>9. QED
  BY <1>7, <1>8

(* What holds of an expression whenever it holds of its operands holds of   *)
(* all.                                                                     *)
LEMMA ByNesting ==
  ASSUME NEW S \in SUBSET Expr,
         \A e \in Expr : Operands(e) \subseteq S => e \in S
  PROVE  S = Expr
<1> DEFINE T == {k \in Nat : \A e \in Expr : Nesting(e) < k => e \in S}
<1>1. 0 \in T
  BY ExprAssumption
<1>2. ASSUME NEW k \in T PROVE k + 1 \in T
  <2>1. ASSUME NEW e \in Expr, Nesting(e) < k + 1 PROVE e \in S
    <3>1. \A x \in Operands(e) : x \in Expr /\ Nesting(x) < Nesting(e) /\ Nesting(x) \in Nat
      BY ExprAssumption
    <3>2. k \in Nat /\ Nesting(e) \in Nat
      BY ExprAssumption
    <3>3. \A x \in Operands(e) : x \in S
      BY <2>1, <3>1, <3>2
    <3>4. QED
      BY <3>3
  <2>2. QED
    BY <2>1
<1>3. T = Nat
  <2>1. T \in SUBSET Nat
    OBVIOUS
  <2> HIDE DEF T
  <2>2. QED
    BY <1>1, <1>2, <2>1, Counted
<1>4. ASSUME NEW e \in Expr PROVE e \in S
  <2>1. Nesting(e) + 1 \in T /\ Nesting(e) < Nesting(e) + 1
    BY <1>3, ExprAssumption
  <2>2. QED
    BY <2>1
<1>5. QED
  BY <1>4

-----------------------------------------------------------------------------
(* The loops of select_handler.go *)

(* The rows that Filter has kept after each round. *)
Filtering(rows, keep, after) ==
    /\ after[0] = <<>>
    /\ \A i \in 1..Len(rows) :
         after[i] = IF keep[rows[i]] THEN Append(after[i - 1], rows[i]) ELSE after[i - 1]

LEMMA FilterLoops ==
  ASSUME NEW S, NEW rows \in Seq(S), NEW keep
  PROVE  \E after \in [0..Len(rows) -> Seq(S)] :
           Filtering(rows, keep, after) /\ Filter(rows, keep) = after[Len(rows)]
<1> DEFINE n == Len(rows)
           D == Seq(S)
           round == [x \in D \X (1..n) |-> IF keep[rows[x[2]]] THEN Append(x[1], rows[x[2]]) ELSE x[1]]
           Body(after) == [i \in 0..n |->
                             IF i = 0 THEN <<>>
                             ELSE IF keep[rows[i]] THEN Append(after[i - 1], rows[i]) ELSE after[i - 1]]
           after == CHOOSE f : f = Body(f)
<1>1. n \in Nat /\ <<>> \in D /\ \A i \in 1..n : rows[i] \in S
  OBVIOUS
<1>2. round \in [D \X (1..n) -> D]
  OBVIOUS
<1>3. \A d \in D, i \in 1..n :
        round[<<d, i>>] = IF keep[rows[i]] THEN Append(d, rows[i]) ELSE d
  OBVIOUS
<1> HIDE DEF D, round, n
<1>4. PICK f \in [0..n -> D] : Loops(f, <<>>, n, round)
  BY <1>1, <1>2, LoopExists, Zenon
<1>5. \A i \in 1..n : f[i] = IF keep[rows[i]] THEN Append(f[i - 1], rows[i]) ELSE f[i - 1]
  <2>1. ASSUME NEW i \in 1..n
        PROVE  f[i] = IF keep[rows[i]] THEN Append(f[i - 1], rows[i]) ELSE f[i - 1]
    <3>1. i - 1 \in 0..n
      BY <1>1
    <3>2. f[i - 1] \in D /\ f[i] = round[<<f[i - 1], i>>]
      BY <1>4, <3>1 DEF Loops
    <3>3. QED
      BY <1>3, <3>2
  <2>2. QED
    BY <2>1
<1>6. f = Body(f)
  <2> DEFINE g == Body(f)
  <2>1. ASSUME NEW i \in 0..n PROVE f[i] = g[i]
    <3>1. CASE i = 0
      BY <1>1, <1>4, <3>1 DEF Loops
    <3>2. CASE i # 0
      <4>1. i \in 1..n
        BY <1>1, <3>2
      <4>2. QED
        BY <1>5, <3>2, <4>1
    <3>3. QED
      BY <3>1, <3>2
  <2>2. f = [i \in 0..n |-> f[i]] /\ g = [i \in 0..n |-> g[i]]
    BY <1>4
  <2> HIDE DEF g
  <2>3. f = g
    BY <2>1, <2>2
  <2>4. QED
    BY <2>3 DEF g
<1>7. after = Body(after)
  <2> HIDE DEF Body
  <2>1. QED
    BY <1>6
<1>8. Filter(rows, keep) = after[n]
  BY DEF Filter, n
<1> HIDE DEF after
<1>9. Filtering(rows, keep, after)
  <2>1. \A i \in 0..n : after[i] =
          IF i = 0 THEN <<>>
          ELSE IF keep[rows[i]] THEN Append(after[i - 1], rows[i]) ELSE after[i - 1]
    BY <1>7
  <2>2. QED
    BY <1>1, <2>1 DEF Filtering, n
<1>10. \A i \in 0..n : after[i] \in D
  <2> DEFINE T == {i \in Nat : i <= n => after[i] \in D}
  <2>1. 0 \in T
    BY <1>1, <1>9 DEF Filtering
  <2>2. ASSUME NEW i \in T PROVE i + 1 \in T
    <3>1. SUFFICES ASSUME i + 1 <= n PROVE after[i + 1] \in D
      OBVIOUS
    <3>2. i \in Nat /\ after[i] \in D /\ i + 1 \in 1..n /\ (i + 1) - 1 = i
      BY <1>1, <3>1
    <3>3. after[i + 1] = IF keep[rows[i + 1]] THEN Append(after[i], rows[i + 1]) ELSE after[i]
      BY <1>9, <3>2 DEF Filtering, n
    <3>4. QED
      BY <1>1, <3>2, <3>3 DEF D
  <2>3. T \in SUBSET Nat
    OBVIOUS
  <2> HIDE DEF T
  <2>4. T = Nat
    BY <2>1, <2>2, <2>3, Counted
  <2>5. QED
    BY <2>4 DEF T
<1>11. after = [i \in 0..n |-> after[i]]
  BY <1>7
<1>12. after \in [0..n -> D]
  BY <1>10, <1>11
<1>13. QED
  BY <1>8, <1>9, <1>12 DEF n, D

(* The columns the fields of a statement stand for. *)
ProjsOf(fields) == UNION {ToSet(Projs(fields[i])) : i \in DOMAIN fields}

LEMMA ProjsType ==
  ASSUME NEW f, Columns \in Seq(Name)
  PROVE  Projs(f) \in Seq(ToSet(Projs(f)))
<1>1. CASE f.expr = None
  <2>1. DOMAIN Columns = 1..Len(Columns) /\ Len(Columns) \in Nat
    OBVIOUS
  <2>2. Projs(f) = [i \in 1..Len(Columns) |-> [col |-> Columns[i], idx |-> i, expr |-> None]]
    BY <1>1, <2>1 DEF Projs
  <2> DEFINE p == Projs(f)
  <2> HIDE DEF p
  <2>3. p = [i \in 1..Len(Columns) |-> p[i]]
    BY <2>2 DEF p
  <2>4. DOMAIN p = 1..Len(Columns) /\ \A i \in 1..Len(Columns) : p[i] \in ToSet(p)
    BY <2>3 DEF ToSet
  <2>5. p \in [1..Len(Columns) -> ToSet(p)]
    BY <2>3, <2>4
  <2>6. p \in Seq(ToSet(p))
    BY <2>1, <2>5
  <2>7. QED
    BY <2>6 DEF p
<1>2. CASE f.expr # None
  <2>1. PICK x : Projs(f) = <<x>>
    BY <1>2 DEF Projs
  <2>2. ToSet(<<x>>) = {x}
    BY DEF ToSet
  <2>3. QED
    BY <2>1, <2>2
<1>3. QED
  BY <1>1, <1>2

(* What projectRows has of its list projs after each field. *)
Listing(fields, after) ==
    /\ after[0] = <<>>
    /\ \A i \in 1..Len(fields) : after[i] = after[i - 1] \o Projs(fields[i])

LEMMA ProjectionLoops ==
  ASSUME stmt.fields \in Seq(ToSet(stmt.fields)), Columns \in Seq(Name)
  PROVE  \E after \in [0..Len(stmt.fields) -> Seq(ProjsOf(stmt.fields))] :
           Listing(stmt.fields, after) /\ Projection = after[Len(stmt.fields)]
<1> DEFINE n == Len(stmt.fields)
           D == Seq(ProjsOf(stmt.fields))
           round == [x \in D \X (1..n) |-> x[1] \o Projs(stmt.fields[x[2]])]
           Body(after) == [i \in 0..n |-> IF i = 0 THEN <<>> ELSE after[i - 1] \o Projs(stmt.fields[i])]
           after == CHOOSE f : f = Body(f)
<1>1. n \in Nat /\ <<>> \in D
  OBVIOUS
<1>2. \A d \in D, i \in 1..n : d \o Projs(stmt.fields[i]) \in D
  <2>1. ASSUME NEW d \in D, NEW i \in 1..n PROVE d \o Projs(stmt.fields[i]) \in D
    <3>1. ToSet(Projs(stmt.fields[i])) \subseteq ProjsOf(stmt.fields)
      BY DEF ProjsOf
    <3>2. Projs(stmt.fields[i]) \in Seq(ToSet(Projs(stmt.fields[i])))
      BY ProjsType
    <3>3. Projs(stmt.fields[i]) \in D
      <4> DEFINE p == Projs(stmt.fields[i])
                 P == ProjsOf(stmt.fields)
                 R == ToSet(p)
      <4>1. p \in Seq(R) /\ R \subseteq P
        BY <3>1, <3>2
      <4> HIDE DEF p, P, R
      <4>2. p \in Seq(P)
        BY <4>1
      <4>3. QED
        BY <4>2 DEF p, P
    <3>4. QED
      BY <3>3
  <2>2. QED
    BY <2>1
<1>3. round \in [D \X (1..n) -> D] /\ \A d \in D, i \in 1..n : round[<<d, i>>] = d \o Projs(stmt.fields[i])
  <2> HIDE DEF D, n
  <2>1. QED
    BY <1>2
<1> HIDE DEF D, round, n
<1>4. PICK f \in [0..n -> D] : Loops(f, <<>>, n, round)
  BY <1>1, <1>3, LoopExists, Zenon
<1>5. ASSUME NEW i \in 1..n PROVE f[i] = f[i - 1] \o Projs(stmt.fields[i])
  <2>1. i - 1 \in 0..n
    BY <1>1
  <2>2. f[i - 1] \in D /\ f[i] = round[<<f[i - 1], i>>]
    BY <1>4, <2>1 DEF Loops
  <2>3. QED
    BY <1>3, <2>2
<1>6. f = Body(f)
  <2> DEFINE g == Body(f)
  <2>1. ASSUME NEW i \in 0..n PROVE f[i] = g[i]
    <3>1. CASE i = 0
      BY <1>1, <1>4, <3>1 DEF Loops
    <3>2. CASE i # 0
      <4>1. i \in 1..n
        BY <1>1, <3>2
      <4>2. QED
        BY <1>5, <3>2, <4>1
    <3>3. QED
      BY <3>1, <3>2
  <2>2. f = [i \in 0..n |-> f[i]] /\ g = [i \in 0..n |-> g[i]]
    BY <1>4
  <2> HIDE DEF g
  <2>3. f = g
    BY <2>1, <2>2
  <2>4. QED
    BY <2>3 DEF g
<1>7. after = Body(after)
  <2> HIDE DEF Body
  <2>1. QED
    BY <1>6
<1>8. Projection = after[n]
  BY DEF Projection, n
<1> HIDE DEF after
<1>9. Listing(stmt.fields, after)
  <2>1. \A i \in 0..n : after[i] = IF i = 0 THEN <<>> ELSE after[i - 1] \o Projs(stmt.fields[i])
    BY <1>7
  <2>2. QED
    BY <1>1, <2>1 DEF Listing, n
<1>10. \A i \in 0..n : after[i] \in D
  <2> DEFINE T == {i \in Nat : i <= n => after[i] \in D}
  <2>1. 0 \in T
    BY <1>1, <1>9 DEF Listing
  <2>2. ASSUME NEW i \in T PROVE i + 1 \in T
    <3>1. SUFFICES ASSUME i + 1 <= n PROVE after[i + 1] \in D
      OBVIOUS
    <3>2. i \in Nat /\ after[i] \in D /\ i + 1 \in 1..n /\ (i + 1) - 1 = i
      BY <1>1, <3>1
    <3>3. after[i + 1] = after[i] \o Projs(stmt.fields[i + 1])
      BY <1>9, <3>2 DEF Listing, n
    <3>4. QED
      BY <1>2, <3>2, <3>3
  <2>3. T \in SUBSET Nat
    OBVIOUS
  <2> HIDE DEF T
  <2>4. T = Nat
    BY <2>1, <2>2, <2>3, Counted
  <2>5. QED
    BY <2>4 DEF T
<1>11. after = [i \in 0..n |-> after[i]]
  BY <1>7
<1>12. after \in [0..n -> D]
  BY <1>10, <1>11
<1>13. QED
  BY <1>8, <1>9, <1>12 DEF n, D

-----------------------------------------------------------------------------
(* The state of handleSelect *)

LEMMA ElementsOf ==
  ASSUME NEW S, NEW s \in Seq(S)
  PROVE  s \in Seq(ToSet(s)) /\ ToSet(s) \subseteq S /\ \A i \in DOMAIN s : s[i] \in ToSet(s)
<1>1. DOMAIN s = 1..Len(s) /\ Len(s) \in Nat /\ s = [i \in 1..Len(s) |-> s[i]]
  OBVIOUS
<1>2. \A i \in 1..Len(s) : s[i] \in ToSet(s) /\ s[i] \in S
  BY <1>1 DEF ToSet
<1>3. s \in [1..Len(s) -> ToSet(s)]
  BY <1>1, <1>2
<1>4. \A x \in ToSet(s) : x \in S
  BY <1>1, <1>2 DEF ToSet
<1>5. QED
  BY <1>1, <1>2, <1>3, <1>4

LEMMA ElementsIn ==
  ASSUME NEW S, NEW s \in Seq(S)
  PROVE  ToSet(s) \subseteq S
BY ElementsOf

LEMMA TheTable ==
  ASSUME table \in Tables
  PROVE  /\ Columns \in Seq(Name) /\ table.rows \in Seq(Seq(Datum))
         /\ table.rows \in Seq(ToSet(table.rows)) /\ ToSet(table.rows) \subseteq Seq(Datum)
         /\ \A i \in DOMAIN table.rows : table.rows[i] \in ToSet(table.rows)
         /\ Len(table.rows) < Half
<1>1. Columns \in Seq(Name) /\ table.rows \in Seq(Seq(Datum)) /\ Len(table.rows) < Half
  BY TablesAssumption DEF Columns
<1>2. QED
  BY <1>1, ElementsOf

LEMMA MaxOfTwo ==
  ASSUME NEW a \in Int, NEW b \in Int
  PROVE  Max({a, b}) = IF a >= b THEN a ELSE b
<1> DEFINE m == IF a >= b THEN a ELSE b
<1>1. m \in {a, b} /\ \A y \in {a, b} : m >= y
  OBVIOUS
<1>2. \A x \in {a, b} : (\A y \in {a, b} : x >= y) => x = m
  OBVIOUS
<1> HIDE DEF m
<1>3. Max({a, b}) = m
  BY <1>1, <1>2 DEF Max
<1>4. QED
  BY <1>3 DEF m

LEMMA MinOfTwo ==
  ASSUME NEW a \in Int, NEW b \in Int
  PROVE  Min({a, b}) = IF a <= b THEN a ELSE b
<1> DEFINE m == IF a <= b THEN a ELSE b
<1>1. m \in {a, b} /\ \A y \in {a, b} : m <= y
  OBVIOUS
<1>2. \A x \in {a, b} : (\A y \in {a, b} : x <= y) => x = m
  OBVIOUS
<1> HIDE DEF m
<1>3. Min({a, b}) = m
  BY <1>1, <1>2 DEF Min
<1>4. QED
  BY <1>3 DEF m

(* Where applyLimit begins, and how many rows it lets through at most.      *)
LimitFrom(limit) == IF limit = None THEN 0
                    ELSE IF literalInt(limit.offset) >= 0 THEN literalInt(limit.offset) ELSE 0
Through(limit, n) == IF limit = None \/ literalInt(limit.count) < 0 THEN n
                     ELSE IF literalInt(limit.count) <= n THEN literalInt(limit.count) ELSE n
LimitType(limit) == limit # None => {limit.offset, limit.count} \subseteq 0..2 * Half - 1

LEMMA LimitIs ==
  ASSUME NEW S, NEW rows \in Seq(S), NEW limit, LimitType(limit)
  PROVE  LET rest == IF LimitFrom(limit) <= Len(rows) THEN Len(rows) - LimitFrom(limit) ELSE 0
         IN /\ applyLimit(rows, limit) \in Seq(S)
            /\ LimitFrom(limit) \in Nat
            /\ Len(applyLimit(rows, limit)) = Through(limit, rest)
            /\ \A k \in 1..Len(applyLimit(rows, limit)) :
                 applyLimit(rows, limit)[k] = rows[LimitFrom(limit) + k]
<1> DEFINE from == LimitFrom(limit)
           left == IF from <= Len(rows) THEN Len(rows) - from ELSE 0
<1>1. CASE limit = None
  <2>1. applyLimit(rows, limit) = rows /\ from = 0
    BY <1>1 DEF applyLimit, LimitFrom
  <2>2. Through(limit, left) = Len(rows)
    BY <1>1, <2>1 DEF Through
  <2>3. QED
    BY <2>1, <2>2
<1>2. CASE limit # None
  <2> DEFINE n == literalInt(limit.count)
             rest == SubSeq(rows, from + 1, Len(rows))
             t == Through(limit, left)
  <2>1. n \in Int /\ literalInt(limit.offset) \in Int
    BY <1>2, StatementsAssumption DEF LimitType, literalInt
  <2>2. from = Max({0, literalInt(limit.offset)}) /\ from \in Nat
    BY <1>2, <2>1, MaxOfTwo DEF LimitFrom
  <2> HIDE DEF from
  <2>3. /\ rest \in Seq(S) /\ Len(rest) = left /\ left \in Nat
        /\ \A k \in 1..left : rest[k] = rows[from + k]
    <3>1. Len(rows) \in Nat
      OBVIOUS
    <3>2. CASE from <= Len(rows)
      <4>0. from \in 0..Len(rows)
        BY <2>2, <3>1, <3>2
      <4>1. rest \in Seq(S) /\ Len(rest) = Len(rows) - from
        BY ONLY <4>0, rows \in Seq(S)
      <4>2. \A k \in 1..Len(rows) - from : rest[k] = rows[(from + 1) + k - 1]
        BY <2>2, <3>1, <3>2
      <4>3. \A k \in 1..Len(rows) - from : (from + 1) + k - 1 = from + k
        BY <2>2, <3>1
      <4>4. left = Len(rows) - from /\ left \in Nat
        BY <2>2, <3>1, <3>2
      <4> HIDE DEF rest, left
      <4>5. QED
        BY <4>1, <4>2, <4>3, <4>4
    <3>3. CASE ~(from <= Len(rows))
      <4>1. rest = <<>> /\ left = 0
        BY <2>2, <3>1, <3>3
      <4> HIDE DEF rest, left
      <4>2. rest \in Seq(S) /\ Len(rest) = 0 /\ 1..0 = {}
        BY <4>1
      <4>3. QED
        BY <4>1, <4>2
    <3>4. QED
      BY <3>2, <3>3
  <2>4. t = (IF n < 0 THEN left ELSE IF n <= left THEN n ELSE left) /\ t \in 0..left
    BY <1>2, <2>1, <2>3 DEF Through
  <2>5. applyLimit(rows, limit) = IF n >= 0 THEN SubSeq(rest, 1, Min({n, Len(rest)})) ELSE rest
    BY <1>2, <2>2 DEF applyLimit
  <2> HIDE DEF n, rest, left, t
  <2>6. CASE n >= 0
    <3>1. Min({n, Len(rest)}) = t
      BY <2>1, <2>3, <2>4, <2>6, MinOfTwo
    <3>2. applyLimit(rows, limit) = SubSeq(rest, 1, t)
      BY <2>5, <2>6, <3>1
    <3>3. /\ SubSeq(rest, 1, t) \in Seq(S) /\ Len(SubSeq(rest, 1, t)) = t
          /\ \A k \in 1..t : SubSeq(rest, 1, t)[k] = rest[k]
      BY <2>3, <2>4
    <3>4. \A k \in 1..t : k \in 1..left
      BY <2>3, <2>4
    <3>5. QED
      BY <2>2, <2>3, <3>2, <3>3, <3>4 DEF from, left, t
  <2>7. CASE n < 0
    <3>1. applyLimit(rows, limit) = rest /\ t = left
      BY <2>1, <2>4, <2>5, <2>7
    <3>2. QED
      BY <2>2, <2>3, <3>1 DEF from, left, t
  <2>8. QED
    BY <2>1, <2>6, <2>7
<1>3. QED
  BY <1>1, <1>2

-----------------------------------------------------------------------------
(* Expressions over full rows *)

FullRow(row) == row \in Seq(Datum) /\ Len(row) = Len(Columns)

LEMMA ColumnIndexIs ==
  ASSUME NEW columns \in Seq(Name), NEW name
  PROVE  columnIndex(columns, name) \in 0..Len(columns)
<1> DEFINE mine == {i \in DOMAIN columns : Lower(columns[i]) = Lower(name)}
<1>1. mine \in SUBSET Nat /\ mine \subseteq 1..Len(columns) /\ Len(columns) \in Nat
  <2>1. DOMAIN columns = 1..Len(columns) /\ Len(columns) \in Nat
    OBVIOUS
  <2>2. QED
    BY <2>1
<1>2. columnIndex(columns, name) =
        IF mine = {} THEN 0 ELSE CHOOSE i \in mine : \A j \in mine : i <= j
  BY DEF columnIndex
<1> HIDE DEF mine
<1>3. mine # {} => (CHOOSE i \in mine : \A j \in mine : i <= j) \in mine
  <2>1. ASSUME mine # {} PROVE \E i \in mine : \A j \in mine : i <= j
    BY <1>1, <2>1, LeastNumber
  <2>2. QED
    BY <2>1
<1> DEFINE first == CHOOSE i \in mine : \A j \in mine : i <= j
<1>4. columnIndex(columns, name) = IF mine = {} THEN 0 ELSE first
  BY <1>2
<1>5. mine # {} => first \in mine
  BY <1>3
<1> HIDE DEF first
<1>6. CASE mine = {}
  <2>1. columnIndex(columns, name) = 0
    BY <1>4, <1>6
  <2>2. QED
    BY <1>1, <2>1
<1>7. CASE mine # {}
  <2>1. columnIndex(columns, name) = first /\ first \in 1..Len(columns)
    BY <1>1, <1>4, <1>5, <1>7
  <2>2. QED
    BY <1>1, <2>1
<1>8. QED
  BY <1>6, <1>7

LEMMA LookupIs ==
  ASSUME Columns \in Seq(Name), NEW row, FullRow(row), NEW name
  PROVE  LET i == columnIndex(Columns, name)
         IN /\ i = 0 => lookup(Columns, row, name) = Nil
            /\ i # 0 => i \in DOMAIN Columns /\ i \in DOMAIN row /\ lookup(Columns, row, name) = row[i]
<1> DEFINE i == columnIndex(Columns, name)
<1>1. i \in 0..Len(Columns)
  BY ColumnIndexIs
<1>2. lookup(Columns, row, name) = IF i = 0 THEN Nil ELSE Cell(row, i)
  BY DEF lookup
<1> HIDE DEF i
<1>3. DOMAIN Columns = 1..Len(Columns) /\ Len(Columns) \in Nat /\ DOMAIN row = 1..Len(Columns)
  BY DEF FullRow
<1>4. i # 0 => i \in DOMAIN Columns /\ i \in DOMAIN row
  BY <1>1, <1>3
<1>5. QED
  BY <1>2, <1>4 DEF Cell, i

LEMMA DataAre ==
  ASSUME NEW v \in Datum
  PROVE  v = Nil \/ v[1] \in {"text", "nested", "bool", "float"}
BY DatumAssumption

LEMMA LiteralsAre ==
  ASSUME NEW e \in Expr, e.op = "value"
  PROVE  e.v = Nil \/ e.v[1] \in {"text", "decimal", "int", "float"}
BY ExprAssumption DEF IsNumber

LEMMA NilIsNoPanic ==
  Nil # Panic /\ Panic[1] = "panic" /\ Nil[1] = "nil"
BY DEF Nil, Panic

(* What kind of value an operator has when none of its operands panics.     *)
LEMMA Outcomes ==
  ASSUME NEW columns, NEW row, NEW f, NEW e \in Expr,
         \A x \in Operands(e) : f[x] # Panic
  PROVE  LET v == ValueOf(columns, row, f, e)
         IN CASE e.op = "value" -> v = e.v
              [] e.op = "column" -> v = lookup(columns, row, e.name)
              [] e.op = "plus" -> v = f[e.of]
              [] e.op \in {"add", "sub", "mul", "div", "mod", "minus"} -> v = Nil \/ v[1] = "float"
              [] OTHER -> v = Nil \/ v[1] = "bool"
<1> DEFINE v == ValueOf(columns, row, f, e)
<1>1. \A b : BoolOf(b)[1] = "bool"
  BY DEF BoolOf
<1>2. \A b, not : Turned(b, not)[1] = "bool"
  BY <1>1 DEF Turned
<1>3. \A t : Truth(t) = Nil \/ Truth(t)[1] = "bool"
  BY <1>1 DEF Truth
<1>5. CASE e.op \in {"value", "column"}
  BY <1>5 DEF ValueOf, BinaryOp, Relation
<1>6. CASE e.op \in {"and", "or"}
  <2>1. f[e.l] # Panic /\ f[e.r] # Panic
    BY <1>6 DEF Operands, BinaryOp, Relation
  <2>2. QED
    BY <1>1, <1>3, <1>6, <2>1 DEF ValueOf, BinaryOp, Relation, Strict
<1>7. CASE e.op \in Relation \cup {"nulleq"}
  <2>1. f[e.l] # Panic /\ f[e.r] # Panic
    BY <1>7 DEF Operands, BinaryOp, Relation
  <2>2. v = compareOp(e.op, f[e.l], f[e.r])
    BY <1>7, <2>1 DEF ValueOf, BinaryOp, Relation, Strict
  <2> HIDE DEF v
  <2>3. v = Nil \/ v[1] = "bool"
    BY <1>1, <2>2 DEF compareOp
  <2>4. QED
    BY <1>7, <2>3 DEF Relation, v
<1>8. CASE e.op \in {"add", "sub", "mul", "div", "mod"}
  <2>1. f[e.l] # Panic /\ f[e.r] # Panic
    BY <1>8 DEF Operands, BinaryOp, Relation
  <2>2. v = arithmetic(e.op, f[e.l], f[e.r])
    BY <1>8, <2>1 DEF ValueOf, BinaryOp, Relation, Strict
  <2> HIDE DEF v
  <2>3. v = Nil \/ v[1] = "float"
    BY <2>2 DEF arithmetic
  <2>4. QED
    BY <1>8, <2>3 DEF v
<1>9. CASE e.op \in {"not", "plus", "minus", "is null", "is truth"}
  <2>1. f[e.of] # Panic
    BY <1>9 DEF Operands, BinaryOp, Relation
  <2>2. e.op \in {"not", "plus", "minus"} => v = evalUnary(e.op, f[e.of])
    BY <2>1 DEF ValueOf, BinaryOp, Relation, Strict
  <2>3. e.op \in {"is null", "is truth"} => v[1] = "bool"
    <3>1. ASSUME e.op = "is null" PROVE v[1] = "bool"
      <4>1. v = Turned(f[e.of] = Nil, e.not)
        BY <2>1, <3>1 DEF ValueOf, BinaryOp, Relation, Strict
      <4>2. QED
        BY <1>2, <4>1
    <3>2. ASSUME e.op = "is truth" PROVE v[1] = "bool"
      <4>1. v = BoolOf((IF e.not THEN notTri(triOf(f[e.of])) ELSE triOf(f[e.of])) = e.truth)
        BY <2>1, <3>2 DEF ValueOf, BinaryOp, Relation, Strict
      <4>2. QED
        BY <1>1, <4>1
    <3>3. QED
      BY <3>1, <3>2
  <2> HIDE DEF v
  <2>4. e.op = "not" => v = Nil \/ v[1] = "bool"
    BY <1>3, <2>2 DEF evalUnary
  <2>5. e.op = "plus" => v = f[e.of]
    BY <2>2 DEF evalUnary
  <2>6. e.op = "minus" => v = Nil \/ v[1] = "float"
    BY <2>2 DEF evalUnary
  <2>7. QED
    BY <1>9, <2>3, <2>4, <2>5, <2>6 DEF v
<1>10. CASE e.op = "between"
  <2>1. f[e.of] # Panic /\ f[e.lo] # Panic /\ f[e.hi] # Panic
    BY <1>10 DEF Operands, BinaryOp, Relation
  <2>2. v = evalBetween(f[e.of], f[e.lo], f[e.hi], e.not)
    BY <1>10, <2>1 DEF ValueOf, BinaryOp, Relation, Strict
  <2> HIDE DEF v
  <2>3. v = Nil \/ v[1] = "bool"
    BY <1>2, <2>2 DEF evalBetween
  <2>4. QED
    BY <1>10, <2>3 DEF v
<1>11. CASE e.op = "in"
  <2> DEFINE items == {f[e.list[i]] : i \in DOMAIN e.list}
  <2>1. f[e.of] # Panic /\ Panic \notin items
    BY <1>11 DEF Operands, BinaryOp, Relation
  <2>2. v = IF f[e.of] = Nil THEN Nil ELSE evalIn(f[e.of], items, e.not)
    BY <1>11, <2>1 DEF ValueOf, BinaryOp, Relation, Strict
  <2> HIDE DEF v, items
  <2>3. v = Nil \/ v[1] = "bool"
    BY <1>2, <2>2 DEF evalIn
  <2>4. QED
    BY <1>11, <2>3 DEF v
<1>12. CASE e.op \in {"like", "regexp"}
  <2>1. f[e.of] # Panic /\ f[e.pattern] # Panic
    BY <1>12 DEF Operands, BinaryOp, Relation
  <2>2. v = IF e.op = "like" THEN evalLike(f[e.of], f[e.pattern], e.not)
            ELSE evalRegexp(f[e.of], f[e.pattern], e.not)
    BY <1>12, <2>1 DEF ValueOf, BinaryOp, Relation, Strict
  <2> HIDE DEF v
  <2>3. v = Nil \/ v[1] = "bool"
    BY <1>2, <2>2 DEF evalLike, evalRegexp
  <2>4. QED
    BY <1>12, <2>3 DEF v
<1>13. CASE e.op \notin {"value", "column", "not", "plus", "minus", "is null", "is truth",
                         "between", "in", "like", "regexp"} \cup BinaryOp
  BY <1>13 DEF ValueOf, BinaryOp, Relation
<1>14. QED
  BY <1>5, <1>6, <1>7, <1>8, <1>9, <1>10, <1>11, <1>12, <1>13 DEF BinaryOp

LEMMA EvalIs ==
  ASSUME NEW row, NEW e \in Expr
  PROVE  Eval(row, e) = ValueOf(Columns, row, Values(row), e)
<1>1. Values(row) = [x \in Expr |-> evalExpr(Columns, row, x)]
  BY DEF Values, Eval
<1>2. QED
  BY <1>1, EvalExprIsValueOf DEF Eval

LEMMA ValuesAre ==
  ASSUME NEW row, NEW e \in Expr
  PROVE  Values(row)[e] = Eval(row, e) /\ \A x \in Operands(e) : x \in Expr /\ Values(row)[x] = Eval(row, x)
BY ExprAssumption DEF Values

(* lookup does not panic on a full row, so no function of the file does.    *)
LEMMA FullRowsDoNotPanic ==
  ASSUME Columns \in Seq(Name), NEW row, FullRow(row)
  PROVE  \A e \in Expr : Eval(row, e) # Panic
<1> DEFINE S == {e \in Expr : Eval(row, e) # Panic}
<1>1. ASSUME NEW e \in Expr, Operands(e) \subseteq S PROVE e \in S
  <2> DEFINE f == Values(row)
             v == ValueOf(Columns, row, f, e)
  <2>1. \A x \in Operands(e) : f[x] # Panic
    BY <1>1, ValuesAre
  <2>2. Eval(row, e) = v
    BY EvalIs
  <2> HIDE DEF f
  <2>3. /\ e.op = "value" => v = e.v
        /\ e.op = "column" => v = lookup(Columns, row, e.name)
        /\ e.op = "plus" => v = f[e.of]
        /\ e.op \notin {"value", "column", "plus"} => v = Nil \/ v[1] \in {"float", "bool"}
    BY <2>1, Outcomes
  <2> HIDE DEF v
  <2>4. CASE e.op = "value"
    BY <2>2, <2>3, <2>4, LiteralsAre, NilIsNoPanic
  <2>5. CASE e.op = "column"
    <3> DEFINE i == columnIndex(Columns, e.name)
    <3>1. CASE i = 0
      BY <2>2, <2>3, <2>5, <3>1, LookupIs, NilIsNoPanic
    <3>2. CASE i # 0
      <4>1. i \in DOMAIN row /\ v = row[i]
        BY <2>3, <2>5, <3>2, LookupIs
      <4>2. row[i] \in Datum
        BY <4>1 DEF FullRow
      <4>3. QED
        BY <2>2, <4>1, <4>2, DataAre, NilIsNoPanic
    <3>3. QED
      BY <3>1, <3>2
  <2>6. CASE e.op = "plus"
    <3>1. e.of \in Operands(e)
      BY <2>6 DEF Operands, BinaryOp, Relation
    <3>2. QED
      BY <2>1, <2>2, <2>3, <2>6, <3>1
  <2>7. CASE e.op \notin {"value", "column", "plus"}
    BY <2>2, <2>3, <2>7, NilIsNoPanic
  <2>8. QED
    BY <2>4, <2>5, <2>6, <2>7
<1>2. S = Expr
  <2> HIDE DEF S
  <2>1. S \in SUBSET Expr
    BY DEF S
  <2>2. QED
    BY <1>1, <2>1, ByNesting
<1>3. QED
  BY <1>2

(* The values of an expression over the rows, but for NULLs, are of kind t. *)
OfKind(e, t) == \A i \in DOMAIN table.rows :
                  LET v == Eval(table.rows[i], e) IN v = Nil \/ v[1] = t
Kinds == {"bool", "int", "float", "text", "decimal"}

LEMMA FullIs ==
  ASSUME table \in Tables, Full
  PROVE  \A i \in DOMAIN table.rows : FullRow(table.rows[i])
<1>1. \A i \in DOMAIN table.rows : table.rows[i] \in Seq(Datum)
  BY TheTable
<1>2. QED
  BY <1>1 DEF Full, FullRow

LEMMA ExpressionsAreOfOneKind ==
  ASSUME table \in Tables, Full, Typed
  PROVE  \A e \in Expr : \E t \in Kinds : OfKind(e, t)
<1> DEFINE S == {e \in Expr : \E t \in Kinds : OfKind(e, t)}
<1>1. Columns \in Seq(Name) /\ \A i \in DOMAIN table.rows : FullRow(table.rows[i])
  BY TheTable, FullIs
<1>2. ASSUME NEW e \in Expr, Operands(e) \subseteq S PROVE e \in S
  <2>1. ASSUME NEW i \in DOMAIN table.rows
        PROVE  LET row == table.rows[i] v == Eval(row, e)
               IN /\ e.op = "value" => v = e.v
                  /\ e.op = "column" => v = lookup(Columns, row, e.name)
                  /\ e.op = "plus" => v = Eval(row, e.of)
                  /\ e.op \in {"add", "sub", "mul", "div", "mod", "minus"} => v = Nil \/ v[1] = "float"
                  /\ e.op \notin {"value", "column", "plus", "add", "sub", "mul", "div", "mod", "minus"}
                       => v = Nil \/ v[1] = "bool"
    <3> DEFINE row == table.rows[i]
               f == Values(row)
               v == ValueOf(Columns, row, f, e)
    <3>1. \A x \in Operands(e) : x \in Expr /\ f[x] = Eval(row, x)
      BY ValuesAre
    <3>2. \A x \in Operands(e) : f[x] # Panic
      BY <1>1, <3>1, FullRowsDoNotPanic
    <3>3. Eval(row, e) = v
      BY EvalIs
    <3>4. e.op = "plus" => f[e.of] = Eval(row, e.of)
      BY <3>1 DEF Operands, BinaryOp, Relation
    <3> HIDE DEF f, row
    <3>5. /\ e.op = "value" => v = e.v
          /\ e.op = "column" => v = lookup(Columns, row, e.name)
          /\ e.op = "plus" => v = f[e.of]
          /\ e.op \in {"add", "sub", "mul", "div", "mod", "minus"} => v = Nil \/ v[1] = "float"
          /\ e.op \notin {"value", "column", "plus", "add", "sub", "mul", "div", "mod", "minus"}
               => v = Nil \/ v[1] = "bool"
      BY <3>2, Outcomes
    <3> HIDE DEF v
    <3>6. QED
      BY <3>3, <3>4, <3>5 DEF row
  <2>2. CASE e.op = "value"
    <3>1. \A i \in DOMAIN table.rows : Eval(table.rows[i], e) = e.v
      BY <2>1, <2>2
    <3>2. CASE e.v = Nil
      BY <3>1, <3>2 DEF OfKind, Kinds
    <3>3. CASE e.v # Nil
      <4>1. e.v[1] \in Kinds
        BY <2>2, <3>3, LiteralsAre DEF Kinds
      <4>2. OfKind(e, e.v[1])
        BY <3>1 DEF OfKind
      <4>3. QED
        BY <4>1, <4>2
    <3>4. QED
      BY <3>2, <3>3
  <2>3. CASE e.op = "column"
    <3> DEFINE j == columnIndex(Columns, e.name)
    <3>1. \A i \in DOMAIN table.rows : Eval(table.rows[i], e) = lookup(Columns, table.rows[i], e.name)
      BY <2>1, <2>3
    <3>2. CASE j = 0
      <4>1. \A i \in DOMAIN table.rows : Eval(table.rows[i], e) = Nil
        BY <1>1, <3>1, <3>2, LookupIs
      <4>2. OfKind(e, "text")
        BY <4>1 DEF OfKind
      <4>3. QED
        BY <4>2 DEF Kinds
    <3>3. CASE j # 0
      <4>1. \A i \in DOMAIN table.rows :
              j \in DOMAIN Columns /\ j \in DOMAIN table.rows[i] /\ Eval(table.rows[i], e) = table.rows[i][j]
        BY <1>1, <3>1, <3>3, LookupIs
      <4> HIDE DEF j
      <4>2. CASE \A i \in DOMAIN table.rows : table.rows[i][j] = Nil
        <5>1. OfKind(e, "text")
          BY <4>1, <4>2 DEF OfKind
        <5>2. QED
          BY <5>1 DEF Kinds
      <4>3. CASE \E k \in DOMAIN table.rows : table.rows[k][j] # Nil
        <5>1. PICK k \in DOMAIN table.rows : table.rows[k][j] # Nil
          BY <4>3
        <5> DEFINE t == table.rows[k][j][1]
        <5>2. table.rows[k][j] \in Datum
          BY <1>1, <4>1 DEF FullRow
        <5>3. t # "nested" /\ \A i \in DOMAIN table.rows :
                 table.rows[i][j] # Nil => table.rows[i][j][1] = t
          BY <4>1, <5>1 DEF Typed
        <5>4. t \in Kinds
          BY <5>1, <5>2, <5>3, DataAre DEF Kinds
        <5>5. OfKind(e, t)
          BY <4>1, <5>3 DEF OfKind
        <5>6. QED
          BY <5>4, <5>5
      <4>4. QED
        BY <4>2, <4>3
    <3>4. QED
      BY <3>2, <3>3
  <2>4. CASE e.op = "plus"
    <3>1. e.of \in S
      BY <1>2, <2>4 DEF Operands, BinaryOp, Relation
    <3>2. PICK t \in Kinds : OfKind(e.of, t)
      BY <3>1
    <3>3. \A i \in DOMAIN table.rows : Eval(table.rows[i], e) = Eval(table.rows[i], e.of)
      BY <2>1, <2>4
    <3>4. OfKind(e, t)
      BY <3>2, <3>3 DEF OfKind
    <3>5. QED
      BY <3>4
  <2>5. CASE e.op \in {"add", "sub", "mul", "div", "mod", "minus"}
    <3>1. OfKind(e, "float")
      BY <2>1, <2>5 DEF OfKind
    <3>2. QED
      BY <3>1 DEF Kinds
  <2>6. CASE e.op \notin {"value", "column", "plus", "add", "sub", "mul", "div", "mod", "minus"}
    <3>1. OfKind(e, "bool")
      BY <2>1, <2>6 DEF OfKind
    <3>2. QED
      BY <3>1 DEF Kinds
  <2>7. QED
    BY <2>2, <2>3, <2>4, <2>5, <2>6
<1>3. S = Expr
  <2> HIDE DEF S
  <2>1. S \in SUBSET Expr
    BY DEF S
  <2>2. QED
    BY <1>2, <2>1, ByNesting
<1>4. QED
  BY <1>3

-----------------------------------------------------------------------------
(* What projectRows makes of a row *)

LEMMA TheStatement ==
  ASSUME stmt \in Statements
  PROVE  /\ stmt.where # None => stmt.where \in Expr
         /\ stmt.fields \in Seq(ToSet(stmt.fields))
         /\ \A i \in DOMAIN stmt.fields : stmt.fields[i].expr # None => stmt.fields[i].expr \in Expr
         /\ \A i \in DOMAIN stmt.order : stmt.order[i].by.op # "position" => stmt.order[i].by \in Expr
         /\ DOMAIN stmt.order = 1..Len(stmt.order) /\ Len(stmt.order) \in Nat
         /\ LimitType(stmt.limit)
<1>1. stmt.fields \in Seq(ToSet(stmt.fields))
  BY StatementsAssumption DEF ToSet
<1>2. DOMAIN stmt.order = 1..Len(stmt.order) /\ Len(stmt.order) \in Nat
  <2>1. stmt.order \in Seq({stmt.order[i] : i \in DOMAIN stmt.order})
    BY StatementsAssumption
  <2>2. QED
    BY <2>1
<1>3. QED
  BY <1>1, <1>2, StatementsAssumption DEF LimitType

LEMMA ProjectionIs ==
  ASSUME table \in Tables, stmt \in Statements
  PROVE  Projection \in Seq(ProjsOf(stmt.fields))
<1>1. stmt.fields \in Seq(ToSet(stmt.fields)) /\ Columns \in Seq(Name)
  BY TheStatement, TheTable
<1>2. PICK after \in [0..Len(stmt.fields) -> Seq(ProjsOf(stmt.fields))] :
        Listing(stmt.fields, after) /\ Projection = after[Len(stmt.fields)]
  BY <1>1, ProjectionLoops
<1>3. Len(stmt.fields) \in Nat
  BY <1>1
<1>4. Len(stmt.fields) \in 0..Len(stmt.fields)
  BY <1>3
<1>5. QED
  BY <1>2, <1>4

LEMMA ProjsAre ==
  ASSUME table \in Tables, stmt \in Statements, NEW p \in ProjsOf(stmt.fields)
  PROVE  /\ p.idx \in 0..Len(Columns)
         /\ p.expr # None => \E i \in DOMAIN stmt.fields :
              p.expr = stmt.fields[i].expr /\ p.idx = 0 /\ p.expr \in Expr
<1>1. PICK i \in DOMAIN stmt.fields : p \in ToSet(Projs(stmt.fields[i]))
  BY DEF ProjsOf
<1> DEFINE f == stmt.fields[i]
<1>2. Columns \in Seq(Name) /\ (f.expr # None => f.expr \in Expr)
  BY TheTable, TheStatement
<1>3. \A name, look : /\ Read(name, look).idx \in 0..Len(Columns)
                      /\ Read(name, look).expr = None
  <2>1. \A look : columnIndex(Columns, look) \in 0..Len(Columns)
    BY <1>2, ColumnIndexIs
  <2>2. QED
    BY <2>1 DEF Read
<1>4. \A x : ToSet(<<x>>) = {x}
  BY DEF ToSet
<1>5. CASE f.expr = None
  <2>1. Projs(f) = [k \in DOMAIN Columns |-> [col |-> Columns[k], idx |-> k, expr |-> None]]
    BY <1>5 DEF Projs
  <2>2. PICK k \in DOMAIN Columns : p = [col |-> Columns[k], idx |-> k, expr |-> None]
    BY <1>1, <2>1 DEF ToSet
  <2>3. k \in 0..Len(Columns)
    BY <1>2
  <2>4. p.idx = k /\ p.expr = None
    BY <2>2
  <2>5. QED
    BY <2>3, <2>4
<1>6. CASE f.expr # None /\ f.expr.op = "column"
  <2>1. PICK name, look : Projs(f) = <<Read(name, look)>>
    BY <1>6 DEF Projs
  <2>2. p = Read(name, look)
    BY <1>1, <1>4, <2>1
  <2>3. QED
    BY <1>3, <2>2
<1>7. CASE f.expr # None /\ f.expr.op # "column"
  <2>1. PICK name : Projs(f) = <<Computed(name, f.expr)>>
    BY <1>7 DEF Projs
  <2>2. p = Computed(name, f.expr)
    BY <1>1, <1>4, <2>1
  <2>3. p.idx = 0 /\ p.expr = f.expr
    BY <2>2 DEF Computed
  <2>4. Len(Columns) \in Nat
    BY <1>2
  <2>5. QED
    BY <1>2, <1>7, <2>3, <2>4
<1>8. QED
  BY <1>5, <1>6, <1>7

(* The value of one output column. *)
Output(row, p) == IF p.idx > 0 THEN normalizeValue(Cell(row, p.idx))
                  ELSE IF p.expr # None THEN normalizeValue(Eval(row, p.expr))
                  ELSE Nil

LEMMA ProjectedIs ==
  ASSUME table \in Tables, stmt \in Statements, NEW row
  PROVE  /\ DOMAIN Projection = 1..Len(Projection) /\ Len(Projection) \in Nat
         /\ DOMAIN Projected(row) = 1..Len(Projection)
         /\ Len(Projected(row)) = Len(Projection)
         /\ \A j \in 1..Len(Projection) : /\ Projection[j] \in ProjsOf(stmt.fields)
                                          /\ Projected(row)[j] = Output(row, Projection[j])
<1> DEFINE n == Len(Projection)
<1>1. DOMAIN Projection = 1..n /\ n \in Nat /\ \A j \in 1..n : Projection[j] \in ProjsOf(stmt.fields)
  BY ProjectionIs
<1>2. Projected(row) = [j \in 1..n |-> Output(row, Projection[j])]
  BY <1>1 DEF Projected, Output
<1> HIDE DEF n
<1>3. Len([j \in 1..n |-> Output(row, Projection[j])]) = n
  BY <1>1
<1>4. QED
  BY <1>1, <1>2, <1>3 DEF n

LEMMA NormalIs ==
  ASSUME NEW v
  PROVE  /\ normalizeValue(v)[1] = IF v[1] = "bool" THEN "int" ELSE v[1]
         /\ v # Panic => normalizeValue(v) # Panic
         /\ v = Nil => normalizeValue(v) = Nil
BY NilIsNoPanic DEF normalizeValue

LEMMA NoBoolLeaves ==
  ASSUME NEW row, NEW p
  PROVE  Output(row, p)[1] # "bool"
BY NormalIs, NilIsNoPanic DEF Output

LEMMA OutputsDoNotPanic ==
  ASSUME table \in Tables, stmt \in Statements, NEW row, FullRow(row), NEW p \in ProjsOf(stmt.fields)
  PROVE  Output(row, p) # Panic
<1>1. p.idx \in 0..Len(Columns) /\ (p.expr # None => p.expr \in Expr) /\ Columns \in Seq(Name)
  BY ProjsAre, TheTable
<1>2. CASE p.idx > 0
  <2>1. p.idx \in DOMAIN row /\ row[p.idx] \in Datum
    BY <1>1, <1>2 DEF FullRow
  <2>2. Cell(row, p.idx) # Panic
    BY <2>1, DataAre, NilIsNoPanic DEF Cell
  <2>3. QED
    BY <1>2, <2>2, NormalIs DEF Output
<1>3. CASE ~(p.idx > 0) /\ p.expr # None
  <2>1. Eval(row, p.expr) # Panic
    BY <1>1, <1>3, FullRowsDoNotPanic
  <2>2. QED
    BY <1>3, <2>1, NormalIs DEF Output
<1>4. QED
  BY <1>2, <1>3, NilIsNoPanic DEF Output

(* An output column that is not decimal is of one kind go-mysql knows. *)
LEMMA OutputsAreOfOneKind ==
  ASSUME table \in Tables, stmt \in Statements, Full, Typed, NEW p \in ProjsOf(stmt.fields),
         p.expr # None => ~Decimal(p.expr)
  PROVE  \E t \in {"int", "float", "text"} : \A i \in DOMAIN table.rows :
           LET v == Output(table.rows[i], p) IN v = Nil \/ v[1] = t
<1> DEFINE Of(t) == \A i \in DOMAIN table.rows :
                      LET v == Output(table.rows[i], p) IN v = Nil \/ v[1] = t
<1>1. p.idx \in 0..Len(Columns) /\ (p.expr # None => p.expr \in Expr) /\ Columns \in Seq(Name)
  BY ProjsAre, TheTable
<1>2. \A i \in DOMAIN table.rows : FullRow(table.rows[i])
  BY FullIs
<1>3. CASE p.idx > 0
  <2> DEFINE j == p.idx
  <2>1. j \in DOMAIN Columns
    BY <1>1, <1>3
  <2>2. ASSUME NEW i \in DOMAIN table.rows
        PROVE  /\ j \in DOMAIN table.rows[i] /\ table.rows[i][j] \in Datum
               /\ Output(table.rows[i], p) = normalizeValue(table.rows[i][j])
    <3>1. j \in DOMAIN table.rows[i] /\ table.rows[i][j] \in Datum
      BY <1>1, <1>2, <1>3 DEF FullRow
    <3>2. QED
      BY <1>3, <3>1 DEF Output, Cell
  <2> HIDE DEF j
  <2>3. CASE \A i \in DOMAIN table.rows : table.rows[i][j] = Nil
    <3>1. \A i \in DOMAIN table.rows : Output(table.rows[i], p) = Nil
      BY <2>2, <2>3, NormalIs
    <3>2. Of("text")
      BY <3>1
    <3>3. QED
      BY <3>2
  <2>4. CASE \E k \in DOMAIN table.rows : table.rows[k][j] # Nil
    <3>1. PICK k \in DOMAIN table.rows : table.rows[k][j] # Nil
      BY <2>4
    <3> DEFINE u == table.rows[k][j][1]
               t == IF u = "bool" THEN "int" ELSE u
    <3>2. u # "nested" /\ \A i \in DOMAIN table.rows :
             table.rows[i][j] # Nil => table.rows[i][j][1] = u
      BY <2>1, <3>1 DEF Typed
    <3>3. u \in {"text", "bool", "float"}
      BY <2>2, <3>1, <3>2, DataAre
    <3>4. t \in {"int", "float", "text"}
      BY <3>3
    <3> HIDE DEF u
    <3>5. ASSUME NEW i \in DOMAIN table.rows
          PROVE  Output(table.rows[i], p) = Nil \/ Output(table.rows[i], p)[1] = t
      <4>1. CASE table.rows[i][j] = Nil
        BY <2>2, <4>1, NormalIs
      <4>2. CASE table.rows[i][j] # Nil
        BY <2>2, <3>2, <4>2, NormalIs
      <4>3. QED
        BY <4>1, <4>2
    <3>6. QED
      BY <3>4, <3>5
  <2>5. QED
    BY <2>3, <2>4
<1>4. CASE ~(p.idx > 0) /\ p.expr # None
  <2>1. PICK u \in Kinds : OfKind(p.expr, u)
    BY <1>1, <1>4, ExpressionsAreOfOneKind
  <2>2. \A i \in DOMAIN table.rows :
          /\ Output(table.rows[i], p) = normalizeValue(Eval(table.rows[i], p.expr))
          /\ Eval(table.rows[i], p.expr)[1] # "decimal"
    BY <1>4 DEF Output, Decimal
  <2> DEFINE t == IF u = "bool" THEN "int" ELSE IF u = "decimal" THEN "text" ELSE u
  <2>3. t \in {"int", "float", "text"}
    BY DEF Kinds
  <2>4. ASSUME NEW i \in DOMAIN table.rows
        PROVE  Output(table.rows[i], p) = Nil \/ Output(table.rows[i], p)[1] = t
    <3> DEFINE v == Eval(table.rows[i], p.expr)
    <3>1. v = Nil \/ v[1] = u
      BY <2>1 DEF OfKind
    <3>2. Output(table.rows[i], p) = normalizeValue(v) /\ v[1] # "decimal"
      BY <2>2
    <3> HIDE DEF v
    <3>3. QED
      BY <3>1, <3>2, NormalIs
  <2>5. QED
    BY <2>3, <2>4
<1>5. CASE ~(p.idx > 0) /\ p.expr = None
  <2>1. \A i \in DOMAIN table.rows : Output(table.rows[i], p) = Nil
    BY <1>5 DEF Output
  <2>2. QED
    BY <2>1
<1>6. QED
  BY <1>3, <1>4, <1>5

-----------------------------------------------------------------------------
(* orderRows *)

LEMMA KeysAre ==
  ASSUME stmt \in Statements, NEW i \in Keys
  PROVE  i \in DOMAIN stmt.order /\ Key(stmt.order[i]) \in Expr
<1>1. i \in DOMAIN stmt.order /\ Key(stmt.order[i]) # None
  BY DEF Keys
<1> DEFINE item == stmt.order[i]
<1>2. CASE item.by.op = "position"
  <2>1. Key(item) = nthSelectColumn(item.by.n)
    BY <1>2 DEF Key
  <2>2. item.by.n \in DOMAIN stmt.fields /\ stmt.fields[item.by.n].expr # None
        /\ Key(item) = stmt.fields[item.by.n].expr
    BY <1>1, <2>1 DEF nthSelectColumn
  <2>3. QED
    BY <1>1, <2>2, TheStatement
<1>3. CASE item.by.op # "position"
  BY <1>1, <1>3, TheStatement DEF Key
<1>4. QED
  BY <1>2, <1>3

(* The first sort key that tells two rows apart decides. *)
Value(row, i) == Eval(row, Key(stmt.order[i]))
Panicking(a, b, i) == Panic \in {Value(a, i), Value(b, i)}
Differ(a, b, i) == compareValues(Value(a, i), Value(b, i))
Telling(a, b) == {i \in Keys : Panicking(a, b, i) \/ Differ(a, b, i) # 0}

LEMMA VerdictIs ==
  ASSUME stmt \in Statements, NEW a, NEW b
  PROVE  \/ Telling(a, b) = {} /\ Verdict(a, b) = "not less"
         \/ \E i \in Telling(a, b) :
              /\ \A j \in Telling(a, b) : i <= j
              /\ Verdict(a, b) =
                   IF Panicking(a, b, i) THEN "panic"
                   ELSE IF IF stmt.order[i].desc THEN Differ(a, b, i) > 0 ELSE Differ(a, b, i) < 0
                          THEN "less" ELSE "not less"
<1> DEFINE T == Telling(a, b)
           first == Min(T)
<1>1. T \in SUBSET Nat
  <2>1. \A i \in Keys : i \in Nat
    BY TheStatement, KeysAre
  <2>2. QED
    BY <2>1 DEF Telling
<1> HIDE DEF T
<1>2. T # {} => first \in T /\ \A j \in T : first <= j
  <2>1. ASSUME T # {} PROVE \E i \in T : \A j \in T : i <= j
    BY <1>1, <2>1, LeastNumber
  <2>2. QED
    BY <2>1 DEF Min
<1> HIDE DEF first
<1>3. Verdict(a, b) =
        IF T = {} THEN "not less"
        ELSE IF Panicking(a, b, first) THEN "panic"
        ELSE IF IF stmt.order[first].desc THEN Differ(a, b, first) > 0 ELSE Differ(a, b, first) < 0
               THEN "less" ELSE "not less"
  <2> DEFINE Said(i) == Says(Value(a, i), Value(b, i), stmt.order[i].desc)
  <2>1. Verdict(a, b) = IF {i \in Keys : Said(i) # "tie"} = {} THEN "not less"
                        ELSE Said(Min({i \in Keys : Said(i) # "tie"}))
    BY DEF Verdict, Value
  <2>2. ASSUME NEW i
        PROVE  /\ Said(i) # "tie" <=> Panicking(a, b, i) \/ Differ(a, b, i) # 0
               /\ Said(i) # "tie" =>
                    Said(i) = IF Panicking(a, b, i) THEN "panic"
                              ELSE IF IF stmt.order[i].desc THEN Differ(a, b, i) > 0 ELSE Differ(a, b, i) < 0
                                     THEN "less" ELSE "not less"
    BY DEF Says, Panicking, Differ
  <2> HIDE DEF Said
  <2>3. {i \in Keys : Said(i) # "tie"} = T
    BY <2>2 DEF T, Telling
  <2>4. T # {} => Said(first) # "tie"
    <3>1. \A i \in T : Said(i) # "tie"
      BY <2>3
    <3>2. T # {} => first \in T
      BY <1>2
    <3>3. QED
      BY <3>1, <3>2
  <2>5. QED
    BY <2>1, <2>2, <2>3, <2>4 DEF first
<1>4. QED
  BY <1>2, <1>3 DEF T

LEMMA FullRowsSort ==
  ASSUME table \in Tables, stmt \in Statements, NEW a, NEW b, FullRow(a), FullRow(b)
  PROVE  Verdict(a, b) # "panic" /\ \A i \in Keys : ~Panicking(a, b, i)
<1>1. ASSUME NEW i \in Keys PROVE ~Panicking(a, b, i)
  <2>1. Key(stmt.order[i]) \in Expr /\ Columns \in Seq(Name)
    BY KeysAre, TheTable
  <2>2. Value(a, i) # Panic /\ Value(b, i) # Panic
    BY <2>1, FullRowsDoNotPanic DEF Value
  <2>3. QED
    BY <2>2 DEF Panicking
<1>2. \A i \in Telling(a, b) : i \in Keys
  BY DEF Telling
<1>3. QED
  BY <1>1, <1>2, VerdictIs

LEMMA FullTablesSort ==
  ASSUME table \in Tables, stmt \in Statements, Full, NEW rows \in Seq(ToSet(table.rows))
  PROVE  Fatal(rows) = {}
<1>1. \A x \in ToSet(table.rows) : FullRow(x)
  BY FullIs DEF ToSet
<1>2. ASSUME NEW i \in DOMAIN rows, NEW k \in DOMAIN rows
      PROVE  Verdict(rows[i], rows[k]) # "panic"
  <2>1. rows[i] \in ToSet(table.rows) /\ rows[k] \in ToSet(table.rows)
    OBVIOUS
  <2>2. FullRow(rows[i]) /\ FullRow(rows[k])
    BY <1>1, <2>1
  <2>3. QED
    BY <2>2, FullRowsSort
<1>3. QED
  BY <1>2 DEF Fatal

(* What the sort returns is a permutation of the rows, stable if it can be. *)
Arranged(rows, less, result, at) ==
    /\ at \in [1..Len(rows) -> 1..Len(rows)]
    /\ \A j, k \in 1..Len(rows) : j # k => at[j] # at[k]
    /\ \A p \in 1..Len(rows) : \E k \in 1..Len(rows) : at[k] = p
    /\ \A k \in 1..Len(rows) : result[k] = rows[at[k]]
    /\ Orders(less, rows) => Stable(less, rows, at)

LEMMA SortArranges ==
  ASSUME NEW S, NEW rows \in Seq(S), NEW less, NEW result \in SliceStable(rows, less)
  PROVE  result \in Seq(S) /\ Len(result) = Len(rows) /\ \E at : Arranged(rows, less, result, at)
<1> DEFINE n == Len(rows)
<1>1. n \in Nat /\ DOMAIN rows = 1..n /\ \A k \in 1..n : rows[k] \in S
  OBVIOUS
<1>2. PICK at \in Arrangements(rows, less) : result = [k \in 1..n |-> rows[at[k]]]
  BY <1>1 DEF SliceStable
<1>3. at \in Bijection(1..n, 1..n) /\ (Orders(less, rows) => Stable(less, rows, at))
  BY <1>1 DEF Arrangements
<1> HIDE DEF n
<1>4. at \in [1..n -> 1..n] /\ \A p \in 1..n : \E k \in 1..n : at[k] = p
  BY <1>3 DEF Bijection, Surjection
<1>5. at \in Injection(1..n, 1..n)
  BY <1>3 DEF Bijection
<1>6. \A j, k \in 1..n : j # k => at[j] # at[k]
  BY <1>5 DEF Injection, IsInjective
<1>7. \A k \in 1..n : rows[at[k]] \in S
  BY <1>1, <1>4
<1>8. result \in Seq(S) /\ Len(result) = n /\ \A k \in 1..n : result[k] = rows[at[k]]
  BY <1>1, <1>2, <1>7
<1>9. Arranged(rows, less, result, at)
  BY <1>3, <1>4, <1>6, <1>8 DEF Arranged, n
<1>10. QED
  BY <1>8, <1>9 DEF n

-----------------------------------------------------------------------------
(* The inductive invariant: what each function returned, as the next finds  *)
(* it, and that a panic or a refusal had its reason.                        *)

WhereOf(row) == IF stmt.where = None THEN BoolOf(TRUE) ELSE Eval(row, stmt.where)
Keep == [row \in ToSet(table.rows) |-> triOf(WhereOf(row)) = "true"]

RowsKept == phase \notin {"filter", "panicked"} => kept = Filter(table.rows, Keep)
RowsSorted == phase \notin {"filter", "order", "panicked"} =>
                sorted \in SliceStable(kept, Less(kept))
RowsLimited == phase \in {"project", "build", "answered", "refused"} =>
                 page = applyLimit(sorted, stmt.limit)
RowsProjected ==
    IF phase \in {"build", "answered", "refused"}
      THEN /\ outCols = [j \in DOMAIN Projection |-> Projection[j].col]
           /\ outRows = [i \in DOMAIN page |-> Projected(page[i])]
      ELSE outRows = <<>>
RowsAreTables == {kept, sorted, page} \subseteq Seq(ToSet(table.rows))
Phases == {"filter", "order", "limit", "project", "build", "answered", "refused", "panicked"}

SelectInv ==
    /\ table \in Tables /\ stmt \in Statements /\ phase \in Phases
    /\ RowsKept /\ RowsSorted /\ RowsLimited /\ RowsProjected /\ RowsAreTables
    /\ Full => phase # "panicked"
    /\ phase = "refused" => ~Builds(outRows)

LEMMA SelectInvInit == Init => SelectInv
<1> SUFFICES ASSUME Init PROVE SelectInv
  OBVIOUS
<1>1. <<>> \in Seq(ToSet(table.rows))
  OBVIOUS
<1>2. QED
  BY <1>1 DEF Init, SelectInv, Phases, RowsKept, RowsSorted, RowsLimited, RowsProjected, RowsAreTables

LEMMA FilterIn ==
  ASSUME NEW S, NEW rows \in Seq(S), NEW keep
  PROVE  Filter(rows, keep) \in Seq(S)
<1>1. PICK after \in [0..Len(rows) -> Seq(S)] :
        Filtering(rows, keep, after) /\ Filter(rows, keep) = after[Len(rows)]
  BY FilterLoops
<1>2. Len(rows) \in 0..Len(rows)
  OBVIOUS
<1>3. QED
  BY <1>1, <1>2

LEMMA FilterRowsKeepsInv == SelectInv /\ FilterRows => SelectInv'
<1> SUFFICES ASSUME SelectInv, FilterRows PROVE SelectInv'
  OBVIOUS
<1>1. /\ table \in Tables /\ stmt \in Statements /\ phase = "filter" /\ RowsAreTables
      /\ outRows = <<>>
  BY DEF SelectInv, FilterRows, RowsProjected
<1>2. CASE \E i \in DOMAIN table.rows : WhereOf(table.rows[i]) = Panic
  <2>1. Panics
    BY <1>2 DEF FilterRows, WhereOf
  <2>2. ~Full
    <3>1. SUFFICES ASSUME Full PROVE FALSE
      OBVIOUS
    <3>2. PICK i \in DOMAIN table.rows : WhereOf(table.rows[i]) = Panic
      BY <1>2
    <3>3. FullRow(table.rows[i]) /\ Columns \in Seq(Name) /\ (stmt.where # None => stmt.where \in Expr)
      BY <1>1, <3>1, FullIs, TheTable, TheStatement
    <3>4. BoolOf(TRUE)[1] = "bool"
      BY DEF BoolOf
    <3>5. QED
      BY <3>2, <3>3, <3>4, FullRowsDoNotPanic, NilIsNoPanic DEF WhereOf
  <2>3. Full' = Full
    BY <2>1 DEF Panics, Full, Columns
  <2>4. QED
    BY <1>1, <2>1, <2>2, <2>3 DEF Panics, SelectInv, Phases, RowsKept, RowsSorted, RowsLimited,
       RowsProjected, RowsAreTables
<1>3. CASE ~\E i \in DOMAIN table.rows : WhereOf(table.rows[i]) = Panic
  <2>1. /\ kept' = Filter(table.rows, Keep) /\ phase' = "order"
        /\ UNCHANGED <<table, stmt, sorted, page, outCols, outRows>>
    BY <1>3 DEF FilterRows, WhereOf, Keep
  <2>2. table.rows \in Seq(ToSet(table.rows))
    BY <1>1, TheTable
  <2>3. kept' \in Seq(ToSet(table.rows))
    BY <2>1, <2>2, FilterIn
  <2>4. Keep' = Keep
    BY <2>1 DEF Keep, WhereOf, Eval, Columns
  <2>5. RowsKept'
    BY <2>1, <2>4 DEF RowsKept
  <2>6. RowsAreTables'
    BY <1>1, <2>1, <2>3 DEF RowsAreTables
  <2>7. QED
    BY <1>1, <2>1, <2>5, <2>6 DEF SelectInv, Phases, RowsSorted, RowsLimited, RowsProjected
<1>4. QED
  BY <1>2, <1>3

LEMMA OrderRowsKeepsInv == SelectInv /\ OrderRows => SelectInv'
<1> SUFFICES ASSUME SelectInv, OrderRows PROVE SelectInv'
  OBVIOUS
<1>1. /\ table \in Tables /\ stmt \in Statements /\ phase = "order" /\ RowsAreTables
      /\ outRows = <<>> /\ RowsKept
  BY DEF SelectInv, OrderRows, RowsProjected
<1>2. kept \in Seq(ToSet(table.rows)) /\ table.rows \in Seq(ToSet(table.rows))
  BY <1>1, TheTable DEF RowsAreTables
<1>3. \/ Fatal(kept) # {} /\ Panics
      \/ /\ sorted' \in SliceStable(kept, Less(kept))
         /\ phase' = "limit" /\ UNCHANGED <<table, stmt, kept, page, outCols, outRows>>
  BY DEF OrderRows, SortBy
<1>4. CASE Fatal(kept) # {} /\ Panics
  <2>1. ~Full
    BY <1>1, <1>2, <1>4, FullTablesSort
  <2>2. Full' = Full
    BY <1>4 DEF Panics, Full, Columns
  <2>3. QED
    BY <1>1, <1>4, <2>1, <2>2 DEF Panics, SelectInv, Phases, RowsKept, RowsSorted, RowsLimited,
       RowsProjected, RowsAreTables
<1>5. CASE /\ sorted' \in SliceStable(kept, Less(kept))
           /\ phase' = "limit" /\ UNCHANGED <<table, stmt, kept, page, outCols, outRows>>
  <2>1. /\ sorted' \in SliceStable(kept, Less(kept)) /\ phase' = "limit"
        /\ UNCHANGED <<table, stmt, kept, page, outCols, outRows>>
    BY <1>5
  <2>2. sorted' \in Seq(ToSet(table.rows))
    BY <1>2, <2>1, SortArranges
  <2>3. Keep' = Keep /\ Less(kept)' = Less(kept)
    <3>1. stmt' = stmt /\ table' = table /\ kept' = kept
      BY <2>1
    <3>2. Keep' = Keep
      BY <3>1 DEF Keep, WhereOf, Eval, Columns
    <3>3. Less(kept)' = Less(kept)
      <4>1. Columns' = Columns
        BY <3>1 DEF Columns
      <4>2. ASSUME NEW item PROVE Key(item)' = Key(item)
        BY <3>1 DEF Key, nthSelectColumn
      <4>3. Keys' = Keys
        BY <3>1, <4>2 DEF Keys
      <4>4. ASSUME NEW a, NEW b PROVE Verdict(a, b)' = Verdict(a, b)
        BY ONLY <3>1, <4>1, <4>2, <4>3 DEF Verdict, Says, Eval
      <4>5. QED
        BY <3>1, <4>4 DEF Less
    <3>4. QED
      BY <3>2, <3>3
  <2>4. RowsKept' /\ RowsSorted'
    BY <1>1, <2>1, <2>3 DEF RowsKept, RowsSorted
  <2>5. RowsAreTables'
    BY <1>1, <2>1, <2>2 DEF RowsAreTables
  <2>6. QED
    BY <1>1, <2>1, <2>4, <2>5 DEF SelectInv, Phases, RowsLimited, RowsProjected
<1>6. QED
  BY <1>3, <1>4, <1>5

(* Nothing the rows are selected by changes. *)
LEMMA SelectionStands ==
  ASSUME table' = table, stmt' = stmt
  PROVE  /\ Full' = Full /\ Keep' = Keep /\ Projection' = Projection
         /\ \A rows : Less(rows)' = Less(rows)
         /\ \A row : Projected(row)' = Projected(row)
<1>1. Columns' = Columns
  BY DEF Columns
<1>2. Full' = Full
  BY <1>1 DEF Full
<1>3. Keep' = Keep
  BY <1>1 DEF Keep, WhereOf, Eval
<1>4. ASSUME NEW item PROVE Key(item)' = Key(item)
  BY DEF Key, nthSelectColumn
<1>5. Keys' = Keys
  BY <1>4 DEF Keys
<1>6. ASSUME NEW a, NEW b PROVE Verdict(a, b)' = Verdict(a, b)
  BY <1>1, <1>4, <1>5 DEF Verdict, Says, Eval
<1>7. ASSUME NEW rows PROVE Less(rows)' = Less(rows)
  BY <1>6 DEF Less
<1>8. ASSUME NEW f PROVE Projs(f)' = Projs(f)
  BY <1>1 DEF Projs, Read
<1>9. Projection' = Projection
  BY <1>8 DEF Projection
<1>10. ASSUME NEW row PROVE Projected(row)' = Projected(row)
  BY <1>1, <1>9 DEF Projected, Eval
<1>11. QED
  BY <1>2, <1>3, <1>7, <1>9, <1>10

LEMMA ApplyLimitKeepsInv == SelectInv /\ ApplyLimit => SelectInv'
<1> SUFFICES ASSUME SelectInv, ApplyLimit PROVE SelectInv'
  OBVIOUS
<1>1. /\ table \in Tables /\ stmt \in Statements /\ RowsAreTables
      /\ outRows = <<>> /\ RowsKept /\ RowsSorted
  BY DEF SelectInv, ApplyLimit, RowsProjected
<1>2. /\ phase = "limit" /\ phase' = "project" /\ page' = applyLimit(sorted, stmt.limit)
      /\ UNCHANGED <<table, stmt, kept, sorted, outCols, outRows>>
  BY DEF ApplyLimit
<1>3. Keep' = Keep /\ Less(kept)' = Less(kept)
  <2>1. Keep' = Keep /\ \A rows : Less(rows)' = Less(rows)
    BY <1>2, SelectionStands
  <2>2. QED
    BY <1>2, <2>1 DEF Less
<1>4. RowsKept' /\ RowsSorted' /\ RowsLimited'
  BY <1>1, <1>2, <1>3 DEF RowsKept, RowsSorted, RowsLimited
<1>5. page' \in Seq(ToSet(table.rows))
  <2>1. LimitType(stmt.limit) /\ sorted \in Seq(ToSet(table.rows))
    BY <1>1, TheStatement DEF RowsAreTables
  <2>2. QED
    BY <1>2, <2>1, LimitIs
<1>6. RowsAreTables'
  BY <1>1, <1>2, <1>5 DEF RowsAreTables
<1>7. QED
  BY <1>1, <1>2, <1>4, <1>6 DEF SelectInv, Phases, RowsProjected

LEMMA ProjectRowsKeepsInv == SelectInv /\ ProjectRows => SelectInv'
<1> SUFFICES ASSUME SelectInv, ProjectRows PROVE SelectInv'
  OBVIOUS
<1>1. /\ table \in Tables /\ stmt \in Statements /\ RowsAreTables /\ phase = "project"
      /\ outRows = <<>> /\ RowsKept /\ RowsSorted /\ RowsLimited
  BY DEF SelectInv, ProjectRows, RowsProjected
<1> DEFINE result == [i \in DOMAIN page |-> Projected(page[i])]
<1>2. IF \E i \in DOMAIN result : Panic \in ToSet(result[i]) THEN Panics
      ELSE /\ outCols' = [i \in DOMAIN Projection |-> Projection[i].col]
           /\ outRows' = result /\ phase' = "build"
           /\ UNCHANGED <<table, stmt, kept, sorted, page>>
  BY DEF ProjectRows
<1>3. CASE \E i \in DOMAIN result : Panic \in ToSet(result[i])
  <2>1. Panics
    BY <1>2, <1>3
  <2>2. ~Full
    <3>1. SUFFICES ASSUME Full PROVE FALSE
      OBVIOUS
    <3>2. PICK i \in DOMAIN page : Panic \in ToSet(Projected(page[i]))
      BY <1>3
    <3>3. PICK j \in DOMAIN Projected(page[i]) : Projected(page[i])[j] = Panic
      BY <3>2 DEF ToSet
    <3>4. FullRow(page[i])
      <4>1. page[i] \in ToSet(table.rows)
        BY <1>1 DEF RowsAreTables
      <4>2. QED
        BY <1>1, <3>1, <4>1, FullIs DEF ToSet
    <3>5. Projection[j] \in ProjsOf(stmt.fields) /\ Projected(page[i])[j] = Output(page[i], Projection[j])
      BY <1>1, ProjectedIs
    <3>6. QED
      BY <1>1, <3>3, <3>4, <3>5, OutputsDoNotPanic
  <2>3. Full' = Full
    BY <2>1 DEF Panics, Full, Columns
  <2>4. QED
    BY <1>1, <2>1, <2>2, <2>3 DEF Panics, SelectInv, Phases, RowsKept, RowsSorted, RowsLimited,
       RowsProjected, RowsAreTables
<1>4. CASE ~\E i \in DOMAIN result : Panic \in ToSet(result[i])
  <2>1. /\ outCols' = [i \in DOMAIN Projection |-> Projection[i].col]
        /\ outRows' = result /\ phase' = "build" /\ UNCHANGED <<table, stmt, kept, sorted, page>>
    BY <1>2, <1>4
  <2>2. /\ Keep' = Keep /\ Projection' = Projection /\ Less(kept)' = Less(kept)
        /\ [i \in DOMAIN page |-> Projected(page[i])]' = result
    <3>1. /\ Keep' = Keep /\ Projection' = Projection
          /\ \A rows : Less(rows)' = Less(rows)
          /\ \A row : Projected(row)' = Projected(row)
      BY <2>1, SelectionStands
    <3>2. Less(kept)' = Less(kept)
      BY <2>1, <3>1 DEF Less
    <3>3. [i \in DOMAIN page |-> Projected(page[i])]' = result
      BY <2>1, <3>1
    <3>4. QED
      BY <3>1, <3>2, <3>3
  <2>3. RowsKept' /\ RowsSorted' /\ RowsLimited' /\ RowsProjected'
    BY <1>1, <2>1, <2>2 DEF RowsKept, RowsSorted, RowsLimited, RowsProjected
  <2>4. RowsAreTables'
    BY <1>1, <2>1 DEF RowsAreTables
  <2>5. QED
    BY <1>1, <2>1, <2>3, <2>4 DEF SelectInv, Phases
<1>5. QED
  BY <1>3, <1>4

LEMMA BuildResultKeepsInv == SelectInv /\ BuildResult => SelectInv'
<1> SUFFICES ASSUME SelectInv, BuildResult PROVE SelectInv'
  OBVIOUS
<1>1. /\ table \in Tables /\ stmt \in Statements /\ RowsAreTables /\ phase = "build"
      /\ RowsKept /\ RowsSorted /\ RowsLimited /\ RowsProjected
  BY DEF SelectInv, BuildResult
<1>2. /\ phase' = IF Builds(outRows) THEN "answered" ELSE "refused"
      /\ UNCHANGED <<table, stmt, kept, sorted, page, outCols, outRows>>
  BY DEF BuildResult
<1>3. /\ Keep' = Keep /\ Projection' = Projection /\ Less(kept)' = Less(kept)
      /\ [i \in DOMAIN page |-> Projected(page[i])]' = [i \in DOMAIN page |-> Projected(page[i])]
  <2>1. /\ Keep' = Keep /\ Projection' = Projection
        /\ \A rows : Less(rows)' = Less(rows)
        /\ \A row : Projected(row)' = Projected(row)
    BY <1>2, SelectionStands
  <2>2. Less(kept)' = Less(kept)
    BY <1>2, <2>1 DEF Less
  <2>3. QED
    BY <1>2, <2>1, <2>2
<1>4. RowsKept' /\ RowsSorted' /\ RowsLimited'
  BY <1>1, <1>2, <1>3 DEF RowsKept, RowsSorted, RowsLimited
<1>5. RowsProjected' /\ RowsAreTables'
  BY <1>1, <1>2, <1>3 DEF RowsProjected, RowsAreTables
<1>6. phase' = "refused" => ~Builds(outRows)'
  BY <1>2 DEF Builds
<1>7. QED
  BY <1>1, <1>2, <1>4, <1>5, <1>6 DEF SelectInv, Phases

LEMMA StutterKeepsInv == SelectInv /\ UNCHANGED vars => SelectInv'
<1> SUFFICES ASSUME SelectInv, UNCHANGED vars PROVE SelectInv'
  OBVIOUS
<1>1. /\ table' = table /\ stmt' = stmt /\ phase' = phase /\ kept' = kept /\ sorted' = sorted
      /\ page' = page /\ outCols' = outCols /\ outRows' = outRows
  BY DEF vars
<1>2. /\ Keep' = Keep /\ Projection' = Projection /\ Less(kept)' = Less(kept) /\ Full' = Full
      /\ [i \in DOMAIN page |-> Projected(page[i])]' = [i \in DOMAIN page |-> Projected(page[i])]
  <2>1. /\ Keep' = Keep /\ Projection' = Projection /\ Full' = Full
        /\ \A rows : Less(rows)' = Less(rows)
        /\ \A row : Projected(row)' = Projected(row)
    BY <1>1, SelectionStands
  <2>2. Less(kept)' = Less(kept)
    BY <1>1, <2>1 DEF Less
  <2>3. QED
    BY <1>1, <2>1, <2>2
<1>3. RowsKept' /\ RowsSorted' /\ RowsLimited' /\ RowsProjected' /\ RowsAreTables'
  BY <1>1, <1>2 DEF SelectInv, RowsKept, RowsSorted, RowsLimited, RowsProjected, RowsAreTables
<1>4. phase' = "refused" => ~Builds(outRows)'
  BY <1>1 DEF SelectInv, Builds
<1>5. QED
  BY <1>1, <1>2, <1>3, <1>4 DEF SelectInv

(* handleSelect (select_handler.go:93-115): at every call, what the         *)
(* functions called before it have returned is as SelectInv says.           *)
THEOREM SelectInvariant == Spec => []SelectInv
<1>1. Init => SelectInv
  BY SelectInvInit
<1>2. SelectInv /\ [Next]_vars => SelectInv'
  BY FilterRowsKeepsInv, OrderRowsKeepsInv, ApplyLimitKeepsInv, ProjectRowsKeepsInv,
     BuildResultKeepsInv, StutterKeepsInv DEF Next
<1>3. QED
  BY <1>1, <1>2, PTL DEF Spec

-----------------------------------------------------------------------------
(* Theorems *)

(* Types (select_handler.go:97-142): whatever is kept, sorted or on the     *)
(* page is a row of the table, and no truth value leaves projectRows.       *)
THEOREM SelectTypesHold == Spec => []SelectTypeOK
<1>1. SelectInv => SelectTypeOK
  <2> SUFFICES ASSUME SelectInv PROVE SelectTypeOK
    OBVIOUS
  <2>1. /\ table \in Tables /\ stmt \in Statements /\ phase \in Phases
        /\ RowsAreTables /\ RowsProjected
    BY DEF SelectInv
  <2>2. \A rows \in {kept, sorted, page} : ToSet(rows) \subseteq ToSet(table.rows)
    <3>1. ASSUME NEW rows \in {kept, sorted, page} PROVE ToSet(rows) \subseteq ToSet(table.rows)
      <4>1. rows \in Seq(ToSet(table.rows))
        BY <2>1 DEF RowsAreTables
      <4> HIDE DEF ToSet
      <4>2. QED
        BY <4>1, ElementsIn
    <3>2. QED
      BY <3>1
  <2>3. ASSUME NEW i \in DOMAIN outRows, NEW j \in DOMAIN outRows[i]
        PROVE  Len(outRows[i]) = Len(outCols) /\ outRows[i][j][1] # "bool"
    <3>1. /\ outCols = [k \in DOMAIN Projection |-> Projection[k].col]
          /\ outRows = [k \in DOMAIN page |-> Projected(page[k])]
      BY <2>1 DEF RowsProjected
    <3>2. i \in DOMAIN page /\ outRows[i] = Projected(page[i])
      BY <3>1
    <3>3. /\ DOMAIN Projection = 1..Len(Projection) /\ Len(Projection) \in Nat
          /\ DOMAIN Projected(page[i]) = 1..Len(Projection)
          /\ Len(Projected(page[i])) = Len(Projection)
          /\ \A k \in 1..Len(Projection) : Projected(page[i])[k] = Output(page[i], Projection[k])
      BY <2>1, ProjectedIs
    <3>4. Len(outCols) = Len(Projection)
      BY <3>1, <3>3
    <3>5. QED
      BY <3>2, <3>3, <3>4, NoBoolLeaves
  <2>4. QED
    BY <2>1, <2>2, <2>3 DEF SelectTypeOK, Phases
<1>2. QED
  BY <1>1, SelectInvariant, PTL

(* evalExpr, lookup, orderRows and projectRows (expr_eval.go:52-89,         *)
(* select_handler.go:160-320): a SELECT of a table with full rows never     *)
(* panics, and a table whose columns are of one type each is answered.      *)
THEOREM SelectsOfFullTablesAreAnswered == Spec => []FullTablesAreAnswered
<1>1. SelectInv => FullTablesAreAnswered
  <2> SUFFICES ASSUME SelectInv, Full,
                      Typed, \A i \in DOMAIN stmt.fields :
                               LET e == stmt.fields[i].expr IN e # None => ~Decimal(e),
                      phase = "refused"
               PROVE  FALSE
    BY DEF SelectInv, FullTablesAreAnswered
  <2>1. /\ table \in Tables /\ stmt \in Statements /\ RowsAreTables
        /\ outRows = [k \in DOMAIN page |-> Projected(page[k])] /\ ~Builds(outRows)
    BY DEF SelectInv, RowsProjected
  <2>2. ASSUME NEW k \in DOMAIN outRows
        PROVE  /\ DOMAIN outRows[k] = 1..Len(Projection)
               /\ \E i \in DOMAIN table.rows : \A j \in 1..Len(Projection) :
                    outRows[k][j] = Output(table.rows[i], Projection[j])
    <3>1. k \in DOMAIN page /\ outRows[k] = Projected(page[k])
      BY <2>1
    <3>2. page[k] \in ToSet(table.rows)
      BY <2>1, <3>1 DEF RowsAreTables
    <3>3. PICK i \in DOMAIN table.rows : page[k] = table.rows[i]
      BY <3>2 DEF ToSet
    <3>4. QED
      BY <2>1, <3>1, <3>3, ProjectedIs
  <2>3. ASSUME NEW j \in 1..Len(Projection)
        PROVE  \E t \in {"int", "float", "text"} : \A k \in DOMAIN outRows :
                 outRows[k][j] = Nil \/ outRows[k][j][1] = t
    <3> DEFINE p == Projection[j]
    <3>1. p \in ProjsOf(stmt.fields)
      BY <2>1, ProjectedIs
    <3>2. p.expr # None => ~Decimal(p.expr)
      BY <2>1, <3>1, ProjsAre
    <3> HIDE DEF p
    <3>3. PICK t \in {"int", "float", "text"} : \A i \in DOMAIN table.rows :
            LET v == Output(table.rows[i], p) IN v = Nil \/ v[1] = t
      BY <2>1, <3>1, <3>2, OutputsAreOfOneKind
    <3>4. QED
      BY <2>2, <3>3 DEF p
  <2>4. Builds(outRows)
    <3>1. ASSUME NEW i \in DOMAIN outRows, NEW j \in DOMAIN outRows[i]
          PROVE  outRows[i][j][1] \in {"nil", "int", "float", "text"}
      <4>1. j \in 1..Len(Projection)
        BY <2>2
      <4>2. QED
        BY <2>3, <4>1, NilIsNoPanic
    <3>2. ASSUME NEW i \in DOMAIN outRows, NEW k \in DOMAIN outRows, NEW j \in DOMAIN outRows[i],
                 Nil \notin {outRows[i][j], outRows[k][j]}
          PROVE  outRows[i][j][1] = outRows[k][j][1]
      <4>1. j \in 1..Len(Projection)
        BY <2>2
      <4>2. QED
        BY <2>3, <3>2, <4>1
    <3>3. QED
      BY <3>1, <3>2 DEF Builds
  <2>5. QED
    BY <2>1, <2>4
<1>2. QED
  BY <1>1, SelectInvariant, PTL

-----------------------------------------------------------------------------
(* SQL's truth, and the conditions a condition is made of, are recursions   *)
(* over Expr too.                                                           *)

(* f is right about the expressions that are nested less than n deep.       *)
Right(step, f, n) == \A x \in Expr : Nesting(x) < n => f[x] = step[f][x]

(* A step looks at the operands of an expression only. *)
Local(D, step) ==
    \A f, g \in [Expr -> D], e \in Expr :
      (\A x \in Operands(e) : f[x] = g[x]) => step[f][e] = step[g][e]

Agree(f, g, m, n) == \A x \in Expr : Nesting(x) < m /\ Nesting(x) < n => f[x] = g[x]

LEMMA RightOnce ==
  ASSUME NEW D, NEW step \in [[Expr -> D] -> [Expr -> D]],
         Local(D, step),
         NEW f \in [Expr -> D], NEW g \in [Expr -> D], NEW m \in Nat, NEW n \in Nat,
         Right(step, f, m), Right(step, g, n)
  PROVE  Agree(f, g, m, n)
<1> DEFINE S == {x \in Expr : Nesting(x) < m /\ Nesting(x) < n => f[x] = g[x]}
<1>1. ASSUME NEW x \in Expr, Operands(x) \subseteq S PROVE x \in S
  <2>1. SUFFICES ASSUME Nesting(x) < m, Nesting(x) < n PROVE f[x] = g[x]
    OBVIOUS
  <2>2. ASSUME NEW y \in Operands(x) PROVE f[y] = g[y]
    <3>1. y \in S /\ Nesting(y) \in Nat /\ Nesting(x) \in Nat /\ Nesting(y) < Nesting(x)
      BY <1>1, ExprAssumption
    <3>2. Nesting(y) < m /\ Nesting(y) < n
      BY <2>1, <3>1
    <3>3. QED
      BY <3>1, <3>2
  <2>3. step[f][x] = step[g][x]
    BY <2>2 DEF Local
  <2>4. QED
    BY <2>1, <2>3 DEF Right
<1>2. S = Expr
  <2> HIDE DEF S
  <2>1. S \in SUBSET Expr
    BY DEF S
  <2>2. QED
    BY <1>1, <2>1, ByNesting
<1>3. QED
  BY <1>2 DEF Agree

LEMMA RecursionExists ==
  ASSUME NEW D, D # {}, NEW step \in [[Expr -> D] -> [Expr -> D]],
         Local(D, step)
  PROVE  \E f \in [Expr -> D] : f = step[f]
<1> DEFINE T == {n \in Nat : \E f \in [Expr -> D] : Right(step, f, n)}
<1>1. 0 \in T
  <2>1. PICK d \in D : TRUE
    OBVIOUS
  <2> DEFINE f == [x \in Expr |-> d]
  <2>2. f \in [Expr -> D]
    OBVIOUS
  <2> HIDE DEF f
  <2>3. Right(step, f, 0)
    BY ExprAssumption DEF Right
  <2>4. QED
    BY <2>2, <2>3
<1>2. ASSUME NEW n \in T PROVE n + 1 \in T
  <2>1. n \in Nat
    OBVIOUS
  <2>2. PICK f \in [Expr -> D] : Right(step, f, n)
    OBVIOUS
  <2> DEFINE g == step[f]
  <2>3. g \in [Expr -> D]
    OBVIOUS
  <2>4. ASSUME NEW x \in Expr, Nesting(x) < n + 1 PROVE g[x] = step[g][x]
    <3>1. ASSUME NEW y \in Operands(x) PROVE f[y] = g[y]
      <4>1. y \in Expr /\ Nesting(y) \in Nat /\ Nesting(x) \in Nat /\ Nesting(y) < Nesting(x)
        BY ExprAssumption
      <4>2. Nesting(y) < n
        BY <2>1, <2>4, <4>1
      <4>3. QED
        BY <2>2, <4>1, <4>2 DEF Right
    <3> HIDE DEF g
    <3>2. step[f][x] = step[g][x]
      BY <2>3, <3>1 DEF Local
    <3>3. QED
      BY <3>2 DEF g
  <2> HIDE DEF g
  <2>5. Right(step, g, n + 1)
    BY <2>4 DEF Right
  <2>6. QED
    BY <2>1, <2>3, <2>5
<1>3. T = Nat
  <2>1. T \in SUBSET Nat
    OBVIOUS
  <2> HIDE DEF T
  <2>2. QED
    BY <1>1, <1>2, <2>1, Counted
<1> DEFINE upto(n) == CHOOSE f \in [Expr -> D] : Right(step, f, n)
           h == [x \in Expr |-> upto(Nesting(x) + 1)[x]]
<1>4. \A n \in Nat : upto(n) \in [Expr -> D] /\ Right(step, upto(n), n)
  BY <1>3
<1> HIDE DEF upto, T
<1>5. \A x \in Expr : Nesting(x) \in Nat /\ Nesting(x) + 1 \in Nat /\ Nesting(x) < Nesting(x) + 1
  BY ExprAssumption
<1>6. h \in [Expr -> D]
  BY <1>4, <1>5
<1>7. \A x \in Expr : h[x] = upto(Nesting(x) + 1)[x]
  OBVIOUS
<1> HIDE DEF h
<1>8. ASSUME NEW x \in Expr PROVE h[x] = step[h][x]
  <2> DEFINE n == Nesting(x) + 1
             f == upto(n)
  <2>1. n \in Nat /\ Nesting(x) < n /\ f \in [Expr -> D] /\ Right(step, f, n) /\ h[x] = f[x]
    BY <1>4, <1>5, <1>7
  <2>2. ASSUME NEW y \in Operands(x) PROVE f[y] = h[y]
    <3> DEFINE m == Nesting(y) + 1
               g == upto(m)
    <3>1. y \in Expr /\ Nesting(y) < n
      BY <1>5, ExprAssumption
    <3>2. m \in Nat /\ Nesting(y) < m /\ g \in [Expr -> D] /\ Right(step, g, m) /\ h[y] = g[y]
      BY <1>4, <1>5, <1>7, <3>1
    <3> HIDE DEF f, g, m, n
    <3>3. f[y] = g[y]
      <4>1. Agree(f, g, n, m)
        BY <2>1, <3>2, RightOnce
      <4>2. QED
        BY <2>1, <3>1, <3>2, <4>1 DEF Agree
    <3>4. QED
      BY <3>2, <3>3
  <2> HIDE DEF f, n
  <2>3. step[f][x] = step[h][x]
    BY <1>6, <2>1, <2>2 DEF Local
  <2>4. QED
    BY <2>1, <2>3 DEF Right
<1>9. h = step[h]
  <2> DEFINE g == step[h]
  <2>1. g \in [Expr -> D] /\ \A x \in Expr : g[x] = h[x]
    BY <1>6, <1>8
  <2> HIDE DEF g
  <2>2. g = h
    BY <1>6, <2>1
  <2>3. QED
    BY <2>2 DEF g
<1>10. QED
  BY <1>6, <1>9

LEMMA TruthsAre ==
  ASSUME NEW value, NEW f \in [Expr -> Tri], NEW e \in Expr
  PROVE  SQLTruthBy(value, f, e) \in Tri
<1>1. \A t, u : SQLAnd(t, u) \in Tri /\ SQLNot(t) \in Tri /\ SQLOr(t, u) \in Tri
  BY DEF SQLAnd, SQLNot, SQLOr, notTri, Tri
<1>2. \A op, a, b : SQLHolds(op, a, b) \in Tri
  BY DEF SQLHolds, Tri
<1>3. \A truths : SQLSome(truths) \in Tri
  BY DEF SQLSome, Tri
<1>4. \A t \in Tri : \A not : SQLTurned(t, not) \in Tri
  BY <1>1 DEF SQLTurned
<1>5. \A b : (IF b THEN "true" ELSE "false") \in Tri /\ "unknown" \in Tri
  BY DEF Tri
<1>6. \A v : triOf(v) \in Tri
  BY DEF triOf, Tri
<1>7. CASE e.op \in {"value", "column", "and", "or", "not", "nulleq", "is null", "is truth"} \cup Relation
  BY <1>1, <1>2, <1>5, <1>6, <1>7 DEF SQLTruthBy, Relation
<1>8. CASE e.op = "between"
  BY <1>1, <1>4, <1>8 DEF SQLTruthBy, Relation
<1>9. CASE e.op = "in"
  BY <1>3, <1>4, <1>9 DEF SQLTruthBy, Relation
<1>10. CASE e.op = "like"
  BY <1>4, <1>5, <1>10 DEF SQLTruthBy, Relation
<1>11. CASE e.op \notin {"value", "column", "and", "or", "not", "nulleq", "is null", "is truth",
                         "between", "in", "like"} \cup Relation
  BY <1>5, <1>11 DEF SQLTruthBy, Relation
<1>12. QED
  BY <1>7, <1>8, <1>9, <1>10, <1>11

LEMMA TruthIsLocal ==
  ASSUME NEW value, NEW f, NEW g, NEW e \in Expr, \A x \in Operands(e) : f[x] = g[x]
  PROVE  SQLTruthBy(value, f, e) = SQLTruthBy(value, g, e)
<1>1. CASE e.op \in {"and", "or"}
  <2>1. f[e.l] = g[e.l] /\ f[e.r] = g[e.r]
    BY <1>1 DEF Operands, BinaryOp, Relation
  <2>2. QED
    BY <1>1, <2>1 DEF SQLTruthBy, Relation
<1>2. CASE e.op \in {"not", "is truth"}
  <2>1. f[e.of] = g[e.of]
    BY <1>2 DEF Operands, BinaryOp, Relation
  <2>2. QED
    BY <1>2, <2>1 DEF SQLTruthBy, Relation
<1>3. CASE e.op \notin {"and", "or", "not", "is truth"}
  BY <1>3 DEF SQLTruthBy, Relation
<1>4. QED
  BY <1>1, <1>2, <1>3

(* The truth of every expression over a row. *)
Truths(row) == [x \in Expr |-> SQLTruth(Columns, row, x)]

LEMMA SQLTruthIs ==
  ASSUME NEW row, NEW e \in Expr
  PROVE  /\ SQLTruth(Columns, row, e) = SQLTruthBy(Values(row), Truths(row), e)
         /\ SQLTruth(Columns, row, e) \in Tri
<1> DEFINE value == [y \in Expr |-> evalExpr(Columns, row, y)]
           Body(f) == [x \in Expr |-> SQLTruthBy(value, f, x)]
           step == [f \in [Expr -> Tri] |-> Body(f)]
           truth == CHOOSE f : f = Body(f)
<1>1. value = Values(row)
  BY DEF Values, Eval
<1>2. \A x \in Expr : SQLTruth(Columns, row, x) = truth[x]
  BY DEF SQLTruth
<1> HIDE DEF value
<1>3. ASSUME NEW f \in [Expr -> Tri] PROVE Body(f) \in [Expr -> Tri]
  BY TruthsAre
<1>4. step \in [[Expr -> Tri] -> [Expr -> Tri]] /\ \A f \in [Expr -> Tri] : step[f] = Body(f)
  <2> HIDE DEF Body
  <2>1. QED
    BY <1>3
<1>5. \A f, x : x \in Expr => Body(f)[x] = SQLTruthBy(value, f, x)
  OBVIOUS
<1> HIDE DEF step, Body
<1>6. Local(Tri, step)
  <2>1. ASSUME NEW f \in [Expr -> Tri], NEW g \in [Expr -> Tri], NEW x \in Expr,
               \A y \in Operands(x) : f[y] = g[y]
        PROVE  step[f][x] = step[g][x]
    <3>1. SQLTruthBy(value, f, x) = SQLTruthBy(value, g, x)
      BY <2>1, TruthIsLocal
    <3>2. QED
      BY <1>4, <1>5, <3>1
  <2>2. QED
    BY <2>1 DEF Local
<1>7. Tri # {}
  BY DEF Tri
<1>8. PICK f \in [Expr -> Tri] : f = step[f]
  BY <1>4, <1>6, <1>7, RecursionExists
<1>9. f = Body(f)
  BY <1>4, <1>8
<1>10. truth = Body(truth)
  BY <1>9
<1> HIDE DEF truth
<1>11. \A x \in Expr : truth[x] = SQLTruthBy(value, truth, x)
  BY <1>5, <1>10
<1>12. truth = Truths(row)
  <2>1. truth = [x \in Expr |-> truth[x]]
    BY <1>10 DEF Body
  <2>2. QED
    BY <1>2, <2>1 DEF Truths
<1>13. truth \in [Expr -> Tri]
  <2> DEFINE S == {x \in Expr : truth[x] \in Tri}
  <2>1. ASSUME NEW x \in Expr, Operands(x) \subseteq S PROVE x \in S
    <3> DEFINE g == [y \in Expr |-> IF y \in S THEN truth[y] ELSE "unknown"]
    <3>1. g \in [Expr -> Tri] /\ \A y \in Operands(x) : g[y] = truth[y]
      BY <2>1 DEF Tri
    <3> HIDE DEF g
    <3>2. SQLTruthBy(value, g, x) = SQLTruthBy(value, truth, x)
      BY <3>1, TruthIsLocal
    <3>3. SQLTruthBy(value, g, x) \in Tri
      BY <3>1, TruthsAre
    <3>4. QED
      BY <1>11, <3>2, <3>3
  <2>2. S = Expr
    <3> HIDE DEF S
    <3>1. S \in SUBSET Expr
      BY DEF S
    <3>2. QED
      BY <2>1, <3>1, ByNesting
  <2>3. truth = [x \in Expr |-> truth[x]]
    BY <1>10 DEF Body
  <2>4. QED
    BY <2>2, <2>3
<1>14. QED
  BY <1>1, <1>2, <1>11, <1>12, <1>13

LEMMA ConditionsAre ==
  ASSUME NEW e \in Expr
  PROVE  Conditions(e) = {e} \cup
           CASE e.op \in {"and", "or"} -> Conditions(e.l) \cup Conditions(e.r)
             [] e.op = "not" -> Conditions(e.of)
             [] OTHER -> {}
<1> DEFINE D == SUBSET Expr
           Body(f) == [x \in Expr |-> ConditionsBy(f, x)]
           step == [f \in [Expr -> D] |-> Body(f)]
           conditions == CHOOSE f : f = Body(f)
<1>1. \A x : Conditions(x) = conditions[x]
  BY DEF Conditions
<1>2. \A x \in Expr : /\ x.op \in {"and", "or"} => {x.l, x.r} \subseteq Operands(x)
                      /\ x.op = "not" => x.of \in Operands(x)
  BY DEF Operands, BinaryOp, Relation
<1>3. ASSUME NEW f \in [Expr -> D], NEW x \in Expr PROVE ConditionsBy(f, x) \in D
  <2>1. \A y \in Operands(x) : y \in Expr /\ f[y] \subseteq Expr
    BY ExprAssumption
  <2>2. QED
    BY <1>2, <2>1 DEF ConditionsBy
<1>4. ASSUME NEW f, NEW g, NEW x \in Expr, \A y \in Operands(x) : f[y] = g[y]
      PROVE  ConditionsBy(f, x) = ConditionsBy(g, x)
  BY <1>2, <1>4 DEF ConditionsBy
<1>5. \A f, x : x \in Expr => Body(f)[x] = ConditionsBy(f, x)
  OBVIOUS
<1>6. step \in [[Expr -> D] -> [Expr -> D]] /\ \A f \in [Expr -> D] : step[f] = Body(f)
  <2>1. \A f \in [Expr -> D] : Body(f) \in [Expr -> D]
    BY <1>3
  <2> HIDE DEF Body
  <2>2. QED
    BY <2>1
<1> HIDE DEF step, Body
<1>7. Local(D, step)
  BY <1>4, <1>5, <1>6 DEF Local
<1>8. D # {}
  OBVIOUS
<1> HIDE DEF D
<1>9. PICK f \in [Expr -> D] : f = step[f]
  BY <1>6, <1>7, <1>8, RecursionExists
<1>10. conditions = Body(conditions)
  <2>1. f = Body(f)
    BY <1>6, <1>9
  <2>2. QED
    BY <2>1
<1> HIDE DEF conditions
<1>11. conditions[e] = ConditionsBy(conditions, e)
  BY <1>5, <1>10
<1>12. QED
  BY <1>1, <1>11 DEF ConditionsBy

-----------------------------------------------------------------------------
(* The three-valued logic *)

(* expr_eval.go:145-188 and 217-218: what SQL decides of a condition the    *)
(* code decides in the same way, if it does of the condition's operands.    *)
THEOREM ConnectivesFollowSQL ==
  ASSUME NEW s \in Tri, NEW t \in Tri, NEW c \in Tri, NEW d \in Tri,
         Follows(s, c), Follows(t, d)
  PROVE /\ Follows(SQLAnd(s, t), And(c, d))
        /\ Follows(SQLOr(s, t), Or(c, d))
        /\ Follows(SQLNot(s), Not(c))
<1> USE DEF Tri, Follows, SQLNot, notTri
<1>1. Follows(SQLAnd(s, t), And(c, d))
  BY DEF SQLAnd, And
<1>2. Follows(SQLOr(s, t), Or(c, d))
  BY DEF SQLOr, SQLAnd, Or
<1>3. Follows(SQLNot(s), Not(c))
  BY DEF Not
<1>4. QED
  BY <1>1, <1>2, <1>3

(* OR, and NOT of a condition evaluated as SQL does, keep SQL's rows even   *)
(* where NULLs make the condition unknown; AND is not one of them.          *)
THEOREM OrAndNotKeepSQLsRows ==
  ASSUME NEW s \in Tri, NEW t \in Tri, NEW c \in Tri, NEW d \in Tri
  PROVE /\ SameRows(s, c) /\ SameRows(t, d) => SameRows(SQLOr(s, t), Or(c, d))
        /\ SameRows(SQLNot(s), Not(s))
        /\ ~SameRows(SQLAnd("unknown", "true"), And("unknown", "true"))
<1> USE DEF Tri, SameRows, SQLNot, notTri
<1>1. ASSUME SameRows(s, c), SameRows(t, d) PROVE SameRows(SQLOr(s, t), Or(c, d))
  BY <1>1 DEF SQLOr, SQLAnd, Or
<1>2. SameRows(SQLNot(s), Not(s))
  BY DEF Not
<1>3. ~SameRows(SQLAnd("unknown", "true"), And("unknown", "true"))
  BY DEF SQLAnd, And
<1>4. QED
  BY <1>1, <1>2, <1>3

-----------------------------------------------------------------------------
(* Comparisons *)

SimpleValue(v) == v = Nil \/ IsText(v) \/ (IsNumber(v) /\ v[2] \in Int)

LEMMA PlainCells ==
  ASSUME table \in Tables, Plain, NEW i \in DOMAIN table.rows, NEW j \in DOMAIN Columns
  PROVE  /\ SimpleValue(table.rows[i][j])
         /\ IsText(table.rows[i][j]) => toFloat(table.rows[i][j]) = {}
         /\ IsNumber(table.rows[i][j]) => table.rows[i][j][1] = "float"
<1> DEFINE v == table.rows[i][j]
<1>1. v \in Datum
  <2>1. FullRow(table.rows[i]) /\ Columns \in Seq(Name)
    BY TheTable, FullIs DEF Plain
  <2>2. QED
    BY <2>1 DEF FullRow
<1>2. v = Nil \/ v[1] # "nested"
  BY DEF Plain, Typed
<1>3. v[1] # "bool" /\ (IsText(v) => toFloat(v) = {})
  BY DEF Plain
<1>4. \/ v = Nil \/ v[1] \in {"text", "nested"}
      \/ v[1] = "bool" /\ v[2] \in BOOLEAN
      \/ v[1] = "float" /\ v[2] \in Int
  BY <1>1, DatumAssumption
<1> HIDE DEF v
<1>5. SimpleValue(v)
  BY <1>2, <1>3, <1>4 DEF SimpleValue, IsText, IsNumber
<1>6. IsNumber(v) => v[1] = "float"
  BY <1>4, NilIsNoPanic DEF IsNumber
<1>7. QED
  BY <1>3, <1>5, <1>6 DEF v

LEMMA ColumnsAre ==
  ASSUME table \in Tables, Plain, NEW i \in DOMAIN table.rows, NEW e \in Expr, e.op = "column"
  PROVE  LET v == Eval(table.rows[i], e)
         IN \/ v = Nil
            \/ \E j \in DOMAIN Columns : v = table.rows[i][j] /\ v \in Datum
<1> DEFINE row == table.rows[i]
           v == Eval(row, e)
<1>1. FullRow(row) /\ Columns \in Seq(Name) /\ Len(Columns) \in Nat
  BY TheTable, FullIs DEF Plain
<1>2. v = lookup(Columns, row, e.name)
  <2>1. v = ValueOf(Columns, row, Values(row), e)
    BY EvalIs
  <2>2. QED
    BY <2>1 DEF ValueOf, BinaryOp, Relation
<1> HIDE DEF row, v
<1> DEFINE j == columnIndex(Columns, e.name)
<1>3. /\ j = 0 => v = Nil
      /\ j # 0 => j \in DOMAIN Columns /\ j \in DOMAIN row /\ v = row[j]
  BY <1>1, <1>2, LookupIs
<1> HIDE DEF j
<1>4. \A k \in DOMAIN row : row[k] \in Datum
  BY <1>1 DEF FullRow
<1>5. QED
  BY <1>3, <1>4 DEF row, v

LEMMA SimpleValues ==
  ASSUME table \in Tables, Plain, NEW i \in DOMAIN table.rows, NEW e \in Expr, Simple(e)
  PROVE  SimpleValue(Eval(table.rows[i], e))
<1> DEFINE row == table.rows[i]
<1>1. CASE e.op = "column"
  BY <1>1, ColumnsAre, PlainCells DEF SimpleValue
<1>2. CASE e.op = "value" /\ e.v[1] # "decimal"
  <2>1. Eval(row, e) = ValueOf(Columns, row, Values(row), e)
    BY EvalIs
  <2>2. Eval(row, e) = e.v
    BY <1>2, <2>1 DEF ValueOf, BinaryOp, Relation
  <2>3. e.v = Nil \/ e.v[1] = "text" \/ (IsNumber(e.v) /\ e.v[2] \in Int)
    BY <1>2, ExprAssumption
  <2>4. QED
    BY <2>2, <2>3 DEF SimpleValue, IsText, IsNumber
<1>3. QED
  BY <1>1, <1>2 DEF Simple

LEMMA NumbersAre ==
  ASSUME NEW v, IsNumber(v), SimpleValue(v)
  PROVE  Number(v) \in Int /\ (v[1] = "float" => Number(v) = v[2] /\ Held(v))
<1>1. v[2] \in Int /\ v[1] \in {"int", "float"}
  BY NilIsNoPanic DEF SimpleValue, IsText, IsNumber
<1>2. v[1] = "int" => Number(v) = v[2] * Unit
  BY DEF Number
<1>3. v[1] = "float" => Number(v) = v[2] /\ toFloat(v) = {v[2]}
  BY DEF Number, toFloat, IsText
<1>4. v[2] * Unit \in Int
  BY <1>1, UnitAssumption
<1>5. QED
  BY <1>1, <1>2, <1>3, <1>4 DEF Held

LEMMA ComparesAsSQL ==
  ASSUME NEW a, NEW b, SimpleValue(a), SimpleValue(b), Kindred(a, b), a # Nil, b # Nil
  PROVE  compareValues(a, b) = SQLCompare(a, b) /\ compareValues(a, b) \in {-1, 0, 1}
<1>1. \A p, q : Sign(p, q) \in {-1, 0, 1}
  BY DEF Sign
<1>2. CASE Held(a) /\ Held(b)
  <2>1. IsNumber(a) /\ IsNumber(b) /\ toFloat(a) = {Number(a)} /\ toFloat(b) = {Number(b)}
    BY <1>2 DEF Held
  <2>2. Number(a) \in Int /\ Number(b) \in Int
    BY <2>1, NumbersAre
  <2>3. NumberOf(a) = Number(a) /\ NumberOf(b) = Number(b)
    BY <2>1 DEF NumberOf
  <2>4. compareValues(a, b) = Sign(Number(a) < Number(b), Number(a) > Number(b))
    BY <2>1, <2>2, <2>3, NaNAssumption DEF compareValues, Ordered
  <2>5. SQLCompare(a, b) = Sign(Number(a) < Number(b), Number(a) > Number(b))
    BY <2>1 DEF SQLCompare
  <2>6. QED
    BY <1>1, <2>4, <2>5
<1>3. CASE IsText(a) /\ IsText(b) /\ {} \in {toFloat(a), toFloat(b)}
  <2>1. stringOfOr(a) = a[2] /\ stringOfOr(b) = b[2] /\ ~IsNumber(a)
    BY <1>3 DEF stringOfOr, IsText, IsNumber
  <2>2. QED
    BY <1>1, <1>3, <2>1 DEF compareValues, SQLCompare
<1>4. QED
  BY <1>2, <1>3 DEF Kindred

(* A comparison is decided as SQL decides it, and NULL by both. *)
LEMMA HoldsAsSQL ==
  ASSUME NEW a, NEW b, SimpleValue(a), SimpleValue(b), Kindred(a, b)
  PROVE  /\ Nil \in {a, b} => \A op : SQLHolds(op, a, b) = "unknown"
         /\ Nil \notin {a, b} => \A op : SQLHolds(op, a, b) =
              IF Holds(op, compareValues(a, b)) THEN "true" ELSE "false"
BY ComparesAsSQL DEF SQLHolds

LEMMA TriOfIs ==
  /\ triOf(BoolOf(TRUE)) = "true" /\ triOf(BoolOf(FALSE)) = "false"
  /\ triOf(Nil) = "unknown"
  /\ \A t \in Tri : triOf(Truth(t)) = t
  /\ \A v : triOf(v) \in Tri
<1>1. /\ BoolOf(TRUE) # Nil /\ BoolOf(TRUE)[1] = "bool" /\ BoolOf(TRUE)[2]
      /\ BoolOf(FALSE) # Nil /\ BoolOf(FALSE)[1] = "bool" /\ ~BoolOf(FALSE)[2]
  <2>1. /\ BoolOf(TRUE)[1] = "bool" /\ BoolOf(TRUE)[2]
        /\ BoolOf(FALSE)[1] = "bool" /\ ~BoolOf(FALSE)[2]
    BY DEF BoolOf
  <2>2. QED
    BY <2>1, NilIsNoPanic
<1>2. triOf(BoolOf(TRUE)) = "true" /\ triOf(BoolOf(FALSE)) = "false"
  <2>1. \A v : v # Nil /\ v[1] = "bool" => triOf(v) = IF v[2] THEN "true" ELSE "false"
    BY DEF triOf, IsNumber, IsText
  <2>2. /\ triOf(BoolOf(TRUE)) = IF BoolOf(TRUE)[2] THEN "true" ELSE "false"
        /\ triOf(BoolOf(FALSE)) = IF BoolOf(FALSE)[2] THEN "true" ELSE "false"
    BY <1>1, <2>1, Zenon
  <2>3. QED
    BY <1>1, <2>2, Zenon
<1>3. triOf(Nil) = "unknown"
  BY NilIsNoPanic DEF triOf, IsNumber, IsText
<1>4. \A t \in Tri : triOf(Truth(t)) = t
  <2>1. ASSUME NEW t \in Tri PROVE triOf(Truth(t)) = t
    <3>1. CASE t = "unknown"
      BY <1>3, <3>1 DEF Truth
    <3>2. CASE t = "true"
      <4>1. Truth(t) = BoolOf(TRUE)
        BY <3>2 DEF Truth
      <4>2. QED
        BY <1>2, <3>2, <4>1
    <3>3. CASE t = "false"
      <4>1. Truth(t) = BoolOf(FALSE)
        BY <3>3 DEF Truth
      <4>2. QED
        BY <1>2, <3>3, <4>1
    <3>4. QED
      BY <3>1, <3>2, <3>3 DEF Tri
  <2>2. QED
    BY <2>1
<1>5. \A v : triOf(v) \in Tri
  BY DEF triOf, Tri
<1>6. QED
  BY <1>2, <1>3, <1>4, <1>5

LEMMA TriOfBool ==
  ASSUME NEW b \in BOOLEAN
  PROVE  triOf(BoolOf(b)) = IF b THEN "true" ELSE "false"
<1>1. CASE b = TRUE
  BY <1>1, TriOfIs
<1>2. CASE b = FALSE
  BY <1>2, TriOfIs
<1>3. QED
  BY <1>1, <1>2

LEMMA TriOfTurned ==
  ASSUME NEW b \in BOOLEAN, NEW c \in BOOLEAN
  PROVE  triOf(Turned(b, c)) = SQLTurned(IF b THEN "true" ELSE "false", c)
<1>1. triOf(Turned(b, c)) = IF b # c THEN "true" ELSE "false"
  <2>1. (b # c) \in BOOLEAN
    OBVIOUS
  <2>2. triOf(BoolOf(b # c)) = IF b # c THEN "true" ELSE "false"
    BY <2>1, TriOfBool
  <2>3. QED
    BY <2>2 DEF Turned
<1>2. CASE b
  BY <1>1, <1>2 DEF SQLTurned, SQLNot, notTri
<1>3. CASE ~b
  BY <1>1, <1>3 DEF SQLTurned, SQLNot, notTri
<1>4. QED
  BY <1>2, <1>3

(* The conditions that Compared describes are decided as SQL decides them:  *)
(* first those that are not made of others.                                 *)
LEMMA ComparisonsFollowSQL ==
  ASSUME table \in Tables, Plain, NEW i \in DOMAIN table.rows, NEW e \in Expr,
         e.op \notin {"and", "or", "not"}, Compared(Values(table.rows[i]), e)
  PROVE  /\ Follows(SQLTruth(Columns, table.rows[i], e), triOf(Eval(table.rows[i], e)))
         /\ SQLTruth(Columns, table.rows[i], e) = triOf(Eval(table.rows[i], e))
<1> DEFINE row == table.rows[i]
           val == Values(row)
           tr == Truths(row)
           v == ValueOf(Columns, row, val, e)
           s == SQLTruthBy(val, tr, e)
<1>1. Eval(row, e) = v /\ SQLTruth(Columns, row, e) = s
  BY EvalIs, SQLTruthIs
<1>2. \A x \in Operands(e) : x \in Expr /\ val[x] # Panic /\ (Simple(x) => SimpleValue(val[x]))
  <2>1. Columns \in Seq(Name) /\ FullRow(row)
    BY TheTable, FullIs DEF Plain
  <2>2. \A x \in Operands(e) : x \in Expr /\ val[x] = Eval(row, x)
    BY ValuesAre
  <2>3. QED
    BY <2>1, <2>2, FullRowsDoNotPanic, SimpleValues
<1> DEFINE Beside(x, y) == Simple(x) /\ Simple(y) /\ Kindred(val[x], val[y])
<1>3. CASE e.op \in Relation \cup {"nulleq"}
  <2>1. Beside(e.l, e.r)
    BY <1>3 DEF Compared, Relation
  <2>2. {e.l, e.r} \subseteq Operands(e)
    BY <1>3 DEF Operands, BinaryOp, Relation
  <2> DEFINE l == val[e.l]
             r == val[e.r]
  <2>3. SimpleValue(l) /\ SimpleValue(r) /\ Kindred(l, r) /\ l # Panic /\ r # Panic
    BY <1>2, <2>1, <2>2
  <2>4. v = compareOp(e.op, l, r)
    BY <1>3, <2>3 DEF ValueOf, BinaryOp, Relation, Strict
  <2>5. /\ e.op \in Relation => s = SQLHolds(e.op, l, r)
        /\ e.op = "nulleq" => s = IF Nil \in {l, r} THEN IF l = r THEN "true" ELSE "false"
                                  ELSE SQLHolds("eq", l, r)
    BY <1>3 DEF SQLTruthBy, Relation
  <2> HIDE DEF l, r, v, s
  <2>6. s = triOf(v)
    <3>1. CASE e.op = "nulleq"
      <4> DEFINE b == (l = Nil) = (r = Nil) /\ (l # Nil => compareValues(l, r) = 0)
      <4>1. v = BoolOf(b) /\ b \in BOOLEAN
        <5>1. v = BoolOf(b)
          <6>1. v = compareOp("nulleq", l, r)
            BY <2>4, <3>1
          <6>2. compareOp("nulleq", l, r) = BoolOf(b)
            BY DEF compareOp
          <6>3. QED
            BY <6>1, <6>2
        <5>2. b \in BOOLEAN
          OBVIOUS
        <5>3. QED
          BY <5>1, <5>2
      <4>2. triOf(v) = IF b THEN "true" ELSE "false"
        <5> HIDE DEF b
        <5>1. QED
          BY <4>1, TriOfBool
      <4>3. CASE Nil \in {l, r}
        BY <2>5, <3>1, <4>2, <4>3
      <4>4. CASE Nil \notin {l, r}
        <5>1. SQLHolds("eq", l, r) = IF Holds("eq", compareValues(l, r)) THEN "true" ELSE "false"
          BY <2>3, <4>4, HoldsAsSQL
        <5>2. QED
          BY <2>5, <3>1, <4>2, <4>4, <5>1 DEF Holds
      <4>5. QED
        BY <4>3, <4>4
    <3>2. CASE e.op \in Relation /\ Nil \in {l, r}
      BY <2>3, <2>4, <2>5, <3>2, HoldsAsSQL, TriOfIs DEF compareOp, Relation
    <3>3. CASE e.op \in Relation /\ Nil \notin {l, r}
      <4> DEFINE b == Holds(e.op, compareValues(l, r))
      <4>1. b \in BOOLEAN
        <5> DEFINE c == compareValues(l, r)
        <5> HIDE DEF c
        <5>1. Holds(e.op, c) \in BOOLEAN
          <6>1. \A op \in Relation : Holds(op, c) \in BOOLEAN
            <7>1. Holds("eq", c) \in BOOLEAN /\ Holds("ne", c) \in BOOLEAN
              BY DEF Holds
            <7>2. Holds("lt", c) \in BOOLEAN /\ Holds("le", c) \in BOOLEAN
              BY DEF Holds
            <7>3. Holds("gt", c) \in BOOLEAN /\ Holds("ge", c) \in BOOLEAN
              BY DEF Holds
            <7>4. QED
              BY <7>1, <7>2, <7>3 DEF Relation
          <6>2. QED
            BY <3>3, <6>1
        <5>2. QED
          BY <5>1 DEF c
      <4>2. v = BoolOf(b)
        BY <2>4, <3>3 DEF compareOp, Relation
      <4>3. s = IF b THEN "true" ELSE "false"
        BY <2>3, <2>5, <3>3, HoldsAsSQL
      <4> HIDE DEF b
      <4>4. QED
        BY <4>1, <4>2, <4>3, TriOfBool
    <3>4. QED
      BY <1>3, <3>1, <3>2, <3>3
  <2>7. QED
    BY <1>1, <2>6 DEF Follows, v, s
<1>4. CASE e.op = "is null"
  <2>1. e.of \in Operands(e)
    BY <1>4 DEF Operands, BinaryOp, Relation
  <2> DEFINE b == val[e.of] = Nil
  <2>2. v = Turned(b, e.not) /\ e.not \in BOOLEAN /\ b \in BOOLEAN
    BY <1>2, <1>4, <2>1, NotAssumption DEF ValueOf, BinaryOp, Relation, Strict
  <2>3. s = IF b # e.not THEN "true" ELSE "false"
    BY <1>4 DEF SQLTruthBy, Relation
  <2> HIDE DEF b, s, v
  <2>4. triOf(v) = SQLTurned(IF b THEN "true" ELSE "false", e.not)
    BY <2>2, TriOfTurned
  <2>5. s = triOf(v)
    BY <2>2, <2>3, <2>4 DEF SQLTurned, SQLNot, notTri
  <2>6. QED
    BY <1>1, <2>5 DEF Follows, v, s
<1>5. CASE e.op = "between"
  <2>1. Beside(e.of, e.lo) /\ Beside(e.of, e.hi) /\ val[e.lo] # Nil /\ val[e.hi] # Nil
    BY <1>5 DEF Compared, Relation
  <2>2. {e.of, e.lo, e.hi} \subseteq Operands(e)
    BY <1>5 DEF Operands, BinaryOp, Relation
  <2> DEFINE x == val[e.of]
             lo == val[e.lo]
             hi == val[e.hi]
  <2>3. /\ SimpleValue(x) /\ SimpleValue(lo) /\ SimpleValue(hi) /\ Kindred(x, lo) /\ Kindred(x, hi)
        /\ x # Panic /\ lo # Panic /\ hi # Panic /\ lo # Nil /\ hi # Nil
    BY <1>2, <2>1, <2>2
  <2>4. v = evalBetween(x, lo, hi, e.not) /\ e.not \in BOOLEAN
    BY <1>5, <2>3, NotAssumption DEF ValueOf, BinaryOp, Relation, Strict
  <2>5. s = SQLTurned(SQLAnd(SQLHolds("ge", x, lo), SQLHolds("le", x, hi)), e.not)
    BY <1>5 DEF SQLTruthBy, Relation
  <2> HIDE DEF x, lo, hi, v, s
  <2>6. s = triOf(v)
    <3>1. CASE x = Nil
      <4>1. v = Nil
        BY <2>4, <3>1 DEF evalBetween
      <4>2. SQLHolds("ge", x, lo) = "unknown" /\ SQLHolds("le", x, hi) = "unknown"
        BY <2>3, <3>1, HoldsAsSQL
      <4>3. QED
        BY <2>5, <4>1, <4>2, TriOfIs DEF SQLTurned, SQLAnd, SQLNot, notTri
    <3>2. CASE x # Nil
      <4> DEFINE p == compareValues(x, lo) >= 0
                 q == compareValues(x, hi) <= 0
      <4>1. v = Turned(p /\ q, e.not)
        BY <2>3, <2>4, <3>2 DEF evalBetween
      <4>2. /\ SQLHolds("ge", x, lo) = IF p THEN "true" ELSE "false"
            /\ SQLHolds("le", x, hi) = IF q THEN "true" ELSE "false"
        <5>1. /\ SQLHolds("ge", x, lo) = IF Holds("ge", compareValues(x, lo)) THEN "true" ELSE "false"
              /\ SQLHolds("le", x, hi) = IF Holds("le", compareValues(x, hi)) THEN "true" ELSE "false"
          <6>1. Nil \notin {x, lo} /\ Nil \notin {x, hi}
            BY <2>3, <3>2
          <6>2. QED
            BY <2>3, <6>1, HoldsAsSQL
        <5>2. (Holds("ge", compareValues(x, lo)) <=> p) /\ (Holds("le", compareValues(x, hi)) <=> q)
          BY DEF Holds
        <5>3. QED
          BY <5>1, <5>2
      <4> HIDE DEF p, q
      <4>3. triOf(v) = SQLTurned(IF p /\ q THEN "true" ELSE "false", e.not)
        <5>1. (p /\ q) \in BOOLEAN
          OBVIOUS
        <5>2. QED
          BY <2>4, <4>1, <5>1, TriOfTurned
      <4>4. SQLAnd(SQLHolds("ge", x, lo), SQLHolds("le", x, hi)) = IF p /\ q THEN "true" ELSE "false"
        BY <4>2 DEF SQLAnd
      <4>5. QED
        BY <2>5, <4>3, <4>4
    <3>3. QED
      BY <3>1, <3>2
  <2>7. QED
    BY <1>1, <2>6 DEF Follows, v, s
<1>6. CASE e.op = "in"
  <2>1. \A k \in DOMAIN e.list : Beside(e.of, e.list[k])
    BY <1>6 DEF Compared, Relation
  <2>2. e.of \in Operands(e) /\ \A k \in DOMAIN e.list : e.list[k] \in Operands(e)
    BY <1>6 DEF Operands, BinaryOp, Relation
  <2> DEFINE x == val[e.of]
             items == {val[e.list[k]] : k \in DOMAIN e.list}
             truths == {SQLHolds("eq", val[e.of], val[e.list[k]]) : k \in DOMAIN e.list}
             matched == \E y \in items : y # Nil /\ compareValues(x, y) = 0
  <2>3. x # Panic /\ Panic \notin items
    BY <1>2, <2>2
  <2>4. v = (IF x = Nil \/ (~matched /\ Nil \in items) THEN Nil ELSE Turned(matched, e.not))
        /\ e.not \in BOOLEAN
    <3>1. v = IF x = Nil THEN Nil ELSE evalIn(x, items, e.not)
      BY <1>6, <2>3 DEF ValueOf, BinaryOp, Relation, Strict
    <3> HIDE DEF v, items
    <3>2. QED
      BY <1>6, <3>1, NotAssumption DEF evalIn
  <2>5. s = SQLTurned(SQLSome(truths), e.not)
    BY <1>6 DEF SQLTruthBy, Relation
  <2>6. ASSUME NEW k \in DOMAIN e.list
        PROVE  LET y == val[e.list[k]] t == SQLHolds("eq", x, y)
               IN /\ Nil \in {x, y} => t = "unknown"
                  /\ Nil \notin {x, y} => t = IF compareValues(x, y) = 0 THEN "true" ELSE "false"
    <3> DEFINE y == val[e.list[k]]
    <3>1. SimpleValue(x) /\ SimpleValue(y) /\ Kindred(x, y)
      BY <1>2, <2>1, <2>2
    <3> HIDE DEF x, y
    <3>2. Nil \in {x, y} => SQLHolds("eq", x, y) = "unknown"
      BY <3>1, HoldsAsSQL
    <3>3. Nil \notin {x, y} =>
            SQLHolds("eq", x, y) = IF Holds("eq", compareValues(x, y)) THEN "true" ELSE "false"
      BY <3>1, HoldsAsSQL
    <3>4. Holds("eq", compareValues(x, y)) <=> compareValues(x, y) = 0
      BY DEF Holds
    <3>5. QED
      BY <3>2, <3>3, <3>4 DEF y
  <2>7. PICK k \in DOMAIN e.list : TRUE
    BY <1>6, ExprAssumption
  <2>8. s = triOf(v)
    <3>1. CASE x = Nil
      <4>1. "unknown" \in truths /\ "true" \notin truths
        BY <2>6, <2>7, <3>1
      <4>2. SQLSome(truths) = "unknown"
        BY <4>1 DEF SQLSome
      <4>3. v = Nil
        BY <2>4, <3>1
      <4> HIDE DEF v, s, truths
      <4>4. QED
        BY <2>5, <4>2, <4>3, TriOfIs DEF SQLTurned, SQLNot, notTri
    <3>2. CASE x # Nil
      <4>1. "true" \in truths <=> matched
        BY <2>6, <3>2
      <4>2. "unknown" \in truths <=> Nil \in items
        BY <2>6, <3>2
      <4> HIDE DEF x, items, truths, matched, v, s
      <4>3. CASE ~matched /\ Nil \in items
        <5>1. v = Nil /\ SQLSome(truths) = "unknown"
          BY <2>4, <4>1, <4>2, <4>3 DEF SQLSome
        <5>2. QED
          BY <2>5, <5>1, TriOfIs DEF SQLTurned, SQLNot, notTri
      <4>4. CASE ~(~matched /\ Nil \in items)
        <5>1. v = Turned(matched, e.not) /\ SQLSome(truths) = IF matched THEN "true" ELSE "false"
          BY <2>4, <3>2, <4>1, <4>2, <4>4 DEF SQLSome
        <5>2. matched \in BOOLEAN
          BY DEF matched
        <5>3. QED
          BY <2>4, <2>5, <5>1, <5>2, TriOfTurned
      <4>5. QED
        BY <4>3, <4>4
    <3>3. QED
      BY <3>1, <3>2
  <2>9. QED
    BY <1>1, <2>8 DEF Follows
<1>7. QED
  BY <1>3, <1>4, <1>5, <1>6 DEF Compared, Relation

(* What is made of a condition's conditions, by a connective.               *)
LEMMA ConnectivesAre ==
  ASSUME table \in Tables, Plain, NEW i \in DOMAIN table.rows, NEW e \in Expr
  PROVE  LET row == table.rows[i]
             c(x) == triOf(Eval(row, x))
             s(x) == SQLTruth(Columns, row, x)
         IN /\ e.op = "and" => c(e) = And(c(e.l), c(e.r)) /\ s(e) = SQLAnd(s(e.l), s(e.r))
            /\ e.op = "or" => c(e) = Or(c(e.l), c(e.r)) /\ s(e) = SQLOr(s(e.l), s(e.r))
            /\ e.op = "not" => c(e) = Not(c(e.of)) /\ s(e) = SQLNot(s(e.of))
<1> DEFINE row == table.rows[i]
           val == Values(row)
           tr == Truths(row)
<1>1. Eval(row, e) = ValueOf(Columns, row, val, e) /\ SQLTruth(Columns, row, e) = SQLTruthBy(val, tr, e)
  BY EvalIs, SQLTruthIs
<1>2. \A x \in Operands(e) : /\ x \in Expr /\ val[x] = Eval(row, x) /\ val[x] # Panic
                             /\ tr[x] = SQLTruth(Columns, row, x)
  <2>1. Columns \in Seq(Name) /\ FullRow(row)
    BY TheTable, FullIs DEF Plain
  <2>2. \A x \in Operands(e) : x \in Expr /\ val[x] = Eval(row, x)
    BY ValuesAre
  <2>3. \A x \in Operands(e) : tr[x] = SQLTruth(Columns, row, x)
    BY <2>2 DEF Truths
  <2>4. QED
    BY <2>1, <2>2, <2>3, FullRowsDoNotPanic
<1>3. ASSUME NEW t \in Tri PROVE triOf(Truth(t)) = t
  BY TriOfIs
<1>4. CASE e.op = "and"
  <2>1. {e.l, e.r} \subseteq Operands(e)
    BY <1>4 DEF Operands, BinaryOp, Relation
  <2> DEFINE l == val[e.l]
             r == val[e.r]
  <2>2. Eval(row, e) = IF triOf(l) = "false" THEN BoolOf(FALSE) ELSE Truth(And(triOf(l), triOf(r)))
    BY <1>1, <1>2, <1>4, <2>1 DEF ValueOf, BinaryOp, Relation, Strict
  <2>3. SQLTruth(Columns, row, e) = SQLAnd(tr[e.l], tr[e.r])
    BY <1>1, <1>4 DEF SQLTruthBy, Relation
  <2>4. l = Eval(row, e.l) /\ r = Eval(row, e.r)
        /\ tr[e.l] = SQLTruth(Columns, row, e.l) /\ tr[e.r] = SQLTruth(Columns, row, e.r)
    BY <1>2, <2>1
  <2> HIDE DEF l, r, val, tr
  <2>5. triOf(Eval(row, e)) = And(triOf(l), triOf(r))
    <3>1. CASE triOf(l) = "false"
      <4>1. Eval(row, e) = BoolOf(FALSE)
        BY <2>2, <3>1
      <4>2. triOf(BoolOf(FALSE)) = "false"
        BY TriOfIs
      <4>3. QED
        BY <3>1, <4>1, <4>2 DEF And
    <3>2. CASE triOf(l) # "false"
      <4>1. And(triOf(l), triOf(r)) \in Tri
        BY DEF And, Tri
      <4>2. QED
        BY <1>3, <2>2, <3>2, <4>1
    <3>3. QED
      BY <3>1, <3>2
  <2>6. QED
    BY <1>4, <2>3, <2>4, <2>5
<1>5. CASE e.op = "or"
  <2>1. {e.l, e.r} \subseteq Operands(e)
    BY <1>5 DEF Operands, BinaryOp, Relation
  <2> DEFINE l == val[e.l]
             r == val[e.r]
  <2>2. Eval(row, e) = IF triOf(l) = "true" THEN BoolOf(TRUE) ELSE Truth(Or(triOf(l), triOf(r)))
    BY <1>1, <1>2, <1>5, <2>1 DEF ValueOf, BinaryOp, Relation, Strict
  <2>3. SQLTruth(Columns, row, e) = SQLOr(tr[e.l], tr[e.r])
    BY <1>1, <1>5 DEF SQLTruthBy, Relation
  <2>4. l = Eval(row, e.l) /\ r = Eval(row, e.r)
        /\ tr[e.l] = SQLTruth(Columns, row, e.l) /\ tr[e.r] = SQLTruth(Columns, row, e.r)
    BY <1>2, <2>1
  <2> HIDE DEF l, r, val, tr
  <2>5. triOf(Eval(row, e)) = Or(triOf(l), triOf(r))
    <3>1. CASE triOf(l) = "true"
      <4>1. Eval(row, e) = BoolOf(TRUE)
        BY <2>2, <3>1
      <4>2. triOf(BoolOf(TRUE)) = "true"
        BY TriOfIs
      <4>3. QED
        BY <3>1, <4>1, <4>2 DEF Or
    <3>2. CASE triOf(l) # "true"
      <4>1. Or(triOf(l), triOf(r)) \in Tri
        BY DEF Or, Tri
      <4>2. QED
        BY <1>3, <2>2, <3>2, <4>1
    <3>3. QED
      BY <3>1, <3>2
  <2>6. QED
    BY <1>5, <2>3, <2>4, <2>5
<1>6. CASE e.op = "not"
  <2>1. e.of \in Operands(e)
    BY <1>6 DEF Operands, BinaryOp, Relation
  <2> DEFINE v == val[e.of]
  <2>2. Eval(row, e) = Truth(Not(triOf(v)))
    BY <1>1, <1>2, <1>6, <2>1 DEF ValueOf, BinaryOp, Relation, Strict, evalUnary
  <2>3. SQLTruth(Columns, row, e) = SQLNot(tr[e.of])
    BY <1>1, <1>6 DEF SQLTruthBy, Relation
  <2>4. v = Eval(row, e.of) /\ tr[e.of] = SQLTruth(Columns, row, e.of)
    BY <1>2, <2>1
  <2> HIDE DEF v, val, tr
  <2>5. triOf(Eval(row, e)) = Not(triOf(v))
    <3>1. Not(triOf(v)) \in Tri
      BY DEF Not, Tri
    <3>2. QED
      BY <1>3, <2>2, <3>1
  <2>6. QED
    BY <1>6, <2>3, <2>4, <2>5
<1>7. QED
  BY <1>4, <1>5, <1>6

(* A condition's own conditions are conditions of those it is part of. *)
LEMMA ConditionsOfParts ==
  ASSUME NEW e \in Expr
  PROVE  /\ e \in Conditions(e)
         /\ e.op \in {"and", "or"} =>
              /\ {e.l, e.r} \subseteq Operands(e)
              /\ Conditions(e.l) \subseteq Conditions(e) /\ Conditions(e.r) \subseteq Conditions(e)
         /\ e.op = "not" => e.of \in Operands(e) /\ Conditions(e.of) \subseteq Conditions(e)
<1>1. e \in Conditions(e)
  BY ConditionsAre
<1>2. ASSUME e.op \in {"and", "or"}
      PROVE  /\ {e.l, e.r} \subseteq Operands(e)
             /\ Conditions(e.l) \subseteq Conditions(e) /\ Conditions(e.r) \subseteq Conditions(e)
  BY <1>2, ConditionsAre DEF Operands, BinaryOp, Relation
<1>3. ASSUME e.op = "not" PROVE e.of \in Operands(e) /\ Conditions(e.of) \subseteq Conditions(e)
  BY <1>3, ConditionsAre DEF Operands, BinaryOp, Relation
<1>4. QED
  BY <1>1, <1>2, <1>3

(* All the conditions of e are comparisons that SQL and the code agree on. *)
AllCompared(row, e) == \A c \in Conditions(e) : Compared(Values(row), c)

LEMMA DecisionsFollowSQL ==
  ASSUME table \in Tables, Plain, NEW i \in DOMAIN table.rows
  PROVE  \A e \in Expr : AllCompared(table.rows[i], e) =>
           Follows(SQLTruth(Columns, table.rows[i], e), triOf(Eval(table.rows[i], e)))
<1> DEFINE row == table.rows[i]
           c(x) == triOf(Eval(row, x))
           s(x) == SQLTruth(Columns, row, x)
           S == {x \in Expr : AllCompared(row, x) => Follows(s(x), c(x))}
<1>1. \A x \in Expr : s(x) \in Tri /\ c(x) \in Tri
  BY SQLTruthIs, TriOfIs
<1>2. ASSUME NEW e \in Expr, Operands(e) \subseteq S PROVE e \in S
  <2>1. SUFFICES ASSUME AllCompared(row, e) PROVE Follows(s(e), c(e))
    OBVIOUS
  <2>2. /\ e.op = "and" => c(e) = And(c(e.l), c(e.r)) /\ s(e) = SQLAnd(s(e.l), s(e.r))
        /\ e.op = "or" => c(e) = Or(c(e.l), c(e.r)) /\ s(e) = SQLOr(s(e.l), s(e.r))
        /\ e.op = "not" => c(e) = Not(c(e.of)) /\ s(e) = SQLNot(s(e.of))
    BY ConnectivesAre
  <2>3. ASSUME NEW x \in Operands(e), Conditions(x) \subseteq Conditions(e)
        PROVE  x \in Expr /\ Follows(s(x), c(x)) /\ s(x) \in Tri /\ c(x) \in Tri
    BY <1>1, <1>2, <2>1, <2>3 DEF AllCompared
  <2>4. CASE e.op \in {"and", "or"}
    <3>1. /\ s(e.l) \in Tri /\ c(e.l) \in Tri /\ Follows(s(e.l), c(e.l))
          /\ s(e.r) \in Tri /\ c(e.r) \in Tri /\ Follows(s(e.r), c(e.r))
      BY <2>3, <2>4, ConditionsOfParts
    <3> HIDE DEF c, s
    <3>2. Follows(SQLAnd(s(e.l), s(e.r)), And(c(e.l), c(e.r)))
          /\ Follows(SQLOr(s(e.l), s(e.r)), Or(c(e.l), c(e.r)))
      BY <3>1, ConnectivesFollowSQL
    <3>3. QED
      BY <2>2, <2>4, <3>2
  <2>5. CASE e.op = "not"
    <3>1. s(e.of) \in Tri /\ c(e.of) \in Tri /\ Follows(s(e.of), c(e.of))
      BY <2>3, <2>5, ConditionsOfParts
    <3> HIDE DEF c, s
    <3>2. Follows(SQLNot(s(e.of)), Not(c(e.of)))
      BY <3>1, ConnectivesFollowSQL
    <3>3. QED
      BY <2>2, <2>5, <3>2
  <2>6. CASE e.op \notin {"and", "or", "not"}
    <3>1. Compared(Values(row), e)
      BY <2>1, ConditionsOfParts DEF AllCompared
    <3>2. QED
      BY <2>6, <3>1, ComparisonsFollowSQL
  <2>7. QED
    BY <2>4, <2>5, <2>6
<1> HIDE DEF c, s
<1>3. S = Expr
  <2>1. S \in SUBSET Expr
    OBVIOUS
  <2> HIDE DEF S
  <2>2. QED
    BY <1>2, <2>1, ByNesting
<1>4. QED
  BY <1>3 DEF c, s

-----------------------------------------------------------------------------
(* What filterRows keeps *)

LEMMA FilterOfNone ==
  ASSUME NEW keep
  PROVE  Filter(<<>>, keep) = <<>>
<1>1. PICK f \in [0..Len(<<>>) -> Seq({})] :
        Filtering(<<>>, keep, f) /\ Filter(<<>>, keep) = f[Len(<<>>)]
  <2>1. <<>> \in Seq({})
    OBVIOUS
  <2>2. QED
    BY <2>1, FilterLoops
<1>2. QED
  BY <1>1 DEF Filtering

LEMMA FilterOfMore ==
  ASSUME NEW S, NEW rows \in Seq(S), NEW row \in S, NEW keep
  PROVE  Filter(Append(rows, row), keep) =
           IF keep[row] THEN Append(Filter(rows, keep), row) ELSE Filter(rows, keep)
<1> DEFINE n == Len(rows)
           more == Append(rows, row)
<1>1. more \in Seq(S) /\ Len(more) = n + 1 /\ n \in Nat /\ more[n + 1] = row
      /\ \A i \in 1..n : more[i] = rows[i]
  OBVIOUS
<1> HIDE DEF more
<1>2. PICK f \in [0..n -> Seq(S)] : Filtering(rows, keep, f) /\ Filter(rows, keep) = f[n]
  BY FilterLoops
<1>3. PICK g \in [0..Len(more) -> Seq(S)] : Filtering(more, keep, g) /\ Filter(more, keep) = g[Len(more)]
  BY <1>1, FilterLoops
<1> DEFINE T == {i \in Nat : i <= n => g[i] = f[i]}
<1>4. 0 \in T
  BY <1>2, <1>3 DEF Filtering
<1>5. ASSUME NEW i \in T PROVE i + 1 \in T
  <2>1. SUFFICES ASSUME i + 1 <= n PROVE g[i + 1] = f[i + 1]
    OBVIOUS
  <2>2. /\ i \in Nat /\ i + 1 \in 1..n /\ i + 1 \in 1..Len(more) /\ (i + 1) - 1 = i
        /\ g[i] = f[i] /\ more[i + 1] = rows[i + 1]
    BY <1>1, <2>1
  <2>3. /\ f[i + 1] = IF keep[rows[i + 1]] THEN Append(f[i], rows[i + 1]) ELSE f[i]
        /\ g[i + 1] = IF keep[more[i + 1]] THEN Append(g[i], more[i + 1]) ELSE g[i]
    BY <1>2, <1>3, <2>2 DEF Filtering
  <2>4. QED
    BY <2>2, <2>3
<1>6. T \in SUBSET Nat
  OBVIOUS
<1> HIDE DEF T
<1>7. T = Nat
  BY <1>4, <1>5, <1>6, Counted
<1>8. g[n] = f[n]
  BY <1>1, <1>7 DEF T
<1>9. /\ n + 1 \in 1..Len(more) /\ (n + 1) - 1 = n
  BY <1>1
<1>10. g[n + 1] = IF keep[row] THEN Append(g[n], row) ELSE g[n]
  BY <1>1, <1>3, <1>9 DEF Filtering
<1>11. QED
  BY <1>1, <1>2, <1>3, <1>8, <1>10 DEF more

(* Everything kept is to be kept, and filtering again by what is asked of   *)
(* fewer rows is as good as filtering by that alone.                        *)
LEMMA FilterKeeps ==
  ASSUME NEW S, NEW rows \in Seq(S), NEW keep
  PROVE  /\ Filter(rows, keep) \in Seq(S)
         /\ \A i \in DOMAIN Filter(rows, keep) : keep[Filter(rows, keep)[i]]
<1> DEFINE n == Len(rows)
<1>1. PICK f \in [0..n -> Seq(S)] : Filtering(rows, keep, f) /\ Filter(rows, keep) = f[n]
  BY FilterLoops
<1>2. n \in Nat /\ \A i \in 1..n : rows[i] \in S
  OBVIOUS
<1> DEFINE T == {i \in Nat : i <= n => \A k \in 1..Len(f[i]) : keep[f[i][k]]}
<1>3. 0 \in T
  BY <1>1 DEF Filtering
<1>4. ASSUME NEW i \in T PROVE i + 1 \in T
  <2>1. SUFFICES ASSUME i + 1 <= n PROVE \A k \in 1..Len(f[i + 1]) : keep[f[i + 1][k]]
    OBVIOUS
  <2>2. i \in Nat /\ i \in 0..n /\ i + 1 \in 1..n /\ (i + 1) - 1 = i
        /\ \A k \in 1..Len(f[i]) : keep[f[i][k]]
    BY <1>2, <2>1
  <2>3. f[i] \in Seq(S) /\ rows[i + 1] \in S
        /\ f[i + 1] = IF keep[rows[i + 1]] THEN Append(f[i], rows[i + 1]) ELSE f[i]
    BY <1>1, <1>2, <2>2 DEF Filtering
  <2>4. CASE keep[rows[i + 1]]
    <3>1. /\ f[i + 1] = Append(f[i], rows[i + 1]) /\ Len(f[i + 1]) = Len(f[i]) + 1 /\ Len(f[i]) \in Nat
          /\ f[i + 1][Len(f[i]) + 1] = rows[i + 1]
          /\ \A k \in 1..Len(f[i]) : f[i + 1][k] = f[i][k]
      BY <2>3, <2>4
    <3>2. QED
      BY <2>2, <2>4, <3>1
  <2>5. CASE ~keep[rows[i + 1]]
    BY <2>2, <2>3, <2>5
  <2>6. QED
    BY <2>4, <2>5
<1>5. T \in SUBSET Nat
  OBVIOUS
<1> HIDE DEF T
<1>6. T = Nat
  BY <1>3, <1>4, <1>5, Counted
<1>7. \A k \in 1..Len(f[n]) : keep[f[n][k]]
  BY <1>2, <1>6 DEF T
<1>8. f[n] \in Seq(S)
  BY <1>1, <1>2
<1>9. QED
  BY <1>1, <1>7, <1>8

LEMMA FilteredAgain ==
  ASSUME NEW S, NEW rows \in Seq(S), NEW keep, NEW wanted,
         \A row \in S : wanted[row] => keep[row]
  PROVE  Filter(Filter(rows, keep), wanted) = Filter(rows, wanted)
<1> DEFINE n == Len(rows)
<1>1. PICK f \in [0..n -> Seq(S)] : Filtering(rows, keep, f) /\ Filter(rows, keep) = f[n]
  BY FilterLoops
<1>2. PICK g \in [0..n -> Seq(S)] : Filtering(rows, wanted, g) /\ Filter(rows, wanted) = g[n]
  BY FilterLoops
<1>3. n \in Nat /\ \A i \in 1..n : rows[i] \in S
  OBVIOUS
<1> DEFINE T == {i \in Nat : i <= n => Filter(f[i], wanted) = g[i]}
<1>4. 0 \in T
  BY <1>1, <1>2, FilterOfNone DEF Filtering
<1>5. ASSUME NEW i \in T PROVE i + 1 \in T
  <2>1. SUFFICES ASSUME i + 1 <= n PROVE Filter(f[i + 1], wanted) = g[i + 1]
    OBVIOUS
  <2>2. i \in Nat /\ i \in 0..n /\ i + 1 \in 1..n /\ (i + 1) - 1 = i /\ Filter(f[i], wanted) = g[i]
    BY <1>3, <2>1
  <2>3. /\ f[i] \in Seq(S) /\ rows[i + 1] \in S
        /\ f[i + 1] = IF keep[rows[i + 1]] THEN Append(f[i], rows[i + 1]) ELSE f[i]
        /\ g[i + 1] = IF wanted[rows[i + 1]] THEN Append(g[i], rows[i + 1]) ELSE g[i]
    BY <1>1, <1>2, <1>3, <2>2 DEF Filtering
  <2>4. Filter(Append(f[i], rows[i + 1]), wanted) =
          IF wanted[rows[i + 1]] THEN Append(Filter(f[i], wanted), rows[i + 1]) ELSE Filter(f[i], wanted)
    BY <2>3, FilterOfMore
  <2>5. wanted[rows[i + 1]] => keep[rows[i + 1]]
    BY <2>3
  <2>6. QED
    BY <2>2, <2>3, <2>4, <2>5
<1>6. T \in SUBSET Nat
  OBVIOUS
<1> HIDE DEF T
<1>7. T = Nat
  BY <1>4, <1>5, <1>6, Counted
<1>8. QED
  BY <1>1, <1>2, <1>3, <1>7 DEF T

LEMMA RowsOfTable ==
  ASSUME NEW row \in ToSet(table.rows)
  PROVE  \E i \in DOMAIN table.rows : row = table.rows[i]
BY DEF ToSet

(* expr_eval.go:99-286 and 335-464, select_handler.go:93-106: filterRows    *)
(* loses no row for which a WHERE clause over comparisons of one kind is    *)
(* true in SQL, and keeps none for which it is false, for every table and   *)
(* every nesting of AND, OR and NOT.                                        *)
THEOREM DecisionsAreSQLs == Spec => []DecisionsStand
<1>1. SelectInv => DecisionsStand
  <2> SUFFICES ASSUME SelectInv, phase = "order", Plain, stmt.where # None, Comparable(stmt.where)
               PROVE  LET wanted == [row \in ToSet(table.rows) |-> SQLTruthOf(row) = "true"]
                      IN /\ Filter(kept, wanted) = Filter(table.rows, wanted)
                         /\ \A i \in DOMAIN kept : SQLTruthOf(kept[i]) # "false"
    BY DEF DecisionsStand
  <2> DEFINE wanted == [row \in ToSet(table.rows) |-> SQLTruthOf(row) = "true"]
             S == ToSet(table.rows)
             w == stmt.where
  <2>1. table \in Tables /\ stmt \in Statements /\ kept = Filter(table.rows, Keep) /\ w \in Expr
    BY TheStatement DEF SelectInv, RowsKept
  <2>2. table.rows \in Seq(S)
    BY <2>1, TheTable
  <2>3. \A row \in S : /\ wanted[row] = (SQLTruth(Columns, row, w) = "true")
                       /\ Keep[row] = (triOf(Eval(row, w)) = "true")
                       /\ SQLTruthOf(row) = SQLTruth(Columns, row, w)
    BY DEF SQLTruthOf, Keep, WhereOf
  <2>4. ASSUME NEW row \in S
        PROVE  Follows(SQLTruth(Columns, row, w), triOf(Eval(row, w)))
    <3>1. PICK i \in DOMAIN table.rows : row = table.rows[i]
      BY RowsOfTable
    <3>2. AllCompared(row, w)
      BY <3>1 DEF AllCompared, Comparable
    <3>3. QED
      BY <2>1, <3>1, <3>2, DecisionsFollowSQL
  <2>5. ASSUME NEW row \in S, wanted[row] PROVE Keep[row]
    BY <2>3, <2>4, <2>5 DEF Follows
  <2>6. ASSUME NEW i \in DOMAIN kept PROVE SQLTruthOf(kept[i]) # "false"
    <3>1. Keep[kept[i]] /\ kept[i] \in S
      BY <2>1, <2>2, <2>6, FilterKeeps
    <3>2. QED
      BY <2>3, <2>4, <3>1 DEF Follows
  <2> HIDE DEF wanted, S
  <2>7. Filter(kept, wanted) = Filter(table.rows, wanted)
    BY <2>1, <2>2, <2>5, FilteredAgain
  <2>8. QED
    BY <2>6, <2>7 DEF wanted, S
<1>2. QED
  BY <1>1, SelectInvariant, PTL

-----------------------------------------------------------------------------
(* LIKE *)

(* A pattern without escapes becomes one piece for each of its bytes. *)
LEMMA PiecesAre ==
  ASSUME NEW p \in Seq(Nat), Backslash \notin ToSet(p)
  PROVE  likeToRegexp(p) = [i \in 1..Len(p) |-> Piece(p[i])]
<1> DEFINE n == Len(p)
           Next1(sofar, byte) ==
             IF byte = Backslash /\ ~sofar.escaped THEN [sofar EXCEPT !.escaped = TRUE]
             ELSE [pieces |-> Append(sofar.pieces, IF sofar.escaped THEN <<"rune", byte>> ELSE Piece(byte)),
                   escaped |-> FALSE]
           Body(f) == [i \in 0..n |-> IF i = 0 THEN [pieces |-> <<>>, escaped |-> FALSE]
                                      ELSE Next1(f[i - 1], p[i])]
           read == CHOOSE f : f = Body(f)
           At(i) == [pieces |-> [k \in 1..i |-> Piece(p[k])], escaped |-> FALSE]
           g == [i \in 0..n |-> At(i)]
<1>1. n \in Nat /\ \A i \in 1..n : p[i] \in Nat /\ p[i] # Backslash
  BY DEF ToSet
<1>2. likeToRegexp(p) = read[n].pieces
  BY DEF likeToRegexp
<1>3. ASSUME NEW i \in 1..n PROVE Next1(At(i - 1), p[i]) = At(i)
  <2> DEFINE s == [k \in 1..i - 1 |-> Piece(p[k])]
  <2>1. Next1(At(i - 1), p[i]) = [pieces |-> Append(s, Piece(p[i])), escaped |-> FALSE]
    BY <1>1
  <2>2. Append(s, Piece(p[i])) = [k \in 1..i |-> Piece(p[k])]
    <3> DEFINE S == {Piece(p[k]) : k \in 1..n}
    <3>1. s \in Seq(S) /\ Len(s) = i - 1 /\ Piece(p[i]) \in S
      <4>1. i - 1 \in Nat /\ \A k \in 1..i - 1 : k \in 1..n
        BY <1>1
      <4>2. s \in [1..i - 1 -> S] /\ Piece(p[i]) \in S
        BY <4>1
      <4> HIDE DEF s, S
      <4>3. QED
        BY <4>1, <4>2
    <3>2. \A k \in 1..i - 1 : s[k] = Piece(p[k])
      OBVIOUS
    <3> HIDE DEF s, S
    <3>3. /\ Append(s, Piece(p[i])) = [k \in 1..i |-> Append(s, Piece(p[i]))[k]]
          /\ \A k \in 1..i : Append(s, Piece(p[i]))[k] = Piece(p[k])
      BY <1>1, <3>1, <3>2
    <3>4. QED
      BY <3>3
  <2>3. QED
    BY <2>1, <2>2
<1>4. At(0) = [pieces |-> <<>>, escaped |-> FALSE]
  OBVIOUS
<1> HIDE DEF Next1, At
<1>5. g = Body(g)
  BY <1>1, <1>3, <1>4
<1>6. read = Body(read)
  <2> HIDE DEF Body, g
  <2>1. QED
    BY <1>5
<1> HIDE DEF read
<1>7. /\ read[0] = At(0)
      /\ \A i \in 1..n : read[i] = Next1(read[i - 1], p[i])
  <2>1. \A i \in 0..n : read[i] = IF i = 0 THEN At(0) ELSE Next1(read[i - 1], p[i])
    BY <1>4, <1>6
  <2>2. QED
    BY <1>1, <2>1
<1> DEFINE T == {i \in Nat : i <= n => read[i] = At(i)}
<1>8. T = Nat
  <2>1. 0 \in T
    BY <1>7
  <2>2. ASSUME NEW i \in T PROVE i + 1 \in T
    <3>1. CASE i + 1 <= n
      <4>1. i + 1 \in 1..n /\ (i + 1) - 1 = i /\ read[i] = At(i)
        BY <1>1, <3>1
      <4>2. QED
        BY <1>3, <1>7, <4>1
    <3>2. QED
      BY <3>1
  <2> HIDE DEF T
  <2>3. T \in SUBSET Nat
    BY DEF T
  <2>4. QED
    BY <2>1, <2>2, <2>3, Counted
<1>9. read[n] = At(n)
  BY <1>1, <1>8
<1>10. QED
  BY <1>2, <1>9 DEF At

(* A way to match the first n pieces: where the match of each ends. *)
Chain(pieces, runes, n, cut) ==
    /\ cut \in [0..n -> 0..Len(runes)]
    /\ \A k \in 1..n : /\ cut[k - 1] <= cut[k]
                       /\ Takes(pieces[k], SubSeq(runes, cut[k - 1] + 1, cut[k]))

(* The ends MatchString finds are the ends of such ways. *)
LEMMA MatchesAre ==
  ASSUME NEW pieces, NEW runes, Len(pieces) \in Nat, Len(runes) \in Nat
  PROVE  MatchString(pieces, runes) <=> \E cut : Chain(pieces, runes, Len(pieces), cut)
<1> DEFINE m == Len(pieces)
           L == 0..Len(runes)
           D == SUBSET L
           Go(from, n) == {j \in L : \E i \in from : i <= j /\ Takes(pieces[n], SubSeq(runes, i + 1, j))}
           Body(f) == [n \in 0..m |-> IF n = 0 THEN L ELSE Go(f[n - 1], n)]
           ends == CHOOSE f : f = Body(f)
           round == [x \in D \X (1..m) |-> Go(x[1], x[2])]
<1>1. MatchString(pieces, runes) <=> ends[m] # {}
  BY DEF MatchString
<1>2. m \in Nat /\ L \in D /\ \A from, n : Go(from, n) \in D
  OBVIOUS
<1> HIDE DEF Go
<1>3. /\ round \in [D \X (1..m) -> D]
      /\ \A d \in D, n \in 1..m : round[<<d, n>>] = Go(d, n)
  BY <1>2
<1> HIDE DEF D, round, m
<1>4. PICK f \in [0..m -> D] : Loops(f, L, m, round)
  BY <1>2, <1>3, LoopExists, Zenon
<1>5. /\ f[0] = L
      /\ \A n \in 1..m : f[n] = Go(f[n - 1], n)
  <2>1. ASSUME NEW n \in 1..m PROVE f[n] = Go(f[n - 1], n)
    <3>1. n - 1 \in 0..m
      BY <1>2
    <3>2. f[n - 1] \in D /\ f[n] = round[<<f[n - 1], n>>]
      BY <1>4, <3>1 DEF Loops
    <3>3. QED
      BY <1>3, <3>2
  <2>2. QED
    BY <1>4, <2>1 DEF Loops
<1>6. f = Body(f)
  <2> DEFINE g == Body(f)
  <2>1. ASSUME NEW n \in 0..m PROVE f[n] = g[n]
    <3>1. n = 0 \/ n \in 1..m
      BY <1>2
    <3>2. QED
      BY <1>5, <3>1
  <2>2. f = [n \in 0..m |-> f[n]] /\ g = [n \in 0..m |-> g[n]]
    BY <1>4
  <2> HIDE DEF g
  <2>3. f = g
    BY <2>1, <2>2
  <2>4. QED
    BY <2>3 DEF g
<1>7. ends = Body(ends)
  <2> HIDE DEF Body
  <2>1. QED
    BY <1>6
<1> HIDE DEF ends
<1>8. /\ ends[0] = L
      /\ \A n \in 1..m : ends[n] = Go(ends[n - 1], n)
  <2>1. \A n \in 0..m : ends[n] = IF n = 0 THEN L ELSE Go(ends[n - 1], n)
    BY <1>7
  <2>2. QED
    BY <1>2, <2>1
<1> DEFINE Ends(n) == \A j : j \in ends[n] <=> \E cut : Chain(pieces, runes, n, cut) /\ cut[n] = j
           T == {n \in Nat : n <= m => Ends(n)}
<1>9. Ends(0)
  <2>1. ASSUME NEW j \in L PROVE Chain(pieces, runes, 0, [k \in 0..0 |-> j]) /\ [k \in 0..0 |-> j][0] = j
    BY <2>1 DEF Chain
  <2>2. ASSUME NEW cut, Chain(pieces, runes, 0, cut) PROVE cut[0] \in L
    BY <2>2 DEF Chain
  <2>3. QED
    BY <1>8, <2>1, <2>2
<1>10. ASSUME NEW n \in Nat, n + 1 <= m, Ends(n) PROVE Ends(n + 1)
  <2>1. ends[n + 1] = Go(ends[n], n + 1)
    <3>1. n + 1 \in 1..m /\ (n + 1) - 1 = n
      BY <1>2, <1>10
    <3>2. QED
      BY <1>8, <3>1
  <2>2. ASSUME NEW j, j \in ends[n + 1]
        PROVE  \E cut : Chain(pieces, runes, n + 1, cut) /\ cut[n + 1] = j
    <3>1. /\ j \in L
          /\ \E i \in ends[n] : i <= j /\ Takes(pieces[n + 1], SubSeq(runes, i + 1, j))
      BY <2>1, <2>2 DEF Go
    <3>2. PICK i \in ends[n] : i <= j /\ Takes(pieces[n + 1], SubSeq(runes, i + 1, j))
      BY <3>1
    <3>3. PICK c : Chain(pieces, runes, n, c) /\ c[n] = i
      BY <1>10, <3>2
    <3> DEFINE d == [k \in 0..n + 1 |-> IF k = n + 1 THEN j ELSE c[k]]
    <3>4. d \in [0..n + 1 -> L] /\ d[n + 1] = j /\ \A k \in 0..n : d[k] = c[k]
      BY <3>1, <3>3 DEF Chain
    <3> HIDE DEF d
    <3>5. ASSUME NEW k \in 1..n + 1
          PROVE  d[k - 1] <= d[k] /\ Takes(pieces[k], SubSeq(runes, d[k - 1] + 1, d[k]))
      <4>1. CASE k = n + 1
        <5>1. d[k - 1] = i /\ d[k] = j
          BY <3>3, <3>4, <4>1
        <5>2. QED
          BY <3>2, <4>1, <5>1
      <4>2. CASE k # n + 1
        <5>1. k \in 1..n /\ k - 1 \in 0..n /\ k \in 0..n
          BY <4>2
        <5>2. QED
          BY <3>3, <3>4, <5>1 DEF Chain
      <4>3. QED
        BY <4>1, <4>2
    <3>6. QED
      BY <3>4, <3>5 DEF Chain
  <2>3. ASSUME NEW d, Chain(pieces, runes, n + 1, d)
        PROVE  d[n + 1] \in ends[n + 1]
    <3> DEFINE c == [k \in 0..n |-> d[k]]
    <3>1. d \in [0..n + 1 -> L]
      BY <2>3 DEF Chain
    <3>2. c \in [0..n -> L] /\ \A k \in 0..n : c[k] = d[k]
      BY <3>1
    <3> HIDE DEF c
    <3>3. \A k \in 1..n : k - 1 \in 0..n /\ k \in 0..n /\ k \in 1..n + 1
      OBVIOUS
    <3>4. Chain(pieces, runes, n, c)
      BY <2>3, <3>2, <3>3 DEF Chain
    <3>5. c[n] \in ends[n] /\ c[n] = d[n]
      BY <1>10, <3>2, <3>4
    <3>6. n + 1 \in 1..n + 1 /\ (n + 1) - 1 = n /\ d[n + 1] \in L
      BY <3>1
    <3>7. d[n] <= d[n + 1] /\ Takes(pieces[n + 1], SubSeq(runes, d[n] + 1, d[n + 1]))
      BY <2>3, <3>6 DEF Chain
    <3>8. QED
      BY <2>1, <3>5, <3>6, <3>7 DEF Go
  <2>4. QED
    BY <2>2, <2>3
<1>11. T = Nat
  <2> HIDE DEF Ends
  <2>1. 0 \in T
    BY <1>9
  <2>2. ASSUME NEW n \in T PROVE n + 1 \in T
    BY <1>2, <1>10
  <2> HIDE DEF T
  <2>3. T \in SUBSET Nat
    BY DEF T
  <2>4. QED
    BY <2>1, <2>2, <2>3, Counted
<1>12. Ends(m)
  BY <1>2, <1>11
<1>13. QED
  BY <1>1, <1>12 DEF m

(* What a piece takes, where there are no newlines. *)
LEMMA PiecesTake ==
  ASSUME NEW runes \in Seq(Nat), Newline \notin ToSet(runes), NEW byte \in Nat,
         NEW i \in 0..Len(runes), NEW j \in 0..Len(runes), i <= j
  PROVE  Takes(Piece(byte), SubSeq(runes, i + 1, j)) <=>
           \/ byte = Percent
           \/ j = i + 1 /\ (byte = Underscore \/ SameFold(byte, runes[j]))
<1> DEFINE s == SubSeq(runes, i + 1, j)
<1>1. /\ Len(s) = j - i /\ DOMAIN s = 1..j - i
      /\ \A k \in 1..j - i : s[k] = runes[i + k]
  OBVIOUS
<1>2. \A k \in 1..j - i : s[k] # Newline
  BY <1>1 DEF ToSet
<1>3. Len(s) = 1 <=> j = i + 1
  BY <1>1
<1> HIDE DEF s
<1>4. j = i + 1 => s[1] = runes[j]
  BY <1>1
<1>5. CASE byte = Percent
  <2>1. Piece(byte) = <<"any">>
    BY <1>5 DEF Piece, Percent, Underscore
  <2>2. QED
    BY <1>1, <1>2, <1>5, <2>1 DEF Takes, s
<1>6. CASE byte = Underscore
  <2>1. Piece(byte) = <<"one">> /\ Underscore # Percent
    BY <1>6 DEF Piece, Underscore, Percent
  <2>2. <<"one">> # <<"any">>
    OBVIOUS
  <2>3. Takes(Piece(byte), s) <=> Len(s) = 1 /\ s[1] # Newline
    BY <2>1, <2>2 DEF Takes
  <2>4. j = i + 1 => s[1] # Newline
    BY <1>2
  <2>5. QED
    BY <1>3, <1>6, <2>1, <2>3, <2>4 DEF s
<1>7. CASE byte # Percent /\ byte # Underscore
  <2>1. Piece(byte) = <<"rune", byte>>
    BY <1>7 DEF Piece
  <2>2. <<"rune", byte>> # <<"any">> /\ <<"rune", byte>> # <<"one">> /\ <<"rune", byte>>[2] = byte
    OBVIOUS
  <2>3. Takes(Piece(byte), s) <=> Len(s) = 1 /\ SameFold(byte, s[1])
    BY <2>1, <2>2 DEF Takes
  <2>4. QED
    BY <1>3, <1>4, <1>7, <2>3 DEF s
<1>8. QED
  BY <1>5, <1>6, <1>7

(* Between two % a search is a LIKE of the whole text: the first takes what *)
(* is before the match, and the last what is behind it.                     *)
LEMMA SearchesMatch ==
  ASSUME NEW t, NEW p, Runes(t) \in Seq(Nat), Runes(p) \in Seq(Nat), Newline \notin ToSet(Runes(t)),
         Bytes(p) = Runes(p), Backslash \notin ToSet(Runes(p)), Runes(p) # <<>>,
         Runes(p)[1] = Percent, Runes(p)[Len(Runes(p))] = Percent
  PROVE  MatchString(likeToRegexp(Bytes(p)), Runes(t)) <=> SQLLike(t, p)
<1> DEFINE b == Runes(p)
           r == Runes(t)
           m == Len(b)
           L == Len(r)
           pieces == [i \in 1..m |-> Piece(b[i])]
           Fits(n, c) == IF b[n] = Percent THEN c[n] >= c[n - 1]
                         ELSE c[n] = c[n - 1] + 1 /\ (b[n] = Underscore \/ SameFold(b[n], r[c[n]]))
<1>1. /\ m \in Nat /\ m >= 1 /\ L \in Nat /\ 1 \in 1..m /\ m \in 1..m
      /\ \A n \in 1..m : b[n] \in Nat
      /\ b[1] = Percent /\ b[m] = Percent
  OBVIOUS
<1>2. likeToRegexp(Bytes(p)) = pieces
  BY PiecesAre
<1>3. Len(pieces) = m /\ \A n \in 1..m : pieces[n] = Piece(b[n])
  BY <1>1
<1>4. MatchString(pieces, r) <=> \E c : Chain(pieces, r, m, c)
  BY <1>1, <1>3, MatchesAre
<1>5. SQLLike(t, p) <=> \E c \in [0..m -> 0..L] : /\ c[0] = 0 /\ c[m] = L
                                                  /\ \A n \in 1..m : Fits(n, c)
  <2>1. SQLLike(t, p) <=> \E c \in [0..m -> 0..L] : /\ c[0] = 0 /\ c[m] = L
                                                    /\ \A n \in DOMAIN b : Fits(n, c)
    BY Zenon DEF SQLLike
  <2>2. DOMAIN b = 1..m
    OBVIOUS
  <2>3. QED
    BY <2>1, <2>2, Zenon
<1> HIDE DEF pieces
<1>6. ASSUME NEW c \in [0..m -> 0..L], NEW n \in 1..m
      PROVE  Fits(n, c) <=> /\ c[n - 1] <= c[n]
                            /\ Takes(pieces[n], SubSeq(r, c[n - 1] + 1, c[n]))
  <2>1. n - 1 \in 0..m /\ n \in 0..m
    BY <1>1
  <2>2. c[n - 1] \in 0..L /\ c[n] \in 0..L
    BY <2>1
  <2> DEFINE i == c[n - 1]
             j == c[n]
  <2>3. i \in 0..L /\ j \in 0..L
    BY <2>2
  <2>4. i <= j => (Takes(pieces[n], SubSeq(r, i + 1, j)) <=>
                     \/ b[n] = Percent
                     \/ j = i + 1 /\ (b[n] = Underscore \/ SameFold(b[n], r[j])))
    <3> HIDE DEF i, j, b, r
    <3>1. ASSUME i <= j
          PROVE  Takes(Piece(b[n]), SubSeq(r, i + 1, j)) <=>
                   \/ b[n] = Percent
                   \/ j = i + 1 /\ (b[n] = Underscore \/ SameFold(b[n], r[j]))
      <4>1. r \in Seq(Nat) /\ Newline \notin ToSet(r)
        BY DEF r
      <4>2. QED
        BY <1>1, <2>3, <3>1, <4>1, PiecesTake
    <3>2. QED
      BY <1>3, <3>1
  <2>5. Fits(n, c) <=> IF b[n] = Percent THEN j >= i
                       ELSE j = i + 1 /\ (b[n] = Underscore \/ SameFold(b[n], r[j]))
    OBVIOUS
  <2> HIDE DEF i, j, b, r, Fits
  <2>6. Fits(n, c) <=> i <= j /\ Takes(pieces[n], SubSeq(r, i + 1, j))
    BY <2>3, <2>4, <2>5
  <2>7. QED
    BY <2>6 DEF i, j
<1>7. ASSUME NEW c, Chain(pieces, r, m, c) PROVE SQLLike(t, p)
  <2> DEFINE d == [k \in 0..m |-> IF k = 0 THEN 0 ELSE IF k = m THEN L ELSE c[k]]
  <2>1. c \in [0..m -> 0..L] /\ \A n \in 1..m : Fits(n, c)
    BY <1>6, <1>7 DEF Chain
  <2>2. d \in [0..m -> 0..L] /\ d[0] = 0 /\ d[m] = L
        /\ \A k \in 1..m - 1 : d[k] = c[k]
    BY <1>1, <2>1
  <2> HIDE DEF d
  <2>3. ASSUME NEW n \in 1..m PROVE Fits(n, d)
    <3>1. n - 1 \in 0..m /\ n \in 0..m /\ d[n - 1] \in 0..L /\ d[n] \in 0..L
      <4> HIDE DEF m, L
      <4>1. n - 1 \in 0..m /\ n \in 0..m
        BY <1>1
      <4>2. QED
        BY <2>2, <4>1
    <3>2. CASE n = 1
      <4>1. b[n] = Percent /\ d[n - 1] = 0
        BY <1>1, <2>2, <3>2
      <4>2. QED
        BY <3>1, <4>1
    <3>3. CASE n = m
      <4>1. b[n] = Percent /\ d[n] = L
        BY <1>1, <2>2, <3>3
      <4>2. QED
        BY <3>1, <4>1
    <3>4. CASE n # 1 /\ n # m
      <4>1. n \in 1..m - 1 /\ n - 1 \in 1..m - 1
        BY <1>1, <3>4
      <4>2. d[n] = c[n] /\ d[n - 1] = c[n - 1]
        BY <2>2, <4>1
      <4>3. QED
        BY <2>1, <4>2
    <3>5. QED
      BY <3>2, <3>3, <3>4
  <2>4. QED
    BY <1>5, <2>2, <2>3
<1>8. ASSUME SQLLike(t, p) PROVE \E c : Chain(pieces, r, m, c)
  <2>1. PICK c \in [0..m -> 0..L] : \A n \in 1..m : Fits(n, c)
    BY <1>5, <1>8
  <2>2. Chain(pieces, r, m, c)
    BY <1>6, <2>1 DEF Chain
  <2>3. QED
    BY <2>2
<1>9. QED
  BY <1>2, <1>4, <1>7, <1>8

(* expr_eval.go:288-310 and 466-485: a WHERE that is a LIKE or NOT LIKE of  *)
(* a column keeps SQL's rows if the pattern is between two %, without       *)
(* escapes and of one-byte letters, and the texts are without newlines.     *)
THEOREM SearchesKeepSQLsRows == Spec => []SearchesAreSQLs
<1>1. SelectInv => SearchesAreSQLs
  <2> DEFINE wanted == [row \in ToSet(table.rows) |-> SQLTruthOf(row) = "true"]
             w == stmt.where
  <2> SUFFICES ASSUME SelectInv, phase = "order", Plain, stmt.where # None, Searches(stmt.where)
               PROVE  kept = Filter(table.rows, wanted)
    BY DEF SearchesAreSQLs
  <2>1. table \in Tables /\ stmt \in Statements /\ kept = Filter(table.rows, Keep) /\ w \in Expr
    BY TheStatement DEF SelectInv, RowsKept
  <2>2. /\ w.op = "like" /\ w.of \in Expr /\ w.pattern \in Expr
        /\ w.of.op = "column" /\ w.pattern.op = "value" /\ IsText(w.pattern.v)
        /\ w.not \in BOOLEAN
    <3>1. w.op = "like" /\ w.of.op = "column" /\ w.pattern.op = "value" /\ IsText(w.pattern.v)
      BY DEF Searches
    <3>2. Operands(w) = {w.of, w.pattern}
      BY <3>1 DEF Operands, BinaryOp, Relation
    <3>3. w.of \in Expr /\ w.pattern \in Expr
      BY <2>1, <3>2, ExprAssumption
    <3>4. w.not \in BOOLEAN
      BY <2>1, <3>1, NotAssumption
    <3>5. QED
      BY <3>1, <3>3, <3>4
  <2> DEFINE p == w.pattern.v
  <2>3. p # Nil /\ stringOfOr(p) = p[2] /\ Runes(p[2]) \in Seq(Nat)
    BY <2>2, TextsAssumption, NilIsNoPanic DEF IsText, IsNumber, stringOfOr
  <2>4. ASSUME NEW row \in ToSet(table.rows)
        PROVE  SQLTruth(Columns, row, w) = triOf(Eval(row, w))
    <3>1. PICK i \in DOMAIN table.rows : row = table.rows[i]
      BY RowsOfTable
    <3> DEFINE v == Eval(row, w.of)
    <3>2. Eval(row, w.pattern) = p
      <4>1. Eval(row, w.pattern) = ValueOf(Columns, row, Values(row), w.pattern)
        BY <2>2, EvalIs
      <4>2. QED
        BY <2>2, <4>1 DEF ValueOf, BinaryOp, Relation
    <3>3. Values(row)[w.of] = v /\ Values(row)[w.pattern] = p
      BY <2>2, <3>2 DEF Values
    <3>4. v = Nil \/ (IsText(v) /\ v \in Datum /\ Newline \notin ToSet(Runes(v[2])))
      <4>1. v = Nil \/ (IsText(v) /\ Newline \notin ToSet(Runes(v[2])))
        BY <3>1 DEF Searches
      <4>2. v = Nil \/ v \in Datum
        BY <2>1, <2>2, <3>1, ColumnsAre
      <4>3. QED
        BY <4>1, <4>2
    <3> HIDE DEF v, p
    <3>5. Eval(row, w) = evalLike(v, p, w.not)
      <4>1. Eval(row, w) = ValueOf(Columns, row, Values(row), w)
        BY <2>1, EvalIs
      <4>2. Panic \notin {v, p}
        BY <2>2, <3>4, NilIsNoPanic DEF IsText, p, Panic
      <4>3. ValueOf(Columns, row, Values(row), w) =
              Strict({v, p}, evalLike(v, p, w.not))
        BY <2>2, <3>3 DEF ValueOf, BinaryOp, Relation
      <4>4. QED
        BY <4>1, <4>2, <4>3 DEF Strict
    <3>6. SQLTruth(Columns, row, w) =
            SQLTurned(IF Nil \in {v, p} THEN "unknown"
                      ELSE IF SQLLike(v[2], p[2]) THEN "true" ELSE "false", w.not)
      <4>1. SQLTruth(Columns, row, w) = SQLTruthBy(Values(row), Truths(row), w)
        BY <2>1, SQLTruthIs
      <4>2. QED
        BY <2>2, <3>3, <4>1 DEF SQLTruthBy, Relation
    <3>7. CASE v = Nil
      <4>1. evalLike(v, p, w.not) = Nil
        BY <3>7 DEF evalLike
      <4>2. SQLTruth(Columns, row, w) = "unknown"
        BY <3>6, <3>7 DEF SQLTurned, SQLNot, notTri
      <4>3. QED
        BY <3>5, <4>1, <4>2, TriOfIs
    <3>8. CASE v # Nil
      <4>1. IsText(v) /\ Runes(v[2]) \in Seq(Nat) /\ stringOfOr(v) = v[2]
        BY <3>4, <3>8, TextsAssumption DEF IsText, IsNumber, stringOfOr
      <4> DEFINE matched == MatchString(likeToRegexp(Bytes(p[2])), Runes(v[2]))
                 like == SQLLike(v[2], p[2])
      <4>2. matched <=> like
        BY <2>3, <3>4, <3>8, <4>1, SearchesMatch DEF Searches, p
      <4>3. evalLike(v, p, w.not) = Turned(matched, w.not)
        BY <2>3, <3>8, <4>1 DEF evalLike, p
      <4>4. SQLTruth(Columns, row, w) = SQLTurned(IF like THEN "true" ELSE "false", w.not)
        BY <2>3, <3>6, <3>8 DEF p
      <4>5. matched \in BOOLEAN
        BY DEF MatchString
      <4> HIDE DEF matched, like
      <4>6. triOf(Turned(matched, w.not)) = SQLTurned(IF matched THEN "true" ELSE "false", w.not)
        BY <2>2, <4>5, TriOfTurned
      <4>7. QED
        BY <3>5, <4>2, <4>3, <4>4, <4>6
    <3>9. QED
      BY <3>7, <3>8
  <2>5. \A row \in ToSet(table.rows) : Keep[row] = wanted[row]
    <3>1. \A row \in ToSet(table.rows) : /\ Keep[row] = (triOf(Eval(row, w)) = "true")
                                         /\ wanted[row] = (SQLTruth(Columns, row, w) = "true")
      BY DEF Keep, WhereOf, SQLTruthOf
    <3>2. QED
      BY <2>4, <3>1
  <2>6. /\ Keep = [row \in ToSet(table.rows) |-> Keep[row]]
        /\ wanted = [row \in ToSet(table.rows) |-> wanted[row]]
    BY DEF Keep
  <2> HIDE DEF wanted
  <2>7. Keep = wanted
    BY <2>5, <2>6
  <2>8. QED
    BY <2>1, <2>7
<1>2. QED
  BY <1>1, SelectInvariant, PTL

-----------------------------------------------------------------------------
(* The rows of the page *)

NoNot(e) == \A c \in Conditions(e) : c.op # "not"
NoAnd(e) == \A c \in Conditions(e) : c.op # "and"
OneNot(e) == \A c \in Conditions(e) : c.op = "not" => NoNot(c.of)

(* OR is SQL's OR. *)
LEMMA DisjunctionsAreSQLs ==
  ASSUME table \in Tables, Plain, NEW i \in DOMAIN table.rows
  PROVE  \A e \in Expr : AllCompared(table.rows[i], e) /\ NoNot(e) /\ NoAnd(e) =>
           SQLTruth(Columns, table.rows[i], e) = triOf(Eval(table.rows[i], e))
<1> DEFINE row == table.rows[i]
           c(x) == triOf(Eval(row, x))
           s(x) == SQLTruth(Columns, row, x)
           S == {x \in Expr : AllCompared(row, x) /\ NoNot(x) /\ NoAnd(x) => s(x) = c(x)}
<1>1. \A x \in Expr : s(x) \in Tri /\ c(x) \in Tri
  BY SQLTruthIs, TriOfIs
<1>2. ASSUME NEW e \in Expr, Operands(e) \subseteq S PROVE e \in S
  <2>1. SUFFICES ASSUME AllCompared(row, e), NoNot(e), NoAnd(e) PROVE s(e) = c(e)
    OBVIOUS
  <2>2. e.op \notin {"and", "not"}
    BY <2>1, ConditionsOfParts DEF NoNot, NoAnd
  <2>3. ASSUME NEW x \in Operands(e), Conditions(x) \subseteq Conditions(e)
        PROVE  s(x) = c(x) /\ c(x) \in Tri
    <3>1. AllCompared(row, x) /\ NoNot(x) /\ NoAnd(x) /\ x \in Expr
      BY <1>2, <2>1, <2>3 DEF AllCompared, NoNot, NoAnd
    <3>2. QED
      BY <1>1, <1>2, <3>1
  <2>4. CASE e.op = "or"
    <3>1. /\ s(e.l) = c(e.l) /\ c(e.l) \in Tri
          /\ s(e.r) = c(e.r) /\ c(e.r) \in Tri
      BY <2>3, <2>4, ConditionsOfParts
    <3>2. c(e) = Or(c(e.l), c(e.r)) /\ s(e) = SQLOr(s(e.l), s(e.r))
      BY <2>4, ConnectivesAre
    <3> HIDE DEF c, s
    <3>3. SQLOr(c(e.l), c(e.r)) = Or(c(e.l), c(e.r))
      BY <3>1 DEF Tri, SQLOr, SQLAnd, SQLNot, notTri, Or
    <3>4. QED
      BY <3>1, <3>2, <3>3
  <2>5. CASE e.op # "or"
    <3>1. Compared(Values(row), e)
      BY <2>1, ConditionsOfParts DEF AllCompared
    <3>2. QED
      BY <2>2, <2>5, <3>1, ComparisonsFollowSQL
  <2>6. QED
    BY <2>4, <2>5
<1> HIDE DEF c, s
<1>3. S = Expr
  <2>1. S \in SUBSET Expr
    OBVIOUS
  <2> HIDE DEF S
  <2>2. QED
    BY <1>2, <2>1, ByNesting
<1>4. QED
  BY <1>3 DEF c, s

LEMMA ExactRowsAreSQLs ==
  ASSUME table \in Tables, Plain, NEW i \in DOMAIN table.rows
  PROVE  \A e \in Expr : AllCompared(table.rows[i], e) /\ OneNot(e) /\ NoAnd(e) =>
           SameRows(SQLTruth(Columns, table.rows[i], e), triOf(Eval(table.rows[i], e)))
<1> DEFINE row == table.rows[i]
           c(x) == triOf(Eval(row, x))
           s(x) == SQLTruth(Columns, row, x)
           S == {x \in Expr : AllCompared(row, x) /\ OneNot(x) /\ NoAnd(x) => SameRows(s(x), c(x))}
<1>1. \A x \in Expr : s(x) \in Tri /\ c(x) \in Tri
  BY SQLTruthIs, TriOfIs
<1>2. ASSUME NEW e \in Expr, Operands(e) \subseteq S PROVE e \in S
  <2>1. SUFFICES ASSUME AllCompared(row, e), OneNot(e), NoAnd(e) PROVE SameRows(s(e), c(e))
    OBVIOUS
  <2>2. e.op # "and"
    BY <2>1, ConditionsOfParts DEF NoAnd
  <2>3. ASSUME NEW x \in Operands(e), Conditions(x) \subseteq Conditions(e)
        PROVE  /\ AllCompared(row, x) /\ OneNot(x) /\ NoAnd(x) /\ x \in Expr
               /\ SameRows(s(x), c(x)) /\ s(x) \in Tri /\ c(x) \in Tri
    <3>1. AllCompared(row, x) /\ OneNot(x) /\ NoAnd(x) /\ x \in Expr
      BY <1>2, <2>1, <2>3 DEF AllCompared, OneNot, NoAnd
    <3>2. QED
      BY <1>1, <1>2, <3>1
  <2>4. CASE e.op = "or"
    <3>1. /\ s(e.l) \in Tri /\ c(e.l) \in Tri /\ SameRows(s(e.l), c(e.l))
          /\ s(e.r) \in Tri /\ c(e.r) \in Tri /\ SameRows(s(e.r), c(e.r))
      BY <2>3, <2>4, ConditionsOfParts
    <3>2. c(e) = Or(c(e.l), c(e.r)) /\ s(e) = SQLOr(s(e.l), s(e.r))
      BY <2>4, ConnectivesAre
    <3> HIDE DEF c, s
    <3>3. SameRows(SQLOr(s(e.l), s(e.r)), Or(c(e.l), c(e.r)))
      BY <3>1, OrAndNotKeepSQLsRows
    <3>4. QED
      BY <3>2, <3>3
  <2>5. CASE e.op = "not"
    <3>1. e.of \in Operands(e) /\ AllCompared(row, e.of) /\ NoAnd(e.of) /\ e.of \in Expr
      BY <2>3, <2>5, ConditionsOfParts
    <3>2. NoNot(e.of)
      BY <2>1, <2>5, ConditionsOfParts DEF OneNot
    <3>3. s(e.of) = c(e.of) /\ s(e.of) \in Tri
      BY <1>1, <3>1, <3>2, DisjunctionsAreSQLs
    <3>4. c(e) = Not(c(e.of)) /\ s(e) = SQLNot(s(e.of))
      BY <2>5, ConnectivesAre
    <3> HIDE DEF c, s
    <3>5. SameRows(SQLNot(s(e.of)), Not(s(e.of)))
      BY <3>3, OrAndNotKeepSQLsRows
    <3>6. QED
      BY <3>3, <3>4, <3>5
  <2>6. CASE e.op \notin {"or", "not"}
    <3>1. Compared(Values(row), e)
      BY <2>1, ConditionsOfParts DEF AllCompared
    <3>2. s(e) = c(e)
      BY <2>2, <2>6, <3>1, ComparisonsFollowSQL
    <3>3. QED
      BY <3>2 DEF SameRows
  <2>7. QED
    BY <2>4, <2>5, <2>6
<1> HIDE DEF c, s
<1>3. S = Expr
  <2>1. S \in SUBSET Expr
    OBVIOUS
  <2> HIDE DEF S
  <2>2. QED
    BY <1>2, <2>1, ByNesting
<1>4. QED
  BY <1>3 DEF c, s

(* Where what is kept stands in the table. *)
Places(rows, keep, upto, chosen, pos) ==
    /\ pos \in [1..Len(chosen) -> 1..upto]
    /\ \A k \in 1..Len(chosen) : chosen[k] = rows[pos[k]] /\ keep[rows[pos[k]]]
    /\ \A j, k \in 1..Len(chosen) : j < k => pos[j] < pos[k]
    /\ \A p \in 1..upto : keep[rows[p]] => \E k \in 1..Len(chosen) : pos[k] = p

LEMMA FilterPlaces ==
  ASSUME NEW S, NEW rows \in Seq(S), NEW keep
  PROVE  \E pos : Places(rows, keep, Len(rows), Filter(rows, keep), pos)
<1> DEFINE n == Len(rows)
<1>1. PICK f \in [0..n -> Seq(S)] : Filtering(rows, keep, f) /\ Filter(rows, keep) = f[n]
  BY FilterLoops
<1>2. n \in Nat /\ \A i \in 1..n : rows[i] \in S
  OBVIOUS
<1> DEFINE T == {i \in Nat : i <= n => \E pos : Places(rows, keep, i, f[i], pos)}
<1>3. 0 \in T
  <2>1. f[0] = <<>>
    BY <1>1 DEF Filtering
  <2>2. Places(rows, keep, 0, <<>>, [k \in 1..0 |-> k])
    BY DEF Places
  <2>3. QED
    BY <2>1, <2>2
<1>4. ASSUME NEW i \in T PROVE i + 1 \in T
  <2>1. SUFFICES ASSUME i + 1 <= n PROVE \E pos : Places(rows, keep, i + 1, f[i + 1], pos)
    OBVIOUS
  <2>2. i \in Nat /\ i \in 0..n /\ i + 1 \in 1..n /\ (i + 1) - 1 = i
    BY <1>2, <2>1
  <2>3. PICK pos : Places(rows, keep, i, f[i], pos)
    BY <1>2, <2>2
  <2>4. f[i] \in Seq(S) /\ rows[i + 1] \in S
        /\ f[i + 1] = IF keep[rows[i + 1]] THEN Append(f[i], rows[i + 1]) ELSE f[i]
    BY <1>1, <1>2, <2>2 DEF Filtering
  <2> DEFINE m == Len(f[i])
  <2>5. m \in Nat
    BY <2>4
  <2>6. CASE keep[rows[i + 1]]
    <3> DEFINE more == [k \in 1..m + 1 |-> IF k <= m THEN pos[k] ELSE i + 1]
    <3>1. /\ Len(f[i + 1]) = m + 1 /\ f[i + 1][m + 1] = rows[i + 1]
          /\ \A k \in 1..m : f[i + 1][k] = f[i][k]
      BY <2>4, <2>6
    <3>2. /\ \A k \in 1..m : more[k] = pos[k] /\ k \in 1..m + 1 /\ pos[k] \in 1..i
          /\ more[m + 1] = i + 1
          /\ \A k \in 1..m + 1 : k = m + 1 \/ k \in 1..m
          /\ \A p \in 1..i + 1 : p = i + 1 \/ p \in 1..i
          /\ 1..i \subseteq 1..i + 1 /\ i + 1 \in 1..i + 1 /\ m + 1 \in 1..m + 1
      <4>1. \A k \in 1..m : pos[k] \in 1..i
        BY <2>3 DEF Places
      <4>2. \A k \in 1..m : k \in 1..m + 1 /\ k <= m
        BY <2>5
      <4>3. \A k \in 1..m : more[k] = pos[k]
        BY <4>2
      <4>4. m + 1 \in 1..m + 1 /\ ~(m + 1 <= m)
        BY <2>5
      <4>5. more[m + 1] = i + 1
        BY <4>4
      <4>6. /\ \A k \in 1..m + 1 : k = m + 1 \/ k \in 1..m
            /\ \A p \in 1..i + 1 : p = i + 1 \/ p \in 1..i
            /\ 1..i \subseteq 1..i + 1 /\ i + 1 \in 1..i + 1
        BY <2>2, <2>5
      <4>7. QED
        BY <4>1, <4>2, <4>3, <4>4, <4>5, <4>6
    <3>3. more \in [1..m + 1 -> 1..i + 1]
      BY <2>2, <2>5, <3>2
    <3> HIDE DEF more, m
    <3>4. \A k \in 1..m + 1 : f[i + 1][k] = rows[more[k]] /\ keep[rows[more[k]]]
      <4>1. \A k \in 1..m : f[i][k] = rows[pos[k]] /\ keep[rows[pos[k]]]
        BY <2>3 DEF Places, m
      <4>2. ASSUME NEW k \in 1..m + 1 PROVE f[i + 1][k] = rows[more[k]] /\ keep[rows[more[k]]]
        <5>1. CASE k = m + 1
          BY <2>6, <3>1, <3>2, <5>1
        <5>2. CASE k \in 1..m
          BY <3>1, <3>2, <4>1, <5>2
        <5>3. QED
          BY <3>2, <5>1, <5>2
      <4>3. QED
        BY <4>2
    <3>5. \A j, k \in 1..m + 1 : j < k => more[j] < more[k]
      <4>1. ASSUME NEW j \in 1..m + 1, NEW k \in 1..m + 1, j < k PROVE more[j] < more[k]
        <5>1. j \in 1..m
          BY <2>5, <4>1
        <5>2. CASE k = m + 1
          BY <2>2, <3>2, <5>1, <5>2
        <5>3. CASE k \in 1..m
          BY <2>3, <3>2, <4>1, <5>1, <5>3 DEF Places, m
        <5>4. QED
          BY <3>2, <5>2, <5>3
      <4>2. QED
        BY <4>1
    <3>6. \A p \in 1..i + 1 : keep[rows[p]] => \E k \in 1..m + 1 : more[k] = p
      <4>1. ASSUME NEW p \in 1..i, keep[rows[p]] PROVE \E k \in 1..m + 1 : more[k] = p
        <5>1. PICK k \in 1..m : pos[k] = p
          BY <2>3, <4>1 DEF Places, m
        <5>2. QED
          BY <3>2, <5>1
      <4>2. QED
        BY <3>2, <4>1
    <3>7. Places(rows, keep, i + 1, f[i + 1], more)
      BY <3>1, <3>3, <3>4, <3>5, <3>6 DEF Places
    <3>8. QED
      BY <3>7
  <2>7. CASE ~keep[rows[i + 1]]
    <3>1. f[i + 1] = f[i]
      BY <2>4, <2>7
    <3>2. \A p \in 1..i + 1 : p = i + 1 \/ p \in 1..i
      BY <2>2
    <3>3. 1..i \subseteq 1..i + 1
      BY <2>2
    <3>4. Places(rows, keep, i + 1, f[i], pos)
      BY <2>3, <2>7, <3>2, <3>3 DEF Places
    <3>5. QED
      BY <3>1, <3>4
  <2>8. QED
    BY <2>6, <2>7
<1>5. T \in SUBSET Nat
  OBVIOUS
<1> HIDE DEF T
<1>6. T = Nat
  BY <1>3, <1>4, <1>5, Counted
<1>7. QED
  BY <1>1, <1>2, <1>6 DEF T

(* The values of a column: NULLs, and numbers or texts. *)
Ranged(V) ==
    \/ \A v \in V : v = Nil \/ (v[1] = "float" /\ v[2] \in Int)
    \/ \A v \in V : v = Nil \/ (IsText(v) /\ v \in Datum)

LEMMA NumbersAreOrdered ==
  ASSUME NEW V, \A v \in V : v = Nil \/ (v[1] = "float" /\ v[2] \in Int),
         NEW a \in V, NEW b \in V
  PROVE  SQLOrder(a, b) = IF a = Nil THEN IF b = Nil THEN 0 ELSE -1
                          ELSE IF b = Nil THEN 1
                          ELSE IF a[2] < b[2] THEN -1 ELSE IF b[2] < a[2] THEN 1 ELSE 0
<1>1. CASE Nil \in {a, b}
  BY <1>1 DEF SQLOrder, Sign
<1>2. CASE Nil \notin {a, b}
  <2>1. /\ a[2] \in Int /\ Number(a) = a[2] /\ IsNumber(a)
        /\ b[2] \in Int /\ Number(b) = b[2]
    BY <1>2 DEF Number, IsNumber
  <2>2. SQLOrder(a, b) = Sign(a[2] < b[2], a[2] > b[2])
    BY <1>2, <2>1 DEF SQLOrder, SQLCompare
  <2>3. QED
    BY <1>2, <2>1, <2>2 DEF Sign
<1>3. QED
  BY <1>1, <1>2

LEMMA TextsAreOrdered ==
  ASSUME NEW V, \A v \in V : v = Nil \/ (IsText(v) /\ v \in Datum),
         NEW a \in V, NEW b \in V
  PROVE  LET x == Lower(a[2])
             y == Lower(b[2])
         IN SQLOrder(a, b) = IF a = Nil THEN IF b = Nil THEN 0 ELSE -1
                             ELSE IF b = Nil THEN 1
                             ELSE IF Precedes(x, y) THEN -1 ELSE IF Precedes(y, x) THEN 1 ELSE 0
<1>1. CASE Nil \in {a, b}
  BY <1>1 DEF SQLOrder, Sign
<1>2. CASE Nil \notin {a, b}
  <2>1. ~IsNumber(a)
    BY <1>2 DEF IsNumber, IsText
  <2>2. QED
    BY <1>2, <2>1 DEF SQLOrder, SQLCompare, Sign
<1>3. QED
  BY <1>1, <1>2

(* An order: opposite the other way around, the same for those that tie,    *)
(* and transitive.                                                          *)
LEMMA ColumnsAreOrdered ==
  ASSUME NEW V, Ranged(V), NEW a \in V, NEW b \in V, NEW c \in V
  PROVE  /\ SQLOrder(a, b) \in {-1, 0, 1}
         /\ SQLOrder(b, a) = 0 - SQLOrder(a, b)
         /\ SQLOrder(a, b) = 0 => SQLOrder(a, c) = SQLOrder(b, c)
         /\ SQLOrder(a, b) = -1 /\ SQLOrder(b, c) = -1 => SQLOrder(a, c) = -1
<1>1. CASE \A v \in V : v = Nil \/ (v[1] = "float" /\ v[2] \in Int)
  <2>1. \A x, y \in {a, b, c} :
          SQLOrder(x, y) = IF x = Nil THEN IF y = Nil THEN 0 ELSE -1
                           ELSE IF y = Nil THEN 1
                           ELSE IF x[2] < y[2] THEN -1 ELSE IF y[2] < x[2] THEN 1 ELSE 0
    BY <1>1, NumbersAreOrdered
  <2>2. \A x \in {a, b, c} : x = Nil \/ x[2] \in Int
    BY <1>1
  <2>3. QED
    BY <2>1, <2>2
<1>2. CASE \A v \in V : v = Nil \/ (IsText(v) /\ v \in Datum)
  <2> DEFINE w(v) == Lower(v[2])
             Words == {Lower(v[2]) : v \in {d \in Datum : IsText(d)}}
  <2>1. \A x, y \in {a, b, c} :
          SQLOrder(x, y) = IF x = Nil THEN IF y = Nil THEN 0 ELSE -1
                           ELSE IF y = Nil THEN 1
                           ELSE IF Precedes(w(x), w(y)) THEN -1
                           ELSE IF Precedes(w(y), w(x)) THEN 1 ELSE 0
    BY <1>2, TextsAreOrdered
  <2>2. \A x \in {a, b, c} : x = Nil \/ w(x) \in Words
    BY <1>2
  <2>3. /\ \A s, t \in Words : s = t \/ Precedes(s, t) \/ Precedes(t, s)
        /\ \A s, t \in Words : ~(Precedes(s, t) /\ Precedes(t, s))
        /\ \A s, t, u \in Words : Precedes(s, t) /\ Precedes(t, u) => Precedes(s, u)
    BY DatumAssumption
  <2> HIDE DEF Words, w
  <2>4. QED
    BY <2>1, <2>2, <2>3
<1>3. QED
  BY <1>1, <1>2 DEF Ranged

LEMMA ColumnsAreRanged ==
  ASSUME table \in Tables, Plain, NEW e \in Expr, e.op = "column"
  PROVE  LET V == {Eval(table.rows[p], e) : p \in DOMAIN table.rows}
         IN /\ Ranged(V)
            /\ \A a, b \in V : compareValues(a, b) = SQLOrder(a, b)
<1> DEFINE j == columnIndex(Columns, e.name)
           V == {Eval(table.rows[p], e) : p \in DOMAIN table.rows}
<1>1. Columns \in Seq(Name) /\ \A p \in DOMAIN table.rows : FullRow(table.rows[p])
  BY TheTable, FullIs DEF Plain
<1>2. ASSUME NEW p \in DOMAIN table.rows PROVE Eval(table.rows[p], e) = lookup(Columns, table.rows[p], e.name)
  <2>1. Eval(table.rows[p], e) = ValueOf(Columns, table.rows[p], Values(table.rows[p]), e)
    BY EvalIs
  <2>2. QED
    BY <2>1 DEF ValueOf, BinaryOp, Relation
<1>3. ASSUME NEW p \in DOMAIN table.rows
      PROVE  LET v == Eval(table.rows[p], e)
             IN /\ j = 0 => v = Nil
                /\ j # 0 => j \in DOMAIN Columns /\ v = table.rows[p][j] /\ v \in Datum
  <2>1. FullRow(table.rows[p])
    BY <1>1
  <2>2. /\ j = 0 => lookup(Columns, table.rows[p], e.name) = Nil
        /\ j # 0 => /\ j \in DOMAIN Columns /\ j \in DOMAIN table.rows[p]
                    /\ lookup(Columns, table.rows[p], e.name) = table.rows[p][j]
    BY <1>1, <2>1, LookupIs
  <2>3. j \in DOMAIN table.rows[p] => table.rows[p][j] \in Datum
    BY <2>1 DEF FullRow
  <2>4. QED
    BY <1>2, <2>2, <2>3
<1> HIDE DEF j
<1>4. ASSUME NEW p \in DOMAIN table.rows
      PROVE  LET v == Eval(table.rows[p], e)
             IN /\ SimpleValue(v) /\ (IsText(v) => v \in Datum /\ toFloat(v) = {})
                /\ IsNumber(v) => v[1] = "float"
  <2>1. CASE j = 0
    BY <1>3, <2>1, NilIsNoPanic DEF SimpleValue, IsText, IsNumber
  <2>2. CASE j # 0
    BY <1>3, <2>2, PlainCells
  <2>3. QED
    BY <2>1, <2>2
<1>5. ASSUME NEW p \in DOMAIN table.rows, NEW q \in DOMAIN table.rows
      PROVE  LET a == Eval(table.rows[p], e)
                 b == Eval(table.rows[q], e)
             IN Nil \notin {a, b} => a[1] = b[1]
  <2>1. CASE j = 0
    BY <1>3, <2>1
  <2>2. CASE j # 0
    <3>1. Nil \notin {table.rows[p][j], table.rows[q][j]} => table.rows[p][j][1] = table.rows[q][j][1]
      BY <1>3, <2>2 DEF Plain, Typed
    <3>2. QED
      BY <1>3, <2>2, <3>1
  <2>3. QED
    BY <2>1, <2>2
<1>6. \A v \in V : /\ SimpleValue(v) /\ (IsText(v) => v \in Datum /\ toFloat(v) = {})
                   /\ IsNumber(v) => v[1] = "float"
  BY <1>4
<1>7. \A a, b \in V : Nil \notin {a, b} => a[1] = b[1]
  BY <1>5
<1> HIDE DEF V
<1>8. Ranged(V)
  <2>1. CASE \A v \in V : v = Nil
    BY <2>1 DEF Ranged
  <2>2. CASE \E u \in V : u # Nil
    <3>1. PICK u \in V : u # Nil
      BY <2>2
    <3>2. \A v \in V : v = Nil \/ v[1] = u[1]
      BY <1>7, <3>1
    <3>3. CASE IsText(u)
      <4>1. \A v \in V : v = Nil \/ (IsText(v) /\ v \in Datum)
        BY <1>6, <3>2, <3>3 DEF IsText
      <4>2. QED
        BY <4>1 DEF Ranged
    <3>4. CASE ~IsText(u)
      <4>1. \A v \in V : v = Nil \/ (v[1] = "float" /\ v[2] \in Int)
        BY <1>6, <3>2, <3>4 DEF IsText, SimpleValue
      <4>2. QED
        BY <4>1 DEF Ranged
    <3>5. QED
      BY <3>3, <3>4
  <2>3. QED
    BY <2>1, <2>2
<1>9. ASSUME NEW a \in V, NEW b \in V PROVE compareValues(a, b) = SQLOrder(a, b)
  <2>1. CASE Nil \in {a, b}
    BY <2>1 DEF compareValues, SQLOrder
  <2>2. CASE Nil \notin {a, b}
    <3>1. SimpleValue(a) /\ SimpleValue(b) /\ a[1] = b[1]
      BY <1>6, <1>7, <2>2
    <3>2. Kindred(a, b)
      <4>1. CASE IsText(a)
        BY <1>6, <3>1, <4>1 DEF Kindred, IsText
      <4>2. CASE IsNumber(a)
        <5>1. IsNumber(b)
          BY <3>1, <4>2 DEF IsNumber
        <5>2. Held(a) /\ Held(b)
          BY <1>6, <4>2, <5>1, NumbersAre
        <5>3. QED
          BY <5>2 DEF Kindred
      <4>3. QED
        BY <2>2, <3>1, <4>1, <4>2 DEF SimpleValue
    <3>3. compareValues(a, b) = SQLCompare(a, b)
      BY <2>2, <3>1, <3>2, ComparesAsSQL
    <3>4. QED
      BY <2>2, <3>3 DEF SQLOrder
  <2>3. QED
    BY <2>1, <2>2
<1>10. QED
  BY <1>8, <1>9 DEF V

(* ORDER BY columns, by name or by position. *)
ByColumns == \A i \in DOMAIN stmt.order :
               stmt.order[i].by.op = "column" \/ Selected(stmt.order[i].by)

LEMMA KeysAreMeant ==
  ASSUME stmt \in Statements, ByColumns
  PROVE  /\ Keys = DOMAIN stmt.order
         /\ \A i \in DOMAIN stmt.order : LET e == Meant(stmt.order[i].by)
                                         IN Key(stmt.order[i]) = e /\ e \in Expr /\ e.op = "column"
<1>1. ASSUME NEW i \in DOMAIN stmt.order
      PROVE  LET e == Meant(stmt.order[i].by)
             IN Key(stmt.order[i]) = e /\ e \in Expr /\ e.op = "column"
  <2> DEFINE by == stmt.order[i].by
  <2>1. CASE by.op = "column"
    BY <2>1, TheStatement DEF Key, Meant
  <2>2. CASE Selected(by)
    <3>1. /\ by.op = "position" /\ by.n \in DOMAIN stmt.fields
          /\ stmt.fields[by.n].expr # None /\ stmt.fields[by.n].expr.op = "column"
      <4>1. /\ by.op = "position" /\ by.n \in DOMAIN stmt.fields
            /\ \A k \in 1..by.n : stmt.fields[k].expr # None
            /\ stmt.fields[by.n].expr.op = "column"
        BY <2>2 DEF Selected
      <4>2. DOMAIN stmt.fields = 1..Len(stmt.fields) /\ Len(stmt.fields) \in Nat
        BY TheStatement
      <4>3. by.n \in 1..by.n
        BY <4>1, <4>2
      <4>4. QED
        BY <4>1, <4>3
    <3>2. QED
      BY <3>1, TheStatement DEF Key, Meant, nthSelectColumn
  <2>3. QED
    BY <2>1, <2>2 DEF ByColumns
<1>2. Keys = DOMAIN stmt.order
  BY <1>1, NoneAssumption DEF Keys
<1>3. QED
  BY <1>1, <1>2

(* How the i-th column of ORDER BY has the rows p and q. *)
Differing(p, q, i) ==
    SQLOrder(Eval(table.rows[p], Meant(stmt.order[i].by)),
             Eval(table.rows[q], Meant(stmt.order[i].by)))
Sense(i) == IF stmt.order[i].desc THEN 1 ELSE -1
Level(p, q) == \A i \in DOMAIN stmt.order : Differing(p, q, i) = 0
AheadBy(p, q, i) == /\ i \in DOMAIN stmt.order
                    /\ \A j \in DOMAIN stmt.order : j < i => Differing(p, q, j) = 0
                    /\ Differing(p, q, i) = Sense(i)
Ahead(p, q) == \E i \in DOMAIN stmt.order : AheadBy(p, q, i)

LEMMA FirstIs ==
  ASSUME stmt \in Statements, NEW p, NEW q
  PROVE  SQLFirst(p, q) <=> Ahead(p, q) \/ (p < q /\ Level(p, q))
<1>1. DOMAIN stmt.order = 1..Len(stmt.order) /\ Len(stmt.order) \in Nat
  BY TheStatement
<1>2. \A i \in DOMAIN stmt.order : \A j : j \in 1..i - 1 <=> j \in DOMAIN stmt.order /\ j < i
  BY <1>1
<1>3. SQLFirst(p, q) <=>
        \/ \E i \in DOMAIN stmt.order :
             /\ \A j \in 1..i - 1 : Differing(p, q, j) = 0
             /\ Differing(p, q, i) = Sense(i)
        \/ p < q /\ Level(p, q)
  BY DEF SQLFirst, Differing, Sense, Level
<1>4. QED
  BY <1>2, <1>3 DEF Ahead, AheadBy

LEMMA DifferingIs ==
  ASSUME table \in Tables, stmt \in Statements, Plain, ByColumns,
         NEW p \in DOMAIN table.rows, NEW q \in DOMAIN table.rows, NEW r \in DOMAIN table.rows,
         NEW i \in DOMAIN stmt.order
  PROVE  /\ Differing(p, q, i) \in {-1, 0, 1}
         /\ Differing(q, p, i) = 0 - Differing(p, q, i)
         /\ Differing(p, q, i) = 0 => Differing(p, r, i) = Differing(q, r, i)
         /\ Differing(p, q, i) = -1 /\ Differing(q, r, i) = -1 => Differing(p, r, i) = -1
         /\ Differing(p, q, i) =
              compareValues(Eval(table.rows[p], Key(stmt.order[i])),
                            Eval(table.rows[q], Key(stmt.order[i])))
<1> DEFINE e == Meant(stmt.order[i].by)
           V == {Eval(table.rows[n], e) : n \in DOMAIN table.rows}
           a == Eval(table.rows[p], e)
           b == Eval(table.rows[q], e)
           c == Eval(table.rows[r], e)
<1>1. e \in Expr /\ e.op = "column" /\ Key(stmt.order[i]) = e
  BY KeysAreMeant
<1>2. Ranged(V) /\ \A x, y \in V : compareValues(x, y) = SQLOrder(x, y)
  BY <1>1, ColumnsAreRanged
<1>3. a \in V /\ b \in V /\ c \in V
  OBVIOUS
<1>4. /\ Differing(p, q, i) = SQLOrder(a, b) /\ Differing(q, p, i) = SQLOrder(b, a)
      /\ Differing(p, r, i) = SQLOrder(a, c) /\ Differing(q, r, i) = SQLOrder(b, c)
  BY DEF Differing
<1> HIDE DEF V, a, b, c
<1>5. /\ SQLOrder(a, b) \in {-1, 0, 1}
      /\ SQLOrder(b, a) = 0 - SQLOrder(a, b)
      /\ SQLOrder(a, b) = 0 => SQLOrder(a, c) = SQLOrder(b, c)
      /\ SQLOrder(a, b) = -1 /\ SQLOrder(b, c) = -1 => SQLOrder(a, c) = -1
  BY <1>2, <1>3, ColumnsAreOrdered
<1>6. compareValues(a, b) = SQLOrder(a, b)
  BY <1>2, <1>3
<1>7. QED
  BY <1>1, <1>4, <1>5, <1>6 DEF a, b

(* Of two rows one comes first, and who comes first is transitive. *)
LEMMA AheadIsTotal ==
  ASSUME table \in Tables, stmt \in Statements, Plain, ByColumns,
         NEW p \in DOMAIN table.rows, NEW q \in DOMAIN table.rows
  PROVE  /\ Ahead(p, q) \/ Ahead(q, p) \/ Level(p, q)
         /\ ~(Ahead(p, q) /\ Ahead(q, p))
         /\ ~(Ahead(p, q) /\ Level(p, q))
         /\ Level(p, q) <=> Level(q, p)
<1>1. DOMAIN stmt.order = 1..Len(stmt.order) /\ Len(stmt.order) \in Nat
  BY TheStatement
<1>2. \A i \in DOMAIN stmt.order : /\ Differing(p, q, i) \in {-1, 0, 1}
                                   /\ Differing(q, p, i) = 0 - Differing(p, q, i)
                                   /\ Sense(i) \in {-1, 1}
  BY DifferingIs DEF Sense
<1>3. Level(p, q) <=> Level(q, p)
  BY <1>2 DEF Level
<1>4. ~(Ahead(p, q) /\ Level(p, q))
  BY <1>2 DEF Ahead, AheadBy, Level
<1>5. ~(Ahead(p, q) /\ Ahead(q, p))
  <2>1. SUFFICES ASSUME NEW i \in DOMAIN stmt.order, NEW k \in DOMAIN stmt.order,
                        AheadBy(p, q, i), AheadBy(q, p, k)
                 PROVE  FALSE
    BY DEF Ahead
  <2>2. i \in Int /\ k \in Int
    BY <1>1
  <2>3. CASE i < k
    BY <1>2, <2>1, <2>3 DEF AheadBy
  <2>4. CASE k < i
    BY <1>2, <2>1, <2>4 DEF AheadBy
  <2>5. CASE i = k
    BY <1>2, <2>1, <2>5 DEF AheadBy
  <2>6. QED
    BY <2>2, <2>3, <2>4, <2>5
<1>6. ASSUME ~Level(p, q) PROVE Ahead(p, q) \/ Ahead(q, p)
  <2> DEFINE T == {i \in DOMAIN stmt.order : Differing(p, q, i) # 0}
  <2>1. T \in SUBSET Nat /\ T # {}
    BY <1>1, <1>6 DEF Level
  <2>2. PICK i \in T : \A j \in T : i <= j
    BY <2>1, LeastNumber
  <2>3. \A j \in DOMAIN stmt.order : j < i => Differing(p, q, j) = 0 /\ Differing(q, p, j) = 0
    <3>1. ASSUME NEW j \in DOMAIN stmt.order, j < i PROVE Differing(p, q, j) = 0
      BY <1>1, <2>2, <3>1
    <3>2. QED
      BY <1>2, <3>1
  <2>4. i \in DOMAIN stmt.order /\ Differing(p, q, i) # 0
    OBVIOUS
  <2>5. Differing(p, q, i) = Sense(i) \/ Differing(q, p, i) = Sense(i)
    BY <1>2, <2>4
  <2>6. QED
    BY <2>3, <2>4, <2>5 DEF Ahead, AheadBy
<1>7. QED
  BY <1>3, <1>4, <1>5, <1>6

LEMMA AheadIsTransitive ==
  ASSUME table \in Tables, stmt \in Statements, Plain, ByColumns,
         NEW p \in DOMAIN table.rows, NEW q \in DOMAIN table.rows, NEW r \in DOMAIN table.rows
  PROVE  /\ Ahead(p, q) /\ Ahead(q, r) => Ahead(p, r)
         /\ Ahead(p, q) /\ Level(q, r) => Ahead(p, r)
         /\ Level(p, q) /\ Ahead(q, r) => Ahead(p, r)
         /\ Level(p, q) /\ Level(q, r) => Level(p, r)
<1>1. DOMAIN stmt.order = 1..Len(stmt.order) /\ Len(stmt.order) \in Nat
  BY TheStatement
<1>2. ASSUME NEW i \in DOMAIN stmt.order
      PROVE  /\ Differing(p, q, i) = 0 => Differing(p, r, i) = Differing(q, r, i)
             /\ Differing(q, r, i) = 0 => Differing(p, r, i) = Differing(p, q, i)
             /\ Differing(p, q, i) = -1 /\ Differing(q, r, i) = -1 => Differing(p, r, i) = -1
             /\ Differing(p, q, i) = 1 /\ Differing(q, r, i) = 1 => Differing(p, r, i) = 1
             /\ Sense(i) \in {-1, 1}
  <2>1. /\ Differing(p, q, i) \in {-1, 0, 1} /\ Differing(q, p, i) = 0 - Differing(p, q, i)
        /\ Differing(p, q, i) = 0 => Differing(p, r, i) = Differing(q, r, i)
        /\ Differing(p, q, i) = -1 /\ Differing(q, r, i) = -1 => Differing(p, r, i) = -1
    BY DifferingIs
  <2>2. /\ Differing(q, r, i) \in {-1, 0, 1} /\ Differing(r, q, i) = 0 - Differing(q, r, i)
        /\ Differing(r, q, i) = 0 => Differing(r, p, i) = Differing(q, p, i)
    BY DifferingIs
  <2>3. /\ Differing(p, r, i) \in {-1, 0, 1} /\ Differing(r, p, i) = 0 - Differing(p, r, i)
    BY DifferingIs
  <2>4. Differing(r, q, i) = -1 /\ Differing(q, p, i) = -1 => Differing(r, p, i) = -1
    BY DifferingIs
  <2>5. Differing(q, r, i) = 0 => Differing(p, r, i) = Differing(p, q, i)
    <3>1. ASSUME Differing(q, r, i) = 0 PROVE Differing(p, r, i) = Differing(p, q, i)
      <4>1. Differing(r, q, i) = 0
        <5>1. Differing(r, q, i) = 0 - Differing(q, r, i)
          BY <2>2
        <5>2. QED
          BY <3>1, <5>1
      <4>2. Differing(r, p, i) = Differing(q, p, i)
        BY <2>2, <4>1
      <4>3. 0 - Differing(p, r, i) = 0 - Differing(p, q, i)
        BY <2>1, <2>3, <4>2
      <4>4. Differing(p, r, i) \in Int /\ Differing(p, q, i) \in Int
        BY <2>1, <2>3
      <4>5. QED
        BY <4>3, <4>4
    <3>2. QED
      BY <3>1
  <2>6. Differing(p, q, i) = 1 /\ Differing(q, r, i) = 1 => Differing(p, r, i) = 1
    BY <2>1, <2>2, <2>3, <2>4
  <2>7. QED
    BY <2>1, <2>5, <2>6 DEF Sense
<1>3. ASSUME Ahead(p, q), Ahead(q, r) PROVE Ahead(p, r)
  <2>1. PICK i \in DOMAIN stmt.order : AheadBy(p, q, i)
    BY <1>3 DEF Ahead
  <2>2. PICK k \in DOMAIN stmt.order : AheadBy(q, r, k)
    BY <1>3 DEF Ahead
  <2>3. i \in Int /\ k \in Int
    BY <1>1
  <2>4. CASE i < k
    <3>1. \A j \in DOMAIN stmt.order : j < i => j < k
      BY <1>1, <2>4
    <3>2. AheadBy(p, r, i)
      BY <1>2, <2>1, <2>2, <2>4, <3>1 DEF AheadBy
    <3>3. QED
      BY <3>2 DEF Ahead
  <2>5. CASE k < i
    <3>1. \A j \in DOMAIN stmt.order : j < k => j < i
      BY <1>1, <2>5
    <3>2. AheadBy(p, r, k)
      BY <1>2, <2>1, <2>2, <2>5, <3>1 DEF AheadBy
    <3>3. QED
      BY <3>2 DEF Ahead
  <2>6. CASE i = k
    <3>1. AheadBy(p, r, i)
      BY <1>2, <2>1, <2>2, <2>6 DEF AheadBy
    <3>2. QED
      BY <3>1 DEF Ahead
  <2>7. QED
    BY <2>3, <2>4, <2>5, <2>6
<1>4. ASSUME Ahead(p, q), Level(q, r) PROVE Ahead(p, r)
  <2>1. PICK i \in DOMAIN stmt.order : AheadBy(p, q, i)
    BY <1>4 DEF Ahead
  <2>2. AheadBy(p, r, i)
    BY <1>2, <1>4, <2>1 DEF AheadBy, Level
  <2>3. QED
    BY <2>2 DEF Ahead
<1>5. ASSUME Level(p, q), Ahead(q, r) PROVE Ahead(p, r)
  <2>1. PICK i \in DOMAIN stmt.order : AheadBy(q, r, i)
    BY <1>5 DEF Ahead
  <2>2. AheadBy(p, r, i)
    BY <1>2, <1>5, <2>1 DEF AheadBy, Level
  <2>3. QED
    BY <2>2 DEF Ahead
<1>6. ASSUME Level(p, q), Level(q, r) PROVE Level(p, r)
  BY <1>2, <1>6 DEF Level
<1>7. QED
  BY <1>3, <1>4, <1>5, <1>6

LEMMA FirstIsAnOrder ==
  ASSUME table \in Tables, stmt \in Statements, Plain, ByColumns
  PROVE  /\ \A p, q \in DOMAIN table.rows : p # q => (SQLFirst(p, q) <=> ~SQLFirst(q, p))
         /\ \A p \in DOMAIN table.rows : ~SQLFirst(p, p)
         /\ \A p, q, r \in DOMAIN table.rows :
              SQLFirst(p, q) /\ SQLFirst(q, r) => SQLFirst(p, r)
<1>1. DOMAIN table.rows \subseteq Int
  BY TheTable
<1>2. ASSUME NEW p \in DOMAIN table.rows, NEW q \in DOMAIN table.rows
      PROVE  /\ p # q => (SQLFirst(p, q) <=> ~SQLFirst(q, p))
             /\ ~SQLFirst(p, p)
  <2>1. p \in Int /\ q \in Int
    BY <1>1
  <2>2. ~Ahead(p, p)
    BY AheadIsTotal
  <2>3. /\ Ahead(p, q) \/ Ahead(q, p) \/ Level(p, q)
        /\ ~(Ahead(p, q) /\ Ahead(q, p)) /\ ~(Ahead(p, q) /\ Level(p, q))
        /\ Level(p, q) <=> Level(q, p)
    BY AheadIsTotal
  <2>4. ~(Ahead(q, p) /\ Level(q, p))
    BY AheadIsTotal
  <2>5. /\ SQLFirst(p, q) <=> Ahead(p, q) \/ (p < q /\ Level(p, q))
        /\ SQLFirst(q, p) <=> Ahead(q, p) \/ (q < p /\ Level(q, p))
        /\ SQLFirst(p, p) <=> Ahead(p, p) \/ (p < p /\ Level(p, p))
    BY FirstIs
  <2>6. QED
    BY <2>1, <2>2, <2>3, <2>4, <2>5
<1>3. ASSUME NEW p \in DOMAIN table.rows, NEW q \in DOMAIN table.rows, NEW r \in DOMAIN table.rows,
             SQLFirst(p, q), SQLFirst(q, r)
      PROVE  SQLFirst(p, r)
  <2>1. p \in Int /\ q \in Int /\ r \in Int
    BY <1>1
  <2>2. /\ Ahead(p, q) \/ (p < q /\ Level(p, q))
        /\ Ahead(q, r) \/ (q < r /\ Level(q, r))
        /\ Ahead(p, r) \/ (p < r /\ Level(p, r)) => SQLFirst(p, r)
    BY <1>3, FirstIs
  <2>3. /\ Ahead(p, q) /\ Ahead(q, r) => Ahead(p, r)
        /\ Ahead(p, q) /\ Level(q, r) => Ahead(p, r)
        /\ Level(p, q) /\ Ahead(q, r) => Ahead(p, r)
        /\ Level(p, q) /\ Level(q, r) => Level(p, r)
    BY AheadIsTransitive
  <2>4. QED
    BY <2>1, <2>2, <2>3
<1>4. QED
  BY <1>2, <1>3

(* The less function is the order of ORDER BY. *)
LEMMA VerdictIsSQLs ==
  ASSUME table \in Tables, stmt \in Statements, Plain, ByColumns,
         NEW p \in DOMAIN table.rows, NEW q \in DOMAIN table.rows
  PROVE  Verdict(table.rows[q], table.rows[p]) = "less" <=> Ahead(q, p)
<1> DEFINE a == table.rows[q]
           b == table.rows[p]
<1>1. FullRow(a) /\ FullRow(b)
  BY FullIs DEF Plain
<1>2. \A i \in Keys : ~Panicking(a, b, i)
  BY <1>1, FullRowsSort
<1>3. Keys = DOMAIN stmt.order
  BY KeysAreMeant
<1>4. \A i \in DOMAIN stmt.order : /\ Differ(a, b, i) = Differing(q, p, i)
                                   /\ Differing(q, p, i) \in {-1, 0, 1}
  BY DifferingIs DEF Differ, Value
<1>5. Telling(a, b) = {i \in DOMAIN stmt.order : Differing(q, p, i) # 0}
  BY <1>2, <1>3, <1>4 DEF Telling
<1>6. /\ DOMAIN stmt.order = 1..Len(stmt.order) /\ Len(stmt.order) \in Nat
  BY TheStatement
<1> HIDE DEF a, b
<1>7. CASE Telling(a, b) = {}
  <2>1. Verdict(a, b) # "less"
    BY <1>7, VerdictIs
  <2>2. ~Ahead(q, p)
    BY <1>5, <1>7 DEF Ahead, AheadBy, Sense
  <2>3. QED
    BY <2>1, <2>2 DEF a, b
<1>8. CASE Telling(a, b) # {}
  <2>1. PICK i \in Telling(a, b) :
          /\ \A j \in Telling(a, b) : i <= j
          /\ Verdict(a, b) =
               IF Panicking(a, b, i) THEN "panic"
               ELSE IF IF stmt.order[i].desc THEN Differ(a, b, i) > 0 ELSE Differ(a, b, i) < 0
                      THEN "less" ELSE "not less"
    BY <1>8, VerdictIs
  <2>2. i \in DOMAIN stmt.order /\ ~Panicking(a, b, i) /\ Differing(q, p, i) # 0
    BY <1>2, <1>3, <1>5
  <2>3. Verdict(a, b) = "less" <=> Differing(q, p, i) = Sense(i)
    <3> DEFINE d == Differing(q, p, i)
    <3>1. /\ d \in {-1, 1} /\ Differ(a, b, i) = d
          /\ Verdict(a, b) = IF IF stmt.order[i].desc THEN d > 0 ELSE d < 0 THEN "less" ELSE "not less"
      BY <1>4, <2>1, <2>2
    <3> HIDE DEF d
    <3>2. CASE stmt.order[i].desc
      <4>1. Sense(i) = 1
        BY <3>2 DEF Sense
      <4>2. Verdict(a, b) = IF d > 0 THEN "less" ELSE "not less"
        BY <3>1, <3>2
      <4>3. Verdict(a, b) = "less" <=> d = 1
        <5>1. d = 1 \/ d = -1
          BY <3>1
        <5>2. CASE d = 1
          BY <4>2, <5>2
        <5>3. CASE d = -1
          <6>1. ~(d > 0) /\ d # 1
            BY <5>3
          <6>2. Verdict(a, b) = "not less"
            BY <4>2, <6>1
          <6>3. QED
            BY <6>1, <6>2
        <5>4. QED
          BY <5>1, <5>2, <5>3
      <4>4. QED
        BY <4>1, <4>3 DEF d
    <3>3. CASE ~stmt.order[i].desc
      <4>1. Sense(i) = -1
        BY <3>3 DEF Sense
      <4>2. Verdict(a, b) = IF d < 0 THEN "less" ELSE "not less"
        BY <3>1, <3>3
      <4>3. Verdict(a, b) = "less" <=> d = -1
        <5>1. d = 1 \/ d = -1
          BY <3>1
        <5>2. CASE d = 1
          <6>1. ~(d < 0) /\ d # -1
            BY <5>2
          <6>2. Verdict(a, b) = "not less"
            BY <4>2, <6>1
          <6>3. QED
            BY <6>1, <6>2
        <5>3. CASE d = -1
          BY <4>2, <5>3
        <5>4. QED
          BY <5>1, <5>2, <5>3
      <4>4. QED
        BY <4>1, <4>3 DEF d
    <3>4. QED
      BY <3>2, <3>3
  <2>4. ASSUME NEW j \in DOMAIN stmt.order, j < i PROVE Differing(q, p, j) = 0
    <3>1. i \in Int /\ j \in Int /\ ~(i <= j)
      BY <1>6, <2>2, <2>4
    <3>2. j \notin Telling(a, b)
      BY <2>1, <3>1
    <3>3. QED
      BY <1>5, <2>4, <3>2
  <2>5. Ahead(q, p) <=> Differing(q, p, i) = Sense(i)
    <3>1. ASSUME Differing(q, p, i) = Sense(i) PROVE Ahead(q, p)
      BY <2>2, <2>4, <3>1 DEF Ahead, AheadBy
    <3>2. ASSUME NEW k \in DOMAIN stmt.order, AheadBy(q, p, k) PROVE k = i
      <4>1. ~(i < k)
        BY <2>2, <3>2 DEF AheadBy
      <4>2. ~(k < i)
        BY <2>4, <3>2 DEF AheadBy, Sense
      <4>3. QED
        BY <1>6, <2>2, <4>1, <4>2
    <3>3. QED
      BY <3>1, <3>2 DEF Ahead, AheadBy
  <2>6. QED
    BY <2>3, <2>5 DEF a, b
<1>9. QED
  BY <1>7, <1>8

(* It orders the rows, those that tie being as good as one another. *)
LEMMA LessOrders ==
  ASSUME table \in Tables, stmt \in Statements, Plain, ByColumns,
         NEW rows, \A x \in ToSet(rows) : \E p \in DOMAIN table.rows : x = table.rows[p]
  PROVE  Orders(Less(rows), rows)
<1>1. SUFFICES ASSUME NEW a \in ToSet(rows), NEW b \in ToSet(rows), <<a, b>> \in Less(rows)
               PROVE  /\ <<b, a>> \notin Less(rows)
                      /\ \A c \in ToSet(rows) : <<a, c>> \in Less(rows) \/ <<c, b>> \in Less(rows)
  BY DEF Orders
<1>2. \A x, y \in ToSet(rows) : <<x, y>> \in Less(rows) <=> Verdict(x, y) = "less"
  BY DEF Less
<1>3. PICK p \in DOMAIN table.rows : a = table.rows[p]
  OBVIOUS
<1>4. PICK q \in DOMAIN table.rows : b = table.rows[q]
  OBVIOUS
<1>5. Ahead(p, q)
  BY <1>1, <1>2, <1>3, <1>4, VerdictIsSQLs
<1>6. <<b, a>> \notin Less(rows)
  <2>1. ~Ahead(q, p)
    BY <1>5, AheadIsTotal
  <2>2. QED
    BY <1>2, <1>3, <1>4, <2>1, VerdictIsSQLs
<1>7. ASSUME NEW c \in ToSet(rows)
      PROVE  <<a, c>> \in Less(rows) \/ <<c, b>> \in Less(rows)
  <2>1. PICK r \in DOMAIN table.rows : c = table.rows[r]
    OBVIOUS
  <2>2. Ahead(p, r) \/ Ahead(r, p) \/ Level(r, p)
    <3>1. Ahead(p, r) \/ Ahead(r, p) \/ Level(p, r)
      BY AheadIsTotal
    <3>2. Level(p, r) <=> Level(r, p)
      BY AheadIsTotal
    <3>3. QED
      BY <3>1, <3>2
  <2>3. Ahead(p, r) \/ Ahead(r, q)
    <3>1. /\ Ahead(r, p) /\ Ahead(p, q) => Ahead(r, q)
          /\ Level(r, p) /\ Ahead(p, q) => Ahead(r, q)
      BY AheadIsTransitive
    <3>2. QED
      BY <1>5, <2>2, <3>1
  <2>4. CASE Ahead(p, r)
    BY <1>2, <1>3, <2>1, <2>4, VerdictIsSQLs
  <2>5. CASE Ahead(r, q)
    BY <1>2, <1>4, <2>1, <2>5, VerdictIsSQLs
  <2>6. QED
    BY <2>3, <2>4, <2>5
<1>8. QED
  BY <1>6, <1>7

LEMMA ListedOnce ==
  ASSUME NEW n \in Nat, NEW S, NEW f \in [1..n -> S],
         \A x \in S : \E k \in 1..n : f[k] = x,
         \A j, k \in 1..n : j < k => f[j] # f[k]
  PROVE  IsFiniteSet(S) /\ Cardinality(S) = n
<1>1. f \in Surjection(1..n, S)
  BY DEF Surjection
<1>2. f \in Injection(1..n, S)
  <2>1. ASSUME NEW j \in 1..n, NEW k \in 1..n, j # k PROVE f[j] # f[k]
    <3>1. j < k \/ k < j
      BY <2>1
    <3>2. QED
      BY <3>1
  <2>2. QED
    BY <2>1 DEF Injection, IsInjective
<1>3. IsFiniteSet(1..n) /\ Cardinality(1..n) = n
  BY FS_Interval
<1>4. QED
  BY <1>1, <1>2, <1>3, FS_Surjection

(* The rows WHERE keeps, in SQL's order, by their positions. *)
InOrder(f) ==
    /\ f \in [1..Len(sorted) -> SQLRows]
    /\ \A k \in 1..Len(sorted) : sorted[k] = table.rows[f[k]]
    /\ \A j, k \in 1..Len(sorted) : j < k => SQLFirst(f[j], f[k])
    /\ \A p \in SQLRows : \E k \in 1..Len(sorted) : f[k] = p

Answerable == /\ table \in Tables /\ stmt \in Statements /\ Plain /\ ByColumns
              /\ stmt.where = None \/ Exact(stmt.where)

LEMMA KeptRowsAreSQLs ==
  ASSUME Answerable, NEW p \in DOMAIN table.rows
  PROVE  Keep[table.rows[p]] <=> p \in SQLRows
<1> DEFINE row == table.rows[p]
<1>1. row \in ToSet(table.rows)
  BY TheTable DEF Answerable
<1>2. /\ Keep[row] <=> triOf(WhereOf(row)) = "true"
      /\ p \in SQLRows <=> SQLTruthOf(row) = "true"
  BY <1>1 DEF Keep, SQLRows
<1>3. CASE stmt.where = None
  BY <1>2, <1>3, TriOfIs DEF WhereOf, SQLTruthOf
<1>4. CASE stmt.where # None
  <2> DEFINE w == stmt.where
  <2>1. w \in Expr /\ Exact(w)
    BY <1>4, TheStatement DEF Answerable
  <2>2. AllCompared(row, w) /\ OneNot(w) /\ NoAnd(w)
    BY <2>1 DEF Exact, Comparable, AllCompared, OneNot, NoNot, NoAnd
  <2>3. SameRows(SQLTruth(Columns, row, w), triOf(Eval(row, w)))
    BY <2>1, <2>2, ExactRowsAreSQLs DEF Answerable
  <2>4. QED
    BY <1>2, <1>4, <2>3 DEF WhereOf, SQLTruthOf, SameRows
<1>5. QED
  BY <1>3, <1>4

LEMMA SortedRowsAreSQLs ==
  ASSUME Answerable, kept = Filter(table.rows, Keep), sorted \in SliceStable(kept, Less(kept))
  PROVE  \E f : InOrder(f)
<1> DEFINE n == Len(table.rows)
           m == Len(kept)
           S == ToSet(table.rows)
<1>1. table \in Tables /\ stmt \in Statements /\ Plain /\ ByColumns
  BY DEF Answerable
<1>2. table.rows \in Seq(S) /\ n \in Nat /\ DOMAIN table.rows = 1..n
  BY <1>1, TheTable
<1>3. kept \in Seq(S) /\ m \in Nat /\ DOMAIN kept = 1..m
  <2>1. kept \in Seq(S)
    BY <1>2, FilterKeeps
  <2>2. QED
    BY <2>1
<1>4. PICK pos : Places(table.rows, Keep, n, kept, pos)
  BY <1>2, FilterPlaces
<1>5. /\ pos \in [1..m -> 1..n]
      /\ \A k \in 1..m : kept[k] = table.rows[pos[k]] /\ Keep[table.rows[pos[k]]]
      /\ \A j, k \in 1..m : j < k => pos[j] < pos[k]
      /\ \A p \in 1..n : Keep[table.rows[p]] => \E k \in 1..m : pos[k] = p
  BY <1>4 DEF Places
<1>6. \A k \in 1..m : pos[k] \in SQLRows /\ pos[k] \in 1..n
  BY <1>2, <1>5, KeptRowsAreSQLs
<1>7. \A p \in SQLRows : \E k \in 1..m : pos[k] = p
  <2>1. ASSUME NEW p \in SQLRows PROVE \E k \in 1..m : pos[k] = p
    <3>1. p \in 1..n
      BY <1>2 DEF SQLRows
    <3>2. Keep[table.rows[p]]
      BY <1>2, <3>1, KeptRowsAreSQLs
    <3>3. QED
      BY <1>5, <3>1, <3>2
  <2>2. QED
    BY <2>1
<1> HIDE DEF S, n
<1>8. Len(sorted) = m /\ \E at : Arranged(kept, Less(kept), sorted, at)
  BY <1>3, SortArranges
<1>9. PICK at : Arranged(kept, Less(kept), sorted, at)
  BY <1>8
<1>10. Orders(Less(kept), kept)
  <2>1. ASSUME NEW x \in ToSet(kept) PROVE \E p \in DOMAIN table.rows : x = table.rows[p]
    <3>1. PICK k \in 1..m : x = kept[k]
      BY <1>3 DEF ToSet
    <3>2. QED
      BY <1>2, <1>5, <1>6, <3>1
  <2>2. QED
    BY <1>1, <2>1, LessOrders
<1>11. ASSUME NEW j \in 1..m, NEW k \in 1..m
       PROVE  <<kept[j], kept[k]>> \in Less(kept) <=> Ahead(pos[j], pos[k])
  <2>1. kept[j] \in ToSet(kept) /\ kept[k] \in ToSet(kept)
    BY <1>3 DEF ToSet
  <2>2. /\ kept[j] = table.rows[pos[j]] /\ kept[k] = table.rows[pos[k]]
        /\ pos[j] \in DOMAIN table.rows /\ pos[k] \in DOMAIN table.rows
    BY <1>2, <1>5, <1>6
  <2>3. Verdict(table.rows[pos[j]], table.rows[pos[k]]) = "less" <=> Ahead(pos[j], pos[k])
    BY <1>1, <2>2, VerdictIsSQLs
  <2>4. QED
    BY <2>1, <2>2, <2>3 DEF Less
<1> HIDE DEF m
<1>12. /\ at \in [1..m -> 1..m]
       /\ \A j, k \in 1..m : j # k => at[j] # at[k]
       /\ \A p \in 1..m : \E k \in 1..m : at[k] = p
       /\ \A k \in 1..m : sorted[k] = kept[at[k]]
       /\ Stable(Less(kept), kept, at)
  BY <1>9, <1>10 DEF Arranged, m
<1> DEFINE f == [k \in 1..m |-> pos[at[k]]]
<1>13. \A k \in 1..m : at[k] \in 1..m /\ f[k] = pos[at[k]]
  BY <1>12
<1>14. f \in [1..m -> SQLRows]
  BY <1>6, <1>13
<1> HIDE DEF f
<1>15. \A k \in 1..m : sorted[k] = table.rows[f[k]]
  <2>1. ASSUME NEW k \in 1..m PROVE sorted[k] = table.rows[f[k]]
    <3>1. at[k] \in 1..m /\ f[k] = pos[at[k]] /\ sorted[k] = kept[at[k]]
      BY <1>12, <1>13
    <3>2. kept[at[k]] = table.rows[pos[at[k]]]
      BY <1>5, <3>1
    <3>3. QED
      BY <3>1, <3>2
  <2>2. QED
    BY <2>1
<1>16. \A j, k \in 1..m : j < k => SQLFirst(f[j], f[k])
  <2>1. ASSUME NEW j \in 1..m, NEW k \in 1..m, j < k PROVE SQLFirst(f[j], f[k])
    <3> DEFINE p == pos[at[j]]
               q == pos[at[k]]
    <3>1. at[j] \in 1..m /\ f[j] = p /\ at[k] \in 1..m /\ f[k] = q
      BY <1>13
    <3>2. p \in 1..n /\ q \in 1..n
      BY <1>6, <3>1
    <3>3. /\ ~Ahead(q, p)
          /\ at[j] > at[k] => Ahead(p, q)
      <4>1. j \in DOMAIN kept /\ k \in DOMAIN kept
        BY <1>3 DEF m
      <4>2. /\ <<kept[at[k]], kept[at[j]]>> \notin Less(kept)
            /\ at[j] > at[k] => <<kept[at[j]], kept[at[k]]>> \in Less(kept)
        BY <1>12, <2>1, <4>1 DEF Stable
      <4>3. QED
        BY <1>11, <3>1, <4>2
    <3>4. at[j] > at[k] \/ at[j] < at[k]
      <4>1. at[j] # at[k]
        BY <1>3, <1>12, <2>1
      <4>2. QED
        BY <1>3, <3>1, <4>1 
    <3>5. at[j] < at[k] => p < q
      BY <1>5, <3>1
    <3> HIDE DEF p, q
    <3>6. Ahead(p, q) \/ Ahead(q, p) \/ Level(p, q)
      BY <1>1, <1>2, <3>2, AheadIsTotal
    <3>7. SQLFirst(p, q) <=> Ahead(p, q) \/ (p < q /\ Level(p, q))
      BY <1>1, FirstIs
    <3>8. SQLFirst(p, q)
      BY <3>3, <3>4, <3>5, <3>6, <3>7
    <3>9. QED
      BY <3>1, <3>8 DEF p, q
  <2>2. QED
    BY <2>1
<1>17. \A p \in SQLRows : \E k \in 1..m : f[k] = p
  <2>1. ASSUME NEW p \in SQLRows PROVE \E k \in 1..m : f[k] = p
    <3>1. PICK j \in 1..m : pos[j] = p
      BY <1>7
    <3>2. PICK k \in 1..m : at[k] = j
      BY <1>12
    <3>3. QED
      BY <1>13, <3>1, <3>2
  <2>2. QED
    BY <2>1
<1>18. InOrder(f)
  BY <1>8, <1>14, <1>15, <1>16, <1>17 DEF InOrder, m
<1>19. QED
  BY <1>18

(* As many rows come before the k-th as there are places before it. *)
LEMMA RanksArePlaces ==
  ASSUME Answerable, NEW f, InOrder(f), Len(sorted) \in Nat, NEW k \in 1..Len(sorted)
  PROVE  /\ f[k] \in SQLRows /\ Ranks(SQLRows)[f[k]] = k - 1
         /\ \A j \in 1..Len(sorted) : j # k => f[j] # f[k]
<1> DEFINE m == Len(sorted)
           before == {q \in SQLRows : SQLFirst(q, f[k])}
<1>1. /\ f \in [1..m -> SQLRows]
      /\ \A i, j \in 1..m : i < j => SQLFirst(f[i], f[j])
      /\ \A p \in SQLRows : \E j \in 1..m : f[j] = p
  BY DEF InOrder
<1>2. SQLRows \subseteq DOMAIN table.rows
  BY DEF SQLRows
<1>3. /\ \A p, q \in SQLRows : p # q => (SQLFirst(p, q) <=> ~SQLFirst(q, p))
      /\ \A p \in SQLRows : ~SQLFirst(p, p)
  BY <1>2, FirstIsAnOrder DEF Answerable
<1>4. \A i, j \in 1..m : i < j => f[i] # f[j]
  BY <1>1, <1>3
<1>5. \A j \in 1..m : j # k => f[j] # f[k]
  <2>1. ASSUME NEW j \in 1..m, j # k PROVE f[j] # f[k]
    <3>1. j < k \/ k < j
      BY <2>1
    <3>2. QED
      BY <1>4, <3>1
  <2>2. QED
    BY <2>1
<1>6. \A j \in 1..m : j < k <=> f[j] \in before
  <2>1. ASSUME NEW j \in 1..m PROVE j < k <=> f[j] \in before
    <3>1. f[j] \in SQLRows /\ f[k] \in SQLRows
      BY <1>1
    <3>2. CASE j < k
      BY <1>1, <3>1, <3>2
    <3>3. CASE j = k
      BY <1>3, <3>1, <3>3
    <3>4. CASE k < j
      <4>1. SQLFirst(f[k], f[j]) /\ f[j] # f[k]
        BY <1>1, <1>4, <3>4
      <4>2. QED
        BY <1>3, <3>1, <3>4, <4>1
    <3>5. QED
      BY <3>2, <3>3, <3>4
  <2>2. QED
    BY <2>1
<1>7. before \subseteq SQLRows
  OBVIOUS
<1> DEFINE g == [j \in 1..k - 1 |-> f[j]]
<1>8. \A j \in 1..k - 1 : j \in 1..m /\ j < k /\ g[j] = f[j]
  OBVIOUS
<1> HIDE DEF before, m
<1>9. g \in [1..k - 1 -> before]
  BY <1>6, <1>8
<1>10. \A x \in before : \E j \in 1..k - 1 : g[j] = x
  <2>1. ASSUME NEW x \in before PROVE \E j \in 1..k - 1 : g[j] = x
    <3>1. PICK j \in 1..m : f[j] = x
      BY <1>1, <1>7
    <3>2. j < k /\ j \in 1..k - 1
      BY <1>6, <3>1 DEF m
    <3>3. QED
      BY <1>8, <3>1, <3>2
  <2>2. QED
    BY <2>1
<1>11. \A i, j \in 1..k - 1 : i < j => g[i] # g[j]
  BY <1>4, <1>8
<1> HIDE DEF g
<1>12. k - 1 \in Nat
  OBVIOUS
<1>13. Cardinality(before) = k - 1
  BY <1>9, <1>10, <1>11, <1>12, ListedOnce
<1>14. f[k] \in SQLRows
  BY <1>1 DEF m
<1>15. Ranks(SQLRows)[f[k]] = Cardinality(before)
  BY <1>14 DEF Ranks, before
<1>16. QED
  BY <1>5, <1>13, <1>14, <1>15 DEF m

(* Where LIMIT cuts off, in the whole of what is sorted. *)
LEMMA LimitIsSQLs ==
  ASSUME Half \in Nat, NEW m \in Nat, m < Half, NEW limit, LimitType(limit),
         limit # None => limit.offset < Half
  PROVE  LET from == IF limit = None THEN 0 ELSE limit.offset
             size == Through(limit, IF from <= m THEN m - from ELSE 0)
         IN /\ from = LimitFrom(limit) /\ from \in Nat /\ size \in Nat
            /\ from + size <= m \/ size = 0
            /\ \A k \in 1..m :
                 k \in from + 1..from + size <=>
                   k - 1 >= from /\ (limit # None => k - 1 < from + limit.count)
<1>1. CASE limit = None
  BY <1>1 DEF LimitFrom, Through
<1>2. CASE limit # None
  <2> DEFINE offset == limit.offset
             count == limit.count
             n == literalInt(count)
  <2>1. offset \in 0..2 * Half - 1 /\ count \in 0..2 * Half - 1 /\ offset < Half
    BY <1>2 DEF LimitType
  <2> DEFINE rest == IF offset <= m THEN m - offset ELSE 0
  <2>2. /\ LimitFrom(limit) = IF literalInt(offset) >= 0 THEN literalInt(offset) ELSE 0
        /\ Through(limit, rest) = IF n < 0 THEN rest ELSE IF n <= rest THEN n ELSE rest
    BY <1>2 DEF LimitFrom, Through
  <2> HIDE DEF offset, count
  <2>3. literalInt(offset) = offset /\ offset \in Nat
    BY <2>1 DEF literalInt
  <2>4. LimitFrom(limit) = offset
    BY <2>2, <2>3
  <2>5. n = (IF count >= Half THEN count - 2 * Half ELSE count)
    BY DEF literalInt
  <2>6. rest \in Nat /\ (offset + rest <= m \/ rest = 0) /\ rest <= m
    BY <2>3
  <2> HIDE DEF n
  <2>7. CASE count >= Half
    <3>1. n < 0 /\ count \in Int
      BY <2>1, <2>5, <2>7
    <3>2. Through(limit, rest) = rest
      BY <2>2, <3>1
    <3>3. \A k \in 1..m : k \in offset + 1..offset + rest <=> k - 1 >= offset /\ k - 1 < offset + count
      BY <2>3, <2>7, <3>1
    <3>4. QED
      BY <1>2, <2>3, <2>4, <2>6, <3>2, <3>3 DEF offset, count
  <2>8. CASE ~(count >= Half)
    <3>1. n = count /\ count \in Nat
      BY <2>1, <2>5, <2>8
    <3>2. Through(limit, rest) = IF count <= rest THEN count ELSE rest
      BY <2>2, <3>1
    <3>3. LET size == IF count <= rest THEN count ELSE rest
          IN /\ size \in Nat /\ (offset + size <= m \/ size = 0)
             /\ \A k \in 1..m : k \in offset + 1..offset + size <=> k - 1 >= offset /\ k - 1 < offset + count
      BY <2>3, <2>6, <3>1
    <3>4. QED
      BY <1>2, <2>3, <2>4, <3>2, <3>3 DEF offset, count
  <2>9. QED
    BY <2>7, <2>8
<1>3. QED
  BY <1>1, <1>2

(* select_handler.go:105-107: the page of a SELECT without AND, and with    *)
(* NOT of comparisons at most, is SQL's, rows that tie staying in place: the *)
(* less function orders the rows, as sort.SliceStable requires of it.       *)
THEOREM PagesAreSQLs == Spec => []PageIsSQLs
<1>1. SelectInv => PageIsSQLs
  <2> DEFINE from == IF stmt.limit = None THEN 0 ELSE stmt.limit.offset
  <2> SUFFICES ASSUME SelectInv, phase = "project", Plain,
                      stmt.where = None \/ Exact(stmt.where), ByColumns,
                      stmt.limit # None => stmt.limit.offset < Half
               PROVE  IsPage(Ranks(SQLRows), from)
    BY DEF PageIsSQLs, ByColumns
  <2>1. /\ table \in Tables /\ stmt \in Statements
        /\ kept = Filter(table.rows, Keep)
        /\ sorted \in SliceStable(kept, Less(kept))
        /\ page = applyLimit(sorted, stmt.limit)
        /\ sorted \in Seq(ToSet(table.rows))
    BY DEF SelectInv, RowsKept, RowsSorted, RowsLimited, RowsAreTables
  <2>2. Answerable
    BY <2>1 DEF Answerable
  <2>3. PICK f : InOrder(f)
    BY <2>1, <2>2, SortedRowsAreSQLs
  <2> DEFINE m == Len(sorted)
             rank == Ranks(SQLRows)
             size == Through(stmt.limit, IF from <= m THEN m - from ELSE 0)
             onPage == {p \in DOMAIN rank :
                          /\ rank[p] >= from
                          /\ stmt.limit # None => rank[p] < from + stmt.limit.count}
  <2>4. /\ f \in [1..m -> SQLRows] /\ \A k \in 1..m : sorted[k] = table.rows[f[k]]
        /\ \A p \in SQLRows : \E k \in 1..m : f[k] = p
    BY <2>3 DEF InOrder
  <2>5. \A k \in 1..m : /\ f[k] \in SQLRows /\ rank[f[k]] = k - 1
                        /\ \A j \in 1..m : j # k => f[j] # f[k]
    BY <2>1, <2>2, <2>3, RanksArePlaces
  <2>6. m \in Nat /\ Half \in Nat /\ m < Half
    <3>1. m \in Nat
      BY <2>1
    <3>2. \A j, k \in 1..m : j < k => f[j] # f[k]
      <4>1. ASSUME NEW j \in 1..m, NEW k \in 1..m, j < k PROVE f[j] # f[k]
        BY <2>5, <4>1
      <4>2. QED
        BY <4>1
    <3> HIDE DEF m
    <3>3. Cardinality(SQLRows) = m
      BY <2>4, <3>1, <3>2, ListedOnce
    <3>4. /\ DOMAIN table.rows = 1..Len(table.rows) /\ Len(table.rows) \in Nat
          /\ Len(table.rows) < Half
      BY <2>1, TheTable
    <3>5. SQLRows \subseteq 1..Len(table.rows)
      BY <3>4 DEF SQLRows
    <3>6. IsFiniteSet(1..Len(table.rows)) /\ Cardinality(1..Len(table.rows)) = Len(table.rows)
      BY <3>4, FS_Interval
    <3>7. Cardinality(SQLRows) <= Len(table.rows)
      BY <3>5, <3>6, FS_Subset
    <3>8. Half \in Nat
      BY StatementsAssumption
    <3>9. QED
      BY <3>1, <3>3, <3>4, <3>7, <3>8
  <2>7. LimitType(stmt.limit)
    BY <2>1, TheStatement
  <2>8. /\ Len(page) = size /\ \A k \in 1..size : page[k] = sorted[from + k]
        /\ from \in Nat /\ size \in Nat /\ (from + size <= m \/ size = 0)
    <3>1. /\ Len(page) = Through(stmt.limit, IF LimitFrom(stmt.limit) <= Len(sorted)
                                               THEN Len(sorted) - LimitFrom(stmt.limit) ELSE 0)
          /\ \A k \in 1..Len(page) : page[k] = sorted[LimitFrom(stmt.limit) + k]
      <4> DEFINE rest == IF LimitFrom(stmt.limit) <= Len(sorted)
                           THEN Len(sorted) - LimitFrom(stmt.limit) ELSE 0
      <4>1. /\ Len(applyLimit(sorted, stmt.limit)) = Through(stmt.limit, rest)
            /\ \A k \in 1..Len(applyLimit(sorted, stmt.limit)) :
                 applyLimit(sorted, stmt.limit)[k] = sorted[LimitFrom(stmt.limit) + k]
        BY <2>1, <2>7, LimitIs
      <4>2. QED
        BY <2>1, <4>1
    <3>2. from = LimitFrom(stmt.limit) /\ from \in Nat /\ size \in Nat /\ (from + size <= m \/ size = 0)
      BY <2>6, <2>7, LimitIsSQLs
    <3>3. QED
      BY <3>1, <3>2
  <2>9. \A k \in 1..m : k \in from + 1..from + size <=>
                         k - 1 >= from /\ (stmt.limit # None => k - 1 < from + stmt.limit.count)
    BY <2>6, <2>7, LimitIsSQLs
  <2>10. DOMAIN rank = SQLRows
    BY DEF Ranks
  <2> HIDE DEF m, rank, size, from
  <2>11. \A k \in 1..m : f[k] \in onPage <=> k \in from + 1..from + size
    BY <2>5, <2>9, <2>10
  <2>12. onPage \subseteq SQLRows
    BY <2>10
  <2>13. \A p \in onPage : /\ rank[p] - from + 1 \in 1..size
                             /\ page[rank[p] - from + 1] = table.rows[p]
    <3>1. ASSUME NEW p \in onPage
          PROVE  rank[p] - from + 1 \in 1..size /\ page[rank[p] - from + 1] = table.rows[p]
      <4>1. PICK k \in 1..m : f[k] = p
        BY <2>4, <2>12
      <4>2. k \in from + 1..from + size /\ rank[p] = k - 1
        BY <2>5, <2>11, <3>1, <4>1
      <4>3. k - from \in 1..size /\ (k - 1) - from + 1 = k - from /\ from + (k - from) = k
        BY <2>8, <4>2
      <4>4. page[k - from] = sorted[k]
        BY <2>8, <4>3
      <4>5. sorted[k] = table.rows[p]
        BY <2>4, <4>1
      <4>6. QED
        BY <4>2, <4>3, <4>4, <4>5
    <3>2. QED
      BY <3>1
  <2>14. Cardinality(onPage) = size
    <3> DEFINE g == [i \in 1..size |-> f[from + i]]
    <3>1. \A i \in 1..size : from + i \in 1..m /\ from + i \in from + 1..from + size /\ g[i] = f[from + i]
      BY <2>6, <2>8
    <3> HIDE DEF g, onPage
    <3>2. g \in [1..size -> onPage]
      <4>1. \A i \in 1..size : g[i] \in onPage
        BY <2>11, <3>1
      <4>2. QED
        BY <4>1 DEF g
    <3>3. \A x \in onPage : \E i \in 1..size : g[i] = x
      <4>1. ASSUME NEW x \in onPage PROVE \E i \in 1..size : g[i] = x
        <5>1. PICK k \in 1..m : f[k] = x
          BY <2>4, <2>12
        <5>2. k \in from + 1..from + size
          BY <2>11, <5>1
        <5>3. k - from \in 1..size /\ from + (k - from) = k
          BY <2>8, <5>2
        <5>4. g[k - from] = x
          BY <3>1, <5>1, <5>3
        <5>5. QED
          BY <5>3, <5>4
      <4>2. QED
        BY <4>1
    <3>4. \A i, j \in 1..size : i < j => g[i] # g[j]
      <4>1. ASSUME NEW i \in 1..size, NEW j \in 1..size, i < j PROVE g[i] # g[j]
        <5>1. from + i \in 1..m /\ from + j \in 1..m /\ from + i # from + j
          <6>1. i \in Int /\ j \in Int /\ from \in Int
            BY <2>8
          <6>2. from + i # from + j
            BY <4>1, <6>1
          <6>3. QED
            BY <3>1, <6>2
        <5>2. f[from + i] # f[from + j]
          BY <2>5, <5>1
        <5>3. QED
          BY <3>1, <5>2
      <4>2. QED
        BY <4>1
    <3>5. size \in Nat
      BY <2>8
    <3>6. QED
      BY <3>2, <3>3, <3>4, <3>5, ListedOnce
  <2>15. IsPage(rank, from)
    BY <2>8, <2>13, <2>14 DEF IsPage
  <2>16. QED
    BY <2>15 DEF rank, from
<1>2. QED
  BY <1>1, SelectInvariant, PTL
=============================================================================
