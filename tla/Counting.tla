------------------------------ MODULE Counting ------------------------------
(***************************************************************************)
(* Induction as the proofs of this project use it: over a set of numbers,   *)
(* and over the subsets of a finite set, with what follows for lists, loops *)
(* and the largest elements of a finite set.                                *)
(***************************************************************************)
EXTENDS Integers, FiniteSets, FiniteSetTheorems, WellFoundedInduction, TLAPS

(* Every nonempty set of natural numbers has a least element. *)
LEMMA LeastNumber ==
  ASSUME NEW T \in SUBSET Nat, T # {}
  PROVE  \E n \in T : \A m \in T : n <= m
<1> DEFINE R == OpToRel(<, Nat)
<1>1. IsWellFoundedOn(R, Nat)
  BY NatLessThanWellFounded
<1>2. \A m, n \in Nat : m < n => <<m, n>> \in R
  <2>1. ASSUME NEW m \in Nat, NEW n \in Nat, m < n PROVE <<m, n>> \in R
    <3>1. <<m, n>> \in Nat \X Nat /\ <<m, n>>[1] = m /\ <<m, n>>[2] = n
      OBVIOUS
    <3>2. <<m, n>>[1] < <<m, n>>[2]
      BY <2>1, <3>1
    <3>3. QED
      BY <3>1, <3>2, Zenon DEF OpToRel
  <2>2. QED
    BY <2>1
<1> HIDE DEF R
<1>3. PICK n \in T : \A m \in T : ~(<<m, n>> \in R)
  BY <1>1, WFMin
<1>4. ASSUME NEW m \in T PROVE n <= m
  <2>1. m \in Nat /\ n \in Nat
    OBVIOUS
  <2>2. ~(m < n)
    BY <1>2, <1>3, <2>1
  <2>3. QED
    BY <2>1, <2>2
<1>5. QED
  BY <1>4

(* A set with 0 and the successor of each of its numbers is all of Nat.     *)
LEMMA Counted ==
  ASSUME NEW T \in SUBSET Nat, 0 \in T, \A n \in T : n + 1 \in T
  PROVE  T = Nat
<1>1. SUFFICES ASSUME Nat \ T # {} PROVE FALSE
  OBVIOUS
<1>2. PICK n \in Nat \ T : \A m \in Nat \ T : n <= m
  BY <1>1, LeastNumber
<1>3. n # 0 /\ n - 1 \in Nat /\ n - 1 \in T
  BY <1>2
<1>4. QED
  BY <1>2, <1>3

(* What holds of the empty set, and of every set when it holds of that set  *)
(* without one of its elements, holds of every subset of a finite set.      *)
LEMMA Peeled ==
  ASSUME NEW S, IsFiniteSet(S), NEW F, {} \in F,
         \A A \in SUBSET S : A # {} => \E x \in A : A \ {x} \in F => A \in F
  PROVE  SUBSET S \subseteq F
<1> DEFINE T == {n \in Nat : \A A \in SUBSET S : Cardinality(A) = n => A \in F}
<1>1. 0 \in T
  BY FS_Subset, FS_EmptySet
<1>2. ASSUME NEW n \in T PROVE n + 1 \in T
  <2>1. ASSUME NEW A \in SUBSET S, Cardinality(A) = n + 1 PROVE A \in F
    <3>1. IsFiniteSet(A) /\ A # {}
      BY <2>1, FS_Subset, FS_EmptySet
    <3>2. PICK x \in A : A \ {x} \in F => A \in F
      BY <3>1
    <3>3. Cardinality(A \ {x}) = n
      <4>1. Cardinality(A \ {x}) = Cardinality(A) - 1
        BY <3>1, FS_RemoveElement
      <4>2. n \in Nat
        OBVIOUS
      <4>3. QED
        BY <2>1, <4>1, <4>2
    <3>4. QED
      BY <3>2, <3>3
  <2>2. QED
    BY <2>1
<1>3. T = Nat
  <2> HIDE DEF T
  <2>1. T \in SUBSET Nat
    BY DEF T
  <2>2. QED
    BY <1>1, <1>2, <2>1, Counted
<1>4. QED
  BY <1>3, FS_Subset, FS_CardinalityType

(* Among finitely many things there is one of the largest weight. *)
LEMMA OneIsHeaviest ==
  ASSUME NEW S, IsFiniteSet(S), S # {}, NEW w \in [S -> Int]
  PROVE  \E x \in S : \A y \in S : w[x] >= w[y]
<1> DEFINE F == {A \in SUBSET S : A # {} => \E x \in A : \A y \in A : w[x] >= w[y]}
<1>1. {} \in F
  OBVIOUS
<1>2. ASSUME NEW A \in SUBSET S, A # {}
      PROVE  \E x \in A : A \ {x} \in F => A \in F
  <2>1. PICK x \in A : TRUE
    BY <1>2
  <2>2. ASSUME A \ {x} \in F PROVE A \in F
    <3>1. CASE A = {x}
      BY <3>1
    <3>2. CASE A # {x}
      <4>1. PICK z \in A \ {x} : \A y \in A \ {x} : w[z] >= w[y]
        BY <2>2, <3>2
      <4>2. \A y \in A : w[y] \in Int
        OBVIOUS
      <4>3. CASE w[x] >= w[z]
        <5>1. \A y \in A : w[x] >= w[y]
          BY <4>1, <4>2, <4>3
        <5>2. QED
          BY <5>1
      <4>4. CASE ~(w[x] >= w[z])
        <5>1. \A y \in A : w[z] >= w[y]
          BY <4>1, <4>2, <4>4
        <5>2. QED
          BY <5>1, <4>1
      <4>5. QED
        BY <4>3, <4>4
    <3>3. QED
      BY <3>1, <3>2
  <2>3. QED
    BY <2>2
<1>3. SUBSET S \subseteq F
  <2> HIDE DEF F
  <2>1. QED
    BY <1>1, <1>2, Peeled
<1>4. QED
  BY <1>3

(* There is a set of the k heaviest. *)
LEMMA TopExists ==
  ASSUME NEW S, IsFiniteSet(S), NEW w \in [S -> Int],
         NEW k \in Nat, k <= Cardinality(S)
  PROVE  \E top \in SUBSET S :
           /\ Cardinality(top) = k
           /\ \A x \in top, y \in S \ top : w[x] >= w[y]
<1> DEFINE Top(m) == \E top \in SUBSET S :
                       /\ Cardinality(top) = m
                       /\ \A x \in top, y \in S \ top : w[x] >= w[y]
           T == {m \in Nat : m <= Cardinality(S) => Top(m)}
<1>1. 0 \in T
  BY FS_EmptySet
<1>2. ASSUME NEW m \in T PROVE m + 1 \in T
  <2>1. SUFFICES ASSUME m + 1 <= Cardinality(S) PROVE Top(m + 1)
    OBVIOUS
  <2>2. m \in Nat /\ Cardinality(S) \in Nat
    BY FS_CardinalityType
  <2>3. PICK top \in SUBSET S : /\ Cardinality(top) = m
                                /\ \A x \in top, y \in S \ top : w[x] >= w[y]
    BY <2>1, <2>2
  <2>4. S \ top # {} /\ IsFiniteSet(S \ top) /\ IsFiniteSet(top)
    BY <2>1, <2>2, <2>3, FS_Subset
  <2>5. PICK z \in S \ top : \A y \in S \ top : w[z] >= w[y]
    <3>1. PICK v \in [S \ top -> Int] : \A y \in S \ top : v[y] = w[y]
      <4>1. [y \in S \ top |-> w[y]] \in [S \ top -> Int]
        OBVIOUS
      <4>2. QED
        BY <4>1
    <3>2. QED
      BY <2>4, <3>1, OneIsHeaviest
  <2>6. Cardinality(top \cup {z}) = m + 1
    BY <2>3, <2>4, FS_AddElement
  <2>7. \A x \in top \cup {z}, y \in S \ (top \cup {z}) : w[x] >= w[y]
    BY <2>3, <2>5
  <2>8. QED
    BY <2>6, <2>7
<1>3. T = Nat
  <2>1. T \in SUBSET Nat
    OBVIOUS
  <2> HIDE DEF T
  <2>2. QED
    BY <1>1, <1>2, <2>1, Counted
<1>4. QED
  BY <1>3

(* A loop over 1..n is a function of the number of rounds it has made. *)
Loops(f, start, n, round) ==
    f[0] = start /\ \A i \in 1..n : f[i] = round[<<f[i - 1], i>>]

LEMMA LoopExists ==
  ASSUME NEW D, NEW start \in D, NEW n \in Nat, NEW round \in [D \X (1..n) -> D]
  PROVE  \E f \in [0..n -> D] : Loops(f, start, n, round)
<1> DEFINE Rounds(m, f) == Loops(f, start, m, round)
           T == {m \in Nat : m <= n => \E f \in [0..m -> D] : Rounds(m, f)}
<1>1. 0 \in T
  <2>1. [i \in 0..0 |-> start] \in [0..0 -> D]
    OBVIOUS
  <2>2. Rounds(0, [i \in 0..0 |-> start])
    BY DEF Loops
  <2>3. QED
    BY <2>1, <2>2
<1>2. ASSUME NEW m \in T PROVE m + 1 \in T
  <2>1. SUFFICES ASSUME m + 1 <= n PROVE \E f \in [0..m + 1 -> D] : Rounds(m + 1, f)
    OBVIOUS
  <2>2. m \in Nat
    OBVIOUS
  <2>3. PICK f \in [0..m -> D] : Rounds(m, f)
    BY <2>1, <2>2
  <2> DEFINE g == [i \in 0..m + 1 |-> IF i <= m THEN f[i] ELSE round[<<f[m], m + 1>>]]
  <2>4. f[m] \in D /\ m + 1 \in 1..n
    BY <2>1, <2>2
  <2>5. round[<<f[m], m + 1>>] \in D
    BY <2>4
  <2>6. g \in [0..m + 1 -> D]
    BY <2>2, <2>5
  <2>7. g[0] = start
    BY <2>2, <2>3 DEF Loops
  <2>8. ASSUME NEW i \in 1..m + 1 PROVE g[i] = round[<<g[i - 1], i>>]
    <3>1. CASE i <= m
      <4>1. i \in 1..m /\ i - 1 \in 0..m /\ i \in 0..m
        BY <3>1, <2>2
      <4>2. g[i] = f[i] /\ g[i - 1] = f[i - 1]
        BY <4>1, <2>2
      <4>3. QED
        BY <2>3, <4>1, <4>2 DEF Loops
    <3>2. CASE i = m + 1
      <4>1. g[i] = round[<<f[m], m + 1>>] /\ g[i - 1] = f[m]
        BY <3>2, <2>2
      <4>2. QED
        BY <3>2, <4>1
    <3>3. QED
      BY <2>2, <3>1, <3>2
  <2>9. QED
    <3> HIDE DEF g
    <3>1. Rounds(m + 1, g)
      BY <2>7, <2>8 DEF Loops
    <3>2. QED
      BY <2>6, <3>1
<1>3. T = Nat
  <2>1. T \in SUBSET Nat
    OBVIOUS
  <2> HIDE DEF T
  <2>2. QED
    BY <1>1, <1>2, <2>1, Counted
<1>4. n \in T
  BY <1>3
<1>5. QED
  BY <1>4

(* A finite set can be listed with the greatest weights first. *)
LEMMA ListingExists ==
  ASSUME NEW S, IsFiniteSet(S), NEW w \in [S -> Int]
  PROVE  \E q \in [1..Cardinality(S) -> S] :
           /\ \A x \in S : \E i \in 1..Cardinality(S) : q[i] = x
           /\ \A i, j \in 1..Cardinality(S) : i < j => q[i] # q[j] /\ w[q[i]] >= w[q[j]]
<1> DEFINE Lists(q, A) == /\ \A x \in A : \E i \in 1..Cardinality(A) : q[i] = x
                          /\ \A i, j \in 1..Cardinality(A) :
                               i < j => q[i] # q[j] /\ w[q[i]] >= w[q[j]]
           F == {A \in SUBSET S : \E q \in [1..Cardinality(A) -> A] : Lists(q, A)}
<1>1. {} \in F
  <2>1. Cardinality({}) = 0 /\ 1..0 = {}
    BY FS_EmptySet
  <2>2. [i \in {} |-> i] \in [{} -> {}]
    OBVIOUS
  <2>3. QED
    BY <2>1, <2>2
<1>2. ASSUME NEW A \in SUBSET S, A # {}
      PROVE  \E x \in A : A \ {x} \in F => A \in F
  <2>1. IsFiniteSet(A)
    BY FS_Subset
  <2>2. PICK z \in A : \A y \in A : w[z] <= w[y]
    <3>1. PICK v \in [A -> Int] : \A y \in A : v[y] = -w[y]
      <4>1. [y \in A |-> -w[y]] \in [A -> Int]
        OBVIOUS
      <4>2. QED
        BY <4>1
    <3>2. PICK z \in A : \A y \in A : v[z] >= v[y]
      BY <1>2, <2>1, OneIsHeaviest
    <3>3. \A y \in A : w[y] \in Int
      OBVIOUS
    <3>4. QED
      BY <3>1, <3>2, <3>3
  <2>3. ASSUME A \ {z} \in F PROVE A \in F
    <3> DEFINE n == Cardinality(A \ {z})
    <3>1. n \in Nat /\ Cardinality(A) = n + 1
      <4>1. IsFiniteSet(A \ {z}) /\ n = Cardinality(A) - 1 /\ Cardinality(A) \in Nat
        BY <2>1, FS_RemoveElement, FS_CardinalityType
      <4>2. n \in Nat
        BY <4>1, FS_CardinalityType
      <4>3. QED
        BY <4>1, <4>2
    <3>2. PICK q \in [1..n -> A \ {z}] : Lists(q, A \ {z})
      BY <2>3
    <3> DEFINE r == [i \in 1..n + 1 |-> IF i = n + 1 THEN z ELSE q[i]]
    <3> HIDE DEF n
    <3>3. /\ r[n + 1] = z
          /\ \A i \in 1..n : i \in 1..n + 1 /\ r[i] = q[i] /\ q[i] \in A \ {z}
      BY <3>1
    <3>4. r \in [1..n + 1 -> A]
      BY <3>1
    <3> HIDE DEF r
    <3>5. ASSUME NEW x \in A PROVE \E i \in 1..n + 1 : r[i] = x
      <4>1. CASE x = z
        BY <3>1, <3>3, <4>1
      <4>2. CASE x # z
        <5>1. PICK i \in 1..n : q[i] = x
          BY <3>2, <4>2 DEF n
        <5>2. QED
          BY <3>3, <5>1
      <4>3. QED
        BY <4>1, <4>2
    <3>6. ASSUME NEW i \in 1..n + 1, NEW j \in 1..n + 1, i < j
          PROVE  r[i] # r[j] /\ w[r[i]] >= w[r[j]]
      <4>1. CASE j = n + 1
        BY <2>2, <3>1, <3>3, <3>6, <4>1
      <4>2. CASE j # n + 1
        <5>1. i \in 1..n /\ j \in 1..n
          BY <3>1, <3>6, <4>2
        <5>2. q[i] # q[j] /\ w[q[i]] >= w[q[j]]
          BY <3>2, <3>6, <5>1 DEF n
        <5>3. QED
          BY <3>3, <5>1, <5>2
      <4>3. QED
        BY <4>1, <4>2
    <3>7. QED
      BY <3>1, <3>4, <3>5, <3>6
  <2>4. QED
    BY <2>3
<1>3. SUBSET S \subseteq F
  <2> HIDE DEF F
  <2>1. QED
    BY <1>1, <1>2, Peeled
<1>4. S \in F
  BY <1>3
<1>5. QED
  BY <1>4
=============================================================================
