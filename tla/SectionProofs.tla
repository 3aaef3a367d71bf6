---------------------------- MODULE SectionProofs ----------------------------
(***************************************************************************)
(* Proofs about the sections of a report: what each says of the index, and  *)
(* of the other sections, for any log, window and size of the caps.         *)
(***************************************************************************)
EXTENDS ReportProofs, Counting

-----------------------------------------------------------------------------
(* Aggregations *)

LEMMA SizeType ==
  ASSUME NEW S, IsFiniteSet(S), NEW T \in SUBSET S
  PROVE  IsFiniteSet(T) /\ Cardinality(T) \in Nat
  BY FS_Subset, FS_CardinalityType

LEMMA RangeFinite ==
  ASSUME NEW S, IsFiniteSet(S), NEW V, NEW key \in [S -> V]
  PROVE  IsFiniteSet(Range(key)) /\ DOMAIN key = S
<1>1. key \in Surjection(S, Range(key))
  BY DEF Surjection, Range
<1>2. QED
  BY <1>1, FS_Surjection

(* A terms aggregation has the buckets its size allows, the largest first.  *)
LEMMA TopKeysAre ==
  ASSUME NEW S, IsFiniteSet(S), NEW V, NEW key \in [S -> V]
  PROVE  /\ TopKeys(key) \in SUBSET Range(key)
         /\ Cardinality(TopKeys(key)) = Smaller(AggSize, Cardinality(Range(key)))
         /\ \A k \in TopKeys(key), l \in Range(key) \ TopKeys(key) :
              Count(S, key, k) >= Count(S, key, l)
<1> DEFINE R == Range(key)
           n == Smaller(AggSize, Cardinality(R))
           w == [k \in R |-> Count(S, key, k)]
<1>1. IsFiniteSet(R) /\ DOMAIN key = S
  BY RangeFinite
<1>2. Cardinality(R) \in Nat /\ n \in Nat /\ n <= Cardinality(R)
  BY <1>1, FS_CardinalityType, SizesAssumption DEF Smaller
<1>3. w \in [R -> Int]
  <2>1. ASSUME NEW k \in R PROVE Count(S, key, k) \in Int
    BY SizeType DEF Count
  <2>2. QED
    BY <2>1
<1>4. \A k \in R : w[k] = Count(DOMAIN key, key, k)
  BY <1>1
<1> HIDE DEF R, n, w
<1>5. PICK top \in SUBSET R : /\ Cardinality(top) = n
                              /\ \A x \in top, y \in R \ top : w[x] >= w[y]
  BY <1>1, <1>2, <1>3, TopExists
<1>6. \A x \in top, y \in R \ top : Count(DOMAIN key, key, x) >= Count(DOMAIN key, key, y)
  BY <1>4, <1>5
<1>7. \E t \in SUBSET Range(key) :
        /\ Cardinality(t) = Smaller(AggSize, Cardinality(Range(key)))
        /\ \A k \in t, l \in Range(key) \ t :
             Count(DOMAIN key, key, k) >= Count(DOMAIN key, key, l)
  BY <1>5, <1>6 DEF R, n
<1>8. QED
  BY <1>1, <1>7 DEF TopKeys

(* Where there are lines there are buckets. *)
LEMMA SomeKey ==
  ASSUME NEW S, IsFiniteSet(S), S # {}, NEW V, NEW key \in [S -> V]
  PROVE  TopKeys(key) # {}
<1>1. Range(key) # {} /\ IsFiniteSet(Range(key))
  <2>1. \E x \in S : key[x] \in Range(key)
    BY DEF Range
  <2>2. QED
    BY <2>1, RangeFinite
<1>2. Cardinality(Range(key)) \in Nat /\ Cardinality(Range(key)) # 0
  BY <1>1, FS_EmptySet, FS_CardinalityType
<1>3. Cardinality(TopKeys(key)) # 0
  BY <1>2, TopKeysAre, SizesAssumption DEF Smaller
<1>4. QED
  BY <1>3, FS_EmptySet

-----------------------------------------------------------------------------
(* The index *)

(* Elasticsearch holds finitely many lines. *)
IndexInv == IsFiniteSet(index)

LEMMA IndexStep == IndexInv /\ [Next]_vars => IndexInv'
<1> SUFFICES ASSUME IndexInv, [Next]_vars PROVE IndexInv'
  OBVIOUS
<1>1. ASSUME NEW e \in Event, Ship(e) PROVE IndexInv'
  BY <1>1, FS_AddElement DEF Ship, IndexInv
<1>2. ASSUME index' = index PROVE IndexInv'
  BY <1>2 DEF IndexInv
<1>3. QED
  BY <1>1, <1>2 DEF Next, Step, Tick, Launch, Start, Ping, ClusterHealth, ResolveFields, Query,
     Skip, WriteStdout, Post, CallFails, Fail, vars, envVars

(* What the proofs below start from. *)
LEMMA SectionsInvariant == Spec => [](ReportTypeOK /\ SectionInv /\ IndexInv)
<1>1. Init => IndexInv
  BY FS_EmptySet DEF Init, IndexInv
<1>2. QED
  BY <1>1, IndexStep, TypeInit, TypeStep, SectionInit, SectionStep, PTL DEF Spec

(* What a printed report was made from. *)
LEMMA Printed ==
  ASSUME ReportTypeOK, SectionInv, IndexInv, stdout # None
  PROVE  \E at \in SUBSET index, seen \in [Section -> SUBSET index] :
           /\ base \subseteq at /\ fields = FieldsOf(at) /\ stdout = Report
           /\ \A s \in Section :
                /\ at \subseteq seen[s]
                /\ stdout.parts[s] = Answer(s, fields, seen[s], span)
                /\ IsFiniteSet(seen[s]) /\ IsFiniteSet(InWindow(seen[s], span))
           /\ seen["sessions"] \subseteq seen["commands"]
           /\ seen["queries"] \subseteq seen["commands"]
<1>1. pc \in {"post", "done", "failed"} /\ stdout = Report
  BY DEF SectionInv
<1>2. PICK at \in SUBSET index, seen \in [Section -> SUBSET index] : Told(at, seen)
  BY DEF SectionInv
<1>3. Before(pc) = Section
  BY <1>1 DEF Before
<1>4. stdout.parts = rep
  BY <1>1 DEF Report
<1>5. ASSUME NEW s \in Section PROVE IsFiniteSet(seen[s]) /\ IsFiniteSet(InWindow(seen[s], span))
  BY SizeType DEF IndexInv, InWindow
<1>6. seen["sessions"] \subseteq seen["commands"] /\ seen["queries"] \subseteq seen["commands"]
  BY <1>2, <1>3 DEF Told, Before, Section
<1>7. QED
  BY <1>1, <1>2, <1>3, <1>4, <1>5, <1>6 DEF Told

(* Lines have the fields they were resolved from. *)
LEMMA FieldsPresent ==
  ASSUME NEW docs, NEW e \in docs
  PROVE  FieldsOfLine(e) \subseteq FieldsOf(docs)
  BY DEF FieldsOf

-----------------------------------------------------------------------------
(* Nothing *)

LEMMA NothingFollows ==
  ASSUME ReportTypeOK, SectionInv, IndexInv
  PROVE  NothingMeansNothing
<1> SUFFICES ASSUME stdout # None
             PROVE LET p == stdout.parts
      IN /\ Note(p["users"]) = "nothing" => Seen({"auth_success", "auth_failure"}) = {}
         /\ Note(p["ips"]) = "nothing" => About(InWindow(base, span)) = {}
         /\ Note(p["queries"]) = "nothing" =>
               \A e \in Seen({"query"}) : Log[e].sql \in LongSQL
         /\ p["commands"].total = 0 => Seen({"query"}) = {}
  BY DEF NothingMeansNothing
<1> DEFINE p == stdout.parts
<1>1. PICK at \in SUBSET index, seen \in [Section -> SUBSET index] :
           /\ base \subseteq at /\ fields = FieldsOf(at)
           /\ \A s \in Section :
                /\ at \subseteq seen[s]
                /\ p[s] = Answer(s, fields, seen[s], span)
                /\ IsFiniteSet(InWindow(seen[s], span))
  BY Printed
<1> DEFINE docs(s) == InWindow(seen[s], span)
<1>2. ASSUME NEW s \in Section, NEW e \in InWindow(base, span), Needs(s) \subseteq FieldsOfLine(e)
      PROVE  e \in docs(s) /\ p[s] = Asked(s, docs(s)) /\ IsFiniteSet(docs(s))
  <2>1. e \in at /\ e \in seen[s]
    BY <1>1 DEF InWindow
  <2>2. Needs(s) \subseteq fields
    BY <1>1, <1>2, <2>1, FieldsPresent
  <2>3. QED
    BY <1>1, <2>1, <2>2 DEF Answer, InWindow
<1> HIDE DEF docs, p
<1>3. ASSUME NEW e \in Seen({"auth_success", "auth_failure"}) PROVE Note(p["users"]) # "nothing"
  <2> DEFINE tries == About(Saying(docs("users"), {"auth_success", "auth_failure"}))
             user == [d \in tries |-> User(d)]
  <2>1. e \in InWindow(base, span) /\ HasClient(e) /\ Log[e].msg \in {"auth_success", "auth_failure"}
    BY DEF Seen
  <2>2. e \in docs("users") /\ p["users"] = UsersTried(docs("users")) /\ IsFiniteSet(docs("users"))
    BY <1>2, <2>1 DEF Needs, FieldsOfLine, Asked, Section
  <2>3. e \in tries /\ IsFiniteSet(tries)
    BY <2>1, <2>2, SizeType DEF About, Saying
  <2>4. user \in [tries -> {User(d) : d \in tries}]
    OBVIOUS
  <2>5. TopKeys(user) # {}
    <3> HIDE DEF tries, user
    <3>1. QED
      BY <2>3, <2>4, SomeKey
  <2>6. DOMAIN p["users"].rows = TopKeys(user)
    BY <2>2 DEF UsersTried, Listing
  <2>7. QED
    BY <2>5, <2>6 DEF Note
<1>4. ASSUME NEW e \in About(InWindow(base, span)) PROVE Note(p["ips"]) # "nothing"
  <2> DEFINE lines == About(docs("ips"))
             ip == [d \in lines |-> IP(d)]
  <2>1. e \in InWindow(base, span) /\ HasClient(e)
    BY DEF About
  <2>2. e \in docs("ips") /\ p["ips"] = SourceIPs(docs("ips")) /\ IsFiniteSet(docs("ips"))
    BY <1>2, <2>1 DEF Needs, FieldsOfLine, Asked, Section
  <2>3. e \in lines /\ IsFiniteSet(lines)
    BY <2>1, <2>2, SizeType DEF About
  <2>4. ip \in [lines -> {IP(d) : d \in lines}]
    OBVIOUS
  <2>5. TopKeys(ip) # {}
    <3> HIDE DEF lines, ip
    <3>1. QED
      BY <2>3, <2>4, SomeKey
  <2>6. DOMAIN p["ips"].rows = TopKeys(ip)
    BY <2>2 DEF SourceIPs, Listing
  <2>7. QED
    BY <2>5, <2>6 DEF Note
<1>5. ASSUME NEW e \in Seen({"query"}), Log[e].sql \notin LongSQL PROVE Note(p["queries"]) # "nothing"
  <2> DEFINE lines == {d \in Saying(docs("queries"), {"query"}) : Log[d].sql \notin LongSQL}
             sql == [d \in lines |-> Log[d].sql]
  <2>1. e \in InWindow(base, span) /\ Log[e].msg = "query"
    BY DEF Seen
  <2>2. e \in docs("queries") /\ p["queries"] = TopQueries(docs("queries"))
        /\ IsFiniteSet(docs("queries"))
    BY <1>2, <2>1 DEF Needs, FieldsOfLine, Asked, Section
  <2>3. e \in lines /\ IsFiniteSet(lines)
    BY <1>5, <2>1, <2>2, SizeType DEF Saying
  <2>4. sql \in [lines -> {Log[d].sql : d \in lines}]
    OBVIOUS
  <2>5. TopKeys(sql) # {}
    <3> HIDE DEF lines, sql
    <3>1. QED
      BY <2>3, <2>4, SomeKey
  <2>6. DOMAIN p["queries"].rows = TopKeys(sql)
    BY <2>2 DEF TopQueries, Listing
  <2>7. QED
    BY <2>5, <2>6 DEF Note
<1>6. ASSUME NEW e \in Seen({"query"}) PROVE p["commands"].total # 0
  <2> DEFINE hits == About(Saying(docs("commands"), {"query"}))
  <2>1. e \in InWindow(base, span) /\ HasClient(e) /\ Log[e].msg = "query"
    BY DEF Seen
  <2>2. e \in docs("commands") /\ p["commands"] = Commands(docs("commands"))
        /\ IsFiniteSet(docs("commands"))
    BY <1>2, <2>1 DEF Needs, FieldsOfLine, Asked, Section
  <2>3. e \in hits /\ IsFiniteSet(hits)
    BY <2>1, <2>2, SizeType DEF About, Saying
  <2>4. p["commands"].total = Cardinality(hits)
    BY <2>2 DEF Commands
  <2>5. QED
    BY <2>3, <2>4, FS_EmptySet
<1>7. QED
  BY <1>3, <1>4, <1>5, <1>6 DEF p

(* main.go:804-869: a section that says "No ... in this window" had nothing *)
(* to show when the run was started, whatever failed and whichever fields   *)
(* the index had.                                                           *)
THEOREM NothingIsSaidOfNothing == Spec => []NothingMeansNothing
  BY SectionsInvariant, NothingFollows, PTL
-----------------------------------------------------------------------------
(* Sums *)

LEMMA TotalOfParts ==
  ASSUME NEW S, IsFiniteSet(S), NEW rows, DOMAIN rows = S,
         NEW L, IsFiniteSet(L), NEW part \in [S -> SUBSET L],
         \A x, y \in S : x # y => part[x] \cap part[y] = {},
         \A x \in S : rows[x] = Cardinality(part[x])
  PROVE  Total(rows) = Cardinality(UNION {part[x] : x \in S})
<1> DEFINE Round(iter) == [A \in SUBSET S |->
                          IF A = {} THEN 0
                          ELSE rows[CHOOSE x \in A : TRUE] + iter[A \ {CHOOSE x \in A : TRUE}]]
           sum == CHOOSE iter : iter = Round(iter)
           pick == [A \in SUBSET S |-> CHOOSE x \in A : TRUE]
           size == [A \in SUBSET S |-> Cardinality(UNION {part[x] : x \in A})]
<1>1. Total(rows) = sum[S]
  BY DEF Total, MapThenSumSet, MapThenFoldSet
<1>2. ASSUME NEW A \in SUBSET S, A # {}
      PROVE  /\ pick[A] \in A
             /\ size[A] = rows[pick[A]] + size[A \ {pick[A]}]
  <2> DEFINE z == CHOOSE x \in A : TRUE
             All(B) == UNION {part[x] : x \in B}
  <2>1. pick[A] = z /\ z \in A
    BY <1>2
  <2> HIDE DEF z
  <2>2. All(A) = part[z] \cup All(A \ {z}) /\ part[z] \cap All(A \ {z}) = {}
    BY <2>1
  <2>3. part[z] \in SUBSET L /\ All(A \ {z}) \in SUBSET L
    BY <2>1
  <2> HIDE DEF All
  <2>4. /\ IsFiniteSet(part[z]) /\ IsFiniteSet(All(A \ {z}))
        /\ Cardinality(part[z]) \in Nat /\ Cardinality(All(A \ {z})) \in Nat
    BY <2>3, SizeType
  <2>5. Cardinality(All(A)) = Cardinality(part[z]) + Cardinality(All(A \ {z}))
    <3> DEFINE Z == part[z]
               B == All(A \ {z})
    <3>1. IsFiniteSet(Z) /\ IsFiniteSet(B) /\ Cardinality(Z) \in Nat /\ Cardinality(B) \in Nat
      BY <2>4
    <3>2. All(A) = Z \cup B /\ Z \cap B = {}
      BY <2>2
    <3> HIDE DEF Z, B
    <3>3. Cardinality(Z \cup B) = Cardinality(Z) + Cardinality(B) - Cardinality(Z \cap B)
      BY <3>1, FS_Union
    <3>4. Cardinality(Z \cap B) = 0
      BY <3>2, FS_EmptySet
    <3>5. Cardinality(All(A)) = Cardinality(Z) + Cardinality(B)
      BY <3>1, <3>2, <3>3, <3>4
    <3>6. QED
      BY <3>5 DEF Z, B
  <2>6. size[A] = Cardinality(All(A)) /\ size[A \ {z}] = Cardinality(All(A \ {z}))
    BY DEF All
  <2>7. rows[z] = Cardinality(part[z])
    BY <2>1
  <2>8. QED
    BY <2>1, <2>5, <2>6, <2>7
<1>3. size[{}] = 0
  <2>1. UNION {part[x] : x \in {}} = {}
    OBVIOUS
  <2>2. QED
    BY <2>1, FS_EmptySet
<1>4. size = Round(size)
  <2>1. ASSUME NEW A \in SUBSET S PROVE size[A] = Round(size)[A]
    <3>1. CASE A = {}
      BY <1>3, <3>1
    <3>2. CASE A # {}
      <4>1. pick[A] = CHOOSE x \in A : TRUE
        OBVIOUS
      <4>2. Round(size)[A] = rows[pick[A]] + size[A \ {pick[A]}]
        <5> HIDE DEF size
        <5>1. QED
          BY <3>2
      <4>3. QED
        BY <1>2, <3>2, <4>2
    <3>3. QED
      BY <3>1, <3>2
  <2> DEFINE other == Round(size)
  <2>2. DOMAIN size = SUBSET S /\ DOMAIN other = SUBSET S
    OBVIOUS
  <2>3. size = [A \in SUBSET S |-> size[A]] /\ other = [A \in SUBSET S |-> other[A]]
    OBVIOUS
  <2>4. \A A \in SUBSET S : size[A] = other[A]
    BY <2>1
  <2> HIDE DEF size, other
  <2>5. size = other
    BY <2>3, <2>4
  <2>6. QED
    BY <2>5 DEF other
<1>5. sum = Round(sum)
  <2> HIDE DEF size, Round
  <2>1. QED
    BY <1>4
<1>6. sum[{}] = 0
  <2> HIDE DEF sum
  <2>1. sum[{}] = Round(sum)[{}]
    BY <1>5
  <2>2. QED
    BY <2>1
<1>7. ASSUME NEW A \in SUBSET S, A # {} PROVE sum[A] = rows[pick[A]] + sum[A \ {pick[A]}]
  <2>1. pick[A] = CHOOSE x \in A : TRUE
    OBVIOUS
  <2> HIDE DEF sum
  <2>2. sum[A] = Round(sum)[A]
    BY <1>5
  <2>3. QED
    BY <1>7, <2>1, <2>2
<1> DEFINE F == {A \in SUBSET S : sum[A] = size[A]}
<1>8. {} \in F
  <2> HIDE DEF sum, size
  <2>1. QED
    BY <1>3, <1>6
<1>9. ASSUME NEW A \in SUBSET S, A # {}
      PROVE  \E x \in A : A \ {x} \in F => A \in F
  <2> DEFINE z == pick[A]
  <2>1. z \in A /\ size[A] = rows[z] + size[A \ {z}] /\ sum[A] = rows[z] + sum[A \ {z}]
    BY <1>2, <1>7, <1>9
  <2> HIDE DEF sum, size, z
  <2>2. A \ {z} \in F => A \in F
    BY <2>1
  <2>3. QED
    BY <2>1, <2>2
<1>10. SUBSET S \subseteq F
  <2> HIDE DEF F
  <2>1. IsFiniteSet(S)
    OBVIOUS
  <2>2. \A A \in SUBSET S : A # {} => \E x \in A : A \ {x} \in F => A \in F
    BY <1>9
  <2>3. QED
    BY ONLY <1>8, <2>1, <2>2, Peeled
<1>11. sum[S] = Cardinality(UNION {part[x] : x \in S})
  BY <1>10
<1>12. QED
  BY <1>1, <1>11

-----------------------------------------------------------------------------
(* Lists *)

(* A finite set is listed whole, nothing twice, the heaviest first. *)
LEMMA DescendingLists ==
  ASSUME NEW S, IsFiniteSet(S), NEW w \in [S -> Int]
  PROVE  /\ Cardinality(S) \in Nat
         /\ Descending(S, w) \in [1..Cardinality(S) -> S]
         /\ \A x \in S : \E i \in 1..Cardinality(S) : Descending(S, w)[i] = x
         /\ \A i, j \in 1..Cardinality(S) :
              i < j => /\ Descending(S, w)[i] # Descending(S, w)[j]
                       /\ w[Descending(S, w)[i]] >= w[Descending(S, w)[j]]
<1> DEFINE n == Cardinality(S)
           Good(q) == \A i, j \in 1..n : i < j => q[i] # q[j] /\ w[q[i]] >= w[q[j]]
           list == Descending(S, w)
<1>1. n \in Nat
  BY FS_CardinalityType
<1>2. \E q \in [1..n -> S] : Good(q)
  BY ListingExists
<1>3. list \in [1..n -> S] /\ Good(list)
  BY <1>2 DEF Descending
<1> HIDE DEF list
<1>4. list \in Injection(1..n, S)
  <2>1. ASSUME NEW i \in 1..n, NEW j \in 1..n, list[i] = list[j] PROVE i = j
    BY <1>1, <1>3, <2>1
  <2> HIDE DEF n
  <2>2. QED
    BY <1>3, <2>1 DEF Injection, IsInjective
<1>5. IsFiniteSet(1..n) /\ Cardinality(1..n) = n
  BY <1>1, FS_Interval
<1>6. list \in Surjection(1..n, S)
  BY <1>4, <1>5, FS_Injection
<1>7. \A x \in S : \E i \in 1..n : list[i] = x
  BY <1>6 DEF Surjection
<1>8. QED
  BY <1>1, <1>3, <1>7 DEF list

(* The lines the sessions section looks at, and the parts of them that a    *)
(* client has.                                                              *)
SessionLines(docs) == About(Saying(docs, {"auth_success", "query"}))
PartOf(docs, msg, f) == {e \in SessionLines(docs) : Log[e].msg = msg /\ Fp(e) = f}
Clients(docs) == [e \in SessionLines(docs) |-> Fp(e)]

LEMMA SessionRows ==
  ASSUME NEW docs, IsFiniteSet(docs)
  PROVE  LET rows == Sessions(docs).rows
             logins(f) == Cardinality(PartOf(docs, "auth_success", f))
             commands(f) == Cardinality(PartOf(docs, "query", f))
         IN /\ \E n \in Nat : DOMAIN rows = 1..n
            /\ \A i \in DOMAIN rows :
                 LET f == rows[i].fp
                 IN /\ rows[i].ips = {IP(e) : e \in {d \in SessionLines(docs) : Fp(d) = f}}
                    /\ rows[i].users = {User(e) : e \in {d \in SessionLines(docs) : Fp(d) = f}}
                    /\ rows[i].logins = logins(f) /\ rows[i].commands = commands(f)
                    /\ f \in TopKeys(Clients(docs)) /\ logins(f) > 0 /\ commands(f) > 0
            /\ \A i, j \in DOMAIN rows : i < j => rows[i].commands >= rows[j].commands
            /\ \A i, j \in DOMAIN rows : rows[i].fp = rows[j].fp => i = j
            /\ \A f \in TopKeys(Clients(docs)) :
                 logins(f) > 0 /\ commands(f) > 0 => \E i \in DOMAIN rows : rows[i].fp = f
<1> DEFINE lines == SessionLines(docs)
           fp == Clients(docs)
           Bucket(f) == [fp |-> f,
                         ips |-> {IP(e) : e \in {d \in lines : Fp(d) = f}},
                         users |-> {User(e) : e \in {d \in lines : Fp(d) = f}},
                         logins |-> Count(Saying(lines, {"auth_success"}), fp, f),
                         commands |-> Count(Saying(lines, {"query"}), fp, f)]
           bucket == [f \in TopKeys(fp) |-> Bucket(f)]
           kept == {b \in {Bucket(f) : f \in TopKeys(fp)} : b.logins > 0 /\ b.commands > 0}
           w == [b \in kept |-> b.commands]
           rows == Descending(kept, w)
<1>1. Sessions(docs).rows = rows
  BY DEF Sessions, Listing, SessionLines, Clients
<1>2. IsFiniteSet(lines)
  BY SizeType DEF SessionLines, About, Saying
<1>3. IsFiniteSet(TopKeys(fp))
  <2>1. fp \in [lines -> {Fp(e) : e \in lines}]
    BY DEF Clients
  <2> HIDE DEF fp, lines
  <2>2. IsFiniteSet(Range(fp)) /\ TopKeys(fp) \in SUBSET Range(fp)
    BY <1>2, <2>1, RangeFinite, TopKeysAre
  <2>3. QED
    BY <2>2, FS_Subset
<1>4. ASSUME NEW f
      PROVE  /\ Count(Saying(lines, {"auth_success"}), fp, f)
                   = Cardinality(PartOf(docs, "auth_success", f))
             /\ Count(Saying(lines, {"query"}), fp, f) = Cardinality(PartOf(docs, "query", f))
             /\ Cardinality(PartOf(docs, "query", f)) \in Nat
  <2>1. \A msg : {e \in Saying(lines, {msg}) : fp[e] = f} = PartOf(docs, msg, f)
    BY DEF Saying, PartOf, Clients
  <2>2. PartOf(docs, "query", f) \in SUBSET lines
    BY DEF PartOf
  <2> HIDE DEF lines
  <2>3. QED
    BY <1>2, <2>1, <2>2, SizeType DEF Count
<1>5. IsFiniteSet(kept) /\ w \in [kept -> Int]
  <2>1. bucket \in [TopKeys(fp) -> {Bucket(f) : f \in TopKeys(fp)}]
    OBVIOUS
  <2>2. kept \in SUBSET Range(bucket)
    BY DEF Range
  <2>3. ASSUME NEW b \in kept PROVE b.commands \in Int
    BY <1>4
  <2>4. w \in [kept -> Int]
    BY <2>3
  <2>5. IsFiniteSet(kept)
    <3> HIDE DEF bucket, kept, fp
    <3>1. IsFiniteSet(Range(bucket))
      BY <1>3, <2>1, RangeFinite
    <3>2. QED
      BY <2>2, <3>1, FS_Subset
  <2>6. QED
    BY <2>4, <2>5
<1>6. /\ Cardinality(kept) \in Nat /\ rows \in [1..Cardinality(kept) -> kept]
      /\ \A x \in kept : \E i \in 1..Cardinality(kept) : rows[i] = x
      /\ \A i, j \in 1..Cardinality(kept) :
           i < j => rows[i] # rows[j] /\ w[rows[i]] >= w[rows[j]]
  <2> HIDE DEF kept, w
  <2>1. QED
    BY <1>5, DescendingLists
<1> DEFINE n == Cardinality(kept)
<1> HIDE DEF n, rows
<1>7. n \in Nat /\ DOMAIN rows = 1..n /\ \A i \in 1..n : rows[i] \in kept
  BY <1>6 DEF n
<1>8. ASSUME NEW i \in DOMAIN rows
      PROVE  /\ rows[i] = Bucket(rows[i].fp)
             /\ rows[i].fp \in TopKeys(fp)
             /\ rows[i].logins = Cardinality(PartOf(docs, "auth_success", rows[i].fp))
             /\ rows[i].commands = Cardinality(PartOf(docs, "query", rows[i].fp))
             /\ Cardinality(PartOf(docs, "auth_success", rows[i].fp)) > 0
             /\ Cardinality(PartOf(docs, "query", rows[i].fp)) > 0
  <2>1. PICK f \in TopKeys(fp) : rows[i] = Bucket(f)
    BY <1>7
  <2>2. rows[i].fp = f /\ rows[i].commands > 0 /\ rows[i].logins > 0
    BY <1>7, <2>1
  <2>3. QED
    BY <1>4, <2>1, <2>2
<1>9. ASSUME NEW i \in DOMAIN rows, NEW j \in DOMAIN rows, rows[i].fp = rows[j].fp PROVE i = j
  <2>1. rows[i] = rows[j]
    BY <1>8, <1>9, Zenon
  <2>2. ~(i < j) /\ ~(j < i)
    BY <1>6, <1>7, <2>1 DEF n
  <2>3. QED
    BY <1>7, <2>2
<1>10. ASSUME NEW f \in TopKeys(fp), Cardinality(PartOf(docs, "auth_success", f)) > 0,
              Cardinality(PartOf(docs, "query", f)) > 0
       PROVE  \E i \in DOMAIN rows : rows[i].fp = f
  <2>1. Bucket(f) \in kept /\ Bucket(f).fp = f
    BY <1>4, <1>10
  <2>2. PICK i \in 1..n : rows[i] = Bucket(f)
    <3> HIDE DEF kept, Bucket
    <3>1. QED
      BY <1>6, <2>1 DEF n
  <2>3. QED
    BY <1>7, <2>1, <2>2
<1>11. ASSUME NEW i \in DOMAIN rows
       PROVE  /\ rows[i].ips = {IP(e) : e \in {d \in SessionLines(docs) : Fp(d) = rows[i].fp}}
              /\ rows[i].users = {User(e) : e \in {d \in SessionLines(docs) : Fp(d) = rows[i].fp}}
  <2>1. PICK f \in TopKeys(fp) : rows[i] = Bucket(f)
    BY <1>7
  <2> HIDE DEF fp
  <2>2. rows[i].fp = f
    BY <2>1
  <2>3. QED
    BY <2>1, <2>2
<1>12. \A i, j \in DOMAIN rows : i < j => rows[i].commands >= rows[j].commands
  <2>1. \A i \in DOMAIN rows : w[rows[i]] = rows[i].commands
    BY <1>7
  <2>2. QED
    BY <1>6, <1>7, <2>1 DEF n
<1> HIDE DEF Bucket, fp, lines, kept, w
<1>13. QED
  BY <1>1, <1>7, <1>8, <1>9, <1>10, <1>11, <1>12 DEF fp

-----------------------------------------------------------------------------
(* Sections of one report *)

(* With a statement among the lines the fields were read from, no section   *)
(* is left out.                                                             *)
LEMMA EveryFieldFollows ==
  ASSUME NEW at \in SUBSET Event, "sql" \in FieldsOf(at), NEW s \in Section
  PROVE  Needs(s) \subseteq FieldsOf(at)
<1>1. PICK e \in at : "sql" \in FieldsOfLine(e)
  BY DEF FieldsOf
<1>2. Log[e].msg = "query"
  BY <1>1 DEF FieldsOfLine
<1>3. HasClient(e)
  BY <1>2, LogAssumption
<1>4. {"msg", "fp", "ip", "user", "sql"} \subseteq FieldsOfLine(e)
  BY <1>2, <1>3 DEF FieldsOfLine
<1>5. {"msg", "fp", "ip", "user", "sql"} \subseteq FieldsOf(at)
  BY <1>4, FieldsPresent
<1>6. QED
  BY <1>5 DEF Needs, Section

(* The statements the queries section counts are among the commands. *)
LEMMA QueriesCounted ==
  ASSUME NEW docs, NEW L, IsFiniteSet(L), Saying(docs, {"query"}) \subseteq L
  PROVE  Total(TopQueries(docs).rows) <= Cardinality(L)
<1> DEFINE lines == {e \in Saying(docs, {"query"}) : Log[e].sql \notin LongSQL}
           sql == [e \in lines |-> Log[e].sql]
           rows == [q \in TopKeys(sql) |-> Count(lines, sql, q)]
           part == [q \in TopKeys(sql) |-> {e \in lines : sql[e] = q}]
<1>1. TopQueries(docs).rows = rows
  BY DEF TopQueries, Listing
<1>2. lines \in SUBSET L /\ IsFiniteSet(lines)
  <2>1. lines \in SUBSET L
    OBVIOUS
  <2> HIDE DEF lines
  <2>2. QED
    BY <2>1, SizeType
<1>3. IsFiniteSet(TopKeys(sql))
  <2>1. sql \in [lines -> {Log[e].sql : e \in lines}]
    OBVIOUS
  <2> HIDE DEF sql, lines
  <2>2. IsFiniteSet(Range(sql)) /\ TopKeys(sql) \in SUBSET Range(sql)
    BY <1>2, <2>1, RangeFinite, TopKeysAre
  <2>3. QED
    BY <2>2, FS_Subset
<1>4. /\ part \in [TopKeys(sql) -> SUBSET L]
      /\ \A x, y \in TopKeys(sql) : x # y => part[x] \cap part[y] = {}
      /\ \A x \in TopKeys(sql) : rows[x] = Cardinality(part[x])
      /\ DOMAIN rows = TopKeys(sql)
  BY DEF Count
<1> DEFINE all == UNION {part[x] : x \in TopKeys(sql)}
<1>5. all \in SUBSET L
  <2>1. \A x \in TopKeys(sql) : part[x] \subseteq L
    BY <1>4
  <2> HIDE DEF part, sql
  <2>2. QED
    BY <2>1
<1>6. Total(rows) = Cardinality(all)
  <2> DEFINE S == TopKeys(sql)
  <2>1. /\ IsFiniteSet(S) /\ DOMAIN rows = S /\ part \in [S -> SUBSET L]
        /\ \A x, y \in S : x # y => part[x] \cap part[y] = {}
        /\ \A x \in S : rows[x] = Cardinality(part[x])
    BY <1>3, <1>4
  <2> HIDE DEF S, rows, part
  <2>2. Total(rows) = Cardinality(UNION {part[x] : x \in S})
    BY <2>1, TotalOfParts
  <2>3. QED
    BY <2>2 DEF S
<1>7. QED
  <2> HIDE DEF all, rows
  <2>1. Cardinality(all) <= Cardinality(L)
    BY <1>5, FS_Subset
  <2>2. QED
    BY <1>1, <1>6, <2>1

(* So are those the sessions section counts. *)
LEMMA SessionsCounted ==
  ASSUME NEW docs, IsFiniteSet(docs), NEW L, IsFiniteSet(L),
         About(Saying(docs, {"query"})) \subseteq L
  PROVE  LET rows == Sessions(docs).rows
         IN Total([i \in DOMAIN rows |-> rows[i].commands]) <= Cardinality(L)
<1> DEFINE rows == Sessions(docs).rows
           S == DOMAIN rows
           counts == [i \in S |-> rows[i].commands]
           part == [i \in S |-> PartOf(docs, "query", rows[i].fp)]
           all == UNION {part[x] : x \in S}
<1>1. /\ \E n \in Nat : S = 1..n
      /\ \A i \in S : rows[i].commands = Cardinality(PartOf(docs, "query", rows[i].fp))
      /\ \A i, j \in S : rows[i].fp = rows[j].fp => i = j
  BY SessionRows
<1>2. IsFiniteSet(S)
  BY <1>1, FS_Interval
<1> HIDE DEF rows, S
<1>3. /\ DOMAIN counts = S /\ part \in [S -> SUBSET L]
      /\ \A x, y \in S : x # y => part[x] \cap part[y] = {}
      /\ \A x \in S : counts[x] = Cardinality(part[x])
  <2>1. \A f : PartOf(docs, "query", f) \in SUBSET L
    BY DEF PartOf, SessionLines, About, Saying
  <2>2. \A f, g : f # g => PartOf(docs, "query", f) \cap PartOf(docs, "query", g) = {}
    BY DEF PartOf
  <2>3. QED
    BY <1>1, <2>1, <2>2
<1>4. all \in SUBSET L
  BY <1>3
<1> HIDE DEF counts, part
<1>5. Total(counts) = Cardinality(all)
  BY <1>2, <1>3, TotalOfParts
<1> HIDE DEF all
<1>6. Cardinality(all) <= Cardinality(L)
  BY <1>4, FS_Subset
<1>7. QED
  BY <1>5, <1>6 DEF counts, S, rows

LEMMA LaterFollows ==
  ASSUME ReportTypeOK, SectionInv, IndexInv
  PROVE  LaterSectionsSeeMore
<1> DEFINE p == stdout.parts
           sessions == p["sessions"].rows
<1> SUFFICES ASSUME stdout # None, "sql" \in fields
             PROVE /\ Total(p["queries"].rows) <= p["commands"].total
                   /\ Total([i \in DOMAIN sessions |-> sessions[i].commands])
                        <= p["commands"].total
  BY DEF LaterSectionsSeeMore
<1>1. PICK at \in SUBSET index, seen \in [Section -> SUBSET index] :
           /\ fields = FieldsOf(at)
           /\ \A s \in Section :
                /\ p[s] = Answer(s, fields, seen[s], span)
                /\ IsFiniteSet(InWindow(seen[s], span))
           /\ seen["sessions"] \subseteq seen["commands"]
           /\ seen["queries"] \subseteq seen["commands"]
  BY Printed
<1>2. at \in SUBSET Event /\ seen["queries"] \in SUBSET Event
  BY DEF ReportTypeOK, Section
<1> DEFINE docs(s) == InWindow(seen[s], span)
           hits == About(Saying(docs("commands"), {"query"}))
<1> HIDE DEF p
<1>3. ASSUME NEW s \in Section PROVE p[s] = Asked(s, docs(s)) /\ IsFiniteSet(docs(s))
  BY <1>1, <1>2, EveryFieldFollows DEF Answer
<1>4. /\ p["queries"] = TopQueries(docs("queries"))
      /\ p["sessions"] = Sessions(docs("sessions")) /\ IsFiniteSet(docs("sessions"))
      /\ p["commands"] = Commands(docs("commands")) /\ IsFiniteSet(docs("commands"))
  BY <1>3 DEF Asked, Section
<1>5. p["commands"].total = Cardinality(hits)
  BY <1>4 DEF Commands
<1>6. IsFiniteSet(hits)
  <2>1. hits \in SUBSET docs("commands")
    BY DEF About, Saying
  <2> HIDE DEF hits, docs
  <2>2. QED
    BY <1>4, <2>1, SizeType
<1>7. Saying(docs("queries"), {"query"}) \subseteq hits
  BY <1>1, <1>2, LogAssumption DEF About, Saying, InWindow
<1>8. About(Saying(docs("sessions"), {"query"})) \subseteq hits
  BY <1>1 DEF About, Saying, InWindow
<1> HIDE DEF docs, hits
<1>9. Total(p["queries"].rows) <= Cardinality(hits)
  BY <1>4, <1>6, <1>7, QueriesCounted
<1>10. Total([i \in DOMAIN sessions |-> sessions[i].commands]) <= Cardinality(hits)
  BY <1>4, <1>6, <1>8, SessionsCounted
<1>11. QED
  BY <1>5, <1>9, <1>10

(* main.go:924-958: of the statements and sessions a report counts, its     *)
(* list of commands, asked for last, has no fewer, however many lines reach *)
(* the index between the queries.                                           *)
THEOREM LaterSectionsHaveMore == Spec => []LaterSectionsSeeMore
  BY SectionsInvariant, LaterFollows, PTL

-----------------------------------------------------------------------------
(* The list of commands *)

(* A page of hits has the latest first, and what is not on it is no later.  *)
PageOf(page, hits) ==
    /\ \E n \in Nat : page \in [1..n -> hits]
    /\ \A i, j \in DOMAIN page : i < j => Log[page[i]].time >= Log[page[j]].time
    /\ \A i \in DOMAIN page : \A e \in hits :
         (\A j \in DOMAIN page : page[j] # e) => Log[e].time <= Log[page[i]].time
    /\ DOMAIN page = 1..Smaller(CommandListSize, Cardinality(hits))
    /\ \A i, j \in DOMAIN page : i < j => page[i] # page[j]

LEMMA PageIsLatest ==
  ASSUME NEW hits \in SUBSET Event, IsFiniteSet(hits)
  PROVE  PageOf(Page(hits), hits)
<1> DEFINE w == [e \in hits |-> Log[e].time]
           n == Cardinality(hits)
           k == Smaller(CommandListSize, n)
           latest == Descending(hits, w)
           page == [i \in 1..k |-> latest[i]]
<1>1. w \in [hits -> Int]
  BY LogAssumption
<1>2. /\ n \in Nat /\ latest \in [1..n -> hits]
      /\ \A x \in hits : \E i \in 1..n : latest[i] = x
      /\ \A i, j \in 1..n :
           i < j => latest[i] # latest[j] /\ w[latest[i]] >= w[latest[j]]
  <2> HIDE DEF w
  <2>1. QED
    BY <1>1, DescendingLists
<1>3. k \in Nat /\ k <= n
  BY <1>2, SizesAssumption DEF Smaller
<1> HIDE DEF n, k, latest
<1>4. page \in [1..k -> hits] /\ \A i \in 1..k : i \in 1..n /\ page[i] = latest[i]
  BY <1>2, <1>3
<1>5. \A i, j \in 1..n : i < j => Log[latest[i]].time >= Log[latest[j]].time
  BY <1>2
<1>6. ASSUME NEW i \in 1..k, NEW e \in hits, \A j \in 1..k : page[j] # e
      PROVE  Log[e].time <= Log[page[i]].time
  <2>1. PICK l \in 1..n : latest[l] = e
    BY <1>2
  <2>2. l > k
    BY <1>2, <1>3, <1>4, <1>6, <2>1
  <2>3. Log[latest[i]].time >= Log[latest[l]].time
    BY <1>2, <1>3, <1>4, <1>5, <2>2
  <2>4. Log[latest[i]].time \in Int /\ Log[latest[l]].time \in Int
    BY <1>2, <1>4, LogAssumption
  <2>5. QED
    BY <1>4, <2>1, <2>3, <2>4
<1>7. Page(hits) = page
  BY DEF Page, n, k, latest
<1>8. DOMAIN page = 1..k
  OBVIOUS
<1>9. \A i, j \in 1..k :
        i < j => page[i] # page[j] /\ Log[page[i]].time >= Log[page[j]].time
  BY <1>2, <1>4, <1>5
<1>10. k = Smaller(CommandListSize, Cardinality(hits))
  BY DEF k, n
<1> HIDE DEF page
<1>11. QED
  BY <1>3, <1>4, <1>6, <1>7, <1>8, <1>9, <1>10 DEF PageOf

(* What holds of the groups after i hits.                                   *)
GroupSet(hits) ==
    Seq([fp : {Fp(e) : e \in hits}, users : SUBSET {User(e) : e \in hits}, commands : Seq(hits)])
GroupInv(g, page, i) ==
    /\ g.users = {g.fp[2]} /\ g.commands # <<>>
    /\ \A j \in DOMAIN g.commands :
         /\ Fp(g.commands[j]) = g.fp /\ Log[g.commands[j]].sql # ""
         /\ \E l \in 1..i : g.commands[j] = page[l]
    /\ \A j, k \in DOMAIN g.commands :
         j < k => Log[g.commands[j]].time >= Log[g.commands[k]].time
GroupsInv(groups, page, i) ==
    /\ \A a \in DOMAIN groups : GroupInv(groups[a], page, i)
    /\ \A a, b \in DOMAIN groups : groups[a].fp = groups[b].fp => a = b
    /\ \A a, b \in DOMAIN groups :
         a < b => Log[groups[a].commands[1]].time >= Log[groups[b].commands[1]].time
    /\ \A l \in 1..i : Log[page[l]].sql # "" =>
         \E a \in DOMAIN groups : \E j \in DOMAIN groups[a].commands :
           groups[a].commands[j] = page[l]

LEMMA AddHitType ==
  ASSUME NEW hits, NEW groups \in GroupSet(hits), NEW e \in hits
  PROVE  AddHit(groups, e) \in GroupSet(hits)
<1> DEFINE G == [fp : {Fp(d) : d \in hits}, users : SUBSET {User(d) : d \in hits},
                 commands : Seq(hits)]
           mine == {i \in DOMAIN groups : groups[i].fp = Fp(e)}
           new == [fp |-> Fp(e), users |-> {User(e)}, commands |-> <<e>>]
           more(i) == [fp |-> groups[i].fp, users |-> groups[i].users \cup {User(e)},
                       commands |-> Append(groups[i].commands, e)]
<1>1. groups \in Seq(G)
  BY DEF GroupSet
<1>2. new \in G
  OBVIOUS
<1>3. ASSUME NEW i \in DOMAIN groups PROVE more(i) \in G /\ groups[i] \in G
  <2>1. groups[i] \in G
    <3> HIDE DEF G
    <3>1. QED
      BY <1>1
  <2>2. Append(groups[i].commands, e) \in Seq(hits)
    BY <2>1
  <2>3. groups[i].users \cup {User(e)} \in SUBSET {User(d) : d \in hits}
    BY <2>1
  <2>4. QED
    BY <2>1, <2>2, <2>3
<1>4. AddHit(groups, e) = IF Log[e].sql = "" THEN groups
                          ELSE IF mine = {} THEN Append(groups, new)
                          ELSE [i \in DOMAIN groups |-> IF i \in mine THEN more(i) ELSE groups[i]]
  BY DEF AddHit
<1> HIDE DEF G, mine, new, more
<1>5. Append(groups, new) \in Seq(G)
  BY <1>1, <1>2
<1>6. [i \in DOMAIN groups |-> IF i \in mine THEN more(i) ELSE groups[i]] \in Seq(G)
  BY <1>1, <1>3
<1>7. AddHit(groups, e) \in Seq(G)
  BY <1>1, <1>4, <1>5, <1>6
<1>8. QED
  BY <1>7 DEF G, GroupSet

LEMMA AddHitKeeps ==
  ASSUME NEW hits \in SUBSET Event, NEW page, PageOf(page, hits), NEW i \in DOMAIN page,
         NEW groups \in GroupSet(hits), GroupsInv(groups, page, i - 1)
  PROVE  GroupsInv(AddHit(groups, page[i]), page, i)
<1> DEFINE e == page[i]
           time(d) == Log[d].time
           mine == {a \in DOMAIN groups : groups[a].fp = Fp(e)}
           new == [fp |-> Fp(e), users |-> {User(e)}, commands |-> <<e>>]
           more(a) == [fp |-> groups[a].fp, users |-> groups[a].users \cup {User(e)},
                       commands |-> Append(groups[a].commands, e)]
           next == AddHit(groups, e)
<1>1. /\ i \in Nat /\ i >= 1 /\ e \in hits /\ \A l \in 1..i - 1 : l \in DOMAIN page
      /\ \A l \in 1..i : l \in 1..i - 1 \/ l = i
      /\ 1..i - 1 \subseteq 1..i /\ i \in 1..i
  <2>1. PICK n \in Nat : page \in [1..n -> hits]
    BY DEF PageOf
  <2>2. QED
    BY <2>1
<1>2. \A d \in hits : time(d) \in Int
  BY LogAssumption
<1>3. /\ Len(groups) \in Nat /\ DOMAIN groups = 1..Len(groups)
      /\ \A a \in DOMAIN groups : groups[a].commands \in Seq(hits)
  <2> DEFINE G == [fp : {Fp(d) : d \in hits}, users : SUBSET {User(d) : d \in hits},
                   commands : Seq(hits)]
  <2>1. groups \in Seq(G) /\ \A g \in G : g.commands \in Seq(hits)
    BY DEF GroupSet
  <2> HIDE DEF G
  <2>2. QED
    BY <2>1
<1>4. ASSUME NEW a \in DOMAIN groups
      PROVE  /\ GroupInv(groups[a], page, i - 1)
             /\ GroupInv(groups[a], page, i)
             /\ \A j \in DOMAIN groups[a].commands : time(groups[a].commands[j]) >= time(e)
             /\ 1 \in DOMAIN groups[a].commands
  <2>1. GroupInv(groups[a], page, i - 1)
    BY DEF GroupsInv
  <2>2. GroupInv(groups[a], page, i)
    BY <1>1, <2>1 DEF GroupInv
  <2>3. ASSUME NEW j \in DOMAIN groups[a].commands PROVE time(groups[a].commands[j]) >= time(e)
    <3>1. PICK l \in 1..i - 1 : groups[a].commands[j] = page[l]
      BY <2>1 DEF GroupInv
    <3>2. l \in DOMAIN page /\ l < i
      BY <1>1
    <3>3. QED
      BY <3>1, <3>2 DEF PageOf
  <2>4. 1 \in DOMAIN groups[a].commands
    <3>1. PICK c \in Seq(hits) : c = groups[a].commands
      BY <1>3
    <3>2. c # <<>>
      BY <2>1, <3>1 DEF GroupInv
    <3>3. Len(c) # 0 /\ Len(c) \in Nat /\ DOMAIN c = 1..Len(c)
      BY <3>2
    <3>4. 1 \in DOMAIN c
      BY <3>3
    <3>5. QED
      BY <3>1, <3>4
  <2>5. QED
    BY <2>1, <2>2, <2>3, <2>4
<1>5. next = IF Log[e].sql = "" THEN groups
             ELSE IF mine = {} THEN Append(groups, new)
             ELSE [a \in DOMAIN groups |-> IF a \in mine THEN more(a) ELSE groups[a]]
  BY DEF AddHit
<1>6. Fp(e)[2] = User(e)
  BY DEF Fp, ComputeHash, User
<1> DEFINE Covered(gs, l) == \E a \in DOMAIN gs : \E j \in DOMAIN gs[a].commands :
                               gs[a].commands[j] = page[l]
<1>7. \A l \in 1..i - 1 : Log[page[l]].sql # "" => Covered(groups, l)
  BY DEF GroupsInv
<1>8. /\ \A a, b \in DOMAIN groups : groups[a].fp = groups[b].fp => a = b
      /\ \A a, b \in DOMAIN groups :
           a < b => time(groups[a].commands[1]) >= time(groups[b].commands[1])
  BY DEF GroupsInv
<1> HIDE DEF next, mine, new, more, e
<1>9. CASE Log[e].sql = ""
  <2>1. next = groups
    BY <1>5, <1>9
  <2>2. \A l \in 1..i : Log[page[l]].sql # "" => Covered(groups, l)
    BY <1>1, <1>7, <1>9 DEF e
  <2>3. GroupsInv(groups, page, i)
    BY <1>4, <1>8, <2>2 DEF GroupsInv
  <2>4. QED
    BY <2>1, <2>3 DEF next, e
<1>10. CASE Log[e].sql # "" /\ mine = {}
  <2> DEFINE n == Len(groups)
  <2>1. /\ next = Append(groups, new) /\ n \in Nat /\ DOMAIN next = 1..n + 1
        /\ \A a \in 1..n : a \in DOMAIN next /\ next[a] = groups[a]
        /\ next[n + 1] = new
    <3> DEFINE G == [fp : {Fp(d) : d \in hits}, users : SUBSET {User(d) : d \in hits},
                     commands : Seq(hits)]
    <3>a. groups \in Seq(G)
      BY DEF GroupSet
    <3>b. new \in G
      BY <1>1 DEF new
    <3>1. PICK S : groups \in Seq(S) /\ new \in S
      <4> HIDE DEF G
      <4>1. QED
        BY <3>a, <3>b
    <3>2. next = Append(groups, new)
      BY <1>5, <1>10
    <3>3. Len(Append(groups, new)) = n + 1
      BY <3>1
    <3>4. QED
      BY <1>3, <3>1, <3>2, <3>3
  <2>2. /\ new.fp = Fp(e) /\ new.users = {User(e)} /\ new.commands = <<e>>
        /\ DOMAIN new.commands = {1} /\ new.commands[1] = e
    BY DEF new
  <2>3. GroupInv(new, page, i)
    <3>1. new.users = {new.fp[2]} /\ new.commands # <<>>
      BY <1>6, <2>2
    <3>2. \A j \in DOMAIN new.commands :
            /\ Fp(new.commands[j]) = new.fp /\ Log[new.commands[j]].sql # ""
            /\ \E l \in 1..i : new.commands[j] = page[l]
      BY <1>1, <1>10, <2>2 DEF e
    <3>3. \A j, k \in DOMAIN new.commands :
            j < k => Log[new.commands[j]].time >= Log[new.commands[k]].time
      BY <2>2
    <3>4. QED
      BY <3>1, <3>2, <3>3 DEF GroupInv
  <2>4. DOMAIN groups = 1..n /\ \A a \in DOMAIN next : a \in 1..n \/ a = n + 1
    BY <1>3, <2>1
  <2> HIDE DEF n
  <2>5. \A a \in DOMAIN next : GroupInv(next[a], page, i)
    BY <1>4, <2>1, <2>3, <2>4
  <2>6. \A a \in 1..n : groups[a].fp # Fp(e)
    BY <1>10, <2>4 DEF mine
  <2>7. ASSUME NEW a \in DOMAIN next, NEW b \in DOMAIN next, next[a].fp = next[b].fp PROVE a = b
    BY <1>8, <2>1, <2>2, <2>4, <2>6, <2>7
  <2>8. ASSUME NEW a \in DOMAIN next, NEW b \in DOMAIN next, a < b
        PROVE  time(next[a].commands[1]) >= time(next[b].commands[1])
    <3>1. a \in 1..n
      BY <2>1, <2>4, <2>8
    <3>2. CASE b = n + 1
      BY <1>4, <2>1, <2>2, <2>4, <3>1, <3>2
    <3>3. CASE b \in 1..n
      BY <1>8, <2>1, <2>4, <2>8, <3>1, <3>3
    <3>4. QED
      BY <2>4, <3>2, <3>3
  <2>9. ASSUME NEW l \in 1..i, Log[page[l]].sql # "" PROVE Covered(next, l)
    <3>1. CASE l = i
      BY <2>1, <2>2, <3>1 DEF e
    <3>2. CASE l # i
      <4>1. PICK a \in DOMAIN groups : \E j \in DOMAIN groups[a].commands :
                                         groups[a].commands[j] = page[l]
        BY <1>1, <1>7, <2>9, <3>2
      <4>2. a \in DOMAIN next /\ next[a] = groups[a]
        BY <2>1, <2>4
      <4>3. QED
        BY <4>1, <4>2
    <3>3. QED
      BY <3>1, <3>2
  <2>10. GroupsInv(next, page, i)
    BY <2>5, <2>7, <2>8, <2>9 DEF GroupsInv
  <2>11. QED
    BY <2>10 DEF next, e
<1>11. CASE Log[e].sql # "" /\ mine # {}
  <2>1. PICK m \in DOMAIN groups : groups[m].fp = Fp(e) /\ mine = {m}
    <3>1. PICK m \in mine : TRUE
      BY <1>11
    <3>2. m \in DOMAIN groups /\ groups[m].fp = Fp(e)
      BY <3>1 DEF mine
    <3>3. \A a \in mine : a = m
      BY <1>8, <3>2 DEF mine
    <3>4. QED
      BY <3>1, <3>2, <3>3
  <2> DEFINE c == groups[m].commands
             n == Len(c)
  <2>2. /\ DOMAIN next = DOMAIN groups /\ next[m] = more(m)
        /\ \A a \in DOMAIN groups : a # m => next[a] = groups[a]
    BY <1>5, <1>11, <2>1
  <2>3. /\ c \in Seq(hits) /\ n \in Nat /\ n >= 1 /\ DOMAIN c = 1..n
    BY <1>3, <1>4
  <2>4. /\ more(m).fp = Fp(e) /\ more(m).users = groups[m].users \cup {User(e)}
        /\ more(m).commands = Append(c, e)
    BY <2>1 DEF more
  <2> HIDE DEF c, n
  <2>5. /\ DOMAIN more(m).commands = 1..n + 1 /\ more(m).commands[n + 1] = e
        /\ \A j \in 1..n : j \in 1..n + 1 /\ more(m).commands[j] = c[j]
        /\ \A j \in 1..n + 1 : j \in 1..n \/ j = n + 1
        /\ 1 \in 1..n
    BY <2>3, <2>4 DEF n
  <2>6. GroupInv(more(m), page, i)
    <3>1. more(m).users = {more(m).fp[2]} /\ more(m).commands # <<>>
      <4>1. groups[m].users = {User(e)}
        BY <1>4, <1>6, <2>1 DEF GroupInv
      <4>2. more(m).commands # <<>>
        BY <2>3, <2>5
      <4>3. QED
        BY <1>6, <2>4, <4>1, <4>2
    <3>2. ASSUME NEW j \in DOMAIN more(m).commands
          PROVE  /\ Fp(more(m).commands[j]) = more(m).fp /\ Log[more(m).commands[j]].sql # ""
                 /\ \E l \in 1..i : more(m).commands[j] = page[l]
      <4>1. CASE j = n + 1
        BY <1>1, <1>11, <2>4, <2>5, <4>1 DEF e
      <4>2. CASE j \in 1..n
        <5>1. Fp(c[j]) = groups[m].fp /\ Log[c[j]].sql # "" /\ \E l \in 1..i : c[j] = page[l]
          BY <1>4, <2>3, <4>2 DEF GroupInv, c
        <5>2. QED
          BY <2>1, <2>4, <2>5, <4>2, <5>1
      <4>3. QED
        BY <2>5, <4>1, <4>2
    <3>3. ASSUME NEW j \in DOMAIN more(m).commands, NEW k \in DOMAIN more(m).commands, j < k
          PROVE  time(more(m).commands[j]) >= time(more(m).commands[k])
      <4>1. j \in 1..n
        BY <2>3, <2>5, <3>3
      <4>2. CASE k = n + 1
        <5>1. time(c[j]) >= time(e)
          BY <1>4, <2>3, <4>1 DEF c
        <5>2. QED
          BY <2>5, <4>1, <4>2, <5>1
      <4>3. CASE k \in 1..n
        <5>1. time(c[j]) >= time(c[k])
          BY <1>4, <2>3, <3>3, <4>1, <4>3 DEF c, GroupInv
        <5>2. QED
          BY <2>5, <4>1, <4>3, <5>1
      <4>4. QED
        BY <2>5, <4>2, <4>3
    <3>4. QED
      BY <3>1, <3>2, <3>3 DEF GroupInv
  <2>7. \A a \in DOMAIN next : GroupInv(next[a], page, i)
    BY <1>4, <2>2, <2>6
  <2>8. \A a \in DOMAIN next : /\ next[a].fp = groups[a].fp
                               /\ next[a].commands[1] = groups[a].commands[1]
    BY <2>1, <2>2, <2>4, <2>5 DEF c
  <2>9. ASSUME NEW l \in 1..i, Log[page[l]].sql # "" PROVE Covered(next, l)
    <3>1. CASE l = i
      <4>1. next[m].commands[n + 1] = page[l] /\ n + 1 \in DOMAIN next[m].commands
        BY <2>2, <2>3, <2>5, <3>1 DEF e
      <4>2. QED
        BY <2>2, <4>1
    <3>2. CASE l # i
      <4>1. PICK a \in DOMAIN groups : \E j \in DOMAIN groups[a].commands :
                                         groups[a].commands[j] = page[l]
        BY <1>1, <1>7, <2>9, <3>2
      <4>2. PICK j \in DOMAIN groups[a].commands : groups[a].commands[j] = page[l]
        BY <4>1
      <4>3. j \in DOMAIN next[a].commands /\ next[a].commands[j] = groups[a].commands[j]
        BY <2>1, <2>2, <2>3, <2>5 DEF c
      <4>4. QED
        BY <2>2, <4>2, <4>3
    <3>3. QED
      BY <3>1, <3>2
  <2>10. GroupsInv(next, page, i)
    <3>1. \A a, b \in DOMAIN next : next[a].fp = next[b].fp => a = b
      BY <1>8, <2>2, <2>8
    <3>2. \A a, b \in DOMAIN next :
            a < b => time(next[a].commands[1]) >= time(next[b].commands[1])
      BY <1>8, <2>2, <2>8
    <3>3. QED
      BY <2>7, <2>9, <3>1, <3>2 DEF GroupsInv
  <2>11. QED
    BY <2>10 DEF next, e
<1>12. QED
  BY <1>9, <1>10, <1>11

(* The loop over the hits is what its rounds make it. *)
LEMMA GroupingLoops ==
  ASSUME NEW hits, NEW n \in Nat, NEW page \in [1..n -> hits]
  PROVE  /\ Len(page) = n
         /\ Grouping(page)[0] = <<>>
         /\ \A i \in 1..n : Grouping(page)[i] = AddHit(Grouping(page)[i - 1], page[i])
         /\ \A i \in 0..n : Grouping(page)[i] \in GroupSet(hits)
<1> DEFINE D == GroupSet(hits)
           round == [x \in D \X (1..n) |-> AddHit(x[1], page[x[2]])]
           Body(after) == [i \in 0..n |-> IF i = 0 THEN <<>> ELSE AddHit(after[i - 1], page[i])]
           after == CHOOSE f : f = Body(f)
<1>1. Len(page) = n
  OBVIOUS
<1>2. <<>> \in D
  BY DEF GroupSet
<1>3. round \in [D \X (1..n) -> D]
  <2>1. \A x \in D \X (1..n) : AddHit(x[1], page[x[2]]) \in D
    BY AddHitType
  <2> HIDE DEF D
  <2>2. QED
    BY <2>1
<1>4. \A g \in D, i \in 1..n : round[<<g, i>>] = AddHit(g, page[i])
  OBVIOUS
<1> HIDE DEF D, round
<1>5. PICK f \in [0..n -> D] : f[0] = <<>> /\ \A i \in 1..n : f[i] = round[<<f[i - 1], i>>]
  <2>1. PICK f \in [0..n -> D] : Loops(f, <<>>, n, round)
    BY <1>2, <1>3, LoopExists, Zenon
  <2>2. QED
    BY <2>1 DEF Loops
<1>6. \A i \in 1..n : i - 1 \in 0..n /\ f[i - 1] \in D /\ f[i] = AddHit(f[i - 1], page[i])
  <2>1. ASSUME NEW i \in 1..n PROVE i - 1 \in 0..n /\ f[i - 1] \in D
    <3>1. i - 1 \in 0..n
      OBVIOUS
    <3>2. QED
      BY <1>5, <3>1
  <2>2. QED
    BY <1>4, <1>5, <2>1
<1>7. f = Body(f)
  <2>1. \A i \in 0..n : f[i] = Body(f)[i]
    BY <1>5, <1>6
  <2> DEFINE g == Body(f)
  <2>2. f = [i \in 0..n |-> f[i]] /\ g = [i \in 0..n |-> g[i]]
    BY <1>5
  <2>3. \A i \in 0..n : f[i] = g[i]
    BY <2>1
  <2> HIDE DEF g
  <2>4. f = g
    BY <2>2, <2>3
  <2>5. QED
    BY <2>4 DEF g
<1>8. after = Body(after)
  <2> HIDE DEF Body
  <2>1. QED
    BY <1>7
<1>9. Grouping(page) = after
  BY <1>1 DEF Grouping
<1> HIDE DEF after
<1>10. /\ after[0] = <<>>
       /\ \A i \in 1..n : after[i] = AddHit(after[i - 1], page[i])
  <2>1. \A i \in 0..n : after[i] = IF i = 0 THEN <<>> ELSE AddHit(after[i - 1], page[i])
    BY <1>8
  <2>2. QED
    BY <2>1
<1>11. \A i \in 0..n : after[i] \in D
  <2> DEFINE T == {i \in Nat : i <= n => after[i] \in D}
  <2>1. 0 \in T
    BY <1>2, <1>10
  <2>2. ASSUME NEW i \in T PROVE i + 1 \in T
    <3>1. SUFFICES ASSUME i + 1 <= n PROVE after[i + 1] \in D
      OBVIOUS
    <3>2. i \in Nat /\ after[i] \in D /\ i + 1 \in 1..n
      BY <3>1
    <3>3. after[i + 1] = AddHit(after[i], page[i + 1]) /\ page[i + 1] \in hits
      BY <1>10, <3>2
    <3>4. QED
      BY <3>2, <3>3, AddHitType DEF D
  <2>3. T \in SUBSET Nat
    OBVIOUS
  <2> HIDE DEF T
  <2>4. T = Nat
    BY <2>1, <2>2, <2>3, Counted
  <2>5. QED
    BY <2>4 DEF T
<1>12. QED
  BY <1>1, <1>9, <1>10, <1>11 DEF D

LEMMA GroupsAre ==
  ASSUME NEW hits \in SUBSET Event, NEW n \in Nat, NEW page \in [1..n -> hits],
         PageOf(page, hits)
  PROVE  GroupsInv(Grouping(page)[n], page, n)
<1> DEFINE T == {i \in Nat : i <= n => GroupsInv(Grouping(page)[i], page, i)}
<1>1. 0 \in T
  <2>1. Grouping(page)[0] = <<>>
    BY GroupingLoops
  <2>2. GroupsInv(<<>>, page, 0)
    BY DEF GroupsInv
  <2>3. QED
    BY <2>1, <2>2
<1>2. ASSUME NEW i \in T PROVE i + 1 \in T
  <2>1. SUFFICES ASSUME i + 1 <= n PROVE GroupsInv(Grouping(page)[i + 1], page, i + 1)
    OBVIOUS
  <2>2. i \in Nat /\ i + 1 \in DOMAIN page /\ i \in 0..n /\ (i + 1) - 1 = i
    BY <2>1
  <2>3. GroupsInv(Grouping(page)[i], page, i)
    BY <2>1
  <2>4. /\ Grouping(page)[i + 1] = AddHit(Grouping(page)[i], page[i + 1])
        /\ Grouping(page)[i] \in GroupSet(hits)
    BY <2>2, GroupingLoops
  <2>5. QED
    BY <2>2, <2>3, <2>4, AddHitKeeps
<1>3. T \in SUBSET Nat
  OBVIOUS
<1> HIDE DEF T
<1>4. T = Nat
  BY <1>1, <1>2, <1>3, Counted
<1>5. QED
  BY <1>4 DEF T

(* The commands of a report, from the hits of its last query. *)
LEMMA CommandsAre ==
  ASSUME NEW hits \in SUBSET Event, IsFiniteSet(hits)
  PROVE  \E n \in Nat : \E page \in [1..n -> hits] :
           /\ PageOf(page, hits)
           /\ GroupsInv(Grouping(Page(hits))[Len(Page(hits))], page, n)
           /\ Grouping(Page(hits))[Len(Page(hits))] \in GroupSet(hits)
<1>1. PageOf(Page(hits), hits)
  BY PageIsLatest
<1>2. PICK n \in Nat : Page(hits) \in [1..n -> hits]
  BY <1>1 DEF PageOf
<1>3. Len(Page(hits)) = n /\ n \in 0..n
  BY <1>2
<1>4. /\ GroupsInv(Grouping(Page(hits))[n], Page(hits), n)
      /\ Grouping(Page(hits))[n] \in GroupSet(hits)
  BY <1>1, <1>2, <1>3, GroupsAre, GroupingLoops
<1>5. QED
  BY <1>1, <1>2, <1>3, <1>4

LEMMA GroupedFollows ==
  ASSUME ReportTypeOK, SectionInv, IndexInv
  PROVE  CommandsAreGrouped
<1> DEFINE groups == stdout.parts["commands"].groups
<1> SUFFICES ASSUME stdout # None
             PROVE  /\ \A i, j \in DOMAIN groups : groups[i].fp = groups[j].fp => i = j
                    /\ \A i \in DOMAIN groups : Cardinality(groups[i].users) = 1
                    /\ \A i, j \in DOMAIN groups : i < j =>
                         Log[groups[i].commands[1]].time >= Log[groups[j].commands[1]].time
                    /\ \A i \in DOMAIN groups : \A j, k \in DOMAIN groups[i].commands : j < k =>
                         Log[groups[i].commands[j]].time >= Log[groups[i].commands[k]].time
  BY DEF CommandsAreGrouped
<1>1. PICK docs \in SUBSET Event :
        /\ IsFiniteSet(docs)
        /\ stdout.parts["commands"] = Commands(docs) \/ stdout.parts["commands"] = Zero["commands"]
  <2>1. PICK seen \in [Section -> SUBSET index] : \A s \in Section :
          /\ stdout.parts[s] = Answer(s, fields, seen[s], span)
          /\ IsFiniteSet(InWindow(seen[s], span))
    BY Printed
  <2>2. "commands" \in Section /\ InWindow(seen["commands"], span) \in SUBSET Event
    BY DEF ReportTypeOK, Section, InWindow
  <2>3. QED
    BY <2>1, <2>2 DEF Answer, Asked
<1>2. CASE stdout.parts["commands"] = Zero["commands"]
  <2>1. groups = <<>>
    BY <1>2 DEF Zero, Section
  <2>2. QED
    BY <2>1
<1>3. CASE stdout.parts["commands"] = Commands(docs)
  <2> DEFINE hits == About(Saying(docs, {"query"}))
  <2>1. groups = Grouping(Page(hits))[Len(Page(hits))]
    BY <1>3 DEF Commands
  <2>2. hits \in SUBSET Event /\ IsFiniteSet(hits)
    BY <1>1, SizeType DEF About, Saying
  <2> HIDE DEF hits, groups
  <2>3. PICK n \in Nat : \E page \in [1..n -> hits] : GroupsInv(groups, page, n)
    BY <2>1, <2>2, CommandsAre
  <2>4. PICK page \in [1..n -> hits] : GroupsInv(groups, page, n)
    BY <2>3
  <2>5. \A i \in DOMAIN groups : Cardinality(groups[i].users) = 1
    <3>1. \A x : Cardinality({x}) = 1
      BY FS_Singleton
    <3>2. \A i \in DOMAIN groups : groups[i].users = {groups[i].fp[2]}
      BY <2>4 DEF GroupsInv, GroupInv
    <3>3. QED
      BY <3>1, <3>2
  <2>6. QED
    BY <2>4, <2>5 DEF GroupsInv, GroupInv
<1>4. QED
  BY <1>1, <1>2, <1>3

(* main.go:534-579: in every report the commands stand in one group per     *)
(* client, which is one user; groups by their latest command and commands   *)
(* within a group latest first, however the page cuts the hits.             *)
THEOREM CommandsStandGrouped == Spec => []CommandsAreGrouped
  BY SectionsInvariant, GroupedFollows, PTL

-----------------------------------------------------------------------------
(* Reports of an index that stood still *)

(* A section is left out only when no line it would show is there.          *)
LEMMA LeftOut ==
  ASSUME NEW at, NEW s \in Section, NEW e \in at, Needs(s) \subseteq FieldsOfLine(e)
  PROVE  Needs(s) \subseteq FieldsOf(at)
  BY FieldsPresent

(* The keys a terms aggregation returns are the heaviest, and it says when  *)
(* there are others.                                                        *)
LEMMA TopIsHeaviest ==
  ASSUME NEW lines, IsFiniteSet(lines), NEW V, NEW key \in [lines -> V], NEW part,
         DOMAIN part = Range(key),
         \A k \in Range(key) : part[k] = {e \in lines : key[e] = k}
  PROVE  /\ Heaviest(AggSize, TopKeys(key), Range(key), Sizes(part))
         /\ Others(key) <=> Cardinality(Range(key)) > AggSize
<1>1. /\ TopKeys(key) \in SUBSET Range(key)
      /\ Cardinality(TopKeys(key)) = Smaller(AggSize, Cardinality(Range(key)))
      /\ \A k \in TopKeys(key), l \in Range(key) \ TopKeys(key) :
           Count(lines, key, k) >= Count(lines, key, l)
  BY TopKeysAre
<1>2. \A k \in Range(key) : Sizes(part)[k] = Count(lines, key, k)
  BY DEF Sizes, Count
<1>3. Heaviest(AggSize, TopKeys(key), Range(key), Sizes(part))
  BY <1>1, <1>2 DEF Heaviest
<1>4. IsFiniteSet(Range(key)) /\ Cardinality(Range(key)) \in Nat
  BY RangeFinite, FS_CardinalityType
<1>5. CASE Cardinality(Range(key)) > AggSize
  <2>1. Cardinality(TopKeys(key)) = AggSize
    BY <1>1, <1>4, <1>5, SizesAssumption DEF Smaller
  <2>2. TopKeys(key) # Range(key)
    BY <1>4, <1>5, <2>1, SizesAssumption
  <2>3. QED
    BY <1>3, <1>5, <2>2 DEF Others
<1>6. CASE ~(Cardinality(Range(key)) > AggSize)
  <2>1. Cardinality(TopKeys(key)) = Cardinality(Range(key))
    BY <1>1, <1>4, <1>6, SizesAssumption DEF Smaller
  <2>2. TopKeys(key) = Range(key)
    BY <1>1, <1>4, <2>1, FS_Subset
  <2>3. QED
    BY <1>3, <1>6, <2>2 DEF Others
<1>7. QED
  BY <1>5, <1>6

(* An aggregation over no lines, or the section left out in its stead. *)
LEMMA NothingIsHeaviest ==
  ASSUME NEW n \in Nat, NEW weight
  PROVE  Heaviest(n, {}, {}, weight) /\ ~(Cardinality({}) > n)
<1>1. Cardinality({}) = 0
  BY FS_EmptySet
<1>2. QED
  BY <1>1 DEF Heaviest, Smaller

LEMMA CountsExact ==
  ASSUME NEW lines, IsFiniteSet(lines), NEW V, NEW key \in [lines -> V], NEW listing,
         \/ /\ listing.cut = Others(key) /\ DOMAIN listing.rows = TopKeys(key)
            /\ \A k \in TopKeys(key) : listing.rows[k] = Count(lines, key, k)
         \/ lines = {} /\ listing = Skipped
  PROVE  CountsAreExact(listing, lines, key)
<1> DEFINE keys == {key[e] : e \in lines}
           parts == [k \in keys |-> {e \in lines : key[e] = k}]
<1>1. SUFFICES /\ Heaviest(AggSize, DOMAIN listing.rows, keys, Sizes(parts))
               /\ listing.cut <=> Cardinality(keys) > AggSize
               /\ \A k \in DOMAIN listing.rows : listing.rows[k] = Cardinality(parts[k])
  BY DEF CountsAreExact
<1>2. CASE lines = {} /\ listing = Skipped
  <2>1. keys = {} /\ DOMAIN listing.rows = {} /\ listing.cut = FALSE
    BY <1>2 DEF Skipped, Listing
  <2> HIDE DEF keys, parts
  <2>2. QED
    BY <2>1, NothingIsHeaviest, SizesAssumption
<1>3. CASE /\ listing.cut = Others(key) /\ DOMAIN listing.rows = TopKeys(key)
           /\ \A k \in TopKeys(key) : listing.rows[k] = Count(lines, key, k)
  <2>1. keys = Range(key)
    BY DEF Range
  <2>2. DOMAIN parts = Range(key) /\ \A k \in Range(key) : parts[k] = {e \in lines : key[e] = k}
    BY <2>1
  <2> HIDE DEF keys, parts
  <2>3. /\ Heaviest(AggSize, TopKeys(key), Range(key), Sizes(parts))
        /\ Others(key) <=> Cardinality(Range(key)) > AggSize
    BY <2>2, TopIsHeaviest
  <2>4. TopKeys(key) \in SUBSET Range(key)
    BY TopKeysAre
  <2>5. QED
    BY <1>3, <2>1, <2>2, <2>3, <2>4 DEF Count
<1>4. QED
  BY <1>2, <1>3

LEMMA UsersExact ==
  ASSUME NEW at \in SUBSET Event, IsFiniteSet(at), NEW docs \in SUBSET at, NEW users,
         users = IF Needs("users") \subseteq FieldsOf(at) THEN UsersTried(docs) ELSE Skipped
  PROVE  UsersAreExact(users, docs)
<1> DEFINE names == {User(e) : e \in Auth(docs)}
           tries == [u \in names |-> OfUser(Auth(docs), u)]
<1>1. SUFFICES /\ Heaviest(AggSize, DOMAIN users.rows, names, Sizes(tries))
               /\ users.cut <=> Cardinality(names) > AggSize
               /\ \A u \in DOMAIN users.rows :
                    /\ users.rows[u].attempts = Cardinality(OfUser(Auth(docs), u))
                    /\ users.rows[u].success = Cardinality(OfUser(By(docs, "auth_success"), u))
                    /\ users.rows[u].failure = Cardinality(OfUser(By(docs, "auth_failure"), u))
  BY DEF UsersAreExact
<1>2. \A e \in Auth(docs) : e \in at /\ Needs("users") \subseteq FieldsOfLine(e)
  BY LogAssumption DEF Auth, By, Needs, FieldsOfLine
<1>3. CASE ~(Needs("users") \subseteq FieldsOf(at))
  <2>1. Auth(docs) = {}
    BY <1>2, <1>3, LeftOut DEF Section
  <2>2. names = {} /\ DOMAIN users.rows = {} /\ users.cut = FALSE
    BY <1>3, <2>1 DEF Skipped, Listing
  <2> HIDE DEF names, tries
  <2>3. QED
    BY <2>2, NothingIsHeaviest, SizesAssumption
<1>4. CASE Needs("users") \subseteq FieldsOf(at)
  <2> DEFINE lines == About(Saying(docs, {"auth_success", "auth_failure"}))
             user == [e \in lines |-> User(e)]
  <2>1. lines = Auth(docs)
    BY LogAssumption DEF About, Saying, Auth, By
  <2>2. users = UsersTried(docs)
    BY <1>4
  <2>3. /\ DOMAIN users.rows = TopKeys(user) /\ users.cut = Others(user)
        /\ \A u \in TopKeys(user) :
             /\ users.rows[u].attempts = Count(lines, user, u)
             /\ users.rows[u].success = Count(Saying(lines, {"auth_success"}), user, u)
             /\ users.rows[u].failure = Count(Saying(lines, {"auth_failure"}), user, u)
    BY <2>2 DEF UsersTried, Listing
  <2>4. Range(user) = names
    BY <2>1 DEF Range
  <2>5. /\ Saying(lines, {"auth_success"}) = By(docs, "auth_success")
        /\ Saying(lines, {"auth_failure"}) = By(docs, "auth_failure")
    BY LogAssumption DEF About, Saying, By
  <2>6. ASSUME NEW u
        PROVE  /\ Count(lines, user, u) = Cardinality(OfUser(Auth(docs), u))
               /\ Count(Saying(lines, {"auth_success"}), user, u)
                    = Cardinality(OfUser(By(docs, "auth_success"), u))
               /\ Count(Saying(lines, {"auth_failure"}), user, u)
                    = Cardinality(OfUser(By(docs, "auth_failure"), u))
    <3>1. {e \in lines : user[e] = u} = OfUser(Auth(docs), u)
      BY <2>1 DEF OfUser
    <3>2. {e \in Saying(lines, {"auth_success"}) : user[e] = u}
            = OfUser(By(docs, "auth_success"), u)
      BY <2>5 DEF OfUser, Saying
    <3>3. {e \in Saying(lines, {"auth_failure"}) : user[e] = u}
            = OfUser(By(docs, "auth_failure"), u)
      BY <2>5 DEF OfUser, Saying
    <3>4. QED
      BY <3>1, <3>2, <3>3 DEF Count
  <2>7. /\ IsFiniteSet(lines) /\ user \in [lines -> {User(e) : e \in lines}]
        /\ DOMAIN tries = Range(user)
        /\ \A u \in Range(user) : tries[u] = {e \in lines : user[e] = u}
    <3>1. lines \in SUBSET at
      BY DEF About, Saying
    <3>2. IsFiniteSet(lines)
      <4> HIDE DEF lines
      <4>1. QED
        BY <3>1, SizeType
    <3>3. \A u : OfUser(Auth(docs), u) = {e \in lines : user[e] = u}
      BY <2>1 DEF OfUser
    <3>4. QED
      BY <2>4, <3>2, <3>3
  <2> HIDE DEF lines, user, names, tries
  <2>8. PICK V : user \in [lines -> V]
    BY <2>7
  <2>9. /\ Heaviest(AggSize, TopKeys(user), Range(user), Sizes(tries))
        /\ Others(user) <=> Cardinality(Range(user)) > AggSize
    <3>1. /\ IsFiniteSet(lines) /\ DOMAIN tries = Range(user)
          /\ \A u \in Range(user) : tries[u] = {e \in lines : user[e] = u}
      BY <2>7
    <3>2. QED
      BY ONLY <2>8, <3>1, TopIsHeaviest
  <2>10. QED
    BY <2>3, <2>4, <2>6, <2>9
<1>5. QED
  BY <1>3, <1>4

(* Which clients the sessions section can show. *)
LEMMA ActiveClients ==
  ASSUME NEW docs \in SUBSET Event, IsFiniteSet(docs)
  PROVE  /\ SessionLines(docs) = By(docs, "auth_success") \cup By(docs, "query")
         /\ \A f : /\ PartOf(docs, "query", f) = Of(By(docs, "query"), f)
                   /\ PartOf(docs, "auth_success", f) = Of(By(docs, "auth_success"), f)
         /\ \A f : f \in Active(docs) <=>
              /\ Cardinality(PartOf(docs, "auth_success", f)) > 0
              /\ Cardinality(PartOf(docs, "query", f)) > 0
<1>1. SessionLines(docs) = By(docs, "auth_success") \cup By(docs, "query")
  BY LogAssumption DEF SessionLines, About, Saying, By
<1>2. \A f : /\ PartOf(docs, "query", f) = Of(By(docs, "query"), f)
             /\ PartOf(docs, "auth_success", f) = Of(By(docs, "auth_success"), f)
  BY DEF PartOf, SessionLines, About, Saying, Of, By
<1>3. \A S \in SUBSET docs : Cardinality(S) > 0 <=> S # {}
  <2>1. ASSUME NEW S \in SUBSET docs PROVE Cardinality(S) > 0 <=> S # {}
    <3>1. IsFiniteSet(S) /\ Cardinality(S) \in Nat
      BY SizeType
    <3>2. Cardinality(S) = 0 <=> S = {}
      BY <3>1, FS_EmptySet
    <3>3. QED
      BY <3>1, <3>2
  <2>2. QED
    BY <2>1
<1>4. \A f : f \in Active(docs) <=> /\ Of(By(docs, "query"), f) # {}
                                   /\ Of(By(docs, "auth_success"), f) # {}
  BY LogAssumption DEF Active, Of, By
<1>5. \A f : Of(By(docs, "query"), f) \in SUBSET docs /\ Of(By(docs, "auth_success"), f) \in SUBSET docs
  BY DEF Of, By
<1>6. QED
  BY <1>1, <1>2, <1>3, <1>4, <1>5

LEMMA SessionsExact ==
  ASSUME NEW at \in SUBSET Event, IsFiniteSet(at), NEW docs \in SUBSET at, NEW sessions,
         sessions = IF Needs("sessions") \subseteq FieldsOf(at) THEN Sessions(docs) ELSE Skipped
  PROVE  SessionsAreExact(sessions, docs)
<1> DEFINE lines == By(docs, "auth_success") \cup By(docs, "query")
           clients == {Fp(e) : e \in lines}
           parts == [f \in clients |-> Of(lines, f)]
           rows == sessions.rows
           Tops == \E top \in SUBSET clients :
                     /\ Heaviest(AggSize, top, clients, Sizes(parts))
                     /\ {rows[i].fp : i \in DOMAIN rows} = top \cap Active(docs)
           Right(i) == LET f == rows[i].fp
                       IN /\ rows[i].ips = {IP(e) : e \in Of(lines, f)}
                          /\ rows[i].users = {User(e) : e \in Of(lines, f)}
                          /\ rows[i].logins = Cardinality(Of(By(docs, "auth_success"), f))
                          /\ rows[i].commands = Cardinality(Of(By(docs, "query"), f))
           Sorted == \A i, j \in DOMAIN rows :
                       i < j => rows[i].fp # rows[j].fp /\ rows[i].commands >= rows[j].commands
<1>1. SUFFICES /\ Tops /\ (sessions.cut <=> Cardinality(clients) > AggSize)
               /\ \A i \in DOMAIN rows : Right(i)
               /\ Sorted
  BY DEF SessionsAreExact
<1>2. \A e \in lines : e \in at /\ Needs("sessions") \subseteq FieldsOfLine(e)
  BY LogAssumption DEF By, Needs, FieldsOfLine
<1>3. CASE ~(Needs("sessions") \subseteq FieldsOf(at))
  <2>1. lines = {}
    BY <1>2, <1>3, LeftOut DEF Section
  <2>2. clients = {} /\ DOMAIN rows = {} /\ sessions.cut = FALSE
    BY <1>3, <2>1 DEF Skipped, Listing
  <2>3. {rows[i].fp : i \in DOMAIN rows} = {}
    BY <2>2
  <2> HIDE DEF clients, parts, rows
  <2>4. Heaviest(AggSize, {}, clients, Sizes(parts)) /\ ~(Cardinality(clients) > AggSize)
    BY <2>2, NothingIsHeaviest, SizesAssumption
  <2>5. Tops
    BY <2>2, <2>3, <2>4
  <2>6. QED
    BY <2>2, <2>4, <2>5
<1>4. CASE Needs("sessions") \subseteq FieldsOf(at)
  <2> DEFINE key == Clients(docs)
             L == SessionLines(docs)
  <2>1. sessions = Sessions(docs) /\ sessions.cut = Others(key)
    BY <1>4 DEF Sessions, Listing, Clients, SessionLines
  <2>2. IsFiniteSet(docs)
    BY FS_Subset
  <2>3. /\ L = lines
        /\ \A f : /\ PartOf(docs, "query", f) = Of(By(docs, "query"), f)
                  /\ PartOf(docs, "auth_success", f) = Of(By(docs, "auth_success"), f)
        /\ \A f : f \in Active(docs) <=> /\ Cardinality(PartOf(docs, "auth_success", f)) > 0
                                         /\ Cardinality(PartOf(docs, "query", f)) > 0
    <3>1. docs \in SUBSET Event
      OBVIOUS
    <3>2. QED
      BY ONLY <2>2, <3>1, ActiveClients
  <2>4. \A f : Of(lines, f) = {e \in L : Fp(e) = f} /\ Of(lines, f) = {e \in L : key[e] = f}
    <3>1. \A e \in lines : HasClient(e)
      BY LogAssumption DEF By
    <3>2. \A f : Of(lines, f) = {e \in L : Fp(e) = f}
      BY <2>3, <3>1 DEF Of
    <3>3. \A f : {e \in L : Fp(e) = f} = {e \in L : key[e] = f}
      BY DEF Clients
    <3>4. QED
      BY <3>2, <3>3
  <2>5. Range(key) = clients /\ key \in [L -> clients]
    BY <2>3 DEF Range, Clients
  <2>6. DOMAIN parts = Range(key) /\ \A f \in Range(key) : parts[f] = {e \in L : key[e] = f}
    BY <2>4, <2>5
  <2>7. IsFiniteSet(L)
    <3>1. L \in SUBSET docs
      BY DEF SessionLines, About, Saying
    <3>2. QED
      BY <2>2, <3>1, SizeType
  <2>8. /\ \A i \in DOMAIN rows :
             LET f == rows[i].fp
             IN /\ rows[i].ips = {IP(e) : e \in {d \in L : Fp(d) = f}}
                /\ rows[i].users = {User(e) : e \in {d \in L : Fp(d) = f}}
                /\ rows[i].logins = Cardinality(PartOf(docs, "auth_success", f))
                /\ rows[i].commands = Cardinality(PartOf(docs, "query", f))
                /\ f \in TopKeys(key)
                /\ Cardinality(PartOf(docs, "auth_success", f)) > 0
                /\ Cardinality(PartOf(docs, "query", f)) > 0
        /\ \A i, j \in DOMAIN rows : i < j => rows[i].commands >= rows[j].commands
        /\ \A i, j \in DOMAIN rows : rows[i].fp = rows[j].fp => i = j
        /\ \A f \in TopKeys(key) :
             /\ Cardinality(PartOf(docs, "auth_success", f)) > 0
             /\ Cardinality(PartOf(docs, "query", f)) > 0
             => \E i \in DOMAIN rows : rows[i].fp = f
        /\ \E n \in Nat : DOMAIN rows = 1..n
    BY <2>1, <2>2, SessionRows
  <2> HIDE DEF key, L, lines, clients, parts, rows
  <2>9. /\ Heaviest(AggSize, TopKeys(key), Range(key), Sizes(parts))
        /\ Others(key) <=> Cardinality(Range(key)) > AggSize
    BY ONLY <2>5, <2>6, <2>7, TopIsHeaviest
  <2>10. TopKeys(key) \in SUBSET clients
    BY <2>5, <2>9 DEF Heaviest
  <2>11. {rows[i].fp : i \in DOMAIN rows} = TopKeys(key) \cap Active(docs)
    <3>1. \A i \in DOMAIN rows : rows[i].fp \in TopKeys(key) /\ rows[i].fp \in Active(docs)
      BY <2>3, <2>8
    <3>2. \A f \in TopKeys(key) \cap Active(docs) : \E i \in DOMAIN rows : rows[i].fp = f
      BY <2>3, <2>8
    <3>3. QED
      BY <3>1, <3>2
  <2>12. Tops
    BY <2>5, <2>9, <2>10, <2>11
  <2>13. ASSUME NEW i \in DOMAIN rows PROVE Right(i)
    <3>1. {d \in L : Fp(d) = rows[i].fp} = Of(lines, rows[i].fp)
      BY <2>4
    <3>2. /\ rows[i].ips = {IP(e) : e \in Of(lines, rows[i].fp)}
          /\ rows[i].users = {User(e) : e \in Of(lines, rows[i].fp)}
      BY <2>8, <3>1
    <3>3. /\ rows[i].logins = Cardinality(Of(By(docs, "auth_success"), rows[i].fp))
          /\ rows[i].commands = Cardinality(Of(By(docs, "query"), rows[i].fp))
      BY <2>3, <2>8
    <3>4. QED
      BY <3>2, <3>3
  <2>14. Sorted
    BY <2>8
  <2>15. QED
    BY <2>1, <2>5, <2>9, <2>12, <2>13, <2>14
<1>5. QED
  BY <1>3, <1>4

(* The hits of a page are the heaviest by time. *)
LEMMA PageIsHeaviest ==
  ASSUME NEW hits \in SUBSET Event, IsFiniteSet(hits), NEW page, PageOf(page, hits)
  PROVE  LET some == {page[i] : i \in DOMAIN page}
         IN /\ some \in SUBSET hits
            /\ Heaviest(CommandListSize, some, hits, [e \in hits |-> Log[e].time])
<1> DEFINE some == {page[i] : i \in DOMAIN page}
           time == [e \in hits |-> Log[e].time]
           k == Smaller(CommandListSize, Cardinality(hits))
<1>1. /\ DOMAIN page = 1..k /\ page \in [1..k -> hits] /\ some \in SUBSET hits
  BY DEF PageOf
<1>2. k \in Nat
  BY FS_CardinalityType, SizesAssumption DEF Smaller
<1> HIDE DEF k
<1>3. page \in Bijection(1..k, some)
  <2>1. ASSUME NEW i \in 1..k, NEW j \in 1..k, page[i] = page[j] PROVE i = j
    <3>1. ~(i < j) /\ ~(j < i)
      BY <1>1, <2>1 DEF PageOf
    <3>2. QED
      BY <1>2, <3>1
  <2>2. page \in [1..k -> some] /\ \A e \in some : \E i \in 1..k : page[i] = e
    BY <1>1
  <2> HIDE DEF some
  <2>3. QED
    BY <2>1, <2>2 DEF Bijection, Injection, Surjection, IsInjective
<1>4. Cardinality(some) = k
  <2>1. IsFiniteSet(1..k) /\ Cardinality(1..k) = k
    BY <1>2, FS_Interval
  <2> HIDE DEF some
  <2>2. QED
    BY ONLY <1>3, <2>1, FS_Bijection DEF ExistsBijection
<1>5. \A x \in some, y \in hits \ some : time[x] >= time[y]
  <2>1. ASSUME NEW i \in DOMAIN page, NEW y \in hits \ some PROVE Log[page[i]].time >= Log[y].time
    <3>1. \A j \in DOMAIN page : page[j] # y
      OBVIOUS
    <3>2. Log[y].time <= Log[page[i]].time
      BY <3>1 DEF PageOf
    <3>3. page[i] \in Event /\ y \in Event
      BY <1>1
    <3>4. QED
      BY <3>2, <3>3, LogAssumption
  <2>2. QED
    BY <1>1, <2>1
<1> HIDE DEF some, time
<1>6. Heaviest(CommandListSize, some, hits, time)
  BY <1>1, <1>4, <1>5 DEF Heaviest, k
<1>7. QED
  BY <1>1, <1>6 DEF some, time

LEMMA CommandsExact ==
  ASSUME NEW at \in SUBSET Event, IsFiniteSet(at), NEW docs \in SUBSET at, NEW cmds,
         cmds = IF Needs("commands") \subseteq FieldsOf(at) THEN Commands(docs)
                ELSE [groups |-> <<>>, total |-> 0]
  PROVE  CommandsAreExact(cmds, docs)
<1> DEFINE hits == By(docs, "query")
           time == [e \in hits |-> Log[e].time]
<1>1. SUFFICES /\ cmds.total = Cardinality(hits)
               /\ \E page \in SUBSET hits :
                    /\ Heaviest(CommandListSize, page, hits, time)
                    /\ Shown(cmds) = {e \in page : Log[e].sql # ""}
  BY DEF CommandsAreExact
<1>2. \A e \in hits : e \in at /\ Needs("commands") \subseteq FieldsOfLine(e)
  BY LogAssumption DEF By, Needs, FieldsOfLine
<1>3. CASE ~(Needs("commands") \subseteq FieldsOf(at))
  <2>1. hits = {}
    BY <1>2, <1>3, LeftOut DEF Section
  <2>2. cmds.total = 0 /\ Shown(cmds) = {}
    BY <1>3 DEF Shown
  <2>3. Cardinality({}) = 0 /\ {} = {e \in {} : Log[e].sql # ""}
    BY FS_EmptySet
  <2> HIDE DEF hits, time
  <2>4. Heaviest(CommandListSize, {}, {}, time)
    BY NothingIsHeaviest, SizesAssumption
  <2>5. QED
    BY <2>1, <2>2, <2>3, <2>4
<1>4. CASE Needs("commands") \subseteq FieldsOf(at)
  <2> DEFINE found == About(Saying(docs, {"query"}))
             groups == Grouping(Page(found))[Len(Page(found))]
  <2>1. cmds.total = Cardinality(found) /\ cmds.groups = groups
    BY <1>4 DEF Commands
  <2>2. found = hits
    BY LogAssumption DEF About, Saying, By
  <2>3. hits \in SUBSET Event /\ IsFiniteSet(hits)
    BY SizeType DEF By
  <2> HIDE DEF found, hits, time
  <2>4. PICK n \in Nat : \E page \in [1..n -> hits] :
               PageOf(page, hits) /\ GroupsInv(groups, page, n) /\ groups \in GroupSet(hits)
    BY <2>2, <2>3, CommandsAre
  <2>5. PICK page \in [1..n -> hits] :
               PageOf(page, hits) /\ GroupsInv(groups, page, n) /\ groups \in GroupSet(hits)
    BY <2>4
  <2> DEFINE some == {page[i] : i \in DOMAIN page}
  <2>6. some \in SUBSET hits /\ Heaviest(CommandListSize, some, hits, time)
    BY <2>3, <2>5, PageIsHeaviest DEF time
  <2> HIDE DEF groups
  <2>7. \A d : d \in Shown(cmds) <=> d \in Event /\ \E a \in DOMAIN groups :
                                       \E j \in DOMAIN groups[a].commands : d = groups[a].commands[j]
    BY <2>1 DEF Shown, ToSet
  <2>8. ASSUME NEW e \in Shown(cmds) PROVE e \in some /\ Log[e].sql # ""
    <3>1. PICK a \in DOMAIN groups : \E j \in DOMAIN groups[a].commands : e = groups[a].commands[j]
      BY <2>7
    <3>2. GroupInv(groups[a], page, n)
      BY <2>5, <3>1 DEF GroupsInv
    <3>3. Log[e].sql # "" /\ \E l \in 1..n : e = page[l]
      BY <3>1, <3>2 DEF GroupInv
    <3>4. QED
      BY <2>5, <3>3
  <2>9. ASSUME NEW e \in some, Log[e].sql # "" PROVE e \in Shown(cmds)
    <3>1. PICK l \in 1..n : page[l] = e
      BY <2>5
    <3>2. \E a \in DOMAIN groups : \E j \in DOMAIN groups[a].commands :
            groups[a].commands[j] = page[l]
      BY <2>5, <2>9, <3>1 DEF GroupsInv
    <3>3. e \in Event
      BY <2>3, <2>6
    <3>4. QED
      BY <2>7, <3>1, <3>2, <3>3
  <2> HIDE DEF some
  <2>10. Shown(cmds) = {e \in some : Log[e].sql # ""}
    BY <2>8, <2>9
  <2>11. QED
    BY <2>1, <2>2, <2>6, <2>10
<1>5. QED
  BY <1>3, <1>4

LEMMA StillIsExact ==
  ASSUME ReportTypeOK, SectionInv, IndexInv
  PROVE  ExactWhenStill
<1> SUFFICES ASSUME stdout # None, index = base PROVE Exact(stdout)
  BY DEF ExactWhenStill
<1> DEFINE p == stdout.parts
           docs == InWindow(index, span)
           about == {e \in docs : HasClient(e)}
           texts == {e \in By(docs, "query") : Log[e].sql \notin LongSQL}
           ip == [e \in about |-> IP(e)]
           sql == [e \in texts |-> Log[e].sql]
           Given(s) == Needs(s) \subseteq FieldsOf(index)
<1>1. /\ fields = FieldsOf(index) /\ stdout.window = span
      /\ \A s \in Section : p[s] = Answer(s, fields, index, span)
  <2>1. PICK at \in SUBSET index, seen \in [Section -> SUBSET index] :
           /\ base \subseteq at /\ fields = FieldsOf(at) /\ stdout = Report
           /\ \A s \in Section : /\ at \subseteq seen[s]
                                 /\ p[s] = Answer(s, fields, seen[s], span)
    BY Printed
  <2>2. at = index /\ \A s \in Section : seen[s] = index
    BY <2>1
  <2>3. QED
    BY <2>1, <2>2 DEF Report
<1>2. /\ index \in SUBSET Event /\ IsFiniteSet(index) /\ docs \in SUBSET index
      /\ IsFiniteSet(docs) /\ docs \in SUBSET Event
  BY SizeType DEF ReportTypeOK, IndexInv, InWindow
<1> HIDE DEF p, docs
<1>3. /\ p["docs"] = Cardinality(docs)
      /\ p["users"] = IF Given("users") THEN UsersTried(docs) ELSE Skipped
      /\ p["ips"] = IF Given("ips") THEN SourceIPs(docs) ELSE Skipped
      /\ p["sessions"] = IF Given("sessions") THEN Sessions(docs) ELSE Skipped
      /\ p["queries"] = IF Given("queries") THEN TopQueries(docs) ELSE Skipped
      /\ p["commands"] = IF Given("commands") THEN Commands(docs)
                         ELSE [groups |-> <<>>, total |-> 0]
  <2>1. /\ Asked("docs", docs) = Cardinality(docs) /\ Needs("docs") = {}
        /\ Asked("users", docs) = UsersTried(docs) /\ Zero["users"] = Skipped
        /\ Asked("ips", docs) = SourceIPs(docs) /\ Zero["ips"] = Skipped
        /\ Asked("sessions", docs) = Sessions(docs) /\ Zero["sessions"] = Skipped
        /\ Asked("queries", docs) = TopQueries(docs) /\ Zero["queries"] = Skipped
        /\ Asked("commands", docs) = Commands(docs)
        /\ Zero["commands"] = [groups |-> <<>>, total |-> 0]
    BY DEF Asked, Zero, Section, Needs
  <2>2. QED
    BY <1>1, <2>1 DEF Answer, Section, docs
<1>4. UsersAreExact(p["users"], docs)
  BY <1>2, <1>3, UsersExact
<1>5. SessionsAreExact(p["sessions"], docs)
  BY <1>2, <1>3, SessionsExact
<1>6. CommandsAreExact(p["commands"], docs)
  BY <1>2, <1>3, CommandsExact
<1>7. CountsAreExact(p["ips"], about, ip)
  <2>1. about \in SUBSET docs /\ about = About(docs)
    BY DEF About
  <2>2. IsFiniteSet(about) /\ \E V : ip \in [about -> V]
    <3>1. ip \in [about -> {IP(e) : e \in about}]
      OBVIOUS
    <3> HIDE DEF about, ip
    <3>2. QED
      BY <1>2, <2>1, <3>1, SizeType
  <2>3. CASE Given("ips")
    <3>1. p["ips"] = SourceIPs(docs)
      BY <1>3, <2>3
    <3>2. /\ p["ips"].cut = Others(ip) /\ DOMAIN p["ips"].rows = TopKeys(ip)
          /\ \A k \in TopKeys(ip) : p["ips"].rows[k] = Count(about, ip, k)
      BY <2>1, <3>1 DEF SourceIPs, Listing
    <3> DEFINE listing == p["ips"]
    <3> HIDE DEF about, ip, listing
    <3>3. QED
      BY <2>2, <3>2, CountsExact DEF listing
  <2>4. CASE ~Given("ips")
    <3>1. \A e \in about : e \in index /\ Needs("ips") \subseteq FieldsOfLine(e)
      BY <1>2 DEF Needs, FieldsOfLine
    <3>2. about = {}
      BY <2>4, <3>1, LeftOut DEF Section
    <3>3. p["ips"] = Skipped
      BY <1>3, <2>4
    <3> HIDE DEF about, ip
    <3>4. QED
      BY <2>2, <3>2, <3>3, CountsExact
  <2>5. QED
    BY <2>3, <2>4
<1>8. CountsAreExact(p["queries"], texts, sql)
  <2>1. texts \in SUBSET docs /\ texts = {e \in Saying(docs, {"query"}) : Log[e].sql \notin LongSQL}
    BY DEF Saying, By
  <2>2. IsFiniteSet(texts) /\ \E V : sql \in [texts -> V]
    <3>1. sql \in [texts -> {Log[e].sql : e \in texts}]
      OBVIOUS
    <3> HIDE DEF texts, sql
    <3>2. QED
      BY <1>2, <2>1, <3>1, SizeType
  <2>3. CASE Given("queries")
    <3>1. p["queries"] = TopQueries(docs)
      BY <1>3, <2>3
    <3>2. /\ p["queries"].cut = Others(sql) /\ DOMAIN p["queries"].rows = TopKeys(sql)
          /\ \A k \in TopKeys(sql) : p["queries"].rows[k] = Count(texts, sql, k)
      BY <2>1, <3>1 DEF TopQueries, Listing
    <3> DEFINE listing == p["queries"]
    <3> HIDE DEF texts, sql, listing
    <3>3. QED
      BY <2>2, <3>2, CountsExact DEF listing
  <2>4. CASE ~Given("queries")
    <3>1. \A e \in texts : e \in index /\ Needs("queries") \subseteq FieldsOfLine(e)
      BY <1>2 DEF Needs, FieldsOfLine, By
    <3>2. texts = {}
      BY <2>4, <3>1, LeftOut DEF Section
    <3>3. p["queries"] = Skipped
      BY <1>3, <2>4
    <3> HIDE DEF texts, sql
    <3>4. QED
      BY <2>2, <3>2, <3>3, CountsExact
  <2>5. QED
    BY <2>3, <2>4
<1>9. docs = {e \in index : stdout.window.start <= Log[e].time /\ Log[e].time <= stdout.window.end}
  BY <1>1 DEF docs, InWindow
<1>10. QED
  BY <1>3, <1>4, <1>5, <1>6, <1>7, <1>8, <1>9 DEF Exact, p

(* README.md:67-71: of an index nothing was shipped to while the run was    *)
(* under way, every section says what the lines in the window say: attempts *)
(* of each user and how many of them succeeded and failed, lines per source *)
(* IP, the clients that logged in and sent commands with their logins and   *)
(* commands, the frequency of each text, and the latest statements; and a   *)
(* capped section has the heaviest, and says that it is cut.                *)
THEOREM StillReportsAreExact == Spec => []ExactWhenStill
  BY SectionsInvariant, StillIsExact, PTL
=============================================================================
