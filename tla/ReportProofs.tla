---------------------------- MODULE ReportProofs ----------------------------
(***************************************************************************)
(* Proofs about the report generator: what its clock bounds, and that it    *)
(* is the service ReportService specifies, but for liveness.                *)
(***************************************************************************)
EXTENDS ReportGenerator, FiniteSetTheorems, TLAPS

-----------------------------------------------------------------------------
(* Invariants *)

(* The clock stays inside the deadline, the deadline inside the period.     *)
TimeInv ==
    /\ pc \in Ended => now <= due
    /\ pc = "start" => now = due - Period
    /\ pc \in Running \ {"start"} => deadline = (due - Period) + Deadline /\ now <= deadline

(* How long after the scheduled start the window of a run ends.             *)
Fixed == {"caps", "print", "post", "done"} \cup Asking
WindowInv ==
    /\ pc = "ping" => now = due - Period
    /\ pc = "health" => due - Period <= now /\ now <= (due - Period) + CallLimit
    /\ pc \in Fixed =>
         /\ due - Period <= span.end /\ span.end <= (due - Period) + 2 * CallLimit
         /\ span.start = span.end - window
    /\ pc \in Running \cup {"done"} /\ lastEnd # None =>
         /\ due - 2 * Period <= lastEnd
         /\ lastEnd <= (due - 2 * Period) + 2 * CallLimit

(* The sections asked for when the run has come to call c.                  *)
Before(c) == CASE c = "docs" -> {}
               [] c = "users" -> {"docs"}
               [] c = "ips" -> {"docs", "users"}
               [] c = "sessions" -> {"docs", "users", "ips"}
               [] c = "queries" -> {"docs", "users", "ips", "sessions"}
               [] c = "commands" -> {"docs", "users", "ips", "sessions", "queries"}
               [] OTHER -> Section

(* What the sections asked for so far were told: each of an index that held *)
(* what the fields were read from and what earlier sections were told of.   *)
Told(at, seen) ==
    /\ base \subseteq at /\ fields = FieldsOf(at)
    /\ \A s \in Before(pc) :
         /\ at \subseteq seen[s] /\ rep[s] = Answer(s, fields, seen[s], span)
         /\ \A t \in Before(s) : seen[t] \subseteq seen[s]

SectionInv ==
    /\ pc \in Running => posted = None
    /\ pc \in {"start", "ping", "health", "caps"} => rep = Zero
    /\ stdout # None => pc \in {"post", "done", "failed"} /\ stdout = Report
    /\ pc \in Asking \cup {"print", "post"} \/ stdout # None =>
         \E at \in SUBSET index, seen \in [Section -> SUBSET index] : Told(at, seen)
    /\ pc \in Asking => \A s \in Section \ Before(pc) : rep[s] = Zero[s]

-----------------------------------------------------------------------------
(* The parts of a step *)

LEMMA FieldsOfType == ASSUME NEW docs PROVE FieldsOf(docs) \in SUBSET {"msg", "fp", "ip", "user", "sql"}
  BY DEF FieldsOf, FieldsOfLine

LEMMA EndsByType ==
  ASSUME now \in Nat, deadline \in Nat, NEW l \in Nat, NEW t \in EndsBy(l)
  PROVE t \in Nat /\ now <= t /\ t <= now + l /\ t <= deadline
  BY DEF EndsBy, Smaller

LEMMA TypeInit == Init => ReportTypeOK
  BY TimesAssumption DEF Init, ReportTypeOK, Zero, Ended

(* Every step keeps the types. *)
LEMMA TypeStep == ReportTypeOK /\ [Next]_vars => ReportTypeOK'
<1> SUFFICES ASSUME ReportTypeOK, [Next]_vars PROVE ReportTypeOK'
  OBVIOUS
<1> USE TimesAssumption, EndsByType DEF ReportTypeOK, envVars, Ended, Running, Asking, Section
<1>1. ASSUME NEW e \in Event, Ship(e) PROVE ReportTypeOK'
  BY <1>1 DEF Ship
<1>2. CASE Tick
  BY <1>2 DEF Tick
<1>3. ASSUME NEW w \in Windows, Launch(w) PROVE ReportTypeOK'
  BY <1>3 DEF Launch, Zero
<1>4. CASE Start
  BY <1>4 DEF Start
<1>5. CASE Ping
  BY <1>5 DEF Ping, Answered
<1>6. CASE ClusterHealth
  BY <1>6 DEF ClusterHealth, Answered
<1>7. CASE ResolveFields
  BY <1>7, FieldsOfType DEF ResolveFields, Answered
<1>8. ASSUME NEW s \in Asking, Query(s) PROVE ReportTypeOK'
  BY <1>8 DEF Query, Answered, After
<1>9. ASSUME NEW s \in Asking, Skip(s) PROVE ReportTypeOK'
  BY <1>9 DEF Skip, After
<1>10. CASE WriteStdout
  BY <1>10 DEF WriteStdout
<1>11. CASE Post
  BY <1>11 DEF Post
<1>12. CASE CallFails
  BY <1>12 DEF CallFails, Fail
<1>13. CASE UNCHANGED vars
  BY <1>13 DEF vars
<1>14. QED
  BY <1>1, <1>2, <1>3, <1>4, <1>5, <1>6, <1>7, <1>8, <1>9, <1>10, <1>11, <1>12, <1>13
  DEF Next, Step

(* Type correctness, for every log and every choice of the times. *)
THEOREM ReportTypes == Spec => []ReportTypeOK
  BY TypeInit, TypeStep, PTL DEF Spec

-----------------------------------------------------------------------------
(* Time *)

LEMMA TimeInit == Init => TimeInv
  BY TimesAssumption DEF Init, TimeInv, Ended, Running, Asking

LEMMA TimeStep == ReportTypeOK /\ TimeInv /\ [Next]_vars => TimeInv'
<1> SUFFICES ASSUME ReportTypeOK, TimeInv, [Next]_vars PROVE TimeInv'
  OBVIOUS
<1>t. now \in Nat /\ due \in Nat /\ deadline \in Nat /\ Period \in Nat /\ Deadline \in Nat
      /\ CallLimit \in Nat /\ HookLimit \in Nat /\ Deadline < Period
  BY TimesAssumption DEF ReportTypeOK
<1> USE <1>t, EndsByType DEF TimeInv, envVars, Ended, Running, Asking
<1>1. ASSUME NEW e \in Event, Ship(e) PROVE TimeInv'
  BY <1>1 DEF Ship
<1>2. CASE Tick
  BY <1>2 DEF Tick
<1>3. ASSUME NEW w \in Windows, Launch(w) PROVE TimeInv'
  BY <1>3 DEF Launch
<1>4. CASE Start
  BY <1>4 DEF Start
<1>5. CASE Ping
  BY <1>5 DEF Ping, Answered
<1>6. CASE ClusterHealth
  BY <1>6 DEF ClusterHealth, Answered
<1>7. CASE ResolveFields
  BY <1>7 DEF ResolveFields, Answered
<1>8. ASSUME NEW s \in Asking, Query(s) PROVE TimeInv'
  BY <1>8 DEF Query, Answered, After
<1>9. ASSUME NEW s \in Asking, Skip(s) PROVE TimeInv'
  BY <1>9 DEF Skip, After
<1>10. CASE WriteStdout
  BY <1>10 DEF WriteStdout
<1>11. CASE Post
  BY <1>11 DEF Post
<1>12. CASE CallFails
  BY <1>12 DEF CallFails, Fail
<1>13. CASE UNCHANGED vars
  BY <1>13 DEF vars
<1>14. QED
  BY <1>1, <1>2, <1>3, <1>4, <1>5, <1>6, <1>7, <1>8, <1>9, <1>10, <1>11, <1>12, <1>13
  DEF Next, Step

(* main.go:1019: the deadline of a run keeps it from the start of the next. *)
THEOREM RunsAreApart == Spec => []RunsDoNotOverlap
<1>1. ReportTypeOK /\ TimeInv => RunsDoNotOverlap
  BY TimesAssumption DEF ReportTypeOK, TimeInv, RunsDoNotOverlap, Ended, Running, Asking
<1>2. QED
  BY <1>1, ReportTypes, TimeInit, TimeStep, PTL DEF Spec

-----------------------------------------------------------------------------
(* Windows *)

LEMMA WindowInit == Init => WindowInv
  BY DEF Init, WindowInv, Fixed, Running, Asking

LEMMA WindowStep == ReportTypeOK /\ TimeInv /\ WindowInv /\ [Next]_vars => WindowInv'
<1> SUFFICES ASSUME ReportTypeOK, TimeInv, WindowInv, [Next]_vars PROVE WindowInv'
  OBVIOUS
<1>t. /\ now \in Nat /\ due \in Nat /\ deadline \in Nat /\ Period \in Nat /\ Deadline \in Nat
      /\ CallLimit \in Nat /\ HookLimit \in Nat /\ window \in Int /\ None \notin Int
      /\ span \in [start : Int, end : Int] /\ lastEnd \in Int \cup {None}
  BY TimesAssumption DEF ReportTypeOK
<1> USE <1>t, EndsByType DEF WindowInv, Fixed, envVars, Ended, Running, Asking
<1>1. ASSUME NEW e \in Event, Ship(e) PROVE WindowInv'
  BY <1>1 DEF Ship
<1>2. CASE Tick
  BY <1>2 DEF Tick
<1>3. ASSUME NEW w \in Windows, Launch(w) PROVE WindowInv'
  <2>1. CASE pc = "done"
    BY <1>3, <2>1 DEF Launch
  <2>2. CASE pc # "done"
    BY <1>3, <2>2 DEF Launch
  <2>3. QED
    BY <2>1, <2>2
<1>4. CASE Start
  BY <1>4 DEF Start, TimeInv
<1>5. CASE Ping
  BY <1>5 DEF Ping, Answered
<1>6. CASE ClusterHealth
  BY <1>6 DEF ClusterHealth, Answered
<1>7. CASE ResolveFields
  BY <1>7 DEF ResolveFields, Answered
<1>8. ASSUME NEW s \in Asking, Query(s) PROVE WindowInv'
  BY <1>8 DEF Query, Answered, After
<1>9. ASSUME NEW s \in Asking, Skip(s) PROVE WindowInv'
  BY <1>9 DEF Skip, After
<1>10. CASE WriteStdout
  BY <1>10 DEF WriteStdout
<1>11. CASE Post
  BY <1>11 DEF Post
<1>12. CASE CallFails
  BY <1>12 DEF CallFails, Fail
<1>13. CASE UNCHANGED vars
  BY <1>13 DEF vars
<1>14. QED
  BY <1>1, <1>2, <1>3, <1>4, <1>5, <1>6, <1>7, <1>8, <1>9, <1>10, <1>11, <1>12, <1>13
  DEF Next, Step

(* main.go:907: between the windows of two runs in a row, or in both of     *)
(* them, lies at most the time the ping and the health of one run take.     *)
THEOREM WindowsAlmostMeet == Spec => []WindowsMeet
<1>1. ReportTypeOK /\ TimeInv /\ WindowInv => WindowsMeet
  <2> SUFFICES ASSUME ReportTypeOK, WindowInv,
                      pc \notin {"idle", "start", "ping", "health", "failed"},
                      lastEnd # None, window = Period
               PROVE span.start - lastEnd <= 2 * CallLimit /\ lastEnd - span.start <= 2 * CallLimit
    BY DEF WindowsMeet
  <2>1. pc \in Fixed /\ pc \in Running \cup {"done"}
    BY DEF ReportTypeOK, Fixed, Ended, Running
  <2>2. span \in [start : Int, end : Int] /\ lastEnd \in Int /\ due \in Nat
    BY DEF ReportTypeOK
  <2>3. QED
    BY <2>1, <2>2, TimesAssumption DEF WindowInv
<1>2. QED
  BY <1>1, ReportTypes, TimeInit, TimeStep, WindowInit, WindowStep, PTL DEF Spec

-----------------------------------------------------------------------------
(* Sections *)

LEMMA SectionInit == Init => SectionInv
  BY DEF Init, SectionInv, Running, Asking, Ended

(* Over an index without documents every section is the zero one.           *)
LEMMA NothingIsZero ==
  ASSUME NEW s \in Section, NEW w
  PROVE Answer(s, FieldsOf({}), {}, w) = Zero[s]
<1>1. FieldsOf({}) = {}
  BY DEF FieldsOf
<1>2. CASE s = "docs"
  <2>1. InWindow({}, w) = {} /\ Cardinality({}) = 0
    BY FS_EmptySet DEF InWindow
  <2>2. Answer(s, FieldsOf({}), {}, w) = 0
    BY <1>1, <1>2, <2>1 DEF Answer, Needs, Asked
  <2>3. QED
    BY <1>2, <2>2 DEF Zero, Section
<1>3. CASE s # "docs"
  <2>1. ~(Needs(s) \subseteq {})
    BY <1>3 DEF Needs, Section
  <2>2. QED
    BY <1>1, <2>1 DEF Answer
<1>4. QED
  BY <1>2, <1>3

(* The sections are asked for one after the other. *)
LEMMA AskedInOrder ==
  ASSUME NEW s \in Asking
  PROVE  /\ s \in Section /\ s \notin Before(s) /\ Before(s) \subseteq Section
         /\ Before(After[s]) = Before(s) \cup {s} /\ After[s] \in Asking \cup {"print"}
         /\ \A t \in Before(s) : s \notin Before(t) /\ Before(t) \subseteq Section
  BY DEF Before, After, Asking, Section

(* What was told stays told when the index grows. *)
LEMMA ToldLater ==
  ASSUME NEW at, NEW seen, Told(at, seen), Before(pc)' = Before(pc),
         rep' = rep, fields' = fields, span' = span, base' = base
  PROVE Told(at, seen)'
  BY DEF Told

(* One more section has been asked for. *)
LEMMA ToldMore ==
  ASSUME NEW s \in Asking, pc = s, pc' = After[s], fields' = fields, span' = span,
         base' = base, index' = index,
         rep'[s] = Answer(s, fields, index, span),
         \A t \in Section : t # s => rep'[t] = rep[t],
         NEW at \in SUBSET index, NEW seen \in [Section -> SUBSET index], Told(at, seen)
  PROVE  \E more \in [Section -> SUBSET index] : Told(at, more)'
<1> DEFINE more == [seen EXCEPT ![s] = index]
<1> USE AskedInOrder
<1>1. /\ more \in [Section -> SUBSET index] /\ more[s] = index
      /\ \A t \in Section : t # s => more[t] = seen[t]
  OBVIOUS
<1> HIDE DEF more
<1>2. base \subseteq at /\ fields = FieldsOf(at)
  BY DEF Told
<1>3. ASSUME NEW t \in Before(pc)'
      PROVE  /\ at \subseteq more[t] /\ rep'[t] = Answer(t, fields, more[t], span)
             /\ \A u \in Before(t) : more[u] \subseteq more[t]
  <2>1. CASE t = s
    BY <1>1, <2>1
  <2>2. CASE t # s
    <3>1. t \in Before(s) /\ t \in Section /\ more[t] = seen[t]
      BY <1>1, <1>3, <2>2
    <3>2. ASSUME NEW u \in Before(t) PROVE more[u] \subseteq more[t]
      <4>1. u # s /\ u \in Section /\ more[u] = seen[u]
        BY <1>1, <3>1
      <4>2. QED
        BY <3>1, <4>1 DEF Told
    <3>3. at \subseteq seen[t] /\ rep[t] = Answer(t, fields, seen[t], span)
      BY <3>1 DEF Told
    <3>4. QED
      BY <2>2, <3>1, <3>2, <3>3
  <2>3. QED
    BY <2>1, <2>2
<1>4. base' \subseteq at /\ fields' = FieldsOf(at)
  BY <1>2
<1>5. ASSUME NEW t \in Before(pc)'
      PROVE  /\ at \subseteq more[t] /\ rep'[t] = Answer(t, fields', more[t], span')
             /\ \A u \in Before(t) : more[u] \subseteq more[t]
  BY <1>3
<1>6. QED
  BY <1>1, <1>4, <1>5 DEF Told

LEMMA SectionStep == ReportTypeOK /\ SectionInv /\ [Next]_vars => SectionInv'
<1> SUFFICES ASSUME ReportTypeOK, SectionInv, [Next]_vars PROVE SectionInv'
  OBVIOUS
<1>u. ASSUME Before(pc)' = Before(pc), rep' = rep, fields' = fields, span' = span, base' = base,
             index \subseteq index',
             pc \in Asking \cup {"print", "post"} \/ stdout # None
      PROVE  \E at \in SUBSET index', seen \in [Section -> SUBSET index'] : Told(at, seen)'
  <2>1. PICK at \in SUBSET index, seen \in [Section -> SUBSET index] : Told(at, seen)
    BY <1>u DEF SectionInv
  <2>2. Told(at, seen)' /\ at \in SUBSET index' /\ seen \in [Section -> SUBSET index']
    BY <1>u, <2>1, ToldLater
  <2>3. QED
    BY <2>2
<1>v. ASSUME pc' = pc, posted' = posted, rep' = rep, fields' = fields, span' = span,
             base' = base, index \subseteq index', stdout' = stdout
      PROVE SectionInv'
  BY <1>v, <1>u DEF SectionInv, Report
<1>q. ASSUME NEW s \in Asking, pc = s, pc' = After[s], posted' = posted, fields' = fields,
             span' = span, base' = base, index' = index, stdout' = stdout,
             rep'[s] = Answer(s, fields, index, span),
             \A t \in Section : t # s => rep'[t] = rep[t]
      PROVE SectionInv'
  <2>1. PICK at \in SUBSET index, seen \in [Section -> SUBSET index] : Told(at, seen)
    BY <1>q DEF SectionInv
  <2>2. PICK more \in [Section -> SUBSET index] : Told(at, more)'
    BY <1>q, <2>1, ToldMore
  <2>3. pc' \in Asking \cup {"print"} /\ posted' = None /\ stdout' = None
    BY <1>q, AskedInOrder DEF Asking, SectionInv, Running
  <2>4. \A t \in Section \ Before(pc') : rep'[t] = Zero[t]
    BY <1>q, AskedInOrder DEF SectionInv
  <2>5. QED
    BY <1>q, <2>2, <2>3, <2>4 DEF SectionInv, Asking
<1>1. ASSUME NEW e \in Event, Ship(e) PROVE SectionInv'
  BY <1>1, <1>v DEF Ship
<1>2. CASE Tick
  BY <1>2, <1>v DEF Tick
<1>3. ASSUME NEW w \in Windows, Launch(w) PROVE SectionInv'
  BY <1>3 DEF Launch, SectionInv, Asking
<1>4. CASE Start
  BY <1>4 DEF Start, SectionInv, Running, Asking, envVars
<1>5. CASE Ping
  BY <1>5 DEF Ping, SectionInv, Running, Asking, envVars
<1>6. CASE ClusterHealth
  BY <1>6 DEF ClusterHealth, SectionInv, Running, Asking, envVars
<1>7. CASE ResolveFields
  <2>1. /\ rep' = Zero /\ fields' = FieldsOf(index) /\ posted' = None /\ index' = index
        /\ base' = base /\ base \subseteq index /\ stdout' = None /\ span' = span
    BY <1>7 DEF ResolveFields, SectionInv, Running, envVars, ReportTypeOK
  <2>2. CASE index = {}
    <3>1. pc' = "print"
      BY <1>7, <2>2 DEF ResolveFields
    <3> DEFINE none == [s \in Section |-> {}]
    <3>2. Told({}, none)'
      BY <2>1, <2>2, <3>1, NothingIsZero DEF Told, Before, Section
    <3>3. none \in [Section -> SUBSET index']
      OBVIOUS
    <3>4. QED
      BY <2>1, <3>1, <3>2, <3>3 DEF SectionInv, Asking
  <2>3. CASE index # {}
    <3>1. pc' = "docs" /\ Before("docs") = {}
      BY <1>7, <2>3 DEF ResolveFields, Before
    <3> DEFINE none == [s \in Section |-> {}]
    <3>2. Told(index, none)'
      BY <2>1, <3>1 DEF Told
    <3>3. none \in [Section -> SUBSET index']
      OBVIOUS
    <3>4. QED
      BY <2>1, <3>1, <3>2, <3>3 DEF SectionInv, Asking
  <2>4. QED
    BY <2>2, <2>3
<1>8. ASSUME NEW s \in Asking, Query(s) PROVE SectionInv'
  <2>1. s \in Section
    BY DEF Asking, Section
  <2>2. rep'[s] = Answer(s, fields, index, span)
        /\ \A t \in Section : t # s => rep'[t] = rep[t]
    BY <1>8, <2>1 DEF Query, ReportTypeOK
  <2>3. QED
    BY <1>8, <1>q, <2>2 DEF Query, envVars
<1>9. ASSUME NEW s \in Asking, Skip(s) PROVE SectionInv'
  <2>1. s \in Section /\ s \notin Before(pc) /\ pc \in Asking /\ pc = s
    BY <1>9 DEF Skip, Before, Asking, Section
  <2>2. rep[s] = Zero[s] /\ Answer(s, fields, index, span) = Zero[s]
    BY <1>9, <2>1 DEF SectionInv, Answer, Skip
  <2>3. QED
    BY <1>9, <1>q, <2>2 DEF Skip, envVars
<1>10. CASE WriteStdout
  <2>1. Before(pc)' = Before(pc) /\ pc' = "post" /\ pc = "print" /\ stdout' = Report'
    BY <1>10 DEF WriteStdout, Before, Report
  <2>2. QED
    BY <1>10, <1>u, <2>1 DEF WriteStdout, SectionInv, Running, Asking, envVars
<1>11. CASE Post
  <2>1. Before(pc)' = Before(pc) /\ pc = "post" /\ pc' \in {"done", "failed"}
    BY <1>11 DEF Post, Before
  <2>2. /\ rep' = rep /\ fields' = fields /\ span' = span /\ base' = base /\ index' = index
        /\ stdout' = stdout
    BY <1>11 DEF Post, envVars
  <2>3. \E at \in SUBSET index', seen \in [Section -> SUBSET index'] : Told(at, seen)'
    BY <1>u, <2>1, <2>2
  <2>4. stdout' # None => stdout' = Report'
    BY <2>2 DEF SectionInv, Report
  <2>5. QED
    BY <2>1, <2>3, <2>4 DEF SectionInv, Running, Asking
<1>12. CASE CallFails
  <2>1. stdout # None => Before(pc)' = Before(pc)
    BY <1>12 DEF CallFails, Fail, SectionInv, Before, Asking
  <2>2. QED
    BY <1>12, <1>u, <2>1 DEF CallFails, Fail, SectionInv, Running, Asking, Report, envVars
<1>13. CASE UNCHANGED vars
  BY <1>13, <1>v DEF vars
<1>14. QED
  BY <1>1, <1>2, <1>3, <1>4, <1>5, <1>6, <1>7, <1>8, <1>9, <1>10, <1>11, <1>12, <1>13
  DEF Next, Step

-----------------------------------------------------------------------------
(* The refinement *)

LEMMA ServiceInit == Init => Service!ServiceInit
  BY DEF Init, Service!ServiceInit, Outcome, Running, Asking

LEMMA ServiceStep ==
  ReportTypeOK /\ SectionInv /\ [Next]_vars => [Service!ServiceNext]_(Service!serviceVars)
<1> SUFFICES ASSUME ReportTypeOK, SectionInv, [Next]_vars
             PROVE Service!ServiceNext \/ UNCHANGED Service!serviceVars
  OBVIOUS
<1> USE DEF envVars, Outcome, Running, Asking, Ended, Service!serviceVars
<1>1. ASSUME NEW e \in Event, Ship(e) PROVE Service!Ship
  BY <1>1 DEF Ship, Service!Ship, ReportTypeOK
<1>2. CASE Tick
  BY <1>2 DEF Tick
<1>3. ASSUME NEW w \in Windows, Launch(w) PROVE Service!Launch
  BY <1>3 DEF Launch, Service!Launch
<1>4. CASE Start
  BY <1>4 DEF Start, Service!ServiceNext, Service!Finish, SectionInv
<1>5. CASE Ping
  BY <1>5 DEF Ping
<1>6. CASE ClusterHealth
  BY <1>6 DEF ClusterHealth
<1>7. CASE ResolveFields
  BY <1>7 DEF ResolveFields
<1>8. ASSUME NEW s \in Asking, Query(s) PROVE UNCHANGED Service!serviceVars
  BY <1>8 DEF Query, After
<1>9. ASSUME NEW s \in Asking, Skip(s) PROVE UNCHANGED Service!serviceVars
  BY <1>9 DEF Skip, After
<1>10. CASE WriteStdout
  BY <1>10 DEF WriteStdout
<1>11. ASSUME Post PROVE Service!Finish
  <2>1. pc = "post" /\ pc' \in {"done", "failed"} /\ posted' = Report
        /\ index' = index /\ base' = base
    BY <1>11 DEF Post
  <2>2. Before("post") = Section
    BY DEF Before
  <2>3. PICK at \in SUBSET index, seen \in [Section -> SUBSET index] : Told(at, seen)
    BY <2>1 DEF SectionInv
  <2>4. Report.window = span /\ Report.parts = rep /\ span \in [start : Int, end : Int]
    BY DEF Report, ReportTypeOK
  <2>5. Service!Truthful(posted')
    BY <2>1, <2>2, <2>3, <2>4 DEF Service!Truthful, Told
  <2>6. QED
    BY <2>1, <2>5 DEF Service!Finish
<1>12. ASSUME CallFails PROVE Service!Finish
  BY <1>12 DEF CallFails, Fail, Service!Finish, SectionInv
<1>13. CASE UNCHANGED vars
  BY <1>13 DEF vars
<1>14. QED
  BY <1>1, <1>2, <1>3, <1>4, <1>5, <1>6, <1>7, <1>8, <1>9, <1>10, <1>11, <1>12, <1>13
  DEF Next, Step, Service!ServiceNext

(* collect and sendToDiscord: whatever is shipped meanwhile and whichever   *)
(* call fails, at most one report is posted per run, and each of its        *)
(* sections is what the index held at a moment of that run.                 *)
THEOREM ReportIsTruthful == Spec => ImplementsServiceSafely
<1>1. Spec => [](ReportTypeOK /\ SectionInv)
  BY TypeInit, TypeStep, SectionInit, SectionStep, PTL DEF Spec
<1>2. QED
  BY <1>1, ServiceInit, ServiceStep, PTL DEF Spec, ImplementsServiceSafely, Service!ServiceSafety
=============================================================================
