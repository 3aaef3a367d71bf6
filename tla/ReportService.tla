---------------------------- MODULE ReportService ----------------------------
(***************************************************************************)
(* What the operator of the honeypot expects of a report: a run, once       *)
(* launched, ends; it says "ok" only if it put a report on the channel, and *)
(* it puts at most one there; and every section of that report is what the  *)
(* index held at some moment of the run, later sections not excepted.       *)
(* Documents reach the index whenever they do.                              *)
(***************************************************************************)
CONSTANTS
    Doc,                \* documents
    Span,               \* windows of time
    Part,               \* the sections of a report
    Fields(_),          \* the fields an index has
    Value(_, _, _, _),  \* a section, from fields, documents and window
    NoReport

VARIABLES
    index,   \* the documents Elasticsearch holds
    base,    \* those it held when the run was launched
    run,     \* "idle", "working", "ok" or "failed"
    posted   \* the report this run put on the channel

serviceVars == <<index, base, run, posted>>

ServiceInit == index = {} /\ base = {} /\ run = "idle" /\ posted = NoReport

Ship == index' \in SUBSET Doc /\ index \subseteq index' /\ UNCHANGED <<base, run, posted>>

Launch ==
    /\ run # "working"
    /\ base' = index /\ run' = "working" /\ posted' = NoReport
    /\ UNCHANGED index

(* A report of what the index held while the run went on. *)
Truthful(r) ==
    /\ r.window \in Span
    /\ \E at \in SUBSET index :
         /\ base \subseteq at
         /\ \A p \in Part : \E docs \in SUBSET index :
              at \subseteq docs /\ r.parts[p] = Value(p, Fields(at), docs, r.window)

Finish ==
    /\ run = "working"
    /\ \/ run' = "failed" /\ posted' = NoReport
       \/ run' \in {"ok", "failed"} /\ Truthful(posted')
    /\ UNCHANGED <<index, base>>

ServiceNext == Ship \/ Launch \/ Finish

ServiceSafety == ServiceInit /\ [][ServiceNext]_serviceVars
ServiceSpec == ServiceSafety /\ WF_serviceVars(Finish)
=============================================================================
