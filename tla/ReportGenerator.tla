--------------------------- MODULE ReportGenerator ---------------------------
(***************************************************************************)
(* The report generator, cmd/report_generator/main.go: a one-shot program   *)
(* a scheduler starts once per period.  It pings Elasticsearch, asks for    *)
(* its health and for the fields of the index, makes up to six queries one  *)
(* after the other, prints the report and posts it to a webhook.  All of    *)
(* that has one deadline; any error ends the run and nothing is retried.    *)
(*                                                                         *)
(* Meanwhile Vector ships log lines to the index, whenever it gets to it.   *)
(* pc is the call run is about to make.  Time is counted in units as long   *)
(* as MC modules please; a call takes a number of them, up to its timeout.  *)
(***************************************************************************)
EXTENDS ReportQueries

CONSTANTS
    Windows,    \* values of --window
    Period,     \* between two scheduled runs
    Deadline,   \* the 60 s of run
    CallLimit,  \* the 10 s of ESClient.http
    HookLimit,  \* the 20 s of webhookClient
    FirstRun,   \* when the first run is due
    MaxTime,    \* bound on the clock
    None        \* no report, no time

ASSUME TimesAssumption ==
    /\ Windows \subseteq Int
    /\ {Period, Deadline, CallLimit, HookLimit, FirstRun, MaxTime} \subseteq Nat
    /\ Deadline < Period
    /\ None \notin Int

VARIABLES
    now,       \* the clock
    index,     \* the lines Elasticsearch holds
    webhook,   \* DISCORD_REPORT_WEBHOOK is set
    pc,        \* the call the run is about to make
    due,       \* when the scheduler starts the next run
    deadline,  \* of the context of the run
    window,    \* --window
    span,      \* collect's Start and End
    fields,    \* what resolveFields found
    rep,       \* the report so far
    stdout,    \* the report printed
    posted,    \* the report that reached the channel
    base,      \* history: the index when the run was started
    lastEnd    \* history: where the window of the run before ended, if it succeeded

vars == <<now, index, webhook, pc, due, deadline, window, span, fields, rep, stdout, posted,
          base, lastEnd>>
envVars == <<index, webhook, due, base, lastEnd>>

Asking == {"docs", "users", "ips", "sessions", "queries", "commands"}

\* Mutant: the commands asked for first.
MutAfter == [docs |-> "commands", commands |-> "users", users |-> "ips", ips |-> "sessions",
             sessions |-> "queries", queries |-> "print"]

(* The order of the queries in collect. *)
After == [docs |-> "users", users |-> "ips", ips |-> "sessions", sessions |-> "queries",
          queries |-> "commands", commands |-> "print"]
Ended == {"idle", "done", "failed"}
Running == {"start", "ping", "health", "caps", "print", "post"} \cup Asking

Init ==
    /\ now = 0 /\ index = {} /\ webhook \in BOOLEAN
    /\ pc = "idle" /\ due = FirstRun /\ deadline = 0 /\ window = 0
    /\ span = [start |-> 0, end |-> 0]
    /\ fields = {} /\ rep = Zero /\ stdout = None /\ posted = None
    /\ base = {} /\ lastEnd = None

-----------------------------------------------------------------------------
(* The environment *)

(* Vector ships a line that was logged: late, or before earlier ones. *)
Ship(e) ==
    /\ e \notin index /\ Log[e].time <= now
    /\ index' = index \cup {e}
    /\ UNCHANGED <<now, webhook, pc, due, deadline, window, span, fields, rep, stdout, posted,
                   base, lastEnd>>

(* Time passes between two runs. *)
Tick ==
    /\ pc \in Ended /\ now < due /\ now < MaxTime
    /\ now' = now + 1
    /\ UNCHANGED <<index, webhook, pc, due, deadline, window, span, fields, rep, stdout, posted,
                   base, lastEnd>>

(* The scheduler starts a new process: nothing of the last run is left. *)
Launch(w) ==
    /\ pc \in Ended /\ now = due
    /\ pc' = "start" /\ due' = due + Period /\ window' = w
    /\ base' = index
    /\ lastEnd' = IF pc = "done" THEN span.end ELSE None
    /\ fields' = {} /\ rep' = Zero /\ stdout' = None /\ posted' = None
    /\ UNCHANGED <<now, index, webhook, deadline, span>>

-----------------------------------------------------------------------------
(* The run *)

(* A call made now with timeout l ends at t, before the deadline or with it. *)
EndsBy(l) == now..Smaller(now + l, deadline)

(* Any error is returned up to main, which exits with 1. *)
Fail(l) ==
    /\ now' \in EndsBy(l)
    /\ pc' = "failed"
    /\ UNCHANGED <<envVars, deadline, window, span, fields, rep, stdout, posted>>

(* run: a window that is not positive is refused, else the deadline is set. *)
Start ==
    /\ pc = "start"
    /\ IF window <= 0 THEN pc' = "failed" /\ UNCHANGED deadline
       ELSE pc' = "ping" /\ deadline' = now + Deadline
    /\ UNCHANGED <<envVars, now, window, span, fields, rep, stdout, posted>>

\* Mutant: the calls are not given the context of the run.
MutAnswered == now' \in now..(now + CallLimit)

(* ESClient.do answers with status 200. *)
Answered == now < deadline /\ now' \in EndsBy(CallLimit)

Ping ==
    /\ pc = "ping" /\ Answered /\ pc' = "health"
    /\ UNCHANGED <<envVars, deadline, window, span, fields, rep, stdout, posted>>

\* Mutant: the window starts where the schedule says the next one does.
MutClusterHealth ==
    /\ pc = "health" /\ Answered /\ pc' = "caps"
    /\ span' = [start |-> due - window, end |-> now']
    /\ UNCHANGED <<envVars, deadline, window, fields, rep, stdout, posted>>

(* clusterHealth, and collect fixes its window when it is entered. *)
ClusterHealth ==
    /\ pc = "health" /\ Answered /\ pc' = "caps"
    /\ span' = [start |-> now' - window, end |-> now']
    /\ UNCHANGED <<envVars, deadline, window, fields, rep, stdout, posted>>

(* resolveFields: a missing index is an empty report; an index without a    *)
(* date field is an error (Fail).  Vector creates the index with the first  *)
(* line it ships (vector.yaml:41-44), so an index that is missing is one    *)
(* nothing was shipped to.  isIndexNotFound takes any other 404 for that,   *)
(* which only another server at that address would send.                    *)
ResolveFields ==
    /\ pc = "caps" /\ Answered
    /\ pc' = IF index = {} THEN "print" ELSE "docs"
    /\ fields' = FieldsOf(index)
    /\ UNCHANGED <<envVars, deadline, window, span, rep, stdout, posted>>

(* countInWindow, usersTried, sourceIPs, authenticatedSessions, topQueries, *)
(* authenticatedCommands: one search over what the index holds now.         *)
Query(s) ==
    /\ pc = s /\ Needs(s) \subseteq fields /\ Answered
    /\ rep' = [rep EXCEPT ![s] = Answer(s, fields, index, span)]
    /\ pc' = After[s]
    /\ UNCHANGED <<envVars, deadline, window, span, fields, stdout, posted>>

\* Mutant: a query that fails leaves its section empty.
MutSkip(s) ==
    /\ pc = s /\ pc' = After[s]
    /\ UNCHANGED <<envVars, now, deadline, window, span, fields, rep, stdout, posted>>

(* ... or none, when a field is missing: the section stays empty. *)
Skip(s) ==
    /\ pc = s /\ ~(Needs(s) \subseteq fields)
    /\ pc' = After[s]
    /\ UNCHANGED <<envVars, now, deadline, window, span, fields, rep, stdout, posted>>

Report == [window |-> span, parts |-> rep]

(* renderMarkdown, written to standard output. *)
WriteStdout ==
    /\ pc = "print" /\ pc' = "post"
    /\ stdout' = Report
    /\ UNCHANGED <<envVars, now, deadline, window, span, fields, rep, posted>>

\* Mutant: a post whose answer is lost is made again.
MutPost ==
    /\ pc = "post" /\ webhook /\ now < deadline
    /\ now' \in EndsBy(HookLimit)
    /\ posted' = Report
    /\ pc' \in {"done", "post"}
    /\ UNCHANGED <<envVars, deadline, window, span, fields, rep, stdout>>

(* sendToDiscord: the webhook is looked at only now.  The channel gets the  *)
(* report, and the answer says so in time, or is lost or too late.          *)
Post ==
    /\ pc = "post" /\ webhook /\ now < deadline
    /\ now' \in EndsBy(HookLimit)
    /\ posted' = Report
    /\ pc' \in {"done", "failed"}
    /\ UNCHANGED <<envVars, deadline, window, span, fields, rep, stdout>>

(* A call that fails: refused, an error status, too slow, or interrupted.   *)
CallFails ==
    \/ /\ pc \in {"ping", "health", "caps"} \/ (pc \in Asking /\ Needs(pc) \subseteq fields)
       /\ Fail(CallLimit)
    \/ pc = "print" /\ Fail(0)
    \/ pc = "post" /\ Fail(IF webhook THEN HookLimit ELSE 0)

Step ==
    \/ Start \/ Ping \/ ClusterHealth \/ ResolveFields \/ WriteStdout \/ Post \/ CallFails
    \/ \E s \in Asking : Query(s) \/ Skip(s)

Next == Step \/ Tick \/ (\E e \in Event : Ship(e)) \/ \E w \in Windows : Launch(w)

(* The program is sequential and every call has a timeout. *)
Spec == Init /\ [][Next]_vars /\ WF_vars(Step)

-----------------------------------------------------------------------------
(* Properties *)

(* Type correctness of the run and its history. *)
ReportTypeOK ==
    /\ now \in Nat /\ index \in SUBSET Event /\ webhook \in BOOLEAN
    /\ pc \in Ended \cup Running
    /\ due \in Nat /\ deadline \in Nat /\ window \in Windows \cup {0}
    /\ span \in [start : Int, end : Int]
    /\ fields \in SUBSET {"msg", "fp", "ip", "user", "sql"}
    /\ DOMAIN rep = Section
    /\ base \in SUBSET index /\ lastEnd \in Int \cup {None}

(* A run, or what it posted, seen from outside. *)
Outcome == CASE pc \in Running -> "working"
             [] pc = "idle" -> "idle"
             [] pc = "done" -> "ok"
             [] pc = "failed" -> "failed"

(* The run is the service its operator expects: at most one report, posted  *)
(* whole or not at all, success only when it was posted, every section true *)
(* of the index at some moment of the run; and every run ends.              *)
Service == INSTANCE ReportService WITH
    Doc <- Event, Span <- [start : Int, end : Int], Part <- Section,
    Fields <- FieldsOf, Value <- Answer, NoReport <- None,
    index <- index, base <- base, run <- Outcome, posted <- posted
ImplementsService == Service!ServiceSpec

(* The same without the liveness, which is what TLAPS proves. *)
ImplementsServiceSafely == Service!ServiceSafety

(* The scheduler starts a run per period whether or not the last is over:   *)
(* the deadline is what keeps two runs from posting side by side.           *)
RunsDoNotOverlap == pc \in Running => now < due

(* collect takes its window from the clock after two calls, not from the    *)
(* schedule.  The windows of two runs in a row, each as long as the period, *)
(* still meet up to what those calls took: no more is reported twice or     *)
(* left out.                                                                *)
WindowsMeet ==
    pc \notin {"idle", "start", "ping", "health", "failed"} /\ lastEnd # None /\ window = Period =>
      /\ span.start - lastEnd <= 2 * CallLimit
      /\ lastEnd - span.start <= 2 * CallLimit

(* n of the heaviest members of a set, or all when there are no more. *)
Heaviest(n, some, all, weight) ==
    /\ some \subseteq all /\ Cardinality(some) = Smaller(n, Cardinality(all))
    /\ \A x \in some, y \in all \ some : weight[x] >= weight[y]

By(docs, m) == {e \in docs : Log[e].msg = m}
Auth(docs) == By(docs, "auth_success") \cup By(docs, "auth_failure")
OfUser(S, u) == {e \in S : User(e) = u}
Of(S, f) == {e \in S : HasClient(e) /\ Fp(e) = f}
Active(docs) == {f \in {Fp(e) : e \in By(docs, "query")} : Of(By(docs, "auth_success"), f) # {}}
Sizes(parts) == [k \in DOMAIN parts |-> Cardinality(parts[k])]

(* "usernames tried (attempts, plus success/failure split)" *)
UsersAreExact(users, docs) ==
    LET names == {User(e) : e \in Auth(docs)}
        tries == [u \in names |-> OfUser(Auth(docs), u)]
    IN /\ Heaviest(AggSize, DOMAIN users.rows, names, Sizes(tries))
       /\ users.cut <=> Cardinality(names) > AggSize
       /\ \A u \in DOMAIN users.rows :
            /\ users.rows[u].attempts = Cardinality(OfUser(Auth(docs), u))
            /\ users.rows[u].success = Cardinality(OfUser(By(docs, "auth_success"), u))
            /\ users.rows[u].failure = Cardinality(OfUser(By(docs, "auth_failure"), u))

(* "source IPs (log lines per IP)", "top queries (exact SQL text with       *)
(* frequency)": each key with the number of lines that have it.             *)
CountsAreExact(listing, lines, key) ==
    LET keys == {key[e] : e \in lines}
        parts == [k \in keys |-> {e \in lines : key[e] = k}]
    IN /\ Heaviest(AggSize, DOMAIN listing.rows, keys, Sizes(parts))
       /\ listing.cut <=> Cardinality(keys) > AggSize
       /\ \A k \in DOMAIN listing.rows : listing.rows[k] = Cardinality(parts[k])

(* "authenticated sessions (fp, ip, user, logins, commands; commands > 0    *)
(* only)": the clients that logged in and sent commands, among those with   *)
(* the most lines of either kind.                                           *)
SessionsAreExact(sessions, docs) ==
    LET lines == By(docs, "auth_success") \cup By(docs, "query")
        clients == {Fp(e) : e \in lines}
        parts == [f \in clients |-> Of(lines, f)]
        rows == sessions.rows
    IN /\ \E top \in SUBSET clients :
            /\ Heaviest(AggSize, top, clients, Sizes(parts))
            /\ {rows[i].fp : i \in DOMAIN rows} = top \cap Active(docs)
       /\ sessions.cut <=> Cardinality(clients) > AggSize
       /\ \A i \in DOMAIN rows :
            LET f == rows[i].fp
            IN /\ rows[i].ips = {IP(e) : e \in Of(lines, f)}
               /\ rows[i].users = {User(e) : e \in Of(lines, f)}
               /\ rows[i].logins = Cardinality(Of(By(docs, "auth_success"), f))
               /\ rows[i].commands = Cardinality(Of(By(docs, "query"), f))
       /\ \A i, j \in DOMAIN rows :
            i < j => rows[i].fp # rows[j].fp /\ rows[i].commands >= rows[j].commands

(* "authenticated commands (latest 100 query hits with fp ...)": all are    *)
(* counted, and of the latest those that have a text are shown.             *)
CommandsAreExact(cmds, docs) ==
    LET hits == By(docs, "query")
    IN /\ cmds.total = Cardinality(hits)
       /\ \E page \in SUBSET hits :
            /\ Heaviest(CommandListSize, page, hits, [e \in hits |-> Log[e].time])
            /\ Shown(cmds) = {e \in page : Log[e].sql # ""}

(* A report of an index that stood still while the run went on: every       *)
(* section of README.md:67-71 says what the lines in the window say, no row *)
(* more or less than its cap allows and no number off, in spite of separate *)
(* queries, filters and caps, and of the sessions dropped after the cap.    *)
Exact(r) ==
    LET docs == {e \in index : r.window.start <= Log[e].time /\ Log[e].time <= r.window.end}
        about == {e \in docs : HasClient(e)}
        texts == {e \in By(docs, "query") : Log[e].sql \notin LongSQL}
    IN /\ r.parts["docs"] = Cardinality(docs)
       /\ UsersAreExact(r.parts["users"], docs)
       /\ CountsAreExact(r.parts["ips"], about, [e \in about |-> IP(e)])
       /\ SessionsAreExact(r.parts["sessions"], docs)
       /\ CountsAreExact(r.parts["queries"], texts, [e \in texts |-> Log[e].sql])
       /\ CommandsAreExact(r.parts["commands"], docs)
ExactWhenStill == stdout # None /\ index = base => Exact(stdout)

(* The queries are separate looks at a growing index, so sections may       *)
(* differ, but only one way: what a section counted, the later ones count.  *)
Total(rows) == MapThenSumSet(LAMBDA i : rows[i], DOMAIN rows)
LaterSectionsSeeMore ==
    stdout # None /\ "sql" \in fields =>
      LET p == stdout.parts
          sessions == p["sessions"].rows
      IN /\ Total(p["queries"].rows) <= p["commands"].total
         /\ Total([i \in DOMAIN sessions |-> sessions[i].commands]) <= p["commands"].total

(* "No ... in this window" is never the cover of a failed or unmade query:  *)
(* a section that says so had nothing to show when the run was started.     *)
Seen(msgs) == {e \in InWindow(base, span) : Log[e].msg \in msgs /\ HasClient(e)}
NothingMeansNothing ==
    stdout # None =>
      LET p == stdout.parts
      IN /\ Note(p["users"]) = "nothing" => Seen({"auth_success", "auth_failure"}) = {}
         /\ Note(p["ips"]) = "nothing" => About(InWindow(base, span)) = {}
         /\ Note(p["queries"]) = "nothing" =>
               \A e \in Seen({"query"}) : Log[e].sql \in LongSQL
         /\ p["commands"].total = 0 => Seen({"query"}) = {}

(* The comment on parseCommandHits, for every page: one group per client,   *)
(* which the fingerprint makes one user, groups by their latest command and *)
(* commands within a group latest first.                                    *)
CommandsAreGrouped ==
    stdout # None =>
      LET groups == stdout.parts["commands"].groups
          TimeAt(i, j) == Log[groups[i].commands[j]].time
      IN /\ \A i, j \in DOMAIN groups : groups[i].fp = groups[j].fp => i = j
         /\ \A i \in DOMAIN groups : Cardinality(groups[i].users) = 1
         /\ \A i, j \in DOMAIN groups : i < j => TimeAt(i, 1) >= TimeAt(j, 1)
         /\ \A i \in DOMAIN groups : \A j, k \in DOMAIN groups[i].commands :
              j < k => TimeAt(i, j) >= TimeAt(i, k)

(* The comment on aggSize: "When a report hits the cap it says so instead   *)
(* of silently dropping the tail."  If a client that had logged in and sent *)
(* commands when the run began is not among the sessions, the note under    *)
(* them says that there are more.                                           *)
CapsAreSaid ==
    stdout # None /\ Note(stdout.parts["sessions"]) # "more" =>
      LET rows == stdout.parts["sessions"].rows
      IN Active(InWindow(base, span)) \subseteq {rows[i].fp : i \in DOMAIN rows}
=============================================================================
