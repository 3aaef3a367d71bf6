---------------------------- MODULE ReportQueries ----------------------------
(***************************************************************************)
(* What the report generator asks Elasticsearch for and makes of the        *)
(* answers (cmd/report_generator/main.go), over documents that are the log  *)
(* lines of the server and the seeder.                                      *)
(*                                                                         *)
(* A line says at what time it was logged, its message, the client it is    *)
(* about (NoClient for lines that are about none) and, for "query", the     *)
(* statement.  Elasticsearch is external: a terms aggregation is the        *)
(* buckets with the most documents, ties in some fixed order.               *)
(***************************************************************************)
EXTENDS Integers, FiniteSets, SequencesExt

CONSTANTS
    Event,            \* log lines
    Log,              \* what each of them says
    NoClient,
    LongSQL,          \* statements the index keeps no keyword of (ignore_above)
    AggSize,          \* aggSize
    CommandListSize   \* commandListSize

ASSUME SizesAssumption == AggSize \in Nat \ {0} /\ CommandListSize \in Nat \ {0}

-----------------------------------------------------------------------------
(* Log lines *)

(* computeHash: sorted attributes make it a function of their set, and 64   *)
(* bits of SHA-256 are taken to tell clients apart.                         *)
ComputeHash(c) == <<c.ip, c.user, c.tls, c.attrs>>

HasClient(e) == Log[e].client # NoClient

(* auth.go and handler.go: logins, attempts and statements are logged with  *)
(* the attributes of the client that makes them.                            *)
ASSUME LogAssumption ==
    \A e \in Event :
      /\ Log[e].time \in Int
      /\ Log[e].msg \in {"auth_success", "auth_failure", "query"} => HasClient(e)

Fp(e) == ComputeHash(Log[e].client)
User(e) == Log[e].client.user
IP(e) == Log[e].client.ip

\* Mutant: the user is logged under the name of the struct's field.
MutFieldsOfLine(e) ==
    {"msg"} \cup (IF HasClient(e) THEN {"fp", "ip", "username"} ELSE {})
            \cup (IF Log[e].msg = "query" THEN {"sql"} ELSE {})

(* AttrsSlice puts fp, ip and user on every line about a client, and only   *)
(* HandleQuery logs a statement.                                            *)
FieldsOfLine(e) ==
    {"msg"} \cup (IF HasClient(e) THEN {"fp", "ip", "user"} ELSE {})
            \cup (IF Log[e].msg = "query" THEN {"sql"} ELSE {})

(* resolveFields: a field is usable once some document has it (parseCaps,   *)
(* pickField).                                                              *)
FieldsOf(docs) == UNION {FieldsOfLine(e) : e \in docs}

-----------------------------------------------------------------------------
(* Queries *)

\* Mutant: the window has no start.
MutInWindow(docs, w) == {e \in docs : Log[e].time <= w.end}

(* rangeQuery: gte start, lte end. *)
InWindow(docs, w) == {e \in docs : w.start <= Log[e].time /\ Log[e].time <= w.end}

Saying(docs, msgs) == {e \in docs : Log[e].msg \in msgs}
About(docs) == {e \in docs : HasClient(e)}

Smaller(a, b) == IF a <= b THEN a ELSE b

(* A key is a function from the lines that are grouped by it. *)
Count(docs, key, k) == Cardinality({e \in docs : key[e] = k})

(* The keys of the buckets a terms aggregation returns. *)
TopKeys(key) ==
    CHOOSE top \in SUBSET Range(key) :
      /\ Cardinality(top) = Smaller(AggSize, Cardinality(Range(key)))
      /\ \A k \in top, l \in Range(key) \ top :
           Count(DOMAIN key, key, k) >= Count(DOMAIN key, key, l)

\* Mutant: a full list counts as a cut one.
MutOthers(key) == Cardinality(TopKeys(key)) = AggSize

(* sum_other_doc_count > 0 *)
Others(key) == Range(key) # TopKeys(key)

(* The elements of a set with the greatest weights first, ties in a fixed   *)
(* order.  A weight is a function on the set.                               *)
Descending(S, weight) ==
    CHOOSE list \in [1..Cardinality(S) -> S] :
      \A i, j \in 1..Cardinality(S) :
        i < j => list[i] # list[j] /\ weight[list[i]] >= weight[list[j]]

Listing(rows, cut) == [rows |-> rows, cut |-> cut]
Skipped == Listing(<<>>, FALSE)

(* usersTried, parseUserAgg *)
UsersTried(docs) ==
    LET tries == About(Saying(docs, {"auth_success", "auth_failure"}))
        user == [e \in tries |-> User(e)]
    IN Listing([u \in TopKeys(user) |->
                  [attempts |-> Count(tries, user, u),
                   success |-> Count(Saying(tries, {"auth_success"}), user, u),
                   failure |-> Count(Saying(tries, {"auth_failure"}), user, u)]],
               Others(user))

(* sourceIPs, parseIPAgg *)
SourceIPs(docs) ==
    LET lines == About(docs)
        ip == [e \in lines |-> IP(e)]
    IN Listing([i \in TopKeys(ip) |-> Count(lines, ip, i)], Others(ip))

(* authenticatedSessions; parseSessionAgg drops the buckets without a login *)
(* or without a command and sorts the others by commands.                   *)
Sessions(docs) ==
    LET lines == About(Saying(docs, {"auth_success", "query"}))
        fp == [e \in lines |-> Fp(e)]
        mine(f) == {e \in lines : Fp(e) = f}
        Bucket(f) == [fp |-> f, ips |-> {IP(e) : e \in mine(f)},
                      users |-> {User(e) : e \in mine(f)},
                      logins |-> Count(Saying(lines, {"auth_success"}), fp, f),
                      commands |-> Count(Saying(lines, {"query"}), fp, f)]
        kept == {b \in {Bucket(f) : f \in TopKeys(fp)} : b.logins > 0 /\ b.commands > 0}
    IN Listing(Descending(kept, [b \in kept |-> b.commands]), Others(fp))

(* topQueries, parseQueryAgg: the exact text counts, where it is a keyword. *)
TopQueries(docs) ==
    LET lines == {e \in Saying(docs, {"query"}) : Log[e].sql \notin LongSQL}
        sql == [e \in lines |-> Log[e].sql]
    IN Listing([q \in TopKeys(sql) |-> Count(lines, sql, q)], Others(sql))

\* Mutant: a hit is compared with the last group only.
MutAddHit(groups, e) ==
    LET last == Len(groups)
    IN IF Log[e].sql = "" THEN groups
       ELSE IF groups = <<>> \/ groups[last].fp # Fp(e)
         THEN Append(groups, [fp |-> Fp(e), users |-> {User(e)}, commands |-> <<e>>])
       ELSE [groups EXCEPT ![last].commands = Append(@, e)]

(* One round of the loop of parseCommandHits: a hit without a text is       *)
(* passed over, the others join the group of their fingerprint or start one.*)
AddHit(groups, e) ==
    LET mine == {i \in DOMAIN groups : groups[i].fp = Fp(e)}
    IN IF Log[e].sql = "" THEN groups
       ELSE IF mine = {}
         THEN Append(groups, [fp |-> Fp(e), users |-> {User(e)}, commands |-> <<e>>])
       ELSE [i \in DOMAIN groups |->
               IF i \in mine
                 THEN [fp |-> groups[i].fp, users |-> groups[i].users \cup {User(e)},
                       commands |-> Append(groups[i].commands, e)]
                 ELSE groups[i]]

(* parseCommandHits: the groups after each of the hits. *)
Grouping(page) ==
    LET after[i \in 0..Len(page)] ==
          IF i = 0 THEN <<>> ELSE AddHit(after[i - 1], page[i])
    IN after

(* authenticatedCommands: the latest CommandListSize hits and how many      *)
(* there are in all.                                                        *)
Page(hits) ==
    LET latest == Descending(hits, [e \in hits |-> Log[e].time])
    IN [i \in 1..Smaller(CommandListSize, Cardinality(hits)) |-> latest[i]]
Commands(docs) ==
    LET hits == About(Saying(docs, {"query"}))
    IN [groups |-> Grouping(Page(hits))[Len(Page(hits))], total |-> Cardinality(hits)]

-----------------------------------------------------------------------------
(* The sections of a report, in the order collect asks for them *)

Section == {"docs", "users", "ips", "sessions", "queries", "commands"}

(* The zero report, and what a section holds that could not be asked for.   *)
Zero == [s \in Section |-> CASE s = "docs" -> 0
                             [] s = "commands" -> [groups |-> <<>>, total |-> 0]
                             [] OTHER -> Skipped]

(* The fields without which a query is not made. *)
Needs(s) == CASE s = "docs" -> {}
              [] s = "users" -> {"user", "msg"}
              [] s = "ips" -> {"ip"}
              [] s = "sessions" -> {"fp", "msg"}
              [] s = "queries" -> {"msg", "sql"}
              [] s = "commands" -> {"msg", "fp", "sql"}

Asked(s, docs) == CASE s = "docs" -> Cardinality(docs)
                    [] s = "users" -> UsersTried(docs)
                    [] s = "ips" -> SourceIPs(docs)
                    [] s = "sessions" -> Sessions(docs)
                    [] s = "queries" -> TopQueries(docs)
                    [] s = "commands" -> Commands(docs)

(* A section over the documents of an index, with the fields resolved.      *)
Answer(s, fields, docs, w) ==
    IF Needs(s) \subseteq fields THEN Asked(s, InWindow(docs, w)) ELSE Zero[s]

-----------------------------------------------------------------------------
(* renderMarkdown: which note stands under the rows of a section.  Without  *)
(* rows the section says there was nothing.                                 *)
Note(listing) == IF DOMAIN listing.rows = {} THEN "nothing"
                 ELSE IF listing.cut THEN "more" ELSE "all"
Shown(commands) == {e \in Event : \E i \in DOMAIN commands.groups :
                                    e \in ToSet(commands.groups[i].commands)}
=============================================================================
