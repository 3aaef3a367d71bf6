--------------------------- MODULE ProvenanceProofs ---------------------------
(***************************************************************************)
(* Where the names and rows of an answer come from: seed files that were    *)
(* deployed, for any number of connections and any seedings, cut short or   *)
(* not, between any two Redis calls of a handler.                           *)
(***************************************************************************)
EXTENDS BlackHoleProofs

(* What some deployed seed file says.  Once true it stays true: a file that *)
(* was deployed has been deployed.                                          *)
Named(d) == \E f \in started : d \in f.dbs
Granted(d, u) == \E f \in started : u \in f.users[d]
Listed(d, t) == \E f \in started : \E m \in f.tables[d] : Lower[m] = Lower[t]
Published(d, t, v) == \E f \in started : RowsOf(f)[<<d, t>>] = v

(* The keys hold nothing a deployed seed file did not say, in the middle of *)
(* a seeding and after one that failed too.                                 *)
SeedHistory ==
    /\ \A d \in supportedDBs : Named(d)
    /\ \A d \in DB, t \in Table :
         tableData[<<d, t>>] # None => Published(d, t, tableData[<<d, t>>])

(* Nor does a handler between two Redis calls, nor the answer it gave.      *)
Sourced(c) ==
    /\ \A d \in work[c] : Named(d)
    /\ \A d \in found[c] : Named(d) /\ Granted(d, username[c])
    /\ pc[c] = "load" => Listed(Target(req[c], currentDB[c]), TargetTable(req[c]))
    /\ reply[c].kind = "databases" =>
         \A d \in reply[c].body : Named(d) /\ Granted(d, username[c])
    /\ reply[c].kind = "rows" =>
         /\ Published(reply[c].db, TargetTable(req[c]), reply[c].body)
         /\ Listed(reply[c].db, TargetTable(req[c]))

Provenance == SeedHistory /\ \A c \in Conn : Sourced(c)

-----------------------------------------------------------------------------
(* The keys. *)

LEMMA HistoryInit == Init => Provenance
<1> SUFFICES ASSUME Init
             PROVE  Provenance
  OBVIOUS
<1>1. SeedHistory
  <2>1. supportedDBs = {} /\ tableData = [k \in DB \X Table |-> None]
    BY DEF Init, SeedInit, StoreInit, NoRows
  <2>2. QED
    BY <2>1 DEF SeedHistory
<1>2. \A c \in Conn : Sourced(c)
  BY DEF Init, ServerInit, Sourced, NoReply, Answer
<1>3. QED
  BY <1>1, <1>2 DEF Provenance

(* A key that is left alone or deleted keeps its history. *)
LEMMA HistoryKept ==
  ASSUME SeedHistory, started \subseteq started',
         supportedDBs' \subseteq supportedDBs,
         \A d \in DB, t \in Table : tableData'[<<d, t>>] \in {None, tableData[<<d, t>>]}
  PROVE  SeedHistory'
<1>1. \A d \in supportedDBs' : Named(d)'
  BY DEF SeedHistory, Named
<1>2. ASSUME NEW d \in DB, NEW t \in Table, tableData'[<<d, t>>] # None
      PROVE  \E f \in started' : RowsOf(f)[<<d, t>>] = tableData'[<<d, t>>]
  <2>1. tableData'[<<d, t>>] = tableData[<<d, t>>]
    BY <1>2
  <2>2. \E f \in started : RowsOf(f)[<<d, t>>] = tableData[<<d, t>>]
    BY <1>2, <2>1 DEF SeedHistory, Published
  <2>3. QED
    BY <2>1, <2>2
<1>3. QED
  BY <1>1, <1>2 DEF SeedHistory, Published

LEMMA HistoryNext == SeedInv /\ SeedHistory /\ [SeedNext]_seedVars => SeedHistory'
<1> SUFFICES ASSUME SeedInv, SeedHistory, [SeedNext]_seedVars
             PROVE  SeedHistory'
  OBVIOUS
<1>0. started \subseteq started'
  BY SeederOnlyGrants
<1> USE DEF SeedInv, SeedTypeOK, StoreTypeOK, SeederTypeOK
<1>1. ASSUME NEW k \in Key, DeleteKey(k)
      PROVE  SeedHistory'
  <2>1. k.kind = "data"
    BY <1>1 DEF DeleteKey, RowsState
  <2>2. \A d \in DB, t \in Table : tableData'[<<d, t>>] \in {None, tableData[<<d, t>>]}
    BY <1>1, <2>1, DelDataKey DEF DeleteKey
  <2>3. supportedDBs' = supportedDBs
    BY <1>1 DEF DeleteKey
  <2>4. QED
    BY <1>0, <2>2, <2>3, HistoryKept
<1>2. CASE AddSupportedDBs
  <2>1. tableData' = tableData /\ started' = started /\ cfg \in started
    BY <1>2 DEF AddSupportedDBs, LoopState
  <2>2. supportedDBs' \subseteq supportedDBs \cup cfg.dbs
    BY <1>2 DEF AddSupportedDBs
  <2>3. \A d \in supportedDBs' : Named(d)'
    BY <2>1, <2>2 DEF SeedHistory, Named
  <2>4. QED
    BY <2>1, <2>3 DEF SeedHistory, Published
<1>3. ASSUME NEW t \in Table, SeedTable(t)
      PROVE  SeedHistory'
  <2>1. /\ spc = "perDB" /\ t \in Loadable(cfg, cur) /\ cur \in DB
        /\ cfg \in started /\ cfg \in Configs
    BY <1>3, ConfigParts DEF SeedTable, LoopState
  <2>2. /\ tableData' = [tableData EXCEPT ![<<cur, t>>] = cfg.data[<<cur, t>>]]
        /\ UNCHANGED <<supportedDBs, started>>
    BY <1>3 DEF SeedTable
  <2>3. cfg.data[<<cur, t>>] = RowsOf(cfg)[<<cur, t>>]
    BY <2>1, RowsOfAt
  <2>4. ASSUME NEW e \in DB, NEW x \in Table, tableData'[<<e, x>>] # None
        PROVE  Published(e, x, tableData'[<<e, x>>])
    <3>1. CASE e = cur /\ x = t
      BY <2>1, <2>2, <2>3, <3>1 DEF Published
    <3>2. CASE ~(e = cur /\ x = t)
      <4>1. tableData'[<<e, x>>] = tableData[<<e, x>>]
        BY <2>2, <3>2
      <4>2. QED
        BY <2>4, <4>1 DEF SeedHistory
    <3>3. QED
      BY <3>1, <3>2
  <2>5. QED
    BY <2>2, <2>4 DEF SeedHistory, Named, Published
<1>4. ASSUME \/ DelSupportedDBs \/ ScanACLKeys \/ ScanTableData \/ SeedTables
             \/ (\E d \in DB : SeedUsers(d)) \/ (\E c \in Configs : Start(c))
             \/ DelMySQLUsers \/ SetMySQLUsers \/ Fail
      PROVE  tableData' = tableData /\ supportedDBs' \subseteq supportedDBs
  BY <1>4 DEF DelSupportedDBs, ScanACLKeys, ScanTableData, SeedTables, SeedUsers, Start,
      DelMySQLUsers, SetMySQLUsers, Fail, storeVars
<1>5. CASE UNCHANGED seedVars
  <2>1. tableData' = tableData /\ supportedDBs' \subseteq supportedDBs
    BY <1>5 DEF seedVars, storeVars
  <2>2. QED
    BY <1>0, <2>1, HistoryKept
<1>6. QED
  BY <1>0, <1>1, <1>2, <1>3, <1>4, <1>5, HistoryKept DEF SeedNext, SeedStep

-----------------------------------------------------------------------------
(* The handlers. *)

(* A step that leaves a connection alone keeps its sources, whatever else   *)
(* is deployed.                                                             *)
LEMMA SourcedFrame ==
  ASSUME NEW c \in Conn, Sourced(c), started \subseteq started',
         username'[c] = username[c], currentDB'[c] = currentDB[c], req'[c] = req[c],
         pc'[c] = pc[c], work'[c] = work[c], found'[c] = found[c], reply'[c] = reply[c]
  PROVE  Sourced(c)'
<1>1. /\ \A d : Named(d) => Named(d)'
      /\ \A d, u : Granted(d, u) => \E f \in started' : u \in f.users[d]
      /\ \A d, t : Listed(d, t) => \E f \in started' : \E m \in f.tables[d] : Lower[m] = Lower[t]
      /\ \A d, t, v : Published(d, t, v) => \E f \in started' : RowsOf(f)[<<d, t>>] = v
  BY DEF Named, Granted, Listed, Published
<1>2. QED
  BY <1>1 DEF Sourced, Named, Granted, Listed, Published

(* What a grant or a listed table says now, some deployed file said.        *)
LEMMA KeysSpeakForSeeds ==
  ASSUME SeedInv, NEW d \in DB
  PROVE  /\ \A u \in dbUsers[d] : Granted(d, u)
         /\ \A t : TableExists(d, t) => Listed(d, t)
  BY DEF SeedInv, GrantState, GrantsComeFromSeeds, Granted, Listed, TableExists

LEMMA AnswerParts ==
  ASSUME NEW k, NEW d, NEW b
  PROVE  Answer(k, d, b).kind = k /\ Answer(k, d, b).db = d /\ Answer(k, d, b).body = b
  BY DEF Answer

(* The answers that name no database and show no row. *)
Plain(r) == r.kind \notin {"databases", "rows"}
LEMMA PlainAnswers ==
  /\ Plain(NoReply) /\ Plain(OK) /\ Plain(NoDatabase) /\ Plain(ShowDenied) /\ Plain(RedisError)
  /\ \A d : Plain(Denied(d))
  /\ \A d, t : Plain(UnknownTable(d, t))
  /\ \A k \in {"noTables", "tables", "columns", "selected", "version", "unsupported"} :
       \A d, b : Plain(Answer(k, d, b))
  BY AnswerParts DEF Plain, NoReply, OK, NoDatabase, ShowDenied, RedisError, Denied, UnknownTable

(* Between its Redis calls a connection has answered nothing, and only the  *)
(* loop of SHOW DATABASES has names in hand.                                *)
LEMMA InHand ==
  ASSUME ServerInv, NEW c \in Conn, Progressing(c)
  PROVE  /\ phase[c] # "ready" => reply[c] = NoReply
         /\ pc[c] # "filter" => work[c] = {} /\ found[c] = {}
         /\ pc[c] # "begin" => phase[c] = "busy"
  BY DEF ServerInv, Connections, ConnState, Progressing

(* A handler that answers plainly, or goes on without a table in hand.      *)
LEMMA PlainStep ==
  ASSUME NEW c \in Conn, work'[c] = {}, found'[c] = {}, pc'[c] # "load", Plain(reply'[c])
  PROVE  Sourced(c)'
  BY DEF Sourced, Plain

LEMMA PlainReturn ==
  ASSUME ServerInv, NEW c \in Conn, Progressing(c), pc[c] # "filter",
         UNCHANGED <<work, found>>, NEW r, Plain(r), Returns(c, r)
  PROVE  Sourced(c)'
<1>1. pc'[c] = "begin" /\ reply'[c] = r
  BY DEF Returns, ServerInv, ServerTypeOK
<1>2. work'[c] = {} /\ found'[c] = {}
  BY InHand
<1>3. QED
  BY <1>1, <1>2, PlainStep

(* What opens and closes a connection, and the next command.                *)
LEMMA SourcedLife ==
  ASSUME ServerInv, NEW c \in Conn, Progressing(c), Sourced(c), started' = started,
         \/ \E o \in Offer : Accept(c, o)
         \/ Close(c) /\ phase[c] # "busy"
         \/ (HandshakeUseDB(c) \/ Authenticate(c)) /\ ~Close(c)
         \/ Open(c)
         \/ \E q \in Queries : Receive(c, q)
  PROVE  Sourced(c)'
<1>1. pc[c] = "begin" /\ pc' = pc /\ work' = work /\ found' = found
  <2>1. phase[c] # "busy"
    BY DEF Accept, HandshakeUseDB, Authenticate, Open, Receive
  <2>2. pc[c] = "begin"
    BY <2>1, InHand
  <2>3. QED
    BY <2>2 DEF Accept, Close, HandshakeUseDB, Authenticate, Open, Receive, handlerVars
<1>2. reply'[c] = NoReply
  <2>1. reply' = [reply EXCEPT ![c] = NoReply] \/ (reply' = reply /\ phase[c] # "ready")
    BY DEF Accept, Close, HandshakeUseDB, Authenticate, Open, Receive, handlerVars
  <2>2. QED
    BY <2>1, InHand DEF ServerInv, ServerTypeOK
<1>3. work'[c] = {} /\ found'[c] = {}
  BY <1>1, InHand
<1>4. QED
  BY <1>1, <1>2, <1>3, PlainAnswers, PlainStep

LEMMA SourcedShowDatabases ==
  ASSUME SeedInv, ServerInv, SeedHistory, NEW c \in Conn, Progressing(c), Sourced(c),
         started' = started,
         ListDatabases(c) \/ (\E d \in DB : CheckDatabase(c, d)) \/ AnswerDatabases(c)
  PROVE  Sourced(c)'
<1> USE DEF ServerInv, ServerTypeOK, connVars
<1>1. CASE ListDatabases(c)
  <2>1. phase[c] = "busy" /\ pc[c] = "begin"
    BY <1>1 DEF ListDatabases, At
  <2>2. work'[c] = supportedDBs /\ found'[c] = {} /\ pc'[c] = "filter" /\ reply'[c] = NoReply
    BY <1>1, <2>1, InHand DEF ListDatabases
  <2>3. QED
    BY ONLY <2>2, started' = started, SeedHistory, PlainAnswers DEF Sourced, SeedHistory, Named, Plain
<1>2. ASSUME NEW d \in DB, CheckDatabase(c, d)
      PROVE  Sourced(c)'
  <2>1. phase[c] = "busy" /\ pc[c] = "filter" /\ d \in work[c]
    BY <1>2 DEF CheckDatabase, At
  <2>2. /\ work'[c] = work[c] \ {d} /\ pc'[c] = "filter" /\ reply'[c] = NoReply
        /\ found'[c] = IF username[c] \in dbUsers[d] THEN found[c] \cup {d} ELSE found[c]
        /\ username'[c] = username[c]
    BY <1>2, <2>1, InHand DEF CheckDatabase, Allowed
  <2>3. /\ \A e \in work[c] : Named(e)
        /\ \A e \in found[c] : Named(e) /\ Granted(e, username[c])
        /\ username[c] \in dbUsers[d] => Granted(d, username[c])
    BY KeysSpeakForSeeds DEF Sourced
  <2>4. /\ \A e \in work'[c] : Named(e)
        /\ \A e \in found'[c] : Named(e) /\ Granted(e, username'[c])
    BY ONLY <2>1, <2>2, <2>3
  <2>5. QED
    BY ONLY <2>2, <2>4, started' = started, PlainAnswers DEF Sourced, Named, Granted, Plain
<1>3. CASE AnswerDatabases(c)
  <2>1. /\ work'[c] = {} /\ found'[c] = {} /\ pc'[c] = "begin"
        /\ username'[c] = username[c] /\ reply'[c] = Answer("databases", None, found[c])
    BY <1>3 DEF AnswerDatabases, At, Returns
  <2>2. reply'[c].kind = "databases" /\ reply'[c].body = found[c]
    BY <2>1, AnswerParts
  <2>3. \A e \in found[c] : Named(e) /\ Granted(e, username[c])
    BY DEF Sourced
  <2>4. QED
    BY ONLY <2>1, <2>2, <2>3, started' = started DEF Sourced, Named, Granted
<1>4. QED
  BY <1>1, <1>2, <1>3

(* The table a SELECT or DESCRIBE found listed, and the rows it then loads. *)
LEMMA SourcedTable ==
  ASSUME SeedInv, ServerInv, SeedHistory, NEW c \in Conn, Progressing(c), Sourced(c),
         started' = started, RequireTable(c) \/ LoadTable(c)
  PROVE  Sourced(c)'
<1> DEFINE d == Target(req[c], currentDB[c])
           t == TargetTable(req[c])
           v == tableData[<<d, t>>]
<1>1. CASE RequireTable(c)
  <2>1. phase[c] = "busy" /\ pc[c] = "begin"
    BY <1>1 DEF RequireTable, At
  <2>2. work[c] = {} /\ found[c] = {} /\ reply[c] = NoReply
    BY <2>1, InHand
  <2>3. d \in DB \cup {None}
    BY <2>1, TargetType DEF ServerInv, ServerTypeOK, Connections, ConnState
  <2>4. CASE GoesOn(c, "load") /\ d \in DB /\ TableExists(d, t)
    <3>1. Listed(d, t)
      BY <2>4, KeysSpeakForSeeds
    <3>2. /\ work'[c] = {} /\ found'[c] = {} /\ reply'[c] = NoReply
          /\ req'[c] = req[c] /\ currentDB'[c] = currentDB[c]
      BY <2>2, <2>4 DEF GoesOn, connVars
    <3>3. Target(req'[c], currentDB'[c]) = d /\ TargetTable(req'[c]) = t
      BY <3>2
    <3>4. QED
      BY ONLY <3>1, <3>2, <3>3, started' = started, PlainAnswers DEF Sourced, Listed, Plain
  <2>5. ASSUME NEW r, Plain(r), Returns(c, r), UNCHANGED <<work, found>>
        PROVE  Sourced(c)'
    BY <2>1, <2>5, PlainReturn
  <2>6. QED
    BY <1>1, <2>3, <2>4, <2>5, PlainAnswers DEF RequireTable
<1>2. CASE LoadTable(c)
  <2>1. /\ phase[c] = "busy" /\ pc[c] = "load" /\ Returns(c, TableReply(req[c], d, v))
        /\ UNCHANGED <<work, found>>
    BY <1>2 DEF LoadTable, At
  <2>2. d \in DB /\ t \in Table
    BY <2>1 DEF ServerInv, Connections, ConnState
  <2>3. Listed(d, t)
    BY <2>1 DEF Sourced
  <2>4. CASE v = None \/ req[c].verb # "SELECT"
    <3>1. Plain(TableReply(req[c], d, v))
      BY <2>4, PlainAnswers DEF TableReply
    <3>2. QED
      BY <2>1, <3>1, PlainReturn
  <2>5. CASE v # None /\ req[c].verb = "SELECT"
    <3>1. reply'[c] = Answer("rows", d, v) /\ pc'[c] = "begin" /\ req' = req
      BY <2>1, <2>5 DEF Returns, TableReply, ServerInv, ServerTypeOK
    <3>2. reply'[c].kind = "rows" /\ reply'[c].db = d /\ reply'[c].body = v
      BY <3>1, AnswerParts
    <3>3. work'[c] = {} /\ found'[c] = {}
      BY <2>1, InHand
    <3>4. Published(d, t, v)
      BY <2>2, <2>5 DEF SeedHistory
    <3>5. QED
      BY ONLY <2>3, <3>1, <3>2, <3>3, <3>4, started' = started DEF Sourced, Published, Listed
  <2>6. QED
    BY <2>4, <2>5
<1>3. QED
  BY <1>1, <1>2

(* The handlers that read no list of databases and no table. *)
LEMMA SourcedElse ==
  ASSUME ServerInv, NEW c \in Conn, Progressing(c), Sourced(c),
         \/ ShowTablesCheck(c) \/ ShowTablesList(c) \/ RefuseTableWrite(c)
         \/ RefuseOtherWrite(c) \/ AnswerLocally(c) \/ UseDB(c) \/ RedisFails(c)
  PROVE  Sourced(c)'
<1>1. ASSUME NEW r, Plain(r), Returns(c, r), UNCHANGED <<work, found>>, pc[c] # "filter"
      PROVE  Sourced(c)'
  BY <1>1, PlainReturn
<1>2. CASE ShowTablesCheck(c)
  <2>1. phase[c] = "busy" /\ pc[c] = "begin"
    BY <1>2 DEF ShowTablesCheck, At
  <2>2. CASE GoesOn(c, "list")
    <3>1. pc'[c] = "list" /\ work'[c] = {} /\ found'[c] = {} /\ reply'[c] = NoReply
      BY <2>1, <2>2, InHand DEF GoesOn, ServerInv, ServerTypeOK
    <3>2. QED
      BY <3>1, PlainAnswers, PlainStep
  <2>3. QED
    BY <1>1, <1>2, <2>1, <2>2, PlainAnswers DEF ShowTablesCheck
<1>3. CASE ShowTablesList(c)
  BY <1>1, <1>3, PlainAnswers DEF ShowTablesList, At
<1>4. CASE RefuseTableWrite(c) \/ RefuseOtherWrite(c)
  BY <1>1, <1>4, PlainAnswers DEF RefuseTableWrite, RefuseOtherWrite, TableWriteReply, At
<1>5. CASE AnswerLocally(c)
  <2>1. LocalReply(req[c], currentDB[c]) \in {Answer("selected", currentDB[c], None),
          Answer("version", None, None), ShowDenied, OK, Answer("unsupported", None, None)}
    BY <1>5 DEF AnswerLocally, At, LocalReply, Accepted, Unsupported
  <2>2. Plain(LocalReply(req[c], currentDB[c]))
    BY <2>1, PlainAnswers
  <2>3. QED
    BY <1>1, <1>5, <2>2 DEF AnswerLocally, At
<1>6. CASE UseDB(c)
  BY <1>1, <1>6, PlainAnswers DEF UseDB, At
<1>7. CASE RedisFails(c)
  <2>1. /\ reply'[c] = RedisError /\ pc'[c] = "begin"
        /\ work'[c] = {} /\ found'[c] = {}
    BY <1>7 DEF RedisFails, Returns, ServerInv, ServerTypeOK
  <2>2. QED
    BY <2>1, PlainAnswers, PlainStep
<1>8. QED
  BY <1>2, <1>3, <1>4, <1>5, <1>6, <1>7

LEMMA SourcedStep ==
  ASSUME SeedInv, ServerInv, SeedHistory, NEW c \in Conn, Progressing(c), Sourced(c),
         ServerStep(c), UNCHANGED <<storeVars, seederVars>>
  PROVE  Sourced(c)'
<1>1. started' = started
  BY DEF seederVars
<1>2. QED
  BY <1>1, SourcedLife, SourcedShowDatabases, SourcedTable, SourcedElse
  DEF ServerStep, HandlerStep, HandshakeUseDB, Authenticate, Disconnect

LEMMA ProvenanceNext ==
  SeedInv /\ ServerInv /\ Answers /\ Provenance /\ [Next]_vars => Provenance'
<1> SUFFICES ASSUME SeedInv, ServerInv, Answers, Provenance, [Next]_vars
             PROVE  Provenance'
  OBVIOUS
<1>1. SeedHistory' /\ started \subseteq started'
  BY StepCases, HistoryNext, SeederOnlyGrants DEF Provenance
<1> SUFFICES ASSUME NEW e \in Conn
             PROVE  Sourced(e)'
  BY <1>1 DEF Provenance
<1>2. Sourced(e) /\ Progressing(e)
  BY DEF Provenance, Answers, AnswerState
<1>3. CASE SeedAction \/ UNCHANGED vars
  <2>1. /\ username' = username /\ currentDB' = currentDB /\ req' = req
        /\ pc' = pc /\ work' = work /\ found' = found /\ reply' = reply
    BY <1>3 DEF SeedAction, vars, serverVars, connVars, handlerVars
  <2>2. QED
    BY <1>1, <1>2, <2>1, SourcedFrame
<1>4. ASSUME NEW c \in Conn, ServerStep(c), UNCHANGED <<storeVars, seederVars>>
      PROVE  Sourced(e)'
  <2>1. CASE e = c
    BY <1>2, <1>4, <2>1, SourcedStep DEF Provenance
  <2>2. CASE e # c
    BY <1>1, <1>2, <1>4, <2>2, OthersUntouched, SourcedFrame
  <2>3. QED
    BY <2>1, <2>2
<1>5. QED
  BY <1>3, <1>4, StepCases

LEMMA ProvenanceInvariance == Spec => []Provenance
  BY HistoryInit, ProvenanceNext, Invariance, AnswersInvariance, PTL DEF Spec

(* SHOW DATABASES (query_handlers.go:28-54) lists no database that no       *)
(* deployed seed file names and grants to the user, though its SMEMBERS and *)
(* each SISMEMBER may fall in different seedings.                           *)
THEOREM ListedAreGranted == Spec => []ListedDBsAreGranted
<1>1. Provenance => ListedDBsAreGranted
  BY DEF Provenance, Sourced, ListedDBsAreGranted, Named, Granted
<1>2. QED
  BY <1>1, ProvenanceInvariance, PTL

(* The rows of an answer are one deployed seed file's, of a table some      *)
(* deployed file lists (select_handler.go:79-115, query_handlers.go:531):   *)
(* a seeding between the check and the GET cannot make them anything else.  *)
THEOREM RowsAreSeeded == Spec => []RowsComeFromSeeds
<1>1. Provenance => RowsComeFromSeeds
  BY DEF Provenance, Sourced, RowsComeFromSeeds, Published, Listed
<1>2. QED
  BY <1>1, ProvenanceInvariance, PTL
=============================================================================
