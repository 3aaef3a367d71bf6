--------------------------- MODULE BlackHoleProofs ---------------------------
(***************************************************************************)
(* Proofs about the whole system: any number of connections, any commands,  *)
(* any seed files, any interleaving of handlers with the seeder.            *)
(***************************************************************************)
EXTENDS BlackHole, SeedRedisProofs

(* What a connection's phase and pc say of its other variables. *)
ConnState(c) ==
    /\ phase[c] # "none" => offer[c] \in Offer
    /\ phase[c] = "busy" => req[c] \in Queries
    /\ pc[c] # "begin" => phase[c] = "busy"
    /\ pc[c] # "filter" => work[c] = {} /\ found[c] = {}
    /\ pc[c] = "filter" => Route(req[c]) = "SHOW DATABASES"
    /\ pc[c] = "list" =>
         Route(req[c]) = "SHOW TABLES" /\ Target(req[c], currentDB[c]) \in DB
    /\ pc[c] = "load" =>
         /\ Route(req[c]) \in {"SELECT", "DESCRIBE"}
         /\ Target(req[c], currentDB[c]) \in DB /\ TargetTable(req[c]) \in Table

Connections == \A c \in Conn : ConnState(c)

ServerInv == ServerTypeOK /\ Connections

-----------------------------------------------------------------------------
(* The helpers. *)

LEMMA TargetType ==
  ASSUME NEW q \in Queries, NEW selected \in DB \cup {None}
  PROVE  /\ Target(q, selected) \in DB \cup {None}
         /\ TargetTable(q) \in Table \cup {None}
         /\ q.schema \in DB \cup {None} /\ q.table \in Table \cup {None}
<1>1. q.schema \in DB \cup {None} /\ q.table \in Table \cup {None}
  BY QueriesAssumption DEF Query
<1>2. ASSUME NEW n \in DB \cup {None}
      PROVE  Folded(q, n) \in DB \cup {None}
  BY LowerAssumption DEF Folded
<1>3. ASSUME NEW n \in Table \cup {None}
      PROVE  Folded(q, n) \in Table \cup {None}
  BY LowerAssumption DEF Folded
<1>4. QED
  BY <1>1, <1>2, <1>3 DEF Target, TargetTable

LEMMA AnswerType ==
  ASSUME NEW k \in ReplyKinds, NEW d \in DB \cup {None}, NEW b \in ReplyBodies
  PROVE  Answer(k, d, b) \in ReplyType
  BY DEF Answer, ReplyType

LEMMA ReplyTypes ==
  /\ {NoReply, OK, NoDatabase, ShowDenied, RedisError} \subseteq ReplyType
  /\ \A d \in DB \cup {None} : Denied(d) \in ReplyType
  /\ \A d \in DB, t \in Table : UnknownTable(d, t) \in ReplyType
<1>1. None \in ReplyBodies /\ \A t \in Table : t \in ReplyBodies
  <2>1. None \in ReplyBodies
    BY Zenon DEF ReplyBodies
  <2>2. ASSUME NEW t \in Table
        PROVE  t \in ReplyBodies
    BY Zenon DEF ReplyBodies
  <2>3. QED
    BY <2>1, <2>2
<1>2. {"none", "ok", "noDB", "showDenied", "redisError", "denied", "unknownTable"} \subseteq ReplyKinds
  BY DEF ReplyKinds
<1>3. \A k \in ReplyKinds, d \in DB \cup {None}, b \in ReplyBodies : Answer(k, d, b) \in ReplyType
  BY AnswerType
<1>4. QED
  BY <1>1, <1>2, <1>3 DEF NoReply, OK, NoDatabase, ShowDenied, RedisError, Denied, UnknownTable

LEMMA LocalReplyType ==
  ASSUME NEW q, NEW selected \in DB \cup {None},
         Route(q) \in {"SELECT DATABASE()", "SELECT VERSION()", "SHOW COLUMNS"}
                        \cup Accepted \cup Unsupported
  PROVE  LocalReply(q, selected) \in ReplyType
<1>1. LocalReply(q, selected) \in {Answer("selected", selected, None),
         Answer("version", None, None), ShowDenied, OK, Answer("unsupported", None, None)}
  BY DEF LocalReply, Accepted, Unsupported
<1>2. None \in ReplyBodies
  BY Zenon DEF ReplyBodies
<1>3. {"selected", "version", "unsupported"} \subseteq ReplyKinds
  BY DEF ReplyKinds
<1>4. QED
  BY <1>1, <1>2, <1>3, ReplyTypes, AnswerType

LEMMA TableWriteReplyType ==
  ASSUME NEW d \in DB \cup {None}, NEW t \in Table \cup {None}
  PROVE  TableWriteReply(d, t) \in ReplyType
  BY ReplyTypes DEF TableWriteReply

-----------------------------------------------------------------------------
(* The server's variables keep their types and their connections' states.   *)

LEMMA ServerInvInit == ServerInit => ServerInv
<1> SUFFICES ASSUME ServerInit
             PROVE  ServerInv
  OBVIOUS
<1>1. ServerTypeOK
  BY ReplyTypes DEF ServerInit, ServerTypeOK
<1>2. Connections
  BY DEF ServerInit, Connections, ConnState
<1>3. QED
  BY <1>1, <1>2 DEF ServerInv

LEMMA CloseInv ==
  ASSUME ServerInv, NEW c \in Conn, phase[c] # "busy", Close(c)
  PROVE  ServerInv'
<1> USE DEF Close, ServerInv, ServerTypeOK, Connections, ConnState
<1>1. ServerTypeOK'
  BY ReplyTypes
<1>2. Connections'
  BY DEF Offer, NoOffer
<1>3. QED
  BY <1>1, <1>2

(* A handler returns: whatever it answers, its loop variables are empty.    *)
LEMMA ReturnsInv ==
  ASSUME ServerInv, NEW c \in Conn, phase[c] = "busy",
         NEW r \in ReplyType, Returns(c, r),
         NEW s \in DB \cup {None}, currentDB' = [currentDB EXCEPT ![c] = s],
         work' = [work EXCEPT ![c] = {}], found' = [found EXCEPT ![c] = {}]
  PROVE  ServerInv'
<1> USE DEF Returns, ServerInv, ServerTypeOK, Connections, ConnState
<1>1. ServerTypeOK'
  OBVIOUS
<1>2. Connections'
  OBVIOUS
<1>3. QED
  BY <1>1, <1>2

(* ... as most do, with the variables of the connection left alone.         *)
LEMMA PlainReturnInv ==
  ASSUME ServerInv, NEW c \in Conn, phase[c] = "busy", pc[c] # "filter",
         NEW r \in ReplyType, Returns(c, r), UNCHANGED <<currentDB, work, found>>
  PROVE  ServerInv'
<1>1. /\ currentDB[c] \in DB \cup {None}
      /\ currentDB' = [currentDB EXCEPT ![c] = currentDB[c]]
  BY DEF ServerInv, ServerTypeOK
<1>2. work' = [work EXCEPT ![c] = {}] /\ found' = [found EXCEPT ![c] = {}]
  BY DEF ServerInv, ServerTypeOK, Connections, ConnState
<1>3. QED
  BY <1>1, <1>2, ReturnsInv

(* A handler goes on to the second Redis call it makes.                     *)
LEMMA GoesOnInv ==
  ASSUME ServerInv, NEW c \in Conn, At(c, "begin", {Route(req[c])}),
         NEW call \in {"list", "load"}, GoesOn(c, call),
         Target(req[c], currentDB[c]) \in DB,
         call = "list" => Route(req[c]) = "SHOW TABLES",
         call = "load" => /\ Route(req[c]) \in {"SELECT", "DESCRIBE"}
                          /\ TargetTable(req[c]) \in Table
  PROVE  ServerInv'
<1> USE DEF At, GoesOn, connVars, ServerInv, ServerTypeOK, Connections, ConnState
<1>1. ServerTypeOK'
  OBVIOUS
<1>2. Connections'
  OBVIOUS
<1>3. QED
  BY <1>1, <1>2

LEMMA ServerInvStep ==
  ASSUME StoreTypeOK, ServerInv, NEW c \in Conn, ServerStep(c)
  PROVE  ServerInv'
<1> USE DEF ServerInv, ServerTypeOK, Connections, ConnState, connVars, handlerVars
<1>0. /\ Target(req[c], currentDB[c]) \in DB \cup {None} \/ phase[c] # "busy"
      /\ TargetTable(req[c]) \in Table \cup {None} \/ phase[c] # "busy"
      /\ req[c].schema \in DB \cup {None} \/ phase[c] # "busy"
  BY TargetType
<1>1. ASSUME NEW o \in Offer, Accept(c, o)
      PROVE  ServerInv'
  <2>1. ServerTypeOK'
    BY <1>0, <1>1, ReplyTypes, AnswerType DEF Accept, NoOffer, Offer
  <2>2. Connections'
    BY <1>0, <1>1 DEF Accept
  <2>3. QED
    BY <2>1, <2>2
<1>2. ASSUME HandshakeUseDB(c)
      PROVE  ServerInv'
  <2>1. CASE Close(c)
    BY <1>2, <2>1, CloseInv DEF HandshakeUseDB
  <2>2. CASE ~Close(c)
    <3>1. offer[c] \in Offer /\ offer[c].db \in DB
      BY <1>2 DEF HandshakeUseDB, Offer
    <3>2. [offer[c] EXCEPT !.db = None] \in Offer
      BY <3>1 DEF Offer
    <3>3. offer' = [offer EXCEPT ![c] = [offer[c] EXCEPT !.db = None]]
      BY <1>2, <2>2 DEF HandshakeUseDB
    <3>4. /\ currentDB' = [currentDB EXCEPT ![c] = offer[c].db]
          /\ UNCHANGED <<phase, username, fp, handlerVars>>
      BY <1>2, <2>2 DEF HandshakeUseDB
    <3>5. phase[c] = "handshake" /\ pc[c] = "begin"
      BY <1>2 DEF HandshakeUseDB
    <3>6. ServerTypeOK'
      BY <3>1, <3>2, <3>3, <3>4
    <3>7. Connections'
      BY <3>1, <3>2, <3>3, <3>4, <3>5
    <3>8. QED
      BY <3>6, <3>7
  <2>3. QED
    BY <2>1, <2>2
<1>3. ASSUME Authenticate(c)
      PROVE  ServerInv'
  <2>1. CASE Close(c)
    BY <1>3, <2>1, CloseInv DEF Authenticate
  <2>2. CASE ~Close(c)
    <3>1. ServerTypeOK'
      BY <1>3, <2>2 DEF Authenticate, Offer
    <3>2. Connections'
      BY <1>3, <2>2 DEF Authenticate, Offer
    <3>3. QED
      BY <3>1, <3>2
  <2>3. QED
    BY <2>1, <2>2
<1>4. ASSUME Open(c)
      PROVE  ServerInv'
  <2>1. ServerTypeOK'
    BY <1>0, <1>4, ReplyTypes, AnswerType DEF Open, NoOffer, Offer
  <2>2. Connections'
    BY <1>0, <1>4 DEF Open
  <2>3. QED
    BY <2>1, <2>2
<1>5. ASSUME Disconnect(c)
      PROVE  ServerInv'
  BY <1>5, CloseInv DEF Disconnect
<1>6. ASSUME NEW q \in Queries, Receive(c, q)
      PROVE  ServerInv'
  <2>1. ServerTypeOK'
    BY <1>0, <1>6, ReplyTypes, AnswerType DEF Receive, NoOffer, Offer
  <2>2. Connections'
    BY <1>0, <1>6 DEF Receive
  <2>3. QED
    BY <2>1, <2>2
<1>7. ASSUME ListDatabases(c)
      PROVE  ServerInv'
  <2>1. ServerTypeOK'
    BY <1>0, <1>7, ReplyTypes, AnswerType DEF ListDatabases, At, StoreTypeOK, NoOffer, Offer
  <2>2. Connections'
    BY <1>0, <1>7 DEF ListDatabases, At
  <2>3. QED
    BY <2>1, <2>2
<1>8. ASSUME NEW d \in DB, CheckDatabase(c, d)
      PROVE  ServerInv'
  <2>1. ServerTypeOK'
    BY <1>0, <1>8, ReplyTypes, AnswerType DEF CheckDatabase, At, NoOffer, Offer
  <2>2. Connections'
    BY <1>0, <1>8 DEF CheckDatabase, At
  <2>3. QED
    BY <2>1, <2>2
<1>9. ASSUME AnswerDatabases(c)
      PROVE  ServerInv'
  <2>1. Answer("databases", None, found[c]) \in ReplyType
    BY AnswerType DEF ReplyKinds, ReplyBodies
  <2>2. currentDB[c] \in DB \cup {None} /\ currentDB' = [currentDB EXCEPT ![c] = currentDB[c]]
    BY <1>9 DEF AnswerDatabases
  <2>3. work' = [work EXCEPT ![c] = {}]
    BY <1>9 DEF AnswerDatabases, At
  <2>4. QED
    BY <1>9, <2>1, <2>2, <2>3, ReturnsInv DEF AnswerDatabases, At
<1>10. ASSUME ShowTablesCheck(c)
       PROVE  ServerInv'
  <2> DEFINE d == Target(req[c], currentDB[c])
  <2>1. /\ phase[c] = "busy" /\ pc[c] = "begin"
        /\ d \in DB \cup {None}
    BY <1>0, <1>10 DEF ShowTablesCheck, At
  <2>2. CASE GoesOn(c, "list") /\ d \in DB
    BY <1>10, <2>1, <2>2, GoesOnInv DEF ShowTablesCheck, At
  <2>3. ASSUME NEW r \in ReplyType, Returns(c, r), UNCHANGED <<currentDB, work, found>>
        PROVE  ServerInv'
    BY <2>1, <2>3, PlainReturnInv
  <2>4. QED
    BY <1>10, <2>1, <2>2, <2>3, ReplyTypes DEF ShowTablesCheck
<1>11. ASSUME ShowTablesList(c)
       PROVE  ServerInv'
  <2>1. phase[c] = "busy" /\ pc[c] = "list"
    BY <1>11 DEF ShowTablesList, At
  <2>2. PICK r \in ReplyType : Returns(c, r)
    <3>1. Target(req[c], currentDB[c]) \in DB
      BY <2>1
    <3>2. dbTables[Target(req[c], currentDB[c])] \in ReplyBodies
      BY <3>1, Zenon DEF StoreTypeOK, ReplyBodies
    <3>3. None \in ReplyBodies
      BY Zenon DEF ReplyBodies
    <3>4. QED
      BY <1>11, <3>1, <3>2, <3>3, AnswerType DEF ShowTablesList, ReplyKinds
  <2>3. QED
    BY <1>11, <2>1, <2>2, PlainReturnInv DEF ShowTablesList
<1>12. ASSUME RequireTable(c)
       PROVE  ServerInv'
  <2> DEFINE d == Target(req[c], currentDB[c])
  <2> DEFINE t == TargetTable(req[c])
  <2>1. /\ phase[c] = "busy" /\ pc[c] = "begin"
        /\ d \in DB \cup {None}
        /\ t \in Table \cup {None}
    BY <1>0, <1>12 DEF RequireTable, At
  <2>2. CASE GoesOn(c, "load") /\ d \in DB /\ t \in Table
    BY <1>12, <2>1, <2>2, GoesOnInv DEF RequireTable, At
  <2>3. ASSUME NEW r \in ReplyType, Returns(c, r), UNCHANGED <<currentDB, work, found>>
        PROVE  ServerInv'
    BY <2>1, <2>3, PlainReturnInv
  <2>4. QED
    BY <1>12, <2>1, <2>2, <2>3, ReplyTypes DEF RequireTable
<1>13. ASSUME LoadTable(c)
       PROVE  ServerInv'
  <2>1. phase[c] = "busy" /\ pc[c] = "load"
    BY <1>13 DEF LoadTable, At
  <2>2. PICK r \in ReplyType : Returns(c, r)
    <3> DEFINE d == Target(req[c], currentDB[c])
               v == tableData[<<d, TargetTable(req[c])>>]
    <3>1. d \in DB /\ v \in Payload \cup {None}
      BY <2>1 DEF StoreTypeOK
    <3>2. v \in ReplyBodies
      BY <3>1, Zenon DEF ReplyBodies
    <3>3. QED
      BY <1>13, <3>1, <3>2, ReplyTypes, AnswerType DEF LoadTable, TableReply, ReplyKinds
  <2>3. QED
    BY <1>13, <2>1, <2>2, PlainReturnInv DEF LoadTable
<1>14. ASSUME RefuseTableWrite(c)
       PROVE  ServerInv'
  <2>1. phase[c] = "busy" /\ pc[c] = "begin"
    BY <1>14 DEF RefuseTableWrite, At
  <2>2. PICK r \in ReplyType : Returns(c, r)
    BY <1>0, <1>14, <2>1, TableWriteReplyType DEF RefuseTableWrite
  <2>3. QED
    BY <1>14, <2>1, <2>2, PlainReturnInv DEF RefuseTableWrite
<1>15. ASSUME RefuseOtherWrite(c)
       PROVE  ServerInv'
  <2>1. phase[c] = "busy" /\ pc[c] = "begin"
    BY <1>15 DEF RefuseOtherWrite, At
  <2>2. PICK r \in ReplyType : Returns(c, r)
    BY <1>0, <1>15, <2>1, ReplyTypes DEF RefuseOtherWrite
  <2>3. QED
    BY <1>15, <2>1, <2>2, PlainReturnInv DEF RefuseOtherWrite
<1>16. ASSUME AnswerLocally(c)
       PROVE  ServerInv'
  <2>1. phase[c] = "busy" /\ pc[c] = "begin"
    BY <1>16 DEF AnswerLocally, At
  <2>2. PICK r \in ReplyType : Returns(c, r)
    BY <1>16, <2>1, LocalReplyType DEF AnswerLocally, At
  <2>3. QED
    BY <1>16, <2>1, <2>2, PlainReturnInv DEF AnswerLocally
<1>17. ASSUME UseDB(c)
       PROVE  ServerInv'
  <2>1. phase[c] = "busy" /\ pc[c] = "begin" /\ req[c].schema \in DB \cup {None}
    BY <1>0, <1>17 DEF UseDB, At
  <2>2. CASE UNCHANGED currentDB
    BY <1>17, <2>1, <2>2, ReplyTypes, PlainReturnInv DEF UseDB
  <2>3. CASE currentDB' = [currentDB EXCEPT ![c] = req[c].schema] /\ Returns(c, OK)
    <3>1. work' = [work EXCEPT ![c] = {}] /\ found' = [found EXCEPT ![c] = {}]
      BY <1>17, <2>1 DEF UseDB
    <3>2. QED
      BY <2>1, <2>3, <3>1, ReplyTypes, ReturnsInv
  <2>4. QED
    BY <1>17, <2>2, <2>3 DEF UseDB
<1>18. ASSUME RedisFails(c)
       PROVE  ServerInv'
  <2>1. currentDB[c] \in DB \cup {None} /\ currentDB' = [currentDB EXCEPT ![c] = currentDB[c]]
    BY <1>18 DEF RedisFails
  <2>2. QED
    BY <1>18, <2>1, ReplyTypes, ReturnsInv DEF RedisFails
<1>19. QED
  BY <1>1, <1>2, <1>3, <1>4, <1>5, <1>6, <1>7, <1>8, <1>9, <1>10, <1>11, <1>12, <1>13, <1>14, <1>15, <1>16, <1>17, <1>18 DEF ServerStep, HandlerStep

-----------------------------------------------------------------------------
(* What a seeder step and a server step leave alone. *)

(* The seeder adds grants and never takes one away, and it forgets no seed  *)
(* file it began with.                                                      *)
LEMMA SeederOnlyGrants ==
  ASSUME SeedInv, [SeedNext]_seedVars
  PROVE  /\ \A d \in DB : dbUsers[d] \subseteq dbUsers'[d]
         /\ started \subseteq started'
<1> USE DEF SeedInv, SeedTypeOK, StoreTypeOK, SeederTypeOK
<1>1. ASSUME NEW k \in Key, DeleteKey(k)
      PROVE  dbUsers' = dbUsers /\ started' = started
  <2>1. k.kind = "data"
    BY <1>1 DEF DeleteKey, RowsState
  <2>2. QED
    BY <1>1, <2>1, DelDataKey DEF DeleteKey
<1>2. ASSUME NEW d \in DB, SeedUsers(d)
      PROVE  started' = started /\ \A e \in DB : dbUsers[e] \subseteq dbUsers'[e]
  BY <1>2 DEF SeedUsers
<1>3. ASSUME NEW c \in Configs, Start(c)
      PROVE  dbUsers' = dbUsers /\ started' = started \cup {c}
  BY <1>3 DEF Start, storeVars
<1>4. ASSUME \/ DelSupportedDBs \/ ScanACLKeys \/ ScanTableData \/ AddSupportedDBs
             \/ SeedTables \/ (\E t \in Table : SeedTable(t)) \/ DelMySQLUsers
             \/ SetMySQLUsers \/ Fail
      PROVE  UNCHANGED <<dbUsers, started>>
  BY <1>4 DEF DelSupportedDBs, ScanACLKeys, ScanTableData, AddSupportedDBs, SeedTables,
      SeedTable, DelMySQLUsers, SetMySQLUsers, Fail, storeVars
<1>5. CASE UNCHANGED seedVars
  BY <1>5 DEF seedVars, storeVars, seederVars
<1>6. QED
  BY <1>1, <1>2, <1>3, <1>4, <1>5 DEF SeedNext, SeedStep

(* The server only reads the keys. *)
LEMMA ServerOnlyReads ==
  ASSUME NEW c \in Conn, ServerStep(c)
  PROVE  UNCHANGED storeVars
  BY DEF ServerStep, Accept, HandshakeUseDB, Authenticate, Open, Disconnect, Close, Receive, HandlerStep, ListDatabases, CheckDatabase,
      AnswerDatabases, ShowTablesCheck, ShowTablesList, RequireTable, LoadTable, RefuseTableWrite,
      RefuseOtherWrite, AnswerLocally, UseDB, RedisFails

LEMMA StepCases ==
  ASSUME [Next]_vars
  PROVE  /\ [SeedNext]_seedVars
         /\ \/ SeedAction
            \/ \E c \in Conn : ServerStep(c) /\ UNCHANGED <<storeVars, seederVars>>
            \/ UNCHANGED vars
<1>1. CASE SeedAction
  BY <1>1 DEF SeedAction
<1>2. ASSUME NEW c \in Conn, ServerAction(c)
      PROVE  ServerStep(c) /\ UNCHANGED <<storeVars, seederVars>>
  BY <1>2, ServerOnlyReads DEF ServerAction
<1>3. CASE UNCHANGED vars
  BY <1>3 DEF vars, seedVars
<1>4. QED
  BY <1>1, <1>2, <1>3 DEF Next, seedVars

LEMMA ServerInvNext == SeedInv /\ ServerInv /\ [Next]_vars => ServerInv'
<1> SUFFICES ASSUME SeedInv, ServerInv, [Next]_vars
             PROVE  ServerInv'
  OBVIOUS
<1>1. CASE SeedAction
  <2>1. ServerTypeOK'
    BY <1>1 DEF SeedAction, connVars, ServerInv, ServerTypeOK
  <2>2. Connections'
    BY <1>1 DEF SeedAction, connVars, ServerInv, Connections, ConnState
  <2>3. QED
    BY <2>1, <2>2 DEF ServerInv
<1>2. ASSUME NEW c \in Conn, ServerStep(c)
      PROVE  ServerInv'
  BY <1>2, ServerInvStep DEF SeedInv, SeedTypeOK
<1>3. CASE UNCHANGED vars
  BY <1>3 DEF vars, serverVars, connVars, handlerVars, ServerInv, ServerTypeOK, Connections, ConnState
<1>4. QED
  BY <1>1, <1>2, <1>3, StepCases

LEMMA InitialState == Init => SeedInv /\ ServerInv
  BY SeedInvInit, ServerInvInit DEF Init

LEMMA InvariantStep == SeedInv /\ ServerInv /\ [Next]_vars => SeedInv' /\ ServerInv'
<1>1. SeedInv /\ [Next]_vars => SeedInv'
  BY StepCases, SeedInvNext
<1>2. QED
  BY <1>1, ServerInvNext

(* The invariants of the seeder and of the server hold together. *)
THEOREM Invariance == Spec => [](SeedInv /\ ServerInv)
  BY InitialState, InvariantStep, PTL DEF Spec

(* The keys, the seeder and every connection keep their types. *)
THEOREM TypeCorrect == Spec => []TypeOK
<1>1. SeedInv /\ ServerInv => TypeOK
  BY DEF SeedInv, ServerInv, TypeOK
<1>2. QED
  BY <1>1, Invariance, PTL

-----------------------------------------------------------------------------
(* Identity, and the selected database. *)

(* UseDB asked when the database was selected: some deployed file, if not   *)
(* the one that is seeded now, granted it.                                  *)
SelectionWasGranted ==
    \A c \in Conn :
      currentDB[c] # None => \E f \in started : username[c] \in f.users[currentDB[c]]

Identity == OneIdentity /\ SelectionWasGranted /\ SessionsHaveCredentials

LEMMA IdentityInit == Init => Identity
  BY DEF Init, ServerInit, Identity, OneIdentity, SelectionWasGranted, SessionsHaveCredentials

(* Before Open nobody is granted anything: UseDB in the handshake refuses.  *)
LEMMA NobodyIsGranted ==
  ASSUME StoreTypeOK, NEW c \in Conn, username[c] = None, NEW d \in DB
  PROVE  ~Allowed(c, d)
  BY NoneAssumption DEF Allowed, StoreTypeOK

(* What a step of connection c can do to who it is and what it selected.    *)
LEMMA ConnectionStep ==
  ASSUME StoreTypeOK, ServerInv, OneIdentity, NEW c \in Conn, ServerStep(c)
  PROVE  \/ /\ {phase[c], phase'[c]} \subseteq {"ready", "busy"}
            /\ phase' = [phase EXCEPT ![c] = phase'[c]]
            /\ UNCHANGED <<offer, username, fp>>
            /\ \/ UNCHANGED currentDB
               \/ \E d \in DB : Allowed(c, d) /\ currentDB' = [currentDB EXCEPT ![c] = d]
         \/ \E o \in Offer : Accept(c, o)
         \/ Close(c)
         \/ Authenticate(c)
         \/ Open(c)
<1> USE DEF ServerInv, ServerTypeOK, Connections, ConnState
<1>1. CASE HandshakeUseDB(c)
  <2>1. offer[c].db \in DB /\ username[c] = None
    BY <1>1 DEF HandshakeUseDB, Offer, OneIdentity
  <2>2. Close(c)
    BY <1>1, <2>1, NobodyIsGranted DEF HandshakeUseDB
  <2>3. QED
    BY <2>2
<1>2. CASE Disconnect(c)
  BY <1>2 DEF Disconnect
<1>3. ASSUME NEW q \in Queries, Receive(c, q)
      PROVE  /\ phase[c] = "ready" /\ phase' = [phase EXCEPT ![c] = "busy"]
             /\ UNCHANGED <<offer, username, fp, currentDB>>
  BY <1>3 DEF Receive
<1>4. CASE UseDB(c)
  <2>1. req[c].schema \in DB \cup {None} /\ phase[c] = "busy"
    BY <1>4, TargetType DEF UseDB, At
  <2>2. /\ phase' = [phase EXCEPT ![c] = "ready"]
        /\ UNCHANGED <<offer, username, fp>>
    BY <1>4 DEF UseDB, Returns
  <2>3. \/ UNCHANGED currentDB
        \/ \E d \in DB : Allowed(c, d) /\ currentDB' = [currentDB EXCEPT ![c] = d]
    BY <1>4, <2>1 DEF UseDB
  <2>4. QED
    BY <2>1, <2>2, <2>3
<1>5. ASSUME HandlerStep(c) \/ RedisFails(c), ~UseDB(c)
      PROVE  /\ phase[c] = "busy" /\ phase'[c] \in {"ready", "busy"}
             /\ phase' = [phase EXCEPT ![c] = phase'[c]]
             /\ UNCHANGED <<offer, username, fp, currentDB>>
  <2>1. ASSUME ListDatabases(c) \/ \E d \in DB : CheckDatabase(c, d)
        PROVE  phase[c] = "busy" /\ UNCHANGED connVars
    BY <2>1 DEF ListDatabases, CheckDatabase, At
  <2>2. ASSUME AnswerDatabases(c) \/ ShowTablesList(c) \/ LoadTable(c) \/ RefuseTableWrite(c)
                 \/ RefuseOtherWrite(c) \/ AnswerLocally(c) \/ RedisFails(c)
        PROVE  /\ phase[c] = "busy" /\ phase' = [phase EXCEPT ![c] = "ready"]
               /\ UNCHANGED <<offer, username, fp, currentDB>>
    BY <2>2 DEF AnswerDatabases, ShowTablesList, LoadTable, RefuseTableWrite,
        RefuseOtherWrite, AnswerLocally, RedisFails, Returns, At
  <2>3. ASSUME ShowTablesCheck(c) \/ RequireTable(c)
        PROVE  /\ phase[c] = "busy"
               /\ phase' = [phase EXCEPT ![c] = "ready"] \/ UNCHANGED phase
               /\ UNCHANGED <<offer, username, fp, currentDB>>
    BY <2>3 DEF ShowTablesCheck, RequireTable, GoesOn, Returns, At, connVars
  <2>4. QED
    BY <1>5, <2>1, <2>2, <2>3 DEF HandlerStep, connVars
<1>6. QED
  BY <1>1, <1>2, <1>3, <1>4, <1>5 DEF ServerStep, HandlerStep

LEMMA IdentityServerStep ==
  ASSUME SeedInv, ServerInv, Identity,
         NEW c \in Conn, ServerStep(c), UNCHANGED <<storeVars, seederVars>>
  PROVE  Identity'
<1>0. StoreTypeOK /\ UNCHANGED <<dbUsers, mysqlUsers, started>>
  BY DEF SeedInv, SeedTypeOK, storeVars, seederVars
<1> USE DEF ServerInv, ServerTypeOK, Connections, ConnState, Identity
<1>1. ASSUME {phase[c], phase'[c]} \subseteq {"ready", "busy"},
             phase' = [phase EXCEPT ![c] = phase'[c]],
             UNCHANGED <<offer, username, fp>>,
             \/ UNCHANGED currentDB
             \/ \E d \in DB : Allowed(c, d) /\ currentDB' = [currentDB EXCEPT ![c] = d]
      PROVE  Identity'
  <2>1. OneIdentity'
    <3>1. /\ phase[c] \in {"ready", "busy"} /\ phase'[c] \in {"ready", "busy"}
          /\ \A e \in Conn \ {c} : phase'[e] = phase[e] /\ currentDB'[e] = currentDB[e]
      BY <1>1
    <3>2. QED
      BY <1>1, <3>1 DEF OneIdentity
  <2>2. SelectionWasGranted'
    <3>1. ASSUME NEW d \in DB, Allowed(c, d)
          PROVE  \E f \in started : username[c] \in f.users[d]
      <4>1. username[c] \in UNION {f.users[d] : f \in started}
        BY <3>1 DEF Allowed, SeedInv, GrantState, GrantsComeFromSeeds
      <4>2. QED
        BY ONLY <4>1
    <3>2. QED
      BY ONLY <3>1, <1>0, <1>1, Identity, ServerTypeOK
         DEF Identity, SelectionWasGranted, ServerTypeOK
  <2>3. SessionsHaveCredentials'
    BY <1>0, <1>1 DEF Allowed, SessionsHaveCredentials
  <2>4. QED
    BY <2>1, <2>2, <2>3 DEF Identity
<1>2. ASSUME NEW o \in Offer, Accept(c, o)
      PROVE  Identity'
  <2>1. OneIdentity'
    BY <1>2 DEF Accept, OneIdentity
  <2>2. SelectionWasGranted'
    BY <1>0, <1>2 DEF Accept, SelectionWasGranted, OneIdentity
  <2>3. SessionsHaveCredentials'
    BY <1>0, <1>2 DEF Accept, SessionsHaveCredentials
  <2>4. QED
    BY <2>1, <2>2, <2>3 DEF Identity
<1>3. CASE Close(c)
  <2>1. OneIdentity'
    BY <1>3 DEF Close, OneIdentity
  <2>2. SelectionWasGranted'
    BY <1>0, <1>3 DEF Close, SelectionWasGranted, OneIdentity
  <2>3. SessionsHaveCredentials'
    BY <1>0, <1>3 DEF Close, SessionsHaveCredentials
  <2>4. QED
    BY <2>1, <2>2, <2>3 DEF Identity
<1>4. CASE Authenticate(c) /\ ~Close(c)
  <2>1. /\ phase[c] = "handshake" /\ mysqlUsers[offer[c].user] = offer[c].password
        /\ phase' = [phase EXCEPT ![c] = "authed"]
        /\ UNCHANGED <<offer, username, fp, currentDB>>
    BY <1>4 DEF Authenticate
  <2>2. offer[c].user \in User /\ offer[c].password \in Password
    BY <2>1 DEF Offer
  <2>3. \E f \in started : f.creds[offer[c].user] = offer[c].password
    <3>1. ASSUME mysqlUsers = NoCredentials
          PROVE  FALSE
      BY <3>1, <2>1, <2>2, NoneAssumption DEF NoCredentials
    <3>2. PICK f \in started : mysqlUsers = f.creds
      BY <3>1 DEF SeedInv, CredentialState, CredentialsWhole
    <3>3. QED
      BY <2>1, <3>2
  <2>4. OneIdentity'
    BY <2>1 DEF OneIdentity
  <2>5. SelectionWasGranted'
    BY <1>0, <2>1 DEF SelectionWasGranted
  <2>6. SessionsHaveCredentials'
    BY <1>0, <2>1, <2>3 DEF SessionsHaveCredentials
  <2>7. QED
    BY <2>4, <2>5, <2>6
<1>5. CASE Open(c)
  <2>0. /\ phase[c] = "authed" /\ offer[c].user \in User /\ offer[c].user # None
        /\ phase' = [phase EXCEPT ![c] = "ready"]
        /\ username' = [username EXCEPT ![c] = offer[c].user]
        /\ fp' = [fp EXCEPT ![c] = offer[c].user]
        /\ UNCHANGED <<offer, currentDB>>
    BY <1>5, NoneAssumption DEF Open, Offer
  <2>1. OneIdentity'
    BY <2>0 DEF OneIdentity
  <2>2. SelectionWasGranted'
    BY <1>0, <2>0 DEF SelectionWasGranted, OneIdentity
  <2>3. SessionsHaveCredentials'
    BY <1>0, <2>0 DEF SessionsHaveCredentials
  <2>4. QED
    BY <2>1, <2>2, <2>3 DEF Identity
<1>6. QED
  BY <1>1, <1>2, <1>3, <1>4, <1>5, <1>0, ConnectionStep

LEMMA IdentityNext == SeedInv /\ ServerInv /\ Identity /\ [Next]_vars => Identity'
<1> SUFFICES ASSUME SeedInv, ServerInv, Identity, [Next]_vars
             PROVE  Identity'
  OBVIOUS
<1>1. CASE SeedAction
  <2>1. started \subseteq started'
    BY StepCases, SeederOnlyGrants
  <2>2. UNCHANGED connVars
    BY <1>1 DEF SeedAction
  <2>3. QED
    BY <2>1, <2>2 DEF Identity, OneIdentity, SelectionWasGranted, SessionsHaveCredentials,
        connVars, ServerInv, ServerTypeOK
<1>2. ASSUME NEW c \in Conn, ServerStep(c), UNCHANGED <<storeVars, seederVars>>
      PROVE  Identity'
  BY <1>2, IdentityServerStep
<1>3. CASE UNCHANGED vars
  BY <1>3 DEF vars, storeVars, seederVars, serverVars, connVars, handlerVars,
      Identity, OneIdentity, SelectionWasGranted, SessionsHaveCredentials
<1>4. QED
  BY <1>1, <1>2, <1>3, StepCases

LEMMA IdentityInvariance == Spec => []Identity
  BY IdentityInit, IdentityNext, Invariance, PTL DEF Spec

(* The user a handler scopes by and the user its log lines name are the one *)
(* that authenticated, and nothing is selected before there is one          *)
(* (main.go:71-82, handler.go:47-62).                                       *)
THEOREM IdentityIsOne == Spec => []OneIdentity
<1>1. Identity => OneIdentity
  BY DEF Identity
<1>2. QED
  BY <1>1, IdentityInvariance, PTL

(* Every session past the handshake offered a user and password that some   *)
(* deployed seed file holds (auth.go:31-44), even if mysql_users was being  *)
(* rewritten when it logged in.                                             *)
THEOREM SessionsAreAuthentic == Spec => []SessionsHaveCredentials
<1>1. Identity => SessionsHaveCredentials
  BY DEF Identity
<1>2. QED
  BY <1>1, IdentityInvariance, PTL

(* A step of one connection leaves the others alone. *)
LEMMA OthersUntouched ==
  ASSUME ServerInv, NEW c \in Conn, ServerStep(c), NEW e \in Conn \ {c}
  PROVE  /\ phase'[e] = phase[e] /\ username'[e] = username[e] /\ currentDB'[e] = currentDB[e]
         /\ req'[e] = req[e] /\ pc'[e] = pc[e] /\ work'[e] = work[e] /\ found'[e] = found[e]
         /\ reply'[e] = reply[e] /\ quiet'[e] = quiet[e]
<1> USE DEF ServerInv, ServerTypeOK, connVars, handlerVars
<1>1. ASSUME NEW o \in Offer, Accept(c, o)
      PROVE  phase' = [phase EXCEPT ![c] = "handshake"] /\ UNCHANGED <<username, currentDB, handlerVars>>
  BY <1>1 DEF Accept
<1>2. ASSUME NEW q \in Queries, Receive(c, q)
      PROVE  /\ phase' = [phase EXCEPT ![c] = "busy"] /\ req' = [req EXCEPT ![c] = q]
             /\ reply' = [reply EXCEPT ![c] = NoReply] /\ quiet' = [quiet EXCEPT ![c] = TRUE]
             /\ UNCHANGED <<username, currentDB, pc, work, found>>
  BY <1>2 DEF Receive
<1>3. CASE HandshakeUseDB(c) \/ Authenticate(c) \/ Open(c) \/ Disconnect(c)
  BY <1>3 DEF HandshakeUseDB, Authenticate, Open, Disconnect, Close
<1>4. CASE ListDatabases(c) \/ AnswerDatabases(c) \/ \E d \in DB : CheckDatabase(c, d)
  BY <1>4 DEF ListDatabases, AnswerDatabases, CheckDatabase, Returns
<1>5. CASE ShowTablesCheck(c) \/ RequireTable(c)
  BY <1>5 DEF ShowTablesCheck, RequireTable, Returns, GoesOn
<1>6. CASE \/ ShowTablesList(c) \/ LoadTable(c) \/ RefuseTableWrite(c) \/ RefuseOtherWrite(c)
           \/ AnswerLocally(c) \/ UseDB(c) \/ RedisFails(c)
  BY <1>6 DEF ShowTablesList, LoadTable, RefuseTableWrite, RefuseOtherWrite, AnswerLocally,
      UseDB, RedisFails, Returns
<1>7. QED
  BY <1>1, <1>2, <1>3, <1>4, <1>5, <1>6 DEF ServerStep, HandlerStep

-----------------------------------------------------------------------------
(* What an unqualified statement shows is the selected database's. *)

ShowsSelected(c) ==
    ShowsTables(c) /\ req[c].schema = None => reply[c].db # None /\ reply[c].db = currentDB[c]

(* A reply that shows no table, or the one that was there before.           *)
LEMMA SelectedFrame ==
  ASSUME NEW c \in Conn, ShowsSelected(c), req'[c] = req[c], currentDB'[c] = currentDB[c],
         reply'[c] = reply[c] \/ reply'[c].kind \notin {"rows", "columns", "tables"}
  PROVE  ShowsSelected(c)'
  BY DEF ShowsSelected, ShowsTables

LEMMA OtherReplies ==
  /\ \A r \in {NoReply, OK, NoDatabase, ShowDenied, RedisError} :
       r.kind \notin {"rows", "columns", "tables"}
  /\ \A d : Denied(d).kind \notin {"rows", "columns", "tables"}
  /\ \A d, t : UnknownTable(d, t).kind \notin {"rows", "columns", "tables"}
  BY DEF NoReply, OK, NoDatabase, ShowDenied, RedisError, Denied, UnknownTable, Answer

LEMMA LocalReplies ==
  ASSUME NEW q, NEW selected,
         Route(q) \in {"SELECT DATABASE()", "SELECT VERSION()", "SHOW COLUMNS"}
                       \cup Accepted \cup Unsupported
  PROVE  LocalReply(q, selected).kind \notin {"rows", "columns", "tables"}
<1>1. LocalReply(q, selected) \in {Answer("selected", selected, None),
         Answer("version", None, None), ShowDenied, OK, Answer("unsupported", None, None)}
  BY DEF LocalReply, Accepted, Unsupported
<1>2. \A k \in {"selected", "version", "unsupported"} :
        \A d, b : Answer(k, d, b).kind \notin {"rows", "columns", "tables"}
  BY DEF Answer
<1>3. QED
  BY <1>1, <1>2, OtherReplies

LEMMA SelectedStep ==
  ASSUME SeedInv, ServerInv, OneIdentity, NEW c \in Conn, ShowsSelected(c), ServerStep(c)
  PROVE  ShowsSelected(c)'
<1> USE DEF ServerInv, ServerTypeOK
<1> DEFINE d == Target(req[c], currentDB[c])
           Other(r) == r.kind \notin {"rows", "columns", "tables"}
<1>1. ASSUME NEW o \in Offer, Accept(c, o)
      PROVE  ShowsSelected(c)'
  BY <1>1, SelectedFrame DEF Accept, handlerVars
<1>2. ASSUME Close(c)
      PROVE  ShowsSelected(c)'
  BY <1>2, OtherReplies DEF Close, ShowsSelected, ShowsTables
<1>3. CASE HandshakeUseDB(c)
  <2>1. offer[c].db \in DB /\ username[c] = None
    BY <1>3 DEF HandshakeUseDB, Offer, OneIdentity, Connections, ConnState
  <2>2. Close(c)
    BY <1>3, <2>1, NobodyIsGranted DEF HandshakeUseDB, SeedInv, SeedTypeOK
  <2>3. QED
    BY <2>2, <1>2
<1>4. CASE Authenticate(c) \/ Open(c) \/ Disconnect(c)
  BY <1>2, <1>4, SelectedFrame DEF Authenticate, Open, Disconnect, handlerVars
<1>5. ASSUME NEW q \in Queries, Receive(c, q)
      PROVE  ShowsSelected(c)'
  BY <1>5, OtherReplies DEF Receive, ShowsSelected, ShowsTables
<1>6. ASSUME NEW r, Returns(c, r), Other(r), UNCHANGED currentDB
      PROVE  ShowsSelected(c)'
  <2>1. reply'[c] = r /\ req'[c] = req[c] /\ currentDB'[c] = currentDB[c]
    BY <1>6 DEF Returns
  <2>2. QED
    BY <1>6, <2>1, SelectedFrame
<1>7. ASSUME NEW call, GoesOn(c, call)
      PROVE  ShowsSelected(c)'
  BY <1>7, SelectedFrame DEF GoesOn, connVars
<1>8. CASE ListDatabases(c) \/ (\E e \in DB : CheckDatabase(c, e))
  BY <1>8, SelectedFrame DEF ListDatabases, CheckDatabase, connVars
<1>9. CASE AnswerDatabases(c)
  <2>1. Other(Answer("databases", None, found[c]))
    BY DEF Answer
  <2>2. QED
    BY <1>6, <1>9, <2>1 DEF AnswerDatabases
<1>10. CASE ShowTablesCheck(c)
  BY <1>6, <1>7, <1>10, OtherReplies DEF ShowTablesCheck
<1>11. ASSUME NEW k, NEW b, Returns(c, Answer(k, d, b)), UNCHANGED currentDB, d \in DB
       PROVE  ShowsSelected(c)'
  <2>1. reply'[c].db = d /\ req'[c] = req[c] /\ currentDB'[c] = currentDB[c]
    BY <1>11 DEF Returns, Answer
  <2>2. d # None
    BY <1>11, NoneAssumption
  <2>3. req[c].schema = None => d = currentDB[c]
    BY DEF Target
  <2>4. QED
    BY <2>1, <2>2, <2>3 DEF ShowsSelected, ShowsTables
<1>12. CASE ShowTablesList(c)
  <2>1. d \in DB
    BY <1>12 DEF ShowTablesList, At, Connections, ConnState
  <2>2. Other(Answer("noTables", None, None))
    BY DEF Answer
  <2>3. QED
    BY <1>6, <1>11, <1>12, <2>1, <2>2 DEF ShowTablesList
<1>13. CASE RequireTable(c)
  BY <1>6, <1>7, <1>13, OtherReplies DEF RequireTable
<1>14. CASE LoadTable(c)
  <2>1. d \in DB
    BY <1>14 DEF LoadTable, At, Connections, ConnState
  <2>2. QED
    BY <1>6, <1>11, <1>14, <2>1, OtherReplies DEF LoadTable, TableReply
<1>15. CASE RefuseTableWrite(c)
  BY <1>6, <1>15, OtherReplies DEF RefuseTableWrite, TableWriteReply
<1>16. CASE RefuseOtherWrite(c)
  BY <1>6, <1>16, OtherReplies DEF RefuseOtherWrite
<1>17. CASE AnswerLocally(c)
  <2>1. Other(LocalReply(req[c], currentDB[c]))
    BY <1>17, LocalReplies DEF AnswerLocally, At
  <2>2. QED
    BY <1>6, <1>17, <2>1 DEF AnswerLocally
<1>18. CASE UseDB(c)
  <2>1. reply'[c] = OK \/ reply'[c] = Denied(req[c].schema)
    BY <1>18 DEF UseDB, Returns
  <2>2. QED
    BY <2>1, OtherReplies DEF ShowsSelected, ShowsTables
<1>19. CASE RedisFails(c)
  BY <1>6, <1>19, OtherReplies DEF RedisFails
<1>20. QED
  BY <1>1, <1>3, <1>4, <1>5, <1>8, <1>9, <1>10, <1>12, <1>13, <1>14, <1>15, <1>16, <1>17,
     <1>18, <1>19 DEF ServerStep, HandlerStep

(* Nothing done for one connection changes what another is shown.           *)
LEMMA SelectedNext ==
  SeedInv /\ ServerInv /\ OneIdentity /\ (\A c \in Conn : ShowsSelected(c)) /\ [Next]_vars
    => (\A c \in Conn : ShowsSelected(c))'
<1> SUFFICES ASSUME SeedInv, ServerInv, OneIdentity, \A c \in Conn : ShowsSelected(c), [Next]_vars,
                    NEW c \in Conn
             PROVE  ShowsSelected(c)'
  OBVIOUS
<1>1. CASE SeedAction \/ UNCHANGED vars
  BY <1>1, SelectedFrame DEF SeedAction, vars, serverVars, connVars, handlerVars
<1>2. ASSUME NEW e \in Conn, ServerStep(e)
      PROVE  ShowsSelected(c)'
  <2>1. CASE e = c
    BY <1>2, <2>1, SelectedStep
  <2>2. CASE e # c
    BY <1>2, <2>2, OthersUntouched, SelectedFrame
  <2>3. QED
    BY <2>1, <2>2
<1>3. QED
  BY <1>1, <1>2, StepCases

(* An unqualified SELECT, DESCRIBE or SHOW TABLES shows a database some     *)
(* deployed seed file grants the session's user (query_handlers.go:57-90,   *)
(* select_handler.go:84-104, describe_handler.go): that UseDB asks once     *)
(* (handler.go:47-62) is enough for it, however long ago, whatever USE was  *)
(* denied since, and whether the grants that are read are being rewritten.  *)
THEOREM UnqualifiedReadsAreOfGranted == Spec => []UnqualifiedReadsWereGranted
<1> DEFINE Selected == \A c \in Conn : ShowsSelected(c)
<1>1. Init => Selected
  BY OtherReplies DEF Init, ServerInit, ShowsSelected, ShowsTables
<1>2. Spec => []Selected
  BY <1>1, SelectedNext, Invariance, IdentityIsOne, PTL DEF Spec
<1>3. Identity /\ Selected => UnqualifiedReadsWereGranted
  BY DEF Identity, SelectionWasGranted, ShowsSelected, UnqualifiedReadsWereGranted
<1>4. QED
  BY <1>2, <1>3, IdentityInvariance, PTL

-----------------------------------------------------------------------------
(* Answers. *)

(* What a handler has found out before its last Redis call, as long as no   *)
(* key has changed since its command arrived.                               *)
Progressing(c) ==
    /\ phase[c] # "ready" => reply[c] = NoReply
    /\ quiet[c] /\ pc[c] = "filter" =>
         /\ work[c] \subseteq supportedDBs
         /\ found[c] = {e \in supportedDBs \ work[c] : username[c] \in dbUsers[e]}
    /\ quiet[c] /\ pc[c] = "list" => username[c] \in dbUsers[Target(req[c], currentDB[c])]
    /\ quiet[c] /\ pc[c] = "load" =>
         TableExists(Target(req[c], currentDB[c]), TargetTable(req[c]))

AnswerState(c) == Progressing(c) /\ ReadIsExact(c) /\ WriteIsRefused(c)

Answers == \A c \in Conn : AnswerState(c)

LEMMA AnswersInit == Init => Answers
  BY DEF Init, ServerInit, Answers, AnswerState, Progressing, ReadIsExact, WriteIsRefused, Answered

(* A step that leaves a connection and the keys alone keeps its answer.     *)
LEMMA AnswerFrame ==
  ASSUME NEW c \in Conn, AnswerState(c), UNCHANGED storeVars,
         phase'[c] = phase[c], username'[c] = username[c], currentDB'[c] = currentDB[c],
         req'[c] = req[c], pc'[c] = pc[c], work'[c] = work[c], found'[c] = found[c],
         reply'[c] = reply[c], quiet'[c] = quiet[c]
  PROVE  AnswerState(c)'
<1> USE DEF storeVars
<1>1. Progressing(c)'
  BY DEF AnswerState, Progressing, TableExists
<1>2. ReadIsExact(c)'
  BY DEF AnswerState, ReadIsExact, Answered, Reads, Reading
<1>3. WriteIsRefused(c)'
  BY DEF AnswerState, WriteIsRefused, Answered
<1>4. QED
  BY <1>1, <1>2, <1>3 DEF AnswerState

(* No answer, or none that counts: nothing to show.                         *)
LEMMA Unanswered ==
  ASSUME NEW c \in Conn, reply'[c] \in {NoReply, RedisError}
  PROVE  ReadIsExact(c)' /\ WriteIsRefused(c)'
  BY DEF ReadIsExact, WriteIsRefused, Answered, NoReply, RedisError, Answer

LEMMA RouteVerb ==
  ASSUME NEW q
  PROVE  /\ Route(q) \notin {"SELECT DATABASE()", "SELECT VERSION()", "SHOW COLUMNS"} => q.verb = Route(q)
         /\ Route(q) \in {"SELECT DATABASE()", "SELECT VERSION()", "SHOW COLUMNS"} =>
              q.verb \in {"SELECT", "SELECT DATABASE()", "SELECT VERSION()", "SHOW COLUMNS"}
  BY DEF Route

(* Reading, case by case. *)
LEMMA ReadingOfTables ==
  ASSUME NEW q, NEW usr, NEW selected, q.verb = "SHOW TABLES",
         Target(q, selected) # None, usr \in dbUsers[Target(q, selected)]
  PROVE  Reading(q, usr, selected) =
           IF dbTables[Target(q, selected)] = {} THEN Answer("noTables", None, None)
           ELSE Answer("tables", Target(q, selected), dbTables[Target(q, selected)])
  BY DEF Reading

LEMMA ReadingOfNothing ==
  ASSUME NEW q, NEW usr, NEW selected, q.verb \in {"SELECT", "DESCRIBE"},
         \/ None \in {Target(q, selected), TargetTable(q)}
         \/ ~TableExists(Target(q, selected), TargetTable(q))
  PROVE  Reading(q, usr, selected) =
           IF None \in {Target(q, selected), TargetTable(q)} THEN OK
           ELSE UnknownTable(Target(q, selected), TargetTable(q))
  BY DEF Reading, TableExists

LEMMA ReadingOfRows ==
  ASSUME NEW q, NEW usr, NEW selected, q.verb \in {"SELECT", "DESCRIBE"},
         None \notin {Target(q, selected), TargetTable(q)},
         TableExists(Target(q, selected), TargetTable(q))
  PROVE  Reading(q, usr, selected) =
           IF tableData[<<Target(q, selected), TargetTable(q)>>] = None THEN OK
           ELSE Answer(IF q.verb = "SELECT" THEN "rows" ELSE "columns", Target(q, selected),
                       tableData[<<Target(q, selected), TargetTable(q)>>])
  BY DEF Reading, TableExists

LEMMA ReadingFrame ==
  ASSUME NEW c \in Conn, UNCHANGED storeVars,
         req'[c] = req[c], username'[c] = username[c], currentDB'[c] = currentDB[c]
  PROVE  Reading(req[c], username[c], currentDB[c])' = Reading(req[c], username[c], currentDB[c])
  BY DEF Reading, storeVars

LEMMA AnswerStep ==
  ASSUME StoreTypeOK, ServerInv, NEW c \in Conn, Progressing(c), ReadIsExact(c),
         ServerStep(c), UNCHANGED storeVars
  PROVE  AnswerState(c)'
<1> USE DEF ServerInv, ServerTypeOK, Connections, ConnState, AnswerState, Progressing,
      connVars, handlerVars, storeVars
<1>1. ASSUME NEW o \in Offer, Accept(c, o)
      PROVE  AnswerState(c)'
  BY <1>1, Unanswered DEF Accept
<1>2. CASE Close(c) /\ phase[c] # "busy"
  BY <1>2, Unanswered DEF Close
<1>3. CASE (HandshakeUseDB(c) \/ Authenticate(c) \/ Disconnect(c)) /\ ~Close(c)
  BY <1>3, Unanswered DEF HandshakeUseDB, Authenticate, Disconnect
<1>4. CASE Open(c)
  BY <1>4, Unanswered DEF Open
<1>5. ASSUME NEW q \in Queries, Receive(c, q)
      PROVE  AnswerState(c)'
  BY <1>5, Unanswered DEF Receive
<1>6. CASE ListDatabases(c)
  BY <1>6, Unanswered DEF ListDatabases, At
<1>7. ASSUME NEW d \in DB, CheckDatabase(c, d)
      PROVE  AnswerState(c)'
  <2>1. /\ phase'[c] = phase[c] /\ username'[c] = username[c] /\ req'[c] = req[c]
        /\ pc'[c] = pc[c] /\ reply'[c] = reply[c] /\ quiet'[c] = quiet[c]
        /\ phase[c] = "busy" /\ pc[c] = "filter" /\ d \in work[c]
        /\ UNCHANGED <<supportedDBs, dbUsers>>
    BY <1>7 DEF CheckDatabase, At
  <2>2. /\ work'[c] = work[c] \ {d}
        /\ found'[c] = IF username[c] \in dbUsers[d] THEN found[c] \cup {d} ELSE found[c]
    BY <1>7 DEF CheckDatabase, Allowed
  <2>3. reply[c] = NoReply
    BY <2>1
  <2>4. ASSUME quiet[c]
        PROVE  /\ work'[c] \subseteq supportedDBs
               /\ found'[c] = {e \in supportedDBs \ work'[c] : username[c] \in dbUsers[e]}
    <3>1. /\ work[c] \subseteq supportedDBs
          /\ found[c] = {e \in supportedDBs \ work[c] : username[c] \in dbUsers[e]}
      BY <2>1, <2>4
    <3>2. QED
      BY ONLY <2>1, <2>2, <3>1
  <2>5. Progressing(c)'
    BY <2>1, <2>3, <2>4
  <2>6. QED
    BY <2>1, <2>3, <2>5, Unanswered
<1>8. CASE AnswerDatabases(c)
  <2>1. /\ phase'[c] = "ready" /\ pc'[c] = "begin" /\ reply'[c] = Answer("databases", None, found[c])
        /\ req'[c] = req[c] /\ quiet'[c] = quiet[c] /\ work[c] = {} /\ pc[c] = "filter"
        /\ username'[c] = username[c] /\ currentDB'[c] = currentDB[c]
        /\ req[c].verb = "SHOW DATABASES"
    BY <1>8, RouteVerb DEF AnswerDatabases, At, Returns
  <2>2. ReadIsExact(c)'
    <3>1. SUFFICES ASSUME quiet'[c]
                   PROVE  reply'[c] = Reading(req[c], username[c], currentDB[c])'
      BY <2>1 DEF ReadIsExact
    <3>2. found[c] = {e \in supportedDBs : username[c] \in dbUsers[e]}
      BY <2>1, <3>1
    <3>3. Reading(req[c], username[c], currentDB[c]) =
            Answer("databases", None, {e \in supportedDBs : username[c] \in dbUsers[e]})
      BY ONLY <2>1 DEF Reading
    <3>4. reply'[c] = Reading(req[c], username[c], currentDB[c])
      BY ONLY <2>1, <3>2, <3>3, Zenon
    <3>5. QED
      BY <3>4, <2>1, ReadingFrame
  <2>3. WriteIsRefused(c)'
    BY <2>1 DEF WriteIsRefused, KnownWrites, TableWrites, DatabaseWrites
  <2>4. QED
    BY <2>1, <2>2, <2>3
<1>9. CASE ShowTablesCheck(c)
  <2>0. phase[c] = "busy" /\ req[c].verb = "SHOW TABLES" /\ pc[c] = "begin"
    BY <1>9, RouteVerb DEF ShowTablesCheck, At
  <2>1. CASE GoesOn(c, "list") /\ Allowed(c, Target(req[c], currentDB[c]))
    BY <2>0, <2>1, Unanswered DEF GoesOn, Allowed
  <2> DEFINE d == Target(req[c], currentDB[c])
             r == IF d = None THEN NoDatabase ELSE Denied(d)
  <2>2. CASE Returns(c, r) /\ UNCHANGED currentDB /\ (d = None \/ ~Allowed(c, d))
    <3>1. /\ phase'[c] = "ready" /\ pc'[c] = "begin" /\ reply'[c] = r
          /\ req'[c] = req[c] /\ username'[c] = username[c] /\ currentDB'[c] = currentDB[c]
      BY <2>2 DEF Returns
    <3>2. ReadIsExact(c)'
      BY <2>0, <2>2, <3>1 DEF ReadIsExact, Reading, Allowed
    <3>3. WriteIsRefused(c)'
      BY <2>0, <3>1 DEF WriteIsRefused, KnownWrites, TableWrites, DatabaseWrites
    <3>4. QED
      BY <3>1, <3>2, <3>3
  <2>3. QED
    BY <1>9, <2>1, <2>2 DEF ShowTablesCheck
<1>10. CASE ShowTablesList(c)
  <2> DEFINE d == Target(req[c], currentDB[c])
  <2>1. /\ phase'[c] = "ready" /\ pc'[c] = "begin"
        /\ reply'[c] = IF dbTables[d] = {} THEN Answer("noTables", None, None)
                       ELSE Answer("tables", d, dbTables[d])
        /\ req'[c] = req[c] /\ quiet'[c] = quiet[c] /\ pc[c] = "list"
        /\ username'[c] = username[c] /\ currentDB'[c] = currentDB[c]
        /\ req[c].verb = "SHOW TABLES" /\ d # None
    BY <1>10, RouteVerb, NoneAssumption DEF ShowTablesList, At, Returns
  <2>2. ReadIsExact(c)'
    <3>1. SUFFICES ASSUME quiet'[c]
                 PROVE  reply'[c] = Reading(req[c], username[c], currentDB[c])'
      BY <2>1 DEF ReadIsExact
    <3>2. username[c] \in dbUsers[d]
      BY <2>1, <3>1
    <3>3. Reading(req[c], username[c], currentDB[c]) =
            IF dbTables[d] = {} THEN Answer("noTables", None, None)
            ELSE Answer("tables", d, dbTables[d])
      BY ONLY <2>1, <3>2, ReadingOfTables
    <3>4. reply'[c] = Reading(req[c], username[c], currentDB[c])
      BY ONLY <2>1, <3>3
    <3>5. QED
      BY <3>4, <2>1, ReadingFrame
  <2>3. WriteIsRefused(c)'
    BY <2>1 DEF WriteIsRefused, KnownWrites, TableWrites, DatabaseWrites
  <2>4. QED
    BY <2>1, <2>2, <2>3
<1>11. CASE RequireTable(c)
  <2> DEFINE d == Target(req[c], currentDB[c])
             t == TargetTable(req[c])
             r == IF None \in {d, t} THEN OK ELSE UnknownTable(d, t)
  <2>0. phase[c] = "busy" /\ req[c].verb \in {"SELECT", "DESCRIBE"} /\ pc[c] = "begin"
    BY <1>11, RouteVerb DEF RequireTable, At
  <2>1. CASE GoesOn(c, "load") /\ TableExists(d, t)
    BY <2>0, <2>1, Unanswered DEF GoesOn, TableExists
  <2>2. CASE Returns(c, r) /\ UNCHANGED currentDB /\ (None \in {d, t} \/ ~TableExists(d, t))
    <3>1. /\ phase'[c] = "ready" /\ pc'[c] = "begin" /\ reply'[c] = r
          /\ req'[c] = req[c] /\ username'[c] = username[c] /\ currentDB'[c] = currentDB[c]
      BY <2>2 DEF Returns
    <3>2. ReadIsExact(c)'
      <4>1. SUFFICES ASSUME quiet'[c]
                   PROVE  reply'[c] = Reading(req[c], username[c], currentDB[c])'
        BY <3>1 DEF ReadIsExact
      <4>2. Reading(req[c], username[c], currentDB[c]) = r
        BY ONLY <2>0, <2>2, ReadingOfNothing
      <4>3. reply'[c] = Reading(req[c], username[c], currentDB[c])
        BY ONLY <3>1, <4>2
      <4>4. QED
        BY <4>3, <3>1, ReadingFrame
    <3>3. WriteIsRefused(c)'
      BY <2>0, <3>1 DEF WriteIsRefused, KnownWrites, TableWrites, DatabaseWrites
    <3>4. QED
      BY <3>1, <3>2, <3>3
  <2>3. QED
    BY <1>11, <2>1, <2>2 DEF RequireTable
<1>12. CASE LoadTable(c)
  <2> DEFINE d == Target(req[c], currentDB[c])
             t == TargetTable(req[c])
             v == tableData[<<d, t>>]
  <2>1. /\ phase'[c] = "ready" /\ pc'[c] = "begin"
        /\ reply'[c] = IF v = None THEN OK
                       ELSE Answer(IF req[c].verb = "SELECT" THEN "rows" ELSE "columns", d, v)
        /\ req'[c] = req[c] /\ quiet'[c] = quiet[c] /\ pc[c] = "load"
        /\ username'[c] = username[c] /\ currentDB'[c] = currentDB[c]
        /\ req[c].verb \in {"SELECT", "DESCRIBE"} /\ d # None /\ t # None
    BY <1>12, RouteVerb, NoneAssumption DEF LoadTable, TableReply, At, Returns
  <2>2. ReadIsExact(c)'
    <3>1. SUFFICES ASSUME quiet'[c]
                 PROVE  reply'[c] = Reading(req[c], username[c], currentDB[c])'
      BY <2>1 DEF ReadIsExact
    <3>2. TableExists(d, t)
      BY <2>1, <3>1
    <3>3. Reading(req[c], username[c], currentDB[c]) =
            IF v = None THEN OK
            ELSE Answer(IF req[c].verb = "SELECT" THEN "rows" ELSE "columns", d, v)
      BY ONLY <2>1, <3>2, ReadingOfRows
    <3>4. reply'[c] = Reading(req[c], username[c], currentDB[c])
      BY ONLY <2>1, <3>3
    <3>5. QED
      BY <3>4, <2>1, ReadingFrame
  <2>3. WriteIsRefused(c)'
    BY <2>1 DEF WriteIsRefused, KnownWrites, TableWrites, DatabaseWrites
  <2>4. QED
    BY <2>1, <2>2, <2>3
<1>13. CASE RefuseTableWrite(c) \/ RefuseOtherWrite(c)
  <2>1. phase[c] = "busy" /\ phase'[c] = "ready" /\ pc'[c] = "begin" /\ req'[c] = req[c]
    BY <1>13 DEF RefuseTableWrite, RefuseOtherWrite, Returns, At
  <2>2. reply'[c].kind \in {"denied", "noDB", "unknownTable"}
    <3>1. \A d, t : {NoDatabase.kind, UnknownTable(d, t).kind, Denied(d).kind}
                     \subseteq {"denied", "noDB", "unknownTable"}
      BY DEF NoDatabase, UnknownTable, Denied, Answer
    <3>2. \A d, t : TableWriteReply(d, t).kind \in {"denied", "noDB", "unknownTable"}
      BY <3>1 DEF TableWriteReply
    <3>3. CASE RefuseTableWrite(c)
      BY <3>2, <3>3 DEF RefuseTableWrite, Returns
    <3>4. CASE RefuseOtherWrite(c)
      BY <3>1, <3>4 DEF RefuseOtherWrite, Returns
    <3>5. QED
      BY <1>13, <3>3, <3>4
  <2>3. Route(req[c]) \notin {"SHOW DATABASES", "SHOW TABLES", "SELECT", "DESCRIBE"}
    BY <1>13 DEF RefuseTableWrite, RefuseOtherWrite, At, TableWrites, DatabaseWrites
  <2>4. ReadIsExact(c)' /\ WriteIsRefused(c)'
    BY <2>1, <2>2, <2>3 DEF ReadIsExact, WriteIsRefused, Reads
  <2>5. QED
    BY <2>1, <2>4
<1>14. CASE AnswerLocally(c) \/ UseDB(c)
  <2>1. phase'[c] = "ready" /\ pc'[c] = "begin" /\ req'[c] = req[c]
    BY <1>14 DEF AnswerLocally, UseDB, Returns
  <2>2. Route(req[c]) \in {"SELECT DATABASE()", "SELECT VERSION()", "SHOW COLUMNS", "USE", "COM_INIT_DB"}
                           \cup Accepted \cup Unsupported
    BY <1>14 DEF AnswerLocally, UseDB, At
  <2>3. /\ ~Reads(req[c]) /\ req[c].verb \notin KnownWrites
    BY <2>2, RouteVerb DEF Reads, KnownWrites, TableWrites, DatabaseWrites, Accepted, Unsupported
  <2>4. ReadIsExact(c)' /\ WriteIsRefused(c)'
    BY <2>1, <2>3 DEF ReadIsExact, WriteIsRefused, Reads
  <2>5. QED
    BY <2>1, <2>4
<1>15. CASE RedisFails(c)
  BY <1>15, Unanswered DEF RedisFails, Returns
<1>16. QED
  BY <1>1, <1>2, <1>3, <1>4, <1>5, <1>6, <1>7, <1>8, <1>9, <1>10, <1>11, <1>12, <1>13, <1>14, <1>15
  DEF ServerStep, HandlerStep, HandshakeUseDB, Authenticate, Disconnect

(* A step that touches no key and belongs to one connection. *)
LEMMA AnswersServerStep ==
  ASSUME StoreTypeOK, ServerInv, Answers, UNCHANGED storeVars,
         NEW c \in Conn, ServerStep(c)
  PROVE  Answers'
<1> SUFFICES ASSUME NEW e \in Conn
             PROVE  AnswerState(e)'
  BY DEF Answers
<1>0. AnswerState(e)
  BY DEF Answers
<1>1. CASE e = c
  <2>1. Progressing(c) /\ ReadIsExact(c)
    BY <1>0, <1>1 DEF AnswerState
  <2>2. AnswerState(c)'
    BY ONLY <2>1, AnswerStep, StoreTypeOK, ServerInv, UNCHANGED storeVars, c \in Conn, ServerStep(c)
  <2>3. QED
    BY <2>2, <1>1
<1>2. CASE e # c
  BY <1>0, <1>2, OthersUntouched, AnswerFrame
<1>3. QED
  BY <1>1, <1>2

(* A seeder step that changes a key ends the quiet: what was found out by   *)
(* then no longer has to be true, and no read has to be exact.              *)
LEMMA AnswersSeeding ==
  ASSUME ServerInv, Answers, SeedAction
  PROVE  Answers'
<1> SUFFICES ASSUME NEW c \in Conn
             PROVE  AnswerState(c)'
  BY DEF Answers
<1>0. AnswerState(c)
  BY DEF Answers
<1>1. /\ phase' = phase /\ username' = username /\ currentDB' = currentDB /\ req' = req
      /\ pc' = pc /\ work' = work /\ found' = found /\ reply' = reply
      /\ quiet'[c] = (quiet[c] /\ storeVars' = storeVars)
  BY DEF SeedAction, connVars
<1>2. CASE UNCHANGED storeVars
  <2>1. quiet'[c] = quiet[c]
    BY <1>1, <1>2 DEF ServerInv, ServerTypeOK
  <2>2. QED
    BY <1>0, <1>1, <1>2, <2>1, AnswerFrame
<1>3. CASE storeVars' # storeVars
  <2>1. ~quiet'[c]
    BY <1>1, <1>3
  <2>2. Progressing(c)'
    BY <1>0, <1>1, <2>1 DEF AnswerState, Progressing
  <2>3. ReadIsExact(c)'
    BY <2>1 DEF ReadIsExact
  <2>4. WriteIsRefused(c)'
    BY <1>0, <1>1 DEF AnswerState, WriteIsRefused, Answered
  <2>5. QED
    BY <2>2, <2>3, <2>4 DEF AnswerState
<1>4. QED
  BY <1>2, <1>3

LEMMA AnswersNext == SeedInv /\ ServerInv /\ Answers /\ [Next]_vars => Answers'
<1> SUFFICES ASSUME SeedInv, ServerInv, Answers, [Next]_vars
             PROVE  Answers'
  OBVIOUS
<1>0. StoreTypeOK
  BY DEF SeedInv, SeedTypeOK
<1>1. CASE SeedAction
  BY <1>1, AnswersSeeding
<1>2. ASSUME NEW c \in Conn, ServerStep(c), UNCHANGED <<storeVars, seederVars>>
      PROVE  Answers'
  <2>1. UNCHANGED storeVars
    BY <1>2
  <2>2. QED
    BY <1>0, <1>2, <2>1, AnswersServerStep
<1>3. CASE UNCHANGED vars
  <2> SUFFICES ASSUME NEW c \in Conn
               PROVE  AnswerState(c)'
    BY DEF Answers
  <2>1. AnswerState(c)
    BY DEF Answers
  <2>2. /\ UNCHANGED storeVars /\ phase'[c] = phase[c] /\ username'[c] = username[c]
        /\ currentDB'[c] = currentDB[c] /\ req'[c] = req[c] /\ pc'[c] = pc[c]
        /\ work'[c] = work[c] /\ found'[c] = found[c] /\ reply'[c] = reply[c]
        /\ quiet'[c] = quiet[c]
    BY <1>3 DEF vars, serverVars, connVars, handlerVars
  <2>3. QED
    BY <2>1, <2>2, AnswerFrame
<1>4. QED
  BY <1>1, <1>2, <1>3, StepCases

LEMMA AnswersInvariance == Spec => []Answers
  BY AnswersInit, AnswersNext, Invariance, PTL DEF Spec

(* A read no seeding touched answers what one look at the keys would, after *)
(* any history of commands and however the other connections run            *)
(* (query_handlers.go:28-90, select_handler.go:67-115,                      *)
(* describe_handler.go:19-66).                                              *)
THEOREM ReadsAreExact == Spec => []QuietReadsAreExact
<1>1. Answers => QuietReadsAreExact
  BY DEF Answers, AnswerState, QuietReadsAreExact
<1>2. QED
  BY <1>1, AnswersInvariance, PTL

(* No write statement HandleQuery knows is ever answered with success       *)
(* (handler.go:97-120, query_handlers.go:136-515).                          *)
THEOREM WritesAreRefused == Spec => []KnownWritesAreRefused
<1>1. Answers => KnownWritesAreRefused
  BY DEF Answers, AnswerState, KnownWritesAreRefused
<1>2. QED
  BY <1>1, AnswersInvariance, PTL
=============================================================================
