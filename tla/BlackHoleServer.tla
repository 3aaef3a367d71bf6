--------------------------- MODULE BlackHoleServer ---------------------------
(***************************************************************************)
(* The MySQL front end: main.go's goroutine per connection, the             *)
(* authentication of auth.go and the handlers of handler.go,                *)
(* query_handlers.go, select_handler.go and describe_handler.go.            *)
(*                                                                         *)
(* A handler is cut at its Redis calls: between two of them anything may    *)
(* happen to the keys.  What it does between two calls touches only the     *)
(* connection's own handler object.  Parsing a statement is one step with   *)
(* what follows it, which module SharedParser shows the mutex to justify.   *)
(* go-mysql, which drives the callbacks, is modelled as main.go uses it.    *)
(***************************************************************************)
EXTENDS Keyspace, FiniteSets

CONSTANTS
    Conn,     \* connections
    Queries,  \* the commands clients send
    Lower     \* lower case, of database and table names

ASSUME LowerAssumption ==
    /\ Lower \in [DB \cup Table -> DB \cup Table]
    /\ \A d \in DB : Lower[d] \in DB
    /\ \A t \in Table : Lower[t] \in Table
    /\ \A n \in DB \cup Table : Lower[Lower[n]] = Lower[n]

-----------------------------------------------------------------------------
(* Commands *)

(* What each statement does with its target. *)
TableWrites == {"DROP TABLE", "TRUNCATE", "DELETE", "INSERT", "UPDATE",
                "ALTER TABLE", "ALTER DATABASE", "RENAME TABLE"}
DatabaseWrites == {"CREATE DATABASE", "DROP DATABASE"}
Accepted == {"OTHER WRITE", "SET", "COM_STMT_PREPARE", "COM_STMT_EXECUTE", "COM_STMT_CLOSE"}
Unsupported == {"COM_FIELD_LIST", "COM_OTHER"}
Verb == TableWrites \cup DatabaseWrites \cup Accepted \cup Unsupported
          \cup {"SHOW DATABASES", "SHOW TABLES", "SELECT", "DESCRIBE", "USE",
                "SHOW COLUMNS", "CREATE TABLE", "GRANT", "COM_INIT_DB"}

(* A statement as its handler sees it: the table and the qualifier, None    *)
(* for each when the statement has none, is a join, or does not parse.  Of  *)
(* the tables of a DROP TABLE or RENAME TABLE it is the first.  mentions is *)
(* what the upper-cased text of a SELECT contains, or that the whole of it  *)
(* is SELECT DATABASE(), with its alias or without.                         *)
(* "OTHER WRITE" is a write HandleQuery has no case for, CREATE VIEW say.   *)
Query ==
    [verb : Verb, schema : DB \cup {None}, table : Table \cup {None},
     mentions : SUBSET {"IS DATABASE()", "VERSION", "INFORMATION_SCHEMA"}]

ASSUME QueriesAssumption == Queries \subseteq Query

NoQuery == [verb |-> "none", schema |-> None, table |-> None, mentions |-> {}]

(* HandleQuery's switch, in its order: the four cases SELECT can take are   *)
(* told apart by the text.                                                  *)
Route(q) ==
    IF q.verb # "SELECT" THEN q.verb
    ELSE IF "IS DATABASE()" \in q.mentions THEN "SELECT DATABASE()"
    ELSE IF "VERSION" \in q.mentions THEN "SELECT VERSION()"
    ELSE IF "INFORMATION_SCHEMA" \in q.mentions THEN "SHOW COLUMNS"
    ELSE "SELECT"

(* The handlers that take Name.L and Schema.L fold a name to lower case;    *)
(* those that take Name.O, DBName or the text keep it.                      *)
Folds(q) == q.verb \in {"SELECT", "DESCRIBE", "CREATE TABLE"}
                       \cup (TableWrites \ {"ALTER DATABASE"})
Folded(q, n) == IF n # None /\ Folds(q) THEN Lower[n] ELSE n

(* The database a statement is about: its qualifier, else the selected one. *)
Target(q, selected) == IF q.schema = None THEN selected ELSE Folded(q, q.schema)
TargetTable(q) == Folded(q, q.table)

-----------------------------------------------------------------------------
(* Replies *)

Answer(kind, d, body) == [kind |-> kind, db |-> d, body |-> body]
NoReply == Answer("none", None, None)
OK == Answer("ok", None, None)                   \* an OK packet, or no rows
Denied(d) == Answer("denied", d, None)           \* Access denied ... to database
NoDatabase == Answer("noDB", None, None)         \* No database selected
UnknownTable(d, t) == Answer("unknownTable", d, t)
ShowDenied == Answer("showDenied", None, None)   \* error 1142
RedisError == Answer("redisError", None, None)

ReplyKinds == {"none", "ok", "denied", "noDB", "unknownTable", "showDenied", "redisError",
               "noTables", "unsupported", "databases", "tables", "rows", "columns",
               "selected", "version"}
ReplyBodies == (SUBSET DB) \cup (SUBSET Table) \cup Payload \cup Table \cup {None}
ReplyType == [kind : ReplyKinds, db : DB \cup {None}, body : ReplyBodies]

\* Mutant: compares with == instead of EqualFold.
MutTableExists(d, t) == t \in dbTables[d]

(* tableExistsInDB compares with EqualFold. *)
TableExists(d, t) == \E m \in dbTables[d] : Lower[m] = Lower[t]

-----------------------------------------------------------------------------
(* State *)

VARIABLES
    phase,      \* where a connection's goroutine is
    offer,      \* the user, password and database of the handshake response
    username,   \* BlackHoleHandler.username
    fp,         \* the user in BlackHoleHandler.fingerprint
    currentDB,  \* BlackHoleHandler.currentDB
    req,        \* the command being handled, or last handled
    pc,         \* the Redis call its handler is about to make
    work,       \* handleShowDatabases: names still to check
    found,      \* handleShowDatabases: names checked and allowed
    reply,      \* what the command was answered
    quiet       \* history: the keys are as they were when it arrived

connVars == <<phase, offer, username, fp, currentDB>>
handlerVars == <<req, pc, work, found, reply, quiet>>
serverVars == <<connVars, handlerVars>>

Offer == [user : User, password : Password, db : DB \cup {None}]
NoOffer == [user |-> None, password |-> None, db |-> None]

ServerTypeOK ==
    /\ phase \in [Conn -> {"none", "handshake", "authed", "ready", "busy"}]
    /\ offer \in [Conn -> Offer \cup {NoOffer}]
    /\ username \in [Conn -> User \cup {None}]
    /\ fp \in [Conn -> User \cup {None}]
    /\ currentDB \in [Conn -> DB \cup {None}]
    /\ req \in [Conn -> Queries \cup {NoQuery}]
    /\ pc \in [Conn -> {"begin", "filter", "list", "load"}]
    /\ work \in [Conn -> SUBSET DB]
    /\ found \in [Conn -> SUBSET DB]
    /\ reply \in [Conn -> ReplyType]
    /\ quiet \in [Conn -> BOOLEAN]

ServerInit ==
    /\ phase = [c \in Conn |-> "none"]
    /\ offer = [c \in Conn |-> NoOffer]
    /\ username = [c \in Conn |-> None]
    /\ fp = [c \in Conn |-> None]
    /\ currentDB = [c \in Conn |-> None]
    /\ req = [c \in Conn |-> NoQuery]
    /\ pc = [c \in Conn |-> "begin"]
    /\ work = [c \in Conn |-> {}]
    /\ found = [c \in Conn |-> {}]
    /\ reply = [c \in Conn |-> NoReply]
    /\ quiet = [c \in Conn |-> FALSE]

-----------------------------------------------------------------------------
(* The life of a connection *)

(* Accept, a fresh BlackHoleHandler, and the client's handshake response.   *)
Accept(c, o) ==
    /\ phase[c] = "none"
    /\ phase' = [phase EXCEPT ![c] = "handshake"]
    /\ offer' = [offer EXCEPT ![c] = o]
    /\ UNCHANGED <<storeVars, username, fp, currentDB, handlerVars>>

(* The goroutine returns; the handler object is garbage. *)
Close(c) ==
    /\ phase' = [phase EXCEPT ![c] = "none"]
    /\ offer' = [offer EXCEPT ![c] = NoOffer]
    /\ username' = [username EXCEPT ![c] = None]
    /\ fp' = [fp EXCEPT ![c] = None]
    /\ currentDB' = [currentDB EXCEPT ![c] = None]
    /\ req' = [req EXCEPT ![c] = NoQuery]
    /\ reply' = [reply EXCEPT ![c] = NoReply]
    /\ quiet' = [quiet EXCEPT ![c] = FALSE]
    /\ UNCHANGED <<storeVars, pc, work, found>>

\* Mutant: asks only whether somebody is logged in.
MutAllowed(c, d) == username[c] # None

(* UseDB's question to Redis: is the handler's user granted the database?   *)
Allowed(c, d) == username[c] \in dbUsers[d]

(* A handshake response that names a database: go-mysql calls UseDB while   *)
(* NewCustomizedConn runs, when main.go has not yet set the username.       *)
HandshakeUseDB(c) ==
    /\ phase[c] = "handshake" /\ offer[c].db # None
    /\ IF Allowed(c, offer[c].db)
         THEN /\ currentDB' = [currentDB EXCEPT ![c] = offer[c].db]
              /\ offer' = [offer EXCEPT ![c].db = None]
              /\ UNCHANGED <<storeVars, phase, username, fp, handlerVars>>
         ELSE Close(c)

\* Mutant: an unknown user is let in.
MutAuthenticate(c) ==
    /\ phase[c] = "handshake" /\ offer[c].db = None
    /\ IF mysqlUsers[offer[c].user] \in {None, offer[c].password}
         THEN /\ phase' = [phase EXCEPT ![c] = "authed"]
              /\ UNCHANGED <<storeVars, offer, username, fp, currentDB, handlerVars>>
         ELSE Close(c)

(* GetCredential (HGET mysql_users) and go-mysql's check of the password.   *)
Authenticate(c) ==
    /\ phase[c] = "handshake" /\ offer[c].db = None
    /\ IF mysqlUsers[offer[c].user] = offer[c].password
         THEN /\ phase' = [phase EXCEPT ![c] = "authed"]
              /\ UNCHANGED <<storeVars, offer, username, fp, currentDB, handlerVars>>
         ELSE Close(c)

\* Mutant: SetUsername forgotten.
MutOpen(c) ==
    /\ phase[c] = "authed"
    /\ phase' = [phase EXCEPT ![c] = "ready"]
    /\ fp' = [fp EXCEPT ![c] = offer[c].user]
    /\ UNCHANGED <<storeVars, offer, username, currentDB, handlerVars>>
\* Mutant: the fingerprint takes the wrong field.
MutOpenSwapped(c) ==
    /\ phase[c] = "authed"
    /\ phase' = [phase EXCEPT ![c] = "ready"]
    /\ username' = [username EXCEPT ![c] = offer[c].user]
    /\ fp' = [fp EXCEPT ![c] = offer[c].password]
    /\ UNCHANGED <<storeVars, offer, currentDB, handlerVars>>

(* SetUsername, SetConnID, SetFingerprint; the command loop begins. *)
Open(c) ==
    /\ phase[c] = "authed"
    /\ phase' = [phase EXCEPT ![c] = "ready"]
    /\ username' = [username EXCEPT ![c] = offer[c].user]
    /\ fp' = [fp EXCEPT ![c] = offer[c].user]
    /\ UNCHANGED <<storeVars, offer, currentDB, handlerVars>>

(* The client goes away, or GetCredential's HGET fails.  A handler that is  *)
(* running finishes first: only then does HandleCommand see the error.      *)
Disconnect(c) ==
    /\ phase[c] \in {"handshake", "ready"}
    /\ Close(c)

(* HandleCommand reads the next command. *)
Receive(c, q) ==
    /\ phase[c] = "ready"
    /\ phase' = [phase EXCEPT ![c] = "busy"]
    /\ req' = [req EXCEPT ![c] = q]
    /\ reply' = [reply EXCEPT ![c] = NoReply]
    /\ quiet' = [quiet EXCEPT ![c] = TRUE]
    /\ UNCHANGED <<storeVars, offer, username, fp, currentDB, pc, work, found>>

-----------------------------------------------------------------------------
(* Handlers *)

At(c, call, routes) == phase[c] = "busy" /\ pc[c] = call /\ Route(req[c]) \in routes

(* A handler returns r: HandleCommand writes it and waits for a command.    *)
Returns(c, r) ==
    /\ phase' = [phase EXCEPT ![c] = "ready"]
    /\ reply' = [reply EXCEPT ![c] = r]
    /\ pc' = [pc EXCEPT ![c] = "begin"]
    /\ UNCHANGED <<offer, username, fp, req, quiet>>

(* ... or goes on to its next Redis call. *)
GoesOn(c, call) ==
    /\ pc' = [pc EXCEPT ![c] = call]
    /\ UNCHANGED <<connVars, req, work, found, reply, quiet>>

(* handleShowDatabases: SMEMBERS supported_dbs. *)
ListDatabases(c) ==
    /\ At(c, "begin", {"SHOW DATABASES"})
    /\ work' = [work EXCEPT ![c] = supportedDBs]
    /\ pc' = [pc EXCEPT ![c] = "filter"]
    /\ UNCHANGED <<storeVars, connVars, req, found, reply, quiet>>

\* Mutant: the loop does not advance.
MutCheckDatabase(c, d) ==
    /\ At(c, "filter", {"SHOW DATABASES"}) /\ d \in work[c]
    /\ found' = [found EXCEPT ![c] = IF Allowed(c, d) THEN @ \cup {d} ELSE @]
    /\ UNCHANGED <<storeVars, connVars, req, pc, work, reply, quiet>>

(* ... SISMEMBER of one listed name. *)
CheckDatabase(c, d) ==
    /\ At(c, "filter", {"SHOW DATABASES"}) /\ d \in work[c]
    /\ found' = [found EXCEPT ![c] = IF Allowed(c, d) THEN @ \cup {d} ELSE @]
    /\ work' = [work EXCEPT ![c] = @ \ {d}]
    /\ UNCHANGED <<storeVars, connVars, req, pc, reply, quiet>>

(* ... and the result. *)
AnswerDatabases(c) ==
    /\ At(c, "filter", {"SHOW DATABASES"}) /\ work[c] = {}
    /\ Returns(c, Answer("databases", None, found[c]))
    /\ found' = [found EXCEPT ![c] = {}]
    /\ UNCHANGED <<storeVars, currentDB, work>>

(* handleShowTables: SISMEMBER of the user, unless no database is meant. *)
ShowTablesCheck(c) ==
    LET d == Target(req[c], currentDB[c])
    IN /\ At(c, "begin", {"SHOW TABLES"})
       /\ IF d = None THEN Returns(c, NoDatabase) /\ UNCHANGED <<currentDB, work, found>>
          ELSE IF ~Allowed(c, d)
            THEN Returns(c, Denied(d)) /\ UNCHANGED <<currentDB, work, found>>
          ELSE GoesOn(c, "list")
       /\ UNCHANGED storeVars

(* ... SMEMBERS of the tables. *)
ShowTablesList(c) ==
    LET d == Target(req[c], currentDB[c])
    IN /\ At(c, "list", {"SHOW TABLES"})
       /\ Returns(c, IF dbTables[d] = {} THEN Answer("noTables", None, None)
                     ELSE Answer("tables", d, dbTables[d]))
       /\ UNCHANGED <<storeVars, currentDB, work, found>>

(* handleSelect and handleDescribe: requireTableInDB.  A statement without  *)
(* a single table or a database gets an empty result and no Redis call.     *)
RequireTable(c) ==
    LET d == Target(req[c], currentDB[c])
        t == TargetTable(req[c])
    IN /\ At(c, "begin", {"SELECT", "DESCRIBE"})
       /\ IF None \in {d, t} THEN Returns(c, OK) /\ UNCHANGED <<currentDB, work, found>>
          ELSE IF ~TableExists(d, t)
            THEN Returns(c, UnknownTable(d, t)) /\ UNCHANGED <<currentDB, work, found>>
          ELSE GoesOn(c, "load")
       /\ UNCHANGED storeVars

\* Mutant: a missing key reported as a missing table.
MutTableReply(q, d, v) ==
    IF v = None THEN UnknownTable(d, TargetTable(q))
    ELSE Answer(IF q.verb = "SELECT" THEN "rows" ELSE "columns", d, v)

(* What the JSON document of a table is made into: the rows a SELECT        *)
(* computes, or a row for each column.  A missing key is an empty result.   *)
TableReply(q, d, v) ==
    IF v = None THEN OK
    ELSE Answer(IF q.verb = "SELECT" THEN "rows" ELSE "columns", d, v)

\* Mutant: loads from the selected database, not the qualified one.
MutLoadTable(c) ==
    LET d == Target(req[c], currentDB[c])
        source == IF currentDB[c] = None THEN d ELSE currentDB[c]
    IN /\ At(c, "load", {"SELECT", "DESCRIBE"})
       /\ Returns(c, TableReply(req[c], d, tableData[<<source, TargetTable(req[c])>>]))
       /\ UNCHANGED <<storeVars, currentDB, work, found>>

(* ... then loadTableData: GET of the table's key. *)
LoadTable(c) ==
    LET d == Target(req[c], currentDB[c])
    IN /\ At(c, "load", {"SELECT", "DESCRIBE"})
       /\ Returns(c, TableReply(req[c], d, tableData[<<d, TargetTable(req[c])>>]))
       /\ UNCHANGED <<storeVars, currentDB, work, found>>

\* Mutant: a statement without a table falls through to success.
MutTableWriteReply(d, t) ==
    IF d = None THEN NoDatabase
    ELSE IF t = None THEN OK
    ELSE IF ~TableExists(d, t) THEN UnknownTable(d, t)
    ELSE Denied(d)

(* handleDropTable, handleTruncate, handleDelete, handleInsert,             *)
(* handleUpdate, handleAlter and handleRename: requireTableInDB, then       *)
(* denyForDB.  A statement the parser cannot resolve names no table and is  *)
(* denied for the selected database without a Redis call.                   *)
TableWriteReply(d, t) ==
    IF d = None THEN NoDatabase
    ELSE IF t # None /\ ~TableExists(d, t) THEN UnknownTable(d, t)
    ELSE Denied(d)
RefuseTableWrite(c) ==
    /\ At(c, "begin", TableWrites)
    /\ Returns(c, TableWriteReply(Target(req[c], currentDB[c]), TargetTable(req[c])))
    /\ UNCHANGED <<storeVars, currentDB, work, found>>

(* handleCreateTable wants a selected database even for a qualified name;   *)
(* handleCreateDatabase and handleDropDatabase name what was asked for;     *)
(* handleGrant is denyForDB alone.  None of them reads Redis.               *)
RefuseOtherWrite(c) ==
    LET q == req[c]
        d == Target(q, currentDB[c])
    IN /\ At(c, "begin", DatabaseWrites \cup {"CREATE TABLE", "GRANT"})
       /\ Returns(c, IF q.verb \in DatabaseWrites THEN Denied(q.schema)
                     ELSE IF q.verb = "CREATE TABLE" /\ currentDB[c] = None THEN NoDatabase
                     ELSE IF d = None THEN NoDatabase
                     ELSE Denied(d))
       /\ UNCHANGED <<storeVars, currentDB, work, found>>

(* The answers that need nothing: SELECT DATABASE(), SELECT VERSION(),      *)
(* introspection, and the commands accepted or declined whole.              *)
LocalReply(q, selected) ==
    CASE Route(q) = "SELECT DATABASE()" -> Answer("selected", selected, None)
      [] Route(q) = "SELECT VERSION()" -> Answer("version", None, None)
      [] Route(q) = "SHOW COLUMNS" -> ShowDenied
      [] Route(q) \in Accepted -> OK
      [] Route(q) \in Unsupported -> Answer("unsupported", None, None)
AnswerLocally(c) ==
    /\ At(c, "begin", {"SELECT DATABASE()", "SELECT VERSION()", "SHOW COLUMNS"}
                      \cup Accepted \cup Unsupported)
    /\ Returns(c, LocalReply(req[c], currentDB[c]))
    /\ UNCHANGED <<storeVars, currentDB, work, found>>

\* Mutant: selects the database before it asks.
MutUseDB(c) ==
    LET d == req[c].schema
    IN /\ At(c, "begin", {"USE", "COM_INIT_DB"})
       /\ IF d = None THEN Returns(c, OK) /\ UNCHANGED currentDB
          ELSE /\ Returns(c, IF Allowed(c, d) THEN OK ELSE Denied(d))
               /\ currentDB' = [currentDB EXCEPT ![c] = d]
       /\ UNCHANGED <<storeVars, work, found>>

(* handleUse and COM_INIT_DB: UseDB.  USE without a name does nothing. *)
UseDB(c) ==
    LET d == req[c].schema
    IN /\ At(c, "begin", {"USE", "COM_INIT_DB"})
       /\ IF d = None THEN Returns(c, OK) /\ UNCHANGED currentDB
          ELSE IF Allowed(c, d)
            THEN Returns(c, OK) /\ currentDB' = [currentDB EXCEPT ![c] = d]
          ELSE Returns(c, Denied(d)) /\ UNCHANGED currentDB
       /\ UNCHANGED <<storeVars, work, found>>

(* Whether the handler's next step is a Redis call. *)
CallsRedis(c) ==
    LET q == req[c]
        d == Target(q, currentDB[c])
    IN CASE pc[c] = "filter" -> work[c] # {}
         [] pc[c] \in {"list", "load"} -> TRUE
         [] pc[c] = "begin" ->
              \/ Route(q) = "SHOW DATABASES"
              \/ Route(q) = "SHOW TABLES" /\ d # None
              \/ Route(q) \in {"USE", "COM_INIT_DB"} /\ q.schema # None
              \/ Route(q) \in TableWrites \cup {"SELECT", "DESCRIBE"}
                   /\ None \notin {d, TargetTable(q)}

(* The call fails or times out: the handler returns the error. *)
RedisFails(c) ==
    /\ phase[c] = "busy" /\ CallsRedis(c)
    /\ Returns(c, RedisError)
    /\ work' = [work EXCEPT ![c] = {}] /\ found' = [found EXCEPT ![c] = {}]
    /\ UNCHANGED <<storeVars, currentDB>>

HandlerStep(c) ==
    \/ ListDatabases(c)
    \/ \E d \in DB : CheckDatabase(c, d)
    \/ AnswerDatabases(c)
    \/ ShowTablesCheck(c)
    \/ ShowTablesList(c)
    \/ RequireTable(c)
    \/ LoadTable(c)
    \/ RefuseTableWrite(c)
    \/ RefuseOtherWrite(c)
    \/ AnswerLocally(c)
    \/ UseDB(c)

ServerStep(c) ==
    \/ \E o \in Offer : Accept(c, o)
    \/ HandshakeUseDB(c)
    \/ Authenticate(c)
    \/ Open(c)
    \/ Disconnect(c)
    \/ \E q \in Queries : Receive(c, q)
    \/ HandlerStep(c)
    \/ RedisFails(c)

ServerNext == \E c \in Conn : ServerStep(c)

-----------------------------------------------------------------------------
(* Properties of the server that do not need the seeder *)

(* What one look at the keys would answer: the command surface of the       *)
(* README's table, as the handlers' comments state it, without their steps. *)
Reading(q, usr, selected) ==
    LET d == Target(q, selected)
        t == TargetTable(q)
        listed == d # None /\ t # None /\ \E m \in dbTables[d] : Lower[m] = Lower[t]
        stored == listed /\ tableData[<<d, t>>] # None
    IN CASE q.verb = "SHOW DATABASES" ->
              Answer("databases", None, {e \in supportedDBs : usr \in dbUsers[e]})
         [] q.verb = "SHOW TABLES" ->
              IF d = None THEN NoDatabase
              ELSE IF usr \notin dbUsers[d] THEN Denied(d)
              ELSE IF dbTables[d] # {} THEN Answer("tables", d, dbTables[d])
              ELSE Answer("noTables", None, None)
         [] q.verb \in {"SELECT", "DESCRIBE"} ->
              IF None \in {d, t} \/ (listed /\ ~stored) THEN OK
              ELSE IF ~listed THEN UnknownTable(d, t)
              ELSE Answer(IF q.verb = "SELECT" THEN "rows" ELSE "columns", d, tableData[<<d, t>>])

Reads(q) == Route(q) \in {"SHOW DATABASES", "SHOW TABLES", "SELECT", "DESCRIBE"}
Answered(c) == phase[c] = "ready" /\ reply[c].kind \notin {"none", "redisError"}

(* A read that no seeding touched gives exactly the answer one look at the  *)
(* keys would give, though its handler took two Redis calls or more and     *)
(* may follow any history of commands on the same connection.               *)
ReadIsExact(c) ==
    Answered(c) /\ quiet[c] /\ Reads(req[c]) =>
      reply[c] = Reading(req[c], username[c], currentDB[c])
QuietReadsAreExact == \A c \in Conn : ReadIsExact(c)

(* From Open on, the handler scopes and the log names the same user, the    *)
(* one that was authenticated; before that, neither has a user and no       *)
(* database is selected, whatever UseDB was asked in the handshake.         *)
OneIdentity ==
    \A c \in Conn :
      /\ phase[c] \in {"ready", "busy"} =>
           username[c] = offer[c].user /\ fp[c] = offer[c].user /\ username[c] # None
      /\ phase[c] \notin {"ready", "busy"} =>
           username[c] = None /\ fp[c] = None /\ currentDB[c] = None

(* README.md:21-23: the write statements HandleQuery knows are never        *)
(* answered with success, however they are qualified and whatever the       *)
(* parser makes of them.                                                    *)
KnownWrites == TableWrites \cup DatabaseWrites \cup {"CREATE TABLE", "GRANT"}
WriteIsRefused(c) ==
    Answered(c) /\ req[c].verb \in KnownWrites =>
      reply[c].kind \in {"denied", "noDB", "unknownTable"}
KnownWritesAreRefused == \A c \in Conn : WriteIsRefused(c)

(* The command table's row for SELECT on a single table, and the comment on *)
(* tableExistsInDB: a table the database lists, with data in the seed, can  *)
(* be read under the name it is listed by.                                  *)
HasRows(c) ==
    LET d == IF req[c].schema = None THEN currentDB[c] ELSE req[c].schema
        t == req[c].table
    IN /\ None \notin {d, t}
       /\ t \in dbTables[d] /\ tableData[<<d, t>>] # None
SeededTablesAreReadable ==
    \A c \in Conn :
      Answered(c) /\ quiet[c] /\ req[c].verb = "SELECT" /\ req[c].mentions = {} /\ HasRows(c) =>
        reply[c].kind = "rows"
=============================================================================
