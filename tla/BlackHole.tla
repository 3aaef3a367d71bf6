------------------------------ MODULE BlackHole ------------------------------
(***************************************************************************)
(* The system: connections of the server and runs of the seeder over one    *)
(* Redis.  A deployment reseeds the keys while clients are connected, so    *)
(* the seeder's steps fall between any two Redis calls of a handler.        *)
(*                                                                         *)
(* StaticSpec is the server between two deployments: the seeder has         *)
(* finished with one of the seed files and does not run again.              *)
(***************************************************************************)
EXTENDS SeedRedis, BlackHoleServer

vars == <<storeVars, seederVars, serverVars>>

TypeOK == SeedTypeOK /\ ServerTypeOK

Init == SeedInit /\ ServerInit

(* A seeder step that changes a key ends the quiet of every command.        *)
SeedAction ==
    /\ SeedNext
    /\ quiet' = [c \in Conn |-> quiet[c] /\ storeVars' = storeVars]
    /\ UNCHANGED <<connVars, req, pc, work, found, reply>>

ServerAction(c) == ServerStep(c) /\ UNCHANGED seederVars

Next == SeedAction \/ \E c \in Conn : ServerAction(c)

(* The steps a connection takes by itself: go-mysql's handshake and the     *)
(* handlers.  Clients may stay silent for ever, and deployments may stop.   *)
Progress(c) == Authenticate(c) \/ HandshakeUseDB(c) \/ Open(c) \/ HandlerStep(c)

(* A goroutine that can run is run, and Redis answers or fails: go-redis    *)
(* gives every call a read timeout of its own.                              *)
Fairness ==
    /\ WF_vars(SeedStep /\ SeedAction)
    /\ \A c \in Conn : WF_vars(Progress(c) /\ UNCHANGED seederVars)

Spec == Init /\ [][Next]_vars /\ Fairness

(* The keys and the seeder after a completed first seeding with file f. *)
Seeded(f) ==
    /\ supportedDBs = f.dbs /\ dbUsers = f.users /\ dbTables = f.tables
    /\ tableData = RowsOf(f) /\ mysqlUsers = f.creds
    /\ spc = "done" /\ cfg = f /\ todo = {} /\ cur = None /\ left = {} /\ pending = {}
    /\ started = {f}

StaticInit == ServerInit /\ \E f \in Configs : Seeded(f)
StaticNext == \E c \in Conn : ServerAction(c)
StaticSpec ==
    StaticInit /\ [][StaticNext]_vars
      /\ \A c \in Conn : WF_vars(Progress(c) /\ UNCHANGED seederVars)

-----------------------------------------------------------------------------
(* Properties *)

(* handleSelect and handleDescribe take the selected database on trust:     *)
(* UseDB asked, once, when it was selected.  What an unqualified SELECT,    *)
(* DESCRIBE or SHOW TABLES shows, after any USE that was denied or failed   *)
(* and any seeding since, is of a database that some deployed seed file     *)
(* grants the user of the session.  Whether it is still granted is not      *)
(* asked again, and not claimed.                                            *)
ShowsTables(c) == reply[c].kind \in {"rows", "columns", "tables"}
UnqualifiedReadsWereGranted ==
    \A c \in Conn :
      ShowsTables(c) /\ req[c].schema = None =>
        \E f \in started : username[c] \in f.users[reply[c].db]

(* handleShowDatabases reads the list and then each grant: whatever is      *)
(* seeded in between, it lists no database that some deployed seed file     *)
(* does not name and grant to the user.                                     *)
ListedDBsAreGranted ==
    \A c \in Conn :
      reply[c].kind = "databases" =>
        \A d \in reply[c].body :
          \E f, g \in started : d \in f.dbs /\ username[c] \in g.users[d]

(* Rows are those of one deployed seed file for a table some deployed file  *)
(* lists in that database: a reply never shows half a reseeding, and the    *)
(* check made before the GET still means something after it.                *)
RowsComeFromSeeds ==
    \A c \in Conn :
      reply[c].kind = "rows" =>
        LET d == reply[c].db
            t == TargetTable(req[c])
        IN \E f, g \in started :
             /\ RowsOf(f)[<<d, t>>] = reply[c].body
             /\ \E m \in g.tables[d] : Lower[m] = Lower[t]

(* A session belongs to a user and password some deployed seed file holds,  *)
(* even one that logged in while mysql_users was being rewritten.           *)
SessionsHaveCredentials ==
    \A c \in Conn :
      phase[c] \in {"authed", "ready", "busy"} =>
        \E f \in started : f.creds[offer[c].user] = offer[c].password

(* Every command is answered, whatever the seeder and the other connections *)
(* do meanwhile: no handler loops for ever or waits for another.            *)
CommandsAreAnswered == \A c \in Conn : phase[c] = "busy" ~> phase[c] = "ready"

(* handler.go:45-46: UseDB "validates the authenticated user is allowed to  *)
(* use the database".  A client whose user is granted the database it names *)
(* in the handshake is not turned away by UseDB.                            *)
GrantedUserMayNameDBAtConnect ==
    [][\A c \in Conn :
         HandshakeUseDB(c) /\ offer[c].user \in dbUsers[offer[c].db] => phase'[c] # "none"]_vars
=============================================================================
