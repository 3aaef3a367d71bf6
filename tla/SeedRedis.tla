------------------------------ MODULE SeedRedis ------------------------------
(***************************************************************************)
(* The seeder, cmd/seed-redis/main.go: a one-shot process that wipes and    *)
(* rewrites the Redis keys from the seed file compiled into it.  Every      *)
(* Redis command of the program is an action, because a server reads the    *)
(* same keys between any two of them, because any of them can fail, and     *)
(* because the deployment kills a running seeder and starts the next one    *)
(* (.github/workflows/deploy.yml:64).  The container name of that workflow  *)
(* keeps two seeders from running at once.                                  *)
(***************************************************************************)
EXTENDS Keyspace, FiniteSets

VARIABLES
    spc,      \* the Redis command the seeder is about to issue
    cfg,      \* its seed file
    todo,     \* databases the loop of seedSupportedDBs has not reached
    cur,      \* the database it is at
    left,     \* tables of cur that seedTableData has still to write
    pending,  \* keys the running SCAN has still to hand to DEL
    started   \* history: every seed file whose seeding ever began

seederVars == <<spc, cfg, todo, cur, left, pending, started>>
seedVars == <<storeVars, seederVars>>

Active == {"delDBs", "scanACL", "scanData", "addDBs", "perDB", "addTables",
           "setUsers"}
Stopped == {"idle", "done", "failed"}

NoConfig ==
    [dbs |-> {}, users |-> [d \in DB |-> {}], tables |-> [d \in DB |-> {}],
     data |-> NoRows, creds |-> NoCredentials]

SeederTypeOK ==
    /\ spc \in Active \cup Stopped
    /\ cfg \in Configs \cup {NoConfig}
    /\ todo \in SUBSET DB
    /\ cur \in DB \cup {None}
    /\ left \in SUBSET Table
    /\ pending \in SUBSET Key
    /\ started \in SUBSET Configs

(* Type correctness of the store and of the seeder's own variables.         *)
SeedTypeOK == StoreTypeOK /\ SeederTypeOK

SeedInit ==
    /\ StoreInit
    /\ spc = "idle" /\ cfg = NoConfig
    /\ todo = {} /\ cur = None /\ left = {} /\ pending = {} /\ started = {}

(* main: load the seed file, ping Redis, begin. *)
Start(c) ==
    /\ spc \in Stopped
    /\ spc' = "delDBs" /\ cfg' = c /\ started' = started \cup {c}
    /\ UNCHANGED <<storeVars, todo, cur, left, pending>>

DelSupportedDBs ==
    /\ spc = "delDBs"
    /\ supportedDBs' = {} /\ spc' = "scanACL"
    /\ UNCHANGED <<dbUsers, dbTables, tableData, mysqlUsers,
                   cfg, todo, cur, left, pending, started>>

(* A SCAN pattern is the text before its * and whether it has one.  A       *)
(* pattern without a * matches the key of that very name only, and no key   *)
(* is named "supported_dbs:".                                               *)
ACLPattern == [text |-> "supported_dbs:", star |-> FALSE]
\* Mutant: the * forgotten here too.
MutDataPattern == [text |-> "table_data:", star |-> FALSE]
DataPattern == [text |-> "table_data:", star |-> TRUE]

KeyText(k) == IF k.kind = "data" THEN "table_data:" ELSE "supported_dbs:"
KeysMatching(p) == {k \in StoredKeys : p.star /\ KeyText(k) = p.text}

(* deleteKeysByPattern(supported_dbs:), the SCAN of it. *)
ScanACLKeys ==
    /\ spc = "scanACL"
    /\ pending' = KeysMatching(ACLPattern) /\ spc' = "scanData"
    /\ UNCHANGED <<storeVars, cfg, todo, cur, left, started>>

(* deleteKeysByPattern("table_data:*"), the SCAN of it. *)
ScanTableData ==
    /\ spc = "scanData" /\ pending = {}
    /\ pending' = KeysMatching(DataPattern) /\ spc' = "addDBs"
    /\ UNCHANGED <<storeVars, cfg, todo, cur, left, started>>

\* Mutant: the scan never advances.
MutDeleteKey(k) ==
    /\ k \in pending
    /\ Del(k)
    /\ UNCHANGED <<supportedDBs, mysqlUsers, spc, cfg, todo, cur, left, pending, started>>

(* deleteKeysByPattern, one DEL of either scan.  The order is Redis's.      *)
DeleteKey(k) ==
    /\ k \in pending
    /\ Del(k) /\ pending' = pending \ {k}
    /\ UNCHANGED <<supportedDBs, mysqlUsers, spc, cfg, todo, cur, left, started>>

(* SADD supported_dbs, every name in one command.  With no database in the  *)
(* file the command has no member and Redis answers an arity error.         *)
AddSupportedDBs ==
    /\ spc = "addDBs" /\ pending = {}
    /\ IF cfg.dbs = {}
         THEN spc' = "failed" /\ UNCHANGED <<supportedDBs, todo>>
         ELSE /\ supportedDBs' = supportedDBs \cup cfg.dbs
              /\ todo' = cfg.dbs /\ spc' = "perDB"
    /\ UNCHANGED <<dbUsers, dbTables, tableData, mysqlUsers,
                   cfg, cur, left, pending, started>>

\* Mutant: the user list is not emptied between databases.
MutSeedUsers(d) ==
    /\ spc = "perDB" /\ left = {} /\ d \in todo
    /\ dbUsers' = [dbUsers EXCEPT ![d] = @ \cup UNION {cfg.users[e] : e \in DB \ todo}
                                             \cup cfg.users[d]]
    /\ cur' = d /\ todo' = todo \ {d} /\ spc' = "addTables"
    /\ UNCHANGED <<supportedDBs, dbTables, tableData, mysqlUsers,
                   cfg, left, pending, started>>

(* The loop of seedSupportedDBs reaches database d: SADD its users. *)
SeedUsers(d) ==
    /\ spc = "perDB" /\ left = {} /\ d \in todo
    /\ dbUsers' = [dbUsers EXCEPT ![d] = @ \cup cfg.users[d]]
    /\ cur' = d /\ todo' = todo \ {d} /\ spc' = "addTables"
    /\ UNCHANGED <<supportedDBs, dbTables, tableData, mysqlUsers,
                   cfg, left, pending, started>>

(* seedTableData ranges over the tables that have columns. *)
Loadable(c, d) == {t \in Table : c.data[<<d, t>>] \in Payload \ Columnless}

\* Mutant: a table without columns ends the loop instead of being skipped.
MutSeedTables ==
    /\ spc = "addTables"
    /\ dbTables' = [dbTables EXCEPT ![cur] = @ \cup cfg.tables[cur]]
    /\ left' = IF \E t \in Table : cfg.data[<<cur, t>>] \in Columnless
                 THEN {} ELSE Loadable(cfg, cur)
    /\ spc' = "perDB"
    /\ UNCHANGED <<supportedDBs, dbUsers, tableData, mysqlUsers,
                   cfg, todo, cur, pending, started>>

(* ... then SADD its tables, and set out on its table data. *)
SeedTables ==
    /\ spc = "addTables"
    /\ dbTables' = [dbTables EXCEPT ![cur] = @ \cup cfg.tables[cur]]
    /\ left' = Loadable(cfg, cur) /\ spc' = "perDB"
    /\ UNCHANGED <<supportedDBs, dbUsers, tableData, mysqlUsers,
                   cfg, todo, cur, pending, started>>

(* seedTableData: SET of one table.  Go ranges over a map in any order.     *)
SeedTable(t) ==
    /\ spc = "perDB" /\ t \in left
    /\ tableData' = [tableData EXCEPT ![<<cur, t>>] = cfg.data[<<cur, t>>]]
    /\ left' = left \ {t}
    /\ UNCHANGED <<supportedDBs, dbUsers, dbTables, mysqlUsers,
                   spc, cfg, todo, cur, pending, started>>

\* Mutant: the DEL forgotten.
MutDelMySQLUsers ==
    /\ spc = "perDB" /\ todo = {} /\ left = {}
    /\ spc' = IF cfg.creds = NoCredentials THEN "done" ELSE "setUsers"
    /\ UNCHANGED <<storeVars, cfg, todo, cur, left, pending, started>>

(* The loop is over; seedMySQLUsers begins with DEL mysql_users. *)
DelMySQLUsers ==
    /\ spc = "perDB" /\ todo = {} /\ left = {}
    /\ mysqlUsers' = NoCredentials
    /\ spc' = IF cfg.creds = NoCredentials THEN "done" ELSE "setUsers"
    /\ UNCHANGED <<supportedDBs, dbUsers, dbTables, tableData,
                   cfg, todo, cur, left, pending, started>>

\* Mutant: users without a password vanish from the map.
MutSetMySQLUsers ==
    /\ spc = "setUsers"
    /\ mysqlUsers' = [u \in {w \in User : cfg.creds[w] # None} |-> cfg.creds[u]]
    /\ spc' = "done"
    /\ UNCHANGED <<supportedDBs, dbUsers, dbTables, tableData,
                   cfg, todo, cur, left, pending, started>>

(* HSET mysql_users, every field in one command. *)
SetMySQLUsers ==
    /\ spc = "setUsers"
    /\ mysqlUsers' = [u \in User |-> IF cfg.creds[u] # None
                                       THEN cfg.creds[u] ELSE mysqlUsers[u]]
    /\ spc' = "done"
    /\ UNCHANGED <<supportedDBs, dbUsers, dbTables, tableData,
                   cfg, todo, cur, left, pending, started>>

(* Before any command: Redis answers an error and the program exits 1, or   *)
(* the next deployment removes the container.  What was written stays.      *)
Fail ==
    /\ spc \in Active
    /\ spc' = "failed" /\ todo' = {} /\ left' = {} /\ pending' = {}
    /\ UNCHANGED <<storeVars, cfg, cur, started>>

SeedStep ==
    \/ DelSupportedDBs
    \/ ScanACLKeys
    \/ ScanTableData
    \/ \E k \in Key : DeleteKey(k)
    \/ AddSupportedDBs
    \/ \E d \in DB : SeedUsers(d)
    \/ SeedTables
    \/ \E t \in Table : SeedTable(t)
    \/ DelMySQLUsers
    \/ SetMySQLUsers

SeedNext ==
    \/ \E c \in Configs : Start(c)
    \/ SeedStep
    \/ Fail

(* The program runs straight through: it is only a Redis call away from its *)
(* next step.  Nothing obliges anybody to deploy again, or a step to fail.  *)
SeedSpec == SeedInit /\ [][SeedNext]_seedVars /\ WF_seedVars(SeedStep)

-----------------------------------------------------------------------------
(* Properties *)

(* The rows a seed file means to publish: a table without columns, none. *)
RowsOf(c) == [k \in DB \X Table |-> IF k[2] \in Loadable(c, k[1]) THEN c.data[k] ELSE None]

(* When the seeder reports success, whatever crashed seedings it ran over,  *)
(* the list of databases, every row and every credential are those of its   *)
(* file and no older ones, and everything the file grants is granted.       *)
SeedComplete ==
    spc = "done" =>
      /\ supportedDBs = cfg.dbs
      /\ tableData = RowsOf(cfg)
      /\ mysqlUsers = cfg.creds
      /\ \A d \in DB : cfg.users[d] \subseteq dbUsers[d] /\ cfg.tables[d] \subseteq dbTables[d]

(* Grants come from seed files only: however seedings were cut short, a     *)
(* user is granted, and a table listed, only where some seed file that was  *)
(* deployed says so.  Seeding one file again and again is idempotent.       *)
GrantsComeFromSeeds ==
    \A d \in DB :
      /\ dbUsers[d] \subseteq UNION {c.users[d] : c \in started}
      /\ dbTables[d] \subseteq UNION {c.tables[d] : c \in started}

(* Once the wipe is over, a reader never meets the rows of two seed files   *)
(* side by side: every row that exists is the running file's.               *)
Wiped == spc \in {"perDB", "addTables", "setUsers", "done"}
OneGenerationOfRows ==
    Wiped => \A k \in DB \X Table : tableData[k] \in {None, RowsOf(cfg)[k]}

(* A login is checked against no credentials or against exactly those of    *)
(* one deployed file: never against a mixture of an old and a new list.     *)
CredentialsWhole ==
    mysqlUsers \in {NoCredentials} \cup {c.creds : c \in started}

(* What a seeding starts it ends, in success or in failure.                 *)
SeedingEnds == spc \in Active ~> spc \in Stopped

(* What main's final message suggests and seedSupportedDBs sets out to do   *)
(* (it deletes the keys under "supported_dbs:" before it writes them):      *)
(* after a completed seeding the grants are exactly those of the file.      *)
GrantsAreTheSeeds ==
    spc = "done" => \A d \in DB : dbUsers[d] = cfg.users[d] /\ dbTables[d] = cfg.tables[d]
=============================================================================
