------------------------------ MODULE Keyspace ------------------------------
(***************************************************************************)
(* What the server and the seeder share: the Redis keys of                  *)
(* model/sqlemulate/models.go and the seed file that fills them.            *)
(*                                                                         *)
(*   supported_dbs                a set of database names                   *)
(*   supported_dbs:<db>:users     the users granted the database            *)
(*   supported_dbs:<db>:tables    the tables the database lists             *)
(*   table_data:<db>:<table>      the JSON columns and rows of a table      *)
(*   mysql_users                  a hash from user name to password         *)
(*                                                                         *)
(* Redis keeps no empty set and no empty hash: a missing key and the empty  *)
(* set are the same state here, as they are to SMEMBERS and SISMEMBER.      *)
(***************************************************************************)
CONSTANTS
    DB,          \* database names, in the case the seed file writes them
    Table,       \* table names, likewise
    User,        \* user names
    Password,    \* passwords
    Payload,     \* what a table_data key can hold
    Columnless,  \* the payloads whose column list is empty
    None,        \* no database, no table, no user, no value
    Configs      \* the seed files that are ever deployed

ASSUME NoneAssumption ==
    /\ None \notin DB \cup Table \cup User
    /\ None \notin Password \cup Payload

(* The two kinds of key that are kept per database, and the one per table. *)
UsersKey(d) == [kind |-> "users", db |-> d, table |-> None]
TablesKey(d) == [kind |-> "tables", db |-> d, table |-> None]
DataKey(d, t) == [kind |-> "data", db |-> d, table |-> t]

Key == [kind : {"users", "tables"}, db : DB, table : {None}]
         \cup [kind : {"data"}, db : DB, table : Table]

(* A parsed seed_data.yaml.  users, tables and data hold nothing for a      *)
(* database the file does not list.                                         *)
Config ==
    [dbs    : SUBSET DB,
     users  : [DB -> SUBSET User],
     tables : [DB -> SUBSET Table],
     data   : [DB \X Table -> Payload \cup {None}],
     creds  : [User -> Password \cup {None}]]

ListsOnlyItsDBs(c) ==
    \A d \in DB \ c.dbs :
       /\ c.users[d] = {} /\ c.tables[d] = {}
       /\ \A t \in Table : c.data[<<d, t>>] = None

ASSUME ConfigsAssumption == \A c \in Configs : c \in Config /\ ListsOnlyItsDBs(c)

VARIABLES
    supportedDBs,  \* SUBSET DB
    dbUsers,       \* [DB -> SUBSET User]
    dbTables,      \* [DB -> SUBSET Table]
    tableData,     \* [DB \X Table -> Payload \cup {None}]
    mysqlUsers     \* [User -> Password \cup {None}]

storeVars == <<supportedDBs, dbUsers, dbTables, tableData, mysqlUsers>>

NoRows == [k \in DB \X Table |-> None]
NoCredentials == [u \in User |-> None]

StoreTypeOK ==
    /\ supportedDBs \in SUBSET DB
    /\ dbUsers \in [DB -> SUBSET User]
    /\ dbTables \in [DB -> SUBSET Table]
    /\ tableData \in [DB \X Table -> Payload \cup {None}]
    /\ mysqlUsers \in [User -> Password \cup {None}]

(* A Redis that has never been seeded. *)
StoreInit ==
    /\ supportedDBs = {}
    /\ dbUsers = [d \in DB |-> {}]
    /\ dbTables = [d \in DB |-> {}]
    /\ tableData = NoRows
    /\ mysqlUsers = NoCredentials

(* The per-database and per-table keys that exist. *)
StoredKeys ==
    {UsersKey(d) : d \in {e \in DB : dbUsers[e] # {}}}
      \cup {TablesKey(d) : d \in {e \in DB : dbTables[e] # {}}}
      \cup {DataKey(k[1], k[2]) : k \in {j \in DB \X Table : tableData[j] # None}}

(* DEL <key>. *)
Del(k) ==
    /\ dbUsers' = [d \in DB |-> IF k = UsersKey(d) THEN {} ELSE dbUsers[d]]
    /\ dbTables' = [d \in DB |-> IF k = TablesKey(d) THEN {} ELSE dbTables[d]]
    /\ tableData' = [j \in DB \X Table |->
                       IF k = DataKey(j[1], j[2]) THEN None ELSE tableData[j]]
=============================================================================
