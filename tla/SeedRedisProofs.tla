--------------------------- MODULE SeedRedisProofs ---------------------------
(***************************************************************************)
(* Proofs about the seeder, for any names, any seed files and any sequence  *)
(* of seedings, whatever cuts them short.                                   *)
(***************************************************************************)
EXTENDS SeedRedis, TLAPS

Seeding == {"perDB", "addTables"}

(* Where the loop over the databases has got to. *)
LoopState ==
    /\ spc \notin {"idle", "failed"} => cfg \in started
    /\ spc \in Seeding => todo \subseteq cfg.dbs /\ supportedDBs = cfg.dbs
    /\ spc \notin Seeding => todo = {}
    /\ left # {} => spc = "perDB" /\ left \subseteq Loadable(cfg, cur)
    /\ left # {} \/ spc = "addTables" => cur \in cfg.dbs \ todo
    /\ spc \in {"scanACL", "scanData", "addDBs"} => supportedDBs = {}
    /\ spc \in {"setUsers", "done"} => supportedDBs = cfg.dbs

(* What the wipe leaves to delete, and the rows it leaves behind it. *)
RowsState ==
    /\ pending # {} => spc = "addDBs"
    /\ \A k \in pending : k.kind = "data"
    /\ spc = "addDBs" =>
         \A d \in DB, t \in Table : tableData[<<d, t>>] # None => DataKey(d, t) \in pending
    /\ Wiped =>
         \A d \in DB, t \in Table :
           /\ tableData[<<d, t>>] \in {None, RowsOf(cfg)[<<d, t>>]}
           /\ \/ tableData[<<d, t>>] = RowsOf(cfg)[<<d, t>>]
              \/ d \in todo
              \/ d = cur /\ (spc = "addTables" \/ t \in left)

(* What has been granted and listed so far, and by whom. *)
GrantState ==
    /\ Wiped =>
         \A d \in DB \ todo :
           /\ cfg.users[d] \subseteq dbUsers[d]
           /\ cfg.tables[d] \subseteq dbTables[d] \/ (spc = "addTables" /\ d = cur)
    /\ GrantsComeFromSeeds

CredentialState ==
    /\ spc = "setUsers" => mysqlUsers = NoCredentials
    /\ spc = "done" => mysqlUsers = cfg.creds
    /\ CredentialsWhole

SeedInv == SeedTypeOK /\ LoopState /\ RowsState /\ GrantState /\ CredentialState

-----------------------------------------------------------------------------
(* The helpers. *)

(* The pattern without a * matches nothing: no grant is ever deleted. *)
LEMMA NoACLKeyMatches == KeysMatching(ACLPattern) = {}
  BY DEF KeysMatching, ACLPattern

LEMMA DataKeysMatch ==
  ASSUME NEW d \in DB, NEW t \in Table, tableData[<<d, t>>] # None
  PROVE  DataKey(d, t) \in KeysMatching(DataPattern)
<1>1. DataKey(d, t) \in StoredKeys
  <2>1. <<d, t>> \in {j \in DB \X Table : tableData[j] # None}
    OBVIOUS
  <2>2. <<d, t>>[1] = d /\ <<d, t>>[2] = t
    OBVIOUS
  <2>3. DataKey(d, t) \in {DataKey(k[1], k[2]) : k \in {j \in DB \X Table : tableData[j] # None}}
    BY <2>1, <2>2
  <2>4. QED
    BY <2>3 DEF StoredKeys
<1>2. QED
  BY <1>1 DEF KeysMatching, DataPattern, KeyText, DataKey

LEMMA MatchesAreDataKeys ==
  ASSUME NEW k \in KeysMatching(DataPattern)
  PROVE  k \in Key /\ k.kind = "data"
<1>1. k \in StoredKeys /\ KeyText(k) = "table_data:"
  BY DEF KeysMatching, DataPattern
<1>2. k.kind = "data"
  BY <1>1 DEF KeyText
<1>3. PICK j \in DB \X Table : k = DataKey(j[1], j[2])
  BY <1>1, <1>2 DEF StoredKeys, UsersKey, TablesKey
<1>4. j[1] \in DB /\ j[2] \in Table
  OBVIOUS
<1>5. QED
  BY <1>2, <1>3, <1>4 DEF Key, DataKey

(* DEL of a table_data key touches that table's rows and nothing else. *)
LEMMA DelDataKey ==
  ASSUME StoreTypeOK, NEW k \in Key, k.kind = "data", Del(k)
  PROVE  /\ dbUsers' = dbUsers /\ dbTables' = dbTables
         /\ tableData' \in [DB \X Table -> Payload \cup {None}]
         /\ \A d \in DB, t \in Table :
              tableData'[<<d, t>>] = IF k = DataKey(d, t) THEN None ELSE tableData[<<d, t>>]
<1>1. \A d \in DB : k # UsersKey(d) /\ k # TablesKey(d)
  BY DEF UsersKey, TablesKey
<1>2. dbUsers' = dbUsers
  BY <1>1 DEF Del, StoreTypeOK
<1>3. dbTables' = dbTables
  BY <1>1 DEF Del, StoreTypeOK
<1>4. tableData' = [j \in DB \X Table |->
                      IF k = DataKey(j[1], j[2]) THEN None ELSE tableData[j]]
  BY DEF Del
<1>5. tableData' \in [DB \X Table -> Payload \cup {None}]
  BY <1>4 DEF StoreTypeOK
<1>6. ASSUME NEW d \in DB, NEW t \in Table
      PROVE  tableData'[<<d, t>>] = IF k = DataKey(d, t) THEN None ELSE tableData[<<d, t>>]
  <2>1. <<d, t>> \in DB \X Table /\ <<d, t>>[1] = d /\ <<d, t>>[2] = t
    OBVIOUS
  <2>2. QED
    BY <1>4, <2>1
<1>7. QED
  BY <1>2, <1>3, <1>5, <1>6

LEMMA RowsOfAt ==
  ASSUME NEW c, NEW d \in DB, NEW t \in Table
  PROVE  RowsOf(c)[<<d, t>>] = IF t \in Loadable(c, d) THEN c.data[<<d, t>>] ELSE None
<1>1. <<d, t>> \in DB \X Table /\ <<d, t>>[1] = d /\ <<d, t>>[2] = t
  OBVIOUS
<1>2. QED
  BY <1>1 DEF RowsOf

(* A seed file holds no rows, grants or tables for a database it omits. *)
LEMMA OmittedDB ==
  ASSUME NEW c \in Configs, NEW d \in DB \ c.dbs
  PROVE  /\ c.users[d] = {} /\ c.tables[d] = {}
         /\ \A t \in Table : RowsOf(c)[<<d, t>>] = None
<1>1. ListsOnlyItsDBs(c)
  BY ConfigsAssumption
<1>2. \A t \in Table : c.data[<<d, t>>] = None
  BY <1>1 DEF ListsOnlyItsDBs
<1>3. \A t \in Table : RowsOf(c)[<<d, t>>] = None
  BY <1>2, RowsOfAt, Zenon
<1>4. QED
  BY <1>1, <1>3 DEF ListsOnlyItsDBs

LEMMA ConfigParts ==
  ASSUME NEW c \in Configs
  PROVE  /\ c.dbs \subseteq DB
         /\ c.users \in [DB -> SUBSET User]
         /\ c.tables \in [DB -> SUBSET Table]
         /\ c.data \in [DB \X Table -> Payload \cup {None}]
         /\ c.creds \in [User -> Password \cup {None}]
  BY ConfigsAssumption DEF Config

-----------------------------------------------------------------------------
(* The invariant holds at the start and every step keeps it. *)

LEMMA SeedInvInit == SeedInit => SeedInv
<1> SUFFICES ASSUME SeedInit
             PROVE  SeedInv
  OBVIOUS
<1> USE DEF SeedInit, StoreInit
<1>1. SeedTypeOK
  BY DEF SeedTypeOK, StoreTypeOK, SeederTypeOK, NoRows, NoCredentials, Active, Stopped
<1>2. LoopState
  BY DEF LoopState, Seeding
<1>3. RowsState
  BY DEF RowsState, Wiped
<1>4. GrantState
  BY DEF GrantState, Wiped, GrantsComeFromSeeds
<1>5. CredentialState
  BY DEF CredentialState, CredentialsWhole
<1>6. QED
  BY <1>1, <1>2, <1>3, <1>4, <1>5 DEF SeedInv

LEMMA SeedInvNext == SeedInv /\ [SeedNext]_seedVars => SeedInv'
<1> SUFFICES ASSUME SeedInv, [SeedNext]_seedVars
             PROVE  SeedInv'
  OBVIOUS
<1> USE DEF SeedInv, SeedTypeOK, StoreTypeOK, SeederTypeOK, Active, Stopped
<1>0. spc \notin {"idle", "failed"} => cfg \in Configs
  BY DEF LoopState
<1>1. ASSUME NEW c \in Configs, Start(c)
      PROVE  SeedInv'
  <2>1. SeedTypeOK'
    BY <1>1 DEF Start, storeVars, seederVars
  <2>2. LoopState'
    BY <1>1 DEF Start, storeVars, seederVars, LoopState, Seeding
  <2>3. RowsState'
    BY <1>1 DEF Start, storeVars, seederVars, RowsState, LoopState, Seeding, Wiped
  <2>4. GrantState'
    BY <1>1 DEF Start, storeVars, seederVars, GrantState, LoopState, Seeding, Wiped, GrantsComeFromSeeds
  <2>5. CredentialState'
    BY <1>1 DEF Start, storeVars, seederVars, CredentialState, LoopState, CredentialsWhole, NoCredentials
  <2>6. QED
    BY <2>1, <2>2, <2>3, <2>4, <2>5
<1>2. ASSUME DelSupportedDBs
      PROVE  SeedInv'
  <2>1. SeedTypeOK'
    BY <1>2 DEF DelSupportedDBs, storeVars, seederVars
  <2>2. LoopState'
    BY <1>2 DEF DelSupportedDBs, storeVars, seederVars, LoopState, Seeding
  <2>3. RowsState'
    BY <1>2 DEF DelSupportedDBs, storeVars, seederVars, RowsState, LoopState, Seeding, Wiped
  <2>4. GrantState'
    BY <1>2 DEF DelSupportedDBs, storeVars, seederVars, GrantState, LoopState, Seeding, Wiped, GrantsComeFromSeeds
  <2>5. CredentialState'
    BY <1>2 DEF DelSupportedDBs, storeVars, seederVars, CredentialState, LoopState, CredentialsWhole, NoCredentials
  <2>6. QED
    BY <2>1, <2>2, <2>3, <2>4, <2>5
<1>3. ASSUME ScanACLKeys
      PROVE  SeedInv'
  <2>1. SeedTypeOK'
    BY <1>3, NoACLKeyMatches DEF ScanACLKeys, storeVars, seederVars
  <2>2. LoopState'
    BY <1>3, NoACLKeyMatches DEF ScanACLKeys, storeVars, seederVars, LoopState, Seeding
  <2>3. RowsState'
    BY <1>3, NoACLKeyMatches DEF ScanACLKeys, storeVars, seederVars, RowsState, LoopState, Seeding, Wiped
  <2>4. GrantState'
    BY <1>3, NoACLKeyMatches DEF ScanACLKeys, storeVars, seederVars, GrantState, LoopState, Seeding, Wiped, GrantsComeFromSeeds
  <2>5. CredentialState'
    BY <1>3, NoACLKeyMatches DEF ScanACLKeys, storeVars, seederVars, CredentialState, LoopState, CredentialsWhole, NoCredentials
  <2>6. QED
    BY <2>1, <2>2, <2>3, <2>4, <2>5
<1>4. ASSUME ScanTableData
      PROVE  SeedInv'
  <2>1. SeedTypeOK'
    BY <1>4, DataKeysMatch, MatchesAreDataKeys DEF ScanTableData, storeVars, seederVars
  <2>2. LoopState'
    BY <1>4, DataKeysMatch, MatchesAreDataKeys DEF ScanTableData, storeVars, seederVars, LoopState, Seeding
  <2>3. RowsState'
    BY <1>4, DataKeysMatch, MatchesAreDataKeys DEF ScanTableData, storeVars, seederVars, RowsState, LoopState, Seeding, Wiped
  <2>4. GrantState'
    BY <1>4, DataKeysMatch, MatchesAreDataKeys DEF ScanTableData, storeVars, seederVars, GrantState, LoopState, Seeding, Wiped, GrantsComeFromSeeds
  <2>5. CredentialState'
    BY <1>4, DataKeysMatch, MatchesAreDataKeys DEF ScanTableData, storeVars, seederVars, CredentialState, LoopState, CredentialsWhole, NoCredentials
  <2>6. QED
    BY <2>1, <2>2, <2>3, <2>4, <2>5
<1>5. ASSUME NEW k \in Key, DeleteKey(k)
      PROVE  SeedInv'
  <2>0. k.kind = "data"
    BY <1>5 DEF DeleteKey, RowsState
  <2>1. SeedTypeOK'
    BY <1>5, <2>0, DelDataKey DEF DeleteKey, storeVars, seederVars
  <2>2. LoopState'
    BY <1>5, <2>0, DelDataKey DEF DeleteKey, storeVars, seederVars, LoopState, Seeding
  <2>3. RowsState'
    BY <1>5, <2>0, DelDataKey DEF DeleteKey, storeVars, seederVars, RowsState, LoopState, Seeding, Wiped
  <2>4. GrantState'
    BY <1>5, <2>0, DelDataKey DEF DeleteKey, storeVars, seederVars, GrantState, LoopState, Seeding, Wiped, GrantsComeFromSeeds
  <2>5. CredentialState'
    BY <1>5, <2>0, DelDataKey DEF DeleteKey, storeVars, seederVars, CredentialState, LoopState, CredentialsWhole, NoCredentials
  <2>6. QED
    BY <2>1, <2>2, <2>3, <2>4, <2>5
<1>6. ASSUME AddSupportedDBs
      PROVE  SeedInv'
  <2>1. SeedTypeOK'
    BY <1>0, <1>6, OmittedDB, ConfigParts DEF AddSupportedDBs, storeVars, seederVars
  <2>2. LoopState'
    BY <1>0, <1>6, OmittedDB, ConfigParts DEF AddSupportedDBs, storeVars, seederVars, LoopState, Seeding
  <2>3. RowsState'
    BY <1>0, <1>6, OmittedDB, ConfigParts DEF AddSupportedDBs, storeVars, seederVars, RowsState, LoopState, Seeding, Wiped
  <2>4. GrantState'
    BY <1>0, <1>6, OmittedDB, ConfigParts DEF AddSupportedDBs, storeVars, seederVars, GrantState, LoopState, Seeding, Wiped, GrantsComeFromSeeds
  <2>5. CredentialState'
    BY <1>0, <1>6, OmittedDB, ConfigParts DEF AddSupportedDBs, storeVars, seederVars, CredentialState, LoopState, CredentialsWhole, NoCredentials
  <2>6. QED
    BY <2>1, <2>2, <2>3, <2>4, <2>5
<1>7. ASSUME NEW d \in DB, SeedUsers(d)
      PROVE  SeedInv'
  <2>1. SeedTypeOK'
    BY <1>0, <1>7, ConfigParts DEF SeedUsers, storeVars, seederVars
  <2>2. LoopState'
    BY <1>0, <1>7, ConfigParts DEF SeedUsers, storeVars, seederVars, LoopState, Seeding
  <2>3. RowsState'
    BY <1>0, <1>7, ConfigParts DEF SeedUsers, storeVars, seederVars, RowsState, LoopState, Seeding, Wiped
  <2>4. GrantState'
    BY <1>0, <1>7, ConfigParts DEF SeedUsers, storeVars, seederVars, GrantState, LoopState, Seeding, Wiped, GrantsComeFromSeeds
  <2>5. CredentialState'
    BY <1>0, <1>7, ConfigParts DEF SeedUsers, storeVars, seederVars, CredentialState, LoopState, CredentialsWhole, NoCredentials
  <2>6. QED
    BY <2>1, <2>2, <2>3, <2>4, <2>5
<1>8. ASSUME SeedTables
      PROVE  SeedInv'
  <2>1. SeedTypeOK'
    BY <1>0, <1>8, ConfigParts DEF SeedTables, LoopState, Loadable, storeVars, seederVars
  <2>2. LoopState'
    BY <1>0, <1>8, ConfigParts, RowsOfAt DEF SeedTables, storeVars, seederVars, LoopState, Seeding
  <2>3. RowsState'
    BY <1>0, <1>8, ConfigParts, RowsOfAt DEF SeedTables, storeVars, seederVars, RowsState, LoopState, Seeding, Wiped
  <2>4. GrantState'
    BY <1>0, <1>8, ConfigParts, RowsOfAt DEF SeedTables, storeVars, seederVars, GrantState, LoopState, Seeding, Wiped, GrantsComeFromSeeds
  <2>5. CredentialState'
    BY <1>0, <1>8, ConfigParts, RowsOfAt DEF SeedTables, storeVars, seederVars, CredentialState, LoopState, CredentialsWhole, NoCredentials
  <2>6. QED
    BY <2>1, <2>2, <2>3, <2>4, <2>5
<1>9. ASSUME NEW t \in Table, SeedTable(t)
      PROVE  SeedInv'
  <2>1. SeedTypeOK'
    BY <1>0, <1>9, ConfigParts, RowsOfAt DEF SeedTable, storeVars, seederVars
  <2>2. LoopState'
    BY <1>0, <1>9, ConfigParts, RowsOfAt DEF SeedTable, storeVars, seederVars, LoopState, Seeding
  <2>3. RowsState'
    BY <1>0, <1>9, ConfigParts, RowsOfAt DEF SeedTable, storeVars, seederVars, RowsState, LoopState, Seeding, Wiped
  <2>4. GrantState'
    BY <1>0, <1>9, ConfigParts, RowsOfAt DEF SeedTable, storeVars, seederVars, GrantState, LoopState, Seeding, Wiped, GrantsComeFromSeeds
  <2>5. CredentialState'
    BY <1>0, <1>9, ConfigParts, RowsOfAt DEF SeedTable, storeVars, seederVars, CredentialState, LoopState, CredentialsWhole, NoCredentials
  <2>6. QED
    BY <2>1, <2>2, <2>3, <2>4, <2>5
<1>10. ASSUME DelMySQLUsers
       PROVE  SeedInv'
  <2>1. SeedTypeOK'
    BY <1>10 DEF DelMySQLUsers, NoCredentials, storeVars, seederVars
  <2>2. LoopState'
    BY <1>10 DEF DelMySQLUsers, storeVars, seederVars, LoopState, Seeding
  <2>3. RowsState'
    BY <1>10 DEF DelMySQLUsers, storeVars, seederVars, RowsState, LoopState, Seeding, Wiped
  <2>4. GrantState'
    BY <1>10 DEF DelMySQLUsers, storeVars, seederVars, GrantState, LoopState, Seeding, Wiped, GrantsComeFromSeeds
  <2>5. CredentialState'
    BY <1>10 DEF DelMySQLUsers, storeVars, seederVars, CredentialState, LoopState, CredentialsWhole, NoCredentials
  <2>6. QED
    BY <2>1, <2>2, <2>3, <2>4, <2>5
<1>11. ASSUME SetMySQLUsers
       PROVE  SeedInv'
  <2>1. SeedTypeOK'
    BY <1>0, <1>11, ConfigParts DEF SetMySQLUsers, storeVars, seederVars
  <2>2. LoopState'
    BY <1>0, <1>11, ConfigParts DEF SetMySQLUsers, storeVars, seederVars, LoopState, Seeding
  <2>3. RowsState'
    BY <1>0, <1>11, ConfigParts DEF SetMySQLUsers, storeVars, seederVars, RowsState, LoopState, Seeding, Wiped
  <2>4. GrantState'
    BY <1>0, <1>11, ConfigParts DEF SetMySQLUsers, storeVars, seederVars, GrantState, LoopState, Seeding, Wiped, GrantsComeFromSeeds
  <2>5. CredentialState'
    BY <1>0, <1>11, ConfigParts DEF SetMySQLUsers, storeVars, seederVars, CredentialState, LoopState, CredentialsWhole, NoCredentials
  <2>6. QED
    BY <2>1, <2>2, <2>3, <2>4, <2>5
<1>12. ASSUME Fail
       PROVE  SeedInv'
  <2>1. SeedTypeOK'
    BY <1>12 DEF Fail, storeVars, seederVars
  <2>2. LoopState'
    BY <1>12 DEF Fail, storeVars, seederVars, LoopState, Seeding
  <2>3. RowsState'
    BY <1>12 DEF Fail, storeVars, seederVars, RowsState, LoopState, Seeding, Wiped
  <2>4. GrantState'
    BY <1>12 DEF Fail, storeVars, seederVars, GrantState, LoopState, Seeding, Wiped, GrantsComeFromSeeds
  <2>5. CredentialState'
    BY <1>12 DEF Fail, storeVars, seederVars, CredentialState, LoopState, CredentialsWhole, NoCredentials
  <2>6. QED
    BY <2>1, <2>2, <2>3, <2>4, <2>5
<1>13. ASSUME UNCHANGED seedVars
       PROVE  SeedInv'
  <2>1. SeedTypeOK'
    BY <1>13 DEF seedVars, storeVars, seederVars
  <2>2. LoopState'
    BY <1>13 DEF seedVars, storeVars, seederVars, LoopState, Seeding
  <2>3. RowsState'
    BY <1>13 DEF seedVars, storeVars, seederVars, RowsState, LoopState, Seeding, Wiped
  <2>4. GrantState'
    BY <1>13 DEF seedVars, storeVars, seederVars, GrantState, LoopState, Seeding, Wiped, GrantsComeFromSeeds
  <2>5. CredentialState'
    BY <1>13 DEF seedVars, storeVars, seederVars, CredentialState, LoopState, CredentialsWhole, NoCredentials
  <2>6. QED
    BY <2>1, <2>2, <2>3, <2>4, <2>5
<1>14. QED
  BY <1>1, <1>2, <1>3, <1>4, <1>5, <1>6, <1>7, <1>8, <1>9, <1>10, <1>11, <1>12, <1>13
  DEF SeedNext, SeedStep

(* The invariant of the seeder. *)
THEOREM SeedInvariance == SeedSpec => []SeedInv
  BY SeedInvInit, SeedInvNext, PTL DEF SeedSpec

-----------------------------------------------------------------------------
(* What it gives. *)

(* The Redis keys and the seeder's variables keep their types through any   *)
(* sequence of seedings and failures.                                       *)
THEOREM SeedTypeCorrect == SeedSpec => []SeedTypeOK
<1>1. SeedInv => SeedTypeOK
  BY DEF SeedInv
<1>2. QED
  BY <1>1, SeedInvariance, PTL

(* A seeding that reports success has put exactly its own databases, rows   *)
(* and credentials in Redis and granted everything it grants, over whatever *)
(* earlier, possibly interrupted, seedings left (cmd/seed-redis/main.go).   *)
THEOREM SeedCompleteness == SeedSpec => []SeedComplete
<1>1. SeedInv => SeedComplete
  <2> SUFFICES ASSUME SeedInv, spc = "done"
               PROVE  /\ supportedDBs = cfg.dbs
                      /\ tableData = RowsOf(cfg)
                      /\ mysqlUsers = cfg.creds
                      /\ \A d \in DB : /\ cfg.users[d] \subseteq dbUsers[d]
                                      /\ cfg.tables[d] \subseteq dbTables[d]
    BY DEF SeedComplete
  <2>1. todo = {} /\ left = {} /\ supportedDBs = cfg.dbs
    BY DEF SeedInv, LoopState, Seeding
  <2>2. \A d \in DB, t \in Table : tableData[<<d, t>>] = RowsOf(cfg)[<<d, t>>]
    BY <2>1 DEF SeedInv, RowsState, Wiped
  <2>3. tableData = RowsOf(cfg)
    <3>1. tableData = [j \in DB \X Table |-> tableData[j]]
      BY DEF SeedInv, SeedTypeOK, StoreTypeOK
    <3>2. RowsOf(cfg) = [j \in DB \X Table |-> RowsOf(cfg)[j]]
      BY DEF RowsOf
    <3>3. \A j \in DB \X Table : tableData[j] = RowsOf(cfg)[j]
      BY <2>2
    <3>4. QED
      BY <3>1, <3>2, <3>3
  <2>4. \A d \in DB : cfg.users[d] \subseteq dbUsers[d] /\ cfg.tables[d] \subseteq dbTables[d]
    BY <2>1 DEF SeedInv, GrantState, Wiped
  <2>5. mysqlUsers = cfg.creds
    BY DEF SeedInv, CredentialState
  <2>6. QED
    BY <2>1, <2>3, <2>4, <2>5
<1>2. QED
  BY <1>1, SeedInvariance, PTL

(* No grant and no listed table exists that no deployed seed file holds;    *)
(* seeding one file any number of times grants what seeding it once does.   *)
THEOREM SeedProvenance == SeedSpec => []GrantsComeFromSeeds
<1>1. SeedInv => GrantsComeFromSeeds
  BY DEF SeedInv, GrantState
<1>2. QED
  BY <1>1, SeedInvariance, PTL

(* After the wipe only the running seed file's rows exist in Redis.         *)
THEOREM SeedOneGeneration == SeedSpec => []OneGenerationOfRows
<1>1. SeedInv => OneGenerationOfRows
  BY DEF SeedInv, RowsState, OneGenerationOfRows
<1>2. QED
  BY <1>1, SeedInvariance, PTL

(* mysql_users holds nothing or exactly one deployed file's credentials.    *)
THEOREM SeedCredentials == SeedSpec => []CredentialsWhole
<1>1. SeedInv => CredentialsWhole
  BY DEF SeedInv, CredentialState
<1>2. QED
  BY <1>1, SeedInvariance, PTL
=============================================================================
