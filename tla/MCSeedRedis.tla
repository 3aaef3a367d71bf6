---------------------------- MODULE MCSeedRedis ----------------------------
(***************************************************************************)
(* TLC instances of the seeder: two databases, two tables, two users and    *)
(* three seed files that disagree about grants, rows and credentials.       *)
(***************************************************************************)
EXTENDS SeedRedis

CONSTANTS d1, d2, t1, t2, u1, u2, p1, p2, r1, r2, noColumns

MCGrant(f, g) == [d \in DB |-> IF d = d1 THEN f ELSE g]
MCRows(f, g) ==
    [k \in DB \X Table |-> CASE k = <<d1, t1>> -> f [] k = <<d1, t2>> -> g [] OTHER -> None]

\* both databases, u1 granted both, u2 one; one table without columns
MCFirst ==
    [dbs |-> {d1, d2}, users |-> MCGrant({u1, u2}, {u1}), tables |-> MCGrant({t1, t2}, {t1}),
     data |-> MCRows(r1, noColumns),
     creds |-> [u \in User |-> p1]]

\* a later file: d2 dropped, u2 revoked, rows and passwords changed
MCSecond ==
    [dbs |-> {d1}, users |-> MCGrant({u1}, {}), tables |-> MCGrant({t1}, {}),
     data |-> MCRows(r2, r2),
     creds |-> [u \in User |-> IF u = u1 THEN p2 ELSE None]]

\* a file without databases and without users
MCEmpty == NoConfig

\* a file without users
MCNobody == [MCSecond EXCEPT !.creds = NoCredentials]

MCConfigs == {MCFirst, MCSecond, MCEmpty, MCNobody}
=============================================================================
