----------------------------- MODULE MCBlackHole -----------------------------
(***************************************************************************)
(* TLC instances of the whole system.  Names come in two cases, Dx and      *)
(* Tx being the ones whose lower case is another name, as the database      *)
(* prod_backup_Q1_2026 and the tables of information_schema are.            *)
(***************************************************************************)
EXTENDS BlackHole

CONSTANTS conn, d1, Dx, dx, t1, Tx, tx, u1, u2, p1, p2, r1, r2, noColumns

MCLower == [n \in DB \cup Table |-> CASE n = Dx -> dx [] n = Tx -> tx [] OTHER -> n]

MCQ(verb, schema, table) ==
    [verb |-> verb, schema |-> schema, table |-> table, mentions |-> {}]
MCSelect(schema, table, m) ==
    [verb |-> "SELECT", schema |-> schema, table |-> table, mentions |-> m]

MCFile(dbs, users, tables, data, creds) ==
    [dbs |-> dbs,
     users |-> [x \in DB |-> IF x \in dbs THEN users ELSE {}],
     tables |-> [x \in DB |-> IF x \in dbs THEN tables ELSE {}],
     data |-> [k \in DB \X Table |-> IF k[1] \in dbs THEN data[k[2]] ELSE None],
     creds |-> creds]

\* rows for every listed table of a file, and none for the others
MCData(tables, r) == [x \in Table |-> IF x \in tables THEN r ELSE None]

-----------------------------------------------------------------------------
\* Every command against the keys of one seeding.

MCStaticFiles ==
    {[MCFile({d1, Dx}, {u1}, {t1, Tx}, MCData({t1, Tx}, r1),
             [x \in User |-> p1]) EXCEPT !.users[d1] = {u1, u2}],
     MCFile({d1}, {u1}, {t1, Tx}, MCData({t1}, noColumns), [x \in User |-> IF x = u1 THEN p2 ELSE None]),
     MCFile({d1}, {u1}, {}, MCData({}, r1), [x \in User |-> p1])}

MCSchemas == {None, d1, Dx}
MCStaticQueries ==
    {MCQ(w, None, None) : w \in Accepted \cup Unsupported \cup {"SHOW DATABASES", "SHOW COLUMNS", "USE"}}
      \cup {MCQ(w, s, None) : w \in {"SHOW TABLES", "GRANT", "CREATE DATABASE", "ALTER DATABASE"},
                              s \in MCSchemas}
      \cup {MCQ(w, s, None) : w \in {"USE", "COM_INIT_DB"}, s \in {d1, Dx, dx}}
      \cup {MCQ(w, s, x) : w \in {"INSERT", "DROP TABLE", "CREATE TABLE"},
                           s \in MCSchemas, x \in {t1, tx, None}}
      \cup {MCQ("DESCRIBE", s, x) : s \in MCSchemas, x \in {t1, Tx, None}}
      \cup {MCSelect(s, x, {}) : s \in MCSchemas, x \in {t1, Tx, tx, None}}
      \cup {MCSelect(None, None, {"IS DATABASE()"}), MCSelect(None, None, {"VERSION"}),
            MCSelect(None, t1, {"VERSION"}), MCSelect(d1, t1, {"INFORMATION_SCHEMA"}),
            MCSelect(None, None, {"VERSION", "INFORMATION_SCHEMA"})}

-----------------------------------------------------------------------------
\* A few commands while two seed files are deployed, one after the other, in
\* any order and as often as one likes.

MCFirst ==
    [MCFile({d1, dx}, {u1}, {t1}, MCData({t1}, r1), [x \in User |-> p1])
       EXCEPT !.data[<<dx, t1>>] = None]
MCSecond ==
    MCFile({d1}, {u2}, {t1}, MCData({t1}, r2), [x \in User |-> IF x = u2 THEN p2 ELSE None])
MCDeployed == {MCFirst, MCSecond}

MCLiveQueries ==
    {MCQ("SHOW DATABASES", None, None), MCQ("SHOW TABLES", None, None),
     MCQ("USE", d1, None), MCSelect(None, t1, {}), MCSelect(dx, t1, {}), MCQ("DESCRIBE", d1, t1), MCQ("INSERT", d1, t1)}
=============================================================================
