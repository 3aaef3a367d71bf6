# mysqlBlackHole: TLA+ models and proofs

mysqlBlackHole is a honeypot that speaks the MySQL protocol and keeps what it
shows in Redis. This directory holds TLA+ models of its server and its seeder,
the TLC configurations that check them on small instances, and TLAPS proofs of
the properties that matter most for every instance. Paths below are those of
the repository; `tlc -config X.cfg M` checks a configuration, `tlapm M.tla`
a proof.

## The system

| Component | Code | State it keeps | Operations |
|---|---|---|---|
| Redis keys | `model/sqlemulate/models.go` | `supported_dbs`, per database a set of users and a set of tables, per table a JSON document, the hash `mysql_users` | written by the seeder only, read by the server only |
| Seeder | `cmd/seed-redis/main.go` | none of its own; a seed file is compiled in | one run: wipe, write databases, users, tables, rows, credentials |
| Connections | `main.go`, `auth.go` | a goroutine and a `BlackHoleHandler` per connection | accept, handshake, open, commands, close |
| Command handlers | `handler.go`, `query_handlers.go`, `select_handler.go`, `describe_handler.go` | the handler's `username`, `fingerprint`, `currentDB` | one per statement kind of `HandleQuery`, one per other packet |
| Shared parser | `select_handler.go:46-57` | one TiDB parser and its mutex | parse a statement |
| WHERE evaluator | `expr_eval.go` | none | evaluate an expression over a row |
| SELECT rows | `select_handler.go:165-348` | none | filter, order, limit, project |
| Report generator | `cmd/report_generator/main.go` | none (reads Elasticsearch); a process per day | ping, resolve fields, six queries, print, post |
| Fingerprint | `fingerprint.go` | none | name a client in every log line about it |
| Server process | `main.go:27-60` | the listener | start, or exit |
| Packaging, log shipping | `vector.yaml`, Docker files | none | |

How they interact. Handlers run in one goroutine per connection and share two
things: the Redis keys, which they only read, and the parser. The seeder is a
separate process, started by every deployment while the server goes on serving
(`.github/workflows/deploy.yml:64-65`; that workflow removes a running seeder
before it starts the next, so two never run at once). go-mysql calls back into
`BlackHoleAuthHandler` and `BlackHoleHandler`, and it calls `UseDB` while the
handshake is still going on, before `main.go:78` has told the handler who the
user is. The report generator sees the server only through its log lines, which
Vector ships to Elasticsearch some time after they are written; a scheduler
starts it once a day.

What is hard here: a reseeding is a sequence of separate Redis commands, and
handlers take two or more Redis calls themselves, so any of the seeder's steps
can fall between any two of a handler's. A seeder can stop half way and the next
one starts on what it left. The one mutable thing the goroutines share is a
parser that is not safe to share. The report generator makes nine calls under one
deadline against an index that grows while it looks. A `SELECT` is evaluated by
hand-written three-valued logic over values whose type depends on where they came
from. `PROJECT.json` lists each hazard at its line.

What makes each part correct:

* Seeder: whatever crashed runs came before, a run that reports success has
  published its file; what exists at any moment comes from some deployed file;
  rows of two files are never side by side once the wipe is over; credentials
  are one file's list or none.
* Connections: handlers and log lines name the user that authenticated; a
  session exists only with credentials some seed file held.
* Handlers: every command is answered; an answer given while the keys were
  still is the one a single look at them would give; a write statement the
  server knows is never answered with success; what an unqualified statement shows
  is of a database some seed file grants its user.
* Parser: each goroutine gets the tree of its own text.
* WHERE and rows: where SQL says true or false, so does the code; the page that
  goes out is SQL's; full tables never bring the server down.
* Report generator: a run ends before the next is due, posts one whole report or
  none, and every section is true of the index at some moment of the run;
  "nothing" in a section means there was nothing.

## The modules

    Keyspace ------- SeedRedis ---------+-- SeedRedisProofs --+
        |                               |                     |
        +----------- BlackHoleServer ---+-- BlackHole --------+-- BlackHoleProofs -- ProvenanceProofs
    ParserService -- SharedParser -- SharedParserProofs
    ReportQueries -- ReportGenerator -- ReportProofs -- SectionProofs
    ReportService -------+                  Counting -------+
                                                |
    ThreeValued -- ExprEval -- SQLExpr -- SelectRows -- SelectProofs

**Keyspace** declares the keys and the seed file. A missing key, an empty set and
an empty hash are one state, as they are to `SMEMBERS`, `SISMEMBER` and `HGET`.
A table's JSON document is one value (`Payload`); `Columnless` are the documents
without columns, which the seeder skips.

**SeedRedis** is the seeder. `spc` is the Redis command it is about to issue, and
each action is one command: `DelSupportedDBs`, the two scans and their
`DeleteKey`, `AddSupportedDBs`, `SeedUsers(d)`, `SeedTables`, `SeedTable(t)`,
`DelMySQLUsers`, `SetMySQLUsers`. `Start(c)` is a deployment with seed file `c`
and may follow any end of the previous run. `Fail` can come before any command:
a Redis error followed by `os.Exit(1)`, or the container being removed. A scan
pattern matches by what its text and its `*` say (`KeysMatching`): the pattern
`supported_dbs:` of line 70 has no `*` and matches nothing. Map iteration and
SCAN order are `\E`. The databases of a file are taken in any order too, which
is more than the code's slice order.

**BlackHoleServer** is the server. A connection's `phase` is where its goroutine
is: `none`, `handshake`, `authed` (between `NewCustomizedConn` and the setters),
`ready` (in `HandleCommand`, reading), `busy` (in a handler). A handler is cut
at its Redis calls: `pc` is `begin`, `filter` (the loop of `handleShowDatabases`),
`list` (the second call of `handleShowTables`) or `load` (the `GET` of
`handleSelect` and `handleDescribe`). What a handler does between two calls is
private to its connection and is part of the step. A command is what the parser
sees of it: the statement kind, the qualifier and the table it names (`None` when
there is none or the text does not parse; of several tables `SELECT`, `DELETE` and
`UPDATE` take none, `DROP TABLE` and `RENAME` the first), and for a `SELECT` the
substrings (`VERSION`, `INFORMATION_SCHEMA`) and the whole text (`SELECT DATABASE()`) that
`HandleQuery` looks for. `Route` is `HandleQuery`'s
switch in its order. `Folded` is the lower-casing of identifiers (`Name.L`,
`Schema.L`) by exactly the handlers that do it. `RedisFails` is an error from the call a handler is about to make.
`quiet` is a history variable: no key has changed since the command arrived.
Scoping is as in the code: `SHOW DATABASES`, `SHOW TABLES`, `USE` ask for the
user's grant, `SELECT`, `DESCRIBE` and the write denials do not.

**BlackHole** composes the two over the same keys. `Spec` interleaves deployments
with connections, `StaticSpec` is the server between two deployments, after a
completed first seeding.

**ParserService** is the abstract specification of parsing: hand in a text, get
its tree, in one step. **SharedParser** is the code: lock, `sync.Once`, the three
steps of `ParseOneStmt` on the parser's own lexer and result, unlock. It
implements the service, and this is why BlackHoleServer may treat parsing as
part of a handler's step.

**ThreeValued**, **ExprEval**, **SQLExpr**. ExprEval is `expr_eval.go`, function by
function: a value is a pair of its Go type and its content (`int` from a literal,
`float` from the table's JSON, `decimal` for a literal with a point and any other of
a type the file has no case for, `text`, `bool`, `nil`), and `Panic` is the value of
an expression whose evaluation indexes a row past its end. A `float` is measured in
units so small that each float64 is a whole number of them, and `Float` is the nearest
float64 of an `int`, so that large numbers round as in `toFloat`. `likeToRegexp` makes
the pieces of a regular expression from the bytes of a pattern, and `MatchString` looks
for them in the characters of a text, as Go's `regexp` does: anywhere, and no dot takes
a newline. No function of the file returns an error, so errors are left out. What texts
are (`Lower`, `Precedes`, `NumberIn`, `Runes`, `Bytes`, `SameFold`, `Finds`) is given by
constant operators. Expressions are a set `Expr` that has the operands of each of its
members, nested less deep (`Nesting`); `ValueOf` is the value of an expression by those
of its operands, and `evalExpr` the function on `Expr` that satisfies it. `And`, `Or` and
`Not` stand apart in ThreeValued with SQL's; SQLExpr is the rest of SQL's meaning, built
in the same way (`SQLTruthBy`, `SQLTruth`), with numbers compared as they are and a
`LIKE` of its own over the whole text (`SQLLike`). It stands for no code.

**SelectRows** is what `handleSelect` does once the table is loaded, one action per
function: `FilterRows`, `OrderRows`, `ApplyLimit`, `ProjectRows`, `BuildResult`.
The loops of `filterRows` and `projectRows` are `Filter` and `Projection`, a round
each time. `SliceStable` is what the documentation of `sort.SliceStable` promises, as the
set of its results: if the less function is a strict weak order of the rows (`Orders`),
they are sorted by it and rows that tie stay in place, and if it is not, as over a
column of two types, they may come in any order. Each action may end in `Panics`,
which nothing recovers; the sort panics for certain only if some row cannot be compared
with any other. In BlackHoleServer `LoadTable` does all of this in the
step that follows its `GET`: the rows are private to the goroutine.

**ReportQueries** is the six queries as functions of a set of log lines and a
window, what the program makes of each answer, and the note `renderMarkdown` puts
under it. **ReportGenerator** is the run: `pc` is the call it is about to make,
`Ping`, `ClusterHealth` (which fixes the window), `ResolveFields`, `Query(s)` or
`Skip(s)` for each section in the order of `After`, `WriteStdout`, `Post`;
`CallFails` is any of them failing. A missing index is an empty one: Vector creates it with
the first line it ships (`vector.yaml:41-44`). `isIndexNotFound` (`main.go:134`) takes any
"404 Not Found" for that, also one from something between the program and Elasticsearch,
which the repository does not deploy. `now` moves by what a call takes, up to its
timeout or the deadline of the context. Around it, `Ship(e)` is a line reaching
the index and `Launch(w)` the scheduler, which does not wait for the run before.
**ReportService** is what an operator expects of it, and is what ReportGenerator
is shown to implement (`Service == INSTANCE ReportService WITH ...`, where `run` is
`Outcome`).

The `MC*` modules give the constants values. Definitions named `Mut...`, each
under a comment saying what it gets wrong, are not part of the models: they are
faulty variants of the definition that follows them, used to see that a property
notices the fault.

## What the runs check

| Run | Configuration | Checks |
|---|---|---|
| seeder | `MCSeedRedis.cfg` | `SeedTypeOK`, `SeedComplete`, `GrantsComeFromSeeds`, `OneGenerationOfRows`, `CredentialsWhole`, `SeedingEnds` |
| static | `MCStatic.cfg` | `TypeOK`, `QuietReadsAreExact`, `OneIdentity`, `KnownWritesAreRefused` |
| live | `MCLive.cfg` | `QuietReadsAreExact`, `UnqualifiedReadsWereGranted`, `ListedDBsAreGranted`, `RowsComeFromSeeds`, `SessionsHaveCredentials`, `CommandsAreAnswered` |
| parser | `MCSharedParser.cfg` | `ParserTypeOK`, `MutualExclusion`, `ImplementsService` |
| report | `MCReport.cfg` | `ReportTypeOK`, `ExactWhenStill`, `LaterSectionsSeeMore`, `NothingMeansNothing`, `CommandsAreGrouped` |
| report_timing | `MCReportTiming.cfg` | `RunsDoNotOverlap`, `WindowsMeet`, `ImplementsService` |
| select_rows | `MCSelectRows.cfg` | `SelectTypeOK`, `DecisionsStand`, `PageIsSQLs`, `SearchesAreSQLs`, `FullTablesAreAnswered` |

What the later three show. *report*: over an index nothing reaches meanwhile each
section is the one `README.md:67-71` describes, compared with the lines of the window
directly: usernames with attempts, successes and failures; source addresses
with their lines; sessions with their addresses, users, logins and commands, those
without a command left out; query texts with their frequency; the latest commands and
their number. A section has as many rows as its cap allows, the heaviest ones, and says
that there are more just when there are. Otherwise the sections may disagree, but only in
that later ones have counted more. *report_timing*: a lost answer of the webhook makes a
run fail that did post, never one that posts twice or posts part. *select_rows*: AND, OR,
NOT and IN decide as SQL does wherever SQL decides; where a `NULL` leaves SQL undecided,
conditions without AND and without a NOT under a NOT still keep SQL's rows, and for them
the whole page, with order, offset and limit, is SQL's. A `LIKE` or `NOT LIKE` for a pattern
between two `%`, of one-byte letters, keeps SQL's rows, although what it becomes is a search
anywhere in the text (`SearchesAreSQLs`).

What some properties do not say. `QuietReadsAreExact` compares a handler, cut at its Redis
calls, with one look at the same keys; both take `Route`, `Folded` and `Target`, so a wrong
case order or folding would pass. `UnqualifiedReadsWereGranted` says that some deployed
file granted the database, not that the present one does: nothing asks again.
`NothingMeansNothing` is about what was in the index when the run began; a field that
appears later leaves its section empty.

All of these pass. Five more runs each show the code doing something other than
its documentation or its comments say:

| Configuration | Expected to hold by | What happens |
|---|---|---|
| `MCGrantsAreTheSeeds.cfg` | the wipe of `cmd/seed-redis/main.go:70`, README's "Lists seeded tables" | the pattern matches no key: users and tables of earlier seed files stay granted and listed |
| `MCSeededTablesAreReadable.cfg` | the comment on `tableExistsInDB` | qualified names are lower-cased before the key is built: `prod_backup_Q1_2026.clients` is unknown |
| `MCGrantedUserMayNameDBAtConnect.cfg` | the comment on `UseDB` | a database named in the handshake is checked for the empty user, and the connection is closed |
| `MCCapsAreSaid.cfg` | the comment on `aggSize` | the fingerprints that fit under the cap are all dropped for want of a login, and the section says there were no sessions, though a client beyond the cap had one |
| `MCOnlyTrueRowsAreKept.cfg` | the comment on `evalExpr` | NOT of unknown is false, so NOT (NOT (`name = 'ann'`)) keeps the row whose name is `NULL`; AND takes an unknown left side for true |

Other places where the code and README:7 or README:171 ("Real WHERE/ORDER BY/LIMIT/
projections") differ are modelled as the code has them, and the properties leave
them out by name:

* a write `HandleQuery` has no case for (`CREATE VIEW`, `CALL`, ...) reaches its
  default case and succeeds (`handler.go:121`): `KnownWrites` are those it knows;
* a `SELECT` whose text contains `VERSION` anywhere gets the version string
  (`handler.go:79`): `Route`;
* a field that is a literal with a decimal point is a value go-mysql cannot send:
  `Decimal`; in a condition such a literal is compared as text (`expr_eval.go:414`), so
  that `score >= 9.5` leaves out the row whose score is 10: `Simple`;
* the regular expression of a `LIKE` is not anchored (`expr_eval.go:484`), so that
  `LIKE 'an%'` keeps `joanna`; the pattern is converted byte by byte
  (`expr_eval.go:470`), so that a letter of two bytes does not match itself; a `%` takes
  no newline: `Searches`;
* numbers are compared as float64s (`expr_eval.go:399`), so large ones that differ may be
  equal: `Held`;
* over a column of two types the comparison is no order (`expr_eval.go:437`): `Plain`;
* a row shorter than the list of columns panics (`select_handler.go:313`): `Full`;
* a renamed column is looked up under its new name and is `NULL`
  (`select_handler.go:285`): `Projection`;
* over texts of which some read as numbers the comparison is not transitive
  (`'10' < '1a' < '9' < '10'`, `expr_eval.go:437`): `Plain`, and `Kindred` for literals;
* a `BETWEEN` with a `NULL` bound is unknown, also where the other bound has already
  decided it (`expr_eval.go:244`): `Compared`;
* `ORDER BY` with a position in the list a `*` stands for is passed over
  (`select_handler.go:198`): `Selected`.

### Bounds, and why they are enough

* seeder: two databases, tables, users and passwords; four seed files: one with
  everything (and a table without columns), a later one that drops a database,
  revokes a user and changes rows and passwords, one without databases, one
  without users. Every order of deployments, any number of times. The state is
  finite without a cap: keys are sets over these names. Two files that disagree
  in every family of keys are what a stale key needs to show; a third and fourth
  add the two error and early-return paths.
* static: three databases and tables, where `Dx`, `Tx` fold to `dx`, `tx`; about
  sixty commands: each statement kind without target, with a table, qualified in
  both cases, and unparsed. One connection, but any sequence of commands,
  logins and reconnects on it. The keys do not change, so connections share
  nothing but the parser.
* live: two seed files that grant, list and fill different things, seven commands
  that cover each sequence of Redis calls a handler makes, one connection. One is
  enough: a connection's steps read and write its own entry of every variable and
  only read the keys, and none of the invariants relates two connections. The
  proofs, which are for any set of connections, confirm this.
* report: one run over seven lines of two clients from one address and a third that
  only fails to log in. One line is before the window, two are on its ends. Two
  clients' statements alternate and are one more than the page of three, so that hits of
  one client stand on both sides of another's. `aggSize` is 2, and there are three users.
  The lines arrive in any order before and between the queries. Calls take no time here
  (`CallLimit = 0`). Three fingerprints and three texts are more than the cap.
  `caps_are_said` takes five of the lines, with an `aggSize` of 1 and a page of 2; a
  client that never logged in has the most of them.
* report_timing: two runs in a row, a period of 7 and a deadline of 6, calls of up
  to one unit and a post of up to two: nine calls do not fit, so the deadline cuts
  runs short at each of them. One window is the period, the other is refused. The
  clock stops at `MaxTime`, hence `CHECK_DEADLOCK FALSE`.
* select_rows: five tables of up to five rows: `NULL`s and names that differ in
  case; numbers above 100, where the floats of the instance are two apart, with rows
  that tie; no rows; a column of texts and numbers with a text that reads as NaN; a
  short row. Conditions are eight comparisons, one with a literal that is rounded, their
  ANDs and ORs, negations of those and double negations of the comparisons, and each
  other kind of expression; five orders, five limits, six projections. Floats are
  measured in halves. `Half`, the first number past the largest int, is 8, so that a
  `LIMIT` of 9 or 15 is past it. `Expr` is the expressions of these statements with their
  operands. The sort takes all arrangements of up to five rows. A statement ends, hence
  `CHECK_DEADLOCK FALSE`. Among the other conditions are `LIKE`s
  with a `%` at one end and at both, with `_`, with a capital and with a letter of two
  bytes, over names of which one has that letter.
* parser: three goroutines, so that one can hold the mutex, one wait and one be
  new; two texts with different trees and one that does not parse.

### Fairness

`SeedSpec` and `Spec` have weak fairness of the seeder's next Redis command: the
program is sequential, and go-redis bounds every call by a timeout, after which
the call fails (`Fail`, not required to happen). Each connection has weak
fairness of the steps it takes by itself; nothing obliges a client to send a
command or to stay, and nothing obliges anyone to deploy. `CommandsAreAnswered`
needs no fairness of the seeder. `SharedParser` has strong fairness of `Lock`:
Go's `sync.Mutex` hands itself to the longest waiter once it has waited a
millisecond. Fairness of the holder is weak. `ReportGenerator` has weak fairness of
the run's next call: the program is sequential and each call has a timeout, so it
answers or fails; nothing obliges Vector to ship or the scheduler to start a run.
`SelectRows` has weak fairness of its only process.

## What is proved

For any names, passwords, documents, seed files, commands and connections, under
`NoneAssumption` (`None` is not a name), `ConfigsAssumption` (a file holds
nothing for a database it does not list), `LowerAssumption` (folding is
idempotent and maps databases to databases, tables to tables),
`QueriesAssumption` and `ParseOfAssumption`; for the report generator, for any log
lines, windows, timeouts and sizes, under `TimesAssumption` (times are natural
numbers and the deadline is shorter than the period), `SizesAssumption` and
`LogAssumption` (lines are logged at whole units of time, and logins, failed
logins and statements with the attributes of their client: `auth.go:21-28` and
`handler.go:70` pass `AttrsSlice`); for `SELECT`, for any expressions, tables
and statements, under `ExprAssumption` (expressions are finite trees,
an `IN` list is not empty, literals are of the types the parser makes), `NotAssumption`
(`n.Not` is a bool), `DatumAssumption` (a cell is what `json.Unmarshal` makes; texts,
once lower-cased, are ordered by `<`), `TextsAssumption` (a text is a sequence of
characters), `NaNAssumption` (NaN is no number),
`UnitAssumption` (one is a whole number of units), its own `NoneAssumption` (`None` is not an expression),
`TablesAssumption` (a slice's length is an int) and `StatementsAssumption` (the parts
of a statement are expressions, the literals of a `LIMIT` are 64 bits wide):

| Theorem | Statement |
|---|---|
| `SeedTypeCorrect`, `TypeCorrect` | `[]SeedTypeOK`, `[]TypeOK` |
| `SeedCompleteness` | `SeedSpec => []SeedComplete` |
| `SeedProvenance` | `SeedSpec => []GrantsComeFromSeeds` |
| `SeedOneGeneration` | `SeedSpec => []OneGenerationOfRows` |
| `SeedCredentials` | `SeedSpec => []CredentialsWhole` |
| `IdentityIsOne` | `Spec => []OneIdentity` |
| `UnqualifiedReadsAreOfGranted` | `Spec => []UnqualifiedReadsWereGranted` |
| `SessionsAreAuthentic` | `Spec => []SessionsHaveCredentials` |
| `ReadsAreExact` | `Spec => []QuietReadsAreExact` |
| `WritesAreRefused` | `Spec => []KnownWritesAreRefused` |
| `ListedAreGranted` | `Spec => []ListedDBsAreGranted` |
| `RowsAreSeeded` | `Spec => []RowsComeFromSeeds` |
| `ParserTypeCorrect` | `ParserSpec => []ParserTypeOK` |
| `ParserMutualExclusion` | `ParserSpec => []MutualExclusion` |
| `ParserImplementsService` | `ParserSpec => ImplementsServiceSafely` |
| `ReportTypes` | `[]ReportTypeOK` |
| `RunsAreApart` | `[]RunsDoNotOverlap` |
| `WindowsAlmostMeet` | `[]WindowsMeet` |
| `ReportIsTruthful` | ReportGenerator's `Spec => ImplementsServiceSafely` |
| `NothingIsSaidOfNothing` | `[]NothingMeansNothing` |
| `LaterSectionsHaveMore` | `[]LaterSectionsSeeMore` |
| `CommandsStandGrouped` | `[]CommandsAreGrouped` |
| `StillReportsAreExact` | `[]ExactWhenStill` |
| `SelectInvariant` | SelectRows' `Spec => []SelectInv` |
| `SelectTypesHold` | `[]SelectTypeOK` |
| `SelectsOfFullTablesAreAnswered` | `[]FullTablesAreAnswered` |
| `DecisionsAreSQLs` | `[]DecisionsStand` |
| `PagesAreSQLs` | `[]PageIsSQLs` |
| `SearchesKeepSQLsRows` | `[]SearchesAreSQLs` |
| `ConnectivesFollowSQL` | AND, OR and NOT decide as SQL does if their operands do |
| `OrAndNotKeepSQLsRows` | OR keeps SQL's rows if its operands do, NOT if its operand is SQL's; AND does not |

**SeedRedisProofs.** `SeedComplete` speaks of the last step only, so the
inductive invariant `SeedInv` follows the program: `LoopState` says which parts
of the file the loop has written at each `spc` (in terms of `todo`, `cur` and
`left`), `RowsState` which rows are still an older file's (the keys in `pending`
while the wipe goes on, none later), `GrantState` that grants come from started
files, `CredentialState` that the credentials are whole. Each is preserved by
each of the seeder's actions; the case analysis over actions is done once.

**BlackHoleProofs.** Three invariants, each resting on the one before.
`ServerInv`: types, and what a connection's `phase` and `pc` say of its request
(a handler at `list` has a database, one at `load` a database and a table).
`Identity`: the user variables agree, the selected database was granted the user by a
deployed file (`SelectionWasGranted`), the credentials are some file's; the seeder's
steps preserve it because no deployed file is forgotten, whatever is in the keys. What an
unqualified statement shows is of the selected database (`ShowsSelected`), and so is of
a granted one.
`Answers`: while `quiet`, what a handler has found out so far (`Progressing`:
the databases checked, the grant seen, the table found) is still true, so that
its last step gives `Reading`; a seeder step that changes a key ends `quiet`.

**SharedParserProofs.** `ParserInv`: whoever is between lock and unlock holds the
mutex, and the parser's lexer and result are then those of its own text. Every
step of SharedParser is then a step of ParserService or leaves it unchanged.

**ProvenanceProofs.** An answer is composed of what was read at different moments,
so the invariant speaks of every place a name or a row can be. `SeedHistory`: the
keys hold no database, grant, table or row that no deployed file gave them.
`Sourced(c)`: neither does what connection `c`'s handler has read so far, nor its
answer. The seeder's steps preserve the first, and the second because deployed
files are never taken back; a handler's step copies from keys to handler.

**ReportProofs.** `TimeInv`: a run that is under way began at `due - Period` and its
clock is at most at its deadline, which is before `due`. `WindowInv`: once the
window is fixed its end is at most two calls after the start of the run, and
`lastEnd` likewise after the start of the run before. `SectionInv`: the fields are
those of some index `at` between `base` and `index`, and each section asked for so
far is the answer over some index `seen[s]` between `at` and `index`, where `seen` grows
along the order of the queries (`Told`); since the index only grows this survives every
`Ship`, and at `Post` it is `Truthful`. A printed report is never changed, so the same
is said of `stdout`.

**Counting** is what takes induction. The library's induction theorems have an
operator for a parameter; here the predicate is a set: `Counted` (a set with 0
and the successors of its numbers is `Nat`), from a least element
(`WellFoundedInduction`), and `Peeled` (a set of sets with `{}` that has `A` whenever
it has `A` without some element has every finite set). From these follow that a
finite set has a largest element, a set of its `k` largest and a sorted
listing, and that a loop is a function of its rounds. Definitions by `CHOOSE` and
recursive functions mean something only because these exist.

**SectionProofs** says what the sections say, from `SectionInv` and `IndexInv` (the
index is finite). `TopKeysAre`: a terms aggregation has the buckets its size allows;
hence a section with a line to show has a row (`NothingIsSaidOfNothing`), because
a line with a field also makes the field one that was found.
`TotalOfParts`: the buckets of an aggregation are disjoint, so their counts add up
to the size of their union, whatever order they are added up in; and a section
asked for later saw no fewer lines (`LaterSectionsHaveMore`). `GroupsInv`: after `i`
hits there is one group per client seen, with the texts of those hits, latest
first; `AddHitKeeps` is its step, and `CommandsStandGrouped` its end. For
`StillReportsAreExact`, when `base = index` every section saw that index, and each is
compared with the lines of the window on its own: the buckets of an aggregation are the
heaviest of its keys, and all of them unless there are more than the cap; a field the
index has not is of lines that are not there either, so a section that was skipped
had nothing to say; dropping sessions after the cap leaves those of the capped
clients that logged in and sent commands; and what the page left out is no
later than what it shows (`PageIsLatest`).

**SelectProofs** is about every statement and every table, so it needs two
inductions of its own, over expressions and over rows.

*Recursions.* `evalExpr`, `SQLTruth` and `Conditions` are recursive functions on `Expr`,
which mean something only if there is a function that satisfies them. There is one on
the expressions nested less than `n` deep, for every `n` (`RecursionExists`, with
`Counted`), and two of them agree where both are defined, because a value depends on
the operands only (`ValueIsLocal`); hence `EvalExprIsValueOf`. `ByNesting` is the induction
over expressions: what holds of one whenever it holds of its operands holds of all.
The loops are treated likewise (`FilterLoops`, `ProjectionLoops`).

*The invariant.* `SelectInv` says at each call what the calls before it returned:
`RowsKept`, `RowsSorted`, `RowsLimited`, `RowsProjected`, that all of these are rows of the
table, that full rows do not panic and that a refused result is one go-mysql cannot
build. The properties speak of one phase each and are not inductive. With it,
`SelectTypesHold` is about `normalizeValue`; the first half of
`SelectsOfFullTablesAreAnswered` is in it (by `ByNesting`: over a full row no
operator panics unless an operand does), and the second follows because an
expression has values of one kind over all the rows of a table whose columns are.

*Conditions.* `ComparisonsFollowSQL`: of two values of one kind, numbers such as a float64
holds, `compareValues` is SQL's comparison, and `NULL` is treated alike. `ConnectivesFollowSQL` takes this through AND,
OR and NOT, and `ByNesting` through any nesting (`DecisionsFollowSQL`): where SQL says
true or false, so does the code. `DecisionsAreSQLs` follows because filtering again by
what is asked of fewer rows is filtering by that alone (`FilteredAgain`). Without AND, and with NOT of what
is already SQL's only, the code also says true exactly where SQL does
(`DisjunctionsAreSQLs`, `ExactRowsAreSQLs`).

*LIKE.* `likeToRegexp` and the loop in `MatchString` are recursive functions as well:
a pattern without escapes has one piece for each byte (`PiecesAre`), and the ends the
loop finds are those of the ways to cut the text, piece after piece (`Chain`,
`MatchesAre`). A search may start and stop anywhere and a `LIKE` must take the whole
text; if the first and the last piece take anything, a way of one kind is turned into one
of the other by moving its two ends (`SearchesMatch`), hence `SearchesKeepSQLsRows`.

*Order.* The rows of a column are `NULL`s, numbers or texts, and SQL's comparison orders
them (`ColumnsAreOrdered`); the first column that tells two rows apart, and their places
in the table if none does, make a strict total order of the rows (`FirstIsAnOrder`),
and the less function says "less" of a row and another just when a column puts
it before (`VerdictIsSQLs`). So it is a strict weak order (`LessOrders`), which is what
`sort.SliceStable` asks for, and what it then promises is an arrangement of the places of
the rows, rather than of the rows, which may be equal (`SortedRowsAreSQLs`). An
arranged row has as many rows before it as its place says (`RanksArePlaces`), and
`LimitIsSQLs` is the arithmetic of OFFSET and LIMIT, a count past the largest int
included. `PagesAreSQLs` puts the three together.

These proofs corrected the model in places where the small instances had not
reached: a field that is the literal `+9.5` is as impossible to send as `9.5`
(`Decimal` now speaks of values, not of the form of an expression); comparisons agree
with SQL's only for operands of one kind, `BETWEEN` only for bounds that are not `NULL`
(`Compared`); and `compareOp` gave two answers for `NULL <=> 1`, of which only the first
is the code's.

## What is only model-checked

Liveness (`SeedingEnds`, `CommandsAreAnswered`, the liveness of both
`ImplementsService`), which is out of the prover's reach. Every other property of a
passing run is a theorem. The properties of the runs that expect a violation are not:
they are false.

## What is not modelled, and why

* The password exchange: go-mysql's; the model compares what it compares.
* Prepared statements beyond their packets: the handler answers each with
  success and does nothing.
* Process start and stop: `main` exits if it cannot listen or reach Redis, and
  has no shutdown path. A server restart is every connection's `Disconnect`. The
  end of all connections after a panic in one handler is not in BlackHole: with
  the rows abstracted to a payload no handler there panics, and SelectRows says
  when one would.
* A Redis that loses its keys: the compose file gives it no volume, so a new
  container starts from `StoreInit`; the seeder is then run again.
* In SELECT: `DISTINCT`, `GROUP BY`, `HAVING` and aggregate functions, which the code
  does not look at either (an aggregate is an expression it does not know, and
  `NULL`); ESCAPE in LIKE; `[]byte` values, which JSON and literals never give.
* In the report: approximate counts of an index with several shards, clocks that
  disagree, answers over 8 MiB (an error like any other), Markdown escaping. An
  interrupt of the process is a failing call.
* Packaging, and Vector beyond the order it ships in: configuration.

## Plan

Done: Keyspace, SeedRedis, BlackHoleServer, BlackHole, ParserService,
SharedParser, ThreeValued, ExprEval, SelectRows, ReportQueries, ReportService,
ReportGenerator, with their runs, and proofs of every safety property these check.
Left:

1. `ServerProcess`: the accept loop, exits, a panic that ends every connection, and
   restarts of Redis without keys.
2. More proofs: that the page of a SELECT is SQL's for conditions with AND where no
   operand is unknown; and for conditions that combine a `LIKE` with others.
