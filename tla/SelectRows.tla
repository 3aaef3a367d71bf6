----------------------------- MODULE SelectRows -----------------------------
(***************************************************************************)
(* What handleSelect does with the table it has loaded: filter, order,      *)
(* limit, project, and the result set go-mysql makes of the outcome.  This  *)
(* is the "payload" BlackHoleServer's LoadTable answers with.  The table is *)
(* what json.Unmarshal gave: rows need not be as long as the list of        *)
(* columns, nor a column of one type.  The goroutine works on its own copy, *)
(* so nothing interferes; a panic in it, which nothing recovers, ends the   *)
(* whole server.                                                            *)
(***************************************************************************)
EXTENDS SQLExpr, SequencesExt

CONSTANTS
    Name,       \* names of columns
    Datum,      \* what json.Unmarshal makes of a cell
    Tables,     \* tables
    Statements, \* SELECT statements
    Half,       \* 2^63, the first number past the largest int
    None        \* no such clause

(* Texts, once lower-cased, are ordered.                                    *)
ASSUME DatumAssumption ==
    LET Words == {Lower(v[2]) : v \in {d \in Datum : IsText(d)}}
    IN /\ \A v \in Datum : \/ v = Nil \/ v[1] \in {"text", "nested"}
                            \/ (v[1] = "bool" /\ v[2] \in BOOLEAN)
                            \/ (v[1] = "float" /\ v[2] \in Int)
       /\ \A s, t \in Words :
            /\ s = t \/ Precedes(s, t) \/ Precedes(t, s)
            /\ ~(Precedes(s, t) /\ Precedes(t, s))
       /\ \A s, t, u \in Words : Precedes(s, t) /\ Precedes(t, u) => Precedes(s, u)

(* A text is a sequence of characters, each a number. *)
ASSUME TextsAssumption ==
    /\ \A v \in Datum : IsText(v) => Runes(v[2]) \in Seq(Nat)
    /\ \A e \in Expr : e.op = "value" /\ IsText(e.v) => Runes(e.v[2]) \in Seq(Nat)

ASSUME NoneAssumption == None \notin Expr

(* A slice has no more elements than an int can count.                      *)
ASSUME TablesAssumption ==
    \A t \in Tables :
      /\ t \in [columns : Seq(Name), rows : Seq(Seq(Datum))]
      /\ Len(t.rows) < Half

ASSUME StatementsAssumption ==
    /\ Half \in Nat
    /\ \A s \in Statements :
         /\ s.where # None => s.where \in Expr
         /\ s.order \in Seq({s.order[i] : i \in DOMAIN s.order})
         /\ \A i \in DOMAIN s.order : s.order[i].by.op # "position" => s.order[i].by \in Expr
         /\ s.fields \in Seq({s.fields[i] : i \in DOMAIN s.fields})
         /\ \A i \in DOMAIN s.fields : s.fields[i].expr # None => s.fields[i].expr \in Expr
         /\ s.limit # None => {s.limit.offset, s.limit.count} \subseteq 0..2 * Half - 1

VARIABLES
    table, stmt,   \* what was asked
    phase,         \* the function to be called next
    kept,          \* what filterRows returned
    sorted,        \* what orderRows returned
    page,          \* what applyLimit returned
    outCols, outRows   \* what projectRows returned

vars == <<table, stmt, phase, kept, sorted, page, outCols, outRows>>

Init ==
    /\ table \in Tables /\ stmt \in Statements /\ phase = "filter"
    /\ kept = <<>> /\ sorted = <<>> /\ page = <<>> /\ outCols = <<>> /\ outRows = <<>>

(* The loop of filterRows: the rows that are to be kept. *)
Filter(rows, keep) ==
    LET after[i \in 0..Len(rows)] ==
          IF i = 0 THEN <<>>
          ELSE IF keep[rows[i]] THEN Append(after[i - 1], rows[i]) ELSE after[i - 1]
    IN after[Len(rows)]

Columns == table.columns
Eval(row, e) == evalExpr(Columns, row, e)

-----------------------------------------------------------------------------
(* Functions of select_handler.go *)

(* The column an ORDER BY position stands for: none behind a *, which is    *)
(* one field without an expression.                                         *)
nthSelectColumn(n) ==
    IF n \in DOMAIN stmt.fields /\ stmt.fields[n].expr # None /\ stmt.fields[n].expr.op = "column"
      THEN stmt.fields[n].expr ELSE None

(* The sort keys: positions are resolved, and passed over if they cannot be. *)
Key(item) == IF item.by.op = "position" THEN nthSelectColumn(item.by.n) ELSE item.by
Keys == {i \in DOMAIN stmt.order : Key(stmt.order[i]) # None}

(* The less function of orderRows: the first key that tells two rows apart  *)
(* by the values they have for it decides.                                  *)
Says(x, y, desc) ==
    IF Panic \in {x, y} THEN "panic"
    ELSE IF compareValues(x, y) = 0 THEN "tie"
    ELSE IF IF desc THEN compareValues(x, y) > 0 ELSE compareValues(x, y) < 0 THEN "less"
    ELSE "not less"
Verdict(a, b) ==
    LET Said(i) == Says(Eval(a, Key(stmt.order[i])), Eval(b, Key(stmt.order[i])), stmt.order[i].desc)
        telling == {i \in Keys : Said(i) # "tie"}
    IN IF telling = {} THEN "not less" ELSE Said(Min(telling))

(* sort.SliceStable: if less orders the rows, they come in that order, and  *)
(* those that tie in the order they had.  If it does not, as over a column  *)
(* of several types or with a "nan", they may come in any.                  *)
Orders(less, rows) ==
    \A a, b \in ToSet(rows) : <<a, b>> \in less =>
      /\ <<b, a>> \notin less
      /\ \A c \in ToSet(rows) : <<a, c>> \in less \/ <<c, b>> \in less
Stable(less, rows, at) ==
    \A i, j \in DOMAIN rows : i < j =>
      /\ <<rows[at[j]], rows[at[i]]>> \notin less
      /\ at[i] > at[j] => <<rows[at[i]], rows[at[j]]>> \in less
Arrangements(rows, less) ==
    LET all == Bijection(DOMAIN rows, DOMAIN rows)
    IN IF Orders(less, rows) THEN {at \in all : Stable(less, rows, at)} ELSE all
SliceStable(rows, less) ==
    {[i \in DOMAIN rows |-> rows[at[i]]] : at \in Arrangements(rows, less)}

(* int(v) of a uint64 *)
literalInt(v) == IF v >= Half THEN v - 2 * Half ELSE v

applyLimit(rows, limit) ==
    LET offset == Max({0, literalInt(limit.offset)})
        n == literalInt(limit.count)
        rest == SubSeq(rows, offset + 1, Len(rows))
    IN IF limit = None THEN rows
       ELSE IF n >= 0 THEN SubSeq(rest, 1, Min({n, Len(rest)})) ELSE rest

(* The list projs: the output columns, with the position of each in the     *)
(* rows, 0 if there is none, or the expression.  A renamed column is looked *)
(* up under its new name.                                                   *)
Read(name, look) == [col |-> name, idx |-> columnIndex(Columns, look), expr |-> None]
Computed(name, e) == [col |-> name, idx |-> 0, expr |-> e]
Projs(f) ==
    CASE f.expr = None ->
           [i \in DOMAIN Columns |-> [col |-> Columns[i], idx |-> i, expr |-> None]]
      [] f.expr # None /\ f.expr.op = "column" ->
           IF f.as # "" THEN <<Read(f.as, f.as)>> ELSE <<Read(f.expr.name, f.expr.name)>>
      [] OTHER -> <<Computed(IF f.as # "" THEN f.as ELSE "?column?", f.expr)>>
Projection ==
    LET after[i \in 0..Len(stmt.fields)] ==
          IF i = 0 THEN <<>> ELSE after[i - 1] \o Projs(stmt.fields[i])
    IN after[Len(stmt.fields)]

\* Mutant: booleans are left as they are.
MutnormalizeValue(v) == v

normalizeValue(v) == IF v[1] = "bool" THEN <<"int", IF v[2] THEN 1 ELSE 0>> ELSE v

Projected(row) ==
    [i \in DOMAIN Projection |->
       LET p == Projection[i]
       IN IF p.idx > 0 THEN normalizeValue(Cell(row, p.idx))
          ELSE IF p.expr # None THEN normalizeValue(Eval(row, p.expr))
          ELSE Nil]

(* BuildSimpleResultset: every value of a type it knows, and the values of  *)
(* a column, but for NULLs, of one type.                                    *)
Builds(rows) ==
    /\ \A i \in DOMAIN rows : \A j \in DOMAIN rows[i] :
         rows[i][j][1] \in {"nil", "int", "float", "text"}
    /\ \A i, k \in DOMAIN rows : \A j \in DOMAIN rows[i] :
         Nil \notin {rows[i][j], rows[k][j]} => rows[i][j][1] = rows[k][j][1]

-----------------------------------------------------------------------------
(* handleSelect *)

Panics == phase' = "panicked" /\ UNCHANGED <<table, stmt, kept, sorted, page, outCols, outRows>>

FilterRows ==
    /\ phase = "filter"
    /\ LET Value(row) == IF stmt.where = None THEN BoolOf(TRUE) ELSE Eval(row, stmt.where)
       IN IF \E i \in DOMAIN table.rows : Value(table.rows[i]) = Panic THEN Panics
          ELSE /\ kept' = Filter(table.rows,
                                 [row \in ToSet(table.rows) |-> triOf(Value(row)) = "true"])
               /\ phase' = "order"
               /\ UNCHANGED <<table, stmt, sorted, page, outCols, outRows>>

(* The pairs of rows for which less answers "less", and those it panics at. *)
(* The sort compares every row with another, but perhaps not every two.     *)
Less(rows) == {p \in ToSet(rows) \X ToSet(rows) : Verdict(p[1], p[2]) = "less"}
Fatal(rows) == {p \in (DOMAIN rows) \X (DOMAIN rows) :
                  p[1] # p[2] /\ Verdict(rows[p[1]], rows[p[2]]) = "panic"}

SortBy(less, fatal) ==
    LET Spared(i) == \E j \in DOMAIN kept \ {i} : <<i, j>> \notin fatal
    IN \/ fatal # {} /\ Panics
       \/ /\ fatal # {} => \A i \in DOMAIN kept : Spared(i)
          /\ sorted' \in SliceStable(kept, less)
          /\ phase' = "limit"
          /\ UNCHANGED <<table, stmt, kept, page, outCols, outRows>>
OrderRows == phase = "order" /\ SortBy(Less(kept), Fatal(kept))

ApplyLimit ==
    /\ phase = "limit" /\ phase' = "project"
    /\ page' = applyLimit(sorted, stmt.limit)
    /\ UNCHANGED <<table, stmt, kept, sorted, outCols, outRows>>

ProjectRows ==
    /\ phase = "project"
    /\ LET result == [i \in DOMAIN page |-> Projected(page[i])]
       IN IF \E i \in DOMAIN result : Panic \in ToSet(result[i]) THEN Panics
          ELSE /\ outCols' = [i \in DOMAIN Projection |-> Projection[i].col]
               /\ outRows' = result /\ phase' = "build"
               /\ UNCHANGED <<table, stmt, kept, sorted, page>>

BuildResult ==
    /\ phase = "build"
    /\ phase' = IF Builds(outRows) THEN "answered" ELSE "refused"
    /\ UNCHANGED <<table, stmt, kept, sorted, page, outCols, outRows>>

Next == FilterRows \/ OrderRows \/ ApplyLimit \/ ProjectRows \/ BuildResult
Spec == Init /\ [][Next]_vars /\ WF_vars(Next)

-----------------------------------------------------------------------------
(* Properties *)

(* Types: whatever is kept, sorted or on the page is a row of the table,    *)
(* and no value leaves that go-mysql has no column type for.                *)
SelectTypeOK ==
    /\ table \in Tables /\ stmt \in Statements
    /\ phase \in {"filter", "order", "limit", "project", "build", "answered", "refused", "panicked"}
    /\ \A rows \in {kept, sorted, page} : ToSet(rows) \subseteq ToSet(table.rows)
    /\ \A i \in DOMAIN outRows : \A j \in DOMAIN outRows[i] :
         /\ Len(outRows[i]) = Len(outCols)
         /\ outRows[i][j][1] # "bool"

(* Tables such as SQL has: full rows, and columns of one type, none a truth *)
(* value and none with texts that read as numbers.                          *)
Full == \A i \in DOMAIN table.rows : Len(table.rows[i]) = Len(Columns)
Typed == \A i, k \in DOMAIN table.rows : \A j \in DOMAIN Columns :
           LET a == table.rows[i][j] b == table.rows[k][j]
           IN Nil \notin {a, b} => a[1] = b[1] /\ a[1] # "nested"
Plain == /\ Full /\ Typed
         /\ \A i \in DOMAIN table.rows : \A j \in DOMAIN Columns :
              LET v == table.rows[i][j]
              IN v[1] # "bool" /\ (IsText(v) => toFloat(v) = {})

(* The conditions another is composed of by AND, OR and NOT, and itself.    *)
ConditionsBy(conditions, e) ==
    {e} \cup CASE e.op \in {"and", "or"} -> conditions[e.l] \cup conditions[e.r]
               [] e.op = "not" -> conditions[e.of]
               [] OTHER -> {}
Conditions(e) == LET conditions[x \in Expr] == ConditionsBy(conditions, x) IN conditions[e]

(* Which WHERE clauses are compared with SQL's: comparisons of columns and  *)
(* constants of one kind, the numbers such as a float64 can hold.  BETWEEN  *)
(* is not where a bound is NULL, nor are IS NULL and <=> over conditions,   *)
(* REGEXP, decimals, and LIKE, for which see SearchesAreSQLs.               *)
Simple(e) == e.op = "column" \/ (e.op = "value" /\ e.v[1] # "decimal")
Held(v) == IsNumber(v) /\ toFloat(v) = {Number(v)}
Kindred(a, b) == \/ Nil \in {a, b}
                 \/ Held(a) /\ Held(b)
                 \/ IsText(a) /\ IsText(b) /\ {} \in {toFloat(a), toFloat(b)}
Compared(value, e) ==
    LET With(x, y) == Simple(x) /\ Simple(y) /\ Kindred(value[x], value[y])
    IN CASE e.op \in {"and", "or", "not"} -> TRUE
         [] e.op \in Relation \cup {"nulleq"} -> With(e.l, e.r)
         [] e.op = "is null" -> Simple(e.of)
         [] e.op = "in" -> \A i \in DOMAIN e.list : With(e.of, e.list[i])
         [] e.op = "between" -> /\ With(e.of, e.lo) /\ With(e.of, e.hi)
                                /\ Nil \notin {value[e.lo], value[e.hi]}
         [] OTHER -> FALSE
Values(row) == [e \in Expr |-> Eval(row, e)]
Comparable(e) ==
    \A i \in DOMAIN table.rows : \A c \in Conditions(e) : Compared(Values(table.rows[i]), c)

SQLTruthOf(row) == IF stmt.where = None THEN "true" ELSE SQLTruth(Columns, row, stmt.where)

(* filterRows never loses a row for which SQL's WHERE is true, and never    *)
(* keeps one for which it is false, however AND, OR and NOT are nested.     *)
(* (For the rows where it is unknown see OnlyTrueRowsAreKept.)              *)
DecisionsStand ==
    phase = "order" /\ Plain /\ stmt.where # None /\ Comparable(stmt.where) =>
      LET wanted == [row \in ToSet(table.rows) |-> SQLTruthOf(row) = "true"]
      IN /\ Filter(kept, wanted) = Filter(table.rows, wanted)
         /\ \A i \in DOMAIN kept : SQLTruthOf(kept[i]) # "false"

(* WHERE clauses that NULLs do not tell from SQL's: no AND, and no NOT      *)
(* under a NOT.                                                             *)
Exact(e) == /\ Comparable(e)
            /\ \A c \in Conditions(e) :
                 /\ c.op # "and"
                 /\ c.op = "not" => \A d \in Conditions(c.of) : d.op # "not"

(* The page is SQL's: its rows are those for which WHERE is true and that   *)
(* as many such rows as OFFSET says, and fewer than OFFSET and LIMIT say,   *)
(* come before, in that order.  Rows that tie keep the order of the table.  *)
(* A position is that of a selected column; positions in the list a * stands*)
(* for are passed over by the code, as nthSelectColumn's comment does not   *)
(* say, and are left out here.                                              *)
Selected(by) == /\ by.op = "position" /\ by.n \in DOMAIN stmt.fields
                /\ \A i \in 1..by.n : stmt.fields[i].expr # None
                /\ stmt.fields[by.n].expr.op = "column"
Meant(by) == IF by.op = "position" THEN stmt.fields[by.n].expr ELSE by
SQLOrder(a, b) == IF Nil \in {a, b} THEN Sign(b # Nil, a # Nil) ELSE SQLCompare(a, b)
SQLFirst(p, q) ==
    LET Of(n, i) == Eval(table.rows[n], Meant(stmt.order[i].by))
        Cmp(i) == SQLOrder(Of(p, i), Of(q, i))
    IN \/ \E i \in DOMAIN stmt.order :
            /\ \A j \in 1..i - 1 : Cmp(j) = 0
            /\ Cmp(i) = IF stmt.order[i].desc THEN 1 ELSE -1
       \/ p < q /\ \A i \in DOMAIN stmt.order : Cmp(i) = 0
SQLRows == {p \in DOMAIN table.rows : SQLTruthOf(table.rows[p]) = "true"}
Ranks(rows) == [p \in rows |-> Cardinality({q \in rows : SQLFirst(q, p)})]
IsPage(rank, from) ==
    LET onPage == {p \in DOMAIN rank :
                     /\ rank[p] >= from
                     /\ stmt.limit # None => rank[p] < from + stmt.limit.count}
    IN /\ Len(page) = Cardinality(onPage)
       /\ \A p \in onPage : page[rank[p] - from + 1] = table.rows[p]
PageIsSQLs ==
    /\ phase = "project" /\ Plain
    /\ stmt.where = None \/ Exact(stmt.where)
    /\ \A i \in DOMAIN stmt.order :
         stmt.order[i].by.op = "column" \/ Selected(stmt.order[i].by)
    /\ stmt.limit # None => stmt.limit.offset < Half
    => IsPage(Ranks(SQLRows), IF stmt.limit = None THEN 0 ELSE stmt.limit.offset)

(* A SELECT of a table with full rows never brings the server down, and if  *)
(* its columns are of one type each it is answered, unless a field's value  *)
(* is a decimal: the values computed over the rows are of one type too.     *)
Decimal(e) == \E i \in DOMAIN table.rows : Eval(table.rows[i], e)[1] = "decimal"
FullTablesAreAnswered ==
    /\ Full => phase # "panicked"
    /\ Full /\ Typed /\ (\A i \in DOMAIN stmt.fields :
                            LET e == stmt.fields[i].expr IN e # None => ~Decimal(e))
         => phase # "refused"

(* evalExpr's comment: "returning a value any (nil for SQL NULL / unknown)".*)
(* A row is kept only if WHERE is true for it.                              *)
OnlyTrueRowsAreKept ==
    phase = "order" /\ Plain /\ stmt.where # None /\ Comparable(stmt.where) =>
      \A i \in DOMAIN kept : SQLTruthOf(kept[i]) = "true"

(* likeToRegexp anchors nothing, goes byte by byte and has dots that match  *)
(* no newline.  Where that makes no difference, a search for a pattern      *)
(* between two % that is all of one-byte letters and has no escapes, a LIKE *)
(* or NOT LIKE keeps the rows it keeps in SQL.                              *)
Searches(e) ==
    /\ e.op = "like" /\ e.of.op = "column" /\ e.pattern.op = "value" /\ IsText(e.pattern.v)
    /\ LET p == Runes(e.pattern.v[2])
       IN /\ Bytes(e.pattern.v[2]) = p /\ Backslash \notin ToSet(p)
          /\ p # <<>> /\ p[1] = Percent /\ p[Len(p)] = Percent
    /\ \A i \in DOMAIN table.rows :
         LET v == Eval(table.rows[i], e.of)
         IN v = Nil \/ (IsText(v) /\ Newline \notin ToSet(Runes(v[2])))
SearchesAreSQLs ==
    phase = "order" /\ Plain /\ stmt.where # None /\ Searches(stmt.where) =>
      kept = Filter(table.rows, [row \in ToSet(table.rows) |-> SQLTruthOf(row) = "true"])
=============================================================================
