---------------------------- MODULE SharedParser ----------------------------
(***************************************************************************)
(* The one TiDB parser all connections share (select_handler.go:46-57).     *)
(* Every handler that parses runs                                           *)
(*                                                                         *)
(*     selectParserMu.Lock()                                                *)
(*     stmt, err := getSelectParser().ParseOneStmt(query, "", "")           *)
(*     selectParserMu.Unlock()                                              *)
(*                                                                         *)
(* A parser is not safe for two goroutines: ParseOneStmt puts the text in   *)
(* the parser's own lexer, leaves the statements in the parser's own result *)
(* slice and then takes the first one, three steps the mutex has to keep    *)
(* together.                                                                *)
(***************************************************************************)
EXTENDS ParserService

VARIABLES
    at,     \* where a goroutine is in the three lines above
    mu,     \* selectParserMu: its holder, or Nothing
    built,  \* selectParserVal has been assigned (selectParserOnce)
    lexer,  \* the parser's lexer: the text it reads
    result  \* the parser's result slice: the tree last built

parserVars == <<text, tree, at, mu, built, lexer, result>>

Critical == {"once", "reset", "parse", "take", "unlock"}

(* Type correctness of the goroutines, the mutex and the parser.            *)
ParserTypeOK ==
    /\ text \in [Goroutine -> Text \cup {Nothing}]
    /\ tree \in [Goroutine -> Tree \cup {Nothing}]
    /\ at \in [Goroutine -> {"away", "lock"} \cup Critical]
    /\ mu \in Goroutine \cup {Nothing}
    /\ built \in BOOLEAN
    /\ lexer \in Text \cup {Nothing}
    /\ result \in Tree \cup {Nothing}

ParserInit ==
    /\ ServiceInit
    /\ at = [g \in Goroutine |-> "away"]
    /\ mu = Nothing /\ built = FALSE /\ lexer = Nothing /\ result = Nothing

Goes(g, from, to) == at[g] = from /\ at' = [at EXCEPT ![g] = to]

(* A handler has a statement to parse. *)
Ask(g, q) ==
    /\ Goes(g, "away", "lock")
    /\ text' = [text EXCEPT ![g] = q]
    /\ tree' = [tree EXCEPT ![g] = Nothing]
    /\ UNCHANGED <<mu, built, lexer, result>>

\* Mutant: the Lock forgotten in a handler.
MutLock(g) ==
    /\ Goes(g, "lock", "once")
    /\ mu' = g
    /\ UNCHANGED <<text, tree, built, lexer, result>>

(* selectParserMu.Lock() *)
Lock(g) ==
    /\ Goes(g, "lock", "once")
    /\ mu = Nothing /\ mu' = g
    /\ UNCHANGED <<text, tree, built, lexer, result>>

(* getSelectParser(): the first call builds the parser. *)
GetSelectParser(g) ==
    /\ Goes(g, "once", "reset")
    /\ IF built THEN UNCHANGED <<built, lexer, result>>
       ELSE built' = TRUE /\ lexer' = Nothing /\ result' = Nothing
    /\ UNCHANGED <<text, tree, mu>>

(* ParseOneStmt: the lexer is reset to the text, *)
ResetLexer(g) ==
    /\ Goes(g, "reset", "parse") /\ built
    /\ lexer' = text[g]
    /\ UNCHANGED <<text, tree, mu, built, result>>

\* Mutant: the result slice keeps the statement of an earlier call.
MutRunParser(g) ==
    /\ Goes(g, "parse", "take")
    /\ result' = IF result = Nothing THEN ParseOf[lexer] ELSE result
    /\ UNCHANGED <<text, tree, mu, built, lexer>>

(* ... the grammar is run over it, *)
RunParser(g) ==
    /\ Goes(g, "parse", "take")
    /\ result' = ParseOf[lexer]
    /\ UNCHANGED <<text, tree, mu, built, lexer>>

\* Mutant: the caller is handed the lexer's text.
MutTakeStatement(g) ==
    /\ Goes(g, "take", "unlock")
    /\ tree' = [tree EXCEPT ![g] = lexer]
    /\ UNCHANGED <<text, mu, built, lexer, result>>

(* ... and the first statement, or the error, is returned. *)
TakeStatement(g) ==
    /\ Goes(g, "take", "unlock")
    /\ tree' = [tree EXCEPT ![g] = result]
    /\ UNCHANGED <<text, mu, built, lexer, result>>

(* selectParserMu.Unlock(), before err is looked at. *)
Unlock(g) ==
    /\ Goes(g, "unlock", "away")
    /\ mu' = Nothing
    /\ UNCHANGED <<text, tree, built, lexer, result>>

Holding(g) == GetSelectParser(g) \/ ResetLexer(g) \/ RunParser(g) \/ TakeStatement(g) \/ Unlock(g)

ParserNext ==
    \E g \in Goroutine : (\E q \in Text : Ask(g, q)) \/ Lock(g) \/ Holding(g)

(* A running goroutine is scheduled, and a waiting one is not passed over   *)
(* for ever: sync.Mutex hands itself to the longest waiter once that has    *)
(* waited a millisecond (its starvation mode), hence strong fairness.       *)
ParserFairness ==
    \A g \in Goroutine : WF_parserVars(Holding(g)) /\ SF_parserVars(Lock(g))

ParserSpec == ParserInit /\ [][ParserNext]_parserVars /\ ParserFairness

-----------------------------------------------------------------------------
(* Properties *)

(* No two goroutines are between Lock and Unlock. *)
MutualExclusion ==
    \A g, h \in Goroutine : at[g] \in Critical /\ at[h] \in Critical => g = h

(* Each handler gets the tree of its own text, in the end, and no other     *)
(* goroutine's: the shared parser implements the service.                   *)
Service == INSTANCE ParserService
ImplementsService == Service!ServiceSpec

(* The same without the liveness, which is what TLAPS proves.               *)
ImplementsServiceSafely == Service!ServiceSafety
=============================================================================
