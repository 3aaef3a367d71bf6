------------------------- MODULE SharedParserProofs -------------------------
(***************************************************************************)
(* Proofs about SharedParser, for any goroutines, texts and grammar.        *)
(***************************************************************************)
EXTENDS SharedParser, TLAPS

(* Who is between Lock and Unlock holds the mutex, and what he has left in  *)
(* the parser is still there.                                               *)
ParserState ==
    \A g \in Goroutine :
      /\ at[g] \in Critical => mu = g
      /\ at[g] # "away" => text[g] \in Text
      /\ at[g] \in {"lock", "once", "reset", "parse", "take"} => tree[g] = Nothing
      /\ at[g] \in {"away", "unlock"} /\ text[g] # Nothing => tree[g] # Nothing
      /\ at[g] = "parse" => lexer = text[g]
      /\ at[g] = "take" => result = ParseOf[text[g]]

ParserInv == ParserTypeOK /\ ParserState

LEMMA ParserInvInit == ParserInit => ParserInv
  BY ParseOfAssumption
  DEF ParserInit, ServiceInit, ParserInv, ParserTypeOK, ParserState, Critical

LEMMA ParserInvNext == ParserInv /\ [ParserNext]_parserVars => ParserInv'
<1> SUFFICES ASSUME ParserInv, [ParserNext]_parserVars
             PROVE  ParserInv'
  OBVIOUS
<1> USE ParseOfAssumption DEF ParserInv, ParserTypeOK, ParserState, Critical, Goes
<1>1. ASSUME NEW g \in Goroutine, NEW q \in Text, Ask(g, q)
      PROVE  ParserInv'
  BY <1>1 DEF Ask
<1>2. ASSUME NEW g \in Goroutine, Lock(g)
      PROVE  ParserInv'
  BY <1>2 DEF Lock
<1>3. ASSUME NEW g \in Goroutine, GetSelectParser(g)
      PROVE  ParserInv'
  BY <1>3 DEF GetSelectParser
<1>4. ASSUME NEW g \in Goroutine, ResetLexer(g)
      PROVE  ParserInv'
  BY <1>4 DEF ResetLexer
<1>5. ASSUME NEW g \in Goroutine, RunParser(g)
      PROVE  ParserInv'
  BY <1>5 DEF RunParser
<1>6. ASSUME NEW g \in Goroutine, TakeStatement(g)
      PROVE  ParserInv'
  BY <1>6 DEF TakeStatement
<1>7. ASSUME NEW g \in Goroutine, Unlock(g)
      PROVE  ParserInv'
  BY <1>7 DEF Unlock
<1>8. CASE UNCHANGED parserVars
  BY <1>8 DEF parserVars
<1>9. QED
  BY <1>1, <1>2, <1>3, <1>4, <1>5, <1>6, <1>7, <1>8 DEF ParserNext, Holding

(* The goroutines, the mutex and the parser keep their types, and what a    *)
(* goroutine between Lock and Unlock left in the parser stays there.        *)
THEOREM ParserInvariance == ParserSpec => []ParserInv
  BY ParserInvInit, ParserInvNext, PTL DEF ParserSpec

(* The type invariant, of which the theorems below use every conjunct: the  *)
(* goroutine, the lexer and the result each hold only what the handlers put *)
(* there (select_handler.go:21-27, 68-70).                                  *)
THEOREM ParserTypeCorrect == ParserSpec => []ParserTypeOK
<1>1. ParserInv => ParserTypeOK
  BY DEF ParserInv
<1>2. QED
  BY <1>1, ParserInvariance, PTL

(* No two goroutines use the shared parser at once (select_handler.go:68-70 *)
(* and every other Lock ... Unlock): the mutex excludes them.               *)
THEOREM ParserMutualExclusion == ParserSpec => []MutualExclusion
<1>1. ParserInv => MutualExclusion
  BY DEF ParserInv, ParserState, MutualExclusion
<1>2. QED
  BY <1>1, ParserInvariance, PTL

LEMMA ParserStepImplements ==
  ParserInv /\ [ParserNext]_parserVars => [Service!ServiceNext]_(Service!serviceVars)
<1> SUFFICES ASSUME ParserInv, [ParserNext]_parserVars
             PROVE  [Service!ServiceNext]_(Service!serviceVars)
  OBVIOUS
<1> USE DEF Service!ServiceNext, Service!serviceVars
<1>1. ASSUME NEW g \in Goroutine, NEW q \in Text, Ask(g, q)
      PROVE  Service!HandIn(g, q)
  BY <1>1 DEF Ask, Goes, ParserInv, ParserState, Service!HandIn, Service!Waiting
<1>2. ASSUME NEW g \in Goroutine, TakeStatement(g)
      PROVE  Service!Serve(g)
  <2>1. text[g] # Nothing /\ tree[g] = Nothing /\ result = ParseOf[text[g]]
    BY <1>2, ParseOfAssumption DEF TakeStatement, Goes, ParserInv, ParserState
  <2>2. QED
    BY <1>2, <2>1 DEF TakeStatement, Service!Serve, Service!Waiting
<1>3. ASSUME NEW g \in Goroutine,
             Lock(g) \/ GetSelectParser(g) \/ ResetLexer(g) \/ RunParser(g) \/ Unlock(g)
      PROVE  UNCHANGED <<text, tree>>
  BY <1>3 DEF Lock, GetSelectParser, ResetLexer, RunParser, Unlock
<1>4. CASE UNCHANGED parserVars
  BY <1>4 DEF parserVars
<1>5. QED
  BY <1>1, <1>2, <1>3, <1>4 DEF ParserNext, Holding

(* Parsing through the shared parser is parsing in one step: every behaviour *)
(* of the three lines is one of the service, so a handler gets the tree of   *)
(* its own text and the handlers may be modelled with an atomic parse.       *)
THEOREM ParserImplementsService == ParserSpec => ImplementsServiceSafely
<1>1. ParserInit => Service!ServiceInit
  BY DEF ParserInit, ServiceInit, Service!ServiceInit
<1>2. QED
  BY <1>1, ParserStepImplements, ParserInvariance, PTL
  DEF ParserSpec, ImplementsServiceSafely, Service!ServiceSafety
=============================================================================
