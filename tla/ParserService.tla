---------------------------- MODULE ParserService ----------------------------
(***************************************************************************)
(* What the handlers expect of parsing: a goroutine hands in the text of    *)
(* its statement and gets the syntax tree of that text, or the parser's     *)
(* error, in one step and whatever the other goroutines are parsing.  The   *)
(* handler actions of BlackHoleServer take this for granted.                *)
(***************************************************************************)
CONSTANTS
    Goroutine,  \* the goroutines that serve connections
    Text,       \* statement texts
    Tree,       \* syntax trees, and the parser's error
    ParseOf,    \* what the TiDB parser makes of a text
    Nothing     \* no text, no tree, nobody

ASSUME ParseOfAssumption ==
    /\ ParseOf \in [Text -> Tree]
    /\ Nothing \notin Text \cup Tree \cup Goroutine

VARIABLES
    text,  \* the statement a goroutine handed in
    tree   \* what it was given

serviceVars == <<text, tree>>

ServiceInit ==
    /\ text = [g \in Goroutine |-> Nothing]
    /\ tree = [g \in Goroutine |-> Nothing]

Waiting(g) == text[g] # Nothing /\ tree[g] = Nothing

HandIn(g, q) ==
    /\ ~Waiting(g)
    /\ text' = [text EXCEPT ![g] = q]
    /\ tree' = [tree EXCEPT ![g] = Nothing]

Serve(g) ==
    /\ Waiting(g)
    /\ tree' = [tree EXCEPT ![g] = ParseOf[text[g]]]
    /\ UNCHANGED text

ServiceNext == \E g \in Goroutine : Serve(g) \/ \E q \in Text : HandIn(g, q)

ServiceSafety == ServiceInit /\ [][ServiceNext]_serviceVars
ServiceSpec == ServiceSafety /\ \A g \in Goroutine : WF_serviceVars(Serve(g))
=============================================================================
