---------------------------- MODULE MCSharedParser ----------------------------
(***************************************************************************)
(* Three goroutines; two texts that parse to their trees and one that     *)
(* does not parse.                                                          *)
(***************************************************************************)
EXTENDS SharedParser

CONSTANTS g1, g2, g3, q1, q2, bad, tree1, tree2, syntaxError

MCParseOf ==
    [q \in Text |-> CASE q = q1 -> tree1 [] q = q2 -> tree2 [] OTHER -> syntaxError]
=============================================================================
