--------------------------- MODULE MCCommandWorkers ---------------------------
(****************************************************************************)
(* TLC instances of CommandWorkers: two clients on the list and one that    *)
(* may join, each with names of its own.                                    *)
(****************************************************************************)
EXTENDS CommandWorkers, TLC

CONSTANTS a1, a2, a3, n1, n2, n3, n4

MCAddr == {a1, a2, a3}
MCName == {n1, n2, n3, n4}
MCDistinctNames == (a1 :> {n1}) @@ (a2 :> {n2, n4}) @@ (a3 :> {n3})

MCTwoClients == <<[addr |-> a1, name |-> n1], [addr |-> a2, name |-> n2]>>

\* The fewest commands that show a freed node in use.
MCSayingKinds == {"disconn", "say"}
=============================================================================
