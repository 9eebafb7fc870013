--------------------------- MODULE MCWorkerLocking ---------------------------
(****************************************************************************)
(* TLC instances of WorkerLocking.  MCRoleMix puts a handler that reads     *)
(* twice, one that only writes, one that reads and then writes and one that *)
(* does all three in the monitor at once, so writers and readers wait for   *)
(* each other in every order; MCRolePair is the smallest pair of handlers   *)
(* in which one thread has to wait.                                         *)
(****************************************************************************)
EXTENDS WorkerLocking, TLC

CONSTANTS w1, w2, w3, w4

MCThreadMix == {w1, w2, w3, w4}
MCRoleMix == (w1 :> "say") @@ (w2 :> "conn") @@ (w3 :> "disconn") @@ (w4 :> "kick")

MCThreadPair == {w1, w2}
MCRolePair == (w1 :> "say") @@ (w2 :> "conn")
=============================================================================
