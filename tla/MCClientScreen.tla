--------------------------- MODULE MCClientScreen ---------------------------
(****************************************************************************)
(* TLC instances of ClientScreen: users whose names fall into one bucket.   *)
(****************************************************************************)
EXTENDS ClientScreen, TLC

CONSTANTS u1, u2, t1, t2

MCKey == {u1, u2}
MCText == {t1, t2}
MCSender == (t1 :> u1 @@ t2 :> u2)
MCHash == [k \in MCKey |-> 0]
=============================================================================
