------------------------- MODULE MCConnectionManager -------------------------
(****************************************************************************)
(* TLC instances of ConnectionManager: one client on the list, which may    *)
(* rename itself, and one more node, for another client that joins and may  *)
(* leave, or for the first one's return, before or after its removal.  The  *)
(* other may take the name that the first one has given up.                 *)
(****************************************************************************)
EXTENDS ConnectionManager, TLC

CONSTANTS a1, a2, n1, n2, n3

MCAddr == {a1, a2}
MCName == {n1, n2, n3}
MCClients == <<[addr |-> a1, name |-> n1]>>

Sends(kind, from, arg) == [kind |-> kind, from |-> from, arg |-> arg]
MCCommand ==
  {Sends("conn", a1, n1), Sends("rename", a1, n3), Sends("other", a1, NoName),
   Sends("conn", a2, n1), Sends("conn", a2, n2), Sends("disconn", a2, NoName),
   Sends("other", a2, NoName)}
=============================================================================
