----------------------------- MODULE BoundedFifo -----------------------------
(****************************************************************************)
(* What queue.h promises its two users, a listener that appends messages    *)
(* and a manager that takes them: a first-in first-out channel of at most   *)
(* Capacity messages, in which a message that was taken stays intact in the *)
(* manager's hand until the manager has read it.                            *)
(****************************************************************************)
EXTENDS Integers, Sequences

CONSTANTS Message,    \* what can be queued
          Capacity,   \* how many messages the channel holds
          None        \* no message

VARIABLES fifo,       \* messages appended and not yet taken, oldest first
          hand,       \* the message taken by the manager and not yet read
          delivered   \* the message the manager read last

fifoVars == <<fifo, hand, delivered>>

Init == /\ fifo = <<>>
        /\ hand = None
        /\ delivered = None

Put(m) == /\ Len(fifo) < Capacity
          /\ fifo' = Append(fifo, m)
          /\ UNCHANGED <<hand, delivered>>

Take == /\ fifo # <<>>
        /\ hand = None
        /\ hand' = Head(fifo)
        /\ fifo' = Tail(fifo)
        /\ UNCHANGED delivered

Read == /\ hand # None
        /\ delivered' = hand
        /\ hand' = None
        /\ UNCHANGED fifo

Next == (\E m \in Message : Put(m)) \/ Take \/ Read

Spec == Init /\ [][Next]_fifoVars
=============================================================================
