----------------------------- MODULE ServerIntake -----------------------------
(****************************************************************************)
(* The way of a datagram into the server: the listener appends it to the    *)
(* ring (TaskQueue), the queue manager pops and parses it, goes through the *)
(* worker constraints, starts a thread for it (WorkerPool) and only then    *)
(* comes back to q_pop.  Every step of a part is a step of the whole; the   *)
(* manager's two sets of steps take turns.                                  *)
(****************************************************************************)
EXTENDS TaskQueue, WorkerPool

intakeVars == <<vars, poolVars>>

IntakeInit == Init /\ PoolInit

-----------------------------------------------------------------------------
\* The listener waits for nothing but room in the ring.
ListenerReceives == UNCHANGED poolVars /\ \E m \in Message : Receive(m)
ListenerAppends == UNCHANGED poolVars /\ AppendTask
ListenerWaits == UNCHANGED poolVars /\ AppendWait

\* q_pop, from which the manager returns with tokens of the popped slot.
ManagerPops == UNCHANGED poolVars /\ manager = "pop" /\ PopTask
ManagerWaits == UNCHANGED poolVars /\ manager = "pop" /\ PopWait

\* command_handler reads the tokens and the manager goes on to the dispatch.
ManagerParses == Parse /\ PopCommand

\* Check-in, start of a thread and check-out, while the listener appends.
Dispatch ==
  /\ WorkerThreadCheckin \/ Spawn \/ WorkerThreadCheckout
  /\ UNCHANGED vars

WorkerFinishes == Finish /\ UNCHANGED vars
WaitsReturn == SpuriousWakeup /\ UNCHANGED poolVars

IntakeNext ==
  \/ ListenerReceives \/ ListenerAppends \/ ListenerWaits
  \/ ManagerPops \/ ManagerWaits \/ ManagerParses
  \/ Dispatch \/ WorkerFinishes
  \/ WaitsReturn

IntakeSpec == IntakeInit /\ [][IntakeNext]_intakeVars

\* Both threads run for ever and hold a lock only for a bounded time, so each is
\* scheduled again and again.  The network need never send another datagram, no
\* wait need return without a signal, and no worker need ever finish: handlers
\* may block for good (SayCompletes in WorkerLocking).
IntakeFairness ==
  /\ WF_intakeVars(ListenerAppends)
  /\ WF_intakeVars(ManagerPops)
  /\ WF_intakeVars(ManagerParses)
  /\ WF_intakeVars(Dispatch)

FairIntakeSpec == IntakeSpec /\ IntakeFairness

-----------------------------------------------------------------------------
(****************************************************************************)
(* Properties, besides those of the parts.                                  *)
(****************************************************************************)

\* Every request in the ring gets to the end of its dispatch, whatever the
\* listener does meanwhile and although no worker need finish: the signal of
\* q_append (queue.h 79) and the constraints of server_types.h 282-296 together.
QueuedIsDispatched ==
  \A i \in Slot : (i \in Live) ~> (manager = "checkout" /\ out = i)

\* A listener blocked on a full ring gets its datagram in eventually: the manager
\* comes back to q_pop, which signals nonfull (queue.h 103).
AppendCompletes == (listenerPc # "recv") ~> (listenerPc = "recv")
=============================================================================
