------------------------------ MODULE TaskQueue ------------------------------
(****************************************************************************)
(* The bounded ring of queue.h together with its two users.  Server and     *)
(* client both run exactly one listener thread (listener, cli_listener),    *)
(* which appends what it reads from the socket, and one manager thread      *)
(* (queue_manager, cli_queue_manager), which pops and parses.               *)
(*                                                                          *)
(* q_append and q_pop hold q->lock throughout, so the part of each that     *)
(* runs between two waits is one step.  q_pop does not copy the message: it *)
(* tokenises the slot in place and returns pointers into it.  The manager   *)
(* follows those pointers only after the lock is released, in a step of its *)
(* own (Parse), while the listener may already append again.                *)
(****************************************************************************)
EXTENDS Integers, Sequences

CONSTANTS QUEUE_MAX,  \* number of slots of the ring (256 in the code)
          Text,       \* the texts of datagrams, told apart only by identity
          Addr,       \* sender addresses; one dummy value on the client side
          None        \* no message, no slot

ASSUME QueueAssumption ==
  /\ QUEUE_MAX \in Nat \ {0, 1}
  /\ None \notin Nat
  /\ None \notin [msg : Text, from : Addr]

VARIABLES data,       \* the slots
          head,       \* index of the oldest message
          tail,       \* index of the slot the next message goes to
          size,       \* q->size, kept by the code and never read by it
          listenerPc, \* "recv": in recvfrom, "append": in q_append,
                      \* "asleep": waiting on nonfull
          request,    \* the message the listener holds
          managerPc,  \* "pop": in q_pop, "asleep": waiting on nonempty,
                      \* "tokens": q_pop returned, its tokens are being read
          out,        \* the slot that the manager's token pointers point into
          sender,     \* the address q_pop copied out
          parsed      \* what the manager read through its token pointers last

ringVars == <<data, head, tail, size>>
listenerVars == <<listenerPc, request>>
managerVars == <<managerPc, out, sender, parsed>>
vars == <<data, head, tail, size, listenerPc, request,
          managerPc, out, sender, parsed>>

Message == [msg : Text, from : Addr]
Slot == 0 .. QUEUE_MAX - 1
SlotContent == [msg : Text, from : Addr, tokenised : BOOLEAN]

\* queue.h 61, 76, 100: the ring's successor of a slot.
Succ(i) == (i + 1) % QUEUE_MAX

\* The test of the nonfull loop: one slot is always left unused.
Full_LastSlotToo == size = QUEUE_MAX
Full == Succ(tail) = head

\* The test of the nonempty loop.
Empty == head = tail

TypeOK ==
  /\ data \in [Slot -> SlotContent \cup {None}]
  /\ head \in Slot
  /\ tail \in Slot
  /\ size \in 0 .. QUEUE_MAX - 1
  /\ listenerPc \in {"recv", "append", "asleep"}
  /\ request \in Message \cup {None}
  /\ listenerPc # "recv" => request \in Message
  /\ managerPc \in {"pop", "asleep", "tokens"}
  /\ out \in Slot \cup {None}
  /\ sender \in Addr \cup {None}
  /\ parsed \in Message \cup {None}

(****************************************************************************)
(* queue_init; the slots hold nothing a pop could return.                   *)
(****************************************************************************)
Init ==
  /\ data = [i \in Slot |-> None]
  /\ head = 0 /\ tail = 0 /\ size = 0
  /\ listenerPc = "recv" /\ request = None
  /\ managerPc = "pop" /\ out = None /\ sender = None /\ parsed = None

-----------------------------------------------------------------------------
(****************************************************************************)
(* The listener thread.                                                     *)
(****************************************************************************)

\* recvfrom returned a datagram; a failed read only loops.
Receive(m) ==
  /\ listenerPc = "recv"
  /\ request' = m
  /\ listenerPc' = "append"
  /\ UNCHANGED <<ringVars, managerVars>>

\* pthread_cond_signal on a condition only the other thread waits for.
SignalNonempty == managerPc' = IF managerPc = "asleep" THEN "pop" ELSE managerPc
SignalNonfull == listenerPc' = IF listenerPc = "asleep" THEN "append" ELSE listenerPc

\* q_append finds the ring full and sleeps.
AppendWait ==
  /\ listenerPc = "append"
  /\ Full
  /\ listenerPc' = "asleep"
  /\ UNCHANGED <<ringVars, request, managerVars>>

\* q_append finds room: it fills the slot at tail, advances and signals.
FillSlot ==
  /\ data' = [data EXCEPT ![tail] = [msg |-> request.msg, from |-> request.from,
                                     tokenised |-> FALSE]]
  /\ size' = size + 1
  /\ listenerPc' = "recv"
  /\ UNCHANGED <<head, request, out, sender, parsed>>

Append_NoSignal ==
  /\ listenerPc = "append"
  /\ ~Full
  /\ FillSlot
  /\ tail' = Succ(tail)
  /\ UNCHANGED managerPc
AppendTask ==
  /\ listenerPc = "append"
  /\ ~Full
  /\ FillSlot
  /\ tail' = Succ(tail)
  /\ SignalNonempty

-----------------------------------------------------------------------------
(****************************************************************************)
(* The manager thread.                                                      *)
(****************************************************************************)

\* q_pop finds the ring empty and sleeps.
PopWait ==
  /\ managerPc = "pop"
  /\ Empty
  /\ managerPc' = "asleep"
  /\ UNCHANGED <<ringVars, listenerVars, out, sender, parsed>>

\* q_pop finds a message: it tokenises it in its slot, copies the sender,
\* advances and signals.  The tokens stay in the slot.
TakeSlot ==
  /\ data' = [data EXCEPT ![head].tokenised = TRUE]
  /\ out' = head
  /\ sender' = data[head].from
  /\ managerPc' = "tokens"
  /\ UNCHANGED <<tail, request, parsed>>

PopTask_NoSignal ==
  /\ managerPc = "pop"
  /\ ~Empty
  /\ TakeSlot
  /\ head' = Succ(head)
  /\ size' = size - 1
  /\ UNCHANGED listenerPc
PopTask_KeepsSize ==
  /\ managerPc = "pop"
  /\ ~Empty
  /\ TakeSlot
  /\ head' = Succ(head)
  /\ SignalNonfull
  /\ UNCHANGED size
PopTask ==
  /\ managerPc = "pop"
  /\ ~Empty
  /\ TakeSlot
  /\ head' = Succ(head)
  /\ size' = size - 1
  /\ SignalNonfull

\* command_handler (server) or the copying loop (client) reads the tokens,
\* without the lock; the thread then goes back to q_pop.
Parse ==
  /\ managerPc = "tokens"
  /\ parsed' = [msg |-> data[out].msg, from |-> sender]
  /\ managerPc' = "pop"
  /\ UNCHANGED <<ringVars, listenerVars, out, sender>>

-----------------------------------------------------------------------------
\* pthread_cond_wait may return without a signal.
SpuriousWakeup ==
  /\ UNCHANGED <<ringVars, request, out, sender, parsed>>
  /\ \/ /\ listenerPc = "asleep" /\ listenerPc' = "append"
        /\ UNCHANGED managerPc
     \/ /\ managerPc = "asleep" /\ managerPc' = "pop"
        /\ UNCHANGED listenerPc

Next ==
  \/ \E m \in Message : Receive(m)
  \/ AppendWait \/ AppendTask
  \/ PopWait \/ PopTask \/ Parse
  \/ SpuriousWakeup

Spec == Init /\ [][Next]_vars

-----------------------------------------------------------------------------
(****************************************************************************)
(* Properties.                                                              *)
(****************************************************************************)

\* The number of messages in the ring, computed from its two indices.
Count == IF head <= tail THEN tail - head ELSE tail - head + QUEUE_MAX

\* The slots from head up to, not including, tail.
Live == IF head <= tail THEN head .. tail - 1
                        ELSE (head .. QUEUE_MAX - 1) \cup (0 .. tail - 1)

\* Every queued slot holds a message that strtok has not cut up yet, and the
\* redundant counter q->size agrees with the indices the waits are based on
\* (q_append and q_pop, lines 58-105).
RingConsistent ==
  /\ size = Count
  /\ \A i \in Live : data[i] \in SlotContent /\ ~data[i].tokenised

\* Nobody sleeps through a signal: the manager sleeps only while the ring is
\* empty, the listener only while it is full (the wait loops at lines 61 and
\* 87, the signals at lines 79 and 103).
NoLostWakeup ==
  /\ managerPc = "asleep" => Empty
  /\ listenerPc = "asleep" => Full

\* The slot whose tokens the manager reads is the one just behind head, the one
\* that Full keeps free of appends (q_pop, lines 91-100, against line 61).
BorrowedSlotBehindHead ==
  managerPc = "tokens" =>
    /\ out \in Slot
    /\ head = Succ(out)
    /\ data[out] \in SlotContent
    /\ sender = data[out].from

\* While the manager reads tokens out of the slot it popped, without the lock,
\* no append touches that slot: the case client_interface.c 371 worries about.
BorrowedSlotStable ==
  [][managerPc = "tokens" => data'[out] = data[out]]_vars

\* The ring implements the channel that its users need.
SlotOf(k) == (head + k - 1) % QUEUE_MAX
QueuedMessage(k) == [msg |-> data[SlotOf(k)].msg, from |-> data[SlotOf(k)].from]
Queued == [k \in 1 .. Count |-> QueuedMessage(k)]
InHand == IF managerPc = "tokens" THEN [msg |-> data[out].msg, from |-> sender]
                                  ELSE None
Fifo == INSTANCE BoundedFifo WITH Capacity <- QUEUE_MAX - 1, fifo <- Queued,
                                  hand <- InHand, delivered <- parsed
ImplementsFifo == Fifo!Spec
=============================================================================
