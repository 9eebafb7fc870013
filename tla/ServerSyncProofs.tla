---------------------------- MODULE ServerSyncProofs ----------------------------
(****************************************************************************)
(* Proofs about the three places where threads of the server wait for one   *)
(* another, for every number of slots above one, every set of texts,        *)
(* addresses and threads, and whatever MAX_THREADS is.                      *)
(*                                                                          *)
(* First the ring of queue.h: its inductive invariant IInv adds to the      *)
(* checked invariants that the slot the manager still reads lies just       *)
(* behind head; from it follows that no append can reach that slot.  Then   *)
(* the worker constraints.  Then the composition: each step of the intake   *)
(* is a step or a stutter of the ring and of the worker pool, so that what  *)
(* is proved of the parts holds in the composed server.                     *)
(*                                                                          *)
(* Last Monitor_t.  Its invariant is the conjunction of the four that TLC   *)
(* checks: the wait loops test counters, so MutualExclusion is inductive    *)
(* only together with CountersExact, which ties each counter to the threads *)
(* it stands for.                                                           *)
(****************************************************************************)
EXTENDS ServerIntake, Monitor, FiniteSetTheorems, TLAPS

IInv == TypeOK /\ RingConsistent /\ NoLostWakeup /\ BorrowedSlotBehindHead

-----------------------------------------------------------------------------
(* Arithmetic of the ring. *)

\* The successor of a slot wraps around after the last one (queue.h 61, 76, 100).
LEMMA SuccIsNext ==
  ASSUME NEW i \in Slot
  PROVE  Succ(i) = IF i = QUEUE_MAX - 1 THEN 0 ELSE i + 1
<1>1. QUEUE_MAX \in Nat /\ QUEUE_MAX > 1 /\ i \in Nat /\ i < QUEUE_MAX
  BY QueueAssumption DEF Slot
<1>2. CASE i = QUEUE_MAX - 1
  BY <1>1, <1>2 DEF Succ
<1>3. CASE i < QUEUE_MAX - 1
  BY <1>1, <1>3 DEF Succ
<1>4. QED
  BY <1>1, <1>2, <1>3

\* Advancing stays inside the ring and never maps two slots to one.
LEMMA SuccProperties ==
  /\ \A i \in Slot : Succ(i) \in Slot
  /\ \A i, j \in Slot : Succ(i) = Succ(j) => i = j
BY SuccIsNext, QueueAssumption DEF Slot

\* What one append and one pop do to the number of messages and to the set of
\* live slots, given the test each of them makes first.
LEMMA AppendCounts ==
  ASSUME head \in Slot, tail \in Slot, ~Full,
         head' = head, tail' = Succ(tail)
  PROVE  /\ Count' = Count + 1
         /\ Live' = Live \cup {tail}
         /\ tail \notin Live
         /\ Count \in 0 .. QUEUE_MAX - 2
<1>1. QUEUE_MAX \in Nat /\ QUEUE_MAX > 1
  BY QueueAssumption
<1>2. tail' = IF tail = QUEUE_MAX - 1 THEN 0 ELSE tail + 1
  BY SuccIsNext
<1>3. tail' # head
  BY DEF Full
<1>4. Count' = Count + 1 /\ Count \in 0 .. QUEUE_MAX - 2
  BY <1>1, <1>2, <1>3 DEF Count, Slot
<1>5. Live' = Live \cup {tail} /\ tail \notin Live
  BY <1>1, <1>2, <1>3 DEF Live, Slot
<1>6. QED
  BY <1>4, <1>5

LEMMA PopCounts ==
  ASSUME head \in Slot, tail \in Slot, ~Empty,
         head' = Succ(head), tail' = tail
  PROVE  /\ Count' = Count - 1
         /\ Live' = Live \ {head}
         /\ head \in Live
         /\ Count \in 1 .. QUEUE_MAX - 1
<1>1. QUEUE_MAX \in Nat /\ QUEUE_MAX > 1
  BY QueueAssumption
<1>2. head' = IF head = QUEUE_MAX - 1 THEN 0 ELSE head + 1
  BY SuccIsNext
<1>3. head # tail
  BY DEF Empty
<1>4. Count' = Count - 1 /\ Count \in 1 .. QUEUE_MAX - 1
  BY <1>1, <1>2, <1>3 DEF Count, Slot
<1>5. Live' = Live \ {head} /\ head \in Live
  BY <1>1, <1>2, <1>3 DEF Live, Slot
<1>6. QED
  BY <1>4, <1>5

LEMMA LiveIsSlots ==
  ASSUME head \in Slot, tail \in Slot
  PROVE  Live \subseteq Slot
BY QueueAssumption DEF Live, Slot

-----------------------------------------------------------------------------
(* The inductive invariant. *)

LEMMA InitEstablishesIInv == Init => IInv
<1> SUFFICES ASSUME Init PROVE IInv
  OBVIOUS
<1>1. 0 \in Slot /\ 0 \in 0 .. QUEUE_MAX - 1
  BY QueueAssumption DEF Slot
<1>2. TypeOK
  BY <1>1 DEF Init, TypeOK
<1>3. RingConsistent
  BY DEF Init, RingConsistent, Count, Live
<1>4. NoLostWakeup /\ BorrowedSlotBehindHead
  BY DEF Init, NoLostWakeup, BorrowedSlotBehindHead
<1>5. QED
  BY <1>2, <1>3, <1>4 DEF IInv

\* An append fills a slot that is neither live nor being read.
LEMMA AppendPreservesIInv == IInv /\ AppendTask => IInv'
<1> SUFFICES ASSUME IInv, AppendTask PROVE IInv'
  OBVIOUS
<1> USE DEF IInv
<1>1. /\ head \in Slot /\ tail \in Slot /\ request \in Message
      /\ data \in [Slot -> SlotContent \cup {None}]
  BY DEF TypeOK, AppendTask
<1>2. /\ ~Full /\ head' = head /\ tail' = Succ(tail)
      /\ data' = [data EXCEPT ![tail] = [msg |-> request.msg, from |-> request.from,
                                         tokenised |-> FALSE]]
      /\ size' = size + 1 /\ listenerPc' = "recv"
      /\ managerPc' = IF managerPc = "asleep" THEN "pop" ELSE managerPc
      /\ UNCHANGED <<request, out, sender, parsed>>
  BY DEF AppendTask, FillSlot, SignalNonempty
<1>3. /\ Count' = Count + 1 /\ Live' = Live \cup {tail}
      /\ tail \notin Live /\ Count \in 0 .. QUEUE_MAX - 2
  BY <1>1, <1>2, AppendCounts
<1>4. data'[tail] \in SlotContent /\ ~data'[tail].tokenised
  BY <1>1, <1>2 DEF Message, SlotContent
<1>5. \A i \in Slot \ {tail} : data'[i] = data[i]
  BY <1>1, <1>2
<1>6. TypeOK'
  <2>1. data' \in [Slot -> SlotContent \cup {None}]
    BY <1>1, <1>2 DEF Message, SlotContent
  <2>2. size' \in 0 .. QUEUE_MAX - 1
    BY <1>2, <1>3, QueueAssumption DEF RingConsistent
  <2>3. QED
    BY <1>1, <1>2, <2>1, <2>2, SuccProperties DEF TypeOK
<1>7. RingConsistent'
  <2>1. Live \subseteq Slot
    BY <1>1, LiveIsSlots
  <2>2. \A i \in Live' : data'[i] \in SlotContent /\ ~data'[i].tokenised
    BY <1>3, <1>4, <1>5, <2>1 DEF RingConsistent
  <2>3. QED
    BY <1>2, <1>3, <2>2 DEF RingConsistent
<1>8. NoLostWakeup'
  BY <1>2 DEF NoLostWakeup
<1>9. BorrowedSlotBehindHead'
  <2> SUFFICES ASSUME managerPc' = "tokens" PROVE BorrowedSlotBehindHead'
    BY DEF BorrowedSlotBehindHead
  <2>1. managerPc = "tokens" /\ out \in Slot /\ head = Succ(out)
    BY <1>2 DEF BorrowedSlotBehindHead
  <2>2. out # tail
    BY <1>2, <2>1 DEF Full
  <2>3. data'[out] = data[out]
    BY <1>5, <2>1, <2>2
  <2>4. QED
    BY <1>2, <2>1, <2>3 DEF BorrowedSlotBehindHead
<1>10. QED
  BY <1>6, <1>7, <1>8, <1>9

LEMMA PopPreservesIInv == IInv /\ PopTask => IInv'
<1> SUFFICES ASSUME IInv, PopTask PROVE IInv'
  OBVIOUS
<1> USE DEF IInv
<1>1. /\ head \in Slot /\ tail \in Slot
      /\ data \in [Slot -> SlotContent \cup {None}]
  BY DEF TypeOK
<1>2. /\ ~Empty /\ head' = Succ(head) /\ tail' = tail
      /\ data' = [data EXCEPT ![head].tokenised = TRUE]
      /\ size' = size - 1 /\ out' = head /\ sender' = data[head].from
      /\ managerPc' = "tokens"
      /\ listenerPc' = IF listenerPc = "asleep" THEN "append" ELSE listenerPc
      /\ UNCHANGED <<request, parsed>>
  BY DEF PopTask, TakeSlot, SignalNonfull
<1>3. /\ Count' = Count - 1 /\ Live' = Live \ {head}
      /\ head \in Live /\ Count \in 1 .. QUEUE_MAX - 1
  BY <1>1, <1>2, PopCounts
<1>4. data[head] \in SlotContent
  BY <1>3 DEF RingConsistent
<1>5. /\ data' \in [Slot -> SlotContent \cup {None}]
      /\ data'[head] \in SlotContent /\ data'[head].from = data[head].from
  BY <1>1, <1>2, <1>4 DEF SlotContent
<1>6. \A i \in Slot \ {head} : data'[i] = data[i]
  BY <1>1, <1>2
<1>7. TypeOK'
  <2>1. size' \in 0 .. QUEUE_MAX - 1
    BY <1>2, <1>3, QueueAssumption DEF RingConsistent
  <2>2. sender' \in Addr
    BY <1>2, <1>4 DEF SlotContent
  <2>3. QED
    BY <1>1, <1>2, <1>5, <2>1, <2>2, SuccProperties DEF TypeOK
<1>8. RingConsistent'
  <2>1. Live \subseteq Slot
    BY <1>1, LiveIsSlots
  <2>2. \A i \in Live' : data'[i] \in SlotContent /\ ~data'[i].tokenised
    BY <1>3, <1>6, <2>1 DEF RingConsistent
  <2>3. QED
    BY <1>2, <1>3, <2>2 DEF RingConsistent
<1>9. NoLostWakeup'
  BY <1>2 DEF NoLostWakeup
<1>10. BorrowedSlotBehindHead'
  BY <1>1, <1>2, <1>5 DEF BorrowedSlotBehindHead
<1>11. QED
  BY <1>7, <1>8, <1>9, <1>10

\* Every other step leaves the ring alone.
LEMMA NextPreservesIInv == IInv /\ [Next]_vars => IInv'
<1> SUFFICES ASSUME IInv, [Next]_vars PROVE IInv'
  OBVIOUS
<1> USE DEF IInv
<1>1. ASSUME NEW m \in Message, Receive(m) PROVE IInv'
  BY <1>1 DEF Receive, ringVars, managerVars, TypeOK, RingConsistent, NoLostWakeup,
              BorrowedSlotBehindHead, Count, Live, Empty, Full
<1>2. CASE AppendWait
  BY <1>2 DEF AppendWait, ringVars, managerVars, TypeOK, RingConsistent, NoLostWakeup,
              BorrowedSlotBehindHead, Count, Live, Empty, Full
<1>3. CASE AppendTask
  BY <1>3, AppendPreservesIInv
<1>4. CASE PopWait
  BY <1>4 DEF PopWait, ringVars, listenerVars, TypeOK, RingConsistent, NoLostWakeup,
              BorrowedSlotBehindHead, Count, Live, Empty, Full
<1>5. CASE PopTask
  BY <1>5, PopPreservesIInv
<1>6. CASE Parse
  <2>1. parsed' \in Message
    BY <1>6 DEF Parse, BorrowedSlotBehindHead, SlotContent, Message
  <2>2. QED
    BY <1>6, <2>1 DEF Parse, ringVars, listenerVars, TypeOK, RingConsistent,
                      NoLostWakeup, BorrowedSlotBehindHead, Count, Live, Empty, Full
<1>7. CASE SpuriousWakeup
  BY <1>7 DEF SpuriousWakeup, ringVars, TypeOK, RingConsistent, NoLostWakeup,
              BorrowedSlotBehindHead, Count, Live, Empty, Full
<1>8. CASE UNCHANGED vars
  BY <1>8 DEF vars, TypeOK, RingConsistent, NoLostWakeup,
              BorrowedSlotBehindHead, Count, Live, Empty, Full
<1>9. QED
  BY <1>1, <1>2, <1>3, <1>4, <1>5, <1>6, <1>7, <1>8 DEF Next

-----------------------------------------------------------------------------
(* The theorems. *)

\* The inductive invariant holds in every reachable state of the ring.
THEOREM InductiveInvariant == Spec => []IInv
BY InitEstablishesIInv, NextPreservesIInv, PTL DEF Spec

\* Indices stay in range and q->size never exceeds QUEUE_MAX - 1.
THEOREM TypeCorrect == Spec => []TypeOK
BY InductiveInvariant, PTL DEF IInv

\* The ring's counter and contents agree with its indices.
THEOREM RingIsConsistent == Spec => []RingConsistent
BY InductiveInvariant, PTL DEF IInv

\* Neither thread sleeps on a condition that already holds.
THEOREM WakeupsAreNotLost == Spec => []NoLostWakeup
BY InductiveInvariant, PTL DEF IInv

\* The slot the manager still reads is never overwritten, although q_pop has
\* released the lock: the one unused slot of the ring protects it.
THEOREM BorrowedSlotIsStable == Spec => BorrowedSlotStable
<1>1. ASSUME IInv, [Next]_vars, managerPc = "tokens"
      PROVE  data'[out] = data[out]
  <2>1. out \in Slot /\ head = Succ(out) /\ data \in [Slot -> SlotContent \cup {None}]
    BY <1>1 DEF IInv, BorrowedSlotBehindHead, TypeOK
  <2>2. CASE AppendTask
    <3>1. out # tail
      BY <2>1, <2>2 DEF AppendTask, Full
    <3>2. QED
      BY <2>1, <2>2, <3>1 DEF AppendTask, FillSlot
  <2>3. CASE PopTask
    BY <1>1, <2>3 DEF PopTask
  <2>4. CASE ~AppendTask /\ ~PopTask
    BY <1>1, <2>4 DEF Next, vars, ringVars, Receive, AppendWait, PopWait, Parse,
                      SpuriousWakeup
  <2>5. QED
    BY <2>2, <2>3, <2>4
<1>2. IInv /\ [Next]_vars => [managerPc = "tokens" => data'[out] = data[out]]_vars
  BY <1>1
<1>3. QED
  BY <1>2, InductiveInvariant, PTL DEF Spec, BorrowedSlotStable

-----------------------------------------------------------------------------
(* The ring implements the bounded channel. *)

\* The slot that holds the k-th oldest message.
LEMMA SlotOfIs ==
  ASSUME head \in Slot, NEW k \in 1 .. QUEUE_MAX
  PROVE  SlotOf(k) = IF head + k - 1 < QUEUE_MAX THEN head + k - 1
                                                 ELSE head + k - 1 - QUEUE_MAX
<1>1. QUEUE_MAX \in Nat /\ QUEUE_MAX > 1 /\ head \in Nat /\ head < QUEUE_MAX
  BY QueueAssumption DEF Slot
<1>2. CASE head + k - 1 < QUEUE_MAX
  BY <1>1, <1>2 DEF SlotOf
<1>3. CASE head + k - 1 >= QUEUE_MAX
  BY <1>1, <1>3 DEF SlotOf
<1>4. QED
  BY <1>1, <1>2, <1>3

\* The k-th oldest message lies in a live slot; the next free one is tail.
LEMMA SlotOfLive ==
  ASSUME head \in Slot, tail \in Slot
  PROVE  /\ \A k \in 1 .. Count : SlotOf(k) \in Live
         /\ Count \in 0 .. QUEUE_MAX - 1
         /\ SlotOf(Count + 1) = tail
<1>1. QUEUE_MAX \in Nat /\ QUEUE_MAX > 1
  BY QueueAssumption
<1>2. Count \in 0 .. QUEUE_MAX - 1
  BY <1>1 DEF Count, Slot
<1>3. ASSUME NEW k \in 1 .. Count PROVE SlotOf(k) \in Live
  BY <1>1, <1>2, SlotOfIs DEF Count, Live, Slot
<1>4. SlotOf(Count + 1) = tail
  BY <1>1, <1>2, SlotOfIs DEF Count, Slot
<1>5. QED
  BY <1>2, <1>3, <1>4

\* Popping moves every remaining message one place towards the front.
LEMMA SlotOfAfterPop ==
  ASSUME head \in Slot, tail \in Slot, head' = Succ(head),
         NEW k \in 1 .. QUEUE_MAX - 1
  PROVE  SlotOf(k)' = SlotOf(k + 1)
<1>1. QUEUE_MAX \in Nat /\ QUEUE_MAX > 1
  BY QueueAssumption
<1>2. head' = IF head = QUEUE_MAX - 1 THEN 0 ELSE head + 1
  BY SuccIsNext
<1>3. SlotOf(k + 1) = IF head + k < QUEUE_MAX THEN head + k ELSE head + k - QUEUE_MAX
  BY <1>1, SlotOfIs DEF Slot
<1>4. SlotOf(k)' = (head' + k - 1) % QUEUE_MAX
  BY DEF SlotOf
<1>5. CASE head = QUEUE_MAX - 1
  <2>1. (0 + k - 1) % QUEUE_MAX = k - 1
    BY <1>1
  <2>2. QED
    BY <1>1, <1>2, <1>3, <1>4, <1>5, <2>1
<1>6. CASE head # QUEUE_MAX - 1
  BY <1>1, <1>2, <1>4, <1>6 DEF SlotOf, Slot
<1>7. QED
  BY <1>5, <1>6

\* Appending to the ring appends to the channel.
LEMMA AppendIsPut == IInv /\ AppendTask => Fifo!Put(request)
<1> SUFFICES ASSUME IInv, AppendTask PROVE Fifo!Put(request)
  OBVIOUS
<1>1. /\ head \in Slot /\ tail \in Slot /\ request \in Message
      /\ data \in [Slot -> SlotContent \cup {None}]
  BY DEF IInv, TypeOK, AppendTask
<1>2. /\ ~Full /\ head' = head /\ tail' = Succ(tail)
      /\ data' = [data EXCEPT ![tail] = [msg |-> request.msg, from |-> request.from,
                                         tokenised |-> FALSE]]
      /\ managerPc' = IF managerPc = "asleep" THEN "pop" ELSE managerPc
      /\ UNCHANGED <<out, sender, parsed>>
  BY DEF AppendTask, FillSlot, SignalNonempty
<1>3. /\ Count' = Count + 1 /\ tail \notin Live /\ Count \in 0 .. QUEUE_MAX - 2
  BY <1>1, <1>2, AppendCounts
<1>4. \A k \in 1 .. Count : QueuedMessage(k)' = QueuedMessage(k)
  <2> SUFFICES ASSUME NEW k \in 1 .. Count
               PROVE  QueuedMessage(k)' = QueuedMessage(k)
    OBVIOUS
  <2>1. SlotOf(k) \in Live /\ Live \subseteq Slot
    BY <1>1, SlotOfLive, LiveIsSlots
  <2>2. data'[SlotOf(k)] = data[SlotOf(k)]
    BY <1>1, <1>2, <1>3, <2>1
  <2>3. QED
    BY <1>2, <2>2 DEF QueuedMessage, SlotOf
<1>5. ASSUME NEW k \in 1 .. QUEUE_MAX, k = Count + 1
      PROVE  QueuedMessage(k)' = request
  <2>1. SlotOf(k) = tail /\ SlotOf(k)' = SlotOf(k)
    BY <1>1, <1>2, <1>5, SlotOfLive DEF SlotOf
  <2>2. data'[tail] = [msg |-> request.msg, from |-> request.from, tokenised |-> FALSE]
    BY <1>1, <1>2
  <2>3. request = [msg |-> request.msg, from |-> request.from]
    BY <1>1 DEF Message
  <2>4. QED
    BY <2>1, <2>2, <2>3 DEF QueuedMessage
<1>6. Queued' = Append(Queued, request)
  <2>1. Queued' = [k \in 1 .. Count + 1 |-> QueuedMessage(k)']
    BY <1>3 DEF Queued
  <2>2. Queued' = [k \in 1 .. Count + 1 |-> IF k = Count + 1 THEN request
                                                            ELSE QueuedMessage(k)]
    BY <1>3, <1>4, <1>5, <2>1, QueueAssumption
  <2>3. QED
    BY <1>3, <2>2 DEF Queued
<1>7. Len(Queued) < QUEUE_MAX - 1
  BY <1>3, QueueAssumption DEF Queued
<1>8. InHand' = InHand
  <2>1. managerPc = "tokens" => out \in Slot /\ out # tail
    BY <1>2 DEF IInv, BorrowedSlotBehindHead, Full
  <2>2. managerPc = "tokens" => data'[out] = data[out]
    BY <1>1, <1>2, <2>1
  <2>3. QED
    BY <1>2, <2>2 DEF InHand
<1>9. QED
  BY <1>2, <1>6, <1>7, <1>8 DEF Fifo!Put

\* Popping from the ring takes the oldest message of the channel in hand.
LEMMA PopIsTake == IInv /\ PopTask => Fifo!Take
<1> SUFFICES ASSUME IInv, PopTask PROVE Fifo!Take
  OBVIOUS
<1>1. /\ head \in Slot /\ tail \in Slot
      /\ data \in [Slot -> SlotContent \cup {None}]
  BY DEF IInv, TypeOK
<1>2. /\ ~Empty /\ managerPc = "pop" /\ head' = Succ(head) /\ tail' = tail
      /\ data' = [data EXCEPT ![head].tokenised = TRUE]
      /\ out' = head /\ sender' = data[head].from
      /\ managerPc' = "tokens" /\ parsed' = parsed
  BY DEF PopTask, TakeSlot
<1>3. /\ Count' = Count - 1 /\ Live' = Live \ {head}
      /\ head \in Live /\ Count \in 1 .. QUEUE_MAX - 1
  BY <1>1, <1>2, PopCounts
<1>4. data[head] \in SlotContent
  BY <1>3 DEF IInv, RingConsistent
<1>5. /\ data'[head].msg = data[head].msg
      /\ \A i \in Slot \ {head} : data'[i] = data[i]
  BY <1>1, <1>2, <1>4 DEF SlotContent
<1>6. SlotOf(1) = head
  BY <1>1, SlotOfIs, QueueAssumption DEF Slot
<1>7. Head(Queued) = [msg |-> data[head].msg, from |-> data[head].from]
  BY <1>3, <1>6 DEF Queued, QueuedMessage
<1>8. InHand = None /\ InHand' = Head(Queued)
  BY <1>2, <1>5, <1>7 DEF InHand
<1>9. Queued' = Tail(Queued)
  <2>1. \A k \in 1 .. Count - 1 : QueuedMessage(k)' = QueuedMessage(k + 1)
    <3> SUFFICES ASSUME NEW k \in 1 .. Count - 1
                 PROVE  QueuedMessage(k)' = QueuedMessage(k + 1)
      OBVIOUS
    <3>1. k \in 1 .. QUEUE_MAX - 1 /\ k + 1 \in 1 .. Count /\ k + 1 \in 1 .. QUEUE_MAX
      BY <1>3, QueueAssumption
    <3>2. SlotOf(k)' = SlotOf(k + 1)
      BY <1>1, <1>2, <3>1, SlotOfAfterPop
    <3>3. SlotOf(k + 1) \in Slot /\ SlotOf(k + 1) # head
      BY <1>1, <3>1, SlotOfIs, SlotOfLive, LiveIsSlots, QueueAssumption DEF Slot
    <3>4. QED
      BY <1>5, <3>2, <3>3 DEF QueuedMessage
  <2>2. Queued' = [k \in 1 .. Count - 1 |-> QueuedMessage(k)']
    BY <1>3 DEF Queued
  <2>3. Queued' = [k \in 1 .. Count - 1 |-> QueuedMessage(k + 1)]
    BY <2>1, <2>2
  <2>4. QED
    BY <1>3, <2>3, QueueAssumption DEF Queued
<1>10. Queued # <<>>
  BY <1>3, QueueAssumption DEF Queued
<1>11. QED
  BY <1>2, <1>8, <1>9, <1>10 DEF Fifo!Take

\* Parsing the tokens reads the message in hand.
LEMMA ParseIsRead == IInv /\ Parse => Fifo!Read
<1> SUFFICES ASSUME IInv, Parse PROVE Fifo!Read
  OBVIOUS
<1>1. InHand = [msg |-> data[out].msg, from |-> sender]
  BY DEF Parse, InHand
<1>2. InHand \in [msg : Text, from : Addr]
  BY <1>1 DEF IInv, BorrowedSlotBehindHead, SlotContent, Parse
<1>3. InHand # None
  BY <1>2, QueueAssumption
<1>4. parsed' = InHand /\ InHand' = None
  BY <1>1 DEF Parse, InHand
<1>5. Queued' = Queued
  BY DEF Parse, ringVars, Queued, Count, QueuedMessage, SlotOf
<1>6. QED
  BY <1>3, <1>4, <1>5 DEF Fifo!Read

\* The ring of queue.h, with the manager's unlocked use of its slot, implements
\* the bounded first-in first-out channel of BoundedFifo.
THEOREM RingImplementsFifo == Spec => ImplementsFifo
<1>1. Init => Fifo!Init
  <2> SUFFICES ASSUME Init PROVE Fifo!Init
    OBVIOUS
  <2>1. Count = 0
    BY DEF Init, Count
  <2>2. Queued = <<>>
    BY <2>1 DEF Queued
  <2>3. InHand = None
    BY DEF Init, InHand
  <2>4. QED
    BY <2>2, <2>3 DEF Init, Fifo!Init
<1>2. IInv /\ [Next]_vars => [Fifo!Next]_(Fifo!fifoVars)
  <2> SUFFICES ASSUME IInv, [Next]_vars PROVE [Fifo!Next]_(Fifo!fifoVars)
    OBVIOUS
  <2>1. CASE AppendTask
    <3>1. request \in Message
      BY <2>1 DEF IInv, TypeOK, AppendTask
    <3>2. QED
      BY <2>1, <3>1, AppendIsPut DEF Fifo!Next
  <2>2. CASE PopTask
    BY <2>2, PopIsTake DEF Fifo!Next
  <2>3. CASE Parse
    BY <2>3, ParseIsRead DEF Fifo!Next
  <2>4. CASE ~AppendTask /\ ~PopTask /\ ~Parse
    <3>1. /\ UNCHANGED <<data, head, tail, out, sender, parsed>>
          /\ managerPc = "tokens" <=> managerPc' = "tokens"
      BY <2>4 DEF Next, vars, ringVars, managerVars, listenerVars, Receive, AppendWait,
                  PopWait, SpuriousWakeup
    <3>2. Queued' = Queued /\ InHand' = InHand
      BY <3>1 DEF Queued, Count, QueuedMessage, SlotOf, InHand
    <3>3. QED
      BY <3>1, <3>2 DEF Fifo!fifoVars
  <2>5. QED
    BY <2>1, <2>2, <2>3, <2>4
<1>3. QED
  BY <1>1, <1>2, InductiveInvariant, PTL DEF Spec, ImplementsFifo, Fifo!Spec

-----------------------------------------------------------------------------
(* The worker constraints never constrain, whatever MAX_THREADS is. *)

\* active_worker counts the one dispatch in progress, not the workers.
CountsDispatches ==
  active_worker = IF manager \in {"spawn", "checkout"} THEN 1 ELSE 0

\* So the manager never finds the limit reached, however many workers run.
LimitNeverApplies == manager # "asleep"

PoolInv == PoolTypeOK /\ CountsDispatches /\ LimitNeverApplies

\* PoolInv holds at the start and is kept by every step of the loop.
THEOREM PoolInvariant == PoolSpec => []PoolInv
<1> USE PoolAssumption DEF PoolInv, PoolTypeOK, CountsDispatches, LimitNeverApplies, ManagerPc
<1>1. PoolInit => PoolInv
  BY DEF PoolInit
<1>2. PoolInv /\ [PoolNext]_poolVars => PoolInv'
  <2> SUFFICES ASSUME PoolInv, [PoolNext]_poolVars PROVE PoolInv'
    OBVIOUS
  <2>1. CASE PopCommand
    BY <2>1 DEF PopCommand
  <2>2. CASE WorkerThreadCheckin
    BY <2>2 DEF WorkerThreadCheckin
  <2>3. CASE Spawn
    BY <2>3 DEF Spawn
  <2>4. CASE WorkerThreadCheckout
    BY <2>4 DEF WorkerThreadCheckout
  <2>5. CASE Finish
    BY <2>5 DEF Finish
  <2>6. CASE UNCHANGED poolVars
    BY <2>6 DEF poolVars
  <2> QED
    BY <2>1, <2>2, <2>3, <2>4, <2>5, <2>6 DEF PoolNext
<1> QED
  BY <1>1, <1>2, PTL DEF PoolSpec

\* active_worker and the queue manager's position stay in range.
THEOREM PoolTypeCorrect == PoolSpec => []PoolTypeOK
BY PoolInvariant, PTL DEF PoolInv

\* worker_thread_checkin never waits: active_worker counts dispatches, of which
\* there is one at a time.  It limits no workers, and it keeps nobody up either.
THEOREM LimitIsNotApplied == PoolSpec => []LimitNeverApplies
BY PoolInvariant, PTL DEF PoolInv

-----------------------------------------------------------------------------
(* The composition. *)

\* The ring does not notice that its manager also dispatches.
LEMMA IntakeStepIsRingStep == [IntakeNext]_intakeVars => [Next]_vars
<1> SUFFICES ASSUME [IntakeNext]_intakeVars PROVE [Next]_vars
  OBVIOUS
<1>1. CASE ListenerReceives \/ ListenerAppends \/ ListenerWaits
  BY <1>1 DEF ListenerReceives, ListenerAppends, ListenerWaits, Next
<1>2. CASE ManagerPops \/ ManagerWaits \/ ManagerParses
  BY <1>2 DEF ManagerPops, ManagerWaits, ManagerParses, Next
<1>3. CASE Dispatch \/ WorkerFinishes
  BY <1>3 DEF Dispatch, WorkerFinishes
<1>4. CASE WaitsReturn
  BY <1>4 DEF WaitsReturn, Next
<1>5. CASE UNCHANGED intakeVars
  BY <1>5 DEF intakeVars
<1> QED
  BY <1>1, <1>2, <1>3, <1>4, <1>5 DEF IntakeNext

\* Nor does the pool notice the ring.
LEMMA IntakeStepIsPoolStep == [IntakeNext]_intakeVars => [PoolNext]_poolVars
<1> SUFFICES ASSUME [IntakeNext]_intakeVars PROVE [PoolNext]_poolVars
  OBVIOUS
<1>1. CASE ListenerReceives \/ ListenerAppends \/ ListenerWaits
  BY <1>1 DEF ListenerReceives, ListenerAppends, ListenerWaits
<1>2. CASE ManagerPops \/ ManagerWaits \/ WaitsReturn
  BY <1>2 DEF ManagerPops, ManagerWaits, WaitsReturn
<1>3. CASE ManagerParses
  BY <1>3 DEF ManagerParses, PoolNext
<1>4. CASE Dispatch \/ WorkerFinishes
  BY <1>4 DEF Dispatch, WorkerFinishes, PoolNext
<1>5. CASE UNCHANGED intakeVars
  BY <1>5 DEF intakeVars
<1> QED
  BY <1>1, <1>2, <1>3, <1>4, <1>5 DEF IntakeNext

\* The server's intake implements the ring with its two users.
THEOREM IntakeImplementsRing == IntakeSpec => Spec
<1>1. IntakeInit => Init
  BY DEF IntakeInit
<1> QED
  BY <1>1, IntakeStepIsRingStep, PTL DEF IntakeSpec, Spec

\* It implements the loop of queue_manager around its worker constraints.
THEOREM IntakeImplementsPool == IntakeSpec => PoolSpec
<1>1. IntakeInit => PoolInit
  BY DEF IntakeInit
<1> QED
  BY <1>1, IntakeStepIsPoolStep, PTL DEF IntakeSpec, PoolSpec

\* In the composed server no thread sleeps past its wakeup: neither at the ring
\* (queue.h 61-103) nor at the worker constraints (server_types.h 284-295).
THEOREM IntakeNeverStalls == IntakeSpec => [](NoLostWakeup /\ LimitNeverApplies)
BY IntakeImplementsRing, IntakeImplementsPool, WakeupsAreNotLost, LimitIsNotApplied, PTL

\* What enters the server's ring leaves it in order and untouched, dispatch and
\* parsing outside the lock included (queue.h 58-105).
THEOREM IntakeIsFifo == IntakeSpec => ImplementsFifo /\ BorrowedSlotStable
BY IntakeImplementsRing, RingImplementsFifo, BorrowedSlotIsStable, PTL

-----------------------------------------------------------------------------
(* The readers-writer monitor. *)

MonitorInv == MonitorTypeOK /\ CountersExact /\ MutualExclusion /\ WriterNotStranded

-----------------------------------------------------------------------------
(****************************************************************************)
(* Counting threads.                                                        *)
(****************************************************************************)

\* Sets of threads are finite, and only the empty one has cardinality 0.
LEMMA ThreadSets ==
  ASSUME NEW S \in SUBSET Thread
  PROVE  IsFiniteSet(S) /\ Cardinality(S) \in Nat /\ (Cardinality(S) = 0 <=> S = {})
<1>1. IsFiniteSet(S)
  BY ThreadAssumption, FS_Subset
<1> QED
  BY <1>1, FS_CardinalityType, FS_EmptySet

\* One thread more, as a check-in adds to a counter.
LEMMA CountIn ==
  ASSUME NEW S \in SUBSET Thread, NEW t, t \notin S
  PROVE  Cardinality(S \cup {t}) = Cardinality(S) + 1
BY ThreadSets, FS_AddElement

\* One thread less, as a check-out takes from a counter.
LEMMA CountOut ==
  ASSUME NEW S \in SUBSET Thread, NEW t \in S
  PROVE  Cardinality(S \ {t}) = Cardinality(S) - 1 /\ Cardinality(S) > 0
<1>1. Cardinality(S \ {t}) = Cardinality(S) - 1
  BY ThreadSets, FS_RemoveElement
<1>2. Cardinality(S) # 0
  BY ThreadSets
<1> QED
  BY <1>1, <1>2, ThreadSets

\* In(p) is a set of threads.
LEMMA InThread == \A p : In(p) \in SUBSET Thread
BY DEF In

-----------------------------------------------------------------------------
(****************************************************************************)
(* One lemma per action: what it makes of the sets of threads, then the     *)
(* four conjuncts.                                                          *)
(****************************************************************************)

WaitingToRead == In("rwait") \cup In("rwoken")
WaitingToWrite == In("wwait") \cup In("wwoken")

\* reader_checkin, whether it waits (again) or gets in.
LEMMA ReaderCheckinStep ==
  ASSUME MonitorInv, NEW t \in Thread, ReaderCheckin(t)
  PROVE  MonitorInv'
<1> USE DEF MonitorInv, MonitorTypeOK
<1>1. /\ In("writing")' = In("writing")
      /\ In("wwait")' = In("wwait") /\ In("wwoken")' = In("wwoken")
      /\ AW' = AW /\ WW' = WW
  BY DEF ReaderCheckin, In, Phase
<1>2. WaitingReaders(t) \in Nat /\
      WaitingReaders(t) = Cardinality(WaitingToRead \ {t})
  <2>1. CASE phase[t] = "rwoken"
    <3>1. t \in WaitingToRead /\ WaitingToRead \in SUBSET Thread
      BY <2>1 DEF WaitingToRead, In
    <3>2. WR = Cardinality(WaitingToRead)
      BY DEF CountersExact, WaitingToRead
    <3>3. /\ Cardinality(WaitingToRead \ {t}) = WR - 1
          /\ Cardinality(WaitingToRead \ {t}) \in Nat
      BY <3>1, <3>2, CountOut, ThreadSets
    <3> QED
      BY <2>1, <3>3 DEF WaitingReaders
  <2>2. CASE phase[t] = "out"
    <3>1. WaitingToRead \ {t} = WaitingToRead
      BY <2>2 DEF WaitingToRead, In
    <3> QED
      BY <2>2, <3>1 DEF WaitingReaders, CountersExact, WaitingToRead
  <2> QED
    BY <2>1, <2>2 DEF ReaderCheckin
<1>3. WaitingToRead \ {t} \in SUBSET Thread /\ In("reading") \in SUBSET Thread
  BY DEF WaitingToRead, In
<1>4. CASE ReaderBlocked /\ phase' = [phase EXCEPT ![t] = "rwait"]
  <2>1. WR' = WaitingReaders(t) + 1 /\ AR' = AR
    BY <1>4 DEF ReaderCheckin, Phase
  <2>2. WaitingToRead' = (WaitingToRead \ {t}) \cup {t}
    BY <1>4 DEF WaitingToRead, In
  <2>3. In("reading")' = In("reading")
    BY <1>4 DEF ReaderCheckin, In
  <2>4. WR' = Cardinality(WaitingToRead')
    BY <1>2, <1>3, <2>1, <2>2, CountIn
  <2>5. CountersExact'
    BY <1>1, <2>1, <2>3, <2>4 DEF CountersExact, WaitingToRead
  <2>6. MonitorTypeOK'
    BY <1>1, <1>2, <1>4, <2>1 DEF Phase
  <2> QED
    BY <1>1, <2>3, <2>5, <2>6 DEF MutualExclusion, WriterNotStranded
<1>5. CASE ~ReaderBlocked /\ phase' = [phase EXCEPT ![t] = "reading"]
  <2>1. WR' = WaitingReaders(t) /\ AR' = AR + 1
    BY <1>5 DEF ReaderCheckin, Phase
  <2>2. WaitingToRead' = WaitingToRead \ {t}
    BY <1>5 DEF WaitingToRead, In
  <2>3. In("reading")' = In("reading") \cup {t} /\ t \notin In("reading")
    BY <1>5 DEF ReaderCheckin, In
  <2>4. AR' = Cardinality(In("reading")')
    BY <1>3, <2>1, <2>3, CountIn DEF CountersExact
  <2>5. CountersExact'
    BY <1>1, <1>2, <2>1, <2>2, <2>4 DEF CountersExact, WaitingToRead
  <2>6. MonitorTypeOK'
    BY <1>1, <1>2, <1>5, <2>1 DEF Phase
  <2>7. In("writing") = {}
    BY <1>5, InThread, ThreadSets DEF ReaderBlocked, CountersExact
  <2> QED
    BY <1>1, <2>3, <2>5, <2>6, <2>7 DEF MutualExclusion, WriterNotStranded
<1> QED
  BY <1>4, <1>5 DEF ReaderCheckin

\* writer_checkin, whether it waits (again) or gets in.
LEMMA WriterCheckinStep ==
  ASSUME MonitorInv, NEW t \in Thread, WriterCheckin(t)
  PROVE  MonitorInv'
<1> USE DEF MonitorInv, MonitorTypeOK
<1>1. /\ In("reading")' = In("reading")
      /\ WaitingToRead' = WaitingToRead
      /\ AR' = AR /\ WR' = WR
  BY DEF WriterCheckin, WaitingToRead, In, Phase
<1>2. In("reading") \cup In("writing") = {} <=> ~WriterBlocked
  <2>1. AR = 0 <=> In("reading") = {}
    BY InThread, ThreadSets DEF CountersExact
  <2>2. AW = 0 <=> In("writing") = {}
    BY InThread, ThreadSets DEF CountersExact
  <2> QED
    BY <2>1, <2>2 DEF WriterBlocked
<1>3. CASE WriterBlocked /\ phase' = [phase EXCEPT ![t] = "wwait"]
  <2>1. WW' = WW + 1 /\ AW' = AW
    BY <1>3 DEF WriterCheckin, Phase
  <2>2. In("writing")' = In("writing")
    BY <1>3 DEF WriterCheckin, In
  <2>3. CountersExact'
    <3>1. WW' > 0
      BY <2>1
    <3> QED
      BY <1>1, <2>1, <2>2, <3>1 DEF CountersExact, WaitingToRead
  <2>4. MonitorTypeOK'
    BY <1>1, <1>3, <2>1 DEF Phase
  <2> QED
    BY <1>1, <1>2, <1>3, <2>2, <2>3, <2>4 DEF MutualExclusion, WriterNotStranded
<1>4. CASE ~WriterBlocked /\ phase' = [phase EXCEPT ![t] = "writing"]
  <2>1. AW' = AW + 1 /\ WW' = WW
    BY <1>4 DEF WriterCheckin, Phase
  <2>2. In("writing")' = {t} /\ In("writing") = {} /\ t \notin In("writing")
    BY <1>2, <1>4 DEF WriterCheckin, In
  <2>3. AW' = Cardinality(In("writing")')
    BY <2>1, <2>2, CountIn, InThread DEF CountersExact
  <2>4. WaitingToWrite' \subseteq WaitingToWrite
    BY <1>4 DEF WaitingToWrite, In
  <2>5. CountersExact'
    BY <1>1, <2>1, <2>3, <2>4 DEF CountersExact, WaitingToRead, WaitingToWrite
  <2>6. MonitorTypeOK'
    BY <1>1, <1>4, <2>1 DEF Phase
  <2> QED
    BY <1>1, <1>2, <1>4, <2>2, <2>5, <2>6 DEF MutualExclusion, WriterNotStranded
<1> QED
  BY <1>3, <1>4 DEF WriterCheckin

\* A signal or a broadcast only moves threads from a wait to the woken state of
\* the same side, and a signal with a writer waiting wakes one.
LEMMA Wakeups ==
  ASSUME MonitorTypeOK, NEW t \in Thread,
         NEW ph, ph = [phase EXCEPT ![t] = "out"], phase[t] \in {"reading", "writing"},
         SignalWriter(ph) \/ BroadcastReaders(ph) \/ phase' = ph
  PROVE  /\ phase' \in [Thread -> Phase]
         /\ In("reading")' = In("reading") \ {t}
         /\ In("writing")' = In("writing") \ {t}
         /\ WaitingToRead' = WaitingToRead
         /\ WaitingToWrite' = WaitingToWrite
         /\ In("wwait")' \subseteq In("wwait")
         /\ SignalWriter(ph) => In("wwait") = {} \/ In("wwoken")' # {}
<1> USE DEF MonitorTypeOK, WaitingToRead, WaitingToWrite, In
<1>1. ph \in [Thread -> Phase]
  BY DEF Phase
<1>2. CASE phase' = ph /\ (SignalWriter(ph) => \A u \in Thread : ph[u] # "wwait")
  BY <1>1, <1>2 DEF Phase
<1>3. CASE BroadcastReaders(ph) /\ ~SignalWriter(ph)
  <2>1. /\ phase' \in [Thread -> Phase]
        /\ \A u \in Thread : phase'[u] = IF ph[u] = "rwait" THEN "rwoken" ELSE ph[u]
    BY <1>1, <1>3 DEF BroadcastReaders, Phase
  <2> QED
    BY <1>3, <2>1
<1>4. CASE SignalWriter(ph) /\ \E u \in Thread : ph[u] = "wwait"
  <2>1. PICK u \in Thread : ph[u] = "wwait" /\ phase' = [ph EXCEPT ![u] = "wwoken"]
    BY <1>4 DEF SignalWriter
  <2>2. u # t /\ phase[u] = "wwait"
    BY <2>1
  <2>3. phase' = [phase EXCEPT ![t] = "out", ![u] = "wwoken"]
    BY <2>1, <2>2
  <2>4. phase' \in [Thread -> Phase]
    BY <2>3 DEF Phase
  <2>5. u \in In("wwoken")'
    BY <2>1, <2>2, <2>3
  <2> QED
    BY <2>2, <2>3, <2>4, <2>5
<1>5. CASE ~SignalWriter(ph) /\ ~BroadcastReaders(ph)
  BY <1>1, <1>5, <1>2
<1>6. SignalWriter(ph) /\ (\A u \in Thread : ph[u] # "wwait") => phase' = ph
  BY DEF SignalWriter
<1> QED
  BY <1>2, <1>3, <1>4, <1>5, <1>6

\* reader_checkout.
LEMMA ReaderCheckoutStep ==
  ASSUME MonitorInv, NEW t \in Thread, ReaderCheckout(t)
  PROVE  MonitorInv'
<1> USE DEF MonitorInv
<1> DEFINE ph == [phase EXCEPT ![t] = "out"]
<1>1. /\ AR' = AR - 1 /\ WR' = WR /\ AW' = AW /\ WW' = WW
      /\ AR' = 0 /\ WW > 0 => SignalWriter(ph)
      /\ SignalWriter(ph) \/ phase' = ph
      /\ phase[t] = "reading"
  BY DEF ReaderCheckout
<1> HIDE DEF ph
<1>2. /\ phase' \in [Thread -> Phase]
      /\ In("reading")' = In("reading") \ {t}
      /\ In("writing")' = In("writing") \ {t}
      /\ WaitingToRead' = WaitingToRead
      /\ WaitingToWrite' = WaitingToWrite
      /\ In("wwait")' \subseteq In("wwait")
      /\ SignalWriter(ph) => In("wwait") = {} \/ In("wwoken")' # {}
  BY <1>1, Wakeups DEF ph
<1>3. In("writing")' = In("writing") /\ t \in In("reading")
  BY <1>1, <1>2 DEF In
<1>4. AR' = Cardinality(In("reading")') /\ AR' \in Nat
  BY <1>1, <1>2, <1>3, InThread, CountOut, ThreadSets DEF CountersExact, MonitorTypeOK
<1>5. CountersExact'
  BY <1>1, <1>2, <1>3, <1>4 DEF CountersExact, WaitingToRead, WaitingToWrite
<1>6. MonitorTypeOK'
  BY <1>1, <1>2, <1>4 DEF MonitorTypeOK
<1>7. MutualExclusion'
  BY <1>2, <1>3 DEF MutualExclusion
<1>8. WriterNotStranded'
  <2>1. CASE AR' = 0 /\ WW > 0
    BY <1>1, <1>2, <2>1 DEF WriterNotStranded, WaitingToWrite
  <2>2. CASE AR' # 0
    BY <1>4, <2>2, InThread, ThreadSets DEF WriterNotStranded, In
  <2>3. CASE WW = 0
    BY <1>1, <1>5, <2>3 DEF WriterNotStranded, CountersExact
  <2> QED
    BY <2>1, <2>2, <2>3 DEF MonitorTypeOK
<1> QED
  BY <1>5, <1>6, <1>7, <1>8

\* writer_checkout.
LEMMA WriterCheckoutStep ==
  ASSUME MonitorInv, NEW t \in Thread, WriterCheckout(t)
  PROVE  MonitorInv'
<1> USE DEF MonitorInv
<1> DEFINE ph == [phase EXCEPT ![t] = "out"]
<1>1. /\ AW' = AW - 1 /\ AR' = AR /\ WR' = WR /\ WW' = WW
      /\ WW > 0 => SignalWriter(ph)
      /\ SignalWriter(ph) \/ BroadcastReaders(ph) \/ phase' = ph
      /\ phase[t] = "writing"
  BY DEF WriterCheckout
<1> HIDE DEF ph
<1>2. /\ phase' \in [Thread -> Phase]
      /\ In("reading")' = In("reading") \ {t}
      /\ In("writing")' = In("writing") \ {t}
      /\ WaitingToRead' = WaitingToRead
      /\ WaitingToWrite' = WaitingToWrite
      /\ In("wwait")' \subseteq In("wwait")
      /\ SignalWriter(ph) => In("wwait") = {} \/ In("wwoken")' # {}
  BY <1>1, Wakeups DEF ph
<1>3. In("reading")' = In("reading") /\ t \in In("writing")
  BY <1>1, <1>2 DEF In
<1>4. AW' = Cardinality(In("writing")') /\ AW' \in Nat
  BY <1>1, <1>2, <1>3, InThread, CountOut, ThreadSets DEF CountersExact, MonitorTypeOK
<1>5. CountersExact'
  BY <1>1, <1>2, <1>3, <1>4 DEF CountersExact, WaitingToRead, WaitingToWrite
<1>6. MonitorTypeOK'
  BY <1>1, <1>2, <1>4 DEF MonitorTypeOK
<1>7. MutualExclusion'
  BY <1>2, <1>3 DEF MutualExclusion
<1>8. WriterNotStranded'
  <2>1. CASE WW > 0
    BY <1>1, <1>2, <2>1 DEF WriterNotStranded, WaitingToWrite
  <2>2. CASE WW = 0
    BY <1>1, <1>5, <2>2 DEF WriterNotStranded, CountersExact
  <2> QED
    BY <2>1, <2>2 DEF MonitorTypeOK
<1> QED
  BY <1>5, <1>6, <1>7, <1>8

\* A spurious wakeup moves one thread and counts nothing.
LEMMA WakeSpuriouslyStep ==
  ASSUME MonitorInv, NEW t \in Thread, WakeSpuriously(t)
  PROVE  MonitorInv'
<1> USE DEF MonitorInv
<1>1. /\ AR' = AR /\ WR' = WR /\ AW' = AW /\ WW' = WW
      /\ phase' \in [Thread -> Phase]
  BY DEF WakeSpuriously, MonitorTypeOK, Phase
<1>2. /\ In("reading")' = In("reading")
      /\ In("writing")' = In("writing")
      /\ WaitingToRead' = WaitingToRead
      /\ WaitingToWrite' = WaitingToWrite
      /\ In("wwait")' \subseteq In("wwait") /\ In("wwoken") \subseteq In("wwoken")'
  BY DEF WakeSpuriously, MonitorTypeOK, In, WaitingToRead, WaitingToWrite
<1>3. CountersExact'
  BY <1>1, <1>2 DEF CountersExact, WaitingToRead, WaitingToWrite
<1> QED
  BY <1>1, <1>2, <1>3 DEF MonitorTypeOK, MutualExclusion, WriterNotStranded

-----------------------------------------------------------------------------
(****************************************************************************)
(* The theorems.                                                            *)
(****************************************************************************)

\* Every step of the monitor keeps the invariant.
LEMMA MonitorInvariantStep == MonitorInv /\ [MonitorNext]_monitorVars => MonitorInv'
<1> SUFFICES ASSUME MonitorInv, [MonitorNext]_monitorVars PROVE MonitorInv'
  OBVIOUS
<1>1. CASE MonitorNext
  <2> PICK t \in Thread : \/ ReaderCheckin(t) \/ ReaderCheckout(t)
                         \/ WriterCheckin(t) \/ WriterCheckout(t)
                         \/ WakeSpuriously(t)
    BY <1>1 DEF MonitorNext
  <2> QED
    BY ReaderCheckinStep, ReaderCheckoutStep, WriterCheckinStep,
       WriterCheckoutStep, WakeSpuriouslyStep
<1>2. CASE UNCHANGED monitorVars
  BY <1>2 DEF monitorVars, MonitorInv, MonitorTypeOK, CountersExact, MutualExclusion,
              WriterNotStranded, In
<1> QED
  BY <1>1, <1>2

\* monitor_init establishes the invariant.
LEMMA MonitorInvariantInit == MonitorInit => MonitorInv
<1> SUFFICES ASSUME MonitorInit PROVE MonitorInv
  OBVIOUS
<1>1. \A p \in Phase \ {"out"} : In(p) = {}
  BY DEF MonitorInit, In, Phase
<1>2. CountersExact
  BY <1>1, FS_EmptySet DEF CountersExact, MonitorInit, Phase
<1> QED
  BY <1>1, <1>2 DEF MonitorInv, MonitorInit, MonitorTypeOK, MutualExclusion,
                    WriterNotStranded, Phase

\* The inductive invariant holds of every behaviour of the monitor.
THEOREM MonitorInvariant == MonitorSpec => []MonitorInv
<1> QED
  BY MonitorInvariantInit, MonitorInvariantStep, PTL DEF MonitorSpec

\* The counters of Monitor_t stay natural numbers (monitor_init and the four
\* check-in and check-out routines): no check-out takes one below zero.
THEOREM MonitorTypeCorrect == MonitorSpec => []MonitorTypeOK
BY MonitorInvariant, PTL DEF MonitorInv

\* AR, WR and AW count exactly the threads that read, wait to read and write.
THEOREM CountersCount == MonitorSpec => []CountersExact
BY MonitorInvariant, PTL DEF MonitorInv

\* No writer shares the list of clients with anybody, for any number of threads.
THEOREM WritersExclude == MonitorSpec => []MutualExclusion
BY MonitorInvariant, PTL DEF MonitorInv

\* No writer is left waiting at a free monitor without a wakeup: WW never
\* going down again costs no writer its turn.
THEOREM WritersNotStranded == MonitorSpec => []WriterNotStranded
BY MonitorInvariant, PTL DEF MonitorInv

\* A reader that gets in passed the test of reader_checkin, which no state with
\* a waiting writer satisfies.
LEMMA ReaderGetsIn ==
  ASSUME MonitorInv, [MonitorNext]_monitorVars,
         NEW t \in Thread, phase[t] # "reading", phase'[t] = "reading"
  PROVE  In("wwait") \cup In("wwoken") = {}
<1> USE DEF MonitorInv, MonitorTypeOK
<1>1. MonitorNext
  BY DEF monitorVars
<1>2. PICK u \in Thread : \/ ReaderCheckin(u) \/ ReaderCheckout(u)
                         \/ WriterCheckin(u) \/ WriterCheckout(u)
                         \/ WakeSpuriously(u)
  BY <1>1 DEF MonitorNext
<1>3. CASE ReaderCheckin(u)
  <2>1. ~ReaderBlocked
    BY <1>3 DEF ReaderCheckin, Phase
  <2> QED
    BY <2>1 DEF ReaderBlocked, CountersExact
<1>4. CASE ReaderCheckout(u) \/ WriterCheckout(u)
  <2>1. In("reading")' \subseteq In("reading")
    BY <1>4, Wakeups DEF ReaderCheckout, WriterCheckout
  <2> QED
    BY <2>1 DEF In
<1>5. CASE WriterCheckin(u) \/ WakeSpuriously(u)
  BY <1>5 DEF WriterCheckin, WakeSpuriously, Phase
<1> QED
  BY <1>2, <1>3, <1>4, <1>5

\* "Give priority to writers" (server_types.h 274) as the readers see it: none
\* gets in past a writer that waits.
THEOREM WritersFirst == MonitorSpec => WriterPriority
<1>1. MonitorInv /\ [MonitorNext]_monitorVars =>
        [\A t \in Thread : phase[t] # "reading" /\ phase'[t] = "reading"
                            => In("wwait") \cup In("wwoken") = {}]_monitorVars
  BY ReaderGetsIn
<1> QED
  BY <1>1, MonitorInvariant, PTL DEF MonitorSpec, WriterPriority

-----------------------------------------------------------------------------
(****************************************************************************)
(* The monitor implements the readers-writer lock of RWLock.                *)
(****************************************************************************)

\* Getting in acquires, checking out releases, and everything between is a
\* stutter of the lock.
LEMMA LockStep ==
  ASSUME MonitorInv, [MonitorNext]_monitorVars
  PROVE  [Lock!LockNext]_(Lock!lockVars)
<1> USE DEF MonitorInv, MonitorTypeOK, Lock!LockNext, Lock!lockVars
<1>1. CASE UNCHANGED monitorVars
  BY <1>1 DEF monitorVars, In
<1>2. CASE MonitorNext
  <2>1. PICK t \in Thread : \/ ReaderCheckin(t) \/ ReaderCheckout(t)
                           \/ WriterCheckin(t) \/ WriterCheckout(t)
                           \/ WakeSpuriously(t)
    BY <1>2 DEF MonitorNext
  <2>2. CASE ReaderCheckin(t)
    <3>1. In("writing")' = In("writing")
      BY <2>2 DEF ReaderCheckin, In, Phase
    <3>2. CASE ReaderBlocked /\ phase' = [phase EXCEPT ![t] = "rwait"]
      <4>1. In("reading")' = In("reading")
        BY <2>2, <3>2 DEF ReaderCheckin, In
      <4> QED
        BY <3>1, <4>1
    <3>3. CASE ~ReaderBlocked /\ phase' = [phase EXCEPT ![t] = "reading"]
      <4>1. In("reading")' = In("reading") \cup {t} /\ t \notin In("reading")
        BY <2>2, <3>3 DEF ReaderCheckin, In
      <4>2. In("writing") = {}
        BY <3>3, InThread, ThreadSets DEF ReaderBlocked, CountersExact
      <4> QED
        BY <3>1, <4>1, <4>2 DEF Lock!AcquireRead
    <3> QED
      BY <2>2, <3>2, <3>3 DEF ReaderCheckin
  <2>3. CASE WriterCheckin(t)
    <3>1. In("reading")' = In("reading")
      BY <2>3 DEF WriterCheckin, In, Phase
    <3>2. CASE WriterBlocked /\ phase' = [phase EXCEPT ![t] = "wwait"]
      <4>1. In("writing")' = In("writing")
        BY <2>3, <3>2 DEF WriterCheckin, In
      <4> QED
        BY <3>1, <4>1
    <3>3. CASE ~WriterBlocked /\ phase' = [phase EXCEPT ![t] = "writing"]
      <4>1. In("writing") = {} /\ In("reading") = {}
        BY <3>3, InThread, ThreadSets DEF WriterBlocked, CountersExact
      <4>2. In("writing")' = {t}
        BY <3>3, <4>1 DEF In
      <4> QED
        BY <3>1, <4>1, <4>2 DEF Lock!AcquireWrite
    <3> QED
      BY <2>3, <3>2, <3>3 DEF WriterCheckin
  <2>4. CASE ReaderCheckout(t)
    <3>1. /\ In("reading")' = In("reading") \ {t}
          /\ In("writing")' = In("writing") \ {t}
          /\ t \in In("reading") /\ t \notin In("writing")
      BY <2>4, Wakeups DEF ReaderCheckout, In
    <3> QED
      BY <3>1 DEF Lock!ReleaseRead
  <2>5. CASE WriterCheckout(t)
    <3>1. /\ In("reading")' = In("reading") \ {t}
          /\ In("writing")' = In("writing") \ {t}
          /\ t \in In("writing") /\ t \notin In("reading")
      BY <2>5, Wakeups DEF WriterCheckout, In
    <3> QED
      BY <3>1 DEF Lock!ReleaseWrite
  <2>6. CASE WakeSpuriously(t)
    <3>1. In("reading")' = In("reading") /\ In("writing")' = In("writing")
      BY <2>6 DEF WakeSpuriously, In
    <3> QED
      BY <3>1
  <2> QED
    BY <2>1, <2>2, <2>3, <2>4, <2>5, <2>6
<1> QED
  BY <1>1, <1>2

\* The handlers may reason with RWLock instead of the counters and conditions.
THEOREM MonitorImplementsLock == MonitorSpec => ImplementsLock
<1>1. MonitorInit => Lock!LockInit
  BY DEF MonitorInit, Lock!LockInit, In
<1>2. MonitorInv /\ [MonitorNext]_monitorVars => [Lock!LockNext]_(Lock!lockVars)
  BY LockStep
<1> QED
  BY <1>1, <1>2, MonitorInvariant, PTL DEF MonitorSpec, ImplementsLock, Lock!LockSpec
=============================================================================
