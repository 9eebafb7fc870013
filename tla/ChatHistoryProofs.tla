--------------------------- MODULE ChatHistoryProofs ---------------------------
(****************************************************************************)
(* Proofs about the chat history, for every size of the array and any       *)
(* number of handlers.  The inductive invariant says where the message of   *)
(* each say handler is, as long as no two handlers met between the test and *)
(* the increment of the count; a second one, what newcomers have been sent. *)
(****************************************************************************)
EXTENDS ChatHistory, TLAPS

Busy(w) == sayer[w].pc # "idle"
Recorders == {w \in Sayer : sayer[w].pc \in Recording}
Stored == {w \in Sayer : sayer[w].pc \in {"load", "write"}}

\* A message belongs to one handler, or was left by one that has returned.
MessagesOwned ==
  /\ \A w \in Sayer : Busy(w) => sayer[w].msg \in 1 .. said /\ sayer[w].msg \notin done
  /\ \A v, w \in Sayer : Busy(v) /\ Busy(w) /\ sayer[v].msg = sayer[w].msg => v = w
  /\ \A m \in done : m <= said
  /\ \A s \in Slot : chat_history[s] <= said

Below(m) == \E s \in Slot : s < chat_historyc /\ chat_history[s] = m

\* The array is filled up to the count, and one further by a handler that has
\* stored its message and has still to increment the count.
Filled ==
  /\ chat_historyc <= MAX_MSGS
  /\ \A s \in Slot : chat_history[s] # NULL
                       <=> s < chat_historyc \/ (s = chat_historyc /\ Stored # {})
  /\ \A s, t \in Slot : s # t /\ chat_history[s] = chat_history[t] => chat_history[s] = NULL

\* What each handler has read is still so.
HandlersAlone ==
  /\ \A v, w \in Recorders : v = w
  /\ \A w \in Recorders : chat_historyc < MAX_MSGS
  /\ \A w \in Sayer : /\ sayer[w].pc \in {"store", "write"} => sayer[w].reg = chat_historyc
                      /\ sayer[w].pc \in {"load", "write"}
                           => chat_history[chat_historyc] = sayer[w].msg

\* Where the messages are.
MessagesPlaced ==
  /\ \A w \in Sayer : /\ sayer[w].pc \in {"test", "index", "store"}
                           => \A s \in Slot : chat_history[s] # sayer[w].msg
                      /\ sayer[w].pc = "broadcast"
                           => (chat_historyc < MAX_MSGS => Below(sayer[w].msg))
  /\ \A m \in done : chat_historyc < MAX_MSGS => Below(m)

Alone == Filled /\ HandlersAlone /\ MessagesPlaced

IInv == TypeOK /\ MessagesOwned /\ (~raced => Alone)

-----------------------------------------------------------------------------
LEMMA InvariantInit == Init => IInv
<1> SUFFICES ASSUME Init PROVE IInv
  OBVIOUS
<1>0. MAX_MSGS \in Nat \ {0} /\ MaxSays \in Nat /\ 0 \in 0 .. MaxSays /\ NULL = 0
  BY HistoryAssumption DEF NULL
<1>1. sayer \in [Sayer -> [pc : {"idle", "test", "broadcast"} \cup Recording,
                           msg : Message \cup {NULL}, reg : Nat]]
  BY DEF Init
<1>2. joiner \in [Joiner -> [pc : {"add", "compare", "subtract", "send", "done"},
                             start : Int, i : Int]]
  BY DEF Init
<1>3. got \in [Joiner -> Seq(Message)] /\ chat_history \in [Slot -> Message \cup {NULL}]
  BY DEF Init
<1>4. TypeOK
  BY <1>0, <1>1, <1>2, <1>3 DEF Init, TypeOK
<1>5. \A w \in Sayer : sayer[w].pc = "idle"
  BY DEF Init
<1>6. Recorders = {} /\ Stored = {}
  BY <1>5 DEF Recorders, Stored, Recording
<1>7. MessagesOwned
  BY <1>0, <1>5 DEF Init, MessagesOwned, Busy
<1>8. Alone
  BY <1>0, <1>5, <1>6 DEF Init, Alone, Filled, HandlersAlone, MessagesPlaced, Slot
<1> QED
  BY <1>4, <1>7, <1>8 DEF IInv

\* The types.
SayPc == {"idle", "test", "broadcast"} \cup Recording
SayerRecord == [pc : SayPc, msg : Message \cup {NULL}, reg : Nat]

LEMMA TypeStep == TypeOK /\ MessagesOwned /\ [Next]_vars => TypeOK'
<1> SUFFICES ASSUME TypeOK, MessagesOwned, [Next]_vars PROVE TypeOK'
  OBVIOUS
<1>1. ASSUME NEW w \in Sayer, SayStep(w) PROVE TypeOK'
  <2> USE DEF SayAt, SayGoto, historyVars, joinVars
  <2>1. /\ sayer \in [Sayer -> SayerRecord] /\ chat_historyc \in Nat
        /\ said \in Nat /\ said <= MaxSays /\ MaxSays \in Nat
    <3>1. sayer \in [Sayer -> SayerRecord]
      BY Zenon DEF TypeOK, SayerRecord, SayPc
    <3>2. chat_historyc \in Nat /\ said \in 0 .. MaxSays
      BY DEF TypeOK
    <3> QED BY <3>1, <3>2, HistoryAssumption
  <2>2. ASSUME NEW r \in SayerRecord, sayer' = [sayer EXCEPT ![w] = r]
        PROVE  sayer' \in [Sayer -> SayerRecord]
    BY <2>1, <2>2
  <2>3. ASSUME NEW pc \in SayPc, SayGoto(w, pc) PROVE sayer' \in [Sayer -> SayerRecord]
    <3>1. PICK r : r = [sayer[w] EXCEPT !.pc = pc]
      OBVIOUS
    <3>2. r \in SayerRecord
      BY <2>1, <3>1 DEF SayerRecord
    <3> QED BY <2>2, <2>3, <3>1, <3>2
  <2>4. ASSUME NEW pc \in SayPc, NEW reg \in Nat,
               sayer' = [sayer EXCEPT ![w].pc = pc, ![w].reg = reg]
        PROVE  sayer' \in [Sayer -> SayerRecord]
    <3>1. PICK r : r = [sayer[w] EXCEPT !.pc = pc, !.reg = reg]
      OBVIOUS
    <3>2. r \in SayerRecord
      BY <2>1, <3>1 DEF SayerRecord
    <3> QED BY <2>2, <2>4, <3>1, <3>2
  <2>5. sayer' \in [Sayer -> SayerRecord]
    <3>1. CASE StartSay(w)
      <4>1. PICK r : r = [pc |-> "test", msg |-> said + 1, reg |-> 0]
        OBVIOUS
      <4>2. r \in SayerRecord
        BY <2>1, <3>1, <4>1 DEF StartSay, SayerRecord, SayPc, Message
      <4> QED BY <2>2, <3>1, <4>1, <4>2 DEF StartSay
    <3>2. CASE TestRoom(w) \/ Store(w) \/ WriteCount(w) \/ Broadcast(w)
      BY <2>3, <3>2 DEF TestRoom, Store, WriteCount, Broadcast, SayPc, Recording
    <3>3. CASE ReadIndex(w) \/ LoadCount(w)
      BY <2>1, <2>4, <3>3 DEF ReadIndex, LoadCount, SayPc, Recording
    <3> QED BY <1>1, <3>1, <3>2, <3>3 DEF SayStep
  <2>6. /\ chat_history' \in [Slot -> Message \cup {NULL}]
        /\ chat_historyc' \in Nat
    <3>1. CASE Store(w)
      <4>1. chat_history \in [Slot -> Message \cup {NULL}]
        BY DEF TypeOK
      <4>2. sayer[w].msg \in Message \cup {NULL}
        BY <2>1 DEF SayerRecord
      <4> QED BY <2>1, <3>1, <4>1, <4>2 DEF Store
    <3>2. CASE WriteCount(w)
      <4>1. sayer[w].reg + 1 \in Nat
        BY <2>1 DEF SayerRecord
      <4> QED BY <3>2, <4>1 DEF WriteCount, TypeOK
    <3>3. CASE UNCHANGED historyVars
      BY <3>3 DEF TypeOK
    <3> QED
      BY <1>1, <3>1, <3>2, <3>3
      DEF SayStep, StartSay, TestRoom, ReadIndex, LoadCount, Broadcast
  <2>7. /\ got' \in [Joiner -> Seq(Message)] /\ done' \subseteq Message
    <3>1. got \in [Joiner -> Seq(Message)] /\ done \subseteq Message
      BY DEF TypeOK
    <3>2. CASE Broadcast(w)
      <4>1. sayer[w].msg \in Message
        BY <2>1, <3>2, HistoryAssumption
        DEF Broadcast, MessagesOwned, Busy, Message, SayerRecord, TypeOK
      <4>2. \A j \in Joiner : Append(got[j], sayer[w].msg) \in Seq(Message)
        BY <3>1, <4>1
      <4>3. got' = [j \in Joiner |-> IF j \in listed THEN Append(got[j], sayer[w].msg)
                                                     ELSE got[j]]
        BY <3>2 DEF Broadcast
      <4>4. got' \in [Joiner -> Seq(Message)]
        BY <3>1, <4>2, <4>3, Zenon
      <4>5. done' = done \cup {sayer[w].msg}
        BY <3>2 DEF Broadcast
      <4>6. done' \subseteq Message
        BY <3>1, <4>1, <4>5
      <4> QED BY <4>4, <4>6
    <3>3. CASE got' = got /\ done' = done
      BY <3>1, <3>3
    <3> QED
      BY <1>1, <3>2, <3>3
      DEF SayStep, StartSay, TestRoom, ReadIndex, Store, LoadCount, WriteCount
  <2>8. said' \in 0 .. MaxSays /\ UNCHANGED joinVars /\ raced' \in BOOLEAN
    <3>1. raced \in BOOLEAN
      BY DEF TypeOK
    <3>2. CASE StartSay(w)
      BY <2>1, <3>1, <3>2 DEF StartSay
    <3>3. CASE TestRoom(w)
      BY <2>1, <3>3 DEF TestRoom
    <3> QED
      BY <1>1, <2>1, <3>1, <3>2, <3>3
      DEF SayStep, ReadIndex, Store, LoadCount, WriteCount, Broadcast
  <2> QED BY <2>5, <2>6, <2>7, <2>8 DEF TypeOK, SayerRecord, SayPc
<1> USE DEF TypeOK
<1>2. ASSUME NEW j \in Joiner, JoinStep(j) PROVE TypeOK'
  <2> USE DEF JoinAt, historyVars, joinVars, sayVars
  <2>1. CASE AddNewcomer(j)
    BY <2>1 DEF AddNewcomer
  <2>2. CASE CompareCount(j)
    BY <2>2 DEF CompareCount
  <2>3. CASE SubtractSize(j)
    BY <2>3, HistoryAssumption DEF SubtractSize
  <2>4. CASE SendEntry(j)
    <3>1. PICK m \in Message \cup {NULL} :
            got' = IF m = NULL THEN got ELSE [got EXCEPT ![j] = Append(@, m)]
      BY <2>4 DEF SendEntry
    <3>2. m # NULL => Append(got[j], m) \in Seq(Message)
      BY <1>2
    <3>3. got' \in [Joiner -> Seq(Message)]
      BY <3>1, <3>2
    <3>4. joiner' \in [Joiner -> [pc : {"add", "compare", "subtract", "send", "done"},
                                 start : Int, i : Int]]
      <4>1. joiner' = [joiner EXCEPT ![j].i = joiner[j].i + 1] /\ joiner[j].i + 1 \in Int
        BY <1>2, <2>4 DEF SendEntry
      <4> QED
        BY <4>1
    <3> QED
      BY <2>4, <3>3, <3>4 DEF SendEntry
  <2>5. CASE EndJoin(j)
    BY <2>5 DEF EndJoin
  <2> QED
    BY <1>2, <2>1, <2>2, <2>3, <2>4, <2>5 DEF JoinStep
<1>3. CASE UNCHANGED vars
  BY <1>3 DEF vars
<1> QED
  BY <1>1, <1>2, <1>3 DEF Next

-----------------------------------------------------------------------------
\* Handlers of conn$ only read the history.
LEMMA QuietStep ==
  ASSUME IInv, UNCHANGED <<historyVars, sayVars>>
  PROVE  MessagesOwned' /\ (~raced' => Alone')
BY DEF IInv, historyVars, sayVars, MessagesOwned, Busy, Alone, Filled, HandlersAlone,
       MessagesPlaced, Below, Recorders, Stored

\* A say handler starts with a message of its own and ends by giving it up.
LEMMA OwnedStep ==
  ASSUME TypeOK, MessagesOwned, NEW w \in Sayer, SayStep(w)
  PROVE  MessagesOwned'
<1> USE DEF MessagesOwned, Busy, SayAt, SayGoto, historyVars
<1>1. CASE StartSay(w)
  <2>1. /\ said \in Nat /\ said' = said + 1 /\ done' = done /\ chat_history' = chat_history
        /\ sayer'[w] = [pc |-> "test", msg |-> said + 1, reg |-> 0]
        /\ \A v \in Sayer \ {w} : sayer'[v] = sayer[v]
        /\ \A m \in done : m \in Nat
        /\ \A s \in Slot : chat_history[s] \in Nat
    BY <1>1, HistoryAssumption DEF StartSay, TypeOK, Message, NULL
  <2> QED
    BY <2>1
<1>2. CASE TestRoom(w)
  BY <1>2 DEF TestRoom, TypeOK
<1>3. CASE ReadIndex(w)
  BY <1>3 DEF ReadIndex, TypeOK
<1>4. CASE Store(w)
  BY <1>4 DEF Store, TypeOK
<1>5. CASE LoadCount(w)
  BY <1>5 DEF LoadCount, TypeOK
<1>6. CASE WriteCount(w)
  BY <1>6 DEF WriteCount, TypeOK
<1>7. CASE Broadcast(w)
  BY <1>7 DEF Broadcast, TypeOK
<1> QED
  BY <1>1, <1>2, <1>3, <1>4, <1>5, <1>6, <1>7 DEF SayStep

\* The handler that records is alone between its test and its increment, so what
\* it has read of the count is still so when it stores and increments.
LEMMA AloneStep ==
  ASSUME TypeOK, MessagesOwned, ~raced => Alone, NEW w \in Sayer, SayStep(w), ~raced'
  PROVE  Alone'
<1> USE DEF SayAt, SayGoto, historyVars
<1>0. /\ chat_historyc \in Nat /\ MAX_MSGS \in Nat /\ NULL = 0
      /\ \A s \in Slot : s \in Nat /\ s < MAX_MSGS
      /\ \A s \in Nat : s < MAX_MSGS => s \in Slot
  BY HistoryAssumption DEF TypeOK, Slot, NULL
<1>1. ~raced /\ Alone
  <2>1. CASE TestRoom(w)
    BY <2>1, Zenon DEF TestRoom
  <2>2. CASE raced' = raced
    BY <2>2
  <2> QED
    BY <2>1, <2>2 DEF SayStep, StartSay, ReadIndex, Store, LoadCount, WriteCount, Broadcast
<1>2. CASE StartSay(w)
  <2>1. /\ sayer'[w].pc = "test" /\ sayer'[w].msg = said + 1 /\ sayer[w].pc = "idle"
        /\ \A v \in Sayer \ {w} : sayer'[v] = sayer[v]
        /\ UNCHANGED <<chat_history, chat_historyc, done>>
    BY <1>2 DEF StartSay, TypeOK
  <2>2. Recorders' = Recorders /\ Stored' = Stored
    BY <2>1 DEF Recorders, Stored, Recording
  <2>3. said \in Nat /\ \A s \in Slot : chat_history[s] \in Nat /\ chat_history[s] <= said
    BY HistoryAssumption DEF TypeOK, MessagesOwned, Message, NULL
  <2>4. Filled' /\ HandlersAlone'
    BY <1>1, <2>1, <2>2 DEF Alone, Filled, HandlersAlone
  <2>5. MessagesPlaced'
    BY <1>1, <2>1, <2>3 DEF Alone, MessagesPlaced, Below
  <2> QED
    BY <2>4, <2>5 DEF Alone
<1>3. CASE TestRoom(w)
  <2>1. /\ sayer'[w].pc = IF chat_historyc < MAX_MSGS THEN "index" ELSE "broadcast"
        /\ sayer'[w].msg = sayer[w].msg /\ sayer[w].pc = "test"
        /\ \A v \in Sayer \ {w} : sayer'[v] = sayer[v] /\ sayer[v].pc \notin Recording
        /\ UNCHANGED <<chat_history, chat_historyc, done>>
    BY <1>3 DEF TestRoom, TypeOK
  <2>2. Recorders' \subseteq {w} /\ Stored = {} /\ Stored' = {}
    BY <2>1 DEF Recorders, Stored, Recording
  <2>3. Filled'
    BY <1>1, <2>1, <2>2 DEF Alone, Filled
  <2>4. HandlersAlone'
    BY <1>1, <2>1, <2>2 DEF HandlersAlone, Recorders, Recording
  <2>5. MessagesPlaced'
    BY <1>0, <1>1, <2>1 DEF Alone, MessagesPlaced, Below
  <2> QED
    BY <2>3, <2>4, <2>5 DEF Alone
<1>4. CASE ReadIndex(w)
  <2>1. /\ sayer'[w].pc = "store" /\ sayer'[w].reg = chat_historyc
        /\ sayer'[w].msg = sayer[w].msg /\ sayer[w].pc = "index"
        /\ \A v \in Sayer \ {w} : sayer'[v] = sayer[v]
        /\ UNCHANGED <<chat_history, chat_historyc, done>>
    BY <1>4 DEF ReadIndex, TypeOK
  <2>2. Recorders' = Recorders /\ Stored' = Stored
    BY <2>1 DEF Recorders, Stored, Recording
  <2>3. Filled' /\ HandlersAlone'
    BY <1>1, <2>1, <2>2 DEF Alone, Filled, HandlersAlone
  <2>4. MessagesPlaced'
    BY <1>1, <2>1 DEF Alone, MessagesPlaced, Below
  <2> QED
    BY <2>3, <2>4 DEF Alone
<1>5. CASE Store(w)
  <2> DEFINE m == sayer[w].msg
  <2>1. w \in Recorders /\ sayer[w].reg = chat_historyc /\ chat_historyc \in Slot
    BY <1>0, <1>1, <1>5 DEF Store, Alone, HandlersAlone, Recorders, Recording
  <2>2. /\ sayer'[w].pc = "load" /\ sayer'[w].msg = m /\ sayer[w].pc = "store"
        /\ \A v \in Sayer \ {w} : sayer'[v] = sayer[v] /\ sayer[v].pc \notin Recording
        /\ UNCHANGED <<chat_historyc, done>>
        /\ chat_history'[chat_historyc] = m
        /\ \A s \in Slot \ {chat_historyc} : chat_history'[s] = chat_history[s]
    BY <1>1, <1>5, <2>1 DEF Store, TypeOK, Alone, HandlersAlone, Recorders
  <2>3. Recorders' = {w} /\ Stored = {} /\ Stored' = {w}
    BY <2>2 DEF Recorders, Stored, Recording
  <2>4. /\ m # NULL
        /\ \A v \in Sayer \ {w} : sayer[v].pc # "idle" => sayer[v].msg # m
        /\ \A s \in Slot : chat_history[s] # m
    BY <1>0, <1>1, <2>2 DEF MessagesOwned, Busy, Alone, MessagesPlaced, TypeOK
  <2>5. Filled'
    BY <1>0, <1>1, <2>1, <2>2, <2>3, <2>4 DEF Alone, Filled
  <2>6. HandlersAlone'
    BY <1>1, <2>1, <2>2, <2>3 DEF Alone, HandlersAlone, Recording
  <2>7. MessagesPlaced'
    <3>1. ASSUME NEW x, Below(x) PROVE Below(x)'
      BY <1>0, <2>2, <3>1 DEF Below
    <3> QED
      BY <1>1, <2>2, <2>4, <3>1 DEF Alone, MessagesPlaced
  <2> QED
    BY <2>5, <2>6, <2>7 DEF Alone
<1>6. CASE LoadCount(w)
  <2>1. /\ sayer'[w].pc = "write" /\ sayer'[w].reg = chat_historyc
        /\ sayer'[w].msg = sayer[w].msg /\ sayer[w].pc = "load"
        /\ \A v \in Sayer \ {w} : sayer'[v] = sayer[v]
        /\ UNCHANGED <<chat_history, chat_historyc, done>>
    BY <1>6 DEF LoadCount, TypeOK
  <2>2. Recorders' = Recorders /\ Stored' = Stored
    BY <2>1 DEF Recorders, Stored, Recording
  <2>3. Filled' /\ HandlersAlone'
    BY <1>1, <2>1, <2>2 DEF Alone, Filled, HandlersAlone
  <2>4. MessagesPlaced'
    BY <1>1, <2>1 DEF Alone, MessagesPlaced, Below
  <2> QED
    BY <2>3, <2>4 DEF Alone
<1>7. CASE WriteCount(w)
  <2> DEFINE m == sayer[w].msg
  <2>1. /\ w \in Recorders /\ w \in Stored /\ sayer[w].reg = chat_historyc
        /\ chat_historyc \in Slot /\ chat_historyc < MAX_MSGS
        /\ chat_history[chat_historyc] = m
    BY <1>0, <1>1, <1>7 DEF WriteCount, Alone, HandlersAlone, Recorders, Stored, Recording
  <2>2. /\ sayer'[w].pc = "broadcast" /\ sayer'[w].msg = m /\ sayer[w].pc = "write"
        /\ \A v \in Sayer \ {w} : sayer'[v] = sayer[v] /\ sayer[v].pc \notin Recording
        /\ UNCHANGED <<chat_history, done>>
        /\ chat_historyc' = chat_historyc + 1
    BY <1>1, <1>7, <2>1 DEF WriteCount, TypeOK, Alone, HandlersAlone, Recorders
  <2>3. Recorders' = {} /\ Stored' = {}
    BY <2>2 DEF Recorders, Stored, Recording
  <2>4. Filled'
    BY <1>0, <1>1, <2>1, <2>2, <2>3 DEF Alone, Filled
  <2>5. HandlersAlone'
    BY <2>2, <2>3 DEF HandlersAlone, Recording
  <2>6. MessagesPlaced'
    <3>1. ASSUME NEW x, Below(x) PROVE Below(x)'
      BY <1>0, <2>2, <3>1 DEF Below
    <3>2. Below(m)'
      BY <1>0, <2>1, <2>2 DEF Below
    <3> QED
      BY <1>0, <1>1, <2>1, <2>2, <3>1, <3>2 DEF Alone, MessagesPlaced
  <2> QED
    BY <2>4, <2>5, <2>6 DEF Alone
<1>8. CASE Broadcast(w)
  <2>1. /\ sayer'[w].pc = "idle" /\ sayer[w].pc = "broadcast"
        /\ \A v \in Sayer \ {w} : sayer'[v] = sayer[v]
        /\ UNCHANGED <<chat_history, chat_historyc>> /\ done' = done \cup {sayer[w].msg}
    BY <1>8 DEF Broadcast, TypeOK
  <2>2. Recorders' = Recorders /\ Stored' = Stored
    BY <2>1 DEF Recorders, Stored, Recording
  <2>3. Filled' /\ HandlersAlone'
    BY <1>1, <2>1, <2>2 DEF Alone, Filled, HandlersAlone
  <2>4. MessagesPlaced'
    BY <1>1, <2>1 DEF Alone, MessagesPlaced, Below
  <2> QED
    BY <2>3, <2>4 DEF Alone
<1> QED
  BY <1>2, <1>3, <1>4, <1>5, <1>6, <1>7, <1>8 DEF SayStep

LEMMA InvariantStep == IInv /\ [Next]_vars => IInv'
<1> SUFFICES ASSUME IInv, [Next]_vars PROVE IInv'
  OBVIOUS
<1>1. TypeOK'
  BY TypeStep DEF IInv
<1>2. CASE \E w \in Sayer : SayStep(w)
  BY <1>1, <1>2, OwnedStep, AloneStep DEF IInv
<1>3. CASE UNCHANGED <<historyVars, sayVars>>
  BY <1>1, <1>3, QuietStep DEF IInv
<1>4. ASSUME NEW j \in Joiner, JoinStep(j) PROVE UNCHANGED <<historyVars, sayVars>>
  BY <1>4 DEF JoinStep, AddNewcomer, CompareCount, SubtractSize, SendEntry, EndJoin
<1>5. UNCHANGED vars => UNCHANGED <<historyVars, sayVars>>
  BY DEF vars, historyVars, sayVars
<1> QED
  BY <1>2, <1>3, <1>4, <1>5 DEF Next

\* At every load and store of say's unlocked lines 184-186 the invariant knows where
\* the message of each handler is and, as long as no two of them have raced, that a
\* handler still sees what it read.
THEOREM InductiveInvariant == Spec => []IInv
BY InvariantInit, InvariantStep, PTL DEF Spec

-----------------------------------------------------------------------------
\* Types, the newcomers' messages included (server_interface.c 62-96, 161-199).
THEOREM TypeCorrect == Spec => []TypeOK
BY InductiveInvariant, PTL DEF IInv

\* Without a race between the test and the increment, every message of a handler
\* that has returned is in the history once, and the history stays in its array
\* (server_interface.c 184-187).
THEOREM LoneSaysAreRecorded == Spec => []LoneSaysRecorded
<1>1. IInv => LoneSaysRecorded
  BY DEF IInv, Alone, Filled, MessagesPlaced, Below, LoneSaysRecorded
<1> QED
  BY <1>1, InductiveInvariant, PTL

-----------------------------------------------------------------------------
(****************************************************************************)
(* The newcomers.  A second invariant, inductive under the first: the       *)
(* entries from a newcomer's start up to where it is have been sent to it,  *)
(* and that is never past the count.                                        *)
(****************************************************************************)
JoinersKnown ==
  \A j \in Joiner :
    /\ joiner[j].pc # "add" => j \in listed
    /\ joiner[j].pc \in {"add", "compare", "subtract"} => joiner[j].start = 0 /\ joiner[j].i = 0

WindowsSent ==
  \A j \in Joiner :
    /\ joiner[j].pc = "subtract" => chat_historyc >= CHAT_HISTORY_SIZE
    /\ 0 <= joiner[j].start /\ joiner[j].start <= joiner[j].i /\ joiner[j].i <= chat_historyc
    /\ \A s \in Slot : joiner[j].start <= s /\ s < joiner[j].i
                         => chat_history[s] \in ToSet(got[j])

JoinInv == JoinersKnown /\ (~raced => WindowsSent) /\ NothingMissed

\* One more message.
LEMMA OneMoreGot ==
  ASSUME NEW g \in Seq(Message), NEW m \in Message
  PROVE  ToSet(Append(g, m)) = ToSet(g) \cup {m}
<1>1. PICK h : h = Append(g, m)
  OBVIOUS
<1>2. /\ h \in Seq(Message) /\ Len(h) = Len(g) + 1 /\ Len(g) \in Nat
      /\ \A k \in 1 .. Len(g) : h[k] = g[k]
      /\ h[Len(g) + 1] = m
  BY <1>1
<1>3. DOMAIN h = 1 .. Len(g) + 1 /\ DOMAIN g = 1 .. Len(g)
  BY <1>2
<1>4. ToSet(h) = ToSet(g) \cup {m}
  BY <1>2, <1>3 DEF ToSet
<1> QED BY <1>1, <1>4

\* The parts of the two invariants that the steps of the newcomers rest on.
LEMMA HistoryFacts ==
  ASSUME IInv, ~raced
  PROVE  /\ chat_historyc \in Nat /\ chat_historyc <= MAX_MSGS
         /\ \A s \in Slot : s < chat_historyc => chat_history[s] \in Message
         /\ \A m \in done : \/ \E s \in Slot : s < chat_historyc /\ chat_history[s] = m
                            \/ ~Recorded(m) /\ chat_historyc = MAX_MSGS
<1>1. Filled /\ MessagesPlaced /\ chat_historyc \in Nat /\ MAX_MSGS \in Nat
  BY HistoryAssumption DEF IInv, Alone, TypeOK
<1>2. \A s \in Slot : chat_history[s] \in Message \cup {NULL} /\ s \in Nat /\ s < MAX_MSGS
  BY <1>1 DEF IInv, TypeOK, Slot
<1> QED BY <1>1, <1>2 DEF Filled, MessagesPlaced, Below, Recorded

\* What a say handler does to the history and to what newcomers have got.
LEMMA SayEffects ==
  ASSUME IInv, NEW w \in Sayer, SayStep(w), ~raced'
  PROVE  /\ ~raced /\ UNCHANGED joinVars
         /\ chat_historyc' \in {chat_historyc, chat_historyc + 1}
         /\ chat_historyc = MAX_MSGS => UNCHANGED historyVars
         /\ \A s \in Slot : s < chat_historyc => chat_history'[s] = chat_history[s]
         /\ \A j \in Joiner : ToSet(got[j]) \subseteq ToSet(got'[j])
         /\ \A m \in done' \ done, j \in listed \cap Joiner : m \in ToSet(got'[j])
<1> USE DEF SayAt, SayGoto, joinVars, historyVars
<1>0. chat_historyc \in Nat /\ TypeOK
  BY DEF IInv, TypeOK
<1>1. ~raced
  <2>1. CASE TestRoom(w)
    BY <2>1, Zenon DEF TestRoom
  <2>2. CASE raced' = raced
    BY <2>2
  <2> QED
    BY <2>1, <2>2 DEF SayStep, StartSay, ReadIndex, Store, LoadCount, WriteCount, Broadcast
<1>2. w \in Recorders => chat_historyc < MAX_MSGS
  BY <1>1 DEF IInv, Alone, HandlersAlone
<1>3. CASE StartSay(w) \/ TestRoom(w) \/ ReadIndex(w) \/ LoadCount(w)
  BY <1>1, <1>3 DEF StartSay, TestRoom, ReadIndex, LoadCount
<1>4. CASE Store(w)
  <2>1. sayer[w].reg = chat_historyc /\ chat_historyc < MAX_MSGS
    BY <1>1, <1>2, <1>4 DEF Store, IInv, Alone, HandlersAlone, Recorders, Recording
  <2>2. \A s \in Slot : s # chat_historyc => chat_history'[s] = chat_history[s]
    BY <1>0, <1>4, <2>1 DEF Store, TypeOK
  <2> QED BY <1>0, <1>1, <1>4, <2>1, <2>2 DEF Store
<1>5. CASE WriteCount(w)
  <2>1. sayer[w].reg = chat_historyc /\ chat_historyc < MAX_MSGS
    BY <1>1, <1>2, <1>5 DEF WriteCount, IInv, Alone, HandlersAlone, Recorders, Recording
  <2> QED BY <1>0, <1>1, <1>5, <2>1 DEF WriteCount
<1>6. CASE Broadcast(w)
  <2>1. sayer[w].msg \in Message
    BY <1>6, HistoryAssumption DEF Broadcast, IInv, MessagesOwned, Busy, TypeOK, Message
  <2>2. \A j \in Joiner : got[j] \in Seq(Message)
    BY <1>0 DEF TypeOK
  <2>3. \A j \in Joiner : /\ ToSet(got[j]) \subseteq ToSet(got'[j])
                          /\ j \in listed => sayer[w].msg \in ToSet(got'[j])
    BY <1>6, <2>1, <2>2, OneMoreGot DEF Broadcast
  <2> QED BY <1>0, <1>1, <1>6, <2>3 DEF Broadcast
<1> QED BY <1>3, <1>4, <1>5, <1>6 DEF SayStep

\* Whatever say handlers do meanwhile, what a newcomer was sent stays sent.
LEMMA SaysKeepJoiners ==
  ASSUME IInv, JoinInv, NEW w \in Sayer, SayStep(w)
  PROVE  JoinInv'
<1>1. UNCHANGED joinVars
  BY DEF SayStep, StartSay, TestRoom, ReadIndex, Store, LoadCount, WriteCount, Broadcast
<1>2. JoinersKnown'
  BY <1>1 DEF JoinInv, JoinersKnown, joinVars
<1>3. CASE raced'
  BY <1>2, <1>3 DEF JoinInv, NothingMissed
<1>4. CASE ~raced'
  <2>1. /\ ~raced /\ chat_historyc \in Nat
        /\ chat_historyc' \in {chat_historyc, chat_historyc + 1}
        /\ chat_historyc = MAX_MSGS => UNCHANGED historyVars
        /\ \A s \in Slot : s < chat_historyc => chat_history'[s] = chat_history[s]
        /\ \A j \in Joiner : ToSet(got[j]) \subseteq ToSet(got'[j])
        /\ \A m \in done' \ done, j \in listed \cap Joiner : m \in ToSet(got'[j])
    BY <1>4, SayEffects, HistoryFacts
  <2>2. /\ WindowsSent /\ NothingMissed /\ JoinersKnown /\ CHAT_HISTORY_SIZE \in Nat
        /\ \A j \in Joiner : joiner[j].start \in Int /\ joiner[j].i \in Int
        /\ \A s \in Slot : s \in Nat
    BY <2>1, HistoryAssumption DEF JoinInv, IInv, TypeOK, Slot
  <2>3. WindowsSent'
    BY <1>1, <2>1, <2>2 DEF WindowsSent, joinVars
  <2>4. ASSUME NEW j \in Joiner, NEW m \in done', joiner[j].pc = "done", m \notin ToSet(got'[j])
        PROVE  \/ \E s \in Slot : s < joiner[j].start /\ chat_history'[s] = m
               \/ ~Recorded(m)' /\ chat_historyc' = MAX_MSGS
    <3>1. m \in done /\ m \notin ToSet(got[j])
      BY <2>1, <2>2, <2>4 DEF JoinersKnown
    <3>2. CASE \E s \in Slot : s < joiner[j].start /\ chat_history[s] = m
      BY <2>1, <2>2, <3>2 DEF WindowsSent
    <3>3. CASE ~Recorded(m) /\ chat_historyc = MAX_MSGS
      BY <2>1, <3>3 DEF Recorded, historyVars
    <3> QED BY <2>1, <2>2, <2>4, <3>1, <3>2, <3>3 DEF NothingMissed, JoinAt
  <2>5. NothingMissed'
    BY <1>1, <2>4 DEF NothingMissed, JoinAt, joinVars
  <2> QED BY <1>2, <2>3, <2>5 DEF JoinInv
<1> QED BY <1>3, <1>4

\* A step of a newcomer's handler extends its own window, by the entry it sends.
LEMMA JoinsKeepJoiners ==
  ASSUME IInv, JoinInv, NEW j \in Joiner, JoinStep(j)
  PROVE  JoinInv'
<1> USE DEF JoinAt
<1>0. /\ UNCHANGED <<chat_history, chat_historyc, done, raced>>
      /\ \A k \in Joiner \ {j} : joiner'[k] = joiner[k] /\ got'[k] = got[k]
      /\ \A k \in Joiner \ {j} : k \in listed' <=> k \in listed
      /\ joiner \in [Joiner -> [pc : {"add", "compare", "subtract", "send", "done"},
                                start : Int, i : Int]]
      /\ got \in [Joiner -> Seq(Message)]
      /\ chat_historyc \in Nat
  BY DEF IInv, TypeOK, JoinStep, AddNewcomer, CompareCount, SubtractSize, SendEntry, EndJoin,
         historyVars, sayVars
<1>1. JoinersKnown'
  <2>1. /\ listed \subseteq listed' /\ JoinersKnown
        /\ joiner'[j].pc # "add" /\ j \in listed'
        /\ joiner'[j].pc = "subtract" \/ joiner'[j].pc = "compare"
             => joiner'[j].start = 0 /\ joiner'[j].i = 0
    <3>1. CASE AddNewcomer(j)
      BY <1>0, <3>1 DEF AddNewcomer, JoinInv, JoinersKnown
    <3>2. CASE CompareCount(j)
      BY <1>0, <3>2 DEF CompareCount, JoinInv, JoinersKnown
    <3>3. CASE SubtractSize(j) \/ SendEntry(j) \/ EndJoin(j)
      <4>1. listed' = listed /\ joiner'[j].pc \in {"send", "done"} /\ joiner[j].pc # "add"
        BY <1>0, <3>3 DEF SubtractSize, SendEntry, EndJoin
      <4> QED BY <4>1 DEF JoinInv, JoinersKnown
    <3> QED BY <3>1, <3>2, <3>3 DEF JoinStep
  <2> QED BY <1>0, <2>1 DEF JoinersKnown
<1>2. CASE raced
  BY <1>0, <1>1, <1>2 DEF JoinInv, NothingMissed
<1>3. CASE ~raced
  <2>1. /\ WindowsSent /\ NothingMissed /\ JoinersKnown
        /\ chat_historyc <= MAX_MSGS /\ MAX_MSGS \in Nat /\ CHAT_HISTORY_SIZE \in Nat
        /\ \A s \in Slot : s < chat_historyc => chat_history[s] \in Message
        /\ \A m \in done : \/ \E s \in Slot : s < chat_historyc /\ chat_history[s] = m
                           \/ ~Recorded(m) /\ chat_historyc = MAX_MSGS
        /\ \A s \in Slot : s \in Nat
        /\ \A s \in Nat : s < MAX_MSGS => s \in Slot
    BY <1>3, HistoryFacts, HistoryAssumption DEF JoinInv, Slot
  <2> DEFINE Window(k) ==
               /\ joiner[k].pc = "subtract" => chat_historyc >= CHAT_HISTORY_SIZE
               /\ 0 <= joiner[k].start /\ joiner[k].start <= joiner[k].i
               /\ joiner[k].i <= chat_historyc
               /\ \A s \in Slot : joiner[k].start <= s /\ s < joiner[k].i
                                    => chat_history[s] \in ToSet(got[k])
             Complete(k) ==
               joiner[k].pc = "done" =>
                 \A m \in done : m \notin ToSet(got[k])
                   => \/ \E s \in Slot : s < joiner[k].start /\ chat_history[s] = m
                      \/ ~Recorded(m) /\ chat_historyc = MAX_MSGS
  <2>2. \A k \in Joiner : Window(k) /\ Complete(k)
    BY <1>3, <2>1 DEF WindowsSent, NothingMissed
  <2>3. ASSUME NEW k \in Joiner, k # j PROVE Window(k)' /\ Complete(k)'
    BY <1>0, <2>2, <2>3 DEF Recorded
  <2>4. Window(j)' /\ Complete(j)'
    <3>1. CASE AddNewcomer(j) \/ CompareCount(j)
      <4>1. /\ joiner'[j].start = 0 /\ joiner'[j].i = 0 /\ joiner'[j].pc # "done"
            /\ joiner'[j].pc = "subtract" => chat_historyc > CHAT_HISTORY_SIZE
        BY <1>0, <2>1, <3>1 DEF AddNewcomer, CompareCount, JoinersKnown
      <4> QED BY <1>0, <2>1, <4>1
    <3>2. CASE SubtractSize(j)
      <4>1. /\ joiner'[j].start = chat_historyc - CHAT_HISTORY_SIZE
            /\ joiner'[j].i = joiner'[j].start /\ joiner'[j].pc = "send"
        BY <1>0, <3>2 DEF SubtractSize
      <4>2. chat_historyc >= CHAT_HISTORY_SIZE
        BY <2>2, <3>2 DEF SubtractSize
      <4> QED BY <1>0, <2>1, <4>1, <4>2
    <3>3. CASE SendEntry(j)
      <4>1. PICK i \in Int : i = joiner[j].i
        BY <1>0
      <4>2. /\ joiner[j].pc = "send" /\ i < chat_historyc /\ 0 <= i /\ i \in Slot
            /\ joiner[j].start \in Int /\ joiner[j].start <= i /\ 0 <= joiner[j].start
        BY <1>0, <2>1, <2>2, <3>3, <4>1 DEF SendEntry
      <4>3. PICK m \in Message : m = chat_history[i]
        BY <2>1, <4>2
      <4>4. m # NULL
        BY <4>3 DEF Message, NULL
      <4>5. /\ got' = [got EXCEPT ![j] = Append(@, m)]
            /\ joiner'[j].pc = "send" /\ joiner'[j].start = joiner[j].start
            /\ joiner'[j].i = i + 1
        BY <1>0, <3>3, <4>1, <4>2, <4>3, <4>4 DEF SendEntry
      <4>6. ToSet(got'[j]) = ToSet(got[j]) \cup {m}
        BY <1>0, <4>3, <4>5, OneMoreGot
      <4>7. \A s \in Slot : joiner[j].start <= s /\ s < i + 1
                              => chat_history[s] \in ToSet(got'[j])
        BY <2>1, <2>2, <4>1, <4>3, <4>6
      <4> QED BY <1>0, <2>1, <4>2, <4>5, <4>7
    <3>4. CASE EndJoin(j)
      <4>1. /\ joiner'[j].start = joiner[j].start /\ joiner'[j].i = joiner[j].i
            /\ joiner'[j].pc = "done" /\ got' = got /\ joiner[j].i >= chat_historyc
            /\ joiner[j].start \in Int /\ joiner[j].i \in Int
        BY <1>0, <3>4 DEF EndJoin
      <4>2. Window(j)'
        BY <1>0, <2>2, <4>1
      <4>3. ASSUME NEW m \in done, m \notin ToSet(got[j]), NEW s \in Slot,
                   s < chat_historyc, chat_history[s] = m
            PROVE  s < joiner[j].start
        BY <1>0, <2>1, <2>2, <4>1, <4>3
      <4>4. Complete(j)'
        BY <1>0, <2>1, <4>1, <4>3 DEF Recorded
      <4> QED BY <4>2, <4>4
    <3> QED BY <3>1, <3>2, <3>3, <3>4 DEF JoinStep
  <2>5. \A k \in Joiner : Window(k)' /\ Complete(k)'
    BY <2>3, <2>4
  <2>6. WindowsSent'
    BY <2>5 DEF WindowsSent
  <2>7. NothingMissed'
    BY <2>5 DEF NothingMissed
  <2> QED BY <1>1, <2>6, <2>7 DEF JoinInv
<1> QED BY <1>2, <1>3

LEMMA JoinInvariantInit == Init => JoinInv
<1> SUFFICES ASSUME Init PROVE JoinInv
  OBVIOUS
<1>1. \A j \in Joiner : joiner[j] = [pc |-> "add", start |-> 0, i |-> 0]
  BY DEF Init
<1>2. JoinersKnown
  BY <1>1 DEF JoinersKnown
<1>3. WindowsSent
  BY <1>1, HistoryAssumption DEF WindowsSent, Init, Slot
<1>4. NothingMissed
  BY <1>1 DEF NothingMissed, JoinAt
<1> QED BY <1>2, <1>3, <1>4 DEF JoinInv

LEMMA JoinInvariantStep == IInv /\ JoinInv /\ [Next]_vars => JoinInv'
<1> SUFFICES ASSUME IInv, JoinInv, [Next]_vars PROVE JoinInv'
  OBVIOUS
<1>1. CASE UNCHANGED vars
  BY <1>1 DEF vars, JoinInv, JoinersKnown, WindowsSent, NothingMissed, JoinAt, Recorded
<1> QED BY <1>1, SaysKeepJoiners, JoinsKeepJoiners DEF Next

\* Both invariants hold.
THEOREM JoinersInvariant == Spec => [](IInv /\ JoinInv)
<1>1. Init => IInv /\ JoinInv
  BY InvariantInit, JoinInvariantInit
<1>2. IInv /\ JoinInv /\ [Next]_vars => (IInv /\ JoinInv)'
  BY InvariantStep, JoinInvariantStep
<1> QED BY <1>1, <1>2, PTL DEF Spec

\* A newcomer misses no message whose handler has returned but those older than
\* its window and those a full history did not take, unless say handlers raced
\* for the count (server_interface.c 74-88, 184-194).
THEOREM NewcomersMissNothing == Spec => []NothingMissed
<1>1. JoinInv => NothingMissed
  BY DEF JoinInv
<1> QED BY <1>1, JoinersInvariant, PTL
=============================================================================
