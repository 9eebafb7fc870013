-------------------------- MODULE ClientConsoleProofs --------------------------
(****************************************************************************)
(* Proofs about the client's connection state, for any number of answers in *)
(* handling and of datagrams on their way.  The inductive invariant IInv    *)
(* says who holds the mutex, that at most one input thread ever sleeps, and *)
(* that all there is to answers comes of the server having listed this      *)
(* client.                                                                  *)
(****************************************************************************)
EXTENDS ClientConsole, TLAPS

\* The mutex is held across steps only by the handler that copies the name, and
\* connected has then been set.
MutexOwner ==
  /\ \A h \in Handler : handler[h] = "naming" <=> writer = h
  /\ writer # Nobody => connected

\* One signal is enough: there is never more than one sleeper.
OneSleeper == pre.pc # "asleep" \/ post.pc # "asleep"

\* All that makes the client send something other than conn$ came of an answer, and
\* every answer of having been listed.
Welcomed ==
  \/ joined
  \/ /\ ~connected /\ ~spoke /\ nodes = 0
     /\ post.pc \in {"test", "asleep"}
     /\ \A h \in Handler : handler[h] = "idle"
     /\ \A a \in Answer : sent[a] = 0

IInv == TypeOK /\ InputNotStranded /\ MutexOwner /\ OneSleeper /\ Welcomed

-----------------------------------------------------------------------------
LEMMA InvariantInit == Init => IInv
<1> SUFFICES ASSUME Init PROVE IInv
  OBVIOUS
<1>1. pre \in InputThread /\ post \in InputThread
  <2>1. pre = [pc |-> "test", line |-> NoLine] /\ post = pre
    BY DEF Init
  <2>2. pre \in [pc : InputPc, line : Line \cup {NoLine}]
    BY <2>1 DEF InputPc
  <2>3. pre.pc # "typed" /\ pre.line = NoLine
    BY <2>1
  <2> QED
    BY <2>1, <2>2, <2>3 DEF InputThread
<1>2. TypeOK
  <2>1. 0 \in 0 .. MaxAsked /\ 0 \in 0 .. MaxNodes /\ 0 \in 0 .. MaxSent
    BY ConsoleAssumption
  <2>2. handler \in [Handler -> {"idle", "connect", "naming", "disconnect"}]
    BY DEF Init
  <2> QED
    BY <1>1, <2>1, <2>2 DEF Init, TypeOK
<1>3. MutexOwner
  BY ConsoleAssumption DEF Init, MutexOwner
<1>4. InputNotStranded /\ OneSleeper /\ Welcomed
  BY DEF Init, InputNotStranded, OneSleeper, Welcomed
<1> QED
  BY <1>2, <1>3, <1>4 DEF IInv

\* The server lists the client or unlinks a node of it.
LEMMA ServerInvariantStep ==
  ASSUME IInv, ServerLists \/ ServerUnlinks
  PROVE  IInv'
<1> USE DEF IInv
<1>1. /\ UNCHANGED <<connected, writer, handler, pre, post, exited, spoke>>
      /\ joined'
      /\ asked' \in 0 .. MaxAsked /\ nodes' \in 0 .. MaxNodes
  BY ConsoleAssumption
     DEF ServerLists, ServerUnlinks, clientVars, TypeOK, Welcomed
<1>2. sent' \in [Answer -> 0 .. MaxSent]
  BY ConsoleAssumption DEF ServerLists, ServerUnlinks, Respond, TypeOK
<1>3. TypeOK'
  BY <1>1, <1>2 DEF TypeOK
<1> QED
  BY <1>1, <1>3 DEF InputNotStranded, OneSleeper, Welcomed, MutexOwner, MutexFree

\* An answer arrives: the server has listed this client, or it would not be.
LEMMA ArrivalStep ==
  ASSUME IInv, NEW h \in Handler, ArriveConnsuccess(h) \/ ArriveDisconnresponse(h)
  PROVE  IInv'
<1> USE DEF IInv
<1>1. PICK a \in Answer, pc \in {"connect", "disconnect"} : Arrive(h, a, pc)
  BY DEF ArriveConnsuccess, ArriveDisconnresponse, Answer
<1>2. TypeOK'
  BY <1>1, ConsoleAssumption DEF Arrive, TypeOK
<1>3. joined /\ joined'
  BY <1>1 DEF Arrive, Welcomed, TypeOK
<1>4. InputNotStranded' /\ OneSleeper' /\ Welcomed'
  BY <1>1, <1>3 DEF Arrive, InputNotStranded, OneSleeper, Welcomed, MutexFree
<1>5. MutexOwner'
  BY <1>1 DEF Arrive, MutexOwner, TypeOK
<1> QED
  BY <1>2, <1>4, <1>5

\* The handlers change the flag and wake the thread that has to read now.
LEMMA HandlerInvariantStep ==
  ASSUME IInv, NEW h \in Handler, HandlerStep(h)
  PROVE  IInv'
<1> USE DEF IInv
<1>1. CASE ConnectBegin(h)
  BY <1>1, ConsoleAssumption
     DEF ConnectBegin, TypeOK, InputNotStranded, OneSleeper, Welcomed, MutexOwner,
         MutexFree, netVars, serverVars
<1>2. ASSUME HandlerStep(h), SignalConnection,
             handler[h] \in {"naming", "disconnect"},
             connected' = (handler[h] = "naming"), writer' = Nobody,
             handler' = [handler EXCEPT ![h] = "idle"],
             UNCHANGED <<exited, netVars>>,
             \A g \in Handler \ {h} : handler[g] # "naming"
      PROVE  IInv'
  <2>1. pre' \in InputThread /\ post' \in InputThread
    BY <1>2 DEF SignalConnection, TypeOK, InputThread, InputPc
  <2>2. TypeOK'
    BY <1>2, <2>1 DEF TypeOK, netVars, serverVars
  <2>4. pre'.pc # "asleep" /\ post'.pc # "asleep"
    BY <1>2 DEF SignalConnection, OneSleeper, TypeOK, InputThread
  <2>5. InputNotStranded' /\ OneSleeper'
    BY <2>4 DEF InputNotStranded, OneSleeper
  <2>6. MutexOwner'
    BY <1>2, ConsoleAssumption DEF MutexOwner, TypeOK
  <2>7. Welcomed'
    BY <1>2 DEF Welcomed, netVars, serverVars
  <2> QED
    BY <2>2, <2>5, <2>6, <2>7
<1>3. CASE ConnectEnd(h)
  <2>1. connected /\ h # Nobody /\ \A g \in Handler \ {h} : handler[g] # "naming"
    BY <1>3, ConsoleAssumption DEF ConnectEnd, MutexOwner
  <2> QED
    BY <1>2, <1>3, <2>1 DEF ConnectEnd
<1>4. CASE Disconnect(h)
  <2>1. writer = Nobody /\ \A g \in Handler : handler[g] # "naming"
    BY <1>4, ConsoleAssumption DEF Disconnect, MutexOwner, MutexFree
  <2> QED
    BY <1>2, <1>4, <2>1 DEF Disconnect
<1> QED
  BY <1>1, <1>3, <1>4 DEF HandlerStep

\* An input thread falls asleep only after testing the flag under the mutex.
LEMMA InputStep ==
  ASSUME IInv, PreStep \/ PostStep \/ SpuriousWakeup
               \/ \E l \in Line : PreRead(l) \/ PostRead(l)
  PROVE  IInv'
<1> USE DEF IInv
<1>1. UNCHANGED <<connected, writer, handler, nodes, sent, joined>>
  BY DEF PreStep, PostStep, SpuriousWakeup, PreTest, PreRecheck, PreTyped, PostTest,
         PostRecheck, PostTyped, PreRead, PostRead, Send, unchangedByPre, unchangedByPost,
         netVars, serverVars
<1>2. MutexOwner'
  BY <1>1 DEF MutexOwner
<1>3. asked' \in 0 .. MaxAsked /\ exited' \in BOOLEAN /\ spoke' \in BOOLEAN
  BY DEF PreStep, PostStep, SpuriousWakeup, PreTest, PreRecheck, PreTyped, PostTest,
         PostRecheck, PostTyped, PreRead, PostRead, Send, netVars, TypeOK
<1>4. /\ pre' \in InputThread /\ post' \in InputThread
      /\ pre'.pc = "asleep" => pre.pc = "asleep" \/ (connected /\ MutexFree)
      /\ post'.pc = "asleep" => post.pc = "asleep" \/ (~connected /\ MutexFree)
      /\ post'.pc \in {"recheck", "fgets", "typed"}
           => connected \/ post.pc \in {"recheck", "fgets", "typed"}
      /\ spoke' => spoke \/ connected \/ post.pc = "typed"
  <2>1. CASE PreTest \/ PreRecheck
    BY <2>1 DEF PreTest, PreRecheck, TypeOK, InputThread, InputPc, NoLine, unchangedByPre, netVars
  <2>2. CASE PreTyped
    BY <2>2 DEF PreTyped, Send, TypeOK, InputThread, InputPc, NoLine, Line, unchangedByPre, netVars
  <2>3. CASE PostTest \/ PostRecheck
    BY <2>3 DEF PostTest, PostRecheck, TypeOK, InputThread, InputPc, NoLine, unchangedByPost, netVars
  <2>4. CASE PostTyped
    BY <2>4 DEF PostTyped, Send, TypeOK, InputThread, InputPc, NoLine, Line, unchangedByPost
  <2>5. CASE SpuriousWakeup
    BY <2>5 DEF SpuriousWakeup, TypeOK, InputThread, InputPc, netVars
  <2>6. CASE \E l \in Line : PreRead(l) \/ PostRead(l)
    BY <2>6 DEF PreRead, PostRead, TypeOK, InputThread, InputPc, NoLine, Line,
                unchangedByPre, unchangedByPost, netVars
  <2> QED
    BY <2>1, <2>2, <2>3, <2>4, <2>5, <2>6 DEF PreStep, PostStep
<1>5. TypeOK'
  BY <1>1, <1>3, <1>4 DEF TypeOK
<1>6. InputNotStranded'
  BY <1>1, <1>4 DEF InputNotStranded, MutexFree
<1>7. OneSleeper'
  BY <1>1, <1>4, <1>6 DEF InputNotStranded, OneSleeper, MutexFree, TypeOK
<1>8. Welcomed'
  BY <1>1, <1>4, <1>5 DEF Welcomed, TypeOK, InputThread, InputPc
<1> QED
  BY <1>2, <1>5, <1>6, <1>7, <1>8

LEMMA InvariantStep == IInv /\ [Next]_vars => IInv'
<1> SUFFICES ASSUME IInv, [Next]_vars PROVE IInv'
  OBVIOUS
<1>1. CASE UNCHANGED vars
  BY <1>1 DEF vars, netVars, serverVars, IInv, TypeOK, InputNotStranded, MutexOwner,
              OneSleeper, Welcomed, MutexFree
<1>2. CASE Next
  BY <1>2, ServerInvariantStep, ArrivalStep, HandlerInvariantStep, InputStep DEF Next
<1> QED
  BY <1>1, <1>2

\* Through every section of the input threads and of the answers' handlers, flag,
\* condition and mutex stay in step: one sleeper at most, whom someone will wake; and
\* there are answers only for a client that was listed.
THEOREM InductiveInvariant == Spec => []IInv
BY InvariantInit, InvariantStep, PTL DEF Spec

-----------------------------------------------------------------------------
\* Program counters and lines keep their types (client_interface.c 160-301).
THEOREM TypeCorrect == Spec => []TypeOK
BY InductiveInvariant, PTL DEF IInv

\* The signal of client_types.h 192 and 236 never goes to the wrong one of the two
\* input threads, however many answers are in handling.
THEOREM InputIsNotStranded == Spec => []InputNotStranded
BY InductiveInvariant, PTL DEF IInv

\* A server that never listed this client hears nothing but conn$ from it
\* (client_interface.c 201-232 and 262-297).
THEOREM NothingSaidBeforeWelcome == Spec => []NothingBeforeWelcome
<1>1. IInv => NothingBeforeWelcome
  BY DEF IInv, Welcomed, NothingBeforeWelcome
<1> QED
  BY <1>1, InductiveInvariant, PTL
=============================================================================
