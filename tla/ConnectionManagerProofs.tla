------------------------ MODULE ConnectionManagerProofs ------------------------
(****************************************************************************)
(* Proofs about the pinging and the removal of inactive clients, for any    *)
(* clients, threshold, timeout and length of a round.  The inductive        *)
(* invariant IInv says that the scan meets live nodes only, and what the    *)
(* stamp in ping_sent says about the last ping$.                            *)
(****************************************************************************)
EXTENDS ConnectionManager, ClientListProofs

\* The node the thread is at; inside the section, it cannot be freed.
CmKnown ==
  /\ cm.pc \in {"scan_ping", "ping", "stamp", "farewell", "remove"} => cm.node # NULL
  /\ Scanning /\ cm.node # NULL => Live(cm.node)

ManagerKnown == manager.node # NULL => manager.cmd \in Command

\* The workers' commands, and the nodes that disconnect has found.
PendingWorker == [cmd : Command, node : Allocated \cup {NULL}]

\* ping_sent of a client is at most a round older than the ping$ itself, unless the
\* client has been heard from; and it is set only after that ping$.
PingsKnown ==
  /\ \A n \in Allocated : Live(n) /\ ping_sent[n] # Never =>
       asked[n] = Answered \/ (asked[n] >= 0 /\ asked[n] >= ping_sent[n] - MaxLag)
  /\ cm.pc \in {"ping", "stamp"} /\ Live(cm.node) => ping_sent[cm.node] = Never
  /\ cm.pc = "stamp" /\ Live(cm.node) => asked[cm.node] # Never

IInv == /\ TypeOK /\ ListMatchesHeap /\ CmKnown /\ ManagerKnown
        /\ PingsKnown /\ TimeToAnswer

LEMMA InvariantIsListOK ==
  ASSUME IInv
  PROVE  ListOK
BY DEF IInv, TypeOK, ListTypeOK, ListOK

LEMMA CapsAreNumbers == /\ IdleCap \in Nat /\ PingCap \in Nat /\ MaxLag \in Nat
                        /\ MaxLag <= PingCap /\ PING_TIMEOUT < PingCap
                        /\ PING_TIMEOUT \in Nat /\ INACTIVITY_THRESHOLD \in Nat
BY TimingAssumption DEF IdleCap, PingCap

-----------------------------------------------------------------------------
\* The routines that change the list, and when they do.
LEMMA WhoChangesTheList ==
  ASSUME IInv, [Next]_vars
  PROVE  UNCHANGED listVars \/ (ListChange /\ ~Scanning)
<1>1. ListOK
  BY InvariantIsListOK
<1>2. ASSUME NEW t \in workers, Add(t) PROVE ListChange /\ ~Scanning
  <2>1. t.cmd.from \in Addr /\ t.cmd.arg \in Name
    BY <1>2, TimingAssumption DEF IInv, TypeOK, Add, Naming
  <2> QED BY <1>2, <2>1 DEF Add, Change, ListChange
<1>3. ASSUME NEW t \in workers, Leave(t)
      PROVE  UNCHANGED listVars \/ (ListChange /\ ~Scanning)
  BY <1>3 DEF Leave, Change, ListChange
<1>7. ASSUME NEW t \in workers, FindOwn(t) PROVE UNCHANGED listVars
  BY <1>7 DEF FindOwn
<1>4. ASSUME NEW t \in workers, Rename(t)
      PROVE  UNCHANGED listVars \/ (ListChange /\ ~Scanning)
  <2>1. t.cmd.arg \in Name
    BY <1>4, TimingAssumption DEF IInv, TypeOK, Rename, Naming
  <2>2. FindByAddress(t.cmd.from) \in Allocated \cup {NULL}
    BY <1>1, FindByAddressListed DEF ListOK
  <2> QED BY <1>4, <2>1, <2>2 DEF Rename, Change, ListChange
<1>5. CASE RemoveSilent
  BY <1>5 DEF RemoveSilent, CmAt, ListChange, Scanning
<1>6. CASE \/ Tick \/ EnterScan \/ ScanNode \/ ScanPing \/ SendPing \/ StampPing
           \/ SendFarewell \/ MarkPing \/ WriterWaits \/ \E cmd \in Command : Hear(cmd)
  BY <1>6 DEF Tick, EnterScan, ScanNode, ScanPing, SendPing, StampPing, SendFarewell,
              MarkPing, WriterWaits, Hear, cmRest, listVars
<1> QED BY <1>2, <1>3, <1>4, <1>5, <1>6, <1>7 DEF Next, CmStep, WorkerStep, vars

LEMMA ListKept ==
  ASSUME IInv, [Next]_vars
  PROVE  ListOK /\ ListOK' /\ ListStep
BY InvariantIsListOK, WhoChangesTheList, ListChangeKeepsList

-----------------------------------------------------------------------------
\* The ages of the nodes.
AgesTyped ==
  /\ last_active \in [Allocated -> 0 .. IdleCap]
  /\ ping_sent \in [Allocated -> {Never} \cup 0 .. PingCap]
  /\ asked \in [Allocated -> {Never, Answered} \cup 0 .. PingCap]

\* A second on one clock.
LEMMA OlderTyped ==
  ASSUME NEW cap \in Nat, NEW age \in [Allocated -> {Never, Answered} \cup 0 .. cap]
  PROVE  /\ Older(age, cap) \in [Allocated -> {Never, Answered} \cup 0 .. cap]
         /\ \A n \in Allocated : heap[n].live =>
              Older(age, cap)[n] = IF age[n] \in {Never, Answered, cap} THEN age[n]
                                   ELSE age[n] + 1
         /\ \A n \in Allocated : age[n] # Answered => Older(age, cap)[n] # Answered
         /\ \A n \in Allocated : age[n] # Never => Older(age, cap)[n] # Never
BY DEF Older, Never, Answered

\* A clock for one node more.
Clock(age, N, S) == age \in [1 .. N -> S]
OneMore(age, v, t) == t = Append(age, v)

LEMMA AppendTyped ==
  ASSUME NEW N \in Nat, NEW S, NEW age, Clock(age, N, S), NEW v \in S,
         NEW t, OneMore(age, v, t)
  PROVE  /\ Clock(t, N + 1, S)
         /\ \A n \in 1 .. N : t[n] = age[n]
         /\ t[N + 1] = v
<1>1. age \in Seq(S) /\ Len(age) = N
  BY DEF Clock
<1>2. /\ t \in Seq(S) /\ Len(t) = N + 1
      /\ \A n \in 1 .. N : t[n] = age[n]
      /\ t[N + 1] = v
  BY <1>1, AppendProperties DEF OneMore
<1>3. t \in [1 .. Len(t) -> S]
  BY <1>2, LenProperties
<1> QED BY <1>2, <1>3 DEF Clock

\* The changes of the list other than an addition keep the nodes.
LEMMA RemovalKeepsNodes ==
  ASSUME ListOK, NEW x, RemoveClient(x)
  PROVE  /\ Allocated' = Allocated
         /\ \A m \in Allocated : /\ heap'[m].addr = heap[m].addr
                                 /\ heap'[m].name = heap[m].name
<1>1. ASSUME NEW m \in Allocated PROVE heap[m] \in ClientNode
  BY DEF ListOK, Allocated
<1> QED BY <1>1, RemovedByName DEF ClientNode, listVars, Allocated

LEMMA RenamingKeepsNodes ==
  ASSUME IInv, NEW t \in workers, Rename(t)
  PROVE  /\ Allocated' = Allocated
         /\ \A m \in Allocated : /\ heap'[m].addr = heap[m].addr
                                 /\ \/ heap'[m].name = heap[m].name
                                    \/ heap'[m].addr = t.cmd.from /\ heap'[m].name = t.cmd.arg
<1> DEFINE own == FindByAddress(t.cmd.from)
<1>1. ListOK /\ t.cmd.arg \in Name
  BY InvariantIsListOK, TimingAssumption DEF IInv, TypeOK, Rename, Naming
<1>2. CASE own = NULL
  BY <1>2 DEF Rename, listVars, Allocated
<1>3. CASE own # NULL
  <2>1. PICK n \in Allocated : RenameClient(n, t.cmd.arg) /\ heap[n].addr = t.cmd.from
    BY <1>1, <1>3, FoundByAddress DEF Rename
  <2>2. PICK x \in Name : x = t.cmd.arg
    BY <1>1
  <2>3. ASSUME NEW m \in Allocated PROVE heap[m] \in ClientNode
    BY <1>1 DEF ListOK, Allocated
  <2>4. /\ Allocated' = Allocated
        /\ \A m \in Allocated :
             heap'[m] = IF m = n THEN [heap[m] EXCEPT !.name = x] ELSE heap[m]
    BY <1>1, <2>1, <2>2, RenamedNode
  <2> QED BY <2>1, <2>2, <2>3, <2>4 DEF ClientNode
<1> QED BY <1>2, <1>3

LEMMA LeavingKeepsNodes ==
  ASSUME ListOK, NEW t, Leave(t)
  PROVE  /\ Allocated' = Allocated
         /\ \A m \in Allocated : /\ heap'[m].addr = heap[m].addr
                                 /\ heap'[m].name = heap[m].name
BY RemovalKeepsNodes DEF Leave, listVars, Allocated

\* A new node is one more, with clocks of its own.
LEMMA AddingNode ==
  ASSUME IInv, NEW t \in workers, Add(t)
  PROVE  \E n : /\ n \notin Allocated /\ Allocated' = Allocated \cup {n}
                /\ \A m \in Allocated : /\ heap'[m] = heap[m]
                                        /\ last_active'[m] = last_active[m]
                                        /\ ping_sent'[m] = ping_sent[m]
                                        /\ asked'[m] = asked[m]
                /\ heap'[n].addr = t.cmd.from /\ heap'[n].name = t.cmd.arg
                /\ ping_sent'[n] = Never /\ asked'[n] = Never
                /\ AgesTyped'
<1> DEFINE n == Len(heap) + 1
<1>1. ListOK /\ t.cmd.from \in Addr /\ t.cmd.arg \in Name
  BY InvariantIsListOK, TimingAssumption DEF IInv, TypeOK, Add, Naming
<1>2. PICK a \in Addr, x \in Name : a = t.cmd.from /\ x = t.cmd.arg
  BY <1>1
<1>3. PICK new : new = [addr |-> a, name |-> x, live |-> TRUE]
  OBVIOUS
<1>4. new.addr = a /\ new.name = x
  BY <1>3
<1>5. /\ Allocated' = Allocated \cup {n} /\ n \notin Allocated
      /\ \A m \in Allocated : heap'[m] = heap[m]
      /\ heap'[n] = new
  BY <1>1, <1>2, <1>3, AddedNode DEF Add
<1>6. Len(heap) \in Nat /\ heap \in Seq(ClientNode) /\ Allocated = 1 .. Len(heap)
  BY <1>1 DEF ListOK, Allocated
<1>7. Allocated' = 1 .. n
  BY <1>5, <1>6
<1>8. /\ last_active' = Append(last_active, 0)
      /\ ping_sent' = Append(ping_sent, Never) /\ asked' = Append(asked, Never)
  BY DEF Add
<1>9. AgesTyped
  BY DEF IInv, TypeOK, AgesTyped
<1>10. /\ last_active' \in [1 .. n -> 0 .. IdleCap]
       /\ \A m \in Allocated : last_active'[m] = last_active[m]
  <2>1. PICK S : S = 0 .. IdleCap
    OBVIOUS
  <2>2. Clock(last_active, Len(heap), S) /\ 0 \in S
    BY <1>6, <1>9, <2>1, CapsAreNumbers DEF AgesTyped, Clock
  <2>3. PICK grown : grown = last_active' /\ OneMore(last_active, 0, grown)
    BY <1>8 DEF OneMore
  <2>4. /\ Clock(grown, Len(heap) + 1, S)
        /\ \A m \in 1 .. Len(heap) : grown[m] = last_active[m]
        /\ grown[Len(heap) + 1] = 0
    BY <1>6, <2>2, <2>3, AppendTyped
  <2> QED BY <1>6, <2>1, <2>3, <2>4 DEF Clock
<1>11. /\ ping_sent' \in [1 .. n -> {Never} \cup 0 .. PingCap]
       /\ \A m \in Allocated : ping_sent'[m] = ping_sent[m]
       /\ ping_sent'[n] = Never
  <2>1. PICK S : S = {Never} \cup 0 .. PingCap
    OBVIOUS
  <2>2. Clock(ping_sent, Len(heap), S) /\ Never \in S
    BY <1>6, <1>9, <2>1, CapsAreNumbers DEF AgesTyped, Clock
  <2>3. PICK grown : grown = ping_sent' /\ OneMore(ping_sent, Never, grown)
    BY <1>8 DEF OneMore
  <2>4. /\ Clock(grown, Len(heap) + 1, S)
        /\ \A m \in 1 .. Len(heap) : grown[m] = ping_sent[m]
        /\ grown[Len(heap) + 1] = Never
    BY <1>6, <2>2, <2>3, AppendTyped
  <2> QED BY <1>6, <2>1, <2>3, <2>4 DEF Clock
<1>12. /\ asked' \in [1 .. n -> {Never, Answered} \cup 0 .. PingCap]
       /\ \A m \in Allocated : asked'[m] = asked[m]
       /\ asked'[n] = Never
  <2>1. PICK S : S = {Never, Answered} \cup 0 .. PingCap
    OBVIOUS
  <2>2. Clock(asked, Len(heap), S) /\ Never \in S
    BY <1>6, <1>9, <2>1, CapsAreNumbers DEF AgesTyped, Clock
  <2>3. PICK grown : grown = asked' /\ OneMore(asked, Never, grown)
    BY <1>8 DEF OneMore
  <2>4. /\ Clock(grown, Len(heap) + 1, S)
        /\ \A m \in 1 .. Len(heap) : grown[m] = asked[m]
        /\ grown[Len(heap) + 1] = Never
    BY <1>6, <2>2, <2>3, AppendTyped
  <2> QED BY <1>6, <2>1, <2>3, <2>4 DEF Clock
<1>13. AgesTyped'
  BY <1>7, <1>10, <1>11, <1>12 DEF AgesTyped
<1> HIDE DEF n
<1> QED BY <1>2, <1>4, <1>5, <1>10, <1>11, <1>12, <1>13

-----------------------------------------------------------------------------
(* Types. *)

CmRecord == [pc : {"sleep", "enter", "scan", "scan_ping", "ping", "stamp", "farewell",
                   "remove"},
             lag : 0 .. MaxLag, node : Allocated \cup {NULL}, kick_name : Name \cup {NoName}]

\* Steps that leave the list alone.
Still == Allocated' = Allocated /\ UNCHANGED listVars
LEMMA UnchangedIsStill == UNCHANGED listVars => Still
BY DEF Still, listVars, Allocated

LEMMA AgesKept ==
  ASSUME IInv, [Next]_vars
  PROVE  AgesTyped'
<1>0. AgesTyped /\ ListOK
  BY InvariantIsListOK DEF IInv, TypeOK, AgesTyped
<1>1. CASE Tick
  <2>1. Still /\ Allocated' = Allocated
    BY <1>1, UnchangedIsStill DEF Tick, Still
  <2>2. /\ last_active \in [Allocated -> {Never, Answered} \cup 0 .. IdleCap]
        /\ ping_sent \in [Allocated -> {Never, Answered} \cup 0 .. PingCap]
    BY <1>0 DEF AgesTyped
  <2>3. \A n \in Allocated : /\ last_active[n] # Never /\ last_active[n] # Answered
                             /\ ping_sent[n] # Answered
    BY <1>0, CapsAreNumbers DEF AgesTyped, Never, Answered
  <2>4. last_active' \in [Allocated -> 0 .. IdleCap]
    <3>1. PICK t : t = last_active'
      OBVIOUS
    <3>2. t \in [Allocated -> {Never, Answered} \cup 0 .. IdleCap]
      BY <1>1, <2>2, <3>1, OlderTyped, CapsAreNumbers DEF Tick
    <3>3. \A n \in Allocated : t[n] # Never /\ t[n] # Answered
      BY <1>1, <2>2, <2>3, <3>1, OlderTyped, CapsAreNumbers DEF Tick
    <3> QED BY <3>1, <3>2, <3>3
  <2>5. ping_sent' \in [Allocated -> {Never} \cup 0 .. PingCap]
    <3>1. PICK t : t = ping_sent'
      OBVIOUS
    <3>2. t \in [Allocated -> {Never, Answered} \cup 0 .. PingCap]
      BY <1>1, <2>2, <3>1, OlderTyped, CapsAreNumbers DEF Tick
    <3>3. \A n \in Allocated : t[n] # Answered
      BY <1>1, <2>2, <2>3, <3>1, OlderTyped, CapsAreNumbers DEF Tick
    <3> QED BY <3>1, <3>2, <3>3
  <2>6. asked' \in [Allocated -> {Never, Answered} \cup 0 .. PingCap]
    BY <1>0, <1>1, OlderTyped, CapsAreNumbers DEF AgesTyped, Tick
  <2> QED BY <2>1, <2>4, <2>5, <2>6 DEF AgesTyped
<1>2. ASSUME NEW t \in workers, Add(t) PROVE AgesTyped'
  BY <1>2, AddingNode
<1>3. CASE UNCHANGED ages /\ Allocated' = Allocated
  BY <1>0, <1>3 DEF AgesTyped, ages
<1>4. ASSUME NEW cmd \in Command, Hear(cmd) PROVE AgesTyped'
  <2>1. FindByAddress(cmd.from) \in Allocated \cup {NULL}
    BY <1>0, FindByAddressListed DEF ListOK
  <2> QED BY <1>0, <1>4, <2>1, UnchangedIsStill, CapsAreNumbers DEF Hear, Still, AgesTyped, ages
<1>5. CASE MarkPing
  BY <1>0, <1>5, UnchangedIsStill DEF MarkPing, Still, AgesTyped
<1>6. CASE SendPing \/ StampPing
  <2>1. cm.lag \in 0 .. PingCap /\ 0 \in 0 .. PingCap
    BY CapsAreNumbers DEF IInv, TypeOK
  <2> QED BY <1>0, <1>6, <2>1, UnchangedIsStill DEF SendPing, StampPing, cmRest, Still, AgesTyped
<1>7. ASSUME EnterScan \/ ScanNode \/ ScanPing \/ SendFarewell \/ WriterWaits \/ UNCHANGED vars
      PROVE  UNCHANGED ages /\ Allocated' = Allocated
  BY <1>7, UnchangedIsStill
     DEF EnterScan, ScanNode, ScanPing, SendFarewell, WriterWaits, vars, ages, cmRest, Still, listVars
<1>8. ASSUME RemoveSilent PROVE UNCHANGED ages /\ Allocated' = Allocated
  BY <1>0, <1>8, RemovalKeepsNodes DEF RemoveSilent
<1>9. ASSUME NEW t \in workers, FindOwn(t) \/ Leave(t) \/ Rename(t)
      PROVE  UNCHANGED ages /\ Allocated' = Allocated
  <2>1. CASE FindOwn(t)
    BY <2>1, UnchangedIsStill DEF FindOwn, Still
  <2>2. CASE Leave(t)
    BY <1>0, <2>2, LeavingKeepsNodes DEF Leave
  <2>3. CASE Rename(t)
    BY <2>3, RenamingKeepsNodes DEF Rename
  <2> QED BY <1>9, <2>1, <2>2, <2>3
<1> QED BY <1>1, <1>2, <1>3, <1>4, <1>5, <1>6, <1>7, <1>8, <1>9 DEF Next, CmStep, WorkerStep

LEMMA CmTyped ==
  ASSUME IInv, [Next]_vars
  PROVE  cm' \in CmRecord'
<1>0. cm \in CmRecord /\ ListOK
  BY InvariantIsListOK DEF IInv, TypeOK, CmRecord
<1>1. CmRecord \subseteq CmRecord'
  BY ListKept DEF ListStep, CmRecord
<1>2. First \in Allocated \cup {NULL} /\ \A n : Successor(n) \in Allocated \cup {NULL}
  BY <1>0, FirstIsLive, SuccessorIsLive DEF Live
<1>3. CASE UNCHANGED cm
  BY <1>0, <1>1, <1>3
<1>4. CASE Tick
  <2>1. cm' \in CmRecord
    BY <1>0, <1>4, CapsAreNumbers DEF Tick, CmRecord, InRound
  <2> QED BY <1>1, <2>1
<1>5. SleepingCm \in CmRecord
  BY CapsAreNumbers DEF SleepingCm, CmRecord
<1>6. CASE EnterScan
  <2>1. cm' \in CmRecord
    BY <1>0, <1>2, <1>6 DEF EnterScan, CmRecord
  <2> QED BY <1>1, <2>1
<1>7. CASE ScanNode
  <2>1. cm' \in CmRecord
    <3>1. /\ [cm EXCEPT !.pc = "scan_ping"] \in CmRecord
          /\ [cm EXCEPT !.node = Successor(cm.node)] \in CmRecord
      BY <1>0, <1>2 DEF CmRecord
    <3> QED BY <1>5, <1>7, <3>1 DEF ScanNode
  <2> QED BY <1>1, <2>1
<1>8. CASE ScanPing
  <2>1. cm' \in CmRecord
    <3>1. heap[cm.node].name \in Name
      <4>1. cm.node \in Allocated
        BY <1>0, <1>8 DEF IInv, CmKnown, ScanPing, CmAt, CmRecord
      <4>2. heap[cm.node] \in ClientNode
        BY <1>0, <4>1 DEF ListOK, Allocated
      <4> QED BY <4>2 DEF ClientNode
    <3>2. /\ [cm EXCEPT !.pc = "ping"] \in CmRecord
          /\ [cm EXCEPT !.pc = "farewell", !.kick_name = heap[cm.node].name] \in CmRecord
          /\ [cm EXCEPT !.pc = "scan", !.node = Successor(cm.node)] \in CmRecord
      BY <1>0, <1>2, <3>1 DEF CmRecord
    <3> QED BY <1>8, <3>2 DEF ScanPing
  <2> QED BY <1>1, <2>1
<1>9. CASE SendPing \/ StampPing \/ SendFarewell \/ RemoveSilent
  <2>1. cm' \in CmRecord
    <3>1. /\ [cm EXCEPT !.pc = "stamp"] \in CmRecord
          /\ [cm EXCEPT !.pc = "remove"] \in CmRecord
      BY <1>0 DEF CmRecord
    <3> QED BY <1>5, <1>9, <3>1 DEF SendPing, StampPing, SendFarewell, RemoveSilent
  <2> QED BY <1>1, <2>1
<1> QED BY <1>3, <1>4, <1>6, <1>7, <1>8, <1>9
        DEF Next, CmStep, WorkerStep, MarkPing, Hear, WriterWaits, Add, FindOwn, Leave, Rename,
            Change, vars

LEMMA ManagerKept ==
  ASSUME IInv, [Next]_vars
  PROVE  /\ manager' \in [cmd : Command \cup {NoCommand}, node : (Allocated \cup {NULL})']
         /\ ManagerKnown'
         /\ waited' \in BOOLEAN
<1>0. /\ manager \in [cmd : Command \cup {NoCommand}, node : Allocated \cup {NULL}]
      /\ waited \in BOOLEAN
      /\ manager.node # NULL => manager.cmd \in Command
      /\ Allocated \subseteq Allocated'
  BY ListKept DEF IInv, TypeOK, ManagerKnown, ListStep
<1>1. ASSUME UNCHANGED manager, waited' \in {waited, TRUE}
      PROVE  /\ manager' \in [cmd : Command \cup {NoCommand}, node : (Allocated \cup {NULL})']
             /\ ManagerKnown' /\ waited' \in BOOLEAN
  BY <1>0, <1>1 DEF ManagerKnown
<1>2. ASSUME NEW cmd \in Command, Hear(cmd)
      PROVE  /\ manager' \in [cmd : Command \cup {NoCommand}, node : (Allocated \cup {NULL})']
             /\ ManagerKnown' /\ waited' \in BOOLEAN
  <2>1. FindByAddress(cmd.from) \in Allocated \cup {NULL}
    BY InvariantIsListOK, FindByAddressListed DEF ListOK
  <2> QED BY <1>0, <1>2, <2>1 DEF Hear, ManagerKnown
<1>3. CASE MarkPing
  <2>1. IdleManager \in [cmd : Command \cup {NoCommand}, node : Allocated \cup {NULL}]
    BY DEF IdleManager
  <2> QED BY <1>0, <1>3, <2>1 DEF MarkPing, ManagerKnown, IdleManager
<1> QED BY <1>1, <1>2, <1>3
        DEF Next, CmStep, WorkerStep, Tick, EnterScan, ScanNode, ScanPing, SendPing,
            StampPing, SendFarewell, RemoveSilent, WriterWaits, Add, FindOwn, Leave, Rename,
            Change, vars, cmRest

LEMMA WorkersKept ==
  ASSUME IInv, [Next]_vars
  PROVE  workers' \subseteq PendingWorker'
<1>0. workers \subseteq PendingWorker /\ Allocated \subseteq Allocated'
  BY ListKept DEF IInv, TypeOK, PendingWorker, ListStep
<1>1. PendingWorker \subseteq PendingWorker'
  BY <1>0 DEF PendingWorker
<1>2. CASE workers' \subseteq workers
  BY <1>0, <1>1, <1>2
<1>3. ASSUME NEW cmd \in Command, SpawnWorker(cmd)
      PROVE  workers' \subseteq PendingWorker'
  <2>1. [cmd |-> cmd, node |-> NULL] \in PendingWorker
    BY DEF PendingWorker
  <2> QED BY <1>0, <1>1, <1>3, <2>1 DEF SpawnWorker
<1>4. ASSUME NEW cmd \in Command, Hear(cmd)
      PROVE  workers' \subseteq PendingWorker'
  BY <1>2, <1>3, <1>4 DEF Hear
<1>5. CASE MarkPing
  BY <1>3, <1>5 DEF MarkPing, IInv, ManagerKnown
<1>6. ASSUME NEW t \in workers, FindOwn(t) PROVE workers' \subseteq PendingWorker'
  <2>1. PICK own \in Allocated \cup {NULL} : own = FindByAddress(t.cmd.from)
    BY InvariantIsListOK, FindByAddressListed DEF ListOK
  <2>2. [t EXCEPT !.node = own] \in PendingWorker
    BY <1>0 DEF PendingWorker
  <2> QED BY <1>0, <1>1, <1>6, <2>1, <2>2 DEF FindOwn
<1> QED BY <1>2, <1>4, <1>5, <1>6
        DEF Next, CmStep, WorkerStep, Tick, EnterScan, ScanNode, ScanPing, SendPing,
            StampPing, SendFarewell, RemoveSilent, WriterWaits, Add, Leave, Rename,
            Change, vars, cmRest

LEMMA FaultsKept ==
  ASSUME IInv, [Next]_vars
  PROVE  FaultsTyped'
<1>0. FaultsTyped
  BY DEF IInv, TypeOK, ListTypeOK, FaultsTyped
<1>1. \/ UNCHANGED faultVars
      \/ \E site \in Site : \E pointers : Follow(site, pointers)
  BY DEF Next, CmStep, WorkerStep, Tick, EnterScan, ScanNode, ScanPing, SendPing, StampPing,
         SendFarewell, RemoveSilent, Hear, MarkPing, WriterWaits, Add, FindOwn, Leave, Rename, vars,
         cmRest, Site, faultVars
<1>2. ASSUME NEW site \in Site, NEW pointers, Follow(site, pointers)
      PROVE  FaultsTyped'
  BY <1>0, <1>2, FollowKeepsFaults
<1>3. ASSUME UNCHANGED faultVars PROVE FaultsTyped'
  BY <1>0, <1>3 DEF FaultsTyped, faultVars
<1> QED BY <1>1, <1>2, <1>3

LEMMA TypesKept ==
  ASSUME IInv, [Next]_vars
  PROVE  TypeOK'
<1>1. ListTypeOK'
  BY ListKept, FaultsKept DEF ListOK, FaultsTyped, ListTypeOK
<1> QED BY <1>1, AgesKept, CmTyped, ManagerKept, WorkersKept
        DEF TypeOK, AgesTyped, CmRecord, PendingWorker

-----------------------------------------------------------------------------
\* The scan meets live nodes.
LEMMA CmKnownKept ==
  ASSUME IInv, [Next]_vars
  PROVE  CmKnown'
<1>0. CmKnown /\ cm \in CmRecord /\ ListOK
  BY InvariantIsListOK DEF IInv, TypeOK, CmRecord
<1>2. CASE UNCHANGED cm
  <2>1. Scanning => UNCHANGED listVars
    BY WhoChangesTheList
  <2>2. Scanning /\ cm.node # NULL => Live(cm.node)'
    BY <1>0, <1>2, <2>1 DEF CmKnown, listVars, Live, Allocated
  <2> QED BY <1>0, <1>2, <2>2 DEF CmKnown, Scanning, Live
<1>3. CASE Tick
  <2>1. /\ cm'.node = cm.node /\ cm'.kick_name = cm.kick_name
        /\ cm'.pc = cm.pc \/ cm'.pc = "enter"
    BY <1>0, <1>3 DEF Tick, CmRecord
  <2> QED BY <1>0, <1>3, <2>1 DEF Tick, CmKnown, Scanning, listVars, Live, Allocated
<1>4. ASSUME UNCHANGED heap, EnterScan \/ ScanNode \/ ScanPing
      PROVE  CmKnown'
  <2>1. PICK first : first = First /\ (first = NULL \/ Live(first))
    BY <1>0, FirstIsLive
  <2>2. PICK next : next = Successor(cm.node) /\ (next = NULL \/ Live(next))
    BY <1>0, SuccessorIsLive
  <2>3. CASE EnterScan
    BY <1>0, <1>4, <2>1, <2>3 DEF EnterScan, CmKnown, CmRecord, Scanning, Live, Allocated
  <2>4. CASE ScanNode
    BY <1>0, <1>4, <2>2, <2>4
       DEF ScanNode, CmAt, CmKnown, CmRecord, Scanning, Live, Allocated, SleepingCm
  <2>5. CASE ScanPing
    <3>1. cm.node \in Allocated /\ Live(cm.node)
      BY <1>0, <2>5 DEF ScanPing, CmAt, CmKnown, CmRecord, Scanning
    <3> QED BY <1>0, <1>4, <2>2, <2>5, <3>1
            DEF ScanPing, CmAt, CmKnown, CmRecord, Scanning, Live, Allocated
  <2> QED BY <1>4, <2>3, <2>4, <2>5
<1>5. ASSUME UNCHANGED heap, SendPing \/ StampPing \/ SendFarewell
      PROVE  CmKnown'
  BY <1>0, <1>5
     DEF SendPing, StampPing, SendFarewell, CmAt, CmKnown, CmRecord, Scanning, SleepingCm
<1>6. CASE RemoveSilent
  BY <1>6 DEF RemoveSilent, CmKnown, Scanning, SleepingCm
<1> QED BY <1>2, <1>3, <1>4, <1>5, <1>6
        DEF Next, CmStep, WorkerStep, EnterScan, ScanNode, ScanPing, SendPing, StampPing,
            SendFarewell, MarkPing, Hear, WriterWaits, Add, FindOwn, Leave, Rename, Change, vars,
            cmRest, listVars

-----------------------------------------------------------------------------
\* What ping_sent says of the ping$ that was sent, step by step.
LEMMA PingsKept ==
  ASSUME IInv, [Next]_vars
  PROVE  PingsKnown' /\ TimeToAnswer'
<1> USE DEF PingsKnown, TimeToAnswer
<1>0. /\ AgesTyped /\ PingsKnown /\ TimeToAnswer /\ cm \in CmRecord
      /\ cm.pc \in {"scan_ping", "ping", "stamp", "farewell", "remove"} => cm.node \in Allocated
      /\ AgesTyped'
  BY AgesKept DEF IInv, TypeOK, AgesTyped, CmRecord, CmKnown
<1>1. /\ Allocated \subseteq Allocated'
      /\ \A n \in Allocated : Live(n)' => Live(n)
  BY ListKept DEF ListStep
<1>2. ASSUME UNCHANGED ages, Allocated' = Allocated, UNCHANGED cm
      PROVE  PingsKnown' /\ TimeToAnswer'
  BY <1>0, <1>1, <1>2 DEF ages
<1>3. ASSUME UNCHANGED ages, Allocated' = Allocated,
             cm'.pc \in {"sleep", "enter", "scan", "scan_ping"}
      PROVE  PingsKnown' /\ TimeToAnswer'
  BY <1>0, <1>1, <1>3 DEF ages
<1>4. ASSUME NEW t \in workers, Add(t) PROVE PingsKnown' /\ TimeToAnswer'
  <2>1. PICK n : /\ n \notin Allocated /\ Allocated' = Allocated \cup {n}
                 /\ \A m \in Allocated : /\ ping_sent'[m] = ping_sent[m]
                                         /\ asked'[m] = asked[m]
                 /\ ping_sent'[n] = Never /\ asked'[n] = Never
    BY <1>4, AddingNode
  <2>2. UNCHANGED cm
    BY <1>4 DEF Add, Change
  <2> QED BY <1>0, <1>1, <2>1, <2>2
<1>5. CASE Tick
  <2>1. Still /\ \A n : Live(n)' <=> Live(n)
    BY <1>5, UnchangedIsStill DEF Tick, Still, listVars, Live, Allocated
  <2>2. /\ cm'.node = cm.node /\ (cm'.pc = cm.pc \/ cm'.pc = "enter")
    BY <1>0, <1>5 DEF Tick, CmRecord
  <2>3. \A n \in Allocated : Live(n) =>
          /\ ping_sent'[n] = IF ping_sent[n] \in {Never, PingCap} THEN ping_sent[n]
                             ELSE ping_sent[n] + 1
          /\ asked'[n] = IF asked[n] \in {Never, Answered, PingCap} THEN asked[n]
                         ELSE asked[n] + 1
    <3>1. \A n \in Allocated : ping_sent[n] # Answered
      BY <1>0, CapsAreNumbers DEF AgesTyped, Never, Answered
    <3> QED BY <1>5, <3>1 DEF Tick, Older, Live
  <2>4. ASSUME NEW n \in Allocated, Live(n), ping_sent[n] # Never
        PROVE  asked'[n] = Answered \/ (asked'[n] >= 0 /\ asked'[n] >= ping_sent'[n] - MaxLag)
    <3>1. /\ ping_sent[n] \in 0 .. PingCap
          /\ asked[n] = Answered \/ (asked[n] \in 0 .. PingCap /\ asked[n] >= ping_sent[n] - MaxLag)
      BY <1>0, <2>4, CapsAreNumbers DEF AgesTyped, Never, Answered
    <3> QED BY <2>3, <2>4, <3>1, CapsAreNumbers DEF Never, Answered
  <2>5. PingsKnown'
    BY <1>0, <2>1, <2>2, <2>3, <2>4, CapsAreNumbers DEF Still, AgesTyped, Never, Answered
  <2>6. TimeToAnswer'
    <3>1. ASSUME cm.pc \in {"farewell", "remove"}, Live(cm.node), asked[cm.node] # Answered
          PROVE  asked[cm.node] \in 0 .. PingCap /\ asked[cm.node] > PING_TIMEOUT - MaxLag
      BY <1>0, <3>1, CapsAreNumbers DEF AgesTyped
    <3>2. \A n \in Allocated : asked[n] = Answered => (Live(n) => asked'[n] = Answered)
      BY <2>3
    <3> QED BY <1>0, <2>1, <2>2, <2>3, <3>1, <3>2, CapsAreNumbers DEF Still, Never, Answered
  <2> QED BY <2>5, <2>6
<1>6. CASE ScanPing
  <2>1. UNCHANGED ages /\ Still /\ \A n : Live(n)' <=> Live(n)
    BY <1>6, UnchangedIsStill DEF ScanPing, cmRest, Still, listVars, Live, Allocated
  <2>2. CASE PingDue(cm.node)
    <3>1. cm'.pc = "ping" /\ cm'.node = cm.node
      BY <1>0, <1>6, <2>2 DEF ScanPing, CmRecord
    <3> QED BY <1>0, <2>1, <2>2, <3>1 DEF PingDue, ages, Still
  <2>3. CASE ~PingDue(cm.node) /\ TimedOut(cm.node)
    <3>1. cm'.pc = "farewell" /\ cm'.node = cm.node /\ cm.node \in Allocated
      BY <1>0, <1>6, <2>3 DEF ScanPing, CmAt, CmRecord
    <3>2. /\ ping_sent[cm.node] # Never /\ ping_sent[cm.node] \in 0 .. PingCap
          /\ ping_sent[cm.node] > PING_TIMEOUT
      BY <1>0, <2>3, <3>1, CapsAreNumbers DEF TimedOut, AgesTyped, CmRecord, Never
    <3>3. Live(cm.node) =>
            \/ asked[cm.node] = Answered
            \/ asked[cm.node] # Never /\ asked[cm.node] > PING_TIMEOUT - MaxLag
      BY <1>0, <3>1, <3>2, CapsAreNumbers DEF AgesTyped, Never, Answered
    <3> QED BY <1>0, <2>1, <3>1, <3>3 DEF ages, Still
  <2>4. CASE ~PingDue(cm.node) /\ ~TimedOut(cm.node)
    <3>1. cm'.pc = "scan"
      BY <1>0, <1>6, <2>4 DEF ScanPing, CmRecord
    <3> QED BY <1>3, <2>1, <3>1 DEF Still
  <2> QED BY <2>2, <2>3, <2>4
<1>7. CASE SendPing
  <2>1. Still /\ \A n : Live(n)' <=> Live(n)
    BY <1>7, UnchangedIsStill DEF SendPing, cmRest, Still, listVars, Live, Allocated
  <2>2. cm'.pc = "stamp" /\ cm'.node = cm.node /\ cm.node \in Allocated /\ cm.pc = "ping"
    BY <1>0, <1>7 DEF SendPing, CmAt, CmRecord
  <2>3. /\ ping_sent' = ping_sent
        /\ \A n \in Allocated : asked'[n] = IF n = cm.node THEN 0 ELSE asked[n]
    BY <1>0, <1>7 DEF SendPing, AgesTyped
  <2> QED BY <1>0, <2>1, <2>2, <2>3 DEF Still, Never
<1>8. CASE StampPing
  <2>1. Still /\ \A n : Live(n)' <=> Live(n)
    BY <1>8, UnchangedIsStill DEF StampPing, cmRest, Still, listVars, Live, Allocated
  <2>2. cm'.pc = "sleep" /\ cm.node \in Allocated /\ cm.pc = "stamp"
    BY <1>0, <1>8 DEF StampPing, CmAt, SleepingCm
  <2>3. /\ asked' = asked
        /\ \A n \in Allocated : ping_sent'[n] = IF n = cm.node THEN cm.lag ELSE ping_sent[n]
    BY <1>0, <1>8 DEF StampPing, AgesTyped
  <2>4. Live(cm.node) => asked[cm.node] = Answered \/
                         (asked[cm.node] >= 0 /\ asked[cm.node] >= cm.lag - MaxLag)
    BY <1>0, <2>2, CapsAreNumbers DEF AgesTyped, CmRecord, Never
  <2> QED BY <1>0, <2>1, <2>2, <2>3, <2>4 DEF Still
<1>9. CASE SendFarewell
  <2>1. UNCHANGED ages /\ Still /\ \A n : Live(n)' <=> Live(n)
    BY <1>9, UnchangedIsStill DEF SendFarewell, cmRest, Still, listVars, Live, Allocated
  <2>2. cm'.pc = "remove" /\ cm'.node = cm.node /\ cm.pc = "farewell"
    BY <1>0, <1>9 DEF SendFarewell, CmAt, CmRecord
  <2> QED BY <1>0, <2>1, <2>2 DEF ages, Still
<1>10. ASSUME NEW cmd \in Command, Hear(cmd) PROVE PingsKnown' /\ TimeToAnswer'
  <2>1. Still /\ (\A n : Live(n)' <=> Live(n)) /\ UNCHANGED cm /\ ping_sent' = ping_sent
    BY <1>10, UnchangedIsStill DEF Hear, Still, listVars, Live, Allocated, ages
  <2>2. \A n \in Allocated : asked'[n] = asked[n] \/ asked'[n] = Answered
    BY <1>0, <1>10 DEF Hear, AgesTyped, ages
  <2> QED BY <1>0, <2>1, <2>2 DEF Still, Never, Answered
<1>11. CASE MarkPing
  <2>1. Still /\ (\A n : Live(n)' <=> Live(n)) /\ UNCHANGED cm /\ asked' = asked
    BY <1>11, UnchangedIsStill DEF MarkPing, Still, listVars, Live, Allocated
  <2>2. \A n \in Allocated : ping_sent'[n] = ping_sent[n] \/ ping_sent'[n] = Never
    BY <1>0, <1>11 DEF MarkPing, AgesTyped
  <2> QED BY <1>0, <2>1, <2>2 DEF Still
<1>12. ASSUME WriterWaits \/ UNCHANGED vars PROVE PingsKnown' /\ TimeToAnswer'
  BY <1>2, <1>12, UnchangedIsStill DEF WriterWaits, vars, listVars, ages, Still
<1>13. ASSUME NEW t \in workers, FindOwn(t) \/ Leave(t) \/ Rename(t)
       PROVE  PingsKnown' /\ TimeToAnswer'
  <2>1. CASE FindOwn(t)
    BY <1>2, <2>1, UnchangedIsStill DEF FindOwn, Still
  <2>2. CASE Leave(t)
    BY <1>2, <2>2, LeavingKeepsNodes, InvariantIsListOK DEF Leave, Change
  <2>3. CASE Rename(t)
    BY <1>2, <2>3, RenamingKeepsNodes DEF Rename, Change
  <2> QED BY <1>13, <2>1, <2>2, <2>3
<1>14. ASSUME EnterScan \/ ScanNode PROVE PingsKnown' /\ TimeToAnswer'
  <2>1. UNCHANGED ages /\ Still
    BY <1>14, UnchangedIsStill DEF EnterScan, ScanNode, cmRest
  <2>2. cm'.pc \in {"sleep", "enter", "scan", "scan_ping"}
    <3>1. CASE EnterScan
      BY <1>0, <3>1 DEF EnterScan, CmRecord
    <3>2. CASE ScanNode
      <4>1. PICK next : next = Successor(cm.node)
        OBVIOUS
      <4> QED BY <1>0, <3>2, <4>1 DEF ScanNode, CmAt, CmRecord, SleepingCm
    <3> QED BY <1>14, <3>1, <3>2
  <2> QED BY <1>3, <2>1, <2>2 DEF Still
<1>15. CASE RemoveSilent
  BY <1>3, <1>15, RemovalKeepsNodes, InvariantIsListOK DEF RemoveSilent, SleepingCm
<1> QED BY <1>4, <1>5, <1>6, <1>7, <1>8, <1>9, <1>10, <1>11, <1>12, <1>13, <1>14, <1>15
        DEF Next, CmStep, WorkerStep

-----------------------------------------------------------------------------
LEMMA InvariantInit == Init => IInv
<1> SUFFICES ASSUME Init PROVE IInv
  OBVIOUS
<1>1. /\ ListTypeOK /\ ListMatchesHeap /\ Allocated = DOMAIN InitialClients
      /\ \A n \in Allocated : /\ heap[n].addr = InitialClients[n].addr
                              /\ heap[n].name = InitialClients[n].name
  BY ListInitially, TimingAssumption DEF Init
<1>2. TypeOK
  <2>1. SleepingCm \in CmRecord
    BY CapsAreNumbers DEF SleepingCm, CmRecord
  <2>2. AgesTyped
    BY CapsAreNumbers DEF Init, AgesTyped
  <2> QED BY <1>1, <2>1, <2>2 DEF Init, TypeOK, CmRecord, AgesTyped, IdleManager
<1>3. CmKnown /\ ManagerKnown /\ PingsKnown /\ TimeToAnswer
  BY DEF Init, CmKnown, ManagerKnown, PingsKnown, TimeToAnswer, SleepingCm, IdleManager,
         Scanning, NULL
<1> QED BY <1>1, <1>2, <1>3 DEF IInv

LEMMA InvariantStep == IInv /\ [Next]_vars => IInv'
BY TypesKept, ListKept, CmKnownKept, ManagerKept, PingsKept DEF ListOK, IInv

\* The inductive invariant holds for any clients, commands, threshold and timeout.
THEOREM InductiveInvariant == Spec => []IInv
BY InvariantInit, InvariantStep, PTL DEF Spec

\* Types, ages and what the thread keeps across its sections, under any
\* interleaving with the queue manager and the workers.
THEOREM TypeCorrect == Spec => []TypeOK
<1>1. IInv => TypeOK
  BY DEF IInv
<1> QED BY <1>1, InductiveInvariant, PTL

\* A client is asked before it is removed for being silent, and then has the time
\* of PING_TIMEOUT up to the length of a round, unless it has answered and is
\* removed all the same (server_interface.c 477-531).
THEOREM ClientsHaveTime == Spec => []TimeToAnswer
<1>1. IInv => TimeToAnswer
  BY DEF IInv
<1> QED BY <1>1, InductiveInvariant, PTL

\* The scan, which holds the monitor, never meets a freed node (lines 486-509):
\* what it follows after the check-out may be one.
THEOREM ScanIsSafe == Spec => [](Scanning /\ cm.node # NULL => Live(cm.node))
<1>1. IInv => (Scanning /\ cm.node # NULL => Live(cm.node))
  BY DEF IInv, CmKnown
<1> QED BY <1>1, InductiveInvariant, PTL
=============================================================================
