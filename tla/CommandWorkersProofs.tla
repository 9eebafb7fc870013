------------------------- MODULE CommandWorkersProofs -------------------------
(****************************************************************************)
(* Proofs about the command threads and the list of clients, for any number *)
(* of threads, clients, names and commands.  First what a step does to the  *)
(* list and to the records of the threads, then the inductive invariant:    *)
(* the types, names where names are written, the list in step with the      *)
(* heap, broadcasts that start at the head, and the lock's word.            *)
(****************************************************************************)
EXTENDS CommandWorkers, ClientListProofs

\* Beyond the types: a thread at work has a command, and one that is about to
\* write a name into a node has a name.
Naming(kind) == kind \in {"conn", "rename"}

CommandsTyped ==
  /\ manager.cmd # NoCommand => (Naming(manager.cmd.kind) => manager.cmd.arg \in Name)
  /\ \A w \in Worker :
       ~At(w, "idle") => /\ worker[w].cmd \in Command
                         /\ worker[w].pc \in {"add", "rename"} => Arg(w) \in Name

\* The lock keeps its word.
LockSafe == readers = {} \/ writers = {}

IInv == TypeOK /\ CommandsTyped /\ ListMatchesHeap /\ BroadcastStartsAtHead /\ LockSafe

LEMMA InvariantIsListOK ==
  ASSUME IInv
  PROVE  ListOK
BY DEF IInv, TypeOK, ListTypeOK, ListOK

\* A step changes the list as one of the routines of server_types.h does, inside
\* a write section that nobody shares.
LEMMA WhoChangesTheList ==
  ASSUME IInv, [Next]_vars
  PROVE  UNCHANGED listVars \/ (ListChange /\ readers = {})
<1>1. CASE UNCHANGED vars
  BY <1>1 DEF vars, listVars
<1>2. CASE ManagerStep
  BY <1>2 DEF ManagerStep, TakeCommand, MarkActive, Spawn
<1>3. ASSUME NEW w \in Worker, WorkerStep(w)
      PROVE  UNCHANGED listVars \/ (ListChange /\ readers = {})
  <2> USE DEF Runs, At
  <2>1. CASE ConnAdd(w)
    <3>1. From(w) \in Addr /\ Arg(w) \in Name
      BY <2>1 DEF ConnAdd, IInv, CommandsTyped, Command, From
    <3>2. readers = {}
      BY <2>1 DEF ConnAdd, IInv, LockSafe, Lock!ReleaseWrite
    <3> QED BY <2>1, <3>1, <3>2 DEF ConnAdd, ListChange
  <2>2. CASE DisconnRemoveOwn(w)
    <3>1. readers = {}
      BY <2>2 DEF DisconnRemoveOwn, IInv, LockSafe, Lock!ReleaseWrite
    <3> QED BY <2>2, <3>1 DEF DisconnRemoveOwn, ListChange
  <2>3. CASE Rename(w)
    <3>1. readers = {}
      BY <2>3 DEF Rename, IInv, LockSafe, Lock!ReleaseWrite
    <3>2. Arg(w) \in Name
      BY <2>3 DEF Rename, IInv, CommandsTyped
    <3>3. FindByAddress(From(w)) \in Allocated \cup {NULL}
      BY InvariantIsListOK, FindByAddressListed DEF ListOK
    <3> QED BY <2>3, <3>1, <3>2, <3>3 DEF Rename, ListChange
  <2>4. CASE KickRemove(w)
    <3>1. readers = {}
      BY <2>4 DEF KickRemove, IInv, LockSafe, Lock!ReleaseWrite
    <3> QED BY <2>4, <3>1 DEF KickRemove, ListChange
  <2>5. CASE EnterRead(w) \/ EnterWrite(w) \/ ConnWelcome(w) \/ Relay(w)
    BY <2>5 DEF EnterRead, EnterWrite, ConnWelcome, Relay
  <2>6. CASE SayStart(w) \/ SayFindSender(w) \/ SayCompose(w) \/ SayBroadcast(w)
    BY <2>6 DEF SayStart, SayFindSender, SayCompose, SayBroadcast
  <2>7. CASE SaytoLookup(w) \/ SaytoSend(w) \/ DisconnFindOwn(w) \/ DisconnAnswer(w)
    BY <2>7 DEF SaytoLookup, SaytoSend, DisconnFindOwn, DisconnAnswer
  <2>8. CASE KickCheck(w) \/ KickAnswer(w) \/ KickAnnounce(w)
    BY <2>8 DEF KickCheck, KickAnswer, KickAnnounce
  <2> QED BY <1>3, <2>1, <2>2, <2>3, <2>4, <2>5, <2>6, <2>7, <2>8 DEF WorkerStep
<1> QED BY <1>1, <1>2, <1>3 DEF Next

-----------------------------------------------------------------------------
\* What a step does to the records of the threads: the record of one thread
\* changes, to one of the shapes below, or none does.
Pcs == ReadSection \cup WriteSection \cup Unlocked \cup {"idle"}
Node == Allocated \cup {NULL}
WorkerRecord == [pc : Pcs, cmd : Command \cup {NoCommand}, node : Node, who : Node,
                 addr : Addr \cup {NoAddr}]

Moves(w, r) == worker' = [worker EXCEPT ![w] = r]

Continues(w, r) ==
  /\ ~At(w, "idle") /\ r.pc \notin {"add", "rename"}
  /\ r.cmd = worker[w].cmd
  /\ r.pc = "find_sender" => r.node = First
  /\ r.pc \in {"compose", "broadcast"} =>
       /\ worker[w].pc \in {"find_sender", "compose"}
       /\ r.node = worker[w].node

Starts(w, r) ==
  /\ manager.cmd # NoCommand
  /\ r = [IdleWorker EXCEPT !.pc = FirstPc(manager.cmd.kind), !.cmd = manager.cmd]
  /\ manager.cmd.kind # "retping"

WorkerChange ==
  \/ UNCHANGED worker
  \/ \E w \in Worker, r \in WorkerRecord :
       Moves(w, r) /\ (r = IdleWorker \/ Continues(w, r) \/ Starts(w, r))

LEMMA IdleIsRecord == IdleWorker \in WorkerRecord
BY DEF IdleWorker, WorkerRecord, Pcs, Node

LEMMA WorkersTyped ==
  ASSUME IInv, NEW w \in Worker
  PROVE  worker[w] \in WorkerRecord
BY DEF IInv, TypeOK, WorkerRecord, Pcs, Node

LEMMA ExitIsChange ==
  ASSUME IInv, NEW w \in Worker, Exit(w)
  PROVE  WorkerChange
BY IdleIsRecord DEF Exit, Moves, WorkerChange

LEMMA GotoIsChange ==
  ASSUME IInv, NEW w \in Worker, ~At(w, "idle"), NEW pc \in Pcs \ {"add", "rename", "find_sender"},
         pc \in {"compose", "broadcast"} => worker[w].pc \in {"find_sender", "compose"},
         Goto(w, pc)
  PROVE  WorkerChange
<1>1. worker[w] \in WorkerRecord
  BY WorkersTyped
<1> DEFINE r == [worker[w] EXCEPT !.pc = pc]
<1>2. r \in WorkerRecord /\ r.pc = pc /\ r.cmd = worker[w].cmd /\ r.node = worker[w].node
  BY <1>1 DEF WorkerRecord
<1>3. Moves(w, r)
  BY DEF Goto, Moves
<1> HIDE DEF r
<1>4. Continues(w, r)
  BY <1>2 DEF Continues
<1> QED BY <1>2, <1>3, <1>4 DEF WorkerChange

LEMMA FoundIsNode ==
  ASSUME IInv
  PROVE  /\ First \in Node
         /\ \A a : FindByAddress(a) \in Node
         /\ \A x : FindByName(x) \in Node
<1>1. clients \in Seq(Allocated)
  BY InvariantIsListOK DEF ListOK
<1>2. First \in Node
  BY <1>1 DEF First, Node
<1> QED BY <1>1, <1>2, FindByNameListed, FindByAddressListed DEF Node

LEMMA AnswerIsChange ==
  ASSUME IInv, NEW w \in Worker, ~At(w, "idle"), NEW x, AnswerRemoved(w, x)
  PROVE  WorkerChange
<1>1. worker[w] \in WorkerRecord
  BY WorkersTyped
<1>2. CASE FindByName(x) = NULL
  BY <1>2, ExitIsChange DEF AnswerRemoved
<1>3. CASE FindByName(x) # NULL
  <2> DEFINE addr == heap[FindByName(x)].addr
  <2>1. FindByName(x) \in Allocated
    BY <1>3, FoundIsNode DEF Node
  <2>2. addr \in Addr \cup {NoAddr}
    <3>1. heap[FindByName(x)] \in ClientNode
      BY <2>1, InvariantIsListOK DEF ListOK, Allocated
    <3> QED BY <3>1 DEF ClientNode
  <2> DEFINE r == [worker[w] EXCEPT !.addr = addr, !.pc = "farewell"]
  <2>3. Moves(w, r)
    BY <1>3 DEF AnswerRemoved, IInv, TypeOK, Moves
  <2> HIDE DEF addr
  <2>4. r \in WorkerRecord /\ r.pc = "farewell" /\ r.cmd = worker[w].cmd
    BY <1>1, <2>2 DEF WorkerRecord, Pcs, Unlocked
  <2> HIDE DEF r
  <2>5. Continues(w, r)
    BY <2>4 DEF Continues
  <2> QED BY <2>3, <2>4, <2>5 DEF WorkerChange
<1> QED BY <1>2, <1>3

\* The handler of a command starts where FirstPc says.
LEMMA StartIsRecord ==
  ASSUME IInv, manager.cmd # NoCommand, manager.cmd.kind # "retping",
         NEW r, r = [IdleWorker EXCEPT !.pc = FirstPc(manager.cmd.kind), !.cmd = manager.cmd]
  PROVE  /\ r \in WorkerRecord /\ r.cmd = manager.cmd /\ r.cmd \in Command
         /\ r.pc \in {"add", "rename"} => Naming(r.cmd.kind)
         /\ r.pc \notin {"find_sender", "compose", "broadcast"}
<1>1. manager.cmd \in Command
  BY DEF IInv, TypeOK
<1>2. manager.cmd.kind \in AllKinds
  BY <1>1, WorkersAssumption DEF Command
<1>3. /\ FirstPc(manager.cmd.kind) \in Pcs \ {"find_sender", "compose", "broadcast"}
      /\ FirstPc(manager.cmd.kind) \in {"add", "rename"} => Naming(manager.cmd.kind)
  BY <1>2 DEF AllKinds, FirstPc, Pcs, ReadSection, WriteSection, Unlocked, Naming
<1> DEFINE pc == FirstPc(manager.cmd.kind)
           cmd == manager.cmd
<1> HIDE DEF pc, cmd
<1>4. pc \in Pcs /\ cmd \in Command \cup {NoCommand} /\ r = [IdleWorker EXCEPT !.pc = pc, !.cmd = cmd]
  BY <1>1, <1>3 DEF pc, cmd
<1>5. r \in WorkerRecord /\ r.pc = pc /\ r.cmd = cmd
  BY <1>4, IdleIsRecord DEF WorkerRecord
<1> QED BY <1>1, <1>3, <1>5 DEF pc, cmd

LEMMA SpawnIsChange ==
  ASSUME IInv, Spawn
  PROVE  WorkerChange
<1>1. CASE UNCHANGED worker
  BY <1>1 DEF WorkerChange
<1>2. ASSUME NEW w \in Worker, manager.cmd.kind # "retping",
             worker' = [worker EXCEPT ![w] = [IdleWorker EXCEPT
                                               !.pc = FirstPc(manager.cmd.kind),
                                               !.cmd = manager.cmd]]
      PROVE  WorkerChange
  <2> DEFINE r == [IdleWorker EXCEPT !.pc = FirstPc(manager.cmd.kind), !.cmd = manager.cmd]
  <2>1. manager.cmd # NoCommand
    BY DEF Spawn
  <2>2. r \in WorkerRecord
    BY <1>2, <2>1, StartIsRecord
  <2>3. Starts(w, r) /\ Moves(w, r)
    BY <1>2, <2>1 DEF Starts, Moves
  <2> QED BY <2>2, <2>3, Zenon DEF WorkerChange
<1> QED BY <1>1, <1>2 DEF Spawn

LEMMA WorkerRecordsChange ==
  ASSUME IInv, [Next]_vars
  PROVE  WorkerChange
<1>1. CASE UNCHANGED vars
  BY <1>1 DEF vars, WorkerChange
<1>2. ASSUME ManagerStep PROVE WorkerChange
  <2>1. ASSUME NEW cmd \in Command, TakeCommand(cmd) PROVE WorkerChange
    BY <2>1 DEF TakeCommand, WorkerChange
  <2>2. ASSUME MarkActive PROVE WorkerChange
    BY <2>2 DEF MarkActive, WorkerChange
  <2> QED BY <1>2, <2>1, <2>2, SpawnIsChange DEF ManagerStep
<1>3. ASSUME NEW w \in Worker, WorkerStep(w) PROVE WorkerChange
  <2> USE DEF Runs, At
  <2>0. worker[w] \in WorkerRecord
    BY WorkersTyped
  <2>1. CASE EnterRead(w) \/ EnterWrite(w)
    BY <2>1 DEF EnterRead, EnterWrite, WorkerChange
  <2>2. CASE ConnWelcome(w) \/ SayBroadcast(w) \/ SaytoSend(w) \/ DisconnAnswer(w)
               \/ Rename(w) \/ KickAnnounce(w) \/ Relay(w)
    BY <2>2, ExitIsChange DEF ConnWelcome, SayBroadcast, SaytoSend, DisconnAnswer,
                              Rename, KickAnnounce, Relay
  <2>3. CASE ConnAdd(w)
    BY <2>3, GotoIsChange DEF ConnAdd, Pcs, Unlocked
  <2>4. CASE SayCompose(w)
    BY <2>4, GotoIsChange DEF SayCompose, Pcs, ReadSection
  <2>5. CASE KickCheck(w)
    <3> DEFINE r == [worker[w] EXCEPT !.node = First, !.pc = "remove_named"]
    <3>0. CASE ~IsAdmin(From(w))
      BY <2>5, <3>0, ExitIsChange DEF KickCheck
    <3>1. CASE IsAdmin(From(w))
      <4>1. Moves(w, r)
        BY <2>5, <3>1 DEF KickCheck, Moves, IInv, TypeOK
      <4>2. r \in WorkerRecord /\ r.pc = "remove_named" /\ r.cmd = worker[w].cmd
        BY <2>0, FoundIsNode DEF WorkerRecord, Pcs, WriteSection
      <4>3. Continues(w, r)
        <5> HIDE DEF r
        <5> QED BY <2>5, <4>2 DEF KickCheck, Continues
      <4> QED BY <4>1, <4>2, <4>3, Zenon DEF WorkerChange
    <3> QED BY <3>0, <3>1
  <2>6. CASE KickAnswer(w)
    BY <2>6, GotoIsChange DEF KickAnswer, Pcs, ReadSection
  <2>7. CASE KickRemove(w)
    BY <2>7, AnswerIsChange DEF KickRemove
  <2>8. CASE DisconnRemoveOwn(w)
    BY <2>8, AnswerIsChange DEF DisconnRemoveOwn
  <2>9. CASE SayStart(w)
    <3> DEFINE r == [worker[w] EXCEPT !.node = First, !.pc = "find_sender"]
    <3>1. Moves(w, r)
      BY <2>9 DEF SayStart, Moves, IInv, TypeOK
    <3>2. /\ r \in WorkerRecord /\ r.pc = "find_sender"
          /\ r.cmd = worker[w].cmd /\ r.node = First
      BY <2>0, FoundIsNode DEF WorkerRecord, Pcs, ReadSection
    <3>3. Continues(w, r)
      <4> HIDE DEF r
      <4> QED BY <2>9, <3>2 DEF SayStart, Continues
    <3> QED BY <3>1, <3>2, <3>3, Zenon DEF WorkerChange
  <2>10. CASE SayFindSender(w)
    <3> DEFINE r == [worker[w] EXCEPT !.who = FindByAddress(From(w)), !.pc = "compose"]
    <3>1. Moves(w, r)
      BY <2>10 DEF SayFindSender, Moves, IInv, TypeOK
    <3>2. /\ r \in WorkerRecord /\ r.pc = "compose"
          /\ r.cmd = worker[w].cmd /\ r.node = worker[w].node
      BY <2>0, FoundIsNode DEF WorkerRecord, Pcs, Unlocked
    <3>3. Continues(w, r)
      <4> HIDE DEF r
      <4> QED BY <2>10, <3>2 DEF SayFindSender, Continues
    <3> QED BY <3>1, <3>2, <3>3, Zenon DEF WorkerChange
  <2>11. CASE SaytoLookup(w)
    <3> DEFINE r == [worker[w] EXCEPT !.node = FindByName(Arg(w)),
                                      !.who = FindByAddress(From(w)), !.pc = "private"]
    <3>1. Moves(w, r)
      BY <2>11 DEF SaytoLookup, Moves, IInv, TypeOK
    <3>2. r \in WorkerRecord /\ r.pc = "private" /\ r.cmd = worker[w].cmd
      BY <2>0, FoundIsNode DEF WorkerRecord, Pcs, Unlocked
    <3>3. Continues(w, r)
      <4> HIDE DEF r
      <4> QED BY <2>11, <3>2 DEF SaytoLookup, Continues
    <3> QED BY <3>1, <3>2, <3>3, Zenon DEF WorkerChange
  <2>12. CASE DisconnFindOwn(w)
    <3> DEFINE own == FindByAddress(From(w))
               r == [worker[w] EXCEPT !.node = own, !.pc = "remove_own"]
    <3>0. CASE own = NULL
      BY <3>0, <2>12, ExitIsChange DEF DisconnFindOwn
    <3>1. CASE own # NULL
      <4>1. Moves(w, r)
        BY <3>1, <2>12 DEF DisconnFindOwn, Moves, IInv, TypeOK
      <4>2. r \in WorkerRecord /\ r.pc = "remove_own" /\ r.cmd = worker[w].cmd
        BY <2>0, FoundIsNode DEF WorkerRecord, Pcs, WriteSection
      <4>3. Continues(w, r)
        <5> HIDE DEF r
        <5> QED BY <2>12, <4>2 DEF DisconnFindOwn, Continues
      <4> QED BY <4>1, <4>2, <4>3, Zenon DEF WorkerChange
    <3> QED BY <3>0, <3>1
  <2> QED BY <1>3, <2>1, <2>2, <2>3, <2>4, <2>5, <2>6, <2>7, <2>8, <2>9, <2>10, <2>11, <2>12
          DEF WorkerStep
<1> QED BY <1>1, <1>2, <1>3 DEF Next

-----------------------------------------------------------------------------
\* The part of the types that the list and the threads' records do not hold.
RestTyped ==
  /\ FaultsTyped
  /\ readers \subseteq Worker /\ writers \subseteq Worker
  /\ arrived \in 0 .. MaxCommands
  /\ told \in [Addr -> {"never", "welcome", "bye"}]

ManagerTyped ==
  manager \in [cmd : Command \cup {NoCommand}, cursor : Allocated \cup {NULL}]

LEMMA LockKept ==
  ASSUME readers \subseteq Worker, writers \subseteq Worker, LockSafe, NEW w \in Worker,
         \/ Lock!AcquireRead(w) \/ Lock!AcquireWrite(w)
         \/ Lock!ReleaseRead(w) \/ Lock!ReleaseWrite(w) \/ UNCHANGED lockVars
  PROVE  /\ readers' \subseteq Worker /\ writers' \subseteq Worker
         /\ LockSafe'
BY DEF LockSafe, lockVars, Lock!AcquireRead, Lock!AcquireWrite, Lock!ReleaseRead,
       Lock!ReleaseWrite

LEMMA RestKept ==
  ASSUME IInv, [Next]_vars
  PROVE  RestTyped' /\ LockSafe'
<1>0. RestTyped /\ LockSafe
  BY DEF IInv, TypeOK, ListTypeOK, RestTyped, FaultsTyped
<1>1. CASE UNCHANGED vars
  BY <1>0, <1>1 DEF vars, RestTyped, FaultsTyped, LockSafe
<1>2. CASE ManagerStep
  <2>1. FaultsTyped'
    <3>1. FaultsTyped
      BY <1>0 DEF RestTyped
    <3>2. CASE MarkActive
      BY <3>1, <3>2, FollowKeepsFaults, Zenon DEF Site, MarkActive
    <3>3. CASE UNCHANGED faultVars
      BY <3>1, <3>3 DEF FaultsTyped, faultVars
    <3> QED BY <1>2, <3>2, <3>3 DEF ManagerStep, TakeCommand, Spawn
  <2>2. arrived' \in 0 .. MaxCommands
    BY <1>0, <1>2, WorkersAssumption
       DEF ManagerStep, TakeCommand, MarkActive, Spawn, RestTyped
  <2>3. UNCHANGED <<readers, writers, told>>
    BY <1>2 DEF ManagerStep, TakeCommand, MarkActive, Spawn, lockVars
  <2> QED BY <1>0, <2>1, <2>2, <2>3 DEF RestTyped, LockSafe
<1>3. ASSUME NEW w \in Worker, WorkerStep(w) PROVE RestTyped' /\ LockSafe'
  <2>1. FaultsTyped'
    <3>1. FaultsTyped
      BY <1>0 DEF RestTyped
    <3>2. CASE SayCompose(w) \/ SayBroadcast(w) \/ SaytoSend(w) \/ DisconnRemoveOwn(w)
                 \/ Rename(w) \/ KickAnnounce(w)
      <4>1. CASE SayCompose(w)
        BY <3>1, <4>1, FollowKeepsFaults, Zenon DEF Site, SayCompose
      <4>2. CASE SayBroadcast(w)
        BY <3>1, <4>2, FollowKeepsFaults, Zenon DEF Site, SayBroadcast
      <4>3. CASE SaytoSend(w)
        BY <3>1, <4>3, FollowKeepsFaults, Zenon DEF Site, SaytoSend
      <4>4. CASE DisconnRemoveOwn(w)
        BY <3>1, <4>4, FollowKeepsFaults, Zenon DEF Site, DisconnRemoveOwn
      <4>5. CASE Rename(w)
        BY <3>1, <4>5, FollowKeepsFaults, Zenon DEF Site, Rename
      <4>6. CASE KickAnnounce(w)
        BY <3>1, <4>6, FollowKeepsFaults, Zenon DEF Site, KickAnnounce
      <4> QED BY <3>2, <4>1, <4>2, <4>3, <4>4, <4>5, <4>6
    <3>3. CASE UNCHANGED faultVars
      BY <3>1, <3>3 DEF FaultsTyped, faultVars
    <3> QED BY <1>3, <3>2, <3>3
            DEF WorkerStep, EnterRead, EnterWrite, ConnAdd, ConnWelcome, SayStart,
                SayFindSender, SaytoLookup, DisconnFindOwn, DisconnAnswer, KickCheck,
                KickRemove, KickAnswer, Relay
  <2>2. \/ Lock!AcquireRead(w) \/ Lock!AcquireWrite(w)
        \/ Lock!ReleaseRead(w) \/ Lock!ReleaseWrite(w) \/ UNCHANGED lockVars
    BY <1>3 DEF WorkerStep, EnterRead, EnterWrite, ConnAdd, ConnWelcome, SayStart,
                SayFindSender, SayCompose, SayBroadcast, SaytoLookup, SaytoSend,
                DisconnFindOwn, DisconnRemoveOwn, DisconnAnswer, Rename, KickCheck,
                KickRemove, KickAnswer, KickAnnounce, Relay
  <2>3. readers' \subseteq Worker /\ writers' \subseteq Worker /\ LockSafe'
    BY <1>0, <2>2, LockKept DEF RestTyped
  <2>4. told' \in [Addr -> {"never", "welcome", "bye"}]
    <3>1. told \in [Addr -> {"never", "welcome", "bye"}]
      BY <1>0 DEF RestTyped
    <3>2. CASE ConnWelcome(w) \/ DisconnAnswer(w) \/ KickAnswer(w)
      BY <3>1, <3>2 DEF ConnWelcome, DisconnAnswer, KickAnswer
    <3>3. CASE UNCHANGED told
      BY <3>1, <3>3
    <3> QED BY <1>3, <3>2, <3>3
            DEF WorkerStep, EnterRead, EnterWrite, ConnAdd, SayStart,
                SayFindSender, SayCompose, SayBroadcast, SaytoLookup, SaytoSend,
                DisconnFindOwn, DisconnRemoveOwn, Rename, KickCheck,
                KickRemove, KickAnnounce, Relay
  <2>5. UNCHANGED arrived
    BY <1>3 DEF WorkerStep, EnterRead, EnterWrite, ConnAdd, ConnWelcome, SayStart,
                SayFindSender, SayCompose, SayBroadcast, SaytoLookup, SaytoSend,
                DisconnFindOwn, DisconnRemoveOwn, DisconnAnswer, Rename, KickCheck,
                KickRemove, KickAnswer, KickAnnounce, Relay, threadVars
  <2> QED BY <1>0, <2>1, <2>3, <2>4, <2>5 DEF RestTyped
<1> QED BY <1>1, <1>2, <1>3 DEF Next

\* What the manager has in hand.
LEMMA ManagerKept ==
  ASSUME IInv, [Next]_vars
  PROVE  /\ ManagerTyped'
         /\ (manager.cmd # NoCommand => (Naming(manager.cmd.kind) => manager.cmd.arg \in Name))'
<1>0. /\ ManagerTyped
      /\ manager.cmd # NoCommand => (Naming(manager.cmd.kind) => manager.cmd.arg \in Name)
  BY DEF IInv, TypeOK, ManagerTyped, CommandsTyped
<1>1. ListOK /\ Allocated \subseteq Allocated'
  <2>1. ListOK
    BY InvariantIsListOK
  <2> QED BY <2>1, WhoChangesTheList, ListChangeKeepsList DEF ListStep
<1>2. ASSUME NEW cmd \in Command, TakeCommand(cmd)
      PROVE  /\ ManagerTyped'
             /\ Naming(cmd.kind) => cmd.arg \in Name
             /\ manager'.cmd = cmd
  <2>1. Naming(cmd.kind) => cmd.arg \in Name
    <3>1. cmd.from \in Addr
      BY DEF Command
    <3>2. NamesOf[cmd.from] \subseteq Name
      BY <3>1, WorkersAssumption
    <3>3. cmd.arg \in ArgsOf(cmd.kind, cmd.from)
      BY <1>2 DEF TakeCommand, MaySend
    <3> QED BY <3>2, <3>3 DEF ArgsOf, Naming
  <2> DEFINE cursor == IF cmd.kind = "conn" THEN NULL ELSE First
  <2>2. cursor \in Allocated' \cup {NULL}
    BY <1>1, FoundIsNode DEF Node
  <2>3. manager' = [cmd |-> cmd, cursor |-> cursor]
    BY <1>2 DEF TakeCommand
  <2> HIDE DEF cursor
  <2> QED BY <2>1, <2>2, <2>3 DEF ManagerTyped
<1>3. ASSUME MarkActive
      PROVE  ManagerTyped' /\ manager'.cmd = manager.cmd
  <2>1. \E next \in {NULL} \cup ToSet(clients) \cup {Successor(manager.cursor)} :
          manager' = [manager EXCEPT !.cursor = next]
    BY <1>3 DEF MarkActive
  <2>2. ToSet(clients) \subseteq Allocated
    BY <1>1 DEF ListOK, ListMatchesHeap
  <2>3. Successor(manager.cursor) \in Allocated \cup {NULL}
    <3>1. clients \in Seq(Allocated)
      BY <1>1 DEF ListOK
    <3>2. \A i : i \in 1 .. Len(clients) - 1 => clients[i + 1] \in Allocated
      BY <3>1
    <3> QED BY <3>2 DEF Successor
  <2>4. PICK next \in Allocated' \cup {NULL} : manager' = [manager EXCEPT !.cursor = next]
    BY <1>1, <2>1, <2>2, <2>3
  <2> QED BY <1>0, <2>4 DEF ManagerTyped
<1>4. ASSUME Spawn
      PROVE  ManagerTyped' /\ manager'.cmd = NoCommand
  BY <1>4 DEF Spawn, ManagerTyped
<1>5. ASSUME UNCHANGED manager
      PROVE  ManagerTyped'
  <2> SUFFICES manager \in [cmd : Command \cup {NoCommand}, cursor : Allocated' \cup {NULL}]
    BY <1>5 DEF ManagerTyped
  <2> QED BY <1>0, <1>1 DEF ManagerTyped
<1>6. \/ \E cmd \in Command : TakeCommand(cmd)
      \/ MarkActive \/ Spawn \/ UNCHANGED manager
  BY DEF Next, vars, ManagerStep, threadVars, WorkerStep, EnterRead, EnterWrite, ConnAdd,
         ConnWelcome, SayStart, SayFindSender, SayCompose, SayBroadcast, SaytoLookup,
         SaytoSend, DisconnFindOwn, DisconnRemoveOwn, DisconnAnswer, Rename, KickCheck,
         KickRemove, KickAnswer, KickAnnounce, Relay
<1> QED BY <1>0, <1>2, <1>3, <1>4, <1>5, <1>6

-----------------------------------------------------------------------------
LEMMA InvariantInit == Init => IInv
<1> SUFFICES ASSUME Init PROVE IInv
  OBVIOUS
<1>1. ListTypeOK /\ ListMatchesHeap
  BY ListInitially, WorkersAssumption DEF Init
<1>2. worker \in [Worker -> WorkerRecord]
  BY IdleIsRecord DEF Init
<1>3. TypeOK
  <2>1. readers \subseteq Worker /\ writers \subseteq Worker
    BY DEF Init, Lock!LockInit
  <2>2. manager \in [cmd : Command \cup {NoCommand}, cursor : Allocated \cup {NULL}]
    BY DEF Init
  <2>3. arrived \in 0 .. MaxCommands
    BY WorkersAssumption DEF Init
  <2>4. told \in [Addr -> {"never", "welcome", "bye"}]
    BY DEF Init
  <2> QED BY <1>1, <1>2, <2>1, <2>2, <2>3, <2>4 DEF TypeOK, WorkerRecord, Pcs, Node
<1>4. CommandsTyped /\ BroadcastStartsAtHead
  BY DEF Init, CommandsTyped, BroadcastStartsAtHead, IdleWorker, At
<1> QED BY <1>1, <1>3, <1>4 DEF IInv, LockSafe, Init, Lock!LockInit

\* Freeing the head of the list or adding behind it cannot make a running
\* broadcast skip a client.
LEMMA BroadcastKept ==
  ASSUME IInv, ListOK', ListStep, WorkerChange
  PROVE  BroadcastStartsAtHead'
<1> SUFFICES ASSUME NEW w \in Worker,
                    worker'[w].pc \in {"find_sender", "compose", "broadcast"},
                    Live(worker[w].node)'
             PROVE  worker'[w].node = First'
  BY DEF BroadcastStartsAtHead
<1> DEFINE n == worker'[w].node
<1>0. worker \in [Worker -> WorkerRecord] /\ clients \in Seq(Allocated)
  BY InvariantIsListOK DEF IInv, TypeOK, WorkerRecord, Pcs, Node, ListOK
<1>1. n \in Node /\ \/ n = First
                    \/ /\ worker[w].pc \in {"find_sender", "compose", "broadcast"}
                       /\ n = worker[w].node
  <2>1. CASE worker'[w] = worker[w]
    BY <2>1, <1>0 DEF WorkerRecord
  <2>2. CASE worker'[w] # worker[w]
    <3>1. PICK v \in Worker, r \in WorkerRecord :
                 /\ Moves(v, r)
                 /\ r = IdleWorker \/ Continues(v, r) \/ Starts(v, r)
      BY <2>2 DEF WorkerChange
    <3>2. v = w /\ worker'[w] = r
      BY <3>1, <2>2, <1>0 DEF Moves
    <3>3. r # IdleWorker
      BY <3>2 DEF IdleWorker
    <3>4. ~Starts(v, r)
      BY <3>2, StartIsRecord DEF Starts
    <3>5. Continues(w, r)
      BY <3>1, <3>2, <3>3, <3>4
    <3> QED BY <3>2, <3>5 DEF Continues, WorkerRecord
  <2> QED BY <2>1, <2>2
<1>2. n \in Allocated
  <2>1. n \in DOMAIN heap' /\ heap'[n].live
    BY DEF Live, Allocated
  <2>2. n # NULL
    BY <2>1 DEF ListOK, NULL
  <2> QED BY <2>2, <1>1 DEF Node
<1>3. Live(n)
  <2>1. \A k \in Allocated : (k \in Allocated /\ heap[k].live)' => Live(k)
    BY DEF ListStep, Live
  <2> QED BY <2>1, <1>2 DEF Live
<1>4. n = First
  BY <1>1, <1>3 DEF IInv, BroadcastStartsAtHead
<1>5. clients # <<>> /\ n = clients[1]
  BY <1>3, <1>4, HeadIsListed, InvariantIsListOK, <1>2 DEF First
<1>6. clients' # <<>> /\ clients'[1] = clients[1]
  <2>1. heap'[n].live
    BY DEF Live
  <2> QED BY <1>5, <2>1 DEF ListStep
<1> QED BY <1>5, <1>6 DEF First

LEMMA CommandsKept ==
  ASSUME IInv, [Next]_vars
  PROVE  CommandsTyped'
<1>1. (manager.cmd # NoCommand => (Naming(manager.cmd.kind) => manager.cmd.arg \in Name))'
  BY ManagerKept
<1>2. ASSUME NEW w \in Worker, worker'[w].pc # "idle"
      PROVE  /\ worker'[w].cmd \in Command
             /\ worker'[w].pc \in {"add", "rename"} => worker'[w].cmd.arg \in Name
  <2>1. CASE worker'[w] = worker[w]
    BY <1>2, <2>1 DEF IInv, CommandsTyped, At, Arg
  <2>2. CASE worker'[w] # worker[w]
    <3>1. PICK v \in Worker, r \in WorkerRecord :
                 /\ Moves(v, r)
                 /\ r = IdleWorker \/ Continues(v, r) \/ Starts(v, r)
      BY <2>2, WorkerRecordsChange DEF WorkerChange
    <3>2. v = w /\ worker'[w] = r
      BY <3>1, <2>2 DEF Moves, IInv, TypeOK
    <3>3. r # IdleWorker
      BY <3>2, <1>2 DEF IdleWorker
    <3>4. CASE Continues(w, r)
      BY <3>2, <3>4 DEF Continues, IInv, CommandsTyped
    <3>5. CASE Starts(w, r)
      <4>1. /\ r.cmd = manager.cmd /\ r.cmd \in Command /\ manager.cmd # NoCommand
            /\ r.pc \in {"add", "rename"} => Naming(r.cmd.kind)
        BY <3>5, StartIsRecord DEF Starts
      <4> QED BY <3>2, <4>1 DEF IInv, CommandsTyped
    <3> QED BY <3>1, <3>2, <3>3, <3>4, <3>5
  <2> QED BY <2>1, <2>2
<1> QED BY <1>1, <1>2 DEF CommandsTyped, At, Arg

LEMMA InvariantStep == IInv /\ [Next]_vars => IInv'
<1> SUFFICES ASSUME IInv, [Next]_vars PROVE IInv'
  OBVIOUS
<1>1. ListOK' /\ ListStep
  BY InvariantIsListOK, WhoChangesTheList, ListChangeKeepsList
<1>2. WorkerChange
  BY WorkerRecordsChange
<1>3. TypeOK'
  <2>1. ListTypeOK'
    BY <1>1, RestKept DEF ListOK, RestTyped, FaultsTyped, ListTypeOK
  <2>2. (worker \in [Worker -> WorkerRecord])'
    <3>1. WorkerRecord \subseteq WorkerRecord'
      BY <1>1 DEF ListStep, WorkerRecord, Node
    <3>2. worker \in [Worker -> WorkerRecord]
      BY DEF IInv, TypeOK, WorkerRecord, Pcs, Node
    <3>3. worker' \in [Worker -> WorkerRecord]
      BY <1>2, <3>2 DEF WorkerChange, Moves
    <3> QED BY <3>1, <3>3
  <2> QED BY <2>1, <2>2, RestKept, ManagerKept
          DEF TypeOK, WorkerRecord, Pcs, Node, RestTyped, ManagerTyped
<1>4. CommandsTyped'
  BY CommandsKept
<1>5. ListMatchesHeap'
  BY <1>1 DEF ListOK
<1>6. BroadcastStartsAtHead'
  BY <1>1, <1>2, BroadcastKept
<1>7. LockSafe'
  BY RestKept
<1> QED BY <1>3, <1>4, <1>5, <1>6, <1>7 DEF IInv

\* The inductive invariant holds for any clients, threads and commands.
THEOREM InductiveInvariant == Spec => []IInv
<1>1. Init => IInv
  BY InvariantInit
<1>2. IInv /\ [Next]_vars => IInv'
  BY InvariantStep
<1> QED BY <1>1, <1>2, PTL DEF Spec

\* Every variable keeps its type while the command threads and the manager
\* interleave (all handlers of server_interface.c).
THEOREM TypeCorrect == Spec => []TypeOK
<1>1. IInv => TypeOK
  BY DEF IInv
<1> QED BY <1>1, InductiveInvariant, PTL

\* The list is the set of nodes added and not yet freed, each once
\* (add_client_to_list, remove_client_from_list, under any interleaving).
THEOREM ListIsHeap == Spec => []ListMatchesHeap
<1>1. IInv => ListMatchesHeap
  BY DEF IInv
<1> QED BY <1>1, InductiveInvariant, PTL

\* A broadcast never starts past the head of the list, although say reads *head
\* outside the monitor: unless its node was freed it is still the head.
THEOREM BroadcastsStartAtHead == Spec => []BroadcastStartsAtHead
<1>1. IInv => BroadcastStartsAtHead
  BY DEF IInv
<1> QED BY <1>1, InductiveInvariant, PTL

\* Admins succeed one another in the order of arrival, and only by leaving.
THEOREM AdminsSucceed == Spec => AdminSuccession
<1>1. IInv /\ [Next]_vars =>
        [clients # <<>> /\ clients' # <<>> /\ clients'[1] # clients[1]
           => /\ ~heap'[clients[1]].live
              /\ Len(clients) > 1 => clients'[1] = clients[2]]_listVars
  BY InvariantIsListOK, WhoChangesTheList, ListChangeKeepsList DEF ListStep
<1> QED BY <1>1, InductiveInvariant, PTL DEF Spec, AdminSuccession

\* The list and the names on it are stable for the threads in a read section.
THEOREM ListIsStable == Spec => ListStableForReaders
<1>1. IInv /\ [Next]_vars =>
        [readers # {} => clients' = clients /\ heap' = heap]_vars
  BY WhoChangesTheList DEF listVars
<1> QED BY <1>1, InductiveInvariant, PTL DEF Spec, ListStableForReaders

-----------------------------------------------------------------------------
(****************************************************************************)
(* Who sends and who is removed.  A second invariant, inductive under the   *)
(* first: a command at work is of a client that was on the list; NULL from  *)
(* a search means that it has left; a handler about to remove has found its *)
(* own node, or its sender at the head; names are of who bears them.        *)
(****************************************************************************)
WasListed(a) == \E n \in Allocated : heap[n].addr = a

SenderKnown(r) ==
  /\ r.pc \notin {"idle", "add"} => WasListed(r.cmd.from)
  /\ r.pc = "farewell" => WasListed(r.addr)
  /\ r.pc \in {"compose", "private"} /\ r.who = NULL => WasRemoved(r.cmd.from)
  /\ r.pc = "remove_own" => r.node \in Allocated /\ heap[r.node].addr = r.cmd.from
  /\ r.pc = "remove_named" => /\ r.node \in Allocated /\ heap[r.node].addr = r.cmd.from
                              /\ r.node = First \/ Dangles(r.node)
  /\ r.pc \in {"add", "rename"} => r.cmd.arg \in NamesOf[r.cmd.from]

CommandKnown ==
  /\ manager.cmd # NoCommand /\ manager.cmd.kind # "conn" => WasListed(manager.cmd.from)
  /\ manager.cmd # NoCommand /\ Naming(manager.cmd.kind)
       => manager.cmd.arg \in NamesOf[manager.cmd.from]

NamesOwned == \A n \in Allocated : heap[n].name \in NamesOf[heap[n].addr]

ToldKnown == \A a \in Addr : told[a] # "never" => WasListed(a)

SenderInv == (\A w \in Worker : SenderKnown(worker[w])) /\ CommandKnown /\ NamesOwned /\ ToldKnown

\* What was true of a client's past stays so, and a head stays one until it leaves.
LEMMA PastKept ==
  ASSUME ListOK, ListOK', ListStep
  PROVE  /\ \A a : WasListed(a) => WasListed(a)'
         /\ \A a : WasRemoved(a) => WasRemoved(a)'
<1>1. \A n \in Allocated : n \in Allocated' /\ heap'[n].addr = heap[n].addr
  BY DEF ListStep
<1>2. \A n \in Allocated : ~heap[n].live => ~heap'[n].live
  BY <1>1 DEF ListStep, Live
<1> QED BY <1>1, <1>2 DEF WasListed, WasRemoved

LEMMA HeadKept ==
  ASSUME ListOK, ListStep, NEW n \in Allocated, n = First \/ Dangles(n)
  PROVE  n = First' \/ Dangles(n)'
<1>1. n \in Allocated' /\ n # NULL
  BY DEF ListStep, ListOK, Allocated, NULL
<1>2. CASE Dangles(n)
  <2>1. ~heap'[n].live
    BY <1>1, <1>2 DEF ListStep, Live, Dangles
  <2> QED BY <1>1, <2>1 DEF Dangles
<1>3. CASE n = First
  <2>1. clients # <<>> /\ n = clients[1]
    BY <1>1, <1>3 DEF First
  <2>2. CASE clients' # <<>> /\ clients'[1] = clients[1]
    BY <2>1, <2>2 DEF First
  <2>3. CASE ~heap'[clients[1]].live
    BY <1>1, <2>1, <2>3 DEF Dangles
  <2> QED BY <2>1, <2>2, <2>3 DEF ListStep
<1> QED BY <1>2, <1>3

LEMMA SenderStaysKnown ==
  ASSUME ListOK, ListOK', ListStep
  PROVE  \A r : SenderKnown(r) => SenderKnown(r)'
<1> SUFFICES ASSUME NEW r, SenderKnown(r) PROVE SenderKnown(r)'
  OBVIOUS
<1>1. r.pc \in {"remove_own", "remove_named"} =>
        r.node \in Allocated' /\ heap'[r.node].addr = r.cmd.from
  BY DEF SenderKnown, ListStep
<1>2. r.pc = "remove_named" => r.node = First' \/ Dangles(r.node)'
  BY HeadKept DEF SenderKnown
<1> QED BY <1>1, <1>2, PastKept DEF SenderKnown

\* A search that finds nobody: the sender has left.
LEMMA NotFoundWasRemoved ==
  ASSUME ListOK, NEW a, WasListed(a), FindByAddress(a) = NULL
  PROVE  WasRemoved(a)
BY FoundByAddress DEF WasListed, WasRemoved, Live

\* A removal frees the node that the search finds, and its client is answered.
LEMMA RemovalEffects ==
  ASSUME IInv, NEW w \in Worker, NEW x, RemoveClient(x), AnswerRemoved(w, x)
  PROVE  \/ UNCHANGED listVars /\ Exit(w)
         \/ \E n \in Allocated :
              /\ Live(n) /\ heap[n].name = x
              /\ Allocated' = Allocated
              /\ \A m \in Allocated :
                   heap'[m] = IF m = n THEN [heap[m] EXCEPT !.live = FALSE] ELSE heap[m]
              /\ worker' = [worker EXCEPT ![w].addr = heap[n].addr, ![w].pc = "farewell"]
<1>1. ListOK
  BY InvariantIsListOK
<1>2. CASE FindByName(x) = NULL
  BY <1>1, <1>2, RemovedByName DEF AnswerRemoved
<1>3. CASE FindByName(x) # NULL
  <2> DEFINE n == FindByName(x)
  <2>1. n \in Allocated /\ Live(n) /\ heap[n].name = x
    BY <1>1, <1>3, FoundByName
  <2>2. /\ Allocated' = Allocated
        /\ \A m \in Allocated :
             heap'[m] = IF m = n THEN [heap[m] EXCEPT !.live = FALSE] ELSE heap[m]
    BY <1>1, <1>3, RemovedByName
  <2>3. worker' = [worker EXCEPT ![w].addr = heap[n].addr, ![w].pc = "farewell"]
    BY <1>3 DEF AnswerRemoved
  <2> QED BY <2>1, <2>2, <2>3
<1> QED BY <1>2, <1>3

LEMMA NamesOwnedKept ==
  ASSUME IInv, SenderInv, [Next]_vars
  PROVE  NamesOwned'
<1>1. ListOK /\ NamesOwned
  BY InvariantIsListOK DEF SenderInv
<1>2. CASE UNCHANGED listVars
  BY <1>1, <1>2 DEF listVars, NamesOwned, Allocated
<1>3. ASSUME NEW x, RemoveClient(x) PROVE NamesOwned'
  <2>1. CASE FindByName(x) = NULL
    BY <1>1, <1>2, <1>3, <2>1, RemovedByName
  <2>2. CASE FindByName(x) # NULL
    <3>1. Allocated' = Allocated
      BY <1>1, <1>3, <2>2, RemovedByName
    <3>2. \A m \in Allocated : heap'[m].name = heap[m].name /\ heap'[m].addr = heap[m].addr
      <4>1. \A m \in Allocated : heap[m] \in ClientNode
        BY <1>1 DEF ListOK, Allocated
      <4>2. \A m \in Allocated : \/ heap'[m] = heap[m]
                                 \/ heap'[m] = [heap[m] EXCEPT !.live = FALSE]
        BY <1>1, <1>3, <2>2, RemovedByName
      <4> QED BY <4>1, <4>2 DEF ClientNode
    <3> QED BY <1>1, <3>1, <3>2 DEF NamesOwned
  <2> QED BY <2>1, <2>2
<1>4. ASSUME NEW w \in Worker, ConnAdd(w) PROVE NamesOwned'
  <2>1. From(w) \in Addr /\ Arg(w) \in Name /\ AddClient(From(w), Arg(w))
    BY <1>4 DEF ConnAdd, Runs, At, IInv, CommandsTyped, Command, From
  <2>2. Arg(w) \in NamesOf[From(w)]
    BY <1>4 DEF ConnAdd, Runs, At, SenderInv, SenderKnown, Arg, From
  <2> DEFINE a == From(w)  x == Arg(w)
  <2> HIDE DEF a, x
  <2>3. /\ Allocated' = Allocated \cup {Len(heap) + 1}
        /\ \A m \in Allocated : heap'[m] = heap[m]
        /\ heap'[Len(heap) + 1] = [addr |-> a, name |-> x, live |-> TRUE]
    BY <1>1, <2>1, AddedNode DEF a, x
  <2>4. heap'[Len(heap) + 1].name \in NamesOf[heap'[Len(heap) + 1].addr]
    BY <2>2, <2>3 DEF a, x
  <2> QED BY <1>1, <2>3, <2>4 DEF NamesOwned
<1>5. ASSUME NEW w \in Worker, Rename(w) PROVE NamesOwned'
  <2> DEFINE own == FindByAddress(From(w))
  <2>1. CASE own = NULL
    BY <1>2, <1>5, <2>1 DEF Rename
  <2>2. CASE own # NULL
    <3>1. own \in Allocated /\ heap[own].addr = From(w)
      BY <1>1, <2>2, FoundByAddress
    <3>2. RenameClient(own, Arg(w)) /\ Arg(w) \in Name /\ Arg(w) \in NamesOf[From(w)]
      BY <1>5, <2>2 DEF Rename, Runs, At, SenderInv, SenderKnown, Arg, From, IInv, CommandsTyped
    <3> HIDE DEF own
    <3>3. Allocated' = Allocated
      BY <1>1, <3>1, <3>2, RenamedNode
    <3>4. \A m \in Allocated : /\ m = own => heap'[m].name = Arg(w) /\ heap'[m].addr = From(w)
                               /\ m # own => heap'[m] = heap[m]
      <4>1. \A m \in Allocated : heap[m] \in ClientNode
        BY <1>1 DEF ListOK, Allocated
      <4>2. \A m \in Allocated :
               heap'[m] = IF m = own THEN [heap[m] EXCEPT !.name = Arg(w)] ELSE heap[m]
        BY <1>1, <3>1, <3>2, RenamedNode
      <4> QED BY <3>1, <4>1, <4>2 DEF ClientNode
    <3> QED BY <1>1, <3>2, <3>3, <3>4 DEF NamesOwned
  <2> QED BY <2>1, <2>2
<1>6. \/ UNCHANGED listVars \/ \E x : RemoveClient(x)
      \/ \E w \in Worker : ConnAdd(w) \/ Rename(w)
  BY DEF Next, vars, listVars, ManagerStep, TakeCommand, MarkActive, Spawn, WorkerStep, EnterRead,
         EnterWrite, ConnWelcome, SayStart, SayFindSender, SayCompose, SayBroadcast, SaytoLookup,
         SaytoSend, DisconnFindOwn, DisconnRemoveOwn, DisconnAnswer, KickCheck,
         KickRemove, KickAnswer, KickAnnounce, Relay
<1> QED BY <1>2, <1>3, <1>4, <1>5, <1>6

\* One thread goes on with a record that fits, the others stay as they are.
LEMMA OneMoves ==
  ASSUME IInv, ListOK, ListOK', ListStep, SenderInv,
         NEW w \in Worker, SenderKnown(worker[w])',
         \A v \in Worker \ {w} : worker'[v] = worker[v]
  PROVE  \A v \in Worker : SenderKnown(worker[v])'
<1> SUFFICES ASSUME NEW v \in Worker PROVE SenderKnown(worker[v])'
  OBVIOUS
<1>1. CASE v = w
  BY <1>1
<1>2. CASE v # w
  <2>1. PICK r : r = worker[v]
    OBVIOUS
  <2>2. worker'[v] = r /\ SenderKnown(r)
    BY <1>2, <2>1 DEF SenderInv
  <2>3. SenderKnown(r)'
    BY <2>2, SenderStaysKnown
  <2> QED BY <2>2, <2>3 DEF SenderKnown
<1> QED BY <1>1, <1>2

LEMMA MoveKeepsSenders ==
  ASSUME IInv, ListOK, ListOK', ListStep, SenderInv,
         NEW w \in Worker, NEW r, worker' = [worker EXCEPT ![w] = r], SenderKnown(r)'
  PROVE  \A v \in Worker : SenderKnown(worker[v])'
<1>1. worker'[w] = r /\ \A v \in Worker \ {w} : worker'[v] = worker[v]
  BY DEF IInv, TypeOK
<1>2. SenderKnown(worker[w])'
  BY <1>1 DEF SenderKnown
<1> QED BY <1>1, <1>2, OneMoves

LEMMA ExitKeepsSenders ==
  ASSUME IInv, ListOK, ListOK', ListStep, SenderInv, NEW w \in Worker, Exit(w)
  PROVE  \A v \in Worker : SenderKnown(worker[v])'
<1>1. SenderKnown(IdleWorker)'
  BY DEF SenderKnown, IdleWorker
<1>2. PICK r : r = IdleWorker
  OBVIOUS
<1>3. SenderKnown(r)'
  BY <1>1, <1>2 DEF SenderKnown
<1> QED BY <1>2, <1>3, MoveKeepsSenders DEF Exit

\* A handler goes on to a step at which all that matters is its sender.
LEMMA GotoKeepsSenders ==
  ASSUME IInv, ListOK, ListOK', ListStep, SenderInv,
         NEW w \in Worker, NEW pc \in {"welcome", "broadcast", "announce"}, Goto(w, pc),
         NEW a, a = From(w), WasListed(a)'
  PROVE  \A v \in Worker : SenderKnown(worker[v])'
<1>1. PICK r : r = [worker[w] EXCEPT !.pc = pc]
  OBVIOUS
<1>2. worker' = [worker EXCEPT ![w] = r]
  BY <1>1 DEF Goto
<1>3. r.pc = pc /\ r.cmd.from = a
  BY <1>1, WorkersTyped DEF WorkerRecord, From
<1>4. SenderKnown(r)'
  BY <1>3 DEF SenderKnown
<1> QED BY <1>2, <1>4, MoveKeepsSenders

\* Whoever was removed is answered at an address that was on the list.
LEMMA RemovalKeepsSenders ==
  ASSUME IInv, ListOK, ListOK', ListStep, SenderInv,
         NEW w \in Worker, worker[w].pc \in {"remove_own", "remove_named"},
         NEW x, RemoveClient(x), AnswerRemoved(w, x)
  PROVE  \A v \in Worker : SenderKnown(worker[v])'
<1>1. CASE Exit(w)
  BY <1>1, ExitKeepsSenders
<1>2. ASSUME NEW n \in Allocated,
             worker' = [worker EXCEPT ![w].addr = heap[n].addr, ![w].pc = "farewell"]
      PROVE  \A v \in Worker : SenderKnown(worker[v])'
  <2>1. PICK r : r = [worker[w] EXCEPT !.addr = heap[n].addr, !.pc = "farewell"]
    OBVIOUS
  <2>2. worker' = [worker EXCEPT ![w] = r]
    BY <1>2, <2>1 DEF IInv, TypeOK
  <2>3. r.pc = "farewell" /\ r.cmd = worker[w].cmd /\ r.addr = heap[n].addr
    BY <2>1, WorkersTyped DEF WorkerRecord
  <2>4. WasListed(r.addr) /\ WasListed(r.cmd.from)
    BY <2>3 DEF WasListed, SenderInv, SenderKnown
  <2>5. SenderKnown(r)'
    BY <2>3, <2>4, PastKept DEF SenderKnown
  <2> QED BY <2>2, <2>5, MoveKeepsSenders
<1> QED BY <1>1, <1>2, RemovalEffects

\* A handler starts with a sender that is known, unless it is to be added.
LEMMA SpawnKeepsSenders ==
  ASSUME IInv, ListOK, ListOK', ListStep, SenderInv, Spawn
  PROVE  \A v \in Worker : SenderKnown(worker[v])'
<1>1. CASE UNCHANGED worker
  <2>1. PICK f : f = worker
    OBVIOUS
  <2>2. \A v \in Worker : SenderKnown(f[v])
    BY <2>1 DEF SenderInv
  <2>3. \A v \in Worker : SenderKnown(f[v])'
    BY <2>2, SenderStaysKnown
  <2> QED BY <1>1, <2>1, <2>3 DEF SenderKnown
<1>2. ASSUME NEW w \in Worker, manager.cmd.kind # "retping",
             worker' = [worker EXCEPT ![w] = [IdleWorker EXCEPT
                                               !.pc = FirstPc(manager.cmd.kind),
                                               !.cmd = manager.cmd]]
      PROVE  \A v \in Worker : SenderKnown(worker[v])'
  <2>1. PICK r : r = [IdleWorker EXCEPT !.pc = FirstPc(manager.cmd.kind), !.cmd = manager.cmd]
    OBVIOUS
  <2>2. worker' = [worker EXCEPT ![w] = r]
    BY <1>2, <2>1
  <2>3. manager.cmd # NoCommand
    BY DEF Spawn
  <2>4. r.pc = FirstPc(manager.cmd.kind) /\ r.cmd = manager.cmd
    BY <2>1 DEF IdleWorker
  <2>5. manager.cmd.kind \in AllKinds
    BY <2>3, WorkersAssumption DEF IInv, TypeOK, Command
  <2>6. /\ r.pc \in {"add", "start", "lookup", "rename", "find_own", "check", "relay"}
        /\ r.pc # "add" => manager.cmd.kind # "conn"
        /\ r.pc \in {"add", "rename"} => Naming(manager.cmd.kind)
    BY <1>2, <2>4, <2>5 DEF FirstPc, AllKinds, Naming
  <2>7. /\ r.pc # "add" => WasListed(r.cmd.from)
        /\ r.pc \in {"add", "rename"} => r.cmd.arg \in NamesOf[r.cmd.from]
    BY <2>3, <2>4, <2>6 DEF SenderInv, CommandKnown
  <2>8. SenderKnown(r)
    BY <2>6, <2>7 DEF SenderKnown
  <2>9. SenderKnown(r)'
    BY <2>8, SenderStaysKnown
  <2> QED BY <2>2, <2>9, MoveKeepsSenders
<1> QED BY <1>1, <1>2 DEF Spawn

LEMMA SendersKept ==
  ASSUME IInv, ListOK, ListOK', ListStep, SenderInv, [Next]_vars
  PROVE  \A v \in Worker : SenderKnown(worker[v])'
<1>1. CASE UNCHANGED worker
  <2>1. PICK f : f = worker
    OBVIOUS
  <2>2. \A v \in Worker : SenderKnown(f[v])
    BY <2>1 DEF SenderInv
  <2>3. \A v \in Worker : SenderKnown(f[v])'
    BY <2>2, SenderStaysKnown
  <2> QED BY <1>1, <2>1, <2>3 DEF SenderKnown
<1>2. ASSUME NEW w \in Worker, WorkerStep(w)
      PROVE  \A v \in Worker : SenderKnown(worker[v])'
  <2> USE DEF Runs, At
  <2>0. PICK a : a = From(w)
    OBVIOUS
  <2>a. worker[w] \in WorkerRecord /\ SenderKnown(worker[w])
    BY WorkersTyped DEF SenderInv
  <2>b. worker[w].pc \notin {"idle", "add"} => WasListed(a) /\ WasListed(a)'
    BY <2>0, <2>a, PastKept DEF SenderKnown, From
  <2>1. CASE EnterRead(w) \/ EnterWrite(w)
    BY <1>1, <2>1 DEF EnterRead, EnterWrite
  <2>2. CASE ConnWelcome(w) \/ SayBroadcast(w) \/ SaytoSend(w) \/ DisconnAnswer(w)
               \/ Rename(w) \/ KickAnnounce(w) \/ Relay(w)
    BY <2>2, ExitKeepsSenders DEF ConnWelcome, SayBroadcast, SaytoSend, DisconnAnswer,
                                  Rename, KickAnnounce, Relay
  <2>3. CASE ConnAdd(w)
    <3>1. a \in Addr /\ Arg(w) \in Name /\ AddClient(a, Arg(w))
      BY <2>0, <2>3 DEF ConnAdd, IInv, CommandsTyped, Command, From
    <3> DEFINE x == Arg(w)
    <3> HIDE DEF x
    <3>2. /\ Len(heap) + 1 \in Allocated'
          /\ heap'[Len(heap) + 1] = [addr |-> a, name |-> x, live |-> TRUE]
      BY <3>1, AddedNode DEF x
    <3>3. WasListed(a)'
      BY <3>2 DEF WasListed
    <3> QED BY <2>0, <2>3, <3>3, GotoKeepsSenders DEF ConnAdd
  <2>4. CASE SayCompose(w)
    BY <2>0, <2>b, <2>4, GotoKeepsSenders DEF SayCompose
  <2>5. CASE KickAnswer(w)
    BY <2>0, <2>b, <2>5, GotoKeepsSenders DEF KickAnswer
  <2>6. CASE KickRemove(w)
    BY <2>6, RemovalKeepsSenders DEF KickRemove
  <2>7. CASE DisconnRemoveOwn(w)
    BY <2>7, RemovalKeepsSenders DEF DisconnRemoveOwn
  <2>8. CASE SayStart(w)
    <3>1. PICK r : r = [worker[w] EXCEPT !.node = First, !.pc = "find_sender"]
      OBVIOUS
    <3>2. worker' = [worker EXCEPT ![w] = r]
      BY <2>8, <3>1 DEF SayStart, IInv, TypeOK
    <3>3. r.pc = "find_sender" /\ r.cmd.from = a
      BY <2>0, <2>a, <3>1 DEF WorkerRecord, From
    <3>4. SenderKnown(r)'
      BY <2>b, <2>8, <3>3 DEF SayStart, SenderKnown
    <3> QED BY <3>2, <3>4, MoveKeepsSenders
  <2>9. CASE SayFindSender(w)
    <3>1. PICK r : r = [worker[w] EXCEPT !.who = FindByAddress(a), !.pc = "compose"]
      OBVIOUS
    <3>2. worker' = [worker EXCEPT ![w] = r]
      BY <2>0, <2>9, <3>1 DEF SayFindSender, IInv, TypeOK
    <3>3. r.pc = "compose" /\ r.cmd.from = a /\ r.who = FindByAddress(a)
      BY <2>0, <2>a, <3>1 DEF WorkerRecord, From
    <3>4. WasListed(a) /\ (r.who = NULL => WasRemoved(a))
      BY <2>b, <2>9, <3>3, NotFoundWasRemoved DEF SayFindSender
    <3>5. SenderKnown(r)'
      BY <2>b, <3>3, <3>4, PastKept DEF SenderKnown
    <3> QED BY <3>2, <3>5, MoveKeepsSenders
  <2>10. CASE SaytoLookup(w)
    <3>1. PICK r : r = [worker[w] EXCEPT !.node = FindByName(Arg(w)),
                                         !.who = FindByAddress(a), !.pc = "private"]
      OBVIOUS
    <3>2. worker' = [worker EXCEPT ![w] = r]
      BY <2>0, <2>10, <3>1 DEF SaytoLookup, IInv, TypeOK
    <3>3. r.pc = "private" /\ r.cmd.from = a /\ r.who = FindByAddress(a)
      BY <2>0, <2>a, <3>1 DEF WorkerRecord, From
    <3>4. WasListed(a) /\ (r.who = NULL => WasRemoved(a))
      BY <2>b, <2>10, <3>3, NotFoundWasRemoved DEF SaytoLookup
    <3>5. SenderKnown(r)'
      BY <2>b, <3>3, <3>4, PastKept DEF SenderKnown
    <3> QED BY <3>2, <3>5, MoveKeepsSenders
  <2>11. CASE DisconnFindOwn(w)
    <3> DEFINE own == FindByAddress(From(w))
    <3>0. CASE own = NULL
      BY <2>11, <3>0, ExitKeepsSenders DEF DisconnFindOwn
    <3>1. CASE own # NULL
      <4>1. PICK r : r = [worker[w] EXCEPT !.node = FindByAddress(a), !.pc = "remove_own"]
        OBVIOUS
      <4>2. worker' = [worker EXCEPT ![w] = r]
        BY <2>0, <2>11, <3>1, <4>1 DEF DisconnFindOwn, IInv, TypeOK
      <4>3. r.pc = "remove_own" /\ r.cmd.from = a /\ r.node = FindByAddress(a)
        BY <2>0, <2>a, <4>1 DEF WorkerRecord, From
      <4>4. r.node \in Allocated /\ heap[r.node].addr = a
        BY <2>0, <3>1, <4>3, FoundByAddress
      <4>5. SenderKnown(r)
        BY <2>b, <2>11, <4>3, <4>4 DEF DisconnFindOwn, SenderKnown
      <4>6. SenderKnown(r)'
        BY <4>5, SenderStaysKnown
      <4> QED BY <4>2, <4>6, MoveKeepsSenders
    <3> QED BY <3>0, <3>1
  <2>12. CASE KickCheck(w)
    <3>0. CASE ~IsAdmin(From(w))
      BY <2>12, <3>0, ExitKeepsSenders DEF KickCheck
    <3>1. CASE IsAdmin(From(w))
      <4>1. PICK n : n = First
        OBVIOUS
      <4>2. PICK r : r = [worker[w] EXCEPT !.node = n, !.pc = "remove_named"]
        OBVIOUS
      <4>3. worker' = [worker EXCEPT ![w] = r]
        BY <2>12, <3>1, <4>1, <4>2 DEF KickCheck, IInv, TypeOK
      <4>4. r.pc = "remove_named" /\ r.cmd.from = a /\ r.node = n
        BY <2>0, <2>a, <4>2 DEF WorkerRecord, From
      <4>5. n \in Allocated /\ heap[n].addr = a
        BY <2>0, <3>1, <4>1, FoundIsNode DEF IsAdmin, Node
      <4>6. SenderKnown(r)
        BY <2>b, <2>12, <4>1, <4>4, <4>5 DEF KickCheck, SenderKnown
      <4>7. SenderKnown(r)'
        BY <4>6, SenderStaysKnown
      <4> QED BY <4>3, <4>7, MoveKeepsSenders
    <3> QED BY <3>0, <3>1
  <2> QED BY <1>2, <2>1, <2>2, <2>3, <2>4, <2>5, <2>6, <2>7, <2>8, <2>9, <2>10, <2>11, <2>12
          DEF WorkerStep
<1>3. CASE ManagerStep
  BY <1>1, <1>3, SpawnKeepsSenders DEF ManagerStep, TakeCommand, MarkActive
<1>4. UNCHANGED vars => UNCHANGED worker
  BY DEF vars
<1> QED BY <1>1, <1>2, <1>3, <1>4 DEF Next

\* The manager takes a command from a client that was told something, unless the
\* client wants to join.
LEMMA CommandKnownKept ==
  ASSUME IInv, ListOK, ListOK', ListStep, SenderInv, [Next]_vars
  PROVE  CommandKnown'
<1>1. CASE manager'.cmd = manager.cmd
  <2>1. PICK c : c = manager.cmd
    OBVIOUS
  <2>2. c # NoCommand /\ c.kind # "conn" => WasListed(c.from)'
    BY <2>1, PastKept DEF SenderInv, CommandKnown
  <2> QED BY <1>1, <2>1, <2>2 DEF SenderInv, CommandKnown, WasListed
<1>2. CASE manager'.cmd = NoCommand
  BY <1>2 DEF CommandKnown
<1>3. ASSUME NEW cmd \in Command, TakeCommand(cmd) PROVE CommandKnown'
  <2>1. manager'.cmd = cmd /\ cmd.from \in Addr
    BY <1>3 DEF TakeCommand, Command
  <2>2. cmd.kind # "conn" => WasListed(cmd.from)'
    BY <1>3, <2>1, PastKept DEF TakeCommand, MaySend, SenderInv, ToldKnown
  <2>3. Naming(cmd.kind) => cmd.arg \in NamesOf[cmd.from]
    BY <1>3 DEF TakeCommand, MaySend, ArgsOf, Naming
  <2> QED BY <2>1, <2>2, <2>3 DEF CommandKnown, WasListed
<1>4. MarkActive => manager'.cmd = manager.cmd
  BY DEF MarkActive, IInv, TypeOK
<1>5. Spawn => manager'.cmd = NoCommand
  BY DEF Spawn
<1>6. \/ \E cmd \in Command : TakeCommand(cmd)
      \/ MarkActive \/ Spawn \/ UNCHANGED manager
  BY DEF Next, vars, ManagerStep, threadVars, WorkerStep, EnterRead, EnterWrite, ConnAdd,
         ConnWelcome, SayStart, SayFindSender, SayCompose, SayBroadcast, SaytoLookup,
         SaytoSend, DisconnFindOwn, DisconnRemoveOwn, DisconnAnswer, Rename, KickCheck,
         KickRemove, KickAnswer, KickAnnounce, Relay
<1> QED BY <1>1, <1>2, <1>3, <1>4, <1>5, <1>6

\* Only clients that were on the list are told anything about it.
LEMMA ToldKnownKept ==
  ASSUME IInv, ListOK, ListOK', ListStep, SenderInv, [Next]_vars
  PROVE  ToldKnown'
<1>0. \A a \in Addr : told[a] # "never" => WasListed(a)'
  BY PastKept DEF SenderInv, ToldKnown
<1>1. CASE UNCHANGED told
  BY <1>0, <1>1 DEF ToldKnown, WasListed
<1>2. ASSUME NEW b, WasListed(b), NEW word, told' = [told EXCEPT ![b] = word]
      PROVE  ToldKnown'
  <2>1. WasListed(b)'
    BY <1>2, PastKept
  <2>2. \A a \in Addr : a # b => told'[a] = told[a]
    BY <1>2 DEF IInv, TypeOK
  <2> QED BY <1>0, <2>1, <2>2 DEF ToldKnown, WasListed
<1>3. ASSUME NEW w \in Worker, ConnWelcome(w) \/ DisconnAnswer(w) \/ KickAnswer(w)
      PROVE  ToldKnown'
  <2>1. CASE ConnWelcome(w)
    BY <1>2, <2>1 DEF ConnWelcome, Runs, At, SenderInv, SenderKnown, From
  <2>2. CASE DisconnAnswer(w) \/ KickAnswer(w)
    BY <1>2, <2>2 DEF DisconnAnswer, KickAnswer, Runs, At, SenderInv, SenderKnown
  <2> QED BY <1>3, <2>1, <2>2
<1>4. \/ \E w \in Worker : ConnWelcome(w) \/ DisconnAnswer(w) \/ KickAnswer(w)
      \/ UNCHANGED told
  BY DEF Next, vars, ManagerStep, TakeCommand, MarkActive, Spawn, WorkerStep, EnterRead,
         EnterWrite, ConnAdd, SayStart, SayFindSender, SayCompose, SayBroadcast, SaytoLookup,
         SaytoSend, DisconnFindOwn, DisconnRemoveOwn, Rename, KickCheck,
         KickRemove, KickAnnounce, Relay
<1> QED BY <1>1, <1>3, <1>4

LEMMA SenderInit == Init => SenderInv
<1> SUFFICES ASSUME Init PROVE SenderInv
  OBVIOUS
<1>1. Allocated = DOMAIN InitialClients
  BY DEF Init, ListInit, Allocated
<1>2. \A n \in Allocated : /\ heap[n].addr = InitialClients[n].addr
                           /\ heap[n].name = InitialClients[n].name
  BY <1>1 DEF Init, ListInit, Allocated
<1>3. NamesOwned
  BY <1>1, <1>2, ClientsAssumption DEF NamesOwned
<1>4. ToldKnown
  BY <1>1, <1>2 DEF Init, ToldKnown, WasListed
<1>5. \A w \in Worker : SenderKnown(worker[w])
  BY DEF Init, SenderKnown, IdleWorker
<1>6. CommandKnown
  BY DEF Init, CommandKnown
<1> QED BY <1>3, <1>4, <1>5, <1>6 DEF SenderInv

\* Senders, their pasts and their names, under every interleaving of the handlers.
THEOREM SendersAreKnown == Spec => [](IInv /\ SenderInv)
<1>1. Init => IInv /\ SenderInv
  BY InvariantInit, SenderInit
<1>2. IInv /\ SenderInv /\ [Next]_vars => (IInv /\ SenderInv)'
  <2> SUFFICES ASSUME IInv, SenderInv, [Next]_vars PROVE IInv' /\ SenderInv'
    OBVIOUS
  <2>1. IInv' /\ ListOK /\ ListOK' /\ ListStep
    BY InvariantStep, InvariantIsListOK, WhoChangesTheList, ListChangeKeepsList
  <2>2. (\A v \in Worker : SenderKnown(worker[v]))'
    BY <2>1, SendersKept
  <2> QED BY <2>1, <2>2, CommandKnownKept, NamesOwnedKept, ToldKnownKept DEF SenderInv
<1> QED BY <1>1, <1>2, PTL DEF Spec

\* Whoever removes by kick$ is the client of the node that headed the list at the
\* check, and this node heads it still or was freed since (server_interface.c
\* 321-345).
THEOREM OnlyAdminsKick == Spec => AdminsKick
<1>1. SenderInv => \A w \in Worker : At(w, "remove_named") =>
                     \E n \in Allocated :
                       /\ n = worker[w].node /\ heap[n].addr = From(w)
                       /\ n = First \/ Dangles(n)
  BY DEF SenderInv, SenderKnown, At, From
<1>2. SenderInv => [\A w \in Worker :
                      At(w, "remove_named") /\ worker'[w].pc = "farewell" =>
                        \E n \in Allocated :
                          /\ n = worker[w].node /\ heap[n].addr = From(w)
                          /\ n = First \/ Dangles(n)]_vars
  BY <1>1
<1> QED BY <1>2, SendersAreKnown, PTL DEF AdminsKick

\* A step of one thread leaves the records of the others alone.
LEMMA OthersStay ==
  ASSUME IInv, NEW v \in Worker, WorkerStep(v), NEW w \in Worker \ {v}
  PROVE  worker'[w] = worker[w]
<1>1. worker \in [Worker -> WorkerRecord]
  BY DEF IInv, TypeOK, WorkerRecord, Pcs, Node
<1> USE DEF Goto, Exit
<1>2. CASE EnterRead(v) \/ EnterWrite(v)
  BY <1>2 DEF EnterRead, EnterWrite
<1>3. CASE ConnAdd(v) \/ ConnWelcome(v) \/ Relay(v) \/ Rename(v) \/ DisconnAnswer(v)
  BY <1>1, <1>3 DEF ConnAdd, ConnWelcome, Relay, Rename, DisconnAnswer
<1>4. CASE SayStart(v) \/ SayFindSender(v) \/ SayCompose(v) \/ SayBroadcast(v)
  BY <1>1, <1>4 DEF SayStart, SayFindSender, SayCompose, SayBroadcast
<1>5. CASE SaytoLookup(v) \/ SaytoSend(v) \/ DisconnFindOwn(v)
  BY <1>1, <1>5 DEF SaytoLookup, SaytoSend, DisconnFindOwn
<1>6. CASE KickCheck(v) \/ KickAnswer(v) \/ KickAnnounce(v)
  BY <1>1, <1>6 DEF KickCheck, KickAnswer, KickAnnounce
<1>7. CASE DisconnRemoveOwn(v) \/ KickRemove(v)
  BY <1>1, <1>7 DEF DisconnRemoveOwn, KickRemove, AnswerRemoved
<1> QED BY <1>2, <1>3, <1>4, <1>5, <1>6, <1>7 DEF WorkerStep

\* Names tell clients apart.
LEMMA OneNameOneClient ==
  ASSUME ListOK, NamesOwned, NEW m \in Allocated, NEW n \in Allocated,
         heap[m].name = heap[n].name
  PROVE  heap[m].addr = heap[n].addr
<1>1. heap[m].addr \in Addr /\ heap[n].addr \in Addr
  <2>1. heap[m] \in ClientNode /\ heap[n] \in ClientNode
    BY DEF ListOK, Allocated
  <2> QED BY <2>1 DEF ClientNode
<1>2. heap[m].name \in NamesOf[heap[m].addr] \cap NamesOf[heap[n].addr]
  BY DEF NamesOwned
<1> QED BY <1>1, <1>2, ClientsAssumption

\* disconnect removes a node of its sender, although it removes by a name read in
\* another section (server_interface.c 223-237), as long as that node was not
\* freed in between.
THEOREM DisconnectsRemoveSender == Spec => DisconnectRemovesSender
<1>1. ASSUME IInv, SenderInv, [Next]_vars,
             NEW w \in Worker, NEW n \in Allocated, At(w, "remove_own"),
             misuse' = {}, Live(n), ~heap'[n].live, worker'[w].pc # "remove_own"
      PROVE  heap[n].addr = From(w)
  <2>0. ListOK /\ NamesOwned
    BY <1>1, InvariantIsListOK DEF SenderInv
  <2>1. WorkerStep(w)
    <3>1. ~UNCHANGED worker
      BY <1>1 DEF At
    <3>2. CASE Spawn
      BY <1>1, <3>1, <3>2 DEF Spawn, At, IInv, TypeOK
    <3>3. ASSUME NEW v \in Worker, WorkerStep(v) PROVE v = w
      BY <1>1, <3>3, OthersStay DEF At
    <3> QED BY <1>1, <3>1, <3>2, <3>3
            DEF Next, vars, ManagerStep, TakeCommand, MarkActive
  <2>2. DisconnRemoveOwn(w)
    BY <1>1, <2>1
       DEF WorkerStep, Runs, At, EnterRead, EnterWrite, ConnAdd, ConnWelcome, SayStart,
           SayFindSender, SayCompose, SayBroadcast, SaytoLookup, SaytoSend, DisconnFindOwn,
           DisconnAnswer, Rename, KickCheck, KickRemove, KickAnswer, KickAnnounce, Relay
  <2> DEFINE own == worker[w].node
  <2>3. own \in Allocated /\ heap[own].addr = From(w) /\ own # NULL
    BY <1>1, <2>0 DEF SenderInv, SenderKnown, At, From, ListOK, Allocated, NULL
  <2>4. Live(own)
    BY <1>1, <2>2, <2>3 DEF DisconnRemoveOwn, Follow
  <2>5. PICK x : x = heap[own].name /\ RemoveClient(x)
    BY <2>2, <2>4 DEF DisconnRemoveOwn
  <2>6. FindByName(x) = n /\ n # NULL
    <3>1. n # NULL
      BY <2>0 DEF ListOK, Allocated, NULL
    <3>2. heap'[n] # heap[n]
      BY <1>1 DEF Live
    <3>3. FindByName(x) # NULL
      BY <2>0, <2>5, <3>2, RemovedByName DEF listVars
    <3> QED BY <2>0, <2>5, <3>1, <3>2, <3>3, RemovedByName
  <2>7. heap[n].name = heap[own].name
    BY <2>0, <2>5, <2>6, FoundByName
  <2> QED BY <2>0, <2>3, <2>7, OneNameOneClient
<1>2. IInv /\ SenderInv /\ [Next]_vars =>
        [\A w \in Worker, n \in Allocated :
           At(w, "remove_own") /\ misuse' = {} /\ Live(n) /\ ~heap'[n].live
             => worker'[w].pc = "remove_own" \/ heap[n].addr = From(w)]_vars
  BY <1>1
<1> QED BY <1>2, SendersAreKnown, PTL DEF Spec, DisconnectRemovesSender

\* Following NULL is recorded only where a pointer is NULL.
LEMMA NullFollowed ==
  ASSUME NEW site, NEW pointers, Follow(site, pointers),
         NEW m \in misuse' \ misuse, m.of = "null"
  PROVE  NULL \in pointers
<1>1. [site |-> site, of |-> "freed"].of = "freed"
  OBVIOUS
<1> QED BY <1>1 DEF Follow, faultVars

\* A NULL that is followed is what the search for a client returned that was on
\* the list and has left it (server_interface.c 133, 179 and 299); it is followed
\* nowhere else.
THEOREM NullMeansRemoved == Spec => NullOnlyForRemoved
<1>1. ASSUME IInv, SenderInv, [Next]_vars, NEW m \in misuse' \ misuse, m.of = "null"
      PROVE  \E w \in Worker : worker'[w] # worker[w] /\ WasRemoved(From(w))
  <2>0. ListOK /\ 0 \notin Allocated
    BY <1>1, InvariantIsListOK DEF ListOK, Allocated
  <2>1. CASE MarkActive
    BY <1>1, <2>1, NullFollowed DEF MarkActive
  <2>2. ASSUME NEW w \in Worker, WorkerStep(w)
        PROVE  worker'[w] # worker[w] /\ WasRemoved(From(w))
    <3> USE DEF Runs, At
    <3>0. worker \in [Worker -> WorkerRecord] /\ SenderKnown(worker[w])
      BY <1>1 DEF IInv, TypeOK, WorkerRecord, Pcs, Node, SenderInv
    <3>1. CASE SayCompose(w)
      <4>1. worker[w].who = NULL
        BY <1>1, <3>1, NullFollowed DEF SayCompose
      <4>2. worker'[w].pc = "broadcast"
        BY <3>0, <3>1 DEF SayCompose, Goto, WorkerRecord
      <4> QED BY <3>0, <3>1, <4>1, <4>2 DEF SayCompose, SenderKnown, From
    <3>2. CASE SaytoSend(w)
      <4>1. worker[w].who = NULL
        BY <1>1, <3>2, NullFollowed DEF SaytoSend
      <4>2. worker'[w].pc = "idle"
        BY <3>0, <3>2 DEF SaytoSend, Exit, IdleWorker
      <4> QED BY <3>0, <3>2, <4>1, <4>2 DEF SaytoSend, SenderKnown, From
    <3>3. CASE Rename(w)
      <4>1. FindByAddress(From(w)) = NULL
        BY <1>1, <3>3, NullFollowed DEF Rename
      <4>2. worker'[w].pc = "idle"
        BY <3>0, <3>3 DEF Rename, Exit, IdleWorker
      <4>3. WasListed(From(w))
        BY <3>0, <3>3 DEF Rename, SenderKnown, From
      <4> QED BY <2>0, <3>3, <4>1, <4>2, <4>3, NotFoundWasRemoved DEF Rename
    <3>4. CASE SayBroadcast(w)
      BY <1>1, <3>4, NullFollowed DEF SayBroadcast
    <3>5. CASE DisconnRemoveOwn(w)
      <4>1. worker[w].node # NULL
        BY <2>0, <3>0, <3>5 DEF DisconnRemoveOwn, SenderKnown, NULL
      <4> QED BY <1>1, <3>5, <4>1, NullFollowed DEF DisconnRemoveOwn
    <3>6. CASE KickAnnounce(w)
      <4>1. NULL \notin ToSet(clients)
        BY <2>0 DEF ListOK, ListMatchesHeap, NULL
      <4> QED BY <1>1, <3>6, <4>1, NullFollowed DEF KickAnnounce
    <3>7. ~UNCHANGED faultVars
      BY <1>1 DEF faultVars
    <3> QED BY <2>2, <3>1, <3>2, <3>3, <3>4, <3>5, <3>6, <3>7
            DEF WorkerStep, EnterRead, EnterWrite, ConnAdd, ConnWelcome, SayStart,
                SayFindSender, SaytoLookup, DisconnFindOwn, DisconnAnswer, KickCheck,
                KickRemove, KickAnswer, Relay
  <2>3. CASE UNCHANGED faultVars
    BY <1>1, <2>3 DEF faultVars
  <2> QED BY <1>1, <2>1, <2>2, <2>3
          DEF Next, vars, faultVars, ManagerStep, TakeCommand, Spawn
<1>2. IInv /\ SenderInv /\ [Next]_vars =>
        [\A m \in misuse' \ misuse :
           m.of = "null" =>
             \E w \in Worker : worker'[w] # worker[w] /\ WasRemoved(From(w))]_vars
  BY <1>1
<1> QED BY <1>2, SendersAreKnown, PTL DEF Spec, NullOnlyForRemoved
=============================================================================
