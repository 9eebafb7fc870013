---------------------------- MODULE CommandWorkers ----------------------------
(****************************************************************************)
(* The server's command threads at work on the list of clients.  The queue  *)
(* manager takes one command after the other, marks its sender as active    *)
(* and starts a detached thread for it; the threads run side by side and    *)
(* meet in the readers-writer monitor, which is used here through the lock  *)
(* it implements (RWLock).                                                  *)
(*                                                                          *)
(* Entering a section is a step and what is done in it, up to the check-    *)
(* out, another.  What the handlers do with their pointers before, between  *)
(* and after the sections are steps of their own: that is where a node may  *)
(* have been freed.  Following NULL crashes the process.  Following a       *)
(* freed node crashes it or yields any content, as the build may make it    *)
(* (Follow, of ClientList).                                                 *)
(****************************************************************************)
EXTENDS ClientList, FiniteSets

CONSTANTS Worker,          \* bound: command threads at a time
          MaxCommands,     \* bound: commands in a behaviour
          Kinds,           \* the commands clients send in this instance
          NamesOf,         \* the names that each client may take
          InitialClients,  \* who is on the list when the behaviour starts
          NoName,          \* no argument
          NoAddr           \* no address

AllKinds == {"conn", "say", "sayto", "disconn", "rename", "kick", "relay", "retping"}

ASSUME WorkersAssumption ==
  /\ MaxCommands \in Nat
  /\ Kinds \subseteq AllKinds
  /\ NamesOf \in [Addr -> SUBSET Name]
  /\ InitialClients \in Seq([addr : Addr, name : Name])
  /\ NoName \notin Name
  /\ NoAddr \notin Addr

\* Each client has an address and names of its own (server_interface.c 6: "assume
\* no users with same name").
ASSUME ClientsAssumption ==
  /\ \A a, b \in Addr : a # b => NamesOf[a] \cap NamesOf[b] = {}
  /\ \A i \in DOMAIN InitialClients :
       InitialClients[i].name \in NamesOf[InitialClients[i].addr]

VARIABLES readers, writers,  \* the threads inside the monitor
          worker,    \* what each command thread is doing
          manager,   \* what the queue manager is doing
          arrived,   \* commands taken from the queue so far
          told       \* what the server last told each address about its membership

vars == <<clients, heap, readers, writers, worker, manager, arrived, told,
          misuse, crashed>>

Lock == INSTANCE RWLock WITH Thread <- Worker

Command == [kind : Kinds, from : Addr, arg : Name \cup {NoName}]
NoCommand == [kind |-> "none", from |-> NoAddr, arg |-> NoName]

ReadSection == {"find_sender", "broadcast", "lookup", "find_own", "check", "announce"}
WriteSection == {"add", "remove_own", "rename", "remove_named"}
Unlocked == {"start", "compose", "private", "welcome", "farewell", "relay"}

IdleWorker == [pc |-> "idle", cmd |-> NoCommand, node |-> NULL, who |-> NULL,
               addr |-> NoAddr]

TypeOK ==
  /\ ListTypeOK
  /\ readers \subseteq Worker /\ writers \subseteq Worker
  /\ worker \in [Worker -> [pc : ReadSection \cup WriteSection \cup Unlocked \cup {"idle"},
                            cmd : Command \cup {NoCommand},
                            node : Allocated \cup {NULL}, who : Allocated \cup {NULL},
                            addr : Addr \cup {NoAddr}]]
  /\ manager \in [cmd : Command \cup {NoCommand}, cursor : Allocated \cup {NULL}]
  /\ arrived \in 0 .. MaxCommands
  /\ told \in [Addr -> {"never", "welcome", "bye"}]

Init ==
  /\ ListInit(InitialClients)
  /\ Lock!LockInit
  /\ worker = [w \in Worker |-> IdleWorker]
  /\ manager = [cmd |-> NoCommand, cursor |-> NULL]
  /\ arrived = 0
  /\ told = [a \in Addr |-> IF \E i \in DOMAIN InitialClients : InitialClients[i].addr = a
                            THEN "welcome" ELSE "never"]

-----------------------------------------------------------------------------
lockVars == <<readers, writers>>
threadVars == <<manager, arrived>>

At(w, pc) == worker[w].pc = pc
Runs(w, pc) == At(w, pc) /\ ~crashed
From(w) == worker[w].cmd.from
Arg(w) == worker[w].cmd.arg
Goto(w, pc) == worker' = [worker EXCEPT ![w].pc = pc]
Exit(w) == worker' = [worker EXCEPT ![w] = IdleWorker]

EnterRead(w) ==
  /\ worker[w].pc \in ReadSection /\ ~crashed
  /\ Lock!AcquireRead(w)
  /\ UNCHANGED <<listVars, worker, threadVars, told, faultVars>>

EnterWrite_PastReaders(w) ==
  /\ worker[w].pc \in WriteSection /\ ~crashed
  /\ writers = {} /\ writers' = {w}
  /\ UNCHANGED <<listVars, readers, worker, threadVars, told, faultVars>>
EnterWrite(w) ==
  /\ worker[w].pc \in WriteSection /\ ~crashed
  /\ Lock!AcquireWrite(w)
  /\ UNCHANGED <<listVars, worker, threadVars, told, faultVars>>

-----------------------------------------------------------------------------
(****************************************************************************)
(* The queue manager: spawn_execute_command_threads.                        *)
(****************************************************************************)

ArgsOf(kind, from) ==
  CASE kind \in {"conn", "rename"} -> NamesOf[from]
    [] kind \in {"sayto", "kick"}  -> Name
    [] OTHER                       -> {NoName}

\* What clients send: conn$ at any time, also again while it is unanswered or when
\* they are connected (client_interface.c 197-219 and 291); anything else once they
\* were welcomed, and still when they were removed and do not know it yet.
MaySend(cmd) ==
  /\ cmd.arg \in ArgsOf(cmd.kind, cmd.from)
  /\ cmd.kind # "conn" => told[cmd.from] # "never"

\* A command is popped; unless it is conn$, update_client_activity starts at
\* *head to look for its sender.
TakeCommand(cmd) ==
  /\ manager.cmd = NoCommand /\ ~crashed
  /\ arrived < MaxCommands
  /\ MaySend(cmd)
  /\ manager' = [cmd |-> cmd, cursor |-> IF cmd.kind = "conn" THEN NULL ELSE First]
  /\ arrived' = arrived + 1
  /\ UNCHANGED <<listVars, lockVars, worker, told, faultVars>>

\* One node of update_client_activity's walk, which holds no lock: the sender's
\* own node ends it; a freed node may lead anywhere.
MarkActive ==
  /\ manager.cursor # NULL /\ ~crashed
  /\ Follow("activity", {manager.cursor})
  /\ \E next \in IF Dangles(manager.cursor) THEN {NULL} \cup ToSet(clients)
                 ELSE IF heap[manager.cursor].addr = manager.cmd.from THEN {NULL}
                 ELSE {Successor(manager.cursor)} :
       manager' = [manager EXCEPT !.cursor = next]
  /\ UNCHANGED <<listVars, lockVars, worker, arrived, told>>

FirstPc(kind) ==
  CASE kind = "conn"    -> "add"          [] kind = "say"    -> "start"
    [] kind = "sayto"   -> "lookup"       [] kind = "rename" -> "rename"
    [] kind = "disconn" -> "find_own"     [] kind = "kick"   -> "check"
    [] kind = "relay"   -> "relay"

\* pthread_create of the handler; retping$ needs none.
Spawn ==
  /\ manager.cmd # NoCommand /\ manager.cursor = NULL /\ ~crashed
  /\ \/ /\ manager.cmd.kind = "retping"
        /\ UNCHANGED worker
     \/ /\ manager.cmd.kind # "retping"
        /\ \E w \in Worker :
             /\ At(w, "idle")
             /\ worker' = [worker EXCEPT ![w] = [IdleWorker EXCEPT
                                                  !.pc = FirstPc(manager.cmd.kind),
                                                  !.cmd = manager.cmd]]
  /\ manager' = [cmd |-> NoCommand, cursor |-> NULL]
  /\ UNCHANGED <<listVars, lockVars, arrived, told, faultVars>>

-----------------------------------------------------------------------------
(****************************************************************************)
(* connect_to_server.  The chat history it sends last is left to ChatHistory. *)
(****************************************************************************)
ConnAdd(w) ==
  /\ Runs(w, "add")
  /\ Lock!ReleaseWrite(w)
  /\ AddClient(From(w), Arg(w))
  /\ Goto(w, "welcome")
  /\ UNCHANGED <<threadVars, told, faultVars>>

ConnWelcome(w) ==
  /\ Runs(w, "welcome")
  /\ told' = [told EXCEPT ![From(w)] = "welcome"]
  /\ Exit(w)
  /\ UNCHANGED <<listVars, lockVars, threadVars, faultVars>>

(****************************************************************************)
(* say.                                                                     *)
(****************************************************************************)

\* node = *head, before the first check-in.
SayStart(w) ==
  /\ Runs(w, "start")
  /\ worker' = [worker EXCEPT ![w].node = First, ![w].pc = "find_sender"]
  /\ UNCHANGED <<listVars, lockVars, threadVars, told, faultVars>>

SayFindSender(w) ==
  /\ Runs(w, "find_sender")
  /\ Lock!ReleaseRead(w)
  /\ worker' = [worker EXCEPT ![w].who = FindByAddress(From(w)), ![w].pc = "compose"]
  /\ UNCHANGED <<listVars, threadVars, told, faultVars>>

\* The sender's name is read after the check-out.
SayCompose(w) ==
  /\ Runs(w, "compose")
  /\ Follow("say", {worker[w].who})
  /\ Goto(w, "broadcast")
  /\ UNCHANGED <<listVars, lockVars, threadVars, told>>

\* The loop over the list, from the node read at the start.
SayBroadcast(w) ==
  /\ Runs(w, "broadcast")
  /\ Lock!ReleaseRead(w)
  /\ Follow("broadcast", {worker[w].node} \ {NULL})
  /\ Exit(w)
  /\ UNCHANGED <<listVars, threadVars, told>>

(****************************************************************************)
(* sayto.                                                                   *)
(****************************************************************************)
SaytoLookup(w) ==
  /\ Runs(w, "lookup")
  /\ Lock!ReleaseRead(w)
  /\ worker' = [worker EXCEPT ![w].node = FindByName(Arg(w)),
                              ![w].who = FindByAddress(From(w)),
                              ![w].pc = "private"]
  /\ UNCHANGED <<listVars, threadVars, told, faultVars>>

\* Both nodes are read after the check-out.  Where the receiver is unknown only
\* the sender's address is used, and sendto refuses that of a NULL node.
SaytoSend(w) ==
  /\ Runs(w, "private")
  /\ Follow("sayto", IF worker[w].node # NULL THEN {worker[w].node, worker[w].who}
                     ELSE {worker[w].who} \ {NULL})
  /\ Exit(w)
  /\ UNCHANGED <<listVars, lockVars, threadVars, told>>

(****************************************************************************)
(* disconnect: `name' stays a pointer into the sender's node.               *)
(****************************************************************************)
DisconnFindOwn(w) ==
  /\ Runs(w, "find_own")
  /\ Lock!ReleaseRead(w)
  /\ LET own == FindByAddress(From(w))
     IN  IF own = NULL THEN Exit(w)
         ELSE worker' = [worker EXCEPT ![w].node = own, ![w].pc = "remove_own"]
  /\ UNCHANGED <<listVars, threadVars, told, faultVars>>

\* The address the removed client is answered at, copied out by
\* remove_client_from_list; a client that is not found ends the handler.
AnswerRemoved(w, x) ==
  LET n == FindByName(x)
  IN  IF n = NULL THEN Exit(w)
      ELSE worker' = [worker EXCEPT ![w].addr = heap[n].addr, ![w].pc = "farewell"]

DisconnRemoveOwn(w) ==
  /\ Runs(w, "remove_own")
  /\ Lock!ReleaseWrite(w)
  /\ Follow("disconnect", {worker[w].node})
  /\ \E x \in IF Live(worker[w].node) THEN {heap[worker[w].node].name}
              ELSE Name \cup {NoName} :
       RemoveClient(x) /\ AnswerRemoved(w, x)
  /\ UNCHANGED <<threadVars, told>>

\* disconnresponse$ to the client that was removed, after the check-out.
DisconnAnswer(w) ==
  /\ Runs(w, "farewell")
  /\ worker[w].cmd.kind = "disconn"
  /\ told' = [told EXCEPT ![worker[w].addr] = "bye"]
  /\ Exit(w)
  /\ UNCHANGED <<listVars, lockVars, threadVars, faultVars>>

(****************************************************************************)
(* rename_client: an unknown sender is followed as NULL inside the section.  *)
(****************************************************************************)
Rename(w) ==
  /\ Runs(w, "rename")
  /\ Lock!ReleaseWrite(w)
  /\ LET own == FindByAddress(From(w))
     IN  /\ Follow("rename", {own})
         /\ IF own = NULL THEN UNCHANGED listVars ELSE RenameClient(own, Arg(w))
  /\ Exit(w)
  /\ UNCHANGED <<threadVars, told>>

(****************************************************************************)
(* kick.                                                                    *)
(****************************************************************************)
IsAdmin(a) == First # NULL /\ heap[First].addr = a

\* Others get an error message.
KickCheck_Anybody(w) ==
  /\ Runs(w, "check")
  /\ Lock!ReleaseRead(w)
  /\ worker' = [worker EXCEPT ![w].node = First, ![w].pc = "remove_named"]
  /\ UNCHANGED <<listVars, threadVars, told, faultVars>>
KickCheck(w) ==
  /\ Runs(w, "check")
  /\ Lock!ReleaseRead(w)
  /\ IF IsAdmin(From(w))
     THEN worker' = [worker EXCEPT ![w].node = First, ![w].pc = "remove_named"]
     ELSE Exit(w)
  /\ UNCHANGED <<listVars, threadVars, told, faultVars>>

KickRemove(w) ==
  /\ Runs(w, "remove_named")
  /\ Lock!ReleaseWrite(w)
  /\ RemoveClient(Arg(w))
  /\ AnswerRemoved(w, Arg(w))
  /\ UNCHANGED <<threadVars, told, faultVars>>

\* disconnresponse$ to the client that was kicked.
KickAnswer(w) ==
  /\ Runs(w, "farewell")
  /\ worker[w].cmd.kind = "kick"
  /\ told' = [told EXCEPT ![worker[w].addr] = "bye"]
  /\ Goto(w, "announce")
  /\ UNCHANGED <<listVars, lockVars, threadVars, faultVars>>

\* Everybody still on the list is told; this loop starts at *head inside the
\* section, so it meets live nodes only.
KickAnnounce(w) ==
  /\ Runs(w, "announce")
  /\ Lock!ReleaseRead(w)
  /\ Follow("announce", ToSet(clients))
  /\ Exit(w)
  /\ UNCHANGED <<listVars, threadVars, told>>

\* mute, unmute, handle_unknown_command: one message back to the sender.
Relay(w) ==
  /\ Runs(w, "relay")
  /\ Exit(w)
  /\ UNCHANGED <<listVars, lockVars, threadVars, told, faultVars>>

-----------------------------------------------------------------------------
ManagerStep == \/ \E cmd \in Command : TakeCommand(cmd)
               \/ MarkActive \/ Spawn

WorkerStep(w) ==
  \/ EnterRead(w) \/ EnterWrite(w)
  \/ ConnAdd(w) \/ ConnWelcome(w)
  \/ SayStart(w) \/ SayFindSender(w) \/ SayCompose(w) \/ SayBroadcast(w)
  \/ SaytoLookup(w) \/ SaytoSend(w)
  \/ DisconnFindOwn(w) \/ DisconnRemoveOwn(w) \/ DisconnAnswer(w)
  \/ Rename(w)
  \/ KickCheck(w) \/ KickRemove(w) \/ KickAnswer(w) \/ KickAnnounce(w)
  \/ Relay(w)

Next == ManagerStep \/ \E w \in Worker : WorkerStep(w)

Spec == Init /\ [][Next]_vars

-----------------------------------------------------------------------------
(****************************************************************************)
(* Properties.                                                              *)
(****************************************************************************)

\* A broadcast in progress starts at a node that has been freed or is still the
\* head of the list: `node = *head' is read outside the monitor (line 173) and
\* used in a later section (line 190), yet it skips nobody at the front.  A list
\* that was empty at line 173 is another matter: the loop then meets nobody.
BroadcastStartsAtHead ==
  \A w \in Worker :
    worker[w].pc \in {"find_sender", "compose", "broadcast"} /\ Live(worker[w].node)
      => worker[w].node = First

\* Nothing in the list or in the names of its nodes changes under a thread that
\* is inside a read section (the monitor's sections in every handler).
ListStableForReaders ==
  [][readers # {} => clients' = clients /\ heap' = heap]_vars

\* Before any pointer is misused, disconnect removes a node of the client that
\* asked for it and no other, although it removes by name what it had found by
\* address, in another section (lines 223-237).
DisconnectRemovesSender ==
  [][\A w \in Worker, n \in Allocated :
       At(w, "remove_own") /\ misuse' = {} /\ Live(n) /\ ~heap'[n].live
         => worker'[w].pc = "remove_own" \/ heap[n].addr = From(w)]_vars

\* A client of that address was on the list and has left it.
WasRemoved(a) == \E n \in Allocated : heap[n].addr = a /\ ~heap[n].live

\* NULL is followed only for a sender who has been on the list and was removed
\* from it: say, sayto and rename_client use what their search returned without a
\* test (lines 179, 133 and 299), which is right as long as nobody is removed.
NullOnlyForRemoved ==
  [][\A m \in misuse' \ misuse :
       m.of = "null" =>
         \E w \in Worker : worker'[w] # worker[w] /\ WasRemoved(From(w))]_vars

\* Whoever removes a client by kick$ is the one whose node headed the list at the
\* check, and that node heads it still or has been freed since: the check and the
\* removal are two sections (lines 321-345), so an admin that leaves in between
\* still kicks, but nobody who was not the admin then (README.md 131-132).
AdminsKick ==
  [][\A w \in Worker :
       At(w, "remove_named") /\ worker'[w].pc = "farewell" =>
         \E n \in Allocated :
           /\ n = worker[w].node /\ heap[n].addr = From(w)
           /\ n = First \/ Dangles(n)]_vars

\* server_interface.c 18: access to the shared list is "solved", so no thread
\* ever uses a node that was freed.
NodesUsedWhileLive == \A m \in misuse : m.of # "freed"
=============================================================================
