-------------------------- MODULE ConnectionManager --------------------------
(****************************************************************************)
(* The thread that pings inactive clients and removes those that do not     *)
(* answer, next to the queue manager, which marks the sender of every       *)
(* command as active without the monitor, and the workers that change the   *)
(* list.                                                                    *)
(*                                                                          *)
(* Instants are kept as ages (now - instant), so that time goes on for ever *)
(* in finitely many states; an age is capped where every comparison of the  *)
(* code has become the same.  `lag' is the age of current_time, which the   *)
(* thread takes at the start of a round and uses until its end.             *)
(*                                                                          *)
(* Of the monitor only what matters here is kept: writers do not enter      *)
(* while the scan is in its read section, and once a writer has waited      *)
(* (WW > 0, never decremented) no reader gets in any more.                  *)
(****************************************************************************)
EXTENDS ClientList, FiniteSets

CONSTANTS INACTIVITY_THRESHOLD, PING_TIMEOUT,  \* 180 and 10 seconds in the code
          MaxLag,          \* bound: seconds from the start of a round to its end
          MaxNodes,        \* bound: nodes ever allocated
          MaxPending,      \* bound: workers that have still to change the list
          Command,         \* the commands that clients send in this instance
          InitialClients,  \* who is on the list when the behaviour starts
          NoName, NoAddr

Kinds == {"conn", "disconn", "rename", "other"}
Naming == {"conn", "rename"}

ASSUME TimingAssumption ==
  /\ INACTIVITY_THRESHOLD \in Nat /\ PING_TIMEOUT \in Nat
  /\ MaxLag \in Nat /\ MaxNodes \in Nat /\ MaxPending \in Nat
  /\ Command \subseteq [kind : Kinds, from : Addr, arg : Name \cup {NoName}]
  /\ \A c \in Command : c.kind \in Naming => c.arg \in Name
  /\ InitialClients \in Seq([addr : Addr, name : Name])
  /\ NoName \notin Name /\ NoAddr \notin Addr

VARIABLES last_active,  \* of each node, as an age
          ping_sent,    \* of each node, as an age; Never stands for 0
          asked,        \* history: the age of the last ping$ to each node, or Never,
                        \* or Answered where it was heard from in time after that
          cm,           \* the connection manager: where it is, and its variables
          manager,      \* the queue manager: the command it is at, and its node
          workers,      \* those that have still to change the list: a command, and
                        \* the node that disconnect has found
          waited        \* a writer has had to wait: WW > 0

ages == <<last_active, ping_sent, asked>>
vars == <<listVars, faultVars, ages, cm, manager, workers, waited>>

Never == -1
Answered == -2
IdleCap == INACTIVITY_THRESHOLD + 1 + MaxLag
PingCap == PING_TIMEOUT + 1 + MaxLag

NoCommand == [kind |-> "none", from |-> NoAddr, arg |-> NoName]
SleepingCm == [pc |-> "sleep", lag |-> 0, node |-> NULL, kick_name |-> NoName]
IdleManager == [cmd |-> NoCommand, node |-> NULL]

\* No pointer was misused.  After that anything may happen, and nothing is said
\* of it here: behaviours end there.
Sane == misuse = {}

\* Inside the read section of lines 486-509.
Scanning == cm.pc \in {"scan", "scan_ping"}
InRound == cm.pc # "sleep"

TypeOK ==
  /\ ListTypeOK
  /\ last_active \in [Allocated -> 0 .. IdleCap]
  /\ ping_sent \in [Allocated -> {Never} \cup 0 .. PingCap]
  /\ asked \in [Allocated -> {Never, Answered} \cup 0 .. PingCap]
  /\ cm \in [pc : {"sleep", "enter", "scan", "scan_ping", "ping", "stamp",
                   "farewell", "remove"},
             lag : 0 .. MaxLag, node : Allocated \cup {NULL}, kick_name : Name \cup {NoName}]
  /\ manager \in [cmd : Command \cup {NoCommand}, node : Allocated \cup {NULL}]
  /\ workers \subseteq [cmd : Command, node : Allocated \cup {NULL}]
  /\ waited \in BOOLEAN

Init ==
  /\ ListInit(InitialClients)
  /\ last_active = [n \in Allocated |-> 0]
  /\ ping_sent = [n \in Allocated |-> Never]
  /\ asked = [n \in Allocated |-> Never]
  /\ cm = SleepingCm
  /\ manager = IdleManager
  /\ workers = {} /\ waited = FALSE

-----------------------------------------------------------------------------
\* A second passes; the two writes of update_client_activity fall within one.
\* Where it ends sleep(1) the next round begins: current_time is taken, and the
\* round ends within MaxLag seconds.  A round that finds WW > 0 at its check-in
\* waits for ever, and nobody reads the clock any more.  What a freed node holds
\* is forgotten.
Older(age, cap) == [n \in Allocated |-> IF ~heap[n].live THEN 0
                                        ELSE IF age[n] \in {Never, Answered, cap} THEN age[n]
                                        ELSE age[n] + 1]
Tick ==
  /\ Sane /\ manager = IdleManager
  /\ InRound => cm.lag < MaxLag /\ ~(cm.pc = "enter" /\ waited)
  /\ last_active' = Older(last_active, IdleCap)
  /\ ping_sent' = Older(ping_sent, PingCap)
  /\ asked' = Older(asked, PingCap)
  /\ cm' = IF InRound THEN [cm EXCEPT !.lag = @ + 1] ELSE [cm EXCEPT !.pc = "enter"]
  /\ UNCHANGED <<listVars, faultVars, manager, workers, waited>>

-----------------------------------------------------------------------------
(****************************************************************************)
(* connection_manager.                                                      *)
(****************************************************************************)
CmAt(pc) == cm.pc = pc /\ Sane
cmRest == <<listVars, manager, workers, waited>>

\* reader_checkin, node = *head.
EnterScan ==
  /\ CmAt("enter")
  /\ ~waited
  /\ cm' = [cm EXCEPT !.pc = "scan", !.node = First]
  /\ UNCHANGED <<cmRest, faultVars, ages>>

\* One turn of the loop: how long has this client been inactive?  The end of the
\* list ends the round.
ScanNode ==
  /\ CmAt("scan")
  /\ cm' = IF cm.node = NULL THEN SleepingCm
           ELSE IF last_active[cm.node] - cm.lag > INACTIVITY_THRESHOLD
           THEN [cm EXCEPT !.pc = "scan_ping"]
           ELSE [cm EXCEPT !.node = Successor(cm.node)]
  /\ UNCHANGED <<cmRest, faultVars, ages>>

\* Not pinged yet, or pinged too long ago: either ends the loop and the section.
PingDue_Always(n) == TRUE
PingDue(n) == ping_sent[n] = Never
TimedOut_AtOnce(n) == ping_sent[n] # Never
TimedOut(n) == ping_sent[n] # Never /\ ping_sent[n] - cm.lag > PING_TIMEOUT
ScanPing ==
  /\ CmAt("scan_ping")
  /\ cm' = IF PingDue(cm.node) THEN [cm EXCEPT !.pc = "ping"]
           ELSE IF TimedOut(cm.node)
           THEN [cm EXCEPT !.pc = "farewell", !.kick_name = heap[cm.node].name]
           ELSE [cm EXCEPT !.pc = "scan", !.node = Successor(cm.node)]
  /\ UNCHANGED <<cmRest, faultVars, ages>>

\* ping$, after the check-out.
SendPing ==
  /\ CmAt("ping")
  /\ Follow("connection_manager", {cm.node})
  /\ asked' = [asked EXCEPT ![cm.node] = 0]
  /\ cm' = [cm EXCEPT !.pc = "stamp"]
  /\ UNCHANGED <<cmRest, last_active, ping_sent>>

\* ping_sent = current_time, through the pointer of the scan.
StampPing ==
  /\ CmAt("stamp")
  /\ Follow("connection_manager", {cm.node})
  /\ ping_sent' = [ping_sent EXCEPT ![cm.node] = cm.lag]
  /\ cm' = SleepingCm
  /\ UNCHANGED <<cmRest, last_active, asked>>

\* disconnresponse$, before the client is removed.
SendFarewell ==
  /\ CmAt("farewell")
  /\ Follow("connection_manager", {cm.node})
  /\ cm' = [cm EXCEPT !.pc = "remove"]
  /\ UNCHANGED <<cmRest, ages>>

\* The write section: the client is looked up by the name copied in the scan.
RemoveSilent ==
  /\ CmAt("remove")
  /\ RemoveClient(cm.kick_name)
  /\ cm' = SleepingCm
  /\ UNCHANGED <<faultVars, ages, manager, workers, waited>>

-----------------------------------------------------------------------------
(****************************************************************************)
(* The queue manager and its workers.  CommandWorkers has the details of    *)
(* the walk and of the handlers.                                            *)
(****************************************************************************)
Listed(a) == \E i \in DOMAIN clients : heap[clients[i]].addr = a

\* "Assume no users with same name" (server_interface.c 6): a client takes a name
\* that nobody else on the list goes by or is about to.
NameFree(cmd) ==
  /\ \A n \in ToSet(clients) : heap[n].name = cmd.arg => heap[n].addr = cmd.from
  /\ \A t \in workers : t.cmd.arg = cmd.arg => t.cmd.from = cmd.from

\* A client may send conn$ at any time, on the list or not (client_interface.c
\* 197-219 and 291), and anything else once it has been on the list, also when it
\* was removed and does not know it yet.
MaySend(cmd) ==
  /\ cmd.kind \in Naming => NameFree(cmd)
  /\ IF cmd.kind = "conn" THEN Len(heap) + Cardinality(workers) < MaxNodes
     ELSE \E n \in Allocated : heap[n].addr = cmd.from

\* The worker's thread is created; retping$ and those that only talk need none here.
SpawnWorker(cmd) ==
  IF cmd.kind = "other" THEN UNCHANGED workers
  ELSE /\ Cardinality(workers) < MaxPending
       /\ workers' = workers \cup {[cmd |-> cmd, node |-> NULL]}

InTime(n) == asked[n] \in 0 .. PING_TIMEOUT

\* q_pop and update_client_activity up to the sender's last_active: conn$ and
\* senders who are not on the list have no node to mark.
Hear(cmd) ==
  /\ manager = IdleManager /\ Sane
  /\ MaySend(cmd)
  /\ LET own == IF cmd.kind = "conn" THEN NULL ELSE FindByAddress(cmd.from)
     IN  \/ /\ own = NULL
            /\ SpawnWorker(cmd)
            /\ UNCHANGED <<manager, ages>>
         \/ /\ own # NULL
            /\ last_active' = [last_active EXCEPT ![own] = 0]
            /\ asked' = [asked EXCEPT ![own] = IF InTime(own) THEN Answered ELSE @]
            /\ manager' = [cmd |-> cmd, node |-> own]
            /\ UNCHANGED <<ping_sent, workers>>
  /\ UNCHANGED <<listVars, faultVars, cm, waited>>

\* ping_sent = 0, and the worker is spawned.
MarkPing ==
  /\ manager.node # NULL /\ Sane
  /\ Follow("activity", {manager.node})
  /\ ping_sent' = [ping_sent EXCEPT ![manager.node] = Never]
  /\ SpawnWorker(manager.cmd)
  /\ manager' = IdleManager
  /\ UNCHANGED <<listVars, last_active, asked, cm, waited>>

\* A writer reaches its check-in while somebody is inside, the scan or any other
\* section: WW++, for good.
AtWrite(t) == t.cmd.kind = "disconn" => t.node # NULL
WriterWaits ==
  /\ cm.pc = "remove" \/ \E t \in workers : AtWrite(t)
  /\ Sane
  /\ waited' = TRUE
  /\ UNCHANGED <<listVars, faultVars, ages, cm, manager, workers>>

\* The write section of a worker, which is its last.
Change(t) ==
  /\ t \in workers /\ ~Scanning /\ Sane
  /\ workers' = workers \ {t}
  /\ UNCHANGED <<cm, manager, waited>>

\* connect_to_server; the new node starts out active and not pinged.
Add_NoPing(t) ==
  /\ t.cmd.kind = "conn"
  /\ Change(t)
  /\ AddClient(t.cmd.from, t.cmd.arg)
  /\ last_active' = Append(last_active, 0)
  /\ asked' = Append(asked, Never)
  /\ UNCHANGED <<ping_sent, faultVars>>
Add(t) ==
  /\ t.cmd.kind = "conn"
  /\ Change(t)
  /\ AddClient(t.cmd.from, t.cmd.arg)
  /\ last_active' = Append(last_active, 0)
  /\ ping_sent' = Append(ping_sent, Never)
  /\ asked' = Append(asked, Never)
  /\ UNCHANGED faultVars

\* disconnect's read section, which may go along with the scan; a sender that is
\* not found ends it.
FindOwn(t) ==
  /\ t.cmd.kind = "disconn" /\ t.node = NULL
  /\ t \in workers /\ ~waited /\ Sane
  /\ LET own == FindByAddress(t.cmd.from)
     IN  workers' = (workers \ {t})
                      \cup IF own = NULL THEN {} ELSE {[t EXCEPT !.node = own]}
  /\ UNCHANGED <<listVars, faultVars, ages, cm, manager, waited>>

\* Its write section, by the name that is still in the node found; from a freed node
\* it may read anything, and no more is said.
Leave(t) ==
  /\ t.cmd.kind = "disconn" /\ t.node # NULL
  /\ Change(t)
  /\ Follow("disconnect", {t.node})
  /\ IF Live(t.node) THEN RemoveClient(heap[t.node].name) ELSE UNCHANGED listVars
  /\ UNCHANGED ages

\* rename_client follows NULL where the sender is gone.
Rename(t) ==
  /\ t.cmd.kind = "rename"
  /\ Change(t)
  /\ LET own == FindByAddress(t.cmd.from)
     IN  /\ Follow("rename", {own})
         /\ IF own = NULL THEN UNCHANGED listVars ELSE RenameClient(own, t.cmd.arg)
  /\ UNCHANGED ages

-----------------------------------------------------------------------------
CmStep == \/ EnterScan \/ ScanNode \/ ScanPing
          \/ SendPing \/ StampPing \/ SendFarewell \/ RemoveSilent
WorkerStep == \E t \in workers : Add(t) \/ FindOwn(t) \/ Leave(t) \/ Rename(t)

Next == \/ Tick
        \/ CmStep \/ MarkPing \/ (\E cmd \in Command : Hear(cmd))
        \/ WriterWaits \/ WorkerStep

Spec == Init /\ [][Next]_vars

\* Time passes however much is sent, and every thread is scheduled; nobody has
\* to send anything.
FairSpec == /\ Spec
            /\ SF_vars(Tick) /\ WF_vars(CmStep)
            /\ WF_vars(MarkPing) /\ WF_vars(WorkerStep)

-----------------------------------------------------------------------------
(****************************************************************************)
(* Properties.                                                              *)
(****************************************************************************)

\* A client is not chosen for removal before a ping$ was sent to it, and then it
\* has had PING_TIMEOUT seconds, up to the length of a round: ping_sent is the
\* time the round began, not the time of the datagram (lines 477, 515-516).
TimeToAnswer ==
  cm.pc \in {"farewell", "remove"} /\ Live(cm.node)
    => \/ asked[cm.node] = Answered
       \/ asked[cm.node] # Never /\ asked[cm.node] > PING_TIMEOUT - MaxLag

\* A client that falls silent is off the list in the end, unless a writer ever
\* had to wait in the monitor, which shuts the scan out for good
\* (server_types.h 242 and 264).  It takes rounds shorter than the threshold.
HearsFrom(a) == \/ manager'.cmd.from = a /\ manager' # manager
                \/ \E t \in workers' \ workers : t.node = NULL /\ t.cmd.from = a
SilentIsRemoved ==
  \A a \in Addr :
    (<>[][~HearsFrom(a)]_vars /\ []~waited /\ []Sane) => <>[]~Listed(a)

\* README.md 223: only when no response came within the timeout is the client
\* disconnected; so none is removed that was heard from in time.
AnsweredStays ==
  [][\A n \in Allocated :
       cm.pc = "remove" /\ cm'.pc = "sleep" /\ Live(n) /\ ~heap'[n].live
         => asked[n] # Answered]_vars
=============================================================================
