----------------------------- MODULE ChatHistory -----------------------------
(****************************************************************************)
(* The server's chat history and the two handlers that share it without a   *)
(* lock: say stores its message and then broadcasts it, connect_to_server   *)
(* lists the newcomer and then sends it the last entries.  Each access to   *)
(* *chat_historyc and to a slot is a step of its own.  The two sections on  *)
(* the list of clients are steps, as the monitor makes them.                *)
(*                                                                          *)
(* The array is what calloc returned, all NULL.  A store outside it is      *)
(* undefined: it is recorded and leaves the array alone.  A load outside    *)
(* it yields anything.                                                      *)
(****************************************************************************)
EXTENDS Integers, Sequences, SequencesExt

CONSTANTS MAX_MSGS,           \* slots of the array (100)
          CHAT_HISTORY_SIZE,  \* how many entries a newcomer gets (15)
          Sayer,              \* bound: say handlers at a time
          Joiner,             \* bound: clients that join
          MaxSays             \* bound: say commands in a behaviour

NULL == 0
Message == 1 .. MaxSays
Slot == 0 .. MAX_MSGS - 1

ASSUME HistoryAssumption ==
  /\ MAX_MSGS \in Nat \ {0}
  /\ CHAT_HISTORY_SIZE \in Nat \ {0}
  /\ MaxSays \in Nat

VARIABLES chat_history, chat_historyc,
          sayer,    \* each say handler: where it is, its message, its registers
          joiner,   \* each connect_to_server handler, the same
          said,     \* say commands so far
          listed,   \* the newcomers on the list of clients
          got,      \* what each newcomer received, in order
          done,     \* messages whose handler has returned
          raced     \* history: two handlers were in lines 184-187 at once

vars == <<chat_history, chat_historyc, sayer, joiner, said, listed, got, done, raced>>

\* Lines 184-187: between the test of the count and its increment.
Recording == {"index", "store", "load", "write"}

TypeOK ==
  /\ chat_history \in [Slot -> Message \cup {NULL}]
  /\ chat_historyc \in Nat
  /\ sayer \in [Sayer -> [pc : {"idle", "test", "broadcast"} \cup Recording,
                          msg : Message \cup {NULL}, reg : Nat]]
  /\ joiner \in [Joiner -> [pc : {"add", "compare", "subtract", "send", "done"},
                            start : Int, i : Int]]
  /\ said \in 0 .. MaxSays
  /\ listed \subseteq Joiner
  /\ got \in [Joiner -> Seq(Message)]
  /\ done \subseteq Message
  /\ raced \in BOOLEAN

Init ==
  /\ chat_history = [s \in Slot |-> NULL]
  /\ chat_historyc = 0
  /\ sayer = [w \in Sayer |-> [pc |-> "idle", msg |-> NULL, reg |-> 0]]
  /\ joiner = [j \in Joiner |-> [pc |-> "add", start |-> 0, i |-> 0]]
  /\ said = 0 /\ listed = {} /\ done = {}
  /\ got = [j \in Joiner |-> <<>>]
  /\ raced = FALSE

historyVars == <<chat_history, chat_historyc>>
sayVars == <<sayer, said, done, raced>>
joinVars == <<joiner, listed>>

-----------------------------------------------------------------------------
(****************************************************************************)
(* say.                                                                     *)
(****************************************************************************)
SayAt(w, pc) == sayer[w].pc = pc
SayGoto(w, pc) == sayer' = [sayer EXCEPT ![w].pc = pc]

\* A say command reaches its handler, which composes the message.
StartSay(w) ==
  /\ SayAt(w, "idle") /\ said < MaxSays
  /\ said' = said + 1
  /\ sayer' = [sayer EXCEPT ![w] = [pc |-> "test", msg |-> said + 1, reg |-> 0]]
  /\ UNCHANGED <<historyVars, joinVars, got, done, raced>>

\* if (*chat_historyc < MAX_MSGS)
TestRoom_OneTooMany(w) ==
  /\ SayAt(w, "test")
  /\ SayGoto(w, IF chat_historyc <= MAX_MSGS THEN "index" ELSE "broadcast")
  /\ raced' = (raced \/ \E v \in Sayer \ {w} : sayer[v].pc \in Recording)
  /\ UNCHANGED <<historyVars, joinVars, said, got, done>>
TestRoom(w) ==
  /\ SayAt(w, "test")
  /\ SayGoto(w, IF chat_historyc < MAX_MSGS THEN "index" ELSE "broadcast")
  /\ raced' = (raced \/ \E v \in Sayer \ {w} : sayer[v].pc \in Recording)
  /\ UNCHANGED <<historyVars, joinVars, said, got, done>>

\* chat_history[*chat_historyc] = strdup(full_message): the index, the store.
ReadIndex(w) ==
  /\ SayAt(w, "index")
  /\ sayer' = [sayer EXCEPT ![w].pc = "store", ![w].reg = chat_historyc]
  /\ UNCHANGED <<historyVars, joinVars, said, got, done, raced>>

Store(w) ==
  /\ SayAt(w, "store")
  /\ chat_history' = IF sayer[w].reg \in Slot
                     THEN [chat_history EXCEPT ![sayer[w].reg] = sayer[w].msg]
                     ELSE chat_history
  /\ SayGoto(w, "load")
  /\ UNCHANGED <<chat_historyc, joinVars, said, got, done, raced>>

\* (*chat_historyc)++: the load, the store.
LoadCount(w) ==
  /\ SayAt(w, "load")
  /\ sayer' = [sayer EXCEPT ![w].pc = "write", ![w].reg = chat_historyc]
  /\ UNCHANGED <<historyVars, joinVars, said, got, done, raced>>

WriteCount(w) ==
  /\ SayAt(w, "write")
  /\ chat_historyc' = sayer[w].reg + 1
  /\ SayGoto(w, "broadcast")
  /\ UNCHANGED <<chat_history, joinVars, said, got, done, raced>>

\* The loop over the list inside the monitor, then the return.
Broadcast(w) ==
  /\ SayAt(w, "broadcast")
  /\ got' = [j \in Joiner |-> IF j \in listed THEN Append(got[j], sayer[w].msg)
                                              ELSE got[j]]
  /\ done' = done \cup {sayer[w].msg}
  /\ SayGoto(w, "idle")
  /\ UNCHANGED <<historyVars, joinVars, said, raced>>

-----------------------------------------------------------------------------
(****************************************************************************)
(* connect_to_server.                                                       *)
(****************************************************************************)
JoinAt(j, pc) == joiner[j].pc = pc

\* The write section.
AddNewcomer(j) ==
  /\ JoinAt(j, "add")
  /\ listed' = listed \cup {j}
  /\ joiner' = [joiner EXCEPT ![j].pc = "compare"]
  /\ UNCHANGED <<historyVars, sayVars, got>>

\* start = (*chat_historyc > SIZE) ? *chat_historyc - SIZE : 0, two loads.
CompareCount(j) ==
  /\ JoinAt(j, "compare")
  /\ joiner' = [joiner EXCEPT ![j].pc = IF chat_historyc > CHAT_HISTORY_SIZE
                                        THEN "subtract" ELSE "send"]
  /\ UNCHANGED <<historyVars, sayVars, listed, got>>

SubtractSize(j) ==
  /\ JoinAt(j, "subtract")
  /\ LET start == chat_historyc - CHAT_HISTORY_SIZE
     IN  joiner' = [joiner EXCEPT ![j] = [pc |-> "send", start |-> start, i |-> start]]
  /\ UNCHANGED <<historyVars, sayVars, listed, got>>

\* One turn of the loop, whose bound is loaded again each time; empty slots are
\* skipped.
SendEntry(j) ==
  /\ JoinAt(j, "send")
  /\ joiner[j].i < chat_historyc
  /\ \E m \in IF joiner[j].i \in Slot THEN {chat_history[joiner[j].i]}
              ELSE Message \cup {NULL} :
       got' = IF m = NULL THEN got ELSE [got EXCEPT ![j] = Append(@, m)]
  /\ joiner' = [joiner EXCEPT ![j].i = @ + 1]
  /\ UNCHANGED <<historyVars, sayVars, listed>>

EndJoin_Early(j) ==
  /\ JoinAt(j, "send")
  /\ joiner[j].i >= chat_historyc - 1
  /\ joiner' = [joiner EXCEPT ![j].pc = "done"]
  /\ UNCHANGED <<historyVars, sayVars, listed, got>>
EndJoin(j) ==
  /\ JoinAt(j, "send")
  /\ joiner[j].i >= chat_historyc
  /\ joiner' = [joiner EXCEPT ![j].pc = "done"]
  /\ UNCHANGED <<historyVars, sayVars, listed, got>>

-----------------------------------------------------------------------------
SayStep(w) == \/ StartSay(w) \/ TestRoom(w) \/ ReadIndex(w) \/ Store(w)
              \/ LoadCount(w) \/ WriteCount(w) \/ Broadcast(w)
JoinStep(j) == \/ AddNewcomer(j) \/ CompareCount(j) \/ SubtractSize(j)
               \/ SendEntry(j) \/ EndJoin(j)

Next == (\E w \in Sayer : SayStep(w)) \/ (\E j \in Joiner : JoinStep(j))

Spec == Init /\ [][Next]_vars

-----------------------------------------------------------------------------
(****************************************************************************)
(* Properties.                                                              *)
(****************************************************************************)

\* As long as no two say handlers were between the test and the increment of
\* the count at once (lines 184-187 take no lock), the count stays within the
\* array and the slots below it hold distinct messages, each of a handler that
\* stored it: none lost, none twice, no hole.
LoneSaysRecorded ==
  ~raced =>
    /\ chat_historyc <= MAX_MSGS
    /\ \A s \in Slot : s < chat_historyc => chat_history[s] # NULL
    /\ \A s, t \in Slot : s # t /\ chat_history[s] = chat_history[t]
                            => chat_history[s] = NULL
    /\ \A m \in done : chat_historyc < MAX_MSGS
                         => \E s \in Slot : s < chat_historyc /\ chat_history[s] = m

\* Without such a race a newcomer misses nothing it should get: of the messages
\* whose handlers have returned, it lacks only entries older than the window it
\* was sent (line 82) and those that a full history did not take.  It rests on
\* the order in the two handlers: store before broadcast (lines 184-194), list
\* before history (lines 74-88).
Recorded(m) == \E s \in Slot : chat_history[s] = m
NothingMissed ==
  ~raced =>
    \A j \in Joiner, m \in done :
      JoinAt(j, "done") /\ m \notin ToSet(got[j])
        => \/ \E s \in Slot : s < joiner[j].start /\ chat_history[s] = m
           \/ ~Recorded(m) /\ chat_historyc = MAX_MSGS
=============================================================================
