---------------------------- MODULE ClientConsole ----------------------------
(****************************************************************************)
(* The client's connection state and the threads that read the user's       *)
(* lines: one while the client is not connected, one while it is, both      *)
(* waiting on one condition and reading one stdin; and the threads that     *)
(* handle the server's answers about membership.  Of the server there is    *)
(* how often it lists this client; its answers are sent outside the monitor *)
(* and may arrive in any order, late or never.                              *)
(*                                                                          *)
(* A section that only tests or sets the flag is one step, taken while      *)
(* connection_mutex is free; `writer' holds the mutex while the name is     *)
(* copied.  What the handlers do to the screen is left to ClientScreen.     *)
(****************************************************************************)
EXTENDS Integers, FiniteSets

CONSTANTS Handler,   \* bound: answers about membership in handling at a time
          MaxAsked,  \* bound: conn$ the server has still to handle
          MaxNodes,  \* bound: nodes of this client on the server's list at a time
          MaxSent,   \* bound: answers of one kind on their way at a time
          Nobody     \* no thread

ASSUME ConsoleAssumption ==
  /\ MaxAsked \in Nat /\ MaxNodes \in Nat /\ MaxSent \in Nat
  /\ Nobody \notin Handler

VARIABLES connected,  \* client->connected
          writer,     \* the handling thread that holds connection_mutex, or Nobody
          handler,    \* what each handling thread is doing
          pre, post,  \* the two input threads and the lines they hold
          exited,     \* :q has ended the process
          asked,      \* conn$ datagrams that the server has still to handle
          nodes,      \* nodes of this client on the server's list
          sent,       \* answers on their way: of each kind, how many
          joined,     \* history: the server has listed this client
          spoke       \* history: something other than conn$ was sent

serverVars == <<nodes, sent, joined>>
netVars == <<asked, serverVars, spoke>>
vars == <<connected, writer, handler, pre, post, exited, netVars>>

InputPc == {"test", "asleep", "recheck", "fgets", "typed"}
Line == {"conn", "other", "quit"}  \* disconn$ goes out like any other line
NoLine == "none"
Answer == {"connsuccess", "disconnresponse"}
InputThread == {i \in [pc : InputPc, line : Line \cup {NoLine}] :
                  i.pc = "typed" <=> i.line # NoLine}

TypeOK ==
  /\ connected \in BOOLEAN
  /\ writer \in Handler \cup {Nobody}
  /\ handler \in [Handler -> {"idle", "connect", "naming", "disconnect"}]
  /\ pre \in InputThread /\ post \in InputThread
  /\ exited \in BOOLEAN
  /\ asked \in 0 .. MaxAsked
  /\ nodes \in 0 .. MaxNodes
  /\ sent \in [Answer -> 0 .. MaxSent]
  /\ joined \in BOOLEAN /\ spoke \in BOOLEAN

\* setup_client and main.
Init ==
  /\ connected = FALSE /\ writer = Nobody
  /\ handler = [h \in Handler |-> "idle"]
  /\ pre = [pc |-> "test", line |-> NoLine]
  /\ post = [pc |-> "test", line |-> NoLine]
  /\ exited = FALSE
  /\ asked = 0 /\ nodes = 0 /\ sent = [a \in Answer |-> 0]
  /\ joined = FALSE /\ spoke = FALSE

MutexFree == writer = Nobody

-----------------------------------------------------------------------------
(****************************************************************************)
(* The server.  conn$ lists the client, once more if it is listed already;  *)
(* disconn$, kick$ and a timeout unlink one node.  Both are answered by the *)
(* same handler outside the monitor: its delay is that of the answer.       *)
(****************************************************************************)
clientVars == <<connected, writer, handler, pre, post, exited>>

Respond(a) == sent[a] < MaxSent /\ sent' = [sent EXCEPT ![a] = @ + 1]

ServerLists ==
  /\ asked > 0 /\ nodes < MaxNodes
  /\ asked' = asked - 1 /\ nodes' = nodes + 1 /\ joined' = TRUE
  /\ Respond("connsuccess")
  /\ UNCHANGED <<clientVars, spoke>>

ServerUnlinks ==
  /\ nodes > 0
  /\ nodes' = nodes - 1
  /\ Respond("disconnresponse")
  /\ UNCHANGED <<clientVars, asked, joined, spoke>>

\* An answer arrives; cli_queue_manager starts a thread for it.
Pending == {h \in Handler : handler[h] # "idle"}
Arrive(h, a, pc) ==
  /\ sent[a] > 0 /\ handler[h] = "idle"
  /\ sent' = [sent EXCEPT ![a] = @ - 1]
  /\ handler' = [handler EXCEPT ![h] = pc]
  /\ UNCHANGED <<connected, writer, pre, post, exited, asked, nodes, joined, spoke>>
ArriveConnsuccess(h) == Arrive(h, "connsuccess", "connect")
ArriveDisconnresponse(h) == Arrive(h, "disconnresponse", "disconnect")

-----------------------------------------------------------------------------
\* The signal wakes one of the threads that wait on connection_cond.
SignalConnection ==
  \/ pre.pc # "asleep" /\ post.pc # "asleep" /\ UNCHANGED <<pre, post>>
  \/ pre.pc = "asleep" /\ pre' = [pre EXCEPT !.pc = "test"] /\ UNCHANGED post
  \/ post.pc = "asleep" /\ post' = [post EXCEPT !.pc = "test"] /\ UNCHANGED pre

\* execute_connect_response: connected is set before the name is copied.
ConnectBegin(h) ==
  /\ handler[h] = "connect" /\ MutexFree
  /\ writer' = h
  /\ connected' = TRUE
  /\ handler' = [handler EXCEPT ![h] = "naming"]
  /\ UNCHANGED <<pre, post, exited, netVars>>

ConnectEnd_NoSignal(h) ==
  /\ handler[h] = "naming"
  /\ writer' = Nobody
  /\ handler' = [handler EXCEPT ![h] = "idle"]
  /\ UNCHANGED <<connected, pre, post, exited, netVars>>
ConnectEnd(h) ==
  /\ handler[h] = "naming"
  /\ SignalConnection
  /\ writer' = Nobody
  /\ handler' = [handler EXCEPT ![h] = "idle"]
  /\ UNCHANGED <<connected, exited, netVars>>

\* execute_disconnect_response.
Disconnect(h) ==
  /\ handler[h] = "disconnect" /\ MutexFree
  /\ connected' = FALSE
  /\ SignalConnection
  /\ handler' = [handler EXCEPT ![h] = "idle"]
  /\ UNCHANGED <<writer, exited, netVars>>

-----------------------------------------------------------------------------
(****************************************************************************)
(* user_input_pre_connection and user_input.                                *)
(****************************************************************************)
unchangedByPre == <<connected, writer, handler, post>>
unchangedByPost == <<connected, writer, handler, pre>>

PreTest ==
  /\ pre.pc = "test" /\ MutexFree
  /\ pre' = [pre EXCEPT !.pc = IF connected THEN "asleep" ELSE "recheck"]
  /\ UNCHANGED <<unchangedByPre, exited, netVars>>

PreRecheck ==
  /\ pre.pc = "recheck" /\ MutexFree
  /\ pre' = [pre EXCEPT !.pc = IF connected THEN "test" ELSE "fgets"]
  /\ UNCHANGED <<unchangedByPre, exited, netVars>>

PostTest ==
  /\ post.pc = "test" /\ MutexFree
  /\ post' = [post EXCEPT !.pc = IF connected THEN "recheck" ELSE "asleep"]
  /\ UNCHANGED <<unchangedByPost, exited, netVars>>

PostRecheck ==
  /\ post.pc = "recheck" /\ MutexFree
  /\ post' = [post EXCEPT !.pc = IF connected THEN "fgets" ELSE "test"]
  /\ UNCHANGED <<unchangedByPost, exited, netVars>>

\* Both may be in fgets at once: stdio gives each line to one of them.
PreRead(l) ==
  /\ pre.pc = "fgets"
  /\ pre' = [pc |-> "typed", line |-> l]
  /\ UNCHANGED <<unchangedByPre, exited, netVars>>

PostRead(l) ==
  /\ post.pc = "fgets"
  /\ post' = [pc |-> "typed", line |-> l]
  /\ UNCHANGED <<unchangedByPost, exited, netVars>>

\* The datagram may be lost; a conn$ beyond the bound is.
Send(l) ==
  /\ asked' \in IF l = "conn" THEN {asked, asked + 1} \cap (0 .. MaxAsked) ELSE {asked}
  /\ spoke' = (spoke \/ l # "conn")
  /\ UNCHANGED serverVars

\* A line goes out if the connection came meanwhile, else only conn$ does.
PreTyped_ForwardsAll ==
  /\ pre.pc = "typed" /\ MutexFree
  /\ Send(pre.line)
  /\ exited' = (pre.line = "quit")
  /\ pre' = [pc |-> "test", line |-> NoLine]
  /\ UNCHANGED unchangedByPre
PreTyped ==
  /\ pre.pc = "typed"
  /\ \/ /\ pre.line = "quit"
        /\ exited' = TRUE
        /\ UNCHANGED netVars
     \/ /\ pre.line # "quit" /\ MutexFree
        /\ IF connected \/ pre.line = "conn" THEN Send(pre.line) ELSE UNCHANGED netVars
        /\ UNCHANGED exited
  /\ pre' = [pc |-> "test", line |-> NoLine]
  /\ UNCHANGED unchangedByPre

\* Whatever was typed is sent, :q as disconn$, without another look at connected.
PostTyped ==
  /\ post.pc = "typed"
  /\ Send(post.line)
  /\ exited' = (post.line = "quit")
  /\ post' = [pc |-> "test", line |-> NoLine]
  /\ UNCHANGED unchangedByPost

\* pthread_cond_wait may return without a signal.
SpuriousWakeup ==
  /\ \/ pre.pc = "asleep" /\ pre' = [pre EXCEPT !.pc = "test"] /\ UNCHANGED post
     \/ post.pc = "asleep" /\ post' = [post EXCEPT !.pc = "test"] /\ UNCHANGED pre
  /\ UNCHANGED <<connected, writer, handler, exited, netVars>>

-----------------------------------------------------------------------------
HandlerStep(h) == ConnectBegin(h) \/ ConnectEnd(h) \/ Disconnect(h)
PreStep == PreTest \/ PreRecheck \/ PreTyped
PostStep == PostTest \/ PostRecheck \/ PostTyped

Next ==
  /\ ~exited
  /\ \/ ServerLists \/ ServerUnlinks
     \/ \E h \in Handler : \/ ArriveConnsuccess(h) \/ ArriveDisconnresponse(h)
                           \/ HandlerStep(h)
     \/ PreStep \/ PostStep
     \/ \E l \in Line : PreRead(l) \/ PostRead(l)
     \/ SpuriousWakeup

Spec == Init /\ [][Next]_vars

\* Every thread runs, and one that keeps asking for the mutex gets it in the end,
\* as it is held for a bounded time.  The user need not type, the server not send.
FairSpec ==
  /\ Spec
  /\ \A h \in Handler : SF_vars(~exited /\ HandlerStep(h))
  /\ SF_vars(~exited /\ PreStep) /\ SF_vars(~exited /\ PostStep)

-----------------------------------------------------------------------------
(****************************************************************************)
(* Properties.                                                              *)
(****************************************************************************)

\* The one condition that both input threads wait on is signalled, not broadcast
\* (client_types.h 192 and 236), and the signal never goes to the wrong one: who
\* has to read is awake as soon as the section that set the flag is over.
InputNotStranded ==
  MutexFree => /\ connected => post.pc # "asleep"
               /\ ~connected => pre.pc # "asleep"

\* Nothing but conn$ reaches a server that has never listed this client: the
\* server's handlers rely on it (server_interface.c 179; README.md 82).
NothingBeforeWelcome == spoke => joined

\* Once the connection state stays as it is, the thread that is responsible comes
\* to fgets: no wakeup is lost and the mutex does not stay taken
\* (client_interface.c 172-186 and 242-256).
ConsoleAttended ==
  /\ <>[](connected /\ ~exited) => []<>(post.pc = "fgets")
  /\ <>[](~connected /\ ~exited) => []<>(pre.pc = "fgets")
=============================================================================
