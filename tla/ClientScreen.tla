---------------------------- MODULE ClientScreen ----------------------------
(****************************************************************************)
(* What the client shows: the messages, the mute table and the prompt, the  *)
(* threads that handle server messages and change them, and the display     *)
(* thread, which draws them.  Two mutexes guard them; the name is written   *)
(* under either, and read under both, one or none.                          *)
(*                                                                          *)
(* A section that only sets things is one step, taken while its mutex is    *)
(* free; one in which a thread holds data half written, or takes the second *)
(* mutex, is two.  The input threads, which take connection_mutex to test   *)
(* one flag, are left to ClientConsole, the listener and the queue manager  *)
(* to TaskQueue: a message arrives here as the thread that handles it.      *)
(****************************************************************************)
EXTENDS MuteTable, FiniteSets, Functions

CONSTANTS Handler,   \* bound: server messages in handling at a time
          Text,      \* the texts of say$, told apart by identity
          Sender,    \* of each text, the user in front of its colon
          MaxShown   \* bound: message_count (the array has MAX_MSGS = 100 rows)

VARIABLES connection_mutex, messages_mutex,  \* who holds them
          messages,  \* the first message_count rows
          result,    \* the static buffer of join
          table,     \* client->mute_table
          muted,     \* history: the users muted and not unmuted since
          connected, \* client->connected
          handler,   \* what each handling thread is doing
          display,   \* where the display thread is
          dirty      \* history: what the screen shows is not what there is

mutexVars == <<connection_mutex, messages_mutex>>
shownVars == <<messages, result, table, muted>>
promptVars == <<connected, dirty>>
vars == <<mutexVars, shownVars, handler, display, promptVars>>

Free == "free"
Display == "display"
Nothing == "nothing"
ErrorText == "error"

ASSUME ScreenAssumption == /\ MaxShown \in Nat
                           /\ Free \notin Handler /\ Display \notin Handler
                           /\ ErrorText \notin Text
                           /\ Sender \in [Text -> Key]

HandlerPc == {"idle", "connect", "naming", "refresh", "disconnect", "clear", "say", "store",
              "error", "prompt", "prompting", "rename", "renaming", "mute", "unmute"}
IdleHandler == [pc |-> "idle", arg |-> Nothing]

TypeOK ==
  /\ connection_mutex \in Handler \cup {Display, Free}
  /\ messages_mutex \in Handler \cup {Display, Free}
  /\ messages \in Seq(Text \cup {ErrorText})
  /\ result \in Text \cup {ErrorText, Nothing}
  /\ table \in Table /\ muted \subseteq Key
  /\ handler \in [Handler -> [pc : HandlerPc, arg : Text \cup {Nothing}]]
  /\ \A h \in Handler : handler[h].pc = "say" => handler[h].arg \in Text
  /\ display \in {"start", "first", "lock", "asleep", "woken", "draw", "prompt"}
  /\ connected \in BOOLEAN /\ dirty \in BOOLEAN

\* setup_client and main; the first prompt has still to be drawn.
Init ==
  /\ connection_mutex = Free /\ messages_mutex = Free
  /\ messages = <<>> /\ result = Nothing
  /\ table = EmptyTable /\ muted = {}
  /\ handler = [h \in Handler |-> IdleHandler]
  /\ display = "start"
  /\ connected = FALSE /\ dirty = FALSE

-----------------------------------------------------------------------------
At(h, pc) == handler[h].pc = pc
Goto(h, pc) == handler' = [handler EXCEPT ![h].pc = pc]
Return(h) == handler' = [handler EXCEPT ![h] = IdleHandler]

\* A message is drawn unless its sender is muted; an error's text has none.
Drawn(m) == m = ErrorText \/ ~Contains(table, Sender[m])
SaidBy(k) == \E i \in DOMAIN messages : messages[i] # ErrorText /\ Sender[messages[i]] = k

\* messages_cond: only the display waits on it.
SignalDisplay == display' = IF display = "asleep" THEN "woken" ELSE display

\* cli_queue_manager starts a thread for each message.
Handle(h, pc, arg) ==
  /\ At(h, "idle")
  /\ handler' = [handler EXCEPT ![h] = [pc |-> pc, arg |-> arg]]
  /\ UNCHANGED <<mutexVars, shownVars, display, promptVars>>

Saying == {handler[h].arg : h \in {g \in Handler : handler[g].pc \in {"say", "store"}}}

ArriveSay(h, t) ==
  /\ t \notin Range(messages) \cup Saying
  /\ Len(messages) + Cardinality(Saying) < MaxShown
  /\ Handle(h, "say", t)

ArriveOther(h) ==
  \E pc \in {"connect", "disconnect", "error", "rename", "mute", "unmute"} :
    Handle(h, pc, Nothing)

-----------------------------------------------------------------------------
(****************************************************************************)
(* execute_connect_response and execute_disconnect_response, each with two  *)
(* sections.                                                                *)
(****************************************************************************)
ConnectBegin(h) ==
  /\ At(h, "connect")
  /\ connection_mutex = Free
  /\ connection_mutex' = h
  /\ connected' = TRUE
  /\ Goto(h, "naming")
  /\ UNCHANGED <<messages_mutex, shownVars, display, dirty>>

\* strcpy of the name is over; it was another one.
ConnectEnd(h) ==
  /\ At(h, "naming")
  /\ connection_mutex' = Free
  /\ dirty' = TRUE
  /\ Goto(h, "refresh")
  /\ UNCHANGED <<messages_mutex, shownVars, display, connected>>

ConnectRefresh(h) ==
  /\ At(h, "refresh")
  /\ messages_mutex = Free
  /\ SignalDisplay
  /\ Return(h)
  /\ UNCHANGED <<mutexVars, shownVars, promptVars>>

Disconnect(h) ==
  /\ At(h, "disconnect")
  /\ connection_mutex = Free
  /\ connected' = FALSE
  /\ dirty' = (dirty \/ connected)
  /\ Goto(h, "clear")
  /\ UNCHANGED <<mutexVars, shownVars, display>>

DisconnectClear(h) ==
  /\ At(h, "clear")
  /\ messages_mutex = Free
  /\ messages' = <<>>
  /\ dirty' = (dirty \/ \E i \in DOMAIN messages : Drawn(messages[i]))
  /\ SignalDisplay
  /\ Return(h)
  /\ UNCHANGED <<mutexVars, result, table, muted, connected>>

(****************************************************************************)
(* say_exec and execute_error_response: both join their arguments into one  *)
(* static buffer, error$ without a lock.                                    *)
(****************************************************************************)
SayJoin_Unlocked(h) ==
  /\ At(h, "say")
  /\ result' = handler[h].arg
  /\ Goto(h, "store")
  /\ UNCHANGED <<mutexVars, messages, table, muted, display, promptVars>>
SayJoin(h) ==
  /\ At(h, "say")
  /\ messages_mutex = Free
  /\ messages_mutex' = h
  /\ result' = handler[h].arg
  /\ Goto(h, "store")
  /\ UNCHANGED <<connection_mutex, messages, table, muted, display, promptVars>>

SayStore(h) ==
  /\ At(h, "store")
  /\ messages' = Append(messages, result)
  /\ dirty' = (dirty \/ Drawn(result))
  /\ SignalDisplay
  /\ messages_mutex' = Free
  /\ Return(h)
  /\ UNCHANGED <<connection_mutex, result, table, muted, connected>>

ErrorJoin(h) ==
  /\ At(h, "error")
  /\ result' = ErrorText
  /\ Goto(h, "prompt")
  /\ UNCHANGED <<mutexVars, messages, table, muted, display, promptVars>>

\* The prompt after it, under connection_mutex.
ErrorPrompt(h) ==
  /\ At(h, "prompt")
  /\ connection_mutex = Free
  /\ connection_mutex' = h
  /\ Goto(h, "prompting")
  /\ UNCHANGED <<messages_mutex, shownVars, display, promptVars>>

ErrorEnd(h) ==
  /\ At(h, "prompting")
  /\ connection_mutex' = Free
  /\ Return(h)
  /\ UNCHANGED <<messages_mutex, shownVars, display, promptVars>>

(****************************************************************************)
(* rename_exec, mute_exec, unmute_exec: under messages_mutex.  Which user is *)
(* meant is told here, as nothing depends on it before.                     *)
(****************************************************************************)
RenameBegin_Unlocked(h) ==
  /\ At(h, "rename")
  /\ Goto(h, "renaming")
  /\ UNCHANGED <<mutexVars, shownVars, display, promptVars>>
RenameBegin(h) ==
  /\ At(h, "rename")
  /\ messages_mutex = Free
  /\ messages_mutex' = h
  /\ Goto(h, "renaming")
  /\ UNCHANGED <<connection_mutex, shownVars, display, promptVars>>

RenameEnd(h) ==
  /\ At(h, "renaming")
  /\ messages_mutex' = Free
  /\ dirty' = (dirty \/ connected)
  /\ SignalDisplay
  /\ Return(h)
  /\ UNCHANGED <<connection_mutex, shownVars, connected>>

\* The screen is no longer right only if the table has changed, and a message with it.
SetTable(h, k, new) ==
  /\ messages_mutex = Free
  /\ table' = new
  /\ dirty' = (dirty \/ (new # table /\ SaidBy(k)))
  /\ SignalDisplay
  /\ Return(h)
  /\ UNCHANGED <<mutexVars, messages, result, connected>>

Mute(h, k) ==
  /\ At(h, "mute")
  /\ SetTable(h, k, Insert(table, k))
  /\ muted' = muted \cup {k}

Unmute(h, k) ==
  /\ At(h, "unmute")
  /\ SetTable(h, k, RemoveKey(table, k))
  /\ muted' = muted \ {k}

-----------------------------------------------------------------------------
(****************************************************************************)
(* chat_display.                                                            *)
(****************************************************************************)

\* The first prompt, before the loop: under connection_mutex alone, and below no
\* message.
BeginFirstPrompt ==
  /\ display = "start"
  /\ connection_mutex = Free
  /\ connection_mutex' = Display
  /\ dirty' = \E i \in DOMAIN messages : Drawn(messages[i])
  /\ display' = "first"
  /\ UNCHANGED <<messages_mutex, shownVars, handler, connected>>

EndFirstPrompt ==
  /\ display = "first"
  /\ connection_mutex' = Free
  /\ display' = "lock"
  /\ UNCHANGED <<messages_mutex, shownVars, handler, promptVars>>

\* pthread_mutex_lock and pthread_cond_wait: no test of what there is to draw.
DisplayWait ==
  /\ display = "lock"
  /\ messages_mutex = Free
  /\ display' = "asleep"
  /\ UNCHANGED <<mutexVars, shownVars, handler, promptVars>>

\* The messages, less those of muted users; they cannot change until the unlock.
DrawMessages ==
  /\ display = "woken"
  /\ messages_mutex = Free
  /\ messages_mutex' = Display
  /\ display' = "draw"
  /\ UNCHANGED <<connection_mutex, shownVars, handler, promptVars>>

\* The prompt, under both mutexes: now all that was drawn is what there is.
BeginPrompt ==
  /\ display = "draw"
  /\ connection_mutex = Free
  /\ connection_mutex' = Display
  /\ dirty' = FALSE
  /\ display' = "prompt"
  /\ UNCHANGED <<messages_mutex, shownVars, handler, connected>>

EndPrompt_NoWait ==
  /\ display = "prompt"
  /\ connection_mutex' = Free /\ messages_mutex' = Free
  /\ display' = "woken"
  /\ UNCHANGED <<shownVars, handler, promptVars>>
EndPrompt ==
  /\ display = "prompt"
  /\ connection_mutex' = Free /\ messages_mutex' = Free
  /\ display' = "lock"
  /\ UNCHANGED <<shownVars, handler, promptVars>>

\* pthread_cond_wait may return without a signal.
SpuriousWakeup ==
  /\ display = "asleep"
  /\ display' = "woken"
  /\ UNCHANGED <<mutexVars, shownVars, handler, promptVars>>

-----------------------------------------------------------------------------
HandlerStep(h) ==
  \/ ConnectBegin(h) \/ ConnectEnd(h) \/ ConnectRefresh(h)
  \/ Disconnect(h) \/ DisconnectClear(h)
  \/ SayJoin(h) \/ SayStore(h)
  \/ ErrorJoin(h) \/ ErrorPrompt(h) \/ ErrorEnd(h)
  \/ RenameBegin(h) \/ RenameEnd(h)
  \/ \E k \in Key : Mute(h, k) \/ Unmute(h, k)
DisplayStep == \/ BeginFirstPrompt \/ EndFirstPrompt
               \/ DisplayWait \/ DrawMessages \/ BeginPrompt \/ EndPrompt

Next == \/ \E h \in Handler : \/ \E t \in Text : ArriveSay(h, t)
                              \/ ArriveOther(h)
                              \/ HandlerStep(h)
        \/ DisplayStep \/ SpuriousWakeup

Spec == Init /\ [][Next]_vars

\* Every thread runs, and one that keeps asking for a mutex gets it in the end,
\* as each is held for a bounded time.  The server need not send.
FairSpec == /\ Spec
            /\ \A h \in Handler : SF_vars(HandlerStep(h))
            /\ SF_vars(DisplayStep)

-----------------------------------------------------------------------------
(****************************************************************************)
(* Properties.                                                              *)
(****************************************************************************)

\* The name is copied whole into a prompt although rename_exec writes it under one
\* mutex (client_types.h 173-176) and execute_connect_response under the other
\* (187-190): the display's loop holds both.  Its first prompt (client_interface.c
\* 110-117) and that of error$ (client_types.h 215-222) hold the latter only, and are
\* whole but for a rename$ handled beside them; ping$ (client_interface.c 333) holds
\* neither and has no such claim.
PromptsReadWholeName ==
  /\ display = "prompt" => \A h \in Handler : ~At(h, "naming") /\ ~At(h, "renaming")
  /\ display = "first" \/ (\E h \in Handler : At(h, "prompting"))
       => \A h \in Handler : ~At(h, "naming")

\* No say$ takes the place of another in the messages: of those that use the
\* static buffer of join (client_types.h 126) only error$ comes between.
SaysKeptApart ==
  \A i, j \in DOMAIN messages :
    messages[i] = messages[j] /\ messages[i] # ErrorText => i = j

\* The chained table is the set of the users muted last (custom_hash_table.h).
TableIsSet == WellChained(table) /\ Keys(table) = muted

\* Every handling thread ends and the display finishes what it draws: the
\* display holds both mutexes at once, the handlers take them one by one
\* (client_interface.c 122-153, client_types.h 184-201).
ThreadsFinish ==
  /\ \A h \in Handler : ~At(h, "idle") ~> At(h, "idle")
  /\ display = "draw" ~> display = "lock"

\* README.md 305: the display renders again on each update; so when no thread
\* is at work and it sleeps, the screen shows the messages and the prompt of now.
DisplayUpToDate ==
  display = "asleep" /\ (\A h \in Handler : At(h, "idle")) => ~dirty
=============================================================================
