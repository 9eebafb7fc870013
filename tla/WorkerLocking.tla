---------------------------- MODULE WorkerLocking ----------------------------
(****************************************************************************)
(* The server's threads as users of the monitor: each command handler of    *)
(* server_interface.c, and one round of connection_manager, passes through  *)
(* a fixed series of read and write sections and is then done.              *)
(****************************************************************************)
EXTENDS Monitor, Sequences

CONSTANTS Role,         \* what each thread runs, [Thread -> RoleKind]
          MaxSpurious   \* bound: spurious wakeups in a behaviour

RoleKind == {"conn", "say", "sayto", "disconn", "rename", "kick", "scan"}

ASSUME RoleAssumption == /\ Role \in [Thread -> RoleKind]
                         /\ MaxSpurious \in Nat

VARIABLES todo,     \* the sections each thread still has to pass, the current
                    \* one first
          spurious  \* spurious wakeups so far

vars == <<AR, WR, AW, WW, phase, todo, spurious>>

(****************************************************************************)
(* The sections of each handler.  Where it returns early (disconnect of an  *)
(* unknown address, kick by a non-admin or of an unknown name, a round with *)
(* nobody to remove), it passes only the first ones.                        *)
(****************************************************************************)
Sections(kind) ==
  CASE kind \in {"conn", "rename"}  -> {<<"write">>}
    [] kind = "say"                 -> {<<"read", "read">>}
    [] kind = "sayto"               -> {<<"read">>}
    [] kind \in {"disconn", "scan"} -> {<<"read">>, <<"read", "write">>}
    [] kind = "kick"                -> {<<"read">>, <<"read", "write">>,
                                        <<"read", "write", "read">>}

Init == /\ MonitorInit
        /\ spurious = 0
        /\ todo \in {f \in [Thread -> UNION {Sections(k) : k \in RoleKind}] :
                       \A t \in Thread : f[t] \in Sections(Role[t])}

Enter(t) == /\ todo[t] # <<>>
            /\ \/ Head(todo[t]) = "read" /\ ReaderCheckin(t)
               \/ Head(todo[t]) = "write" /\ WriterCheckin(t)
            /\ UNCHANGED <<todo, spurious>>

Leave(t) == /\ ReaderCheckout(t) \/ WriterCheckout(t)
            /\ todo' = [todo EXCEPT ![t] = Tail(@)]
            /\ UNCHANGED spurious

Wake(t) == /\ spurious < MaxSpurious
           /\ WakeSpuriously(t)
           /\ spurious' = spurious + 1
           /\ UNCHANGED todo

Next == \E t \in Thread : Enter(t) \/ Leave(t) \/ Wake(t)

Spec == Init /\ [][Next]_vars

\* Every thread is scheduled and no section runs for ever; a blocked thread's
\* Enter is disabled until another thread wakes it.
Fairness == \A t \in Thread : WF_vars(Enter(t)) /\ WF_vars(Leave(t))
FairSpec == Spec /\ Fairness

-----------------------------------------------------------------------------
\* Every writer that waits for the monitor gets in (the signals to cond_write
\* in reader_checkout and writer_checkout, server_types.h 254 and 274).
WritersGetIn ==
  \A t \in Thread : (phase[t] \in {"wwait", "wwoken"}) ~> (phase[t] = "writing")

\* README.md 121: a say$ is broadcast to all clients; so the handler passes
\* both of its read sections and ends.
SayCompletes ==
  \A t \in Thread : Role[t] = "say" => <>(todo[t] = <<>>)
=============================================================================
