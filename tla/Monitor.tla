------------------------------- MODULE Monitor -------------------------------
(****************************************************************************)
(* Monitor_t of server_types.h: the readers-writer monitor that guards the  *)
(* list of clients.  Each check-in and check-out runs under the monitor's   *)
(* mutex and is one step; a check-in that waits ends its step in the wait   *)
(* and takes another one when it is woken.                                  *)
(*                                                                          *)
(* A woken writer never undoes its WW++ (writer_checkin has no WW--), so WW *)
(* only grows.                                                              *)
(****************************************************************************)
EXTENDS Integers, FiniteSets

CONSTANT Thread   \* the threads that use the monitor

ASSUME ThreadAssumption == IsFiniteSet(Thread)

VARIABLES AR,     \* active readers
          WR,     \* waiting readers
          AW,     \* active writers
          WW,     \* "waiting writers"
          phase   \* where each thread is with respect to the monitor

monitorVars == <<AR, WR, AW, WW, phase>>

(****************************************************************************)
(* "out": not in the monitor.  "rwait", "wwait": blocked in                 *)
(* pthread_cond_wait on cond_read, cond_write.  "rwoken", "wwoken": woken,  *)
(* about to take the mutex again.  "reading", "writing": checked in.        *)
(****************************************************************************)
Phase == {"out", "rwait", "rwoken", "reading", "wwait", "wwoken", "writing"}

In(p) == {t \in Thread : phase[t] = p}

MonitorTypeOK ==
  /\ AR \in Nat /\ WR \in Nat /\ AW \in Nat /\ WW \in Nat
  /\ phase \in [Thread -> Phase]

\* monitor_init
MonitorInit ==
  /\ AR = 0 /\ WR = 0 /\ AW = 0 /\ WW = 0
  /\ phase = [t \in Thread |-> "out"]

-----------------------------------------------------------------------------
\* The tests of the two wait loops.
ReaderBlocked_IgnoresWaitingWriters == AW > 0
ReaderBlocked == AW + WW > 0

WriterBlocked_IgnoresReaders == AW > 0
WriterBlocked == AW + AR > 0

\* A reader's first test of the loop, or its test after a wait: leaving the
\* wait counts it out of WR, entering the loop's body counts it in.
WaitingReaders_NotCountedOut(t) == WR
WaitingReaders(t) == IF phase[t] = "rwoken" THEN WR - 1 ELSE WR

ReaderCheckin(t) ==
  /\ phase[t] \in {"out", "rwoken"}
  /\ \/ /\ ReaderBlocked
        /\ WR' = WaitingReaders(t) + 1
        /\ phase' = [phase EXCEPT ![t] = "rwait"]
        /\ UNCHANGED AR
     \/ /\ ~ReaderBlocked
        /\ WR' = WaitingReaders(t)
        /\ AR' = AR + 1
        /\ phase' = [phase EXCEPT ![t] = "reading"]
  /\ UNCHANGED <<AW, WW>>

\* A writer, alike, but each entry of the loop's body adds to WW for good.
WriterCheckin(t) ==
  /\ phase[t] \in {"out", "wwoken"}
  /\ \/ /\ WriterBlocked
        /\ WW' = WW + 1
        /\ phase' = [phase EXCEPT ![t] = "wwait"]
        /\ UNCHANGED AW
     \/ /\ ~WriterBlocked
        /\ AW' = AW + 1
        /\ phase' = [phase EXCEPT ![t] = "writing"]
        /\ UNCHANGED WW
  /\ UNCHANGED <<AR, WR>>

-----------------------------------------------------------------------------
\* What pthread_cond_signal(&cond_write) and pthread_cond_broadcast(&cond_read)
\* make of the phases: one waiting writer, if any, or all waiting readers.
SignalWriter(ph) ==
  IF \E t \in Thread : ph[t] = "wwait"
  THEN \E t \in Thread : ph[t] = "wwait" /\ phase' = [ph EXCEPT ![t] = "wwoken"]
  ELSE phase' = ph

BroadcastReaders(ph) ==
  phase' = [t \in Thread |-> IF ph[t] = "rwait" THEN "rwoken" ELSE ph[t]]

ReaderCheckout_NoSignal(t) ==
  /\ phase[t] = "reading"
  /\ AR' = AR - 1
  /\ phase' = [phase EXCEPT ![t] = "out"]
  /\ UNCHANGED <<WR, AW, WW>>
ReaderCheckout(t) ==
  /\ phase[t] = "reading"
  /\ AR' = AR - 1
  /\ LET ph == [phase EXCEPT ![t] = "out"]
     IN  IF AR' = 0 /\ WW > 0 THEN SignalWriter(ph) ELSE phase' = ph
  /\ UNCHANGED <<WR, AW, WW>>

WriterCheckout_ReadersFirst(t) ==
  /\ phase[t] = "writing"
  /\ AW' = AW - 1
  /\ LET ph == [phase EXCEPT ![t] = "out"]
     IN  IF WR > 0 THEN BroadcastReaders(ph)
         ELSE IF WW > 0 THEN SignalWriter(ph) ELSE phase' = ph
  /\ UNCHANGED <<AR, WR, WW>>
WriterCheckout(t) ==
  /\ phase[t] = "writing"
  /\ AW' = AW - 1
  /\ LET ph == [phase EXCEPT ![t] = "out"]
     IN  IF WW > 0 THEN SignalWriter(ph)
         ELSE IF WR > 0 THEN BroadcastReaders(ph) ELSE phase' = ph
  /\ UNCHANGED <<AR, WR, WW>>

\* pthread_cond_wait may return without a signal.
WakeSpuriously(t) ==
  /\ \/ phase[t] = "rwait" /\ phase' = [phase EXCEPT ![t] = "rwoken"]
     \/ phase[t] = "wwait" /\ phase' = [phase EXCEPT ![t] = "wwoken"]
  /\ UNCHANGED <<AR, WR, AW, WW>>

MonitorNext ==
  \E t \in Thread : \/ ReaderCheckin(t) \/ ReaderCheckout(t)
                    \/ WriterCheckin(t) \/ WriterCheckout(t)
                    \/ WakeSpuriously(t)

\* Threads that come and go in any order, without end.
MonitorSpec == MonitorInit /\ [][MonitorNext]_monitorVars

-----------------------------------------------------------------------------
(****************************************************************************)
(* Properties.                                                              *)
(****************************************************************************)

\* The counters the tests are made on count the threads they name; WR and AR,
\* AW exactly, WW at least when somebody waits (server_types.h 50-54).
CountersExact ==
  /\ AR = Cardinality(In("reading"))
  /\ AW = Cardinality(In("writing"))
  /\ WR = Cardinality(In("rwait") \cup In("rwoken"))
  /\ In("wwait") \cup In("wwoken") # {} => WW > 0

\* Two writers are never in the list together, nor a writer and a reader: what
\* every "critical section" of server_interface.c relies on.
MutualExclusion ==
  \A t \in In("writing") : /\ In("writing") = {t}
                           /\ In("reading") = {}

\* A writer that waits while the monitor is free has a wakeup on its way
\* (the signals of reader_checkout and writer_checkout).
WriterNotStranded ==
  In("wwait") # {} =>
    In("reading") \cup In("writing") \cup In("wwoken") # {}

\* No reader is let in past a writer that waits ("Give priority to writers",
\* server_types.h 274; the test of AW + WW in reader_checkin).
WriterPriority ==
  [][\A t \in Thread : phase[t] # "reading" /\ phase'[t] = "reading"
                         => In("wwait") \cup In("wwoken") = {}]_monitorVars

\* The monitor implements a readers-writer lock.
Lock == INSTANCE RWLock WITH readers <- In("reading"), writers <- In("writing")
ImplementsLock == Lock!LockSpec
=============================================================================
