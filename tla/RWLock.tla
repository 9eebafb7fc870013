-------------------------------- MODULE RWLock --------------------------------
(****************************************************************************)
(* The lock that the server's command threads believe they use: any number  *)
(* of readers, or one writer.  Nothing is promised about who gets in when.  *)
(****************************************************************************)
EXTENDS FiniteSets

CONSTANT Thread

VARIABLES readers,  \* the threads between reader_checkin and reader_checkout
          writers   \* the threads between writer_checkin and writer_checkout

lockVars == <<readers, writers>>

LockInit == readers = {} /\ writers = {}

AcquireRead(t) == /\ writers = {}
                  /\ t \notin readers
                  /\ readers' = readers \cup {t}
                  /\ UNCHANGED writers

AcquireWrite(t) == /\ readers = {} /\ writers = {}
                   /\ writers' = {t}
                   /\ UNCHANGED readers

ReleaseRead(t) == /\ t \in readers
                  /\ readers' = readers \ {t}
                  /\ UNCHANGED writers

ReleaseWrite(t) == /\ t \in writers
                   /\ writers' = writers \ {t}
                   /\ UNCHANGED readers

LockNext == \E t \in Thread : \/ AcquireRead(t) \/ AcquireWrite(t)
                              \/ ReleaseRead(t) \/ ReleaseWrite(t)

LockSpec == LockInit /\ [][LockNext]_lockVars
=============================================================================
