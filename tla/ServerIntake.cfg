SPECIFICATION FairIntakeSpec
CONSTANTS
  QUEUE_MAX = 4
  Text = {t1, t2}
  Addr = {a1, a2}
  None = None
  MAX_THREADS = 1
  MaxRunning = 2
INVARIANTS
  RingConsistent
  NoLostWakeup
PROPERTIES
  BorrowedSlotStable
  ImplementsFifo
  QueuedIsDispatched
  AppendCompletes
