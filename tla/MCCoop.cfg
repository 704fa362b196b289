\* Three tasks, one more than a lock needs to have a holder and a waiter, and
\* two locks, one more than keeps the shared queue sound.
CONSTANTS
  Task = {t1, t2, t3}
  Lock = {l, lock}
  NULL = NULL
SPECIFICATION Spec
INVARIANTS MutualExclusion OneLockNeverStrays OnePlace
PROPERTIES Fifo WaitEnds
