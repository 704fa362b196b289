SPECIFICATION Spec
CONSTANTS
  l1 = l1
  l2 = l2
  NULL = NULL
  Task <- ThreeTasks
  Obj <- TwoLocks
  Lock <- TwoLocks
  FileType <- Processes
  SleepArg = {}
  Calls <- LockCalls
  MaxHeld = 2
  KillLockUsers = FALSE
INVARIANT DeadlockIsRefused
VIEW View
