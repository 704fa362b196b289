\* Three tasks, one mutex, sleeps of no tick and of one, any kill.
SPECIFICATION Spec
CONSTANTS
  l1 = l1
  l2 = l2
  NULL = NULL
  Task <- ThreeTasks
  Obj <- OneLock
  Lock <- OneLock
  FileType <- AnyFile
  SleepArg <- Sleeps
  Calls <- LifeCalls
  MaxHeld = 1
  KillLockUsers = TRUE
INVARIANTS TypeOK OnePlace NoTaskLost
PROPERTIES WaitEndsWithTarget DeadStayDead
VIEW View
