\* test_all/th2.c itself, with one more thread that only yields.
SPECIFICATION Spec
CONSTANTS
  NULL = NULL
  thread2 = thread2
  thread3 = thread3
  Clock = Clock
  c0mod3 = c0mod3
  cnot0mod3 = cnot0mod3
  Task = {thread2, thread3, Clock}
  Obj = {c0mod3, cnot0mod3}
  Turns <- MCTurns
  Every <- MCEvery
  SleepArg = 100
INVARIANTS Asserts NoSignalLost Uncontended
PROPERTY BothPass
