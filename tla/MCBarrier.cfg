\* The three threads of the test and three turns of its loop; sleeps shorter
\* than a tick, as in the test, and longer ones.
SPECIFICATION Spec
CONSTANTS
  NULL = NULL
  barrier = barrier
  NumThreads = 3
  NumIterations = 3
  Task <- MCTask
  Obj = {barrier}
  SleepArg = {19, 1000, 2000}
INVARIANTS ValuesEqual
PROPERTY ImplementsRendezvous
