\* Three tasks of priorities 2, 3 and 4, as tasks.c has them; sleeps of up to
\* two ticks, enough for two sleepers to be due at once and out of order;
\* three rounds, so that a sleeper can be two behind.
CONSTANTS
  NumTasks = 3
  MaxSleep = 2
  MaxRound = 3
  Nobody = Nobody
SPECIFICATION P3Spec
INVARIANTS Share InStep
PROPERTIES NoStarvation WakesInTurn
