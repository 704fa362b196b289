\* The three threads of the test; every number of ticks that its sleeps can draw.
SPECIFICATION Spec
CONSTANTS
  NULL = NULL
  NumPhilosophers = 3
  Task <- MCTask
  Obj <- MCObj
  ThinkTime = {5000, 6000, 7000, 8000, 9999}
  EatTime = {2000, 3999}
INVARIANTS NeighboursApart ForksConserved
PROPERTIES HungryEats
