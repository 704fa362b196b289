\* Two programs and the clock, two boxes of two messages, three names.
SPECIFICATION Spec
CONSTANTS
  clock = clock
  p1 = p1
  p2 = p2
  pub = pub
  sub = sub
  third = third
  NULL = NULL
  Task <- TwoPrograms
  Clock <- clock
  NumBoxes = 2
  Obj <- TwoBoxes
  MaxLength = 2
  Name <- Names
  Openers <- WhoOpens
  NameLength <- SomeLonger
  Readers <- WhoReads
  Closes = TRUE
INVARIANTS  NoneWaitsInVain DeliveredAlone 
VIEW View
