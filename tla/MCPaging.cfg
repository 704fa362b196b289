\* Three frames and programs of one page, as built; the kernel is built with two
\* of them, with one, or with more than there are frames.
SPECIFICATION Spec
CONSTANTS
  v0 = v0
  v1 = v1
  v2 = v2
  v3 = v3
  NULL = NULL
  ProcCounts = {1, 2, 3, 4}
  PageablePages = 3
  FirstFrame = 2312
  Touched <- OnePageEach
  Value <- Values
  Image <- OwnImage
INVARIANTS FramesOwned TlbAgrees
PROPERTY ImplementsMemory
