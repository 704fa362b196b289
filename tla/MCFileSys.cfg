\* Two names that hash alike and a third in the same block of entries; three
\* inodes to a sector instead of eight, and one inode more than that.
SPECIFICATION FSSpec
CONSTANTS
  ab = ab
  abc = abc
  ac = ac
  Name = {ab, abc, ac}
  Haxi <- MCHaxi
  StartsWith <- MCStartsWith
  PerSector = 3
  MaxInode = 4
  MaxBlock = 9
INVARIANTS OneOwner TreeAgrees HangsOnCollision
 
