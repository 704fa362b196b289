------------------------------ MODULE FileSys ------------------------------
(***************************************************************************)
(* The directories of project 6 (common.c) on a disk that mkfs made and    *)
(* that has been mounted again since: lookup, mkdir, rmdir, readdir, and   *)
(* mounting once more.  A directory has an inode, whose first_point names  *)
(* an address block; the address block has a pointer for each group of     *)
(* fifteen entries; a name's hash says which group and which entry.        *)
(*                                                                         *)
(* Block 0 is the root's address block (sector 15172), block k the k-th    *)
(* of the sectors behind the first one of the inode table (36 + k), which  *)
(* is where aloc_block() takes its blocks from; 0 as a pointer is NULL.    *)
(* One operation runs at a time.  What is read from a block of two owners  *)
(* is not modelled: the story ends there, at OneOwner.                     *)
(***************************************************************************)
EXTENDS Integers

CONSTANTS Name,       \* the names that programs use
          Haxi,       \* the hash of each name, as path_parse() computes it
          StartsWith, \* <<m, n>>: name m starts with name n
          PerSector,  \* inodes in a sector: SECTOR_SIZE / INODE_SIZE, 8
          MaxInode,   \* the bound on the inodes ever made
          MaxBlock    \* the bound on the blocks ever allocated

ASSUME FileSysAssumption ==
    /\ Haxi \in [Name -> Nat \ {0}]
    /\ StartsWith \subseteq Name \X Name
    /\ PerSector \in Nat \ {0}
    /\ MaxInode \in Nat /\ MaxBlock \in Nat

Root == 0

VARIABLES mem,     \* sblock: the next inode number and the next block
          saved,   \* the same in the superblock on the disk
          first,   \* inode number -> its address block
          ptr,     \* <<address block, group>> -> block of entries; partial
          dent,    \* <<block, index>> -> entry; an entry not here is all zero
          hung,    \* a search goes round for ever
          lost,    \* was mounted again with allocations not saved
          tree,    \* what mkdir and rmdir have reported: <<parent, name, inode>>
          asked    \* the names looked for in each directory

disk == <<saved, first, ptr, dent>>
fsvars == <<mem, saved, first, ptr, dent, hung, lost, tree, asked>>

FSInit ==
    /\ mem = [inode |-> 1, block |-> 1]
    /\ saved = mem
    /\ first = [d \in {Root} |-> 0]
    /\ ptr = <<>>
    /\ dent = <<>>
    /\ hung = FALSE
    /\ lost = FALSE
    /\ tree = {}
    /\ asked = {}

----------------------------------------------------------------------------
With(f, k, v) == [x \in DOMAIN f \cup {k} |-> IF x = k THEN v ELSE f[x]]
Drop(f, k) == [x \in DOMAIN f \ {k} |-> f[x]]
Zeroed(f, b) == [x \in {y \in DOMAIN f : y[1] # b} |-> f[x]]

\* Mutant: three hashes to an entry.
SlotCoarse(d, n) == <<ptr[<<first[d], Haxi[n] \div 15>>], (Haxi[n] % 15) \div 3>>

\* Where the address block of d points for group g, and the entry n hashes to.
Pointer(d, n) == <<first[d], Haxi[n] \div 15>>
Overflow(d, n) == <<first[d], (Haxi[n] \div 150) * 10 + 9>>
Slot(d, n) == <<ptr[Pointer(d, n)], Haxi[n] % 15>>

\* The comparison is strncmp(name, fname, name_len): a stored name that starts
\* with the one looked for is taken for it.
Matches(n, stored) == n = stored \/ <<stored, n>> \in StartsWith

\* What the search for n in d comes to.  An entry taken by another name leads on
\* to its next_index.  The first search that needs one sets it to an empty entry
\* of the overflow block, and the second follows it there; the empty entry's own
\* next_index is 0, not -1, which leads to itself for ever.
Find(d, n) ==
    IF Pointer(d, n) \notin DOMAIN ptr        THEN "no block"
    ELSE IF Slot(d, n) \notin DOMAIN dent     THEN "free"
    ELSE IF Matches(n, dent[Slot(d, n)].name) THEN "hit"
    ELSE IF dent[Slot(d, n)].next = -1        THEN "taken"
    ELSE "loop"

\* Mutant: the counter stays.
AlocAgain == mem' = mem

\* aloc_block(): the block it hands out is the next one, zeroed.
AlocBlock == mem' = [mem EXCEPT !.block = @ + 1]

\* A pointer that is NULL is filled in, and saved, before the block is taken.
NewBlock(where) ==
    /\ ptr' = Zeroed(With(ptr, where, mem.block), mem.block)
    /\ AlocBlock

Linked(d, n) == [dent EXCEPT ![Slot(d, n)].next = (Haxi[n] \div 150) * 150 + 135]

\* find_hash(): a search that finds nothing prepares the place for the name, for
\* a getattr as for a mkdir; the superblock stays as it is on the disk.
FindHash(d, n) ==
    \/ /\ Find(d, n) \in {"free", "hit"}
       /\ UNCHANGED <<mem, ptr, dent, hung>>
    \/ /\ Find(d, n) = "no block"
       /\ NewBlock(Pointer(d, n))
       /\ dent' = Zeroed(dent, mem.block)
       /\ UNCHANGED hung
    \/ /\ Find(d, n) = "taken"
       /\ Overflow(d, n) \notin DOMAIN ptr
       /\ NewBlock(Overflow(d, n))
       /\ dent' = Zeroed(Linked(d, n), mem.block)
       /\ UNCHANGED hung
    \/ /\ Find(d, n) = "taken"
       /\ Overflow(d, n) \in DOMAIN ptr
       /\ dent' = Linked(d, n)
       /\ UNCHANGED <<mem, ptr, hung>>
    \/ /\ Find(d, n) = "loop"
       /\ hung' = TRUE
       /\ UNCHANGED <<mem, ptr, dent>>

Ask(d, n) == asked' = asked \cup {<<d, n>>}

\* p6fs_getattr(), which comes before every other operation on a name.
Lookup(d, n) ==
    /\ mem.block < MaxBlock
    /\ FindHash(d, n)
    /\ Ask(d, n)
    /\ UNCHANGED <<saved, first, lost, tree>>

\* Mutant: the superblock is written with the inode number before this one.
WriteSuperLate == saved' = [mem' EXCEPT !.inode = mem.inode]

WriteSuper == saved' = mem'

\* p6fs_mkdir() of a name that the lookup did not find: the lookup has left a
\* free entry for it.  The new inode gets a block for its own addresses.
Mkdir(d, n) ==
    /\ mem.inode < MaxInode /\ mem.block < MaxBlock
    /\ Find(d, n) = "free"
    /\ mem' = [inode |-> mem.inode + 1, block |-> mem.block + 1]
    /\ first' = With(first, mem.inode, mem.block)
    /\ ptr' = Zeroed(ptr, mem.block)
    /\ dent' = With(Zeroed(dent, mem.block), Slot(d, n),
                    [name |-> n, inode |-> mem.inode, next |-> -1])
    /\ WriteSuper
    /\ tree' = tree \cup {<<d, n, mem.inode>>}
    /\ Ask(d, n)
    /\ UNCHANGED <<hung, lost>>

\* Mutant: rmdir() writes its cleared buffer over the whole block.
RmdirBlock(d, n) ==
    /\ Find(d, n) = "hit"
    /\ dent' = Zeroed(dent, Slot(d, n)[1])
    /\ tree' = {e \in tree : ~(e[1] = d /\ e[2] = n)}
    /\ Ask(d, n)
    /\ UNCHANGED <<mem, saved, first, ptr, hung, lost>>

\* p6fs_rmdir(): the entry is zeroed, its next_index with it, whatever is in the
\* directory; its inode and blocks are never used again.
Rmdir(d, n) ==
    /\ Find(d, n) = "hit"
    /\ dent' = Drop(dent, Slot(d, n))
    /\ tree' = {e \in tree : ~(e[1] = d /\ e[2] = n)}
    /\ Ask(d, n)
    /\ UNCHANGED <<mem, saved, first, ptr, hung, lost>>

\* Unmount, or a killed process, and the mount of p6fs_init(): nothing is written
\* on the way out, and the counters come back from the superblock.
Remount ==
    /\ mem' = saved
    /\ lost' = (lost \/ mem.block # saved.block)
    /\ hung' = FALSE
    /\ UNCHANGED <<disk, tree, asked>>

----------------------------------------------------------------------------
\* Who owns block b: the inode table, a directory's addresses, its entries.
Owners(b) ==
    {<<"inodes", i>> : i \in {b} \cap {j \div PerSector : j \in 0 .. mem.inode - 1}}
        \cup {<<"addresses", d>> : d \in {e \in DOMAIN first : first[e] = b}}
        \cup {<<"entries", k>> : k \in {p \in DOMAIN ptr : ptr[p] = b}}

Apart == \A b \in 1 .. MaxBlock : \A p, q \in Owners(b) : p = q

\* The directories a path leads to, in as many steps as there are inodes.
Below[k \in 0 .. MaxInode] ==
    IF k = 0 THEN {Root}
    ELSE LET above == Below[k - 1]
         IN above \cup {dent[e].inode : e \in {x \in DOMAIN dent :
                \E p \in DOMAIN ptr, d \in above : ptr[p] = x[1] /\ first[d] = p[1]}}

Operation ==
    /\ Apart
    /\ ~hung
    /\ \E d \in Below[MaxInode], n \in Name : Lookup(d, n) \/ Mkdir(d, n) \/ Rmdir(d, n)

FSNext == Operation \/ Remount

FSSpec == FSInit /\ [][FSNext]_fsvars

----------------------------------------------------------------------------
\* p6fs_readdir(): the names in every block of entries, in use or not.
Listing(d) ==
    {dent[e].name : e \in {x \in DOMAIN dent :
        \E p \in DOMAIN ptr : ptr[p] = x[1] /\ p[1] = first[d]}}

\* Another name that hashes as n does was looked for in d.
Shares(d, n) == \E m \in Name \ {n} : Haxi[m] = Haxi[n] /\ <<d, m>> \in asked

\* Two names that hash alike were looked for in d.
Collided(d) == \E n \in Name : <<d, n>> \in asked /\ Shares(d, n)

\* Every block has one owner, through allocations by lookups and by mkdir, for as
\* long as no mount forgets an allocation and the inode table fits in its first
\* sector: aloc_block() starts right behind that one (common.c:1020), not behind
\* the fifteen thousand that INODE_BLOCK_NUM promises.
OneOwner == ~lost /\ mem.inode <= PerSector => Apart

\* A directory shows what mkdir and rmdir have reported, to a lookup of any name
\* and to readdir, across mounts too, unless two of its names hash alike.
TreeAgrees ==
    Apart => \A d \in DOMAIN first :
        LET made == {e \in tree : e[1] = d} IN
        /\ ~Collided(d) => Listing(d) = {e[2] : e \in made}
        /\ \A n \in Name : Shares(d, n) \/
              (IF Find(d, n) = "hit" THEN <<d, n, dent[Slot(d, n)].inode>> \in made
                                     ELSE \A e \in made : e[2] # n)

\* A search goes round for ever only where two names hash alike.
HangsOnCollision == hung => \E d \in DOMAIN first : Collided(d)

\* No inode number is given out twice, whatever a mount forgets of the blocks:
\* the counter never goes back.
NeverBack == [][mem'.inode >= mem.inode]_fsvars
=============================================================================
