-------------------------------- MODULE Inode --------------------------------
(***************************************************************************)
(* The inodes, the bit maps and the zones of the file system, as functions *)
(* from a state of the file system to the next: fs/inode.c, fs/bitmap.c    *)
(* and fs/truncate.c.                                                      *)
(*                                                                         *)
(* The only device is the ram disk, which answers before bread() returns;  *)
(* so no lock of an inode or of a super block is ever held while another   *)
(* task runs, and a system call is one step.  The buffer cache is left out *)
(* (module BufferCache): blk and d_inode are what it would hand out.       *)
(*                                                                         *)
(* A block has CELLS cells, each a number with a name.  A directory block  *)
(* holds entries, a block of zone numbers uses the numbers only, and a     *)
(* cell of a data block is a stretch of bytes; sizes and positions count   *)
(* cells.  Blocks are numbered from the first data zone on, so the number  *)
(* of a block is that of its bit in the zone map.                          *)
(***************************************************************************)
EXTENDS Integers, Sequences, FiniteSets, FiniteSetsExt, SequencesExt, TLC

CONSTANTS
  NR_INODE,   \* entries of inode_table
  NINODES,    \* inodes of the file system (s_ninodes)
  ZONES,      \* its data zones
  ZBITS,      \* bits of the zone map, more than there are zones (8192)
  DIRECT,     \* zone numbers in the inode itself (7)
  LINKS,      \* the values of i_nlinks, an unsigned char (256)
  CELLS       \* cells of a block

ASSUME InodeConstants ==
  /\ NR_INODE \in Nat \ {0} /\ NINODES \in Nat \ {0} /\ ZONES \in Nat
  /\ ZBITS \in Nat /\ ZBITS > ZONES /\ DIRECT \in Nat \ {0} /\ LINKS \in Nat /\ LINKS > 2
  /\ CELLS \in Nat /\ CELLS > 2

Slots    == 1..NR_INODE
ROOT_INO == 1

(* The places of the zone numbers of the indirect blocks in i_zone. *)
IND  == DIRECT + 1
DIND == DIRECT + 2

Cell      == [n |-> 0, name |-> ""]
Zero      == [c \in 1..CELLS |-> Cell]
NoZones   == [z \in 1..DIND |-> 0]
EmptyInode ==
  [num |-> 0, mode |-> "none", nlinks |-> 0, size |-> 0, zone |-> NoZones,
   count |-> 0, dirt |-> FALSE, pipe |-> FALSE]

(* What struct d_inode has of an inode. *)
OnDisk(ip) == [mode |-> ip.mode, nlinks |-> ip.nlinks, size |-> ip.size, zone |-> ip.zone]

(* The state: inode_table, last_inode of get_empty_inode, the inodes on    *)
(* disk, the bits set in the two maps, the blocks, and the message of the  *)
(* panic() that has stopped the kernel.                                    *)
Fail(s, message) == IF s.panic = "" THEN [s EXCEPT !.panic = message] ELSE s

-----------------------------------------------------------------------------
write_inode(s, i) ==
  LET ip == s.inode[i] IN
  IF ~ip.dirt \/ ip.num = 0 THEN s
  ELSE [s EXCEPT !.d_inode[ip.num] = OnDisk(ip), !.inode[i].dirt = FALSE]

read_inode(s, i, nr) ==
  [s EXCEPT !.inode[i] = s.d_inode[nr] @@ [EmptyInode EXCEPT !.num = nr, !.count = 1]]

sync_inodes(s) == FoldSet(LAMBDA i, r : write_inode(r, i), s, {i \in Slots : ~s.inode[i].pipe})

(* get_empty_inode goes round the table from last_inode on. *)
Turn(s, k) == ((s.last_inode + k - 1) % NR_INODE) + 1

Unused(s) == {k \in Slots : s.inode[Turn(s, k)].count = 0}
Clean(s)  == {k \in Unused(s) : ~s.inode[Turn(s, k)].dirt}

TakeEntry(s, i, last) ==
  [s |-> [write_inode(s, i) EXCEPT !.inode[i] = [EmptyInode EXCEPT !.count = 1],
                                   !.last_inode = last],
   i |-> i]

get_empty_inode(s) ==
  IF Clean(s) # {} THEN TakeEntry(s, Turn(s, Min(Clean(s))), Turn(s, Min(Clean(s))))
  ELSE IF Unused(s) # {} THEN TakeEntry(s, Turn(s, Max(Unused(s))), s.last_inode)
  ELSE [s |-> Fail(s, "No free inodes in mem"), i |-> 1]

(* The page of a pipe is not modelled here (module Memory). *)
Pipe(e) == [e EXCEPT !.s.inode[e.i].count = 2, !.s.inode[e.i].pipe = TRUE]

get_pipe_inode(s) == Pipe(get_empty_inode(s))

-----------------------------------------------------------------------------
(* Zones. *)

(* Faulty variant of free_block: the bit stays set. *)
forget_block(s, b) == s

free_block(s, b) ==
  IF b \notin 1..ZONES THEN Fail(s, "trying to free block not in datazone")
  ELSE IF b \notin s.zmap THEN Fail(s, "free_block: bit already cleared")
  ELSE [s EXCEPT !.zmap = @ \ {b}]

(* Faulty variant of Cleared: only a part of every cell. *)
HalfCleared(block) == [c \in 1..CELLS |-> [block[c] EXCEPT !.n = 0]]

(* clear_block *)
Cleared(block) == Zero

(* The bit is set before the number is found to be too large. *)
TakeBlock(s, b) ==
  IF b > ZONES THEN [s |-> [s EXCEPT !.zmap = @ \cup {b}], b |-> 0]
  ELSE [s |-> [s EXCEPT !.zmap = @ \cup {b}, !.blk[b] = Cleared(@)], b |-> b]

new_block(s) ==
  IF 1..ZBITS \subseteq s.zmap THEN [s |-> s, b |-> 0]
  ELSE TakeBlock(s, Min(1..ZBITS \ s.zmap))

Numbers(s, b) == [c \in 1..CELLS |-> s.blk[b][c].n]
NonZero(seq)  == SelectSeq(seq, LAMBDA b : b # 0)

(* The blocks that free_ind, free_dind and truncate free, in their order. *)
free_ind(s, b) == IF b = 0 THEN << >> ELSE NonZero(Numbers(s, b)) \o <<b>>

free_dind(s, b) ==
  IF b = 0 THEN << >>
  ELSE FlattenSeq([c \in 1..CELLS |-> free_ind(s, Numbers(s, b)[c])]) \o <<b>>

Blocks(s, zone) ==
  NonZero(SubSeq(zone, 1, DIRECT)) \o free_ind(s, zone[IND]) \o free_dind(s, zone[DIND])

truncate(s, i) ==
  LET ip == s.inode[i] IN
  IF ip.mode \notin {"reg", "dir"} THEN s
  ELSE [FoldLeft(free_block, s, Blocks(s, ip.zone)) EXCEPT
          !.inode[i] = [ip EXCEPT !.zone = NoZones, !.size = 0, !.dirt = TRUE]]

(* _bmap without create: the zone numbers that lead to a block. *)
Follow(s, b, c) == IF b = 0 THEN 0 ELSE s.blk[b][c].n

bmap(s, i, block) ==
  LET zone == s.inode[i].zone
      ind  == block - DIRECT
      dind == ind - CELLS
  IN CASE block < DIRECT -> zone[block + 1]
       [] block >= DIRECT /\ ind < CELLS -> Follow(s, zone[IND], ind + 1)
       [] OTHER -> Follow(s, Follow(s, zone[DIND], (dind \div CELLS) + 1), (dind % CELLS) + 1)

(* _bmap with create: place z of i_zone, or cell c of the block at.b, with *)
(* a new block put there if it has none.                                   *)
SetZone(new, i, z) ==
  IF new.b = 0 THEN new
  ELSE [new EXCEPT !.s.inode[i].zone[z] = new.b, !.s.inode[i].dirt = TRUE]

Zone(s, i, z) ==
  IF s.inode[i].zone[z] # 0 THEN [s |-> s, b |-> s.inode[i].zone[z]]
  ELSE SetZone(new_block(s), i, z)

SetCell(new, b, c) == IF new.b = 0 THEN new ELSE [new EXCEPT !.s.blk[b][c].n = new.b]

Entry(at, c) ==
  IF at.b = 0 THEN at
  ELSE IF at.s.blk[at.b][c].n # 0 THEN [at EXCEPT !.b = at.s.blk[at.b][c].n]
  ELSE SetCell(new_block(at.s), at.b, c)

create_block(s, i, block) ==
  LET ind  == block - DIRECT
      dind == ind - CELLS
  IN CASE block < DIRECT -> Zone(s, i, block + 1)
       [] block >= DIRECT /\ ind < CELLS -> Entry(Zone(s, i, IND), ind + 1)
       [] ind >= CELLS /\ dind < CELLS * CELLS ->
            Entry(Entry(Zone(s, i, DIND), (dind \div CELLS) + 1), (dind % CELLS) + 1)
       [] OTHER -> [s |-> Fail(s, "_bmap: block>big"), b |-> 0]

-----------------------------------------------------------------------------
(* Inodes in use. *)

(* Faulty variant of free_inode: the caller's own reference counts too. *)
free_unused_inode(s, i) == Fail(s, "free_inode")

free_inode(s, i) ==
  IF s.inode[i].count > 1 THEN Fail(s, "free_inode")
  ELSE [s EXCEPT !.imap = @ \ {s.inode[i].num}, !.inode[i] = EmptyInode]

NewEntry(e, nr) ==
  [e EXCEPT !.s.imap = @ \cup {nr},
            !.s.inode[e.i] = [EmptyInode EXCEPT !.count = 1, !.nlinks = 1, !.dirt = TRUE, !.num = nr]]

Unneeded(e) == [s |-> [e.s EXCEPT !.inode[e.i].count = 0], i |-> 0]

new_inode(s) ==
  IF 1..NINODES \subseteq s.imap THEN Unneeded(get_empty_inode(s))
  ELSE NewEntry(get_empty_inode(s), Min(1..NINODES \ s.imap))

(* iput of entry i, which holds ip. *)
PutBack(s, i, ip) ==
  IF ip.count = 0 THEN Fail(s, "iput: trying to free free inode")
  ELSE IF ip.pipe /\ ip.count = 1
    THEN [s EXCEPT !.inode[i] = [ip EXCEPT !.count = 0, !.dirt = FALSE, !.pipe = FALSE]]
  ELSE IF ip.pipe \/ ip.num = 0 \/ ip.count > 1 THEN [s EXCEPT !.inode[i].count = @ - 1]
  ELSE IF ip.nlinks = 0 THEN free_inode(truncate(s, i), i)
  ELSE [write_inode(s, i) EXCEPT !.inode[i].count = @ - 1]

iput(s, i) == IF i = 0 THEN s ELSE PutBack(s, i, s.inode[i])

Read(e, nr) == [s |-> read_inode(e.s, e.i, nr), i |-> e.i]

Share(e, i) == [s |-> iput([e.s EXCEPT !.inode[i].count = @ + 1], e.i), i |-> i]

(* Faulty variant of Find: the table is not searched. *)
FindNone(s, nr) == {}

Find(s, nr) == {i \in Slots : s.inode[i].num = nr}

(* A free entry is taken even if the inode is in the table already. *)
Load(e, nr) == IF Find(e.s, nr) = {} THEN Read(e, nr) ELSE Share(e, Min(Find(e.s, nr)))

iget(s, nr) == Load(get_empty_inode(s), nr)
=============================================================================
