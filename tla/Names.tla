-------------------------------- MODULE Names --------------------------------
(***************************************************************************)
(* Directories and path names: fs/namei.c, on top of the inodes of module  *)
(* Inode.  An operator takes the state of the file system, the directories *)
(* me = [root, pwd] of the calling task, and its arguments.                *)
(*                                                                         *)
(* A path is what the scans for '/' find in it: whether it starts with     *)
(* one, the names that one follows, and what comes after the last, "" if   *)
(* nothing does.  All tasks run as the super-user, as in this system, so   *)
(* permission() only refuses deleted files.                                *)
(***************************************************************************)
EXTENDS Inode

NoEntry == -1

permission(ip) == ip.num = 0 \/ ip.nlinks # 0

(* The cell at position p of a file, and its block. *)
BlockAt(s, i, p) == bmap(s, i, p \div CELLS)
CellAt(s, i, p)  == s.blk[BlockAt(s, i, p)][(p % CELLS) + 1]

First(positions) == IF positions = {} THEN NoEntry ELSE Min(positions)

(* The position of the entry for a name in directory i. *)
find_entry(s, me, i, name) ==
  LET wanted == IF name = ".." /\ i = me.root THEN "." ELSE name IN
  IF name = "" \/ s.inode[i].zone[1] = 0 THEN NoEntry
  ELSE First({p \in 0..(s.inode[i].size - 1) :
                /\ BlockAt(s, i, p) # 0
                /\ CellAt(s, i, p).n # 0 /\ CellAt(s, i, p).name = wanted})

SetEntry(s, i, p, nr) == [s EXCEPT !.blk[BlockAt(s, i, p)][(p % CELLS) + 1].n = nr]

(* A free entry or one more at the end, with the name and no number yet. *)
Grown(s, i, p) ==
  IF p < s.inode[i].size THEN s
  ELSE [s EXCEPT !.inode[i].size = p + 1, !.inode[i].dirt = TRUE]

Named(c, i, p, name) ==
  IF c.b = 0 THEN [s |-> c.s, p |-> NoEntry]
  ELSE [s |-> [Grown(c.s, i, p) EXCEPT !.blk[c.b][(p % CELLS) + 1] = [n |-> 0, name |-> name]],
        p |-> p]

AddAt(s, i, p, name) == Named(create_block(s, i, p \div CELLS), i, p, name)

add_entry(s, i, name) ==
  LET size == s.inode[i].size IN
  IF name = "" \/ s.inode[i].zone[1] = 0 THEN [s |-> s, p |-> NoEntry]
  ELSE AddAt(s, i, Min({p \in 0..(size - 1) : CellAt(s, i, p).n = 0} \cup {size}), name)

-----------------------------------------------------------------------------
Searchable(s, i) == s.inode[i].mode = "dir" /\ permission(s.inode[i])

Nothing(s) == [s |-> s, i |-> 0]

(* Everything of the path has been released: an error. *)
Leave(dir) == Nothing(iput(dir.s, dir.i))

(* The inode that entry p of a directory names, for the directory itself. *)
Enter(dir, p) ==
  IF p = NoEntry THEN Leave(dir) ELSE iget(iput(dir.s, dir.i), CellAt(dir.s, dir.i, p).n)

(* get_dir: one turn of its loop, into the directory called name. *)
Descend(me, at, name) ==
  IF at.i = 0 THEN at
  ELSE IF ~Searchable(at.s, at.i) THEN Leave(at)
  ELSE Enter(at, find_entry(at.s, me, at.i, name))

Arrive(at) == IF at.i # 0 /\ ~Searchable(at.s, at.i) THEN Leave(at) ELSE at

Walk(s, me, from, dirs) ==
  FoldLeft(LAMBDA at, name : Descend(me, at, name),
           [s |-> [s EXCEPT !.inode[from].count = @ + 1], i |-> from], dirs)

get_dir(s, me, path) ==
  IF ~path.abs /\ path.dirs = << >> /\ path.last = "" THEN Nothing(s)
  ELSE Arrive(Walk(s, me, IF path.abs THEN me.root ELSE me.pwd, path.dirs))

(* dir_namei also gives the last name, which is path.last here. *)
dir_namei(s, me, path) == get_dir(s, me, path)

Touched(ino) == IF ino.i = 0 THEN ino ELSE [ino EXCEPT !.s.inode[ino.i].dirt = TRUE]

NameIn(dir, me, last) ==
  IF dir.i = 0 \/ last = "" THEN dir
  ELSE Touched(Enter(dir, find_entry(dir.s, me, dir.i, last)))

namei(s, me, path) == NameIn(dir_namei(s, me, path), me, path.last)

Put(s, i, j) == iput(iput(s, i), j)

(* A new inode that stays without a name is given up again. *)
Discard(s, i) == iput([s EXCEPT !.inode[i].nlinks = 0], i)

(* open_namei, from its end: the entry for a new file has been added; the  *)
(* new inode has been found; an old one has been; the directory has been.  *)
(* The result is the inode, or i = 0 for an error.                         *)
OpenAdded(entry, dir, new, nr) ==
  IF entry.p = NoEntry THEN Leave([s |-> Discard(entry.s, new), i |-> dir])
  ELSE [s |-> iput(SetEntry(entry.s, dir, entry.p, nr), dir), i |-> new]

OpenNew(new, dir, last) ==
  IF new.i = 0 THEN Leave([s |-> new.s, i |-> dir])
  ELSE OpenAdded(add_entry([new.s EXCEPT !.inode[new.i].mode = "reg"], dir, last),
                 dir, new.i, new.s.inode[new.i].num)

Writes(flag) == flag \cap {"O_WRONLY", "O_TRUNC"} # {}

OpenOld(old, flag) ==
  LET ip == old.s.inode[old.i] IN
  IF (ip.mode = "dir" /\ Writes(flag)) \/ ~permission(ip) THEN Leave(old)
  ELSE IF "O_TRUNC" \in flag THEN [old EXCEPT !.s = truncate(old.s, old.i)]
  ELSE old

OpenIn(dir, p, last, flag) ==
  IF dir.i = 0 THEN dir
  ELSE IF last = "" THEN IF Writes(flag) \/ "O_CREAT" \in flag THEN Leave(dir) ELSE dir
  ELSE IF p = NoEntry
    THEN IF "O_CREAT" \notin flag \/ ~permission(dir.s.inode[dir.i]) THEN Leave(dir)
         ELSE OpenNew(new_inode(dir.s), dir.i, last)
  ELSE IF "O_EXCL" \in flag THEN Leave(dir)
  ELSE OpenOld(Enter(dir, p), flag)

OpenFrom(dir, me, last, flag) == OpenIn(dir, find_entry(dir.s, me, dir.i, last), last, flag)

open_namei(s, me, path, flag) == OpenFrom(dir_namei(s, me, path), me, path.last, flag)

-----------------------------------------------------------------------------
(* The start of sys_mknod, sys_mkdir, sys_rmdir and sys_unlink: the        *)
(* directory of the path, i = 0 and everything released for an error.      *)
Allowed(dir, last) ==
  IF dir.i # 0 /\ (last = "" \/ ~permission(dir.s.inode[dir.i])) THEN Leave(dir) ELSE dir

Parent(s, me, path) == Allowed(dir_namei(s, me, path), path.last)

(* sys_mknod, again from its end. *)
MknodAdded(entry, dir, new) ==
  IF entry.p = NoEntry THEN Discard(iput(entry.s, dir), new)
  ELSE Put(SetEntry(entry.s, dir, entry.p, entry.s.inode[new].num), dir, new)

MknodMade(s, i, mode, dev) ==
  [s EXCEPT !.inode[i].mode = mode, !.inode[i].zone[1] = IF mode = "chr" THEN dev ELSE @]

MknodNew(new, dir, last, mode, dev) ==
  IF new.i = 0 THEN iput(new.s, dir)
  ELSE MknodAdded(add_entry(MknodMade(new.s, new.i, mode, dev), dir, last), dir, new.i)

MknodIn(dir, me, last, mode, dev) ==
  IF dir.i = 0 THEN dir.s
  ELSE IF find_entry(dir.s, me, dir.i, last) # NoEntry THEN iput(dir.s, dir.i)
  ELSE MknodNew(new_inode(dir.s), dir.i, last, mode, dev)

mknod(s, me, path, mode, dev) == MknodIn(Parent(s, me, path), me, path.last, mode, dev)

(* The first block of a new directory. *)
Dots(nr, up) ==
  [Zero EXCEPT ![1] = [n |-> nr, name |-> "."], ![2] = [n |-> up, name |-> ".."]]

(* Faulty variant of Linked: the parent does not count "..". *)
LinkedOnce(s, i) == [s EXCEPT !.inode[i].dirt = TRUE]

Linked(s, i) == [s EXCEPT !.inode[i].nlinks = (@ + 1) % LINKS, !.inode[i].dirt = TRUE]

(* sys_mkdir, from its end. *)
MkdirAdded(entry, dir, new, zone) ==
  IF entry.p = NoEntry THEN Discard(free_block(iput(entry.s, dir), zone), new)
  ELSE Put(Linked(SetEntry(entry.s, dir, entry.p, entry.s.inode[new].num), dir), dir, new)

MkdirMade(s, dir, new, zone) ==
  [s EXCEPT !.inode[new].zone[1] = zone, !.inode[new].nlinks = 2, !.inode[new].mode = "dir",
            !.blk[zone] = Dots(s.inode[new].num, s.inode[dir].num)]

MkdirBlock(zone, dir, new, last) ==
  IF zone.b = 0 THEN Discard(iput(zone.s, dir), new)
  ELSE MkdirAdded(add_entry(MkdirMade(zone.s, dir, new, zone.b), dir, last), dir, new, zone.b)

MkdirNew(new, dir, last) ==
  IF new.i = 0 THEN iput(new.s, dir)
  ELSE MkdirBlock(new_block([new.s EXCEPT !.inode[new.i].size = 2]), dir, new.i, last)

MkdirIn(dir, me, last) ==
  IF dir.i = 0 THEN dir.s
  ELSE IF find_entry(dir.s, me, dir.i, last) # NoEntry THEN iput(dir.s, dir.i)
  ELSE MkdirNew(new_inode(dir.s), dir.i, last)

mkdir(s, me, path) == MkdirIn(Parent(s, me, path), me, path.last)

empty_dir(s, i) ==
  LET ip == s.inode[i] IN
  /\ ip.size >= 2 /\ ip.zone[1] # 0
  /\ CellAt(s, i, 0) = [n |-> ip.num, name |-> "."]
  /\ CellAt(s, i, 1).n # 0 /\ CellAt(s, i, 1).name = ".."
  /\ \A p \in 2..(ip.size - 1) : BlockAt(s, i, p) # 0 => CellAt(s, i, p).n = 0

(* The tests of sys_rmdir on the directory to remove. *)
Removable(s, dir, i) ==
  s.inode[i].count = 1 /\ i # dir /\ s.inode[i].mode = "dir" /\ empty_dir(s, i)

(* sys_rmdir: the directory to remove, named by entry p of dir, is ino. *)
RmdirFound(ino, dir, p) ==
  IF ~Removable(ino.s, dir, ino.i) THEN Put(ino.s, dir, ino.i)
  ELSE Put([SetEntry(ino.s, dir, p, 0) EXCEPT
              !.inode[ino.i].nlinks = 0, !.inode[ino.i].dirt = TRUE,
              !.inode[dir].nlinks = (@ - 1) % LINKS, !.inode[dir].dirt = TRUE], dir, ino.i)

RmdirAt(dir, p) ==
  IF p = NoEntry THEN iput(dir.s, dir.i)
  ELSE RmdirFound(iget(dir.s, CellAt(dir.s, dir.i, p).n), dir.i, p)

RmdirIn(dir, me, last) ==
  IF dir.i = 0 THEN dir.s ELSE RmdirAt(dir, find_entry(dir.s, me, dir.i, last))

rmdir(s, me, path) == RmdirIn(Parent(s, me, path), me, path.last)

(* sys_unlink, in the same way. *)
UnlinkFound(ino, dir, p) ==
  IF ino.s.inode[ino.i].mode = "dir" THEN Put(ino.s, ino.i, dir)
  ELSE Put([SetEntry(ino.s, dir, p, 0) EXCEPT
              !.inode[ino.i].nlinks = Max({@ - 1, 0}), !.inode[ino.i].dirt = TRUE], ino.i, dir)

UnlinkAt(dir, p) ==
  IF p = NoEntry THEN iput(dir.s, dir.i)
  ELSE UnlinkFound(iget(dir.s, CellAt(dir.s, dir.i, p).n), dir.i, p)

UnlinkIn(dir, me, last) ==
  IF dir.i = 0 THEN dir.s ELSE UnlinkAt(dir, find_entry(dir.s, me, dir.i, last))

unlink(s, me, path) == UnlinkIn(Parent(s, me, path), me, path.last)

(* sys_link: old is the inode that gets another name. *)
LinkAdded(entry, dir, old) ==
  IF entry.p = NoEntry THEN Put(entry.s, dir, old)
  ELSE iput(Linked(iput(SetEntry(entry.s, dir, entry.p, entry.s.inode[old].num), dir), old), old)

LinkIn(dir, old, me, last) ==
  IF dir.i = 0 THEN iput(dir.s, old)
  ELSE IF \/ last = "" \/ ~permission(dir.s.inode[dir.i])
          \/ find_entry(dir.s, me, dir.i, last) # NoEntry
    THEN Put(dir.s, dir.i, old)
  ELSE LinkAdded(add_entry(dir.s, dir.i, last), dir.i, old)

LinkOld(old, me, new) ==
  IF old.i = 0 THEN old.s
  ELSE IF old.s.inode[old.i].mode = "dir" THEN iput(old.s, old.i)
  ELSE LinkIn(dir_namei(old.s, me, new), old.i, me, new.last)

link(s, me, path, new) == LinkOld(namei(s, me, path), me, new)
=============================================================================
