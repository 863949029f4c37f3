-------------------------------- MODULE Files --------------------------------
(***************************************************************************)
(* The system calls on files: fs/open.c, fs/fcntl.c, fs/read_write.c,      *)
(* fs/file_dev.c, fs/stat.c, sys_pipe, and what fork, exec and exit do     *)
(* with a task's files and directories, on top of modules Inode and Names. *)
(*                                                                         *)
(* The kernel is not preemptive and the ram disk never makes a task wait,  *)
(* so each call is one step; the tasks' calls interleave freely.  Reading  *)
(* and writing a pipe or a terminal is left to modules Pipe and Tty.       *)
(***************************************************************************)
EXTENDS Names

CONSTANTS
  NTASKS,     \* tasks; the first is init, which never exits
  NR_OPEN,    \* files a task can have open
  NR_FILE,    \* entries of file_table
  RootDirs,   \* the directories mkfs puts into the root directory
  NoTty,      \* the tasks without a terminal
  Does,       \* the calls each task makes
  Paths,      \* path names the tasks use
  Flags,      \* sets of flags they open files with
  Nodes,      \* modes and devices they make nodes of
  Offsets,    \* where they seek to
  Counts,     \* how much they read and write
  MaxPos,     \* bound: the furthest position sought
  MaxCalls    \* bound: the number of calls

Tasks == 1..NTASKS
Fds   == 0..(NR_OPEN - 1)
Files == 1..NR_FILE

ASSUME FilesConstants ==
  /\ NTASKS \in Nat \ {0} /\ NR_OPEN \in Nat \ {0} /\ NR_FILE \in Nat \ {0}
  /\ Len(RootDirs) <= CELLS - 2 /\ Len(RootDirs) < NINODES /\ Len(RootDirs) < ZONES
  /\ Offsets \subseteq Int /\ Counts \subseteq Nat /\ MaxPos \in Nat /\ MaxCalls \in Nat

VARIABLES
  fs,           \* the file system (module Inode)
  file_table,   \* count, inode, position and O_APPEND of every open file
  task,         \* root, pwd, filp and close_on_exec of every task
  calls         \* the number of calls so far

vars == <<fs, file_table, task, calls>>

-----------------------------------------------------------------------------
(* The image that mkfs writes, and mount_root.  A file whose f_count is 0  *)
(* is shown as NoFile: its other fields are set before they are read.      *)

NoFile == [count |-> 0, inode |-> 0, pos |-> 0, append |-> FALSE]
NoTask == [root |-> 0, pwd |-> 0, filp |-> [fd \in Fds |-> 0], close_on_exec |-> {}]

(* add_dir: two links, whatever directories come to be inside. *)
add_dir(z, size) ==
  [mode |-> "dir", nlinks |-> 2, size |-> size, zone |-> [NoZones EXCEPT ![1] = z]]

mkfs ==
  LET dirs  == Len(RootDirs)
      inner == [c \in 1..CELLS |-> IF c - 2 \in 1..dirs
                                   THEN [n |-> c - 1, name |-> RootDirs[c - 2]] ELSE Cell]
      root  == [c \in 1..CELLS |-> IF c <= 2 THEN Dots(ROOT_INO, ROOT_INO)[c] ELSE inner[c]]
  IN [inode   |-> [i \in Slots |-> EmptyInode], last_inode |-> 1,
      d_inode |-> [nr \in 1..NINODES |->
                     CASE nr = ROOT_INO -> add_dir(1, 2 + dirs)
                       [] nr \in 2..(dirs + 1) -> add_dir(nr, 2)
                       [] OTHER -> OnDisk(EmptyInode)],
      imap    |-> 1..(dirs + 1), zmap |-> 1..(dirs + 1),
      blk     |-> [b \in 1..ZONES |-> CASE b = 1 -> root
                                         [] b \in 2..(dirs + 1) -> Dots(b, ROOT_INO)
                                         [] OTHER -> Zero],
      panic   |-> ""]

(* Two of the four references are the super block's s_isup and s_imount. *)
mount_root ==
  LET mi == iget(mkfs, ROOT_INO) IN
  [mi EXCEPT !.s.inode[mi.i].count = 4]

Init ==
  /\ fs = mount_root.s
  /\ file_table = [f \in Files |-> NoFile]
  /\ task = [t \in Tasks |-> IF t = 1 THEN [NoTask EXCEPT !.root = mount_root.i,
                                                          !.pwd = mount_root.i]
                             ELSE NoTask]
  /\ calls = 0

-----------------------------------------------------------------------------
(* A call by task t may start, and ends in the world w, or in a panic that *)
(* stops the kernel where it was.                                          *)
Calls(t, call) == fs.panic = "" /\ task[t].root # 0 /\ call \in Does[t] /\ calls < MaxCalls

World == [fs |-> fs, file |-> file_table, task |-> task]

Ends(w) ==
  /\ calls' = calls + 1
  /\ IF w.fs.panic # ""
     THEN fs' = [fs EXCEPT !.panic = w.fs.panic] /\ UNCHANGED <<file_table, task>>
     ELSE fs' = w.fs /\ file_table' = w.file /\ task' = w.task

(* The call only changes the file system. *)
Returns(s) == Ends([World EXCEPT !.fs = s])

(* Free descriptors of a task, free files, and the file of a descriptor. *)
FreeFds(w, t) == {fd \in Fds : w.task[t].filp[fd] = 0}
FreeFiles(w)  == {f \in Files : w.file[f].count = 0}
File(t, fd)   == file_table[task[t].filp[fd]]
FileInode(t, fd) == fs.inode[File(t, fd).inode]
IsOpen(t, fd) == task[t].filp[fd] # 0

(* Faulty variant of close: the bit of close_on_exec stays. *)
close_marked(w, t, fd) ==
  LET f == w.task[t].filp[fd] IN
  IF f = 0 THEN w
  ELSE IF w.file[f].count > 1 THEN [w EXCEPT !.task[t].filp[fd] = 0, !.file[f].count = @ - 1]
  ELSE [w EXCEPT !.task[t].filp[fd] = 0, !.file[f] = NoFile, !.fs = iput(@, w.file[f].inode)]

close(w, t, fd) ==
  LET f == w.task[t].filp[fd]
      c == [w EXCEPT !.task[t].close_on_exec = @ \ {fd}]
  IN IF f = 0 THEN c
     ELSE IF w.file[f].count > 1
       THEN [c EXCEPT !.task[t].filp[fd] = 0, !.file[f].count = @ - 1]
     ELSE [c EXCEPT !.task[t].filp[fd] = 0, !.file[f] = NoFile,
                    !.fs = iput(@, w.file[f].inode)]

dupfd(w, t, fd, arg) ==
  LET f    == w.task[t].filp[fd]
      free == {a \in FreeFds(w, t) : a >= arg}
  IN IF f = 0 \/ free = {} THEN w
     ELSE [w EXCEPT !.task[t].filp[Min(free)] = f, !.file[f].count = @ + 1,
                    !.task[t].close_on_exec = @ \ {Min(free)}]

-----------------------------------------------------------------------------
(* Opening and closing. *)

(* /dev/tty, major 5, is refused to a task without a terminal. *)
Refused(t, s, i) == s.inode[i].mode = "chr" /\ s.inode[i].zone[1] = 5 /\ t \in NoTty

(* Opening major 4 may also give a session leader its terminal (module     *)
(* Process).                                                               *)
Opened(c, t, o, fd, f) ==
  IF o.i = 0 THEN [c EXCEPT !.fs = o.s]
  ELSE IF Refused(t, o.s, o.i) THEN [c EXCEPT !.fs = iput(o.s, o.i)]
  ELSE [c EXCEPT !.fs = o.s, !.task[t].filp[fd] = f,
                 !.file[f] = [NoFile EXCEPT !.count = 1, !.inode = o.i]]

OpenFd(c, t, fd, path, flag) ==
  IF FreeFiles(c) = {} THEN c
  ELSE Opened(c, t, open_namei(fs, task[t], path, flag), fd, Min(FreeFiles(c)))

open(t, path, flag) ==
  LET fd == Min(FreeFds(World, t)) IN
  IF FreeFds(World, t) = {} THEN World
  ELSE OpenFd([World EXCEPT !.task[t].close_on_exec = @ \ {fd}], t, fd, path, flag)

sys_open(t) ==
  /\ Calls(t, "open")
  /\ \E path \in Paths, flag \in Flags : Ends(open(t, path, flag))

sys_creat(t) ==
  /\ Calls(t, "creat")
  /\ \E path \in Paths : Ends(open(t, path, {"O_CREAT", "O_TRUNC"}))

sys_close(t) ==
  /\ Calls(t, "close")
  /\ \E fd \in Fds : Ends(close(World, t, fd))

sys_pipe(t) ==
  LET f0  == Min(FreeFiles(World))
      f1  == Min(FreeFiles(World) \ {f0})
      fd0 == Min(FreeFds(World, t))
      fd1 == Min(FreeFds(World, t) \ {fd0})
      p   == get_pipe_inode(fs)
      end == [NoFile EXCEPT !.count = 1, !.inode = p.i]
  IN /\ Calls(t, "pipe")
     /\ IF Cardinality(FreeFiles(World)) < 2 \/ Cardinality(FreeFds(World, t)) < 2
        THEN Ends(World)
        ELSE Ends([World EXCEPT !.fs = p.s, !.file[f0] = end, !.file[f1] = end,
                                !.task[t].filp[fd0] = f0, !.task[t].filp[fd1] = f1])

-----------------------------------------------------------------------------
(* Descriptors. *)

sys_dup(t) ==
  /\ Calls(t, "dup")
  /\ \E fd \in Fds : Ends(dupfd(World, t, fd, 0))

(* dup2(fd, fd) closes fd. *)
sys_dup2(t) ==
  /\ Calls(t, "dup2")
  /\ \E old, new \in Fds : Ends(dupfd(close(World, t, new), t, old, new))

sys_fcntl(t) ==
  /\ Calls(t, "fcntl")
  /\ \E fd \in Fds :
       /\ IsOpen(t, fd)
       /\ \/ \E arg \in Fds : Ends(dupfd(World, t, fd, arg))                    \* F_DUPFD
          \/ Ends([World EXCEPT !.task[t].close_on_exec = @ \cup {fd}])         \* F_SETFD
          \/ Ends([World EXCEPT !.task[t].close_on_exec = @ \ {fd}])
          \/ \E on \in BOOLEAN :                                                \* F_SETFL
               Ends([World EXCEPT !.file[task[t].filp[fd]].append = on])

(* A pipe has no device, so it cannot be sought. *)
sys_lseek(t) ==
  /\ Calls(t, "lseek")
  /\ \E fd \in Fds, offset \in Offsets :
       /\ IsOpen(t, fd)
       /\ ~FileInode(t, fd).pipe
       /\ \E from \in {0, File(t, fd).pos, FileInode(t, fd).size} :
            /\ from + offset \in 0..MaxPos
            /\ Ends([World EXCEPT !.file[task[t].filp[fd]].pos = from + offset])

-----------------------------------------------------------------------------
(* Reading and writing. *)

sys_read(t) ==
  /\ Calls(t, "read")
  /\ \E fd \in Fds, count \in Counts :
       LET f == File(t, fd) IN
       /\ IsOpen(t, fd)
       /\ FileInode(t, fd).mode \in {"reg", "dir"}
       /\ f.pos < FileInode(t, fd).size
       /\ Ends([World EXCEPT !.file[task[t].filp[fd]].pos =
                  Min({f.pos + count, FileInode(t, fd).size})])

(* One cell of file_write; the file is full once no block can be had.      *)
Written(c, i, p, value) ==
  IF c.b = 0 THEN [s |-> c.s, pos |-> p, full |-> TRUE]
  ELSE [s |-> [Grown(c.s, i, p) EXCEPT !.blk[c.b][(p % CELLS) + 1] = value],
        pos |-> p + 1, full |-> FALSE]

WriteCell(w, i, p, value) ==
  IF w.full THEN w ELSE Written(create_block(w.s, i, p \div CELLS), i, p, value)

(* What a task writes to a file shows whose bytes they are. *)
Byte(nr) == [n |-> nr, name |-> ""]

file_write(s, f, count) ==
  LET i    == f.inode
      from == IF f.append THEN s.inode[i].size ELSE f.pos
  IN FoldLeft(LAMBDA w, k : WriteCell(w, i, w.pos, Byte(s.inode[i].num)),
              [s |-> s, pos |-> from, full |-> FALSE], [k \in 1..count |-> k])

WriteEnds(t, f, w) ==
  Ends([World EXCEPT !.fs = w.s, !.file[f].pos = IF file_table[f].append THEN @ ELSE w.pos])

sys_write(t) ==
  /\ Calls(t, "write")
  /\ \E fd \in Fds, count \in Counts :
       /\ IsOpen(t, fd)
       /\ FileInode(t, fd).mode = "reg"
       /\ WriteEnds(t, task[t].filp[fd], file_write(fs, File(t, fd), count))

-----------------------------------------------------------------------------
(* Names. *)

sys_mknod(t) ==
  /\ Calls(t, "mknod")
  /\ \E path \in Paths, node \in Nodes : Returns(mknod(fs, task[t], path, node.mode, node.dev))

sys_mkdir(t) ==
  /\ Calls(t, "mkdir")
  /\ \E path \in Paths : Returns(mkdir(fs, task[t], path))

sys_rmdir(t) ==
  /\ Calls(t, "rmdir")
  /\ \E path \in Paths : Returns(rmdir(fs, task[t], path))

sys_unlink(t) ==
  /\ Calls(t, "unlink")
  /\ \E path \in Paths : Returns(unlink(fs, task[t], path))

sys_link(t) ==
  /\ Calls(t, "link")
  /\ \E path, new \in Paths : Returns(link(fs, task[t], path, new))

(* Look an inode up, use or change what the model leaves out, release it. *)
sys_stat(ino)   == Returns(iput(ino.s, ino.i))
sys_access(ino) == Returns(iput(ino.s, ino.i))
sys_chmod(ino)  == Returns(iput(ino.s, ino.i))
sys_chown(ino)  == Returns(iput(ino.s, ino.i))
sys_utime(ino)  == Returns(iput(ino.s, ino.i))

Uses(ino) ==
  \/ sys_stat(ino) \/ sys_access(ino) \/ sys_chmod(ino) \/ sys_chown(ino) \/ sys_utime(ino)

ByName(t) ==
  /\ Calls(t, "stat")
  /\ \E path \in Paths : Uses(namei(fs, task[t], path))

(* The directory that a path names, or i = 0. *)
OnlyDir(ino) ==
  IF ino.i # 0 /\ ino.s.inode[ino.i].mode # "dir" THEN Leave(ino) ELSE ino

ChdirTo(t, dir) ==
  IF dir.i = 0 THEN Returns(dir.s)
  ELSE Ends([World EXCEPT !.fs = iput(dir.s, task[t].pwd), !.task[t].pwd = dir.i])

sys_chdir(t) ==
  /\ Calls(t, "chdir")
  /\ \E path \in Paths : ChdirTo(t, OnlyDir(namei(fs, task[t], path)))

ChrootTo(t, dir) ==
  IF dir.i = 0 THEN Returns(dir.s)
  ELSE Ends([World EXCEPT !.fs = iput(dir.s, task[t].root), !.task[t].root = dir.i])

sys_chroot(t) ==
  /\ Calls(t, "chroot")
  /\ \E path \in Paths : ChrootTo(t, OnlyDir(namei(fs, task[t], path)))

sys_sync(t) ==
  /\ Calls(t, "sync")
  /\ Returns(sync_inodes(fs))

-----------------------------------------------------------------------------
(* Tasks. *)

(* The files of p->filp are counted once more. *)
Shared(t) == [f \in Files |->
  [file_table[f] EXCEPT !.count = @ + Cardinality({fd \in Fds : task[t].filp[fd] = f})]]

(* Faulty variant of Inherited: the child's root is not counted. *)
OnlyPwd(t) == [fs EXCEPT !.inode[task[t].pwd].count = @ + 1]

Inherited(t) == [[fs EXCEPT !.inode[task[t].pwd].count = @ + 1] EXCEPT
                   !.inode[task[t].root].count = @ + 1]

sys_fork(t) ==
  /\ Calls(t, "fork")
  /\ \E u \in Tasks :
       /\ task[u].root = 0
       /\ Ends([fs |-> Inherited(t), file |-> Shared(t), task |-> [task EXCEPT ![u] = task[t]]])

PutInode(w, i) == [w EXCEPT !.fs = iput(@, i)]

CloseOnExec(w, t) == FoldSet(LAMBDA fd, v : close(v, t, fd), w, task[t].close_on_exec)

(* do_execve; whether a regular file is a program, and fits, is left open. *)
Execve(t, ino, runs) ==
  IF ino.i = 0 THEN Returns(ino.s)
  ELSE IF ~runs \/ ino.s.inode[ino.i].mode # "reg" THEN Returns(iput(ino.s, ino.i))
  ELSE Ends(PutInode(CloseOnExec([World EXCEPT !.fs = ino.s], t), ino.i))

sys_execve(t) ==
  /\ Calls(t, "execve")
  /\ \E path \in Paths, runs \in BOOLEAN : Execve(t, namei(fs, task[t], path), runs)

do_exit(t) ==
  LET w == FoldSet(LAMBDA fd, v : close(v, t, fd), World, Fds) IN
  /\ Calls(t, "exit")
  /\ t # 1
  /\ Ends([w EXCEPT !.fs = Put(@, task[t].pwd, task[t].root), !.task[t] = NoTask])

Next ==
  \E t \in Tasks :
    \/ sys_open(t)   \/ sys_creat(t)  \/ sys_close(t) \/ sys_pipe(t)
    \/ sys_dup(t)    \/ sys_dup2(t)   \/ sys_fcntl(t) \/ sys_lseek(t)
    \/ sys_read(t)   \/ sys_write(t)
    \/ sys_mknod(t)  \/ sys_mkdir(t)  \/ sys_rmdir(t) \/ sys_unlink(t) \/ sys_link(t)
    \/ ByName(t)    \/ sys_chdir(t)  \/ sys_chroot(t) \/ sys_sync(t)
    \/ sys_fork(t)   \/ sys_execve(t) \/ do_exit(t)

Spec == Init /\ [][Next]_vars

(* What tells two states apart, but for the bound. *)
Seen == <<fs, file_table, task>>

-----------------------------------------------------------------------------
(* An inode that the map shows in use, as the kernel sees it: in the table *)
(* if it is there, else on disk.                                           *)
Slot(nr)    == {i \in Slots : fs.inode[i].num = nr}
Current(nr) == IF Slot(nr) = {} THEN fs.d_inode[nr] ELSE OnDisk(fs.inode[Min(Slot(nr))])

OwnBlocks(nr) == IF Current(nr).mode \in {"reg", "dir"} THEN Blocks(fs, Current(nr).zone) ELSE << >>

(* The values of the variables; only open descriptors are to be closed by  *)
(* exec, as open, close and dupfd clear the bit of the one they set.       *)
TypeOK ==
  /\ \A i \in Slots :
       LET ip == fs.inode[i] IN
       /\ ip.num \in 0..NINODES /\ ip.mode \in {"none", "reg", "dir", "chr"}
       /\ ip.nlinks \in 0..(LINKS - 1) /\ ip.size \in Nat /\ ip.count \in Nat
  /\ fs.imap \subseteq 1..NINODES /\ fs.zmap \subseteq 1..ZBITS
  /\ \A f \in Files : file_table[f].inode \in 0..NR_INODE /\ file_table[f].pos \in Nat
  /\ \A t \in Tasks :
       /\ task[t].filp \in [Fds -> 0..NR_FILE]
       /\ task[t].close_on_exec \subseteq {fd \in Fds : task[t].filp[fd] # 0}

(* The entries of the directories in use that name inode nr: a directory  *)
(* and a position each.  CellOf reads an inode that may not be in memory.  *)
Directories   == {nr \in fs.imap : Current(nr).mode = "dir"}
CellOf(nr, p) == CellAt([fs EXCEPT !.inode[1].zone = Current(nr).zone], 1, p)
Entries(nr)   ==
  UNION {{d} \X {p \in 0..(Current(d).size - 1) : CellOf(d, p).n = nr} : d \in Directories}

(* The link count of an inode in use is the number of directory entries    *)
(* that name it, and every entry names an inode in use: open, mknod,       *)
(* mkdir, link, unlink and rmdir keep i_nlinks and the entries in step on  *)
(* every path, those that fail half-way included.  mkfs starts the root    *)
(* directory off too low by the directories it puts there.                 *)
LinksCounted ==
  /\ \A nr \in fs.imap :
       Current(nr).nlinks + (IF nr = ROOT_INO THEN Len(RootDirs) ELSE 0) = Cardinality(Entries(nr))
  /\ \A nr \in 1..NINODES \ fs.imap : Entries(nr) = {}

(* No block belongs to two inodes or twice to one, and the zone map shows  *)
(* exactly the blocks that belong to an inode: none leaks when a write, an *)
(* add_entry or a mkdir runs out of blocks, none is freed while in use.    *)
BlocksOwnedOnce ==
  LET all == FoldSet(LAMBDA nr, seq : OwnBlocks(nr) \o seq, << >>, fs.imap) IN
  IsInjective(all) /\ ToSet(all) = fs.zmap \cap 1..ZONES

(* i_count is the number of open files, working and root directories that  *)
(* refer to the inode, and the super block's two for the root; f_count is  *)
(* the number of descriptors that refer to the file, of whatever tasks:    *)
(* every path through namei.c puts back exactly the inodes it got.         *)
RefsCounted ==
  /\ \A i \in Slots :
       fs.inode[i].count = Cardinality({f \in Files : file_table[f].inode = i})
                           + Cardinality({t \in Tasks : task[t].pwd = i})
                           + Cardinality({t \in Tasks : task[t].root = i})
                           + (IF fs.inode[i].num = ROOT_INO THEN 2 ELSE 0)
  /\ \A f \in Files :
       file_table[f].count = Cardinality({<<t, fd>> \in Tasks \X Fds : task[t].filp[fd] = f})

(* An inode is in the table once at most, only if the map shows it in use; *)
(* an entry that is not dirty equals the inode on disk, and an entry that  *)
(* nobody uses is not dirty: so iget of an inode that has left the table   *)
(* finds what was last known of it.                                        *)
Coherent ==
  \A i \in Slots :
    LET ip == fs.inode[i] IN
    /\ ip.num # 0 => ip.num \in fs.imap /\ Slot(ip.num) = {i}
    /\ ip.num # 0 /\ ~ip.dirt => OnDisk(ip) = fs.d_inode[ip.num]
    /\ ip.count = 0 => ~ip.dirt

(* What can be read of a regular file is what was written to that file, or *)
(* zeros: no bytes of another file, a directory or a block of zone numbers *)
(* that used a block before, not in the gap that lseek leaves either.      *)
OnlyOwnBytes ==
  \A f \in Files :
    LET i == file_table[f].inode IN
    file_table[f].count > 0 /\ fs.inode[i].mode = "reg" =>
      \A p \in 0..(fs.inode[i].size - 1) :
        BlockAt(fs, i, p) = 0 \/ CellAt(fs, i, p) \in {Cell, Byte(fs.inode[i].num)}

(* The kernel only panics when at most one entry of the inode table is     *)
(* free, as a call holds up to two at a time, or in the mkdir that runs    *)
(* out of blocks for its name and frees the block of the new directory     *)
(* twice; never because a count, a link or a bit was wrong.                *)
PanicsExplained ==
  \/ fs.panic = ""
  \/ /\ fs.panic = "No free inodes in mem"
     /\ Cardinality({i \in Slots : fs.inode[i].count = 0}) <= 1
  \/ /\ fs.panic = "free_block: bit already cleared"
     /\ Cardinality(1..ZONES \ fs.zmap) \in 1..3

(* "free_block: bit already cleared" is a panic: no block is ever freed    *)
(* twice.                                                                  *)
NeverFreedTwice == fs.panic # "free_block: bit already cleared"
=============================================================================
