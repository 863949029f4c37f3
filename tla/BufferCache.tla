----------------------------- MODULE BufferCache -----------------------------
(***************************************************************************)
(* The buffer cache and the block devices below it: fs/buffer.c,           *)
(* kernel/blk_drv/ll_rw_blk.c and blk.h, the drivers ramdisk.c and hd.c,   *)
(* and the callers of fs/block_dev.c.                                      *)
(*                                                                         *)
(* The kernel is not preemptive: a task that runs in it keeps the          *)
(* processor (variable cpu) until it sleeps or returns to user mode, and   *)
(* only an interrupt of the hard disk comes between two of its steps.      *)
(* The ram disk serves a request before add_request returns; the hard disk *)
(* serves it in later interrupts.  A task that sleeps on b_wait or on      *)
(* wait_for_request goes on when the lock is open or a request is free.    *)
(***************************************************************************)
EXTENDS Integers, Sequences, FiniteSets, FiniteSetsExt

CONSTANTS
  Tasks,
  NR_BUFFERS,
  NR_REQUEST,
  hash(_),    \* the hash queue of a block, _hashfn(dev,block)
  MAX_ERRORS,
  RdBlocks,   \* rd_length in blocks
  HdBlocks,   \* hd[dev].nr_sects in blocks
  Wanted,     \* the blocks tasks ask for: pairs <<dev, block>>
  Ahead,      \* how many blocks breada reads ahead (block_dev.c: 2)
  Values,     \* contents of a sector
  Blank,      \* what the disks hold at first
  Changing,   \* the blocks that tasks give other contents
  Ops,        \* what each task does: see Operations
  MaxFaults,  \* bound: how often the controller reports an error
  MaxCalls    \* bound: how many system calls are made

NULL    == 0       \* no buffer; also the device number of an unused buffer
RAMDISK == 1
HARD    == 3
Drivers == {RAMDISK, HARD}   \* the majors with a request_fn

READ  == 0
WRITE == 1
READA == 2

Nobody  == "nobody"
Buffers == 1..NR_BUFFERS     \* in the order of start_buffer
Slots   == 1..NR_REQUEST

Later(k, n) == <<k[1], k[2] + n>>
Keys    == {Later(k, n) : k \in Wanted, n \in 0..Ahead}
Stored  == {k \in Keys : k[2] < (IF k[1] = RAMDISK THEN RdBlocks ELSE HdBlocks)}
NoKey   == <<NULL, 0>>

(* read, write: bread, then use.  ahead: block_read and a partial          *)
(* block_write, with breada.  whole: block_write of a whole block.         *)
Operations == {"read", "write", "ahead", "whole", "sync"}

ASSUME ConstantsOK ==
  /\ NR_BUFFERS \in Nat \ {0} /\ NR_REQUEST \in Nat /\ NR_REQUEST > 1
  /\ MAX_ERRORS \in Nat \ {0}
  /\ RdBlocks \in Nat /\ HdBlocks \in Nat /\ Ahead \in Nat
  /\ MaxFaults \in Nat /\ MaxCalls \in Nat
  /\ Wanted \subseteq (1..3) \X Nat
  /\ IsFiniteSet(Tasks) /\ Nobody \notin Tasks
  /\ Ops \in [Tasks -> SUBSET Operations]
  /\ Blank \in Values

(* A task in breada keeps the buffer of its first block while it waits for *)
(* another one.  There are 64 tasks at most, and buffer_init makes about a *)
(* thousand buffers of the megabyte that main gives it.                    *)
ASSUME EnoughBuffers == Cardinality({t \in Tasks : "ahead" \in Ops[t]}) < NR_BUFFERS

VARIABLES
  b_key, b_uptodate, b_dirt, b_count, b_lock, b_data,  \* of every buffer head
  free_list,       \* all buffers, in the order of b_next_free
  hash_table,      \* the hash queues
  request,         \* the slots; dev is 0 where the code has -1
  current_request, \* of each driver: its slots, in the order of next
  disk,            \* the two sectors of every block
  do_hd,           \* the handler of the next interrupt; see HdPlaces
  reset, recalibrate,
  hd_data,         \* the sector the controller was given to write
  faults,          \* errors the controller has reported
  failed,          \* blocks whose write ended with an I/O error
  calls,           \* system calls made so far
  cpu,             \* the task that runs in the kernel
  pc, op, want,    \* of a task: where it is, what it does, with which block
  bh, first,       \* its buffers: of getblk, and the first one of breada
  ahead,           \* breada: how many blocks are still to be asked for
  scan,            \* sync_dev: the device (0: all), the pass, the next buffer
  io               \* ll_rw_block: command, buffer, and where to return to

heads == <<b_key, b_uptodate, b_dirt, b_count, b_lock, b_data>>
lists == <<free_list, hash_table>>
queue == <<request, current_request>>
drive == <<disk, do_hd, reset, recalibrate, hd_data, faults, failed>>
frame == <<op, want, first, ahead, scan, calls>>
vars  == <<heads, lists, queue, drive, cpu, pc, frame, bh, io>>

(* do_hd_request: the driver is at the label repeat and has the processor. *)
HdPlaces == {"NULL", "do_hd_request", "read_intr", "write_intr", "recal_intr"}

Idle == [dev |-> NULL, cmd |-> READ, bh |-> NULL, sector |-> 0, nr_sectors |-> 0, errors |-> 0]
NoIo == [rw |-> READ, bh |-> NULL, ret |-> "user"]

-----------------------------------------------------------------------------
(* buffer_init, blk_dev_init, rd_init and hd_init have run; the disks are    *)
(* blank.                                                                  *)
Init ==
  /\ b_key      = [b \in Buffers |-> NoKey]
  /\ b_uptodate = [b \in Buffers |-> FALSE]
  /\ b_dirt     = [b \in Buffers |-> FALSE]
  /\ b_count    = [b \in Buffers |-> 0]
  /\ b_lock     = [b \in Buffers |-> FALSE]
  /\ b_data     = [b \in Buffers |-> <<Blank, Blank>>]
  /\ disk       = [k \in Stored |-> <<Blank, Blank>>]
  /\ hd_data    = Blank
  /\ free_list  = [i \in Buffers |-> i]
  /\ hash_table = [h \in {hash(k) : k \in Keys} |-> << >>]
  /\ request    = [s \in Slots |-> Idle]
  /\ current_request = [d \in Drivers |-> << >>]
  /\ do_hd = "NULL" /\ reset = TRUE /\ recalibrate = TRUE
  /\ faults = 0 /\ failed = {}
  /\ calls = 0
  /\ cpu   = Nobody
  /\ pc    = [t \in Tasks |-> "user"]
  /\ op    = [t \in Tasks |-> "read"]
  /\ want  = [t \in Tasks |-> NoKey]
  /\ bh    = [t \in Tasks |-> NULL]
  /\ first = [t \in Tasks |-> NULL]
  /\ ahead = [t \in Tasks |-> 0]
  /\ scan  = [t \in Tasks |-> [dev |-> NULL, pass |-> 2, next |-> 1]]
  /\ io    = [t \in Tasks |-> NoIo]

(* Task t is at a place and may run: the processor is its own or idle, and *)
(* no interrupt handler is on it.                                          *)
At(t, place) ==
  /\ pc[t] = place
  /\ cpu \in {t, Nobody}
  /\ do_hd # "do_hd_request"

Goto(t, place) == pc' = [pc EXCEPT ![t] = place] /\ cpu' = t
Sleep(t)       == cpu = t /\ cpu' = Nobody /\ UNCHANGED pc

(* In user mode, and about to make one more system call. *)
Calls(t) ==
  /\ At(t, "user") /\ cpu = Nobody
  /\ calls < MaxCalls /\ calls' = calls + 1

-----------------------------------------------------------------------------
(* The hash queues and the free list. *)

Matches(k) == {i \in DOMAIN hash_table[hash(k)] : b_key[hash_table[hash(k)][i]] = k}

find_buffer(k) ==
  IF Matches(k) = {} THEN NULL ELSE hash_table[hash(k)][Min(Matches(k))]

(* A list without the buffer b, which is on it once or not at all. *)
Without(s, b) ==
  LET places == {i \in DOMAIN s : s[i] = b}
  IN IF places = {}
       THEN s
       ELSE [i \in 1..Len(s) - 1 |-> IF i < Min(places) THEN s[i] ELSE s[i + 1]]

(* remove_from_queues, the new identity k, insert_into_queues. *)
Rename(b, k) ==
  /\ b_key' = [b_key EXCEPT ![b] = k]
  /\ free_list' = Append(Without(free_list, b), b)
  /\ hash_table' =
       LET removed == [h \in DOMAIN hash_table |-> Without(hash_table[h], b)]
       IN [removed EXCEPT ![hash(k)] = <<b>> \o @]

(* b_count up and down; the sleepers of buffer_wait woken; the two looks   *)
(* getblk takes at its victim.  NotReleased, NoWakeUp, NeverDirty and      *)
(* NotLookedFor are faulty variants.                                       *)
Used(b) == [b_count EXCEPT ![b] = @ + 1]

NotReleased(b) == b_count

Released(b) == [b_count EXCEPT ![b] = @ - 1]

NoWakeUp == pc

wake_up == [u \in Tasks |-> IF pc[u] = "buffer_wait" THEN "getblk" ELSE pc[u]]

NeverDirty(b) == FALSE

Dirty(b) == b_dirt[b]

NotLookedFor(k) == FALSE

InCache(k) == find_buffer(k) # NULL

Badness(b) == (IF b_dirt[b] THEN 2 ELSE 0) + (IF b_lock[b] THEN 1 ELSE 0)

(* The first one of the least bad buffers that nobody uses. *)
Unused == {i \in DOMAIN free_list : b_count[free_list[i]] = 0}

Victim ==
  free_list[Min({i \in Unused : \A j \in Unused :
                    Badness(free_list[i]) <= Badness(free_list[j])})]

-----------------------------------------------------------------------------
(* The buffer a task sleeps for at a place of its code. *)
WaitsFor(t) ==
  CASE pc[t] = "sync"         -> scan[t].next
    [] pc[t] = "make_request" -> io[t].bh
    [] OTHER                  -> bh[t]

wait_on_buffer(t) ==
  /\ \E place \in {"hashed", "victim", "sync", "make_request", "read_wait", "brelse"} : At(t, place)
  /\ WaitsFor(t) \in Buffers
  /\ b_lock[WaitsFor(t)]
  /\ pc[t] = "sync" => scan[t].dev \in {NULL, b_key[scan[t].next][1]}
  /\ pc[t] = "make_request" => io[t].rw # READA
  /\ Sleep(t)
  /\ UNCHANGED <<heads, lists, queue, drive, frame, bh, io>>

(* A system call starts, and returns. *)
Start(t) ==
  /\ Calls(t)
  /\ \E o \in Ops[t] \ {"sync"}, k \in Wanted :
       /\ op' = [op EXCEPT ![t] = o]
       /\ want' = [want EXCEPT ![t] = k]
       /\ ahead' = [ahead EXCEPT ![t] = IF o = "ahead" THEN Ahead ELSE 0]
  /\ Goto(t, "getblk")
  /\ UNCHANGED <<heads, lists, queue, drive, first, scan, bh, io>>

sys_sync(t) ==
  /\ Calls(t)
  /\ "sync" \in Ops[t]
  /\ op' = [op EXCEPT ![t] = "sync"]
  /\ scan' = [scan EXCEPT ![t] = [dev |-> NULL, pass |-> 2, next |-> 1]]
  /\ Goto(t, "sync")
  /\ UNCHANGED <<heads, lists, queue, drive, want, first, ahead, bh, io>>

(* get_hash_table finds the block; or the victim is chosen; or all buffers *)
(* are in use.                                                             *)
getblk(t) ==
  /\ At(t, "getblk")
  /\ LET b == find_buffer(want[t]) IN
       \/ /\ b # NULL
          /\ b_count' = Used(b)
          /\ bh' = [bh EXCEPT ![t] = b]
          /\ Goto(t, "hashed")
       \/ /\ b = NULL /\ Unused # {}
          /\ bh' = [bh EXCEPT ![t] = Victim]
          /\ Goto(t, "victim")
          /\ UNCHANGED b_count
       \/ /\ b = NULL /\ Unused = {}
          /\ pc' = [pc EXCEPT ![t] = "buffer_wait"] /\ cpu' = Nobody
          /\ UNCHANGED <<b_count, bh>>
  /\ UNCHANGED <<b_key, b_uptodate, b_dirt, b_lock, b_data, lists, queue, drive, frame, io>>

get_hash_table(t) ==
  /\ At(t, "hashed")
  /\ ~b_lock[bh[t]]
  /\ IF b_key[bh[t]] = want[t]
       THEN Goto(t, "got") /\ UNCHANGED <<b_count, bh>>
       ELSE /\ b_count' = Released(bh[t])
            /\ bh' = [bh EXCEPT ![t] = NULL]
            /\ Goto(t, "getblk")
  /\ UNCHANGED <<b_key, b_uptodate, b_dirt, b_lock, b_data, lists, queue, drive, frame, io>>

(* getblk after wait_on_buffer(bh): try again, write the device out, or    *)
(* take the victim.                                                        *)
Repeat(t) ==
  /\ bh' = [bh EXCEPT ![t] = NULL]
  /\ Goto(t, "getblk")
  /\ UNCHANGED <<heads, lists, scan>>

CleanVictim(t) ==
  /\ scan' = [scan EXCEPT ![t] = [dev |-> b_key[bh[t]][1], pass |-> 1, next |-> 1]]
  /\ Goto(t, "sync")
  /\ UNCHANGED <<heads, lists, bh>>

TakeVictim(t) ==
  /\ b_count' = [b_count EXCEPT ![bh[t]] = 1]
  /\ b_dirt' = [b_dirt EXCEPT ![bh[t]] = FALSE]
  /\ b_uptodate' = [b_uptodate EXCEPT ![bh[t]] = FALSE]
  /\ Rename(bh[t], want[t])
  /\ Goto(t, "got")
  /\ UNCHANGED <<b_lock, b_data, scan, bh>>

getblk_victim(t) ==
  /\ At(t, "victim")
  /\ ~b_lock[bh[t]]
  /\ \/ b_count[bh[t]] > 0 /\ Repeat(t)
     \/ b_count[bh[t]] = 0 /\ Dirty(bh[t]) /\ CleanVictim(t)
     \/ b_count[bh[t]] = 0 /\ ~Dirty(bh[t]) /\ InCache(want[t]) /\ Repeat(t)
     \/ b_count[bh[t]] = 0 /\ ~Dirty(bh[t]) /\ ~InCache(want[t]) /\ TakeVictim(t)
  /\ UNCHANGED <<queue, drive, op, want, first, ahead, calls, io>>

(* brelse; the system call returns.  wake_up(&buffer_wait) wakes the whole *)
(* chain of sleepers.                                                      *)
brelse(t) ==
  /\ At(t, "brelse")
  /\ ~b_lock[bh[t]]
  /\ b_count' = Released(bh[t])
  /\ bh' = [bh EXCEPT ![t] = NULL]
  /\ pc' = [wake_up EXCEPT ![t] = "user"]
  /\ want' = [want EXCEPT ![t] = NoKey]
  /\ op' = [op EXCEPT ![t] = "read"]
  /\ cpu' = Nobody
  /\ UNCHANGED <<b_key, b_uptodate, b_dirt, b_lock, b_data, lists, queue, drive,
                 first, ahead, scan, calls, io>>

(* ll_rw_block is called, with the place to return to. *)
ll_rw_block(t, rw, b, ret) ==
  IF b_key[b][1] \in Drivers
    THEN /\ io' = [io EXCEPT ![t] = [rw |-> rw, bh |-> b, ret |-> ret]]
         /\ Goto(t, "make_request")
    ELSE Goto(t, ret) /\ UNCHANGED io

bread(t) ==
  /\ At(t, "got") /\ op[t] \in {"read", "write"}
  /\ IF b_uptodate[bh[t]] THEN Goto(t, "held") /\ UNCHANGED io
                          ELSE ll_rw_block(t, READ, bh[t], "read_wait")
  /\ UNCHANGED <<heads, lists, queue, drive, frame, bh>>

(* The end of bread and of breada. *)
bread_end(t) ==
  /\ At(t, "read_wait")
  /\ ~b_lock[bh[t]]
  /\ Goto(t, IF b_uptodate[bh[t]] THEN "held" ELSE "brelse")
  /\ UNCHANGED <<heads, lists, queue, drive, frame, bh, io>>

(* breada: the first block; the next argument; the buffer of that block,   *)
(* which is only counted down again.                                       *)
breada(t) ==
  /\ At(t, "got") /\ op[t] = "ahead" /\ first[t] = NULL
  /\ first' = [first EXCEPT ![t] = bh[t]]
  /\ bh' = [bh EXCEPT ![t] = NULL]
  /\ IF b_uptodate[bh[t]] THEN Goto(t, "va_arg") /\ UNCHANGED io
                          ELSE ll_rw_block(t, READ, bh[t], "va_arg")
  /\ UNCHANGED <<heads, lists, queue, drive, op, want, ahead, scan, calls>>

breada_arg(t) ==
  /\ At(t, "va_arg")
  /\ \/ /\ ahead[t] > 0
        /\ ahead' = [ahead EXCEPT ![t] = @ - 1]
        /\ want' = [want EXCEPT ![t] = Later(@, 1)]
        /\ Goto(t, "getblk")
        /\ UNCHANGED <<bh, first>>
     \/ /\ ahead[t] = 0
        /\ bh' = [bh EXCEPT ![t] = first[t]]
        /\ first' = [first EXCEPT ![t] = NULL]
        /\ Goto(t, "read_wait")
        /\ UNCHANGED <<ahead, want>>
  /\ UNCHANGED <<heads, lists, queue, drive, op, scan, calls, io>>

breada_tmp(t) ==
  /\ At(t, "got") /\ op[t] = "ahead" /\ first[t] # NULL
  /\ IF b_uptodate[bh[t]] THEN Goto(t, "count_down") /\ UNCHANGED io
                          ELSE ll_rw_block(t, READA, first[t], "count_down")
  /\ UNCHANGED <<heads, lists, queue, drive, frame, bh>>

breada_count(t) ==
  /\ At(t, "count_down")
  /\ b_count' = Released(bh[t])
  /\ bh' = [bh EXCEPT ![t] = NULL]
  /\ Goto(t, "va_arg")
  /\ UNCHANGED <<b_key, b_uptodate, b_dirt, b_lock, b_data, lists, queue, drive, frame, io>>

(* block_write of a whole block takes the buffer as getblk returns it. *)
block_write_whole(t) ==
  /\ At(t, "got") /\ op[t] = "whole"
  /\ Goto(t, "held")
  /\ UNCHANGED <<heads, lists, queue, drive, frame, bh, io>>

(* The caller has its buffer: it reads it, or changes it and marks it      *)
(* dirty.  Callers of bread may sleep in between: rmdir holds the block of *)
(* the entry while iget reads the inode.                                   *)
Look(t) ==
  /\ At(t, "held") /\ op[t] \in {"read", "ahead"}
  /\ Goto(t, "brelse")
  /\ UNCHANGED <<heads, lists, queue, drive, frame, bh, io>>

Modify(t) ==
  /\ At(t, "held") /\ op[t] \in {"write", "whole", "ahead"}
  /\ \E v \in (IF b_key[bh[t]] \in Changing THEN Values ELSE {Blank}) :
       b_data' = [b_data EXCEPT ![bh[t]] = <<v, v>>]
  /\ b_dirt' = [b_dirt EXCEPT ![bh[t]] = TRUE]
  /\ Goto(t, "brelse")
  /\ UNCHANGED <<b_key, b_uptodate, b_count, b_lock, lists, queue, drive, frame, bh, io>>

Elsewhere(t) ==
  /\ At(t, "held") /\ op[t] \in {"read", "write"}
  /\ Sleep(t)
  /\ UNCHANGED <<heads, lists, queue, drive, frame, bh, io>>

(* One turn of the loops of sync_dev and sys_sync.  What sync_inodes does  *)
(* between the passes is what tasks may do at any time: write into blocks. *)
Skips(t) == scan[t].dev \notin {NULL, b_key[scan[t].next][1]}

SyncNext(t) == scan' = [scan EXCEPT ![t].next = @ + 1]

sync_dev(t) ==
  /\ At(t, "sync") /\ scan[t].next \in Buffers
  /\ LET b == scan[t].next IN
       \/ Skips(t) /\ Goto(t, "sync") /\ UNCHANGED io
       \/ ~Skips(t) /\ ~b_lock[b] /\ ~b_dirt[b] /\ Goto(t, "sync") /\ UNCHANGED io
       \/ ~Skips(t) /\ ~b_lock[b] /\ b_dirt[b] /\ ll_rw_block(t, WRITE, b, "sync")
  /\ SyncNext(t)
  /\ UNCHANGED <<heads, lists, queue, drive, op, want, first, ahead, calls, bh>>

sync_dev_end(t) ==
  /\ At(t, "sync") /\ scan[t].next \notin Buffers
  /\ \/ /\ scan[t].pass = 1
        /\ scan' = [scan EXCEPT ![t].pass = 2, ![t].next = 1]
        /\ Goto(t, "sync") /\ UNCHANGED op
     \/ /\ scan[t].pass = 2 /\ op[t] # "sync"
        /\ scan' = [scan EXCEPT ![t] = [dev |-> NULL, pass |-> 2, next |-> 1]]
        /\ Goto(t, "victim") /\ UNCHANGED op
     \/ /\ scan[t].pass = 2 /\ op[t] = "sync"
        /\ scan' = [scan EXCEPT ![t].next = 1]
        /\ pc' = [pc EXCEPT ![t] = "user"] /\ cpu' = Nobody
        /\ op' = [op EXCEPT ![t] = "read"]
  /\ UNCHANGED <<heads, lists, queue, drive, want, first, ahead, calls, bh, io>>

-----------------------------------------------------------------------------
(* make_request, up to the label repeat. *)
IoDone(t) == Goto(t, io[t].ret) /\ io' = [io EXCEPT ![t] = NoIo]

NotNeeded(rw, b) == IF rw = WRITE THEN ~b_dirt[b] ELSE b_uptodate[b]

make_request(t) ==
  /\ At(t, "make_request")
  /\ LET b == io[t].bh IN
       \/ /\ b_lock[b] /\ io[t].rw = READA
          /\ IoDone(t) /\ UNCHANGED b_lock
       \/ /\ ~b_lock[b] /\ NotNeeded(io[t].rw, b)
          /\ IoDone(t) /\ UNCHANGED b_lock
       \/ /\ ~b_lock[b] /\ ~NotNeeded(io[t].rw, b)
          /\ b_lock' = [b_lock EXCEPT ![b] = TRUE]
          /\ Goto(t, "request") /\ UNCHANGED io
  /\ UNCHANGED <<b_key, b_uptodate, b_dirt, b_count, b_data, lists, queue, drive, frame, bh>>

(* The free slots a request may use: writes leave the last third to reads. *)
Empty(rw) ==
  {s \in Slots : request[s].dev = NULL /\ (rw = WRITE => s <= (NR_REQUEST * 2) \div 3)}

no_request(t) ==
  /\ At(t, "request")
  /\ Empty(io[t].rw) = {}
  /\ IF io[t].rw = READA
       THEN b_lock' = [b_lock EXCEPT ![io[t].bh] = FALSE] /\ IoDone(t)
       ELSE Sleep(t) /\ UNCHANGED <<b_lock, io>>
  /\ UNCHANGED <<b_key, b_uptodate, b_dirt, b_count, b_data, lists, queue, drive, frame, bh>>

IN_ORDER(r, q) ==
  \/ r.cmd < q.cmd
  \/ r.cmd = q.cmd /\ (r.dev < q.dev \/ (r.dev = q.dev /\ r.sector < q.sector))

(* add_request: behind which request of a queue the new one r goes. *)
Behind(q, r) ==
  Min({i \in DOMAIN q :
         \/ i = Len(q)
         \/ /\ IN_ORDER(request[q[i]], r) \/ ~IN_ORDER(request[q[i]], request[q[i + 1]])
            /\ IN_ORDER(r, request[q[i + 1]])})

InsertBehind(q, i, s) ==
  [j \in 1..Len(q) + 1 |-> IF j <= i THEN q[j] ELSE IF j = i + 1 THEN s ELSE q[j - 1]]

NewRequest(t) ==
  LET b == io[t].bh IN
  [dev |-> b_key[b][1], cmd |-> IF io[t].rw = WRITE THEN WRITE ELSE READ, bh |-> b,
   sector |-> 2 * b_key[b][2], nr_sectors |-> 2, errors |-> 0]

(* The ram disk: do_rd_request copies the block, end_request follows. *)
do_rd_request(t, b) ==
  LET k  == b_key[b]
      ok == k \in Stored
  IN /\ disk' = IF ok /\ io[t].rw = WRITE THEN [disk EXCEPT ![k] = b_data[b]] ELSE disk
     /\ b_data' = IF ok /\ io[t].rw # WRITE THEN [b_data EXCEPT ![b] = disk[k]] ELSE b_data
     /\ b_uptodate' = [b_uptodate EXCEPT ![b] = ok]
     /\ b_lock' = [b_lock EXCEPT ![b] = FALSE]
     /\ failed' = IF ~ok /\ io[t].rw = WRITE THEN failed \cup {k} ELSE failed
     /\ UNCHANGED <<queue, do_hd>>

add_request(t) ==
  /\ At(t, "request")
  /\ Empty(io[t].rw) # {}
  /\ LET b == io[t].bh
         s == Max(Empty(io[t].rw))
         d == b_key[b][1]
         q == current_request[d]
     IN /\ b_dirt' = [b_dirt EXCEPT ![b] = FALSE]
        /\ \/ d = RAMDISK /\ do_rd_request(t, b)
           \/ /\ d = HARD
              /\ request' = [request EXCEPT ![s] = NewRequest(t)]
              /\ current_request' = [current_request EXCEPT ![d] =
                   IF q = << >> THEN <<s>> ELSE InsertBehind(q, Behind(q, NewRequest(t)), s)]
              /\ do_hd' = IF q = << >> THEN "do_hd_request" ELSE do_hd
              /\ UNCHANGED <<b_uptodate, b_lock, b_data, disk, failed>>
  /\ IoDone(t)
  /\ UNCHANGED <<b_key, b_count, lists, reset, recalibrate, hd_data, faults, frame, bh>>

-----------------------------------------------------------------------------
(* The hard disk.  CURRENT is the first request of its queue. *)
Queue   == current_request[HARD]
CURRENT == request[Head(Queue)]

(* The block and the half of the block that CURRENT's sector is. *)
Block == <<HARD, CURRENT.sector \div 2>>
Half  == (CURRENT.sector % 2) + 1

(* Faulty variant of end_request: an error leaves the buffer locked. *)
end_request_locked(ok) ==
  /\ b_uptodate' = [b_uptodate EXCEPT ![CURRENT.bh] = ok]
  /\ b_lock' = [b_lock EXCEPT ![CURRENT.bh] = ~ok]
  /\ request' = [request EXCEPT ![Head(Queue)] = Idle]
  /\ current_request' = [current_request EXCEPT ![HARD] = Tail(@)]
  /\ failed' = IF ~ok /\ CURRENT.cmd = WRITE THEN failed \cup {b_key[CURRENT.bh]} ELSE failed

end_request(ok) ==
  /\ b_uptodate' = [b_uptodate EXCEPT ![CURRENT.bh] = ok]
  /\ b_lock' = [b_lock EXCEPT ![CURRENT.bh] = FALSE]
  /\ request' = [request EXCEPT ![Head(Queue)] = Idle]
  /\ current_request' = [current_request EXCEPT ![HARD] = Tail(@)]
  /\ failed' = IF ~ok /\ CURRENT.cmd = WRITE THEN failed \cup {b_key[CURRENT.bh]} ELSE failed

(* Faulty variant of TooMany: one more try. *)
OneMore(n) == n > MAX_ERRORS

TooMany(n) == n >= MAX_ERRORS

(* After the last request it reads CURRENT->errors of no request: whether  *)
(* reset is set is left open.                                              *)
bad_rw_intr ==
  /\ faults < MaxFaults
  /\ faults' = faults + 1
  /\ \/ /\ TooMany(CURRENT.errors + 1)
        /\ end_request(FALSE)
        /\ reset' \in (IF Tail(Queue) = << >> THEN {reset, TRUE} ELSE {reset})
     \/ /\ ~TooMany(CURRENT.errors + 1)
        /\ request' = [request EXCEPT ![Head(Queue)].errors = @ + 1]
        /\ reset' = (reset \/ CURRENT.errors + 1 > MAX_ERRORS \div 2)
        /\ UNCHANGED <<b_uptodate, b_lock, current_request, failed>>

Driver == UNCHANGED <<b_key, b_dirt, b_count, lists, cpu, pc, frame, bh, io>>

(* do_hd_request at its label repeat. *)
hd_stop ==
  /\ do_hd = "do_hd_request" /\ Queue = << >>
  /\ do_hd' = "NULL"
  /\ UNCHANGED <<heads, lists, queue, disk, reset, recalibrate, hd_data, faults, failed,
                 cpu, pc, frame, bh, io>>

OutOfRange == CURRENT.sector + 2 > 2 * HdBlocks

hd_bad_sector ==
  /\ do_hd = "do_hd_request" /\ Queue # << >> /\ OutOfRange
  /\ end_request(FALSE)
  /\ UNCHANGED <<b_data, disk, do_hd, reset, recalibrate, hd_data, faults>> /\ Driver

hd_prepare ==
  /\ do_hd = "do_hd_request" /\ Queue # << >> /\ ~OutOfRange
  /\ reset \/ recalibrate
  /\ reset' = FALSE /\ recalibrate' = reset
  /\ do_hd' = "recal_intr"
  /\ UNCHANGED <<heads, lists, queue, disk, hd_data, faults, failed, cpu, pc, frame, bh, io>>

hd_command ==
  /\ do_hd = "do_hd_request" /\ Queue # << >> /\ ~OutOfRange
  /\ ~reset /\ ~recalibrate
  /\ \/ /\ CURRENT.cmd = READ
        /\ do_hd' = "read_intr" /\ UNCHANGED hd_data
     \/ /\ CURRENT.cmd = WRITE
        /\ do_hd' = "write_intr" /\ hd_data' = b_data[CURRENT.bh][Half]
  /\ UNCHANGED <<heads, lists, queue, disk, reset, recalibrate, faults, failed,
                 cpu, pc, frame, bh, io>>

(* The controller does not ask for the data of a write. *)
hd_no_drq ==
  /\ do_hd = "do_hd_request" /\ Queue # << >> /\ ~OutOfRange
  /\ ~reset /\ ~recalibrate /\ CURRENT.cmd = WRITE
  /\ bad_rw_intr
  /\ UNCHANGED <<b_data, disk, do_hd, recalibrate, hd_data>> /\ Driver

(* Interrupts.  An operation that fails leaves the disk as it was. *)
hd_error ==
  /\ do_hd \in {"read_intr", "write_intr", "recal_intr"}
  /\ bad_rw_intr
  /\ do_hd' = "do_hd_request"
  /\ UNCHANGED <<b_data, disk, recalibrate, hd_data>> /\ Driver

recal_intr ==
  /\ do_hd = "recal_intr"
  /\ do_hd' = "do_hd_request"
  /\ UNCHANGED <<heads, queue, disk, reset, recalibrate, hd_data, faults, failed>> /\ Driver

(* A sector of a request is done; read_intr forgets the errors so far. *)
NextSector(r, errors) ==
  [r EXCEPT !.sector = @ + 1, !.nr_sectors = @ - 1, !.errors = errors]

read_intr ==
  /\ do_hd = "read_intr"
  /\ b_data' = [b_data EXCEPT ![CURRENT.bh][Half] = disk[Block][Half]]
  /\ \/ /\ CURRENT.nr_sectors > 1
        /\ request' = [request EXCEPT ![Head(Queue)] = NextSector(CURRENT, 0)]
        /\ UNCHANGED <<do_hd, b_uptodate, b_lock, current_request, failed>>
     \/ /\ CURRENT.nr_sectors = 1
        /\ end_request(TRUE)
        /\ do_hd' = "do_hd_request"
  /\ UNCHANGED <<disk, reset, recalibrate, hd_data, faults>> /\ Driver

write_intr ==
  /\ do_hd = "write_intr"
  /\ disk' = [disk EXCEPT ![Block][Half] = hd_data]
  /\ \/ /\ CURRENT.nr_sectors > 1
        /\ request' = [request EXCEPT ![Head(Queue)] = NextSector(CURRENT, CURRENT.errors)]
        /\ hd_data' = b_data[CURRENT.bh][Half + 1]
        /\ UNCHANGED <<do_hd, b_uptodate, b_lock, current_request, failed>>
     \/ /\ CURRENT.nr_sectors = 1
        /\ end_request(TRUE)
        /\ do_hd' = "do_hd_request" /\ UNCHANGED hd_data
  /\ UNCHANGED <<b_data, reset, recalibrate, faults>> /\ Driver

hd_interrupt == hd_error \/ recal_intr \/ read_intr \/ write_intr

do_hd_request == hd_stop \/ hd_bad_sector \/ hd_prepare \/ hd_command \/ hd_no_drq

-----------------------------------------------------------------------------
Task(t) ==
  \/ Start(t) \/ sys_sync(t) \/ wait_on_buffer(t)
  \/ getblk(t) \/ get_hash_table(t) \/ getblk_victim(t) \/ brelse(t)
  \/ bread(t) \/ bread_end(t)
  \/ breada(t) \/ breada_arg(t) \/ breada_tmp(t) \/ breada_count(t)
  \/ block_write_whole(t) \/ Look(t) \/ Modify(t) \/ Elsewhere(t)
  \/ sync_dev(t) \/ sync_dev_end(t)
  \/ make_request(t) \/ no_request(t) \/ add_request(t)

Next == do_hd_request \/ hd_interrupt \/ \E t \in Tasks : Task(t)

Spec == Init /\ [][Next]_vars

-----------------------------------------------------------------------------
Places == {"user", "getblk", "buffer_wait", "hashed", "victim", "got", "held", "read_wait",
           "va_arg", "count_down", "brelse", "sync", "make_request", "request"}

(* Every variable keeps to its type; no use count falls below zero, which  *)
(* is where brelse would panic.                                            *)
TypeOK ==
  /\ b_key \in [Buffers -> Keys \cup {NoKey}]
  /\ b_uptodate \in [Buffers -> BOOLEAN] /\ b_dirt \in [Buffers -> BOOLEAN]
  /\ b_lock \in [Buffers -> BOOLEAN] /\ b_count \in [Buffers -> Nat]
  /\ b_data \in [Buffers -> Values \X Values] /\ disk \in [Stored -> Values \X Values]
  /\ hd_data \in Values
  /\ request \in [Slots -> [dev : {NULL} \cup Drivers, cmd : {READ, WRITE},
                            bh : {NULL} \cup Buffers, sector : Nat,
                            nr_sectors : 0..2, errors : 0..MAX_ERRORS - 1]]
  /\ do_hd \in HdPlaces /\ reset \in BOOLEAN /\ recalibrate \in BOOLEAN
  /\ faults \in 0..MaxFaults /\ failed \subseteq Keys
  /\ cpu \in Tasks \cup {Nobody}
  /\ pc \in [Tasks -> Places] /\ op \in [Tasks -> Operations]
  /\ want \in [Tasks -> Keys \cup {NoKey}]
  /\ bh \in [Tasks -> Buffers \cup {NULL}] /\ first \in [Tasks -> Buffers \cup {NULL}]
  /\ ahead \in [Tasks -> 0..Ahead]
  /\ scan \in [Tasks -> [dev : 0..3, pass : 1..2, next : 1..NR_BUFFERS + 1]]
  /\ io \in [Tasks -> [rw : {READ, WRITE, READA}, bh : Buffers \cup {NULL}, ret : Places]]

(* A buffer that holds a block is the one find_buffer finds for it, so no  *)
(* block is in the cache twice, although getblk sleeps between looking for *)
(* it and giving a buffer its name (buffer.c:237-242).                     *)
OneBuffer == \A b \in Buffers : b_key[b] # NoKey => find_buffer(b_key[b]) = b

(* A buffer is locked exactly while one task in make_request, or one       *)
(* request of the queue, is there to unlock it: no lock is left behind by  *)
(* an I/O error or a dropped read-ahead, and no buffer has two requests.   *)
LockedIffPending ==
  \A b \in Buffers :
    Cardinality({t \in Tasks : pc[t] = "request" /\ io[t].bh = b})
      + Cardinality({s \in Slots : request[s].bh = b})
    = IF b_lock[b] THEN 1 ELSE 0

(* The place of a task's code, that of the caller while it is in ll_rw_block. *)
Site(t) == IF pc[t] \in {"make_request", "request"} THEN io[t].ret ELSE pc[t]

(* The buffer a task has counted up: not the victim it waits for. *)
Holds(t) == IF Site(t) \in {"victim", "sync"} THEN NULL ELSE bh[t]

Uses(t) == {Holds(t), first[t]} \ {NULL}

(* b_count is the number of tasks that use the buffer: a buffer in use is  *)
(* never given another name, and none stays in use for ever.               *)
CountsUsers ==
  \A b \in Buffers :
    b_count[b] = Cardinality({t \in Tasks : Holds(t) = b})
                 + Cardinality({t \in Tasks : first[t] = b})

(* A task sleeps on buffer_wait only while another one, not asleep there,  *)
(* holds a buffer and will call brelse, which wakes it: breada, which      *)
(* lowers b_count without a wake_up, strands nobody.                       *)
NoStrandedSleeper ==
  \A t \in Tasks : pc[t] = "buffer_wait" =>
    \E u \in Tasks : pc[u] # "buffer_wait" /\ Uses(u) # {}

(* What a reader of a block gets: the buffer if it is valid, waits to be   *)
(* written or is being written, else the disk.                             *)
Written(b) == b_dirt[b] \/ \E s \in Slots : request[s].bh = b /\ request[s].cmd = WRITE

Content(k) ==
  LET cached == {b \in Buffers : b_key[b] = k /\ (b_uptodate[b] \/ Written(b))}
  IN IF cached = {} THEN disk[k] ELSE b_data[CHOOSE b \in cached : TRUE]

(* block_write marks a buffer dirty that may not be valid; until it is     *)
(* written out, a read of the block replaces it by what the disk has.      *)
NotValid == {b_key[b] : b \in {c \in Buffers : b_dirt[c] /\ ~b_uptodate[c]}}

(* Only a task that changes a buffer it holds changes what readers of its  *)
(* block get: eviction, write-out, read-in, the elevator and the retries   *)
(* of the driver lose nothing.  Exempt are the blocks whose write has      *)
(* ended with an I/O error and those of NotValid.                          *)
ContentsKept ==
  [][\A k \in Stored \ (failed' \cup NotValid) :
       Content(k)' # Content(k) => \E t \in Tasks : Modify(t) /\ b_key[bh[t]] = k]_vars
=============================================================================
