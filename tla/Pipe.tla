-------------------------------- MODULE Pipe --------------------------------
(***************************************************************************)
(* A pipe and the processes that share it: fs/pipe.c, and what fork,       *)
(* close and exit do to its descriptors.                                   *)
(*                                                                         *)
(* Readers and writers sleep on the same queue, inode->i_wait.  The kernel *)
(* is not preemptive: a process that is inside a system call (cpu) moves   *)
(* on alone until it sleeps or returns.  Each round of the copy loops is   *)
(* an action of its own, because the ring buffer wraps around.  Which      *)
(* runnable process goes next is left open.                                *)
(***************************************************************************)
EXTENDS Integers, FiniteSets, Sequences

CONSTANTS
  Procs,
  Size,     \* PAGE_SIZE: the pipe holds Size - 1 bytes
  MaxCount, \* bound: bytes of one read or write
  Bytes

ASSUME ConstantsOK ==
  Size \in Nat /\ Size > 1 /\ MaxCount \in Nat /\ IsFiniteSet(Procs) /\ 0 \in Bytes

Ends   == {"read", "write"}
NoProc == 0
ASSUME NoProcOK == NoProc \notin Procs

VARIABLES
  head, tail,  \* PIPE_HEAD, PIPE_TAIL: i_zone[0], i_zone[1]
  page,        \* the page at i_size
  i_count,     \* open ends
  f_count,     \* descriptors of each end
  filp,        \* the ends that every process has open
  call,        \* the system call a process is in: "none", "read" or "write"
  count,       \* bytes it has still to transfer
  asleep,      \* processes that sleep in sleep_on(&inode->i_wait)
  wait, tmp,   \* i_wait, and the local tmp of sleep_on
  cpu,         \* the process that runs in the kernel
  event        \* what the last step told a process (see PipeFifo)

ring  == <<head, tail, page>>
files == <<i_count, f_count, filp>>
sleep == <<asleep, wait, tmp>>
vars  == <<ring, files, call, count, sleep, cpu, event>>

Silent == event' = <<>>

PIPE_SIZE == (head - tail) % Size

Lesser(a, b) == IF a < b THEN a ELSE b

-----------------------------------------------------------------------------
Init ==
  /\ head = 0 /\ tail = 0 /\ page = [i \in 0..(Size - 1) |-> 0]
  /\ i_count = 0 /\ f_count = [e \in Ends |-> 0] /\ filp = [p \in Procs |-> {}]
  /\ call = [p \in Procs |-> "none"]
  /\ count = [p \in Procs |-> 0]
  /\ asleep = {} /\ wait = NoProc /\ tmp = [p \in Procs |-> NoProc]
  /\ cpu = NoProc
  /\ event = <<>>

(* wake_up(&inode->i_wait) *)
wake_up ==
  /\ asleep' = asleep \ {wait}
  /\ wait'   = NoProc
  /\ UNCHANGED tmp

(* wake_up(&inode->i_wait), then sleep_on(&inode->i_wait) up to schedule() *)
WakeAndSleep(p) ==
  /\ asleep' = (asleep \ {wait}) \cup {p}
  /\ wait'   = p
  /\ tmp'    = [tmp EXCEPT ![p] = NoProc]

Return(p) == call' = [call EXCEPT ![p] = "none"] /\ cpu' = NoProc

Ready(p) == cpu = NoProc /\ p \notin asleep /\ call[p] = "none"

-----------------------------------------------------------------------------
(* pipe() *)
sys_pipe(p) ==
  /\ Ready(p) /\ i_count = 0
  /\ head' = 0 /\ tail' = 0 /\ page' = [i \in 0..(Size - 1) |-> 0]
  /\ i_count' = 2 /\ f_count' = [e \in Ends |-> 1] /\ filp' = [filp EXCEPT ![p] = Ends]
  /\ Silent
  /\ UNCHANGED <<call, count, sleep, cpu>>

(* Faulty variant of fork: the new descriptors are not counted. *)
ForkUncounted(p, c) ==
  /\ Ready(p) /\ filp[p] # {} /\ c # p /\ Ready(c) /\ filp[c] = {}
  /\ filp' = [filp EXCEPT ![c] = filp[p]]
  /\ UNCHANGED <<ring, i_count, f_count, call, count, sleep, cpu>>
  /\ Silent

(* fork(): the child c takes over the descriptors of p. *)
fork(p, c) ==
  /\ Ready(p) /\ filp[p] # {} /\ c # p /\ Ready(c) /\ filp[c] = {}
  /\ filp'    = [filp EXCEPT ![c] = filp[p]]
  /\ f_count' = [e \in Ends |-> f_count[e] + (IF e \in filp[p] THEN 1 ELSE 0)]
  /\ UNCHANGED <<ring, i_count, call, count, sleep, cpu>>
  /\ Silent

(* close(): iput wakes a sleeper when the last descriptor of an end goes.  *)
sys_close(p, e) ==
  /\ Ready(p) /\ e \in filp[p]
  /\ filp'    = [filp EXCEPT ![p] = @ \ {e}]
  /\ f_count' = [f_count EXCEPT ![e] = @ - 1]
  /\ \/ f_count[e] > 1 /\ UNCHANGED <<i_count, sleep>>
     \/ f_count[e] = 1 /\ wake_up /\ i_count' = i_count - 1
  /\ UNCHANGED <<ring, call, count, cpu>>
  /\ Silent

(* read() and write() of n bytes begin. *)
sys_rw(p, e, n) ==
  /\ Ready(p) /\ e \in filp[p]
  /\ call'  = [call EXCEPT ![p] = e]
  /\ count' = [count EXCEPT ![p] = n]
  /\ cpu'   = p
  /\ UNCHANGED <<ring, files, sleep>>
  /\ Silent

(* A process comes back from schedule() in sleep_on. *)
Resume(p) ==
  /\ cpu = NoProc /\ p \notin asleep /\ call[p] # "none"
  /\ asleep' = asleep \ {tmp[p]}
  /\ tmp'    = [tmp EXCEPT ![p] = NoProc]
  /\ cpu'    = p
  /\ UNCHANGED <<ring, files, call, count, wait>>
  /\ Silent

-----------------------------------------------------------------------------
(* Faulty variant of AllDone: nobody is woken. *)
DoneQuietly(p) ==
  /\ cpu = p /\ count[p] = 0
  /\ Return(p)
  /\ UNCHANGED <<ring, files, count, sleep>>
  /\ Silent

(* The end of read_pipe and write_pipe: everything is transferred.         *)
AllDone(p) ==
  /\ cpu = p /\ count[p] = 0
  /\ wake_up /\ Return(p)
  /\ UNCHANGED <<ring, files, count>>
  /\ Silent

(* Faulty variant of read_pipe: the tail does not wrap around. *)
ReadNoWrap(p) ==
  LET chars == Lesser(Size - tail, Lesser(count[p], PIPE_SIZE)) IN
  /\ cpu = p /\ call[p] = "read" /\ count[p] > 0 /\ PIPE_SIZE # 0
  /\ count' = [count EXCEPT ![p] = @ - chars]
  /\ tail'  = tail + chars
  /\ event' = <<"bytes", p, [i \in 1..chars |-> page[tail + i - 1]]>>
  /\ UNCHANGED <<head, page, files, call, sleep, cpu>>

(* read_pipe, one round of the loop: a chunk that does not wrap around. *)
read_pipe(p) ==
  LET chars == Lesser(Size - tail, Lesser(count[p], PIPE_SIZE)) IN
  /\ cpu = p /\ call[p] = "read" /\ count[p] > 0 /\ PIPE_SIZE # 0
  /\ count' = [count EXCEPT ![p] = @ - chars]
  /\ tail'  = (tail + chars) % Size
  /\ event' = <<"bytes", p, [i \in 1..chars |-> page[tail + i - 1]]>>
  /\ UNCHANGED <<head, page, files, call, sleep, cpu>>

(* Faulty variant of ReadEmpty: an empty pipe is the end of file. *)
ReadEmptyEnds(p) ==
  /\ cpu = p /\ call[p] = "read" /\ count[p] > 0 /\ PIPE_SIZE = 0
  /\ wake_up /\ Return(p) /\ event' = <<"end", p>>
  /\ UNCHANGED <<ring, files, count>>

(* The pipe is empty: the end when no writer is left, a nap otherwise. *)
ReadEmpty(p) ==
  /\ cpu = p /\ call[p] = "read" /\ count[p] > 0 /\ PIPE_SIZE = 0
  /\ \/ i_count # 2 /\ wake_up /\ Return(p) /\ event' = <<"end", p>>
     \/ i_count = 2 /\ WakeAndSleep(p) /\ cpu' = NoProc /\ Silent /\ UNCHANGED call
  /\ UNCHANGED <<ring, files, count>>

(* write_pipe, one round of the loop. *)
write_pipe(p) ==
  LET room  == Size - 1 - PIPE_SIZE
      chars == Lesser(Size - head, Lesser(count[p], room))
  IN
  /\ cpu = p /\ call[p] = "write" /\ count[p] > 0 /\ room # 0
  /\ count' = [count EXCEPT ![p] = @ - chars]
  /\ head'  = (head + chars) % Size
  /\ \E buf \in [1..chars -> Bytes] :
       page' = [i \in 0..(Size - 1) |->
                  IF i \in head..(head + chars - 1) THEN buf[i - head + 1] ELSE page[i]]
  /\ UNCHANGED <<tail, files, call, sleep, cpu>>
  /\ Silent

(* The pipe is full: SIGPIPE when no reader is left, a nap otherwise. *)
WriteFull(p) ==
  /\ cpu = p /\ call[p] = "write" /\ count[p] > 0 /\ PIPE_SIZE = Size - 1
  /\ \/ i_count # 2 /\ wake_up /\ Return(p) /\ event' = <<"broken", p>>
     \/ i_count = 2 /\ WakeAndSleep(p) /\ cpu' = NoProc /\ Silent /\ UNCHANGED call
  /\ UNCHANGED <<ring, files, count>>

-----------------------------------------------------------------------------
Step(p) ==
  \/ sys_pipe(p)
  \/ Resume(p)
  \/ AllDone(p)
  \/ read_pipe(p)
  \/ ReadEmpty(p)
  \/ write_pipe(p)
  \/ WriteFull(p)
  \/ \E c \in Procs : fork(p, c)
  \/ \E e \in Ends : sys_close(p, e) \/ \E n \in 1..MaxCount : sys_rw(p, e, n)

Next == \E p \in Procs : Step(p)

Spec == Init /\ [][Next]_vars

-----------------------------------------------------------------------------
(* Types: what the inode, the files and the callers of the pipe can hold. *)
TypeOK ==
  /\ head \in 0..(Size - 1) /\ tail \in 0..(Size - 1)
  /\ page \in [0..(Size - 1) -> Bytes]
  /\ i_count \in 0..2 /\ f_count \in [Ends -> Nat] /\ filp \in [Procs -> SUBSET Ends]
  /\ call \in [Procs -> {"none", "read", "write"}]
  /\ count \in [Procs -> 0..MaxCount]
  /\ asleep \subseteq Procs /\ wait \in Procs \cup {NoProc}
  /\ tmp \in [Procs -> Procs \cup {NoProc}]
  /\ cpu \in Procs \cup {NoProc}

Holders(e) == {p \in Procs : e \in filp[p]}
Open(e)    == IF Holders(e) # {} THEN 1 ELSE 0

(* The test i_count != 2 of read_pipe and write_pipe means what their      *)
(* comments say, through every fork and close: f_count counts descriptors  *)
(* and i_count the ends that some process has open.                        *)
CountsAgree ==
  /\ \A e \in Ends : f_count[e] = Cardinality(Holders(e))
  /\ i_count = Open("read") + Open("write")

(* No wake-up is missed: whenever no process is inside a pipe call, those  *)
(* that sleep have reason to: nothing to read, or no room to write, and    *)
(* somebody at the other end.                                              *)
NoMissedWakeup ==
  cpu = NoProc =>
    \A p \in asleep : /\ i_count = 2
                      /\ call[p] = "read" => PIPE_SIZE = 0
                      /\ call[p] = "write" => PIPE_SIZE = Size - 1

(* The bytes in the pipe: PIPE_SIZE of them from the tail on, around the   *)
(* end of the page.                                                        *)
Queue == [i \in 1..PIPE_SIZE |-> page[(tail + i - 1) % Size]]

Fifo == INSTANCE PipeFifo WITH
          Capacity <- Size - 1,
          queue    <- Queue,
          readers  <- Holders("read"),
          writers  <- Holders("write")

(* The ring buffer, its two indices and the reference counts implement the *)
(* queue of bytes that PipeFifo promises.                                  *)
IsFifo == Fifo!Spec
=============================================================================
