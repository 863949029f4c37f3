------------------------------- MODULE Process -------------------------------
(***************************************************************************)
(* The life of a process: kernel/fork.c, kernel/exit.c, the delivery of    *)
(* signals in kernel/signal.c as far as it ends a process, the process     *)
(* groups and sessions of kernel/sys.c, and the loop of init() in          *)
(* init/main.c.                                                            *)
(*                                                                         *)
(* The kernel is not preemptive: only the current task steps, and another  *)
(* one runs only after a call of schedule().  Which runnable task          *)
(* schedule() picks is left open (module Sched models the choice).  Every  *)
(* task runs as root, so the permission test of send_sig succeeds.         *)
(*                                                                         *)
(* Two signals are told apart: SIGCHLD, whose default action is nothing,   *)
(* and SIGHUP, which stands for the ones whose default action is to exit.  *)
(* Whether a process has another handler for SIGHUP is left open, so its   *)
(* delivery may end the process or not.                                    *)
(***************************************************************************)
EXTENDS Integers

CONSTANTS
  NTasks,    \* slots of task[] after task 0; slot 1 is init
  MaxPid,    \* bound: last_pid wraps to 1 after this one (2^31 - 1 in the code)
  WaitArgs,  \* the pid arguments of waitpid(): > 0, 0, -1, < -1
  KillArgs,  \* the pid arguments of kill()
  KillSigs,  \* its signals
  Groups,    \* the pgid arguments of setpgid()
  Masks      \* the arguments of ssetmask()

SIGHUP  == "SIGHUP"
SIGCHLD == "SIGCHLD"
Signals == {SIGHUP, SIGCHLD}
Tasks   == 1..NTasks
Pids    == 1..MaxPid
init    == 1

ASSUME ConstantsOK ==
  /\ NTasks \in Nat /\ NTasks > 0
  /\ MaxPid \in Nat /\ MaxPid > NTasks
  /\ WaitArgs \subseteq Int /\ KillArgs \subseteq Int /\ Groups \subseteq Pids
  /\ KillSigs \subseteq Signals /\ Masks \subseteq SUBSET Signals

VARIABLES
  state,     \* of every task[] entry; "none" where the entry is NULL
  pid, father, pgrp, session, leader,
  signal,    \* pending signals
  blocked,   \* blocked signals
  call,      \* where the task is: see Places
  arg,       \* the pid and WNOHANG arguments of its waitpid()
  current,   \* the running task; 0 is the idle task
  last_pid,
  shell      \* the variable pid of init(): the shell it waits for, or 0

ids  == <<pid, pgrp, session, leader>>
vars == <<state, pid, father, pgrp, session, leader, signal, blocked,
          call, arg, current, last_pid, shell>>

(* user: in user mode.  kernel: a kernel thread, between two calls.        *)
(* scan: at the label repeat of waitpid.  wait: asleep in it.  reap: in    *)
(* the schedule() of the release() it called.  exit: in do_exit, closing   *)
(* files.  return: leaving the kernel for user mode, at do_signals.        *)
Places == {"user", "kernel", "scan", "wait", "reap", "exit", "return"}

Exists(t) == state[t] # "none"
Alive(t)  == state[t] \notin {"none", "zombie"}

-----------------------------------------------------------------------------
(* main() has started init with kernel_thread; schedule() has picked it.   *)
Init ==
  /\ state    = [t \in Tasks |-> IF t = init THEN "running" ELSE "none"]
  /\ pid      = [t \in Tasks |-> 1]
  /\ father   = [t \in Tasks |-> 0]
  /\ pgrp     = [t \in Tasks |-> 0]
  /\ session  = [t \in Tasks |-> 0]
  /\ leader   = [t \in Tasks |-> FALSE]
  /\ signal   = [t \in Tasks |-> {}]
  /\ blocked  = [t \in Tasks |-> {}]
  /\ call     = [t \in Tasks |-> "kernel"]
  /\ arg      = [t \in Tasks |-> [pid |-> -1, nohang |-> FALSE]]
  /\ current  = init
  /\ last_pid = 1
  /\ shell    = 0

-----------------------------------------------------------------------------
(* Faulty variant of Woken: tasks that do not sleep are woken too. *)
WokenAnyway(st, sg) ==
  [t \in Tasks |-> IF st[t] # "none" /\ sg[t] \ blocked[t] # {} THEN "running" ELSE st[t]]

(* schedule(), entered with task states st and pending signals sg: wakes   *)
(* the interruptible sleepers that have a signal, and switches.            *)
Woken(st, sg) ==
  [t \in Tasks |-> IF st[t] = "interruptible" /\ sg[t] \ blocked[t] # {}
                     THEN "running" ELSE st[t]]

Runnable(st) ==
  {t \in Tasks : st[t] = "running"} \cup
  {t \in {0} : \A u \in Tasks : st[u] # "running"}

schedule(st, sg) ==
  /\ state' = Woken(st, sg)
  /\ current' \in Runnable(Woken(st, sg))

(* Task 0 calls pause() for ever, which calls schedule(). *)
Idle ==
  /\ current = 0
  /\ schedule(state, signal)
  /\ UNCHANGED <<ids, father, signal, blocked, call, arg, last_pid, shell>>

(* A task goes from one place to another and keeps the processor. *)
At(t, place) == current = t /\ call[t] = place

Goto(t, place) == call' = [call EXCEPT ![t] = place]

Stays == UNCHANGED <<state, current>>

(* Where a system call returns to: init, and a shell that has not called   *)
(* execve yet, are kernel threads, which never look at their signals.      *)
Home(t) == IF t = init THEN "kernel" ELSE "return"

(* The timer interrupts user mode; do_timer may call schedule(). *)
do_timer(t) ==
  /\ At(t, "user")
  /\ Goto(t, "return")
  /\ Stays \/ schedule(state, signal)
  /\ UNCHANGED <<ids, father, signal, blocked, arg, last_pid, shell>>

-----------------------------------------------------------------------------
(* find_empty_process: the pids skipped between last_pid and p are in use  *)
(* and p is not; the slot is the first empty one.                          *)
PidInUse(p) == \E t \in Tasks : Exists(t) /\ pid[t] = p

Between(q, p) == IF p > last_pid THEN last_pid < q /\ q < p
                                 ELSE q > last_pid \/ q < p

(* Faulty variant of NextPids: pids in use are not skipped. *)
NextPidsUnchecked == {IF last_pid = MaxPid THEN 1 ELSE last_pid + 1}

NextPids == {p \in Pids : /\ ~PidInUse(p)
                          /\ \A q \in Pids : Between(q, p) => PidInUse(q)}

(* Faulty variant of Child: process leadership is inherited. *)
ChildLeads(t, n, place) ==
  /\ state'   = [state   EXCEPT ![n] = "running"]
  /\ pid'     = [pid     EXCEPT ![n] = last_pid']
  /\ father'  = [father  EXCEPT ![n] = pid[t]]
  /\ pgrp'    = [pgrp    EXCEPT ![n] = pgrp[t]]
  /\ session' = [session EXCEPT ![n] = session[t]]
  /\ leader'  = [leader  EXCEPT ![n] = leader[t]]
  /\ signal'  = [signal  EXCEPT ![n] = {}]
  /\ blocked' = [blocked EXCEPT ![n] = blocked[t]]
  /\ call'    = [call    EXCEPT ![t] = Home(t), ![n] = place]

EmptySlots == {n \in Tasks : ~Exists(n) /\ \A m \in Tasks : m < n => Exists(m)}

(* copy_process and kernel_thread: the child in slot n is a copy of t.     *)
Child(t, n, place) ==
  /\ state'   = [state   EXCEPT ![n] = "running"]
  /\ pid'     = [pid     EXCEPT ![n] = last_pid']
  /\ father'  = [father  EXCEPT ![n] = pid[t]]
  /\ pgrp'    = [pgrp    EXCEPT ![n] = pgrp[t]]
  /\ session' = [session EXCEPT ![n] = session[t]]
  /\ leader'  = [leader  EXCEPT ![n] = FALSE]
  /\ signal'  = [signal  EXCEPT ![n] = {}]
  /\ blocked' = [blocked EXCEPT ![n] = blocked[t]]
  /\ call'    = [call    EXCEPT ![t] = Home(t), ![n] = place]

sys_fork(t) ==
  /\ At(t, "user")
  /\ last_pid' \in NextPids
  /\ \E n \in EmptySlots : Child(t, n, "user")
  /\ UNCHANGED <<arg, current, shell>>

kernel_thread ==
  /\ At(init, "kernel") /\ shell = 0
  /\ last_pid' \in NextPids
  /\ shell' = last_pid'
  /\ \E n \in EmptySlots : Child(init, n, "kernel")
  /\ UNCHANGED <<arg, current>>

(* -EAGAIN: no slot, or no page for the child. *)
ForkFails(t) ==
  /\ At(t, "user") \/ (t = init /\ At(t, "kernel") /\ shell = 0)
  /\ last_pid' \in NextPids
  /\ Goto(t, Home(t))
  /\ Stays
  /\ UNCHANGED <<ids, father, signal, blocked, arg, shell>>

-----------------------------------------------------------------------------
(* do_exit up to the closing of the files: the children go to init, which  *)
(* hears of the ones that are zombies.  The task may sleep while it closes *)
(* its files and puts back its inodes.                                     *)
Children(t) == {c \in Tasks : Exists(c) /\ father[c] = pid[t]}

(* Faulty variants of Adopt: only zombies are given to init; init does not *)
(* hear of them.                                                           *)
AdoptZombies(t) ==
  /\ father' = [c \in Tasks |-> IF c \in Children(t) /\ state[c] = "zombie" THEN 1 ELSE father[c]]
  /\ signal' = IF \E c \in Children(t) : state[c] = "zombie"
                 THEN [signal EXCEPT ![init] = @ \cup {SIGCHLD}] ELSE signal

AdoptQuietly(t) ==
  /\ father' = [c \in Tasks |-> IF c \in Children(t) THEN 1 ELSE father[c]]
  /\ UNCHANGED signal

Adopt(t) ==
  /\ father' = [c \in Tasks |-> IF c \in Children(t) THEN 1 ELSE father[c]]
  /\ signal' = IF \E c \in Children(t) : state[c] = "zombie"
                 THEN [signal EXCEPT ![init] = @ \cup {SIGCHLD}] ELSE signal

do_exit(t) ==
  /\ Adopt(t)
  /\ Goto(t, "exit")
  /\ Stays
  /\ UNCHANGED <<ids, blocked, arg, last_pid, shell>>

(* sys_exit; the exit of a task that faults is the same. *)
sys_exit(t) == At(t, "user") /\ do_exit(t)

(* sleep_on in the buffer cache or on an inode, and its end. *)
ExitBlocks(t) ==
  /\ At(t, "exit")
  /\ schedule([state EXCEPT ![t] = "uninterruptible"], signal)
  /\ UNCHANGED <<ids, father, signal, blocked, call, arg, last_pid, shell>>

ExitUnblocked(t) ==
  /\ state[t] = "uninterruptible"
  /\ state' = [state EXCEPT ![t] = "running"]
  /\ UNCHANGED <<ids, father, signal, blocked, call, arg, current, last_pid, shell>>

(* The rest of do_exit: kill_session, TASK_ZOMBIE, tell_father. *)
Hangup(t) ==
  [u \in Tasks |-> IF leader[t] /\ Exists(u) /\ session[u] = session[t]
                     THEN signal[u] \cup {SIGHUP} ELSE signal[u]]

Fathers(t) ==
  {f \in Tasks : /\ father[t] # 0 /\ Exists(f) /\ pid[f] = father[t]
                 /\ \A g \in Tasks : g < f => ~(Exists(g) /\ pid[g] = father[t])}

tell_father(t) ==
  \E f \in Fathers(t) :
    /\ signal' = [Hangup(t) EXCEPT ![f] = @ \cup {SIGCHLD}]
    /\ schedule([state EXCEPT ![t] = "zombie"], signal')

(* "BAD BAD - no father found": the task releases itself. *)
NoFatherFound(t) ==
  /\ Fathers(t) = {}
  /\ signal' = Hangup(t)
  /\ schedule([state EXCEPT ![t] = "none"], signal')

ExitEnds(t) ==
  /\ At(t, "exit")
  /\ tell_father(t) \/ NoFatherFound(t)
  /\ UNCHANGED <<ids, father, blocked, call, arg, last_pid, shell>>

-----------------------------------------------------------------------------
(* sys_waitpid. *)
sys_waitpid(t, p, nohang) ==
  /\ arg' = [arg EXCEPT ![t] = [pid |-> p, nohang |-> nohang]]
  /\ Goto(t, "scan")
  /\ Stays
  /\ UNCHANGED <<ids, father, signal, blocked, last_pid, shell>>

Matches(t, c) ==
  /\ Exists(c) /\ c # t /\ father[c] = pid[t]
  /\ \/ arg[t].pid > 0 /\ pid[c] = arg[t].pid
     \/ arg[t].pid = 0 /\ pgrp[c] = pgrp[t]
     \/ arg[t].pid = -1
     \/ arg[t].pid < -1 /\ pgrp[c] = -arg[t].pid

Zombie(t, c) == Matches(t, c) /\ state[c] = "zombie"

(* The scan runs from the last slot down and takes the first zombie.  For  *)
(* init, wait() == pid ends the wait for the shell.                        *)
release(t, c) ==
  /\ At(t, "scan")
  /\ Zombie(t, c) /\ \A d \in Tasks : Zombie(t, d) => d <= c
  /\ Goto(t, "reap")
  /\ shell' = IF t = init /\ pid[c] = shell THEN 0 ELSE shell
  /\ schedule([state EXCEPT ![c] = "none"], signal)
  /\ UNCHANGED <<ids, father, signal, blocked, arg, last_pid>>

Reaped(t) ==
  /\ At(t, "reap")
  /\ Goto(t, Home(t))
  /\ Stays
  /\ UNCHANGED <<ids, father, signal, blocked, arg, last_pid, shell>>

(* No zombie: returns 0 for WNOHANG, -ECHILD when no child matches ...     *)
WaitReturns(t) ==
  /\ At(t, "scan")
  /\ \A c \in Tasks : ~Zombie(t, c)
  /\ arg[t].nohang \/ \A c \in Tasks : ~Matches(t, c)
  /\ Goto(t, Home(t))
  /\ Stays
  /\ UNCHANGED <<ids, father, signal, blocked, arg, last_pid, shell>>

(* Faulty variant of WaitSleeps: sleeps without a child, too. *)
WaitSleepsAnyway(t) ==
  /\ At(t, "scan")
  /\ \A c \in Tasks : ~Zombie(t, c)
  /\ ~arg[t].nohang
  /\ Goto(t, "wait")
  /\ schedule([state EXCEPT ![t] = "interruptible"], signal)
  /\ UNCHANGED <<ids, father, signal, blocked, arg, last_pid, shell>>

(* ... and sleeps otherwise. *)
WaitSleeps(t) ==
  /\ At(t, "scan")
  /\ \A c \in Tasks : ~Zombie(t, c)
  /\ ~arg[t].nohang /\ \E c \in Tasks : Matches(t, c)
  /\ Goto(t, "wait")
  /\ schedule([state EXCEPT ![t] = "interruptible"], signal)
  /\ UNCHANGED <<ids, father, signal, blocked, arg, last_pid, shell>>

(* After the schedule(): repeat when SIGCHLD was all there was, else       *)
(* -EINTR.                                                                 *)
WaitWakes(t) ==
  /\ At(t, "wait")
  /\ signal' = [signal EXCEPT ![t] = @ \ {SIGCHLD}]
  /\ Goto(t, IF signal[t] \subseteq {SIGCHLD} THEN "scan" ELSE Home(t))
  /\ Stays
  /\ UNCHANGED <<ids, father, blocked, arg, last_pid, shell>>

-----------------------------------------------------------------------------
(* do_signals, on the way to user mode: the lowest pending signal that is  *)
(* not blocked is taken.  SIGHUP is 1 and SIGCHLD 17.                      *)
Pending(t) == signal[t] \ blocked[t]

NoSignal(t) ==
  /\ At(t, "return") /\ Pending(t) = {}
  /\ Goto(t, "user")
  /\ Stays
  /\ UNCHANGED <<ids, father, signal, blocked, arg, last_pid, shell>>

do_signal(t) ==
  /\ At(t, "return") /\ Pending(t) # {}
  /\ signal' = [signal EXCEPT ![t] = @ \ (IF SIGHUP \in Pending(t) THEN {SIGHUP} ELSE {SIGCHLD})]
  /\ Goto(t, "user")
  /\ Stays
  /\ UNCHANGED <<ids, father, blocked, arg, last_pid, shell>>

SignalExits(t) ==
  /\ At(t, "return") /\ SIGHUP \in Pending(t)
  /\ do_exit(t)

sys_ssetmask(t, mask) ==
  /\ At(t, "user")
  /\ blocked' = [blocked EXCEPT ![t] = mask]
  /\ Goto(t, "return")
  /\ Stays
  /\ UNCHANGED <<ids, father, signal, arg, last_pid, shell>>

(* sys_kill.  The else of its last line belongs to the if of the loop for  *)
(* pid -1: after the first task that can be signalled, from the last slot  *)
(* down, that loop signals the group 1 only; and kill() does nothing for   *)
(* pid < -1.                                                               *)
Targets(t, p) ==
  {u \in Tasks : /\ Exists(u)
                 /\ \/ p = 0 /\ pgrp[u] = pid[t]
                    \/ p > 0 /\ pid[u] = p
                    \/ p = -1 /\ \/ pgrp[u] = 1
                                 \/ \A v \in Tasks : Exists(v) => v <= u}

sys_kill(t, p, sig) ==
  /\ At(t, "user")
  /\ signal' = [u \in Tasks |-> IF u \in Targets(t, p) THEN signal[u] \cup {sig} ELSE signal[u]]
  /\ Goto(t, "return")
  /\ Stays
  /\ UNCHANGED <<ids, father, blocked, arg, last_pid, shell>>

sys_setsid(t) ==
  /\ leader'  = [leader  EXCEPT ![t] = TRUE]
  /\ session' = [session EXCEPT ![t] = pid[t]]
  /\ pgrp'    = [pgrp    EXCEPT ![t] = pid[t]]
  /\ Stays
  /\ UNCHANGED <<pid, father, signal, blocked, arg, last_pid, shell>>

sys_setpgid(t, u, g) ==
  /\ At(t, "user")
  /\ Exists(u) /\ ~leader[u] /\ session[u] = session[t]
  /\ pgrp' = [pgrp EXCEPT ![u] = g]
  /\ Goto(t, "return")
  /\ Stays
  /\ UNCHANGED <<pid, father, session, leader, signal, blocked, arg, last_pid, shell>>

(* shell() in init/main.c: setsid, then execve, and _exit if that fails.   *)
Shell(t) ==
  /\ t # init /\ At(t, "kernel")
  /\ \/ ~leader[t] /\ sys_setsid(t) /\ UNCHANGED call
     \/ /\ leader[t] /\ Goto(t, "user") /\ Stays
        /\ UNCHANGED <<ids, father, signal, blocked, arg, last_pid, shell>>
     \/ leader[t] /\ do_exit(t)

-----------------------------------------------------------------------------
TaskStep(t) ==
  \/ do_timer(t) \/ sys_fork(t) \/ ForkFails(t) \/ Shell(t)
  \/ sys_exit(t) \/ ExitBlocks(t) \/ ExitUnblocked(t) \/ ExitEnds(t)
  \/ \E p \in WaitArgs, nohang \in BOOLEAN : At(t, "user") /\ sys_waitpid(t, p, nohang)
  \/ \E c \in Tasks : release(t, c)
  \/ Reaped(t) \/ WaitReturns(t) \/ WaitSleeps(t) \/ WaitWakes(t)
  \/ NoSignal(t) \/ do_signal(t) \/ SignalExits(t)
  \/ \E mask \in Masks : sys_ssetmask(t, mask)
  \/ \E p \in KillArgs, sig \in KillSigs : sys_kill(t, p, sig)
  \/ At(t, "user") /\ sys_setsid(t) /\ Goto(t, "return")
  \/ \E u \in Tasks, g \in Groups : sys_setpgid(t, u, g)

(* init(): start a shell, then wait() until it has ended. *)
InitStep ==
  \/ kernel_thread
  \/ At(init, "kernel") /\ shell # 0 /\ sys_waitpid(init, -1, FALSE)

Next == Idle \/ InitStep \/ \E t \in Tasks : TaskStep(t)

Spec == Init /\ [][Next]_vars

-----------------------------------------------------------------------------
(* Types: what the fields of a task slot and the globals of the scheduler can hold. *)
TypeOK ==
  /\ state \in [Tasks -> {"none", "running", "interruptible", "uninterruptible", "zombie"}]
  /\ pid \in [Tasks -> Pids] /\ father \in [Tasks -> 0..MaxPid]
  /\ pgrp \in [Tasks -> 0..MaxPid] /\ session \in [Tasks -> 0..MaxPid]
  /\ leader \in [Tasks -> BOOLEAN]
  /\ signal \in [Tasks -> SUBSET Signals] /\ blocked \in [Tasks -> SUBSET Signals]
  /\ call \in [Tasks -> Places]
  /\ arg \in [Tasks -> [pid : Int, nohang : BOOLEAN]]
  /\ current \in 0..NTasks /\ last_pid \in Pids /\ shell \in 0..MaxPid

(* No two processes have the same pid, whatever pids have wrapped around;  *)
(* and task[1], to which do_exit gives orphans, is init, with pid 1.       *)
PidsUnique ==
  /\ \A t, u \in Tasks : Exists(t) /\ Exists(u) /\ pid[t] = pid[u] => t = u
  /\ Alive(init) /\ pid[init] = 1

(* The father of every process is a process that has not exited and is not *)
(* past the loop of do_exit that gives its children away: the search of    *)
(* tell_father succeeds and no task ever releases itself while it runs.    *)
FatherAlive ==
  \A t \in Tasks \ {init} : Exists(t) =>
    \E f \in Tasks : Alive(f) /\ call[f] # "exit" /\ pid[f] = father[t]

(* A father asleep in waitpid whose child is a zombie has SIGCHLD pending, *)
(* so the next schedule() wakes it unless it has blocked the signal: the   *)
(* end of a child between the scan and the sleep is not lost.              *)
NoLostChild ==
  \A t, c \in Tasks :
    state[t] = "interruptible" /\ call[t] = "wait" /\ Zombie(t, c) /\ arg[t].pid # 0 /\ arg[t].pid >= -1
      => SIGCHLD \in signal[t]

(* A process asleep in waitpid for any child, or for one child, has such a *)
(* child: nobody waits for a process that cannot end.  The child of init   *)
(* is the shell it started last, so init never gets -ECHILD.               *)
WaiterHasChild ==
  /\ \A t \in Tasks : Alive(t) /\ call[t] = "wait" /\ (arg[t].pid > 0 \/ arg[t].pid = -1)
       => \E c \in Tasks : Matches(t, c)
  /\ shell # 0 => \E c \in Tasks : Exists(c) /\ pid[c] = shell /\ father[c] = pid[init]

(* A session leader keeps its own session and group, whoever calls         *)
(* setpgid, setsid or fork, and no two leaders share a session: the exit   *)
(* of one does not hang up the session of another.                         *)
LeaderKeepsGroup ==
  \A t \in Tasks : Exists(t) /\ leader[t] =>
    /\ session[t] = pid[t] /\ pgrp[t] = pid[t]
    /\ \A u \in Tasks : Exists(u) /\ leader[u] /\ session[u] = session[t] => u = t

(* A zombie stays as it is until its father takes it in waitpid: an exit   *)
(* is reported once, and to the father only.                               *)
OnlyFatherReaps ==
  [][\A c \in Tasks : state[c] = "zombie" /\ state'[c] # "zombie" =>
       /\ state'[c] = "none"
       /\ \E f \in Tasks : current = f /\ call[f] = "scan" /\ father[c] = pid[f]]_vars
=============================================================================
