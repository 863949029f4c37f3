-------------------------------- MODULE Sched --------------------------------
(***************************************************************************)
(* The scheduler and the wait queues: kernel/sched.c, with the parts of    *)
(* kernel/exit.c, kernel/fork.c and kernel/traps.c that make a task        *)
(* runnable, stop it or take it away.                                      *)
(*                                                                         *)
(* A wait queue is one pointer, wait[q].  The rest of the queue is in the  *)
(* kernel stacks of the sleepers: sleep_on saves the old head in its local *)
(* variable tmp and wakes it when it runs again.  The kernel is not        *)
(* preemptive, so everything between two calls of schedule() is atomic.    *)
(*                                                                         *)
(* Time is abstracted: an armed alarm may have expired at any schedule().  *)
(***************************************************************************)
EXTENDS Naturals

CONSTANTS
  NTasks,       \* slots of task[] after task 0; task 1 is init
  Queues,       \* wait queues: i_wait, b_wait, buffer_wait, ...
  DefPriority,  \* priority (and counter) of INIT_TASK
  MaxPriority,  \* bound: nice() does not raise a priority above this
  Nicer,        \* positive arguments of nice()
  Ruder         \* absolute values of its negative arguments

ASSUME ConstantsOK ==
  /\ NTasks \in Nat /\ NTasks > 0
  /\ DefPriority \in Nat /\ MaxPriority \in Nat /\ DefPriority <= MaxPriority
  /\ Nicer \subseteq Nat /\ Ruder \subseteq Nat

Tasks   == 1..NTasks
init    == 1
NoQueue == "none"

VARIABLES
  state,     \* of every task[] entry; "none" where the entry is NULL
  counter,   \* time slices left
  priority,
  signal,    \* is a signal pending that is not blocked?
  alarm,     \* is an alarm set?
  current,   \* the running task; 0 is the idle task
  mode,      \* "user", "kernel", or "sleep_on" for the tasks in sleep_on
  wait,      \* head of every wait queue, 0 for NULL
  tmp,       \* the local variable tmp of sleep_on, 0 for NULL
  on,        \* the argument of that sleep_on
  hung       \* is the loop of schedule() endless?

vars == <<state, counter, priority, signal, alarm, current, mode, wait, tmp, on, hung>>

Runs(t) == current = t /\ ~hung

-----------------------------------------------------------------------------
(* main() starts init with kernel_thread and goes to sleep; schedule() has *)
(* picked init.                                                            *)
Init ==
  /\ state    = [t \in Tasks |-> IF t = init THEN "running" ELSE "none"]
  /\ counter  = [t \in Tasks |-> DefPriority]
  /\ priority = [t \in Tasks |-> DefPriority]
  /\ signal   = [t \in Tasks |-> FALSE]
  /\ alarm    = [t \in Tasks |-> FALSE]
  /\ current  = init
  /\ mode     = [t \in Tasks |-> "kernel"]
  /\ wait     = [q \in Queues |-> 0]
  /\ tmp      = [t \in Tasks |-> 0]
  /\ on       = [t \in Tasks |-> NoQueue]
  /\ hung     = FALSE

Running(st) == {t \in Tasks : st[t] = "running"}

AllZero(R, ct) == R # {} /\ \A t \in R : ct[t] = 0

(* Faulty variant of Chosen: the search stops before task 1. *)
ChosenSkipsFirst(R, ct) ==
  IF R \ {1} = {} THEN {0}
    ELSE {t \in R \ {1} : \A u \in R : ct[u] < ct[t] \/ (ct[u] = ct[t] /\ u <= t)}

(* The task with the largest counter; of several, the last in task[].      *)
Chosen(R, ct) ==
  IF R = {} THEN {0}
            ELSE {t \in R : \A u \in R : ct[u] < ct[t] \/ (ct[u] = ct[t] /\ u <= t)}

(* Tasks that wait for a signal and have one become runnable. *)
Woken(st, sg) ==
  [t \in Tasks |-> IF st[t] = "interruptible" /\ sg[t] THEN "running" ELSE st[t]]

(* Faulty variant of Recharged: the old counter is not halved. *)
RechargedInFull(st, ct) ==
  [t \in Tasks |-> IF st[t] # "none" THEN ct[t] + priority[t] ELSE ct[t]]

(* New counters, for the sleepers too. *)
Recharged(st, ct) ==
  [t \in Tasks |-> IF st[t] # "none" THEN ct[t] \div 2 + priority[t] ELSE ct[t]]

(* The scheduler proper.  The loop ends when some running task has a       *)
(* counter; when every running task has priority 0 it never does.          *)
switch_to(st, ct) ==
  LET R   == Running(st)
      ct2 == IF AllZero(R, ct) THEN Recharged(st, ct) ELSE ct
  IN
  /\ state'   = st
  /\ counter' = ct2
  /\ hung'    = AllZero(R, ct2)
  /\ current' \in IF AllZero(R, ct2) THEN {current} ELSE Chosen(R, ct2)

(* schedule(), called with states st, counters ct and signals sg.          *)
schedule(st, ct, sg) ==
  \E expired \in SUBSET {t \in Tasks : alarm[t] /\ st[t] # "none"} :
    /\ signal' = [t \in Tasks |-> sg[t] \/ t \in expired]
    /\ alarm'  = [t \in Tasks |-> alarm[t] /\ t \notin expired]
    /\ switch_to(Woken(st, signal'), ct)

(* The loop of schedule() goes on for ever. *)
Spin ==
  /\ hung
  /\ counter' = Recharged(state, counter)
  /\ UNCHANGED <<state, priority, signal, alarm, current, mode, wait, tmp, on, hung>>

-----------------------------------------------------------------------------
(* Task 0: for (;;) pause(). *)
Idle ==
  /\ Runs(0)
  /\ schedule(state, counter, signal)
  /\ UNCHANGED <<priority, mode, wait, tmp, on>>

(* The timer interrupt in user mode: do_timer(1). *)
TickUser(t) ==
  /\ Runs(t) /\ mode[t] = "user"
  /\ mode' = [mode EXCEPT ![t] = "kernel"]
  /\ \/ /\ counter[t] > 1
        /\ counter' = [counter EXCEPT ![t] = @ - 1]
        /\ UNCHANGED <<state, signal, alarm, current, hung>>
     \/ /\ counter[t] <= 1
        /\ schedule(state, [counter EXCEPT ![t] = priority[t]], signal)
  /\ UNCHANGED <<priority, wait, tmp, on>>

(* The timer interrupt in kernel mode: do_timer(0) never schedules. *)
TickKernel(t) ==
  /\ Runs(t) /\ mode[t] = "kernel"
  /\ counter' = [counter EXCEPT ![t] = IF @ > 0 THEN @ - 1 ELSE 0]
  /\ UNCHANGED <<state, priority, signal, alarm, current, mode, wait, tmp, on, hung>>

(* ecall; and the way back, where do_signals takes the first signal that   *)
(* is pending.  init stays in the kernel.                                  *)
SysEnter(t) ==
  /\ Runs(t) /\ mode[t] = "user"
  /\ mode' = [mode EXCEPT ![t] = "kernel"]
  /\ UNCHANGED <<state, counter, priority, signal, alarm, current, wait, tmp, on, hung>>

SysReturn(t) ==
  /\ Runs(t) /\ mode[t] = "kernel" /\ t # init
  /\ mode' = [mode EXCEPT ![t] = "user"]
  /\ \E more \in {signal[t], FALSE} : signal' = [signal EXCEPT ![t] = more]
  /\ UNCHANGED <<state, counter, priority, alarm, current, wait, tmp, on, hung>>

-----------------------------------------------------------------------------
InKernel(t) == Runs(t) /\ mode[t] = "kernel"

(* sys_pause, and sys_waitpid with no child to report. *)
sys_pause(t) ==
  /\ InKernel(t)
  /\ schedule([state EXCEPT ![t] = "interruptible"], counter, signal)
  /\ UNCHANGED <<priority, mode, wait, tmp, on>>

(* Faulty variant of sleep_on: the task that slept before is forgotten. *)
SleepForgets(t, q) ==
  /\ InKernel(t)
  /\ wait' = [wait EXCEPT ![q] = t]
  /\ on'   = [on EXCEPT ![t] = q]
  /\ mode' = [mode EXCEPT ![t] = "sleep_on"]
  /\ schedule([state EXCEPT ![t] = "uninterruptible"], counter, signal)
  /\ UNCHANGED <<priority, tmp>>

(* sleep_on(q) up to schedule(). *)
sleep_on(t, q) ==
  /\ InKernel(t)
  /\ tmp'  = [tmp EXCEPT ![t] = wait[q]]
  /\ wait' = [wait EXCEPT ![q] = t]
  /\ on'   = [on EXCEPT ![t] = q]
  /\ mode' = [mode EXCEPT ![t] = "sleep_on"]
  /\ schedule([state EXCEPT ![t] = "uninterruptible"], counter, signal)
  /\ UNCHANGED priority

(* The rest of sleep_on: wake the task that was asleep before this one.    *)
Awake(t) ==
  /\ Runs(t) /\ mode[t] = "sleep_on"
  /\ state' = [u \in Tasks |-> IF u = tmp[t] THEN "running" ELSE state[u]]
  /\ tmp'   = [tmp EXCEPT ![t] = 0]
  /\ mode'  = [mode EXCEPT ![t] = "kernel"]
  /\ on'    = [on EXCEPT ![t] = NoQueue]
  /\ UNCHANGED <<counter, priority, signal, alarm, current, wait, hung>>

(* Faulty variant of wake_up: the head of the queue is not cleared. *)
WakeKeepsHead(t, q) ==
  /\ InKernel(t) /\ wait[q] # 0
  /\ state' = [state EXCEPT ![wait[q]] = "running"]
  /\ UNCHANGED <<counter, priority, signal, alarm, current, mode, wait, tmp, on, hung>>

wake_up(t, q) ==
  /\ InKernel(t) /\ wait[q] # 0
  /\ state' = [state EXCEPT ![wait[q]] = "running"]
  /\ wait'  = [wait EXCEPT ![q] = 0]
  /\ UNCHANGED <<counter, priority, signal, alarm, current, mode, tmp, on, hung>>

-----------------------------------------------------------------------------
(* sys_nice, with a positive and with a negative argument.  init calls     *)
(* none of the next three.                                                 *)
sys_nice(t) ==
  /\ InKernel(t) /\ t # init
  /\ \/ \E i \in Nicer : priority[t] >= i /\ priority' = [priority EXCEPT ![t] = @ - i]
     \/ \E i \in Ruder : priority[t] + i <= MaxPriority /\ priority' = [priority EXCEPT ![t] = @ + i]
  /\ UNCHANGED <<state, counter, signal, alarm, current, mode, wait, tmp, on, hung>>

sys_alarm(t) ==
  /\ InKernel(t) /\ t # init
  /\ \E set \in BOOLEAN : alarm' = [alarm EXCEPT ![t] = set]
  /\ UNCHANGED <<state, counter, priority, signal, current, mode, wait, tmp, on, hung>>

(* sys_kill: the signal is noticed at the next schedule(). *)
sys_kill(t, u) ==
  /\ InKernel(t) /\ t # init /\ state[u] # "none"
  /\ signal' = [signal EXCEPT ![u] = TRUE]
  /\ UNCHANGED <<state, counter, priority, alarm, current, mode, wait, tmp, on, hung>>

(* copy_process and kernel_thread: a runnable copy with a full slice. *)
fork(t, c) ==
  /\ InKernel(t)
  /\ state[c] = "none" /\ \A u \in Tasks : u < c => state[u] # "none"
  /\ state'    = [state EXCEPT ![c] = "running"]
  /\ priority' = [priority EXCEPT ![c] = priority[t]]
  /\ counter'  = [counter EXCEPT ![c] = priority[t]]
  /\ signal'   = [signal EXCEPT ![c] = FALSE]
  /\ alarm'    = [alarm EXCEPT ![c] = FALSE]
  /\ mode'     = [mode EXCEPT ![c] = "kernel"]
  /\ UNCHANGED <<current, wait, tmp, on, hung>>

(* do_exit: SIGCHLD to the father f. *)
do_exit(t, f) ==
  /\ InKernel(t) /\ t # init
  /\ f # t /\ state[f] \notin {"none", "zombie"}
  /\ schedule([state EXCEPT ![t] = "zombie"], counter, [signal EXCEPT ![f] = TRUE])
  /\ UNCHANGED <<priority, mode, wait, tmp, on>>

(* release, called by the waitpid of t. *)
release(t, z) ==
  /\ InKernel(t) /\ state[z] = "zombie"
  /\ schedule([state EXCEPT ![z] = "none"], counter, signal)
  /\ UNCHANGED <<priority, mode, wait, tmp, on>>

-----------------------------------------------------------------------------
TaskStep(t) ==
  \/ TickUser(t)
  \/ TickKernel(t)
  \/ SysEnter(t)
  \/ SysReturn(t)
  \/ sys_pause(t)
  \/ Awake(t)
  \/ sys_nice(t)
  \/ sys_alarm(t)
  \/ \E q \in Queues : sleep_on(t, q) \/ wake_up(t, q)
  \/ \E u \in Tasks : sys_kill(t, u) \/ fork(t, u) \/ do_exit(t, u) \/ release(t, u)

Next == Spin \/ Idle \/ \E t \in Tasks : TaskStep(t)

Spec == Init /\ [][Next]_vars

(* Only busy tasks: init forks children that compute in user mode, waits,  *)
(* and the timer keeps ticking.                                            *)
BusyNext ==
  \/ Idle
  \/ sys_pause(init)
  \/ \E t \in Tasks : fork(init, t) \/ SysReturn(t) \/ TickUser(t)

BusySpec == Init /\ [][BusyNext]_vars /\ WF_vars(BusyNext)

-----------------------------------------------------------------------------
States == {"none", "running", "interruptible", "uninterruptible", "zombie"}

(* Types: what the fields of a task slot and the wait queues can hold. *)
TypeOK ==
  /\ state    \in [Tasks -> States]
  /\ counter  \in [Tasks -> Nat]
  /\ priority \in [Tasks -> 0..MaxPriority]
  /\ signal   \in [Tasks -> BOOLEAN]
  /\ alarm    \in [Tasks -> BOOLEAN]
  /\ current  \in Tasks \cup {0}
  /\ mode     \in [Tasks -> {"user", "kernel", "sleep_on"}]
  /\ wait     \in [Queues -> Tasks \cup {0}]
  /\ tmp      \in [Tasks -> Tasks \cup {0}]
  /\ on       \in [Tasks -> Queues \cup {NoQueue}]
  /\ hung     \in BOOLEAN

Asleep(t) == state[t] = "uninterruptible"

(* Every pointer to a sleeper, the head of a queue or a tmp in a kernel    *)
(* stack, leads to a task that is asleep on that very queue: wake_up and   *)
(* the end of sleep_on never set the state of a task that has exited, was  *)
(* released, or has gone to sleep elsewhere.                               *)
QueuePointers ==
  /\ \A q \in Queues : wait[q] # 0 => Asleep(wait[q]) /\ on[wait[q]] = q
  /\ \A t \in Tasks : tmp[t] # 0 => Asleep(tmp[t]) /\ on[tmp[t]] = on[t] /\ mode[t] = "sleep_on"

(* No sleeper is lost: of the sleepers of every nonempty set, one is the   *)
(* head of its queue or is kept in the tmp of a task outside of the set.   *)
(* (So from every sleeper the tmp pointers lead, backwards, to a head that *)
(* wake_up finds or to a task that is awake and will pass the wake-up on.) *)
NoLostSleeper ==
  \A X \in SUBSET {t \in Tasks : Asleep(t)} : X # {} =>
     \E t \in X : \/ wait[on[t]] = t
                  \/ \E u \in Tasks \ X : tmp[u] = t

(* The task that has the processor can run, and the idle task has it only  *)
(* when no other can, however tasks were woken, forked and killed since    *)
(* schedule() chose.                                                       *)
WorkConserving ==
  /\ Runs(0) => \A t \in Tasks : state[t] # "running"
  /\ \A t \in Tasks : Runs(t) => state[t] = "running"

(* A task that sleeps does not gather time slices without bound. *)
CreditBounded == \A t \in Tasks : counter[t] <= 2 * MaxPriority

(* Busy tasks make progress concurrently: each gets its turn. *)
BusyTasksProgress ==
  \A t \in Tasks : (state[t] = "running") ~> (current = t \/ state[t] # "running")
=============================================================================
