----------------------------- MODULE SchedProofs -----------------------------
(***************************************************************************)
(* The wait queues of Sched keep their sleepers, for any number of tasks   *)
(* and queues and any priorities.                                          *)
(*                                                                         *)
(* QueuePointers alone is not inductive: when a task is woken through one  *)
(* pointer, a second pointer to it would be left behind.  Single says that *)
(* there never is a second one, and SleepModes ties the state of a task to *)
(* where it is in sleep_on.                                                *)
(***************************************************************************)
EXTENDS Sched, TLAPS

(* A task that is asleep is inside sleep_on; a task inside sleep_on is     *)
(* asleep or runnable; only a task inside sleep_on has a tmp.              *)
SleepModes ==
  \A t \in Tasks : /\ Asleep(t) => mode[t] = "sleep_on"
                   /\ mode[t] = "sleep_on" => state[t] \in {"uninterruptible", "running"}
                   /\ mode[t] # "sleep_on" => tmp[t] = 0

(* A sleeper is the head of a queue or the tmp of one task, never two of   *)
(* these.                                                                  *)
Single ==
  /\ \A t, u \in Tasks : tmp[t] # 0 /\ tmp[t] = tmp[u] => t = u
  /\ \A q \in Queues, t \in Tasks : wait[q] # 0 => tmp[t] # wait[q]

QueueInv == QueuePointers /\ SleepModes /\ Single /\ NoLostSleeper

IInv == TypeOK /\ QueueInv /\ WorkConserving /\ CreditBounded

(* Task numbers start at 1: 0 is the idle task and the null pointer. *)
LEMMA TaskNumbers == 0 \notin Tasks /\ init \in Tasks /\ Tasks \subseteq Nat
  BY ConstantsOK DEF Tasks, init

(* main() starts init with empty queues. *)
THEOREM InitInv == Init => IInv
<1> SUFFICES ASSUME Init PROVE IInv
  OBVIOUS
<1> USE TaskNumbers, ConstantsOK
<1>1. TypeOK
  <2>1. signal \in [Tasks -> BOOLEAN] /\ alarm \in [Tasks -> BOOLEAN]
    BY Zenon DEF Init
  <2>2. DefPriority \in Nat /\ DefPriority \in 0..MaxPriority
    OBVIOUS
  <2>3. counter \in [Tasks -> Nat] /\ priority \in [Tasks -> 0..MaxPriority]
    BY <2>2 DEF Init
  <2>4. /\ state \in [Tasks -> States] /\ current \in Tasks \cup {0} /\ hung \in BOOLEAN
        /\ mode \in [Tasks -> {"user", "kernel", "sleep_on"}]
        /\ wait \in [Queues -> Tasks \cup {0}] /\ tmp \in [Tasks -> Tasks \cup {0}]
    BY ZenonT(30) DEF Init, States
  <2>5. on \in [Tasks -> Queues \cup {NoQueue}]
    BY DEF Init
  <2> QED BY <2>1, <2>3, <2>4, <2>5 DEF TypeOK
<1>2. \A t \in Tasks : ~Asleep(t) /\ tmp[t] = 0 /\ mode[t] = "kernel"
  BY DEF Init, Asleep
<1>3. QueueInv
  BY <1>2, ZenonT(30) DEF Init, QueueInv, QueuePointers, SleepModes, Single, NoLostSleeper
<1>4. WorkConserving
  BY DEF Init, WorkConserving, Runs
<1>5. CreditBounded
  BY DEF Init, CreditBounded
<1> QED BY <1>1, <1>3, <1>4, <1>5 DEF IInv

(* counter >> 1 is at most the priority that bounds it. *)
LEMMA HalfBound == \A c, m \in Nat : c <= 2 * m => c \div 2 \in Nat /\ c \div 2 <= m
  OBVIOUS

(* What a call of schedule() does: it wakes interruptible tasks only, and  *)
(* whatever the states and counters are it chooses a task that can run.    *)
LEMMA ScheduleEffect ==
  ASSUME TypeOK, NEW st \in [Tasks -> States], NEW ct \in [Tasks -> Nat],
         NEW sg \in [Tasks -> BOOLEAN], schedule(st, ct, sg)
  PROVE  /\ state' \in [Tasks -> States]
         /\ \A t \in Tasks : \/ state'[t] = st[t]
                             \/ st[t] = "interruptible" /\ state'[t] = "running"
         /\ counter' \in [Tasks -> Nat] /\ signal' \in [Tasks -> BOOLEAN]
         /\ alarm' \in [Tasks -> BOOLEAN] /\ current' \in Tasks \cup {0} /\ hung' \in BOOLEAN
         /\ WorkConserving'
         /\ (\A t \in Tasks : ct[t] <= 2 * MaxPriority) => CreditBounded'
<1> USE TaskNumbers
<1> PICK expired \in SUBSET {t \in Tasks : alarm[t] /\ st[t] # "none"} :
      /\ signal' = [t \in Tasks |-> sg[t] \/ t \in expired]
      /\ alarm'  = [t \in Tasks |-> alarm[t] /\ t \notin expired]
      /\ switch_to(Woken(st, signal'), ct)
  BY Zenon DEF schedule
<1>1. signal' \in [Tasks -> BOOLEAN] /\ alarm' \in [Tasks -> BOOLEAN]
  OBVIOUS
<1>2. PICK st2 : st2 = Woken(st, signal')
  BY ZenonT(30)
<1>3. st2 \in [Tasks -> States]
  BY <1>2 DEF Woken, States
<1>4. \A t \in Tasks : st2[t] = st[t] \/ (st[t] = "interruptible" /\ st2[t] = "running")
  BY <1>2 DEF Woken
<1>5. PICK R : R = Running(st2)
  OBVIOUS
<1>6. PICK ct2 : ct2 = IF AllZero(R, ct) THEN Recharged(st2, ct) ELSE ct
  OBVIOUS
<1>7. /\ state' = st2 /\ counter' = ct2 /\ hung' = AllZero(R, ct2)
      /\ current' \in IF AllZero(R, ct2) THEN {current} ELSE Chosen(R, ct2)
  BY <1>2, <1>5, <1>6 DEF switch_to
<1>8. priority \in [Tasks -> 0..MaxPriority] /\ MaxPriority \in Nat
  BY ConstantsOK DEF TypeOK
<1>9. /\ ct2 \in [Tasks -> Nat]
      /\ \A t \in Tasks : \/ ct2[t] = ct[t]
                          \/ ct2[t] = ct[t] \div 2 + priority[t]
  BY <1>6, <1>8 DEF Recharged
<1>10. ASSUME NEW t \in Tasks, ct[t] <= 2 * MaxPriority PROVE ct2[t] <= 2 * MaxPriority
  <2>1. ct[t] \in Nat /\ priority[t] \in 0..MaxPriority
    BY <1>8
  <2>2. ct[t] \div 2 \in Nat /\ ct[t] \div 2 <= MaxPriority
    BY <2>1, <1>8, <1>10, HalfBound
  <2> QED BY <2>1, <2>2, <1>8, <1>9, <1>10
<1>11. hung' \in BOOLEAN
  BY <1>7 DEF AllZero
<1>12. current' \in Tasks \cup {0}
  BY <1>5, <1>7 DEF Chosen, Running, TypeOK
<1>13. ~hung' => current' \in Chosen(R, ct2)
  BY <1>7
<1>14. WorkConserving'
  BY <1>5, <1>7, <1>13 DEF WorkConserving, Runs, Chosen, Running
<1> QED BY <1>1, <1>3, <1>4, <1>7, <1>9, <1>10, <1>11, <1>12, <1>14 DEF CreditBounded

-----------------------------------------------------------------------------
(* A step that puts nobody to sleep, wakes no sleeper and leaves the       *)
(* pointers alone keeps the queues as they are.                            *)
LEMMA QueueSame ==
  ASSUME TypeOK, QueueInv,
         \A t \in Tasks : Asleep(t)' <=> Asleep(t),
         \A t \in Tasks : mode'[t] = "sleep_on" <=> mode[t] = "sleep_on",
         \A t \in Tasks : mode[t] = "sleep_on" /\ state[t] = "running" => state'[t] = "running",
         wait' = wait, tmp' = tmp, on' = on
  PROVE  QueueInv'
<1> USE DEF QueueInv
<1>1. QueuePointers'
  BY DEF QueuePointers, TypeOK
<1>2. SleepModes'
  BY DEF SleepModes, Asleep
<1>3. Single'
  BY DEF Single
<1>4. {t \in Tasks : Asleep(t)'} = {t \in Tasks : Asleep(t)}
  OBVIOUS
<1>5. NoLostSleeper'
  BY <1>4 DEF NoLostSleeper
<1> QED BY <1>1, <1>2, <1>3, <1>5

(* A task that has the processor in kernel mode is not in a queue. *)
LEMMA KernelIsAwake ==
  ASSUME IInv, NEW t \in Tasks, InKernel(t)
  PROVE  state[t] = "running" /\ mode[t] = "kernel" /\ ~Asleep(t) /\ tmp[t] = 0
  BY DEF IInv, QueueInv, SleepModes, WorkConserving, InKernel, Asleep

(* Steps that change the state of running and dead tasks only, and call    *)
(* schedule().                                                             *)
LEMMA ScheduleStep ==
  ASSUME IInv, NEW st \in [Tasks -> States], NEW ct \in [Tasks -> Nat],
         NEW sg \in [Tasks -> BOOLEAN], schedule(st, ct, sg),
         \A t \in Tasks : ct[t] <= 2 * MaxPriority,
         \A t \in Tasks : st[t] = state[t] \/ (mode[t] # "sleep_on" /\ st[t] # "uninterruptible"),
         \A t \in Tasks : mode'[t] = "sleep_on" <=> mode[t] = "sleep_on",
         mode' \in [Tasks -> {"user", "kernel", "sleep_on"}],
         UNCHANGED <<priority, wait, tmp, on>>
  PROVE  IInv'
<1>1. TypeOK /\ QueueInv
  BY DEF IInv
<1>2. /\ state' \in [Tasks -> States]
      /\ \A t \in Tasks : \/ state'[t] = st[t]
                          \/ st[t] = "interruptible" /\ state'[t] = "running"
      /\ counter' \in [Tasks -> Nat] /\ signal' \in [Tasks -> BOOLEAN]
      /\ alarm' \in [Tasks -> BOOLEAN] /\ current' \in Tasks \cup {0} /\ hung' \in BOOLEAN
      /\ WorkConserving' /\ CreditBounded'
  BY <1>1, ScheduleEffect
<1>3. TypeOK'
  BY <1>1, <1>2 DEF TypeOK
<1>4. \A t \in Tasks : Asleep(t)' <=> Asleep(t)
  BY <1>1, <1>2 DEF Asleep, QueueInv, SleepModes
<1>5. \A t \in Tasks : mode[t] = "sleep_on" /\ state[t] = "running" => state'[t] = "running"
  BY <1>2
<1>6. QueueInv'
  BY <1>1, <1>4, <1>5, QueueSame
<1> QED BY <1>2, <1>3, <1>6 DEF IInv

(* Steps that do not call schedule() and leave the states alone. *)
LEMMA QuietStep ==
  ASSUME IInv, TypeOK', CreditBounded',
         \A t \in Tasks : mode'[t] = "sleep_on" <=> mode[t] = "sleep_on",
         UNCHANGED <<state, current, wait, tmp, on, hung>>
  PROVE  IInv'
<1>1. QueueInv'
  <2>1. TypeOK /\ QueueInv /\ \A t \in Tasks : Asleep(t)' <=> Asleep(t)
    BY DEF IInv, Asleep
  <2> QED BY <2>1, QueueSame
<1>2. WorkConserving'
  BY DEF IInv, WorkConserving, Runs
<1> QED BY <1>1, <1>2 DEF IInv

-----------------------------------------------------------------------------
(* Each action keeps the invariant.  The idle loop and the endless loop:   *)
LEMMA IdleInv == IInv /\ Idle => IInv'
<1> SUFFICES ASSUME IInv, Idle PROVE IInv'
  OBVIOUS
<1>1. /\ state \in [Tasks -> States] /\ counter \in [Tasks -> Nat] /\ signal \in [Tasks -> BOOLEAN]
      /\ mode \in [Tasks -> {"user", "kernel", "sleep_on"}]
      /\ \A t \in Tasks : counter[t] <= 2 * MaxPriority
  BY DEF IInv, TypeOK, CreditBounded
<1> QED BY <1>1, ScheduleStep DEF Idle

(* Recharging keeps the counters within their bound. *)
LEMMA SpinInv == IInv /\ Spin => IInv'
<1> SUFFICES ASSUME IInv, Spin PROVE IInv'
  OBVIOUS
<1>1. TypeOK /\ CreditBounded
  BY DEF IInv
<1>2. MaxPriority \in Nat
  BY ConstantsOK
<1>3. ASSUME NEW t \in Tasks
      PROVE  counter[t] \div 2 + priority[t] \in Nat /\ counter[t] \div 2 + priority[t] <= 2 * MaxPriority
  <2>1. counter[t] \in Nat /\ priority[t] \in 0..MaxPriority /\ counter[t] <= 2 * MaxPriority
    BY <1>1 DEF TypeOK, CreditBounded
  <2>2. counter[t] \div 2 \in Nat /\ counter[t] \div 2 <= MaxPriority
    BY <2>1, <1>2, HalfBound
  <2> QED BY <2>1, <2>2, <1>2
<1>4. counter' \in [Tasks -> Nat] /\ \A t \in Tasks : counter'[t] <= 2 * MaxPriority
  BY <1>1, <1>3 DEF Spin, Recharged, TypeOK, CreditBounded
<1>5. TypeOK'
  BY <1>1, <1>4 DEF Spin, TypeOK
<1> QED BY <1>4, <1>5, QuietStep DEF Spin, CreditBounded

(* The timer interrupt in user mode. *)
LEMMA TickUserInv == \A t \in Tasks : IInv /\ TickUser(t) => IInv'
<1> SUFFICES ASSUME NEW t \in Tasks, IInv, TickUser(t) PROVE IInv'
  OBVIOUS
<1>1. TypeOK /\ CreditBounded /\ MaxPriority \in Nat
  BY ConstantsOK DEF IInv
<1>2. /\ mode' \in [Tasks -> {"user", "kernel", "sleep_on"}]
      /\ \A u \in Tasks : mode'[u] = "sleep_on" <=> mode[u] = "sleep_on"
  BY <1>1 DEF TickUser, TypeOK
<1>3. CASE counter[t] > 1 /\ counter' = [counter EXCEPT ![t] = @ - 1]
             /\ UNCHANGED <<state, signal, alarm, current, hung>>
  <2>1. counter[t] \in Nat /\ counter[t] - 1 \in Nat /\ counter[t] <= 2 * MaxPriority
    BY <1>1, <1>3 DEF TypeOK, CreditBounded
  <2>2. counter' \in [Tasks -> Nat] /\ CreditBounded'
    BY <1>1, <1>3, <2>1 DEF TypeOK, CreditBounded
  <2>3. TypeOK'
    BY <1>1, <1>2, <1>3, <2>2 DEF TickUser, TypeOK
  <2> QED BY <1>2, <1>3, <2>2, <2>3, QuietStep DEF TickUser
<1>4. CASE schedule(state, [counter EXCEPT ![t] = priority[t]], signal)
  <2>1. PICK ct : ct = [counter EXCEPT ![t] = priority[t]]
    BY ZenonT(30)
  <2>2. ct \in [Tasks -> Nat] /\ \A u \in Tasks : ct[u] <= 2 * MaxPriority
    BY <1>1, <2>1 DEF TypeOK, CreditBounded
  <2>3. state \in [Tasks -> States] /\ signal \in [Tasks -> BOOLEAN]
    BY <1>1 DEF TypeOK
  <2>4. schedule(state, ct, signal)
    BY <1>4, <2>1
  <2> QED BY <1>2, <2>2, <2>3, <2>4, ScheduleStep DEF TickUser
<1> QED BY <1>3, <1>4 DEF TickUser

(* The timer interrupt in kernel mode. *)
LEMMA TickKernelInv == \A t \in Tasks : IInv /\ TickKernel(t) => IInv'
<1> SUFFICES ASSUME NEW t \in Tasks, IInv, TickKernel(t) PROVE IInv'
  OBVIOUS
<1>1. TypeOK /\ CreditBounded /\ MaxPriority \in Nat
  BY ConstantsOK DEF IInv
<1>2. counter[t] \in Nat /\ counter[t] <= 2 * MaxPriority
  BY <1>1 DEF TypeOK, CreditBounded
<1>3. PICK n : n = IF counter[t] > 0 THEN counter[t] - 1 ELSE 0
  OBVIOUS
<1>6. n \in Nat /\ n <= 2 * MaxPriority
  BY <1>1, <1>2, <1>3
<1>7. counter' = [counter EXCEPT ![t] = n]
  BY <1>3 DEF TickKernel
<1>4. counter' \in [Tasks -> Nat] /\ CreditBounded'
  BY <1>1, <1>6, <1>7 DEF TypeOK, CreditBounded
<1>5. TypeOK'
  BY <1>1, <1>4 DEF TickKernel, TypeOK
<1> QED BY <1>4, <1>5, QuietStep DEF TickKernel

(* Entering and leaving the kernel, nice(), alarm() and kill(). *)
LEMMA SystemCallInv ==
  ASSUME NEW t \in Tasks, IInv,
         \/ SysEnter(t) \/ SysReturn(t) \/ sys_nice(t) \/ sys_alarm(t)
         \/ \E u \in Tasks : sys_kill(t, u)
  PROVE  IInv'
<1>1. TypeOK /\ CreditBounded /\ MaxPriority \in Nat
  BY ConstantsOK DEF IInv
<1>2. /\ UNCHANGED <<state, current, wait, tmp, on, hung, counter>>
      /\ mode' \in [Tasks -> {"user", "kernel", "sleep_on"}]
      /\ \A u \in Tasks : mode'[u] = "sleep_on" <=> mode[u] = "sleep_on"
  BY <1>1 DEF SysEnter, SysReturn, sys_nice, sys_alarm, sys_kill, TypeOK
<1>3. signal' \in [Tasks -> BOOLEAN] /\ alarm' \in [Tasks -> BOOLEAN]
  <2>1. signal \in [Tasks -> BOOLEAN] /\ alarm \in [Tasks -> BOOLEAN] /\ signal[t] \in BOOLEAN
    BY <1>1 DEF TypeOK
  <2>2. \/ UNCHANGED <<signal, alarm>>
        \/ alarm' = alarm /\ \E u \in Tasks, b \in BOOLEAN : signal' = [signal EXCEPT ![u] = b]
        \/ signal' = signal /\ \E b \in BOOLEAN : alarm' = [alarm EXCEPT ![t] = b]
    BY <2>1, Zenon DEF SysEnter, SysReturn, sys_nice, sys_alarm, sys_kill
  <2> QED BY <2>1, <2>2
<1>4. priority' \in [Tasks -> 0..MaxPriority]
  <2>1. CASE sys_nice(t)
    <3>1. Nicer \subseteq Nat /\ Ruder \subseteq Nat /\ priority[t] \in 0..MaxPriority
      BY <1>1, ConstantsOK DEF TypeOK
    <3>2. PICK n \in 0..MaxPriority : priority' = [priority EXCEPT ![t] = n]
      BY <1>1, <2>1, <3>1 DEF sys_nice
    <3> QED BY <1>1, <3>2 DEF TypeOK
  <2>2. CASE ~sys_nice(t)
    BY <1>1, <2>2 DEF SysEnter, SysReturn, sys_alarm, sys_kill, TypeOK
  <2> QED BY <2>1, <2>2
<1>5. TypeOK'
  BY <1>1, <1>2, <1>3, <1>4 DEF TypeOK
<1>6. CreditBounded'
  BY <1>1, <1>2 DEF CreditBounded
<1> QED BY <1>2, <1>5, <1>6, QuietStep

(* pause(), exit and the release of a dead child: no sleeper is touched.   *)
LEMMA StopInv ==
  ASSUME NEW t \in Tasks, IInv,
         \/ sys_pause(t)
         \/ \E u \in Tasks : do_exit(t, u) \/ release(t, u)
  PROVE  IInv'
<1>1. TypeOK /\ QueueInv /\ InKernel(t)
  BY ZenonT(30) DEF IInv, sys_pause, do_exit, release
<1>2. state[t] = "running" /\ mode[t] = "kernel"
  BY <1>1, KernelIsAwake
<1>3. PICK u \in Tasks, x \in {"interruptible", "zombie", "none"}, sg \in [Tasks -> BOOLEAN] :
        /\ schedule([state EXCEPT ![u] = x], counter, sg)
        /\ state[u] \in {"running", "zombie"} /\ mode[u] # "sleep_on"
  <2>1. CASE sys_pause(t)
    BY <1>1, <1>2, <2>1, ZenonT(30) DEF sys_pause, TypeOK
  <2>2. CASE \E f \in Tasks : do_exit(t, f)
    <3>1. PICK f \in Tasks : do_exit(t, f)
      BY <2>2
    <3>2. PICK sg : sg = [signal EXCEPT ![f] = TRUE]
      BY ZenonT(30)
    <3>3. sg \in [Tasks -> BOOLEAN]
      BY <1>1, <3>2 DEF TypeOK
    <3> QED BY <1>2, <3>1, <3>2, <3>3, ZenonT(30) DEF do_exit
  <2>3. CASE \E z \in Tasks : release(t, z)
    <3>1. PICK z \in Tasks : release(t, z)
      BY <2>3
    <3>2. state[z] = "zombie" /\ mode[z] # "sleep_on"
      BY <1>1, <3>1 DEF release, QueueInv, SleepModes
    <3>3. signal \in [Tasks -> BOOLEAN] /\ schedule([state EXCEPT ![z] = "none"], counter, signal)
      BY <1>1, <3>1 DEF release, TypeOK
    <3> QED BY <3>2, <3>3, ZenonT(30)
  <2> QED BY <2>1, <2>2, <2>3, ZenonT(30)
<1>4. PICK st : st = [state EXCEPT ![u] = x]
  BY ZenonT(30)
<1>5. /\ st \in [Tasks -> States]
      /\ \A v \in Tasks : st[v] = state[v] \/ (mode[v] # "sleep_on" /\ st[v] # "uninterruptible")
  BY <1>1, <1>3, <1>4 DEF TypeOK, States
<1>6. /\ counter \in [Tasks -> Nat] /\ \A v \in Tasks : counter[v] <= 2 * MaxPriority
      /\ mode \in [Tasks -> {"user", "kernel", "sleep_on"}]
  BY DEF IInv, TypeOK, CreditBounded
<1>7. UNCHANGED <<priority, mode, wait, tmp, on>>
  BY ZenonT(30) DEF sys_pause, do_exit, release
<1>8. schedule(st, counter, sg)
  BY <1>3, <1>4
<1> QED BY <1>5, <1>6, <1>7, <1>8, ScheduleStep

(* A new task starts outside of every queue. *)
LEMMA ForkInv == \A t, c \in Tasks : IInv /\ fork(t, c) => IInv'
<1> SUFFICES ASSUME NEW t \in Tasks, NEW c \in Tasks, IInv, fork(t, c) PROVE IInv'
  OBVIOUS
<1>1. TypeOK /\ QueueInv /\ CreditBounded /\ MaxPriority \in Nat
  BY ConstantsOK DEF IInv
<1>2. state[c] = "none" /\ mode[c] # "sleep_on" /\ Runs(t)
  BY <1>1 DEF fork, InKernel, QueueInv, SleepModes
<1>3. priority[t] \in Nat /\ priority[t] \in 0..MaxPriority /\ priority[t] <= 2 * MaxPriority
  BY <1>1 DEF TypeOK
<1>4. counter' \in [Tasks -> Nat] /\ CreditBounded'
  BY <1>1, <1>3 DEF fork, TypeOK, CreditBounded
<1>5. signal' \in [Tasks -> BOOLEAN] /\ alarm' \in [Tasks -> BOOLEAN]
  <2>1. signal \in [Tasks -> BOOLEAN] /\ alarm \in [Tasks -> BOOLEAN]
    BY <1>1 DEF TypeOK
  <2>2. signal' = [signal EXCEPT ![c] = FALSE] /\ alarm' = [alarm EXCEPT ![c] = FALSE]
    BY DEF fork
  <2> QED BY <2>1, <2>2
<1>6. /\ state' \in [Tasks -> States] /\ priority' \in [Tasks -> 0..MaxPriority]
      /\ mode' \in [Tasks -> {"user", "kernel", "sleep_on"}]
  BY <1>1, <1>3 DEF fork, TypeOK, States
<1>7. TypeOK'
  BY <1>1, <1>4, <1>5, <1>6 DEF fork, TypeOK
<1>8. /\ \A u \in Tasks : mode'[u] = "sleep_on" <=> mode[u] = "sleep_on"
      /\ \A u \in Tasks : Asleep(u)' <=> Asleep(u)
      /\ \A u \in Tasks : state[u] = "running" => state'[u] = "running"
  BY <1>1, <1>2 DEF fork, TypeOK, Asleep
<1>9. QueueInv'
  BY <1>1, <1>8, QueueSame DEF fork
<1>10. WorkConserving'
  BY <1>2, <1>8, TaskNumbers DEF fork, IInv, WorkConserving, Runs
<1> QED BY <1>4, <1>7, <1>9, <1>10 DEF IInv

(* wake_up takes the head out of the queue and wakes it. *)
LEMMA WakeUpInv == \A t \in Tasks, q \in Queues : IInv /\ wake_up(t, q) => IInv'
<1> SUFFICES ASSUME NEW t \in Tasks, NEW q \in Queues, IInv, wake_up(t, q) PROVE IInv'
  OBVIOUS
<1>1. TypeOK /\ QueueInv
  BY DEF IInv
<1>2. PICK h \in Tasks : h = wait[q] /\ Asleep(h) /\ on[h] = q /\ h # 0
  BY <1>1 DEF wake_up, TypeOK, QueueInv, QueuePointers
<1>3. /\ \A u \in Tasks : state'[u] = IF u = h THEN "running" ELSE state[u]
      /\ \A r \in Queues : wait'[r] = IF r = q THEN 0 ELSE wait[r]
      /\ tmp' = tmp /\ on' = on /\ mode' = mode
  BY <1>1, <1>2 DEF wake_up, TypeOK
<1>4. TypeOK'
  BY <1>1, <1>2, TaskNumbers DEF wake_up, TypeOK, States
<1>5. \A u \in Tasks : Asleep(u)' <=> Asleep(u) /\ u # h
  BY <1>3 DEF Asleep
<1>6. QueuePointers'
  <2>1. ASSUME NEW r \in Queues, wait'[r] # 0
        PROVE  state'[wait'[r]] = "uninterruptible" /\ on'[wait'[r]] = r
    <3>1. wait'[r] = wait[r] /\ r # q /\ wait[r] \in Tasks
      BY <1>1, <1>3, <2>1 DEF TypeOK
    <3>2. Asleep(wait[r]) /\ on[wait[r]] = r
      BY <1>1, <2>1, <3>1 DEF QueueInv, QueuePointers
    <3> QED BY <1>2, <1>3, <1>5, <3>1, <3>2 DEF Asleep
  <2>2. ASSUME NEW u \in Tasks, tmp'[u] # 0
        PROVE  /\ state'[tmp'[u]] = "uninterruptible"
               /\ on'[tmp'[u]] = on'[u] /\ mode'[u] = "sleep_on"
    <3>1. tmp[u] \in Tasks /\ Asleep(tmp[u]) /\ on[tmp[u]] = on[u] /\ mode[u] = "sleep_on"
      BY <1>1, <1>3, <2>2 DEF TypeOK, QueueInv, QueuePointers
    <3>2. tmp[u] # h
      BY <1>1, <1>2 DEF QueueInv, Single
    <3> QED BY <1>3, <1>5, <3>1, <3>2 DEF Asleep
  <2> QED BY <2>1, <2>2 DEF QueuePointers, Asleep
<1>7. SleepModes'
  BY <1>1, <1>3, <1>5 DEF QueueInv, SleepModes, Asleep
<1>8. Single'
  BY <1>1, <1>3 DEF QueueInv, Single
<1>9. NoLostSleeper'
  <2> SUFFICES ASSUME NEW X \in SUBSET {u \in Tasks : Asleep(u)'}, X # {}
               PROVE  \E u \in X : wait'[on'[u]] = u \/ \E v \in Tasks \ X : tmp'[v] = u
    BY DEF NoLostSleeper
  <2>1. X \in SUBSET {u \in Tasks : Asleep(u)} /\ h \notin X
    BY <1>5
  <2>2. PICK u \in X : wait[on[u]] = u \/ \E v \in Tasks \ X : tmp[v] = u
    BY <1>1, <2>1 DEF QueueInv, NoLostSleeper
  <2>3. wait[on[u]] = u => on[u] # q
    BY <1>2, <2>1
  <2>4. wait[on[u]] = u => wait'[on[u]] = u
    BY <2>3 DEF wake_up
  <2> QED BY <1>3, <2>2, <2>4
<1>10. WorkConserving'
  BY <1>3, TaskNumbers DEF wake_up, InKernel, IInv, WorkConserving, Runs
<1>11. CreditBounded'
  BY DEF wake_up, IInv, CreditBounded
<1> QED BY <1>4, <1>6, <1>7, <1>8, <1>9, <1>10, <1>11 DEF IInv, QueueInv

(* sleep_on puts the task in front of the old head, which it keeps in tmp. *)
LEMMA SleepOnInv == \A t \in Tasks, q \in Queues : IInv /\ sleep_on(t, q) => IInv'
<1> SUFFICES ASSUME NEW t \in Tasks, NEW q \in Queues, IInv, sleep_on(t, q) PROVE IInv'
  OBVIOUS
<1>1. TypeOK /\ QueueInv /\ InKernel(t) /\ t # 0
  BY TaskNumbers DEF IInv, sleep_on
<1>2. ~Asleep(t) /\ tmp[t] = 0
  BY <1>1, KernelIsAwake
<1>3. PICK st : st = [state EXCEPT ![t] = "uninterruptible"]
  BY ZenonT(30)
<1>4. st \in [Tasks -> States] /\ counter \in [Tasks -> Nat] /\ signal \in [Tasks -> BOOLEAN]
  BY <1>1, <1>3 DEF TypeOK, States
<1>5. schedule(st, counter, signal) /\ \A u \in Tasks : counter[u] <= 2 * MaxPriority
  BY <1>3 DEF sleep_on, IInv, CreditBounded
<1>6. /\ state' \in [Tasks -> States]
      /\ \A u \in Tasks : \/ state'[u] = st[u]
                          \/ st[u] = "interruptible" /\ state'[u] = "running"
      /\ counter' \in [Tasks -> Nat] /\ signal' \in [Tasks -> BOOLEAN]
      /\ alarm' \in [Tasks -> BOOLEAN] /\ current' \in Tasks \cup {0} /\ hung' \in BOOLEAN
      /\ WorkConserving' /\ CreditBounded'
  BY <1>1, <1>4, <1>5, ScheduleEffect
<1>7. /\ \A u \in Tasks : tmp'[u] = IF u = t THEN wait[q] ELSE tmp[u]
      /\ \A r \in Queues : wait'[r] = IF r = q THEN t ELSE wait[r]
      /\ \A u \in Tasks : on'[u] = IF u = t THEN q ELSE on[u]
      /\ \A u \in Tasks : mode'[u] = IF u = t THEN "sleep_on" ELSE mode[u]
  BY <1>1 DEF sleep_on, TypeOK
<1>8. TypeOK'
  BY <1>1, <1>6 DEF sleep_on, TypeOK
<1>9. \A u \in Tasks : state'[u] = "uninterruptible" <=> Asleep(u) \/ u = t
  BY <1>1, <1>3, <1>6 DEF Asleep, TypeOK
<1>10. /\ \A r \in Queues : wait[r] # 0 => wait[r] \in Tasks /\ wait[r] # t
                                           /\ Asleep(wait[r]) /\ on[wait[r]] = r
       /\ \A u \in Tasks : tmp[u] # 0 => tmp[u] \in Tasks /\ tmp[u] # t
                                         /\ Asleep(tmp[u]) /\ on[tmp[u]] = on[u] /\ mode[u] = "sleep_on"
  BY <1>1, <1>2 DEF QueueInv, QueuePointers, TypeOK
<1>11. QueuePointers'
  <2>1. ASSUME NEW r \in Queues, wait'[r] # 0
        PROVE  state'[wait'[r]] = "uninterruptible" /\ on'[wait'[r]] = r
    BY <1>7, <1>9, <1>10, <2>1
  <2>2. ASSUME NEW u \in Tasks, tmp'[u] # 0
        PROVE  /\ state'[tmp'[u]] = "uninterruptible"
               /\ on'[tmp'[u]] = on'[u] /\ mode'[u] = "sleep_on"
    BY <1>7, <1>9, <1>10, <2>2
  <2> QED BY <2>1, <2>2 DEF QueuePointers, Asleep
<1>12. SleepModes'
  <2>1. ASSUME NEW u \in Tasks, u # t
        PROVE  /\ state'[u] = "uninterruptible" => mode'[u] = "sleep_on"
               /\ mode'[u] = "sleep_on" => state'[u] \in {"uninterruptible", "running"}
               /\ mode'[u] # "sleep_on" => tmp'[u] = 0
    <3>1. st[u] = state[u]
      BY <1>1, <1>3, <2>1, ZenonT(30) DEF TypeOK
    <3> QED BY <1>1, <1>6, <1>7, <1>9, <2>1, <3>1 DEF QueueInv, SleepModes, Asleep
  <2> QED BY <1>7, <1>9, <2>1, ZenonT(30) DEF SleepModes, Asleep
<1>13. Single'
  BY <1>1, <1>2, <1>7, <1>10 DEF QueueInv, Single
<1>14. NoLostSleeper'
  <2> SUFFICES ASSUME NEW X \in SUBSET {u \in Tasks : state'[u] = "uninterruptible"}, X # {}
               PROVE  \E u \in X : wait'[on'[u]] = u \/ \E v \in Tasks \ X : tmp'[v] = u
    BY DEF NoLostSleeper, Asleep
  <2>1. CASE t \in X
    BY <1>7, <2>1
  <2>2. CASE t \notin X
    <3>1. X \in SUBSET {u \in Tasks : Asleep(u)}
      BY <1>9, <2>2
    <3>2. PICK u \in X : wait[on[u]] = u \/ \E v \in Tasks \ X : tmp[v] = u
      BY <1>1, <3>1 DEF QueueInv, NoLostSleeper
    <3>3. u \in Tasks /\ u # 0 /\ u # t
      BY <2>2, <3>1, TaskNumbers
    <3>4. CASE wait[on[u]] = u /\ on[u] = q
      BY <1>7, <2>2, <3>4
    <3>5. CASE wait[on[u]] = u /\ on[u] # q
      <4>1. wait'[on[u]] = u
        BY <3>5 DEF sleep_on
      <4> QED BY <1>7, <3>3, <4>1
    <3>6. CASE \E v \in Tasks \ X : tmp[v] = u
      BY <1>2, <1>7, <3>3, <3>6
    <3> QED BY <3>2, <3>4, <3>5, <3>6
  <2> QED BY <2>1, <2>2
<1> QED BY <1>6, <1>8, <1>11, <1>12, <1>13, <1>14 DEF IInv, QueueInv

(* The end of sleep_on passes the wake-up on to the task kept in tmp. *)
LEMMA AwakeInv == \A t \in Tasks : IInv /\ Awake(t) => IInv'
<1> SUFFICES ASSUME NEW t \in Tasks, IInv, Awake(t) PROVE IInv'
  OBVIOUS
<1>1. TypeOK /\ QueueInv
  BY DEF IInv
<1>2. state[t] = "running" /\ ~Asleep(t) /\ Runs(t)
  BY DEF Awake, IInv, WorkConserving, Asleep
<1>3. /\ \A u \in Tasks : state'[u] = IF u = tmp[t] THEN "running" ELSE state[u]
      /\ \A u \in Tasks : tmp'[u] = IF u = t THEN 0 ELSE tmp[u]
      /\ \A u \in Tasks : mode'[u] = IF u = t THEN "kernel" ELSE mode[u]
      /\ \A u \in Tasks : on'[u] = IF u = t THEN NoQueue ELSE on[u]
      /\ wait' = wait
  BY <1>1 DEF Awake, TypeOK
<1>4. TypeOK'
  BY <1>1 DEF Awake, TypeOK, States
<1>5. \A u \in Tasks : state'[u] = "uninterruptible" <=> Asleep(u) /\ u # tmp[t]
  BY <1>3 DEF Asleep
<1>6. /\ \A r \in Queues : wait[r] # 0 => wait[r] \in Tasks /\ wait[r] # t
                                          /\ Asleep(wait[r]) /\ on[wait[r]] = r
      /\ \A u \in Tasks : tmp[u] # 0 => tmp[u] \in Tasks /\ tmp[u] # t
                                        /\ Asleep(tmp[u]) /\ on[tmp[u]] = on[u] /\ mode[u] = "sleep_on"
  BY <1>1, <1>2 DEF QueueInv, QueuePointers, TypeOK
<1>7. QueuePointers'
  <2>1. ASSUME NEW r \in Queues, wait'[r] # 0
        PROVE  state'[wait'[r]] = "uninterruptible" /\ on'[wait'[r]] = r
    <3>1. tmp[t] # wait[r]
      BY <1>1, <1>3, <2>1 DEF QueueInv, Single
    <3> QED BY <1>3, <1>5, <1>6, <2>1, <3>1, ZenonT(30)
  <2>2. ASSUME NEW u \in Tasks, tmp'[u] # 0
        PROVE  /\ state'[tmp'[u]] = "uninterruptible"
               /\ on'[tmp'[u]] = on'[u] /\ mode'[u] = "sleep_on"
    <3>1. u # t /\ tmp'[u] = tmp[u] /\ tmp[u] # 0
      BY <1>3, <2>2
    <3>2. tmp[u] # tmp[t]
      BY <1>1, <3>1 DEF QueueInv, Single
    <3> QED BY <1>3, <1>5, <1>6, <3>1, <3>2
  <2> QED BY <2>1, <2>2, ZenonT(30) DEF QueuePointers, Asleep
<1>8. SleepModes'
  BY <1>1, <1>2, <1>3, <1>5 DEF QueueInv, SleepModes, Asleep
<1>9. Single'
  BY <1>1, <1>3 DEF QueueInv, Single
<1>10. NoLostSleeper'
  <2> SUFFICES ASSUME NEW X \in SUBSET {u \in Tasks : state'[u] = "uninterruptible"}, X # {}
               PROVE  \E u \in X : wait'[on'[u]] = u \/ \E v \in Tasks \ X : tmp'[v] = u
    BY DEF NoLostSleeper, Asleep
  <2>1. X \in SUBSET {u \in Tasks : Asleep(u)} /\ tmp[t] \notin X /\ t \notin X
    BY <1>2, <1>5
  <2>2. PICK u \in X : wait[on[u]] = u \/ \E v \in Tasks \ X : tmp[v] = u
    BY <1>1, <2>1 DEF QueueInv, NoLostSleeper
  <2>3. u \in Tasks /\ u # t /\ u # tmp[t]
    BY <2>1
  <2> QED BY <1>3, <2>2, <2>3
<1>11. WorkConserving'
  BY <1>2, <1>3, TaskNumbers DEF Awake, WorkConserving, Runs
<1>12. CreditBounded'
  BY DEF Awake, IInv, CreditBounded
<1> QED BY <1>4, <1>7, <1>8, <1>9, <1>10, <1>11, <1>12 DEF IInv, QueueInv

-----------------------------------------------------------------------------
(* Every step of the scheduler and of the tasks keeps the invariant. *)
THEOREM NextInv == IInv /\ [Next]_vars => IInv'
<1> SUFFICES ASSUME IInv, [Next]_vars PROVE IInv'
  OBVIOUS
<1>1. CASE Spin
  BY <1>1, SpinInv
<1>2. CASE Idle
  BY <1>2, IdleInv
<1>3. ASSUME NEW t \in Tasks, TaskStep(t) PROVE IInv'
  <2>1. CASE TickUser(t) \/ TickKernel(t) \/ Awake(t)
    BY <2>1, TickUserInv, TickKernelInv, AwakeInv
  <2>2. CASE \/ SysEnter(t) \/ SysReturn(t) \/ sys_nice(t) \/ sys_alarm(t)
             \/ \E u \in Tasks : sys_kill(t, u)
    BY <2>2, SystemCallInv
  <2>3. CASE \E q \in Queues : sleep_on(t, q) \/ wake_up(t, q)
    BY <2>3, SleepOnInv, WakeUpInv
  <2>4. CASE \E c \in Tasks : fork(t, c)
    BY <2>4, ForkInv
  <2>5. CASE sys_pause(t) \/ \E u \in Tasks : do_exit(t, u) \/ release(t, u)
    BY <2>5, StopInv
  <2> QED BY <1>3, <2>1, <2>2, <2>3, <2>4, <2>5 DEF TaskStep
<1>4. CASE UNCHANGED vars
  <2>1. TypeOK' /\ CreditBounded'
    BY <1>4 DEF IInv, vars, TypeOK, CreditBounded
  <2> QED BY <1>4, <2>1, QuietStep DEF vars
<1> QED BY <1>1, <1>2, <1>3, <1>4 DEF Next

(* The inductive invariant holds in every behaviour of the scheduler. *)
THEOREM Invariance == Spec => []IInv
<1>1. Init => IInv
  BY InitInv
<1>2. IInv /\ [Next]_vars => IInv'
  BY NextInv
<1> QED BY <1>1, <1>2, PTL DEF Spec

(* The variables of the scheduler keep their types. *)
THEOREM TypeCorrect == Spec => []TypeOK
<1>1. IInv => TypeOK
  BY DEF IInv
<1> QED BY <1>1, Invariance, PTL

(* sleep_on and wake_up: no pointer of a wait queue ever leads to a task   *)
(* that is not asleep on that queue.                                       *)
THEOREM PointersValid == Spec => []QueuePointers
<1>1. IInv => QueuePointers
  BY DEF IInv, QueueInv
<1> QED BY <1>1, Invariance, PTL

(* sleep_on and wake_up: every sleeper stays within reach of a wake-up.    *)
THEOREM SleepersReachable == Spec => []NoLostSleeper
<1>1. IInv => NoLostSleeper
  BY DEF IInv, QueueInv
<1> QED BY <1>1, Invariance, PTL

(* schedule() never idles past a runnable task, and what it runs can run.  *)
THEOREM NoIdleWaste == Spec => []WorkConserving
<1>1. IInv => WorkConserving
  BY DEF IInv
<1> QED BY <1>1, Invariance, PTL

(* counter = (counter >> 1) + priority stays below twice the priority.     *)
THEOREM CreditLimit == Spec => []CreditBounded
<1>1. IInv => CreditBounded
  BY DEF IInv
<1> QED BY <1>1, Invariance, PTL
=============================================================================
