---------------------------- MODULE ProcessProofs ----------------------------
(***************************************************************************)
(* The family of processes of Process, for any number of task slots and    *)
(* pids: pids are unique, fathers alive, no zombie overlooked by a waiting *)
(* father, no process waiting for nothing, and an exit reported to the     *)
(* father only.                                                            *)
(*                                                                         *)
(* The properties need each other: that the end of a child reaches the     *)
(* process that waits for it rests on unique pids, and that a father is    *)
(* alive on init, which never exits.  Running says what schedule() and     *)
(* init() add to that.                                                     *)
(***************************************************************************)
EXTENDS Process, TLAPS

InitPlaces == {"kernel", "scan", "wait", "reap"}

(* The current task is runnable, and init is never on its way to exit. *)
Running ==
  /\ current # 0 => state[current] = "running"
  /\ call[init] \in InitPlaces

IInv ==
  /\ TypeOK /\ Running /\ PidsUnique /\ FatherAlive
  /\ NoLostChild /\ WaiterHasChild /\ LeaderKeepsGroup

States == {"none", "running", "interruptible", "uninterruptible", "zombie"}

(* Slots start at 1: 0 is the idle task. *)
LEMMA Slots ==
  /\ 0 \notin Tasks /\ init \in Tasks /\ init = 1 /\ Tasks \subseteq Nat
  /\ 0 \notin Pids /\ 1 \in Pids /\ Pids \subseteq 0..MaxPid /\ Pids \subseteq Nat
  BY ConstantsOK DEF Tasks, init, Pids

(* main() has started init and nothing else. *)
THEOREM InitInv == Init => IInv
<1> SUFFICES ASSUME Init PROVE IInv
  OBVIOUS
<1> USE Slots, ConstantsOK
<1>1. \A t \in Tasks : Exists(t) => t = init
  BY DEF Init, Exists
<1>2. Alive(init) /\ pid[init] = 1 /\ call[init] = "kernel" /\ state[init] = "running"
  BY DEF Init, Alive
<1>3. TypeOK
  <2>1. leader \in [Tasks -> BOOLEAN]
    BY Zenon DEF Init
  <2>2. state \in [Tasks -> States]
    BY DEF Init, States
  <2>3. signal \in [Tasks -> SUBSET Signals] /\ blocked \in [Tasks -> SUBSET Signals]
    BY DEF Init
  <2>4. /\ pid \in [Tasks -> Pids] /\ father \in [Tasks -> 0..MaxPid]
        /\ pgrp \in [Tasks -> 0..MaxPid] /\ session \in [Tasks -> 0..MaxPid]
        /\ current \in 0..NTasks /\ last_pid \in Pids /\ shell \in 0..MaxPid
    BY DEF Init, init
  <2>5. call \in [Tasks -> Places]
    BY DEF Init, Places
  <2>6. arg \in [Tasks -> [pid : Int, nohang : BOOLEAN]]
    <3>1. [pid |-> -1, nohang |-> FALSE] \in [pid : Int, nohang : BOOLEAN]
      OBVIOUS
    <3> QED BY <3>1, Zenon DEF Init
  <2> QED BY <2>1, <2>2, <2>3, <2>4, <2>5, <2>6 DEF TypeOK, States
<1>4. Running
  BY <1>2 DEF Running, InitPlaces, Init
<1>5. PidsUnique
  BY <1>1, <1>2 DEF PidsUnique
<1>6. FatherAlive
  BY <1>1 DEF FatherAlive
<1>7. NoLostChild
  BY DEF Init, NoLostChild
<1>8. WaiterHasChild
  BY DEF Init, WaiterHasChild
<1>9. LeaderKeepsGroup
  BY Zenon DEF Init, LeaderKeepsGroup
<1> QED BY <1>3, <1>4, <1>5, <1>6, <1>7, <1>8, <1>9 DEF IInv

-----------------------------------------------------------------------------
(* schedule() wakes interruptible tasks only and chooses one that can run. *)
LEMMA ScheduleEffect ==
  ASSUME NEW st \in [Tasks -> States], NEW sg, schedule(st, sg)
  PROVE  /\ state' \in [Tasks -> States]
         /\ \A t \in Tasks : \/ state'[t] = st[t]
                             \/ st[t] = "interruptible" /\ state'[t] = "running"
         /\ current' \in 0..NTasks
         /\ current' # 0 => state'[current'] = "running"
<1> USE Slots
<1>1. state' = Woken(st, sg) /\ current' \in Runnable(state')
  BY DEF schedule
<1>2. /\ Woken(st, sg) \in [Tasks -> States]
      /\ \A t \in Tasks : \/ Woken(st, sg)[t] = st[t]
                          \/ st[t] = "interruptible" /\ Woken(st, sg)[t] = "running"
  BY DEF Woken, States
<1>3. current' \in Tasks \/ current' = 0
  BY <1>1 DEF Runnable
<1>4. current' \in 0..NTasks
  BY <1>3, ConstantsOK DEF Tasks
<1>5. current' # 0 => state'[current'] = "running"
  BY <1>1 DEF Runnable
<1> QED BY <1>1, <1>2, <1>4, <1>5

(* A new process: copy_process and kernel_thread copy the father's fields. *)
LEMMA ChildTypes ==
  ASSUME TypeOK, NEW t \in Tasks, NEW n \in Tasks, NEW place \in Places,
         last_pid' \in NextPids, Child(t, n, place)
  PROVE  /\ state' \in [Tasks -> States]
         /\ pid' \in [Tasks -> Pids] /\ father' \in [Tasks -> 0..MaxPid]
         /\ pgrp' \in [Tasks -> 0..MaxPid] /\ session' \in [Tasks -> 0..MaxPid]
         /\ leader' \in [Tasks -> BOOLEAN]
         /\ signal' \in [Tasks -> SUBSET Signals] /\ blocked' \in [Tasks -> SUBSET Signals]
         /\ call' \in [Tasks -> Places] /\ last_pid' \in Pids
<1> USE Slots
<1>1. last_pid' \in Pids
  BY DEF NextPids
<1>2. leader' \in [Tasks -> BOOLEAN]
  BY Zenon DEF Child, TypeOK
<1>3. state' \in [Tasks -> States]
  BY DEF Child, TypeOK, States
<1>4. pid' \in [Tasks -> Pids] /\ father' \in [Tasks -> 0..MaxPid]
  BY <1>1, Zenon DEF Child, TypeOK
<1>5. pgrp' \in [Tasks -> 0..MaxPid] /\ session' \in [Tasks -> 0..MaxPid]
  BY DEF Child, TypeOK
<1>6. signal' \in [Tasks -> SUBSET Signals] /\ blocked' \in [Tasks -> SUBSET Signals]
  BY DEF Child, TypeOK
<1>7. call' \in [Tasks -> Places]
  BY DEF Child, TypeOK, Home, Places
<1> QED BY <1>1, <1>2, <1>3, <1>4, <1>5, <1>6, <1>7

(* do_exit gives children to init and may signal it. *)
LEMMA ExitTypes ==
  ASSUME TypeOK, NEW t \in Tasks, do_exit(t)
  PROVE  /\ father' \in [Tasks -> 0..MaxPid] /\ signal' \in [Tasks -> SUBSET Signals]
         /\ call' \in [Tasks -> Places]
<1> USE Slots
<1>1. father' \in [Tasks -> 0..MaxPid]
  BY DEF do_exit, Adopt, TypeOK
<1>2. signal' \in [Tasks -> SUBSET Signals]
  BY DEF do_exit, Adopt, TypeOK, Signals
<1>3. call' \in [Tasks -> Places]
  BY DEF do_exit, Goto, TypeOK, Places
<1> QED BY <1>1, <1>2, <1>3

(* Every step keeps the types of the variables. *)
LEMMA TypeStep == TypeOK /\ Next => TypeOK'
<1> SUFFICES ASSUME TypeOK, Next PROVE TypeOK'
  OBVIOUS
<1> USE Slots
<1>0. state \in [Tasks -> States]
  BY DEF TypeOK, States
<1>1. CASE Idle
  <2>1. state' \in [Tasks -> States] /\ current' \in 0..NTasks
    BY <1>0, <1>1, ScheduleEffect DEF Idle
  <2> QED BY <1>1, <2>1 DEF Idle, ids, TypeOK, States
<1>2. CASE kernel_thread
  <2>1. PICK n \in EmptySlots : Child(init, n, "kernel")
    BY <1>2 DEF kernel_thread
  <2>2. n \in Tasks /\ "kernel" \in Places /\ last_pid' \in NextPids /\ last_pid' \in Pids
    BY <1>2, <2>1 DEF EmptySlots, Places, kernel_thread, NextPids
  <2>3. UNCHANGED <<arg, current>> /\ shell' \in 0..MaxPid
    BY <1>2, <2>2 DEF kernel_thread
  <2> QED BY <2>1, <2>2, <2>3, ChildTypes DEF TypeOK, States
<1>3. CASE At(init, "kernel") /\ shell # 0 /\ sys_waitpid(init, -1, FALSE)
  <2>1. arg' \in [Tasks -> [pid : Int, nohang : BOOLEAN]]
    BY <1>3 DEF sys_waitpid, TypeOK
  <2>2. call' \in [Tasks -> Places]
    BY <1>3 DEF sys_waitpid, Goto, TypeOK, Places
  <2> QED BY <1>3, <2>1, <2>2 DEF sys_waitpid, Stays, ids, TypeOK
<1>4. ASSUME NEW t \in Tasks, TaskStep(t) PROVE TypeOK'
  <2>1. CASE do_timer(t)
    <3>1. state' \in [Tasks -> States] /\ current' \in 0..NTasks
      BY <1>0, <2>1, ScheduleEffect DEF do_timer, Stays, TypeOK
    <3>2. call' \in [Tasks -> Places]
      BY <2>1 DEF do_timer, Goto, TypeOK, Places
    <3> QED BY <2>1, <3>1, <3>2 DEF do_timer, ids, TypeOK, States
  <2>2. CASE sys_fork(t)
    <3>1. PICK n \in EmptySlots : Child(t, n, "user")
      BY <2>2 DEF sys_fork
    <3>2. n \in Tasks /\ "user" \in Places /\ last_pid' \in NextPids
      BY <2>2, <3>1 DEF EmptySlots, Places, sys_fork
    <3>3. UNCHANGED <<arg, current, shell>>
      BY <2>2 DEF sys_fork
    <3> QED BY <3>1, <3>2, <3>3, ChildTypes DEF TypeOK, States
  <2>3. CASE ForkFails(t)
    <3>1. call' \in [Tasks -> Places] /\ last_pid' \in Pids
      BY <2>3 DEF ForkFails, Goto, Home, TypeOK, Places, NextPids
    <3> QED BY <2>3, <3>1 DEF ForkFails, Stays, ids, TypeOK
  <2>4. CASE Shell(t)
    <3>1. CASE sys_setsid(t) /\ UNCHANGED call
      <4>1. leader' \in [Tasks -> BOOLEAN]
        BY <3>1, Zenon DEF sys_setsid, TypeOK
      <4>2. session' \in [Tasks -> 0..MaxPid] /\ pgrp' \in [Tasks -> 0..MaxPid]
        BY <3>1, Zenon DEF sys_setsid, TypeOK
      <4> QED BY <3>1, <4>1, <4>2 DEF sys_setsid, Stays, TypeOK
    <3>2. CASE /\ Goto(t, "user") /\ Stays
               /\ UNCHANGED <<ids, father, signal, blocked, arg, last_pid, shell>>
      <4>1. call' \in [Tasks -> Places]
        BY <3>2 DEF Goto, TypeOK, Places
      <4> QED BY <3>2, <4>1 DEF Stays, ids, TypeOK
    <3>3. CASE do_exit(t)
      BY <3>3, ExitTypes DEF do_exit, Stays, ids, TypeOK
    <3> QED BY <2>4, <3>1, <3>2, <3>3 DEF Shell
  <2>5. CASE sys_exit(t) \/ SignalExits(t)
    <3>1. do_exit(t)
      BY <2>5 DEF sys_exit, SignalExits
    <3> QED BY <3>1, ExitTypes DEF do_exit, Stays, ids, TypeOK
  <2>6. CASE ExitBlocks(t)
    <3>1. [state EXCEPT ![t] = "uninterruptible"] \in [Tasks -> States]
      BY <1>0 DEF States
    <3>2. state' \in [Tasks -> States] /\ current' \in 0..NTasks
      BY <2>6, <3>1, ScheduleEffect, Zenon DEF ExitBlocks
    <3> QED BY <2>6, <3>2 DEF ExitBlocks, ids, TypeOK, States
  <2>7. CASE ExitUnblocked(t)
    BY <2>7 DEF ExitUnblocked, ids, TypeOK
  <2>8. CASE ExitEnds(t)
    <3>1. /\ [state EXCEPT ![t] = "zombie"] \in [Tasks -> States]
          /\ [state EXCEPT ![t] = "none"] \in [Tasks -> States]
      BY <1>0 DEF States
    <3>2. state' \in [Tasks -> States] /\ current' \in 0..NTasks
      BY <2>8, <3>1, ScheduleEffect, Zenon DEF ExitEnds, tell_father, NoFatherFound
    <3>3. Hangup(t) \in [Tasks -> SUBSET Signals]
      BY DEF Hangup, TypeOK, Signals
    <3>4. signal' \in [Tasks -> SUBSET Signals]
      BY <2>8, <3>3 DEF ExitEnds, tell_father, NoFatherFound, Signals, Fathers
    <3> QED BY <2>8, <3>2, <3>4 DEF ExitEnds, ids, TypeOK, States
  <2>9. ASSUME NEW p \in WaitArgs, NEW nohang \in BOOLEAN, sys_waitpid(t, p, nohang)
        PROVE  TypeOK'
    <3>1. p \in Int
      BY ConstantsOK
    <3>2. arg' \in [Tasks -> [pid : Int, nohang : BOOLEAN]]
      BY <2>9, <3>1 DEF sys_waitpid, TypeOK
    <3>3. call' \in [Tasks -> Places]
      BY <2>9 DEF sys_waitpid, Goto, TypeOK, Places
    <3> QED BY <2>9, <3>2, <3>3 DEF sys_waitpid, Stays, ids, TypeOK
  <2>10. ASSUME NEW c \in Tasks, release(t, c) PROVE TypeOK'
    <3>1. [state EXCEPT ![c] = "none"] \in [Tasks -> States]
      BY <1>0 DEF States
    <3>2. state' \in [Tasks -> States] /\ current' \in 0..NTasks
      BY <2>10, <3>1, ScheduleEffect, Zenon DEF release
    <3>3. call' \in [Tasks -> Places] /\ shell' \in 0..MaxPid
      BY <2>10, ConstantsOK DEF release, Goto, TypeOK, Places
    <3> QED BY <2>10, <3>2, <3>3 DEF release, ids, TypeOK, States
  <2>11. CASE Reaped(t) \/ WaitReturns(t)
    <3>1. call' \in [Tasks -> Places]
      BY <2>11 DEF Reaped, WaitReturns, Goto, Home, TypeOK, Places
    <3> QED BY <2>11, <3>1 DEF Reaped, WaitReturns, Stays, ids, TypeOK
  <2>12. CASE WaitSleeps(t)
    <3>1. [state EXCEPT ![t] = "interruptible"] \in [Tasks -> States]
      BY <1>0 DEF States
    <3>2. state' \in [Tasks -> States] /\ current' \in 0..NTasks
      BY <2>12, <3>1, ScheduleEffect, Zenon DEF WaitSleeps
    <3>3. call' \in [Tasks -> Places]
      BY <2>12 DEF WaitSleeps, Goto, TypeOK, Places
    <3> QED BY <2>12, <3>2, <3>3 DEF WaitSleeps, ids, TypeOK, States
  <2>13. CASE WaitWakes(t)
    <3>1. call' \in [Tasks -> Places]
      BY <2>13 DEF WaitWakes, Goto, Home, TypeOK, Places
    <3>2. signal' \in [Tasks -> SUBSET Signals]
      BY <2>13 DEF WaitWakes, TypeOK
    <3> QED BY <2>13, <3>1, <3>2 DEF WaitWakes, Stays, ids, TypeOK
  <2>14. CASE NoSignal(t) \/ do_signal(t)
    <3>1. call' \in [Tasks -> Places]
      BY <2>14 DEF NoSignal, do_signal, Goto, TypeOK, Places
    <3>2. signal' \in [Tasks -> SUBSET Signals]
      BY <2>14 DEF NoSignal, do_signal, TypeOK
    <3> QED BY <2>14, <3>1, <3>2 DEF NoSignal, do_signal, Stays, ids, TypeOK
  <2>15. ASSUME NEW mask \in Masks, sys_ssetmask(t, mask) PROVE TypeOK'
    <3>1. call' \in [Tasks -> Places]
      BY <2>15 DEF sys_ssetmask, Goto, TypeOK, Places
    <3>2. blocked' \in [Tasks -> SUBSET Signals]
      BY <2>15, ConstantsOK DEF sys_ssetmask, TypeOK
    <3> QED BY <2>15, <3>1, <3>2 DEF sys_ssetmask, Stays, ids, TypeOK
  <2>16. ASSUME NEW p \in KillArgs, NEW sig \in KillSigs, sys_kill(t, p, sig) PROVE TypeOK'
    <3>1. call' \in [Tasks -> Places]
      BY <2>16 DEF sys_kill, Goto, TypeOK, Places
    <3>2. signal' \in [Tasks -> SUBSET Signals]
      BY <2>16, ConstantsOK DEF sys_kill, TypeOK
    <3> QED BY <2>16, <3>1, <3>2 DEF sys_kill, Stays, ids, TypeOK
  <2>17. CASE sys_setsid(t) /\ Goto(t, "return")
    <3>1. leader' \in [Tasks -> BOOLEAN]
      BY <2>17, Zenon DEF sys_setsid, TypeOK
    <3>2. session' \in [Tasks -> 0..MaxPid] /\ pgrp' \in [Tasks -> 0..MaxPid]
      BY <2>17, Zenon DEF sys_setsid, TypeOK
    <3>3. call' \in [Tasks -> Places]
      BY <2>17 DEF Goto, TypeOK, Places
    <3> QED BY <2>17, <3>1, <3>2, <3>3 DEF sys_setsid, Stays, TypeOK
  <2>18. ASSUME NEW u \in Tasks, NEW g \in Groups, sys_setpgid(t, u, g) PROVE TypeOK'
    <3>1. call' \in [Tasks -> Places]
      BY <2>18 DEF sys_setpgid, Goto, TypeOK, Places
    <3>2. pgrp' \in [Tasks -> 0..MaxPid]
      BY <2>18, ConstantsOK DEF sys_setpgid, TypeOK
    <3> QED BY <2>18, <3>1, <3>2 DEF sys_setpgid, Stays, TypeOK
  <2> QED BY <1>4, <2>1, <2>2, <2>3, <2>4, <2>5, <2>6, <2>7, <2>8, <2>9, <2>10, <2>11, <2>12,
             <2>13, <2>14, <2>15, <2>16, <2>17, <2>18 DEF TaskStep
<1> QED BY <1>1, <1>2, <1>3, <1>4, Zenon DEF Next, InitStep

-----------------------------------------------------------------------------
(* Most steps neither create nor end a process, change no pid and no       *)
(* father, and send nobody to wait or to exit.                             *)
Family == Running /\ PidsUnique /\ FatherAlive /\ NoLostChild /\ WaiterHasChild

QuietStep ==
  /\ \A u \in Tasks : \/ state'[u] = state[u]
                      \/ Alive(u) /\ state'[u] \in {"running", "uninterruptible"}
  /\ current' # 0 => state'[current'] = "running"
  /\ UNCHANGED <<pid, father, shell>>
  /\ call'[init] \in InitPlaces
  /\ \A u \in Tasks : call'[u] # call[u] => call'[u] \notin {"wait", "exit"}
  /\ \A u \in Tasks : call'[u] = "wait" =>
       arg'[u] = arg[u] /\ (SIGCHLD \in signal[u] => SIGCHLD \in signal'[u])

(* Such a step keeps the family together. *)
LEMMA QuietKeeps == IInv /\ TypeOK' /\ QuietStep => Family'
<1> SUFFICES ASSUME IInv, TypeOK', QuietStep PROVE Family'
  OBVIOUS
<1> USE Slots
<1>1. \A u \in Tasks : /\ Exists(u)' <=> Exists(u)
                       /\ Alive(u)' <=> Alive(u)
                       /\ state'[u] = "zombie" <=> state[u] = "zombie"
                       /\ state'[u] = "interruptible" => state[u] = "interruptible"
  BY Zenon DEF QuietStep, Exists, Alive
<1>2. \A u \in Tasks : call'[u] \in {"wait", "exit"} => call'[u] = call[u]
  BY Zenon DEF QuietStep
<1>3. pid' = pid /\ father' = father /\ shell' = shell
  BY DEF QuietStep
<1>4. \A u, c \in Tasks : call'[u] = "wait" /\ (arg[u].pid > 0 \/ arg[u].pid = -1)
        => (Matches(u, c)' <=> Matches(u, c))
  <2> SUFFICES ASSUME NEW u \in Tasks, NEW c \in Tasks, call'[u] = "wait",
                      arg[u].pid > 0 \/ arg[u].pid = -1
               PROVE  Matches(u, c)' <=> Matches(u, c)
    OBVIOUS
  <2>1. arg'[u] = arg[u] /\ arg[u].pid \in Int
    BY DEF QuietStep, IInv, TypeOK
  <2> QED BY <1>1, <1>3, <2>1 DEF Matches
<1>5. Running'
  BY DEF QuietStep, Running
<1>6. PidsUnique'
  BY <1>1, <1>3 DEF IInv, PidsUnique
<1>7. FatherAlive'
  <2> SUFFICES ASSUME NEW c \in Tasks \ {init}, Exists(c)'
               PROVE  \E f \in Tasks : Alive(f)' /\ call'[f] # "exit" /\ pid'[f] = father'[c]
    BY DEF FatherAlive
  <2>1. PICK f \in Tasks : Alive(f) /\ call[f] # "exit" /\ pid[f] = father[c]
    BY <1>1 DEF IInv, FatherAlive
  <2>2. Alive(f)' /\ call'[f] # "exit" /\ pid'[f] = father'[c]
    BY <1>1, <1>2, <1>3, <2>1, Zenon
  <2> QED BY <2>2
<1>8. NoLostChild'
  <2> SUFFICES ASSUME NEW u \in Tasks, NEW c \in Tasks, state'[u] = "interruptible",
                      call'[u] = "wait", Zombie(u, c)', arg'[u].pid # 0, arg'[u].pid >= -1
               PROVE  SIGCHLD \in signal'[u]
    BY DEF NoLostChild
  <2>1. arg'[u] = arg[u] /\ arg[u].pid \in Int /\ call[u] = "wait" /\ state[u] = "interruptible"
    BY <1>1, <1>2 DEF QuietStep, IInv, TypeOK
  <2>2. arg[u].pid > 0 \/ arg[u].pid = -1
    BY <2>1
  <2>3. Zombie(u, c)
    BY <1>1, <1>4, <2>2, Zenon DEF Zombie
  <2>4. SIGCHLD \in signal[u]
    BY <2>1, <2>3, Zenon DEF IInv, NoLostChild
  <2> QED BY <2>4 DEF QuietStep
<1>9. WaiterHasChild'
  <2>1. ASSUME NEW u \in Tasks, Alive(u)', call'[u] = "wait", arg'[u].pid > 0 \/ arg'[u].pid = -1
        PROVE  \E c \in Tasks : Matches(u, c)'
    <3>1. arg'[u] = arg[u] /\ call[u] = "wait" /\ Alive(u)
      BY <1>1, <1>2, <2>1, Zenon DEF QuietStep
    <3>2. \E c \in Tasks : Matches(u, c)
      BY <2>1, <3>1, Zenon DEF IInv, WaiterHasChild
    <3> QED BY <1>4, <2>1, <3>1, <3>2, Zenon
  <2>2. shell # 0 => \E c \in Tasks : Exists(c)' /\ pid[c] = shell /\ father[c] = pid[init]
    BY <1>1 DEF IInv, WaiterHasChild
  <2> QED BY <1>3, <2>1, <2>2, Zenon DEF WaiterHasChild
<1> QED BY <1>5, <1>6, <1>7, <1>8, <1>9 DEF Family

-----------------------------------------------------------------------------
(* The father's search in do_exit succeeds, so no task releases itself. *)
LEMMA FatherFound ==
  ASSUME IInv, NEW t \in Tasks, Exists(t), t # init
  PROVE  Fathers(t) # {}
<1> USE Slots
<1>1. PICK f \in Tasks : Alive(f) /\ pid[f] = father[t]
  BY DEF IInv, FatherAlive
<1>2. father[t] # 0 /\ Exists(f)
  BY <1>1 DEF IInv, TypeOK, Alive, Exists
<1>3. \A g \in Tasks : g < f => ~(Exists(g) /\ pid[g] = father[t])
  BY <1>1, <1>2 DEF IInv, PidsUnique
<1>4. f \in Fathers(t)
  BY <1>1, <1>2, <1>3 DEF Fathers
<1> QED BY <1>4

(* fork and kernel_thread: the child has a new pid and a living father. *)
LEMMA ChildKeeps ==
  ASSUME IInv, TypeOK', NEW t \in Tasks, NEW n \in EmptySlots, NEW place \in {"user", "kernel"},
         current = t, last_pid' \in NextPids, Child(t, n, place),
         UNCHANGED <<arg, current>>, shell' = shell \/ (t = init /\ shell' = last_pid')
  PROVE  Family'
<1> USE Slots
<1>1. n \in Tasks /\ ~Exists(n)
  BY DEF EmptySlots
<1>2. state[t] = "running"
  BY DEF IInv, Running
<1>3. n # t /\ n # init
  BY <1>1, <1>2 DEF IInv, PidsUnique, Exists, Alive
<1>4. \A u \in Tasks : /\ state'[u] = IF u = n THEN "running" ELSE state[u]
                       /\ pid'[u] = IF u = n THEN last_pid' ELSE pid[u]
                       /\ father'[u] = IF u = n THEN pid[t] ELSE father[u]
                       /\ u # n => signal'[u] = signal[u]
  BY <1>1 DEF Child, IInv, TypeOK
<1>5. \A u \in Tasks : call'[u] = IF u = n THEN place ELSE IF u = t THEN Home(t) ELSE call[u]
  BY <1>1, <1>3 DEF Child, IInv, TypeOK
<1>6. Home(t) \in {"kernel", "return"} /\ Home(init) = "kernel"
  BY DEF Home
<1>7. \A u \in Tasks : Exists(u) => pid[u] # last_pid'
  BY DEF NextPids, PidInUse
<1>8. \A u \in Tasks : /\ Exists(u)' <=> (u = n \/ Exists(u))
                       /\ Alive(u)' <=> (u = n \/ Alive(u))
                       /\ Alive(u) => Exists(u)
  BY <1>1, <1>4 DEF Exists, Alive
<1>9. Running'
  <2>1. call'[init] \in InitPlaces
    BY <1>3, <1>5, <1>6 DEF IInv, Running, InitPlaces
  <2>2. current' # 0 => state'[current'] = "running"
    BY <1>2, <1>3, <1>4
  <2> QED BY <2>1, <2>2 DEF Running
<1>10. PidsUnique'
  BY <1>3, <1>4, <1>7, <1>8 DEF IInv, PidsUnique
<1>11. FatherAlive'
  <2> SUFFICES ASSUME NEW u \in Tasks \ {init}, Exists(u)'
               PROVE  \E f \in Tasks : Alive(f)' /\ call'[f] # "exit" /\ pid'[f] = father'[u]
    BY DEF FatherAlive
  <2>1. CASE u = n
    <3>1. Alive(t)' /\ call'[t] # "exit" /\ pid'[t] = father'[u]
      BY <1>2, <1>3, <1>4, <1>5, <1>6, <1>8, <2>1 DEF Alive
    <3> QED BY <3>1
  <2>2. CASE u # n
    <3>1. PICK f \in Tasks : Alive(f) /\ call[f] # "exit" /\ pid[f] = father[u]
      BY <1>8, <2>2, Zenon DEF IInv, FatherAlive
    <3>2. f # n
      BY <1>1, <1>8, <3>1
    <3>3. Alive(f)' /\ call'[f] # "exit" /\ pid'[f] = father'[u]
      BY <1>4, <1>5, <1>6, <1>8, <2>2, <3>1, <3>2, Zenon
    <3> QED BY <3>3
  <2> QED BY <2>1, <2>2
<1>12. \A u \in Tasks : call'[u] = "wait" => u # n /\ u # t /\ call[u] = "wait"
  BY <1>5, <1>6
<1>13. ASSUME NEW u \in Tasks, NEW c \in Tasks, u # n, c # n, arg[u].pid \in Int,
              arg[u].pid > 0 \/ arg[u].pid = -1
       PROVE  Matches(u, c)' <=> Matches(u, c)
  <2>1. (Exists(c)' <=> Exists(c)) /\ pid'[c] = pid[c] /\ father'[c] = father[c]
    BY <1>4, <1>8, <1>13
  <2>2. pid'[u] = pid[u] /\ arg'[u] = arg[u]
    BY <1>4, <1>8, <1>13
  <2>3. arg[u].pid # 0 /\ ~(arg[u].pid < -1)
    BY <1>13, SMTT(40)
  <2> QED BY <1>13, <2>1, <2>2, <2>3, ZenonT(40) DEF Matches
<1>14. NoLostChild'
  <2> SUFFICES ASSUME NEW u \in Tasks, NEW c \in Tasks, state'[u] = "interruptible",
                      call'[u] = "wait", Zombie(u, c)', arg'[u].pid # 0, arg'[u].pid >= -1
               PROVE  SIGCHLD \in signal'[u]
    BY DEF NoLostChild
  <2>1. arg[u].pid \in Int /\ (arg[u].pid > 0 \/ arg[u].pid = -1)
    BY DEF IInv, TypeOK
  <2>2. c # n /\ u # n
    BY <1>4, <1>12 DEF Zombie
  <2>3. Zombie(u, c)
    BY <1>4, <1>13, <2>1, <2>2, Zenon DEF Zombie
  <2>4. state[u] = "interruptible" /\ call[u] = "wait"
    BY <1>4, <1>12, <2>2
  <2>5. SIGCHLD \in signal[u]
    BY <2>1, <2>3, <2>4 DEF IInv, NoLostChild
  <2> QED BY <1>4, <2>2, <2>5
<1>15. WaiterHasChild'
  <2>1. ASSUME NEW u \in Tasks, Alive(u)', call'[u] = "wait", arg'[u].pid > 0 \/ arg'[u].pid = -1
        PROVE  \E c \in Tasks : Matches(u, c)'
    <3>1. u # n /\ call[u] = "wait" /\ Alive(u) /\ arg'[u] = arg[u] /\ arg[u].pid \in Int
      BY <1>8, <1>12, <2>1 DEF IInv, TypeOK
    <3>2. PICK c \in Tasks : Matches(u, c)
      BY <2>1, <3>1, Zenon DEF IInv, WaiterHasChild
    <3>3. c # n
      BY <1>1, <3>2 DEF Matches
    <3> QED BY <1>13, <2>1, <3>1, <3>2, <3>3, Zenon
  <2>2. shell' # 0 => \E c \in Tasks : Exists(c)' /\ pid'[c] = shell' /\ father'[c] = pid'[init]
    <3>1. CASE shell' = shell
      BY <1>1, <1>3, <1>4, <1>8, <3>1 DEF IInv, WaiterHasChild
    <3>2. CASE t = init /\ shell' = last_pid'
      BY <1>1, <1>3, <1>4, <1>8, <3>2, ZenonT(40)
    <3> QED BY <3>1, <3>2
  <2> QED BY <2>1, <2>2, Zenon DEF WaiterHasChild
<1> QED BY <1>9, <1>10, <1>11, <1>14, <1>15 DEF Family

(* do_exit: the children of t become children of init. *)
LEMMA ExitKeeps ==
  ASSUME IInv, TypeOK', NEW t \in Tasks, t # init, Alive(t), do_exit(t)
  PROVE  Family'
<1> USE Slots
<1>1. state' = state /\ current' = current /\ pid' = pid /\ arg' = arg /\ shell' = shell
  BY DEF do_exit, Stays, ids
<1>2. \A u \in Tasks : call'[u] = IF u = t THEN "exit" ELSE call[u]
  BY DEF do_exit, Goto, IInv, TypeOK
<1>3. \A u \in Tasks : father'[u] = IF Exists(u) /\ father[u] = pid[t] THEN 1 ELSE father[u]
  BY DEF do_exit, Adopt, Children
<1>4. \A u \in Tasks : signal[u] \subseteq signal'[u]
  BY DEF do_exit, Adopt, IInv, TypeOK
<1>5. (\E c \in Tasks : Exists(c) /\ father[c] = pid[t] /\ state[c] = "zombie")
        => SIGCHLD \in signal'[init]
  BY DEF do_exit, Adopt, Children, IInv, TypeOK
<1>6. /\ Alive(init) /\ pid[init] = 1
      /\ \A u, v \in Tasks : Exists(u) /\ Exists(v) /\ pid[u] = pid[v] => u = v
      /\ \A u \in Tasks : Alive(u) => Exists(u)
  BY DEF IInv, PidsUnique, Alive, Exists
<1>7. \A u \in Tasks : (Exists(u)' <=> Exists(u)) /\ (Alive(u)' <=> Alive(u))
  BY <1>1 DEF Exists, Alive
<1>8. Running'
  BY <1>1, <1>2 DEF IInv, Running
<1>9. PidsUnique'
  BY <1>1, <1>7 DEF IInv, PidsUnique
<1>10. FatherAlive'
  <2> SUFFICES ASSUME NEW u \in Tasks \ {init}, Exists(u)
               PROVE  \E f \in Tasks : Alive(f) /\ call'[f] # "exit" /\ pid[f] = father'[u]
    BY <1>1, <1>7 DEF FatherAlive
  <2>1. CASE father[u] = pid[t]
    <3>1. father'[u] = 1 /\ call'[init] # "exit"
      BY <1>2, <1>3, <2>1 DEF IInv, Running, InitPlaces
    <3> QED BY <1>6, <3>1
  <2>2. CASE father[u] # pid[t]
    <3>1. PICK f \in Tasks : Alive(f) /\ call[f] # "exit" /\ pid[f] = father[u]
      BY DEF IInv, FatherAlive
    <3> QED BY <1>2, <1>3, <2>2, <3>1
  <2> QED BY <2>1, <2>2
<1>11. \A w, c \in Tasks : w # t /\ Alive(w) /\ Exists(c) /\ father[c] = pid[w]
         => father'[c] = father[c]
  BY <1>3, <1>6
<1>12. NoLostChild'
  <2> SUFFICES ASSUME NEW w \in Tasks, NEW c \in Tasks, state[w] = "interruptible",
                      call'[w] = "wait", Zombie(w, c)', arg[w].pid # 0, arg[w].pid >= -1
               PROVE  SIGCHLD \in signal'[w]
    BY <1>1 DEF NoLostChild
  <2>1. w # t /\ call[w] = "wait" /\ Alive(w) /\ Exists(w)
    BY <1>2, SMTT(40) DEF Alive, Exists
  <2>2. state[c] = "zombie" /\ Exists(c) /\ father'[c] = pid[w] /\ c # w
    BY <1>1, SMTT(40) DEF Zombie, Matches, Exists
  <2>3. CASE father[c] = pid[t]
    <3>1. w = init
      BY <1>3, <1>6, <2>1, <2>2, <2>3
    <3> QED BY <1>5, <2>2, <2>3, <3>1
  <2>4. CASE father[c] # pid[t]
    <3>1. father[c] = pid[w]
      BY <1>3, <2>2, <2>4, ZenonT(40)
    <3>2. arg[w].pid \in Int /\ (arg[w].pid > 0 \/ arg[w].pid = -1)
      BY DEF IInv, TypeOK
    <3>3. arg[w].pid > 0 => pid[c] = arg[w].pid
      BY <1>1, <3>2 DEF Zombie, Matches
    <3>4. Zombie(w, c)
      BY <2>2, <3>1, <3>2, <3>3, SMTT(40) DEF Zombie, Matches
    <3> QED BY <1>4, <2>1, <3>4, Zenon DEF IInv, NoLostChild
  <2> QED BY <2>3, <2>4
<1>13. WaiterHasChild'
  <2>1. ASSUME NEW w \in Tasks, Alive(w)', call'[w] = "wait", arg'[w].pid > 0 \/ arg'[w].pid = -1
        PROVE  \E c \in Tasks : Matches(w, c)'
    <3>1. w # t /\ call[w] = "wait" /\ Alive(w) /\ arg'[w] = arg[w] /\ arg[w].pid \in Int
      BY <1>1, <1>2, <1>7, <2>1 DEF IInv, TypeOK
    <3>2. PICK c \in Tasks : Matches(w, c)
      BY <2>1, <3>1, Zenon DEF IInv, WaiterHasChild
    <3>3. father'[c] = father[c]
      BY <1>11, <3>1, <3>2, ZenonT(40) DEF Matches
    <3>4. Exists(c)' /\ c # w /\ father'[c] = pid'[w] /\ pid'[c] = pid[c] /\ arg'[w] = arg[w]
      BY <1>1, <1>7, <3>1, <3>2, <3>3, SMTT(40) DEF Matches
    <3>5. arg'[w].pid > 0 => pid'[c] = arg'[w].pid
      BY <3>1, <3>2, <3>4, SMTT(40) DEF Matches
    <3>6. Matches(w, c)'
      BY <2>1, <3>4, <3>5, SMTT(40) DEF Matches
    <3> QED BY <3>6
  <2>2. shell' # 0 => \E c \in Tasks : Exists(c)' /\ pid'[c] = shell' /\ father'[c] = pid'[init]
    BY <1>1, <1>6, <1>7, <1>11, Zenon DEF IInv, WaiterHasChild
  <2> QED BY <2>1, <2>2 DEF WaiterHasChild
<1> QED BY <1>8, <1>9, <1>10, <1>12, <1>13 DEF Family

(* The end of do_exit: t becomes a zombie and its father hears of it. *)
LEMMA EndKeeps ==
  ASSUME IInv, TypeOK', NEW t \in Tasks, ExitEnds(t)
  PROVE  Family'
<1> USE Slots
<1>1. state[t] = "running" /\ call[t] = "exit" /\ t # init
  BY DEF ExitEnds, At, IInv, Running, InitPlaces
<1>2. PICK f \in Fathers(t) :
        /\ signal' = [Hangup(t) EXCEPT ![f] = @ \cup {SIGCHLD}]
        /\ schedule([state EXCEPT ![t] = "zombie"], signal')
  <2>1. Fathers(t) # {}
    BY <1>1, FatherFound DEF Exists
  <2> QED BY <2>1, Zenon DEF ExitEnds, NoFatherFound, tell_father
<1>3. [state EXCEPT ![t] = "zombie"] \in [Tasks -> States]
  BY DEF IInv, TypeOK, States
<1>4. /\ \A u \in Tasks : u # t => \/ state'[u] = state[u]
                                   \/ state[u] = "interruptible" /\ state'[u] = "running"
      /\ state'[t] = "zombie"
      /\ current' # 0 => state'[current'] = "running"
  <2> DEFINE st == [state EXCEPT ![t] = "zombie"]
  <2>1. st[t] = "zombie" /\ \A u \in Tasks : u # t => st[u] = state[u]
    BY DEF IInv, TypeOK
  <2>2. st \in [Tasks -> States] /\ schedule(st, signal')
    BY <1>2, <1>3
  <2> HIDE DEF st
  <2>3. /\ \A u \in Tasks : \/ state'[u] = st[u]
                            \/ st[u] = "interruptible" /\ state'[u] = "running"
        /\ current' # 0 => state'[current'] = "running"
    BY <2>2, ScheduleEffect
  <2> QED BY <2>1, <2>3
<1>5. pid' = pid /\ father' = father /\ call' = call /\ arg' = arg /\ shell' = shell
  BY DEF ExitEnds, ids
<1>6. f \in Tasks /\ Exists(f) /\ pid[f] = father[t]
  BY DEF Fathers
<1>7. SIGCHLD \in signal'[f] /\ \A u \in Tasks : signal[u] \subseteq signal'[u]
  BY <1>2, <1>6 DEF Hangup
<1>8. \A u \in Tasks : /\ Exists(u)' <=> Exists(u)
                       /\ Alive(u)' <=> (u # t /\ Alive(u))
                       /\ state'[u] = "zombie" <=> (u = t \/ state[u] = "zombie")
                       /\ state'[u] = "interruptible" => state[u] = "interruptible"
  BY <1>1, <1>4 DEF Exists, Alive
<1>9. Running'
  BY <1>4, <1>5 DEF IInv, Running
<1>10. PidsUnique'
  BY <1>1, <1>5, <1>8 DEF IInv, PidsUnique
<1>11. FatherAlive'
  BY <1>1, <1>5, <1>8, SMTT(40) DEF IInv, FatherAlive
<1>12. \A w, c \in Tasks :
         Matches(w, c) /\ (arg[w].pid > 0 \/ arg[w].pid = -1) /\ arg[w].pid \in Int
         => Matches(w, c)'
  BY <1>5, <1>8 DEF Matches
<1>13. NoLostChild'
  <2> SUFFICES ASSUME NEW w \in Tasks, NEW c \in Tasks, state'[w] = "interruptible",
                      call[w] = "wait", Zombie(w, c)', arg[w].pid # 0, arg[w].pid >= -1
               PROVE  SIGCHLD \in signal'[w]
    BY <1>5, ZenonT(40) DEF NoLostChild
  <2>1. state[w] = "interruptible" /\ Exists(w)
    BY <1>8, SMTT(40) DEF Exists
  <2>2. state'[c] = "zombie" /\ Exists(c) /\ father[c] = pid[w] /\ c # w
    BY <1>5, <1>8, ZenonT(40) DEF Zombie, Matches
  <2>3. CASE c = t
    <3>1. w = f
      BY <1>6, <2>1, <2>2, <2>3 DEF IInv, PidsUnique
    <3> QED BY <1>7, <3>1
  <2>4. CASE c # t
    <3>1. state[c] = "zombie"
      BY <1>8, <2>2, <2>4
    <3>2. arg[w].pid \in Int /\ (arg[w].pid > 0 \/ arg[w].pid = -1)
      BY DEF IInv, TypeOK
    <3>3. arg[w].pid > 0 => pid[c] = arg[w].pid
      BY <1>5, <3>2, SMTT(40) DEF Zombie, Matches
    <3>4. Zombie(w, c)
      BY <2>2, <3>1, <3>2, <3>3, SMTT(40) DEF Zombie, Matches
    <3> QED BY <1>7, <2>1, <3>4, ZenonT(40) DEF IInv, NoLostChild
  <2> QED BY <2>3, <2>4, SMTT(40)
<1>14. WaiterHasChild'
  <2>1. ASSUME NEW w \in Tasks, Alive(w)', call'[w] = "wait", arg'[w].pid > 0 \/ arg'[w].pid = -1
        PROVE  \E c \in Tasks : Matches(w, c)'
    <3>1. call[w] = "wait" /\ Alive(w) /\ arg'[w] = arg[w] /\ arg[w].pid \in Int
      BY <1>5, <1>8, <2>1 DEF IInv, TypeOK
    <3>2. PICK c \in Tasks : Matches(w, c)
      BY <2>1, <3>1, Zenon DEF IInv, WaiterHasChild
    <3> QED BY <1>12, <2>1, <3>1, <3>2, Zenon
  <2>2. shell' # 0 => \E c \in Tasks : Exists(c)' /\ pid'[c] = shell' /\ father'[c] = pid'[init]
    BY <1>5, <1>8 DEF IInv, WaiterHasChild
  <2> QED BY <2>1, <2>2, ZenonT(40) DEF WaiterHasChild
<1> QED BY <1>9, <1>10, <1>11, <1>13, <1>14 DEF Family

(* waitpid takes the zombie c of t: no other process waited for it. *)
LEMMA ReleaseKeeps ==
  ASSUME IInv, TypeOK', NEW t \in Tasks, NEW c \in Tasks, release(t, c)
  PROVE  Family'
<1> USE Slots
<1>1. state[t] = "running" /\ state[c] = "zombie" /\ c # t /\ father[c] = pid[t]
  BY DEF release, At, Zombie, Matches, IInv, Running
<1>2. c # init
  BY <1>1 DEF IInv, PidsUnique, Alive
<1>3. [state EXCEPT ![c] = "none"] \in [Tasks -> States]
  BY SMTT(40) DEF IInv, TypeOK, States
<1>4. /\ \A u \in Tasks : u # c => \/ state'[u] = state[u]
                                   \/ state[u] = "interruptible" /\ state'[u] = "running"
      /\ state'[c] = "none"
      /\ current' # 0 => state'[current'] = "running"
  BY <1>3, ScheduleEffect, ZenonT(40) DEF release, IInv, TypeOK
<1>5. pid' = pid /\ father' = father /\ arg' = arg /\ signal' = signal
  BY DEF release, ids
<1>6. \A u \in Tasks : call'[u] = IF u = t THEN "reap" ELSE call[u]
  BY DEF release, Goto, IInv, TypeOK
<1>7. \A u \in Tasks : /\ Exists(u)' <=> (u # c /\ Exists(u))
                       /\ Alive(u)' <=> Alive(u)
                       /\ Alive(u) => Exists(u) /\ u # c
                       /\ state'[u] = "zombie" <=> (u # c /\ state[u] = "zombie")
                       /\ state'[u] = "interruptible" => state[u] = "interruptible"
  BY <1>1, <1>4, Zenon DEF Exists, Alive
<1>8. \A u, v \in Tasks : Exists(u) /\ Exists(v) /\ pid[u] = pid[v] => u = v
  BY DEF IInv, PidsUnique
<1>9. Running'
  BY <1>4, <1>6 DEF IInv, Running, InitPlaces
<1>10. PidsUnique'
  BY <1>5, <1>7 DEF IInv, PidsUnique
<1>11. FatherAlive'
  BY <1>5, <1>6, <1>7 DEF IInv, FatherAlive
<1>12. \A w, d \in Tasks : Alive(w) /\ w # t /\ father[d] = pid[w] => d # c
  BY <1>1, <1>7, <1>8 DEF Exists
<1>13. NoLostChild'
  <2> SUFFICES ASSUME NEW w \in Tasks, NEW d \in Tasks, state'[w] = "interruptible",
                      call'[w] = "wait", Zombie(w, d)', arg[w].pid # 0, arg[w].pid >= -1
               PROVE  SIGCHLD \in signal[w]
    BY <1>5, ZenonT(40) DEF NoLostChild
  <2>1. call[w] = "wait" /\ state[w] = "interruptible"
    BY <1>6, <1>7
  <2>2. state[d] = "zombie" /\ Exists(d) /\ father[d] = pid[w] /\ d # w
    BY <1>5, <1>7 DEF Zombie, Matches
  <2>3. arg[w].pid \in Int /\ (arg[w].pid > 0 \/ arg[w].pid = -1)
    BY SMTT(40) DEF IInv, TypeOK
  <2>4. arg[w].pid > 0 => pid[d] = arg[w].pid
    BY <1>5, <2>3, SMTT(40) DEF Zombie, Matches
  <2>5. Zombie(w, d)
    BY <2>2, <2>3, <2>4, ZenonT(30) DEF Zombie, Matches
  <2> QED BY <2>1, <2>5, Zenon DEF IInv, NoLostChild
<1>14. WaiterHasChild'
  <2>1. ASSUME NEW w \in Tasks, Alive(w)', call'[w] = "wait", arg'[w].pid > 0 \/ arg'[w].pid = -1
        PROVE  \E d \in Tasks : Matches(w, d)'
    <3>1. w # t /\ call[w] = "wait" /\ Alive(w) /\ arg'[w] = arg[w] /\ arg[w].pid \in Int
      BY <1>5, <1>6, <1>7, <2>1, SMTT(40) DEF IInv, TypeOK
    <3>2. PICK d \in Tasks : Matches(w, d)
      BY <2>1, <3>1, Zenon DEF IInv, WaiterHasChild
    <3>3. d # c
      BY <1>12, <3>1, <3>2, ZenonT(40) DEF Matches
    <3>4. Exists(d)' /\ d # w /\ father'[d] = pid'[w] /\ pid'[d] = pid[d]
      BY <1>5, <1>7, <3>2, <3>3 DEF Matches
    <3>5. arg'[w].pid > 0 => pid'[d] = arg'[w].pid
      BY <3>1, <3>2, <3>4, SMTT(40) DEF Matches
    <3>6. Matches(w, d)'
      BY <2>1, <3>4, <3>5 DEF Matches
    <3> QED BY <3>6, SMTT(40)
  <2>2. shell' # 0 => \E d \in Tasks : Exists(d)' /\ pid'[d] = shell' /\ father'[d] = pid'[init]
    <3> SUFFICES ASSUME shell' # 0
                 PROVE  \E d \in Tasks : Exists(d)' /\ pid'[d] = shell' /\ father'[d] = pid'[init]
      OBVIOUS
    <3>1. shell' = shell /\ ~(t = init /\ pid[c] = shell)
      BY DEF release
    <3>2. PICK d \in Tasks : Exists(d) /\ pid[d] = shell /\ father[d] = pid[init]
      BY <3>1 DEF IInv, WaiterHasChild
    <3>3. d # c
      BY <1>12, <3>1, <3>2 DEF IInv, PidsUnique
    <3> QED BY <1>5, <1>7, <3>1, <3>2, <3>3
  <2> QED BY <2>1, <2>2 DEF WaiterHasChild
<1> QED BY <1>9, <1>10, <1>11, <1>13, <1>14, ZenonT(30) DEF Family

(* waitpid goes to sleep: it has just seen that it has a child and none    *)
(* that is a zombie.                                                       *)
LEMMA SleepKeeps ==
  ASSUME IInv, TypeOK', NEW t \in Tasks, WaitSleeps(t)
  PROVE  Family'
<1> USE Slots
<1>1. state[t] = "running"
  BY DEF WaitSleeps, At, IInv, Running
<1>2. [state EXCEPT ![t] = "interruptible"] \in [Tasks -> States]
  BY SMTT(40) DEF IInv, TypeOK, States
<1>3. /\ \A u \in Tasks : u # t => \/ state'[u] = state[u]
                                   \/ state[u] = "interruptible" /\ state'[u] = "running"
      /\ state'[t] \in {"interruptible", "running"}
      /\ current' # 0 => state'[current'] = "running"
  BY <1>2, ScheduleEffect, ZenonT(40) DEF WaitSleeps, IInv, TypeOK
<1>4. /\ pid' = pid /\ father' = father /\ pgrp' = pgrp
      /\ arg' = arg /\ signal' = signal /\ shell' = shell
  BY DEF WaitSleeps, ids
<1>5. \A u \in Tasks : call'[u] = IF u = t THEN "wait" ELSE call[u]
  BY DEF WaitSleeps, Goto, IInv, TypeOK
<1>6. \A u \in Tasks : /\ Exists(u)' <=> Exists(u)
                       /\ Alive(u)' <=> Alive(u)
                       /\ state'[u] = "zombie" <=> state[u] = "zombie"
                       /\ u # t /\ state'[u] = "interruptible" => state[u] = "interruptible"
  BY <1>1, <1>3, SMTT(40) DEF Exists, Alive
<1>7. \A w, c \in Tasks : Matches(w, c)' <=> Matches(w, c)
  BY <1>4, <1>6, ZenonT(40) DEF Matches
<1>8. \A w, c \in Tasks : Zombie(w, c)' <=> Zombie(w, c)
  BY <1>6, <1>7 DEF Zombie
<1>9. Running'
  BY <1>3, <1>5 DEF IInv, Running, InitPlaces
<1>10. PidsUnique'
  BY <1>4, <1>6 DEF IInv, PidsUnique
<1>11. FatherAlive'
  <2>1. ASSUME NEW u \in Tasks \ {init}, Exists(u)'
        PROVE  \E f \in Tasks : Alive(f)' /\ call'[f] # "exit" /\ pid'[f] = father'[u]
    <3>1. PICK f \in Tasks : Alive(f) /\ call[f] # "exit" /\ pid[f] = father[u]
      BY <1>6, <2>1, ZenonT(40) DEF IInv, FatherAlive
    <3>2. call'[f] # "exit"
      BY <1>5, <3>1
    <3> QED BY <1>4, <1>6, <3>1, <3>2, ZenonT(40)
  <2> QED BY <2>1, ZenonT(40) DEF FatherAlive
<1>12. NoLostChild'
  BY <1>4, <1>5, <1>6, <1>8, SMTT(40) DEF IInv, NoLostChild, WaitSleeps
<1>13. WaiterHasChild'
  <2>1. ASSUME NEW w \in Tasks, Alive(w)', call'[w] = "wait", arg'[w].pid > 0 \/ arg'[w].pid = -1
        PROVE  \E c \in Tasks : Matches(w, c)'
    <3>1. CASE w = t
      BY <1>7, <3>1 DEF WaitSleeps
    <3>2. CASE w # t
      BY <1>4, <1>5, <1>6, <1>7, <2>1, <3>2, ZenonT(40) DEF IInv, WaiterHasChild
    <3> QED BY <3>1, <3>2
  <2>2. shell' # 0 => \E c \in Tasks : Exists(c)' /\ pid'[c] = shell' /\ father'[c] = pid'[init]
    BY <1>4, <1>6, ZenonT(40) DEF IInv, WaiterHasChild
  <2> QED BY <2>1, <2>2, ZenonT(40) DEF WaiterHasChild
<1> QED BY <1>9, <1>10, <1>11, <1>12, <1>13 DEF Family

-----------------------------------------------------------------------------
(* The current task goes to another place, but not to wait or to exit, and *)
(* changes no pid, no father and at most its own argument; it takes away   *)
(* no signal but its own.                                                  *)
LEMMA MoveIsQuiet ==
  ASSUME IInv, NEW t \in Tasks, NEW place, current = t, Stays, Goto(t, place),
         place \notin {"wait", "exit"}, t = init => place \in InitPlaces,
         UNCHANGED <<pid, father, shell>>,
         \A u \in Tasks : u # t => arg'[u] = arg[u] /\ signal[u] \subseteq signal'[u]
  PROVE  QuietStep
<1> USE Slots
<1>1. \A u \in Tasks : call'[u] = IF u = t THEN place ELSE call[u]
  BY DEF Goto, IInv, TypeOK
<1>2. call'[init] \in InitPlaces
  BY <1>1 DEF IInv, Running
<1>3. state' = state /\ current' = current
  BY DEF Stays
<1> QED BY <1>1, <1>2, <1>3, ZenonT(40) DEF QuietStep, IInv, Running

(* Each action keeps the family together. *)
LEMMA FamilyStep == IInv /\ TypeOK' /\ Next => Family'
<1> SUFFICES ASSUME IInv, TypeOK', Next PROVE Family'
  OBVIOUS
<1> USE Slots
<1>0. /\ state \in [Tasks -> States] /\ signal \in [Tasks -> SUBSET Signals]
      /\ \A t \in Tasks : current = t => state[t] = "running"
      /\ call[init] \in InitPlaces /\ Alive(init)
  BY DEF IInv, TypeOK, States, Running, PidsUnique
<1>1. CASE Idle
  <2>1. /\ \A u \in Tasks : \/ state'[u] = state[u]
                            \/ state[u] = "interruptible" /\ state'[u] = "running"
        /\ current' # 0 => state'[current'] = "running"
    BY <1>0, <1>1, ScheduleEffect DEF Idle
  <2>2. QuietStep
    BY <1>0, <1>1, <2>1 DEF Idle, ids, QuietStep, Alive
  <2> QED BY <2>2, QuietKeeps
<1>2. CASE kernel_thread
  <2>1. PICK n \in EmptySlots : Child(init, n, "kernel")
    BY <1>2 DEF kernel_thread
  <2>2. current = init /\ last_pid' \in NextPids /\ shell' = last_pid' /\ UNCHANGED <<arg, current>>
    BY <1>2, ZenonT(30) DEF kernel_thread, At
  <2> QED BY <2>1, <2>2, ChildKeeps
<1>3. CASE At(init, "kernel") /\ shell # 0 /\ sys_waitpid(init, -1, FALSE)
  <2>1. QuietStep
    BY <1>3, MoveIsQuiet, ZenonT(30) DEF sys_waitpid, At, ids, InitPlaces, IInv, TypeOK
  <2> QED BY <2>1, QuietKeeps
<1>4. ASSUME NEW t \in Tasks, TaskStep(t) PROVE Family'
  <2>1. CASE do_timer(t)
    <3>1. t # init /\ current = t /\ Alive(t)
      BY <1>0, <2>1 DEF do_timer, At, InitPlaces, Alive
    <3>2. CASE Stays
      <4>1. QuietStep
        BY <2>1, <3>1, <3>2, MoveIsQuiet, Zenon DEF do_timer, ids
      <4> QED BY <4>1, QuietKeeps, SMTT(40)
    <3>3. CASE schedule(state, signal)
      <4>1. /\ \A u \in Tasks : \/ state'[u] = state[u]
                                \/ state[u] = "interruptible" /\ state'[u] = "running"
            /\ current' # 0 => state'[current'] = "running"
        BY <1>0, <3>3, ScheduleEffect, SMTT(40)
      <4>2. \A u \in Tasks : call'[u] = IF u = t THEN "return" ELSE call[u]
        BY <2>1, ZenonT(40) DEF do_timer, Goto, IInv, TypeOK
      <4>3. QuietStep
        BY <1>0, <2>1, <3>1, <4>1, <4>2 DEF do_timer, ids, QuietStep, Alive
      <4> QED BY <4>3, QuietKeeps
    <3> QED BY <2>1, <3>2, <3>3 DEF do_timer
  <2>2. CASE sys_fork(t)
    <3>1. PICK n \in EmptySlots : Child(t, n, "user")
      BY <2>2 DEF sys_fork
    <3>2. current = t /\ last_pid' \in NextPids /\ shell' = shell /\ UNCHANGED <<arg, current>>
      BY <2>2, SMTT(40) DEF sys_fork, At
    <3> QED BY <3>1, <3>2, ChildKeeps
  <2>3. CASE ForkFails(t)
    <3>1. QuietStep
      BY <2>3, MoveIsQuiet, Zenon DEF ForkFails, At, Home, ids, InitPlaces
    <3> QED BY <3>1, QuietKeeps
  <2>4. CASE Shell(t)
    <3>1. t # init /\ current = t /\ Alive(t)
      BY <1>0, <2>4 DEF Shell, At, Alive
    <3>2. CASE sys_setsid(t) /\ UNCHANGED call
      <4>1. QuietStep
        BY <1>0, <3>2, SMTT(40) DEF sys_setsid, Stays, QuietStep, IInv, Running
      <4> QED BY <4>1, QuietKeeps
    <3>3. CASE /\ Goto(t, "user") /\ Stays
               /\ UNCHANGED <<ids, father, signal, blocked, arg, last_pid, shell>>
      <4>1. QuietStep
        BY <3>1, <3>3, MoveIsQuiet DEF ids
      <4> QED BY <4>1, QuietKeeps
    <3>4. CASE do_exit(t)
      BY <3>1, <3>4, ExitKeeps
    <3> QED BY <2>4, <3>2, <3>3, <3>4 DEF Shell
  <2>5. CASE sys_exit(t) \/ SignalExits(t)
    <3>1. do_exit(t) /\ t # init /\ Alive(t)
      BY <1>0, <2>5 DEF sys_exit, SignalExits, At, InitPlaces, Alive
    <3> QED BY <3>1, ExitKeeps
  <2>6. CASE ExitBlocks(t)
    <3>1. [state EXCEPT ![t] = "uninterruptible"] \in [Tasks -> States] /\ Alive(t)
      BY <1>0, <2>6 DEF States, ExitBlocks, At, Alive
    <3>2. /\ \A u \in Tasks : \/ u = t \/ state'[u] = state[u]
                              \/ state[u] = "interruptible" /\ state'[u] = "running"
          /\ state'[t] = "uninterruptible"
          /\ current' # 0 => state'[current'] = "running"
      BY <1>0, <2>6, <3>1, ScheduleEffect, ZenonT(40) DEF ExitBlocks
    <3>3. QuietStep
      BY <1>0, <2>6, <3>1, <3>2 DEF ExitBlocks, ids, QuietStep, Alive
    <3> QED BY <3>3, QuietKeeps
  <2>7. CASE ExitUnblocked(t)
    <3>1. \A u \in Tasks : state'[u] = IF u = t THEN "running" ELSE state[u]
      BY <1>0, <2>7, ZenonT(30) DEF ExitUnblocked
    <3>2. current' # 0 => state'[current'] = "running"
      BY <1>0, <2>7, <3>1, ConstantsOK DEF ExitUnblocked, IInv, TypeOK, Tasks
    <3>3. QuietStep
      BY <1>0, <2>7, <3>1, <3>2 DEF ExitUnblocked, ids, QuietStep, Alive
    <3> QED BY <3>3, QuietKeeps
  <2>8. CASE ExitEnds(t)
    BY <2>8, EndKeeps
  <2>9. ASSUME NEW p \in WaitArgs, NEW nohang \in BOOLEAN, At(t, "user"), sys_waitpid(t, p, nohang)
        PROVE  Family'
    <3>1. QuietStep
      BY <2>9, MoveIsQuiet DEF sys_waitpid, At, ids, InitPlaces, IInv, TypeOK
    <3> QED BY <3>1, QuietKeeps, ZenonT(30)
  <2>10. ASSUME NEW c \in Tasks, release(t, c) PROVE Family'
    BY <2>10, ReleaseKeeps, SMTT(40)
  <2>11. CASE Reaped(t) \/ WaitReturns(t)
    <3>1. QuietStep
      BY <2>11, MoveIsQuiet, Zenon DEF Reaped, WaitReturns, At, Home, ids, InitPlaces
    <3> QED BY <3>1, QuietKeeps
  <2>12. CASE WaitSleeps(t)
    BY <2>12, SleepKeeps
  <2>13. CASE WaitWakes(t)
    <3>1. /\ current = t /\ Stays /\ UNCHANGED <<pid, father, shell, arg>>
          /\ \E place \in {"scan", Home(t)} : Goto(t, place)
          /\ \A u \in Tasks : u # t => signal'[u] = signal[u]
      BY <1>0, <2>13, SMTT(40) DEF WaitWakes, At, ids
    <3>2. QuietStep
      BY <3>1, MoveIsQuiet, ZenonT(40) DEF Home, InitPlaces
    <3> QED BY <3>2, QuietKeeps
  <2>14. CASE NoSignal(t) \/ do_signal(t)
    <3>1. /\ current = t /\ t # init /\ Stays /\ UNCHANGED <<pid, father, shell, arg>>
          /\ Goto(t, "user")
          /\ \A u \in Tasks : u # t => signal'[u] = signal[u]
      BY <1>0, <2>14, SMTT(40) DEF NoSignal, do_signal, At, ids, InitPlaces
    <3>2. QuietStep
      BY <3>1, MoveIsQuiet, ZenonT(40)
    <3> QED BY <3>2, QuietKeeps
  <2>15. ASSUME NEW mask \in Masks, sys_ssetmask(t, mask) PROVE Family'
    <3>1. QuietStep
      BY <1>0, <2>15, MoveIsQuiet DEF sys_ssetmask, At, ids, InitPlaces
    <3> QED BY <3>1, QuietKeeps
  <2>16. ASSUME NEW p \in KillArgs, NEW sig \in KillSigs, sys_kill(t, p, sig) PROVE Family'
    <3>1. \A u \in Tasks : signal[u] \subseteq signal'[u]
      BY <2>16, ZenonT(40) DEF sys_kill
    <3>2. QuietStep
      BY <1>0, <2>16, <3>1, MoveIsQuiet DEF sys_kill, At, ids, InitPlaces
    <3> QED BY <3>2, QuietKeeps
  <2>17. CASE At(t, "user") /\ sys_setsid(t) /\ Goto(t, "return")
    <3>1. QuietStep
      BY <1>0, <2>17, MoveIsQuiet DEF sys_setsid, At, InitPlaces
    <3> QED BY <3>1, QuietKeeps
  <2>18. ASSUME NEW u \in Tasks, NEW g \in Groups, sys_setpgid(t, u, g) PROVE Family'
    <3>1. QuietStep
      BY <1>0, <2>18, MoveIsQuiet DEF sys_setpgid, At, InitPlaces
    <3> QED BY <3>1, QuietKeeps
  <2> QED BY <1>4, <2>1, <2>2, <2>3, <2>4, <2>5, <2>6, <2>7, <2>8, <2>9, <2>10, <2>11, <2>12,
             <2>13, <2>14, <2>15, <2>16, <2>17, <2>18 DEF TaskStep
<1> QED BY <1>1, <1>2, <1>3, <1>4, Zenon DEF Next, InitStep

-----------------------------------------------------------------------------
(* c is taken by its father, which is in waitpid. *)
TakenByFather(c) ==
  /\ state'[c] = "none"
  /\ \E f \in Tasks : current = f /\ call[f] = "scan" /\ father[c] = pid[f]

(* A zombie leaves its slot when its father takes it, and a slot is filled *)
(* by a process that leads no session.                                     *)
LEMMA SlotStep ==
  ASSUME IInv, Next, NEW c \in Tasks
  PROVE  /\ state[c] = "zombie" /\ state'[c] # "zombie" => TakenByFather(c)
         /\ ~Exists(c) /\ Exists(c)' => ~leader'[c]
<1> USE Slots
<1>0. /\ state \in [Tasks -> States]
      /\ \A t \in Tasks : current = t => state[t] = "running"
  BY DEF IInv, TypeOK, States, Running
<1>1. CASE state' = state
  BY <1>1 DEF Exists
<1>2. ASSUME NEW sg, schedule(state, sg)
      PROVE  /\ state[c] = "zombie" => state'[c] = "zombie"
             /\ ~Exists(c) => ~Exists(c)'
  BY <1>0, <1>2, ScheduleEffect DEF Exists
<1>3. ASSUME NEW t \in Tasks, NEW s \in States, NEW sg, state[t] = "running",
             schedule([state EXCEPT ![t] = s], sg)
      PROVE  /\ state[c] = "zombie" => state'[c] = "zombie"
             /\ ~Exists(c) => ~Exists(c)'
  <2>1. [state EXCEPT ![t] = s] \in [Tasks -> States]
    BY <1>0
  <2>2. \/ state'[c] = [state EXCEPT ![t] = s][c]
        \/ [state EXCEPT ![t] = s][c] = "interruptible" /\ state'[c] = "running"
    BY <1>3, <2>1, ScheduleEffect, Zenon
  <2>3. CASE c = t
    BY <1>3, <2>3 DEF Exists
  <2>4. CASE c # t
    BY <1>0, <2>2, <2>4 DEF Exists
  <2> QED BY <2>3, <2>4
<1>4. ASSUME NEW t \in Tasks, NEW n \in EmptySlots, NEW place, Child(t, n, place)
      PROVE  /\ state[c] = "zombie" => state'[c] = "zombie"
             /\ ~Exists(c) /\ Exists(c)' => ~leader'[c]
  <2>1. n \in Tasks /\ ~Exists(n)
    BY <1>4 DEF EmptySlots
  <2>2. state'[n] = "running" /\ (c # n => state'[c] = state[c])
    BY <1>0, <1>4, <2>1 DEF Child
  <2>3. ~leader'[n]
    BY <1>4, <2>1, ZenonT(40) DEF Child, IInv, TypeOK
  <2> QED BY <2>1, <2>2, <2>3 DEF Exists
<1>5. ASSUME NEW t \in Tasks, TaskStep(t), state' # state
      PROVE  /\ state[c] = "zombie" /\ state'[c] # "zombie" => TakenByFather(c)
             /\ ~Exists(c) /\ Exists(c)' => ~leader'[c]
  <2>1. CASE do_timer(t)
    BY <1>2, <1>5, <2>1 DEF do_timer, Stays
  <2>2. CASE sys_fork(t)
    BY <1>4, <2>2 DEF sys_fork
  <2>3. CASE ExitBlocks(t)
    BY <1>0, <1>3, <2>3, Zenon DEF ExitBlocks, At, States
  <2>4. CASE ExitUnblocked(t)
    BY <1>0, <2>4 DEF ExitUnblocked, Exists
  <2>5. CASE ExitEnds(t)
    BY <1>0, <1>3, <2>5, Zenon DEF ExitEnds, tell_father, NoFatherFound, At, States
  <2>6. ASSUME NEW d \in Tasks, release(t, d)
        PROVE  /\ state[c] = "zombie" /\ state'[c] # "zombie" => TakenByFather(c)
               /\ ~Exists(c) => ~Exists(c)'
    <3>1. [state EXCEPT ![d] = "none"] \in [Tasks -> States]
      BY <1>0 DEF States
    <3>2. \/ state'[c] = [state EXCEPT ![d] = "none"][c]
          \/ [state EXCEPT ![d] = "none"][c] = "interruptible" /\ state'[c] = "running"
      BY <2>6, <3>1, ScheduleEffect, ZenonT(40) DEF release
    <3>3. current = t /\ call[t] = "scan" /\ father[d] = pid[t]
      BY <2>6, ZenonT(30) DEF release, At, Zombie, Matches
    <3>4. CASE c = d
      BY <1>0, <3>2, <3>3, <3>4 DEF TakenByFather, Exists
    <3>5. CASE c # d
      BY <1>0, <3>2, <3>5, SMTT(40) DEF Exists
    <3> QED BY <3>4, <3>5
  <2>7. CASE WaitSleeps(t)
    BY <1>0, <1>3, <2>7, Zenon DEF WaitSleeps, At, States
  <2> QED BY <1>5, <2>1, <2>2, <2>3, <2>4, <2>5, <2>6, <2>7, ZenonT(40)
          DEF TaskStep, ForkFails, Shell, sys_setsid, sys_exit, SignalExits, do_exit, sys_waitpid,
              Reaped, WaitReturns, WaitWakes, NoSignal, do_signal, sys_ssetmask, sys_kill,
              sys_setpgid, Stays
<1>6. CASE Idle
  BY <1>2, <1>6 DEF Idle
<1>7. CASE kernel_thread
  BY <1>4, <1>7, ZenonT(30) DEF kernel_thread
<1>8. CASE At(init, "kernel") /\ shell # 0 /\ sys_waitpid(init, -1, FALSE)
  BY <1>1, <1>8 DEF sys_waitpid, Stays
<1> QED BY <1>1, <1>5, <1>6, <1>7, <1>8, Zenon DEF Next, InitStep

-----------------------------------------------------------------------------
(* What a step may do to the group and the session of a process: nothing,  *)
(* make it the leader of its own, or, when it is no leader, move it.       *)
SameIds(u) ==
  pid'[u] = pid[u] /\ pgrp'[u] = pgrp[u] /\ session'[u] = session[u] /\ leader'[u] = leader[u]

OwnIds(u) ==
  pid'[u] = pid[u] /\ pgrp'[u] = pid[u] /\ session'[u] = pid[u]

StaysNoLeader(u) == ~leader[u] /\ ~leader'[u]

(* No step does anything else: setsid makes a leader of its caller, and    *)
(* setpgid moves nobody who leads a session.                               *)
LEMMA IdsStep ==
  ASSUME IInv, Next, NEW u \in Tasks, Exists(u)
  PROVE  SameIds(u) \/ OwnIds(u) \/ StaysNoLeader(u)
<1>1. CASE UNCHANGED ids
  BY <1>1, Zenon DEF ids, SameIds
<1>2. ASSUME NEW t \in Tasks, NEW n \in EmptySlots, NEW place, Child(t, n, place)
      PROVE  SameIds(u)
  <2>1. n # u
    BY <1>2, ZenonT(30) DEF EmptySlots
  <2>2. pid'[u] = pid[u] /\ pgrp'[u] = pgrp[u] /\ session'[u] = session[u]
    BY <1>2, <2>1 DEF Child, IInv, TypeOK
  <2>3. leader'[u] = leader[u]
    BY <1>2, <2>1, Zenon DEF Child, IInv, TypeOK
  <2> QED BY <2>2, <2>3, Zenon DEF SameIds
<1>3. ASSUME NEW t \in Tasks, sys_setsid(t)
      PROVE  SameIds(u) \/ OwnIds(u)
  <2>1. CASE u = t
    BY <1>3, <2>1 DEF sys_setsid, OwnIds, IInv, TypeOK
  <2>2. CASE u # t
    <3>1. pid'[u] = pid[u] /\ pgrp'[u] = pgrp[u] /\ session'[u] = session[u]
      BY <1>3, <2>2 DEF sys_setsid, IInv, TypeOK
    <3>2. leader'[u] = leader[u]
      BY <1>3, <2>2, Zenon DEF sys_setsid, IInv, TypeOK
    <3> QED BY <3>1, <3>2, ZenonT(40) DEF SameIds
  <2> QED BY <2>1, <2>2
<1>4. ASSUME NEW t \in Tasks, NEW v \in Tasks, NEW g \in Groups, sys_setpgid(t, v, g)
      PROVE  SameIds(u) \/ StaysNoLeader(u)
  <2>1. CASE u = v
    BY <1>4, <2>1, Zenon DEF sys_setpgid, StaysNoLeader
  <2>2. CASE u # v
    <3>1. pid'[u] = pid[u] /\ pgrp'[u] = pgrp[u] /\ session'[u] = session[u]
      BY <1>4, <2>2 DEF sys_setpgid, IInv, TypeOK
    <3>2. leader'[u] = leader[u]
      BY <1>4, ZenonT(40) DEF sys_setpgid
    <3> QED BY <3>1, <3>2, ZenonT(40) DEF SameIds
  <2> QED BY <2>1, <2>2
<1>5. ASSUME NEW t \in Tasks, TaskStep(t)
      PROVE  SameIds(u) \/ OwnIds(u) \/ StaysNoLeader(u)
  <2>1. \/ UNCHANGED ids \/ sys_fork(t) \/ sys_setsid(t)
        \/ \E v \in Tasks, g \in Groups : sys_setpgid(t, v, g)
    BY <1>5, Zenon
       DEF TaskStep, do_timer, ForkFails, Shell, sys_exit, ExitBlocks, ExitUnblocked, ExitEnds,
           SignalExits, do_exit, sys_waitpid, release, Reaped, WaitReturns, WaitSleeps, WaitWakes,
           NoSignal, do_signal, sys_ssetmask, sys_kill
  <2> QED BY <1>1, <1>2, <1>3, <1>4, <2>1 DEF sys_fork
<1>6. CASE Idle
  BY <1>1, <1>6 DEF Idle
<1>7. CASE kernel_thread
  BY <1>2, <1>7, Slots DEF kernel_thread
<1>8. CASE sys_waitpid(init, -1, FALSE)
  BY <1>1, <1>8, ZenonT(30) DEF sys_waitpid
<1> QED BY <1>5, <1>6, <1>7, <1>8, Zenon DEF Next, InitStep

(* The group and the session of a leader stay its own. *)
LEMMA LeaderStep == IInv /\ PidsUnique' /\ Next => LeaderKeepsGroup'
<1> SUFFICES ASSUME IInv, PidsUnique', Next PROVE LeaderKeepsGroup'
  BY ZenonT(30)
<1>1. ASSUME NEW t \in Tasks, Exists(t)', leader'[t]
      PROVE  session'[t] = pid'[t] /\ pgrp'[t] = pid'[t]
  <2>1. Exists(t)
    BY <1>1, SlotStep, ZenonT(30)
  <2>2. SameIds(t) \/ OwnIds(t)
    BY <1>1, <2>1, IdsStep DEF StaysNoLeader
  <2>3. CASE SameIds(t)
    <3>1. leader[t]
      BY <1>1, <2>3, ZenonT(40) DEF SameIds
    <3>2. session[t] = pid[t] /\ pgrp[t] = pid[t]
      BY <2>1, <3>1, ZenonT(30) DEF IInv, LeaderKeepsGroup
    <3> QED BY <2>3, <3>2 DEF SameIds
  <2>4. CASE OwnIds(t)
    BY <2>4, SMTT(40) DEF OwnIds
  <2> QED BY <2>2, <2>3, <2>4, ZenonT(30)
<1>2. ASSUME NEW t \in Tasks, NEW u \in Tasks, Exists(t)', leader'[t], Exists(u)', leader'[u],
             session'[u] = session'[t]
      PROVE  u = t
  <2>1. pid'[u] = pid'[t]
    BY <1>1, <1>2
  <2> QED BY <1>2, <2>1 DEF PidsUnique
<1> QED BY <1>1, <1>2 DEF LeaderKeepsGroup

-----------------------------------------------------------------------------
(* Every step keeps the invariant. *)
THEOREM NextInv == IInv /\ [Next]_vars => IInv'
<1> SUFFICES ASSUME IInv, [Next]_vars PROVE IInv'
  OBVIOUS
<1>1. CASE Next
  <2>1. TypeOK'
    BY <1>1, TypeStep DEF IInv
  <2>2. Family'
    BY <1>1, <2>1, FamilyStep
  <2>3. LeaderKeepsGroup'
    BY <1>1, <2>2, LeaderStep DEF Family
  <2> QED BY <2>1, <2>2, <2>3 DEF IInv, Family
<1>2. CASE UNCHANGED vars
  <2>1. TypeOK'
    BY <1>2, ZenonT(30) DEF vars, IInv, TypeOK
  <2>2. Running' /\ PidsUnique' /\ FatherAlive'
    BY <1>2, SMTT(40) DEF vars, IInv, Running, PidsUnique, FatherAlive, Exists, Alive
  <2>3. NoLostChild' /\ WaiterHasChild'
    BY <1>2, ZenonT(40) DEF vars, IInv, NoLostChild, WaiterHasChild, Zombie, Matches, Exists, Alive
  <2>4. LeaderKeepsGroup'
    BY <1>2, Zenon DEF vars, IInv, LeaderKeepsGroup, Exists
  <2> QED BY <2>1, <2>2, <2>3, <2>4, ZenonT(30) DEF IInv
<1> QED BY <1>1, <1>2

(* The processes form a family at every moment. *)
THEOREM Invariance == Spec => []IInv
  BY InitInv, NextInv, PTL DEF Spec

(* The state of the processes keeps its types: the tables of fork.c,       *)
(* exit.c, signal.c and sys.c.                                             *)
THEOREM TypeCorrect == Spec => []TypeOK
<1>1. IInv => TypeOK
  BY DEF IInv
<1> QED BY <1>1, Invariance, PTL

(* find_empty_process never gives out a pid in use, and init keeps pid 1.  *)
THEOREM UniquePids == Spec => []PidsUnique
<1>1. IInv => PidsUnique
  BY DEF IInv
<1> QED BY <1>1, Invariance, PTL

(* do_exit leaves no process whose father has ended.                       *)
THEOREM FathersAlive == Spec => []FatherAlive
<1>1. IInv => FatherAlive
  BY DEF IInv
<1> QED BY <1>1, Invariance, PTL

(* tell_father and the adoption by init leave SIGCHLD with every father    *)
(* that sleeps in waitpid while one of its children is a zombie.           *)
THEOREM NoChildLost == Spec => []NoLostChild
<1>1. IInv => NoLostChild
  BY DEF IInv
<1> QED BY <1>1, Invariance, PTL

(* Nobody sleeps in waitpid without a child to wait for.                   *)
THEOREM WaitersHaveChildren == Spec => []WaiterHasChild
<1>1. IInv => WaiterHasChild
  BY DEF IInv
<1> QED BY <1>1, Invariance, PTL

(* setsid, setpgid and fork leave each leader its own session and group.   *)
THEOREM LeadersKeepGroups == Spec => []LeaderKeepsGroup
<1>1. IInv => LeaderKeepsGroup
  BY DEF IInv
<1> QED BY <1>1, Invariance, PTL

(* Only waitpid of the father ends a zombie.                               *)
THEOREM ReapedByFather == Spec => OnlyFatherReaps
<1> DEFINE Reaps == \A c \in Tasks : state[c] = "zombie" /\ state'[c] # "zombie" =>
                      /\ state'[c] = "none"
                      /\ \E f \in Tasks : current = f /\ call[f] = "scan" /\ father[c] = pid[f]
<1>1. IInv /\ [Next]_vars => [Reaps]_vars
  <2> SUFFICES ASSUME IInv, Next PROVE Reaps
    OBVIOUS
  <2> QED BY SlotStep DEF TakenByFather
<1>2. Spec => [][Reaps]_vars
  BY <1>1, Invariance, PTL DEF Spec
<1> QED BY <1>2 DEF OnlyFatherReaps
=============================================================================
