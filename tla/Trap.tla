-------------------------------- MODULE Trap --------------------------------
(***************************************************************************)
(* Registers and stacks through traps, task switches and signal handlers:  *)
(* kernel/trap.S, kernel/traps.c, the frames of kernel/signal.c, and the   *)
(* frames that kernel/fork.c and fs/exec.c build.                          *)
(*                                                                         *)
(* The value of a register is the context it belongs to: <<t, 0>> is the   *)
(* program of task t, <<t, n>> its n-th nested signal handler, <<t, -1>>   *)
(* its kernel code.  A register is intact when it holds a value of the     *)
(* context that runs.                                                      *)
(*                                                                         *)
(* trap_entry runs with interrupts off and is one step.  ret_from_trap is  *)
(* two, because the frame of execve has the MIE bit set: interrupts are on *)
(* from the csrw of mstatus to the mret.  A timer interrupt in the kernel  *)
(* returns without schedule() and with interrupts off throughout, so it is *)
(* one step, too.                                                          *)
(***************************************************************************)
EXTENDS Integers, Sequences

CONSTANTS
  NTasks,    \* user tasks
  MaxDepth   \* bound: signal handlers of one task that interrupt each other

ASSUME ConstantsOK == NTasks \in Nat /\ NTasks > 0 /\ MaxDepth \in Nat

Tasks == 1..NTasks

(* t0 stands for t0 and t1, t for the other caller-saved registers, f for  *)
(* the floating-point ones, s for the callee-saved ones.                   *)
Regs == {"pc", "sp", "ra", "a0", "t0", "t", "f", "s"}

User(t, n) == <<t, n>>
Kernel(t)  == <<t, -1>>
Top(t)     == <<t, -2>>    \* the end of the page of the task structure
Frame(t)   == <<t, -3>>    \* TF_SIZE below the top
Junk       == <<0, 0>>

Values == (Tasks \X (-3..MaxDepth)) \cup {Junk}

VARIABLES
  live,      \* the tasks that exist
  current,
  place,     \* "user"; "C": trap_handler and what it calls; "ret": at
             \* ret_from_trap; "mret": mstatus and mepc are written; or "undefined"
  reg,       \* the registers of the hart
  mie,       \* mstatus.MIE, which counts in machine mode only
  mepc, mscratch,
  satp,      \* the task whose page directory satp points to
  frame,     \* the trap frame at the top of every kernel stack
  kctx,      \* what switch_to has saved of every task
  stack,     \* the frames of do_signal on every user stack
  cause,     \* of the last trap of every task; "done": the system call is
             \* done; "none": the program has gone on
  since,     \* what a user context is after: "own" work, the entry to a
             \* "handler" or a "sigreturn" (ghost)
  torn       \* a timer interrupt has hit between csrw mepc and mret (ghost)

vars == <<live, current, place, reg, mie, mepc, mscratch, satp, frame, kctx, stack,
          cause, since, torn>>

(* The value a register of the user context of t has to have.  A handler   *)
(* keeps the callee-saved registers, as every function does.               *)
Depth(t)   == Len(stack[t])
Own(t, r)  == IF r = "s" THEN User(t, 0) ELSE User(t, Depth(t))

-----------------------------------------------------------------------------
(* The frame execve builds: all registers new, MIE set. *)
ExecFrame(t) == [reg |-> [r \in Regs |-> User(t, 0)], mie |-> TRUE]

KernelRegs(t) == [r \in Regs |-> Kernel(t)]

(* The first program: execve by a kernel task goes to ret_from_trap. *)
Init ==
  /\ live = {1} /\ current = 1
  /\ place = "ret"
  /\ reg = [KernelRegs(1) EXCEPT !["sp"] = Frame(1)]
  /\ mie \in BOOLEAN
  /\ mepc = Junk /\ mscratch = Top(1) /\ satp = 1
  /\ frame = [t \in Tasks |-> ExecFrame(t)]
  /\ kctx  = [t \in Tasks |-> [pc |-> "ret", sp |-> Frame(t), s |-> Kernel(t)]]
  /\ stack = [t \in Tasks |-> <<>>]
  /\ cause = [t \in Tasks |-> "none"]
  /\ since = [t \in Tasks |-> "own"]
  /\ torn  = FALSE

(* What trap_entry stores: it has used t0 and t1 before it saves them. *)
Saved(regs) == [regs EXCEPT !["t0"] = Junk]

Causes == {"timer", "ecall", "sigreturn", "fault"}

(* A trap from user mode: sp and mscratch are exchanged, the frame goes    *)
(* below, and C code takes over.                                           *)
trap_entry(why) ==
  /\ place = "user"
  /\ why = "sigreturn" => Depth(current) > 0
  /\ frame'    = [frame EXCEPT ![mscratch[1]] = [reg |-> Saved(reg), mie |-> FALSE]]
  /\ reg'      = KernelRegs(mscratch[1])
  /\ mscratch' = reg["sp"]
  /\ mie'      = FALSE
  /\ place'    = "C"
  /\ cause'    = [cause EXCEPT ![current] = why]
  /\ UNCHANGED <<live, current, mepc, satp, kctx, stack, since, torn>>

(* A timer interrupt in the kernel: the frame is pushed below sp, do_timer *)
(* returns, and ret_from_trap leaves mscratch at the end of that frame.    *)
KernelTimer ==
  /\ place \in {"C", "ret"} /\ mie
  /\ reg'      = Saved(reg)
  /\ mscratch' = reg["sp"]
  /\ satp'     = current
  /\ UNCHANGED <<live, current, place, mie, mepc, frame, kctx, stack, cause, since, torn>>

(* The same where the code has a value in t0 or t1 that it still needs:    *)
(* compiled C code, switch_to up to the csrw of mscratch, ret_from_trap    *)
(* between the lw of t0 and the csrw of mstatus.  It goes on with the      *)
(* wrong value, and what it does then is undefined.                        *)
TimerLosesT0 ==
  /\ place \in {"C", "ret"} /\ mie
  /\ place' = "undefined"
  /\ UNCHANGED <<live, current, reg, mie, mepc, mscratch, satp, frame, kctx, stack, cause, since,
                 torn>>

(* The same in ret_from_trap after the csrw of mepc: mepc is overwritten.  *)
(* (Once sp has the value of the user, the frame also goes astray.)        *)
TimerBeforeMret ==
  /\ place = "mret" /\ mie
  /\ mepc' = Junk
  /\ torn' = TRUE
  /\ UNCHANGED <<live, current, place, reg, mie, mscratch, satp, frame, kctx, stack, cause, since>>

(* cli and sti *)
SetMie ==
  /\ place = "C"
  /\ mie' = ~mie
  /\ UNCHANGED <<live, current, place, reg, mepc, mscratch, satp, frame, kctx, stack, cause,
                 since, torn>>

(* Faulty variant of ret_from_trap: mscratch stays at the frame. *)
RetKeepsScratch ==
  /\ place = "mret"
  /\ reg'   = [frame[mscratch[1]].reg EXCEPT !["pc"] = mepc]
  /\ satp'  = current
  /\ mie'   = TRUE
  /\ place' = "user"
  /\ UNCHANGED <<live, current, mepc, mscratch, frame, kctx, stack, cause, since, torn>>

(* ret_from_trap: mstatus and mepc; then all registers, satp, mscratch and *)
(* mret.                                                                   *)
RetBegins ==
  /\ place = "ret"
  /\ mscratch' = reg["sp"]
  /\ mie'      = frame[reg["sp"][1]].mie
  /\ mepc'     = frame[reg["sp"][1]].reg["pc"]
  /\ place'    = "mret"
  /\ UNCHANGED <<live, current, reg, satp, frame, kctx, stack, cause, since, torn>>

ret_from_trap ==
  /\ place = "mret"
  /\ reg'      = [frame[mscratch[1]].reg EXCEPT !["pc"] = mepc]
  /\ mscratch' = Top(mscratch[1])
  /\ satp'     = current
  /\ mie'      = TRUE
  /\ place'    = "user"
  /\ UNCHANGED <<live, current, mepc, frame, kctx, stack, cause, since, torn>>

-----------------------------------------------------------------------------
(* The user program goes on and writes its caller-saved registers. *)
Compute ==
  /\ place = "user"
  /\ reg'   = [r \in Regs |-> IF r \in {"pc", "sp", "s"} THEN reg[r] ELSE Own(current, r)]
  /\ cause' = [cause EXCEPT ![current] = "none"]
  /\ since' = [since EXCEPT ![current] = "own"]
  /\ UNCHANGED <<live, current, place, mie, mepc, mscratch, satp, frame, kctx, stack, torn>>

(* Faulty variant of switch_to: s0 to s11 are not loaded. *)
SwitchForgetsSaved(n, k) ==
  /\ current'  = n
  /\ kctx'     = k
  /\ reg'      = [KernelRegs(n) EXCEPT !["sp"] = k[n].sp, !["s"] = reg["s"]]
  /\ mscratch' = Top(n)
  /\ place'    = k[n].pc

(* switch_to(n), with kctx as saved before. *)
switch_to(n, k) ==
  /\ current'  = n
  /\ kctx'     = k
  /\ reg'      = [KernelRegs(n) EXCEPT !["sp"] = k[n].sp, !["s"] = k[n].s]
  /\ mscratch' = Top(n)
  /\ place'    = k[n].pc

(* schedule(), anywhere in C code. *)
schedule(n) ==
  /\ place = "C" /\ n \in live
  /\ switch_to(n, [kctx EXCEPT ![current] = [pc |-> "C", sp |-> reg["sp"], s |-> reg["s"]]])
  /\ UNCHANGED <<live, mie, mepc, satp, frame, stack, cause, since, torn>>

(* do_exit: the task never comes back. *)
do_exit(n) ==
  /\ place = "C" /\ n \in live \ {current}
  /\ live' = live \ {current}
  /\ switch_to(n, kctx)
  /\ UNCHANGED <<mie, mepc, satp, frame, stack, cause, since, torn>>

(* trap_handler returns to trap_entry, its frame on top of the stack. *)
ToRet == place' = "ret" /\ reg' = [reg EXCEPT !["sp"] = Frame(reg["sp"][1])]

(* The return without a signal to deliver. *)
TrapReturns ==
  /\ place = "C" /\ cause[current] # "sigreturn"
  /\ ToRet
  /\ UNCHANGED <<live, current, mie, mepc, mscratch, satp, frame, kctx, stack, cause, since, torn>>

(* Faulty variant of do_signal: the stack pointer is not saved. *)
SignalForgetsSp ==
  LET t == current
      f == frame[t].reg
      h == User(t, Depth(t) + 1)
  IN
  /\ place = "C" /\ cause[t] \in {"timer", "ecall", "done"} /\ Depth(t) < MaxDepth
  /\ stack' = [stack EXCEPT ![t] = Append(@, [a0 |-> f["a0"], pc |-> f["pc"], sp |-> h])]
  /\ frame' = [frame EXCEPT ![t].reg = [f EXCEPT !["sp"] = h, !["a0"] = h, !["ra"] = h, !["pc"] = h]]
  /\ since' = [since EXCEPT ![t] = "handler"]
  /\ ToRet
  /\ UNCHANGED <<live, current, mie, mepc, mscratch, satp, kctx, cause, torn>>

(* do_signals and do_signal at the end of trap_handler, when there is a    *)
(* handler.  execve has reset the handlers and page faults look at none.   *)
do_signal ==
  LET t == current
      f == frame[t].reg
      h == User(t, Depth(t) + 1)
  IN
  /\ place = "C" /\ cause[t] \in {"timer", "ecall", "done"} /\ Depth(t) < MaxDepth
  /\ stack' = [stack EXCEPT ![t] = Append(@, [a0 |-> f["a0"], pc |-> f["pc"], sp |-> f["sp"]])]
  /\ frame' = [frame EXCEPT ![t].reg = [f EXCEPT !["sp"] = h, !["a0"] = h, !["ra"] = h, !["pc"] = h]]
  /\ since' = [since EXCEPT ![t] = "handler"]
  /\ ToRet
  /\ UNCHANGED <<live, current, mie, mepc, mscratch, satp, kctx, cause, torn>>

(* sys_sigreturn: a0, pc and sp from the frame that the sp of the handler  *)
(* points to; the other registers are the ones the handler had.            *)
sys_sigreturn ==
  LET t == current
      f == frame[t].reg
      n == f["sp"][2]
      s == stack[t][n]
  IN
  /\ place = "C" /\ cause[t] = "sigreturn"
  /\ frame' = [frame EXCEPT ![t].reg = [f EXCEPT !["a0"] = s.a0, !["pc"] = s.pc, !["sp"] = s.sp]]
  /\ stack' = [stack EXCEPT ![t] = SubSeq(@, 1, n - 1)]
  /\ since' = [since EXCEPT ![t] = "sigreturn"]
  /\ cause' = [cause EXCEPT ![t] = "done"]
  /\ UNCHANGED <<live, current, place, reg, mie, mepc, mscratch, satp, kctx, torn>>

(* The child c has a copy of the frame and of the memory of its father, so *)
(* what was a value of the father is now a value of the child.             *)
Renamed(v, t, c) == IF v[1] = t THEN <<c, v[2]>> ELSE v

(* Faulty variant of copy_process: the slot may be in use. *)
ForkTakesUsedSlot(c) ==
  LET t == current IN
  /\ place = "C" /\ cause[t] = "ecall"
  /\ live'  = live \cup {c}
  /\ frame' = [frame EXCEPT ![c] = [reg |-> [r \in Regs |-> Renamed(frame[t].reg[r], t, c)],
                                    mie |-> frame[t].mie]]
  /\ kctx'  = [kctx EXCEPT ![c] = [pc |-> "ret", sp |-> Frame(c), s |-> kctx[t].s]]
  /\ stack' = [stack EXCEPT ![c] = [i \in 1..Depth(t) |->
                 [e \in {"a0", "pc", "sp"} |-> Renamed(stack[t][i][e], t, c)]]]
  /\ since' = [since EXCEPT ![c] = since[t]]
  /\ cause' = [cause EXCEPT ![t] = "done", ![c] = "done"]
  /\ UNCHANGED <<current, place, reg, mie, mepc, mscratch, satp, torn>>

(* fork: the child starts at ret_from_trap, with a frame of its own. *)
copy_process(c) ==
  LET t == current IN
  /\ place = "C" /\ cause[t] = "ecall" /\ c \notin live
  /\ live'  = live \cup {c}
  /\ frame' = [frame EXCEPT ![c] = [reg |-> [r \in Regs |-> Renamed(frame[t].reg[r], t, c)],
                                    mie |-> frame[t].mie]]
  /\ kctx'  = [kctx EXCEPT ![c] = [pc |-> "ret", sp |-> Frame(c), s |-> kctx[t].s]]
  /\ stack' = [stack EXCEPT ![c] = [i \in 1..Depth(t) |->
                 [e \in {"a0", "pc", "sp"} |-> Renamed(stack[t][i][e], t, c)]]]
  /\ since' = [since EXCEPT ![c] = since[t]]
  /\ cause' = [cause EXCEPT ![t] = "done", ![c] = "done"]
  /\ UNCHANGED <<current, place, reg, mie, mepc, mscratch, satp, torn>>

(* execve, when it succeeds: a new frame; no handler is left. *)
do_execve ==
  LET t == current IN
  /\ place = "C" /\ cause[t] = "ecall"
  /\ frame' = [frame EXCEPT ![t] = ExecFrame(t)]
  /\ stack' = [stack EXCEPT ![t] = <<>>]
  /\ since' = [since EXCEPT ![t] = "own"]
  /\ cause' = [cause EXCEPT ![t] = "none"]
  /\ UNCHANGED <<live, current, place, reg, mie, mepc, mscratch, satp, kctx, torn>>

-----------------------------------------------------------------------------
Next ==
  \/ \E why \in Causes : trap_entry(why)
  \/ KernelTimer
  \/ TimerLosesT0
  \/ TimerBeforeMret
  \/ SetMie
  \/ RetBegins
  \/ ret_from_trap
  \/ Compute
  \/ \E n \in Tasks : schedule(n) \/ do_exit(n) \/ copy_process(n)
  \/ TrapReturns
  \/ do_signal
  \/ sys_sigreturn
  \/ do_execve

Spec == Init /\ [][Next]_vars

-----------------------------------------------------------------------------
(* In user mode mscratch is the top of the kernel stack of the task that   *)
(* runs and satp its page directory, after any mix of nested traps, task   *)
(* switches, fork, execve and exit: the next trap builds its frame where   *)
(* fork, execve and sigreturn look for it.                                 *)
StackTop == place = "user" => mscratch = Top(current) /\ satp = current

(* Kernel code runs on the stack of its own task, with its own callee-     *)
(* saved registers, and so will every task that waits in switch_to.        *)
OwnStacks ==
  /\ place = "C" => reg["sp"] = Kernel(current) /\ reg["s"] = Kernel(current)
  /\ place \in {"ret", "mret"} => reg["sp"] = Frame(current)
  /\ \A t \in live \ {current} :
       \/ kctx[t] = [pc |-> "C", sp |-> Kernel(t), s |-> Kernel(t)]
       \/ kctx[t].pc = "ret" /\ kctx[t].sp = Frame(t)

(* A user context finds its registers as it left them, whatever ran in     *)
(* between: other tasks, other handlers, kernel code.  The exceptions are  *)
(* t0 and t1, which trap_entry loses; the caller-saved registers after the *)
(* return of a handler; and the pc, when a timer interrupt has torn the    *)
(* way back from execve.                                                   *)
RegistersKept ==
  place = "user" =>
    /\ \A r \in {"sp", "a0", "s"} : reg[r] = Own(current, r)
    /\ ~torn => reg["pc"] = Own(current, "pc")
    /\ since[current] = "own" => \A r \in {"ra", "t", "f"} : reg[r] = Own(current, r)

(* No step of one task changes the trap frame of another, but for the      *)
(* frame that fork builds for a new one.                                   *)
FramesUntouched == [][\A t \in live \ {current} : frame'[t] = frame[t]]_vars

(* Every trap saves the full state and brings back every register: code    *)
(* that was interrupted by the timer finds all of them as they were.       *)
AllRegistersKept ==
  place = "user" /\ cause[current] = "timer" /\ since[current] = "own" /\ ~torn =>
    \A r \in Regs : reg[r] = Own(current, r)
=============================================================================
