----------------------------- MODULE TrapProofs -----------------------------
(***************************************************************************)
(* Proofs about Trap: stacks, frames and registers through traps, task     *)
(* switches and signal handlers, for any number of tasks and any depth of  *)
(* nested handlers.                                                        *)
(*                                                                         *)
(* The invariant follows a register from where it is saved to where it is  *)
(* loaded again.  In user mode the registers are the context (UserOK); a   *)
(* task that is in the kernel, on the hart or not, has it in its trap      *)
(* frame (FrameOK); a context that a handler has interrupted is in the     *)
(* frame of do_signal on the user stack (StackOK).  The rest says on which *)
(* kernel stack the hart is, so that the frame that trap_entry writes and  *)
(* the one that ret_from_trap reads are those of the task that runs.       *)
(***************************************************************************)
EXTENDS Trap, TLAPS

Places == {"user", "C", "ret", "mret", "undefined"}

SigFrames == [a0 : Values, pc : Values, sp : Values]

(* What every variable holds, in particular that no register ever has a    *)
(* value outside the contexts there are.                                   *)
TypeOK ==
  /\ live \in SUBSET Tasks /\ current \in live
  /\ place \in Places
  /\ reg \in [Regs -> Values]
  /\ mie \in BOOLEAN
  /\ mepc \in Values /\ mscratch \in Values
  /\ satp \in Tasks
  /\ frame \in [Tasks -> [reg : [Regs -> Values], mie : BOOLEAN]]
  /\ kctx \in [Tasks -> [pc : {"C", "ret"}, sp : Values, s : Values]]
  /\ stack \in [Tasks -> Seq(SigFrames)]
  /\ \A t \in Tasks : Len(stack[t]) <= MaxDepth
  /\ cause \in [Tasks -> Causes \cup {"none", "done"}]
  /\ since \in [Tasks -> {"own", "handler", "sigreturn"}]
  /\ torn \in BOOLEAN

(* f holds the registers of the user context of t. *)
Holds(f, t) ==
  /\ f["sp"] = User(t, Depth(t)) /\ f["a0"] = User(t, Depth(t)) /\ f["s"] = User(t, 0)
  /\ ~torn => f["pc"] = User(t, Depth(t))
  /\ since[t] = "own" => /\ f["ra"] = User(t, Depth(t))
                         /\ f["t"] = User(t, Depth(t))
                         /\ f["f"] = User(t, Depth(t))

(* In user mode the context is in the registers of the hart. *)
UserOK == place = "user" => Holds(reg, current)

(* In the kernel, running or not, it is in the trap frame of the task. *)
FrameOK == \A t \in live : t # current \/ place # "user" => Holds(frame[t].reg, t)

(* A context that a handler has interrupted is on the user stack. *)
StackOK ==
  \A t \in live : \A i \in 1..Depth(t) :
    /\ stack[t][i].sp = User(t, i - 1) /\ stack[t][i].a0 = User(t, i - 1)
    /\ ~torn => stack[t][i].pc = User(t, i - 1)

(* A task that is in sigreturn has a frame to return from. *)
SigreturnOK == \A t \in live : cause[t] = "sigreturn" => Depth(t) > 0

(* ret_from_trap has read the frame of the task that runs. *)
MretOK ==
  place = "mret" =>
    /\ mscratch = Frame(current)
    /\ ~torn => mepc = frame[current].reg["pc"]

(* The inductive invariant. *)
IInv == TypeOK /\ StackTop /\ OwnStacks /\ UserOK /\ FrameOK /\ StackOK /\ SigreturnOK /\ MretOK

-----------------------------------------------------------------------------
(* The contexts as values: which task each names, and that each is one of  *)
(* the values a register may have.                                         *)
LEMMA Contexts ==
  /\ Junk \in Values
  /\ \A t \in Tasks :
       /\ Kernel(t) \in Values /\ Kernel(t)[1] = t
       /\ Top(t) \in Values    /\ Top(t)[1] = t
       /\ Frame(t) \in Values  /\ Frame(t)[1] = t
       /\ \A n \in 0..MaxDepth : User(t, n) \in Values /\ User(t, n)[1] = t /\ User(t, n)[2] = n
<1>1. Junk \in Values
  BY DEF Values
<1>2. ASSUME NEW t \in Tasks, NEW n \in -3..MaxDepth
      PROVE  <<t, n>> \in Values /\ <<t, n>>[1] = t /\ <<t, n>>[2] = n
  BY <1>2 DEF Values
<1>3. -1 \in -3..MaxDepth /\ -2 \in -3..MaxDepth /\ -3 \in -3..MaxDepth
      /\ \A n \in 0..MaxDepth : n \in -3..MaxDepth
  BY ConstantsOK
<1>4. QED
  BY <1>1, <1>2, <1>3 DEF Kernel, Top, Frame, User

(* What the child sees of a value of its father: its own context, as deep  *)
(* as the one of the father (copy_process copies the frame and the pages). *)
LEMMA RenamedValues ==
  ASSUME NEW t \in Tasks, NEW c \in Tasks
  PROVE  /\ \A v \in Values : Renamed(v, t, c) \in Values
         /\ \A n \in 0..MaxDepth : Renamed(User(t, n), t, c) = User(c, n)
<1>1. \A n \in 0..MaxDepth : Renamed(User(t, n), t, c) = User(c, n)
  BY Contexts DEF Renamed, User
<1>2. ASSUME NEW v \in Values PROVE Renamed(v, t, c) \in Values
  <2>1. CASE v = Junk
    BY <2>1, Contexts DEF Renamed, Junk, Tasks
  <2>2. CASE v \in Tasks \X (-3..MaxDepth)
    <3>1. v[2] \in -3..MaxDepth
      BY <2>2
    <3>2. <<c, v[2]>> \in Values
      BY <3>1 DEF Values
    <3>3. QED
      BY <3>2 DEF Renamed
  <2>3. QED
    BY <1>2, <2>1, <2>2 DEF Values
<1>3. QED
  BY <1>1, <1>2

(* The frame that execve builds and the registers of kernel code. *)
LEMMA FreshRegisters ==
  ASSUME NEW t \in Tasks
  PROVE  /\ KernelRegs(t) \in [Regs -> Values]
         /\ \A r \in Regs : KernelRegs(t)[r] = Kernel(t)
         /\ ExecFrame(t) \in [reg : [Regs -> Values], mie : BOOLEAN]
         /\ \A r \in Regs : ExecFrame(t).reg[r] = User(t, 0)
<1>1. User(t, 0) \in Values /\ Kernel(t) \in Values
  BY Contexts, ConstantsOK
<1>2. QED
  BY <1>1 DEF KernelRegs, ExecFrame

(* execve by the first task: it is at ret_from_trap with a new frame. *)
LEMMA InitIInv == Init => IInv
<1> SUFFICES ASSUME Init PROVE IInv
  OBVIOUS
<1>1. 1 \in Tasks
  BY ConstantsOK DEF Tasks
<1>2. reg \in [Regs -> Values] /\ reg["sp"] = Frame(1)
  BY <1>1, FreshRegisters, Contexts DEF Init, Regs
<1>3. TypeOK
  <2>1. frame \in [Tasks -> [reg : [Regs -> Values], mie : BOOLEAN]]
    BY FreshRegisters DEF Init
  <2>2. kctx \in [Tasks -> [pc : {"C", "ret"}, sp : Values, s : Values]]
    BY Contexts DEF Init
  <2>3. stack \in [Tasks -> Seq(SigFrames)] /\ \A t \in Tasks : Len(stack[t]) <= MaxDepth
    BY ConstantsOK DEF Init
  <2>4. cause \in [Tasks -> Causes \cup {"none", "done"}]
    BY DEF Init
  <2>5. since \in [Tasks -> {"own", "handler", "sigreturn"}]
    BY DEF Init
  <2>6. mepc \in Values /\ mscratch \in Values /\ satp \in Tasks
    BY <1>1, Contexts DEF Init
  <2>7. live \in SUBSET Tasks /\ current \in live /\ place \in Places
    BY <1>1 DEF Init, Places
  <2>8. mie \in BOOLEAN /\ torn \in BOOLEAN
    BY Zenon DEF Init
  <2>9. QED
    BY <1>2, <2>1, <2>2, <2>3, <2>4, <2>5, <2>6, <2>7, <2>8 DEF TypeOK
<1>4. StackTop /\ OwnStacks /\ UserOK /\ MretOK
  BY <1>2 DEF Init, StackTop, OwnStacks, UserOK, MretOK
<1>5. StackOK /\ SigreturnOK
  BY <1>1 DEF Init, StackOK, SigreturnOK, Depth
<1>6. FrameOK
  BY <1>1, FreshRegisters DEF Init, FrameOK, Holds, Depth, Regs
<1>7. QED
  BY <1>3, <1>4, <1>5, <1>6 DEF IInv

(* Whose frame the code is about to touch: the one of the task that runs.  *)
(* trap_entry finds it by mscratch, ret_from_trap by sp or mscratch.       *)
LEMMA OwnFrame ==
  ASSUME IInv
  PROVE  /\ current \in Tasks
         /\ place = "user" => mscratch[1] = current
         /\ place \in {"C", "ret", "mret"} => reg["sp"][1] = current
         /\ place = "mret" => mscratch[1] = current
<1>1. current \in Tasks
  BY DEF IInv, TypeOK
<1>2. QED
  BY <1>1, Contexts DEF IInv, StackTop, OwnStacks, MretOK

(* A register file with t0 lost still holds the user context. *)
LEMMA SavedHolds ==
  ASSUME NEW f \in [Regs -> Values], NEW t \in Tasks
  PROVE  /\ Saved(f) \in [Regs -> Values]
         /\ \A r \in Regs \ {"t0"} : Saved(f)[r] = f[r]
         /\ Holds(f, t) => Holds(Saved(f), t)
<1>1. Saved(f) \in [Regs -> Values] /\ \A r \in Regs \ {"t0"} : Saved(f)[r] = f[r]
  BY Contexts, Zenon DEF Saved
<1>2. QED
  BY <1>1 DEF Holds, Regs

-----------------------------------------------------------------------------
(* trap_entry: the frame of the task that runs gets the user registers. *)
LEMMA StepTrapEntry ==
  ASSUME IInv, NEW why \in Causes, trap_entry(why)
  PROVE  IInv'
<1>1. /\ current \in Tasks /\ current \in live /\ mscratch[1] = current /\ mscratch = Top(current)
      /\ current' = current /\ live' = live /\ place' = "C" /\ torn' = torn
  BY OwnFrame DEF trap_entry, IInv, TypeOK, StackTop
<1>2. /\ frame' = [frame EXCEPT ![current] = [reg |-> Saved(reg), mie |-> FALSE]]
      /\ reg' = KernelRegs(current) /\ mscratch' = reg["sp"]
      /\ cause' = [cause EXCEPT ![current] = why]
      /\ UNCHANGED <<live, current, mepc, satp, kctx, stack, since, torn>>
  BY <1>1 DEF trap_entry
<1>3. Saved(reg) \in [Regs -> Values] /\ Holds(Saved(reg), current)
  BY <1>1, SavedHolds, Zenon DEF IInv, TypeOK, UserOK, trap_entry
<1>4. /\ frame'[current] = [reg |-> Saved(reg), mie |-> FALSE]
      /\ \A t \in Tasks \ {current} : frame'[t] = frame[t]
      /\ frame' \in [Tasks -> [reg : [Regs -> Values], mie : BOOLEAN]]
  BY <1>1, <1>2, <1>3 DEF IInv, TypeOK
<1>5. TypeOK'
  <2>1. reg' \in [Regs -> Values] /\ mscratch' \in Values
    BY <1>1, <1>2, FreshRegisters DEF IInv, TypeOK, Regs
  <2>2. cause' \in [Tasks -> Causes \cup {"none", "done"}]
    BY <1>2 DEF IInv, TypeOK
  <2>3. mie' \in BOOLEAN
    BY ZenonT(40) DEF trap_entry
  <2>4. QED
    BY <1>1, <1>2, <1>4, <2>1, <2>2, <2>3 DEF IInv, TypeOK, Places
<1>6. StackTop' /\ UserOK' /\ MretOK'
  BY <1>1 DEF StackTop, UserOK, MretOK
<1>7. OwnStacks'
  BY <1>1, <1>2, FreshRegisters DEF IInv, OwnStacks, Regs
<1>8. StackOK'
  BY <1>2 DEF IInv, StackOK, Depth
<1>9. SigreturnOK'
  BY <1>1, <1>2 DEF IInv, TypeOK, SigreturnOK, Depth, trap_entry
<1>10. FrameOK'
  <2> SUFFICES ASSUME NEW t \in live PROVE Holds(frame[t].reg, t)'
    BY <1>1 DEF FrameOK
  <2>1. CASE t = current
    BY <2>1, <1>2, <1>3, <1>4 DEF Holds, Depth
  <2>2. CASE t # current
    BY <2>2, <1>2, <1>4 DEF IInv, TypeOK, FrameOK, Holds, Depth
  <2>3. QED
    BY <2>1, <2>2
<1>11. QED
  BY <1>5, <1>6, <1>7, <1>8, <1>9, <1>10 DEF IInv

(* Interrupts in the kernel touch no frame of a task: do_timer runs on a   *)
(* frame of its own and sp comes back.                                     *)
LEMMA StepTimers ==
  ASSUME IInv, KernelTimer \/ TimerLosesT0 \/ TimerBeforeMret
  PROVE  IInv'
<1>1. /\ UNCHANGED <<live, current, frame, kctx, stack, cause, since>>
      /\ (torn => torn') /\ place # "user" /\ place' # "user"
  BY DEF KernelTimer, TimerLosesT0, TimerBeforeMret
<1>2. FrameOK' /\ StackOK' /\ SigreturnOK' /\ UserOK' /\ StackTop'
  BY <1>1 DEF IInv, FrameOK, StackOK, SigreturnOK, UserOK, StackTop, Holds, Depth
<1>3. TypeOK' /\ OwnStacks' /\ MretOK'
  <2>1. CASE KernelTimer
    <3>1. reg' \in [Regs -> Values] /\ reg'["sp"] = reg["sp"] /\ reg'["s"] = reg["s"]
          /\ mscratch' \in Values
      BY <2>1, SavedHolds, OwnFrame DEF IInv, TypeOK, KernelTimer, Regs
    <3>2. satp' \in Tasks
      BY <2>1, OwnFrame DEF KernelTimer
    <3>3. QED
      BY <2>1, <3>1, <3>2 DEF IInv, TypeOK, OwnStacks, MretOK, KernelTimer
  <2>2. CASE TimerLosesT0
    BY <2>2 DEF IInv, TypeOK, OwnStacks, MretOK, TimerLosesT0, Places
  <2>3. CASE TimerBeforeMret
    BY <2>3, Contexts DEF IInv, TypeOK, OwnStacks, MretOK, TimerBeforeMret
  <2>4. QED
    BY <2>1, <2>2, <2>3
<1>4. QED
  BY <1>2, <1>3 DEF IInv

(* cli, sti and the two halves of ret_from_trap. *)
LEMMA StepRet ==
  ASSUME IInv, SetMie \/ RetBegins \/ ret_from_trap
  PROVE  IInv'
<1>1. UNCHANGED <<live, current, frame, kctx, stack, cause, since, torn>> /\ place # "user"
  BY ZenonT(30) DEF SetMie, RetBegins, ret_from_trap
<1>2. FrameOK' /\ StackOK' /\ SigreturnOK'
  BY <1>1 DEF IInv, FrameOK, StackOK, SigreturnOK, Holds, Depth
<1>3. /\ current \in Tasks /\ current \in live
      /\ frame[current].reg \in [Regs -> Values] /\ frame[current].mie \in BOOLEAN
      /\ Holds(frame[current].reg, current)
  BY <1>1 DEF IInv, TypeOK, FrameOK
<1>4. TypeOK' /\ OwnStacks' /\ MretOK' /\ UserOK' /\ StackTop'
  <2>1. CASE SetMie
    <3>1. mie' \in BOOLEAN
      BY <2>1 DEF SetMie
    <3>2. UNCHANGED <<live, current, place, reg, mepc, mscratch, satp, frame, kctx, stack, cause,
                      since, torn>>
      BY <2>1 DEF SetMie
    <3>3. QED
      BY <3>1, <3>2 DEF IInv, TypeOK, OwnStacks, MretOK, UserOK, StackTop, Holds, Depth
  <2>2. CASE RetBegins
    <3>1. reg["sp"][1] = current /\ reg["sp"] = Frame(current)
      BY <2>2, OwnFrame DEF RetBegins, IInv, OwnStacks
    <3>2. /\ mscratch' = Frame(current) /\ mepc' = frame[current].reg["pc"] /\ place' = "mret"
          /\ mie' = frame[current].mie /\ UNCHANGED <<reg, satp>>
      BY <2>2, <3>1 DEF RetBegins
    <3>3. mepc' \in Values /\ mscratch' \in Values
      BY <1>3, <3>2, Contexts DEF Regs
    <3>4. mie' \in BOOLEAN
      BY <1>3, <3>2
    <3>5. TypeOK'
      BY <1>1, <3>2, <3>3, <3>4 DEF IInv, TypeOK, Places
    <3>6. QED
      BY <1>1, <3>1, <3>2, <3>5 DEF IInv, OwnStacks, MretOK, UserOK, StackTop
  <2>3. CASE ret_from_trap
    <3>1. mscratch[1] = current
      BY <2>3, OwnFrame DEF ret_from_trap
    <3>2. /\ reg' = [frame[current].reg EXCEPT !["pc"] = mepc] /\ mscratch' = Top(current)
          /\ satp' = current /\ mie' = TRUE /\ place' = "user" /\ UNCHANGED mepc
      BY <2>3, <3>1 DEF ret_from_trap
    <3>3. /\ reg' \in [Regs -> Values] /\ reg'["pc"] = mepc
          /\ \A r \in Regs \ {"pc"} : reg'[r] = frame[current].reg[r]
      BY <1>3, <3>2 DEF IInv, TypeOK, Regs
    <3>4. TypeOK'
      BY <1>1, <1>3, <3>2, <3>3, Contexts, ZenonT(30) DEF IInv, TypeOK, Places
    <3>5. UserOK'
      BY <1>1, <1>3, <2>3, <3>3 DEF IInv, UserOK, MretOK, ret_from_trap, Holds, Depth, Regs
    <3>6. QED
      BY <1>1, <3>2, <3>4, <3>5 DEF IInv, OwnStacks, MretOK, StackTop
  <2>4. QED
    BY <2>1, <2>2, <2>3
<1>5. QED
  BY <1>2, <1>4 DEF IInv

(* The program runs: registers it writes itself, callee-saved ones kept. *)
LEMMA StepCompute ==
  ASSUME IInv, Compute
  PROVE  IInv'
<1>1. /\ UNCHANGED <<live, current, place, mie, mepc, mscratch, satp, frame, kctx, stack, torn>>
      /\ reg' = [r \in Regs |-> IF r \in {"pc", "sp", "s"} THEN reg[r] ELSE Own(current, r)]
      /\ cause' = [cause EXCEPT ![current] = "none"] /\ since' = [since EXCEPT ![current] = "own"]
      /\ place = "user" /\ current \in Tasks
  BY OwnFrame DEF Compute
<1>2. /\ stack[current] \in Seq(SigFrames) /\ Depth(current) \in 0..MaxDepth
      /\ User(current, Depth(current)) \in Values
  <2>1. stack[current] \in Seq(SigFrames) /\ Len(stack[current]) <= MaxDepth
    BY <1>1 DEF IInv, TypeOK
  <2>2. QED
    BY <1>1, <2>1, Contexts, ConstantsOK DEF Depth
<1>3. /\ reg' \in [Regs -> Values]
      /\ \A r \in {"pc", "sp", "s"} : reg'[r] = reg[r]
      /\ \A r \in {"a0", "ra", "t", "f"} : reg'[r] = User(current, Depth(current))
  BY <1>1, <1>2 DEF IInv, TypeOK, Own, Regs
<1>4. TypeOK'
  <2>1. cause' \in [Tasks -> Causes \cup {"none", "done"}]
    BY <1>1 DEF IInv, TypeOK
  <2>2. since' \in [Tasks -> {"own", "handler", "sigreturn"}]
    BY <1>1 DEF IInv, TypeOK
  <2>3. QED
    BY <1>1, <1>3, <2>1, <2>2 DEF IInv, TypeOK
<1>5. StackTop' /\ OwnStacks' /\ MretOK' /\ StackOK'
  BY <1>1 DEF IInv, StackTop, OwnStacks, MretOK, StackOK, Depth
<1>6. UserOK'
  BY <1>1, <1>3 DEF IInv, UserOK, Holds, Depth
<1>7. SigreturnOK'
  BY <1>1 DEF IInv, TypeOK, SigreturnOK, Depth
<1>8. FrameOK'
  <2> SUFFICES ASSUME NEW t \in live, t # current PROVE Holds(frame[t].reg, t)'
    BY <1>1 DEF FrameOK
  <2>1. since'[t] = since[t]
    BY <1>1 DEF IInv, TypeOK
  <2>2. QED
    BY <1>1, <2>1 DEF IInv, FrameOK, Holds, Depth
<1>9. QED
  BY <1>4, <1>5, <1>6, <1>7, <1>8, ZenonT(30) DEF IInv

(* switch_to loads sp and the callee-saved registers of the task that is   *)
(* to run, and leaves every frame alone.                                   *)
LEMMA StepSwitch ==
  ASSUME IInv, NEW n \in Tasks, schedule(n) \/ do_exit(n)
  PROVE  IInv'
<1> DEFINE saved == [kctx EXCEPT ![current] = [pc |-> "C", sp |-> reg["sp"], s |-> reg["s"]]]
<1>1. /\ current \in Tasks /\ current \in live /\ place = "C"
      /\ reg["sp"] = Kernel(current) /\ reg["s"] = Kernel(current)
  BY OwnFrame DEF IInv, TypeOK, OwnStacks, schedule, do_exit
<1>2. /\ saved \in [Tasks -> [pc : {"C", "ret"}, sp : Values, s : Values]]
      /\ saved[current] = [pc |-> "C", sp |-> Kernel(current), s |-> Kernel(current)]
      /\ \A t \in Tasks \ {current} : saved[t] = kctx[t]
  BY <1>1, Contexts, SMTT(40) DEF IInv, TypeOK
<1> HIDE DEF saved
<1>3. PICK k : /\ k \in [Tasks -> [pc : {"C", "ret"}, sp : Values, s : Values]]
               /\ switch_to(n, k) /\ n \in live' /\ live' \subseteq live
               /\ \A t \in live' : \/ k[t] = [pc |-> "C", sp |-> Kernel(t), s |-> Kernel(t)]
                                   \/ k[t].pc = "ret" /\ k[t].sp = Frame(t)
  <2>1. CASE schedule(n)
    <3>1. switch_to(n, saved) /\ live' = live /\ n \in live
      BY <2>1 DEF schedule, saved
    <3>2. \A t \in live : \/ saved[t] = [pc |-> "C", sp |-> Kernel(t), s |-> Kernel(t)]
                          \/ saved[t].pc = "ret" /\ saved[t].sp = Frame(t)
      BY <1>2, ZenonT(40) DEF IInv, TypeOK, OwnStacks
    <3>3. QED
      BY <1>2, <3>1, <3>2
  <2>2. CASE do_exit(n)
    <3>1. switch_to(n, kctx) /\ live' = live \ {current} /\ n \in live \ {current}
      BY <2>2 DEF do_exit
    <3>2. QED
      BY <3>1, ZenonT(30) DEF IInv, TypeOK, OwnStacks
  <2>3. QED
    BY <2>1, <2>2
<1>4. UNCHANGED <<mie, mepc, satp, frame, stack, cause, since, torn>>
  BY DEF schedule, do_exit
<1>5. /\ current' = n /\ kctx' = k /\ mscratch' = Top(n) /\ place' = k[n].pc
      /\ reg' = [KernelRegs(n) EXCEPT !["sp"] = k[n].sp, !["s"] = k[n].s]
  BY <1>3 DEF switch_to
<1>6. /\ reg' \in [Regs -> Values] /\ reg'["sp"] = k[n].sp /\ reg'["s"] = k[n].s
      /\ place' \in {"C", "ret"}
  BY <1>3, <1>5, FreshRegisters, ZenonT(30) DEF Regs
<1>7. TypeOK'
  BY <1>3, <1>4, <1>5, <1>6, Contexts, Zenon DEF IInv, TypeOK, Places
<1>8. StackTop' /\ UserOK' /\ MretOK'
  BY <1>6, ZenonT(30) DEF StackTop, UserOK, MretOK
<1>9. StackOK' /\ SigreturnOK'
  BY <1>3, <1>4, ZenonT(30) DEF IInv, StackOK, SigreturnOK, Depth
<1>10. FrameOK'
  BY <1>1, <1>3, <1>4 DEF IInv, FrameOK, Holds, Depth
<1>11. OwnStacks'
  <2>1. n \in live' /\ (place' = "C" => k[n] = [pc |-> "C", sp |-> Kernel(n), s |-> Kernel(n)])
        /\ (place' # "C" => k[n].sp = Frame(n))
    <3>1. CASE k[n] = [pc |-> "C", sp |-> Kernel(n), s |-> Kernel(n)]
      BY <1>3, <1>5, <3>1
    <3>2. CASE k[n].pc = "ret" /\ k[n].sp = Frame(n)
      BY <1>3, <1>5, <3>2, ZenonT(30)
    <3>3. QED
      BY <1>3, <3>1, <3>2, ZenonT(40)
  <2>2. QED
    BY <1>3, <1>5, <1>6, <2>1, SMTT(40) DEF OwnStacks
<1>12. QED
  BY <1>7, <1>8, <1>9, <1>10, <1>11 DEF IInv

(* trap_handler returns to ret_from_trap. *)
LEMMA StepTrapReturns ==
  ASSUME IInv, TrapReturns
  PROVE  IInv'
<1>1. /\ UNCHANGED <<live, current, mie, mepc, mscratch, satp, frame, kctx, stack, cause, since, torn>>
      /\ place' = "ret" /\ place = "C" /\ current \in Tasks
      /\ reg' = [reg EXCEPT !["sp"] = Frame(current)]
  BY OwnFrame, Zenon DEF TrapReturns, ToRet
<1>2. reg' \in [Regs -> Values] /\ reg'["sp"] = Frame(current)
  BY <1>1, Contexts DEF IInv, TypeOK, Regs
<1>3. TypeOK'
  BY <1>1, <1>2 DEF IInv, TypeOK, Places
<1>4. QED
  BY <1>1, <1>2, <1>3 DEF IInv, StackTop, OwnStacks, UserOK, FrameOK, StackOK, SigreturnOK, MretOK,
       Holds, Depth

(* do_signal puts the registers it changes on the user stack of the task   *)
(* that runs and makes the frame the one of the handler.                   *)
LEMMA StepSignal ==
  ASSUME IInv, do_signal
  PROVE  IInv'
<1> DEFINE t == current
           f == frame[t].reg
           d == Depth(t)
           h == User(t, d + 1)
           e == [a0 |-> f["a0"], pc |-> f["pc"], sp |-> f["sp"]]
           g == [f EXCEPT !["sp"] = h, !["a0"] = h, !["ra"] = h, !["pc"] = h]
<1>1. /\ UNCHANGED <<live, current, mie, mepc, mscratch, satp, kctx, cause, torn>>
      /\ place = "C" /\ place' = "ret" /\ d < MaxDepth /\ cause[t] # "sigreturn"
      /\ stack' = [stack EXCEPT ![t] = Append(@, e)]
      /\ frame' = [frame EXCEPT ![t].reg = g]
      /\ since' = [since EXCEPT ![t] = "handler"]
      /\ t \in Tasks /\ t \in live
      /\ reg' = [reg EXCEPT !["sp"] = Frame(t)]
  BY OwnFrame, Zenon DEF do_signal, ToRet, IInv, TypeOK
<1>2. /\ f \in [Regs -> Values] /\ frame[t] \in [reg : [Regs -> Values], mie : BOOLEAN]
      /\ stack[t] \in Seq(SigFrames) /\ Holds(f, t)
  BY <1>1 DEF IInv, TypeOK, FrameOK
<1>3. d \in 0..MaxDepth /\ d + 1 \in 0..MaxDepth /\ h \in Values /\ d = Len(stack[t])
  <2>1. d = Len(stack[t]) /\ Len(stack[t]) \in Nat
    BY <1>2 DEF Depth
  <2>2. d \in 0..MaxDepth /\ d + 1 \in 0..MaxDepth
    BY <1>1, <2>1, ConstantsOK, SMTT(40)
  <2>3. QED
    BY <1>1, <2>1, <2>2, Contexts
<1>4. /\ g \in [Regs -> Values] /\ g["sp"] = h /\ g["a0"] = h /\ g["pc"] = h /\ g["s"] = f["s"]
  BY <1>2, <1>3 DEF Regs
<1>5. e \in SigFrames /\ e.a0 = f["a0"] /\ e.pc = f["pc"] /\ e.sp = f["sp"]
  BY <1>2 DEF SigFrames, Regs
<1> HIDE DEF e, g, h, d
<1>6. /\ frame'[t].reg = g /\ \A u \in Tasks \ {t} : frame'[u] = frame[u]
      /\ frame' \in [Tasks -> [reg : [Regs -> Values], mie : BOOLEAN]]
  BY <1>1, <1>2, <1>4, Zenon DEF IInv, TypeOK
<1>7. /\ stack'[t] = Append(stack[t], e) /\ \A u \in Tasks \ {t} : stack'[u] = stack[u]
      /\ stack' \in [Tasks -> Seq(SigFrames)]
  BY <1>1, <1>2, <1>5 DEF IInv, TypeOK
<1>8. /\ Len(stack'[t]) = d + 1 /\ stack'[t][d + 1] = e
      /\ \A i \in 1..d : stack'[t][i] = stack[t][i]
  BY <1>2, <1>3, <1>5, <1>7
<1>9. reg' \in [Regs -> Values] /\ reg'["sp"] = Frame(t)
  BY <1>1, Contexts DEF IInv, TypeOK, Regs
<1>10. since' \in [Tasks -> {"own", "handler", "sigreturn"}] /\ since'[t] = "handler"
       /\ \A u \in Tasks \ {t} : since'[u] = since[u]
  BY <1>1 DEF IInv, TypeOK
<1>11. TypeOK'
  <2>1. ASSUME NEW u \in Tasks PROVE Len(stack'[u]) <= MaxDepth
    <3>1. CASE u = t
      BY <3>1, <1>3, <1>8
    <3>2. CASE u # t
      BY <3>2, <1>7 DEF IInv, TypeOK
    <3>3. QED
      BY <3>1, <3>2
  <2>2. QED
    BY <1>1, <1>6, <1>7, <1>9, <1>10, <2>1 DEF IInv, TypeOK, Places
<1>12. StackTop' /\ OwnStacks' /\ UserOK' /\ MretOK'
  BY <1>1, <1>9 DEF IInv, StackTop, OwnStacks, UserOK, MretOK
<1>13. SigreturnOK'
  BY <1>1, <1>7 DEF IInv, TypeOK, SigreturnOK, Depth
<1>14. FrameOK'
  <2> SUFFICES ASSUME NEW u \in live PROVE Holds(frame[u].reg, u)'
    BY <1>1 DEF FrameOK
  <2>1. CASE u = t
    BY <2>1, <1>1, <1>2, <1>4, <1>6, <1>8, <1>10 DEF Holds, Depth, h
  <2>2. CASE u # t
    <3>1. u \in Tasks /\ Holds(frame[u].reg, u)
      BY <2>2 DEF IInv, TypeOK, FrameOK
    <3>2. QED
      BY <2>2, <3>1, <1>1, <1>6, <1>7, <1>10 DEF Holds, Depth
  <2>3. QED
    BY <2>1, <2>2
<1>15. StackOK'
  <2> SUFFICES ASSUME NEW u \in live, NEW i \in 1..Len(stack'[u])
               PROVE  /\ stack'[u][i].sp = User(u, i - 1) /\ stack'[u][i].a0 = User(u, i - 1)
                      /\ ~torn => stack'[u][i].pc = User(u, i - 1)
    BY <1>1 DEF StackOK, Depth
  <2>1. CASE u = t /\ i = d + 1
    BY <2>1, <1>2, <1>3, <1>5, <1>8 DEF Holds, Depth, d
  <2>2. CASE u = t /\ i # d + 1
    <3>1. i \in 1..d /\ stack'[t][i] = stack[t][i]
      BY <2>2, <1>3, <1>8
    <3>2. QED
      BY <2>2, <3>1, <1>1, <1>3 DEF IInv, StackOK, Depth
  <2>3. CASE u # t
    <3>1. u \in Tasks /\ stack'[u] = stack[u]
      BY <2>3, <1>7, SMTT(40) DEF IInv, TypeOK
    <3>2. QED
      BY <3>1 DEF IInv, StackOK, Depth
  <2>4. QED
    BY <2>1, <2>2, <2>3
<1>16. QED
  BY <1>11, <1>12, <1>13, <1>14, <1>15 DEF IInv

(* sys_sigreturn takes the frame that sp points to, which is the last one, *)
(* so the context that was interrupted is back.                            *)
LEMMA StepSigreturn ==
  ASSUME IInv, sys_sigreturn
  PROVE  IInv'
<1> DEFINE t == current
           f == frame[t].reg
           d == Depth(t)
           s == stack[t][d]
           g == [f EXCEPT !["a0"] = s.a0, !["pc"] = s.pc, !["sp"] = s.sp]
<1>1. /\ place = "C" /\ cause[t] = "sigreturn" /\ t \in Tasks /\ t \in live
      /\ UNCHANGED <<live, current, place, reg, mie, mepc, mscratch, satp, kctx, torn>>
      /\ since' = [since EXCEPT ![t] = "sigreturn"] /\ cause' = [cause EXCEPT ![t] = "done"]
  BY OwnFrame, Zenon DEF sys_sigreturn, IInv, TypeOK
<1>2. /\ f \in [Regs -> Values] /\ frame[t] \in [reg : [Regs -> Values], mie : BOOLEAN]
      /\ stack[t] \in Seq(SigFrames) /\ Holds(f, t) /\ Len(stack[t]) <= MaxDepth
  BY <1>1 DEF IInv, TypeOK, FrameOK
<1>3. d \in 1..MaxDepth /\ d = Len(stack[t]) /\ d - 1 \in 0..MaxDepth
  BY <1>1, <1>2, ConstantsOK DEF IInv, SigreturnOK, Depth
<1>4. f["sp"][2] = d
  <2>1. f["sp"] = User(t, d)
    BY <1>2 DEF Holds
  <2>2. QED
    BY <1>1, <1>3, <2>1, Contexts
<1>5. /\ frame' = [frame EXCEPT ![t].reg = g]
      /\ stack' = [stack EXCEPT ![t] = SubSeq(@, 1, d - 1)]
  BY <1>4, SMTT(40) DEF sys_sigreturn
<1>6. /\ s \in SigFrames /\ s.sp = User(t, d - 1) /\ s.a0 = User(t, d - 1)
      /\ ~torn => s.pc = User(t, d - 1)
  <2>1. s \in SigFrames
    BY <1>2, <1>3, SMTT(40)
  <2>2. d \in 1..Depth(t)
    BY <1>3, SMTT(40)
  <2>3. QED
    BY <1>1, <2>1, <2>2, ZenonT(40) DEF IInv, StackOK
<1>7. /\ g \in [Regs -> Values] /\ g["sp"] = s.sp /\ g["a0"] = s.a0 /\ g["pc"] = s.pc /\ g["s"] = f["s"]
  BY <1>2, <1>6, ZenonT(30) DEF SigFrames, Regs
<1> HIDE DEF g, s, d
<1>8. /\ frame'[t].reg = g /\ \A u \in Tasks \ {t} : frame'[u] = frame[u]
      /\ frame' \in [Tasks -> [reg : [Regs -> Values], mie : BOOLEAN]]
  BY <1>1, <1>2, <1>5, <1>7, Zenon DEF IInv, TypeOK
<1>9. /\ SubSeq(stack[t], 1, d - 1) \in Seq(SigFrames) /\ Len(SubSeq(stack[t], 1, d - 1)) = d - 1
      /\ \A i \in 1..(d - 1) : SubSeq(stack[t], 1, d - 1)[i] = stack[t][i]
  BY <1>2, <1>3
<1>10. /\ stack'[t] = SubSeq(stack[t], 1, d - 1) /\ \A u \in Tasks \ {t} : stack'[u] = stack[u]
       /\ stack' \in [Tasks -> Seq(SigFrames)]
  BY <1>1, <1>5, <1>9 DEF IInv, TypeOK
<1>11. /\ since' \in [Tasks -> {"own", "handler", "sigreturn"}] /\ since'[t] = "sigreturn"
       /\ \A u \in Tasks \ {t} : since'[u] = since[u]
  BY <1>1 DEF IInv, TypeOK
<1>12. /\ cause' \in [Tasks -> Causes \cup {"none", "done"}] /\ cause'[t] = "done"
       /\ \A u \in Tasks \ {t} : cause'[u] = cause[u]
  BY <1>1, ZenonT(30) DEF IInv, TypeOK
<1>13. TypeOK'
  <2>1. ASSUME NEW u \in Tasks PROVE Len(stack'[u]) <= MaxDepth
    <3>1. CASE u = t
      BY <3>1, <1>3, <1>9, <1>10
    <3>2. CASE u # t
      BY <3>2, <1>10, SMTT(40) DEF IInv, TypeOK
    <3>3. QED
      BY <3>1, <3>2
  <2>2. QED
    BY <1>1, <1>8, <1>10, <1>11, <1>12, <2>1 DEF IInv, TypeOK
<1>14. StackTop' /\ OwnStacks' /\ UserOK' /\ MretOK'
  BY <1>1, ZenonT(40) DEF IInv, StackTop, OwnStacks, UserOK, MretOK
<1>15. SigreturnOK'
  BY <1>1, <1>10, <1>12 DEF IInv, TypeOK, SigreturnOK, Depth
<1>16. FrameOK'
  <2> SUFFICES ASSUME NEW u \in live PROVE Holds(frame[u].reg, u)'
    BY <1>1, ZenonT(30) DEF FrameOK
  <2>1. CASE u = t
    BY <2>1, <1>1, <1>2, <1>6, <1>7, <1>8, <1>9, <1>10, <1>11, ZenonT(30) DEF Holds, Depth
  <2>2. CASE u # t
    <3>1. u \in Tasks /\ Holds(frame[u].reg, u)
      BY <1>1, <2>2 DEF IInv, TypeOK, FrameOK
    <3>2. QED
      BY <2>2, <3>1, <1>1, <1>8, <1>10, <1>11 DEF Holds, Depth
  <2>3. QED
    BY <2>1, <2>2
<1>17. StackOK'
  <2> SUFFICES ASSUME NEW u \in live, NEW i \in 1..Len(stack'[u])
               PROVE  /\ stack'[u][i].sp = User(u, i - 1) /\ stack'[u][i].a0 = User(u, i - 1)
                      /\ ~torn => stack'[u][i].pc = User(u, i - 1)
    BY <1>1 DEF StackOK, Depth
  <2>1. CASE u = t
    <3>1. i \in 1..(d - 1) /\ i \in 1..Len(stack[t])
      BY <2>1, <1>3, <1>9, <1>10
    <3>2. QED
      BY <2>1, <3>1, <1>1, <1>9, <1>10 DEF IInv, StackOK, Depth
  <2>2. CASE u # t
    <3>1. u \in Tasks /\ stack'[u] = stack[u]
      BY <2>2, <1>10 DEF IInv, TypeOK
    <3>2. QED
      BY <3>1 DEF IInv, StackOK, Depth
  <2>3. QED
    BY <2>1, <2>2
<1>18. QED
  BY <1>13, <1>14, <1>15, <1>16, <1>17 DEF IInv

(* A function on 1..n is a sequence of length n. *)
LEMMA SequenceOf ==
  ASSUME NEW S, NEW n \in Nat, NEW q \in [1..n -> S]
  PROVE  q \in Seq(S) /\ Len(q) = n
OBVIOUS

(* copy_process: the frames of the child are those of its father, and what *)
(* the father finds in its context the child finds in its own.             *)
LEMMA StepFork ==
  ASSUME IInv, NEW c \in Tasks, copy_process(c)
  PROVE  IInv'
<1> DEFINE t == current
           g == [r \in Regs |-> Renamed(frame[t].reg[r], t, c)]
           q == [i \in 1..Depth(t) |-> [e \in {"a0", "pc", "sp"} |-> Renamed(stack[t][i][e], t, c)]]
           k == [pc |-> "ret", sp |-> Frame(c), s |-> kctx[t].s]
<1>1. /\ place = "C" /\ t \in Tasks /\ t \in live /\ c \notin live /\ c # t
      /\ UNCHANGED <<current, place, reg, mie, mepc, mscratch, satp, torn>>
      /\ live' = live \cup {c}
      /\ frame' = [frame EXCEPT ![c] = [reg |-> g, mie |-> frame[t].mie]]
      /\ kctx'  = [kctx EXCEPT ![c] = k]
      /\ stack' = [stack EXCEPT ![c] = q]
      /\ since' = [since EXCEPT ![c] = since[t]]
      /\ cause' = [cause EXCEPT ![t] = "done", ![c] = "done"]
  BY OwnFrame, SMTT(40) DEF copy_process, IInv, TypeOK
<1>2. /\ frame[t] \in [reg : [Regs -> Values], mie : BOOLEAN] /\ Holds(frame[t].reg, t)
      /\ stack[t] \in Seq(SigFrames) /\ Len(stack[t]) <= MaxDepth
  BY <1>1, Zenon DEF IInv, TypeOK, FrameOK
<1>3. Depth(t) \in 0..MaxDepth /\ Depth(t) = Len(stack[t]) /\ 0 \in 0..MaxDepth
      /\ 1..Depth(t) = DOMAIN stack[t]
  BY <1>2, ConstantsOK DEF Depth
<1>4. /\ g \in [Regs -> Values]
      /\ \A r \in Regs : g[r] = Renamed(frame[t].reg[r], t, c)
  BY <1>1, <1>2, RenamedValues, ZenonT(30)
<1>5. ASSUME NEW i \in 1..Depth(t)
      PROVE  /\ stack[t][i] \in SigFrames /\ q[i] \in SigFrames
             /\ q[i].sp = Renamed(stack[t][i].sp, t, c)
             /\ q[i].a0 = Renamed(stack[t][i].a0, t, c)
             /\ q[i].pc = Renamed(stack[t][i].pc, t, c)
  <2>1. stack[t][i] \in SigFrames
    BY <1>2, <1>3, SMTT(40)
  <2>2. q[i] = [a0 |-> Renamed(stack[t][i].a0, t, c), pc |-> Renamed(stack[t][i].pc, t, c),
                sp |-> Renamed(stack[t][i].sp, t, c)]
    BY Zenon
  <2>3. QED
    BY <1>1, <2>1, <2>2, RenamedValues DEF SigFrames
<1>6. q \in Seq(SigFrames) /\ Len(q) = Depth(t)
  <2>1. Depth(t) \in Nat
    BY <1>3
  <2>2. q \in [1..Depth(t) -> SigFrames]
    BY <1>5, ZenonT(30)
  <2> HIDE DEF q
  <2>3. QED
    BY <2>1, <2>2, SequenceOf
<1>7. k \in [pc : {"C", "ret"}, sp : Values, s : Values] /\ k.pc = "ret" /\ k.sp = Frame(c)
  BY <1>1, Contexts, ZenonT(30) DEF IInv, TypeOK
<1> HIDE DEF g, q, k
<1>8. /\ frame'[c].reg = g /\ \A u \in Tasks \ {c} : frame'[u] = frame[u]
      /\ frame' \in [Tasks -> [reg : [Regs -> Values], mie : BOOLEAN]]
  BY <1>1, <1>2, <1>4, ZenonT(30) DEF IInv, TypeOK
<1>9. /\ stack'[c] = q /\ \A u \in Tasks \ {c} : stack'[u] = stack[u]
      /\ stack' \in [Tasks -> Seq(SigFrames)]
  BY <1>1, <1>6, ZenonT(30) DEF IInv, TypeOK
<1>10. /\ kctx'[c] = k /\ \A u \in Tasks \ {c} : kctx'[u] = kctx[u]
       /\ kctx' \in [Tasks -> [pc : {"C", "ret"}, sp : Values, s : Values]]
  BY <1>1, <1>7, ZenonT(30) DEF IInv, TypeOK
<1>11. /\ since' \in [Tasks -> {"own", "handler", "sigreturn"}] /\ since'[c] = since[t]
       /\ \A u \in Tasks \ {c} : since'[u] = since[u]
  BY <1>1, SMTT(40) DEF IInv, TypeOK
<1>12. /\ cause' \in [Tasks -> Causes \cup {"none", "done"}] /\ cause'[c] = "done"
       /\ \A u \in Tasks \ {c} : cause'[u] \in {cause[u], "done"}
  BY <1>1, Zenon DEF IInv, TypeOK
<1>13. TypeOK'
  <2>1. ASSUME NEW u \in Tasks PROVE Len(stack'[u]) <= MaxDepth
    <3>1. CASE u = c
      BY <3>1, <1>3, <1>6, <1>9
    <3>2. CASE u # c
      BY <3>2, <1>9 DEF IInv, TypeOK
    <3>3. QED
      BY <3>1, <3>2
  <2>2. QED
    BY <1>1, <1>8, <1>9, <1>10, <1>11, <1>12, <2>1, ZenonT(40) DEF IInv, TypeOK
<1>14. StackTop' /\ UserOK' /\ MretOK'
  BY <1>1 DEF IInv, StackTop, UserOK, MretOK
<1>15. OwnStacks'
  <2>1. ASSUME NEW u \in live' \ {current}
        PROVE  \/ kctx'[u] = [pc |-> "C", sp |-> Kernel(u), s |-> Kernel(u)]
               \/ kctx'[u].pc = "ret" /\ kctx'[u].sp = Frame(u)
    <3>1. CASE u = c
      BY <3>1, <1>7, <1>10
    <3>2. CASE u # c
      BY <3>2, <1>1, <1>10, Zenon DEF IInv, TypeOK, OwnStacks
    <3>3. QED
      BY <3>1, <3>2, ZenonT(30)
  <2>2. QED
    BY <1>1, <2>1, ZenonT(30) DEF IInv, OwnStacks
<1>16. SigreturnOK'
  <2> SUFFICES ASSUME NEW u \in live', cause'[u] = "sigreturn" PROVE Len(stack'[u]) > 0
    BY SMTT(40) DEF SigreturnOK, Depth
  <2>1. u # c /\ u \in live /\ u \in Tasks /\ cause[u] = "sigreturn"
    BY <1>1, <1>12, Zenon DEF IInv, TypeOK
  <2>2. QED
    BY <2>1, <1>9 DEF IInv, SigreturnOK, Depth
<1>17. FrameOK'
  <2> SUFFICES ASSUME NEW u \in live' PROVE Holds(frame[u].reg, u)'
    BY <1>1, ZenonT(30) DEF FrameOK
  <2>1. CASE u = c
    <3>1. /\ Renamed(User(t, Depth(t)), t, c) = User(c, Depth(t))
          /\ Renamed(User(t, 0), t, c) = User(c, 0)
      BY <1>1, <1>3, RenamedValues
    <3>2. Len(stack'[c]) = Depth(t)
      BY <1>6, <1>9, ZenonT(30)
    <3>3. QED
      BY <2>1, <3>1, <3>2, <1>1, <1>2, <1>4, <1>8, <1>11 DEF Holds, Depth, Regs
  <2>2. CASE u # c
    <3>1. u \in live /\ u \in Tasks /\ Holds(frame[u].reg, u)
      BY <1>1, <2>2, ZenonT(30) DEF IInv, TypeOK, FrameOK
    <3>2. QED
      BY <2>2, <3>1, <1>1, <1>8, <1>9, <1>11, ZenonT(30) DEF Holds, Depth
  <2>3. QED
    BY <2>1, <2>2
<1>18. StackOK'
  <2> SUFFICES ASSUME NEW u \in live', NEW i \in 1..Len(stack'[u])
               PROVE  /\ stack'[u][i].sp = User(u, i - 1) /\ stack'[u][i].a0 = User(u, i - 1)
                      /\ ~torn => stack'[u][i].pc = User(u, i - 1)
    BY <1>1, ZenonT(30) DEF StackOK, Depth
  <2>1. CASE u = c
    <3>1. i \in 1..Depth(t) /\ i - 1 \in 0..MaxDepth
      <4>1. i \in 1..Depth(t) /\ Depth(t) \in Nat
        BY <2>1, <1>3, <1>6, <1>9
      <4>2. QED
        BY <4>1, <1>3, ConstantsOK
    <3>2. Renamed(User(t, i - 1), t, c) = User(c, i - 1)
      BY <1>1, <3>1, RenamedValues, ZenonT(30)
    <3>3. /\ stack[t][i].sp = User(t, i - 1) /\ stack[t][i].a0 = User(t, i - 1)
          /\ ~torn => stack[t][i].pc = User(t, i - 1)
      BY <1>1, <3>1 DEF IInv, StackOK
    <3>4. QED
      BY <2>1, <3>1, <3>2, <3>3, <1>5, <1>9
  <2>2. CASE u # c
    <3>1. u \in live /\ u \in Tasks /\ stack'[u] = stack[u]
      BY <1>1, <2>2, <1>9, ZenonT(30) DEF IInv, TypeOK
    <3>2. QED
      BY <3>1, ZenonT(30) DEF IInv, StackOK, Depth
  <2>3. QED
    BY <2>1, <2>2, ZenonT(30)
<1>19. QED
  BY <1>13, <1>14, <1>15, <1>16, <1>17, <1>18, ZenonT(30) DEF IInv

(* execve: a new frame, a new program, no handler. *)
LEMMA StepExecve ==
  ASSUME IInv, do_execve
  PROVE  IInv'
<1> DEFINE t == current
<1>1. /\ place = "C" /\ t \in Tasks /\ t \in live
      /\ UNCHANGED <<live, current, place, reg, mie, mepc, mscratch, satp, kctx, torn>>
      /\ frame' = [frame EXCEPT ![t] = ExecFrame(t)]
      /\ stack' = [stack EXCEPT ![t] = <<>>]
      /\ since' = [since EXCEPT ![t] = "own"]
      /\ cause' = [cause EXCEPT ![t] = "none"]
  BY OwnFrame, ZenonT(30) DEF do_execve, IInv, TypeOK
<1>2. /\ frame'[t] = ExecFrame(t) /\ \A u \in Tasks \ {t} : frame'[u] = frame[u]
      /\ frame' \in [Tasks -> [reg : [Regs -> Values], mie : BOOLEAN]]
  BY <1>1, FreshRegisters DEF IInv, TypeOK
<1>3. /\ stack'[t] = <<>> /\ Len(stack'[t]) = 0 /\ \A u \in Tasks \ {t} : stack'[u] = stack[u]
      /\ stack' \in [Tasks -> Seq(SigFrames)]
  BY <1>1 DEF IInv, TypeOK
<1>4. /\ since' \in [Tasks -> {"own", "handler", "sigreturn"}]
      /\ \A u \in Tasks \ {t} : since'[u] = since[u]
  BY <1>1 DEF IInv, TypeOK
<1>5. /\ cause' \in [Tasks -> Causes \cup {"none", "done"}] /\ cause'[t] = "none"
      /\ \A u \in Tasks \ {t} : cause'[u] = cause[u]
  BY <1>1, ZenonT(30) DEF IInv, TypeOK
<1>6. TypeOK'
  <2>1. ASSUME NEW u \in Tasks PROVE Len(stack'[u]) <= MaxDepth
    <3>1. CASE u = t
      BY <3>1, <1>3, ConstantsOK
    <3>2. CASE u # t
      BY <3>2, <1>3, SMTT(40) DEF IInv, TypeOK
    <3>3. QED
      BY <3>1, <3>2
  <2>2. QED
    BY <1>1, <1>2, <1>3, <1>4, <1>5, <2>1 DEF IInv, TypeOK
<1>7. StackTop' /\ OwnStacks' /\ UserOK' /\ MretOK'
  BY <1>1, ZenonT(40) DEF IInv, StackTop, OwnStacks, UserOK, MretOK
<1>8. SigreturnOK'
  BY <1>1, <1>3, <1>5, Zenon DEF IInv, TypeOK, SigreturnOK, Depth
<1>9. FrameOK'
  <2> SUFFICES ASSUME NEW u \in live PROVE Holds(frame[u].reg, u)'
    BY <1>1, ZenonT(30) DEF FrameOK
  <2>1. CASE u = t
    BY <2>1, <1>1, <1>2, <1>3, FreshRegisters, ZenonT(30) DEF Holds, Depth, Regs
  <2>2. CASE u # t
    <3>1. u \in Tasks /\ Holds(frame[u].reg, u)
      BY <1>1, <2>2, ZenonT(30) DEF IInv, TypeOK, FrameOK
    <3>2. QED
      BY <2>2, <3>1, <1>1, <1>2, <1>3, <1>4, ZenonT(30) DEF Holds, Depth
  <2>3. QED
    BY <2>1, <2>2
<1>10. StackOK'
  <2> SUFFICES ASSUME NEW u \in live, NEW i \in 1..Len(stack'[u])
               PROVE  /\ stack'[u][i].sp = User(u, i - 1) /\ stack'[u][i].a0 = User(u, i - 1)
                      /\ ~torn => stack'[u][i].pc = User(u, i - 1)
    BY <1>1 DEF StackOK, Depth
  <2>1. u # t /\ u \in Tasks /\ stack'[u] = stack[u]
    BY <1>3 DEF IInv, TypeOK
  <2>2. QED
    BY <2>1, ZenonT(30) DEF IInv, StackOK, Depth
<1>11. QED
  BY <1>6, <1>7, <1>8, <1>9, <1>10 DEF IInv

-----------------------------------------------------------------------------
(* Every step of the kernel and of the programs keeps the invariant. *)
LEMMA Inductive == IInv /\ [Next]_vars => IInv'
<1> SUFFICES ASSUME IInv, [Next]_vars PROVE IInv'
  BY SMTT(40)
<1>1. CASE UNCHANGED vars
  BY <1>1, ZenonT(40) DEF vars, IInv, TypeOK, StackTop, OwnStacks, UserOK, FrameOK, StackOK,
       SigreturnOK, MretOK, Holds, Depth
<1>2. CASE \E why \in Causes : trap_entry(why)
  BY <1>2, StepTrapEntry
<1>3. CASE KernelTimer \/ TimerLosesT0 \/ TimerBeforeMret
  BY <1>3, StepTimers
<1>4. CASE SetMie \/ RetBegins \/ ret_from_trap
  BY <1>4, StepRet
<1>5. CASE Compute
  BY <1>5, StepCompute
<1>6. CASE \E n \in Tasks : schedule(n) \/ do_exit(n) \/ copy_process(n)
  BY <1>6, StepSwitch, StepFork
<1>7. CASE TrapReturns
  BY <1>7, StepTrapReturns
<1>8. CASE do_signal
  BY <1>8, StepSignal
<1>9. CASE sys_sigreturn
  BY <1>9, StepSigreturn
<1>10. CASE do_execve
  BY <1>10, StepExecve
<1>11. QED
  BY <1>1, <1>2, <1>3, <1>4, <1>5, <1>6, <1>7, <1>8, <1>9, <1>10 DEF Next

(* The invariant holds in every state of every behaviour. *)
THEOREM Invariant == Spec => []IInv
BY InitIInv, Inductive, PTL DEF Spec

(* In user mode, mscratch is the top of the kernel stack of the task that  *)
(* runs and satp its page directory: trap_entry finds the right stack      *)
(* after any traps, switches, forks and execs.                             *)
THEOREM StackTopHolds == Spec => []StackTop
<1>1. IInv => StackTop
  BY DEF IInv
<1>2. QED
  BY Invariant, <1>1, PTL

(* Kernel code is on the stack of its own task with its own callee-saved   *)
(* registers, and switch_to has saved as much for every task that waits.   *)
THEOREM OwnStacksHolds == Spec => []OwnStacks
<1>1. IInv => OwnStacks
  BY DEF IInv
<1>2. QED
  BY Invariant, <1>1, PTL

(* A user context finds its registers as it left them, through trap_entry, *)
(* do_signal, sys_sigreturn, switch_to, fork and ret_from_trap, apart from *)
(* those the property excepts.                                             *)
THEOREM RegistersKeptHolds == Spec => []RegistersKept
<1>1. IInv => RegistersKept
  BY DEF IInv, UserOK, RegistersKept, Holds, Own
<1>2. QED
  BY Invariant, <1>1, PTL

(* No step of one task writes the trap frame of another: neither a trap,   *)
(* nor a signal, nor fork for the tasks that exist.                        *)
THEOREM FramesUntouchedHolds == Spec => FramesUntouched
<1>1. IInv /\ [Next]_vars => [\A t \in live \ {current} : frame'[t] = frame[t]]_vars
  <2> SUFFICES ASSUME IInv, Next, NEW t \in live \ {current} PROVE frame'[t] = frame[t]
    BY DEF vars
  <2>1. t \in Tasks /\ current \in Tasks /\ DOMAIN frame = Tasks
    BY DEF IInv, TypeOK
  <2>2. CASE \E why \in Causes : trap_entry(why)
    BY <2>1, <2>2, OwnFrame, ZenonT(30) DEF trap_entry, IInv, TypeOK
  <2>3. CASE \E n \in Tasks : copy_process(n)
    BY <2>1, <2>3, ZenonT(40) DEF copy_process, IInv, TypeOK
  <2>4. CASE do_signal \/ sys_sigreturn \/ do_execve
    BY <2>1, <2>4, Zenon DEF do_signal, sys_sigreturn, do_execve, IInv, TypeOK
  <2>5. CASE \E n \in Tasks : schedule(n) \/ do_exit(n)
    BY <2>5 DEF schedule, do_exit
  <2>6. CASE KernelTimer \/ TimerLosesT0 \/ TimerBeforeMret \/ SetMie \/ RetBegins
             \/ ret_from_trap \/ Compute \/ TrapReturns
    BY <2>6 DEF KernelTimer, TimerLosesT0, TimerBeforeMret, SetMie, RetBegins, ret_from_trap,
                Compute, TrapReturns
  <2>7. QED
    BY <2>2, <2>3, <2>4, <2>5, <2>6 DEF Next
<1>2. QED
  BY Invariant, <1>1, PTL DEF Spec, FramesUntouched
=============================================================================
