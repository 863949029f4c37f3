------------------------------- MODULE MCTrap -------------------------------
EXTENDS Trap

(* What the next steps read: nothing of a task that does not exist, no     *)
(* kernel context of the task that runs, no frame in user mode, no scratch *)
(* registers in C code.                                                    *)
Live(f) == [t \in live |-> f[t]]

Seen ==
  <<live, current, place, torn, Live(stack), Live(cause), Live(since),
    [t \in live \ {current} |-> IF kctx[t].pc = "C" THEN kctx[t] ELSE kctx[t].sp],
    [t \in live \ {u \in {current} : place = "user"} |-> frame[t]],
    CASE place = "user" -> <<reg, mscratch, satp>>
      [] place = "mret" -> <<reg["sp"], reg["s"], mie, mepc, mscratch>>
      [] OTHER          -> <<reg["sp"], reg["s"], mie>>>>
=============================================================================
