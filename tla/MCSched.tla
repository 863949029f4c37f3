------------------------------- MODULE MCSched -------------------------------
(* The scheduler with small numbers of tasks, queues and priorities. *)
EXTENDS Sched, TLC

QueueSymmetry == Permutations(Queues)

(* What is left of a task in a free slot of task[] is never read. *)
Live(f) == [t \in Tasks |-> IF state[t] = "none" THEN 0 ELSE f[t]]

Seen == <<state, Live(counter), Live(priority), Live(signal), Live(alarm), current, mode,
          wait, tmp, on, hung>>
=============================================================================
