------------------------------- MODULE MCPipe -------------------------------
(* A pipe of a few bytes shared by three processes. *)
EXTENDS Pipe, TLC

Symmetry == Permutations(Procs)

(* The bytes outside of the pipe are never read. *)
Inside(i) == (i - tail) % Size < PIPE_SIZE

Seen == <<head, tail, [i \in 0..(Size - 1) |-> IF Inside(i) THEN page[i] ELSE 0], files, call,
          [p \in Procs |-> IF call[p] = "none" THEN 0 ELSE count[p]], sleep, cpu, event>>
=============================================================================
