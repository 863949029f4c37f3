------------------------------ MODULE PipeFifo ------------------------------
(***************************************************************************)
(* What a pipe promises: the bytes that writers put in come out once, in   *)
(* order; a reader sees the end only when no writer is left and every byte *)
(* was read; a writer is turned away only when no reader is left.          *)
(***************************************************************************)
EXTENDS Naturals, Sequences

CONSTANTS Procs, Bytes, Capacity

VARIABLES
  queue,    \* bytes in the pipe
  readers,  \* processes with the read end
  writers,  \* processes with the write end
  event     \* what the last step told a process: bytes, the end, no reader

vars == <<queue, readers, writers, event>>

Silent == <<>>

Init ==
  /\ queue = <<>> /\ readers = {} /\ writers = {}
  /\ event = Silent

Create(p) ==
  /\ readers = {} /\ writers = {}
  /\ readers' = {p} /\ writers' = {p}
  /\ queue' = <<>> /\ event' = Silent

Put(p, s) ==
  /\ p \in writers /\ Len(queue) + Len(s) <= Capacity
  /\ queue' = queue \o s
  /\ event' = Silent
  /\ UNCHANGED <<readers, writers>>

Get(p, n) ==
  /\ p \in readers /\ n <= Len(queue)
  /\ event' = <<"bytes", p, SubSeq(queue, 1, n)>>
  /\ queue' = SubSeq(queue, n + 1, Len(queue))
  /\ UNCHANGED <<readers, writers>>

End(p) ==
  /\ p \in readers /\ writers = {} /\ queue = <<>>
  /\ event' = <<"end", p>>
  /\ UNCHANGED <<queue, readers, writers>>

Broken(p) ==
  /\ p \in writers /\ readers = {}
  /\ event' = <<"broken", p>>
  /\ UNCHANGED <<queue, readers, writers>>

(* A child gets the ends of its father; a process gives an end away. *)
Inherit(p, c) ==
  /\ readers' = IF p \in readers THEN readers \cup {c} ELSE readers
  /\ writers' = IF p \in writers THEN writers \cup {c} ELSE writers
  /\ event' = Silent
  /\ UNCHANGED queue

Drop ==
  /\ readers' \subseteq readers /\ writers' \subseteq writers
  /\ event' = Silent
  /\ UNCHANGED queue

Next ==
  \/ Drop
  \/ \E p \in Procs :
       \/ Create(p)
       \/ End(p)
       \/ Broken(p)
       \/ \E c \in Procs : Inherit(p, c)
       \/ \E n \in 1..Capacity : Get(p, n) \/ \E s \in [1..n -> Bytes] : Put(p, s)

Spec == Init /\ [][Next]_vars
=============================================================================
