---------------------------- MODULE PrivateMemory ----------------------------
(***************************************************************************)
(* What the memory manager promises to user programs: every task has a     *)
(* memory of its own.  There are no physical pages here, and no sharing.   *)
(***************************************************************************)
EXTENDS Naturals

CONSTANTS Tasks, VA, Values, Program, NoPage

VARIABLES
  alive,  \* the tasks that exist and have not exited
  mem     \* what each task reads at each of its pages

vars == <<alive, mem>>

Empty == [v \in VA |-> NoPage]

(* A fresh image after execve: program and arguments, nothing else. *)
Image == [v \in VA |-> IF v \in DOMAIN Program THEN Program[v] ELSE NoPage]

Init == alive = {} /\ mem = [t \in Tasks |-> Empty]

Start(t) ==
  /\ t \notin alive
  /\ alive' = alive \cup {t}
  /\ UNCHANGED mem

Fork(t, c) ==
  /\ t \in alive /\ c \notin alive
  /\ alive' = alive \cup {c}
  /\ mem' = [mem EXCEPT ![c] = mem[t]]

Exec(t) ==
  /\ t \in alive
  /\ mem' = [mem EXCEPT ![t] = Image]
  /\ UNCHANGED alive

Exit(t) ==
  /\ t \in alive
  /\ alive' = alive \ {t}
  /\ mem' = [mem EXCEPT ![t] = Empty]

Write(t, v, x) ==
  /\ t \in alive /\ mem[t][v] # NoPage
  /\ mem' = [mem EXCEPT ![t][v] = x]
  /\ UNCHANGED alive

(* A page fault of the task's own gives it a page of zeroes. *)
Fresh(t, v) ==
  /\ t \in alive
  /\ mem' = [mem EXCEPT ![t][v] = 0]
  /\ UNCHANGED alive

Next ==
  \E t \in Tasks :
    \/ Start(t)
    \/ Exec(t)
    \/ Exit(t)
    \/ \E c \in Tasks : Fork(t, c)
    \/ \E v \in VA : Fresh(t, v)
    \/ \E v \in VA, x \in Values : Write(t, v, x)

Spec == Init /\ [][Next]_vars
=============================================================================
