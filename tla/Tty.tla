--------------------------------- MODULE Tty ---------------------------------
(***************************************************************************)
(* The console terminal: kernel/chr_drv/tty_io.c, console.c, tty_ioctl.c.  *)
(*                                                                         *)
(* Characters arrive at the UART at any time; nothing interrupts for them, *)
(* the tasks that wait in tty_read poll.  The kernel is not preemptive: a  *)
(* task keeps the processor (cpu) until it calls schedule() or its call    *)
(* returns.  A queue of tty.h is the sequence of its characters, at most   *)
(* TTY_BUF_SIZE - 1 of them.                                               *)
(*                                                                         *)
(* con_write empties write_q before anything else runs, so write_q only    *)
(* shows in how much tty_write sends at a time.  Left out are the echo,    *)
(* the case conversions, VTIME (0 as in INIT_C_CC) and tty->stopped, which *)
(* nothing reads.                                                          *)
(***************************************************************************)
EXTENDS Integers, Sequences, FiniteSets, FiniteSetsExt, SequencesExt

CONSTANTS
  Tasks,
  Group,          \* the process group of each task
  TTY_BUF_SIZE,   \* size of a queue (1024)
  ROOM,           \* a canonical read waits for more than this much room (20)
  Keys,           \* the characters that are typed
  Lens,           \* sizes of reads
  Texts,          \* what is written
  Modes,          \* values of c_lflag and VMIN that TCSETS sets
  MaxTyped        \* bound: characters typed

ASSUME TtyConstants ==
  /\ TTY_BUF_SIZE \in Nat /\ TTY_BUF_SIZE > 1 /\ ROOM \in Nat
  /\ Lens \subseteq Nat /\ MaxTyped \in Nat

VARIABLES
  uart,        \* characters the UART has received
  tty,         \* tty_table[0]: the queues, secondary.data, c_lflag, VMIN, pgrp
  task,        \* what each task is doing in the kernel, and its signals
  cpu,         \* the task that has the processor in the kernel, or None
  cr_flag,     \* the static variable of tty_write
  typed,       \* history: all characters received, after the input mapping
  delivered,   \* history: all characters that readers got
  sent         \* history: the last character tty_write sent, and whether an NL
               \* ever followed anything but a CR

vars == <<uart, tty, task, cpu, cr_flag, typed, delivered, sent>>

None == "none"
Idle == [pc |-> "user", nr |-> 0, min |-> 0, got |-> 0, buf |-> << >>, signal |-> FALSE]

(* Both end a line. *)
Ends == {"nl", "eof"}

EMPTY(q) == q = << >>
LEFT(q)  == TTY_BUF_SIZE - 1 - Len(q)
FULL(q)  == LEFT(q) = 0
Canon(s) == "ICANON" \in s.c_lflag

Init ==
  /\ uart = << >>
  /\ tty = [read_q |-> << >>, secondary |-> << >>, data |-> 0,
            c_lflag |-> {"ISIG", "ICANON"}, VMIN |-> 1, pgrp |-> 0, intr |-> FALSE]
  /\ task = [t \in Tasks |-> Idle]
  /\ cpu = None /\ cr_flag = FALSE
  /\ typed = << >> /\ delivered = << >> /\ sent = [last |-> "x", bare |-> FALSE]

-----------------------------------------------------------------------------
(* Input: from the UART to read_q to secondary. *)

(* ICRNL *)
Mapped(c) == IF c = "cr" THEN "nl" ELSE c

(* Faulty variant of Erasable: a finished line can be erased. *)
NotEmpty(q) == ~EMPTY(q)

(* DEL or BS may take the last character of secondary away. *)
Erasable(q) == ~EMPTY(q) /\ Last(q) \notin Ends

(* KILL keeps the finished lines. *)
Killed(q) == SubSeq(q, 1, Max({0} \cup {k \in DOMAIN q : q[k] \in Ends}))

(* One turn of copy_to_cooked, for character c; intr is set for tty_intr. *)
Cook(s, c) ==
  CASE Canon(s) /\ c = "kill"  -> [s EXCEPT !.secondary = Killed(@)]
    [] Canon(s) /\ c = "erase" -> [s EXCEPT !.secondary = IF Erasable(@) THEN Front(@) ELSE @]
    [] Canon(s) /\ c = "stop"  -> s
    [] "ISIG" \in s.c_lflag /\ c = "intr" -> [s EXCEPT !.intr = TRUE]
    [] OTHER -> [s EXCEPT !.secondary = Append(@, c), !.data = IF c \in Ends THEN @ + 1 ELSE @]

(* Faulty variant of CopyOne: secondary is taken to have room. *)
CopyAny(s, k) ==
  IF EMPTY(s.read_q) THEN s
  ELSE Cook([s EXCEPT !.read_q = Tail(@)], Mapped(Head(s.read_q)))

CopyOne(s, k) ==
  IF EMPTY(s.read_q) \/ FULL(s.secondary) THEN s
  ELSE Cook([s EXCEPT !.read_q = Tail(@)], Mapped(Head(s.read_q)))

copy_to_cooked(s) == FoldLeft(CopyOne, s, [k \in 1..Len(s.read_q) |-> k])

(* What does not fit into read_q is lost. *)
con_poll(s) ==
  LET all == s.read_q \o uart IN
  copy_to_cooked([s EXCEPT !.read_q = SubSeq(all, 1, Min({Len(all), TTY_BUF_SIZE - 1}))])

(* tty_intr: every task of the terminal's group gets the signal. *)
tty_intr(ts, s) ==
  [t \in Tasks |-> IF s.intr /\ s.pgrp > 0 /\ Group[t] = s.pgrp
                   THEN [ts[t] EXCEPT !.signal = TRUE] ELSE ts[t]]

(* A key is pressed. *)
Receive ==
  /\ Len(typed) < MaxTyped
  /\ \E c \in Keys : uart' = Append(uart, c) /\ typed' = Append(typed, Mapped(c))
  /\ UNCHANGED <<tty, task, cpu, cr_flag, delivered, sent>>

-----------------------------------------------------------------------------
(* tty_read. *)

Runs(t)   == cpu \in {None, t}
Return(t) == task' = [task EXCEPT ![t] = [Idle EXCEPT !.signal = task[t].signal]] /\ cpu' = None

(* A call with nr = 0 returns at once. *)
tty_read(t) ==
  /\ cpu = None /\ task[t].pc = "user"
  /\ \E nr \in Lens \ {0} : task' = [task EXCEPT ![t].pc = "read", ![t].nr = nr,
                                                 ![t].min = Min({tty.VMIN, nr})]
  /\ cpu' = t
  /\ UNCHANGED <<uart, tty, cr_flag, typed, delivered, sent>>

(* There is nothing to read yet. *)
Waits(s) == EMPTY(s.secondary) \/ (Canon(s) /\ s.data = 0 /\ LEFT(s.secondary) > ROOM)

(* The condition on which the waiting loop ends. *)
Ready(s) == ~EMPTY(s.secondary) /\ (~Canon(s) \/ s.data > 0)

(* How many characters the do-while loop gets, and how many it hands over: *)
(* it stops behind the first EOF, which it drops.                          *)
Taken(t) ==
  LET m    == Min({task[t].nr, Len(tty.secondary)})
      eofs == {k \in 1..m : Canon(tty) /\ tty.secondary[k] = "eof"}
  IN IF eofs = {} THEN m ELSE Min(eofs)

HitsEof(t) == Canon(tty) /\ tty.secondary[Taken(t)] = "eof"
Handed(t)  == IF HitsEof(t) THEN Taken(t) - 1 ELSE Taken(t)

(* Faulty variant of Without: the last character taken stays. *)
WithoutMost(q, k) == SubSeq(q, k, Len(q))

(* What GETCH leaves of a queue after k characters. *)
Without(q, k) == SubSeq(q, k + 1, Len(q))

(* The lines that end in the first k characters. *)
Uncount(q, k) == Cardinality({j \in 1..k : q[j] \in Ends})

(* The read is over: the end of the file, a line in canonical mode, or as  *)
(* many characters as VMIN asked for when the call began.                  *)
Enough(t) == HitsEof(t) \/ Canon(tty) \/ task[t].got + Taken(t) >= task[t].min

(* The outer loop: a signal ends the read, or there is nothing to read, or *)
(* characters are taken.                                                   *)
read_signal(t) ==
  /\ task[t].pc = "read" /\ Runs(t) /\ task[t].signal
  /\ Return(t)
  /\ UNCHANGED <<uart, tty, cr_flag, typed, delivered, sent>>

read_waits(t) ==
  /\ task[t].pc = "read" /\ Runs(t) /\ ~task[t].signal /\ Waits(tty)
  /\ task' = [task EXCEPT ![t].pc = "poll"] /\ cpu' = t
  /\ UNCHANGED <<uart, tty, cr_flag, typed, delivered, sent>>

read_takes(t) ==
  /\ task[t].pc = "read" /\ Runs(t) /\ ~task[t].signal /\ ~Waits(tty)
  /\ delivered' = delivered \o SubSeq(tty.secondary, 1, Handed(t))
  /\ tty' = [tty EXCEPT !.secondary = Without(@, Taken(t)),
                        !.data = @ - Uncount(tty.secondary, Taken(t))]
  /\ IF Enough(t) THEN Return(t)
     ELSE /\ task' = [task EXCEPT ![t].nr = @ - Taken(t), ![t].got = @ + Taken(t)]
          /\ cpu' = t
  /\ UNCHANGED <<uart, cr_flag, typed, sent>>

(* The inner loop polls until there is a line, and lets others run between *)
(* two turns; a signal ends it.                                            *)
read_polls(t) ==
  LET s == con_poll(tty) IN
  /\ task[t].pc = "poll" /\ Runs(t)
  /\ IF task[t].signal
     THEN /\ task' = [task EXCEPT ![t].pc = "read"] /\ cpu' = t
          /\ UNCHANGED <<uart, tty>>
     ELSE /\ uart' = << >>
          /\ tty' = [s EXCEPT !.intr = FALSE]
          /\ task' = tty_intr([task EXCEPT ![t].pc = IF Ready(s) THEN "read" ELSE "poll"], s)
          /\ cpu' = IF Ready(s) THEN t ELSE None
  /\ UNCHANGED <<cr_flag, typed, delivered, sent>>

-----------------------------------------------------------------------------
(* tty_write. *)

tty_write(t) ==
  /\ cpu = None /\ task[t].pc = "user"
  /\ \E text \in Texts : task' = [task EXCEPT ![t].pc = "write", ![t].buf = text]
  /\ cpu' = t
  /\ UNCHANGED <<uart, tty, cr_flag, typed, delivered, sent>>

Out(h, c) == [last |-> c, bare |-> h.bare \/ (c = "nl" /\ h.last # "cr")]

(* Faulty variant of Sent: cr_flag is not cleared by other characters. *)
SentFlag(w, c) == [buf |-> Tail(w.buf), cr |-> w.cr /\ c # "nl", sent |-> Out(w.sent, c)]

Sent(w, c) == [buf |-> Tail(w.buf), cr |-> FALSE, sent |-> Out(w.sent, c)]

(* One character into write_q, a CR before every NL (OPOST, ONLCR). *)
PutOne(w, k) ==
  IF w.buf = << >> THEN w
  ELSE IF Head(w.buf) = "nl" /\ ~w.cr THEN [w EXCEPT !.cr = TRUE, !.sent = Out(@, "cr")]
  ELSE Sent(w, Head(w.buf))

(* write_q is filled up, con_write sends it, and others may run.  The      *)
(* queue was empty, so sleep_if_full() does not wait.                      *)
write_fills(t) ==
  LET w == FoldLeft(PutOne, [buf |-> task[t].buf, cr |-> cr_flag, sent |-> sent],
                    [k \in 1..(TTY_BUF_SIZE - 1) |-> k])
  IN /\ task[t].pc = "write" /\ Runs(t)
     /\ IF task[t].signal THEN Return(t) /\ UNCHANGED <<cr_flag, sent>>
        ELSE /\ sent' = w.sent /\ cr_flag' = w.cr
             /\ IF w.buf = << >> THEN Return(t)
                ELSE task' = [task EXCEPT ![t].buf = w.buf] /\ cpu' = None
     /\ UNCHANGED <<uart, tty, typed, delivered>>

-----------------------------------------------------------------------------
(* tty_ioctl: set_termios and set_termio, flush, TIOCSPGRP.  TCGETS and    *)
(* the like only look; change_speed does nothing, as read_q.data is 0.     *)

flush(s) == [s EXCEPT !.read_q = << >>]

tty_ioctl(t) ==
  /\ cpu = None /\ task[t].pc = "user"
  /\ \/ \E m \in Modes, f \in BOOLEAN :                              \* TCSETS, TCSETSF
          tty' = [(IF f THEN flush(tty) ELSE tty) EXCEPT !.c_lflag = m.c_lflag, !.VMIN = m.VMIN]
     \/ tty' = flush(tty)                                             \* TCFLSH
     \/ tty' = [tty EXCEPT !.pgrp = Group[t]]                         \* TIOCSPGRP
  /\ UNCHANGED <<uart, task, cpu, cr_flag, typed, delivered, sent>>

(* Back in user mode the signal is delivered (module Process). *)
do_signal(t) ==
  /\ task[t].pc = "user" /\ task[t].signal
  /\ task' = [task EXCEPT ![t].signal = FALSE]
  /\ UNCHANGED <<uart, tty, cpu, cr_flag, typed, delivered, sent>>

(* The steps of a task inside a call. *)
Step(t) == read_signal(t) \/ read_waits(t) \/ read_takes(t) \/ read_polls(t) \/ write_fills(t)

Next ==
  \/ Receive
  \/ \E t \in Tasks : tty_read(t) \/ tty_write(t) \/ tty_ioctl(t) \/ do_signal(t) \/ Step(t)

Spec == Init /\ [][Next]_vars

-----------------------------------------------------------------------------
(* The values of the variables: no queue is ever more than full, and a     *)
(* task that has the processor is inside a call.                           *)
TypeOK ==
  /\ tty.read_q \in Seq(Keys \cup {"nl"}) /\ Len(tty.read_q) < TTY_BUF_SIZE
  /\ tty.secondary \in Seq(Keys \cup {"nl"}) /\ Len(tty.secondary) < TTY_BUF_SIZE
  /\ tty.data \in Nat /\ cr_flag \in BOOLEAN
  /\ \A t \in Tasks : task[t].pc \in {"user", "read", "poll", "write"}
  /\ cpu # None => task[cpu].pc # "user"

(* secondary.data is the number of line ends in secondary, whatever was    *)
(* erased, killed, flushed or read in between and however often the mode   *)
(* changed: a reader is never kept waiting for a line that is there, nor   *)
(* let through for one that is not.                                        *)
LinesCounted == tty.data = Uncount(tty.secondary, Len(tty.secondary))

(* What the readers have got, followed by what is on its way to them, is   *)
(* what was typed with some characters left out: none is invented,         *)
(* duplicated or overtaken, whoever of several readers polls.              *)
ReadInOrder ==
  LET all == delivered \o tty.secondary \o [k \in DOMAIN tty.read_q |-> Mapped(tty.read_q[k])]
                       \o [k \in DOMAIN uart |-> Mapped(uart[k])]
  IN \E keep \in SUBSET (DOMAIN typed) :
       /\ Cardinality(keep) = Len(all)
       /\ all = [k \in DOMAIN all |->
                   typed[CHOOSE j \in keep : Cardinality({i \in keep : i <= j}) = k]]

(* Every NL that tty_write sends follows a CR that it sent, although the   *)
(* flag for it is shared by all writers and a writer can lose the          *)
(* processor between the two.                                              *)
NewlineAfterCR == ~sent.bare
=============================================================================
