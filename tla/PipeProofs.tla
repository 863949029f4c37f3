----------------------------- MODULE PipeProofs -----------------------------
(***************************************************************************)
(* No wake-up of a pipe is missed, for any number of processes, any size   *)
(* of the ring buffer and any counts.                                      *)
(*                                                                         *)
(* The argument is that i_wait never holds more than one sleeper: a task   *)
(* wakes the one that is there before it goes to sleep itself.  LoneSleeper*)
(* says so, and with it wake_up at the end of a call leaves nobody asleep. *)
(*                                                                         *)
(* And the pipe is a queue of bytes: PipeIsFifo shows step by step that    *)
(* Pipe implements PipeFifo.  What it rests on is the arithmetic of the    *)
(* ring (ReadRing, WriteRing) and that a process in a call holds its end.  *)
(***************************************************************************)
EXTENDS Pipe, FiniteSetTheorems, SequenceTheorems, TLAPS

(* Nobody sleeps but the process i_wait points to, so that no tmp is ever  *)
(* used; the process that has the processor is awake and inside a call.    *)
LoneSleeper ==
  /\ asleep \subseteq {wait}
  /\ \A p \in Procs : tmp[p] = NoProc
  /\ cpu \notin asleep
  /\ \A p \in asleep : call[p] # "none"

IInv == TypeOK /\ CountsAgree /\ LoneSleeper /\ NoMissedWakeup

(* The size of the pipe is within the ring buffer. *)
LEMMA SizeInRing == ASSUME TypeOK PROVE PIPE_SIZE \in 0..(Size - 1)
<1>1. head \in Int /\ tail \in Int /\ Size \in Nat /\ Size > 0
  BY ConstantsOK DEF TypeOK
<1>2. head - tail \in Int
  BY <1>1
<1> QED BY <1>1, <1>2 DEF PIPE_SIZE

(* Nothing is open at first. *)
THEOREM InitInv == Init => IInv
<1> SUFFICES ASSUME Init PROVE IInv
  OBVIOUS
<1>1. TypeOK
  BY ConstantsOK DEF Init, TypeOK, Ends
<1>2. \A e \in Ends : Holders(e) = {}
  BY DEF Init, Holders
<1>3. CountsAgree
  <2>1. \A e \in Ends : Cardinality(Holders(e)) = 0
    BY <1>2, FS_EmptySet
  <2>2. \A e \in Ends : f_count[e] = 0
    BY DEF Init
  <2>3. Open("read") = 0 /\ Open("write") = 0 /\ i_count = 0
    BY <1>2 DEF Open, Ends, Init
  <2> QED BY <2>1, <2>2, <2>3 DEF CountsAgree
<1>4. LoneSleeper /\ NoMissedWakeup
  BY DEF Init, LoneSleeper, NoMissedWakeup
<1> QED BY <1>1, <1>3, <1>4 DEF IInv

-----------------------------------------------------------------------------
(* Steps that leave the descriptors alone keep the counts right. *)
LEMMA CountsSame == CountsAgree /\ UNCHANGED files => CountsAgree'
  BY DEF CountsAgree, files, Open, Holders

(* The ends of read_pipe and write_pipe, with wake_up: nobody sleeps on.   *)
LEMMA ReturnInv ==
  ASSUME IInv, NEW p \in Procs, cpu = p, wake_up, Return(p), UNCHANGED <<ring, files, count>>
  PROVE  IInv'
<1>1. TypeOK'
  BY DEF IInv, TypeOK, wake_up, Return, ring, files
<1>2. asleep' = {}
  BY DEF IInv, LoneSleeper, wake_up
<1>3. LoneSleeper' /\ NoMissedWakeup'
  BY <1>2 DEF IInv, LoneSleeper, NoMissedWakeup, wake_up
<1> QED BY <1>1, <1>3, CountsSame DEF IInv

(* The nap in the middle of read_pipe and write_pipe: the caller is the    *)
(* only sleeper, and it has seen that it cannot go on.                     *)
LEMMA NapInv ==
  ASSUME IInv, NEW p \in Procs, cpu = p, WakeAndSleep(p), cpu' = NoProc, i_count = 2,
         \/ call[p] = "read" /\ PIPE_SIZE = 0
         \/ call[p] = "write" /\ PIPE_SIZE = Size - 1,
         UNCHANGED <<ring, files, call, count>>
  PROVE  IInv'
<1>1. TypeOK'
  BY DEF IInv, TypeOK, WakeAndSleep, ring, files
<1>2. asleep' = {p} /\ wait' = p
  BY DEF IInv, LoneSleeper, WakeAndSleep
<1>3. LoneSleeper'
  <2>1. p # NoProc
    BY NoProcOK
  <2>2. \A q \in Procs : tmp'[q] = NoProc
    BY DEF IInv, TypeOK, LoneSleeper, WakeAndSleep
  <2> QED BY <1>2, <2>1, <2>2 DEF LoneSleeper
<1>4. NoMissedWakeup'
  <2>1. PIPE_SIZE' = PIPE_SIZE /\ i_count' = 2 /\ call' = call
    BY DEF PIPE_SIZE, ring, files
  <2> QED BY <1>2, <2>1 DEF NoMissedWakeup
<1> QED BY <1>1, <1>3, <1>4, CountsSame DEF IInv

(* Steps inside a call: nobody is woken, and the call is not over. *)
LEMMA BusyInv ==
  ASSUME IInv, TypeOK', NEW p \in Procs, cpu' = p, p \notin asleep,
         \A q \in asleep : call'[q] = call[q], UNCHANGED <<files, sleep>>
  PROVE  IInv'
<1>1. p # NoProc
  BY NoProcOK
<1>2. LoneSleeper' /\ NoMissedWakeup'
  BY <1>1 DEF IInv, LoneSleeper, NoMissedWakeup, sleep
<1> QED BY <1>2, CountsSame DEF IInv

-----------------------------------------------------------------------------
(* Each action keeps the invariant.  The calls begin, go on and end:       *)
LEMMA CallInv ==
  ASSUME IInv, NEW p \in Procs,
         \/ \E e \in Ends, n \in 1..MaxCount : sys_rw(p, e, n)
         \/ AllDone(p) \/ ReadEmpty(p) \/ WriteFull(p)
  PROVE  IInv'
<1>1. ASSUME NEW e \in Ends, NEW n \in 1..MaxCount, sys_rw(p, e, n) PROVE IInv'
  <2>1. TypeOK'
    BY <1>1, ConstantsOK DEF IInv, TypeOK, sys_rw, ring, files, sleep, Ends
  <2>2. p \notin asleep /\ call' = [call EXCEPT ![p] = e]
    BY <1>1 DEF sys_rw, Ready
  <2>3. \A q \in asleep : call'[q] = call[q]
    BY <2>2 DEF IInv, TypeOK
  <2> QED BY <1>1, <2>1, <2>2, <2>3, BusyInv, ZenonT(30) DEF sys_rw
<1>2. CASE AllDone(p)
  BY <1>2, ReturnInv DEF AllDone
<1>3. CASE ReadEmpty(p)
  BY <1>3, ReturnInv, NapInv DEF ReadEmpty
<1>4. CASE WriteFull(p)
  BY <1>4, ReturnInv, NapInv DEF WriteFull
<1> QED BY <1>1, <1>2, <1>3, <1>4

(* A process returns from sleep_on: there is no tmp to wake. *)
LEMMA ResumeInv == \A p \in Procs : IInv /\ Resume(p) => IInv'
<1> SUFFICES ASSUME NEW p \in Procs, IInv, Resume(p) PROVE IInv'
  OBVIOUS
<1>1. NoProc \notin asleep
  BY NoProcOK DEF IInv, TypeOK
<1>2. tmp[p] = NoProc /\ tmp \in [Procs -> Procs \cup {NoProc}]
  BY DEF IInv, LoneSleeper, TypeOK
<1>3. asleep' = asleep /\ tmp' = tmp
  BY <1>1, <1>2 DEF Resume
<1>4. TypeOK'
  BY <1>3 DEF IInv, TypeOK, Resume, ring, files
<1>5. UNCHANGED <<files, sleep>> /\ cpu' = p /\ p \notin asleep /\ call' = call
  BY <1>3 DEF Resume, sleep
<1> QED BY <1>4, <1>5, BusyInv

(* A chunk leaves the pipe. *)
LEMMA ReadInv == \A p \in Procs : IInv /\ read_pipe(p) => IInv'
<1> SUFFICES ASSUME NEW p \in Procs, IInv, read_pipe(p) PROVE IInv'
  OBVIOUS
<1>1. PIPE_SIZE \in 0..(Size - 1) /\ TypeOK
  BY SizeInRing DEF IInv
<1>2. PICK chars : chars = Lesser(Size - tail, Lesser(count[p], PIPE_SIZE))
  OBVIOUS
<1>3. Size \in Nat /\ Size > 1 /\ tail \in 0..(Size - 1) /\ count[p] \in 0..MaxCount /\ MaxCount \in Nat
  BY <1>1, ConstantsOK DEF TypeOK
<1>4. chars \in Nat /\ count[p] - chars \in 0..MaxCount
  BY <1>1, <1>2, <1>3 DEF Lesser
<1>5. tail + chars \in Nat
  BY <1>3, <1>4
<1>6. (tail + chars) % Size \in 0..(Size - 1)
  BY <1>3, <1>5
<1>7. tail' = (tail + chars) % Size /\ count' = [count EXCEPT ![p] = @ - chars]
  BY <1>2 DEF read_pipe
<1>8. TypeOK'
  <2>1. count' \in [Procs -> 0..MaxCount]
    BY <1>1, <1>4, <1>7 DEF TypeOK
  <2> QED BY <1>1, <1>6, <1>7, <2>1, ZenonT(40) DEF TypeOK, read_pipe, files, sleep
<1> QED BY <1>8, BusyInv DEF read_pipe, IInv, LoneSleeper

(* A chunk enters the pipe. *)
LEMMA WriteInv == \A p \in Procs : IInv /\ write_pipe(p) => IInv'
<1> SUFFICES ASSUME NEW p \in Procs, IInv, write_pipe(p) PROVE IInv'
  OBVIOUS
<1>1. PIPE_SIZE \in 0..(Size - 1) /\ TypeOK
  BY SizeInRing DEF IInv
<1>2. PICK chars : chars = Lesser(Size - head, Lesser(count[p], Size - 1 - PIPE_SIZE))
  OBVIOUS
<1>3. Size \in Nat /\ Size > 1 /\ head \in 0..(Size - 1) /\ count[p] \in 0..MaxCount /\ MaxCount \in Nat
  BY <1>1, ConstantsOK DEF TypeOK
<1>4. chars \in Nat /\ count[p] - chars \in 0..MaxCount
  BY <1>1, <1>2, <1>3 DEF Lesser
<1>5. head + chars \in Nat
  BY <1>3, <1>4
<1>6. (head + chars) % Size \in 0..(Size - 1)
  BY <1>3, <1>5
<1>7. /\ head' = (head + chars) % Size /\ count' = [count EXCEPT ![p] = @ - chars]
      /\ \E buf \in [1..chars -> Bytes] :
           page' = [i \in 0..(Size - 1) |->
                      IF i \in head..(head + chars - 1) THEN buf[i - head + 1] ELSE page[i]]
  BY <1>2, Zenon DEF write_pipe
<1>8. page' \in [0..(Size - 1) -> Bytes]
  <2>1. PICK buf \in [1..chars -> Bytes] :
           page' = [i \in 0..(Size - 1) |->
                      IF i \in head..(head + chars - 1) THEN buf[i - head + 1] ELSE page[i]]
    BY <1>7, Zenon
  <2>2. \A i \in head..(head + chars - 1) : i - head + 1 \in 1..chars
    BY <1>3, <1>4
  <2> QED BY <1>1, <2>1, <2>2 DEF TypeOK
<1>9. TypeOK'
  <2>1. count' \in [Procs -> 0..MaxCount]
    BY <1>1, <1>4, <1>7 DEF TypeOK
  <2> QED BY <1>1, <1>6, <1>7, <1>8, <2>1, ZenonT(40) DEF TypeOK, write_pipe, files, sleep
<1> QED BY <1>9, BusyInv DEF write_pipe, IInv, LoneSleeper

(* The processes with an end open are finitely many. *)
LEMMA HoldersFinite == \A e \in Ends : IsFiniteSet(Holders(e)) /\ Cardinality(Holders(e)) \in Nat
<1> TAKE e \in Ends
<1>1. Holders(e) \subseteq Procs /\ IsFiniteSet(Procs)
  BY ConstantsOK DEF Holders
<1>2. IsFiniteSet(Holders(e))
  BY <1>1, FS_Subset
<1> QED BY <1>2, FS_CardinalityType

(* pipe() makes a new pipe when the old one is gone. *)
LEMMA PipeInv == \A p \in Procs : IInv /\ sys_pipe(p) => IInv'
<1> SUFFICES ASSUME NEW p \in Procs, IInv, sys_pipe(p) PROVE IInv'
  OBVIOUS
<1>1. TypeOK'
  BY ConstantsOK DEF IInv, TypeOK, sys_pipe, sleep, Ends
<1>2. asleep = {}
  BY DEF IInv, NoMissedWakeup, sys_pipe, Ready
<1>3. LoneSleeper' /\ NoMissedWakeup'
  BY <1>2 DEF IInv, LoneSleeper, NoMissedWakeup, sys_pipe, sleep
<1>4. \A e \in Ends : Holders(e) = {}
  BY DEF IInv, CountsAgree, Open, Ends, sys_pipe
<1>5. \A e \in Ends : Holders(e)' = {p}
  BY <1>4 DEF IInv, TypeOK, Holders, sys_pipe
<1>6. \A e \in Ends : Cardinality(Holders(e)') = 1 /\ f_count'[e] = 1
  BY <1>5, FS_Singleton, Zenon DEF sys_pipe
<1>7. Open("read")' = 1 /\ Open("write")' = 1 /\ i_count' = 2
  BY <1>5 DEF Open, Ends, sys_pipe
<1>8. CountsAgree'
  BY <1>6, <1>7 DEF CountsAgree
<1> QED BY <1>1, <1>3, <1>8 DEF IInv

(* fork() gives a child another descriptor for each end. *)
LEMMA ForkInv == \A p, c \in Procs : IInv /\ fork(p, c) => IInv'
<1> SUFFICES ASSUME NEW p \in Procs, NEW c \in Procs, IInv, fork(p, c) PROVE IInv'
  OBVIOUS
<1>1. filp' = [filp EXCEPT ![c] = filp[p]] /\ c # p /\ filp[c] = {} /\ filp \in [Procs -> SUBSET Ends]
  BY DEF IInv, TypeOK, fork
<1>2. \A e \in Ends : f_count'[e] = f_count[e] + (IF e \in filp[p] THEN 1 ELSE 0)
  BY DEF fork
<1>3. \A e \in Ends : f_count[e] = Cardinality(Holders(e)) /\ f_count[e] \in Nat
  BY DEF IInv, TypeOK, CountsAgree
<1>4. f_count' \in [Ends -> Nat]
  BY <1>2, <1>3 DEF fork
<1>5. TypeOK'
  BY <1>1, <1>4, ZenonT(30) DEF IInv, TypeOK, fork, ring, sleep
<1>6. LoneSleeper' /\ NoMissedWakeup'
  BY DEF IInv, LoneSleeper, NoMissedWakeup, PIPE_SIZE, fork, sleep, ring
<1>7. ASSUME NEW e \in Ends, e \in filp[p]
      PROVE  f_count'[e] = Cardinality(Holders(e)') /\ Holders(e) # {} /\ Holders(e)' # {}
  <2>1. Holders(e)' = Holders(e) \cup {c} /\ c \notin Holders(e) /\ p \in Holders(e)
    BY <1>1, <1>7 DEF Holders
  <2>2. Cardinality(Holders(e) \cup {c}) = Cardinality(Holders(e)) + 1
    BY <2>1, HoldersFinite, FS_AddElement, Zenon
  <2> QED BY <1>2, <1>3, <1>7, <2>1, <2>2, ZenonT(30)
<1>8. ASSUME NEW e \in Ends, e \notin filp[p]
      PROVE  f_count'[e] = Cardinality(Holders(e)') /\ Holders(e)' = Holders(e)
  <2>1. Holders(e)' = Holders(e)
    BY <1>1, <1>8 DEF Holders
  <2> QED BY <1>2, <1>3, <1>8, <2>1
<1>9. \A e \in Ends : f_count'[e] = Cardinality(Holders(e)') /\ Open(e)' = Open(e)
  BY <1>7, <1>8 DEF Open
<1>10. CountsAgree'
  <2>1. Open("read")' = Open("read") /\ Open("write")' = Open("write") /\ i_count' = i_count
    BY <1>9 DEF Ends, fork
  <2> QED BY <1>9, <2>1 DEF IInv, CountsAgree
<1> QED BY <1>5, <1>6, <1>10 DEF IInv

(* close() wakes the sleeper when it changes i_count. *)
LEMMA CloseInv == \A p \in Procs, e \in Ends : IInv /\ sys_close(p, e) => IInv'
<1> SUFFICES ASSUME NEW p \in Procs, NEW e \in Ends, IInv, sys_close(p, e) PROVE IInv'
  OBVIOUS
<1>1. /\ filp' = [filp EXCEPT ![p] = @ \ {e}] /\ e \in filp[p] /\ filp \in [Procs -> SUBSET Ends]
      /\ f_count' = [f_count EXCEPT ![e] = @ - 1] /\ f_count \in [Ends -> Nat]
  BY DEF IInv, TypeOK, sys_close
<1>2. \A d \in Ends : f_count[d] = Cardinality(Holders(d))
  BY DEF IInv, CountsAgree
<1>3. Holders(e)' = Holders(e) \ {p} /\ p \in Holders(e)
  BY <1>1 DEF Holders
<1>4. \A d \in Ends : d # e => Holders(d)' = Holders(d)
  BY <1>1 DEF Holders
<1>5. Cardinality(Holders(e)') = Cardinality(Holders(e)) - 1
  BY <1>3, HoldersFinite, FS_RemoveElement, ZenonT(40)
<1>6. f_count[e] >= 1
  <2>1. Cardinality(Holders(e)') \in Nat
    BY <1>3, HoldersFinite, FS_RemoveElement, FS_CardinalityType
  <2> QED BY <1>1, <1>2, <1>5, <2>1, HoldersFinite
<1>7. \A d \in Ends : f_count'[d] = Cardinality(Holders(d)')
  BY <1>1, <1>2, <1>4, <1>5
<1>8. Holders(e)' = {} <=> f_count[e] = 1
  <2>1. IsFiniteSet(Holders(e)')
    BY <1>3, HoldersFinite, FS_RemoveElement
  <2>2. Holders(e)' = {} <=> Cardinality(Holders(e)') = 0
    BY <2>1, FS_EmptySet
  <2> QED BY <1>1, <1>2, <1>5, <1>6, <2>2
<1>9. Open(e) = 1 /\ Open(e)' = IF f_count[e] = 1 THEN 0 ELSE 1
  BY <1>3, <1>8 DEF Open
<1>10. \A d \in Ends : d # e => Open(d)' = Open(d)
  BY <1>4 DEF Open
<1>11. i_count = Open("read") + Open("write") /\ \A d \in Ends : Open(d) \in {0, 1}
  BY DEF IInv, CountsAgree, Open
<1>12. i_count' = IF f_count[e] = 1 THEN i_count - 1 ELSE i_count
  BY <1>6 DEF sys_close
<1>13. i_count' = Open("read")' + Open("write")' /\ i_count' \in 0..2
  <2>1. CASE e = "read"
    BY <1>9, <1>10, <1>11, <1>12, <2>1 DEF Ends
  <2>2. CASE e = "write"
    BY <1>9, <1>10, <1>11, <1>12, <2>2 DEF Ends
  <2> QED BY <2>1, <2>2 DEF Ends
<1>14. CountsAgree'
  BY <1>7, <1>13, ZenonT(30) DEF CountsAgree
<1>15. TypeOK'
  <2>1. f_count' \in [Ends -> Nat]
    BY <1>1, <1>6
  <2> QED BY <1>1, <1>13, <2>1 DEF IInv, TypeOK, sys_close, wake_up, ring, sleep
<1>16. LoneSleeper' /\ NoMissedWakeup'
  <2>1. CASE f_count[e] = 1
    <3>1. asleep' = {} /\ tmp' = tmp
      BY <2>1 DEF IInv, LoneSleeper, sys_close, wake_up
    <3> QED BY <3>1 DEF IInv, LoneSleeper, NoMissedWakeup, sys_close
  <2>2. CASE f_count[e] # 1
    <3>1. UNCHANGED <<i_count, sleep>>
      BY <2>2 DEF sys_close
    <3> QED BY <3>1 DEF IInv, LoneSleeper, NoMissedWakeup, PIPE_SIZE, sys_close, sleep, ring
  <2> QED BY <2>1, <2>2
<1> QED BY <1>14, <1>15, <1>16 DEF IInv

-----------------------------------------------------------------------------
(* Every step of every process keeps the invariant. *)
THEOREM NextInv == IInv /\ [Next]_vars => IInv'
<1> SUFFICES ASSUME IInv, [Next]_vars PROVE IInv'
  OBVIOUS
<1>1. ASSUME NEW p \in Procs, Step(p) PROVE IInv'
  <2>1. CASE sys_pipe(p) \/ Resume(p) \/ read_pipe(p) \/ write_pipe(p)
    BY <2>1, PipeInv, ResumeInv, ReadInv, WriteInv
  <2>2. CASE \/ \E e \in Ends, n \in 1..MaxCount : sys_rw(p, e, n)
             \/ AllDone(p) \/ ReadEmpty(p) \/ WriteFull(p)
    BY <2>2, CallInv
  <2>3. CASE (\E c \in Procs : fork(p, c)) \/ \E e \in Ends : sys_close(p, e)
    BY <2>3, ForkInv, CloseInv
  <2> QED BY <1>1, <2>1, <2>2, <2>3 DEF Step
<1>2. CASE UNCHANGED vars
  BY <1>2, ZenonT(40) DEF IInv, TypeOK, CountsAgree, Open, Holders, LoneSleeper, NoMissedWakeup,
              PIPE_SIZE, vars, ring, files, sleep
<1> QED BY <1>1, <1>2 DEF Next

(* The inductive invariant holds in every behaviour of the pipe. *)
THEOREM Invariance == Spec => []IInv
<1>1. Init => IInv
  BY InitInv
<1>2. IInv /\ [Next]_vars => IInv'
  BY NextInv
<1> QED BY <1>1, <1>2, PTL DEF Spec

(* The indices stay within the page, and the counts are never negative.    *)
THEOREM TypeCorrect == Spec => []TypeOK
<1>1. IInv => TypeOK
  BY DEF IInv
<1> QED BY <1>1, Invariance, PTL

(* The tests of i_count in read_pipe and write_pipe ask the right question.*)
THEOREM CountsCorrect == Spec => []CountsAgree
<1>1. IInv => CountsAgree
  BY DEF IInv
<1> QED BY <1>1, Invariance, PTL

(* read_pipe, write_pipe and close never leave a process asleep that could *)
(* go on.                                                                  *)
THEOREM WakeupsArrive == Spec => []NoMissedWakeup
<1>1. IInv => NoMissedWakeup
  BY DEF IInv
<1> QED BY <1>1, Invariance, PTL

-----------------------------------------------------------------------------
(* A process that is inside read() or write() still has that end open, so  *)
(* the abstract pipe counts it among the readers or writers.               *)
CallsHoldEnds == \A p \in Procs : call[p] \in Ends => call[p] \in filp[p]

(* The remainders that the indices of read_pipe and write_pipe meet: they  *)
(* are never more than one page beyond the page or one before it.          *)
LEMMA Remainder ==
  ASSUME NEW N \in Nat, N > 1, NEW x \in Int
  PROVE  /\ x >= 0 /\ x < N => x % N = x
         /\ x >= N /\ x < N + N => x % N = x - N
         /\ x < 0 /\ x >= -N => x % N = x + N
<1>1. x >= 0 /\ x < N => x % N = x
  OBVIOUS
<1>2. x >= N /\ x < N + N => x % N = x - N
  OBVIOUS
<1>3. x < 0 /\ x >= -N => x % N = x + N
  OBVIOUS
<1>4. QED
  BY <1>1, <1>2, <1>3

(* The remainder of an index that may be one page too far. *)
LEMMA Wrapped ==
  ASSUME NEW N \in Nat, N > 1, NEW x \in Int, x >= 0, x < N + N
  PROVE  x % N = IF x < N THEN x ELSE x - N
BY Remainder

(* How far the head is ahead of the tail. *)
LEMMA Ahead ==
  ASSUME NEW N \in Nat, N > 1, NEW h \in 0..(N - 1), NEW t \in 0..(N - 1)
  PROVE  (h - t) % N = IF h >= t THEN h - t ELSE h - t + N
<1>1. h \in Int /\ t \in Int /\ h - t \in Int /\ h >= 0 /\ t >= 0 /\ h < N /\ t < N
  OBVIOUS
<1>2. CASE h >= t
  BY <1>1, <1>2, Remainder
<1>3. CASE h < t
  BY <1>1, <1>3, Remainder
<1>4. QED
  BY <1>1, <1>2, <1>3

(* The ring of N cells: where an index comes after c steps, how many cells *)
(* are used between tail and head, and which cell is the i-th of them.     *)
Moved(N, x, c) == (x + c) % N
Used(N, h, t)  == (h - t) % N
Cell(N, t, i)  == (t + i - 1) % N

(* What read_pipe does to the ring when it takes c bytes that do not wrap  *)
(* around: they are the first ones, and the others are in their places.    *)
LEMMA ReadRing ==
  ASSUME NEW N \in Nat, N > 1, NEW h \in 0..(N - 1), NEW t \in 0..(N - 1),
         NEW c \in Nat, c <= N - t, c <= Used(N, h, t)
  PROVE  /\ Used(N, h, Moved(N, t, c)) = Used(N, h, t) - c
         /\ \A i \in 1..c : Cell(N, t, i) = t + i - 1
         /\ \A i \in 1..(Used(N, h, t) - c) : Cell(N, Moved(N, t, c), i) = Cell(N, t, c + i)
<1> DEFINE d == Used(N, h, t)
           u == Moved(N, t, c)
<1>1. /\ h \in Int /\ t \in Int /\ h >= 0 /\ t >= 0 /\ h < N /\ t < N /\ c <= d
      /\ d = IF h >= t THEN h - t ELSE h - t + N
  BY Ahead DEF Used
<1>2. u = IF t + c < N THEN t + c ELSE 0
  <2>1. PICK x \in Int : x = t + c
    BY <1>1
  <2>2. x >= 0 /\ x < N + N /\ (x < N \/ x = N)
    BY <1>1, <2>1
  <2>3. x % N = IF x < N THEN x ELSE x - N
    BY <2>2, Wrapped, ZenonT(30)
  <2>4. QED
    BY <1>1, <2>1, <2>2, <2>3 DEF Moved
<1>3. u \in 0..(N - 1)
  BY <1>1, <1>2
<1> HIDE DEF u, d
<1>4. Used(N, h, u) = IF h >= u THEN h - u ELSE h - u + N
  BY <1>3, Ahead DEF Used
<1>5. Used(N, h, u) = d - c
  BY <1>1, <1>2, <1>4
<1>6. ASSUME NEW i \in 1..c PROVE Cell(N, t, i) = t + i - 1
  <2>1. PICK x \in Int : x = t + i - 1
    BY <1>1
  <2>2. x >= 0 /\ x < N
    BY <1>1, <2>1
  <2>3. x % N = x
    BY <2>2, Remainder
  <2>4. QED
    BY <2>1, <2>3 DEF Cell
<1>7. ASSUME NEW i \in 1..(d - c) PROVE Cell(N, u, i) = Cell(N, t, c + i)
  <2>1. PICK x \in Int, y \in Int : x = u + i - 1 /\ y = t + (c + i) - 1
    BY <1>1, <1>3
  <2>2. CASE t + c < N
    <3>1. x = y
      BY <1>1, <1>2, <2>1, <2>2
    <3>2. QED
      BY <2>1, <3>1 DEF Cell
  <2>3. CASE t + c = N
    <3>1. x >= 0 /\ x < N /\ y = x + N /\ y >= N /\ y < N + N
      BY <1>1, <1>2, <2>1, <2>3
    <3>2. x % N = x /\ y % N = y - N
      BY <3>1, Remainder, Zenon
    <3>3. x % N = y % N
      BY <3>1, <3>2
    <3>4. QED
      BY <2>1, <3>3 DEF Cell
  <2>4. QED
    BY <1>1, <2>2, <2>3
<1>8. QED
  BY <1>5, <1>6, <1>7 DEF u, d

(* What write_pipe does to it when it adds c bytes: they are the last      *)
(* ones, and no byte that is in the pipe is overwritten.                   *)
LEMMA WriteRing ==
  ASSUME NEW N \in Nat, N > 1, NEW h \in 0..(N - 1), NEW t \in 0..(N - 1),
         NEW c \in Nat, c <= N - h, c <= N - 1 - Used(N, h, t)
  PROVE  /\ Used(N, Moved(N, h, c), t) = Used(N, h, t) + c
         /\ \A i \in 1..Used(N, h, t) : Cell(N, t, i) \notin h..(h + c - 1)
         /\ \A i \in 1..c : Cell(N, t, Used(N, h, t) + i) = h + i - 1
<1> DEFINE d == Used(N, h, t)
           u == Moved(N, h, c)
<1>1. /\ h \in Int /\ t \in Int /\ h >= 0 /\ t >= 0 /\ h < N /\ t < N /\ c <= N - 1 - d
      /\ d = IF h >= t THEN h - t ELSE h - t + N
  BY Ahead DEF Used
<1>2. u = IF h + c < N THEN h + c ELSE 0
  <2>1. PICK x \in Int : x = h + c
    BY <1>1
  <2>2. x >= 0 /\ x < N + N /\ (x < N \/ x = N)
    BY <1>1, <2>1
  <2>3. x % N = IF x < N THEN x ELSE x - N
    BY <2>2, Wrapped, Zenon
  <2>4. QED
    BY <1>1, <2>1, <2>2, <2>3 DEF Moved
<1>3. u \in 0..(N - 1)
  BY <1>1, <1>2
<1> HIDE DEF u, d
<1>4. Used(N, u, t) = IF u >= t THEN u - t ELSE u - t + N
  BY <1>3, Ahead DEF Used
<1>5. Used(N, u, t) = d + c
  BY <1>1, <1>2, <1>4
<1>6. ASSUME NEW i \in 1..d PROVE Cell(N, t, i) \notin h..(h + c - 1)
  <2>1. PICK x \in Int : x = t + i - 1
    BY <1>1
  <2>2. x >= 0 /\ x < N + N
    BY <1>1, <2>1
  <2>3. x % N = IF x < N THEN x ELSE x - N
    BY <2>2, Wrapped, Zenon
  <2>4. Cell(N, t, i) = IF x < N THEN x ELSE x - N
    BY <2>1, <2>3 DEF Cell
  <2>5. QED
    BY <1>1, <2>1, <2>4
<1>7. ASSUME NEW i \in 1..c PROVE Cell(N, t, d + i) = h + i - 1
  <2>1. PICK x \in Int, y \in Int : x = h + i - 1 /\ y = t + (d + i) - 1
    BY <1>1
  <2>2. x >= 0 /\ x < N /\ (y = x \/ y = x + N)
    BY <1>1, <2>1
  <2>3. y % N = x
    <3>1. CASE y = x
      BY <2>2, <3>1, Remainder
    <3>2. CASE y = x + N
      <4>1. y >= N /\ y < N + N /\ x = y - N
        BY <2>2, <3>2
      <4>2. QED
        BY <4>1, Remainder, Zenon
    <3>3. QED
      BY <2>2, <3>1, <3>2
  <2>4. QED
    BY <2>1, <2>3 DEF Cell
<1>8. QED
  BY <1>5, <1>6, <1>7 DEF u, d

(* The queue is a sequence of bytes, as long as the pipe is full. *)
LEMMA QueueType == TypeOK => Queue \in Seq(Bytes) /\ Len(Queue) = PIPE_SIZE
<1> SUFFICES ASSUME TypeOK PROVE Queue \in Seq(Bytes) /\ Len(Queue) = PIPE_SIZE
  OBVIOUS
<1>1. PIPE_SIZE \in Nat /\ Size \in Nat /\ Size > 1 /\ tail \in Int
  BY SizeInRing, ConstantsOK DEF TypeOK
<1>2. ASSUME NEW i \in 1..PIPE_SIZE PROVE page[(tail + i - 1) % Size] \in Bytes
  <2>1. tail + i - 1 \in Int
    BY <1>1
  <2>2. (tail + i - 1) % Size \in 0..(Size - 1)
    BY <1>1, <2>1
  <2>3. QED
    BY <2>2 DEF TypeOK
<1>3. Queue \in [1..PIPE_SIZE -> Bytes]
  BY <1>2 DEF Queue
<1>4. QED
  BY <1>1, <1>3, SeqDef

-----------------------------------------------------------------------------
(* Nobody is in a call at first. *)
LEMMA InitCallsHold == Init => CallsHoldEnds
  BY DEF Init, CallsHoldEnds, Ends

(* fork and close are calls of their own: a process that waits in read()   *)
(* or write() cannot lose the end it uses.                                 *)
LEMMA NextCallsHold == IInv /\ CallsHoldEnds /\ [Next]_vars => CallsHoldEnds'
<1> SUFFICES ASSUME IInv, CallsHoldEnds, [Next]_vars PROVE CallsHoldEnds'
  OBVIOUS
<1>1. call \in [Procs -> {"none", "read", "write"}] /\ filp \in [Procs -> SUBSET Ends]
  BY DEF IInv, TypeOK
<1>2. CASE UNCHANGED vars
  BY <1>2 DEF CallsHoldEnds, vars, files
<1>3. ASSUME NEW p \in Procs, Step(p) PROVE CallsHoldEnds'
  <2>1. CASE sys_pipe(p)
    BY <1>1, <2>1, ZenonT(30) DEF CallsHoldEnds, sys_pipe
  <2>2. CASE Resume(p) \/ read_pipe(p) \/ write_pipe(p)
    BY <2>2 DEF CallsHoldEnds, Resume, read_pipe, write_pipe, files
  <2>3. CASE AllDone(p) \/ ReadEmpty(p) \/ WriteFull(p)
    <3>1. filp' = filp /\ (call' = call \/ call' = [call EXCEPT ![p] = "none"])
      BY <2>3 DEF AllDone, ReadEmpty, WriteFull, Return, files
    <3>2. QED
      BY <1>1, <3>1 DEF CallsHoldEnds, Ends
  <2>4. ASSUME NEW c \in Procs, fork(p, c) PROVE CallsHoldEnds'
    BY <1>1, <2>4 DEF CallsHoldEnds, fork, Ready, Ends
  <2>5. ASSUME NEW e \in Ends, sys_close(p, e) PROVE CallsHoldEnds'
    BY <1>1, <2>5 DEF CallsHoldEnds, sys_close, Ready, Ends
  <2>6. ASSUME NEW e \in Ends, NEW n \in 1..MaxCount, sys_rw(p, e, n) PROVE CallsHoldEnds'
    BY <1>1, <2>6 DEF CallsHoldEnds, sys_rw, files
  <2>7. QED
    BY <1>3, <2>1, <2>2, <2>3, <2>4, <2>5, <2>6, ZenonT(30) DEF Step
<1>4. QED
  BY <1>2, <1>3 DEF Next

(* The process that runs in a call is a reader or a writer of the queue. *)
LEMMA CallerHolds ==
  ASSUME IInv, CallsHoldEnds, NEW p \in Procs
  PROVE  \A e \in Ends : call[p] = e => p \in Holders(e)
  BY DEF CallsHoldEnds, Holders

(* Steps that neither move a byte nor open or close an end are silent. *)
LEMMA SilentStep ==
  ASSUME UNCHANGED <<ring, files>>, Silent
  PROVE  Fifo!Drop
<1>1. Queue' = Queue
  BY DEF Queue, PIPE_SIZE, ring
<1>2. Holders("read")' = Holders("read") /\ Holders("write")' = Holders("write")
  BY DEF Holders, files
<1>3. QED
  BY <1>1, <1>2 DEF Fifo!Drop, Fifo!Silent, Silent

(* A chunk of read_pipe is the head of the queue, and the rest stays. *)
LEMMA ReadGets ==
  ASSUME IInv, CallsHoldEnds, NEW p \in Procs, read_pipe(p)
  PROVE  \E n \in 1..(Size - 1) : Fifo!Get(p, n)
<1>1. TypeOK /\ TypeOK' /\ PIPE_SIZE \in 0..(Size - 1)
  BY SizeInRing, ReadInv DEF IInv
<1>2. PICK c : c = Lesser(Size - tail, Lesser(count[p], PIPE_SIZE))
  OBVIOUS
<1>3. /\ Size \in Nat /\ Size > 1 /\ tail \in 0..(Size - 1) /\ head \in 0..(Size - 1)
      /\ count[p] \in 0..MaxCount /\ MaxCount \in Nat /\ PIPE_SIZE \in Nat
  BY <1>1, ConstantsOK DEF TypeOK
<1>4. /\ tail' = (tail + c) % Size /\ head' = head /\ page' = page /\ filp' = filp
      /\ event' = <<"bytes", p, [i \in 1..c |-> page[tail + i - 1]]>>
      /\ PIPE_SIZE # 0 /\ count[p] > 0 /\ call[p] = "read"
  BY <1>2 DEF read_pipe, files
<1>5. c \in 1..(Size - 1) /\ c <= Size - tail /\ c <= PIPE_SIZE
  <2>1. PICK m : m = Lesser(count[p], PIPE_SIZE)
    OBVIOUS
  <2>2. m \in Nat /\ m >= 1 /\ m <= PIPE_SIZE
    BY <1>3, <1>4, <2>1 DEF Lesser
  <2>3. QED
    BY <1>1, <1>2, <1>3, <2>1, <2>2 DEF Lesser
<1>6. /\ PIPE_SIZE' = PIPE_SIZE - c
      /\ \A i \in 1..c : Cell(Size, tail, i) = tail + i - 1
      /\ \A i \in 1..(PIPE_SIZE - c) : Cell(Size, tail', i) = Cell(Size, tail, c + i)
  <2>1. PIPE_SIZE = Used(Size, head, tail) /\ PIPE_SIZE' = Used(Size, head', tail')
    BY ZenonT(30) DEF PIPE_SIZE, Used
  <2>2. tail' = Moved(Size, tail, c) /\ head' = head /\ c \in Nat
    BY <1>4, <1>5 DEF Moved
  <2>3. QED
    BY <1>3, <1>5, <2>1, <2>2, ReadRing
<1>7. /\ Queue \in Seq(Bytes) /\ Len(Queue) = PIPE_SIZE
      /\ Queue' \in Seq(Bytes) /\ Len(Queue') = PIPE_SIZE'
  <2>1. (TypeOK => Queue \in Seq(Bytes) /\ Len(Queue) = PIPE_SIZE)'
    BY QueueType, PTL
  <2>2. QED
    BY <1>1, <2>1, QueueType
<1>8. /\ \A i \in 1..PIPE_SIZE : Queue[i] = page[Cell(Size, tail, i)]
      /\ \A i \in 1..PIPE_SIZE' : Queue'[i] = page[Cell(Size, tail', i)]
  BY <1>4 DEF Queue, Cell
<1>9. SubSeq(Queue, 1, c) = [i \in 1..c |-> page[tail + i - 1]]
  <2> DEFINE s == [i \in 1..c |-> page[tail + i - 1]]
  <2>1. \A i \in 1..c : i \in 1..PIPE_SIZE /\ Queue[i] = page[tail + i - 1] /\ Queue[i] \in Bytes
    BY <1>3, <1>5, <1>6, <1>7, <1>8, SMTT(40)
  <2>2. s \in [1..c -> Bytes] /\ \A i \in 1..c : s[i] = Queue[i]
    BY <2>1
  <2> HIDE DEF s
  <2>3. s \in Seq(Bytes) /\ Len(s) = c
    BY <1>5, <2>2, SeqDef
  <2>4. /\ SubSeq(Queue, 1, c) \in Seq(Bytes) /\ Len(SubSeq(Queue, 1, c)) = c
        /\ \A i \in 1..c : SubSeq(Queue, 1, c)[i] = Queue[i]
    BY <1>3, <1>5, <1>7
  <2>5. SubSeq(Queue, 1, c) = s
    BY <2>2, <2>3, <2>4, SeqEqual, ZenonT(30)
  <2>6. QED
    BY <2>5 DEF s
<1>10. Queue' = SubSeq(Queue, c + 1, Len(Queue))
  <2> DEFINE s == SubSeq(Queue, c + 1, Len(Queue))
  <2>1. /\ s \in Seq(Bytes) /\ Len(s) = PIPE_SIZE - c
        /\ \A i \in 1..(PIPE_SIZE - c) : s[i] = Queue[c + i]
    <3>1. \A i \in (c + 1)..PIPE_SIZE : Queue[i] \in Bytes
      BY <1>3, <1>5, <1>7
    <3>2. c + 1 \in Int /\ PIPE_SIZE \in Int /\ PIPE_SIZE - (c + 1) + 1 = PIPE_SIZE - c
      BY <1>3, <1>5
    <3>3. /\ s \in Seq(Bytes)
          /\ Len(s) = IF c + 1 <= PIPE_SIZE THEN PIPE_SIZE - (c + 1) + 1 ELSE 0
          /\ \A i \in 1..(PIPE_SIZE - (c + 1) + 1) : s[i] = Queue[(c + 1) + i - 1]
      <4>1. s = SubSeq(Queue, c + 1, PIPE_SIZE)
        BY <1>7
      <4> HIDE DEF s
      <4>2. QED
        BY <3>1, <3>2, <4>1, SubSeqProperties
    <3> HIDE DEF s
    <3>4. \A i \in 1..(PIPE_SIZE - c) : (c + 1) + i - 1 = c + i
      BY <1>3, <1>5
    <3>5. \A i \in 1..(PIPE_SIZE - c) : s[i] = Queue[c + i]
      BY <3>2, <3>3, <3>4, ZenonT(30)
    <3>6. Len(s) = IF c + 1 <= PIPE_SIZE THEN PIPE_SIZE - (c + 1) + 1 ELSE 0
      BY <3>3
    <3>7. Len(s) = PIPE_SIZE - c
      BY <1>3, <1>5, <3>6
    <3>8. QED
      BY <3>3, <3>5, <3>7, ZenonT(30)
  <2>2. \A i \in 1..(PIPE_SIZE - c) : c + i \in 1..PIPE_SIZE
    BY <1>3, <1>5
  <2> HIDE DEF s
  <2>3. \A i \in 1..(PIPE_SIZE - c) : s[i] = Queue'[i]
    BY <1>6, <1>8, <2>1, <2>2, ZenonT(30)
  <2>4. s = Queue'
    BY <1>6, <1>7, <2>1, <2>3, SeqEqual, ZenonT(30)
  <2>5. QED
    BY <2>4 DEF s
<1>11. /\ p \in Holders("read")
       /\ Holders("read")' = Holders("read") /\ Holders("write")' = Holders("write")
  BY <1>4, CallerHolds, ZenonT(30) DEF Ends, Holders
<1>12. Fifo!Get(p, c)
  BY <1>4, <1>5, <1>7, <1>9, <1>10, <1>11, ZenonT(30) DEF Fifo!Get
<1>13. QED
  BY <1>5, <1>12

(* A chunk of write_pipe goes to the end of the queue and fits. *)
LEMMA WritePuts ==
  ASSUME IInv, CallsHoldEnds, NEW p \in Procs, write_pipe(p)
  PROVE  \E n \in 1..(Size - 1) : \E s \in [1..n -> Bytes] : Fifo!Put(p, s)
<1>1. TypeOK /\ TypeOK' /\ PIPE_SIZE \in 0..(Size - 1)
  BY SizeInRing, WriteInv DEF IInv
<1>2. PICK c : c = Lesser(Size - head, Lesser(count[p], Size - 1 - PIPE_SIZE))
  OBVIOUS
<1>3. /\ Size \in Nat /\ Size > 1 /\ tail \in 0..(Size - 1) /\ head \in 0..(Size - 1)
      /\ count[p] \in 0..MaxCount /\ MaxCount \in Nat /\ PIPE_SIZE \in Nat
  BY <1>1, ConstantsOK DEF TypeOK
<1>4. /\ head' = (head + c) % Size /\ tail' = tail /\ filp' = filp /\ Silent
      /\ \E buf \in [1..c -> Bytes] :
           page' = [i \in 0..(Size - 1) |->
                      IF i \in head..(head + c - 1) THEN buf[i - head + 1] ELSE page[i]]
      /\ Size - 1 - PIPE_SIZE # 0 /\ count[p] > 0 /\ call[p] = "write"
  BY <1>2, Zenon DEF write_pipe, files
<1>5. c \in 1..(Size - 1) /\ c <= Size - head /\ c <= Size - 1 - PIPE_SIZE
  <2>1. PICK m : m = Lesser(count[p], Size - 1 - PIPE_SIZE)
    BY ZenonT(30)
  <2>2. m \in Nat /\ m >= 1 /\ m <= Size - 1 - PIPE_SIZE
    BY <1>1, <1>3, <1>4, <2>1 DEF Lesser
  <2>3. QED
    BY <1>1, <1>2, <1>3, <2>1, <2>2 DEF Lesser
<1>6. /\ PIPE_SIZE' = PIPE_SIZE + c
      /\ \A i \in 1..PIPE_SIZE : Cell(Size, tail, i) \notin head..(head + c - 1)
      /\ \A i \in 1..c : Cell(Size, tail, PIPE_SIZE + i) = head + i - 1
  <2>1. PIPE_SIZE = Used(Size, head, tail) /\ PIPE_SIZE' = Used(Size, head', tail')
    BY DEF PIPE_SIZE, Used
  <2>2. head' = Moved(Size, head, c) /\ tail' = tail /\ c \in Nat
    <3>1. c \in Nat
      BY <1>5
    <3>2. QED
      BY <1>4, <3>1, ZenonT(40) DEF Moved
  <2>3. QED
    BY <1>3, <1>5, <2>1, <2>2, WriteRing
<1>7. /\ Queue \in Seq(Bytes) /\ Len(Queue) = PIPE_SIZE
      /\ Queue' \in Seq(Bytes) /\ Len(Queue') = PIPE_SIZE'
  <2>1. (TypeOK => Queue \in Seq(Bytes) /\ Len(Queue) = PIPE_SIZE)'
    BY QueueType, PTL
  <2>2. QED
    BY <1>1, <2>1, QueueType
<1>8. /\ \A i \in 1..PIPE_SIZE : Queue[i] = page[Cell(Size, tail, i)]
      /\ \A i \in 1..PIPE_SIZE' : Queue'[i] = page'[Cell(Size, tail, i)]
  BY <1>4 DEF Queue, Cell
<1>9. PICK buf \in [1..c -> Bytes] :
           page' = [i \in 0..(Size - 1) |->
                      IF i \in head..(head + c - 1) THEN buf[i - head + 1] ELSE page[i]]
  BY <1>4, ZenonT(40)
<1>10. buf \in Seq(Bytes) /\ Len(buf) = c
  BY <1>5, SeqDef
<1>11. ASSUME NEW i \in 1..PIPE_SIZE PROVE i \in 1..PIPE_SIZE' /\ Queue'[i] = Queue[i]
  <2>1. i \in 1..PIPE_SIZE' /\ tail + i - 1 \in Int
    BY <1>3, <1>5, <1>6
  <2>2. Cell(Size, tail, i) \in 0..(Size - 1)
    BY <1>3, <2>1 DEF Cell
  <2>3. page'[Cell(Size, tail, i)] = page[Cell(Size, tail, i)]
    BY <1>6, <1>9, <2>2, ZenonT(30)
  <2>4. QED
    BY <1>8, <2>1, <2>3, ZenonT(30)
<1>12. ASSUME NEW i \in 1..c
       PROVE  PIPE_SIZE + i \in 1..PIPE_SIZE' /\ Queue'[PIPE_SIZE + i] = buf[i]
  <2>1. PIPE_SIZE + i \in 1..PIPE_SIZE'
    BY <1>3, <1>5, <1>6
  <2>2. /\ head + i - 1 \in 0..(Size - 1) /\ head + i - 1 \in head..(head + c - 1)
        /\ (head + i - 1) - head + 1 = i
    BY <1>3, <1>5
  <2>3. page'[head + i - 1] = buf[i]
    BY <1>9, <2>2, ZenonT(30)
  <2>4. QED
    BY <1>6, <1>8, <2>1, <2>3, ZenonT(30)
<1>13. Queue' = Queue \o buf
  <2>1. /\ Queue \o buf \in Seq(Bytes) /\ Len(Queue \o buf) = PIPE_SIZE + c
        /\ \A i \in 1..(PIPE_SIZE + c) :
             (Queue \o buf)[i] = IF i <= PIPE_SIZE THEN Queue[i] ELSE buf[i - PIPE_SIZE]
    BY <1>7, <1>10, ConcatProperties, ZenonT(30)
  <2>2. ASSUME NEW i \in 1..(PIPE_SIZE + c) PROVE Queue'[i] = (Queue \o buf)[i]
    <3>1. CASE i <= PIPE_SIZE
      BY <1>3, <1>5, <1>11, <2>1, <3>1
    <3>2. CASE ~(i <= PIPE_SIZE)
      <4>1. PICK j \in 1..c : i = PIPE_SIZE + j /\ j = i - PIPE_SIZE
        BY <1>3, <1>5, <3>2
      <4>2. QED
        BY <1>12, <2>1, <3>2, <4>1, ZenonT(30)
    <3>3. QED
      BY <3>1, <3>2, ZenonT(40)
  <2>3. QED
    BY <1>6, <1>7, <2>1, <2>2, SeqEqual, ZenonT(30)
<1>14. /\ p \in Holders("write")
       /\ Holders("read")' = Holders("read") /\ Holders("write")' = Holders("write")
  BY <1>4, CallerHolds DEF Ends, Holders
<1>15. Len(Queue) + Len(buf) <= Size - 1
  <2>1. PIPE_SIZE + c <= Size - 1
    BY <1>3, <1>5
  <2>2. QED
    BY <1>7, <1>10, <2>1, ZenonT(40)
<1>16. Fifo!Put(p, buf)
  BY <1>4, <1>13, <1>14, <1>15, ZenonT(30) DEF Fifo!Put, Fifo!Silent, Silent
<1>17. QED
  BY <1>5, <1>16, ZenonT(30)

(* pipe() makes the queue anew, for one process. *)
LEMMA PipeCreates ==
  ASSUME IInv, NEW p \in Procs, sys_pipe(p)
  PROVE  Fifo!Create(p)
<1>1. \A e \in Ends : Holders(e) = {}
  BY DEF IInv, CountsAgree, Open, Ends, sys_pipe
<1>2. \A e \in Ends : Holders(e)' = {p}
  BY <1>1 DEF IInv, TypeOK, Holders, sys_pipe
<1>3. PIPE_SIZE' = 0
  BY ConstantsOK, Remainder DEF sys_pipe, PIPE_SIZE
<1>4. Queue' = <<>>
  <2>1. (TypeOK => Queue \in Seq(Bytes) /\ Len(Queue) = PIPE_SIZE)'
    BY QueueType, PTL
  <2>2. TypeOK'
    BY PipeInv DEF IInv
  <2>3. QED
    BY <1>3, <2>1, <2>2, EmptySeq
<1>5. QED
  BY <1>1, <1>2, <1>4, ZenonT(30) DEF Fifo!Create, Fifo!Silent, Silent, Ends, sys_pipe

(* fork() makes the child a reader or writer when its father is one. *)
LEMMA ForkInherits ==
  ASSUME IInv, NEW p \in Procs, NEW c \in Procs, fork(p, c)
  PROVE  Fifo!Inherit(p, c)
<1>1. filp' = [filp EXCEPT ![c] = filp[p]] /\ filp[c] = {} /\ filp \in [Procs -> SUBSET Ends]
  BY DEF IInv, TypeOK, fork
<1>2. \A e \in Ends : Holders(e)' = IF p \in Holders(e) THEN Holders(e) \cup {c} ELSE Holders(e)
  BY <1>1 DEF Holders
<1>3. Queue' = Queue
  BY DEF Queue, PIPE_SIZE, ring, fork
<1>4. QED
  BY <1>2, <1>3, ZenonT(30) DEF Fifo!Inherit, Fifo!Silent, Silent, Ends, fork

(* close() only takes a reader or a writer away. *)
LEMMA CloseDrops ==
  ASSUME IInv, NEW p \in Procs, NEW e \in Ends, sys_close(p, e)
  PROVE  Fifo!Drop
<1>1. \A d \in Ends : Holders(d)' \subseteq Holders(d)
  BY DEF IInv, TypeOK, Holders, sys_close
<1>2. Queue' = Queue
  BY DEF Queue, PIPE_SIZE, ring, sys_close
<1>3. QED
  BY <1>1, <1>2, ZenonT(30) DEF Fifo!Drop, Fifo!Silent, Silent, Ends, sys_close

(* A call on an empty or a full pipe that returns at once: i_count tells   *)
(* the truth, nobody has the other end open.                               *)
LEMMA OtherEndGone ==
  ASSUME IInv, CallsHoldEnds, NEW p \in Procs, i_count # 2
  PROVE  /\ call[p] = "read"  => p \in Holders("read") /\ Holders("write") = {}
         /\ call[p] = "write" => p \in Holders("write") /\ Holders("read") = {}
<1>1. Open("read") + Open("write") # 2
  BY DEF IInv, CountsAgree
<1>2. Holders("read") = {} \/ Holders("write") = {}
  BY <1>1 DEF Open
<1>3. QED
  BY <1>2, CallerHolds DEF Ends

(* read() on an empty pipe: the end of the file, or a nap nobody sees. *)
LEMMA ReadEnds ==
  ASSUME IInv, CallsHoldEnds, NEW p \in Procs, ReadEmpty(p)
  PROVE  Fifo!End(p) \/ Fifo!Drop
<1>1. CASE Silent
  BY <1>1, SilentStep DEF ReadEmpty
<1>2. CASE i_count # 2 /\ event' = <<"end", p>>
  <2>1. Queue' = Queue /\ \A d \in Ends : Holders(d)' = Holders(d)
    BY DEF Queue, PIPE_SIZE, Holders, ring, files, ReadEmpty
  <2>2. Queue = <<>>
    BY QueueType, EmptySeq, ZenonT(30) DEF IInv, ReadEmpty
  <2>3. p \in Holders("read") /\ Holders("write") = {}
    BY <1>2, OtherEndGone, ZenonT(30) DEF ReadEmpty
  <2>4. QED
    BY <1>2, <2>1, <2>2, <2>3, ZenonT(30) DEF Fifo!End, Ends
<1>3. QED
  BY <1>1, <1>2 DEF ReadEmpty

(* write() on a full pipe: SIGPIPE, or a nap nobody sees. *)
LEMMA WriteBreaks ==
  ASSUME IInv, CallsHoldEnds, NEW p \in Procs, WriteFull(p)
  PROVE  Fifo!Broken(p) \/ Fifo!Drop
<1>1. CASE Silent
  BY <1>1, SilentStep DEF WriteFull
<1>2. CASE i_count # 2 /\ event' = <<"broken", p>>
  <2>1. Queue' = Queue /\ \A d \in Ends : Holders(d)' = Holders(d)
    BY DEF Queue, PIPE_SIZE, Holders, ring, files, WriteFull
  <2>2. p \in Holders("write") /\ Holders("read") = {}
    BY <1>2, OtherEndGone DEF WriteFull
  <2>3. QED
    BY <1>2, <2>1, <2>2, ZenonT(30) DEF Fifo!Broken, Ends
<1>3. QED
  BY <1>1, <1>2, ZenonT(30) DEF WriteFull

-----------------------------------------------------------------------------
(* Every step of a process is a step of the queue. *)
LEMMA StepRefines == IInv /\ CallsHoldEnds /\ [Next]_vars => [Fifo!Next]_(Fifo!vars)
<1> SUFFICES ASSUME IInv, CallsHoldEnds, [Next]_vars PROVE Fifo!Next \/ UNCHANGED Fifo!vars
  OBVIOUS
<1>1. CASE UNCHANGED vars
  BY <1>1 DEF vars, ring, files, Fifo!vars, Queue, PIPE_SIZE, Holders
<1>2. ASSUME NEW p \in Procs, Step(p) PROVE Fifo!Next
  <2>1. CASE sys_pipe(p)
    BY <2>1, PipeCreates, ZenonT(30) DEF Fifo!Next
  <2>2. CASE Resume(p) \/ AllDone(p)
    BY <2>2, SilentStep DEF Resume, AllDone, Fifo!Next
  <2>3. CASE read_pipe(p)
    BY <2>3, ReadGets DEF Fifo!Next
  <2>4. CASE write_pipe(p)
    BY <2>4, WritePuts DEF Fifo!Next
  <2>5. CASE ReadEmpty(p)
    BY <2>5, ReadEnds DEF Fifo!Next
  <2>6. CASE WriteFull(p)
    BY <2>6, WriteBreaks DEF Fifo!Next
  <2>7. ASSUME NEW c \in Procs, fork(p, c) PROVE Fifo!Next
    BY <2>7, ForkInherits DEF Fifo!Next
  <2>8. ASSUME NEW e \in Ends, sys_close(p, e) PROVE Fifo!Next
    BY <2>8, CloseDrops, ZenonT(30) DEF Fifo!Next
  <2>9. ASSUME NEW e \in Ends, NEW n \in 1..MaxCount, sys_rw(p, e, n) PROVE Fifo!Next
    BY <2>9, SilentStep DEF sys_rw, Fifo!Next
  <2>10. QED
    BY <1>2, <2>1, <2>2, <2>3, <2>4, <2>5, <2>6, <2>7, <2>8, <2>9, ZenonT(30) DEF Step
<1>3. QED
  BY <1>1, <1>2 DEF Next

(* Nothing is in the pipe at first. *)
LEMMA InitRefines == Init => Fifo!Init
<1> SUFFICES ASSUME Init PROVE Fifo!Init
  OBVIOUS
<1>1. PIPE_SIZE = 0 /\ TypeOK
  BY ConstantsOK, Remainder, InitInv DEF Init, PIPE_SIZE, IInv
<1>2. Queue = <<>>
  BY <1>1, QueueType, EmptySeq
<1>3. QED
  BY <1>2 DEF Init, Fifo!Init, Fifo!Silent, Holders

(* The ring buffer, its indices and the reference counts implement the     *)
(* queue of bytes: what writers put in comes out once and in order, the    *)
(* end of the file means that no writer is left and every byte was read,   *)
(* and SIGPIPE that no reader is left.                                     *)
THEOREM PipeIsFifo == Spec => IsFifo
<1>1. Init => Fifo!Init /\ IInv /\ CallsHoldEnds
  BY InitRefines, InitInv, InitCallsHold
<1>2. IInv /\ CallsHoldEnds /\ [Next]_vars => (IInv /\ CallsHoldEnds)'
  BY NextInv, NextCallsHold
<1>3. IInv /\ CallsHoldEnds /\ [Next]_vars => [Fifo!Next]_(Fifo!vars)
  BY StepRefines
<1>4. QED
  BY <1>1, <1>2, <1>3, PTL DEF Spec, IsFifo, Fifo!Spec
=============================================================================
