-------------------------- MODULE BufferCacheProofs --------------------------
(***************************************************************************)
(* What holds of the buffer cache for any number of tasks, buffers and     *)
(* requests: no block is in two buffers, a lock has one owner, b_count is  *)
(* the number of users, nobody sleeps on buffer_wait with nobody to wake   *)
(* it, and what readers get of a block changes only when a task changes    *)
(* it.  BufferSteps has the inductive invariant and one lemma per action;  *)
(* here are the facts about finite sets those lemmas assume, the initial   *)
(* state, and the theorems.                                                *)
(***************************************************************************)
EXTENDS BufferSteps, FiniteSetTheorems

USE ConstantsOK DEF NULL

(* The least place, which find_buffer, getblk and add_request stop at,     *)
(* exists.                                                                 *)
LEMMA LeastExists ==
  ASSUME NEW S \in SUBSET Nat, S # {}
  PROVE  Min(S) \in S /\ \A y \in S : Min(S) <= y
<1>1. \E x \in S : \A y \in S : ~(<<y, x>> \in OpToRel(<, Nat))
  BY NatLessThanWellFounded, WFMin
<1>2. \A x, y \in Nat : y < x => <<y, x>> \in OpToRel(<, Nat)
  BY DEF OpToRel
<1>3. \E x \in S : \A y \in S : x <= y
  <2>1. PICK x \in S : \A y \in S : ~(<<y, x>> \in OpToRel(<, Nat))
    BY <1>1
  <2>2. \A y \in S : ~(y < x)
    BY <2>1, <1>2
  <2>3. \A y \in S : x <= y
    BY <2>2
  <2> QED  BY <2>3
<1> QED  BY <1>3, Zenon DEF Min

(* The last free request, where make_request starts to look, exists. *)
LEMMA LastExists ==
  ASSUME NEW n \in Nat, NEW S \in SUBSET (0..n), S # {}
  PROVE  Max(S) \in S
<1> DEFINE T == {n - x : x \in S}
<1>1. \A x \in S : x \in Nat /\ n - x \in Nat
  OBVIOUS
<1>2. T \in SUBSET Nat /\ T # {}
  <2>1. PICK x : x \in S
    OBVIOUS
  <2>2. n - x \in T
    BY <2>1
  <2> QED  BY <1>1, <2>2
<1>3. PICK m \in T : \A y \in T : ~(<<y, m>> \in OpToRel(<, Nat))
  BY <1>2, NatLessThanWellFounded, WFMin
<1>4. PICK x \in S : m = n - x
  BY <1>3
<1>5. ASSUME NEW y \in S PROVE x >= y
  <2>1. n - y \in T
    OBVIOUS
  <2>2. ~(n - y < m)
    <3>1. \A a, b \in Nat : a < b => <<a, b>> \in OpToRel(<, Nat)
      BY DEF OpToRel
    <3> QED  BY <2>1, <1>2, <1>3, <3>1
  <2> QED  BY <2>2, <1>4, <1>1
<1> QED  BY <1>5, Zenon DEF Max

(* The tasks that have a buffer can be counted; there are none exactly     *)
(* when nobody has it.                                                     *)
LEMMA UsersCounted ==
  ASSUME NEW f, NEW b
  PROVE  Users(f, b) \in Nat /\ (Users(f, b) = 0 <=> \A u \in Tasks : f[u] # b)
<1> DEFINE F == {u \in Tasks : f[u] = b}
<1>1. IsFiniteSet(F)
  BY FS_Subset
<1>2. Cardinality(F) \in Nat /\ (Cardinality(F) = 0 <=> F = {})
  BY <1>1, FS_CardinalityType, FS_EmptySet
<1>3. F = {} <=> \A u \in Tasks : f[u] # b
  OBVIOUS
<1> QED  BY <1>2, <1>3, Zenon DEF Users

(* One task more or less that has a buffer. *)
LEMMA UsersChanged ==
  ASSUME NEW f, NEW g, NEW b, NEW t \in Tasks, SameBut(f, g, t)
  PROVE  Moved(f, g, t, b)
<1> DEFINE F == {u \in Tasks : f[u] = b}
           G == {u \in Tasks : g[u] = b}
           C == {u \in Tasks \ {t} : f[u] = b}
<1>1. IsFiniteSet(F) /\ IsFiniteSet(C)
  BY FS_Subset
<1>2. Cardinality(F) \in Nat /\ Cardinality(C) \in Nat
  BY <1>1, FS_CardinalityType
<1>3. Cardinality(C \cup {t}) = Cardinality(C) + 1
  BY <1>1, FS_AddElement
<1>4. F = (IF f[t] = b THEN C \cup {t} ELSE C) /\ G = (IF g[t] = b THEN C \cup {t} ELSE C)
  <2>1. F = IF f[t] = b THEN C \cup {t} ELSE C
    OBVIOUS
  <2>2. G = IF g[t] = b THEN C \cup {t} ELSE C
    BY DEF SameBut
  <2> QED  BY <2>1, <2>2, Zenon
<1> DEFINE nF == Cardinality(F)  nG == Cardinality(G)  nC == Cardinality(C)
<1>5. nF = IF f[t] = b THEN nC + 1 ELSE nC
  BY <1>3, <1>4, Zenon
<1>6. nG = IF g[t] = b THEN nC + 1 ELSE nC
  BY <1>3, <1>4, Zenon
<1> HIDE DEF nF, nG, nC
<1>7. nC \in Nat /\ nF \in Nat
  BY <1>2 DEF nC, nF
<1>8. nG = nF + (In(g[t], b) - In(f[t], b))
  BY <1>5, <1>6, <1>7, SMTT(30) DEF In
<1> QED  BY <1>7, <1>8, Zenon DEF nF, nG, Users, Moved

(* The tasks in breada, each with one buffer, do not have all the buffers. *)
LEMMA OneIsLeft ==
  ASSUME NEW f
  PROVE  \E b \in Buffers : \A u \in Tasks : "ahead" \in Ops[u] => f[u] # b
<1> SUFFICES ASSUME \A b \in Buffers : \E u \in Tasks : "ahead" \in Ops[u] /\ f[u] = b
             PROVE  FALSE
  OBVIOUS
<1> DEFINE A == {u \in Tasks : "ahead" \in Ops[u]}
           B == {u \in A : f[u] \in Buffers}
           h == [u \in B |-> f[u]]
<1>1. \A b \in Buffers : \E u \in A : f[u] = b
  BY Zenon
<1>2. IsFiniteSet(A)
  BY FS_Subset
<1>3. IsFiniteSet(B) /\ Cardinality(B) <= Cardinality(A)
  BY <1>2, FS_Subset
<1>4. h \in Surjection(B, Buffers)
  <2>1. h \in [B -> Buffers]
    OBVIOUS
  <2>2. \A b \in Buffers : \E u \in B : h[u] = b
    BY <1>1
  <2> QED  BY <2>1, <2>2, Zenon DEF Surjection
<1>5. PICK g : g = h
  OBVIOUS
<1>6. PICK C : C = B
  OBVIOUS
<1>7. Cardinality(Buffers) <= Cardinality(C)
  BY <1>3, <1>4, <1>5, <1>6, FS_Surjection
<1>8. Cardinality(Buffers) = NR_BUFFERS
  BY FS_Interval, SMTT(30) DEF Buffers
<1>9. Cardinality(A) \in Nat /\ Cardinality(C) \in Nat
  BY <1>2, <1>3, <1>6, FS_CardinalityType
<1> QED  BY <1>3, <1>6, <1>7, <1>8, <1>9, EnoughBuffers, SMTT(30)

(* The facts about finite sets that the steps rest on hold. *)
LEMMA CountingHolds == Counting
<1>1. Least
  BY LeastExists, Zenon DEF Least
<1>2. NR_REQUEST \in Nat
  OBVIOUS
<1>3. Last
  BY <1>2, LastExists, Zenon DEF Last
<1>4. Counted
  BY UsersCounted, Zenon DEF Counted
<1>5. Recounting
  BY UsersChanged, Zenon DEF Recounting
<1>6. OneLeft
  BY OneIsLeft, Zenon DEF OneLeft
<1> QED  BY <1>1, <1>3, <1>4, <1>5, <1>6, Zenon DEF Counting

-----------------------------------------------------------------------------
(* The theorems. *)

(* buffer_init, blk_dev_init, rd_init and hd_init make a state in which    *)
(* every buffer is free, without a name and unlocked, and no request is    *)
(* pending.                                                                *)
LEMMA InitInv == Init => Inv
<1> SUFFICES ASSUME Init PROVE Inv
  OBVIOUS
<1> USE DEF Init
<1>1. HeadsOK
  BY SMTT(30) DEF HeadsOK, NoKey
<1>2. DriveOK
  <2>1. Idle \in ARequest
    BY SMTT(30) DEF Idle, ARequest, READ, WRITE
  <2>2. request \in [Slots -> ARequest]
    BY <2>1, Zenon
  <2>3. disk \in [Stored -> Values \X Values]
    <3>1. <<Blank, Blank>> \in Values \X Values
      OBVIOUS
    <3> QED  BY <3>1, Zenon
  <2> QED  BY <2>2, <2>3, SMTT(30) DEF DriveOK, HdPlaces
<1>3. TasksOK
  <2>1. NoIo \in [rw : {READ, WRITE, READA}, bh : Buffers \cup {NULL}, ret : Places]
    BY SMTT(30) DEF NoIo, READ, WRITE, READA, Places
  <2>2. [dev |-> NULL, pass |-> 2, next |-> 1] \in
          [dev : 0..3, pass : 1..2, next : 1..NR_BUFFERS + 1]
    BY SMTT(30)
  <2>3. /\ io \in [Tasks -> [rw : {READ, WRITE, READA}, bh : Buffers \cup {NULL}, ret : Places]]
        /\ scan \in [Tasks -> [dev : 0..3, pass : 1..2, next : 1..NR_BUFFERS + 1]]
    BY <2>1, <2>2, Zenon
  <2>4. ahead \in [Tasks -> 0..Ahead]
    BY SMTT(30)
  <2> QED  BY <2>3, <2>4, Zenon DEF TasksOK, Places, Operations
<1>4. \A t \in Tasks : /\ pc[t] = "user" /\ op[t] = "read" /\ bh[t] = NULL /\ first[t] = NULL
                       /\ Site(t) = "user" /\ Holds(t) = NULL
  BY Zenon DEF Site, Holds
<1>5. Control
  <2>1. ASSUME NEW t \in Tasks PROVE ControlOf(t)
    BY <1>4, Zenon DEF ControlOf, BuffersOf, CallOf, InCall, IoOf, KeysOf, AwakeOf
  <2> QED  BY <2>1, Zenon DEF Control
<1>6. \A s \in Slots : request[s] = Idle /\ request[s].bh = NULL
  BY SMTT(30) DEF Idle
<1>7. Locks
  <2>1. ASSUME NEW b \in Buffers PROVE LocksOf(b)
    <3>1. (\A t \in Tasks : ~Asks(t, b)) /\ (\A s \in Slots : ~Serves(s, b))
      BY <1>4, <1>6, Constants, Zenon DEF Asks, Serves
    <3>2. ~b_lock[b]
      BY Zenon
    <3> QED  BY <3>1, <3>2, Zenon DEF LocksOf
  <2> QED  BY <2>1, Zenon DEF Locks
<1>8. Names
  <2>1. free_list \in Seq(Buffers) /\ DOMAIN free_list = Buffers
    BY SMTT(30) DEF Buffers
  <2>2. \A b \in Buffers : free_list[b] = b
    BY Zenon
  <2>3. Once(free_list) /\ \A b \in Buffers : On(free_list, b)
    BY <2>1, <2>2, Zenon DEF Once, On
  <2>4. << >> \in Seq(Buffers) /\ Once(<< >>) /\ \A b : ~On(<< >>, b)
    BY SMTT(30) DEF Once, On
  <2>5. \A b \in Buffers : b_key[b] = NoKey
    BY Zenon
  <2> QED  BY <2>1, <2>3, <2>4, <2>5, Zenon DEF Names
<1>9. Requests
  <2>1. /\ << >> \in Seq(Slots) /\ Once(<< >>) /\ \A s : ~On(<< >>, s)
    BY SMTT(30) DEF Once, On
  <2>2. /\ current_request \in [Drivers -> Seq(Slots)] /\ current_request[RAMDISK] = << >>
        /\ Queue = << >>
    BY <2>1, Zenon DEF Drivers, Queue
  <2> QED  BY <1>6, <2>1, <2>2, Zenon DEF Requests
<1>10. CountsUsers
  <2>1. ASSUME NEW b \in Buffers
        PROVE  {t \in Tasks : Holds(t) = b} = {} /\ {t \in Tasks : first[t] = b} = {}
    BY <1>4, Constants, Zenon
  <2>2. \A b \in Buffers : b_count[b] = 0 + 0
    BY SMTT(30)
  <2> QED  BY <2>1, <2>2, FS_EmptySet, Zenon DEF CountsUsers
<1>11. NoStrandedSleeper
  BY <1>4, Zenon DEF NoStrandedSleeper
<1> QED  BY <1>1, <1>2, <1>3, <1>5, <1>7, <1>8, <1>9, <1>10, <1>11, TypeParts, Zenon DEF Inv

(* Every step of a task or of the driver keeps the invariant. *)
LEMMA NextInv == Inv /\ [Next]_vars => Inv'
<1> SUFFICES ASSUME Inv, [Next]_vars PROVE Inv'
  OBVIOUS
<1>0. Counting
  BY CountingHolds
<1>1. ASSUME NEW t \in Tasks, Task(t) PROVE Inv'
  <2>1. CASE Start(t) \/ sys_sync(t) \/ wait_on_buffer(t)
    BY <1>0, <2>1, StartStep, SyncStep, WaitStep, Zenon
  <2>2. CASE getblk(t) \/ get_hash_table(t) \/ getblk_victim(t) \/ brelse(t)
    BY <1>0, <2>2, GetblkStep, HashStep, VictimStep, BrelseStep, Zenon
  <2>3. CASE \/ bread(t) \/ bread_end(t)
             \/ breada(t) \/ breada_arg(t) \/ breada_tmp(t) \/ breada_count(t)
    BY <1>0, <2>3, BreadStep, BreadEndStep, BreadaStep, BreadaArgStep,
       BreadaTmpStep, BreadaCountStep, Zenon
  <2>4. CASE block_write_whole(t) \/ Look(t) \/ Modify(t) \/ Elsewhere(t)
    BY <1>0, <2>4, WholeStep, LookStep, ModifyStep, ElsewhereStep, Zenon
  <2>5. CASE sync_dev(t) \/ sync_dev_end(t)
    BY <1>0, <2>5, SyncDevStep, SyncEndStep, Zenon
  <2>6. CASE make_request(t) \/ no_request(t) \/ add_request(t)
    BY <1>0, <2>6, MakeStep, NoRequestStep, AddRequestStep, Zenon
  <2> QED  BY <1>1, <2>1, <2>2, <2>3, <2>4, <2>5, <2>6, Zenon DEF Task
<1>2. CASE do_hd_request \/ hd_interrupt
  BY <1>0, <1>2, StartedStep, FailedStep, TransferStep, Zenon DEF do_hd_request, hd_interrupt
<1>3. CASE UNCHANGED vars
  <2>1. /\ UNCHANGED <<b_key, b_count, lists, cpu, pc, frame, bh, io>>
        /\ UNCHANGED <<heads, queue, drive>> /\ b_lock' = b_lock /\ do_hd' = do_hd
    BY <1>3, Zenon DEF vars, heads, drive
  <2>2. HeadsOK' /\ DriveOK'
    BY <2>1, TypeParts, Zenon DEF Inv, HeadsOK, DriveOK, heads, queue, drive
  <2>3. Requests'
    BY <2>1, SameRequests, Zenon DEF Inv
  <2>4. ASSUME NEW b \in Buffers PROVE LocksOf(b)'
    <3>1. \A t \in Tasks : Asks(t, b)' <=> Asks(t, b)
      BY <2>1, Zenon DEF Asks
    <3>2. \A s \in Slots : Serves(s, b)' <=> Serves(s, b)
      BY <2>1, Zenon DEF Serves, queue
    <3> QED  BY <2>1, <3>1, <3>2, SameLocksOf, Zenon DEF Inv, Locks
  <2>5. Locks'
    BY <2>4, Zenon DEF Locks
  <2> QED  BY <2>1, <2>2, <2>3, <2>5, DriverStep, Zenon
<1> QED  BY <1>1, <1>2, <1>3, Zenon DEF Next

(* In every state the buffer cache and the driver reach: the variables of  *)
(* a task fit the place of its code, a lock has one owner, the lists and   *)
(* the names of the buffers agree, and the handler that waits for an       *)
(* interrupt has a request.                                                *)
THEOREM Invariant == Spec => []Inv
BY InitInv, NextInv, PTL DEF Spec

(* Every variable keeps to its type; brelse and breada never count a       *)
(* buffer below zero, where brelse would panic.                            *)
THEOREM TypeCorrect == Spec => []TypeOK
<1>1. Inv => TypeOK
  BY Zenon DEF Inv
<1> QED  BY <1>1, Invariant, PTL

(* No block is in the cache twice: the buffer with its name is the one     *)
(* that find_buffer finds.                                                 *)
THEOREM OneBufferHolds == Spec => []OneBuffer
<1>1. Inv => OneBuffer
  <2> SUFFICES ASSUME Inv, NEW b \in Buffers, b_key[b] # NoKey
               PROVE  find_buffer(b_key[b]) = b
    BY Zenon DEF OneBuffer
  <2>1. HeadsOK /\ Names /\ Counting
    BY TypeParts, CountingHolds, Zenon DEF Inv
  <2>2. PICK k \in Keys : k = b_key[b]
    BY <2>1, Zenon DEF HeadsOK
  <2>3. find_buffer(k) # NULL
    BY <2>1, <2>2, Found, Zenon
  <2>4. find_buffer(k) \in Buffers /\ b_key[find_buffer(k)] = k
    BY <2>1, <2>3, Found, Zenon
  <2> QED  BY <2>1, <2>2, <2>4, Zenon DEF Names
<1> QED  BY <1>1, Invariant, PTL

(* A buffer is locked exactly while one task in make_request, or one       *)
(* request, is there to unlock it.                                         *)
THEOREM LockedHolds == Spec => []LockedIffPending
<1>1. Inv => LockedIffPending
  <2> SUFFICES ASSUME Inv, NEW b \in Buffers
               PROVE  Cardinality({t \in Tasks : pc[t] = "request" /\ io[t].bh = b})
                      + Cardinality({s \in Slots : request[s].bh = b}) = IF b_lock[b] THEN 1 ELSE 0
    BY Zenon DEF LockedIffPending
  <2> DEFINE A == {t \in Tasks : pc[t] = "request" /\ io[t].bh = b}
             S == {s \in Slots : request[s].bh = b}
  <2>1. LocksOf(b)
    BY Zenon DEF Inv, Locks
  <2>2. CASE b_lock[b] /\ \E t \in Tasks : Asks(t, b)
    <3>1. PICK t \in Tasks : Asks(t, b)
      BY <2>2
    <3>2. A = {t} /\ S = {}
      BY <2>1, <3>1, Zenon DEF LocksOf, Asks, Serves
    <3>3. Cardinality(A) = 1 /\ Cardinality(S) = 0
      BY <3>2, FS_Singleton, FS_EmptySet, Zenon
    <3> QED  BY <2>2, <3>3
  <2>3. CASE b_lock[b] /\ \E s \in Slots : Serves(s, b)
    <3>1. PICK s \in Slots : Serves(s, b)
      BY <2>3
    <3>2. A = {} /\ S = {s}
      BY <2>1, <3>1, Zenon DEF LocksOf, Asks, Serves
    <3>3. Cardinality(A) = 0 /\ Cardinality(S) = 1
      BY <3>2, FS_Singleton, FS_EmptySet, Zenon
    <3> QED  BY <2>3, <3>3
  <2>4. CASE ~b_lock[b]
    <3>1. A = {} /\ S = {}
      BY <2>1, <2>4, Zenon DEF LocksOf, Asks, Serves
    <3>2. Cardinality(A) = 0 /\ Cardinality(S) = 0
      BY <3>1, FS_EmptySet, Zenon
    <3> QED  BY <2>4, <3>2
  <2> QED  BY <2>1, <2>2, <2>3, <2>4, Zenon DEF LocksOf
<1> QED  BY <1>1, Invariant, PTL

(* b_count is the number of tasks that use the buffer. *)
THEOREM CountsHold == Spec => []CountsUsers
<1>1. Inv => CountsUsers
  BY Zenon DEF Inv
<1> QED  BY <1>1, Invariant, PTL

(* Nobody sleeps on buffer_wait without another task that will wake it. *)
THEOREM NobodyStrandedHolds == Spec => []NoStrandedSleeper
<1>1. Inv => NoStrandedSleeper
  BY Zenon DEF Inv
<1> QED  BY <1>1, Invariant, PTL

-----------------------------------------------------------------------------
(* The contents of blocks, continued: the steps that change a buffer, the  *)
(* requests or the disk.                                                   *)
USE ZenonT(30)

(* A task changes a buffer: only the readers of that block notice. *)
LEMMA ModifyContents ==
  ASSUME CInv, Inv', NEW t \in Tasks, Modify(t)
  PROVE  CInv' /\ \A k \in Stored : k # b_key[bh[t]] => Content(k)' = Content(k)
<1>0. Inv /\ HeadsOK
  BY TypeParts DEF CInv, Inv
<1>1. pc[t] = "held"
  BY DEF Modify, At
<1>2. bh[t] \in Buffers
  <2>1. Site(t) = "held" /\ BuffersOf(t)
    BY <1>0, <1>1, Parts DEF Site
  <2> QED  BY <2>1 DEF BuffersOf
<1>3. PICK b \in Buffers : b = bh[t]
  BY <1>2
<1>4. PICK v : b_data' = [b_data EXCEPT ![b] = <<v, v>>]
  BY <1>3 DEF Modify
<1>5. /\ b_dirt' = [b_dirt EXCEPT ![b] = TRUE] /\ pc' = [pc EXCEPT ![t] = "brelse"]
      /\ UNCHANGED <<b_key, b_uptodate, io, request, current_request, disk, do_hd, hd_data>>
  BY <1>3 DEF Modify, Goto, queue, drive
<1>6. DOMAIN b_dirt = Buffers /\ DOMAIN b_data = Buffers
  BY <1>0 DEF HeadsOK
<1>7. \A c \in Buffers \ {b} : SameBuffer(c)
  BY <1>4, <1>5, <1>6 DEF SameBuffer, Written
<1>8. b_dirt'[b] /\ Written(b)'
  BY <1>5, <1>6 DEF Written
<1>9. NoNewRequest
  BY <1>0, <1>5, GoneElsewhere
<1>10. Settled(b)'
  BY <1>8 DEF Settled
<1>11. Given'
  <2>1. CURRENT' = CURRENT
    BY <1>5 DEF CURRENT, Queue
  <2> QED  BY <1>5, <1>7, <1>8, <2>1, GivenKept
<1>12. ASSUME NEW u \in Tasks, pc'[u] = "request", io'[u].bh = b PROVE AskedFor(u)'
  <2>1. AskedFor(u) /\ pc[u] = "request"
    BY <1>9, <1>12 DEF CInv, Contents, NoNewRequest
  <2> QED  BY <1>5, <1>8, <1>12, <2>1 DEF AskedFor
<1>13. ASSUME NEW s \in Slots, request'[s].bh = b PROVE HalfDone(request[s])'
  <2>1. HalfDone(request[s])
    BY DEF CInv, Contents
  <2> QED  BY <1>5, <1>8, <1>13, <2>1 DEF HalfDone
<1>14. CInv'
  BY <1>5, <1>7, <1>9, <1>10, <1>11, <1>12, <1>13, OneBufferStep DEF NoNewRequest
<1>15. \A k \in Stored : k # b_key[b] => Content(k)' = Content(k)
  BY <1>0, <1>5, <1>7, OtherBlocks
<1> QED  BY <1>3, <1>14, <1>15

(* make_request locks a buffer that is to be written and is dirty, or that *)
(* is to be read and is not valid.                                         *)
LEMMA MakeContents ==
  ASSUME CInv, Inv', NEW t \in Tasks, make_request(t)
  PROVE  KeepsContents
<1>0. Inv /\ TasksOK
  BY TypeParts DEF CInv, Inv
<1>1. UNCHANGED <<b_key, b_uptodate, b_dirt, b_data, queue, drive>>
  BY DEF make_request
<1>2. DOMAIN pc = Tasks /\ DOMAIN io = Tasks
  BY <1>0 DEF TasksOK
<1>3. CASE IoDone(t)
  <2>1. io[t].ret # "request"
    <3>1. IoOf(t)
      BY <1>0, Parts
    <3> QED  BY <3>1 DEF make_request, At, IoOf
  <2>2. NoNewRequest
    BY <1>0, <1>3, <2>1, GoneElsewhere DEF IoDone, Goto
  <2> QED  BY <1>1, <2>2, QuietContents
<1>4. CASE /\ ~NotNeeded(io[t].rw, io[t].bh) /\ pc' = [pc EXCEPT ![t] = "request"] /\ io' = io
  <2>1. ASSUME NEW u \in Tasks PROVE AskedFor(u)'
    <3>1. CASE u = t
      BY <1>1, <1>2, <1>4, <3>1 DEF AskedFor, NotNeeded
    <3>2. CASE u # t
      <4>1. pc'[u] = pc[u] /\ AskedFor(u)
        BY <1>2, <1>4, <3>2 DEF CInv, Contents
      <4> QED  BY <1>1, <1>4, <4>1 DEF AskedFor
    <3> QED  BY <3>1, <3>2
  <2>2. UNCHANGED <<request, current_request, disk, do_hd, hd_data>>
    BY <1>1 DEF queue, drive
  <2>3. Given'
    <3>1. CURRENT' = CURRENT
      BY <2>2 DEF CURRENT, Queue
    <3>2. Given
      BY DEF CInv, Contents
    <3> QED  BY <1>1, <2>2, <3>1, <3>2 DEF Given, Half
  <2> QED  BY <1>1, <2>1, <2>2, <2>3, SameContents
<1> QED  BY <1>3, <1>4 DEF make_request, Goto

(* A task that finds no free request sleeps, or gives its read-ahead up. *)
LEMMA NoRequestContents ==
  ASSUME CInv, Inv', NEW t \in Tasks, no_request(t)
  PROVE  KeepsContents
<1>0. Inv
  BY DEF CInv
<1>1. UNCHANGED <<b_key, b_uptodate, b_dirt, b_data, queue, drive>>
  BY DEF no_request
<1>2. CASE IoDone(t)
  <2>1. io[t].ret # "request"
    <3>1. IoOf(t)
      BY <1>0, Parts
    <3> QED  BY <3>1 DEF no_request, At, IoOf
  <2>2. NoNewRequest
    BY <1>0, <1>2, <2>1, GoneElsewhere DEF IoDone, Goto
  <2> QED  BY <1>1, <2>2, QuietContents
<1>3. CASE Sleep(t) /\ UNCHANGED io
  <2>1. NoNewRequest
    BY <1>3 DEF Sleep, NoNewRequest
  <2> QED  BY <1>1, <2>1, QuietContents
<1> QED  BY <1>2, <1>3 DEF no_request

(* A task that has locked a buffer for its request is the only one that    *)
(* has, and no request is for it yet.                                      *)
LEMMA LockedByTask ==
  ASSUME Inv, NEW t \in Tasks, NEW b \in Buffers, pc[t] = "request", io[t].bh = b
  PROVE  /\ \A s \in Slots : request[s].bh # b
         /\ \A u \in Tasks : pc[u] = "request" /\ io[u].bh = b => u = t
         /\ do_hd = "write_intr" => CURRENT.bh # b
<1>1. LocksOf(b) /\ Asks(t, b)
  BY DEF Inv, Locks, Asks
<1>2. \A s \in Slots : request[s].bh # b
  BY <1>1 DEF LocksOf, Serves
<1>3. \A u \in Tasks : pc[u] = "request" /\ io[u].bh = b => u = t
  BY <1>1 DEF LocksOf, Asks
<1>4. do_hd = "write_intr" => CURRENT.bh # b
  <2>1. do_hd = "write_intr" => Queue # << >>
    BY DEF Inv, Requests
  <2>2. Queue # << >> => Head(Queue) \in Slots
    BY Current
  <2> QED  BY <1>2, <2>1, <2>2 DEF CURRENT
<1> QED  BY <1>2, <1>3, <1>4

(* do_rd_request copies the block one way or the other, at once. *)
LEMMA RamdiskContents ==
  ASSUME CInv, Inv', NEW t \in Tasks, pc[t] = "request", NoNewRequest, pc'[t] # "request",
         NEW b \in Buffers, b = io[t].bh, b_dirt' = [b_dirt EXCEPT ![b] = FALSE],
         do_rd_request(t, b), UNCHANGED <<b_key, hd_data>>
  PROVE  KeepsContents
<1>0. Inv /\ HeadsOK /\ DriveOK
  BY TypeParts DEF CInv, Inv
<1>1. PICK k : k = b_key[b]
  OBVIOUS
<1>2. /\ disk' = IF k \in Stored /\ io[t].rw = WRITE THEN [disk EXCEPT ![k] = b_data[b]] ELSE disk
      /\ b_data' = IF k \in Stored /\ io[t].rw # WRITE THEN [b_data EXCEPT ![b] = disk[k]]
                                                       ELSE b_data
      /\ b_uptodate' = [b_uptodate EXCEPT ![b] = (k \in Stored)]
      /\ UNCHANGED <<request, current_request, do_hd>>
  BY <1>1 DEF do_rd_request, queue
<1>3. /\ DOMAIN b_dirt = Buffers /\ DOMAIN b_uptodate = Buffers /\ DOMAIN b_data = Buffers
      /\ DOMAIN disk = Stored
  BY <1>0 DEF HeadsOK, DriveOK
<1>4. /\ \A s \in Slots : request[s].bh # b
      /\ \A u \in Tasks : pc[u] = "request" /\ io[u].bh = b => u = t
      /\ do_hd = "write_intr" => CURRENT.bh # b
  BY <1>0, LockedByTask
<1>5. \A c \in Buffers \ {b} : SameBuffer(c)
  BY <1>2, <1>3 DEF SameBuffer, Written
<1>6. ~b_dirt'[b] /\ (b_uptodate'[b] <=> k \in Stored) /\ b_key'[b] = k
  BY <1>1, <1>2, <1>3
<1>7. (Written(b) <=> b_dirt[b]) /\ ~Written(b)'
  BY <1>2, <1>4, <1>6 DEF Written
<1>8. k \in Stored => b_data'[b] = disk'[k]
  BY <1>2, <1>3
<1>9. CInv'
  <2>1. Given'
    <3>1. CURRENT' = CURRENT
      BY <1>2 DEF CURRENT, Queue
    <3> QED  BY <1>2, <1>4, <1>5, <3>1, GivenKept
  <2>2. Settled(b)'
    BY <1>6, <1>8 DEF Settled
  <2>3. \A j \in Stored : j # b_key[b] => disk'[j] = disk[j]
    BY <1>1, <1>2, <1>3
  <2>4. \A u \in Tasks : pc'[u] = "request" => pc[u] = "request" /\ io'[u] = io[u]
    BY DEF NoNewRequest
  <2>5. \A u \in Tasks : ~(pc'[u] = "request" /\ io'[u].bh = b)
    BY <1>4, <2>4
  <2>6. \A s \in Slots : request'[s] = request[s] /\ request'[s].bh # b
    BY <1>2, <1>4
  <2> QED  BY <1>5, <2>1, <2>2, <2>3, <2>4, <2>5, <2>6, OneBufferStep
<1>10. ASSUME NEW j \in Stored \ NotValid PROVE Content(j)' = Content(j)
  <2>1. CASE j # k
    <3>1. disk'[j] = disk[j]
      BY <1>2, <1>3, <2>1
    <3> QED  BY <1>0, <1>1, <1>5, <1>6, <2>1, <3>1, OtherBlocks
  <2>2. CASE j = k
    <3>1. Content(j)' = b_data'[b]
      <4>1. Cached(b)'
        BY <1>6, <2>2 DEF Cached
      <4> QED  BY <1>6, <2>2, <4>1, ContentOfNext
    <3>2. Content(j) = IF Cached(b) THEN b_data[b] ELSE disk[j]
      BY <1>0, <1>1, <2>2, ContentOf
    <3>3. AskedFor(t)
      BY DEF CInv, Contents
    <3>4. CASE io[t].rw = WRITE
      <4>1. Cached(b)
        BY <1>7, <3>3, <3>4 DEF AskedFor, Cached
      <4> QED  BY <1>2, <3>1, <3>2, <3>4, <4>1
    <3>5. CASE io[t].rw # WRITE
      <4>1. ~b_uptodate[b]
        BY <3>3, <3>5 DEF AskedFor
      <4>2. ~b_dirt[b]
        BY <1>1, <2>2, <4>1 DEF NotValid
      <4>3. ~Cached(b)
        BY <1>7, <4>1, <4>2 DEF Cached
      <4> QED  BY <1>2, <1>3, <2>2, <3>1, <3>2, <3>5, <4>3
    <3> QED  BY <3>4, <3>5
  <2> QED  BY <2>1, <2>2
<1> QED  BY <1>9, <1>10 DEF KeepsContents

(* A request for the hard disk is put into its queue: a buffer to be       *)
(* written counts as written while the request lasts.                      *)
LEMMA QueuedContents ==
  ASSUME CInv, Inv', NEW t \in Tasks, pc[t] = "request", NoNewRequest, pc'[t] # "request",
         NEW b \in Buffers, b = io[t].bh, b_dirt' = [b_dirt EXCEPT ![b] = FALSE],
         NEW s \in Slots, request[s] = Idle, request' = [request EXCEPT ![s] = NewRequest(t)],
         do_hd' = "write_intr" => do_hd = "write_intr" /\ CURRENT' = CURRENT,
         UNCHANGED <<b_key, b_uptodate, b_data, disk, hd_data>>
  PROVE  KeepsContents
<1>0. Inv /\ HeadsOK /\ DriveOK /\ TasksOK
  BY TypeParts DEF CInv, Inv
<1>1. DOMAIN b_dirt = Buffers /\ DOMAIN request = Slots
  BY <1>0 DEF HeadsOK, DriveOK
<1>2. /\ \A r \in Slots : request[r].bh # b
      /\ \A u \in Tasks : pc[u] = "request" /\ io[u].bh = b => u = t
      /\ do_hd = "write_intr" => CURRENT.bh # b
  BY <1>0, LockedByTask
<1>3. /\ request'[s] = NewRequest(t)
      /\ \A r \in Slots \ {s} : request'[r] = request[r]
  BY <1>1
<1>4. /\ NewRequest(t).bh = b /\ NewRequest(t).nr_sectors = 2
      /\ NewRequest(t).cmd = IF io[t].rw = WRITE THEN WRITE ELSE READ
  BY DEF NewRequest
<1>5. request[s].bh = NULL
  BY SMTT(30) DEF Idle
<1>6. \A c \in Buffers \ {b} : SameBuffer(c)
  <2>1. ASSUME NEW c \in Buffers, c # b PROVE Written(c)' <=> Written(c)
    <3>1. b_dirt'[c] = b_dirt[c]
      BY <1>1, <2>1
    <3>2. \A r \in Slots : (request'[r].bh = c /\ request'[r].cmd = WRITE)
                           <=> (request[r].bh = c /\ request[r].cmd = WRITE)
      BY <1>3, <1>4, <1>5, <2>1, Constants
    <3> QED  BY <3>1, <3>2 DEF Written
  <2> QED  BY <1>1, <2>1 DEF SameBuffer
<1>7. /\ ~b_dirt'[b] /\ (Written(b) <=> b_dirt[b])
      /\ Written(b)' <=> io[t].rw = WRITE
  <2>1. ~b_dirt'[b]
    BY <1>1
  <2>2. Written(b) <=> b_dirt[b]
    BY <1>2 DEF Written
  <2>3. READ # WRITE
    BY SMT DEF READ, WRITE
  <2>4. \A r \in Slots : request'[r].bh = b => r = s
    BY <1>2, <1>3
  <2>5. Written(b)' <=> io[t].rw = WRITE
    BY <1>3, <1>4, <2>1, <2>3, <2>4 DEF Written
  <2> QED  BY <2>1, <2>2, <2>5
<1>8. IF io[t].rw = WRITE THEN b_dirt[b] ELSE ~b_uptodate[b]
  BY DEF CInv, Contents, AskedFor
<1>9. CInv'
  <2>1. Given'
    BY <1>2, <1>6, GivenKept
  <2>2. Settled(b)'
    BY <1>7, <1>8 DEF Settled
  <2>3. \A u \in Tasks : pc'[u] = "request" => pc[u] = "request" /\ io'[u] = io[u]
    BY DEF NoNewRequest
  <2>4. \A u \in Tasks : ~(pc'[u] = "request" /\ io'[u].bh = b)
    BY <1>2, <2>3
  <2>5. \A r \in Slots : request'[r].bh \notin {NULL, b} => request'[r] = request[r]
    BY <1>3, <1>4
  <2>6. ASSUME NEW r \in Slots, request'[r].bh = b PROVE HalfDone(request[r])'
    <3>1. r = s
      BY <1>2, <1>3, <2>6
    <3>2. request'[r].cmd = READ => ~b_uptodate'[b]
      <4>1. READ # WRITE
        BY SMT DEF READ, WRITE
      <4> QED  BY <1>3, <1>4, <1>8, <3>1, <4>1
    <3>3. request'[r].nr_sectors # 1
      <4>1. 2 # 1
        BY SMT
      <4> QED  BY <1>3, <1>4, <3>1, <4>1
    <3> QED  BY <2>6, <3>2, <3>3 DEF HalfDone
  <2> QED  BY <1>6, <2>1, <2>2, <2>3, <2>4, <2>5, <2>6, OneBufferStep
<1>10. ASSUME NEW k \in Stored \ NotValid PROVE Content(k)' = Content(k)
  <2>1. CASE k # b_key[b]
    BY <1>0, <1>6, <2>1, OtherBlocks
  <2>2. CASE k = b_key[b]
    <3>1. Content(k)' = IF Cached(b)' THEN b_data'[b] ELSE disk'[k]
      BY <2>2, ContentOfNext
    <3>2. Content(k) = IF Cached(b) THEN b_data[b] ELSE disk[k]
      BY <1>0, <2>2, ContentOf
    <3>3. b_dirt[b] => b_uptodate[b]
      BY <2>2 DEF NotValid
    <3>4. Cached(b)' <=> Cached(b)
      BY <1>7, <1>8, <3>3 DEF Cached
    <3> QED  BY <3>1, <3>2, <3>4
  <2> QED  BY <2>1, <2>2
<1> QED  BY <1>9, <1>10 DEF KeepsContents

(* add_request, of either kind. *)
LEMMA AddContents ==
  ASSUME Counting, CInv, Inv', NEW t \in Tasks, add_request(t)
  PROVE  KeepsContents
<1>0. Inv /\ IoOf(t) /\ pc[t] = "request" /\ IoDone(t) /\ Empty(io[t].rw) # {}
      /\ UNCHANGED <<b_key, hd_data>>
  BY Parts DEF CInv, At, add_request
<1>1. io[t].ret # "request" /\ DOMAIN pc = Tasks
  BY <1>0 DEF IoOf, Inv, TypeOK
<1>2. NoNewRequest /\ pc'[t] # "request"
  <2>1. NoNewRequest
    BY <1>0, <1>1, GoneElsewhere DEF IoDone, Goto
  <2> QED  BY <1>0, <1>1, <2>1 DEF IoDone, Goto
<1>3. PICK b \in Buffers : b = io[t].bh
  BY <1>0 DEF IoOf
<1>4. b_dirt' = [b_dirt EXCEPT ![b] = FALSE]
  BY <1>3 DEF add_request
<1>5. CASE do_rd_request(t, b)
  BY <1>0, <1>2, <1>3, <1>4, <1>5, RamdiskContents
<1>6. CASE ~do_rd_request(t, b)
  <2>1. PICK s : s = Max(Empty(io[t].rw))
    OBVIOUS
  <2>2. /\ b_key[b][1] = HARD
        /\ request' = [request EXCEPT ![s] = NewRequest(t)]
        /\ current_request' = [current_request EXCEPT ![HARD] =
             IF Queue = << >> THEN <<s>>
                              ELSE InsertBehind(Queue, Behind(Queue, NewRequest(t)), s)]
        /\ do_hd' = (IF Queue = << >> THEN "do_hd_request" ELSE do_hd)
        /\ UNCHANGED <<b_uptodate, b_data, disk>>
    BY <1>3, <1>6, <2>1 DEF Queue, add_request
  <2>3. s \in Slots /\ request[s].dev = NULL
    BY <1>0, <2>1, FreeRequest
  <2>4. /\ request[s] = Idle
        /\ do_hd' = "write_intr" => do_hd = "write_intr" /\ CURRENT' = CURRENT
    BY <1>0, <1>3, <2>2, <2>3, QueuedRequests
  <2> QED  BY <1>0, <1>2, <1>3, <1>4, <2>2, <2>3, <2>4, QueuedContents
<1> QED  BY <1>5, <1>6

-----------------------------------------------------------------------------
(* The driver. *)

(* The buffer b has the first request h of the queue and no other one. *)
Sole(b, h) ==
  /\ b \in Buffers /\ h \in Slots /\ request[h].bh = b
  /\ \A u \in Tasks : ~(pc[u] = "request" /\ io[u].bh = b)
  /\ \A s \in Slots : request[s].bh = b => s = h
  /\ Written(b) <=> b_dirt[b] \/ CURRENT.cmd = WRITE
  /\ CURRENT.cmd = READ => ~b_uptodate[b]

(* A step changes no other buffer and no other block than b and its block. *)
OnlyHere(b) ==
  /\ \A c \in Buffers \ {b} : b_data'[c] = b_data[c]
  /\ \A k \in Stored : k # b_key[b] => disk'[k] = disk[k]

(* Its block reads as before, if the readers got the buffer before the     *)
(* step or else the disk, and get the buffer after it or else the disk.    *)
SameHere(b, before, after) ==
  \A k \in Stored \ (failed' \cup NotValid) : k = b_key[b] =>
    (IF after THEN b_data'[b] ELSE disk'[k]) = (IF before THEN b_data[b] ELSE disk[k])

(* The buffer of the first request is locked by that request. *)
LEMMA LockedByRequest ==
  ASSUME CInv, Queue # << >>, NEW b, b = CURRENT.bh, NEW h, h = Head(Queue)
  PROVE  Sole(b, h)
<1>1. b \in Buffers /\ h \in Slots /\ request[h].bh = b
  BY Current DEF CInv, CURRENT
<1>2. LocksOf(b) /\ Serves(h, b)
  BY <1>1 DEF CInv, Inv, Locks, Serves
<1>3. \A u \in Tasks : ~(pc[u] = "request" /\ io[u].bh = b)
  BY <1>1, <1>2 DEF LocksOf, Asks
<1>4. \A s \in Slots : request[s].bh = b => s = h
  BY <1>1, <1>2 DEF LocksOf, Serves
<1>5. Written(b) <=> b_dirt[b] \/ CURRENT.cmd = WRITE
  BY <1>1, <1>4 DEF Written, CURRENT
<1>6. CURRENT.cmd = READ => ~b_uptodate[b]
  <2>1. HalfDone(request[h])
    BY <1>1 DEF CInv, Contents
  <2> QED  BY <1>1, <2>1 DEF HalfDone, CURRENT
<1> QED  BY <1>1, <1>3, <1>4, <1>5, <1>6 DEF Sole

(* What readers get of the block of the first request. *)
LEMMA ContentOfCurrent ==
  ASSUME CInv, Queue # << >>, NEW b, b = CURRENT.bh, NEW k \in Stored, k = b_key[b]
  PROVE  Content(k) = IF b_dirt[b] \/ CURRENT.cmd = WRITE THEN b_data[b] ELSE disk[k]
<1>1. PICK h : h = Head(Queue)
  OBVIOUS
<1>2. /\ b \in Buffers /\ (Written(b) <=> b_dirt[b] \/ CURRENT.cmd = WRITE)
      /\ CURRENT.cmd = READ => ~b_uptodate[b]
  <2>1. Sole(b, h)
    BY <1>1, LockedByRequest
  <2> QED  BY <2>1 DEF Sole
<1>3. CURRENT.cmd \in {READ, WRITE}
  BY Current DEF CInv, ARequest
<1>4. Content(k) = IF Cached(b) THEN b_data[b] ELSE disk[k]
  BY <1>2, ContentOf DEF CInv
<1> QED  BY <1>2, <1>3, <1>4 DEF Cached

(* end_request: a buffer that was read in has what the disk has, one that  *)
(* was written has given it to the disk.                                   *)
LEMMA EndedContents ==
  ASSUME CInv, Inv', Queue # << >>, NEW b, b = CURRENT.bh, NEW ok \in BOOLEAN, end_request(ok),
         UNCHANGED <<b_key, b_dirt, pc, io>>, do_hd' # "write_intr",
         OnlyHere(b), SameHere(b, b_dirt[b] \/ CURRENT.cmd = WRITE, b_dirt[b] \/ ok),
         ok /\ ~b_dirt[b] /\ b_key[b] \in Stored => b_data'[b] = disk'[b_key[b]]
  PROVE  KeepsContents
<1>0. Inv /\ HeadsOK /\ DriveOK
  BY TypeParts DEF CInv, Inv
<1>1. PICK h : h = Head(Queue)
  OBVIOUS
<1>2. /\ b \in Buffers /\ h \in Slots
      /\ \A u \in Tasks : ~(pc[u] = "request" /\ io[u].bh = b)
      /\ \A s \in Slots : request[s].bh = b => s = h
  <2>1. Sole(b, h)
    BY <1>1, LockedByRequest
  <2> QED  BY <2>1 DEF Sole
<1>3. /\ b_uptodate' = [b_uptodate EXCEPT ![b] = ok]
      /\ request' = [request EXCEPT ![h] = Idle]
  BY <1>1 DEF end_request
<1>4. DOMAIN b_uptodate = Buffers /\ DOMAIN request = Slots
  BY <1>0 DEF HeadsOK, DriveOK
<1>5. request'[h].bh = NULL /\ \A s \in Slots \ {h} : request'[s] = request[s]
  <2>1. Idle.bh = NULL
    BY SMTT(30) DEF Idle
  <2> QED  BY <1>2, <1>3, <1>4, <2>1
<1>6. request[h].bh = b
  BY <1>1 DEF CURRENT
<1>7. \A c \in Buffers \ {b} : SameBuffer(c)
  <2>1. ASSUME NEW c \in Buffers, c # b PROVE Written(c)' <=> Written(c)
    <3>1. \A r \in Slots : (request'[r].bh = c /\ request'[r].cmd = WRITE)
                           <=> (request[r].bh = c /\ request[r].cmd = WRITE)
      BY <1>5, <1>6, <2>1, Constants
    <3> QED  BY <3>1 DEF Written
  <2> QED  BY <1>3, <1>4, <2>1 DEF SameBuffer, OnlyHere
<1>8. (b_uptodate'[b] <=> ok) /\ (Written(b)' <=> b_dirt[b])
  <2>1. \A s \in Slots : request'[s].bh # b
    BY <1>2, <1>5, Constants
  <2> QED  BY <1>2, <1>3, <1>4, <2>1 DEF Written
<1>9. CInv'
  <2>1. Given'
    BY DEF Given
  <2>2. Settled(b)'
    BY <1>8 DEF Settled
  <2>3. \A s \in Slots : request'[s].bh # b
    BY <1>2, <1>5, Constants
  <2>4. \A s \in Slots : request'[s].bh \notin {NULL, b} => request'[s] = request[s]
    BY <1>5
  <2>5. \A k \in Stored : k # b_key[b] => disk'[k] = disk[k]
    BY DEF OnlyHere
  <2> QED  BY <1>2, <1>7, <2>1, <2>2, <2>3, <2>4, <2>5, OneBufferStep
<1>10. ASSUME NEW k \in Stored \ (failed' \cup NotValid) PROVE Content(k)' = Content(k)
  <2>1. CASE k # b_key[b]
    <3>1. disk'[k] = disk[k]
      BY <2>1 DEF OnlyHere
    <3> QED  BY <1>0, <1>2, <1>7, <2>1, <3>1, OtherBlocks
  <2>2. CASE k = b_key[b]
    <3>1. Content(k)' = IF Cached(b)' THEN b_data'[b] ELSE disk'[k]
      BY <1>2, <2>2, ContentOfNext
    <3>2. Content(k) = IF b_dirt[b] \/ CURRENT.cmd = WRITE THEN b_data[b] ELSE disk[k]
      BY <2>2, ContentOfCurrent
    <3>3. Cached(b)' <=> b_dirt[b] \/ ok
      BY <1>8 DEF Cached
    <3> QED  BY <2>2, <3>1, <3>2, <3>3 DEF SameHere
  <2> QED  BY <2>1, <2>2
<1> QED  BY <1>9, <1>10 DEF KeepsContents

(* The first request stays: it is tried again or goes on with the other    *)
(* sector.                                                                 *)
LEMMA KeptContents ==
  ASSUME CInv, Inv', Queue # << >>, NEW b, b = CURRENT.bh,
         NEW r, r.bh = b, r.cmd = CURRENT.cmd, request' = [request EXCEPT ![Head(Queue)] = r],
         UNCHANGED <<b_key, b_uptodate, b_dirt, pc, io>>, Given',
         OnlyHere(b), SameHere(b, b_dirt[b] \/ r.cmd = WRITE, b_dirt[b] \/ r.cmd = WRITE),
         ~b_dirt[b] /\ r.nr_sectors = 1 /\ b_key[b] \in Stored =>
           b_data'[b][1] = disk'[b_key[b]][1]
  PROVE  KeepsContents
<1>0. Inv /\ HeadsOK /\ DriveOK
  BY TypeParts DEF CInv, Inv
<1>1. PICK h : h = Head(Queue)
  OBVIOUS
<1>2. /\ b \in Buffers /\ h \in Slots /\ request[h].bh = b
      /\ \A u \in Tasks : ~(pc[u] = "request" /\ io[u].bh = b)
      /\ \A s \in Slots : request[s].bh = b => s = h
      /\ r.cmd = READ => ~b_uptodate[b]
  <2>1. Sole(b, h)
    BY <1>1, LockedByRequest
  <2> QED  BY <2>1 DEF Sole
<1>3. DOMAIN request = Slots
  BY <1>0 DEF DriveOK
<1>4. request'[h] = r /\ \A s \in Slots \ {h} : request'[s] = request[s]
  BY <1>1, <1>2, <1>3
<1>5. \A s \in Slots : request'[s].bh = request[s].bh /\ request'[s].cmd = request[s].cmd
  BY <1>1, <1>2, <1>4 DEF CURRENT
<1>6. \A c : Written(c)' <=> Written(c)
  BY <1>5 DEF Written
<1>7. \A c \in Buffers \ {b} : SameBuffer(c)
  BY <1>6 DEF SameBuffer, OnlyHere
<1>8. (Written(b) <=> b_dirt[b] \/ r.cmd = WRITE) /\ r.cmd \in {READ, WRITE}
  <2>1. Sole(b, h)
    BY <1>1, LockedByRequest
  <2>2. CURRENT.cmd \in {READ, WRITE}
    BY Current DEF CInv, ARequest
  <2> QED  BY <2>1, <2>2 DEF Sole
<1>9. CInv'
  <2>1. Settled(b)'
    BY <1>2, <1>6, <1>8 DEF Settled
  <2>2. \A s \in Slots : request'[s].bh \notin {NULL, b} => request'[s] = request[s]
    BY <1>4
  <2>3. ASSUME NEW s \in Slots, request'[s].bh = b PROVE HalfDone(request[s])'
    <3>1. request'[s] = r
      BY <1>2, <1>4, <1>5, <2>3
    <3> QED  BY <1>2, <3>1 DEF HalfDone
  <2>4. \A k \in Stored : k # b_key[b] => disk'[k] = disk[k]
    BY DEF OnlyHere
  <2> QED  BY <1>2, <1>7, <2>1, <2>2, <2>3, <2>4, OneBufferStep
<1>10. ASSUME NEW k \in Stored \ (failed' \cup NotValid) PROVE Content(k)' = Content(k)
  <2>1. CASE k # b_key[b]
    <3>1. disk'[k] = disk[k]
      BY <2>1 DEF OnlyHere
    <3> QED  BY <1>0, <1>2, <1>7, <2>1, <3>1, OtherBlocks
  <2>2. CASE k = b_key[b]
    <3>1. Content(k)' = IF Cached(b)' THEN b_data'[b] ELSE disk'[k]
      BY <1>2, <2>2, ContentOfNext
    <3>2. Content(k) = IF b_dirt[b] \/ r.cmd = WRITE THEN b_data[b] ELSE disk[k]
      BY <2>2, ContentOfCurrent
    <3>3. Cached(b)' <=> b_dirt[b] \/ r.cmd = WRITE
      BY <1>2, <1>6, <1>8 DEF Cached
    <3> QED  BY <2>2, <3>1, <3>2, <3>3 DEF SameHere
  <2> QED  BY <2>1, <2>2
<1> QED  BY <1>9, <1>10 DEF KeepsContents

(* do_hd_request gives the controller the sector of the buffer, or starts  *)
(* something else.                                                         *)
LEMMA StartedContents ==
  ASSUME CInv, Inv', hd_stop \/ hd_prepare \/ hd_command \/ recal_intr
  PROVE  KeepsContents
<1>1. UNCHANGED <<b_key, b_uptodate, b_dirt, b_data, queue, disk, pc, io>>
  BY DEF hd_stop, hd_prepare, hd_command, recal_intr, Driver, heads
<1>2. ASSUME NEW u \in Tasks PROVE AskedFor(u)'
  <2>1. AskedFor(u)
    BY DEF CInv, Contents
  <2> QED  BY <1>1, <2>1 DEF AskedFor
<1>3. do_hd' = "write_intr" => hd_data' = b_data[CURRENT.bh][Half]
  BY DEF hd_stop, hd_prepare, hd_command, recal_intr
<1>4. CURRENT' = CURRENT
  BY <1>1 DEF CURRENT, Queue, queue
<1>5. Given'
  BY <1>1, <1>3, <1>4 DEF Given, Half
<1> QED  BY <1>1, <1>2, <1>5, SameContents

(* A request that fails: a read leaves the buffer as it was for readers,   *)
(* and the block of a write is one of failed.                              *)
LEMMA FailedContents ==
  ASSUME CInv, Inv', Queue # << >>, end_request(FALSE),
         UNCHANGED <<b_key, b_dirt, b_data, disk, pc, io>>, do_hd' # "write_intr"
  PROVE  KeepsContents
<1>1. PICK b : b = CURRENT.bh
  OBVIOUS
<1>2. CURRENT.cmd = WRITE => b_key[b] \in failed'
  BY <1>1 DEF end_request
<1>3. OnlyHere(b) /\ SameHere(b, b_dirt[b] \/ CURRENT.cmd = WRITE, b_dirt[b] \/ FALSE)
  BY <1>2 DEF OnlyHere, SameHere
<1> QED  BY <1>1, <1>3, EndedContents

(* An error: the request is tried again or has failed. *)
LEMMA ErrorContents ==
  ASSUME CInv, Inv', Queue # << >>, bad_rw_intr,
         UNCHANGED <<b_key, b_dirt, b_data, disk, pc, io>>, do_hd' # "write_intr"
  PROVE  KeepsContents
<1>1. CASE end_request(FALSE)
  BY <1>1, FailedContents
<1>2. CASE /\ request' = [request EXCEPT ![Head(Queue)].errors = @ + 1]
           /\ UNCHANGED b_uptodate
  <2>1. PICK b, h : b = CURRENT.bh /\ h = Head(Queue)
    OBVIOUS
  <2>2. h \in Slots /\ b \in Buffers /\ CURRENT \in ARequest /\ DOMAIN request = Slots
    BY <2>1, Current DEF CInv, Inv, TypeOK
  <2>3. PICK r : r = [CURRENT EXCEPT !.errors = @ + 1]
    OBVIOUS
  <2>4. r.bh = b /\ r.cmd = CURRENT.cmd /\ r.nr_sectors = CURRENT.nr_sectors
    BY <2>1, <2>2, <2>3 DEF ARequest
  <2>5. request' = [request EXCEPT ![Head(Queue)] = r]
    BY <1>2, <2>1, <2>2, <2>3 DEF CURRENT
  <2>6. HalfDone(CURRENT)
    BY <2>1, <2>2 DEF CInv, Contents, CURRENT
  <2>7. ~b_dirt[b] /\ r.nr_sectors = 1 /\ b_key[b] \in Stored => b_data'[b][1] = disk'[b_key[b]][1]
    BY <2>1, <2>2, <2>4, <2>6 DEF HalfDone
  <2>8. Given'
    BY DEF Given
  <2>9. OnlyHere(b) /\ SameHere(b, b_dirt[b] \/ r.cmd = WRITE, b_dirt[b] \/ r.cmd = WRITE)
    BY DEF OnlyHere, SameHere
  <2> QED  BY <1>2, <2>1, <2>4, <2>5, <2>7, <2>8, <2>9, KeptContents
<1> QED  BY <1>1, <1>2 DEF bad_rw_intr

(* read_intr: the sector of the disk is in the buffer; when it is the      *)
(* second one, the buffer is the block.                                    *)
LEMMA ReadContents ==
  ASSUME CInv, Inv', read_intr
  PROVE  KeepsContents
<1>0. Inv /\ HeadsOK /\ DriveOK
  BY TypeParts DEF CInv, Inv
<1>1. Queue # << >> /\ CURRENT.cmd = READ
  BY <1>0 DEF read_intr, Inv, Requests
<1>2. PICK b, k, i : b = CURRENT.bh /\ k = b_key[b] /\ i = Half
  OBVIOUS
<1>3. /\ b \in Buffers /\ k \in Stored /\ Block = k
      /\ CURRENT \in ARequest /\ CURRENT.nr_sectors \in {1, 2} /\ i = 3 - CURRENT.nr_sectors
      /\ Head(Queue) \in Slots
  <2>1. b_key[CURRENT.bh] \in Stored
    BY <1>0 DEF read_intr, Inv, Requests
  <2> QED  BY <1>0, <1>1, <1>2, <2>1, Current
<1>4. b_data \in [Buffers -> Values \X Values] /\ disk \in [Stored -> Values \X Values]
  BY <1>0 DEF HeadsOK, DriveOK
<1>5. PICK p \in Values \X Values, d \in Values \X Values : p = b_data[b] /\ d = disk[k]
  BY <1>3, <1>4
<1>6. /\ b_data' = [b_data EXCEPT ![b] = [p EXCEPT ![i] = d[i]]] /\ disk' = disk
      /\ UNCHANGED <<b_key, b_dirt, pc, io>>
  BY <1>2, <1>3, <1>5 DEF read_intr, Driver
<1>7. b_data'[b] = [p EXCEPT ![i] = d[i]] /\ \A c \in Buffers \ {b} : b_data'[c] = b_data[c]
  BY <1>3, <1>4, <1>6
<1>8. ~b_dirt[b] \/ k \in NotValid
  <2>1. ~b_uptodate[b]
    <3>1. PICK h : h = Head(Queue)
      OBVIOUS
    <3>2. Sole(b, h)
      BY <1>1, <1>2, <3>1, LockedByRequest
    <3> QED  BY <1>1, <3>2 DEF Sole
  <2> QED  BY <1>2, <1>3, <2>1 DEF NotValid
<1>9. READ # WRITE
  BY SMT DEF READ, WRITE
<1>10. CASE end_request(TRUE) /\ do_hd' = "do_hd_request" /\ CURRENT.nr_sectors = 1
  <2>1. i = 2
    BY <1>3, <1>10, SMT
  <2>2. HalfDone(CURRENT)
    BY <1>3 DEF CInv, Contents, CURRENT
  <2>3. ~b_dirt[b] => p[1] = d[1]
    BY <1>2, <1>3, <1>5, <1>10, <2>2 DEF HalfDone
  <2>4. ASSUME ~b_dirt[b] PROVE b_data'[b] = disk[k]
    <3>1. p[1] = d[1] /\ b_data'[b] = [p EXCEPT ![2] = d[2]]
      BY <1>7, <2>1, <2>3, <2>4
    <3>2. PICK q : q = b_data'[b]
      OBVIOUS
    <3>3. q = d
      BY <1>5, <3>1, <3>2, SMTT(30)
    <3> QED  BY <1>5, <3>2, <3>3
  <2>5. OnlyHere(b)
    BY <1>6, <1>7 DEF OnlyHere
  <2>6. SameHere(b, b_dirt[b] \/ CURRENT.cmd = WRITE, b_dirt[b] \/ TRUE)
    BY <1>1, <1>2, <1>8, <1>9, <2>4 DEF SameHere
  <2>7. ~b_dirt[b] => b_data'[b] = disk'[b_key[b]]
    BY <1>2, <1>6, <2>4
  <2> QED  BY <1>1, <1>2, <1>6, <1>10, <2>5, <2>6, <2>7, EndedContents
<1>11. CASE /\ CURRENT.nr_sectors > 1
            /\ request' = [request EXCEPT ![Head(Queue)] = NextSector(CURRENT, 0)]
            /\ UNCHANGED <<do_hd, b_uptodate, failed>>
  <2>1. i = 1 /\ CURRENT.nr_sectors = 2
    BY <1>3, <1>11, SMT
  <2>2. PICK r : r = NextSector(CURRENT, 0)
    OBVIOUS
  <2>3. r.bh = b /\ r.cmd = READ
    BY <1>1, <1>2, <1>3, <2>2 DEF NextSector, ARequest
  <2>4. b_data'[b][1] = disk'[k][1]
    <3>1. b_data'[b] = [p EXCEPT ![1] = d[1]]
      BY <1>7, <2>1
    <3>2. PICK q : q = b_data'[b]
      OBVIOUS
    <3>3. q[1] = d[1]
      BY <1>5, <3>1, <3>2, SMTT(30)
    <3> QED  BY <1>5, <1>6, <3>2, <3>3
  <2>5. Given'
    <3>1. do_hd' = "read_intr"
      BY <1>11 DEF read_intr
    <3> QED  BY <3>1 DEF Given
  <2>6. /\ r.cmd = CURRENT.cmd /\ request' = [request EXCEPT ![Head(Queue)] = r]
        /\ b_data'[b][1] = disk'[b_key[b]][1]
    BY <1>1, <1>2, <1>11, <2>2, <2>3, <2>4
  <2>7. OnlyHere(b) /\ SameHere(b, b_dirt[b] \/ r.cmd = WRITE, b_dirt[b] \/ r.cmd = WRITE)
    <3>1. OnlyHere(b)
      BY <1>6, <1>7 DEF OnlyHere
    <3>2. SameHere(b, b_dirt[b] \/ r.cmd = WRITE, b_dirt[b] \/ r.cmd = WRITE)
      BY <1>2, <1>6, <1>8, <1>9, <2>3 DEF SameHere
    <3> QED  BY <3>1, <3>2
  <2> QED  BY <1>1, <1>2, <1>6, <1>11, <2>3, <2>5, <2>6, <2>7, KeptContents
<1> QED  BY <1>10, <1>11 DEF read_intr

(* write_intr: the sector is on the disk; when it is the second one, the   *)
(* block is the buffer, unless that has been changed meanwhile.            *)
LEMMA WriteContents ==
  ASSUME CInv, Inv', write_intr
  PROVE  KeepsContents
<1>0. Inv /\ HeadsOK /\ DriveOK
  BY TypeParts DEF CInv, Inv
<1>1. Queue # << >> /\ CURRENT.cmd = WRITE
  BY <1>0 DEF write_intr, Inv, Requests
<1>2. PICK b, k, i : b = CURRENT.bh /\ k = b_key[b] /\ i = Half
  OBVIOUS
<1>3. /\ b \in Buffers /\ k \in Stored /\ Block = k
      /\ CURRENT \in ARequest /\ CURRENT.nr_sectors \in {1, 2} /\ i = 3 - CURRENT.nr_sectors
      /\ Head(Queue) \in Slots
  <2>1. b_key[CURRENT.bh] \in Stored
    BY <1>0 DEF write_intr, Inv, Requests
  <2> QED  BY <1>0, <1>1, <1>2, <2>1, Current
<1>4. b_data \in [Buffers -> Values \X Values] /\ disk \in [Stored -> Values \X Values]
  BY <1>0 DEF HeadsOK, DriveOK
<1>5. PICK p \in Values \X Values, d \in Values \X Values : p = b_data[b] /\ d = disk[k]
  BY <1>3, <1>4
<1>6. /\ disk' = [disk EXCEPT ![k] = [d EXCEPT ![i] = hd_data]] /\ b_data' = b_data
      /\ UNCHANGED <<b_key, b_dirt, pc, io>>
  BY <1>2, <1>3, <1>5 DEF write_intr, Driver
<1>7. disk'[k] = [d EXCEPT ![i] = hd_data] /\ \A j \in Stored \ {k} : disk'[j] = disk[j]
  BY <1>3, <1>4, <1>6
<1>8. ~b_dirt[b] => hd_data = p[i]
  <2>1. Given /\ do_hd = "write_intr"
    BY DEF CInv, Contents, write_intr
  <2> QED  BY <1>2, <1>5, <2>1 DEF Given
<1>9. CASE end_request(TRUE) /\ do_hd' = "do_hd_request" /\ CURRENT.nr_sectors = 1
  <2>1. i = 2
    BY <1>3, <1>9, SMT
  <2>2. HalfDone(CURRENT)
    BY <1>3 DEF CInv, Contents, CURRENT
  <2>3. ~b_dirt[b] => d[1] = p[1]
    BY <1>2, <1>3, <1>5, <1>9, <2>2 DEF HalfDone
  <2>4. ASSUME ~b_dirt[b] PROVE disk'[k] = b_data[b]
    <3>1. d[1] = p[1] /\ disk'[k] = [d EXCEPT ![2] = hd_data] /\ hd_data = p[2]
      BY <1>7, <1>8, <2>1, <2>3, <2>4
    <3>2. PICK q, v : q = disk'[k] /\ v = hd_data
      OBVIOUS
    <3>3. q = p
      BY <1>5, <3>1, <3>2, SMTT(30)
    <3> QED  BY <1>5, <3>2, <3>3
  <2>5. OnlyHere(b)
    BY <1>2, <1>6, <1>7 DEF OnlyHere
  <2>6. SameHere(b, b_dirt[b] \/ CURRENT.cmd = WRITE, b_dirt[b] \/ TRUE)
    BY <1>1, <1>6 DEF SameHere
  <2>7. ~b_dirt[b] => b_data'[b] = disk'[b_key[b]]
    BY <1>2, <1>6, <2>4
  <2> QED  BY <1>1, <1>2, <1>6, <1>9, <2>5, <2>6, <2>7, EndedContents
<1>10. CASE /\ CURRENT.nr_sectors > 1
            /\ request' = [request EXCEPT ![Head(Queue)] = NextSector(CURRENT, CURRENT.errors)]
            /\ hd_data' = b_data[CURRENT.bh][Half + 1]
            /\ UNCHANGED <<do_hd, b_uptodate, current_request, failed>>
  <2>1. i = 1 /\ CURRENT.nr_sectors = 2
    BY <1>3, <1>10, SMT
  <2>2. PICK c \in ARequest : c = CURRENT
    BY <1>3
  <2>3. PICK n : n = b_key[CURRENT.bh][2]
    OBVIOUS
  <2>4. n \in Nat /\ c.sector = 2 * n
    <3>1. n \in Nat /\ c.sector = 2 * n + (2 - c.nr_sectors) /\ c.nr_sectors = 2
      BY <1>0, <1>1, <2>1, <2>2, <2>3, Current, Constants
    <3> QED  BY <3>1, SMTT(30)
  <2>5. PICK e \in 0..MAX_ERRORS - 1 : e = CURRENT.errors
    BY <1>3 DEF ARequest
  <2>6. PICK r : r = NextSector(c, e)
    OBVIOUS
  <2>7. r.bh = b /\ r.cmd = CURRENT.cmd /\ r.sector = 2 * n + 1
    <3>1. r.bh = c.bh /\ r.cmd = c.cmd /\ r.sector = 2 * n + 1
      <4>1. c.nr_sectors = 2
        BY <2>1, <2>2
      <4> QED  BY <2>4, <2>6, <4>1, OtherHalf, SMT
    <3> QED  BY <1>2, <2>2, <3>1
  <2>8. request' = [request EXCEPT ![Head(Queue)] = r]
    BY <1>10, <2>2, <2>5, <2>6
  <2>9. CURRENT' = r
    <3>1. DOMAIN request = Slots
      BY <1>0 DEF DriveOK
    <3>2. Queue' = Queue
      BY <1>10 DEF Queue
    <3> QED  BY <1>3, <2>8, <3>1, <3>2 DEF CURRENT
  <2>10. Half' = 2 /\ Half + 1 = 2
    <3>1. Half' = (r.sector % 2) + 1
      BY <2>9 DEF Half
    <3>2. (2 * n + 1) % 2 = 1
      BY <2>4, SMTT(30)
    <3>3. 1 + 1 = 2
      BY SMT
    <3> QED  BY <1>2, <2>1, <2>7, <3>1, <3>2, <3>3
  <2>11. Given'
    BY <1>2, <1>6, <1>10, <2>7, <2>9, <2>10 DEF Given
  <2>12. ASSUME ~b_dirt[b] PROVE b_data'[b][1] = disk'[k][1]
    <3>1. disk'[k] = [d EXCEPT ![1] = hd_data] /\ hd_data = p[1]
      BY <1>7, <1>8, <2>1, <2>12
    <3>2. PICK q, v : q = disk'[k] /\ v = hd_data
      OBVIOUS
    <3>3. q[1] = v
      BY <1>5, <3>1, <3>2, SMTT(30)
    <3> QED  BY <1>5, <1>6, <3>1, <3>2, <3>3
  <2>13. ~b_dirt[b] => b_data'[b][1] = disk'[b_key[b]][1]
    BY <1>2, <2>12
  <2>14. OnlyHere(b)
    BY <1>2, <1>6, <1>7 DEF OnlyHere
  <2>15. SameHere(b, b_dirt[b] \/ r.cmd = WRITE, b_dirt[b] \/ r.cmd = WRITE)
    BY <1>1, <1>6, <2>7 DEF SameHere
  <2> QED  BY <1>1, <1>2, <1>6, <1>10, <2>7, <2>8, <2>11, <2>13, <2>14, <2>15, KeptContents
<1> QED  BY <1>9, <1>10 DEF write_intr

(* The driver, all of it. *)
LEMMA DriverContents ==
  ASSUME CInv, Inv', do_hd_request \/ hd_interrupt
  PROVE  KeepsContents
<1>1. CASE hd_bad_sector
  BY <1>1, FailedContents DEF hd_bad_sector, Driver
<1>2. CASE hd_no_drq
  BY <1>2, ErrorContents DEF hd_no_drq, Driver
<1>3. CASE hd_error
  <2>1. Queue # << >>
    BY <1>3 DEF hd_error, CInv, Inv, Requests
  <2> QED  BY <1>3, <2>1, ErrorContents DEF hd_error, Driver
<1> QED  BY <1>1, <1>2, <1>3, StartedContents, ReadContents, WriteContents
         DEF do_hd_request, hd_interrupt

(* Nothing has been read or written yet. *)
LEMMA InitContents == Init => Contents
<1> SUFFICES ASSUME Init PROVE Contents
  OBVIOUS
<1>1. Idle.bh = NULL
  BY SMTT(30) DEF Idle
<1> QED  BY <1>1, Constants DEF Init, Contents, Settled, AskedFor, HalfDone, Given

(* A step of the cache or of the driver keeps Contents, and changes what   *)
(* readers get only where Modify does.                                     *)
LEMMA NextContents ==
  ASSUME CInv, [Next]_vars
  PROVE  /\ CInv'
         /\ \A k \in Stored \ (failed' \cup NotValid) :
              Content(k)' # Content(k) => \E t \in Tasks : Modify(t) /\ b_key[bh[t]] = k
<1>0. Inv /\ Inv' /\ Counting
  BY NextInv, CountingHolds DEF CInv
<1>1. ASSUME NEW t \in Tasks, Task(t), ~Modify(t) PROVE KeepsContents
  <2>1. CASE getblk_victim(t) /\ TakeVictim(t)
    <3>1. pc' = [pc EXCEPT ![t] = "got"] /\ DOMAIN pc = Tasks
      BY <1>0, <2>1, TypeParts DEF TakeVictim, Goto, Inv, TasksOK
    <3>2. pc'[t] = "got"
      BY <3>1
    <3>3. "got" # "getblk" /\ "got" # "sync"
      OBVIOUS
    <3>4. ~Repeat(t) /\ ~CleanVictim(t)
      BY <3>1, <3>2, <3>3 DEF Repeat, CleanVictim, Goto
    <3> QED  BY <1>0, <2>1, <3>4, VictimContents
  <2>2. CASE make_request(t) \/ no_request(t) \/ add_request(t)
    BY <1>0, <2>2, MakeContents, NoRequestContents, AddContents
  <2> QED  BY <1>0, <1>1, <2>1, <2>2, TaskContents
<1>2. ASSUME NEW t \in Tasks, Modify(t)
      PROVE  CInv' /\ \A k \in Stored : k # b_key[bh[t]] => Content(k)' = Content(k)
  BY <1>0, <1>2, ModifyContents
<1>3. CASE UNCHANGED vars
  <2>1. UNCHANGED <<b_key, b_uptodate, b_dirt, b_data, queue, drive, pc, io>>
    BY <1>3 DEF vars, heads
  <2>2. NoNewRequest
    BY <2>1 DEF NoNewRequest
  <2>3. KeepsContents
    BY <1>0, <2>1, <2>2, QuietContents
  <2> QED  BY <2>3 DEF KeepsContents
<1>4. CASE do_hd_request \/ hd_interrupt
  BY <1>0, <1>4, DriverContents DEF KeepsContents
<1>5. CASE \E t \in Tasks : Task(t) /\ ~Modify(t)
  BY <1>1, <1>5 DEF KeepsContents
<1>6. CASE \E t \in Tasks : Modify(t)
  BY <1>2, <1>6
<1> QED  BY <1>3, <1>4, <1>5, <1>6 DEF Next

(* Only a task that changes a buffer it holds changes what readers of its  *)
(* block get: eviction, write-out, read-in, the elevator of add_request    *)
(* and the retries of the driver lose nothing.                             *)
THEOREM ContentsKeptHolds == Spec => ContentsKept
<1>1. Init => CInv
  BY InitInv, InitContents DEF CInv
<1>2. CInv /\ [Next]_vars => CInv'
  BY NextContents
<1>3. CInv /\ [Next]_vars =>
        [\A k \in Stored \ (failed' \cup NotValid) :
           Content(k)' # Content(k) => \E t \in Tasks : Modify(t) /\ b_key[bh[t]] = k]_vars
  BY NextContents
<1> QED  BY <1>1, <1>2, <1>3, PTL DEF Spec, ContentsKept

=============================================================================
