---------------------------- MODULE BufferSteps ----------------------------
(***************************************************************************)
(* The inductive invariant of the buffer cache, and the proof that every   *)
(* action keeps it, for any number of tasks, buffers and requests.         *)
(*                                                                         *)
(* Inv adds to the invariants that are checked what a task has in its      *)
(* variables at each place of its code (Control), who has locked a buffer  *)
(* (Locks), that the free list and the hash queues agree with the names of *)
(* the buffers (Names), and that the queue of the disk holds the requests  *)
(* the driver expects (Requests).  There is one lemma per action; the      *)
(* lemmas before them say what the steps of a task have in common.         *)
(* CInv adds to Inv what buffers, requests and the disk have of a block    *)
(* (Contents); BufferCacheProofs has the rest of its steps.                *)
(*                                                                         *)
(* The facts about finite sets that the lemmas rest on are collected in    *)
(* Counting, which BufferCacheProofs proves from the library's theorems.   *)
(***************************************************************************)
EXTENDS BufferCache, TLAPS

(* A list has b on it; a list has nothing on it twice. *)
On(s, b) == \E i \in DOMAIN s : s[i] = b

Once(s)  == \A i, j \in DOMAIN s : s[i] = s[j] => i = j

(* Whether x is the buffer b, as a number. *)
In(x, b) == IF x = b THEN 1 ELSE 0

(* How many tasks a function gives the value b. *)
Users(f, b) == Cardinality({u \in Tasks : f[u] = b})

(* Two functions on the tasks differ at t at most; what this means for the *)
(* number of tasks that have b.                                            *)
SameBut(f, g, t) == \A u \in Tasks \ {t} : f[u] = g[u]

Moved(f, g, t, b) ==
  Users(f, b) \in Nat /\ Users(g, b) = Users(f, b) + (In(g[t], b) - In(f[t], b))

(* What the steps need to know of finite sets: the first and the last      *)
(* place of a list exist; how many tasks have a buffer is a number, which  *)
(* changes with what one task takes and gives up; and the tasks in breada, *)
(* which are fewer than the buffers, cannot have them all.                 *)
Least == \A S \in SUBSET Nat : S # {} => Min(S) \in S /\ \A y \in S : Min(S) <= y

Last == \A S \in SUBSET (0..NR_REQUEST) : S # {} => Max(S) \in S

Counted ==
  \A f, b : Users(f, b) \in Nat /\ (Users(f, b) = 0 <=> \A u \in Tasks : f[u] # b)

Recounting ==
  \A f, g, b : \A t \in Tasks : SameBut(f, g, t) => Moved(f, g, t, b)

OneLeft == \A f : \E b \in Buffers : \A u \in Tasks : "ahead" \in Ops[u] => f[u] # b

Counting == Least /\ Last /\ Counted /\ Recounting /\ OneLeft

-----------------------------------------------------------------------------
(* Min, Max and the operations on lists. *)
USE ZenonT(30)

(* The least place, which find_buffer, getblk and add_request stop at,     *)
(* exists.                                                                 *)
LEMMA MinIn ==
  ASSUME Counting, NEW S \in SUBSET Nat, S # {}
  PROVE  Min(S) \in S /\ \A y \in S : Min(S) <= y
BY DEF Counting, Least

(* The last free request, where make_request starts to look, exists. *)
LEMMA MaxIn ==
  ASSUME Counting, NEW S \in SUBSET (0..NR_REQUEST), S # {}
  PROVE  Max(S) \in S
BY DEF Counting, Last

(* remove_from_queues leaves the other buffers on the list. *)
LEMMA ListWithout ==
  ASSUME Counting, NEW S, NEW s \in Seq(S), Once(s), NEW e
  PROVE  /\ Without(s, e) \in Seq(S) /\ Once(Without(s, e))
         /\ \A c : On(Without(s, e), c) <=> On(s, c) /\ c # e
<1> DEFINE I == {i \in DOMAIN s : s[i] = e}  L == Len(s)  m == Min(I)
           r == [i \in 1..L - 1 |-> IF i < m THEN s[i] ELSE s[i + 1]]
<1>1. L \in Nat /\ DOMAIN s = 1..L /\ \A i \in 1..L : s[i] \in S
  BY SMT
<1>2. CASE I = {}
  <2>1. Without(s, e) = s /\ ~On(s, e)
    BY <1>2 DEF Without, On
  <2> QED  BY <2>1
<1>3. CASE I # {}
  <2>1. m \in I
    <3>1. I \in SUBSET Nat
      BY <1>1, SMT
    <3> QED  BY <3>1, <1>3, MinIn
  <2>2. Without(s, e) = r
    BY <1>3 DEF Without
  <2> HIDE DEF m
  <2>3. m \in 1..L /\ s[m] = e
    BY <2>1, <1>1
  <2> HIDE DEF I, L
  <2>4. r \in Seq(S) /\ DOMAIN r = 1..L - 1
    BY <1>1, SMTT(30)
  <2>5. \A i \in 1..L - 1 : \E j \in 1..L : j # m /\ r[i] = s[j] /\ j = (IF i < m THEN i ELSE i + 1)
    BY <1>1, <2>3, SMTT(30)
  <2>6. \A j \in 1..L : j # m => \E i \in 1..L - 1 : r[i] = s[j]
    <3> SUFFICES ASSUME NEW j \in 1..L, j # m PROVE \E i \in 1..L - 1 : r[i] = s[j]
      OBVIOUS
    <3>1. CASE j < m
      BY <3>1, <1>1, <2>3, SMTT(30)
    <3>2. CASE j > m
      <4>1. j - 1 \in 1..L - 1 /\ ~(j - 1 < m) /\ (j - 1) + 1 = j
        BY <3>2, <1>1, <2>3, SMTT(30)
      <4> QED  BY <4>1
    <3> QED  BY <3>1, <3>2, <1>1, <2>3, SMTT(30)
  <2> HIDE DEF r
  <2>7. Once(r)
    <3> SUFFICES ASSUME NEW i \in 1..L - 1, NEW k \in 1..L - 1, r[i] = r[k] PROVE i = k
      BY <2>4 DEF Once
    <3>1. (IF i < m THEN i ELSE i + 1) = (IF k < m THEN k ELSE k + 1)
      BY <1>1, <2>5 DEF Once
    <3> QED  BY <3>1, <1>1, <2>3, SMTT(30)
  <2>8. ASSUME NEW c PROVE On(r, c) <=> On(s, c) /\ c # e
    <3>1. ASSUME On(r, c) PROVE On(s, c) /\ c # e
      <4>1. PICK j \in 1..L : j # m /\ s[j] = c
        BY <3>1, <2>4, <2>5 DEF On
      <4> QED  BY <4>1, <1>1, <2>3 DEF On, Once
    <3>2. ASSUME On(s, c), c # e PROVE On(r, c)
      BY <3>2, <1>1, <2>3, <2>4, <2>6 DEF On
    <3> QED  BY <3>1, <3>2
  <2> QED  BY <2>2, <2>4, <2>7, <2>8
<1> QED  BY <1>2, <1>3

(* add_request links a request behind another one: the first one of the    *)
(* queue, which the driver serves, stays the first.                        *)
LEMMA ListInsert ==
  ASSUME NEW S, NEW q \in Seq(S), Once(q), NEW i \in 0..Len(q), NEW e \in S, ~On(q, e)
  PROVE  /\ InsertBehind(q, i, e) \in Seq(S) /\ Once(InsertBehind(q, i, e))
         /\ \A c : On(InsertBehind(q, i, e), c) <=> c = e \/ On(q, c)
         /\ i > 0 => InsertBehind(q, i, e) # << >> /\ Head(InsertBehind(q, i, e)) = Head(q)
<1> DEFINE L == Len(q)
           r == [j \in 1..L + 1 |-> IF j <= i THEN q[j] ELSE IF j = i + 1 THEN e ELSE q[j - 1]]
           From(j) == IF j <= i THEN j ELSE j - 1
<1>1. L \in Nat /\ DOMAIN q = 1..L /\ (\A j \in 1..L : q[j] \in S) /\ i \in 0..L
  BY SMT
<1>2. InsertBehind(q, i, e) = r
  BY DEF InsertBehind
<1> HIDE DEF L
<1>3. r \in Seq(S) /\ DOMAIN r = 1..L + 1 /\ i + 1 \in 1..L + 1 /\ r[i + 1] = e
  BY <1>1, SMTT(30)
<1>4. \A j \in 1..L + 1 : j # i + 1 => From(j) \in 1..L /\ r[j] = q[From(j)]
  BY <1>1, SMTT(30)
<1>5. \A j \in 1..L : \E k \in 1..L + 1 : r[k] = q[j]
  <2> SUFFICES ASSUME NEW j \in 1..L PROVE \E k \in 1..L + 1 : r[k] = q[j]
    OBVIOUS
  <2>1. CASE j <= i
    BY <2>1, <1>1, SMTT(30)
  <2>2. CASE ~(j <= i)
    <3>1. j + 1 \in 1..L + 1 /\ ~(j + 1 <= i) /\ j + 1 # i + 1 /\ (j + 1) - 1 = j
      BY <2>2, <1>1, SMTT(30)
    <3> QED  BY <3>1
  <2> QED  BY <2>1, <2>2
<1>6. ASSUME i > 0 PROVE r # << >> /\ Head(r) = Head(q)
  <2>1. q # << >> /\ Head(q) = q[1] /\ r # << >>
    BY <1>1, <1>3, <1>6, SMTT(30) DEF L
  <2>2. Head(r) = r[1] /\ r[1] = q[1]
    BY <1>1, <1>3, <1>6, <2>1, SMTT(30)
  <2> QED  BY <2>1, <2>2
<1> HIDE DEF r, From
<1>7. Once(r)
  <2> SUFFICES ASSUME NEW j \in 1..L + 1, NEW k \in 1..L + 1, r[j] = r[k] PROVE j = k
    BY <1>3 DEF Once
  <2>1. \A n \in 1..L + 1 : r[n] = e => n = i + 1
    BY <1>1, <1>4 DEF On
  <2>2. CASE j # i + 1 /\ k # i + 1
    <3>1. From(j) = From(k)
      BY <2>2, <1>1, <1>4 DEF Once
    <3> QED  BY <2>2, <3>1, <1>1, SMTT(30) DEF From
  <2> QED  BY <2>1, <2>2, <1>3
<1>8. ASSUME NEW c PROVE On(r, c) <=> c = e \/ On(q, c)
  <2>1. ASSUME On(r, c) PROVE c = e \/ On(q, c)
    BY <2>1, <1>1, <1>3, <1>4 DEF On
  <2>2. ASSUME c = e \/ On(q, c) PROVE On(r, c)
    BY <2>2, <1>1, <1>3, <1>5 DEF On
  <2> QED  BY <2>1, <2>2
<1> QED  BY <1>2, <1>3, <1>6, <1>7, <1>8

(* insert_into_queues: the end of the free list, the front of a hash queue. *)
LEMMA ListWith ==
  ASSUME NEW S, NEW s \in Seq(S), Once(s), NEW e \in S, ~On(s, e)
  PROVE  /\ Append(s, e) \in Seq(S) /\ Once(Append(s, e))
         /\ \A c : On(Append(s, e), c) <=> c = e \/ On(s, c)
         /\ <<e>> \o s \in Seq(S) /\ Once(<<e>> \o s)
         /\ \A c : On(<<e>> \o s, c) <=> c = e \/ On(s, c)
<1>1. Len(s) \in Nat /\ Len(s) \in 0..Len(s) /\ 0 \in 0..Len(s)
  BY SMT
<1>2. Append(s, e) = InsertBehind(s, Len(s), e)
  <2>1. ASSUME NEW r, r = Append(s, e) PROVE r = InsertBehind(s, Len(s), e)
    <3>1. r \in Seq(S) /\ Len(r) = Len(s) + 1
      BY <2>1, SMT
    <3>2. \A j \in 1..Len(s) + 1 :
            r[j] = IF j <= Len(s) THEN s[j] ELSE IF j = Len(s) + 1 THEN e ELSE s[j - 1]
      BY <2>1, SMT
    <3> QED  BY <3>1, <3>2, SMTT(30) DEF InsertBehind
  <2> QED  BY <2>1
<1>3. <<e>> \o s = InsertBehind(s, 0, e)
  <2> DEFINE r == <<e>> \o s
  <2>1. r \in Seq(S) /\ Len(r) = Len(s) + 1
    BY SMT
  <2>2. \A j \in 1..Len(s) + 1 : r[j] = IF j = 1 THEN e ELSE s[j - 1]
    BY SMT
  <2> QED  BY <2>1, <2>2, SMTT(30) DEF InsertBehind
<1>4. ASSUME NEW i \in 0..Len(s)
      PROVE  /\ InsertBehind(s, i, e) \in Seq(S) /\ Once(InsertBehind(s, i, e))
             /\ \A c : On(InsertBehind(s, i, e), c) <=> c = e \/ On(s, c)
  BY ListInsert
<1>5. /\ Append(s, e) \in Seq(S) /\ Once(Append(s, e))
      /\ \A c : On(Append(s, e), c) <=> c = e \/ On(s, c)
  BY <1>1, <1>2, <1>4
<1>6. /\ <<e>> \o s \in Seq(S) /\ Once(<<e>> \o s)
      /\ \A c : On(<<e>> \o s, c) <=> c = e \/ On(s, c)
  BY <1>1, <1>3, <1>4
<1> QED  BY <1>5, <1>6

(* A queue with one request. *)
LEMMA OneEntry ==
  ASSUME NEW S, NEW e \in S
  PROVE  <<e>> \in Seq(S) /\ Once(<<e>>) /\ \A c : On(<<e>>, c) <=> c = e
<1>1. <<e>> \in Seq(S) /\ DOMAIN <<e>> = 1..1 /\ <<e>>[1] = e
  BY SMT
<1>2. 1 \in 1..1 /\ \A i \in 1..1 : i = 1
  BY SMTT(30)
<1> QED  BY <1>1, <1>2 DEF On, Once

(* end_request takes the first one off. *)
LEMMA ListTail ==
  ASSUME NEW S, NEW q \in Seq(S), Once(q), q # << >>
  PROVE  /\ Head(q) \in S /\ On(q, Head(q)) /\ Tail(q) \in Seq(S) /\ Once(Tail(q))
         /\ \A c : On(Tail(q), c) <=> On(q, c) /\ c # Head(q)
<1> DEFINE L == Len(q)  T == Tail(q)
<1>1. /\ L \in Nat \ {0} /\ DOMAIN q = 1..L /\ Head(q) = q[1] /\ (\A i \in 1..L : q[i] \in S)
  BY SMT
<1>2. T \in Seq(S) /\ DOMAIN T = 1..L - 1 /\ \A i \in 1..L - 1 : T[i] = q[i + 1]
  BY SMT
<1> HIDE DEF L, T
<1>3. 1 \in 1..L
  BY <1>1, SMTT(30)
<1>4. \A i \in 1..L - 1 : i + 1 \in 1..L /\ i + 1 # 1
  BY <1>1, SMTT(30)
<1>5. \A i \in 1..L : i # 1 => \E j \in 1..L - 1 : T[j] = q[i]
  <2>1. \A i \in 1..L : i # 1 => i - 1 \in 1..L - 1 /\ (i - 1) + 1 = i
    BY <1>1, SMTT(30)
  <2> QED  BY <1>2, <2>1
<1>6. Once(T)
  <2> SUFFICES ASSUME NEW i \in 1..L - 1, NEW j \in 1..L - 1, T[i] = T[j] PROVE i = j
    BY <1>2 DEF Once
  <2>1. i + 1 = j + 1
    BY <1>1, <1>2, <1>4 DEF Once
  <2> QED  BY <2>1, <1>1, SMTT(30)
<1>7. ASSUME NEW c PROVE On(T, c) <=> On(q, c) /\ c # Head(q)
  <2>1. ASSUME On(T, c) PROVE On(q, c) /\ c # Head(q)
    <3>1. PICK i \in 1..L : i # 1 /\ q[i] = c
      BY <2>1, <1>2, <1>4 DEF On
    <3> QED  BY <3>1, <1>1, <1>3 DEF On, Once
  <2>2. ASSUME On(q, c), c # Head(q) PROVE On(T, c)
    BY <2>2, <1>1, <1>2, <1>5 DEF On
  <2> QED  BY <2>1, <2>2
<1> QED  BY <1>1, <1>2, <1>3, <1>6, <1>7 DEF T, On

-----------------------------------------------------------------------------
(* The inductive invariant. *)

(* What a task has in its variables at a place of its code: bh and first   *)
(* point to buffers where the code uses them and are clear elsewhere, and  *)
(* the block it wants is one of those breada was called for.               *)
InCall(t) == Site(t) # "user" /\ op[t] # "sync"

BuffersOf(t) ==
  /\ Site(t) \in {"user", "getblk", "buffer_wait", "va_arg"} => bh[t] = NULL
  /\ Site(t) \in {"hashed", "victim", "got", "held", "read_wait", "count_down", "brelse"} =>
       bh[t] \in Buffers
  /\ Site(t) = "sync" => IF op[t] = "sync" THEN bh[t] = NULL ELSE bh[t] \in Buffers
  /\ Site(t) \in {"va_arg", "count_down"} => first[t] \in Buffers
  /\ Site(t) \in {"user", "held", "read_wait", "brelse"} \/ op[t] # "ahead" => first[t] = NULL

CallOf(t) ==
  /\ op[t] = "sync" => Site(t) = "sync"
  /\ op[t] = "ahead" => "ahead" \in Ops[t]
  /\ InCall(t) => \E k \in Wanted, n \in 0..Ahead : want[t] = Later(k, n) /\ n + ahead[t] <= Ahead

IoOf(t) ==
  pc[t] \in {"make_request", "request"} =>
    /\ io[t].bh \in Buffers
    /\ io[t].ret \in {"read_wait", "va_arg", "count_down", "sync"}
    /\ io[t].ret = "read_wait" => io[t].bh = bh[t]
    /\ io[t].ret \in {"va_arg", "count_down"} => io[t].bh = first[t]

(* What it knows of a buffer: a buffer found is the one asked for, a       *)
(* buffer in ll_rw_block is one of a driver, and sync_dev, which does not  *)
(* hold the buffer, has not slept since it looked at it.                   *)
KeysOf(t) ==
  /\ pc[t] = "hashed" => b_key[bh[t]] = want[t]
  /\ pc[t] \in {"make_request", "request"} => b_key[io[t].bh][1] \in Drivers

AwakeOf(t) ==
  pc[t] = "make_request" /\ io[t].ret = "sync" => cpu = t /\ ~b_lock[io[t].bh]

ControlOf(t) == BuffersOf(t) /\ CallOf(t) /\ IoOf(t) /\ KeysOf(t) /\ AwakeOf(t)

Control == \A t \in Tasks : ControlOf(t)

(* Who has locked a buffer: one task before add_request, or one request. *)
Asks(t, b)   == pc[t] = "request" /\ io[t].bh = b

Serves(s, b) == request[s].bh = b

LocksOf(b) ==
  /\ \A t, u \in Tasks : Asks(t, b) /\ Asks(u, b) => t = u
  /\ \A s, r \in Slots : Serves(s, b) /\ Serves(r, b) => s = r
  /\ \A t \in Tasks, s \in Slots : ~(Asks(t, b) /\ Serves(s, b))
  /\ b_lock[b] <=> (\E t \in Tasks : Asks(t, b)) \/ (\E s \in Slots : Serves(s, b))

Locks == \A b \in Buffers : LocksOf(b)

(* All buffers are on the free list, and those with a name are on the hash *)
(* queue of that name and on no other.                                     *)
Names ==
  /\ free_list \in Seq(Buffers) /\ Once(free_list)
  /\ \A b \in Buffers : On(free_list, b)
  /\ hash_table \in [{hash(k) : k \in Keys} -> Seq(Buffers)]
  /\ \A h \in DOMAIN hash_table : Once(hash_table[h])
  /\ \A h \in DOMAIN hash_table, b \in Buffers :
       On(hash_table[h], b) <=> b_key[b] # NoKey /\ h = hash(b_key[b])
  /\ \A b, c \in Buffers : b_key[b] = b_key[c] /\ b_key[b] # NoKey => b = c

(* A request of the disk's queue, and the place in its block it has got to. *)
Pending(s) ==
  /\ request[s].dev = HARD /\ request[s].bh \in Buffers
  /\ b_key[request[s].bh] \in Keys /\ b_key[request[s].bh][1] = HARD
  /\ request[s].nr_sectors \in {1, 2}
  /\ request[s].sector = 2 * b_key[request[s].bh][2] + (2 - request[s].nr_sectors)

(* The handler that waits for an interrupt has a request, of its kind and  *)
(* within the disk.                                                        *)
Requests ==
  /\ current_request \in [Drivers -> Seq(Slots)]
  /\ current_request[RAMDISK] = << >>
  /\ Once(Queue)
  /\ \A s \in Slots : IF On(Queue, s) THEN Pending(s) ELSE request[s] = Idle
  /\ Queue # << >> => do_hd # "NULL"
  /\ do_hd \in {"read_intr", "write_intr", "recal_intr"} =>
       Queue # << >> /\ b_key[CURRENT.bh] \in Stored
  /\ do_hd = "read_intr" => CURRENT.cmd = READ
  /\ do_hd = "write_intr" => CURRENT.cmd = WRITE

Inv ==
  /\ TypeOK /\ Control /\ Locks /\ Names /\ Requests /\ CountsUsers /\ NoStrandedSleeper

(* TypeOK by the part of the state it is about. *)
HeadsOK ==
  /\ b_key \in [Buffers -> Keys \cup {NoKey}]
  /\ b_uptodate \in [Buffers -> BOOLEAN] /\ b_dirt \in [Buffers -> BOOLEAN]
  /\ b_lock \in [Buffers -> BOOLEAN] /\ b_count \in [Buffers -> Nat]
  /\ b_data \in [Buffers -> Values \X Values]

ARequest == [dev : {NULL} \cup Drivers, cmd : {READ, WRITE}, bh : {NULL} \cup Buffers,
             sector : Nat, nr_sectors : 0..2, errors : 0..MAX_ERRORS - 1]

DriveOK ==
  /\ disk \in [Stored -> Values \X Values] /\ hd_data \in Values
  /\ request \in [Slots -> ARequest]
  /\ do_hd \in HdPlaces /\ reset \in BOOLEAN /\ recalibrate \in BOOLEAN
  /\ faults \in 0..MaxFaults /\ failed \subseteq Keys

TasksOK ==
  /\ cpu \in Tasks \cup {Nobody}
  /\ pc \in [Tasks -> Places] /\ op \in [Tasks -> Operations]
  /\ want \in [Tasks -> Keys \cup {NoKey}]
  /\ bh \in [Tasks -> Buffers \cup {NULL}] /\ first \in [Tasks -> Buffers \cup {NULL}]
  /\ ahead \in [Tasks -> 0..Ahead]
  /\ scan \in [Tasks -> [dev : 0..3, pass : 1..2, next : 1..NR_BUFFERS + 1]]
  /\ io \in [Tasks -> [rw : {READ, WRITE, READA}, bh : Buffers \cup {NULL}, ret : Places]]

(* A step of a task leaves the variables of the other tasks alone; it may   *)
(* wake the sleepers of buffer_wait.                                       *)
OthersKept(t) ==
  \A u \in Tasks \ {t} :
    /\ pc'[u] = pc[u] \/ (pc[u] = "buffer_wait" /\ pc'[u] = "getblk")
    /\ op'[u] = op[u] /\ want'[u] = want[u] /\ ahead'[u] = ahead[u]
    /\ bh'[u] = bh[u] /\ first'[u] = first[u] /\ io'[u] = io[u]

(* A step of a task changes the counts by what it takes and gives up. *)
Recounts(t) ==
  \A b \in Buffers :
    b_count'[b] = b_count[b] + (In(Holds(t)', b) - In(Holds(t), b))
                             + (In(first'[t], b) - In(first[t], b))

-----------------------------------------------------------------------------
(* What the steps of tasks have in common. *)
USE ConstantsOK DEF NULL

(* TypeOK, taken apart; the same for the next state. *)
LEMMA TypeParts == TypeOK <=> HeadsOK /\ DriveOK /\ TasksOK
BY DEF TypeOK, HeadsOK, DriveOK, TasksOK, ARequest, NULL

(* TypeOK in the next state, put together from the parts a step changes. *)
LEMMA TypePartsNext == TypeOK' <=> HeadsOK' /\ DriveOK' /\ TasksOK'
BY DEF TypeOK, HeadsOK, DriveOK, TasksOK, ARequest, NULL

(* Buffers and blocks are not confused with the absence of one. *)
LEMMA Constants ==
  /\ NULL \notin Buffers /\ Nobody \notin Tasks
  /\ NoKey \notin Keys
  /\ \A k \in Wanted, n \in 0..Ahead : Later(k, n) \in Keys
  /\ \A k \in Keys : k[1] \in 1..3 /\ k[2] \in Nat /\ k = <<k[1], k[2]>>
<1>1. NULL \notin Buffers
  BY SMT DEF Buffers
<1>2. \A k \in Wanted, n \in 0..Ahead : Later(k, n) \in Keys
  BY SMT DEF Keys
<1>3. ASSUME NEW k \in Keys PROVE k[1] \in 1..3 /\ k[2] \in Nat /\ k = <<k[1], k[2]>>
  <2>1. PICK w \in Wanted, n \in 0..Ahead : k = Later(w, n)
    BY SMT DEF Keys
  <2>2. w[1] \in 1..3 /\ w[2] \in Nat
    OBVIOUS
  <2> QED  BY <2>1, <2>2, SMT DEF Later
<1>4. NoKey \notin Keys
  <2>1. NoKey[1] = 0
    BY DEF NoKey
  <2> QED  BY <2>1, <1>3, SMTT(30)
<1> QED  BY <1>1, <1>2, <1>3, <1>4

(* The invariant of one task does not depend on the steps of another, as   *)
(* long as no buffer it has is given another name.                         *)
LEMMA OthersControlled ==
  ASSUME TasksOK, Control, NEW t \in Tasks, OthersKept(t), cpu \in {t, Nobody}, ControlOf(t)',
         \A u \in Tasks \ {t} : KeysOf(u) => KeysOf(u)'
  PROVE  Control'
<1> SUFFICES ASSUME NEW u \in Tasks, u # t PROVE ControlOf(u)'
  BY DEF Control
<1>1. /\ pc'[u] = pc[u] \/ (pc[u] = "buffer_wait" /\ pc'[u] = "getblk")
      /\ op'[u] = op[u] /\ want'[u] = want[u] /\ ahead'[u] = ahead[u]
      /\ bh'[u] = bh[u] /\ first'[u] = first[u] /\ io'[u] = io[u]
  BY DEF OthersKept
<1>2. ControlOf(u)
  BY DEF Control
<1>3. Site(u)' = Site(u) \/ (Site(u) = "buffer_wait" /\ Site(u)' = "getblk")
  BY <1>1 DEF Site
<1>4. BuffersOf(u)' /\ CallOf(u)' /\ IoOf(u)'
  <2>1. BuffersOf(u)'
    BY <1>1, <1>2, <1>3 DEF ControlOf, BuffersOf
  <2>2. CallOf(u)'
    <3>1. op[u] = "sync" => Site(u)' = "sync"
      BY <1>2, <1>3 DEF ControlOf, CallOf
    <3>2. InCall(u)' => InCall(u)
      BY <1>1, <1>3 DEF InCall
    <3> QED  BY <1>1, <1>2, <3>1, <3>2 DEF ControlOf, CallOf
  <2>3. IoOf(u)'
    BY <1>1, <1>2 DEF ControlOf, IoOf
  <2> QED  BY <2>1, <2>2, <2>3
<1>5. AwakeOf(u)'
  <2>1. cpu # u
    BY Constants
  <2> QED  BY <2>1, <1>1, <1>2 DEF ControlOf, AwakeOf
<1>6. KeysOf(u)'
  BY <1>2 DEF ControlOf
<1> QED  BY <1>4, <1>5, <1>6 DEF ControlOf

(* What a task knows of a buffer stays true while no buffer is renamed. *)
LEMMA SameKeys ==
  ASSUME NEW t \in Tasks, OthersKept(t), b_key' = b_key
  PROVE  \A u \in Tasks \ {t} : KeysOf(u) => KeysOf(u)'
BY DEF OthersKept, KeysOf

(* A task that takes a buffer, or gives it up, is one user more or less. *)
LEMMA MovedUser ==
  ASSUME Counting, NEW f, NEW g, NEW t \in Tasks, SameBut(f, g, t), NEW b
  PROVE  Moved(f, g, t, b)
BY DEF Counting, Recounting

(* A step of one task takes no buffer from another, nor gives it one. *)
LEMMA OthersHold ==
  ASSUME NEW t \in Tasks, OthersKept(t)
  PROVE  \A u \in Tasks \ {t} : Holds(u)' = Holds(u) /\ first'[u] = first[u] /\ Uses(u)' = Uses(u)
<1> SUFFICES ASSUME NEW u \in Tasks \ {t}
             PROVE  Holds(u)' = Holds(u) /\ first'[u] = first[u] /\ Uses(u)' = Uses(u)
  BY SMT
<1>1. /\ pc'[u] = pc[u] \/ (pc[u] = "buffer_wait" /\ pc'[u] = "getblk")
      /\ bh'[u] = bh[u] /\ first'[u] = first[u] /\ io'[u] = io[u]
  BY DEF OthersKept
<1>2. Holds(u)' = Holds(u)
  BY <1>1 DEF Holds, Site
<1> QED  BY <1>1, <1>2 DEF Uses

(* The counts stay right in a step that takes no buffer and gives none      *)
(* back; the task may move the buffer it has to or from first.              *)
LEMMA SameCounts ==
  ASSUME HeadsOK, NEW t \in Tasks, b_count' = b_count,
         \/ Holds(t)' = Holds(t) /\ first'[t] = first[t]
         \/ Holds(t)' = first[t] /\ first'[t] = Holds(t)
  PROVE  Recounts(t)
BY SMTT(30) DEF Recounts, In, HeadsOK

(* A buffer is counted when a task takes it. *)
LEMMA TakenCounts ==
  ASSUME HeadsOK, NEW t \in Tasks, NEW b \in Buffers,
         NEW n, n = b_count[b] + 1, b_count' = [b_count EXCEPT ![b] = n],
         Holds(t) = NULL, Holds(t)' = b, first'[t] = first[t]
  PROVE  Recounts(t)
BY SMTT(30) DEF Recounts, In, HeadsOK, Buffers

(* A buffer that nobody has is counted once when getblk takes it for a new  *)
(* block.                                                                   *)
LEMMA VictimCounts ==
  ASSUME HeadsOK, NEW t \in Tasks, NEW b \in Buffers,
         b_count[b] = 0, b_count' = [b_count EXCEPT ![b] = 1],
         Holds(t) = NULL, Holds(t)' = b, first'[t] = first[t]
  PROVE  Recounts(t)
BY SMTT(30) DEF Recounts, In, HeadsOK, Buffers

(* A buffer is no longer counted when a task gives it back. *)
LEMMA GivenCounts ==
  ASSUME HeadsOK, NEW t \in Tasks, NEW b \in Buffers, b_count' = [b_count EXCEPT ![b] = @ - 1],
         Holds(t) = b, Holds(t)' = NULL, first'[t] = first[t]
  PROVE  Recounts(t)
BY SMTT(30) DEF Recounts, In, HeadsOK, Buffers

(* CountsUsers is kept by a step that counts what its task takes and gives. *)
LEMMA Recounted ==
  ASSUME Counting, HeadsOK, CountsUsers, NEW t \in Tasks, OthersKept(t), Recounts(t)
  PROVE  CountsUsers'
<1> SUFFICES ASSUME NEW b \in Buffers
             PROVE  b_count'[b] = Cardinality({u \in Tasks : Holds(u)' = b})
                                  + Cardinality({u \in Tasks : first'[u] = b})
  BY DEF CountsUsers
<1>1. PICK f : f = [u \in Tasks |-> Holds(u)]
  OBVIOUS
<1>2. PICK g : g = [u \in Tasks |-> Holds(u)']
  OBVIOUS
<1>3. PICK p, q : p = first /\ q = first'
  BY SMT
<1>4. \A u \in Tasks : f[u] = Holds(u) /\ g[u] = Holds(u)'
  BY <1>1, <1>2
<1>5. SameBut(f, g, t)
  BY <1>4, OthersHold DEF SameBut
<1>6. SameBut(p, q, t)
  BY <1>3, OthersHold DEF SameBut
<1>7. Moved(f, g, t, b)
  BY <1>5, MovedUser
<1>8. Moved(p, q, t, b)
  BY <1>6, MovedUser
<1>9. /\ {u \in Tasks : f[u] = b} = {u \in Tasks : Holds(u) = b}
      /\ {u \in Tasks : g[u] = b} = {u \in Tasks : Holds(u)' = b}
  BY <1>4
<1>10. b_count[b] = Users(f, b) + Users(p, b)
  BY <1>3, <1>9 DEF CountsUsers, Users
<1>11. b_count'[b] = b_count[b] + (In(g[t], b) - In(f[t], b)) + (In(q[t], b) - In(p[t], b))
  BY <1>3, <1>4 DEF Recounts
<1>12. b_count'[b] = Users(g, b) + Users(q, b)
  BY <1>7, <1>8, <1>10, <1>11, SMTT(30) DEF Moved, In
<1> QED  BY <1>3, <1>9, <1>12 DEF Users

(* A buffer that a task has is counted. *)
LEMMA HeldCounted ==
  ASSUME Counting, HeadsOK, CountsUsers,
         NEW t \in Tasks, NEW b \in Buffers, Holds(t) = b \/ first[t] = b
  PROVE  b_count[b] > 0
<1>1. PICK f : f = [u \in Tasks |-> Holds(u)]
  OBVIOUS
<1>2. {u \in Tasks : f[u] = b} = {u \in Tasks : Holds(u) = b} /\ f[t] = Holds(t)
  BY <1>1
<1>3. b_count[b] = Users(f, b) + Users(first, b)
  BY <1>2 DEF CountsUsers, Users
<1>4. PICK m, n : m = Users(f, b) /\ n = Users(first, b)
  BY SMT
<1>5. m \in Nat /\ n \in Nat /\ (m # 0 \/ n # 0)
  BY <1>2, <1>4 DEF Counting, Counted
<1> QED  BY <1>3, <1>4, <1>5, SMTT(30)

(* A buffer that is counted is one that a task has. *)
LEMMA CountedHeld ==
  ASSUME Counting, CountsUsers, NEW b \in Buffers, b_count[b] # 0
  PROVE  \E t \in Tasks : Holds(t) = b \/ first[t] = b
<1> SUFFICES ASSUME \A t \in Tasks : Holds(t) # b /\ first[t] # b PROVE FALSE
  BY SMT
<1>1. PICK f : f = [u \in Tasks |-> Holds(u)]
  OBVIOUS
<1>2. {u \in Tasks : f[u] = b} = {u \in Tasks : Holds(u) = b} /\ \A t \in Tasks : f[t] = Holds(t)
  BY <1>1
<1>3. b_count[b] = Users(f, b) + Users(first, b)
  BY <1>2 DEF CountsUsers, Users
<1>4. Users(f, b) = 0 /\ Users(first, b) = 0
  BY <1>2 DEF Counting, Counted
<1> QED  BY <1>3, <1>4, SMTT(30)

(* A step that neither puts a task to sleep on buffer_wait nor takes away  *)
(* its last buffer strands nobody.                                         *)
LEMMA NobodyStranded ==
  ASSUME NoStrandedSleeper, NEW t \in Tasks, OthersKept(t),
         pc'[t] # "buffer_wait", Uses(t) # {} => Uses(t)' # {}
  PROVE  NoStrandedSleeper'
<1> SUFFICES ASSUME NEW u \in Tasks, pc'[u] = "buffer_wait"
             PROVE  \E v \in Tasks : pc'[v] # "buffer_wait" /\ Uses(v)' # {}
  BY DEF NoStrandedSleeper
<1>1. u # t /\ pc[u] = "buffer_wait"
  BY DEF OthersKept
<1>2. PICK v \in Tasks : pc[v] # "buffer_wait" /\ Uses(v) # {}
  BY <1>1 DEF NoStrandedSleeper
<1>3. CASE v = t
  BY <1>2, <1>3
<1>4. CASE v # t
  <2>1. pc'[v] = pc[v]
    BY <1>2, <1>4 DEF OthersKept
  <2>2. Uses(v)' = Uses(v)
    BY <1>4, OthersHold
  <2> QED  BY <1>2, <2>1, <2>2
<1> QED  BY <1>3, <1>4

(* Locks, names and requests that a step leaves alone. *)
LEMMA SameLocksOf ==
  ASSUME NEW b, LocksOf(b), b_lock'[b] = b_lock[b],
         \A t \in Tasks : Asks(t, b)' <=> Asks(t, b),
         \A s \in Slots : Serves(s, b)' <=> Serves(s, b)
  PROVE  LocksOf(b)'
BY DEF LocksOf

(* No lock changes hands when no task enters or leaves add_request. *)
LEMMA SameLocks ==
  ASSUME Locks, NEW t \in Tasks, OthersKept(t), b_lock' = b_lock, request' = request,
         \/ pc[t] # "request" /\ pc'[t] # "request"
         \/ pc'[t] = pc[t] /\ io'[t] = io[t]
  PROVE  Locks'
<1> SUFFICES ASSUME NEW b \in Buffers PROVE LocksOf(b)'
  BY DEF Locks
<1>1. \A u \in Tasks : Asks(u, b)' <=> Asks(u, b)
  BY DEF OthersKept, Asks
<1>2. \A s \in Slots : Serves(s, b)' <=> Serves(s, b)
  BY DEF Serves
<1> QED  BY <1>1, <1>2, SameLocksOf DEF Locks

(* The lists agree with the names as long as neither changes. *)
LEMMA SameNames ==
  ASSUME Names, UNCHANGED <<b_key, lists>>
  PROVE  Names'
BY DEF Names, lists

(* The queue of the disk, untouched. *)
LEMMA SameRequests ==
  ASSUME Requests, UNCHANGED <<b_key, queue, do_hd>>
  PROVE  Requests'
<1>1. b_key' = b_key /\ request' = request /\ current_request' = current_request /\ do_hd' = do_hd
  BY DEF queue
<1>2. Queue' = Queue /\ CURRENT' = CURRENT
  BY <1>1 DEF Queue, CURRENT
<1>3. \A s \in Slots : Pending(s)' <=> Pending(s)
  BY <1>1 DEF Pending
<1> QED  BY <1>1, <1>2, <1>3 DEF Requests

(* What a step of a task has to show: it keeps its own part of the         *)
(* invariant, and the locks and the requests are as they should be.        *)
LEMMA TaskStep ==
  ASSUME Counting, Inv, TypeOK', NEW t \in Tasks, OthersKept(t), cpu \in {t, Nobody},
         UNCHANGED <<b_key, lists>>, Locks', Requests',
         pc'[t] # "buffer_wait",
         ControlOf(t)', Recounts(t), Uses(t) # {} => Uses(t)' # {}
  PROVE  Inv'
<1>1. /\ TasksOK /\ HeadsOK /\ Control /\ Names /\ CountsUsers /\ NoStrandedSleeper
  BY TypeParts DEF Inv
<1>2. Control'
  BY <1>1, SameKeys, OthersControlled
<1>3. Names'
  BY <1>1, SameNames
<1>4. CountsUsers'
  BY <1>1, Recounted
<1>5. NoStrandedSleeper'
  BY <1>1, NobodyStranded
<1> QED  BY <1>2, <1>3, <1>4, <1>5 DEF Inv

(* A step of a task that touches no lock, no list and no request. *)
LEMMA QuietStep ==
  ASSUME Counting, Inv, TypeOK', NEW t \in Tasks, OthersKept(t), cpu \in {t, Nobody},
         UNCHANGED <<b_key, b_lock, lists, queue, do_hd>>,
         \/ pc[t] # "request" /\ pc'[t] # "request"
         \/ pc'[t] = pc[t] /\ io'[t] = io[t],
         pc'[t] # "buffer_wait",
         ControlOf(t)', Recounts(t), Uses(t) # {} => Uses(t)' # {}
  PROVE  Inv'
<1>1. Locks'
  BY SameLocks DEF queue, Inv
<1>2. Requests'
  BY SameRequests DEF Inv
<1> QED  BY <1>1, <1>2, TaskStep

-----------------------------------------------------------------------------
(* Every step of a task keeps the invariant. *)

(* The invariant as a step of task t uses it. *)
LEMMA Parts ==
  ASSUME Inv, NEW t \in Tasks
  PROVE  /\ HeadsOK /\ DriveOK /\ TasksOK
         /\ BuffersOf(t) /\ CallOf(t) /\ IoOf(t) /\ KeysOf(t) /\ AwakeOf(t)
         /\ CountsUsers /\ NoStrandedSleeper /\ Locks /\ Names /\ Requests
BY TypeParts DEF Inv, Control, ControlOf

(* A step that changes the variables of tasks only keeps the other types. *)
LEMMA SameMemory ==
  ASSUME TypeOK, UNCHANGED <<heads, queue, drive>>, TasksOK'
  PROVE  TypeOK'
<1>1. HeadsOK' /\ DriveOK'
  BY TypeParts DEF HeadsOK, DriveOK, heads, queue, drive
<1> QED  BY <1>1, TypePartsNext

(* A step of a task that changes its own variables only. *)
LEMMA OwnStep ==
  ASSUME Counting, Inv, NEW t \in Tasks, OthersKept(t), TasksOK', cpu \in {t, Nobody},
         UNCHANGED <<heads, lists, queue, drive>>,
         \/ pc[t] # "request" /\ pc'[t] # "request"
         \/ pc'[t] = pc[t] /\ io'[t] = io[t],
         pc'[t] # "buffer_wait",
         BuffersOf(t)', CallOf(t)', IoOf(t)', KeysOf(t)', AwakeOf(t)',
         \/ Holds(t)' = Holds(t) /\ first'[t] = first[t]
         \/ Holds(t)' = first[t] /\ first'[t] = Holds(t)
  PROVE  Inv'
<1>1. TypeOK'
  BY SameMemory DEF Inv
<1>2. ControlOf(t)'
  BY DEF ControlOf
<1>3. Uses(t)' = Uses(t)
  BY DEF Uses
<1>4. Recounts(t)
  <2>1. b_count' = b_count /\ HeadsOK
    BY TypeParts DEF heads, Inv
  <2> QED  BY <2>1, SameCounts
<1> QED  BY <1>1, <1>2, <1>3, <1>4, QuietStep DEF heads, drive

(* A system call starts. *)
LEMMA StartStep ==
  ASSUME Counting, Inv, NEW t \in Tasks, Start(t)
  PROVE  Inv'
<1> USE DEF Start
<1>0. /\ HeadsOK /\ TasksOK /\ TypeOK
      /\ BuffersOf(t) /\ CallOf(t)
      /\ pc[t] = "user" /\ cpu = Nobody
  BY Parts DEF Inv, Calls, At
<1>1. PICK o \in Ops[t] \ {"sync"}, k \in Wanted :
        /\ op' = [op EXCEPT ![t] = o]
        /\ want' = [want EXCEPT ![t] = k]
        /\ ahead' = [ahead EXCEPT ![t] = IF o = "ahead" THEN Ahead ELSE 0]
  OBVIOUS
<1>2. /\ pc'[t] = "getblk" /\ op'[t] = o /\ want'[t] = k
      /\ ahead'[t] = (IF o = "ahead" THEN Ahead ELSE 0)
      /\ bh'[t] = bh[t] /\ first'[t] = first[t]
  BY <1>0, <1>1 DEF TasksOK, Goto
<1>3. OthersKept(t)
  BY <1>0, <1>1, SMTT(30) DEF TasksOK, Goto, OthersKept
<1>4. k \in Keys /\ k = Later(k, 0)
  <2>1. k = <<k[1], k[2] + 0>>
    BY SMT
  <2> QED  BY <2>1, Constants, SMTT(30) DEF Later
<1>5. TasksOK'
  <2>1. o \in Operations
    OBVIOUS
  <2> QED  BY <1>0, <1>1, <1>4, <2>1, SMTT(30) DEF TasksOK, Goto, Places
<1>6. Site(t)' = "getblk" /\ Site(t) = "user"
  BY <1>0, <1>2 DEF Site
<1>7. BuffersOf(t)' /\ Holds(t)' = Holds(t)
  BY <1>0, <1>2, <1>6 DEF BuffersOf, Holds
<1>8. CallOf(t)'
  <2>1. want'[t] = Later(k, 0) /\ 0 + ahead'[t] <= Ahead /\ 0 \in 0..Ahead
    BY <1>2, <1>4, SMTT(30)
  <2> QED  BY <1>2, <1>6, <2>1 DEF CallOf
<1>9. IoOf(t)' /\ KeysOf(t)' /\ AwakeOf(t)'
  BY <1>2 DEF IoOf, KeysOf, AwakeOf
<1> QED  BY <1>0, <1>2, <1>3, <1>5, <1>7, <1>8, <1>9, OwnStep

(* sys_sync starts: it holds no buffer. *)
LEMMA SyncStep ==
  ASSUME Counting, Inv, NEW t \in Tasks, sys_sync(t)
  PROVE  Inv'
<1> USE DEF sys_sync
<1>0. /\ HeadsOK /\ TasksOK /\ TypeOK
      /\ BuffersOf(t) /\ CallOf(t)
      /\ pc[t] = "user" /\ cpu = Nobody
  BY Parts DEF Inv, Calls, At
<1>2. /\ pc'[t] = "sync" /\ op'[t] = "sync" /\ bh'[t] = bh[t] /\ first'[t] = first[t]
  BY <1>0 DEF TasksOK, Goto
<1>3. OthersKept(t)
  BY <1>0 DEF TasksOK, Goto, OthersKept
<1>5. TasksOK'
  BY <1>0, SMTT(30) DEF TasksOK, Goto, Places, Operations
<1>6. Site(t)' = "sync" /\ Site(t) = "user"
  BY <1>0, <1>2 DEF Site
<1>7. BuffersOf(t)' /\ Holds(t)' = Holds(t)
  BY <1>0, <1>2, <1>6 DEF BuffersOf, Holds
<1>8. CallOf(t)' /\ IoOf(t)' /\ KeysOf(t)' /\ AwakeOf(t)'
  BY <1>2, <1>6 DEF CallOf, InCall, IoOf, KeysOf, AwakeOf
<1> QED  BY <1>0, <1>2, <1>3, <1>5, <1>7, <1>8, OwnStep

(* A task sleeps on a buffer: sync_dev does not, once it has seen the      *)
(* buffer unlocked.                                                        *)
LEMMA WaitStep ==
  ASSUME Counting, Inv, NEW t \in Tasks, wait_on_buffer(t)
  PROVE  Inv'
<1> USE DEF wait_on_buffer
<1>0. /\ TasksOK /\ BuffersOf(t) /\ CallOf(t) /\ IoOf(t) /\ KeysOf(t) /\ AwakeOf(t)
      /\ cpu = t /\ cpu' = Nobody
      /\ pc' = pc /\ op' = op /\ want' = want /\ ahead' = ahead /\ scan' = scan
      /\ bh' = bh /\ first' = first /\ io' = io /\ b_key' = b_key /\ b_lock' = b_lock
  BY Parts DEF Sleep, frame, heads
<1>1. pc[t] \in {"hashed", "victim", "sync", "make_request", "read_wait", "brelse"}
  BY DEF At
<1>2. OthersKept(t) /\ Site(t)' = Site(t)
  BY <1>0 DEF OthersKept, Site
<1>3. TasksOK'
  BY <1>0 DEF TasksOK
<1>4. BuffersOf(t)' /\ CallOf(t)' /\ IoOf(t)' /\ KeysOf(t)' /\ Holds(t)' = Holds(t)
  <2>1. BuffersOf(t)' /\ IoOf(t)' /\ KeysOf(t)' /\ Holds(t)' = Holds(t)
    BY <1>0, <1>2 DEF BuffersOf, IoOf, KeysOf, Holds
  <2>2. CallOf(t)'
    BY <1>0, <1>2 DEF CallOf, InCall
  <2> QED  BY <2>1, <2>2
<1>5. AwakeOf(t)'
  <2>1. CASE pc[t] = "make_request"
    <3>1. b_lock[io[t].bh]
      BY <2>1 DEF WaitsFor
    <3> QED  BY <3>1, <1>0 DEF AwakeOf
  <2>2. CASE pc[t] # "make_request"
    BY <2>2, <1>0 DEF AwakeOf
  <2> QED  BY <2>1, <2>2
<1> QED  BY <1>0, <1>1, <1>2, <1>3, <1>4, <1>5, OwnStep

(* find_buffer finds the buffer of a block if there is one. *)
LEMMA Found ==
  ASSUME Counting, HeadsOK, Names, NEW k \in Keys
  PROVE  /\ find_buffer(k) = NULL => \A b \in Buffers : b_key[b] # k
         /\ find_buffer(k) # NULL => find_buffer(k) \in Buffers /\ b_key[find_buffer(k)] = k
<1> DEFINE q == hash_table[hash(k)]
<1>1. hash(k) \in DOMAIN hash_table /\ q \in Seq(Buffers)
  BY SMT DEF Names
<1>2. \A i \in DOMAIN q : q[i] \in Buffers /\ i \in Nat
  BY <1>1, SMT
<1> HIDE DEF q
<1>3. Matches(k) = {i \in DOMAIN q : b_key[q[i]] = k}
  BY DEF Matches, q
<1>4. CASE Matches(k) = {}
  <2>1. find_buffer(k) = NULL
    BY <1>4 DEF find_buffer
  <2>2. ASSUME NEW b \in Buffers, b_key[b] = k PROVE FALSE
    <3>1. On(q, b)
      BY <1>1, <2>2, Constants DEF Names, q
    <3> QED  BY <3>1, <2>2, <1>3, <1>4 DEF On
  <2> QED  BY <2>1, <2>2
<1>5. CASE Matches(k) # {}
  <2>1. Matches(k) \in SUBSET Nat
    BY <1>2, <1>3
  <2>2. Min(Matches(k)) \in Matches(k)
    BY <1>5, <2>1, MinIn
  <2>3. find_buffer(k) = q[Min(Matches(k))]
    BY <1>5 DEF find_buffer, q
  <2>4. find_buffer(k) \in Buffers /\ b_key[find_buffer(k)] = k
    BY <1>2, <1>3, <2>2, <2>3
  <2> QED  BY <2>4, Constants
<1> QED  BY <1>4, <1>5

(* getblk finds a victim if there is a buffer that nobody uses. *)
LEMMA VictimFound ==
  ASSUME Counting, HeadsOK, Names, Unused # {}
  PROVE  Victim \in Buffers
<1> DEFINE Best == {i \in Unused : \A j \in Unused : Badness(free_list[i]) <= Badness(free_list[j])}
           Bad  == {Badness(free_list[i]) : i \in Unused}
<1>1. \A i \in Unused : free_list[i] \in Buffers /\ i \in Nat
  BY SMT DEF Unused, Names
<1>2. \A i \in Unused : Badness(free_list[i]) \in Nat
  BY <1>1, SMT DEF Badness, HeadsOK
<1>3. Bad \in SUBSET Nat /\ Bad # {}
  BY <1>2
<1>4. Min(Bad) \in Bad /\ \A y \in Bad : Min(Bad) <= y
  BY <1>3, MinIn
<1>5. PICK i \in Unused : Badness(free_list[i]) = Min(Bad)
  BY <1>4
<1>6. i \in Best
  BY <1>4, <1>5, SMT
<1>7. Best \in SUBSET Nat /\ Best # {}
  BY <1>1, <1>6
<1>8. Min(Best) \in Best
  BY <1>7, MinIn
<1> QED  BY <1>1, <1>8 DEF Victim

(* In a call, the block a task wants is one there is. *)
LEMMA WantsKey ==
  ASSUME NEW t \in Tasks, CallOf(t), Site(t) \notin {"user", "sync"}
  PROVE  op[t] # "sync" /\ want[t] \in Keys
<1>1. InCall(t)
  BY DEF CallOf, InCall
<1> QED  BY <1>1, Constants DEF CallOf, InCall

(* All buffers are in use: one of the tasks that use them does not wait    *)
(* for a buffer itself, since the tasks in breada are fewer than buffers.  *)
LEMMA SomebodyElse ==
  ASSUME Counting, Inv, Unused = {}, NEW t \in Tasks, pc[t] = "getblk"
  PROVE  \E u \in Tasks \ {t} : pc[u] # "buffer_wait" /\ Uses(u) # {}
<1> SUFFICES ASSUME \A u \in Tasks \ {t} : pc[u] = "buffer_wait" \/ Uses(u) = {} PROVE FALSE
  BY SMT
<1>0. /\ HeadsOK /\ TasksOK /\ CountsUsers /\ Names
      /\ \A u \in Tasks : BuffersOf(u) /\ CallOf(u)
  BY Parts
<1>1. ASSUME NEW b \in Buffers PROVE \E u \in Tasks : "ahead" \in Ops[u] /\ first[u] = b
  <2>1. b_count[b] # 0
    <3>1. PICK i \in DOMAIN free_list : free_list[i] = b
      BY <1>0 DEF Names, On
    <3>2. i \notin Unused
      OBVIOUS
    <3> QED  BY <3>1, <3>2 DEF Unused
  <2>2. PICK u \in Tasks : Holds(u) = b \/ first[u] = b
    BY <1>0, <2>1, CountedHeld
  <2>3. Uses(u) # {}
    BY <2>2, Constants DEF Uses
  <2>4. pc[u] = "buffer_wait" \/ pc[u] = "getblk"
    BY <2>3
  <2>5. Holds(u) = NULL
    BY <1>0, <2>4 DEF BuffersOf, Holds, Site
  <2>6. first[u] = b
    BY <2>2, <2>5, Constants, SMT
  <2>7. op[u] = "ahead"
    BY <1>0, <2>6, Constants DEF BuffersOf
  <2> QED  BY <1>0, <2>6, <2>7 DEF CallOf
<1>2. PICK b \in Buffers : \A u \in Tasks : "ahead" \in Ops[u] => first[u] # b
  BY DEF Counting, OneLeft
<1> QED  BY <1>1, <1>2

(* getblk finds the block, chooses a victim, or sleeps on buffer_wait. *)
LEMMA GetblkStep ==
  ASSUME Counting, Inv, NEW t \in Tasks, getblk(t)
  PROVE  Inv'
<1> USE DEF getblk
<1>0. /\ HeadsOK /\ TasksOK /\ DriveOK /\ Names /\ CountsUsers
      /\ BuffersOf(t) /\ CallOf(t) /\ pc[t] = "getblk" /\ cpu \in {t, Nobody}
      /\ op' = op /\ want' = want /\ ahead' = ahead /\ first' = first /\ scan' = scan /\ io' = io
      /\ UNCHANGED <<b_key, b_uptodate, b_dirt, b_lock, b_data, lists, queue, drive>>
  BY Parts DEF At, frame
<1>1. Site(t) = "getblk" /\ bh[t] = NULL /\ Holds(t) = NULL
  BY <1>0 DEF Site, BuffersOf, Holds
<1>2. op[t] # "sync" /\ want[t] \in Keys
  BY <1>0, <1>1, WantsKey
<1>3. DriveOK'
  BY <1>0 DEF DriveOK, queue, drive
<1>4. PICK b : b = find_buffer(want[t])
  OBVIOUS
<1>5. CASE b # NULL
  <2>1. b \in Buffers /\ b_key[b] = want[t]
    BY <1>0, <1>2, <1>4, <1>5, Found
  <2>2. b_count' = Used(b) /\ bh' = [bh EXCEPT ![t] = b] /\ Goto(t, "hashed")
    BY <1>4, <1>5
  <2>3. pc'[t] = "hashed" /\ bh'[t] = b
    BY <1>0, <2>2 DEF TasksOK, Goto
  <2>4. OthersKept(t)
    BY <1>0, <2>2 DEF TasksOK, Goto, OthersKept
  <2>5. TypeOK'
    <3>1. HeadsOK'
      BY <1>0, <2>1, <2>2, SMTT(30) DEF HeadsOK, Used
    <3>2. TasksOK'
      BY <1>0, <2>1, <2>2 DEF TasksOK, Goto, Places
    <3> QED  BY <1>3, <3>1, <3>2, TypePartsNext
  <2>6. Site(t)' = "hashed" /\ Holds(t)' = b
    BY <2>3 DEF Site, Holds
  <2>7. ControlOf(t)'
    <3>1. BuffersOf(t)'
      BY <1>0, <1>1, <2>1, <2>3, <2>6 DEF BuffersOf
    <3>2. CallOf(t)'
      BY <1>0, <1>1, <1>2, <2>6 DEF CallOf, InCall
    <3>3. IoOf(t)' /\ KeysOf(t)' /\ AwakeOf(t)'
      BY <1>0, <2>1, <2>3 DEF IoOf, KeysOf, AwakeOf
    <3> QED  BY <3>1, <3>2, <3>3 DEF ControlOf
  <2>8. Recounts(t)
    BY <1>0, <1>1, <2>1, <2>2, <2>6, TakenCounts DEF Used
  <2>9. Uses(t)' # {}
    BY <2>1, <2>6, Constants DEF Uses
  <2> QED  BY <1>0, <2>3, <2>4, <2>5, <2>7, <2>8, <2>9, QuietStep DEF drive
<1>6. CASE b = NULL /\ Unused # {}
  <2>1. Victim \in Buffers
    BY <1>0, <1>6, VictimFound
  <2>2. b_count' = b_count /\ bh' = [bh EXCEPT ![t] = Victim] /\ Goto(t, "victim")
    BY <1>4, <1>6
  <2>3. pc'[t] = "victim" /\ bh'[t] = Victim
    BY <1>0, <2>2 DEF TasksOK, Goto
  <2>4. OthersKept(t)
    BY <1>0, <2>2 DEF TasksOK, Goto, OthersKept
  <2>5. TasksOK'
    BY <1>0, <2>1, <2>2 DEF TasksOK, Goto, Places
  <2>6. Site(t)' = "victim" /\ Holds(t)' = NULL
    BY <2>3 DEF Site, Holds
  <2>7. BuffersOf(t)'
    BY <1>0, <1>1, <2>1, <2>3, <2>6 DEF BuffersOf
  <2>8. CallOf(t)'
    BY <1>0, <1>1, <1>2, <2>6 DEF CallOf, InCall
  <2>9. IoOf(t)' /\ KeysOf(t)' /\ AwakeOf(t)'
    BY <2>3 DEF IoOf, KeysOf, AwakeOf
  <2> QED  BY <1>0, <1>1, <2>2, <2>3, <2>4, <2>5, <2>6, <2>7, <2>8, <2>9, OwnStep DEF heads
<1>7. CASE b = NULL /\ Unused = {}
  <2>1. b_count' = b_count /\ bh' = bh /\ pc' = [pc EXCEPT ![t] = "buffer_wait"] /\ cpu' = Nobody
    BY <1>4, <1>7
  <2>2. pc'[t] = "buffer_wait"
    BY <1>0, <2>1 DEF TasksOK
  <2>3. OthersKept(t)
    BY <1>0, <2>1 DEF TasksOK, OthersKept
  <2>4. TypeOK'
    <3>1. TasksOK'
      BY <1>0, <2>1 DEF TasksOK, Places
    <3>2. HeadsOK'
      BY <1>0, <2>1 DEF HeadsOK
    <3> QED  BY <1>3, <3>1, <3>2, TypePartsNext
  <2>5. Site(t)' = "buffer_wait" /\ Holds(t)' = NULL
    BY <1>1, <2>1, <2>2 DEF Site, Holds
  <2>6. ControlOf(t)'
    <3>1. BuffersOf(t)'
      BY <1>0, <1>1, <2>1, <2>2, <2>5 DEF BuffersOf
    <3>2. CallOf(t)'
      BY <1>0, <1>1, <1>2, <2>5 DEF CallOf, InCall
    <3>3. IoOf(t)' /\ KeysOf(t)' /\ AwakeOf(t)'
      BY <2>2 DEF IoOf, KeysOf, AwakeOf
    <3> QED  BY <3>1, <3>2, <3>3 DEF ControlOf
  <2>7. Control'
    BY <1>0, <2>3, <2>6, SameKeys, OthersControlled DEF Inv
  <2>8. Locks' /\ Names' /\ Requests'
    <3>1. Locks'
      BY <1>0, <2>2, <2>3, SameLocks DEF queue, Inv
    <3> QED  BY <1>0, <3>1, SameNames, SameRequests DEF Inv, drive
  <2>9. CountsUsers'
    <3>1. Recounts(t)
      BY <1>0, <1>1, <2>1, <2>5, SameCounts
    <3> QED  BY <1>0, <2>3, <3>1, Recounted
  <2>10. NoStrandedSleeper'
    <3>1. PICK u \in Tasks \ {t} : pc[u] # "buffer_wait" /\ Uses(u) # {}
      BY <1>0, <1>7, SomebodyElse
    <3>2. pc'[u] # "buffer_wait" /\ Uses(u)' # {}
      BY <2>3, <3>1, OthersHold DEF OthersKept
    <3> QED  BY <3>2 DEF NoStrandedSleeper
  <2> QED  BY <2>4, <2>7, <2>8, <2>9, <2>10 DEF Inv
<1> QED  BY <1>5, <1>6, <1>7

(* A task that has a buffer goes on to the next place of its code. *)
LEMMA WalkStep ==
  ASSUME Counting, Inv, NEW t \in Tasks, cpu \in {t, Nobody},
         pc[t] \in {"hashed", "got", "read_wait", "held"},
         NEW place \in {"got", "held", "read_wait", "count_down", "brelse"},
         place \in {"held", "read_wait", "brelse"} => first[t] = NULL,
         place = "count_down" => first[t] \in Buffers,
         Goto(t, place), UNCHANGED <<heads, lists, queue, drive, frame, bh, io>>
  PROVE  Inv'
<1>0. /\ TasksOK /\ BuffersOf(t) /\ CallOf(t)
      /\ op' = op /\ want' = want /\ ahead' = ahead /\ first' = first /\ scan' = scan
      /\ bh' = bh /\ io' = io
  BY Parts DEF frame
<1>3. pc'[t] = place
  BY <1>0 DEF TasksOK, Goto
<1>4. OthersKept(t)
  BY <1>0 DEF TasksOK, Goto, OthersKept
<1>5. TasksOK'
  BY <1>0 DEF TasksOK, Goto, Places
<1>6. Site(t) = pc[t] /\ Site(t)' = place
  BY <1>3 DEF Site
<1>7. BuffersOf(t)' /\ Holds(t)' = Holds(t)
  BY <1>0, <1>6 DEF BuffersOf, Holds
<1>8. CallOf(t)'
  BY <1>0, <1>6 DEF CallOf, InCall
<1>9. IoOf(t)' /\ KeysOf(t)' /\ AwakeOf(t)'
  BY <1>3 DEF IoOf, KeysOf, AwakeOf
<1> QED  BY <1>0, <1>3, <1>4, <1>5, <1>7, <1>8, <1>9, OwnStep

(* get_hash_table: the buffer still has the block it was found for. *)
LEMMA HashStep ==
  ASSUME Counting, Inv, NEW t \in Tasks, get_hash_table(t)
  PROVE  Inv'
<1>1. KeysOf(t) /\ pc[t] = "hashed" /\ cpu \in {t, Nobody}
  BY Parts DEF At, get_hash_table
<1>2. b_key[bh[t]] = want[t]
  BY <1>1 DEF KeysOf
<1>3. Goto(t, "got") /\ UNCHANGED <<heads, lists, queue, drive, frame, bh, io>>
  BY <1>2 DEF get_hash_table, heads
<1> QED  BY <1>1, <1>3, WalkStep

(* bread and breada call ll_rw_block for a buffer that they hold. *)
LEMMA ReadStep ==
  ASSUME Counting, Inv, NEW t \in Tasks, cpu \in {t, Nobody}, pc[t] = "got",
         NEW rw \in {READ, READA}, NEW b, NEW ret,
         \/ ret = "read_wait" /\ b = bh[t] /\ first[t] = NULL
         \/ ret = "count_down" /\ b = first[t] /\ first[t] \in Buffers,
         ll_rw_block(t, rw, b, ret), UNCHANGED <<heads, lists, queue, drive, frame, bh>>
  PROVE  Inv'
<1>0. /\ TasksOK /\ BuffersOf(t) /\ CallOf(t)
      /\ op' = op /\ want' = want /\ ahead' = ahead /\ first' = first /\ scan' = scan
      /\ bh' = bh /\ b_key' = b_key
  BY Parts DEF frame, heads
<1>1. Site(t) = "got" /\ bh[t] \in Buffers /\ b \in Buffers
  BY <1>0 DEF Site, BuffersOf
<1>2. CASE b_key[b][1] \notin Drivers
  <2>1. Goto(t, ret) /\ io' = io
    BY <1>2 DEF ll_rw_block
  <2> QED  BY <2>1, WalkStep
<1>3. CASE b_key[b][1] \in Drivers
  <2>1. io' = [io EXCEPT ![t] = [rw |-> rw, bh |-> b, ret |-> ret]] /\ Goto(t, "make_request")
    BY <1>3 DEF ll_rw_block
  <2>2. pc'[t] = "make_request" /\ io'[t].bh = b /\ io'[t].ret = ret
    BY <1>0, <2>1 DEF TasksOK, Goto
  <2>3. OthersKept(t)
    BY <1>0, <2>1 DEF TasksOK, Goto, OthersKept
  <2>4. TasksOK'
    BY <1>0, <1>1, <2>1 DEF TasksOK, Goto, Places
  <2>5. Site(t)' = ret
    BY <2>2 DEF Site
  <2>6. BuffersOf(t)' /\ Holds(t)' = Holds(t)
    BY <1>0, <1>1, <2>5 DEF BuffersOf, Holds
  <2>7. CallOf(t)'
    BY <1>0, <1>1, <2>5 DEF CallOf, InCall
  <2>8. IoOf(t)' /\ AwakeOf(t)'
    BY <1>0, <1>1, <2>2 DEF IoOf, AwakeOf
  <2>9. KeysOf(t)'
    BY <1>0, <1>3, <2>2 DEF KeysOf
  <2> QED  BY <2>2, <2>3, <2>4, <2>6, <2>7, <2>8, <2>9, <1>0, OwnStep
<1> QED  BY <1>2, <1>3

(* bread: the buffer is valid, or a read of it is asked for. *)
LEMMA BreadStep ==
  ASSUME Counting, Inv, NEW t \in Tasks, bread(t)
  PROVE  Inv'
<1>1. /\ pc[t] = "got" /\ cpu \in {t, Nobody} /\ first[t] = NULL
  BY Parts DEF bread, At, BuffersOf
<1>2. CASE b_uptodate[bh[t]]
  BY <1>1, <1>2, WalkStep DEF bread
<1>3. CASE ~b_uptodate[bh[t]]
  <2>1. PICK b : b = bh[t]
    OBVIOUS
  <2> QED  BY <1>1, <1>3, <2>1, ReadStep DEF bread
<1> QED  BY <1>2, <1>3

(* The end of bread: the buffer is the caller's, or it is released. *)
LEMMA BreadEndStep ==
  ASSUME Counting, Inv, NEW t \in Tasks, bread_end(t)
  PROVE  Inv'
<1>1. /\ pc[t] = "read_wait" /\ cpu \in {t, Nobody} /\ first[t] = NULL
  BY Parts DEF bread_end, At, BuffersOf, Site
<1>2. CASE b_uptodate[bh[t]]
  BY <1>1, <1>2, WalkStep DEF bread_end
<1>3. CASE ~b_uptodate[bh[t]]
  BY <1>1, <1>3, WalkStep DEF bread_end
<1> QED  BY <1>2, <1>3

(* breada with the buffer of a later block; it asks for the first one again. *)
LEMMA BreadaTmpStep ==
  ASSUME Counting, Inv, NEW t \in Tasks, breada_tmp(t)
  PROVE  Inv'
<1>1. /\ pc[t] = "got" /\ cpu \in {t, Nobody} /\ first[t] \in Buffers
  <2>1. TasksOK /\ pc[t] = "got" /\ cpu \in {t, Nobody} /\ first[t] # NULL
    BY Parts DEF breada_tmp, At
  <2> QED  BY <2>1 DEF TasksOK
<1>2. CASE b_uptodate[bh[t]]
  BY <1>1, <1>2, WalkStep DEF breada_tmp
<1>3. CASE ~b_uptodate[bh[t]]
  <2>1. PICK b : b = first[t]
    OBVIOUS
  <2> QED  BY <1>1, <1>3, <2>1, ReadStep DEF breada_tmp
<1> QED  BY <1>2, <1>3

(* block_write takes the buffer of a whole block as it is. *)
LEMMA WholeStep ==
  ASSUME Counting, Inv, NEW t \in Tasks, block_write_whole(t)
  PROVE  Inv'
<1>1. /\ pc[t] = "got" /\ cpu \in {t, Nobody} /\ first[t] = NULL
  BY Parts DEF block_write_whole, At, BuffersOf
<1> QED  BY <1>1, WalkStep DEF block_write_whole

(* A reader has looked at its buffer. *)
LEMMA LookStep ==
  ASSUME Counting, Inv, NEW t \in Tasks, Look(t)
  PROVE  Inv'
<1>1. /\ pc[t] = "held" /\ cpu \in {t, Nobody} /\ first[t] = NULL
  BY Parts DEF Look, At, BuffersOf, Site
<1> QED  BY <1>1, WalkStep DEF Look

(* The caller changes the buffer, or sleeps with it. *)
LEMMA ModifyStep ==
  ASSUME Counting, Inv, NEW t \in Tasks, Modify(t)
  PROVE  Inv'
<1> USE DEF Modify
<1>0. /\ HeadsOK /\ DriveOK /\ TasksOK /\ BuffersOf(t) /\ CallOf(t)
      /\ pc[t] = "held" /\ cpu \in {t, Nobody} /\ Goto(t, "brelse")
      /\ op' = op /\ want' = want /\ ahead' = ahead /\ first' = first /\ scan' = scan
      /\ bh' = bh /\ io' = io
      /\ UNCHANGED <<b_key, b_uptodate, b_count, b_lock, lists, queue, drive>>
  BY Parts DEF frame, At
<1>1. pc'[t] = "brelse" /\ Site(t) = "held" /\ Site(t)' = "brelse"
  BY <1>0 DEF TasksOK, Goto, Site
<1>2. bh[t] \in Buffers /\ first[t] = NULL
  BY <1>0, <1>1 DEF BuffersOf
<1>3. OthersKept(t)
  BY <1>0 DEF TasksOK, Goto, OthersKept
<1>4. TypeOK'
  <2>1. TasksOK'
    BY <1>0, SMTT(30) DEF TasksOK, Goto, Places
  <2>2. PICK v \in Values : b_data' = [b_data EXCEPT ![bh[t]] = <<v, v>>]
    OBVIOUS
  <2>3. HeadsOK'
    BY <1>0, <1>2, <2>2 DEF HeadsOK
  <2>4. DriveOK'
    BY <1>0 DEF DriveOK, drive, queue
  <2> QED  BY <2>1, <2>3, <2>4, TypePartsNext
<1>5. ControlOf(t)' /\ Holds(t)' = Holds(t)
  <2>1. BuffersOf(t)' /\ Holds(t)' = Holds(t)
    BY <1>0, <1>1, <1>2 DEF BuffersOf, Holds
  <2>2. CallOf(t)'
    BY <1>0, <1>1 DEF CallOf, InCall
  <2> QED  BY <1>1, <2>1, <2>2 DEF ControlOf, IoOf, KeysOf, AwakeOf
<1>6. Recounts(t)
  BY <1>0, <1>5, SameCounts
<1>7. Uses(t)' = Uses(t)
  BY <1>0, <1>5 DEF Uses
<1> QED  BY <1>0, <1>1, <1>3, <1>4, <1>5, <1>6, <1>7, QuietStep DEF drive

(* A task sleeps with its buffer in hand. *)
LEMMA ElsewhereStep ==
  ASSUME Counting, Inv, NEW t \in Tasks, Elsewhere(t)
  PROVE  Inv'
<1>0. /\ TasksOK /\ BuffersOf(t) /\ CallOf(t) /\ pc[t] = "held" /\ cpu = t /\ cpu' = Nobody
      /\ UNCHANGED <<heads, lists, queue, drive>>
      /\ pc' = pc /\ op' = op /\ want' = want /\ ahead' = ahead /\ scan' = scan
      /\ bh' = bh /\ first' = first /\ io' = io
  BY Parts DEF Elsewhere, At, Sleep, frame
<1>1. OthersKept(t) /\ Site(t)' = Site(t)
  BY <1>0 DEF OthersKept, Site
<1>2. TasksOK'
  BY <1>0 DEF TasksOK
<1>3. BuffersOf(t)' /\ Holds(t)' = Holds(t)
  BY <1>0, <1>1 DEF BuffersOf, Holds
<1>4. CallOf(t)'
  BY <1>0, <1>1 DEF CallOf, InCall
<1>5. IoOf(t)' /\ KeysOf(t)' /\ AwakeOf(t)'
  BY <1>0 DEF IoOf, KeysOf, AwakeOf
<1> QED  BY <1>0, <1>1, <1>2, <1>3, <1>4, <1>5, OwnStep

(* breada keeps the buffer of its first block and asks for more. *)
LEMMA BreadaStep ==
  ASSUME Counting, Inv, NEW t \in Tasks, breada(t)
  PROVE  Inv'
<1> USE DEF breada
<1>0. /\ TasksOK /\ BuffersOf(t) /\ CallOf(t)
      /\ pc[t] = "got" /\ cpu \in {t, Nobody} /\ op[t] = "ahead" /\ first[t] = NULL
      /\ first' = [first EXCEPT ![t] = bh[t]] /\ bh' = [bh EXCEPT ![t] = NULL]
      /\ op' = op /\ want' = want /\ ahead' = ahead /\ scan' = scan
      /\ UNCHANGED <<heads, lists, queue, drive>> /\ b_key' = b_key
  BY Parts DEF At, heads
<1>1. Site(t) = "got" /\ bh[t] \in Buffers /\ Holds(t) = bh[t]
  BY <1>0 DEF Site, BuffersOf, Holds
<1>2. first'[t] = bh[t] /\ bh'[t] = NULL
  BY <1>0 DEF TasksOK
<1>3. PICK b : b = bh[t]
  OBVIOUS
<1>4. CASE Goto(t, "va_arg") /\ io' = io
  <2>1. pc'[t] = "va_arg"
    BY <1>0, <1>4 DEF TasksOK, Goto
  <2>2. OthersKept(t)
    BY <1>0, <1>4 DEF TasksOK, Goto, OthersKept
  <2>3. TasksOK'
    BY <1>0, <1>1, <1>4 DEF TasksOK, Goto, Places
  <2>4. Site(t)' = "va_arg" /\ Holds(t)' = NULL
    BY <1>2, <2>1 DEF Site, Holds
  <2>5. BuffersOf(t)'
    BY <1>0, <1>1, <1>2, <2>4 DEF BuffersOf
  <2>6. CallOf(t)'
    BY <1>0, <1>1, <2>4 DEF CallOf, InCall
  <2>7. IoOf(t)' /\ AwakeOf(t)' /\ KeysOf(t)'
    BY <2>1 DEF IoOf, AwakeOf, KeysOf
  <2> QED  BY <1>0, <1>1, <1>2, <2>1, <2>2, <2>3, <2>4, <2>5, <2>6, <2>7, OwnStep
<1>5. CASE /\ b_key[b][1] \in Drivers /\ Goto(t, "make_request")
           /\ io' = [io EXCEPT ![t] = [rw |-> READ, bh |-> b, ret |-> "va_arg"]]
  <2>1. pc'[t] = "make_request" /\ io'[t].bh = b /\ io'[t].ret = "va_arg"
    BY <1>0, <1>5 DEF TasksOK, Goto
  <2>2. OthersKept(t)
    BY <1>0, <1>5 DEF TasksOK, Goto, OthersKept
  <2>3. TasksOK'
    BY <1>0, <1>1, <1>3, <1>5 DEF TasksOK, Goto, Places
  <2>4. Site(t)' = "va_arg" /\ Holds(t)' = NULL
    BY <1>2, <2>1 DEF Site, Holds
  <2>5. BuffersOf(t)'
    BY <1>0, <1>1, <1>2, <2>4 DEF BuffersOf
  <2>6. CallOf(t)'
    BY <1>0, <1>1, <2>4 DEF CallOf, InCall
  <2>7. IoOf(t)' /\ AwakeOf(t)' /\ KeysOf(t)'
    BY <1>0, <1>1, <1>2, <1>3, <1>5, <2>1 DEF IoOf, AwakeOf, KeysOf
  <2> QED  BY <1>0, <1>1, <1>2, <2>1, <2>2, <2>3, <2>4, <2>5, <2>6, <2>7, OwnStep
<1> QED  BY <1>3, <1>4, <1>5 DEF ll_rw_block

(* breada goes on to its next block, or back to the first one. *)
LEMMA BreadaArgStep ==
  ASSUME Counting, Inv, NEW t \in Tasks, breada_arg(t)
  PROVE  Inv'
<1> USE DEF breada_arg
<1>0. /\ TasksOK /\ BuffersOf(t) /\ CallOf(t)
      /\ pc[t] = "va_arg" /\ cpu \in {t, Nobody}
      /\ op' = op /\ scan' = scan /\ io' = io
      /\ UNCHANGED <<heads, lists, queue, drive>>
  BY Parts DEF At
<1>1. Site(t) = "va_arg" /\ bh[t] = NULL /\ first[t] \in Buffers /\ Holds(t) = NULL
  BY <1>0 DEF Site, BuffersOf, Holds
<1>2. op[t] = "ahead" /\ InCall(t)
  BY <1>0, <1>1, Constants DEF BuffersOf, InCall
<1>3. CASE /\ ahead[t] > 0 /\ ahead' = [ahead EXCEPT ![t] = @ - 1]
           /\ want' = [want EXCEPT ![t] = Later(@, 1)]
           /\ Goto(t, "getblk") /\ bh' = bh /\ first' = first
  <2>1. /\ pc'[t] = "getblk" /\ want'[t] = Later(want[t], 1) /\ ahead'[t] = ahead[t] - 1
        /\ ahead[t] \in Nat
    BY <1>0, <1>3, SMTT(30) DEF TasksOK, Goto
  <2>2. OthersKept(t)
    BY <1>0, <1>3 DEF TasksOK, Goto, OthersKept
  <2>3. PICK k \in Wanted, n \in 0..Ahead : want[t] = Later(k, n) /\ n + ahead[t] <= Ahead
    BY <1>0, <1>2 DEF CallOf
  <2>4. /\ want'[t] = Later(k, n + 1) /\ n + 1 \in 0..Ahead /\ (n + 1) + ahead'[t] <= Ahead
    <3>1. k[2] \in Nat /\ (k[2] + n) + 1 = k[2] + (n + 1)
      BY SMT
    <3>2. Later(want[t], 1) = Later(k, n + 1)
      BY <2>3, <3>1, SMT DEF Later
    <3> QED  BY <2>1, <2>3, <3>2, <1>3, SMTT(30)
  <2>5. TasksOK'
    <3>1. Later(want[t], 1) \in Keys
      BY <2>1, <2>4, Constants
    <3>2. ahead[t] - 1 \in 0..Ahead
      BY <1>0, <1>3, SMTT(30) DEF TasksOK
    <3> QED  BY <1>0, <1>3, <3>1, <3>2 DEF TasksOK, Goto, Places
  <2>6. Site(t)' = "getblk" /\ Holds(t)' = NULL
    BY <1>1, <1>3, <2>1 DEF Site, Holds
  <2>7. BuffersOf(t)'
    BY <1>0, <1>1, <1>2, <1>3, <2>6 DEF BuffersOf
  <2>8. CallOf(t)'
    BY <1>0, <1>2, <2>4, <2>6 DEF CallOf
  <2>9. IoOf(t)' /\ AwakeOf(t)' /\ KeysOf(t)'
    BY <2>1 DEF IoOf, AwakeOf, KeysOf
  <2> QED  BY <1>0, <1>1, <1>3, <2>1, <2>2, <2>5, <2>6, <2>7, <2>8, <2>9, OwnStep
<1>4. CASE /\ ahead[t] = 0 /\ bh' = [bh EXCEPT ![t] = first[t]]
           /\ first' = [first EXCEPT ![t] = NULL]
           /\ Goto(t, "read_wait") /\ ahead' = ahead /\ want' = want
  <2>1. pc'[t] = "read_wait" /\ bh'[t] = first[t] /\ first'[t] = NULL
    BY <1>0, <1>4 DEF TasksOK, Goto
  <2>2. OthersKept(t)
    BY <1>0, <1>4 DEF TasksOK, Goto, OthersKept
  <2>3. TasksOK'
    BY <1>0, <1>1, <1>4 DEF TasksOK, Goto, Places
  <2>4. Site(t)' = "read_wait" /\ Holds(t)' = first[t]
    BY <2>1 DEF Site, Holds
  <2>5. BuffersOf(t)'
    BY <1>1, <2>1, <2>4 DEF BuffersOf
  <2>6. CallOf(t)'
    BY <1>0, <1>2, <1>4, <2>4 DEF CallOf, InCall
  <2>7. IoOf(t)' /\ AwakeOf(t)' /\ KeysOf(t)'
    BY <2>1 DEF IoOf, AwakeOf, KeysOf
  <2> QED  BY <1>0, <1>1, <2>1, <2>2, <2>3, <2>4, <2>5, <2>6, <2>7, OwnStep
<1> QED  BY <1>3, <1>4

(* breada gives up the buffer of a block it only asked for: no wake_up, but *)
(* it still has the first one.                                             *)
LEMMA BreadaCountStep ==
  ASSUME Counting, Inv, NEW t \in Tasks, breada_count(t)
  PROVE  Inv'
<1> USE DEF breada_count
<1>0. /\ HeadsOK /\ DriveOK /\ TasksOK /\ CountsUsers /\ BuffersOf(t) /\ CallOf(t)
      /\ pc[t] = "count_down" /\ cpu \in {t, Nobody} /\ Goto(t, "va_arg")
      /\ op' = op /\ want' = want /\ ahead' = ahead /\ first' = first /\ scan' = scan /\ io' = io
      /\ UNCHANGED <<b_key, b_uptodate, b_dirt, b_lock, b_data, lists, queue, drive>>
  BY Parts DEF frame, At
<1>1. Site(t) = "count_down" /\ bh[t] \in Buffers /\ first[t] \in Buffers /\ Holds(t) = bh[t]
  BY <1>0 DEF Site, BuffersOf, Holds
<1>2. pc'[t] = "va_arg" /\ bh'[t] = NULL
  BY <1>0 DEF TasksOK, Goto
<1>3. OthersKept(t)
  BY <1>0 DEF TasksOK, Goto, OthersKept
<1>4. PICK b \in Buffers : b = bh[t]
  BY <1>1
<1>5. b_count[b] > 0 /\ b_count[b] \in Nat
  <2>1. b_count[b] > 0
    BY <1>0, <1>1, <1>4, HeldCounted
  <2> QED  BY <1>0, <2>1 DEF HeadsOK
<1>6. b_count' = [b_count EXCEPT ![b] = @ - 1]
  BY <1>4 DEF Released
<1>7. TypeOK'
  <2>1. TasksOK'
    BY <1>0 DEF TasksOK, Goto, Places
  <2>2. HeadsOK'
    BY <1>0, <1>5, <1>6, SMTT(30) DEF HeadsOK
  <2>3. DriveOK'
    BY <1>0 DEF DriveOK, drive, queue
  <2> QED  BY <2>1, <2>2, <2>3, TypePartsNext
<1>8. Site(t)' = "va_arg" /\ Holds(t)' = NULL
  BY <1>2 DEF Site, Holds
<1>9. ControlOf(t)'
  <2>1. BuffersOf(t)'
    BY <1>0, <1>1, <1>2, <1>8 DEF BuffersOf
  <2>2. CallOf(t)'
    BY <1>0, <1>1, <1>8 DEF CallOf, InCall
  <2> QED  BY <1>2, <2>1, <2>2 DEF ControlOf, IoOf, KeysOf, AwakeOf
<1>10. Recounts(t)
  BY <1>0, <1>1, <1>4, <1>5, <1>6, <1>8, SMTT(30) DEF Recounts, In, HeadsOK, Buffers
<1>11. Uses(t)' # {}
  BY <1>0, <1>1, Constants DEF Uses
<1> QED  BY <1>0, <1>2, <1>3, <1>7, <1>9, <1>10, <1>11, QuietStep DEF drive

(* What a task in sync_dev has: the device, the pass and the next buffer.   *)
Scans == [dev : 0..3, pass : 1..2, next : 1..NR_BUFFERS + 1]

(* sync_dev goes on to the next buffer, one behind the last at most. *)
LEMMA ScanNext ==
  ASSUME NEW t \in Tasks, scan \in [Tasks -> Scans], scan[t].next \in Buffers,
         scan' = [scan EXCEPT ![t].next = @ + 1]
  PROVE  scan' \in [Tasks -> Scans]
<1>1. PICK s \in Scans : s = scan[t]
  OBVIOUS
<1>2. PICK n : n = s.next + 1
  OBVIOUS
<1>3. n \in 1..NR_BUFFERS + 1
  BY <1>1, <1>2, SMTT(30) DEF Buffers
<1>4. PICK r : r = [s EXCEPT !.next = n]
  OBVIOUS
<1>5. r \in Scans
  BY <1>3, <1>4, SMTT(30) DEF Scans
<1>6. scan' = [scan EXCEPT ![t] = r]
  BY <1>1, <1>2, <1>4
<1> QED  BY <1>5, <1>6

(* One turn of sync_dev. *)
LEMMA SyncDevStep ==
  ASSUME Counting, Inv, NEW t \in Tasks, sync_dev(t)
  PROVE  Inv'
<1> USE DEF sync_dev
<1>0. /\ TasksOK /\ BuffersOf(t) /\ CallOf(t)
      /\ pc[t] = "sync" /\ cpu \in {t, Nobody} /\ scan[t].next \in Buffers /\ SyncNext(t)
      /\ op' = op /\ want' = want /\ ahead' = ahead /\ first' = first /\ bh' = bh
      /\ UNCHANGED <<heads, lists, queue, drive>> /\ b_key' = b_key /\ b_lock' = b_lock
  BY Parts DEF At, heads
<1>1. Site(t) = "sync" /\ Holds(t) = NULL
  BY <1>0 DEF Site, Holds
<1>2. PICK b \in Buffers : b = scan[t].next
  BY <1>0
<1>3. scan' \in [Tasks -> [dev : 0..3, pass : 1..2, next : 1..NR_BUFFERS + 1]]
  BY <1>0, ScanNext DEF TasksOK, SyncNext, Scans
<1>4. CASE Goto(t, "sync") /\ io' = io
  <2>1. pc'[t] = "sync"
    BY <1>0, <1>4 DEF TasksOK, Goto
  <2>2. OthersKept(t)
    BY <1>0, <1>4 DEF TasksOK, Goto, OthersKept
  <2>3. TasksOK'
    BY <1>0, <1>3, <1>4, SMTT(30) DEF TasksOK, Goto, Places
  <2>4. Site(t)' = "sync" /\ Holds(t)' = NULL
    BY <2>1 DEF Site, Holds
  <2>5. BuffersOf(t)'
    BY <1>0, <1>1, <2>4 DEF BuffersOf
  <2>6. CallOf(t)'
    BY <1>0, <1>1, <2>4 DEF CallOf, InCall
  <2>7. IoOf(t)' /\ AwakeOf(t)' /\ KeysOf(t)'
    BY <2>1 DEF IoOf, AwakeOf, KeysOf
  <2> QED  BY <1>0, <1>1, <2>1, <2>2, <2>3, <2>4, <2>5, <2>6, <2>7, OwnStep
<1>5. CASE /\ ~b_lock[b] /\ b_key[b][1] \in Drivers /\ Goto(t, "make_request")
           /\ io' = [io EXCEPT ![t] = [rw |-> WRITE, bh |-> b, ret |-> "sync"]]
  <2>1. pc'[t] = "make_request" /\ io'[t].bh = b /\ io'[t].ret = "sync" /\ cpu' = t
    BY <1>0, <1>5 DEF TasksOK, Goto
  <2>2. OthersKept(t)
    BY <1>0, <1>5 DEF TasksOK, Goto, OthersKept
  <2>3. TasksOK'
    BY <1>0, <1>3, <1>5 DEF TasksOK, Goto, Places
  <2>4. Site(t)' = "sync" /\ Holds(t)' = NULL
    BY <2>1 DEF Site, Holds
  <2>5. BuffersOf(t)'
    BY <1>0, <1>1, <2>4 DEF BuffersOf
  <2>6. CallOf(t)'
    BY <1>0, <1>1, <2>4 DEF CallOf, InCall
  <2>7. IoOf(t)' /\ AwakeOf(t)' /\ KeysOf(t)'
    BY <1>0, <1>5, <2>1 DEF IoOf, AwakeOf, KeysOf
  <2> QED  BY <1>0, <1>1, <2>1, <2>2, <2>3, <2>4, <2>5, <2>6, <2>7, OwnStep
<1> QED  BY <1>2, <1>4, <1>5 DEF ll_rw_block

(* The end of a pass of sync_dev, and of sys_sync. *)
LEMMA SyncEndStep ==
  ASSUME Counting, Inv, NEW t \in Tasks, sync_dev_end(t)
  PROVE  Inv'
<1> USE DEF sync_dev_end
<1>0. /\ TasksOK /\ BuffersOf(t) /\ CallOf(t)
      /\ pc[t] = "sync" /\ cpu \in {t, Nobody}
      /\ want' = want /\ ahead' = ahead /\ first' = first /\ bh' = bh /\ io' = io
      /\ UNCHANGED <<heads, lists, queue, drive>>
  BY Parts DEF At
<1>1. Site(t) = "sync" /\ Holds(t) = NULL
  BY <1>0 DEF Site, Holds
<1>2. CASE /\ scan' = [scan EXCEPT ![t].pass = 2, ![t].next = 1]
           /\ Goto(t, "sync") /\ op' = op
  <2>1. pc'[t] = "sync"
    BY <1>0, <1>2 DEF TasksOK, Goto
  <2>2. OthersKept(t)
    BY <1>0, <1>2 DEF TasksOK, Goto, OthersKept
  <2>3. TasksOK'
    BY <1>0, <1>2, SMTT(30) DEF TasksOK, Goto, Places
  <2>4. Site(t)' = "sync" /\ Holds(t)' = NULL
    BY <2>1 DEF Site, Holds
  <2>5. BuffersOf(t)'
    BY <1>0, <1>1, <1>2, <2>4 DEF BuffersOf
  <2>6. CallOf(t)'
    BY <1>0, <1>1, <1>2, <2>4 DEF CallOf, InCall
  <2>7. IoOf(t)' /\ AwakeOf(t)' /\ KeysOf(t)'
    BY <2>1 DEF IoOf, AwakeOf, KeysOf
  <2> QED  BY <1>0, <1>1, <2>1, <2>2, <2>3, <2>4, <2>5, <2>6, <2>7, OwnStep
<1>3. CASE /\ op[t] # "sync" /\ op' = op /\ Goto(t, "victim")
           /\ scan' = [scan EXCEPT ![t] = [dev |-> NULL, pass |-> 2, next |-> 1]]
  <2>1. pc'[t] = "victim"
    BY <1>0, <1>3 DEF TasksOK, Goto
  <2>2. OthersKept(t)
    BY <1>0, <1>3 DEF TasksOK, Goto, OthersKept
  <2>3. TasksOK'
    BY <1>0, <1>3, SMTT(30) DEF TasksOK, Goto, Places
  <2>4. Site(t)' = "victim" /\ Holds(t)' = NULL
    BY <2>1 DEF Site, Holds
  <2>5. BuffersOf(t)'
    BY <1>0, <1>1, <1>3, <2>4 DEF BuffersOf
  <2>6. CallOf(t)'
    BY <1>0, <1>1, <1>3, <2>4 DEF CallOf, InCall
  <2>7. IoOf(t)' /\ AwakeOf(t)' /\ KeysOf(t)'
    BY <2>1 DEF IoOf, AwakeOf, KeysOf
  <2> QED  BY <1>0, <1>1, <2>1, <2>2, <2>3, <2>4, <2>5, <2>6, <2>7, OwnStep
<1>4. CASE /\ op[t] = "sync" /\ op' = [op EXCEPT ![t] = "read"]
           /\ scan' = [scan EXCEPT ![t].next = 1]
           /\ pc' = [pc EXCEPT ![t] = "user"] /\ cpu' = Nobody
  <2>1. pc'[t] = "user" /\ op'[t] = "read"
    BY <1>0, <1>4 DEF TasksOK
  <2>2. OthersKept(t)
    BY <1>0, <1>4 DEF TasksOK, OthersKept
  <2>3. TasksOK'
    <3>1. scan' \in [Tasks -> Scans]
      <4>1. PICK r : r = [scan[t] EXCEPT !.next = 1]
        OBVIOUS
      <4>2. scan[t] \in Scans /\ scan \in [Tasks -> Scans]
        BY <1>0 DEF TasksOK, Scans
      <4>3. r \in Scans
        BY <4>1, <4>2, SMTT(30) DEF Scans
      <4>4. scan' = [scan EXCEPT ![t] = r]
        BY <1>4, <4>1
      <4> QED  BY <4>2, <4>3, <4>4
    <3> QED  BY <1>0, <1>4, <3>1 DEF TasksOK, Places, Operations, Scans
  <2>4. bh[t] = NULL /\ first[t] = NULL
    BY <1>0, <1>1, <1>4 DEF BuffersOf
  <2>5. Site(t)' = "user" /\ Holds(t)' = NULL
    BY <1>0, <2>1, <2>4 DEF Site, Holds
  <2>6. BuffersOf(t)' /\ CallOf(t)'
    BY <1>0, <2>1, <2>4, <2>5 DEF BuffersOf, CallOf, InCall
  <2>7. IoOf(t)' /\ AwakeOf(t)' /\ KeysOf(t)'
    BY <2>1 DEF IoOf, AwakeOf, KeysOf
  <2> QED  BY <1>0, <1>1, <2>1, <2>2, <2>3, <2>5, <2>6, <2>7, OwnStep
<1> QED  BY <1>2, <1>3, <1>4

(* A buffer gets the name of a block that no buffer has. *)
LEMMA RenameNames ==
  ASSUME Counting, HeadsOK, Names,
         NEW b \in Buffers, NEW k \in Keys, \A c \in Buffers : b_key[c] # k,
         Rename(b, k)
  PROVE  Names'
<1> DEFINE free    == Without(free_list, b)
           removed == [h \in DOMAIN hash_table |-> Without(hash_table[h], b)]
<1>1. /\ free_list \in Seq(Buffers) /\ Once(free_list) /\ (\A c \in Buffers : On(free_list, c))
      /\ DOMAIN hash_table = {hash(j) : j \in Keys}
      /\ \A h \in DOMAIN hash_table :
           /\ hash_table[h] \in Seq(Buffers) /\ Once(hash_table[h])
           /\ \A c \in Buffers : On(hash_table[h], c) <=> b_key[c] # NoKey /\ h = hash(b_key[c])
  BY DEF Names
<1>2. /\ free_list' = Append(free, b)
      /\ hash_table' = [removed EXCEPT ![hash(k)] = <<b>> \o @]
      /\ b_key' = [b_key EXCEPT ![b] = k]
  BY DEF Rename
<1>3. /\ b_key'[b] = k /\ (\A c \in Buffers : c # b => b_key'[c] = b_key[c])
  BY <1>2 DEF HeadsOK
<1>4. free_list' \in Seq(Buffers) /\ Once(free_list') /\ (\A c \in Buffers : On(free_list', c))
  <2>1. PICK f : f = free_list
    OBVIOUS
  <2>2. /\ Without(f, b) \in Seq(Buffers) /\ Once(Without(f, b))
        /\ \A c : On(Without(f, b), c) <=> On(f, c) /\ c # b
    BY <1>1, <2>1, ListWithout
  <2>3. PICK g : g = Without(f, b)
    OBVIOUS
  <2>4. /\ Append(g, b) \in Seq(Buffers) /\ Once(Append(g, b))
        /\ \A c : On(Append(g, b), c) <=> c = b \/ On(g, c)
    <3>1. g \in Seq(Buffers) /\ Once(g) /\ ~On(g, b)
      BY <2>2, <2>3
    <3> QED  BY <3>1, ListWith
  <2> QED  BY <1>1, <1>2, <2>1, <2>2, <2>3, <2>4
<1> HIDE DEF removed
<1>5. /\ DOMAIN removed = DOMAIN hash_table
      /\ \A h \in DOMAIN hash_table :
           /\ removed[h] \in Seq(Buffers) /\ Once(removed[h])
           /\ \A c : On(removed[h], c) <=> On(hash_table[h], c) /\ c # b
  <2>1. /\ DOMAIN removed = DOMAIN hash_table
        /\ \A h \in DOMAIN hash_table : removed[h] = Without(hash_table[h], b)
    BY DEF removed
  <2>2. ASSUME NEW h \in DOMAIN hash_table
        PROVE  /\ removed[h] \in Seq(Buffers) /\ Once(removed[h])
               /\ \A c : On(removed[h], c) <=> On(hash_table[h], c) /\ c # b
    <3>1. PICK q : q = hash_table[h]
      OBVIOUS
    <3>2. /\ Without(q, b) \in Seq(Buffers) /\ Once(Without(q, b))
          /\ \A c : On(Without(q, b), c) <=> On(q, c) /\ c # b
      BY <1>1, <3>1, ListWithout
    <3> QED  BY <2>1, <3>1, <3>2
  <2> QED  BY <2>1, <2>2
<1>6. hash(k) \in DOMAIN hash_table
  BY <1>1
<1>7. /\ DOMAIN hash_table' = DOMAIN hash_table
      /\ hash_table'[hash(k)] = <<b>> \o removed[hash(k)]
      /\ \A h \in DOMAIN hash_table : h # hash(k) => hash_table'[h] = removed[h]
  BY <1>2, <1>5, <1>6
<1>8. /\ hash_table'[hash(k)] \in Seq(Buffers) /\ Once(hash_table'[hash(k)])
      /\ \A c : On(hash_table'[hash(k)], c) <=> c = b \/ (On(hash_table[hash(k)], c) /\ c # b)
  <2>1. PICK q : q = removed[hash(k)]
    OBVIOUS
  <2>2. q \in Seq(Buffers) /\ Once(q) /\ ~On(q, b)
    BY <1>5, <1>6, <2>1
  <2>3. /\ <<b>> \o q \in Seq(Buffers) /\ Once(<<b>> \o q)
        /\ \A c : On(<<b>> \o q, c) <=> c = b \/ On(q, c)
    BY <2>2, ListWith
  <2>4. <<b>> \o q = hash_table'[hash(k)]
    BY <1>7, <2>1
  <2>5. \A c : On(q, c) <=> On(hash_table[hash(k)], c) /\ c # b
    BY <1>5, <1>6, <2>1
  <2> QED  BY <2>3, <2>4, <2>5
<1>9. ASSUME NEW h \in DOMAIN hash_table
      PROVE  /\ hash_table'[h] \in Seq(Buffers) /\ Once(hash_table'[h])
             /\ \A c \in Buffers :
                  On(hash_table'[h], c) <=> b_key'[c] # NoKey /\ h = hash(b_key'[c])
  <2>1. CASE h = hash(k)
    <3>1. \A c \in Buffers : c # b => (On(hash_table'[h], c) <=> On(hash_table[h], c))
      BY <1>8, <2>1
    <3>2. On(hash_table'[h], b) /\ k # NoKey
      <4>1. On(hash_table'[hash(k)], b)
        BY <1>8
      <4> QED  BY <2>1, <4>1, Constants
    <3> QED  BY <1>1, <1>3, <1>8, <2>1, <3>1, <3>2
  <2>2. CASE h # hash(k)
    <3>1. hash_table'[h] = removed[h]
      BY <1>7, <2>2
    <3>2. \A c \in Buffers : On(hash_table'[h], c) <=> On(hash_table[h], c) /\ c # b
      BY <1>5, <3>1
    <3> QED  BY <1>1, <1>3, <1>5, <2>2, <3>1, <3>2
  <2> QED  BY <2>1, <2>2
<1>10. hash_table' \in [{hash(j) : j \in Keys} -> Seq(Buffers)]
  <2>1. hash_table' = [h \in DOMAIN hash_table |-> hash_table'[h]]
    BY <1>2, <1>5
  <2> QED  BY <1>1, <1>9, <2>1
<1>11. \A c, d \in Buffers : b_key'[c] = b_key'[d] /\ b_key'[c] # NoKey => c = d
  BY <1>3 DEF Names
<1> QED  BY <1>4, <1>7, <1>9, <1>10, <1>11 DEF Names

(* The requests are not about a buffer that nobody has locked. *)
LEMMA RenameRequests ==
  ASSUME HeadsOK, DriveOK, Requests, NEW b \in Buffers, NEW k, b_key' = [b_key EXCEPT ![b] = k],
         UNCHANGED <<queue, do_hd>>, \A s \in Slots : ~Serves(s, b)
  PROVE  Requests'
<1>1. request' = request /\ current_request' = current_request /\ do_hd' = do_hd
  BY DEF queue
<1>2. Queue' = Queue /\ CURRENT' = CURRENT
  BY <1>1 DEF Queue, CURRENT
<1>3. ASSUME NEW s \in Slots, Pending(s)
      PROVE  Pending(s)' /\ b_key'[request[s].bh] = b_key[request[s].bh]
  <2>1. request[s].bh \in Buffers /\ request[s].bh # b
    BY <1>3 DEF Pending, Serves
  <2>2. b_key'[request[s].bh] = b_key[request[s].bh]
    BY <2>1 DEF HeadsOK
  <2> QED  BY <1>1, <1>3, <2>2 DEF Pending
<1>4. ASSUME Queue # << >> PROVE b_key'[CURRENT.bh] = b_key[CURRENT.bh]
  <2>1. PICK q : q = Queue
    OBVIOUS
  <2>2. q \in Seq(Slots) /\ Once(q) /\ q # << >>
    BY <1>4, <2>1 DEF Requests, Queue, Drivers
  <2>3. Head(q) \in Slots /\ On(q, Head(q))
    BY <2>2, ListTail
  <2>4. Pending(Head(q))
    BY <2>1, <2>3 DEF Requests
  <2> QED  BY <1>3, <2>1, <2>3, <2>4 DEF CURRENT
<1>5. \A s \in Slots : IF On(Queue, s)' THEN Pending(s)' ELSE request'[s] = Idle
  BY <1>1, <1>2, <1>3 DEF Requests, On
<1> QED  BY <1>1, <1>2, <1>4, <1>5 DEF Requests

(* The victim has been waited for: getblk starts again, writes it out, or  *)
(* takes it.                                                               *)
LEMMA RepeatStep ==
  ASSUME Counting, Inv, NEW t \in Tasks, cpu \in {t, Nobody}, pc[t] = "victim", Repeat(t),
         UNCHANGED <<queue, drive, op, want, first, ahead, calls, io>>
  PROVE  Inv'
<1>0. /\ TasksOK /\ BuffersOf(t) /\ CallOf(t)
      /\ bh' = [bh EXCEPT ![t] = NULL] /\ Goto(t, "getblk") /\ scan' = scan
      /\ op' = op /\ want' = want /\ ahead' = ahead /\ first' = first /\ io' = io
      /\ UNCHANGED <<heads, lists, queue, drive>>
  BY Parts DEF Repeat
<1>1. Site(t) = "victim" /\ Holds(t) = NULL
  BY DEF Site, Holds
<1>2. pc'[t] = "getblk" /\ bh'[t] = NULL
  BY <1>0 DEF TasksOK, Goto
<1>3. OthersKept(t)
  BY <1>0 DEF TasksOK, Goto, OthersKept
<1>4. TasksOK'
  BY <1>0, SMTT(30) DEF TasksOK, Goto, Places
<1>5. Site(t)' = "getblk" /\ Holds(t)' = NULL
  BY <1>2 DEF Site, Holds
<1>6. BuffersOf(t)'
  BY <1>0, <1>1, <1>2, <1>5 DEF BuffersOf
<1>7. CallOf(t)'
  BY <1>0, <1>1, <1>5 DEF CallOf, InCall
<1>8. IoOf(t)' /\ AwakeOf(t)' /\ KeysOf(t)'
  BY <1>2 DEF IoOf, AwakeOf, KeysOf
<1> QED  BY <1>0, <1>1, <1>2, <1>3, <1>4, <1>5, <1>6, <1>7, <1>8, OwnStep

(* The victim is dirty: getblk calls sync_dev, and does not hold it. *)
LEMMA CleanStep ==
  ASSUME Counting, Inv, NEW t \in Tasks, cpu \in {t, Nobody}, pc[t] = "victim", CleanVictim(t),
         UNCHANGED <<queue, drive, op, want, first, ahead, calls, io>>
  PROVE  Inv'
<1>0. /\ TasksOK /\ HeadsOK /\ BuffersOf(t) /\ CallOf(t)
      /\ scan' = [scan EXCEPT ![t] = [dev |-> b_key[bh[t]][1], pass |-> 1, next |-> 1]]
      /\ bh' = bh /\ Goto(t, "sync")
      /\ op' = op /\ want' = want /\ ahead' = ahead /\ first' = first /\ io' = io
      /\ UNCHANGED <<heads, lists, queue, drive>>
  BY Parts DEF CleanVictim
<1>1. Site(t) = "victim" /\ Holds(t) = NULL /\ bh[t] \in Buffers
  BY <1>0 DEF Site, Holds, BuffersOf
<1>2. pc'[t] = "sync"
  BY <1>0 DEF TasksOK, Goto
<1>3. OthersKept(t)
  BY <1>0 DEF TasksOK, Goto, OthersKept
<1>4. TasksOK'
  <2>1. b_key[bh[t]] \in Keys \cup {NoKey}
    BY <1>0, <1>1 DEF HeadsOK
  <2>2. b_key[bh[t]][1] \in 0..3
    BY <2>1, Constants, SMTT(30) DEF NoKey
  <2> QED  BY <1>0, <2>2, SMTT(30) DEF TasksOK, Goto, Places
<1>5. Site(t)' = "sync" /\ Holds(t)' = NULL
  BY <1>2 DEF Site, Holds
<1>6. op[t] # "sync"
  BY <1>0, <1>1 DEF CallOf
<1>7. BuffersOf(t)'
  BY <1>0, <1>1, <1>5, <1>6 DEF BuffersOf
<1>8. CallOf(t)'
  BY <1>0, <1>1, <1>5, <1>6 DEF CallOf, InCall
<1>9. IoOf(t)' /\ AwakeOf(t)' /\ KeysOf(t)'
  BY <1>2 DEF IoOf, AwakeOf, KeysOf
<1> QED  BY <1>0, <1>1, <1>2, <1>3, <1>4, <1>5, <1>7, <1>8, <1>9, OwnStep

(* No other task relies on the name of a buffer that is neither counted    *)
(* nor locked.                                                             *)
LEMMA NobodysBuffer ==
  ASSUME Counting, Inv, NEW t \in Tasks, cpu \in {t, Nobody},
         NEW b \in Buffers, b_count[b] = 0, ~b_lock[b],
         NEW u \in Tasks, u # t
  PROVE  /\ pc[u] = "hashed" => bh[u] # b
         /\ pc[u] \in {"make_request", "request"} => io[u].bh # b
<1>0. HeadsOK /\ CountsUsers /\ BuffersOf(u) /\ IoOf(u) /\ AwakeOf(u) /\ Locks
  BY Parts
<1>1. Holds(u) # b /\ first[u] # b
  <2>1. ~(b_count[b] > 0)
    BY SMTT(30)
  <2> QED  BY <1>0, <2>1, HeldCounted
<1>2. pc[u] = "hashed" => bh[u] # b
  BY <1>1 DEF Holds, Site
<1>3. CASE pc[u] = "make_request"
  <2>1. io[u].ret # "sync"
    BY <1>0, <1>3, Constants DEF AwakeOf
  <2>2. io[u].ret = "read_wait" => Holds(u) = io[u].bh
    BY <1>0, <1>3 DEF IoOf, Holds, Site
  <2>3. io[u].ret # "read_wait" => first[u] = io[u].bh
    BY <1>0, <1>3, <2>1 DEF IoOf
  <2> QED  BY <1>1, <1>2, <2>2, <2>3, <1>3
<1>4. CASE pc[u] = "request"
  <2>1. io[u].bh # b
    BY <1>0, <1>4 DEF Locks, LocksOf, Asks
  <2> QED  BY <1>2, <2>1
<1> QED  BY <1>2, <1>3, <1>4

(* getblk takes the victim, which nobody uses, and gives it its new name. *)
LEMMA TakeStep ==
  ASSUME Counting, Inv, NEW t \in Tasks, cpu \in {t, Nobody}, pc[t] = "victim", ~b_lock[bh[t]],
         b_count[bh[t]] = 0, ~InCache(want[t]), TakeVictim(t),
         UNCHANGED <<queue, drive, op, want, first, ahead, calls, io>>
  PROVE  Inv'
<1>0. /\ TasksOK /\ HeadsOK /\ DriveOK /\ BuffersOf(t) /\ CallOf(t) /\ Locks /\ Names /\ Requests
      /\ CountsUsers /\ NoStrandedSleeper /\ Control
      /\ b_lock' = b_lock /\ b_data' = b_data /\ scan' = scan /\ bh' = bh /\ Goto(t, "got")
      /\ op' = op /\ want' = want /\ ahead' = ahead /\ first' = first /\ io' = io
      /\ UNCHANGED <<queue, drive>> /\ request' = request
  BY Parts DEF TakeVictim, Inv, queue
<1>1. Site(t) = "victim" /\ Holds(t) = NULL /\ bh[t] \in Buffers
  BY <1>0 DEF Site, Holds, BuffersOf
<1>2. op[t] # "sync" /\ want[t] \in Keys
  BY <1>0, <1>1, WantsKey
<1>3. PICK b \in Buffers, k \in Keys : b = bh[t] /\ k = want[t]
  BY <1>1, <1>2
<1>4. \A c \in Buffers : b_key[c] # k
  BY <1>0, <1>3, Found DEF InCache
<1>5. /\ Rename(b, k) /\ b_key' = [b_key EXCEPT ![b] = k]
      /\ b_count' = [b_count EXCEPT ![b] = 1] /\ b_dirt' = [b_dirt EXCEPT ![b] = FALSE]
      /\ b_uptodate' = [b_uptodate EXCEPT ![b] = FALSE]
      /\ ~b_lock[b] /\ b_count[b] = 0
  BY <1>3 DEF TakeVictim, Rename
<1>6. pc'[t] = "got" /\ bh'[t] = b
  BY <1>0, <1>3 DEF TasksOK, Goto
<1>7. OthersKept(t)
  BY <1>0 DEF TasksOK, Goto, OthersKept
<1>8. TypeOK'
  <2>1. TasksOK'
    BY <1>0, SMTT(30) DEF TasksOK, Goto, Places
  <2>2. HeadsOK'
    BY <1>0, <1>5 DEF HeadsOK
  <2>3. DriveOK'
    BY <1>0 DEF DriveOK, drive, queue
  <2> QED  BY <2>1, <2>2, <2>3, TypePartsNext
<1>9. Site(t)' = "got" /\ Holds(t)' = b
  BY <1>6 DEF Site, Holds
<1>10. Control'
  <2>1. BuffersOf(t)'
    BY <1>0, <1>1, <1>6, <1>9 DEF BuffersOf
  <2>2. CallOf(t)'
    BY <1>0, <1>1, <1>9 DEF CallOf, InCall
  <2>3. ControlOf(t)'
    BY <1>6, <2>1, <2>2 DEF ControlOf, IoOf, KeysOf, AwakeOf
  <2>4. ASSUME NEW u \in Tasks \ {t}, KeysOf(u) PROVE KeysOf(u)'
    <3>1. /\ pc'[u] = pc[u] \/ pc'[u] = "getblk"
          /\ bh'[u] = bh[u] /\ want'[u] = want[u] /\ io'[u] = io[u]
      BY <1>7 DEF OthersKept
    <3>2. /\ pc[u] = "hashed" => bh[u] # b
          /\ pc[u] \in {"make_request", "request"} => io[u].bh # b
      BY <1>5, NobodysBuffer
    <3>3. /\ pc[u] = "hashed" => bh[u] \in Buffers
          /\ pc[u] \in {"make_request", "request"} => io[u].bh \in Buffers
      <4>1. BuffersOf(u) /\ IoOf(u)
        BY Parts
      <4> QED  BY <4>1 DEF BuffersOf, IoOf, Site
    <3>4. \A c \in Buffers : c # b => b_key'[c] = b_key[c]
      BY <1>0, <1>5 DEF HeadsOK
    <3> QED  BY <2>4, <3>1, <3>2, <3>3, <3>4 DEF KeysOf
  <2> QED  BY <1>0, <1>7, <2>3, <2>4, OthersControlled
<1>11. Locks'
  BY <1>0, <1>6, <1>7, SameLocks
<1>12. Names'
  BY <1>0, <1>4, <1>5, RenameNames
<1>13. Requests'
  <2>1. \A s \in Slots : ~Serves(s, b)
    BY <1>0, <1>5 DEF Locks, LocksOf
  <2> QED  BY <1>0, <1>5, <2>1, RenameRequests DEF drive
<1>14. CountsUsers'
  <2>1. Recounts(t)
    BY <1>0, <1>1, <1>5, <1>9, VictimCounts
  <2> QED  BY <1>0, <1>7, <2>1, Recounted
<1>15. NoStrandedSleeper'
  <2>1. Uses(t)' # {}
    BY <1>9, Constants DEF Uses
  <2> QED  BY <1>0, <1>6, <1>7, <2>1, NobodyStranded
<1> QED  BY <1>8, <1>10, <1>11, <1>12, <1>13, <1>14, <1>15 DEF Inv

(* getblk after it has waited for its victim. *)
LEMMA VictimStep ==
  ASSUME Counting, Inv, NEW t \in Tasks, getblk_victim(t)
  PROVE  Inv'
<1>1. pc[t] = "victim" /\ cpu \in {t, Nobody}
  BY DEF getblk_victim, At
<1> QED  BY <1>1, RepeatStep, CleanStep, TakeStep DEF getblk_victim

(* brelse, with which the system call ends: all sleepers of buffer_wait    *)
(* are awake after it.                                                     *)
LEMMA BrelseStep ==
  ASSUME Counting, Inv, NEW t \in Tasks, brelse(t)
  PROVE  Inv'
<1> USE DEF brelse
<1>0. /\ HeadsOK /\ DriveOK /\ TasksOK /\ CountsUsers /\ Locks /\ Names /\ Requests
      /\ BuffersOf(t) /\ Control
      /\ pc[t] = "brelse" /\ cpu \in {t, Nobody} /\ cpu' = Nobody
      /\ ahead' = ahead /\ first' = first /\ scan' = scan /\ io' = io
      /\ UNCHANGED <<b_key, b_uptodate, b_dirt, b_lock, b_data, lists, queue, drive>>
  BY Parts DEF At, Inv
<1>1. Site(t) = "brelse" /\ bh[t] \in Buffers /\ first[t] = NULL /\ Holds(t) = bh[t]
  BY <1>0 DEF Site, BuffersOf, Holds
<1>2. pc'[t] = "user" /\ bh'[t] = NULL /\ op'[t] = "read"
  BY <1>0 DEF TasksOK, wake_up
<1>3. \A u \in Tasks \ {t} :
        /\ pc'[u] = (IF pc[u] = "buffer_wait" THEN "getblk" ELSE pc[u])
        /\ op'[u] = op[u] /\ want'[u] = want[u] /\ bh'[u] = bh[u]
  BY <1>0 DEF TasksOK, wake_up
<1>4. OthersKept(t)
  BY <1>0, <1>3 DEF OthersKept
<1>5. PICK b \in Buffers : b = bh[t]
  BY <1>1
<1>6. b_count[b] > 0 /\ b_count[b] \in Nat
  <2>1. b_count[b] > 0
    BY <1>0, <1>1, <1>5, HeldCounted
  <2> QED  BY <1>0, <2>1 DEF HeadsOK
<1>7. b_count' = [b_count EXCEPT ![b] = @ - 1]
  BY <1>5 DEF Released
<1>8. TypeOK'
  <2>1. TasksOK'
    <3>1. pc' \in [Tasks -> Places]
      BY <1>0 DEF TasksOK, wake_up, Places
    <3> QED  BY <1>0, <3>1 DEF TasksOK, Operations
  <2>2. HeadsOK'
    BY <1>0, <1>6, <1>7, SMTT(30) DEF HeadsOK
  <2>3. DriveOK'
    BY <1>0 DEF DriveOK, drive, queue
  <2> QED  BY <2>1, <2>2, <2>3, TypePartsNext
<1>9. Site(t)' = "user" /\ Holds(t)' = NULL
  BY <1>2 DEF Site, Holds
<1>10. ControlOf(t)'
  <2>1. BuffersOf(t)'
    BY <1>0, <1>1, <1>2, <1>9 DEF BuffersOf
  <2>2. CallOf(t)'
    BY <1>2, <1>9 DEF CallOf, InCall
  <2> QED  BY <1>2, <2>1, <2>2 DEF ControlOf, IoOf, KeysOf, AwakeOf
<1>11. Recounts(t)
  BY <1>0, <1>1, <1>5, <1>7, <1>9, GivenCounts
<1>12. Control' /\ CountsUsers'
  <2>1. Control'
    BY <1>0, <1>4, <1>10, SameKeys, OthersControlled
  <2>2. CountsUsers'
    BY <1>0, <1>4, <1>11, Recounted
  <2> QED  BY <2>1, <2>2
<1>13. Locks'
  BY <1>0, <1>2, <1>4, SameLocks DEF queue
<1>14. Names' /\ Requests'
  BY <1>0, SameNames, SameRequests DEF drive
<1>15. NoStrandedSleeper'
  <2>1. \A u \in Tasks : pc'[u] # "buffer_wait"
    BY <1>2, <1>3, SMTT(30)
  <2> QED  BY <2>1 DEF NoStrandedSleeper
<1> QED  BY <1>8, <1>12, <1>13, <1>14, <1>15 DEF Inv

(* A task returns from ll_rw_block to its caller. *)
LEMMA Returned ==
  ASSUME Inv, NEW t \in Tasks, pc[t] \in {"make_request", "request"}, IoDone(t),
         UNCHANGED <<frame, bh, b_count>>
  PROVE  /\ OthersKept(t) /\ TasksOK' /\ ControlOf(t)' /\ Recounts(t) /\ Uses(t)' = Uses(t)
         /\ pc'[t] \notin {"request", "buffer_wait"}
<1>0. /\ HeadsOK /\ TasksOK /\ BuffersOf(t) /\ CallOf(t) /\ IoOf(t)
      /\ op' = op /\ want' = want /\ ahead' = ahead /\ first' = first /\ scan' = scan
      /\ bh' = bh /\ b_count' = b_count
  BY Parts DEF frame
<1>1. /\ Site(t) = io[t].ret
      /\ io[t].ret \in {"read_wait", "va_arg", "count_down", "sync"}
  BY <1>0 DEF Site, IoOf
<1>2. pc'[t] = io[t].ret
  BY <1>0 DEF TasksOK, IoDone, Goto
<1>3. OthersKept(t)
  BY <1>0 DEF TasksOK, IoDone, Goto, OthersKept
<1>4. TasksOK'
  BY <1>0, <1>1 DEF TasksOK, IoDone, Goto, Places, NoIo, READ, WRITE, READA
<1>5. Site(t)' = Site(t)
  BY <1>1, <1>2 DEF Site
<1>6. Holds(t)' = Holds(t)
  BY <1>0, <1>5 DEF Holds
<1>7. BuffersOf(t)'
  BY <1>0, <1>5 DEF BuffersOf
<1>8. CallOf(t)'
  BY <1>0, <1>5 DEF CallOf, InCall
<1>9. ControlOf(t)'
  BY <1>1, <1>2, <1>7, <1>8 DEF ControlOf, IoOf, KeysOf, AwakeOf
<1>10. Recounts(t)
  BY <1>0, <1>6, SameCounts
<1> QED  BY <1>0, <1>1, <1>2, <1>3, <1>4, <1>6, <1>9, <1>10 DEF Uses

(* make_request: the buffer is what the caller wants, or it is locked.     *)
LEMMA MakeStep ==
  ASSUME Counting, Inv, NEW t \in Tasks, make_request(t)
  PROVE  Inv'
<1> USE DEF make_request
<1>0. /\ HeadsOK /\ DriveOK /\ TasksOK /\ Locks /\ Requests
      /\ BuffersOf(t) /\ CallOf(t) /\ IoOf(t) /\ KeysOf(t)
      /\ pc[t] = "make_request" /\ cpu \in {t, Nobody}
      /\ b_key' = b_key /\ b_uptodate' = b_uptodate /\ b_dirt' = b_dirt
      /\ b_count' = b_count /\ b_data' = b_data
      /\ UNCHANGED <<lists, queue, drive, frame, bh>>
  BY Parts DEF At
<1>1. Requests' /\ DriveOK' /\ request' = request
  BY <1>0, SameRequests DEF drive, queue, DriveOK
<1>2. CASE IoDone(t) /\ b_lock' = b_lock
  <2>1. /\ OthersKept(t) /\ TasksOK' /\ ControlOf(t)' /\ Recounts(t) /\ Uses(t)' = Uses(t)
        /\ pc'[t] \notin {"request", "buffer_wait"}
    BY <1>0, <1>2, Returned
  <2>2. TypeOK'
    BY <1>0, <1>1, <1>2, <2>1, TypePartsNext DEF HeadsOK
  <2>3. Locks'
    BY <1>0, <1>1, <1>2, <2>1, SameLocks
  <2> QED  BY <1>0, <1>1, <2>1, <2>2, <2>3, TaskStep
<1>3. CASE /\ ~b_lock[io[t].bh] /\ b_lock' = [b_lock EXCEPT ![io[t].bh] = TRUE]
           /\ Goto(t, "request") /\ io' = io
  <2>1. PICK b \in Buffers : b = io[t].bh
    BY <1>0 DEF IoOf
  <2>2. /\ op' = op /\ want' = want /\ ahead' = ahead /\ first' = first /\ scan' = scan
        /\ bh' = bh /\ io' = io
    BY <1>0, <1>3 DEF frame
  <2>3. pc'[t] = "request" /\ OthersKept(t)
    BY <1>0, <1>3, <2>2 DEF TasksOK, Goto, OthersKept
  <2>4. TasksOK'
    BY <1>0, <1>3, <2>2 DEF TasksOK, Goto, Places
  <2>5. /\ b_lock' \in [Buffers -> BOOLEAN] /\ b_lock'[b] /\ ~b_lock[b]
        /\ \A c \in Buffers \ {b} : b_lock'[c] = b_lock[c]
    <3>1. b_lock' = [b_lock EXCEPT ![b] = TRUE] /\ ~b_lock[b]
      BY <1>3, <2>1
    <3>2. b_lock \in [Buffers -> BOOLEAN]
      BY <1>0 DEF HeadsOK
    <3> QED  BY <3>1, <3>2
  <2>6. TypeOK'
    <3>1. HeadsOK'
      BY <1>0, <2>5 DEF HeadsOK
    <3> QED  BY <1>1, <2>4, <3>1, TypePartsNext
  <2>7. Site(t)' = Site(t)
    BY <1>0, <2>2, <2>3 DEF Site
  <2>8. Holds(t)' = Holds(t) /\ Uses(t)' = Uses(t)
    BY <2>2, <2>7 DEF Holds, Uses
  <2>9. ControlOf(t)'
    <3>1. BuffersOf(t)'
      BY <1>0, <2>2, <2>7 DEF BuffersOf
    <3>2. CallOf(t)'
      BY <1>0, <2>2, <2>7 DEF CallOf, InCall
    <3>3. IoOf(t)' /\ KeysOf(t)' /\ AwakeOf(t)'
      BY <1>0, <2>2, <2>3 DEF IoOf, KeysOf, AwakeOf
    <3> QED  BY <3>1, <3>2, <3>3 DEF ControlOf
  <2>10. Recounts(t)
    BY <1>0, <2>2, <2>8, SameCounts
  <2>11. ASSUME NEW c \in Buffers PROVE LocksOf(c)'
    <3>1. \A s \in Slots : Serves(s, c)' <=> Serves(s, c)
      BY <1>1 DEF Serves
    <3>2. \A u \in Tasks : Asks(u, c)' <=> Asks(u, c) \/ (u = t /\ c = b)
      <4>1. ASSUME NEW u \in Tasks, u # t PROVE Asks(u, c)' <=> Asks(u, c)
        BY <4>1, <2>3 DEF Asks, OthersKept
      <4>2. Asks(t, c)' <=> c = b
        BY <2>1, <2>2, <2>3 DEF Asks
      <4>3. ~Asks(t, c)
        BY <1>0 DEF Asks
      <4> QED  BY <4>1, <4>2, <4>3
    <3>3. LocksOf(c)
      BY <1>0 DEF Locks
    <3>4. CASE c # b
      <4>1. \A u \in Tasks : Asks(u, c)' <=> Asks(u, c)
        BY <3>2, <3>4
      <4>2. b_lock'[c] = b_lock[c]
        BY <2>5, <3>4
      <4> QED  BY <3>1, <3>3, <4>1, <4>2, SameLocksOf
    <3>5. CASE c = b
      <4>1. (\A u \in Tasks : ~Asks(u, c)) /\ (\A s \in Slots : ~Serves(s, c))
        BY <2>5, <3>3, <3>5 DEF LocksOf
      <4>2. (\A u \in Tasks : Asks(u, c)' <=> u = t) /\ (\A s \in Slots : ~Serves(s, c)')
        BY <3>1, <3>2, <3>5, <4>1
      <4> QED  BY <2>5, <3>5, <4>2 DEF LocksOf
    <3> QED  BY <3>4, <3>5
  <2>12. Locks'
    BY <2>11 DEF Locks
  <2>13. pc'[t] # "buffer_wait"
    BY <2>3
  <2> QED  BY <1>0, <1>1, <2>3, <2>6, <2>8, <2>9, <2>10, <2>12, <2>13, TaskStep
<1> QED  BY <1>2, <1>3

(* A task in make_request unlocks the buffer it has locked. *)
LEMMA UnlockedAgain ==
  ASSUME HeadsOK, Locks, NEW t \in Tasks, OthersKept(t), NEW b \in Buffers, Asks(t, b),
         pc'[t] # "request", b_lock' = [b_lock EXCEPT ![b] = FALSE], request' = request
  PROVE  Locks' /\ b_lock' \in [Buffers -> BOOLEAN]
<1>1. b_lock \in [Buffers -> BOOLEAN]
  BY DEF HeadsOK
<1>2. /\ b_lock' \in [Buffers -> BOOLEAN] /\ ~b_lock'[b]
      /\ \A c \in Buffers \ {b} : b_lock'[c] = b_lock[c]
  BY <1>1
<1>3. ASSUME NEW c \in Buffers PROVE LocksOf(c)'
  <2>1. \A s \in Slots : Serves(s, c)' <=> Serves(s, c)
    BY DEF Serves
  <2>2. \A u \in Tasks \ {t} : Asks(u, c)' <=> Asks(u, c)
    BY DEF Asks, OthersKept
  <2>3. ~Asks(t, c)' /\ (c # b => ~Asks(t, c))
    BY DEF Asks
  <2>4. LocksOf(c) /\ LocksOf(b)
    BY DEF Locks
  <2>5. CASE c # b
    <3>1. \A u \in Tasks : Asks(u, c)' <=> Asks(u, c)
      BY <2>2, <2>3, <2>5
    <3>2. b_lock'[c] = b_lock[c]
      BY <1>2, <2>5
    <3> QED  BY <2>1, <2>4, <3>1, <3>2, SameLocksOf
  <2>6. CASE c = b
    <3>1. (\A u \in Tasks \ {t} : ~Asks(u, c)) /\ (\A s \in Slots : ~Serves(s, c))
      BY <2>4, <2>6 DEF LocksOf
    <3>2. (\A u \in Tasks : ~Asks(u, c)') /\ (\A s \in Slots : ~Serves(s, c)')
      BY <2>1, <2>2, <2>3, <3>1
    <3> QED  BY <1>2, <2>6, <3>2 DEF LocksOf
  <2> QED  BY <2>5, <2>6
<1> QED  BY <1>2, <1>3 DEF Locks

(* make_request finds no free request: a read-ahead is dropped, another    *)
(* one waits.                                                              *)
LEMMA NoRequestStep ==
  ASSUME Counting, Inv, NEW t \in Tasks, no_request(t)
  PROVE  Inv'
<1> USE DEF no_request
<1>0. /\ HeadsOK /\ DriveOK /\ TasksOK /\ Locks /\ Requests
      /\ BuffersOf(t) /\ CallOf(t) /\ IoOf(t) /\ KeysOf(t)
      /\ pc[t] = "request" /\ cpu \in {t, Nobody}
      /\ b_key' = b_key /\ b_uptodate' = b_uptodate /\ b_dirt' = b_dirt
      /\ b_count' = b_count /\ b_data' = b_data
      /\ UNCHANGED <<lists, queue, drive, frame, bh>>
  BY Parts DEF At
<1>1. Requests' /\ DriveOK' /\ request' = request
  BY <1>0, SameRequests DEF drive, queue, DriveOK
<1>2. CASE io[t].rw = READA
  <2>1. b_lock' = [b_lock EXCEPT ![io[t].bh] = FALSE] /\ IoDone(t)
    BY <1>2
  <2>2. PICK b \in Buffers : b = io[t].bh
    BY <1>0 DEF IoOf
  <2>3. /\ OthersKept(t) /\ TasksOK' /\ ControlOf(t)' /\ Recounts(t) /\ Uses(t)' = Uses(t)
        /\ pc'[t] \notin {"request", "buffer_wait"}
    BY <1>0, <2>1, Returned
  <2>4. Asks(t, b) /\ pc'[t] # "request" /\ pc'[t] # "buffer_wait"
    BY <1>0, <2>2, <2>3 DEF Asks
  <2>5. Locks' /\ b_lock' \in [Buffers -> BOOLEAN]
    BY <1>0, <1>1, <2>1, <2>2, <2>3, <2>4, UnlockedAgain
  <2>6. TypeOK'
    BY <1>0, <1>1, <2>3, <2>5, TypePartsNext DEF HeadsOK
  <2> QED  BY <1>0, <1>1, <2>3, <2>4, <2>5, <2>6, TaskStep
<1>3. CASE io[t].rw # READA
  <2>1. /\ pc' = pc /\ io' = io /\ b_lock' = b_lock /\ cpu' = Nobody
        /\ op' = op /\ want' = want /\ ahead' = ahead /\ first' = first /\ scan' = scan
        /\ bh' = bh
    BY <1>0, <1>3 DEF Sleep, frame
  <2>2. OthersKept(t) /\ Site(t)' = Site(t)
    BY <2>1 DEF OthersKept, Site
  <2>3. TasksOK' /\ UNCHANGED heads
    BY <1>0, <2>1 DEF TasksOK, heads
  <2>4. BuffersOf(t)' /\ IoOf(t)' /\ KeysOf(t)' /\ AwakeOf(t)' /\ Holds(t)' = Holds(t)
    BY <1>0, <2>1, <2>2 DEF BuffersOf, IoOf, KeysOf, AwakeOf, Holds
  <2>5. CallOf(t)'
    BY <1>0, <2>1, <2>2 DEF CallOf, InCall
  <2>6. pc'[t] # "buffer_wait"
    BY <1>0, <2>1
  <2> QED  BY <1>0, <2>1, <2>2, <2>3, <2>4, <2>5, <2>6, OwnStep
<1> QED  BY <1>2, <1>3

(* add_request for the ram disk, which serves the request at once. *)
LEMMA RamdiskStep ==
  ASSUME Counting, Inv, NEW t \in Tasks, pc[t] = "request", cpu \in {t, Nobody},
         NEW b \in Buffers, b = io[t].bh,
         b_dirt' = [b_dirt EXCEPT ![b] = FALSE], b_key[b][1] = RAMDISK,
         do_rd_request(t, b), IoDone(t),
         UNCHANGED <<b_key, b_count, lists, reset, recalibrate, hd_data, faults, frame, bh>>
  PROVE  Inv'
<1>0. HeadsOK /\ DriveOK /\ Locks /\ Requests /\ b_key' = b_key /\ b_count' = b_count
  BY Parts
<1>1. /\ OthersKept(t) /\ TasksOK' /\ ControlOf(t)' /\ Recounts(t) /\ Uses(t)' = Uses(t)
      /\ pc'[t] \notin {"request", "buffer_wait"}
  BY Returned
<1>2. /\ UNCHANGED <<queue, do_hd>> /\ request' = request
      /\ b_lock' = [b_lock EXCEPT ![b] = FALSE]
  BY DEF do_rd_request, queue
<1>3. Locks' /\ b_lock' \in [Buffers -> BOOLEAN]
  <2>1. Asks(t, b) /\ pc'[t] # "request"
    BY <1>1 DEF Asks
  <2> QED  BY <1>0, <1>1, <1>2, <2>1, UnlockedAgain
<1>4. Requests'
  BY <1>0, <1>2, SameRequests
<1>5. HeadsOK' /\ DriveOK'
  <2>1. PICK k : k = b_key[b]
    OBVIOUS
  <2>2. k \in Keys
    <3>1. k \in Keys \cup {NoKey} /\ k[1] = RAMDISK
      BY <1>0, <2>1 DEF HeadsOK
    <3> QED  BY <3>1, SMT DEF NoKey, RAMDISK
  <2>3. b_data' \in [Buffers -> Values \X Values] /\ disk' \in [Stored -> Values \X Values]
    <3>1. /\ b_data \in [Buffers -> Values \X Values]
          /\ disk \in [Stored -> Values \X Values]
      BY <1>0 DEF HeadsOK, DriveOK
    <3>2. /\ b_data' = b_data \/ (k \in Stored /\ b_data' = [b_data EXCEPT ![b] = disk[k]])
          /\ disk' = disk \/ (k \in Stored /\ disk' = [disk EXCEPT ![k] = b_data[b]])
      BY <2>1 DEF do_rd_request
    <3> HIDE DEF Stored, Buffers
    <3> QED  BY <3>1, <3>2
  <2>4. failed' \subseteq Keys
    <3>1. failed' = failed \/ failed' = failed \cup {k}
      BY <2>1 DEF do_rd_request
    <3> QED  BY <1>0, <2>2, <3>1 DEF DriveOK
  <2>5. b_uptodate' \in [Buffers -> BOOLEAN] /\ b_dirt' \in [Buffers -> BOOLEAN]
    <3>1. b_uptodate \in [Buffers -> BOOLEAN] /\ b_dirt \in [Buffers -> BOOLEAN]
      BY <1>0 DEF HeadsOK
    <3>2. b_uptodate' = [b_uptodate EXCEPT ![b] = (k \in Stored)]
      BY <2>1 DEF do_rd_request
    <3> HIDE DEF Stored, Buffers
    <3> QED  BY <3>1, <3>2, SMT
  <2>6. HeadsOK'
    BY <1>0, <1>3, <2>3, <2>5 DEF HeadsOK
  <2>7. DriveOK'
    BY <1>0, <1>2, <2>3, <2>4 DEF DriveOK
  <2> QED  BY <2>6, <2>7
<1>6. TypeOK' /\ pc'[t] # "buffer_wait"
  BY <1>1, <1>5, TypePartsNext
<1> QED  BY <1>0, <1>1, <1>3, <1>4, <1>6, TaskStep

(* add_request for the hard disk: the request is in the queue, behind the  *)
(* one that the driver serves, or it is the first and starts the driver.   *)
LEMMA QueuedRequests ==
  ASSUME Counting, Inv, NEW t \in Tasks, NEW b \in Buffers, b = io[t].bh, b_key' = b_key,
         b_key[b][1] = HARD, NEW s \in Slots, request[s].dev = NULL,
         request' = [request EXCEPT ![s] = NewRequest(t)],
         current_request' = [current_request EXCEPT ![HARD] =
           IF Queue = << >> THEN <<s>> ELSE InsertBehind(Queue, Behind(Queue, NewRequest(t)), s)],
         do_hd' = IF Queue = << >> THEN "do_hd_request" ELSE do_hd
  PROVE  /\ request[s] = Idle /\ DriveOK /\ Requests' /\ request' \in [Slots -> ARequest]
         /\ do_hd' \in {"read_intr", "write_intr", "recal_intr"} =>
              do_hd' = do_hd /\ CURRENT' = CURRENT
<1>0. HeadsOK /\ DriveOK /\ TasksOK /\ Requests
  BY TypeParts DEF Inv
<1>1. b_key[b] \in Keys
  <2>1. b_key[b] \in Keys \cup {NoKey}
    BY <1>0 DEF HeadsOK
  <2> QED  BY <2>1, SMT DEF NoKey, HARD
<1>2. b_key[b][2] \in Nat
  BY <1>1, Constants
<1>3. /\ NewRequest(t).dev = HARD /\ NewRequest(t).bh = b /\ NewRequest(t).nr_sectors = 2
      /\ NewRequest(t).sector = 2 * b_key[b][2]
  BY DEF NewRequest
<1>4. NewRequest(t) \in ARequest
  BY <1>2, SMTT(30) DEF NewRequest, ARequest, Drivers, HARD, RAMDISK, READ, WRITE
<1>5. /\ request' \in [Slots -> ARequest] /\ request'[s] = NewRequest(t)
      /\ \A r \in Slots \ {s} : request'[r] = request[r]
  BY <1>0, <1>4 DEF DriveOK
<1>6. ~On(Queue, s) /\ request[s] = Idle
  <2>1. ~On(Queue, s)
    <3>1. HARD # NULL
      BY SMT DEF HARD
    <3> QED  BY <1>0, <3>1 DEF Requests, Pending
  <2> QED  BY <1>0, <2>1 DEF Requests
<1>7. PICK q : q = Queue
  OBVIOUS
<1>8. PICK p : p = Queue'
  OBVIOUS
<1>9. q \in Seq(Slots) /\ Once(q) /\ ~On(q, s)
  <2>1. Queue \in Seq(Slots)
    BY <1>0 DEF Requests, Queue, Drivers
  <2> QED  BY <1>0, <1>6, <1>7, <2>1 DEF Requests
<1>10. /\ current_request' \in [Drivers -> Seq(Slots)] => p \in Seq(Slots)
       /\ p = IF q = << >> THEN <<s>> ELSE InsertBehind(q, Behind(q, NewRequest(t)), s)
  BY <1>0, <1>7, <1>8 DEF Requests, Queue, Drivers
<1>11. /\ p \in Seq(Slots) /\ Once(p) /\ p # << >>
       /\ \A r : On(p, r) <=> r = s \/ On(q, r)
       /\ q # << >> => Head(p) = Head(q)
  <2>1. CASE q = << >>
    <3>1. p = <<s>>
      BY <2>1, <1>10
    <3>2. \A r : ~On(q, r)
      BY <2>1, SMTT(30) DEF On
    <3>3. <<s>> # << >>
      OBVIOUS
    <3> QED  BY <2>1, <3>1, <3>2, <3>3, OneEntry
  <2>2. CASE q # << >>
    <3>1. PICK i : i = Behind(q, NewRequest(t))
      OBVIOUS
    <3>2. i \in 0..Len(q) /\ i > 0
      <4> DEFINE A == {j \in DOMAIN q :
                    \/ j = Len(q)
                    \/ /\ \/ IN_ORDER(request[q[j]], NewRequest(t))
                          \/ ~IN_ORDER(request[q[j]], request[q[j + 1]])
                       /\ IN_ORDER(NewRequest(t), request[q[j + 1]])}
      <4>1. i = Min(A)
        BY <3>1 DEF Behind
      <4>2. DOMAIN q = 1..Len(q) /\ Len(q) \in DOMAIN q
        BY <1>9, <2>2, SMT
      <4>3. Len(q) \in A
        BY <4>2
      <4>4. A \subseteq 1..Len(q)
        BY <4>2
      <4> HIDE DEF A
      <4>5. A \in SUBSET Nat /\ A # {}
        BY <4>3, <4>4, SMT
      <4>6. i \in A
        BY <4>1, <4>5, MinIn
      <4> QED  BY <4>4, <4>6, <1>9, SMT
    <3>3. p = InsertBehind(q, i, s)
      BY <2>2, <3>1, <1>10
    <3> QED  BY <1>9, <3>2, <3>3, ListInsert
  <2> QED  BY <2>1, <2>2
<1>12. current_request' \in [Drivers -> Seq(Slots)] /\ current_request'[RAMDISK] = << >>
  <2>1. current_request' = [current_request EXCEPT ![HARD] = p]
    BY <1>7, <1>10
  <2>2. RAMDISK # HARD
    BY SMT DEF RAMDISK, HARD
  <2>3. current_request \in [Drivers -> Seq(Slots)] /\ current_request[RAMDISK] = << >>
    BY <1>0 DEF Requests
  <2>4. RAMDISK \in Drivers /\ HARD \in Drivers
    BY DEF Drivers
  <2>5. PICK X : X = Seq(Slots)
    OBVIOUS
  <2>6. p \in X /\ current_request \in [Drivers -> X]
    BY <1>11, <2>3, <2>5
  <2>7. current_request' \in [Drivers -> X]
    BY <2>1, <2>6
  <2>8. current_request'[RAMDISK] = current_request[RAMDISK]
    BY <2>1, <2>2, <2>4, <2>6
  <2> QED  BY <2>3, <2>5, <2>7, <2>8
<1>13. ASSUME NEW r \in Slots PROVE IF On(p, r) THEN Pending(r)' ELSE request'[r] = Idle
  <2>1. CASE r = s
    <3>1. /\ request'[s].nr_sectors \in {1, 2}
          /\ request'[s].sector = 2 * b_key[b][2] + (2 - request'[s].nr_sectors)
      BY <1>2, <1>3, <1>5, SMTT(30)
    <3>2. Pending(s)'
      BY <1>1, <1>3, <1>5, <3>1 DEF Pending
    <3> QED  BY <2>1, <3>2, <1>11
  <2>2. CASE r # s
    <3>1. request'[r] = request[r] /\ (On(p, r) <=> On(q, r))
      BY <2>2, <1>5, <1>11
    <3>2. Pending(r)' <=> Pending(r)
      BY <3>1 DEF Pending
    <3> QED  BY <3>1, <3>2, <1>0, <1>7 DEF Requests
  <2> QED  BY <2>1, <2>2
<1>14. do_hd' # "NULL"
  BY <1>0 DEF Requests
<1>15. ASSUME do_hd' \in {"read_intr", "write_intr", "recal_intr"}
       PROVE  do_hd' = do_hd /\ CURRENT' = CURRENT
  <2>1. q # << >> /\ do_hd' = do_hd
    BY <1>7, <1>15
  <2>2. Head(q) \in Slots /\ Head(q) # s
    BY <1>9, <2>1, ListTail
  <2> QED  BY <1>5, <1>7, <1>8, <1>11, <2>1, <2>2 DEF CURRENT
<1>16. Requests'
  BY <1>0, <1>8, <1>11, <1>12, <1>13, <1>14, <1>15 DEF Requests
<1> QED  BY <1>0, <1>5, <1>6, <1>15, <1>16

(* The request that make_request finds is free. *)
LEMMA FreeRequest ==
  ASSUME Counting, NEW rw, Empty(rw) # {}
  PROVE  Max(Empty(rw)) \in Slots /\ request[Max(Empty(rw))].dev = NULL
<1> DEFINE E == Empty(rw)
<1>1. E \in SUBSET (0..NR_REQUEST)
  <2>1. E \subseteq 1..NR_REQUEST
    BY DEF Empty, Slots
  <2> HIDE DEF E
  <2> QED  BY <2>1, SMT
<1> HIDE DEF E
<1>2. Max(E) \in E
  BY <1>1, MaxIn DEF E
<1> QED  BY <1>2 DEF E, Empty

(* The lock goes with the request. *)
LEMMA LockPassedOn ==
  ASSUME Locks, NEW t \in Tasks, OthersKept(t), NEW b \in Buffers, Asks(t, b),
         NEW s \in Slots, request[s].bh = NULL, request'[s].bh = b,
         \A r \in Slots \ {s} : request'[r] = request[r],
         pc'[t] # "request", b_lock' = b_lock
  PROVE  Locks'
<1> SUFFICES ASSUME NEW c \in Buffers PROVE LocksOf(c)'
  BY DEF Locks
<1>1. LocksOf(c) /\ LocksOf(b)
  BY DEF Locks
<1>2. \A u \in Tasks \ {t} : Asks(u, c)' <=> Asks(u, c)
  BY DEF Asks, OthersKept
<1>3. ~Asks(t, c)' /\ (c # b => ~Asks(t, c))
  BY DEF Asks
<1>4. \A r \in Slots \ {s} : Serves(r, c)' <=> Serves(r, c)
  BY DEF Serves
<1>5. (Serves(s, c)' <=> c = b) /\ ~Serves(s, c)
  BY Constants DEF Serves
<1>6. CASE c # b
  <2>1. \A u \in Tasks : Asks(u, c)' <=> Asks(u, c)
    BY <1>2, <1>3, <1>6
  <2>2. \A r \in Slots : Serves(r, c)' <=> Serves(r, c)
    BY <1>4, <1>5, <1>6
  <2> QED  BY <1>1, <2>1, <2>2, SameLocksOf
<1>7. CASE c = b
  <2>1. /\ b_lock[c] /\ (\A u \in Tasks \ {t} : ~Asks(u, c)) /\ (\A r \in Slots : ~Serves(r, c))
    BY <1>1, <1>7 DEF LocksOf
  <2>2. (\A u \in Tasks : ~Asks(u, c)') /\ (\A r \in Slots : Serves(r, c)' <=> r = s)
    BY <1>2, <1>3, <1>4, <1>5, <1>7, <2>1
  <2> QED  BY <2>1, <2>2 DEF LocksOf
<1> QED  BY <1>6, <1>7

(* add_request. *)
LEMMA AddRequestStep ==
  ASSUME Counting, Inv, NEW t \in Tasks, add_request(t)
  PROVE  Inv'
<1>0. /\ HeadsOK /\ DriveOK /\ Locks /\ IoOf(t)
      /\ pc[t] = "request" /\ cpu \in {t, Nobody} /\ IoDone(t) /\ Empty(io[t].rw) # {}
      /\ UNCHANGED <<b_key, b_count, lists, reset, recalibrate, hd_data, faults, frame, bh>>
  BY Parts DEF At, add_request
<1>1. PICK b \in Buffers : b = io[t].bh
  BY <1>0 DEF IoOf
<1>2. b_dirt' = [b_dirt EXCEPT ![b] = FALSE]
  BY <1>1 DEF add_request
<1>3. CASE b_key[b][1] = RAMDISK /\ do_rd_request(t, b)
  BY <1>0, <1>1, <1>2, <1>3, RamdiskStep
<1>4. CASE ~(b_key[b][1] = RAMDISK /\ do_rd_request(t, b))
  <2>1. PICK s : s = Max(Empty(io[t].rw))
    OBVIOUS
  <2>2. /\ b_key[b][1] = HARD
        /\ request' = [request EXCEPT ![s] = NewRequest(t)]
        /\ current_request' = [current_request EXCEPT ![HARD] =
             IF Queue = << >> THEN <<s>>
                              ELSE InsertBehind(Queue, Behind(Queue, NewRequest(t)), s)]
        /\ do_hd' = (IF Queue = << >> THEN "do_hd_request" ELSE do_hd)
        /\ UNCHANGED <<b_uptodate, b_lock, b_data, disk, failed>>
    BY <1>1, <1>4, <2>1 DEF Queue, add_request
  <2>3. s \in Slots /\ request[s].dev = NULL
    BY <1>0, <2>1, FreeRequest
  <2>4. request[s] = Idle /\ Requests' /\ request' \in [Slots -> ARequest]
    BY <1>0, <1>1, <2>2, <2>3, QueuedRequests
  <2>5. /\ OthersKept(t) /\ TasksOK' /\ ControlOf(t)' /\ Recounts(t) /\ Uses(t)' = Uses(t)
        /\ pc'[t] \notin {"request", "buffer_wait"}
    BY <1>0, Returned
  <2>6. Locks'
    <3>1. Asks(t, b) /\ pc'[t] # "request"
      BY <1>0, <1>1, <2>5 DEF Asks
    <3>2. request[s].bh = NULL
      BY <2>4, SMTT(30) DEF Idle
    <3>3. request'[s] = NewRequest(t) /\ \A r \in Slots \ {s} : request'[r] = request[r]
      BY <1>0, <2>2, <2>3 DEF DriveOK
    <3>4. request'[s].bh = b
      BY <1>1, <3>3, SMTT(30) DEF NewRequest
    <3> QED  BY <1>0, <2>2, <2>3, <2>5, <3>1, <3>2, <3>3, <3>4, LockPassedOn
  <2>7. TypeOK'
    <3>1. HeadsOK'
      <4>1. b_dirt' \in [Buffers -> BOOLEAN]
        BY <1>0, <1>2 DEF HeadsOK
      <4> QED  BY <1>0, <2>2, <4>1 DEF HeadsOK
    <3>2. DriveOK'
      BY <1>0, <2>2, <2>4 DEF DriveOK, HdPlaces
    <3> QED  BY <2>5, <3>1, <3>2, TypePartsNext
  <2>8. pc'[t] # "buffer_wait"
    BY <2>5
  <2> QED  BY <1>0, <2>4, <2>5, <2>6, <2>7, <2>8, TaskStep
<1> QED  BY <1>3, <1>4

-----------------------------------------------------------------------------
(* Every step of the driver keeps the invariant. *)

(* The request that the driver serves, and the sector it has got to. *)
LEMMA Current ==
  ASSUME Inv, Queue # << >>
  PROVE  /\ Queue \in Seq(Slots) /\ Head(Queue) \in Slots /\ On(Queue, Head(Queue))
         /\ CURRENT \in ARequest /\ CURRENT.bh \in Buffers /\ CURRENT.dev = HARD
         /\ b_key[CURRENT.bh] \in Keys
         /\ CURRENT.nr_sectors \in {1, 2}
         /\ CURRENT.sector = 2 * b_key[CURRENT.bh][2] + (2 - CURRENT.nr_sectors)
         /\ Block = b_key[CURRENT.bh] /\ Half = 3 - CURRENT.nr_sectors
<1>0. DriveOK /\ Requests
  BY TypeParts DEF Inv
<1>1. Queue \in Seq(Slots)
  BY <1>0 DEF Requests, Queue, Drivers
<1>2. Head(Queue) \in Slots /\ On(Queue, Head(Queue))
  <2>1. PICK q \in Seq(Slots) : q = Queue
    BY <1>1
  <2> QED  BY <1>0, <2>1, ListTail DEF Requests
<1>3. CURRENT \in ARequest /\ Pending(Head(Queue))
  BY <1>0, <1>2 DEF CURRENT, DriveOK, Requests
<1>4. PICK k : k = b_key[CURRENT.bh]
  OBVIOUS
<1>5. PICK n : n = CURRENT.nr_sectors
  OBVIOUS
<1>6. /\ CURRENT.bh \in Buffers /\ CURRENT.dev = HARD /\ k \in Keys /\ k[1] = HARD
      /\ n \in {1, 2} /\ CURRENT.sector = 2 * k[2] + (2 - n)
  BY <1>3, <1>4, <1>5 DEF Pending, CURRENT
<1>7. k[2] \in Nat /\ k = <<HARD, k[2]>>
  BY <1>6, Constants
<1>8. Block = <<HARD, k[2]>> /\ Half = 3 - n
  <2>1. PICK m \in Nat : m = k[2]
    BY <1>7
  <2>2. PICK c : c = CURRENT.sector
    OBVIOUS
  <2>3. c = 2 * m + (2 - n)
    BY <1>6, <2>1, <2>2
  <2>4. c \div 2 = m /\ (c % 2) + 1 = 3 - n
    BY <1>6, <2>3, SMTT(30)
  <2> QED  BY <2>1, <2>2, <2>4 DEF Block, Half
<1> QED  BY <1>1, <1>2, <1>3, <1>4, <1>5, <1>6, <1>7, <1>8

(* Within the disk: one that do_hd_request does not refuse. *)
LEMMA InRange ==
  ASSUME Inv, Queue # << >>, ~OutOfRange
  PROVE  b_key[CURRENT.bh] \in Stored
<1>1. PICK k, n, c : k = b_key[CURRENT.bh] /\ n = CURRENT.nr_sectors /\ c = CURRENT.sector
  OBVIOUS
<1>2. k \in Keys /\ n \in {1, 2} /\ c = 2 * k[2] + (2 - n) /\ Block = k
  BY <1>1, Current
<1>3. k[2] \in Nat /\ k[1] = HARD
  <2>1. k = <<HARD, CURRENT.sector \div 2>>
    BY <1>2 DEF Block
  <2> QED  BY <1>2, <2>1, Constants
<1>4. ~(c + 2 > 2 * HdBlocks)
  BY <1>1 DEF OutOfRange
<1>5. k[2] < HdBlocks /\ HARD # RAMDISK
  BY <1>2, <1>3, <1>4, SMTT(30) DEF HARD, RAMDISK
<1> QED  BY <1>1, <1>2, <1>3, <1>5 DEF Stored

(* The driver changes no task, and locks no buffer. *)
LEMMA DriverStep ==
  ASSUME Inv, UNCHANGED <<b_key, b_count, lists, cpu, pc, frame, bh, io>>,
         HeadsOK', DriveOK', Locks', Requests', \A b \in Buffers : b_lock'[b] => b_lock[b]
  PROVE  Inv'
<1>0. /\ TasksOK /\ Control /\ Names /\ CountsUsers /\ NoStrandedSleeper
      /\ b_key' = b_key /\ b_count' = b_count /\ cpu' = cpu /\ pc' = pc /\ bh' = bh /\ io' = io
      /\ op' = op /\ want' = want /\ ahead' = ahead /\ first' = first /\ scan' = scan
  BY TypeParts DEF Inv, frame
<1>1. TypeOK'
  <2>1. TasksOK'
    BY <1>0 DEF TasksOK
  <2> QED  BY <2>1, TypePartsNext
<1>2. ASSUME NEW t \in Tasks PROVE ControlOf(t)'
  <2>1. ControlOf(t) /\ Site(t)' = Site(t)
    BY <1>0 DEF Control, Site
  <2>2. BuffersOf(t)' /\ IoOf(t)' /\ KeysOf(t)'
    BY <1>0, <2>1 DEF ControlOf, BuffersOf, IoOf, KeysOf
  <2>3. CallOf(t)'
    BY <1>0, <2>1 DEF ControlOf, CallOf, InCall
  <2>4. AwakeOf(t)'
    BY <1>0, <2>1 DEF ControlOf, AwakeOf, IoOf
  <2> QED  BY <2>2, <2>3, <2>4 DEF ControlOf
<1>3. \A t \in Tasks : Holds(t)' = Holds(t) /\ Uses(t)' = Uses(t)
  <2>1. \A t \in Tasks : Holds(t)' = Holds(t)
    BY <1>0 DEF Holds, Site
  <2> QED  BY <1>0, <2>1 DEF Uses
<1>4. CountsUsers' /\ NoStrandedSleeper'
  <2>1. \A b \in Buffers : {t \in Tasks : Holds(t)' = b} = {t \in Tasks : Holds(t) = b}
    BY <1>3
  <2>2. CountsUsers'
    BY <1>0, <2>1 DEF CountsUsers
  <2>3. NoStrandedSleeper'
    BY <1>0, <1>3 DEF NoStrandedSleeper
  <2> QED  BY <2>2, <2>3
<1>5. Names' /\ Control'
  BY <1>0, <1>2, SameNames DEF Control
<1> QED  BY <1>1, <1>4, <1>5 DEF Inv

(* The driver goes on with its request, or starts over: what it changes in *)
(* the slot leaves the request one of the same block.                      *)
LEMMA RequestKept ==
  ASSUME Inv, Queue # << >>, NEW h \in Slots, h = Head(Queue), NEW r \in ARequest,
         r.bh = CURRENT.bh, r.dev = CURRENT.dev, r.cmd = CURRENT.cmd, r.nr_sectors \in {1, 2},
         r.sector = 2 * b_key[CURRENT.bh][2] + (2 - r.nr_sectors),
         request' = [request EXCEPT ![h] = r],
         UNCHANGED <<current_request, b_key, pc, io, b_lock>>, do_hd' \in {do_hd, "do_hd_request"}
  PROVE  Requests' /\ Locks' /\ request' \in [Slots -> ARequest]
<1>0. DriveOK /\ Requests /\ Locks
  BY TypeParts DEF Inv
<1>1. /\ request' \in [Slots -> ARequest] /\ request'[h] = r
      /\ \A s \in Slots \ {h} : request'[s] = request[s]
  BY <1>0 DEF DriveOK
<1>2. Queue' = Queue /\ CURRENT' = r
  BY <1>1 DEF Queue, CURRENT
<1>3. Pending(h)' /\ On(Queue, h)
  <2>1. CURRENT.bh \in Buffers /\ b_key[CURRENT.bh] \in Keys /\ CURRENT.dev = HARD
    BY Current
  <2>2. Block = b_key[CURRENT.bh] /\ On(Queue, h)
    BY Current
  <2>3. b_key[CURRENT.bh][1] = HARD
    BY <2>2, SMT DEF Block
  <2> QED  BY <1>1, <2>1, <2>2, <2>3 DEF Pending
<1>4. \A s \in Slots : IF On(Queue, s) THEN Pending(s)' ELSE request'[s] = Idle
  <2>1. \A s \in Slots \ {h} : Pending(s)' <=> Pending(s)
    BY <1>1 DEF Pending
  <2> QED  BY <1>0, <1>1, <1>3, <2>1 DEF Requests
<1>5. do_hd \in {"read_intr", "write_intr", "recal_intr"} =>
         b_key[r.bh] \in Stored /\ (do_hd = "read_intr" => r.cmd = READ)
                                /\ (do_hd = "write_intr" => r.cmd = WRITE)
  BY <1>0 DEF Requests
<1>6. Requests'
  <2>1. /\ current_request' \in [Drivers -> Seq(Slots)] /\ current_request'[RAMDISK] = << >>
        /\ Once(Queue')
        /\ \A s \in Slots : IF On(Queue', s) THEN Pending(s)' ELSE request'[s] = Idle
    BY <1>0, <1>2, <1>4 DEF Requests
  <2>2. Queue' # << >> /\ do_hd' # "NULL"
    BY <1>0, <1>2 DEF Requests
  <2> QED  BY <1>2, <1>5, <2>1, <2>2 DEF Requests
<1>7. Locks'
  <2>1. \A s \in Slots : request'[s].bh = request[s].bh
    BY <1>1 DEF CURRENT
  <2>2. ASSUME NEW b \in Buffers PROVE LocksOf(b)'
    <3>1. \A t \in Tasks : Asks(t, b)' <=> Asks(t, b)
      BY DEF Asks
    <3>2. \A s \in Slots : Serves(s, b)' <=> Serves(s, b)
      BY <2>1 DEF Serves
    <3> QED  BY <1>0, <3>1, <3>2, SameLocksOf DEF Locks
  <2> QED  BY <2>2 DEF Locks
<1> QED  BY <1>1, <1>6, <1>7

(* end_request unlocks the buffer of its request and frees the request,    *)
(* whether the operation went well or not.                                 *)
LEMMA RequestEnded ==
  ASSUME Inv, Queue # << >>, NEW ok \in BOOLEAN, end_request(ok),
         UNCHANGED <<b_key, pc, io>>, do_hd' = "do_hd_request"
  PROVE  /\ Requests' /\ Locks' /\ request' \in [Slots -> ARequest] /\ failed' \subseteq Keys
         /\ b_uptodate' \in [Buffers -> BOOLEAN] /\ b_lock' \in [Buffers -> BOOLEAN]
         /\ \A b \in Buffers : b_lock'[b] => b_lock[b]
<1>0. HeadsOK /\ DriveOK /\ Requests /\ Locks
  BY TypeParts DEF Inv
<1>1. PICK h \in Slots : h = Head(Queue)
  BY Current
<1>2. PICK b \in Buffers : b = CURRENT.bh
  BY Current
<1>3. /\ request' \in [Slots -> ARequest] /\ request'[h] = Idle
      /\ \A s \in Slots \ {h} : request'[s] = request[s]
  <2>1. Idle \in ARequest
    BY SMTT(30) DEF Idle, ARequest, READ, WRITE
  <2>2. request' = [request EXCEPT ![h] = Idle] /\ request \in [Slots -> ARequest]
    BY <1>0, <1>1 DEF DriveOK, end_request
  <2> QED  BY <2>1, <2>2
<1>4. /\ b_lock' \in [Buffers -> BOOLEAN] /\ ~b_lock'[b]
      /\ \A c \in Buffers \ {b} : b_lock'[c] = b_lock[c]
  <2>1. b_lock' = [b_lock EXCEPT ![b] = FALSE] /\ b_lock \in [Buffers -> BOOLEAN]
    BY <1>0, <1>2 DEF HeadsOK, end_request
  <2> QED  BY <2>1
<1>5. b_uptodate' \in [Buffers -> BOOLEAN]
  <2>1. b_uptodate' = [b_uptodate EXCEPT ![b] = ok] /\ b_uptodate \in [Buffers -> BOOLEAN]
    BY <1>0, <1>2 DEF HeadsOK, end_request
  <2> QED  BY <2>1
<1>6. failed' \subseteq Keys
  <2>1. failed' = failed \/ failed' = failed \cup {b_key[CURRENT.bh]}
    BY DEF end_request
  <2>2. failed \subseteq Keys /\ b_key[CURRENT.bh] \in Keys
    BY <1>0, Current DEF DriveOK
  <2> QED  BY <2>1, <2>2
<1>7. PICK q, p : q = Queue /\ p = Tail(q)
  OBVIOUS
<1>8. q \in Seq(Slots) /\ Once(q) /\ q # << >>
  BY <1>0, <1>7, Current DEF Requests
<1>9. p \in Seq(Slots) /\ Once(p) /\ \A c : On(p, c) <=> On(q, c) /\ c # h
  BY <1>1, <1>7, <1>8, ListTail
<1>10. /\ current_request' \in [Drivers -> Seq(Slots)] /\ current_request'[RAMDISK] = << >>
       /\ Queue' = p
  <2>1. current_request' = [current_request EXCEPT ![HARD] = p]
    BY <1>7 DEF Queue, end_request
  <2>2. RAMDISK # HARD
    BY SMT DEF RAMDISK, HARD
  <2>3. current_request \in [Drivers -> Seq(Slots)] /\ current_request[RAMDISK] = << >>
    BY <1>0 DEF Requests
  <2>4. RAMDISK \in Drivers /\ HARD \in Drivers
    BY DEF Drivers
  <2>5. PICK X : X = Seq(Slots)
    OBVIOUS
  <2>6. p \in X /\ current_request \in [Drivers -> X]
    BY <1>9, <2>3, <2>5
  <2>7. current_request' \in [Drivers -> X]
    BY <2>1, <2>6
  <2>8. current_request'[RAMDISK] = current_request[RAMDISK] /\ current_request'[HARD] = p
    BY <2>1, <2>2, <2>4, <2>6
  <2> QED  BY <2>3, <2>5, <2>7, <2>8 DEF Queue
<1>11. ASSUME NEW s \in Slots PROVE IF On(p, s) THEN Pending(s)' ELSE request'[s] = Idle
  <2>1. CASE s = h
    BY <2>1, <1>3, <1>9
  <2>2. CASE s # h
    <3>1. request'[s] = request[s] /\ (On(p, s) <=> On(q, s))
      BY <2>2, <1>3, <1>9
    <3>2. Pending(s)' <=> Pending(s)
      BY <3>1 DEF Pending
    <3> QED  BY <3>1, <3>2, <1>0, <1>7 DEF Requests
  <2> QED  BY <2>1, <2>2
<1>12. Requests'
  BY <1>9, <1>10, <1>11 DEF Requests
<1>13. ASSUME NEW c \in Buffers PROVE LocksOf(c)'
  <2>1. \A u \in Tasks : Asks(u, c)' <=> Asks(u, c)
    BY DEF Asks
  <2>2. \A s \in Slots \ {h} : Serves(s, c)' <=> Serves(s, c)
    BY <1>3 DEF Serves
  <2>3. ~Serves(h, c)'
    <3>1. Idle.bh = NULL
      BY DEF Idle
    <3> QED  BY <1>3, <3>1, Constants DEF Serves
  <2>4. Serves(h, c) <=> c = b
    BY <1>1, <1>2 DEF Serves, CURRENT
  <2>5. LocksOf(c)
    BY <1>0 DEF Locks
  <2>6. CASE c # b
    <3>1. \A s \in Slots : Serves(s, c)' <=> Serves(s, c)
      BY <2>2, <2>3, <2>4, <2>6
    <3>2. b_lock'[c] = b_lock[c]
      BY <1>4, <2>6
    <3> QED  BY <2>1, <2>5, <3>1, <3>2, SameLocksOf
  <2>7. CASE c = b
    <3>1. (\A u \in Tasks : ~Asks(u, c)) /\ (\A s \in Slots \ {h} : ~Serves(s, c))
      BY <2>4, <2>5, <2>7 DEF LocksOf
    <3>2. (\A u \in Tasks : ~Asks(u, c)') /\ (\A s \in Slots : ~Serves(s, c)')
      BY <2>1, <2>2, <2>3, <3>1
    <3> QED  BY <1>4, <2>7, <3>2 DEF LocksOf
  <2> QED  BY <2>6, <2>7
<1>14. Locks' /\ \A c \in Buffers : b_lock'[c] => b_lock[c]
  BY <1>4, <1>13 DEF Locks
<1> QED  BY <1>3, <1>4, <1>5, <1>6, <1>12, <1>14

(* bad_rw_intr gives the request up, or counts one error more of it. *)
LEMMA BadIntr ==
  ASSUME Inv, Queue # << >>, bad_rw_intr, UNCHANGED <<b_key, pc, io>>, do_hd' = "do_hd_request"
  PROVE  /\ Requests' /\ Locks' /\ request' \in [Slots -> ARequest] /\ failed' \subseteq Keys
         /\ b_uptodate' \in [Buffers -> BOOLEAN] /\ b_lock' \in [Buffers -> BOOLEAN]
         /\ \A b \in Buffers : b_lock'[b] => b_lock[b]
         /\ faults' \in 0..MaxFaults /\ reset' \in BOOLEAN
<1> USE DEF bad_rw_intr
<1>0. HeadsOK /\ DriveOK
  BY TypeParts DEF Inv
<1>1. faults' \in 0..MaxFaults
  <2>1. faults < MaxFaults /\ faults' = faults + 1 /\ faults \in 0..MaxFaults
    BY <1>0 DEF DriveOK
  <2> QED  BY <2>1, SMT
<1>2. CASE TooMany(CURRENT.errors + 1)
  <2>1. end_request(FALSE) /\ reset' \in {reset, TRUE}
    BY <1>2
  <2>2. reset' \in BOOLEAN
    BY <1>0, <2>1 DEF DriveOK
  <2> QED  BY <1>1, <2>1, <2>2, RequestEnded
<1>3. CASE ~TooMany(CURRENT.errors + 1)
  <2>1. /\ request' = [request EXCEPT ![Head(Queue)].errors = @ + 1]
        /\ reset' = (reset \/ CURRENT.errors + 1 > MAX_ERRORS \div 2)
        /\ UNCHANGED <<b_uptodate, b_lock, current_request, failed>>
    BY <1>3
  <2>2. PICK h \in Slots : h = Head(Queue)
    BY Current
  <2>3. PICK r : r = [CURRENT EXCEPT !.errors = @ + 1]
    OBVIOUS
  <2>4. CURRENT \in ARequest
    BY Current
  <2>5. ~(CURRENT.errors + 1 >= MAX_ERRORS)
    BY <1>3 DEF TooMany
  <2>6. /\ r \in ARequest /\ r.bh = CURRENT.bh /\ r.dev = CURRENT.dev /\ r.cmd = CURRENT.cmd
        /\ r.nr_sectors = CURRENT.nr_sectors /\ r.sector = CURRENT.sector
    BY <2>3, <2>4, <2>5, SMTT(30) DEF ARequest
  <2>7. request' = [request EXCEPT ![h] = r]
    <3>1. request \in [Slots -> ARequest]
      BY <1>0 DEF DriveOK
    <3> QED  BY <2>1, <2>2, <2>3, <3>1 DEF CURRENT
  <2>8. r.nr_sectors \in {1, 2} /\ r.sector = 2 * b_key[CURRENT.bh][2] + (2 - r.nr_sectors)
    BY <2>6, Current
  <2>9. Requests' /\ Locks' /\ request' \in [Slots -> ARequest]
    BY <2>1, <2>2, <2>6, <2>7, <2>8, RequestKept
  <2>10. reset' \in BOOLEAN
    BY <2>1
  <2> QED  BY <1>0, <1>1, <2>1, <2>9, <2>10 DEF HeadsOK, DriveOK
<1> QED  BY <1>2, <1>3

(* A sector of a block. *)
LEMMA Sector ==
  ASSUME NEW V, NEW p \in V \X V, NEW i \in {1, 2}, NEW v \in V
  PROVE  p[i] \in V /\ [p EXCEPT ![i] = v] \in V \X V
BY SMT

(* do_hd_request finds the queue empty, or starts an operation. *)
LEMMA StartedStep ==
  ASSUME Inv, hd_stop \/ hd_prepare \/ hd_command \/ recal_intr
  PROVE  Inv'
<1>0. HeadsOK /\ DriveOK /\ Locks /\ Requests
  BY TypeParts DEF Inv
<1>1. /\ UNCHANGED <<b_key, b_count, lists, cpu, pc, frame, bh, io>>
      /\ b_uptodate' = b_uptodate /\ b_dirt' = b_dirt /\ b_lock' = b_lock /\ b_data' = b_data
      /\ request' = request /\ current_request' = current_request /\ disk' = disk
      /\ faults' = faults /\ failed' = failed
  BY DEF hd_stop, hd_prepare, hd_command, recal_intr, heads, queue, Driver
<1>2. HeadsOK'
  BY <1>0, <1>1 DEF HeadsOK
<1>3. Locks'
  <2>1. \A b \in Buffers, t \in Tasks : Asks(t, b)' <=> Asks(t, b)
    BY <1>1 DEF Asks
  <2>2. \A b \in Buffers, s \in Slots : Serves(s, b)' <=> Serves(s, b)
    BY <1>1 DEF Serves
  <2>3. ASSUME NEW b \in Buffers PROVE LocksOf(b)'
    BY <1>0, <1>1, <2>1, <2>2, SameLocksOf DEF Locks
  <2> QED  BY <2>3 DEF Locks
<1>4. Queue' = Queue /\ CURRENT' = CURRENT /\ \A s \in Slots : Pending(s)' <=> Pending(s)
  BY <1>1 DEF Queue, CURRENT, Pending
<1>5. /\ current_request' \in [Drivers -> Seq(Slots)] /\ current_request'[RAMDISK] = << >>
      /\ Once(Queue') /\ \A s \in Slots : IF On(Queue', s) THEN Pending(s)' ELSE request'[s] = Idle
  BY <1>0, <1>1, <1>4 DEF Requests
<1>6. CASE hd_stop
  <2>1. /\ Queue = << >> /\ do_hd' = "NULL" /\ reset' = reset /\ recalibrate' = recalibrate
        /\ hd_data' = hd_data
    BY <1>6 DEF hd_stop
  <2>2. DriveOK'
    BY <1>0, <1>1, <2>1 DEF DriveOK, HdPlaces
  <2>3. Requests'
    BY <1>4, <1>5, <2>1 DEF Requests
  <2> QED  BY <1>1, <1>2, <1>3, <2>2, <2>3, DriverStep
<1>7. CASE hd_prepare
  <2>1. /\ Queue # << >> /\ do_hd' = "recal_intr" /\ reset' = FALSE /\ recalibrate' = reset
        /\ hd_data' = hd_data /\ ~OutOfRange
    BY <1>7 DEF hd_prepare
  <2>2. DriveOK'
    BY <1>0, <1>1, <2>1 DEF DriveOK, HdPlaces
  <2>3. b_key[CURRENT.bh] \in Stored
    BY <2>1, InRange
  <2>4. Requests'
    BY <1>1, <1>4, <1>5, <2>1, <2>3 DEF Requests
  <2> QED  BY <1>1, <1>2, <1>3, <2>2, <2>4, DriverStep
<1>8. CASE hd_command
  <2>1. /\ Queue # << >> /\ ~OutOfRange /\ reset' = reset /\ recalibrate' = recalibrate
        /\ \/ CURRENT.cmd = READ /\ do_hd' = "read_intr" /\ hd_data' = hd_data
           \/ CURRENT.cmd = WRITE /\ do_hd' = "write_intr" /\ hd_data' = b_data[CURRENT.bh][Half]
    BY <1>8 DEF hd_command
  <2>2. hd_data' \in Values
    <3>1. PICK b \in Buffers, i \in {1, 2} : b = CURRENT.bh /\ i = Half
      <4>1. CURRENT.bh \in Buffers /\ CURRENT.nr_sectors \in {1, 2} /\ Half = 3 - CURRENT.nr_sectors
        BY <2>1, Current
      <4>2. Half \in {1, 2}
        BY <4>1, SMTT(30)
      <4> QED  BY <4>1, <4>2
    <3>2. b_data[b] \in Values \X Values /\ hd_data \in Values
      BY <1>0 DEF HeadsOK, DriveOK
    <3>3. b_data[b][i] \in Values
      BY <3>2, Sector
    <3> QED  BY <2>1, <3>1, <3>2, <3>3
  <2>3. DriveOK'
    BY <1>0, <1>1, <2>1, <2>2 DEF DriveOK, HdPlaces
  <2>4. b_key[CURRENT.bh] \in Stored
    BY <2>1, InRange
  <2>5. Requests'
    BY <1>1, <1>4, <1>5, <2>1, <2>4 DEF Requests
  <2> QED  BY <1>1, <1>2, <1>3, <2>3, <2>5, DriverStep
<1>9. CASE recal_intr
  <2>1. /\ do_hd' = "do_hd_request" /\ reset' = reset /\ recalibrate' = recalibrate
        /\ hd_data' = hd_data
    BY <1>9 DEF recal_intr
  <2>2. DriveOK'
    BY <1>0, <1>1, <2>1 DEF DriveOK, HdPlaces
  <2>3. Requests'
    BY <1>4, <1>5, <2>1 DEF Requests
  <2> QED  BY <1>1, <1>2, <1>3, <2>2, <2>3, DriverStep
<1> QED  BY <1>6, <1>7, <1>8, <1>9

(* An operation fails, or its block is not on the disk. *)
LEMMA FailedStep ==
  ASSUME Inv, hd_bad_sector \/ hd_no_drq \/ hd_error
  PROVE  Inv'
<1>0. HeadsOK /\ DriveOK /\ Requests
  BY TypeParts DEF Inv
<1>1. Queue # << >>
  BY <1>0 DEF hd_bad_sector, hd_no_drq, hd_error, Requests
<1>2. /\ UNCHANGED <<b_key, b_count, lists, cpu, pc, frame, bh, io>>
      /\ b_dirt' = b_dirt /\ b_data' = b_data /\ disk' = disk
      /\ recalibrate' = recalibrate /\ hd_data' = hd_data /\ do_hd' = "do_hd_request"
  BY DEF hd_bad_sector, hd_no_drq, hd_error, Driver
<1>3. /\ Requests' /\ Locks' /\ request' \in [Slots -> ARequest] /\ failed' \subseteq Keys
      /\ b_uptodate' \in [Buffers -> BOOLEAN] /\ b_lock' \in [Buffers -> BOOLEAN]
      /\ \A b \in Buffers : b_lock'[b] => b_lock[b]
      /\ faults' \in 0..MaxFaults /\ reset' \in BOOLEAN
  <2>1. CASE hd_bad_sector
    <3>1. end_request(FALSE) /\ reset' = reset /\ faults' = faults
      BY <2>1 DEF hd_bad_sector
    <3>2. reset \in BOOLEAN /\ faults \in 0..MaxFaults
      BY <1>0 DEF DriveOK
    <3> QED  BY <1>1, <1>2, <3>1, <3>2, RequestEnded
  <2>2. CASE hd_no_drq \/ hd_error
    <3>1. bad_rw_intr
      BY <2>2 DEF hd_no_drq, hd_error
    <3> QED  BY <1>1, <1>2, <3>1, BadIntr
  <2> QED  BY <2>1, <2>2
<1>4. HeadsOK'
  BY <1>0, <1>2, <1>3 DEF HeadsOK
<1>5. DriveOK'
  BY <1>0, <1>2, <1>3 DEF DriveOK, HdPlaces
<1> QED  BY <1>2, <1>3, <1>4, <1>5, DriverStep

(* A request of which one sector is done. *)
LEMMA OtherHalf ==
  ASSUME NEW c \in ARequest, NEW n \in Nat, c.nr_sectors = 2, c.sector = 2 * n,
         NEW e \in 0..MAX_ERRORS - 1, NEW r, r = NextSector(c, e)
  PROVE  /\ r \in ARequest /\ r.bh = c.bh /\ r.dev = c.dev /\ r.cmd = c.cmd
         /\ r.nr_sectors = 1 /\ r.sector = 2 * n + 1
<1>1. PICK x \in Nat, y \in 0..2 : x = c.sector + 1 /\ y = c.nr_sectors - 1
  BY SMT
<1>2. r = [c EXCEPT !.sector = x, !.nr_sectors = y, !.errors = e]
  BY <1>1 DEF NextSector
<1>3. r \in ARequest
  BY <1>2 DEF ARequest
<1>4. /\ r.bh = c.bh /\ r.dev = c.dev /\ r.cmd = c.cmd
      /\ r.sector = c.sector + 1 /\ r.nr_sectors = c.nr_sectors - 1
  BY <1>1, <1>2 DEF ARequest
<1> QED  BY <1>3, <1>4, SMTT(30)

(* A sector of CURRENT has been transferred: the driver goes on with the   *)
(* other half of the block, or ends the request.                           *)
LEMMA Transferred ==
  ASSUME Inv, Queue # << >>, UNCHANGED <<b_key, pc, io>>,
         \/ /\ CURRENT.nr_sectors > 1
            /\ \E e \in 0..MAX_ERRORS - 1 :
                 request' = [request EXCEPT ![Head(Queue)] = NextSector(CURRENT, e)]
            /\ UNCHANGED <<do_hd, b_uptodate, b_lock, current_request, failed>>
         \/ /\ end_request(TRUE)
            /\ do_hd' = "do_hd_request"
  PROVE  /\ Requests' /\ Locks' /\ request' \in [Slots -> ARequest] /\ failed' \subseteq Keys
         /\ b_uptodate' \in [Buffers -> BOOLEAN] /\ b_lock' \in [Buffers -> BOOLEAN]
         /\ \A b \in Buffers : b_lock'[b] => b_lock[b]
<1>0. HeadsOK /\ DriveOK
  BY TypeParts DEF Inv
<1>1. CASE end_request(TRUE) /\ do_hd' = "do_hd_request"
  BY <1>1, RequestEnded
<1>2. CASE ~(end_request(TRUE) /\ do_hd' = "do_hd_request")
  <2>1. PICK h \in Slots : h = Head(Queue)
    BY Current
  <2>2. /\ CURRENT.nr_sectors > 1
        /\ UNCHANGED <<do_hd, b_uptodate, b_lock, current_request, failed>>
    BY <1>2
  <2>3. PICK c \in ARequest : c = CURRENT
    BY Current
  <2>4. PICK r : /\ \E e \in 0..MAX_ERRORS - 1 : r = NextSector(c, e)
                 /\ request' = [request EXCEPT ![h] = r]
    BY <1>2, <2>1, <2>3
  <2>5. PICK n : n = b_key[CURRENT.bh][2]
    OBVIOUS
  <2>6. n \in Nat /\ c.nr_sectors = 2 /\ c.sector = 2 * n
    <3>1. /\ n \in Nat /\ c.nr_sectors \in {1, 2} /\ c.sector = 2 * n + (2 - c.nr_sectors)
          /\ c.nr_sectors > 1
      BY <2>2, <2>3, <2>5, Current, Constants
    <3> QED  BY <3>1, SMTT(30)
  <2>7. /\ r \in ARequest /\ r.bh = c.bh /\ r.dev = c.dev /\ r.cmd = c.cmd
        /\ r.nr_sectors \in {1, 2} /\ r.sector = 2 * n + (2 - r.nr_sectors)
    <3>1. PICK e \in 0..MAX_ERRORS - 1 : r = NextSector(c, e)
      BY <2>4
    <3>2. /\ r \in ARequest /\ r.bh = c.bh /\ r.dev = c.dev /\ r.cmd = c.cmd
          /\ r.nr_sectors = 1 /\ r.sector = 2 * n + 1
      BY <2>6, <3>1, OtherHalf, SMT
    <3>3. 2 - 1 = 1
      BY SMT
    <3> QED  BY <3>2, <3>3
  <2>8. Requests' /\ Locks' /\ request' \in [Slots -> ARequest]
    <3>1. r.bh = CURRENT.bh /\ r.dev = CURRENT.dev /\ r.cmd = CURRENT.cmd
      BY <2>3, <2>7
    <3> QED  BY <2>1, <2>2, <2>4, <2>5, <2>7, <3>1, RequestKept
  <2> QED  BY <1>0, <2>2, <2>8 DEF HeadsOK, DriveOK
<1> QED  BY <1>1, <1>2

(* Where the interrupt of a transfer finds the driver. *)
LEMMA Transfer ==
  ASSUME Inv, do_hd \in {"read_intr", "write_intr"}
  PROVE  /\ Queue # << >> /\ CURRENT.bh \in Buffers /\ Block \in Stored /\ Half \in {1, 2}
         /\ CURRENT.nr_sectors > 1 => Half + 1 \in {1, 2}
<1>1. Queue # << >> /\ b_key[CURRENT.bh] \in Stored
  BY DEF Inv, Requests
<1>2. /\ CURRENT.bh \in Buffers /\ Block \in Stored
      /\ CURRENT.nr_sectors \in {1, 2} /\ Half = 3 - CURRENT.nr_sectors
  BY <1>1, Current
<1>3. PICK n, i : n = CURRENT.nr_sectors /\ i = Half
  OBVIOUS
<1>4. i \in {1, 2} /\ (n > 1 => i + 1 \in {1, 2})
  BY <1>2, <1>3, SMTT(30)
<1> QED  BY <1>1, <1>2, <1>3, <1>4

(* read_intr and write_intr. *)
LEMMA TransferStep ==
  ASSUME Inv, read_intr \/ write_intr
  PROVE  Inv'
<1>0. HeadsOK /\ DriveOK /\ Requests
  BY TypeParts DEF Inv
<1>1. PICK b, k, i : b = CURRENT.bh /\ k = Block /\ i = Half
  OBVIOUS
<1>2. /\ Queue # << >> /\ b \in Buffers /\ k \in Stored /\ i \in {1, 2}
      /\ CURRENT.nr_sectors > 1 => i + 1 \in {1, 2}
  BY <1>1, Transfer DEF read_intr, write_intr
<1>3. /\ b_data \in [Buffers -> Values \X Values] /\ disk \in [Stored -> Values \X Values]
      /\ hd_data \in Values
  BY <1>0 DEF HeadsOK, DriveOK
<1>4. /\ UNCHANGED <<b_key, b_count, lists, cpu, pc, frame, bh, io>>
      /\ b_dirt' = b_dirt /\ reset' = reset /\ recalibrate' = recalibrate /\ faults' = faults
      /\ do_hd' \in {do_hd, "do_hd_request"}
  BY DEF read_intr, write_intr, Driver
<1>5. PICK p \in Values \X Values, d \in Values \X Values : p = b_data[b] /\ d = disk[k]
  BY <1>2, <1>3
<1>6. /\ b_data' \in [Buffers -> Values \X Values] /\ disk' \in [Stored -> Values \X Values]
      /\ hd_data' \in Values
  <2>1. CASE read_intr
    <3>1. /\ b_data' = [b_data EXCEPT ![b] = [p EXCEPT ![i] = d[i]]]
          /\ disk' = disk /\ hd_data' = hd_data
      BY <2>1, <1>1, <1>5 DEF read_intr
    <3>2. d[i] \in Values
      BY <1>2, <1>3, Sector
    <3>3. [p EXCEPT ![i] = d[i]] \in Values \X Values
      <4>1. PICK v \in Values : v = d[i]
        BY <3>2
      <4> QED  BY <1>2, <4>1, Sector, SMT
    <3> QED  BY <1>2, <1>3, <3>1, <3>3
  <2>2. CASE write_intr
    <3>1. /\ disk' = [disk EXCEPT ![k] = [d EXCEPT ![i] = hd_data]] /\ b_data' = b_data
          /\ hd_data' = hd_data \/ (CURRENT.nr_sectors > 1 /\ hd_data' = p[i + 1])
      BY <2>2, <1>1, <1>5 DEF write_intr
    <3>2. [d EXCEPT ![i] = hd_data] \in Values \X Values
      BY <1>2, <1>3, Sector
    <3>3. CURRENT.nr_sectors > 1 => p[i + 1] \in Values
      <4>1. ASSUME NEW j \in {1, 2} PROVE p[j] \in Values
        BY <1>3, Sector
      <4> QED  BY <1>2, <4>1
    <3> QED  BY <1>2, <1>3, <3>1, <3>2, <3>3
  <2> QED  BY <2>1, <2>2
<1>7. /\ Requests' /\ Locks' /\ request' \in [Slots -> ARequest] /\ failed' \subseteq Keys
      /\ b_uptodate' \in [Buffers -> BOOLEAN] /\ b_lock' \in [Buffers -> BOOLEAN]
      /\ \A c \in Buffers : b_lock'[c] => b_lock[c]
  <2>1. \/ /\ CURRENT.nr_sectors > 1
           /\ \E e \in 0..MAX_ERRORS - 1 :
                request' = [request EXCEPT ![Head(Queue)] = NextSector(CURRENT, e)]
           /\ UNCHANGED <<do_hd, b_uptodate, b_lock, current_request, failed>>
        \/ /\ end_request(TRUE)
           /\ do_hd' = "do_hd_request"
    <3>1. 0 \in 0..MAX_ERRORS - 1
      BY SMT
    <3>2. CURRENT.errors \in 0..MAX_ERRORS - 1
      BY <1>2, Current DEF ARequest
    <3> QED  BY <3>1, <3>2 DEF read_intr, write_intr
  <2> QED  BY <1>2, <1>4, <2>1, Transferred
<1>8. HeadsOK'
  BY <1>0, <1>4, <1>6, <1>7 DEF HeadsOK
<1>9. DriveOK'
  BY <1>0, <1>4, <1>6, <1>7 DEF DriveOK, HdPlaces
<1> QED  BY <1>4, <1>7, <1>8, <1>9, DriverStep

-----------------------------------------------------------------------------
(* The contents of blocks: what readers get of them changes only when a    *)
(* task changes a buffer it holds.  First what the invariant adds, and the *)
(* steps of tasks that change neither the contents of a buffer nor the     *)
(* requests.                                                               *)

(* A buffer that is valid and need not be written agrees with the disk. *)
Settled(b) ==
  b_uptodate[b] /\ ~Written(b) /\ b_key[b] \in Stored => b_data[b] = disk[b_key[b]]

(* A task that waits for a free request writes a buffer that is dirty, or  *)
(* reads one that is not valid.                                            *)
AskedFor(t) ==
  pc[t] = "request" => IF io[t].rw = WRITE THEN b_dirt[io[t].bh] ELSE ~b_uptodate[io[t].bh]

(* A buffer that is being read is not valid.  Of a request with one sector *)
(* to go, the other one is done: unless a task has changed the buffer      *)
(* since, in which case it is dirty.                                       *)
HalfDone(r) ==
  r.bh \in Buffers =>
    /\ r.cmd = READ => ~b_uptodate[r.bh]
    /\ ~b_dirt[r.bh] /\ r.nr_sectors = 1 /\ b_key[r.bh] \in Stored =>
         b_data[r.bh][1] = disk[b_key[r.bh]][1]

(* What the controller was given to write is in the buffer, likewise. *)
Given == do_hd = "write_intr" /\ ~b_dirt[CURRENT.bh] => hd_data = b_data[CURRENT.bh][Half]

Contents ==
  /\ \A b \in Buffers : Settled(b)
  /\ \A t \in Tasks : AskedFor(t)
  /\ \A s \in Slots : HalfDone(request[s])
  /\ Given

CInv == Inv /\ Contents

(* Whether a reader of the block gets the buffer. *)
Cached(b) == b_uptodate[b] \/ Written(b)

(* A step leaves a buffer alone. *)
SameBuffer(b) ==
  /\ b_key'[b] = b_key[b] /\ b_uptodate'[b] = b_uptodate[b] /\ b_dirt'[b] = b_dirt[b]
  /\ b_data'[b] = b_data[b] /\ (Written(b)' <=> Written(b))

(* What readers get of a block that a buffer has, and of one that no       *)
(* buffer has: as a block has one buffer at most, the choice in Content is *)
(* none.                                                                   *)
LEMMA ContentOf ==
  ASSUME Inv, NEW k \in Stored, NEW b \in Buffers, b_key[b] = k
  PROVE  Content(k) = IF Cached(b) THEN b_data[b] ELSE disk[k]
<1> DEFINE S == {c \in Buffers : b_key[c] = k /\ (b_uptodate[c] \/ Written(c))}
<1>1. k # NoKey
  BY Constants DEF Stored
<1>2. \A c \in Buffers : b_key[c] = k => c = b
  BY <1>1 DEF Inv, Names
<1>3. Content(k) = IF S = {} THEN disk[k] ELSE b_data[CHOOSE c \in S : TRUE]
  BY DEF Content
<1> HIDE DEF S
<1>4. CASE Cached(b)
  <2>1. S = {b}
    BY <1>2, <1>4 DEF Cached, S
  <2>2. (CHOOSE c \in S : TRUE) = b /\ S # {}
    BY <2>1
  <2> QED  BY <1>3, <1>4, <2>2
<1>5. CASE ~Cached(b)
  <2>1. S = {}
    BY <1>2, <1>5 DEF Cached, S
  <2> QED  BY <1>3, <1>5, <2>1
<1> QED  BY <1>4, <1>5

(* The same for the next state. *)
LEMMA ContentOfNext ==
  ASSUME Inv', NEW k \in Stored, NEW b \in Buffers, b_key'[b] = k
  PROVE  Content(k)' = IF Cached(b)' THEN b_data'[b] ELSE disk'[k]
<1> DEFINE S == {c \in Buffers : b_key'[c] = k /\ (b_uptodate'[c] \/ Written(c)')}
<1>1. k # NoKey
  BY Constants DEF Stored
<1>2. \A c \in Buffers : b_key'[c] = k => c = b
  BY <1>1 DEF Inv, Names
<1>3. Content(k)' = IF S = {} THEN disk'[k] ELSE b_data'[CHOOSE c \in S : TRUE]
  BY DEF Content
<1> HIDE DEF S
<1>4. CASE Cached(b)'
  <2>1. S = {b}
    BY <1>2, <1>4 DEF Cached, S
  <2>2. (CHOOSE c \in S : TRUE) = b /\ S # {}
    BY <2>1
  <2> QED  BY <1>3, <1>4, <2>2
<1>5. CASE ~Cached(b)'
  <2>1. S = {}
    BY <1>2, <1>5 DEF Cached, S
  <2> QED  BY <1>3, <1>5, <2>1
<1> QED  BY <1>4, <1>5

(* A block that no buffer has is read from the disk. *)
LEMMA ContentOfNone ==
  ASSUME NEW k, \A b \in Buffers : b_key[b] # k
  PROVE  Content(k) = disk[k]
BY DEF Content

(* The same for the next state. *)
LEMMA ContentOfNoneNext ==
  ASSUME NEW k, \A b \in Buffers : b_key'[b] # k
  PROVE  Content(k)' = disk'[k]
BY DEF Content

(* A step that is about one buffer changes nothing for the readers of      *)
(* other blocks.                                                           *)
LEMMA OtherBlocks ==
  ASSUME Inv, Inv', NEW b \in Buffers, \A c \in Buffers \ {b} : SameBuffer(c),
         NEW k \in Stored, k # b_key[b], k # b_key'[b], disk'[k] = disk[k]
  PROVE  Content(k)' = Content(k)
<1>1. CASE \E c \in Buffers : b_key[c] = k
  <2>1. PICK c \in Buffers \ {b} : b_key[c] = k
    BY <1>1
  <2>2. SameBuffer(c)
    BY <2>1
  <2>3. b_key'[c] = k /\ (Cached(c)' <=> Cached(c))
    BY <2>1, <2>2 DEF SameBuffer, Cached
  <2>4. Content(k) = IF Cached(c) THEN b_data[c] ELSE disk[k]
    BY <2>1, ContentOf
  <2>5. Content(k)' = IF Cached(c)' THEN b_data'[c] ELSE disk'[k]
    BY <2>3, ContentOfNext
  <2> QED  BY <2>2, <2>3, <2>4, <2>5 DEF SameBuffer
<1>2. CASE \A c \in Buffers : b_key[c] # k
  <2>1. \A c \in Buffers : b_key'[c] # k
    BY <1>2 DEF SameBuffer
  <2> QED  BY <1>2, <2>1, ContentOfNone, ContentOfNoneNext
<1> QED  BY <1>1, <1>2

(* ... and keeps what the other buffers agree with. *)
LEMMA OneBufferStep ==
  ASSUME CInv, Inv', NEW b \in Buffers, \A c \in Buffers \ {b} : SameBuffer(c),
         \A k \in Stored : k # b_key[b] => disk'[k] = disk[k],
         Settled(b)',
         \A u \in Tasks : pc'[u] = "request" => pc[u] = "request" /\ io'[u] = io[u],
         \A u \in Tasks : pc'[u] = "request" /\ io'[u].bh = b => AskedFor(u)',
         \A s \in Slots : request'[s].bh \notin {NULL, b} => request'[s] = request[s],
         \A s \in Slots : request'[s].bh = b => HalfDone(request[s])',
         Given'
  PROVE  CInv'
<1>1. ASSUME NEW c \in Buffers, c # b 
      PROVE  SameBuffer(c) /\ (b_key[c] \in Stored => disk'[b_key[c]] = disk[b_key[c]])
  <2>1. SameBuffer(c)
    BY <1>1
  <2>2. b_key[c] \in Stored => b_key[c] # b_key[b]
    <3>1. b_key[c] \in Stored => b_key[c] # NoKey
      BY Constants DEF Stored
    <3> QED  BY <1>1, <3>1 DEF CInv, Inv, Names
  <2> QED  BY <2>1, <2>2
<1>2. ASSUME NEW c \in Buffers PROVE Settled(c)'
  <2>1. CASE c = b
    BY <2>1
  <2>2. CASE c # b
    <3>1. Settled(c)
      BY DEF CInv, Contents
    <3> QED  BY <2>2, <3>1, <1>1 DEF SameBuffer, Settled
  <2> QED  BY <2>1, <2>2
<1>3. ASSUME NEW u \in Tasks PROVE AskedFor(u)'
  <2> SUFFICES ASSUME pc'[u] = "request", io'[u].bh # b PROVE AskedFor(u)'
    BY DEF AskedFor
  <2>1. pc[u] = "request" /\ io'[u] = io[u] /\ AskedFor(u)
    BY DEF CInv, Contents
  <2>2. io[u].bh \in Buffers
    BY <2>1, Parts DEF CInv, IoOf
  <2>3. SameBuffer(io[u].bh)
    BY <2>1, <2>2
  <2> QED  BY <2>1, <2>3 DEF AskedFor, SameBuffer
<1>4. ASSUME NEW s \in Slots PROVE HalfDone(request[s])'
  <2>1. CASE request'[s].bh = b
    BY <2>1
  <2>2. CASE request'[s].bh \notin Buffers
    BY <2>2 DEF HalfDone
  <2>3. CASE request'[s].bh \in Buffers \ {b}
    <3>1. request'[s] = request[s]
      BY <2>3, Constants
    <3>2. HalfDone(request[s])
      BY DEF CInv, Contents
    <3>3. PICK c \in Buffers : c = request[s].bh /\ c # b
      BY <2>3, <3>1
    <3>4. SameBuffer(c) /\ (b_key[c] \in Stored => disk'[b_key[c]] = disk[b_key[c]])
      BY <3>3, <1>1
    <3>5. request'[s].cmd = READ => ~b_uptodate'[c]
      BY <3>1, <3>2, <3>3, <3>4 DEF HalfDone, SameBuffer
    <3>6. ~b_dirt'[c] /\ request'[s].nr_sectors = 1 /\ b_key'[c] \in Stored =>
            b_data'[c][1] = disk'[b_key'[c]][1]
      BY <3>1, <3>2, <3>3, <3>4 DEF HalfDone, SameBuffer
    <3> QED  BY <3>1, <3>3, <3>5, <3>6 DEF HalfDone
  <2> QED  BY <2>1, <2>2, <2>3
<1> QED  BY <1>2, <1>3, <1>4 DEF CInv, Contents

(* What a step must show: the readers of a block get what they got before, *)
(* and the invariant holds again.                                          *)
KeepsContents ==
  CInv' /\ \A k \in Stored \ (failed' \cup NotValid) : Content(k)' = Content(k)

(* No task comes to the label repeat of make_request. *)
NoNewRequest ==
  \A u \in Tasks : pc'[u] = "request" => pc[u] = "request" /\ io'[u] = io[u]

(* A step that changes no block, no buffer and no request. *)
LEMMA SameContents ==
  ASSUME CInv, Inv', UNCHANGED <<b_key, b_uptodate, b_dirt, b_data, queue, disk>>,
         \A u \in Tasks : AskedFor(u)', Given'
  PROVE  KeepsContents
<1>1. request' = request
  BY DEF queue
<1>2. \A b : Written(b)' <=> Written(b)
  BY <1>1 DEF Written
<1>3. ASSUME NEW b \in Buffers PROVE Settled(b)'
  <2>1. Settled(b)
    BY DEF CInv, Contents
  <2> QED  BY <1>2, <2>1 DEF Settled
<1>4. ASSUME NEW s \in Slots PROVE HalfDone(request[s])'
  <2>1. HalfDone(request[s])
    BY DEF CInv, Contents
  <2> QED  BY <1>1, <2>1 DEF HalfDone
<1>5. ASSUME NEW k PROVE Content(k)' = Content(k)
  <2> DEFINE S == {b \in Buffers : b_key[b] = k /\ (b_uptodate[b] \/ Written(b))}
             U == {b \in Buffers : b_key'[b] = k /\ (b_uptodate'[b] \/ Written(b)')}
  <2>1. U = S
    BY <1>2
  <2>2. Content(k) = IF S = {} THEN disk[k] ELSE b_data[CHOOSE b \in S : TRUE]
    BY DEF Content
  <2>3. Content(k)' = IF U = {} THEN disk'[k] ELSE b_data'[CHOOSE b \in U : TRUE]
    BY DEF Content
  <2>4. disk' = disk /\ b_data' = b_data
    OBVIOUS
  <2> HIDE DEF S, U
  <2> QED  BY <2>1, <2>2, <2>3, <2>4, SMT
<1> QED  BY <1>3, <1>4, <1>5 DEF KeepsContents, CInv, Contents

(* The same for the steps of tasks, which leave the drive alone. *)
LEMMA QuietContents ==
  ASSUME CInv, Inv', UNCHANGED <<b_key, b_uptodate, b_dirt, b_data, queue, drive>>, NoNewRequest
  PROVE  KeepsContents
<1>1. ASSUME NEW u \in Tasks PROVE AskedFor(u)'
  <2>1. AskedFor(u)
    BY DEF CInv, Contents
  <2> QED  BY <2>1 DEF AskedFor, NoNewRequest
<1>2. UNCHANGED <<request, current_request, disk, do_hd, hd_data>>
  BY DEF queue, drive
<1>3. CURRENT' = CURRENT
  BY <1>2 DEF CURRENT, Queue
<1>4. Given'
  <2>1. Given
    BY DEF CInv, Contents
  <2> QED  BY <1>2, <1>3, <2>1 DEF Given, Half
<1> QED  BY <1>1, <1>2, <1>4, SameContents

(* A task goes anywhere else. *)
LEMMA GoneElsewhere ==
  ASSUME Inv, NEW t \in Tasks, NEW place, place # "request", pc' = [pc EXCEPT ![t] = place],
         io' = io \/ \E r : io' = [io EXCEPT ![t] = r]
  PROVE  NoNewRequest
<1>1. DOMAIN pc = Tasks /\ DOMAIN io = Tasks
  BY DEF Inv, TypeOK
<1> QED  BY <1>1 DEF NoNewRequest

(* The steps of a task in which it only moves on, counts a buffer up or    *)
(* down, sleeps or wakes others.                                           *)
LEMMA TaskContents ==
  ASSUME CInv, Inv', NEW t \in Tasks, Task(t),
         ~Modify(t), ~make_request(t), ~no_request(t), ~add_request(t),
         ~(getblk_victim(t) /\ TakeVictim(t))
  PROVE  KeepsContents
<1>0. Inv
  BY DEF CInv
<1>1. ASSUME NEW place, NEW rw, NEW b, ll_rw_block(t, rw, b, place), place # "request"
      PROVE  NoNewRequest
  <2>1. "make_request" # "request"
    OBVIOUS
  <2> QED  BY <1>0, <1>1, <2>1, GoneElsewhere DEF ll_rw_block, Goto
<1>2. CASE Start(t) \/ sys_sync(t) \/ get_hash_table(t) \/ breada_count(t)
           \/ block_write_whole(t) \/ Look(t)
  <2>1. NoNewRequest
    BY <1>0, <1>2, GoneElsewhere
       DEF Start, sys_sync, get_hash_table, breada_count, block_write_whole, Look, Goto
  <2>2. UNCHANGED <<b_key, b_uptodate, b_dirt, b_data, queue, drive>>
    BY <1>2 DEF Start, sys_sync, get_hash_table, breada_count, block_write_whole, Look, heads
  <2> QED  BY <2>1, <2>2, QuietContents
<1>3. CASE wait_on_buffer(t) \/ Elsewhere(t)
  <2>1. UNCHANGED <<heads, queue, drive, pc, io>>
    BY <1>3 DEF wait_on_buffer, Elsewhere, Sleep
  <2>2. NoNewRequest
    BY <2>1 DEF NoNewRequest
  <2> QED  BY <2>1, <2>2, QuietContents DEF heads
<1>4. CASE getblk(t)
  <2>1. NoNewRequest
    BY <1>0, <1>4, GoneElsewhere DEF getblk, Goto
  <2>2. UNCHANGED <<b_key, b_uptodate, b_dirt, b_data, queue, drive>>
    BY <1>4 DEF getblk
  <2> QED  BY <2>1, <2>2, QuietContents
<1>5. CASE getblk_victim(t)
  <2>1. (Repeat(t) \/ CleanVictim(t)) /\ UNCHANGED <<queue, drive, io>>
    BY <1>5 DEF getblk_victim
  <2>2. NoNewRequest
    BY <1>0, <2>1, GoneElsewhere DEF Repeat, CleanVictim, Goto
  <2>3. UNCHANGED heads
    BY <2>1 DEF Repeat, CleanVictim
  <2> QED  BY <2>1, <2>2, <2>3, QuietContents DEF heads
<1>6. CASE brelse(t)
  <2>1. DOMAIN pc = Tasks
    BY <1>0 DEF Inv, TypeOK
  <2>2. NoNewRequest
    BY <1>6, <2>1 DEF brelse, wake_up, NoNewRequest
  <2>3. UNCHANGED <<b_key, b_uptodate, b_dirt, b_data, queue, drive>>
    BY <1>6 DEF brelse
  <2> QED  BY <2>2, <2>3, QuietContents
<1>7. CASE bread(t) \/ breada(t) \/ breada_tmp(t)
  <2>1. NoNewRequest
    BY <1>0, <1>1, <1>7, GoneElsewhere DEF bread, breada, breada_tmp, Goto
  <2>2. UNCHANGED <<heads, queue, drive>>
    BY <1>7 DEF bread, breada, breada_tmp
  <2> QED  BY <2>1, <2>2, QuietContents DEF heads
<1>8. CASE bread_end(t) \/ breada_arg(t)
  <2>1. NoNewRequest
    BY <1>0, <1>8, GoneElsewhere DEF bread_end, breada_arg, Goto
  <2>2. UNCHANGED <<heads, queue, drive>>
    BY <1>8 DEF bread_end, breada_arg
  <2> QED  BY <2>1, <2>2, QuietContents DEF heads
<1>9. CASE sync_dev(t) \/ sync_dev_end(t)
  <2>1. NoNewRequest
    BY <1>0, <1>1, <1>9, GoneElsewhere DEF sync_dev, sync_dev_end, Goto
  <2>2. UNCHANGED <<heads, queue, drive>>
    BY <1>9 DEF sync_dev, sync_dev_end
  <2> QED  BY <2>1, <2>2, QuietContents DEF heads
<1> QED  BY <1>2, <1>3, <1>4, <1>5, <1>6, <1>7, <1>8, <1>9 DEF Task

(* The sector that was given to the controller is still the one of the     *)
(* buffer, unless the buffer is dirty now.                                 *)
LEMMA GivenKept ==
  ASSUME CInv, NEW b, \A c \in Buffers \ {b} : SameBuffer(c),
         do_hd' = "write_intr" => /\ do_hd = "write_intr"
                                  /\ hd_data' = hd_data /\ CURRENT' = CURRENT,
         do_hd = "write_intr" /\ CURRENT.bh = b => b_dirt'[b]
  PROVE  Given'
<1> SUFFICES ASSUME do_hd' = "write_intr", ~b_dirt'[CURRENT'.bh]
             PROVE  hd_data' = b_data'[CURRENT'.bh][Half']
  BY DEF Given
<1>1. do_hd = "write_intr" /\ hd_data' = hd_data /\ CURRENT' = CURRENT
  OBVIOUS
<1>2. CURRENT.bh \in Buffers \ {b}
  <2>1. Inv /\ Queue # << >>
    BY <1>1 DEF CInv, Inv, Requests
  <2> QED  BY <1>1, <2>1, Current
<1>3. SameBuffer(CURRENT.bh)
  BY <1>2
<1>4. Half' = Half
  BY <1>1 DEF Half
<1>5. Given
  BY DEF CInv, Contents
<1> QED  BY <1>1, <1>3, <1>4, <1>5 DEF Given, SameBuffer

(* A buffer that is not locked is in no request and no task asks for it. *)
LEMMA Unlocked ==
  ASSUME Inv, NEW b \in Buffers, ~b_lock[b]
  PROVE  /\ \A s \in Slots : request[s].bh # b
         /\ \A u \in Tasks : pc[u] = "request" => io[u].bh # b
         /\ do_hd = "write_intr" => CURRENT.bh # b
<1>1. \A s \in Slots : request[s].bh # b
  BY DEF Inv, Locks, LocksOf, Serves
<1>2. \A u \in Tasks : pc[u] = "request" => io[u].bh # b
  BY DEF Inv, Locks, LocksOf, Asks
<1>3. do_hd = "write_intr" => CURRENT.bh # b
  <2>1. do_hd = "write_intr" => Queue # << >>
    BY DEF Inv, Requests
  <2>2. Queue # << >> => Head(Queue) \in Slots
    BY Current
  <2> QED  BY <1>1, <2>1, <2>2 DEF CURRENT
<1> QED  BY <1>1, <1>2, <1>3

(* getblk takes its victim: what the buffer had is on the disk, and it is  *)
(* not valid for its new block.                                            *)
LEMMA VictimContents ==
  ASSUME Counting, CInv, Inv', NEW t \in Tasks, getblk_victim(t), TakeVictim(t),
         ~Repeat(t), ~CleanVictim(t)
  PROVE  KeepsContents
<1>0. Inv /\ HeadsOK /\ TasksOK /\ Names
  BY TypeParts DEF CInv, Inv
<1>1. pc[t] = "victim"
  BY DEF getblk_victim, At
<1>2. bh[t] \in Buffers /\ want[t] \in Keys
  <2>1. Site(t) = "victim"
    BY <1>1 DEF Site
  <2>2. BuffersOf(t) /\ CallOf(t)
    BY <1>0, Parts
  <2>3. want[t] \in Keys
    BY <2>1, <2>2, WantsKey
  <2> QED  BY <2>1, <2>2, <2>3 DEF BuffersOf
<1>3. PICK b \in Buffers, new \in Keys : b = bh[t] /\ new = want[t]
  BY <1>2
<1>4. /\ pc[t] = "victim" /\ ~b_lock[b] /\ ~b_dirt[b] /\ ~InCache(new)
      /\ UNCHANGED <<queue, drive, io>>
  BY <1>3 DEF getblk_victim, At, Dirty
<1>5. \A c \in Buffers : b_key[c] # new
  BY <1>0, <1>4, <1>3, Found DEF InCache
<1>6. /\ b_dirt' = [b_dirt EXCEPT ![b] = FALSE]
      /\ b_uptodate' = [b_uptodate EXCEPT ![b] = FALSE]
      /\ b_key' = [b_key EXCEPT ![b] = new] /\ b_data' = b_data
      /\ pc' = [pc EXCEPT ![t] = "got"]
  BY <1>3 DEF TakeVictim, Rename, Goto
<1>7. UNCHANGED <<request, current_request, disk, do_hd, hd_data>>
  BY <1>4 DEF queue, drive
<1>8. /\ DOMAIN b_dirt = Buffers /\ DOMAIN b_uptodate = Buffers /\ DOMAIN b_key = Buffers
  BY <1>0 DEF HeadsOK
<1>9. /\ \A s \in Slots : request[s].bh # b
      /\ \A u \in Tasks : pc[u] = "request" => io[u].bh # b
      /\ do_hd = "write_intr" => CURRENT.bh # b
  BY <1>0, <1>4, <1>3, Unlocked
<1>10. \A c \in Buffers \ {b} : SameBuffer(c)
  BY <1>6, <1>7, <1>8 DEF SameBuffer, Written
<1>11. b_key'[b] = new /\ ~b_uptodate'[b] /\ ~b_dirt'[b]
  BY <1>3, <1>6, <1>8
<1>12. ~Written(b) /\ ~Written(b)'
  BY <1>4, <1>7, <1>9, <1>11 DEF Written
<1>13. CInv'
  <2>1. NoNewRequest
    BY <1>0, <1>4, <1>6, GoneElsewhere
  <2>2. Given'
    <3>1. CURRENT' = CURRENT
      BY <1>7 DEF CURRENT, Queue
    <3> QED  BY <1>7, <1>9, <1>10, <3>1, GivenKept
  <2>3. Settled(b)'
    BY <1>11 DEF Settled
  <2> QED  BY <1>3, <1>7, <1>9, <1>10, <2>1, <2>2, <2>3, OneBufferStep DEF NoNewRequest
<1>14. ASSUME NEW k \in Stored PROVE Content(k)' = Content(k)
  <2>1. CASE k = b_key[b]
    <3>1. Content(k) = disk[k]
      <4>1. Settled(b)
        BY <1>3 DEF CInv, Contents
      <4>2. Content(k) = IF Cached(b) THEN b_data[b] ELSE disk[k]
        BY <1>0, <1>3, <2>1, ContentOf
      <4> QED  BY <1>12, <2>1, <4>1, <4>2 DEF Settled, Cached
    <3>2. \A c \in Buffers : b_key'[c] # k
      <4>1. k # NoKey
        BY Constants DEF Stored
      <4>2. ASSUME NEW c \in Buffers, c # b PROVE b_key'[c] # k
        <5>1. b_key'[c] = b_key[c]
          BY <1>10, <4>2 DEF SameBuffer
        <5> QED  BY <1>0, <1>3, <2>1, <4>1, <4>2, <5>1 DEF Names
      <4>3. b_key'[b] # k
        BY <1>3, <1>5, <1>11, <2>1
      <4> QED  BY <4>2, <4>3
    <3> QED  BY <1>7, <3>1, <3>2, ContentOfNoneNext
  <2>2. CASE k = new
    <3>1. Content(k) = disk[k]
      BY <1>5, <2>2, ContentOfNone
    <3>2. Content(k)' = IF Cached(b)' THEN b_data'[b] ELSE disk'[k]
      BY <1>3, <1>11, <2>2, ContentOfNext
    <3> QED  BY <1>7, <1>11, <1>12, <3>1, <3>2 DEF Cached
  <2>3. CASE k # b_key[b] /\ k # new
    BY <1>0, <1>3, <1>7, <1>10, <1>11, <2>3, OtherBlocks
  <2> QED  BY <2>1, <2>2, <2>3
<1> QED  BY <1>13, <1>14 DEF KeepsContents

=============================================================================
