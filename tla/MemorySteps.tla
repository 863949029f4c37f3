---------------------------- MODULE MemorySteps -----------------------------
(***************************************************************************)
(* The inductive invariant of Memory, for any number of pages, tasks and   *)
(* user pages: counting references, and the steps of page faults,          *)
(* verify_area, fork, exit and waitpid.                                    *)
(***************************************************************************)
EXTENDS Memory, FiniteSetTheorems, TLAPS

(* Zenon is the default here; steps with arithmetic or EXCEPT name SMT. *)
USE ZenonT(30)

-----------------------------------------------------------------------------
(* The strengthening that makes the safety invariants inductive. *)

(* A writable entry is a valid page-table entry. *)
WritableIsMapped == \A s \in wbit : IsPte(s) /\ own[s] # 0

(* Entries hang from tables, tables from a directory. *)
Tree ==
  \A a \in Spaces :
    /\ \A v \in VA : own[PteSlot(a, v)] # 0 => own[TabSlot(a, DirOf[v])] # 0
    /\ \A d \in Dirs : own[TabSlot(a, d)] # 0 => own[DirSlot(a)] # 0

(* A task[] entry is in use exactly when the task exists; only a running   *)
(* task is inside a system call; no directory without a user.              *)
TaskStates ==
  \A t \in Tasks :
    /\ own[TaskSlot(t)] = 0 <=> state[t] = "none"
    /\ state[t] # "run" => kpc[t] = "user"
    /\ kpc[t] # "put" => buf[t] = {}
    /\ state[t] \in {"none", "zombie"} => own[DirSlot(Cur(t))] = 0
    /\ kpc[t] # "exec" => own[DirSlot(New(t))] = 0 /\ \A v \in Args : own[ArgSlot(t, v)] = 0

(* While a page of page[] is not mapped, its place in the new address      *)
(* space is empty.                                                         *)
ArgsPending ==
  \A t \in Tasks, v \in Args : own[ArgSlot(t, v)] # 0 => own[PteSlot(New(t), v)] = 0

(* The fork under way: its child is the only task in state "new", and the  *)
(* part of its address space that is still to be copied is empty, and it   *)
(* has no writable page.                                                   *)
ForkState ==
  /\ fork.parent = 0 => fork.todo = {} /\ \A t \in Tasks : state[t] # "new"
  /\ fork.parent # 0 =>
       /\ fork.parent \in Tasks /\ state[fork.parent] = "run" /\ kpc[fork.parent] = "user"
       /\ fork.child \in Tasks
       /\ \A t \in Tasks : state[t] = "new" <=> t = fork.child
       /\ \A d \in fork.todo : own[TabSlot(Cur(fork.child), d)] = 0
       /\ own[DirSlot(Cur(fork.child))] # 0
       /\ \A v \in VA : PteSlot(Cur(fork.child), v) \notin wbit

Shape ==
  Tree /\ TaskStates /\ WritableIsMapped /\ ArgsPending /\ ForkState /\ VerifiedStaysWritable

-----------------------------------------------------------------------------
(* Slots.  After this section the constructors are opaque. *)

(* Every constructor yields a slot, and IsPte and VaOf take it apart. *)
LEMMA SlotTypes ==
  /\ \A t \in Tasks : TaskSlot(t) \in Slots /\ ~IsPte(TaskSlot(t))
  /\ \A a \in Spaces : DirSlot(a) \in Slots /\ ~IsPte(DirSlot(a))
  /\ \A a \in Spaces, d \in Dirs : TabSlot(a, d) \in Slots /\ ~IsPte(TabSlot(a, d))
  /\ \A a \in Spaces, v \in VA :
       PteSlot(a, v) \in Slots /\ IsPte(PteSlot(a, v)) /\ VaOf(PteSlot(a, v)) = v
  /\ \A t \in Tasks, v \in Args : ArgSlot(t, v) \in Slots /\ ~IsPte(ArgSlot(t, v))
<1>1. \A a \in Spaces : a[1] \in Tasks /\ (a = <<a[1], 0>> \/ a = <<a[1], 1>>)
  BY SMTT(30) DEF Spaces
<1>2. \A a \in Spaces : SpaceSlots(a) \subseteq Slots
  <2> SUFFICES ASSUME NEW a \in Spaces PROVE SpaceSlots(a) \subseteq Slots
    OBVIOUS
  <2>1. SpaceSlots(a) \subseteq SlotsOf(a[1])
    BY <1>1 DEF SlotsOf
  <2> QED BY <1>1, <2>1 DEF Slots
<1>3. \A t \in Tasks : TaskSlot(t) \in Slots /\ ArgSlots(t) \subseteq Slots
  BY SMTT(30) DEF Slots, SlotsOf
<1>4. \A t \in Tasks : ~IsPte(TaskSlot(t))
  BY DEF TaskSlot, IsPte
<1>5. \A a \in Spaces : DirSlot(a) \in Slots /\ ~IsPte(DirSlot(a))
  BY <1>2 DEF SpaceSlots, DirSlot, IsPte
<1>6. \A a \in Spaces, d \in Dirs : TabSlot(a, d) \in Slots /\ ~IsPte(TabSlot(a, d))
  BY <1>2 DEF SpaceSlots, TabSlots, TabSlot, IsPte
<1>7. \A a \in Spaces, v \in VA :
        PteSlot(a, v) \in Slots /\ IsPte(PteSlot(a, v)) /\ VaOf(PteSlot(a, v)) = v
  BY <1>2 DEF SpaceSlots, PteSlots, PteSlot, IsPte, VaOf
<1>8. \A t \in Tasks, v \in Args : ArgSlot(t, v) \in Slots /\ ~IsPte(ArgSlot(t, v))
  BY <1>3 DEF ArgSlots, ArgSlot, IsPte
<1> QED BY <1>3, <1>4, <1>5, <1>6, <1>7, <1>8

(* There are no other slots. *)
LEMMA SlotCases ==
  ASSUME NEW s \in Slots
  PROVE  \/ \E t \in Tasks : s = TaskSlot(t)
         \/ \E a \in Spaces : s = DirSlot(a)
         \/ \E a \in Spaces, d \in Dirs : s = TabSlot(a, d)
         \/ \E a \in Spaces, v \in VA : s = PteSlot(a, v)
         \/ \E t \in Tasks, v \in Args : s = ArgSlot(t, v)
<1>1. PICK t \in Tasks : s \in SlotsOf(t)
  BY DEF Slots
<1>2. <<t, 0>> \in Spaces /\ <<t, 1>> \in Spaces
  BY DEF Spaces
<1>3. CASE s = TaskSlot(t)
  BY <1>3
<1>4. CASE s \in ArgSlots(t)
  BY <1>4 DEF ArgSlots
<1>5. ASSUME NEW a \in Spaces, s \in SpaceSlots(a)
      PROVE  \/ s = DirSlot(a)
             \/ \E d \in Dirs : s = TabSlot(a, d)
             \/ \E v \in VA : s = PteSlot(a, v)
  BY <1>5 DEF SpaceSlots, TabSlots, PteSlots
<1> QED BY <1>1, <1>2, <1>3, <1>4, <1>5 DEF SlotsOf

(* The constructors are injective, and no slot has two kinds. *)
LEMMA SlotsDistinct ==
  /\ \A t, u \in Tasks : TaskSlot(t) = TaskSlot(u) => t = u
  /\ \A a, b \in Spaces : DirSlot(a) = DirSlot(b) => a = b
  /\ \A a, b \in Spaces, d, e \in Dirs : TabSlot(a, d) = TabSlot(b, e) => a = b /\ d = e
  /\ \A a, b \in Spaces, v, w \in VA : PteSlot(a, v) = PteSlot(b, w) => a = b /\ v = w
  /\ \A t, u \in Tasks, v, w \in Args : ArgSlot(t, v) = ArgSlot(u, w) => t = u /\ v = w
  /\ \A t, a : TaskSlot(t) # DirSlot(a)
  /\ \A t, a, d : TaskSlot(t) # TabSlot(a, d)
  /\ \A t, a, v : TaskSlot(t) # PteSlot(a, v)
  /\ \A t, u, v : TaskSlot(t) # ArgSlot(u, v)
  /\ \A a, b, d : DirSlot(a) # TabSlot(b, d)
  /\ \A a, b, v : DirSlot(a) # PteSlot(b, v)
  /\ \A a, u, v : DirSlot(a) # ArgSlot(u, v)
  /\ \A a, b, d, v : TabSlot(a, d) # PteSlot(b, v)
  /\ \A a, u, d, v : TabSlot(a, d) # ArgSlot(u, v)
  /\ \A a, u, v, w : PteSlot(a, v) # ArgSlot(u, w)
<1>1. \A a, b \in Spaces : a[1] = b[1] /\ a[2] = b[2] => a = b
  BY SMTT(30) DEF Spaces
<1>2. \A t, u \in Tasks : TaskSlot(t) = TaskSlot(u) => t = u
  BY DEF TaskSlot
<1>3. \A a, b \in Spaces : DirSlot(a) = DirSlot(b) => a = b
  BY <1>1 DEF DirSlot
<1>4. \A a, b \in Spaces, d, e \in Dirs : TabSlot(a, d) = TabSlot(b, e) => a = b /\ d = e
  BY <1>1 DEF TabSlot
<1>5. \A a, b \in Spaces, v, w \in VA : PteSlot(a, v) = PteSlot(b, w) => a = b /\ v = w
  BY <1>1 DEF PteSlot
<1>6. \A t, u \in Tasks, v, w \in Args : ArgSlot(t, v) = ArgSlot(u, w) => t = u /\ v = w
  BY DEF ArgSlot
<1> QED BY <1>2, <1>3, <1>4, <1>5, <1>6 DEF TaskSlot, DirSlot, TabSlot, PteSlot, ArgSlot

(* There are finitely many slots. *)
LEMMA SlotsFinite == IsFiniteSet(Slots)
<1> DEFINE K == {"task", "pgdir", "pde", "pte", "arg"}
           V == {0} \cup Dirs \cup VA
           B == K \X (Tasks \X ({0, 1} \X V))
           f == [s \in Slots |-> <<s[1], <<s[2], <<s[3], s[4]>>>>>>]
<1>1. IsFiniteSet(Tasks) /\ IsFiniteSet({0, 1}) /\ IsFiniteSet(K)
  <2>1. IsFiniteSet(Tasks)
    BY FS_Interval, ConstantsOK, SMTT(30) DEF Tasks
  <2>2. IsFiniteSet({"task"} \cup {"pgdir"} \cup {"pde"} \cup {"pte"} \cup {"arg"})
    <3>1. \A S, x : IsFiniteSet(S) => IsFiniteSet(S \cup {x})
      BY FS_AddElement
    <3> QED BY <3>1, FS_Singleton, Zenon
  <2>3. IsFiniteSet({0} \cup {1})
    BY FS_Singleton, FS_AddElement
  <2>4. K = {"task"} \cup {"pgdir"} \cup {"pde"} \cup {"pte"} \cup {"arg"} /\ {0, 1} = {0} \cup {1}
    OBVIOUS
  <2> QED BY <2>1, <2>2, <2>3, <2>4
<1>2. IsFiniteSet(V)
  BY FS_Singleton, FS_Union, ConstantsOK
<1>3. IsFiniteSet(B)
  BY <1>1, <1>2, FS_Product
<1>4. \A s \in Slots : s = <<s[1], s[2], s[3], s[4]>>
                       /\ s[1] \in K /\ s[2] \in Tasks /\ s[3] \in {0, 1} /\ s[4] \in V
  <2>1. \A a \in Spaces : a[1] \in Tasks /\ a[2] \in {0, 1}
    BY DEF Spaces
  <2>2. Args \subseteq VA
    BY ConstantsOK
  <2> QED BY <2>1, <2>2, SlotCases, SMTT(30) DEF TaskSlot, DirSlot, TabSlot, PteSlot, ArgSlot
<1>5. f \in [Slots -> B]
  BY <1>4
<1>6. \A r, s \in Slots : f[r] = f[s] => r = s
  BY <1>4
<1>7. f \in Injection(Slots, B)
  BY <1>5, <1>6 DEF Injection, IsInjective
<1> QED BY <1>3, <1>7, FS_Injection
-----------------------------------------------------------------------------
(* Counting references.  The lemmas are about any reference counts m, slot *)
(* contents o, lost references l and writable entries w, so that they hold *)
(* for the intermediate states of a handler too.                           *)

CountIn(o, S, p) == Cardinality({s \in S : o[s] = p})
Count(o, p)      == CountIn(o, Slots, p)

Cleared(o, S) == [s \in Slots |-> IF s \in S THEN 0 ELSE o[s]]

Counted(m, o, l) ==
  /\ m \in [Pages -> Nat] /\ l \in [Pages -> Nat] /\ o \in [Slots -> Pages \cup {0}]
  /\ \A p \in Pages : m[p] = Count(o, p) + l[p]

Sole(m, o, w) == \A s \in Slots : o[s] # 0 /\ (s \in w \/ ~IsPte(s)) => m[o[s]] = 1

Good(m, o, l, w) == Counted(m, o, l) /\ Sole(m, o, w)

(* Pages are positive numbers; 0 stands for no page. *)
LEMMA PagesNat == Pages \subseteq Nat /\ 0 \notin Pages
BY ConstantsOK, SMTT(30) DEF Pages

(* Every set of slots is finite and has a cardinality. *)
LEMMA FiniteSlots == \A T \in SUBSET Slots : IsFiniteSet(T) /\ Cardinality(T) \in Nat
<1>1. \A T \in SUBSET Slots : IsFiniteSet(T)
  BY SlotsFinite, FS_Subset
<1> QED BY <1>1, FS_CardinalityType

(* The number of slots of S that hold p is a natural number. *)
LEMMA CountNat ==
  ASSUME NEW o, NEW S \in SUBSET Slots, NEW p
  PROVE  CountIn(o, S, p) \in Nat /\ IsFiniteSet({s \in S : o[s] = p})
<1>1. {s \in S : o[s] = p} \in SUBSET Slots
  OBVIOUS
<1>2. IsFiniteSet({s \in S : o[s] = p})
  BY <1>1, SlotsFinite, FS_Subset
<1> QED BY <1>2, FS_CardinalityType DEF CountIn

(* A page with count 0 is in no slot. *)
LEMMA Unused ==
  ASSUME NEW m, NEW o, NEW l, Counted(m, o, l), NEW p \in Pages, m[p] = 0
  PROVE  l[p] = 0 /\ \A s \in Slots : o[s] # p
<1>1. Count(o, p) \in Nat /\ IsFiniteSet({s \in Slots : o[s] = p})
  BY CountNat, SMTT(30) DEF Count
<1>2. l[p] \in Nat /\ 0 = Count(o, p) + l[p]
  BY DEF Counted
<1>3. l[p] = 0 /\ Count(o, p) = 0
  BY <1>1, <1>2, SMTT(30)
<1>4. {s \in Slots : o[s] = p} = {}
  BY <1>1, <1>3, FS_EmptySet DEF Count, CountIn
<1> QED BY <1>3, <1>4

(* A page with count 1 is in one slot only. *)
LEMMA Alone ==
  ASSUME NEW m, NEW o, NEW l, Counted(m, o, l),
         NEW s \in Slots, o[s] \in Pages, m[o[s]] = 1
  PROVE  l[o[s]] = 0 /\ \A r \in Slots : o[r] = o[s] => r = s
<1> DEFINE H == {r \in Slots : o[r] = o[s]}
<1>1. Cardinality(H) \in Nat /\ IsFiniteSet(H)
  BY CountNat DEF CountIn
<1>2. s \in H
  OBVIOUS
<1>3. Cardinality(H) # 0
  BY <1>1, <1>2, FS_EmptySet
<1>4. l[o[s]] \in Nat /\ 1 = Cardinality(H) + l[o[s]]
  BY DEF Counted, Count, CountIn
<1>5. l[o[s]] = 0 /\ Cardinality(H) = 1
  <2> HIDE DEF H
  <2> QED BY <1>1, <1>3, <1>4, SMTT(30)
<1>6. PICK x : H = {x}
  BY <1>1, <1>5, FS_Singleton
<1> QED BY <1>2, <1>5, <1>6

(* What one slot holds. *)
LEMMA CountOne ==
  ASSUME NEW o, NEW s, NEW x
  PROVE  CountIn(o, {s}, x) = IF x = o[s] THEN 1 ELSE 0
<1>1. CASE x = o[s]
  <2>1. {r \in {s} : o[r] = x} = {s}
    BY <1>1
  <2> QED BY <1>1, <2>1, FS_Singleton DEF CountIn
<1>2. CASE x # o[s]
  <2>1. {r \in {s} : o[r] = x} = {}
    BY <1>2
  <2> QED BY <1>2, <2>1, FS_EmptySet DEF CountIn
<1> QED BY <1>1, <1>2

(* Filling an empty slot adds one reference. *)
LEMMA CountSet ==
  ASSUME NEW o \in [Slots -> Pages \cup {0}], NEW s \in Slots, o[s] = 0,
         NEW p \in Pages, NEW x \in Pages
  PROVE  Count([o EXCEPT ![s] = p], x) = Count(o, x) + IF x = p THEN 1 ELSE 0
<1> DEFINE o2 == [o EXCEPT ![s] = p]
           H  == {r \in Slots : o[r] = x}
           H2 == {r \in Slots : o2[r] = x}
<1>1. IsFiniteSet(H) /\ Cardinality(H) \in Nat
  BY CountNat, SMTT(30) DEF CountIn
<1>2. s \notin H
  BY PagesNat
<1>3. CASE x = p
  <2>1. H2 = H \cup {s}
    BY <1>3
  <2>2. Cardinality(H \cup {s}) = Cardinality(H) + 1
    BY <1>1, <1>2, FS_AddElement
  <2> QED BY <2>1, <2>2, <1>3 DEF Count, CountIn
<1>4. CASE x # p
  <2>1. H2 = H
    BY <1>4, PagesNat
  <2> QED BY <2>1, <1>1, <1>4, SMTT(30) DEF Count, CountIn
<1> QED BY <1>3, <1>4

(* Clearing slots removes the references they held. *)
LEMMA CountClear ==
  ASSUME NEW o \in [Slots -> Pages \cup {0}], NEW S \in SUBSET Slots, NEW x \in Pages
  PROVE  /\ CountIn(o, S, x) \in Nat /\ Count(o, x) \in Nat
         /\ Count(Cleared(o, S), x) = Count(o, x) - CountIn(o, S, x)
         /\ CountIn(o, S, x) <= Count(o, x)
<1> DEFINE H  == {r \in Slots : o[r] = x}
           HS == {r \in S : o[r] = x}
           H2 == {r \in Slots : Cleared(o, S)[r] = x}
<1>1. IsFiniteSet(H) /\ Cardinality(H) \in Nat /\ IsFiniteSet(HS) /\ Cardinality(HS) \in Nat
  <2>1. H \in SUBSET Slots /\ HS \in SUBSET Slots
    OBVIOUS
  <2> HIDE DEF H, HS
  <2> QED BY <2>1, FiniteSlots
<1>2. H2 = H \ HS
  BY PagesNat DEF Cleared
<1>3. H \cap HS = HS /\ HS \in SUBSET H
  OBVIOUS
<1>4. Cardinality(H \ HS) = Cardinality(H) - Cardinality(HS)
  BY <1>1, <1>3, FS_Difference
<1>5. Cardinality(HS) <= Cardinality(H)
  BY <1>1, <1>3, FS_Subset
<1> QED BY <1>1, <1>2, <1>4, <1>5 DEF Count, CountIn

-----------------------------------------------------------------------------
(* What the operations on pages preserve. *)

(* get_free_page into an empty slot. *)
LEMMA GoodGrab ==
  ASSUME NEW m, NEW o, NEW l, NEW w, Good(m, o, l, w),
         NEW s \in Slots, o[s] = 0, NEW p \in Pages, m[p] = 0,
         NEW w2, w2 \subseteq w \cup {s}
  PROVE  Good(Take(m, p), [o EXCEPT ![s] = p], l, w2)
<1> DEFINE o2 == [o EXCEPT ![s] = p]
<1>1. Counted(m, o, l) /\ Sole(m, o, w)
  BY DEF Good
<1>2. Take(m, p) \in [Pages -> Nat] /\ o2 \in [Slots -> Pages \cup {0}] /\ l \in [Pages -> Nat]
  BY <1>1 DEF Counted, Take
<1>3. ASSUME NEW x \in Pages PROVE Take(m, p)[x] = Count(o2, x) + l[x]
  <2>1. Count(o2, x) = Count(o, x) + IF x = p THEN 1 ELSE 0
    BY <1>1, CountSet DEF Counted
  <2>2. m[x] = Count(o, x) + l[x] /\ Count(o, x) \in Nat /\ l[x] \in Nat
    BY <1>1, CountNat DEF Counted, Count
  <2>3. Take(m, p)[x] = IF x = p THEN 1 ELSE m[x]
    BY <1>1 DEF Take, Counted
  <2> HIDE DEF o2
  <2>4. CASE x = p
    BY <2>1, <2>2, <2>3, <2>4, SMTT(30)
  <2>5. CASE x # p
    BY <2>1, <2>2, <2>3, <2>5, SMTT(30)
  <2> QED BY <2>4, <2>5
<1>4. Sole(Take(m, p), o2, w2)
  <2>1. \A r \in Slots : o[r] # p
    BY <1>1, Unused, SMTT(30)
  <2> QED BY <1>1, <2>1 DEF Sole, Take, Counted
<1> QED BY <1>2, <1>3, <1>4 DEF Good, Counted

(* free_page on what some slots hold. *)
LEMMA GoodDrop ==
  ASSUME NEW m, NEW o, NEW l, NEW w, Good(m, o, l, w),
         NEW S \in SUBSET Slots, NEW w2, w2 \subseteq w
  PROVE  Good([p \in Pages |-> m[p] - CountIn(o, S, p)], Cleared(o, S), l, w2)
<1> DEFINE m2 == [p \in Pages |-> m[p] - CountIn(o, S, p)]
           o2 == Cleared(o, S)
<1>1. Counted(m, o, l) /\ Sole(m, o, w)
  BY DEF Good
<1>2. ASSUME NEW x \in Pages PROVE m2[x] \in Nat /\ m2[x] = Count(o2, x) + l[x]
  <2>1. /\ CountIn(o, S, x) \in Nat /\ Count(o, x) \in Nat
        /\ Count(o2, x) = Count(o, x) - CountIn(o, S, x)
        /\ CountIn(o, S, x) <= Count(o, x)
    BY <1>1, CountClear DEF Counted
  <2>2. m[x] = Count(o, x) + l[x] /\ l[x] \in Nat
    BY <1>1 DEF Counted
  <2>3. m2[x] = m[x] - CountIn(o, S, x)
    OBVIOUS
  <2> HIDE DEF m2, o2
  <2> QED BY <2>1, <2>2, <2>3, SMTT(30)
<1>3. o2 \in [Slots -> Pages \cup {0}] /\ m2 \in [Pages -> Nat] /\ l \in [Pages -> Nat]
  BY <1>1, <1>2 DEF Counted, Cleared
<1>4. ASSUME NEW s \in Slots, o2[s] # 0, s \in w2 \/ ~IsPte(s) PROVE m2[o2[s]] = 1
  <2>1. s \notin S /\ o2[s] = o[s] /\ o[s] \in Pages
    BY <1>1, <1>4 DEF Cleared, Counted
  <2>2. m[o[s]] = 1
    BY <1>1, <1>4, <2>1 DEF Sole
  <2>3. \A r \in Slots : o[r] = o[s] => r = s
    BY <1>1, <2>1, <2>2, Alone, SMTT(30)
  <2>4. {r \in S : o[r] = o[s]} = {}
    BY <2>1, <2>3
  <2>5. CountIn(o, S, o[s]) = 0
    BY <2>4, FS_EmptySet DEF CountIn
  <2> QED BY <2>1, <2>2, <2>5, SMTT(30)
<1> QED BY <1>1, <1>2, <1>3, <1>4 DEF Good, Counted, Sole

(* Slots that are overwritten or forgotten without free_page. *)
LEMMA GoodLeak ==
  ASSUME NEW m, NEW o, NEW l, NEW w, Good(m, o, l, w),
         NEW S \in SUBSET Slots, NEW w2, w2 \subseteq w
  PROVE  Good(m, Cleared(o, S), [p \in Pages |-> l[p] + CountIn(o, S, p)], w2)
<1> DEFINE l2 == [p \in Pages |-> l[p] + CountIn(o, S, p)]
           o2 == Cleared(o, S)
<1>1. Counted(m, o, l) /\ Sole(m, o, w)
  BY DEF Good
<1>2. ASSUME NEW x \in Pages PROVE l2[x] \in Nat /\ m[x] = Count(o2, x) + l2[x]
  <2>1. /\ CountIn(o, S, x) \in Nat /\ Count(o, x) \in Nat
        /\ Count(o2, x) = Count(o, x) - CountIn(o, S, x)
    BY <1>1, CountClear DEF Counted
  <2>2. m[x] = Count(o, x) + l[x] /\ l[x] \in Nat
    BY <1>1 DEF Counted
  <2>3. l2[x] = l[x] + CountIn(o, S, x)
    OBVIOUS
  <2> HIDE DEF l2, o2
  <2> QED BY <2>1, <2>2, <2>3, SMTT(30)
<1>3. o2 \in [Slots -> Pages \cup {0}] /\ m \in [Pages -> Nat] /\ l2 \in [Pages -> Nat]
  BY <1>1, <1>2 DEF Counted, Cleared
<1>4. Sole(m, o2, w2)
  BY <1>1 DEF Sole, Cleared, Counted
<1> QED BY <1>2, <1>3, <1>4 DEF Good, Counted

(* A page with one reference may be made writable. *)
LEMMA GoodWritable ==
  ASSUME NEW m, NEW o, NEW l, NEW w, Good(m, o, l, w), NEW s \in Slots, o[s] = 0 \/ m[o[s]] = 1,
         NEW w2, w2 \subseteq w \cup {s}
  PROVE  Good(m, o, l, w2)
BY DEF Good, Sole

SharedCount(m, o, from, vs) ==
  [p \in Pages |-> m[p] + Cardinality({v \in vs : o[PteSlot(from, v)] = p})]

Shared(o, from, to, vs) ==
  [s \in Slots |-> IF s \in {PteSlot(to, v) : v \in vs}
                     THEN o[PteSlot(from, VaOf(s))] ELSE o[s]]

(* copy_page_tables shares what one address space maps with another one.   *)
LEMMA GoodShare ==
  ASSUME NEW m, NEW o, NEW l, NEW w, Good(m, o, l, w),
         NEW from \in Spaces, NEW to \in Spaces, from # to,
         NEW vs \in SUBSET VA,
         \A v \in vs : o[PteSlot(from, v)] # 0 /\ o[PteSlot(to, v)] = 0,
         NEW w2, w2 \subseteq w,
         \A v \in vs : PteSlot(from, v) \notin w2 /\ PteSlot(to, v) \notin w2
  PROVE  Good(SharedCount(m, o, from, vs), Shared(o, from, to, vs), l, w2)
<1> DEFINE V(x) == {v \in vs : o[PteSlot(from, v)] = x}
           N(x) == {PteSlot(to, v) : v \in V(x)}
           m2   == [p \in Pages |-> m[p] + Cardinality(V(p))]
           o2   == [s \in Slots |-> IF s \in {PteSlot(to, v) : v \in vs}
                                      THEN o[PteSlot(from, VaOf(s))] ELSE o[s]]
<1>1. Counted(m, o, l) /\ Sole(m, o, w)
  BY DEF Good
<1>2. /\ \A v \in vs : PteSlot(to, v) \in Slots /\ PteSlot(from, v) \in Slots
      /\ \A v \in vs : VaOf(PteSlot(to, v)) = v /\ IsPte(PteSlot(to, v)) /\ IsPte(PteSlot(from, v))
      /\ \A u, v \in vs : PteSlot(to, u) = PteSlot(to, v) => u = v
  BY SlotTypes, SlotsDistinct
<1>3. /\ \A v \in vs : o2[PteSlot(to, v)] = o[PteSlot(from, v)]
      /\ \A s \in Slots : s \notin {PteSlot(to, v) : v \in vs} => o2[s] = o[s]
  BY <1>2
<1>4. o2 \in [Slots -> Pages \cup {0}]
  BY <1>1, <1>2, SMTT(30) DEF Counted
<1>5. \A x : IsFiniteSet(V(x)) /\ Cardinality(V(x)) \in Nat
  <2>1. \A x : V(x) \in SUBSET VA
    OBVIOUS
  <2>2. \A x : IsFiniteSet(V(x))
    BY <2>1, ConstantsOK, FS_Subset
  <2> QED BY <2>2, FS_CardinalityType
<1>6. ASSUME NEW x \in Pages PROVE Count(o2, x) = Count(o, x) + Cardinality(V(x))
  <2> DEFINE H  == {s \in Slots : o[s] = x}
             H2 == {s \in Slots : o2[s] = x}
  <2>1. H2 = H \cup N(x)
    <3> HIDE DEF o2
    <3> QED BY <1>2, <1>3, PagesNat, SMTT(30)
  <2>2. H \cap N(x) = {}
    BY PagesNat
  <2>3. IsFiniteSet(N(x)) /\ Cardinality(N(x)) = Cardinality(V(x))
    <3> DEFINE f == [v \in V(x) |-> PteSlot(to, v)]
    <3>1. f \in Bijection(V(x), N(x))
      BY <1>2 DEF Bijection, Injection, Surjection, IsInjective
    <3>2. ExistsBijection(V(x), N(x))
      BY <3>1 DEF ExistsBijection
    <3> HIDE DEF V, N
    <3> QED BY <1>5, <3>2, FS_Bijection
  <2>4. H \in SUBSET Slots
    OBVIOUS
  <2>5. IsFiniteSet(H) /\ Cardinality(H) \in Nat
    <3> HIDE DEF H
    <3> QED BY <2>4, FiniteSlots
  <2>6. Cardinality(H \cup N(x)) = Cardinality(H) + Cardinality(V(x))
    <3> HIDE DEF H, V, N
    <3>1. Cardinality(H \cup N(x)) = Cardinality(H) + Cardinality(N(x)) - Cardinality(H \cap N(x))
      BY <2>3, <2>5, FS_Union
    <3>2. Cardinality(H \cap N(x)) = 0
      BY <2>2, FS_EmptySet
    <3> QED BY <3>1, <3>2, <2>3, <2>5, <1>5, SMTT(30)
  <2> QED BY <2>1, <2>6 DEF Count, CountIn
<1>7. ASSUME NEW x \in Pages PROVE m2[x] \in Nat /\ m2[x] = Count(o2, x) + l[x]
  <2>1. m[x] = Count(o, x) + l[x] /\ l[x] \in Nat /\ m[x] \in Nat
    BY <1>1 DEF Counted
  <2>2. Count(o, x) \in Nat
    BY CountNat DEF Count
  <2>3. m2[x] = m[x] + Cardinality(V(x))
    OBVIOUS
  <2>4. Cardinality(V(x)) \in Nat
    BY <1>5
  <2> HIDE DEF m2, o2, V
  <2> QED BY <2>1, <2>2, <2>3, <2>4, <1>6, SMTT(30)
<1>8. ASSUME NEW s \in Slots, o2[s] # 0, s \in w2 \/ ~IsPte(s) PROVE m2[o2[s]] = 1
  <2>1. \A v \in vs : s # PteSlot(to, v) /\ s # PteSlot(from, v)
    BY <1>2, <1>8
  <2>2. o2[s] = o[s]
    BY <1>3, <2>1
  <2>3. o[s] \in Pages /\ m[o[s]] = 1
    BY <1>1, <1>8, <2>2 DEF Sole, Counted
  <2>4. \A r \in Slots : o[r] = o[s] => r = s
    BY <1>1, <2>3, Alone, SMTT(30)
  <2>5. V(o[s]) = {}
    BY <1>2, <2>1, <2>4
  <2>6. Cardinality(V(o[s])) = 0
    BY <2>5, FS_EmptySet
  <2> QED BY <2>2, <2>3, <2>6, SMTT(30)
<1>9. m2 \in [Pages -> Nat]
  <2>1. \A x \in Pages : m2[x] \in Nat
    BY <1>7
  <2> QED BY <2>1
<1>10. m2 = SharedCount(m, o, from, vs) /\ o2 = Shared(o, from, to, vs)
  BY DEF SharedCount, Shared
<1>11. l \in [Pages -> Nat]
  BY <1>1 DEF Counted
<1> HIDE DEF m2, o2
<1>12. Good(m2, o2, l, w2)
  BY <1>4, <1>7, <1>8, <1>9, <1>11 DEF Good, Counted, Sole
<1> QED BY <1>10, <1>12
-----------------------------------------------------------------------------
(* The inductive invariant, and what it says. *)
IInv == TypeOK /\ Good(mem_map, own, leaked, wbit) /\ Shape

(* Current and half-built address spaces of the tasks are all different. *)
LEMMA SpaceNames ==
  ASSUME TypeOK
  PROVE  /\ \A t \in Tasks : Cur(t) \in Spaces /\ New(t) \in Spaces
         /\ \A t, u \in Tasks : Cur(t) # New(u)
         /\ \A t, u \in Tasks : Cur(t) = Cur(u) => t = u
         /\ \A t, u \in Tasks : New(t) = New(u) => t = u
         /\ \A a \in Spaces : \E t \in Tasks : a = Cur(t) \/ a = New(t)
         /\ \A t \in Tasks : SlotsOf(t) =
              {TaskSlot(t)} \cup SpaceSlots(Cur(t)) \cup SpaceSlots(New(t)) \cup ArgSlots(t)
<1>1. \A t \in Tasks : \/ space[t] = 0 /\ Cur(t) = <<t, 0>> /\ New(t) = <<t, 1>>
                       \/ space[t] = 1 /\ Cur(t) = <<t, 1>> /\ New(t) = <<t, 0>>
  BY SMTT(30) DEF TypeOK, Cur, New
<1>2. \A t \in Tasks : Cur(t) \in Spaces /\ New(t) \in Spaces
  BY <1>1, SMTT(30) DEF Spaces
<1>3. \A t, u \in Tasks : Cur(t) # New(u)
  BY <1>1, SMTT(30)
<1>4. \A t, u \in Tasks : (Cur(t) = Cur(u) => t = u) /\ (New(t) = New(u) => t = u)
  BY <1>1, SMTT(30)
<1>5. \A a \in Spaces : \E t \in Tasks : a = Cur(t) \/ a = New(t)
  BY <1>1, SMTT(30) DEF Spaces
<1>6. \A t \in Tasks : SlotsOf(t) =
         {TaskSlot(t)} \cup SpaceSlots(Cur(t)) \cup SpaceSlots(New(t)) \cup ArgSlots(t)
  BY <1>1 DEF SlotsOf
<1> QED BY <1>2, <1>3, <1>4, <1>5, <1>6

(* Which slots belong to an address space, and which to page[]. *)
LEMMA InSpace ==
  /\ \A a \in Spaces : /\ SpaceSlots(a) \subseteq Slots /\ PteSlots(a) \subseteq Slots
                       /\ TabSlots(a) \subseteq Slots
  /\ \A a \in Spaces : \A t \in Tasks : TaskSlot(t) \notin SpaceSlots(a)
  /\ \A a, b \in Spaces : DirSlot(b) \in SpaceSlots(a) <=> a = b
  /\ \A a, b \in Spaces, d \in Dirs : TabSlot(b, d) \in SpaceSlots(a) <=> a = b
  /\ \A a, b \in Spaces, v \in VA : PteSlot(b, v) \in SpaceSlots(a) <=> a = b
  /\ \A a, b \in Spaces, v \in VA : PteSlot(b, v) \in PteSlots(a) <=> a = b
  /\ \A a \in Spaces, t \in Tasks, v \in Args : ArgSlot(t, v) \notin SpaceSlots(a)
  /\ \A a \in Spaces : \A s \in SpaceSlots(a) : IsPte(s) => s \in PteSlots(a)
<1>1. \A a \in Spaces : /\ SpaceSlots(a) \subseteq Slots /\ PteSlots(a) \subseteq Slots
                        /\ TabSlots(a) \subseteq Slots
  BY SlotTypes DEF SpaceSlots, PteSlots, TabSlots
<1>2. \A a \in Spaces : \A t \in Tasks : TaskSlot(t) \notin SpaceSlots(a)
  BY SlotsDistinct, SMTT(30) DEF SpaceSlots, PteSlots, TabSlots
<1>3. \A a, b \in Spaces : DirSlot(b) \in SpaceSlots(a) <=> a = b
  BY SlotsDistinct, SMTT(30) DEF SpaceSlots, PteSlots, TabSlots
<1>4. \A a, b \in Spaces, d \in Dirs : TabSlot(b, d) \in SpaceSlots(a) <=> a = b
  BY SlotsDistinct, SMTT(30) DEF SpaceSlots, PteSlots, TabSlots
<1>5. \A a, b \in Spaces, v \in VA : PteSlot(b, v) \in SpaceSlots(a) <=> a = b
  BY SlotsDistinct, SMTT(30) DEF SpaceSlots, PteSlots, TabSlots
<1>6. \A a, b \in Spaces, v \in VA : PteSlot(b, v) \in PteSlots(a) <=> a = b
  BY SlotsDistinct, SMTT(30) DEF PteSlots
<1>7. \A a \in Spaces, t \in Tasks, v \in Args : ArgSlot(t, v) \notin SpaceSlots(a)
  BY SlotsDistinct, SMTT(30) DEF SpaceSlots, PteSlots, TabSlots
<1>8. \A a \in Spaces : \A s \in SpaceSlots(a) : IsPte(s) => s \in PteSlots(a)
  BY SlotTypes DEF SpaceSlots, TabSlots
<1> QED BY <1>1, <1>2, <1>3, <1>4, <1>5, <1>6, <1>7, <1>8

(* Which slots belong to the page[] array of a task in do_execve. *)
LEMMA InArgs ==
  /\ \A t \in Tasks : ArgSlots(t) \subseteq Slots
  /\ \A t, u \in Tasks : TaskSlot(u) \notin ArgSlots(t)
  /\ \A t \in Tasks, a \in Spaces : DirSlot(a) \notin ArgSlots(t)
  /\ \A t \in Tasks, a \in Spaces, d \in Dirs : TabSlot(a, d) \notin ArgSlots(t)
  /\ \A t \in Tasks, a \in Spaces, v \in VA : PteSlot(a, v) \notin ArgSlots(t)
  /\ \A t, u \in Tasks, v \in Args : ArgSlot(u, v) \in ArgSlots(t) <=> t = u
BY SlotTypes, SlotsDistinct, SMTT(30) DEF ArgSlots

(* An address space without a directory is empty. *)
LEMMA EmptySpace ==
  ASSUME Tree, NEW a \in Spaces, own[DirSlot(a)] = 0
  PROVE  \A s \in SpaceSlots(a) : own[s] = 0
BY ConstantsOK DEF Tree, SpaceSlots, TabSlots, PteSlots

(* The inductive invariant says what RefCounts says of mem_map. *)
LEMMA InvRefCounts == IInv => RefCounts
BY DEF IInv, Good, Counted, RefCounts, Refs, Held, Count, CountIn

(* The inductive invariant implies SoleOwner: a count of 1 is one slot. *)
LEMMA InvSoleOwner == IInv => SoleOwner
<1> SUFFICES ASSUME IInv, NEW s \in Slots, own[s] # 0, Exclusive(s)
             PROVE  leaked[own[s]] = 0 /\ \A r \in Slots : own[r] = own[s] => r = s
  BY DEF SoleOwner
<1>1. own[s] \in Pages /\ mem_map[own[s]] = 1 /\ Counted(mem_map, own, leaked)
  BY DEF IInv, Good, Counted, Sole, Exclusive
<1> QED BY <1>1, Alone, SMTT(30)

(* The inductive invariant implies NothingLeftBehind, for exit and execve. *)
LEMMA InvNothingLeftBehind == IInv => NothingLeftBehind
<1> SUFFICES ASSUME IInv, NEW t \in Tasks, NEW s \in SlotsOf(t), own[s] # 0
             PROVE  /\ state[t] # "none"
                    /\ state[t] = "zombie" => s = TaskSlot(t)
                    /\ s \in SpaceSlots(New(t)) \cup ArgSlots(t) => kpc[t] = "exec"
  BY DEF NothingLeftBehind
<1> USE DEF IInv, Shape
<1>1. s \in {TaskSlot(t)} \cup SpaceSlots(Cur(t)) \cup SpaceSlots(New(t)) \cup ArgSlots(t)
  BY SpaceNames
<1>2. Cur(t) \in Spaces /\ New(t) \in Spaces
  BY SpaceNames
<1>3. state[t] \in {"none", "zombie"} => s \notin SpaceSlots(Cur(t))
  BY <1>2, EmptySpace DEF TaskStates
<1>4. kpc[t] # "exec" => s \notin SpaceSlots(New(t))
  BY <1>2, EmptySpace DEF TaskStates
<1>5. kpc[t] # "exec" => s \notin ArgSlots(t)
  BY SMTT(30) DEF TaskStates, ArgSlots
<1>6. state[t] = "none" => s # TaskSlot(t)
  BY DEF TaskStates
<1>7. state[t] # "run" => kpc[t] # "exec"
  BY DEF TaskStates
<1> QED BY <1>1, <1>3, <1>4, <1>5, <1>6, <1>7

(* After mem_init, with every page free, the inductive invariant holds. *)
THEOREM InitInv == Init => IInv
<1> SUFFICES ASSUME Init PROVE IInv
  OBVIOUS
<1> USE DEF Init
<1>1. TypeOK
  BY ConstantsOK DEF TypeOK, NoFork
<1>2. Good(mem_map, own, leaked, wbit)
  <2>1. \A p \in Pages : {s \in Slots : own[s] = p} = {}
    BY PagesNat
  <2>2. \A p \in Pages : Count(own, p) = 0
    BY <2>1, FS_EmptySet DEF Count, CountIn
  <2> QED BY <2>2, SMTT(30) DEF Good, Counted, Sole
<1>3. Shape
  <2> USE SlotTypes, ConstantsOK
  <2>1. Tree
    BY DEF Tree
  <2>2. TaskStates
    BY <1>1, SpaceNames DEF TaskStates
  <2>3. ArgsPending /\ WritableIsMapped /\ VerifiedStaysWritable
    BY DEF ArgsPending, WritableIsMapped, VerifiedStaysWritable
  <2>4. ForkState
    BY DEF ForkState, NoFork
  <2> QED BY <2>1, <2>2, <2>3, <2>4 DEF Shape
<1> QED BY <1>1, <1>2, <1>3 DEF IInv
-----------------------------------------------------------------------------
(* The operations that several handlers share. *)

(* put_page_pgdir maps a page that was just taken.  o0 is o without what   *)
(* the entry held before.                                                  *)
LEMMA PutPage ==
  ASSUME TypeOK, NEW m0, NEW o0, NEW l, NEW o, NEW a \in Spaces, NEW v \in VA, NEW p \in Pages,
         Good(m0, o0, l, wbit), m0[p] = 0, o \in [Slots -> Pages \cup {0}],
         o0 = Cleared(o, {PteSlot(a, v)}),
         put_page_pgdir(Take(m0, p), o, a, v, p)
  PROVE  /\ Good(mem_map', own', l, wbit')
         /\ wbit' = wbit \cup {PteSlot(a, v)} /\ xbit' \subseteq Slots
         /\ own'[PteSlot(a, v)] = p /\ own'[TabSlot(a, DirOf[v])] # 0
         /\ \A s \in Slots : s # PteSlot(a, v) /\ s # TabSlot(a, DirOf[v]) => own'[s] = o[s]
<1> DEFINE pte == PteSlot(a, v)
           tab == TabSlot(a, DirOf[v])
           m1  == Take(m0, p)
           o1  == [o0 EXCEPT ![pte] = p]
<1>1. pte \in Slots /\ tab \in Slots /\ pte # tab
  BY SlotTypes, SlotsDistinct, ConstantsOK
<1>2. wbit' = wbit \cup {pte} /\ xbit' \subseteq Slots
  BY <1>1 DEF put_page_pgdir, TypeOK
<1>3. o0 \in [Slots -> Pages \cup {0}] /\ o0[pte] = 0
  BY <1>1 DEF Cleared
<1>4. Good(m1, o1, l, wbit')
  BY <1>1, <1>2, <1>3, GoodGrab
<1>5. o1 = [o EXCEPT ![pte] = p]
  BY <1>1 DEF Cleared
<1>6. CASE o[tab] # 0 /\ mem_map' = m1 /\ own' = [o EXCEPT ![pte] = p]
  BY <1>1, <1>2, <1>4, <1>5, <1>6
<1>7. ASSUME o[tab] = 0, NEW q \in Pages, get_free_page(m1, q), mem_map' = Take(m1, q),
             own' = [o EXCEPT ![tab] = q, ![pte] = p]
      PROVE  /\ Good(mem_map', own', l, wbit')
             /\ own'[pte] = p /\ own'[tab] # 0
             /\ \A s \in Slots : s # pte /\ s # tab => own'[s] = o[s]
  <2>1. own' = [o1 EXCEPT ![tab] = q]
    BY <1>1, <1>5, <1>7
  <2>2. o1[tab] = 0
    BY <1>1, <1>5, <1>7
  <2>3. m1[q] = 0
    BY <1>7 DEF get_free_page
  <2>4. Good(Take(m1, q), [o1 EXCEPT ![tab] = q], l, wbit')
    <3> HIDE DEF m1, o1, tab
    <3> QED BY <1>1, <1>4, <2>2, <2>3, GoodGrab
  <2>5. own'[pte] = p /\ own'[tab] # 0 /\ \A s \in Slots : s # pte /\ s # tab => own'[s] = o[s]
    BY <1>1, <1>7, PagesNat
  <2> QED BY <1>7, <2>1, <2>4, <2>5
<1> QED
  <2>1. \/ o[tab] # 0 /\ mem_map' = m1 /\ own' = [o EXCEPT ![pte] = p]
        \/ o[tab] = 0 /\ \E q \in Pages : /\ get_free_page(m1, q)
                                          /\ mem_map' = Take(m1, q)
                                          /\ own' = [o EXCEPT ![tab] = q, ![pte] = p]
    BY DEF put_page_pgdir
  <2> QED BY <1>2, <1>6, <1>7, <2>1

(* A page is made writable: the entry is valid and writable, its table     *)
(* exists, and nothing else changes.                                       *)
Wrote(a, v) ==
  /\ Good(mem_map', own', leaked', wbit')
  /\ wbit' = wbit \cup {PteSlot(a, v)} /\ xbit' \subseteq Slots
  /\ data' \in [Pages -> Values]
  /\ own'[PteSlot(a, v)] # 0 /\ own'[TabSlot(a, DirOf[v])] # 0
  /\ \A s \in Slots : s # PteSlot(a, v) /\ s # TabSlot(a, DirOf[v]) => own'[s] = own[s]

(* get_empty_page makes the entry of v writable and keeps the counts. *)
LEMMA GetEmptyPage ==
  ASSUME IInv, NEW t \in Tasks, NEW v \in VA, get_empty_page(t, v)
  PROVE  Wrote(Cur(t), v)
<1> DEFINE s  == Pte(t, v)
           o0 == Cleared(own, {s})
           l2 == [p \in Pages |-> leaked[p] + CountIn(own, {s}, p)]
<1>1. TypeOK /\ Good(mem_map, own, leaked, wbit) /\ Cur(t) \in Spaces
  BY SpaceNames DEF IInv
<1>2. s \in Slots /\ s = PteSlot(Cur(t), v)
  BY <1>1, SlotTypes DEF Pte
<1>3. leaked' = l2
  BY DEF get_empty_page, Held, CountIn
<1>4. Good(mem_map, o0, l2, wbit)
  BY <1>1, <1>2, GoodLeak
<1>5. PICK p \in Pages : /\ get_free_page(mem_map, p)
                         /\ put_page_pgdir(Take(mem_map, p), own, Cur(t), v, p)
                         /\ data' = [data EXCEPT ![p] = 0]
  BY DEF get_empty_page
<1>6. mem_map[p] = 0 /\ own \in [Slots -> Pages \cup {0}]
  BY <1>1, <1>5 DEF get_free_page, TypeOK
<1>7. /\ Good(mem_map', own', l2, wbit')
      /\ wbit' = wbit \cup {PteSlot(Cur(t), v)} /\ xbit' \subseteq Slots
      /\ own'[PteSlot(Cur(t), v)] = p /\ own'[TabSlot(Cur(t), DirOf[v])] # 0
      /\ \A r \in Slots : r # PteSlot(Cur(t), v) /\ r # TabSlot(Cur(t), DirOf[v]) => own'[r] = own[r]
  <2> HIDE DEF l2
  <2> QED BY <1>1, <1>2, <1>4, <1>5, <1>6, PutPage, SMTT(30)
<1>8. data' \in [Pages -> Values]
  BY <1>1, <1>5, ConstantsOK DEF TypeOK
<1> QED BY <1>3, <1>7, <1>8, PagesNat DEF Wrote

(* un_wp_page makes the entry of v writable and keeps the counts. *)
LEMMA UnWpPage ==
  ASSUME IInv, NEW t \in Tasks, NEW v \in VA, own[Pte(t, v)] # 0, un_wp_page(t, v)
  PROVE  Wrote(Cur(t), v)
<1> DEFINE s   == Pte(t, v)
           old == own[s]
           m0  == [p \in Pages |-> mem_map[p] - CountIn(own, {s}, p)]
           o0  == Cleared(own, {s})
<1>1. /\ TypeOK /\ Good(mem_map, own, leaked, wbit) /\ Cur(t) \in Spaces
      /\ Tree
  BY SpaceNames DEF IInv, Shape
<1>2. s \in Slots /\ s = PteSlot(Cur(t), v) /\ old \in Pages
  BY <1>1, SlotTypes DEF Pte, TypeOK
<1>3. TabSlot(Cur(t), DirOf[v]) \in Slots /\ TabSlot(Cur(t), DirOf[v]) # s
  BY <1>1, <1>2, SlotTypes, SlotsDistinct, ConstantsOK, SMTT(30)
<1>4. own[TabSlot(Cur(t), DirOf[v])] # 0
  BY <1>1, <1>2 DEF Tree
<1>5. leaked' = leaked /\ wbit' = wbit \cup {s}
  BY DEF un_wp_page
<1>6. CASE mem_map[old] = 1 /\ UNCHANGED <<mem_map, own, xbit, data>>
  <2>1. Good(mem_map, own, leaked, wbit \cup {s})
    BY <1>1, <1>2, <1>6, GoodWritable
  <2> QED BY <1>1, <1>2, <1>4, <1>5, <1>6, <2>1 DEF Wrote, TypeOK
<1>7. ASSUME mem_map[old] # 1, NEW p \in Pages, get_free_page(mem_map, p),
             mem_map' = [Take(mem_map, p) EXCEPT ![old] = @ - 1],
             own' = [own EXCEPT ![s] = p], data' = [data EXCEPT ![p] = data[old]],
             xbit' = xbit \ {s}
      PROVE  Wrote(Cur(t), v)
  <2>1. Good(m0, o0, leaked, wbit)
    BY <1>1, <1>2, GoodDrop
  <2>2. mem_map[p] = 0 /\ old # p
    <3>1. mem_map[p] = 0
      BY <1>7 DEF get_free_page
    <3> QED BY <1>1, <1>2, <3>1, Unused, SMTT(30) DEF Good
  <2>3. \A x \in Pages : CountIn(own, {s}, x) = IF x = old THEN 1 ELSE 0
    BY CountOne
  <2>4. \A x \in Pages : m0[x] = IF x = old THEN mem_map[x] - 1 ELSE mem_map[x]
    <3> SUFFICES ASSUME NEW x \in Pages
                 PROVE  m0[x] = IF x = old THEN mem_map[x] - 1 ELSE mem_map[x]
      OBVIOUS
    <3>1. mem_map[x] \in Nat /\ m0[x] = mem_map[x] - CountIn(own, {s}, x)
      BY <1>1 DEF TypeOK
    <3> HIDE DEF m0, s
    <3> QED BY <2>3, <3>1, SMTT(30)
  <2>5. m0[p] = 0 /\ Take(m0, p) = mem_map'
    <3>1. m0 = [x \in Pages |-> IF x = old THEN mem_map[x] - 1 ELSE mem_map[x]]
      BY <2>4
    <3> HIDE DEF m0, old
    <3> QED BY <1>1, <1>2, <1>7, <2>2, <3>1 DEF TypeOK, Take
  <2>6. o0[s] = 0 /\ [o0 EXCEPT ![s] = p] = own'
    BY <1>1, <1>2, <1>7 DEF TypeOK, Cleared
  <2>7. Good(Take(m0, p), [o0 EXCEPT ![s] = p], leaked, wbit')
    <3> HIDE DEF m0, o0, s
    <3> QED BY <1>2, <1>5, <2>1, <2>5, <2>6, GoodGrab
  <2>8. own'[s] # 0 /\ \A r \in Slots : r # s => own'[r] = own[r]
    BY <1>1, <1>2, <1>7, PagesNat DEF TypeOK
  <2>9. xbit' \subseteq Slots /\ data' \in [Pages -> Values]
    BY <1>1, <1>2, <1>7 DEF TypeOK
  <2> QED BY <1>2, <1>3, <1>4, <1>5, <2>5, <2>6, <2>7, <2>8, <2>9 DEF Wrote
<1> QED BY <1>6, <1>7 DEF un_wp_page

(* So does either branch of the page fault and of verify_area. *)
LEMMA MadeWritable ==
  ASSUME IInv, NEW t \in Tasks, NEW v \in VA, MakeWritable(t, v)
  PROVE  Wrote(Cur(t), v)
BY GetEmptyPage, UnWpPage DEF MakeWritable, ReadOnly
(* A step that makes one entry of a user task writable keeps the invariant. *)
LEMMA WroteShape ==
  ASSUME IInv, fork.parent = 0, NEW t \in Tasks, NEW v \in VA, HasSpace(t), Wrote(Cur(t), v),
         UNCHANGED <<state, space, fork>>,
         \/ UNCHANGED <<kpc, buf>>
         \/ /\ kpc[t] \in {"user", "put"}
            /\ kpc' = [kpc EXCEPT ![t] = "put"]
            /\ buf' = [buf EXCEPT ![t] = @ \cup {v}]
  PROVE  IInv'
<1> DEFINE a   == Cur(t)
           pte == PteSlot(a, v)
           tab == TabSlot(a, DirOf[v])
<1>1. /\ TypeOK /\ Tree /\ TaskStates /\ WritableIsMapped /\ ArgsPending /\ ForkState
      /\ VerifiedStaysWritable /\ Good(mem_map, own, leaked, wbit)
  BY DEF IInv, Shape
<1>2. a \in Spaces /\ pte \in Slots /\ tab \in Slots /\ IsPte(pte) /\ DirOf[v] \in Dirs
  BY <1>1, SpaceNames, SlotTypes, ConstantsOK
<1>3. /\ \A s \in Slots : s # pte /\ s # tab => own'[s] = own[s]
      /\ own'[pte] # 0 /\ own'[tab] # 0 /\ wbit' = wbit \cup {pte}
  BY DEF Wrote
<1>4. /\ \A u \in Tasks : TaskSlot(u) \in Slots /\ own'[TaskSlot(u)] = own[TaskSlot(u)]
      /\ \A b \in Spaces : own'[DirSlot(b)] = own[DirSlot(b)]
      /\ \A b \in Spaces, d \in Dirs : own[TabSlot(b, d)] # 0 => own'[TabSlot(b, d)] # 0
      /\ \A b \in Spaces, d \in Dirs : b # a => own'[TabSlot(b, d)] = own[TabSlot(b, d)]
      /\ \A b \in Spaces, d \in Dirs : d # DirOf[v] => own'[TabSlot(b, d)] = own[TabSlot(b, d)]
      /\ \A b \in Spaces, u \in VA : u # v => own'[PteSlot(b, u)] = own[PteSlot(b, u)]
      /\ \A b \in Spaces, u \in VA : b # a => own'[PteSlot(b, u)] = own[PteSlot(b, u)]
      /\ \A b \in Spaces, u \in VA : own[PteSlot(b, u)] # 0 => own'[PteSlot(b, u)] # 0
      /\ \A u \in Tasks, w \in Args : own'[ArgSlot(u, w)] = own[ArgSlot(u, w)]
  <2> HIDE DEF a
  <2> QED BY <1>2, <1>3, SlotTypes, SlotsDistinct, SMTT(30)
<1>5. TypeOK'
  <2>1. mem_map' \in [Pages -> Nat] /\ own' \in [Slots -> Pages \cup {0}] /\ leaked' \in [Pages -> Nat]
    BY DEF Wrote, Good, Counted
  <2>2. wbit' \subseteq Slots /\ xbit' \subseteq Slots /\ data' \in [Pages -> Values]
    BY <1>1, <1>2 DEF Wrote, TypeOK
  <2>3. kpc' \in [Tasks -> {"user", "exec", "put"}] /\ buf' \in [Tasks -> SUBSET VA]
    BY <1>1, SMTT(30) DEF TypeOK
  <2> QED BY <1>1, <2>1, <2>2, <2>3 DEF TypeOK
<1>6. \A u \in Tasks : Cur(u)' = Cur(u) /\ New(u)' = New(u) /\ Cur(u) \in Spaces /\ New(u) \in Spaces
                       /\ New(u) # a /\ (Cur(u) = a => u = t)
  <2>1. \A u \in Tasks : Cur(u)' = Cur(u) /\ New(u)' = New(u)
    BY DEF Cur, New
  <2> QED BY <1>1, <2>1, SpaceNames
<1>7. own[DirSlot(a)] # 0 /\ state[t] = "run"
  BY DEF HasSpace
<1> HIDE DEF a
<1>8. Tree'
  BY <1>1, <1>2, <1>3, <1>4, <1>7, ConstantsOK, SMTT(30) DEF Tree
<1>9. TaskStates'
  BY <1>1, <1>4, <1>6, <1>7, SMTT(30) DEF TaskStates, TypeOK
<1>10. WritableIsMapped'
  BY <1>1, <1>2, <1>3, SlotTypes DEF WritableIsMapped, TypeOK
<1>11. ArgsPending'
  <2>1. Args \subseteq VA
    BY ConstantsOK
  <2> QED BY <1>1, <1>4, <1>6, <2>1, SMTT(30) DEF ArgsPending
<1>12. ForkState'
  BY <1>1 DEF ForkState
<1>13. VerifiedStaysWritable'
  <2>1. \A u \in Tasks : \A w \in buf[u] : w \in VA /\ own[PteSlot(Cur(u), w)] # 0 /\ PteSlot(Cur(u), w) \in wbit
    BY <1>1 DEF VerifiedStaysWritable, TypeOK, Pte
  <2>2. \A u \in Tasks : \A w \in buf'[u] : w \in buf[u] \/ (u = t /\ w = v)
    BY <1>1, SMTT(30) DEF TypeOK
  <2>3. \A u \in Tasks : \A w \in buf'[u] : own'[PteSlot(Cur(u), w)] # 0 /\ PteSlot(Cur(u), w) \in wbit'
    BY <1>3, <1>4, <1>6, <2>1, <2>2, SMTT(30) DEF a
  <2> QED BY <1>6, <2>3 DEF VerifiedStaysWritable, Pte
<1> QED BY <1>5, <1>8, <1>9, <1>10, <1>11, <1>12, <1>13 DEF IInv, Shape, Wrote

(* FreeAll keeps the counts right. *)
LEMMA Freed ==
  ASSUME IInv, NEW S \in SUBSET Slots, FreeAll(S), leaked' = leaked, wbit' \subseteq wbit
  PROVE  /\ Good(mem_map', own', leaked', wbit') /\ own' = Cleared(own, S)
         /\ mem_map' \in [Pages -> Nat] /\ own' \in [Slots -> Pages \cup {0}]
<1>1. own' = Cleared(own, S) /\ mem_map' = [p \in Pages |-> mem_map[p] - CountIn(own, S, p)]
  BY DEF FreeAll, Cleared, Held, CountIn
<1>2. Good(mem_map', own', leaked', wbit')
  BY <1>1, GoodDrop DEF IInv
<1> QED BY <1>1, <1>2 DEF Good, Counted

(* do_exit keeps the invariant. *)
LEMMA ExitInv ==
  ASSUME IInv, fork.parent = 0, NEW t \in Tasks, state[t] = "run", kpc[t] # "exec", do_exit(t)
  PROVE  IInv'
<1> DEFINE a == Cur(t)
<1>1. /\ TypeOK /\ Tree /\ TaskStates /\ WritableIsMapped /\ ArgsPending /\ ForkState
      /\ VerifiedStaysWritable
  BY DEF IInv, Shape
<1>2. a \in Spaces /\ SpaceSlots(a) \in SUBSET Slots
  BY <1>1, SpaceNames, InSpace
<1>3. /\ Good(mem_map', own', leaked', wbit') /\ own' = Cleared(own, SpaceSlots(a))
      /\ mem_map' \in [Pages -> Nat] /\ own' \in [Slots -> Pages \cup {0}]
  BY <1>2, Freed DEF do_exit
<1>4. TypeOK'
  BY <1>1, <1>3 DEF TypeOK, do_exit
<1>5. \A u \in Tasks : Cur(u)' = Cur(u) /\ New(u)' = New(u) /\ Cur(u) \in Spaces /\ New(u) \in Spaces
                       /\ New(u) # a /\ (Cur(u) = a => u = t)
  <2>1. \A u \in Tasks : Cur(u)' = Cur(u) /\ New(u)' = New(u)
    BY DEF Cur, New, do_exit
  <2> QED BY <1>1, <2>1, SpaceNames
<1>6. /\ \A u \in Tasks : own'[TaskSlot(u)] = own[TaskSlot(u)]
      /\ \A b \in Spaces : own'[DirSlot(b)] = IF b = a THEN 0 ELSE own[DirSlot(b)]
      /\ \A b \in Spaces, d \in Dirs : own'[TabSlot(b, d)] = IF b = a THEN 0 ELSE own[TabSlot(b, d)]
      /\ \A b \in Spaces, v \in VA : own'[PteSlot(b, v)] = IF b = a THEN 0 ELSE own[PteSlot(b, v)]
      /\ \A u \in Tasks, v \in Args : own'[ArgSlot(u, v)] = own[ArgSlot(u, v)]
  <2> HIDE DEF a
  <2> QED BY <1>2, <1>3, InSpace, SlotTypes DEF Cleared
<1>7. \A s \in wbit' : s \in wbit /\ IsPte(s) /\ s \in Slots /\ s \notin SpaceSlots(a) /\ own'[s] = own[s]
  <2>1. \A s \in wbit' : s \in wbit /\ s \notin PteSlots(a) /\ IsPte(s) /\ s \in Slots
    BY <1>1 DEF do_exit, WritableIsMapped, TypeOK
  <2> QED BY <1>2, <1>3, <2>1, InSpace DEF Cleared
<1> HIDE DEF a
<1>8. Tree'
  BY <1>1, <1>2, <1>6, ConstantsOK, SMTT(30) DEF Tree
<1>9. TaskStates'
  BY <1>1, <1>2, <1>5, <1>6, SMTT(30) DEF TaskStates, TypeOK, do_exit, a
<1>10. WritableIsMapped'
  BY <1>1, <1>7 DEF WritableIsMapped
<1>11. ArgsPending'
  <2>1. Args \subseteq VA
    BY ConstantsOK
  <2> QED BY <1>1, <1>5, <1>6, <2>1, SMTT(30) DEF ArgsPending
<1>12. ForkState'
  BY <1>1 DEF ForkState, do_exit, TypeOK
<1>13. VerifiedStaysWritable'
  <2>1. \A u \in Tasks : \A w \in buf'[u] : /\ u # t /\ w \in VA
                                        /\ own[PteSlot(Cur(u), w)] # 0 /\ PteSlot(Cur(u), w) \in wbit
    BY <1>1 DEF VerifiedStaysWritable, TypeOK, Pte, do_exit
  <2>2. \A u \in Tasks : \A w \in buf'[u] : own'[PteSlot(Cur(u), w)] # 0 /\ PteSlot(Cur(u), w) \notin PteSlots(a)
    BY <1>2, <1>5, <1>6, <2>1, InSpace, SMTT(30)
  <2>3. \A u \in Tasks : \A w \in buf'[u] : PteSlot(Cur(u), w) \in wbit'
    BY <2>1, <2>2 DEF do_exit, a
  <2> QED BY <1>5, <2>2, <2>3 DEF VerifiedStaysWritable, Pte
<1> QED BY <1>3, <1>4, <1>8, <1>9, <1>10, <1>11, <1>12, <1>13 DEF IInv, Shape

(* get_free_page into one empty slot. *)
LEMMA Grabbed ==
  ASSUME IInv, NEW s \in Slots, own[s] = 0, NEW p \in Pages, get_free_page(mem_map, p),
         mem_map' = Take(mem_map, p), own' = [own EXCEPT ![s] = p], UNCHANGED <<leaked, wbit>>
  PROVE  /\ Good(mem_map', own', leaked', wbit')
         /\ mem_map' \in [Pages -> Nat] /\ own' \in [Slots -> Pages \cup {0}]
         /\ own'[s] # 0 /\ \A r \in Slots : r # s => own'[r] = own[r]
<1>1. mem_map[p] = 0 /\ own \in [Slots -> Pages \cup {0}]
  BY DEF get_free_page, IInv, TypeOK
<1>2. Good(mem_map', own', leaked', wbit')
  BY <1>1, GoodGrab DEF IInv
<1> QED BY <1>1, <1>2, PagesNat DEF Good, Counted

-----------------------------------------------------------------------------
(* One lemma per action. *)

(* kernel_thread keeps the invariant. *)
LEMMA KernelThreadInv ==
  ASSUME IInv, fork.parent = 0, NEW t \in Tasks, kernel_thread(t)
  PROVE  IInv'
<1>1. /\ TypeOK /\ Tree /\ TaskStates /\ WritableIsMapped /\ ArgsPending /\ ForkState
      /\ VerifiedStaysWritable
  BY DEF IInv, Shape
<1>2. TaskSlot(t) \in Slots /\ own[TaskSlot(t)] = 0 /\ state[t] = "none"
  BY <1>1, SlotTypes DEF kernel_thread, FirstEmptyTask, TaskStates
<1>3. PICK p \in Pages : /\ get_free_page(mem_map, p)
                         /\ mem_map' = Take(mem_map, p)
                         /\ own'  = [own EXCEPT ![TaskSlot(t)] = p]
                         /\ data' = [data EXCEPT ![p] = 0]
  BY DEF kernel_thread
<1>4. /\ Good(mem_map', own', leaked', wbit')
      /\ mem_map' \in [Pages -> Nat] /\ own' \in [Slots -> Pages \cup {0}]
      /\ own'[TaskSlot(t)] # 0 /\ \A r \in Slots : r # TaskSlot(t) => own'[r] = own[r]
  BY <1>2, <1>3, Grabbed DEF kernel_thread
<1>5. TypeOK'
  BY <1>1, <1>3, <1>4, ConstantsOK DEF TypeOK, kernel_thread
<1>6. /\ \A u \in Tasks : u # t => own'[TaskSlot(u)] = own[TaskSlot(u)]
      /\ \A b \in Spaces : own'[DirSlot(b)] = own[DirSlot(b)]
      /\ \A b \in Spaces, d \in Dirs : own'[TabSlot(b, d)] = own[TabSlot(b, d)]
      /\ \A b \in Spaces, v \in VA : own'[PteSlot(b, v)] = own[PteSlot(b, v)]
      /\ \A u \in Tasks, v \in Args : own'[ArgSlot(u, v)] = own[ArgSlot(u, v)]
  BY <1>4, SlotTypes, SlotsDistinct
<1>7. \A u \in Tasks : Cur(u)' = Cur(u) /\ New(u)' = New(u) /\ Cur(u) \in Spaces /\ New(u) \in Spaces
  <2>1. \A u \in Tasks : Cur(u)' = Cur(u) /\ New(u)' = New(u)
    BY DEF Cur, New, kernel_thread
  <2> QED BY <1>1, <2>1, SpaceNames
<1>8. Tree'
  BY <1>1, <1>6, ConstantsOK, SMTT(30) DEF Tree
<1>9. TaskStates'
  BY <1>1, <1>2, <1>4, <1>6, <1>7, SMTT(30) DEF TaskStates, TypeOK, kernel_thread
<1>10. WritableIsMapped'
  BY <1>1, <1>4, SlotTypes DEF WritableIsMapped, TypeOK, kernel_thread
<1>11. ArgsPending'
  <2>1. Args \subseteq VA
    BY ConstantsOK
  <2> QED BY <1>1, <1>6, <1>7, <2>1, SMTT(30) DEF ArgsPending
<1>12. ForkState'
  BY <1>1 DEF ForkState, kernel_thread, TypeOK
<1>13. VerifiedStaysWritable'
  BY <1>1, <1>6, <1>7, SMTT(30) DEF VerifiedStaysWritable, TypeOK, Pte, kernel_thread
<1> QED BY <1>4, <1>5, <1>8, <1>9, <1>10, <1>11, <1>12, <1>13 DEF IInv, Shape

(* release keeps the invariant. *)
LEMMA ReleaseInv ==
  ASSUME IInv, fork.parent = 0, NEW t \in Tasks, release(t)
  PROVE  IInv'
<1>1. /\ TypeOK /\ Tree /\ TaskStates /\ WritableIsMapped /\ ArgsPending /\ ForkState
      /\ VerifiedStaysWritable
  BY DEF IInv, Shape
<1>2. {TaskSlot(t)} \in SUBSET Slots
  BY SlotTypes
<1>3. /\ Good(mem_map', own', leaked', wbit') /\ own' = Cleared(own, {TaskSlot(t)})
      /\ mem_map' \in [Pages -> Nat] /\ own' \in [Slots -> Pages \cup {0}]
  BY <1>2, Freed DEF release
<1>4. TypeOK'
  BY <1>1, <1>3 DEF TypeOK, release
<1>5. /\ \A u \in Tasks : own'[TaskSlot(u)] = IF u = t THEN 0 ELSE own[TaskSlot(u)]
      /\ \A b \in Spaces : own'[DirSlot(b)] = own[DirSlot(b)]
      /\ \A b \in Spaces, d \in Dirs : own'[TabSlot(b, d)] = own[TabSlot(b, d)]
      /\ \A b \in Spaces, v \in VA : own'[PteSlot(b, v)] = own[PteSlot(b, v)]
      /\ \A u \in Tasks, v \in Args : own'[ArgSlot(u, v)] = own[ArgSlot(u, v)]
  BY <1>3, SlotTypes, SlotsDistinct DEF Cleared
<1>6. \A u \in Tasks : Cur(u)' = Cur(u) /\ New(u)' = New(u) /\ Cur(u) \in Spaces /\ New(u) \in Spaces
  <2>1. \A u \in Tasks : Cur(u)' = Cur(u) /\ New(u)' = New(u)
    BY DEF Cur, New, release
  <2> QED BY <1>1, <2>1, SpaceNames
<1>7. Tree'
  BY <1>1, <1>5, ConstantsOK, SMTT(30) DEF Tree
<1>8. TaskStates'
  BY <1>1, <1>5, <1>6, SMTT(30) DEF TaskStates, TypeOK, release
<1>9. WritableIsMapped'
  BY <1>1, <1>3, SlotTypes DEF WritableIsMapped, TypeOK, release, Cleared
<1>10. ArgsPending'
  <2>1. Args \subseteq VA
    BY ConstantsOK
  <2> QED BY <1>1, <1>5, <1>6, <2>1, SMTT(30) DEF ArgsPending
<1>11. ForkState'
  BY <1>1 DEF ForkState, release, TypeOK
<1>12. VerifiedStaysWritable'
  BY <1>1, <1>5, <1>6, SMTT(30) DEF VerifiedStaysWritable, TypeOK, Pte, release
<1> QED BY <1>3, <1>4, <1>7, <1>8, <1>9, <1>10, <1>11, <1>12 DEF IInv, Shape

(* The actions that move no page. *)
LEMMA StoreInv ==
  ASSUME IInv, NEW t \in Tasks, NEW v \in VA, NEW x \in Values, put_fs(t, v, x)
  PROVE  IInv'
<1>1. UNCHANGED <<mem_map, own, wbit, xbit, state, space, kpc, buf, fork, leaked>>
  BY DEF put_fs
<1>2. data' \in [Pages -> Values]
  BY DEF put_fs, IInv, TypeOK
<1>3. TypeOK'
  BY <1>1, <1>2 DEF IInv, TypeOK
<1>4. Good(mem_map, own, leaked, wbit)'
  BY <1>1 DEF IInv
<1>5. Tree' /\ TaskStates' /\ WritableIsMapped' /\ ArgsPending' /\ ForkState'
  BY <1>1, SMTT(30) DEF IInv, Shape, Tree, TaskStates, WritableIsMapped, ArgsPending, ForkState, Cur, New
<1>6. VerifiedStaysWritable'
  BY <1>1 DEF IInv, Shape, VerifiedStaysWritable, Pte, Cur
<1> QED BY <1>3, <1>4, <1>5, <1>6 DEF IInv, Shape

(* The start of execve and the return of a system call keep the invariant. *)
LEMMA KpcInv ==
  ASSUME IInv, fork.parent = 0, NEW t \in Tasks, SysReturn(t) \/ do_execve(t)
  PROVE  IInv'
<1>1. UNCHANGED <<mem_map, own, wbit, xbit, state, space, fork, leaked>>
  BY DEF SysReturn, do_execve
<1>2. TypeOK'
  BY DEF IInv, TypeOK, SysReturn, do_execve
<1>3. Good(mem_map, own, leaked, wbit)'
  BY <1>1 DEF IInv
<1>4. Tree' /\ WritableIsMapped' /\ ArgsPending' /\ ForkState'
  BY <1>1 DEF IInv, Shape, Tree, WritableIsMapped, ArgsPending, ForkState, Cur, New
<1>5. TaskStates'
  BY <1>1, SMTT(30) DEF IInv, TypeOK, Shape, TaskStates, SysReturn, do_execve, Cur, New
<1>6. VerifiedStaysWritable'
  BY <1>1, SMTT(30) DEF IInv, TypeOK, Shape, VerifiedStaysWritable, SysReturn, do_execve, Pte, Cur
<1> QED BY <1>2, <1>3, <1>4, <1>5, <1>6 DEF IInv, Shape

(* page_fault_handler keeps the invariant. *)
LEMMA PageFaultInv ==
  ASSUME IInv, fork.parent = 0, NEW t \in Tasks, NEW v \in VA, page_fault_handler(t, v)
  PROVE  IInv'
<1>1. HasSpace(t) /\ state[t] = "run" /\ kpc[t] # "exec"
  BY DEF page_fault_handler, InUser, HasSpace
<1>2. CASE MakeWritable(t, v) /\ UNCHANGED <<state, space, kpc, buf, fork>>
  BY <1>1, <1>2, MadeWritable, WroteShape
<1>3. CASE do_exit(t)
  BY <1>1, <1>3, ExitInv
<1> QED BY <1>2, <1>3 DEF page_fault_handler

(* verify_area keeps the invariant. *)
LEMMA VerifyAreaInv ==
  ASSUME IInv, fork.parent = 0, NEW t \in Tasks, NEW v \in VA, verify_area(t, v)
  PROVE  IInv'
<1>1. HasSpace(t) /\ state[t] = "run" /\ kpc[t] # "exec" /\ kpc[t] \in {"user", "put"}
  BY DEF verify_area, HasSpace
<1>2. CASE /\ own[Pte(t, v)] # 0 /\ Pte(t, v) \in wbit
           /\ UNCHANGED <<mem_map, own, wbit, xbit, data, leaked>>
           /\ kpc' = [kpc EXCEPT ![t] = "put"]
           /\ buf' = [buf EXCEPT ![t] = @ \cup {v}]
           /\ UNCHANGED <<state, space, fork>>
  <2>1. own[TabSlot(Cur(t), DirOf[v])] # 0
    BY <1>2, SpaceNames DEF IInv, Shape, Tree, Pte
  <2>2. Wrote(Cur(t), v)
    BY <1>2, <2>1, SMTT(30) DEF Wrote, IInv, TypeOK, Pte
  <2> QED BY <1>1, <1>2, <2>2, WroteShape
<1>3. CASE /\ MakeWritable(t, v)
           /\ kpc' = [kpc EXCEPT ![t] = "put"]
           /\ buf' = [buf EXCEPT ![t] = @ \cup {v}]
           /\ UNCHANGED <<state, space, fork>>
  BY <1>1, <1>3, MadeWritable, WroteShape
<1>4. CASE do_exit(t)
  BY <1>1, <1>4, ExitInv
<1> QED BY <1>2, <1>3, <1>4 DEF verify_area

(* copy_process up to copy_page_tables keeps the invariant. *)
LEMMA SysForkInv ==
  ASSUME IInv, fork.parent = 0, NEW t \in Tasks, NEW c \in Tasks, sys_fork(t, c)
  PROVE  IInv'
<1> DEFINE a == Cur(c)
           ts == TaskSlot(c)
           ds == DirSlot(a)
<1>1. /\ TypeOK /\ Tree /\ TaskStates /\ WritableIsMapped /\ ArgsPending /\ ForkState
      /\ VerifiedStaysWritable /\ Good(mem_map, own, leaked, wbit)
  BY DEF IInv, Shape
<1>2. /\ a \in Spaces /\ ts \in Slots /\ ds \in Slots /\ ts # ds
      /\ own[ts] = 0 /\ state[c] = "none" /\ own[ds] = 0
      /\ state[t] = "run" /\ kpc[t] = "user" /\ t # c
  <2>1. a \in Spaces
    BY <1>1, SpaceNames
  <2>2. ts \in Slots /\ ds \in Slots /\ ts # ds
    BY <2>1, SlotTypes, SlotsDistinct
  <2>3. own[ts] = 0 /\ state[c] = "none" /\ own[ds] = 0
    BY <1>1 DEF sys_fork, FirstEmptyTask, TaskStates
  <2> QED BY <2>1, <2>2, <2>3 DEF sys_fork, InUser, HasSpace
<1>3. PICK p, q \in Pages :
         /\ get_free_page(mem_map, p)
         /\ get_free_page(Take(mem_map, p), q)
         /\ mem_map' = Take(Take(mem_map, p), q)
         /\ own'  = [own EXCEPT ![ts] = p, ![ds] = q]
         /\ data' = [data EXCEPT ![p] = 0, ![q] = 0]
  BY DEF sys_fork
<1>4. leaked' = leaked /\ wbit' = wbit
  BY DEF sys_fork
<1>5. Good(mem_map', own', leaked', wbit')
  <2> DEFINE m1 == Take(mem_map, p)
             o1 == [own EXCEPT ![ts] = p]
  <2>1. mem_map[p] = 0 /\ m1[q] = 0
    BY <1>3 DEF get_free_page
  <2>2. Good(m1, o1, leaked, wbit)
    BY <1>1, <1>2, <2>1, GoodGrab
  <2>3. o1[ds] = 0 /\ own' = [o1 EXCEPT ![ds] = q]
    BY <1>1, <1>2, <1>3 DEF TypeOK
  <2>4. Good(Take(m1, q), [o1 EXCEPT ![ds] = q], leaked, wbit)
    <3> HIDE DEF m1, o1, ds
    <3> QED BY <1>2, <2>1, <2>2, <2>3, GoodGrab
  <2> QED BY <1>3, <1>4, <2>3, <2>4
<1>6. /\ own'[ts] # 0 /\ own'[ds] # 0
      /\ \A s \in Slots : s # ts /\ s # ds => own'[s] = own[s]
  BY <1>1, <1>2, <1>3, PagesNat DEF TypeOK
<1>7. TypeOK'
  <2>1. mem_map' \in [Pages -> Nat] /\ own' \in [Slots -> Pages \cup {0}]
    BY <1>5 DEF Good, Counted
  <2>2. data' \in [Pages -> Values]
    BY <1>1, <1>3, ConstantsOK DEF TypeOK
  <2>3. /\ UNCHANGED <<wbit, xbit, space, kpc, buf, leaked>>
        /\ state' \in [Tasks -> {"none", "new", "run", "zombie"}]
        /\ fork' \in [parent : Tasks \cup {0}, child : Tasks \cup {0}, todo : SUBSET Dirs]
    BY <1>1 DEF TypeOK, sys_fork
  <2> QED BY <1>1, <2>1, <2>2, <2>3 DEF TypeOK
<1>8. /\ \A u \in Tasks : u # c => own'[TaskSlot(u)] = own[TaskSlot(u)]
      /\ \A b \in Spaces : b # a => own'[DirSlot(b)] = own[DirSlot(b)]
      /\ \A b \in Spaces, d \in Dirs : own'[TabSlot(b, d)] = own[TabSlot(b, d)]
      /\ \A b \in Spaces, v \in VA : own'[PteSlot(b, v)] = own[PteSlot(b, v)]
      /\ \A u \in Tasks, v \in Args : own'[ArgSlot(u, v)] = own[ArgSlot(u, v)]
  <2> HIDE DEF a
  <2> QED BY <1>2, <1>6, SlotTypes, SlotsDistinct, SMTT(30)
<1>9. \A u \in Tasks : Cur(u)' = Cur(u) /\ New(u)' = New(u) /\ Cur(u) \in Spaces /\ New(u) \in Spaces
                       /\ New(u) # a /\ (Cur(u) = a => u = c)
  <2>1. \A u \in Tasks : Cur(u)' = Cur(u) /\ New(u)' = New(u)
    BY DEF Cur, New, sys_fork
  <2> QED BY <1>1, <2>1, SpaceNames
<1>10. Tree'
  <2> HIDE DEF a
  <2> QED BY <1>1, <1>2, <1>6, <1>8, ConstantsOK, SMTT(30) DEF Tree
<1>11. TaskStates'
  <2>1. \A u \in Tasks : /\ state'[u] = IF u = c THEN "new" ELSE state[u]
                         /\ kpc'[u] = kpc[u] /\ buf'[u] = buf[u]
    BY <1>1 DEF TypeOK, sys_fork
  <2> QED BY <1>1, <1>2, <1>6, <1>8, <1>9, <2>1, SMTT(30) DEF TaskStates
<1>12. WritableIsMapped'
  BY <1>1, <1>2, <1>4, <1>6, SlotTypes DEF WritableIsMapped, TypeOK
<1>13. ArgsPending'
  <2>1. Args \subseteq VA
    BY ConstantsOK
  <2> QED BY <1>1, <1>8, <1>9, <2>1, SMTT(30) DEF ArgsPending
<1>14. ForkState'
  <2>1. /\ fork'.parent = t /\ fork'.child = c /\ fork'.todo \subseteq Dirs
        /\ \A u \in Tasks : state'[u] = IF u = c THEN "new" ELSE state[u]
        /\ kpc' = kpc
    BY <1>1 DEF TypeOK, sys_fork
  <2>2. \A d \in Dirs : own[TabSlot(a, d)] = 0
    BY <1>1, <1>2 DEF Tree
  <2>3. \A v \in VA : own[PteSlot(a, v)] = 0
    BY <1>1, <1>2, <2>2, ConstantsOK DEF Tree
  <2>4. \A v \in VA : PteSlot(a, v) \notin wbit
    BY <1>1, <2>3 DEF WritableIsMapped
  <2>5. t # 0 /\ \A u \in Tasks : state[u] # "new"
    BY <1>1, SMTT(30) DEF ForkState, Tasks
  <2> HIDE DEF a
  <2>6. Cur(c)' = a
    BY <1>9 DEF a
  <2> QED BY <1>2, <1>4, <1>6, <1>8, <2>1, <2>2, <2>4, <2>5, <2>6, SMTT(30) DEF ForkState
<1>15. VerifiedStaysWritable'
  BY <1>1, <1>4, <1>8, <1>9, SMTT(30) DEF VerifiedStaysWritable, TypeOK, Pte, sys_fork
<1> QED BY <1>5, <1>7, <1>10, <1>11, <1>12, <1>13, <1>14, <1>15 DEF IInv, Shape

(* The end of a successful fork keeps the invariant. *)
LEMMA ForkReturnsInv ==
  ASSUME IInv, fork.parent # 0, ForkReturns
  PROVE  IInv'
<1>1. /\ TypeOK /\ Tree /\ TaskStates /\ WritableIsMapped /\ ArgsPending /\ ForkState
      /\ VerifiedStaysWritable
  BY DEF IInv, Shape
<1>2. UNCHANGED <<mem_map, own, wbit, xbit, data, space, kpc, buf, leaked>>
  BY DEF ForkReturns
<1>3. fork.child \in Tasks /\ \A u \in Tasks : state[u] = "new" <=> u = fork.child
  BY <1>1 DEF ForkState
<1>4. \A u \in Tasks : state'[u] = IF u = fork.child THEN "run" ELSE state[u]
  BY <1>1, <1>3 DEF ForkReturns, TypeOK
<1>5. TypeOK'
  BY <1>1, <1>2, <1>3 DEF ForkReturns, TypeOK, NoFork
<1>6. Tree' /\ WritableIsMapped' /\ ArgsPending'
  BY <1>1, <1>2 DEF Tree, WritableIsMapped, ArgsPending, Cur, New
<1>7. TaskStates'
  BY <1>1, <1>2, <1>3, <1>4, SMTT(30) DEF TaskStates, Cur, New
<1>8. ForkState'
  BY <1>3, <1>4, SMTT(30) DEF ForkState, ForkReturns, NoFork
<1>9. VerifiedStaysWritable'
  BY <1>1, <1>2 DEF VerifiedStaysWritable, Pte, Cur
<1>10. Good(mem_map, own, leaked, wbit)'
  BY <1>2 DEF IInv
<1> QED BY <1>5, <1>6, <1>7, <1>8, <1>9, <1>10 DEF IInv, Shape

(* One round of copy_page_tables keeps the invariant. *)
LEMMA CopyPageTablesInv ==
  ASSUME IInv, fork.parent # 0, NEW d \in Dirs, copy_page_tables(d)
  PROVE  IInv'
<1> DEFINE from == Cur(fork.parent)
           to   == Cur(fork.child)
           tab  == TabSlot(to, d)
           vs   == {v \in VA : DirOf[v] = d /\ own[PteSlot(from, v)] # 0}
<1>1. /\ TypeOK /\ Tree /\ TaskStates /\ WritableIsMapped /\ ArgsPending /\ ForkState
      /\ VerifiedStaysWritable /\ Good(mem_map, own, leaked, wbit)
  BY DEF IInv, Shape
<1>2. /\ d \in fork.todo /\ fork.child \in Tasks /\ fork.parent \in Tasks
      /\ fork.parent # fork.child /\ state[fork.parent] = "run" /\ kpc[fork.parent] = "user"
      /\ own[tab] = 0 /\ own[DirSlot(to)] # 0
      /\ \A v \in VA : PteSlot(to, v) \notin wbit
  BY <1>1 DEF ForkState, copy_page_tables, NextDir
<1>3. /\ from \in Spaces /\ to \in Spaces /\ from # to /\ tab \in Slots /\ ~IsPte(tab)
      /\ \A v \in VA : /\ PteSlot(from, v) \in Slots /\ PteSlot(to, v) \in Slots
                       /\ PteSlot(from, v) # tab /\ PteSlot(to, v) # tab
  <2>1. from \in Spaces /\ to \in Spaces /\ from # to
    BY <1>1, <1>2, SpaceNames
  <2> HIDE DEF from, to
  <2> QED BY <2>1, SlotTypes, SlotsDistinct
<1>4. \A v \in VA : DirOf[v] = d => own[PteSlot(to, v)] = 0
  BY <1>1, <1>2, <1>3 DEF Tree
<1>5. PICK q \in Pages :
         /\ get_free_page(mem_map, q)
         /\ mem_map' = [p \in Pages |->
               Take(mem_map, q)[p] + Cardinality({v \in vs : own[PteSlot(from, v)] = p})]
         /\ own' = [s \in Slots |->
               IF s = tab THEN q
               ELSE IF s \in {PteSlot(to, v) : v \in vs} THEN own[PteSlot(from, VaOf(s))]
               ELSE own[s]]
         /\ data' = [data EXCEPT ![q] = 0]
  BY DEF copy_page_tables
<1>6. /\ wbit' = wbit \ {PteSlot(from, v) : v \in vs}
      /\ UNCHANGED <<state, space, kpc, buf, leaked>>
      /\ fork' = [fork EXCEPT !.todo = @ \ {d}]
      /\ xbit' \subseteq xbit \cup {PteSlot(to, v) : v \in VA}
  BY DEF copy_page_tables
<1>7. Good(mem_map', own', leaked', wbit')
  <2> DEFINE m1 == Take(mem_map, q)
             o1 == [own EXCEPT ![tab] = q]
  <2>1. Good(m1, o1, leaked, wbit)
    <3>1. mem_map[q] = 0
      BY <1>5 DEF get_free_page
    <3> QED BY <1>1, <1>2, <1>3, <3>1, GoodGrab
  <2>2. \A v \in vs : /\ o1[PteSlot(from, v)] = own[PteSlot(from, v)]
                      /\ o1[PteSlot(from, v)] # 0 /\ o1[PteSlot(to, v)] = 0
    BY <1>1, <1>3, <1>4 DEF TypeOK
  <2>3. /\ wbit' \subseteq wbit
        /\ \A v \in vs : PteSlot(from, v) \notin wbit' /\ PteSlot(to, v) \notin wbit'
    BY <1>2, <1>6
  <2>4. mem_map' = SharedCount(m1, o1, from, vs)
    <3>1. \A p : {v \in vs : o1[PteSlot(from, v)] = p} = {v \in vs : own[PteSlot(from, v)] = p}
      BY <2>2
    <3> QED BY <1>5, <3>1 DEF SharedCount
  <2>5. own' = Shared(o1, from, to, vs)
    <3>1. \A v \in vs : VaOf(PteSlot(to, v)) = v
      BY <1>3, SlotTypes
    <3>2. \A s \in {PteSlot(to, v) : v \in vs} :
             o1[PteSlot(from, VaOf(s))] = own[PteSlot(from, VaOf(s))] /\ s # tab
      BY <1>3, <2>2, <3>1
    <3>3. \A s \in Slots : o1[s] = IF s = tab THEN q ELSE own[s]
      BY <1>1, <1>3 DEF TypeOK
    <3> HIDE DEF o1, vs, from, to, tab
    <3> QED BY <1>5, <3>2, <3>3 DEF Shared
  <2>6. vs \in SUBSET VA
    OBVIOUS
  <2> HIDE DEF m1, o1, vs, from, to, tab
  <2>7. Good(SharedCount(m1, o1, from, vs), Shared(o1, from, to, vs), leaked, wbit')
    <3>1. \A v \in vs : o1[PteSlot(from, v)] # 0 /\ o1[PteSlot(to, v)] = 0
      BY <2>2
    <3>2. from \in Spaces /\ to \in Spaces /\ from # to
      BY <1>3
    <3> QED BY <2>1, <2>3, <2>6, <3>1, <3>2, GoodShare
  <2> QED BY <1>6, <2>4, <2>5, <2>7
<1>8. TypeOK'
  <2>1. mem_map' \in [Pages -> Nat] /\ own' \in [Slots -> Pages \cup {0}]
    BY <1>7 DEF Good, Counted
  <2>2. data' \in [Pages -> Values]
    BY <1>1, <1>5, ConstantsOK DEF TypeOK
  <2>3. xbit' \subseteq Slots /\ wbit' \subseteq Slots
    BY <1>1, <1>3, <1>6, SMTT(30) DEF TypeOK
  <2>4. fork' \in [parent : Tasks \cup {0}, child : Tasks \cup {0}, todo : SUBSET Dirs]
    BY <1>1, <1>6 DEF TypeOK
  <2> QED BY <1>1, <1>6, <2>1, <2>2, <2>3, <2>4 DEF TypeOK
<1>9. /\ \A u \in Tasks : own'[TaskSlot(u)] = own[TaskSlot(u)]
      /\ \A b \in Spaces : own'[DirSlot(b)] = own[DirSlot(b)]
      /\ own'[tab] # 0
      /\ \A b \in Spaces, e \in Dirs : b # to \/ e # d => own'[TabSlot(b, e)] = own[TabSlot(b, e)]
      /\ \A b \in Spaces, v \in VA : b # to \/ DirOf[v] # d => own'[PteSlot(b, v)] = own[PteSlot(b, v)]
      /\ \A u \in Tasks, v \in Args : own'[ArgSlot(u, v)] = own[ArgSlot(u, v)]
  <2>1. \A v \in vs : v \in VA /\ DirOf[v] = d
    OBVIOUS
  <2>2. /\ own'[tab] = q
        /\ \A s \in Slots : s # tab /\ s \notin {PteSlot(to, v) : v \in vs} => own'[s] = own[s]
    BY <1>3, <1>5
  <2>3. \A v \in vs : TRUE => PteSlot(to, v) \in Slots
    BY <1>3
  <2> HIDE DEF vs, to, from
  <2> QED BY <1>3, <2>1, <2>2, PagesNat, SlotTypes, SlotsDistinct, SMTT(30)
<1>10. \A u \in Tasks : Cur(u)' = Cur(u) /\ New(u)' = New(u) /\ Cur(u) \in Spaces /\ New(u) \in Spaces
                        /\ New(u) # to /\ New(u) # from /\ (Cur(u) = to => u = fork.child)
                        /\ (Cur(u) = from => u = fork.parent)
  <2>1. \A u \in Tasks : Cur(u)' = Cur(u) /\ New(u)' = New(u)
    BY <1>6 DEF Cur, New
  <2> QED BY <1>1, <1>2, <2>1, SpaceNames
<1>11. Tree'
  <2> HIDE DEF from, to, vs
  <2> QED BY <1>1, <1>2, <1>3, <1>9, ConstantsOK, SMTT(30) DEF Tree
<1>12. TaskStates'
  <2> HIDE DEF from, to, vs
  <2> QED BY <1>1, <1>6, <1>9, <1>10, SMTT(30) DEF TaskStates
<1>13. WritableIsMapped'
  <2>1. \A s \in wbit' : s \in Slots /\ IsPte(s) /\ own[s] # 0 /\ s # tab /\ s \notin {PteSlot(to, v) : v \in vs}
    BY <1>1, <1>2, <1>3, <1>6, SMTT(30) DEF WritableIsMapped, TypeOK
  <2>2. \A s \in wbit' : own'[s] = own[s]
    BY <1>5, <2>1
  <2> QED BY <2>1, <2>2 DEF WritableIsMapped
<1>14. ArgsPending'
  <2>1. Args \subseteq VA
    BY ConstantsOK
  <2> HIDE DEF from, to, vs
  <2> QED BY <1>1, <1>9, <1>10, <2>1, SMTT(30) DEF ArgsPending
<1>15. ForkState'
  <2>1. /\ fork'.parent = fork.parent /\ fork'.child = fork.child /\ fork'.todo = fork.todo \ {d}
        /\ fork.todo \subseteq Dirs
    BY <1>1, <1>6 DEF TypeOK
  <2>2. Cur(fork.child)' = to
    BY <1>2, <1>6, <2>1 DEF Cur
  <2>3. \A e \in fork'.todo : own'[TabSlot(to, e)] = 0
    BY <1>1, <1>3, <1>9, <2>1 DEF ForkState
  <2>4. own'[DirSlot(to)] # 0 /\ \A v \in VA : PteSlot(to, v) \notin wbit'
    BY <1>2, <1>3, <1>6, <1>9
  <2> HIDE DEF from, to, vs
  <2> QED BY <1>1, <1>2, <1>6, <2>1, <2>2, <2>3, <2>4 DEF ForkState
<1>16. VerifiedStaysWritable'
  <2>1. \A u \in Tasks : \A w \in buf[u] : /\ w \in VA /\ u # fork.parent /\ u # fork.child
                                           /\ own[PteSlot(Cur(u), w)] # 0 /\ PteSlot(Cur(u), w) \in wbit
    <3>1. \A u \in Tasks : \A w \in buf[u] : w \in VA /\ own[PteSlot(Cur(u), w)] # 0 /\ PteSlot(Cur(u), w) \in wbit
      BY <1>1 DEF VerifiedStaysWritable, TypeOK, Pte
    <3>2. buf[fork.parent] = {} /\ buf[fork.child] = {}
      BY <1>1, <1>2 DEF TaskStates, ForkState
    <3> QED BY <3>1, <3>2
  <2>2. \A u \in Tasks : \A w \in buf[u] :
           PteSlot(Cur(u), w) \notin {PteSlot(from, v) : v \in vs} /\ own'[PteSlot(Cur(u), w)] # 0
    <3>1. \A v \in vs : v \in VA
      OBVIOUS
    <3> HIDE DEF from, to, vs
    <3> QED BY <1>3, <1>9, <1>10, <2>1, <3>1, SlotsDistinct, SMTT(30)
  <2> QED BY <1>6, <1>10, <2>1, <2>2 DEF VerifiedStaysWritable, Pte
<1> QED BY <1>7, <1>8, <1>11, <1>12, <1>13, <1>14, <1>15, <1>16 DEF IInv, Shape

(* A fork that runs out of pages keeps the invariant, leaks counted. *)
LEMMA ForkFailsInv ==
  ASSUME IInv, fork.parent # 0, ForkFails
  PROVE  IInv'
<1>0. PICK c \in Tasks : c = fork.child
  BY DEF IInv, Shape, ForkState
<1> DEFINE a    == Cur(c)
           lost == TabSlots(a) \cup PteSlots(a)
           kept == {TaskSlot(c), DirSlot(a)}
<1>1. /\ TypeOK /\ Tree /\ TaskStates /\ WritableIsMapped /\ ArgsPending /\ ForkState
      /\ VerifiedStaysWritable /\ Good(mem_map, own, leaked, wbit)
  BY DEF IInv, Shape
<1>2. /\ c \in Tasks /\ state[c] = "new" /\ \A v \in VA : PteSlot(a, v) \notin wbit
      /\ \A u \in Tasks : state[u] = "new" <=> u = c
  BY <1>0, <1>1 DEF ForkState
<1>3. a \in Spaces
  BY <1>1, <1>2, SpaceNames
<1>4. /\ mem_map' = [p \in Pages |-> mem_map[p] - CountIn(own, kept, p)]
      /\ leaked'  = [p \in Pages |-> leaked[p] + CountIn(own, lost, p)]
      /\ own'     = Cleared(own, kept \cup lost)
      /\ xbit' \subseteq xbit
      /\ state'   = [state EXCEPT ![c] = "none"]
      /\ fork'    = NoFork
      /\ UNCHANGED <<wbit, data, space, kpc, buf>>
  BY <1>0 DEF ForkFails, Held, CountIn, Cleared
<1>5. kept \in SUBSET Slots /\ lost \in SUBSET Slots /\ kept \cap lost = {}
      /\ kept \cup lost = {TaskSlot(c)} \cup SpaceSlots(a)
  <2> HIDE DEF a
  <2>1. kept \in SUBSET Slots /\ lost \in SUBSET Slots
    BY <1>2, <1>3, SlotTypes, InSpace, SMTT(30)
  <2>2. kept \cap lost = {}
    BY SlotsDistinct, SMTT(30) DEF TabSlots, PteSlots
  <2>3. kept \cup lost = {TaskSlot(c)} \cup SpaceSlots(a)
    BY DEF SpaceSlots
  <2> QED BY <2>1, <2>2, <2>3
<1>6. Good(mem_map', own', leaked', wbit')
  <2> DEFINE m1 == [p \in Pages |-> mem_map[p] - CountIn(own, kept, p)]
             o1 == Cleared(own, kept)
  <2> HIDE DEF kept, lost
  <2>1. Good(m1, o1, leaked, wbit)
    BY <1>1, <1>5, GoodDrop
  <2>2. Good(m1, Cleared(o1, lost), [p \in Pages |-> leaked[p] + CountIn(o1, lost, p)], wbit)
    <3> HIDE DEF m1, o1
    <3> QED BY <1>5, <2>1, GoodLeak, SMTT(30)
  <2>3. Cleared(o1, lost) = own'
    BY <1>4 DEF Cleared
  <2>4. \A p : CountIn(o1, lost, p) = CountIn(own, lost, p)
    <3>1. \A p : {s \in lost : o1[s] = p} = {s \in lost : own[s] = p}
      BY <1>5 DEF Cleared
    <3> QED BY <3>1 DEF CountIn
  <2>5. [p \in Pages |-> leaked[p] + CountIn(o1, lost, p)] = leaked'
    BY <1>4, <2>4
  <2> QED BY <1>4, <2>2, <2>3, <2>5
<1>7. TypeOK'
  <2>1. /\ mem_map' \in [Pages -> Nat] /\ own' \in [Slots -> Pages \cup {0}]
        /\ leaked' \in [Pages -> Nat]
    BY <1>6 DEF Good, Counted
  <2> QED BY <1>1, <1>2, <1>4, <2>1 DEF TypeOK, NoFork
<1>8. /\ \A u \in Tasks : own'[TaskSlot(u)] = IF u = c THEN 0 ELSE own[TaskSlot(u)]
      /\ \A b \in Spaces : own'[DirSlot(b)] = IF b = a THEN 0 ELSE own[DirSlot(b)]
      /\ \A b \in Spaces, e \in Dirs : own'[TabSlot(b, e)] = IF b = a THEN 0 ELSE own[TabSlot(b, e)]
      /\ \A b \in Spaces, v \in VA : own'[PteSlot(b, v)] = IF b = a THEN 0 ELSE own[PteSlot(b, v)]
      /\ \A u \in Tasks, v \in Args : own'[ArgSlot(u, v)] = own[ArgSlot(u, v)]
  <2>1. own' = Cleared(own, {TaskSlot(c)} \cup SpaceSlots(a))
    BY <1>4, <1>5
  <2> HIDE DEF a, kept, lost
  <2> QED BY <1>2, <1>3, <2>1, InSpace, SlotTypes, SlotsDistinct DEF Cleared
<1>9. \A u \in Tasks : Cur(u)' = Cur(u) /\ New(u)' = New(u) /\ Cur(u) \in Spaces /\ New(u) \in Spaces
                       /\ New(u) # a /\ (Cur(u) = a => u = c)
  <2>1. \A u \in Tasks : Cur(u)' = Cur(u) /\ New(u)' = New(u)
    BY <1>4 DEF Cur, New
  <2> QED BY <1>1, <1>2, <2>1, SpaceNames
<1>10. Tree'
  <2> HIDE DEF a
  <2> QED BY <1>1, <1>8, ConstantsOK, SMTT(30) DEF Tree
<1>11. TaskStates'
  <2>1. \A u \in Tasks : state'[u] = IF u = c THEN "none" ELSE state[u]
    BY <1>1, <1>2, <1>4 DEF TypeOK
  <2>2. kpc[c] = "user" /\ Cur(c) = a
    BY <1>1, <1>2 DEF TaskStates
  <2>3. Cur(c)' = a /\ New(c)' = New(c) /\ New(c) \in Spaces /\ New(c) # a
    BY <1>2, <1>9
  <2> HIDE DEF a, kept, lost
  <2>4. kpc' = kpc /\ buf' = buf
    BY <1>4
  <2>5. ASSUME NEW u \in Tasks, u # c
        PROVE  /\ own'[TaskSlot(u)] = 0 <=> state'[u] = "none"
               /\ state'[u] # "run" => kpc'[u] = "user"
               /\ kpc'[u] # "put" => buf'[u] = {}
               /\ state'[u] \in {"none", "zombie"} => own'[DirSlot(Cur(u)')] = 0
               /\ kpc'[u] # "exec" =>
                    own'[DirSlot(New(u)')] = 0 /\ \A v \in Args : own'[ArgSlot(u, v)] = 0
    BY <1>1, <1>8, <1>9, <2>1, <2>5, <2>4, SMTT(30) DEF TaskStates
  <2>6. /\ own'[TaskSlot(c)] = 0 /\ state'[c] = "none" /\ kpc'[c] = "user" /\ buf'[c] = {}
        /\ own'[DirSlot(a)] = 0 /\ own'[DirSlot(New(c))] = 0
        /\ \A v \in Args : own'[ArgSlot(c, v)] = 0
    BY <1>1, <1>2, <1>3, <1>8, <2>1, <2>2, <2>3, <2>4, SMTT(30) DEF TaskStates
  <2> QED BY <2>3, <2>5, <2>6 DEF TaskStates
<1>12. WritableIsMapped'
  <2>1. \A s \in wbit : s \in Slots /\ IsPte(s) /\ own[s] # 0 /\ s \notin kept \cup lost
    <3>1. \A s \in wbit : s \in Slots /\ IsPte(s) /\ own[s] # 0 /\ s \notin PteSlots(a)
      BY <1>1, <1>2, SMTT(30) DEF WritableIsMapped, TypeOK, PteSlots
    <3>2. \A s \in wbit : s \notin SpaceSlots(a) /\ s # TaskSlot(c)
      BY <1>2, <1>3, <3>1, InSpace, SlotTypes, SMTT(30)
    <3> QED BY <1>5, <3>1, <3>2
  <2> QED BY <1>4, <2>1 DEF WritableIsMapped, Cleared
<1>13. ArgsPending'
  <2>1. Args \subseteq VA
    BY ConstantsOK
  <2> HIDE DEF a
  <2> QED BY <1>1, <1>8, <1>9, <2>1, SMTT(30) DEF ArgsPending
<1>14. ForkState'
  BY <1>1, <1>2, <1>4 DEF ForkState, TypeOK, NoFork
<1>15. VerifiedStaysWritable'
  <2>1. \A u \in Tasks : \A w \in buf[u] : /\ w \in VA /\ u # c
                                           /\ own[PteSlot(Cur(u), w)] # 0 /\ PteSlot(Cur(u), w) \in wbit
    BY <1>1, <1>2 DEF VerifiedStaysWritable, TypeOK, Pte
  <2>2. \A u \in Tasks : \A w \in buf[u] : own'[PteSlot(Cur(u), w)] # 0
    <3> HIDE DEF a
    <3> QED BY <1>8, <1>9, <2>1
  <2> QED BY <1>4, <1>9, <2>1, <2>2 DEF VerifiedStaysWritable, Pte
<1> QED BY <1>6, <1>7, <1>10, <1>11, <1>12, <1>13, <1>14, <1>15 DEF IInv, Shape
=============================================================================
