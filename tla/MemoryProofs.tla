---------------------------- MODULE MemoryProofs ----------------------------
(***************************************************************************)
(* Proofs about Memory, for any number of pages, tasks and user pages: the *)
(* steps of execve keep the inductive invariant, and the theorems.  The    *)
(* last part proves that copy-on-write implements private memories, that   *)
(* is, that Memory refines PrivateMemory.                                  *)
(***************************************************************************)
EXTENDS MemorySteps

USE ZenonT(30)

-----------------------------------------------------------------------------
(* The steps of do_execve that fill one slot of the task. *)
LEMMA CopyStringsInv ==
  ASSUME IInv, fork.parent = 0, NEW t \in Tasks, NEW v \in VA, copy_strings(t, v)
  PROVE  IInv'
<1> DEFINE s == ArgSlot(t, v)
<1>1. /\ TypeOK /\ Tree /\ TaskStates /\ WritableIsMapped /\ ArgsPending /\ ForkState
      /\ VerifiedStaysWritable
  BY DEF IInv, Shape
<1>2. v \in Args /\ s \in Slots /\ own[s] = 0 /\ kpc[t] = "exec" /\ own[DirSlot(New(t))] = 0
  BY SlotTypes DEF copy_strings, Execing
<1>3. PICK p \in Pages : /\ get_free_page(mem_map, p)
                         /\ mem_map' = Take(mem_map, p)
                         /\ own'  = [own EXCEPT ![s] = p]
                         /\ data' = [data EXCEPT ![p] = Program[v]]
  BY DEF copy_strings
<1>4. UNCHANGED <<wbit, xbit, state, space, kpc, buf, fork, leaked>>
  BY DEF copy_strings
<1>5. /\ Good(mem_map', own', leaked', wbit')
      /\ mem_map' \in [Pages -> Nat] /\ own' \in [Slots -> Pages \cup {0}]
      /\ own'[s] # 0 /\ \A r \in Slots : r # s => own'[r] = own[r]
  BY <1>2, <1>3, <1>4, Grabbed
<1>6. TypeOK'
  <2>1. data' \in [Pages -> Values]
    BY <1>1, <1>2, <1>3, ConstantsOK DEF TypeOK
  <2> QED BY <1>1, <1>4, <1>5, <2>1 DEF TypeOK
<1>7. /\ \A u \in Tasks : own'[TaskSlot(u)] = own[TaskSlot(u)]
      /\ \A b \in Spaces : own'[DirSlot(b)] = own[DirSlot(b)]
      /\ \A b \in Spaces, d \in Dirs : own'[TabSlot(b, d)] = own[TabSlot(b, d)]
      /\ \A b \in Spaces, w \in VA : own'[PteSlot(b, w)] = own[PteSlot(b, w)]
      /\ \A u \in Tasks, w \in Args : u # t \/ w # v => own'[ArgSlot(u, w)] = own[ArgSlot(u, w)]
  BY <1>2, <1>5, SlotTypes, SlotsDistinct, SMTT(30)
<1>8. \A u \in Tasks : Cur(u)' = Cur(u) /\ New(u)' = New(u) /\ Cur(u) \in Spaces /\ New(u) \in Spaces
  <2>1. \A u \in Tasks : Cur(u)' = Cur(u) /\ New(u)' = New(u)
    BY <1>4 DEF Cur, New
  <2> QED BY <1>1, <2>1, SpaceNames
<1>9. Tree'
  BY <1>1, <1>7, ConstantsOK, SMTT(30) DEF Tree
<1>10. TaskStates'
  BY <1>1, <1>2, <1>4, <1>7, <1>8, SMTT(30) DEF TaskStates
<1>11. WritableIsMapped'
  BY <1>1, <1>2, <1>4, <1>5, SlotTypes, SMTT(30) DEF WritableIsMapped, TypeOK
<1>12. ArgsPending'
  <2>1. Args \subseteq VA
    BY ConstantsOK
  <2>2. own[PteSlot(New(t), v)] = 0
    BY <1>1, <1>2, <1>8, ConstantsOK DEF Tree
  <2> QED BY <1>1, <1>7, <1>8, <2>1, <2>2, SMTT(30) DEF ArgsPending
<1>13. ForkState'
  BY <1>1, <1>4 DEF ForkState
<1>14. VerifiedStaysWritable'
  BY <1>1, <1>4, <1>7, <1>8, SMTT(30) DEF VerifiedStaysWritable, TypeOK, Pte
<1> QED BY <1>5, <1>6, <1>9, <1>10, <1>11, <1>12, <1>13, <1>14 DEF IInv, Shape

(* The new page directory of execve keeps the invariant. *)
LEMMA ExecPgdirInv ==
  ASSUME IInv, fork.parent = 0, NEW t \in Tasks, ExecPgdir(t)
  PROVE  IInv'
<1> DEFINE a == New(t)
           s == DirSlot(a)
<1>1. /\ TypeOK /\ Tree /\ TaskStates /\ WritableIsMapped /\ ArgsPending /\ ForkState
      /\ VerifiedStaysWritable
  BY DEF IInv, Shape
<1>2. a \in Spaces /\ s \in Slots /\ own[s] = 0 /\ kpc[t] = "exec" /\ state[t] = "run"
  BY <1>1, SlotTypes, SpaceNames DEF ExecPgdir, Execing, TaskStates
<1>3. PICK p \in Pages : /\ get_free_page(mem_map, p)
                         /\ mem_map' = Take(mem_map, p)
                         /\ own'  = [own EXCEPT ![s] = p]
                         /\ data' = [data EXCEPT ![p] = 0]
  BY DEF ExecPgdir
<1>4. UNCHANGED <<wbit, xbit, state, space, kpc, buf, fork, leaked>>
  BY DEF ExecPgdir
<1>5. /\ Good(mem_map', own', leaked', wbit')
      /\ mem_map' \in [Pages -> Nat] /\ own' \in [Slots -> Pages \cup {0}]
      /\ own'[s] # 0 /\ \A r \in Slots : r # s => own'[r] = own[r]
  BY <1>2, <1>3, <1>4, Grabbed
<1>6. TypeOK'
  <2>1. data' \in [Pages -> Values]
    BY <1>1, <1>3, ConstantsOK DEF TypeOK
  <2> QED BY <1>1, <1>4, <1>5, <2>1 DEF TypeOK
<1>7. \A u \in Tasks : Cur(u)' = Cur(u) /\ New(u)' = New(u) /\ Cur(u) \in Spaces /\ New(u) \in Spaces
                       /\ Cur(u) # a /\ (New(u) = a => u = t)
  <2>1. \A u \in Tasks : Cur(u)' = Cur(u) /\ New(u)' = New(u)
    BY <1>4 DEF Cur, New
  <2> QED BY <1>1, <2>1, SpaceNames
<1> HIDE DEF a
<1>8. /\ \A u \in Tasks : own'[TaskSlot(u)] = own[TaskSlot(u)]
      /\ \A b \in Spaces : b # a => own'[DirSlot(b)] = own[DirSlot(b)]
      /\ \A b \in Spaces, d \in Dirs : own'[TabSlot(b, d)] = own[TabSlot(b, d)]
      /\ \A b \in Spaces, w \in VA : own'[PteSlot(b, w)] = own[PteSlot(b, w)]
      /\ \A u \in Tasks, w \in Args : own'[ArgSlot(u, w)] = own[ArgSlot(u, w)]
  BY <1>2, <1>5, SlotTypes, SlotsDistinct, SMTT(30)
<1>9. Tree'
  BY <1>1, <1>5, <1>8, ConstantsOK, SMTT(30) DEF Tree
<1>10. TaskStates'
  BY <1>1, <1>2, <1>4, <1>7, <1>8, SMTT(30) DEF TaskStates
<1>11. WritableIsMapped'
  BY <1>1, <1>2, <1>4, <1>5, SlotTypes DEF WritableIsMapped, TypeOK
<1>12. ArgsPending'
  <2>1. Args \subseteq VA
    BY ConstantsOK
  <2> QED BY <1>1, <1>7, <1>8, <2>1, SMTT(30) DEF ArgsPending
<1>13. ForkState'
  BY <1>1, <1>4 DEF ForkState
<1>14. VerifiedStaysWritable'
  BY <1>1, <1>4, <1>7, <1>8, SMTT(30) DEF VerifiedStaysWritable, TypeOK, Pte
<1> QED BY <1>5, <1>6, <1>9, <1>10, <1>11, <1>12, <1>13, <1>14 DEF IInv, Shape

(* A page is mapped into the address space that do_execve builds. *)
LEMMA MappedInv ==
  ASSUME IInv, fork.parent = 0, NEW t \in Tasks, NEW v \in VA,
         kpc[t] = "exec", own[DirSlot(New(t))] # 0,
         Good(mem_map', own', leaked', wbit'),
         wbit' = wbit \cup {PteSlot(New(t), v)}, xbit' \subseteq Slots, data' \in [Pages -> Values],
         own'[PteSlot(New(t), v)] # 0, own'[TabSlot(New(t), DirOf[v])] # 0,
         \A s \in Slots :
           s # PteSlot(New(t), v) /\ s # TabSlot(New(t), DirOf[v]) /\ s \notin ArgSlots(t)
             => own'[s] = own[s],
         \A w \in Args : own'[ArgSlot(t, w)] # 0 => own[ArgSlot(t, w)] # 0 /\ w # v,
         UNCHANGED <<state, space, kpc, buf, fork>>
  PROVE  IInv'
<1> DEFINE a   == New(t)
           pte == PteSlot(a, v)
           tab == TabSlot(a, DirOf[v])
<1>1. /\ TypeOK /\ Tree /\ TaskStates /\ WritableIsMapped /\ ArgsPending /\ ForkState
      /\ VerifiedStaysWritable
  BY DEF IInv, Shape
<1>2. a \in Spaces /\ pte \in Slots /\ tab \in Slots /\ IsPte(pte) /\ DirOf[v] \in Dirs
  BY <1>1, SpaceNames, SlotTypes, ConstantsOK
<1>3. TypeOK'
  <2>1. mem_map' \in [Pages -> Nat] /\ own' \in [Slots -> Pages \cup {0}] /\ leaked' \in [Pages -> Nat]
    BY DEF Good, Counted
  <2>2. wbit' \subseteq Slots
    BY <1>1, <1>2 DEF TypeOK
  <2> QED BY <1>1, <2>1, <2>2 DEF TypeOK
<1>4. \A u \in Tasks : Cur(u)' = Cur(u) /\ New(u)' = New(u) /\ Cur(u) \in Spaces /\ New(u) \in Spaces
                       /\ Cur(u) # a /\ (New(u) = a => u = t)
  <2>1. \A u \in Tasks : Cur(u)' = Cur(u) /\ New(u)' = New(u)
    BY DEF Cur, New
  <2> QED BY <1>1, <2>1, SpaceNames
<1>5. /\ own'[pte] # 0 /\ own'[tab] # 0 /\ wbit' = wbit \cup {pte} /\ own[DirSlot(a)] # 0
      /\ \A s \in Slots : s # pte /\ s # tab /\ s \notin ArgSlots(t) => own'[s] = own[s]
  OBVIOUS
<1>6. /\ \A u \in Tasks : own'[TaskSlot(u)] = own[TaskSlot(u)]
      /\ \A b \in Spaces : own'[DirSlot(b)] = own[DirSlot(b)]
      /\ \A b \in Spaces, d \in Dirs : b # a \/ d # DirOf[v] => own'[TabSlot(b, d)] = own[TabSlot(b, d)]
      /\ \A b \in Spaces, w \in VA : b # a \/ w # v => own'[PteSlot(b, w)] = own[PteSlot(b, w)]
      /\ \A u \in Tasks, w \in Args : u # t => own'[ArgSlot(u, w)] = own[ArgSlot(u, w)]
  <2> HIDE DEF a
  <2> QED BY <1>2, <1>5, SlotTypes, SlotsDistinct, InArgs, SMTT(30)
<1>7. Tree'
  <2> HIDE DEF a
  <2> QED BY <1>1, <1>2, <1>5, <1>6, ConstantsOK, SMTT(30) DEF Tree
<1>8. TaskStates'
  <2>1. \A u \in Tasks : kpc[u] # "exec" => \A w \in Args : own'[ArgSlot(u, w)] = own[ArgSlot(u, w)]
    BY <1>6
  <2> QED BY <1>1, <1>4, <1>6, <2>1, SMTT(30) DEF TaskStates
<1>9. WritableIsMapped'
  <2>1. \A s \in wbit : IsPte(s) /\ s \in Slots /\ own[s] # 0
    BY <1>1 DEF WritableIsMapped, TypeOK
  <2>2. \A s \in wbit : s # tab /\ s \notin ArgSlots(t)
    BY <1>2, <2>1, SlotTypes, ConstantsOK DEF ArgSlots
  <2> QED BY <1>2, <1>5, <2>1, <2>2 DEF WritableIsMapped
<1>10. ArgsPending'
  <2>1. Args \subseteq VA
    BY ConstantsOK
  <2>2. ASSUME NEW u \in Tasks, NEW w \in Args, own'[ArgSlot(u, w)] # 0
        PROVE  own'[PteSlot(New(u), w)] = 0
    <3>1. own[ArgSlot(u, w)] # 0 /\ (u # t \/ w # v)
      BY <1>6, <2>2
    <3>2. own'[PteSlot(New(u), w)] = own[PteSlot(New(u), w)]
      <4>1. w \in VA /\ New(u) \in Spaces /\ (New(u) # a \/ w # v)
        BY <1>4, <2>1, <3>1
      <4> HIDE DEF a
      <4> QED BY <1>6, <4>1
    <3> QED BY <1>1, <3>1, <3>2 DEF ArgsPending
  <2> QED BY <1>4, <2>2 DEF ArgsPending
<1>11. ForkState'
  BY <1>1 DEF ForkState
<1>12. VerifiedStaysWritable'
  BY <1>1, <1>4, <1>6, SMTT(30) DEF VerifiedStaysWritable, TypeOK, Pte
<1> QED BY <1>3, <1>7, <1>8, <1>9, <1>10, <1>11, <1>12 DEF IInv, Shape

(* Mapping an argument page in execve keeps the invariant. *)
LEMMA ExecMapArgInv ==
  ASSUME IInv, fork.parent = 0, NEW t \in Tasks, NEW v \in VA, ExecMapArg(t, v)
  PROVE  IInv'
<1> DEFINE s  == ArgSlot(t, v)
           p  == own[s]
           m0 == [x \in Pages |-> mem_map[x] - CountIn(own, {s}, x)]
           o  == Cleared(own, {s})
           a  == New(t)
<1>1. /\ TypeOK /\ ArgsPending /\ Good(mem_map, own, leaked, wbit)
  BY DEF IInv, Shape
<1>2. v \in Args /\ s \in Slots /\ ~IsPte(s) /\ own[s] # 0 /\ kpc[t] = "exec" /\ own[DirSlot(a)] # 0
  BY SlotTypes DEF ExecMapArg, Execing
<1>3. p \in Pages /\ mem_map[p] = 1
  BY <1>1, <1>2 DEF TypeOK, Good, Sole
<1>4. a \in Spaces /\ PteSlot(a, v) \in Slots /\ own[PteSlot(a, v)] = 0
  BY <1>1, <1>2, SpaceNames, SlotTypes DEF ArgsPending
<1>5. Good(m0, o, leaked, wbit)
  BY <1>1, <1>2, GoodDrop
<1>6. \A x \in Pages : m0[x] = IF x = p THEN 0 ELSE mem_map[x]
  <2> SUFFICES ASSUME NEW x \in Pages PROVE m0[x] = IF x = p THEN 0 ELSE mem_map[x]
    OBVIOUS
  <2>1. mem_map[x] \in Nat /\ m0[x] = mem_map[x] - CountIn(own, {s}, x)
    BY <1>1 DEF TypeOK
  <2>2. CountIn(own, {s}, x) = IF x = p THEN 1 ELSE 0
    BY CountOne, SMTT(30)
  <2> HIDE DEF m0, s
  <2> QED BY <1>3, <2>1, <2>2, SMTT(30)
<1>7. m0[p] = 0 /\ Take(m0, p) = mem_map
  <2>1. m0 = [x \in Pages |-> IF x = p THEN 0 ELSE mem_map[x]]
    BY <1>6
  <2> HIDE DEF m0, p
  <2> QED BY <1>1, <1>3, <2>1, SMTT(30) DEF TypeOK, Take
<1>8. o \in [Slots -> Pages \cup {0}] /\ o = [own EXCEPT ![s] = 0] /\ o[PteSlot(a, v)] = 0
  BY <1>1, <1>2, <1>4 DEF TypeOK, Cleared
<1>9. o = Cleared(o, {PteSlot(a, v)})
  <2> HIDE DEF o
  <2> QED BY <1>4, <1>8 DEF Cleared
<1>10. put_page_pgdir(Take(m0, p), o, a, v, p)
  BY <1>7, <1>8 DEF ExecMapArg
<1>11. /\ Good(mem_map', own', leaked, wbit')
       /\ wbit' = wbit \cup {PteSlot(a, v)} /\ xbit' \subseteq Slots
       /\ own'[PteSlot(a, v)] = p /\ own'[TabSlot(a, DirOf[v])] # 0
       /\ \A r \in Slots : r # PteSlot(a, v) /\ r # TabSlot(a, DirOf[v]) => own'[r] = o[r]
  <2>1. o \in [Slots -> Pages \cup {0}]
    BY <1>8
  <2>2. TypeOK /\ p \in Pages /\ a \in Spaces /\ m0[p] = 0
    BY <1>1, <1>3, <1>4, <1>7
  <2> HIDE DEF m0, o, p, a
  <2> QED BY <1>5, <1>9, <1>10, <2>1, <2>2, PutPage, SMTT(30)
<1>12. UNCHANGED <<data, state, space, kpc, buf, fork, leaked>>
  BY DEF ExecMapArg
<1>13. \A r \in Slots :
         r # PteSlot(a, v) /\ r # TabSlot(a, DirOf[v]) /\ r \notin ArgSlots(t) => own'[r] = own[r]
  <2>1. s \in ArgSlots(t)
    BY <1>2 DEF ArgSlots
  <2> QED BY <1>11, <2>1 DEF Cleared
<1>14. \A w \in Args : own'[ArgSlot(t, w)] # 0 => own[ArgSlot(t, w)] # 0 /\ w # v
  <2>1. \A w \in Args : /\ ArgSlot(t, w) \in Slots
                        /\ ArgSlot(t, w) # PteSlot(a, v) /\ ArgSlot(t, w) # TabSlot(a, DirOf[v])
    BY SlotTypes, SlotsDistinct
  <2>2. \A w \in Args : own'[ArgSlot(t, w)] = o[ArgSlot(t, w)]
    BY <1>11, <2>1
  <2> QED BY <2>1, <2>2 DEF Cleared
<1>15. data' \in [Pages -> Values] /\ own'[PteSlot(a, v)] # 0
  BY <1>1, <1>3, <1>11, <1>12, PagesNat DEF TypeOK
<1> HIDE DEF p, s, o, m0
<1> QED BY <1>2, <1>11, <1>12, <1>13, <1>14, <1>15, MappedInv

(* Loading a page of the program in execve keeps the invariant. *)
LEMMA LoadSegmentInv ==
  ASSUME IInv, fork.parent = 0, NEW t \in Tasks, NEW v \in VA, load_segment(t, v)
  PROVE  IInv'
<1> DEFINE a == New(t)
<1>1. TypeOK /\ Good(mem_map, own, leaked, wbit) /\ a \in Spaces
  BY SpaceNames DEF IInv
<1>2. /\ v \in DOMAIN Program /\ v \notin Args /\ kpc[t] = "exec" /\ own[DirSlot(a)] # 0
      /\ PteSlot(a, v) \in Slots /\ own[PteSlot(a, v)] = 0
  BY <1>1, SlotTypes DEF load_segment, Execing, ArgsMapped
<1>3. PICK p \in Pages : /\ get_free_page(mem_map, p)
                         /\ put_page_pgdir(Take(mem_map, p), own, a, v, p)
                         /\ data' = [data EXCEPT ![p] = Program[v]]
  BY DEF load_segment
<1>4. /\ mem_map[p] = 0 /\ own \in [Slots -> Pages \cup {0}]
      /\ own = Cleared(own, {PteSlot(a, v)})
  BY <1>1, <1>2, <1>3 DEF get_free_page, TypeOK, Cleared
<1>5. /\ Good(mem_map', own', leaked, wbit')
      /\ wbit' = wbit \cup {PteSlot(a, v)} /\ xbit' \subseteq Slots
      /\ own'[PteSlot(a, v)] = p /\ own'[TabSlot(a, DirOf[v])] # 0
      /\ \A r \in Slots : r # PteSlot(a, v) /\ r # TabSlot(a, DirOf[v]) => own'[r] = own[r]
  <2> HIDE DEF a
  <2> QED BY <1>1, <1>3, <1>4, PutPage, SMTT(30)
<1>6. UNCHANGED <<state, space, kpc, buf, fork, leaked>>
  BY DEF load_segment
<1>7. \A w \in Args : own'[ArgSlot(t, w)] # 0 => own[ArgSlot(t, w)] # 0 /\ w # v
  <2>1. \A w \in Args : /\ ArgSlot(t, w) \in Slots
                        /\ ArgSlot(t, w) # PteSlot(a, v) /\ ArgSlot(t, w) # TabSlot(a, DirOf[v])
    BY SlotTypes, SlotsDistinct
  <2> QED BY <1>2, <1>5, <2>1
<1>8. data' \in [Pages -> Values] /\ own'[PteSlot(a, v)] # 0
  BY <1>1, <1>2, <1>3, <1>5, PagesNat, ConstantsOK DEF TypeOK
<1> QED BY <1>2, <1>5, <1>6, <1>7, <1>8, MappedInv

(* The ends of do_execve.  The old address space, the new one, or both are *)
(* freed.                                                                  *)
LEMMA ExecCommitsInv ==
  ASSUME IInv, fork.parent = 0, NEW t \in Tasks, ExecCommits(t)
  PROVE  IInv'
<1> DEFINE a == Cur(t)
<1>1. /\ TypeOK /\ Tree /\ TaskStates /\ WritableIsMapped /\ ArgsPending /\ ForkState
      /\ VerifiedStaysWritable
  BY DEF IInv, Shape
<1>2. /\ a \in Spaces /\ SpaceSlots(a) \in SUBSET Slots
      /\ kpc[t] = "exec" /\ state[t] = "run" /\ buf[t] = {}
      /\ \A v \in Args : own[ArgSlot(t, v)] = 0
  BY <1>1, SpaceNames, InSpace DEF ExecCommits, Execing, Loaded, ArgsMapped, TaskStates
<1>3. /\ Good(mem_map', own', leaked', wbit') /\ own' = Cleared(own, SpaceSlots(a))
      /\ mem_map' \in [Pages -> Nat] /\ own' \in [Slots -> Pages \cup {0}]
  BY <1>2, Freed DEF ExecCommits
<1>4. TypeOK'
  BY <1>1, <1>3, SMTT(30) DEF TypeOK, ExecCommits
<1>5. /\ \A u \in Tasks : u # t => Cur(u)' = Cur(u) /\ New(u)' = New(u)
      /\ Cur(t)' = New(t) /\ New(t)' = a
      /\ \A u \in Tasks : /\ Cur(u) \in Spaces /\ New(u) \in Spaces
                          /\ New(u) # a /\ (Cur(u) = a => u = t)
  <2>1. \A u \in Tasks : u # t => Cur(u)' = Cur(u) /\ New(u)' = New(u)
    BY <1>1 DEF Cur, New, ExecCommits, TypeOK
  <2>2. Cur(t)' = New(t) /\ New(t)' = a
    BY <1>1, SMTT(30) DEF Cur, New, ExecCommits, TypeOK
  <2> QED BY <1>1, <2>1, <2>2, SpaceNames
<1>6. /\ \A u \in Tasks : own'[TaskSlot(u)] = own[TaskSlot(u)]
      /\ \A b \in Spaces : own'[DirSlot(b)] = IF b = a THEN 0 ELSE own[DirSlot(b)]
      /\ \A b \in Spaces, d \in Dirs : own'[TabSlot(b, d)] = IF b = a THEN 0 ELSE own[TabSlot(b, d)]
      /\ \A b \in Spaces, v \in VA : own'[PteSlot(b, v)] = IF b = a THEN 0 ELSE own[PteSlot(b, v)]
      /\ \A u \in Tasks, v \in Args : own'[ArgSlot(u, v)] = own[ArgSlot(u, v)]
  <2> HIDE DEF a
  <2> QED BY <1>2, <1>3, InSpace, SlotTypes DEF Cleared
<1>7. \A s \in wbit' : s \in wbit /\ IsPte(s) /\ s \in Slots /\ s \notin SpaceSlots(a) /\ own'[s] = own[s]
  <2>1. \A s \in wbit' : s \in wbit /\ s \notin PteSlots(a) /\ IsPte(s) /\ s \in Slots
    BY <1>1 DEF ExecCommits, WritableIsMapped, TypeOK
  <2> QED BY <1>2, <1>3, <2>1, InSpace DEF Cleared
<1>8. /\ \A u \in Tasks : u # t => kpc'[u] = kpc[u]
      /\ kpc'[t] = "user" /\ wbit' = wbit \ PteSlots(a)
      /\ UNCHANGED <<state, buf, fork>>
  BY <1>1 DEF ExecCommits, TypeOK
<1> HIDE DEF a
<1>9. Tree'
  BY <1>1, <1>2, <1>6, ConstantsOK, SMTT(30) DEF Tree
<1>10. TaskStates'
  BY <1>1, <1>2, <1>5, <1>6, <1>8, SMTT(30) DEF TaskStates
<1>11. WritableIsMapped'
  BY <1>1, <1>7 DEF WritableIsMapped
<1>12. ArgsPending'
  <2>1. Args \subseteq VA
    BY ConstantsOK
  <2> QED BY <1>1, <1>2, <1>5, <1>6, <2>1, SMTT(30) DEF ArgsPending
<1>13. ForkState'
  BY <1>1, <1>8 DEF ForkState
<1>14. VerifiedStaysWritable'
  <2>1. \A u \in Tasks : \A w \in buf[u] : /\ u # t /\ w \in VA
                                           /\ own[PteSlot(Cur(u), w)] # 0 /\ PteSlot(Cur(u), w) \in wbit
    BY <1>1, <1>2 DEF VerifiedStaysWritable, TypeOK, Pte
  <2>2. \A u \in Tasks : \A w \in buf[u] : own'[PteSlot(Cur(u), w)] # 0 /\ PteSlot(Cur(u), w) \notin PteSlots(a)
    BY <1>2, <1>5, <1>6, <2>1, InSpace, SMTT(30)
  <2> QED BY <1>5, <1>8, <2>1, <2>2 DEF VerifiedStaysWritable, Pte
<1> QED BY <1>3, <1>4, <1>9, <1>10, <1>11, <1>12, <1>13, <1>14 DEF IInv, Shape

(* A fault of create_tables in execve keeps the invariant. *)
LEMMA ExecFaultsInv ==
  ASSUME IInv, fork.parent = 0, NEW t \in Tasks, ExecFaults(t)
  PROVE  IInv'
<1> DEFINE a == Cur(t)
           b == New(t)
           S == SpaceSlots(a) \cup SpaceSlots(b)
<1>1. /\ TypeOK /\ Tree /\ TaskStates /\ WritableIsMapped /\ ArgsPending /\ ForkState
      /\ VerifiedStaysWritable
  BY DEF IInv, Shape
<1>2. /\ a \in Spaces /\ b \in Spaces /\ S \in SUBSET Slots
      /\ kpc[t] = "exec" /\ state[t] = "run" /\ buf[t] = {}
      /\ \A v \in Args : own[ArgSlot(t, v)] = 0
  BY <1>1, SpaceNames, InSpace DEF ExecFaults, Execing, Loaded, ArgsMapped, TaskStates
<1>3. /\ Good(mem_map', own', leaked', wbit') /\ own' = Cleared(own, S)
      /\ mem_map' \in [Pages -> Nat] /\ own' \in [Slots -> Pages \cup {0}]
  BY <1>2, Freed DEF ExecFaults
<1>4. TypeOK'
  <2>1. wbit' \subseteq Slots /\ xbit' \subseteq Slots
    BY <1>1 DEF TypeOK, ExecFaults
  <2>2. /\ space' \in [Tasks -> {0, 1}]
        /\ state' \in [Tasks -> {"none", "new", "run", "zombie"}]
        /\ kpc' \in [Tasks -> {"user", "exec", "put"}]
        /\ UNCHANGED <<data, buf, fork, leaked>>
    BY <1>1, SMTT(30) DEF TypeOK, ExecFaults
  <2> QED BY <1>1, <1>3, <2>1, <2>2 DEF TypeOK
<1>5. /\ \A u \in Tasks : u # t => Cur(u)' = Cur(u) /\ New(u)' = New(u)
      /\ Cur(t)' = b /\ New(t)' = a
      /\ \A u \in Tasks : /\ Cur(u) \in Spaces /\ New(u) \in Spaces
                          /\ New(u) # a /\ (Cur(u) = a => u = t)
                          /\ Cur(u) # b /\ (New(u) = b => u = t)
  <2>1. \A u \in Tasks : u # t => Cur(u)' = Cur(u) /\ New(u)' = New(u)
    BY <1>1 DEF Cur, New, ExecFaults, TypeOK
  <2>2. Cur(t)' = b /\ New(t)' = a
    BY <1>1, SMTT(30) DEF Cur, New, ExecFaults, TypeOK
  <2> QED BY <1>1, <2>1, <2>2, SpaceNames
<1>6. /\ \A u \in Tasks : own'[TaskSlot(u)] = own[TaskSlot(u)]
      /\ \A e \in Spaces : own'[DirSlot(e)] = IF e \in {a, b} THEN 0 ELSE own[DirSlot(e)]
      /\ \A e \in Spaces, d \in Dirs : own'[TabSlot(e, d)] = IF e \in {a, b} THEN 0 ELSE own[TabSlot(e, d)]
      /\ \A e \in Spaces, v \in VA : own'[PteSlot(e, v)] = IF e \in {a, b} THEN 0 ELSE own[PteSlot(e, v)]
      /\ \A u \in Tasks, v \in Args : own'[ArgSlot(u, v)] = own[ArgSlot(u, v)]
  <2> HIDE DEF a, b
  <2> QED BY <1>2, <1>3, InSpace, SlotTypes DEF Cleared
<1>7. \A s \in wbit' : s \in wbit /\ IsPte(s) /\ s \in Slots /\ own'[s] = own[s]
  <2>1. \A s \in wbit' : s \in wbit /\ s \notin PteSlots(a) /\ s \notin PteSlots(b) /\ IsPte(s) /\ s \in Slots
    BY <1>1 DEF ExecFaults, WritableIsMapped, TypeOK
  <2> QED BY <1>2, <1>3, <2>1, InSpace DEF Cleared
<1>8. /\ \A u \in Tasks : u # t => kpc'[u] = kpc[u] /\ state'[u] = state[u]
      /\ kpc'[t] = "user" /\ state'[t] = "zombie" /\ wbit' = wbit \ (PteSlots(a) \cup PteSlots(b))
      /\ UNCHANGED <<buf, fork>>
  BY <1>1 DEF ExecFaults, TypeOK
<1> HIDE DEF a, b
<1>9. Tree'
  BY <1>1, <1>2, <1>6, ConstantsOK, SMTT(30) DEF Tree
<1>10. TaskStates'
  BY <1>1, <1>2, <1>5, <1>6, <1>8, SMTT(30) DEF TaskStates
<1>11. WritableIsMapped'
  BY <1>1, <1>7 DEF WritableIsMapped
<1>12. ArgsPending'
  <2>1. Args \subseteq VA
    BY ConstantsOK
  <2> QED BY <1>1, <1>2, <1>5, <1>6, <2>1, SMTT(30) DEF ArgsPending
<1>13. ForkState'
  BY <1>1, <1>8 DEF ForkState
<1>14. VerifiedStaysWritable'
  <2>1. \A u \in Tasks : \A w \in buf[u] : /\ u # t /\ w \in VA
                                           /\ own[PteSlot(Cur(u), w)] # 0 /\ PteSlot(Cur(u), w) \in wbit
    BY <1>1, <1>2 DEF VerifiedStaysWritable, TypeOK, Pte
  <2>2. \A u \in Tasks : \A w \in buf[u] : /\ own'[PteSlot(Cur(u), w)] # 0
                                           /\ PteSlot(Cur(u), w) \notin PteSlots(a) \cup PteSlots(b)
    BY <1>2, <1>5, <1>6, <2>1, InSpace, SMTT(30)
  <2> QED BY <1>5, <1>8, <2>1, <2>2, SMTT(30) DEF VerifiedStaysWritable, Pte
<1> QED BY <1>3, <1>4, <1>9, <1>10, <1>11, <1>12, <1>13, <1>14 DEF IInv, Shape

(* The error path of execve keeps the invariant. *)
LEMMA ExecFailsInv ==
  ASSUME IInv, fork.parent = 0, NEW t \in Tasks, ExecFails(t)
  PROVE  IInv'
<1> DEFINE b == New(t)
           S == SpaceSlots(b) \cup ArgSlots(t)
<1>1. /\ TypeOK /\ Tree /\ TaskStates /\ WritableIsMapped /\ ArgsPending /\ ForkState
      /\ VerifiedStaysWritable
  BY DEF IInv, Shape
<1>2. /\ b \in Spaces /\ S \in SUBSET Slots
      /\ kpc[t] = "exec" /\ state[t] = "run" /\ buf[t] = {}
  BY <1>1, SpaceNames, InSpace, InArgs DEF ExecFails, Execing, TaskStates
<1>3. /\ Good(mem_map', own', leaked', wbit') /\ own' = Cleared(own, S)
      /\ mem_map' \in [Pages -> Nat] /\ own' \in [Slots -> Pages \cup {0}]
  BY <1>2, Freed DEF ExecFails
<1>4. TypeOK'
  BY <1>1, <1>3 DEF TypeOK, ExecFails
<1>5. \A u \in Tasks : Cur(u)' = Cur(u) /\ New(u)' = New(u) /\ Cur(u) \in Spaces /\ New(u) \in Spaces
                       /\ Cur(u) # b /\ (New(u) = b => u = t)
  <2>1. \A u \in Tasks : Cur(u)' = Cur(u) /\ New(u)' = New(u)
    BY DEF Cur, New, ExecFails
  <2> QED BY <1>1, <2>1, SpaceNames
<1>6. /\ \A u \in Tasks : own'[TaskSlot(u)] = own[TaskSlot(u)]
      /\ \A e \in Spaces : own'[DirSlot(e)] = IF e = b THEN 0 ELSE own[DirSlot(e)]
      /\ \A e \in Spaces, d \in Dirs : own'[TabSlot(e, d)] = IF e = b THEN 0 ELSE own[TabSlot(e, d)]
      /\ \A e \in Spaces, v \in VA : own'[PteSlot(e, v)] = IF e = b THEN 0 ELSE own[PteSlot(e, v)]
      /\ \A u \in Tasks, v \in Args : own'[ArgSlot(u, v)] = IF u = t THEN 0 ELSE own[ArgSlot(u, v)]
  <2> HIDE DEF b
  <2> QED BY <1>2, <1>3, InSpace, InArgs, SlotTypes, SMTT(30) DEF Cleared
<1>7. \A s \in wbit' : s \in wbit /\ IsPte(s) /\ s \in Slots /\ own'[s] = own[s]
  <2>1. \A s \in wbit' : s \in wbit /\ s \notin PteSlots(b) /\ IsPte(s) /\ s \in Slots
    BY <1>1 DEF ExecFails, WritableIsMapped, TypeOK
  <2>2. \A s \in wbit' : s \notin ArgSlots(t)
    BY <2>1, SlotTypes DEF ArgSlots
  <2> QED BY <1>2, <1>3, <2>1, <2>2, InSpace DEF Cleared
<1>8. /\ \A u \in Tasks : u # t => kpc'[u] = kpc[u]
      /\ kpc'[t] = "user" /\ wbit' = wbit \ PteSlots(b)
      /\ UNCHANGED <<state, buf, fork>>
  BY <1>1 DEF ExecFails, TypeOK
<1> HIDE DEF b
<1>9. Tree'
  BY <1>1, <1>2, <1>6, ConstantsOK, SMTT(30) DEF Tree
<1>10. TaskStates'
  BY <1>1, <1>2, <1>5, <1>6, <1>8, SMTT(30) DEF TaskStates, b
<1>11. WritableIsMapped'
  BY <1>1, <1>7 DEF WritableIsMapped
<1>12. ArgsPending'
  <2>1. Args \subseteq VA
    BY ConstantsOK
  <2> QED BY <1>1, <1>2, <1>5, <1>6, <2>1, SMTT(30) DEF ArgsPending
<1>13. ForkState'
  BY <1>1, <1>8 DEF ForkState
<1>14. VerifiedStaysWritable'
  <2>1. \A u \in Tasks : \A w \in buf[u] : /\ w \in VA
                                           /\ own[PteSlot(Cur(u), w)] # 0 /\ PteSlot(Cur(u), w) \in wbit
    BY <1>1 DEF VerifiedStaysWritable, TypeOK, Pte
  <2>2. \A u \in Tasks : \A w \in buf[u] : own'[PteSlot(Cur(u), w)] # 0 /\ PteSlot(Cur(u), w) \notin PteSlots(b)
    BY <1>2, <1>5, <1>6, <2>1, InSpace, SMTT(30)
  <2> QED BY <1>5, <1>8, <2>1, <2>2 DEF VerifiedStaysWritable, Pte
<1> QED BY <1>3, <1>4, <1>9, <1>10, <1>11, <1>12, <1>13, <1>14 DEF IInv, Shape

-----------------------------------------------------------------------------
(* Every step of the kernel and of the tasks preserves the invariant. *)
THEOREM NextInv == IInv /\ [Next]_vars => IInv'
<1> SUFFICES ASSUME IInv, [Next]_vars PROVE IInv'
  OBVIOUS
<1>1. CASE fork.parent # 0 /\ ForkStep
  BY <1>1, CopyPageTablesInv, ForkFailsInv, ForkReturnsInv DEF ForkStep
<1>2. ASSUME fork.parent = 0, NEW t \in Tasks, TaskStep(t) PROVE IInv'
  <2>1. CASE kernel_thread(t)
    BY <1>2, <2>1, KernelThreadInv
  <2>2. CASE sys_exit(t)
    BY <1>2, <2>2, ExitInv DEF sys_exit
  <2>3. CASE release(t)
    BY <1>2, <2>3, ReleaseInv
  <2>4. CASE SysReturn(t)
    BY <1>2, <2>4, KpcInv
  <2>5. CASE \E c \in Tasks : sys_fork(t, c)
    BY <1>2, <2>5, SysForkInv
  <2>6. CASE \E v \in VA : page_fault_handler(t, v) \/ verify_area(t, v)
    BY <1>2, <2>6, PageFaultInv, VerifyAreaInv
  <2>7. ASSUME NEW v \in VA, NEW x \in Values, UserStore(t, v, x) \/ CopyOut(t, v, x) PROVE IInv'
    <3>1. put_fs(t, v, x)
      BY <2>7 DEF UserStore, CopyOut, put_fs
    <3> QED BY <3>1, StoreInv
  <2> QED BY <1>2, <2>1, <2>2, <2>3, <2>4, <2>5, <2>6, <2>7 DEF TaskStep
<1>3. ASSUME fork.parent = 0, NEW t \in Tasks, ExecStep(t) PROVE IInv'
  <2>1. CASE do_execve(t)
    BY <1>3, <2>1, KpcInv, SMTT(30)
  <2>2. CASE ExecPgdir(t)
    BY <1>3, <2>2, ExecPgdirInv
  <2>3. CASE ExecCommits(t)
    BY <1>3, <2>3, ExecCommitsInv
  <2>4. CASE ExecFaults(t)
    BY <1>3, <2>4, ExecFaultsInv
  <2>5. CASE ExecFails(t)
    BY <1>3, <2>5, ExecFailsInv
  <2>6. ASSUME NEW v \in VA, copy_strings(t, v) \/ ExecMapArg(t, v) \/ load_segment(t, v)
        PROVE  IInv'
    BY <1>3, <2>6, CopyStringsInv, ExecMapArgInv, LoadSegmentInv
  <2> QED BY <1>3, <2>1, <2>2, <2>3, <2>4, <2>5, <2>6 DEF ExecStep
<1>4. CASE UNCHANGED vars
  <2>1. TypeOK'
    BY <1>4 DEF IInv, TypeOK, vars
  <2>2. Good(mem_map, own, leaked, wbit)'
    BY <1>4 DEF IInv, vars
  <2>3. Shape'
    <3>1. Tree'
      BY <1>4, SMTT(30) DEF vars, IInv, Shape, Tree, Pte, Cur, New
    <3>2. TaskStates'
      BY <1>4, SMTT(30) DEF vars, IInv, Shape, TaskStates, Pte, Cur, New
    <3>3. WritableIsMapped'
      BY <1>4, SMTT(30) DEF vars, IInv, Shape, WritableIsMapped, Pte, Cur, New
    <3>4. ArgsPending'
      BY <1>4, SMTT(30) DEF vars, IInv, Shape, ArgsPending, Pte, Cur, New
    <3>5. ForkState'
      BY <1>4, SMTT(30) DEF vars, IInv, Shape, ForkState, Pte, Cur, New
    <3>6. VerifiedStaysWritable'
      BY <1>4, SMTT(30) DEF vars, IInv, Shape, VerifiedStaysWritable, Pte, Cur, New
    <3> QED BY <3>1, <3>2, <3>3, <3>4, <3>5, <3>6 DEF Shape
  <2> QED BY <2>1, <2>2, <2>3 DEF IInv
<1> QED BY <1>1, <1>2, <1>3, <1>4 DEF Next

(* The safety invariants hold in every reachable state, whatever the       *)
(* number of pages, tasks, user pages and arguments.                       *)
THEOREM Invariance == Spec => []IInv
<1>1. Init => IInv
  BY InitInv
<1>2. IInv /\ [Next]_vars => IInv'
  BY NextInv
<1> QED BY <1>1, <1>2, PTL DEF Spec

(* Every variable keeps its type: mem_map never goes below zero, so        *)
(* free_page never meets a page with no reference ("trying to free free    *)
(* page").                                                                 *)
THEOREM TypeCorrect == Spec => []TypeOK
<1>1. IInv => TypeOK
  BY DEF IInv
<1> QED BY <1>1, Invariance, PTL

(* mem_map[p] is the number of places that refer to p, plus the references *)
(* that a failed fork or an overwritten entry lost.                        *)
THEOREM ReferenceCounts == Spec => []RefCounts
BY InvRefCounts, Invariance, PTL

(* A writable user page, a task structure, a page directory, a page table  *)
(* and an argument page have exactly one reference: copy-on-write never    *)
(* leaves a shared page writable.                                          *)
THEOREM ExclusivePages == Spec => []SoleOwner
BY InvSoleOwner, Invariance, PTL

(* exit, release and both ends of execve give back every page. *)
THEOREM NoPageLeftBehind == Spec => []NothingLeftBehind
BY InvNothingLeftBehind, Invariance, PTL

(* What verify_area established holds until the system call returns. *)
THEOREM VerifiedBuffers == Spec => []VerifiedStaysWritable
<1>1. IInv => VerifiedStaysWritable
  BY DEF IInv, Shape
<1> QED BY <1>1, Invariance, PTL


-----------------------------------------------------------------------------
(* Memory refines PrivateMemory.                                           *)
(*                                                                         *)
(* The argument is about the contents of a slot.  A handler changes data   *)
(* only at a page that was free, hence in no slot (RefCounts), or through  *)
(* a writable entry, hence in that slot only (SoleOwner).  So every step   *)
(* keeps the contents of all slots but the few it is about.                *)
USE ZenonT(60)

(* What is read through a slot. *)
Content(s) == IF own[s] # 0 THEN data[own[s]] ELSE NoPage

(* A step changes what is read through the slots of X at most. *)
Keeps(X) == \A s \in Slots : s \notin X => Content(s)' = Content(s)

(* The page of a fresh image at v. *)
ImageAt(v) == IF v \in DOMAIN Program THEN Program[v] ELSE NoPage

(* The part of the child's address space that copy_page_tables is done     *)
(* with refers to the pages of the parent.                                 *)
ForkCopies ==
  fork.parent # 0 => \A v \in VA : DirOf[v] \notin fork.todo =>
     own[Pte(fork.child, v)] = own[Pte(fork.parent, v)]

(* Whatever do_execve has put into page[] and into the address space it    *)
(* builds is a page of the new image.                                      *)
ExecLoads ==
  \A t \in Tasks :
    /\ \A v \in Args : Content(ArgSlot(t, v)) \in {NoPage, Program[v]}
    /\ \A v \in VA : Content(PteSlot(New(t), v)) \in {NoPage, ImageAt(v)}

PInv == IInv /\ ForkCopies /\ ExecLoads

-----------------------------------------------------------------------------
(* What a step does to the contents of the slots. *)

(* A page that get_free_page returned, or any page with no reference, is   *)
(* filled: no slot reads differently.                                      *)
LEMMA FreshPage ==
  ASSUME IInv, NEW p \in Pages, mem_map[p] = 0, NEW x, data' = [data EXCEPT ![p] = x]
  PROVE  /\ \A s \in Slots : own[s] # p
         /\ \A s \in Slots : own[s] # 0 => data'[own[s]] = data[own[s]]
         /\ data'[p] = x
<1>1. Counted(mem_map, own, leaked) /\ TypeOK
  BY DEF IInv, Good
<1>2. \A s \in Slots : own[s] # p
  BY <1>1, Unused, SMTT(30)
<1>3. \A s \in Slots : own[s] # 0 => own[s] \in Pages
  BY <1>1 DEF TypeOK
<1>4. data \in [Pages -> Values]
  BY <1>1 DEF TypeOK
<1> QED BY <1>2, <1>3, <1>4, SMTT(30)

(* A store through a writable entry is seen through that entry only. *)
LEMMA StoreOne ==
  ASSUME IInv, NEW r \in wbit, own[r] # 0, NEW x, data' = [data EXCEPT ![own[r]] = x], own' = own
  PROVE  Keeps({r}) /\ Content(r)' = x
<1>1. TypeOK /\ SoleOwner
  BY InvSoleOwner DEF IInv
<1>2. r \in Slots /\ own[r] \in Pages /\ data \in [Pages -> Values]
  BY <1>1 DEF TypeOK
<1>3. \A s \in Slots : own[s] = own[r] => s = r
  BY <1>1, <1>2 DEF SoleOwner, Exclusive
<1>4. \A s \in Slots : own[s] # 0 => own[s] \in Pages
  BY <1>1 DEF TypeOK
<1>5. \A s \in Slots : s # r /\ own[s] # 0 => data'[own[s]] = data[own[s]]
  BY <1>2, <1>3, <1>4, SMTT(30)
<1>6. data'[own[r]] = x
  BY <1>2
<1> QED BY <1>5, <1>6 DEF Keeps, Content

(* FreeAll: the slots that are cleared read nothing, the others the same. *)
LEMMA FreedReads ==
  ASSUME NEW S \in SUBSET Slots, data' = data,
         own' = [s \in Slots |-> IF s \in S THEN 0 ELSE own[s]]
  PROVE  Keeps(S) /\ \A s \in S : Content(s)' = NoPage
BY DEF Keeps, Content

(* A free page goes into one slot. *)
LEMMA GrabbedReads ==
  ASSUME IInv, NEW r \in Slots, NEW p \in Pages, get_free_page(mem_map, p),
         own' = [own EXCEPT ![r] = p], NEW x, data' = [data EXCEPT ![p] = x]
  PROVE  Keeps({r}) /\ Content(r)' = x
<1>1. mem_map[p] = 0
  BY DEF get_free_page
<1>2. /\ \A s \in Slots : own[s] # p
      /\ \A s \in Slots : own[s] # 0 => data'[own[s]] = data[own[s]]
      /\ data'[p] = x
  BY <1>1, FreshPage
<1>3. own'[r] = p /\ \A s \in Slots : s # r => own'[s] = own[s]
  BY DEF IInv, TypeOK
<1> QED BY <1>2, <1>3, PagesNat DEF Keeps, Content

(* put_page_pgdir changes the entry, and perhaps the table it is in. *)
LEMMA PutReads ==
  ASSUME NEW m, NEW o \in [Slots -> Pages \cup {0}],
         NEW a \in Spaces, NEW v \in VA, NEW p \in Pages, put_page_pgdir(m, o, a, v, p)
  PROVE  /\ own'[PteSlot(a, v)] = p
         /\ \A s \in Slots : s # PteSlot(a, v) /\ s # TabSlot(a, DirOf[v]) => own'[s] = o[s]
<1> DEFINE pte == PteSlot(a, v)
           tab == TabSlot(a, DirOf[v])
<1>1. pte \in Slots /\ tab \in Slots /\ pte # tab
  BY SlotTypes, SlotsDistinct, ConstantsOK
<1>2. \/ own' = [o EXCEPT ![pte] = p]
      \/ \E q \in Pages : own' = [o EXCEPT ![tab] = q, ![pte] = p]
  BY DEF put_page_pgdir
<1> HIDE DEF pte, tab
<1>3. own'[pte] = p /\ \A s \in Slots : s # pte /\ s # tab => own'[s] = o[s]
  BY <1>1, <1>2, SMTT(30)
<1> QED BY <1>3 DEF pte, tab

-----------------------------------------------------------------------------
(* From contents to the invariant and to the view of the tasks. *)

(* The loads of do_execve, after a step that leaves the names of the       *)
(* address spaces alone.                                                   *)
LEMMA LoadsKept ==
  ASSUME IInv, ExecLoads, NEW X, Keeps(X), space' = space,
         \A t \in Tasks, v \in Args : ArgSlot(t, v) \in X =>
            Content(ArgSlot(t, v))' \in {NoPage, Program[v]},
         \A t \in Tasks, v \in VA : PteSlot(New(t), v) \in X =>
            Content(PteSlot(New(t), v))' \in {NoPage, ImageAt(v)}
  PROVE  ExecLoads'
<1>1. \A t \in Tasks : New(t)' = New(t) /\ New(t) \in Spaces
  <2>1. \A t \in Tasks : New(t)' = New(t)
    BY DEF New
  <2> QED BY <2>1, SpaceNames DEF IInv
<1>2. Args \subseteq VA
  BY ConstantsOK
<1>3. ASSUME NEW t \in Tasks, NEW v \in Args
      PROVE  Content(ArgSlot(t, v))' \in {NoPage, Program[v]}
  BY SlotTypes DEF Keeps, ExecLoads
<1>4. ASSUME NEW t \in Tasks, NEW v \in VA
      PROVE  Content(PteSlot(New(t), v))' \in {NoPage, ImageAt(v)}
  <2> DEFINE s == PteSlot(New(t), v)
  <2>1. s \in Slots /\ s' = s
    BY <1>1, SlotTypes
  <2>2. Content(s) \in {NoPage, ImageAt(v)}
    BY DEF ExecLoads
  <2> QED BY <2>1, <2>2 DEF Keeps
<1> QED BY <1>3, <1>4 DEF ExecLoads

(* What a task reads after a step. *)
LEMMA ViewAfter ==
  /\ \A t \in Tasks : View[t] = [v \in VA |->
        IF state[t] = "run" THEN Content(PteSlot(Cur(t), v)) ELSE NoPage]
  /\ \A t \in Tasks : View'[t] = [v \in VA |->
        IF state'[t] = "run" THEN Content(PteSlot(Cur(t), v))' ELSE NoPage]
  /\ DOMAIN View = Tasks /\ DOMAIN View' = Tasks
  /\ View = [t \in Tasks |-> View[t]] /\ View' = [t \in Tasks |-> View'[t]]
BY DEF View, Content, Pte

(* The memory of a task that keeps its address space and its entries. *)
LEMMA SameMemory ==
  ASSUME NEW X, Keeps(X), NEW u \in Tasks, Cur(u)' = Cur(u), Cur(u) \in Spaces,
         state'[u] = "run" <=> state[u] = "run",
         state[u] = "run" => \A v \in VA : PteSlot(Cur(u), v) \notin X
  PROVE  View'[u] = View[u]
<1>1. ASSUME NEW v \in VA, state[u] = "run"
      PROVE  Content(PteSlot(Cur(u), v))' = Content(PteSlot(Cur(u), v))
  <2> DEFINE s == PteSlot(Cur(u), v)
  <2>1. s \in Slots /\ s \notin X /\ s' = s
    BY <1>1, SlotTypes
  <2> QED BY <2>1 DEF Keeps
<1>2. CASE state[u] = "run"
  <2>1. /\ View[u]  = [v \in VA |-> Content(PteSlot(Cur(u), v))]
        /\ View'[u] = [v \in VA |-> Content(PteSlot(Cur(u), v))']
    BY <1>2, ViewAfter
  <2>2. [v \in VA |-> Content(PteSlot(Cur(u), v))] = [v \in VA |-> Content(PteSlot(Cur(u), v))']
    BY <1>1, <1>2
  <2> QED BY <2>1, <2>2
<1>3. CASE state[u] # "run"
  BY <1>3, ViewAfter
<1> QED BY <1>2, <1>3

(* A step no task can see. *)
LEMMA Unseen ==
  ASSUME TypeOK, NEW X, Keeps(X), space' = space,
         \A u \in Tasks : state'[u] = "run" <=> state[u] = "run",
         \A u \in Tasks, v \in VA : state[u] = "run" => PteSlot(Cur(u), v) \notin X
  PROVE  UNCHANGED <<Alive, View>>
<1>1. Alive' = Alive
  BY DEF Alive
<1>2. \A u \in Tasks : Cur(u)' = Cur(u) /\ Cur(u) \in Spaces
  <2>1. \A u \in Tasks : Cur(u)' = Cur(u)
    BY DEF Cur
  <2> QED BY <2>1, SpaceNames
<1>3. \A u \in Tasks : View'[u] = View[u]
  BY <1>2, SameMemory
<1>4. View' = View
  <2> DEFINE V == View
             W == View'
  <2>1. V = [t \in Tasks |-> V[t]] /\ W = [t \in Tasks |-> W[t]] /\ \A u \in Tasks : W[u] = V[u]
    BY <1>3, ViewAfter
  <2> HIDE DEF V, W
  <2>2. W = V
    BY <2>1, SMTT(30)
  <2> QED BY <2>2 DEF V, W
<1> QED BY <1>1, <1>4

(* A step that is about one task. *)
LEMMA SeenByOne ==
  ASSUME TypeOK, NEW X, Keeps(X), NEW t \in Tasks,
         \A u \in Tasks : u # t => /\ space'[u] = space[u]
                                   /\ state'[u] = "run" <=> state[u] = "run"
                                   /\ \A v \in VA : PteSlot(Cur(u), v) \notin X,
         NEW f, View'[t] = f
  PROVE  View' = [View EXCEPT ![t] = f]
<1>2. \A u \in Tasks : u # t => Cur(u)' = Cur(u) /\ Cur(u) \in Spaces
  <2>1. \A u \in Tasks : u # t => Cur(u)' = Cur(u)
    BY DEF Cur
  <2> QED BY <2>1, SpaceNames
<1>3. \A u \in Tasks : u # t => View'[u] = View[u]
  BY <1>2, SameMemory
<1> DEFINE V == View
           W == View'
<1>4. /\ V = [u \in Tasks |-> V[u]] /\ W = [u \in Tasks |-> W[u]]
      /\ W[t] = f /\ \A u \in Tasks : u # t => W[u] = V[u]
  BY <1>3, ViewAfter
<1> HIDE DEF V, W
<1>5. W = [V EXCEPT ![t] = f]
  BY <1>4, SMTT(30)
<1> QED BY <1>5 DEF V, W

-----------------------------------------------------------------------------
(* Each step of Memory is a step of PrivateMemory, or is not seen. *)
PrivateStep == ForkCopies' /\ ExecLoads' /\ [Private!Next]_(Private!vars)

(* A step that is not seen, and touches no page do_execve has loaded.      *)
LEMMA UnseenStep ==
  ASSUME PInv, NEW X, Keeps(X), space' = space, ForkCopies',
         \A u \in Tasks : state'[u] = "run" <=> state[u] = "run",
         \A u \in Tasks, v \in VA : state[u] = "run" => PteSlot(Cur(u), v) \notin X,
         \A u \in Tasks, v \in Args : ArgSlot(u, v) \in X =>
            Content(ArgSlot(u, v))' \in {NoPage, Program[v]},
         \A u \in Tasks, v \in VA : PteSlot(New(u), v) \in X =>
            Content(PteSlot(New(u), v))' \in {NoPage, ImageAt(v)}
  PROVE  PrivateStep
<1>1. ExecLoads'
  BY LoadsKept DEF PInv
<1>2. UNCHANGED <<Alive, View>>
  BY Unseen DEF PInv, IInv
<1>3. UNCHANGED Private!vars
  BY <1>2 DEF Private!vars
<1> QED BY <1>1, <1>3 DEF PrivateStep

(* No fork starts: ForkCopies says nothing. *)
LEMMA NoForkUnderWay ==
  ASSUME fork.parent = 0, fork' = fork
  PROVE  ForkCopies'
BY DEF ForkCopies

(* A task without a page directory reads nothing. *)
LEMMA EmptyMemory ==
  ASSUME IInv, NEW a \in Spaces, own[DirSlot(a)] = 0
  PROVE  \A v \in VA : own[PteSlot(a, v)] = 0 /\ Content(PteSlot(a, v)) = NoPage
<1>1. \A s \in SpaceSlots(a) : own[s] = 0
  BY EmptySpace DEF IInv, Shape
<1>2. \A v \in VA : PteSlot(a, v) \in SpaceSlots(a)
  BY InSpace
<1> QED BY <1>1, <1>2 DEF Content

(* kernel_thread starts a task that has no memory. *)
LEMMA KernelThreadStep ==
  ASSUME PInv, fork.parent = 0, NEW t \in Tasks, kernel_thread(t)
  PROVE  PrivateStep
<1>1. TypeOK /\ TaskStates /\ IInv /\ ExecLoads
  BY DEF PInv, IInv, Shape
<1>2. state[t] = "none" /\ Cur(t) \in Spaces /\ own[DirSlot(Cur(t))] = 0
  BY <1>1, SpaceNames DEF TaskStates, kernel_thread, FirstEmptyTask
<1>3. TaskSlot(t) \in Slots
  BY SlotTypes
<1>4. Keeps({TaskSlot(t)})
  BY <1>1, <1>3, GrabbedReads DEF kernel_thread
<1>5. /\ \A u \in Tasks, v \in Args : ArgSlot(u, v) \notin {TaskSlot(t)}
      /\ \A a \in Spaces, v \in VA : PteSlot(a, v) \notin {TaskSlot(t)}
  BY SlotsDistinct
<1>6. \A u \in Tasks : Cur(u) \in Spaces /\ New(u) \in Spaces
  BY <1>1, SpaceNames
<1>7. space' = space /\ fork' = fork /\ state' = [state EXCEPT ![t] = "run"]
  BY DEF kernel_thread
<1>8. ExecLoads' /\ ForkCopies'
  BY <1>1, <1>4, <1>5, <1>6, <1>7, LoadsKept, NoForkUnderWay
<1>9. \A u \in Tasks : u # t => state'[u] = state[u]
  BY <1>1, <1>7 DEF TypeOK
<1>10. state'[t] = "run"
  BY <1>1, <1>7 DEF TypeOK
<1>11. View'[t] = View[t]
  <2>1. Cur(t)' = Cur(t)
    BY <1>7 DEF Cur
  <2>2. ASSUME NEW v \in VA PROVE Content(PteSlot(Cur(t), v))' = NoPage
    <3> DEFINE s == PteSlot(Cur(t), v)
    <3>1. s \in Slots /\ s \notin {TaskSlot(t)} /\ s' = s
      BY <1>2, <1>5, <2>1, SlotTypes
    <3>2. Content(s) = NoPage
      BY <1>1, <1>2, EmptyMemory
    <3> QED BY <1>4, <3>1, <3>2 DEF Keeps
  <2>3. View'[t] = [v \in VA |-> Content(PteSlot(Cur(t), v))']
    BY <1>10, ViewAfter
  <2>4. View'[t] = [v \in VA |-> NoPage]
    BY <2>2, <2>3
  <2>5. View[t] = [v \in VA |-> NoPage]
    BY <1>2, ViewAfter
  <2> QED BY <2>4, <2>5
<1>12. View' = [View EXCEPT ![t] = View[t]]
  BY <1>1, <1>4, <1>5, <1>6, <1>7, <1>9, <1>11, SeenByOne
<1>13. View' = View
  <2> DEFINE V == View
  <2>1. V = [u \in Tasks |-> V[u]]
    BY ViewAfter
  <2> HIDE DEF V
  <2>2. [V EXCEPT ![t] = V[t]] = V
    BY <2>1, SMTT(30)
  <2> QED BY <1>12, <2>2 DEF V
<1>14. t \notin Alive /\ Alive' = Alive \cup {t}
  BY <1>2, <1>9, <1>10 DEF Alive
<1>15. Private!Start(t)
  BY <1>13, <1>14 DEF Private!Start
<1> QED BY <1>8, <1>15 DEF PrivateStep, Private!Next

(* do_exit, at exit(), a fatal signal or when no page is free: the task    *)
(* and its memory are gone.                                                *)
LEMMA ExitStep ==
  ASSUME PInv, fork.parent = 0, NEW t \in Tasks, state[t] = "run", do_exit(t)
  PROVE  PrivateStep
<1> DEFINE X == SpaceSlots(Cur(t))
<1>1. TypeOK /\ IInv /\ ExecLoads
  BY DEF PInv, IInv
<1>2. \A u \in Tasks : /\ Cur(u) \in Spaces /\ New(u) \in Spaces
                       /\ Cur(t) # New(u) /\ (u # t => Cur(t) # Cur(u))
  BY <1>1, SpaceNames
<1>3. X \in SUBSET Slots
  BY <1>2, InSpace
<1>4. Keeps(X)
  BY <1>3, FreedReads DEF do_exit, FreeAll
<1>5. /\ \A u \in Tasks, v \in Args : ArgSlot(u, v) \notin X
      /\ \A u \in Tasks, v \in VA : PteSlot(New(u), v) \notin X
      /\ \A u \in Tasks, v \in VA : u # t => PteSlot(Cur(u), v) \notin X
  BY <1>2, InSpace
<1>6. space' = space /\ fork' = fork /\ state' = [state EXCEPT ![t] = "zombie"]
  BY DEF do_exit
<1>7. (\A u \in Tasks : u # t => state'[u] = state[u]) /\ state'[t] = "zombie"
  BY <1>1, <1>6 DEF TypeOK
<1> HIDE DEF X
<1>8. ExecLoads' /\ ForkCopies'
  BY <1>1, <1>4, <1>5, <1>6, LoadsKept, NoForkUnderWay
<1>9. View'[t] = Private!Empty
  BY <1>7, ViewAfter DEF Private!Empty
<1>10. View' = [View EXCEPT ![t] = Private!Empty]
  BY <1>1, <1>4, <1>5, <1>6, <1>7, <1>9, SeenByOne
<1>11. t \in Alive /\ Alive' = Alive \ {t}
  BY <1>7 DEF Alive
<1>12. Private!Exit(t)
  BY <1>10, <1>11 DEF Private!Exit
<1> QED BY <1>8, <1>12 DEF PrivateStep, Private!Next

(* release gives back a task structure: nobody sees it. *)
LEMMA ReleaseStep ==
  ASSUME PInv, fork.parent = 0, NEW t \in Tasks, release(t)
  PROVE  PrivateStep
<1>1. TypeOK
  BY DEF PInv, IInv
<1>2. {TaskSlot(t)} \in SUBSET Slots
  BY SlotTypes
<1>3. Keeps({TaskSlot(t)})
  BY <1>2, FreedReads DEF release, FreeAll
<1>4. /\ \A u \in Tasks, v \in Args : ArgSlot(u, v) \notin {TaskSlot(t)}
      /\ \A a, v : PteSlot(a, v) \notin {TaskSlot(t)}
  BY SlotsDistinct
<1>5. space' = space /\ ForkCopies'
  BY NoForkUnderWay DEF release
<1>6. \A u \in Tasks : state'[u] = "run" <=> state[u] = "run"
  BY <1>1 DEF release, TypeOK
<1> QED BY <1>3, <1>4, <1>5, <1>6, UnseenStep

(* A step that changes neither page tables nor pages. *)
LEMMA IdleStep ==
  ASSUME PInv, fork.parent = 0, UNCHANGED <<own, data, state, space, fork>>
  PROVE  PrivateStep
<1>1. Keeps({})
  BY DEF Keeps, Content
<1>2. ForkCopies'
  BY NoForkUnderWay
<1> QED BY <1>1, <1>2, UnseenStep

(* un_wp_page copies a page or makes it writable: nothing reads different. *)
LEMMA UnWpStep ==
  ASSUME PInv, fork.parent = 0, NEW t \in Tasks, NEW v \in VA, own[Pte(t, v)] # 0, un_wp_page(t, v),
         UNCHANGED <<state, space, fork>>
  PROVE  PrivateStep
<1>1. TypeOK /\ IInv
  BY DEF PInv, IInv
<1>2. PICK s \in Slots : s = Pte(t, v)
  BY <1>1, SlotTypes, SpaceNames DEF Pte
<1>3. CASE UNCHANGED <<own, data>>
  BY <1>3, IdleStep
<1>4. ASSUME NEW p \in Pages, get_free_page(mem_map, p), own' = [own EXCEPT ![s] = p],
             data' = [data EXCEPT ![p] = data[own[s]]]
      PROVE  PrivateStep
  <2>1. Keeps({s}) /\ Content(s)' = data[own[s]]
    <3>1. PICK x : x = data[own[s]]
      OBVIOUS
    <3>2. data' = [data EXCEPT ![p] = x]
      BY <1>4, <3>1
    <3>3. Keeps({s}) /\ Content(s)' = x
      BY <1>1, <1>4, <3>2, GrabbedReads
    <3> QED BY <3>1, <3>3
  <2>2. Content(s) = data[own[s]]
    BY <1>2 DEF Content
  <2>3. Keeps({})
    BY <2>1, <2>2 DEF Keeps
  <2>4. ForkCopies'
    BY NoForkUnderWay
  <2> QED BY <2>3, <2>4, UnseenStep
<1> QED BY <1>2, <1>3, <1>4 DEF un_wp_page

(* One entry of one running task reads differently, and no other entry.    *)
LEMMA EntryChanged ==
  ASSUME TypeOK, NEW t \in Tasks, NEW v \in VA, NEW a, a = Cur(t), NEW X, Keeps(X), NEW x,
         Content(PteSlot(a, v))' = x, UNCHANGED <<state, space>>, state[t] = "run",
         \A w \in VA : w # v => PteSlot(a, w) \notin X,
         \A u \in Tasks, w \in VA : u # t => PteSlot(Cur(u), w) \notin X
  PROVE  View' = [View EXCEPT ![t][v] = x] /\ Alive' = Alive /\ t \in Alive
<1>1. Cur(t)' = a /\ a \in Spaces
  BY SpaceNames DEF Cur
<1>2. /\ View[t]  = [w \in VA |-> Content(PteSlot(a, w))]
      /\ View'[t] = [w \in VA |-> Content(PteSlot(a, w))']
  BY <1>1, ViewAfter
<1>3. \A w \in VA : w # v => Content(PteSlot(a, w))' = Content(PteSlot(a, w))
  BY <1>1, SlotTypes DEF Keeps
<1>4. \A w \in VA : Content(PteSlot(a, w))' = [View[t] EXCEPT ![v] = x][w]
  BY <1>2, <1>3
<1>5. View'[t] = [w \in VA |-> [View[t] EXCEPT ![v] = x][w]]
  BY <1>2, <1>4
<1>6. [w \in VA |-> [View[t] EXCEPT ![v] = x][w]] = [View[t] EXCEPT ![v] = x]
  BY <1>2
<1> DEFINE f == [View[t] EXCEPT ![v] = x]
<1>7. View'[t] = f
  BY <1>5, <1>6
<1> HIDE DEF f
<1>8. View' = [View EXCEPT ![t] = f]
  BY <1>7, SeenByOne
<1> QED BY <1>8 DEF f, Alive

(* get_empty_page gives the task a page of zeroes at v. *)
LEMMA FreshStep ==
  ASSUME PInv, fork.parent = 0, NEW t \in Tasks, NEW v \in VA, state[t] = "run",
         get_empty_page(t, v), UNCHANGED <<state, space, fork>>
  PROVE  PrivateStep
<1>0. PICK a : a = Cur(t)
  OBVIOUS
<1> DEFINE s == PteSlot(a, v)
           X == {s, TabSlot(a, DirOf[v])}
<1>1. TypeOK /\ IInv /\ ExecLoads
  BY DEF PInv, IInv
<1>2. \A u \in Tasks : /\ Cur(u) \in Spaces /\ New(u) \in Spaces
                       /\ a # New(u) /\ (u # t => a # Cur(u))
  BY <1>0, <1>1, SpaceNames
<1>3. s \in Slots /\ a \in Spaces
  BY <1>0, <1>2, SlotTypes
<1>4. PICK p \in Pages : /\ get_free_page(mem_map, p)
                         /\ put_page_pgdir(Take(mem_map, p), own, a, v, p)
                         /\ data' = [data EXCEPT ![p] = 0]
  BY <1>0 DEF get_empty_page
<1>5. /\ \A r \in Slots : own[r] # 0 => data'[own[r]] = data[own[r]]
      /\ data'[p] = 0
  BY <1>1, <1>4, FreshPage DEF get_free_page
<1>6. own'[s] = p /\ \A r \in Slots : r \notin X => own'[r] = own[r]
  <2>1. own \in [Slots -> Pages \cup {0}]
    BY <1>1 DEF TypeOK
  <2> QED BY <1>3, <1>4, <2>1, PutReads, SMTT(30)
<1>7. Keeps(X)
  BY <1>5, <1>6 DEF Keeps, Content
<1>8. Content(s)' = 0
  BY <1>4, <1>5, <1>6, PagesNat DEF Content
<1>9. /\ \A u \in Tasks, w \in Args : ArgSlot(u, w) \notin X
      /\ \A u \in Tasks, w \in VA : PteSlot(New(u), w) \notin X
      /\ \A u \in Tasks, w \in VA : u # t => PteSlot(Cur(u), w) \notin X
      /\ \A w \in VA : w # v => PteSlot(a, w) \notin X
  BY <1>2, <1>3, SlotsDistinct
<1>10. Cur(t)' = a
  BY <1>0 DEF Cur
<1> HIDE DEF X
<1>11. ExecLoads' /\ ForkCopies'
  BY <1>1, <1>7, <1>9, LoadsKept, NoForkUnderWay
<1>12. View' = [View EXCEPT ![t][v] = 0] /\ Alive' = Alive /\ t \in Alive
  BY <1>0, <1>1, <1>7, <1>8, <1>9, EntryChanged
<1>13. Private!Fresh(t, v)
  BY <1>12 DEF Private!Fresh
<1> QED BY <1>11, <1>13 DEF PrivateStep, Private!Next

(* A store through a writable entry, by the user program or by put_fs on   *)
(* its behalf, writes the memory of that task.                             *)
LEMMA WriteStep ==
  ASSUME PInv, fork.parent = 0, NEW t \in Tasks, NEW v \in VA, NEW x \in Values, state[t] = "run",
         own[Pte(t, v)] # 0, Pte(t, v) \in wbit, data' = [data EXCEPT ![own[Pte(t, v)]] = x],
         UNCHANGED <<own, state, space, fork>>
  PROVE  PrivateStep
<1>0. PICK a : a = Cur(t)
  OBVIOUS
<1> DEFINE s == PteSlot(a, v)
           X == {s}
<1>1. TypeOK /\ IInv /\ ExecLoads
  BY DEF PInv, IInv
<1>2. \A u \in Tasks : /\ Cur(u) \in Spaces /\ New(u) \in Spaces
                       /\ a # New(u) /\ (u # t => a # Cur(u))
  BY <1>0, <1>1, SpaceNames
<1>3. s \in Slots /\ a \in Spaces /\ s = Pte(t, v)
  BY <1>0, <1>2, SlotTypes DEF Pte
<1>4. Keeps(X) /\ Content(s)' = x
  BY <1>1, <1>3, StoreOne
<1>5. /\ \A u \in Tasks, w \in Args : ArgSlot(u, w) \notin X
      /\ \A u \in Tasks, w \in VA : PteSlot(New(u), w) \notin X
      /\ \A u \in Tasks, w \in VA : u # t => PteSlot(Cur(u), w) \notin X
      /\ \A w \in VA : w # v => PteSlot(a, w) \notin X
  BY <1>2, <1>3, SlotsDistinct
<1> HIDE DEF X
<1>6. ExecLoads' /\ ForkCopies'
  BY <1>1, <1>4, <1>5, LoadsKept, NoForkUnderWay
<1>7. View' = [View EXCEPT ![t][v] = x] /\ Alive' = Alive /\ t \in Alive
  BY <1>0, <1>1, <1>4, <1>5, EntryChanged, SMTT(40)
<1>8. View[t][v] # NoPage
  <2>1. View[t][v] = Content(s)
    <3>1. View[t] = [w \in VA |-> Content(PteSlot(a, w))]
      BY <1>0, ViewAfter
    <3> QED BY <3>1
  <2>2. own[s] \in Pages /\ data \in [Pages -> Values]
    BY <1>1, <1>3 DEF TypeOK
  <2>3. Content(s) \in Values
    BY <1>3, <2>2 DEF Content
  <2> QED BY <2>1, <2>3, ConstantsOK
<1>9. Private!Write(t, v, x)
  BY <1>7, <1>8 DEF Private!Write
<1> QED BY <1>6, <1>9 DEF PrivateStep, Private!Next

(* MakeWritable, in page_fault_handler and in verify_area. *)
LEMMA MakeWritableStep ==
  ASSUME PInv, fork.parent = 0, NEW t \in Tasks, NEW v \in VA, state[t] = "run", MakeWritable(t, v),
         UNCHANGED <<state, space, fork>>
  PROVE  PrivateStep
BY FreshStep, UnWpStep DEF MakeWritable, ReadOnly

(* page_fault_handler gives a page, copies one, or ends the task. *)
LEMMA PageFaultStep ==
  ASSUME PInv, fork.parent = 0, NEW t \in Tasks, NEW v \in VA, page_fault_handler(t, v)
  PROVE  PrivateStep
BY MakeWritableStep, ExitStep DEF page_fault_handler, InUser, HasSpace

(* So does verify_area, which leaves a writable page alone. *)
LEMMA VerifyAreaStep ==
  ASSUME PInv, fork.parent = 0, NEW t \in Tasks, NEW v \in VA, verify_area(t, v)
  PROVE  PrivateStep
BY MakeWritableStep, ExitStep, IdleStep DEF verify_area, HasSpace

(* A store of the user program. *)
LEMMA UserStoreStep ==
  ASSUME PInv, fork.parent = 0, NEW t \in Tasks, NEW v \in VA, NEW x \in Values, UserStore(t, v, x)
  PROVE  PrivateStep
BY WriteStep DEF UserStore, InUser, HasSpace

(* A store of put_fs into a buffer that verify_area passed. *)
LEMMA CopyOutStep ==
  ASSUME PInv, fork.parent = 0, NEW t \in Tasks, NEW v \in VA, NEW x \in Values, CopyOut(t, v, x)
  PROVE  PrivateStep
<1>1. TaskStates /\ VerifiedStaysWritable
  BY DEF PInv, IInv, Shape
<1>2. state[t] = "run" /\ own[Pte(t, v)] # 0 /\ Pte(t, v) \in wbit
  BY <1>1 DEF CopyOut, TaskStates, VerifiedStaysWritable
<1> QED BY <1>2, WriteStep DEF CopyOut, put_fs

-----------------------------------------------------------------------------
(* fork *)

(* copy_process takes a task structure and a page directory: nobody sees   *)
(* the child yet, and nothing is shared.                                   *)
LEMMA SysForkStep ==
  ASSUME PInv, fork.parent = 0, NEW t \in Tasks, NEW c \in Tasks, sys_fork(t, c)
  PROVE  PrivateStep
<1>0. PICK a, b : a = Cur(t) /\ b = Cur(c)
  OBVIOUS
<1> DEFINE X == {TaskSlot(c), DirSlot(b)}
<1>1. TypeOK /\ IInv /\ TaskStates /\ Tree
  BY DEF PInv, IInv, Shape
<1>2. a \in Spaces /\ b \in Spaces /\ TaskSlot(c) \in Slots /\ DirSlot(b) \in Slots
  BY <1>0, <1>1, SpaceNames, SlotTypes
<1>3. state[c] = "none" /\ own[DirSlot(b)] = 0
  BY <1>0, <1>1 DEF sys_fork, FirstEmptyTask, TaskStates
<1>4. PICK p, q \in Pages : /\ get_free_page(mem_map, p)
                            /\ get_free_page(Take(mem_map, p), q)
                            /\ own'  = [own EXCEPT ![TaskSlot(c)] = p, ![DirSlot(b)] = q]
                            /\ data' = [data EXCEPT ![p] = 0, ![q] = 0]
  BY <1>0 DEF sys_fork
<1>5. mem_map[p] = 0 /\ mem_map[q] = 0
  BY <1>1, <1>4, SMTT(30) DEF get_free_page, Take, TypeOK
<1>6. \A s \in Slots : own[s] # p /\ own[s] # q
  <2>1. Counted(mem_map, own, leaked)
    BY <1>1 DEF IInv, Good
  <2> QED BY <1>5, <2>1, Unused, SMTT(30)
<1>7. \A s \in Slots : own[s] # 0 => data'[own[s]] = data[own[s]]
  <2>1. \A s \in Slots : own[s] # 0 => own[s] \in Pages
    BY <1>1 DEF TypeOK
  <2>2. data \in [Pages -> Values]
    BY <1>1 DEF TypeOK
  <2> QED BY <1>4, <1>6, <2>1, <2>2, SMTT(30)
<1>8. \A s \in Slots : s \notin X => own'[s] = own[s]
  BY <1>1, <1>4 DEF TypeOK
<1>9. Keeps(X)
  BY <1>7, <1>8 DEF Keeps, Content
<1>10. /\ \A u \in Tasks, v \in Args : ArgSlot(u, v) \notin X
       /\ \A r \in Spaces, v \in VA : PteSlot(r, v) \notin X
  BY <1>2, SlotsDistinct
<1>11. \A u \in Tasks : Cur(u) \in Spaces /\ New(u) \in Spaces
  BY <1>1, SpaceNames
<1>12. space' = space /\ \A u \in Tasks : state'[u] = "run" <=> state[u] = "run"
  BY <1>1, <1>3 DEF sys_fork, TypeOK
<1>13. ForkCopies'
  <2>1. fork'.parent = t /\ fork'.child = c
        /\ \A d \in Dirs : own[TabSlot(a, d)] # 0 => d \in fork'.todo
    BY <1>0 DEF sys_fork
  <2>2. Cur(t)' = a /\ Cur(c)' = b
    BY <1>0, <1>12 DEF Cur
  <2>3. ASSUME NEW v \in VA, DirOf[v] \notin fork'.todo
        PROVE  own'[PteSlot(b, v)] = own'[PteSlot(a, v)]
    <3>1. DirOf[v] \in Dirs
      BY ConstantsOK
    <3>2. own[PteSlot(a, v)] = 0
      BY <1>1, <1>2, <2>1, <2>3, <3>1 DEF Tree
    <3>3. own[PteSlot(b, v)] = 0
      BY <1>1, <1>2, <1>3, EmptyMemory
    <3>4. PteSlot(a, v) \in Slots /\ PteSlot(b, v) \in Slots
      BY <1>2, SlotTypes
    <3> QED BY <1>2, <1>8, <1>10, <3>2, <3>3, <3>4
  <2> QED BY <2>1, <2>2, <2>3 DEF ForkCopies, Pte
<1> HIDE DEF X
<1> QED BY <1>9, <1>10, <1>11, <1>12, <1>13, UnseenStep

(* copy_page_tables: a further part of the child is done, unseen. *)
LEMMA CopyTablesStep ==
  ASSUME PInv, fork.parent # 0, NEW d \in Dirs, copy_page_tables(d)
  PROVE  PrivateStep
<1> DEFINE a  == Cur(fork.parent)
           b  == Cur(fork.child)
           vs == {v \in VA : DirOf[v] = d /\ own[PteSlot(a, v)] # 0}
           X  == {TabSlot(b, d)} \cup PteSlots(b)
<1>1. TypeOK /\ IInv /\ ForkState /\ Tree /\ ForkCopies
  BY DEF PInv, IInv, Shape
<1>2. fork.parent \in Tasks /\ fork.child \in Tasks /\ state[fork.parent] = "run"
      /\ state[fork.child] = "new"
  BY <1>1 DEF ForkState
<1>3. a \in Spaces /\ b \in Spaces /\ a # b
      /\ \A u \in Tasks : /\ Cur(u) \in Spaces /\ New(u) \in Spaces /\ New(u) # b
                          /\ (Cur(u) = b => u = fork.child)
  BY <1>1, <1>2, SpaceNames, SMTT(30)
<1>4. PICK q \in Pages :
         /\ get_free_page(mem_map, q)
         /\ own' = [s \in Slots |->
               IF s = TabSlot(b, d) THEN q
               ELSE IF s \in {PteSlot(b, v) : v \in vs} THEN own[PteSlot(a, VaOf(s))]
               ELSE own[s]]
         /\ data' = [data EXCEPT ![q] = 0]
  BY DEF copy_page_tables
<1>5. \A s \in Slots : own[s] # 0 => data'[own[s]] = data[own[s]]
  BY <1>1, <1>4, FreshPage DEF get_free_page
<1>6. \A v \in vs : PteSlot(b, v) \in PteSlots(b)
  BY DEF PteSlots
<1>7. Keeps(X)
  BY <1>4, <1>5, <1>6 DEF Keeps, Content
<1>8. /\ \A u \in Tasks, v \in Args : ArgSlot(u, v) \notin X
      /\ \A r \in Spaces, v \in VA : r # b => PteSlot(r, v) \notin X
  BY <1>3, SlotsDistinct, SMTT(30) DEF PteSlots
<1>9. space' = space /\ state' = state
  BY DEF copy_page_tables
<1>10. \A u \in Tasks, v \in VA : state[u] = "run" => PteSlot(Cur(u), v) \notin X
  BY <1>2, <1>3, <1>8
<1>11. ForkCopies'
  <2>1. fork'.parent = fork.parent /\ fork'.child = fork.child /\ fork'.todo = fork.todo \ {d}
        /\ d \in fork.todo
    BY <1>1 DEF copy_page_tables, NextDir, TypeOK
  <2>2. Cur(fork.parent)' = a /\ Cur(fork.child)' = b
    BY <1>9, <2>1 DEF Cur
  <2>3. ASSUME NEW v \in VA, DirOf[v] \notin fork'.todo
        PROVE  own'[PteSlot(b, v)] = own'[PteSlot(a, v)]
    <3>1. /\ PteSlot(a, v) \in Slots /\ PteSlot(b, v) \in Slots /\ VaOf(PteSlot(b, v)) = v
          /\ PteSlot(a, v) # TabSlot(b, d) /\ PteSlot(b, v) # TabSlot(b, d)
          /\ PteSlot(a, v) \notin {PteSlot(b, w) : w \in vs}
          /\ PteSlot(b, v) \in {PteSlot(b, w) : w \in vs} => v \in vs
      BY <1>3, SlotTypes, SlotsDistinct, SMTT(30)
    <3>2. own'[PteSlot(a, v)] = own[PteSlot(a, v)]
      BY <1>4, <3>1
    <3>3. CASE v \in vs
      BY <1>4, <3>1, <3>2, <3>3
    <3>4. CASE v \notin vs /\ DirOf[v] = d
      <4>1. own[PteSlot(a, v)] = 0
        BY <3>4
      <4>2. own[PteSlot(b, v)] = 0
        BY <1>1, <1>3, <2>1, <3>4 DEF ForkState, Tree
      <4>3. own'[PteSlot(b, v)] = own[PteSlot(b, v)]
        BY <1>4, <3>1, <3>4
      <4> QED BY <3>2, <4>1, <4>2, <4>3
    <3>5. CASE DirOf[v] # d
      <4>1. own[PteSlot(b, v)] = own[PteSlot(a, v)]
        BY <1>1, <2>1, <2>3, <3>5 DEF ForkCopies, Pte
      <4>2. own'[PteSlot(b, v)] = own[PteSlot(b, v)]
        BY <1>4, <3>1, <3>5
      <4> QED BY <3>2, <4>1, <4>2
    <3> QED BY <3>3, <3>4, <3>5
  <2> QED BY <2>1, <2>2, <2>3 DEF ForkCopies, Pte
<1> HIDE DEF X
<1> QED BY <1>3, <1>7, <1>8, <1>9, <1>10, <1>11, UnseenStep

(* fork gives up: the child was never seen. *)
LEMMA ForkFailsStep ==
  ASSUME PInv, fork.parent # 0, ForkFails
  PROVE  PrivateStep
<1> DEFINE c == fork.child
           b == Cur(c)
           X == {TaskSlot(c), DirSlot(b)} \cup (TabSlots(b) \cup PteSlots(b))
<1>1. TypeOK /\ IInv /\ ForkState
  BY DEF PInv, IInv, Shape
<1>2. c \in Tasks /\ state[c] = "new"
  BY <1>1 DEF ForkState
<1>3. b \in Spaces
      /\ \A u \in Tasks : /\ Cur(u) \in Spaces /\ New(u) \in Spaces /\ New(u) # b
                          /\ (Cur(u) = b => u = c)
  BY <1>1, <1>2, SpaceNames, SMTT(30)
<1>4. X \in SUBSET Slots
  <2>1. TabSlots(b) \subseteq Slots /\ PteSlots(b) \subseteq Slots
    BY <1>3, InSpace
  <2>2. TaskSlot(c) \in Slots /\ DirSlot(b) \in Slots
    BY <1>2, <1>3, SlotTypes
  <2> QED BY <2>1, <2>2
<1>5. own' = [s \in Slots |-> IF s \in X THEN 0 ELSE own[s]] /\ data' = data
  BY DEF ForkFails
<1>6. Keeps(X)
  BY <1>4, <1>5, FreedReads
<1>7. /\ \A u \in Tasks, v \in Args : ArgSlot(u, v) \notin X
      /\ \A r \in Spaces, v \in VA : r # b => PteSlot(r, v) \notin X
  BY <1>3, SlotsDistinct, SMTT(30) DEF PteSlots, TabSlots
<1>8. space' = space /\ state' = [state EXCEPT ![c] = "none"] /\ fork' = NoFork
  BY DEF ForkFails
<1>9. \A u \in Tasks : state'[u] = "run" <=> state[u] = "run"
  BY <1>1, <1>2, <1>8 DEF TypeOK
<1>10. \A u \in Tasks, v \in VA : state[u] = "run" => PteSlot(Cur(u), v) \notin X
  BY <1>2, <1>3, <1>7
<1>11. ForkCopies'
  BY <1>8 DEF ForkCopies, NoFork
<1> HIDE DEF X
<1> QED BY <1>3, <1>6, <1>7, <1>8, <1>9, <1>10, <1>11, UnseenStep

(* The child becomes runnable, with a copy of the parent's memory. *)
LEMMA ForkReturnsStep ==
  ASSUME PInv, fork.parent # 0, ForkReturns
  PROVE  PrivateStep
<1>1. TypeOK /\ IInv /\ ForkState /\ ForkCopies /\ ExecLoads
  BY DEF PInv, IInv, Shape
<1>2. PICK t \in Tasks, c \in Tasks : t = fork.parent /\ c = fork.child
  BY <1>1 DEF ForkState
<1>3. state[t] = "run" /\ state[c] = "new"
  BY <1>1, <1>2 DEF ForkState
<1>4. state' = [state EXCEPT ![c] = "run"] /\ fork' = NoFork /\ UNCHANGED <<own, data, space>>
      /\ fork.todo = {}
  BY <1>2 DEF ForkReturns
<1>5. state'[c] = "run" /\ \A u \in Tasks : u # c => state'[u] = state[u]
  BY <1>1, <1>4 DEF TypeOK
<1>6. Keeps({})
  BY <1>4 DEF Keeps, Content
<1>7. ExecLoads' /\ ForkCopies'
  <2>1. ForkCopies'
    BY <1>4 DEF ForkCopies, NoFork
  <2> QED BY <1>1, <1>4, <1>6, <2>1, LoadsKept
<1>8. View'[c] = View[t]
  <2>1. /\ View[t]  = [v \in VA |-> Content(PteSlot(Cur(t), v))]
        /\ View'[c] = [v \in VA |-> Content(PteSlot(Cur(c), v))']
    BY <1>3, <1>5, ViewAfter
  <2>2. Cur(c)' = Cur(c)
    BY <1>4 DEF Cur
  <2>3. \A v \in VA : Content(PteSlot(Cur(c), v))' = Content(PteSlot(Cur(c), v))
    BY <1>4, <2>2 DEF Content
  <2>4. \A v \in VA : own[PteSlot(Cur(c), v)] = own[PteSlot(Cur(t), v)]
    BY <1>1, <1>2, <1>4 DEF ForkCopies, Pte
  <2>5. \A v \in VA : Content(PteSlot(Cur(c), v)) = Content(PteSlot(Cur(t), v))
    BY <2>4 DEF Content
  <2>6. \A v \in VA : Content(PteSlot(Cur(c), v))' = Content(PteSlot(Cur(t), v))
    BY <2>3, <2>5
  <2> QED BY <2>1, <2>6
<1>9. View' = [View EXCEPT ![c] = View[t]]
  <2> DEFINE f == View[t]
  <2>1. View'[c] = f
    BY <1>8
  <2> HIDE DEF f
  <2>2. View' = [View EXCEPT ![c] = f]
    <3> DEFINE X == {}
    <3>1. Keeps(X) /\ \A u \in Tasks, v \in VA : PteSlot(Cur(u), v) \notin X
      BY <1>6
    <3> HIDE DEF X
    <3> QED BY <1>1, <1>4, <1>5, <2>1, <3>1, SeenByOne, SMTT(40)
  <2> QED BY <2>2 DEF f
<1>10. t \in Alive /\ c \notin Alive /\ Alive' = Alive \cup {c}
  BY <1>3, <1>5 DEF Alive
<1>11. Private!Fork(t, c)
  BY <1>9, <1>10 DEF Private!Fork
<1> QED BY <1>7, <1>11 DEF PrivateStep, Private!Next

-----------------------------------------------------------------------------
(* execve *)

(* copy_strings puts the arguments into a page of page[]. *)
LEMMA CopyStringsStep ==
  ASSUME PInv, fork.parent = 0, NEW t \in Tasks, NEW v \in VA, copy_strings(t, v)
  PROVE  PrivateStep
<1> DEFINE s == ArgSlot(t, v)
           X == {s}
<1>1. TypeOK /\ IInv
  BY DEF PInv, IInv
<1>2. v \in Args /\ s \in Slots
  BY SlotTypes DEF copy_strings
<1>3. Keeps(X) /\ Content(s)' = Program[v]
  <2>1. PICK p \in Pages : /\ get_free_page(mem_map, p)
                           /\ own'  = [own EXCEPT ![s] = p]
                           /\ data' = [data EXCEPT ![p] = Program[v]]
    BY DEF copy_strings
  <2> QED BY <1>1, <1>2, <2>1, GrabbedReads
<1>4. /\ \A a, w : PteSlot(a, w) \notin X
      /\ \A u \in Tasks, w \in Args : ArgSlot(u, w) \in X => u = t /\ w = v
  BY <1>2, SlotsDistinct
<1>5. \A u \in Tasks, w \in Args : ArgSlot(u, w) \in X => Content(ArgSlot(u, w))' = Program[w]
  BY <1>3, <1>4
<1>6. space' = space /\ state' = state /\ ForkCopies'
  BY NoForkUnderWay DEF copy_strings
<1> HIDE DEF X
<1> QED BY <1>3, <1>4, <1>5, <1>6, UnseenStep

(* A new page directory. *)
LEMMA ExecPgdirStep ==
  ASSUME PInv, fork.parent = 0, NEW t \in Tasks, ExecPgdir(t)
  PROVE  PrivateStep
<1>1. TypeOK /\ IInv
  BY DEF PInv, IInv
<1>2. PICK s \in Slots : s = DirSlot(New(t))
  BY <1>1, SlotTypes, SpaceNames
<1> DEFINE X == {s}
<1>3. Keeps(X)
  BY <1>1, <1>2, GrabbedReads DEF ExecPgdir
<1>4. /\ \A a, w : PteSlot(a, w) \notin X
      /\ \A u \in Tasks, w \in Args : ArgSlot(u, w) \notin X
  BY <1>2, SlotsDistinct
<1>5. space' = space /\ state' = state /\ ForkCopies'
  BY NoForkUnderWay DEF ExecPgdir
<1> HIDE DEF X
<1> QED BY <1>3, <1>4, <1>5, UnseenStep

(* An argument page moves into the new address space. *)
LEMMA ExecMapArgStep ==
  ASSUME PInv, fork.parent = 0, NEW t \in Tasks, NEW v \in VA, ExecMapArg(t, v)
  PROVE  PrivateStep
<1>1. TypeOK /\ IInv /\ ExecLoads
  BY DEF PInv, IInv
<1>2. PICK a \in Spaces : a = New(t)
  BY <1>1, SpaceNames
<1> DEFINE arg == ArgSlot(t, v)
           pte == PteSlot(a, v)
           tab == TabSlot(a, DirOf[v])
           X   == {arg, pte, tab}
<1>3. v \in Args /\ arg \in Slots /\ pte \in Slots /\ arg # pte /\ arg # tab
  BY SlotTypes, SlotsDistinct DEF ExecMapArg
<1>4. PICK p \in Pages : p = own[arg]
  BY <1>1, <1>3 DEF ExecMapArg, TypeOK
<1> DEFINE o == [own EXCEPT ![arg] = 0]
<1>5. o \in [Slots -> Pages \cup {0}] /\ o[arg] = 0 /\ \A s \in Slots : s # arg => o[s] = own[s]
  BY <1>1, <1>3 DEF TypeOK
<1>6. own'[pte] = p /\ \A s \in Slots : s # pte /\ s # tab => own'[s] = o[s]
  <2>1. put_page_pgdir(mem_map, o, a, v, p)
    BY <1>2, <1>4 DEF ExecMapArg
  <2>2. o \in [Slots -> Pages \cup {0}]
    BY <1>5
  <2> HIDE DEF o
  <2> QED BY <2>1, <2>2, PutReads
<1> HIDE DEF o
<1>7. data' = data /\ space' = space /\ state' = state /\ fork' = fork
  BY DEF ExecMapArg
<1>8. Keeps(X)
  BY <1>5, <1>6, <1>7 DEF Keeps, Content
<1>9. Content(arg)' = NoPage
  BY <1>3, <1>5, <1>6 DEF Content
<1>10. Content(pte)' \in {NoPage, ImageAt(v)}
  <2>1. Content(pte)' = Content(arg)
    BY <1>4, <1>6, <1>7, PagesNat DEF Content
  <2>2. Content(arg) \in {NoPage, Program[v]}
    BY <1>1, <1>3 DEF ExecLoads
  <2>3. ImageAt(v) = Program[v]
    BY <1>3, ConstantsOK DEF ImageAt
  <2> QED BY <2>1, <2>2, <2>3
<1>11. \A u \in Tasks : /\ Cur(u) \in Spaces /\ New(u) \in Spaces /\ Cur(u) # a
                        /\ (New(u) = a => u = t) /\ New(u)' = New(u)
  <2>1. \A u \in Tasks : New(u)' = New(u)
    BY <1>7 DEF New
  <2> QED BY <1>1, <1>2, <2>1, SpaceNames
<1>12. /\ \A u \in Tasks, w \in Args : ArgSlot(u, w) \in X => ArgSlot(u, w) = arg
       /\ \A b \in Spaces, w \in VA : PteSlot(b, w) \in X => b = a /\ w = v
  BY <1>2, SlotsDistinct, SMTT(30)
<1>13. \A u \in Tasks, w \in Args : ArgSlot(u, w) \in X =>
          Content(ArgSlot(u, w))' \in {NoPage, Program[w]}
  BY <1>9, <1>12
<1>14. \A u \in Tasks, w \in VA : PteSlot(New(u), w) \in X =>
          Content(PteSlot(New(u), w))' \in {NoPage, ImageAt(w)}
  BY <1>10, <1>11, <1>12
<1>15. ForkCopies' /\ \A u \in Tasks, w \in VA : PteSlot(Cur(u), w) \notin X
  BY <1>7, <1>11, <1>12, NoForkUnderWay
<1> HIDE DEF X
<1> QED BY <1>7, <1>8, <1>13, <1>14, <1>15, UnseenStep

(* load_segment reads a page of the program into the new address space. *)
LEMMA LoadSegmentStep ==
  ASSUME PInv, fork.parent = 0, NEW t \in Tasks, NEW v \in VA, load_segment(t, v)
  PROVE  PrivateStep
<1>1. TypeOK /\ IInv
  BY DEF PInv, IInv
<1>2. PICK a \in Spaces : a = New(t)
  BY <1>1, SpaceNames
<1> DEFINE pte == PteSlot(a, v)
           X   == {pte, TabSlot(a, DirOf[v])}
<1>3. v \in DOMAIN Program /\ pte \in Slots
  BY SlotTypes DEF load_segment
<1>4. PICK p \in Pages : /\ get_free_page(mem_map, p)
                         /\ put_page_pgdir(Take(mem_map, p), own, a, v, p)
                         /\ data' = [data EXCEPT ![p] = Program[v]]
  BY <1>2 DEF load_segment
<1>5. /\ \A r \in Slots : own[r] # 0 => data'[own[r]] = data[own[r]]
      /\ data'[p] = Program[v]
  BY <1>1, <1>4, FreshPage DEF get_free_page
<1>6. own'[pte] = p /\ \A s \in Slots : s \notin X => own'[s] = own[s]
  <2>1. own \in [Slots -> Pages \cup {0}]
    BY <1>1 DEF TypeOK
  <2> QED BY <1>2, <1>4, <2>1, PutReads, SMTT(30)
<1>7. Keeps(X)
  BY <1>5, <1>6 DEF Keeps, Content
<1>8. Content(pte)' = ImageAt(v)
  BY <1>3, <1>4, <1>5, <1>6, PagesNat DEF Content, ImageAt
<1>9. space' = space /\ state' = state /\ fork' = fork
  BY DEF load_segment
<1>10. \A u \in Tasks : /\ Cur(u) \in Spaces /\ New(u) \in Spaces /\ Cur(u) # a
                        /\ New(u)' = New(u)
  <2>1. \A u \in Tasks : New(u)' = New(u)
    BY <1>9 DEF New
  <2> QED BY <1>1, <1>2, <2>1, SpaceNames
<1>11. /\ \A u \in Tasks, w \in Args : ArgSlot(u, w) \notin X
       /\ \A b \in Spaces, w \in VA : PteSlot(b, w) \in X => b = a /\ w = v
  BY <1>2, SlotsDistinct, SMTT(30)
<1>12. \A u \in Tasks, w \in VA : PteSlot(New(u), w) \in X =>
          Content(PteSlot(New(u), w))' \in {NoPage, ImageAt(w)}
  BY <1>8, <1>10, <1>11
<1>13. ForkCopies' /\ \A u \in Tasks, w \in VA : PteSlot(Cur(u), w) \notin X
  BY <1>9, <1>10, <1>11, NoForkUnderWay
<1> HIDE DEF X
<1> QED BY <1>7, <1>9, <1>11, <1>12, <1>13, UnseenStep

(* The address spaces of a task trade places when execve succeeds. *)
LEMMA SpacesSwap ==
  ASSUME TypeOK, NEW t \in Tasks, space' = [space EXCEPT ![t] = 1 - @]
  PROVE  /\ Cur(t)' = New(t) /\ New(t)' = Cur(t)
         /\ \A u \in Tasks : u # t => space'[u] = space[u] /\ New(u)' = New(u)
<1>1. space \in [Tasks -> {0, 1}]
  BY DEF TypeOK
<1>2. space'[t] = 1 - space[t] /\ 1 - (1 - space[t]) = space[t]
      /\ \A u \in Tasks : u # t => space'[u] = space[u]
  BY <1>1, SMTT(30)
<1> QED BY <1>2 DEF Cur, New

(* The loads of do_execve after a step that empties both address spaces of *)
(* the task, or the one that is left behind.                               *)
LEMMA LoadsSwap ==
  ASSUME IInv, ExecLoads, NEW t \in Tasks, NEW X, Keeps(X), space' = [space EXCEPT ![t] = 1 - @],
         \A u \in Tasks, v \in Args : ArgSlot(u, v) \notin X,
         \A u \in Tasks, v \in VA : u # t => PteSlot(New(u), v) \notin X,
         \A v \in VA : own'[PteSlot(Cur(t), v)] = 0
  PROVE  ExecLoads'
<1>1. /\ New(t)' = Cur(t)
      /\ \A u \in Tasks : u # t => New(u)' = New(u) /\ New(u) \in Spaces
  BY SpacesSwap, SpaceNames DEF IInv
<1>2. ASSUME NEW u \in Tasks, NEW v \in Args
      PROVE  Content(ArgSlot(u, v))' \in {NoPage, Program[v]}
  BY SlotTypes DEF Keeps, ExecLoads
<1>3. ASSUME NEW u \in Tasks, NEW v \in VA
      PROVE  Content(PteSlot(New(u), v))' \in {NoPage, ImageAt(v)}
  <2>1. CASE u = t
    BY <1>1, <2>1 DEF Content
  <2>2. CASE u # t
    <3> DEFINE s == PteSlot(New(u), v)
    <3>1. s \in Slots /\ s' = s /\ s \notin X
      BY <1>1, <2>2, SlotTypes
    <3>2. Content(s) \in {NoPage, ImageAt(v)}
      BY DEF ExecLoads
    <3> QED BY <3>1, <3>2 DEF Keeps
  <2> QED BY <2>1, <2>2
<1> QED BY <1>2, <1>3 DEF ExecLoads

(* execve succeeds: the task reads the new image and nothing else. *)
LEMMA ExecCommitsStep ==
  ASSUME PInv, fork.parent = 0, NEW t \in Tasks, ExecCommits(t)
  PROVE  PrivateStep
<1> DEFINE X == SpaceSlots(Cur(t))
<1>1. TypeOK /\ IInv /\ ExecLoads /\ TaskStates
  BY DEF PInv, IInv, Shape
<1>2. \A u \in Tasks : /\ Cur(u) \in Spaces /\ New(u) \in Spaces
                       /\ Cur(t) # New(u) /\ (u # t => Cur(t) # Cur(u))
  BY <1>1, SpaceNames
<1>3. X \in SUBSET Slots
  BY <1>2, InSpace
<1>4. Keeps(X)
  BY <1>3, FreedReads DEF ExecCommits, FreeAll
<1>5. /\ \A u \in Tasks, v \in Args : ArgSlot(u, v) \notin X
      /\ \A u \in Tasks, v \in VA : PteSlot(New(u), v) \notin X
      /\ \A u \in Tasks, v \in VA : u # t => PteSlot(Cur(u), v) \notin X
      /\ \A v \in VA : PteSlot(Cur(t), v) \in X
  BY <1>2, InSpace
<1>6. \A v \in VA : own'[PteSlot(Cur(t), v)] = 0
  BY <1>3, <1>5 DEF ExecCommits, FreeAll
<1>7. space' = [space EXCEPT ![t] = 1 - @] /\ fork' = fork /\ state' = state
      /\ state[t] = "run"
  BY <1>1 DEF ExecCommits, Execing, TaskStates
<1> HIDE DEF X
<1>8. ExecLoads' /\ ForkCopies'
  BY <1>1, <1>4, <1>5, <1>6, <1>7, LoadsSwap, NoForkUnderWay
<1>9. Cur(t)' = New(t) /\ \A u \in Tasks : u # t => space'[u] = space[u]
  BY <1>1, <1>7, SpacesSwap
<1>10. ASSUME NEW v \in VA PROVE Content(PteSlot(Cur(t), v))' = ImageAt(v)
  <2>0. PICK s \in Slots : s = PteSlot(New(t), v)
    BY <1>2, SlotTypes
  <2>1. Content(PteSlot(Cur(t), v))' = Content(s)'
    BY <1>9, <2>0 DEF Content
  <2>2. Content(s)' = Content(s)
    BY <1>4, <1>5, <2>0 DEF Keeps
  <2>3. Content(s) \in {NoPage, ImageAt(v)}
    BY <1>1, <2>0 DEF ExecLoads
  <2>4. CASE v \in DOMAIN Program
    <3>1. own[s] # 0
      BY <2>0, <2>4 DEF ExecCommits, Loaded
    <3>2. own[s] \in Pages /\ data \in [Pages -> Values]
      BY <1>1, <3>1 DEF TypeOK
    <3>3. Content(s) # NoPage
      BY <3>1, <3>2, ConstantsOK DEF Content
    <3> QED BY <2>1, <2>2, <2>3, <3>3
  <2>5. CASE v \notin DOMAIN Program
    BY <2>1, <2>2, <2>3, <2>5 DEF ImageAt
  <2> QED BY <2>4, <2>5
<1>11. View'[t] = Private!Image
  <2>1. state'[t] = "run"
    BY <1>7
  <2>2. View'[t] = [v \in VA |-> Content(PteSlot(Cur(t), v))']
    BY <2>1, ViewAfter
  <2> QED BY <1>10, <2>2 DEF Private!Image, ImageAt
<1>12. View' = [View EXCEPT ![t] = Private!Image]
  BY <1>1, <1>4, <1>5, <1>7, <1>9, <1>11, SeenByOne
<1>13. t \in Alive /\ Alive' = Alive
  BY <1>7 DEF Alive
<1>14. Private!Exec(t)
  BY <1>12, <1>13 DEF Private!Exec
<1> QED BY <1>8, <1>14 DEF PrivateStep, Private!Next

(* create_tables faults: the task ends in its new address space. *)
LEMMA ExecFaultsStep ==
  ASSUME PInv, fork.parent = 0, NEW t \in Tasks, ExecFaults(t)
  PROVE  PrivateStep
<1> DEFINE X == SpaceSlots(Cur(t)) \cup SpaceSlots(New(t))
<1>1. TypeOK /\ IInv /\ ExecLoads /\ TaskStates
  BY DEF PInv, IInv, Shape
<1>2. \A u \in Tasks : /\ Cur(u) \in Spaces /\ New(u) \in Spaces
                       /\ Cur(t) # New(u) /\ New(t) # Cur(u)
                       /\ (u # t => Cur(t) # Cur(u) /\ New(t) # New(u))
  BY <1>1, SpaceNames
<1>3. X \in SUBSET Slots
  BY <1>2, InSpace
<1>4. Keeps(X)
  BY <1>3, FreedReads DEF ExecFaults, FreeAll
<1>5. /\ \A u \in Tasks, v \in Args : ArgSlot(u, v) \notin X
      /\ \A u \in Tasks, v \in VA : u # t => PteSlot(New(u), v) \notin X
      /\ \A u \in Tasks, v \in VA : u # t => PteSlot(Cur(u), v) \notin X
      /\ \A v \in VA : PteSlot(Cur(t), v) \in X
  BY <1>2, InSpace, SMTT(30)
<1>6. \A v \in VA : own'[PteSlot(Cur(t), v)] = 0
  BY <1>3, <1>5 DEF ExecFaults, FreeAll
<1>7. space' = [space EXCEPT ![t] = 1 - @] /\ fork' = fork
      /\ state' = [state EXCEPT ![t] = "zombie"] /\ state[t] = "run"
  BY <1>1 DEF ExecFaults, Execing, TaskStates
<1>8. (\A u \in Tasks : u # t => state'[u] = state[u]) /\ state'[t] = "zombie"
  BY <1>1, <1>7 DEF TypeOK
<1> HIDE DEF X
<1>9. ExecLoads' /\ ForkCopies'
  BY <1>1, <1>4, <1>5, <1>6, <1>7, LoadsSwap, NoForkUnderWay
<1>10. \A u \in Tasks : u # t => space'[u] = space[u]
  BY <1>1, <1>7, SpacesSwap
<1>11. View'[t] = Private!Empty
  BY <1>8, ViewAfter DEF Private!Empty
<1>12. View' = [View EXCEPT ![t] = Private!Empty]
  BY <1>1, <1>4, <1>5, <1>8, <1>10, <1>11, SeenByOne
<1>13. t \in Alive /\ Alive' = Alive \ {t}
  BY <1>7, <1>8 DEF Alive
<1>14. Private!Exit(t)
  BY <1>12, <1>13 DEF Private!Exit
<1> QED BY <1>9, <1>14 DEF PrivateStep, Private!Next

(* execve fails: what it had built goes, and the task reads what it read. *)
LEMMA ExecFailsStep ==
  ASSUME PInv, fork.parent = 0, NEW t \in Tasks, ExecFails(t)
  PROVE  PrivateStep
<1> DEFINE X == SpaceSlots(New(t)) \cup ArgSlots(t)
<1>1. TypeOK /\ IInv
  BY DEF PInv, IInv
<1>2. \A u \in Tasks : /\ Cur(u) \in Spaces /\ New(u) \in Spaces /\ New(t) # Cur(u)
  BY <1>1, SpaceNames
<1>3. X \in SUBSET Slots
  BY <1>2, InSpace, InArgs
<1>4. Keeps(X) /\ \A s \in X : Content(s)' = NoPage
  BY <1>3, FreedReads DEF ExecFails, FreeAll
<1>5. \A u \in Tasks, v \in VA : PteSlot(Cur(u), v) \notin X
  BY <1>2, InSpace, InArgs, SMTT(30)
<1>6. space' = space /\ state' = state /\ ForkCopies'
  BY NoForkUnderWay DEF ExecFails
<1>7. \A u \in Tasks, v \in VA : PteSlot(New(u), v) \in X => Content(PteSlot(New(u), v))' = NoPage
  <2>1. \A u \in Tasks : New(u)' = New(u)
    BY <1>6 DEF New
  <2> HIDE DEF X
  <2> QED BY <1>4, <2>1
<1>8. \A u \in Tasks, v \in Args : ArgSlot(u, v) \in X => Content(ArgSlot(u, v))' = NoPage
  BY <1>4
<1> HIDE DEF X
<1> QED BY <1>4, <1>5, <1>6, <1>7, <1>8, UnseenStep

-----------------------------------------------------------------------------
(* The refinement. *)

(* Every step of a task. *)
LEMMA TaskStepPrivate ==
  ASSUME PInv, fork.parent = 0, NEW t \in Tasks, TaskStep(t)
  PROVE  PrivateStep
<1>1. CASE kernel_thread(t)
  BY <1>1, KernelThreadStep
<1>2. CASE sys_exit(t)
  BY <1>2, ExitStep DEF sys_exit
<1>3. CASE release(t)
  BY <1>3, ReleaseStep
<1>4. CASE SysReturn(t)
  BY <1>4, IdleStep DEF SysReturn
<1>5. CASE \E c \in Tasks : sys_fork(t, c)
  BY <1>5, SysForkStep
<1>6. CASE \E v \in VA : page_fault_handler(t, v) \/ verify_area(t, v)
  BY <1>6, PageFaultStep, VerifyAreaStep
<1>7. CASE \E v \in VA, x \in Values : UserStore(t, v, x) \/ CopyOut(t, v, x)
  BY <1>7, UserStoreStep, CopyOutStep
<1> QED BY <1>1, <1>2, <1>3, <1>4, <1>5, <1>6, <1>7 DEF TaskStep

(* Every step of do_execve. *)
LEMMA ExecStepPrivate ==
  ASSUME PInv, fork.parent = 0, NEW t \in Tasks, ExecStep(t)
  PROVE  PrivateStep
<1>1. CASE do_execve(t)
  BY <1>1, IdleStep DEF do_execve
<1>2. CASE ExecPgdir(t)
  BY <1>2, ExecPgdirStep
<1>3. CASE ExecCommits(t)
  BY <1>3, ExecCommitsStep
<1>4. CASE ExecFaults(t)
  BY <1>4, ExecFaultsStep
<1>5. CASE ExecFails(t)
  BY <1>5, ExecFailsStep
<1>6. CASE \E v \in VA : copy_strings(t, v) \/ ExecMapArg(t, v) \/ load_segment(t, v)
  BY <1>6, CopyStringsStep, ExecMapArgStep, LoadSegmentStep
<1> QED BY <1>1, <1>2, <1>3, <1>4, <1>5, <1>6 DEF ExecStep

(* Every step of the kernel keeps PInv, and is a step of PrivateMemory or  *)
(* is not seen.                                                            *)
LEMMA NextPrivate == PInv /\ [Next]_vars => PInv' /\ [Private!Next]_(Private!vars)
<1> SUFFICES ASSUME PInv, [Next]_vars PROVE PInv' /\ [Private!Next]_(Private!vars)
  OBVIOUS
<1>1. IInv'
  BY NextInv DEF PInv
<1>2. PrivateStep
  <2>1. CASE fork.parent # 0 /\ ForkStep
    BY <2>1, CopyTablesStep, ForkFailsStep, ForkReturnsStep DEF ForkStep
  <2>2. CASE fork.parent = 0 /\ \E t \in Tasks : TaskStep(t) \/ ExecStep(t)
    BY <2>2, TaskStepPrivate, ExecStepPrivate
  <2>3. CASE UNCHANGED vars
    <3>1. Keeps({}) /\ space' = space /\ state' = state
      BY <2>3 DEF vars, Keeps, Content
    <3>2. ForkCopies'
      BY <2>3 DEF PInv, ForkCopies, vars, Pte, Cur
    <3> QED BY <3>1, <3>2, UnseenStep
  <2> QED BY <2>1, <2>2, <2>3 DEF Next
<1> QED BY <1>1, <1>2 DEF PInv, PrivateStep

(* Before the first task there is nothing to see. *)
LEMMA InitPrivate == Init => PInv /\ Private!Init
<1> SUFFICES ASSUME Init PROVE PInv /\ Private!Init
  OBVIOUS
<1>1. IInv
  BY InitInv
<1>2. \A s \in Slots : Content(s) = NoPage
  BY DEF Init, Content
<1>3. ForkCopies
  BY DEF Init, NoFork, ForkCopies
<1>4. ExecLoads
  <2>1. \A t \in Tasks : New(t) \in Spaces
    BY <1>1, SpaceNames DEF IInv
  <2> QED BY <1>2, <2>1, SlotTypes DEF ExecLoads
<1>5. Private!Init
  <2>1. \A t \in Tasks : state[t] # "run"
    BY DEF Init
  <2>2. Alive = {}
    BY <2>1 DEF Alive
  <2>3. View = [t \in Tasks |-> Private!Empty]
    BY <2>1 DEF View, Private!Empty
  <2> QED BY <2>2, <2>3 DEF Private!Init
<1> QED BY <1>1, <1>3, <1>4, <1>5 DEF PInv

(* Copy-on-write implements private memories, for any number of pages,     *)
(* tasks and user pages: fork gives the child a copy of what the parent    *)
(* reads, execve gives the task the new image and nothing else, and no     *)
(* store, page fault, fork, execve, exit or failure of one of them changes *)
(* what any other task reads.                                              *)
THEOREM TasksHavePrivateMemory == Spec => PrivateMemories
<1>1. PInv /\ [Next]_vars => PInv' /\ [Private!Next]_(Private!vars)
  BY NextPrivate
<1>2. Init => PInv /\ Private!Init
  BY InitPrivate
<1> QED BY <1>1, <1>2, PTL DEF Spec, PrivateMemories, Private!Spec
=============================================================================
