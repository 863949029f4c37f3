------------------------------- MODULE Memory -------------------------------
(***************************************************************************)
(* Physical pages, Sv32 page tables and copy-on-write: mm/memory.c with    *)
(* the parts of kernel/fork.c, kernel/exit.c and fs/exec.c that allocate,  *)
(* share and free pages.                                                   *)
(*                                                                         *)
(* Every place of the kernel that can hold a page is a slot: a task[]      *)
(* entry, a pgdir pointer, a page-directory entry, a page-table entry, an  *)
(* element of do_execve's page[] array.  own[s] is the page held in slot   *)
(* s, 0 when it holds none, so "mem_map counts the references to a page"   *)
(* is a statement about one function.                                      *)
(*                                                                         *)
(* The kernel is not preemptive: a handler that does not sleep is one      *)
(* action.  fork is split at the iterations of copy_page_tables, and no    *)
(* other task moves until it is over.  execve and the system calls that    *)
(* fill a user buffer may sleep in the buffer cache, so other tasks run    *)
(* between their steps.                                                    *)
(***************************************************************************)
EXTENDS Naturals, FiniteSets

CONSTANTS
  NPages,   \* pages of the paging area, numbered from 1
  NTasks,   \* slots of task[] a user task can take
  Dirs,     \* indices of the page directory that are used
  VA,       \* user pages, by virtual page number
  DirOf,    \* the page-directory index of a user page
  Args,     \* user pages that take the argument strings of execve
  Program,  \* what execve puts into the argument and the PT_LOAD pages
  BufPages, \* bound: pages of the user buffer of one system call
  Values,   \* contents of a page; 0 is a page of zeroes
  NoPage    \* what a task reads where it has no page

ASSUME ConstantsOK ==
  /\ NPages \in Nat /\ NTasks \in Nat /\ BufPages \in Nat
  /\ IsFiniteSet(Dirs) /\ Dirs \subseteq Nat
  /\ IsFiniteSet(VA)
  /\ DirOf \in [VA -> Dirs]
  /\ 0 \in Values /\ NoPage \notin Values
  /\ DOMAIN Program \subseteq VA
  /\ Args \subseteq DOMAIN Program
  /\ Program \in [DOMAIN Program -> Values]

Pages == 1..NPages
Tasks == 1..NTasks

(* An address space is named by its task and one of two indices: execve    *)
(* builds the new one beside the old one.                                  *)
Spaces == Tasks \X {0, 1}

TaskSlot(t)   == <<"task", t, 0, 0>>
DirSlot(a)    == <<"pgdir", a[1], a[2], 0>>
TabSlot(a, d) == <<"pde", a[1], a[2], d>>
PteSlot(a, v) == <<"pte", a[1], a[2], v>>
ArgSlot(t, v) == <<"arg", t, 0, v>>

TabSlots(a)   == {TabSlot(a, d) : d \in Dirs}
PteSlots(a)   == {PteSlot(a, v) : v \in VA}
SpaceSlots(a) == {DirSlot(a)} \cup TabSlots(a) \cup PteSlots(a)
ArgSlots(t)   == {ArgSlot(t, v) : v \in Args}

SlotsOf(t) ==
  {TaskSlot(t)} \cup SpaceSlots(<<t, 0>>) \cup SpaceSlots(<<t, 1>>) \cup ArgSlots(t)

Slots == UNION {SlotsOf(t) : t \in Tasks}

IsPte(s) == s[1] = "pte"
VaOf(s)  == s[4]    \* the user page of a page-table entry

VARIABLES
  mem_map,  \* reference count of every page
  own,      \* the page held in every slot
  wbit,     \* the page-table entries with PTE_W
  xbit,     \* the page-table entries with PTE_X
  data,     \* contents of every page
  state,    \* "none", "new" (being forked), "run" or "zombie"
  space,    \* index of the address space current->pgdir points to
  kpc,      \* where a task is: "user", in "exec", or about to "put" user data
  buf,      \* the user pages that the system call under way has verified
  fork,     \* the copy_process under way: parent (0: none), child, todo
  leaked    \* references that were dropped without free_page (ghost)

vars == <<mem_map, own, wbit, xbit, data, state, space, kpc, buf, fork, leaked>>

NoFork == [parent |-> 0, child |-> 0, todo |-> {}]

Cur(t) == <<t, space[t]>>        \* the address space of t
New(t) == <<t, 1 - space[t]>>    \* the one do_execve builds

Pte(t, v) == PteSlot(Cur(t), v)

(* The references to page p among the slots S. *)
Held(S, p) == {s \in S : own[s] = p}
Refs(p)    == Held(Slots, p)

-----------------------------------------------------------------------------
(* mem_init hands over every page of the paging area free.                 *)
Init ==
  /\ mem_map = [p \in Pages |-> 0]
  /\ own     = [s \in Slots |-> 0]
  /\ wbit    = {}
  /\ xbit    = {}
  /\ data    = [p \in Pages |-> 0]
  /\ state   = [t \in Tasks |-> "none"]
  /\ space   = [t \in Tasks |-> 0]
  /\ kpc     = [t \in Tasks |-> "user"]
  /\ buf     = [t \in Tasks |-> {}]
  /\ fork    = NoFork
  /\ leaked  = [p \in Pages |-> 0]

(* Faulty variant of Take: the page handed out is not marked in mem_map.   *)
TakeUnmarked(m, p) == m

(* get_free_page takes the first page with a zero count; m is mem_map as   *)
(* the handler has left it so far.                                         *)
get_free_page(m, p) == p \in Pages /\ m[p] = 0 /\ \A q \in Pages : q < p => m[q] # 0
NoFreePage(m)       == \A p \in Pages : m[p] # 0
Take(m, p)          == [m EXCEPT ![p] = 1]

(* free_page on the page of every slot of S, and the slots cleared. *)
FreeAll(S) ==
  /\ mem_map' = [p \in Pages |-> mem_map[p] - Cardinality(Held(S, p))]
  /\ own'     = [s \in Slots |-> IF s \in S THEN 0 ELSE own[s]]

(* put_page_pgdir: page p into the entry of v, with a new page table if    *)
(* the directory has none.  m and o are mem_map and own so far.            *)
put_page_pgdir(m, o, a, v, p) ==
  LET tab == TabSlot(a, DirOf[v]) IN
  /\ \/ /\ o[tab] # 0
        /\ mem_map' = m
        /\ own' = [o EXCEPT ![PteSlot(a, v)] = p]
     \/ /\ o[tab] = 0
        /\ \E q \in Pages : /\ get_free_page(m, q)
                            /\ mem_map' = Take(m, q)
                            /\ own' = [o EXCEPT ![tab] = q, ![PteSlot(a, v)] = p]
  /\ wbit' = wbit \cup {PteSlot(a, v)}
  /\ xbit' = xbit \cup {PteSlot(a, v)}

PutPageFails(m, a, v) == own[TabSlot(a, DirOf[v])] = 0 /\ NoFreePage(m)

-----------------------------------------------------------------------------
(* kernel_thread: a task with a task structure and no address space (init  *)
(* starts the shell this way).  find_empty_process takes the first slot.   *)
FirstEmptyTask(t) == own[TaskSlot(t)] = 0 /\ \A u \in Tasks : u < t => own[TaskSlot(u)] # 0

kernel_thread(t) ==
  /\ FirstEmptyTask(t)
  /\ \E p \in Pages :
       /\ get_free_page(mem_map, p)
       /\ mem_map' = Take(mem_map, p)
       /\ own'     = [own EXCEPT ![TaskSlot(t)] = p]
       /\ data'    = [data EXCEPT ![p] = 0]
  /\ state' = [state EXCEPT ![t] = "run"]
  /\ UNCHANGED <<wbit, xbit, space, kpc, buf, fork, leaked>>

(* do_exit up to schedule(): the address space goes, the task structure    *)
(* stays until the father waits.                                           *)
do_exit(t) ==
  /\ FreeAll(SpaceSlots(Cur(t)))
  /\ wbit'  = wbit \ PteSlots(Cur(t))
  /\ xbit'  = xbit \ PteSlots(Cur(t))
  /\ state' = [state EXCEPT ![t] = "zombie"]
  /\ kpc'   = [kpc EXCEPT ![t] = "user"]
  /\ buf'   = [buf EXCEPT ![t] = {}]
  /\ UNCHANGED <<data, space, fork, leaked>>

(* exit(), a fatal signal, or a trap that kills the task (a load page      *)
(* fault among them: trap_handler has no case for cause 13).               *)
sys_exit(t) == state[t] = "run" /\ kpc[t] = "user" /\ do_exit(t)

(* release: waitpid (or tell_father) gives the task structure back. *)
release(t) ==
  /\ state[t] = "zombie"
  /\ FreeAll({TaskSlot(t)})
  /\ state' = [state EXCEPT ![t] = "none"]
  /\ UNCHANGED <<wbit, xbit, data, space, kpc, buf, fork, leaked>>

HasSpace(t) == state[t] = "run" /\ own[DirSlot(Cur(t))] # 0
InUser(t)   == HasSpace(t) /\ kpc[t] = "user"

-----------------------------------------------------------------------------
ReadOnly(t, v) == own[Pte(t, v)] # 0 /\ Pte(t, v) \notin wbit

(* get_empty_page: a fresh page of zeroes at v.  An entry that was valid   *)
(* is overwritten, and the reference to its page is lost.                  *)
get_empty_page(t, v) ==
  /\ \E p \in Pages : /\ get_free_page(mem_map, p)
                      /\ put_page_pgdir(Take(mem_map, p), own, Cur(t), v, p)
                      /\ data' = [data EXCEPT ![p] = 0]
  /\ leaked' = [p \in Pages |-> leaked[p] + Cardinality(Held({Pte(t, v)}, p))]

GetEmptyPageFails(t, v) ==
  \/ NoFreePage(mem_map)
  \/ \E p \in Pages : get_free_page(mem_map, p)
                        /\ PutPageFails(Take(mem_map, p), Cur(t), v)

(* Faulty variant of un_wp_page: a shared page becomes writable in place. *)
UnWpInPlace(t, v) ==
  /\ wbit' = wbit \cup {Pte(t, v)}
  /\ UNCHANGED <<mem_map, own, xbit, data, leaked>>

(* un_wp_page on a valid read-only entry: a page with a single reference   *)
(* becomes writable in place; a shared one is copied, without PTE_X.       *)
un_wp_page(t, v) ==
  LET old == own[Pte(t, v)] IN
  /\ \/ /\ mem_map[old] = 1
        /\ UNCHANGED <<mem_map, own, xbit, data>>
     \/ /\ mem_map[old] # 1
        /\ \E p \in Pages :
             /\ get_free_page(mem_map, p)
             /\ mem_map' = [Take(mem_map, p) EXCEPT ![old] = @ - 1]
             /\ own'     = [own EXCEPT ![Pte(t, v)] = p]
             /\ data'    = [data EXCEPT ![p] = data[old]]
        /\ xbit' = xbit \ {Pte(t, v)}
  /\ wbit' = wbit \cup {Pte(t, v)}
  /\ UNCHANGED leaked

UnWpPageFails(t, v) == mem_map[own[Pte(t, v)]] # 1 /\ NoFreePage(mem_map)

(* The common part of page_fault_handler and of one round of verify_area.  *)
MakeWritable(t, v) ==
  \/ ReadOnly(t, v) /\ un_wp_page(t, v)
  \/ ~ReadOnly(t, v) /\ get_empty_page(t, v)

OutOfMemory(t, v) ==
  \/ ReadOnly(t, v) /\ UnWpPageFails(t, v)
  \/ ~ReadOnly(t, v) /\ GetEmptyPageFails(t, v)

(* page_fault_handler, for a store (cause 15) to a page that is missing or *)
(* read-only, or a fetch (cause 12) from one that is missing or has no X.  *)
page_fault_handler(t, v) ==
  /\ InUser(t)
  /\ own[Pte(t, v)] = 0 \/ Pte(t, v) \notin wbit \/ Pte(t, v) \notin xbit
  /\ \/ MakeWritable(t, v) /\ UNCHANGED <<state, space, kpc, buf, fork>>
     \/ OutOfMemory(t, v) /\ do_exit(t)

(* A store of the user program that does not fault. *)
UserStore(t, v, x) ==
  /\ InUser(t)
  /\ own[Pte(t, v)] # 0 /\ Pte(t, v) \in wbit
  /\ data' = [data EXCEPT ![own[Pte(t, v)]] = x]
  /\ UNCHANGED <<mem_map, own, wbit, xbit, state, space, kpc, buf, fork, leaked>>

-----------------------------------------------------------------------------
(* Faulty variant of verify_area: PTE_W is not looked at. *)
VerifyPresent(t, v) ==
  /\ HasSpace(t) /\ kpc[t] \in {"user", "put"}
  /\ Cardinality(buf[t]) < BufPages
  /\ \/ /\ own[Pte(t, v)] # 0
        /\ UNCHANGED <<mem_map, own, wbit, xbit, data, leaked>>
     \/ /\ own[Pte(t, v)] = 0
        /\ MakeWritable(t, v)
  /\ kpc' = [kpc EXCEPT ![t] = "put"]
  /\ buf' = [buf EXCEPT ![t] = @ \cup {v}]
  /\ UNCHANGED <<state, space, fork>>

(* verify_area, one page of a buffer that a system call is going to fill.  *)
verify_area(t, v) ==
  /\ HasSpace(t) /\ kpc[t] \in {"user", "put"}
  /\ Cardinality(buf[t]) < BufPages
  /\ \/ /\ \/ /\ own[Pte(t, v)] # 0 /\ Pte(t, v) \in wbit
              /\ UNCHANGED <<mem_map, own, wbit, xbit, data, leaked>>
           \/ /\ own[Pte(t, v)] = 0 \/ Pte(t, v) \notin wbit
              /\ MakeWritable(t, v)
        /\ kpc' = [kpc EXCEPT ![t] = "put"]
        /\ buf' = [buf EXCEPT ![t] = @ \cup {v}]
        /\ UNCHANGED <<state, space, fork>>
     \/ /\ own[Pte(t, v)] = 0 \/ Pte(t, v) \notin wbit
        /\ OutOfMemory(t, v)
        /\ do_exit(t)

(* put_fs_byte and friends: translate_user checks PTE_V and PTE_U only.    *)
put_fs(t, v, x) ==
  /\ own[Pte(t, v)] # 0
  /\ data' = [data EXCEPT ![own[Pte(t, v)]] = x]
  /\ UNCHANGED <<mem_map, own, wbit, xbit, state, space, kpc, buf, fork, leaked>>

CopyOut(t, v, x) == kpc[t] = "put" /\ v \in buf[t] /\ put_fs(t, v, x)

SysReturn(t) ==
  /\ kpc[t] = "put"
  /\ kpc' = [kpc EXCEPT ![t] = "user"]
  /\ buf' = [buf EXCEPT ![t] = {}]
  /\ UNCHANGED <<mem_map, own, wbit, xbit, data, state, space, fork, leaked>>

(* sys_pipe hands the two descriptors over without verify_area. *)
sys_pipe(t, v, x) == InUser(t) /\ put_fs(t, v, x)

-----------------------------------------------------------------------------
(* copy_process up to copy_page_tables: a task structure and a page        *)
(* directory.  When either page is missing, fork fails and all is as it    *)
(* was.                                                                    *)
sys_fork(t, c) ==
  /\ InUser(t)
  /\ FirstEmptyTask(c)
  /\ \E p, q \in Pages :
       /\ get_free_page(mem_map, p)
       /\ get_free_page(Take(mem_map, p), q)
       /\ mem_map' = Take(Take(mem_map, p), q)
       /\ own'  = [own EXCEPT ![TaskSlot(c)] = p, ![DirSlot(Cur(c))] = q]
       /\ data' = [data EXCEPT ![p] = 0, ![q] = 0]
  /\ state' = [state EXCEPT ![c] = "new"]
  /\ fork'  = [parent |-> t, child |-> c,
               todo |-> {d \in Dirs : own[TabSlot(Cur(t), d)] # 0}]
  /\ UNCHANGED <<wbit, xbit, space, kpc, buf, leaked>>

(* One round of the outer loop of copy_page_tables, at the first directory *)
(* entry not yet copied.                                                   *)
NextDir(d) == d \in fork.todo /\ \A e \in fork.todo : d <= e

copy_page_tables(d) ==
  LET from == Cur(fork.parent)
      to   == Cur(fork.child)
      vs   == {v \in VA : DirOf[v] = d /\ own[PteSlot(from, v)] # 0}
  IN
  /\ NextDir(d)
  /\ \E q \in Pages :
       /\ get_free_page(mem_map, q)
       /\ mem_map' = [p \in Pages |->
             Take(mem_map, q)[p] + Cardinality({v \in vs : own[PteSlot(from, v)] = p})]
       /\ own' = [s \in Slots |->
             IF s = TabSlot(to, d) THEN q
             ELSE IF s \in {PteSlot(to, v) : v \in vs} THEN own[PteSlot(from, VaOf(s))]
             ELSE own[s]]
       /\ data' = [data EXCEPT ![q] = 0]
  /\ wbit' = wbit \ {PteSlot(from, v) : v \in vs}
  /\ xbit' = xbit \cup {PteSlot(to, v) : v \in {u \in vs : PteSlot(from, u) \in xbit}}
  /\ fork' = [fork EXCEPT !.todo = @ \ {d}]
  /\ UNCHANGED <<state, space, kpc, buf, leaked>>

(* copy_page_tables has no page for the next table: copy_process frees the *)
(* page directory and the task structure, and nothing below them.          *)
ForkFails ==
  LET c == fork.child
      lost == TabSlots(Cur(c)) \cup PteSlots(Cur(c))
      kept == {TaskSlot(c), DirSlot(Cur(c))}
  IN
  /\ fork.todo # {} /\ NoFreePage(mem_map)
  /\ mem_map' = [p \in Pages |-> mem_map[p] - Cardinality(Held(kept, p))]
  /\ leaked'  = [p \in Pages |-> leaked[p] + Cardinality(Held(lost, p))]
  /\ own'     = [s \in Slots |-> IF s \in kept \cup lost THEN 0 ELSE own[s]]
  /\ xbit'    = xbit \ PteSlots(Cur(c))
  /\ state'   = [state EXCEPT ![c] = "none"]
  /\ fork'    = NoFork
  /\ UNCHANGED <<wbit, data, space, kpc, buf>>

(* Faulty variant of ForkReturns: the child runs with some of the tables.  *)
ForkReturnsEarly ==
  /\ fork.parent # 0
  /\ state' = [state EXCEPT ![fork.child] = "run"]
  /\ fork'  = NoFork
  /\ UNCHANGED <<mem_map, own, wbit, xbit, data, space, kpc, buf, leaked>>

ForkReturns ==
  /\ fork.parent # 0 /\ fork.todo = {}
  /\ state' = [state EXCEPT ![fork.child] = "run"]
  /\ fork'  = NoFork
  /\ UNCHANGED <<mem_map, own, wbit, xbit, data, space, kpc, buf, leaked>>

-----------------------------------------------------------------------------
(* do_execve, by user tasks and by the kernel task that becomes the shell. *)
do_execve(t) ==
  /\ state[t] = "run" /\ kpc[t] = "user"
  /\ kpc' = [kpc EXCEPT ![t] = "exec"]
  /\ UNCHANGED <<mem_map, own, wbit, xbit, data, state, space, buf, fork, leaked>>

Execing(t) == kpc[t] = "exec"

(* copy_strings: a page for the next argument page. *)
copy_strings(t, v) ==
  /\ Execing(t) /\ own[DirSlot(New(t))] = 0
  /\ v \in Args /\ own[ArgSlot(t, v)] = 0
  /\ \E p \in Pages : /\ get_free_page(mem_map, p)
                      /\ mem_map' = Take(mem_map, p)
                      /\ own'  = [own EXCEPT ![ArgSlot(t, v)] = p]
                      /\ data' = [data EXCEPT ![p] = Program[v]]
  /\ UNCHANGED <<wbit, xbit, state, space, kpc, buf, fork, leaked>>

(* The new page directory. *)
ExecPgdir(t) ==
  /\ Execing(t) /\ own[DirSlot(New(t))] = 0
  /\ \A v \in Args : own[ArgSlot(t, v)] # 0
  /\ \E p \in Pages : /\ get_free_page(mem_map, p)
                      /\ mem_map' = Take(mem_map, p)
                      /\ own'  = [own EXCEPT ![DirSlot(New(t))] = p]
                      /\ data' = [data EXCEPT ![p] = 0]
  /\ UNCHANGED <<wbit, xbit, state, space, kpc, buf, fork, leaked>>

(* An argument page moves from page[] into the new address space. *)
ExecMapArg(t, v) ==
  /\ Execing(t) /\ own[DirSlot(New(t))] # 0
  /\ v \in Args /\ own[ArgSlot(t, v)] # 0
  /\ put_page_pgdir(mem_map, [own EXCEPT ![ArgSlot(t, v)] = 0], New(t), v, own[ArgSlot(t, v)])
  /\ UNCHANGED <<data, state, space, kpc, buf, fork, leaked>>

ArgsMapped(t) == own[DirSlot(New(t))] # 0 /\ \A v \in Args : own[ArgSlot(t, v)] = 0

(* load_segment, one page. *)
load_segment(t, v) ==
  /\ Execing(t) /\ ArgsMapped(t)
  /\ v \in DOMAIN Program \ Args /\ own[PteSlot(New(t), v)] = 0
  /\ \E p \in Pages : /\ get_free_page(mem_map, p)
                      /\ put_page_pgdir(Take(mem_map, p), own, New(t), v, p)
                      /\ data' = [data EXCEPT ![p] = Program[v]]
  /\ UNCHANGED <<state, space, kpc, buf, fork, leaked>>

(* Past the point of no return: the old address space is freed.            *)
Loaded(t) == ArgsMapped(t) /\ \A v \in DOMAIN Program : own[PteSlot(New(t), v)] # 0

ExecCommits(t) ==
  /\ Execing(t) /\ Loaded(t)
  /\ FreeAll(SpaceSlots(Cur(t)))
  /\ wbit'  = wbit \ PteSlots(Cur(t))
  /\ xbit'  = xbit \ PteSlots(Cur(t))
  /\ space' = [space EXCEPT ![t] = 1 - @]
  /\ kpc'   = [kpc EXCEPT ![t] = "user"]
  /\ UNCHANGED <<data, state, buf, fork, leaked>>

(* create_tables runs below the argument pages into a page that is not     *)
(* mapped: uaccess_fault ends the task in its new address space.           *)
ExecFaults(t) ==
  /\ Execing(t) /\ Loaded(t)
  /\ FreeAll(SpaceSlots(Cur(t)) \cup SpaceSlots(New(t)))
  /\ wbit'  = wbit \ (PteSlots(Cur(t)) \cup PteSlots(New(t)))
  /\ xbit'  = xbit \ (PteSlots(Cur(t)) \cup PteSlots(New(t)))
  /\ space' = [space EXCEPT ![t] = 1 - @]
  /\ state' = [state EXCEPT ![t] = "zombie"]
  /\ kpc'   = [kpc EXCEPT ![t] = "user"]
  /\ UNCHANGED <<data, buf, fork, leaked>>

(* Faulty variant of ExecFails: what is left in page[] is not freed. *)
ExecFailsKeepsArgs(t) ==
  /\ Execing(t)
  /\ FreeAll(SpaceSlots(New(t)))
  /\ wbit' = wbit \ PteSlots(New(t))
  /\ xbit' = xbit \ PteSlots(New(t))
  /\ kpc'  = [kpc EXCEPT ![t] = "user"]
  /\ UNCHANGED <<data, state, space, buf, fork, leaked>>

(* No page, a read error, or a bad header: free_new and exec_error2 give   *)
(* back the new address space and what is left in page[].                  *)
ExecFails(t) ==
  /\ Execing(t)
  /\ FreeAll(SpaceSlots(New(t)) \cup ArgSlots(t))
  /\ wbit' = wbit \ PteSlots(New(t))
  /\ xbit' = xbit \ PteSlots(New(t))
  /\ kpc'  = [kpc EXCEPT ![t] = "user"]
  /\ UNCHANGED <<data, state, space, buf, fork, leaked>>

-----------------------------------------------------------------------------
ForkStep ==
  \/ \E d \in Dirs : copy_page_tables(d)
  \/ ForkFails
  \/ ForkReturns

ExecStep(t) ==
  \/ do_execve(t)
  \/ ExecPgdir(t)
  \/ ExecCommits(t)
  \/ ExecFaults(t)
  \/ ExecFails(t)
  \/ \E v \in VA : copy_strings(t, v) \/ ExecMapArg(t, v) \/ load_segment(t, v)

TaskStep(t) ==
  \/ kernel_thread(t)
  \/ sys_exit(t)
  \/ release(t)
  \/ SysReturn(t)
  \/ \E c \in Tasks : sys_fork(t, c)
  \/ \E v \in VA : page_fault_handler(t, v) \/ verify_area(t, v)
  \/ \E v \in VA, x \in Values : UserStore(t, v, x) \/ CopyOut(t, v, x)

Next ==
  \/ fork.parent # 0 /\ ForkStep
  \/ fork.parent = 0 /\ \E t \in Tasks : TaskStep(t) \/ ExecStep(t)

Spec == Init /\ [][Next]_vars

(* The same kernel with pipe(), whose result is stored without a check. *)
NextWithPipe ==
  \/ Next
  \/ fork.parent = 0 /\ \E t \in Tasks, v \in VA, x \in Values : sys_pipe(t, v, x)

SpecWithPipe == Init /\ [][NextWithPipe]_vars

-----------------------------------------------------------------------------
(* Types: what mem_map, the page tables and the task slots can hold. *)
TypeOK ==
  /\ mem_map \in [Pages -> Nat]
  /\ own \in [Slots -> Pages \cup {0}]
  /\ wbit \subseteq Slots /\ xbit \subseteq Slots
  /\ data \in [Pages -> Values]
  /\ state \in [Tasks -> {"none", "new", "run", "zombie"}]
  /\ space \in [Tasks -> {0, 1}]
  /\ kpc \in [Tasks -> {"user", "exec", "put"}]
  /\ buf \in [Tasks -> SUBSET VA]
  /\ fork \in [parent : Tasks \cup {0}, child : Tasks \cup {0}, todo : SUBSET Dirs]
  /\ leaked \in [Pages -> Nat]

(* mem_map is exactly the number of places that refer to a page, plus the  *)
(* references that were dropped without free_page: a page is never on the  *)
(* free list while something points to it, and free_page never panics.     *)
RefCounts == \A p \in Pages : mem_map[p] = Cardinality(Refs(p)) + leaked[p]

(* A page the hardware lets a task write, and a page of kernel structures  *)
(* (task structure, directory, table, argument page), has one reference.   *)
Exclusive(s) == s \in wbit \/ ~IsPte(s)

SoleOwner ==
  \A s \in Slots : own[s] # 0 /\ Exclusive(s) =>
     leaked[own[s]] = 0 /\ \A r \in Slots : own[r] = own[s] => r = s

(* Nothing is left behind: a task that has exited holds its task structure *)
(* only, a free slot of task[] holds nothing, and a task that is not in    *)
(* do_execve has no half-built address space.                              *)
NothingLeftBehind ==
  \A t \in Tasks : \A s \in SlotsOf(t) : own[s] # 0 =>
     /\ state[t] # "none"
     /\ state[t] = "zombie" => s = TaskSlot(t)
     /\ s \in SpaceSlots(New(t)) \cup ArgSlots(t) => kpc[t] = "exec"

(* A page that verify_area has passed stays writable until the system call *)
(* returns, whatever other tasks do while the call sleeps.                 *)
VerifiedStaysWritable ==
  \A t \in Tasks : \A v \in buf[t] : own[Pte(t, v)] # 0 /\ Pte(t, v) \in wbit

-----------------------------------------------------------------------------
(* What user programs see: private memories. *)
View == [t \in Tasks |-> [v \in VA |->
           IF state[t] = "run" /\ own[Pte(t, v)] # 0 THEN data[own[Pte(t, v)]] ELSE NoPage]]

Alive == {t \in Tasks : state[t] = "run"}

Private == INSTANCE PrivateMemory WITH mem <- View, alive <- Alive

(* Copy-on-write implements private memories: fork gives the child a copy, *)
(* and no store of one task, by itself or by the kernel on its behalf,     *)
(* changes what another one reads.                                         *)
PrivateMemories == Private!Spec
=============================================================================
