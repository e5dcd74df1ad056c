------------------------------- MODULE Memory -------------------------------
(***************************************************************************)
(* Physical memory and address spaces: the page allocator of kalloc.c, the *)
(* page tables of vm.c, and the calls of proc.c and exec.c that build, grow, *)
(* copy and free them.                                                     *)
(*                                                                         *)
(* Every kalloc() is an action of its own, so the processes compete for    *)
(* pages at each of them and each may be the one that fails.  The pages    *)
(* that one call frees are freed in one action.  Sizes are in units of     *)
(* which PGSIZE make a page.  Of the threads of a process only the main    *)
(* one makes the calls modelled here.                                      *)
(***************************************************************************)
EXTENDS Integers, FiniteSets

CONSTANTS
  NPROC,        \* slots of the process table, slot 1 is init
  NPAGES,       \* pages between `end' and PHYSTOP; 0 is the null pointer
  PGSIZE,
  NPTENTRIES,   \* entries of a page table
  NPDENTRIES,   \* page tables of the user half of the address space
  NKMAP,        \* page tables that the kernel's half needs
  Segments,     \* sizes of the loadable segment of a program
  Sbrks         \* the n of sbrk()

ASSUME MemoryConstants ==
  /\ NPROC \in Nat \ {0} /\ NPAGES \in Nat /\ PGSIZE \in Nat \ {0}
  /\ NPTENTRIES \in Nat \ {0} /\ NPDENTRIES \in Nat \ {0} /\ NKMAP \in Nat
  /\ NPAGES >= 4 + NKMAP
  /\ Segments \subseteq Nat \ {0} /\ Sbrks \subseteq Int \ {0}

VARIABLES
  freelist,   \* how many times each page is on kmem.freelist
  proc,       \* the process table
  lost,       \* history: kernel stacks that thread_create() forgot
  panicked

vars == <<freelist, proc, lost, panicked>>

Slots    == 1..NPROC
Pages    == 1..NPAGES
KERNBASE == NPDENTRIES * NPTENTRIES * PGSIZE
PGROUNDUP(n) == (n + PGSIZE - 1) \div PGSIZE     \* in pages

(* An address space maps to pages: entry 0 is the page directory, then come *)
(* the page tables of the kernel and of the user, then the user's pages.   *)
UserPages == 0..NPDENTRIES * NPTENTRIES - 1
PGDIR  == 0
KPT    == 1..NKMAP
PT(a)  == NKMAP + 1 + a \div NPTENTRIES
PTE(a) == NKMAP + 1 + NPDENTRIES + a
Entries == 0..NKMAP + NPDENTRIES + NPDENTRIES * NPTENTRIES
NoVm == [e \in Entries |-> 0]

Unused ==
  [state  |-> "UNUSED",
   parent |-> 0,
   main   |-> 0,          \* of a thread: its process
   kstack |-> 0,
   vm     |-> NoVm,       \* pgdir
   sz     |-> 0,
   torn   |-> FALSE,      \* history: thread_create() failed after it raised sz
   call   |-> "none",     \* the call in progress, and where it is
   pc     |-> "user",
   np     |-> 0,
   new    |-> NoVm,       \* the pgdir being built by exec() or copyuvm()
   a      |-> 0,          \* next page to map
   goal   |-> 0,          \* newsz
   mem    |-> 0]          \* the page to be mapped

TypeOK ==
  /\ freelist \in [Pages -> Nat]
  /\ DOMAIN proc = Slots
  /\ \A p \in Slots :
       /\ proc[p].state \in {"UNUSED", "EMBRYO", "RUNNABLE", "ZOMBIE"}
       /\ proc[p].parent \in 0..NPROC /\ proc[p].main \in 0..NPROC
       /\ proc[p].vm \in [Entries -> 0..NPAGES] /\ proc[p].new \in [Entries -> 0..NPAGES]
       /\ proc[p].sz \in Nat
  /\ lost \subseteq Pages
  /\ panicked \in {"none", "remap", "copyuvm", "loaduvm", "clearpteu", "create_tread"}

-----------------------------------------------------------------------------
(* kalloc(): some page of the list, here the lowest, or 0. *)
Kalloc ==
  IF \E x \in Pages : freelist[x] > 0
  THEN CHOOSE x \in Pages : freelist[x] > 0 /\ \A y \in 1..x-1 : freelist[y] = 0
  ELSE 0

Taken(x) == [freelist EXCEPT ![x] = @ - 1]

(* kfree() of every page that the entries E of v hold, and of page x. *)
Kfree(v, E, x) ==
  [y \in Pages |-> freelist[y] + Cardinality({e \in E : v[e] = y}) + (IF y = x THEN 1 ELSE 0)]

\* mutant: the page that newsz is in is freed too
DeallocDown(oldsz, newsz) ==
  {PTE(a) : a \in {b \in UserPages : newsz \div PGSIZE <= b /\ b * PGSIZE < oldsz}}

(* deallocuvm(): the pages from oldsz down to newsz; page tables stay. *)
Dealloc(oldsz, newsz) ==
  {PTE(a) : a \in {b \in UserPages : PGROUNDUP(newsz) <= b /\ b * PGSIZE < oldsz}}

Without(v, E) == [e \in Entries |-> IF e \in E THEN 0 ELSE v[e]]

(* loaduvm() finds a page table for every address of a segment of size n,  *)
(* and clearpteu() one for the page under the stack that ends at sz.       *)
Loaduvm(v, n)    == \A a \in 0..PGROUNDUP(n) - 1 : v[PT(a)] # 0
Clearpteu(v, sz) == v[PT(sz \div PGSIZE - 2)] # 0

(* copyout() to the stack that ends at sz finds its page. *)
Copyout(v, sz) == v[PTE((sz - 1) \div PGSIZE)] # 0

(* freevm() frees the pages, the page tables and the page directory. *)
Freevm(v, x) == Kfree(v, Entries, x)

-----------------------------------------------------------------------------
(* main(): kinit1() and kinit2() free all pages, then userinit() makes the *)
(* first process, with one page at address 0.                              *)
UserVm ==
  [e \in Entries |->
     IF e = PGDIR THEN 2
     ELSE IF e \in KPT THEN 2 + e
     ELSE IF e = PTE(0) THEN 3 + NKMAP
     ELSE IF e = PT(0) THEN 4 + NKMAP
     ELSE 0]

Init ==
  /\ freelist = [x \in Pages |-> IF x <= 4 + NKMAP THEN 0 ELSE 1]
  /\ proc = [p \in Slots |->
       IF p = 1 THEN [Unused EXCEPT !.state = "RUNNABLE", !.kstack = 1, !.vm = UserVm, !.sz = PGSIZE]
       ELSE Unused]
  /\ lost = {}
  /\ panicked = "none"

-----------------------------------------------------------------------------
At(p, s) == panicked = "none" /\ proc[p].state = "RUNNABLE" /\ proc[p].main = 0 /\ proc[p].pc = s

Threads(p) == {t \in Slots : proc[t].main = p /\ proc[t].state = "RUNNABLE"}

(* Back to the user, with the locals of the call dropped. *)
Back(r) == [r EXCEPT !.call = "none", !.pc = "user", !.np = 0, !.new = NoVm, !.a = 0,
                     !.goal = 0, !.mem = 0]

(* allocuvm(oldsz, newsz) refuses to reach the kernel's half. *)
Allocuvm(r, oldsz, newsz) ==
  [r EXCEPT !.pc = IF newsz >= KERNBASE THEN "fail" ELSE "map",
            !.a = PGROUNDUP(oldsz), !.goal = newsz]

(* fork() and thread_create(): allocproc() takes a slot. *)
Allocproc(p, call) ==
  /\ At(p, "user")
  /\ \E np \in Slots :
       /\ proc[np].state = "UNUSED" /\ \A q \in 1..np-1 : proc[q].state # "UNUSED"
       /\ proc' = [proc EXCEPT ![p].call = call, ![p].pc = "kstack", ![p].np = np,
                               ![np].state = "EMBRYO"]
  /\ UNCHANGED <<freelist, lost, panicked>>

(* Its kernel stack.  thread_create() then raises the size of the process  *)
(* before it asks for the pages.                                           *)
Kstack(p) ==
  LET r == proc[p]  np == proc[p].np  x == Kalloc IN
  /\ At(p, "kstack")
  /\ IF x = 0
     THEN /\ proc' = [proc EXCEPT ![p] = Back(@), ![np] = Unused]
          /\ UNCHANGED freelist
     ELSE /\ freelist' = Taken(x)
          /\ proc' = [proc EXCEPT
               ![np].kstack = x,
               ![p] = IF r.call = "fork" THEN [r EXCEPT !.pc = "setupkvm", !.goal = r.sz]
                      ELSE [Allocuvm(r, r.sz, r.sz + 2 * PGSIZE) EXCEPT !.sz = @ + 2 * PGSIZE]]
  /\ UNCHANGED <<lost, panicked>>

(* exec() ends the other threads, then begins a new address space; or the  *)
(* file is missing, may not be executed or is no program.                  *)
Exec(p, n) ==
  \E s \in {"setupkvm", "user"} :
  /\ At(p, "user")
  /\ freelist' = [x \in Pages |->
       freelist[x] + Cardinality({t \in Threads(p) : proc[t].kstack = x})]
  /\ proc' = [t \in Slots |->
       IF t \in Threads(p) THEN Unused
       ELSE IF t = p /\ s = "setupkvm"
            THEN [proc[p] EXCEPT !.call = "exec", !.pc = "setupkvm", !.goal = n]
       ELSE proc[t]]
  /\ UNCHANGED <<lost, panicked>>

(* setupkvm(): one page after the other. *)
Setupkvm(p) ==
  LET x == Kalloc
      e == CHOOSE k \in {PGDIR} \union KPT :
             proc[p].new[k] = 0 /\ \A j \in 0..k-1 : proc[p].new[j] # 0
  IN
  /\ At(p, "setupkvm")
  /\ IF x = 0
     THEN proc' = [proc EXCEPT ![p].pc = "fail"] /\ UNCHANGED freelist
     ELSE /\ freelist' = Taken(x)
          /\ proc' = [proc EXCEPT ![p] =
               LET r == [proc[p] EXCEPT !.new[e] = x] IN
               IF \E k \in KPT : r.new[k] = 0 THEN r
               ELSE IF r.call = "exec" THEN Allocuvm(r, 0, r.goal)
               ELSE [r EXCEPT !.pc = "map"]]
  /\ UNCHANGED <<lost, panicked>>

(* The loops of allocuvm() and copyuvm(): a page for the next address. *)
MapAlloc(p) ==
  LET x == Kalloc  r == proc[p] IN
  /\ At(p, "map") /\ r.mem = 0 /\ r.a * PGSIZE < r.goal
  /\ IF r.call = "fork" /\ r.vm[PTE(r.a)] = 0
     THEN panicked' = "copyuvm" /\ UNCHANGED <<proc, freelist>>
     ELSE /\ IF x = 0
             THEN proc' = [proc EXCEPT ![p].pc = "fail"] /\ UNCHANGED freelist
             ELSE proc' = [proc EXCEPT ![p].mem = x] /\ freelist' = Taken(x)
          /\ UNCHANGED panicked
  /\ UNCHANGED lost

(* mappages() of that page; walkpgdir() may need a page table. *)
Mappages(p) ==
  LET r  == proc[p]
      v  == IF r.call \in {"fork", "exec"} THEN r.new ELSE r.vm
      pt == IF v[PT(r.a)] # 0 THEN v[PT(r.a)] ELSE Kalloc
      w  == [v EXCEPT ![PT(r.a)] = pt, ![PTE(r.a)] = r.mem]
      s  == [r EXCEPT !.a = @ + 1, !.mem = 0]
  IN
  /\ At(p, "map") /\ r.mem # 0
  /\ IF v[PTE(r.a)] # 0
     THEN panicked' = "remap" /\ UNCHANGED <<proc, freelist>>
     ELSE /\ IF pt = 0
             THEN proc' = [proc EXCEPT ![p].pc = "fail"] /\ UNCHANGED freelist
             ELSE /\ proc' = [proc EXCEPT ![p] =
                       IF r.call \in {"fork", "exec"} THEN [s EXCEPT !.new = w] ELSE [s EXCEPT !.vm = w]]
                  /\ freelist' = IF v[PT(r.a)] # 0 THEN freelist ELSE Taken(pt)
          /\ UNCHANGED panicked
  /\ UNCHANGED lost

Mapped(p) == At(p, "map") /\ proc[p].mem = 0 /\ proc[p].a * PGSIZE >= proc[p].goal

(* fork() makes the child runnable. *)
ForkDone(p) ==
  LET r == proc[p] IN
  /\ Mapped(p) /\ r.call = "fork"
  /\ proc' = [proc EXCEPT
       ![r.np] = [@ EXCEPT !.state = "RUNNABLE", !.parent = p, !.vm = r.new, !.sz = r.sz],
       ![p] = Back(r)]
  /\ UNCHANGED <<freelist, lost, panicked>>

(* thread_create() prepares the stack and makes the thread runnable. *)
ThreadDone(p) ==
  LET r == proc[p] IN
  /\ Mapped(p) /\ r.call = "thread_create"
  /\ panicked' = IF ~Clearpteu(r.vm, r.goal) THEN "clearpteu"
                 ELSE IF ~Copyout(r.vm, r.goal) THEN "create_tread" ELSE "none"
  /\ proc' = IF panicked' # "none" THEN proc
             ELSE [proc EXCEPT ![r.np] = [@ EXCEPT !.state = "RUNNABLE", !.main = p], ![p] = Back(r)]
  /\ UNCHANGED <<freelist, lost>>

(* growproc() returns. *)
SbrkDone(p) ==
  /\ Mapped(p) /\ proc[p].call = "sbrk"
  /\ proc' = [proc EXCEPT ![p] = Back([proc[p] EXCEPT !.sz = proc[p].goal])]
  /\ UNCHANGED <<freelist, lost, panicked>>

(* exec() has read the segment from the file and goes on with two pages    *)
(* for the stack, at a page boundary.                                      *)
ExecStack(p) ==
  LET r == proc[p]  sz == PGROUNDUP(r.goal) * PGSIZE IN
  /\ Mapped(p) /\ r.call = "exec" /\ r.np = 0
  /\ panicked' = IF Loaduvm(r.new, r.goal) THEN "none" ELSE "loaduvm"
  /\ proc' = [proc EXCEPT ![p] = [Allocuvm(r, sz, sz + 2 * PGSIZE) EXCEPT !.np = p]]
  /\ UNCHANGED <<freelist, lost>>

(* exec() gives up: a program header is bad or the file too short, or,     *)
(* with the stack mapped, the arguments do not fit there.                  *)
ExecBad(p) ==
  /\ proc[p].call = "exec"
  /\ Mapped(p) \/ (At(p, "map") /\ proc[p].mem = 0 /\ proc[p].a = 0)
  /\ proc' = [proc EXCEPT ![p].pc = "fail"]
  /\ UNCHANGED <<freelist, lost, panicked>>

(* exec() fills the stack, commits to the new image and frees the old one. *)
ExecDone(p) ==
  LET r == proc[p] IN
  /\ Mapped(p) /\ r.call = "exec" /\ r.np = p
  /\ panicked' = IF Clearpteu(r.new, r.goal) THEN "none" ELSE "clearpteu"
  /\ freelist' = Freevm(r.vm, 0)
  /\ proc' = [proc EXCEPT ![p] =
       Back([r EXCEPT !.vm = r.new, !.sz = r.goal, !.torn = FALSE])]
  /\ UNCHANGED lost

-----------------------------------------------------------------------------
(* The error paths. *)

\* mutant: the page that found no page table is forgotten
BadBuildLeak(p) ==
  LET r == proc[p] IN
  /\ At(p, "fail") /\ r.call \in {"fork", "exec"}
  /\ freelist' = Freevm(r.new, IF r.call = "fork" THEN proc[r.np].kstack ELSE 0)
  /\ proc' = [q \in Slots |->
       IF q = p THEN Back(r) ELSE IF q = r.np THEN Unused ELSE proc[q]]
  /\ UNCHANGED <<lost, panicked>>

(* copyuvm(), setupkvm() and exec() free what they built, fork() also the  *)
(* kernel stack.                                                           *)
BadBuild(p) ==
  LET r     == proc[p]
      built == Freevm(r.new, r.mem)
      k     == IF r.call = "fork" THEN proc[r.np].kstack ELSE 0
  IN
  /\ At(p, "fail") /\ r.call \in {"fork", "exec"}
  /\ freelist' = [x \in Pages |-> built[x] + (IF x = k THEN 1 ELSE 0)]
  /\ proc' = [q \in Slots |->
       IF q = p THEN Back(r) ELSE IF q = r.np THEN Unused ELSE proc[q]]
  /\ UNCHANGED <<lost, panicked>>

\* mutant: what was mapped before the failure stays mapped
BadGrowKeep(p) ==
  LET r == proc[p] IN
  /\ At(p, "fail") /\ r.call = "sbrk"
  /\ freelist' = Kfree(r.vm, {}, r.mem)
  /\ proc' = [proc EXCEPT ![p] = Back(r)]
  /\ UNCHANGED <<lost, panicked>>

(* allocuvm() takes back what it mapped, and growproc() returns -1. *)
BadGrow(p) ==
  LET r == proc[p]
      E == IF r.goal >= KERNBASE THEN {} ELSE Dealloc(r.goal, r.sz)
  IN
  /\ At(p, "fail") /\ r.call = "sbrk"
  /\ freelist' = Kfree(r.vm, E, r.mem)
  /\ proc' = [proc EXCEPT ![p] = Back([r EXCEPT !.vm = Without(@, E)])]
  /\ UNCHANGED <<lost, panicked>>

(* thread_create() leaves the new size and the kernel stack behind. *)
BadThread(p) ==
  LET r == proc[p]
      E == IF r.goal >= KERNBASE THEN {} ELSE Dealloc(r.goal, r.goal - 2 * PGSIZE)
  IN
  /\ At(p, "fail") /\ r.call = "thread_create"
  /\ freelist' = Kfree(r.vm, E, r.mem)
  /\ lost' = lost \union {proc[r.np].kstack}
  /\ proc' = [proc EXCEPT ![p] = Back([r EXCEPT !.vm = Without(@, E), !.torn = TRUE]),
                          ![r.np] = Unused]
  /\ UNCHANGED panicked

-----------------------------------------------------------------------------
(* sbrk() of a negative n.  One that leaves nothing fails after the pages  *)
(* are gone: the process faults at once and is killed (init does not do    *)
(* that).  One of more than there is wraps around, and deallocuvm() does    *)
(* nothing.                                                                *)
Shrink(p, n) ==
  LET r == proc[p]  E == Dealloc(r.sz, r.sz + n) IN
  /\ At(p, "user") /\ n < 0 /\ (p = 1 => r.sz + n # 0)
  /\ IF r.sz + n < 0 THEN UNCHANGED <<freelist, proc>>
     ELSE /\ freelist' = Kfree(r.vm, E, 0)
          /\ proc' = [proc EXCEPT ![p].vm = Without(@, E),
                                  ![p].sz = IF r.sz + n = 0 THEN @ ELSE r.sz + n,
                                  ![p].pc = IF r.sz + n = 0 THEN "fault" ELSE "user"]
  /\ UNCHANGED <<lost, panicked>>

(* sbrk() of a positive n. *)
Grow(p, n) ==
  LET r == proc[p] IN
  /\ At(p, "user") /\ n > 0
  /\ proc' = [proc EXCEPT ![p] = [Allocuvm(r, r.sz, r.sz + n) EXCEPT !.call = "sbrk"]]
  /\ UNCHANGED <<freelist, lost, panicked>>

Sbrk(p) == \E n \in Sbrks : Shrink(p, n) \/ Grow(p, n)

(* exit(), after clear_subthreads(): the children go to init. *)
Exit(p) ==
  /\ p # 1 /\ (At(p, "user") \/ At(p, "fault"))
  /\ freelist' = [x \in Pages |->
       freelist[x] + Cardinality({t \in Threads(p) : proc[t].kstack = x})]
  /\ proc' = [q \in Slots |->
       IF q = p THEN [proc[p] EXCEPT !.state = "ZOMBIE", !.pc = "user"]
       ELSE IF q \in Threads(p) THEN Unused
       ELSE IF proc[q].parent = p THEN [proc[q] EXCEPT !.parent = 1]
       ELSE proc[q]]
  /\ UNCHANGED <<lost, panicked>>

(* thread_exit() and thread_join(): thread_clear(). *)
ThreadJoin(p, t) ==
  /\ At(p, "user") /\ t \in Threads(p)
  /\ freelist' = Kfree(NoVm, {}, proc[t].kstack)
  /\ proc' = [proc EXCEPT ![t] = Unused]
  /\ UNCHANGED <<lost, panicked>>

(* wait() of a child that has exited. *)
Wait(p, q) ==
  /\ At(p, "user") /\ proc[q].state = "ZOMBIE" /\ proc[q].parent = p
  /\ freelist' = Freevm(proc[q].vm, proc[q].kstack)
  /\ proc' = [proc EXCEPT ![q] = Unused]
  /\ UNCHANGED <<lost, panicked>>

Halt == panicked # "none" /\ UNCHANGED vars

Next ==
  \/ \E p \in Slots :
       \/ Allocproc(p, "fork") \/ Allocproc(p, "thread_create") \/ Kstack(p)
       \/ \E n \in Segments : Exec(p, n)
       \/ Setupkvm(p) \/ MapAlloc(p) \/ Mappages(p)
       \/ ForkDone(p) \/ ThreadDone(p) \/ SbrkDone(p)
       \/ ExecStack(p) \/ ExecBad(p) \/ ExecDone(p)
       \/ BadBuild(p) \/ BadGrow(p) \/ BadThread(p)
       \/ Sbrk(p) \/ Exit(p)
       \/ \E t \in Slots : ThreadJoin(p, t) \/ Wait(p, t)
  \/ Halt

Spec == Init /\ [][Next]_vars

-----------------------------------------------------------------------------
(* Properties. *)

(* The places that hold a page: an address space, one being built, a       *)
(* kernel stack, a call's local variable.                                  *)
Places ==
  {<<p, "vm", e>> : p \in Slots, e \in Entries} \union {<<p, "new", e>> : p \in Slots, e \in Entries}
  \union {<<p, "kstack", 0>> : p \in Slots} \union {<<p, "mem", 0>> : p \in Slots}

PageAt(l) ==
  CASE l[2] = "vm"     -> proc[l[1]].vm[l[3]]
    [] l[2] = "new"    -> proc[l[1]].new[l[3]]
    [] l[2] = "kstack" -> proc[l[1]].kstack
    [] l[2] = "mem"    -> proc[l[1]].mem

(* Whatever call fails for lack of memory and at whichever kalloc(), every *)
(* page is in exactly one place: none is freed twice or mapped twice, and  *)
(* none is lost but the kernel stacks of thread_create() (proc.c:286-291). *)
PagesExact ==
  LET taken == {l \in Places : PageAt(l) # 0}
      free  == {x \in Pages : freelist[x] = 1}
  IN  /\ \A x \in Pages : freelist[x] <= 1
      /\ {PageAt(l) : l \in taken} \union free \union lost = Pages
      /\ Cardinality(taken) + Cardinality(free) + Cardinality(lost) = NPAGES

(* Between calls a process has exactly the pages of its size, unless a     *)
(* thread_create() failed: fork() and exit() rely on it.                   *)
SizeMapped ==
  \A p \in Slots :
    proc[p].state = "RUNNABLE" /\ proc[p].main = 0 /\ proc[p].pc = "user" /\ ~proc[p].torn =>
      \A a \in UserPages :
        (proc[p].vm[PTE(a)] # 0) <=> (a * PGSIZE < proc[p].sz)

(* mappages() never finds a page mapped, and loaduvm(), clearpteu() and    *)
(* copyout() never miss the pages that allocuvm() has just made; only the  *)
(* copyuvm() and clearpteu() of a process whose thread_create() has failed *)
(* before may miss a page.                                                 *)
NoPanic ==
  \/ panicked = "none"
  \/ \E p \in Slots :
       /\ proc[p].torn
       /\ \/ panicked = "copyuvm" /\ proc[p].call = "fork"
          \/ panicked = "clearpteu" /\ proc[p].call = "thread_create"
=============================================================================
