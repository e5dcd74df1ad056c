-------------------------------- MODULE Mlfq --------------------------------
(***************************************************************************)
(* The multilevel feedback queue of proc_MLFQ.c (SCHED_POLICY=MLFQ_SCHED): *)
(* process states, the per-level counters ptable.numproc[], the timer's    *)
(* degrade() and boost(), and scheduler() with its search over the table.  *)
(*                                                                         *)
(* One action is one critical section of ptable.lock, except that the      *)
(* scheduler's search, which holds the lock throughout, takes one action   *)
(* per iteration of its innermost loop.  A process that calls sched()      *)
(* leaves the lock to the scheduler of its CPU.                            *)
(***************************************************************************)
EXTENDS Integers, FiniteSets

CONSTANTS
  NPROC,    \* slots of ptable.proc[]
  NCPU,     \* processors; the Makefile's default is one
  MLFQ_K,   \* queue levels
  BOOST,    \* ticks between boosts; 100 in trap.c
  Prios     \* priorities given to setpriority(), of 0..10

ASSUME MlfqConstants ==
  /\ NPROC \in Nat \ {0} /\ NCPU \in Nat \ {0} /\ MLFQ_K \in Nat \ {0}
  /\ BOOST \in Nat \ {0}
  /\ Prios \subseteq 0..10

VARIABLES
  state,     \* p->state
  level,     \* p->level
  extime,    \* p->extime
  priority,  \* p->priority
  parent,    \* p->parent, NoProc for none
  chan,      \* p->chan, NoChan for none
  killed,    \* p->killed
  pc,        \* the system call a process is in
  child,     \* fork()'s np
  numproc,   \* ptable.numproc[]
  heads,     \* ptable.heads[]
  lock,      \* the CPU whose scheduler holds ptable.lock, NoCPU if it is free
  cur,       \* cpu->proc
  slevel,    \* scheduler()'s level
  spos,      \* scheduler()'s p
  trap,      \* how far a CPU is in the timer interrupt
  ticks,     \* ticks % BOOST
  panicked

queue == <<state, level, numproc>>
ident == <<parent, chan, killed, pc, child>>
sched == <<lock, cur, slevel, spos>>
vars  == <<queue, extime, priority, ident, heads, sched, trap, ticks, panicked>>

Procs    == 1..NPROC
CPUs     == 0..NCPU-1
Levels   == 0..MLFQ_K-1
NoProc   == 0
NoCPU    == NCPU
initproc == 1

States == {"UNUSED", "EMBRYO", "SLEEPING", "RUNNABLE", "RUNNING", "ZOMBIE"}
PCs    == {"user", "yield", "sleep", "wait", "fork"}
Panics == {"none", "degrade", "init exiting"}

(* Sleep channels: a process in wait() sleeps on its own slot. *)
NoChan    == 0
TicksChan == NPROC + 1
IoChan    == NPROC + 2

QT(l) == 4 * l + 2

TypeOK ==
  /\ state \in [Procs -> States]
  /\ level \in [Procs -> Levels]
  /\ extime \in [Procs -> Int]
  /\ priority \in [Procs -> 0..10]
  /\ parent \in [Procs -> Procs \union {NoProc}]
  /\ chan \in [Procs -> 0..IoChan]
  /\ killed \in [Procs -> {0, 1}]
  /\ pc \in [Procs -> PCs]
  /\ child \in [Procs -> Procs \union {NoProc}]
  /\ numproc \in [Levels -> Int]
  /\ heads \in [Levels -> Procs \union {NoProc}]
  /\ lock \in CPUs \union {NoCPU}
  /\ cur \in [CPUs -> Procs \union {NoProc}]
  /\ slevel \in [CPUs -> 0..MLFQ_K]
  /\ spos \in [CPUs -> 1..NPROC + 1]
  /\ trap \in [CPUs -> {"none", "boost", "wakeup", "return"}]
  /\ ticks \in 0..BOOST-1
  /\ panicked \in Panics

(* pinit() and userinit(). *)
Init ==
  /\ state = [p \in Procs |-> IF p = initproc THEN "RUNNABLE" ELSE "UNUSED"]
  /\ level = [p \in Procs |-> 0]
  /\ extime = [p \in Procs |-> 0]
  /\ priority = [p \in Procs |-> 0]
  /\ parent = [p \in Procs |-> NoProc]
  /\ chan = [p \in Procs |-> NoChan]
  /\ killed = [p \in Procs |-> 0]
  /\ pc = [p \in Procs |-> "user"]
  /\ child = [p \in Procs |-> NoProc]
  /\ numproc = [l \in Levels |-> IF l = 0 THEN 1 ELSE 0]
  /\ heads = [l \in Levels |-> NoProc]
  /\ lock = NoCPU
  /\ cur = [c \in CPUs |-> NoProc]
  /\ slevel = [c \in CPUs |-> 0]
  /\ spos = [c \in CPUs |-> 1]
  /\ trap = [c \in CPUs |-> "none"]
  /\ ticks = 0
  /\ panicked = "none"

-----------------------------------------------------------------------------
(* Helpers. *)

(* Process p runs on CPU c, at point s, and nobody holds ptable.lock. *)
On(c, p, s) ==
  /\ panicked = "none" /\ lock = NoCPU
  /\ cur[c] = p /\ pc[p] = s /\ trap[c] = "none"

\* mutant: several processes woken at one level are counted once
EnqueueOnce(S) ==
  [l \in Levels |-> numproc[l] + IF \E p \in S : level[p] = l THEN 1 ELSE 0]

(* The processes of S become RUNNABLE, each counted at its level. *)
Enqueue(S) ==
  [l \in Levels |-> numproc[l] + Cardinality({p \in S : level[p] = l})]

Runnable(f, S) == [p \in Procs |-> IF p \in S THEN "RUNNABLE" ELSE f[p]]

(* wakeup1(): the sleepers on a channel. *)
Sleepers(ch) == {p \in Procs : state[p] = "SLEEPING" /\ chan[p] = ch}

\* mutant: the round of a queue starts again after each process
SchedFirst(c) ==
  /\ lock' = c
  /\ cur' = [cur EXCEPT ![c] = NoProc]
  /\ spos' = [spos EXCEPT ![c] = 1]
  /\ UNCHANGED slevel

(* sched(): CPU c is back in scheduler(), which goes on with p++ and still *)
(* holds ptable.lock.                                                      *)
Sched(c) ==
  /\ lock' = c
  /\ cur' = [cur EXCEPT ![c] = NoProc]
  /\ spos' = [spos EXCEPT ![c] = @ + 1]
  /\ UNCHANGED slevel

-----------------------------------------------------------------------------
(* System calls.  trap() tests p->killed before syscall(), but a kill may  *)
(* arrive after that test: the actions do not repeat it.  Point "user"     *)
(* stands for user space and for system calls that are not modelled.       *)

(* yield(), from sys_yield() after its rst(). *)
Yield(c, p) ==
  /\ On(c, p, "yield")
  /\ state' = Runnable(state, {p})
  /\ numproc' = Enqueue({p})
  /\ Sched(c)
  /\ pc' = [pc EXCEPT ![p] = "user"]
  /\ UNCHANGED <<level, extime, priority, parent, chan, killed, child, heads,
                 trap, ticks, panicked>>

(* rst(), called by sys_yield() and sys_sleep(). *)
Rst(c, p) ==
  /\ On(c, p, "user")
  /\ numproc' = IF state[p] = "RUNNABLE"
                THEN [numproc EXCEPT ![level[p]] = @ - 1, ![0] = @ + 1]
                ELSE numproc
  /\ level' = [level EXCEPT ![p] = 0]
  /\ extime' = [extime EXCEPT ![p] = 0]
  /\ \E s \in {"yield", "sleep"} : pc' = [pc EXCEPT ![p] = s]
  /\ UNCHANGED <<state, priority, parent, chan, killed, child, heads, sched,
                 trap, ticks, panicked>>

(* sleep() on channel ch: p leaves the CPU. *)
Sleep(c, p, ch) ==
  /\ chan' = [chan EXCEPT ![p] = ch]
  /\ state' = [state EXCEPT ![p] = "SLEEPING"]
  /\ Sched(c)
  /\ UNCHANGED <<level, extime, priority, parent, killed, child, numproc,
                 heads, trap, ticks, panicked>>

(* sys_sleep()'s loop.  How many ticks are left is not modelled: the loop  *)
(* may end, at once when n is 0, or go on.                                 *)
SysSleep(c, p) ==
  /\ On(c, p, "sleep") /\ killed[p] = 0
  /\ Sleep(c, p, TicksChan)
  /\ UNCHANGED pc

SysSleepEnd(c, p) ==
  /\ On(c, p, "sleep")
  /\ pc' = [pc EXCEPT ![p] = "user"]
  /\ UNCHANGED <<queue, extime, priority, parent, chan, killed, child, heads,
                 sched, trap, ticks, panicked>>

(* Any other sleep in the kernel: for the disk, a pipe, the console. *)
SleepIo(c, p) ==
  /\ On(c, p, "user")
  /\ Sleep(c, p, IoChan)
  /\ UNCHANGED pc

(* wakeup() by a device interrupt or by another process.  It may be called *)
(* whenever the lock is free and an interrupt or a running process can     *)
(* call it.                                                                *)
WakeupIo(c) ==
  /\ panicked = "none" /\ lock = NoCPU /\ trap[c] = "none"
  /\ Sleepers(IoChan) # {}
  /\ state' = Runnable(state, Sleepers(IoChan))
  /\ numproc' = Enqueue(Sleepers(IoChan))
  /\ UNCHANGED <<level, extime, priority, ident, heads, sched, trap, ticks,
                 panicked>>

(* allocproc(): the first UNUSED slot. *)
Allocproc(c, p) ==
  /\ On(c, p, "user")
  /\ \E n \in Procs :
       /\ state[n] = "UNUSED"
       /\ \A m \in 1..n-1 : state[m] # "UNUSED"
       /\ state' = [state EXCEPT ![n] = "EMBRYO"]
       /\ priority' = [priority EXCEPT ![n] = 0]
       /\ extime' = [extime EXCEPT ![n] = 0]
       /\ level' = [level EXCEPT ![n] = 0]
       /\ child' = [child EXCEPT ![p] = n]
  /\ pc' = [pc EXCEPT ![p] = "fork"]
  /\ UNCHANGED <<parent, chan, killed, numproc, heads, sched, trap, ticks,
                 panicked>>

(* The rest of fork(). *)
Fork(c, p) ==
  LET np == child[p] IN
  /\ On(c, p, "fork")
  /\ parent' = [parent EXCEPT ![np] = p]
  /\ state' = Runnable(state, {np})
  /\ numproc' = Enqueue({np})
  /\ pc' = [pc EXCEPT ![p] = "user", ![np] = "user"]
  /\ child' = [child EXCEPT ![p] = NoProc]
  /\ UNCHANGED <<level, extime, priority, chan, killed, heads, sched, trap,
                 ticks, panicked>>

(* Out of memory for the kernel stack or the page table. *)
ForkFail(c, p) ==
  /\ On(c, p, "fork")
  /\ state' = [state EXCEPT ![child[p]] = "UNUSED"]
  /\ pc' = [pc EXCEPT ![p] = "user"]
  /\ child' = [child EXCEPT ![p] = NoProc]
  /\ UNCHANGED <<level, extime, priority, parent, chan, killed, numproc, heads,
                 sched, trap, ticks, panicked>>

\* mutant: the parent is not woken
ExitWakesInit(p) ==
  IF \E q \in Procs : parent[q] = p /\ state[q] = "ZOMBIE"
  THEN Sleepers(initproc) ELSE {}

(* The processes that exit() wakes: the parent, and init when it inherits  *)
(* a zombie.                                                               *)
ExitWakes(p) ==
  Sleepers(parent[p]) \union
    (IF \E q \in Procs : parent[q] = p /\ state[q] = "ZOMBIE"
     THEN Sleepers(initproc) ELSE {})

(* The part of exit() under ptable.lock. *)
ExitBody(c, p) ==
  LET kids == {q \in Procs : parent[q] = p}
      woken == ExitWakes(p)
  IN
  /\ IF p = initproc
     THEN /\ panicked' = "init exiting"
          /\ UNCHANGED <<state, numproc, parent, sched>>
     ELSE /\ state' = [Runnable(state, woken) EXCEPT ![p] = "ZOMBIE"]
          /\ numproc' = Enqueue(woken)
          /\ parent' = [q \in Procs |-> IF q \in kids THEN initproc ELSE parent[q]]
          /\ Sched(c)
          /\ UNCHANGED panicked
  /\ UNCHANGED <<level, extime, priority, chan, killed, pc, child, heads, ticks>>

Exit(c, p) ==
  /\ On(c, p, "user")
  /\ ExitBody(c, p)
  /\ UNCHANGED trap

(* One round of wait()'s loop. *)
Wait(c, p) ==
  LET kids    == {q \in Procs : parent[q] = p}
      zombies == {q \in kids : state[q] = "ZOMBIE"}
      same    == <<extime, priority, level, numproc, heads, trap, ticks, panicked>>
  IN
  /\ On(c, p, "user") \/ On(c, p, "wait")
  /\ \/ \E q \in zombies :
          /\ \A r \in zombies : q <= r
          /\ state' = [state EXCEPT ![q] = "UNUSED"]
          /\ parent' = [parent EXCEPT ![q] = NoProc]
          /\ killed' = [killed EXCEPT ![q] = 0]
          /\ pc' = [pc EXCEPT ![p] = "user"]
          /\ UNCHANGED <<chan, child, sched, same>>
     \/ /\ zombies = {}
        /\ kids = {} \/ killed[p] = 1
        /\ pc' = [pc EXCEPT ![p] = "user"]
        /\ UNCHANGED <<state, parent, chan, killed, child, sched, same>>
     \/ /\ zombies = {} /\ kids # {} /\ killed[p] = 0
        /\ Sleep(c, p, p)
        /\ pc' = [pc EXCEPT ![p] = "wait"]

Kill(c, p, t) ==
  /\ On(c, p, "user")
  /\ state[t] # "UNUSED"
  /\ killed' = [killed EXCEPT ![t] = 1]
  /\ LET woken == {t} \intersect {q \in Procs : state[q] = "SLEEPING"}
     IN state' = Runnable(state, woken) /\ numproc' = Enqueue(woken)
  /\ UNCHANGED <<level, extime, priority, parent, chan, pc, child, heads, sched,
                 trap, ticks, panicked>>

(* setpriority(): only a child's. *)
SetPriority(c, p, t, n) ==
  /\ On(c, p, "user")
  /\ state[t] # "UNUSED" /\ parent[t] = p
  /\ priority' = [priority EXCEPT ![t] = n]
  /\ UNCHANGED <<queue, extime, ident, heads, sched, trap, ticks, panicked>>

-----------------------------------------------------------------------------
(* The timer interrupt.  It runs with interrupts off: nothing else runs on *)
(* the CPU until it is over.  CPU 0 counts ticks, degrades its process and *)
(* boosts; every CPU then gives up the process it was running.             *)

\* mutant: off by one
ExpiredLate(p) == extime[p] + 1 > QT(level[p])

Expired(p) == extime[p] + 1 >= QT(level[p])

(* degrade(): with no process running there is nothing to degrade. *)
Degrade(p) ==
  IF p = NoProc
  THEN UNCHANGED <<queue, extime, heads, panicked>>
  ELSE LET l == level[p] IN
  IF heads[l] # p
  THEN /\ extime' = [extime EXCEPT ![p] = @ + 1]
       /\ panicked' = "degrade"
       /\ UNCHANGED <<queue, heads>>
  ELSE /\ UNCHANGED <<state, panicked>>
       /\ IF ~Expired(p)
          THEN /\ extime' = [extime EXCEPT ![p] = @ + 1]
               /\ UNCHANGED <<level, numproc, heads>>
          ELSE /\ heads' = [heads EXCEPT ![l] = NoProc]
               /\ IF l = MLFQ_K - 1
                  THEN /\ extime' = [extime EXCEPT ![p] = -1]
                       /\ UNCHANGED <<level, numproc>>
                  ELSE /\ extime' = [extime EXCEPT ![p] = 0]
                       /\ level' = [level EXCEPT ![p] = l + 1]
                       /\ numproc' =
                            IF state[p] = "RUNNABLE"
                            THEN [numproc EXCEPT ![l] = @ - 1, ![l + 1] = @ + 1]
                            ELSE numproc

Tick(c) ==
  /\ panicked = "none" /\ lock = NoCPU /\ trap[c] = "none"
  /\ IF c = 0
     THEN /\ ticks' = (ticks + 1) % BOOST
          /\ trap' = [trap EXCEPT ![c] = IF ticks' = 0 THEN "boost" ELSE "wakeup"]
          /\ Degrade(cur[c])
     ELSE /\ trap' = [trap EXCEPT ![c] = "return"]
          /\ UNCHANGED <<ticks, queue, extime, heads, panicked>>
  /\ UNCHANGED <<priority, ident, sched>>

(* boost(): everybody back to the top queue. *)
Boost(c) ==
  /\ panicked = "none" /\ lock = NoCPU /\ trap[c] = "boost"
  /\ trap' = [trap EXCEPT ![c] = "wakeup"]
  /\ numproc' = [l \in Levels |->
       LET below == {p \in Procs : state[p] = "RUNNABLE" /\ level[p] # 0}
       IN  IF l = 0 THEN numproc[0] + Cardinality(below)
           ELSE numproc[l] - Cardinality({p \in below : level[p] = l})]
  /\ level' = [p \in Procs |-> IF state[p] # "UNUSED" THEN 0 ELSE level[p]]
  /\ extime' = [p \in Procs |-> IF state[p] # "UNUSED" THEN 0 ELSE extime[p]]
  /\ UNCHANGED <<state, priority, ident, heads, sched, ticks, panicked>>

(* wakeup(&ticks) *)
WakeupTicks(c) ==
  /\ panicked = "none" /\ lock = NoCPU /\ trap[c] = "wakeup"
  /\ trap' = [trap EXCEPT ![c] = "return"]
  /\ state' = Runnable(state, Sleepers(TicksChan))
  /\ numproc' = Enqueue(Sleepers(TicksChan))
  /\ UNCHANGED <<level, extime, priority, ident, heads, sched, ticks, panicked>>

(* The end of trap(): a killed process that was in user space exits, any   *)
(* other process yields; a process at "user" may be in either.             *)
TrapReturn(c) ==
  LET p == cur[c] IN
  /\ panicked = "none" /\ lock = NoCPU /\ trap[c] = "return"
  /\ trap' = [trap EXCEPT ![c] = "none"]
  /\ \/ /\ p = NoProc
        /\ UNCHANGED <<queue, extime, priority, ident, heads, sched, ticks,
                       panicked>>
     \/ /\ p # NoProc /\ killed[p] = 1 /\ pc[p] = "user"
        /\ ExitBody(c, p)
     \/ /\ p # NoProc
        /\ state' = Runnable(state, {p})
        /\ numproc' = Enqueue({p})
        /\ Sched(c)
        /\ UNCHANGED <<level, extime, priority, ident, heads, ticks, panicked>>

-----------------------------------------------------------------------------
(* scheduler(). *)

(* acquire(&ptable.lock), then schbegin. *)
SchedBegin(c) ==
  /\ panicked = "none" /\ lock = NoCPU
  /\ cur[c] = NoProc /\ trap[c] = "none"
  /\ lock' = c
  /\ slevel' = [slevel EXCEPT ![c] = 0]
  /\ spos' = [spos EXCEPT ![c] = 1]
  /\ UNCHANGED <<queue, extime, priority, ident, heads, cur, trap, ticks, panicked>>

\* mutant: the current queue counts as one above it
PreemptedByOwn(c) == \E i \in 0..slevel[c] : numproc[i] > 0

(* A queue above the current one has a runnable process. *)
Preempted(c) == \E i \in 0..slevel[c]-1 : numproc[i] > 0

Candidate(c, p) == state[p] = "RUNNABLE" /\ level[p] = slevel[c]

\* mutant: priorities are compared from three processes on
BetterOfThree(c, p) ==
  IF numproc[slevel[c]] > 2
  THEN {q \in Procs : Candidate(c, q) /\ priority[q] > priority[p]} ELSE {}

(* Processes of the current queue with a higher priority than p; the code  *)
(* looks for them only when the queue has more than one process.           *)
Better(c, p) ==
  IF numproc[slevel[c]] > 1
  THEN {q \in Procs : Candidate(c, q) /\ priority[q] > priority[p]} ELSE {}

(* One iteration of the search: restart at the top (goto schbegin), skip,  *)
(* restart this queue (goto schsearch).                                    *)
Search(c) ==
  LET p == spos[c] IN
  /\ panicked = "none" /\ lock = c /\ p <= NPROC
  /\ IF Preempted(c)
     THEN /\ slevel' = [slevel EXCEPT ![c] = 0]
          /\ spos' = [spos EXCEPT ![c] = 1]
     ELSE /\ ~Candidate(c, p) \/ Better(c, p) # {}
          /\ spos' = [spos EXCEPT ![c] =
                        IF Candidate(c, p) /\ \E q \in Better(c, p) : q < p
                        THEN 1 ELSE p + 1]
          /\ UNCHANGED slevel
  /\ UNCHANGED <<queue, extime, priority, ident, heads, lock, cur, trap, ticks,
                 panicked>>

(* Switch to the chosen process, which releases ptable.lock (and tidies up *)
(* p->chan when it was in sleep()).                                        *)
Dispatch(c) ==
  LET p == spos[c] IN
  /\ panicked = "none" /\ lock = c /\ p <= NPROC
  /\ ~Preempted(c) /\ Candidate(c, p) /\ Better(c, p) = {}
  /\ cur' = [cur EXCEPT ![c] = p]
  /\ heads' = [heads EXCEPT ![level[p]] = p]
  /\ state' = [state EXCEPT ![p] = "RUNNING"]
  /\ numproc' = [numproc EXCEPT ![level[p]] = @ - 1]
  /\ chan' = [chan EXCEPT ![p] = NoChan]
  /\ lock' = NoCPU
  /\ UNCHANGED <<level, extime, priority, parent, killed, pc, child, slevel, spos,
                 trap, ticks, panicked>>

(* The end of the table: again while the queue is not empty, else the next *)
(* queue, and after the last one release ptable.lock.                      *)
SearchEnd(c) ==
  /\ panicked = "none" /\ lock = c /\ spos[c] > NPROC
  /\ IF numproc[slevel[c]] > 0
     THEN UNCHANGED <<slevel, lock>>
     ELSE /\ slevel' = [slevel EXCEPT ![c] = @ + 1]
          /\ lock' = IF slevel[c] = MLFQ_K - 1 THEN NoCPU ELSE c
  /\ spos' = [spos EXCEPT ![c] = 1]
  /\ UNCHANGED <<queue, extime, priority, ident, heads, cur, trap, ticks, panicked>>

(* panic() does not return. *)
Halt == panicked # "none" /\ UNCHANGED vars

-----------------------------------------------------------------------------
Syscall(c, p) ==
  \/ Yield(c, p) \/ Rst(c, p) \/ SysSleep(c, p) \/ SysSleepEnd(c, p)
  \/ SleepIo(c, p) \/ Allocproc(c, p) \/ Fork(c, p) \/ ForkFail(c, p)
  \/ Exit(c, p) \/ Wait(c, p)
  \/ \E t \in Procs : Kill(c, p, t) \/ \E n \in Prios : SetPriority(c, p, t, n)

Timer(c) == Boost(c) \/ WakeupTicks(c) \/ TrapReturn(c)

Scheduler(c) == SchedBegin(c) \/ Search(c) \/ Dispatch(c) \/ SearchEnd(c)

Next ==
  \/ \E c \in CPUs :
       \/ \E p \in Procs : Syscall(c, p)
       \/ WakeupIo(c)
       \/ Tick(c)
       \/ Timer(c)
       \/ Scheduler(c)
  \/ Halt

Spec == Init /\ [][Next]_vars

-----------------------------------------------------------------------------
(* Properties. *)

(* proc_MLFQ.c:14: numproc[l] is the number of RUNNABLE processes at level *)
(* l, across every path that changes a state or a level (the scheduler     *)
(* loops for ever on a count that is too high, and runs lower queues       *)
(* although a process is waiting on one that is too low).                  *)
NumprocExact ==
  \A l \in Levels :
    numproc[l] = Cardinality({p \in Procs : state[p] = "RUNNABLE" /\ level[p] = l})

(* The scheduler only ever dispatches a process of the first non-empty     *)
(* queue, and one of the highest priority in it, wherever its search       *)
(* resumes after the last process left the CPU.                            *)
DispatchesBest ==
  [][\A c \in CPUs :
       cur[c] = NoProc /\ cur'[c] # NoProc =>
         LET p == cur'[c] IN
         \A q \in Procs : state[q] = "RUNNABLE" =>
           \/ level[q] > level[p]
           \/ level[q] = level[p] /\ priority[q] <= priority[p]]_vars

(* A process runs on one CPU at a time, and exactly the processes on a CPU *)
(* are RUNNING, except for a machine that has stopped.                     *)
OneCPUEach ==
  /\ \A c, d \in CPUs : cur[c] = cur[d] /\ cur[c] # NoProc => c = d
  /\ \A p \in Procs : state[p] = "RUNNING" <=> \E c \in CPUs : cur[c] = p

(* No process keeps a level for longer than its quantum QT(level), apart   *)
(* from the -1 that marks the bottom queue.                                *)
WithinQuantum ==
  panicked = "none" =>
    \A p \in Procs : state[p] # "UNUSED" =>
      extime[p] \in -1..QT(level[p]) - 1

(* exit() and wait() lose no child: a parent that sleeps in wait() has no  *)
(* zombie, not even one it has just inherited as init.                     *)
NoLostExit ==
  \A p, q \in Procs :
    state[p] = "SLEEPING" /\ chan[p] = p =>
      ~(parent[q] = p /\ state[q] = "ZOMBIE")

-----------------------------------------------------------------------------
(* Liveness.  A CPU does not stop executing the kernel; a timer interrupt  *)
(* that comes while interrupts are off stays pending, so it is taken when  *)
(* they are on often enough (strong fairness).  No process is forced to    *)
(* make a system call.                                                     *)
Fairness ==
  \A c \in CPUs : WF_vars(Timer(c)) /\ SF_vars(Scheduler(c)) /\ SF_vars(Tick(c))

LiveSpec == Spec /\ Fairness

(* The search of scheduler() ends, and with it the time ptable.lock is     *)
(* held, in spite of its two backward jumps.                               *)
SearchEnds == \A c \in CPUs : lock = c ~> lock # c

(* With equal priorities every runnable process is run, although others    *)
(* may go back to the top queue by yield() and sleep() for ever: boost()   *)
(* sees to it.                                                             *)
NoStarvation ==
  \A p \in Procs :
    state[p] = "RUNNABLE" ~> (state[p] = "RUNNING" \/ panicked # "none")
=============================================================================
