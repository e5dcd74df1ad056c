----------------------------- MODULE MultiLevel -----------------------------
(***************************************************************************)
(* The process table of proc_multiLevel.c (SCHED_POLICY=MULTILEVEL_SCHED): *)
(* scheduler() serves the processes with an even pid round robin and, only *)
(* when none of them is ready, the one with the lowest odd pid.            *)
(*                                                                         *)
(* One action is one critical section of ptable.lock, except that the      *)
(* loops of scheduler(), which keep the lock from the moment a process     *)
(* leaves the CPU until the next one gets it, take one action for each     *)
(* slot they look at.                                                      *)
(***************************************************************************)
EXTENDS Integers, FiniteSets

CONSTANTS
  NPROC,    \* slots of ptable.proc[]
  NCPU,     \* processors; the Makefile's default is one
  MaxPid    \* the last pid that fork() hands out

ASSUME MultiLevelConstants ==
  NPROC \in Nat \ {0} /\ NCPU \in Nat \ {0} /\ MaxPid \in Nat \ {0}

VARIABLES
  ptable,    \* ptable.proc[], with each process's place in the kernel
  nextpid,
  lock,      \* the CPU whose scheduler holds ptable.lock, NoCPU if it is free
  cpu,       \* c->proc, and the loop variables of scheduler()
  overtaken, \* history: the even pids dispatched while an even one was RUNNABLE
  panicked   \* panic("init exiting")

vars == <<ptable, nextpid, lock, cpu, overtaken, panicked>>

Slots    == 1..NPROC
CPUs     == 0..NCPU-1
None     == 0
NoCPU    == NCPU
initproc == 1
IoChan   == NPROC + 1   \* any channel but a process: the ticks, a device, a pipe

Even(p)  == ptable[p].pid % 2 = 0
Ready(p) == ptable[p].state = "RUNNABLE"

TypeOK ==
  /\ ptable \in [Slots ->
       [state : {"UNUSED", "EMBRYO", "SLEEPING", "RUNNABLE", "RUNNING", "ZOMBIE"},
        pid : 0..MaxPid, parent : Slots \union {None}, chan : 0..IoChan,
        killed : {0, 1}, pc : {"user", "fork", "wait"},
        np : Slots \union {None}]]                   \* fork's np
  /\ nextpid \in 1..MaxPid + 1
  /\ lock \in CPUs \union {NoCPU}
  /\ cpu \in [CPUs -> [proc : Slots \union {None}, loop : {"even", "odd"},
                       pos : 1..NPROC + 1, best : Slots \union {None}]]
  /\ overtaken \in [Slots -> SUBSET (0..MaxPid)]
  /\ panicked \in BOOLEAN

Unused == [state |-> "UNUSED", pid |-> 0, parent |-> None, chan |-> 0,
           killed |-> 0, pc |-> "user", np |-> None]

(* pinit() and userinit(). *)
Init ==
  /\ ptable = [p \in Slots |-> IF p = initproc
                               THEN [Unused EXCEPT !.state = "RUNNABLE", !.pid = 1]
                               ELSE Unused]
  /\ nextpid = 2
  /\ lock = NoCPU
  /\ cpu = [c \in CPUs |-> [proc |-> None, loop |-> "even", pos |-> 1, best |-> None]]
  /\ overtaken = [p \in Slots |-> {}]
  /\ panicked = FALSE

-----------------------------------------------------------------------------
(* myproc(): p runs on CPU c, at point s of the kernel, and nobody holds   *)
(* ptable.lock.                                                            *)
On(c, p, s) ==
  ~panicked /\ lock = NoCPU /\ cpu[c].proc = p /\ ptable[p].pc = s

(* wakeup1(ch) on a process table. *)
Wakeup1(pt, ch) ==
  [q \in Slots |-> IF pt[q].state = "SLEEPING" /\ pt[q].chan = ch
                   THEN [pt[q] EXCEPT !.state = "RUNNABLE"] ELSE pt[q]]

\* mutant: the round over the even pids starts again after each process
SchedRestart(c) ==
  /\ lock' = c
  /\ cpu' = [cpu EXCEPT ![c] = [@ EXCEPT !.proc = None, !.pos = 1, !.best = None]]

(* sched(): CPU c is back in scheduler(), with ptable.lock, behind swtch():  *)
(* the loop over the even pids goes on with p++, the search for an odd one   *)
(* begins again.                                                             *)
Sched(c) ==
  /\ lock' = c
  /\ cpu' = [cpu EXCEPT ![c] =
       IF @.loop = "even" THEN [@ EXCEPT !.proc = None, !.pos = cpu[c].pos + 1]
       ELSE [@ EXCEPT !.proc = None, !.pos = 1, !.best = None]]

(* yield(), from sys_yield() or from the timer interrupt, which can come   *)
(* anywhere outside of a critical section.                                 *)
Yield(c, p) ==
  /\ \E s \in {"user", "fork", "wait"} : On(c, p, s)
  /\ ptable' = [ptable EXCEPT ![p].state = "RUNNABLE"]
  /\ Sched(c)
  /\ UNCHANGED <<nextpid, overtaken, panicked>>

(* sleep() for the ticks, a device or a pipe. *)
Sleep(c, p) ==
  /\ On(c, p, "user")
  /\ ptable' = [ptable EXCEPT ![p].state = "SLEEPING", ![p].chan = IoChan]
  /\ Sched(c)
  /\ UNCHANGED <<nextpid, overtaken, panicked>>

(* wakeup(), by an interrupt or by a running process. *)
Wakeup ==
  /\ ~panicked /\ lock = NoCPU
  /\ \E p \in Slots : ptable[p].state = "SLEEPING" /\ ptable[p].chan = IoChan
  /\ ptable' = Wakeup1(ptable, IoChan)
  /\ UNCHANGED <<nextpid, lock, cpu, overtaken, panicked>>

(* allocproc(): the first UNUSED slot.  It does not reset p->killed. *)
Allocproc(c, p) ==
  /\ On(c, p, "user") /\ nextpid <= MaxPid
  /\ \E n \in Slots :
       /\ ptable[n].state = "UNUSED"
       /\ \A m \in 1..n-1 : ptable[m].state # "UNUSED"
       /\ ptable' = [ptable EXCEPT ![n].state = "EMBRYO", ![n].pid = nextpid,
                                   ![p].pc = "fork", ![p].np = n]
  /\ nextpid' = nextpid + 1
  /\ UNCHANGED <<lock, cpu, overtaken, panicked>>

(* The rest of fork(); the child starts in forkret(). *)
Fork(c, p) ==
  /\ On(c, p, "fork")
  /\ ptable' = [ptable EXCEPT
       ![ptable[p].np] = [@ EXCEPT !.state = "RUNNABLE", !.parent = p, !.pc = "user"],
       ![p].pc = "user", ![p].np = None]
  /\ UNCHANGED <<nextpid, lock, cpu, overtaken, panicked>>

(* No memory for the kernel stack or the page table: the pid stays in the  *)
(* slot.                                                                   *)
ForkFail(c, p) ==
  /\ On(c, p, "fork")
  /\ ptable' = [ptable EXCEPT ![ptable[p].np].state = "UNUSED",
                              ![p].pc = "user", ![p].np = None]
  /\ UNCHANGED <<nextpid, lock, cpu, overtaken, panicked>>

(* exit(), called by a program or by trap() for a killed process; init     *)
(* does not call it.                                                       *)
Exit(c, p) ==
  LET kids == {q \in Slots : ptable[q].parent = p}
      pt   == [q \in Slots |-> IF q \in kids THEN [ptable[q] EXCEPT !.parent = initproc]
                               ELSE ptable[q]]
      pt2  == Wakeup1(pt, ptable[p].parent)
      pt3  == IF \E q \in kids : pt[q].state = "ZOMBIE" THEN Wakeup1(pt2, initproc)
              ELSE pt2
  IN
  /\ On(c, p, "user")
  /\ IF p = initproc
     THEN /\ ptable[p].killed = 1
          /\ panicked' = TRUE
          /\ UNCHANGED <<ptable, lock, cpu>>
     ELSE /\ ptable' = [pt3 EXCEPT ![p].state = "ZOMBIE"]
          /\ Sched(c)
          /\ UNCHANGED panicked
  /\ UNCHANGED <<nextpid, overtaken>>

(* One round of wait()'s loop. *)
Wait(c, p) ==
  LET kids    == {q \in Slots : ptable[q].parent = p}
      zombies == {q \in kids : ptable[q].state = "ZOMBIE"}
  IN
  /\ On(c, p, "user") \/ On(c, p, "wait")
  /\ \/ \E q \in zombies :
          /\ \A r \in zombies : q <= r
          /\ ptable' = [ptable EXCEPT
               ![q] = [@ EXCEPT !.state = "UNUSED", !.pid = 0, !.parent = None,
                                !.killed = 0],
               ![p].pc = "user"]
          /\ UNCHANGED <<lock, cpu>>
     \/ /\ zombies = {} /\ (kids = {} \/ ptable[p].killed = 1)
        /\ ptable' = [ptable EXCEPT ![p].pc = "user"]
        /\ UNCHANGED <<lock, cpu>>
     \/ /\ zombies = {} /\ kids # {} /\ ptable[p].killed = 0
        /\ ptable' = [ptable EXCEPT ![p] =
             [@ EXCEPT !.state = "SLEEPING", !.chan = p, !.pc = "wait"]]
        /\ Sched(c)
  /\ UNCHANGED <<nextpid, overtaken, panicked>>

(* kill(): the first slot with that pid, whatever its state; a free slot   *)
(* has pid 0.                                                              *)
Kill(c, p, k) ==
  /\ On(c, p, "user")
  /\ \E t \in Slots :
       /\ ptable[t].pid = k
       /\ \A q \in 1..t-1 : ptable[q].pid # k
       /\ ptable' = [ptable EXCEPT
            ![t].killed = 1,
            ![t].state = IF @ = "SLEEPING" THEN "RUNNABLE" ELSE @]
  /\ UNCHANGED <<nextpid, lock, cpu, overtaken, panicked>>

-----------------------------------------------------------------------------
(* scheduler(). *)

(* sti() and acquire(&ptable.lock). *)
SchedBegin(c) ==
  /\ ~panicked /\ lock = NoCPU /\ cpu[c].proc = None
  /\ lock' = c
  /\ cpu' = [cpu EXCEPT ![c] = [@ EXCEPT !.loop = "even", !.pos = 1]]
  /\ UNCHANGED <<ptable, nextpid, overtaken, panicked>>

(* In loop l of scheduler(), with the lock. *)
In(c, l) == ~panicked /\ lock = c /\ cpu[c].loop = l

(* Run p, which releases ptable.lock (and leaves sleep() by clearing       *)
(* p->chan).                                                               *)
Dispatch(c, p) ==
  /\ ptable' = [ptable EXCEPT ![p].state = "RUNNING", ![p].chan = 0]
  /\ cpu' = [cpu EXCEPT ![c].proc = p]
  /\ lock' = NoCPU
  /\ overtaken' = [q \in Slots |-> IF q = p THEN {}
                                   ELSE IF Ready(q) /\ Even(q) /\ Even(p)
                                   THEN overtaken[q] \union {ptable[p].pid}
                                   ELSE overtaken[q]]
  /\ UNCHANGED <<nextpid, panicked>>

(* Label even: the next slot. *)
EvenNext(c) ==
  LET p == cpu[c].pos IN
  /\ In(c, "even") /\ p <= NPROC
  /\ ~Even(p) \/ ~Ready(p)
  /\ cpu' = [cpu EXCEPT ![c].pos = p + 1]
  /\ UNCHANGED <<ptable, nextpid, lock, overtaken, panicked>>

EvenDispatch(c) ==
  LET p == cpu[c].pos IN
  /\ In(c, "even") /\ p <= NPROC
  /\ Even(p) /\ Ready(p)
  /\ Dispatch(c, p)

(* The end of the round: on to the odd pids. *)
EvenEnd(c) ==
  /\ In(c, "even") /\ cpu[c].pos > NPROC
  /\ cpu' = [cpu EXCEPT ![c] = [@ EXCEPT !.loop = "odd", !.pos = 1, !.best = None]]
  /\ UNCHANGED <<ptable, nextpid, lock, overtaken, panicked>>

\* mutant: the slot decides
BetterFirst(best, p) == best = None

(* tmp == 0 || tmp > p1->pid *)
Better(best, p) == best = None \/ ptable[best].pid > ptable[p].pid

\* mutant: ready even pids are skipped
OddNextOnly(c) ==
  LET p    == cpu[c].pos
      best == cpu[c].best
  IN
  /\ In(c, "odd") /\ p <= NPROC
  /\ cpu' = [cpu EXCEPT ![c] =
       [@ EXCEPT !.pos = p + 1,
                 !.best = IF Ready(p) /\ ~Even(p) /\ Better(best, p) THEN p ELSE best]]
  /\ UNCHANGED <<ptable, nextpid, lock, overtaken, panicked>>

(* The search for the lowest odd pid, given up (goto even) when an even    *)
(* pid is ready.                                                           *)
OddNext(c) ==
  LET p    == cpu[c].pos
      best == cpu[c].best
  IN
  /\ In(c, "odd") /\ p <= NPROC
  /\ cpu' = [cpu EXCEPT ![c] =
       IF Ready(p) /\ Even(p) THEN [@ EXCEPT !.loop = "even", !.pos = 1]
       ELSE [@ EXCEPT !.pos = p + 1,
                      !.best = IF Ready(p) /\ Better(best, p) THEN p ELSE best]]
  /\ UNCHANGED <<ptable, nextpid, lock, overtaken, panicked>>

OddDispatch(c) ==
  /\ In(c, "odd") /\ cpu[c].pos > NPROC /\ cpu[c].best # None
  /\ Dispatch(c, cpu[c].best)

(* Nobody is ready: release(&ptable.lock). *)
OddEnd(c) ==
  /\ In(c, "odd") /\ cpu[c].pos > NPROC /\ cpu[c].best = None
  /\ lock' = NoCPU
  /\ UNCHANGED <<ptable, nextpid, cpu, overtaken, panicked>>

-----------------------------------------------------------------------------
Syscall(c, p) ==
  \/ Sleep(c, p) \/ Allocproc(c, p) \/ Fork(c, p) \/ ForkFail(c, p)
  \/ Exit(c, p) \/ Wait(c, p) \/ \E k \in 0..MaxPid : Kill(c, p, k)

Scheduler(c) ==
  \/ SchedBegin(c) \/ EvenNext(c) \/ EvenDispatch(c) \/ EvenEnd(c)
  \/ OddNext(c) \/ OddDispatch(c) \/ OddEnd(c)

Timer(c) == \E p \in Slots : Yield(c, p)

(* panic() does not return. *)
Halt == panicked /\ UNCHANGED vars

Next ==
  \/ \E c \in CPUs : (\E p \in Slots : Syscall(c, p)) \/ Timer(c) \/ Scheduler(c)
  \/ Wakeup
  \/ Halt

Spec == Init /\ [][Next]_vars

-----------------------------------------------------------------------------
(* Properties. *)

(* Slot p has just been given to a CPU. *)
Dispatched(p) == \E c \in CPUs : cpu[c].proc = None /\ cpu'[c].proc = p

(* First come, first served: a process with an odd pid gets a CPU only     *)
(* when no even pid is ready and no lower odd one, whatever was forked,    *)
(* woken or killed while the last process ran (proc_multiLevel.c:366).     *)
EvenThenOldest ==
  [][\A p \in Slots : Dispatched(p) /\ ~Even(p) =>
       \A q \in Slots : Ready(q) => ~Even(q) /\ ptable[p].pid <= ptable[q].pid]_vars

(* Round robin: on one CPU no process with an even pid gets its turn twice *)
(* while another one stays ready (proc_multiLevel.c:335), although the     *)
(* round is interrupted by the odd pids and begins again (goto even).      *)
RoundRobin ==
  [][\A p \in Slots : NCPU = 1 /\ Dispatched(p) /\ Even(p) =>
       \A q \in Slots \ {p} : Ready(q) /\ Even(q) => ptable[p].pid \notin overtaken[q]]_vars

(* exit() and wait() lose no child: a parent that sleeps in wait() has no  *)
(* zombie, not even one it has just inherited as init.                     *)
NoLostExit ==
  \A p, q \in Slots :
    ptable[p].state = "SLEEPING" /\ ptable[p].pc = "wait" =>
      ~(ptable[q].parent = p /\ ptable[q].state = "ZOMBIE")

-----------------------------------------------------------------------------
(* Liveness.  A CPU goes on in the kernel, and a timer interrupt that      *)
(* comes while interrupts are off stays pending (strong fairness).         *)
Fairness == \A c \in CPUs : SF_vars(Scheduler(c)) /\ SF_vars(Timer(c))

LiveSpec == Spec /\ Fairness

(* Nobody whose turn it is waits for ever: a ready process with an even    *)
(* pid runs, and one with an odd pid does if from some time on it is the   *)
(* lowest and no even one is ready.  (An odd pid may starve otherwise:     *)
(* that is the policy.)                                                    *)
TurnComes ==
  \A p \in Slots :
    ~<>[](/\ ~panicked /\ Ready(p)
          /\ Even(p) \/ \A q \in Slots : Ready(q) => ~Even(q) /\ ptable[p].pid <= ptable[q].pid)
=============================================================================
