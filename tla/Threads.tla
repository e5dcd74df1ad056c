------------------------------- MODULE Threads -------------------------------
(***************************************************************************)
(* Processes and threads of proc.c (the default build): the process table, *)
(* fork/exit/wait/kill, thread_create/thread_exit/thread_join, and what    *)
(* exit() and exec() do to the other threads of a process.                 *)
(*                                                                         *)
(* One action is one critical section of ptable.lock, or the unlocked code *)
(* up to the next point where the timer can preempt the process and        *)
(* another one can observe a difference.  RUNNABLE stands for RUNNABLE and *)
(* RUNNING: which ready process runs is left open here.                    *)
(***************************************************************************)
EXTENDS Integers, FiniteSets

CONSTANTS
  NPROC,      \* slots of ptable.proc[]
  Programs    \* what the programs on the machine do, see Program

(* "main_exit" is thread_exit() called by a main thread. *)
AllCalls == {"fork", "exit", "wait", "kill", "create", "thread_exit", "main_exit",
             "join", "exec", "io", "op"}

(* The system calls that init makes, those that the other processes and    *)
(* threads make, the last pid that fork() and the last tid that            *)
(* thread_create() may hand out, and whether memory may run out.           *)
Program == [init : SUBSET (AllCalls \ {"exit", "main_exit"}),
            user : SUBSET AllCalls, pids : Nat, tids : Nat, nomem : BOOLEAN]

ASSUME ThreadsConstants ==
  /\ NPROC \in Nat \ {0}
  /\ Programs \subseteq Program

VARIABLES
  program,      \* what runs on this machine
  ptable,       \* ptable.proc[], with each process's place in the kernel
  nextpid,
  nexttid,
  mapped,       \* page directories in use: allocated and not freed by freevm
  outstanding   \* log.outstanding

vars == <<program, ptable, nextpid, nexttid, mapped, outstanding>>

Slots    == 1..NPROC
None     == 0            \* a null struct proc *
initproc == 1
IoChan   == NPROC + 1    \* any channel that is not a process
Pgdirs   == 1..NPROC + 1

\* mutant: a page directory in use
NewPgdirInUse(g) == g \in mapped

(* The page directory setupkvm() builds: which page it is does not matter. *)
NewPgdir(g) == g \in Pgdirs \ mapped /\ \A h \in 1..g-1 : h \in mapped

Live(p) == ptable[p].state \notin {"UNUSED", "EMBRYO"}

PCs == {"user", "fork", "nextpid", "nexttid", "create", "clear", "exit",
        "thread_exit", "wait", "join", "exec", "iput", "load"}

TypeOK ==
  /\ program \in Programs
  /\ ptable \in [Slots ->
       [state : {"UNUSED", "EMBRYO", "SLEEPING", "RUNNABLE", "ZOMBIE"},
        pid : 0..program.pids + NPROC, tid : 0..program.tids, main : Slots \union {None},
        parent : Slots \union {None}, chan : 0..IoChan, killed : {0, 1},
        pgdir : Pgdirs \union {None}, pc : PCs,
        np : Slots \union {None},   \* fork's and thread_create's np, exec's victim
        tmp : 0..program.tids,            \* the tid read from nexttid, or to join
        inop : {0, 1}]]             \* between begin_op() and end_op()
  /\ nextpid \in 0..program.pids + NPROC + 1
  /\ nexttid \in 0..program.tids + 1
  /\ mapped \subseteq Pgdirs
  /\ outstanding \in Nat

Unused == [state |-> "UNUSED", pid |-> 0, tid |-> 0, main |-> None,
           parent |-> None, chan |-> 0, killed |-> 0, pgdir |-> None,
           pc |-> "user", np |-> None, tmp |-> 0, inop |-> 0]

(* userinit() has made the first process. *)
Init ==
  /\ program \in Programs
  /\ ptable = [p \in Slots |->
       IF p = initproc
       THEN [Unused EXCEPT !.state = "RUNNABLE", !.pid = 1, !.pgdir = 1]
       ELSE Unused]
  /\ nextpid = 2
  /\ nexttid = 1
  /\ mapped = {1}
  /\ outstanding = 0

-----------------------------------------------------------------------------
(* wakeup1(ch) on a process table. *)
Wake(pt, ch) ==
  [q \in Slots |-> IF pt[q].state = "SLEEPING" /\ pt[q].chan = ch
                   THEN [pt[q] EXCEPT !.state = "RUNNABLE", !.chan = 0] ELSE pt[q]]

SleepOn(r, ch) == [r EXCEPT !.state = "SLEEPING", !.chan = ch]

\* mutant: children are left behind
OrphanNone(pt, p) == pt

(* The children of p go to init, which is woken for zombies. *)
Orphan(pt, p) ==
  LET kids == {q \in Slots : pt[q].parent = p}
      pt2  == [q \in Slots |-> IF q \in kids THEN [pt[q] EXCEPT !.parent = initproc]
                               ELSE pt[q]]
  IN  IF \E q \in kids : pt[q].state = "ZOMBIE" THEN Wake(pt2, initproc) ELSE pt2

(* thread_clear(): the page directory is left alone. *)
ThreadClear(r) ==
  [r EXCEPT !.pid = 0, !.tid = 0, !.main = None, !.parent = None, !.killed = 0,
            !.state = "UNUSED"]

Main(p) == IF ptable[p].main = None THEN p ELSE ptable[p].main

(* Process p is ready and at point s of the kernel; a process at "user" is *)
(* about to enter it with system call `call'.  trap() lets no killed       *)
(* process start a system call.                                            *)
At(p, s) == ptable[p].state = "RUNNABLE" /\ ptable[p].pc = s

Calls(p, call) ==
  /\ At(p, "user") /\ ptable[p].killed = 0 /\ ptable[p].inop = 0
  /\ call \in IF p = initproc THEN program.init ELSE program.user

-----------------------------------------------------------------------------
\* mutant: nextpid stays
AllocprocSamePid(p, next) ==
  /\ \E n \in Slots :
       /\ ptable[n].state = "UNUSED"
       /\ \A m \in 1..n-1 : ptable[m].state # "UNUSED"
       /\ ptable' = [ptable EXCEPT
            ![n].state = "EMBRYO", ![n].pid = nextpid, ![n].tid = 0,
            ![n].main = None, ![p].pc = next, ![p].np = n]
  /\ UNCHANGED <<program, nextpid, nexttid, mapped, outstanding>>

(* allocproc(), from fork() and from thread_create(). *)
Allocproc(p, next) ==
  /\ nextpid' = nextpid + 1
  /\ \E n \in Slots :
       /\ ptable[n].state = "UNUSED"
       /\ \A m \in 1..n-1 : ptable[m].state # "UNUSED"
       /\ ptable' = [ptable EXCEPT
            ![n].state = "EMBRYO", ![n].pid = nextpid, ![n].tid = 0,
            ![n].main = None, ![p].pc = next, ![p].np = n]
  /\ UNCHANGED <<program, nexttid, mapped, outstanding>>

Fork(p) == Calls(p, "fork") /\ nextpid <= program.pids /\ Allocproc(p, "fork")

(* The new process starts at "user" with nothing in hand. *)
Start(r) == [r EXCEPT !.state = "RUNNABLE", !.pc = "user", !.np = None,
                      !.tmp = 0, !.inop = 0]

Return(r) == [r EXCEPT !.pc = "user", !.np = None, !.tmp = 0]

(* np->tid was set to 0 by allocproc(), so the parent is always the caller. *)
ForkDone(p) ==
  LET n == ptable[p].np IN
  /\ At(p, "fork")
  /\ \E g \in Pgdirs :
       /\ NewPgdir(g)
       /\ mapped' = mapped \union {g}
       /\ ptable' = [ptable EXCEPT
            ![n] = [Start(@) EXCEPT !.pgdir = g, !.parent = p],
            ![p] = Return(@)]
  /\ UNCHANGED <<program, nextpid, nexttid, outstanding>>

(* No memory for the kernel stack (allocproc) or the page table (fork). *)
AllocFail(p) ==
  /\ program.nomem
  /\ At(p, "fork") \/ At(p, "nextpid")
  /\ ptable' = [ptable EXCEPT ![ptable[p].np].state = "UNUSED", ![p] = Return(@)]
  /\ UNCHANGED <<program, nextpid, nexttid, mapped, outstanding>>

-----------------------------------------------------------------------------
(* thread_create().  nextpid-- is one instruction; nexttid++ is a load and *)
(* a store.  None of this is under a lock.                                 *)
ThreadCreate(p) ==
  /\ Calls(p, "create") /\ nextpid <= program.pids + NPROC
  /\ nexttid + Cardinality({q \in Slots : ptable[q].pc \in {"nextpid", "nexttid"}})
       <= program.tids
  /\ Allocproc(p, "nextpid")

CreateNextpid(p) ==
  /\ At(p, "nextpid")
  /\ nextpid' = nextpid - 1
  /\ ptable' = [ptable EXCEPT ![p].pc = "nexttid", ![p].tmp = nexttid]
  /\ UNCHANGED <<program, nexttid, mapped, outstanding>>

CreateNexttid(p) ==
  LET n == ptable[p].np  m == Main(p) IN
  /\ At(p, "nexttid")
  /\ nexttid' = ptable[p].tmp + 1
  /\ ptable' = [ptable EXCEPT
       ![n].tid = ptable[p].tmp, ![n].main = m, ![n].parent = m,
       ![n].pid = ptable[m].pid, ![p].pc = "create"]
  /\ UNCHANGED <<program, nextpid, mapped, outstanding>>

CreateDone(p) ==
  LET n == ptable[p].np IN
  /\ At(p, "create")
  /\ ptable' = [ptable EXCEPT
       ![n] = [Start(@) EXCEPT !.pgdir = ptable[Main(p)].pgdir], ![p] = Return(@)]
  /\ UNCHANGED <<program, nextpid, nexttid, mapped, outstanding>>

(* allocuvm() found no memory for the new stack. *)
CreateFail(p) ==
  /\ program.nomem
  /\ At(p, "create")
  /\ ptable' = [ptable EXCEPT ![ptable[p].np].state = "UNUSED", ![p] = Return(@)]
  /\ UNCHANGED <<program, nextpid, nexttid, mapped, outstanding>>

-----------------------------------------------------------------------------
\* mutant: the other threads are forgotten
ExitAtOnce(p) ==
  /\ p # initproc
  /\ \/ Calls(p, "exit")
     \/ At(p, "user") /\ ptable[p].killed = 1 /\ ptable[p].inop = 0
  /\ ptable' = [ptable EXCEPT ![p].pc = "exit"]
  /\ UNCHANGED <<program, nextpid, nexttid, mapped, outstanding>>

\* mutant: a killed process exits in the middle of an operation
ExitMidOp(p) ==
  /\ p # initproc
  /\ Calls(p, "exit") \/ (At(p, "user") /\ ptable[p].killed = 1)
  /\ ptable' = [ptable EXCEPT ![p].pc = IF ptable[p].tid = 0 THEN "clear" ELSE "exit"]
  /\ UNCHANGED <<program, nextpid, nexttid, mapped, outstanding>>

(* exit(): also what trap() makes a killed process do. *)
Exit(p) ==
  /\ p # initproc                       \* panic("init exiting")
  /\ \/ Calls(p, "exit")
     \/ At(p, "user") /\ ptable[p].killed = 1 /\ ptable[p].inop = 0
  /\ ptable' = [ptable EXCEPT ![p].pc = IF ptable[p].tid = 0 THEN "clear" ELSE "exit"]
  /\ UNCHANGED <<program, nextpid, nexttid, mapped, outstanding>>

(* One scan of clear_subthreads(): zombies are cleared, the others killed  *)
(* and woken if they sleep on themselves.                                  *)
ClearSubthreads(p) ==
  LET others  == {q \in Slots \ {p} : ptable[q].pid = ptable[p].pid}
      zombies == {q \in others : ptable[q].state = "ZOMBIE"}
      rest    == others \ zombies
      Scan(q) == IF q \in zombies THEN ThreadClear(ptable[q])
                 ELSE IF q \notin rest THEN ptable[q]
                 ELSE IF ptable[q].state = "SLEEPING" /\ ptable[q].chan = q
                 THEN [ptable[q] EXCEPT !.killed = 1, !.state = "RUNNABLE", !.chan = 0]
                 ELSE [ptable[q] EXCEPT !.killed = 1]
  IN
  /\ At(p, "clear")
  /\ ptable' = [[q \in Slots |-> Scan(q)] EXCEPT
                  ![p] = IF rest = {} THEN [@ EXCEPT !.pc = "exit"] ELSE SleepOn(@, p)]
  /\ UNCHANGED <<program, nextpid, nexttid, mapped, outstanding>>

\* mutant: the parent is not woken
ExitDoneQuiet(p) ==
  /\ At(p, "exit")
  /\ ptable' = [Orphan(ptable, p) EXCEPT ![p].state = "ZOMBIE"]
  /\ UNCHANGED <<program, nextpid, nexttid, mapped, outstanding>>

(* The end of exit(), after the files are closed. *)
ExitDone(p) ==
  LET m   == ptable[p].main
      pt1 == IF m = None THEN Wake(ptable, ptable[p].parent)
             ELSE Wake([ptable EXCEPT ![m].killed = 1], m)
  IN
  /\ At(p, "exit")
  /\ ptable' = [Orphan(pt1, p) EXCEPT ![p].state = "ZOMBIE"]
  /\ UNCHANGED <<program, nextpid, nexttid, mapped, outstanding>>

(* thread_exit(): the files are closed, then the main thread is woken. *)
ThreadExit(p) ==
  /\ p # initproc                       \* panic("init exiting")
  /\ Calls(p, IF ptable[p].tid = 0 THEN "main_exit" ELSE "thread_exit")
  /\ ptable' = [ptable EXCEPT ![p].pc = "thread_exit"]
  /\ UNCHANGED <<program, nextpid, nexttid, mapped, outstanding>>

\* mutant: the main thread is not woken
ThreadExitQuiet(p) ==
  /\ At(p, "thread_exit")
  /\ ptable' = [ptable EXCEPT ![p].state = "ZOMBIE"]
  /\ UNCHANGED <<program, nextpid, nexttid, mapped, outstanding>>

ThreadExitDone(p) ==
  /\ At(p, "thread_exit")
  /\ ptable' = [Wake(ptable, ptable[p].main) EXCEPT ![p].state = "ZOMBIE"]
  /\ UNCHANGED <<program, nextpid, nexttid, mapped, outstanding>>

(* One round of wait()'s loop; the first zombie in the table is reaped.    *)
(* tid and main of its slot are left as they are.                          *)
Wait(p) ==
  LET kids    == {q \in Slots : ptable[q].parent = p}
      zombies == {q \in kids : ptable[q].state = "ZOMBIE"}
  IN
  /\ Calls(p, "wait") \/ At(p, "wait")
  /\ \/ \E q \in zombies :
          /\ \A r \in zombies : q <= r
          /\ mapped' = mapped \ {ptable[q].pgdir}
          /\ ptable' = [ptable EXCEPT
               ![q] = [@ EXCEPT !.pid = 0, !.parent = None, !.killed = 0,
                                !.state = "UNUSED"],
               ![p] = Return(@)]
     \/ /\ zombies = {} /\ (kids = {} \/ ptable[p].killed = 1)
        /\ ptable' = [ptable EXCEPT ![p] = Return(@)]
        /\ UNCHANGED mapped
     \/ /\ zombies = {} /\ kids # {} /\ ptable[p].killed = 0
        /\ ptable' = [ptable EXCEPT ![p] = [SleepOn(@, p) EXCEPT !.pc = "wait"]]
        /\ UNCHANGED mapped
  /\ UNCHANGED <<program, nextpid, nexttid, outstanding>>

(* One round of thread_join()'s loop for thread t. *)
ThreadJoin(p, t) ==
  LET found   == {q \in Slots : ptable[q].tid = t}
      zombies == {q \in found : ptable[q].state = "ZOMBIE"}
  IN
  /\ Calls(p, "join") \/ (At(p, "join") /\ ptable[p].tmp = t)
  /\ \/ \E q \in zombies :
          /\ \A r \in zombies : q <= r
          /\ ptable' = [ptable EXCEPT ![q] = ThreadClear(@), ![p] = Return(@)]
     \/ /\ zombies = {} /\ (found = {} \/ ptable[p].killed = 1)
        /\ ptable' = [ptable EXCEPT ![p] = Return(@)]
     \/ /\ zombies = {} /\ found # {} /\ ptable[p].killed = 0
        /\ ptable' = [ptable EXCEPT
             ![p] = [SleepOn(@, p) EXCEPT !.pc = "join", !.tmp = t]]
  /\ UNCHANGED <<program, nextpid, nexttid, mapped, outstanding>>

(* kill(): the first slot with that pid, whatever its state. *)
Kill(p, k) ==
  /\ Calls(p, "kill")
  /\ \E t \in Slots :
       /\ ptable[t].pid = k
       /\ \A q \in 1..t-1 : ptable[q].pid # k
       /\ ptable' = [ptable EXCEPT ![t] =
            IF @.state = "SLEEPING"
            THEN [@ EXCEPT !.killed = 1, !.state = "RUNNABLE", !.chan = 0]
            ELSE [@ EXCEPT !.killed = 1]]
  /\ UNCHANGED <<program, nextpid, nexttid, mapped, outstanding>>

-----------------------------------------------------------------------------
(* exec(): the caller becomes the main thread. *)
Exec(p) ==
  /\ Calls(p, "exec")
  /\ ptable' = [ptable EXCEPT ![p] =
       IF @.tid = 0 THEN [@ EXCEPT !.pc = "exec"]
       ELSE [@ EXCEPT !.pc = "exec", !.tid = 0, !.main = None,
                      !.parent = ptable[ptable[p].main].parent]]
  /\ UNCHANGED <<program, nextpid, nexttid, mapped, outstanding>>

(* kill_threads_except(): the next thread after the last victim, its       *)
(* children first.                                                         *)
KillThread(p) ==
  LET victims == {q \in Slots : /\ q # p /\ q > ptable[p].np
                                /\ ptable[q].pid = ptable[p].pid}
  IN
  /\ At(p, "exec")
  /\ \/ \E v \in victims :
          /\ \A w \in victims : v <= w
          /\ ptable' = [Orphan(ptable, v) EXCEPT ![p].np = v, ![p].pc = "iput"]
     \/ /\ victims = {}
        /\ ptable' = [ptable EXCEPT ![p].pc = "load"]
  /\ UNCHANGED <<program, nextpid, nexttid, mapped, outstanding>>

(* The lock was released to iput() the victim's directory; then the victim *)
(* is cleared wherever it is.                                              *)
KillThreadClear(p) ==
  /\ At(p, "iput")
  /\ ptable' = [ptable EXCEPT ![ptable[p].np] = ThreadClear(@), ![p].pc = "exec"]
  /\ UNCHANGED <<program, nextpid, nexttid, mapped, outstanding>>

(* The new image replaces the old one. *)
ExecDone(p) ==
  /\ At(p, "load")
  /\ \E g \in Pgdirs :
       /\ NewPgdir(g)
       /\ ptable' = [ptable EXCEPT ![p] = [Return(@) EXCEPT !.pgdir = g]]
       /\ mapped' = (mapped \union {g}) \ {ptable[p].pgdir}
  /\ UNCHANGED <<program, nextpid, nexttid, outstanding>>

(* No such file, no permission, a bad image or no memory. *)
ExecFail(p) ==
  /\ At(p, "load")
  /\ ptable' = [ptable EXCEPT ![p] = Return(@)]
  /\ UNCHANGED <<program, nextpid, nexttid, mapped, outstanding>>

-----------------------------------------------------------------------------
(* Other system calls: sleeping for a device, and file-system operations   *)
(* between begin_op() and end_op(), in which a process may sleep too.      *)
SleepIo(p) ==
  /\ Calls(p, "io") \/ (At(p, "user") /\ ptable[p].inop = 1)
  /\ ptable' = [ptable EXCEPT ![p] = SleepOn(@, IoChan)]
  /\ UNCHANGED <<program, nextpid, nexttid, mapped, outstanding>>

WakeupIo ==
  /\ \E p \in Slots : ptable[p].state = "SLEEPING" /\ ptable[p].chan = IoChan
  /\ ptable' = Wake(ptable, IoChan)
  /\ UNCHANGED <<program, nextpid, nexttid, mapped, outstanding>>

BeginOp(p) ==
  /\ Calls(p, "op")
  /\ ptable' = [ptable EXCEPT ![p].inop = 1]
  /\ outstanding' = outstanding + 1
  /\ UNCHANGED <<program, nextpid, nexttid, mapped>>

EndOp(p) ==
  /\ At(p, "user") /\ ptable[p].inop = 1
  /\ ptable' = [ptable EXCEPT ![p].inop = 0]
  /\ outstanding' = outstanding - 1
  /\ UNCHANGED <<program, nextpid, nexttid, mapped>>

-----------------------------------------------------------------------------
(* Steps inside a system call that has begun. *)
Continue(p) ==
  \/ ForkDone(p) \/ AllocFail(p)
  \/ CreateNextpid(p) \/ CreateNexttid(p) \/ CreateDone(p) \/ CreateFail(p)
  \/ ClearSubthreads(p) \/ ExitDone(p) \/ ThreadExitDone(p)
  \/ KillThread(p) \/ KillThreadClear(p) \/ ExecDone(p) \/ ExecFail(p)
  \/ EndOp(p)

Next ==
  \/ \E p \in Slots :
       \/ Fork(p) \/ ThreadCreate(p) \/ Exit(p) \/ ThreadExit(p) \/ Wait(p)
       \/ \E t \in 1..program.tids : ThreadJoin(p, t)
       \/ \E k \in 1..program.pids : Kill(p, k)
       \/ Exec(p) \/ SleepIo(p) \/ BeginOp(p)
       \/ Continue(p)
  \/ WakeupIo

Spec == Init /\ [][Next]_vars

-----------------------------------------------------------------------------
(* Safety.                                                                 *)

(* The page directory a process runs on is never freed under it: wait()    *)
(* and exec() free a page directory only when nobody uses it any more      *)
(* (proc.c wait(), thread_clear(); exec.c freevm(oldpgdir)).               *)
PgdirAlive ==
  \A p \in Slots : Live(p) /\ ptable[p].state # "ZOMBIE" => ptable[p].pgdir \in mapped

(* No two processes carry the same pid: only the threads of one process    *)
(* share one (allocproc() and thread_create() on nextpid).  A thread in    *)
(* exec() counts as a main thread once it has got rid of the others.       *)
PidsUnique ==
  LET Process(p) == /\ Live(p) /\ ptable[p].tid = 0
                    /\ ptable[p].pc \notin {"exec", "iput"}
  IN  \A p, q \in Slots :
        Process(p) /\ Process(q) /\ ptable[p].pid = ptable[q].pid => p = q

(* A process always has somebody to reap it: its parent has not exited     *)
(* (fork(), exit(), thread_exit() and kill_threads_except() together).     *)
ParentAlive ==
  \A p \in Slots \ {initproc} : Live(p) =>
    LET f == ptable[p].parent IN
    f # None /\ Live(f) /\ ptable[f].state # "ZOMBIE"

(* No wakeup is lost: nobody sleeps in wait() while one of its children is *)
(* a zombie, nor in thread_join() for a thread that has exited already     *)
(* (exit() and thread_exit() against the scans of wait(), thread_join()).  *)
NoLostExit ==
  \A p, q \in Slots : ptable[p].state = "SLEEPING" =>
    /\ ptable[p].pc = "wait" /\ ptable[q].parent = p => ptable[q].state # "ZOMBIE"
    /\ ptable[p].pc = "join" /\ ptable[q].main = p /\ ptable[q].tid = ptable[p].tmp
         => ptable[q].state # "ZOMBIE"

(* A thread never outlives its process: while it is there, its main thread *)
(* is, with the same pid and the same page directory, and has not exited   *)
(* (thread_create() against clear_subthreads()).                           *)
ThreadsWithinProcess ==
  \A q \in Slots : Live(q) /\ ptable[q].tid # 0 =>
    LET m == ptable[q].main IN
    /\ m # None /\ Live(m) /\ ptable[m].tid = 0 /\ ptable[m].state # "ZOMBIE"
    /\ ptable[m].pid = ptable[q].pid /\ ptable[m].pgdir = ptable[q].pgdir

(* log.outstanding counts the processes inside a file-system operation, so *)
(* the last end_op() finds it 0 and commits (kill_threads_except() clears  *)
(* threads wherever they are).                                             *)
OutstandingExact ==
  outstanding = Cardinality({p \in Slots : Live(p) /\ ptable[p].inop = 1})

-----------------------------------------------------------------------------
(* Liveness.  A ready process goes on inside the kernel (the round-robin   *)
(* scheduler, scheduler() in proc.c), a killed one reaches trap() at the   *)
(* latest at the next timer interrupt, devices answer, and an operation on *)
(* the file system does bounded work.                                      *)
Fairness ==
  /\ \A p \in Slots : /\ WF_vars(Continue(p))
                      /\ SF_vars(EndOp(p))
                      /\ WF_vars(Exit(p) /\ ptable[p].killed = 1)
                      /\ WF_vars(At(p, "wait") /\ Wait(p))
                      /\ WF_vars(At(p, "join") /\ \E t \in 1..program.tids : ThreadJoin(p, t))
  /\ WF_vars(WakeupIo)

LiveSpec == Spec /\ Fairness

(* exit() of a process with threads ends, whatever its threads are doing.  *)
ExitEnds ==
  \A p \in Slots : ptable[p].pc = "clear" /\ Live(p) ~> ptable[p].state = "ZOMBIE"
=============================================================================
