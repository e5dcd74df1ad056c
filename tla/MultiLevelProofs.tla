-------------------------- MODULE MultiLevelProofs --------------------------
(***************************************************************************)
(* Proofs about MultiLevel, for any number of slots, CPUs and pids.        *)
(***************************************************************************)
EXTENDS MultiLevel, TLAPS

(* Pids are handed out once; an occupied slot has one. *)
PidsOk ==
  /\ \A p \in Slots : ptable[p].pid < nextpid
  /\ \A p \in Slots : ptable[p].state # "UNUSED" => ptable[p].pid > 0
  /\ \A p, q \in Slots : ptable[p].pid = ptable[q].pid /\ ptable[p].pid > 0 => p = q

(* init never exits, and nobody is its own parent. *)
FamilyOk ==
  /\ ptable[initproc].state \in {"SLEEPING", "RUNNABLE", "RUNNING"}
  /\ ptable[initproc].parent = None
  /\ \A p \in Slots : ptable[p].parent # p

(* A process in fork() has an embryo of its own. *)
ForkOk ==
  \A p \in Slots : ptable[p].pc = "fork" =>
    /\ ptable[p].state \in {"RUNNABLE", "RUNNING"}
    /\ ptable[p].np \in Slots
    /\ ptable[ptable[p].np].state = "EMBRYO"
    /\ \A q \in Slots : ptable[q].pc = "fork" /\ ptable[q].np = ptable[p].np => p = q

(* Each CPU has a process of its own, or none while its scheduler holds    *)
(* the lock.                                                               *)
RunningOk ==
  \A c \in CPUs :
    /\ lock = c => cpu[c].proc = None
    /\ cpu[c].proc # None =>
         /\ ptable[cpu[c].proc].state = "RUNNING"
         /\ cpu[c].loop = "even" => cpu[c].pos <= NPROC
         /\ \A d \in CPUs : cpu[d].proc = cpu[c].proc => c = d

(* The search for an odd pid so far: no even pid is ready in the slots it  *)
(* has seen, and best is the lowest odd one.                               *)
SearchOk ==
  \A c \in CPUs : lock = c /\ cpu[c].loop = "odd" =>
    /\ cpu[c].best # None => Ready(cpu[c].best) /\ ~Even(cpu[c].best)
    /\ \A q \in Slots : q < cpu[c].pos /\ Ready(q) =>
         /\ ~Even(q)
         /\ cpu[c].best # None
         /\ ptable[cpu[c].best].pid <= ptable[q].pid

(* Who sleeps in wait() sleeps on its own slot. *)
WaitOk ==
  \A p \in Slots :
    ptable[p].state = "SLEEPING" /\ ptable[p].pc = "wait" => ptable[p].chan = p

(* The round over the even pids of the only CPU has come past slot s. *)
Visited(s) ==
  /\ cpu[0].loop = "even"
  /\ \/ lock = 0 /\ s < cpu[0].pos
     \/ lock = NoCPU /\ cpu[0].proc # None /\ s <= cpu[0].pos

(* Who has overtaken q did so once, behind q in the round before or ahead  *)
(* of it in this one.                                                      *)
TurnsOk ==
  /\ \A q \in Slots : ~Ready(q) => overtaken[q] = {}
  /\ \A q \in Slots : overtaken[q] \subseteq 1..nextpid - 1
  /\ NCPU = 1 => \A q, s \in Slots :
       Ready(q) /\ Even(q) /\ ptable[s].pid \in overtaken[q] =>
         \/ q < s /\ (Visited(q) => Visited(s))
         \/ Visited(s) /\ ~Visited(q)

IInv ==
  TypeOK /\ PidsOk /\ FamilyOk /\ ForkOk /\ RunningOk /\ SearchOk /\ WaitOk /\ NoLostExit /\ TurnsOk

-----------------------------------------------------------------------------
USE MultiLevelConstants

States == {"UNUSED", "EMBRYO", "SLEEPING", "RUNNABLE", "RUNNING", "ZOMBIE"}

Rows == [state : States, pid : 0..MaxPid, parent : Slots \union {None}, chan : 0..IoChan,
         killed : {0, 1}, pc : {"user", "fork", "wait"}, np : Slots \union {None}]

CpuRows == [proc : Slots \union {None}, loop : {"even", "odd"},
            pos : 1..NPROC + 1, best : Slots \union {None}]

(* The markers are apart from the slots and the channels. *)
LEMMA Constants ==
  /\ None \notin Slots /\ initproc \in Slots
  /\ Slots \subseteq 0..IoChan /\ IoChan \in 0..IoChan /\ IoChan \notin Slots
  /\ 0 \in 0..IoChan /\ 0 \in 0..MaxPid
BY DEF None, Slots, initproc, IoChan

(* TypeOK with the sets of records named. *)
LEMMA TypeRows ==
  TypeOK <=> /\ ptable \in [Slots -> Rows]
             /\ nextpid \in 1..MaxPid + 1
             /\ lock \in CPUs \union {NoCPU}
             /\ cpu \in [CPUs -> CpuRows]
             /\ overtaken \in [Slots -> SUBSET (0..MaxPid)]
             /\ panicked \in BOOLEAN
BY Zenon DEF TypeOK, Rows, States, CpuRows

(* The invariants about the process table alone. *)
TableOk == PidsOk /\ FamilyOk /\ ForkOk /\ WaitOk /\ NoLostExit

(* A step of the process p on CPU c, or of an interrupt: p stays on the    *)
(* CPU or calls sched(), nobody else leaves one, and who is ready stays so. *)
ProcessStep(c, p) ==
  /\ ptable' \in [Slots -> Rows]
  /\ nextpid' \in 1..MaxPid + 1 /\ nextpid <= nextpid'
  /\ \A s \in Slots :
       /\ ptable[s].state = "RUNNABLE" =>
            ptable'[s].state = "RUNNABLE" /\ ptable'[s].pid = ptable[s].pid
       /\ ptable'[s].pid \in {ptable[s].pid, 0, nextpid}
       /\ ptable[s].state = "RUNNING" /\ s # p => ptable'[s].state = "RUNNING"
  /\ \/ Sched(c)
     \/ /\ UNCHANGED <<lock, cpu>>
        /\ ptable[p].state = "RUNNING" => ptable'[p].state = "RUNNING"
  /\ overtaken' = overtaken

(* yield() is a process step. *)
LEMMA YieldStep ==
  ASSUME TypeOK, TableOk, NEW c \in CPUs, NEW p \in Slots, ptable[p].state = "RUNNING",
         Yield(c, p)
  PROVE  ProcessStep(c, p) /\ TableOk'
<1>1. ptable \in [Slots -> Rows]
  BY TypeRows
<1>2. ptable' = [ptable EXCEPT ![p].state = "RUNNABLE"] /\ UNCHANGED <<nextpid, overtaken>>
  BY DEF Yield
<1>3. ProcessStep(c, p)
  BY <1>1, <1>2, TypeRows DEF ProcessStep, Rows, States, Yield
<1>4. PidsOk'
  BY <1>1, <1>2 DEF TableOk, PidsOk, Rows
<1>5. ForkOk'
  BY <1>1, <1>2 DEF TableOk, ForkOk, Rows
<1>y. FamilyOk'
  BY <1>1, <1>2, Constants DEF TableOk, FamilyOk, Rows
<1>6. WaitOk' /\ NoLostExit'
  BY <1>1, <1>2 DEF TableOk, WaitOk, NoLostExit, Rows
<1>q. QED BY <1>3, <1>4, <1>5, <1>6, <1>y DEF TableOk

(* sleep() is a process step. *)
LEMMA SleepStep ==
  ASSUME TypeOK, TableOk, NEW c \in CPUs, NEW p \in Slots, ptable[p].state = "RUNNING",
         Sleep(c, p)
  PROVE  ProcessStep(c, p) /\ TableOk'
<1>1. ptable \in [Slots -> Rows]
  BY TypeRows
<1>2. /\ ptable' = [ptable EXCEPT ![p].state = "SLEEPING", ![p].chan = IoChan]
      /\ UNCHANGED <<nextpid, overtaken>> /\ ptable[p].pc = "user"
  BY DEF Sleep, On
<1>t. ptable' \in [Slots -> Rows]
  <2>1. [ptable[p] EXCEPT !.state = "SLEEPING", !.chan = IoChan] \in Rows
    BY <1>1, Constants DEF Rows, States
  <2>q. QED BY <1>1, <1>2, <2>1
<1>3. ProcessStep(c, p)
  BY <1>1, <1>2, <1>t, TypeRows DEF ProcessStep, Rows, States, Sleep
<1>4. PidsOk'
  BY <1>1, <1>2 DEF TableOk, PidsOk, Rows
<1>5. ForkOk'
  BY <1>1, <1>2 DEF TableOk, ForkOk, Rows
<1>y. FamilyOk'
  BY <1>1, <1>2, Constants DEF TableOk, FamilyOk, Rows
<1>6. WaitOk' /\ NoLostExit'
  BY <1>1, <1>2 DEF TableOk, WaitOk, NoLostExit, Rows
<1>q. QED BY <1>3, <1>4, <1>5, <1>6, <1>y DEF TableOk

(* allocproc() is a process step: the embryo gets a pid nobody has had. *)
LEMMA AllocprocStep ==
  ASSUME TypeOK, TableOk, NEW c \in CPUs, NEW p \in Slots, ptable[p].state = "RUNNING",
         Allocproc(c, p)
  PROVE  ProcessStep(c, p) /\ TableOk'
<1>1. ptable \in [Slots -> Rows] /\ nextpid \in 1..MaxPid + 1
  BY TypeRows
<1>2. PICK n \in Slots :
        /\ ptable[n].state = "UNUSED"
        /\ ptable' = [ptable EXCEPT ![n].state = "EMBRYO", ![n].pid = nextpid,
                                    ![p].pc = "fork", ![p].np = n]
  BY DEF Allocproc
<1>3. /\ nextpid <= MaxPid /\ nextpid' = nextpid + 1
      /\ UNCHANGED <<lock, cpu, overtaken>> /\ ptable[p].pc = "user"
  BY DEF Allocproc, On
<1>4. n # p /\ nextpid \in 0..MaxPid
  BY <1>1, <1>2, <1>3
<1>t. ptable' \in [Slots -> Rows]
  <2>1. [ptable[n] EXCEPT !.state = "EMBRYO", !.pid = nextpid] \in Rows
    BY <1>1, <1>4 DEF Rows, States
  <2>2. [ptable[p] EXCEPT !.pc = "fork", !.np = n] \in Rows
    BY <1>1 DEF Rows, States
  <2>q. QED BY <1>1, <1>2, <1>4, <2>1, <2>2
<1>5. ProcessStep(c, p)
  BY <1>1, <1>2, <1>3, <1>4, <1>t, SMTT(30) DEF ProcessStep, Rows, States
<1>6. PidsOk'
  BY <1>1, <1>2, <1>3, <1>4 DEF TableOk, PidsOk, Rows
<1>7. ForkOk'
  BY <1>1, <1>2, <1>4 DEF TableOk, ForkOk, Rows
<1>y. FamilyOk'
  BY <1>1, <1>2, <1>4, Constants DEF TableOk, FamilyOk, Rows
<1>8. WaitOk' /\ NoLostExit'
  BY <1>1, <1>2, <1>4 DEF TableOk, WaitOk, NoLostExit, Rows
<1>q. QED BY <1>5, <1>6, <1>7, <1>8, <1>y DEF TableOk

(* The rest of fork() is a process step. *)
LEMMA ForkStep ==
  ASSUME TypeOK, TableOk, NEW c \in CPUs, NEW p \in Slots, ptable[p].state = "RUNNING",
         Fork(c, p)
  PROVE  ProcessStep(c, p) /\ TableOk'
<1> DEFINE n == ptable[p].np
<1>1. ptable \in [Slots -> Rows] /\ nextpid \in 1..MaxPid + 1
  BY TypeRows
<1>2. /\ ptable' = [ptable EXCEPT
           ![n] = [@ EXCEPT !.state = "RUNNABLE", !.parent = p, !.pc = "user"],
           ![p].pc = "user", ![p].np = None]
      /\ UNCHANGED <<nextpid, lock, cpu, overtaken>> /\ ptable[p].pc = "fork"
  BY DEF Fork, On
<1>3. n \in Slots /\ n # p /\ ptable[n].state = "EMBRYO"
  BY <1>2 DEF TableOk, ForkOk
<1> HIDE DEF n
<1>t. ptable' \in [Slots -> Rows]
  <2>1. [ptable[n] EXCEPT !.state = "RUNNABLE", !.parent = p, !.pc = "user"] \in Rows
    BY <1>1, <1>3 DEF Rows, States
  <2>2. [ptable[p] EXCEPT !.pc = "user", !.np = None] \in Rows
    BY <1>1 DEF Rows, States
  <2>q. QED BY <1>1, <1>2, <1>3, <2>1, <2>2
<1>f. /\ \A s \in Slots \ {n, p} : ptable'[s] = ptable[s]
      /\ ptable'[n].state = "RUNNABLE" /\ ptable'[n].pid = ptable[n].pid
      /\ ptable'[p].state = "RUNNING" /\ ptable'[p].pid = ptable[p].pid
      /\ ptable'[n].parent = p /\ ptable'[p].parent = ptable[p].parent
  <2>1. /\ ptable'[n] = [ptable[n] EXCEPT !.state = "RUNNABLE", !.parent = p, !.pc = "user"]
        /\ ptable'[p] = [ptable[p] EXCEPT !.pc = "user", !.np = None]
        /\ \A s \in Slots \ {n, p} : ptable'[s] = ptable[s]
    BY <1>1, <1>2, <1>3
  <2>q. QED BY <1>1, <1>3, <2>1 DEF Rows
<1>4. ProcessStep(c, p)
  <2>1. UNCHANGED <<lock, cpu, overtaken, nextpid>>
    BY <1>2
  <2>2. \A s \in Slots : ptable'[s].pid = ptable[s].pid
    BY <1>f
  <2>q. QED BY <1>1, <1>3, <1>t, <1>f, <2>1, <2>2 DEF ProcessStep
<1>5. PidsOk'
  <2>1. nextpid' = nextpid
    BY <1>2
  <2>q. QED BY <1>3, <1>f, <2>1 DEF TableOk, PidsOk
<1>6. ForkOk'
  <2> SUFFICES ASSUME NEW r \in Slots, ptable'[r].pc = "fork"
               PROVE  /\ ptable'[r].state \in {"RUNNABLE", "RUNNING"}
                      /\ ptable'[r].np \in Slots
                      /\ ptable'[ptable'[r].np].state = "EMBRYO"
                      /\ \A q \in Slots : ptable'[q].pc = "fork" /\ ptable'[q].np = ptable'[r].np => r = q
    BY DEF ForkOk
  <2>1. r # p /\ r # n /\ ptable'[r] = ptable[r]
    BY <1>1, <1>2, <1>3, ZenonT(40) DEF Rows
  <2>2. ptable[r].np # n
    BY <1>2, <2>1 DEF TableOk, ForkOk, n
  <2>3. \A q \in Slots : ptable'[q].pc = "fork" => ptable'[q] = ptable[q]
    BY <1>1, <1>2, <1>3, ZenonT(40) DEF Rows
  <2>4. ptable'[ptable[r].np].state = "EMBRYO"
    BY <1>1, <1>2, <1>3, <2>1, <2>2 DEF TableOk, ForkOk, Rows
  <2>q. QED BY <2>1, <2>3, <2>4 DEF TableOk, ForkOk
<1>y. FamilyOk'
  BY <1>3, <1>f, Constants DEF TableOk, FamilyOk
<1>7. WaitOk' /\ NoLostExit'
  BY <1>3, <1>f DEF TableOk, WaitOk, NoLostExit
<1>q. QED BY <1>4, <1>5, <1>6, <1>7, <1>y DEF TableOk

(* A fork() without memory is a process step. *)
LEMMA ForkFailStep ==
  ASSUME TypeOK, TableOk, NEW c \in CPUs, NEW p \in Slots, ptable[p].state = "RUNNING",
         ForkFail(c, p)
  PROVE  ProcessStep(c, p) /\ TableOk'
<1> DEFINE n == ptable[p].np
<1>1. ptable \in [Slots -> Rows] /\ nextpid \in 1..MaxPid + 1
  BY TypeRows
<1>2. /\ ptable' = [ptable EXCEPT ![n].state = "UNUSED", ![p].pc = "user", ![p].np = None]
      /\ UNCHANGED <<nextpid, lock, cpu, overtaken>> /\ ptable[p].pc = "fork"
  BY DEF ForkFail, On
<1>3. n \in Slots /\ n # p /\ ptable[n].state = "EMBRYO" /\ ptable[n].pc # "fork"
  BY <1>2 DEF TableOk, ForkOk
<1> HIDE DEF n
<1>t. ptable' \in [Slots -> Rows]
  <2>1. [ptable[n] EXCEPT !.state = "UNUSED"] \in Rows
    BY <1>1, <1>3 DEF Rows, States
  <2>2. [ptable[p] EXCEPT !.pc = "user", !.np = None] \in Rows
    BY <1>1 DEF Rows, States
  <2>q. QED BY <1>1, <1>2, <1>3, <2>1, <2>2
<1>4. ProcessStep(c, p)
  BY <1>1, <1>2, <1>3, <1>t, SMTT(30) DEF ProcessStep, Rows, States
<1>5. PidsOk'
  BY <1>1, <1>2, <1>3, ZenonT(40) DEF TableOk, PidsOk, Rows
<1>6. ForkOk'
  <2> SUFFICES ASSUME NEW r \in Slots, ptable'[r].pc = "fork"
               PROVE  /\ ptable'[r].state \in {"RUNNABLE", "RUNNING"}
                      /\ ptable'[r].np \in Slots
                      /\ ptable'[ptable'[r].np].state = "EMBRYO"
                      /\ \A q \in Slots : ptable'[q].pc = "fork" /\ ptable'[q].np = ptable'[r].np => r = q
    BY DEF ForkOk
  <2>1. r # p /\ r # n /\ ptable'[r] = ptable[r]
    BY <1>1, <1>2, <1>3 DEF Rows
  <2>2. ptable[r].np # n
    BY <1>2, <2>1 DEF TableOk, ForkOk, n
  <2>3. \A q \in Slots : ptable'[q].pc = "fork" => ptable'[q] = ptable[q]
    BY <1>1, <1>2, <1>3 DEF Rows
  <2>4. ptable'[ptable[r].np].state = "EMBRYO"
    BY <1>1, <1>2, <1>3, <2>1, <2>2 DEF TableOk, ForkOk, Rows
  <2>q. QED BY <2>1, <2>3, <2>4 DEF TableOk, ForkOk
<1>y. FamilyOk'
  BY <1>1, <1>2, <1>3, Constants DEF TableOk, FamilyOk, Rows
<1>7. WaitOk' /\ NoLostExit'
  BY <1>1, <1>2, <1>3 DEF TableOk, WaitOk, NoLostExit, Rows
<1>q. QED BY <1>4, <1>5, <1>6, <1>7, <1>y DEF TableOk

(* kill() is a process step. *)
LEMMA KillStep ==
  ASSUME TypeOK, TableOk, NEW c \in CPUs, NEW p \in Slots, ptable[p].state = "RUNNING",
         NEW k, Kill(c, p, k)
  PROVE  ProcessStep(c, p) /\ TableOk'
<1>1. ptable \in [Slots -> Rows] /\ nextpid \in 1..MaxPid + 1
  BY TypeRows
<1>2. PICK t \in Slots :
        ptable' = [ptable EXCEPT ![t].killed = 1,
                                 ![t].state = IF @ = "SLEEPING" THEN "RUNNABLE" ELSE @]
  BY DEF Kill
<1>3. UNCHANGED <<nextpid, lock, cpu, overtaken>>
  BY DEF Kill
<1> DEFINE st == IF ptable[t].state = "SLEEPING" THEN "RUNNABLE" ELSE ptable[t].state
<1>4. st \in States /\ ptable' = [ptable EXCEPT ![t].killed = 1, ![t].state = st]
  BY <1>1, <1>2 DEF Rows, States
<1>5. /\ st = "UNUSED" <=> ptable[t].state = "UNUSED"
      /\ st = "ZOMBIE" <=> ptable[t].state = "ZOMBIE"
      /\ st = "EMBRYO" <=> ptable[t].state = "EMBRYO"
      /\ st # "SLEEPING"
      /\ ptable[t].state \in {"RUNNABLE", "RUNNING"} => st = ptable[t].state
  BY <1>1 DEF Rows, States
<1> HIDE DEF st
<1>t. ptable' \in [Slots -> Rows]
  <2>1. [ptable[t] EXCEPT !.killed = 1, !.state = st] \in Rows
    BY <1>1, <1>4 DEF Rows
  <2>q. QED BY <1>1, <1>4, <2>1
<1>6. ProcessStep(c, p)
  BY <1>1, <1>3, <1>4, <1>5, <1>t DEF ProcessStep, Rows
<1>7. PidsOk'
  BY <1>1, <1>3, <1>4, <1>5 DEF TableOk, PidsOk, Rows
<1>8. ForkOk'
  BY <1>1, <1>4, <1>5 DEF TableOk, ForkOk, Rows
<1>y. FamilyOk'
  BY <1>1, <1>4, <1>5, Constants DEF TableOk, FamilyOk, Rows
<1>9. WaitOk' /\ NoLostExit'
  BY <1>1, <1>4, <1>5 DEF TableOk, WaitOk, NoLostExit, Rows
<1>q. QED BY <1>6, <1>7, <1>8, <1>9, <1>y DEF TableOk

(* wakeup1() makes sleepers ready and changes nothing else. *)
LEMMA Wakeup1Rows ==
  ASSUME NEW pt \in [Slots -> Rows], NEW ch
  PROVE  /\ Wakeup1(pt, ch) \in [Slots -> Rows]
         /\ \A q \in Slots :
              /\ Wakeup1(pt, ch)[q].state =
                   IF pt[q].state = "SLEEPING" /\ pt[q].chan = ch THEN "RUNNABLE" ELSE pt[q].state
              /\ Wakeup1(pt, ch)[q].pid = pt[q].pid /\ Wakeup1(pt, ch)[q].parent = pt[q].parent
              /\ Wakeup1(pt, ch)[q].pc = pt[q].pc /\ Wakeup1(pt, ch)[q].np = pt[q].np
              /\ Wakeup1(pt, ch)[q].chan = pt[q].chan
<1>1. ASSUME NEW q \in Slots PROVE [pt[q] EXCEPT !.state = "RUNNABLE"] \in Rows
  BY DEF Rows, States
<1>q. QED BY <1>1 DEF Wakeup1, Rows

(* wakeup() is a process step, of no process in particular. *)
LEMMA WakeupStep ==
  ASSUME TypeOK, TableOk, NEW c \in CPUs, NEW p \in Slots, Wakeup
  PROVE  ProcessStep(c, p) /\ TableOk'
<1>1. ptable \in [Slots -> Rows] /\ nextpid \in 1..MaxPid + 1
  BY TypeRows
<1>2. ptable' = Wakeup1(ptable, IoChan) /\ UNCHANGED <<nextpid, lock, cpu, overtaken>>
  BY DEF Wakeup
<1>3. /\ ptable' \in [Slots -> Rows]
      /\ \A q \in Slots :
           /\ ptable'[q].state =
                IF ptable[q].state = "SLEEPING" /\ ptable[q].chan = IoChan THEN "RUNNABLE"
                ELSE ptable[q].state
           /\ ptable'[q].pid = ptable[q].pid /\ ptable'[q].parent = ptable[q].parent
           /\ ptable'[q].pc = ptable[q].pc /\ ptable'[q].np = ptable[q].np
           /\ ptable'[q].chan = ptable[q].chan
  BY <1>1, <1>2, Wakeup1Rows
<1>4. ProcessStep(c, p)
  BY <1>1, <1>2, <1>3 DEF ProcessStep
<1>5. PidsOk'
  BY <1>2, <1>3 DEF TableOk, PidsOk
<1>6. ForkOk'
  BY <1>3 DEF TableOk, ForkOk
<1>y. FamilyOk'
  BY <1>3, Constants DEF TableOk, FamilyOk
<1>7. WaitOk' /\ NoLostExit'
  BY <1>3 DEF TableOk, WaitOk, NoLostExit
<1>q. QED BY <1>4, <1>5, <1>6, <1>7, <1>y DEF TableOk

(* wait() is a process step, and sleeps only without a zombie. *)
LEMMA WaitStep ==
  ASSUME TypeOK, TableOk, NEW c \in CPUs, NEW p \in Slots, ptable[p].state = "RUNNING",
         Wait(c, p)
  PROVE  ProcessStep(c, p) /\ TableOk'
<1>1. ptable \in [Slots -> Rows] /\ nextpid \in 1..MaxPid + 1
  BY TypeRows
<1>2. ptable[p].pc # "fork" /\ UNCHANGED <<nextpid, overtaken>>
  BY DEF Wait, On
<1>3. CASE \E q \in Slots :
             /\ ptable[q].state = "ZOMBIE"
             /\ ptable' = [ptable EXCEPT
                  ![q] = [@ EXCEPT !.state = "UNUSED", !.pid = 0, !.parent = None, !.killed = 0],
                  ![p].pc = "user"]
             /\ UNCHANGED <<lock, cpu>>
  <2>1. PICK q \in Slots :
             /\ ptable[q].state = "ZOMBIE"
             /\ ptable' = [ptable EXCEPT
                  ![q] = [@ EXCEPT !.state = "UNUSED", !.pid = 0, !.parent = None, !.killed = 0],
                  ![p].pc = "user"]
             /\ UNCHANGED <<lock, cpu>>
    BY <1>3
  <2>2. q # p /\ q # initproc
    BY <2>1 DEF TableOk, FamilyOk
  <2>3. [ptable[q] EXCEPT !.state = "UNUSED", !.pid = 0, !.parent = None, !.killed = 0] \in Rows
    <3>1. 0 \in 0..MaxPid /\ "UNUSED" \in States
      BY DEF States
    <3>q. QED BY <1>1, <3>1 DEF Rows
  <2>4. [ptable[p] EXCEPT !.pc = "user"] \in Rows
    BY <1>1 DEF Rows, States
  <2>5. /\ ptable' \in [Slots -> Rows]
        /\ ptable'[q] = [ptable[q] EXCEPT !.state = "UNUSED", !.pid = 0, !.parent = None, !.killed = 0]
        /\ ptable'[p] = [ptable[p] EXCEPT !.pc = "user"]
        /\ \A s \in Slots \ {p, q} : ptable'[s] = ptable[s]
    BY <1>1, <2>1, <2>2, <2>3, <2>4
  <2>6. /\ \A s \in Slots \ {p, q} : ptable'[s] = ptable[s]
        /\ ptable'[q].state = "UNUSED" /\ ptable'[q].pid = 0 /\ ptable'[q].parent = None
        /\ ptable'[q].pc = ptable[q].pc
        /\ ptable'[p].state = "RUNNING" /\ ptable'[p].pid = ptable[p].pid
        /\ ptable'[p].parent = ptable[p].parent /\ ptable'[p].pc = "user"
    BY <1>1, <2>5 DEF Rows
  <2>7. ProcessStep(c, p)
    BY <1>1, <1>2, <2>1, <2>2, <2>5, <2>6 DEF ProcessStep
  <2>8. PidsOk'
    <3>1. 0 < nextpid
      BY <1>1
    <3>q. QED BY <1>2, <2>2, <2>6, <3>1 DEF TableOk, PidsOk
  <2>9. ForkOk'
    BY <1>2, <2>1, <2>2, <2>5, <2>6 DEF TableOk, ForkOk
  <2>10. FamilyOk'
    BY <2>2, <2>6, Constants DEF TableOk, FamilyOk
  <2>11. WaitOk' /\ NoLostExit'
    BY <2>2, <2>6 DEF TableOk, WaitOk, NoLostExit
  <2>q. QED BY <2>7, <2>8, <2>9, <2>10, <2>11 DEF TableOk
<1>4. CASE ptable' = [ptable EXCEPT ![p].pc = "user"] /\ UNCHANGED <<lock, cpu>>
  <2>1. ProcessStep(c, p)
    BY <1>1, <1>2, <1>4 DEF ProcessStep, Rows, States
  <2>2. PidsOk'
    BY <1>1, <1>2, <1>4 DEF TableOk, PidsOk, Rows
  <2>3. ForkOk'
    BY <1>1, <1>2, <1>4 DEF TableOk, ForkOk, Rows
  <2>4. FamilyOk'
    BY <1>1, <1>4, Constants DEF TableOk, FamilyOk, Rows
  <2>5. WaitOk' /\ NoLostExit'
    BY <1>1, <1>4 DEF TableOk, WaitOk, NoLostExit, Rows
  <2>q. QED BY <2>1, <2>2, <2>3, <2>4, <2>5 DEF TableOk
<1>5. CASE /\ \A q \in Slots : ptable[q].parent = p => ptable[q].state # "ZOMBIE"
           /\ ptable' = [ptable EXCEPT ![p] =
                [@ EXCEPT !.state = "SLEEPING", !.chan = p, !.pc = "wait"]]
           /\ Sched(c)
  <2>1. [ptable[p] EXCEPT !.state = "SLEEPING", !.chan = p, !.pc = "wait"] \in Rows
    <3>1. p \in 0..IoChan
      BY Constants
    <3>q. QED BY <1>1, <3>1 DEF Rows, States
  <2>2. /\ ptable' \in [Slots -> Rows]
        /\ ptable'[p] = [ptable[p] EXCEPT !.state = "SLEEPING", !.chan = p, !.pc = "wait"]
        /\ \A s \in Slots \ {p} : ptable'[s] = ptable[s]
    BY <1>1, <1>5, <2>1
  <2>3. /\ \A s \in Slots \ {p} : ptable'[s] = ptable[s]
        /\ ptable'[p].state = "SLEEPING" /\ ptable'[p].pid = ptable[p].pid
        /\ ptable'[p].parent = ptable[p].parent /\ ptable'[p].pc = "wait" /\ ptable'[p].chan = p
    BY <1>1, <2>2 DEF Rows
  <2>4. ProcessStep(c, p)
    BY <1>1, <1>2, <1>5, <2>2, <2>3 DEF ProcessStep
  <2>5. PidsOk'
    BY <1>2, <2>3 DEF TableOk, PidsOk
  <2>6. ForkOk'
    BY <1>2, <2>3 DEF TableOk, ForkOk
  <2>7. FamilyOk'
    BY <2>3, Constants DEF TableOk, FamilyOk
  <2>8. WaitOk' /\ NoLostExit'
    BY <1>5, <2>3 DEF TableOk, WaitOk, NoLostExit
  <2>q. QED BY <2>4, <2>5, <2>6, <2>7, <2>8 DEF TableOk
<1>q. QED BY <1>3, <1>4, <1>5 DEF Wait

(* exit() hands the children over to init, which may be asleep in wait(). *)
LEMMA ExitStep ==
  ASSUME TypeOK, TableOk, NEW c \in CPUs, NEW p \in Slots, ptable[p].state = "RUNNING",
         Exit(c, p)
  PROVE  ProcessStep(c, p) /\ TableOk'
<1> DEFINE kids == {q \in Slots : ptable[q].parent = p}
           pt   == [q \in Slots |-> IF q \in kids THEN [ptable[q] EXCEPT !.parent = initproc]
                                    ELSE ptable[q]]
           pt2  == Wakeup1(pt, ptable[p].parent)
           pt3  == IF \E q \in kids : pt[q].state = "ZOMBIE" THEN Wakeup1(pt2, initproc)
                   ELSE pt2
<1>1. ptable \in [Slots -> Rows] /\ nextpid \in 1..MaxPid + 1
  BY TypeRows
<1>2. ptable[p].pc = "user" /\ UNCHANGED <<nextpid, overtaken>>
  BY DEF Exit, On
<1>3. CASE p = initproc
  <2>1. UNCHANGED <<ptable, lock, cpu>>
    BY <1>3 DEF Exit
  <2>2. ProcessStep(c, p)
    BY <1>1, <1>2, <2>1 DEF ProcessStep
  <2>q. QED BY <1>2, <2>1, <2>2 DEF TableOk, PidsOk, FamilyOk, ForkOk, WaitOk, NoLostExit
<1>4. CASE p # initproc
  <2>1. ptable' = [pt3 EXCEPT ![p].state = "ZOMBIE"] /\ Sched(c)
    BY <1>4 DEF Exit
  <2>2. /\ pt \in [Slots -> Rows]
        /\ \A q \in Slots :
             /\ pt[q].state = ptable[q].state /\ pt[q].pid = ptable[q].pid
             /\ pt[q].parent = IF ptable[q].parent = p THEN initproc ELSE ptable[q].parent
             /\ pt[q].pc = ptable[q].pc /\ pt[q].np = ptable[q].np /\ pt[q].chan = ptable[q].chan
    <3>1. ASSUME NEW q \in Slots PROVE [ptable[q] EXCEPT !.parent = initproc] \in Rows
      BY <1>1, Constants DEF Rows
    <3>q. QED BY <1>1, <3>1 DEF Rows
  <2> HIDE DEF pt
  <2>3. /\ pt2 \in [Slots -> Rows]
        /\ \A q \in Slots :
             /\ pt2[q].state = IF ptable[q].state = "SLEEPING" /\ ptable[q].chan = ptable[p].parent
                               THEN "RUNNABLE" ELSE ptable[q].state
             /\ pt2[q].pid = ptable[q].pid
             /\ pt2[q].parent = IF ptable[q].parent = p THEN initproc ELSE ptable[q].parent
             /\ pt2[q].pc = ptable[q].pc /\ pt2[q].np = ptable[q].np /\ pt2[q].chan = ptable[q].chan
    BY <2>2, Wakeup1Rows
  <2> HIDE DEF pt2
  <2>w. /\ Wakeup1(pt2, initproc) \in [Slots -> Rows]
        /\ \A q \in Slots :
              /\ Wakeup1(pt2, initproc)[q].state =
                   IF pt2[q].state = "SLEEPING" /\ pt2[q].chan = initproc THEN "RUNNABLE"
                   ELSE pt2[q].state
              /\ Wakeup1(pt2, initproc)[q].pid = pt2[q].pid
              /\ Wakeup1(pt2, initproc)[q].parent = pt2[q].parent
              /\ Wakeup1(pt2, initproc)[q].pc = pt2[q].pc
              /\ Wakeup1(pt2, initproc)[q].np = pt2[q].np
              /\ Wakeup1(pt2, initproc)[q].chan = pt2[q].chan
    BY <2>3, Wakeup1Rows
  <2>4. /\ pt3 \in [Slots -> Rows]
        /\ \A q \in Slots :
             /\ \/ pt3[q].state = ptable[q].state
                \/ ptable[q].state = "SLEEPING" /\ pt3[q].state = "RUNNABLE"
             /\ pt3[q].state = "SLEEPING" => ptable[q].chan # ptable[p].parent
             /\ pt3[q].pid = ptable[q].pid
             /\ pt3[q].parent = IF ptable[q].parent = p THEN initproc ELSE ptable[q].parent
             /\ pt3[q].pc = ptable[q].pc /\ pt3[q].np = ptable[q].np /\ pt3[q].chan = ptable[q].chan
    <3>1. pt3 = pt2 \/ pt3 = Wakeup1(pt2, initproc)
      OBVIOUS
    <3> HIDE DEF pt3
    <3>2. pt3 \in [Slots -> Rows]
      BY <2>3, <2>w, <3>1
    <3>3. \A q \in Slots :
            /\ \/ pt3[q].state = pt2[q].state
               \/ pt2[q].state = "SLEEPING" /\ pt3[q].state = "RUNNABLE"
            /\ pt3[q].pid = pt2[q].pid /\ pt3[q].parent = pt2[q].parent
            /\ pt3[q].pc = pt2[q].pc /\ pt3[q].np = pt2[q].np /\ pt3[q].chan = pt2[q].chan
      BY <2>w, <3>1
    <3>q. QED BY <2>3, <3>2, <3>3
  <2>5. \A q, r \in Slots : ptable[r].parent = p /\ ptable[r].state = "ZOMBIE"
                            /\ pt3[q].state = "SLEEPING" => ptable[q].chan # initproc
    <3>1. SUFFICES ASSUME NEW q \in Slots, NEW r \in Slots, ptable[r].parent = p,
                          ptable[r].state = "ZOMBIE", pt3[q].state = "SLEEPING"
                   PROVE  ptable[q].chan # initproc
      OBVIOUS
    <3>2. r \in kids /\ pt[r].state = "ZOMBIE"
      BY <2>2, <3>1
    <3>3. pt3 = Wakeup1(pt2, initproc)
      BY <3>2
    <3>q. QED BY <2>3, <2>w, <3>1, <3>3
  <2> HIDE DEF pt3
  <2>6. /\ ptable' \in [Slots -> Rows]
        /\ ptable'[p].state = "ZOMBIE"
        /\ \A q \in Slots :
             /\ q # p => ptable'[q].state = pt3[q].state
             /\ ptable'[q].pid = pt3[q].pid /\ ptable'[q].parent = pt3[q].parent
             /\ ptable'[q].pc = pt3[q].pc /\ ptable'[q].np = pt3[q].np
             /\ ptable'[q].chan = pt3[q].chan
    <3>1. [pt3[p] EXCEPT !.state = "ZOMBIE"] \in Rows
      BY <2>4 DEF Rows, States
    <3>q. QED BY <2>1, <2>4, <3>1 DEF Rows
  <2>7. \A q \in Slots :
             /\ q # p => \/ ptable'[q].state = ptable[q].state
                         \/ ptable[q].state = "SLEEPING" /\ ptable'[q].state = "RUNNABLE"
             /\ ptable'[q].state = "SLEEPING" => ptable[q].chan # ptable[p].parent
             /\ ptable'[q].pid = ptable[q].pid
             /\ ptable'[q].parent = IF ptable[q].parent = p THEN initproc ELSE ptable[q].parent
             /\ ptable'[q].pc = ptable[q].pc /\ ptable'[q].np = ptable[q].np
             /\ ptable'[q].chan = ptable[q].chan
    BY <2>4, <2>6
  <2>8. ProcessStep(c, p)
    BY <1>1, <1>2, <2>1, <2>6, <2>7 DEF ProcessStep
  <2>9. PidsOk'
    BY <1>2, <2>6, <2>7 DEF TableOk, PidsOk
  <2>10. ForkOk'
    BY <1>2, <2>6, <2>7 DEF TableOk, ForkOk
  <2>11. FamilyOk'
    BY <1>4, <2>7, Constants DEF TableOk, FamilyOk
  <2>12. WaitOk'
    BY <2>6, <2>7 DEF TableOk, WaitOk
  <2>13. NoLostExit'
    <3> SUFFICES ASSUME NEW q \in Slots, NEW r \in Slots, ptable'[q].state = "SLEEPING",
                        ptable'[q].pc = "wait", ptable'[r].parent = q, ptable'[r].state = "ZOMBIE"
                 PROVE  FALSE
      BY DEF NoLostExit
    <3>1. q # p /\ ptable[q].state = "SLEEPING" /\ ptable[q].pc = "wait" /\ ptable[q].chan = q
      BY <2>6, <2>7 DEF TableOk, WaitOk
    <3>2. CASE r = p
      BY <2>7, <3>1, <3>2 DEF TableOk, FamilyOk
    <3>3. CASE r # p /\ ptable[r].parent # p
      BY <2>7, <3>1, <3>3 DEF TableOk, NoLostExit
    <3>4. CASE r # p /\ ptable[r].parent = p
      BY <2>5, <2>6, <2>7, <3>1, <3>4
    <3>q. QED BY <3>2, <3>3, <3>4
  <2>q. QED BY <2>8, <2>9, <2>10, <2>11, <2>12, <2>13 DEF TableOk
<1>q. QED BY <1>3, <1>4

(* What sched() leaves in scheduler()'s variables. *)
LEMMA SchedCpu ==
  ASSUME TypeOK, NEW c \in CPUs, Sched(c), cpu[c].loop = "even" => cpu[c].pos <= NPROC
  PROVE  /\ cpu' \in [CPUs -> CpuRows] /\ lock' = c
         /\ cpu'[c].proc = None /\ cpu'[c].loop = cpu[c].loop
         /\ cpu[c].loop = "even" => cpu'[c].pos = cpu[c].pos + 1
         /\ cpu[c].loop = "odd" => cpu'[c].pos = 1 /\ cpu'[c].best = None
         /\ \A d \in CPUs \ {c} : cpu'[d] = cpu[d]
<1>1. cpu \in [CPUs -> CpuRows]
  BY TypeRows
<1>2. 1 \in 1..NPROC + 1
  OBVIOUS
<1>3. CASE cpu[c].loop = "even"
  <2>1. cpu[c].pos + 1 \in 1..NPROC + 1
    BY <1>1, <1>3 DEF CpuRows
  <2>2. [cpu[c] EXCEPT !.proc = None, !.pos = cpu[c].pos + 1] \in CpuRows
    BY <1>1, <2>1 DEF CpuRows
  <2>3. lock' = c /\ cpu' = [cpu EXCEPT ![c] = [cpu[c] EXCEPT !.proc = None, !.pos = cpu[c].pos + 1]]
    BY <1>3 DEF Sched
  <2>q. QED BY <1>1, <1>3, <2>2, <2>3 DEF CpuRows
<1>4. CASE cpu[c].loop = "odd"
  <2>1. [cpu[c] EXCEPT !.proc = None, !.pos = 1, !.best = None] \in CpuRows
    BY <1>1, <1>2 DEF CpuRows
  <2>2. lock' = c /\ cpu' = [cpu EXCEPT ![c] = [cpu[c] EXCEPT !.proc = None, !.pos = 1, !.best = None]]
    BY <1>1, <1>4 DEF Sched
  <2>q. QED BY <1>1, <1>4, <2>1, <2>2 DEF CpuRows
<1>q. QED BY <1>1, <1>3, <1>4 DEF CpuRows

(* A process step keeps what the schedulers rely on. *)
LEMMA ProcessInv ==
  ASSUME IInv, NEW c \in CPUs, NEW p \in Slots, lock = NoCPU,
         cpu[c].proc = p \/ UNCHANGED <<lock, cpu>>,
         ProcessStep(c, p), TableOk', panicked' \in BOOLEAN
  PROVE  IInv' /\ \A d \in CPUs : cpu'[d].proc \in {cpu[d].proc, None}
<1>1. /\ ptable \in [Slots -> Rows] /\ cpu \in [CPUs -> CpuRows]
      /\ overtaken \in [Slots -> SUBSET (0..MaxPid)] /\ nextpid \in 1..MaxPid + 1
      /\ NoCPU \notin CPUs /\ 0 \in CPUs
  BY TypeRows DEF IInv, NoCPU, CPUs
<1>2. \A s \in Slots : ptable[s].pid \in 0..MaxPid
  BY <1>1 DEF Rows
<1>3. /\ ptable' \in [Slots -> Rows] /\ nextpid' \in 1..MaxPid + 1 /\ nextpid <= nextpid'
      /\ overtaken' = overtaken
  BY DEF ProcessStep
<1>4. \A s \in Slots :
       /\ ptable[s].state = "RUNNABLE" =>
            ptable'[s].state = "RUNNABLE" /\ ptable'[s].pid = ptable[s].pid
       /\ ptable'[s].pid \in {ptable[s].pid, 0, nextpid}
       /\ ptable[s].state = "RUNNING" /\ s # p => ptable'[s].state = "RUNNING"
  BY DEF ProcessStep
(* Who overtook whom, before the step. *)
<1>5. /\ \A q \in Slots : overtaken'[q] \subseteq 1..nextpid' - 1
      /\ \A q \in Slots : ptable'[q].state # "RUNNABLE" => overtaken'[q] = {}
      /\ \A q, s \in Slots : ptable'[s].pid \in overtaken'[q] =>
           /\ ptable[q].state = "RUNNABLE" /\ ptable'[q].pid = ptable[q].pid
           /\ ptable'[s].pid = ptable[s].pid
  <2>1. \A q \in Slots : overtaken[q] \subseteq 1..nextpid - 1
    BY DEF IInv, TurnsOk
  <2>2. \A q \in Slots : ptable[q].state # "RUNNABLE" => overtaken[q] = {}
    BY DEF IInv, TurnsOk, Ready
  <2>3. \A q \in Slots : overtaken'[q] \subseteq 1..nextpid' - 1
    BY <1>1, <1>3, <2>1
  <2>4. 0 \notin 1..nextpid - 1 /\ nextpid \notin 1..nextpid - 1
    BY <1>1
  <2>q. QED BY <1>3, <1>4, <2>1, <2>2, <2>3, <2>4
<1>6. CASE UNCHANGED <<lock, cpu>>
  <2>1. ptable[p].state = "RUNNING" => ptable'[p].state = "RUNNING"
    BY <1>1, <1>6 DEF ProcessStep, Sched
  <2>2. TypeOK'
    BY <1>1, <1>3, <1>6, Zenon DEF TypeOK, Rows, States, CpuRows, IInv
  <2>3. RunningOk'
    BY <1>1, <1>4, <1>6, <2>1 DEF IInv, RunningOk, CpuRows
  <2>4. SearchOk'
    BY <1>1, <1>6 DEF SearchOk
  <2>5. TurnsOk'
    <3>1. \A s \in Slots : Visited(s)' <=> Visited(s)
      BY <1>6 DEF Visited
    <3>2. NCPU = 1 => \A q, s \in Slots :
           Ready(q)' /\ Even(q)' /\ ptable'[s].pid \in overtaken'[q] =>
             \/ q < s /\ (Visited(q)' => Visited(s)')
             \/ Visited(s)' /\ ~Visited(q)'
      BY <1>3, <1>5, <3>1 DEF IInv, TurnsOk, Ready, Even
    <3>q. QED BY <1>5, <3>2 DEF TurnsOk, Ready
  <2>q. QED BY <1>6, <2>2, <2>3, <2>4, <2>5 DEF IInv, TableOk
<1>7. CASE Sched(c) /\ cpu[c].proc = p
  <2>1. p # None /\ (cpu[c].loop = "even" => cpu[c].pos <= NPROC)
    BY <1>7, Constants DEF IInv, RunningOk
  <2>2. /\ cpu' \in [CPUs -> CpuRows] /\ lock' = c
        /\ cpu'[c].proc = None /\ cpu'[c].loop = cpu[c].loop
        /\ cpu[c].loop = "even" => cpu'[c].pos = cpu[c].pos + 1
        /\ cpu[c].loop = "odd" => cpu'[c].pos = 1 /\ cpu'[c].best = None
        /\ \A d \in CPUs \ {c} : cpu'[d] = cpu[d]
    BY <1>7, <2>1, SchedCpu DEF IInv
  <2>3. TypeOK'
    BY <1>1, <1>3, <2>2, Zenon DEF TypeOK, Rows, States, CpuRows, IInv
  <2>4. RunningOk'
    <3> SUFFICES ASSUME NEW d \in CPUs
                 PROVE  /\ lock' = d => cpu'[d].proc = None
                        /\ cpu'[d].proc # None =>
                             /\ ptable'[cpu'[d].proc].state = "RUNNING"
                             /\ cpu'[d].loop = "even" => cpu'[d].pos <= NPROC
                             /\ \A e \in CPUs : cpu'[e].proc = cpu'[d].proc => d = e
      BY DEF RunningOk
    <3>1. CASE d = c
      BY <2>2, <3>1
    <3>2. CASE d # c
      <4>1. cpu'[d] = cpu[d] /\ lock' # d
        BY <2>2, <3>2
      <4>2. ASSUME cpu[d].proc # None
            PROVE  /\ cpu[d].proc \in Slots \ {p} /\ ptable[cpu[d].proc].state = "RUNNING"
                   /\ cpu[d].loop = "even" => cpu[d].pos <= NPROC
                   /\ \A e \in CPUs : cpu[e].proc = cpu[d].proc => d = e
        BY <1>1, <1>7, <3>2, <4>2 DEF IInv, RunningOk, CpuRows
      <4>3. ASSUME cpu[d].proc # None
            PROVE  \A e \in CPUs : cpu'[e].proc = cpu[d].proc => d = e
        BY <2>2, <4>2, <4>3
      <4>q. QED BY <1>4, <4>1, <4>2, <4>3
    <3>q. QED BY <3>1, <3>2
  <2>5. SearchOk'
    <3> SUFFICES ASSUME NEW d \in CPUs, lock' = d, cpu'[d].loop = "odd"
                 PROVE  cpu'[d].best = None /\ \A q \in Slots : ~(q < cpu'[d].pos)
      BY DEF SearchOk
    <3>q. QED BY <2>2 DEF Slots
  <2>6. TurnsOk'
    <3>1. ASSUME NCPU = 1, NEW s \in Slots PROVE Visited(s)' <=> Visited(s)
      <4>1. c = 0
        BY <3>1 DEF CPUs
      <4>2. cpu[0].pos \in 1..NPROC + 1 /\ s \in Nat /\ NoCPU # 0
        BY <1>1 DEF CpuRows, Slots
      <4>3. CASE cpu[0].loop = "even"
        BY <1>7, <2>1, <2>2, <4>1, <4>2, <4>3 DEF Visited
      <4>4. CASE cpu[0].loop # "even"
        BY <2>2, <4>1, <4>4 DEF Visited
      <4>q. QED BY <4>3, <4>4
    <3>2. NCPU = 1 => \A q, s \in Slots :
           Ready(q)' /\ Even(q)' /\ ptable'[s].pid \in overtaken'[q] =>
             \/ q < s /\ (Visited(q)' => Visited(s)')
             \/ Visited(s)' /\ ~Visited(q)'
      BY <1>3, <1>5, <3>1 DEF IInv, TurnsOk, Ready, Even
    <3>q. QED BY <1>5, <3>2 DEF TurnsOk, Ready
  <2>q. QED BY <2>2, <2>3, <2>4, <2>5, <2>6 DEF IInv, TableOk
<1>q. QED BY <1>6, <1>7 DEF ProcessStep

(* A step of CPU c's scheduler() between two slots, when no process runs   *)
(* on c.                                                                   *)
SearchStep(c) ==
  /\ cpu[c].proc = None /\ cpu'[c].proc = None
  /\ cpu' \in [CPUs -> CpuRows]
  /\ \A d \in CPUs \ {c} : cpu'[d] = cpu[d]
  /\ lock' \in {c, NoCPU}
  /\ UNCHANGED <<ptable, nextpid, overtaken, panicked>>

(* The invariant but for the two parts about the loops. *)
LEMMA SearchStepInv ==
  ASSUME IInv, NEW c \in CPUs, SearchStep(c), SearchOk',
         NCPU = 1 => \A q, s \in Slots :
           Ready(q) /\ Even(q) /\ ptable[s].pid \in overtaken[q] =>
             \/ q < s /\ (Visited(q)' => Visited(s)')
             \/ Visited(s)' /\ ~Visited(q)'
  PROVE  IInv' /\ \A d \in CPUs : cpu'[d].proc \in {cpu[d].proc, None}
<1>1. UNCHANGED <<ptable, nextpid, overtaken, panicked>>
  BY DEF SearchStep
<1>2. TypeOK'
  BY <1>1, Zenon DEF SearchStep, IInv, TypeOK, CpuRows
<1>3. TableOk'
  BY <1>1 DEF IInv, TableOk, PidsOk, FamilyOk, ForkOk, WaitOk, NoLostExit
<1>4. RunningOk'
  BY <1>1 DEF SearchStep, IInv, RunningOk, NoCPU, CPUs
<1>5. TurnsOk'
  BY <1>1 DEF IInv, TurnsOk, Ready, Even
<1>q. QED BY <1>2, <1>3, <1>4, <1>5 DEF IInv, TableOk, SearchStep

(* In the loop over the even pids a slot is visited when p has passed it;  *)
(* nothing is visited outside of it.                                       *)
LEMMA SchedBeginInv ==
  ASSUME IInv, NEW c \in CPUs, SchedBegin(c)
  PROVE  IInv' /\ \A d \in CPUs : cpu'[d].proc \in {cpu[d].proc, None}
<1>1. /\ cpu \in [CPUs -> CpuRows] /\ lock = NoCPU /\ cpu[c].proc = None
      /\ lock' = c /\ cpu' = [cpu EXCEPT ![c] = [cpu[c] EXCEPT !.loop = "even", !.pos = 1]]
  BY TypeRows DEF SchedBegin, IInv
<1>2. cpu' \in [CPUs -> CpuRows] /\ cpu'[c].loop = "even" /\ cpu'[c].pos = 1
  <2>1. 1 \in 1..NPROC + 1
    OBVIOUS
  <2>2. [cpu[c] EXCEPT !.loop = "even", !.pos = 1] \in CpuRows
    BY <1>1, <2>1 DEF CpuRows
  <2>q. QED BY <1>1, <2>2 DEF CpuRows
<1>3. SearchStep(c)
  BY <1>1, <1>2 DEF SearchStep, SchedBegin, CpuRows
<1>4. SearchOk'
  BY <1>1, <1>2 DEF SearchOk
<1>5. ASSUME NCPU = 1, NEW s \in Slots PROVE ~Visited(s) /\ ~Visited(s)'
  <2>1. c = 0 /\ NoCPU # 0
    BY <1>5 DEF CPUs, NoCPU
  <2>q. QED BY <1>1, <1>2, <2>1 DEF Visited, Slots
<1>q. QED BY <1>3, <1>4, <1>5, SearchStepInv DEF IInv, TurnsOk

(* Passing a slot of the round passes nobody who waits for it. *)
LEMMA EvenNextInv ==
  ASSUME IInv, NEW c \in CPUs, EvenNext(c)
  PROVE  IInv' /\ \A d \in CPUs : cpu'[d].proc \in {cpu[d].proc, None}
<1> DEFINE x == cpu[c].pos
<1>1. /\ cpu \in [CPUs -> CpuRows] /\ lock = c /\ cpu[c].loop = "even" /\ x <= NPROC
      /\ lock' = c /\ cpu' = [cpu EXCEPT ![c].pos = x + 1] /\ (~Even(x) \/ ~Ready(x))
  BY TypeRows DEF EvenNext, IInv, In
<1>t. x \in 1..NPROC + 1
  BY <1>1 DEF CpuRows
<1> HIDE DEF x
<1>2. cpu' \in [CPUs -> CpuRows] /\ cpu'[c].loop = "even" /\ cpu'[c].pos = x + 1
  <2>1. x + 1 \in 1..NPROC + 1
    BY <1>1, <1>t
  <2>2. [cpu[c] EXCEPT !.pos = x + 1] \in CpuRows
    BY <1>1, <2>1 DEF CpuRows
  <2>q. QED BY <1>1, <2>2 DEF CpuRows
<1>3. SearchStep(c)
  BY <1>1, <1>2 DEF SearchStep, EvenNext, CpuRows, IInv, RunningOk
<1>4. SearchOk'
  BY <1>1, <1>2 DEF SearchOk
<1>5. ASSUME NCPU = 1, NEW s \in Slots
      PROVE  (Visited(s) <=> s < x) /\ (Visited(s)' <=> s <= x)
  <2>1. c = 0 /\ NoCPU # 0
    BY <1>5 DEF CPUs, NoCPU
  <2>2. lock = 0 /\ cpu[0].loop = "even" /\ cpu[0].pos = x
    BY <1>1, <2>1 DEF x
  <2>3. lock' = 0 /\ cpu'[0].loop = "even" /\ cpu'[0].pos = x + 1
    BY <1>1, <1>2, <2>1
  <2>4. s \in Int
    BY DEF Slots
  <2>q. QED BY <1>t, <2>1, <2>2, <2>3, <2>4 DEF Visited
<1>6. ASSUME NCPU = 1, NEW q \in Slots, NEW s \in Slots, Ready(q), Even(q),
             ptable[s].pid \in overtaken[q]
      PROVE  \/ q < s /\ (Visited(q)' => Visited(s)')
             \/ Visited(s)' /\ ~Visited(q)'
  <2>1. \/ q < s /\ (Visited(q) => Visited(s))
        \/ Visited(s) /\ ~Visited(q)
    BY <1>6 DEF IInv, TurnsOk
  <2>2. q # x /\ q \in Int /\ s \in Int
    BY <1>1, <1>6 DEF Slots
  <2>q. QED BY <1>t, <1>5, <1>6, <2>1, <2>2
<1>q. QED BY <1>3, <1>4, <1>6, SearchStepInv

(* At the end of the round everybody has been visited. *)
LEMMA EvenEndInv ==
  ASSUME IInv, NEW c \in CPUs, EvenEnd(c)
  PROVE  IInv' /\ \A d \in CPUs : cpu'[d].proc \in {cpu[d].proc, None}
<1>1. /\ cpu \in [CPUs -> CpuRows] /\ lock = c /\ cpu[c].loop = "even" /\ cpu[c].pos > NPROC
      /\ lock' = c
      /\ cpu' = [cpu EXCEPT ![c] = [cpu[c] EXCEPT !.loop = "odd", !.pos = 1, !.best = None]]
  BY TypeRows DEF EvenEnd, IInv, In
<1>2. /\ cpu' \in [CPUs -> CpuRows]
      /\ cpu'[c].loop = "odd" /\ cpu'[c].pos = 1 /\ cpu'[c].best = None
      /\ cpu'[c].proc = cpu[c].proc
  <2>1. 1 \in 1..NPROC + 1
    OBVIOUS
  <2>2. [cpu[c] EXCEPT !.loop = "odd", !.pos = 1, !.best = None] \in CpuRows
    BY <1>1, <2>1 DEF CpuRows
  <2>q. QED BY <1>1, <2>2 DEF CpuRows
<1>3. SearchStep(c)
  BY <1>1, <1>2 DEF SearchStep, EvenEnd, IInv, RunningOk
<1>4. SearchOk'
  <2> SUFFICES ASSUME NEW d \in CPUs, lock' = d, cpu'[d].loop = "odd"
               PROVE  cpu'[d].best = None /\ \A q \in Slots : ~(q < cpu'[d].pos)
    BY DEF SearchOk
  <2>q. QED BY <1>1, <1>2 DEF Slots
<1>5. ASSUME NCPU = 1, NEW s \in Slots PROVE Visited(s) /\ ~Visited(s)'
  <2>1. c = 0 /\ NoCPU # 0
    BY <1>5 DEF CPUs, NoCPU
  <2>2. cpu[c].pos \in Int
    BY <1>1 DEF CpuRows
  <2>q. QED BY <1>1, <1>2, <2>1, <2>2 DEF Visited, Slots
<1>q. QED BY <1>3, <1>4, <1>5, SearchStepInv DEF IInv, TurnsOk

(* Releasing the lock with nobody ready. *)
LEMMA OddEndInv ==
  ASSUME IInv, NEW c \in CPUs, OddEnd(c)
  PROVE  IInv' /\ \A d \in CPUs : cpu'[d].proc \in {cpu[d].proc, None}
<1>1. /\ cpu \in [CPUs -> CpuRows] /\ lock = c /\ cpu[c].loop = "odd"
      /\ lock' = NoCPU /\ cpu' = cpu
  BY TypeRows DEF OddEnd, IInv, In
<1>3. SearchStep(c)
  BY <1>1 DEF SearchStep, OddEnd, IInv, RunningOk
<1>4. SearchOk'
  BY <1>1 DEF SearchOk, NoCPU, CPUs
<1>5. ASSUME NCPU = 1, NEW s \in Slots PROVE ~Visited(s) /\ ~Visited(s)'
  BY <1>1, <1>5 DEF Visited, CPUs
<1>q. QED BY <1>3, <1>4, <1>5, SearchStepInv DEF IInv, TurnsOk

(* The search for the lowest odd pid, and its goto even. *)
LEMMA OddNextInv ==
  ASSUME IInv, NEW c \in CPUs, OddNext(c)
  PROVE  IInv' /\ \A d \in CPUs : cpu'[d].proc \in {cpu[d].proc, None}
<1> DEFINE x == cpu[c].pos
           best == IF Ready(x) /\ Better(cpu[c].best, x) THEN x ELSE cpu[c].best
<1>1. /\ cpu \in [CPUs -> CpuRows] /\ ptable \in [Slots -> Rows]
      /\ lock = c /\ cpu[c].loop = "odd" /\ x <= NPROC /\ lock' = c
      /\ UNCHANGED <<ptable, nextpid, overtaken, panicked>>
  BY TypeRows DEF OddNext, IInv, In
<1>t. x \in Slots /\ x \in Int /\ x + 1 \in 1..NPROC + 1 /\ 1 \in 1..NPROC + 1
  BY <1>1 DEF CpuRows, Slots
<1>b. best \in Slots \union {None}
  BY <1>1, <1>t DEF CpuRows
<1>o. SearchOk
  BY DEF IInv
<1>i. \A q \in Slots : ptable[q].pid \in Int
  BY <1>1 DEF Rows
<1>2. CASE Ready(x) /\ Even(x)
  <2>1. cpu' = [cpu EXCEPT ![c] = [cpu[c] EXCEPT !.loop = "even", !.pos = 1]]
    BY <1>2 DEF OddNext
  <2>2. [cpu[c] EXCEPT !.loop = "even", !.pos = 1] \in CpuRows
    BY <1>1, <1>t DEF CpuRows
  <2>3. /\ cpu' \in [CPUs -> CpuRows] /\ cpu'[c].loop = "even" /\ cpu'[c].pos = 1
        /\ cpu'[c].proc = cpu[c].proc
    BY <1>1, <2>1, <2>2 DEF CpuRows
  <2>4. SearchStep(c)
    BY <1>1, <2>1, <2>3 DEF SearchStep, IInv, RunningOk
  <2>5. SearchOk'
    BY <1>1, <2>3 DEF SearchOk
  <2>6. ASSUME NCPU = 1, NEW s \in Slots PROVE ~Visited(s) /\ ~Visited(s)'
    <3>1. c = 0 /\ NoCPU # 0
      BY <2>6 DEF CPUs, NoCPU
    <3>q. QED BY <1>1, <2>3, <3>1 DEF Visited, Slots
  <2>q. QED BY <2>4, <2>5, <2>6, SearchStepInv DEF IInv, TurnsOk
<1>3. CASE ~(Ready(x) /\ Even(x))
  <2>1. cpu' = [cpu EXCEPT ![c] = [cpu[c] EXCEPT !.pos = x + 1, !.best = best]]
    BY <1>3 DEF OddNext
  <2>b. /\ best # None => Ready(best) /\ ~Even(best)
        /\ \A q \in Slots : q < x + 1 /\ Ready(q) =>
             ~Even(q) /\ best # None /\ ptable[best].pid <= ptable[q].pid
    <3>1. /\ cpu[c].best # None => Ready(cpu[c].best) /\ ~Even(cpu[c].best)
          /\ \A q \in Slots : q < x /\ Ready(q) =>
               /\ ~Even(q) /\ cpu[c].best # None
               /\ ptable[cpu[c].best].pid <= ptable[q].pid
          /\ cpu[c].best \in Slots \union {None}
      BY <1>1, <1>o DEF SearchOk, CpuRows
    <3>2. CASE Ready(x) /\ Better(cpu[c].best, x)
      <4>1. best = x /\ x # None /\ ~Even(x)
        BY <1>3, <1>t, <3>2, Constants
      <4>2. ASSUME NEW q \in Slots, q < x + 1, Ready(q)
            PROVE  ~Even(q) /\ ptable[x].pid <= ptable[q].pid
        <5>1. CASE q = x
          BY <1>i, <4>1, <5>1
        <5>2. CASE q < x
          BY <1>i, <1>t, <3>1, <3>2, <4>2, <5>2 DEF Better
        <5>q. QED BY <1>t, <4>2, <5>1, <5>2 DEF Slots
      <4> HIDE DEF best
      <4>q. QED BY <3>2, <4>1, <4>2
    <3>3. CASE ~(Ready(x) /\ Better(cpu[c].best, x))
      <4>1. best = cpu[c].best
        BY <3>3
      <4>2. ASSUME NEW q \in Slots, q < x + 1, Ready(q)
            PROVE  ~Even(q) /\ cpu[c].best # None /\ ptable[cpu[c].best].pid <= ptable[q].pid
        <5>1. CASE q = x
          <6>1. cpu[c].best # None /\ ~(ptable[cpu[c].best].pid > ptable[x].pid) /\ ~Even(x)
            BY <1>3, <3>3, <4>2, <5>1 DEF Better
          <6>q. QED BY <1>i, <1>t, <3>1, <5>1, <6>1
        <5>2. CASE q < x
          BY <3>1, <4>2, <5>2
        <5>q. QED BY <1>t, <4>2, <5>1, <5>2 DEF Slots
      <4> HIDE DEF best
      <4>q. QED BY <3>1, <4>1, <4>2
    <3>q. QED BY <3>2, <3>3
  <2> HIDE DEF best, x
  <2>2. [cpu[c] EXCEPT !.pos = x + 1, !.best = best] \in CpuRows
    BY <1>1, <1>t, <1>b DEF CpuRows
  <2>3. /\ cpu' \in [CPUs -> CpuRows] /\ cpu'[c].loop = "odd" /\ cpu'[c].pos = x + 1
        /\ cpu'[c].best = best /\ cpu'[c].proc = cpu[c].proc
    BY <1>1, <2>1, <2>2 DEF CpuRows
  <2>4. SearchStep(c)
    BY <1>1, <2>1, <2>3 DEF SearchStep, IInv, RunningOk
  <2>5. SearchOk'
    <3>1. ptable' = ptable /\ cpu'[c].best = best /\ cpu'[c].pos = x + 1
      BY <1>1, <2>3
    <3>2. \A d \in CPUs : lock' = d => d = c
      BY <1>1
    <3>q. QED BY <2>b, <3>1, <3>2 DEF SearchOk, Ready, Even
  <2>6. ASSUME NCPU = 1, NEW s \in Slots PROVE ~Visited(s) /\ ~Visited(s)'
    BY <1>1, <2>3, <2>6 DEF Visited, CPUs
  <2>q. QED BY <2>4, <2>5, <2>6, SearchStepInv DEF IInv, TurnsOk
<1>q. QED BY <1>2, <1>3

(* Giving the CPU to the ready process p, but for whose turn it is. *)
LEMMA DispatchInv ==
  ASSUME IInv, NEW c \in CPUs, NEW p \in Slots, lock = c, Ready(p), Dispatch(c, p),
         cpu[c].loop = "even" => cpu[c].pos <= NPROC,
         NCPU = 1 => \A q, s \in Slots :
           q # p /\ Ready(q) /\ Even(q) /\ ptable[s].pid \in overtaken'[q] =>
             \/ q < s /\ (Visited(q)' => Visited(s)')
             \/ Visited(s)' /\ ~Visited(q)'
  PROVE  IInv' /\ \A d \in CPUs \ {c} : cpu'[d].proc = cpu[d].proc
<1>1. /\ ptable \in [Slots -> Rows] /\ cpu \in [CPUs -> CpuRows]
      /\ overtaken \in [Slots -> SUBSET (0..MaxPid)] /\ nextpid \in 1..MaxPid + 1
      /\ NoCPU \notin CPUs
  BY TypeRows DEF IInv, NoCPU, CPUs
<1>2. /\ ptable' = [ptable EXCEPT ![p].state = "RUNNING", ![p].chan = 0]
      /\ cpu' = [cpu EXCEPT ![c].proc = p] /\ lock' = NoCPU
      /\ UNCHANGED <<nextpid, panicked>>
  BY DEF Dispatch
<1>3. ptable[p].state = "RUNNABLE" /\ ptable[p].pid \in 1..nextpid - 1
  BY <1>1 DEF Ready, IInv, PidsOk, Rows
<1>4. /\ ptable' \in [Slots -> Rows]
      /\ ptable'[p].state = "RUNNING"
      /\ \A q \in Slots \ {p} : ptable'[q] = ptable[q]
      /\ \A q \in Slots : /\ ptable'[q].pid = ptable[q].pid /\ ptable'[q].parent = ptable[q].parent
                          /\ ptable'[q].pc = ptable[q].pc /\ ptable'[q].np = ptable[q].np
  <2>1. [ptable[p] EXCEPT !.state = "RUNNING", !.chan = 0] \in Rows
    <3>1. 0 \in 0..IoChan /\ "RUNNING" \in States
      BY Constants DEF States
    <3>q. QED BY <1>1, <3>1, ZenonT(40) DEF Rows
  <2>q. QED BY <1>1, <1>2, <2>1 DEF Rows
<1>5. /\ cpu' \in [CPUs -> CpuRows] /\ cpu'[c].proc = p
      /\ cpu'[c].loop = cpu[c].loop /\ cpu'[c].pos = cpu[c].pos
      /\ \A d \in CPUs \ {c} : cpu'[d] = cpu[d]
  <2>1. [cpu[c] EXCEPT !.proc = p] \in CpuRows
    BY <1>1 DEF CpuRows
  <2>q. QED BY <1>1, <1>2, <2>1 DEF CpuRows
<1>6. /\ overtaken' \in [Slots -> SUBSET (0..MaxPid)]
      /\ overtaken'[p] = {}
      /\ \A q \in Slots : overtaken'[q] \subseteq 1..nextpid - 1
      /\ \A q \in Slots : ~Ready(q) => overtaken'[q] = {}
  <2>1. ptable[p].pid \in 0..MaxPid
    BY <1>1 DEF Rows
  <2>2. \A q \in Slots : /\ overtaken[q] \subseteq 1..nextpid - 1
                         /\ ~Ready(q) => overtaken[q] = {}
    BY DEF IInv, TurnsOk
  <2>3. overtaken' = [q \in Slots |-> IF q = p THEN {}
                                   ELSE IF Ready(q) /\ Even(q) /\ Even(p)
                                   THEN overtaken[q] \union {ptable[p].pid}
                                   ELSE overtaken[q]]
    BY DEF Dispatch
  <2>q. QED BY <1>1, <1>3, <2>1, <2>2, <2>3
<1>7. TypeOK'
  BY <1>1, <1>2, <1>4, <1>5, <1>6, Zenon DEF TypeOK, Rows, States, CpuRows, IInv
<1>8. PidsOk'
  BY <1>2, <1>3, <1>4 DEF IInv, PidsOk
<1>9. FamilyOk'
  BY <1>3, <1>4, Constants DEF IInv, FamilyOk
<1>10. ForkOk'
  BY <1>3, <1>4 DEF IInv, ForkOk
<1>11. WaitOk' /\ NoLostExit'
  BY <1>3, <1>4 DEF IInv, WaitOk, NoLostExit
<1>12. RunningOk'
  <2> SUFFICES ASSUME NEW d \in CPUs
               PROVE  /\ lock' = d => cpu'[d].proc = None
                      /\ cpu'[d].proc # None =>
                           /\ ptable'[cpu'[d].proc].state = "RUNNING"
                           /\ cpu'[d].loop = "even" => cpu'[d].pos <= NPROC
                           /\ \A e \in CPUs : cpu'[e].proc = cpu'[d].proc => d = e
    BY DEF RunningOk
  <2>1. lock' # d
    BY <1>1, <1>2
  <2>2. \A e \in CPUs : cpu[e].proc # p
    BY <1>3, Constants DEF IInv, RunningOk
  <2>3. CASE d = c
    BY <1>4, <1>5, <2>1, <2>2, <2>3
  <2>4. CASE d # c
    <3>1. ASSUME cpu[d].proc # None
          PROVE  /\ cpu[d].proc \in Slots \ {p} /\ ptable[cpu[d].proc].state = "RUNNING"
                 /\ cpu[d].loop = "even" => cpu[d].pos <= NPROC
                 /\ \A e \in CPUs : cpu[e].proc = cpu[d].proc => d = e
      BY <1>1, <2>2, <3>1 DEF IInv, RunningOk, CpuRows
    <3>q. QED BY <1>4, <1>5, <2>1, <2>4, <3>1
  <2>q. QED BY <2>3, <2>4
<1>13. SearchOk'
  BY <1>1, <1>2 DEF SearchOk
<1>14. TurnsOk'
  <2>1. \A q \in Slots : Ready(q)' => q # p /\ Ready(q) /\ (Even(q)' <=> Even(q))
    BY <1>4 DEF Ready, Even
  <2>2. \A q \in Slots : ~Ready(q)' => q = p \/ ~Ready(q)
    BY <1>4 DEF Ready
  <2>3. NCPU = 1 => \A q, s \in Slots :
         Ready(q)' /\ Even(q)' /\ ptable'[s].pid \in overtaken'[q] =>
           \/ q < s /\ (Visited(q)' => Visited(s)')
           \/ Visited(s)' /\ ~Visited(q)'
    BY <1>4, <2>1
  <2>4. /\ \A q \in Slots : ~Ready(q)' => overtaken'[q] = {}
        /\ \A q \in Slots : overtaken'[q] \subseteq 1..nextpid' - 1
    BY <1>2, <1>6, <2>2
  <2>q. QED BY <2>3, <2>4 DEF TurnsOk
<1>q. QED BY <1>5, <1>7, <1>8, <1>9, <1>10, <1>11, <1>12, <1>13, <1>14 DEF IInv

(* The process in slot x has its turn: who waits in front of x has been    *)
(* visited and who waits behind it has not.                                *)
LEMMA EvenDispatchInv ==
  ASSUME IInv, NEW c \in CPUs, EvenDispatch(c)
  PROVE  /\ IInv'
         /\ cpu[c].pos \in Slots /\ Even(cpu[c].pos)
         /\ \A d \in CPUs : cpu'[d].proc \in {cpu[d].proc, cpu[c].pos}
         /\ NCPU = 1 => \A q \in Slots \ {cpu[c].pos} :
              Ready(q) /\ Even(q) => ptable[cpu[c].pos].pid \notin overtaken[q]
<1> DEFINE x == cpu[c].pos
<1>1. /\ cpu \in [CPUs -> CpuRows] /\ lock = c /\ cpu[c].loop = "even" /\ x <= NPROC
      /\ Even(x) /\ Ready(x) /\ Dispatch(c, x)
  BY TypeRows DEF EvenDispatch, IInv, In
<1>t. x \in Slots
  BY <1>1 DEF CpuRows, Slots
<1>c. cpu' = [cpu EXCEPT ![c].proc = x] /\ lock' = NoCPU
  BY <1>1 DEF Dispatch
<1>5. ASSUME NCPU = 1, NEW s \in Slots
      PROVE  (Visited(s) <=> s < x) /\ (Visited(s)' <=> s <= x)
  <2>1. c = 0 /\ NoCPU # 0
    BY <1>5 DEF CPUs, NoCPU
  <2>2. lock = 0 /\ cpu[0].loop = "even" /\ cpu[0].pos = x
    BY <1>1, <2>1
  <2>3. lock' = NoCPU /\ cpu'[0].loop = "even" /\ cpu'[0].pos = x /\ cpu'[0].proc = x
    BY <1>1, <1>c, <2>1 DEF CpuRows
  <2>4. s \in Int /\ x # None
    BY <1>t, Constants DEF Slots
  <2>q. QED BY <1>t, <2>1, <2>2, <2>3, <2>4 DEF Visited
<1> HIDE DEF x
<1>i. \A q \in Slots : q \in Int
  BY DEF Slots
<1>6. ASSUME NCPU = 1, NEW q \in Slots, NEW s \in Slots, Ready(q), Even(q),
             ptable[s].pid \in overtaken[q]
      PROVE  \/ q < s /\ (q < x => s < x)
             \/ s < x /\ ~(q < x)
  BY <1>5, <1>6 DEF IInv, TurnsOk
<1>7. ASSUME NCPU = 1, NEW q \in Slots \ {x}, NEW s \in Slots, Ready(q), Even(q),
             ptable[s].pid \in overtaken'[q]
      PROVE  \/ q < s /\ (Visited(q)' => Visited(s)')
             \/ Visited(s)' /\ ~Visited(q)'
  <2>1. CASE ptable[s].pid \in overtaken[q]
    BY <1>5, <1>6, <1>7, <1>i, <1>t, <2>1
  <2>2. CASE ptable[s].pid \notin overtaken[q]
    <3>1. ptable[s].pid = ptable[x].pid
      BY <1>1, <1>7, <2>2 DEF Dispatch
    <3>2. s = x
      BY <1>1, <1>t, <3>1 DEF IInv, PidsOk, Ready
    <3>q. QED BY <1>5, <1>7, <1>i, <1>t, <3>2
  <2>q. QED BY <2>1, <2>2
<1>8. ASSUME NCPU = 1, NEW q \in Slots \ {x}, Ready(q), Even(q)
      PROVE  ptable[x].pid \notin overtaken[q]
  BY <1>6, <1>8, <1>i, <1>t
<1>9. IInv' /\ \A d \in CPUs \ {c} : cpu'[d].proc = cpu[d].proc
  <2>1. NCPU = 1 => \A q, s \in Slots :
          q # x /\ Ready(q) /\ Even(q) /\ ptable[s].pid \in overtaken'[q] =>
            \/ q < s /\ (Visited(q)' => Visited(s)')
            \/ Visited(s)' /\ ~Visited(q)'
    BY <1>7
  <2>2. cpu[c].pos <= NPROC
    BY <1>1 DEF x
  <2>q. QED BY <1>1, <1>t, <2>1, <2>2, DispatchInv
<1>10. cpu'[c].proc = x
  BY <1>1, <1>c DEF CpuRows
<1>q. QED BY <1>1, <1>t, <1>8, <1>9, <1>10 DEF x

(* The lowest odd pid gets the CPU when no even one is ready. *)
LEMMA OddDispatchInv ==
  ASSUME IInv, NEW c \in CPUs, OddDispatch(c)
  PROVE  /\ IInv'
         /\ cpu[c].best \in Slots /\ ~Even(cpu[c].best)
         /\ \A d \in CPUs : cpu'[d].proc \in {cpu[d].proc, cpu[c].best}
         /\ \A q \in Slots : Ready(q) =>
              ~Even(q) /\ ptable[cpu[c].best].pid <= ptable[q].pid
<1> DEFINE x == cpu[c].best
<1>1. /\ cpu \in [CPUs -> CpuRows] /\ lock = c /\ cpu[c].loop = "odd" /\ cpu[c].pos > NPROC
      /\ x # None /\ Dispatch(c, x)
  BY TypeRows DEF OddDispatch, IInv, In
<1>t. x \in Slots /\ cpu[c].pos \in Int
  BY <1>1 DEF CpuRows
<1>2. /\ Ready(x) /\ ~Even(x)
      /\ \A q \in Slots : q < cpu[c].pos /\ Ready(q) =>
           ~Even(q) /\ ptable[x].pid <= ptable[q].pid
  BY <1>1 DEF IInv, SearchOk
<1>3. \A q \in Slots : Ready(q) => ~Even(q) /\ ptable[x].pid <= ptable[q].pid
  BY <1>1, <1>2, <1>t DEF Slots
<1>c. cpu' = [cpu EXCEPT ![c].proc = x]
  BY <1>1 DEF Dispatch
<1>4. cpu'[c].proc = x
  BY <1>1, <1>c DEF CpuRows
<1> HIDE DEF x
<1>5. IInv' /\ \A d \in CPUs \ {c} : cpu'[d].proc = cpu[d].proc
  BY <1>1, <1>2, <1>3, <1>t, DispatchInv
<1>q. QED BY <1>2, <1>3, <1>4, <1>5, <1>t DEF x

-----------------------------------------------------------------------------
(* At boot the invariant holds. *)
LEMMA InitInv == Init => IInv
<1> SUFFICES ASSUME Init PROVE IInv
  OBVIOUS
<1> DEFINE first == [Unused EXCEPT !.state = "RUNNABLE", !.pid = 1]
<1>1. /\ ptable = [p \in Slots |-> IF p = initproc THEN first ELSE Unused]
      /\ nextpid = 2 /\ lock = NoCPU
      /\ cpu = [c \in CPUs |-> [proc |-> None, loop |-> "even", pos |-> 1, best |-> None]]
      /\ overtaken = [p \in Slots |-> {}] /\ panicked = FALSE
  BY DEF Init
<1>2. /\ 0 \in 0..MaxPid /\ 1 \in 0..MaxPid /\ 0 \in 0..IoChan /\ 1 \in 1..NPROC + 1
      /\ 2 \in 1..MaxPid + 1 /\ NoCPU \notin CPUs
  BY Constants DEF NoCPU, CPUs
<1>3. Unused \in Rows /\ first \in Rows
  BY <1>2 DEF Unused, Rows, States
<1>4. /\ first.state = "RUNNABLE" /\ first.pid = 1 /\ first.parent = None /\ first.pc = "user"
      /\ Unused.state = "UNUSED" /\ Unused.pid = 0 /\ Unused.parent = None /\ Unused.pc = "user"
  BY DEF Unused
<1> HIDE DEF first
<1>5. ptable \in [Slots -> Rows]
  BY <1>1, <1>3
<1>6. cpu \in [CPUs -> CpuRows] /\ \A c \in CPUs : cpu[c].proc = None
  BY <1>1, <1>2 DEF CpuRows
<1>7. overtaken \in [Slots -> SUBSET (0..MaxPid)] /\ \A p \in Slots : overtaken[p] = {}
  BY <1>1
<1>8. TypeOK
  BY <1>1, <1>2, <1>5, <1>6, <1>7, TypeRows
<1>9. /\ \A p \in Slots : /\ ptable[p].parent = None /\ ptable[p].pc = "user"
                          /\ ptable[p].state \in {"UNUSED", "RUNNABLE"}
      /\ \A p \in Slots \ {initproc} : ptable[p].state = "UNUSED" /\ ptable[p].pid = 0
      /\ ptable[initproc].state = "RUNNABLE" /\ ptable[initproc].pid = 1
  BY <1>1, <1>4, Constants
<1>10. PidsOk
  BY <1>1, <1>9 DEF PidsOk
<1>11. FamilyOk
  BY <1>9, Constants DEF FamilyOk
<1>12. ForkOk /\ WaitOk /\ NoLostExit
  BY <1>9 DEF ForkOk, WaitOk, NoLostExit
<1>13. RunningOk /\ SearchOk
  BY <1>1, <1>2, <1>6 DEF RunningOk, SearchOk
<1>14. TurnsOk
  BY <1>7 DEF TurnsOk
<1>q. QED BY <1>8, <1>10, <1>11, <1>12, <1>13, <1>14 DEF IInv

(* Every step but a dispatch keeps the invariant and puts nobody on a CPU. *)
LEMMA NextCases ==
  ASSUME IInv, [Next]_vars
  PROVE  \/ IInv' /\ \A d \in CPUs : cpu'[d].proc \in {cpu[d].proc, None}
         \/ \E c \in CPUs : EvenDispatch(c) \/ OddDispatch(c)
<1>t. TypeOK /\ TableOk
  BY DEF IInv, TableOk
<1>p. panicked \in BOOLEAN
  BY <1>t, Zenon DEF TypeOK
<1>1. ASSUME NEW c \in CPUs, NEW p \in Slots, Syscall(c, p) \/ Yield(c, p)
      PROVE  IInv' /\ \A d \in CPUs : cpu'[d].proc \in {cpu[d].proc, None}
  <2>1. lock = NoCPU /\ cpu[c].proc = p
    BY <1>1 DEF Syscall, Yield, Sleep, Allocproc, Fork, ForkFail, Exit, Wait, Kill, On
  <2>2. ptable[p].state = "RUNNING"
    BY <2>1, Constants DEF IInv, RunningOk
  <2>3. panicked' \in BOOLEAN
    BY <1>1, <1>p, Zenon DEF Syscall, Yield, Sleep, Allocproc, Fork, ForkFail, Exit, Wait, Kill
  <2>4. ProcessStep(c, p) /\ TableOk'
    BY <1>1, <1>t, <2>2, YieldStep, SleepStep, AllocprocStep, ForkStep, ForkFailStep, ExitStep,
       WaitStep, KillStep DEF Syscall
  <2>q. QED BY <2>1, <2>3, <2>4, ProcessInv
<1>2. ASSUME Wakeup
      PROVE  IInv' /\ \A d \in CPUs : cpu'[d].proc \in {cpu[d].proc, None}
  <2>1. 0 \in CPUs /\ initproc \in Slots
    BY Constants DEF CPUs
  <2>2. ProcessStep(0, initproc) /\ TableOk'
    BY <1>2, <1>t, <2>1, WakeupStep
  <2>3. lock = NoCPU /\ UNCHANGED <<lock, cpu, panicked>>
    BY <1>2 DEF Wakeup
  <2>4. panicked' \in BOOLEAN
    BY <1>p, <2>3, Zenon
  <2>q. QED BY <2>1, <2>2, <2>3, <2>4, ProcessInv
<1>3. ASSUME NEW c \in CPUs, Scheduler(c)
      PROVE  \/ IInv' /\ \A d \in CPUs : cpu'[d].proc \in {cpu[d].proc, None}
             \/ EvenDispatch(c) \/ OddDispatch(c)
  BY <1>3, SchedBeginInv, EvenNextInv, EvenEndInv, OddNextInv, OddEndInv DEF Scheduler
<1>4. ASSUME UNCHANGED vars
      PROVE  IInv' /\ \A d \in CPUs : cpu'[d].proc \in {cpu[d].proc, None}
  <2>1. TypeOK'
    BY <1>4, <1>t, Zenon DEF vars, TypeOK
  <2>2. PidsOk' /\ FamilyOk' /\ ForkOk' /\ WaitOk' /\ NoLostExit'
    BY <1>4 DEF vars, IInv, PidsOk, FamilyOk, ForkOk, WaitOk, NoLostExit
  <2>3. RunningOk' /\ SearchOk'
    BY <1>4 DEF vars, IInv, RunningOk, SearchOk, Ready, Even
  <2>4. TurnsOk'
    BY <1>4 DEF vars, IInv, TurnsOk, Ready, Even, Visited
  <2>q. QED BY <1>4, <2>1, <2>2, <2>3, <2>4 DEF vars, IInv
<1>q. QED BY <1>1, <1>2, <1>3, <1>4 DEF Next, Timer, Halt

(* The invariant holds in every reachable state. *)
THEOREM Invariance == Spec => []IInv
<1>1. IInv /\ [Next]_vars => IInv'
  BY NextCases, EvenDispatchInv, OddDispatchInv
<1>q. QED BY <1>1, InitInv, PTL DEF Spec

(* Who gets a CPU gets it in one of the two loops. *)
LEMMA Dispatcher ==
  ASSUME IInv, [Next]_vars, NEW p \in Slots, Dispatched(p)
  PROVE  \E c \in CPUs : \/ EvenDispatch(c) /\ p = cpu[c].pos
                         \/ OddDispatch(c) /\ p = cpu[c].best
<1>1. PICK d \in CPUs : cpu[d].proc = None /\ cpu'[d].proc = p
  BY DEF Dispatched
<1>2. PICK c \in CPUs : EvenDispatch(c) \/ OddDispatch(c)
  BY <1>1, NextCases, Constants
<1>q. QED BY <1>1, <1>2, EvenDispatchInv, OddDispatchInv, Constants

(* scheduler() keeps to the types. *)
THEOREM TypeCorrect == Spec => []TypeOK
<1>1. IInv => TypeOK
  BY DEF IInv
<1>q. QED BY <1>1, Invariance, PTL

(* exit() and wait() lose no child, with any number of processes and CPUs. *)
THEOREM NoExitLost == Spec => []NoLostExit
<1>1. IInv => NoLostExit
  BY DEF IInv
<1>q. QED BY <1>1, Invariance, PTL

(* An odd pid runs only when no even pid is ready and no lower odd one.  *)
THEOREM FirstComeFirstServed == Spec => EvenThenOldest
<1>1. ASSUME IInv, [Next]_vars
      PROVE  \A p \in Slots : Dispatched(p) /\ ~Even(p) =>
               \A q \in Slots : Ready(q) => ~Even(q) /\ ptable[p].pid <= ptable[q].pid
  BY <1>1, Dispatcher, EvenDispatchInv, OddDispatchInv
<1>q. QED BY <1>1, Invariance, PTL DEF Spec, EvenThenOldest

(* On one CPU no even pid has two turns while another one is ready. *)
THEOREM FairRound == Spec => RoundRobin
<1>1. ASSUME IInv, [Next]_vars
      PROVE  \A p \in Slots : NCPU = 1 /\ Dispatched(p) /\ Even(p) =>
               \A q \in Slots \ {p} : Ready(q) /\ Even(q) => ptable[p].pid \notin overtaken[q]
  BY <1>1, Dispatcher, EvenDispatchInv, OddDispatchInv
<1>q. QED BY <1>1, Invariance, PTL DEF Spec, RoundRobin
=============================================================================
