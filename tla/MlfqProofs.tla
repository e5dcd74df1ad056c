----------------------------- MODULE MlfqProofs -----------------------------
(***************************************************************************)
(* Proofs about the multilevel feedback queue, last part: quanta, the      *)
(* choice of the scheduler, and the theorems.  They hold for every size of *)
(* the process table and every number of CPUs, levels and priorities.      *)
(***************************************************************************)
EXTENDS MlfqQueues

-----------------------------------------------------------------------------
(* The quantum. *)
LEMMA QuantumStep ==
  ASSUME TypeOK, CpuInv, WithinQuantum, [Next]_vars
  PROVE  WithinQuantum'
<1>0. \A l \in Levels : QT(l) \in Nat /\ 0 \in -1..QT(l) - 1
  BY MlfqConstants DEF MlfqConstants, Levels, QT
<1>u. ASSUME UNCHANGED <<extime, level>>,
             \A q \in Procs : state[q] = "UNUSED" => state'[q] = "UNUSED",
             panicked = "none"
      PROVE  WithinQuantum'
  BY <1>u DEF WithinQuantum
<1>w. ASSUME NEW S \in SUBSET Procs, \A q \in S : state[q] # "UNUSED",
             state' = Runnable(state, S), UNCHANGED <<extime, level>>,
             panicked = "none"
      PROVE  WithinQuantum'
  <2>1. \A q \in Procs : state[q] = "UNUSED" => state'[q] = "UNUSED"
    BY <1>w DEF Runnable
  <2>. QED BY <1>u, <1>w, <2>1
<1>s. ASSUME NEW c \in CPUs, NEW p \in Procs, NEW ch, Sleep(c, p, ch), cur[c] = p,
             panicked = "none"
      PROVE  WithinQuantum'
  <2>1. state[p] = "RUNNING"
    BY <1>s, Constants DEF CpuInv, Placed
  <2>2. \A q \in Procs : state[q] = "UNUSED" => state'[q] = "UNUSED"
    BY <1>s, <2>1 DEF Sleep, TypeOK
  <2>. QED BY <1>s, <1>u, <2>2 DEF Sleep
<1>x. ASSUME NEW c \in CPUs, NEW p \in Procs, ExitBody(c, p), cur[c] = p,
             panicked = "none"
      PROVE  WithinQuantum'
  <2>. DEFINE kids == {q \in Procs : parent[q] = p}
              woken == Sleepers(parent[p]) \union
                       (IF \E q \in kids : state[q] = "ZOMBIE"
                        THEN Sleepers(initproc) ELSE {})
  <2>1. CASE p = initproc
    BY <1>x, <1>u, <2>1 DEF ExitBody, ExitWakes
  <2>2. CASE p # initproc
    <3>1. /\ state' = [Runnable(state, woken) EXCEPT ![p] = "ZOMBIE"]
          /\ UNCHANGED <<extime, level>>
      BY <1>x, <2>2, Zenon DEF ExitBody, ExitWakes
    <3>2. \A q \in woken : state[q] = "SLEEPING"
      BY DEF Sleepers
    <3>3. state[p] = "RUNNING"
      BY <1>x, Constants DEF CpuInv, Placed
    <3>4. \A q \in Procs : state[q] = "UNUSED" => state'[q] = "UNUSED"
      <4>. HIDE DEF woken
      <4>. QED BY <3>1, <3>2, <3>3 DEF Runnable
    <3>. QED BY <1>u, <1>x, <3>1, <3>4
  <2>. QED BY <2>1, <2>2
<1>1. ASSUME NEW c \in CPUs, NEW p \in Procs, Yield(c, p) PROVE WithinQuantum'
  <2>1. state[p] = "RUNNING" /\ panicked = "none"
    BY <1>1, OnCPU DEF Yield, On, CpuInv, Placed
  <2>. QED BY <1>1, <1>w, <2>1, {p} \in SUBSET Procs DEF Yield
<1>2. ASSUME NEW c \in CPUs, NEW p \in Procs, Rst(c, p) PROVE WithinQuantum'
  <2>1. panicked = "none" /\ UNCHANGED <<state, panicked>>
    BY <1>2 DEF Rst, On
  <2>2. /\ extime'[p] = 0 /\ level'[p] = 0
        /\ \A q \in Procs : q # p => extime'[q] = extime[q] /\ level'[q] = level[q]
    BY <1>2 DEF Rst, TypeOK
  <2>. QED BY <1>0, <2>1, <2>2, Constants DEF WithinQuantum
<1>3. ASSUME NEW c \in CPUs, NEW p \in Procs, SysSleep(c, p) \/ SleepIo(c, p)
      PROVE  WithinQuantum'
  BY <1>3, <1>s, OnCPU DEF SysSleep, SleepIo, On
<1>4. ASSUME NEW c \in CPUs, NEW p \in Procs, SysSleepEnd(c, p) PROVE WithinQuantum'
  BY <1>4, <1>u DEF SysSleepEnd, queue, On
<1>5. ASSUME NEW c \in CPUs, WakeupIo(c) PROVE WithinQuantum'
  BY <1>5, <1>w, Sleepers(IoChan) \in SUBSET Procs DEF WakeupIo, Sleepers
<1>6. ASSUME NEW c \in CPUs, NEW p \in Procs, Allocproc(c, p) PROVE WithinQuantum'
  <2>1. PICK n \in Procs : /\ state' = [state EXCEPT ![n] = "EMBRYO"]
                           /\ extime' = [extime EXCEPT ![n] = 0]
                           /\ level' = [level EXCEPT ![n] = 0]
    BY <1>6 DEF Allocproc
  <2>2. panicked = "none" /\ UNCHANGED panicked
    BY <1>6 DEF Allocproc, On
  <2>3. /\ extime'[n] = 0 /\ level'[n] = 0
        /\ \A q \in Procs : q # n => extime'[q] = extime[q] /\ level'[q] = level[q]
                                     /\ state'[q] = state[q]
    BY <2>1 DEF TypeOK
  <2>. QED BY <1>0, <2>2, <2>3, Constants DEF WithinQuantum
<1>7. ASSUME NEW c \in CPUs, NEW p \in Procs, Fork(c, p) PROVE WithinQuantum'
  <2>1. child[p] \in Procs /\ state[child[p]] = "EMBRYO" /\ panicked = "none"
    BY <1>7 DEF Fork, On, CpuInv, ForkHas
  <2>2. {child[p]} \in SUBSET Procs /\ \A q \in {child[p]} : state[q] # "UNUSED"
    BY <2>1
  <2>. QED BY <1>7, <1>w, <2>1, <2>2 DEF Fork
<1>8. ASSUME NEW c \in CPUs, NEW p \in Procs, ForkFail(c, p) PROVE WithinQuantum'
  <2>1. panicked = "none" /\ \A q \in Procs : state[q] = "UNUSED" => state'[q] = "UNUSED"
    BY <1>8 DEF ForkFail, On, TypeOK
  <2>. QED BY <1>8, <1>u, <2>1 DEF ForkFail
<1>9. ASSUME NEW c \in CPUs, NEW p \in Procs, Exit(c, p) PROVE WithinQuantum'
  BY <1>9, <1>x, OnCPU DEF Exit, On
<1>10. ASSUME NEW c \in CPUs, NEW p \in Procs, Wait(c, p) PROVE WithinQuantum'
  <2>0. cur[c] = p /\ panicked = "none"
    BY <1>10, OnCPU DEF Wait, On
  <2>1. ASSUME NEW q \in Procs, state' = [state EXCEPT ![q] = "UNUSED"],
               UNCHANGED <<level, extime>>
        PROVE  WithinQuantum'
    <3>1. \A r \in Procs : state[r] = "UNUSED" => state'[r] = "UNUSED"
      BY <2>1 DEF TypeOK
    <3>. QED BY <1>u, <2>0, <2>1, <3>1
  <2>2. ASSUME UNCHANGED <<state, level, extime>> PROVE WithinQuantum'
    BY <1>u, <2>0, <2>2
  <2>3. ASSUME Sleep(c, p, p) PROVE WithinQuantum'
    BY <1>s, <2>0, <2>3
  <2>. QED BY <1>10, <2>1, <2>2, <2>3 DEF Wait
<1>11. ASSUME NEW c \in CPUs, NEW p \in Procs, NEW t \in Procs, Kill(c, p, t)
       PROVE  WithinQuantum'
  <2>. DEFINE woken == {t} \intersect {q \in Procs : state[q] = "SLEEPING"}
  <2>. QED BY <1>11, <1>w, woken \in SUBSET Procs DEF Kill, On
<1>12. ASSUME NEW c \in CPUs, NEW p \in Procs, NEW t \in Procs, NEW n \in Prios,
              SetPriority(c, p, t, n)
       PROVE  WithinQuantum'
  BY <1>12, <1>u DEF SetPriority, queue, On
<1>13. ASSUME NEW c \in CPUs, Tick(c) PROVE WithinQuantum'
  <2>0. panicked = "none"
    BY <1>13 DEF Tick
  <2>1. CASE c # 0 \/ cur[c] = NoProc
    <3>1. UNCHANGED <<queue, extime>>
      BY <1>13, <2>1 DEF Tick, Degrade
    <3>. QED BY <1>u, <2>0, <3>1 DEF queue
  <2>2. CASE c = 0 /\ cur[c] # NoProc
    <3>. DEFINE p == cur[c]
    <3>1. Degrade(p) /\ p \in Procs /\ state[p] = "RUNNING" /\ p # NoProc
      BY <1>13, <2>2 DEF Tick, TypeOK, CpuInv, Placed
    <3>. HIDE DEF p
    <3>2. extime[p] \in -1..QT(level[p]) - 1 /\ level[p] \in Levels
      BY <2>0, <3>1 DEF WithinQuantum, TypeOK
    <3>3. state' = state /\ \A q \in Procs : q # p =>
            extime'[q] = extime[q] /\ level'[q] = level[q]
      BY <3>1 DEF Degrade, queue, TypeOK
    <3>4. CASE heads[level[p]] # p
      <4>1. panicked' = "degrade"
        BY <3>1, <3>4 DEF Degrade
      <4>. QED BY <4>1 DEF WithinQuantum
    <3>5. CASE heads[level[p]] = p /\ ~Expired(p)
      <4>1. extime'[p] = extime[p] + 1 /\ level' = level
        BY <3>1, <3>5 DEF Degrade, TypeOK
      <4>2. extime'[p] \in -1..QT(level'[p]) - 1
        BY <1>0, <3>2, <3>5, <4>1 DEF Expired
      <4>. QED BY <2>0, <3>3, <4>2 DEF WithinQuantum
    <3>6. CASE heads[level[p]] = p /\ Expired(p)
      <4>1. extime'[p] \in {-1, 0} /\ level'[p] \in Levels
        <5>1. CASE level[p] = MLFQ_K - 1
          BY <3>1, <3>2, <3>6, <5>1 DEF Degrade, TypeOK
        <5>2. CASE level[p] # MLFQ_K - 1
          <6>1. level[p] + 1 \in Levels
            BY <3>2, <5>2, MlfqConstants DEF MlfqConstants, Levels
          <6>. QED BY <3>1, <3>2, <3>6, <5>2, <6>1 DEF Degrade, TypeOK
        <5>. QED BY <5>1, <5>2
      <4>2. extime'[p] \in -1..QT(level'[p]) - 1
        BY <1>0, <4>1
      <4>. QED BY <2>0, <3>3, <4>2 DEF WithinQuantum
    <3>. QED BY <3>4, <3>5, <3>6
  <2>. QED BY <2>1, <2>2
<1>14. ASSUME NEW c \in CPUs, Boost(c) PROVE WithinQuantum'
  <2>1. UNCHANGED <<state, panicked>> /\ \A q \in Procs : state[q] # "UNUSED" =>
          extime'[q] = 0 /\ level'[q] = 0
    BY <1>14 DEF Boost
  <2>. QED BY <1>0, <2>1, Constants DEF WithinQuantum
<1>15. ASSUME NEW c \in CPUs, WakeupTicks(c) PROVE WithinQuantum'
  BY <1>15, <1>w, Sleepers(TicksChan) \in SUBSET Procs DEF WakeupTicks, Sleepers
<1>16. ASSUME NEW c \in CPUs, TrapReturn(c) PROVE WithinQuantum'
  <2>0. panicked = "none"
    BY <1>16 DEF TrapReturn
  <2>1. CASE UNCHANGED <<queue, extime>>
    BY <1>u, <2>0, <2>1 DEF queue
  <2>2. CASE cur[c] # NoProc /\ ExitBody(c, cur[c])
    <3>1. cur[c] \in Procs
      BY <2>2 DEF TypeOK
    <3>. QED BY <1>x, <2>0, <2>2, <3>1
  <2>3. CASE /\ cur[c] # NoProc /\ state' = Runnable(state, {cur[c]})
             /\ UNCHANGED <<level, extime>>
    <3>1. {cur[c]} \in SUBSET Procs /\ state[cur[c]] = "RUNNING"
      BY <2>3 DEF TypeOK, CpuInv, Placed
    <3>. QED BY <1>w, <2>0, <2>3, <3>1
  <2>. QED BY <1>16, <2>1, <2>2, <2>3 DEF TrapReturn
<1>17. ASSUME NEW c \in CPUs, SchedBegin(c) \/ Search(c) \/ SearchEnd(c)
       PROVE  WithinQuantum'
  BY <1>17, <1>u DEF SchedBegin, Search, SearchEnd, queue
<1>18. ASSUME NEW c \in CPUs, Dispatch(c) PROVE WithinQuantum'
  <2>1. /\ spos[c] \in Procs /\ state[spos[c]] = "RUNNABLE" /\ panicked = "none"
        /\ state' = [state EXCEPT ![spos[c]] = "RUNNING"] /\ UNCHANGED <<level, extime>>
    BY <1>18 DEF Dispatch, TypeOK, Procs, Candidate
  <2>2. \A q \in Procs : state[q] = "UNUSED" => state'[q] = "UNUSED"
    BY <2>1 DEF TypeOK
  <2>. QED BY <1>u, <2>1, <2>2
<1>19. ASSUME UNCHANGED vars PROVE WithinQuantum'
  BY <1>19 DEF vars, queue, WithinQuantum
<1>. QED
  BY <1>1, <1>2, <1>3, <1>4, <1>5, <1>6, <1>7, <1>8, <1>9, <1>10, <1>11, <1>12,
     <1>13, <1>14, <1>15, <1>16, <1>17, <1>18, <1>19
     DEF Next, Syscall, Timer, Scheduler, Halt

-----------------------------------------------------------------------------
(* The scheduler's choice. *)
BestStep ==
  \A c \in CPUs :
    cur[c] = NoProc /\ cur'[c] # NoProc =>
      LET p == cur'[c] IN
      \A q \in Procs : state[q] = "RUNNABLE" =>
        \/ level[q] > level[p]
        \/ level[q] = level[p] /\ priority[q] <= priority[p]

(* scheduler() gives the CPU to the best process. *)
LEMMA DispatchBest ==
  ASSUME TypeOK, NumprocExact, NEW c \in CPUs, Dispatch(c),
         NEW q \in Procs, state[q] = "RUNNABLE"
  PROVE  \/ level[q] > level[spos[c]]
         \/ level[q] = level[spos[c]] /\ priority[q] <= priority[spos[c]]
<1>. DEFINE p == spos[c]
<1>1. /\ p \in Procs /\ state[p] = "RUNNABLE" /\ level[p] = slevel[c]
      /\ level[p] \in Levels /\ level[q] \in Levels
      /\ ~Preempted(c) /\ Better(c, p) = {}
  <2>1. p \in Procs
    BY DEF Dispatch, TypeOK, Procs
  <2>2. ~Preempted(c) /\ Candidate(c, p) /\ Better(c, p) = {}
    BY DEF Dispatch
  <2>3. \A r \in Procs : level[r] \in Levels
    BY DEF TypeOK
  <2>. QED BY <2>1, <2>2, <2>3 DEF Candidate
<1>2. \A l \in Levels : Cardinality(Queued(l)) \in Nat /\ IsFiniteSet(Queued(l))
                        /\ numproc[l] = Cardinality(Queued(l))
  BY QueuedFinite DEF NumprocExact, Queued
<1>3. ~(level[q] < level[p])
  <2>. SUFFICES ASSUME level[q] < level[p] PROVE FALSE
    OBVIOUS
  <2>1. q \in Queued(level[q])
    BY DEF Queued
  <2>2. Queued(level[q]) # {}
    BY <2>1
  <2>3. Cardinality(Queued(level[q])) # 0
    BY <1>1, <1>2, <2>2, FS_EmptySet
  <2>4. numproc[level[q]] > 0
    BY <1>1, <1>2, <2>3
  <2>5. level[q] \in 0..slevel[c] - 1
    BY <1>1 DEF Levels
  <2>. QED BY <1>1, <2>4, <2>5 DEF Preempted
<1>4. ASSUME level[q] = level[p] PROVE priority[q] <= priority[p]
  <2>0. priority[q] \in Int /\ priority[p] \in Int
    BY <1>1 DEF TypeOK
  <2>1. CASE numproc[slevel[c]] > 1
    BY <1>1, <1>4, <2>0, <2>1 DEF Better, Candidate
  <2>2. CASE ~(numproc[slevel[c]] > 1)
    <3>1. p \in Queued(level[p]) /\ q \in Queued(level[p])
      BY <1>1, <1>4 DEF Queued
    <3>2. Cardinality(Queued(level[p])) <= 1
      BY <1>1, <1>2, <2>2
    <3>3. p = q
      <4>. SUFFICES ASSUME p # q PROVE FALSE
        OBVIOUS
      <4>1. {p, q} \subseteq Queued(level[p])
        BY <3>1
      <4>2. Cardinality({p, q}) <= Cardinality(Queued(level[p]))
        BY <1>1, <1>2, <4>1, FS_Subset
      <4>3. Cardinality({p, q}) = 2
        <5>1. IsFiniteSet({q}) /\ Cardinality({q}) = 1
          BY FS_Singleton
        <5>2. p \notin {q}
          OBVIOUS
        <5>3. Cardinality({q} \union {p}) = Cardinality({q}) + 1
          BY <5>1, <5>2, FS_AddElement
        <5>4. {q} \union {p} = {p, q}
          OBVIOUS
        <5>. QED BY <5>1, <5>3, <5>4
      <4>. QED BY <1>1, <1>2, <3>2, <4>2, <4>3
    <3>. QED BY <2>0, <3>3
  <2>. QED BY <2>1, <2>2
<1>. QED BY <1>1, <1>3, <1>4 DEF Levels

(* Every step that gives a CPU away gives it to the best process. *)
LEMMA BestNext ==
  ASSUME TypeOK, NumprocExact, [Next]_vars
  PROVE  BestStep
<1>1. ASSUME NEW c \in CPUs, Dispatch(c) PROVE BestStep
  <2>1. cur' = [cur EXCEPT ![c] = spos[c]]
    BY <1>1 DEF Dispatch
  <2>2. cur'[c] = spos[c] /\ \A d \in CPUs : d # c => cur'[d] = cur[d]
    BY <2>1 DEF TypeOK
  <2>. QED BY <1>1, <2>2, DispatchBest DEF BestStep
<1>s. ASSUME NEW c \in CPUs, Sched(c) PROVE BestStep
  <2>1. \A d \in CPUs : cur'[d] = cur[d] \/ cur'[d] = NoProc
    BY <1>s DEF Sched, TypeOK
  <2>. QED BY <2>1 DEF BestStep
<1>u. ASSUME cur' = cur PROVE BestStep
  BY <1>u DEF BestStep
<1>2. ASSUME NEW c \in CPUs, NEW p \in Procs, Syscall(c, p) PROVE BestStep
  <2>1. ASSUME Exit(c, p) PROVE BestStep
    BY <1>s, <1>u, <2>1 DEF Exit, ExitBody, ExitWakes, sched
  <2>2. ASSUME Wait(c, p) PROVE BestStep
    BY <1>s, <1>u, <2>2 DEF Wait, Sleep, sched
  <2>3. ASSUME Yield(c, p) \/ SysSleep(c, p) \/ SleepIo(c, p) PROVE BestStep
    BY <1>s, <2>3 DEF Yield, SysSleep, SleepIo, Sleep
  <2>4. ASSUME \/ Rst(c, p) \/ SysSleepEnd(c, p) \/ Allocproc(c, p) \/ Fork(c, p)
               \/ ForkFail(c, p)
               \/ \E t \in Procs : Kill(c, p, t) \/ \E n \in Prios : SetPriority(c, p, t, n)
        PROVE BestStep
    BY <1>u, <2>4 DEF Rst, SysSleepEnd, Allocproc, Fork, ForkFail, Kill,
       SetPriority, sched
  <2>. QED BY <1>2, <2>1, <2>2, <2>3, <2>4 DEF Syscall
<1>3. ASSUME NEW c \in CPUs, TrapReturn(c) PROVE BestStep
  BY <1>3, <1>s, <1>u DEF TrapReturn, ExitBody, ExitWakes, sched
<1>4. ASSUME NEW c \in CPUs,
             \/ WakeupIo(c) \/ Tick(c) \/ Boost(c) \/ WakeupTicks(c)
             \/ SchedBegin(c) \/ Search(c) \/ SearchEnd(c)
      PROVE  BestStep
  BY <1>4, <1>u DEF WakeupIo, Tick, Boost, WakeupTicks, SchedBegin, Search,
     SearchEnd, sched
<1>5. ASSUME UNCHANGED vars PROVE BestStep
  BY <1>5, <1>u DEF vars, sched
<1>. QED BY <1>1, <1>2, <1>3, <1>4, <1>5 DEF Next, Timer, Scheduler, Halt

-----------------------------------------------------------------------------
IInv == TypeOK /\ CpuInv /\ NumprocExact /\ FamilyInv /\ NoLostExit /\ WithinQuantum

(* At boot the invariant holds. *)
LEMMA InvInit == Init => IInv
<1>. SUFFICES ASSUME Init PROVE IInv
  OBVIOUS
<1>1. FamilyInv /\ NoLostExit
  BY Constants DEF Init, FamilyInv, NoLostExit
<1>2. WithinQuantum
  BY DEF Init, WithinQuantum, QT
<1>. QED BY <1>1, <1>2, TypeInit, NumprocInit DEF IInv

(* The inductive invariant of the multilevel feedback queue. *)
THEOREM MlfqInvariant == Spec => []IInv
<1>1. Init => IInv
  BY InvInit
<1>2. IInv /\ [Next]_vars => IInv'
  BY TypeStep, CpuStep, NumprocStep, FamilyStep, QuantumStep DEF IInv
<1>. QED BY <1>1, <1>2, PTL DEF Spec

(* Type correctness. *)
THEOREM MlfqTypeCorrect == Spec => []TypeOK
<1>1. IInv => TypeOK
  BY DEF IInv
<1>. QED BY <1>1, MlfqInvariant, PTL

(* numproc[] counts the RUNNABLE processes of each level, whatever system  *)
(* calls, ticks, boosts and wakeups happen on however many CPUs.           *)
THEOREM MlfqCountersExact == Spec => []NumprocExact
<1>1. IInv => NumprocExact
  BY DEF IInv
<1>. QED BY <1>1, MlfqInvariant, PTL

(* A process runs on at most one CPU, and is RUNNING exactly then. *)
THEOREM MlfqOneCPUEach == Spec => []OneCPUEach
<1>1. IInv => OneCPUEach
  BY Constants DEF IInv, CpuInv, Placed, OneEach, OnSome, OneCPUEach
<1>. QED BY <1>1, MlfqInvariant, PTL

(* No parent sleeps in wait() beside a zombie of its own. *)
THEOREM MlfqNoLostExit == Spec => []NoLostExit
<1>1. IInv => NoLostExit
  BY DEF IInv
<1>. QED BY <1>1, MlfqInvariant, PTL

(* No process stays in a queue beyond its quantum. *)
THEOREM MlfqWithinQuantum == Spec => []WithinQuantum
<1>1. IInv => WithinQuantum
  BY DEF IInv
<1>. QED BY <1>1, MlfqInvariant, PTL

(* scheduler() dispatches a process of highest priority in the first       *)
(* non-empty queue; the proof rests on the exactness of numproc[].         *)
THEOREM MlfqDispatchesBest == Spec => DispatchesBest
<1>1. IInv /\ [Next]_vars => [BestStep]_vars
  BY BestNext DEF IInv
<1>2. DispatchesBest <=> [][BestStep]_vars
  BY PTL DEF DispatchesBest, BestStep
<1>. QED BY <1>1, <1>2, MlfqInvariant, PTL DEF Spec
=============================================================================
