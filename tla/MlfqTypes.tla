----------------------------- MODULE MlfqTypes ------------------------------
(***************************************************************************)
(* Proofs about the multilevel feedback queue, first part: types, and what *)
(* the CPUs have to do with the states of the processes.                   *)
(***************************************************************************)
EXTENDS Mlfq, FiniteSetTheorems, TLAPS

(* A process on a CPU is RUNNING, and the search stands at it. *)
Placed == \A c \in CPUs : cur[c] # NoProc =>
  state[cur[c]] = "RUNNING" /\ spos[c] <= NPROC /\ slevel[c] < MLFQ_K

OneEach == \A c, d \in CPUs : cur[c] = cur[d] /\ cur[c] # NoProc => c = d

OnSome == \A p \in Procs : state[p] = "RUNNING" => \E c \in CPUs : cur[c] = p

(* Only a CPU without a process is in the scheduler. *)
LockIdle == lock # NoCPU => cur[lock] = NoProc /\ slevel[lock] < MLFQ_K

(* A process in fork() has an embryo of its own. *)
ForkHas == \A p \in Procs : pc[p] = "fork" =>
  child[p] \in Procs /\ state[child[p]] = "EMBRYO"

ForkOwn == \A p, q \in Procs :
  pc[p] = "fork" /\ pc[q] = "fork" /\ child[p] = child[q] => p = q

(* What the CPUs and the processes in fork() have to do with p->state. *)
CpuInv == Placed /\ OneEach /\ OnSome /\ LockIdle /\ ForkHas /\ ForkOwn

(* init never goes away, and nobody is its own parent. *)
FamilyInv ==
  /\ state[initproc] \notin {"UNUSED", "EMBRYO", "ZOMBIE"}
  /\ parent[initproc] = NoProc
  /\ \A p \in Procs : parent[p] # p

(* The RUNNABLE processes of a level. *)
Queued(l) == {p \in Procs : state[p] = "RUNNABLE" /\ level[p] = l}

-----------------------------------------------------------------------------
(* Waking processes keeps the types of p->state and numproc[]. *)
LEMMA RunnableType ==
  ASSUME TypeOK, NEW S \in SUBSET Procs
  PROVE  /\ Runnable(state, S) \in [Procs -> States]
         /\ Enqueue(S) \in [Levels -> Int]
<1>1. \A l \in Levels : Cardinality({p \in S : level[p] = l}) \in Nat
  <2>1. IsFiniteSet(Procs)
    BY MlfqConstants, FS_Interval DEF MlfqConstants, Procs
  <2>2. \A l \in Levels : IsFiniteSet({p \in S : level[p] = l})
    BY <2>1, FS_Subset
  <2>. QED BY <2>2, FS_CardinalityType
<1>2. \A l \in Levels : numproc[l] + Cardinality({p \in S : level[p] = l}) \in Int
  BY <1>1 DEF TypeOK
<1>3. Enqueue(S) \in [Levels -> Int]
  BY <1>2 DEF Enqueue
<1>4. \A p \in Procs : state[p] \in States
  BY DEF TypeOK
<1>. QED BY <1>3, <1>4 DEF Runnable, States

(* At boot the types hold. *)
LEMMA TypeInit == Init => TypeOK /\ CpuInv
  BY MlfqConstants DEF MlfqConstants, Init, TypeOK, CpuInv, Placed, OneEach, OnSome, LockIdle, ForkHas, ForkOwn, Procs, CPUs, Levels, States, PCs, Panics,
     NoProc, NoCPU, NoChan, IoChan, initproc

(* The markers are apart from the slots, CPUs and channels. *)
LEMMA Constants ==
  /\ initproc \in Procs /\ NoProc \notin Procs /\ NoCPU \notin CPUs
  /\ 0 \in Levels /\ 0 \in CPUs
  /\ NoChan \in 0..IoChan /\ TicksChan \in 0..IoChan /\ IoChan \in 0..IoChan
  /\ \A p \in Procs : p \in 0..IoChan
  /\ TicksChan \notin Procs /\ IoChan \notin Procs /\ NoChan \notin Procs
  BY MlfqConstants DEF MlfqConstants, Procs, CPUs, Levels, NoProc, NoCPU, NoChan,
     TicksChan, IoChan, initproc

(* The part of sched() that concerns the scheduler's own variables. *)
LEMMA SchedStep ==
  ASSUME TypeOK, CpuInv, NEW c \in CPUs, cur[c] # NoProc, Sched(c)
  PROVE  /\ lock' = c /\ cur' = [cur EXCEPT ![c] = NoProc]
         /\ cur' \in [CPUs -> Procs \union {NoProc}]
         /\ spos' \in [CPUs -> 1..NPROC + 1]
         /\ slevel' = slevel
<1>1. spos[c] \in 1..NPROC + 1 /\ spos[c] <= NPROC /\ c \in DOMAIN cur
  BY DEF TypeOK, CpuInv, Placed
<1>2. spos[c] + 1 \in 1..NPROC + 1
  BY <1>1, MlfqConstants DEF MlfqConstants
<1>3. spos' = [spos EXCEPT ![c] = spos[c] + 1] /\ spos \in [CPUs -> 1..NPROC + 1]
  BY DEF Sched, TypeOK
<1>. QED BY <1>1, <1>2, <1>3 DEF Sched, TypeOK

(* Who makes a system call is on its CPU. *)
LEMMA OnCPU ==
  ASSUME NEW c \in CPUs, NEW p \in Procs, NEW s, On(c, p, s)
  PROVE  cur[c] = p /\ cur[c] # NoProc /\ lock = NoCPU
  BY Constants DEF On

(* Who makes a system call is RUNNING. *)
LEMMA OnRunning ==
  ASSUME CpuInv, NEW c \in CPUs, NEW p \in Procs, NEW s, On(c, p, s)
  PROVE  state[p] = "RUNNING"
<1>1. cur[c] = p /\ cur[c] # NoProc
  BY OnCPU
<1>. QED BY <1>1 DEF CpuInv, Placed

(* Types after each of the compound updates. *)
LEMMA SleepType ==
  ASSUME TypeOK, CpuInv, NEW c \in CPUs, NEW p \in Procs, NEW ch \in 0..IoChan,
         cur[c] # NoProc, Sleep(c, p, ch), pc' \in [Procs -> PCs]
  PROVE  TypeOK'
<1>1. state' \in [Procs -> States] /\ chan' \in [Procs -> 0..IoChan]
  BY DEF Sleep, TypeOK, States
<1>2. /\ cur' \in [CPUs -> Procs \union {NoProc}] /\ spos' \in [CPUs -> 1..NPROC + 1]
      /\ lock' \in CPUs \union {NoCPU} /\ slevel' = slevel
  BY SchedStep DEF Sleep
<1>. QED BY <1>1, <1>2 DEF Sleep, TypeOK

(* exit() keeps the types. *)
LEMMA ExitType ==
  ASSUME TypeOK, CpuInv, NEW c \in CPUs, NEW p \in Procs, cur[c] # NoProc,
         ExitBody(c, p), trap' \in [CPUs -> {"none", "boost", "wakeup", "return"}]
  PROVE  TypeOK'
<1>1. CASE p = initproc
  <2>1. panicked' \in Panics
    BY <1>1 DEF ExitBody, ExitWakes, Panics
  <2>. QED BY <1>1, <2>1 DEF ExitBody, ExitWakes, TypeOK, sched
<1>2. CASE p # initproc
  <2>. DEFINE kids == {q \in Procs : parent[q] = p}
              woken == Sleepers(parent[p]) \union
                       (IF \E q \in kids : state[q] = "ZOMBIE"
                        THEN Sleepers(initproc) ELSE {})
  <2>1. woken \in SUBSET Procs
    BY DEF Sleepers
  <2>2. /\ state' = [Runnable(state, woken) EXCEPT ![p] = "ZOMBIE"]
        /\ numproc' = Enqueue(woken)
        /\ parent' = [q \in Procs |-> IF q \in kids THEN initproc ELSE parent[q]]
        /\ Sched(c)
        /\ UNCHANGED <<panicked, level, extime, priority, chan, killed, pc, child,
                       heads, ticks>>
    BY <1>2, Zenon DEF ExitBody, ExitWakes
  <2>3. Runnable(state, woken) \in [Procs -> States] /\ numproc' \in [Levels -> Int]
    BY <2>1, <2>2, RunnableType
  <2>4. state' \in [Procs -> States]
    BY <2>2, <2>3 DEF States
  <2>5. parent' \in [Procs -> Procs \union {NoProc}]
    BY <2>2, Constants DEF TypeOK
  <2>6. /\ cur' \in [CPUs -> Procs \union {NoProc}] /\ spos' \in [CPUs -> 1..NPROC + 1]
        /\ lock' \in CPUs \union {NoCPU} /\ slevel' = slevel
    BY <2>2, SchedStep
  <2>. QED BY <2>2, <2>3, <2>4, <2>5, <2>6 DEF TypeOK
<1>. QED BY <1>1, <1>2

(* degrade() keeps the types. *)
LEMMA DegradeType ==
  ASSUME TypeOK, NEW p \in Procs \union {NoProc}, Degrade(p)
  PROVE  /\ state' = state
         /\ level' \in [Procs -> Levels]
         /\ extime' \in [Procs -> Int]
         /\ numproc' \in [Levels -> Int]
         /\ heads' \in [Levels -> Procs \union {NoProc}]
         /\ panicked' \in Panics
<1>1. CASE p = NoProc
  BY <1>1 DEF Degrade, TypeOK, queue
<1>2. CASE p # NoProc
  <2>0. p \in Procs /\ level[p] \in Levels /\ extime[p] \in Int
    BY <1>2 DEF TypeOK
  <2>1. CASE heads[level[p]] # p
    <3>1. /\ extime' = [extime EXCEPT ![p] = @ + 1]
          /\ panicked' = "degrade"
          /\ UNCHANGED <<state, level, numproc, heads>>
      BY <1>2, <2>1 DEF Degrade, queue
    <3>2. panicked' \in Panics
      BY <3>1 DEF Panics
    <3>. QED BY <2>0, <3>1, <3>2 DEF TypeOK
  <2>2. CASE heads[level[p]] = p /\ ~Expired(p)
    BY <1>2, <2>0, <2>2 DEF Degrade, TypeOK, queue
  <2>3. CASE heads[level[p]] = p /\ Expired(p)
    <3>1. UNCHANGED <<state, panicked>> /\ heads' = [heads EXCEPT ![level[p]] = NoProc]
      BY <1>2, <2>3 DEF Degrade
    <3>2. CASE level[p] = MLFQ_K - 1
      BY <1>2, <2>0, <2>3, <3>1, <3>2 DEF Degrade, TypeOK
    <3>3. CASE level[p] # MLFQ_K - 1
      <4>1. level[p] + 1 \in Levels
        BY <2>0, <3>3, MlfqConstants DEF MlfqConstants, Levels
      <4>. QED BY <1>2, <2>0, <2>3, <3>1, <3>3, <4>1 DEF Degrade, TypeOK
    <3>. QED BY <3>2, <3>3
  <2>. QED BY <2>1, <2>2, <2>3
<1>. QED BY <1>1, <1>2

(* Every step keeps the types. *)
LEMMA TypeStep ==
  ASSUME TypeOK, CpuInv, [Next]_vars
  PROVE  TypeOK'
<1> USE MlfqConstants DEF MlfqConstants
<1>1. ASSUME NEW c \in CPUs, NEW p \in Procs, Yield(c, p) PROVE TypeOK'
  <2>1. cur[c] # NoProc
    BY <1>1, OnCPU DEF Yield
  <2>2. state' \in [Procs -> States] /\ numproc' \in [Levels -> Int]
    BY <1>1, RunnableType, {p} \in SUBSET Procs DEF Yield
  <2>3. /\ cur' \in [CPUs -> Procs \union {NoProc}] /\ spos' \in [CPUs -> 1..NPROC + 1]
        /\ lock' \in CPUs \union {NoCPU} /\ slevel' = slevel
    BY <1>1, <2>1, SchedStep DEF Yield
  <2>4. pc' \in [Procs -> PCs]
    BY <1>1 DEF Yield, TypeOK, PCs
  <2>. QED BY <1>1, <2>2, <2>3, <2>4 DEF Yield, TypeOK
<1>2. ASSUME NEW c \in CPUs, NEW p \in Procs, Rst(c, p) PROVE TypeOK'
  <2>1. numproc' \in [Levels -> Int]
    BY <1>2, Constants DEF Rst, TypeOK
  <2>2. level' \in [Procs -> Levels] /\ extime' \in [Procs -> Int]
    BY <1>2, Constants DEF Rst, TypeOK
  <2>3. pc' \in [Procs -> PCs]
    BY <1>2 DEF Rst, TypeOK, PCs
  <2>. QED BY <1>2, <2>1, <2>2, <2>3 DEF Rst, TypeOK, sched
<1>3. ASSUME NEW c \in CPUs, NEW p \in Procs, SysSleep(c, p) PROVE TypeOK'
  <2>1. pc' \in [Procs -> PCs] /\ Sleep(c, p, TicksChan) /\ cur[c] # NoProc
    BY <1>3, OnCPU DEF SysSleep, TypeOK
  <2>. QED BY <2>1, SleepType, Constants
<1>4. ASSUME NEW c \in CPUs, NEW p \in Procs, SysSleepEnd(c, p) PROVE TypeOK'
  BY <1>4 DEF SysSleepEnd, TypeOK, queue, sched, PCs
<1>5. ASSUME NEW c \in CPUs, NEW p \in Procs, SleepIo(c, p) PROVE TypeOK'
  <2>1. pc' \in [Procs -> PCs] /\ Sleep(c, p, IoChan) /\ cur[c] # NoProc
    BY <1>5, OnCPU DEF SleepIo, TypeOK
  <2>. QED BY <2>1, SleepType, Constants
<1>6. ASSUME NEW c \in CPUs, WakeupIo(c) PROVE TypeOK'
  <2>1. state' \in [Procs -> States] /\ numproc' \in [Levels -> Int]
    BY <1>6, RunnableType, Sleepers(IoChan) \in SUBSET Procs DEF WakeupIo, Sleepers
  <2>. QED BY <1>6, <2>1 DEF WakeupIo, TypeOK, ident, sched
<1>7. ASSUME NEW c \in CPUs, NEW p \in Procs, Allocproc(c, p) PROVE TypeOK'
  <2>1. PICK n \in Procs :
          /\ state' = [state EXCEPT ![n] = "EMBRYO"]
          /\ priority' = [priority EXCEPT ![n] = 0]
          /\ extime' = [extime EXCEPT ![n] = 0]
          /\ level' = [level EXCEPT ![n] = 0]
          /\ child' = [child EXCEPT ![p] = n]
    BY <1>7 DEF Allocproc
  <2>2. state' \in [Procs -> States] /\ child' \in [Procs -> Procs \union {NoProc}]
    BY <2>1 DEF TypeOK, States
  <2>3. /\ priority' \in [Procs -> 0..10] /\ extime' \in [Procs -> Int]
        /\ level' \in [Procs -> Levels]
    BY <2>1, Constants DEF TypeOK
  <2>4. pc' \in [Procs -> PCs]
    BY <1>7 DEF Allocproc, TypeOK, PCs
  <2>. QED BY <1>7, <2>2, <2>3, <2>4 DEF Allocproc, TypeOK, sched
<1>8. ASSUME NEW c \in CPUs, NEW p \in Procs, Fork(c, p) PROVE TypeOK'
  <2>1. child[p] \in Procs
    BY <1>8 DEF Fork, On, CpuInv, ForkHas
  <2>2. state' \in [Procs -> States] /\ numproc' \in [Levels -> Int]
    BY <1>8, <2>1, RunnableType, {child[p]} \in SUBSET Procs DEF Fork
  <2>3. /\ pc' \in [Procs -> PCs] /\ parent' \in [Procs -> Procs \union {NoProc}]
        /\ child' \in [Procs -> Procs \union {NoProc}]
    BY <1>8, <2>1 DEF Fork, TypeOK, PCs
  <2>. QED BY <1>8, <2>2, <2>3 DEF Fork, TypeOK, sched
<1>9. ASSUME NEW c \in CPUs, NEW p \in Procs, ForkFail(c, p) PROVE TypeOK'
  <2>1. state' \in [Procs -> States]
    BY <1>9 DEF ForkFail, TypeOK, States
  <2>2. pc' \in [Procs -> PCs] /\ child' \in [Procs -> Procs \union {NoProc}]
    BY <1>9 DEF ForkFail, TypeOK, PCs
  <2>. QED BY <1>9, <2>1, <2>2 DEF ForkFail, TypeOK, sched
<1>10. ASSUME NEW c \in CPUs, NEW p \in Procs, Exit(c, p) PROVE TypeOK'
  <2>1. cur[c] # NoProc /\ ExitBody(c, p) /\ trap' = trap
    BY <1>10, OnCPU DEF Exit
  <2>. QED BY <2>1, ExitType DEF TypeOK
<1>11. ASSUME NEW c \in CPUs, NEW p \in Procs, Wait(c, p) PROVE TypeOK'
  <2>. DEFINE kids    == {q \in Procs : parent[q] = p}
              zombies == {q \in kids : state[q] = "ZOMBIE"}
              same    == <<extime, priority, level, numproc, heads, trap, ticks,
                           panicked>>
  <2>0. cur[c] # NoProc
    BY <1>11, OnCPU DEF Wait
  <2>1. ASSUME NEW q \in zombies,
               state' = [state EXCEPT ![q] = "UNUSED"],
               parent' = [parent EXCEPT ![q] = NoProc],
               killed' = [killed EXCEPT ![q] = 0],
               pc' = [pc EXCEPT ![p] = "user"],
               UNCHANGED <<chan, child, sched, same>>
        PROVE  TypeOK'
    <3>1. state' \in [Procs -> States] /\ pc' \in [Procs -> PCs]
      BY <2>1 DEF TypeOK, States, PCs
    <3>2. /\ parent' \in [Procs -> Procs \union {NoProc}]
          /\ killed' \in [Procs -> {0, 1}]
      BY <2>1 DEF TypeOK
    <3>. QED BY <2>1, <3>1, <3>2 DEF TypeOK, sched
  <2>2. ASSUME pc' = [pc EXCEPT ![p] = "user"],
               UNCHANGED <<state, parent, chan, killed, child, sched, same>>
        PROVE  TypeOK'
    BY <2>2 DEF TypeOK, sched, PCs
  <2>3. ASSUME Sleep(c, p, p), pc' = [pc EXCEPT ![p] = "wait"] PROVE TypeOK'
    <3>1. pc' \in [Procs -> PCs]
      BY <2>3 DEF TypeOK, PCs
    <3>. QED BY <2>0, <2>3, <3>1, SleepType, Constants
  <2>. QED BY <1>11, <2>1, <2>2, <2>3 DEF Wait
<1>12. ASSUME NEW c \in CPUs, NEW p \in Procs, NEW t \in Procs, Kill(c, p, t)
       PROVE  TypeOK'
  <2>. DEFINE woken == {t} \intersect {q \in Procs : state[q] = "SLEEPING"}
  <2>1. state' \in [Procs -> States] /\ numproc' \in [Levels -> Int]
    BY <1>12, RunnableType, woken \in SUBSET Procs DEF Kill
  <2>2. killed' \in [Procs -> {0, 1}]
    BY <1>12 DEF Kill, TypeOK
  <2>. QED BY <1>12, <2>1, <2>2 DEF Kill, TypeOK, sched
<1>13. ASSUME NEW c \in CPUs, NEW p \in Procs, NEW t \in Procs, NEW n \in Prios,
              SetPriority(c, p, t, n)
       PROVE  TypeOK'
  <2>1. priority' \in [Procs -> 0..10]
    BY <1>13 DEF SetPriority, TypeOK
  <2>. QED BY <1>13, <2>1 DEF SetPriority, TypeOK, queue, ident, sched
<1>14. ASSUME NEW c \in CPUs, Tick(c) PROVE TypeOK'
  <2>1. trap' \in [CPUs -> {"none", "boost", "wakeup", "return"}]
    BY <1>14 DEF Tick, TypeOK
  <2>2. ticks' \in 0..BOOST-1
    BY <1>14 DEF Tick, TypeOK
  <2>3. /\ state' = state /\ level' \in [Procs -> Levels]
        /\ extime' \in [Procs -> Int] /\ numproc' \in [Levels -> Int]
        /\ heads' \in [Levels -> Procs \union {NoProc}] /\ panicked' \in Panics
    <3>1. CASE c = 0
      <4>1. Degrade(cur[c]) /\ cur[c] \in Procs \union {NoProc}
        BY <1>14, <3>1 DEF Tick, TypeOK
      <4>. QED BY <4>1, DegradeType
    <3>2. CASE c # 0
      BY <1>14, <3>2 DEF Tick, TypeOK, queue
    <3>. QED BY <3>1, <3>2
  <2>. QED BY <1>14, <2>1, <2>2, <2>3 DEF Tick, TypeOK, ident, sched
<1>15. ASSUME NEW c \in CPUs, Boost(c) PROVE TypeOK'
  <2>. DEFINE below == {p \in Procs : state[p] = "RUNNABLE" /\ level[p] # 0}
  <2>1. IsFiniteSet(below)
    <3>1. IsFiniteSet(Procs)
      BY FS_Interval DEF Procs
    <3>. QED BY <3>1, FS_Subset
  <2>2. \A l \in Levels : Cardinality({p \in below : level[p] = l}) \in Nat
    <3>1. \A l \in Levels : IsFiniteSet({p \in below : level[p] = l})
      BY <2>1, FS_Subset
    <3>. QED BY <3>1, FS_CardinalityType
  <2>3. Cardinality(below) \in Nat
    BY <2>1, FS_CardinalityType
  <2>4. numproc' \in [Levels -> Int]
    <3>1. numproc' = [l \in Levels |->
             IF l = 0 THEN numproc[0] + Cardinality(below)
             ELSE numproc[l] - Cardinality({p \in below : level[p] = l})]
      BY <1>15 DEF Boost
    <3>2. numproc \in [Levels -> Int]
      BY DEF TypeOK
    <3>. HIDE DEF below
    <3>. QED BY <2>2, <2>3, <3>1, <3>2
  <2>5. level' \in [Procs -> Levels] /\ extime' \in [Procs -> Int]
    BY <1>15, Constants DEF Boost, TypeOK
  <2>6. trap' \in [CPUs -> {"none", "boost", "wakeup", "return"}]
    BY <1>15 DEF Boost, TypeOK
  <2>. QED BY <1>15, <2>4, <2>5, <2>6 DEF Boost, TypeOK, ident, sched
<1>16. ASSUME NEW c \in CPUs, WakeupTicks(c) PROVE TypeOK'
  <2>1. state' \in [Procs -> States] /\ numproc' \in [Levels -> Int]
    BY <1>16, RunnableType, Sleepers(TicksChan) \in SUBSET Procs
       DEF WakeupTicks, Sleepers
  <2>2. trap' \in [CPUs -> {"none", "boost", "wakeup", "return"}]
    BY <1>16 DEF WakeupTicks, TypeOK
  <2>. QED BY <1>16, <2>1, <2>2 DEF WakeupTicks, TypeOK, ident, sched
<1>17. ASSUME NEW c \in CPUs, TrapReturn(c) PROVE TypeOK'
  <2>1. trap' \in [CPUs -> {"none", "boost", "wakeup", "return"}]
    BY <1>17 DEF TrapReturn, TypeOK
  <2>2. CASE cur[c] = NoProc /\ UNCHANGED <<queue, extime, priority, ident, heads,
                                            sched, ticks, panicked>>
    BY <2>1, <2>2 DEF TypeOK, queue, ident, sched
  <2>3. CASE cur[c] # NoProc /\ ExitBody(c, cur[c])
    <3>1. cur[c] \in Procs
      BY <2>3 DEF TypeOK
    <3>. QED BY <2>1, <2>3, <3>1, ExitType
  <2>4. CASE /\ cur[c] # NoProc
             /\ state' = Runnable(state, {cur[c]}) /\ numproc' = Enqueue({cur[c]})
             /\ Sched(c)
             /\ UNCHANGED <<level, extime, priority, ident, heads, ticks, panicked>>
    <3>1. cur[c] \in Procs
      BY <2>4 DEF TypeOK
    <3>2. state' \in [Procs -> States] /\ numproc' \in [Levels -> Int]
      BY <2>4, <3>1, RunnableType, {cur[c]} \in SUBSET Procs
    <3>3. /\ cur' \in [CPUs -> Procs \union {NoProc}] /\ spos' \in [CPUs -> 1..NPROC + 1]
          /\ lock' \in CPUs \union {NoCPU} /\ slevel' = slevel
      BY <2>4, SchedStep
    <3>. QED BY <2>1, <2>4, <3>2, <3>3 DEF TypeOK, ident
  <2>. QED BY <1>17, <2>2, <2>3, <2>4 DEF TrapReturn
<1>18. ASSUME NEW c \in CPUs, SchedBegin(c) PROVE TypeOK'
  BY <1>18 DEF SchedBegin, TypeOK, queue, ident
<1>19. ASSUME NEW c \in CPUs, Search(c) PROVE TypeOK'
  <2>1. /\ spos' = [spos EXCEPT ![c] = 1] \/ spos' = [spos EXCEPT ![c] = spos[c] + 1]
        /\ slevel' = slevel \/ slevel' = [slevel EXCEPT ![c] = 0]
    BY <1>19 DEF Search
  <2>2. spos[c] \in 1..NPROC + 1 /\ spos[c] <= NPROC
    BY <1>19 DEF Search, TypeOK
  <2>3. spos' \in [CPUs -> 1..NPROC + 1] /\ slevel' \in [CPUs -> 0..MLFQ_K]
    BY <2>1, <2>2 DEF TypeOK
  <2>. QED BY <1>19, <2>3 DEF Search, TypeOK, queue, ident
<1>20. ASSUME NEW c \in CPUs, Dispatch(c) PROVE TypeOK'
  <2>1. spos[c] \in Procs /\ level[spos[c]] \in Levels
    BY <1>20 DEF Dispatch, TypeOK, Procs
  <2>2. state' \in [Procs -> States] /\ numproc' \in [Levels -> Int]
    BY <1>20, <2>1 DEF Dispatch, TypeOK, States
  <2>3. /\ cur' \in [CPUs -> Procs \union {NoProc}]
        /\ heads' \in [Levels -> Procs \union {NoProc}]
    BY <1>20, <2>1 DEF Dispatch, TypeOK
  <2>4. chan' \in [Procs -> 0..IoChan]
    BY <1>20, Constants DEF Dispatch, TypeOK
  <2>. QED BY <1>20, <2>2, <2>3, <2>4 DEF Dispatch, TypeOK
<1>21. ASSUME NEW c \in CPUs, SearchEnd(c) PROVE TypeOK'
  <2>1. lock = c /\ slevel[c] \in 0..MLFQ_K /\ slevel[c] < MLFQ_K
    BY <1>21, Constants DEF SearchEnd, CpuInv, LockIdle, TypeOK
  <2>2. slevel' \in [CPUs -> 0..MLFQ_K] /\ lock' \in CPUs \union {NoCPU}
    BY <1>21, <2>1 DEF SearchEnd, TypeOK
  <2>3. spos' \in [CPUs -> 1..NPROC + 1]
    BY <1>21 DEF SearchEnd, TypeOK
  <2>. QED BY <1>21, <2>2, <2>3 DEF SearchEnd, TypeOK, queue, ident
<1>22. ASSUME UNCHANGED vars PROVE TypeOK'
  BY <1>22 DEF vars, queue, ident, sched, TypeOK
<1>. QED
  BY <1>1, <1>2, <1>3, <1>4, <1>5, <1>6, <1>7, <1>8, <1>9, <1>10, <1>11, <1>12,
     <1>13, <1>14, <1>15, <1>16, <1>17, <1>18, <1>19, <1>20, <1>21, <1>22
     DEF Next, Syscall, Timer, Scheduler, Halt

-----------------------------------------------------------------------------
(* Whoever leaves a CPU by sched() is not RUNNING any more; besides, a step *)
(* of that kind only wakes sleepers.                                       *)
LEMMA LeaveCPU ==
  ASSUME TypeOK, CpuInv, NEW c \in CPUs, NEW p \in Procs, cur[c] = p, Sched(c),
         state'[p] # "RUNNING", state'[p] # "EMBRYO",
         \A q \in Procs : q # p =>
            state'[q] = state[q] \/ (state[q] = "SLEEPING" /\ state'[q] = "RUNNABLE"),
         \A q \in Procs : pc'[q] = "fork" => pc[q] = "fork",
         child' = child
  PROVE  CpuInv'
<1>1. /\ lock' = c /\ cur' = [cur EXCEPT ![c] = NoProc] /\ slevel' = slevel
      /\ spos' = [spos EXCEPT ![c] = @ + 1] /\ cur[c] # NoProc
  BY Constants DEF Sched
<1>2. \A d \in CPUs : d # c => cur'[d] = cur[d] /\ spos'[d] = spos[d]
  BY <1>1 DEF TypeOK
<1>3. cur'[c] = NoProc
  BY <1>1 DEF TypeOK
<1>4. Placed'
  <2>1. \A d \in CPUs : cur[d] # NoProc => cur[d] \in Procs
    BY DEF TypeOK
  <2>. QED BY <1>1, <1>2, <1>3, <2>1 DEF CpuInv, Placed, OneEach
<1>5. OneEach'
  BY <1>2, <1>3 DEF CpuInv, OneEach
<1>6. OnSome'
  BY <1>2 DEF CpuInv, OnSome
<1>7. LockIdle'
  BY <1>1, <1>3 DEF CpuInv, Placed, LockIdle
<1>8. ForkHas' /\ ForkOwn'
  <2>1. state[p] = "RUNNING"
    BY <1>1 DEF CpuInv, Placed
  <2>2. ForkHas'
    BY <2>1 DEF CpuInv, ForkHas
  <2>. QED BY <2>2 DEF CpuInv, ForkOwn
<1>. QED BY <1>4, <1>5, <1>6, <1>7, <1>8 DEF CpuInv

(* A step that leaves the CPUs alone and only wakes sleepers. *)
LEMMA StayCPU ==
  ASSUME TypeOK, CpuInv, UNCHANGED <<cur, slevel, spos>>,
         \A q \in Procs :
            state'[q] = state[q] \/ (state[q] = "SLEEPING" /\ state'[q] = "RUNNABLE"),
         \A q \in Procs : pc'[q] = "fork" => pc[q] = "fork",
         UNCHANGED <<child, lock>>
  PROVE  CpuInv'
<1>1. \A d \in CPUs : cur[d] # NoProc => cur[d] \in Procs
  BY DEF TypeOK
<1>2. Placed'
  BY <1>1 DEF CpuInv, Placed
<1>3. OneEach' /\ LockIdle'
  BY DEF CpuInv, OneEach, LockIdle
<1>4. OnSome'
  BY DEF CpuInv, OnSome
<1>5. ForkHas'
  BY DEF CpuInv, ForkHas
<1>6. ForkOwn'
  BY DEF CpuInv, ForkOwn
<1>. QED BY <1>2, <1>3, <1>4, <1>5, <1>6 DEF CpuInv

(* wakeup1() only turns SLEEPING into RUNNABLE. *)
LEMMA WokenState ==
  ASSUME TypeOK, NEW S \in SUBSET Procs, \A q \in S : state[q] = "SLEEPING"
  PROVE  \A q \in Procs :
           \/ Runnable(state, S)[q] = state[q]
           \/ state[q] = "SLEEPING" /\ Runnable(state, S)[q] = "RUNNABLE"
  BY DEF Runnable

(* exit() gives the CPU back to scheduler(). *)
LEMMA ExitCPU ==
  ASSUME TypeOK, CpuInv, NEW c \in CPUs, NEW p \in Procs, cur[c] = p,
         ExitBody(c, p)
  PROVE  CpuInv'
<1>1. CASE p = initproc
  BY <1>1, StayCPU DEF ExitBody, ExitWakes, sched
<1>2. CASE p # initproc
  <2>. DEFINE kids == {q \in Procs : parent[q] = p}
              woken == Sleepers(parent[p]) \union
                       (IF \E q \in kids : state[q] = "ZOMBIE"
                        THEN Sleepers(initproc) ELSE {})
  <2>1. /\ state' = [Runnable(state, woken) EXCEPT ![p] = "ZOMBIE"]
        /\ Sched(c) /\ UNCHANGED <<pc, child>>
    BY <1>2, Zenon DEF ExitBody, ExitWakes
  <2>2. woken \in SUBSET Procs /\ \A q \in woken : state[q] = "SLEEPING"
    BY DEF Sleepers
  <2>3. \A q \in Procs :
          \/ Runnable(state, woken)[q] = state[q]
          \/ state[q] = "SLEEPING" /\ Runnable(state, woken)[q] = "RUNNABLE"
    BY <2>2, WokenState
  <2>4. Runnable(state, woken) \in [Procs -> States]
    BY <2>2, RunnableType
  <2>5. /\ state'[p] = "ZOMBIE"
        /\ \A q \in Procs : q # p => state'[q] = Runnable(state, woken)[q]
    BY <2>1, <2>4
  <2>. HIDE DEF woken
  <2>. QED BY <2>1, <2>3, <2>5, LeaveCPU
<1>. QED BY <1>1, <1>2

(* sleep() gives the CPU back to scheduler(). *)
LEMMA SleepCPU ==
  ASSUME TypeOK, CpuInv, NEW c \in CPUs, NEW p \in Procs, NEW ch, cur[c] = p,
         Sleep(c, p, ch), \A q \in Procs : pc'[q] = "fork" => pc[q] = "fork"
  PROVE  CpuInv'
<1>1. Sched(c) /\ child' = child /\ state'[p] = "SLEEPING"
  BY DEF Sleep, TypeOK
<1>2. \A q \in Procs : q # p => state'[q] = state[q]
  BY DEF Sleep, TypeOK
<1>. QED BY <1>1, <1>2, LeaveCPU

(* yield() gives the CPU back to scheduler(). *)
LEMMA YieldCPU ==
  ASSUME TypeOK, CpuInv, NEW c \in CPUs, NEW p \in Procs, cur[c] = p, Sched(c),
         state' = Runnable(state, {p}),
         \A q \in Procs : pc'[q] = "fork" => pc[q] = "fork", child' = child
  PROVE  CpuInv'
<1>1. state'[p] = "RUNNABLE" /\ \A q \in Procs : q # p => state'[q] = state[q]
  BY DEF Runnable
<1>. QED BY <1>1, LeaveCPU

(* Every step keeps CPUs, states and embryos in agreement. *)
LEMMA CpuStep ==
  ASSUME TypeOK, CpuInv, [Next]_vars
  PROVE  CpuInv'
<1> USE MlfqConstants DEF MlfqConstants
<1>1. ASSUME NEW c \in CPUs, NEW p \in Procs, Yield(c, p) PROVE CpuInv'
  <2>1. cur[c] = p
    BY <1>1, OnCPU DEF Yield
  <2>2. \A q \in Procs : pc'[q] = "fork" => pc[q] = "fork"
    BY <1>1 DEF Yield, TypeOK
  <2>. QED BY <1>1, <2>1, <2>2, YieldCPU DEF Yield
<1>2. ASSUME NEW c \in CPUs, NEW p \in Procs, Rst(c, p) PROVE CpuInv'
  <2>1. \A q \in Procs : pc'[q] = "fork" => pc[q] = "fork"
    BY <1>2 DEF Rst, TypeOK
  <2>. QED BY <1>2, <2>1, StayCPU DEF Rst, sched
<1>3. ASSUME NEW c \in CPUs, NEW p \in Procs, SysSleep(c, p) PROVE CpuInv'
  BY <1>3, OnCPU, SleepCPU DEF SysSleep
<1>4. ASSUME NEW c \in CPUs, NEW p \in Procs, SysSleepEnd(c, p) PROVE CpuInv'
  <2>1. \A q \in Procs : pc'[q] = "fork" => pc[q] = "fork"
    BY <1>4 DEF SysSleepEnd, TypeOK
  <2>. QED BY <1>4, <2>1, StayCPU DEF SysSleepEnd, sched, queue
<1>5. ASSUME NEW c \in CPUs, NEW p \in Procs, SleepIo(c, p) PROVE CpuInv'
  BY <1>5, OnCPU, SleepCPU DEF SleepIo
<1>6. ASSUME NEW c \in CPUs, WakeupIo(c) PROVE CpuInv'
  <2>1. \A q \in Procs :
          state'[q] = state[q] \/ (state[q] = "SLEEPING" /\ state'[q] = "RUNNABLE")
    BY <1>6, WokenState, Sleepers(IoChan) \in SUBSET Procs DEF WakeupIo, Sleepers
  <2>. QED BY <1>6, <2>1, StayCPU DEF WakeupIo, ident, sched
<1>7. ASSUME NEW c \in CPUs, NEW p \in Procs, Allocproc(c, p) PROVE CpuInv'
  <2>1. PICK n \in Procs : /\ state[n] = "UNUSED"
                           /\ state' = [state EXCEPT ![n] = "EMBRYO"]
                           /\ child' = [child EXCEPT ![p] = n]
    BY <1>7 DEF Allocproc
  <2>2. UNCHANGED <<cur, slevel, spos, lock>> /\ pc' = [pc EXCEPT ![p] = "fork"]
    BY <1>7 DEF Allocproc, sched
  <2>3. \A q \in Procs : q # n => state'[q] = state[q]
    BY <2>1 DEF TypeOK
  <2>4. state'[n] = "EMBRYO"
    BY <2>1 DEF TypeOK
  <2>5. \A d \in CPUs : cur[d] # NoProc => cur[d] \in Procs /\ cur[d] # n
    BY <2>1 DEF TypeOK, CpuInv, Placed
  <2>6. \A q \in Procs : pc'[q] = "fork" => q = p \/ pc[q] = "fork"
    BY <2>2 DEF TypeOK
  <2>7. child'[p] = n /\ \A q \in Procs : q # p => child'[q] = child[q]
    BY <2>1 DEF TypeOK
  <2>8. \A q \in Procs : pc[q] = "fork" => child[q] # n /\ child[q] \in Procs
    BY <2>1 DEF CpuInv, ForkHas
  <2>9. ForkHas'
    BY <2>3, <2>4, <2>6, <2>7, <2>8 DEF CpuInv, ForkHas
  <2>10. ForkOwn'
    BY <2>6, <2>7, <2>8 DEF CpuInv, ForkOwn
  <2>11. OnSome'
    BY <2>2, <2>3, <2>4 DEF CpuInv, OnSome
  <2>12. Placed'
    BY <2>2, <2>3, <2>5 DEF CpuInv, Placed
  <2>13. OneEach' /\ LockIdle'
    BY <2>2 DEF CpuInv, OneEach, LockIdle
  <2>. QED BY <2>9, <2>10, <2>11, <2>12, <2>13 DEF CpuInv
<1>8. ASSUME NEW c \in CPUs, NEW p \in Procs, Fork(c, p) PROVE CpuInv'
  <2>. DEFINE n == child[p]
  <2>1. n \in Procs /\ state[n] = "EMBRYO" /\ pc[p] = "fork"
    BY <1>8 DEF Fork, On, CpuInv, ForkHas
  <2>2. /\ UNCHANGED <<cur, slevel, spos, lock>>
        /\ pc' = [pc EXCEPT ![p] = "user", ![n] = "user"]
        /\ child' = [child EXCEPT ![p] = NoProc]
        /\ state' = Runnable(state, {n})
    BY <1>8 DEF Fork, sched
  <2>3. state'[n] = "RUNNABLE" /\ \A q \in Procs : q # n => state'[q] = state[q]
    BY <2>1, <2>2 DEF Runnable
  <2>4. \A d \in CPUs : cur[d] # NoProc => cur[d] \in Procs /\ cur[d] # n
    BY <2>1 DEF TypeOK, CpuInv, Placed
  <2>5. \A q \in Procs : pc'[q] = "fork" => q # p /\ pc[q] = "fork" /\ child'[q] = child[q]
    BY <2>1, <2>2 DEF TypeOK
  <2>6. \A q \in Procs : pc'[q] = "fork" => child[q] # n
    BY <2>1, <2>5 DEF CpuInv, ForkHas, ForkOwn
  <2>. HIDE DEF n
  <2>7. Placed'
    BY <2>2, <2>3, <2>4 DEF CpuInv, Placed
  <2>8. OnSome'
    BY <2>2, <2>3 DEF CpuInv, OnSome
  <2>9. ForkHas'
    BY <2>3, <2>5, <2>6 DEF CpuInv, ForkHas
  <2>10. ForkOwn'
    BY <2>5 DEF CpuInv, ForkOwn
  <2>11. OneEach' /\ LockIdle'
    BY <2>2 DEF CpuInv, OneEach, LockIdle
  <2>. QED BY <2>7, <2>8, <2>9, <2>10, <2>11 DEF CpuInv
<1>9. ASSUME NEW c \in CPUs, NEW p \in Procs, ForkFail(c, p) PROVE CpuInv'
  <2>. DEFINE n == child[p]
  <2>1. n \in Procs /\ state[n] = "EMBRYO" /\ pc[p] = "fork"
    BY <1>9 DEF ForkFail, On, CpuInv, ForkHas
  <2>2. /\ UNCHANGED <<cur, slevel, spos, lock>>
        /\ pc' = [pc EXCEPT ![p] = "user"]
        /\ child' = [child EXCEPT ![p] = NoProc]
        /\ state' = [state EXCEPT ![n] = "UNUSED"]
    BY <1>9 DEF ForkFail, sched
  <2>3. state'[n] = "UNUSED" /\ \A q \in Procs : q # n => state'[q] = state[q]
    BY <2>1, <2>2 DEF TypeOK
  <2>4. \A d \in CPUs : cur[d] # NoProc => cur[d] \in Procs /\ cur[d] # n
    BY <2>1 DEF TypeOK, CpuInv, Placed
  <2>5. \A q \in Procs : pc'[q] = "fork" => q # p /\ pc[q] = "fork" /\ child'[q] = child[q]
    BY <2>1, <2>2 DEF TypeOK
  <2>6. \A q \in Procs : pc'[q] = "fork" => child[q] # n
    BY <2>1, <2>5 DEF CpuInv, ForkHas, ForkOwn
  <2>. HIDE DEF n
  <2>7. Placed'
    BY <2>2, <2>3, <2>4 DEF CpuInv, Placed
  <2>8. OnSome'
    BY <2>2, <2>3 DEF CpuInv, OnSome
  <2>9. ForkHas'
    <3>1. ForkHas
      BY DEF CpuInv
    <3>2. ASSUME NEW q \in Procs, pc'[q] = "fork"
          PROVE  child'[q] \in Procs /\ state'[child'[q]] = "EMBRYO"
      <4>1. child'[q] = child[q] /\ child[q] \in Procs /\ state[child[q]] = "EMBRYO" /\ child[q] # n
        BY <2>5, <2>6, <3>1, <3>2 DEF ForkHas
      <4>. QED BY <2>3, <4>1
    <3>. QED BY <3>2 DEF ForkHas
  <2>10. ForkOwn'
    BY <2>5 DEF CpuInv, ForkOwn
  <2>11. OneEach' /\ LockIdle'
    BY <2>2 DEF CpuInv, OneEach, LockIdle
  <2>. QED BY <2>7, <2>8, <2>9, <2>10, <2>11 DEF CpuInv
<1>10. ASSUME NEW c \in CPUs, NEW p \in Procs, Exit(c, p) PROVE CpuInv'
  BY <1>10, OnCPU, ExitCPU DEF Exit
<1>11. ASSUME NEW c \in CPUs, NEW p \in Procs, Wait(c, p) PROVE CpuInv'
  <2>. DEFINE kids    == {q \in Procs : parent[q] = p}
              zombies == {q \in kids : state[q] = "ZOMBIE"}
  <2>0. cur[c] = p
    BY <1>11, OnCPU DEF Wait
  <2>1. ASSUME NEW q \in zombies,
               state' = [state EXCEPT ![q] = "UNUSED"],
               pc' = [pc EXCEPT ![p] = "user"], UNCHANGED <<child, sched>>
        PROVE  CpuInv'
    <3>1. q \in Procs /\ state[q] = "ZOMBIE" /\ state'[q] = "UNUSED"
      BY <2>1 DEF TypeOK
    <3>2. \A r \in Procs : r # q => state'[r] = state[r]
      BY <2>1 DEF TypeOK
    <3>3. \A d \in CPUs : cur[d] # NoProc => cur[d] \in Procs /\ cur[d] # q
      BY <3>1 DEF TypeOK, CpuInv, Placed
    <3>4. \A r \in Procs : pc'[r] = "fork" => pc[r] = "fork" /\ child[r] # q
      BY <2>1, <3>1 DEF TypeOK, CpuInv, ForkHas
    <3>5. Placed' /\ OneEach' /\ LockIdle'
      BY <2>1, <3>2, <3>3 DEF CpuInv, Placed, OneEach, LockIdle, sched
    <3>6. OnSome'
      BY <2>1, <3>1, <3>2 DEF CpuInv, OnSome, sched
    <3>7. ForkHas' /\ ForkOwn'
      BY <2>1, <3>2, <3>4 DEF CpuInv, ForkHas, ForkOwn
    <3>. QED BY <3>5, <3>6, <3>7 DEF CpuInv
  <2>2. ASSUME pc' = [pc EXCEPT ![p] = "user"], UNCHANGED <<state, child, sched>>
        PROVE  CpuInv'
    <3>1. \A q \in Procs : pc'[q] = "fork" => pc[q] = "fork"
      BY <2>2 DEF TypeOK
    <3>. QED BY <2>2, <3>1, StayCPU DEF sched
  <2>3. ASSUME Sleep(c, p, p), pc' = [pc EXCEPT ![p] = "wait"] PROVE CpuInv'
    <3>1. \A q \in Procs : pc'[q] = "fork" => pc[q] = "fork"
      BY <2>3 DEF TypeOK
    <3>. QED BY <2>0, <2>3, <3>1, SleepCPU
  <2>. QED BY <1>11, <2>1, <2>2, <2>3 DEF Wait
<1>12. ASSUME NEW c \in CPUs, NEW p \in Procs, NEW t \in Procs, Kill(c, p, t)
       PROVE  CpuInv'
  <2>. DEFINE woken == {t} \intersect {q \in Procs : state[q] = "SLEEPING"}
  <2>1. \A q \in Procs :
          state'[q] = state[q] \/ (state[q] = "SLEEPING" /\ state'[q] = "RUNNABLE")
    BY <1>12, WokenState, woken \in SUBSET Procs DEF Kill
  <2>. QED BY <1>12, <2>1, StayCPU DEF Kill, sched
<1>13. ASSUME NEW c \in CPUs, NEW p \in Procs, NEW t \in Procs, NEW n \in Prios,
              SetPriority(c, p, t, n)
       PROVE  CpuInv'
  BY <1>13, StayCPU DEF SetPriority, queue, ident, sched
<1>14. ASSUME NEW c \in CPUs, Tick(c) PROVE CpuInv'
  <2>1. state' = state
    <3>1. CASE c = 0
      <4>1. Degrade(cur[c]) /\ cur[c] \in Procs \union {NoProc}
        BY <1>14, <3>1 DEF Tick, TypeOK
      <4>. QED BY <4>1, DegradeType
    <3>2. CASE c # 0
      BY <1>14, <3>2 DEF Tick, queue
    <3>. QED BY <3>1, <3>2
  <2>. QED BY <1>14, <2>1, StayCPU DEF Tick, ident, sched
<1>15. ASSUME NEW c \in CPUs, Boost(c) PROVE CpuInv'
  BY <1>15, StayCPU DEF Boost, ident, sched
<1>16. ASSUME NEW c \in CPUs, WakeupTicks(c) PROVE CpuInv'
  <2>1. \A q \in Procs :
          state'[q] = state[q] \/ (state[q] = "SLEEPING" /\ state'[q] = "RUNNABLE")
    BY <1>16, WokenState, Sleepers(TicksChan) \in SUBSET Procs DEF WakeupTicks, Sleepers
  <2>. QED BY <1>16, <2>1, StayCPU DEF WakeupTicks, ident, sched
<1>17. ASSUME NEW c \in CPUs, TrapReturn(c) PROVE CpuInv'
  <2>1. CASE cur[c] = NoProc /\ UNCHANGED <<queue, ident, sched>>
    BY <2>1, StayCPU DEF queue, ident, sched
  <2>2. CASE cur[c] # NoProc /\ ExitBody(c, cur[c])
    <3>1. cur[c] \in Procs
      BY <2>2 DEF TypeOK
    <3>. QED BY <2>2, <3>1, ExitCPU
  <2>3. CASE /\ cur[c] # NoProc
             /\ state' = Runnable(state, {cur[c]})
             /\ Sched(c) /\ UNCHANGED ident
    <3>1. cur[c] \in Procs
      BY <2>3 DEF TypeOK
    <3>. QED BY <2>3, <3>1, YieldCPU DEF ident
  <2>. QED BY <1>17, <2>1, <2>2, <2>3 DEF TrapReturn
<1>18. ASSUME NEW c \in CPUs, SchedBegin(c) PROVE CpuInv'
  <2>1. /\ lock' = c /\ cur' = cur /\ cur[c] = NoProc
        /\ slevel' = [slevel EXCEPT ![c] = 0] /\ spos' = [spos EXCEPT ![c] = 1]
        /\ UNCHANGED <<state, pc, child>>
    BY <1>18 DEF SchedBegin, queue, ident
  <2>2. slevel'[c] = 0 /\ \A d \in CPUs : d # c => slevel'[d] = slevel[d] /\ spos'[d] = spos[d]
    BY <2>1 DEF TypeOK
  <2>3. Placed' /\ OneEach' /\ LockIdle'
    BY <2>1, <2>2 DEF CpuInv, Placed, OneEach, LockIdle
  <2>4. OnSome' /\ ForkHas' /\ ForkOwn'
    BY <2>1 DEF CpuInv, OnSome, ForkHas, ForkOwn
  <2>. QED BY <2>3, <2>4 DEF CpuInv
<1>19. ASSUME NEW c \in CPUs, Search(c) PROVE CpuInv'
  <2>1. /\ lock = c /\ UNCHANGED <<lock, cur, state, pc, child>> /\ cur[c] = NoProc
        /\ slevel' = slevel \/ slevel' = [slevel EXCEPT ![c] = 0]
    BY <1>19, Constants DEF Search, queue, ident, CpuInv, LockIdle
  <2>2. \A d \in CPUs : d # c => slevel'[d] = slevel[d] /\ spos'[d] = spos[d]
    BY <1>19, <2>1 DEF Search, TypeOK
  <2>3. slevel'[c] < MLFQ_K
    <3>1. c # NoCPU /\ 0 < MLFQ_K
      BY Constants DEF Levels
    <3>2. slevel[c] < MLFQ_K
      BY <2>1, <3>1 DEF CpuInv, LockIdle
    <3>3. slevel \in [CPUs -> Nat]
      BY DEF TypeOK
    <3>. QED BY <2>1, <3>1, <3>2, <3>3
  <2>4. Placed' /\ OneEach' /\ LockIdle'
    BY <2>1, <2>2, <2>3 DEF CpuInv, Placed, OneEach, LockIdle
  <2>5. OnSome' /\ ForkHas' /\ ForkOwn'
    BY <2>1 DEF CpuInv, OnSome, ForkHas, ForkOwn
  <2>. QED BY <2>4, <2>5 DEF CpuInv
<1>20. ASSUME NEW c \in CPUs, Dispatch(c) PROVE CpuInv'
  <2>. DEFINE p == spos[c]
  <2>1. p \in Procs /\ state[p] = "RUNNABLE" /\ lock = c
    BY <1>20 DEF Dispatch, TypeOK, Procs, Candidate
  <2>2. /\ lock' = NoCPU /\ cur' = [cur EXCEPT ![c] = p]
        /\ state' = [state EXCEPT ![p] = "RUNNING"]
        /\ UNCHANGED <<pc, child, slevel, spos>>
    BY <1>20 DEF Dispatch
  <2>3. cur[c] = NoProc /\ slevel[c] < MLFQ_K /\ spos[c] <= NPROC
    BY <1>20, <2>1, Constants DEF CpuInv, LockIdle, Dispatch
  <2>4. cur'[c] = p /\ \A d \in CPUs : d # c => cur'[d] = cur[d]
    BY <2>2 DEF TypeOK
  <2>5. state'[p] = "RUNNING" /\ \A q \in Procs : q # p => state'[q] = state[q]
    BY <2>1, <2>2 DEF TypeOK
  <2>6. \A d \in CPUs : cur[d] # NoProc => cur[d] \in Procs /\ cur[d] # p
    BY <2>1 DEF TypeOK, CpuInv, Placed
  <2>7. \A q \in Procs : pc[q] = "fork" => child[q] # p
    BY <2>1 DEF CpuInv, ForkHas
  <2>8. Placed'
    BY <2>2, <2>3, <2>4, <2>5, <2>6 DEF CpuInv, Placed
  <2>9. OneEach'
    BY <2>4, <2>6 DEF CpuInv, OneEach
  <2>10. OnSome'
    BY <2>3, <2>4, <2>5, Constants DEF CpuInv, OnSome
  <2>. HIDE DEF p
  <2>11. LockIdle'
    BY <2>2 DEF LockIdle
  <2>12. ForkHas'
    BY <2>2, <2>5, <2>7 DEF CpuInv, ForkHas
  <2>13. ForkOwn'
    BY <2>2 DEF CpuInv, ForkOwn
  <2>. QED BY <2>8, <2>9, <2>10, <2>11, <2>12, <2>13 DEF CpuInv
<1>21. ASSUME NEW c \in CPUs, SearchEnd(c) PROVE CpuInv'
  <2>1. lock = c /\ UNCHANGED <<cur, state, pc, child>> /\ cur[c] = NoProc
    BY <1>21, Constants DEF SearchEnd, queue, ident, CpuInv, LockIdle
  <2>2. \A d \in CPUs : d # c => slevel'[d] = slevel[d] /\ spos'[d] = spos[d]
    BY <1>21 DEF SearchEnd, TypeOK
  <2>3. lock' = NoCPU \/ (lock' = c /\ slevel'[c] < MLFQ_K)
    <3>1. slevel[c] \in 0..MLFQ_K /\ slevel[c] < MLFQ_K
      BY <2>1, Constants DEF TypeOK, CpuInv, LockIdle
    <3>. QED BY <1>21, <2>1, <3>1 DEF SearchEnd, TypeOK
  <2>4. Placed' /\ OneEach' /\ LockIdle'
    BY <2>1, <2>2, <2>3 DEF CpuInv, Placed, OneEach, LockIdle
  <2>5. OnSome' /\ ForkHas' /\ ForkOwn'
    BY <2>1 DEF CpuInv, OnSome, ForkHas, ForkOwn
  <2>. QED BY <2>4, <2>5 DEF CpuInv
<1>22. ASSUME UNCHANGED vars PROVE CpuInv'
  BY <1>22, StayCPU DEF vars, queue, ident, sched
<1>. QED
  BY <1>1, <1>2, <1>3, <1>4, <1>5, <1>6, <1>7, <1>8, <1>9, <1>10, <1>11, <1>12,
     <1>13, <1>14, <1>15, <1>16, <1>17, <1>18, <1>19, <1>20, <1>21, <1>22
     DEF Next, Syscall, Timer, Scheduler, Halt

=============================================================================
