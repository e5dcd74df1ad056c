----------------------------- MODULE MlfqQueues -----------------------------
(***************************************************************************)
(* Proofs about the multilevel feedback queue, second part: the counters   *)
(* of the queues, and parents and children.                                *)
(***************************************************************************)
EXTENDS MlfqTypes

-----------------------------------------------------------------------------
(* The counters. *)
LEMMA QueuedFinite ==
  \A l : IsFiniteSet(Queued(l)) /\ Cardinality(Queued(l)) \in Nat
<1>1. IsFiniteSet(Procs)
  BY MlfqConstants, FS_Interval DEF MlfqConstants, Procs
<1>2. \A l : IsFiniteSet(Queued(l))
  BY <1>1, FS_Subset DEF Queued
<1>. QED BY <1>2, FS_CardinalityType

(* A step that neither adds to a queue nor removes from it. *)
LEMMA SameQueues ==
  ASSUME NumprocExact, numproc' = numproc,
         \A q \in Procs : state'[q] = "RUNNABLE" <=> state[q] = "RUNNABLE",
         \A q \in Procs : state[q] = "RUNNABLE" => level'[q] = level[q]
  PROVE  NumprocExact'
<1>1. \A l \in Levels : Queued(l)' = Queued(l)
  BY DEF Queued
<1>. QED BY <1>1 DEF NumprocExact, Queued

(* Enqueue() counts the processes it makes RUNNABLE. *)
LEMMA EnqueueExact ==
  ASSUME TypeOK, NumprocExact, NEW S \in SUBSET Procs,
         \A q \in S : state[q] # "RUNNABLE",
         level' = level, numproc' = Enqueue(S),
         \A q \in Procs : state'[q] = "RUNNABLE" <=> state[q] = "RUNNABLE" \/ q \in S
  PROVE  NumprocExact'
<1>. SUFFICES ASSUME NEW l \in Levels
              PROVE  numproc'[l] = Cardinality(Queued(l)')
  BY DEF NumprocExact, Queued
<1>. DEFINE N == {p \in S : level[p] = l}
<1>1. IsFiniteSet(N)
  <2>1. IsFiniteSet(Procs)
    BY MlfqConstants, FS_Interval DEF MlfqConstants, Procs
  <2>. QED BY <2>1, FS_Subset
<1>2. Queued(l)' = Queued(l) \union N /\ Queued(l) \intersect N = {}
  BY DEF Queued
<1>3. Cardinality(Queued(l) \union N) =
        Cardinality(Queued(l)) + Cardinality(N) - Cardinality(Queued(l) \intersect N)
  BY <1>1, QueuedFinite, FS_Union
<1>4. Cardinality({}) = 0
  BY FS_EmptySet
<1>5. Cardinality(Queued(l)') = Cardinality(Queued(l)) + Cardinality(N)
  <2>1. Cardinality(Queued(l)) \in Nat /\ Cardinality(N) \in Nat
    BY <1>1, QueuedFinite, FS_CardinalityType
  <2>2. Cardinality(Queued(l)') = Cardinality(Queued(l) \union N)
    BY <1>2, Zenon
  <2>3. Cardinality(Queued(l) \intersect N) = 0
    BY <1>2, <1>4, Zenon
  <2>. HIDE DEF N
  <2>. QED BY <1>3, <2>1, <2>2, <2>3
<1>6. numproc'[l] = numproc[l] + Cardinality(N)
  BY DEF Enqueue
<1>. QED BY <1>5, <1>6 DEF NumprocExact, Queued

(* Dispatching keeps numproc[] exact. *)
LEMMA DispatchExact ==
  ASSUME TypeOK, NumprocExact, NEW c \in CPUs, Dispatch(c)
  PROVE  NumprocExact'
<1>. DEFINE p == spos[c]
<1>1. p \in Procs /\ state[p] = "RUNNABLE" /\ level[p] \in Levels
  BY DEF Dispatch, TypeOK, Procs, Candidate
<1>2. state' = [state EXCEPT ![p] = "RUNNING"] /\ level' = level
      /\ numproc' = [numproc EXCEPT ![level[p]] = @ - 1]
  BY DEF Dispatch
<1>. HIDE DEF p
<1>. SUFFICES ASSUME NEW l \in Levels
              PROVE  numproc'[l] = Cardinality(Queued(l)')
  BY DEF NumprocExact, Queued
<1>3. CASE l = level[p]
  <2>1. Queued(l)' = Queued(l) \ {p} /\ p \in Queued(l)
    BY <1>1, <1>2, <1>3 DEF Queued, TypeOK
  <2>2. Cardinality(Queued(l) \ {p}) = Cardinality(Queued(l)) - 1
    BY <2>1, QueuedFinite, FS_RemoveElement
  <2>3. numproc'[l] = numproc[l] - 1
    BY <1>2, <1>3 DEF TypeOK
  <2>. QED BY <2>1, <2>2, <2>3 DEF NumprocExact, Queued
<1>4. CASE l # level[p]
  <2>1. Queued(l)' = Queued(l)
    BY <1>1, <1>2, <1>4 DEF Queued, TypeOK
  <2>2. numproc'[l] = numproc[l]
    BY <1>2, <1>4 DEF TypeOK
  <2>. QED BY <2>1, <2>2 DEF NumprocExact, Queued
<1>. QED BY <1>3, <1>4

(* The priority boost keeps numproc[] exact. *)
LEMMA BoostExact ==
  ASSUME TypeOK, NumprocExact, NEW c \in CPUs, Boost(c)
  PROVE  NumprocExact'
<1>. DEFINE below == {p \in Procs : state[p] = "RUNNABLE" /\ level[p] # 0}
<1>1. /\ state' = state
      /\ level' = [p \in Procs |-> IF state[p] # "UNUSED" THEN 0 ELSE level[p]]
      /\ numproc' = [l \in Levels |->
             IF l = 0 THEN numproc[0] + Cardinality(below)
             ELSE numproc[l] - Cardinality({p \in below : level[p] = l})]
  BY DEF Boost
<1>. SUFFICES ASSUME NEW l \in Levels
              PROVE  numproc'[l] = Cardinality(Queued(l)')
  BY DEF NumprocExact, Queued
<1>2. IsFiniteSet(below)
  <2>1. IsFiniteSet(Procs)
    BY MlfqConstants, FS_Interval DEF MlfqConstants, Procs
  <2>. QED BY <2>1, FS_Subset
<1>3. CASE l = 0
  <2>1. Queued(l)' = Queued(0) \union below /\ Queued(0) \intersect below = {}
    BY <1>1, <1>3 DEF Queued
  <2>2. Cardinality(Queued(0) \union below) = Cardinality(Queued(0))
           + Cardinality(below) - Cardinality(Queued(0) \intersect below)
    BY <1>2, QueuedFinite, FS_Union
  <2>3. Cardinality(below) \in Nat /\ Cardinality(Queued(0)) \in Nat
    BY <1>2, QueuedFinite, FS_CardinalityType
  <2>4. Cardinality({}) = 0
    BY FS_EmptySet
  <2>5. Cardinality(Queued(l)') = Cardinality(Queued(0)) + Cardinality(below)
    <3>1. Cardinality(Queued(l)') = Cardinality(Queued(0) \union below)
      BY <2>1, Zenon
    <3>2. Cardinality(Queued(0) \intersect below) = 0
      BY <2>1, <2>4, Zenon
    <3>. HIDE DEF below
    <3>. QED BY <2>2, <2>3, <3>1, <3>2
  <2>6. numproc'[l] = numproc[0] + Cardinality(below)
    BY <1>1, <1>3
  <2>7. numproc[0] = Cardinality(Queued(0))
    BY <1>3 DEF NumprocExact, Queued
  <2>. QED BY <2>5, <2>6, <2>7
<1>4. CASE l # 0
  <2>1. Queued(l)' = {}
    BY <1>1, <1>4 DEF Queued
  <2>2. {p \in below : level[p] = l} = Queued(l)
    BY <1>4 DEF Queued
  <2>3. numproc'[l] = numproc[l] - Cardinality(Queued(l))
    BY <1>1, <1>4, <2>2
  <2>4. numproc[l] = Cardinality(Queued(l))
    BY DEF NumprocExact, Queued
  <2>5. Cardinality(Queued(l)) \in Nat
    BY QueuedFinite
  <2>6. Cardinality({}) = 0
    BY FS_EmptySet
  <2>. QED BY <2>1, <2>3, <2>4, <2>5, <2>6
<1>. QED BY <1>3, <1>4

(* At boot numproc[] counts init. *)
LEMMA NumprocInit == Init => NumprocExact
<1>. SUFFICES ASSUME Init, NEW l \in Levels
              PROVE  numproc[l] = Cardinality(Queued(l))
  BY DEF NumprocExact, Queued
<1>1. CASE l = 0
  <2>1. Queued(l) = {initproc}
    BY <1>1, Constants DEF Init, Queued
  <2>. QED BY <1>1, <2>1, FS_Singleton DEF Init
<1>2. CASE l # 0
  <2>1. Queued(l) = {}
    BY <1>2 DEF Init, Queued
  <2>. QED BY <1>2, <2>1, FS_EmptySet DEF Init
<1>. QED BY <1>1, <1>2

(* exit() keeps numproc[] exact. *)
LEMMA ExitExact ==
  ASSUME TypeOK, CpuInv, NumprocExact, NEW c \in CPUs, NEW p \in Procs, cur[c] = p,
         ExitBody(c, p)
  PROVE  NumprocExact'
<1>1. CASE p = initproc
  BY <1>1, SameQueues DEF ExitBody, ExitWakes
<1>2. CASE p # initproc
  <2>. DEFINE kids == {q \in Procs : parent[q] = p}
              woken == Sleepers(parent[p]) \union
                       (IF \E q \in kids : state[q] = "ZOMBIE"
                        THEN Sleepers(initproc) ELSE {})
  <2>1. /\ state' = [Runnable(state, woken) EXCEPT ![p] = "ZOMBIE"]
        /\ level' = level /\ numproc' = Enqueue(woken)
    BY <1>2, Zenon DEF ExitBody, ExitWakes
  <2>2. woken \in SUBSET Procs /\ \A q \in woken : state[q] = "SLEEPING"
    BY DEF Sleepers
  <2>3. state[p] = "RUNNING"
    BY Constants DEF CpuInv, Placed
  <2>. HIDE DEF woken
  <2>4. \A q \in Procs :
          state'[q] = "RUNNABLE" <=> state[q] = "RUNNABLE" \/ q \in woken
    BY <2>1, <2>2, <2>3 DEF Runnable
  <2>. QED BY <2>1, <2>2, <2>4, EnqueueExact
<1>. QED BY <1>1, <1>2

(* sleep() keeps numproc[] exact. *)
LEMMA SleepExact ==
  ASSUME TypeOK, CpuInv, NumprocExact, NEW c \in CPUs, NEW p \in Procs, NEW ch,
         cur[c] = p, Sleep(c, p, ch)
  PROVE  NumprocExact'
<1>1. state[p] = "RUNNING"
  BY Constants DEF CpuInv, Placed
<1>2. \A q \in Procs : state'[q] = "RUNNABLE" <=> state[q] = "RUNNABLE"
  BY <1>1 DEF Sleep, TypeOK
<1>. QED BY <1>2, SameQueues DEF Sleep

(* wakeup() keeps numproc[] exact. *)
LEMMA WakeExact ==
  ASSUME TypeOK, NumprocExact, NEW S \in SUBSET Procs,
         \A q \in S : state[q] # "RUNNABLE",
         state' = Runnable(state, S), numproc' = Enqueue(S), level' = level
  PROVE  NumprocExact'
<1>1. \A q \in Procs : state'[q] = "RUNNABLE" <=> state[q] = "RUNNABLE" \/ q \in S
  BY DEF Runnable
<1>. QED BY <1>1, EnqueueExact

(* The step from one exact count to the next: only dispatching, boosting   *)
(* and making processes RUNNABLE touch the queues.                         *)
LEMMA NumprocStep ==
  ASSUME TypeOK, CpuInv, NumprocExact, [Next]_vars
  PROVE  NumprocExact'
<1>1. ASSUME NEW c \in CPUs, NEW p \in Procs, Yield(c, p) PROVE NumprocExact'
  <2>1. state[p] = "RUNNING"
    BY <1>1, OnRunning DEF Yield
  <2>2. {p} \in SUBSET Procs /\ \A q \in {p} : state[q] # "RUNNABLE"
    BY <2>1
  <2>. QED BY <1>1, <2>2, WakeExact DEF Yield
<1>2. ASSUME NEW c \in CPUs, NEW p \in Procs, Rst(c, p) PROVE NumprocExact'
  <2>1. state[p] = "RUNNING"
    BY <1>2, OnRunning DEF Rst
  <2>2. numproc' = numproc /\ state' = state
    BY <1>2, <2>1 DEF Rst
  <2>3. \A q \in Procs : q # p => level'[q] = level[q]
    BY <1>2 DEF Rst, TypeOK
  <2>. QED BY <2>1, <2>2, <2>3, SameQueues
<1>3. ASSUME NEW c \in CPUs, NEW p \in Procs, SysSleep(c, p) PROVE NumprocExact'
  BY <1>3, OnCPU, SleepExact DEF SysSleep
<1>4. ASSUME NEW c \in CPUs, NEW p \in Procs, SysSleepEnd(c, p) PROVE NumprocExact'
  BY <1>4, SameQueues DEF SysSleepEnd, queue
<1>5. ASSUME NEW c \in CPUs, NEW p \in Procs, SleepIo(c, p) PROVE NumprocExact'
  BY <1>5, OnCPU, SleepExact DEF SleepIo
<1>6. ASSUME NEW c \in CPUs, WakeupIo(c) PROVE NumprocExact'
  BY <1>6, WakeExact, Sleepers(IoChan) \in SUBSET Procs DEF WakeupIo, Sleepers
<1>7. ASSUME NEW c \in CPUs, NEW p \in Procs, Allocproc(c, p) PROVE NumprocExact'
  <2>1. PICK n \in Procs : /\ state[n] = "UNUSED"
                           /\ state' = [state EXCEPT ![n] = "EMBRYO"]
                           /\ level' = [level EXCEPT ![n] = 0]
    BY <1>7 DEF Allocproc
  <2>2. \A q \in Procs : state'[q] = "RUNNABLE" <=> state[q] = "RUNNABLE"
    BY <2>1 DEF TypeOK
  <2>3. \A q \in Procs : state[q] = "RUNNABLE" => level'[q] = level[q]
    BY <2>1 DEF TypeOK
  <2>. QED BY <1>7, <2>2, <2>3, SameQueues DEF Allocproc
<1>8. ASSUME NEW c \in CPUs, NEW p \in Procs, Fork(c, p) PROVE NumprocExact'
  <2>1. child[p] \in Procs /\ state[child[p]] = "EMBRYO"
    BY <1>8 DEF Fork, On, CpuInv, ForkHas
  <2>2. {child[p]} \in SUBSET Procs /\ \A q \in {child[p]} : state[q] # "RUNNABLE"
    BY <2>1
  <2>. QED BY <1>8, <2>2, WakeExact DEF Fork
<1>9. ASSUME NEW c \in CPUs, NEW p \in Procs, ForkFail(c, p) PROVE NumprocExact'
  <2>1. child[p] \in Procs /\ state[child[p]] = "EMBRYO"
    BY <1>9 DEF ForkFail, On, CpuInv, ForkHas
  <2>2. \A q \in Procs : state'[q] = "RUNNABLE" <=> state[q] = "RUNNABLE"
    BY <1>9, <2>1 DEF ForkFail, TypeOK
  <2>. QED BY <1>9, <2>2, SameQueues DEF ForkFail
<1>10. ASSUME NEW c \in CPUs, NEW p \in Procs, Exit(c, p) PROVE NumprocExact'
  BY <1>10, OnCPU, ExitExact DEF Exit
<1>11. ASSUME NEW c \in CPUs, NEW p \in Procs, Wait(c, p) PROVE NumprocExact'
  <2>. DEFINE kids    == {q \in Procs : parent[q] = p}
              zombies == {q \in kids : state[q] = "ZOMBIE"}
  <2>0. cur[c] = p
    BY <1>11, OnCPU DEF Wait
  <2>1. ASSUME NEW q \in zombies, state' = [state EXCEPT ![q] = "UNUSED"],
               UNCHANGED <<level, numproc>>
        PROVE  NumprocExact'
    <3>1. \A r \in Procs : state'[r] = "RUNNABLE" <=> state[r] = "RUNNABLE"
      BY <2>1 DEF TypeOK
    <3>. QED BY <2>1, <3>1, SameQueues
  <2>2. ASSUME UNCHANGED <<state, level, numproc>> PROVE NumprocExact'
    BY <2>2, SameQueues
  <2>3. ASSUME Sleep(c, p, p) PROVE NumprocExact'
    BY <2>0, <2>3, SleepExact
  <2>. QED BY <1>11, <2>1, <2>2, <2>3 DEF Wait
<1>12. ASSUME NEW c \in CPUs, NEW p \in Procs, NEW t \in Procs, Kill(c, p, t)
       PROVE  NumprocExact'
  <2>. DEFINE woken == {t} \intersect {q \in Procs : state[q] = "SLEEPING"}
  <2>. QED BY <1>12, WakeExact, woken \in SUBSET Procs DEF Kill
<1>13. ASSUME NEW c \in CPUs, NEW p \in Procs, NEW t \in Procs, NEW n \in Prios,
              SetPriority(c, p, t, n)
       PROVE  NumprocExact'
  BY <1>13, SameQueues DEF SetPriority, queue
<1>14. ASSUME NEW c \in CPUs, Tick(c) PROVE NumprocExact'
  <2>1. CASE c # 0 \/ cur[c] = NoProc
    <3>1. UNCHANGED queue
      BY <1>14, <2>1 DEF Tick, Degrade
    <3>. QED BY <3>1, SameQueues DEF queue
  <2>2. CASE c = 0 /\ cur[c] # NoProc
    <3>. DEFINE p == cur[c]
    <3>1. Degrade(p) /\ p \in Procs /\ state[p] = "RUNNING" /\ p # NoProc
      BY <1>14, <2>2 DEF Tick, TypeOK, CpuInv, Placed
    <3>. HIDE DEF p
    <3>2. UNCHANGED <<state, numproc>>
      BY <3>1 DEF Degrade, queue
    <3>3. \A q \in Procs : q # p => level'[q] = level[q]
      BY <3>1 DEF Degrade, queue, TypeOK
    <3>. QED BY <3>1, <3>2, <3>3, SameQueues
  <2>. QED BY <2>1, <2>2
<1>15. ASSUME NEW c \in CPUs, Boost(c) PROVE NumprocExact'
  BY <1>15, BoostExact
<1>16. ASSUME NEW c \in CPUs, WakeupTicks(c) PROVE NumprocExact'
  BY <1>16, WakeExact, Sleepers(TicksChan) \in SUBSET Procs DEF WakeupTicks, Sleepers
<1>17. ASSUME NEW c \in CPUs, TrapReturn(c) PROVE NumprocExact'
  <2>1. CASE cur[c] = NoProc /\ UNCHANGED queue
    BY <2>1, SameQueues DEF queue
  <2>2. CASE cur[c] # NoProc /\ ExitBody(c, cur[c])
    <3>1. cur[c] \in Procs
      BY <2>2 DEF TypeOK
    <3>. QED BY <2>2, <3>1, ExitExact
  <2>3. CASE /\ cur[c] # NoProc
             /\ state' = Runnable(state, {cur[c]}) /\ numproc' = Enqueue({cur[c]})
             /\ level' = level
    <3>1. cur[c] \in Procs /\ state[cur[c]] = "RUNNING"
      BY <2>3 DEF TypeOK, CpuInv, Placed
    <3>2. {cur[c]} \in SUBSET Procs /\ \A q \in {cur[c]} : state[q] # "RUNNABLE"
      BY <3>1
    <3>. QED BY <2>3, <3>2, WakeExact
  <2>. QED BY <1>17, <2>1, <2>2, <2>3 DEF TrapReturn
<1>18. ASSUME NEW c \in CPUs, SchedBegin(c) \/ Search(c) \/ SearchEnd(c)
       PROVE  NumprocExact'
  BY <1>18, SameQueues DEF SchedBegin, Search, SearchEnd, queue
<1>19. ASSUME NEW c \in CPUs, Dispatch(c) PROVE NumprocExact'
  BY <1>19, DispatchExact
<1>20. ASSUME UNCHANGED vars PROVE NumprocExact'
  BY <1>20, SameQueues DEF vars, queue
<1>. QED
  BY <1>1, <1>2, <1>3, <1>4, <1>5, <1>6, <1>7, <1>8, <1>9, <1>10, <1>11, <1>12,
     <1>13, <1>14, <1>15, <1>16, <1>17, <1>18, <1>19, <1>20
     DEF Next, Syscall, Timer, Scheduler, Halt

-----------------------------------------------------------------------------
(* exit() and wait(). *)

(* A step that makes no zombie, moves none, and puts nobody to sleep in    *)
(* wait().                                                                 *)
LEMMA SameZombies ==
  ASSUME FamilyInv, NoLostExit,
         \A q \in Procs : state'[q] = "ZOMBIE" => state[q] = "ZOMBIE" /\ parent'[q] = parent[q],
         \A q \in Procs : state'[q] = "SLEEPING" /\ chan'[q] = q
                            => state[q] = "SLEEPING" /\ chan[q] = q,
         state'[initproc] \notin {"UNUSED", "EMBRYO", "ZOMBIE"},
         \A q \in Procs : parent'[q] # parent[q] => parent'[q] # q /\ q # initproc
  PROVE  FamilyInv' /\ NoLostExit'
  BY Constants DEF FamilyInv, NoLostExit

(* exit() leaves no zombie behind a sleeping parent. *)
LEMMA ExitFamily ==
  ASSUME TypeOK, CpuInv, FamilyInv, NoLostExit, NEW c \in CPUs, NEW p \in Procs,
         cur[c] = p, ExitBody(c, p)
  PROVE  FamilyInv' /\ NoLostExit'
<1>1. CASE p = initproc
  <2>1. UNCHANGED <<state, parent, chan>>
    BY <1>1 DEF ExitBody, ExitWakes
  <2>. QED BY <2>1, SameZombies DEF FamilyInv
<1>2. CASE p # initproc
  <2>. DEFINE kids == {q \in Procs : parent[q] = p}
              woken == Sleepers(parent[p]) \union
                       (IF \E q \in kids : state[q] = "ZOMBIE"
                        THEN Sleepers(initproc) ELSE {})
  <2>1. /\ state' = [Runnable(state, woken) EXCEPT ![p] = "ZOMBIE"]
        /\ parent' = [q \in Procs |-> IF q \in kids THEN initproc ELSE parent[q]]
        /\ chan' = chan
    BY <1>2, Zenon DEF ExitBody, ExitWakes
  <2>2. woken \in SUBSET Procs /\ \A q \in woken : state[q] = "SLEEPING"
    BY DEF Sleepers
  <2>3. state[p] = "RUNNING"
    BY Constants DEF CpuInv, Placed
  <2>4. /\ state'[p] = "ZOMBIE"
        /\ \A q \in Procs : q # p =>
             state'[q] = IF q \in woken THEN "RUNNABLE" ELSE state[q]
    <3>. HIDE DEF woken
    <3>. QED BY <2>1, <2>2 DEF Runnable
  <2>5. FamilyInv'
    <3>1. initproc \notin kids /\ p \notin kids
      BY Constants DEF FamilyInv
    <3>2. state'[initproc] \notin {"UNUSED", "EMBRYO", "ZOMBIE"}
      BY <1>2, <2>4, Constants DEF FamilyInv
    <3>. QED BY <2>1, <3>1, <3>2, Constants DEF FamilyInv
  <2>6. ASSUME NEW a \in Procs, NEW b \in Procs,
               state'[a] = "SLEEPING", chan'[a] = a, parent'[b] = a,
               state'[b] = "ZOMBIE"
        PROVE  FALSE
    <3>1. a # p /\ a \notin woken /\ state[a] = "SLEEPING" /\ chan[a] = a
      BY <2>1, <2>4, <2>6
    <3>2. CASE b = p
      <4>1. parent[p] = a
        BY <2>1, <2>6, <3>2 DEF FamilyInv
      <4>. QED BY <3>1, <4>1 DEF Sleepers
    <3>3. CASE b # p
      <4>1. state[b] = "ZOMBIE"
        BY <2>4, <2>6, <3>3
      <4>2. CASE b \in kids
        <5>1. a = initproc
          BY <2>1, <2>6, <4>2
        <5>. QED BY <3>1, <4>1, <4>2, <5>1 DEF Sleepers
      <4>3. CASE b \notin kids
        <5>1. parent[b] = a
          BY <2>1, <2>6, <4>3
        <5>. QED BY <3>1, <4>1, <5>1 DEF NoLostExit
      <4>. QED BY <4>2, <4>3
    <3>. QED BY <3>2, <3>3
  <2>. QED BY <2>5, <2>6 DEF NoLostExit
<1>. QED BY <1>1, <1>2

(* Every step leaves no zombie behind a sleeping parent. *)
LEMMA FamilyStep ==
  ASSUME TypeOK, CpuInv, FamilyInv, NoLostExit, [Next]_vars
  PROVE  FamilyInv' /\ NoLostExit'
<1>. DEFINE Goal == FamilyInv /\ NoLostExit
<1>0. initproc \in Procs
  BY Constants
(* Waking, yielding and sleeping on something else than one's own slot. *)
<1>w. ASSUME NEW S \in SUBSET Procs, state' = Runnable(state, S),
             UNCHANGED <<parent, chan>>
      PROVE  Goal'
  <2>1. \A q \in Procs : state'[q] \in {"ZOMBIE", "SLEEPING", "UNUSED", "EMBRYO"}
                           => state[q] = state'[q]
    BY <1>w DEF Runnable
  <2>. QED BY <1>0, <1>w, <2>1, SameZombies DEF FamilyInv
<1>s. ASSUME NEW c \in CPUs, NEW p \in Procs, NEW ch, ch \notin Procs, Sleep(c, p, ch)
      PROVE  Goal'
  <2>1. /\ \A q \in Procs : q # p => state'[q] = state[q] /\ chan'[q] = chan[q]
        /\ state'[p] = "SLEEPING" /\ chan'[p] = ch /\ parent' = parent
    BY <1>s DEF Sleep, TypeOK
  <2>. QED BY <1>0, <1>s, <2>1, SameZombies DEF FamilyInv
<1>u. ASSUME UNCHANGED <<state, parent, chan>> PROVE Goal'
  BY <1>0, <1>u, SameZombies DEF FamilyInv
<1>1. ASSUME NEW c \in CPUs, NEW p \in Procs, Yield(c, p) PROVE Goal'
  BY <1>1, <1>w, {p} \in SUBSET Procs DEF Yield
<1>2. ASSUME NEW c \in CPUs, NEW p \in Procs, Rst(c, p) \/ SysSleepEnd(c, p) PROVE Goal'
  BY <1>2, <1>u DEF Rst, SysSleepEnd, queue
<1>3. ASSUME NEW c \in CPUs, NEW p \in Procs, SysSleep(c, p) PROVE Goal'
  BY <1>3, <1>s, Constants DEF SysSleep
<1>4. ASSUME NEW c \in CPUs, NEW p \in Procs, SleepIo(c, p) PROVE Goal'
  BY <1>4, <1>s, Constants DEF SleepIo
<1>5. ASSUME NEW c \in CPUs, WakeupIo(c) PROVE Goal'
  BY <1>5, <1>w, Sleepers(IoChan) \in SUBSET Procs DEF WakeupIo, Sleepers, ident
<1>6. ASSUME NEW c \in CPUs, NEW p \in Procs, Allocproc(c, p) PROVE Goal'
  <2>1. PICK n \in Procs : /\ state[n] = "UNUSED"
                           /\ state' = [state EXCEPT ![n] = "EMBRYO"]
    BY <1>6 DEF Allocproc
  <2>2. UNCHANGED <<parent, chan>>
    BY <1>6 DEF Allocproc
  <2>3. state'[n] = "EMBRYO" /\ \A q \in Procs : q # n => state'[q] = state[q]
    BY <2>1 DEF TypeOK
  <2>4. n # initproc
    BY <2>1 DEF FamilyInv
  <2>. QED BY <1>0, <2>2, <2>3, <2>4, SameZombies DEF FamilyInv
<1>7. ASSUME NEW c \in CPUs, NEW p \in Procs, Fork(c, p) PROVE Goal'
  <2>. DEFINE n == child[p]
  <2>1. n \in Procs /\ state[n] = "EMBRYO" /\ state[p] = "RUNNING"
    BY <1>7, OnRunning, OnCPU DEF Fork, On, CpuInv, ForkHas
  <2>2. /\ parent' = [parent EXCEPT ![n] = p] /\ chan' = chan
        /\ state' = Runnable(state, {n})
    BY <1>7 DEF Fork
  <2>. HIDE DEF n
  <2>3. state'[n] = "RUNNABLE" /\ \A q \in Procs : q # n => state'[q] = state[q]
    BY <2>1, <2>2 DEF Runnable
  <2>4. n # initproc /\ n # p
    BY <2>1 DEF FamilyInv
  <2>5. parent'[n] = p /\ \A q \in Procs : q # n => parent'[q] = parent[q]
    BY <2>1, <2>2 DEF TypeOK
  <2>. QED BY <1>0, <2>2, <2>3, <2>4, <2>5, SameZombies DEF FamilyInv
<1>8. ASSUME NEW c \in CPUs, NEW p \in Procs, ForkFail(c, p) PROVE Goal'
  <2>. DEFINE n == child[p]
  <2>1. n \in Procs /\ state[n] = "EMBRYO"
    BY <1>8 DEF ForkFail, On, CpuInv, ForkHas
  <2>2. state' = [state EXCEPT ![n] = "UNUSED"] /\ UNCHANGED <<parent, chan>>
    BY <1>8 DEF ForkFail
  <2>. HIDE DEF n
  <2>3. state'[n] = "UNUSED" /\ \A q \in Procs : q # n => state'[q] = state[q]
    BY <2>1, <2>2 DEF TypeOK
  <2>4. n # initproc
    BY <2>1 DEF FamilyInv
  <2>. QED BY <1>0, <2>2, <2>3, <2>4, SameZombies DEF FamilyInv
<1>9. ASSUME NEW c \in CPUs, NEW p \in Procs, Exit(c, p) PROVE Goal'
  BY <1>9, OnCPU, ExitFamily DEF Exit
<1>10. ASSUME NEW c \in CPUs, NEW p \in Procs, Wait(c, p) PROVE Goal'
  <2>. DEFINE kids    == {q \in Procs : parent[q] = p}
              zombies == {q \in kids : state[q] = "ZOMBIE"}
  <2>1. ASSUME NEW q \in zombies, state' = [state EXCEPT ![q] = "UNUSED"],
               parent' = [parent EXCEPT ![q] = NoProc], chan' = chan
        PROVE  Goal'
    <3>1. q \in Procs /\ state[q] = "ZOMBIE" /\ q # initproc
      BY DEF FamilyInv
    <3>2. /\ state'[q] = "UNUSED" /\ parent'[q] = NoProc
          /\ \A r \in Procs : r # q => state'[r] = state[r] /\ parent'[r] = parent[r]
      BY <2>1, <3>1 DEF TypeOK
    <3>. QED BY <1>0, <2>1, <3>1, <3>2, SameZombies, Constants DEF FamilyInv
  <2>2. ASSUME zombies = {}, Sleep(c, p, p) PROVE Goal'
    <3>1. /\ \A q \in Procs : q # p => state'[q] = state[q] /\ chan'[q] = chan[q]
          /\ state'[p] = "SLEEPING" /\ chan'[p] = p /\ parent' = parent
      BY <2>2 DEF Sleep, TypeOK
    <3>2. FamilyInv'
      BY <1>0, <3>1 DEF FamilyInv
    <3>3. NoLostExit'
      BY <2>2, <3>1 DEF NoLostExit
    <3>. QED BY <3>2, <3>3
  <2>. QED BY <1>10, <1>u, <2>1, <2>2 DEF Wait
<1>11. ASSUME NEW c \in CPUs, NEW p \in Procs, NEW t \in Procs, Kill(c, p, t)
       PROVE  Goal'
  <2>. DEFINE woken == {t} \intersect {q \in Procs : state[q] = "SLEEPING"}
  <2>. QED BY <1>11, <1>w, woken \in SUBSET Procs DEF Kill
<1>12. ASSUME NEW c \in CPUs, NEW p \in Procs, NEW t \in Procs, NEW n \in Prios,
              SetPriority(c, p, t, n)
       PROVE  Goal'
  BY <1>12, <1>u DEF SetPriority, queue, ident
<1>13. ASSUME NEW c \in CPUs, Tick(c) PROVE Goal'
  <2>1. state' = state
    <3>1. CASE c = 0
      <4>1. Degrade(cur[c]) /\ cur[c] \in Procs \union {NoProc}
        BY <1>13, <3>1 DEF Tick, TypeOK
      <4>. QED BY <4>1, DegradeType
    <3>2. CASE c # 0
      BY <1>13, <3>2 DEF Tick, queue
    <3>. QED BY <3>1, <3>2
  <2>. QED BY <1>13, <1>u, <2>1 DEF Tick, ident
<1>14. ASSUME NEW c \in CPUs, Boost(c) PROVE Goal'
  BY <1>14, <1>u DEF Boost, ident
<1>15. ASSUME NEW c \in CPUs, WakeupTicks(c) PROVE Goal'
  BY <1>15, <1>w, Sleepers(TicksChan) \in SUBSET Procs DEF WakeupTicks, Sleepers, ident
<1>16. ASSUME NEW c \in CPUs, TrapReturn(c) PROVE Goal'
  <2>1. CASE UNCHANGED <<queue, ident>>
    BY <1>u, <2>1 DEF queue, ident
  <2>2. CASE cur[c] # NoProc /\ ExitBody(c, cur[c])
    <3>1. cur[c] \in Procs
      BY <2>2 DEF TypeOK
    <3>. QED BY <2>2, <3>1, ExitFamily
  <2>3. CASE cur[c] # NoProc /\ state' = Runnable(state, {cur[c]}) /\ UNCHANGED ident
    <3>1. {cur[c]} \in SUBSET Procs
      BY <2>3 DEF TypeOK
    <3>. QED BY <1>w, <2>3, <3>1 DEF ident
  <2>. QED BY <1>16, <2>1, <2>2, <2>3 DEF TrapReturn
<1>17. ASSUME NEW c \in CPUs, SchedBegin(c) \/ Search(c) \/ SearchEnd(c) PROVE Goal'
  BY <1>17, <1>u DEF SchedBegin, Search, SearchEnd, queue, ident
<1>18. ASSUME NEW c \in CPUs, Dispatch(c) PROVE Goal'
  <2>. DEFINE p == spos[c]
  <2>1. p \in Procs /\ parent' = parent
    BY <1>18 DEF Dispatch, TypeOK, Procs
  <2>2. state' = [state EXCEPT ![p] = "RUNNING"] /\ chan' = [chan EXCEPT ![p] = NoChan]
    BY <1>18 DEF Dispatch
  <2>. HIDE DEF p
  <2>3. /\ state'[p] = "RUNNING"
        /\ \A q \in Procs : q # p => state'[q] = state[q] /\ chan'[q] = chan[q]
    BY <2>1, <2>2 DEF TypeOK
  <2>. QED BY <1>0, <2>1, <2>3, SameZombies DEF FamilyInv
<1>19. ASSUME UNCHANGED vars PROVE Goal'
  BY <1>19, <1>u DEF vars, queue, ident
<1>. QED
  BY <1>1, <1>2, <1>3, <1>4, <1>5, <1>6, <1>7, <1>8, <1>9, <1>10, <1>11, <1>12,
     <1>13, <1>14, <1>15, <1>16, <1>17, <1>18, <1>19
     DEF Next, Syscall, Timer, Scheduler, Halt

=============================================================================
