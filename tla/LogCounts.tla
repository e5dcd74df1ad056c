----------------------------- MODULE LogCounts ------------------------------
(***************************************************************************)
(* Proofs about the log, first part: types, the bookkeeping of operations  *)
(* and commits, and the room that begin_op() reserves.                     *)
(***************************************************************************)
EXTENDS Log, FiniteSetTheorems, SequenceTheorems, TLAPS

Active     == {p \in Procs : pc[p] \in OpStates}
Committers == {p \in Procs : pc[p] \in CommitStates}

(* The bookkeeping in memory agrees with what the processes are doing. *)
CountInv ==
  /\ outstanding = Cardinality(Active)
  /\ committing = 1 <=> Committers # {}
  /\ \A p \in Committers : Committers = {p} /\ Active = {}
  /\ \A p \in Procs : blk[p] # NoBlock <=> pc[p] = "log_write"
  /\ \A p \in Procs : p \notin Active => used[p] = {}
  /\ boot # "up" => \A p \in Procs : pc[p] = "idle"
  /\ boot = "up" /\ Active = {} /\ Committers = {} => lh = <<>>
  /\ panicked = "none"

(* One token for each block that an operation in progress may still add to *)
(* the log.                                                                *)
Tokens == {t \in Active \X (1..OpBlocks) : t[2] > Cardinality(used[t[1]])}

(* The most blocks the log can come to hold. *)
Room == IF OpBlocks > LOGSIZE - 2 * (MAXOPBLOCKS - OpBlocks)
        THEN OpBlocks ELSE LOGSIZE - 2 * (MAXOPBLOCKS - OpBlocks)

(* What is logged and what is reserved fit the log together. *)
ReserveInv ==
  /\ Len(lh) + Cardinality(Tokens) <= Room
  /\ Len(head) <= Room
  /\ \A p \in Active : used[p] \subseteq Range(lh)
  /\ \A p \in Procs : IsFiniteSet(used[p]) /\ Cardinality(used[p]) <= OpBlocks
  /\ \A p \in Procs : pc[p] = "log_write" =>
        Cardinality(used[p] \union {blk[p]}) <= OpBlocks

Injective(s) == \A i, j \in DOMAIN s : s[i] = s[j] => i = j

(* Log slots below n hold the cached contents of their blocks. *)
Logged(n)    == \A i \in DOMAIN lh : i < n => dlog[i] = cache[lh[i]]
Installed(n) == \A i \in DOMAIN lh : i < n => home[lh[i]] = dlog[i]

(* How far the disk is, at each point of commit() and of recovery. *)
DataInv ==
  /\ Injective(lh) /\ Injective(head)
  /\ boot = "up" => \A b \in Blocks :
       b \notin Range(lh) /\ (\A p \in Procs : blk[p] # b) => cache[b] = home[b]
  /\ boot = "up" /\ (\A p \in Procs : pc[p] \notin {"install", "clear"})
       => head = <<>>
  /\ \A p \in Procs :
       /\ pc[p] = "write_log"  => tail \in DOMAIN lh /\ Logged(tail)
       /\ pc[p] = "write_head" => tail = 1 /\ lh # <<>> /\ Logged(Len(lh) + 1)
       /\ pc[p] = "install"    => /\ tail \in DOMAIN lh /\ head = lh
                                  /\ Logged(Len(lh) + 1) /\ Installed(tail)
       /\ pc[p] = "clear"      => /\ head = lh /\ Logged(Len(lh) + 1)
                                  /\ Installed(Len(lh) + 1)
       /\ pc[p] = "end_commit" => lh = <<>>
  /\ boot # "up" => cache = home
  /\ boot = "read_head" => lh = <<>> /\ tail = 1
  /\ boot = "install"   => head = lh /\ tail \in DOMAIN lh /\ Installed(tail)
  /\ boot = "clear"     => head = lh /\ Installed(Len(lh) + 1)

IInv == TypeOK /\ CountInv /\ ReserveInv /\ DataInv

-----------------------------------------------------------------------------
(* Bookkeeping of program counters: wakeup() only turns sleepers into      *)
(* retries, so it moves nobody into or out of an operation or a commit.    *)
LEMMA WakeupPC ==
  ASSUME NEW f \in [Procs -> PCs]
  PROVE  /\ Wakeup(f) \in [Procs -> PCs]
         /\ \A p \in Procs : f[p] \in OpStates \union CommitStates \union {"idle"}
                               => Wakeup(f)[p] = f[p]
         /\ \A p \in Procs : \A s \in OpStates \union CommitStates :
               Wakeup(f)[p] = s => f[p] = s
  BY DEF Wakeup, PCs, OpStates, CommitStates

USE DEF At

(* The log never outgrows its array. *)
LEMMA LogBound ==
  ASSUME TypeOK, ReserveInv, LogRoom
  PROVE  /\ Len(lh) < LOGSIZE /\ Len(lh) < NLOG - 1
         /\ IsFiniteSet(Active) /\ IsFiniteSet(Tokens)
         /\ Cardinality(Tokens) \in Nat
<1> USE LogConstants DEF LogConstants
<1>1. IsFiniteSet(Active)
  BY FS_Subset DEF Active
<1>2. IsFiniteSet(Active \X (1..OpBlocks))
  <2>1. IsFiniteSet(1..OpBlocks)
    BY FS_Interval
  <2>. QED BY <1>1, <2>1, FS_Product
<1>3. IsFiniteSet(Tokens)
  BY <1>2, FS_Subset DEF Tokens
<1>4. Cardinality(Tokens) \in Nat
  BY <1>3, FS_CardinalityType
<1>5. Len(lh) \in Nat
  BY DEF TypeOK
<1>. QED BY <1>1, <1>3, <1>4, <1>5 DEF ReserveInv, Room, LogRoom

(* Type correctness of Log. *)
LEMMA TypeInit == Init => TypeOK
  BY LogConstants DEF LogConstants, Init, TypeOK, PCs, Panics, Slots

(* Every step of the log keeps the types. *)
LEMMA TypeStep ==
  ASSUME TypeOK, CountInv, ReserveInv, DataInv, LogRoom, [Next]_vars
  PROVE  TypeOK'
<1> USE LogConstants DEF LogConstants, TypeOK
<1>1. ASSUME NEW p \in Procs, BeginOp(p) PROVE TypeOK'
  BY <1>1 DEF BeginOp, disk, PCs, OpStates, CommitStates
<1>2. ASSUME NEW p \in Procs, NEW b \in Blocks, NEW v \in Vals,
             LogWriteCheck(p, b, v)
      PROVE  TypeOK'
  BY <1>2 DEF LogWriteCheck, disk, PCs, OpStates, CommitStates, Panics
<1>3. ASSUME NEW p \in Procs, LogWriteAppend(p) PROVE TypeOK'
  BY <1>3 DEF LogWriteAppend, disk, PCs, OpStates, CommitStates, CountInv
<1>4. ASSUME NEW p \in Procs, EndOp(p) PROVE TypeOK'
  <2>1. [pc EXCEPT ![p] = "idle"] \in [Procs -> PCs]
    BY DEF PCs
  <2>2. outstanding' \in Nat
    <3>1. p \in Active /\ IsFiniteSet(Active)
      BY <1>4, FS_Subset DEF EndOp, Active, OpStates
    <3>2. Cardinality(Active) # 0 /\ Cardinality(Active) \in Nat
      BY <3>1, FS_EmptySet, FS_CardinalityType
    <3>. QED BY <1>4, <3>2 DEF EndOp, CountInv
  <2>3. pc' \in [Procs -> PCs]
    <3>1. \/ pc' = pc
          \/ \E s \in CommitStates : pc' = [pc EXCEPT ![p] = s]
          \/ pc' = Wakeup([pc EXCEPT ![p] = "idle"])
      BY <1>4 DEF EndOp, CommitStates
    <3>2. Wakeup([pc EXCEPT ![p] = "idle"]) \in [Procs -> PCs]
      BY <2>1, WakeupPC
    <3>3. \A s \in CommitStates : [pc EXCEPT ![p] = s] \in [Procs -> PCs]
      BY DEF PCs
    <3>. QED BY <3>1, <3>2, <3>3
  <2>4. panicked' \in Panics /\ committing' \in {0, 1} /\ tail' \in Nat
    <3>1. CASE committing = 1
      BY <1>4, <3>1 DEF EndOp, Panics
    <3>2. CASE committing # 1 /\ outstanding' = 0
      BY <1>4, <3>2 DEF EndOp
    <3>3. CASE committing # 1 /\ outstanding' # 0
      BY <1>4, <3>3 DEF EndOp
    <3>. QED BY <3>1, <3>2, <3>3
  <2>5. used' \in [Procs -> SUBSET Blocks] /\ UNCHANGED <<disk, cache, lh, blk>>
    BY <1>4 DEF EndOp
  <2>. QED BY <1>4, <2>2, <2>3, <2>4, <2>5 DEF EndOp, disk
<1>5. ASSUME NEW p \in Procs, WriteLog(p) PROVE TypeOK'
  <2>1. tail \in 1..Len(lh)
    BY <1>5 DEF WriteLog, DataInv
  <2>2. cache[lh[tail]] \in Vals
    BY <2>1
  <2>3. dlog' \in [Slots -> Vals]
    BY <1>5, <2>2 DEF WriteLog
  <2>4. pc' \in [Procs -> PCs] /\ tail' \in Nat
    BY <1>5 DEF WriteLog, PCs, OpStates, CommitStates
  <2>. QED BY <1>5, <2>3, <2>4 DEF WriteLog, mem
<1>6. ASSUME NEW p \in Procs, WriteHead(p) PROVE TypeOK'
  BY <1>6 DEF WriteHead, mem, PCs, OpStates, CommitStates
<1>7. ASSUME InstallBlock, tail \in DOMAIN lh
      PROVE  /\ home' \in [Blocks -> Vals] /\ cache' \in [Blocks -> Vals]
             /\ UNCHANGED <<dlog, head, lh>>
  <2>1. tail \in 1..LOGSIZE
    BY <1>7, LogBound
  <2>2. dlog[tail] \in Vals /\ lh[tail] \in Blocks
    BY <1>7, <2>1 DEF Slots
  <2>. QED BY <1>7, <2>2 DEF InstallBlock
<1>8. ASSUME NEW p \in Procs, InstallTrans(p) PROVE TypeOK'
  <2>1. InstallBlock /\ tail \in DOMAIN lh
    BY <1>8 DEF InstallTrans, DataInv
  <2>. QED BY <1>7, <1>8, <2>1 DEF InstallTrans, PCs, OpStates, CommitStates
<1>9. ASSUME NEW p \in Procs, ClearLog(p) PROVE TypeOK'
  BY <1>9 DEF ClearLog, PCs, OpStates, CommitStates
<1>10. ASSUME NEW p \in Procs, EndCommit(p) PROVE TypeOK'
  <2>1. [pc EXCEPT ![p] = "idle"] \in [Procs -> PCs]
    BY DEF PCs
  <2>. QED BY <1>10, <2>1, WakeupPC DEF EndCommit, disk
<1>11. CASE Crash
  <2>1. crashes' \in 0..MaxCrashes
    BY <1>11 DEF Crash
  <2>2. pc' \in [Procs -> PCs]
    BY <1>11 DEF Crash, PCs
  <2>3. cache' \in [Blocks -> Vals] /\ lh' \in Seq(Blocks) /\ UNCHANGED disk
    BY <1>11 DEF Crash
  <2>4. /\ blk' \in [Procs -> Blocks \union {NoBlock}]
        /\ used' \in [Procs -> SUBSET Blocks]
    BY <1>11 DEF Crash
  <2>. QED BY <1>11, <2>1, <2>2, <2>3, <2>4 DEF Crash, disk, Panics
<1>12. CASE ReadHead
  BY <1>12 DEF ReadHead, disk, proc
<1>13. CASE RecoverInstall
  <2>1. InstallBlock /\ tail \in DOMAIN lh
    BY <1>13 DEF RecoverInstall, DataInv
  <2>. QED BY <1>7, <1>13, <2>1 DEF RecoverInstall, proc
<1>14. CASE RecoverClear
  BY <1>14 DEF RecoverClear, proc
<1>15. CASE UNCHANGED vars
  BY <1>15 DEF vars, disk, mem, proc
<1>. QED
  BY <1>1, <1>2, <1>3, <1>4, <1>5, <1>6, <1>8, <1>9, <1>10, <1>11, <1>12,
     <1>13, <1>14, <1>15 DEF Next, Commit, Recover

-----------------------------------------------------------------------------
(* CountInv: log.outstanding and log.committing say what the processes do. *)

(* At boot nobody is in a system call. *)
LEMMA CountInit == Init => CountInv
<1> SUFFICES ASSUME Init PROVE CountInv
  OBVIOUS
<1>1. Active = {} /\ Committers = {}
  BY DEF Init, Active, Committers, OpStates, CommitStates
<1>. QED BY <1>1, FS_EmptySet DEF Init, CountInv

(* Every step keeps log.outstanding equal to the number of calls inside. *)
LEMMA CountStep ==
  ASSUME TypeOK, CountInv, ReserveInv, DataInv, LogRoom, [Next]_vars
  PROVE  CountInv'
<1> USE LogConstants DEF LogConstants
<1>0. IsFiniteSet(Active) /\ Cardinality(Active) \in Nat
  BY LogBound, FS_CardinalityType
<1>1. ASSUME NEW p \in Procs, BeginOp(p) PROVE CountInv'
  <2>1. CASE MustWait
    <3>1. Active' = Active /\ Committers' = Committers
      BY <1>1, <2>1 DEF BeginOp, Active, Committers, OpStates, CommitStates, TypeOK
    <3>. QED BY <1>1, <2>1, <3>1 DEF BeginOp, CountInv, TypeOK
  <2>2. CASE ~MustWait
    <3>1. Active' = Active \union {p} /\ p \notin Active /\ Committers' = Committers
      BY <1>1, <2>2 DEF BeginOp, Active, Committers, OpStates, CommitStates, TypeOK
    <3>2. Cardinality(Active') = Cardinality(Active) + 1
      BY <1>0, <3>1, FS_AddElement
    <3>3. Committers = {}
      BY <2>2 DEF MustWait, CountInv
    <3>. QED BY <1>1, <2>2, <3>1, <3>2, <3>3 DEF BeginOp, CountInv, TypeOK
  <2>. QED BY <2>1, <2>2
<1>2. ASSUME NEW p \in Procs, NEW b \in Blocks, NEW v \in Vals,
             LogWriteCheck(p, b, v)
      PROVE  CountInv'
  <2>1. p \in Active
    BY <1>2 DEF LogWriteCheck, Active, OpStates
  <2>2. ~(Len(lh) >= LOGSIZE \/ Len(lh) >= NLOG - 1)
    BY LogBound DEF TypeOK
  <2>3. ~(outstanding < 1)
    BY <1>0, <2>1, FS_EmptySet DEF CountInv
  <2>4. /\ pc' = [pc EXCEPT ![p] = "log_write"]
        /\ blk' = [blk EXCEPT ![p] = b]
        /\ UNCHANGED panicked
    BY <1>2, <2>2, <2>3 DEF LogWriteCheck
  <2>5. Active' = Active /\ Committers' = Committers
    BY <1>2, <2>4 DEF LogWriteCheck, Active, Committers, OpStates, CommitStates, TypeOK
  <2>. QED BY <1>2, <2>1, <2>4, <2>5 DEF LogWriteCheck, CountInv, TypeOK
<1>3. ASSUME NEW p \in Procs, LogWriteAppend(p) PROVE CountInv'
  <2>1. Active' = Active /\ Committers' = Committers /\ p \in Active
    BY <1>3 DEF LogWriteAppend, Active, Committers, OpStates, CommitStates, TypeOK
  <2>. QED BY <1>3, <2>1 DEF LogWriteAppend, CountInv, TypeOK
<1>4. ASSUME NEW p \in Procs, EndOp(p) PROVE CountInv'
  <2>1. p \in Active /\ Committers = {} /\ committing = 0
    BY <1>4 DEF EndOp, Active, OpStates, CountInv, TypeOK
  <2>2. Cardinality(Active \ {p}) = Cardinality(Active) - 1 /\ IsFiniteSet(Active \ {p})
    BY <1>0, <2>1, FS_RemoveElement
  <2>3. CASE outstanding' = 0
    <3>1. Active \ {p} = {}
      BY <1>4, <2>2, <2>3, FS_EmptySet DEF EndOp, CountInv
    <3>. DEFINE s == IF lh = <<>> THEN "end_commit" ELSE "write_log"
    <3>2. s \in CommitStates /\ pc' = [pc EXCEPT ![p] = s] /\ committing' = 1
      <4>1. s \in CommitStates
        BY DEF CommitStates
      <4>2. committing # 1
        BY <2>1
      <4>3. pc' = [pc EXCEPT ![p] = s] /\ committing' = 1
        BY <1>4, <4>2, <2>3, Zenon DEF EndOp
      <4>. QED BY <4>1, <4>3
    <3>. HIDE DEF s
    <3>3. Active' = Active \ {p}
      BY <3>2 DEF Active, OpStates, CommitStates, TypeOK
    <3>4. Committers' = {p}
      BY <2>1, <3>2 DEF Committers, TypeOK
    <3>. QED BY <1>4, <2>1, <2>2, <2>3, <3>1, <3>2, <3>3, <3>4
           DEF EndOp, CountInv, TypeOK, OpStates, CommitStates
  <2>4. CASE outstanding' # 0
    <3>. DEFINE f == [pc EXCEPT ![p] = "idle"]
    <3>1. pc' = Wakeup(f) /\ UNCHANGED <<committing, panicked>> /\ f \in [Procs -> PCs]
      BY <1>4, <2>1, <2>4 DEF EndOp, PCs, TypeOK
    <3>2. Active' = Active \ {p} /\ Committers' = {}
      BY <2>1, <3>1, WakeupPC DEF Active, Committers, OpStates, CommitStates, TypeOK
    <3>3. \A q \in Procs : pc'[q] = "log_write" <=> pc[q] = "log_write"
      BY <1>4, <3>1, WakeupPC DEF EndOp, OpStates, TypeOK
    <3>4. Active' # {}
      BY <1>4, <2>2, <2>4, <3>2, FS_EmptySet DEF EndOp, CountInv
    <3>5. boot = "up"
      BY <1>4 DEF EndOp, CountInv
    <3>. QED BY <1>4, <2>1, <2>2, <3>1, <3>2, <3>3, <3>4, <3>5
           DEF EndOp, CountInv, TypeOK
  <2>. QED BY <2>3, <2>4
<1>5. ASSUME NEW p \in Procs, NEW s \in CommitStates, NEW t \in CommitStates,
             pc[p] = s, pc' = [pc EXCEPT ![p] = t],
             UNCHANGED <<outstanding, committing, blk, used, boot, panicked>>
      PROVE  CountInv'
  <2>1. Active' = Active /\ Committers' = Committers /\ p \in Committers
    BY <1>5 DEF Active, Committers, OpStates, CommitStates, TypeOK
  <2>2. boot = "up"
    BY <1>5 DEF CommitStates, CountInv
  <2>. QED BY <1>5, <2>1, <2>2 DEF CountInv, OpStates, CommitStates, TypeOK
<1>6. ASSUME UNCHANGED <<pc, outstanding, committing, blk, used, boot, panicked>>,
             \E p \in Procs : pc[p] \in CommitStates
      PROVE  CountInv'
  <2>1. Active' = Active /\ Committers' = Committers /\ Committers # {}
    BY <1>6 DEF Active, Committers
  <2>. QED BY <1>6, <2>1 DEF CountInv
<1>7. ASSUME NEW p \in Procs, WriteLog(p) PROVE CountInv'
  BY <1>5, <1>6, <1>7 DEF WriteLog, mem, CommitStates
<1>8. ASSUME NEW p \in Procs, WriteHead(p) PROVE CountInv'
  BY <1>5, <1>8 DEF WriteHead, mem, CommitStates
<1>9. ASSUME NEW p \in Procs, InstallTrans(p) PROVE CountInv'
  BY <1>5, <1>6, <1>9 DEF InstallTrans, CommitStates
<1>10. ASSUME NEW p \in Procs, ClearLog(p) PROVE CountInv'
  BY <1>5, <1>10 DEF ClearLog, CommitStates
<1>11. ASSUME NEW p \in Procs, EndCommit(p) PROVE CountInv'
  <2>. DEFINE f == [pc EXCEPT ![p] = "idle"]
  <2>1. p \in Committers /\ Committers = {p} /\ Active = {} /\ boot = "up"
    BY <1>11 DEF EndCommit, Committers, CommitStates, CountInv
  <2>2. pc' = Wakeup(f) /\ f \in [Procs -> PCs]
    BY <1>11 DEF EndCommit, PCs, TypeOK
  <2>3. Active' = {} /\ Committers' = {}
    BY <2>1, <2>2, WakeupPC DEF Active, Committers, OpStates, CommitStates, TypeOK
  <2>4. \A q \in Procs : pc'[q] = "log_write" <=> pc[q] = "log_write"
    BY <1>11, <2>2, WakeupPC DEF EndCommit, OpStates, TypeOK
  <2>5. lh = <<>>
    BY <1>11 DEF EndCommit, DataInv
  <2>6. /\ committing' = 0 /\ lh' = <<>> /\ boot' = "up"
        /\ UNCHANGED <<outstanding, blk, used, panicked>>
    BY <1>11, <2>1, <2>5 DEF EndCommit
  <2>7. outstanding' = Cardinality(Active')
    BY <2>1, <2>3, <2>6 DEF CountInv
  <2>8. committing' = 1 <=> Committers' # {}
    BY <2>3, <2>6
  <2>9. \A q \in Procs : blk'[q] # NoBlock <=> pc'[q] = "log_write"
    BY <2>4, <2>6 DEF CountInv
  <2>10. \A q \in Procs : q \notin Active' => used'[q] = {}
    BY <2>1, <2>6 DEF CountInv
  <2>. QED BY <2>3, <2>6, <2>7, <2>8, <2>9, <2>10 DEF CountInv
<1>12. CASE Crash
  <2>1. Active' = {} /\ Committers' = {}
    BY <1>12 DEF Crash, Active, Committers, OpStates, CommitStates
  <2>. QED BY <1>12, <2>1, FS_EmptySet DEF Crash, CountInv
<1>13. ASSUME UNCHANGED <<pc, outstanding, committing, blk, used, panicked>>,
              boot' = "up" => (boot = "up" /\ lh' = lh) \/ lh' = <<>>,
              boot' # "up" => boot # "up"
       PROVE  CountInv'
  <2>1. Active' = Active /\ Committers' = Committers
    BY <1>13 DEF Active, Committers
  <2>. QED BY <1>13, <2>1 DEF CountInv
<1>14. CASE Recover
  BY <1>13, <1>14 DEF Recover, ReadHead, RecoverInstall, RecoverClear, proc
<1>15. CASE UNCHANGED vars
  BY <1>13, <1>15 DEF vars, mem, proc
<1>. QED
  BY <1>1, <1>2, <1>3, <1>4, <1>7, <1>8, <1>9, <1>10, <1>11, <1>12, <1>14,
     <1>15 DEF Next, Commit

-----------------------------------------------------------------------------
(* ReserveInv: begin_op()'s reservation is enough. *)

(* The guard of begin_op() leaves LOGSIZE room for every admitted call. *)
LEMMA RoomBound ==
  ASSUME NEW k \in Nat, k >= 2, NEW n \in Nat, n + k * MAXOPBLOCKS <= LOGSIZE
  PROVE  n + k * OpBlocks <= Room
<1> USE LogConstants DEF LogConstants
<1>. DEFINE d == MAXOPBLOCKS - OpBlocks
<1>1. d \in Nat
  OBVIOUS
<1>2. k * MAXOPBLOCKS = k * OpBlocks + k * d
  OBVIOUS
<1>3. k * d >= 2 * d
  BY <1>1
<1>4. k * OpBlocks \in Nat /\ k * d \in Nat /\ k * MAXOPBLOCKS \in Nat
  BY <1>1
<1>. HIDE DEF d
<1>5. n + k * OpBlocks <= LOGSIZE - 2 * d
  BY <1>1, <1>2, <1>3, <1>4
<1>. QED BY <1>5 DEF Room, d

(* The room of the log is a number and holds one call. *)
LEMMA RoomNat == Room >= OpBlocks /\ Room \in Nat
  BY LogConstants DEF LogConstants, Room

(* Appending to a sequence keeps its range and makes it one longer. *)
LEMMA AppendRange ==
  ASSUME NEW S, NEW s \in Seq(S), NEW x \in S
  PROVE  /\ Append(s, x) \in Seq(S) /\ Len(Append(s, x)) = Len(s) + 1
         /\ DOMAIN Append(s, x) = 1..(Len(s) + 1)
         /\ \A i \in 1..Len(s) : Append(s, x)[i] = s[i]
         /\ Append(s, x)[Len(s) + 1] = x
         /\ Range(Append(s, x)) = Range(s) \union {x}
<1>1. /\ Append(s, x) \in Seq(S) /\ Len(Append(s, x)) = Len(s) + 1
      /\ DOMAIN Append(s, x) = 1..(Len(s) + 1)
      /\ \A i \in 1..Len(s) : Append(s, x)[i] = s[i]
      /\ Append(s, x)[Len(s) + 1] = x
  BY AppendProperties
<1>2. Len(s) \in Nat /\ DOMAIN s = 1..Len(s)
  OBVIOUS
<1>3. Range(Append(s, x)) = Range(s) \union {x}
  BY <1>1, <1>2 DEF Range
<1>. QED BY <1>1, <1>3

(* At boot nothing is reserved. *)
LEMMA ReserveInit == Init => ReserveInv
<1> SUFFICES ASSUME Init PROVE ReserveInv
  OBVIOUS
<1>1. Active = {} /\ Tokens = {}
  BY DEF Init, Active, OpStates, Tokens
<1>. QED BY <1>1, FS_EmptySet, RoomNat, LogConstants
       DEF Init, ReserveInv, LogConstants

(* Every step keeps the blocks logged and reserved within the log. *)
LEMMA ReserveStep ==
  ASSUME TypeOK, CountInv, ReserveInv, DataInv, LogRoom, [Next]_vars
  PROVE  ReserveInv'
<1> USE LogConstants DEF LogConstants
<1>0. /\ IsFiniteSet(Active) /\ Cardinality(Active) \in Nat
      /\ IsFiniteSet(Tokens) /\ Cardinality(Tokens) \in Nat /\ Len(lh) \in Nat
  BY LogBound, FS_CardinalityType DEF TypeOK
<1>1. ASSUME NEW p \in Procs, BeginOp(p) PROVE ReserveInv'
  <2>1. CASE MustWait
    <3>1. Active' = Active
      BY <1>1, <2>1 DEF BeginOp, Active, OpStates, TypeOK
    <3>2. Tokens' = Tokens
      BY <1>1, <3>1 DEF BeginOp, Tokens
    <3>. QED BY <1>1, <2>1, <3>1, <3>2 DEF BeginOp, disk, ReserveInv, TypeOK
  <2>2. CASE ~MustWait
    <3>1. Active' = Active \union {p} /\ p \notin Active /\ used[p] = {}
      BY <1>1, <2>2 DEF BeginOp, Active, OpStates, TypeOK, CountInv
    <3>2. Cardinality(Active') = Cardinality(Active) + 1 /\ IsFiniteSet(Active')
      BY <1>0, <3>1, FS_AddElement
    <3>3. IsFiniteSet(1..OpBlocks) /\ Cardinality(1..OpBlocks) = OpBlocks
      BY FS_Interval
    <3>. DEFINE k == Cardinality(Active) + 1
    <3>4. /\ IsFiniteSet(Active' \X (1..OpBlocks))
          /\ Cardinality(Active' \X (1..OpBlocks)) = k * OpBlocks
      BY <3>2, <3>3, FS_Product, ZenonT(40)
    <3>5. Tokens' \subseteq Active' \X (1..OpBlocks)
      BY DEF Tokens
    <3>6. Cardinality(Tokens') <= k * OpBlocks /\ Cardinality(Tokens') \in Nat
      BY <3>4, <3>5, FS_Subset, FS_CardinalityType
    <3>7. Len(lh) + k * MAXOPBLOCKS <= LOGSIZE /\ k \in Nat
      BY <1>0, <2>2 DEF MustWait, CountInv
    <3>8. Len(lh) + k * OpBlocks <= Room
      <4>1. CASE k >= 2
        BY <1>0, <3>7, <4>1, RoomBound
      <4>2. CASE ~(k >= 2)
        <5>1. k = 1 /\ Active = {}
          BY <1>0, <4>2, FS_EmptySet
        <5>2. lh = <<>>
          BY <1>1, <2>2, <5>1 DEF BeginOp, MustWait, CountInv
        <5>. QED BY <5>1, <5>2, RoomNat
      <4>. QED BY <4>1, <4>2
    <3>9. k * OpBlocks \in Nat
      BY <3>7
    <3>. HIDE DEF k
    <3>10. Len(lh') + Cardinality(Tokens') <= Room
      BY <1>0, <1>1, <3>6, <3>8, <3>9, RoomNat DEF BeginOp
    <3>. QED BY <1>1, <2>2, <3>1, <3>10 DEF BeginOp, disk, ReserveInv, TypeOK
  <2>. QED BY <2>1, <2>2
<1>2. ASSUME NEW p \in Procs, NEW b \in Blocks, NEW v \in Vals,
             LogWriteCheck(p, b, v)
      PROVE  ReserveInv'
  <2>1. Active' = Active
    BY <1>2 DEF LogWriteCheck, Active, OpStates, TypeOK
  <2>2. Tokens' = Tokens
    BY <1>2, <2>1 DEF LogWriteCheck, Tokens
  <2>. QED BY <1>2, <2>1, <2>2 DEF LogWriteCheck, disk, ReserveInv, TypeOK
<1>3. ASSUME NEW p \in Procs, LogWriteAppend(p) PROVE ReserveInv'
  <2>1. Active' = Active /\ p \in Active /\ blk[p] \in Blocks
    BY <1>3 DEF LogWriteAppend, Active, OpStates, TypeOK, CountInv
  <2>2. /\ lh' \in Seq(Blocks)
        /\ Len(lh') = IF blk[p] \in Range(lh) THEN Len(lh) ELSE Len(lh) + 1
        /\ Range(lh') = Range(lh) \union {blk[p]}
    BY <1>3, <2>1, AppendRange DEF LogWriteAppend, TypeOK
  <2>3. /\ \A q \in Procs : q # p => used'[q] = used[q]
        /\ used'[p] = used[p] \union {blk[p]}
    BY <1>3 DEF LogWriteAppend, TypeOK
  <2>. DEFINE c == Cardinality(used[p])
  <2>4. /\ IsFiniteSet(used[p]) /\ c \in Nat /\ IsFiniteSet(used'[p])
        /\ Cardinality(used'[p]) = IF blk[p] \in used[p] THEN c ELSE c + 1
        /\ Cardinality(used'[p]) <= OpBlocks
    <3>1. IsFiniteSet(used[p]) /\ Cardinality(used[p] \union {blk[p]}) <= OpBlocks
      BY <1>3 DEF ReserveInv, LogWriteAppend
    <3>2. c \in Nat
      BY <3>1, FS_CardinalityType
    <3>3. /\ IsFiniteSet(used[p] \union {blk[p]})
          /\ Cardinality(used[p] \union {blk[p]}) =
               IF blk[p] \in used[p] THEN c ELSE c + 1
      BY <3>1, FS_AddElement
    <3>. QED BY <2>3, <3>1, <3>2, <3>3
  <2>5. Len(lh') + Cardinality(Tokens') <= Room
    <3>1. CASE blk[p] \in used[p]
      <4>1. used' = used
        BY <1>3, <2>3, <3>1 DEF LogWriteAppend, TypeOK
      <4>2. Tokens' = Tokens /\ Len(lh') = Len(lh)
        BY <2>1, <2>2, <3>1, <4>1 DEF Tokens, ReserveInv
      <4>. QED BY <4>2 DEF ReserveInv
    <3>2. CASE blk[p] \notin used[p]
      <4>1. <<p, c + 1>> \in Tokens
        BY <2>1, <2>4, <3>2 DEF Tokens
      <4>2. Tokens' = Tokens \ {<<p, c + 1>>}
        <5>1. ASSUME NEW q \in Active, NEW i \in 1..OpBlocks
              PROVE  i > Cardinality(used'[q]) <=>
                       i > Cardinality(used[q]) /\ <<q, i>> # <<p, c + 1>>
          <6>1. CASE q = p
            BY <2>4, <3>2, <6>1
          <6>2. CASE q # p
            BY <2>3, <6>2 DEF Active
          <6>. QED BY <6>1, <6>2
        <5>. QED BY <2>1, <5>1 DEF Tokens
      <4>3. Cardinality(Tokens') = Cardinality(Tokens) - 1
        BY <1>0, <4>1, <4>2, FS_RemoveElement
      <4>. QED BY <1>0, <2>2, <4>3, RoomNat DEF ReserveInv
    <3>. QED BY <3>1, <3>2
  <2>6. \A q \in Active' : used'[q] \subseteq Range(lh')
    BY <2>1, <2>2, <2>3 DEF ReserveInv, Active
  <2>7. \A q \in Procs : IsFiniteSet(used'[q]) /\ Cardinality(used'[q]) <= OpBlocks
    BY <2>3, <2>4 DEF ReserveInv
  <2>8. \A q \in Procs : pc'[q] = "log_write" =>
            Cardinality(used'[q] \union {blk'[q]}) <= OpBlocks
    BY <1>3, <2>3 DEF LogWriteAppend, ReserveInv, TypeOK
  <2>9. Len(head') <= Room
    BY <1>3 DEF LogWriteAppend, disk, ReserveInv
  <2>. QED BY <2>5, <2>6, <2>7, <2>8, <2>9 DEF ReserveInv
<1>4. ASSUME NEW p \in Procs, EndOp(p) PROVE ReserveInv'
  <2>1. p \in Active /\ committing = 0
    BY <1>4 DEF EndOp, Active, OpStates, CountInv, TypeOK
  <2>2. \/ \E s \in CommitStates : pc' = [pc EXCEPT ![p] = s]
        \/ pc' = Wakeup([pc EXCEPT ![p] = "idle"])
    BY <1>4, <2>1 DEF EndOp, CommitStates
  <2>3. [pc EXCEPT ![p] = "idle"] \in [Procs -> PCs]
    BY DEF PCs, TypeOK
  <2>4. \A q \in Procs : pc'[q] \in OpStates => pc[q] = pc'[q] /\ q # p
    BY <2>2, <2>3, WakeupPC DEF OpStates, CommitStates, TypeOK
  <2>5. Active' \subseteq Active \ {p}
    BY <2>4 DEF Active
  <2>6. \A q \in Procs : used'[q] = IF q = p THEN {} ELSE used[q]
    BY <1>4 DEF EndOp, TypeOK
  <2>7. Tokens' \subseteq Tokens
    BY <2>5, <2>6 DEF Tokens, Active
  <2>8. Cardinality(Tokens') <= Cardinality(Tokens) /\ Cardinality(Tokens') \in Nat
    BY <1>0, <2>7, FS_Subset, FS_CardinalityType
  <2>9. UNCHANGED <<head, lh, blk>>
    BY <1>4 DEF EndOp, disk
  <2>10. Len(lh') + Cardinality(Tokens') <= Room
    BY <1>0, <2>8, <2>9, RoomNat DEF ReserveInv
  <2>11. \A q \in Procs : IsFiniteSet(used'[q]) /\ Cardinality(used'[q]) <= OpBlocks
    BY <2>6, FS_EmptySet DEF ReserveInv
  <2>12. \A q \in Active' : used'[q] \subseteq Range(lh')
    BY <2>5, <2>6, <2>9 DEF ReserveInv, Active
  <2>13. \A q \in Procs : pc'[q] = "log_write" =>
            Cardinality(used'[q] \union {blk'[q]}) <= OpBlocks
    BY <2>4, <2>6, <2>9 DEF ReserveInv, OpStates
  <2>14. Len(head') <= Room
    BY <2>9 DEF ReserveInv
  <2>. QED BY <2>10, <2>11, <2>12, <2>13, <2>14 DEF ReserveInv
(* No operation is in progress afterwards, the log is empty or what the    *)
(* header or the log were before.                                          *)
<1>5. ASSUME \A q \in Procs : pc'[q] \notin OpStates,
             \A q \in Procs : used'[q] = {},
             lh' \in {<<>>, lh, head}, head' \in {<<>>, lh, head}
      PROVE  ReserveInv'
  <2>1. Active' = {} /\ Tokens' = {}
    BY <1>5 DEF Active, Tokens
  <2>2. Len(lh) <= Room /\ Len(head) <= Room /\ Len(<<>>) <= Room
    BY <1>0, RoomNat DEF ReserveInv
  <2>3. Len(lh') <= Room /\ Len(head') <= Room /\ Len(lh') \in Nat
    BY <1>5, <2>2 DEF TypeOK
  <2>4. Len(lh') + Cardinality(Tokens') <= Room
    BY <2>1, <2>3, FS_EmptySet
  <2>5. \A q \in Procs : IsFiniteSet(used'[q]) /\ Cardinality(used'[q]) <= OpBlocks
    <3>1. IsFiniteSet({}) /\ Cardinality({}) = 0
      BY FS_EmptySet
    <3>2. 0 <= OpBlocks
      OBVIOUS
    <3>. QED BY <1>5, <3>1, <3>2
  <2>. QED BY <1>5, <2>1, <2>3, <2>4, <2>5 DEF ReserveInv, OpStates
<1>6. ASSUME \E p \in Procs : pc[p] \in CommitStates
      PROVE  \A q \in Procs : pc[q] \notin OpStates /\ used[q] = {}
  BY <1>6 DEF CountInv, Active, Committers
<1>7. ASSUME boot # "up" PROVE \A q \in Procs : pc[q] \notin OpStates /\ used[q] = {}
  BY <1>7 DEF CountInv, Active, OpStates
<1>8. ASSUME NEW p \in Procs, WriteLog(p) PROVE ReserveInv'
  BY <1>5, <1>6, <1>8 DEF WriteLog, mem, CommitStates, OpStates, TypeOK
<1>9. ASSUME NEW p \in Procs, WriteHead(p) PROVE ReserveInv'
  BY <1>5, <1>6, <1>9 DEF WriteHead, mem, CommitStates, OpStates, TypeOK
<1>10. ASSUME NEW p \in Procs, InstallTrans(p) PROVE ReserveInv'
  BY <1>5, <1>6, <1>10
     DEF InstallTrans, InstallBlock, CommitStates, OpStates, TypeOK
<1>11. ASSUME NEW p \in Procs, ClearLog(p) PROVE ReserveInv'
  BY <1>5, <1>6, <1>11 DEF ClearLog, CommitStates, OpStates, TypeOK
<1>12. ASSUME NEW p \in Procs, EndCommit(p) PROVE ReserveInv'
  <2>1. \A q \in Procs : pc'[q] \notin OpStates
    BY <1>6, <1>12 DEF EndCommit, Wakeup, CommitStates, OpStates, TypeOK
  <2>. QED BY <1>5, <1>6, <1>12, <2>1 DEF EndCommit, disk, CommitStates
<1>13. CASE Crash
  BY <1>5, <1>13 DEF Crash, disk, OpStates
<1>14. CASE Recover
  BY <1>5, <1>7, <1>14
     DEF Recover, ReadHead, RecoverInstall, RecoverClear, InstallBlock, disk, proc
<1>15. CASE UNCHANGED vars
  <2>1. Active' = Active
    BY <1>15 DEF vars, proc, Active
  <2>2. Tokens' = Tokens
    BY <1>15, <2>1 DEF vars, proc, Tokens
  <2>. QED BY <1>15, <2>1, <2>2 DEF vars, disk, mem, proc, ReserveInv
<1>. QED
  BY <1>1, <1>2, <1>3, <1>4, <1>8, <1>9, <1>10, <1>11, <1>12, <1>13, <1>14,
     <1>15 DEF Next, Commit

=============================================================================
