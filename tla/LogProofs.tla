----------------------------- MODULE LogProofs ------------------------------
(***************************************************************************)
(* Proofs about the log, for every number of processes, blocks, values and *)
(* crashes and for all log sizes that satisfy LogRoom:                     *)
(*   - the log never panics and never outgrows its disk area (NoPanic,     *)
(*     LogFits);                                                           *)
(*   - commits exclude operations and each other (CommitExclusive);        *)
(*   - the log implements the atomic disk (AtomicCommit).                  *)
(***************************************************************************)
EXTENDS LogCounts

USE DEF At

-----------------------------------------------------------------------------
(* DataInv: how far the disk is at each point of commit() and recovery. *)

(* At boot the cache, the log and the disk agree. *)
LEMMA DataInit == Init => DataInv
  BY DEF Init, DataInv, Injective, Logged, Installed

(* Every step keeps the agreement of cache, log and disk. *)
LEMMA DataStep ==
  ASSUME TypeOK, CountInv, ReserveInv, DataInv, LogRoom, [Next]_vars
  PROVE  DataInv'
<1> USE LogConstants DEF LogConstants
(* Steps of processes that are in no commit leave the disk alone. *)
<1>1. ASSUME UNCHANGED <<disk, cache, lh, tail, boot, blk>>,
             \A q \in Procs : pc'[q] \in CommitStates <=> pc[q] \in CommitStates,
             \A q \in Procs : pc[q] \in CommitStates => pc'[q] = pc[q]
      PROVE  DataInv'
  <2>1. \A q \in Procs : \A s \in CommitStates : pc'[q] = s <=> pc[q] = s
    BY <1>1
  <2>. QED BY <1>1, <2>1
         DEF DataInv, disk, Injective, Logged, Installed, CommitStates
<1>2. ASSUME NEW p \in Procs, BeginOp(p) PROVE DataInv'
  BY <1>1, <1>2 DEF BeginOp, CommitStates, TypeOK
<1>3. ASSUME NEW p \in Procs, pc[p] \in OpStates
      PROVE  /\ boot = "up" /\ head = <<>>
             /\ \A q \in Procs : pc[q] \notin CommitStates
  <2>1. Committers = {} /\ boot = "up"
    BY <1>3 DEF CountInv, Active, OpStates
  <2>2. \A q \in Procs : pc[q] \notin CommitStates
    BY <2>1 DEF Committers
  <2>. QED BY <2>1, <2>2 DEF DataInv, CommitStates
<1>4. ASSUME NEW p \in Procs, NEW b \in Blocks, NEW v \in Vals,
             LogWriteCheck(p, b, v)
      PROVE  DataInv'
  <2>1. /\ boot = "up" /\ head = <<>> /\ \A q \in Procs : pc[q] \notin CommitStates
    BY <1>3, <1>4 DEF LogWriteCheck, OpStates
  <2>2. blk[p] = NoBlock
    BY <1>4 DEF LogWriteCheck, CountInv
  <2>3. /\ UNCHANGED <<home, dlog, head, lh, boot, tail>>
        /\ \A q \in Procs : pc'[q] \notin CommitStates
        /\ \/ UNCHANGED <<cache, blk>>
           \/ cache' = [cache EXCEPT ![b] = v] /\ blk' = [blk EXCEPT ![p] = b]
    BY <1>4, <2>1 DEF LogWriteCheck, disk, CommitStates, TypeOK
  <2>4. \A c \in Blocks : c \notin Range(lh) /\ (\A q \in Procs : blk'[q] # c)
                            => cache'[c] = home[c]
    BY <2>1, <2>2, <2>3 DEF DataInv, TypeOK
  <2>. QED BY <2>1, <2>3, <2>4 DEF DataInv, Injective, CommitStates
<1>5. ASSUME NEW p \in Procs, LogWriteAppend(p) PROVE DataInv'
  <2>1. /\ boot = "up" /\ head = <<>> /\ \A q \in Procs : pc[q] \notin CommitStates
    BY <1>3, <1>5 DEF LogWriteAppend, OpStates
  <2>2. /\ UNCHANGED <<home, dlog, head, cache, boot, tail>>
        /\ \A q \in Procs : pc'[q] \notin CommitStates
        /\ blk' = [blk EXCEPT ![p] = NoBlock]
        /\ blk[p] \in Blocks
    BY <1>5, <2>1 DEF LogWriteAppend, disk, CommitStates, TypeOK, CountInv
  <2>3. Range(lh') = Range(lh) \union {blk[p]}
    BY <1>5, <2>2, AppendRange DEF LogWriteAppend, TypeOK
  <2>4. \A c \in Blocks : c \notin Range(lh') /\ (\A q \in Procs : blk'[q] # c)
                            => cache[c] = home[c]
    BY <2>1, <2>2, <2>3 DEF DataInv, TypeOK
  <2>5. Injective(lh')
    <3>1. CASE blk[p] \in Range(lh)
      BY <1>5, <3>1 DEF LogWriteAppend, DataInv, Injective
    <3>2. CASE blk[p] \notin Range(lh)
      <4>1. lh' = Append(lh, blk[p]) /\ DOMAIN lh = 1..Len(lh) /\ Len(lh) \in Nat
        BY <1>5, <3>2 DEF LogWriteAppend, TypeOK
      <4>2. /\ DOMAIN lh' = 1..(Len(lh) + 1) /\ lh'[Len(lh) + 1] = blk[p]
            /\ \A i \in 1..Len(lh) : lh'[i] = lh[i]
        BY <2>2, <4>1, AppendRange DEF TypeOK
      <4>. QED BY <3>2, <4>1, <4>2 DEF DataInv, Injective, Range
    <3>. QED BY <3>1, <3>2
  <2>. QED BY <2>1, <2>2, <2>4, <2>5 DEF DataInv, Injective, CommitStates
<1>6. ASSUME NEW p \in Procs, EndOp(p) PROVE DataInv'
  <2>1. /\ boot = "up" /\ head = <<>> /\ \A q \in Procs : pc[q] \notin CommitStates
    BY <1>3, <1>6 DEF EndOp, OpStates
  <2>2. committing # 1 /\ UNCHANGED <<home, dlog, head, cache, lh, blk, boot>>
    BY <1>6, <2>1 DEF EndOp, CountInv, Committers, disk
  <2>3. CASE outstanding' = 0
    <3>1. tail' = 1
      BY <1>6, <2>2, <2>3 DEF EndOp
    <3>2. CASE lh = <<>>
      <4>1. pc' = [pc EXCEPT ![p] = "end_commit"]
        BY <1>6, <2>2, <2>3, <3>2, Zenon DEF EndOp
      <4>. QED BY <2>1, <2>2, <3>1, <3>2, <4>1
             DEF DataInv, Injective, Logged, Installed, CommitStates, TypeOK
    <3>3. CASE lh # <<>>
      <4>1. pc' = [pc EXCEPT ![p] = "write_log"]
        BY <1>6, <2>2, <2>3, <3>3, Zenon DEF EndOp
      <4>2. 1 \in DOMAIN lh /\ \A i \in DOMAIN lh : ~(i < 1)
        BY <3>3, EmptySeq DEF TypeOK
      <4>. QED BY <2>1, <2>2, <3>1, <4>1, <4>2
             DEF DataInv, Injective, Logged, Installed, CommitStates, TypeOK
    <3>. QED BY <3>2, <3>3
  <2>4. CASE outstanding' # 0
    <3>1. pc' = Wakeup([pc EXCEPT ![p] = "idle"]) /\ tail' = tail
      BY <1>6, <2>2, <2>4 DEF EndOp
    <3>2. \A q \in Procs : pc'[q] \notin CommitStates
      BY <2>1, <3>1 DEF Wakeup, CommitStates, TypeOK
    <3>. QED BY <1>1, <2>1, <2>2, <3>1, <3>2 DEF disk
  <2>. QED BY <2>3, <2>4
(* While p commits, it is the only one in a commit and nobody holds a      *)
(* buffer.                                                                 *)
<1>7. ASSUME NEW p \in Procs, pc[p] \in CommitStates
      PROVE  /\ boot = "up" /\ \A q \in Procs : pc[q] \in CommitStates => q = p
             /\ \A q \in Procs, b \in Blocks : blk[q] # b
             /\ lh \in Seq(Blocks) /\ Len(lh) \in Nat /\ DOMAIN lh = 1..Len(lh)
  <2>1. p \in Committers
    BY <1>7 DEF Committers
  <2>2. Committers = {p} /\ Active = {} /\ boot = "up"
    BY <1>7, <2>1 DEF CountInv, CommitStates
  <2>3. \A q \in Procs, b \in Blocks : blk[q] # b
    BY <2>2 DEF CountInv, Active, OpStates
  <2>. QED BY <2>2, <2>3 DEF Committers, TypeOK
(* A step of p from one point of commit() to another. *)
<1>8. ASSUME NEW p \in Procs, pc[p] \in CommitStates,
             UNCHANGED <<blk, boot>>,
             NEW s \in CommitStates, pc' = [pc EXCEPT ![p] = s],
             lh' \in {lh, <<>>}, head' \in {head, lh, <<>>},
             s \notin {"install", "clear"} => head' = <<>>,
             \A b \in Blocks : b \notin Range(lh') => cache'[b] = home'[b],
             s = "write_log"  => (tail \in DOMAIN lh /\ Logged(tail))',
             s = "write_head" => (tail = 1 /\ lh # <<>> /\ Logged(Len(lh) + 1))',
             s = "install"    => (/\ tail \in DOMAIN lh /\ head = lh
                                  /\ Logged(Len(lh) + 1) /\ Installed(tail))',
             s = "clear"      => (/\ head = lh /\ Logged(Len(lh) + 1)
                                  /\ Installed(Len(lh) + 1))',
             s = "end_commit" => lh' = <<>>
      PROVE  DataInv'
  <2>1. /\ pc'[p] = s
        /\ \A q \in Procs : pc'[q] \in CommitStates => q = p
    BY <1>7, <1>8 DEF TypeOK
  <2>2. boot' = "up"
    BY <1>7, <1>8
  <2>3. Injective(lh') /\ Injective(head')
    BY <1>8 DEF DataInv, Injective
  <2>4. (\A q \in Procs : pc'[q] \notin {"install", "clear"}) => head' = <<>>
    BY <1>8, <2>1
  <2>5. ASSUME NEW q \in Procs, pc'[q] \in CommitStates PROVE pc'[q] = s
    BY <2>1, <2>5
  <2>. QED BY <1>8, <2>2, <2>3, <2>4, <2>5 DEF DataInv, CommitStates
<1>9. ASSUME NEW p \in Procs, WriteLog(p) PROVE DataInv'
  <2>0. pc[p] = "write_log" /\ pc[p] \in CommitStates
    BY <1>9 DEF WriteLog, CommitStates
  <2>1. /\ boot = "up" /\ \A q \in Procs : pc[q] \in CommitStates => q = p
        /\ \A q \in Procs, b \in Blocks : blk[q] # b
        /\ Len(lh) \in Nat /\ DOMAIN lh = 1..Len(lh)
    BY <1>7, <2>0
  <2>2. tail \in 1..Len(lh) /\ Logged(tail)
    BY <2>0, <2>1 DEF DataInv
  <2>3. head = <<>>
    BY <2>0, <2>1 DEF DataInv, CommitStates
  <2>4. tail \in Slots /\ dlog' = [dlog EXCEPT ![tail] = cache[lh[tail]]]
    BY <1>9, <2>1, <2>2, LogBound DEF WriteLog, Slots
  <2>5. \A i \in 1..tail : dlog'[i] = cache[lh[i]]
    <3>1. Len(lh) \in Nat /\ tail \in 1..Len(lh)
      BY <2>1, <2>2
    <3>2. ASSUME NEW i \in 1..tail PROVE dlog'[i] = cache[lh[i]]
      <4>1. CASE i = tail
        BY <2>4, <4>1 DEF TypeOK
      <4>2. CASE i # tail
        <5>1. i \in DOMAIN lh /\ i < tail
          BY <2>1, <3>1, <4>2
        <5>2. dlog[i] = cache[lh[i]]
          BY <2>2, <5>1 DEF Logged
        <5>. QED BY <2>4, <4>2, <5>2 DEF TypeOK
      <4>. QED BY <4>1, <4>2
    <3>. QED BY <3>2
  <2>6. UNCHANGED <<home, head, cache, lh, blk, boot>>
    BY <1>9 DEF WriteLog, mem
  <2>7. \A b \in Blocks : b \notin Range(lh') => cache'[b] = home'[b]
    BY <2>1, <2>6 DEF DataInv
  <2>8. CASE tail = Len(lh)
    <3>1. tail' = 1 /\ pc' = [pc EXCEPT ![p] = "write_head"]
      BY <1>9, <2>8 DEF WriteLog
    <3>2. Logged(Len(lh) + 1)' /\ lh # <<>>
      BY <2>1, <2>2, <2>5, <2>6, <2>8 DEF Logged
    <3>. QED BY <1>8, <2>0, <2>3, <2>6, <2>7, <3>1, <3>2 DEF CommitStates
  <2>9. CASE tail # Len(lh)
    <3>1. tail' = tail + 1 /\ pc' = pc
      BY <1>9, <2>9 DEF WriteLog
    <3>2. pc' = [pc EXCEPT ![p] = "write_log"]
      BY <2>0, <3>1 DEF TypeOK
    <3>3. (tail \in DOMAIN lh /\ Logged(tail))'
      <4>1. tail' \in DOMAIN lh'
        <5>1. tail + 1 \in 1..Len(lh)
          <6>1. Len(lh) \in Nat /\ tail \in 1..Len(lh)
            BY <2>1, <2>2
          <6>. QED BY <6>1, <2>9
        <5>. QED BY <2>1, <2>6, <3>1, <5>1
      <4>2. \A i \in DOMAIN lh : i < tail' => i \in 1..tail
        BY <2>1, <2>2, <3>1
      <4>. QED BY <2>5, <2>6, <4>1, <4>2 DEF Logged
    <3>. QED BY <1>8, <2>0, <2>3, <2>6, <2>7, <3>2, <3>3 DEF CommitStates
  <2>. QED BY <2>8, <2>9
<1>10. ASSUME NEW p \in Procs, WriteHead(p) PROVE DataInv'
  <2>0. pc[p] = "write_head" /\ pc[p] \in CommitStates
    BY <1>10 DEF WriteHead, CommitStates
  <2>1. Len(lh) \in Nat /\ DOMAIN lh = 1..Len(lh) /\ boot = "up"
    BY <1>7, <2>0
  <2>2. tail = 1 /\ lh # <<>> /\ Logged(Len(lh) + 1)
    BY <2>0 DEF DataInv
  <2>3. /\ UNCHANGED <<home, dlog, cache, lh, blk, boot, tail>> /\ head' = lh
        /\ pc' = [pc EXCEPT ![p] = "install"]
    BY <1>10 DEF WriteHead, mem
  <2>4. \A b \in Blocks : b \notin Range(lh') => cache'[b] = home'[b]
    BY <1>7, <2>0, <2>3 DEF DataInv
  <2>5. (/\ tail \in DOMAIN lh /\ head = lh
         /\ Logged(Len(lh) + 1) /\ Installed(tail))'
    BY <2>1, <2>2, <2>3, EmptySeq DEF Logged, Installed, TypeOK
  <2>. QED BY <1>8, <2>0, <2>3, <2>4, <2>5 DEF CommitStates
(* One round of install_trans(), in a commit or in recovery. *)
<1>11. ASSUME InstallBlock, tail \in DOMAIN lh, Installed(tail)
       PROVE  /\ UNCHANGED <<dlog, head, lh>>
              /\ Len(lh) \in Nat /\ DOMAIN lh = 1..Len(lh)
              /\ \A i \in 1..tail : home'[lh[i]] = dlog[i]
              /\ \A b \in Blocks : b \notin Range(lh) =>
                    home'[b] = home[b] /\ cache'[b] = cache[b]
              /\ cache = home => cache' = home'
              /\ dlog[tail] = cache[lh[tail]] => cache' = cache
  <2>1. /\ UNCHANGED <<dlog, head, lh>> /\ Len(lh) \in Nat /\ DOMAIN lh = 1..Len(lh)
        /\ home'  = [home  EXCEPT ![lh[tail]] = dlog[tail]]
        /\ cache' = [cache EXCEPT ![lh[tail]] = dlog[tail]]
    BY <1>11 DEF InstallBlock, TypeOK
  <2>2. tail \in 1..Len(lh) /\ \A i \in 1..Len(lh) : lh[i] \in Blocks
    BY <1>11, <2>1 DEF TypeOK
  <2>3. ASSUME NEW i \in 1..tail PROVE home'[lh[i]] = dlog[i]
    <3>1. CASE i = tail
      BY <2>1, <2>2, <3>1 DEF TypeOK
    <3>2. CASE i # tail
      <4>1. i \in DOMAIN lh /\ i < tail /\ lh[i] # lh[tail]
        BY <2>1, <2>2, <3>2 DEF DataInv, Injective
      <4>. QED BY <1>11, <2>1, <2>2, <4>1 DEF Installed, TypeOK
    <3>. QED BY <3>1, <3>2
  <2>4. lh[tail] \in Range(lh)
    BY <1>11 DEF Range
  <2>. QED BY <2>1, <2>2, <2>3, <2>4 DEF TypeOK
<1>12. ASSUME NEW p \in Procs, InstallTrans(p) PROVE DataInv'
  <2>0. pc[p] = "install" /\ pc[p] \in CommitStates
    BY <1>12 DEF InstallTrans, CommitStates
  <2>1. boot = "up" /\ \A q \in Procs, b \in Blocks : blk[q] # b
    BY <1>7, <2>0
  <2>2. /\ tail \in DOMAIN lh /\ head = lh
        /\ Logged(Len(lh) + 1) /\ Installed(tail)
    BY <2>0 DEF DataInv
  <2>3. /\ InstallBlock /\ UNCHANGED <<blk, boot>>
    BY <1>12 DEF InstallTrans
  <2>4. /\ UNCHANGED <<dlog, head, lh>>
        /\ Len(lh) \in Nat /\ DOMAIN lh = 1..Len(lh)
        /\ \A i \in 1..tail : home'[lh[i]] = dlog[i]
        /\ \A b \in Blocks : b \notin Range(lh) =>
              home'[b] = home[b] /\ cache'[b] = cache[b]
    BY <1>11, <2>2, <2>3
  <2>5. dlog[tail] = cache[lh[tail]]
    BY <2>2, <2>4 DEF Logged
  <2>6. cache' = cache
    BY <1>11, <2>2, <2>3, <2>5
  <2>7. Logged(Len(lh) + 1)'
    BY <2>2, <2>4, <2>6 DEF Logged
  <2>8. \A b \in Blocks : b \notin Range(lh') => cache'[b] = home'[b]
    BY <2>1, <2>4 DEF DataInv
  <2>9. CASE tail = Len(lh)
    <3>1. pc' = [pc EXCEPT ![p] = "clear"]
      BY <1>12, <2>9 DEF InstallTrans
    <3>2. Installed(Len(lh) + 1)'
      BY <2>4, <2>9 DEF Installed
    <3>. QED BY <1>8, <2>0, <2>2, <2>3, <2>4, <2>7, <2>8, <3>1, <3>2
           DEF CommitStates
  <2>10. CASE tail # Len(lh)
    <3>1. pc' = pc /\ tail' = tail + 1
      BY <1>12, <2>10 DEF InstallTrans
    <3>2. pc' = [pc EXCEPT ![p] = "install"]
      BY <2>0, <3>1 DEF TypeOK
    <3>3. tail' \in DOMAIN lh'
      BY <2>2, <2>4, <2>10, <3>1
    <3>4. \A i \in DOMAIN lh : i < tail' => i \in 1..tail
      BY <2>2, <2>4, <3>1
    <3>5. Installed(tail)'
      BY <2>4, <3>4 DEF Installed
    <3>. QED BY <1>8, <2>0, <2>2, <2>3, <2>4, <2>7, <2>8, <3>2, <3>3, <3>5
           DEF CommitStates
  <2>. QED BY <2>9, <2>10
<1>13. ASSUME NEW p \in Procs, ClearLog(p) PROVE DataInv'
  <2>0. pc[p] = "clear" /\ pc[p] \in CommitStates
    BY <1>13 DEF ClearLog, CommitStates
  <2>1. /\ boot = "up" /\ \A q \in Procs, b \in Blocks : blk[q] # b
        /\ Len(lh) \in Nat /\ DOMAIN lh = 1..Len(lh)
    BY <1>7, <2>0
  <2>2. Logged(Len(lh) + 1) /\ Installed(Len(lh) + 1)
    BY <2>0 DEF DataInv
  <2>3. \A b \in Blocks : cache[b] = home[b]
    <3>1. ASSUME NEW b \in Blocks, b \in Range(lh) PROVE cache[b] = home[b]
      BY <2>1, <2>2, <3>1 DEF Logged, Installed, Range
    <3>. QED BY <2>1, <3>1 DEF DataInv
  <2>4. /\ UNCHANGED <<home, cache, blk, boot>> /\ lh' = <<>> /\ head' = <<>>
        /\ pc' = [pc EXCEPT ![p] = "end_commit"]
    BY <1>13 DEF ClearLog
  <2>. QED BY <1>8, <2>0, <2>3, <2>4 DEF CommitStates
<1>14. ASSUME NEW p \in Procs, EndCommit(p) PROVE DataInv'
  <2>0. pc[p] = "end_commit" /\ pc[p] \in CommitStates
    BY <1>14 DEF EndCommit, CommitStates
  <2>1. \A q \in Procs : pc[q] \in CommitStates => q = p
    BY <1>7, <2>0
  <2>2. /\ UNCHANGED <<home, dlog, head, cache, lh, blk, boot, tail>>
        /\ pc' = Wakeup([pc EXCEPT ![p] = "idle"])
    BY <1>14 DEF EndCommit, disk
  <2>3. \A q \in Procs : pc'[q] \notin CommitStates
    BY <2>1, <2>2 DEF Wakeup, CommitStates, TypeOK
  <2>4. head = <<>> /\ boot = "up"
    <3>1. \A q \in Procs : pc[q] \notin {"install", "clear"}
      BY <2>0, <2>1 DEF CommitStates
    <3>. QED BY <1>7, <2>0, <3>1 DEF DataInv
  <2>. QED BY <2>2, <2>3, <2>4 DEF DataInv, Injective, CommitStates
<1>15. CASE Crash
  BY <1>15 DEF Crash, disk, DataInv, Injective
<1>16. CASE ReadHead
  <2>1. /\ boot' # "up" /\ \A q \in Procs : pc'[q] = "idle"
        /\ UNCHANGED <<home, dlog, head, cache, tail>> /\ lh' = head
        /\ cache = home /\ tail = 1
    BY <1>16 DEF ReadHead, disk, proc, CountInv, DataInv
  <2>2. CASE head = <<>>
    BY <1>16, <2>1, <2>2 DEF ReadHead, DataInv, Injective, Installed
  <2>3. CASE head # <<>>
    <3>1. boot' = "install" /\ 1 \in DOMAIN head
      BY <1>16, <2>3, EmptySeq DEF ReadHead, TypeOK
    <3>2. \A i \in DOMAIN head : ~(i < 1)
      BY DEF TypeOK
    <3>. QED BY <2>1, <3>1, <3>2 DEF DataInv, Injective, Installed
  <2>. QED BY <2>2, <2>3
<1>17. CASE RecoverInstall
  <2>1. /\ boot = "install" /\ \A q \in Procs : pc'[q] = "idle"
        /\ head = lh /\ tail \in DOMAIN lh /\ Installed(tail) /\ cache = home
        /\ InstallBlock
    BY <1>17 DEF RecoverInstall, proc, CountInv, DataInv
  <2>2. /\ UNCHANGED <<dlog, head, lh>>
        /\ Len(lh) \in Nat /\ DOMAIN lh = 1..Len(lh)
        /\ \A i \in 1..tail : home'[lh[i]] = dlog[i]
        /\ cache' = home'
    BY <1>11, <2>1
  <2>3. CASE tail = Len(lh)
    <3>1. boot' = "clear"
      BY <1>17, <2>3 DEF RecoverInstall
    <3>2. Installed(Len(lh) + 1)'
      BY <2>2, <2>3 DEF Installed
    <3>. QED BY <2>1, <2>2, <3>1, <3>2 DEF DataInv, Injective
  <2>4. CASE tail # Len(lh)
    <3>1. boot' = "install" /\ tail' = tail + 1
      BY <1>17, <2>1, <2>4 DEF RecoverInstall
    <3>2. tail' \in DOMAIN lh'
      BY <2>1, <2>2, <2>4, <3>1
    <3>3. \A i \in DOMAIN lh : i < tail' => i \in 1..tail
      BY <2>1, <2>2, <3>1
    <3>4. Installed(tail)'
      BY <2>2, <3>3 DEF Installed
    <3>. QED BY <2>1, <2>2, <3>1, <3>2, <3>4 DEF DataInv, Injective
  <2>. QED BY <2>3, <2>4
<1>18. CASE RecoverClear
  BY <1>18 DEF RecoverClear, proc, CountInv, DataInv, Injective
<1>19. CASE UNCHANGED vars
  BY <1>1, <1>19 DEF vars, mem, proc
<1>. QED
  BY <1>2, <1>4, <1>5, <1>6, <1>9, <1>10, <1>12, <1>13, <1>14, <1>15, <1>16,
     <1>17, <1>18, <1>19 DEF Next, Commit, Recover

-----------------------------------------------------------------------------
(* The inductive invariant, and the properties that follow from it. *)

(* The log keeps IInv: TypeOK and the three parts above. *)
THEOREM LogInvariant ==
  ASSUME LogRoom
  PROVE  Spec => []IInv
<1>1. Init => IInv
  BY TypeInit, CountInit, ReserveInit, DataInit DEF IInv
<1>2. IInv /\ [Next]_vars => IInv'
  BY LogRoom, TypeStep, CountStep, ReserveStep, DataStep DEF IInv
<1>. QED BY <1>1, <1>2, PTL DEF Spec

(* Type correctness of the log's state. *)
THEOREM LogTypeCorrect ==
  ASSUME LogRoom
  PROVE  Spec => []TypeOK
<1>1. IInv => TypeOK
  BY DEF IInv
<1>. QED BY <1>1, LogInvariant, LogRoom, PTL

(* No panic of log.c is reachable: begin_op() admits an operation only     *)
(* when everything that is reserved still fits.                            *)
THEOREM LogNoPanic ==
  ASSUME LogRoom
  PROVE  Spec => []NoPanic
<1>1. IInv => NoPanic
  BY DEF IInv, CountInv, NoPanic
<1>. QED BY <1>1, LogInvariant, LogRoom, PTL

(* The transaction always fits the on-disk log area and the header array,  *)
(* in spite of log_write()'s unlocked test.                                *)
THEOREM LogAlwaysFits ==
  ASSUME LogRoom
  PROVE  Spec => []LogFits
<1>1. IInv => LogFits
  BY LogBound, LogRoom, LogConstants DEF IInv, LogFits, LogConstants, TypeOK
<1>. QED BY <1>1, LogInvariant, LogRoom, PTL

(* A commit excludes operations and other commits. *)
THEOREM LogCommitExclusive ==
  ASSUME LogRoom
  PROVE  Spec => []CommitExclusive
<1>1. IInv => CommitExclusive
  BY DEF IInv, CountInv, CommitExclusive, Active, Committers
<1>. QED BY <1>1, LogInvariant, LogRoom, PTL

-----------------------------------------------------------------------------
(* begin_op() loses no wakeup. *)

(* Every step leaves each sleeper in begin_op() somebody to wake it. *)
LEMMA SleeperStep ==
  ASSUME IInv, LogRoom, [Next]_vars, SleeperHasWaker
  PROVE  SleeperHasWaker'
<1> USE LogConstants DEF LogConstants, IInv
<1> USE DEF SleeperHasWaker
<1>1. ASSUME NEW p \in Procs, BeginOp(p) PROVE SleeperHasWaker'
  <2>1. CASE MustWait
    <3>1. \E q \in Procs : pc[q] \in OpStates \union CommitStates
      <4>1. CASE committing = 1
        BY <4>1 DEF CountInv, Committers
      <4>2. CASE committing # 1 /\ outstanding = 0
        <5>1. Active = {} /\ Committers = {}
          BY <4>2, LogBound, FS_EmptySet DEF CountInv
        <5>2. lh = <<>>
          BY <1>1, <5>1 DEF BeginOp, CountInv
        <5>3. FALSE
          BY <2>1, <4>2, <5>2 DEF MustWait
        <5>. QED BY <5>3
      <4>3. CASE outstanding # 0
        <5>1. Active # {}
          BY <4>3, FS_EmptySet DEF CountInv
        <5>. QED BY <5>1 DEF Active
      <4>. QED BY <4>1, <4>2, <4>3
    <3>. QED BY <1>1, <2>1, <3>1 DEF BeginOp, OpStates, CommitStates, TypeOK
  <2>2. CASE ~MustWait
    BY <1>1, <2>2 DEF BeginOp, OpStates, TypeOK
  <2>. QED BY <2>1, <2>2
<1>2. ASSUME NEW p \in Procs, NEW b \in Blocks, NEW v \in Vals,
             LogWriteCheck(p, b, v)
      PROVE  SleeperHasWaker'
  BY <1>2 DEF LogWriteCheck, OpStates, TypeOK
<1>3. ASSUME NEW p \in Procs, LogWriteAppend(p) PROVE SleeperHasWaker'
  BY <1>3 DEF LogWriteAppend, OpStates, TypeOK
<1>4. ASSUME NEW f, pc' = Wakeup(f) PROVE SleeperHasWaker'
  BY <1>4 DEF Wakeup
<1>5. ASSUME NEW p \in Procs, EndOp(p) PROVE SleeperHasWaker'
  <2>1. CASE committing = 1
    BY <1>5, <2>1 DEF EndOp
  <2>2. CASE committing # 1 /\ outstanding' = 0
    <3>. DEFINE s == IF lh = <<>> THEN "end_commit" ELSE "write_log"
    <3>1. pc' = [pc EXCEPT ![p] = s]
      BY <1>5, <2>2, Zenon DEF EndOp
    <3>2. s \in CommitStates
      BY DEF CommitStates
    <3>. QED BY <3>1, <3>2 DEF TypeOK
  <2>3. CASE committing # 1 /\ outstanding' # 0
    BY <1>4, <1>5, <2>3 DEF EndOp
  <2>. QED BY <2>1, <2>2, <2>3
<1>6. ASSUME NEW p \in Procs, Commit(p) PROVE SleeperHasWaker'
  <2>1. CASE EndCommit(p)
    BY <1>4, <2>1 DEF EndCommit
  <2>. QED BY <1>6, <2>1 DEF Commit, WriteLog, WriteHead, InstallTrans, ClearLog,
              CommitStates, TypeOK
<1>7. CASE Crash
  BY <1>7 DEF Crash
<1>8. CASE Recover
  BY <1>8 DEF Recover, ReadHead, RecoverInstall, RecoverClear, proc
<1>9. CASE UNCHANGED vars
  BY <1>9 DEF vars, proc
<1>. QED BY <1>1, <1>2, <1>3, <1>5, <1>6, <1>7, <1>8, <1>9 DEF Next

(* Whoever sleeps in begin_op() has an operation or a commit to wait for. *)
THEOREM LogNoLostWakeup ==
  ASSUME LogRoom
  PROVE  Spec => []SleeperHasWaker
<1>1. Init => SleeperHasWaker
  BY DEF Init, SleeperHasWaker
<1>2. IInv /\ SleeperHasWaker /\ [Next]_vars => SleeperHasWaker'
  BY SleeperStep, LogRoom
<1>. QED BY <1>1, <1>2, LogInvariant, LogRoom, PTL DEF Spec

-----------------------------------------------------------------------------
(* Refinement: the log implements AtomicDisk. *)

(* What recovery would produce, by the state the disk is in. *)
LEMMA RecoveredEmpty ==
  ASSUME TypeOK, head = <<>>
  PROVE  Recovered = home
  BY DEF TypeOK, Recovered, Range

(* Once every logged block is installed, recovery would change nothing. *)
LEMMA RecoveredInstalled ==
  ASSUME TypeOK, head = lh, Installed(Len(lh) + 1)
  PROVE  Recovered = home
<1>1. DOMAIN lh = 1..Len(lh) /\ Len(lh) \in Nat
  BY DEF TypeOK
<1>2. ASSUME NEW b \in Blocks, b \in Range(lh)
      PROVE  dlog[CHOOSE i \in DOMAIN lh : lh[i] = b] = home[b]
  <2>1. \E i \in DOMAIN lh : lh[i] = b
    BY <1>2 DEF Range
  <2>. DEFINE k == CHOOSE i \in DOMAIN lh : lh[i] = b
  <2>2. k \in DOMAIN lh /\ lh[k] = b
    BY <2>1
  <2>. QED BY <1>1, <2>2 DEF Installed
<1>. QED BY <1>2 DEF Recovered, TypeOK

(* Installing blocks that the header names does not change what recovery   *)
(* would produce.                                                          *)
LEMMA RecoveredInstall ==
  ASSUME TypeOK, InstallBlock, head = lh, tail \in DOMAIN lh
  PROVE  Recovered' = Recovered
<1>1. lh[tail] \in Range(lh)
  BY DEF Range
<1>2. /\ \A b \in Blocks : b \notin Range(lh) => home'[b] = home[b]
      /\ UNCHANGED <<dlog, head>>
  BY <1>1 DEF InstallBlock, TypeOK
<1>. QED BY <1>2 DEF Recovered

(* A freshly formatted disk is a state of the atomic disk. *)
LEMMA RefinesInit == Init => Abstract!Init
<1> SUFFICES ASSUME Init PROVE Abstract!Init
  OBVIOUS
<1>1. Recovered = home
  BY TypeInit, RecoveredEmpty DEF Init
<1>. QED BY <1>1 DEF Init, Abstract!Init, OpStates, CommitStates

(* Every step of the log is one of the atomic disk, or none. *)
LEMMA RefinesStep ==
  ASSUME IInv, IInv', LogRoom, [Next]_vars
  PROVE  [Abstract!Next]_Abstract!vars
<1> USE LogConstants DEF LogConstants, IInv
<1>. DEFINE current == IF boot = "up" THEN cache ELSE Recovered
<1>0. /\ Active = {p \in Procs : pc[p] \in OpStates}
      /\ Committers = {p \in Procs : pc[p] \in CommitStates}
  BY DEF Active, Committers
<1>s. ASSUME Recovered' = Recovered, current' = current,
             Active' = Active, Committers' = Committers
      PROVE  UNCHANGED Abstract!vars
  BY <1>s DEF Abstract!vars, Active, Committers
<1>1. ASSUME UNCHANGED disk PROVE Recovered' = Recovered
  BY <1>1 DEF disk, Recovered
<1>2. ASSUME NEW p \in Procs, BeginOp(p) PROVE [Abstract!Next]_Abstract!vars
  <2>1. Recovered' = Recovered /\ current' = current
    BY <1>1, <1>2 DEF BeginOp
  <2>2. CASE MustWait
    <3>1. Active' = Active /\ Committers' = Committers
      BY <1>2, <2>2 DEF BeginOp, Active, Committers, OpStates, CommitStates, TypeOK
    <3>. QED BY <1>s, <2>1, <3>1
  <2>3. CASE ~MustWait
    <3>1. Active' = Active \union {p} /\ Committers' = Committers
      BY <1>2, <2>3 DEF BeginOp, Active, Committers, OpStates, CommitStates, TypeOK
    <3>2. Committers = {}
      BY <2>3 DEF MustWait, CountInv
    <3>3. Abstract!Begin(p)
      BY <2>1, <3>1, <3>2 DEF Abstract!Begin, Active, Committers
    <3>. QED BY <3>3 DEF Abstract!Next
  <2>. QED BY <2>2, <2>3
<1>3. ASSUME NEW p \in Procs, NEW b \in Blocks, NEW v \in Vals,
             LogWriteCheck(p, b, v)
      PROVE  [Abstract!Next]_Abstract!vars
  <2>1. panicked' = "none" /\ panicked = "none"
    BY DEF CountInv
  <2>2. /\ Recovered' = Recovered
        /\ cache' = [cache EXCEPT ![b] = v]
        /\ pc' = [pc EXCEPT ![p] = "log_write"]
        /\ boot' = boot
    BY <1>1, <1>3, <2>1 DEF LogWriteCheck
  <2>3. p \in Active /\ boot = "up"
    BY <1>3 DEF LogWriteCheck, CountInv, Active, OpStates
  <2>4. Active' = Active /\ Committers' = Committers
    BY <2>2, <2>3 DEF Active, Committers, OpStates, CommitStates, TypeOK
  <2>5. Abstract!Write(p, b, v)
    BY <2>2, <2>3, <2>4 DEF Abstract!Write, Active, Committers
  <2>. QED BY <2>5 DEF Abstract!Next
<1>4. ASSUME NEW p \in Procs, LogWriteAppend(p) PROVE [Abstract!Next]_Abstract!vars
  <2>1. Recovered' = Recovered /\ current' = current
    BY <1>1, <1>4 DEF LogWriteAppend
  <2>2. Active' = Active /\ Committers' = Committers
    BY <1>4 DEF LogWriteAppend, Active, Committers, OpStates, CommitStates, TypeOK
  <2>. QED BY <1>s, <2>1, <2>2
<1>5. ASSUME NEW p \in Procs, EndOp(p) PROVE [Abstract!Next]_Abstract!vars
  <2>1. Recovered' = Recovered /\ current' = current
    BY <1>1, <1>5 DEF EndOp
  <2>2. p \in Active /\ Committers = {} /\ committing = 0
    BY <1>5 DEF EndOp, Active, OpStates, CountInv, TypeOK
  <2>3. Active' = Active \ {p} /\ Committers' = IF Active' = {} THEN {p} ELSE {}
    <3>1. CASE outstanding' = 0
      <4>1. pc' = [pc EXCEPT ![p] = "end_commit"] \/ pc' = [pc EXCEPT ![p] = "write_log"]
        <5>. DEFINE s == IF lh = <<>> THEN "end_commit" ELSE "write_log"
        <5>1. s \in {"end_commit", "write_log"}
          OBVIOUS
        <5>2. pc' = [pc EXCEPT ![p] = s]
          <6>1. committing # 1
            BY <2>2
          <6>. QED BY <1>5, <3>1, <6>1, Zenon DEF EndOp
        <5>. HIDE DEF s
        <5>. QED BY <5>1, <5>2
      <4>2. Active' = Active \ {p} /\ Committers' = {p}
        BY <2>2, <4>1 DEF Active, Committers, OpStates, CommitStates, TypeOK
      <4>3. Active' = {}
        <5>1. \A q \in Committers' : Active' = {}
          BY DEF CountInv
        <5>. QED BY <4>2, <5>1
      <4>. QED BY <4>2, <4>3
    <3>2. CASE outstanding' # 0
      <4>1. pc' = Wakeup([pc EXCEPT ![p] = "idle"])
        BY <1>5, <2>2, <3>2 DEF EndOp
      <4>. DEFINE f == [pc EXCEPT ![p] = "idle"]
      <4>2. f \in [Procs -> PCs] /\ pc' = Wakeup(f)
        BY <4>1 DEF TypeOK, PCs
      <4>3. \A q \in Procs : \A t \in OpStates \union CommitStates :
               pc'[q] = t <=> f[q] = t
        <5>. HIDE DEF f
        <5>. QED BY <4>2, WakeupPC
      <4>4. Active' = Active \ {p} /\ Committers' = {}
        <5>1. \A q \in Procs : pc'[q] \in OpStates <=> (pc[q] \in OpStates /\ q # p)
          BY <4>3 DEF OpStates, CommitStates, TypeOK
        <5>2. \A q \in Procs : pc'[q] \notin CommitStates
          BY <2>2, <4>3 DEF OpStates, CommitStates, Committers, TypeOK
        <5>. QED BY <5>1, <5>2 DEF Active, Committers
      <4>5. Active' # {}
        <5>1. outstanding' = Cardinality(Active')
          BY DEF CountInv
        <5>. QED BY <3>2, <5>1, FS_EmptySet
      <4>. QED BY <4>4, <4>5
    <3>. QED BY <3>1, <3>2
  <2>4. Abstract!End(p)
    BY <2>1, <2>2, <2>3 DEF Abstract!End, Active, Committers
  <2>. QED BY <2>4 DEF Abstract!Next
<1>6. ASSUME NEW p \in Procs, WriteLog(p) PROVE [Abstract!Next]_Abstract!vars
  <2>1. head = <<>> /\ boot = "up"
    <3>1. p \in Committers
      BY <1>6 DEF WriteLog, Committers, CommitStates
    <3>2. \A q \in Procs : pc[q] \notin {"install", "clear"}
      <4>1. Committers = {p}
        BY <3>1 DEF CountInv
      <4>. QED BY <1>6, <4>1 DEF WriteLog, Committers, CommitStates
    <3>3. boot = "up"
      BY <1>6 DEF WriteLog, CountInv
    <3>. QED BY <3>2, <3>3 DEF DataInv
  <2>2. head' = <<>> /\ home' = home /\ boot' = boot /\ cache' = cache
    BY <1>6, <2>1 DEF WriteLog, mem
  <2>3. Recovered = home
    BY <2>1, RecoveredEmpty
  <2>4. Recovered' = home'
    BY <2>2 DEF Recovered, TypeOK, Range
  <2>5. Active' = Active /\ Committers' = Committers
    BY <1>6 DEF WriteLog, Active, Committers, OpStates, CommitStates, TypeOK
  <2>. QED BY <1>s, <2>2, <2>3, <2>4, <2>5
<1>7. ASSUME NEW p \in Procs, WriteHead(p) PROVE [Abstract!Next]_Abstract!vars
  <2>1. p \in Committers /\ boot = "up"
    BY <1>7 DEF WriteHead, Committers, CommitStates, CountInv
  <2>2. Committers = {p} /\ Active = {}
    BY <2>1 DEF CountInv
  <2>3. /\ head' = lh /\ lh' = lh /\ dlog' = dlog /\ home' = home
        /\ cache' = cache /\ boot' = boot
    BY <1>7 DEF WriteHead, mem
  <2>4. Logged(Len(lh) + 1)
    BY <1>7 DEF WriteHead, DataInv
  <2>5. \A b \in Blocks : b \notin Range(lh) => cache[b] = home[b]
    <3>1. \A q \in Procs : blk[q] = NoBlock
      BY <2>2 DEF CountInv, Active, OpStates
    <3>. QED BY <2>1, <3>1 DEF DataInv
  <2>6. Recovered' = cache
    <3>1. DOMAIN lh = 1..Len(lh) /\ Len(lh) \in Nat
      BY DEF TypeOK
    <3>2. ASSUME NEW b \in Blocks, b \in Range(lh)
          PROVE  dlog[CHOOSE i \in DOMAIN lh : lh[i] = b] = cache[b]
      <4>1. \E i \in DOMAIN lh : lh[i] = b
        BY <3>2 DEF Range
      <4>. DEFINE k == CHOOSE i \in DOMAIN lh : lh[i] = b
      <4>2. k \in DOMAIN lh /\ lh[k] = b
        BY <4>1
      <4>. QED BY <2>4, <3>1, <4>2 DEF Logged
    <3>3. Recovered' = [b \in Blocks |-> IF b \in Range(lh)
                          THEN dlog[CHOOSE i \in DOMAIN lh : lh[i] = b]
                          ELSE home[b]]
      BY <2>3 DEF Recovered
    <3>. QED BY <2>5, <3>2, <3>3 DEF TypeOK
  <2>7. Active' = Active /\ Committers' = Committers
    BY <1>7 DEF WriteHead, Active, Committers, OpStates, CommitStates, TypeOK
  <2>8. Abstract!Commit
    BY <2>1, <2>2, <2>3, <2>6, <2>7 DEF Abstract!Commit, Active, Committers
  <2>. QED BY <2>8 DEF Abstract!Next
<1>8. ASSUME NEW p \in Procs, InstallTrans(p) PROVE [Abstract!Next]_Abstract!vars
  <2>1. /\ tail \in DOMAIN lh /\ head = lh /\ Logged(Len(lh) + 1)
        /\ boot = "up" /\ boot' = boot /\ InstallBlock
    BY <1>8 DEF InstallTrans, DataInv, CountInv
  <2>2. Recovered' = Recovered
    BY <2>1, RecoveredInstall
  <2>3. cache' = cache
    <3>1. DOMAIN lh = 1..Len(lh) /\ Len(lh) \in Nat /\ lh[tail] \in Blocks
      BY <2>1 DEF TypeOK
    <3>2. dlog[tail] = cache[lh[tail]]
      BY <2>1, <3>1 DEF Logged
    <3>. QED BY <2>1, <3>1, <3>2 DEF InstallBlock, TypeOK
  <2>4. Active' = Active /\ Committers' = Committers
    BY <1>8 DEF InstallTrans, Active, Committers, OpStates, CommitStates, TypeOK
  <2>. QED BY <1>s, <2>1, <2>2, <2>3, <2>4
<1>9. ASSUME NEW p \in Procs, ClearLog(p) PROVE [Abstract!Next]_Abstract!vars
  <2>1. /\ head = lh /\ Installed(Len(lh) + 1) /\ head' = <<>>
        /\ home' = home /\ cache' = cache /\ boot' = boot
    BY <1>9 DEF ClearLog, DataInv
  <2>2. Recovered = home
    BY <2>1, RecoveredInstalled
  <2>3. Recovered' = home'
    BY <2>1 DEF Recovered, TypeOK, Range
  <2>4. Active' = Active /\ Committers' = Committers
    BY <1>9 DEF ClearLog, Active, Committers, OpStates, CommitStates, TypeOK
  <2>. QED BY <1>s, <2>1, <2>2, <2>3, <2>4
<1>10. ASSUME NEW p \in Procs, EndCommit(p) PROVE [Abstract!Next]_Abstract!vars
  <2>1. p \in Committers /\ boot = "up" /\ lh = <<>>
    BY <1>10 DEF EndCommit, Committers, CommitStates, CountInv, DataInv
  <2>2. Committers = {p} /\ Active = {}
    BY <2>1 DEF CountInv
  <2>3. head = <<>>
    <3>1. \A q \in Procs : pc[q] \notin {"install", "clear"}
      BY <1>10, <2>2 DEF EndCommit, Committers, CommitStates
    <3>. QED BY <2>1, <3>1 DEF DataInv
  <2>4. cache = home
    <3>1. \A q \in Procs : blk[q] = NoBlock
      BY <2>2 DEF CountInv, Active, OpStates
    <3>2. Range(lh) = {}
      BY <2>1 DEF Range
    <3>3. \A b \in Blocks : cache[b] = home[b]
      BY <2>1, <3>1, <3>2 DEF DataInv
    <3>. QED BY <3>3 DEF TypeOK
  <2>5. Recovered = home
    BY <2>3, RecoveredEmpty
  <2>6. Recovered' = Recovered /\ cache' = cache /\ boot' = boot
    BY <1>1, <1>10 DEF EndCommit
  <2>7. Active' = {} /\ Committers' = {}
    <3>. DEFINE f == [pc EXCEPT ![p] = "idle"]
    <3>1. f \in [Procs -> PCs] /\ pc' = Wakeup(f)
      BY <1>10 DEF EndCommit, TypeOK, PCs
    <3>2. \A q \in Procs : f[q] \notin OpStates \union CommitStates
      BY <2>2 DEF Active, Committers, OpStates, CommitStates, TypeOK
    <3>3. \A q \in Procs : pc'[q] \notin OpStates \union CommitStates
      <4>. HIDE DEF f
      <4>. QED BY <3>1, <3>2, WakeupPC
    <3>. QED BY <3>3 DEF Active, Committers
  <2>8. Abstract!Return(p)
    BY <2>1, <2>2, <2>4, <2>5, <2>6, <2>7 DEF Abstract!Return, Active, Committers
  <2>. QED BY <2>8 DEF Abstract!Next
<1>11. ASSUME Crash PROVE [Abstract!Next]_Abstract!vars
  <2>1. Recovered' = Recovered /\ boot' # "up"
    BY <1>1, <1>11 DEF Crash
  <2>2. Active' = {} /\ Committers' = {}
    BY <1>11 DEF Crash, Active, Committers, OpStates, CommitStates
  <2>3. Abstract!Crash
    BY <2>1, <2>2 DEF Abstract!Crash, Active, Committers
  <2>. QED BY <2>3 DEF Abstract!Next
<1>12. ASSUME ReadHead PROVE [Abstract!Next]_Abstract!vars
  <2>1. Recovered' = Recovered /\ boot # "up" /\ boot' # "up" /\ pc' = pc
    BY <1>1, <1>12 DEF ReadHead, proc
  <2>2. Active' = Active /\ Committers' = Committers
    BY <2>1 DEF Active, Committers
  <2>. QED BY <1>s, <2>1, <2>2
<1>13. ASSUME RecoverInstall PROVE [Abstract!Next]_Abstract!vars
  <2>1. Recovered' = Recovered
    BY <1>13, RecoveredInstall DEF RecoverInstall, DataInv
  <2>2. boot # "up" /\ boot' # "up" /\ pc' = pc
    BY <1>13 DEF RecoverInstall, proc
  <2>3. Active' = Active /\ Committers' = Committers
    BY <2>2 DEF Active, Committers
  <2>. QED BY <1>s, <2>1, <2>2, <2>3
<1>14. ASSUME RecoverClear PROVE [Abstract!Next]_Abstract!vars
  <2>1. /\ head = lh /\ Installed(Len(lh) + 1) /\ cache = home
        /\ head' = <<>> /\ home' = home /\ cache' = cache /\ pc' = pc
        /\ boot = "clear" /\ boot' = "up"
    BY <1>14 DEF RecoverClear, DataInv, proc
  <2>2. Recovered = home
    BY <2>1, RecoveredInstalled
  <2>3. Recovered' = home'
    BY <2>1 DEF Recovered, TypeOK, Range
  <2>4. Active' = Active /\ Committers' = Committers
    BY <2>1 DEF Active, Committers
  <2>. QED BY <1>s, <2>1, <2>2, <2>3, <2>4
<1>15. ASSUME UNCHANGED vars PROVE [Abstract!Next]_Abstract!vars
  <2>1. Recovered' = Recovered /\ current' = current /\ pc' = pc
    BY <1>1, <1>15 DEF vars, mem, proc
  <2>2. Active' = Active /\ Committers' = Committers
    BY <2>1 DEF Active, Committers
  <2>. QED BY <1>s, <2>1, <2>2
<1>. QED
  BY <1>2, <1>3, <1>4, <1>5, <1>6, <1>7, <1>8, <1>9, <1>10, <1>11, <1>12,
     <1>13, <1>14, <1>15 DEF Next, Commit, Recover

(* The log implements the atomic disk for every log size that LogRoom      *)
(* admits: commit() is atomic at every crash point of write_log(),         *)
(* write_head() and install_trans(), and recovery may itself crash.        *)
THEOREM LogImplementsAtomicDisk ==
  ASSUME LogRoom
  PROVE  Spec => AtomicCommit
<1>1. Spec => []IInv
  BY LogInvariant
<1>2. Init => Abstract!Init
  BY RefinesInit
<1>3. IInv /\ IInv' /\ [Next]_vars => [Abstract!Next]_Abstract!vars
  BY RefinesStep
<1>. QED BY <1>1, <1>2, <1>3, PTL DEF Spec, AtomicCommit, Abstract!Spec
=============================================================================
