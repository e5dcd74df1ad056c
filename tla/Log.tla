-------------------------------- MODULE Log --------------------------------
(***************************************************************************)
(* The redo log of log.c: group commit of concurrent file-system           *)
(* operations, and recovery after a crash.                                 *)
(*                                                                         *)
(* Everything done under log.lock is one action.  A disk write (bwrite of  *)
(* one block, which sleeps until the disk has finished) is one action, so  *)
(* that a crash can fall between any two of them.  A crash forgets all     *)
(* memory and keeps the disk.                                              *)
(***************************************************************************)
EXTENDS Integers, Sequences, FiniteSets, Functions

CONSTANTS
  Procs,        \* processes that run file-system operations
  Blocks,       \* home blocks (everything outside the log area)
  Vals,         \* contents of a block
  NoBlock,      \* no buffer in hand
  LOGSIZE,      \* param.h: capacity of logheader.block[]
  MAXOPBLOCKS,  \* param.h: blocks reserved for one operation
  NLOG,         \* sb.nlog: disk blocks of the log, the header included
  OpBlocks,     \* distinct blocks an operation really writes, at most
  MaxCrashes    \* bound on the number of crashes

ASSUME LogConstants ==
  /\ IsFiniteSet(Procs)
  /\ NoBlock \notin Blocks
  /\ LOGSIZE \in Nat /\ MAXOPBLOCKS \in Nat /\ NLOG \in Nat
  /\ MAXOPBLOCKS <= LOGSIZE
  /\ OpBlocks \in 0..MAXOPBLOCKS
  /\ MaxCrashes \in Nat

VARIABLES
  home,         \* disk: the home blocks
  dlog,         \* disk: the data blocks of the log, slot i at log.start+i
  head,         \* disk: the header block
  cache,        \* contents of the home blocks as bread() returns them
  lh,           \* log.lh
  outstanding,  \* log.outstanding
  committing,   \* log.committing
  pc,           \* where each process is in begin_op/log_write/end_op/commit
  blk,          \* the block a process is handing to log_write()
  used,         \* blocks written so far by a process's current operation
  tail,         \* loop index of write_log() and install_trans()
  boot,         \* progress of recover_from_log(), "up" once it is done
  panicked,     \* the message of the panic that stopped the machine
  crashes       \* number of crashes so far

disk == <<home, dlog, head>>
mem  == <<cache, lh, outstanding, committing>>
proc == <<pc, blk, used>>
vars == <<disk, mem, proc, tail, boot, panicked, crashes>>

OpStates     == {"op", "log_write"}
CommitStates == {"write_log", "write_head", "install", "clear", "end_commit"}
PCs          == {"idle", "begin", "asleep"} \union OpStates \union CommitStates

Panics == {"none", "too big a transaction", "log_write outside of trans",
           "log.committing"}

Slots == 1..LOGSIZE

TypeOK ==
  /\ home \in [Blocks -> Vals]
  /\ dlog \in [Slots -> Vals]
  /\ head \in Seq(Blocks)
  /\ cache \in [Blocks -> Vals]
  /\ lh \in Seq(Blocks)
  /\ outstanding \in Nat
  /\ committing \in {0, 1}
  /\ pc \in [Procs -> PCs]
  /\ blk \in [Procs -> Blocks \union {NoBlock}]
  /\ used \in [Procs -> SUBSET Blocks]
  /\ tail \in Nat
  /\ boot \in {"read_head", "install", "clear", "up"}
  /\ panicked \in Panics
  /\ crashes \in 0..MaxCrashes

(* A freshly made file system: empty log, nothing in memory. *)
Init ==
  /\ home \in [Blocks -> Vals]
  /\ dlog \in [Slots -> Vals]
  /\ head = <<>>
  /\ cache = home
  /\ lh = <<>>
  /\ outstanding = 0
  /\ committing = 0
  /\ pc = [p \in Procs |-> "idle"]
  /\ blk = [p \in Procs |-> NoBlock]
  /\ used = [p \in Procs |-> {}]
  /\ tail = 1
  /\ boot = "read_head"
  /\ panicked = "none"
  /\ crashes = 0

-----------------------------------------------------------------------------
(* Operations.  A process woken from its sleep on &log runs begin_op()'s   *)
(* loop again, from "begin".                                               *)

\* mutant: nobody is woken
NoWakeup(f) == f

Wakeup(f) == [p \in Procs |-> IF f[p] = "asleep" THEN "begin" ELSE f[p]]

(* Process p is at point s, on a machine that has not panicked. *)
At(p, s) == panicked = "none" /\ pc[p] = s

\* mutant: a commit in progress is not waited for
MustWaitForRoom == Len(lh) + (outstanding + 1) * MAXOPBLOCKS > LOGSIZE

\* mutant: the reservation forgets the operation that begins
MustWaitOneLess ==
  committing = 1 \/ Len(lh) + outstanding * MAXOPBLOCKS > LOGSIZE

MustWait ==
  committing = 1 \/ Len(lh) + (outstanding + 1) * MAXOPBLOCKS > LOGSIZE

BeginOp(p) ==
  /\ boot = "up"
  /\ At(p, "idle") \/ At(p, "begin")
  /\ IF MustWait
     THEN /\ pc' = [pc EXCEPT ![p] = "asleep"]
          /\ UNCHANGED outstanding
     ELSE /\ outstanding' = outstanding + 1
          /\ pc' = [pc EXCEPT ![p] = "op"]
  /\ UNCHANGED <<disk, cache, lh, committing, blk, used, tail, boot, panicked, crashes>>

(* The caller holds the buffer of block b, has modified it, and log_write  *)
(* makes its checks before it takes log.lock.                              *)
LogWriteCheck(p, b, v) ==
  /\ At(p, "op")
  /\ \A q \in Procs : blk[q] # b
  /\ Cardinality(used[p] \union {b}) <= OpBlocks
  /\ IF Len(lh) >= LOGSIZE \/ Len(lh) >= NLOG - 1
     THEN panicked' = "too big a transaction" /\ UNCHANGED <<cache, pc, blk>>
     ELSE IF outstanding < 1
     THEN panicked' = "log_write outside of trans" /\ UNCHANGED <<cache, pc, blk>>
     ELSE /\ cache' = [cache EXCEPT ![b] = v]
          /\ pc' = [pc EXCEPT ![p] = "log_write"]
          /\ blk' = [blk EXCEPT ![p] = b]
          /\ UNCHANGED panicked
  /\ UNCHANGED <<disk, lh, outstanding, committing, used, tail, boot, crashes>>

(* Under log.lock: a block that is already in the log is absorbed. *)
LogWriteAppend(p) ==
  /\ At(p, "log_write")
  /\ lh' = IF blk[p] \in Range(lh) THEN lh ELSE Append(lh, blk[p])
  /\ pc' = [pc EXCEPT ![p] = "op"]
  /\ blk' = [blk EXCEPT ![p] = NoBlock]
  /\ used' = [used EXCEPT ![p] = @ \union {blk[p]}]
  /\ UNCHANGED <<disk, cache, outstanding, committing, tail, boot, panicked,
                 crashes>>

(* The last operation to end commits; commit() writes nothing when the log *)
(* is empty.                                                               *)
EndOp(p) ==
  /\ At(p, "op")
  /\ outstanding' = outstanding - 1
  /\ IF committing = 1
     THEN panicked' = "log.committing" /\ UNCHANGED <<committing, pc, tail>>
     ELSE /\ UNCHANGED panicked
          /\ IF outstanding' = 0
             THEN /\ committing' = 1
                  /\ pc' = [pc EXCEPT ![p] = IF lh = <<>> THEN "end_commit"
                                                          ELSE "write_log"]
                  /\ tail' = 1
             ELSE /\ pc' = Wakeup([pc EXCEPT ![p] = "idle"])
                  /\ UNCHANGED <<committing, tail>>
  /\ used' = [used EXCEPT ![p] = {}]
  /\ UNCHANGED <<disk, cache, lh, blk, boot, crashes>>

-----------------------------------------------------------------------------
(* commit(), one disk write at a time. *)

WriteLog(p) ==
  /\ At(p, "write_log")
  /\ dlog' = [dlog EXCEPT ![tail] = cache[lh[tail]]]
  /\ IF tail = Len(lh)
     THEN tail' = 1 /\ pc' = [pc EXCEPT ![p] = "write_head"]
     ELSE tail' = tail + 1 /\ UNCHANGED pc
  /\ UNCHANGED <<home, head, mem, blk, used, boot, panicked, crashes>>

WriteHead(p) ==
  /\ At(p, "write_head")
  /\ head' = lh
  /\ pc' = [pc EXCEPT ![p] = "install"]
  /\ UNCHANGED <<home, dlog, mem, blk, used, tail, boot, panicked, crashes>>

\* mutant: the home block is written from the cache, not from the log
InstallFromCache ==
  /\ home'  = [home EXCEPT ![lh[tail]] = cache[lh[tail]]]
  /\ UNCHANGED <<dlog, head, lh, cache>>

(* The body of install_trans(): one logged block goes to its home. *)
InstallBlock ==
  /\ home'  = [home  EXCEPT ![lh[tail]] = dlog[tail]]
  /\ cache' = [cache EXCEPT ![lh[tail]] = dlog[tail]]
  /\ UNCHANGED <<dlog, head, lh>>

InstallTrans(p) ==
  /\ At(p, "install")
  /\ InstallBlock
  /\ IF tail = Len(lh)
     THEN tail' = 1 /\ pc' = [pc EXCEPT ![p] = "clear"]
     ELSE tail' = tail + 1 /\ UNCHANGED pc
  /\ UNCHANGED <<outstanding, committing, blk, used, boot, panicked, crashes>>

ClearLog(p) ==
  /\ At(p, "clear")
  /\ lh' = <<>>
  /\ head' = <<>>
  /\ pc' = [pc EXCEPT ![p] = "end_commit"]
  /\ UNCHANGED <<home, dlog, cache, outstanding, committing, blk, used, tail,
                 boot, panicked, crashes>>

EndCommit(p) ==
  /\ At(p, "end_commit")
  /\ committing' = 0
  /\ pc' = Wakeup([pc EXCEPT ![p] = "idle"])
  /\ UNCHANGED <<disk, cache, lh, outstanding, blk, used, tail, boot,
                 panicked, crashes>>

-----------------------------------------------------------------------------
(* Crash, and recover_from_log() on the next boot. *)

Crash ==
  /\ crashes < MaxCrashes
  /\ crashes' = crashes + 1
  /\ boot' = "read_head"
  /\ cache' = home
  /\ lh' = <<>>
  /\ outstanding' = 0
  /\ committing' = 0
  /\ pc' = [p \in Procs |-> "idle"]
  /\ blk' = [p \in Procs |-> NoBlock]
  /\ used' = [p \in Procs |-> {}]
  /\ tail' = 1
  /\ panicked' = "none"
  /\ UNCHANGED disk

ReadHead ==
  /\ boot = "read_head"
  /\ lh' = head
  /\ boot' = IF head = <<>> THEN "clear" ELSE "install"
  /\ UNCHANGED <<disk, cache, outstanding, committing, proc, tail, panicked,
                 crashes>>

RecoverInstall ==
  /\ boot = "install"
  /\ InstallBlock
  /\ IF tail = Len(lh)
     THEN tail' = 1 /\ boot' = "clear"
     ELSE tail' = tail + 1 /\ UNCHANGED boot
  /\ UNCHANGED <<outstanding, committing, proc, panicked, crashes>>

RecoverClear ==
  /\ boot = "clear"
  /\ lh' = <<>>
  /\ head' = <<>>
  /\ boot' = "up"
  /\ UNCHANGED <<home, dlog, cache, outstanding, committing, proc, tail,
                 panicked, crashes>>

-----------------------------------------------------------------------------
Commit(p) == WriteLog(p) \/ WriteHead(p) \/ InstallTrans(p) \/ ClearLog(p)
             \/ EndCommit(p)

Recover == ReadHead \/ RecoverInstall \/ RecoverClear

Next ==
  \/ \E p \in Procs :
       \/ BeginOp(p)
       \/ \E b \in Blocks, v \in Vals : LogWriteCheck(p, b, v)
       \/ LogWriteAppend(p)
       \/ EndOp(p)
       \/ Commit(p)
  \/ Recover
  \/ Crash

Spec == Init /\ [][Next]_vars

-----------------------------------------------------------------------------
(* Properties. *)

(* The disk contents that recover_from_log() would produce: the home       *)
(* blocks, overridden by the log when its header names a transaction.      *)
Recovered ==
  [b \in Blocks |-> IF b \in Range(head)
                    THEN dlog[CHOOSE i \in DOMAIN head : head[i] = b]
                    ELSE home[b]]

(* What begin_op/log_write/end_op and recovery promise, with the durable   *)
(* disk as what recovery would make of it.                                 *)
Abstract ==
  INSTANCE AtomicDisk WITH
    stable  <- Recovered,
    current <- IF boot = "up" THEN cache ELSE Recovered,
    active  <- {p \in Procs : pc[p] \in OpStates},
    syncing <- {p \in Procs : pc[p] \in CommitStates}

(* The log implements an atomic disk: at every crash point of log.c's      *)
(* commit() and recover_from_log() the recovered disk is a state in which  *)
(* no operation was half done, and end_op() of the last operation returns  *)
(* only once its updates are durable.                                      *)
AtomicCommit == Abstract!Spec

(* The sizes leave room for what begin_op() admits.  An operation that is  *)
(* admitted beside others finds at least 2*(MAXOPBLOCKS-OpBlocks) blocks   *)
(* reserved and never used; one that is admitted alone finds the log       *)
(* empty.  log_write() wants a free slot even when it absorbs a block.     *)
(* With param.h's sizes and mkfs's nlog = LOGSIZE this is OpBlocks <       *)
(* MAXOPBLOCKS.                                                            *)
LogRoom ==
  /\ OpBlocks < LOGSIZE /\ OpBlocks < NLOG - 1
  /\ LOGSIZE - 2 * (MAXOPBLOCKS - OpBlocks) < LOGSIZE
  /\ LOGSIZE - 2 * (MAXOPBLOCKS - OpBlocks) < NLOG - 1

(* log.c:218-221 and 152: none of the log's panics is reachable when       *)
(* operations write at most OpBlocks blocks; begin_op()'s reservation      *)
(* keeps the log from overflowing.                                         *)
NoPanic == panicked = "none"

(* Every logged block has a block of the on-disk log area to go to         *)
(* (write_log() writes slot i to log.start+i and the area holds NLOG-1     *)
(* slots), although log_write() tests log.lh.n before it takes log.lock.   *)
LogFits == Len(lh) <= NLOG - 1 /\ Len(lh) <= LOGSIZE

(* log.c:10-14: while a commit is in progress no operation is, and at most *)
(* one process is committing.                                              *)
CommitExclusive ==
  \A p, q \in Procs :
    pc[p] \in CommitStates =>
      /\ pc[q] \notin OpStates
      /\ pc[q] \in CommitStates => p = q

(* No lost wakeup in begin_op(): whoever sleeps on &log has somebody left  *)
(* to wake it, an operation that will end or a commit that will finish.    *)
SleeperHasWaker ==
  (\E p \in Procs : pc[p] = "asleep") =>
     \E q \in Procs : pc[q] \in OpStates \union CommitStates

-----------------------------------------------------------------------------
(* Liveness.  Disk writes complete and a process that is ready to run      *)
(* runs: each step of a process inside begin_op, log_write or end_op is    *)
(* weakly fair.  An operation does bounded work, so it does not call       *)
(* log_write for ever and reaches its end_op: strong fairness of EndOp.    *)
(* Starting an operation and crashing are not fair.                        *)
Fairness ==
  /\ \A p \in Procs :
       /\ WF_vars(pc[p] = "begin" /\ BeginOp(p))
       /\ WF_vars(LogWriteAppend(p))
       /\ SF_vars(EndOp(p))
       /\ WF_vars(Commit(p))
  /\ WF_vars(Recover)

LiveSpec == Spec /\ Fairness

(* A process that went to sleep in begin_op() is woken up again. *)
SleepersWake == \A p \in Procs : pc[p] = "asleep" ~> pc[p] # "asleep"
=============================================================================
