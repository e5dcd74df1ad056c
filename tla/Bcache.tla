------------------------------- MODULE Bcache -------------------------------
(***************************************************************************)
(* The buffer cache (bio.c), the sleep-locks of its buffers (sleeplock.c)  *)
(* and the disk driver underneath (ide.c).                                 *)
(*                                                                         *)
(* A process reads a block, changes it any number of times, with           *)
(* log_write() or bwrite(), and releases it.  An action is one critical    *)
(* section of bcache.lock, of the spinlock of a sleep-lock, or of idelock. *)
(***************************************************************************)
EXTENDS Integers, Sequences, FiniteSets, SequencesExt

CONSTANTS
  Procs, NoProc,
  Blocks, NoBlock,   \* NoBlock: a buffer that has never been used
  Vals,
  NBUF,
  MaxPinned          \* bound on the blocks that wait in the log

ASSUME BcacheConstants ==
  /\ NoProc \notin Procs /\ NoBlock \notin Blocks
  /\ NBUF \in Nat \ {0} /\ MaxPinned \in Nat

Bufs == 1..NBUF
NoBuf == 0

VARIABLES
  buf,        \* the buffers: blockno, refcnt, B_VALID, B_DIRTY, data
  locked,     \* holder of a buffer's sleep-lock
  lru,        \* bcache.head: the buffers, most recently used first
  idequeue,   \* requests, the active one first
  active,     \* the buffer that the disk works for
  irq,        \* the disk has raised its interrupt
  disk,
  pc,
  mine,       \* the buffer that bget() chose for a process
  want,       \* the block that a process asked for
  panicked

bcache == <<buf, locked, lru>>
ide == <<idequeue, active, irq, disk>>
proc == <<pc, mine, want>>
vars == <<bcache, ide, proc, panicked>>

(* acquire: in acquiresleep(), asleep: sleeping there, bread: has the      *)
(* lock, io: sleeping in iderw(), rw: in its loop, held: bread() has       *)
(* returned, release: in brelse() after releasesleep().                    *)
PCs == {"idle", "acquire", "asleep", "bread", "io", "rw", "held", "release"}

TypeOK ==
  /\ buf \in [Bufs -> [blockno : Blocks \union {NoBlock}, refcnt : 0..Cardinality(Procs),
                       valid : {0, 1}, dirty : {0, 1}, data : Vals]]
  /\ locked \in [Bufs -> Procs \union {NoProc}]
  /\ lru \in Seq(Bufs) /\ Len(lru) = NBUF /\ ToSet(lru) = Bufs
  /\ idequeue \in Seq(Bufs) /\ IsInjective(idequeue)
  /\ active \in Bufs \union {NoBuf} /\ irq \in {0, 1}
  /\ disk \in [Blocks -> Vals]
  /\ pc \in [Procs -> PCs]
  /\ mine \in [Procs -> Bufs \union {NoBuf}]
  /\ want \in [Procs -> Blocks \union {NoBlock}]
  /\ panicked \in {"none", "no buffers", "nothing to do"}

(* binit(): the last buffer comes to the front of the list. *)
Init ==
  /\ disk \in [Blocks -> Vals]
  /\ \E v \in Vals :
       buf = [b \in Bufs |-> [blockno |-> NoBlock, refcnt |-> 0, valid |-> 0,
                              dirty |-> 0, data |-> v]]
  /\ locked = [b \in Bufs |-> NoProc]
  /\ lru = [k \in Bufs |-> NBUF + 1 - k]
  /\ idequeue = <<>> /\ active = NoBuf /\ irq = 0
  /\ pc = [p \in Procs |-> "idle"]
  /\ mine = [p \in Procs |-> NoBuf] /\ want = [p \in Procs |-> NoBlock]
  /\ panicked = "none"

At(p, s) == pc[p] = s /\ panicked = "none"

-----------------------------------------------------------------------------
(* The buffers that hold block n. *)
Cached(n) == {b \in Bufs : buf[b].blockno = n}

\* mutant: a buffer that log.c has modified is recycled
UnusedDirty == {k \in Bufs : buf[lru[k]].refcnt = 0}

(* Positions in lru that bget() may recycle. *)
Unused == {k \in Bufs : buf[lru[k]].refcnt = 0 /\ buf[lru[k]].dirty = 0}

(* bget(), up to the release of bcache.lock: the cached buffer, or else    *)
(* the least recently used one that nobody needs.                          *)
Bget(p, n) ==
  /\ At(p, "idle")
  /\ \/ \E b \in Cached(n) :
          /\ buf' = [buf EXCEPT ![b].refcnt = @ + 1]
          /\ mine' = [mine EXCEPT ![p] = b]
          /\ UNCHANGED panicked
     \/ /\ Cached(n) = {} /\ Unused # {}
        /\ LET b == lru[CHOOSE k \in Unused : \A j \in Unused : j <= k]
           IN  /\ buf' = [buf EXCEPT ![b] = [@ EXCEPT !.blockno = n, !.refcnt = 1,
                                                      !.valid = 0, !.dirty = 0]]
               /\ mine' = [mine EXCEPT ![p] = b]
        /\ UNCHANGED panicked
     \/ /\ Cached(n) = {} /\ Unused = {}
        /\ panicked' = "no buffers"
        /\ UNCHANGED <<buf, mine>>
  /\ pc' = [pc EXCEPT ![p] = "acquire"] /\ want' = [want EXCEPT ![p] = n]
  /\ UNCHANGED <<locked, lru, ide>>

(* The loop of acquiresleep(). *)
AcquireSleep(p) ==
  /\ At(p, "acquire")
  /\ IF locked[mine[p]] # NoProc
     THEN pc' = [pc EXCEPT ![p] = "asleep"] /\ UNCHANGED locked
     ELSE pc' = [pc EXCEPT ![p] = "bread"] /\ locked' = [locked EXCEPT ![mine[p]] = p]
  /\ UNCHANGED <<buf, lru, ide, mine, want, panicked>>

-----------------------------------------------------------------------------
(* idestart(): the disk now works for the head of the queue. *)
Idestart(b) == b

(* iderw() up to its loop, with the buffers in B: the request goes to the  *)
(* end of the queue.  The first test of the loop fails, so p sleeps.       *)
Iderw(p, B) ==
  LET b == mine[p] IN
  /\ buf' = B
  /\ IF B[b].valid = 1 /\ B[b].dirty = 0
     THEN panicked' = "nothing to do" /\ UNCHANGED <<idequeue, active, pc>>
     ELSE /\ idequeue' = Append(idequeue, b)
          /\ active' = IF idequeue = <<>> THEN Idestart(b) ELSE active
          /\ pc' = [pc EXCEPT ![p] = "io"]
          /\ UNCHANGED panicked
  /\ UNCHANGED <<locked, lru, irq, disk, mine, want>>

\* mutant: bread() does not look at B_VALID
BreadTrusting(p) ==
  /\ At(p, "bread")
  /\ pc' = [pc EXCEPT ![p] = "held"]
  /\ UNCHANGED <<bcache, ide, mine, want, panicked>>

\* mutant: bread() always asks the disk
BreadAlways(p) == At(p, "bread") /\ Iderw(p, buf)

(* The rest of bread(). *)
Bread(p) ==
  /\ At(p, "bread")
  /\ IF buf[mine[p]].valid = 1
     THEN /\ pc' = [pc EXCEPT ![p] = "held"]
          /\ UNCHANGED <<bcache, ide, mine, want, panicked>>
     ELSE Iderw(p, buf)

(* The loop of iderw(), after a wakeup. *)
IderwLoop(p) ==
  /\ At(p, "rw")
  /\ pc' = [pc EXCEPT ![p] = IF buf[mine[p]].valid = 1 /\ buf[mine[p]].dirty = 0
                             THEN "held" ELSE "io"]
  /\ UNCHANGED <<bcache, ide, mine, want, panicked>>

(* The disk carries out its command and raises the interrupt. *)
DiskDone ==
  /\ active # NoBuf /\ irq = 0 /\ panicked = "none"
  /\ irq' = 1
  /\ disk' = IF buf[active].dirty = 1
             THEN [disk EXCEPT ![buf[active].blockno] = buf[active].data]
             ELSE disk
  /\ UNCHANGED <<bcache, idequeue, active, proc, panicked>>

(* ideintr(): finish the first request, wake its process, start the next.  *)
Ideintr ==
  /\ irq = 1 /\ panicked = "none"
  /\ irq' = 0
  /\ LET b == Head(idequeue) IN
     /\ buf' = [buf EXCEPT ![b] = [buf[b] EXCEPT
                  !.data = IF buf[b].dirty = 0 THEN disk[buf[b].blockno] ELSE @,
                  !.valid = 1, !.dirty = 0]]
     /\ pc' = [p \in Procs |-> IF pc[p] = "io" /\ mine[p] = b THEN "rw" ELSE pc[p]]
  /\ idequeue' = Tail(idequeue)
  /\ active' = IF idequeue' = <<>> THEN NoBuf ELSE Idestart(Head(idequeue'))
  /\ UNCHANGED <<locked, lru, disk, mine, want, panicked>>

-----------------------------------------------------------------------------
Pinned == {b \in Bufs : buf[b].dirty = 1}

(* The holder changes the block and calls log_write(), which pins it. *)
LogWrite(p, v) ==
  /\ At(p, "held")
  /\ Cardinality(Pinned \union {mine[p]}) <= MaxPinned
  /\ buf' = [buf EXCEPT ![mine[p]].data = v, ![mine[p]].dirty = 1]
  /\ UNCHANGED <<locked, lru, ide, proc, panicked>>

(* The holder changes the block, or not, and calls bwrite(). *)
Bwrite(p, v) ==
  /\ At(p, "held")
  /\ Iderw(p, [buf EXCEPT ![mine[p]].data = v, ![mine[p]].dirty = 1])

\* mutant: nobody is woken
ReleaseSleepQuiet(p) ==
  /\ At(p, "held")
  /\ locked' = [locked EXCEPT ![mine[p]] = NoProc]
  /\ pc' = [pc EXCEPT ![p] = "release"]
  /\ UNCHANGED <<buf, lru, ide, mine, want, panicked>>

(* brelse(), first half: releasesleep(). *)
ReleaseSleep(p) ==
  /\ At(p, "held")
  /\ locked' = [locked EXCEPT ![mine[p]] = NoProc]
  /\ pc' = [q \in Procs |-> IF q = p THEN "release"
                            ELSE IF pc[q] = "asleep" /\ mine[q] = mine[p]
                            THEN "acquire" ELSE pc[q]]
  /\ UNCHANGED <<buf, lru, ide, mine, want, panicked>>

(* brelse(), second half. *)
Brelse(p) ==
  /\ At(p, "release")
  /\ LET b == mine[p] IN
     /\ buf' = [buf EXCEPT ![b].refcnt = @ - 1]
     /\ lru' = IF buf[b].refcnt = 1 THEN <<b>> \o SelectSeq(lru, LAMBDA c : c # b)
               ELSE lru
  /\ pc' = [pc EXCEPT ![p] = "idle"]
  /\ mine' = [mine EXCEPT ![p] = NoBuf] /\ want' = [want EXCEPT ![p] = NoBlock]
  /\ UNCHANGED <<locked, ide, panicked>>

-----------------------------------------------------------------------------
Next ==
  \/ DiskDone \/ Ideintr
  \/ \E p \in Procs :
       \/ AcquireSleep(p) \/ Bread(p) \/ IderwLoop(p) \/ ReleaseSleep(p) \/ Brelse(p)
       \/ \E n \in Blocks : Bget(p, n)
       \/ \E v \in Vals : LogWrite(p, v) \/ Bwrite(p, v)

Spec == Init /\ [][Next]_vars

-----------------------------------------------------------------------------
(* What a reader of block n gets: the valid buffer, or else the disk. *)
Contents(n) ==
  IF \E b \in Cached(n) : buf[b].valid = 1
  THEN buf[CHOOSE b \in Cached(n) : buf[b].valid = 1].data ELSE disk[n]

(* bread() has returned block n to p, and p has not released it. *)
Has(p, n) ==
  /\ want[p] = n
  /\ \/ pc[p] = "held"
     \/ pc[p] \in {"io", "rw"} /\ buf[mine[p]].valid = 1

Abstract == INSTANCE BlockStore WITH
  store  <- [n \in Blocks |-> Contents(n)],
  holder <- [n \in Blocks |-> IF \E p \in Procs : Has(p, n)
                              THEN CHOOSE p \in Procs : Has(p, n) ELSE NoProc]

(* The cache and the disk together are one value for each block: it        *)
(* changes only when the process that has the block writes it, so neither  *)
(* recycling a buffer nor a request to the disk loses or brings back       *)
(* anything, and no two processes have a block at a time.                  *)
OneValuePerBlock == Abstract!Spec

(* Whoever has been given a buffer by bget(), even if still waiting for    *)
(* its lock, finds the block it asked for there; no block has two buffers; *)
(* and the buffer bread() returns is valid and locked by the caller.       *)
RightBuffer ==
  /\ \A n \in Blocks : Cardinality(Cached(n)) <= 1
  /\ \A p \in Procs : mine[p] # NoBuf => buf[mine[p]].blockno = want[p]
  /\ \A p \in Procs : pc[p] = "held" => buf[mine[p]].valid = 1 /\ locked[mine[p]] = p

(* bget() and iderw() never panic: NBUF buffers are enough for one in the  *)
(* hands of each process and the ones that wait in the log, and            *)
(* idequeue's requests always have something to do.                        *)
NoPanic == panicked = "none"

(* The disk is never idle while a request waits: it works for the first of *)
(* the queue.  A process sleeps in iderw() only while its buffer is        *)
(* queued, and in acquiresleep() only while someone has the lock: no       *)
(* wakeup() of ideintr() and releasesleep() is lost.                       *)
SleepersHaveWaker ==
  panicked = "none" =>
    /\ active = IF idequeue = <<>> THEN NoBuf ELSE Head(idequeue)
    /\ \A p \in Procs : pc[p] = "io" => mine[p] \in ToSet(idequeue)
    /\ \A p \in Procs : pc[p] = "asleep" => locked[mine[p]] # NoProc
=============================================================================
