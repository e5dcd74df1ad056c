-------------------------------- MODULE Pipe --------------------------------
(***************************************************************************)
(* A pipe (pipe.c) and the file structures that refer to it (file.c), used *)
(* by several processes that read, write, fork, close and are killed.      *)
(*                                                                         *)
(* pipe.lock is held from the entry of piperead() and pipewrite() to the   *)
(* next sleep or return, with interrupts off; one byte moves per action.   *)
(***************************************************************************)
EXTENDS Integers, FiniteSets

CONSTANTS
  Procs,
  First,      \* the process that called pipe()
  NoProc,
  Bytes,
  PIPESIZE,
  UINT,       \* 2^32 in the code: the counters wrap around
  Sizes,      \* the n that read() and write() are called with
  MaxKills    \* bound on the processes that are killed

ASSUME PipeConstants ==
  /\ First \in Procs /\ NoProc \notin Procs
  /\ PIPESIZE \in Nat \ {0} /\ Sizes \subseteq Nat \ {0} /\ MaxKills \in Nat
  /\ UINT \in Nat /\ UINT > PIPESIZE /\ UINT % PIPESIZE = 0

Ends == {"r", "w"}

VARIABLES
  data, nread, nwrite, readopen, writeopen,   \* struct pipe
  lock,      \* holder of pipe.lock
  freed,     \* kfree() has been called on the pipe
  ref,       \* f->ref of the two files
  fds,       \* the ends that a process has a descriptor for
  pc,
  i, n,      \* progress and argument of piperead() and pipewrite()
  got,       \* the last byte that piperead() copied out
  chan,      \* what a process sleeps on, "none" when it is awake
  killed

pipe == <<data, nread, nwrite, readopen, writeopen, lock, freed>>
file == <<ref, fds>>
proc == <<pc, i, n, chan, killed>>
vars == <<pipe, file, proc, got>>

TypeOK ==
  /\ data \in [0..PIPESIZE-1 -> Bytes]
  /\ nread \in 0..UINT-1 /\ nwrite \in 0..UINT-1
  /\ readopen \in {0, 1} /\ writeopen \in {0, 1} /\ freed \in {0, 1}
  /\ lock \in Procs \union {NoProc}
  /\ ref \in [Ends -> 0..Cardinality(Procs)]
  /\ fds \in [Procs -> SUBSET Ends]
  /\ pc \in [Procs -> {"unused", "user", "read", "copy", "write", "r", "w"}]
  /\ n \in [Procs -> Sizes \union {0}]
  /\ i \in [Procs -> Nat] /\ \A p \in Procs : i[p] <= n[p]
  /\ got \in Bytes
  /\ chan \in [Procs -> {"none", "nread", "nwrite"}]
  /\ killed \in [Procs -> {0, 1}]

(* sys_pipe() and pipealloc() have succeeded; kalloc() fills with junk. *)
Init ==
  /\ got = CHOOSE b \in Bytes : TRUE
  /\ data = [k \in 0..PIPESIZE-1 |-> got]
  /\ nread = 0 /\ nwrite = 0 /\ readopen = 1 /\ writeopen = 1
  /\ lock = NoProc /\ freed = 0
  /\ ref = [e \in Ends |-> 1]
  /\ fds = [p \in Procs |-> IF p = First THEN Ends ELSE {}]
  /\ pc = [p \in Procs |-> IF p = First THEN "user" ELSE "unused"]
  /\ i = [p \in Procs |-> 0] /\ n = [p \in Procs |-> 0]
  /\ chan = [p \in Procs |-> "none"]
  /\ killed = [p \in Procs |-> 0]

-----------------------------------------------------------------------------
Empty == nread = nwrite
Full  == nwrite = (nread + PIPESIZE) % UINT

\* mutant: nobody is woken
WakeupNone(c) == chan

(* wakeup(): everyone who sleeps on c. *)
Wakeup(c) == [p \in Procs |-> IF chan[p] = c THEN "none" ELSE chan[p]]

(* Process p is awake, holds pipe.lock and is at point s. *)
Holds(p, s) == lock = p /\ pc[p] = s

(* release(&p->lock) and return. *)
Return(p) ==
  /\ lock' = NoProc
  /\ pc' = [pc EXCEPT ![p] = "user"]
  /\ i' = [i EXCEPT ![p] = 0] /\ n' = [n EXCEPT ![p] = 0]

(* acquire(&p->lock), on entry and at the end of sleep(). *)
Enter(p, e, s) ==
  /\ pc[p] = "user" /\ e \in fds[p] /\ killed[p] = 0 /\ lock = NoProc
  /\ lock' = p
  /\ pc' = [pc EXCEPT ![p] = s]
  /\ \E k \in Sizes : n' = [n EXCEPT ![p] = k]
  /\ UNCHANGED <<data, nread, nwrite, readopen, writeopen, freed, file, i, chan,
                 killed, got>>

Resume(p) ==
  /\ pc[p] \in {"read", "write"} /\ chan[p] = "none" /\ lock = NoProc
  /\ lock' = p
  /\ UNCHANGED <<data, nread, nwrite, readopen, writeopen, freed, file, proc, got>>

(* sleep(c, &p->lock): wakeups in W come first. *)
Sleep(p, c, W) ==
  /\ lock' = NoProc
  /\ chan' = [W EXCEPT ![p] = c]
  /\ UNCHANGED <<data, nread, nwrite, readopen, writeopen, freed, file, pc, i, n,
                 killed, got>>

-----------------------------------------------------------------------------
PipeRead(p) == Enter(p, "r", "read")

(* The waiting loop of piperead(). *)
ReadWait(p) ==
  /\ Holds(p, "read") /\ Empty /\ writeopen = 1
  /\ \/ /\ killed[p] = 1 /\ Return(p)
        /\ UNCHANGED <<data, nread, nwrite, readopen, writeopen, freed, file, chan,
                       killed, got>>
     \/ killed[p] = 0 /\ Sleep(p, "nread", chan)

ReadReady(p) ==
  /\ Holds(p, "read") /\ ~(Empty /\ writeopen = 1)
  /\ pc' = [pc EXCEPT ![p] = "copy"]
  /\ UNCHANGED <<pipe, file, i, n, chan, killed, got>>

ReadByte(p) ==
  /\ Holds(p, "copy") /\ i[p] < n[p] /\ ~Empty
  /\ got' = data[nread % PIPESIZE]
  /\ nread' = (nread + 1) % UINT
  /\ i' = [i EXCEPT ![p] = @ + 1]
  /\ UNCHANGED <<data, nwrite, readopen, writeopen, lock, freed, file, pc, n, chan,
                 killed>>

ReadDone(p) ==
  /\ Holds(p, "copy") /\ (i[p] = n[p] \/ Empty)
  /\ Return(p)
  /\ chan' = Wakeup("nwrite")
  /\ UNCHANGED <<data, nread, nwrite, readopen, writeopen, freed, file, killed, got>>

PipeWrite(p) == Enter(p, "w", "write")

\* mutant: the pipe is never full
WriteByteOver(p) ==
  /\ Holds(p, "write") /\ i[p] < n[p]
  /\ \E b \in Bytes : data' = [data EXCEPT ![nwrite % PIPESIZE] = b]
  /\ nwrite' = (nwrite + 1) % UINT
  /\ i' = [i EXCEPT ![p] = @ + 1]
  /\ UNCHANGED <<nread, readopen, writeopen, lock, freed, file, pc, n, chan, killed,
                 got>>

WriteByte(p) ==
  /\ Holds(p, "write") /\ i[p] < n[p] /\ ~Full
  /\ \E b \in Bytes : data' = [data EXCEPT ![nwrite % PIPESIZE] = b]
  /\ nwrite' = (nwrite + 1) % UINT
  /\ i' = [i EXCEPT ![p] = @ + 1]
  /\ UNCHANGED <<nread, readopen, writeopen, lock, freed, file, pc, n, chan, killed,
                 got>>

(* The waiting loop of pipewrite(): give up, or wake the readers and wait. *)
WriteWait(p) ==
  /\ Holds(p, "write") /\ i[p] < n[p] /\ Full
  /\ \/ /\ readopen = 0 \/ killed[p] = 1
        /\ Return(p)
        /\ UNCHANGED <<data, nread, nwrite, readopen, writeopen, freed, file, chan,
                       killed, got>>
     \/ readopen = 1 /\ killed[p] = 0 /\ Sleep(p, "nwrite", Wakeup("nread"))

WriteDone(p) ==
  /\ Holds(p, "write") /\ i[p] = n[p]
  /\ Return(p)
  /\ chan' = Wakeup("nread")
  /\ UNCHANGED <<data, nread, nwrite, readopen, writeopen, freed, file, killed, got>>

-----------------------------------------------------------------------------
\* mutant: the pipe is closed with the first reference
FileCloseEarly(p, e) ==
  /\ pc[p] = "user" /\ e \in fds[p]
  /\ fds' = [fds EXCEPT ![p] = @ \ {e}]
  /\ ref' = [ref EXCEPT ![e] = @ - 1]
  /\ pc' = [pc EXCEPT ![p] = e]
  /\ UNCHANGED <<pipe, i, n, chan, killed, got>>

(* fileclose(), by close() or exit(): the last reference closes the pipe. *)
FileClose(p, e) ==
  /\ pc[p] = "user" /\ e \in fds[p]
  /\ fds' = [fds EXCEPT ![p] = @ \ {e}]
  /\ ref' = [ref EXCEPT ![e] = @ - 1]
  /\ pc' = IF ref'[e] = 0 THEN [pc EXCEPT ![p] = e] ELSE pc
  /\ UNCHANGED <<pipe, i, n, chan, killed, got>>

PipeClose(p, e) ==
  /\ pc[p] = e /\ lock = NoProc
  /\ IF e = "w" THEN writeopen' = 0 /\ UNCHANGED readopen /\ chan' = Wakeup("nread")
                ELSE readopen' = 0 /\ UNCHANGED writeopen /\ chan' = Wakeup("nwrite")
  /\ freed' = IF readopen' = 0 /\ writeopen' = 0 THEN 1 ELSE freed
  /\ pc' = [pc EXCEPT ![p] = "user"]
  /\ UNCHANGED <<data, nread, nwrite, lock, file, i, n, killed, got>>

(* fork(): filedup() of every descriptor. *)
Fork(p, q) ==
  /\ pc[p] = "user" /\ pc[q] = "unused" /\ killed[p] = 0
  /\ pc' = [pc EXCEPT ![q] = "user"]
  /\ fds' = [fds EXCEPT ![q] = fds[p]]
  /\ ref' = [e \in Ends |-> IF e \in fds[p] THEN ref[e] + 1 ELSE ref[e]]
  /\ UNCHANGED <<pipe, i, n, chan, killed, got>>

(* kill(): with pipe.lock held interrupts are off, so on one CPU it comes  *)
(* between the critical sections.                                          *)
Kill(p) ==
  /\ lock = NoProc /\ killed[p] = 0 /\ pc[p] # "unused"
  /\ Cardinality({q \in Procs : killed[q] = 1}) < MaxKills
  /\ killed' = [killed EXCEPT ![p] = 1]
  /\ chan' = [chan EXCEPT ![p] = "none"]
  /\ UNCHANGED <<pipe, file, pc, i, n, got>>

-----------------------------------------------------------------------------
Next ==
  \E p \in Procs :
    \/ PipeRead(p) \/ ReadWait(p) \/ ReadReady(p) \/ ReadByte(p) \/ ReadDone(p)
    \/ PipeWrite(p) \/ WriteByte(p) \/ WriteWait(p) \/ WriteDone(p)
    \/ Resume(p) \/ Kill(p)
    \/ \E e \in Ends : FileClose(p, e) \/ PipeClose(p, e)
    \/ \E q \in Procs : Fork(p, q)

Spec == Init /\ [][Next]_vars

-----------------------------------------------------------------------------
(* The bytes in the ring buffer, oldest first. *)
Contents ==
  [k \in 1..(nwrite - nread) % UINT |-> data[(nread + k - 1) % PIPESIZE]]

Abstract == INSTANCE BoundedFifo WITH
  Size <- PIPESIZE, queue <- Contents, open <- writeopen

(* The pipe is a bounded FIFO of bytes, also when nread and nwrite wrap    *)
(* around, with several readers and writers and calls cut short by kill(): *)
(* piperead() and pipewrite() lose, repeat and reorder nothing.            *)
Fifo == Abstract!Spec

(* Outside the critical sections a writer sleeps only on a full pipe that  *)
(* still has a reader, and a reader only on an empty pipe that still has a *)
(* writer: no wakeup() of piperead(), pipewrite() and pipeclose() is lost. *)
(* The reader's half holds while no process has been killed: a killed      *)
(* writer that finds the pipe full returns without waking the readers.     *)
SleepersJustified ==
  lock = NoProc =>
    \A p \in Procs :
      /\ chan[p] = "nwrite" => Full /\ readopen = 1
      /\ chan[p] = "nread"  => /\ writeopen = 1
                               /\ Empty \/ \E q \in Procs : killed[q] = 1

(* pipeclose() frees the pipe only when no process is in piperead() or     *)
(* pipewrite() or can still get there: every end has been closed, and      *)
(* f->ref counts the descriptors.                                          *)
NoUseAfterFree ==
  /\ \A e \in Ends : ref[e] = Cardinality({p \in Procs : e \in fds[p]})
  /\ freed = 1 => \A p \in Procs : fds[p] = {} /\ pc[p] \in {"user", "unused"}

=============================================================================
