------------------------------- MODULE Files -------------------------------
(***************************************************************************)
(* Inodes, the inode cache, directories and path lookup (fs.c), and the    *)
(* system calls that use them (sysfile.c): open() with and without         *)
(* O_CREATE, mkdir(), link(), unlink(), chdir() and close(), in several    *)
(* processes.                                                              *)
(*                                                                         *)
(* An action runs from one acquisition of an inode's sleep-lock to the     *)
(* next, or to the next change of a reference count: ip->ref is not        *)
(* protected by the sleep-lock.  The transactions around the calls are the *)
(* subject of Log.  Paths do not use "." and "..".  Whether checkmod()      *)
(* grants an access is left open.                                          *)
(***************************************************************************)
EXTENDS Integers, Sequences, FiniteSets, FiniteSetsExt

CONSTANTS
  Procs, NoProc,
  NINUM,      \* inodes on the disk
  NINODE,     \* entries of the inode cache
  NFILE,      \* entries of the file table
  Names,
  Calls,      \* the calls that are made: see Call
  MaxDenied,  \* bound on the accesses that checkmod() denies
  MaxLink     \* bound on the links of a file

ASSUME FilesConstants ==
  /\ NoProc \notin Procs
  /\ NINUM \in Nat \ {0} /\ NINODE \in Nat \ {0} /\ NFILE \in Nat
  /\ MaxDenied \in Nat /\ MaxLink \in Nat

ASSUME CallsAssumption ==
  Calls \subseteq [op : {"open", "create", "mkdir", "link", "unlink", "chdir"},
                   path : Seq(Names) \ {<<>>}, new : Seq(Names), rel : BOOLEAN]

Inums == 1..NINUM
ROOTINO == 1
NoInum == 0

VARIABLES
  dinode,    \* type, link count and, in a directory, entries of an inode
  ref,       \* ip->ref, 0 when the inode is not in the cache
  valid,     \* ip->valid
  lock,      \* holder of ip->lock
  lost,      \* references that a denied access has left behind
  proc,      \* what a process is doing: see Idle
  panicked

vars == <<dinode, ref, valid, lock, lost, proc, panicked>>

NoEnts == [n \in Names |-> NoInum]
Free == [type |-> "free", nlink |-> 0, ents |-> NoEnts]

(* op: the call; path: the rest of the path; new: the second path of       *)
(* link(); ip: the inode at hand; other: the directory that unlink() has   *)
(* locked, the inode that link() links to; put: the argument of iput(),    *)
(* next: what follows it; files: the inodes the process has open; cwd: its *)
(* current directory.                                                      *)
Idle(files, cwd) ==
  [pc |-> "idle", op |-> "none", path |-> <<>>, new |-> <<>>, ip |-> NoInum,
   other |-> NoInum, put |-> NoInum, next |-> "idle", files |-> files, cwd |-> cwd]

PCs == {"idle", "walk", "found", "exists", "created", "unlink", "unlinked",
        "bad", "linkdone", "linkbad", "put", "dec"}

TypeOK ==
  /\ dinode \in [Inums -> [type : {"free", "file", "dir"}, nlink : Nat,
                           ents : [Names -> Inums \union {NoInum}]]]
  /\ ref \in [Inums -> Nat] /\ valid \in [Inums -> {0, 1}]
  /\ lock \in [Inums -> Procs \union {NoProc}]
  /\ lost \in [Inums -> 0..MaxDenied]
  /\ proc \in [Procs -> [pc : PCs,
                         op : {"none", "open", "create", "mkdir", "link", "unlink", "chdir"},
                         path : Seq(Names), new : Seq(Names),
                         ip : Inums \union {NoInum}, other : Inums \union {NoInum},
                         put : Inums \union {NoInum}, next : PCs,
                         files : SUBSET Inums, cwd : Inums]]
  /\ panicked \in {"none", "no type", "no inodes", "ialloc", "nlink < 1"}

(* The disk that mkfs makes; every process has the root as its cwd. *)
Init ==
  /\ dinode = [i \in Inums |->
       IF i = ROOTINO THEN [type |-> "dir", nlink |-> 1, ents |-> NoEnts] ELSE Free]
  /\ ref = [i \in Inums |-> IF i = ROOTINO THEN Cardinality(Procs) ELSE 0]
  /\ valid = [i \in Inums |-> 0]
  /\ lock = [i \in Inums |-> NoProc]
  /\ lost = [i \in Inums |-> 0]
  /\ proc = [p \in Procs |-> Idle({}, ROOTINO)]
  /\ panicked = "none"

-----------------------------------------------------------------------------
At(p, s) == proc[p].pc = s /\ panicked = "none"

(* The path of p's call has led to an inode. *)
Found(p, op) == At(p, "found") /\ proc[p].op = op

Goto(p, r) == proc' = [proc EXCEPT ![p] = r]

(* The call of p returns. *)
Return(p) == Goto(p, Idle(proc[p].files, proc[p].cwd))

(* ilock(i) does not wait.  That it does not panic is part of NoPanic. *)
Ilock(i) == lock[i] = NoProc

Iunlock(i) == lock' = [lock EXCEPT ![i] = NoProc]

Idup(i) == ref' = [ref EXCEPT ![i] = @ + 1] /\ UNCHANGED panicked

(* iput(i), and then on to s with the locals of r that are still needed. *)
Iput(r, i, s) ==
  LET l == IF s = "idle" THEN Idle(r.files, r.cwd)
           ELSE IF s \in {"walk", "found"} THEN r ELSE [r EXCEPT !.path = <<>>]
  IN  [l EXCEPT !.pc = "put", !.put = i, !.next = s]

(* ip->ref and ip->valid after iget(i) or ialloc()'s iget(i). *)
Iget(i) ==
  /\ ref' = [ref EXCEPT ![i] = @ + 1]
  /\ panicked' = IF ref[i] = 0 /\ Cardinality({j \in Inums : ref[j] > 0}) = NINODE
                 THEN "no inodes" ELSE panicked

(* ip->valid after ilock(i) and, if j is an inode, iget(j). *)
Valid(i, j) == [k \in Inums |-> IF k = i THEN 1
                                ELSE IF k = j /\ ref[j] = 0 THEN 0 ELSE valid[k]]

(* The inode that directory d has under name n. *)
Dirlookup(d, n) == dinode[d].ents[n]

(* checkmod() denies an access. *)
Denied == FoldSet(LAMBDA i, n : lost[i] + n, 0, Inums) < MaxDenied

(* iunlock(i) without iput(i), after a denied access; the call fails. *)
Abandon(p, i) ==
  /\ Denied
  /\ lost' = [lost EXCEPT ![i] = @ + 1]
  /\ Return(p)

-----------------------------------------------------------------------------
(* iput(), under ip->lock: free the inode if this is the last reference    *)
(* and there are no links.                                                 *)
IputFree(p) ==
  /\ At(p, "put")
  /\ LET i == proc[p].put IN
     /\ lock[i] = NoProc
     /\ IF valid[i] = 1 /\ dinode[i].nlink = 0 /\ ref[i] = 1
        THEN dinode' = [dinode EXCEPT ![i] = Free] /\ valid' = [valid EXCEPT ![i] = 0]
        ELSE UNCHANGED <<dinode, valid>>
  /\ Goto(p, [proc[p] EXCEPT !.pc = "dec"])
  /\ UNCHANGED <<ref, lock, lost, panicked>>

(* iput(), under icache.lock. *)
IputDec(p) ==
  /\ At(p, "dec")
  /\ ref' = [ref EXCEPT ![proc[p].put] = @ - 1]
  /\ Goto(p, IF proc[p].next = "idle" THEN Idle(proc[p].files, proc[p].cwd)
             ELSE [proc[p] EXCEPT !.pc = proc[p].next, !.put = NoInum, !.next = "idle"])
  /\ UNCHANGED <<dinode, valid, lock, lost, panicked>>

-----------------------------------------------------------------------------
(* A call begins with namei() or nameiparent(), and these with iget() of   *)
(* the root or idup() of the current directory.                            *)
Call(p) ==
  /\ At(p, "idle")
  /\ \E c \in Calls :
       /\ c.op \in {"open", "create"} => proc[p].files = {}
       /\ IF c.rel THEN Idup(proc[p].cwd) ELSE Iget(ROOTINO)
       /\ Goto(p, [Idle(proc[p].files, proc[p].cwd) EXCEPT
                    !.pc = "walk", !.op = c.op, !.path = c.path, !.new = c.new,
                    !.ip = IF c.rel THEN proc[p].cwd ELSE ROOTINO])
  /\ UNCHANGED <<dinode, valid, lock, lost>>

(* The walk is nameiparent(): a link()'s second one is. *)
Parent(p) ==
  proc[p].op \in {"create", "mkdir", "unlink"} \/ (proc[p].op = "link" /\ proc[p].new = <<>>)

(* Where a call goes when its path does not lead anywhere. *)
Failed(p) == IF proc[p].op = "link" /\ proc[p].new = <<>> THEN "linkbad" ELSE "idle"

(* One round of namex(): lock the directory, look up the next element, go  *)
(* on to it.  A walk ends early when the directory is none, denies the     *)
(* search or lacks the entry.                                              *)
Walk(p) ==
  LET r == proc[p]
      i == r.ip
      e == Dirlookup(i, Head(r.path))
      last == Parent(p) /\ Len(r.path) = 1 IN
  /\ At(p, "walk")
  /\ Ilock(i)
  /\ \/ /\ dinode[i].type = "dir" /\ last
        /\ Goto(p, [r EXCEPT !.pc = "found"])
        /\ valid' = Valid(i, NoInum) /\ UNCHANGED <<ref, panicked>>
     \/ /\ dinode[i].type = "dir" /\ ~last /\ e # NoInum
        /\ Goto(p, Iput([r EXCEPT !.ip = e, !.path = Tail(r.path)], i,
                        IF Len(r.path) = 1 THEN "found" ELSE "walk"))
        /\ valid' = Valid(i, e) /\ Iget(e)
     \/ /\ dinode[i].type # "dir" \/ Denied \/ (e = NoInum /\ ~last)
        /\ Goto(p, Iput([r EXCEPT !.ip = NoInum], i, Failed(p)))
        /\ valid' = Valid(i, NoInum) /\ UNCHANGED <<ref, panicked>>
  /\ UNCHANGED <<dinode, lock, lost>>

-----------------------------------------------------------------------------
(* filealloc() finds an unused entry of the file table. *)
Filealloc == Cardinality({<<q, j>> \in Procs \X Inums : j \in proc[q].files}) < NFILE

(* The end of open(), with i locked: checkmod(), filealloc(), fdalloc(). *)
OpenEnd(p, i) ==
  \/ Abandon(p, i)
  \/ /\ ~Filealloc
     /\ Goto(p, Iput([proc[p] EXCEPT !.ip = NoInum], i, "idle"))
     /\ UNCHANGED lost
  \/ /\ Filealloc
     /\ Goto(p, Idle(proc[p].files \union {i}, proc[p].cwd))
     /\ UNCHANGED lost

(* open() without O_CREATE; a directory can only be read. *)
Open(p) ==
  LET i == proc[p].ip IN
  /\ Found(p, "open")
  /\ Ilock(i)
  /\ \/ OpenEnd(p, i)
     \/ /\ dinode[i].type = "dir"
        /\ Goto(p, Iput([proc[p] EXCEPT !.ip = NoInum], i, "idle"))
        /\ UNCHANGED lost
  /\ valid' = Valid(i, NoInum)
  /\ UNCHANGED <<dinode, ref, lock, panicked>>

(* create(), with the directory d locked: the name exists; or it is denied *)
(* or made, and then the new inode stays locked.                           *)
Create(p) ==
  LET r == proc[p]
      d == r.ip
      e == Dirlookup(d, Head(r.path))
      free == {j \in Inums : dinode[j].type = "free"} IN
  /\ Found(p, "create") \/ Found(p, "mkdir")
  /\ Ilock(d)
  /\ \/ /\ e # NoInum
        /\ Goto(p, Iput([r EXCEPT !.ip = e], d, "exists"))
        /\ valid' = Valid(d, e) /\ Iget(e)
        /\ UNCHANGED <<dinode, lock, lost>>
     \/ /\ e = NoInum /\ Abandon(p, d)
        /\ valid' = Valid(d, NoInum)
        /\ UNCHANGED <<dinode, ref, lock, panicked>>
     \/ /\ e = NoInum /\ free = {}
        /\ panicked' = "ialloc"
        /\ UNCHANGED <<dinode, ref, valid, lock, lost, proc>>
     \/ /\ e = NoInum /\ free # {}
        /\ LET i == Min(free) IN
           /\ dinode' = [dinode EXCEPT
                ![i] = [Free EXCEPT !.type = IF r.op = "mkdir" THEN "dir" ELSE "file",
                                    !.nlink = 1],
                ![d] = [@ EXCEPT !.ents[Head(r.path)] = i,
                                 !.nlink = IF r.op = "mkdir" THEN @ + 1 ELSE @]]
           /\ Iget(i)
           /\ valid' = [valid EXCEPT ![d] = 1, ![i] = 1]
           /\ lock' = [lock EXCEPT ![i] = p]
           /\ Goto(p, Iput([r EXCEPT !.ip = i], d, "created"))
        /\ UNCHANGED lost

(* create() found the name: only open() of a file is content with that. *)
CreateExists(p) ==
  LET r == proc[p]
      i == r.ip IN
  /\ At(p, "exists")
  /\ Ilock(i)
  /\ IF r.op = "create" /\ dinode[i].type = "file"
     THEN OpenEnd(p, i)
     ELSE Goto(p, Iput([r EXCEPT !.ip = NoInum], i, "idle")) /\ UNCHANGED lost
  /\ valid' = Valid(i, NoInum)
  /\ UNCHANGED <<dinode, ref, lock, panicked>>

(* create() has returned a new inode to open() or mkdir(). *)
Created(p) ==
  LET r == proc[p]
      i == r.ip IN
  /\ At(p, "created")
  /\ Iunlock(i)
  /\ IF r.op = "create" THEN OpenEnd(p, i)
     ELSE Goto(p, Iput([r EXCEPT !.ip = NoInum], i, "idle")) /\ UNCHANGED lost
  /\ UNCHANGED <<dinode, ref, valid, panicked>>

-----------------------------------------------------------------------------
\* mutant: the directory does not stay locked
UnlinkUnlocked(p) ==
  LET r == proc[p]
      d == r.ip
      e == Dirlookup(d, Head(r.path)) IN
  /\ Found(p, "unlink")
  /\ Ilock(d) /\ e # NoInum
  /\ valid' = Valid(d, e) /\ Iget(e)
  /\ Goto(p, [r EXCEPT !.pc = "unlink", !.ip = e, !.other = d])
  /\ UNCHANGED <<dinode, lock, lost>>

(* unlink(), with the directory d locked; it stays locked if the name is   *)
(* there.                                                                  *)
Unlink(p) ==
  LET r == proc[p]
      d == r.ip
      e == Dirlookup(d, Head(r.path)) IN
  /\ Found(p, "unlink")
  /\ Ilock(d)
  /\ \/ /\ Abandon(p, d)
        /\ valid' = Valid(d, NoInum) /\ UNCHANGED <<ref, lock, panicked>>
     \/ /\ e = NoInum
        /\ Goto(p, Iput([r EXCEPT !.ip = NoInum], d, "idle"))
        /\ valid' = Valid(d, NoInum) /\ UNCHANGED <<ref, lock, lost, panicked>>
     \/ /\ e # NoInum
        /\ lock' = [lock EXCEPT ![d] = p]
        /\ valid' = Valid(d, e) /\ Iget(e)
        /\ Goto(p, [r EXCEPT !.pc = "unlink", !.ip = e, !.other = d])
        /\ UNCHANGED lost
  /\ UNCHANGED dinode

(* unlink(), with the inode i locked too: clear the entry and let go of    *)
(* the directory, with i still locked.                                     *)
UnlinkEntry(p) ==
  LET r == proc[p]
      i == r.ip
      d == r.other IN
  /\ At(p, "unlink")
  /\ Ilock(i)
  /\ panicked' = IF dinode[i].nlink < 1 THEN "nlink < 1" ELSE panicked
  /\ \/ /\ dinode[i].type = "dir" /\ dinode[i].ents # NoEnts
        /\ Goto(p, Iput([r EXCEPT !.ip = NoInum], i, "bad"))
        /\ UNCHANGED <<dinode, lock>>
     \/ /\ ~(dinode[i].type = "dir" /\ dinode[i].ents # NoEnts)
        /\ dinode' = [dinode EXCEPT ![d] =
             [@ EXCEPT !.ents[Head(r.path)] = NoInum,
                       !.nlink = IF dinode[i].type = "dir" THEN @ - 1 ELSE @]]
        /\ lock' = [lock EXCEPT ![d] = NoProc, ![i] = p]
        /\ Goto(p, Iput([r EXCEPT !.other = NoInum], d, "unlinked"))
  /\ valid' = Valid(i, NoInum)
  /\ UNCHANGED <<ref, lost>>

(* The end of unlink(). *)
Unlinked(p) ==
  LET i == proc[p].ip IN
  /\ At(p, "unlinked")
  /\ dinode' = [dinode EXCEPT ![i].nlink = @ - 1]
  /\ Iunlock(i)
  /\ Goto(p, Iput([proc[p] EXCEPT !.ip = NoInum], i, "idle"))
  /\ UNCHANGED <<ref, valid, lost, panicked>>

(* iunlockput() of the directory after a failure of unlink() or of         *)
(* link()'s dirlink().                                                     *)
Bad(p) ==
  LET r == proc[p]
      d == IF r.op = "unlink" THEN r.other ELSE r.ip IN
  /\ At(p, "bad")
  /\ Iunlock(d)
  /\ Goto(p, Iput(IF r.op = "unlink" THEN [r EXCEPT !.other = NoInum]
                  ELSE [r EXCEPT !.ip = NoInum], d, Failed(p)))
  /\ UNCHANGED <<dinode, ref, valid, lost, panicked>>

-----------------------------------------------------------------------------
\* mutant: the link is not counted before the new path is looked up
LinkUncounted(p) ==
  LET r == proc[p]
      i == r.ip IN
  /\ Found(p, "link") /\ proc[p].new # <<>>
  /\ Ilock(i) /\ dinode[i].type # "dir"
  /\ Iget(ROOTINO)
  /\ Goto(p, [r EXCEPT !.pc = "walk", !.path = r.new, !.new = <<>>,
                       !.ip = ROOTINO, !.other = i])
  /\ valid' = Valid(i, NoInum)
  /\ UNCHANGED <<dinode, lock, lost>>

(* link() has found the old path: count the link, look up the new path. *)
Link(p) ==
  LET r == proc[p]
      i == r.ip IN
  /\ Found(p, "link") /\ proc[p].new # <<>>
  /\ Ilock(i)
  /\ \/ /\ dinode[i].type = "dir"
        /\ Goto(p, Iput([r EXCEPT !.ip = NoInum], i, "idle"))
        /\ UNCHANGED <<dinode, ref, panicked>>
     \/ /\ dinode[i].type # "dir" /\ dinode[i].nlink < MaxLink
        /\ dinode' = [dinode EXCEPT ![i].nlink = @ + 1]
        /\ Iget(ROOTINO)
        /\ Goto(p, [r EXCEPT !.pc = "walk", !.path = r.new, !.new = <<>>,
                             !.ip = ROOTINO, !.other = i])
  /\ valid' = Valid(i, NoInum)
  /\ UNCHANGED <<lock, lost>>

(* link() has found the new directory d: dirlink().  When the name exists  *)
(* its inode is referenced and released with d locked.                     *)
LinkDir(p) ==
  LET r == proc[p]
      d == r.ip
      e == Dirlookup(d, Head(r.path)) IN
  /\ Found(p, "link") /\ proc[p].new = <<>>
  /\ Ilock(d)
  /\ \/ /\ e # NoInum
        /\ lock' = [lock EXCEPT ![d] = p]
        /\ valid' = Valid(d, e) /\ Iget(e)
        /\ Goto(p, Iput(r, e, "bad"))
        /\ UNCHANGED dinode
     \/ /\ e = NoInum
        /\ dinode' = [dinode EXCEPT ![d].ents[Head(r.path)] = r.other]
        /\ valid' = Valid(d, NoInum)
        /\ Goto(p, Iput([r EXCEPT !.ip = NoInum], d, "linkdone"))
        /\ UNCHANGED <<ref, lock, panicked>>
  /\ UNCHANGED lost

\* mutant: the inode that was linked to is not released
LinkDoneKeep(p) ==
  /\ At(p, "linkdone")
  /\ Return(p)
  /\ UNCHANGED <<dinode, ref, valid, lock, lost, panicked>>

LinkDone(p) ==
  /\ At(p, "linkdone")
  /\ Goto(p, Iput([proc[p] EXCEPT !.other = NoInum], proc[p].other, "idle"))
  /\ UNCHANGED <<dinode, ref, valid, lock, lost, panicked>>

(* The end of link() after a failure. *)
LinkBad(p) ==
  LET i == proc[p].other IN
  /\ At(p, "linkbad")
  /\ Ilock(i)
  /\ dinode' = [dinode EXCEPT ![i].nlink = @ - 1]
  /\ Goto(p, Iput([proc[p] EXCEPT !.other = NoInum], i, "idle"))
  /\ valid' = Valid(i, NoInum)
  /\ UNCHANGED <<ref, lock, lost, panicked>>

(* chdir(): the old directory is released; a denied access leaves the new  *)
(* one behind.                                                             *)
Chdir(p) ==
  LET r == proc[p]
      i == r.ip IN
  /\ Found(p, "chdir")
  /\ Ilock(i)
  /\ \/ /\ dinode[i].type # "dir"
        /\ Goto(p, Iput([r EXCEPT !.ip = NoInum], i, "idle"))
        /\ UNCHANGED lost
     \/ dinode[i].type = "dir" /\ Abandon(p, i)
     \/ /\ dinode[i].type = "dir"
        /\ Goto(p, Iput([r EXCEPT !.ip = NoInum, !.cwd = i], r.cwd, "idle"))
        /\ UNCHANGED lost
  /\ valid' = Valid(i, NoInum)
  /\ UNCHANGED <<dinode, ref, lock, panicked>>

(* close(): fileclose() of the last reference to an open file. *)
Close(p) ==
  /\ At(p, "idle")
  /\ \E i \in proc[p].files : Goto(p, Iput(Idle(proc[p].files \ {i}, proc[p].cwd), i, "idle"))
  /\ UNCHANGED <<dinode, ref, valid, lock, lost, panicked>>

-----------------------------------------------------------------------------
(* p is about to acquire the lock of inode i, in ilock() or iput(). *)
WaitsFor(p, i) ==
  LET r == proc[p] IN
  \/ r.pc = "put" /\ r.put = i
  \/ r.pc \in {"walk", "found", "exists", "unlink"} /\ r.ip = i
  \/ r.pc = "linkbad" /\ r.other = i

Next ==
  \E p \in Procs :
    \/ Call(p) \/ Walk(p) \/ IputFree(p) \/ IputDec(p)
    \/ Open(p) \/ Close(p) \/ Chdir(p)
    \/ Create(p) \/ CreateExists(p) \/ Created(p)
    \/ Unlink(p) \/ UnlinkEntry(p) \/ Unlinked(p) \/ Bad(p)
    \/ Link(p) \/ LinkDir(p) \/ LinkDone(p) \/ LinkBad(p)

Spec == Init /\ [][Next]_vars

-----------------------------------------------------------------------------
(* Number of the pointers to inode i that the kernel has: current          *)
(* directories, open files and the variables of calls in progress.         *)
Pointers(i) ==
  Cardinality({p \in Procs : proc[p].cwd = i})
  + Cardinality({p \in Procs : i \in proc[p].files})
  + Cardinality({p \in Procs : proc[p].ip = i})
  + Cardinality({p \in Procs : proc[p].other = i})
  + Cardinality({p \in Procs : proc[p].put = i})

(* Entries of directories that name inode i, and directories below i. *)
Entries(i) == Cardinality({<<d, n>> \in Inums \X Names : dinode[d].ents[n] = i})
Below(i) == IF dinode[i].type # "dir" THEN 0
            ELSE Cardinality({n \in Names : dinode[i].ents[n] # NoInum
                                  /\ dinode[dinode[i].ents[n]].type = "dir"})

(* ip->ref counts the pointers to an inode, plus the references that calls *)
(* denied by checkmod() have left behind: no path through namex(),         *)
(* create(), link(), unlink() and iput() drops one too many or forgets one *)
(* otherwise.                                                              *)
RefExact == \A i \in Inums : ref[i] = Pointers(i) + lost[i]

(* An inode that a directory entry names, or that the kernel has a pointer *)
(* to, is never freed and given to another file, except between the        *)
(* release and the decrement of iput(); its link count is never too small  *)
(* for its entries and subdirectories.                                     *)
NamedIsAllocated ==
  \A i \in Inums :
    /\ Entries(i) + Below(i) > 0 \/ Pointers(i) > Cardinality({p \in Procs : proc[p].put = i})
         => dinode[i].type # "free"
    /\ i # ROOTINO => Entries(i) + Below(i) <= dinode[i].nlink

(* No process ever gets to lock a free inode in ilock(), to look a name up *)
(* in what is no directory any more, or to unlink an inode without links,  *)
(* and iget() finds a place in the cache: of the panics of fs.c and        *)
(* sysfile.c only the one for a full disk is reached.                      *)
NoPanic ==
  /\ panicked \in {"none", "ialloc"}
  /\ \A p \in Procs, i \in Inums :
       WaitsFor(p, i) /\ proc[p].pc # "put" =>
         dinode[i].type \in IF proc[p].pc = "found" /\ Parent(p) THEN {"dir"}
                            ELSE {"file", "dir"}
=============================================================================
