------------------------------- MODULE Blocks -------------------------------
(***************************************************************************)
(* File contents: the block allocator and the inode contents of fs.c, the  *)
(* transactions that filewrite() makes of a large write, and the image     *)
(* that mkfs.c builds.                                                     *)
(*                                                                         *)
(* A transaction is what module Log shows it to be: a crash returns to the *)
(* contents of the last moment at which no operation was running.  One     *)
(* action is the work on one buffer, or on several that no other process   *)
(* can reach.  Sizes and offsets are in words: a block holds BSIZE words   *)
(* of a file, or the BSIZE block numbers of an indirect block.             *)
(***************************************************************************)
EXTENDS Integers, FiniteSets

CONSTANTS
  Procs,
  NINODES,     \* inodes 1..NINODES
  NBLOCKS,     \* data blocks 1..NBLOCKS; 0 is no block
  BPB,         \* blocks for which one block of the free map has the bits
  BSIZE,       \* words in a block, also NINDIRECT
  NDIRECT,
  MAXOPBLOCKS,
  Sizes,       \* the n of a write()
  Images,      \* sizes of the file that mkfs puts in the image
  MaxOpens,    \* bound: how many times a file is opened or created
  NoProc

ASSUME BlocksConstants ==
  /\ NINODES \in Nat \ {0} /\ NBLOCKS \in Nat \ {0} /\ BPB \in Nat \ {0}
  /\ BSIZE \in Nat \ {0} /\ NDIRECT \in Nat /\ MAXOPBLOCKS \in Nat
  /\ Sizes \subseteq Nat \ {0} /\ Images \subseteq Nat /\ MaxOpens \in Nat
  /\ NoProc \notin Procs

VARIABLES
  cache,     \* the buffer cache: free map, inodes and data blocks
  disk,      \* the same as of the last commit
  mem,       \* the inode cache: ip->size, addrs, nlink of an open inode
  holder,    \* ip->lock
  proc,      \* what each process is doing
  opens,     \* how many files were opened, for the bound
  length,    \* history: how many words were written to each file
  panicked

vars == <<cache, disk, mem, holder, proc, opens, length, panicked>>

Inodes  == 1..NINODES
Blks    == 1..NBLOCKS
Slots   == 0..BSIZE-1
MAXFILE == NDIRECT + BSIZE

(* Word w of file i, as the program writes it: no other word and no block  *)
(* number is the same.                                                     *)
Word(i, w) == NBLOCKS + 1 + i * MAXFILE * BSIZE + w

Words  == 0..Word(NINODES + 1, 0)
Zeroed == [w \in Slots |-> 0]
NoFile == [type |-> 0, nlink |-> 0, size |-> 0, addrs |-> [a \in 0..NDIRECT |-> 0]]

TypeOK ==
  /\ cache.used \subseteq Blks
  /\ cache.dinode \in [Inodes -> [type : {0, 1}, nlink : {0, 1}, size : 0..MAXFILE * BSIZE,
                                  addrs : [0..NDIRECT -> 0..NBLOCKS]]]
  /\ cache.data \in [Blks -> [Slots -> Words]]
  /\ DOMAIN mem = Inodes /\ length \in [Inodes -> 0..MAXFILE * BSIZE]
  /\ holder \in [Inodes -> Procs \union {NoProc}]
  /\ \A p \in Procs :
       /\ proc[p].inum \in Inodes \union {0}
       /\ proc[p].off \in 0..MAXFILE * BSIZE
       /\ proc[p].left \in Nat /\ proc[p].chunk \in Nat /\ proc[p].done \in Nat
       /\ proc[p].scan \in 0..NBLOCKS
  /\ panicked \in {"none", "balloc", "bfree", "log_write"}

Idle == [pc |-> "user",
         inum |-> 0,      \* the open file's inode, 0 for none
         off |-> 0,       \* f->off
         left |-> 0,      \* n - i of filewrite()
         chunk |-> 0,     \* n1
         done |-> 0,      \* tot of writei()
         scan |-> 0,      \* balloc()'s block of the free map, itrunc()'s j
         wrote |-> {}]    \* history: the blocks logged by the operation

-----------------------------------------------------------------------------
(* mkfs: iappend() takes the blocks in order, the indirect block before    *)
(* the first one it lists, and balloc() marks the first `freeblock' ones.  *)
Nblocks(n) == (n + BSIZE - 1) \div BSIZE

Iappend(n) ==
  [a \in 0..NDIRECT |->
     IF a < NDIRECT THEN IF a < Nblocks(n) THEN a + 1 ELSE 0
     ELSE IF Nblocks(n) > NDIRECT THEN NDIRECT + 1 ELSE 0]

FreeBlock(n) == Nblocks(n) + (IF Nblocks(n) > NDIRECT THEN 1 ELSE 0)

MkfsIalloc == [NoFile EXCEPT !.type = 1, !.nlink = 1]

Mkfs(n) ==
  LET Fill(b, w) ==
        IF b = NDIRECT + 1
        THEN IF NDIRECT + w < Nblocks(n) THEN NDIRECT + 2 + w ELSE 0
        ELSE LET bn == IF b <= NDIRECT THEN b - 1 ELSE b - 2
             IN  IF bn * BSIZE + w < n THEN Word(1, bn * BSIZE + w) ELSE 0
  IN  [used   |-> 1..FreeBlock(n),
       dinode |-> [i \in Inodes |-> IF i = 1
                     THEN [MkfsIalloc EXCEPT !.size = n, !.addrs = Iappend(n)]
                     ELSE NoFile],
       data   |-> [b \in Blks |-> [w \in Slots |-> IF b <= FreeBlock(n) THEN Fill(b, w)
                                                   ELSE 0]]]

Init ==
  \E n \in Images :
    /\ cache = Mkfs(n)
    /\ length = [i \in Inodes |-> IF i = 1 THEN n ELSE 0]
    /\ disk = [fs |-> Mkfs(n), length |-> length]
    /\ mem = [i \in Inodes |-> NoFile]
    /\ holder = [i \in Inodes |-> NoProc]
    /\ proc = [p \in Procs |-> Idle]
    /\ opens = 0
    /\ panicked = "none"

-----------------------------------------------------------------------------
At(p, s) == panicked = "none" /\ proc[p].pc = s

InOp(p) == proc[p].pc \notin {"user", "begin"}

Refs(i) == {p \in Procs : proc[p].inum = i}

(* begin_op(): how long it waits for room is in module Log. *)
BeginOp(p, next) == proc' = [proc EXCEPT ![p].pc = next, ![p].wrote = {}]

\* mutant: the first operation to end commits for all
EndOpEager(p) ==
  /\ At(p, "end")
  /\ disk' = [fs |-> cache, length |-> length]
  /\ proc' = [proc EXCEPT ![p].pc = IF proc[p].left > 0 THEN "begin" ELSE "user",
                          ![p].wrote = {}]
  /\ UNCHANGED <<cache, mem, holder, length, panicked, opens>>

(* end_op() of the last operation commits.  filewrite() goes on with the   *)
(* next chunk.                                                             *)
EndOp(p) ==
  /\ At(p, "end")
  /\ disk' = IF \E q \in Procs \ {p} : InOp(q) THEN disk
             ELSE [fs |-> cache, length |-> length]
  /\ proc' = [proc EXCEPT ![p].pc = IF proc[p].left > 0 THEN "begin" ELSE "user",
                          ![p].wrote = {}]
  /\ UNCHANGED <<cache, mem, holder, length, panicked, opens>>

(* log_write() of block x in the operation of p. *)
Log(p, x) == proc[p].wrote \union {x}

IBLOCK(i) == <<"inode", i>>
BBLOCK(b) == <<"bitmap", (b - 1) \div BPB>>

-----------------------------------------------------------------------------
(* open() of an existing file: iget() and ilock() read the inode when no   *)
(* one else has it open.                                                   *)
Open(p, i) ==
  /\ At(p, "user") /\ opens < MaxOpens /\ opens' = opens + 1 /\ proc[p].inum = 0
  /\ cache.dinode[i].type # 0 /\ cache.dinode[i].nlink = 1
  /\ holder[i] = NoProc
  /\ mem' = IF Refs(i) = {} THEN [mem EXCEPT ![i] = cache.dinode[i]] ELSE mem
  /\ proc' = [proc EXCEPT ![p].pc = "end", ![p].inum = i, ![p].off = 0]
  /\ UNCHANGED <<cache, disk, holder, length, panicked>>

(* open() with O_CREATE: ialloc() takes the first free inode. *)
Create(p, i) ==
  LET ip == [NoFile EXCEPT !.type = 1, !.nlink = 1] IN
  /\ At(p, "user") /\ opens < MaxOpens /\ opens' = opens + 1 /\ proc[p].inum = 0
  /\ cache.dinode[i].type = 0
  /\ \A j \in 1..i-1 : cache.dinode[j].type # 0
  /\ cache' = [cache EXCEPT !.dinode[i] = ip]
  /\ mem' = [mem EXCEPT ![i] = ip]
  /\ length' = [length EXCEPT ![i] = 0]
  /\ proc' = [proc EXCEPT ![p].pc = "end", ![p].inum = i, ![p].off = 0,
                          ![p].wrote = {IBLOCK(i)}]
  /\ UNCHANGED <<disk, holder, panicked>>

(* unlink() of a file that the process has open, without the directory.    *)
(* (One that nobody has open is freed in the same transaction, as by Close.) *)
Unlink(p, i) ==
  /\ At(p, "user") /\ proc[p].inum = i
  /\ holder[i] = NoProc /\ mem[i].nlink = 1
  /\ mem' = [mem EXCEPT ![i].nlink = 0]
  /\ cache' = [cache EXCEPT !.dinode[i] = mem'[i]]
  /\ proc' = [proc EXCEPT ![p].pc = "end", ![p].wrote = {IBLOCK(i)}]
  /\ UNCHANGED <<disk, holder, length, panicked, opens>>

(* fileclose() and iput(): the last reference to an inode without links    *)
(* frees it.                                                               *)
Close(p) ==
  LET i == proc[p].inum IN
  /\ At(p, "user") /\ i # 0 /\ holder[i] = NoProc
  /\ IF mem[i].nlink = 0 /\ Refs(i) = {p}
     THEN /\ holder' = [holder EXCEPT ![i] = p]
          /\ proc' = [proc EXCEPT ![p].pc = "itrunc", ![p].scan = 0, ![p].wrote = {}]
     ELSE /\ proc' = [proc EXCEPT ![p].pc = "end", ![p].inum = 0, ![p].wrote = {}]
          /\ UNCHANGED holder
  /\ UNCHANGED <<cache, disk, mem, length, panicked, opens>>

-----------------------------------------------------------------------------
(* bfree(b) *)
Bfree(p, b, next) ==
  IF b \in cache.used
  THEN /\ cache' = [cache EXCEPT !.used = @ \ {b}]
       /\ proc' = [proc EXCEPT ![p] = [next EXCEPT !.wrote = Log(p, BBLOCK(b))]]
       /\ UNCHANGED panicked
  ELSE panicked' = "bfree" /\ UNCHANGED <<cache, proc>>

\* mutant: the inode keeps the block
ItruncDirectKeep(p) ==
  LET i == proc[p].inum IN
  /\ At(p, "itrunc")
  /\ \E a \in 0..NDIRECT-1 :
       /\ mem[i].addrs[a] # 0 /\ \A b \in 0..a-1 : mem[i].addrs[b] = 0
       /\ Bfree(p, mem[i].addrs[a], proc[p])
  /\ UNCHANGED <<mem, disk, holder, length, opens>>

(* itrunc(): the next direct block. *)
ItruncDirect(p) ==
  LET i == proc[p].inum IN
  /\ At(p, "itrunc")
  /\ \E a \in 0..NDIRECT-1 :
       /\ mem[i].addrs[a] # 0 /\ \A b \in 0..a-1 : mem[i].addrs[b] = 0
       /\ Bfree(p, mem[i].addrs[a], proc[p])
       /\ mem' = [mem EXCEPT ![i].addrs[a] = 0]
  /\ UNCHANGED <<disk, holder, length, opens>>

(* itrunc(): the next block of the indirect block, then that one itself. *)
ItruncIndirect(p) ==
  LET i == proc[p].inum  ind == mem[proc[p].inum].addrs[NDIRECT]  j == proc[p].scan IN
  /\ At(p, "itrunc")
  /\ \A a \in 0..NDIRECT-1 : mem[i].addrs[a] = 0
  /\ ind # 0
  /\ IF j < BSIZE
     THEN LET next == [proc[p] EXCEPT !.scan = j + 1] IN
          /\ IF cache.data[ind][j] # 0 THEN Bfree(p, cache.data[ind][j], next)
             ELSE proc' = [proc EXCEPT ![p] = next] /\ UNCHANGED <<cache, panicked>>
          /\ UNCHANGED mem
     ELSE /\ Bfree(p, ind, proc[p])
          /\ mem' = [mem EXCEPT ![i].addrs[NDIRECT] = 0]
  /\ UNCHANGED <<disk, holder, length, opens>>

(* The end of itrunc() and of iput(): ip->type = 0. *)
IputFree(p) ==
  LET i == proc[p].inum IN
  /\ At(p, "itrunc")
  /\ \A a \in 0..NDIRECT : mem[i].addrs[a] = 0
  /\ mem' = [mem EXCEPT ![i] = NoFile]
  /\ cache' = [cache EXCEPT !.dinode[i] = NoFile]
  /\ length' = [length EXCEPT ![i] = 0]
  /\ holder' = [holder EXCEPT ![i] = NoProc]
  /\ proc' = [proc EXCEPT ![p].pc = "end", ![p].inum = 0, ![p].scan = 0,
                          ![p].wrote = Log(p, IBLOCK(i))]
  /\ UNCHANGED <<disk, panicked, opens>>

-----------------------------------------------------------------------------
(* filewrite(). *)

(* write(fd, buf, n) *)
Write(p, n) ==
  /\ At(p, "user") /\ proc[p].inum # 0
  /\ proc' = [proc EXCEPT ![p].pc = "begin", ![p].left = n]
  /\ UNCHANGED <<cache, disk, mem, holder, length, panicked, opens>>

\* mutant: the inode, the indirect block and the slop are forgotten
MaxChunkGreedy == (MAXOPBLOCKS \div 2) * BSIZE

(* int max = ((MAXOPBLOCKS-1-1-2) / 2) * 512 *)
MaxChunk == ((MAXOPBLOCKS - 1 - 1 - 2) \div 2) * BSIZE

WriteBegin(p) ==
  /\ At(p, "begin")
  /\ BeginOp(p, "ilock")
  /\ UNCHANGED <<cache, disk, mem, holder, length, panicked, opens>>

(* writei()'s early returns; a device is not written through here. *)
TooBig(p, n) == proc[p].off > mem[proc[p].inum].size \/ proc[p].off + n > MAXFILE * BSIZE

(* ilock(), then writei() up to its loop. *)
WriteLock(p) ==
  LET i  == proc[p].inum
      n1 == IF proc[p].left > MaxChunk THEN MaxChunk ELSE proc[p].left
  IN
  /\ At(p, "ilock") /\ holder[i] = NoProc
  /\ IF TooBig(p, n1)
     THEN /\ proc' = [proc EXCEPT ![p].pc = "end", ![p].left = 0]
          /\ UNCHANGED holder
     ELSE /\ proc' = [proc EXCEPT ![p].pc = "writei", ![p].chunk = n1, ![p].done = 0]
          /\ holder' = [holder EXCEPT ![i] = p]
  /\ UNCHANGED <<cache, disk, mem, length, panicked, opens>>

(* bmap(): the place of block bn of an inode, and what it holds. *)
Bn(p) == (proc[p].off + proc[p].done) \div BSIZE

Bmap(ip, bn) ==
  IF bn < NDIRECT THEN ip.addrs[bn]
  ELSE IF ip.addrs[NDIRECT] = 0 THEN 0
  ELSE cache.data[ip.addrs[NDIRECT]][bn - NDIRECT]

(* The first free block that block k of the free map knows of. *)
FirstFree(k) ==
  {b \in Blks : /\ (b - 1) \div BPB = k
                /\ b \notin cache.used
                /\ \A c \in 1..b-1 : (c - 1) \div BPB = k => c \in cache.used}

(* Where a search that finds block k full goes on: the full ones after it  *)
(* are passed in the same step.                                            *)
NextMap(k) ==
  CHOOSE m \in k+1..NBLOCKS :
    /\ FirstFree(m) # {} \/ m * BPB >= NBLOCKS
    /\ \A l \in k+1..m-1 : FirstFree(l) = {} /\ l * BPB < NBLOCKS

(* bmap() needs a block: balloc() looks at one block of the free map after *)
(* the other, zeroes what it finds, and bmap() enters it in the inode or,  *)
(* when the inode has an indirect block, there.                            *)
Balloc(p) ==
  LET i == proc[p].inum  bn == Bn(p)  k == proc[p].scan IN
  /\ At(p, "writei") /\ proc[p].done < proc[p].chunk /\ Bmap(mem[i], bn) = 0
  /\ \/ /\ k * BPB >= NBLOCKS
        /\ panicked' = "balloc"
        /\ UNCHANGED <<cache, mem, proc>>
     \/ /\ k * BPB < NBLOCKS /\ FirstFree(k) = {}
        /\ proc' = [proc EXCEPT ![p].scan = NextMap(k)]
        /\ UNCHANGED <<cache, mem, panicked>>
     \/ \E b \in FirstFree(k) :
          LET toAddrs == bn < NDIRECT \/ mem[i].addrs[NDIRECT] = 0
              a       == IF bn < NDIRECT THEN bn ELSE NDIRECT
              ind     == mem[i].addrs[NDIRECT]
          IN
          /\ mem' = IF toAddrs THEN [mem EXCEPT ![i].addrs[a] = b] ELSE mem
          /\ cache' = [cache EXCEPT
               !.used = @ \union {b},
               !.data = IF toAddrs THEN [@ EXCEPT ![b] = Zeroed]
                        ELSE [@ EXCEPT ![b] = Zeroed, ![ind][bn - NDIRECT] = b]]
          /\ proc' = [proc EXCEPT
               ![p].scan = 0,
               ![p].wrote = @ \union {BBLOCK(b), <<"data", b>>}
                              \union (IF toAddrs THEN {} ELSE {<<"data", ind>>})]
          /\ UNCHANGED panicked
  /\ UNCHANGED <<disk, holder, length, opens>>

\* mutant: the offset in the block is forgotten
RoomWhole(off) == BSIZE

(* BSIZE - off%BSIZE *)
Room(off) == BSIZE - (off % BSIZE)

(* One round of writei()'s loop: the words up to the end of the block. *)
WriteBlock(p) ==
  LET i    == proc[p].inum
      off  == proc[p].off + proc[p].done
      addr == Bmap(mem[i], Bn(p))
      rest == proc[p].chunk - proc[p].done
      m    == IF rest < Room(off) THEN rest ELSE Room(off)
  IN
  /\ At(p, "writei") /\ rest > 0 /\ addr # 0
  /\ cache' = [cache EXCEPT !.data[addr] =
       [w \in Slots |-> IF w \in (off % BSIZE)..((off % BSIZE) + m - 1)
                       THEN Word(i, off - (off % BSIZE) + w) ELSE @[w]]]
  /\ length' = [length EXCEPT ![i] = IF off + m > @ THEN off + m ELSE @]
  /\ proc' = [proc EXCEPT ![p].done = @ + m, ![p].wrote = Log(p, <<"data", addr>>)]
  /\ UNCHANGED <<disk, mem, holder, panicked, opens>>

(* The end of writei(): iupdate() is called only when the file grows. *)
Grow(i, off) ==
  IF off > mem[i].size
  THEN /\ mem' = [mem EXCEPT ![i].size = off]
       /\ cache' = [cache EXCEPT !.dinode[i] = mem'[i]]
  ELSE UNCHANGED <<mem, cache>>

(* writei() returns; f->off += r and iunlock(). *)
WriteEnd(p) ==
  LET i == proc[p].inum  off == proc[p].off + proc[p].chunk IN
  /\ At(p, "writei") /\ proc[p].done = proc[p].chunk
  /\ Grow(i, off)
  /\ holder' = [holder EXCEPT ![i] = NoProc]
  /\ proc' = [proc EXCEPT
       ![p] = [@ EXCEPT !.pc = "end", !.off = off, !.left = @ - proc[p].chunk,
                        !.chunk = 0, !.done = 0,
                        !.wrote = IF off > mem[i].size THEN Log(p, IBLOCK(i)) ELSE @]]
  /\ UNCHANGED <<disk, length, panicked, opens>>

(* fileread() and readi(), to the end of the file.  It is not in a         *)
(* transaction: if bmap() allocated, log_write() would panic unless some   *)
(* other operation is running.                                             *)
Read(p) ==
  LET i == proc[p].inum IN
  /\ At(p, "user") /\ i # 0 /\ holder[i] = NoProc
  /\ proc[p].off < mem[i].size
  /\ IF \E w \in proc[p].off .. mem[i].size - 1 : Bmap(mem[i], w \div BSIZE) = 0
     THEN panicked' = "log_write" /\ UNCHANGED proc
     ELSE proc' = [proc EXCEPT ![p].off = mem[i].size] /\ UNCHANGED panicked
  /\ UNCHANGED <<cache, disk, mem, holder, length, opens>>

(* The power fails, or after a panic the machine is started again: the log *)
(* is recovered.                                                           *)
Crash ==
  /\ cache' = disk.fs
  /\ length' = disk.length
  /\ mem' = [i \in Inodes |-> NoFile]
  /\ holder' = [i \in Inodes |-> NoProc]
  /\ proc' = [p \in Procs |-> Idle]
  /\ panicked' = "none"
  /\ UNCHANGED <<disk, opens>>

-----------------------------------------------------------------------------
Next ==
  \/ \E p \in Procs :
       \/ \E i \in Inodes : Open(p, i) \/ Create(p, i) \/ Unlink(p, i)
       \/ \E n \in Sizes : Write(p, n)
       \/ Close(p) \/ ItruncDirect(p) \/ ItruncIndirect(p) \/ IputFree(p)
       \/ WriteBegin(p) \/ WriteLock(p) \/ Balloc(p) \/ WriteBlock(p) \/ WriteEnd(p)
       \/ Read(p) \/ EndOp(p)
  \/ Crash

Spec == Init /\ [][Next]_vars

-----------------------------------------------------------------------------
(* Properties. *)

(* The places of an inode that hold block numbers: <<0, a>> in addrs[], and *)
(* <<1, j>> in the indirect block, from j on when itrunc() is at j.        *)
Places(ip, data, from) ==
  {<<0, a>> : a \in {b \in 0..NDIRECT : ip.addrs[b] # 0}} \union
  (IF ip.addrs[NDIRECT] = 0 THEN {}
   ELSE {<<1, j>> : j \in {w \in from..BSIZE-1 : data[ip.addrs[NDIRECT]][w] # 0}})

BlockAt(ip, data, pl) ==
  IF pl[1] = 0 THEN ip.addrs[pl[2]] ELSE data[ip.addrs[NDIRECT]][pl[2]]

(* The free map marks exactly the blocks of the inodes, and no block is in *)
(* two places.  ino[i] is the inode, from[i] where itrunc() is in it.      *)
Exact(used, ino, data, from) ==
  LET all == UNION {{<<i, pl>> : pl \in Places(ino[i], data, from[i])} : i \in Inodes}
      At2(x) == BlockAt(ino[x[1]], data, x[2])
  IN  /\ used = {At2(x) : x \in all}
      /\ Cardinality(used) = Cardinality(all)

(* No block is lost and none is in two files, neither in memory, where     *)
(* files grow and are freed at the same time, nor on the disk after a      *)
(* crash in the middle (balloc(), bmap(), bfree(), itrunc() and iupdate()  *)
(* together).                                                              *)
BlocksExact ==
  LET View(i) == IF Refs(i) = {} THEN cache.dinode[i] ELSE mem[i]
      From(i) == IF holder[i] # NoProc /\ proc[holder[i]].pc = "itrunc"
                 THEN proc[holder[i]].scan ELSE 0
  IN  /\ panicked = "none" =>
           Exact(cache.used, [i \in Inodes |-> View(i)], cache.data, [i \in Inodes |-> From(i)])
      /\ Exact(disk.fs.used, disk.fs.dinode, disk.fs.data, [i \in Inodes |-> 0])

(* A file holds what was written to it, whichever blocks it got, however   *)
(* the write was cut into chunks, and also after a crash.                  *)
ReadBack ==
  \A i \in Inodes :
    LET ip == IF Refs(i) = {} THEN cache.dinode[i] ELSE mem[i] IN
    holder[i] = NoProc =>
      /\ ip.size = length[i]
      /\ \A w \in 0..ip.size-1 :
           LET b == Bmap(ip, w \div BSIZE) IN
           b # 0 /\ cache.data[b][w % BSIZE] = Word(i, w)

(* No operation logs more than MAXOPBLOCKS blocks, whatever the alignment  *)
(* of the write and wherever the new blocks have their bits: module Log    *)
(* and begin_op() take this for granted (file.c:129-134).                  *)
TransactionFits ==
  \A p \in Procs : Cardinality(proc[p].wrote) <= MAXOPBLOCKS

(* Of the panics only the one for a full disk is reached: no block is      *)
(* freed twice, and reading never allocates, outside of a transaction.     *)
NoPanic == panicked \in {"none", "balloc"}
=============================================================================
