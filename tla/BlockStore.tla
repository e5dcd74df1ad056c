----------------------------- MODULE BlockStore -----------------------------
(***************************************************************************)
(* What the buffer cache promises its callers: a block has one value, the  *)
(* last one written, and at most one process at a time has the block.      *)
(***************************************************************************)
CONSTANTS Procs, NoProc, Blocks, Vals

VARIABLES store, holder

Init == store \in [Blocks -> Vals] /\ holder = [b \in Blocks |-> NoProc]

(* bread() returns the block. *)
Take(p, b) ==
  /\ holder[b] = NoProc
  /\ holder' = [holder EXCEPT ![b] = p]
  /\ UNCHANGED store

(* The holder changes the block, for log_write() or bwrite(). *)
Write(p, b, v) ==
  /\ holder[b] = p
  /\ store' = [store EXCEPT ![b] = v]
  /\ UNCHANGED holder

(* brelse() *)
Give(p, b) ==
  /\ holder[b] = p
  /\ holder' = [holder EXCEPT ![b] = NoProc]
  /\ UNCHANGED store

Next == \E p \in Procs, b \in Blocks :
  Take(p, b) \/ Give(p, b) \/ \E v \in Vals : Write(p, b, v)

Spec == Init /\ [][Next]_<<store, holder>>
=============================================================================
