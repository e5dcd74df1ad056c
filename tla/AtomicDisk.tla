----------------------------- MODULE AtomicDisk -----------------------------
(***************************************************************************)
(* What the file-system log promises to the rest of the kernel: a disk     *)
(* whose durable contents only ever change from one quiescent state of the *)
(* buffer cache to another.  `stable' is what the machine would find on    *)
(* the disk after a power failure, `current' is what bread() returns now.  *)
(*                                                                         *)
(* An operation is the code between begin_op() and end_op().  Updates of   *)
(* concurrent operations are made durable together, and only while no      *)
(* operation is in progress; the caller of the last end_op() does not      *)
(* return before its updates are durable.                                  *)
(***************************************************************************)

CONSTANTS Procs,    \* processes that run file-system operations
          Blocks,   \* disk blocks outside the log area
          Vals      \* contents of a block

VARIABLES stable,   \* durable contents of every block
          current,  \* contents of every block as the kernel sees them
          active,   \* processes between begin_op() and end_op()
          syncing   \* the process waiting in end_op() for durability, if any

vars == <<stable, current, active, syncing>>

Init ==
  /\ stable \in [Blocks -> Vals]
  /\ current = stable
  /\ active = {}
  /\ syncing = {}

Begin(p) ==
  /\ syncing = {}
  /\ active' = active \union {p}
  /\ UNCHANGED <<stable, current, syncing>>

Write(p, b, v) ==
  /\ p \in active
  /\ current' = [current EXCEPT ![b] = v]
  /\ UNCHANGED <<stable, active, syncing>>

End(p) ==
  /\ p \in active
  /\ active' = active \ {p}
  /\ syncing' = IF active' = {} THEN {p} ELSE {}
  /\ UNCHANGED <<stable, current>>

(* The one step that changes the durable contents. *)
Commit ==
  /\ active = {}
  /\ syncing # {}
  /\ stable' = current
  /\ UNCHANGED <<current, active, syncing>>

Return(p) ==
  /\ syncing = {p}
  /\ stable = current
  /\ syncing' = {}
  /\ UNCHANGED <<stable, current, active>>

(* A crash loses everything that is not durable. *)
Crash ==
  /\ current' = stable
  /\ active' = {}
  /\ syncing' = {}
  /\ UNCHANGED stable

Next ==
  \/ \E p \in Procs : Begin(p) \/ End(p) \/ Return(p)
  \/ \E p \in Procs, b \in Blocks, v \in Vals : Write(p, b, v)
  \/ Commit
  \/ Crash

Spec == Init /\ [][Next]_vars
=============================================================================
