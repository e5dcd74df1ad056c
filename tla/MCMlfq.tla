------------------------------- MODULE MCMlfq -------------------------------
(* Instances of Mlfq for TLC; the slots of the table are ordered, so no    *)
(* symmetry.                                                               *)
EXTENDS Mlfq
=============================================================================
