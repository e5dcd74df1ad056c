------------------------------- MODULE MCPipe -------------------------------
(***************************************************************************)
(* Pipe for TLC.  The processes other than the first are interchangeable.  *)
(***************************************************************************)
EXTENDS Pipe, TLC

Perms == Permutations(Procs \ {First})
=============================================================================
