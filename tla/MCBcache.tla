------------------------------ MODULE MCBcache ------------------------------
(***************************************************************************)
(* Bcache for TLC.  Processes and blocks are interchangeable.              *)
(***************************************************************************)
EXTENDS Bcache

Perms == Permutations(Procs) \union Permutations(Blocks)
=============================================================================
