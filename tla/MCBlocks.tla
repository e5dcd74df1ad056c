------------------------------ MODULE MCBlocks ------------------------------
(* A small instance of Blocks for TLC. *)
EXTENDS Blocks, TLC

MCSymmetry == Permutations(Procs)
=============================================================================
