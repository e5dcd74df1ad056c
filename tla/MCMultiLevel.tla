---------------------------- MODULE MCMultiLevel ----------------------------
(* Instances of MultiLevel for TLC; the slots of the table are ordered, so *)
(* no symmetry.                                                            *)
EXTENDS MultiLevel
=============================================================================
