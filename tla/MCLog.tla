------------------------------- MODULE MCLog -------------------------------
(* Model-checking instances of Log; the constants are in the cfg files. *)
EXTENDS Log
=============================================================================
