----------------------------- MODULE MCAccounts -----------------------------
(* Accounts for TLC: one user more than the table has room for. *)
EXTENDS Accounts, TLC

CONSTANTS root, ann, bob, cho, p0000, p1234

MCNames == {root, ann, bob, cho}
MCPasswords == {p0000, p1234}

Symmetry == Permutations({ann, bob, cho})
=============================================================================
