------------------------------ MODULE MCFiles ------------------------------
(***************************************************************************)
(* Files for TLC: a is a file or a directory, which may have a file in it, *)
(* and b is another file.                                                  *)
(***************************************************************************)
EXTENDS Files, TLC

CONSTANTS a, b

MCNames == {a, b}

With(op, path, new) == [op |-> op, path |-> path, new |-> new, rel |-> FALSE]

MCCalls ==
  {With("create", <<b>>, <<>>),
   With("open", <<a, a>>, <<>>), With("mkdir", <<a>>, <<>>),
   With("link", <<b>>, <<a, a>>),
   With("chdir", <<a>>, <<>>), [With("create", <<a>>, <<>>) EXCEPT !.rel = TRUE]}
  \union {With("unlink", path, <<>>) : path \in {<<a>>, <<b>>, <<a, a>>}}

Perms == Permutations(Procs)
=============================================================================
