--------------------------- MODULE MCUnreachCache ---------------------------
(***************************************************************************)
(* A small instance of UnreachCache for TLC: a commit, two lines from it,  *)
(* and their merge.                                                        *)
(***************************************************************************)
EXTENDS UnreachCache, TLC

CONSTANTS main, topic

Diamond == (1 :> {}) @@ (2 :> {1}) @@ (3 :> {1}) @@ (4 :> {2, 3})

\* No ref is more than a name.
Alike == Permutations(Ref)
=============================================================================
