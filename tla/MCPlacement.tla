---------------------------- MODULE MCPlacement ----------------------------
(***************************************************************************)
(* A small instance of Placement for TLC: two folders, one with a folder   *)
(* in it, and three contents.                                              *)
(***************************************************************************)
EXTENDS Placement, TLC

CONSTANTS v1, v2, v3

Files == {<<"d", "a">>, <<"d", "s", "a">>, <<"e", "a">>, <<"e", "s", "a">>, <<"a">>}

\* v1 has a near copy in v2 and something of v3, which has nothing of v2.
Alikeness ==
  [p \in Blob \X Blob |->
     CASE p[1] = p[2] -> 100
       [] {p[1], p[2]} = {v1, v2} -> 84
       [] {p[1], p[2]} = {v1, v3} -> 65
       [] {p[1], p[2]} = {v2, v3} -> 10]

OneFolder == {(<<"d", "a">> :> v1) @@ (<<"d", "s", "a">> :> v2)}
=============================================================================
