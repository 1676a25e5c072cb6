----------------------------- MODULE MCCommands -----------------------------
(***************************************************************************)
(* A small instance of Commands for TLC: the folder d was split up into p  *)
(* and q, and one of its files was rewritten beyond recognition; a note on *)
(* that file, one on the folder, and one from a line that died.            *)
(***************************************************************************)
EXTENDS Commands, TLC

CONSTANTS e1, e2, e3, e4, o1, o2, o3, b1, b2, b3, b4, none

Tree1 == (<<"d", "x">> :> b1) @@ (<<"d", "y">> :> b2) @@ (<<"d", "z">> :> b3)
Tree2 == (<<"d", "x">> :> b1) @@ (<<"w">> :> b4)
Tree3 == (<<"p", "x">> :> b1) @@ (<<"q", "y">> :> b2) @@ (<<"p", "z">> :> b4)

TreeOf == (o1 :> Tree1) @@ (o2 :> Tree2) @@ (o3 :> Tree3)

\* b4 is as much like b3 as files are anyhow.
Alikeness == [p \in Blob \X Blob |-> IF p[1] = p[2] THEN 100 ELSE 10]

\* A record of another clone, numbered i: ids in between are for this one.
From(i, kind, entry, origin, blob, path) ==
  [id |-> 10 * i, data |-> 10 * i, kind |-> kind, entry |-> entry, to |-> none,
   origin |-> origin, as |-> none, blob |-> blob, path |-> path]

OnFile == From(1, "CR", e1, o1, b3, <<"d", "z">>)
OnFolder == From(2, "CR", e2, o1, none, <<"d", "">>)
OnDead == From(3, "CR", e3, o2, b1, <<"d", "x">>)
\* The dead line's branch went on with the note.
GoesOn == From(6, "SU", e3, o2, b1, <<"d", "x">>)
Dispute == From(4, "FB", e1, none, none, none)

Related == [From(5, "LN", e2, none, none, none) EXCEPT !.to = e1]

Theirs == {OnFile, OnFolder, OnDead, GoesOn, Dispute, Related}

Clone(others, judges) ==
  [ancestors |-> {o1, o3}, reachable |-> {o1, o3} \cup others, qualified |-> judges,
   records |-> {OnFile, OnFolder, OnDead, Dispute, Related}]

Clones == {Clone({}, TRUE), Clone({}, FALSE), Clone({o2}, TRUE)}

ShortForms == {{e1, e3}, {e2}, {e4}}

SomePlaces == {<<"">>, <<"d", "">>, <<"p", "">>, <<"d", "z">>, <<"p", "z">>}
=============================================================================
