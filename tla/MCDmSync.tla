------------------------------ MODULE MCDmSync ------------------------------
(***************************************************************************)
(* Small instances of DmSync for TLC.                                      *)
(***************************************************************************)
EXTENDS DmSync, TLC

CONSTANTS r1, r2, e1, e2, o1, o2, b1, none

\* A record of the kind, numbered i; its bytes rank as its id.
Rec(i, kind, entry, to, origin, as, blob) ==
  [id |-> i, data |-> i, kind |-> kind, entry |-> entry, to |-> to,
   origin |-> origin, as |-> as, blob |-> blob]

\* An entry created and deleted: the next sweep takes the body.
CR1 == Rec(1, "CR", e1, none, o1, none, none)
TB1 == Rec(4, "TB", e1, none, none, none, none)
\* Another one.
CR2 == Rec(2, "CR", e2, none, o2, none, none)
\* Two notes on one uncommitted content.
CR1b == Rec(1, "CR", e1, none, o1, none, b1)
CR2b == Rec(3, "CR", e2, none, o2, none, b1)

TwoEntries == {CR1, CR2, TB1}
OneEntry == {CR1, TB1}
Nothing == {}
OneNote == {CR1}
Contents == {CR1b, TB1, CR2b}

\* The clones are alike, save where LateRemote tells them apart.
Alike == Permutations(Replica)
=============================================================================
