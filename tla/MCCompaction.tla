---------------------------- MODULE MCCompaction ----------------------------
(***************************************************************************)
(* Small instances of Compaction for TLC.                                  *)
(***************************************************************************)
EXTENDS Compaction

CONSTANTS e1, e2, o1, o2, o3, none

\* A record of the kind, numbered i; its bytes rank as its id.
Rec(i, kind, entry, to, origin, as) ==
  [id |-> i, data |-> i, kind |-> kind, entry |-> entry, to |-> to,
   origin |-> origin, as |-> as, blob |-> none]

\* An entry on two lines: created, moved, superseded, disputed, confirmed and
\* deleted.
CR1 == Rec(1, "CR", e1, none, o1, none)
RP1 == Rec(2, "RP", e1, none, o2, none)
SU1 == Rec(3, "SU", e1, none, o1, none)
FB1 == Rec(4, "FB", e1, none, none, none)
RA1 == Rec(6, "RA", e1, none, o2, none)
TB1 == Rec(12, "TB", e1, none, none, none)
\* Another one on the first line, and a link that is made and unmade.
CR2 == Rec(7, "CR", e2, none, o1, none)
LN12 == Rec(8, "LN", e1, e2, none, none)
UL12 == Rec(9, "UL", e1, e2, none, none)
\* o1 landed as o2, and o2 as o3.
VD12 == Rec(10, "VD", none, none, o1, o2)
VD23 == Rec(11, "VD", none, none, o2, o3)

Noted == {CR1, RP1, SU1, FB1, RA1, TB1, CR2, LN12, UL12, VD12, VD23}

\* The clocks of the instance agree.
ASSUME ClocksAgree == CreatedFirst
=============================================================================
