-------------------------------- MODULE Fold --------------------------------
(***************************************************************************)
(* What a checkout reads of an entry: internal/core/fold.                  *)
(*                                                                         *)
(* A register of the fold is the record that supplies it, as a set of at   *)
(* most one record: the body, path or anchor is what that record says.  An *)
(* FB stands for a dispute (`!`); the other signals change no reading.     *)
(***************************************************************************)
EXTENDS Sweep, FiniteSets

\* The records of the kinds K that have landed; a register is the newest of them.
LandedOf(R, e, K, L) == {r \in OfEntry(R, e) : r.kind \in K /\ r.origin \in L}
NewestLanded(R, e, K, L) == NewestOf(LandedOf(R, e, K, L))

\* newestNotePreceding: the newest note before the newest landed record, landed
\* or not.
Rescue(R, e, L) ==
  NewestOf({n \in Notes(R, e) :
              \E m \in NewestLanded(R, e, Note \cup Mark, L) : n.id < m.id})

\* fold.Fold: the reading of entry e where the commits of L have landed.
Reading(R, e, L) ==
  LET Register(K) == NewestLanded(R, e, K, L)
      OrRescued(S) == IF S # {} THEN S ELSE Rescue(R, e, L)
  IN  [deleted  |-> Tombstoned(R, e),
       landed   |-> Register(Note \cup Mark) # {},
       body     |-> OrRescued(Register(Note)),
       anchor   |-> OrRescued(Register(Note \cup {"RA"})),
       path     |-> Register(Note \cup Mark),
       rev      |-> 1 + Cardinality(LandedOf(R, e, {"SU"}, L)),
       disputed |-> \E f \in OfEntry(R, e) :
                      f.kind = "FB" /\ \A g \in Register({"SU", "RA"}) : g.id < f.id]

\* fold.Links: of each directed pair the newest LN or UL decides.
Links(R) ==
  LET SamePair(x, y) == x.entry = y.entry /\ x.to = y.to
      marks == {r \in R : r.kind \in {"LN", "UL"}}
  IN  {l \in marks : l.kind = "LN" /\ \A m \in marks : SamePair(l, m) => m.id <= l.id}

=============================================================================
