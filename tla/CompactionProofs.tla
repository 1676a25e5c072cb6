-------------------------- MODULE CompactionProofs --------------------------
(***************************************************************************)
(* Proofs about Compaction, for any records, commits and clock: what a     *)
(* store keeps under any number of sweeps, and that deletions are final.   *)
(***************************************************************************)
EXTENDS Compaction, Induction

Deletions(R) == {r \in R : r.kind = "TB"}

\* The store never holds what did not arrive, and it holds every deletion
\* that did: whether an entry is deleted is read off the store itself, so the
\* sweeps to come need the deletions to be in it.
IInv ==
  /\ full \subseteq Record
  /\ kept \subseteq full
  /\ Deletions(full) \subseteq kept

\* The sweep takes records from the store only, and no deletion.
LEMMA SweepKeepsDeletions ==
  ASSUME NEW R, NEW aged
  PROVE  /\ KeptRecords(R, aged) \subseteq R
         /\ Deletions(R) \subseteq KeptRecords(R, aged)
<1>1. KeptRecords(R, aged) \subseteq R
  BY DEF KeptRecords, KeptLinks, KeptVerdicts
<1>2. ASSUME NEW r \in Deletions(R)
      PROVE  r \in KeptRecords(R, aged)
  <2>1. r \in OfEntry(R, r.entry) /\ r.kind = "TB"
    BY DEF Deletions, OfEntry
  <2>2. r \in KeptOf(R, aged, r.entry)
    BY <2>1 DEF KeptOf, Tombstoned
  <2> QED BY <2>1, <2>2 DEF KeptRecords, OfEntry
<1> QED BY <1>1, <1>2

\* A record that arrives in a store is in it: an id names one record.
LEMMA ArrivalStays ==
  ASSUME NEW R \in SUBSET Record, NEW x \in Record
  PROVE  AddAbsent(R, {x}) = R \cup {x}
BY UniqueIds DEF AddAbsent, Ids

\* Every step keeps the store within what arrived, deletions included.
THEOREM StoreInvariant == Spec => []IInv
<1>1. Init => IInv
  BY DEF Init, IInv, Deletions
<1>2. IInv /\ [Next]_vars => IInv'
  <2> SUFFICES ASSUME IInv, [Next]_vars
               PROVE  IInv'
    OBVIOUS
  <2>1. ASSUME NEW x \in Record, Arrive(x)
        PROVE  IInv'
    <3>1. kept' = kept \cup {x} /\ full' = full \cup {x}
      BY <2>1, ArrivalStays DEF Arrive, IInv
    <3> QED BY <3>1 DEF IInv, Deletions
  <2>2. ASSUME NEW t \in SweepTime, SweepAt(t)
        PROVE  IInv'
    <3>1. /\ kept' \subseteq kept
          /\ Deletions(kept) \subseteq kept'
      BY <2>2, SweepKeepsDeletions DEF SweepAt
    <3>2. Deletions(full) \subseteq Deletions(kept)
      BY DEF IInv, Deletions
    <3> QED BY <2>2, <3>1, <3>2 DEF IInv, SweepAt
  <2>3. CASE UNCHANGED vars
    BY <2>3 DEF IInv, vars
  <2> QED BY <2>1, <2>2, <2>3 DEF Next
<1> QED BY <1>1, <1>2, PTL DEF Spec

\* A deletion that arrived is read by every clone ever after: no sweep, at
\* whatever time and however often, and no late record of the entry undoes it.
THEOREM DeletionsAreForever == Spec => []DeletionIsForever
<1>1. IInv => DeletionIsForever
  BY DEF IInv, DeletionIsForever, Tombstoned, OfEntry, Deletions
<1> QED BY <1>1, StoreInvariant, PTL

-----------------------------------------------------------------------------
(* Newest records.                                                         *)

\* Of whatever arrived there is a newest.
Topped == \A S \in SUBSET full : S # {} => NewestOf(S) # {}

LEMMA ToppedStays ==
  ASSUME IInv, Topped, NEW x \in Record, full' = full \cup {x}
  PROVE  Topped'
<1> SUFFICES ASSUME NEW S \in SUBSET (full \cup {x}), S # {}
             PROVE  \E z \in S : \A y \in S : y.id <= z.id
  BY DEF Topped, NewestOf
<1>1. \A y \in S : y \in Record /\ y.id \in Nat
  BY RecordAssumption DEF IInv
<1> DEFINE rest == S \ {x}
<1>2. CASE rest = {}
  <2>1. S = {x}
    BY <1>2
  <2> QED
    BY <1>1, <2>1
<1>3. CASE rest # {}
  <2>1. rest \in SUBSET full
    OBVIOUS
  <2>2. PICK z \in rest : \A y \in rest : y.id <= z.id
    BY <1>3, <2>1 DEF Topped, NewestOf
  <2>3. CASE x \notin S
    BY <2>2, <2>3
  <2>4. CASE x \in S /\ x.id <= z.id
    BY <2>2, <2>4
  <2>5. CASE x \in S /\ ~(x.id <= z.id)
    <3>1. \A y \in S : y.id <= x.id
      BY <1>1, <2>2, <2>5
    <3> QED
      BY <2>5, <3>1
  <2> QED
    BY <2>3, <2>4, <2>5
<1> QED
  BY <1>2, <1>3

\* A part that has the newest has the same newest.
LEMMA NewestOfPart ==
  ASSUME IInv, Topped, NEW B \in SUBSET full, NEW A \in SUBSET B, NewestOf(B) \subseteq A
  PROVE  NewestOf(A) = NewestOf(B)
<1>1. \A y \in B : y.id \in Nat
  BY RecordAssumption DEF IInv
<1>2. NewestOf(B) \subseteq NewestOf(A)
  BY DEF NewestOf
<1>3. ASSUME NEW r \in NewestOf(A) PROVE r \in NewestOf(B)
  <2>1. r \in B /\ NewestOf(B) # {}
    BY <1>3 DEF NewestOf, Topped
  <2>2. PICK b \in NewestOf(B) : TRUE
    BY <2>1
  <2>3. b \in A /\ b.id <= r.id /\ \A y \in B : y.id <= b.id
    BY <1>3, <2>2 DEF NewestOf
  <2>4. \A y \in B : y.id <= r.id
    BY <1>1, <2>1, <2>3
  <2> QED
    BY <2>1, <2>4 DEF NewestOf
<1> QED
  BY <1>2, <1>3

-----------------------------------------------------------------------------
(* What a store keeps of the entries that are not deleted.                 *)

\* Whatever is said of an entry, one who said it had read a note of it.
Headed ==
  \A x \in full :
    /\ x.kind # "VD" => Notes(full, x.entry) # {}
    /\ x.kind \in {"LN", "UL"} => Notes(full, x.to) # {}

\* Everything but its older bodies is there.
EntriesKept ==
  \A e \in Entry \cup {None} :
    ~Tombstoned(full, e) =>
      /\ \A x \in OfEntry(full, e) : x.kind \in Mark \cup {"FB"} => x \in kept
      /\ NewestOf(Notes(full, e)) \subseteq kept

LinksKept ==
  \A x \in full :
    x.kind \in {"LN", "UL"} /\ ~Tombstoned(full, x.entry) /\ ~Tombstoned(full, x.to)
      => x \in kept

\* Until the first sweep nothing is missing, and nothing late.
InTime == late \subseteq full /\ (~swept => kept = full)

RInv == IInv /\ Topped /\ Headed /\ EntriesKept /\ LinksKept /\ InTime

\* An entry that had a note and was not deleted lives in the store.
LEMMA StoreLives ==
  ASSUME RInv, NEW e \in Entry \cup {None}, ~Tombstoned(full, e), Notes(full, e) # {}
  PROVE  /\ ~Tombstoned(kept, e)
         /\ NewestOf(Notes(kept, e)) = NewestOf(Notes(full, e))
         /\ Living(kept, e)
<1>1. ~Tombstoned(kept, e)
  BY DEF RInv, IInv, Tombstoned, OfEntry
<1>2. Notes(kept, e) \subseteq Notes(full, e) /\ Notes(full, e) \subseteq full
  BY DEF RInv, IInv, Notes, OfEntry
<1>3. NewestOf(Notes(full, e)) \subseteq Notes(kept, e)
  BY DEF RInv, EntriesKept, NewestOf, Notes, OfEntry
<1>4. NewestOf(Notes(full, e)) # {}
  BY <1>2 DEF RInv, Topped
<1>5. NewestOf(Notes(kept, e)) = NewestOf(Notes(full, e))
  BY <1>2, <1>3, NewestOfPart DEF RInv
<1> QED
  BY <1>1, <1>3, <1>4, <1>5 DEF Living

LEMMA RInvInit == Init => RInv
BY DEF Init, RInv, IInv, Deletions, Topped, Headed, EntriesKept, LinksKept, InTime, OfEntry,
       Notes, NewestOf

LEMMA RInvArrive ==
  ASSUME RInv, IInv', NEW x \in Record, Arrive(x)
  PROVE  RInv'
<1>1. full' = full \cup {x} /\ kept' = kept \cup {x}
  BY ArrivalStays DEF Arrive, RInv, IInv
<1>2. Topped'
  BY <1>1, ToppedStays DEF RInv
<1>3. Headed'
  <2>1. \A e : Notes(full, e) \subseteq Notes(full', e)
    BY <1>1 DEF Notes, OfEntry
  <2>2. x.kind # "VD" => Notes(full', x.entry) # {}
    <3>1. CASE x.kind = "CR"
      BY <1>1, <3>1 DEF Notes, OfEntry, Note
    <3>2. CASE x.kind \notin {"CR", "VD"}
      BY <2>1, <3>2 DEF Arrive, Follows
    <3> QED
      BY <3>1, <3>2
  <2>3. x.kind \in {"LN", "UL"} => Notes(full', x.to) # {}
    BY <2>1 DEF Arrive, Follows
  <2>4. \A y \in full : /\ y.kind # "VD" => Notes(full', y.entry) # {}
                        /\ y.kind \in {"LN", "UL"} => Notes(full', y.to) # {}
    BY <2>1 DEF RInv, Headed
  <2> QED
    BY <1>1, <2>2, <2>3, <2>4 DEF Headed
<1>4. \A e : Tombstoned(full, e) => Tombstoned(full', e)
  BY <1>1 DEF Tombstoned, OfEntry
<1>5. EntriesKept'
  <2> SUFFICES ASSUME NEW e \in Entry \cup {None}, ~Tombstoned(full', e)
               PROVE  /\ \A y \in OfEntry(full', e) : y.kind \in Mark \cup {"FB"} => y \in kept'
                      /\ NewestOf(Notes(full', e)) \subseteq kept'
    BY DEF EntriesKept
  <2>1. /\ \A y \in OfEntry(full, e) : y.kind \in Mark \cup {"FB"} => y \in kept
        /\ NewestOf(Notes(full, e)) \subseteq kept
    BY <1>4 DEF RInv, EntriesKept
  <2>2. NewestOf(Notes(full', e)) \subseteq NewestOf(Notes(full, e)) \cup {x}
    BY <1>1 DEF NewestOf, Notes, OfEntry
  <2> QED
    BY <1>1, <2>1, <2>2 DEF OfEntry
<1>6. LinksKept'
  BY <1>1, <1>4 DEF RInv, LinksKept
<1>7. InTime'
  BY <1>1 DEF RInv, InTime, Arrive
<1> QED
  BY <1>2, <1>3, <1>5, <1>6, <1>7 DEF RInv

LEMMA RInvSweep ==
  ASSUME RInv, IInv', NEW t \in SweepTime, SweepAt(t)
  PROVE  RInv'
<1>1. full' = full /\ kept' = KeptRecords(kept, AgedAt(t))
  BY DEF SweepAt
<1>2. Topped' /\ Headed'
  BY <1>1 DEF RInv, Topped, Headed
<1>3. EntriesKept'
  <2> SUFFICES ASSUME NEW e \in Entry \cup {None}, ~Tombstoned(full, e)
               PROVE  /\ \A y \in OfEntry(full, e) : y.kind \in Mark \cup {"FB"} => y \in kept'
                      /\ NewestOf(Notes(full, e)) \subseteq kept'
    BY <1>1 DEF EntriesKept
  <2>1. CASE Notes(full, e) = {}
    BY <2>1 DEF RInv, Headed, OfEntry, NewestOf, Mark
  <2>2. CASE Notes(full, e) # {}
    <3>1. /\ ~Tombstoned(kept, e) /\ Notes(kept, e) # {}
          /\ NewestOf(Notes(kept, e)) = NewestOf(Notes(full, e))
      BY <2>2, StoreLives DEF Living
    <3>2. /\ {r \in OfEntry(kept, e) : r.kind \in Mark \cup {"FB"}} \subseteq KeptOf(kept, AgedAt(t), e)
          /\ NewestOf(Notes(kept, e)) \subseteq KeptOf(kept, AgedAt(t), e)
      BY <3>1 DEF KeptOf, Pinned
    <3>3. /\ \A y \in OfEntry(full, e) :
               y.kind \in Mark \cup {"FB"} => y \in OfEntry(kept, e)
          /\ NewestOf(Notes(full, e)) \subseteq OfEntry(kept, e)
      BY DEF RInv, EntriesKept, OfEntry, NewestOf, Notes
    <3>4. \A y \in OfEntry(kept, e) : y \in KeptOf(kept, AgedAt(t), e) => y \in kept'
      BY <1>1 DEF KeptRecords, OfEntry
    <3> QED
      BY <3>1, <3>2, <3>3, <3>4
  <2> QED
    BY <2>1, <2>2
<1>4. LinksKept'
  <2> SUFFICES ASSUME NEW x \in full, x.kind \in {"LN", "UL"},
                      ~Tombstoned(full, x.entry), ~Tombstoned(full, x.to)
               PROVE  x \in kept'
    BY <1>1 DEF LinksKept
  <2>1. x \in kept
    BY DEF RInv, LinksKept
  <2>2. x.entry \in Entry \cup {None} /\ x.to \in Entry \cup {None}
    BY RecordAssumption DEF RInv, IInv
  <2>3. Living(kept, x.entry) /\ Living(kept, x.to)
    BY <2>2, StoreLives DEF RInv, Headed
  <2>4. x \in KeptLinks(kept)
    BY <2>1, <2>3 DEF KeptLinks
  <2> QED
    BY <1>1, <2>4 DEF KeptRecords
<1>5. InTime'
  BY DEF RInv, InTime, SweepAt
<1> QED
  BY <1>2, <1>3, <1>4, <1>5 DEF RInv

LEMMA RInvStep == RInv /\ IInv' /\ [Next]_vars => RInv'
<1>1. ASSUME RInv, UNCHANGED vars PROVE RInv'
  BY <1>1 DEF RInv, IInv, Topped, Headed, EntriesKept, LinksKept, InTime, vars
<1> QED
  BY <1>1, RInvArrive, RInvSweep DEF Next

THEOREM ReadersInvariant == Spec => []RInv
BY StoreInvariant, RInvInit, RInvStep, PTL DEF Spec

-----------------------------------------------------------------------------
(* What is read of them.                                                   *)

\* Of the kinds that have bodies or marks, the store has the newest that arrived.
LEMMA NewestLandedKept ==
  ASSUME RInv, NEW e \in Entry, ~Tombstoned(full, e),
         NEW K \in {Note, Note \cup {"RA"}, Note \cup Mark}
  PROVE  NewestLanded(kept, e, K, Commit) = NewestLanded(full, e, K, Commit)
<1> DEFINE A == LandedOf(kept, e, K, Commit)
           B == LandedOf(full, e, K, Commit)
<1>1. A \subseteq B /\ B \subseteq full
  BY DEF NewestLanded, LandedOf, OfEntry, RInv, IInv
<1>2. ASSUME NEW r \in NewestOf(B) PROVE r \in kept
  <2>1. r \in B /\ r \in OfEntry(full, e) /\ r.kind \in Note \cup Mark /\ \A q \in B : q.id <= r.id
    BY <1>2 DEF NewestOf, NewestLanded, LandedOf, Note, Mark
  <2>2. CASE r.kind \in Mark
    BY <2>1, <2>2 DEF RInv, EntriesKept
  <2>3. CASE r.kind \in Note
    <3>1. \A n \in Notes(full, e) : n \in B
      BY CompactionAssumption DEF NewestLanded, LandedOf, Notes, OfEntry, Note, Mark, RInv, IInv
    <3>2. r \in NewestOf(Notes(full, e))
      BY <2>1, <2>3, <3>1 DEF NewestOf, Notes
    <3> QED
      BY <3>2 DEF RInv, EntriesKept
  <2> QED
    BY <2>1, <2>2, <2>3
<1>3. NewestOf(B) \subseteq A
  BY <1>1, <1>2 DEF NewestOf, NewestLanded, LandedOf, OfEntry
<1>4. NewestOf(A) = NewestOf(B)
  BY <1>1, <1>3, NewestOfPart DEF RInv
<1> QED
  BY <1>4 DEF NewestLanded

\* All has landed, so what is said of an entry is said beside a note that has:
\* there is nothing to rescue.
LEMMA NothingToRescue ==
  ASSUME RInv, NEW e \in Entry, ~Tombstoned(full, e), NEW R \in {kept, full},
         NewestLanded(R, e, Note, Commit) = {}
  PROVE  Rescue(R, e, Commit) = {}
<1>1. NewestLanded(full, e, Note, Commit) = {}
  BY NewestLandedKept
<1>2. LandedOf(full, e, Note, Commit) = {}
  BY <1>1 DEF RInv, Topped, NewestLanded, LandedOf, OfEntry
<1>3. Notes(full, e) = {}
  BY <1>2, CompactionAssumption DEF NewestLanded, LandedOf, Notes, OfEntry, RInv, IInv
<1>4. Notes(R, e) = {}
  BY <1>3 DEF Notes, OfEntry, RInv, IInv
<1> QED
  BY <1>4 DEF Rescue, NewestOf

LEMMA RegistersKept == RInv => RegistersAsIfUnswept
<1> SUFFICES ASSUME RInv, NEW e \in Entry, ~Tombstoned(full, e)
             PROVE  \A f \in Register : Reading(kept, e, Commit)[f] = Reading(full, e, Commit)[f]
  BY DEF RegistersAsIfUnswept
<1>1. /\ NewestLanded(kept, e, Note, Commit) = NewestLanded(full, e, Note, Commit)
      /\ NewestLanded(kept, e, Note \cup {"RA"}, Commit)
           = NewestLanded(full, e, Note \cup {"RA"}, Commit)
      /\ NewestLanded(kept, e, Note \cup Mark, Commit)
           = NewestLanded(full, e, Note \cup Mark, Commit)
  BY NewestLandedKept
<1>2. Reading(kept, e, Commit).deleted = Reading(full, e, Commit).deleted
  <2>1. Tombstoned(kept, e) = Tombstoned(full, e)
    BY DEF RInv, IInv, Tombstoned, OfEntry
  <2> QED
    BY <2>1 DEF Reading
<1>3. Reading(kept, e, Commit).landed = Reading(full, e, Commit).landed
  BY <1>1 DEF Reading
<1>4. Reading(kept, e, Commit).path = Reading(full, e, Commit).path
  BY <1>1 DEF Reading
<1>5. /\ Reading(kept, e, Commit).body = Reading(full, e, Commit).body
      /\ Reading(kept, e, Commit).anchor = Reading(full, e, Commit).anchor
  <2>1. CASE NewestLanded(full, e, Note, Commit) = {}
    <3>1. Rescue(kept, e, Commit) = {} /\ Rescue(full, e, Commit) = {}
      BY <1>1, <2>1, NothingToRescue
    <3> QED
      BY <1>1, <3>1 DEF Reading
  <2>2. CASE NewestLanded(full, e, Note, Commit) # {}
    <3>1. LandedOf(full, e, Note, Commit) # {}
      BY <2>2 DEF NewestLanded, NewestOf
    <3>2. LandedOf(full, e, Note \cup {"RA"}, Commit) # {}
      BY <3>1 DEF LandedOf
    <3>3. NewestLanded(full, e, Note \cup {"RA"}, Commit) # {}
      BY <3>2 DEF RInv, Topped, NewestLanded, LandedOf, OfEntry
    <3> QED
      BY <1>1, <2>2, <3>3 DEF Reading
  <2> QED
    BY <2>1, <2>2
<1> QED
  BY <1>2, <1>3, <1>4, <1>5 DEF Register

LEMMA LinksAreKept == RInv => LinksAsIfUnswept
<1> SUFFICES ASSUME RInv
             PROVE  \A l : l \in Links(kept) /\ Living(full, l.entry) /\ Living(full, l.to)
                       <=> l \in Links(full) /\ Living(full, l.entry) /\ Living(full, l.to)
  BY DEF LinksAsIfUnswept
<1>1. kept \subseteq full
  BY DEF RInv, IInv
<1>2. ASSUME NEW l \in Links(kept), Living(full, l.entry), Living(full, l.to)
      PROVE  l \in Links(full)
  <2>1. \A m \in full : m.kind \in {"LN", "UL"} /\ m.entry = l.entry /\ m.to = l.to => m \in kept
    BY <1>2 DEF RInv, LinksKept, Living
  <2> QED
    BY <1>1, <1>2, <2>1 DEF Links
<1>3. ASSUME NEW l \in Links(full), Living(full, l.entry), Living(full, l.to)
      PROVE  l \in Links(kept)
  <2>1. l \in kept
    BY <1>3 DEF RInv, LinksKept, Living, Links
  <2> QED
    BY <1>1, <1>3, <2>1 DEF Links
<1> QED
  BY <1>2, <1>3

\* Where clocks agree, the newest confirmation of an entry is there too: were its
\* newest SU hidden, then behind another.
LEMMA DisputesKept == CreatedFirst /\ RInv => DisputesAsIfUnswept
<1> SUFFICES ASSUME CreatedFirst, RInv, NEW e \in Entry, ~Tombstoned(full, e)
             PROVE  Reading(kept, e, Commit).disputed = Reading(full, e, Commit).disputed
  BY DEF DisputesAsIfUnswept
<1> DEFINE A == LandedOf(kept, e, {"SU", "RA"}, Commit)
           B == LandedOf(full, e, {"SU", "RA"}, Commit)
<1>1. A \subseteq B /\ B \subseteq full
  BY DEF NewestLanded, LandedOf, OfEntry, RInv, IInv
<1>2. ASSUME NEW g \in NewestOf(B) PROVE g \in kept
  <2>1. /\ g \in OfEntry(full, e) /\ g \in Record /\ g.kind \in {"SU", "RA"} /\ g.id \in Nat
        /\ \A q \in B : q.id <= g.id
    BY <1>1, <1>2, RecordAssumption DEF NewestOf, NewestLanded, LandedOf, RInv, IInv
  <2>2. CASE g.kind = "RA"
    BY <2>1, <2>2 DEF RInv, EntriesKept, Mark
  <2>3. CASE g.kind = "SU"
    <3>1. g \in Notes(full, e)
      BY <2>1, <2>3 DEF Notes, Note
    <3>2. PICK n \in NewestOf(Notes(full, e)) : TRUE
      BY <3>1 DEF RInv, Topped, Notes, OfEntry
    <3>3. n \in kept /\ n \in Notes(full, e) /\ n \in Record /\ n.id \in Nat /\ g.id <= n.id
      BY <3>1, <3>2, RecordAssumption DEF RInv, IInv, EntriesKept, NewestOf, Notes, OfEntry
    <3>4. n.kind = "SU"
      <4>1. n.kind \in Note /\ n.entry = e /\ g.entry = e
        BY <3>3, <2>1 DEF Notes, OfEntry
      <4>2. ~(n.id < g.id)
        BY <2>1, <3>3
      <4> QED
        BY <2>1, <2>3, <3>3, <4>1, <4>2 DEF CreatedFirst, Note
    <3>5. n \in B
      BY <3>3, <3>4, CompactionAssumption DEF NewestLanded, LandedOf, Notes, Note
    <3>6. n.id = g.id
      BY <2>1, <3>3, <3>5
    <3> QED
      BY <2>1, <3>3, <3>6, UniqueIds
  <2> QED
    BY <2>1, <2>2, <2>3
<1>3. NewestOf(B) \subseteq A
  BY <1>1, <1>2 DEF NewestOf, NewestLanded, LandedOf, OfEntry
<1>4. NewestLanded(kept, e, {"SU", "RA"}, Commit) = NewestLanded(full, e, {"SU", "RA"}, Commit)
  BY <1>1, <1>3, NewestOfPart DEF RInv, NewestLanded
<1>5. \A f : f \in OfEntry(kept, e) /\ f.kind = "FB" <=> f \in OfEntry(full, e) /\ f.kind = "FB"
  BY DEF RInv, IInv, EntriesKept, OfEntry
<1>6. (\E f \in OfEntry(kept, e) :
         f.kind = "FB" /\ \A g \in NewestLanded(kept, e, {"SU", "RA"}, Commit) : g.id < f.id)
      = (\E f \in OfEntry(full, e) :
           f.kind = "FB" /\ \A g \in NewestLanded(full, e, {"SU", "RA"}, Commit) : g.id < f.id)
  BY <1>4, <1>5
<1> QED
  BY <1>6 DEF Reading

\* Whatever the clocks, no sweep changes where an entry that is not deleted is
\* present, its body, its anchor, its path, or its links.
THEOREM RegistersAreForever == Spec => [](RegistersAsIfUnswept /\ LinksAsIfUnswept)
BY ReadersInvariant, RegistersKept, LinksAreKept, PTL

\* A checkout where all has landed reads as if nothing had ever been swept, in
\* whatever order records and sweeps come: where no clock is behind what its
\* owner has read, disputes included.
THEOREM ReadingsAreForever ==
  ASSUME CreatedFirst
  PROVE  Spec => []ReadsAsIfUnswept
<1>1. RInv => ReadsAsIfUnswept
  BY RegistersKept, LinksAreKept, DisputesKept DEF ReadsAsIfUnswept
<1> QED
  BY ReadersInvariant, <1>1, PTL

-----------------------------------------------------------------------------
(* Bodies.                                                                 *)

\* A mark that arrived in time has, below it, the note its writer read or a later
\* one.
BodiesKept ==
  /\ \A x \in full : x.kind \in Note \cup Mark =>
                       \E c \in full : c.kind = "CR" /\ c.entry = x.entry
  /\ \A m \in kept \ late :
       m.kind \in Mark /\ ~Tombstoned(full, m.entry) =>
         \E n \in Notes(kept, m.entry) : n.id < m.id

LEMMA BodiesArrive ==
  ASSUME CreatedFirst, RInv, BodiesKept, NEW x \in Record, Arrive(x)
  PROVE  BodiesKept'
<1>1. /\ full' = full \cup {x} /\ kept' = kept \cup {x} /\ swept' = swept
      /\ x \notin full /\ late' = IF swept THEN late \cup {x} ELSE late
  BY ArrivalStays DEF Arrive, RInv, IInv
<1>2. \A y \in full' : y.kind \in Note \cup Mark =>
                         \E c \in full' : c.kind = "CR" /\ c.entry = y.entry
  <2>1. CASE x.kind \in {"SU"} \cup Mark
    <3>1. PICK n \in Notes(full, x.entry) : TRUE
      BY <2>1 DEF Arrive, Follows, Mark
    <3>2. n \in full /\ n.kind \in Note /\ n.entry = x.entry
      BY DEF Notes, OfEntry
    <3> QED
      BY <1>1, <3>2 DEF BodiesKept
  <2>2. CASE x.kind \notin {"SU"} \cup Mark
    BY <1>1, <2>2 DEF BodiesKept, Note
  <2> QED
    BY <2>1, <2>2
<1>3. ASSUME NEW m \in kept' \ late', m.kind \in Mark, ~Tombstoned(full', m.entry)
      PROVE  \E n \in Notes(kept', m.entry) : n.id < m.id
  <2>1. CASE m \in kept
    <3>1. m \notin late /\ ~Tombstoned(full, m.entry)
      BY <1>1, <1>3 DEF Tombstoned, OfEntry
    <3>2. PICK n \in Notes(kept, m.entry) : n.id < m.id
      BY <1>3, <2>1, <3>1 DEF BodiesKept
    <3> QED
      BY <1>1, <3>2 DEF Notes, OfEntry
  <2>2. CASE m = x
    <3>1. kept = full
      BY <1>1, <1>3, <2>2 DEF RInv, InTime
    <3>2. PICK c \in full' : c.kind = "CR" /\ c.entry = m.entry
      BY <1>1, <1>2, <1>3, <2>2
    <3>3. c \in Record /\ c \in kept'
      BY <1>1, <3>1, <3>2 DEF RInv, IInv
    <3>4. c.id < m.id
      BY <1>3, <2>2, <3>2, <3>3 DEF CreatedFirst
    <3> QED
      BY <3>2, <3>3, <3>4 DEF Notes, OfEntry, Note
  <2> QED
    BY <1>1, <2>1, <2>2
<1> QED
  BY <1>2, <1>3 DEF BodiesKept

LEMMA BodiesSweep ==
  ASSUME RInv, BodiesKept, NEW t \in SweepTime, SweepAt(t)
  PROVE  BodiesKept'
<1>1. /\ full' = full /\ late' = late /\ swept' = TRUE
      /\ kept' = KeptRecords(kept, AgedAt(t))
  BY DEF SweepAt
<1>2. kept' \subseteq kept
  BY <1>1, SweepKeepsDeletions
<1>3. ASSUME NEW m \in kept' \ late, m.kind \in Mark, ~Tombstoned(full, m.entry)
      PROVE  \E n \in Notes(kept', m.entry) : n.id < m.id
  <2> DEFINE e == m.entry
             S == {n \in Notes(kept, e) : n.id < m.id}
  <2>1. m \in kept /\ m \in full /\ e \in Entry \cup {None}
    BY <1>2, <1>3, RecordAssumption DEF RInv, IInv
  <2>2. S # {} /\ S \subseteq full
    BY <1>3, <2>1 DEF BodiesKept, RInv, IInv, Notes, OfEntry
  <2>3. PICK n \in NewestOf(S) : TRUE
    BY <2>2 DEF RInv, Topped
  <2>4. n \in Notes(kept, e) /\ n.id < m.id
    BY DEF NewestOf
  <2>5. n \in Pinned(kept, e)
    BY <1>3, <2>1 DEF Pinned, OfEntry
  <2>6. ~Tombstoned(kept, e)
    BY <1>3 DEF RInv, IInv, Tombstoned, OfEntry
  <2>7. n \in KeptOf(kept, AgedAt(t), e)
    BY <2>4, <2>5, <2>6 DEF KeptOf
  <2>8. n \in kept'
    BY <1>1, <2>4, <2>7 DEF KeptRecords, Notes, OfEntry
  <2> QED
    BY <2>4, <2>8 DEF Notes, OfEntry
<1> QED
  BY <1>1, <1>3 DEF BodiesKept

LEMMA BodiesStep == CreatedFirst /\ RInv /\ BodiesKept /\ [Next]_vars => BodiesKept'
<1>1. ASSUME BodiesKept, UNCHANGED vars PROVE BodiesKept'
  BY <1>1 DEF BodiesKept, vars
<1> QED
  BY <1>1, BodiesArrive, BodiesSweep DEF Next

LEMMA BodiesAreRead == RInv /\ BodiesKept => HasBodyInTime
<1> SUFFICES ASSUME RInv, BodiesKept, NEW e \in Entry,
                    \A m \in late : m.entry = e => m.kind \notin Mark,
                    NEW L \in SUBSET Commit,
                    Reading(kept, e, L).landed, ~Reading(kept, e, L).deleted
             PROVE  Reading(kept, e, L).body # {} /\ Reading(kept, e, L).anchor # {}
  BY DEF HasBodyInTime, HasBody
<1> DEFINE Bodies == LandedOf(kept, e, Note, L)
           All == LandedOf(kept, e, Note \cup Mark, L)
<1>1. All \subseteq full /\ NewestOf(All) # {} /\ ~Tombstoned(kept, e)
  BY DEF Reading, NewestLanded, LandedOf, OfEntry, RInv, IInv
<1>2. CASE Bodies # {}
  <2>1. LandedOf(kept, e, Note \cup {"RA"}, L) # {}
    BY <1>2 DEF LandedOf
  <2>2. /\ NewestLanded(kept, e, Note, L) # {}
        /\ NewestLanded(kept, e, Note \cup {"RA"}, L) # {}
    BY <1>2, <2>1 DEF NewestLanded, LandedOf, OfEntry, RInv, IInv, Topped
  <2> QED
    BY <2>2 DEF Reading
<1>3. CASE Bodies = {}
  <2>1. PICK m \in NewestOf(All) : TRUE
    BY <1>1
  <2>2. m \in kept /\ m.entry = e /\ m.kind \in Mark
    BY <1>3 DEF NewestOf, LandedOf, OfEntry
  <2>3. m \notin late
    BY <2>2
  <2>4. ~Tombstoned(full, e)
    BY <1>1 DEF RInv, IInv, Tombstoned, OfEntry, Deletions
  <2>5. PICK n \in Notes(kept, e) : n.id < m.id
    BY <2>2, <2>3, <2>4 DEF BodiesKept
  <2> DEFINE S == {k \in Notes(kept, e) : \E q \in NewestOf(All) : k.id < q.id}
  <2>6. n \in S /\ S \subseteq full
    BY <2>1, <2>5 DEF Notes, OfEntry, RInv, IInv
  <2>7. Rescue(kept, e, L) # {}
    BY <2>6 DEF Rescue, NewestLanded, RInv, Topped
  <2> QED
    BY <2>7 DEF Reading
<1> QED
  BY <1>2, <1>3

\* Where no clock is behind what its owner has read, an entry whose marks all
\* arrived in time has a body wherever it is present, whatever has landed there
\* and however often the store was swept: the sweep pins what a mark is read on.
THEOREM BodiesAreForever ==
  ASSUME CreatedFirst
  PROVE  Spec => []HasBodyInTime
<1>1. Init => BodiesKept
  BY DEF Init, BodiesKept
<1> QED
  BY ReadersInvariant, <1>1, BodiesStep, BodiesAreRead, PTL DEF Spec

-----------------------------------------------------------------------------
(* Verdicts.                                                               *)

ClosedIn(R, N) == \A v \in R : v.kind = "VD" /\ v.origin \in N /\ v.as # None => v.as \in N

\* The origins that are needed are the least set with those of the records that
\* stay, closed under landed-as.
LEMMA NeededIsLeast ==
  ASSUME NEW R, NEW K
  PROVE  /\ NoteOrigins(K) \subseteq Needed(R, K)
         /\ ClosedIn(R, Needed(R, K))
         /\ \A N : NoteOrigins(K) \subseteq N /\ ClosedIn(R, N) => Needed(R, K) \subseteq N
<1> DEFINE verdicts == {r \in R : r.kind = "VD"}
           origins == NoteOrigins(K) \cup {v.as : v \in {w \in verdicts : w.as # None}}
           Closed(N) == \A v \in verdicts : v.origin \in N /\ v.as # None => v.as \in N
<1>1. Needed(R, K) = {o \in origins : \A N \in SUBSET origins :
                                        NoteOrigins(K) \subseteq N /\ Closed(N) => o \in N}
  BY DEF Needed
<1>2. \A N : Closed(N) <=> ClosedIn(R, N)
  BY DEF ClosedIn
<1>3. \A v \in R : v.kind = "VD" /\ v.as # None => v.as \in origins
  OBVIOUS
<1>4. NoteOrigins(K) \subseteq origins
  OBVIOUS
<1> HIDE DEF verdicts, origins, Closed
<1>5. NoteOrigins(K) \subseteq Needed(R, K)
  BY <1>1, <1>4
<1>6. ClosedIn(R, Needed(R, K))
  BY <1>1, <1>2, <1>3 DEF ClosedIn
<1>7. ASSUME NEW N, NoteOrigins(K) \subseteq N, ClosedIn(R, N)
      PROVE  Needed(R, K) \subseteq N
  <2> DEFINE M == N \cap origins
  <2>1. M \in SUBSET origins /\ NoteOrigins(K) \subseteq M
    BY <1>4, <1>7
  <2>2. Closed(M)
    BY <1>2, <1>3, <1>7 DEF ClosedIn
  <2> QED
    BY <1>1, <2>1, <2>2
<1> QED
  BY <1>5, <1>6, <1>7

\* The verdicts the records need that arrived in time, and are not deleted.
Timely == {r \in kept \ late : ~Tombstoned(full, r.entry)}

VerdictsKept == Verdicts(late) = {} => KeptVerdicts(full, Timely) \subseteq kept

LEMMA VerdictsArrive ==
  ASSUME RInv, VerdictsKept, NEW x \in Record, Arrive(x)
  PROVE  VerdictsKept'
<1>1. /\ full' = full \cup {x} /\ kept' = kept \cup {x}
      /\ late' = IF swept THEN late \cup {x} ELSE late
  BY ArrivalStays DEF Arrive, RInv, IInv
<1>2. CASE ~swept
  BY <1>1, <1>2 DEF RInv, InTime, VerdictsKept, KeptVerdicts
<1>3. CASE swept
  <2> SUFFICES ASSUME Verdicts(late') = {}
               PROVE  KeptVerdicts(full', Timely') \subseteq kept'
    BY DEF VerdictsKept
  <2>1. x.kind # "VD" /\ Verdicts(late) = {}
    BY <1>1, <1>3 DEF Verdicts
  <2>2. NoteOrigins(Timely') \subseteq NoteOrigins(Timely)
    <3>1. Timely' \subseteq Timely
      BY <1>1, <1>3 DEF Timely, Tombstoned, OfEntry
    <3> QED
      BY <3>1 DEF NoteOrigins
  <2>3. ClosedIn(full', Needed(full, Timely))
    BY <1>1, <2>1, NeededIsLeast DEF ClosedIn
  <2>4. NoteOrigins(Timely) \subseteq Needed(full, Timely)
    BY NeededIsLeast
  <2>5. Needed(full', Timely') \subseteq Needed(full, Timely)
    BY <2>2, <2>3, <2>4, NeededIsLeast
  <2> QED
    BY <1>1, <2>1, <2>5 DEF VerdictsKept, KeptVerdicts
<1> QED
  BY <1>2, <1>3

LEMMA VerdictsSweep ==
  ASSUME RInv, VerdictsKept, NEW t \in SweepTime, SweepAt(t)
  PROVE  VerdictsKept'
<1> SUFFICES ASSUME Verdicts(late) = {}
             PROVE  KeptVerdicts(full, Timely') \subseteq kept'
  BY DEF VerdictsKept, SweepAt
<1> DEFINE aged == AgedAt(t)
           K == {r \in kept : r \in KeptOf(kept, aged, r.entry)} \cup KeptLinks(kept)
           N == Needed(kept, K) \cap Needed(full, Timely)
<1>1. /\ full' = full /\ late' = late
      /\ kept' = K \cup KeptVerdicts(kept, K)
  BY DEF SweepAt, KeptRecords
<1>2. kept' \subseteq kept
  BY SweepKeepsDeletions DEF SweepAt
<1>3. KeptVerdicts(full, Timely) \subseteq kept
  BY DEF VerdictsKept
<1>4. NoteOrigins(Timely') \subseteq NoteOrigins(K)
  <2>1. \A r \in kept' : r.kind \in Note \cup Mark => r \in K
    BY <1>1 DEF KeptVerdicts, Note, Mark
  <2> QED
    BY <2>1 DEF NoteOrigins, Timely
<1>5. NoteOrigins(Timely') \subseteq NoteOrigins(Timely)
  BY <1>1, <1>2 DEF NoteOrigins, Timely
<1> HIDE DEF K
<1>6. NoteOrigins(Timely') \subseteq N
  BY <1>4, <1>5, NeededIsLeast
<1>7. ClosedIn(full, N)
  <2> SUFFICES ASSUME NEW v \in full, v.kind = "VD", v.origin \in N, v.as # None
               PROVE  v.as \in N
    BY DEF ClosedIn
  <2>1. v \in kept
    BY <1>3 DEF KeptVerdicts
  <2>2. v.as \in Needed(kept, K)
    BY <2>1, NeededIsLeast DEF ClosedIn
  <2>3. v.as \in Needed(full, Timely)
    BY NeededIsLeast DEF ClosedIn
  <2> QED
    BY <2>2, <2>3
<1>8. Needed(full, Timely') \subseteq N
  BY <1>6, <1>7, NeededIsLeast
<1> QED
  BY <1>1, <1>3, <1>8 DEF KeptVerdicts

LEMMA VerdictsStep == RInv /\ VerdictsKept /\ [Next]_vars => VerdictsKept'
<1>1. ASSUME VerdictsKept, UNCHANGED vars PROVE VerdictsKept'
  BY <1>1 DEF VerdictsKept, Timely, vars
<1> QED
  BY <1>1, VerdictsArrive, VerdictsSweep DEF Next

-----------------------------------------------------------------------------
(* Chains.                                                                 *)

\* One move of a chain: it goes on when it is d long and the binding of its end
\* leads to a commit it did not go through.
Move(b, q, d) ==
  IF Len(q) = d /\ q[Len(q)] \in DOMAIN b /\ \A i \in DOMAIN q : q[i] # b[q[Len(q)]]
  THEN Append(q, b[q[Len(q)]])
  ELSE q

Walks(b, o, w) ==
  w = [d \in 0 .. MaxChainDepth |-> IF d = 0 THEN <<o>> ELSE Move(b, w[d - 1], d)]

LEMMA ChainIsWalk ==
  ASSUME NEW b, NEW o
  PROVE  Chain(b, o) = (CHOOSE w : Walks(b, o, w))[MaxChainDepth]
BY DEF Chain, Walks, Move

\* Two walks from one place are one.
LEMMA OneWalk ==
  ASSUME NEW b, NEW o, NEW v, NEW w, Walks(b, o, v), Walks(b, o, w)
  PROVE  v = w
<1>1. /\ DOMAIN v = 0 .. MaxChainDepth /\ v = [d \in DOMAIN v |-> v[d]]
      /\ DOMAIN w = 0 .. MaxChainDepth /\ w = [d \in DOMAIN w |-> w[d]]
  BY DEF Walks
<1>2. MaxChainDepth \in Nat
  BY ChainAssumption
<1>3. v[0] = w[0]
  BY <1>2 DEF Walks
<1>4. ASSUME NEW d \in 0 .. MaxChainDepth - 1, v[d] = w[d]
      PROVE  v[d + 1] = w[d + 1]
  <2>1. d + 1 \in 0 .. MaxChainDepth /\ d + 1 # 0 /\ (d + 1) - 1 = d
    BY <1>2
  <2>2. v[d + 1] = Move(b, v[d], d + 1) /\ w[d + 1] = Move(b, w[d], d + 1)
    BY <2>1 DEF Walks
  <2> QED
    BY <1>4, <2>2
<1> QED
  BY <1>1, <1>2, <1>3, <1>4, IterationUnique

\* From a place in N, where the bindings b stay in N, there is a walk in N.
LEMMA WalkExists ==
  ASSUME NEW b, NEW N, NEW o \in N, \A s \in N : s \in DOMAIN b => b[s] \in N
  PROVE  \E w : /\ Walks(b, o, w)
                /\ \A d \in 0 .. MaxChainDepth : w[d] \in Seq(N) \ {<<>>}
<1> DEFINE T == Seq(N) \ {<<>>}
           start == <<o>>
           step == [d \in Nat |-> [q \in T |-> Move(b, q, d + 1)]]
<1>1. MaxChainDepth \in Nat
  BY ChainAssumption
<1>2. ASSUME NEW q \in T, NEW d \in Nat PROVE Move(b, q, d) \in T
  <2>1. Len(q) \in Nat /\ Len(q) # 0 /\ q[Len(q)] \in N
    OBVIOUS
  <2>2. CASE q[Len(q)] \in DOMAIN b
    <3>1. b[q[Len(q)]] \in N
      BY <2>1, <2>2
    <3>2. Append(q, b[q[Len(q)]]) \in T
      BY <3>1
    <3> QED
      BY <3>2 DEF Move
  <2>3. CASE q[Len(q)] \notin DOMAIN b
    BY <2>3 DEF Move
  <2> QED
    BY <2>2, <2>3
<1>3. start \in T
  OBVIOUS
<1> HIDE DEF T, start
<1>4. step \in [Nat -> [T -> T]]
  <2>1. \A d \in Nat : d + 1 \in Nat
    OBVIOUS
  <2>2. \A d \in Nat : [q \in T |-> Move(b, q, d + 1)] \in [T -> T]
    BY <1>2, <2>1
  <2> QED
    BY <2>2
<1> HIDE DEF step
<1>5. PICK w : Iterates(w, MaxChainDepth, T, start, step)
  BY <1>1, <1>3, <1>4, IterationExists
<1>6. /\ w \in [0 .. MaxChainDepth -> T]
      /\ w[0] = start /\ \A d \in 0 .. MaxChainDepth - 1 : w[d + 1] = step[d][w[d]]
  BY <1>5 DEF Iterates
<1>7. ASSUME NEW d \in 0 .. MaxChainDepth, d # 0
      PROVE  w[d] = Move(b, w[d - 1], d)
  <2>1. d - 1 \in 0 .. MaxChainDepth - 1 /\ d - 1 \in Nat /\ (d - 1) + 1 = d
    BY <1>1, <1>7
  <2>2. w[d] = step[d - 1][w[d - 1]]
    BY <1>6, <2>1
  <2>3. d - 1 \in 0 .. MaxChainDepth
    BY <1>1, <2>1
  <2>4. w[d - 1] \in T
    BY <1>6, <2>3
  <2> QED
    BY <2>1, <2>2, <2>4 DEF step
<1>8. w = [d \in 0 .. MaxChainDepth |-> IF d = 0 THEN start ELSE Move(b, w[d - 1], d)]
  BY <1>1, <1>6, <1>7
<1>9. \A d \in 0 .. MaxChainDepth : w[d] \in T
  BY <1>6
<1> QED
  BY <1>8, <1>9 DEF Walks, T, start

\* Bindings that agree on a set they do not lead out of have the same chains
\* from it.
LEMMA ChainsAgree ==
  ASSUME NEW a, NEW b, NEW N, NEW o \in N,
         \A s \in N : /\ s \in DOMAIN a <=> s \in DOMAIN b
                      /\ s \in DOMAIN b => a[s] = b[s] /\ b[s] \in N
  PROVE  Chain(a, o) = Chain(b, o)
<1>1. PICK w : /\ Walks(b, o, w)
               /\ \A d \in 0 .. MaxChainDepth : w[d] \in Seq(N) \ {<<>>}
  BY WalkExists
<1>2. ASSUME NEW d \in 0 .. MaxChainDepth, d # 0
      PROVE  Move(a, w[d - 1], d) = Move(b, w[d - 1], d)
  <2> DEFINE q == w[d - 1]
  <2>1. d - 1 \in 0 .. MaxChainDepth
    BY <1>2, ChainAssumption
  <2>2. q \in Seq(N) /\ q # <<>>
    BY <1>1, <2>1
  <2> HIDE DEF q
  <2>3. q[Len(q)] \in N
    BY <2>2
  <2>4. Move(a, q, d) = Move(b, q, d)
    BY <2>3 DEF Move
  <2> QED
    BY <2>4 DEF q
<1>3. Walks(a, o, w)
  BY <1>1, <1>2 DEF Walks
<1>4. (CHOOSE v : Walks(a, o, v)) = w
  BY <1>3, OneWalk
<1>5. (CHOOSE v : Walks(b, o, v)) = w
  BY <1>1, OneWalk
<1> QED
  BY <1>4, <1>5, ChainIsWalk

\* Of the verdicts about an origin one wins, and the binding is what it says.
LEMMA BindingIsWinner ==
  ASSUME NEW R \in SUBSET Record, NEW o
  PROVE  /\ o \in DOMAIN LandedBindings(R) <=>
              \E v \in WinningVerdicts(R) : v.as # None /\ v.origin = o
         /\ \A v \in WinningVerdicts(R) :
              v.as # None /\ v.origin = o => LandedBindings(R)[o] = v.as
<1> DEFINE landed == {v \in WinningVerdicts(R) : v.as # None}
<1>1. LandedBindings(R) =
        [p \in {v.origin : v \in landed} |-> (CHOOSE v \in landed : v.origin = p).as]
  BY DEF LandedBindings
<1>2. ASSUME NEW v \in landed, NEW w \in landed, v.origin = w.origin
      PROVE  v = w
  <2>1. v \in Record /\ w \in Record /\ v.id \in Nat /\ w.id \in Nat
    BY RecordAssumption DEF WinningVerdicts, Verdicts
  <2>2. v.id <= w.id /\ w.id <= v.id
    BY <1>2 DEF WinningVerdicts
  <2> QED
    BY <2>1, <2>2, UniqueIds
<1> HIDE DEF landed
<1> DEFINE of(p) == CHOOSE w \in landed : w.origin = p
<1>3. \A v \in landed : v.origin = o => of(o) = v
  BY <1>2
<1>4. LandedBindings(R) = [p \in {v.origin : v \in landed} |-> of(p).as]
  BY <1>1
<1> HIDE DEF of
<1>5. o \in DOMAIN LandedBindings(R) <=> \E v \in landed : v.origin = o
  BY <1>4
<1>6. \A v \in landed : v.origin = o => LandedBindings(R)[o] = v.as
  BY <1>3, <1>4
<1> QED
  BY <1>5, <1>6 DEF landed

LEMMA VerdictsDecide == RInv /\ VerdictsKept => VerdictsOutlive
<1> SUFFICES ASSUME RInv, VerdictsKept, Verdicts(late) = {},
                    NEW o \in NoteOrigins({r \in kept \ late : ~Tombstoned(kept, r.entry)})
             PROVE  Chain(LandedBindings(kept), o) = Chain(LandedBindings(full), o)
  BY DEF VerdictsOutlive
<1> DEFINE N == Needed(full, Timely)
<1>1. o \in N
  <2>1. \A e : ~Tombstoned(kept, e) => ~Tombstoned(full, e)
    BY DEF RInv, IInv, Tombstoned, OfEntry, Deletions
  <2>2. o \in NoteOrigins(Timely)
    BY <2>1 DEF NoteOrigins, Timely
  <2> QED
    BY <2>2, NeededIsLeast
<1>2. ClosedIn(full, N)
  BY NeededIsLeast
<1>3. kept \in SUBSET Record /\ full \in SUBSET Record /\ kept \subseteq full
  BY DEF RInv, IInv
<1>4. \A v \in full : v.kind = "VD" /\ v.origin \in N => v \in kept
  BY DEF VerdictsKept, KeptVerdicts
<1> HIDE DEF N
<1>5. ASSUME NEW s \in N
      PROVE  \A v : v \in WinningVerdicts(kept) /\ v.origin = s
                      <=> v \in WinningVerdicts(full) /\ v.origin = s
  BY <1>3, <1>4 DEF WinningVerdicts, Verdicts
<1>6. ASSUME NEW s \in N
      PROVE  /\ s \in DOMAIN LandedBindings(kept) <=> s \in DOMAIN LandedBindings(full)
             /\ s \in DOMAIN LandedBindings(full) =>
                  /\ LandedBindings(kept)[s] = LandedBindings(full)[s]
                  /\ LandedBindings(full)[s] \in N
  <2>1. s \in DOMAIN LandedBindings(kept) <=> s \in DOMAIN LandedBindings(full)
    BY <1>3, <1>5, BindingIsWinner
  <2>2. ASSUME s \in DOMAIN LandedBindings(full)
        PROVE  /\ LandedBindings(kept)[s] = LandedBindings(full)[s]
               /\ LandedBindings(full)[s] \in N
    <3>1. PICK v \in WinningVerdicts(full) : v.as # None /\ v.origin = s
      BY <1>3, <2>2, BindingIsWinner
    <3>2. v \in WinningVerdicts(kept)
      BY <1>5, <3>1
    <3>3. LandedBindings(kept)[s] = v.as /\ LandedBindings(full)[s] = v.as
      BY <1>3, <3>1, <3>2, BindingIsWinner
    <3>4. v.as \in N
      BY <1>2, <3>1 DEF ClosedIn, WinningVerdicts, Verdicts
    <3> QED
      BY <3>3, <3>4
  <2> QED
    BY <2>1, <2>2
<1> QED
  BY <1>1, <1>6, ChainsAgree

\* As long as a record that arrived in time is in the store, so are the verdicts
\* on where it landed, through chains of any length: the sweeps keep them until
\* nothing needs them, unless a verdict arrives after one.
THEOREM VerdictsAreForever == Spec => []VerdictsOutlive
<1>1. Init => VerdictsKept
  BY DEF Init, VerdictsKept, KeptVerdicts
<1> QED
  BY ReadersInvariant, <1>1, VerdictsStep, VerdictsDecide, PTL DEF Spec

-----------------------------------------------------------------------------
(* The sweep run again.                                                    *)

\* A sweep leaves a store from which it would take nothing.
LEMMA SweptTwice ==
  ASSUME NEW R \in SUBSET full, Topped, NEW aged
  PROVE  KeptRecords(KeptRecords(R, aged), aged) = KeptRecords(R, aged)
<1> DEFINE S == KeptRecords(R, aged)
           K(X) == {r \in X : r \in KeptOf(X, aged, r.entry)} \cup KeptLinks(X)
<1>1. S \subseteq R /\ KeptRecords(S, aged) \subseteq S
  BY SweepKeepsDeletions
<1>2. /\ S = K(R) \cup KeptVerdicts(R, K(R))
      /\ KeptRecords(S, aged) = K(S) \cup KeptVerdicts(S, K(S))
  BY DEF KeptRecords
<1>3. \A e : Tombstoned(S, e) <=> Tombstoned(R, e)
  BY <1>1, SweepKeepsDeletions DEF Tombstoned, OfEntry, Deletions
\* Who lives lives on, by its newest body.
<1>4. ASSUME NEW e, Living(R, e)
      PROVE  Living(S, e)
  <2>1. PICK n \in NewestOf(Notes(R, e)) : TRUE
    BY <1>4 DEF Living, Topped, Notes, OfEntry
  <2>2. n \in R /\ n.entry = e /\ n \in KeptOf(R, aged, e) /\ n \in Notes(R, e)
    BY <1>4 DEF Living, KeptOf, Pinned, NewestOf, Notes, OfEntry
  <2>3. n \in S
    BY <1>2, <2>2
  <2>4. n \in Notes(S, e)
    BY <2>2, <2>3 DEF Notes, OfEntry
  <2> QED
    BY <1>3, <1>4, <2>4 DEF Living
<1>5. ASSUME NEW r \in R, r \in KeptOf(R, aged, r.entry)
      PROVE  r \in KeptOf(S, aged, r.entry)
  <2> DEFINE e == r.entry
  <2>1. r \in S /\ r \in OfEntry(S, e)
    BY <1>2, <1>5 DEF OfEntry
  <2>2. CASE Tombstoned(R, e)
    BY <1>3, <1>5, <2>1, <2>2 DEF KeptOf, OfEntry
  <2>3. CASE ~Tombstoned(R, e)
    <3>1. Living(R, e) /\ Living(S, e)
      BY <1>4, <1>5, <2>3 DEF KeptOf, Living
    <3>2. Notes(S, e) \subseteq Notes(R, e)
      BY <1>1 DEF Notes, OfEntry
    <3>3. CASE r \in Pinned(R, e)
      <4>1. r \in Notes(S, e)
        BY <2>1, <3>3 DEF Pinned, NewestOf, Notes, OfEntry
      <4>2. \A m \in OfEntry(R, e) : m.kind \in Mark => m \in OfEntry(S, e)
        <5>1. \A m \in OfEntry(R, e) : m.kind \in Mark => m \in KeptOf(R, aged, e)
          BY <3>1 DEF KeptOf, Living
        <5> QED
          BY <1>2, <5>1 DEF OfEntry
      <4>3. r \in Pinned(S, e)
        <5>1. CASE r \in NewestOf(Notes(R, e))
          BY <3>2, <4>1, <5>1 DEF Pinned, NewestOf
        <5>2. ASSUME NEW m \in OfEntry(R, e), m.kind \in Mark,
                     r \in NewestOf({n \in Notes(R, e) : n.id < m.id})
              PROVE  r \in Pinned(S, e)
          <6>1. r \in NewestOf({n \in Notes(S, e) : n.id < m.id})
            BY <3>2, <4>1, <5>2 DEF NewestOf
          <6> QED
            BY <4>2, <5>2, <6>1 DEF Pinned
        <5> QED
          BY <3>3, <5>1, <5>2 DEF Pinned
      <4> QED
        BY <3>1, <4>3 DEF KeptOf, Living
    <3>4. CASE r \notin Pinned(R, e)
      BY <1>5, <2>1, <2>3, <3>1, <3>4 DEF KeptOf, Living, Notes, OfEntry
    <3> QED
      BY <3>3, <3>4
  <2> QED
    BY <2>2, <2>3
<1>6. K(R) \subseteq K(S)
  <2>1. ASSUME NEW r \in KeptLinks(R) PROVE r \in KeptLinks(S)
    <3>1. r \in S /\ r.kind \in {"LN", "UL"} /\ Living(R, r.entry) /\ Living(R, r.to)
      BY <1>2 DEF KeptLinks
    <3> QED
      BY <1>4, <3>1 DEF KeptLinks
  <2> QED
    BY <1>2, <1>5, <2>1
\* What the chains of the records need is needed still.
<1>7. Needed(R, K(R)) \subseteq Needed(S, K(S))
  <2> DEFINE N == Needed(R, K(R)) \cap Needed(S, K(S))
  <2>1. NoteOrigins(K(R)) \subseteq NoteOrigins(K(S))
    BY <1>6 DEF NoteOrigins
  <2>2. NoteOrigins(K(R)) \subseteq N
    BY <2>1, NeededIsLeast
  <2>3. ClosedIn(R, N)
    <3> SUFFICES ASSUME NEW v \in R, v.kind = "VD", v.origin \in N, v.as # None
                 PROVE  v.as \in N
      BY DEF ClosedIn
    <3>1. v \in S
      BY <1>2 DEF KeptVerdicts
    <3> QED
      BY <3>1, NeededIsLeast DEF ClosedIn
  <2> HIDE DEF N, K
  <2>4. Needed(R, K(R)) \subseteq N
    BY <2>2, <2>3, NeededIsLeast
  <2> QED
    BY <2>4 DEF N
<1>8. KeptVerdicts(R, K(R)) \subseteq KeptVerdicts(S, K(S))
  BY <1>2, <1>7 DEF KeptVerdicts
<1> QED
  BY <1>1, <1>2, <1>6, <1>8

\* A sweep run again, or raced by another over one tip, finds nothing more.
THEOREM SweepsAreDone == Spec => SweepIsDone
<1>1. RInv /\ [Next]_vars =>
        [\A t \in SweepTime : SweepAt(t) => KeptRecords(kept', AgedAt(t)) = kept']_vars
  <2> SUFFICES ASSUME RInv, NEW t \in SweepTime, SweepAt(t)
               PROVE  KeptRecords(kept', AgedAt(t)) = kept'
    OBVIOUS
  <2>1. kept' = KeptRecords(kept, AgedAt(t)) /\ kept \in SUBSET full /\ Topped
    BY DEF SweepAt, RInv, IInv
  <2> QED
    BY <2>1, SweptTwice
<1> QED
  BY ReadersInvariant, <1>1, PTL DEF Spec, SweepIsDone

=============================================================================
