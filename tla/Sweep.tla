------------------------------- MODULE Sweep -------------------------------
(***************************************************************************)
(* The mark-and-sweep of dm gc: union.Sweep.                               *)
(*                                                                         *)
(* The sweep's clock is the set `aged` of the records whose rec-id lies    *)
(* further than ShadowWindow in the past: the only thing it is asked.      *)
(***************************************************************************)
EXTENDS Union

\* Distinct records never share a rec-id, by construction of the ULIDs.
ASSUME UniqueIds == \A x, y \in Record : x.id = y.id => x = y

Note == {"CR", "SU"}     \* the kinds that carry a body
Mark == {"RA", "RP"}     \* the kinds the rescue fold starts from

OfEntry(R, e) == {r \in R : r.entry = e}
Notes(R, e) == {r \in OfEntry(R, e) : r.kind \in Note}

Tombstoned(R, e) == \E r \in OfEntry(R, e) : r.kind = "TB"

\* A living entry has a body and no tombstone; an entry with neither is
\* headless, and its records are garbage.
Living(R, e) == ~Tombstoned(R, e) /\ Notes(R, e) # {}

NewestOf(S) == {r \in S : \A q \in S : q.id <= r.id}

\* Mutant of Pinned: the marks pin nothing.
PinnedNewest(R, e) == NewestOf(Notes(R, e))

\* The newest body of the entry, and for each RA/RP the newest body before it.
Pinned(R, e) ==
  NewestOf(Notes(R, e)) \cup
    UNION {NewestOf({n \in Notes(R, e) : n.id < m.id}) :
             m \in {r \in OfEntry(R, e) : r.kind \in Mark}}

\* Mutant of KeptOf: a tombstone goes with the entry it deletes.
KeptOfLiving(R, aged, e) ==
  IF ~Living(R, e) THEN {}
  ELSE {r \in OfEntry(R, e) : r.kind \in Mark \cup {"FB"}}
         \cup Pinned(R, e)
         \cup {n \in Notes(R, e) : n \notin aged}

\* The records of an entry that stay: of a tombstoned one its TB lines, of a
\* headless one nothing, of a living one all but its aged shadowed bodies.
KeptOf(R, aged, e) ==
  IF Tombstoned(R, e) THEN {r \in OfEntry(R, e) : r.kind = "TB"}
  ELSE IF Notes(R, e) = {} THEN {}
  ELSE {r \in OfEntry(R, e) : r.kind \in Mark \cup {"FB"}}
         \cup Pinned(R, e)
         \cup {n \in Notes(R, e) : n \notin aged}

\* Mutant of KeptLinks: an unlink goes, as if the link it cancels went too.
KeptLinksMade(R) ==
  {r \in R : r.kind = "LN" /\ Living(R, r.entry) /\ Living(R, r.to)}

\* A link stays while both its ends live.
KeptLinks(R) ==
  {r \in R : r.kind \in {"LN", "UL"} /\ Living(R, r.entry) /\ Living(R, r.to)}

\* The commits the records of K were written on.
NoteOrigins(K) == {r.origin : r \in {k \in K : k.kind \in Note \cup Mark}}

\* Mutant of Needed: without the chains.
NeededOnce(R, K) == NoteOrigins(K)

\* The origins some verdict is still needed for: those of the records that
\* stay, closed under landed-as.
Needed(R, K) ==
  LET verdicts == {r \in R : r.kind = "VD"}
      origins == NoteOrigins(K) \cup {v.as : v \in {w \in verdicts : w.as # None}}
      Closed(N) == \A v \in verdicts : v.origin \in N /\ v.as # None => v.as \in N
  IN  {o \in origins : \A N \in SUBSET origins :
                          NoteOrigins(K) \subseteq N /\ Closed(N) => o \in N}

\* Mutant of KeptVerdicts: the records that go still count.
KeptVerdictsOfAll(R, K) == {r \in R : r.kind = "VD" /\ r.origin \in Needed(R, R)}

KeptVerdicts(R, K) == {r \in R : r.kind = "VD" /\ r.origin \in Needed(R, K)}

KeptRecords(R, aged) ==
  LET K == {r \in R : r \in KeptOf(R, aged, r.entry)} \cup KeptLinks(R)
  IN  K \cup KeptVerdicts(R, K)

KeptBlobs(B, K) ==
  {b \in B : \E r \in K : r.kind \in Note \cup {"RA"} /\ r.blob = b}

\* union.Sweep: what stays of s, one epoch on.
Swept(s, aged) ==
  LET K == KeptRecords(s.recs, aged)
  IN  [epoch |-> s.epoch + 1,
       recs  |-> K,
       blobs |-> KeptBlobs(s.blobs, K),
       stats |-> [q \in Replica |-> [e \in Entry |->
                    IF Living(s.recs, e) THEN s.stats[q][e] ELSE ZeroRow]]]

=============================================================================
