----------------------------- MODULE Compaction -----------------------------
(***************************************************************************)
(* What compactions do to the readers of a store, while records go on      *)
(* arriving from the pendings of clones the compactor cannot see.          *)
(*                                                                         *)
(* The store and the store as it would be without any compaction grow side *)
(* by side; what a checkout reads of the two is compared.                  *)
(***************************************************************************)
EXTENDS Fold, Lineage

CONSTANTS
  Commit,      \* the code commits records are written on
  SweepTime    \* bound: the moments the sweep's clock may show

ASSUME CompactionAssumption ==
  /\ SweepTime \subseteq Nat
  /\ \A x \in Record : x.kind \in Note \cup Mark => x.origin \in Commit

VARIABLES
  full,  \* every record that arrived
  kept,  \* those the store holds
  late,  \* those that arrived after a sweep: of no code
  swept, \* whether the store was ever swept: of no code
  now    \* the latest time a sweep ran at

vars == <<full, kept, late, swept, now>>

Init == full = {} /\ kept = {} /\ late = {} /\ swept = FALSE /\ now = 0

\* A record is written by one who reads a note of its entry (and of the other
\* end of a link), a verdict by one who reads a record or a verdict about its
\* origin: it does not get to the store before what its writer read does.
Follows(x) ==
  /\ x.kind \notin {"CR", "VD"} => Notes(full, x.entry) # {}
  /\ x.kind \in {"LN", "UL"} => Notes(full, x.to) # {}
  /\ x.kind = "VD" => x.origin \in NoteOrigins(full)
                                   \cup {v.as : v \in Verdicts(full)}
                                   \cup {v.origin : v \in Verdicts(full)}

\* A sync lands the record.
Arrive(x) ==
  /\ x \in Record \ full
  /\ Follows(x)
  /\ full' = full \cup {x}
  /\ kept' = AddAbsent(kept, {x})
  /\ late' = IF swept THEN late \cup {x} ELSE late
  /\ UNCHANGED <<swept, now>>

\* The records the window has passed at time t.
AgedAt(t) == {r \in Record : r.id <= t}

\* dm gc lands.
SweepAt(t) ==
  /\ now <= t /\ now' = t
  /\ UNCHANGED <<full, late>>
  /\ kept' = KeptRecords(kept, AgedAt(t))
  /\ swept' = TRUE

Next ==
  \/ \E x \in Record : Arrive(x)
  \/ \E t \in SweepTime : SweepAt(t)

Spec == Init /\ [][Next]_vars

-----------------------------------------------------------------------------

\* A deletion outlives every compaction, and late records of the entry too.
DeletionIsForever ==
  \A e \in Entry : Tombstoned(full, e) => Tombstoned(kept, e)

\* What of a reading a sweep must not change: all but the revision count,
\* which forgets ancient churn on purpose, and, apart, the dispute.
Register == {"deleted", "landed", "body", "anchor", "path"}

RegistersAsIfUnswept ==
  \A e \in Entry :
    ~Tombstoned(full, e) =>
      LET was == Reading(full, e, Commit)
          is == Reading(kept, e, Commit)
      IN  \A f \in Register : is[f] = was[f]

DisputesAsIfUnswept ==
  \A e \in Entry :
    ~Tombstoned(full, e) =>
      Reading(kept, e, Commit).disputed = Reading(full, e, Commit).disputed

LinksAsIfUnswept ==
  LET Live(R) == {l \in Links(R) : Living(full, l.entry) /\ Living(full, l.to)}
  IN  Live(kept) = Live(full)

\* A checkout where everything has landed reads the entries that are not
\* deleted, and the links between them, as if nothing had ever been swept,
\* in whatever order records and sweeps come.
ReadsAsIfUnswept == RegistersAsIfUnswept /\ DisputesAsIfUnswept /\ LinksAsIfUnswept

\* Ids follow the clocks of those who write (record/mint.go).  An entry is
\* superseded and marked by those who have read it: where no clock is behind
\* what its owner has read, all that is above the CR.
CreatedFirst ==
  \A c, x \in Record :
    c.kind = "CR" /\ x.kind \in {"SU"} \cup Mark /\ x.entry = c.entry => c.id < x.id

\* Entry e has a body wherever it is present, however little of it has landed.
HasBody(e) ==
  \A L \in SUBSET Commit :
    LET here == Reading(kept, e, L)
    IN  here.landed /\ ~here.deleted => here.body # {} /\ here.anchor # {}

\* It is so of every entry whose marks all arrived before the sweeps, whatever
\* else of it arrives late: the revision the rescue fold reaches for is pinned.
HasBodyInTime ==
  \A e \in Entry : (\A m \in late : m.entry = e => m.kind \notin Mark) => HasBody(e)

\* The verdicts that decide where a record of the store has landed are there as
\* long as the record is, if it arrived in time and no verdict did not.
VerdictsOutlive ==
  Verdicts(late) = {} =>
    \A o \in NoteOrigins({r \in kept \ late : ~Tombstoned(kept, r.entry)}) :
      Chain(LandedBindings(kept), o) = Chain(LandedBindings(full), o)

\* A sweep run again finds nothing more, so that compactors that race over one
\* tip do no harm: only the time that passes gives it new garbage.
SweepIsDone ==
  [][\A t \in SweepTime :
       SweepAt(t) => KeptRecords(kept', AgedAt(t)) = kept']_vars

=============================================================================
