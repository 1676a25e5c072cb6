------------------------------- MODULE Union -------------------------------
(***************************************************************************)
(* The store as a value: internal/core/union and the tree semantics of     *)
(* internal/store.                                                         *)
(*                                                                         *)
(* A union.Set is everything a store tree holds: the compaction epoch, the *)
(* immutable records, the anchored blobs and one register file of stat     *)
(* rows per replica.  A record is one of the one-line facts of             *)
(* internal/core/record; the parts the store policy looks at are           *)
(*   id      its rec-id: a number, ordered as the ULIDs are                *)
(*   data    the rank of its canonical bytes (only Merge compares bytes)   *)
(*   kind    one of Kind                                                   *)
(*   entry   the entry it is about (the From end of a link)                *)
(*   to      the other end of an LN/UL                                     *)
(*   origin  the commit it was written on; of a VD the commit it judges    *)
(*   as      the landed-as commit of a landed VD                           *)
(*   blob    the blob its content anchor names                             *)
(* and a part a kind does not have is None.                                *)
(***************************************************************************)
EXTENDS Naturals, Sequences

CONSTANTS
  Replica,  \* replica ids: one per clone
  Entry,    \* logical entries
  Record,   \* the records that may ever be minted
  Blob,     \* anchored contents no code commit holds
  None      \* the part of a record that its kind does not have

Kind == {"CR", "SU", "RA", "RP", "TB", "LN", "UL", "FB", "VD"}

\* The parts are what their kinds say: three kinds have an anchor.  Nothing is
\* known of commits.
ASSUME RecordAssumption ==
  \A x \in Record :
    /\ x.id \in Nat /\ x.data \in Nat /\ x.kind \in Kind
    /\ x.entry \in Entry \cup {None} /\ x.to \in Entry \cup {None}
    /\ x.blob \in Blob \cup {None}
    /\ x.blob # None => x.kind \in {"CR", "SU", "RA"}

\* A record is its bytes, the rec-id among them.
ASSUME RecordIsBytes ==
  \A x, y \in Record : x.id = y.id /\ x.data = y.data => x = y

\* The three counters of a row (i, x, h) are merged, added and swept alike:
\* one of them, n, stands for all.  t is the last-expanded time.
Row == [n : Nat, t : Nat]
ZeroRow == [n |-> 0, t |-> 0]

\* A register file holds a row per entry; an entry without one reads as zero.
Stats == [Entry -> Row]
NoStats == [e \in Entry |-> ZeroRow]

StoreSet ==
  [epoch : Nat,
   recs  : SUBSET Record,
   blobs : SUBSET Blob,
   stats : [Replica -> Stats]]

EmptySet ==
  [epoch |-> 0,
   recs  |-> {},
   blobs |-> {},
   stats |-> [q \in Replica |-> NoStats]]

Larger(a, b) == IF a >= b THEN a ELSE b

-----------------------------------------------------------------------------
(* Register files.                                                         *)

\* Mutant of MergeStats: the copies are added up, as deltas would be.
MergeStatsBySum(a, b) ==
  [e \in Entry |-> [n |-> a[e].n + b[e].n, t |-> Larger(a[e].t, b[e].t)]]

\* Two copies of one replica's file: field-wise max.
MergeStats(a, b) ==
  [e \in Entry |-> [n |-> Larger(a[e].n, b[e].n), t |-> Larger(a[e].t, b[e].t)]]

\* Mutant of AddStats: deltas merge as a copy of the file would.
AddStatsByMax(a, d) ==
  [e \in Entry |-> [n |-> Larger(a[e].n, d[e].n), t |-> Larger(a[e].t, d[e].t)]]

\* A file and the deltas accumulated since: counters add, the time is a max.
AddStats(a, d) ==
  [e \in Entry |-> [n |-> a[e].n + d[e].n, t |-> Larger(a[e].t, d[e].t)]]

-----------------------------------------------------------------------------
(* Records.                                                                *)

Ids(R) == {r.id : r \in R}

\* The records of X, and those of Y whose id X lacks.
AddAbsent(X, Y) == X \cup {y \in Y : y.id \notin Ids(X)}

\* The union of X and Y; of two records with one id the smaller bytes stay.
MergeRecords(X, Y) ==
  {x \in X \cup Y : \A y \in X \cup Y : y.id = x.id => x.data <= y.data}

-----------------------------------------------------------------------------
(* Sets.                                                                   *)

\* Mutant of Merge: union across epochs too.
MergeAcrossEpochs(a, b) ==
  [epoch |-> Larger(a.epoch, b.epoch),
   recs  |-> MergeRecords(a.recs, b.recs),
   blobs |-> a.blobs \cup b.blobs,
   stats |-> [q \in Replica |-> MergeStats(a.stats[q], b.stats[q])]]

\* The CRDT merge: the newer epoch wholesale, the union within one epoch.
Merge(a, b) ==
  IF a.epoch # b.epoch
  THEN IF b.epoch > a.epoch THEN b ELSE a
  ELSE [epoch |-> a.epoch,
        recs  |-> MergeRecords(a.recs, b.recs),
        blobs |-> a.blobs \cup b.blobs,
        stats |-> [q \in Replica |-> MergeStats(a.stats[q], b.stats[q])]]

\* s and what replica q has not pushed yet.
WithOwn(s, R, B, q, deltas) ==
  [s EXCEPT !.recs  = AddAbsent(s.recs, R),
            !.blobs = s.blobs \cup B,
            !.stats = [s.stats EXCEPT ![q] = AddStats(s.stats[q], deltas)]]

-----------------------------------------------------------------------------
(* Commits.                                                                *)
(*                                                                         *)
(* A commit of refs/dm/store has at most one parent, so it is its history: *)
(* the sequence of trees from the root, each with its commit time.  Two    *)
(* commits are one object exactly when these are equal, a commit is an     *)
(* ancestor of another exactly when it is a prefix of it, and the empty    *)
(* sequence is the absent ref.                                             *)

NoCommit == <<>>

\* Store.Read: what a tip holds; an absent tip reads as the empty store.
Content(c) == IF c = NoCommit THEN EmptySet ELSE c[Len(c)].tree

\* The base tree with what s adds to it.  Nothing is ever removed from the
\* base: records and blobs it has stay as they are, a register file s lacks
\* stays, and the epoch marker is rewritten to that of s.
Overlay(s, base) ==
  [epoch |-> s.epoch,
   recs  |-> AddAbsent(base.recs, s.recs),
   blobs |-> base.blobs \cup s.blobs,
   stats |-> [q \in Replica |-> IF s.stats[q] = NoStats
                                THEN base.stats[q] ELSE s.stats[q]]]

\* Store.Commit: the child of tip that adds s, or tip itself when s adds nothing.
StoreCommit(s, tip, at) ==
  LET new == Overlay(s, Content(tip))
  IN  IF tip # NoCommit /\ new = Content(tip)
      THEN tip
      ELSE Append(tip, [tree |-> new, at |-> at])

\* Store.Compact: an orphan commit of the whole of s.
Compact(s, at) == <<[tree |-> s, at |-> at]>>

\* What git takes for a fast-forward: the old tip is an ancestor of the new.
FastForward(old, new) ==
  /\ Len(old) <= Len(new)
  /\ \A i \in 1 .. Len(old) : old[i] = new[i]

=============================================================================
