------------------------------- MODULE Ladder -------------------------------
(***************************************************************************)
(* What git can say of a history, and the matchers that conclude from it   *)
(* that a line of commits has landed: internal/core/lineage/ladder.go over *)
(* internal/gitio/forensics.go.                                            *)
(*                                                                         *)
(* A history H is a sequence of commits, each after its parents; commit c  *)
(* is H[c].  A tree is the set of the changes that are in it.  0 stands    *)
(* for no commit.                                                          *)
(***************************************************************************)
EXTENDS Naturals, Sequences, FiniteSets

LOCAL INSTANCE SequencesExt
LOCAL INSTANCE FiniteSetsExt

CONSTANTS
  Change,       \* what a commit may change
  Lines,        \* how many lines a change is
  MinDiffFloor  \* the least lines that tell a line of commits

ASSUME LadderAssumption == Lines \in [Change -> Nat] /\ MinDiffFloor \in Nat

-----------------------------------------------------------------------------
(* The evidence.                                                           *)

IsHistory(H) ==
  /\ H \in Seq([parents : SUBSET Nat, tree : SUBSET Change])
  /\ \A c \in DOMAIN H : H[c].parents \subseteq 1 .. c - 1

Ancestors(H, c) ==
  LET anc[d \in 1 .. c] == {d} \cup UNION {anc[p] : p \in H[d].parents}
  IN  anc[c]

IsAncestor(H, a, b) == a \in Ancestors(H, b)

\* Of several bases git names one.
MergeBase(H, a, b) ==
  LET common == Ancestors(H, a) \cap Ancestors(H, b)
  IN  IF common = {} THEN 0
      ELSE CHOOSE m \in common : \A c \in common : IsAncestor(H, m, c) => c = m

\* base..tip, and as rev-list has it, oldest first.
Segment(H, base, tip) ==
  Ancestors(H, tip) \ (IF base = 0 THEN {} ELSE Ancestors(H, base))
InOrder(S) ==
  [i \in 1 .. Cardinality(S) |-> CHOOSE c \in S : Cardinality({d \in S : d < c}) = i - 1]

\* A patch id stands for the diff it is made of.
Diff(s, t) == [added |-> t \ s, removed |-> s \ t]
NoDiff == [added |-> {}, removed |-> {}]
DiffSize(d) == MapThenSumSet(LAMBDA x : Lines[x], d.added \cup d.removed)

\* The commit's own patch; a merge has none.
PatchID(H, c) ==
  IF Cardinality(H[c].parents) > 1 THEN NoDiff
  ELSE Diff(UNION {H[p].tree : p \in H[c].parents}, H[c].tree)

RangePatchID(H, base, tip) == Diff(H[base].tree, H[tip].tree)

-----------------------------------------------------------------------------
(* The conclusions.                                                        *)

\* Mutant of ReflogSuccessions: whatever moves a branch is a succession.
AnySuccessions(log) == SelectSeq(log, LAMBDA e : e.old # e.new)

\* m1: of a reflog only a rebase and an amend say that a line was rewritten.
ReflogSuccessions(log) ==
  LET at == InOrder({i \in DOMAIN log :
                       log[i].how \in {"rebase", "amend"} /\ log[i].old # log[i].new})
  IN  [k \in DOMAIN at |-> log[at[k]]]

\* The candidates that are on the line which ends at tip and landed as landedAs.
BindSegment(H, tip, landedAs, candidates) ==
  candidates \cap Segment(H, MergeBase(H, tip, landedAs), tip)

\* What the line brings since it left the other, when that says which it is.
Telling(H, tip, other) ==
  LET mb == MergeBase(H, tip, other)
      d == RangePatchID(H, mb, tip)
  IN  mb # 0 /\ d # NoDiff /\ DiffSize(d) >= MinDiffFloor

\* m2: every patch of the old line is on the new one, in order.
AttemptReplay(H, old, new) ==
  LET mb == MergeBase(H, old, new)
      patches(tip) ==
        LET s == InOrder(Segment(H, mb, tip)) IN [i \in DOMAIN s |-> PatchID(H, s[i])]
      was == SelectSeq(patches(old), LAMBDA d : d # NoDiff)
      is == patches(new)
  IN  /\ Telling(H, old, new)
      /\ \E at \in [DOMAIN was -> DOMAIN is] :
           /\ \A i \in DOMAIN was : is[at[i]] = was[i]
           /\ \A i, j \in DOMAIN was : i < j => at[i] < at[j]

\* m3: the commits of the target's line that are the whole line in one; more
\* than one is no evidence.
AttemptSquash(H, tip, target) ==
  LET mb == MergeBase(H, tip, target)
      matches == {c \in Segment(H, mb, target) : PatchID(H, c) = RangePatchID(H, mb, tip)}
  IN  IF Telling(H, tip, target) /\ Cardinality(matches) = 1 THEN matches ELSE {}

=============================================================================
