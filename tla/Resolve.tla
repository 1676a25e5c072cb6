------------------------------ MODULE Resolve ------------------------------
(***************************************************************************)
(* Rule (a): where a note is in this checkout, from what it was written    *)
(* about and what the checkout holds (internal/core/resolve/resolve.go).   *)
(*                                                                         *)
(* A path is the sequence of its segments, the root folder <<>>.  A tree   *)
(* is a function from the paths of its files to their blobs.  A note has   *)
(* folder (what kind of path it is on), path (the hint), anchor (what it   *)
(* was stamped with: a file's blob, a folder's path), pinned, origin ({}   *)
(* when its commit is not here, else {its tree}) and atHand (whether the   *)
(* anchored content is here).  pairs is what git's diff from the origin    *)
(* found: path now -> path then.                                           *)
(***************************************************************************)
EXTENDS Integers, SequencesExt

CONSTANT Similarity  \* <<blob, blob>> -> percent

AcceptScore == 80         \* followed without a word from here on
AcceptMargin == 20        \* and with this lead on the next
FollowScore == 50         \* followed at all from here on
FolderMajorityPct == 50
FolderMarginPct == 50
FolderCoveragePct == 60
SplitCandidatePct == 25
AbsorbedForeignPct == 50

-----------------------------------------------------------------------------
(* Paths.                                                                  *)

\* folderOf and baseOf: "." is both for the root.
Dir(p) == IF p = <<>> THEN <<>> ELSE Front(p)
Base(p) == IF p = <<>> THEN "." ELSE Last(p)

\* PathsUnder, over a tree or over the files of a commit.
Under(files, f) == {p \in files : IsStrictPrefix(f, p)}

\* The subtree at f, as git hashes it: the same for the same files below.
Subtree(tree, f) ==
  [rel \in {SubSeq(p, Len(f) + 1, Len(p)) : p \in Under(DOMAIN tree, f)} |->
     tree[f \o rel]]

\* The folders there are with these files.
Folders(files) == UNION {Prefixes(Dir(p)) : p \in files}

\* dirDistance: the segments of the two folders beyond those they share; the
\* root splits into "." and every folder ends in an empty segment.
Segments(f) == (IF f = <<>> THEN <<".">> ELSE f) \o <<"">>
DirDistance(p, q) ==
  LET a == Segments(Dir(p))
      b == Segments(Dir(q))
  IN  Len(a) + Len(b) - 2 * Len(LongestCommonPrefix({a, b}))

\* affinity: smaller is closer, another basename further than any folder.
Affinity(p, hint) ==
  (IF Base(p) # Base(hint) THEN 65536 ELSE 0) + DirDistance(p, hint)

-----------------------------------------------------------------------------
(* Candidates.                                                             *)

MaxScore(score) == Max({score[p] : p \in DOMAIN score})

\* Mutant of Leader: the highest score leads, and the hint only breaks ties.
LeaderByScore(score, hint) ==
  LET top == {p \in DOMAIN score : score[p] = MaxScore(score)}
  IN  CHOOSE p \in top : \A q \in top : Affinity(p, hint) <= Affinity(q, hint)

\* sortCandidates: the first of the closest to the hint, among those within
\* the margin of the best; equals in some fixed order.
Leader(score, hint) ==
  LET band == {p \in DOMAIN score : MaxScore(score) - score[p] < AcceptMargin}
      closest == {p \in band : \A q \in band : Affinity(p, hint) <= Affinity(q, hint)}
  IN  CHOOSE p \in closest : \A q \in closest : score[p] >= score[q]

\* Every state with its home, {} where there is none, or, split, several.
At(state, layer, p) == [state |-> state, layer |-> layer, home |-> {p}]
Nowhere(state, layer) == [state |-> state, layer |-> layer, home |-> {}]

Visible(res) == res.state \in {"fresh", "stale", "unconfirmed", "split"}

-----------------------------------------------------------------------------
(* File notes.                                                             *)

\* Layer 3: the hint's file and what the diff paired with the anchored content
\* or the hint, scored against the anchored content if that is here.
Scores(note, tree, pairs) ==
  LET paired == {p \in DOMAIN pairs :
                   \/ pairs[p] = note.path
                   \/ \E o \in note.origin : o[pairs[p]] = note.anchor}
      candidates == DOMAIN tree \cap ({note.path} \cup paired)
      similar == {p \in candidates : note.atHand
                    /\ Similarity[note.anchor, tree[p]] >= FollowScore}
  IN  [p \in similar |-> Similarity[note.anchor, tree[p]]]

\* Mutant of Asserted: a pin counts where there is a content to hold it against.
AssertedAtHand(note, tree) == note.pinned /\ note.atHand /\ note.path \in DOMAIN tree

\* Layer 4: an agent said that the note is there.
Asserted(note, tree) == note.pinned /\ note.path \in DOMAIN tree

FileResolution(note, tree, pairs) ==
  LET hint == note.path
      copies == {p \in DOMAIN tree : tree[p] = note.anchor}
      score == Scores(note, tree, pairs)
      best == Leader(score, hint)
      decisive == /\ score[best] >= AcceptScore
                  /\ \A p \in DOMAIN score \ {best} : score[best] - score[p] >= AcceptMargin
  IN  CASE hint \in copies -> At("fresh", 1, hint)
        [] hint \notin copies /\ copies # {} ->
             At(IF Cardinality(copies) > 1 THEN "unconfirmed" ELSE "fresh", 2,
                Leader([p \in copies |-> 100], hint))
        [] copies = {} /\ DOMAIN score # {} ->
             At(IF decisive THEN "stale" ELSE "unconfirmed", 3, best)
        [] copies = {} /\ DOMAIN score = {} /\ Asserted(note, tree) ->
             At("stale", 4, hint)
        [] OTHER -> Nowhere("orphaned", 5)

-----------------------------------------------------------------------------
(* Folder notes.                                                           *)

\* Mutant of TargetPrefix: a member speaks for the folder it is in now.
TargetPrefixOfFile(to, rel) == {Dir(to)}

\* targetPrefix: the folder a member's new path speaks for, {} if none: what
\* is left without the member's path, or else without its folder.
TargetPrefix(to, rel) ==
  LET Without(s, t) == SubSeq(s, 1, Len(s) - Len(t))
  IN  IF IsSuffix(rel, to) THEN {Without(to, rel)}
      ELSE IF IsSuffix(Dir(rel), Dir(to)) THEN {Without(Dir(to), Dir(rel))}
      ELSE {}

\* Every member of the origin's folder has one vote: its first pair's that
\* speaks for a folder.
Votes(key, members, pairs) ==
  LET For(rel) == {to \in DOMAIN pairs :
                     pairs[to] = key \o rel /\ TargetPrefix(to, rel) # {}}
      voters == {rel \in members : For(rel) # {}}
  IN  [rel \in voters |->
         CHOOSE f \in TargetPrefix(CHOOSE to \in For(rel) : TRUE, rel) : TRUE]

\* Mutant of Elsewhere: a folder HEAD has counts though the checkout lost it.
ElsewhereInHead(note, head, tree) ==
  {f \in Folders(DOMAIN head) \ {note.path} :
     \E o \in note.origin : Subtree(head, f) = Subtree(o, note.anchor)}

\* Rank 2: the folders HEAD has the origin's very subtree at, still there.
Elsewhere(note, head, tree) ==
  {f \in Folders(DOMAIN head) \ {note.path} :
     /\ \E o \in note.origin : Subtree(head, f) = Subtree(o, note.anchor)
     /\ Under(DOMAIN tree, f) # {}}

\* Rank 3: what the votes say.
Tally(members, vote, tree) ==
  LET paired == Cardinality(DOMAIN vote)
      count == [f \in {vote[r] : r \in DOMAIN vote} |->
                  Cardinality({r \in DOMAIN vote : vote[r] = f})]
      share == [f \in DOMAIN count |-> (count[f] * 100) \div paired]
      winner == CHOOSE f \in DOMAIN count : count[f] = MaxScore(count)
      runner == Max({0} \cup {share[f] : f \in DOMAIN count \ {winner}})
      coverage == (paired * 100) \div Cardinality(members)
      there == Cardinality(Under(DOMAIN tree, winner))
      foreign == IF there > count[winner]
                 THEN ((there - count[winner]) * 100) \div there ELSE 0
      candidates == {f \in DOMAIN share : share[f] >= SplitCandidatePct}
  IN  IF /\ share[winner] > FolderMajorityPct
         /\ share[winner] - runner >= FolderMarginPct
         /\ coverage >= FolderCoveragePct
      THEN At(IF /\ count[winner] = paired
                 /\ coverage = 100
                 /\ foreign < AbsorbedForeignPct
              THEN "fresh" ELSE "unconfirmed", 3, winner)
      ELSE [state |-> IF candidates = {} THEN "scattered" ELSE "split",
            layer |-> 3, home |-> candidates]

FolderResolution(note, head, tree, pairs) ==
  LET elsewhere == Elsewhere(note, head, tree)
      members == UNION {DOMAIN Subtree(o, note.anchor) : o \in note.origin}
      vote == Votes(note.anchor, members, pairs)
  IN  CASE Under(DOMAIN tree, note.path) # {} -> At("fresh", 1, note.path)
        [] Under(DOMAIN tree, note.path) = {} /\ members # {} /\ elsewhere # {} ->
             At("fresh", 2, Leader([f \in elsewhere |-> 100], note.path))
        [] Under(DOMAIN tree, note.path) = {} /\ elsewhere = {} /\ DOMAIN vote # {} ->
             Tally(members, vote, tree)
        [] OTHER -> Nowhere("orphaned", 4)

Resolution(note, head, tree, pairs) ==
  IF note.folder THEN FolderResolution(note, head, tree, pairs)
  ELSE FileResolution(note, tree, pairs)

=============================================================================
