----------------------------- MODULE Placement -----------------------------
(***************************************************************************)
(* A note while the code under it is edited, moved and committed, and the  *)
(* verbs that put it back: a, k, u and mv of internal/app/batch.go, over   *)
(* the answers of Resolve.  The note is landed (Lineage says when), and    *)
(* the executor reads one snapshot of the checkout.                        *)
(***************************************************************************)
EXTENDS Resolve

CONSTANTS
  File,       \* the paths a file may be at
  Blob,       \* what may be in it
  Start,      \* the trees the history begins with
  MaxEdits,   \* bounds the user's changes
  MaxRepairs  \* and the agent's

\* A tree of git has no segment that is empty, or means the folder itself.
ASSUME PlacementAssumption ==
  /\ IsFiniteSet(File)
  /\ \A p \in File : /\ p \in Seq(STRING) /\ p # <<>>
                      /\ \A i \in DOMAIN p : p[i] \notin {"", "."}
  /\ Similarity \in [Blob \X Blob -> 0 .. 100]
  /\ \A b \in Blob : Similarity[b, b] = 100
  /\ Start \subseteq UNION {[files -> Blob] : files \in SUBSET File}

VARIABLES
  head,    \* the tree of HEAD
  tree,    \* the working tree
  note,    \* {} or the one note
  edits,   \* the changes so far
  repairs  \* the verbs so far

vars == <<head, tree, note, edits, repairs>>

-----------------------------------------------------------------------------
(* Git and its user.                                                       *)

RenameFloor == 25

\* diff --find-renames --find-copies against an origin: a path that is new
\* may be paired with a similar one that is gone or changed; what is not
\* tracked yet is not in the diff, and is not paired.
Pairings(o, t) ==
  LET Sources(p) == {q \in DOMAIN o :
                       /\ Similarity[o[q], t[p]] >= RenameFloor
                       /\ q \in DOMAIN t => t[q] # o[q]}
  IN  UNION {{f \in [new -> DOMAIN o] : \A p \in new : f[p] \in Sources(p)} :
               new \in SUBSET (DOMAIN t \ DOMAIN o)}

\* What the diff of the note's origin may say; nothing of one not fetched.
Pairs(n) ==
  IF n.origin = {} THEN {[p \in {} |-> <<>>]}
  ELSE UNION {Pairings(o, tree) : o \in n.origin}

Edit(t) ==
  /\ edits < MaxEdits /\ edits' = edits + 1
  /\ t # tree
  /\ tree' = t
  /\ UNCHANGED <<head, note, repairs>>

Put(p, b) == Edit([q \in DOMAIN tree \cup {p} |-> IF q = p THEN b ELSE tree[q]])

Delete(p) == Edit([q \in DOMAIN tree \ {p} |-> tree[q]])

MoveFile(p, q) ==
  /\ p \in DOMAIN tree /\ q \notin DOMAIN tree
  /\ Edit([r \in (DOMAIN tree \ {p}) \cup {q} |-> IF r = q THEN tree[p] ELSE tree[r]])

\* Everything under f goes under g, which is not there yet.
MoveFolder(f, g) ==
  LET gone == Under(DOMAIN tree, f)
      there == {g \o SubSeq(p, Len(f) + 1, Len(p)) : p \in gone}
  IN  /\ gone # {} /\ f # <<>>
      /\ Under(DOMAIN tree, g) = {}
      /\ there \subseteq File
      /\ Edit([p \in (DOMAIN tree \ gone) \cup there |->
                 IF p \in there THEN tree[f \o SubSeq(p, Len(g) + 1, Len(p))]
                 ELSE tree[p]])

Commit ==
  /\ head # tree
  /\ head' = tree
  /\ UNCHANGED <<tree, note, edits, repairs>>

-----------------------------------------------------------------------------
(* The verbs.                                                              *)

\* A path of the note's kind that the working tree has: destinationExists,
\* and the condition of stampAnchor.
Exists(folder, p) == IF folder THEN Under(DOMAIN tree, p) # {} ELSE p \in DOMAIN tree

\* Mutant of Stamp: the stamp leaves the hint where it was.
StampInPlace(folder, p) ==
  [folder |-> folder, anchor |-> IF folder THEN p ELSE tree[p],
   path |-> IF note = {} THEN p ELSE (CHOOSE n \in note : TRUE).path,
   pinned |-> FALSE, origin |-> {head}, atHand |-> TRUE]

\* stampAnchor, with the hint and the origin the verbs write beside it.
Stamp(folder, p) ==
  [folder |-> folder, path |-> p, anchor |-> IF folder THEN p ELSE tree[p],
   pinned |-> FALSE, origin |-> {head}, atHand |-> TRUE]

Write(n) ==
  /\ repairs < MaxRepairs /\ repairs' = repairs + 1
  /\ note' = {n}
  /\ UNCHANGED <<head, tree, edits>>

Homes(folder) == IF folder THEN Folders(File) ELSE File

\* a: a note on what the working tree has.
Create(folder, p) ==
  /\ note = {}
  /\ Exists(folder, p)
  /\ Write(Stamp(folder, p))

\* A note from another clone, about a commit that is not here, with the
\* anchored content or not yet.
Pull(folder, p) ==
  /\ note = {}
  /\ \E anchor \in IF folder THEN {p} ELSE Blob, pinned, atHand \in BOOLEAN :
       Write([folder |-> folder, path |-> p, anchor |-> anchor,
              pinned |-> pinned, origin |-> {}, atHand |-> atHand])

\* k and u: restampPath takes the one home the note resolves to.
Keep ==
  \E n \in note : \E pairs \in Pairs(n) :
    LET res == Resolution(n, head, tree, pairs)
    IN  /\ Visible(res) /\ res.state # "split"
        /\ \E p \in res.home : Exists(n.folder, p) /\ Write(Stamp(n.folder, p))

\* k with a path: any of the note's kind.
KeepAt(p) ==
  \E n \in note : Exists(n.folder, p) /\ Write(Stamp(n.folder, p))

\* mv: whatever old covers the note's hint, it becomes an existing path.
Move(p) ==
  \E n \in note :
    /\ Exists(n.folder, p)
    /\ Write([n EXCEPT !.path = p, !.pinned = TRUE])

Init ==
  /\ tree \in Start /\ head = tree
  /\ note = {} /\ edits = 0 /\ repairs = 0

Next ==
  \/ \E p \in File, b \in Blob : Put(p, b)
  \/ \E p \in File : Delete(p)
  \/ \E p, q \in File : MoveFile(p, q)
  \/ \E f, g \in Homes(TRUE) : MoveFolder(f, g)
  \/ Commit
  \/ \E folder \in BOOLEAN : \E p \in Homes(folder) : Create(folder, p) \/ Pull(folder, p)
  \/ Keep
  \/ \E n \in note : \E p \in Homes(n.folder) : KeepAt(p) \/ Move(p)

Spec == Init /\ [][Next]_vars

-----------------------------------------------------------------------------

\* The content a file note describes is followed wherever it went, and the
\* note is not shown on anything else while some file has it.  Of near copies
\* the one at the hint is preferred, unless another is decisively closer.
ContentIsFollowed ==
  \A n \in note : ~n.folder =>
    \A pairs \in Pairs(n) :
      LET res == Resolution(n, head, tree, pairs)
          similar(p) == IF n.atHand THEN Similarity[n.anchor, tree[p]] ELSE 0
          followed == {p \in DOMAIN tree : p = n.path \/ (p \in DOMAIN pairs /\ pairs[p] = n.path)}
      IN  IF \E p \in DOMAIN tree : tree[p] = n.anchor
          THEN \E p \in res.home : tree[p] = n.anchor
          ELSE /\ (\E p \in followed : similar(p) >= FollowScore) => Visible(res)
               /\ \A h \in res.home, p \in followed :
                    similar(p) >= FollowScore => similar(p) < similar(h) + AcceptMargin
               /\ (/\ n.path \in DOMAIN tree
                   /\ similar(n.path) >= FollowScore
                   /\ \A p \in DOMAIN pairs : similar(p) < similar(n.path) + AcceptMargin)
                  => res.home = {n.path}

\* A folder that went elsewhere whole, every file of it paired with where it
\* is now, takes its note along.
FolderIsFollowed ==
  \A n \in note : n.folder /\ Under(DOMAIN tree, n.path) = {} =>
   \A o \in n.origin : \A pairs \in Pairs(n), g \in Homes(TRUE) :
    LET members == Under(DOMAIN o, n.anchor)
        Now(p) == g \o SubSeq(p, Len(n.anchor) + 1, Len(p))
        res == Resolution(n, head, tree, pairs)
    IN  /\ members # {}
        /\ \A p \in members : {q \in DOMAIN pairs : pairs[q] = p} = {Now(p)}
        => \/ res.home = {g} /\ Visible(res)
           \/ \E f \in res.home : Subtree(head, f) = Subtree(o, n.anchor)

\* A note that mv put somewhere is seen from then on, whatever becomes of the
\* content, until the path is gone again; but it is not vouched for by that.
PinnedIsSeen ==
  \A n \in note : n.pinned /\ Exists(n.folder, n.path) =>
    \A pairs \in Pairs(n) :
      LET res == Resolution(n, head, tree, pairs)
      IN  /\ Visible(res)
          /\ res.state = "fresh" /\ ~n.folder => \A p \in res.home : tree[p] = n.anchor

\* What a reader is shown is there: k and u can bless every home a note is
\* visible at, so debt can always be settled where it is met.
SeenCanBeBlessed ==
  \A n \in note : \A pairs \in Pairs(n) :
    LET res == Resolution(n, head, tree, pairs)
    IN  Visible(res) => res.home # {} /\ \A p \in res.home : Exists(n.folder, p)

\* What k and u bless is where the note was seen, and it is fresh there.
RepairSettles ==
  [][edits' = edits /\ Keep => \A n \in note, m \in note' :
       /\ \E pairs \in Pairs(n) : m.path \in Resolution(n, head, tree, pairs).home
       /\ \A pairs \in Pairs(m)' :
            Resolution(m, head', tree', pairs) = At("fresh", 1, m.path)]_vars

=============================================================================
