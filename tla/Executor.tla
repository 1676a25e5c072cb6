------------------------------ MODULE Executor ------------------------------
(***************************************************************************)
(* The memos of a batch: the executor of internal/app/batch.go reads the   *)
(* same entries again and again between the records its commands commit,   *)
(* and remembers the classification of every origin, the reading and the   *)
(* resolution of every entry, and the links, until a record makes them     *)
(* wrong.  Commands has the commands, which read and commit.               *)
(*                                                                         *)
(* A path is the sequence of its segments, the last one "" for a folder.   *)
(* A record has the part path beside those of Union, and an FB stands for  *)
(* a dispute.  The checkout is clean, at the commit Here, and stays so.    *)
(***************************************************************************)
EXTENDS Fold, Lineage, SequencesExt

CONSTANTS
  Commit,     \* code commits
  Here,       \* HEAD
  Trees,      \* commit -> its tree: the paths of its files -> their contents
  Similarity

ASSUME CheckoutAssumption ==
  /\ Here \in Commit /\ DOMAIN Trees = Commit
  /\ \A c \in Commit :
       /\ IsFiniteSet(DOMAIN Trees[c])
       /\ \A p \in DOMAIN Trees[c] : p \in Seq(STRING) \ {<<>>} /\ Last(p) # ""

VARIABLES
  ancestors,  \* the commits HEAD descends from: fixed, one checkout a batch
  reachable,  \* those some ref descends from: fixed too
  qualified,  \* whether the clone may judge
  records,    \* the records absorbed so far
  memo        \* what is known of them

checkout == <<ancestors, reachable, qualified>>

NoMemo == [x \in {} |-> None]

\* newExecutor: a batch knows nothing of the one before.
NothingKnown ==
  [class    |-> NoMemo,  \* origin -> its classification
   folded   |-> NoMemo,  \* entry -> its reading
   resolved |-> NoMemo,  \* entry -> where it is
   links    |-> {}]      \* {the links}, once they are folded

Resolver == INSTANCE Resolve

Known == {e \in Entry : Notes(records, e) # {}}

\* S in the order of its keys, which are numbers.
Sorted(S, key) ==
  [i \in 1 .. Cardinality(S) |->
     CHOOSE e \in S : Cardinality({d \in S : key[d] < key[e]}) = i - 1]

\* admit, ex.order: entries come in the order of their first notes.
First(e) == Min({n.id : n \in Notes(records, e)})
InOrder(S) == Sorted(S, [e \in S |-> First(e)])

-----------------------------------------------------------------------------
(* Paths.                                                                  *)

tree == Trees[Here]

Root == <<"">>
IsFolder(p) == Last(p) = ""
Under(p, f) == IF IsFolder(f) THEN Len(p) >= Len(f) /\ IsPrefix(Front(f), p) ELSE p = f

\* The files there are, and the folders they are in.
Exists(p) ==
  \/ p \in DOMAIN tree
  \/ \E q \in DOMAIN tree : p \in {Append(SubSeq(q, 1, i), "") : i \in 0 .. Len(q) - 1}

-----------------------------------------------------------------------------
(* What a reading says.                                                    *)

Only(S) == CHOOSE x \in S : TRUE

HintOf(reading) == Only(reading.path).path
Present(reading) == reading.landed /\ ~reading.deleted
IsFolderNote(reading) == IsFolder(Only(reading.anchor).path)

\* The renames git finds exact; all others are in Placement.
Renamed(was) ==
  LET of(p) == {q \in DOMAIN was : was[q] = tree[p] /\ (q \in DOMAIN tree => tree[q] # was[q])}
  IN  [p \in {q \in DOMAIN tree \ DOMAIN was : of(q) # {}} |-> Only(of(p))]

\* Rule (a) for a landed note; the homes of a folder note are paths of folders.
Resolution(reading) ==
  LET anchor == Only(reading.anchor)
      folder == IsFolder(anchor.path)
      Bare(p) == IF IsFolder(p) THEN Front(p) ELSE p
      res == Resolver!Resolution(
        [folder |-> folder, path |-> Bare(HintOf(reading)),
         anchor |-> IF folder THEN Bare(anchor.path) ELSE anchor.blob,
         pinned |-> Only(reading.path).kind = "RP",
         origin |-> {Trees[anchor.origin]}, atHand |-> TRUE],
        tree, tree, Renamed(Trees[anchor.origin]))
  IN  [res EXCEPT !.home = IF folder THEN {Append(h, "") : h \in @} ELSE @]

-----------------------------------------------------------------------------
(* What a command reads, it knows.                                         *)

\* A memo with what was found now.
Added(memos, found) ==
  [x \in DOMAIN memos \cup DOMAIN found |->
     IF x \in DOMAIN found THEN found[x] ELSE memos[x]]

\* Of a batch what is not known yet, in its order.
Missing(m, origins) ==
  LET places == {i \in DOMAIN origins : origins[i] \notin DOMAIN m.class}
      order == Sorted(places, [i \in places |-> i])
  IN  [k \in 1 .. Cardinality(places) |-> origins[order[k]]]

\* classify: what is not known yet goes to git in one batch.
Classed(m, origins) ==
  [m EXCEPT !.class =
     Added(@, Classify(LandedBindings(records), qualified, ancestors, reachable,
                       Missing(m, origins)))]

\* recordOrigins: the origins of an entry, the oldest first.
RecordOrigins(e) ==
  LET origins == NoteOrigins(OfEntry(records, e))
      Oldest(o) == Min({r.id : r \in {q \in OfEntry(records, e) : q.origin = o}})
  IN  Sorted(origins, [o \in origins |-> Oldest(o)])

\* fold, of an entry whose origins are classified.
WithReading(m, e) ==
  LET landed == {o \in DOMAIN m.class : m.class[o] = "landed"}
  IN  [m EXCEPT !.folded = Added(@, [d \in {e} |-> Reading(records, e, landed)])]

Folded(m, e) ==
  IF e \in DOMAIN m.folded THEN m ELSE WithReading(Classed(m, RecordOrigins(e)), e)

\* resolution, of a living, landed entry.
WithResolution(m, e) ==
  IF e \in DOMAIN m.resolved \/ ~Present(m.folded[e]) THEN m
  ELSE [m EXCEPT !.resolved = Added(@, [d \in {e} |-> Resolution(m.folded[e])])]

Resolved(m, e) == WithResolution(Folded(m, e), e)

FoldedAll(m, S) == FoldLeft(Folded, m, InOrder(S))
ResolvedAll(m, S) == FoldLeft(Resolved, m, InOrder(S))

\* linkSet.
WithLinks(m) == IF m.links = {} THEN [m EXCEPT !.links = {Links(records)}] ELSE m

-----------------------------------------------------------------------------
(* What a record makes wrong.                                              *)

Without(f, x) == [y \in DOMAIN f \ {x} |-> f[y]]

\* Mutant of Forget: a verdict makes the readings wrong, but not the origins.
ForgetNoClass(m, x) ==
  CASE x.kind = "VD" -> [NothingKnown EXCEPT !.links = m.links, !.class = m.class]
    [] x.kind \in {"LN", "UL"} -> [m EXCEPT !.links = {}]
    [] OTHER -> [m EXCEPT !.folded = Without(@, x.entry), !.resolved = Without(@, x.entry)]

\* Mutant of Forget: a record of an entry makes its reading wrong, but not
\* where it is.
ForgetNoResolution(m, x) ==
  CASE x.kind = "VD" -> [NothingKnown EXCEPT !.links = m.links]
    [] x.kind \in {"LN", "UL"} -> [m EXCEPT !.links = {}]
    [] OTHER -> [m EXCEPT !.folded = Without(@, x.entry)]

\* absorb: a record of an entry makes what is known of it wrong, one of a link
\* the links, a verdict what is known of every origin and entry.
Forget(m, x) ==
  CASE x.kind = "VD" -> [NothingKnown EXCEPT !.links = m.links]
    [] x.kind \in {"LN", "UL"} -> [m EXCEPT !.links = {}]
    [] OTHER -> [m EXCEPT !.folded = Without(@, x.entry), !.resolved = Without(@, x.entry)]

\* A command that knows m commits x.
Absorb(m, x) ==
  /\ records' = records \cup {x}
  /\ memo' = Forget(m, x)
  /\ UNCHANGED checkout

-----------------------------------------------------------------------------

\* The fold of section 9.4 for one origin, by itself.
StateOf(o) ==
  Classify(LandedBindings(records), qualified, ancestors, reachable, <<o>>)[o]

\* What a batch remembers of an origin is what it would find by asking again,
\* whatever it asked for first and together with it.
OriginsCurrent == \A o \in DOMAIN memo.class : memo.class[o] = StateOf(o)

\* The reading of an entry by itself.
ReadingOf(e) ==
  Reading(records, e, {o \in NoteOrigins(OfEntry(records, e)) : StateOf(o) = "landed"})

\* What a batch remembers of the entries, of where they are, and of the links, is
\* what it would read now: every command reads the writes and the verdicts of
\* those before it, and r overlooks no k, u or mv.
ReadingsCurrent ==
  /\ \A e \in DOMAIN memo.folded : memo.folded[e] = ReadingOf(e)
  /\ \A e \in DOMAIN memo.resolved : memo.resolved[e] = Resolution(ReadingOf(e))
  /\ \A l \in memo.links : l = Links(records)

=============================================================================
