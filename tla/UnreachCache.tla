---------------------------- MODULE UnreachCache ----------------------------
(***************************************************************************)
(* The unreachability cache: internal/evcache/unreach.go over the queries  *)
(* of internal/gitio/forensics.go.                                         *)
(*                                                                         *)
(* Lineage asks of an origin whether some branch still reaches it.  What   *)
(* was found dead is kept in a file, with the refs it was found under, and *)
(* the next query re-asks only what the refs' movement since can have      *)
(* revived.  The user's git runs beside all this: fetches, commits,        *)
(* resets, deletions, pruning, the deepening of a shallow clone.           *)
(***************************************************************************)
EXTENDS Naturals, FiniteSets, Functions

CONSTANTS
  Commit,     \* the commits of the code history, here and elsewhere
  Parents,    \* commit -> its parents
  Ref,        \* refs/heads and refs/remotes
  Origin,     \* the commits that are asked about
  Retreats    \* whether a ref may lose commits while a query runs

ASSUME HistoryAssumption ==
  /\ IsFiniteSet(Commit)
  /\ Parents \in [Commit -> SUBSET Commit]
  /\ Origin \subseteq Commit
  /\ Retreats \in BOOLEAN

VARIABLES
  objects,   \* the commits in the object database
  shallow,   \* the cut: those of them whose parents git leaves out
  refs,      \* ref -> its tip, for the refs there are
  file,      \* the state file, {} or one [refs, dead]
  pc,        \* a query: "idle", "revalidate" or "scan"
  asked,     \* the origins it is asked about
  cur,       \* the refs when it began
  dead,      \* the origins it knows to be dead
  answers,   \* origin -> whether a ref reaches it, for those answered
  tainted    \* of no code: the file, or what the query read of it, outlived a
             \* deepening, or a ref retreated beside the query that made it

git == <<objects, shallow, refs>>
query == <<pc, asked, cur, dead, answers>>
vars == <<git, file, query, tainted>>

Nothing == [x \in {} |-> 0]

-----------------------------------------------------------------------------
(* What git answers.                                                       *)

\* The parents git knows of, given the shallow commits.
Known(cut, c) == IF c \in cut THEN {} ELSE Parents[c]

\* c and all before it.
PastWith(cut, c) ==
  LET upto[n \in 0 .. Cardinality(Commit)] ==
        IF n = 0 THEN {c}
        ELSE upto[n - 1] \cup UNION {Known(cut, d) : d \in upto[n - 1]}
  IN  upto[Cardinality(Commit)]

Past(c) == PastWith(shallow, c)

\* IsAncestor: a commit that is not here is nobody's ancestor, nor has any.
IsAncestor(a, b) == b \in objects /\ a \in Past(b)

\* The commits a set of tips reaches.
Reached(tips) == UNION {Past(t) : t \in tips}

\* RevList: what is reachable from include and not from exclude.
RevList(include, exclude) == Past(include) \ Past(exclude)

\* ReachableFrom, for one origin: whether any branch contains it now.
Reachable(o) == o \in Reached(Range(refs))

-----------------------------------------------------------------------------

\* A clone, full or with its history cut at the tip of its one branch.
Init ==
  /\ \E r \in Ref, c \in Commit :
       /\ refs = [x \in {r} |-> c]
       /\ shallow \in {{}, {d \in {c} : Parents[d] # {}}}
       /\ objects = PastWith(shallow, c)
  /\ file = {}
  /\ pc = "idle" /\ asked = {} /\ cur = Nothing /\ dead = {} /\ answers = Nothing
  /\ tainted = FALSE

-----------------------------------------------------------------------------
(* The user's git.                                                         *)

\* A commit is made or fetched, with what of its history is not here yet.
Arrive(c) ==
  /\ c \notin objects
  /\ objects' = objects \cup Past(c)
  /\ UNCHANGED <<shallow, refs, file, query, tainted>>

\* A ref is created, moved on or reset.
Move(r, c) ==
  /\ c \in objects
  /\ r \in DOMAIN refs => refs[r] # c
  /\ LET retreat == r \in DOMAIN refs /\ ~IsAncestor(refs[r], c)
     IN  /\ retreat /\ pc # "idle" => Retreats
         /\ tainted' = (tainted \/ (retreat /\ pc # "idle"))
  /\ refs' = [x \in DOMAIN refs \cup {r} |-> IF x = r THEN c ELSE refs[x]]
  /\ UNCHANGED <<objects, shallow, file, query>>

Delete(r) ==
  /\ r \in DOMAIN refs
  /\ pc # "idle" => Retreats
  /\ refs' = [x \in DOMAIN refs \ {r} |-> refs[x]]
  /\ tainted' = (tainted \/ pc # "idle")
  /\ UNCHANGED <<objects, shallow, file, query>>

\* git gc, between queries: what no ref reaches is gone, and with it the cut if
\* it was there; fetched again, that history comes whole.
Prune ==
  /\ pc = "idle"
  /\ objects' = objects \cap Reached(Range(refs))
  /\ shallow' = shallow \cap objects'
  /\ tainted' = (tainted \/ (file # {} /\ shallow' # shallow))
  /\ UNCHANGED <<refs, file, query>>

\* git fetch --unshallow, between queries, brings the history and moves no ref.
Deepen ==
  /\ pc = "idle"
  /\ shallow # {}
  /\ shallow' = {}
  /\ objects' = UNION {PastWith({}, c) : c \in objects}
  /\ tainted' = (tainted \/ file # {})
  /\ UNCHANGED <<refs, file, query>>

\* The cache is deleted, or its file is found to be of no known format.
LoseFile ==
  /\ pc = "idle"
  /\ file # {}
  /\ file' = {}
  /\ tainted' = FALSE
  /\ UNCHANGED <<git, query>>

-----------------------------------------------------------------------------
(* A query.                                                                *)

\* The refs are listed.
Ask(Q) ==
  /\ pc = "idle" /\ pc' = "revalidate"
  /\ asked' = Q
  /\ cur' = refs
  /\ UNCHANGED <<git, file, dead, answers, tainted>>

\* Mutant of StillDead: a fast-forward is taken to revive its tip only.
StillDeadByTip(f) ==
  LET moved == {r \in DOMAIN cur : r \notin DOMAIN f.refs \/ f.refs[r] # cur[r]}
      forward == {r \in moved : r \in DOMAIN f.refs /\ IsAncestor(f.refs[r], cur[r])}
  IN  {o \in f.dead :
         /\ \A r \in forward : o # cur[r]
         /\ \A r \in moved \ forward : ~IsAncestor(o, cur[r])}

\* revalidatedDead: those of the file's dead origins that the movement of the
\* refs cannot have revived.  A fast-forward revives what is in its delta, a
\* new ref and one that moved otherwise what they reach; a deleted ref nothing.
StillDead(f) ==
  LET moved == {r \in DOMAIN cur : r \notin DOMAIN f.refs \/ f.refs[r] # cur[r]}
      forward == {r \in moved : r \in DOMAIN f.refs /\ IsAncestor(f.refs[r], cur[r])}
  IN  {o \in f.dead :
         /\ \A r \in forward : o \notin RevList(cur[r], f.refs[r])
         /\ \A r \in moved \ forward : ~IsAncestor(o, cur[r])}

Revalidate ==
  /\ pc = "revalidate" /\ pc' = "scan"
  /\ dead' = UNION {StillDead(f) : f \in file}
  /\ answers' = [o \in asked \cap dead' |-> FALSE]
  /\ UNCHANGED <<git, file, asked, cur, tainted>>

\* One of the others is asked of git, under the refs there are by now.
Scan(o) ==
  /\ pc = "scan"
  /\ o \in asked \ DOMAIN answers
  /\ answers' = [x \in DOMAIN answers \cup {o} |->
                   IF x = o THEN Reachable(o) ELSE answers[x]]
  /\ dead' = IF Reachable(o) THEN dead ELSE dead \cup {o}
  /\ UNCHANGED <<git, file, pc, asked, cur, tainted>>

Ended ==
  /\ pc' = "idle" /\ asked' = {} /\ cur' = Nothing /\ dead' = {} /\ answers' = Nothing

\* Mutant of Answer: the dead are written back under the refs there are by now.
AnswerUnderNow ==
  /\ pc = "scan" /\ asked = DOMAIN answers
  /\ file' \in {file, {[refs |-> refs, dead |-> dead]}}
  /\ Ended
  /\ UNCHANGED <<git, tainted>>

\* The dead are written back under the refs the query began with; that the
\* write fails is of no account.
Answer ==
  /\ pc = "scan" /\ asked = DOMAIN answers
  /\ file' \in {file, {[refs |-> cur, dead |-> dead]}}
  /\ Ended
  /\ UNCHANGED <<git, tainted>>

\* The invocation dies, or git fails under it.
Die ==
  /\ pc # "idle"
  /\ Ended
  /\ UNCHANGED <<git, file, tainted>>

Next ==
  \/ \E c \in Commit : Arrive(c)
  \/ \E r \in Ref : Delete(r) \/ \E c \in Commit : Move(r, c)
  \/ Prune \/ Deepen \/ LoseFile
  \/ \E Q \in SUBSET Origin \ {{}} : Ask(Q)
  \/ \E o \in Origin : Scan(o)
  \/ Revalidate \/ Answer \/ Die

Spec == Init /\ [][Next]_vars

-----------------------------------------------------------------------------

\* No query calls an origin dead that a branch has reached all along: deleting
\* the cache would change no answer.
Unobservable ==
  \A o \in DOMAIN answers : ~answers[o] => o \notin Reached(Range(cur))

\* It is so but where the file outlived a deepening, or a ref retreated and
\* came back around the query that wrote it.
DeadIsDead == ~tainted => Unobservable

\* What the file says is the reason: its dead were dead under its refs, and a
\* file that survives any movement of the refs goes on telling the truth.
FileIsSound ==
  ~tainted => \A f \in file : f.dead \cap Reached(Range(f.refs)) = {}

=============================================================================
