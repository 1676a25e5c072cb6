---------------------------- MODULE UnreachProofs ----------------------------
(***************************************************************************)
(* Proofs about UnreachCache: what the cache calls dead is dead, for any   *)
(* history, any refs and any movement of them.                             *)
(***************************************************************************)
EXTENDS UnreachCache, Induction

-----------------------------------------------------------------------------
(* The past of a commit: the least set that holds it and the known parents *)
(* of all that it holds.                                                   *)

Closed(cut, S) == \A d \in S : Known(cut, d) \subseteq S

\* One more generation.
Grown(cut, S) == S \cup UNION {Known(cut, d) : d \in S}

Generations(cut, c, w) ==
  w = [n \in 0 .. Cardinality(Commit) |-> IF n = 0 THEN {c} ELSE Grown(cut, w[n - 1])]

LEMMA CommitsAreFinite == Cardinality(Commit) \in Nat
BY HistoryAssumption, FS_CardinalityType

LEMMA GrownType ==
  ASSUME NEW cut, NEW S \in SUBSET Commit
  PROVE  Grown(cut, S) \in SUBSET Commit
BY HistoryAssumption DEF Grown, Known

LEMMA PastIsLast ==
  ASSUME NEW cut, NEW c
  PROVE  PastWith(cut, c) = (CHOOSE w : Generations(cut, c, w))[Cardinality(Commit)]
BY DEF PastWith, Generations, Grown

\* There are the generations that the definition of the past speaks of.
LEMMA GenerationsExist ==
  ASSUME NEW cut, NEW c \in Commit
  PROVE  Generations(cut, c, CHOOSE w : Generations(cut, c, w))
<1> DEFINE K == Cardinality(Commit)
           T == SUBSET Commit
           start == {c}
           step == [n \in Nat |-> [S \in T |-> Grown(cut, S)]]
<1>1. K \in Nat
  BY CommitsAreFinite
<1>2. start \in T
  OBVIOUS
<1>3. \A S \in T : Grown(cut, S) \in T
  BY GrownType
<1> HIDE DEF K, T, start
<1>4. step \in [Nat -> [T -> T]]
  <2>1. [S \in T |-> Grown(cut, S)] \in [T -> T]
    BY <1>3
  <2> QED
    BY <2>1
<1>5. \A n \in Nat, S \in T : step[n][S] = Grown(cut, S)
  OBVIOUS
<1> HIDE DEF step
<1>6. PICK w : Iterates(w, K, T, start, step)
  BY <1>1, <1>2, <1>4, IterationExists
<1>7. /\ w \in [0 .. K -> T]
      /\ w[0] = start /\ \A n \in 0 .. K - 1 : w[n + 1] = step[n][w[n]]
  BY <1>6 DEF Iterates
<1>8. ASSUME NEW n \in 0 .. K, n # 0
      PROVE  w[n] = Grown(cut, w[n - 1])
  <2>1. n - 1 \in 0 .. K - 1 /\ n - 1 \in Nat /\ (n - 1) + 1 = n
    BY <1>1, <1>8
  <2>2. w[n] = step[n - 1][w[n - 1]]
    BY <1>7, <2>1
  <2>3. n - 1 \in 0 .. K
    BY <1>1, <2>1
  <2>4. w[n - 1] \in T
    BY <1>7, <2>3
  <2> QED
    BY <1>5, <2>1, <2>2, <2>4
<1>9. w = [n \in 0 .. K |-> IF n = 0 THEN start ELSE Grown(cut, w[n - 1])]
  BY <1>1, <1>7, <1>8
<1>10. Generations(cut, c, w)
  BY <1>9 DEF Generations, K, start
<1> QED
  BY <1>10

\* The past is that set.  As many generations as there are commits are enough:
\* one that is not closed has more commits than the one before.
LEMMA PastIsLeast ==
  ASSUME NEW cut, NEW c \in Commit
  PROVE  /\ c \in PastWith(cut, c)
         /\ PastWith(cut, c) \subseteq Commit
         /\ Closed(cut, PastWith(cut, c))
         /\ \A N : c \in N /\ Closed(cut, N) => PastWith(cut, c) \subseteq N
<1> DEFINE K == Cardinality(Commit)
           w == CHOOSE v : Generations(cut, c, v)
<1>1. K \in Nat
  BY CommitsAreFinite
<1>2. w = [n \in 0 .. K |-> IF n = 0 THEN {c} ELSE Grown(cut, w[n - 1])]
  <2>1. Generations(cut, c, w)
    BY GenerationsExist
  <2> HIDE DEF w
  <2> QED
    BY <2>1 DEF Generations
<1>3. PastWith(cut, c) = w[K]
  BY PastIsLast
<1> HIDE DEF w, K
<1>4. w[0] = {c} /\ \A n \in 0 .. K - 1 : w[n + 1] = Grown(cut, w[n])
  <2>1. w[0] = {c}
    BY <1>1, <1>2
  <2>2. ASSUME NEW n \in 0 .. K - 1 PROVE w[n + 1] = Grown(cut, w[n])
    <3>1. n + 1 \in 0 .. K /\ n + 1 # 0 /\ (n + 1) - 1 = n
      BY <1>1
    <3> QED
      BY <1>2, <3>1
  <2> QED
    BY <2>1, <2>2
<1>5. c \in w[K] /\ w[K] \subseteq Commit /\ Closed(cut, w[K])
  <2> DEFINE S == {n \in 0 .. K : /\ c \in w[n] /\ w[n] \in SUBSET Commit
                                  /\ Closed(cut, w[n]) \/ Cardinality(w[n]) >= n + 1}
  <2>1. 0 \in S
    <3>1. Cardinality({c}) = 1
      BY FS_Singleton
    <3> QED
      BY <1>1, <1>4, <3>1
  <2>2. ASSUME NEW n \in 0 .. K - 1, n \in S PROVE n + 1 \in S
    <3>1. /\ w[n + 1] = Grown(cut, w[n]) /\ n + 1 \in 0 .. K
          /\ c \in w[n] /\ w[n] \in SUBSET Commit
      BY <1>1, <1>4, <2>2
    <3>2. w[n + 1] \in SUBSET Commit /\ c \in w[n + 1] /\ w[n] \subseteq w[n + 1]
      BY <3>1, GrownType DEF Grown
    <3>3. CASE Closed(cut, w[n])
      <4>1. w[n + 1] = w[n]
        BY <3>1, <3>3 DEF Grown, Closed
      <4> QED
        BY <3>1, <3>2, <3>3, <4>1
    <3>4. CASE ~Closed(cut, w[n])
      <4>1. w[n + 1] # w[n]
        BY <3>1, <3>4 DEF Grown, Closed
      <4>2. IsFiniteSet(w[n + 1])
        BY <3>2, HistoryAssumption, FS_Subset
      <4>3. /\ IsFiniteSet(w[n]) /\ Cardinality(w[n]) <= Cardinality(w[n + 1])
            /\ Cardinality(w[n + 1]) # Cardinality(w[n])
        BY <3>2, <4>1, <4>2, FS_Subset
      <4>4. Cardinality(w[n]) \in Nat /\ Cardinality(w[n + 1]) \in Nat
        BY <4>2, <4>3, FS_CardinalityType
      <4>5. Cardinality(w[n]) >= n + 1
        BY <2>2, <3>4
      <4>6. Cardinality(w[n + 1]) >= (n + 1) + 1
        BY <1>1, <4>3, <4>4, <4>5
      <4> QED
        BY <3>1, <3>2, <4>6
    <3> QED
      BY <3>3, <3>4
  <2> HIDE DEF S
  <2>3. K \in S
    <3>1. 0 .. K \subseteq S
      BY <1>1, <2>1, <2>2, UpTo
    <3> QED
      BY <1>1, <3>1
  <2>4. /\ c \in w[K] /\ w[K] \in SUBSET Commit
        /\ Closed(cut, w[K]) \/ Cardinality(w[K]) >= K + 1
    BY <2>3 DEF S
  <2>5. Cardinality(w[K]) <= K /\ Cardinality(w[K]) \in Nat
    BY <2>4, HistoryAssumption, FS_Subset, FS_CardinalityType DEF K
  <2> QED
    BY <1>1, <2>4, <2>5
<1>6. ASSUME NEW N, c \in N, Closed(cut, N) PROVE w[K] \subseteq N
  <2> DEFINE S == {n \in 0 .. K : w[n] \subseteq N}
  <2>1. 0 \in S
    BY <1>1, <1>4, <1>6
  <2>2. ASSUME NEW n \in 0 .. K - 1, n \in S PROVE n + 1 \in S
    <3>1. w[n] \subseteq N /\ w[n + 1] = Grown(cut, w[n]) /\ n + 1 \in 0 .. K
      BY <1>1, <1>4, <2>2
    <3>2. Grown(cut, w[n]) \subseteq N
      BY <1>6, <3>1 DEF Grown, Closed
    <3> QED
      BY <3>1, <3>2
  <2> HIDE DEF S
  <2>3. 0 .. K \subseteq S
    BY <1>1, <2>1, <2>2, UpTo
  <2>4. K \in S
    BY <1>1, <2>3
  <2> QED
    BY <2>4 DEF S
<1> QED
  BY <1>3, <1>5, <1>6

\* What is in the past of something in c's past is in c's past.
LEMMA PastOfPast ==
  ASSUME NEW cut, NEW c \in Commit, NEW d \in PastWith(cut, c)
  PROVE  PastWith(cut, d) \subseteq PastWith(cut, c)
<1>1. d \in Commit
  BY PastIsLeast
<1> QED
  BY <1>1, PastIsLeast

-----------------------------------------------------------------------------
(* The invariant.                                                          *)
(*                                                                         *)
(* That a file is sound says nothing of what a query makes of it: it reads *)
(* the refs once, and git answers later, under refs that moved on.  While  *)
(* nothing retreated, what the refs reached they still reach (Followed),   *)
(* so that a no given late is a no for the refs the query began with, and  *)
(* so is all it knows (ScanSound).                                         *)

\* Tips are here, and a query knows nothing before it revalidated.
Typed ==
  /\ objects \subseteq Commit
  /\ \A r \in DOMAIN refs : refs[r] \in objects
  /\ \A f \in file : \A r \in DOMAIN f.refs : f.refs[r] \in Commit
  /\ \A r \in DOMAIN cur : cur[r] \in objects
  /\ pc \in {"idle", "revalidate", "scan"}
  /\ pc # "scan" => answers = Nothing
  /\ pc = "idle" => cur = Nothing

Followed == \A r \in DOMAIN cur : r \in DOMAIN refs /\ cur[r] \in Past(refs[r])

ScanSound ==
  /\ dead \cap Reached(Range(cur)) = {}
  /\ \A o \in DOMAIN answers : answers[o] = FALSE => o \in dead

IInv ==
  /\ Typed
  /\ FileIsSound
  /\ ~tainted => /\ pc # "idle" => Followed
                 /\ pc = "scan" => ScanSound

\* It is no weaker than what it is for.
LEMMA InvIsEnough == IInv => DeadIsDead
<1> SUFFICES ASSUME IInv, ~tainted, NEW o \in DOMAIN answers, ~answers[o]
             PROVE  o \notin Reached(Range(cur))
  BY DEF DeadIsDead, Unobservable
<1>1. pc = "scan"
  BY DEF IInv, Typed, Nothing
<1> QED
  BY <1>1 DEF IInv, ScanSound

\* Every tip reaches itself, and nothing else than commits.
LEMMA TipsAreReached ==
  ASSUME NEW tips \in SUBSET Commit
  PROVE  tips \subseteq Reached(tips) /\ Reached(tips) \subseteq Commit
BY PastIsLeast DEF Reached, Past

LEMMA InitInv == Init => IInv
<1> SUFFICES ASSUME Init PROVE IInv
  OBVIOUS
<1>1. PICK r \in Ref, c \in Commit :
        refs = [x \in {r} |-> c] /\ objects = PastWith(shallow, c)
  BY DEF Init
<1>2. c \in objects /\ objects \subseteq Commit
  BY <1>1, PastIsLeast
<1>3. Typed
  BY <1>1, <1>2 DEF Init, Typed, Nothing
<1> QED
  BY <1>3 DEF Init, IInv, FileIsSound

\* Where git moves no ref, cuts nothing and no query goes on, all stays.
LEMMA RestStays ==
  ASSUME IInv, UNCHANGED <<shallow, refs, file, query, tainted>>
  PROVE  /\ FileIsSound'
         /\ ~tainted' => /\ pc' # "idle" => Followed'
                         /\ pc' = "scan" => ScanSound'
BY DEF IInv, FileIsSound, Followed, ScanSound, Reached, Past, query

LEMMA ArriveInv ==
  ASSUME IInv, NEW c \in Commit, Arrive(c)
  PROVE  IInv'
<1>1. objects \subseteq objects' /\ objects' \subseteq Commit
  BY PastIsLeast DEF Arrive, Past, IInv, Typed
<1>2. Typed'
  BY <1>1 DEF Arrive, IInv, Typed, query
<1> QED
  BY <1>2, RestStays DEF Arrive, IInv

\* A ref that moves forward takes its past along.
LEMMA MoveInv ==
  ASSUME IInv, NEW r \in Ref, NEW c \in Commit, Move(r, c)
  PROVE  IInv'
<1>1. /\ UNCHANGED <<objects, shallow, file, pc, asked, cur, dead, answers>>
      /\ c \in objects
      /\ DOMAIN refs' = DOMAIN refs \cup {r}
      /\ \A x \in DOMAIN refs' : refs'[x] = IF x = r THEN c ELSE refs[x]
      /\ ~tainted' => ~tainted
      /\ ~tainted' /\ pc # "idle" => ~(r \in DOMAIN refs /\ ~IsAncestor(refs[r], c))
  BY DEF Move, query
<1>2. Typed'
  BY <1>1 DEF IInv, Typed
<1>3. FileIsSound' /\ (~tainted' /\ pc' = "scan" => ScanSound')
  BY <1>1 DEF IInv, FileIsSound, ScanSound, Reached, Past
<1>4. ASSUME ~tainted', pc' # "idle", NEW x \in DOMAIN cur
      PROVE  x \in DOMAIN refs' /\ cur[x] \in PastWith(shallow, refs'[x])
  <2>1. x \in DOMAIN refs /\ cur[x] \in PastWith(shallow, refs[x])
    BY <1>1, <1>4 DEF IInv, Followed, Past
  <2>2. CASE x # r
    BY <1>1, <2>1, <2>2
  <2>3. CASE x = r
    <3>1. refs[x] \in PastWith(shallow, c)
      BY <1>1, <1>4, <2>1, <2>3 DEF IsAncestor, Past
    <3>2. PastWith(shallow, refs[x]) \subseteq PastWith(shallow, c)
      BY <3>1, PastOfPast
    <3> QED
      BY <1>1, <2>1, <2>3, <3>2
  <2> QED
    BY <2>2, <2>3
<1>5. ~tainted' /\ pc' # "idle" => Followed'
  BY <1>1, <1>4 DEF Followed, Past
<1> QED
  BY <1>2, <1>3, <1>5 DEF IInv

LEMMA DeleteInv ==
  ASSUME IInv, NEW r \in Ref, Delete(r)
  PROVE  IInv'
<1>1. /\ UNCHANGED <<objects, shallow, file, pc, asked, cur, dead, answers>>
      /\ refs' = [x \in DOMAIN refs \ {r} |-> refs[x]]
      /\ ~tainted' => ~tainted /\ pc = "idle"
  BY DEF Delete, query
<1>2. Typed'
  BY <1>1 DEF IInv, Typed
<1>3. FileIsSound'
  BY <1>1 DEF IInv, FileIsSound, Reached, Past
<1> QED
  BY <1>1, <1>2, <1>3 DEF IInv

\* What is kept is what the refs reach, the refs' own tips with it.
LEMMA PruneInv ==
  ASSUME IInv, Prune
  PROVE  IInv'
<1>1. /\ UNCHANGED <<refs, file, pc, asked, cur, dead, answers>> /\ pc = "idle"
      /\ objects' = objects \cap Reached(Range(refs))
      /\ ~tainted' => ~tainted /\ (file = {} \/ shallow' = shallow)
  BY DEF Prune, query
<1>2. Range(refs) \subseteq Commit
  BY DEF Range, IInv, Typed
<1>3. \A x \in DOMAIN refs : refs[x] \in objects'
  BY <1>1, <1>2, TipsAreReached DEF Range, IInv, Typed
<1>4. Typed'
  BY <1>1, <1>3 DEF IInv, Typed, Nothing
<1>5. FileIsSound'
  BY <1>1 DEF IInv, FileIsSound, Reached, Past
<1> QED
  BY <1>1, <1>4, <1>5 DEF IInv

LEMMA DeepenInv ==
  ASSUME IInv, Deepen
  PROVE  IInv'
<1>1. /\ UNCHANGED <<refs, file, pc, asked, cur, dead, answers>> /\ pc = "idle"
      /\ objects' = UNION {PastWith({}, c) : c \in objects}
      /\ ~tainted' => file = {}
  BY DEF Deepen, query
<1>2. objects \subseteq objects' /\ objects' \subseteq Commit
  BY <1>1, PastIsLeast DEF IInv, Typed
<1>3. Typed'
  BY <1>1, <1>2 DEF IInv, Typed, Nothing
<1>4. FileIsSound'
  BY <1>1 DEF FileIsSound
<1> QED
  BY <1>1, <1>3, <1>4 DEF IInv

LEMMA LoseFileInv ==
  ASSUME IInv, LoseFile
  PROVE  IInv'
BY DEF LoseFile, IInv, Typed, FileIsSound, git, query

LEMMA AskInv ==
  ASSUME IInv, NEW Q \in SUBSET Origin, Ask(Q)
  PROVE  IInv'
<1>1. /\ UNCHANGED <<objects, shallow, refs, file, dead, answers, tainted>>
      /\ pc = "idle" /\ pc' = "revalidate" /\ cur' = refs
  BY DEF Ask, git
<1>2. Typed'
  BY <1>1 DEF IInv, Typed
<1>3. \A x \in DOMAIN refs : refs[x] \in PastWith(shallow, refs[x])
  BY PastIsLeast DEF IInv, Typed
<1>4. Followed'
  BY <1>1, <1>3 DEF Followed, Past
<1>5. FileIsSound'
  BY <1>1 DEF IInv, FileIsSound, Reached, Past
<1> QED
  BY <1>1, <1>2, <1>4, <1>5 DEF IInv

\* What the movement of the refs cannot have revived is dead under the refs
\* there are, if it was under those it was found with: a tip that moved
\* forward reaches what it reached and its delta.
LEMMA StillDeadIsDead ==
  ASSUME IInv, ~tainted, NEW f \in file
  PROVE  StillDead(f) \cap Reached(Range(cur)) = {}
<1> SUFFICES ASSUME NEW r \in DOMAIN cur, NEW o \in StillDead(f), o \in Past(cur[r])
             PROVE  FALSE
  BY DEF Reached, Range
<1>1. o \in f.dead /\ \A x \in DOMAIN f.refs : o \notin Past(f.refs[x])
  BY DEF StillDead, IInv, FileIsSound, Reached, Range
<1>2. cur[r] \in objects
  BY DEF IInv, Typed
<1>3. r \in DOMAIN f.refs /\ f.refs[r] # cur[r]
  <2>1. r \in DOMAIN f.refs
    BY <1>2 DEF StillDead, IsAncestor
  <2> QED
    BY <1>1, <2>1
<1>4. CASE IsAncestor(f.refs[r], cur[r])
  BY <1>1, <1>3, <1>4 DEF StillDead, RevList
<1>5. CASE ~IsAncestor(f.refs[r], cur[r])
  BY <1>2, <1>3, <1>5 DEF StillDead, IsAncestor
<1> QED
  BY <1>4, <1>5

LEMMA RevalidateInv ==
  ASSUME IInv, Revalidate
  PROVE  IInv'
<1>1. /\ UNCHANGED <<objects, shallow, refs, file, cur, tainted>>
      /\ pc = "revalidate" /\ pc' = "scan"
      /\ dead' = UNION {StillDead(f) : f \in file}
      /\ answers' = [o \in asked \cap dead' |-> FALSE]
  BY DEF Revalidate, git
<1>2. Typed'
  BY <1>1 DEF IInv, Typed
<1>3. FileIsSound' /\ (~tainted' => Followed')
  BY <1>1 DEF IInv, FileIsSound, Followed, Reached, Past
<1>4. DOMAIN answers' \subseteq dead'
  BY <1>1
<1>5. ~tainted => dead' \cap Reached(Range(cur)) = {}
  BY <1>1, StillDeadIsDead
<1>6. ~tainted' => ScanSound'
  BY <1>1, <1>4, <1>5 DEF ScanSound, Reached, Past
<1> QED
  BY <1>2, <1>3, <1>6 DEF IInv

\* What the refs do not reach by now they did not reach when the query began.
LEMMA ScanInv ==
  ASSUME IInv, NEW o \in Origin, Scan(o)
  PROVE  IInv'
<1>1. /\ UNCHANGED <<objects, shallow, refs, file, pc, cur, tainted>> /\ pc = "scan"
      /\ DOMAIN answers' = DOMAIN answers \cup {o}
      /\ \A x \in DOMAIN answers : x # o => answers'[x] = answers[x]
      /\ answers'[o] = Reachable(o)
      /\ dead \subseteq dead' /\ dead' \subseteq dead \cup {o}
      /\ o \in dead' \ dead => ~Reachable(o)
      /\ ~Reachable(o) => o \in dead'
  BY DEF Scan, git
<1>2. Typed'
  BY <1>1 DEF IInv, Typed
<1>3. FileIsSound' /\ (~tainted' => Followed')
  BY <1>1 DEF IInv, FileIsSound, Followed, Reached, Past
<1>4. ASSUME ~tainted, o \in Reached(Range(cur)) PROVE Reachable(o)
  <2>1. PICK x \in DOMAIN cur : o \in PastWith(shallow, cur[x])
    BY <1>4 DEF Reached, Range, Past
  <2>2. x \in DOMAIN refs /\ cur[x] \in PastWith(shallow, refs[x]) /\ refs[x] \in Commit
    BY <1>1, <1>4 DEF IInv, Typed, Followed, Past
  <2>3. o \in PastWith(shallow, refs[x])
    BY <2>1, <2>2, PastOfPast
  <2> QED
    BY <2>2, <2>3 DEF Reachable, Reached, Range, Past
<1>5. ASSUME ~tainted PROVE ScanSound'
  <2>1. dead' \cap Reached(Range(cur)) = {}
    BY <1>1, <1>4, <1>5 DEF IInv, ScanSound
  <2>2. \A x \in DOMAIN answers' : answers'[x] = FALSE => x \in dead'
    BY <1>1, <1>5 DEF IInv, ScanSound
  <2> QED
    BY <1>1, <2>1, <2>2 DEF ScanSound, Reached, Past
<1> QED
  BY <1>1, <1>2, <1>3, <1>5 DEF IInv

LEMMA AnswerInv ==
  ASSUME IInv, Answer
  PROVE  IInv'
<1>1. /\ UNCHANGED <<objects, shallow, refs, tainted>> /\ pc = "scan" /\ pc' = "idle"
      /\ file' = file \/ file' = {[refs |-> cur, dead |-> dead]}
      /\ cur' = Nothing /\ answers' = Nothing
  BY DEF Answer, Ended, git
<1>2. CASE file' = file
  BY <1>1, <1>2 DEF IInv, Typed, FileIsSound, Nothing, Reached, Past
<1>3. CASE file' = {[refs |-> cur, dead |-> dead]}
  <2>1. \A f \in file' : f.refs = cur /\ f.dead = dead
    BY <1>3
  <2>2. Typed'
    BY <1>1, <2>1 DEF IInv, Typed, Nothing
  <2>3. FileIsSound'
    BY <1>1, <2>1 DEF IInv, ScanSound, FileIsSound, Reached, Past
  <2> QED
    BY <1>1, <2>2, <2>3 DEF IInv
<1> QED
  BY <1>1, <1>2, <1>3

LEMMA DieInv ==
  ASSUME IInv, Die
  PROVE  IInv'
BY DEF Die, Ended, git, IInv, Typed, FileIsSound, Nothing, Reached, Past

LEMMA StepInv == IInv /\ [Next]_vars => IInv'
<1>1. ASSUME IInv, UNCHANGED vars PROVE IInv'
  BY <1>1, RestStays DEF vars, git, query, IInv, Typed
<1> QED
  BY <1>1, ArriveInv, MoveInv, DeleteInv, PruneInv, DeepenInv, LoseFileInv, AskInv,
     RevalidateInv, ScanInv, AnswerInv, DieInv DEF Next

-----------------------------------------------------------------------------

\* A query of lineage never calls an origin dead that a branch has reached all
\* along, whatever git does between its steps and between the queries, but
\* where the file outlived a deepening or a ref retreated beside the query.
THEOREM CacheIsUnobservable == Spec => []DeadIsDead
BY InitInv, StepInv, InvIsEnough, PTL DEF Spec

\* The dead of the file are dead under the refs it was written with.
THEOREM FilesAreSound == Spec => []FileIsSound
<1>1. IInv => FileIsSound
  BY DEF IInv
<1> QED
  BY <1>1, InitInv, StepInv, PTL DEF Spec

=============================================================================
