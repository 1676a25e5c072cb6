--------------------------- MODULE PlacementProofs ---------------------------
(***************************************************************************)
(* Proofs about Placement: what Resolve decides of a note, for any tree,   *)
(* any contents and whatever git says of them.                             *)
(***************************************************************************)
EXTENDS Placement, SequenceTheorems, Induction


-----------------------------------------------------------------------------
(* Paths.                                                                  *)

\* What a path may be split into.
Segment == STRING \cup {"", "."}

\* A path with no segment that git would not have.
Clean == {p \in Seq(Segment) : \A i \in DOMAIN p : p[i] \notin {"", "."}}

LEMMA PrefixType ==
  ASSUME NEW S, NEW s \in Seq(S), NEW n \in 0 .. Len(s)
  PROVE  /\ SubSeq(s, 1, n) \in Seq(S)
         /\ Len(SubSeq(s, 1, n)) = n
         /\ \A i \in 1 .. n : SubSeq(s, 1, n)[i] = s[i]
<1>1. \A i \in 1 .. n : s[i] \in S
  OBVIOUS
<1> QED
  BY <1>1, SubSeqProperties

LEMMA CleanType ==
  ASSUME NEW p \in Clean
  PROVE  p \in Seq(Segment) /\ Len(p) \in Nat /\ (p # <<>> => Len(p) - 1 \in 0 .. Len(p))
<1>1. p \in Seq(Segment)
  BY DEF Clean
<1>2. Len(p) \in Nat /\ (p # <<>> => Len(p) # 0)
  BY <1>1, EmptySeq
<1> QED
  BY <1>1, <1>2

\* The folder of a path is all of it but the last segment.
LEMMA DirParts ==
  ASSUME NEW p \in Clean, p # <<>>
  PROVE  /\ Dir(p) \in Seq(Segment) /\ Len(Dir(p)) = Len(p) - 1
         /\ \A i \in 1 .. Len(p) - 1 : Dir(p)[i] = p[i]
         /\ Base(p) = p[Len(p)]
<1>1. p \in Seq(Segment) /\ Len(p) - 1 \in 0 .. Len(p)
  BY CleanType
<1>2. Dir(p) = SubSeq(p, 1, Len(p) - 1) /\ Base(p) = p[Len(p)]
  BY DEF Dir, Front, Base, Last
<1> QED
  BY <1>1, <1>2, PrefixType

LEMMA DirType ==
  ASSUME NEW p \in Clean
  PROVE  Dir(p) \in Clean
<1>1. CASE p = <<>>
  BY <1>1 DEF Dir
<1>2. CASE p # <<>>
  <2>1. p \in Seq(Segment) /\ Len(p) \in Nat
    BY CleanType
  <2>2. /\ Dir(p) \in Seq(Segment) /\ Len(Dir(p)) = Len(p) - 1
        /\ \A i \in 1 .. Len(p) - 1 : Dir(p)[i] = p[i]
    BY <1>2, DirParts
  <2>3. \A i \in DOMAIN Dir(p) : i \in DOMAIN p /\ Dir(p)[i] = p[i]
    BY <2>1, <2>2
  <2> QED
    BY <2>2, <2>3 DEF Clean
<1> QED
  BY <1>1, <1>2

\* The folders above a path are those of its folder, and that.
LEMMA WithinDir ==
  ASSUME NEW p \in Clean, p # <<>>, NEW n \in 0 .. Len(p) - 1
  PROVE  SubSeq(Dir(p), 1, n) = SubSeq(p, 1, n)
<1>1. /\ Dir(p) \in Seq(Segment) /\ Len(Dir(p)) = Len(p) - 1
      /\ \A i \in 1 .. Len(p) - 1 : Dir(p)[i] = p[i]
  BY DirParts
<1>2. p \in Seq(Segment) /\ Len(p) \in Nat
  BY CleanType
<1>3. n \in 0 .. Len(p) /\ n \in 0 .. Len(Dir(p))
  BY <1>1, <1>2
<1>4. /\ Len(SubSeq(p, 1, n)) = n /\ \A i \in 1 .. n : SubSeq(p, 1, n)[i] = p[i]
      /\ SubSeq(p, 1, n) \in Seq(Segment)
  BY <1>2, <1>3, PrefixType
<1>5. /\ Len(SubSeq(Dir(p), 1, n)) = n /\ \A i \in 1 .. n : SubSeq(Dir(p), 1, n)[i] = Dir(p)[i]
      /\ SubSeq(Dir(p), 1, n) \in Seq(Segment)
  BY <1>1, <1>3, PrefixType
<1>6. \A i \in 1 .. n : Dir(p)[i] = p[i]
  BY <1>1, <1>2
<1> QED
  BY <1>4, <1>5, <1>6, SeqEqual

\* A path is known by its folder and its name.
LEMMA SamePlace ==
  ASSUME NEW p \in Clean, NEW q \in Clean, p # <<>>, q # <<>>,
         Dir(p) = Dir(q), Base(p) = Base(q)
  PROVE  p = q
<1>1. /\ p \in Seq(Segment) /\ Len(p) \in Nat /\ q \in Seq(Segment) /\ Len(q) \in Nat
  BY CleanType
<1>2. /\ Len(Dir(p)) = Len(p) - 1 /\ \A i \in 1 .. Len(p) - 1 : Dir(p)[i] = p[i]
      /\ Base(p) = p[Len(p)]
  BY DirParts
<1>3. /\ Len(Dir(q)) = Len(q) - 1 /\ \A i \in 1 .. Len(q) - 1 : Dir(q)[i] = q[i]
      /\ Base(q) = q[Len(q)]
  BY DirParts
<1> DEFINE m == Len(p) - 1
           n == Len(q) - 1
<1>a. m = n
  BY <1>2, <1>3
<1>b. Len(p) = Len(q)
  BY <1>1, <1>a
<1>c. p[Len(p)] = q[Len(q)]
  BY <1>2, <1>3
<1>4. Len(p) = Len(q) /\ p[Len(p)] = q[Len(q)]
  BY <1>b, <1>c
<1>5. \A i \in 1 .. Len(p) : p[i] = q[i]
  BY <1>1, <1>2, <1>3, <1>4
<1> QED
  BY <1>1, <1>4, <1>5, SeqEqual

\* What two paths have in common is of either.
LEMMA InCommon ==
  ASSUME NEW a \in Seq(Segment), NEW b \in Seq(Segment)
  PROVE  LET l == Len(LongestCommonPrefix({a, b}))
         IN  /\ l \in 0 .. Len(a) /\ l <= Len(b)
             /\ l = Len(a) /\ l = Len(b) => a = b
             /\ a = b => l = Len(a)
<1> DEFINE C == CommonPrefixes({a, b})
           l == LongestCommonPrefix({a, b})
<1>1. ASSUME NEW s \in Seq(Segment), NEW t \in Seq(Segment), NEW x \in Prefixes(s), IsPrefix(x, t)
      PROVE  x \in Seq(Segment) /\ Len(x) \in 0 .. Len(s) /\ Len(x) <= Len(t) /\ x = SubSeq(t, 1, Len(x))
  <2>1. PICK n \in 0 .. Len(s) : x = SubSeq(s, 1, n)
    BY <1>1 DEF Prefixes
  <2>2. x \in Seq(Segment) /\ Len(x) = n
    BY <2>1, PrefixType
  <2>3. SubSeq(x, 1, Len(x)) = x
    BY <2>2, SubSeqFull
  <2> QED
    BY <1>1, <2>1, <2>2, <2>3 DEF IsPrefix
<1>2. \A x \in C : /\ x \in Prefixes(a) \/ x \in Prefixes(b)
                   /\ IsPrefix(x, a) /\ IsPrefix(x, b)
  BY DEF CommonPrefixes
<1>3. \A x \in C : /\ x \in Seq(Segment) /\ Len(x) \in 0 .. Len(a) /\ Len(x) <= Len(b)
                   /\ x = SubSeq(a, 1, Len(x)) /\ x = SubSeq(b, 1, Len(x))
  BY <1>1, <1>2
<1>4. ASSUME NEW n \in 0 .. Len(a), n <= Len(b), SubSeq(a, 1, n) = SubSeq(b, 1, n)
      PROVE  SubSeq(a, 1, n) \in C /\ Len(SubSeq(a, 1, n)) = n
  <2> DEFINE x == SubSeq(a, 1, n)
  <2>1. x \in Seq(Segment) /\ Len(x) = n
    BY PrefixType
  <2>2. SubSeq(x, 1, Len(x)) = x
    BY <2>1, SubSeqFull
  <2>3. IsPrefix(x, a) /\ IsPrefix(x, b) /\ x \in Prefixes(a)
    BY <1>4, <2>1, <2>2 DEF IsPrefix, Prefixes
  <2> QED
    BY <2>1, <2>3 DEF CommonPrefixes
<1> HIDE DEF C
<1>5. C # {}
  <2>1. SubSeq(a, 1, 0) = <<>> /\ SubSeq(b, 1, 0) = <<>>
    BY SubSeqEmpty
  <2> QED
    BY <1>4, <2>1
<1>6. l \in C /\ \A x \in C : Len(x) <= Len(l)
  <2> DEFINE N == {Len(x) : x \in C}
  <2>1. N \in SUBSET Nat /\ N # {} /\ Len(a) \in Nat /\ \A n \in N : n <= Len(a)
    BY <1>3, <1>5
  <2>2. PICK n \in N : \A m \in N : m <= n
    <3> HIDE DEF N
    <3> QED
      BY <2>1, GreatestNumber
  <2>3. \E x \in C : \A y \in C : Len(y) <= Len(x)
    BY <2>2
  <2> QED
    BY <2>3 DEF LongestCommonPrefix, C
<1>7. Len(l) \in 0 .. Len(a) /\ Len(l) <= Len(b)
  BY <1>3, <1>6
<1>8. ASSUME Len(l) = Len(a), Len(l) = Len(b) PROVE a = b
  BY <1>3, <1>6, <1>8, SubSeqFull
<1>9. ASSUME a = b PROVE Len(l) = Len(a)
  <2>1. Len(a) \in 0 .. Len(a) /\ Len(a) <= Len(b)
    BY <1>9
  <2>2. SubSeq(a, 1, Len(a)) \in C /\ Len(SubSeq(a, 1, Len(a))) = Len(a)
    BY <1>4, <1>9, <2>1
  <2>3. Len(a) <= Len(l)
    BY <1>6, <2>2
  <2> QED
    BY <1>7, <2>3
<1> QED
  BY <1>7, <1>8, <1>9

\* With one more segment.
LEMMA OneMore ==
  ASSUME NEW S, NEW s \in Seq(S), NEW x \in S
  PROVE  /\ <<x>> \in Seq(S)
         /\ s \o <<x>> \in Seq(S)
         /\ Len(s \o <<x>>) = Len(s) + 1
         /\ \A i \in 1 .. Len(s) : (s \o <<x>>)[i] = s[i]
<1>1. <<x>> \in Seq(S) /\ Len(<<x>>) = 1
  OBVIOUS
<1> QED
  BY <1>1, ConcatProperties

\* A folder as the code splits it.
LEMMA SegmentsType ==
  ASSUME NEW f \in Clean, NEW g \in Clean
  PROVE  /\ Segments(f) \in Seq(Segment)
         /\ Segments(f) = Segments(g) => f = g
<1> DEFINE bare(x) == IF x = <<>> THEN <<".">> ELSE x
<1>a. "." \in Segment /\ "" \in Segment
  BY DEF Segment
<1>1. <<".">> \in Seq(Segment)
  BY <1>a, CleanType, OneMore
<1>2. bare(f) \in Seq(Segment) /\ bare(g) \in Seq(Segment)
  BY <1>1, CleanType
<1>3. Segments(f) = bare(f) \o <<"">> /\ Segments(g) = bare(g) \o <<"">>
  BY DEF Segments
<1>4. ASSUME NEW s \in Seq(Segment), NEW t \in Seq(Segment), s \o <<"">> = t \o <<"">> PROVE s = t
  <2> DEFINE u == s \o <<"">>
           v == t \o <<"">>
  <2>1. Len(u) = Len(s) + 1 /\ \A i \in 1 .. Len(s) : u[i] = s[i]
    BY <1>a, OneMore
  <2>2. Len(v) = Len(t) + 1 /\ \A i \in 1 .. Len(t) : v[i] = t[i]
    BY <1>a, OneMore
  <2>a. u = v
    BY <1>4
  <2> HIDE DEF u, v
  <2>3. Len(s) = Len(t)
    BY <2>1, <2>2, <2>a
  <2> QED
    BY <2>1, <2>2, <2>3, <2>a, SeqEqual
<1>5. bare(f) = bare(g) => f = g
  <2>1. <<".">>[1] = "." /\ 1 \in DOMAIN <<".">>
    OBVIOUS
  <2> QED
    BY <2>1 DEF Clean
<1> HIDE DEF bare
<1>6. Segments(f) \in Seq(Segment)
  BY <1>a, <1>2, <1>3, OneMore
<1>7. Segments(f) = Segments(g) => bare(f) = bare(g)
  BY <1>2, <1>3, <1>4
<1> QED
  BY <1>5, <1>6, <1>7

\* How far a path is from a hint; only the hint itself is not far at all.
LEMMA AffinityType ==
  ASSUME NEW p \in Clean, NEW h \in Clean
  PROVE  /\ Affinity(p, h) \in Nat
         /\ Affinity(h, h) = 0
         /\ p # <<>> /\ h # <<>> /\ Affinity(p, h) = 0 => p = h
<1>1. ASSUME NEW q \in Clean
      PROVE  /\ DirDistance(q, h) \in Nat
             /\ DirDistance(q, h) = 0 <=> Dir(q) = Dir(h)
  <2> DEFINE a == Segments(Dir(q))
             b == Segments(Dir(h))
             l == Len(LongestCommonPrefix({a, b}))
  <2>1. /\ Dir(q) \in Clean /\ Dir(h) \in Clean
    BY DirType
  <2>2. a \in Seq(Segment) /\ b \in Seq(Segment) /\ (a = b => Dir(q) = Dir(h))
    BY <2>1, SegmentsType
  <2>3. DirDistance(q, h) = Len(a) + Len(b) - 2 * l
    BY DEF DirDistance
  <2>4. Dir(q) = Dir(h) => a = b
    OBVIOUS
  <2> HIDE DEF a, b
  <2>5. /\ l \in 0 .. Len(a) /\ l <= Len(b)
        /\ l = Len(a) /\ l = Len(b) => a = b
        /\ a = b => l = Len(a)
    BY <2>2, InCommon
  <2>6. Len(a) \in Nat /\ Len(b) \in Nat
    BY <2>2
  <2> HIDE DEF l
  <2> QED
    BY <2>2, <2>3, <2>4, <2>5, <2>6
<1>2. Affinity(p, h) = (IF Base(p) # Base(h) THEN 65536 ELSE 0) + DirDistance(p, h)
  BY DEF Affinity
<1>3. Affinity(h, h) = DirDistance(h, h)
  BY <1>1 DEF Affinity
<1>4. Affinity(p, h) \in Nat /\ (Affinity(p, h) = 0 => Base(p) = Base(h) /\ DirDistance(p, h) = 0)
  BY <1>1, <1>2
<1> QED
  BY <1>1, <1>3, <1>4, SamePlace

-----------------------------------------------------------------------------
(* Candidates.                                                             *)

LEMMA HighestScore ==
  ASSUME NEW f, DOMAIN f # {}, NEW b \in Nat, \A p \in DOMAIN f : f[p] \in 0 .. b
  PROVE  /\ \E p \in DOMAIN f : f[p] = MaxScore(f)
         /\ \A p \in DOMAIN f : f[p] <= MaxScore(f)
<1> DEFINE S == {f[p] : p \in DOMAIN f}
<1>1. S \in SUBSET Nat /\ S # {} /\ \A n \in S : n <= b
  OBVIOUS
<1>2. MaxScore(f) = Max(S)
  BY DEF MaxScore
<1> HIDE DEF S
<1>3. \E n \in S : \A m \in S : m <= n
  BY <1>1, GreatestNumber
<1>4. \E n \in S : \A m \in S : n >= m
  BY <1>1, <1>3
<1>5. Max(S) \in S /\ \A m \in S : Max(S) >= m
  BY <1>4 DEF Max
<1>6. Max(S) \in Nat
  BY <1>1, <1>5
<1>7. \A m \in S : m <= Max(S)
  BY <1>1, <1>5, <1>6
<1> QED
  BY <1>2, <1>5, <1>7 DEF S

\* The leader is a candidate, none is better by the margin, and it is the hint
\* where no other is better than that by the margin.
LEMMA LeaderLeads ==
  ASSUME NEW score, DOMAIN score # {}, DOMAIN score \subseteq Clean, NEW hint \in Clean,
         \A p \in DOMAIN score : score[p] \in 0 .. 100
  PROVE  LET best == Leader(score, hint)
         IN  /\ best \in DOMAIN score
             /\ \A p \in DOMAIN score : score[p] < score[best] + AcceptMargin
             /\ /\ hint \in DOMAIN score /\ <<>> \notin DOMAIN score
                /\ \A p \in DOMAIN score : score[p] < score[hint] + AcceptMargin
                => best = hint
<1> DEFINE top == MaxScore(score)
           band == {p \in DOMAIN score : top - score[p] < AcceptMargin}
           closest == {p \in band : \A q \in band : Affinity(p, hint) <= Affinity(q, hint)}
           best == Leader(score, hint)
<1>1. /\ \E p \in DOMAIN score : score[p] = top
      /\ \A p \in DOMAIN score : score[p] <= top
  BY HighestScore
<1>2. top \in 0 .. 100
  BY <1>1
<1>3. \A p \in band : Affinity(p, hint) \in Nat
  BY AffinityType
<1>4. band # {}
  BY <1>1, <1>2 DEF AcceptMargin
<1>5. \E p \in band : \A q \in band : Affinity(p, hint) <= Affinity(q, hint)
  <2> DEFINE A == {Affinity(p, hint) : p \in band}
  <2>1. A \in SUBSET Nat /\ A # {}
    BY <1>3, <1>4
  <2>2. \E n \in A : \A m \in A : n <= m
    <3> HIDE DEF A
    <3> QED
      BY <2>1, LeastNumber
  <2> QED
    BY <2>2
<1>6. \E p \in closest : \A q \in closest : score[p] >= score[q]
  <2> DEFINE N == {score[p] : p \in closest}
  <2>1. N \in SUBSET Nat /\ N # {} /\ \A n \in N : n <= 100
    BY <1>5
  <2>2. \E n \in N : \A m \in N : m <= n
    <3> HIDE DEF N
    <3> QED
      BY <2>1, GreatestNumber
  <2>3. \E p \in closest : \A q \in closest : score[q] <= score[p]
    BY <2>2
  <2> QED
    BY <2>3
<1>7. best \in closest
  <2>1. best = CHOOSE p \in closest : \A q \in closest : score[p] >= score[q]
    BY DEF Leader
  <2> HIDE DEF closest, best
  <2> QED
    BY <1>6, <2>1
<1>8. best \in DOMAIN score /\ top - score[best] < AcceptMargin
  BY <1>7
<1>9. \A p \in DOMAIN score : score[p] < score[best] + AcceptMargin
  BY <1>1, <1>2, <1>8 DEF AcceptMargin
<1>10. ASSUME hint \in DOMAIN score, <<>> \notin DOMAIN score,
              \A p \in DOMAIN score : score[p] < score[hint] + AcceptMargin
       PROVE  best = hint
  <2>a. PICK p \in DOMAIN score : score[p] = top
    BY <1>1
  <2>b. score[hint] \in 0 .. 100 /\ top < score[hint] + AcceptMargin
    BY <1>10, <2>a
  <2>c. top - score[hint] < AcceptMargin
    <3> HIDE DEF top
    <3> QED
      BY <1>2, <2>b DEF AcceptMargin
  <2>1. hint \in band
    BY <1>10, <2>c
  <2>2. Affinity(hint, hint) = 0
    BY AffinityType
  <2>3. Affinity(best, hint) <= 0 /\ Affinity(best, hint) \in Nat
    BY <1>3, <1>7, <2>1, <2>2
  <2>4. Affinity(best, hint) = 0
    BY <2>3
  <2>5. best \in Clean /\ best # <<>> /\ hint # <<>>
    BY <1>8, <1>10
  <2> QED
    BY <2>4, <2>5, AffinityType
<1> QED
  BY <1>8, <1>9, <1>10

-----------------------------------------------------------------------------
(* What there can be.                                                      *)

Checkouts == UNION {[files -> Blob] : files \in SUBSET File}

LEMMA CheckoutType ==
  ASSUME NEW t \in Checkouts
  PROVE  /\ DOMAIN t \subseteq File /\ IsFiniteSet(DOMAIN t)
         /\ \A p \in DOMAIN t : t[p] \in Blob
<1>1. PICK files \in SUBSET File : t \in [files -> Blob]
  BY DEF Checkouts
<1>2. DOMAIN t = files
  BY <1>1
<1>3. IsFiniteSet(files)
  <2>1. IsFiniteSet(File) /\ files \subseteq File
    BY PlacementAssumption
  <2> QED
    BY <2>1, FS_Subset
<1> QED
  BY <1>1, <1>2, <1>3

LEMMA SimilarityType ==
  ASSUME NEW a \in Blob, NEW b \in Blob
  PROVE  Similarity[a, b] \in 0 .. 100
<1>1. Similarity \in [Blob \X Blob -> 0 .. 100]
  BY PlacementAssumption
<1>2. <<a, b>> \in Blob \X Blob
  OBVIOUS
<1> QED
  BY <1>1, <1>2, Zenon

LEMMA FilesAreClean == File \subseteq Clean /\ <<>> \notin File
<1>1. Seq(STRING) \subseteq Seq(Segment)
  BY SeqMonotonic DEF Segment
<1> QED
  BY <1>1, PlacementAssumption DEF Clean

LEMMA PrefixIsClean ==
  ASSUME NEW p \in Clean, NEW n \in 0 .. Len(p)
  PROVE  SubSeq(p, 1, n) \in Clean
<1>1. p \in Seq(Segment) /\ Len(p) \in Nat
  BY CleanType
<1>2. /\ SubSeq(p, 1, n) \in Seq(Segment) /\ Len(SubSeq(p, 1, n)) = n
      /\ \A i \in 1 .. n : SubSeq(p, 1, n)[i] = p[i]
  BY <1>1, PrefixType
<1>3. \A i \in DOMAIN SubSeq(p, 1, n) : i \in DOMAIN p /\ SubSeq(p, 1, n)[i] = p[i]
  BY <1>1, <1>2
<1> QED
  BY <1>2, <1>3 DEF Clean

\* A folder is there when a file is under it, and is a path like others.
LEMMA FoldersType ==
  ASSUME NEW files \in SUBSET File
  PROVE  /\ Folders(files) \subseteq Clean
         /\ \A f \in Clean : f \in Folders(files) <=> Under(files, f) # {}
         /\ \A p \in files : \A n \in 0 .. Len(p) - 1 : SubSeq(p, 1, n) \in Folders(files)
<1>1. ASSUME NEW p \in files
      PROVE  /\ p \in Clean /\ p # <<>> /\ Dir(p) \in Clean /\ Dir(p) = SubSeq(p, 1, Len(p) - 1)
             /\ Len(Dir(p)) = Len(p) - 1 /\ p \in Seq(Segment) /\ Len(p) \in Nat /\ Len(p) > 0
  <2>1. p \in Clean /\ p # <<>>
    BY FilesAreClean
  <2>2. p \in Seq(Segment) /\ Len(p) \in Nat /\ Len(p) - 1 \in 0 .. Len(p)
    BY <2>1, CleanType
  <2>3. Dir(p) = SubSeq(p, 1, Len(p) - 1)
    BY <2>1 DEF Dir, Front
  <2>4. Dir(p) \in Clean /\ Len(Dir(p)) = Len(p) - 1
    BY <2>1, DirType, DirParts
  <2>5. Len(p) > 0
    BY <2>2
  <2> QED
    BY <2>1, <2>2, <2>3, <2>4, <2>5
<1>2. ASSUME NEW p \in files, NEW f
      PROVE  f \in Prefixes(Dir(p)) <=> \E n \in 0 .. Len(p) - 1 : f = SubSeq(p, 1, n)
  <2>1. \A n \in 0 .. Len(p) - 1 : SubSeq(Dir(p), 1, n) = SubSeq(p, 1, n)
    BY <1>1, WithinDir
  <2> QED
    BY <1>1, <2>1 DEF Prefixes
<1>3. ASSUME NEW p \in files, NEW f \in Clean
      PROVE  IsStrictPrefix(f, p) <=> \E n \in 0 .. Len(p) - 1 : f = SubSeq(p, 1, n)
  <2>1. f \in Seq(Segment) /\ Len(f) \in Nat /\ SubSeq(f, 1, Len(f)) = f /\ SubSeq(p, 1, Len(p)) = p
    BY <1>1, CleanType, SubSeqFull
  <2>2. ASSUME IsStrictPrefix(f, p) PROVE Len(f) \in 0 .. Len(p) - 1 /\ f = SubSeq(p, 1, Len(f))
    <3>1. Len(f) <= Len(p) /\ f = SubSeq(p, 1, Len(f)) /\ f # p
      BY <2>1, <2>2 DEF IsStrictPrefix, IsPrefix
    <3>2. Len(f) # Len(p)
      BY <2>1, <3>1
    <3>3. Len(p) \in Nat
      BY <1>1
    <3>4. \A a, b \in Nat : a <= b /\ a # b => a \in 0 .. b - 1
      OBVIOUS
    <3>5. Len(f) \in 0 .. Len(p) - 1
      BY <2>1, <3>1, <3>2, <3>3, <3>4
    <3> QED
      BY <3>1, <3>5
  <2>3. ASSUME NEW n \in 0 .. Len(p) - 1, f = SubSeq(p, 1, n) PROVE IsStrictPrefix(f, p)
    <3>1. n \in 0 .. Len(p)
      BY <1>1
    <3>2. Len(f) = n
      BY <1>1, <2>3, <3>1, PrefixType
    <3>3. f # p /\ Len(f) <= Len(p)
      BY <1>1, <3>2
    <3> QED
      BY <2>1, <2>3, <3>2, <3>3 DEF IsStrictPrefix, IsPrefix
  <2> QED
    BY <2>2, <2>3
<1>4. ASSUME NEW f \in Clean PROVE f \in Folders(files) <=> Under(files, f) # {}
  BY <1>2, <1>3 DEF Folders, Under
<1>5. ASSUME NEW p \in files, NEW n \in 0 .. Len(p) - 1 PROVE SubSeq(p, 1, n) \in Clean
  <2>1. n \in 0 .. Len(p)
    BY <1>1
  <2> QED
    BY <1>1, <2>1, PrefixIsClean
<1>6. Folders(files) \subseteq Clean
  <2> SUFFICES ASSUME NEW f \in Folders(files) PROVE f \in Clean
    OBVIOUS
  <2>1. PICK p \in files : f \in Prefixes(Dir(p))
    BY DEF Folders
  <2>2. PICK n \in 0 .. Len(p) - 1 : f = SubSeq(p, 1, n)
    BY <1>2, <2>1
  <2> QED
    BY <1>5, <2>2
<1>7. ASSUME NEW p \in files, NEW n \in 0 .. Len(p) - 1 PROVE SubSeq(p, 1, n) \in Folders(files)
  BY <1>2 DEF Folders
<1> QED
  BY <1>4, <1>6, <1>7

\* A note as the verbs write it.
Sound(n) ==
  /\ n \in [folder : BOOLEAN, path : Clean, anchor : Clean \cup Blob, pinned : BOOLEAN,
            origin : SUBSET Checkouts, atHand : BOOLEAN]
  /\ n.path \in Homes(n.folder)
  /\ n.anchor \in IF n.folder THEN Folders(File) ELSE Blob
  /\ \A o, q \in n.origin : o = q

Typed ==
  /\ head \in Checkouts /\ tree \in Checkouts
  /\ \A n \in note : Sound(n)
  /\ \A m, n \in note : m = n

\* git pairs what is there with what was.
LEMMA PairsType ==
  ASSUME NEW n, NEW pairs \in Pairs(n)
  PROVE  DOMAIN pairs \subseteq DOMAIN tree
<1>1. CASE n.origin = {}
  BY <1>1 DEF Pairs
<1>2. CASE n.origin # {}
  <2>1. PICK o \in n.origin : pairs \in Pairings(o, tree)
    BY <1>2 DEF Pairs
  <2>2. PICK new \in SUBSET (DOMAIN tree \ DOMAIN o) : DOMAIN pairs = new
    BY <2>1 DEF Pairings
  <2> QED
    BY <2>2
<1> QED
  BY <1>1, <1>2

\* Where something like the anchored content is, in percent.
LEMMA ScoresType ==
  ASSUME Typed, NEW n \in note, ~n.folder, NEW pairs \in Pairs(n)
  PROVE  LET score == Scores(n, tree, pairs)
         IN  /\ DOMAIN score \subseteq DOMAIN tree
             /\ \A p \in DOMAIN score : /\ n.atHand
                                        /\ score[p] = Similarity[n.anchor, tree[p]]
                                        /\ score[p] \in FollowScore .. 100
             /\ \A p \in DOMAIN tree :
                  /\ p = n.path \/ (p \in DOMAIN pairs /\ pairs[p] = n.path)
                  /\ n.atHand /\ Similarity[n.anchor, tree[p]] >= FollowScore
                  => p \in DOMAIN score
             /\ DOMAIN score \subseteq DOMAIN pairs \cup {n.path}
<1>1. /\ n.anchor \in Blob /\ n.atHand \in BOOLEAN
      /\ \A p \in DOMAIN tree : tree[p] \in Blob
  BY CheckoutType DEF Typed, Sound
<1>2. \A p \in DOMAIN tree : Similarity[n.anchor, tree[p]] \in 0 .. 100
  BY <1>1, SimilarityType, Zenon
<1> DEFINE score == Scores(n, tree, pairs)
<1>3. DOMAIN score = {p \in DOMAIN tree :
                        /\ \/ p = n.path
                           \/ /\ p \in DOMAIN pairs
                              /\ \/ pairs[p] = n.path
                                 \/ \E o \in n.origin : o[pairs[p]] = n.anchor
                        /\ n.atHand /\ Similarity[n.anchor, tree[p]] >= FollowScore}
  BY DEF Scores
<1>4. \A p \in DOMAIN score : score[p] = Similarity[n.anchor, tree[p]]
  BY DEF Scores
<1> HIDE DEF score
<1>5. ASSUME NEW p \in DOMAIN score PROVE score[p] \in FollowScore .. 100
  <2>1. score[p] \in 0 .. 100 /\ score[p] >= FollowScore
    BY <1>2, <1>3, <1>4
  <2>2. \A i \in 0 .. 100 : i >= FollowScore => i \in FollowScore .. 100
    BY DEF FollowScore
  <2> QED
    BY <2>1, <2>2
<1> QED
  BY <1>3, <1>4, <1>5 DEF score

\* A file note is where its content is, or else where something like it is, or
\* else where mv put it.
LEMMA FileLayers ==
  ASSUME Typed, NEW n \in note, ~n.folder, NEW pairs \in Pairs(n)
  PROVE  LET res == Resolution(n, head, tree, pairs)
             copies == {p \in DOMAIN tree : tree[p] = n.anchor}
             score == Scores(n, tree, pairs)
         IN  /\ copies # {} =>
                  \E h \in copies : res.home = {h} /\ res.state \in {"fresh", "unconfirmed"}
             /\ n.path \in copies => res = At("fresh", 1, n.path)
             /\ copies = {} /\ DOMAIN score # {} =>
                  /\ Leader(score, n.path) \in DOMAIN score
                  /\ res.home = {Leader(score, n.path)} /\ res.state \in {"stale", "unconfirmed"}
             /\ copies = {} /\ DOMAIN score = {} /\ Asserted(n, tree) =>
                  n.path \in DOMAIN tree /\ res.home = {n.path} /\ res.state = "stale"
             /\ copies = {} /\ DOMAIN score = {} /\ ~Asserted(n, tree) =>
                  res.home = {} /\ res.state = "orphaned"
<1> DEFINE res == Resolution(n, head, tree, pairs)
           copies == {p \in DOMAIN tree : tree[p] = n.anchor}
           score == Scores(n, tree, pairs)
           even == [p \in copies |-> 100]
           best == Leader(score, n.path)
           decisive == /\ score[best] >= AcceptScore
                       /\ \A p \in DOMAIN score \ {best} : score[best] - score[p] >= AcceptMargin
<1>1. n.path \in Clean /\ DOMAIN tree \subseteq Clean
  BY CheckoutType, FilesAreClean DEF Typed, Sound
<1>2. res = CASE n.path \in copies -> At("fresh", 1, n.path)
              [] n.path \notin copies /\ copies # {} ->
                   At(IF Cardinality(copies) > 1 THEN "unconfirmed" ELSE "fresh", 2,
                      Leader(even, n.path))
              [] copies = {} /\ DOMAIN score # {} ->
                   At(IF decisive THEN "stale" ELSE "unconfirmed", 3, best)
              [] copies = {} /\ DOMAIN score = {} /\ Asserted(n, tree) ->
                   At("stale", 4, n.path)
              [] OTHER -> Nowhere("orphaned", 5)
  BY DEF Resolution, FileResolution
<1>3. copies # {} => Leader(even, n.path) \in copies
  <2> SUFFICES ASSUME copies # {} PROVE Leader(even, n.path) \in copies
    OBVIOUS
  <2>1. /\ DOMAIN even = copies /\ DOMAIN even # {} /\ DOMAIN even \subseteq Clean
        /\ \A p \in DOMAIN even : even[p] \in 0 .. 100
    BY <1>1
  <2> HIDE DEF even, copies
  <2> QED
    BY <1>1, <2>1, LeaderLeads
<1>4. DOMAIN score # {} => best \in DOMAIN score
  <2>a. /\ DOMAIN score \subseteq DOMAIN tree
        /\ \A p \in DOMAIN score : score[p] \in FollowScore .. 100
    BY ScoresType
  <2>b. FollowScore .. 100 \subseteq 0 .. 100
    BY DEF FollowScore
  <2> HIDE DEF score
  <2>1. DOMAIN score \subseteq Clean /\ \A p \in DOMAIN score : score[p] \in 0 .. 100
    BY <1>1, <2>a, <2>b
  <2> QED
    BY <1>1, <2>1, LeaderLeads
<1> HIDE DEF res, copies, score, even, decisive
<1>5. CASE n.path \in copies
  <2>1. res = At("fresh", 1, n.path)
    BY <1>2, <1>5
  <2> QED
    BY <1>5, <2>1 DEF At, res, copies, score
<1>6. CASE n.path \notin copies /\ copies # {}
  <2>1. res = At(IF Cardinality(copies) > 1 THEN "unconfirmed" ELSE "fresh", 2,
                 Leader(even, n.path))
    BY <1>2, <1>6
  <2> QED
    BY <1>3, <1>6, <2>1 DEF At, res, copies, score
<1>7. CASE copies = {} /\ DOMAIN score # {}
  <2>1. res = At(IF decisive THEN "stale" ELSE "unconfirmed", 3, best)
    BY <1>2, <1>7
  <2> QED
    BY <1>4, <1>7, <2>1 DEF At, res, copies, score
<1>8. CASE copies = {} /\ DOMAIN score = {} /\ Asserted(n, tree)
  <2>1. res = At("stale", 4, n.path)
    BY <1>2, <1>8
  <2> QED
    BY <1>8, <2>1 DEF At, Asserted, res, copies, score
<1>9. CASE copies = {} /\ DOMAIN score = {} /\ ~Asserted(n, tree)
  <2>1. res = Nowhere("orphaned", 5)
    BY <1>2, <1>9
  <2> QED
    BY <1>9, <2>1 DEF Nowhere, res, copies, score
<1> QED
  BY <1>5, <1>6, <1>7, <1>8, <1>9

-----------------------------------------------------------------------------
(* Folders.                                                                *)

\* What is left of a path below some of its segments.
LEMMA RestIsClean ==
  ASSUME NEW p \in Clean, NEW m \in 0 .. Len(p)
  PROVE  /\ SubSeq(p, m + 1, Len(p)) \in Clean
         /\ Len(SubSeq(p, m + 1, Len(p))) = Len(p) - m
         /\ SubSeq(p, 1, m) \o SubSeq(p, m + 1, Len(p)) = p
<1> DEFINE r == SubSeq(p, m + 1, Len(p))
<1>1. p \in Seq(Segment) /\ Len(p) \in Nat /\ m \in Nat /\ m <= Len(p)
  BY CleanType
<1>2. \A i \in m + 1 .. Len(p) : p[i] \in Segment /\ i \in DOMAIN p
  BY <1>1
<1>3. /\ r \in Seq(Segment) /\ Len(r) = IF m + 1 <= Len(p) THEN Len(p) - (m + 1) + 1 ELSE 0
      /\ \A i \in 1 .. Len(p) - (m + 1) + 1 : r[i] = p[m + 1 + i - 1]
  BY <1>1, <1>2, SubSeqProperties
<1>4. Len(r) = Len(p) - m
  BY <1>1, <1>3
<1>5. \A i \in DOMAIN r : m + i \in DOMAIN p /\ r[i] = p[m + i]
  BY <1>1, <1>3, <1>4
<1>6. SubSeq(p, 1, m) \o r = p
  <2>1. /\ 1 \in 1 .. Len(p) + 1 /\ m \in 1 - 1 .. Len(p) /\ Len(p) \in m .. Len(p)
    BY <1>1
  <2>2. \A k \in 1 - 1 .. Len(p) : \A n \in k .. Len(p) :
           SubSeq(p, 1, k) \o SubSeq(p, k + 1, n) = SubSeq(p, 1, n)
    BY <1>1, <2>1, ConcatAdjacentSubSeq
  <2>3. SubSeq(p, 1, m) \o SubSeq(p, m + 1, Len(p)) = SubSeq(p, 1, Len(p))
    BY <2>1, <2>2
  <2> QED
    BY <1>1, <2>3, SubSeqFull
<1> HIDE DEF r
<1>7. r \in Clean
  BY <1>3, <1>5 DEF Clean
<1> QED
  BY <1>4, <1>6, <1>7 DEF r

\* A suffix is no longer than what it ends.
LEMMA SuffixFits ==
  ASSUME NEW s \in Seq(Segment), NEW t \in Seq(Segment)
  PROVE  /\ IsSuffix(s, t) => Len(s) <= Len(t)
         /\ IsSuffix(s, t \o s)
<1>1. ASSUME NEW u \in Seq(Segment)
      PROVE  /\ Reverse(u) \in Seq(Segment) /\ Len(Reverse(u)) = Len(u)
             /\ \A i \in 1 .. Len(u) : Reverse(u)[i] = u[Len(u) - i + 1]
  <2>1. Len(u) \in Nat /\ \A i \in 1 .. Len(u) : u[Len(u) - i + 1] \in Segment
    OBVIOUS
  <2> QED
    BY <2>1, IsASeq DEF Reverse
<1>2. IsSuffix(s, t) => Len(s) <= Len(t)
  BY <1>1 DEF IsSuffix, IsPrefix
<1>3. IsSuffix(s, t \o s)
  <2> DEFINE w == t \o s
             a == Reverse(s)
             b == Reverse(w)
  <2>1. /\ w \in Seq(Segment) /\ Len(w) = Len(t) + Len(s)
        /\ \A i \in 1 .. Len(s) : w[Len(t) + i] = s[i]
        /\ Len(s) \in Nat /\ Len(t) \in Nat
    OBVIOUS
  <2> HIDE DEF w
  <2>2. /\ a \in Seq(Segment) /\ Len(a) = Len(s) /\ b \in Seq(Segment) /\ Len(b) = Len(w)
        /\ \A i \in 1 .. Len(s) : a[i] = s[Len(s) - i + 1]
        /\ \A i \in 1 .. Len(w) : b[i] = w[Len(w) - i + 1]
    BY <1>1, <2>1
  <2> HIDE DEF a, b
  <2>3. \A i \in 1 .. Len(s) : a[i] = b[i]
    <3> TAKE i \in 1 .. Len(s)
    <3>1. i \in 1 .. Len(w) /\ Len(s) - i + 1 \in 1 .. Len(s)
          /\ Len(w) - i + 1 = Len(t) + (Len(s) - i + 1)
      BY <2>1
    <3> QED
      BY <2>1, <2>2, <3>1
  <2>4. Len(s) \in 0 .. Len(a) /\ Len(s) \in 0 .. Len(b)
    BY <2>1, <2>2
  <2>5. /\ SubSeq(a, 1, Len(s)) \in Seq(Segment) /\ Len(SubSeq(a, 1, Len(s))) = Len(s)
        /\ \A i \in 1 .. Len(s) : SubSeq(a, 1, Len(s))[i] = a[i]
    BY <2>2, <2>4, PrefixType
  <2>6. /\ SubSeq(b, 1, Len(s)) \in Seq(Segment) /\ Len(SubSeq(b, 1, Len(s))) = Len(s)
        /\ \A i \in 1 .. Len(s) : SubSeq(b, 1, Len(s))[i] = b[i]
    BY <2>2, <2>4, PrefixType
  <2>7. SubSeq(a, 1, Len(s)) = SubSeq(b, 1, Len(s))
    BY <2>3, <2>5, <2>6, SeqEqual
  <2>8. IsPrefix(a, b)
    BY <2>1, <2>2, <2>7 DEF IsPrefix
  <2> QED
    BY <2>8 DEF IsSuffix, a, b, w
<1> QED
  BY <1>2, <1>3

\* The members of a folder are finitely many, by paths that are not empty.
LEMMA MembersType ==
  ASSUME NEW o \in Checkouts, NEW f \in Clean
  PROVE  LET M == DOMAIN Subtree(o, f)
         IN  /\ IsFiniteSet(M)
             /\ M = {SubSeq(p, Len(f) + 1, Len(p)) : p \in Under(DOMAIN o, f)}
             /\ \A rel \in M : rel \in Clean /\ rel # <<>>
             /\ \A p \in Under(DOMAIN o, f) : f \o SubSeq(p, Len(f) + 1, Len(p)) = p
<1> DEFINE U == Under(DOMAIN o, f)
           Rest(p) == SubSeq(p, Len(f) + 1, Len(p))
           M == DOMAIN Subtree(o, f)
<1>1. M = {Rest(p) : p \in U}
  BY DEF Subtree
<1>2. IsFiniteSet(U)
  <2>1. U \subseteq DOMAIN o
    BY DEF Under
  <2> QED
    BY <2>1, CheckoutType, FS_Subset
<1>3. IsFiniteSet(M)
  <2> DEFINE h == [p \in U |-> Rest(p)]
  <2>1. h \in [U -> M] /\ \A x \in M : \E p \in U : h[p] = x
    BY <1>1
  <2> HIDE DEF h, M, U
  <2> QED
    BY <1>2, <2>1, ImageIsFinite
<1>4. ASSUME NEW p \in U
      PROVE  Rest(p) \in Clean /\ Rest(p) # <<>> /\ f \o Rest(p) = p
  <2>1. p \in Clean /\ Len(f) <= Len(p) /\ SubSeq(f, 1, Len(f)) = SubSeq(p, 1, Len(f)) /\ f # p
    BY CheckoutType, FilesAreClean DEF Under, IsStrictPrefix, IsPrefix
  <2>2. /\ p \in Seq(Segment) /\ Len(p) \in Nat /\ SubSeq(p, 1, Len(p)) = p
        /\ f \in Seq(Segment) /\ Len(f) \in Nat /\ SubSeq(f, 1, Len(f)) = f
    BY <2>1, CleanType, SubSeqFull
  <2>3. Len(f) # Len(p)
    BY <2>1, <2>2
  <2>4. Len(f) \in 0 .. Len(p)
    BY <2>1, <2>2
  <2>5. /\ Rest(p) \in Clean /\ Len(Rest(p)) = Len(p) - Len(f)
        /\ SubSeq(p, 1, Len(f)) \o Rest(p) = p
    BY <2>1, <2>4, RestIsClean
  <2>6. Rest(p) # <<>>
    <3>1. \A a, b \in Nat : a # b => b - a # 0
      OBVIOUS
    <3>2. Len(Rest(p)) # 0
      BY <2>2, <2>3, <2>5, <3>1
    <3>3. Len(<<>>) = 0
      OBVIOUS
    <3> HIDE DEF Rest
    <3> QED
      BY <3>2, <3>3
  <2> QED
    BY <2>1, <2>2, <2>5, <2>6
<1> QED
  BY <1>1, <1>3, <1>4

\* More files, more folders.
LEMMA MoreFolders ==
  ASSUME NEW files \in SUBSET File
  PROVE  Folders(files) \subseteq Folders(File)
BY DEF Folders

\* A member speaks for a folder that its new path is in.
LEMMA TargetType ==
  ASSUME NEW to \in Clean, to # <<>>, NEW rel \in Clean, rel # <<>>, NEW f \in TargetPrefix(to, rel)
  PROVE  \E k \in 0 .. Len(to) - 1 : f = SubSeq(to, 1, k)
<1>1. /\ to \in Seq(Segment) /\ Len(to) \in Nat /\ Len(to) - 1 \in 0 .. Len(to)
      /\ rel \in Seq(Segment) /\ Len(rel) \in Nat /\ Len(rel) - 1 \in 0 .. Len(rel)
  BY CleanType
<1>2. /\ Dir(to) \in Seq(Segment) /\ Len(Dir(to)) = Len(to) - 1
      /\ Dir(rel) \in Seq(Segment) /\ Len(Dir(rel)) = Len(rel) - 1
  BY DirParts
<1>3. CASE IsSuffix(rel, to)
  <2>1. f = SubSeq(to, 1, Len(to) - Len(rel))
    BY <1>3 DEF TargetPrefix
  <2>2. Len(rel) <= Len(to)
    BY <1>1, <1>3, SuffixFits
  <2>3. \A a, b \in Nat : a <= b /\ a - 1 \in 0 .. a => b - a \in 0 .. b - 1
    OBVIOUS
  <2>4. Len(to) - Len(rel) \in 0 .. Len(to) - 1
    BY <1>1, <2>2, <2>3
  <2> QED
    BY <2>1, <2>4
<1>4. CASE ~IsSuffix(rel, to)
  <2>1. IsSuffix(Dir(rel), Dir(to)) /\ f = SubSeq(Dir(to), 1, Len(Dir(to)) - Len(Dir(rel)))
    BY <1>4 DEF TargetPrefix
  <2>2. Len(Dir(rel)) <= Len(Dir(to))
    BY <1>2, <2>1, SuffixFits
  <2>3. \A a, b \in Nat : a - 1 <= b - 1 /\ a - 1 \in 0 .. a => (b - 1) - (a - 1) \in 0 .. b - 1
    OBVIOUS
  <2>4. Len(Dir(to)) - Len(Dir(rel)) \in 0 .. Len(to) - 1
    BY <1>1, <1>2, <2>2, <2>3
  <2>5. f = SubSeq(to, 1, Len(Dir(to)) - Len(Dir(rel)))
    BY <2>1, <2>4, WithinDir
  <2> QED
    BY <2>4, <2>5
<1> QED
  BY <1>3, <1>4

\* A member that kept its path below g speaks for g.
LEMMA TargetOfMove ==
  ASSUME NEW g \in Clean, NEW rel \in Clean
  PROVE  TargetPrefix(g \o rel, rel) = {g}
<1>1. g \in Seq(Segment) /\ rel \in Seq(Segment) /\ Len(g) \in Nat /\ Len(rel) \in Nat
  BY CleanType
<1>2. IsSuffix(rel, g \o rel)
  BY <1>1, SuffixFits
<1>3. /\ g \o rel \in Seq(Segment) /\ Len(g \o rel) = Len(g) + Len(rel)
      /\ \A i \in 1 .. Len(g) : (g \o rel)[i] = g[i]
  BY <1>1, ConcatProperties
<1>4. Len(g \o rel) - Len(rel) = Len(g) /\ Len(g) \in 0 .. Len(g \o rel)
  BY <1>1, <1>3
<1>5. /\ SubSeq(g \o rel, 1, Len(g)) \in Seq(Segment) /\ Len(SubSeq(g \o rel, 1, Len(g))) = Len(g)
      /\ \A i \in 1 .. Len(g) : SubSeq(g \o rel, 1, Len(g))[i] = (g \o rel)[i]
  BY <1>3, <1>4, PrefixType
<1>6. SubSeq(g \o rel, 1, Len(g)) = g
  BY <1>1, <1>3, <1>5, SeqEqual
<1>7. TargetPrefix(g \o rel, rel) = {SubSeq(g \o rel, 1, Len(g \o rel) - Len(rel))}
  BY <1>2 DEF TargetPrefix
<1> QED
  BY <1>4, <1>6, <1>7

\* Votes are for folders that are there.
LEMMA VotesType ==
  ASSUME NEW key, NEW members, IsFiniteSet(members), \A rel \in members : rel \in Clean /\ rel # <<>>,
         NEW pairs, NEW files \in SUBSET File, DOMAIN pairs \subseteq files
  PROVE  LET vote == Votes(key, members, pairs)
         IN  /\ DOMAIN vote \subseteq members /\ IsFiniteSet(DOMAIN vote)
             /\ \A rel \in DOMAIN vote : vote[rel] \in Folders(files)
<1> DEFINE For(rel) == {to \in DOMAIN pairs :
                          pairs[to] = key \o rel /\ TargetPrefix(to, rel) # {}}
           voters == {rel \in members : For(rel) # {}}
           vote == Votes(key, members, pairs)
<1>1. /\ DOMAIN vote = voters
      /\ \A rel \in voters :
           vote[rel] = CHOOSE f \in TargetPrefix(CHOOSE to \in For(rel) : TRUE, rel) : TRUE
  BY DEF Votes
<1>2. DOMAIN vote \subseteq members /\ IsFiniteSet(DOMAIN vote)
  <2>1. voters \subseteq members
    OBVIOUS
  <2> HIDE DEF voters, vote
  <2> QED
    BY <1>1, <2>1, FS_Subset
<1>3. ASSUME NEW rel \in voters PROVE vote[rel] \in Folders(files)
  <2> DEFINE to == CHOOSE t \in For(rel) : TRUE
             f == CHOOSE t \in TargetPrefix(to, rel) : TRUE
  <2>1. to \in For(rel)
    <3> HIDE DEF For
    <3> QED
      BY <1>3
  <2>2. to \in files /\ TargetPrefix(to, rel) # {} /\ rel \in Clean /\ rel # <<>>
    BY <1>3, <2>1
  <2>3. vote[rel] = f
    BY <1>1, <1>3
  <2> HIDE DEF to, vote
  <2>4. f \in TargetPrefix(to, rel)
    BY <2>2
  <2>5. to \in Clean /\ to # <<>>
    BY <2>2, FilesAreClean
  <2> HIDE DEF f
  <2>6. PICK k \in 0 .. Len(to) - 1 : f = SubSeq(to, 1, k)
    BY <2>2, <2>4, <2>5, TargetType
  <2> QED
    BY <2>2, <2>3, <2>6, FoldersType
<1> QED
  BY <1>1, <1>2, <1>3

\* Where the votes put a folder there are votes for, and where all of them put
\* it it is, if every member has one.
LEMMA TallyType ==
  ASSUME NEW members, NEW vote, NEW t, IsFiniteSet(DOMAIN vote), DOMAIN vote # {}
  PROVE  LET res == Tally(members, vote, t)
         IN  /\ \A f \in res.home : \E rel \in DOMAIN vote : vote[rel] = f
             /\ Visible(res) => res.home # {}
             /\ \A g : DOMAIN vote = members /\ (\A rel \in members : vote[rel] = g)
                  => res.home = {g} /\ Visible(res)
<1> DEFINE for(f) == {r \in DOMAIN vote : vote[r] = f}
           paired == Cardinality(DOMAIN vote)
           count == [f \in {vote[r] : r \in DOMAIN vote} |-> Cardinality(for(f))]
           share == [f \in DOMAIN count |-> (count[f] * 100) \div paired]
           winner == CHOOSE f \in DOMAIN count : count[f] = MaxScore(count)
           runner == Max({0} \cup {share[f] : f \in DOMAIN count \ {winner}})
           coverage == (paired * 100) \div Cardinality(members)
           there == Cardinality(Under(DOMAIN t, winner))
           foreign == IF there > count[winner]
                      THEN ((there - count[winner]) * 100) \div there ELSE 0
           candidates == {f \in DOMAIN share : share[f] >= SplitCandidatePct}
           wins == /\ share[winner] > FolderMajorityPct
                   /\ share[winner] - runner >= FolderMarginPct
                   /\ coverage >= FolderCoveragePct
           whole == count[winner] = paired /\ coverage = 100 /\ foreign < AbsorbedForeignPct
           res == Tally(members, vote, t)
<1>1. res = IF wins THEN At(IF whole THEN "fresh" ELSE "unconfirmed", 3, winner)
            ELSE [state |-> IF candidates = {} THEN "scattered" ELSE "split",
                  layer |-> 3, home |-> candidates]
  BY DEF Tally
<1>2. paired \in Nat /\ paired > 0
  BY FS_CardinalityType, FS_EmptySet
<1>3. \A f : count[f] = count[f] /\ for(f) \subseteq DOMAIN vote
  OBVIOUS
<1>4. \A f \in DOMAIN count : count[f] \in 0 .. paired
  <2> TAKE f \in DOMAIN count
  <2> DEFINE F == for(f)
  <2>1. F \subseteq DOMAIN vote
    OBVIOUS
  <2> HIDE DEF F
  <2>2. IsFiniteSet(F) /\ Cardinality(F) <= paired
    BY <2>1, FS_Subset
  <2>3. Cardinality(F) \in Nat
    BY <2>2, FS_CardinalityType
  <2>4. count[f] = Cardinality(F)
    BY DEF F
  <2> HIDE DEF count, paired
  <2> QED
    BY <1>2, <2>2, <2>3, <2>4
<1>5. DOMAIN count # {} /\ \A f \in DOMAIN count : \E rel \in DOMAIN vote : vote[rel] = f
  OBVIOUS
<1>6. \E f \in DOMAIN count : count[f] = MaxScore(count)
  <2> HIDE DEF count, paired
  <2> QED
    BY <1>2, <1>4, <1>5, HighestScore
<1>7. winner \in DOMAIN count
  <2> HIDE DEF count
  <2> QED
    BY <1>6
<1>8. DOMAIN share = DOMAIN count /\ candidates \subseteq DOMAIN count
  OBVIOUS
<1> HIDE DEF wins, whole, candidates
<1>9. \A f \in res.home : f \in DOMAIN count
  <2>1. wins => res.home = {winner}
    BY <1>1 DEF At
  <2>2. ~wins => res.home = candidates
    BY <1>1
  <2> HIDE DEF count, winner, share, res
  <2> QED
    BY <1>7, <1>8, <2>1, <2>2
<1>10. Visible(res) => res.home # {}
  <2>1. wins => res.home = {winner}
    BY <1>1 DEF At
  <2>2. ~wins /\ candidates = {} => res.state = "scattered"
    BY <1>1
  <2>3. ~wins => res.home = candidates
    BY <1>1
  <2> HIDE DEF res, winner
  <2> QED
    BY <2>1, <2>2, <2>3 DEF Visible
<1>11. ASSUME NEW g, DOMAIN vote = members, \A rel \in members : vote[rel] = g
       PROVE  res.home = {g} /\ Visible(res)
  <2>1. DOMAIN count = {g}
    BY <1>11
  <2>2. winner = g
    BY <1>7, <2>1
  <2>3. count[g] = paired
    <3>1. for(g) = DOMAIN vote
      BY <1>11
    <3>2. count[g] = Cardinality(for(g))
      BY <2>1
    <3> HIDE DEF for
    <3> QED
      BY <3>1, <3>2
  <2>4. \A k \in Nat : k > 0 => (k * 100) \div k = 100
    OBVIOUS
  <2>5. share[g] = 100
    <3>1. share[g] = (count[g] * 100) \div paired
      BY <2>1
    <3> HIDE DEF share, count, paired
    <3> QED
      BY <1>2, <2>3, <2>4, <3>1
  <2>6. coverage = 100
    <3>1. coverage = (paired * 100) \div paired
      BY <1>11
    <3> HIDE DEF coverage, paired
    <3> QED
      BY <1>2, <2>4, <3>1
  <2>7. runner = 0
    <3>1. DOMAIN count \ {winner} = {}
      BY <2>1, <2>2
    <3>2. runner = Max({0})
      BY <3>1
    <3>3. Max({0}) = 0
      BY DEF Max
    <3> QED
      BY <3>2, <3>3
  <2> HIDE DEF share, runner, coverage, winner, count, paired, res
  <2>8. wins
    BY <2>2, <2>5, <2>6, <2>7 DEF wins, FolderMajorityPct, FolderMarginPct, FolderCoveragePct
  <2> QED
    BY <1>1, <2>2, <2>8 DEF At, Visible
<1> HIDE DEF count, res
<1> QED
  BY <1>5, <1>9, <1>10, <1>11 DEF res

\* What the checkout knows of the folder the note was written about.
MembersOf(n) == UNION {DOMAIN Subtree(o, n.anchor) : o \in n.origin}

\* A folder note is at its path, or where HEAD has the very same tree, or where
\* the votes put it.
LEMMA FolderLayers ==
  ASSUME Typed, NEW n \in note, n.folder, NEW pairs
  PROVE  LET res == Resolution(n, head, tree, pairs)
             elsewhere == Elsewhere(n, head, tree)
             vote == Votes(n.anchor, MembersOf(n), pairs)
         IN  /\ Under(DOMAIN tree, n.path) # {} => res = At("fresh", 1, n.path)
             /\ Under(DOMAIN tree, n.path) = {} /\ MembersOf(n) # {} /\ elsewhere # {} =>
                  \E f \in elsewhere : res = At("fresh", 2, f)
             /\ Under(DOMAIN tree, n.path) = {} /\ elsewhere = {} /\ DOMAIN vote # {} =>
                  res = Tally(MembersOf(n), vote, tree)
             /\ Under(DOMAIN tree, n.path) = {} /\ elsewhere # {} /\ MembersOf(n) = {} =>
                  res = Nowhere("orphaned", 4)
             /\ Under(DOMAIN tree, n.path) = {} /\ elsewhere = {} /\ DOMAIN vote = {} =>
                  res = Nowhere("orphaned", 4)
<1> DEFINE res == Resolution(n, head, tree, pairs)
           elsewhere == Elsewhere(n, head, tree)
           members == MembersOf(n)
           vote == Votes(n.anchor, members, pairs)
           even == [f \in elsewhere |-> 100]
           gone == Under(DOMAIN tree, n.path) = {}
<1>1. res = CASE ~gone -> At("fresh", 1, n.path)
              [] gone /\ members # {} /\ elsewhere # {} -> At("fresh", 2, Leader(even, n.path))
              [] gone /\ elsewhere = {} /\ DOMAIN vote # {} -> Tally(members, vote, tree)
              [] OTHER -> Nowhere("orphaned", 4)
  BY DEF Resolution, FolderResolution, MembersOf
<1>2. n.path \in Clean /\ DOMAIN head \subseteq File
  BY CheckoutType DEF Typed, Sound
<1>3. elsewhere # {} => Leader(even, n.path) \in elsewhere
  <2> SUFFICES ASSUME elsewhere # {} PROVE Leader(even, n.path) \in elsewhere
    OBVIOUS
  <2>1. elsewhere \subseteq Clean
    BY <1>2, FoldersType DEF Elsewhere
  <2>2. /\ DOMAIN even = elsewhere /\ DOMAIN even # {} /\ DOMAIN even \subseteq Clean
        /\ \A p \in DOMAIN even : even[p] \in 0 .. 100
    BY <2>1
  <2> HIDE DEF even, elsewhere
  <2> QED
    BY <1>2, <2>2, LeaderLeads
<1> HIDE DEF res, elsewhere, members, vote, even, gone
<1>4. ~gone => res = At("fresh", 1, n.path)
  BY <1>1
<1>5. gone /\ members # {} /\ elsewhere # {} => \E f \in elsewhere : res = At("fresh", 2, f)
  BY <1>1, <1>3
<1>6. gone /\ elsewhere = {} /\ DOMAIN vote # {} => res = Tally(members, vote, tree)
  BY <1>1
<1>7. gone /\ (members = {} \/ elsewhere = {}) /\ (elsewhere # {} \/ DOMAIN vote = {})
      => res = Nowhere("orphaned", 4)
  BY <1>1
<1> QED
  BY <1>4, <1>5, <1>6, <1>7 DEF res, elsewhere, members, vote, gone

\* The members are finitely many, and paths.
LEMMA MembersOfType ==
  ASSUME Typed, NEW n \in note, n.folder
  PROVE  IsFiniteSet(MembersOf(n)) /\ \A rel \in MembersOf(n) : rel \in Clean /\ rel # <<>>
<1>1. n.origin \in SUBSET Checkouts /\ (\A o, q \in n.origin : o = q) /\ n.anchor \in Clean
  <2>1. n.anchor \in Folders(File)
    BY DEF Typed, Sound
  <2> QED
    BY <2>1, FoldersType DEF Typed, Sound
<1>2. CASE n.origin = {}
  BY <1>2, FS_EmptySet DEF MembersOf
<1>3. CASE n.origin # {}
  <2>1. PICK o \in n.origin : TRUE
    BY <1>3
  <2>2. n.origin = {o}
    BY <1>1, <2>1
  <2>3. MembersOf(n) = DOMAIN Subtree(o, n.anchor)
    BY <2>2 DEF MembersOf
  <2> QED
    BY <1>1, <2>3, MembersType
<1> QED
  BY <1>2, <1>3

-----------------------------------------------------------------------------
(* Where a note is shown.                                                  *)

\* A note is shown where there is something of its kind.
LEMMA SeenIsThere ==
  ASSUME Typed, NEW n \in note, NEW pairs \in Pairs(n)
  PROVE  LET res == Resolution(n, head, tree, pairs)
         IN  /\ \A p \in res.home : Exists(n.folder, p) /\ p \in Homes(n.folder)
             /\ Visible(res) => res.home # {}
<1> DEFINE res == Resolution(n, head, tree, pairs)
<1>1. n.folder \in BOOLEAN /\ n.path \in Homes(n.folder) /\ DOMAIN tree \subseteq File
  BY CheckoutType DEF Typed, Sound
<1>2. CASE ~n.folder
  <2> DEFINE copies == {p \in DOMAIN tree : tree[p] = n.anchor}
             score == Scores(n, tree, pairs)
  <2>1. DOMAIN score \subseteq DOMAIN tree
    BY <1>2, ScoresType
  <2>2. \A p \in DOMAIN tree : Exists(n.folder, p) /\ p \in Homes(n.folder)
    BY <1>1, <1>2 DEF Exists, Homes
  <2>3. copies \subseteq DOMAIN tree
    OBVIOUS
  <2>4. /\ copies # {} => \E h \in copies : res.home = {h}
        /\ copies = {} /\ DOMAIN score # {} =>
             Leader(score, n.path) \in DOMAIN score /\ res.home = {Leader(score, n.path)}
        /\ copies = {} /\ DOMAIN score = {} /\ Asserted(n, tree) =>
             n.path \in DOMAIN tree /\ res.home = {n.path}
        /\ copies = {} /\ DOMAIN score = {} /\ ~Asserted(n, tree) =>
             res.home = {} /\ res.state = "orphaned"
    BY <1>2, FileLayers
  <2> HIDE DEF copies, score, res
  <2>5. \/ \E h \in DOMAIN tree : res.home = {h}
        \/ res.home = {} /\ res.state = "orphaned"
    BY <2>1, <2>3, <2>4
  <2> QED
    BY <2>2, <2>5 DEF Visible, res
<1>3. CASE n.folder
  <2> DEFINE elsewhere == Elsewhere(n, head, tree)
             vote == Votes(n.anchor, MembersOf(n), pairs)
  <2>1. \A f \in Folders(DOMAIN tree) : Exists(n.folder, f) /\ f \in Homes(n.folder)
    BY <1>1, <1>3, FoldersType, MoreFolders DEF Exists, Homes
  <2>2. elsewhere \subseteq Folders(DOMAIN tree)
    <3>1. DOMAIN head \subseteq File
      BY CheckoutType DEF Typed
    <3> QED
      BY <1>1, <3>1, FoldersType DEF Elsewhere
  <2>3. IsFiniteSet(DOMAIN vote) /\ \A rel \in DOMAIN vote : vote[rel] \in Folders(DOMAIN tree)
    BY <1>1, <1>3, MembersOfType, PairsType, VotesType
  <2>4. DOMAIN vote # {} =>
          LET t == Tally(MembersOf(n), vote, tree)
          IN  t.home \subseteq Folders(DOMAIN tree) /\ (Visible(t) => t.home # {})
    <3> HIDE DEF vote
    <3> QED
      BY <2>3, TallyType
  <2>5. /\ Under(DOMAIN tree, n.path) # {} => res = At("fresh", 1, n.path)
        /\ Under(DOMAIN tree, n.path) = {} =>
             \/ \E f \in elsewhere : res = At("fresh", 2, f)
             \/ DOMAIN vote # {} /\ res = Tally(MembersOf(n), vote, tree)
             \/ res = Nowhere("orphaned", 4)
    BY <1>3, FolderLayers
  <2>6. n.path \in Clean /\ (Under(DOMAIN tree, n.path) # {} => n.path \in Folders(DOMAIN tree))
    BY <1>1, FoldersType DEF Typed, Sound
  <2> HIDE DEF elsewhere, vote, res
  <2>7. \/ \E f \in Folders(DOMAIN tree) : res.home = {f}
        \/ res.home \subseteq Folders(DOMAIN tree) /\ (Visible(res) => res.home # {})
    BY <2>2, <2>4, <2>5, <2>6 DEF At, Nowhere, Visible
  <2> QED
    BY <2>1, <2>7 DEF res
<1> QED
  BY <1>1, <1>2, <1>3

-----------------------------------------------------------------------------
(* What is always there.                                                   *)

\* Below g there is what was put there.
LEMMA RestOfMove ==
  ASSUME NEW g \in Clean, NEW r \in Clean
  PROVE  SubSeq(g \o r, Len(g) + 1, Len(g \o r)) = r
<1> DEFINE w == g \o r
<1>1. g \in Seq(Segment) /\ r \in Seq(Segment) /\ Len(g) \in Nat /\ Len(r) \in Nat
  BY CleanType
<1>2. /\ w \in Seq(Segment) /\ Len(w) = Len(g) + Len(r)
      /\ \A i \in 1 .. Len(r) : w[Len(g) + i] = r[i]
  BY <1>1
<1> HIDE DEF w
<1>3. \A i \in Len(g) + 1 .. Len(w) : w[i] \in Segment
  BY <1>1, <1>2
<1> DEFINE s == SubSeq(w, Len(g) + 1, Len(w))
<1>4. /\ s \in Seq(Segment)
      /\ Len(s) = IF Len(g) + 1 <= Len(w) THEN Len(w) - (Len(g) + 1) + 1 ELSE 0
      /\ \A i \in 1 .. Len(w) - (Len(g) + 1) + 1 : s[i] = w[Len(g) + 1 + i - 1]
  BY <1>1, <1>2, <1>3, SubSeqProperties
<1>5. Len(s) = Len(r)
  BY <1>1, <1>2, <1>4
<1>6. \A i \in 1 .. Len(r) : s[i] = r[i]
  BY <1>1, <1>2, <1>4
<1> HIDE DEF s
<1>7. s = r
  BY <1>1, <1>4, <1>5, <1>6, SeqEqual
<1> QED
  BY <1>7 DEF s, w

\* What the verbs write is sound.
LEMMA StampType ==
  ASSUME Typed, NEW folder \in BOOLEAN, NEW p \in Homes(folder), Exists(folder, p)
  PROVE  Sound(Stamp(folder, p))
<1>1. p \in Clean /\ (folder => p \in Folders(File))
  BY FilesAreClean, FoldersType DEF Homes
<1>2. ~folder => tree[p] \in Blob
  BY CheckoutType DEF Typed, Exists
<1>3. {head} \in SUBSET Checkouts
  BY DEF Typed
<1> QED
  BY <1>1, <1>2, <1>3 DEF Stamp, Sound

\* An edit leaves a tree.
LEMMA EditKeepsType ==
  ASSUME Typed, NEW t \in Checkouts, Edit(t)
  PROVE  Typed'
BY DEF Typed, Edit, Sound, Homes

LEMMA WriteKeepsType ==
  ASSUME Typed, NEW n, Sound(n), Write(n)
  PROVE  Typed'
BY DEF Typed, Write, Sound, Homes

LEMMA KeepIsSound ==
  ASSUME Typed, Keep
  PROVE  \E n \in note : \E p \in Homes(n.folder) :
           /\ \E pairs \in Pairs(n) : p \in Resolution(n, head, tree, pairs).home
           /\ Exists(n.folder, p) /\ Write(Stamp(n.folder, p))
<1>0. PICK n \in note :
        \E pairs \in Pairs(n) : \E p \in Resolution(n, head, tree, pairs).home :
          Exists(n.folder, p) /\ Write(Stamp(n.folder, p))
  BY DEF Keep
<1>1. PICK pairs \in Pairs(n) :
        \E p \in Resolution(n, head, tree, pairs).home :
          Exists(n.folder, p) /\ Write(Stamp(n.folder, p))
  BY <1>0
<1>2. PICK p \in Resolution(n, head, tree, pairs).home :
        Exists(n.folder, p) /\ Write(Stamp(n.folder, p))
  BY <1>1
<1>3. p \in Homes(n.folder)
  BY <1>2, SeenIsThere
<1> QED
  BY <1>2, <1>3

\* Trees are of files that there may be, and notes are as the verbs write them.
THEOREM TypedAlways == Spec => []Typed
<1>1. Init => Typed
  <2>1. Start \subseteq Checkouts
    BY PlacementAssumption DEF Checkouts
  <2> QED
    BY <2>1 DEF Init, Typed
<1>2. Typed /\ [Next]_vars => Typed'
  <2> SUFFICES ASSUME Typed, [Next]_vars PROVE Typed'
    OBVIOUS
  <2>0. DOMAIN tree \subseteq File /\ \A p \in DOMAIN tree : tree[p] \in Blob
    BY CheckoutType DEF Typed
  <2>a. ASSUME NEW files \in SUBSET File, NEW t \in [files -> Blob] PROVE t \in Checkouts
    BY DEF Checkouts
  <2>1. ASSUME NEW p \in File, NEW b \in Blob, Put(p, b) PROVE Typed'
    <3> DEFINE files == DOMAIN tree \cup {p}
               t == [q \in files |-> IF q = p THEN b ELSE tree[q]]
    <3>1. files \in SUBSET File /\ t \in [files -> Blob]
      BY <2>0
    <3>2. Edit(t)
      BY <2>1 DEF Put
    <3> HIDE DEF t, files
    <3> QED
      BY <2>a, <3>1, <3>2, EditKeepsType
  <2>2. ASSUME NEW p \in File, Delete(p) PROVE Typed'
    <3> DEFINE files == DOMAIN tree \ {p}
               t == [q \in files |-> tree[q]]
    <3>1. files \in SUBSET File /\ t \in [files -> Blob]
      BY <2>0
    <3>2. Edit(t)
      BY <2>2 DEF Delete
    <3> HIDE DEF t, files
    <3> QED
      BY <2>a, <3>1, <3>2, EditKeepsType
  <2>3. ASSUME NEW p \in File, NEW q \in File, MoveFile(p, q) PROVE Typed'
    <3> DEFINE files == (DOMAIN tree \ {p}) \cup {q}
               t == [r \in files |-> IF r = q THEN tree[p] ELSE tree[r]]
    <3>1. files \in SUBSET File /\ t \in [files -> Blob]
      BY <2>0, <2>3 DEF MoveFile
    <3>2. Edit(t)
      BY <2>3 DEF MoveFile
    <3> HIDE DEF t, files
    <3> QED
      BY <2>a, <3>1, <3>2, EditKeepsType
  <2>4. ASSUME NEW f \in Homes(TRUE), NEW g \in Homes(TRUE), MoveFolder(f, g) PROVE Typed'
    <3> DEFINE gone == Under(DOMAIN tree, f)
               Rest(p) == SubSeq(p, Len(f) + 1, Len(p))
               there == {g \o Rest(p) : p \in gone}
               files == (DOMAIN tree \ gone) \cup there
               from(p) == f \o SubSeq(p, Len(g) + 1, Len(p))
               t == [p \in files |-> IF p \in there THEN tree[from(p)] ELSE tree[p]]
    <3>1. f \in Clean /\ g \in Clean /\ tree \in Checkouts
      BY FoldersType DEF Homes, Typed
    <3>2. there \subseteq File /\ Edit(t)
      BY <2>4 DEF MoveFolder
    <3>3. \A p \in gone : Rest(p) \in Clean /\ f \o Rest(p) = p
      BY <3>1, MembersType
    <3>4. \A p \in gone : from(g \o Rest(p)) = p
      BY <3>1, <3>3, RestOfMove
    <3>5. gone \subseteq DOMAIN tree
      BY DEF Under
    <3> HIDE DEF from, Rest, gone
    <3>6. files \in SUBSET File /\ t \in [files -> Blob]
      BY <2>0, <3>2, <3>4, <3>5
    <3> HIDE DEF t, files
    <3> QED
      BY <2>a, <3>2, <3>6, EditKeepsType
  <2>5. ASSUME Commit PROVE Typed'
    BY <2>5 DEF Commit, Typed, Sound, Homes
  <2>6. ASSUME NEW folder \in BOOLEAN, NEW p \in Homes(folder), Create(folder, p) PROVE Typed'
    BY <2>6, StampType, WriteKeepsType DEF Create
  <2>7. ASSUME NEW folder \in BOOLEAN, NEW p \in Homes(folder), Pull(folder, p) PROVE Typed'
    <3>1. PICK anchor \in IF folder THEN {p} ELSE Blob, pinned \in BOOLEAN, atHand \in BOOLEAN :
            Write([folder |-> folder, path |-> p, anchor |-> anchor,
                   pinned |-> pinned, origin |-> {}, atHand |-> atHand])
      BY <2>7 DEF Pull
    <3>2. p \in Clean /\ (folder => p \in Folders(File))
      BY FilesAreClean, FoldersType DEF Homes
    <3>3. Sound([folder |-> folder, path |-> p, anchor |-> anchor,
                 pinned |-> pinned, origin |-> {}, atHand |-> atHand])
      BY <3>2 DEF Sound, Homes
    <3> QED
      BY <3>1, <3>3, WriteKeepsType
  <2>8. ASSUME Keep PROVE Typed'
    <3>0. PICK n \in note : \E p \in Homes(n.folder) :
            Exists(n.folder, p) /\ Write(Stamp(n.folder, p))
      BY <2>8, KeepIsSound
    <3>1. PICK p \in Homes(n.folder) : Exists(n.folder, p) /\ Write(Stamp(n.folder, p))
      BY <3>0
    <3>2. n.folder \in BOOLEAN
      BY DEF Typed, Sound
    <3> QED
      BY <3>1, <3>2, StampType, WriteKeepsType
  <2>9. ASSUME NEW n \in note, NEW p \in Homes(n.folder), KeepAt(p) PROVE Typed'
    <3>1. Exists(n.folder, p) /\ Write(Stamp(n.folder, p))
      BY <2>9 DEF KeepAt, Typed
    <3>2. n.folder \in BOOLEAN
      BY DEF Typed, Sound
    <3> QED
      BY <3>1, <3>2, StampType, WriteKeepsType
  <2>10. ASSUME NEW n \in note, NEW p \in Homes(n.folder), Move(p) PROVE Typed'
    <3>1. Write([n EXCEPT !.path = p, !.pinned = TRUE])
      BY <2>10 DEF Move, Typed
    <3>2. Sound(n) /\ p \in Clean
      BY FilesAreClean, FoldersType DEF Typed, Homes
    <3>3. Sound([n EXCEPT !.path = p, !.pinned = TRUE])
      BY <3>2 DEF Sound
    <3> QED
      BY <3>1, <3>3, WriteKeepsType
  <2>11. ASSUME UNCHANGED vars PROVE Typed'
    BY <2>11 DEF vars, Typed, Sound, Homes
  <2> QED
    BY <2>1, <2>2, <2>3, <2>4, <2>5, <2>6, <2>7, <2>8, <2>9, <2>10, <2>11 DEF Next
<1> QED
  BY <1>1, <1>2, PTL DEF Spec

-----------------------------------------------------------------------------
(* What the answers are worth.                                             *)

\* What a reader is shown is there: the verbs can bless every home a note is
\* visible at.
THEOREM SeenIsBlessable == Spec => []SeenCanBeBlessed
<1>1. Typed => SeenCanBeBlessed
  BY SeenIsThere DEF SeenCanBeBlessed
<1> QED
  BY <1>1, TypedAlways, PTL

\* Where mv put a note it is seen, until the path is gone again, and it is not
\* called fresh on what it was not written about.
THEOREM PinsAreSeen == Spec => []PinnedIsSeen
<1>1. ASSUME Typed, NEW n \in note, n.pinned, Exists(n.folder, n.path), NEW pairs \in Pairs(n)
      PROVE  LET res == Resolution(n, head, tree, pairs)
             IN  /\ Visible(res)
                 /\ res.state = "fresh" /\ ~n.folder => \A p \in res.home : tree[p] = n.anchor
  <2> DEFINE res == Resolution(n, head, tree, pairs)
             copies == {p \in DOMAIN tree : tree[p] = n.anchor}
             score == Scores(n, tree, pairs)
  <2>0. n.folder \in BOOLEAN
    BY <1>1 DEF Typed, Sound
  <2>1. CASE ~n.folder
    <3>1. /\ copies # {} =>
               \E h \in copies : res.home = {h} /\ res.state \in {"fresh", "unconfirmed"}
          /\ copies = {} /\ DOMAIN score # {} => res.state \in {"stale", "unconfirmed"}
          /\ copies = {} /\ DOMAIN score = {} /\ Asserted(n, tree) => res.state = "stale"
      BY <1>1, <2>1, FileLayers
    <3>2. Asserted(n, tree)
      BY <1>1, <2>1 DEF Asserted, Exists
    <3>3. \A h \in copies : tree[h] = n.anchor
      OBVIOUS
    <3> HIDE DEF res, copies, score
    <3>4. \/ \E h \in copies : res.home = {h} /\ res.state \in {"fresh", "unconfirmed"}
          \/ res.state \in {"stale", "unconfirmed"}
      BY <3>1, <3>2
    <3> QED
      BY <3>3, <3>4 DEF Visible, res
  <2>2. CASE n.folder
    <3>1. Under(DOMAIN tree, n.path) # {}
      BY <1>1, <2>2 DEF Exists
    <3>2. res = At("fresh", 1, n.path)
      BY <1>1, <2>2, <3>1, FolderLayers
    <3> HIDE DEF res
    <3>3. Visible(res)
      BY <3>2 DEF At, Visible
    <3> QED
      BY <2>2, <3>3 DEF res
  <2> QED
    BY <2>0, <2>1, <2>2
<1>2. Typed => PinnedIsSeen
  BY <1>1 DEF PinnedIsSeen
<1> QED
  BY <1>2, TypedAlways, PTL

\* The content a file note describes is followed wherever it went; of near
\* copies none is passed over for one that is decisively further from it.
THEOREM ContentFollowed == Spec => []ContentIsFollowed
<1>1. ASSUME Typed, NEW n \in note, ~n.folder, NEW pairs \in Pairs(n)
      PROVE
      LET res == Resolution(n, head, tree, pairs)
          similar(p) == IF n.atHand THEN Similarity[n.anchor, tree[p]] ELSE 0
          followed == {p \in DOMAIN tree : p = n.path \/ (p \in DOMAIN pairs /\ pairs[p] = n.path)}
      IN  IF \E p \in DOMAIN tree : tree[p] = n.anchor
          THEN \E p \in res.home : tree[p] = n.anchor
          ELSE /\ (\E p \in followed : similar(p) >= FollowScore) => Visible(res)
               /\ \A h \in res.home, p \in followed :
                    similar(p) >= FollowScore => similar(p) < similar(h) + AcceptMargin
               /\ (/\ n.path \in DOMAIN tree
                   /\ similar(n.path) >= FollowScore
                   /\ \A p \in DOMAIN pairs : similar(p) < similar(n.path) + AcceptMargin)
                  => res.home = {n.path}
  <2> DEFINE res == Resolution(n, head, tree, pairs)
             similar(p) == IF n.atHand THEN Similarity[n.anchor, tree[p]] ELSE 0
             followed == {p \in DOMAIN tree : p = n.path \/ (p \in DOMAIN pairs /\ pairs[p] = n.path)}
             copies == {p \in DOMAIN tree : tree[p] = n.anchor}
             score == Scores(n, tree, pairs)
             best == Leader(score, n.path)
  <2>1. /\ copies # {} => \E h \in copies : res.home = {h}
        /\ copies = {} /\ DOMAIN score # {} =>
             /\ best \in DOMAIN score
             /\ res.home = {best} /\ res.state \in {"stale", "unconfirmed"}
        /\ copies = {} /\ DOMAIN score = {} /\ Asserted(n, tree) => res.home = {n.path}
        /\ copies = {} /\ DOMAIN score = {} /\ ~Asserted(n, tree) => res.home = {}
    BY <1>1, FileLayers
  <2>2. /\ DOMAIN score \subseteq DOMAIN tree
        /\ \A p \in DOMAIN score : similar(p) = score[p] /\ score[p] \in FollowScore .. 100
        /\ DOMAIN score \subseteq DOMAIN pairs \cup {n.path}
    BY <1>1, ScoresType
  <2>3. \A p \in followed : similar(p) >= FollowScore => p \in DOMAIN score
    <3>1. ~(0 >= FollowScore)
      BY DEF FollowScore
    <3>2. n.atHand \in BOOLEAN
      BY <1>1 DEF Typed, Sound
    <3> QED
      BY <1>1, <3>1, <3>2, ScoresType
  <2>4. n.path \in Clean /\ DOMAIN tree \subseteq Clean /\ <<>> \notin DOMAIN tree
    BY <1>1, CheckoutType, FilesAreClean DEF Typed, Sound
  <2>5. DOMAIN score # {} =>
          /\ \A p \in DOMAIN score : score[p] < score[best] + AcceptMargin
          /\ /\ n.path \in DOMAIN score
             /\ \A p \in DOMAIN score : score[p] < score[n.path] + AcceptMargin
             => best = n.path
    <3>1. FollowScore .. 100 \subseteq 0 .. 100
      BY DEF FollowScore
    <3> HIDE DEF score
    <3>2. /\ DOMAIN score \subseteq Clean /\ <<>> \notin DOMAIN score
          /\ \A p \in DOMAIN score : score[p] \in 0 .. 100
      BY <2>2, <2>4, <3>1
    <3> QED
      BY <2>4, <3>2, LeaderLeads
  <2>6. \A p \in DOMAIN tree : tree[p] = n.anchor <=> p \in copies
    OBVIOUS
  <2>7. copies \subseteq DOMAIN tree /\ followed \subseteq DOMAIN tree
    OBVIOUS
  <2>8. n.path \in DOMAIN tree => n.path \in followed
    OBVIOUS
  <2> HIDE DEF copies, score, best, res, similar, followed
  <2>9. CASE copies # {}
    BY <2>1, <2>6, <2>7, <2>9 DEF res
  <2>10. CASE copies = {}
    <3>1. (\E p \in followed : similar(p) >= FollowScore) => Visible(res)
      BY <2>1, <2>3, <2>10 DEF Visible
    <3>2. ASSUME NEW h \in res.home, NEW p \in followed, similar(p) >= FollowScore
          PROVE  similar(p) < similar(h) + AcceptMargin
      <4>1. p \in DOMAIN score
        BY <2>3, <3>2
      <4>2. h = best /\ best \in DOMAIN score /\ score[p] < score[best] + AcceptMargin
        BY <2>1, <2>5, <2>10, <3>2, <4>1
      <4> QED
        BY <2>2, <4>1, <4>2
    <3>3. ASSUME n.path \in DOMAIN tree, similar(n.path) >= FollowScore,
                 \A p \in DOMAIN pairs : similar(p) < similar(n.path) + AcceptMargin
          PROVE  res.home = {n.path}
      <4>1. n.path \in DOMAIN score
        BY <2>3, <2>8, <3>3
      <4>2. score[n.path] < score[n.path] + AcceptMargin
        <5>1. \A i \in FollowScore .. 100 : i < i + AcceptMargin
          BY DEF FollowScore, AcceptMargin
        <5> QED
          BY <2>2, <4>1, <5>1
      <4>3. \A p \in DOMAIN score : score[p] < score[n.path] + AcceptMargin
        BY <2>2, <3>3, <4>1, <4>2
      <4>4. best = n.path
        BY <2>5, <4>1, <4>3
      <4> QED
        BY <2>1, <2>10, <4>1, <4>4
    <3>4. ~(\E p \in DOMAIN tree : tree[p] = n.anchor)
      BY <2>6, <2>10
    <3> QED
      BY <3>1, <3>2, <3>3, <3>4 DEF res, similar, followed
  <2> QED
    BY <2>9, <2>10
<1>2. Typed => ContentIsFollowed
  BY <1>1 DEF ContentIsFollowed
<1> QED
  BY <1>2, TypedAlways, PTL

\* A folder that went elsewhere whole takes its note along.
THEOREM FolderFollowed == Spec => []FolderIsFollowed
<1>1. ASSUME Typed, NEW n \in note, n.folder, Under(DOMAIN tree, n.path) = {},
             NEW o \in n.origin, NEW pairs \in Pairs(n), NEW g \in Homes(TRUE),
             Under(DOMAIN o, n.anchor) # {},
             \A p \in Under(DOMAIN o, n.anchor) :
               {q \in DOMAIN pairs : pairs[q] = p} = {g \o SubSeq(p, Len(n.anchor) + 1, Len(p))}
      PROVE  LET res == Resolution(n, head, tree, pairs)
             IN  \/ res.home = {g} /\ Visible(res)
                 \/ \E f \in res.home : Subtree(head, f) = Subtree(o, n.anchor)
  <2> DEFINE res == Resolution(n, head, tree, pairs)
             key == n.anchor
             U == Under(DOMAIN o, key)
             Rest(p) == SubSeq(p, Len(key) + 1, Len(p))
             M == MembersOf(n)
             elsewhere == Elsewhere(n, head, tree)
             vote == Votes(key, M, pairs)
  <2>1. key \in Clean /\ g \in Clean /\ o \in Checkouts /\ n.origin = {o} /\ DOMAIN tree \subseteq File
    <3>1. key \in Folders(File) /\ g \in Folders(File)
      BY <1>1 DEF Typed, Sound, Homes
    <3> QED
      BY <1>1, <3>1, FoldersType, CheckoutType DEF Typed, Sound
  <2>2. M = DOMAIN Subtree(o, key)
    BY <2>1 DEF MembersOf
  <2>3. /\ IsFiniteSet(M) /\ M = {Rest(p) : p \in U}
        /\ \A rel \in M : rel \in Clean /\ rel # <<>>
        /\ \A p \in U : key \o Rest(p) = p
    BY <2>1, <2>2, MembersType
  <2>4. M # {}
    <3>1. U # {}
      BY <1>1
    <3> HIDE DEF U, M, Rest
    <3> QED
      BY <2>3, <3>1
  <2>5. CASE elsewhere # {}
    <3>1. PICK f \in elsewhere : res = At("fresh", 2, f)
      BY <1>1, <2>4, <2>5, FolderLayers
    <3>2. Subtree(head, f) = Subtree(o, key)
      BY <2>1, <3>1 DEF Elsewhere
    <3>3. res.home = {f}
      BY <3>1 DEF At
    <3> HIDE DEF res
    <3> QED
      BY <3>2, <3>3 DEF res
  <2>6. CASE elsewhere = {}
    <3> DEFINE For(rel) == {to \in DOMAIN pairs :
                              pairs[to] = key \o rel /\ TargetPrefix(to, rel) # {}}
               voters == {rel \in M : For(rel) # {}}
    <3>1. /\ DOMAIN vote = voters
          /\ \A rel \in voters :
               vote[rel] = CHOOSE f \in TargetPrefix(CHOOSE to \in For(rel) : TRUE, rel) : TRUE
      BY DEF Votes
    <3>2. ASSUME NEW rel \in M
          PROVE  TargetPrefix(g \o rel, rel) = {g} /\ For(rel) = {g \o rel}
      <4>1. PICK p \in U : rel = Rest(p)
        BY <2>3
      <4>2. key \o rel = p
        BY <2>3, <4>1
      <4>3. {q \in DOMAIN pairs : pairs[q] = key \o rel} = {g \o rel}
        BY <1>1, <4>1, <4>2
      <4>4. TargetPrefix(g \o rel, rel) = {g}
        BY <2>1, <2>3, TargetOfMove
      <4> QED
        BY <4>3, <4>4
    <3>3. ASSUME NEW rel \in M PROVE rel \in DOMAIN vote /\ vote[rel] = g
      <4>1. rel \in voters
        BY <3>2
      <4>a. \A x : (CHOOSE y \in {x} : TRUE) = x
        OBVIOUS
      <4>2. (CHOOSE to \in For(rel) : TRUE) = g \o rel
        <5> DEFINE F == For(rel)
        <5>1. F = {g \o rel}
          BY <3>2
        <5> HIDE DEF F
        <5>2. (CHOOSE to \in F : TRUE) = g \o rel
          BY <4>a, <5>1
        <5> QED
          BY <5>2 DEF F
      <4>3. (CHOOSE f \in TargetPrefix(g \o rel, rel) : TRUE) = g
        BY <3>2, <4>a
      <4> HIDE DEF vote, For, voters
      <4> QED
        BY <3>1, <4>1, <4>2, <4>3
    <3>4. DOMAIN vote = M
      <4>1. voters \subseteq M
        OBVIOUS
      <4> HIDE DEF vote, voters
      <4> QED
        BY <3>1, <3>3, <4>1
    <3>5. res = Tally(M, vote, tree)
      BY <1>1, <2>4, <2>6, <3>4, FolderLayers
    <3> HIDE DEF vote, M, res
    <3>6. res.home = {g} /\ Visible(res)
      <4>1. IsFiniteSet(DOMAIN vote) /\ DOMAIN vote # {}
        BY <2>3, <2>4, <3>4
      <4>2. \A rel \in M : vote[rel] = g
        BY <3>3
      <4> QED
        BY <3>4, <3>5, <4>1, <4>2, TallyType
    <3> QED
      BY <3>6 DEF res
  <2> QED
    BY <2>5, <2>6
<1>2. Typed => FolderIsFollowed
  BY <1>1 DEF FolderIsFollowed
<1> QED
  BY <1>2, TypedAlways, PTL

\* What k and u bless is where the note was seen, and it is fresh there.
THEOREM RepairsSettle == Spec => RepairSettles
<1>1. ASSUME Typed, Keep, NEW n \in note, NEW m \in note'
      PROVE  /\ \E pairs \in Pairs(n) : m.path \in Resolution(n, head, tree, pairs).home
             /\ \A pairs : Resolution(m, head', tree', pairs) = At("fresh", 1, m.path)
  <2>1. PICK k \in note : \E p \in Homes(k.folder) :
          /\ \E pairs \in Pairs(k) : p \in Resolution(k, head, tree, pairs).home
          /\ Exists(k.folder, p) /\ Write(Stamp(k.folder, p))
    BY <1>1, KeepIsSound
  <2>2. PICK p \in Homes(k.folder) :
          /\ \E pairs \in Pairs(k) : p \in Resolution(k, head, tree, pairs).home
          /\ Exists(k.folder, p) /\ Write(Stamp(k.folder, p))
    BY <2>1
  <2>3. k = n /\ m = Stamp(n.folder, p) /\ tree' = tree /\ n.folder \in BOOLEAN
    BY <1>1, <2>2 DEF Typed, Sound, Write
  <2>4. /\ m.path = p /\ m.folder = n.folder
        /\ m.anchor = IF n.folder THEN p ELSE tree[p]
    BY <2>3 DEF Stamp
  <2>5. ASSUME NEW pairs PROVE Resolution(m, head', tree, pairs) = At("fresh", 1, p)
    <3>1. CASE n.folder
      <4>1. Under(DOMAIN tree, m.path) # {}
        BY <2>2, <2>3, <2>4, <3>1 DEF Exists
      <4> QED
        BY <2>4, <3>1, <4>1 DEF Resolution, FolderResolution
    <3>2. CASE ~n.folder
      <4>1. m.path \in {q \in DOMAIN tree : tree[q] = m.anchor}
        BY <2>2, <2>3, <2>4, <3>2 DEF Exists
      <4> QED
        BY <2>4, <3>2, <4>1 DEF Resolution, FileResolution
    <3> QED
      BY <2>3, <3>1, <3>2
  <2> QED
    BY <2>2, <2>3, <2>4, <2>5
<1>2. Typed /\ [Next]_vars =>
        [edits' = edits /\ Keep => \A n \in note, m \in note' :
           /\ \E pairs \in Pairs(n) : m.path \in Resolution(n, head, tree, pairs).home
           /\ \A pairs \in Pairs(m)' :
                Resolution(m, head', tree', pairs) = At("fresh", 1, m.path)]_vars
  BY <1>1
<1> QED
  BY <1>2, TypedAlways, PTL DEF Spec, RepairSettles

=============================================================================
