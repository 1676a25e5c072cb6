--------------------------- MODULE MintPassProofs ---------------------------
(***************************************************************************)
(* Proofs about MintPass, for any history, any branches and any number of  *)
(* rewritings, verdicts and syncs.                                         *)
(*                                                                         *)
(* The inductive invariant is MInv.  Beside the types it has what the      *)
(* properties follow from: what a reflog calls an amend or a rebase is a   *)
(* rewriting there was (ReflogInv), so an m1 binds only along one          *)
(* (RewriteBound); and an attempt in the memo that no m2 gave up on fails  *)
(* as an m3 for good (MemoInv), because the commits it compares never      *)
(* change once the clone is not shallow.  A pass is a fold over attempts   *)
(* nobody bounds: it is followed step by step (Passing), with the folds    *)
(* and the orders of Induction.                                            *)
(*                                                                         *)
(* FirstRewriteKeepsNotes is about what is owed, and has an invariant of   *)
(* its own: OwedInv finds in the reflog, for each debt, the way from the   *)
(* note to what it is owed by, and Paid is what a pass has made of it.     *)
(***************************************************************************)
EXTENDS MintPass, Induction

-----------------------------------------------------------------------------
(* Histories.                                                              *)

LEMMA CommitType ==
  ASSUME NEW H, IsHistory(H), NEW c \in DOMAIN H
  PROVE  /\ Len(H) \in Nat /\ DOMAIN H = 1 .. Len(H) /\ c \in Nat /\ 1 .. c \subseteq DOMAIN H
         /\ H[c].parents \in SUBSET (1 .. c - 1) /\ H[c].parents \subseteq 1 .. c
         /\ H[c].tree \in SUBSET Change
         /\ H[c] = [parents |-> H[c].parents, tree |-> H[c].tree]
<1> DEFINE C == [parents : SUBSET Nat, tree : SUBSET Change]
<1>1. H \in Seq(C) /\ H[c].parents \subseteq 1 .. c - 1
  BY DEF IsHistory
<1> HIDE DEF C
<1>2. Len(H) \in Nat /\ DOMAIN H = 1 .. Len(H) /\ c \in Nat
  BY <1>1
<1>3. H[c] \in C
  BY <1>1, <1>2
<1> QED
  BY <1>1, <1>2, <1>3 DEF C

\* The ancestors of the first n commits.
AncestorsUpTo(f, H, n) == f = [d \in 1 .. n |-> {d} \cup UNION {f[p] : p \in H[d].parents}]

LEMMA AncestorsUnique ==
  ASSUME NEW H, IsHistory(H), NEW n \in Nat, NEW m \in Nat, n <= m, m <= Len(H),
         NEW f, AncestorsUpTo(f, H, n), NEW g, AncestorsUpTo(g, H, m)
  PROVE  \A d \in 1 .. n : f[d] = g[d]
<1> DEFINE Differ == {d \in 1 .. n : f[d] # g[d]}
<1> SUFFICES ASSUME Differ # {} PROVE FALSE
  OBVIOUS
<1>1. PICK d \in Differ : \A e \in Differ : d <= e
  <2>1. Differ \in SUBSET Nat
    OBVIOUS
  <2> QED
    BY <2>1, LeastNumber
<1>2. d \in DOMAIN H /\ d \in 1 .. n /\ d \in 1 .. m
  BY DEF IsHistory
<1>3. \A p \in H[d].parents : p \in 1 .. n /\ p < d
  BY <1>2, CommitType
<1>4. \A p \in H[d].parents : f[p] = g[p]
  BY <1>1, <1>3
<1>5. f[d] = {d} \cup UNION {f[p] : p \in H[d].parents}
  BY <1>2 DEF AncestorsUpTo
<1>6. g[d] = {d} \cup UNION {g[p] : p \in H[d].parents}
  BY <1>2 DEF AncestorsUpTo
<1>7. {f[p] : p \in H[d].parents} = {g[p] : p \in H[d].parents}
  BY <1>4
<1>8. f[d] = g[d]
  BY <1>5, <1>6, <1>7
<1> QED
  BY <1>8

LEMMA AncestorsExist ==
  ASSUME NEW H, IsHistory(H), NEW n \in 0 .. Len(H)
  PROVE  \E f : AncestorsUpTo(f, H, n)
<1> DEFINE S == {m \in 0 .. n : \E f : AncestorsUpTo(f, H, m)}
<1>0. Len(H) \in Nat /\ n \in Nat /\ DOMAIN H = 1 .. Len(H)
  BY DEF IsHistory
<1>1. 0 \in S
  <2> DEFINE f == [d \in 1 .. 0 |-> {}]
  <2>1. \A d \in 1 .. 0 : f[d] = {d} \cup UNION {f[p] : p \in H[d].parents}
    OBVIOUS
  <2>2. f = [d \in 1 .. 0 |-> f[d]]
    OBVIOUS
  <2> HIDE DEF f
  <2>3. AncestorsUpTo(f, H, 0)
    BY <2>1, <2>2 DEF AncestorsUpTo
  <2> QED
    BY <2>3, <1>0
<1>2. ASSUME NEW m \in 0 .. n - 1, m \in S PROVE m + 1 \in S
  <2>1. PICK f : AncestorsUpTo(f, H, m)
    BY <1>2
  <2> DEFINE g == [d \in 1 .. m + 1 |->
                     IF d = m + 1 THEN {d} \cup UNION {f[p] : p \in H[d].parents} ELSE f[d]]
  <2>2. ASSUME NEW d \in 1 .. m + 1
        PROVE  g[d] = {d} \cup UNION {g[p] : p \in H[d].parents}
    <3>1. d \in DOMAIN H
      BY <1>0
    <3>2. \A p \in H[d].parents : p \in 1 .. m
      BY <3>1, CommitType
    <3>3. {f[p] : p \in H[d].parents} = {g[p] : p \in H[d].parents}
      <4>1. ASSUME NEW p \in H[d].parents PROVE f[p] = g[p]
        <5>1. p \in 1 .. m /\ p \in 1 .. m + 1 /\ p # m + 1
          BY <3>2
        <5> QED
          BY <5>1
      <4> QED
        BY <4>1
    <3>4. g[d] = {d} \cup UNION {f[p] : p \in H[d].parents}
      <4>1. CASE d = m + 1
        BY <4>1
      <4>2. CASE d # m + 1
        <5>1. d \in 1 .. m
          BY <4>2
        <5> QED
          BY <5>1, <2>1, <4>2 DEF AncestorsUpTo
      <4> QED
        BY <4>1, <4>2
    <3> HIDE DEF g
    <3> QED
      BY <3>3, <3>4
  <2>3. g = [d \in 1 .. m + 1 |-> g[d]]
    OBVIOUS
  <2> HIDE DEF g
  <2>4. AncestorsUpTo(g, H, m + 1)
    BY <2>2, <2>3 DEF AncestorsUpTo
  <2> QED
    BY <2>4
<1> HIDE DEF S
<1>3. 0 .. n \subseteq S
  BY <1>0, <1>1, <1>2, UpTo
<1> QED
  BY <1>0, <1>3 DEF S

\* A commit's ancestors are itself and those of its parents.
LEMMA AncestorsAre ==
  ASSUME NEW H, IsHistory(H), NEW c \in DOMAIN H
  PROVE  Ancestors(H, c) = {c} \cup UNION {Ancestors(H, p) : p \in H[c].parents}
<1> DEFINE anc(n) == CHOOSE f : AncestorsUpTo(f, H, n)
<1>1. ASSUME NEW n \in DOMAIN H PROVE AncestorsUpTo(anc(n), H, n) /\ Ancestors(H, n) = anc(n)[n]
  <2>1. n \in 0 .. Len(H)
    BY CommitType
  <2>2. AncestorsUpTo(anc(n), H, n)
    BY <2>1, AncestorsExist
  <2>3. Ancestors(H, n) = anc(n)[n]
    BY DEF Ancestors, AncestorsUpTo
  <2> QED
    BY <2>2, <2>3
<1> HIDE DEF anc
<1>2. c \in Nat /\ c \in 1 .. c /\ c <= Len(H)
  BY CommitType
<1>3. ASSUME NEW p \in H[c].parents PROVE anc(c)[p] = Ancestors(H, p)
  <2>1. p \in DOMAIN H /\ p \in Nat /\ p <= c /\ p \in 1 .. p
    BY CommitType
  <2>2. \A d \in 1 .. p : anc(p)[d] = anc(c)[d]
    BY <2>1, <1>1, <1>2, AncestorsUnique
  <2> QED
    BY <2>1, <2>2, <1>1
<1>4. anc(c)[c] = {c} \cup UNION {anc(c)[p] : p \in H[c].parents}
  BY <1>1, <1>2 DEF AncestorsUpTo
<1>5. {anc(c)[p] : p \in H[c].parents} = {Ancestors(H, p) : p \in H[c].parents}
  BY <1>3
<1> QED
  BY <1>1, <1>4, <1>5

\* What every commit has whose parents have it, every commit has.
LEMMA HistoryInduction ==
  ASSUME NEW H, IsHistory(H), NEW S,
         \A c \in DOMAIN H : H[c].parents \subseteq S => c \in S
  PROVE  DOMAIN H \subseteq S
<1> DEFINE Bad == {c \in DOMAIN H : c \notin S}
<1> SUFFICES ASSUME Bad # {} PROVE FALSE
  OBVIOUS
<1>1. PICK c \in Bad : \A e \in Bad : c <= e
  <2>1. Bad \in SUBSET Nat
    BY CommitType
  <2> QED
    BY <2>1, LeastNumber
<1>2. \A p \in H[c].parents : p \in DOMAIN H /\ p < c /\ p \in Nat /\ c \in Nat
  BY CommitType
<1>3. H[c].parents \subseteq S
  BY <1>1, <1>2
<1> QED
  BY <1>1, <1>3

\* They come before it.
LEMMA AncestorsType ==
  ASSUME NEW H, IsHistory(H), NEW c \in DOMAIN H
  PROVE  /\ Ancestors(H, c) \subseteq 1 .. c /\ Ancestors(H, c) \subseteq DOMAIN H
         /\ c \in Ancestors(H, c)
<1> DEFINE S == {d \in DOMAIN H : Ancestors(H, d) \subseteq 1 .. d}
<1>1. ASSUME NEW d \in DOMAIN H, H[d].parents \subseteq S PROVE d \in S
  <2>1. \A p \in H[d].parents : Ancestors(H, p) \subseteq 1 .. p /\ p < d /\ p \in Nat /\ d \in Nat
    BY <1>1, CommitType
  <2>2. \A p \in H[d].parents : Ancestors(H, p) \subseteq 1 .. d
    BY <2>1
  <2>3. d \in 1 .. d
    BY CommitType
  <2> QED
    BY <2>2, <2>3, AncestorsAre
<1> HIDE DEF S
<1>2. DOMAIN H \subseteq S
  BY <1>1, HistoryInduction
<1>3. Ancestors(H, c) \subseteq 1 .. c
  BY <1>2 DEF S
<1> QED
  BY <1>3, AncestorsAre, CommitType

\* And theirs are among them.
LEMMA AncestorsTransitive ==
  ASSUME NEW H, IsHistory(H), NEW c \in DOMAIN H, NEW a \in Ancestors(H, c)
  PROVE  Ancestors(H, a) \subseteq Ancestors(H, c)
<1> DEFINE S == {d \in DOMAIN H : \A b \in Ancestors(H, d) : Ancestors(H, b) \subseteq Ancestors(H, d)}
<1>1. ASSUME NEW d \in DOMAIN H, H[d].parents \subseteq S PROVE d \in S
  <2>1. ASSUME NEW b \in Ancestors(H, d) PROVE Ancestors(H, b) \subseteq Ancestors(H, d)
    <3>1. Ancestors(H, d) = {d} \cup UNION {Ancestors(H, p) : p \in H[d].parents}
      BY AncestorsAre
    <3>2. CASE b = d
      BY <3>2
    <3>3. ASSUME NEW p \in H[d].parents, b \in Ancestors(H, p)
          PROVE  Ancestors(H, b) \subseteq Ancestors(H, d)
      <4>1. Ancestors(H, b) \subseteq Ancestors(H, p)
        BY <1>1, <3>3
      <4> QED
        BY <3>1, <4>1
    <3> QED
      BY <3>1, <3>2, <3>3
  <2> QED
    BY <2>1
<1> HIDE DEF S
<1>2. DOMAIN H \subseteq S
  BY <1>1, HistoryInduction
<1> QED
  BY <1>2 DEF S

\* G has the commits of H, and maybe fewer of the parents.
Within(G, H) == DOMAIN G \subseteq DOMAIN H /\ \A c \in DOMAIN G : G[c].parents \subseteq H[c].parents

LEMMA AncestorsMonotone ==
  ASSUME NEW G, IsHistory(G), NEW H, IsHistory(H), Within(G, H), NEW c \in DOMAIN G
  PROVE  Ancestors(G, c) \subseteq Ancestors(H, c)
<1> DEFINE S == {d \in DOMAIN G : Ancestors(G, d) \subseteq Ancestors(H, d)}
<1>1. ASSUME NEW d \in DOMAIN G, G[d].parents \subseteq S PROVE d \in S
  <2>1. d \in DOMAIN H /\ \A p \in G[d].parents : p \in H[d].parents /\ Ancestors(G, p) \subseteq Ancestors(H, p)
    BY <1>1 DEF Within
  <2>2. Ancestors(H, d) = {d} \cup UNION {Ancestors(H, p) : p \in H[d].parents}
    BY <2>1, AncestorsAre
  <2>3. Ancestors(G, d) = {d} \cup UNION {Ancestors(G, p) : p \in G[d].parents}
    BY AncestorsAre
  <2> QED
    BY <2>1, <2>2, <2>3
<1> HIDE DEF S
<1>2. DOMAIN G \subseteq S
  BY <1>1, HistoryInduction
<1> QED
  BY <1>2 DEF S

\* H goes on as G.
Extends(G, H) == IsHistory(G) /\ IsHistory(H) /\ Len(H) <= Len(G) /\ \A c \in DOMAIN H : G[c] = H[c]

\* What is before a commit is settled with it.
LEMMA AncestorsStand ==
  ASSUME NEW G, NEW H, Extends(G, H), NEW c \in DOMAIN H
  PROVE  /\ c \in DOMAIN G /\ DOMAIN H \subseteq DOMAIN G
         /\ Ancestors(G, c) = Ancestors(H, c)
<1> DEFINE S == {d \in DOMAIN H : Ancestors(G, d) = Ancestors(H, d)}
<1>0. DOMAIN H \subseteq DOMAIN G
  BY DEF Extends, IsHistory
<1>1. ASSUME NEW d \in DOMAIN H, H[d].parents \subseteq S PROVE d \in S
  <2>1. d \in DOMAIN G /\ G[d].parents = H[d].parents
    BY <1>0 DEF Extends
  <2>2. Ancestors(H, d) = {d} \cup UNION {Ancestors(H, p) : p \in H[d].parents}
    BY AncestorsAre DEF Extends
  <2>3. Ancestors(G, d) = {d} \cup UNION {Ancestors(G, p) : p \in G[d].parents}
    BY <2>1, AncestorsAre DEF Extends
  <2>4. {Ancestors(G, p) : p \in G[d].parents} = {Ancestors(H, p) : p \in H[d].parents}
    BY <1>1, <2>1
  <2> QED
    BY <2>2, <2>3, <2>4
<1> HIDE DEF S
<1>2. DOMAIN H \subseteq S
  BY <1>1, HistoryInduction DEF Extends
<1> QED
  BY <1>0, <1>2 DEF S

-----------------------------------------------------------------------------
(* Evidence.                                                               *)

\* A merge base is what both have, and nothing that both have comes after it.
LEMMA MergeBaseIs ==
  ASSUME NEW H, IsHistory(H), NEW a \in DOMAIN H, NEW b \in DOMAIN H
  PROVE  LET common == Ancestors(H, a) \cap Ancestors(H, b)
         IN  /\ MergeBase(H, a, b) \in common \cup {0}
             /\ common # {} => MergeBase(H, a, b) \in common
<1> DEFINE common == Ancestors(H, a) \cap Ancestors(H, b)
           best(m) == \A c \in common : IsAncestor(H, m, c) => c = m
<1> SUFFICES ASSUME common # {} PROVE MergeBase(H, a, b) \in common
  BY DEF MergeBase
<1>1. common \in SUBSET (1 .. a) /\ a \in Nat /\ common \subseteq DOMAIN H
  BY AncestorsType, CommitType
<1>2. PICK m \in common : \A c \in common : c <= m
  <2>1. common \in SUBSET Nat /\ \A c \in common : c <= a
    BY <1>1
  <2> HIDE DEF common
  <2> QED
    BY <1>1, <2>1, GreatestNumber
<1>3. best(m)
  <2>1. ASSUME NEW c \in common, IsAncestor(H, m, c) PROVE c = m
    <3>1. c \in Nat /\ m \in Nat /\ c <= m
      BY <1>1, <1>2
    <3>2. m \in 1 .. c
      BY <1>1, <2>1, AncestorsType DEF IsAncestor
    <3> QED
      BY <3>1, <3>2
  <2> QED
    BY <2>1
<1>4. MergeBase(H, a, b) = CHOOSE x \in common : best(x)
  BY DEF MergeBase
<1> HIDE DEF common, best
<1> QED
  BY <1>2, <1>3, <1>4

LEMMA MergeBaseStands ==
  ASSUME NEW G, NEW H, Extends(G, H), NEW a \in DOMAIN H, NEW b \in DOMAIN H
  PROVE  MergeBase(G, a, b) = MergeBase(H, a, b)
<1> DEFINE common == Ancestors(H, a) \cap Ancestors(H, b)
<1>1. common = Ancestors(G, a) \cap Ancestors(G, b)
  BY AncestorsStand
<1>2. common \subseteq DOMAIN H
  BY AncestorsType DEF Extends
<1>3. \A m, c \in common : IsAncestor(G, m, c) <=> IsAncestor(H, m, c)
  BY <1>2, AncestorsStand DEF IsAncestor
<1> HIDE DEF common
<1>4. \A m \in common : (\A c \in common : IsAncestor(G, m, c) => c = m)
                    <=> (\A c \in common : IsAncestor(H, m, c) => c = m)
  BY <1>3
<1> DEFINE first(K) == CHOOSE m \in common : \A c \in common : IsAncestor(K, m, c) => c = m
<1>5. first(G) = first(H)
  BY <1>4
<1>6. MergeBase(G, a, b) = IF common = {} THEN 0 ELSE first(G)
  BY <1>1 DEF MergeBase
<1>7. MergeBase(H, a, b) = IF common = {} THEN 0 ELSE first(H)
  BY DEF MergeBase, common
<1> HIDE DEF first
<1> QED
  BY <1>5, <1>6, <1>7

LEMMA SegmentType ==
  ASSUME NEW H, IsHistory(H), NEW base, NEW tip \in DOMAIN H
  PROVE  /\ Segment(H, base, tip) \subseteq Ancestors(H, tip)
         /\ Segment(H, base, tip) \subseteq DOMAIN H
BY AncestorsType DEF Segment

LEMMA SegmentStands ==
  ASSUME NEW G, NEW H, Extends(G, H), NEW base \in DOMAIN H \cup {0}, NEW tip \in DOMAIN H
  PROVE  Segment(G, base, tip) = Segment(H, base, tip)
BY AncestorsStand DEF Segment

LEMMA PatchStands ==
  ASSUME NEW G, NEW H, Extends(G, H), NEW c \in DOMAIN H
  PROVE  PatchID(G, c) = PatchID(H, c)
<1>1. G[c] = H[c]
  BY DEF Extends
<1>2. ASSUME NEW p \in H[c].parents PROVE G[p] = H[p]
  BY CommitType DEF Extends
<1>3. {G[p].tree : p \in G[c].parents} = {H[p].tree : p \in H[c].parents}
  BY <1>1, <1>2
<1> QED
  BY <1>1, <1>3 DEF PatchID

LEMMA TellingStands ==
  ASSUME NEW G, NEW H, Extends(G, H), NEW tip \in DOMAIN H, NEW other \in DOMAIN H
  PROVE  Telling(G, tip, other) = Telling(H, tip, other)
<1>1. MergeBase(G, tip, other) = MergeBase(H, tip, other)
  BY MergeBaseStands
<1>2. MergeBase(H, tip, other) \in DOMAIN H \cup {0}
  BY MergeBaseIs, AncestorsType DEF Extends
<1>3. MergeBase(H, tip, other) # 0
        => RangePatchID(G, MergeBase(H, tip, other), tip) = RangePatchID(H, MergeBase(H, tip, other), tip)
  BY <1>2 DEF RangePatchID, Extends
<1> QED
  BY <1>1, <1>3 DEF Telling

\* Whether a line has landed as one commit is settled with the two commits.
LEMMA SquashStands ==
  ASSUME NEW G, NEW H, Extends(G, H), NEW tip \in DOMAIN H, NEW target \in DOMAIN H
  PROVE  AttemptSquash(G, tip, target) = AttemptSquash(H, tip, target)
<1> DEFINE mb == MergeBase(H, tip, target)
           matches(K) == {c \in Segment(H, mb, target) : PatchID(K, c) = RangePatchID(K, mb, tip)}
<1>1. MergeBase(G, tip, target) = mb
  BY MergeBaseStands
<1>2. mb \in DOMAIN H \cup {0}
  BY MergeBaseIs, AncestorsType DEF Extends
<1>3. Segment(G, mb, target) = Segment(H, mb, target) /\ Segment(H, mb, target) \subseteq DOMAIN H
  BY <1>2, SegmentStands, SegmentType DEF Extends
<1>4. Telling(G, tip, target) = Telling(H, tip, target)
  BY TellingStands
<1>5. ASSUME Telling(H, tip, target) PROVE matches(G) = matches(H)
  <2>1. mb # 0
    BY <1>5 DEF Telling
  <2>2. RangePatchID(G, mb, tip) = RangePatchID(H, mb, tip)
    BY <1>2, <2>1 DEF RangePatchID, Extends
  <2>3. \A c \in Segment(H, mb, target) : PatchID(G, c) = PatchID(H, c)
    BY <1>3, PatchStands
  <2> HIDE DEF mb
  <2> QED
    BY <2>2, <2>3
<1>6. AttemptSquash(G, tip, target)
        = IF Telling(H, tip, target) /\ Cardinality(matches(G)) = 1 THEN matches(G) ELSE {}
  BY <1>1, <1>3, <1>4 DEF AttemptSquash
<1>7. AttemptSquash(H, tip, target)
        = IF Telling(H, tip, target) /\ Cardinality(matches(H)) = 1 THEN matches(H) ELSE {}
  BY DEF AttemptSquash
<1> HIDE DEF matches
<1> QED
  BY <1>5, <1>6, <1>7

-----------------------------------------------------------------------------
(* Sequences.                                                              *)

\* The elements of a sequence are of what the sequence is of.
LEMMA EltType ==
  ASSUME NEW S, NEW c \in Seq(S), NEW i \in DOMAIN c
  PROVE  c[i] \in S /\ Len(c) \in Nat /\ DOMAIN c = 1 .. Len(c)
OBVIOUS

LEMMA IsSeq ==
  ASSUME NEW S, NEW n \in Nat, NEW f \in [1 .. n -> S]
  PROVE  f \in Seq(S) /\ Len(f) = n /\ DOMAIN f = 1 .. n
OBVIOUS

LEMMA ConcatType ==
  ASSUME NEW S, NEW s \in Seq(S), NEW t \in Seq(S)
  PROVE  s \o t \in Seq(S)
OBVIOUS

LEMMA ConcatIs ==
  ASSUME NEW S, NEW s \in Seq(S), NEW t \in Seq(S)
  PROVE  /\ Len(s) \in Nat /\ DOMAIN s = 1 .. Len(s) /\ Len(t) \in Nat
         /\ Len(s \o t) = Len(s) + Len(t) /\ DOMAIN (s \o t) = 1 .. Len(s) + Len(t)
         /\ \A p \in 1 .. Len(s) : (s \o t)[p] = s[p]
         /\ \A r \in 1 .. Len(t) : (s \o t)[Len(s) + r] = t[r]
OBVIOUS

LEMMA AppendType ==
  ASSUME NEW S, NEW s \in Seq(S), NEW x \in S
  PROVE  Append(s, x) \in Seq(S)
OBVIOUS

LEMMA SetToSeqType ==
  ASSUME NEW S, IsFiniteSet(S)
  PROVE  /\ SetToSeq(S) \in [1 .. Cardinality(S) -> S]
         /\ SetToSeq(S) \in Seq(S) /\ DOMAIN SetToSeq(S) = 1 .. Cardinality(S)
<1>1. Cardinality(S) \in Nat
  BY Counting
<1>2. PICK f \in [1 .. Cardinality(S) -> S] : IsInjective(f)
  BY Counting DEF IsInjective
<1>3. SetToSeq(S) \in [1 .. Cardinality(S) -> S]
  BY <1>2 DEF SetToSeq
<1> QED
  BY <1>1, <1>3, IsSeq

\* What is flattened is put together one sequence after the other.
LEMMA FlattenSteps ==
  ASSUME NEW X, NEW seqs \in Seq(Seq(X))
  PROVE  \E g \in [0 .. Len(seqs) -> Seq(X)] :
           /\ g[0] = <<>> /\ \A d \in 0 .. Len(seqs) - 1 : g[d + 1] = g[d] \o seqs[d + 1]
           /\ FlattenSeq(seqs) = g[Len(seqs)]
<1> DEFINE T == Seq(X)
           N == Len(seqs)
           Folded(f) == f = [i \in 1 .. N |-> IF i = 1 THEN seqs[i] ELSE f[i - 1] \o seqs[i]]
<1>1. CASE N = 0
  <2>1. seqs = <<>> /\ <<>> \in T
    BY <1>1
  <2> DEFINE g == [d \in 0 .. 0 |-> <<>>]
  <2>2. FlattenSeq(seqs) = <<>>
    BY <1>1, <2>1 DEF FlattenSeq
  <2>3. g[0] = <<>> /\ 0 .. 0 - 1 = {}
    OBVIOUS
  <2> HIDE DEF T
  <2>4. g \in [0 .. N -> T]
    BY <1>1, <2>1
  <2> HIDE DEF g
  <2> QED
    BY <1>1, <2>2, <2>3, <2>4 DEF T
<1>2. CASE N # 0
  <2>1. N \in Nat /\ N - 1 \in Nat /\ \A i \in 1 .. N : seqs[i] \in T
    <3> HIDE DEF T
    <3> QED
      BY <1>2 DEF T
  <2> DEFINE step == [d \in Nat |-> [s \in T |-> IF d + 2 \in 1 .. N THEN s \o seqs[d + 2] ELSE s]]
  <2>2. step \in [Nat -> [T -> T]]
    <3>1. ASSUME NEW d \in Nat, NEW s \in T, d + 2 \in 1 .. N PROVE s \o seqs[d + 2] \in T
      <4>1. seqs[d + 2] \in T
        BY <2>1, <3>1
      <4> QED
        BY <4>1, ConcatType
    <3> HIDE DEF T
    <3> QED
      BY <3>1
  <2>3. seqs[1] \in T
    BY <2>1
  <2> HIDE DEF step, N, T
  <2>4. PICK w : Iterates(w, N - 1, T, seqs[1], step)
    BY <2>1, <2>2, <2>3, IterationExists
  <2> DEFINE f == [i \in 1 .. N |-> w[i - 1]]
  <2>5. w \in [0 .. N - 1 -> T] /\ w[0] = seqs[1]
        /\ \A d \in 0 .. N - 1 - 1 : w[d + 1] = step[d][w[d]]
    BY <2>4 DEF Iterates
  <2>6. \A i \in 1 .. N : f[i] = IF i = 1 THEN seqs[i] ELSE f[i - 1] \o seqs[i]
    <3>1. ASSUME NEW i \in 1 .. N, i # 1 PROVE f[i] = f[i - 1] \o seqs[i]
      <4>1. i - 2 \in 0 .. N - 1 - 1 /\ i - 2 \in Nat /\ i - 1 \in 1 .. N /\ i - 2 \in 0 .. N - 1
            /\ i - 2 + 2 = i /\ i - 2 + 1 = i - 1 /\ i - 1 - 1 = i - 2
        BY <2>1, <3>1
      <4>2. w[i - 1] = step[i - 2][w[i - 2]] /\ w[i - 2] \in T
        BY <2>5, <4>1
      <4>3. step[i - 2][w[i - 2]] = w[i - 2] \o seqs[i]
        BY <4>1, <4>2 DEF step
      <4>4. f[i - 1] = w[i - 2] /\ f[i] = w[i - 1]
        BY <4>1
      <4> QED
        BY <4>2, <4>3, <4>4
    <3>2. ASSUME NEW i \in 1 .. N, i = 1 PROVE f[i] = seqs[i]
      BY <2>5, <3>2
    <3> HIDE DEF f
    <3> QED
      BY <3>1, <3>2
  <2>7. f = [i \in 1 .. N |-> f[i]]
    OBVIOUS
  <2> HIDE DEF f
  <2>8. Folded(f)
    BY <2>6, <2>7
  <2> DEFINE flat == CHOOSE g : Folded(g)
  <2>9. Folded(flat)
    BY <2>8
  <2>10. FlattenSeq(seqs) = flat[N]
    BY <1>2 DEF FlattenSeq, N
  <2> HIDE DEF flat
  <2> DEFINE S == {d \in 0 .. N - 1 : flat[d + 1] \in T}
  <2>11. 0 \in S
    BY <2>1, <2>3, <2>9
  <2>12. ASSUME NEW d \in 0 .. N - 1 - 1, d \in S PROVE d + 1 \in S
    <3>1. d + 2 \in 1 .. N /\ d + 2 # 1 /\ d + 2 - 1 = d + 1 /\ d + 1 \in 0 .. N - 1 /\ d + 1 + 1 = d + 2
      BY <2>1
    <3>2. flat[d + 2] = flat[d + 1] \o seqs[d + 2]
      <4>1. PICK i \in 1 .. N : i = d + 2 /\ i # 1 /\ i - 1 = d + 1
        BY <3>1
      <4>2. flat[i] = IF i = 1 THEN seqs[i] ELSE flat[i - 1] \o seqs[i]
        BY <2>9
      <4> QED
        BY <4>1, <4>2
    <3>3. seqs[d + 2] \in T /\ flat[d + 1] \in T
      BY <2>1, <2>12, <3>1
    <3>4. flat[d + 2] \in T
      BY <3>2, <3>3, ConcatType DEF T
    <3> QED
      BY <3>1, <3>4
  <2> HIDE DEF S
  <2>13. 0 .. N - 1 \subseteq S
    BY <2>1, <2>11, <2>12, UpTo
  <2> DEFINE g == [d \in 0 .. N |-> IF d = 0 THEN <<>> ELSE flat[d]]
  <2>14. \A i \in 1 .. N : flat[i] \in T
    <3>1. ASSUME NEW i \in 1 .. N PROVE flat[i] \in T
      <4>1. i - 1 \in 0 .. N - 1 /\ i - 1 + 1 = i
        BY <2>1
      <4> QED
        BY <2>13, <4>1 DEF S
    <3> QED
      BY <3>1
  <2>15. g \in [0 .. N -> T]
    <3>1. <<>> \in T
      BY DEF T
    <3>2. \A d \in 0 .. N : d = 0 \/ d \in 1 .. N
      BY <2>1
    <3> QED
      BY <2>14, <3>1, <3>2
  <2>16. ASSUME NEW d \in 0 .. N - 1 PROVE g[d + 1] = g[d] \o seqs[d + 1]
    <3>1. d + 1 \in 1 .. N /\ d + 1 # 0 /\ d \in 0 .. N /\ d + 1 \in 0 .. N /\ d + 1 - 1 = d
      BY <2>1
    <3>2. g[d + 1] = flat[d + 1]
      BY <3>1
    <3>3. PICK i \in 1 .. N : i = d + 1
      BY <3>1
    <3>4. flat[i] = IF i = 1 THEN seqs[i] ELSE flat[i - 1] \o seqs[i]
      BY <2>9
    <3>5. CASE d = 0
      <4>1. g[d] = <<>> /\ i = 1 /\ flat[i] = seqs[i] /\ seqs[i] \in Seq(X)
        BY <2>1, <3>3, <3>4, <3>5 DEF T
      <4>2. <<>> \o seqs[i] = seqs[i]
        BY <4>1
      <4> QED
        BY <3>2, <3>3, <4>1, <4>2
    <3>6. CASE d # 0
      <4>1. g[d] = flat[d] /\ i # 1 /\ i - 1 = d
        BY <3>1, <3>3, <3>6
      <4> QED
        BY <3>2, <3>3, <3>4, <4>1
    <3> QED
      BY <3>5, <3>6
  <2>17. g[0] = <<>> /\ g[N] = flat[N]
    BY <1>2, <2>1
  <2> HIDE DEF g, N, T
  <2> QED
    BY <2>10, <2>15, <2>16, <2>17 DEF N, T
<1> QED
  BY <1>1, <1>2

LEMMA FlattenType ==
  ASSUME NEW X, NEW seqs \in Seq(Seq(X))
  PROVE  FlattenSeq(seqs) \in Seq(X)
<1> DEFINE N == Len(seqs)
           T == Seq(X)
<1>1. N \in Nat
  OBVIOUS
<1>2. PICK g \in [0 .. N -> T] : FlattenSeq(seqs) = g[N]
  BY FlattenSteps
<1> HIDE DEF T
<1>3. g[N] \in T
  BY <1>1
<1> QED
  BY <1>2, <1>3 DEF T

Begins(s, t) == Len(t) <= Len(s) /\ \A p \in DOMAIN t : s[p] = t[p]

LEMMA BeginsMore ==
  ASSUME NEW X, NEW s \in Seq(X), NEW t \in Seq(X), NEW u \in Seq(X), Begins(s, t)
  PROVE  Begins(s \o u, t)
<1>1. /\ Len(s) \in Nat /\ Len(t) \in Nat /\ Len(u) \in Nat /\ DOMAIN t = 1 .. Len(t)
      /\ Len(t) <= Len(s)
  BY DEF Begins
<1>2. Len(s \o u) = Len(s) + Len(u)
  OBVIOUS
<1>3. ASSUME NEW p \in DOMAIN t PROVE (s \o u)[p] = t[p]
  <2>1. p \in 1 .. Len(s)
    BY <1>1
  <2>2. (s \o u)[p] = s[p]
    BY <2>1
  <2> QED
    BY <2>2 DEF Begins
<1> QED
  BY <1>1, <1>2, <1>3 DEF Begins

\* A is what comes before the k-th sequence.
Around(A, seqs, k) ==
  /\ Begins(FlattenSeq(seqs), A \o seqs[k])
  /\ \A p \in DOMAIN A : \E m \in 1 .. k - 1 : \E q \in DOMAIN seqs[m] : A[p] = seqs[m][q]

\* Before one of the sequences comes what is of those before it.
LEMMA FlattenAround ==
  ASSUME NEW X, NEW seqs \in Seq(Seq(X)), NEW k \in DOMAIN seqs
  PROVE  \E A \in Seq(X) : Around(A, seqs, k)
<1> DEFINE N == Len(seqs)
           T == Seq(X)
<1>1. N \in Nat /\ k \in 1 .. N /\ \A i \in 1 .. N : seqs[i] \in T
  <2> HIDE DEF T
  <2> QED
    BY DEF T
<1>2. PICK g \in [0 .. N -> T] :
        /\ g[0] = <<>> /\ \A d \in 0 .. N - 1 : g[d + 1] = g[d] \o seqs[d + 1]
        /\ FlattenSeq(seqs) = g[N]
  BY FlattenSteps
<1> DEFINE From(s, n) == \A p \in DOMAIN s : \E m \in 1 .. n : \E q \in DOMAIN seqs[m] : s[p] = seqs[m][q]
           S == {n \in 0 .. N : From(g[n], n)}
           R == {n \in 0 .. N : n >= k => Begins(g[n], g[k - 1] \o seqs[k])}
<1> HIDE DEF N
<1>3. 0 .. N \subseteq S
  <2>1. 0 \in S
    BY <1>1, <1>2
  <2>2. ASSUME NEW d \in 0 .. N - 1, d \in S PROVE d + 1 \in S
    <3>1. d + 1 \in 1 .. N /\ d + 1 \in 0 .. N /\ d \in 0 .. N /\ 1 .. d \subseteq 1 .. d + 1
      BY <1>1
    <3>2. PICK s : s = g[d] /\ s \in T
      BY <1>2, <3>1
    <3>3. PICK t : t = seqs[d + 1] /\ t \in T
      BY <1>1, <3>1
    <3>4. g[d + 1] = s \o t
      BY <1>2, <3>2, <3>3
    <3>5. ASSUME NEW p \in DOMAIN (s \o t)
          PROVE  \/ p \in DOMAIN s /\ (s \o t)[p] = s[p]
                 \/ \E q \in DOMAIN t : (s \o t)[p] = t[q]
      <4>1. s \in Seq(X) /\ t \in Seq(X)
        BY <3>2, <3>3
      <4>2. Len(s) \in Nat /\ Len(t) \in Nat /\ DOMAIN s = 1 .. Len(s) /\ DOMAIN t = 1 .. Len(t)
            /\ p \in 1 .. Len(s) + Len(t)
        BY <4>1
      <4>3. CASE p <= Len(s)
        BY <4>1, <4>2, <4>3
      <4>4. CASE ~(p <= Len(s))
        <5>1. p - Len(s) \in DOMAIN t /\ (s \o t)[p] = t[p - Len(s)]
          BY <4>1, <4>2, <4>4
        <5> QED
          BY <5>1
      <4> QED
        BY <4>3, <4>4
    <3>6. From(s, d)
      BY <2>2, <3>2
    <3>7. From(s \o t, d + 1)
      <4>1. ASSUME NEW p \in DOMAIN (s \o t)
            PROVE  \E m \in 1 .. d + 1 : \E q \in DOMAIN seqs[m] : (s \o t)[p] = seqs[m][q]
        <5>1. CASE p \in DOMAIN s /\ (s \o t)[p] = s[p]
          <6>1. PICK m \in 1 .. d : \E q \in DOMAIN seqs[m] : s[p] = seqs[m][q]
            BY <3>6, <5>1
          <6>2. m \in 1 .. d + 1
            BY <3>1
          <6> QED
            BY <5>1, <6>1, <6>2
        <5>2. CASE \E q \in DOMAIN t : (s \o t)[p] = t[q]
          <6>1. d + 1 \in 1 .. d + 1
            BY <3>1
          <6> QED
            BY <3>3, <5>2, <6>1
        <5> QED
          BY <3>5, <5>1, <5>2
      <4> QED
        BY <4>1
    <3> HIDE DEF From
    <3> QED
      BY <3>1, <3>4, <3>7
  <2> HIDE DEF S
  <2> QED
    BY <1>1, <2>1, <2>2, UpTo
<1>4. k - 1 \in 0 .. N /\ k - 1 \in 0 .. N - 1 /\ k - 1 + 1 = k /\ N >= k
  BY <1>1
<1>5. From(g[k - 1], k - 1) /\ g[k - 1] \in T /\ seqs[k] \in T
  BY <1>1, <1>2, <1>3, <1>4
<1> HIDE DEF From, S
<1>6. 0 .. N \subseteq R
  <2>1. 0 \in R
    BY <1>1
  <2>2. ASSUME NEW d \in 0 .. N - 1, d \in R PROVE d + 1 \in R
    <3>1. d + 1 \in 1 .. N /\ d + 1 \in 0 .. N /\ d \in 0 .. N /\ d \in Nat /\ k \in Nat
      BY <1>1
    <3>2. g[d + 1] = g[d] \o seqs[d + 1] /\ seqs[d + 1] \in T
      BY <1>1, <1>2, <3>1
    <3>3. CASE d + 1 < k
      BY <1>1, <3>1, <3>3
    <3>4. CASE d + 1 = k
      <4>1. d = k - 1
        BY <3>1, <3>4
      <4>2. g[k] = g[k - 1] \o seqs[k]
        BY <3>2, <3>4, <4>1
      <4>3. PICK s : s = g[k - 1] \o seqs[k] /\ s \in Seq(X)
        BY <1>5, ConcatType
      <4>4. Begins(s, s)
        BY <4>3 DEF Begins
      <4> HIDE DEF T
      <4> QED
        BY <3>1, <3>4, <4>2, <4>3, <4>4
    <3>5. CASE d >= k
      <4>1. PICK s : s = g[k - 1] \o seqs[k] /\ s \in Seq(X)
        BY <1>5, ConcatType
      <4>2. PICK t : t = seqs[d + 1] /\ t \in Seq(X)
        BY <3>2
      <4>3. PICK r : r = g[d] /\ r \in Seq(X)
        BY <1>2, <3>1
      <4>4. Begins(r, s)
        BY <2>2, <3>5, <4>1, <4>3
      <4>5. Begins(r \o t, s)
        BY <4>1, <4>2, <4>3, <4>4, BeginsMore
      <4>6. g[d + 1] = r \o t
        BY <3>2, <4>2, <4>3
      <4> HIDE DEF T
      <4> QED
        BY <3>1, <4>1, <4>5, <4>6
    <3>6. d + 1 < k \/ d + 1 = k \/ d >= k
      BY <3>1
    <3> HIDE DEF R
    <3> QED
      BY <3>3, <3>4, <3>5, <3>6
  <2> HIDE DEF R, T
  <2> QED
    BY <1>1, <2>1, <2>2, UpTo
<1>7. N \in 0 .. N
  BY <1>1
<1>8. Begins(g[N], g[k - 1] \o seqs[k])
  BY <1>4, <1>6, <1>7
<1>9. PICK A : A = g[k - 1]
  OBVIOUS
<1>10. Begins(FlattenSeq(seqs), A \o seqs[k])
  BY <1>2, <1>8, <1>9
<1>11. A \in Seq(X) /\ From(A, k - 1)
  BY <1>5, <1>9
<1>12. Around(A, seqs, k)
  BY <1>10, <1>11 DEF From, Around
<1> QED
  BY <1>11, <1>12

\* A set of numbers in their order.
LEMMA InOrderType ==
  ASSUME NEW S \in SUBSET Nat, IsFiniteSet(S)
  PROVE  /\ InOrder(S) \in [1 .. Cardinality(S) -> S] /\ Cardinality(S) \in Nat
         /\ InOrder(S) \in Seq(S) /\ DOMAIN InOrder(S) = 1 .. Cardinality(S)
<1>0. PICK key \in [S -> Nat] : \A x \in S : key[x] = x
  <2> DEFINE id == [x \in S |-> x]
  <2>1. id \in [S -> Nat] /\ \A x \in S : id[x] = x
    OBVIOUS
  <2> QED
    BY <2>1
<1>1. \A a, b \in S : key[a] = key[b] => a = b
  BY <1>0
<1>2. \A e \in S : {d \in S : key[d] < key[e]} = {d \in S : d < e}
  BY <1>0
<1>3. \A e \in S : Rank(S, key)[e] = Cardinality({d \in S : d < e})
  BY <1>2 DEF Rank
<1>4. \A i \in 0 .. Cardinality(S) - 1 : \E e \in S : Cardinality({d \in S : d < e}) = i
  <2>1. \A i \in 0 .. Cardinality(S) - 1 : \E e \in S : Rank(S, key)[e] = i
    BY <1>1, EveryRank
  <2>2. ASSUME NEW i \in 0 .. Cardinality(S) - 1
        PROVE  \E e \in S : Cardinality({d \in S : d < e}) = i
    <3>1. PICK e \in S : Rank(S, key)[e] = i
      BY <2>1
    <3>2. Cardinality({d \in S : d < e}) = i
      BY <3>1, <1>3
    <3> QED
      BY <3>2
  <2> QED
    BY <2>2
<1>5. Cardinality(S) \in Nat
  BY FS_CardinalityType
<1>6. ASSUME NEW i \in 1 .. Cardinality(S)
      PROVE  (CHOOSE c \in S : Cardinality({d \in S : d < c}) = i - 1) \in S
  <2>1. i - 1 \in 0 .. Cardinality(S) - 1
    BY <1>5
  <2>2. \E e \in S : Cardinality({d \in S : d < e}) = i - 1
    BY <1>4, <2>1
  <2> QED
    BY <2>2
<1>7. InOrder(S) \in [1 .. Cardinality(S) -> S]
  BY <1>6 DEF InOrder
<1> QED
  BY <1>5, <1>7, IsSeq

\* All of them, the smaller before the greater.
LEMMA InOrderSorts ==
  ASSUME NEW S \in SUBSET Nat, IsFiniteSet(S)
  PROVE  /\ \A x \in S : \E k \in DOMAIN InOrder(S) : InOrder(S)[k] = x
         /\ \A k, l \in DOMAIN InOrder(S) : k < l => InOrder(S)[k] < InOrder(S)[l]
<1> DEFINE below(e) == Cardinality({d \in S : d < e})
           N == Cardinality(S)
<1>0. PICK key \in [S -> Nat] : \A x \in S : key[x] = x
  <2> DEFINE id == [x \in S |-> x]
  <2>1. id \in [S -> Nat] /\ \A x \in S : id[x] = x
    OBVIOUS
  <2> QED
    BY <2>1
<1>1. \A a, b \in S : key[a] = key[b] => a = b
  BY <1>0
<1>2. ASSUME NEW e \in S PROVE Rank(S, key)[e] = below(e)
  <2>1. {d \in S : key[d] < key[e]} = {d \in S : d < e}
    BY <1>0
  <2> QED
    BY <2>1 DEF Rank
<1>3. /\ Rank(S, key) \in [S -> 0 .. N - 1]
      /\ \A a, b \in S : key[a] < key[b] => Rank(S, key)[a] < Rank(S, key)[b]
      /\ \A a, b \in S : Rank(S, key)[a] = Rank(S, key)[b] => a = b
      /\ \A i \in 0 .. N - 1 : \E e \in S : Rank(S, key)[e] = i
  <2>1. Rank(S, key) \in [S -> 0 .. N - 1]
    BY <1>1, Ranks, Zenon
  <2>2. \A a, b \in S : key[a] < key[b] => Rank(S, key)[a] < Rank(S, key)[b]
    BY <1>1, Ranks, Zenon
  <2>3. \A a, b \in S : Rank(S, key)[a] = Rank(S, key)[b] => a = b
    BY <1>1, Ranks, Zenon
  <2>4. \A i \in 0 .. N - 1 : \E e \in S : Rank(S, key)[e] = i
    BY <1>1, EveryRank
  <2> QED
    BY <2>1, <2>2, <2>3, <2>4
<1>4. N \in Nat /\ DOMAIN InOrder(S) = 1 .. N /\ InOrder(S) \in [1 .. N -> S]
  BY InOrderType
<1> HIDE DEF below
<1>5. /\ \A a \in S : below(a) \in 0 .. N - 1
      /\ \A a, b \in S : a < b => below(a) < below(b)
      /\ \A a, b \in S : below(a) = below(b) => a = b
      /\ \A i \in 0 .. N - 1 : \E e \in S : below(e) = i
  BY <1>0, <1>2, <1>3
<1>6. ASSUME NEW k \in 1 .. N PROVE below(InOrder(S)[k]) = k - 1
  <2>1. k - 1 \in 0 .. N - 1
    BY <1>4
  <2>2. \E e \in S : below(e) = k - 1
    BY <1>5, <2>1
  <2>3. InOrder(S)[k] = CHOOSE c \in S : below(c) = k - 1
    BY DEF InOrder, below, N
  <2> QED
    BY <2>2, <2>3
<1> HIDE DEF N
<1>7. ASSUME NEW x \in S PROVE \E k \in 1 .. N : InOrder(S)[k] = x
  <2>1. below(x) + 1 \in 1 .. N
    BY <1>4, <1>5
  <2>2. PICK k \in 1 .. N : k = below(x) + 1
    BY <2>1
  <2>3. below(InOrder(S)[k]) = below(x) /\ InOrder(S)[k] \in S
    BY <1>4, <1>5, <1>6, <2>2
  <2> QED
    BY <1>5, <2>3
<1>8. ASSUME NEW k \in 1 .. N, NEW l \in 1 .. N, k < l PROVE InOrder(S)[k] < InOrder(S)[l]
  <2>1. PICK x \in S, y \in S : x = InOrder(S)[k] /\ y = InOrder(S)[l]
    BY <1>4
  <2>2. below(x) < below(y) /\ below(x) \in Nat /\ below(y) \in Nat
    BY <1>4, <1>6, <1>8, <2>1
  <2>3. ~(y < x) /\ x # y
    BY <1>5, <2>2
  <2> QED
    BY <2>1, <2>3
<1> QED
  BY <1>4, <1>7, <1>8

-----------------------------------------------------------------------------
(* The invariant of git and of what a pass keeps.                          *)

Commits == DOMAIN commits
Pair == [old : Commits, new : Commits]
Move == [how : {"commit", "reset", "rebase", "amend"}, old : Commits, new : Commits]
Verdict == [as : Commits \cup {0}, by : {"m1", "m2", "m3", "m5"}]

\* Verdicts are about commits.
VerdictsType(v) == v \in [DOMAIN v -> Verdict] /\ DOMAIN v \subseteq Commits

GitType ==
  /\ IsHistory(commits)
  /\ tips \in [Branches -> Commits]
  /\ remotes \in [{"main", "topic"} -> Commits]
  /\ head \in Branches
  /\ reflog \in [Branches -> Seq(Move)]
  /\ rewrites \subseteq Commits \X Commits

StoreType ==
  /\ noted \subseteq Commits
  /\ VerdictsType(verdict)
  /\ nomatch \subseteq Commits \X Commits
  /\ tried \subseteq Commits \X Commits
  /\ judged \in Nat

SessionType ==
  /\ session.pairs \subseteq Pair /\ IsFiniteSet(session.pairs)
  /\ session # NoSession => session.head \in Commits

\* A reflog says of a line that it was rewritten only when it was.
ReflogInv ==
  \A b \in Branches : \A i \in DOMAIN reflog[b] :
    reflog[b][i].how \in {"rebase", "amend"} => <<reflog[b][i].old, reflog[b][i].new>> \in rewrites

\* What was bound by m1 was on a line that was rewritten.
RewriteBound(v) ==
  \A o \in DOMAIN v : v[o].by = "m1" =>
    \E p \in rewrites : p[2] = v[o].as /\ IsAncestor(commits, o, p[1])

\* An attempt that is remembered, and was no m2, fails as an m3 forever after.
FailsAlways(p) == AttemptSquash(commits, p[1], p[2]) = {}

MemoInv ==
  /\ tried \subseteq nomatch
  /\ \A p \in nomatch \ tried : FailsAlways(p)
  /\ nomatch # {} => qualified

\* The inductive invariant.
MInv == GitType /\ StoreType /\ SessionType /\ ReflogInv /\ RewriteBound(verdict) /\ MemoInv

\* What dm sees of the history is a history, and the whole of it once the clone
\* is not shallow.
LEMMA HistoryIs ==
  ASSUME IsHistory(commits)
  PROVE  /\ IsHistory(History) /\ DOMAIN History = Commits /\ Within(History, commits)
         /\ qualified => History = commits
<1> DEFINE C == [parents : SUBSET Nat, tree : SUBSET Change]
<1>1. Len(commits) \in Nat /\ DOMAIN commits = 1 .. Len(commits)
      /\ commits = [c \in DOMAIN commits |-> commits[c]]
  BY DEF IsHistory
<1>2. ASSUME NEW c \in DOMAIN commits
      PROVE  History[c] \in C /\ History[c].parents \subseteq commits[c].parents
  <2>1. commits[c].parents \in SUBSET (1 .. c - 1) /\ commits[c].tree \in SUBSET Change
        /\ commits[c] = [parents |-> commits[c].parents, tree |-> commits[c].tree] /\ c \in Nat
    BY CommitType
  <2>2. commits[c].parents \in SUBSET Nat
    BY <2>1
  <2>3. History[c] = IF c \in cut THEN [parents |-> {}, tree |-> commits[c].tree] ELSE commits[c]
    <3>1. History[c] = IF c \in cut THEN [commits[c] EXCEPT !.parents = {}] ELSE commits[c]
      BY DEF History
    <3>2. PICK ps, tree : commits[c] = [parents |-> ps, tree |-> tree]
      BY <2>1
    <3>3. [commits[c] EXCEPT !.parents = {}] = [parents |-> {}, tree |-> commits[c].tree]
      BY <3>2
    <3> QED
      BY <3>1, <3>3
  <2> QED
    BY <2>1, <2>2, <2>3
<1>3. DOMAIN History = DOMAIN commits /\ History = [c \in DOMAIN commits |-> History[c]]
  BY DEF History
<1> HIDE DEF C
<1>4. History \in Seq(C)
  BY <1>1, <1>2, <1>3, IsSeq
<1>5. \A c \in DOMAIN History : History[c].parents \subseteq 1 .. c - 1
  BY <1>2, <1>3, CommitType
<1>6. qualified => \A c \in DOMAIN commits : History[c] = commits[c]
  BY DEF qualified, History
<1>7. qualified => History = commits
  BY <1>1, <1>3, <1>6
<1> QED
  BY <1>2, <1>3, <1>4, <1>5, <1>7 DEF IsHistory, Within, C, Commits

LEMMA FiniteCommits ==
  ASSUME IsHistory(commits), NEW S \in SUBSET Commits
  PROVE  IsFiniteSet(S) /\ S \in SUBSET Nat /\ Cardinality(S) \in Nat
<1>1. Len(commits) \in Nat /\ Commits = 1 .. Len(commits)
  BY DEF IsHistory, Commits
<1>2. IsFiniteSet(1 .. Len(commits))
  BY <1>1, FS_Interval
<1>3. S \in SUBSET (1 .. Len(commits)) /\ S \in SUBSET Nat
  BY <1>1
<1>4. IsFiniteSet(S)
  BY <1>2, <1>3, FS_Subset
<1> QED
  BY <1>3, <1>4, Counting

LEMMA TipsType ==
  ASSUME GitType
  PROVE  Tip \in Commits /\ RefTips \subseteq Commits /\ remotes["main"] \in Commits
         /\ remotes["topic"] \in Commits
BY DEF GitType, Tip, RefTips

-----------------------------------------------------------------------------
(* A pass.                                                                 *)

\* What a pass may try: rewritings, the forced updates it was given, and lines
\* against targets.
Trials(pairs) ==
  {a \in [old : Commits, new : Commits, by : {"m1", "m2", "m3"}] :
     /\ a.by = "m1" => <<a.old, a.new>> \in rewrites
     /\ a.by = "m2" => <<a.old, a.new>> \in {<<q.old, q.new>> : q \in pairs}}

\* What a pass has made of the verdicts and the memos, at any point.
Passing(st, pairs) ==
  /\ st = [v |-> st.v, memo |-> st.memo]
  /\ VerdictsType(st.v) /\ st.memo \subseteq Commits \X Commits
  /\ nomatch \subseteq st.memo
  /\ \A o \in DOMAIN verdict : o \in DOMAIN st.v /\ st.v[o] = verdict[o]
  /\ RewriteBound(st.v)
  /\ \A p \in st.memo \ nomatch : p \in {<<q.old, q.new>> : q \in pairs} \/ FailsAlways(p)
  /\ st.memo # nomatch => qualified


LEMMA MintedType ==
  ASSUME NEW v, VerdictsType(v), NEW line \in SUBSET Commits, NEW as \in Commits \cup {0},
         NEW by \in {"m1", "m2", "m3", "m5"}
  PROVE  VerdictsType(Minted(v, line, as, by))
<1>1. [as |-> as, by |-> by] \in Verdict
  BY DEF Verdict
<1> HIDE DEF Verdict
<1> QED
  BY <1>1 DEF VerdictsType, Minted

\* A binding binds commits of the line that had no verdict.
LEMMA BindKeeps ==
  ASSUME GitType, NEW pairs, NEW st, Passing(st, pairs),
         NEW tip \in Commits, NEW as \in Commits, NEW by \in {"m1", "m2", "m3"},
         by = "m1" => <<tip, as>> \in rewrites
  PROVE  /\ Passing(Bind(st, tip, as, by), pairs)
         /\ DOMAIN st.v \subseteq DOMAIN Bind(st, tip, as, by).v
<1> DEFINE line == BindSegment(History, tip, as, Candidates(st.v, FALSE))
           v == Minted(st.v, line, as, by)
<1>0. IsHistory(commits)
  BY DEF GitType
<1>1. line \subseteq Ancestors(History, tip) /\ line \subseteq Commits /\ line \cap DOMAIN st.v = {}
  <2>1. IsHistory(History) /\ DOMAIN History = Commits
    BY <1>0, HistoryIs
  <2>2. line \subseteq Candidates(st.v, FALSE)
        /\ line \subseteq Segment(History, MergeBase(History, tip, as), tip)
    BY DEF BindSegment
  <2>3. Segment(History, MergeBase(History, tip, as), tip) \subseteq Ancestors(History, tip)
        /\ Ancestors(History, tip) \subseteq Commits
    BY <2>1, SegmentType, AncestorsType
  <2>4. Candidates(st.v, FALSE) \cap DOMAIN st.v = {}
    BY DEF Candidates
  <2> QED
    BY <2>2, <2>3, <2>4
<1>2. line \subseteq Ancestors(commits, tip)
  BY <1>0, <1>1, HistoryIs, AncestorsMonotone
<1>3. Bind(st, tip, as, by) = [v |-> v, memo |-> st.memo]
  <2>1. PICK x, m : st = [v |-> x, memo |-> m]
    BY DEF Passing
  <2>2. Bind(st, tip, as, by) = [st EXCEPT !.v = v]
    BY DEF Bind
  <2> HIDE DEF v
  <2> QED
    BY <2>1, <2>2
<1> HIDE DEF line
<1>4. VerdictsType(v)
  BY <1>1, MintedType DEF Passing
<1>5. /\ DOMAIN v = DOMAIN st.v \cup line
      /\ \A o \in line : v[o] = [as |-> as, by |-> by]
      /\ \A o \in DOMAIN st.v : v[o] = st.v[o]
  <2>1. /\ DOMAIN v = DOMAIN st.v \cup line
        /\ \A o \in line : v[o] = [as |-> as, by |-> by]
        /\ \A o \in DOMAIN st.v \ line : v[o] = st.v[o]
    BY DEF Minted
  <2> HIDE DEF v
  <2> QED
    BY <1>1, <2>1
<1> HIDE DEF v
<1>6. RewriteBound(v)
  <2>1. ASSUME NEW o \in DOMAIN v, v[o].by = "m1"
        PROVE  \E p \in rewrites : p[2] = v[o].as /\ IsAncestor(commits, o, p[1])
    <3>1. CASE o \in line
      <4>1. v[o] = [as |-> as, by |-> by]
        BY <3>1, <1>5
      <4>2. <<tip, as>> \in rewrites /\ v[o].as = as
        BY <2>1, <4>1
      <4>3. IsAncestor(commits, o, tip)
        BY <1>2, <3>1 DEF IsAncestor
      <4> QED
        BY <4>2, <4>3
    <3>2. CASE o \notin line
      <4>1. o \in DOMAIN st.v /\ v[o] = st.v[o]
        BY <3>2, <1>5
      <4> QED
        BY <2>1, <4>1 DEF Passing, RewriteBound
    <3> QED
      BY <3>1, <3>2
  <2> QED
    BY <2>1 DEF RewriteBound
<1>7. Bind(st, tip, as, by).v = v /\ Bind(st, tip, as, by).memo = st.memo
  BY <1>3
<1>8. \A o \in DOMAIN verdict : o \in DOMAIN v /\ v[o] = verdict[o]
  BY <1>5 DEF Passing
<1> QED
  BY <1>3, <1>4, <1>5, <1>6, <1>7, <1>8 DEF Passing

LEMMA RememberKeeps ==
  ASSUME NEW pairs, NEW st, Passing(st, pairs), NEW p \in Commits \X Commits, qualified,
         p \in {<<q.old, q.new>> : q \in pairs} \/ FailsAlways(p)
  PROVE  /\ Passing([st EXCEPT !.memo = @ \cup {p}], pairs)
         /\ DOMAIN st.v \subseteq DOMAIN [st EXCEPT !.memo = @ \cup {p}].v
<1>1. PICK x, m : st = [v |-> x, memo |-> m]
  BY DEF Passing
<1>2. [st EXCEPT !.memo = @ \cup {p}] = [v |-> x, memo |-> m \cup {p}]
  BY <1>1
<1>3. [v |-> x, memo |-> m \cup {p}].v = x /\ [v |-> x, memo |-> m \cup {p}].memo = m \cup {p}
      /\ st.v = x /\ st.memo = m
  BY <1>1
<1> QED
  BY <1>2, <1>3 DEF Passing

\* An attempt keeps the verdicts there are, and remembers what has failed.
LEMMA AttemptKeeps ==
  ASSUME GitType, NEW pairs, NEW st, Passing(st, pairs), NEW a \in Trials(pairs), qualified
  PROVE  Passing(Attempt(st, a), pairs) /\ DOMAIN st.v \subseteq DOMAIN Attempt(st, a).v
<1> DEFINE Keeps(next) == Passing(next, pairs) /\ DOMAIN st.v \subseteq DOMAIN next.v
<1>0. IsHistory(commits)
  BY DEF GitType
<1>1. Keeps(st)
  OBVIOUS
<1>2. a.old \in Commits /\ a.new \in Commits /\ <<a.old, a.new>> \in Commits \X Commits
  BY DEF Trials
<1>3. CASE a.by = "m1"
  <2>1. Keeps(Bind(st, a.old, a.new, "m1"))
    BY <1>2, <1>3, BindKeeps DEF Trials
  <2>2. Attempt(st, a) = M1(st, a)
    BY <1>3 DEF Attempt
  <2> QED
    BY <1>1, <2>1, <2>2 DEF M1
<1>4. CASE a.by = "m2"
  <2>1. Keeps(Bind(st, a.old, a.new, "m2"))
    BY <1>2, BindKeeps
  <2>2. <<a.old, a.new>> \in {<<q.old, q.new>> : q \in pairs}
    BY <1>4 DEF Trials
  <2>3. Keeps([st EXCEPT !.memo = @ \cup {<<a.old, a.new>>}])
    BY <1>2, <2>2, RememberKeeps
  <2>4. Attempt(st, a) = M2(st, a)
    BY <1>4 DEF Attempt
  <2> QED
    BY <1>1, <2>1, <2>3, <2>4 DEF M2
<1>5. CASE a.by = "m3"
  <2> DEFINE match == AttemptSquash(commits, a.old, a.new)
  <2>0. History = commits
    BY <1>0, HistoryIs
  <2>1. ASSUME match # {} PROVE Keeps(Bind(st, a.old, CHOOSE c \in match : TRUE, "m3"))
    <3>1. match \subseteq Segment(commits, MergeBase(commits, a.old, a.new), a.new)
      BY DEF AttemptSquash
    <3>2. match \subseteq Commits
      BY <1>0, <1>2, <3>1, SegmentType DEF Commits
    <3>3. (CHOOSE c \in match : TRUE) \in Commits
      BY <2>1, <3>2
    <3> HIDE DEF match
    <3> QED
      BY <1>2, <3>3, BindKeeps
  <2>2. ASSUME match = {} PROVE Keeps([st EXCEPT !.memo = @ \cup {<<a.old, a.new>>}])
    <3>1. FailsAlways(<<a.old, a.new>>)
      BY <2>2 DEF FailsAlways
    <3> QED
      BY <1>2, <3>1, RememberKeeps
  <2>3. Attempt(st, a) = M3(st, a)
    BY <1>5 DEF Attempt
  <2> QED
    BY <1>1, <2>0, <2>1, <2>2, <2>3 DEF M3
<1> QED
  BY <1>3, <1>4, <1>5 DEF Trials

Trying == INSTANCE Induction WITH Op <- Attempt

\* A run is a walk from its state, an attempt at a time.
LEMMA RunSteps ==
  ASSUME NEW X, NEW run \in Seq(X), NEW st
  PROVE  \E w : /\ w[0] = st
                /\ \A d \in 0 .. Len(run) - 1 : w[d + 1] = Attempt(w[d], run[d + 1])
                /\ w[Len(run)] = FoldLeft(Attempt, st, run)
<1>1. Len(run) \in Nat /\ DOMAIN run = 1 .. Len(run)
  OBVIOUS
<1>2. PICK w : Trying!Steps(w, Len(run), st, run)
  BY <1>1, Trying!FoldSteps
<1>3. FoldLeft(Attempt, st, run) = Trying!FoldOver(st, run)
  BY DEF Trying!FoldOver, Trying!Largest, FoldLeft, MapThenFoldSet, Max
<1> QED
  BY <1>2, <1>3 DEF Trying!Steps

LEMMA RunKeeps ==
  ASSUME GitType, NEW pairs, NEW st, Passing(st, pairs), NEW run \in Seq(Trials(pairs)),
         run = <<>> \/ qualified
  PROVE  Passing(FoldLeft(Attempt, st, run), pairs)
<1> DEFINE N == Len(run)
<1>0. N \in Nat /\ \A i \in 1 .. N : run[i] \in Trials(pairs)
  <2> DEFINE T == Trials(pairs)
  <2> HIDE DEF T
  <2>1. run \in Seq(T)
    BY DEF T
  <2>2. N \in Nat /\ \A i \in 1 .. N : run[i] \in T
    BY <2>1
  <2> QED
    BY <2>2 DEF T
<1>1. PICK w : /\ w[0] = st
               /\ \A d \in 0 .. N - 1 : w[d + 1] = Attempt(w[d], run[d + 1])
               /\ w[N] = FoldLeft(Attempt, st, run)
  BY RunSteps
<1> DEFINE S == {d \in 0 .. N : Passing(w[d], pairs)}
<1>2. 0 \in S
  BY <1>0, <1>1
<1>3. ASSUME NEW d \in 0 .. N - 1, d \in S PROVE d + 1 \in S
  <2>1. d + 1 \in 1 .. N /\ d + 1 \in 0 .. N
    BY <1>0
  <2>2. run[d + 1] \in Trials(pairs) /\ qualified
    <3>1. run # <<>>
      BY <2>1
    <3> QED
      BY <1>0, <2>1, <3>1
  <2>3. Passing(Attempt(w[d], run[d + 1]), pairs)
    BY <1>3, <2>2, AttemptKeeps
  <2> QED
    BY <1>1, <2>1, <2>3
<1> HIDE DEF S, N
<1>4. 0 .. N \subseteq S
  BY <1>0, <1>2, <1>3, UpTo
<1> QED
  BY <1>0, <1>1, <1>4 DEF S

\* Where the reflog of a branch has a rewriting.
Rewritings(b) ==
  {i \in DOMAIN reflog[b] : reflog[b][i].how \in {"rebase", "amend"} /\ reflog[b][i].old # reflog[b][i].new}

\* What is in a reflog before its i-th entry, or in another.
Before(i, e) ==
  \/ \E j \in DOMAIN reflog[head] : j < i /\ e = reflog[head][j]
  \/ \E b \in Branches \ {head} : \E j \in DOMAIN reflog[b] : e = reflog[b][j]

LEMMA LogSuccessions ==
  ASSUME GitType, NEW b \in Branches
  PROVE  /\ Rewritings(b) \in SUBSET Nat /\ IsFiniteSet(Rewritings(b))
         /\ ReflogSuccessions(reflog[b])
              = [k \in DOMAIN InOrder(Rewritings(b)) |-> reflog[b][InOrder(Rewritings(b))[k]]]
         /\ InOrder(Rewritings(b)) \in [1 .. Cardinality(Rewritings(b)) -> Rewritings(b)]
         /\ Cardinality(Rewritings(b)) \in Nat
<1> DEFINE log == reflog[b]
           M == Move
           S == Rewritings(b)
<1>1. log \in Seq(M)
  BY DEF GitType
<1> HIDE DEF M, log
<1>2. Len(log) \in Nat /\ DOMAIN log = 1 .. Len(log)
  BY <1>1
<1>3. S \in SUBSET (1 .. Len(log)) /\ S \in SUBSET Nat
  BY <1>2 DEF Rewritings, log
<1>4. IsFiniteSet(S)
  <2>1. IsFiniteSet(1 .. Len(log))
    BY <1>2, FS_Interval
  <2> QED
    BY <1>3, <2>1, FS_Subset
<1>5. ReflogSuccessions(reflog[b]) = [k \in DOMAIN InOrder(S) |-> reflog[b][InOrder(S)[k]]]
  BY DEF ReflogSuccessions, Rewritings
<1> HIDE DEF S
<1>6. InOrder(S) \in [1 .. Cardinality(S) -> S] /\ Cardinality(S) \in Nat
  BY <1>3, <1>4, InOrderType
<1> QED
  BY <1>3, <1>4, <1>5, <1>6 DEF S

\* What a reflog calls a succession is a rewriting.
Succession == {e \in Move : e.how \in {"rebase", "amend"} /\ <<e.old, e.new>> \in rewrites}

LEMMA SuccessionsAre ==
  ASSUME GitType, ReflogInv
  PROVE  [i \in DOMAIN Branch |-> ReflogSuccessions(reflog[Branch[i]])] \in Seq(Seq(Succession))
<1> DEFINE X == Succession
           M == Move
           Y == Seq(X)
           seqs == [i \in DOMAIN Branch |-> ReflogSuccessions(reflog[Branch[i]])]
<1>1. ASSUME NEW b \in Branches PROVE ReflogSuccessions(reflog[b]) \in Seq(X)
  <2> DEFINE S == Rewritings(b)
             at == InOrder(S)
  <2>1. /\ ReflogSuccessions(reflog[b]) = [k \in DOMAIN at |-> reflog[b][at[k]]]
        /\ at \in [1 .. Cardinality(S) -> S] /\ Cardinality(S) \in Nat
    BY LogSuccessions
  <2>2. ASSUME NEW i \in S PROVE reflog[b][i] \in X
    <3>1. i \in DOMAIN reflog[b] /\ reflog[b][i].how \in {"rebase", "amend"}
      BY DEF Rewritings
    <3>2. reflog[b] \in Seq(M)
      BY DEF GitType
    <3>3. reflog[b][i] \in M
      BY <3>1, <3>2, EltType
    <3> QED
      BY <3>1, <3>3 DEF ReflogInv, Succession
  <2> HIDE DEF S, at, X
  <2>3. [k \in DOMAIN at |-> reflog[b][at[k]]] \in [1 .. Cardinality(S) -> X]
    BY <2>1, <2>2
  <2> QED
    BY <2>1, <2>3, IsSeq
<1>2. Len(Branch) \in Nat /\ DOMAIN Branch = 1 .. Len(Branch)
  BY MintAssumption
<1>3. \A i \in DOMAIN Branch : ReflogSuccessions(reflog[Branch[i]]) \in Y
  BY <1>1 DEF Branches
<1> HIDE DEF X, Y
<1>4. seqs \in [1 .. Len(Branch) -> Y]
  BY <1>2, <1>3
<1> HIDE DEF seqs
<1>5. seqs \in Seq(Y)
  BY <1>2, <1>4, IsSeq
<1> QED
  BY <1>5 DEF seqs, X, Y

LEMMA SuccessionsType ==
  ASSUME GitType, ReflogInv
  PROVE  Successions \in Seq(Succession)
BY SuccessionsAre, FlattenType DEF Successions

\* Where the rewritings of the branch checked out are tried: in their order, and
\* before one of them only earlier ones and those of other branches.
Places(pos) ==
  /\ pos \in [Rewritings(head) -> 1 .. Len(Successions)]
  /\ \A i \in Rewritings(head) :
       /\ Successions[pos[i]] = reflog[head][i]
       /\ \A j \in Rewritings(head) : i < j => pos[i] < pos[j]
       /\ \A p \in 1 .. pos[i] - 1 : Before(i, Successions[p])

LEMMA PlacesExist ==
  ASSUME GitType, ReflogInv
  PROVE  \E pos : Places(pos)
<1> DEFINE X == Succession
           seqs == [i \in DOMAIN Branch |-> ReflogSuccessions(reflog[Branch[i]])]
           R == Rewritings(head)
           at == InOrder(R)
           N == Cardinality(R)
<1>1. /\ Len(Branch) \in Nat /\ DOMAIN Branch = 1 .. Len(Branch) /\ DOMAIN seqs = DOMAIN Branch
      /\ head \in Branches /\ \A i \in DOMAIN Branch : Branch[i] \in Branches
  BY MintAssumption DEF GitType, Branches
<1>2. PICK k \in DOMAIN Branch : Branch[k] = head /\ \A m \in DOMAIN Branch : m < k => Branch[m] # head
  <2> DEFINE K == {m \in DOMAIN Branch : Branch[m] = head}
  <2>1. K \in SUBSET Nat /\ K # {}
    BY <1>1 DEF Branches
  <2>2. PICK k \in K : \A m \in K : k <= m
    <3> HIDE DEF K
    <3> QED
      BY <2>1, LeastNumber
  <2>3. ASSUME NEW m \in DOMAIN Branch, m < k PROVE Branch[m] # head
    <3>1. m \in Nat /\ k \in Nat
      BY <1>1, <2>1
    <3> QED
      BY <2>2, <2>3, <3>1
  <2> QED
    BY <2>2, <2>3
<1>3. seqs \in Seq(Seq(X))
  BY SuccessionsAre
<1>4. PICK A \in Seq(X) :
        /\ Begins(Successions, A \o seqs[k])
        /\ \A p \in DOMAIN A : \E m \in 1 .. k - 1 : \E q \in DOMAIN seqs[m] : A[p] = seqs[m][q]
  <2>1. Successions = FlattenSeq(seqs) /\ k \in DOMAIN seqs
    BY <1>1 DEF Successions
  <2> HIDE DEF seqs, X
  <2>2. PICK A \in Seq(X) : Around(A, seqs, k)
    BY <1>3, <2>1, FlattenAround
  <2> QED
    BY <2>1, <2>2 DEF Around
<1>5. /\ R \in SUBSET Nat /\ IsFiniteSet(R) /\ seqs[k] = [r \in DOMAIN at |-> reflog[head][at[r]]]
      /\ at \in [1 .. N -> R] /\ N \in Nat
  BY <1>1, <1>2, LogSuccessions
<1>6. /\ \A i \in R : \E r \in 1 .. N : at[r] = i
      /\ \A r, q \in 1 .. N : r < q => at[r] < at[q]
  <2>1. DOMAIN at = 1 .. N
    BY <1>5
  <2> QED
    BY <1>5, <2>1, InOrderSorts
<1>7. /\ Len(A) \in Nat /\ DOMAIN A = 1 .. Len(A)
      /\ seqs[k] \in Seq(X) /\ Len(seqs[k]) = N
      /\ Len(A \o seqs[k]) = Len(A) + N /\ DOMAIN (A \o seqs[k]) = 1 .. Len(A) + N
      /\ \A p \in 1 .. Len(A) : (A \o seqs[k])[p] = A[p]
      /\ \A r \in 1 .. N : (A \o seqs[k])[Len(A) + r] = reflog[head][at[r]]
  <2> DEFINE T == Seq(X)
  <2>1. seqs[k] \in T
    <3> HIDE DEF T, seqs
    <3> QED
      BY <1>1, <1>3 DEF T
  <2>2. DOMAIN seqs[k] = 1 .. N /\ \A r \in 1 .. N : seqs[k][r] = reflog[head][at[r]]
    <3> HIDE DEF seqs, at
    <3> QED
      BY <1>5
  <2> HIDE DEF seqs, at, X, N
  <2>3. PICK t : t = seqs[k] /\ t \in Seq(X)
    BY <2>1
  <2>4. Len(t) = N
    BY <1>5, <2>2, <2>3
  <2>5. /\ Len(A) \in Nat /\ DOMAIN A = 1 .. Len(A)
        /\ Len(A \o t) = Len(A) + Len(t) /\ DOMAIN (A \o t) = 1 .. Len(A) + Len(t)
        /\ \A p \in 1 .. Len(A) : (A \o t)[p] = A[p]
        /\ \A r \in 1 .. Len(t) : (A \o t)[Len(A) + r] = t[r]
    BY <2>3, ConcatIs
  <2> QED
    BY <2>2, <2>3, <2>4, <2>5
<1>8. Len(Successions) \in Nat /\ Len(A) + N <= Len(Successions)
      /\ \A p \in 1 .. Len(A) + N : Successions[p] = (A \o seqs[k])[p]
  <2>1. Len(Successions) \in Nat
    <3> HIDE DEF X
    <3>1. Successions \in Seq(X)
      BY SuccessionsType DEF X
    <3> QED
      BY <3>1
  <2> HIDE DEF seqs
  <2> QED
    BY <1>4, <1>7, <2>1 DEF Begins
<1>9. ASSUME NEW p \in 1 .. Len(A), NEW i PROVE Before(i, Successions[p])
  <2>1. PICK m \in 1 .. k - 1 : \E q \in DOMAIN seqs[m] : A[p] = seqs[m][q]
    BY <1>4, <1>7
  <2>2. m \in DOMAIN Branch /\ m < k
    BY <1>1
  <2>3. Branch[m] \in Branches \ {head} /\ seqs[m] = ReflogSuccessions(reflog[Branch[m]])
    BY <1>1, <1>2, <2>2
  <2>4. PICK b \in Branches : b = Branch[m] /\ b # head
    BY <2>3
  <2>5. \A q \in DOMAIN seqs[m] : \E j \in DOMAIN reflog[b] : seqs[m][q] = reflog[b][j]
    <3> DEFINE log == InOrder(Rewritings(b))
    <3>1. seqs[m] = [r \in DOMAIN log |-> reflog[b][log[r]]] /\ log \in [DOMAIN log -> Rewritings(b)]
      BY <2>3, <2>4, LogSuccessions
    <3>2. Rewritings(b) \subseteq DOMAIN reflog[b]
      BY DEF Rewritings
    <3> HIDE DEF log, seqs
    <3> QED
      BY <3>1, <3>2
  <2>6. Successions[p] = A[p]
    <3>1. p \in 1 .. Len(A) + N
      BY <1>5, <1>7
    <3> QED
      BY <1>7, <1>8, <3>1
  <2> HIDE DEF seqs
  <2> QED
    BY <2>1, <2>4, <2>5, <2>6 DEF Before
<1> DEFINE pos == [i \in R |-> Len(A) + (CHOOSE r \in 1 .. N : at[r] = i)]
<1> HIDE DEF seqs, at, R, N
<1>10. ASSUME NEW i \in R PROVE \E r \in 1 .. N : pos[i] = Len(A) + r /\ at[r] = i
  BY <1>6
<1> HIDE DEF pos
<1>11. ASSUME NEW r \in 1 .. N PROVE Successions[Len(A) + r] = reflog[head][at[r]]
  <2>1. Len(A) + r \in 1 .. Len(A) + N
    BY <1>5, <1>7
  <2> QED
    BY <1>7, <1>8, <2>1
<1>12. ASSUME NEW i \in R
       PROVE  /\ pos[i] \in 1 .. Len(Successions) /\ Successions[pos[i]] = reflog[head][i]
              /\ \A j \in R : i < j => pos[i] < pos[j]
              /\ \A p \in 1 .. pos[i] - 1 : Before(i, Successions[p])
  <2>1. PICK r \in 1 .. N : pos[i] = Len(A) + r /\ at[r] = i
    BY <1>10
  <2>2. pos[i] \in 1 .. Len(Successions)
    BY <1>5, <1>7, <1>8, <2>1
  <2>3. ASSUME NEW j \in R, i < j PROVE pos[i] < pos[j]
    <3>1. PICK q \in 1 .. N : pos[j] = Len(A) + q /\ at[q] = j
      BY <1>10
    <3>2. r < q
      <4>1. ~(q < r) /\ q # r
        <5>1. at[r] \in Nat /\ at[q] \in Nat /\ at[r] < at[q]
          BY <1>5, <2>1, <2>3, <3>1
        <5> QED
          BY <1>6, <5>1
      <4> QED
        BY <1>5, <4>1
    <3> QED
      BY <1>5, <1>7, <2>1, <3>1, <3>2
  <2>4. ASSUME NEW p \in 1 .. pos[i] - 1 PROVE Before(i, Successions[p])
    <3>1. CASE p \in 1 .. Len(A)
      BY <1>9, <3>1
    <3>2. CASE p \notin 1 .. Len(A)
      <4>1. PICK q \in 1 .. N : p = Len(A) + q /\ q < r
        <5>1. p - Len(A) \in 1 .. N /\ p = Len(A) + (p - Len(A)) /\ p - Len(A) < r
          BY <1>5, <1>7, <2>1, <3>2
        <5> QED
          BY <5>1
      <4>2. Successions[p] = reflog[head][at[q]]
        BY <1>11, <4>1
      <4>4. at[q] < at[r]
        BY <1>6, <4>1
      <4>5. at[q] \in DOMAIN reflog[head]
        BY <1>5 DEF R, Rewritings
      <4> QED
        BY <2>1, <4>2, <4>4, <4>5 DEF Before
    <3> QED
      BY <3>1, <3>2
  <2> QED
    BY <2>1, <2>2, <2>3, <2>4, <1>11
<1>13. pos \in [R -> 1 .. Len(Successions)]
  BY <1>12 DEF pos
<1> QED
  BY <1>12, <1>13 DEF R, Places

LEMMA EarlyType ==
  ASSUME GitType, ReflogInv, NEW pairs \in SUBSET Pair, IsFiniteSet(pairs)
  PROVE  Early(pairs) \in Seq(Trials(pairs))
<1> DEFINE X == Succession
           T == Trials(pairs)
           s == Successions
           m == SetToSeq(pairs)
           first == [i \in DOMAIN s |-> Try(s[i], "m1")]
           second == [i \in DOMAIN m |-> Try(m[i], "m2")]
<1>1. ASSUME NEW e \in X PROVE Try(e, "m1") \in T
  <2>1. e \in Move /\ e.old \in Commits /\ e.new \in Commits
    BY DEF Succession, Move
  <2> QED
    BY <2>1 DEF Try, Trials, Succession
<1>2. ASSUME NEW q \in pairs PROVE Try(q, "m2") \in T
  <2>1. q \in Pair /\ q.old \in Commits /\ q.new \in Commits
    BY DEF Pair
  <2> QED
    BY <2>1 DEF Try, Trials
<1>3. s \in Seq(X)
  BY SuccessionsType
<1>4. m \in Seq(pairs)
  BY SetToSeqType
<1>5. Early(pairs) = first \o second
  BY DEF Early
<1> HIDE DEF X, T, s, m
<1>6. first \in Seq(T)
  <2>1. Len(s) \in Nat /\ DOMAIN s = 1 .. Len(s) /\ \A i \in DOMAIN s : s[i] \in X
    BY <1>3
  <2>2. first \in [1 .. Len(s) -> T]
    BY <1>1, <2>1
  <2> HIDE DEF first
  <2> QED
    BY <2>1, <2>2, IsSeq
<1>7. second \in Seq(T)
  <2>1. Len(m) \in Nat /\ DOMAIN m = 1 .. Len(m) /\ \A i \in DOMAIN m : m[i] \in pairs
    BY <1>4
  <2>2. second \in [1 .. Len(m) -> T]
    BY <1>2, <2>1
  <2> HIDE DEF second
  <2> QED
    BY <2>1, <2>2, IsSeq
<1> HIDE DEF first, second
<1> QED
  BY <1>5, <1>6, <1>7, ConcatType DEF T

\* What comes late are lines against targets.
LateTrials == {a \in [old : Commits, new : Commits, by : {"m1", "m2", "m3"}] : a.by = "m3"}

LEMMA LateType ==
  ASSUME GitType, NEW v, NEW h \in Commits, NEW run \in Late(v, h)
  PROVE  run \in Seq(LateTrials)
<1> DEFINE T == LateTrials
           waiting == {o \in noted : ClassOf(v, h, o) # "landed"}
           lines == UNION {Reaching(Terminal(v, o)) : o \in waiting}
           to == <<h>> \o (IF remotes["main"] = h THEN <<>> ELSE <<remotes["main"]>>)
           against(t) == [i \in DOMAIN to |-> [old |-> t, new |-> to[i], by |-> "m3"]]
<1>1. PICK order \in SetToSeqs(lines) : run = FlattenSeq([i \in DOMAIN order |-> against(order[i])])
  BY DEF Late
<1>2. lines \subseteq Commits
  BY TipsType DEF Reaching
<1>3. to \in Seq(Commits)
  <2> DEFINE C == Commits
  <2>1. remotes["main"] \in C /\ h \in C
    BY TipsType
  <2> HIDE DEF C
  <2>2. <<h>> \in Seq(C) /\ (IF remotes["main"] = h THEN <<>> ELSE <<remotes["main"]>>) \in Seq(C)
    BY <2>1
  <2> QED
    BY <2>2, ConcatType DEF C
<1> HIDE DEF to, lines
<1>4. ASSUME NEW t \in Commits PROVE against(t) \in Seq(T)
  <2>1. Len(to) \in Nat /\ DOMAIN to = 1 .. Len(to) /\ \A i \in DOMAIN to : to[i] \in Commits
    BY <1>3, EltType
  <2>2. \A i \in DOMAIN to : [old |-> t, new |-> to[i], by |-> "m3"] \in T
    BY <2>1 DEF LateTrials
  <2> HIDE DEF T
  <2>3. against(t) \in [1 .. Len(to) -> T]
    BY <2>1, <2>2
  <2> QED
    BY <2>1, <2>3, IsSeq
<1>5. IsFiniteSet(lines) /\ Cardinality(lines) \in Nat
  BY <1>2, FiniteCommits DEF GitType
<1>6. order \in [1 .. Cardinality(lines) -> lines]
  BY <1>1 DEF SetToSeqs
<1> HIDE DEF T, against
<1> DEFINE seqs == [i \in DOMAIN order |-> against(order[i])]
           Y == Seq(T)
<1>7. seqs \in [1 .. Cardinality(lines) -> Y]
  <2>1. \A i \in DOMAIN order : against(order[i]) \in Y
    BY <1>2, <1>4, <1>6
  <2> HIDE DEF Y
  <2> QED
    BY <1>6, <2>1
<1> HIDE DEF seqs
<1>8. seqs \in Seq(Seq(T))
  <2>1. seqs \in Seq(Y)
    BY <1>5, <1>7, IsSeq
  <2> QED
    BY <2>1
<1>9. FlattenSeq(seqs) \in Seq(T)
  BY <1>8, FlattenType
<1> QED
  BY <1>1, <1>9 DEF seqs, T

LEMMA AttemptsType ==
  ASSUME GitType, ReflogInv, NEW pairs \in SUBSET Pair, IsFiniteSet(pairs), NEW h \in Commits,
         NEW st, NEW run \in Attempts(st, h, pairs)
  PROVE  run \in Seq(Trials(pairs)) /\ (run = <<>> \/ qualified)
<1> DEFINE T == Trials(pairs)
<1>1. CASE ~qualified
  <2>1. run = <<>>
    BY <1>1 DEF Attempts
  <2> HIDE DEF T
  <2>2. run \in Seq(T)
    BY <2>1
  <2> QED
    BY <2>1, <2>2 DEF T
<1>2. CASE qualified
  <2>1. PICK late \in Late(FoldLeft(Attempt, st, Early(pairs)).v, h) : run = Early(pairs) \o late
    BY <1>2 DEF Attempts
  <2>2. late \in Seq(LateTrials)
    BY <2>1, LateType
  <2>3. LateTrials \subseteq T
    BY DEF LateTrials, Trials
  <2>4. Early(pairs) \in Seq(T)
    BY EarlyType
  <2> HIDE DEF T
  <2>5. late \in Seq(T)
    BY <2>2, <2>3
  <2> QED
    BY <1>2, <2>1, <2>4, <2>5, ConcatType DEF T
<1> QED
  BY <1>1, <1>2

LEMMA NowPasses ==
  ASSUME StoreType, RewriteBound(verdict), NEW pairs
  PROVE  Passing(Now, pairs)
<1>1. Now = [v |-> verdict, memo |-> nomatch] /\ Now.v = verdict /\ Now.memo = nomatch
  BY DEF Now
<1> QED
  BY <1>1 DEF Passing, StoreType

\* A pass that ends keeps what it found.
LEMMA PassedKeeps ==
  ASSUME MInv, NEW pairs \in SUBSET Pair, IsFiniteSet(pairs), NEW h \in Commits,
         NEW st \in Passed(h, pairs)
  PROVE  Passing(st, pairs)
<1>1. PICK run \in Attempts(Now, h, pairs) : st = FoldLeft(Attempt, Now, run)
  BY DEF Passed
<1>2. run \in Seq(Trials(pairs)) /\ (run = <<>> \/ qualified)
  BY AttemptsType DEF MInv
<1>3. Passing(Now, pairs)
  BY NowPasses DEF MInv
<1> QED
  BY <1>1, <1>2, <1>3, RunKeeps DEF MInv

\* And so does one that dies.
LEMMA DiedKeeps ==
  ASSUME MInv, NEW pairs \in SUBSET Pair, IsFiniteSet(pairs), NEW h \in Commits,
         NEW st \in Died(h, pairs)
  PROVE  Passing(st, pairs)
<1> DEFINE partly(b, n) ==
             {[b EXCEPT !.v = [o \in DOMAIN b.v \cup part |-> n.v[o]]] :
                part \in SUBSET (DOMAIN n.v \ DOMAIN b.v)}
           until(run, k) == FoldLeft(Attempt, Now, SubSeq(run, 1, k - 1))
<1>0. Died(h, pairs) =
        UNION {UNION {partly(until(run, k), Attempt(until(run, k), run[k])) : k \in DOMAIN run} :
                 run \in Attempts(Now, h, pairs)}
  BY DEF Died
<1> HIDE DEF partly
<1>1. PICK run \in Attempts(Now, h, pairs) :
        st \in UNION {partly(until(run, k), Attempt(until(run, k), run[k])) : k \in DOMAIN run}
  BY <1>0
<1>2. PICK k \in DOMAIN run : st \in partly(until(run, k), Attempt(until(run, k), run[k]))
  BY <1>1
<1> DEFINE T == Trials(pairs)
           b == FoldLeft(Attempt, Now, SubSeq(run, 1, k - 1))
           n == Attempt(b, run[k])
<1>3. PICK part \in SUBSET (DOMAIN n.v \ DOMAIN b.v) :
        st = [b EXCEPT !.v = [o \in DOMAIN b.v \cup part |-> n.v[o]]]
  BY <1>2 DEF partly
<1> DEFINE v == [o \in DOMAIN b.v \cup part |-> n.v[o]]
<1>4. run \in Seq(Trials(pairs)) /\ (run = <<>> \/ qualified)
  BY AttemptsType DEF MInv
<1>5. run[k] \in T /\ SubSeq(run, 1, k - 1) \in Seq(T) /\ qualified
  <2>1. run \in Seq(T)
    BY <1>4
  <2> HIDE DEF T
  <2>2. Len(run) \in Nat /\ k \in 1 .. Len(run) /\ run[k] \in T /\ run # <<>>
    BY <2>1
  <2>3. SubSeq(run, 1, k - 1) \in Seq(T)
    BY <2>1, <2>2
  <2> QED
    BY <1>4, <2>2, <2>3
<1>6. Passing(b, pairs)
  <2>1. Passing(Now, pairs)
    BY NowPasses DEF MInv
  <2> QED
    BY <1>5, <2>1, RunKeeps DEF MInv
<1>7. Passing(n, pairs) /\ DOMAIN b.v \subseteq DOMAIN n.v
  BY <1>5, <1>6, AttemptKeeps DEF MInv
<1>8. part \subseteq DOMAIN n.v \ DOMAIN b.v /\ st = [b EXCEPT !.v = v]
  BY <1>3
<1> HIDE DEF b, n
<1>9. DOMAIN v \subseteq DOMAIN n.v /\ DOMAIN b.v \subseteq DOMAIN v
      /\ (\A o \in DOMAIN v : v[o] = n.v[o]) /\ v = [o \in DOMAIN v |-> v[o]]
  BY <1>7, <1>8
<1> HIDE DEF v
<1>10. PICK x, m : b = [v |-> x, memo |-> m]
  BY <1>6 DEF Passing
<1>11. st = [v |-> v, memo |-> m] /\ st.v = v /\ st.memo = m /\ b.v = x /\ b.memo = m
  BY <1>8, <1>10
<1>12. VerdictsType(v)
  BY <1>7, <1>9 DEF Passing, VerdictsType
<1>13. RewriteBound(v)
  BY <1>7, <1>9 DEF Passing, RewriteBound
<1>14. \A o \in DOMAIN verdict : o \in DOMAIN v /\ v[o] = verdict[o]
  BY <1>6, <1>7, <1>9 DEF Passing
<1> QED
  BY <1>6, <1>11, <1>12, <1>13, <1>14 DEF Passing

-----------------------------------------------------------------------------
(* Histories grow.                                                         *)

LEMMA ExtendsItself == ASSUME NEW H, IsHistory(H) PROVE Extends(H, H)
BY DEF Extends, IsHistory

LEMMA OneMore ==
  ASSUME NEW H, NEW G, Extends(G, H), NEW parents \in SUBSET DOMAIN G, NEW tree \in SUBSET Change
  PROVE  /\ Extends(Append(G, [parents |-> parents, tree |-> tree]), H)
         /\ Len(G) + 1 \in DOMAIN Append(G, [parents |-> parents, tree |-> tree])
<1> DEFINE C == [parents : SUBSET Nat, tree : SUBSET Change]
           x == [parents |-> parents, tree |-> tree]
           A == Append(G, x)
<1>1. IsHistory(G) /\ IsHistory(H) /\ Len(H) <= Len(G) /\ \A c \in DOMAIN H : G[c] = H[c]
  BY DEF Extends
<1>2. G \in Seq(C) /\ Len(G) \in Nat /\ DOMAIN G = 1 .. Len(G)
      /\ Len(H) \in Nat /\ DOMAIN H = 1 .. Len(H)
  BY <1>1 DEF IsHistory
<1>3. x \in C /\ x.parents = parents
  BY <1>2
<1> HIDE DEF x, C
<1>4. A \in Seq(C) /\ Len(A) = Len(G) + 1 /\ DOMAIN A = 1 .. Len(G) + 1
      /\ (\A c \in 1 .. Len(G) : A[c] = G[c]) /\ A[Len(G) + 1] = x
  BY <1>2, <1>3
<1> HIDE DEF A
<1>5. ASSUME NEW c \in DOMAIN A PROVE A[c].parents \subseteq 1 .. c - 1
  <2>1. CASE c = Len(G) + 1
    <3>1. c - 1 = Len(G)
      BY <1>2, <2>1
    <3> QED
      BY <1>2, <1>3, <1>4, <2>1, <3>1
  <2>2. CASE c # Len(G) + 1
    <3>1. c \in DOMAIN G /\ A[c] = G[c]
      BY <1>2, <1>4, <2>2
    <3> QED
      BY <1>1, <3>1, CommitType
  <2> QED
    BY <2>1, <2>2
<1>6. IsHistory(A)
  BY <1>4, <1>5 DEF IsHistory, C
<1>7. Len(H) <= Len(A) /\ \A c \in DOMAIN H : A[c] = H[c]
  BY <1>1, <1>2, <1>4
<1>8. Len(G) + 1 \in DOMAIN A
  BY <1>2, <1>4
<1> QED
  BY <1>1, <1>6, <1>7, <1>8 DEF Extends, A, x

\* The ancestors of one commit more are those of its parents.
LEMMA OneMoreAncestors ==
  ASSUME NEW G, IsHistory(G), NEW parents \in SUBSET DOMAIN G, NEW tree \in SUBSET Change
  PROVE  Ancestors(Append(G, [parents |-> parents, tree |-> tree]), Len(G) + 1)
           = {Len(G) + 1} \cup UNION {Ancestors(G, p) : p \in parents}
<1> DEFINE x == [parents |-> parents, tree |-> tree]
           A == Append(G, x)
           n == Len(G) + 1
<1>1. Extends(A, G) /\ n \in DOMAIN A
  BY ExtendsItself, OneMore
<1>2. IsHistory(A)
  BY <1>1 DEF Extends
<1>3. A[n] = x /\ x.parents = parents
  <2> DEFINE C == [parents : SUBSET Nat, tree : SUBSET Change]
  <2>1. G \in Seq(C)
    BY DEF IsHistory
  <2> HIDE DEF C
  <2> QED
    BY <2>1
<1>4. \A p \in parents : Ancestors(A, p) = Ancestors(G, p)
  BY <1>1, AncestorsStand
<1> HIDE DEF A, n, x
<1>5. Ancestors(A, n) = {n} \cup UNION {Ancestors(A, p) : p \in parents}
  BY <1>1, <1>2, <1>3, AncestorsAre
<1>6. UNION {Ancestors(A, p) : p \in parents} = UNION {Ancestors(G, p) : p \in parents}
  BY <1>4
<1> QED
  BY <1>5, <1>6 DEF A, n, x

LEMMA PatchType ==
  ASSUME NEW H, IsHistory(H), NEW c \in DOMAIN H
  PROVE  PatchID(H, c).added \subseteq Change
<1>1. H[c].tree \subseteq Change
  BY CommitType
<1> QED
  BY <1>1 DEF PatchID, Diff, NoDiff

LEMMA RangePatchType ==
  ASSUME NEW H, IsHistory(H), NEW base, NEW tip \in DOMAIN H
  PROVE  RangePatchID(H, base, tip).added \subseteq Change
<1>1. H[tip].tree \subseteq Change
  BY CommitType
<1> QED
  BY <1>1 DEF RangePatchID, Diff

Replaying == INSTANCE Induction WITH Op <- ReplayOne

\* A line that is replayed comes on top of what there is, and what was there
\* of it is what it is replayed onto.
LEMMA ReplayedType ==
  ASSUME IsHistory(commits), NEW line \in SUBSET Commits, NEW onto \in Commits
  PROVE  /\ Extends(Replayed(line, onto).commits, commits)
         /\ Replayed(line, onto).tip \in DOMAIN Replayed(line, onto).commits
         /\ Ancestors(Replayed(line, onto).commits, Replayed(line, onto).tip) \cap Commits
              \subseteq Ancestors(commits, onto)
<1> DEFINE On(r) == /\ r = [commits |-> r.commits, tip |-> r.tip]
                    /\ Extends(r.commits, commits) /\ r.tip \in DOMAIN r.commits
                    /\ Ancestors(r.commits, r.tip) \cap Commits \subseteq Ancestors(commits, onto)
           start == [commits |-> commits, tip |-> onto]
           run == InOrder(line)
           N == Cardinality(line)
<1>1. line \in SUBSET Nat /\ IsFiniteSet(line)
  BY FiniteCommits
<1>2. N \in Nat /\ run \in [1 .. N -> line] /\ DOMAIN run = 1 .. N
  BY <1>1, InOrderType
<1>3. PICK w : Replaying!Steps(w, N, start, run)
  BY <1>2, Replaying!FoldSteps
<1>4. Replayed(line, onto) = Replaying!FoldOver(start, run)
  BY DEF Replayed, Replaying!FoldOver, Replaying!Largest, FoldLeft, MapThenFoldSet, Max
<1>5. /\ w[0] = start
      /\ \A d \in 0 .. N - 1 : w[d + 1] = ReplayOne(w[d], run[d + 1])
      /\ w[N] = Replayed(line, onto)
  BY <1>3, <1>4 DEF Replaying!Steps
<1>6. On(start)
  <2>1. start.commits = commits /\ start.tip = onto
    OBVIOUS
  <2> QED
    BY <2>1, ExtendsItself DEF Commits
<1>7. ASSUME NEW r, On(r), NEW c \in Commits PROVE On(ReplayOne(r, c))
  <2> DEFINE d == PatchID(r.commits, c)
             tree == (r.commits[r.tip].tree \cup d.added) \ d.removed
             next == Append(r.commits, [parents |-> {r.tip}, tree |-> tree])
  <2>1. IsHistory(r.commits) /\ c \in DOMAIN r.commits
    BY <1>7, AncestorsStand DEF Commits, Extends
  <2>2. d.added \subseteq Change /\ r.commits[r.tip].tree \subseteq Change
    BY <1>7, <2>1, PatchType, CommitType
  <2>3. tree \in SUBSET Change
    BY <2>2
  <2> HIDE DEF d, tree
  <2>4. Extends(next, commits) /\ Len(r.commits) + 1 \in DOMAIN next
    BY <1>7, <2>3, OneMore
  <2>7. Ancestors(next, Len(r.commits) + 1) = {Len(r.commits) + 1} \cup Ancestors(r.commits, r.tip)
    <3>1. {r.tip} \in SUBSET DOMAIN r.commits
      BY <1>7
    <3>2. Ancestors(next, Len(r.commits) + 1)
            = {Len(r.commits) + 1} \cup UNION {Ancestors(r.commits, p) : p \in {r.tip}}
      BY <2>1, <2>3, <3>1, OneMoreAncestors
    <3>3. UNION {Ancestors(r.commits, p) : p \in {r.tip}} = Ancestors(r.commits, r.tip)
      OBVIOUS
    <3> HIDE DEF next
    <3> QED
      BY <3>2, <3>3
  <2>8. Len(r.commits) + 1 \notin Commits
    <3>1. Len(commits) \in Nat /\ Commits = 1 .. Len(commits) /\ Len(r.commits) \in Nat
          /\ Len(commits) <= Len(r.commits)
      BY <1>7, <2>1 DEF Extends, Commits, IsHistory
    <3> QED
      BY <3>1
  <2> HIDE DEF next
  <2>9. Ancestors(next, Len(r.commits) + 1) \cap Commits \subseteq Ancestors(commits, onto)
    BY <1>7, <2>7, <2>8
  <2>5. On([commits |-> next, tip |-> Len(r.commits) + 1])
    BY <2>4, <2>9
  <2>6. ReplayOne(r, c) = r \/ ReplayOne(r, c) = [commits |-> next, tip |-> Len(r.commits) + 1]
    BY DEF ReplayOne, next, tree, d
  <2> HIDE DEF On
  <2> QED
    BY <1>7, <2>5, <2>6
<1> DEFINE S == {d \in 0 .. N : On(w[d])}
<1> HIDE DEF On, run, N, start
<1>8. 0 \in S
  BY <1>2, <1>5, <1>6
<1>9. ASSUME NEW d \in 0 .. N - 1, d \in S PROVE d + 1 \in S
  <2>1. d + 1 \in 1 .. N /\ d + 1 \in 0 .. N
    BY <1>2
  <2>2. run[d + 1] \in Commits
    BY <1>2, <2>1
  <2> QED
    BY <1>5, <1>7, <1>9, <2>1, <2>2
<1> HIDE DEF S
<1>10. 0 .. N \subseteq S
  BY <1>2, <1>8, <1>9, UpTo
<1>11. On(Replayed(line, onto))
  BY <1>2, <1>5, <1>10 DEF S
<1> QED
  BY <1>11 DEF On

LEMMA FlipType ==
  ASSUME IsHistory(commits), NEW c \in Commits, NEW x \in Edit
  PROVE  Flip(commits[c].tree, x) \in SUBSET Change /\ commits[c].tree \in SUBSET Change
<1>1. commits[c].tree \subseteq Change
  BY CommitType DEF Commits
<1>2. x \in Change
  BY MintAssumption
<1> QED
  BY <1>1, <1>2 DEF Flip

\* What happened on the forge only adds commits.
LEMMA EventType ==
  ASSUME GitType, NEW event \in ForgeEvents
  PROVE  /\ Extends(event.commits, commits)
         /\ event.remotes \in [{"main", "topic"} -> DOMAIN event.commits]
<1> DEFINE main == remotes["main"]
           topic == remotes["topic"]
           base == MergeBase(commits, topic, main)
           line == {c \in Segment(commits, base, topic) : Cardinality(commits[c].parents) = 1}
           On(ref, onto, tree) ==
             [commits |-> Append(commits, [parents |-> {onto} \ {0}, tree |-> tree]),
              remotes |-> [remotes EXCEPT ![ref] = New]]
           Squashed(t) == LET d == RangePatchID(commits, MergeBase(commits, t, main), t)
                          IN  (commits[main].tree \cup d.added) \ d.removed
           new == Replayed(line, main)
           Fine(e) == /\ Extends(e.commits, commits)
                      /\ e.remotes \in [{"main", "topic"} -> DOMAIN e.commits]
<1>0. IsHistory(commits) /\ main \in Commits /\ topic \in Commits /\ RefTips \subseteq Commits
      /\ remotes \in [{"main", "topic"} -> Commits]
  BY TipsType DEF GitType
<1>1. ASSUME NEW ref \in {"main", "topic"}, NEW onto \in Commits \cup {0}, NEW tree \in SUBSET Change
      PROVE  Fine(On(ref, onto, tree))
  <2> DEFINE G == Append(commits, [parents |-> {onto} \ {0}, tree |-> tree])
             to == [remotes EXCEPT ![ref] = New]
  <2>1. {onto} \ {0} \in SUBSET DOMAIN commits
    BY DEF Commits
  <2>2. Extends(G, commits) /\ New \in DOMAIN G
    BY <1>0, <2>1, ExtendsItself, OneMore DEF New
  <2>3. Commits \subseteq DOMAIN G
    BY <1>0, <2>2, AncestorsStand DEF Commits
  <2>4. to \in [{"main", "topic"} -> DOMAIN G]
    <3> HIDE DEF G
    <3> QED
      BY <1>0, <2>2, <2>3
  <2>5. On(ref, onto, tree) = [commits |-> G, remotes |-> to]
    OBVIOUS
  <2> HIDE DEF G, to, On
  <2> QED
    BY <2>2, <2>4, <2>5
<1>2. event \in {On("main", main, Flip(commits[main].tree, x)) : x \in Edit}
        \/ event \in {On("main", main, Squashed(t)) : t \in {u \in RefTips : ~IsAncestor(commits, u, main)}}
        \/ event = On("topic", base, commits[topic].tree)
        \/ event = [commits |-> new.commits, remotes |-> [remotes EXCEPT !["topic"] = new.tip]]
  BY DEF ForgeEvents
<1> HIDE DEF On
<1>3. CASE event \in {On("main", main, Flip(commits[main].tree, x)) : x \in Edit}
  <2>1. PICK x \in Edit : event = On("main", main, Flip(commits[main].tree, x))
    BY <1>3
  <2>2. Flip(commits[main].tree, x) \in SUBSET Change
    BY <1>0, FlipType
  <2> QED
    BY <1>0, <1>1, <2>1, <2>2
<1>4. CASE event \in {On("main", main, Squashed(t)) : t \in {u \in RefTips : ~IsAncestor(commits, u, main)}}
  <2>1. PICK t \in RefTips : event = On("main", main, Squashed(t))
    BY <1>4
  <2>2. commits[main].tree \subseteq Change
        /\ RangePatchID(commits, MergeBase(commits, t, main), t).added \subseteq Change
    BY <1>0, RangePatchType, CommitType DEF Commits
  <2>3. Squashed(t) \in SUBSET Change
    BY <2>2
  <2> QED
    BY <1>0, <1>1, <2>1, <2>3
<1>5. CASE event = On("topic", base, commits[topic].tree)
  <2>1. commits[topic].tree \in SUBSET Change
    BY <1>0, CommitType DEF Commits
  <2>2. base \in Commits \cup {0}
    BY <1>0, MergeBaseIs, AncestorsType DEF Commits
  <2> QED
    BY <1>0, <1>1, <1>5, <2>1, <2>2
<1>6. CASE event = [commits |-> new.commits, remotes |-> [remotes EXCEPT !["topic"] = new.tip]]
  <2>1. line \in SUBSET Commits
    BY <1>0, SegmentType DEF Commits
  <2>2. Extends(new.commits, commits) /\ new.tip \in DOMAIN new.commits
    BY <1>0, <2>1, ReplayedType
  <2>3. Commits \subseteq DOMAIN new.commits
    BY <1>0, <2>2, AncestorsStand DEF Commits
  <2> HIDE DEF new
  <2>4. [remotes EXCEPT !["topic"] = new.tip] \in [{"main", "topic"} -> DOMAIN new.commits]
    BY <1>0, <2>2, <2>3
  <2> QED
    BY <1>6, <2>2, <2>4
<1> QED
  BY <1>1, <1>2, <1>3, <1>4, <1>5, <1>6

-----------------------------------------------------------------------------
(* The steps of git and its user.                                          *)

\* What dm knows stays true of a history that goes on.
LEMMA GrowthKeeps ==
  ASSUME MInv, Extends(commits', commits), rewrites \subseteq rewrites',
         rewrites' \subseteq Commits' \X Commits',
         cut' = cut \/ cut' = {}, UNCHANGED <<noted, verdict, nomatch, tried>>
  PROVE  /\ Commits \subseteq Commits' /\ Tip \in Commits'
         /\ noted' \subseteq Commits' /\ VerdictsType(verdict)'
         /\ nomatch' \subseteq Commits' \X Commits' /\ tried' \subseteq Commits' \X Commits'
         /\ RewriteBound(verdict)' /\ MemoInv'
<1>1. Commits \subseteq Commits'
  BY AncestorsStand DEF Commits, Extends, IsHistory
<1>2. Tip \in Commits'
  BY <1>1, TipsType DEF MInv
<1>3. VerdictsType(verdict)'
  BY <1>1 DEF MInv, StoreType, VerdictsType, Verdict
<1>4. RewriteBound(verdict)'
  <2>1. ASSUME NEW o \in DOMAIN verdict, verdict[o].by = "m1"
        PROVE  \E p \in rewrites' : p[2] = verdict[o].as /\ IsAncestor(commits', o, p[1])
    <3>1. PICK p \in rewrites : p[2] = verdict[o].as /\ IsAncestor(commits, o, p[1])
      BY <2>1 DEF MInv, RewriteBound
    <3>2. p[1] \in DOMAIN commits
      BY DEF MInv, GitType, Commits
    <3>3. IsAncestor(commits', o, p[1])
      BY <3>1, <3>2, AncestorsStand DEF IsAncestor
    <3> QED
      BY <3>1, <3>3
  <2> QED
    BY <2>1 DEF RewriteBound
<1>5. MemoInv'
  <2>1. ASSUME NEW p \in nomatch \ tried PROVE AttemptSquash(commits', p[1], p[2]) = {}
    <3>1. p[1] \in DOMAIN commits /\ p[2] \in DOMAIN commits
      BY DEF MInv, StoreType, Commits
    <3>2. AttemptSquash(commits, p[1], p[2]) = {}
      BY DEF MInv, MemoInv, FailsAlways
    <3> QED
      BY <3>1, <3>2, SquashStands
  <2>2. nomatch # {} => cut' = {}
    BY DEF MInv, MemoInv, qualified
  <2> QED
    BY <2>1, <2>2 DEF MInv, MemoInv, FailsAlways, qualified
<1> QED
  BY <1>1, <1>2, <1>3, <1>4, <1>5 DEF MInv, StoreType

\* A sync that has fetched goes on with what it fetched.
LEMMA SessionKeeps ==
  ASSUME SessionType, Commits \subseteq Commits', UNCHANGED session
  PROVE  SessionType'
<1>1. Pair \subseteq Pair'
  BY DEF Pair
<1> QED
  BY <1>1 DEF SessionType

\* A branch moves, and its reflog says so.
LEMMA MoveKeeps ==
  ASSUME MInv, Extends(commits', commits), NEW c \in Commits',
         NEW how \in {"commit", "reset", "rebase", "amend"}, MoveTo(c, how),
         UNCHANGED <<head, remotes>>,
         rewrites \subseteq rewrites', rewrites' \subseteq Commits' \X Commits',
         how \in {"rebase", "amend"} => <<Tip, c>> \in rewrites'
  PROVE  GitType' /\ ReflogInv'
<1>1. Commits \subseteq Commits' /\ Tip \in Commits' /\ Tip \in Commits
  BY AncestorsStand, TipsType DEF MInv, Commits, Extends, IsHistory
<1> DEFINE e == [how |-> how, old |-> Tip, new |-> c]
           M == Move'
<1>2. e \in M /\ e.how = how /\ e.old = Tip /\ e.new = c
  BY <1>1 DEF Move
<1>3. Move \subseteq M
  BY <1>1 DEF Move
<1>4. reflog' = [reflog EXCEPT ![head] = Append(reflog[head], e)]
      /\ tips' = [tips EXCEPT ![head] = c] /\ head \in Branches
      /\ DOMAIN reflog = Branches /\ DOMAIN reflog' = Branches
  BY DEF MoveTo, MInv, GitType
<1> HIDE DEF e
<1>5. ASSUME NEW b \in Branches
      PROVE  /\ reflog'[b] \in Seq(M)
             /\ \A i \in DOMAIN reflog'[b] :
                  reflog'[b][i].how \in {"rebase", "amend"}
                    => <<reflog'[b][i].old, reflog'[b][i].new>> \in rewrites'
  <2>1. reflog[b] \in Seq(M)
    <3> DEFINE N == Move
    <3>1. reflog[b] \in Seq(N) /\ N \subseteq M
      BY <1>3 DEF MInv, GitType
    <3> HIDE DEF N, M
    <3> QED
      BY <3>1
  <2>2. \A i \in DOMAIN reflog[b] : reflog[b][i].how \in {"rebase", "amend"}
          => <<reflog[b][i].old, reflog[b][i].new>> \in rewrites'
    BY DEF MInv, ReflogInv
  <2>3. CASE b # head
    <3>1. reflog'[b] = reflog[b]
      BY <1>4, <2>3
    <3> QED
      BY <2>1, <2>2, <3>1
  <2>4. CASE b = head
    <3>1. reflog'[b] = Append(reflog[b], e)
      BY <1>4, <2>4
    <3> DEFINE log == reflog[b]
    <3> HIDE DEF log, M
    <3>2. log \in Seq(M) /\ e \in M
      BY <1>2, <2>1 DEF log
    <3>3. Append(log, e) \in Seq(M) /\ DOMAIN Append(log, e) = DOMAIN log \cup {Len(log) + 1}
          /\ Append(log, e)[Len(log) + 1] = e /\ \A i \in DOMAIN log : Append(log, e)[i] = log[i]
      BY <3>2
    <3>4. how \in {"rebase", "amend"} => <<e.old, e.new>> \in rewrites'
      BY <1>2
    <3> QED
      BY <1>2, <2>2, <3>1, <3>3, <3>4 DEF log
  <2> QED
    BY <2>3, <2>4
<1>6. tips' \in [Branches -> Commits']
  BY <1>1, <1>4 DEF MInv, GitType
<1>7. remotes' \in [{"main", "topic"} -> Commits'] /\ head' \in Branches
  BY <1>1 DEF MInv, GitType
<1>8. reflog' = [b \in Branches |-> reflog'[b]]
  BY <1>4 DEF MInv, GitType
<1>9. reflog' \in [Branches -> Seq(M)]
  BY <1>5, <1>8
<1>10. IsHistory(commits')
  BY DEF Extends
<1> QED
  BY <1>5, <1>6, <1>7, <1>9, <1>10 DEF GitType, ReflogInv

\* So the invariant survives a move of the branch checked out.
LEMMA MoveStep ==
  ASSUME MInv, Extends(commits', commits), NEW c \in Commits',
         NEW how \in {"commit", "reset", "rebase", "amend"}, MoveTo(c, how),
         UNCHANGED <<cut, head, remotes, store, session, judged>>,
         rewrites' = rewrites \/ rewrites' = rewrites \cup {<<Tip, c>>},
         how \in {"rebase", "amend"} => <<Tip, c>> \in rewrites'
  PROVE  MInv'
<1>1. Commits \subseteq Commits' /\ Tip \in Commits'
  BY AncestorsStand, TipsType DEF MInv, Commits, Extends, IsHistory
<1>2. rewrites \subseteq rewrites' /\ rewrites' \subseteq Commits' \X Commits'
  BY <1>1 DEF MInv, GitType
<1>3. GitType' /\ ReflogInv'
  BY <1>2, MoveKeeps
<1>4. UNCHANGED <<noted, verdict, nomatch, tried>>
  BY DEF store
<1>5. StoreType' /\ RewriteBound(verdict)' /\ MemoInv'
  BY <1>2, <1>4, GrowthKeeps DEF StoreType, MInv
<1>6. SessionType'
  BY <1>1, SessionKeeps DEF MInv
<1> QED
  BY <1>3, <1>5, <1>6 DEF MInv

LEMMA CommitChangeStep == ASSUME MInv, NEW x \in Edit, CommitChange(x) PROVE MInv'
<1>1. Tip \in Commits /\ IsHistory(commits)
  BY TipsType DEF MInv, GitType
<1>2. Extends(commits', commits) /\ New \in Commits'
  BY <1>1, FlipType, ExtendsItself, OneMore DEF CommitChange, New, Commits
<1>3. MoveTo(New, "commit") /\ UNCHANGED <<cut, head, remotes, store, session, judged, rewrites>>
  BY DEF CommitChange, Works
<1> QED
  BY <1>2, <1>3, MoveStep

LEMMA MergeMainStep == ASSUME MInv, MergeMain PROVE MInv'
<1> DEFINE onto == remotes["main"]
           d == RangePatchID(commits, MergeBase(commits, Tip, onto), onto)
           tree == (commits[Tip].tree \cup d.added) \ d.removed
<1>1. Tip \in Commits /\ onto \in Commits /\ IsHistory(commits)
  BY TipsType DEF MInv, GitType
<1>2. d.added \subseteq Change /\ commits[Tip].tree \subseteq Change
  BY <1>1, RangePatchType, CommitType DEF Commits
<1>3. tree \in SUBSET Change
  BY <1>2
<1>4. commits' = Append(commits, [parents |-> {Tip, onto}, tree |-> tree])
  BY DEF MergeMain
<1> HIDE DEF tree
<1>5. Extends(commits', commits) /\ New \in Commits'
  BY <1>1, <1>3, <1>4, ExtendsItself, OneMore DEF New, Commits
<1>6. MoveTo(New, "commit") /\ UNCHANGED <<cut, head, remotes, store, session, judged, rewrites>>
  BY DEF MergeMain, Works
<1> QED
  BY <1>5, <1>6, MoveStep

LEMMA AmendStep == ASSUME MInv, NEW tree \in SUBSET Change, Amend(tree) PROVE MInv'
<1>1. Tip \in Commits /\ IsHistory(commits)
  BY TipsType DEF MInv, GitType
<1>2. commits[Tip].parents \in SUBSET DOMAIN commits
  BY <1>1, CommitType DEF Commits
<1>3. Extends(commits', commits) /\ New \in Commits'
  BY <1>1, <1>2, ExtendsItself, OneMore DEF Amend, New, Commits
<1>4. /\ MoveTo(New, "amend") /\ rewrites' = rewrites \cup {<<Tip, New>>}
      /\ UNCHANGED <<cut, head, remotes, store, session, judged>>
  BY DEF Amend, Rewrites, Works
<1> QED
  BY <1>3, <1>4, MoveStep

LEMMA RebaseStep == ASSUME MInv, NEW keep \in SUBSET Commits, Rebase(keep) PROVE MInv'
<1> DEFINE new == Replayed(keep, remotes["main"])
<1>1. remotes["main"] \in Commits /\ IsHistory(commits)
  BY TipsType DEF MInv, GitType
<1>2. Extends(new.commits, commits) /\ new.tip \in DOMAIN new.commits
  BY <1>1, ReplayedType
<1> HIDE DEF new
<1>3. /\ commits' = new.commits /\ MoveTo(new.tip, "rebase")
      /\ rewrites' = rewrites \cup {<<Tip, new.tip>>}
      /\ UNCHANGED <<cut, head, remotes, store, session, judged>>
  BY DEF Rebase, Rewrites, Works, new
<1>4. Extends(commits', commits) /\ new.tip \in Commits'
  BY <1>2, <1>3 DEF Commits
<1> QED
  BY <1>3, <1>4, MoveStep

LEMMA ResetStep == ASSUME MInv, NEW c \in Commits, Reset(c) PROVE MInv'
<1>1. Extends(commits', commits) /\ c \in Commits'
  BY ExtendsItself DEF MInv, GitType, Reset, Commits
<1>2. MoveTo(c, "reset") /\ UNCHANGED <<cut, head, remotes, store, session, judged, rewrites>>
  BY DEF Reset, Works
<1> QED
  BY <1>1, <1>2, MoveStep

\* The commits there are do not change, nor what names them.
LEMMA SameCommits ==
  ASSUME UNCHANGED commits
  PROVE  Commits' = Commits /\ Pair' = Pair /\ Move' = Move /\ Verdict' = Verdict
BY DEF Commits, Pair, Move, Verdict

LEMMA CheckoutStep == ASSUME MInv, NEW b \in Branches, Checkout(b) PROVE MInv'
<1>1. /\ head' \in Branches
      /\ UNCHANGED <<commits, cut, tips, remotes, reflog, rewrites, store, session, judged>>
  BY DEF Checkout, Works
<1>2. Commits' = Commits /\ Pair' = Pair /\ Move' = Move /\ Verdict' = Verdict
  BY <1>1, SameCommits
<1>3. GitType' /\ ReflogInv'
  BY <1>1, <1>2 DEF MInv, GitType, ReflogInv
<1>4. StoreType' /\ SessionType' /\ RewriteBound(verdict)' /\ MemoInv'
  BY <1>1, <1>2 DEF MInv, StoreType, SessionType, VerdictsType, RewriteBound, MemoInv, FailsAlways,
                    qualified, store
<1> QED
  BY <1>3, <1>4 DEF MInv

LEMMA DeepenStep == ASSUME MInv, Deepen PROVE MInv'
<1>1. cut' = {} /\ UNCHANGED <<commits, head, tips, remotes, reflog, rewrites, store, session, judged>>
  BY DEF Deepen, Works
<1>2. Commits' = Commits /\ Pair' = Pair /\ Move' = Move /\ Verdict' = Verdict
  BY <1>1, SameCommits
<1>3. GitType' /\ ReflogInv'
  BY <1>1, <1>2 DEF MInv, GitType, ReflogInv
<1>4. StoreType' /\ SessionType' /\ RewriteBound(verdict)' /\ MemoInv'
  BY <1>1, <1>2 DEF MInv, StoreType, SessionType, VerdictsType, RewriteBound, MemoInv, FailsAlways,
                    qualified, store
<1> QED
  BY <1>3, <1>4 DEF MInv

\* A fetch brings commits and moves what is remote.
LEMMA FetchedKeeps ==
  ASSUME MInv, NEW event \in ForgeEvents, commits' = event.commits, remotes' = event.remotes,
         UNCHANGED <<cut, tips, head, reflog, rewrites, store, judged>>
  PROVE  /\ GitType' /\ ReflogInv' /\ StoreType' /\ RewriteBound(verdict)' /\ MemoInv'
         /\ Commits \subseteq Commits'
<1>1. Extends(commits', commits) /\ remotes' \in [{"main", "topic"} -> Commits']
  BY EventType DEF MInv, Commits
<1>2. Commits \subseteq Commits'
  BY <1>1, AncestorsStand DEF Commits, Extends, IsHistory
<1>3. rewrites' \subseteq Commits' \X Commits' /\ UNCHANGED <<noted, verdict, nomatch, tried>>
  BY <1>2 DEF MInv, GitType, store
<1>4. StoreType' /\ RewriteBound(verdict)' /\ MemoInv'
  BY <1>1, <1>3, GrowthKeeps DEF StoreType, MInv
<1>5. \A b \in Branches : reflog[b] \in Seq(Move')
  <2> DEFINE M == Move
             N == Move'
  <2>1. M \subseteq N
    BY <1>2 DEF Move
  <2>2. \A b \in Branches : reflog[b] \in Seq(M)
    BY DEF MInv, GitType
  <2> HIDE DEF M, N
  <2>3. \A b \in Branches : reflog[b] \in Seq(N)
    BY <2>1, <2>2
  <2> QED
    BY <2>3 DEF N
<1>6. reflog \in [Branches -> Seq(Move')]
  <2>1. reflog = [b \in Branches |-> reflog[b]]
    BY DEF MInv, GitType
  <2> DEFINE T == Seq(Move')
  <2>2. \A b \in Branches : reflog[b] \in T
    BY <1>5
  <2> HIDE DEF T
  <2>3. reflog \in [Branches -> T]
    BY <2>1, <2>2
  <2> QED
    BY <2>3 DEF T
<1>7. GitType'
  <2>1. IsHistory(commits')
    BY <1>1 DEF Extends
  <2>2. tips' \in [Branches -> Commits']
    BY <1>2 DEF MInv, GitType
  <2> QED
    BY <1>1, <1>3, <1>6, <2>1, <2>2 DEF MInv, GitType
<1>8. ReflogInv'
  BY DEF MInv, ReflogInv
<1> QED
  BY <1>2, <1>4, <1>7, <1>8

LEMMA FetchStep == ASSUME MInv, NEW event \in ForgeEvents, Fetch(event) PROVE MInv'
<1>1. /\ commits' = event.commits /\ remotes' = event.remotes
      /\ UNCHANGED <<cut, tips, head, reflog, rewrites, store, session, judged>>
  BY DEF Fetch, Works
<1>2. /\ GitType' /\ ReflogInv' /\ StoreType' /\ RewriteBound(verdict)' /\ MemoInv'
      /\ Commits \subseteq Commits'
  BY <1>1, FetchedKeeps
<1>3. SessionType'
  BY <1>1, <1>2, SessionKeeps DEF MInv
<1> QED
  BY <1>2, <1>3 DEF MInv

-----------------------------------------------------------------------------
(* The steps of dm.                                                        *)

\* The forced updates of a fetch are as many as there are refs, or fewer.
LEMMA ForcedUpdatesType ==
  ASSUME MInv, NEW event \in ForgeEvents
  PROVE  /\ ForcedUpdates(event) \subseteq [old : Commits, new : DOMAIN event.commits]
         /\ IsFiniteSet(ForcedUpdates(event))
<1> DEFINE R == {q \in DOMAIN remotes : ~IsAncestor(event.commits, remotes[q], event.remotes[q])}
           e(r) == [old |-> remotes[r], new |-> event.remotes[r]]
           F == {e(r) : r \in R}
           h == [r \in R |-> e(r)]
<1>1. remotes \in [{"main", "topic"} -> Commits]
      /\ event.remotes \in [{"main", "topic"} -> DOMAIN event.commits]
  BY EventType DEF MInv, GitType
<1>2. ForcedUpdates(event) = F
  BY DEF ForcedUpdates
<1>3. R \in SUBSET {"main", "topic"}
  BY <1>1
<1>4. F \subseteq [old : Commits, new : DOMAIN event.commits]
  BY <1>1, <1>3
<1>5. IsFiniteSet(R)
  <2>1. IsFiniteSet({"main", "topic"})
    <3>1. IsFiniteSet({}) /\ IsFiniteSet({"main"})
      BY FS_EmptySet, FS_Singleton
    <3>2. IsFiniteSet({"main"} \cup {"topic"})
      BY <3>1, FS_AddElement
    <3>3. {"main"} \cup {"topic"} = {"main", "topic"}
      OBVIOUS
    <3> QED
      BY <3>2, <3>3
  <2> QED
    BY <1>3, <2>1, FS_Subset
<1>6. IsFiniteSet(F)
  <2>1. h \in [R -> F] /\ \A x \in F : \E r \in R : h[r] = x
    OBVIOUS
  <2> HIDE DEF h, F, R
  <2> QED
    BY <1>5, <2>1, ImageIsFinite
<1> HIDE DEF F
<1> QED
  BY <1>2, <1>4, <1>6

LEMMA SyncFetchStep == ASSUME MInv, NEW event \in ForgeEvents, SyncFetch(event) PROVE MInv'
<1>1. /\ commits' = event.commits /\ remotes' = event.remotes
      /\ UNCHANGED <<cut, tips, head, reflog, rewrites, store, judged>>
      /\ session' = [pairs |-> ForcedUpdates(event), head |-> Tip]
  BY DEF SyncFetch
<1>2. /\ GitType' /\ ReflogInv' /\ StoreType' /\ RewriteBound(verdict)' /\ MemoInv'
      /\ Commits \subseteq Commits'
  BY <1>1, FetchedKeeps
<1>3. session'.pairs = ForcedUpdates(event) /\ session'.head = Tip
  BY <1>1
<1>4. Tip \in Commits'
  BY <1>2, TipsType DEF MInv
<1>5. session'.pairs \subseteq Pair' /\ IsFiniteSet(session'.pairs)
  BY <1>1, <1>2, <1>3, ForcedUpdatesType DEF Pair, Commits
<1>6. SessionType'
  BY <1>3, <1>4, <1>5 DEF SessionType
<1> QED
  BY <1>2, <1>6 DEF MInv

LEMMA SameGit ==
  ASSUME MInv, UNCHANGED git
  PROVE  /\ GitType' /\ ReflogInv' /\ Commits' = Commits /\ Pair' = Pair
         /\ UNCHANGED <<commits, cut, rewrites>>
<1>1. UNCHANGED <<commits, cut, tips, remotes, head, reflog, rewrites>>
  BY DEF git
<1>2. Commits' = Commits /\ Pair' = Pair /\ Move' = Move
  BY <1>1, SameCommits
<1> QED
  BY <1>1, <1>2 DEF MInv, GitType, ReflogInv

\* What a pass leaves is as it should be.
LEMMA PassingKeeps ==
  ASSUME MInv, NEW pairs, NEW st, Passing(st, pairs), UNCHANGED git, nomatch' = st.memo,
         tried' = tried \cup ({<<p.old, p.new>> : p \in pairs} \cap st.memo)
  PROVE  /\ nomatch' \subseteq Commits' \X Commits' /\ tried' \subseteq Commits' \X Commits'
         /\ MemoInv'
<1>1. Commits' = Commits /\ UNCHANGED <<commits, cut, rewrites>>
  BY SameGit
<1>2. st.memo \subseteq Commits \X Commits /\ nomatch \subseteq st.memo
  BY DEF Passing
<1>3. tried' \subseteq nomatch'
  BY <1>2 DEF MInv, MemoInv
<1>4. ASSUME NEW p \in nomatch' \ tried' PROVE FailsAlways(p)
  BY <1>4 DEF Passing, MInv, MemoInv
<1>5. nomatch' # {} => qualified
  BY DEF Passing, MInv, MemoInv
<1> QED
  BY <1>1, <1>2, <1>3, <1>4, <1>5 DEF MInv, StoreType, MemoInv, FailsAlways, qualified

LEMMA VerdictsKeep ==
  ASSUME MInv, NEW v, VerdictsType(v), RewriteBound(v), UNCHANGED git, verdict' = v
  PROVE  VerdictsType(verdict)' /\ RewriteBound(verdict)'
<1>1. Commits' = Commits /\ UNCHANGED <<commits, cut, rewrites>> /\ Verdict' = Verdict
  BY SameGit, SameCommits
<1> QED
  BY <1>1 DEF VerdictsType, RewriteBound

LEMMA BatchStep == ASSUME MInv, Batch PROVE MInv'
<1>1. PICK st \in Passed(Tip, {}) : verdict' = st.v /\ nomatch' = st.memo
  BY DEF Batch, Keep
<1>2. /\ noted' \subseteq noted \cup {Tip}
      /\ UNCHANGED <<git, session, tried, judged>>
  BY DEF Batch
<1>3. Tip \in Commits
  BY TipsType DEF MInv
<1>4. Passing(st, {})
  BY <1>3, FS_EmptySet, PassedKeeps
<1>5. GitType' /\ ReflogInv' /\ Commits' = Commits /\ Pair' = Pair
  BY <1>2, SameGit
<1>6. nomatch' \subseteq Commits' \X Commits' /\ tried' \subseteq Commits' \X Commits' /\ MemoInv'
  BY <1>1, <1>2, <1>4, PassingKeeps
<1>7. VerdictsType(verdict)' /\ RewriteBound(verdict)'
  BY <1>1, <1>2, <1>4, VerdictsKeep DEF Passing
<1>8. StoreType'
  BY <1>2, <1>3, <1>5, <1>6, <1>7 DEF MInv, StoreType
<1>9. SessionType'
  BY <1>2, <1>5 DEF MInv, SessionType
<1> QED
  BY <1>5, <1>6, <1>7, <1>8, <1>9 DEF MInv

LEMMA BatchDiesStep == ASSUME MInv, BatchDies PROVE MInv'
<1>1. PICK st \in Died(Tip, {}) : verdict' = st.v /\ nomatch' = st.memo
  BY DEF BatchDies, Keep
<1>2. UNCHANGED <<git, noted, session, tried, judged>>
  BY DEF BatchDies
<1>3. Tip \in Commits
  BY TipsType DEF MInv
<1>4. Passing(st, {})
  BY <1>3, FS_EmptySet, DiedKeeps
<1>5. GitType' /\ ReflogInv' /\ Commits' = Commits /\ Pair' = Pair
  BY <1>2, SameGit
<1>6. nomatch' \subseteq Commits' \X Commits' /\ tried' \subseteq Commits' \X Commits' /\ MemoInv'
  BY <1>1, <1>2, <1>4, PassingKeeps
<1>7. VerdictsType(verdict)' /\ RewriteBound(verdict)'
  BY <1>1, <1>2, <1>4, VerdictsKeep DEF Passing
<1>8. StoreType'
  BY <1>2, <1>3, <1>5, <1>6, <1>7 DEF MInv, StoreType
<1>9. SessionType'
  BY <1>2, <1>5 DEF MInv, SessionType
<1> QED
  BY <1>5, <1>6, <1>7, <1>8, <1>9 DEF MInv

\* A sync ends with what its pass leaves, whether it ran to its end or not.
LEMMA SyncEnds ==
  ASSUME MInv, NEW st, Passing(st, session.pairs), Keep(st), session' = NoSession,
         tried' = tried \cup ({<<p.old, p.new>> : p \in session.pairs} \cap st.memo),
         UNCHANGED <<git, noted, judged>>
  PROVE  MInv'
<1>1. verdict' = st.v /\ nomatch' = st.memo
  BY DEF Keep
<1>2. GitType' /\ ReflogInv' /\ Commits' = Commits /\ Pair' = Pair
  BY SameGit
<1>3. nomatch' \subseteq Commits' \X Commits' /\ tried' \subseteq Commits' \X Commits' /\ MemoInv'
  BY <1>1, PassingKeeps
<1>4. VerdictsType(verdict)' /\ RewriteBound(verdict)'
  BY <1>1, VerdictsKeep DEF Passing
<1>5. StoreType'
  BY <1>2, <1>3, <1>4 DEF MInv, StoreType
<1>6. SessionType'
  <2>1. session'.pairs = {} /\ session' = NoSession'
    BY DEF NoSession
  <2> QED
    BY <2>1, FS_EmptySet DEF SessionType
<1> QED
  BY <1>2, <1>3, <1>4, <1>5, <1>6 DEF MInv

LEMMA SyncMintStep == ASSUME MInv, SyncMint PROVE MInv'
<1>1. PICK st \in Passed(session.head, session.pairs) :
        /\ Keep(st)
        /\ tried' = tried \cup ({<<p.old, p.new>> : p \in session.pairs} \cap st.memo)
  BY DEF SyncMint
<1>2. session.pairs \in SUBSET Pair /\ IsFiniteSet(session.pairs) /\ session.head \in Commits
  BY DEF MInv, SessionType, SyncMint
<1>3. Passing(st, session.pairs)
  BY <1>2, PassedKeeps
<1>4. session' = NoSession /\ UNCHANGED <<git, noted, judged>>
  BY DEF SyncMint
<1> QED
  BY <1>1, <1>3, <1>4, SyncEnds

LEMMA SyncDiesStep == ASSUME MInv, SyncDies PROVE MInv'
<1>1. PICK st \in {Now} \cup Died(session.head, session.pairs) :
        /\ Keep(st)
        /\ tried' = tried \cup ({<<p.old, p.new>> : p \in session.pairs} \cap st.memo)
  BY DEF SyncDies
<1>2. session.pairs \in SUBSET Pair /\ IsFiniteSet(session.pairs) /\ session.head \in Commits
  BY DEF MInv, SessionType, SyncDies
<1>3. Passing(Now, session.pairs)
  BY NowPasses DEF MInv
<1>4. Passing(st, session.pairs)
  BY <1>1, <1>2, <1>3, DiedKeeps
<1>5. session' = NoSession /\ UNCHANGED <<git, noted, judged>>
  BY DEF SyncDies
<1> QED
  BY <1>1, <1>4, <1>5, SyncEnds

\* A manual verdict is no rewriting.
LEMMA ManualKeeps ==
  ASSUME NEW v, VerdictsType(v), RewriteBound(v), NEW line \in SUBSET Commits,
         NEW as \in Commits \cup {0}
  PROVE  /\ VerdictsType(Minted(v, line, as, "m5"))
         /\ RewriteBound(Minted(v, line, as, "m5"))
<1> DEFINE w == Minted(v, line, as, "m5")
<1>1. VerdictsType(w)
  BY MintedType
<1>2. /\ DOMAIN w = DOMAIN v \cup line
      /\ \A o \in line : w[o].by = "m5"
      /\ \A o \in DOMAIN v \ line : w[o] = v[o]
  BY DEF Minted
<1> HIDE DEF w
<1>3. RewriteBound(w)
  <2>1. ASSUME NEW o \in DOMAIN w, w[o].by = "m1"
        PROVE  \E p \in rewrites : p[2] = w[o].as /\ IsAncestor(commits, o, p[1])
    <3>1. o \in DOMAIN v /\ w[o] = v[o]
      BY <1>2, <2>1
    <3> QED
      BY <2>1, <3>1 DEF RewriteBound
  <2> QED
    BY <2>1 DEF RewriteBound
<1> QED
  BY <1>1, <1>3 DEF w

LEMMA DisposedIs ==
  ASSUME GitType, NEW v, NEW subject \in Commits, NEW as \in Commits
  PROVE  \E line \in SUBSET Commits : Disposed(v, subject, as) = Minted(v, line, as, "m5")
<1> DEFINE line == BindSegment(History, subject, as, Candidates(v, TRUE) \cup {subject})
<1>1. IsHistory(History) /\ DOMAIN History = Commits
  BY HistoryIs DEF GitType
<1>2. line \subseteq Segment(History, MergeBase(History, subject, as), subject)
  BY DEF BindSegment
<1>3. line \subseteq Commits
  BY <1>1, <1>2, SegmentType
<1>4. Disposed(v, subject, as) = Minted(v, IF line = {} THEN {subject} ELSE line, as, "m5")
  BY DEF Disposed
<1> HIDE DEF line
<1> QED
  BY <1>3, <1>4

LEMMA JudgeStep == ASSUME MInv, Judge PROVE MInv'
<1>1. PICK st \in Passed(Tip, {}) :
        /\ nomatch' = st.memo
        /\ \/ \E o \in DOMAIN Bindings(st.v) : verdict' = Minted(st.v, {o}, 0, "m5")
           \/ \E subject \in noted \ {remotes["main"]} :
                verdict' = Disposed(st.v, subject, remotes["main"])
  BY DEF Judge
<1>2. judged' = judged + 1 /\ UNCHANGED <<git, noted, tried, session>>
  BY DEF Judge
<1>3. Tip \in Commits /\ remotes["main"] \in Commits
  BY TipsType DEF MInv
<1>4. Passing(st, {})
  BY <1>3, FS_EmptySet, PassedKeeps
<1>5. GitType' /\ ReflogInv' /\ Commits' = Commits /\ Pair' = Pair
  BY <1>2, SameGit
<1>6. nomatch' \subseteq Commits' \X Commits' /\ tried' \subseteq Commits' \X Commits' /\ MemoInv'
  BY <1>1, <1>2, <1>4, PassingKeeps
<1>7. VerdictsType(verdict') /\ RewriteBound(verdict')
  <2>1. VerdictsType(st.v) /\ RewriteBound(st.v)
    BY <1>4 DEF Passing
  <2>2. ASSUME NEW o \in DOMAIN Bindings(st.v), verdict' = Minted(st.v, {o}, 0, "m5")
        PROVE  VerdictsType(verdict') /\ RewriteBound(verdict')
    <3>1. {o} \in SUBSET Commits
      BY <2>1 DEF VerdictsType, Bindings
    <3> QED
      BY <2>1, <2>2, <3>1, ManualKeeps
  <2>3. ASSUME NEW subject \in noted, verdict' = Disposed(st.v, subject, remotes["main"])
        PROVE  VerdictsType(verdict') /\ RewriteBound(verdict')
    <3>1. subject \in Commits
      BY DEF MInv, StoreType
    <3>2. PICK line \in SUBSET Commits :
            Disposed(st.v, subject, remotes["main"]) = Minted(st.v, line, remotes["main"], "m5")
      BY <1>3, <3>1, DisposedIs DEF MInv
    <3> QED
      BY <1>3, <2>1, <2>3, <3>2, ManualKeeps
  <2> QED
    BY <1>1, <2>2, <2>3
<1>8. VerdictsType(verdict)' /\ RewriteBound(verdict)'
  BY <1>2, <1>7, VerdictsKeep
<1>9. StoreType'
  BY <1>2, <1>5, <1>6, <1>8 DEF MInv, StoreType
<1>10. SessionType'
  BY <1>2, <1>5 DEF MInv, SessionType
<1> QED
  BY <1>5, <1>6, <1>8, <1>9, <1>10 DEF MInv

LEMMA InitHolds == ASSUME Init PROVE MInv
<1>1. PICK s \in Start :
        /\ commits = s.commits /\ cut = s.cut /\ tips = s.tips /\ remotes = s.remotes
        /\ head = s.head /\ noted = s.noted
  BY DEF Init
<1>2. /\ IsHistory(commits) /\ tips \in [Branches -> Commits] /\ head \in Branches
      /\ remotes \in [{"main", "topic"} -> Commits] /\ noted \subseteq Commits
  BY <1>1, MintAssumption DEF Commits
<1>3. reflog = [b \in Branches |-> <<>>] /\ verdict = [o \in {} |-> 0]
      /\ nomatch = {} /\ rewrites = {} /\ tried = {} /\ session = NoSession /\ judged = 0
  BY DEF Init
<1>4. GitType
  <2> DEFINE M == Move
  <2>1. reflog \in [Branches -> Seq(M)]
    <3> HIDE DEF M
    <3> QED
      BY <1>3
  <2> QED
    BY <1>2, <1>3, <2>1 DEF GitType
<1>5. VerdictsType(verdict) /\ RewriteBound(verdict)
  BY <1>3 DEF VerdictsType, RewriteBound
<1>6. StoreType /\ MemoInv
  BY <1>2, <1>3, <1>5 DEF StoreType, MemoInv
<1>7. SessionType
  <2>1. session.pairs = {}
    BY <1>3 DEF NoSession
  <2> QED
    BY <1>3, <2>1, FS_EmptySet DEF SessionType
<1>8. ReflogInv
  BY <1>3 DEF ReflogInv
<1> QED
  BY <1>4, <1>5, <1>6, <1>7, <1>8 DEF MInv

\* Each step keeps the invariant.
LEMMA NextKeeps == ASSUME MInv, [Next]_vars PROVE MInv'
<1>0. Tip \in Commits /\ IsHistory(commits) /\ RefTips \subseteq Commits
  BY TipsType DEF MInv, GitType
<1>1. ASSUME NEW x \in Edit, CommitChange(x) PROVE MInv'
  BY <1>1, CommitChangeStep
<1>2. CASE MergeMain
  BY <1>2, MergeMainStep
<1>3. ASSUME NEW tree \in {commits[Tip].tree} \cup {Flip(commits[Tip].tree, x) : x \in Edit},
             Amend(tree)
      PROVE  MInv'
  <2>1. tree \in SUBSET Change
    <3>1. commits[Tip].tree \in SUBSET Change
      BY <1>0, CommitType DEF Commits
    <3>2. \A x \in Edit : Flip(commits[Tip].tree, x) \in SUBSET Change
      BY <1>0, FlipType
    <3> QED
      BY <3>1, <3>2
  <2> QED
    BY <1>3, <2>1, AmendStep
<1>4. ASSUME NEW keep \in SUBSET Line, Rebase(keep) PROVE MInv'
  <2>1. Line \subseteq Segment(History, MergeBase(History, Tip, remotes["main"]), Tip)
    BY DEF Line
  <2>2. keep \in SUBSET Commits
    BY <1>0, <2>1, HistoryIs, SegmentType
  <2> QED
    BY <1>4, <2>2, RebaseStep
<1>5. ASSUME NEW c \in RefTips \cup {p[1] : p \in rewrites}, Reset(c) PROVE MInv'
  <2>1. c \in Commits
    BY <1>0 DEF MInv, GitType
  <2> QED
    BY <1>5, <2>1, ResetStep
<1>6. ASSUME NEW b \in Branches, Checkout(b) PROVE MInv'
  BY <1>6, CheckoutStep
<1>7. CASE Deepen
  BY <1>7, DeepenStep
<1>8. ASSUME NEW event \in ForgeEvents, Fetch(event) PROVE MInv'
  BY <1>8, FetchStep
<1>9. ASSUME NEW event \in ForgeEvents, SyncFetch(event) PROVE MInv'
  BY <1>9, SyncFetchStep
<1>10. CASE Batch \/ SyncMint \/ SyncDies \/ BatchDies \/ Judge
  BY <1>10, BatchStep, SyncMintStep, SyncDiesStep, BatchDiesStep, JudgeStep
<1>11. CASE UNCHANGED vars
  <2>1. UNCHANGED <<git, noted, verdict, nomatch, tried, session, judged>>
    BY <1>11 DEF vars, store
  <2>2. GitType' /\ ReflogInv' /\ Commits' = Commits /\ Pair' = Pair /\ UNCHANGED <<commits, cut, rewrites>>
    BY <2>1, SameGit
  <2>3. Verdict' = Verdict
    BY <2>2, SameCommits
  <2> QED
    BY <2>1, <2>2, <2>3 DEF MInv, StoreType, SessionType, VerdictsType, RewriteBound, MemoInv,
                           FailsAlways, qualified
<1> QED
  BY <1>1, <1>2, <1>3, <1>4, <1>5, <1>6, <1>7, <1>8, <1>9, <1>10, <1>11 DEF Next

\* Every step of the user, of the forge and of dm keeps the types of the history
\* and of the store, and what reflogs, m1 verdicts and memos say of the past.
THEOREM MintInvariant == Spec => []MInv
<1> QED BY InitHolds, NextKeeps, PTL DEF Spec

-----------------------------------------------------------------------------
(* What the invariant gives.                                               *)

\* mintM1 binds a note only to what its line was rewritten to, however often the
\* branch was reset or used for something else in between.
THEOREM RewritesBind == Spec => []OnlyRewritesBind
<1>1. MInv => OnlyRewritesBind
  BY DEF MInv, RewriteBound, OnlyRewritesBind
<1> QED BY MintInvariant, <1>1, PTL

LEMMA StandStep ==
  ASSUME MInv, [Next]_vars, judged' = judged
  PROVE  \A o \in DOMAIN verdict : verdict'[o] = verdict[o]
<1>1. Tip \in Commits
  BY TipsType DEF MInv
<1>2. ASSUME NEW pairs \in SUBSET Pair, IsFiniteSet(pairs), NEW h \in Commits,
             NEW st \in {Now} \cup Passed(h, pairs) \cup Died(h, pairs), Keep(st)
      PROVE  \A o \in DOMAIN verdict : verdict'[o] = verdict[o]
  <2>1. Passing(Now, pairs)
    BY NowPasses DEF MInv
  <2>2. Passing(st, pairs)
    BY <1>2, <2>1, PassedKeeps, DiedKeeps
  <2> QED
    BY <1>2, <2>2 DEF Keep, Passing
<1>3. session # NoSession
        => session.pairs \in SUBSET Pair /\ IsFiniteSet(session.pairs) /\ session.head \in Commits
  BY DEF MInv, SessionType
<1>4. CASE UNCHANGED verdict
  BY <1>4
<1>5. CASE Batch \/ BatchDies
  BY <1>1, <1>2, <1>5, FS_EmptySet DEF Batch, BatchDies
<1>6. CASE SyncMint \/ SyncDies
  BY <1>2, <1>3, <1>6 DEF SyncMint, SyncDies
<1>7. CASE Judge
  BY <1>7 DEF Judge, MInv, StoreType
<1>8. CASE UNCHANGED vars
  BY <1>8 DEF vars, store
<1>9. ASSUME NEW x \in Edit, CommitChange(x) PROVE UNCHANGED verdict
  BY <1>9 DEF CommitChange, Works, store
<1>10. CASE MergeMain \/ Deepen
  BY <1>10 DEF MergeMain, Deepen, Works, store
<1>11. ASSUME NEW tree, Amend(tree) PROVE UNCHANGED verdict
  BY <1>11 DEF Amend, Works, store
<1>12. ASSUME NEW keep, Rebase(keep) PROVE UNCHANGED verdict
  BY <1>12 DEF Rebase, Works, store
<1>13. ASSUME NEW c, Reset(c) \/ Checkout(c) PROVE UNCHANGED verdict
  BY <1>13 DEF Reset, Checkout, Works, store
<1>14. ASSUME NEW event, Fetch(event) \/ SyncFetch(event) PROVE UNCHANGED verdict
  BY <1>14 DEF Fetch, SyncFetch, Works, store
<1> QED
  BY <1>4, <1>5, <1>6, <1>7, <1>8, <1>9, <1>10, <1>11, <1>12, <1>13, <1>14 DEF Next

\* Passes mint only where there is no verdict: so what a user has voided stays
\* so until he judges again.
THEOREM VoidsStand == Spec => VoidStands
<1>1. MInv /\ [Next]_vars
        => [\A o \in DOMAIN verdict : verdict[o].as = 0 /\ judged' = judged =>
              verdict'[o] = verdict[o]]_vars
  BY StandStep
<1> QED BY MintInvariant, <1>1, PTL DEF Spec, VoidStands

-----------------------------------------------------------------------------
(* Memos.                                                                  *)

\* Of two passes one remembers more, and nothing but what fails as an m3.
Ahead(s, t) ==
  /\ s = [v |-> s.v, memo |-> s.memo] /\ t = [v |-> t.v, memo |-> t.memo]
  /\ s.v = t.v /\ t.memo \subseteq s.memo
  /\ \A p \in s.memo \ t.memo : FailsAlways(p)

\* They bind the same.
LEMMA AheadStays ==
  ASSUME IsHistory(commits), qualified, NEW s, NEW t, Ahead(s, t), NEW a, a.by \in {"m1", "m3"}
  PROVE  Ahead(Attempt(s, a), Attempt(t, a))
<1> DEFINE p == <<a.old, a.new>>
           match == AttemptSquash(commits, a.old, a.new)
<1>1. PICK x, m : s = [v |-> x, memo |-> m]
  BY DEF Ahead
<1>2. PICK n : t = [v |-> x, memo |-> n]
  BY <1>1 DEF Ahead
<1>3. n \subseteq m /\ \A q \in m \ n : FailsAlways(q)
  BY <1>1, <1>2 DEF Ahead
<1>4. History = commits
  BY HistoryIs
<1>5. ASSUME NEW y, NEW k, NEW l, l \subseteq k, \A q \in k \ l : FailsAlways(q)
      PROVE  Ahead([v |-> y, memo |-> k], [v |-> y, memo |-> l])
  BY <1>5 DEF Ahead
<1>6. ASSUME NEW as, NEW by PROVE Ahead(Bind(s, a.old, as, by), Bind(t, a.old, as, by))
  <2> DEFINE v == Minted(x, BindSegment(History, a.old, as, Candidates(x, FALSE)), as, by)
  <2>0. s.v = x /\ t.v = x
    BY <1>1, <1>2
  <2>1. Bind(s, a.old, as, by) = [v |-> v, memo |-> m]
    <3>1. Bind(s, a.old, as, by) = [s EXCEPT !.v = v]
      BY <2>0 DEF Bind
    <3> HIDE DEF v
    <3> QED
      BY <1>1, <3>1
  <2>2. Bind(t, a.old, as, by) = [v |-> v, memo |-> n]
    <3>1. Bind(t, a.old, as, by) = [t EXCEPT !.v = v]
      BY <2>0 DEF Bind
    <3> HIDE DEF v
    <3> QED
      BY <1>2, <3>1
  <2> HIDE DEF v
  <2> QED
    BY <1>3, <1>5, <2>1, <2>2
<1>7. CASE a.by = "m1"
  <2>1. Attempt(s, a) = M1(s, a) /\ Attempt(t, a) = M1(t, a)
    BY <1>7 DEF Attempt
  <2> QED
    BY <1>6, <2>1 DEF M1
<1>8. CASE a.by = "m3"
  <2>1. Attempt(s, a) = M3(s, a) /\ Attempt(t, a) = M3(t, a)
    BY <1>8 DEF Attempt
  <2>2. s.memo = m /\ t.memo = n
    BY <1>1, <1>2
  <2>3. CASE IsAncestor(commits, a.old, a.new) \/ p \in n
    <3>1. M3(s, a) = s /\ M3(t, a) = t
      BY <1>3, <1>4, <2>2, <2>3 DEF M3
    <3> QED
      BY <2>1, <3>1
  <2>4. CASE ~IsAncestor(commits, a.old, a.new) /\ p \notin n /\ p \in m
    <3>1. match = {}
      BY <1>3, <2>4 DEF FailsAlways
    <3>2. M3(s, a) = s /\ M3(t, a) = [t EXCEPT !.memo = @ \cup {p}]
      BY <1>4, <2>2, <2>4, <3>1 DEF M3
    <3>3. M3(t, a) = [v |-> x, memo |-> n \cup {p}] /\ M3(s, a) = [v |-> x, memo |-> m]
      BY <1>1, <1>2, <3>2
    <3>4. n \cup {p} \subseteq m /\ \A q \in m \ (n \cup {p}) : FailsAlways(q)
      BY <1>3, <2>4
    <3> QED
      BY <1>5, <2>1, <3>3, <3>4
  <2>5. CASE ~IsAncestor(commits, a.old, a.new) /\ p \notin m
    <3>0. p \notin n
      BY <1>3, <2>5
    <3>1. CASE match = {}
      <4>1. M3(s, a) = [s EXCEPT !.memo = @ \cup {p}] /\ M3(t, a) = [t EXCEPT !.memo = @ \cup {p}]
        BY <1>4, <2>2, <2>5, <3>0, <3>1 DEF M3
      <4>2. M3(s, a) = [v |-> x, memo |-> m \cup {p}] /\ M3(t, a) = [v |-> x, memo |-> n \cup {p}]
        BY <1>1, <1>2, <4>1
      <4>3. n \cup {p} \subseteq m \cup {p} /\ \A q \in (m \cup {p}) \ (n \cup {p}) : FailsAlways(q)
        BY <1>3
      <4> QED
        BY <1>5, <2>1, <4>2, <4>3
    <3>2. CASE match # {}
      <4> DEFINE c == CHOOSE d \in match : TRUE
      <4>1. M3(s, a) = Bind(s, a.old, c, "m3") /\ M3(t, a) = Bind(t, a.old, c, "m3")
        BY <1>4, <2>2, <2>5, <3>0, <3>2 DEF M3
      <4> HIDE DEF c
      <4> QED
        BY <1>6, <2>1, <4>1
    <3> QED
      BY <3>1, <3>2
  <2> QED
    BY <2>3, <2>4, <2>5
<1> QED
  BY <1>7, <1>8

LEMMA RunStaysAhead ==
  ASSUME IsHistory(commits), NEW s, NEW t, Ahead(s, t),
         NEW run \in Seq(Trials({})), run = <<>> \/ qualified
  PROVE  Ahead(FoldLeft(Attempt, s, run), FoldLeft(Attempt, t, run))
<1> DEFINE N == Len(run)
           T == Trials({})
<1>0. N \in Nat /\ \A i \in 1 .. N : run[i].by \in {"m1", "m3"}
  <2>1. \A a \in T : a.by \in {"m1", "m3"}
    BY DEF Trials
  <2> HIDE DEF T
  <2>2. run \in Seq(T)
    BY DEF T
  <2>3. N \in Nat /\ \A i \in 1 .. N : run[i] \in T
    BY <2>2
  <2> QED
    BY <2>1, <2>3
<1>1. PICK w : /\ w[0] = s
               /\ \A d \in 0 .. N - 1 : w[d + 1] = Attempt(w[d], run[d + 1])
               /\ w[N] = FoldLeft(Attempt, s, run)
  BY RunSteps
<1>2. PICK x : /\ x[0] = t
               /\ \A d \in 0 .. N - 1 : x[d + 1] = Attempt(x[d], run[d + 1])
               /\ x[N] = FoldLeft(Attempt, t, run)
  BY RunSteps
<1> DEFINE S == {d \in 0 .. N : Ahead(w[d], x[d])}
<1>3. 0 \in S
  BY <1>0, <1>1, <1>2
<1>4. ASSUME NEW d \in 0 .. N - 1, d \in S PROVE d + 1 \in S
  <2>1. d + 1 \in 1 .. N /\ d + 1 \in 0 .. N
    BY <1>0
  <2>2. run[d + 1].by \in {"m1", "m3"} /\ qualified
    <3>1. run # <<>>
      BY <2>1
    <3> QED
      BY <1>0, <2>1, <3>1
  <2>3. Ahead(Attempt(w[d], run[d + 1]), Attempt(x[d], run[d + 1]))
    BY <1>4, <2>2, AheadStays
  <2> QED
    BY <1>1, <1>2, <2>1, <2>3
<1> HIDE DEF S, N
<1>5. 0 .. N \subseteq S
  BY <1>0, <1>3, <1>4, UpTo
<1> QED
  BY <1>0, <1>1, <1>2, <1>5 DEF S

\* A memo hides nothing: the same runs are tried, and each binds the same.
LEMMA MemosHide ==
  ASSUME MInv
  PROVE  Proves(nomatch) = Proves(tried)
<1> DEFINE s == [v |-> verdict, memo |-> nomatch]
           t == [v |-> verdict, memo |-> tried]
           end(u, run) == FoldLeft(Attempt, u, run).v
<1>0. Tip \in Commits /\ IsFiniteSet({}) /\ IsHistory(commits)
  BY TipsType, FS_EmptySet DEF MInv, GitType
<1>1. Ahead(s, t)
  <2>1. s.v = verdict /\ t.v = verdict /\ s.memo = nomatch /\ t.memo = tried
    OBVIOUS
  <2> QED
    BY <2>1 DEF Ahead, MInv, MemoInv
<1> HIDE DEF s, t
<1>2. ASSUME NEW run \in Seq(Trials({})), run = <<>> \/ qualified
      PROVE  end(s, run) = end(t, run)
  BY <1>0, <1>1, <1>2, RunStaysAhead DEF Ahead
<1>3. Attempts(s, Tip, {}) = Attempts(t, Tip, {})
  <2>1. CASE ~qualified
    BY <2>1 DEF Attempts
  <2>2. CASE qualified
    <3>1. Early({}) \in Seq(Trials({}))
      BY <1>0, EarlyType DEF MInv
    <3>2. end(s, Early({})) = end(t, Early({}))
      BY <1>2, <2>2, <3>1
    <3> QED
      BY <2>2, <3>2 DEF Attempts
  <2> QED
    BY <2>1, <2>2
<1>4. \A run \in Attempts(s, Tip, {}) : end(s, run) = end(t, run)
  BY <1>0, <1>2, AttemptsType DEF MInv
<1>5. Proves(nomatch) = {end(s, run) : run \in Attempts(s, Tip, {})}
  BY DEF Proves, s
<1>6. Proves(tried) = {end(t, run) : run \in Attempts(t, Tip, {})}
  BY DEF Proves, t
<1> HIDE DEF end
<1> QED
  BY <1>3, <1>4, <1>5, <1>6

\* The memo of failed attempts (nomatch) may be trusted: a pass that skips them
\* proves what one proves that tries them again.
THEOREM MemosAreSafe == Spec => []MemosHideNothing
<1>1. MInv => MemosHideNothing
  BY MemosHide DEF MemosHideNothing
<1> QED BY MintInvariant, <1>1, PTL

-----------------------------------------------------------------------------
(* Chains.                                                                 *)

\* A chain goes on behind s, at depth d, to what its last one landed as.
GoesOn(b, s, d) ==
  /\ Len(s) = d
  /\ s[Len(s)] \in DOMAIN b
  /\ \A i \in DOMAIN s : s[i] # b[s[Len(s)]]

Walked(b, s, d) == IF GoesOn(b, s, d) THEN Append(s, b[s[Len(s)]]) ELSE s

\* It is walked from its origin as far as the depth allows.
LEMMA ChainWalk ==
  ASSUME NEW T, NEW o \in T, NEW b, \A x \in DOMAIN b \cap T : b[x] \in T
  PROVE  \E w :
           /\ w[0] = <<o>> /\ \A d \in 0 .. MaxChainDepth - 1 : w[d + 1] = Walked(b, w[d], d + 1)
           /\ \A d \in 0 .. MaxChainDepth : w[d] \in Seq(T)
           /\ Chain(b, o) = w[MaxChainDepth]
<1> DEFINE Q == Seq(T)
           N == MaxChainDepth
           go(s, d) == GoesOn(b, s, d)
           to(s, d) == Walked(b, s, d)
           step == [d \in Nat |-> [s \in Q |-> to(s, d + 1)]]
           Walks(f) == f = [d \in 0 .. N |-> IF d = 0 THEN <<o>> ELSE to(f[d - 1], d)]
<1>0. N \in Nat /\ N > 0
  BY ChainAssumption, MintAssumption
<1>1. ASSUME NEW s \in Q, NEW d \in Nat \ {0} PROVE to(s, d) \in Q
  <2>1. CASE go(s, d)
    <3>1. s[Len(s)] \in DOMAIN b \cap T
      BY <2>1 DEF GoesOn
    <3>2. b[s[Len(s)]] \in T
      BY <3>1
    <3>3. Append(s, b[s[Len(s)]]) \in Q
      BY <3>2, AppendType
    <3> HIDE DEF Q, go
    <3> QED
      BY <2>1, <3>3 DEF Walked, go
  <2>2. CASE ~go(s, d)
    <3> HIDE DEF Q, go
    <3> QED
      BY <2>2 DEF Walked, go
  <2> QED
    BY <2>1, <2>2
<1>2. <<o>> \in Q
  OBVIOUS
<1> HIDE DEF Q, to, N
<1>3. step \in [Nat -> [Q -> Q]]
  <2>1. \A d \in Nat : d + 1 \in Nat \ {0}
    OBVIOUS
  <2> QED
    BY <1>1, <2>1
<1> HIDE DEF step
<1>4. PICK w : Iterates(w, N, Q, <<o>>, step)
  BY <1>0, <1>2, <1>3, IterationExists
<1>5. Walks(w)
  <2>1. w \in [0 .. N -> Q] /\ w[0] = <<o>> /\ \A d \in 0 .. N - 1 : w[d + 1] = step[d][w[d]]
    BY <1>4 DEF Iterates
  <2>2. ASSUME NEW d \in 0 .. N, d # 0 PROVE w[d] = to(w[d - 1], d)
    <3>1. d - 1 \in 0 .. N - 1 /\ d - 1 + 1 = d /\ d - 1 \in Nat /\ d - 1 \in 0 .. N
      BY <1>0, <2>2
    <3>2. PICK e \in 0 .. N - 1 : e = d - 1
      BY <3>1
    <3>3. w[e + 1] = step[e][w[e]] /\ w[e] \in Q /\ e \in Nat /\ e + 1 = d
      BY <2>1, <3>1, <3>2
    <3>4. step[e][w[e]] = to(w[e], e + 1)
      BY <3>3 DEF step
    <3> QED
      BY <3>2, <3>3, <3>4
  <2> QED
    BY <2>1, <2>2
<1> DEFINE walk == CHOOSE f : Walks(f)
<1>6. Walks(walk)
  BY <1>5
<1>7. Chain(b, o) = walk[N]
  BY DEF Chain, N, to, Walked, GoesOn
<1> HIDE DEF walk
<1>8. /\ walk[0] = <<o>>
      /\ \A d \in 0 .. N - 1 : walk[d + 1] = to(walk[d], d + 1)
  <2>1. \A d \in 0 .. N : walk[d] = IF d = 0 THEN <<o>> ELSE to(walk[d - 1], d)
    BY <1>6
  <2>2. ASSUME NEW d \in 0 .. N - 1 PROVE walk[d + 1] = to(walk[d], d + 1)
    <3>1. PICK e \in 0 .. N : e = d + 1 /\ e # 0 /\ e - 1 = d
      BY <1>0
    <3>2. walk[e] = to(walk[e - 1], e)
      BY <2>1, <3>1
    <3> QED
      BY <3>1, <3>2
  <2> QED
    BY <1>0, <2>1, <2>2
<1> HIDE DEF Walks
<1> DEFINE S == {d \in 0 .. N : walk[d] \in Q}
<1>9. 0 \in S
  BY <1>0, <1>2, <1>8
<1>10. ASSUME NEW d \in 0 .. N - 1, d \in S PROVE d + 1 \in S
  <2>1. d + 1 \in Nat \ {0} /\ d + 1 \in 0 .. N
    BY <1>0
  <2> QED
    BY <1>1, <1>8, <1>10, <2>1
<1> HIDE DEF S
<1>11. 0 .. N \subseteq S
  BY <1>0, <1>9, <1>10, UpTo
<1> QED
  BY <1>7, <1>8, <1>11 DEF S, N, Q, to

\* A chain begins with its origin, and goes on to what that landed as.
LEMMA ChainStarts ==
  ASSUME NEW T, NEW o \in T, NEW b, \A x \in DOMAIN b \cap T : b[x] \in T
  PROVE  /\ Chain(b, o) \in Seq(T) /\ 1 \in DOMAIN Chain(b, o) /\ Chain(b, o)[1] = o
         /\ o \in DOMAIN b /\ b[o] # o => 2 \in DOMAIN Chain(b, o) /\ Chain(b, o)[2] = b[o]
<1> DEFINE Q == Seq(T)
           N == MaxChainDepth
           go(s, d) == GoesOn(b, s, d)
           to(s, d) == Walked(b, s, d)
<1>0. N \in Nat /\ N > 0
  BY ChainAssumption, MintAssumption
<1>1. PICK walk :
        /\ walk[0] = <<o>> /\ \A d \in 0 .. N - 1 : walk[d + 1] = to(walk[d], d + 1)
        /\ \A d \in 0 .. N : walk[d] \in Q
        /\ Chain(b, o) = walk[N]
  BY ChainWalk
<1> HIDE DEF Q, N, to
<1> DEFINE Good(s, d) ==
             /\ s \in Q /\ 1 \in DOMAIN s /\ s[1] = o
             /\ o \in DOMAIN b /\ b[o] # o /\ d > 0 => 2 \in DOMAIN s /\ s[2] = b[o]
           S == {d \in 0 .. N : Good(walk[d], d)}
<1>9. 0 \in S
  <2>1. walk[0] \in Q /\ 0 \in 0 .. N
    BY <1>0, <1>1
  <2> QED
    BY <1>1, <2>1
<1>10. ASSUME NEW d \in 0 .. N - 1, d \in S PROVE d + 1 \in S
  <2> DEFINE s == walk[d]
  <2>1. s \in Q /\ 1 \in DOMAIN s /\ s[1] = o /\ d \in Nat
    BY <1>10
  <2>2. Len(s) \in Nat /\ Len(s) >= 1 /\ DOMAIN s = 1 .. Len(s)
    BY <2>1 DEF Q
  <2>3. walk[d + 1] = to(s, d + 1) /\ to(s, d + 1) \in Q
    <3>1. d + 1 \in 0 .. N
      BY <1>0
    <3> QED
      BY <1>1, <3>1
  <2>4. DOMAIN s \subseteq DOMAIN to(s, d + 1) /\ \A i \in DOMAIN s : to(s, d + 1)[i] = s[i]
    <3> HIDE DEF s, go
    <3>1. to(s, d + 1) = s \/ to(s, d + 1) = Append(s, b[s[Len(s)]])
      BY DEF to, Walked
    <3> QED
      BY <2>1, <2>2, <3>1 DEF Q
  <2>5. ASSUME d = 0, o \in DOMAIN b, b[o] # o
        PROVE  2 \in DOMAIN to(s, d + 1) /\ to(s, d + 1)[2] = b[o]
    <3>1. s = <<o>>
      BY <1>1, <2>5
    <3>2. go(s, d + 1) /\ s[Len(s)] = o
      BY <2>5, <3>1 DEF GoesOn
    <3>3. to(s, d + 1) = Append(<<o>>, b[o])
      BY <3>1, <3>2 DEF to, Walked
    <3> QED
      BY <3>3
  <2>6. d + 1 \in 0 .. N
    BY <1>0
  <2>7. Good(walk[d + 1], d + 1)
    <3>1. d # 0 => d > 0
      BY <2>1
    <3> QED
      BY <1>10, <2>1, <2>3, <2>4, <2>5, <3>1
  <2> QED
    BY <2>6, <2>7
<1> HIDE DEF S, Good
<1>11. 0 .. N \subseteq S
  BY <1>0, <1>9, <1>10, UpTo
<1>12. Good(walk[N], N)
  BY <1>0, <1>11 DEF S
<1> QED
  BY <1>0, <1>1, <1>12 DEF Good, Q, N

\* More places than values: two of the places hold the same.
LEMMA Repeats ==
  ASSUME NEW D, IsFiniteSet(D), NEW c, NEW n \in Nat, Cardinality(D) <= n,
         \A x \in 1 .. n + 1 : c[x] \in D
  PROVE  \E x, y \in 1 .. n + 1 : x # y /\ c[x] = c[y]
<1>1. PICK K : K = 1 .. n + 1
  OBVIOUS
<1>2. PICK f : f = [x \in K |-> c[x]]
  OBVIOUS
<1>3. f \in [K -> D] /\ \A x \in K : f[x] = c[x]
  BY <1>1, <1>2
<1>4. IsFiniteSet(K) /\ Cardinality(K) = n + 1
  <2>1. 1 \in Int /\ n + 1 \in Int /\ ~(1 > n + 1) /\ n + 1 - 1 + 1 = n + 1
    OBVIOUS
  <2> QED
    BY <1>1, <2>1, FS_Interval
<1>5. Cardinality(D) < Cardinality(K)
  <2>1. Cardinality(D) \in Nat
    BY FS_CardinalityType
  <2> QED
    BY <1>4, <2>1
<1>6. \E x, y \in K : x # y /\ f[x] = f[y]
  BY <1>3, <1>4, <1>5, FS_PigeonHole
<1> QED
  BY <1>1, <1>3, <1>6

\* With no more bindings than the depth no chain is cut off.
LEMMA ChainOfFew ==
  ASSUME NEW o, NEW b, IsFiniteSet(DOMAIN b), Cardinality(DOMAIN b) <= MaxChainDepth,
         NEW i \in DOMAIN Chain(b, o), Chain(b, o)[i] \in DOMAIN b
  PROVE  \E j \in DOMAIN Chain(b, o) : Chain(b, o)[j] = b[Chain(b, o)[i]]
<1> DEFINE T == {o} \cup {b[x] : x \in DOMAIN b}
           N == MaxChainDepth
           D == DOMAIN b
           to(s, d) == Walked(b, s, d)
           last(s) == s[Len(s)]
           ended(s) == last(s) \in D => \E j \in DOMAIN s : s[j] = b[last(s)]
           Good(s, d) ==
             /\ Len(s) >= 1 /\ \A x, y \in DOMAIN s : s[x] = s[y] => x = y
             /\ \A x \in 1 .. Len(s) - 1 : s[x] \in D /\ s[x + 1] = b[s[x]]
             /\ Len(s) = d + 1 \/ ended(s)
<1>0. N \in Nat
  BY ChainAssumption
<1>1. o \in T /\ \A x \in D \cap T : b[x] \in T
  OBVIOUS
<1> HIDE DEF T
<1>2. PICK walk :
        /\ walk[0] = <<o>> /\ \A d \in 0 .. N - 1 : walk[d + 1] = to(walk[d], d + 1)
        /\ \A d \in 0 .. N : walk[d] \in Seq(T)
        /\ Chain(b, o) = walk[N]
  BY <1>1, ChainWalk
<1> DEFINE S == {d \in 0 .. N : Good(walk[d], d)}
<1> HIDE DEF N, to
<1>3. 0 \in S
  <2>1. Good(<<o>>, 0)
    OBVIOUS
  <2>2. 0 \in 0 .. N
    BY <1>0
  <2> HIDE DEF Good
  <2> QED
    BY <1>2, <2>1, <2>2
<1>4. ASSUME NEW d \in 0 .. N - 1, d \in S PROVE d + 1 \in S
  <2>1. d \in 0 .. N /\ d + 1 \in 0 .. N /\ d \in Nat
    BY <1>0
  <2>2. PICK s : s = walk[d] /\ s \in Seq(T) /\ Good(s, d)
    BY <1>2, <1>4, <2>1
  <2>3. walk[d + 1] = to(s, d + 1)
    BY <1>2, <2>2
  <2>4. Len(s) \in Nat /\ DOMAIN s = 1 .. Len(s) /\ Len(s) >= 1 /\ Len(s) \in DOMAIN s
    BY <2>2
  <2>5. CASE GoesOn(b, s, d + 1)
    <3> DEFINE x == b[last(s)]
               t == Append(s, x)
    <3>1. Len(s) = d + 1 /\ last(s) \in D /\ \A y \in DOMAIN s : s[y] # x
      BY <2>5 DEF GoesOn
    <3>2. x \in T
      BY <3>1 DEF T
    <3> HIDE DEF x
    <3>3. Len(t) = Len(s) + 1 /\ DOMAIN t = 1 .. Len(s) + 1 /\ t[Len(s) + 1] = x
          /\ \A y \in 1 .. Len(s) : t[y] = s[y]
      BY <2>2, <2>4, <3>2
    <3> HIDE DEF t
    <3>4. ASSUME NEW y \in DOMAIN t, NEW z \in DOMAIN t, t[y] = t[z] PROVE y = z
      <4>1. CASE y = Len(s) + 1 /\ z # Len(s) + 1
        BY <2>4, <3>1, <3>3, <3>4, <4>1
      <4>2. CASE z = Len(s) + 1 /\ y # Len(s) + 1
        BY <2>4, <3>1, <3>3, <3>4, <4>2
      <4>3. CASE y # Len(s) + 1 /\ z # Len(s) + 1
        <5>1. y \in DOMAIN s /\ z \in DOMAIN s
          BY <2>4, <3>3, <4>3
        <5>2. s[y] = s[z]
          BY <2>4, <3>3, <3>4, <5>1
        <5>3. \A u, v \in DOMAIN s : s[u] = s[v] => u = v
          BY <2>2
        <5> HIDE DEF Good
        <5> QED
          BY <5>1, <5>2, <5>3
      <4> QED
        BY <4>1, <4>2, <4>3
    <3>5. ASSUME NEW y \in 1 .. Len(t) - 1 PROVE t[y] \in D /\ t[y + 1] = b[t[y]]
      <4>1. y \in 1 .. Len(s)
        BY <2>4, <3>3
      <4>2. CASE y = Len(s)
        BY <3>1, <3>3, <4>1, <4>2 DEF x
      <4>3. CASE y # Len(s)
        <5>1. y \in 1 .. Len(s) - 1 /\ y + 1 \in 1 .. Len(s)
          BY <2>4, <4>1, <4>3
        <5> QED
          BY <2>2, <3>3, <4>1, <5>1
      <4> QED
        BY <4>2, <4>3
    <3>6. Len(t) >= 1 /\ Len(t) = d + 1 + 1
      BY <2>4, <3>1, <3>3
    <3>7. Good(t, d + 1)
      BY <3>4, <3>5, <3>6
    <3>8. walk[d + 1] = t
      BY <2>3, <2>5 DEF to, Walked, t, x
    <3> HIDE DEF Good
    <3> QED
      BY <2>1, <3>7, <3>8
  <2>6. CASE ~GoesOn(b, s, d + 1)
    <3>1. ended(s)
      BY <2>2, <2>6 DEF GoesOn
    <3>2. walk[d + 1] = s
      BY <2>3, <2>6 DEF to, Walked
    <3>3. Good(s, d + 1)
      BY <2>2, <3>1
    <3> HIDE DEF Good
    <3> QED
      BY <2>1, <3>2, <3>3
  <2> QED
    BY <2>5, <2>6
<1> HIDE DEF S
<1>5. 0 .. N \subseteq S
  BY <1>0, <1>3, <1>4, UpTo
<1>6. PICK c : c = Chain(b, o) /\ c \in Seq(T) /\ Good(c, N)
  <2>1. N \in 0 .. N
    BY <1>0
  <2> QED
    BY <1>2, <1>5, <2>1 DEF S
<1>7. Len(c) \in Nat /\ DOMAIN c = 1 .. Len(c) /\ Len(c) >= 1
  BY <1>6
<1>8. ASSUME last(c) \in D, Len(c) = N + 1 PROVE FALSE
  <2>1. \A x \in 1 .. Len(c) : c[x] \in D
    <3>1. ASSUME NEW x \in 1 .. Len(c) PROVE c[x] \in D
      <4>1. x = Len(c) \/ x \in 1 .. Len(c) - 1
        <5>1. \A m \in Nat : \A y \in 1 .. m : y = m \/ y \in 1 .. m - 1
          OBVIOUS
        <5> QED
          BY <1>7, <3>1, <5>1
      <4> QED
        BY <1>6, <1>8, <4>1
    <3> QED
      BY <3>1
  <2>2. PICK x \in 1 .. N + 1, y \in 1 .. N + 1 : x # y /\ c[x] = c[y]
    <3>1. \A x \in 1 .. N + 1 : c[x] \in D
      BY <1>8, <2>1
    <3>2. Cardinality(D) <= N
      BY DEF N
    <3> HIDE DEF D
    <3> QED
      BY <1>0, <3>1, <3>2, Repeats DEF D
  <2>3. x \in DOMAIN c /\ y \in DOMAIN c
    BY <1>7, <1>8
  <2> QED
    BY <1>6, <2>2, <2>3
<1>9. PICK k \in DOMAIN c : k = i /\ c[k] \in D
  BY <1>6
<1>10. CASE k = Len(c)
  BY <1>6, <1>8, <1>9, <1>10
<1>11. CASE k # Len(c)
  <2>1. k \in 1 .. Len(c) - 1 /\ k + 1 \in DOMAIN c
    BY <1>7, <1>11
  <2>2. c[k + 1] = b[c[k]]
    BY <1>6, <2>1
  <2> QED
    BY <1>6, <1>9, <2>1, <2>2
<1> QED
  BY <1>10, <1>11

\* Of one origin all of the chain is asked for.
LEMMA ClosureOfOne ==
  ASSUME NEW b, NEW o
  PROVE  Closure(b, <<o>>) = {Chain(b, o)[i] : i \in DOMAIN Chain(b, o)}
<1> DEFINE c == Chain(b, o)
           fresh(A) == {k \in DOMAIN c : \A j \in 2 .. k : c[j] \notin A}
           all == {c[i] : i \in DOMAIN c}
           one == <<o>>
           next(n, A) == A \cup LET e == Chain(b, one[n])
                                IN  {e[i] : i \in {k \in DOMAIN e : \A j \in 2 .. k : e[j] \notin A}}
           Ups(f) == f = [n \in 0 .. Len(one) |-> IF n = 0 THEN {} ELSE next(n, f[n - 1])]
           g == [n \in 0 .. 1 |-> IF n = 0 THEN {} ELSE next(1, {})]
<1>1. Len(one) = 1 /\ one[1] = o
  OBVIOUS
<1>2. next(1, {}) = all
  <2>1. fresh({}) = DOMAIN c
    OBVIOUS
  <2>2. next(1, {}) = {c[i] : i \in fresh({})}
    BY <1>1
  <2> HIDE DEF fresh, next, c
  <2> QED
    BY <2>1, <2>2
<1>3. Closure(b, one) = (CHOOSE f : Ups(f))[Len(one)]
  BY DEF Closure
<1> HIDE DEF next, one, all
<1>4. Ups(g)
  <2>1. \A n \in 0 .. 1 : g[n] = IF n = 0 THEN {} ELSE next(n, g[n - 1])
    <3>1. g[0] = {} /\ g[1] = next(1, {})
      OBVIOUS
    <3>2. \A n \in 0 .. 1 : n = 0 \/ (n = 1 /\ n - 1 = 0)
      OBVIOUS
    <3> HIDE DEF g
    <3> QED
      BY <3>1, <3>2
  <2>2. g = [n \in 0 .. 1 |-> g[n]]
    OBVIOUS
  <2> HIDE DEF g
  <2> QED
    BY <1>1, <2>1, <2>2
<1> DEFINE up == CHOOSE f : Ups(f)
<1>5. Ups(up)
  BY <1>4
<1> HIDE DEF up
<1>6. up[0] = {} /\ up[1] = next(1, up[0])
  <2>1. \A n \in 0 .. 1 : up[n] = IF n = 0 THEN {} ELSE next(n, up[n - 1])
    BY <1>1, <1>5
  <2>2. 0 \in 0 .. 1 /\ 1 \in 0 .. 1 /\ 1 - 1 = 0
    OBVIOUS
  <2> QED
    BY <2>1, <2>2
<1>7. Closure(b, one) = all
  BY <1>1, <1>2, <1>3, <1>6 DEF up
<1> QED
  BY <1>7 DEF one, all

\* An origin has landed where its chain meets what is checked out.
LEMMA LandedIff ==
  ASSUME NEW v, NEW h, NEW o
  PROVE  ClassOf(v, h, o) = "landed"
           <=> \E i \in DOMAIN Chain(Bindings(v), o) :
                 Chain(Bindings(v), o)[i] \in Ancestors(History, h)
<1> DEFINE c == Chain(Bindings(v), o)
           A == Ancestors(History, h)
           R == UNION {Ancestors(History, t) : t \in RefTips}
           landed == A \cap Closure(Bindings(v), <<o>>)
<1>1. landed = A \cap {c[i] : i \in DOMAIN c}
  BY ClosureOfOne
<1>2. ClassOf(v, h, o) = IF \E i \in DOMAIN c : c[i] \in landed THEN "landed"
                         ELSE IF c[Len(c)] \in R THEN "pending-elsewhere"
                         ELSE IF qualified THEN "abandoned" ELSE "unknown"
  <2>1. o \in {<<o>>[i] : i \in DOMAIN <<o>>}
    <3>1. 1 \in DOMAIN <<o>> /\ <<o>>[1] = o
      OBVIOUS
    <3> QED
      BY <3>1
  <2> QED
    BY <2>1 DEF ClassOf, Classify
<1> HIDE DEF landed, c, A, R
<1>3. (\E i \in DOMAIN c : c[i] \in landed) <=> (\E i \in DOMAIN c : c[i] \in A)
  BY <1>1
<1> QED
  BY <1>2, <1>3 DEF c, A

-----------------------------------------------------------------------------
(* Groups.                                                                 *)

Grouping == INSTANCE Induction WITH Op <- Grouped

\* A group is of dead commits, each of them on the line of its tip.
Group == {g \in [tip : Dead, of : SUBSET Dead] : \A o \in g.of : IsAncestor(History, o, g.tip)}

\* And a dead commit that is put in one, or in one of its own, leaves it so.
LEMMA GroupedType ==
  ASSUME MInv, NEW groups \in Seq(Group), NEW o \in Dead
  PROVE  Grouped(groups, o) \in Seq(Group)
<1> DEFINE at == {i \in DOMAIN groups : SameLine(o, groups[i].tip)}
           i == CHOOSE j \in at : \A k \in at : j <= k
           own == [tip |-> o, of |-> {o}]
           G == Group
<1>0. IsHistory(History) /\ Dead \subseteq DOMAIN History
  BY HistoryIs DEF MInv, GitType, StoreType, Dead
<1>1. own \in G
  BY <1>0, AncestorsType DEF Group, IsAncestor
<1>2. CASE at = {}
  <2>1. Grouped(groups, o) = Append(groups, own)
    BY <1>2 DEF Grouped
  <2> HIDE DEF own, G
  <2> QED
    BY <1>1, <2>1 DEF G
<1>3. CASE at # {}
  <2>1. Len(groups) \in Nat /\ DOMAIN groups = 1 .. Len(groups) /\ \A k \in DOMAIN groups : groups[k] \in G
    <3> HIDE DEF G
    <3>1. groups \in Seq(G)
      BY DEF G
    <3> QED
      BY <3>1
  <2>2. i \in at
    <3>1. at \in SUBSET Nat
      BY <2>1
    <3> HIDE DEF at
    <3>2. \E j \in at : \A k \in at : j <= k
      BY <1>3, <3>1, LeastNumber
    <3> QED
      BY <3>2
  <2> DEFINE g == groups[i]
             tip == IF IsAncestor(History, g.tip, o) THEN o ELSE g.tip
             more == [tip |-> tip, of |-> g.of \cup {o}]
  <2>3. g \in Group /\ SameLine(o, g.tip) /\ i \in DOMAIN groups
    BY <2>1, <2>2
  <2>4. Grouped(groups, o) = [groups EXCEPT ![i] = more]
    BY <1>3 DEF Grouped
  <2> HIDE DEF i, g
  <2>5. g.tip \in Dead /\ g.of \subseteq Dead /\ \A d \in g.of : IsAncestor(History, d, g.tip)
    BY <2>3 DEF Group
  <2>6. tip \in Dead /\ IsAncestor(History, g.tip, tip) /\ IsAncestor(History, o, tip)
    <3>1. IsAncestor(History, o, o) /\ IsAncestor(History, g.tip, g.tip)
      BY <1>0, <2>5, AncestorsType DEF IsAncestor
    <3> QED
      BY <2>3, <2>5, <3>1 DEF SameLine
  <2> HIDE DEF tip
  <2>7. \A d \in g.of : IsAncestor(History, d, tip)
    BY <1>0, <2>5, <2>6, AncestorsTransitive DEF IsAncestor
  <2>8. more \in G
    BY <2>5, <2>6, <2>7 DEF Group
  <2> HIDE DEF more, G
  <2>9. [groups EXCEPT ![i] = more] \in Seq(G)
    BY <2>3, <2>8 DEF G
  <2> QED
    BY <2>4, <2>9 DEF G
<1> QED
  BY <1>2, <1>3

LEMMA GroupsType ==
  ASSUME MInv, NEW order \in SetToSeqs(Dead)
  PROVE  Groups(order) \in Seq(Group)
<1> DEFINE N == Cardinality(Dead)
           Q == Seq(Group)
<1>1. N \in Nat
  <2>1. Dead \in SUBSET Commits
    BY DEF MInv, StoreType, Dead
  <2> QED
    BY <2>1, FiniteCommits DEF MInv, GitType
<1>2. order \in [1 .. N -> Dead] /\ DOMAIN order = 1 .. N
  BY DEF SetToSeqs
<1> HIDE DEF N
<1>3. PICK w : Grouping!Steps(w, N, <<>>, order)
  BY <1>1, <1>2, Grouping!FoldSteps
<1>4. Groups(order) = Grouping!FoldOver(<<>>, order)
  BY DEF Groups, Grouping!FoldOver, Grouping!Largest, FoldLeft, MapThenFoldSet, Max
<1>5. /\ w[0] = <<>>
      /\ \A d \in 0 .. N - 1 : w[d + 1] = Grouped(w[d], order[d + 1])
      /\ w[N] = Groups(order)
  BY <1>3, <1>4 DEF Grouping!Steps
<1> DEFINE S == {d \in 0 .. N : w[d] \in Q}
<1>6. 0 \in S
  <2>1. <<>> \in Q
    <3> DEFINE G == Group
    <3> HIDE DEF G
    <3>1. <<>> \in Seq(G)
      OBVIOUS
    <3> QED
      BY <3>1 DEF G
  <2> HIDE DEF Q
  <2> QED
    BY <1>1, <1>5, <2>1
<1>7. ASSUME NEW d \in 0 .. N - 1, d \in S PROVE d + 1 \in S
  <2>1. d + 1 \in 1 .. N /\ d + 1 \in 0 .. N
    BY <1>1
  <2>2. order[d + 1] \in Dead /\ w[d] \in Q
    BY <1>2, <1>7, <2>1
  <2>3. w[d + 1] \in Q
    BY <1>5, <2>2, GroupedType
  <2> QED
    BY <2>1, <2>3
<1> HIDE DEF S, Q
<1>8. 0 .. N \subseteq S
  BY <1>1, <1>6, <1>7, UpTo
<1>9. w[N] \in Q
  BY <1>1, <1>8 DEF S
<1> QED
  BY <1>5, <1>9 DEF Q

\* A vd on the tip of a line says of each commit of it what it landed as.
LEMMA DisposedBinds ==
  ASSUME MInv, NEW tip \in Commits, NEW as \in Ancestors(History, Tip),
         NEW o \in noted, IsAncestor(History, o, tip), o \notin Ancestors(History, Tip)
  PROVE  o \in DOMAIN Disposed(verdict, tip, as) /\ Disposed(verdict, tip, as)[o].as = as
<1> DEFINE mb == MergeBase(History, tip, as)
           candidates == Candidates(verdict, TRUE) \cup {tip}
           line == BindSegment(History, tip, as, candidates)
<1>0. IsHistory(History) /\ DOMAIN History = Commits /\ Tip \in Commits /\ as \in Commits
  BY HistoryIs, TipsType, AncestorsType DEF MInv, GitType
<1>1. o \in candidates
  BY DEF Candidates
<1>2. mb # 0 => Ancestors(History, mb) \subseteq Ancestors(History, Tip)
  <2>1. mb # 0 => mb \in Ancestors(History, as)
    BY <1>0, MergeBaseIs
  <2>2. Ancestors(History, as) \subseteq Ancestors(History, Tip)
    BY <1>0, AncestorsTransitive
  <2> QED
    BY <1>0, <2>1, <2>2, AncestorsTransitive
<1>3. o \in Segment(History, mb, tip)
  BY <1>2 DEF Segment, IsAncestor
<1>4. o \in line
  BY <1>1, <1>3 DEF BindSegment
<1>5. Disposed(verdict, tip, as) = Minted(verdict, IF line = {} THEN {tip} ELSE line, as, "m5")
  BY DEF Disposed
<1> HIDE DEF line
<1>6. Disposed(verdict, tip, as) = Minted(verdict, line, as, "m5")
  BY <1>4, <1>5
<1>7. o \in DOMAIN Minted(verdict, line, as, "m5") /\ Minted(verdict, line, as, "m5")[o].as = as
  BY <1>4 DEF Minted
<1> QED
  BY <1>6, <1>7

LEMMA SecondOfChain ==
  ASSUME NEW b, NEW o \in DOMAIN b, b[o] # o
  PROVE  2 \in DOMAIN Chain(b, o) /\ Chain(b, o)[2] = b[o]
<1> DEFINE T == {o} \cup {b[x] : x \in DOMAIN b}
<1>1. o \in T /\ \A x \in DOMAIN b : b[x] \in T
  OBVIOUS
<1> HIDE DEF T
<1> QED
  BY <1>1, ChainStarts

LEMMA Positive ==
  ASSUME NEW n \in Nat, NEW m \in 1 .. n
  PROVE  m # 0
OBVIOUS

LEMMA GroupIsRepaired ==
  ASSUME MInv, NEW order \in SetToSeqs(Dead), NEW i \in DOMAIN Groups(order),
         NEW as \in Ancestors(History, Tip), NEW o \in Groups(order)[i].of
  PROVE  ClassOf(Disposed(verdict, Groups(order)[i].tip, as), Tip, o) = "landed"
<1> DEFINE tip == Groups(order)[i].tip
           w == Disposed(verdict, tip, as)
           b == Bindings(w)
<1>0. IsHistory(History) /\ DOMAIN History = Commits /\ Tip \in Commits
  BY HistoryIs, TipsType DEF MInv, GitType
<1>1. Groups(order)[i] \in Group
  BY GroupsType, EltType
<1>2. tip \in Dead /\ o \in Dead /\ IsAncestor(History, o, tip)
  BY <1>1 DEF Group
<1>3. tip \in Commits /\ o \in Commits /\ o \in noted
  BY <1>2 DEF Dead, MInv, StoreType
<1>4. o \notin Ancestors(History, Tip)
  <2> DEFINE c == Chain(Bindings(verdict), o)
             U == {o} \cup {Bindings(verdict)[x] : x \in DOMAIN Bindings(verdict)}
  <2>1. ClassOf(verdict, Tip, o) # "landed"
    BY <1>2 DEF Dead
  <2>2. 1 \in DOMAIN c /\ c[1] = o
    <3>1. o \in U /\ \A x \in DOMAIN Bindings(verdict) : Bindings(verdict)[x] \in U
      OBVIOUS
    <3> HIDE DEF U
    <3> QED
      BY <3>1, ChainStarts
  <2> QED
    BY <2>1, <2>2, LandedIff
<1>5. o \in DOMAIN w /\ w[o].as = as
  BY <1>2, <1>3, <1>4, DisposedBinds
<1>6. as \in Commits /\ as # 0 /\ as # o
  <2>1. Tip \in Nat /\ Tip \in DOMAIN History
    BY <1>0, CommitType
  <2>2. as \in 1 .. Tip /\ as \in Commits
    BY <1>0, <2>1, AncestorsType
  <2>3. as # 0
    BY <2>1, <2>2, Positive
  <2> QED
    BY <1>4, <2>2, <2>3
<1> HIDE DEF w
<1>7. o \in DOMAIN b /\ b[o] = as
  BY <1>5, <1>6 DEF Bindings
<1> HIDE DEF b
<1>8. b[o] # o
  BY <1>6, <1>7
<1>9. 2 \in DOMAIN Chain(b, o) /\ Chain(b, o)[2] = b[o]
  BY <1>7, <1>8, SecondOfChain
<1>10. ClassOf(w, Tip, o) = "landed"
  BY <1>7, <1>9, LandedIff DEF b
<1> QED
  BY <1>10 DEF w

\* One vd on the tip of a worklist group repairs every note of the group, in
\* whatever order collectWorklist came to them, and whatever they were bound to.
THEOREM GroupsAreRepaired == Spec => []OneVerdictRepairsGroup
<1>1. MInv => OneVerdictRepairsGroup
  BY GroupIsRepaired DEF OneVerdictRepairsGroup
<1> QED BY MintInvariant, <1>1, PTL

-----------------------------------------------------------------------------
(* Debts.                                                                  *)

\* The rewriting e of a reflog carries x away.
Carries(H, e, x) ==
  /\ e.how \in {"rebase", "amend"}
  /\ ~IsAncestor(H, e.old, e.new)
  /\ x \in Segment(H, MergeBase(H, e.old, e.new), e.old)

\* The first to carry x away is the i-th entry of the log of h.
First(H, logs, h, i, x) ==
  /\ Carries(H, logs[h][i], x)
  /\ \A j \in DOMAIN logs[h] : j < i => ~Carries(H, logs[h][j], x)
  /\ \A b \in Branches \ {h} : \A j \in DOMAIN logs[b] : ~Carries(H, logs[b][j], x)

\* The verdicts lead from o to x.
LandsAs(v, o, x) ==
  \A S : o \in S /\ (\A z \in S \cap DOMAIN v : v[z].as # 0 => v[z].as \in S) => x \in S

\* The i-th entry leads from x to the tip it made: m1 has bound x so, or it will.
Turns(H, logs, h, v, i, x) ==
  IF x \in DOMAIN v THEN v[x].as = logs[h][i].new ELSE First(H, logs, h, i, x)

\* Along the log of h, f leads from what o has landed as to b.
Leads(H, logs, h, v, f, o, b) ==
  /\ f \in [0 .. Len(logs[h]) -> DOMAIN H]
  /\ LandsAs(v, o, f[0]) /\ f[Len(logs[h])] = b
  /\ \A i \in DOMAIN logs[h] :
       f[i] # f[i - 1] => f[i] = logs[h][i].new /\ Turns(H, logs, h, v, i, f[i - 1])

\* A note is owed by a commit of the branch checked out, and the verdicts lead
\* to it, with those that the next pass adds.
OwedInv ==
  qualified =>
    \A d \in owed :
      /\ d.note \in noted
      /\ d.by # 0 => /\ IsAncestor(commits, d.by, Tip)
                     /\ \E f : Leads(commits, reflog, head, verdict, f, d.note, d.by)

\* The logs are about commits of H.
LogsOf(H, logs) ==
  \A b \in Branches :
    /\ Len(logs[b]) \in Nat /\ DOMAIN logs[b] = 1 .. Len(logs[b])
    /\ \A i \in DOMAIN logs[b] : logs[b][i].old \in DOMAIN H /\ logs[b][i].new \in DOMAIN H

\* What a rewriting carries away is settled with its commits.
LEMMA CarriesStands ==
  ASSUME NEW G, NEW H, Extends(G, H), NEW e, e.old \in DOMAIN H, e.new \in DOMAIN H, NEW x
  PROVE  Carries(G, e, x) <=> Carries(H, e, x)
<1> DEFINE old == e.old
           new == e.new
           mb == MergeBase(H, old, new)
<1>0. IsHistory(H) /\ old \in DOMAIN H /\ new \in DOMAIN H
  BY DEF Extends
<1> HIDE DEF old, new
<1>1. mb \in DOMAIN H \cup {0}
  BY <1>0, MergeBaseIs, AncestorsType
<1>2. MergeBase(G, old, new) = mb
  BY <1>0, MergeBaseStands
<1>3. Segment(G, mb, old) = Segment(H, mb, old)
  BY <1>0, <1>1, SegmentStands
<1>4. Ancestors(G, new) = Ancestors(H, new)
  BY <1>0, AncestorsStand
<1> QED
  BY <1>2, <1>3, <1>4 DEF Carries, IsAncestor, old, new

LEMMA FirstStands ==
  ASSUME NEW G, NEW H, Extends(G, H), NEW logs, LogsOf(H, logs), NEW h \in Branches,
         NEW i \in DOMAIN logs[h], NEW x
  PROVE  First(H, logs, h, i, x) => First(G, logs, h, i, x)
<1>1. ASSUME NEW b \in Branches, NEW j \in DOMAIN logs[b]
      PROVE  Carries(G, logs[b][j], x) <=> Carries(H, logs[b][j], x)
  BY CarriesStands DEF LogsOf
<1> QED
  BY <1>1 DEF First

\* A history that goes on leads on.
LEMMA LeadsOn ==
  ASSUME NEW G, NEW H, Extends(G, H), NEW logs, LogsOf(H, logs), NEW h \in Branches,
         NEW v, NEW f, NEW o, NEW b, Leads(H, logs, h, v, f, o, b)
  PROVE  Leads(G, logs, h, v, f, o, b)
<1>1. DOMAIN H \subseteq DOMAIN G
  BY DEF Extends, IsHistory
<1>2. f \in [0 .. Len(logs[h]) -> DOMAIN G]
  BY <1>1 DEF Leads
<1>3. ASSUME NEW i \in DOMAIN logs[h], NEW x, Turns(H, logs, h, v, i, x)
      PROVE  Turns(G, logs, h, v, i, x)
  BY <1>3, FirstStands DEF Turns
<1> QED
  BY <1>2, <1>3 DEF Leads

\* The log of h has gone on with e.
Logged(next, logs, h, e) ==
  next[h] = Append(logs[h], e) /\ \A c \in Branches \ {h} : next[c] = logs[c]

\* And e is the first to carry b away, for y.
CarriesTo(H, logs, v, e, b, y) ==
  /\ y = e.new /\ b \notin DOMAIN v /\ Carries(H, e, b)
  /\ \A c \in Branches : \A j \in DOMAIN logs[c] : ~Carries(H, logs[c][j], b)

\* So does a log that goes on: from the same commit to the same, or from one
\* that is carried away to the tip it was carried away for.
LEMMA LeadsFurther ==
  ASSUME NEW H, NEW logs, LogsOf(H, logs), NEW h \in Branches, NEW next, NEW e, Logged(next, logs, h, e),
         NEW v, NEW f, NEW o, NEW b, Leads(H, logs, h, v, f, o, b),
         NEW y \in DOMAIN H, y = b \/ CarriesTo(H, logs, v, e, b, y)
  PROVE  \E g : Leads(H, next, h, v, g, o, y)
<1> DEFINE N == Len(logs[h])
           g == [i \in 0 .. N + 1 |-> IF i = N + 1 THEN y ELSE f[i]]
<1>1. /\ N \in Nat /\ DOMAIN logs[h] = 1 .. N
      /\ Len(next[h]) = N + 1 /\ DOMAIN next[h] = 1 .. N + 1
      /\ next[h][N + 1] = e /\ \A i \in 1 .. N : next[h][i] = logs[h][i]
  BY DEF LogsOf, Logged
<1> HIDE DEF N
<1>2. f \in [0 .. N -> DOMAIN H] /\ LandsAs(v, o, f[0]) /\ f[N] = b
      /\ \A i \in 1 .. N : f[i] # f[i - 1] => f[i] = logs[h][i].new /\ Turns(H, logs, h, v, i, f[i - 1])
  BY <1>1 DEF Leads, N
<1>3. /\ g \in [0 .. N + 1 -> DOMAIN H] /\ g[N + 1] = y
      /\ \A i \in 0 .. N : g[i] = f[i]
  BY <1>1, <1>2
<1> HIDE DEF g
<1>4. ASSUME NEW i \in 1 .. N, NEW x, First(H, logs, h, i, x) PROVE First(H, next, h, i, x)
  <2>1. \A j \in DOMAIN next[h] : j < i => j \in DOMAIN logs[h] /\ next[h][j] = logs[h][j]
    BY <1>1
  <2> QED
    BY <1>1, <1>4, <2>1 DEF First, Logged
<1>5. ASSUME y # b PROVE First(H, next, h, N + 1, b)
  <2>1. \A j \in DOMAIN next[h] : j < N + 1 => j \in DOMAIN logs[h] /\ next[h][j] = logs[h][j]
    BY <1>1
  <2> QED
    BY <1>1, <1>5, <2>1 DEF First, Logged, CarriesTo
<1>6. ASSUME NEW i \in DOMAIN next[h], g[i] # g[i - 1]
      PROVE  g[i] = next[h][i].new /\ Turns(H, next, h, v, i, g[i - 1])
  <2>1. CASE i \in 1 .. N
    <3>1. i \in 0 .. N /\ i - 1 \in 0 .. N
      BY <1>1, <2>1
    <3>2. f[i] = logs[h][i].new /\ Turns(H, logs, h, v, i, f[i - 1])
      BY <1>2, <1>3, <1>6, <2>1, <3>1
    <3> QED
      BY <1>1, <1>3, <1>4, <2>1, <3>1, <3>2 DEF Turns
  <2>2. CASE i = N + 1
    <3>1. i - 1 = N /\ N \in 0 .. N
      BY <1>1, <2>2
    <3>2. g[i] = y /\ g[i - 1] = b
      BY <1>2, <1>3, <2>2, <3>1
    <3> QED
      BY <1>1, <1>5, <1>6, <2>2, <3>2 DEF Turns, CarriesTo
  <2> QED
    BY <1>1, <2>1, <2>2
<1>7. g[0] = f[0]
  BY <1>1, <1>3
<1> QED
  BY <1>1, <1>2, <1>3, <1>6, <1>7 DEF Leads


\* The verdicts lead to what they have led to and on from there.
LEMMA LandsOn ==
  ASSUME NEW v, NEW o
  PROVE  /\ LandsAs(v, o, o)
         /\ \A x \in DOMAIN v : LandsAs(v, o, x) /\ v[x].as # 0 => LandsAs(v, o, v[x].as)
BY DEF LandsAs

\* w has the verdicts v has.
Has(w, v) == \A z \in DOMAIN v : z \in DOMAIN w /\ w[z] = v[z]

\* More verdicts lead to no less.
LEMMA LandsStill ==
  ASSUME NEW v, NEW w, Has(w, v),
         NEW o, NEW x, LandsAs(v, o, x)
  PROVE  LandsAs(w, o, x)
<1>1. ASSUME NEW S, o \in S, \A z \in S \cap DOMAIN w : w[z].as # 0 => w[z].as \in S PROVE x \in S
  <2>1. \A z \in S \cap DOMAIN v : v[z].as # 0 => v[z].as \in S
    BY <1>1 DEF Has
  <2> QED
    BY <1>1, <2>1 DEF LandsAs
<1> QED
  BY <1>1 DEF LandsAs

\* A chain goes where the verdicts lead.
LEMMA ChainLands ==
  ASSUME NEW v, NEW o, NEW i \in DOMAIN Chain(Bindings(v), o)
  PROVE  LandsAs(v, o, Chain(Bindings(v), o)[i])
<1> DEFINE b == Bindings(v)
<1>1. ASSUME NEW S, o \in S, \A z \in S \cap DOMAIN v : v[z].as # 0 => v[z].as \in S
      PROVE  Chain(b, o)[i] \in S
  <2>1. \A x \in DOMAIN b \cap S : b[x] \in S
    BY <1>1 DEF Bindings
  <2> HIDE DEF b
  <2>2. Chain(b, o) \in Seq(S)
    BY <1>1, <2>1, ChainStarts
  <2>3. i \in DOMAIN Chain(b, o)
    BY DEF b
  <2> QED
    BY <2>2, <2>3, EltType
<1> QED
  BY <1>1 DEF LandsAs


\* Where the verdicts lead to already, the log need not.
LEMMA LeadsFrom ==
  ASSUME NEW H, NEW logs, LogsOf(H, logs), NEW h \in Branches, NEW v, NEW o,
         NEW b \in DOMAIN H, LandsAs(v, o, b)
  PROVE  \E f : Leads(H, logs, h, v, f, o, b)
<1> DEFINE N == Len(logs[h])
           g == [i \in 0 .. N |-> b]
<1>1. N \in Nat /\ DOMAIN logs[h] = 1 .. N
  BY DEF LogsOf
<1> HIDE DEF N
<1>2. g \in [0 .. N -> DOMAIN H] /\ g[0] = b /\ g[N] = b
      /\ \A i \in 1 .. N : g[i] = b /\ g[i - 1] = b
  BY <1>1
<1> HIDE DEF g
<1> QED
  BY <1>1, <1>2 DEF Leads, N

LEMMA LogsAre ==
  ASSUME GitType
  PROVE  LogsOf(commits, reflog)
<1>1. ASSUME NEW b \in Branches
      PROVE  /\ Len(reflog[b]) \in Nat /\ DOMAIN reflog[b] = 1 .. Len(reflog[b])
             /\ \A i \in DOMAIN reflog[b] : reflog[b][i].old \in Commits /\ reflog[b][i].new \in Commits
  <2> DEFINE M == Move
  <2>1. reflog[b] \in Seq(M)
    BY DEF GitType
  <2>2. \A e \in M : e.old \in Commits /\ e.new \in Commits
    BY DEF Move
  <2> HIDE DEF M
  <2> QED
    BY <2>1, <2>2
<1> QED
  BY <1>1 DEF LogsOf, Commits

LEMMA LogsStand ==
  ASSUME NEW G, NEW H, Extends(G, H), NEW logs, LogsOf(H, logs)
  PROVE  LogsOf(G, logs)
<1>1. DOMAIN H \subseteq DOMAIN G
  BY DEF Extends, IsHistory
<1> QED
  BY <1>1 DEF LogsOf

\* What a log carries away has been rewritten.
LEMMA CarriedIsRewritten ==
  ASSUME MInv, NEW G, Extends(G, commits), NEW x, x \notin Rewritten,
         NEW b \in Branches, NEW i \in DOMAIN reflog[b]
  PROVE  ~Carries(G, reflog[b][i], x)
<1> DEFINE e == reflog[b][i]
<1>1. e.old \in DOMAIN commits /\ e.new \in DOMAIN commits
  BY LogsAre DEF MInv, LogsOf
<1>2. e.how \in {"rebase", "amend"} => <<e.old, e.new>> \in rewrites
  BY DEF MInv, ReflogInv
<1> HIDE DEF e
<1>3. ASSUME Carries(commits, e, x) PROVE FALSE
  <2>1. <<e.old, e.new>> \in rewrites /\ x \in Segment(commits, MergeBase(commits, e.old, e.new), e.old)
    BY <1>2, <1>3 DEF Carries
  <2>2. PICK p \in rewrites : p = <<e.old, e.new>>
    BY <2>1
  <2>3. x \in Segment(commits, MergeBase(commits, p[1], p[2]), p[1])
    BY <2>1, <2>2
  <2> QED
    BY <2>3 DEF Rewritten
<1> QED
  BY <1>1, <1>3, CarriesStands DEF e

\* A move away from nothing leaves what is owed.
LEMMA MoveOwes ==
  ASSUME MInv, OwedInv, Extends(commits', commits), NEW c \in Commits', NEW how, MoveTo(c, how),
         UNCHANGED <<cut, head, noted, verdict>>, owed' \subseteq owed,
         Ancestors(commits, Tip) \subseteq Ancestors(commits', c)
  PROVE  OwedInv'
<1>1. head \in Branches /\ tips'[head] = c /\ IsHistory(commits')
      /\ Logged(reflog', reflog, head, [how |-> how, old |-> Tip, new |-> c])
  BY DEF MInv, GitType, MoveTo, Extends, Logged
<1>2. LogsOf(commits, reflog) /\ LogsOf(commits', reflog)
  BY LogsAre, LogsStand DEF MInv
<1>3. ASSUME qualified, NEW d \in owed
      PROVE  /\ d.note \in noted
             /\ d.by # 0 => /\ IsAncestor(commits', d.by, c)
                            /\ \E f : Leads(commits', reflog', head, verdict, f, d.note, d.by)
  <2>1. d.note \in noted
    BY <1>3 DEF OwedInv
  <2>2. ASSUME d.by # 0
        PROVE  /\ IsAncestor(commits', d.by, c)
               /\ \E f : Leads(commits', reflog', head, verdict, f, d.note, d.by)
    <3>1. PICK f : Leads(commits, reflog, head, verdict, f, d.note, d.by)
      BY <1>3, <2>2 DEF OwedInv
    <3>2. d.by \in Ancestors(commits', c)
      BY <1>3, <2>2 DEF OwedInv, IsAncestor
    <3>3. d.by \in DOMAIN commits'
      BY <1>1, <3>2, AncestorsType DEF Commits
    <3>4. Leads(commits', reflog, head, verdict, f, d.note, d.by)
      BY <1>1, <1>2, <3>1, LeadsOn
    <3>5. \E g : Leads(commits', reflog', head, verdict, g, d.note, d.by)
      BY <1>1, <1>2, <3>3, <3>4, LeadsFurther
    <3> QED
      BY <3>2, <3>5 DEF IsAncestor
  <2> QED
    BY <2>1, <2>2
<1> QED
  BY <1>1, <1>3 DEF OwedInv, qualified, Tip

\* Nor does it change when commits come that the branch does not have.
LEMMA GrowthOwes ==
  ASSUME MInv, OwedInv, Extends(commits', commits),
         UNCHANGED <<cut, head, tips, reflog, noted, verdict>>, owed' \subseteq owed
  PROVE  OwedInv'
<1>1. head \in Branches /\ Tip \in DOMAIN commits /\ LogsOf(commits, reflog)
  BY TipsType, LogsAre DEF MInv, GitType, Commits
<1>2. Ancestors(commits', Tip) = Ancestors(commits, Tip)
  BY <1>1, AncestorsStand
<1>3. ASSUME qualified, NEW d \in owed
      PROVE  /\ d.note \in noted
             /\ d.by # 0 => /\ IsAncestor(commits', d.by, Tip)
                            /\ \E f : Leads(commits', reflog, head, verdict, f, d.note, d.by)
  <2>1. ASSUME d.by # 0
        PROVE  /\ IsAncestor(commits', d.by, Tip)
               /\ \E f : Leads(commits', reflog, head, verdict, f, d.note, d.by)
    <3>1. PICK f : Leads(commits, reflog, head, verdict, f, d.note, d.by)
      BY <1>3, <2>1 DEF OwedInv
    <3>2. Leads(commits', reflog, head, verdict, f, d.note, d.by)
      BY <1>1, <3>1, LeadsOn
    <3> QED
      BY <1>2, <1>3, <2>1, <3>2 DEF OwedInv, IsAncestor
  <2> QED
    BY <1>3, <2>1 DEF OwedInv
<1> QED
  BY <1>3 DEF OwedInv, qualified, Tip


\* What is on the line that is rewritten is owed by the new tip, what is not by
\* what it was.
LEMMA RewritesOwe ==
  ASSUME MInv, OwedInv, Extends(commits', commits), NEW c \in Commits',
         NEW how \in {"rebase", "amend"}, Rewrites(c, how), ~IsAncestor(commits', Tip, c),
         UNCHANGED <<cut, head, noted, verdict>>
  PROVE  OwedInv'
<1> DEFINE here == Ancestors(History, Tip)
           by(o) == {Chain(Bindings(verdict), o)[i] :
                       i \in DOMAIN Chain(Bindings(verdict), o)} \cap here
           due(o) == {d.by : d \in {x \in Due : x.note = o}}
           free(o) == (by(o) \cup due(o)) \ (Rewritten \cup DOMAIN verdict \cup {0})
           line == Segment(commits', MergeBase(commits', Tip, c), Tip)
           on(d) == IF d \in line THEN c ELSE d
           e == [how |-> how, old |-> Tip, new |-> c]
<1>1. head \in Branches /\ tips'[head] = c /\ IsHistory(commits') /\ IsHistory(commits)
      /\ Logged(reflog', reflog, head, e)
  BY DEF MInv, GitType, Rewrites, MoveTo, Extends, Logged
<1>2. LogsOf(commits, reflog) /\ LogsOf(commits', reflog)
  BY LogsAre, LogsStand DEF MInv
<1>3. owed' = {[note |-> o, by |-> IF free(o) = {} THEN 0 ELSE on(CHOOSE d \in free(o) : TRUE)] :
                 o \in {n \in noted : by(n) \cup due(n) # {}}}
  BY DEF Rewrites
<1>4. Tip \in DOMAIN commits /\ Tip \in DOMAIN commits' /\ c \in DOMAIN commits'
      /\ Ancestors(commits', Tip) = Ancestors(commits, Tip)
  BY TipsType, AncestorsStand DEF MInv, Commits
<1>5. e.how = how /\ e.old = Tip /\ e.new = c
  OBVIOUS
<1> HIDE DEF e, by, due
<1>6. ASSUME qualified, NEW o \in noted, NEW b \in free(o)
      PROVE  /\ b \in Ancestors(commits, Tip)
             /\ \E f : Leads(commits, reflog, head, verdict, f, o, b)
  <2>1. CASE b \in by(o)
    <3>1. PICK i \in DOMAIN Chain(Bindings(verdict), o) : b = Chain(Bindings(verdict), o)[i]
      BY <2>1 DEF by
    <3>2. LandsAs(verdict, o, b)
      BY <3>1, ChainLands
    <3>3. b \in Ancestors(commits, Tip)
      BY <1>1, <1>6, <2>1, HistoryIs DEF by
    <3>4. b \in DOMAIN commits
      BY <1>1, <1>4, <3>3, AncestorsType
    <3> QED
      BY <1>1, <1>2, <3>2, <3>3, <3>4, LeadsFrom
  <2>2. CASE b \in due(o)
    <3>1. PICK d \in owed : d.note = o /\ b = d.by
      BY <2>2 DEF due, Due
    <3> QED
      BY <1>6, <3>1 DEF OwedInv, IsAncestor
  <2> QED
    BY <2>1, <2>2
<1>7. ASSUME NEW b \in Ancestors(commits, Tip), b \notin line PROVE b \in Ancestors(commits', c)
  <2> DEFINE mb == MergeBase(commits', Tip, c)
  <2>1. mb # 0 /\ b \in Ancestors(commits', mb)
    BY <1>4, <1>7 DEF Segment
  <2>2. mb \in Ancestors(commits', c)
    BY <1>1, <1>4, <2>1, MergeBaseIs
  <2> HIDE DEF mb
  <2> QED
    BY <1>1, <1>4, <2>1, <2>2, AncestorsTransitive
<1>8. ASSUME qualified, NEW o \in noted, NEW b \in free(o)
      PROVE  /\ IsAncestor(commits', on(b), c)
             /\ \E f : Leads(commits', reflog', head, verdict, f, o, on(b))
  <2>1. b \in Ancestors(commits, Tip)
    BY <1>6, <1>8
  <2>2. PICK f : Leads(commits, reflog, head, verdict, f, o, b)
    BY <1>6, <1>8
  <2>3. on(b) \in Ancestors(commits', c)
    <3>1. c \in Ancestors(commits', c)
      BY <1>1, <1>4, AncestorsType
    <3> HIDE DEF line
    <3> QED
      BY <1>7, <2>1, <3>1
  <2>4. on(b) \in DOMAIN commits'
    BY <1>1, <1>4, <2>3, AncestorsType
  <2>5. Leads(commits', reflog, head, verdict, f, o, b)
    BY <1>1, <1>2, <2>2, LeadsOn
  <2>6. on(b) = b \/ CarriesTo(commits', reflog, verdict, e, b, on(b))
    <3>1. b \notin DOMAIN verdict
          /\ \A a \in Branches : \A j \in DOMAIN reflog[a] : ~Carries(commits', reflog[a][j], b)
      BY CarriedIsRewritten
    <3> QED
      BY <1>5, <3>1 DEF Carries, CarriesTo
  <2> HIDE DEF on
  <2>7. \E g : Leads(commits', reflog', head, verdict, g, o, on(b))
    BY <1>1, <1>2, <2>4, <2>5, <2>6, LeadsFurther
  <2> QED
    BY <2>3, <2>7 DEF IsAncestor
<1> HIDE DEF free, on
<1>9. ASSUME qualified, NEW d \in owed'
      PROVE  /\ d.note \in noted
             /\ d.by # 0 => /\ IsAncestor(commits', d.by, c)
                            /\ \E f : Leads(commits', reflog', head, verdict, f, d.note, d.by)
  <2>1. PICK o \in noted : d = [note |-> o, by |-> IF free(o) = {} THEN 0 ELSE on(CHOOSE x \in free(o) : TRUE)]
    BY <1>3
  <2>2. d.note = o /\ (d.by # 0 => \E b \in free(o) : d.by = on(b))
    BY <2>1
  <2> QED
    BY <1>8, <1>9, <2>2
<1> QED
  BY <1>1, <1>9 DEF OwedInv, qualified, Tip

LEMMA CommitOwes == ASSUME MInv, OwedInv, NEW x \in Edit, CommitChange(x) PROVE OwedInv'
<1>1. Tip \in Commits /\ IsHistory(commits)
  BY TipsType DEF MInv, GitType
<1>2. Extends(commits', commits) /\ New \in Commits'
  BY <1>1, FlipType, ExtendsItself, OneMore DEF CommitChange, New, Commits
<1>3. MoveTo(New, "commit") /\ UNCHANGED <<cut, head, noted, verdict>> /\ owed' \subseteq owed
  BY DEF CommitChange, Works, Due, store
<1>4. Ancestors(commits, Tip) \subseteq Ancestors(commits', New)
  <2> DEFINE tree == Flip(commits[Tip].tree, x)
  <2>1. {Tip} \in SUBSET DOMAIN commits /\ tree \in SUBSET Change
    BY <1>1, FlipType DEF Commits
  <2>2. commits' = Append(commits, [parents |-> {Tip}, tree |-> tree])
    BY DEF CommitChange
  <2> HIDE DEF tree
  <2>3. Ancestors(commits', New) = {New} \cup UNION {Ancestors(commits, p) : p \in {Tip}}
    BY <1>1, <2>1, <2>2, OneMoreAncestors DEF New
  <2> QED
    BY <2>3
<1> QED
  BY <1>2, <1>3, <1>4, MoveOwes

LEMMA MergeOwes == ASSUME MInv, OwedInv, MergeMain PROVE OwedInv'
<1> DEFINE onto == remotes["main"]
           d == RangePatchID(commits, MergeBase(commits, Tip, onto), onto)
           tree == (commits[Tip].tree \cup d.added) \ d.removed
<1>1. Tip \in Commits /\ onto \in Commits /\ IsHistory(commits)
  BY TipsType DEF MInv, GitType
<1>2. d.added \subseteq Change /\ commits[Tip].tree \subseteq Change
  BY <1>1, RangePatchType, CommitType DEF Commits
<1>3. tree \in SUBSET Change
  BY <1>2
<1>4. commits' = Append(commits, [parents |-> {Tip, onto}, tree |-> tree])
  BY DEF MergeMain
<1>5. MoveTo(New, "commit") /\ UNCHANGED <<cut, head, noted, verdict>> /\ owed' \subseteq owed
  BY DEF MergeMain, Works, Due, store
<1> HIDE DEF tree
<1>6. Extends(commits', commits) /\ New \in Commits'
  BY <1>1, <1>3, <1>4, ExtendsItself, OneMore DEF New, Commits
<1>7. Ancestors(commits, Tip) \subseteq Ancestors(commits', New)
  <2>1. {Tip, onto} \in SUBSET DOMAIN commits
    BY <1>1 DEF Commits
  <2>2. Ancestors(commits', New) = {New} \cup UNION {Ancestors(commits, p) : p \in {Tip, onto}}
    BY <1>1, <1>3, <1>4, <2>1, OneMoreAncestors DEF New
  <2> QED
    BY <2>2
<1> QED
  BY <1>5, <1>6, <1>7, MoveOwes

\* An amended commit is not before the one it becomes.
LEMMA AmendOwes == ASSUME MInv, OwedInv, NEW tree \in SUBSET Change, Amend(tree) PROVE OwedInv'
<1> DEFINE parents == commits[Tip].parents
<1>1. Tip \in Commits /\ IsHistory(commits)
  BY TipsType DEF MInv, GitType
<1>2. parents \in SUBSET DOMAIN commits /\ parents \subseteq 1 .. Tip - 1 /\ Tip \in Nat /\ Tip # New
  <2>1. Len(commits) \in Nat /\ Tip \in 1 .. Len(commits)
    BY <1>1, CommitType DEF Commits
  <2>2. Tip # Len(commits) + 1
    BY <2>1
  <2> QED
    BY <1>1, <2>2, CommitType DEF Commits, New
<1>3. commits' = Append(commits, [parents |-> parents, tree |-> tree])
  BY DEF Amend
<1>4. Rewrites(New, "amend") /\ UNCHANGED <<cut, head, noted, verdict>>
  BY DEF Amend, Works, store
<1> HIDE DEF parents
<1>5. Extends(commits', commits) /\ New \in Commits'
  BY <1>1, <1>2, <1>3, ExtendsItself, OneMore DEF New, Commits
<1>6. ~IsAncestor(commits', Tip, New)
  <2>1. Ancestors(commits', New) = {New} \cup UNION {Ancestors(commits, p) : p \in parents}
    BY <1>1, <1>2, <1>3, OneMoreAncestors DEF New
  <2>2. ASSUME NEW p \in parents PROVE Tip \notin Ancestors(commits, p)
    <3>1. Ancestors(commits, p) \subseteq 1 .. p /\ p \in 1 .. Tip - 1
      BY <1>1, <1>2, AncestorsType
    <3> QED
      BY <1>2, <3>1
  <2> QED
    BY <1>2, <2>1, <2>2 DEF IsAncestor
<1> QED
  BY <1>4, <1>5, <1>6, RewritesOwe

\* Nor is the tip of a line before what the line is replayed to.
LEMMA RebaseOwes == ASSUME MInv, OwedInv, NEW keep \in SUBSET Commits, Rebase(keep) PROVE OwedInv'
<1> DEFINE onto == remotes["main"]
           new == Replayed(keep, onto)
<1>1. onto \in Commits /\ Tip \in Commits /\ IsHistory(commits)
  BY TipsType DEF MInv, GitType
<1>2. Extends(new.commits, commits) /\ new.tip \in DOMAIN new.commits
      /\ Ancestors(new.commits, new.tip) \cap Commits \subseteq Ancestors(commits, onto)
  BY <1>1, ReplayedType
<1>3. /\ commits' = new.commits /\ Rewrites(new.tip, "rebase")
      /\ ~IsAncestor(History, Tip, onto) /\ UNCHANGED <<cut, head, noted, verdict>>
  BY DEF Rebase, Works, store
<1> HIDE DEF new
<1>4. Extends(commits', commits) /\ new.tip \in Commits'
  BY <1>2, <1>3 DEF Commits
<1>5. CASE qualified
  <2>1. ~IsAncestor(commits', Tip, new.tip)
    BY <1>1, <1>2, <1>3, <1>5, HistoryIs DEF IsAncestor
  <2> QED
    BY <1>3, <1>4, <2>1, RewritesOwe
<1>6. CASE ~qualified
  BY <1>3, <1>6 DEF OwedInv, qualified
<1> QED
  BY <1>5, <1>6


\* Verdicts and memos.
IsState(st) == st = [v |-> st.v, memo |-> st.memo]

\* An m1 binds of what may be bound what the rewriting carried away, and nothing
\* else.
LEMMA M1Binds ==
  ASSUME GitType, qualified, NEW st, IsState(st), NEW e \in Succession
  PROVE  /\ Has(M1(st, Try(e, "m1")).v, st.v)
         /\ \A x \in DOMAIN M1(st, Try(e, "m1")).v \ DOMAIN st.v : Carries(commits, e, x)
         /\ \A x \in Candidates(st.v, FALSE) : Carries(commits, e, x)
              => x \in DOMAIN M1(st, Try(e, "m1")).v /\ M1(st, Try(e, "m1")).v[x].as = e.new
<1> DEFINE a == Try(e, "m1")
           line == BindSegment(History, e.old, e.new, Candidates(st.v, FALSE))
           next == Minted(st.v, line, e.new, "m1")
<1>1. History = commits
  BY HistoryIs DEF GitType
<1>2. a.old = e.old /\ a.new = e.new /\ e.how \in {"rebase", "amend"}
  BY DEF Try, Succession
<1>3. PICK v, m : st = [v |-> v, memo |-> m] /\ st.v = v /\ st.memo = m
  BY DEF IsState
<1>4. [st EXCEPT !.v = next].v = next
  BY <1>3
<1>5. M1(st, a) = IF IsAncestor(commits, e.old, e.new) THEN st ELSE [st EXCEPT !.v = next]
  BY <1>1, <1>2 DEF M1, Bind
<1>6. line = Candidates(st.v, FALSE) \cap Segment(commits, MergeBase(commits, e.old, e.new), e.old)
  BY <1>1 DEF BindSegment
<1>7. line \cap DOMAIN st.v = {}
  BY <1>6 DEF Candidates
<1> HIDE DEF line, a
<1>8. DOMAIN next = DOMAIN st.v \cup line
      /\ (\A x \in line : next[x].as = e.new) /\ \A x \in DOMAIN st.v : next[x] = st.v[x]
  BY <1>7 DEF Minted
<1> HIDE DEF next
<1>9. CASE IsAncestor(commits, e.old, e.new)
  <2>1. M1(st, a) = st
    BY <1>5, <1>9
  <2>2. \A x : ~Carries(commits, e, x)
    BY <1>9 DEF Carries
  <2> QED
    BY <2>1, <2>2 DEF a, Has
<1>10. CASE ~IsAncestor(commits, e.old, e.new)
  <2>1. M1(st, a).v = next
    BY <1>4, <1>5, <1>10
  <2>2. \A x : Carries(commits, e, x) <=> x \in Segment(commits, MergeBase(commits, e.old, e.new), e.old)
    BY <1>2, <1>10 DEF Carries
  <2> QED
    BY <1>6, <1>8, <2>1, <2>2 DEF a, Has
<1> QED
  BY <1>9, <1>10

\* No attempt changes a verdict.
LEMMA BindExtends ==
  ASSUME NEW st, IsState(st), NEW tip, NEW as, NEW by
  PROVE  Has(Bind(st, tip, as, by).v, st.v)
<1> DEFINE line == BindSegment(History, tip, as, Candidates(st.v, FALSE))
           next == Minted(st.v, line, as, by)
<1>1. PICK v, m : st = [v |-> v, memo |-> m] /\ st.v = v /\ st.memo = m
  BY DEF IsState
<1>2. [st EXCEPT !.v = next].v = next
  BY <1>1
<1>3. Bind(st, tip, as, by) = [st EXCEPT !.v = next]
  BY DEF Bind
<1>4. line \cap DOMAIN st.v = {}
  BY DEF BindSegment, Candidates
<1> HIDE DEF line
<1>5. Has(next, st.v)
  BY <1>4 DEF Minted, Has
<1> HIDE DEF next
<1> QED
  BY <1>2, <1>3, <1>5

LEMMA AttemptExtends ==
  ASSUME NEW st, IsState(st), NEW a, a.by \in {"m1", "m2", "m3"}
  PROVE  Has(Attempt(st, a).v, st.v)
<1>1. PICK v, m : st = [v |-> v, memo |-> m] /\ st.v = v /\ st.memo = m
  BY DEF IsState
<1>2. \A more : [st EXCEPT !.memo = @ \cup more].v = st.v
  BY <1>1
<1>3. \A by : Has(Bind(st, a.old, a.new, by).v, st.v)
  BY BindExtends
<1>4. \A c : Has(Bind(st, a.old, c, "m3").v, st.v)
  BY BindExtends
<1>5. Has(st.v, st.v)
  BY DEF Has
<1>6. CASE a.by = "m1"
  BY <1>3, <1>5, <1>6 DEF Attempt, M1
<1>7. CASE a.by = "m2"
  <2>1. Attempt(st, a) = M2(st, a)
    BY <1>7 DEF Attempt
  <2>2. \/ M2(st, a) = st
        \/ M2(st, a) = Bind(st, a.old, a.new, "m2")
        \/ M2(st, a) = [st EXCEPT !.memo = @ \cup {<<a.old, a.new>>}]
    BY DEF M2
  <2> QED
    BY <1>2, <1>3, <1>5, <2>1, <2>2
<1>8. CASE a.by = "m3"
  <2>1. Attempt(st, a) = M3(st, a)
    BY <1>8 DEF Attempt
  <2>2. \/ M3(st, a) = st
        \/ \E c : M3(st, a) = Bind(st, a.old, c, "m3")
        \/ M3(st, a) = [st EXCEPT !.memo = @ \cup {<<a.old, a.new>>}]
    BY DEF M3
  <2> QED
    BY <1>2, <1>4, <1>5, <2>1, <2>2
<1> QED
  BY <1>6, <1>7, <1>8


\* What the log leads away from is bound, or the m1 that binds it is not among
\* the first d attempts.
OnTheWay(v, f, pos, d) ==
  \A i \in DOMAIN reflog[head] : f[i] # f[i - 1] =>
    /\ f[i] = reflog[head][i].new
    /\ IF f[i - 1] \in DOMAIN v THEN v[f[i - 1]].as = f[i]
       ELSE First(commits, reflog, head, i, f[i - 1]) /\ d < pos[i]

\* As far as all is bound the verdicts lead along the log.
LEMMA LandsAlong ==
  ASSUME GitType, NEW v, NEW f, NEW pos, NEW d, OnTheWay(v, f, pos, d),
         NEW o, LandsAs(v, o, f[0]), NEW n \in 0 .. Len(reflog[head]),
         \A i \in 1 .. n : f[i] # f[i - 1] => f[i - 1] \in DOMAIN v
  PROVE  LandsAs(v, o, f[n])
<1> DEFINE S == {m \in 0 .. n : LandsAs(v, o, f[m])}
<1>1. LogsOf(commits, reflog) /\ head \in Branches /\ IsHistory(commits)
  BY LogsAre DEF GitType
<1>2. Len(reflog[head]) \in Nat /\ DOMAIN reflog[head] = 1 .. Len(reflog[head]) /\ n \in Nat
  BY <1>1 DEF LogsOf
<1>3. 0 \in S
  BY <1>2
<1>4. ASSUME NEW m \in 0 .. n - 1, m \in S PROVE m + 1 \in S
  <2>1. m + 1 \in 1 .. n /\ m + 1 \in 0 .. n /\ m + 1 \in DOMAIN reflog[head] /\ m + 1 - 1 = m
    BY <1>2
  <2>2. LandsAs(v, o, f[m])
    BY <1>4
  <2>3. CASE f[m + 1] = f[m]
    BY <2>1, <2>2, <2>3
  <2>4. CASE f[m + 1] # f[m]
    <3>1. PICK i \in 1 .. n : i = m + 1 /\ i - 1 = m /\ i \in DOMAIN reflog[head]
      BY <2>1
    <3>2. f[m] \in DOMAIN v /\ f[i] = reflog[head][i].new /\ v[f[m]].as = f[i]
      BY <2>4, <3>1 DEF OnTheWay
    <3>3. f[i] # 0
      <4>1. f[i] \in DOMAIN commits
        BY <1>1, <3>1, <3>2 DEF LogsOf
      <4> QED
        BY <1>1, <4>1, CommitType
    <3>4. LandsAs(v, o, f[i])
      BY <2>2, <3>2, <3>3, LandsOn
    <3> QED
      BY <2>1, <3>1, <3>4
  <2> QED
    BY <2>3, <2>4
<1> HIDE DEF S
<1>5. 0 .. n \subseteq S
  BY <1>2, <1>3, <1>4, UpTo
<1> QED
  BY <1>2, <1>5 DEF S

\* Where the verdicts lead an m1 may bind.
LEMMA LandsCandidate ==
  ASSUME NEW v, NEW o \in noted, NEW x, LandsAs(v, o, x), x \notin DOMAIN v
  PROVE  x \in Candidates(v, FALSE)
<1> DEFINE S == noted \cup {v[z].as : z \in DOMAIN Bindings(v)}
<1>1. \A z \in S \cap DOMAIN v : v[z].as # 0 => v[z].as \in S
  BY DEF Bindings
<1> HIDE DEF S
<1>2. x \in S
  BY <1>1 DEF LandsAs, S
<1> QED
  BY <1>2 DEF S, Candidates

\* The rewritings that a log has first are among those that are tried.
LEMMA FirstIsTried ==
  ASSUME GitType, NEW i \in DOMAIN reflog[head], NEW x, First(commits, reflog, head, i, x)
  PROVE  i \in Rewritings(head)
<1> DEFINE e == reflog[head][i]
<1>1. IsHistory(commits) /\ e.old \in DOMAIN commits /\ e.new \in DOMAIN commits
  BY LogsAre DEF GitType, LogsOf
<1>2. e.how \in {"rebase", "amend"} /\ ~IsAncestor(commits, e.old, e.new)
  BY DEF First, Carries
<1>3. e.old # e.new
  BY <1>1, <1>2, AncestorsType DEF IsAncestor
<1> QED
  BY <1>2, <1>3 DEF Rewritings

\* An attempt of a pass goes on on the way.
LEMMA AttemptOnTheWay ==
  ASSUME GitType, ReflogInv, qualified, NEW st, IsState(st), NEW a, a.by \in {"m1", "m2", "m3"},
         NEW pos, Places(pos), NEW d \in Nat,
         d + 1 <= Len(Successions) => a = Try(Successions[d + 1], "m1"),
         NEW f, NEW o \in noted, OnTheWay(st.v, f, pos, d), LandsAs(st.v, o, f[0])
  PROVE  OnTheWay(Attempt(st, a).v, f, pos, d + 1)
<1> DEFINE next == Attempt(st, a).v
           log == reflog[head]
<1>1. Has(next, st.v)
  BY AttemptExtends
<1>2. Len(Successions) \in Nat /\ \A p \in 1 .. Len(Successions) : Successions[p] \in Succession
  <2> DEFINE X == Succession
  <2>1. Successions \in Seq(X)
    BY SuccessionsType
  <2> HIDE DEF X
  <2>2. Len(Successions) \in Nat /\ \A p \in 1 .. Len(Successions) : Successions[p] \in X
    BY <2>1
  <2> QED
    BY <2>2 DEF X
<1>3. LogsOf(commits, reflog) /\ head \in Branches
  BY LogsAre DEF GitType
<1>4. Len(log) \in Nat /\ DOMAIN log = 1 .. Len(log)
  BY <1>3 DEF LogsOf
<1> HIDE DEF next
<1>5. ASSUME NEW i \in DOMAIN log, f[i] # f[i - 1]
      PROVE  /\ f[i] = log[i].new
             /\ IF f[i - 1] \in DOMAIN next THEN next[f[i - 1]].as = f[i]
                ELSE First(commits, reflog, head, i, f[i - 1]) /\ d + 1 < pos[i]
  <2> DEFINE x == f[i - 1]
  <2>1. f[i] = log[i].new
    BY <1>5 DEF OnTheWay
  <2>2. CASE x \in DOMAIN st.v
    <3>1. st.v[x].as = f[i]
      BY <1>5, <2>2 DEF OnTheWay
    <3> QED
      BY <1>1, <2>1, <2>2, <3>1 DEF Has
  <2>3. CASE x \notin DOMAIN st.v
    <3>1. First(commits, reflog, head, i, x) /\ d < pos[i]
      BY <1>5, <2>3 DEF OnTheWay
    <3>2. i \in Rewritings(head)
      BY <3>1, FirstIsTried
    <3>3. pos[i] \in 1 .. Len(Successions) /\ Successions[pos[i]] = log[i]
          /\ (\A j \in Rewritings(head) : i < j => pos[i] < pos[j])
          /\ \A p \in 1 .. pos[i] - 1 : Before(i, Successions[p])
      BY <3>2 DEF Places
    <3>4. d + 1 \in 1 .. Len(Successions) /\ d + 1 <= Len(Successions) /\ d + 1 <= pos[i]
      BY <1>2, <3>1, <3>3
    <3>5. PICK e \in Succession : e = Successions[d + 1] /\ a = Try(e, "m1")
      BY <1>2, <3>4
    <3>6. Attempt(st, a) = M1(st, Try(e, "m1"))
      BY <3>5 DEF Attempt, Try
    <3>7. /\ \A z \in DOMAIN next \ DOMAIN st.v : Carries(commits, e, z)
          /\ \A z \in Candidates(st.v, FALSE) : Carries(commits, e, z)
               => z \in DOMAIN next /\ next[z].as = e.new
      BY <3>6, M1Binds DEF next
    <3>8. CASE pos[i] = d + 1
      <4>1. e = log[i]
        BY <3>3, <3>5, <3>8
      <4>2. ASSUME NEW j \in 1 .. i - 1, f[j] # f[j - 1], f[j - 1] \notin DOMAIN st.v PROVE FALSE
        <5>1. j \in DOMAIN log /\ j < i
          BY <1>4
        <5>2. First(commits, reflog, head, j, f[j - 1]) /\ d < pos[j]
          BY <4>2, <5>1 DEF OnTheWay
        <5>3. j \in Rewritings(head)
          BY <5>1, <5>2, FirstIsTried
        <5>4. pos[j] < pos[i] /\ pos[j] \in 1 .. Len(Successions)
          BY <3>2, <5>1, <5>3 DEF Places
        <5> QED
          BY <1>2, <3>8, <5>2, <5>4
      <4>3. i - 1 \in 0 .. Len(log)
        BY <1>4
      <4>4. LandsAs(st.v, o, x)
        BY <4>2, <4>3, LandsAlong
      <4>5. x \in Candidates(st.v, FALSE)
        BY <2>3, <4>4, LandsCandidate
      <4>6. Carries(commits, e, x)
        BY <3>1, <4>1 DEF First
      <4> QED
        BY <2>1, <3>7, <4>1, <4>5, <4>6
    <3>9. CASE pos[i] # d + 1
      <4>1. d + 1 < pos[i] /\ d + 1 \in 1 .. pos[i] - 1
        BY <1>2, <3>3, <3>4, <3>9
      <4>2. Before(i, e)
        BY <3>3, <3>5, <4>1
      <4>3. ~Carries(commits, e, x)
        BY <3>1, <4>2 DEF First, Before
      <4>4. x \notin DOMAIN next
        BY <2>3, <3>7, <4>3
      <4> QED
        BY <2>1, <3>1, <4>1, <4>4
    <3> QED
      BY <3>8, <3>9
  <2> QED
    BY <2>2, <2>3
<1> QED
  BY <1>5 DEF OnTheWay, next


\* A run tries first what the reflogs have.
TriesFirst(run) ==
  \A p \in DOMAIN run : p <= Len(Successions) => run[p] = Try(Successions[p], "m1")

LEMMA SuccessionsLength ==
  ASSUME GitType, ReflogInv
  PROVE  Len(Successions) \in Nat /\ DOMAIN Successions = 1 .. Len(Successions)
<1> DEFINE X == Succession
<1>1. Successions \in Seq(X)
  BY SuccessionsType
<1> HIDE DEF X
<1> QED
  BY <1>1

LEMMA AttemptsBegin ==
  ASSUME GitType, ReflogInv, qualified, NEW pairs \in SUBSET Pair, IsFiniteSet(pairs),
         NEW h \in Commits, NEW st, NEW run \in Attempts(st, h, pairs)
  PROVE  Len(Successions) <= Len(run) /\ TriesFirst(run)
<1> DEFINE T == Trials(pairs)
           m == SetToSeq(pairs)
           N == Len(Successions)
           first == [i \in DOMAIN Successions |-> Try(Successions[i], "m1")]
           second == [i \in DOMAIN m |-> Try(m[i], "m2")]
<1>1. PICK late \in Late(FoldLeft(Attempt, st, Early(pairs)).v, h) : run = Early(pairs) \o late
  BY DEF Attempts
<1>2. N \in Nat /\ DOMAIN Successions = 1 .. N
  BY SuccessionsLength
<1>3. Early(pairs) = first \o second
  BY DEF Early
<1>4. DOMAIN first = 1 .. N /\ \A i \in 1 .. N : first[i] = Try(Successions[i], "m1")
  BY <1>2
<1> DEFINE Y == {first[i] : i \in DOMAIN first} \cup {second[i] : i \in DOMAIN second}
           Z == Y \cup LateTrials
<1>5. first \in Seq(Y)
  <2>1. first \in [1 .. N -> Y]
    BY <1>2
  <2> HIDE DEF first, Y
  <2> QED
    BY <1>2, <2>1, IsSeq
<1>6. second \in Seq(Y)
  <2>1. m \in Seq(pairs)
    BY SetToSeqType
  <2> HIDE DEF m
  <2>2. Len(m) \in Nat /\ DOMAIN m = 1 .. Len(m)
    BY <2>1
  <2>3. second \in [1 .. Len(m) -> Y]
    BY <2>2
  <2> HIDE DEF second, Y
  <2> QED
    BY <2>2, <2>3, IsSeq
<1> HIDE DEF first, second, Y, N
<1>7. Len(first) = N
  BY <1>2, <1>4, <1>5
<1>8. Early(pairs) \in Seq(Y) /\ Len(Early(pairs)) >= N
      /\ \A p \in 1 .. N : Early(pairs)[p] = first[p]
  BY <1>2, <1>3, <1>5, <1>6, <1>7
<1>9. late \in Seq(LateTrials)
  BY <1>1, LateType
<1>10. Early(pairs) \in Seq(Z) /\ late \in Seq(Z)
  BY <1>8, <1>9
<1> HIDE DEF Z
<1>11. Len(run) >= N /\ \A p \in 1 .. N : p \in DOMAIN run /\ run[p] = Early(pairs)[p]
  BY <1>1, <1>2, <1>8, <1>10
<1>12. run \in Seq(Z)
  BY <1>1, <1>10, ConcatType
<1>13. ASSUME NEW p \in DOMAIN run, p <= N PROVE run[p] = Try(Successions[p], "m1")
  <2>1. p \in 1 .. N
    BY <1>2, <1>12, <1>13
  <2> QED
    BY <1>4, <1>8, <1>11, <2>1
<1>14. N <= Len(run)
  BY <1>2, <1>11, <1>12
<1> QED
  BY <1>13, <1>14 DEF TriesFirst, N


LEMMA WayBegins ==
  ASSUME GitType, ReflogInv, NEW v, NEW f, NEW o, NEW b, NEW pos, Places(pos),
         Leads(commits, reflog, head, v, f, o, b)
  PROVE  OnTheWay(v, f, pos, 0)
<1>1. ASSUME NEW i \in DOMAIN reflog[head], f[i] # f[i - 1]
      PROVE  /\ f[i] = reflog[head][i].new
             /\ IF f[i - 1] \in DOMAIN v THEN v[f[i - 1]].as = f[i]
                ELSE First(commits, reflog, head, i, f[i - 1]) /\ 0 < pos[i]
  <2>1. f[i] = reflog[head][i].new /\ Turns(commits, reflog, head, v, i, f[i - 1])
    BY <1>1 DEF Leads
  <2>2. CASE f[i - 1] \in DOMAIN v
    BY <2>1, <2>2 DEF Turns
  <2>3. CASE f[i - 1] \notin DOMAIN v
    <3>1. First(commits, reflog, head, i, f[i - 1])
      BY <2>1, <2>3 DEF Turns
    <3>2. pos[i] \in 1 .. Len(Successions)
      BY <3>1, FirstIsTried DEF Places
    <3>3. 0 < pos[i]
      BY <3>2, SuccessionsLength
    <3> QED
      BY <2>1, <2>3, <3>1, <3>3
  <2> QED
    BY <2>2, <2>3
<1> QED
  BY <1>1 DEF OnTheWay

LEMMA WayLeads ==
  ASSUME NEW v, NEW w, NEW f, NEW o, NEW b, NEW pos, NEW d,
         Leads(commits, reflog, head, v, f, o, b), LandsAs(w, o, f[0]), OnTheWay(w, f, pos, d)
  PROVE  Leads(commits, reflog, head, w, f, o, b)
BY DEF Leads, OnTheWay, Turns

\* What leads to b is on the way through a whole run, and through any part of it.
LEMMA RunOnTheWay ==
  ASSUME MInv, qualified, NEW pairs, NEW run \in Seq(Trials(pairs)), TriesFirst(run),
         NEW pos, Places(pos), NEW f, NEW o \in noted,
         OnTheWay(verdict, f, pos, 0), LandsAs(verdict, o, f[0])
  PROVE  /\ Passing(FoldLeft(Attempt, Now, run), pairs)
         /\ OnTheWay(FoldLeft(Attempt, Now, run).v, f, pos, Len(run))
<1> DEFINE T == Trials(pairs)
           N == Len(run)
<1>1. PICK w : /\ w[0] = Now
               /\ \A d \in 0 .. N - 1 : w[d + 1] = Attempt(w[d], run[d + 1])
               /\ w[N] = FoldLeft(Attempt, Now, run)
  BY RunSteps
<1>2. N \in Nat /\ \A d \in 1 .. N : d \in DOMAIN run /\ run[d] \in T
  <2> HIDE DEF T
  <2>1. run \in Seq(T)
    BY DEF T
  <2> QED
    BY <2>1
<1> HIDE DEF N
<1> DEFINE S == {d \in 0 .. N : Passing(w[d], pairs) /\ OnTheWay(w[d].v, f, pos, d)}
<1>3. 0 \in S
  <2>1. Passing(Now, pairs) /\ Now.v = verdict
    BY NowPasses DEF MInv, Now
  <2> QED
    BY <1>1, <1>2, <2>1
<1>4. ASSUME NEW d \in 0 .. N - 1, d \in S PROVE d + 1 \in S
  <2>1. d + 1 \in 1 .. N /\ d + 1 \in 0 .. N /\ d \in Nat
    BY <1>2
  <2>2. PICK st : st = w[d] /\ Passing(st, pairs) /\ OnTheWay(st.v, f, pos, d)
    BY <1>4
  <2>3. PICK a \in Trials(pairs) : a = run[d + 1] /\ a.by \in {"m1", "m2", "m3"}
    BY <1>2, <2>1 DEF Trials
  <2>4. w[d + 1] = Attempt(st, a)
    BY <1>1, <2>2, <2>3
  <2>5. IsState(st) /\ Has(st.v, verdict)
    BY <2>2 DEF Passing, IsState, Has
  <2>6. LandsAs(st.v, o, f[0])
    BY <2>5, LandsStill
  <2>7. d + 1 <= Len(Successions) => a = Try(Successions[d + 1], "m1")
    BY <1>2, <2>1, <2>3 DEF TriesFirst
  <2>8. Passing(Attempt(st, a), pairs)
    BY <2>2, AttemptKeeps DEF MInv
  <2>9. OnTheWay(Attempt(st, a).v, f, pos, d + 1)
    BY <2>1, <2>2, <2>3, <2>5, <2>6, <2>7, AttemptOnTheWay DEF MInv
  <2> QED
    BY <2>1, <2>4, <2>8, <2>9
<1> HIDE DEF S
<1>5. 0 .. N \subseteq S
  BY <1>2, <1>3, <1>4, UpTo
<1>6. N \in S
  BY <1>2, <1>5
<1> QED
  BY <1>1, <1>6 DEF S, N

\* A pass that ends has bound all that leads to b.
LEMMA PassedLands ==
  ASSUME MInv, qualified, NEW pairs \in SUBSET Pair, IsFiniteSet(pairs), NEW h \in Commits,
         NEW st \in Passed(h, pairs), NEW o \in noted, NEW f, NEW b,
         Leads(commits, reflog, head, verdict, f, o, b)
  PROVE  LandsAs(st.v, o, b) /\ Leads(commits, reflog, head, st.v, f, o, b)
<1>1. PICK run \in Attempts(Now, h, pairs) : st = FoldLeft(Attempt, Now, run)
  BY DEF Passed
<1>2. run \in Seq(Trials(pairs)) /\ TriesFirst(run) /\ Len(Successions) <= Len(run)
  BY AttemptsType, AttemptsBegin DEF MInv
<1>3. PICK pos : Places(pos)
  BY PlacesExist DEF MInv
<1>4. OnTheWay(verdict, f, pos, 0) /\ LandsAs(verdict, o, f[0])
  BY <1>3, WayBegins DEF MInv, Leads
<1>5. Passing(st, pairs) /\ OnTheWay(st.v, f, pos, Len(run))
  BY <1>1, <1>2, <1>3, <1>4, RunOnTheWay
<1>6. LandsAs(st.v, o, f[0])
  <2>1. Has(st.v, verdict)
    BY <1>5 DEF Passing, Has
  <2> QED
    BY <1>4, <2>1, LandsStill
<1>7. Leads(commits, reflog, head, st.v, f, o, b)
  BY <1>5, <1>6, WayLeads
<1>8. LogsOf(commits, reflog) /\ head \in Branches
  BY LogsAre DEF MInv, GitType
<1>9. Len(reflog[head]) \in Nat /\ DOMAIN reflog[head] = 1 .. Len(reflog[head])
  BY <1>8 DEF LogsOf
<1>10. ASSUME NEW i \in 1 .. Len(reflog[head]), f[i] # f[i - 1], f[i - 1] \notin DOMAIN st.v PROVE FALSE
  <2>1. First(commits, reflog, head, i, f[i - 1]) /\ Len(run) < pos[i]
    BY <1>5, <1>9, <1>10 DEF OnTheWay
  <2>2. pos[i] \in 1 .. Len(Successions)
    BY <1>3, <1>9, <2>1, FirstIsTried DEF MInv, Places
  <2>3. Len(Successions) \in Nat /\ Len(run) \in Nat
    <3> DEFINE T == Trials(pairs)
    <3>1. run \in Seq(T)
      BY <1>2
    <3> HIDE DEF T
    <3>2. Len(run) \in Nat
      BY <3>1
    <3> QED
      BY <3>2, SuccessionsLength DEF MInv
  <2> QED
    BY <1>2, <2>1, <2>2, <2>3
<1>11. Len(reflog[head]) \in 0 .. Len(reflog[head]) /\ f[Len(reflog[head])] = b
  BY <1>9 DEF Leads
<1>12. LandsAs(st.v, o, f[Len(reflog[head])])
  BY <1>5, <1>6, <1>10, <1>11, LandsAlong DEF MInv
<1> QED
  BY <1>7, <1>11, <1>12


\* A pass that dies may have bound it all, some of it, or nothing.
LEMMA DiedLeads ==
  ASSUME MInv, qualified, NEW pairs \in SUBSET Pair, IsFiniteSet(pairs), NEW h \in Commits,
         NEW st \in Died(h, pairs), NEW o \in noted, NEW f, NEW b,
         Leads(commits, reflog, head, verdict, f, o, b)
  PROVE  Leads(commits, reflog, head, st.v, f, o, b)
<1> DEFINE partly(x, n) ==
             {[x EXCEPT !.v = [z \in DOMAIN x.v \cup part |-> n.v[z]]] :
                part \in SUBSET (DOMAIN n.v \ DOMAIN x.v)}
           until(run, k) == FoldLeft(Attempt, Now, SubSeq(run, 1, k - 1))
<1>1. Died(h, pairs) =
        UNION {UNION {partly(until(run, k), Attempt(until(run, k), run[k])) : k \in DOMAIN run} :
                 run \in Attempts(Now, h, pairs)}
  BY DEF Died
<1> HIDE DEF partly
<1>2. PICK run \in Attempts(Now, h, pairs) :
        st \in UNION {partly(until(run, k), Attempt(until(run, k), run[k])) : k \in DOMAIN run}
  BY <1>1
<1>3. PICK k \in DOMAIN run : st \in partly(until(run, k), Attempt(until(run, k), run[k]))
  BY <1>2
<1> DEFINE T == Trials(pairs)
           before == SubSeq(run, 1, k - 1)
           x == FoldLeft(Attempt, Now, before)
           n == Attempt(x, run[k])
<1>4. PICK part \in SUBSET (DOMAIN n.v \ DOMAIN x.v) :
        st = [x EXCEPT !.v = [z \in DOMAIN x.v \cup part |-> n.v[z]]]
  BY <1>3 DEF partly
<1>5. run \in Seq(Trials(pairs)) /\ TriesFirst(run)
  BY AttemptsType, AttemptsBegin DEF MInv
<1>6. /\ run[k] \in T /\ before \in Seq(T) /\ Len(before) = k - 1 /\ k - 1 \in Nat /\ k - 1 + 1 = k
      /\ \A p \in DOMAIN before : p \in DOMAIN run /\ before[p] = run[p]
  <2>1. run \in Seq(T)
    BY <1>5
  <2> HIDE DEF T
  <2>2. Len(run) \in Nat /\ k \in 1 .. Len(run) /\ DOMAIN run = 1 .. Len(run)
    BY <2>1
  <2>3. before \in Seq(T) /\ Len(before) = k - 1 /\ DOMAIN before = 1 .. k - 1
        /\ \A p \in 1 .. k - 1 : before[p] = run[p]
    BY <2>1, <2>2
  <2> HIDE DEF before
  <2> QED
    BY <2>1, <2>2, <2>3
<1> HIDE DEF before
<1>7. TriesFirst(before)
  BY <1>5, <1>6 DEF TriesFirst
<1>8. PICK pos : Places(pos)
  BY PlacesExist DEF MInv
<1>9. OnTheWay(verdict, f, pos, 0) /\ LandsAs(verdict, o, f[0])
  BY <1>8, WayBegins DEF MInv, Leads
<1>10. Passing(x, pairs) /\ OnTheWay(x.v, f, pos, k - 1)
  BY <1>6, <1>7, <1>8, <1>9, RunOnTheWay
<1> HIDE DEF x
<1>11. IsState(x) /\ Has(x.v, verdict)
  BY <1>10 DEF Passing, IsState, Has
<1>12. LandsAs(x.v, o, f[0])
  BY <1>9, <1>11, LandsStill
<1>13. PICK a \in T : a = run[k] /\ a.by \in {"m1", "m2", "m3"}
  BY <1>6 DEF Trials
<1>14. Has(n.v, x.v)
  BY <1>11, <1>13, AttemptExtends
<1>15. OnTheWay(n.v, f, pos, k)
  <2>1. k <= Len(Successions) => a = Try(Successions[k], "m1")
    BY <1>5, <1>13 DEF TriesFirst
  <2>2. PICK d \in Nat : d = k - 1 /\ d + 1 = k
    BY <1>6
  <2>3. OnTheWay(Attempt(x, a).v, f, pos, d + 1)
    BY <1>8, <1>10, <1>11, <1>12, <1>13, <2>1, <2>2, AttemptOnTheWay DEF MInv
  <2> QED
    BY <1>13, <2>2, <2>3
<1> HIDE DEF n
<1> DEFINE v == [z \in DOMAIN x.v \cup part |-> n.v[z]]
<1>16. DOMAIN v = DOMAIN x.v \cup part /\ DOMAIN v \subseteq DOMAIN n.v /\ \A z \in DOMAIN v : v[z] = n.v[z]
  BY <1>14 DEF Has
<1>17. st = [x EXCEPT !.v = v]
  BY <1>4
<1> HIDE DEF v
<1>18. st.v = v
  BY <1>11, <1>17 DEF IsState
<1>19. LandsAs(v, o, f[0])
  <2>1. Has(v, verdict)
    BY <1>11, <1>14, <1>16 DEF Has
  <2> QED
    BY <1>9, <2>1, LandsStill
<1>20. OnTheWay(v, f, pos, k - 1)
  BY <1>10, <1>15, <1>16 DEF OnTheWay
<1> QED
  BY <1>18, <1>19, <1>20, WayLeads

-----------------------------------------------------------------------------
(* What is owed is paid.                                                   *)

\* What a pass leaves owes what was owed.
LEMMA PassOwes ==
  ASSUME MInv, OwedInv, UNCHANGED <<git, owed>>, noted \subseteq noted',
         \A o \in noted : \A f, b : qualified /\ Leads(commits, reflog, head, verdict, f, o, b)
           => Leads(commits, reflog, head, verdict', f, o, b)
  PROVE  OwedInv'
<1>1. UNCHANGED <<commits, cut, tips, head, reflog>>
  BY DEF git
<1>2. ASSUME qualified, NEW d \in owed
      PROVE  /\ d.note \in noted
             /\ d.by # 0 => /\ IsAncestor(commits, d.by, Tip)
                            /\ \E f : Leads(commits, reflog, head, verdict', f, d.note, d.by)
  BY <1>2 DEF OwedInv
<1> QED
  BY <1>1, <1>2 DEF OwedInv, qualified, Tip

\* No chain of a note was cut off: it has all that its verdicts lead to.
ChainsEnd ==
  \A o \in noted :
    LET c == Chain(Bindings(verdict), o)
    IN  \A i \in DOMAIN c : c[i] \in DOMAIN Bindings(verdict) =>
          \E j \in DOMAIN c : c[j] = verdict[c[i]].as

\* That is so while no more commits are bound than dm follows bindings.
LEMMA FewBindings ==
  ASSUME MInv, Cardinality(DOMAIN Bindings(verdict)) <= MaxChainDepth
  PROVE  ChainsEnd
<1> DEFINE b == Bindings(verdict)
<1>1. IsFiniteSet(DOMAIN b)
  <2>1. DOMAIN b \in SUBSET Commits
    BY DEF MInv, StoreType, VerdictsType, Bindings
  <2> HIDE DEF b
  <2> QED
    BY <2>1, FiniteCommits DEF MInv, GitType
<1>2. ASSUME NEW o, NEW i \in DOMAIN Chain(b, o), Chain(b, o)[i] \in DOMAIN b
      PROVE  \E j \in DOMAIN Chain(b, o) : Chain(b, o)[j] = b[Chain(b, o)[i]]
  <2> HIDE DEF b
  <2> QED
    BY <1>1, <1>2, ChainOfFew DEF b
<1>3. \A x \in DOMAIN b : b[x] = verdict[x].as
  BY DEF Bindings
<1>4. ASSUME NEW o, NEW i \in DOMAIN Chain(b, o), Chain(b, o)[i] \in DOMAIN b
      PROVE  \E j \in DOMAIN Chain(b, o) : Chain(b, o)[j] = verdict[Chain(b, o)[i]].as
  <2>1. PICK j \in DOMAIN Chain(b, o) : Chain(b, o)[j] = b[Chain(b, o)[i]]
    BY <1>2, <1>4
  <2> HIDE DEF b
  <2> QED
    BY <1>3, <1>4, <2>1
<1> QED
  BY <1>4 DEF ChainsEnd

LEMMA ChainHas ==
  ASSUME NEW o \in noted, ChainsEnd, NEW x, LandsAs(verdict, o, x)
  PROVE  \E i \in DOMAIN Chain(Bindings(verdict), o) : Chain(Bindings(verdict), o)[i] = x
<1> DEFINE c == Chain(Bindings(verdict), o)
           S == {c[i] : i \in DOMAIN c}
           T == {o} \cup {Bindings(verdict)[z] : z \in DOMAIN Bindings(verdict)}
<1>1. 1 \in DOMAIN c /\ c[1] = o
  <2>1. o \in T /\ \A z \in DOMAIN Bindings(verdict) \cap T : Bindings(verdict)[z] \in T
    OBVIOUS
  <2> HIDE DEF T
  <2> QED
    BY <2>1, ChainStarts
<1>2. o \in S
  BY <1>1
<1>3. \A z \in S \cap DOMAIN verdict : verdict[z].as # 0 => verdict[z].as \in S
  <2>1. ASSUME NEW z \in S, z \in DOMAIN verdict, verdict[z].as # 0 PROVE verdict[z].as \in S
    <3>1. PICK i \in DOMAIN c : z = c[i]
      OBVIOUS
    <3>2. z \in DOMAIN Bindings(verdict)
      BY <2>1 DEF Bindings
    <3> QED
      BY <3>1, <3>2 DEF ChainsEnd
  <2> QED
    BY <2>1
<1>4. x \in S
  <2> HIDE DEF S
  <2> QED
    BY <1>2, <1>3 DEF LandsAs
<1> QED
  BY <1>4


\* After a pass the verdicts lead to what a note is owed by.
Paid ==
  settled /\ qualified =>
    \A d \in owed : d.by # 0 =>
      d.note \in noted /\ IsAncestor(commits, d.by, Tip) /\ LandsAs(verdict, d.note, d.by)

\* A pass that ends pays, whatever its sync has fetched.
LEMMA PassedPays ==
  ASSUME MInv, OwedInv, NEW pairs \in SUBSET Pair, IsFiniteSet(pairs), NEW h \in Commits,
         NEW st \in Passed(h, pairs), verdict' = st.v, UNCHANGED <<git, owed>>,
         noted \subseteq noted'
  PROVE  OwedInv' /\ Paid'
<1>1. ASSUME qualified, NEW o \in noted, NEW f, NEW b, Leads(commits, reflog, head, verdict, f, o, b)
      PROVE  LandsAs(st.v, o, b) /\ Leads(commits, reflog, head, st.v, f, o, b)
  BY <1>1, PassedLands
<1>2. OwedInv'
  BY <1>1, PassOwes
<1>3. UNCHANGED <<commits, cut, tips, head, reflog>>
  BY DEF git
<1>4. ASSUME qualified, NEW d \in owed, d.by # 0
      PROVE  d.note \in noted /\ IsAncestor(commits, d.by, Tip) /\ LandsAs(st.v, d.note, d.by)
  <2>1. d.note \in noted /\ IsAncestor(commits, d.by, Tip)
    BY <1>4 DEF OwedInv
  <2>2. PICK f : Leads(commits, reflog, head, verdict, f, d.note, d.by)
    BY <1>4 DEF OwedInv
  <2> QED
    BY <1>1, <1>4, <2>1, <2>2
<1> QED
  BY <1>2, <1>3, <1>4 DEF Paid, qualified, Tip

LEMMA DiedOwes ==
  ASSUME MInv, OwedInv, NEW pairs \in SUBSET Pair, IsFiniteSet(pairs), NEW h \in Commits,
         NEW st \in {Now} \cup Died(h, pairs), verdict' = st.v, UNCHANGED <<git, owed, noted>>
  PROVE  OwedInv'
<1>1. ASSUME qualified, NEW o \in noted, NEW f, NEW b, Leads(commits, reflog, head, verdict, f, o, b)
      PROVE  Leads(commits, reflog, head, st.v, f, o, b)
  <2>1. CASE st = Now
    BY <1>1, <2>1 DEF Now
  <2>2. CASE st \in Died(h, pairs)
    BY <1>1, <2>2, DiedLeads
  <2> QED
    BY <2>1, <2>2
<1> QED
  BY <1>1, PassOwes

LEMMA BatchPays == ASSUME MInv, OwedInv, Batch PROVE OwedInv' /\ Paid'
<1>1. PICK st \in Passed(Tip, {}) : verdict' = st.v
  BY DEF Batch, Keep
<1>2. noted \subseteq noted' /\ UNCHANGED <<git, owed>>
  BY DEF Batch
<1>3. Tip \in Commits
  BY TipsType DEF MInv
<1> QED
  BY <1>1, <1>2, <1>3, FS_EmptySet, PassedPays

LEMMA SyncMintPays == ASSUME MInv, OwedInv, SyncMint PROVE OwedInv' /\ Paid'
<1>1. PICK st \in Passed(session.head, session.pairs) : verdict' = st.v
  BY DEF SyncMint, Keep
<1>2. session.pairs \in SUBSET Pair /\ IsFiniteSet(session.pairs) /\ session.head \in Commits
  BY DEF MInv, SessionType, SyncMint
<1>3. UNCHANGED <<git, noted, owed>>
  BY DEF SyncMint
<1> QED
  BY <1>1, <1>2, <1>3, PassedPays

LEMMA BatchDiesOwes == ASSUME MInv, OwedInv, BatchDies PROVE OwedInv'
<1>1. PICK st \in Died(Tip, {}) : verdict' = st.v
  BY DEF BatchDies, Keep
<1>2. UNCHANGED <<git, noted, owed>> /\ Tip \in Commits
  BY TipsType DEF MInv, BatchDies
<1> QED
  BY <1>1, <1>2, FS_EmptySet, DiedOwes

LEMMA SyncDiesOwes == ASSUME MInv, OwedInv, SyncDies PROVE OwedInv'
<1>1. PICK st \in {Now} \cup Died(session.head, session.pairs) : verdict' = st.v
  BY DEF SyncDies, Keep
<1>2. session.pairs \in SUBSET Pair /\ IsFiniteSet(session.pairs) /\ session.head \in Commits
  BY DEF MInv, SessionType, SyncDies
<1>3. UNCHANGED <<git, noted, owed>>
  BY DEF SyncDies
<1> QED
  BY <1>1, <1>2, <1>3, DiedOwes

\* Each step keeps what is owed, and the passes that end pay it.
LEMMA NextOwes == ASSUME MInv, OwedInv, Paid, [Next]_vars PROVE OwedInv' /\ Paid'
<1>0. Tip \in Commits /\ IsHistory(commits) /\ RefTips \subseteq Commits
  BY TipsType DEF MInv, GitType
<1>1. ASSUME NEW x \in Edit, CommitChange(x) PROVE OwedInv' /\ ~settled'
  BY <1>1, CommitOwes DEF CommitChange, Works
<1>2. ASSUME MergeMain PROVE OwedInv' /\ ~settled'
  BY <1>2, MergeOwes DEF MergeMain, Works
<1>3. ASSUME NEW tree \in {commits[Tip].tree} \cup {Flip(commits[Tip].tree, x) : x \in Edit},
             Amend(tree)
      PROVE  OwedInv' /\ ~settled'
  <2>1. tree \in SUBSET Change
    <3>1. commits[Tip].tree \in SUBSET Change
      BY <1>0, CommitType DEF Commits
    <3>2. \A x \in Edit : Flip(commits[Tip].tree, x) \in SUBSET Change
      BY <1>0, FlipType
    <3> QED
      BY <3>1, <3>2
  <2> QED
    BY <1>3, <2>1, AmendOwes DEF Amend, Works
<1>4. ASSUME NEW keep \in SUBSET Line, Rebase(keep) PROVE OwedInv' /\ ~settled'
  <2>1. Line \subseteq Segment(History, MergeBase(History, Tip, remotes["main"]), Tip)
    BY DEF Line
  <2>2. keep \in SUBSET Commits
    BY <1>0, <2>1, HistoryIs, SegmentType
  <2> QED
    BY <1>4, <2>2, RebaseOwes DEF Rebase, Works
<1>5. ASSUME NEW event \in ForgeEvents, Fetch(event) \/ SyncFetch(event) PROVE OwedInv' /\ ~settled'
  <2>1. Extends(commits', commits)
    BY <1>5, EventType DEF MInv, Fetch, SyncFetch
  <2>2. UNCHANGED <<cut, head, tips, reflog, noted, verdict>> /\ owed' \subseteq owed /\ ~settled'
    BY <1>5 DEF Fetch, SyncFetch, Works, store, Due
  <2> QED
    BY <2>1, <2>2, GrowthOwes
<1>6. CASE \/ \E c \in RefTips \cup {p[1] : p \in rewrites} : Reset(c)
           \/ \E b \in Branches : Checkout(b)
           \/ Deepen \/ Judge
  <2>1. owed' = {}
    BY <1>6 DEF Reset, Checkout, Deepen, Judge
  <2> QED
    BY <2>1 DEF OwedInv, Paid
<1>7. CASE Batch \/ SyncMint
  BY <1>7, BatchPays, SyncMintPays
<1>8. ASSUME BatchDies \/ SyncDies PROVE OwedInv' /\ ~settled'
  BY <1>8, BatchDiesOwes, SyncDiesOwes DEF BatchDies, SyncDies
<1>9. CASE UNCHANGED vars
  <2>1. UNCHANGED <<commits, cut, tips, head, reflog, noted, verdict, owed, settled>>
    BY <1>9 DEF vars, git, store
  <2> QED
    BY <2>1 DEF OwedInv, Paid, qualified, Tip
<1>10. ~settled' => Paid'
  BY DEF Paid
<1> QED
  BY <1>1, <1>2, <1>3, <1>4, <1>5, <1>6, <1>7, <1>8, <1>9, <1>10 DEF Next

LEMMA OwedBegins == ASSUME Init PROVE OwedInv /\ Paid
BY DEF Init, OwedInv, Paid

\* A note whose chain was not cut off has landed when the verdicts lead from it to
\* a commit of the branch.
LEMMA PaidNotesLand == ASSUME MInv, Paid, ChainsEnd PROVE FirstRewriteKeepsNotes
<1>1. ASSUME settled, qualified, NEW d \in owed, d.by # 0 PROVE Landed(d.note)
  <2>1. d.note \in noted /\ IsAncestor(commits, d.by, Tip) /\ LandsAs(verdict, d.note, d.by)
    BY <1>1 DEF Paid
  <2>2. \E i \in DOMAIN Chain(Bindings(verdict), d.note) : Chain(Bindings(verdict), d.note)[i] = d.by
    BY <2>1, ChainHas
  <2>3. d.by \in Ancestors(History, tips[head])
    BY <1>1, <2>1, HistoryIs DEF MInv, GitType, IsAncestor, Tip
  <2> QED
    BY <2>2, <2>3, LandedIff DEF Landed
<1> QED
  BY <1>1 DEF FirstRewriteKeepsNotes

\* A note that was landed on a branch is landed on it after the branch was amended
\* or rebased, however often, and read: mintM1 binds along the reflog of the
\* branch, the oldest succession first, also when passes died in between or a sync
\* fetched.  The notes are those FirstRewriteKeepsNotes names, and their chains
\* must not be longer than dm follows them.
THEOREM RewritesKeepNotes == Spec => [](ChainsEnd => FirstRewriteKeepsNotes)
<1>1. Init => OwedInv /\ Paid
  BY OwedBegins
<1>2. MInv /\ OwedInv /\ Paid /\ [Next]_vars => OwedInv' /\ Paid'
  BY NextOwes
<1>3. MInv /\ Paid => (ChainsEnd => FirstRewriteKeepsNotes)
  BY PaidNotesLand
<1> QED
  BY <1>1, <1>2, <1>3, MintInvariant, PTL DEF Spec

\* So is a note of a clone that has not bound more commits than dm follows.
THEOREM FewBindingsKeepNotes ==
  Spec => [](Cardinality(DOMAIN Bindings(verdict)) <= MaxChainDepth => FirstRewriteKeepsNotes)
<1>1. MInv /\ Cardinality(DOMAIN Bindings(verdict)) <= MaxChainDepth => ChainsEnd
  BY FewBindings
<1> QED
  BY <1>1, MintInvariant, RewritesKeepNotes, PTL

=============================================================================
