----------------------------- MODULE Induction -----------------------------
(***************************************************************************)
(* Induction without operators for parameters: what the proofs about       *)
(* recursive functions and about maxima of finite sets rest on.            *)
(*                                                                         *)
(* A property of numbers is the set of those that have it, and a recursion *)
(* a function from a place and a value to the next value.  All of it comes *)
(* from strict inclusion of finite sets being well-founded.                *)
(*                                                                         *)
(* Of a fold over a sequence Op is the operation: a module that folds      *)
(* takes an instance of this one for each operation it folds.  Nothing     *)
(* before FoldOver depends on it.                                          *)
(***************************************************************************)
EXTENDS Integers, FiniteSetTheorems, TLAPS

CONSTANT Op(_, _)

\* Numbers of which there are some have a least one.
LEMMA LeastNumber ==
  ASSUME NEW S \in SUBSET Nat, S # {}
  PROVE  \E n \in S : \A m \in S : n <= m
<1> DEFINE T == {0 .. n : n \in S}
           R == StrictSubsetOrdering(Nat)
<1>1. T \subseteq FiniteSubsetsOf(Nat)
  <2>1. \A n \in S : IsFiniteSet(0 .. n)
    BY FS_Interval
  <2> QED
    BY <2>1 DEF FiniteSubsetsOf
<1>2. T # {}
  OBVIOUS
<1>3. IsWellFoundedOn(R, FiniteSubsetsOf(Nat))
  BY FS_StrictSubsetOrderingWellFounded
<1> HIDE DEF T, R
<1>4. \E x \in T : \A y \in T : ~ (<<y, x>> \in R)
  BY <1>1, <1>2, <1>3, WFMin
<1>5. PICK n \in S : \A m \in S : <<0 .. m, 0 .. n>> \notin R
  BY <1>4 DEF T
<1>6. ASSUME NEW m \in S, m < n PROVE FALSE
  <2>1. 0 .. m \subseteq 0 .. n /\ n \in 0 .. n /\ n \notin 0 .. m
    BY <1>6
  <2>2. 0 .. m # 0 .. n
    BY <2>1
  <2>3. <<0 .. m, 0 .. n>> \in R
    BY <2>1, <2>2 DEF R, StrictSubsetOrdering
  <2> QED
    BY <2>3, <1>5
<1> QED
  BY <1>5, <1>6

\* Numbers with a bound have a greatest one.
LEMMA GreatestNumber ==
  ASSUME NEW S \in SUBSET Nat, S # {}, NEW b \in Nat, \A n \in S : n <= b
  PROVE  \E n \in S : \A m \in S : m <= n
<1> DEFINE D == {b - n : n \in S}
<1>1. D \in SUBSET Nat /\ D # {}
  <2>1. \A n \in S : b - n \in Nat
    OBVIOUS
  <2> QED
    BY <2>1
<1>2. PICK d \in D : \A e \in D : d <= e
  BY <1>1, LeastNumber
<1>3. PICK n \in S : d = b - n
  OBVIOUS
<1>4. \A m \in S : b - n <= b - m
  BY <1>2, <1>3
<1> QED
  BY <1>4

\* What holds of 0 and goes on holding up to N holds up to N.
LEMMA UpTo ==
  ASSUME NEW N \in Nat, NEW S,
         0 \in S, \A d \in 0 .. N - 1 : d \in S => d + 1 \in S
  PROVE  0 .. N \subseteq S
<1> DEFINE Bad == {d \in 0 .. N : d \notin S}
<1> SUFFICES ASSUME Bad # {} PROVE FALSE
  OBVIOUS
<1>1. PICK n \in Bad : \A m \in Bad : n <= m
  <2>1. Bad \in SUBSET Nat
    OBVIOUS
  <2> QED
    BY <2>1, LeastNumber
<1>2. n # 0 /\ n - 1 \in 0 .. N - 1
  BY <1>1
<1>3. n - 1 \in S
  BY <1>1, <1>2
<1> QED
  BY <1>1, <1>2, <1>3

\* w goes N steps through T from a.
Iterates(w, N, T, a, step) ==
  /\ w \in [0 .. N -> T]
  /\ w[0] = a /\ \A d \in 0 .. N - 1 : w[d + 1] = step[d][w[d]]

\* A recursion of N steps through T has a solution ...
LEMMA IterationExists ==
  ASSUME NEW N \in Nat, NEW T, NEW a \in T, NEW step \in [Nat -> [T -> T]]
  PROVE  \E w : Iterates(w, N, T, a, step)
<1> DEFINE Solves(w, n) ==
             w[0] = a /\ \A d \in 0 .. n - 1 : w[d + 1] = step[d][w[d]]
           S == {n \in 0 .. N : \E w \in [0 .. n -> T] : Solves(w, n)}
<1>1. 0 \in S
  <2> DEFINE w == [d \in 0 .. 0 |-> a]
  <2>1. w \in [0 .. 0 -> T] /\ Solves(w, 0)
    OBVIOUS
  <2>2. 0 \in 0 .. N
    OBVIOUS
  <2> HIDE DEF w, Solves
  <2> QED
    BY <2>1, <2>2
<1>2. ASSUME NEW n \in 0 .. N - 1, n \in S PROVE n + 1 \in S
  <2>1. PICK w \in [0 .. n -> T] : Solves(w, n)
    BY <1>2
  <2> DEFINE v == [d \in 0 .. n + 1 |-> IF d = n + 1 THEN step[n][w[n]] ELSE w[d]]
  <2>2. step[n][w[n]] \in T
    <3>1. n \in Nat /\ w[n] \in T
      BY <2>1
    <3> QED
      BY <3>1
  <2>3. v \in [0 .. n + 1 -> T]
    <3>1. \A d \in 0 .. n + 1 : d # n + 1 => d \in 0 .. n
      OBVIOUS
    <3> QED
      BY <2>2, <3>1
  <2>4. Solves(v, n + 1)
    BY <2>1
  <2>5. n + 1 \in 0 .. N
    OBVIOUS
  <2> HIDE DEF v, Solves
  <2> QED
    BY <2>3, <2>4, <2>5
<1> HIDE DEF S
<1>3. 0 .. N \subseteq S
  BY <1>1, <1>2, UpTo
<1>4. N \in S
  BY <1>3
<1>5. PICK w \in [0 .. N -> T] : Solves(w, N)
  BY <1>4 DEF S
<1>6. Iterates(w, N, T, a, step)
  BY <1>5 DEF Iterates
<1> QED
  BY <1>6

\* ... and one only.
LEMMA IterationUnique ==
  ASSUME NEW N \in Nat, NEW v, NEW w,
         DOMAIN v = 0 .. N, v = [d \in DOMAIN v |-> v[d]],
         DOMAIN w = 0 .. N, w = [d \in DOMAIN w |-> w[d]],
         v[0] = w[0],
         \A d \in 0 .. N - 1 : v[d] = w[d] => v[d + 1] = w[d + 1]
  PROVE  v = w
<1> DEFINE S == {d \in 0 .. N : v[d] = w[d]}
<1>1. 0 \in S /\ \A d \in 0 .. N - 1 : d \in S => d + 1 \in S
  OBVIOUS
<1> HIDE DEF S
<1>2. 0 .. N \subseteq S
  BY <1>1, UpTo
<1> QED
  BY <1>2 DEF S

\* A finite set can be counted.
LEMMA Counting ==
  ASSUME NEW S, IsFiniteSet(S)
  PROVE  /\ Cardinality(S) \in Nat
         /\ \E f \in [1 .. Cardinality(S) -> S] :
              /\ \A i, j \in 1 .. Cardinality(S) : f[i] = f[j] => i = j
              /\ \A x \in S : \E i \in 1 .. Cardinality(S) : f[i] = x
BY FS_CardinalityType DEF ExistsBijection, Bijection, Injection, IsInjective, Surjection

\* What a function makes of a finite set is finite.
LEMMA ImageIsFinite ==
  ASSUME NEW U, NEW M, NEW h \in [U -> M], IsFiniteSet(U), \A x \in M : \E p \in U : h[p] = x
  PROVE  IsFiniteSet(M)
<1>1. h \in Surjection(U, M)
  BY DEF Surjection
<1> QED
  BY <1>1, FS_Surjection

-----------------------------------------------------------------------------
(* Order.                                                                  *)

\* How many come before e when they are ordered by their keys.
Rank(S, key) == [e \in S |-> Cardinality({d \in S : key[d] < key[e]})]

\* Ranks are the places of an order: one for each, and ascending with the keys.
LEMMA Ranks ==
  ASSUME NEW S, IsFiniteSet(S), NEW key \in [S -> Nat],
         \A a, b \in S : key[a] = key[b] => a = b
  PROVE  /\ Rank(S, key) \in [S -> 0 .. Cardinality(S) - 1]
         /\ \A a, b \in S : key[a] < key[b] => Rank(S, key)[a] < Rank(S, key)[b]
         /\ \A a, b \in S : Rank(S, key)[a] = Rank(S, key)[b] => a = b
         /\ \A i \in 0 .. Cardinality(S) - 1 : \E e \in S : Rank(S, key)[e] = i
<1> DEFINE n == Cardinality(S)
           before(e) == {d \in S : key[d] < key[e]}
           r == Rank(S, key)
<1>0. n \in Nat
  BY FS_CardinalityType
<1>1. ASSUME NEW e \in S PROVE r[e] = Cardinality(before(e)) /\ r[e] \in 0 .. n - 1
  <2>1. before(e) \in SUBSET S /\ e \in S /\ e \notin before(e)
    OBVIOUS
  <2> HIDE DEF before
  <2>2. Cardinality(before(e)) \in Nat /\ Cardinality(before(e)) <= n
    BY <2>1, FS_Subset, FS_CardinalityType
  <2>3. Cardinality(before(e)) # n
    BY <2>1, FS_Subset
  <2> QED
    BY <2>2, <2>3, <1>0 DEF Rank, before
<1>2. ASSUME NEW a \in S, NEW b \in S, key[a] < key[b] PROVE r[a] < r[b]
  <2>1. before(a) \in SUBSET before(b) /\ a \in before(b) /\ a \notin before(a)
    BY <1>2
  <2>2. before(b) \in SUBSET S
    OBVIOUS
  <2>3. IsFiniteSet(before(b))
    BY <2>2, FS_Subset
  <2> HIDE DEF before, r
  <2>4. Cardinality(before(a)) <= Cardinality(before(b)) /\ Cardinality(before(a)) # Cardinality(before(b))
    BY <2>1, <2>3, FS_Subset
  <2> QED
    BY <2>4, <1>1
<1> HIDE DEF r
<1>3. ASSUME NEW a \in S, NEW b \in S, r[a] = r[b] PROVE a = b
  <2>1. r[a] \in Nat /\ r[b] \in Nat /\ key[a] \in Nat /\ key[b] \in Nat
    <3>1. r[a] \in 0 .. n - 1 /\ r[b] \in 0 .. n - 1
      BY <1>1
    <3> QED
      BY <3>1, <1>0
  <2>2. ~ (key[a] < key[b]) /\ ~ (key[b] < key[a])
    BY <1>2, <1>3, <2>1
  <2> QED
    BY <2>1, <2>2
<1>4. r \in [S -> 0 .. n - 1]
  BY <1>1 DEF Rank, r
<1>5. \A i \in 0 .. n - 1 : \E e \in S : r[e] = i
  <2>1. r \in Injection(S, 0 .. n - 1)
    BY <1>3, <1>4 DEF Injection, IsInjective
  <2>2. IsFiniteSet(0 .. n - 1) /\ Cardinality(0 .. n - 1) = n
    BY <1>0, FS_Interval
  <2> HIDE DEF n
  <2>3. r \in Surjection(S, 0 .. n - 1)
    BY <2>1, <2>2, FS_Injection DEF n
  <2> QED
    BY <2>3 DEF Surjection
<1> QED
  BY <1>2, <1>3, <1>4, <1>5 DEF r

\* Every place has its element.
LEMMA EveryRank ==
  ASSUME NEW S, IsFiniteSet(S), NEW key \in [S -> Nat],
         \A a, b \in S : key[a] = key[b] => a = b
  PROVE  \A i \in 0 .. Cardinality(S) - 1 : \E e \in S : Rank(S, key)[e] = i
BY Ranks

-----------------------------------------------------------------------------
(* Folds.                                                                  *)

\* Of a sequence a fold takes the last place off, and goes on with the others.
Largest(s) == CHOOSE x \in s : \A y \in s : x >= y
FoldOver(base, seq) ==
  LET iter[s \in SUBSET DOMAIN seq] ==
        IF s = {} THEN base ELSE Op(iter[s \ {Largest(s)}], seq[Largest(s)])
  IN  iter[DOMAIN seq]

\* w goes through the values of the fold, from base.
Steps(w, N, base, seq) ==
  /\ DOMAIN w = 0 .. N
  /\ w[0] = base
  /\ \A d \in 0 .. N - 1 : w[d + 1] = Op(w[d], seq[d + 1])
  /\ w[N] = FoldOver(base, seq)

\* The last of some places.
LEMMA LastPlace ==
  ASSUME NEW n \in Nat, NEW s \in SUBSET (1 .. n + 1), n + 1 \in s
  PROVE  Largest(s) = n + 1
<1>1. \A y \in s : n + 1 >= y
  OBVIOUS
<1>2. \A x \in s : (\A y \in s : x >= y) => x = n + 1
  OBVIOUS
<1> QED
  BY <1>1, <1>2 DEF Largest

\* A fold comes to its end in as many steps as there are items.
LEMMA FoldSteps ==
  ASSUME NEW N \in Nat, NEW base, NEW seq, DOMAIN seq = 1 .. N
  PROVE  \E w : Steps(w, N, base, seq)
<1> DEFINE Value(f, s) == IF s = {} THEN base ELSE Op(f[s \ {Largest(s)}], seq[Largest(s)])
           Folds(f, n) == f = [s \in SUBSET (1 .. n) |-> Value(f, s)]
           S == {n \in 0 .. N : \E f : Folds(f, n)}
<1>1. 0 \in S
  <2> DEFINE f == [s \in SUBSET (1 .. 0) |-> base]
  <2>1. SUBSET (1 .. 0) = {{}}
    OBVIOUS
  <2>2. f = [s \in SUBSET (1 .. 0) |-> Value(f, s)]
    BY <2>1
  <2> QED
    BY <2>2
<1>2. ASSUME NEW n \in 0 .. N - 1, n \in S PROVE n + 1 \in S
  <2>1. PICK f : Folds(f, n)
    BY <1>2
  <2> DEFINE g == [s \in SUBSET (1 .. n + 1) |->
                     IF n + 1 \in s THEN Op(f[s \ {n + 1}], seq[n + 1]) ELSE f[s]]
  <2>2. ASSUME NEW s \in SUBSET (1 .. n + 1) PROVE g[s] = Value(g, s)
    <3>1. CASE n + 1 \in s
      <4>1. Largest(s) = n + 1 /\ s # {}
        BY <3>1, LastPlace
      <4>2. s \ {n + 1} \in SUBSET (1 .. n + 1) /\ s \ {n + 1} \in SUBSET (1 .. n) /\ n + 1 \notin s \ {n + 1}
        OBVIOUS
      <4>3. g[s \ {n + 1}] = f[s \ {n + 1}]
        BY <4>2
      <4> QED
        BY <3>1, <4>1, <4>3
    <3>2. CASE n + 1 \notin s
      <4>1. s \in SUBSET (1 .. n)
        BY <3>2
      <4>2. g[s] = f[s] /\ f[s] = Value(f, s)
        BY <2>1, <3>2, <4>1
      <4>3. ASSUME s # {} PROVE g[s \ {Largest(s)}] = f[s \ {Largest(s)}]
        <5> DEFINE t == s \ {Largest(s)}
        <5>1. t \subseteq s
          OBVIOUS
        <5>2. t \in SUBSET (1 .. n + 1) /\ n + 1 \notin t
          BY <3>2, <5>1
        <5> HIDE DEF t
        <5>3. g[t] = f[t]
          BY <5>2
        <5> QED
          BY <5>3 DEF t
      <4> HIDE DEF g
      <4> QED
        BY <4>2, <4>3
    <3> QED
      BY <3>1, <3>2
  <2>3. g = [s \in SUBSET (1 .. n + 1) |-> g[s]]
    OBVIOUS
  <2> HIDE DEF g, Value
  <2>4. Folds(g, n + 1)
    BY <2>2, <2>3
  <2> QED
    BY <2>4
<1> HIDE DEF S
<1>3. N \in S
  <2>1. 0 .. N \subseteq S
    BY <1>1, <1>2, UpTo
  <2> QED
    BY <2>1
<1>4. PICK g : Folds(g, N)
  BY <1>3 DEF S
<1> DEFINE iter == CHOOSE h : Folds(h, N)
<1>5. Folds(iter, N)
  BY <1>4
<1>6. FoldOver(base, seq) = iter[1 .. N]
  BY DEF FoldOver
<1> DEFINE w == [d \in 0 .. N |-> iter[1 .. d]]
<1> HIDE DEF iter
<1>7. ASSUME NEW d \in 0 .. N - 1 PROVE w[d + 1] = Op(w[d], seq[d + 1])
  <2> DEFINE t == 1 .. d + 1
  <2>0. d + 1 \in t
    OBVIOUS
  <2>1. t \in SUBSET (1 .. N) /\ t \ {d + 1} = 1 .. d
    OBVIOUS
  <2>2. Largest(t) = d + 1
    BY <2>0, LastPlace
  <2>3. w[d + 1] = iter[t] /\ w[d] = iter[1 .. d]
    OBVIOUS
  <2> HIDE DEF t, w
  <2>4. iter[t] = Value(iter, t)
    BY <1>5, <2>1
  <2> QED
    BY <2>0, <2>1, <2>2, <2>3, <2>4
<1>8. w[0] = base
  <2>1. 1 .. 0 = {} /\ {} \in SUBSET (1 .. N)
    OBVIOUS
  <2>2. iter[{}] = base
    BY <1>5, <2>1
  <2> QED
    BY <2>1, <2>2
<1>9. DOMAIN w = 0 .. N /\ w[N] = iter[1 .. N]
  OBVIOUS
<1> HIDE DEF w
<1> QED
  BY <1>6, <1>7, <1>8, <1>9 DEF Steps

=============================================================================
