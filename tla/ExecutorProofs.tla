--------------------------- MODULE ExecutorProofs ---------------------------
(***************************************************************************)
(* Proofs about Executor and Commands: what a batch remembers is what it   *)
(* would find by asking again, however its commands are mixed, for any     *)
(* checkout, any records and any number of commands.                       *)
(***************************************************************************)
EXTENDS Commands, SequenceTheorems, Induction

-----------------------------------------------------------------------------
(* Sequences.                                                              *)

LEMMA IsSeq ==
  ASSUME NEW S, NEW n \in Nat, NEW f \in [1 .. n -> S]
  PROVE  f \in Seq(S) /\ Len(f) = n /\ DOMAIN f = 1 .. n
OBVIOUS

LEMMA AppendType ==
  ASSUME NEW S, NEW s \in Seq(S), NEW x \in S
  PROVE  Append(s, x) \in Seq(S)
OBVIOUS

\* A finite set with a key for each of its elements can be put in order.
LEMMA SortedIs ==
  ASSUME NEW S, IsFiniteSet(S), NEW key \in [S -> Nat],
         \A a, b \in S : key[a] = key[b] => a = b
  PROVE  /\ Cardinality(S) \in Nat /\ Sorted(S, key) \in [1 .. Cardinality(S) -> S]
         /\ \A e \in S : \E i \in 1 .. Cardinality(S) : Sorted(S, key)[i] = e
         /\ \A i, j \in 1 .. Cardinality(S) : Sorted(S, key)[i] = Sorted(S, key)[j] => i = j
<1> DEFINE n == Cardinality(S)
           r == Rank(S, key)
<1>1. n \in Nat
  BY FS_CardinalityType
<1>2. /\ r \in [S -> 0 .. n - 1]
      /\ \A a, b \in S : r[a] = r[b] => a = b
      /\ \A i \in 0 .. n - 1 : \E e \in S : r[e] = i
  BY Ranks
<1>3. \A e \in S : r[e] = Cardinality({d \in S : key[d] < key[e]})
  BY DEF Rank
<1> HIDE DEF r
<1>4. ASSUME NEW i \in 1 .. n PROVE Sorted(S, key)[i] \in S /\ r[Sorted(S, key)[i]] = i - 1
  <2> DEFINE At(e) == Cardinality({d \in S : key[d] < key[e]}) = i - 1
  <2>1. i - 1 \in 0 .. n - 1
    BY <1>1
  <2>2. PICK e \in S : r[e] = i - 1
    BY <1>2, <2>1
  <2>3. At(e)
    BY <1>3, <2>2
  <2>4. Sorted(S, key)[i] = CHOOSE d \in S : At(d)
    BY DEF Sorted
  <2> HIDE DEF At
  <2>5. Sorted(S, key)[i] \in S /\ At(Sorted(S, key)[i])
    BY <2>3, <2>4
  <2> QED
    BY <1>3, <2>5 DEF At
<1>5. Sorted(S, key) \in [1 .. n -> S]
  <2> DEFINE f == Sorted(S, key)
             at(i) == CHOOSE e \in S : Cardinality({d \in S : key[d] < key[e]}) = i - 1
  <2>1. f = [i \in 1 .. n |-> at(i)]
    BY DEF Sorted
  <2>2. \A i \in 1 .. n : f[i] \in S
    BY <1>4
  <2> HIDE DEF f, at
  <2>3. f \in [1 .. n -> S]
    BY <2>1, <2>2
  <2> QED
    BY <2>3 DEF f
<1>6. ASSUME NEW e \in S PROVE \E i \in 1 .. n : Sorted(S, key)[i] = e
  <2> HIDE DEF n
  <2>1. PICK k \in 0 .. n - 1 : k = r[e]
    BY <1>2
  <2>2. PICK i \in 1 .. n : i - 1 = r[e]
    <3>1. k + 1 \in 1 .. n /\ k + 1 - 1 = k
      BY <1>1, <2>1
    <3> QED
      BY <2>1, <3>1
  <2>3. Sorted(S, key)[i] \in S /\ r[Sorted(S, key)[i]] = r[e]
    BY <1>4, <2>2
  <2> QED
    BY <1>2, <2>3
<1>7. \A i, j \in 1 .. n : Sorted(S, key)[i] = Sorted(S, key)[j] => i = j
  <2>1. \A i, j \in 1 .. n : i - 1 = j - 1 => i = j
    BY <1>1
  <2> QED
    BY <1>4, <2>1
<1> QED
  BY <1>1, <1>5, <1>6, <1>7

LEMMA SetToSeqIs ==
  ASSUME NEW S, IsFiniteSet(S)
  PROVE  Cardinality(S) \in Nat /\ SetToSeq(S) \in [1 .. Cardinality(S) -> S]
<1>1. PICK f \in [1 .. Cardinality(S) -> S] : IsInjective(f)
  BY Counting DEF IsInjective
<1> QED
  BY <1>1, Counting DEF SetToSeq

-----------------------------------------------------------------------------
(* Chains.                                                                 *)

\* A chain begins with its origin, and follows the bindings.
LEMMA ChainIs ==
  ASSUME NEW b, NEW o
  PROVE  LET c == Chain(b, o)
         IN  /\ Len(c) \in Nat /\ DOMAIN c = 1 .. Len(c) /\ Len(c) >= 1 /\ c[1] = o
             /\ \A i \in 1 .. Len(c) - 1 : c[i] \in DOMAIN b /\ c[i + 1] = b[c[i]]
<1> DEFINE T == {o} \cup {b[x] : x \in DOMAIN b}
           Q == Seq(T)
           N == MaxChainDepth
           go(s, d) ==
             /\ Len(s) = d
             /\ s[Len(s)] \in DOMAIN b
             /\ \A i \in DOMAIN s : s[i] # b[s[Len(s)]]
           to(s, d) == IF go(s, d) THEN Append(s, b[s[Len(s)]]) ELSE s
           step == [d \in Nat |-> [s \in Q |-> to(s, d + 1)]]
           Walks(f) == f = [d \in 0 .. N |-> IF d = 0 THEN <<o>> ELSE to(f[d - 1], d)]
<1>0. N \in Nat
  BY ChainAssumption
<1>a. o \in T /\ \A x \in DOMAIN b : b[x] \in T
  OBVIOUS
<1> HIDE DEF T
<1>1. ASSUME NEW s \in Q, NEW d PROVE to(s, d) \in Q
  <2>1. CASE go(s, d)
    <3>1. b[s[Len(s)]] \in T
      BY <1>a, <2>1
    <3>2. Append(s, b[s[Len(s)]]) \in Q
      BY <3>1, AppendType
    <3> HIDE DEF Q, go
    <3> QED
      BY <2>1, <3>2
  <2>2. CASE ~go(s, d)
    <3> HIDE DEF Q, go
    <3> QED
      BY <2>2
  <2> QED
    BY <2>1, <2>2
<1>2. <<o>> \in Q
  BY <1>a
<1> HIDE DEF Q, to, N
<1>3. step \in [Nat -> [Q -> Q]]
  BY <1>1
<1> HIDE DEF step
<1>4. PICK w : Iterates(w, N, Q, <<o>>, step)
  BY <1>0, <1>2, <1>3, IterationExists
<1>5. Walks(w)
  <2>1. w \in [0 .. N -> Q] /\ w[0] = <<o>> /\ \A d \in 0 .. N - 1 : w[d + 1] = step[d][w[d]]
    BY <1>4 DEF Iterates
  <2>2. ASSUME NEW d \in 0 .. N, d # 0 PROVE w[d] = to(w[d - 1], d)
    <3>1. d - 1 \in 0 .. N - 1 /\ d - 1 + 1 = d /\ d - 1 \in Nat /\ d - 1 \in 0 .. N
      BY <1>0, <2>2
    <3>2. PICK e \in 0 .. N - 1 : e = d - 1
      BY <3>1
    <3>3. w[e + 1] = step[e][w[e]] /\ w[e] \in Q /\ e \in Nat /\ e + 1 = d
      BY <2>1, <3>1, <3>2
    <3>4. step[e][w[e]] = to(w[e], e + 1)
      BY <3>3 DEF step
    <3> QED
      BY <3>2, <3>3, <3>4
  <2> QED
    BY <2>1, <2>2
<1> DEFINE walk == CHOOSE f : Walks(f)
<1>6. Walks(walk)
  BY <1>5
<1>7. Chain(b, o) = walk[N]
  BY DEF Chain, N, to
<1> HIDE DEF walk
<1>8. /\ walk[0] = <<o>>
      /\ \A d \in 0 .. N - 1 : walk[d + 1] = to(walk[d], d + 1)
  <2>1. \A d \in 0 .. N : walk[d] = IF d = 0 THEN <<o>> ELSE to(walk[d - 1], d)
    BY <1>6
  <2>2. ASSUME NEW d \in 0 .. N - 1 PROVE walk[d + 1] = to(walk[d], d + 1)
    <3>1. PICK e \in 0 .. N : e = d + 1 /\ e # 0 /\ e - 1 = d
      BY <1>0
    <3>2. walk[e] = to(walk[e - 1], e)
      BY <2>1, <3>1
    <3> QED
      BY <3>1, <3>2
  <2> QED
    BY <1>0, <2>1, <2>2
<1> HIDE DEF Walks
<1> DEFINE Good(s) ==
             /\ s \in Q /\ Len(s) >= 1 /\ s[1] = o
             /\ \A i \in 1 .. Len(s) - 1 : s[i] \in DOMAIN b /\ s[i + 1] = b[s[i]]
           S == {d \in 0 .. N : Good(walk[d])}
<1>9. 0 \in S
  <2>1. Good(<<o>>)
    BY <1>2
  <2> HIDE DEF Good
  <2> QED
    BY <1>0, <1>8, <2>1
<1>10. ASSUME NEW d \in 0 .. N - 1, d \in S PROVE d + 1 \in S
  <2> DEFINE s == walk[d]
             t == Append(s, b[s[Len(s)]])
  <2>1. Good(s)
    BY <1>10
  <2>2. Len(s) \in Nat /\ Len(s) >= 1 /\ DOMAIN s = 1 .. Len(s)
    BY <2>1 DEF Q
  <2>3. walk[d + 1] = to(s, d + 1) /\ to(s, d + 1) \in Q
    BY <1>1, <1>8, <2>1
  <2>4. ASSUME go(s, d + 1) PROVE Good(t)
    <3>1. t = to(s, d + 1)
      BY <2>4 DEF to
    <3>2. t \in Q
      BY <2>3, <3>1
    <3>3. s[Len(s)] \in DOMAIN b
      BY <2>4
    <3> HIDE DEF s, go
    <3>4. Len(t) = Len(s) + 1 /\ t[Len(s) + 1] = b[s[Len(s)]]
          /\ \A i \in 1 .. Len(s) : t[i] = s[i]
      BY <2>1, <2>2 DEF Q
    <3> HIDE DEF t
    <3>5. ASSUME NEW i \in 1 .. Len(t) - 1 PROVE t[i] \in DOMAIN b /\ t[i + 1] = b[t[i]]
      <4>1. i \in 1 .. Len(s)
        BY <2>2, <3>4
      <4>2. CASE i = Len(s)
        BY <2>2, <3>3, <3>4, <4>1, <4>2
      <4>3. CASE i # Len(s)
        <5>1. i \in 1 .. Len(s) - 1 /\ i + 1 \in 1 .. Len(s)
          <6>1. PICK k \in Nat : k = Len(s)
            BY <2>2
          <6>2. i \in 1 .. k /\ i # k
            BY <4>1, <4>3, <6>1
          <6>3. i \in 1 .. k - 1 /\ i + 1 \in 1 .. k
            BY <6>2
          <6> QED
            BY <6>1, <6>3
        <5> QED
          BY <2>1, <3>4, <4>1, <5>1
      <4> QED
        BY <4>2, <4>3
    <3> QED
      BY <2>1, <2>2, <3>2, <3>4, <3>5
  <2>5. Good(walk[d + 1])
    <3>1. CASE go(s, d + 1)
      <4>1. walk[d + 1] = t
        BY <2>3, <3>1 DEF to
      <4> HIDE DEF Good, go
      <4> QED
        BY <2>4, <3>1, <4>1
    <3>2. CASE ~go(s, d + 1)
      <4> HIDE DEF Good
      <4>1. walk[d + 1] = s
        BY <2>3, <3>2 DEF to
      <4> QED
        BY <2>1, <4>1
    <3> QED
      BY <3>1, <3>2
  <2>6. d + 1 \in 0 .. N
    BY <1>0
  <2> QED
    BY <2>5, <2>6
<1> HIDE DEF S, Good
<1>11. 0 .. N \subseteq S
  BY <1>0, <1>9, <1>10, UpTo
<1>12. Good(walk[N])
  BY <1>0, <1>11 DEF S
<1> QED
  BY <1>7, <1>12 DEF Good, Q

\* No chain of these bindings is cut short: it ends at what is not bound, or
\* came back to where it was.
Ends(b) ==
  \A o \in DOMAIN b :
    LET c == Chain(b, o)
    IN  c[Len(c)] \in DOMAIN b => \E i \in DOMAIN c : c[i] = b[c[Len(c)]]

\* The n-th origin of a batch, after the commits of A were asked for.
Asked(b, batch, n, A) ==
  LET c == Chain(b, batch[n])
  IN  A \cup {c[i] : i \in {k \in DOMAIN c : \A j \in 2 .. k : c[j] \notin A}}

\* up goes through what was asked for, origin by origin.
Asks(up, b, batch, N) ==
  /\ up[0] = {} /\ up[N] = Closure(b, batch)
  /\ \A n \in 0 .. N - 1 : up[n + 1] = Asked(b, batch, n + 1, up[n])

LEMMA ClosureSteps ==
  ASSUME NEW b, NEW N \in Nat, NEW batch, DOMAIN batch = 1 .. N, Len(batch) = N
  PROVE  \E up : Asks(up, b, batch, N)
<1> DEFINE E == UNION {{Chain(b, batch[n + 1])[i] : i \in DOMAIN Chain(b, batch[n + 1])} : n \in Nat}
           T == SUBSET E
           step == [n \in Nat |-> [A \in T |-> Asked(b, batch, n + 1, A)]]
           Ups(f) == f = [n \in 0 .. N |-> IF n = 0 THEN {} ELSE Asked(b, batch, n, f[n - 1])]
<1>1. step \in [Nat -> [T -> T]]
  <2>1. ASSUME NEW n \in Nat, NEW A \in T PROVE Asked(b, batch, n + 1, A) \in T
    <3> DEFINE c == Chain(b, batch[n + 1])
    <3>1. \A i \in DOMAIN c : c[i] \in E
      OBVIOUS
    <3> HIDE DEF E, c
    <3>2. Asked(b, batch, n + 1, A)
            = A \cup {c[i] : i \in {k \in DOMAIN c : \A j \in 2 .. k : c[j] \notin A}}
      BY DEF Asked, c
    <3> QED
      BY <3>1, <3>2
  <2> HIDE DEF T
  <2> QED
    BY <2>1
<1>2. {} \in T
  OBVIOUS
<1> HIDE DEF T, step
<1>3. PICK w : Iterates(w, N, T, {}, step)
  BY <1>1, <1>2, IterationExists
<1>4. Ups(w)
  <2>1. w \in [0 .. N -> T] /\ w[0] = {} /\ \A d \in 0 .. N - 1 : w[d + 1] = step[d][w[d]]
    BY <1>3 DEF Iterates
  <2>2. ASSUME NEW d \in 0 .. N, d # 0 PROVE w[d] = Asked(b, batch, d, w[d - 1])
    <3>1. PICK e \in 0 .. N - 1 : e = d - 1
      BY <2>2
    <3>2. w[e + 1] = step[e][w[e]] /\ w[e] \in T /\ e \in Nat /\ e + 1 = d
      BY <2>1, <3>1
    <3>3. step[e][w[e]] = Asked(b, batch, e + 1, w[e])
      BY <3>2 DEF step
    <3> QED
      BY <3>1, <3>2, <3>3
  <2> QED
    BY <2>1, <2>2
<1> DEFINE up == CHOOSE f : Ups(f)
<1>5. Ups(up)
  BY <1>4
<1>6. Closure(b, batch) = up[N]
  <2> DEFINE Further(n, f) == LET c == Chain(b, batch[n])
                              IN  f[n - 1] \cup {c[i] : i \in {k \in DOMAIN c : \A j \in 2 .. k : c[j] \notin f[n - 1]}}
             Same(f) == f = [n \in 0 .. Len(batch) |-> IF n = 0 THEN {} ELSE Further(n, f)]
  <2>1. Closure(b, batch) = (CHOOSE f : Same(f))[Len(batch)]
    BY DEF Closure
  <2>2. \A f : Same(f) <=> Ups(f)
    BY DEF Asked
  <2>3. (CHOOSE f : Same(f)) = up
    <3> HIDE DEF Same, Ups
    <3> QED
      BY <2>2
  <2> QED
    BY <2>1, <2>3
<1> HIDE DEF up
<1>7. ASSUME NEW n \in 0 .. N - 1 PROVE up[n + 1] = Asked(b, batch, n + 1, up[n])
  <2>1. \A d \in 0 .. N : up[d] = IF d = 0 THEN {} ELSE Asked(b, batch, d, up[d - 1])
    BY <1>5
  <2>2. PICK e \in 0 .. N : e = n + 1 /\ e # 0 /\ e - 1 = n
    OBVIOUS
  <2>3. up[e] = Asked(b, batch, e, up[e - 1])
    BY <2>1, <2>2
  <2> QED
    BY <2>2, <2>3
<1>8. up[0] = {}
  <2>1. 0 \in 0 .. N
    OBVIOUS
  <2> QED
    BY <1>5, <2>1
<1> QED
  BY <1>6, <1>7, <1>8 DEF Asks

\* A set that has what its members are bound to has the chains of its members.
LEMMA ClosedHasChain ==
  ASSUME NEW b, NEW A, \A x \in A : x \in DOMAIN b => b[x] \in A, NEW o \in A
  PROVE  \A i \in DOMAIN Chain(b, o) : Chain(b, o)[i] \in A
<1> DEFINE c == Chain(b, o)
           S == {n \in 0 .. Len(c) - 1 : c[n + 1] \in A}
<1>1. /\ Len(c) \in Nat /\ DOMAIN c = 1 .. Len(c) /\ Len(c) >= 1 /\ c[1] = o
      /\ \A i \in 1 .. Len(c) - 1 : c[i] \in DOMAIN b /\ c[i + 1] = b[c[i]]
  BY ChainIs
<1> HIDE DEF c
<1>2. PICK N \in Nat : N = Len(c) - 1
  <2>1. Len(c) - 1 \in Nat
    BY <1>1
  <2> QED
    BY <2>1
<1>3. 0 \in S
  BY <1>1, <1>2
<1>4. ASSUME NEW n \in 0 .. N - 1, n \in S PROVE n + 1 \in S
  <2>1. n + 1 \in 1 .. Len(c) - 1 /\ n + 1 \in 0 .. Len(c) - 1
    BY <1>1, <1>2
  <2>2. c[n + 1] \in A
    BY <1>4
  <2>3. PICK k : k = n + 1
    OBVIOUS
  <2>4. c[k + 1] \in A
    BY <1>1, <2>1, <2>2, <2>3
  <2> QED
    BY <2>1, <2>3, <2>4
<1>5. 0 .. N \subseteq S
  <2> HIDE DEF S
  <2> QED
    BY <1>3, <1>4, UpTo
<1>6. ASSUME NEW i \in DOMAIN c PROVE c[i] \in A
  <2>1. PICK n \in 0 .. N : i = n + 1
    <3>1. i \in 1 .. N + 1
      BY <1>1, <1>2
    <3>2. i - 1 \in 0 .. N /\ i = i - 1 + 1
      BY <3>1
    <3> QED
      BY <3>2
  <2> QED
    BY <1>5, <2>1
<1> QED
  BY <1>6 DEF c

\* Of bindings whose chains end, all that is on the chains of a batch is asked for.
LEMMA ClosureHolds ==
  ASSUME NEW b, Ends(b), NEW N \in Nat, NEW batch, DOMAIN batch = 1 .. N, Len(batch) = N,
         NEW n \in 1 .. N
  PROVE  \A i \in DOMAIN Chain(b, batch[n]) : Chain(b, batch[n])[i] \in Closure(b, batch)
<1>0. PICK up : Asks(up, b, batch, N)
  BY ClosureSteps
<1>1. /\ up[0] = {} /\ up[N] = Closure(b, batch)
      /\ \A d \in 0 .. N - 1 : up[d + 1] = Asked(b, batch, d + 1, up[d])
  BY <1>0 DEF Asks
<1> DEFINE Closed(A) == \A x \in A : x \in DOMAIN b => b[x] \in A
           S == {d \in 0 .. N : Closed(up[d]) /\ \A k \in 1 .. d : batch[k] \in up[d]}
<1>2. 0 \in S
  BY <1>1
<1>3. ASSUME NEW d \in 0 .. N - 1, d \in S PROVE d + 1 \in S
  <2> DEFINE c == Chain(b, batch[d + 1])
             A == up[d]
             fresh == {k \in DOMAIN c : \A j \in 2 .. k : c[j] \notin A}
             B == {c[i] : i \in fresh}
  <2>1. up[d + 1] = A \cup B
    BY <1>1 DEF Asked
  <2>2. /\ Len(c) \in Nat /\ DOMAIN c = 1 .. Len(c) /\ Len(c) >= 1 /\ c[1] = batch[d + 1]
        /\ \A i \in 1 .. Len(c) - 1 : c[i] \in DOMAIN b /\ c[i + 1] = b[c[i]]
    BY ChainIs
  <2>3. c[Len(c)] \in DOMAIN b => \E i \in DOMAIN c : c[i] = b[c[Len(c)]]
    <3>1. CASE batch[d + 1] \in DOMAIN b
      BY <3>1 DEF Ends
    <3>2. CASE batch[d + 1] \notin DOMAIN b
      <4>1. c[1] \notin DOMAIN b
        BY <2>2, <3>2
      <4>2. Len(c) = 1
        <5> HIDE DEF c
        <5>1. ASSUME Len(c) # 1 PROVE FALSE
          <6>1. 1 \in 1 .. Len(c) - 1
            BY <2>2, <5>1
          <6> QED
            BY <2>2, <4>1, <6>1
        <5> QED
          BY <5>1
      <4> QED
        BY <4>1, <4>2
    <3> QED
      BY <3>1, <3>2
  <2> HIDE DEF c
  <2>4. Closed(A) /\ \A k \in 1 .. d : batch[k] \in A
    BY <1>3
  <2>5. 1 \in fresh
    <3>1. \A j \in 2 .. 1 : c[j] \notin A
      OBVIOUS
    <3> QED
      BY <2>2, <3>1
  <2>6. batch[d + 1] \in B
    BY <2>2, <2>5
  <2>7. ASSUME NEW i \in fresh, c[i] \in DOMAIN b PROVE b[c[i]] \in A \cup B
    <3>1. i \in 1 .. Len(c) /\ \A j \in 2 .. i : c[j] \notin A
      BY <2>2
    <3>2. CASE i # Len(c)
      <4>0. PICK m \in Nat : m = Len(c)
        BY <2>2
      <4>1. PICK k : k = i + 1
        OBVIOUS
      <4>2. i \in 1 .. Len(c) - 1 /\ k \in 1 .. Len(c)
        BY <3>1, <3>2, <4>0, <4>1
      <4>3. c[k] = b[c[i]] /\ k \in DOMAIN c
        BY <2>2, <4>1, <4>2
      <4>4. CASE c[k] \in A
        BY <4>3, <4>4
      <4>5. CASE c[k] \notin A
        <5>1. \A j \in 2 .. k : j \in 2 .. i \/ j = k
          BY <3>1, <4>1
        <5>2. k \in fresh
          BY <3>1, <4>3, <4>5, <5>1
        <5> QED
          BY <4>3, <5>2
      <4> QED
        BY <4>4, <4>5
    <3>3. CASE i = Len(c)
      <4>1. PICK j \in DOMAIN c : c[j] = b[c[i]]
        BY <2>3, <2>7, <3>3
      <4>2. \A k \in 2 .. j : c[k] \notin A
        BY <2>2, <3>1, <3>3, <4>1
      <4>3. j \in fresh
        BY <4>2
      <4> QED
        BY <4>1, <4>3
    <3> QED
      BY <3>2, <3>3
  <2> HIDE DEF fresh, A
  <2>8. Closed(A \cup B)
    BY <2>4, <2>7
  <2>9. \A k \in 1 .. d + 1 : batch[k] \in A \cup B
    <3>1. \A k \in 1 .. d + 1 : k \in 1 .. d \/ k = d + 1
      OBVIOUS
    <3> QED
      BY <2>4, <2>6, <3>1
  <2>10. d + 1 \in 0 .. N
    OBVIOUS
  <2> HIDE DEF B, Closed
  <2> QED
    BY <2>1, <2>8, <2>9, <2>10
<1> HIDE DEF S
<1>4. 0 .. N \subseteq S
  BY <1>2, <1>3, UpTo
<1>5. Closed(up[N]) /\ batch[n] \in up[N]
  BY <1>4 DEF S
<1> QED
  BY <1>1, <1>5, ClosedHasChain

LEMMA ClosureOfOne ==
  ASSUME NEW b, NEW o
  PROVE  Closure(b, <<o>>) = {Chain(b, o)[i] : i \in DOMAIN Chain(b, o)}
<1> DEFINE c == Chain(b, o)
<1>1. DOMAIN <<o>> = 1 .. 1 /\ Len(<<o>>) = 1 /\ <<o>>[1] = o
  OBVIOUS
<1>2. PICK up : Asks(up, b, <<o>>, 1)
  BY <1>1, ClosureSteps
<1>3. up[1] = Asked(b, <<o>>, 1, {})
  <2>1. 0 \in 0 .. 1 - 1 /\ 0 + 1 = 1
    OBVIOUS
  <2> QED
    BY <1>2, <2>1 DEF Asks
<1>4. Asked(b, <<o>>, 1, {}) = {c[i] : i \in {k \in DOMAIN c : \A j \in 2 .. k : c[j] \notin {}}}
  BY DEF Asked
<1> HIDE DEF c
<1> QED
  BY <1>2, <1>3, <1>4 DEF Asks, c

\* The state of an origin by itself is what it is in any batch.
LEMMA ClassifyAlike ==
  ASSUME NEW b, Ends(b), NEW q, NEW A, NEW R,
         NEW N \in Nat, NEW batch, DOMAIN batch = 1 .. N, Len(batch) = N,
         NEW n \in 1 .. N, NEW o, o = batch[n]
  PROVE  Classify(b, q, A, R, batch)[o] = Classify(b, q, A, R, <<o>>)[o]
<1> DEFINE c == Chain(b, o)
           State(landed) ==
             IF \E i \in DOMAIN c : c[i] \in landed THEN "landed"
             ELSE IF c[Len(c)] \in R THEN "pending-elsewhere"
             ELSE IF q THEN "abandoned" ELSE "unknown"
<1>1. Classify(b, q, A, R, batch)[o] = State(A \cap Closure(b, batch))
  <2>1. o \in {batch[i] : i \in DOMAIN batch}
    OBVIOUS
  <2> QED
    BY <2>1 DEF Classify
<1>2. Classify(b, q, A, R, <<o>>)[o] = State(A \cap Closure(b, <<o>>))
  <2>1. 1 \in DOMAIN <<o>> /\ <<o>>[1] = o
    OBVIOUS
  <2>2. o \in {<<o>>[i] : i \in DOMAIN <<o>>}
    BY <2>1
  <2> QED
    BY <2>2 DEF Classify
<1>3. \A i \in DOMAIN c : c[i] \in Closure(b, batch) /\ c[i] \in Closure(b, <<o>>)
  BY ClosureHolds, ClosureOfOne
<1> HIDE DEF c
<1> QED
  BY <1>1, <1>2, <1>3


-----------------------------------------------------------------------------
(* What is read, of a checkout c and the records R.                        *)

StateIn(c, R, o) == Classify(LandedBindings(R), c[3], c[1], c[2], <<o>>)[o]

LandedIn(c, R, e) == {o \in NoteOrigins(OfEntry(R, e)) : StateIn(c, R, o) = "landed"}

ReadingIn(c, R, e) == Reading(R, e, LandedIn(c, R, e))

LEMMA InIsOf ==
  /\ \A o : StateIn(checkout, records, o) = StateOf(o)
  /\ \A e : ReadingIn(checkout, records, e) = ReadingOf(e)
BY DEF StateIn, LandedIn, ReadingIn, StateOf, ReadingOf, checkout

\* What of an entry's records its reading looks at.
Signs(R, e) == {r \in OfEntry(R, e) : r.kind \notin {"LN", "UL", "VD"}}

\* Nothing else matters, and of the commits only those of its records.
LEMMA SameReading ==
  ASSUME NEW R, NEW S, NEW e, NEW L, NEW M, Signs(R, e) = Signs(S, e),
         \A o \in NoteOrigins(OfEntry(R, e)) : o \in L <=> o \in M
  PROVE  Reading(R, e, L) = Reading(S, e, M)
<1>1. \A r : r.kind \in Note \cup Mark => (r \in OfEntry(R, e) <=> r \in OfEntry(S, e))
  BY DEF Signs, Note, Mark
<1>2. ASSUME NEW K, K \subseteq Note \cup Mark
      PROVE  LandedOf(R, e, K, L) = LandedOf(S, e, K, M)
  <2>1. \A r \in OfEntry(R, e) : r.kind \in K => r.origin \in NoteOrigins(OfEntry(R, e))
    BY <1>2 DEF NoteOrigins
  <2> QED
    BY <1>1, <1>2, <2>1 DEF LandedOf
<1>3. ASSUME NEW K, K \subseteq Note \cup Mark
      PROVE  NewestLanded(R, e, K, L) = NewestLanded(S, e, K, M)
  BY <1>2, <1>3 DEF NewestLanded
<1>4. /\ NewestLanded(R, e, Note \cup Mark, L) = NewestLanded(S, e, Note \cup Mark, M)
      /\ NewestLanded(R, e, Note, L) = NewestLanded(S, e, Note, M)
      /\ NewestLanded(R, e, Note \cup {"RA"}, L) = NewestLanded(S, e, Note \cup {"RA"}, M)
      /\ NewestLanded(R, e, {"SU", "RA"}, L) = NewestLanded(S, e, {"SU", "RA"}, M)
      /\ LandedOf(R, e, {"SU"}, L) = LandedOf(S, e, {"SU"}, M)
  <2>1. /\ Note \subseteq Note \cup Mark /\ Note \cup {"RA"} \subseteq Note \cup Mark
        /\ {"SU", "RA"} \subseteq Note \cup Mark /\ {"SU"} \subseteq Note \cup Mark
        /\ Note \cup Mark \subseteq Note \cup Mark
    BY DEF Note, Mark
  <2> QED
    BY <1>2, <1>3, <2>1
<1>5. Notes(R, e) = Notes(S, e)
  <2>1. \A r : r.kind \in Note => r.kind \in Note \cup Mark
    OBVIOUS
  <2> QED
    BY <1>1, <2>1 DEF Notes
<1>6. Rescue(R, e, L) = Rescue(S, e, M)
  BY <1>4, <1>5 DEF Rescue
<1>7. Tombstoned(R, e) = Tombstoned(S, e)
  <2>1. \A r : r.kind = "TB" => (r \in OfEntry(R, e) <=> r \in OfEntry(S, e))
    BY DEF Signs
  <2> QED
    BY <2>1 DEF Tombstoned
<1> DEFINE Doubts(T, G) == \E f \in OfEntry(T, e) : f.kind = "FB" /\ \A g \in G : g.id < f.id
<1>8. \A G : Doubts(R, G) = Doubts(S, G)
  <2>1. \A r : r.kind = "FB" => (r \in OfEntry(R, e) <=> r \in OfEntry(S, e))
    BY DEF Signs
  <2> QED
    BY <2>1
<1>9. Doubts(R, NewestLanded(R, e, {"SU", "RA"}, L)) = Doubts(S, NewestLanded(S, e, {"SU", "RA"}, M))
  BY <1>4, <1>8
<1> HIDE DEF Doubts
<1>10. /\ Reading(R, e, L) =
            [deleted |-> Tombstoned(R, e),
             landed |-> NewestLanded(R, e, Note \cup Mark, L) # {},
             body |-> IF NewestLanded(R, e, Note, L) # {} THEN NewestLanded(R, e, Note, L)
                      ELSE Rescue(R, e, L),
             anchor |-> IF NewestLanded(R, e, Note \cup {"RA"}, L) # {}
                        THEN NewestLanded(R, e, Note \cup {"RA"}, L) ELSE Rescue(R, e, L),
             path |-> NewestLanded(R, e, Note \cup Mark, L),
             rev |-> 1 + Cardinality(LandedOf(R, e, {"SU"}, L)),
             disputed |-> Doubts(R, NewestLanded(R, e, {"SU", "RA"}, L))]
       /\ Reading(S, e, M) =
            [deleted |-> Tombstoned(S, e),
             landed |-> NewestLanded(S, e, Note \cup Mark, M) # {},
             body |-> IF NewestLanded(S, e, Note, M) # {} THEN NewestLanded(S, e, Note, M)
                      ELSE Rescue(S, e, M),
             anchor |-> IF NewestLanded(S, e, Note \cup {"RA"}, M) # {}
                        THEN NewestLanded(S, e, Note \cup {"RA"}, M) ELSE Rescue(S, e, M),
             path |-> NewestLanded(S, e, Note \cup Mark, M),
             rev |-> 1 + Cardinality(LandedOf(S, e, {"SU"}, M)),
             disputed |-> Doubts(S, NewestLanded(S, e, {"SU", "RA"}, M))]
  BY DEF Reading, Doubts
<1> QED
  BY <1>4, <1>6, <1>7, <1>9, <1>10

\* Only a verdict changes the state of an origin.
LEMMA SameStates ==
  ASSUME NEW R, NEW x, x.kind # "VD", NEW c
  PROVE  /\ LandedBindings(R \cup {x}) = LandedBindings(R)
         /\ \A o : StateIn(c, R \cup {x}, o) = StateIn(c, R, o)
<1>1. Verdicts(R \cup {x}) = Verdicts(R)
  BY DEF Verdicts
<1>2. WinningVerdicts(R \cup {x}) = WinningVerdicts(R)
  BY <1>1 DEF WinningVerdicts
<1>3. LandedBindings(R \cup {x}) = LandedBindings(R)
  <2> DEFINE Of(W) == LET landed == {v \in W : v.as # None}
                      IN  [o \in {v.origin : v \in landed} |->
                             (CHOOSE v \in landed : v.origin = o).as]
  <2>1. \A S : LandedBindings(S) = Of(WinningVerdicts(S))
    BY DEF LandedBindings
  <2> HIDE DEF Of
  <2> QED
    BY <1>2, <2>1
<1> QED
  BY <1>3 DEF StateIn

\* A reading is changed only by a verdict, or by a record of the entry.
LEMMA OtherReadings ==
  ASSUME NEW R, NEW x, x.kind # "VD", NEW c, NEW e, x.entry # e \/ x.kind \in {"LN", "UL"}
  PROVE  ReadingIn(c, R \cup {x}, e) = ReadingIn(c, R, e)
<1>1. Signs(R \cup {x}, e) = Signs(R, e)
  BY DEF Signs, OfEntry
<1>2. NoteOrigins(OfEntry(R \cup {x}, e)) = NoteOrigins(OfEntry(R, e))
  <2>1. \A r : r.kind \in Note \cup Mark => (r \in OfEntry(R \cup {x}, e) <=> r \in OfEntry(R, e))
    BY DEF OfEntry, Note, Mark
  <2>2. {k \in OfEntry(R \cup {x}, e) : k.kind \in Note \cup Mark}
          = {k \in OfEntry(R, e) : k.kind \in Note \cup Mark}
    BY <2>1
  <2> QED
    BY <2>2 DEF NoteOrigins
<1>3. LandedIn(c, R \cup {x}, e) = LandedIn(c, R, e)
  BY <1>2, SameStates DEF LandedIn
<1>4. Reading(R \cup {x}, e, LandedIn(c, R, e)) = Reading(R, e, LandedIn(c, R, e))
  BY <1>1, SameReading
<1> QED
  BY <1>3, <1>4 DEF ReadingIn

LEMMA SameLinks ==
  ASSUME NEW R, NEW x, x.kind \notin {"LN", "UL"}
  PROVE  Links(R \cup {x}) = Links(R)
<1>1. {r \in R \cup {x} : r.kind \in {"LN", "UL"}} = {r \in R : r.kind \in {"LN", "UL"}}
  OBVIOUS
<1> QED
  BY <1>1 DEF Links

-----------------------------------------------------------------------------
(* Memos.                                                                  *)

\* What m says is what c and R say.
Current(c, R, m) ==
  /\ m = [class |-> m.class, folded |-> m.folded, resolved |-> m.resolved, links |-> m.links]
  /\ \A o \in DOMAIN m.class : m.class[o] = StateIn(c, R, o)
  /\ \A e \in DOMAIN m.folded : m.folded[e] = ReadingIn(c, R, e)
  /\ \A e \in DOMAIN m.resolved : m.resolved[e] = Resolution(ReadingIn(c, R, e))
  /\ \A l \in m.links : l = Links(R)

LEMMA CurrentIs ==
  ASSUME Current(checkout, records, memo)
  PROVE  OriginsCurrent /\ ReadingsCurrent
BY InIsOf DEF Current, OriginsCurrent, ReadingsCurrent

LEMMA NothingIsCurrent ==
  ASSUME NEW c, NEW R
  PROVE  Current(c, R, NothingKnown)
BY DEF Current, NothingKnown, NoMemo

\* absorb: what is forgotten is enough.
LEMMA ForgottenEnough ==
  ASSUME NEW c, NEW R, NEW m, Current(c, R, m), NEW x
  PROVE  Current(c, R \cup {x}, Forget(m, x))
<1>0. PICK k, f, s, l : m = [class |-> k, folded |-> f, resolved |-> s, links |-> l]
  BY DEF Current
<1>1. CASE x.kind = "VD"
  <2>1. Forget(m, x) = [class |-> NoMemo, folded |-> NoMemo, resolved |-> NoMemo, links |-> l]
    BY <1>0, <1>1 DEF Forget, NothingKnown
  <2>2. Links(R \cup {x}) = Links(R)
    BY <1>1, SameLinks
  <2>3. DOMAIN NoMemo = {}
    BY DEF NoMemo
  <2>4. \A z \in l : z = Links(R)
    BY <1>0 DEF Current
  <2> QED
    BY <2>1, <2>2, <2>3, <2>4 DEF Current
<1>2. CASE x.kind # "VD"
  <2>1. \A o : StateIn(c, R \cup {x}, o) = StateIn(c, R, o)
    BY <1>2, SameStates
  <2>2. /\ \A o \in DOMAIN k : k[o] = StateIn(c, R, o)
        /\ \A e \in DOMAIN f : f[e] = ReadingIn(c, R, e)
        /\ \A e \in DOMAIN s : s[e] = Resolution(ReadingIn(c, R, e))
        /\ \A z \in l : z = Links(R)
    BY <1>0 DEF Current
  <2>3. CASE x.kind \in {"LN", "UL"}
    <3>1. Forget(m, x) = [class |-> k, folded |-> f, resolved |-> s, links |-> {}]
      BY <1>0, <1>2, <2>3 DEF Forget
    <3>2. \A e : ReadingIn(c, R \cup {x}, e) = ReadingIn(c, R, e)
      BY <1>2, <2>3, OtherReadings
    <3> QED
      BY <2>1, <2>2, <3>1, <3>2 DEF Current
  <2>4. CASE x.kind \notin {"LN", "UL"}
    <3>1. Forget(m, x) = [class |-> k, folded |-> Without(f, x.entry),
                          resolved |-> Without(s, x.entry), links |-> l]
      BY <1>0, <1>2, <2>4 DEF Forget
    <3>2. \A e : e # x.entry => ReadingIn(c, R \cup {x}, e) = ReadingIn(c, R, e)
      BY <1>2, OtherReadings
    <3>3. Links(R \cup {x}) = Links(R)
      BY <2>4, SameLinks
    <3>4. /\ DOMAIN Without(f, x.entry) = DOMAIN f \ {x.entry}
          /\ DOMAIN Without(s, x.entry) = DOMAIN s \ {x.entry}
          /\ \A y \in DOMAIN f \ {x.entry} : Without(f, x.entry)[y] = f[y]
          /\ \A y \in DOMAIN s \ {x.entry} : Without(s, x.entry)[y] = s[y]
      BY DEF Without
    <3> HIDE DEF Without
    <3>5. PICK g : g = Forget(m, x)
      OBVIOUS
    <3>6. /\ g = [class |-> g.class, folded |-> g.folded, resolved |-> g.resolved, links |-> g.links]
          /\ g.class = k /\ g.folded = Without(f, x.entry) /\ g.resolved = Without(s, x.entry)
          /\ g.links = l
      BY <3>1, <3>5
    <3>7. \A o \in DOMAIN g.class : g.class[o] = StateIn(c, R \cup {x}, o)
      BY <2>1, <2>2, <3>6
    <3>8. \A e \in DOMAIN g.folded : g.folded[e] = ReadingIn(c, R \cup {x}, e)
      <4>1. \A e \in DOMAIN f \ {x.entry} :
               Without(f, x.entry)[e] = f[e] /\ f[e] = ReadingIn(c, R \cup {x}, e)
        BY <2>2, <3>2, <3>4
      <4> QED
        BY <3>4, <3>6, <4>1
    <3>9. \A e \in DOMAIN g.resolved : g.resolved[e] = Resolution(ReadingIn(c, R \cup {x}, e))
      <4>1. \A e \in DOMAIN s \ {x.entry} :
               Without(s, x.entry)[e] = s[e] /\ s[e] = Resolution(ReadingIn(c, R \cup {x}, e))
        BY <2>2, <3>2, <3>4
      <4> QED
        BY <3>4, <3>6, <4>1
    <3>10. \A z \in g.links : z = Links(R \cup {x})
      BY <2>2, <3>3, <3>6
    <3>11. Current(c, R \cup {x}, g)
      BY <3>6, <3>7, <3>8, <3>9, <3>10 DEF Current
    <3> QED
      BY <3>5, <3>11
  <2> QED
    BY <2>3, <2>4
<1> QED
  BY <1>1, <1>2


-----------------------------------------------------------------------------
(* The records there are.                                                  *)

StoreInv ==
  /\ IsFiniteSet(records)
  /\ \A x \in records : x.id \in Nat
  /\ \A x, y \in records : x.id = y.id => x = y
  /\ Here \in ancestors

LEMMA LeastIs ==
  ASSUME NEW S \in SUBSET Nat, S # {}
  PROVE  Min(S) \in S /\ \A y \in S : Min(S) <= y
<1>1. \E x \in S : \A y \in S : x =< y
  BY LeastNumber
<1> QED
  BY <1>1 DEF Min

\* Finitely many numbers have a greatest one.
LEMMA GreatestIs ==
  ASSUME NEW S \in SUBSET Nat, S # {}, IsFiniteSet(S)
  PROVE  Max(S) \in S /\ \A y \in S : Max(S) >= y
<1> DEFINE n == Cardinality(S)
<1>0. PICK key \in [S -> Nat] : \A x \in S : key[x] = x
  <2> DEFINE id == [x \in S |-> x]
  <2>1. id \in [S -> Nat] /\ \A x \in S : id[x] = x
    OBVIOUS
  <2> QED
    BY <2>1
<1>1. /\ Rank(S, key) \in [S -> 0 .. n - 1]
      /\ \A a, b \in S : key[a] < key[b] => Rank(S, key)[a] < Rank(S, key)[b]
      /\ \A i \in 0 .. n - 1 : \E e \in S : Rank(S, key)[e] = i
  <2>1. \A a, b \in S : key[a] = key[b] => a = b
    BY <1>0
  <2>2. key \in [S -> Nat] /\ IsFiniteSet(S)
    BY <1>0
  <2>3. Rank(S, key) \in [S -> 0 .. n - 1]
    BY <2>1, <2>2, Ranks
  <2>4. \A a, b \in S : key[a] < key[b] => Rank(S, key)[a] < Rank(S, key)[b]
    BY <2>1, <2>2, Ranks
  <2>5. \A i \in 0 .. n - 1 : \E e \in S : Rank(S, key)[e] = i
    BY <2>1, <2>2, EveryRank
  <2> QED
    BY <2>3, <2>4, <2>5
<1>2. n \in Nat
  BY FS_CardinalityType
<1> HIDE DEF n
<1>3. PICK e \in S : Rank(S, key)[e] = n - 1
  <2>1. PICK d : d \in S
    OBVIOUS
  <2>2. Rank(S, key)[d] \in 0 .. n - 1
    BY <1>1, <2>1
  <2>3. n - 1 \in 0 .. n - 1
    BY <1>2, <2>2
  <2> QED
    BY <1>1, <2>3
<1>4. ASSUME NEW y \in S PROVE e >= y
  <2>1. ~(key[e] < key[y])
    <3>1. Rank(S, key)[y] \in 0 .. n - 1
      BY <1>1
    <3>2. ~(n - 1 < Rank(S, key)[y])
      BY <1>2, <3>1
    <3> QED
      BY <1>1, <1>3, <3>2
  <2> QED
    BY <1>0, <2>1
<1>5. \E x \in S : \A y \in S : x >= y
  BY <1>4
<1> QED
  BY <1>5 DEF Max

\* recordOrigins has all origins of the entry's notes and marks.
LEMMA OriginsListed ==
  ASSUME StoreInv, NEW e
  PROVE  /\ Cardinality(NoteOrigins(OfEntry(records, e))) \in Nat
         /\ DOMAIN RecordOrigins(e) = 1 .. Cardinality(NoteOrigins(OfEntry(records, e)))
         /\ \A o \in NoteOrigins(OfEntry(records, e)) :
              \E i \in DOMAIN RecordOrigins(e) : RecordOrigins(e)[i] = o
<1> DEFINE K == {k \in OfEntry(records, e) : k.kind \in Note \cup Mark}
           O == NoteOrigins(OfEntry(records, e))
           Of(o) == {q \in OfEntry(records, e) : q.origin = o}
           Old(o) == {r.id : r \in Of(o)}
           key == [o \in O |-> Min(Old(o))]
<1>1. OfEntry(records, e) \subseteq records
  BY DEF OfEntry
<1>2. IsFiniteSet(O)
  <2> DEFINE h == [k \in K |-> k.origin]
  <2>1. K \in SUBSET records
    BY <1>1
  <2>2. IsFiniteSet(K)
    BY <2>1, FS_Subset DEF StoreInv
  <2>3. O = {k.origin : k \in K}
    BY DEF NoteOrigins
  <2>4. h \in [K -> O] /\ \A x \in O : \E p \in K : h[p] = x
    BY <2>3
  <2> HIDE DEF K, O, h
  <2> QED
    BY <2>2, <2>4, ImageIsFinite
<1>3. ASSUME NEW o \in O
      PROVE  key[o] \in Nat /\ \E r \in Of(o) : r.id = key[o]
  <2>1. Old(o) # {} /\ Old(o) \in SUBSET Nat
    BY <1>1 DEF NoteOrigins, StoreInv
  <2>2. Min(Old(o)) \in Old(o)
    <3> HIDE DEF Old
    <3> QED
      BY <2>1, LeastIs
  <2> QED
    BY <2>1, <2>2
<1>4. \A a, b \in O : key[a] = key[b] => a = b
  <2>1. \A a, b \in O : \A r \in Of(a), s \in Of(b) : r.id = s.id => a = b
    BY <1>1 DEF StoreInv
  <2> HIDE DEF Of, key
  <2> QED
    BY <1>3, <2>1
<1>5. key \in [O -> Nat]
  <2>1. key = [o \in O |-> key[o]]
    OBVIOUS
  <2> HIDE DEF key
  <2> QED
    BY <1>3, <2>1
<1>6. RecordOrigins(e) = Sorted(O, key)
  BY DEF RecordOrigins
<1> HIDE DEF O, key
<1>7. /\ Cardinality(O) \in Nat /\ Sorted(O, key) \in [1 .. Cardinality(O) -> O]
      /\ \A o \in O : \E i \in 1 .. Cardinality(O) : Sorted(O, key)[i] = o
  BY <1>2, <1>4, <1>5, SortedIs
<1> QED
  BY <1>6, <1>7 DEF O

\* What is known after a classification, beside all that was known.
Learns(m, n) ==
  /\ n.folded = m.folded /\ n.resolved = m.resolved /\ n.links = m.links
  /\ DOMAIN m.class \subseteq DOMAIN n.class

\* g lists what is not known.
Lists(g, n, m, origins) ==
  /\ DOMAIN g = 1 .. n /\ Len(g) = n
  /\ \A i \in DOMAIN origins : origins[i] \in DOMAIN m.class \cup {g[k] : k \in 1 .. n}

LEMMA MissingIs ==
  ASSUME NEW m, NEW N \in Nat, NEW origins, DOMAIN origins = 1 .. N
  PROVE  \E n \in Nat : Lists(Missing(m, origins), n, m, origins)
<1> DEFINE P == {i \in DOMAIN origins : origins[i] \notin DOMAIN m.class}
           key == [i \in P |-> i]
           order == Sorted(P, key)
           g == Missing(m, origins)
           n == Cardinality(P)
           X == {origins[i] : i \in P}
<1>1. IsFiniteSet(P)
  <2>1. IsFiniteSet(1 .. N)
    BY FS_Interval
  <2>2. P \in SUBSET (1 .. N)
    OBVIOUS
  <2> QED
    BY <2>1, <2>2, FS_Subset
<1>2. key \in [P -> Nat] /\ \A a, b \in P : key[a] = key[b] => a = b
  OBVIOUS
<1>3. g = [k \in 1 .. n |-> origins[order[k]]]
  BY DEF Missing
<1>a. \A i \in P : origins[i] \in X /\ origins[i] \notin DOMAIN m.class
  OBVIOUS
<1>b. \A i \in 1 .. N : origins[i] \in DOMAIN m.class \/ i \in P
  OBVIOUS
<1> HIDE DEF key, P, X, g
<1>4. /\ n \in Nat /\ order \in [1 .. n -> P]
      /\ \A e \in P : \E i \in 1 .. n : order[i] = e
  BY <1>1, <1>2, SortedIs
<1> HIDE DEF n, order
<1>5. g \in [1 .. n -> X]
  BY <1>3, <1>4, <1>a
<1>6. DOMAIN g = 1 .. n /\ Len(g) = n
  BY <1>4, <1>5, IsSeq
<1>7. \A i \in 1 .. N : origins[i] \in DOMAIN m.class \cup {g[k] : k \in 1 .. n}
  BY <1>3, <1>4, <1>b
<1>8. Lists(g, n, m, origins)
  BY <1>6, <1>7 DEF Lists
<1> QED
  BY <1>4, <1>8 DEF g

\* classify: what is remembered of origins stays current, and has the batch.
LEMMA ClassedCurrent ==
  ASSUME Ends(LandedBindings(records)), NEW m, Current(checkout, records, m),
         NEW N \in Nat, NEW origins, DOMAIN origins = 1 .. N
  PROVE  /\ Current(checkout, records, Classed(m, origins))
         /\ Learns(m, Classed(m, origins))
         /\ \A i \in 1 .. N : origins[i] \in DOMAIN Classed(m, origins).class
<1> DEFINE b == LandedBindings(records)
           g == Missing(m, origins)
           found == Classify(b, qualified, ancestors, reachable, g)
           new == Added(m.class, found)
<1>0. PICK k, f, s, l : m = [class |-> k, folded |-> f, resolved |-> s, links |-> l]
  BY DEF Current
<1>a. PICK n \in Nat : Lists(g, n, m, origins)
  BY MissingIs
<1>1. /\ DOMAIN g = 1 .. n /\ Len(g) = n
      /\ \A i \in 1 .. N : origins[i] \in DOMAIN m.class \cup {g[j] : j \in 1 .. n}
  BY <1>a DEF Lists
<1>b. Ends(b)
  OBVIOUS
<1>c. \A o : StateIn(checkout, records, o) = Classify(b, qualified, ancestors, reachable, <<o>>)[o]
  BY DEF StateIn, checkout
<1>2. Classed(m, origins) = [class |-> new, folded |-> f, resolved |-> s, links |-> l]
  BY <1>0 DEF Classed
<1>3. DOMAIN found = {g[j] : j \in 1 .. n}
  BY <1>1 DEF Classify
<1> HIDE DEF g, b
<1>4. ASSUME NEW o \in DOMAIN found PROVE found[o] = StateIn(checkout, records, o)
  <2>1. PICK j \in 1 .. n : o = g[j]
    BY <1>3
  <2>2. found[o] = Classify(b, qualified, ancestors, reachable, <<o>>)[o]
    BY <1>1, <1>b, <2>1, ClassifyAlike
  <2> QED
    BY <1>c, <2>2
<1> HIDE DEF found
<1>5. DOMAIN new = DOMAIN k \cup DOMAIN found
      /\ \A o \in DOMAIN new : new[o] = IF o \in DOMAIN found THEN found[o] ELSE k[o]
  BY <1>0 DEF Added
<1> HIDE DEF new
<1>6. \A o \in DOMAIN new : new[o] = StateIn(checkout, records, o)
  BY <1>0, <1>4, <1>5 DEF Current
<1> DEFINE M == Classed(m, origins)
<1>7. M = [class |-> M.class, folded |-> M.folded, resolved |-> M.resolved, links |-> M.links]
      /\ M.class = new /\ M.folded = m.folded /\ M.resolved = m.resolved /\ M.links = m.links
  BY <1>0, <1>2
<1> HIDE DEF M
<1>8. Current(checkout, records, M)
  BY <1>6, <1>7 DEF Current
<1>9. Learns(m, M)
  BY <1>0, <1>5, <1>7 DEF Learns
<1>10. \A i \in 1 .. N : origins[i] \in DOMAIN M.class
  BY <1>0, <1>1, <1>3, <1>5, <1>7
<1> QED
  BY <1>8, <1>9, <1>10 DEF M


-----------------------------------------------------------------------------
(* What the commands read.                                                 *)

\* A memo n that knows no less than m.
Reads(m, n) ==
  /\ DOMAIN m.class \subseteq DOMAIN n.class
  /\ DOMAIN m.folded \subseteq DOMAIN n.folded
  /\ DOMAIN m.resolved \subseteq DOMAIN n.resolved

LEMMA ReadsOn ==
  ASSUME NEW m, NEW n, NEW l, Reads(m, n), Reads(n, l)
  PROVE  Reads(m, l)
BY DEF Reads

LEMMA WithReadingCurrent ==
  ASSUME NEW m, Current(checkout, records, m), NEW e,
         NoteOrigins(OfEntry(records, e)) \subseteq DOMAIN m.class
  PROVE  /\ Current(checkout, records, WithReading(m, e))
         /\ Reads(m, WithReading(m, e)) /\ e \in DOMAIN WithReading(m, e).folded
<1> DEFINE L == {o \in DOMAIN m.class : m.class[o] = "landed"}
           found == [d \in {e} |-> Reading(records, e, L)]
           new == Added(m.folded, found)
           M == WithReading(m, e)
<1>0. PICK k, f, s, l : m = [class |-> k, folded |-> f, resolved |-> s, links |-> l]
  BY DEF Current
<1>1. Reading(records, e, L) = ReadingIn(checkout, records, e)
  <2>1. \A o \in NoteOrigins(OfEntry(records, e)) :
           o \in L <=> o \in LandedIn(checkout, records, e)
    BY DEF Current, LandedIn
  <2> HIDE DEF L
  <2> QED
    BY <2>1, SameReading DEF ReadingIn
<1>2. M = [class |-> k, folded |-> new, resolved |-> s, links |-> l]
  BY <1>0 DEF WithReading
<1>3. DOMAIN new = DOMAIN f \cup {e}
      /\ \A d \in DOMAIN new : new[d] = IF d = e THEN Reading(records, e, L) ELSE f[d]
  BY <1>0 DEF Added
<1> HIDE DEF new, L, found
<1>4. \A d \in DOMAIN new : new[d] = ReadingIn(checkout, records, d)
  BY <1>0, <1>1, <1>3 DEF Current
<1>5. M = [class |-> M.class, folded |-> M.folded, resolved |-> M.resolved, links |-> M.links]
      /\ M.class = m.class /\ M.folded = new /\ M.resolved = m.resolved /\ M.links = m.links
  BY <1>0, <1>2
<1> HIDE DEF M
<1>6. Current(checkout, records, M)
  BY <1>4, <1>5 DEF Current
<1>7. Reads(m, M) /\ e \in DOMAIN M.folded
  BY <1>0, <1>3, <1>5 DEF Reads
<1> QED
  BY <1>6, <1>7 DEF M

LEMMA FoldedCurrent ==
  ASSUME StoreInv, Ends(LandedBindings(records)), NEW m, Current(checkout, records, m), NEW e
  PROVE  /\ Current(checkout, records, Folded(m, e))
         /\ Reads(m, Folded(m, e)) /\ e \in DOMAIN Folded(m, e).folded
<1>1. CASE e \in DOMAIN m.folded
  BY <1>1 DEF Folded, Reads
<1>2. CASE e \notin DOMAIN m.folded
  <2> DEFINE n == Classed(m, RecordOrigins(e))
             N == Cardinality(NoteOrigins(OfEntry(records, e)))
  <2>1. /\ N \in Nat /\ DOMAIN RecordOrigins(e) = 1 .. N
        /\ \A o \in NoteOrigins(OfEntry(records, e)) :
             \E i \in 1 .. N : RecordOrigins(e)[i] = o
    BY OriginsListed
  <2> HIDE DEF N
  <2>2. /\ Current(checkout, records, n) /\ Learns(m, n)
        /\ \A i \in 1 .. N : RecordOrigins(e)[i] \in DOMAIN n.class
    BY <2>1, ClassedCurrent
  <2> HIDE DEF n
  <2>3. NoteOrigins(OfEntry(records, e)) \subseteq DOMAIN n.class
    BY <2>1, <2>2
  <2>4. /\ Current(checkout, records, WithReading(n, e))
        /\ Reads(n, WithReading(n, e)) /\ e \in DOMAIN WithReading(n, e).folded
    BY <2>2, <2>3, WithReadingCurrent
  <2>5. Reads(m, n)
    BY <2>2 DEF Learns, Reads
  <2>6. Folded(m, e) = WithReading(n, e)
    BY <1>2 DEF Folded, n
  <2> QED
    BY <2>4, <2>5, <2>6, ReadsOn
<1> QED
  BY <1>1, <1>2

LEMMA WithResolutionCurrent ==
  ASSUME NEW m, Current(checkout, records, m), NEW e \in DOMAIN m.folded
  PROVE  /\ Current(checkout, records, WithResolution(m, e)) /\ Reads(m, WithResolution(m, e))
         /\ Present(m.folded[e]) => e \in DOMAIN WithResolution(m, e).resolved
<1>1. CASE e \in DOMAIN m.resolved \/ ~Present(m.folded[e])
  BY <1>1 DEF WithResolution, Reads
<1>2. CASE ~(e \in DOMAIN m.resolved \/ ~Present(m.folded[e]))
  <2> DEFINE found == [d \in {e} |-> Resolution(m.folded[e])]
             new == Added(m.resolved, found)
             M == WithResolution(m, e)
  <2>0. PICK k, f, s, l : m = [class |-> k, folded |-> f, resolved |-> s, links |-> l]
    BY DEF Current
  <2>1. m.folded[e] = ReadingIn(checkout, records, e)
    BY DEF Current
  <2>2. M = [class |-> k, folded |-> f, resolved |-> new, links |-> l]
    BY <1>2, <2>0 DEF WithResolution
  <2>3. DOMAIN new = DOMAIN s \cup {e}
        /\ \A d \in DOMAIN new : new[d] = IF d = e THEN Resolution(m.folded[e]) ELSE s[d]
    BY <2>0 DEF Added
  <2> HIDE DEF new, found
  <2>4. \A d \in DOMAIN new : new[d] = Resolution(ReadingIn(checkout, records, d))
    BY <2>0, <2>1, <2>3 DEF Current
  <2>5. M = [class |-> M.class, folded |-> M.folded, resolved |-> M.resolved, links |-> M.links]
        /\ M.class = m.class /\ M.folded = m.folded /\ M.resolved = new /\ M.links = m.links
    BY <2>0, <2>2
  <2> HIDE DEF M
  <2>6. Current(checkout, records, M)
    BY <2>4, <2>5 DEF Current
  <2>7. Reads(m, M) /\ e \in DOMAIN M.resolved
    BY <2>0, <2>3, <2>5 DEF Reads
  <2> QED
    BY <2>6, <2>7 DEF M
<1> QED
  BY <1>1, <1>2

LEMMA ResolvedCurrent ==
  ASSUME StoreInv, Ends(LandedBindings(records)), NEW m, Current(checkout, records, m), NEW e
  PROVE  /\ Current(checkout, records, Resolved(m, e))
         /\ Reads(m, Resolved(m, e)) /\ e \in DOMAIN Resolved(m, e).folded
         /\ Present(ReadingIn(checkout, records, e)) => e \in DOMAIN Resolved(m, e).resolved
<1>1. PICK n : n = Folded(m, e)
  OBVIOUS
<1>2. /\ Current(checkout, records, n) /\ Reads(m, n) /\ e \in DOMAIN n.folded
      /\ Resolved(m, e) = WithResolution(n, e)
  BY <1>1, FoldedCurrent DEF Resolved
<1>3. /\ Current(checkout, records, WithResolution(n, e)) /\ Reads(n, WithResolution(n, e))
      /\ Present(n.folded[e]) => e \in DOMAIN WithResolution(n, e).resolved
  BY <1>2, WithResolutionCurrent
<1>4. n.folded[e] = ReadingIn(checkout, records, e)
  BY <1>2 DEF Current
<1>5. e \in DOMAIN WithResolution(n, e).folded
  BY <1>2, <1>3 DEF Reads
<1> QED
  BY <1>2, <1>3, <1>4, <1>5, ReadsOn

LEMMA WithLinksCurrent ==
  ASSUME NEW m, Current(checkout, records, m)
  PROVE  Current(checkout, records, WithLinks(m))
<1>0. PICK k, f, s, l : m = [class |-> k, folded |-> f, resolved |-> s, links |-> l]
  BY DEF Current
<1>1. CASE m.links = {}
  <2> DEFINE M == WithLinks(m)
  <2>1. M = [class |-> k, folded |-> f, resolved |-> s, links |-> {Links(records)}]
    BY <1>0, <1>1 DEF WithLinks
  <2>2. M = [class |-> M.class, folded |-> M.folded, resolved |-> M.resolved, links |-> M.links]
        /\ M.class = m.class /\ M.folded = m.folded /\ M.resolved = m.resolved
        /\ M.links = {Links(records)}
    BY <1>0, <2>1
  <2> HIDE DEF M
  <2>3. Current(checkout, records, M)
    BY <2>2 DEF Current
  <2> QED
    BY <2>3 DEF M
<1>2. CASE m.links # {}
  BY <1>2 DEF WithLinks
<1> QED
  BY <1>1, <1>2

-----------------------------------------------------------------------------
(* All of some entries, one after another.                                 *)

\* Entries have an order: they are as many, and each has its place.
LEMMA InOrderIs ==
  ASSUME StoreInv, NEW S \in SUBSET Known
  PROVE  /\ Cardinality(S) \in Nat /\ InOrder(S) \in [1 .. Cardinality(S) -> S]
         /\ \A e \in S : \E i \in 1 .. Cardinality(S) : InOrder(S)[i] = e
         /\ \A i, j \in 1 .. Cardinality(S) : InOrder(S)[i] = InOrder(S)[j] => i = j
<1> DEFINE key == [e \in S |-> First(e)]
<1>1. IsFiniteSet(S)
  <2> DEFINE M == {r.entry : r \in records}
             h == [r \in records |-> r.entry]
  <2>1. h \in [records -> M] /\ \A x \in M : \E r \in records : h[r] = x
    OBVIOUS
  <2>2. S \in SUBSET M
    BY DEF Known, Notes, OfEntry
  <2> HIDE DEF M, h
  <2>3. IsFiniteSet(M)
    BY <2>1, ImageIsFinite DEF StoreInv
  <2> QED
    BY <2>2, <2>3, FS_Subset
<1>2. ASSUME NEW e \in S
      PROVE  First(e) \in Nat /\ \E r \in records : r.id = First(e) /\ r.entry = e
  <2> DEFINE I == {n.id : n \in Notes(records, e)}
  <2>1. Notes(records, e) # {} /\ Notes(records, e) \subseteq records
        /\ \A n \in Notes(records, e) : n.entry = e
    BY DEF Known, Notes, OfEntry
  <2>2. I # {} /\ I \in SUBSET Nat
    BY <2>1 DEF StoreInv
  <2>3. Min(I) \in I
    <3> HIDE DEF I
    <3> QED
      BY <2>2, LeastIs
  <2>4. First(e) = Min(I)
    BY DEF First
  <2> QED
    BY <2>1, <2>2, <2>3, <2>4
<1>3. \A a, b \in S : First(a) = First(b) => a = b
  BY <1>2 DEF StoreInv
<1>4. key \in [S -> Nat] /\ \A a, b \in S : key[a] = key[b] => a = b
  BY <1>2, <1>3
<1>5. InOrder(S) = Sorted(S, key)
  BY DEF InOrder
<1> HIDE DEF key
<1>6. /\ Cardinality(S) \in Nat /\ Sorted(S, key) \in [1 .. Cardinality(S) -> S]
      /\ \A e \in S : \E i \in 1 .. Cardinality(S) : Sorted(S, key)[i] = e
      /\ \A i, j \in 1 .. Cardinality(S) : Sorted(S, key)[i] = Sorted(S, key)[j] => i = j
  BY <1>1, <1>4, SortedIs
<1> QED
  BY <1>5, <1>6

Folding == INSTANCE Induction WITH Op <- Folded

Resolving == INSTANCE Induction WITH Op <- Resolved

LEMMA FoldedAllCurrent ==
  ASSUME StoreInv, Ends(LandedBindings(records)), NEW m, Current(checkout, records, m),
         NEW S \in SUBSET Known
  PROVE  /\ Current(checkout, records, FoldedAll(m, S)) /\ Reads(m, FoldedAll(m, S))
         /\ S \subseteq DOMAIN FoldedAll(m, S).folded
<1> DEFINE N == Cardinality(S)
           q == InOrder(S)
<1>1. /\ N \in Nat /\ q \in [1 .. N -> S]
      /\ \A e \in S : \E i \in 1 .. N : q[i] = e
  BY InOrderIs
<1> HIDE DEF N
<1>2. PICK w : Folding!Steps(w, N, m, q)
  BY <1>1, Folding!FoldSteps
<1>3. FoldedAll(m, S) = Folding!FoldOver(m, q)
  BY DEF FoldedAll, Folding!FoldOver, Folding!Largest, FoldLeft, MapThenFoldSet, Max
<1> HIDE DEF q
<1>4. /\ w[0] = m
      /\ \A d \in 0 .. N - 1 : w[d + 1] = Folded(w[d], q[d + 1])
      /\ w[N] = FoldedAll(m, S)
  BY <1>2, <1>3 DEF Folding!Steps
<1> DEFINE Good(d) == /\ Current(checkout, records, w[d]) /\ Reads(m, w[d])
                      /\ \A i \in 1 .. d : q[i] \in DOMAIN w[d].folded
           Z == {d \in 0 .. N : Good(d)}
<1>5. 0 \in Z
  BY <1>1, <1>4 DEF Reads
<1>6. ASSUME NEW d \in 0 .. N - 1, d \in Z PROVE d + 1 \in Z
  <2>1. d + 1 \in 0 .. N /\ \A i \in 1 .. d + 1 : i \in 1 .. d \/ i = d + 1
    BY <1>1
  <2>2. w[d + 1] = Folded(w[d], q[d + 1])
    BY <1>4
  <2>3. Good(d)
    BY <1>6
  <2>4. PICK v, e : v = w[d] /\ e = q[d + 1]
    OBVIOUS
  <2>5. Current(checkout, records, Folded(v, e)) /\ Reads(v, Folded(v, e))
        /\ e \in DOMAIN Folded(v, e).folded
    BY <2>3, <2>4, FoldedCurrent
  <2>6. Reads(m, Folded(v, e))
    BY <2>3, <2>4, <2>5, ReadsOn
  <2>7. \A i \in 1 .. d + 1 : q[i] \in DOMAIN Folded(v, e).folded
    BY <2>1, <2>3, <2>4, <2>5 DEF Reads
  <2>8. Good(d + 1)
    BY <2>2, <2>4, <2>5, <2>6, <2>7
  <2> HIDE DEF Good
  <2> QED
    BY <2>1, <2>8
<1> HIDE DEF Z, Good
<1>7. 0 .. N \subseteq Z
  BY <1>1, <1>5, <1>6, UpTo
<1>8. Good(N)
  BY <1>1, <1>7 DEF Z
<1>9. \A e \in S : e \in DOMAIN w[N].folded
  BY <1>1, <1>8 DEF Good
<1> QED
  BY <1>4, <1>8, <1>9 DEF Good

LEMMA ResolvedAllCurrent ==
  ASSUME StoreInv, Ends(LandedBindings(records)), NEW m, Current(checkout, records, m),
         NEW S \in SUBSET Known
  PROVE  Current(checkout, records, ResolvedAll(m, S)) /\ Reads(m, ResolvedAll(m, S))
<1> DEFINE N == Cardinality(S)
           q == InOrder(S)
<1>1. N \in Nat /\ q \in [1 .. N -> S]
  BY InOrderIs
<1> HIDE DEF N
<1>2. PICK w : Resolving!Steps(w, N, m, q)
  BY <1>1, Resolving!FoldSteps
<1>3. ResolvedAll(m, S) = Resolving!FoldOver(m, q)
  BY DEF ResolvedAll, Resolving!FoldOver, Resolving!Largest, FoldLeft, MapThenFoldSet, Max
<1> HIDE DEF q
<1>4. /\ w[0] = m
      /\ \A d \in 0 .. N - 1 : w[d + 1] = Resolved(w[d], q[d + 1])
      /\ w[N] = ResolvedAll(m, S)
  BY <1>2, <1>3 DEF Resolving!Steps
<1> DEFINE Good(d) == Current(checkout, records, w[d]) /\ Reads(m, w[d])
           Z == {d \in 0 .. N : Good(d)}
<1>5. 0 \in Z
  BY <1>1, <1>4 DEF Reads
<1>6. ASSUME NEW d \in 0 .. N - 1, d \in Z PROVE d + 1 \in Z
  <2>1. d + 1 \in 0 .. N
    BY <1>1
  <2>2. w[d + 1] = Resolved(w[d], q[d + 1])
    BY <1>4
  <2>3. Good(d)
    BY <1>6
  <2>4. PICK v, e : v = w[d] /\ e = q[d + 1]
    OBVIOUS
  <2>5. Current(checkout, records, Resolved(v, e)) /\ Reads(v, Resolved(v, e))
    BY <2>3, <2>4, ResolvedCurrent
  <2>6. Reads(m, Resolved(v, e))
    BY <2>3, <2>4, <2>5, ReadsOn
  <2>8. Good(d + 1)
    BY <2>2, <2>4, <2>5, <2>6
  <2> HIDE DEF Good
  <2> QED
    BY <2>1, <2>8
<1> HIDE DEF Z, Good
<1>7. 0 .. N \subseteq Z
  BY <1>1, <1>5, <1>6, UpTo
<1>8. Good(N)
  BY <1>1, <1>7 DEF Z
<1> QED
  BY <1>4, <1>8 DEF Good


-----------------------------------------------------------------------------
(* The invariant.                                                          *)

BatchInv == StoreInv /\ Current(checkout, records, memo)

\* No chain of verdicts is longer than dm follows one.
ChainsEnd == Ends(LandedBindings(records))

LEMMA FreshIs ==
  ASSUME StoreInv
  PROVE  Fresh \in Nat /\ \A x \in records : x.id < Fresh
<1> DEFINE I == {x.id : x \in records}
           J == {0} \cup I
           h == [x \in records |-> x.id]
<1>1. I \in SUBSET Nat /\ h \in [records -> I] /\ \A y \in I : \E x \in records : h[x] = y
  BY DEF StoreInv
<1>a. \A x \in records : x.id \in J
  OBVIOUS
<1> HIDE DEF I, h
<1>2. IsFiniteSet(I)
  BY <1>1, ImageIsFinite DEF StoreInv
<1>3. IsFiniteSet(J) /\ J \in SUBSET Nat /\ J # {}
  <2>1. IsFiniteSet(I \cup {0})
    BY <1>2, FS_AddElement
  <2>2. J = I \cup {0}
    OBVIOUS
  <2>3. J \in SUBSET Nat /\ J # {}
    BY <1>1
  <2> QED
    BY <2>1, <2>2, <2>3
<1>4. Fresh = Max(J) + 1
  BY DEF Fresh, I
<1> HIDE DEF J
<1>5. Max(J) \in J /\ \A y \in J : Max(J) >= y
  BY <1>3, GreatestIs
<1>6. PICK n \in Nat : n = Max(J)
  BY <1>3, <1>5
<1>7. \A x \in records : x.id \in Nat /\ x.id <= n
  BY <1>a, <1>3, <1>5, <1>6 DEF StoreInv
<1>8. Fresh = n + 1
  BY <1>4, <1>6
<1> QED
  BY <1>7, <1>8

\* A record with a new id joins the others.
LEMMA StoreGrows ==
  ASSUME StoreInv, NEW x, x.id \in Nat, \A y \in records : y.id # x.id,
         records' = records \cup {x}, UNCHANGED checkout
  PROVE  StoreInv'
<1>1. IsFiniteSet(records \cup {x})
  BY FS_AddElement DEF StoreInv
<1> QED
  BY <1>1 DEF StoreInv, checkout

\* A command that knows m and commits x.
LEMMA AbsorbKeeps ==
  ASSUME StoreInv, NEW m, Current(checkout, records, m), NEW x, x.id = Fresh, Absorb(m, x)
  PROVE  BatchInv'
<1>1. records' = records \cup {x} /\ memo' = Forget(m, x) /\ checkout' = checkout
  BY DEF Absorb, checkout
<1>2. StoreInv'
  <2>1. x.id \in Nat /\ \A y \in records : y.id # x.id
    BY FreshIs DEF StoreInv
  <2> QED
    BY <1>1, <2>1, StoreGrows
<1>3. PICK c, R, n : c = checkout /\ R = records /\ n = Forget(m, x)
  OBVIOUS
<1>4. Current(c, R \cup {x}, n)
  BY <1>3, ForgottenEnough
<1>5. c = checkout' /\ R \cup {x} = records' /\ n = memo'
  BY <1>1, <1>3
<1>6. Current(checkout', records', memo')
  BY <1>4, <1>5
<1> QED
  BY <1>2, <1>6 DEF BatchInv, checkout

\* Reading alone.
LEMMA ReadingKeeps ==
  ASSUME StoreInv, NEW m, Current(checkout, records, m), memo' = m, UNCHANGED <<checkout, records>>
  PROVE  BatchInv'
<1>1. records' = records /\ checkout' = checkout
  BY DEF checkout
<1>2. StoreInv'
  BY DEF StoreInv, checkout
<1>3. PICK c, R : c = checkout /\ R = records
  OBVIOUS
<1>4. c = checkout' /\ R = records' /\ m = memo'
  BY <1>1, <1>3
<1>5. Current(checkout', records', memo')
  BY <1>3, <1>4
<1> QED
  BY <1>2, <1>5 DEF BatchInv, checkout

\* What u, k and rm of a note do, and what they know then.
LEMMA RepairIs ==
  ASSUME BatchInv, ChainsEnd, NEW S \in Handles, Repair(HasRead(S), S)
  PROVE  \E m, e : /\ Current(checkout, records, m)
                   /\ e \in DOMAIN m.folded /\ ~m.folded[e].deleted
                   /\ \/ Tombstone(m, e)
                      \/ \E kind \in {"SU", "RA"} : \E p : Exists(p) /\ Repairs(m, kind, e, p)
<1>1. PICK m : m = HasRead(S)
  OBVIOUS
<1>2. Current(checkout, records, m) /\ S \cap Known \subseteq DOMAIN m.folded
  <2>1. S \cap Known \in SUBSET Known
    OBVIOUS
  <2> QED
    BY <1>1, <2>1, FoldedAllCurrent DEF HasRead, BatchInv, ChainsEnd
<1>3. PICK e \in S :
        /\ Addressed(m, S, TRUE) = {e}
        /\ \/ Tombstone(m, e)
           \/ \E p \in Places : ReAnchorAt(m, e, p)
           \/ Present(m.folded[e]) /\ \E kind \in {"SU", "RA"} : Restamp(kind, Resolved(m, e), e)
  BY <1>1 DEF Repair
<1>4. e \in DOMAIN m.folded /\ ~m.folded[e].deleted
  BY <1>2, <1>3 DEF Addressed
<1>5. CASE Tombstone(m, e)
  BY <1>2, <1>4, <1>5
<1>6. CASE \E p \in Places : ReAnchorAt(m, e, p)
  <2>1. PICK p \in Places : Exists(p) /\ Repairs(m, "RA", e, p)
    BY <1>6 DEF ReAnchorAt
  <2> QED
    BY <1>2, <1>4, <2>1
<1>7. CASE \E kind \in {"SU", "RA"} : Restamp(kind, Resolved(m, e), e)
  <2>1. PICK kind \in {"SU", "RA"} : Restamp(kind, Resolved(m, e), e)
    BY <1>7
  <2>2. PICK n : n = Resolved(m, e)
    OBVIOUS
  <2>3. Restamp(kind, n, e)
    BY <2>1, <2>2
  <2>4. PICK p : Exists(p) /\ Repairs(n, kind, e, p)
    BY <2>3 DEF Restamp
  <2>5. Current(checkout, records, n) /\ e \in DOMAIN n.folded
    BY <1>2, <2>2, ResolvedCurrent DEF BatchInv, ChainsEnd
  <2>6. n.folded[e] = m.folded[e]
    BY <1>2, <1>4, <2>5 DEF Current
  <2> QED
    BY <1>4, <2>4, <2>5, <2>6
<1> QED
  BY <1>3, <1>5, <1>6, <1>7

LEMMA SeenIs ==
  ASSUME StoreInv, ChainsEnd, NEW m, Current(checkout, records, m), NEW S
  PROVE  Current(checkout, records, HasSeen(m, S))
<1>1. S \cap Known \in SUBSET Known
  OBVIOUS
<1> QED
  BY <1>1, ResolvedAllCurrent DEF HasSeen, ChainsEnd

LEMMA CommandKeeps ==
  ASSUME BatchInv, ChainsEnd, Command
  PROVE  BatchInv'
<1>0. PICK m : m = memo
  OBVIOUS
<1>1. StoreInv /\ Current(checkout, records, m)
  BY <1>0 DEF BatchInv
<1>2. ASSUME NEW e \in Entry, NEW p \in Places, Create(e, p) PROVE BatchInv'
  <2>1. PICK x : x = Stamp("CR", e, p)
    OBVIOUS
  <2>2. x.id = Fresh
    BY <2>1 DEF Stamp, Rec
  <2>3. Absorb(m, x)
    BY <1>0, <1>2, <2>1 DEF Create, Commits
  <2> QED
    BY <1>1, <2>2, <2>3, AbsorbKeeps
<1>3. ASSUME NEW S \in Handles, Repair(HasRead(S), S) PROVE BatchInv'
  <2>1. PICK n, e : /\ Current(checkout, records, n)
                    /\ \/ Tombstone(n, e)
                       \/ \E kind \in {"SU", "RA"} : \E p : Exists(p) /\ Repairs(n, kind, e, p)
    BY <1>3, RepairIs
  <2>2. CASE Tombstone(n, e)
    <3>1. PICK x : x = Rec("TB", e)
      OBVIOUS
    <3>2. x.id = Fresh
      BY <3>1 DEF Rec
    <3>3. Absorb(n, x)
      BY <2>2, <3>1 DEF Tombstone, Commits
    <3> QED
      BY <1>1, <2>1, <3>2, <3>3, AbsorbKeeps
  <2>3. CASE \E kind \in {"SU", "RA"} : \E p : Exists(p) /\ Repairs(n, kind, e, p)
    <3>a. PICK kind \in {"SU", "RA"} : \E p : Repairs(n, kind, e, p)
      BY <2>3
    <3>1. PICK p : Repairs(n, kind, e, p)
      BY <3>a
    <3>2. PICK x : x = Stamp(kind, e, p)
      OBVIOUS
    <3>3. x.id = Fresh
      BY <3>2 DEF Stamp, Rec
    <3>4. Absorb(n, x)
      BY <3>1, <3>2 DEF Repairs
    <3> QED
      BY <1>1, <2>1, <3>3, <3>4, AbsorbKeeps
  <2> QED
    BY <2>1, <2>2, <2>3
<1>4. ASSUME NEW S \in Handles, Feedback(HasSeen(memo, S), S) PROVE BatchInv'
  <2>1. PICK n : n = HasSeen(memo, S)
    OBVIOUS
  <2>2. Current(checkout, records, n)
    BY <1>0, <1>1, <2>1, SeenIs
  <2>3. PICK e \in S : Commits(n, Rec("FB", e))
    BY <1>4, <2>1 DEF Feedback
  <2>4. PICK x : x = Rec("FB", e)
    OBVIOUS
  <2>5. x.id = Fresh /\ Absorb(n, x)
    BY <2>3, <2>4 DEF Rec, Commits
  <2> QED
    BY <1>1, <2>2, <2>5, AbsorbKeeps
<1>5. ASSUME NEW S \in Handles, NEW T \in Handles,
             LET n == HasSeen(HasSeen(memo, S), T)
             IN  Link(n, S, T) \/ Unlink(WithLinks(n), S, T)
      PROVE  BatchInv'
  <2>1. PICK k : k = HasSeen(m, S)
    OBVIOUS
  <2>2. PICK n : n = HasSeen(k, T)
    OBVIOUS
  <2>3. Current(checkout, records, k)
    BY <1>1, <2>1, SeenIs
  <2>4. Current(checkout, records, n)
    BY <1>1, <2>2, <2>3, SeenIs
  <2>5. PICK l : l = WithLinks(n)
    OBVIOUS
  <2>6. Current(checkout, records, l)
    BY <2>4, <2>5, WithLinksCurrent
  <2>7. Link(n, S, T) \/ Unlink(l, S, T)
    BY <1>0, <1>5, <2>1, <2>2, <2>5
  <2>8. CASE Link(n, S, T)
    <3>1. PICK d, e : Commits(n, [Rec("LN", d) EXCEPT !.to = e])
      BY <2>8 DEF Link
    <3>2. PICK x : x = [Rec("LN", d) EXCEPT !.to = e]
      OBVIOUS
    <3>3. x.id = Fresh /\ Absorb(n, x)
      BY <3>1, <3>2 DEF Rec, Commits
    <3> QED
      BY <1>1, <2>4, <3>3, AbsorbKeeps
  <2>9. CASE Unlink(l, S, T)
    <3>1. PICK d, e : Commits(l, [Rec("UL", d) EXCEPT !.to = e])
      BY <2>9 DEF Unlink
    <3>2. PICK x : x = [Rec("UL", d) EXCEPT !.to = e]
      OBVIOUS
    <3>3. x.id = Fresh /\ Absorb(l, x)
      BY <3>1, <3>2 DEF Rec, Commits
    <3> QED
      BY <1>1, <2>6, <3>3, AbsorbKeeps
  <2> QED
    BY <2>7, <2>8, <2>9
<1>6. ASSUME NEW o, NEW as, Verdict(o, as) PROVE BatchInv'
  <2>1. PICK x : x = [Rec("VD", None) EXCEPT !.origin = o, !.as = as]
    OBVIOUS
  <2>2. x.id = Fresh
    BY <2>1 DEF Rec
  <2>3. Absorb(m, x)
    BY <1>0, <1>6, <2>1 DEF Verdict, Commits
  <2> QED
    BY <1>1, <2>2, <2>3, AbsorbKeeps
<1>7. ASSUME NEW verb, NEW p, NEW q, Macro(FoldedAll(memo, Known), verb, p, q) PROVE BatchInv'
  <2>1. PICK n : n = FoldedAll(memo, Known)
    OBVIOUS
  <2>2. Current(checkout, records, n)
    BY <1>0, <1>1, <2>1, FoldedAllCurrent DEF ChainsEnd
  <2>3. memo' = n /\ UNCHANGED <<checkout, records>>
    BY <1>7, <2>1 DEF Macro
  <2> QED
    BY <1>1, <2>2, <2>3, ReadingKeeps
<1> QED
  BY <1>2, <1>3, <1>4, <1>5, <1>6, <1>7 DEF Command

LEMMA BatchStep ==
  ASSUME BatchInv, ChainsEnd, [Next]_vars
  PROVE  BatchInv'
<1>0. PICK m : m = memo
  OBVIOUS
<1>1. StoreInv /\ Current(checkout, records, m)
  BY <1>0 DEF BatchInv
<1>2. ASSUME Look PROVE BatchInv'
  <2>1. UNCHANGED <<checkout, records>>
    BY <1>2 DEF Look
  <2>2. CASE memo' = WithLinks(ResolvedAll(memo, Known))
    <3>1. PICK k : k = ResolvedAll(memo, Known)
      OBVIOUS
    <3>2. PICK n : n = WithLinks(k)
      OBVIOUS
    <3>3. Current(checkout, records, k)
      BY <1>0, <1>1, <3>1, ResolvedAllCurrent DEF ChainsEnd
    <3>4. Current(checkout, records, n)
      BY <3>2, <3>3, WithLinksCurrent
    <3>5. memo' = n
      BY <2>2, <3>1, <3>2
    <3> QED
      BY <1>1, <2>1, <3>4, <3>5, ReadingKeeps
  <2>3. CASE memo' = Classed(memo, SetToSeq(NoteOrigins({r \in records : ~Tombstoned(records, r.entry)})))
    <3> DEFINE R == {r \in records : ~Tombstoned(records, r.entry)}
               K == {k \in R : k.kind \in Note \cup Mark}
               O == NoteOrigins(R)
               h == [k \in K |-> k.origin]
    <3>1. IsFiniteSet(O)
      <4>1. K \in SUBSET records
        OBVIOUS
      <4>2. IsFiniteSet(K)
        BY <1>1, <4>1, FS_Subset DEF StoreInv
      <4>3. O = {k.origin : k \in K}
        BY DEF NoteOrigins
      <4>4. h \in [K -> O] /\ \A x \in O : \E p \in K : h[p] = x
        BY <4>3
      <4> HIDE DEF K, O, h
      <4> QED
        BY <4>2, <4>4, ImageIsFinite
    <3>2. PICK n : n = Classed(m, SetToSeq(O))
      OBVIOUS
    <3> HIDE DEF O
    <3>3. Cardinality(O) \in Nat /\ SetToSeq(O) \in [1 .. Cardinality(O) -> O]
      BY <3>1, SetToSeqIs
    <3>4. DOMAIN SetToSeq(O) = 1 .. Cardinality(O)
      BY <3>3
    <3>5. Current(checkout, records, n)
      BY <1>1, <3>2, <3>3, <3>4, ClassedCurrent DEF ChainsEnd
    <3>6. memo' = n
      BY <1>0, <2>3, <3>2 DEF O
    <3> QED
      BY <1>1, <2>1, <3>5, <3>6, ReadingKeeps
  <2> QED
    BY <1>2, <2>2, <2>3 DEF Look
<1>3. ASSUME MacroStep PROVE BatchInv'
  <2>1. PICK l \in last :
          LET e == Head(l.todo)
              to == Destination(HintOf(memo.folded[e]), l.old, l.new)
          IN  CASE l.verb = "rm" -> Absorb(memo, Rec("TB", e))
                [] l.verb = "mv" /\ Exists(to) ->
                     Absorb(memo, [Rec("RP", e) EXCEPT !.origin = Here, !.path = to])
                [] OTHER -> UNCHANGED <<checkout, records, memo>>
    BY <1>3 DEF MacroStep
  <2>2. PICK e, to : e = Head(l.todo) /\ to = Destination(HintOf(memo.folded[e]), l.old, l.new)
    OBVIOUS
  <2>3. \/ Absorb(m, Rec("TB", e))
        \/ Absorb(m, [Rec("RP", e) EXCEPT !.origin = Here, !.path = to])
        \/ memo' = m /\ UNCHANGED <<checkout, records>>
    BY <1>0, <2>1, <2>2
  <2>4. ASSUME NEW x, x \in {Rec("TB", e), [Rec("RP", e) EXCEPT !.origin = Here, !.path = to]},
               Absorb(m, x)
        PROVE  BatchInv'
    <3>1. Rec("TB", e).id = Fresh /\ [Rec("RP", e) EXCEPT !.origin = Here, !.path = to].id = Fresh
      BY DEF Rec
    <3>2. x.id = Fresh
      BY <2>4, <3>1
    <3> QED
      BY <1>1, <2>4, <3>2, AbsorbKeeps
  <2>5. CASE Absorb(m, Rec("TB", e))
    <3>1. PICK x : x = Rec("TB", e)
      OBVIOUS
    <3> QED
      BY <2>4, <2>5, <3>1
  <2>6. CASE Absorb(m, [Rec("RP", e) EXCEPT !.origin = Here, !.path = to])
    <3>1. PICK x : x = [Rec("RP", e) EXCEPT !.origin = Here, !.path = to]
      OBVIOUS
    <3> QED
      BY <2>4, <2>6, <3>1
  <2>7. CASE memo' = m /\ UNCHANGED <<checkout, records>>
    BY <1>1, <2>7, ReadingKeeps
  <2> QED
    BY <2>3, <2>5, <2>6, <2>7
<1>4. ASSUME NextBatch PROVE BatchInv'
  <2>1. memo' = NothingKnown /\ checkout' = checkout
    BY <1>4 DEF NextBatch, checkout
  <2>2. Current(checkout', records', memo')
    <3>1. PICK c, R, n : c = checkout' /\ R = records' /\ n = NothingKnown
      OBVIOUS
    <3>2. Current(c, R, n)
      BY <3>1, NothingIsCurrent
    <3> QED
      BY <2>1, <3>1, <3>2
  <2>3. StoreInv'
    <3>1. CASE UNCHANGED records
      BY <1>1, <2>1, <3>1 DEF StoreInv, checkout
    <3>2. CASE \E x \in Record : records' = AddAbsent(records, {x})
      <4>1. PICK x \in Record : records' = AddAbsent(records, {x})
        BY <3>2
      <4>2. x.id \in Nat
        BY RecordAssumption
      <4>3. CASE x.id \in Ids(records)
        <5>1. records' = records
          BY <4>1, <4>3 DEF AddAbsent
        <5> QED
          BY <1>1, <2>1, <5>1 DEF StoreInv, checkout
      <4>4. CASE x.id \notin Ids(records)
        <5>1. records' = records \cup {x} /\ \A y \in records : y.id # x.id
          BY <4>1, <4>4 DEF AddAbsent, Ids
        <5> QED
          BY <1>1, <2>1, <4>2, <5>1, StoreGrows
      <4> QED
        BY <4>3, <4>4
    <3> QED
      BY <1>4, <3>1, <3>2 DEF NextBatch
  <2> QED
    BY <2>2, <2>3 DEF BatchInv, checkout
<1>5. CASE UNCHANGED vars
  <2>1. memo' = m /\ UNCHANGED <<checkout, records>>
    BY <1>0, <1>5 DEF vars, checkout
  <2> QED
    BY <1>1, <2>1, ReadingKeeps
<1> QED
  BY <1>2, <1>3, <1>4, <1>5, CommandKeeps DEF Next

LEMMA BatchInit == Init => BatchInv
<1> SUFFICES ASSUME Init PROVE BatchInv
  OBVIOUS
<1>1. PICK s \in Start : ancestors = s.ancestors /\ records = s.records
  BY DEF Init
<1>2. Here \in ancestors /\ records \subseteq Record /\ IsFiniteSet(records)
  BY <1>1, CommandsAssumption
<1>3. StoreInv
  BY <1>2, RecordAssumption, UniqueIds DEF StoreInv
<1>4. Current(checkout, records, memo)
  <2>1. memo = NothingKnown
    BY DEF Init
  <2> QED
    BY <2>1, NothingIsCurrent
<1> QED
  BY <1>3, <1>4 DEF BatchInv

\* While dm follows all chains of verdicts to their ends, a batch knows what
\* there is to know, after whatever commands, macros, looks and deaths.
THEOREM BatchInvariant == Spec /\ []ChainsEnd => []BatchInv
<1>1. BatchInv /\ ChainsEnd /\ [Next]_vars => BatchInv'
  BY BatchStep
<1> QED
  BY BatchInit, <1>1, PTL DEF Spec

\* What the executor remembers of an origin is what a classification of it alone
\* says: whatever it was asked for with, and whatever verdicts came in between.
THEOREM OriginsStayCurrent == Spec /\ []ChainsEnd => []OriginsCurrent
<1>1. BatchInv => OriginsCurrent
  BY CurrentIs DEF BatchInv
<1> QED
  BY BatchInvariant, <1>1, PTL

\* absorb forgets enough: what the executor remembers of an entry's reading and
\* place, and of the links, is what it would fold and resolve now.
THEOREM ReadingsStayCurrent == Spec /\ []ChainsEnd => []ReadingsCurrent
<1>1. BatchInv => ReadingsCurrent
  BY CurrentIs DEF BatchInv
<1> QED
  BY BatchInvariant, <1>1, PTL

-----------------------------------------------------------------------------
(* What is repaired.                                                       *)

LEMMA OnlyIs ==
  ASSUME NEW x
  PROVE  Only({x}) = x
BY DEF Only

\* HEAD has landed, whatever the verdicts say.
LEMMA HereLanded ==
  ASSUME NEW c, NEW R, Here \in c[1]
  PROVE  StateIn(c, R, Here) = "landed"
<1> DEFINE b == LandedBindings(R)
           w == Chain(b, Here)
<1>1. 1 \in DOMAIN w /\ w[1] = Here
  BY ChainIs
<1>2. Closure(b, <<Here>>) = {w[i] : i \in DOMAIN w}
  BY ClosureOfOne
<1>3. \E i \in DOMAIN w : w[i] \in c[1] \cap Closure(b, <<Here>>)
  BY <1>1, <1>2
<1>4. Here \in {<<Here>>[i] : i \in DOMAIN <<Here>>}
  <2>1. 1 \in DOMAIN <<Here>> /\ <<Here>>[1] = Here
    OBVIOUS
  <2> QED
    BY <2>1
<1> HIDE DEF w, b
<1>5. Classify(b, c[3], c[1], c[2], <<Here>>)[Here] = "landed"
  BY <1>3, <1>4 DEF Classify, w
<1> QED
  BY <1>5 DEF StateIn, b

\* The path that ends with x after the first segments of q.
Upto(q, i, x) == Append(SubSeq(q, 1, i), x)

\* q is below what ends with x.
Below(q, p, x) == IsPrefix(Front(p), q) /\ Front(p) # q /\ Append(Front(p), x) = p

LEMMA FolderPath ==
  ASSUME NEW q, q \in Seq(STRING) /\ q # <<>>, NEW i, i \in 0 .. Len(q) - 1, NEW x
  PROVE  Below(q, Upto(q, i, x), x)
<1>0. PICK p : p = Append(SubSeq(q, 1, i), x)
  OBVIOUS
<1> DEFINE s == SubSeq(q, 1, i)
<1>1. PICK n \in Nat : n = Len(q)
  OBVIOUS
<1>2. i \in 0 .. n /\ i < n
  BY <1>1
<1>3. s \in Seq(STRING) /\ Len(s) = i
  BY <1>1, <1>2
<1>4. SubSeq(s, 1, i) = s
  BY <1>1, <1>2, <1>3
<1>5. s # q
  BY <1>1, <1>2, <1>3
<1>6. Front(p) = s
  <2>1. \A r \in Seq(STRING) : Len(r) = i => SubSeq(Append(r, x), 1, i) = r /\ Len(Append(r, x)) = i + 1
    BY <1>1, <1>2
  <2>2. Len(p) - 1 = i
    BY <1>0, <1>1, <1>2, <1>3, <2>1
  <2> QED
    BY <1>0, <1>3, <2>1, <2>2 DEF Front
<1>7. IsPrefix(s, q)
  BY <1>1, <1>2, <1>3, <1>4 DEF IsPrefix
<1> HIDE DEF s
<1>8. Append(Front(p), x) = p
  BY <1>0, <1>6 DEF s
<1> QED
  BY <1>0, <1>5, <1>6, <1>7, <1>8 DEF Below, Upto

\* A folder there is has a file below it.
LEMMA FolderExists ==
  ASSUME NEW p, Exists(p), IsFolder(p)
  PROVE  /\ Resolver!Under(DOMAIN tree, Front(p)) # {}
         /\ Append(Front(p), "") = p
<1>1. PICK end : end = ""
  BY Zenon
<1>2. \A q \in DOMAIN tree : q \in Seq(STRING) /\ q # <<>> /\ Last(q) # end
  BY <1>1, CheckoutAssumption, Zenon DEF tree
<1>3. Last(p) = end
  BY <1>1, Zenon DEF IsFolder
<1>4. PICK q \in DOMAIN tree : p \in {Append(SubSeq(q, 1, i), end) : i \in 0 .. Len(q) - 1}
  BY <1>1, <1>2, <1>3, Zenon DEF Exists
<1>5. PICK i \in 0 .. Len(q) - 1 : p = Append(SubSeq(q, 1, i), end)
  BY <1>4
<1>a. q \in Seq(STRING) /\ q # <<>>
  BY <1>2, <1>4
<1>b. i \in 0 .. Len(q) - 1
  BY <1>5
<1>c. Below(q, Upto(q, i, end), end)
  BY <1>a, <1>b, FolderPath
<1>6. IsPrefix(Front(p), q) /\ Front(p) # q /\ Append(Front(p), end) = p
  BY <1>5, <1>c, Zenon DEF Below, Upto
<1>7. q \in Resolver!Under(DOMAIN tree, Front(p))
  BY <1>4, <1>6 DEF Resolver!Under, Resolver!IsStrictPrefix, Resolver!IsPrefix, IsPrefix
<1> QED
  BY <1>1, <1>6, <1>7, Zenon

\* A path that is no folder's is a file's.
LEMMA FileExists ==
  ASSUME NEW p, Exists(p), ~IsFolder(p)
  PROVE  p \in DOMAIN tree
<1>1. ASSUME NEW q, NEW i, i \in 0 .. Len(q) - 1, NEW end, p = Append(SubSeq(q, 1, i), end),
             q \in Seq(STRING)
      PROVE  Last(p) = end
  <2>1. PICK n \in Nat : n = Len(q)
    BY <1>1
  <2>2. SubSeq(q, 1, i) \in Seq(STRING)
    BY <1>1, <2>1
  <2>3. PICK s \in Seq(STRING) : s = SubSeq(q, 1, i)
    BY <2>2
  <2>4. Last(Append(s, end)) = end
    BY DEF Last
  <2> QED
    BY <1>1, <2>3, <2>4
<1>2. \A q \in DOMAIN tree : q \in Seq(STRING)
  BY CheckoutAssumption DEF tree
<1> QED
  BY <1>1, <1>2, Zenon DEF Exists, IsFolder

\* What is stamped with what the checkout has at p, and is on p, is fresh there.
LEMMA PlacedIs ==
  ASSUME NEW p, Exists(p), NEW x, x.path = p, x.origin = Here,
         ~IsFolder(p) => x.blob = tree[p],
         NEW now, now.anchor = {x}, now.path = {x}
  PROVE  Resolution(now).state = "fresh" /\ Resolution(now).home = {p}
<1>1. Only(now.anchor) = x /\ HintOf(now) = p
  BY OnlyIs DEF HintOf
<1>2. PICK pairs : pairs = Renamed(Trees[Here])
  OBVIOUS
<1>3. CASE IsFolder(p)
  <2> DEFINE note == [folder |-> TRUE, path |-> Front(p), anchor |-> Front(p),
                      pinned |-> x.kind = "RP", origin |-> {Trees[Here]}, atHand |-> TRUE]
             res == Resolver!Resolution(note, tree, tree, pairs)
  <2>1. res = Resolver!At("fresh", 1, Front(p))
    <3>1. note.folder /\ note.path = Front(p)
      OBVIOUS
    <3>2. Resolver!Under(DOMAIN tree, note.path) # {}
      BY <1>3, <3>1, FolderExists
    <3>3. res = Resolver!FolderResolution(note, tree, tree, pairs)
      BY <3>1, Zenon DEF Resolver!Resolution
    <3> HIDE DEF note
    <3> QED
      BY <3>1, <3>2, <3>3 DEF Resolver!FolderResolution
  <2>2. Resolution(now) = [res EXCEPT !.home = {Append(h, "") : h \in @}]
    BY <1>1, <1>2, <1>3, Zenon DEF Resolution, Only, HintOf
  <2>3. Append(Front(p), "") = p
    BY <1>3, FolderExists
  <2> HIDE DEF res
  <2>4. PICK end : end = ""
    BY Zenon
  <2>5. PICK r : r = Resolution(now)
    OBVIOUS
  <2>6. r = [res EXCEPT !.home = {Append(h, end) : h \in @}] /\ Append(Front(p), end) = p
    BY <2>2, <2>3, <2>4, <2>5, Zenon
  <2>7. r.state = "fresh" /\ r.home = {p}
    BY <2>1, <2>6 DEF Resolver!At
  <2> QED
    BY <2>5, <2>7, Zenon
<1>4. CASE ~IsFolder(p)
  <2> DEFINE note == [folder |-> IsFolder(p), path |-> p, anchor |-> x.blob,
                      pinned |-> x.kind = "RP", origin |-> {Trees[Here]}, atHand |-> TRUE]
             res == Resolver!Resolution(note, tree, tree, pairs)
  <2>1. p \in DOMAIN tree
    BY <1>4, FileExists
  <2>2. res = Resolver!At("fresh", 1, p)
    <3>1. ~note.folder /\ note.path = p /\ note.anchor = tree[p]
      BY <1>4, Zenon
    <3>2. res = Resolver!FileResolution(note, tree, pairs)
      BY <3>1, Zenon DEF Resolver!Resolution
    <3> HIDE DEF note
    <3>3. p \in {q \in DOMAIN tree : tree[q] = note.anchor}
      BY <2>1, <3>1
    <3> QED
      BY <3>1, <3>2, <3>3 DEF Resolver!FileResolution
  <2>3. Resolution(now) = [res EXCEPT !.home = @]
    BY <1>1, <1>2, <1>4, Zenon DEF Resolution, Only, HintOf
  <2> HIDE DEF res
  <2>4. PICK r : r = Resolution(now)
    OBVIOUS
  <2>5. r.state = "fresh" /\ r.home = {p}
    BY <2>2, <2>3, <2>4 DEF Resolver!At
  <2> QED
    BY <2>4, <2>5, Zenon
<1> QED
  BY <1>3, <1>4

\* A note with a landed body has a newest one.
LEMMA NewestIs ==
  ASSUME StoreInv, NEW S \in SUBSET records, S # {}
  PROVE  NewestOf(S) # {}
<1> DEFINE I == {r.id : r \in S}
           h == [r \in S |-> r.id]
<1>1. IsFiniteSet(S) /\ \A r \in S : r.id \in Nat
  BY FS_Subset DEF StoreInv
<1>2. I \in SUBSET Nat /\ I # {} /\ h \in [S -> I] /\ \A y \in I : \E r \in S : h[r] = y
  BY <1>1
<1> HIDE DEF h
<1>3. IsFiniteSet(I)
  <2> HIDE DEF I
  <2> QED
    BY <1>1, <1>2, ImageIsFinite
<1>4. Max(I) \in I /\ \A y \in I : Max(I) >= y
  <2> HIDE DEF I
  <2> QED
    BY <1>2, <1>3, GreatestIs
<1>5. PICK x \in S : x.id = Max(I)
  BY <1>4
<1>6. \A q \in S : q.id <= x.id
  BY <1>1, <1>4, <1>5
<1> QED
  BY <1>5, <1>6 DEF NewestOf

\* A body that has landed stays, as seen from c with the records R.
KeepsIn(c, R, was, now) ==
  \A b \in was.body : StateIn(c, R, b.origin) = "landed" => now.body = {b}

\* What a reading says, part by part.
Says(now, R, e, L) ==
  /\ now.deleted <=> Tombstoned(R, e)
  /\ now.landed <=> NewestLanded(R, e, Note \cup Mark, L) # {}
  /\ now.body = IF NewestLanded(R, e, Note, L) # {} THEN NewestLanded(R, e, Note, L)
                ELSE Rescue(R, e, L)
  /\ now.anchor = IF NewestLanded(R, e, Note \cup {"RA"}, L) # {}
                  THEN NewestLanded(R, e, Note \cup {"RA"}, L) ELSE Rescue(R, e, L)
  /\ now.path = NewestLanded(R, e, Note \cup Mark, L)
  /\ now.disputed <=> \E f \in OfEntry(R, e) :
                        f.kind = "FB" /\ \A g \in NewestLanded(R, e, {"SU", "RA"}, L) : g.id < f.id

LEMMA ReadingSays ==
  ASSUME NEW R, NEW e, NEW L
  PROVE  Says(Reading(R, e, L), R, e, L)
<1> DEFINE d == Tombstoned(R, e)
           l == NewestLanded(R, e, Note \cup Mark, L) # {}
           b == IF NewestLanded(R, e, Note, L) # {} THEN NewestLanded(R, e, Note, L)
                ELSE Rescue(R, e, L)
           a == IF NewestLanded(R, e, Note \cup {"RA"}, L) # {}
                THEN NewestLanded(R, e, Note \cup {"RA"}, L) ELSE Rescue(R, e, L)
           p == NewestLanded(R, e, Note \cup Mark, L)
           v == 1 + Cardinality(LandedOf(R, e, {"SU"}, L))
           q == \E f \in OfEntry(R, e) :
                  f.kind = "FB" /\ \A g \in NewestLanded(R, e, {"SU", "RA"}, L) : g.id < f.id
           now == Reading(R, e, L)
<1>1. now = [deleted |-> d, landed |-> l, body |-> b, anchor |-> a, path |-> p,
             rev |-> v, disputed |-> q]
  BY DEF Reading
<1> HIDE DEF d, l, b, a, p, v, q, now
<1>2. /\ now.deleted = d /\ now.landed = l /\ now.body = b /\ now.anchor = a
      /\ now.path = p /\ now.disputed = q
  BY <1>1
<1> QED
  BY <1>2, Zenon DEF Says, d, l, b, a, p, q, now

\* A new record of a note, written here, is the newest: the reading is what it
\* says.
LEMMA StampedIs ==
  ASSUME StoreInv, NEW e, NEW kind \in {"SU", "RA", "RP"},
         NEW x, x.id = Fresh, x.kind = kind, x.entry = e, x.origin = Here,
         ~Tombstoned(records, e),
         NEW c, c = checkout, NEW now, now = ReadingIn(c, records \cup {x}, e)
  PROVE  /\ Present(now) /\ now.path = {x}
         /\ kind # "RP" => now.anchor = {x} /\ ~now.disputed
         /\ kind # "SU" => KeepsIn(c, records \cup {x}, ReadingIn(c, records, e), now)
<1> DEFINE R == records
           T == R \cup {x}
           L == LandedIn(c, T, e)
           M == LandedIn(c, R, e)
<1>1. /\ x.id = Fresh /\ x.kind = kind /\ x.entry = e /\ x.origin = Here
  OBVIOUS
<1>2. x.id \in Nat /\ \A y \in R : y.id \in Nat /\ y.id < x.id
  BY <1>1, FreshIs DEF StoreInv
<1>3. /\ StateIn(c, T, Here) = "landed" /\ StateIn(c, R, Here) = "landed"
      /\ \A o : StateIn(c, T, o) = StateIn(c, R, o)
  <2>1. Here \in c[1]
    BY DEF StoreInv, checkout
  <2>2. StateIn(c, T, Here) = "landed" /\ StateIn(c, R, Here) = "landed"
    BY <2>1, HereLanded
  <2>3. \A o : StateIn(c, T, o) = StateIn(c, R, o)
    BY <1>1, SameStates
  <2> QED
    BY <2>2, <2>3
<1> HIDE DEF R
<1>4. kind \in Note \cup Mark /\ kind # "VD"
  BY DEF Note, Mark
<1>5. Here \in L
  BY <1>1, <1>3, <1>4 DEF LandedIn, NoteOrigins, OfEntry
<1>6. ASSUME NEW K, kind \in K PROVE NewestLanded(T, e, K, L) = {x}
  <2>1. x \in LandedOf(T, e, K, L)
    BY <1>1, <1>5, <1>6 DEF LandedOf, OfEntry
  <2>2. \A y \in LandedOf(T, e, K, L) : y = x \/ y \in R
    BY DEF LandedOf, OfEntry
  <2>3. \A y \in LandedOf(T, e, K, L) : y.id <= x.id /\ (x.id <= y.id => y = x)
    BY <1>2, <2>2
  <2> HIDE DEF L
  <2> QED
    BY <2>1, <2>3 DEF NewestLanded, NewestOf
<1>7. Says(now, T, e, L)
  BY ReadingSays DEF ReadingIn, R
<1> HIDE DEF L
<1>8. now.path = {x} /\ now.landed
  <2>1. NewestLanded(T, e, Note \cup Mark, L) = {x}
    BY <1>4, <1>6
  <2> QED
    BY <1>7, <2>1 DEF Says
<1>9. ASSUME kind # "RP" PROVE now.anchor = {x}
  <2>1. kind \in Note \cup {"RA"}
    BY <1>9 DEF Note
  <2> QED
    BY <1>6, <1>7, <2>1 DEF Says
<1>10. ~now.deleted
  BY <1>1, <1>7 DEF Says, Tombstoned, OfEntry, R
<1>11. ASSUME kind # "RP" PROVE ~now.disputed
  <2>1. NewestLanded(T, e, {"SU", "RA"}, L) = {x}
    BY <1>6, <1>11
  <2>2. \A f \in OfEntry(T, e) : f.kind = "FB" => f \in R
    BY <1>1 DEF OfEntry
  <2>3. ~ \E f \in OfEntry(T, e) : f.kind = "FB" /\ x.id < f.id
    <3> SUFFICES ASSUME NEW f \in OfEntry(T, e), f.kind = "FB", x.id < f.id PROVE FALSE
      OBVIOUS
    <3>1. f \in R
      BY <2>2
    <3>2. f.id < x.id /\ f.id \in Nat /\ x.id \in Nat
      BY <1>2, <3>1
    <3> QED
      BY <3>2
  <2> QED
    BY <1>7, <2>1, <2>3 DEF Says
<1>12. ASSUME kind # "SU" PROVE KeepsIn(c, T, ReadingIn(c, R, e), now)
  <2> SUFFICES ASSUME NEW b \in ReadingIn(c, R, e).body, StateIn(c, T, b.origin) = "landed"
               PROVE  now.body = {b}
    BY DEF KeepsIn
  <2>1. LandedOf(T, e, Note, L) = LandedOf(R, e, Note, M)
    <3>1. ASSUME NEW r, r.kind \in Note PROVE r \in OfEntry(T, e) <=> r \in OfEntry(R, e)
      BY <1>1, <1>12, <3>1 DEF OfEntry, Note
    <3>2. ASSUME NEW r \in OfEntry(R, e), r.kind \in Note PROVE r.origin \in L <=> r.origin \in M
      BY <1>3, <3>2, <3>1 DEF L, LandedIn, NoteOrigins
    <3> QED
      BY <3>1, <3>2 DEF LandedOf
  <2>2. NewestLanded(T, e, Note, L) = NewestLanded(R, e, Note, M)
    BY <2>1 DEF NewestLanded
  <2> DEFINE N == NewestLanded(R, e, Note, M)
  <2>3. ReadingIn(c, R, e).body = IF N # {} THEN N ELSE Rescue(R, e, M)
    BY ReadingSays DEF ReadingIn, Says
  <2>4. N # {}
    <3>1. b \in OfEntry(R, e) /\ b.kind \in Note
      BY <2>3 DEF NewestLanded, NewestOf, LandedOf, Rescue, Notes
    <3>2. b \in LandedOf(R, e, Note, M)
      BY <1>3, <3>1 DEF LandedOf, LandedIn, NoteOrigins
    <3>3. LandedOf(R, e, Note, M) \in SUBSET records
      BY DEF LandedOf, OfEntry, R
    <3> QED
      BY <3>2, <3>3, NewestIs DEF NewestLanded
  <2>5. N = {b}
    <3>1. \A r, s \in N : r.id <= s.id /\ s.id <= r.id /\ r \in records /\ s \in records
      BY DEF NewestLanded, NewestOf, LandedOf, OfEntry, R
    <3>2. \A r, s \in N : r = s
      BY <3>1 DEF StoreInv
    <3>3. b \in N
      BY <2>3, <2>4
    <3> QED
      BY <3>2, <3>3
  <2>6. now.body = IF NewestLanded(T, e, Note, L) # {} THEN NewestLanded(T, e, Note, L)
                   ELSE Rescue(T, e, L)
    BY <1>7 DEF Says
  <2>7. NewestLanded(T, e, Note, L) = {b}
    BY <2>2, <2>5
  <2> QED
    BY <2>6, <2>7
<1> QED
  BY <1>8, <1>9, <1>10, <1>11, <1>12 DEF Present, R

\* RepairsHeal for one command, as seen from c with the records R.
HealedIn(c, R, l) ==
  \A e \in DOMAIN l.was :
    LET now == ReadingIn(c, R, e)
        at == Resolution(now)
    IN  /\ Present(now) /\ ~now.disputed
        /\ at.state = "fresh" /\ at.home = {l.new}
        /\ l.verb = "RA" => KeepsIn(c, R, l.was[e], now)

\* What was repaired is, and nothing else was begun since.
HealInv ==
  \A l \in last :
    /\ l = [verb |-> l.verb, old |-> l.old, new |-> l.new, todo |-> l.todo,
            cut |-> l.cut, was |-> l.was]
    /\ l.verb \in {"SU", "RA"} =>
         l.todo = <<>> /\ ~l.cut /\ HealedIn(checkout, records, l)

LEMMA HealsIs ==
  ASSUME HealInv
  PROVE  RepairsHeal
<1> SUFFICES ASSUME NEW l \in last, l.verb \in {"SU", "RA"}, NEW e \in DOMAIN l.was
             PROVE  LET now == ReadingOf(e)
                        at == Resolution(now)
                    IN  /\ Present(now) /\ ~now.disputed
                        /\ at.state = "fresh" /\ at.home = {l.new}
                        /\ l.verb = "RA" => KeepsBody(l.was[e], now)
  BY Zenon DEF RepairsHeal
<1>1. HealedIn(checkout, records, l)
  BY DEF HealInv
<1>2. ReadingIn(checkout, records, e) = ReadingOf(e)
  BY InIsOf
<1>3. \A was, now : KeepsIn(checkout, records, was, now) <=> KeepsBody(was, now)
  BY InIsOf DEF KeepsIn, KeepsBody
<1> QED
  BY <1>1, <1>2, <1>3, Zenon DEF HealedIn

\* u and k repair.
LEMMA RepairHeals ==
  ASSUME BatchInv, NEW m, Current(checkout, records, m),
         NEW e \in DOMAIN m.folded, ~m.folded[e].deleted,
         NEW kind \in {"SU", "RA"}, NEW p, Exists(p), Repairs(m, kind, e, p)
  PROVE  HealInv'
<1>1. PICK x : x = Stamp(kind, e, p)
  OBVIOUS
<1>2. PICK c, R : c = checkout /\ R = records
  OBVIOUS
<1>3. PICK T : T = R \cup {x}
  OBVIOUS
<1>4. PICK l : l = [verb |-> kind, old |-> p, new |-> p, todo |-> <<>>, cut |-> FALSE,
                    was |-> [d \in {e} |-> m.folded[d]]]
  OBVIOUS
<1>5. last' = {l} /\ records' = T /\ checkout' = c
  BY <1>1, <1>2, <1>3, <1>4 DEF Repairs, Absorb, checkout
<1>6. m.folded[e] = ReadingIn(c, R, e)
  BY <1>2 DEF Current
<1>7. ~Tombstoned(records, e)
  BY <1>2, <1>6, ReadingSays DEF ReadingIn, Says
<1>8. PICK now : now = ReadingIn(c, T, e)
  OBVIOUS
<1>9. /\ Present(now) /\ ~now.disputed
      /\ now.anchor = {x} /\ now.path = {x}
      /\ kind = "RA" => KeepsIn(c, T, ReadingIn(c, R, e), now)
  <2>1. now = ReadingIn(c, records \cup {x}, e)
    BY <1>2, <1>3, <1>8
  <2>2. x.id = Fresh /\ x.kind = kind /\ x.entry = e /\ x.origin = Here
    BY <1>1 DEF Stamp, Rec
  <2>3. kind \in {"SU", "RA", "RP"} /\ StoreInv
    BY DEF BatchInv
  <2>4. /\ Present(now) /\ now.path = {x}
        /\ kind # "RP" => now.anchor = {x} /\ ~now.disputed
        /\ kind # "SU" => KeepsIn(c, records \cup {x}, ReadingIn(c, records, e), now)
    BY <1>2, <1>7, <2>1, <2>2, <2>3, StampedIs
  <2> QED
    BY <1>2, <1>3, <2>4
<1>10. Resolution(now).state = "fresh" /\ Resolution(now).home = {p}
  <2>1. x.path = p /\ x.origin = Here /\ (~IsFolder(p) => x.blob = tree[p])
    BY <1>1 DEF Stamp, Rec
  <2> QED
    BY <1>9, <2>1, PlacedIs
<1>11. HealedIn(c, T, l)
  <2>1. DOMAIN l.was = {e} /\ l.was[e] = ReadingIn(c, R, e) /\ l.new = p /\ l.verb = kind
    BY <1>4, <1>6
  <2> QED
    BY <1>8, <1>9, <1>10, <2>1 DEF HealedIn
<1>12. /\ l = [verb |-> l.verb, old |-> l.old, new |-> l.new, todo |-> l.todo,
               cut |-> l.cut, was |-> l.was]
       /\ l.todo = <<>> /\ ~l.cut
  BY <1>4
<1>13. \A k \in last' : k = l
  BY <1>5
<1>14. HealedIn(checkout', records', l)
  BY <1>5, <1>11
<1> QED
  BY <1>12, <1>13, <1>14 DEF HealInv

\* What reads only, and what moves or ends nothing that was repaired.
LEMMA HealStays ==
  ASSUME HealInv, last' \in SUBSET last, UNCHANGED <<checkout, records>>
  PROVE  HealInv'
<1>1. PICK c, R : c = checkout /\ R = records /\ c = checkout' /\ R = records'
  BY DEF checkout
<1>2. \A l \in last : HealedIn(checkout, records, l) <=> HealedIn(checkout', records', l)
  BY <1>1
<1> QED
  BY <1>2 DEF HealInv

LEMMA HealCommand ==
  ASSUME BatchInv, ChainsEnd, HealInv, Command
  PROVE  HealInv'
<1>1. ASSUME last' = {} PROVE HealInv'
  BY <1>1 DEF HealInv
<1>2. ASSUME NEW m, NEW x, Commits(m, x) PROVE HealInv'
  BY <1>1, <1>2 DEF Commits
<1>3. ASSUME NEW e \in Entry, NEW p \in Places, Create(e, p) PROVE HealInv'
  BY <1>2, <1>3 DEF Create
<1>4. ASSUME NEW S \in Handles, Repair(HasRead(S), S) PROVE HealInv'
  <2>1. PICK m, e : /\ Current(checkout, records, m)
                    /\ e \in DOMAIN m.folded /\ ~m.folded[e].deleted
                    /\ \/ Tombstone(m, e)
                       \/ \E kind \in {"SU", "RA"} : \E p : Exists(p) /\ Repairs(m, kind, e, p)
    BY <1>4, RepairIs
  <2>2. CASE Tombstone(m, e)
    BY <1>2, <2>2 DEF Tombstone
  <2>3. CASE \E kind \in {"SU", "RA"} : \E p : Exists(p) /\ Repairs(m, kind, e, p)
    <3>1. PICK kind \in {"SU", "RA"} : \E p : Exists(p) /\ Repairs(m, kind, e, p)
      BY <2>3
    <3>2. PICK p : Exists(p) /\ Repairs(m, kind, e, p)
      BY <3>1
    <3> QED
      BY <2>1, <3>2, RepairHeals
  <2> QED
    BY <2>1, <2>2, <2>3
<1>5. ASSUME NEW m, NEW S, Feedback(m, S) PROVE HealInv'
  BY <1>2, <1>5 DEF Feedback
<1>6. ASSUME NEW m, NEW S, NEW T, Link(m, S, T) PROVE HealInv'
  BY <1>2, <1>6 DEF Link
<1>7. ASSUME NEW m, NEW S, NEW T, Unlink(m, S, T) PROVE HealInv'
  BY <1>2, <1>7 DEF Unlink
<1>8. ASSUME NEW o, NEW as, Verdict(o, as) PROVE HealInv'
  BY <1>2, <1>8 DEF Verdict
<1>9. ASSUME NEW m, NEW verb \in {"mv", "rm"}, NEW p, NEW q, Macro(m, verb, p, q) PROVE HealInv'
  <2>1. PICK todo, was : last' = {[verb |-> verb, old |-> p, new |-> q, todo |-> todo,
                                   cut |-> FALSE, was |-> was]}
    BY <1>9 DEF Macro
  <2> QED
    BY <2>1 DEF HealInv
<1> QED
  BY <1>3, <1>4, <1>5, <1>6, <1>7, <1>8, <1>9 DEF Command

LEMMA HealStep ==
  ASSUME BatchInv, ChainsEnd, HealInv, [Next]_vars
  PROVE  HealInv'
<1>1. CASE Look
  BY <1>1, HealStays DEF Look
<1>2. CASE MacroStep
  <2>1. PICK l \in last : l.todo # <<>> /\ last' = {[l EXCEPT !.todo = Tail(@)]}
    BY <1>2 DEF MacroStep
  <2>2. l = [verb |-> l.verb, old |-> l.old, new |-> l.new, todo |-> l.todo,
             cut |-> l.cut, was |-> l.was] /\ l.verb \notin {"SU", "RA"}
    BY <2>1 DEF HealInv
  <2>3. PICK v, o, n, d, c, w : v \notin {"SU", "RA"} /\ l =
           [verb |-> v, old |-> o, new |-> n, todo |-> d, cut |-> c, was |-> w]
    BY <2>2
  <2>4. last' = {[verb |-> v, old |-> o, new |-> n, todo |-> Tail(d), cut |-> c, was |-> w]}
    BY <2>1, <2>3
  <2> QED
    BY <2>3, <2>4 DEF HealInv
<1>3. CASE NextBatch
  <2>1. CASE last' = {}
    BY <2>1 DEF HealInv
  <2>2. CASE last' = {[l EXCEPT !.todo = <<>>, !.cut = TRUE] :
                        l \in {k \in last : k.todo # <<>> \/ k.cut}}
    <3>1. ASSUME NEW k \in last'
          PROVE  /\ k = [verb |-> k.verb, old |-> k.old, new |-> k.new, todo |-> k.todo,
                         cut |-> k.cut, was |-> k.was]
                 /\ k.verb \notin {"SU", "RA"}
      <4>1. PICK l \in last : (l.todo # <<>> \/ l.cut) /\ k = [l EXCEPT !.todo = <<>>, !.cut = TRUE]
        BY <2>2
      <4>2. l = [verb |-> l.verb, old |-> l.old, new |-> l.new, todo |-> l.todo,
                 cut |-> l.cut, was |-> l.was] /\ l.verb \notin {"SU", "RA"}
        BY <4>1 DEF HealInv
      <4> QED
        BY <4>1, <4>2
    <3> QED
      BY <3>1 DEF HealInv
  <2> QED
    BY <1>3, <2>1, <2>2 DEF NextBatch
<1>4. CASE UNCHANGED vars
  BY <1>4, HealStays DEF vars
<1> QED
  BY <1>1, <1>2, <1>3, <1>4, HealCommand DEF Next

\* While dm follows all chains of verdicts to their ends, what u and k repair is
\* repaired: whatever the batch remembered of the note when the command was
\* given, the record it commits is what the note's reading says from then on, at
\* the path it was put, fresh and undisputed, and k leaves a landed body alone.
THEOREM RepairsDoHeal == Spec /\ []ChainsEnd => []RepairsHeal
<1>1. Init => HealInv
  BY DEF Init, HealInv
<1>2. BatchInv /\ ChainsEnd /\ HealInv /\ [Next]_vars => HealInv'
  BY HealStep
<1>3. HealInv => RepairsHeal
  BY HealsIs
<1> QED
  BY BatchInvariant, <1>1, <1>2, <1>3, PTL DEF Spec

-----------------------------------------------------------------------------
(* What is moved.                                                          *)

\* A note is asserted to be on a path of the kind of what it was written about.
KindsAgree ==
  \A e \in Known : LET now == ReadingOf(e)
                   IN  Present(now) => IsFolderNote(now) = IsFolder(HintOf(now))

\* A file note that was asserted to be on a file there is, is seen.
LEMMA AssertedIsSeen ==
  ASSUME NEW note, NEW files, NEW pairs, Resolver!Asserted(note, files)
  PROVE  Resolver!FileResolution(note, files, pairs).state \in {"fresh", "stale", "unconfirmed"}
<1> DEFINE hint == note.path
           copies == {p \in DOMAIN files : files[p] = note.anchor}
           several == Resolver!Cardinality(copies) > 1
           nearest == Resolver!Leader([p \in copies |-> 100], hint)
           score == Resolver!Scores(note, files, pairs)
           best == Resolver!Leader(score, hint)
           decisive == /\ score[best] >= Resolver!AcceptScore
                       /\ \A p \in DOMAIN score \ {best} : score[best] - score[p] >= Resolver!AcceptMargin
           there == Resolver!Asserted(note, files)
           res == Resolver!FileResolution(note, files, pairs)
<1>1. res = CASE hint \in copies -> Resolver!At("fresh", 1, hint)
              [] hint \notin copies /\ copies # {} ->
                   Resolver!At(IF several THEN "unconfirmed" ELSE "fresh", 2, nearest)
              [] copies = {} /\ DOMAIN score # {} ->
                   Resolver!At(IF decisive THEN "stale" ELSE "unconfirmed", 3, best)
              [] copies = {} /\ DOMAIN score = {} /\ there -> Resolver!At("stale", 4, hint)
              [] OTHER -> Resolver!Nowhere("orphaned", 5)
  BY DEF Resolver!FileResolution
<1> HIDE DEF several, nearest, score, best, decisive, there, res
<1>2. there
  BY DEF there
<1>3. ASSUME hint \in copies
      PROVE  res.state \in {"fresh", "stale", "unconfirmed"}
  BY <1>1, <1>3 DEF Resolver!At
<1>4. ASSUME hint \notin copies /\ copies # {}
      PROVE  res.state \in {"fresh", "stale", "unconfirmed"}
  BY <1>1, <1>4 DEF Resolver!At
<1>5. ASSUME copies = {} /\ DOMAIN score # {}
      PROVE  res.state \in {"fresh", "stale", "unconfirmed"}
  BY <1>1, <1>5 DEF Resolver!At
<1>6. ASSUME copies = {} /\ DOMAIN score = {}
      PROVE  res.state \in {"fresh", "stale", "unconfirmed"}
  BY <1>1, <1>2, <1>6 DEF Resolver!At
<1>7. res.state \in {"fresh", "stale", "unconfirmed"}
  <2> HIDE DEF copies
  <2> QED
    BY <1>3, <1>4, <1>5, <1>6
<1> QED
  BY <1>7 DEF res

\* What was put on a path there is, is seen.
LEMMA PutIsSeen ==
  ASSUME NEW p, Exists(p), NEW now, HintOf(now) = p, Only(now.path).kind = "RP",
         IsFolderNote(now) = IsFolder(p)
  PROVE  Resolver!Visible(Resolution(now))
<1>1. PICK anchor : anchor = Only(now.anchor)
  OBVIOUS
<1>2. PICK pairs : pairs = Renamed(Trees[anchor.origin])
  OBVIOUS
<1>3. CASE IsFolder(p)
  <2> DEFINE note == [folder |-> TRUE, path |-> Front(p), anchor |-> Front(anchor.path),
                      pinned |-> TRUE, origin |-> {Trees[anchor.origin]}, atHand |-> TRUE]
             res == Resolver!Resolution(note, tree, tree, pairs)
  <2>1. res = Resolver!At("fresh", 1, Front(p))
    <3>1. note.folder /\ note.path = Front(p)
      OBVIOUS
    <3>2. Resolver!Under(DOMAIN tree, note.path) # {}
      BY <1>3, <3>1, FolderExists
    <3>3. res = Resolver!FolderResolution(note, tree, tree, pairs)
      BY <3>1, Zenon DEF Resolver!Resolution
    <3> HIDE DEF note
    <3> QED
      BY <3>1, <3>2, <3>3 DEF Resolver!FolderResolution
  <2>2. Resolution(now) = [res EXCEPT !.home = {Append(h, "") : h \in @}]
    <3>1. IsFolder(anchor.path)
      BY <1>1, <1>3, Zenon DEF IsFolderNote
    <3> QED
      BY <1>1, <1>2, <1>3, <3>1, Zenon DEF Resolution, HintOf
  <2> HIDE DEF res
  <2>3. \E homes : Resolution(now) = [res EXCEPT !.home = homes]
    BY <2>2, Zenon
  <2>4. PICK r, homes : r = Resolution(now) /\ r = [res EXCEPT !.home = homes]
    BY <2>3, Zenon
  <2>5. r.state = "fresh"
    BY <2>1, <2>4 DEF Resolver!At
  <2> QED
    BY <2>4, <2>5, Zenon DEF Resolver!Visible
<1>4. CASE ~IsFolder(p)
  <2> DEFINE note == [folder |-> IsFolder(anchor.path), path |-> p, anchor |-> anchor.blob,
                      pinned |-> Only(now.path).kind = "RP", origin |-> {Trees[anchor.origin]}, atHand |-> TRUE]
             res == Resolver!Resolution(note, tree, tree, pairs)
  <2>1. p \in DOMAIN tree
    BY <1>4, FileExists
  <2>2. res = Resolver!FileResolution(note, tree, pairs) /\ Resolver!Asserted(note, tree)
    <3>1. ~note.folder /\ note.pinned /\ note.path = p
      BY <1>1, <1>4, Zenon DEF IsFolderNote
    <3> QED
      BY <2>1, <3>1, Zenon DEF Resolver!Resolution, Resolver!Asserted
  <2>3. res.state \in {"fresh", "stale", "unconfirmed"}
    <3> HIDE DEF note
    <3> QED
      BY <2>2, AssertedIsSeen
  <2>4. Resolution(now) = [res EXCEPT !.home = @]
    <3>1. ~IsFolder(anchor.path)
      BY <1>1, <1>4, Zenon DEF IsFolderNote
    <3> QED
      BY <1>1, <1>2, <1>4, <3>1, Zenon DEF Resolution, HintOf
  <2> HIDE DEF res
  <2>5. PICK r : r = Resolution(now)
    OBVIOUS
  <2>6. r.state = res.state
    BY <2>4, <2>5
  <2> QED
    BY <2>3, <2>5, <2>6 DEF Resolver!Visible
<1> QED
  BY <1>3, <1>4

Elements(s) == {s[i] : i \in DOMAIN s}

\* Where the mv l takes a note with the reading was; whether it does; whether it
\* would leave it there when it is given again.
To(l, was) == Destination(HintOf(was), l.old, l.new)
Goes(l, was) == Present(was) /\ Under(HintOf(was), l.old) /\ Exists(To(l, was))
GoesOnce(l, was) == Under(To(l, was), l.old) => To(l, was) = HintOf(was)

\* The note is where the mv l took it, from c with the records R.
Arrived(c, R, l, was, now) ==
  /\ Present(now) /\ HintOf(now) = To(l, was) /\ Only(now.path).kind = "RP"
  /\ KeepsIn(c, R, was, now)

\* How far l is with a note.
Stage(c, R, l, e) ==
  LET was == l.was[e]
      now == ReadingIn(c, R, e)
  IN  /\ ~Goes(l, was) => now = was
      /\ Goes(l, was) /\ GoesOnce(l, was) =>
           \/ now = was /\ (l.cut \/ e \in Elements(l.todo))
           \/ Arrived(c, R, l, was, now)
                /\ (e \in Elements(l.todo) => To(l, was) = HintOf(was))

\* What l still has to do is known, landed, and under its old path.
Listed(c, R, m, l, e) ==
  LET now == ReadingIn(c, R, e)
  IN  e \in DOMAIN m.folded /\ Present(now) /\ Under(HintOf(now), l.old)

\* A mv that was begun.
MoveIs(c, R, m, l) ==
  /\ l.todo \in Seq(Entry)
  /\ \A i, j \in DOMAIN l.todo : l.todo[i] = l.todo[j] => i = j
  /\ \A e \in DOMAIN l.was : e \in Entry /\ Notes(R, e) # {} /\ Stage(c, R, l, e)
  /\ \A e \in Elements(l.todo) : Listed(c, R, m, l, e)

MoveInv ==
  \A l \in last :
    /\ l = [verb |-> l.verb, old |-> l.old, new |-> l.new, todo |-> l.todo,
            cut |-> l.cut, was |-> l.was]
    /\ l.verb = "mv" => MoveIs(checkout, records, memo, l)

LEMMA MovesIs ==
  ASSUME MoveInv, KindsAgree
  PROVE  MovesResume
<1> SUFFICES ASSUME NEW l \in last, l.verb = "mv", l.todo = <<>>, ~l.cut, NEW e \in DOMAIN l.was
             PROVE  LET was == l.was[e]
                        now == ReadingOf(e)
                        to == Destination(HintOf(was), l.old, l.new)
                    IN  IF Present(was) /\ Under(HintOf(was), l.old) /\ Exists(to)
                        THEN (Under(to, l.old) => to = HintOf(was)) =>
                               HintOf(now) = to /\ Resolver!Visible(Resolution(now))
                                 /\ KeepsBody(was, now)
                        ELSE now = was
  BY Zenon DEF MovesResume
<1>1. MoveIs(checkout, records, memo, l)
  BY DEF MoveInv
<1>2. PICK was, now : was = l.was[e] /\ now = ReadingOf(e)
  OBVIOUS
<1>3. now = ReadingIn(checkout, records, e)
  BY <1>2, InIsOf
<1>4. KeepsIn(checkout, records, was, now) <=> KeepsBody(was, now)
  BY InIsOf DEF KeepsIn, KeepsBody
<1>5. e \notin Elements(l.todo)
  BY DEF Elements
<1>6. ~Goes(l, was) => now = was
  BY <1>1, <1>2, <1>3 DEF MoveIs, Stage
<1>7. ASSUME Goes(l, was), GoesOnce(l, was)
      PROVE  HintOf(now) = To(l, was) /\ Resolver!Visible(Resolution(now)) /\ KeepsBody(was, now)
  <2>1. Arrived(checkout, records, l, was, now)
    BY <1>1, <1>2, <1>3, <1>5, <1>7 DEF MoveIs, Stage
  <2>2. PICK to : to = To(l, was)
    OBVIOUS
  <2>3. Exists(to) /\ HintOf(now) = to /\ Only(now.path).kind = "RP"
    BY <1>7, <2>1, <2>2 DEF Goes, Arrived
  <2>4. IsFolderNote(now) = IsFolder(to)
    <3>1. e \in Known /\ Present(now)
      BY <1>1, <2>1 DEF MoveIs, Known, Arrived
    <3> QED
      BY <1>2, <2>3, <3>1 DEF KindsAgree
  <2> QED
    BY <1>4, <2>1, <2>2, <2>3, <2>4, PutIsSeen DEF Arrived
<1> QED
  BY <1>2, <1>6, <1>7, Zenon DEF Goes, GoesOnce, To

LEMMA TailIs ==
  ASSUME NEW E, NEW s \in Seq(E), s # <<>>, \A i, j \in DOMAIN s : s[i] = s[j] => i = j
  PROVE  /\ Tail(s) \in Seq(E)
         /\ \A i, j \in DOMAIN Tail(s) : Tail(s)[i] = Tail(s)[j] => i = j
         /\ Head(s) \in Elements(s)
         /\ \A e : e \in Elements(Tail(s)) <=> e \in Elements(s) /\ e # Head(s)
<1>1. PICK n \in Nat : n = Len(s)
  OBVIOUS
<1>2. DOMAIN s = 1 .. n /\ n >= 1
  BY <1>1
<1>a. Tail(s) \in Seq(E)
  BY <1>1, <1>2
<1>3. PICK t : t = Tail(s) /\ t \in Seq(E)
  BY <1>a, Zenon
<1>4. DOMAIN t = 1 .. n - 1 /\ \A i \in 1 .. n - 1 : t[i] = s[i + 1]
  BY <1>1, <1>2, <1>3
<1>5. Head(s) = s[1] /\ 1 \in 1 .. n
  BY <1>2
<1>6. \A i, j \in DOMAIN t : t[i] = t[j] => i = j
  <2> SUFFICES ASSUME NEW i \in 1 .. n - 1, NEW j \in 1 .. n - 1, t[i] = t[j] PROVE i = j
    BY <1>4
  <2>1. i + 1 \in 1 .. n /\ j + 1 \in 1 .. n
    OBVIOUS
  <2>2. i + 1 = j + 1
    BY <1>2, <1>4, <2>1
  <2> QED
    BY <2>2
<1>7. ASSUME NEW e \in Elements(t) PROVE e \in Elements(s) /\ e # Head(s)
  <2>1. PICK i \in 1 .. n - 1 : e = t[i]
    BY <1>4 DEF Elements
  <2>2. i + 1 \in 1 .. n /\ i + 1 # 1 /\ e = s[i + 1]
    BY <1>4, <2>1
  <2> QED
    BY <1>2, <1>5, <2>2 DEF Elements
<1>8. ASSUME NEW e \in Elements(s), e # Head(s) PROVE e \in Elements(t)
  <2>1. PICK i \in 1 .. n : e = s[i]
    BY <1>2 DEF Elements
  <2>2. i # 1
    BY <1>5, <1>8, <2>1
  <2>3. i - 1 \in 1 .. n - 1 /\ i - 1 + 1 = i
    BY <2>2
  <2>4. t[i - 1] = e
    BY <1>4, <2>1, <2>3
  <2> QED
    BY <1>4, <2>3, <2>4 DEF Elements
<1>9. Head(s) \in Elements(s)
  BY <1>2, <1>5 DEF Elements
<1> QED
  BY <1>3, <1>6, <1>7, <1>8, <1>9

\* A command with the same paths takes the notes the same way.
LEMMA SameMove ==
  ASSUME NEW l, NEW k, l.old = k.old, l.new = k.new
  PROVE  /\ \A was : /\ To(l, was) = To(k, was) /\ Goes(l, was) = Goes(k, was)
                     /\ GoesOnce(l, was) = GoesOnce(k, was)
         /\ \A c, R, was, now : Arrived(c, R, l, was, now) = Arrived(c, R, k, was, now)
<1>1. \A was : To(l, was) = To(k, was)
  BY DEF To
<1> QED
  BY <1>1 DEF Goes, GoesOnce, Arrived

LEMMA ElementsOfNone == Elements(<<>>) = {}
BY DEF Elements

\* mv l begins, with m; if it was given before, and cut short, as one of before.
LEMMA MoveBegins ==
  ASSUME StoreInv, NEW before, NEW m, Current(checkout, records, m), Known \subseteq DOMAIN m.folded,
         NEW old, NEW new, NEW was,
         NEW l, l = [verb |-> "mv", old |-> old, new |-> new,
                     todo |-> InOrder(HomedAt(m, old)), cut |-> FALSE, was |-> was],
         \/ was = [e \in Known |-> m.folded[e]]
         \/ \E k : /\ MoveIs(checkout, records, before, k)
                   /\ k.old = old /\ k.new = new /\ was = k.was
  PROVE  MoveIs(checkout, records, m, l)
<1> DEFINE S == HomedAt(m, old)
           q == InOrder(S)
           N == Cardinality(S)
<1>1. S \in SUBSET Known /\ Known \subseteq Entry
  BY DEF HomedAt, Known
<1>2. /\ N \in Nat /\ q \in [1 .. N -> S]
      /\ \A e \in S : \E i \in 1 .. N : q[i] = e
      /\ \A i, j \in 1 .. N : q[i] = q[j] => i = j
  <2> HIDE DEF S
  <2> QED
    BY <1>1, InOrderIs
<1>3. /\ l.verb = "mv" /\ l.old = old /\ l.new = new /\ l.todo = q /\ ~l.cut /\ l.was = was
  OBVIOUS
<1>4. \A e \in Known : m.folded[e] = ReadingIn(checkout, records, e)
  BY DEF Current
<1>5. \A e \in S : /\ e \in Known /\ Present(ReadingIn(checkout, records, e))
                   /\ Under(HintOf(ReadingIn(checkout, records, e)), old)
  BY <1>4 DEF HomedAt
<1>6. \A e \in Known : Present(ReadingIn(checkout, records, e))
                         /\ Under(HintOf(ReadingIn(checkout, records, e)), old) => e \in S
  BY <1>4 DEF HomedAt
<1> HIDE DEF S, q, N
<1>7. q \in Seq(Entry) /\ DOMAIN q = 1 .. N /\ \A e : e \in Elements(q) <=> e \in S
  <2>1. q \in [1 .. N -> Entry]
    BY <1>1, <1>2
  <2>2. q \in Seq(Entry) /\ DOMAIN q = 1 .. N
    BY <1>2, <2>1, IsSeq
  <2> QED
    BY <1>2, <2>2 DEF Elements
<1>8. ASSUME NEW e \in DOMAIN was
      PROVE  e \in Entry /\ Notes(records, e) # {} /\ Stage(checkout, records, l, e)
  <2>1. PICK w, now : w = was[e] /\ now = ReadingIn(checkout, records, e)
    OBVIOUS
  <2>2. CASE was = [d \in Known |-> m.folded[d]]
    <3>1. e \in Known /\ now = w
      BY <1>4, <1>8, <2>1, <2>2
    <3>2. Goes(l, w) => e \in Elements(l.todo)
      BY <1>3, <1>6, <1>7, <2>1, <3>1 DEF Goes
    <3> QED
      BY <1>3, <2>1, <3>1, <3>2 DEF Stage, Known
  <2>3. CASE \E k : /\ MoveIs(checkout, records, before, k)
                    /\ k.old = old /\ k.new = new /\ was = k.was
    <3>1. PICK k : /\ MoveIs(checkout, records, before, k)
                   /\ k.old = old /\ k.new = new /\ was = k.was
      BY <2>3
    <3>2. e \in Known /\ Stage(checkout, records, k, e)
      BY <1>8, <3>1 DEF MoveIs, Known
    <3>3. /\ ~Goes(l, w) => now = w
          /\ Goes(l, w) /\ GoesOnce(l, w) =>
               now = w \/ Arrived(checkout, records, l, w, now)
      <4>1. /\ Goes(l, w) = Goes(k, w) /\ GoesOnce(l, w) = GoesOnce(k, w)
            /\ Arrived(checkout, records, l, w, now) = Arrived(checkout, records, k, w, now)
        BY <1>3, <3>1, SameMove
      <4> QED
        BY <2>1, <3>1, <3>2, <4>1 DEF Stage
    <3>4. Goes(l, w) /\ now = w => e \in Elements(l.todo)
      BY <1>3, <1>6, <1>7, <2>1, <3>2 DEF Goes
    <3>5. GoesOnce(l, w) /\ Arrived(checkout, records, l, w, now) /\ e \in Elements(l.todo)
            => To(l, w) = HintOf(w)
      BY <1>3, <1>5, <1>7, <2>1 DEF Arrived, GoesOnce
    <3> QED
      BY <1>3, <2>1, <3>2, <3>3, <3>4, <3>5 DEF Stage, Known
  <2> QED
    BY <2>2, <2>3
<1>9. \A e \in Elements(l.todo) : Listed(checkout, records, m, l, e)
  BY <1>3, <1>5, <1>7 DEF Listed
<1>10. l.todo \in Seq(Entry) /\ \A i, j \in DOMAIN l.todo : l.todo[i] = l.todo[j] => i = j
  BY <1>2, <1>3, <1>7
<1>11. \A e \in DOMAIN l.was :
         e \in Entry /\ Notes(records, e) # {} /\ Stage(checkout, records, l, e)
  BY <1>3, <1>8
<1> QED
  BY <1>9, <1>10, <1>11, Zenon DEF MoveIs

\* t is s without its first element e.
Rest(s, t, e) ==
  /\ t \in Seq(Entry)
  /\ \A i, j \in DOMAIN t : t[i] = t[j] => i = j
  /\ e \in Elements(s)
  /\ \A d : d \in Elements(t) <=> d \in Elements(s) /\ d # e

LEMMA RestIs ==
  ASSUME NEW c, NEW R, NEW m, NEW l, MoveIs(c, R, m, l), l.todo # <<>>
  PROVE  Rest(l.todo, Tail(l.todo), Head(l.todo))
<1>1. PICK s : s = l.todo
  OBVIOUS
<1>2. s \in Seq(Entry) /\ s # <<>> /\ \A i, j \in DOMAIN s : s[i] = s[j] => i = j
  BY <1>1, Zenon DEF MoveIs
<1>3. Rest(s, Tail(s), Head(s))
  <2>1. PICK t, e : t = Tail(s) /\ e = Head(s)
    OBVIOUS
  <2>2. /\ t \in Seq(Entry)
        /\ \A i, j \in DOMAIN t : t[i] = t[j] => i = j
        /\ e \in Elements(s)
        /\ \A d : d \in Elements(t) <=> d \in Elements(s) /\ d # e
    BY <1>2, <2>1, TailIs
  <2> QED
    BY <2>1, <2>2, Zenon DEF Rest
<1> QED
  BY <1>1, <1>3, Zenon

\* One record of the mv l, of the first note it still has to take, which goes to
\* a path there is.
LEMMA MoveGoesOn ==
  ASSUME StoreInv, NEW m, Current(checkout, records, m),
         NEW c, c = checkout, NEW R, R = records,
         NEW l, MoveIs(c, R, m, l), NEW e,
         NEW k, k.old = l.old, k.new = l.new, k.was = l.was, k.cut = l.cut, Rest(l.todo, k.todo, e),
         NEW to, to = To(l, m.folded[e]), Exists(to),
         NEW x, x.id = Fresh, x.kind = "RP", x.entry = e, x.origin = Here, x.path = to,
         NEW T, T = R \cup {x}, NEW n, n = Forget(m, x)
  PROVE  MoveIs(c, T, n, k)
<1>1. x.kind # "VD" /\ x.kind \notin {"LN", "UL"}
  OBVIOUS
<1>2. /\ k.todo \in Seq(Entry)
      /\ \A i, j \in DOMAIN k.todo : k.todo[i] = k.todo[j] => i = j
      /\ e \in Elements(l.todo)
      /\ \A d : d \in Elements(k.todo) <=> d \in Elements(l.todo) /\ d # e
  BY DEF Rest
<1>3. PICK was : was = m.folded[e]
  OBVIOUS
<1>4. e \in DOMAIN m.folded /\ was = ReadingIn(c, R, e) /\ Present(was) /\ Under(HintOf(was), l.old)
  BY <1>2, <1>3 DEF MoveIs, Listed, Current
<1>5. PICK now : now = ReadingIn(c, T, e)
  OBVIOUS
<1>6. Present(now) /\ now.path = {x} /\ KeepsIn(c, T, was, now)
  <2>1. ~Tombstoned(records, e)
    BY <1>4, ReadingSays DEF ReadingIn, Says, Present
  <2>2. now = ReadingIn(c, records \cup {x}, e)
    BY <1>5
  <2>3. /\ Present(now) /\ now.path = {x}
        /\ KeepsIn(c, records \cup {x}, ReadingIn(c, records, e), now)
    <3>1. "RP" \in {"SU", "RA", "RP"} /\ "RP" # "SU"
      OBVIOUS
    <3> QED
      BY <1>1, <2>1, <2>2, <3>1, StampedIs
  <2> QED
    BY <1>4, <2>3
<1>7. HintOf(now) = to /\ Only(now.path).kind = "RP"
  BY <1>1, <1>6, OnlyIs DEF HintOf
<1>8. \A d : d # e => ReadingIn(c, T, d) = ReadingIn(c, R, d)
  BY <1>1, OtherReadings
<1>9. \A o : StateIn(c, T, o) = StateIn(c, R, o)
  BY <1>1, SameStates
<1>10. \A v, y : KeepsIn(c, T, v, y) = KeepsIn(c, R, v, y)
  BY <1>9 DEF KeepsIn
<1>11. \A d : Notes(R, d) # {} => Notes(T, d) # {}
  BY DEF Notes, OfEntry
<1>12. \A w : /\ To(l, w) = To(k, w) /\ Goes(l, w) = Goes(k, w) /\ GoesOnce(l, w) = GoesOnce(k, w)
  BY SameMove
<1>13. ASSUME NEW d \in DOMAIN k.was, d # e PROVE Stage(c, T, k, d)
  <2>1. Stage(c, R, l, d)
    BY DEF MoveIs
  <2>2. PICK w, y : w = k.was[d] /\ y = ReadingIn(c, R, d)
    OBVIOUS
  <2>3. w = l.was[d] /\ y = ReadingIn(c, T, d)
    BY <1>8, <1>13, <2>2
  <2>4. Arrived(c, T, k, w, y) = Arrived(c, R, l, w, y)
    BY <1>10, <1>12 DEF Arrived
  <2>5. d \in Elements(k.todo) <=> d \in Elements(l.todo)
    BY <1>2, <1>13
  <2> QED
    BY <1>12, <2>1, <2>2, <2>3, <2>4, <2>5 DEF Stage
<1>14. ASSUME e \in DOMAIN k.was PROVE Stage(c, T, k, e)
  <2>1. PICK w : w = k.was[e]
    OBVIOUS
  <2>2. /\ ~Goes(l, w) => was = w
        /\ Goes(l, w) /\ GoesOnce(l, w) =>
             was = w \/ (Arrived(c, R, l, w, was) /\ To(l, w) = HintOf(w))
    <3>1. Stage(c, R, l, e)
      BY <1>14 DEF MoveIs
    <3> QED
      BY <1>2, <1>4, <2>1, <3>1 DEF Stage
  <2>3. Goes(l, was)
    BY <1>3, <1>4 DEF Goes
  <2>4. ASSUME Goes(l, w), GoesOnce(l, w) PROVE Arrived(c, T, k, w, now)
    <3>1. to = To(l, w)
      <4>1. CASE was = w
        BY <1>3, <4>1
      <4>2. CASE Arrived(c, R, l, w, was) /\ To(l, w) = HintOf(w)
        BY <1>3, <4>2 DEF Arrived, To
      <4> QED
        BY <2>2, <2>4, <4>1, <4>2
    <3>2. KeepsIn(c, T, w, now)
      <4>1. CASE was = w
        BY <1>6, <4>1
      <4>2. CASE Arrived(c, R, l, w, was)
        <5>1. KeepsIn(c, T, w, was)
          BY <1>10, <4>2 DEF Arrived
        <5> QED
          BY <1>6, <5>1 DEF KeepsIn
      <4> QED
        BY <2>2, <2>4, <4>1, <4>2
    <3> QED
      BY <1>6, <1>7, <1>12, <3>1, <3>2 DEF Arrived
  <2> QED
    BY <1>2, <1>5, <1>12, <2>1, <2>2, <2>3, <2>4 DEF Stage
<1>15. ASSUME NEW d \in Elements(k.todo) PROVE Listed(c, T, n, k, d)
  <2>1. d # e /\ Listed(c, R, m, l, d)
    BY <1>2 DEF MoveIs
  <2>2. n = [m EXCEPT !.folded = Without(@, e), !.resolved = Without(@, e)]
    BY <1>1 DEF Forget
  <2>3. PICK f, g, h, i : m = [class |-> f, folded |-> g, resolved |-> h, links |-> i]
    BY DEF Current
  <2>4. n.folded = Without(g, e) /\ m.folded = g
    BY <2>2, <2>3
  <2>5. d \in DOMAIN n.folded
    BY <2>1, <2>4 DEF Without, Listed
  <2> QED
    BY <1>8, <2>1, <2>5 DEF Listed
<1>16. \A d \in DOMAIN k.was : d \in Entry /\ Notes(T, d) # {} /\ Stage(c, T, k, d)
  BY <1>11, <1>13, <1>14 DEF MoveIs
<1> QED
  BY <1>2, <1>15, <1>16, Zenon DEF MoveIs

\* The first note it still has to take goes nowhere.
LEMMA MovePasses ==
  ASSUME NEW m, Current(checkout, records, m),
         NEW c, c = checkout, NEW R, R = records,
         NEW l, MoveIs(c, R, m, l), NEW e, ~Exists(To(l, m.folded[e])),
         NEW k, k.old = l.old, k.new = l.new, k.was = l.was, k.cut = l.cut, Rest(l.todo, k.todo, e)
  PROVE  MoveIs(c, R, m, k)
<1>1. /\ k.todo \in Seq(Entry)
      /\ \A i, j \in DOMAIN k.todo : k.todo[i] = k.todo[j] => i = j
      /\ e \in Elements(l.todo)
      /\ \A d : d \in Elements(k.todo) <=> d \in Elements(l.todo) /\ d # e
  BY DEF Rest
<1>2. m.folded[e] = ReadingIn(c, R, e)
  BY <1>1 DEF MoveIs, Listed, Current
<1>3. /\ \A w : To(l, w) = To(k, w) /\ Goes(l, w) = Goes(k, w) /\ GoesOnce(l, w) = GoesOnce(k, w)
      /\ \A w, y : Arrived(c, R, l, w, y) = Arrived(c, R, k, w, y)
  BY SameMove
<1>4. ASSUME NEW d \in DOMAIN k.was PROVE Stage(c, R, k, d)
  <2>1. Stage(c, R, l, d)
    BY DEF MoveIs
  <2>2. PICK w, y : w = k.was[d] /\ y = ReadingIn(c, R, d)
    OBVIOUS
  <2>3. d = e => ~(Goes(l, w) /\ y = w)
    BY <1>2, <2>2 DEF Goes
  <2>4. d # e => (d \in Elements(k.todo) <=> d \in Elements(l.todo))
    BY <1>1
  <2>5. d \in Elements(k.todo) => d \in Elements(l.todo)
    BY <1>1
  <2> QED
    BY <1>3, <2>1, <2>2, <2>3, <2>4, <2>5 DEF Stage
<1>5. \A d \in Elements(k.todo) : Listed(c, R, m, k, d)
  BY <1>1 DEF MoveIs, Listed
<1>6. \A d \in DOMAIN k.was : d \in Entry /\ Notes(R, d) # {} /\ Stage(c, R, k, d)
  BY <1>4 DEF MoveIs
<1> QED
  BY <1>1, <1>5, <1>6, Zenon DEF MoveIs

\* The command there is, when it is no mv, or one that is a move as it should be.
LEMMA OneMove ==
  ASSUME NEW c, c = checkout', NEW R, R = records', NEW m, m = memo',
         NEW v, NEW o, NEW n, NEW d, NEW t, NEW w,
         NEW l, l = [verb |-> v, old |-> o, new |-> n, todo |-> d, cut |-> t, was |-> w],
         last' = {l}, v = "mv" => MoveIs(c, R, m, l)
  PROVE  MoveInv'
<1>1. /\ l = [verb |-> l.verb, old |-> l.old, new |-> l.new, todo |-> l.todo,
              cut |-> l.cut, was |-> l.was]
      /\ l.verb = v
  OBVIOUS
<1>2. l.verb = "mv" => MoveIs(checkout', records', memo', l)
  BY <1>1
<1>3. \A k \in last' : k = l
  OBVIOUS
<1> QED
  BY <1>1, <1>2, <1>3 DEF MoveInv

\* Nothing is begun or committed, and what m knows is not forgotten or not needed.
LEMMA MoveStays ==
  ASSUME MoveInv, last' = last, UNCHANGED <<checkout, records>>,
         memo' = memo \/ \A l \in last : l.todo = <<>>
  PROVE  MoveInv'
<1>1. PICK c, R, m, n : /\ c = checkout /\ R = records /\ c = checkout' /\ R = records'
                        /\ m = memo /\ n = memo'
  BY DEF checkout
<1>2. ASSUME NEW l \in last, MoveIs(c, R, m, l) PROVE MoveIs(c, R, n, l)
  <2>1. CASE m = n
    BY <1>2, <2>1
  <2>2. CASE l.todo = <<>>
    <3>1. Elements(l.todo) = {}
      BY <2>2, ElementsOfNone
    <3> QED
      BY <1>2, <3>1 DEF MoveIs
  <2> QED
    BY <1>1, <2>1, <2>2
<1> QED
  BY <1>1, <1>2 DEF MoveInv

\* mv or rm is cut short.
LEMMA MoveCut ==
  ASSUME NEW c, NEW R, NEW m, NEW l, MoveIs(c, R, m, l),
         NEW k, k.old = l.old, k.new = l.new, k.was = l.was, k.todo = <<>>, k.cut,
         NEW n
  PROVE  MoveIs(c, R, n, k)
<1>1. Elements(k.todo) = {} /\ k.todo \in Seq(Entry) /\ DOMAIN k.todo = {}
  BY ElementsOfNone
<1>2. /\ \A w : To(l, w) = To(k, w) /\ Goes(l, w) = Goes(k, w) /\ GoesOnce(l, w) = GoesOnce(k, w)
      /\ \A w, y : Arrived(c, R, l, w, y) = Arrived(c, R, k, w, y)
  BY SameMove
<1>3. ASSUME NEW d \in DOMAIN k.was PROVE d \in Entry /\ Notes(R, d) # {} /\ Stage(c, R, k, d)
  <2>1. d \in Entry /\ Notes(R, d) # {} /\ Stage(c, R, l, d)
    BY DEF MoveIs
  <2> QED
    BY <1>1, <1>2, <2>1 DEF Stage
<1> QED
  BY <1>1, <1>3 DEF MoveIs

LEMMA MoveMacro ==
  ASSUME BatchInv, ChainsEnd, MoveInv, NEW verb, NEW p, NEW q,
         Macro(FoldedAll(memo, Known), verb, p, q)
  PROVE  MoveInv'
<1>1. PICK m, c, R, before : /\ m = FoldedAll(memo, Known)
                             /\ c = checkout /\ R = records /\ before = memo
  OBVIOUS
<1>2. StoreInv /\ Current(checkout, records, m) /\ Known \subseteq DOMAIN m.folded
  BY <1>1, FoldedAllCurrent DEF BatchInv, ChainsEnd
<1> DEFINE again == {k \in last : k.cut /\ k.verb = verb /\ k.old = p /\ k.new = q}
<1>3. PICK was : was = IF again # {} THEN Only(again).was ELSE [e \in Known |-> m.folded[e]]
  OBVIOUS
<1>4. PICK l : l = [verb |-> verb, old |-> p, new |-> q, todo |-> InOrder(HomedAt(m, p)),
                    cut |-> FALSE, was |-> was]
  OBVIOUS
<1>5. last' = {l} /\ memo' = m /\ records' = R /\ checkout' = c
  <2>1. /\ last' = {[verb |-> verb, old |-> p, new |-> q, todo |-> InOrder(HomedAt(m, p)),
                     cut |-> FALSE, was |-> was]}
        /\ memo' = m /\ UNCHANGED <<checkout, records>>
    BY <1>1, <1>3, Zenon DEF Macro
  <2> QED
    BY <1>1, <1>4, <2>1 DEF checkout
<1>6. ASSUME verb = "mv" PROVE MoveIs(c, R, m, l)
  <2>1. CASE again = {}
    <3>1. was = [e \in Known |-> m.folded[e]]
      BY <1>3, <2>1
    <3> QED
      BY <1>1, <1>2, <1>4, <1>6, <3>1, MoveBegins
  <2>2. CASE again # {}
    <3>1. PICK k : k = Only(again)
      OBVIOUS
    <3>2. k \in again /\ was = k.was
      BY <1>3, <2>2, <3>1 DEF Only
    <3>3. MoveIs(checkout, records, before, k) /\ k.old = p /\ k.new = q /\ was = k.was
      BY <1>1, <1>6, <3>2 DEF MoveInv
    <3> QED
      BY <1>1, <1>2, <1>4, <1>6, <3>3, MoveBegins
  <2> QED
    BY <2>1, <2>2
<1>7. PICK todo : todo = InOrder(HomedAt(m, p))
  OBVIOUS
<1>8. l = [verb |-> verb, old |-> p, new |-> q, todo |-> todo, cut |-> FALSE, was |-> was]
  BY <1>4, <1>7
<1>9. c = checkout' /\ R = records' /\ m = memo' /\ last' = {l}
  BY <1>5
<1>10. PICK no : no = FALSE
  OBVIOUS
<1>11. l = [verb |-> verb, old |-> p, new |-> q, todo |-> todo, cut |-> no, was |-> was]
  BY <1>8, <1>10
<1> QED
  BY <1>6, <1>9, <1>11, OneMove

LEMMA MoveCommand ==
  ASSUME BatchInv, ChainsEnd, MoveInv, Command
  PROVE  MoveInv'
<1>1. ASSUME last' = {} PROVE MoveInv'
  BY <1>1 DEF MoveInv
<1>2. ASSUME NEW m, NEW x, Commits(m, x) PROVE MoveInv'
  BY <1>1, <1>2 DEF Commits
<1>3. ASSUME NEW e \in Entry, NEW p \in Places, Create(e, p) PROVE MoveInv'
  BY <1>2, <1>3 DEF Create
<1>4. ASSUME NEW S \in Handles, Repair(HasRead(S), S) PROVE MoveInv'
  <2>1. PICK m, e : \/ Tombstone(m, e)
                    \/ \E kind \in {"SU", "RA"} : \E p : Repairs(m, kind, e, p)
    BY <1>4, RepairIs
  <2>2. CASE Tombstone(m, e)
    BY <1>2, <2>2 DEF Tombstone
  <2>3. CASE \E kind \in {"SU", "RA"} : \E p : Repairs(m, kind, e, p)
    <3>1. PICK kind \in {"SU", "RA"} : \E p : Repairs(m, kind, e, p)
      BY <2>3
    <3>2. PICK p : Repairs(m, kind, e, p)
      BY <3>1
    <3>3. PICK was, l : last' = {l} /\ l = [verb |-> kind, old |-> p, new |-> p, todo |-> <<>>,
                                           cut |-> FALSE, was |-> was]
      BY <3>2 DEF Repairs
    <3>4. kind # "mv"
      OBVIOUS
    <3> QED
      BY <3>3, <3>4 DEF MoveInv
  <2> QED
    BY <2>1, <2>2, <2>3
<1>5. ASSUME NEW m, NEW S, Feedback(m, S) PROVE MoveInv'
  BY <1>2, <1>5 DEF Feedback
<1>6. ASSUME NEW m, NEW S, NEW T, Link(m, S, T) PROVE MoveInv'
  BY <1>2, <1>6 DEF Link
<1>7. ASSUME NEW m, NEW S, NEW T, Unlink(m, S, T) PROVE MoveInv'
  BY <1>2, <1>7 DEF Unlink
<1>8. ASSUME NEW o, NEW as, Verdict(o, as) PROVE MoveInv'
  BY <1>2, <1>8 DEF Verdict
<1>9. ASSUME NEW verb, NEW p, NEW q, Macro(FoldedAll(memo, Known), verb, p, q) PROVE MoveInv'
  BY <1>9, MoveMacro
<1> QED
  BY <1>3, <1>4, <1>5, <1>6, <1>7, <1>8, <1>9 DEF Command

LEMMA MoveMacroStep ==
  ASSUME BatchInv, MoveInv, MacroStep
  PROVE  MoveInv'
<1>1. PICK l \in last :
        /\ l.todo # <<>>
        /\ LET e == Head(l.todo)
               to == Destination(HintOf(memo.folded[e]), l.old, l.new)
           IN  CASE l.verb = "rm" -> Absorb(memo, Rec("TB", e))
                 [] l.verb = "mv" /\ Exists(to) ->
                      Absorb(memo, [Rec("RP", e) EXCEPT !.origin = Here, !.path = to])
                 [] OTHER -> UNCHANGED <<checkout, records, memo>>
        /\ last' = {[l EXCEPT !.todo = Tail(@)]}
  BY DEF MacroStep
<1>2. PICK c, R, m : c = checkout /\ R = records /\ m = memo
  OBVIOUS
<1>3. PICK v, o, n, d, t, w : l = [verb |-> v, old |-> o, new |-> n, todo |-> d, cut |-> t, was |-> w]
  BY DEF MoveInv
<1>4. PICK k : k = [verb |-> v, old |-> o, new |-> n, todo |-> Tail(d), cut |-> t, was |-> w]
  OBVIOUS
<1>5. last' = {k}
  BY <1>1, <1>3, <1>4
<1>6. PICK e, to : e = Head(l.todo) /\ to = To(l, m.folded[e])
  OBVIOUS
<1>7. /\ k.old = l.old /\ k.new = l.new /\ k.was = l.was /\ k.cut = l.cut
      /\ k.todo = Tail(l.todo) /\ l.verb = v
  BY <1>3, <1>4
<1>8. ASSUME v = "mv"
      PROVE  \E T, N : T = records' /\ N = memo' /\ c = checkout' /\ MoveIs(c, T, N, k)
  <2>1. MoveIs(c, R, m, l)
    BY <1>2, <1>7, <1>8 DEF MoveInv
  <2>2. Rest(l.todo, k.todo, e)
    BY <1>1, <1>6, <1>7, <2>1, RestIs
  <2>3. Current(checkout, records, m) /\ StoreInv
    BY <1>2 DEF BatchInv
  <2>4. CASE Exists(to)
    <3>1. PICK x : x = [Rec("RP", e) EXCEPT !.origin = Here, !.path = to]
      OBVIOUS
    <3>2. Absorb(m, x)
      BY <1>1, <1>2, <1>6, <1>7, <1>8, <2>4, <3>1 DEF To
    <3>3. x.id = Fresh /\ x.kind = "RP" /\ x.entry = e /\ x.origin = Here /\ x.path = to
      BY <3>1 DEF Rec
    <3>4. PICK T, N : T = R \cup {x} /\ N = Forget(m, x)
      OBVIOUS
    <3>5. T = records' /\ N = memo' /\ c = checkout'
      BY <1>2, <3>2, <3>4 DEF Absorb, checkout
    <3>6. MoveIs(c, T, N, k)
      BY <1>2, <1>6, <1>7, <2>1, <2>2, <2>3, <2>4, <3>3, <3>4, MoveGoesOn
    <3> QED
      BY <3>5, <3>6
  <2>5. CASE ~Exists(to)
    <3>1. UNCHANGED <<checkout, records, memo>>
      BY <1>1, <1>2, <1>6, <1>7, <1>8, <2>5 DEF To
    <3>2. R = records' /\ m = memo' /\ c = checkout'
      BY <1>2, <3>1 DEF checkout
    <3>3. MoveIs(c, R, m, k)
      BY <1>2, <1>6, <1>7, <2>1, <2>2, <2>3, <2>5, MovePasses
    <3> QED
      BY <3>2, <3>3
  <2> QED
    BY <2>4, <2>5
<1>9. PICK s : s = Tail(d)
  OBVIOUS
<1>10. k = [verb |-> v, old |-> o, new |-> n, todo |-> s, cut |-> t, was |-> w]
  BY <1>4, <1>9
<1>11. PICK b, T, N : b = checkout' /\ T = records' /\ N = memo'
  OBVIOUS
<1>12. v = "mv" => MoveIs(b, T, N, k)
  BY <1>8, <1>11
<1> QED
  BY <1>5, <1>10, <1>11, <1>12, OneMove

LEMMA MoveNextBatch ==
  ASSUME MoveInv, NextBatch
  PROVE  MoveInv'
<1>1. CASE last' = {}
  BY <1>1 DEF MoveInv
<1>2. CASE /\ last' = {[l EXCEPT !.todo = <<>>, !.cut = TRUE] :
                         l \in {k \in last : k.todo # <<>> \/ k.cut}}
           /\ UNCHANGED records
  <2>1. PICK c, R, m, n : /\ c = checkout /\ R = records /\ c = checkout' /\ R = records'
                          /\ m = memo /\ n = memo'
    BY <1>2 DEF NextBatch, checkout
  <2>2. ASSUME NEW k \in last'
        PROVE  /\ k = [verb |-> k.verb, old |-> k.old, new |-> k.new, todo |-> k.todo,
                       cut |-> k.cut, was |-> k.was]
               /\ k.verb = "mv" => MoveIs(c, R, n, k)
    <3>1. PICK l \in last : k = [l EXCEPT !.todo = <<>>, !.cut = TRUE]
      BY <1>2
    <3>2. l = [verb |-> l.verb, old |-> l.old, new |-> l.new, todo |-> l.todo,
               cut |-> l.cut, was |-> l.was]
      BY DEF MoveInv
    <3>3. k = [verb |-> l.verb, old |-> l.old, new |-> l.new, todo |-> <<>>,
               cut |-> TRUE, was |-> l.was]
      BY <3>1, <3>2
    <3>4. /\ k.verb = l.verb /\ k.old = l.old /\ k.new = l.new /\ k.was = l.was
          /\ k.todo = <<>> /\ k.cut
      BY <3>3
    <3>5. ASSUME k.verb = "mv" PROVE MoveIs(c, R, n, k)
      <4>1. MoveIs(c, R, m, l)
        BY <2>1, <3>4, <3>5 DEF MoveInv
      <4> QED
        BY <3>4, <4>1, MoveCut
    <3> QED
      BY <3>3, <3>4, <3>5
  <2> QED
    BY <2>1, <2>2 DEF MoveInv
<1> QED
  BY <1>1, <1>2 DEF NextBatch

LEMMA MoveStep ==
  ASSUME BatchInv, ChainsEnd, MoveInv, [Next]_vars
  PROVE  MoveInv'
<1>1. CASE Look
  BY <1>1, MoveStays DEF Look, Running
<1>2. CASE UNCHANGED vars
  BY <1>2, MoveStays DEF vars
<1> QED
  BY <1>1, <1>2, MoveCommand, MoveMacroStep, MoveNextBatch DEF Next

\* While dm follows all chains of verdicts to their ends, and every note is
\* asserted to be on a path of its kind, a mv that is through has taken what it
\* had to take to where it said, visibly and with its body, and left everything
\* else alone, however often it died on the way and was given again.
THEOREM MovesDoResume == Spec /\ []ChainsEnd /\ []KindsAgree => []MovesResume
<1>1. Init => MoveInv
  BY DEF Init, MoveInv
<1>2. BatchInv /\ ChainsEnd /\ MoveInv /\ [Next]_vars => MoveInv'
  BY MoveStep
<1>3. MoveInv /\ KindsAgree => MovesResume
  BY MovesIs
<1> QED
  BY BatchInvariant, <1>1, <1>2, <1>3, PTL DEF Spec

-----------------------------------------------------------------------------
(* Paths.                                                                  *)

\* What a path is made of; a folder's ends with "", and "." is the root's.
Segment == STRING \cup {"", "."}
Paths == Seq(Segment) \ {<<>>}

LEMMA PartIs ==
  ASSUME NEW S, NEW s \in Seq(S), NEW n \in 0 .. Len(s)
  PROVE  /\ SubSeq(s, 1, n) \in Seq(S) /\ Len(SubSeq(s, 1, n)) = n
         /\ \A i \in 1 .. n : SubSeq(s, 1, n)[i] = s[i]
<1>1. \A i \in 1 .. n : s[i] \in S
  OBVIOUS
<1> QED
  BY <1>1, SubSeqProperties

LEMMA RestOf ==
  ASSUME NEW S, NEW s \in Seq(S), NEW n \in 0 .. Len(s)
  PROVE  LET r == SubSeq(s, n + 1, Len(s))
         IN  /\ r \in Seq(S) /\ Len(r) = Len(s) - n
             /\ \A i \in 1 .. Len(s) - n : r[i] = s[n + i]
<1>1. PICK l \in Nat : l = Len(s) /\ n \in Nat /\ n <= l
  OBVIOUS
<1>2. \A i \in n + 1 .. l : s[i] \in S
  BY <1>1
<1> DEFINE r == SubSeq(s, n + 1, l)
<1>3. /\ r \in Seq(S) /\ Len(r) = IF n + 1 <= l THEN l - (n + 1) + 1 ELSE 0
      /\ \A i \in 1 .. l - (n + 1) + 1 : r[i] = s[n + 1 + i - 1]
  <2>1. n + 1 \in Int /\ l \in Int
    BY <1>1
  <2> QED
    BY <1>2, <2>1, SubSeqProperties
<1> HIDE DEF r
<1>4. Len(r) = l - n /\ \A i \in 1 .. l - n : r[i] = s[n + i]
  <2>1. /\ l - (n + 1) + 1 = l - n /\ \A i \in 1 .. l - n : n + 1 + i - 1 = n + i
        /\ (~(n + 1 <= l) => l - n = 0)
    BY <1>1
  <2> QED
    BY <1>3, <2>1
<1> QED
  BY <1>1, <1>3, <1>4 DEF r

LEMMA WithEnd ==
  ASSUME NEW S, NEW s \in Seq(S), NEW x \in S
  PROVE  LET p == Append(s, x)
         IN  /\ p \in Seq(S) /\ p # <<>> /\ Len(p) = Len(s) + 1
             /\ Last(p) = x /\ Front(p) = s
             /\ \A i \in 1 .. Len(s) : p[i] = s[i]
<1>1. PICK p : p = Append(s, x)
  OBVIOUS
<1>2. /\ p \in Seq(S) /\ p # <<>> /\ Len(p) = Len(s) + 1
      /\ p[Len(s) + 1] = x /\ \A i \in 1 .. Len(s) : p[i] = s[i]
  BY <1>1, AppendProperties
<1>3. PICK n \in Nat : n = Len(s)
  OBVIOUS
<1>4. Len(p) - 1 = n /\ n \in 0 .. Len(p)
  BY <1>2, <1>3
<1>5. /\ SubSeq(p, 1, n) \in Seq(S) /\ Len(SubSeq(p, 1, n)) = n
      /\ \A i \in 1 .. n : SubSeq(p, 1, n)[i] = p[i]
  BY <1>2, <1>4, PartIs
<1>6. SubSeq(p, 1, n) = s
  BY <1>2, <1>3, <1>5, SeqEqual
<1>7. Front(p) = s
  BY <1>4, <1>6 DEF Front
<1>8. Last(p) = x
  BY <1>2 DEF Last
<1> QED
  BY <1>1, <1>2, <1>7, <1>8

-----------------------------------------------------------------------------
(* What is reached.                                                        *)

\* The pages, step by step.
LEMMA PagesAre ==
  ASSUME NEW m, NEW n \in Nat
  PROVE  \E up : /\ up[0] = {Root} /\ up[n] = Pages(m, n)
                 /\ \A k \in 0 .. n - 1 : up[k + 1] = Onward(up[k], m)
<1> DEFINE Solves(f, k) == f = [d \in 0 .. k |-> IF d = 0 THEN {Root} ELSE Onward(f[d - 1], m)]
           S == {k \in 0 .. n : \E f : Solves(f, k)}
<1>1. 0 \in S
  <2> DEFINE f == [d \in 0 .. 0 |-> {Root}]
  <2>1. Solves(f, 0)
    OBVIOUS
  <2>2. 0 \in 0 .. n
    OBVIOUS
  <2> HIDE DEF f, Solves
  <2> QED
    BY <2>1, <2>2
<1>2. ASSUME NEW k \in 0 .. n - 1, k \in S PROVE k + 1 \in S
  <2>1. PICK f : Solves(f, k)
    BY <1>2
  <2> DEFINE g == [d \in 0 .. k + 1 |-> IF d = k + 1 THEN Onward(f[k], m) ELSE f[d]]
  <2>2. ASSUME NEW d \in 0 .. k + 1
        PROVE  g[d] = IF d = 0 THEN {Root} ELSE Onward(g[d - 1], m)
    <3>1. CASE d = k + 1
      <4>1. d # 0 /\ d - 1 = k /\ k \in 0 .. k + 1 /\ k # k + 1
        BY <3>1
      <4> QED
        BY <3>1, <4>1
    <3>2. CASE d # k + 1
      <4>1. d \in 0 .. k /\ (d # 0 => d - 1 \in 0 .. k + 1 /\ d - 1 # k + 1)
        BY <3>2
      <4>2. f[d] = IF d = 0 THEN {Root} ELSE Onward(f[d - 1], m)
        BY <2>1, <4>1
      <4> QED
        BY <3>2, <4>1, <4>2
    <3> QED
      BY <3>1, <3>2
  <2>3. g = [d \in 0 .. k + 1 |-> g[d]]
    OBVIOUS
  <2> HIDE DEF g
  <2>4. Solves(g, k + 1)
    BY <2>2, <2>3
  <2>5. k + 1 \in 0 .. n
    OBVIOUS
  <2> QED
    BY <2>4, <2>5
<1> HIDE DEF S
<1>3. 0 .. n \subseteq S
  BY <1>1, <1>2, UpTo
<1>4. n \in S
  BY <1>3
<1> DEFINE up == CHOOSE f : Solves(f, n)
<1>5. Solves(up, n)
  BY <1>4 DEF S
<1>6. Pages(m, n) = up[n]
  BY DEF Pages
<1> HIDE DEF up
<1>7. up[0] = {Root}
  BY <1>5
<1>8. ASSUME NEW k \in 0 .. n - 1 PROVE up[k + 1] = Onward(up[k], m)
  <2>1. k + 1 \in 0 .. n /\ k + 1 # 0 /\ k + 1 - 1 = k
    OBVIOUS
  <2>2. \A d \in 0 .. n : up[d] = IF d = 0 THEN {Root} ELSE Onward(up[d - 1], m)
    BY <1>5
  <2>3. up[k + 1] = Onward(up[k + 1 - 1], m)
    BY <2>1, <2>2
  <2> QED
    BY <2>1, <2>3
<1> QED
  BY <1>6, <1>7, <1>8

\* childOf, of a folder whose path ends with x.
Toward(p, h, x) ==
  LET rest == SubSeq(h, Len(p), Len(h))
  IN  Front(p) \o (IF Len(rest) > 1 THEN <<Head(rest), x>> ELSE rest)

\* The folders around a path, one in the next.
LEMMA FoldersAround ==
  ASSUME NEW S, NEW h \in Seq(S), NEW i \in 0 .. Len(h) - 1, NEW x \in S
  PROVE  LET p == Upto(h, i, x)
         IN  /\ Last(p) = x /\ Len(h) >= Len(p) /\ IsPrefix(Front(p), h)
             /\ Toward(p, h, x) = IF i + 1 < Len(h) THEN Upto(h, i + 1, x) ELSE h
<1>1. PICK n \in Nat : n = Len(h)
  OBVIOUS
<1>2. i \in Nat /\ i < n /\ i \in 0 .. Len(h)
  BY <1>1
<1>3. PICK s : s = SubSeq(h, 1, i)
  OBVIOUS
<1>4. s \in Seq(S) /\ Len(s) = i /\ \A j \in 1 .. i : s[j] = h[j]
  BY <1>2, <1>3, PartIs
<1>5. PICK p : p = Append(s, x)
  OBVIOUS
<1>6. p = Upto(h, i, x)
  BY <1>3, <1>5 DEF Upto
<1>7. Len(p) = i + 1 /\ Last(p) = x /\ Front(p) = s
  BY <1>4, <1>5, WithEnd
<1>8. IsPrefix(s, h) /\ Len(h) >= Len(p)
  <2>1. SubSeq(s, 1, i) = s
    BY <1>4, SubSeqFull
  <2> QED
    BY <1>1, <1>2, <1>3, <1>4, <1>7, <2>1 DEF IsPrefix
<1> DEFINE rest == SubSeq(h, i + 1, Len(h))
<1>9. rest \in Seq(S) /\ Len(rest) = n - i /\ \A j \in 1 .. n - i : rest[j] = h[i + j]
  BY <1>1, <1>2, RestOf
<1>10. Toward(p, h, x) = s \o (IF Len(rest) > 1 THEN <<Head(rest), x>> ELSE rest)
  BY <1>7 DEF Toward
<1> HIDE DEF rest
<1>11. CASE i + 1 < n
  <2>1. i + 1 \in 0 .. Len(h) /\ n - i > 1 /\ 1 \in 1 .. n - i /\ i + 1 \in 1 .. i + 1
    BY <1>1, <1>2, <1>11
  <2>2. Len(rest) > 1 /\ Head(rest) = h[i + 1]
    BY <1>9, <2>1
  <2>3. PICK a : a = h[i + 1]
    OBVIOUS
  <2>4. a \in S
    <3>1. i + 1 \in 1 .. Len(h)
      BY <1>2, <2>1
    <3> QED
      BY <2>3, <3>1, ElementOfSeq
  <2>5. PICK t : t = SubSeq(h, 1, i + 1)
    OBVIOUS
  <2>6. t \in Seq(S) /\ Len(t) = i + 1 /\ \A j \in 1 .. i + 1 : t[j] = h[j]
    BY <2>1, <2>5, PartIs
  <2>7. t = Append(s, a)
    <3>1. /\ Append(s, a) \in Seq(S) /\ Len(Append(s, a)) = i + 1
          /\ \A j \in 1 .. i : Append(s, a)[j] = s[j]
          /\ Append(s, a)[i + 1] = a
      BY <1>4, <2>4, AppendProperties
    <3>2. \A j \in 1 .. i + 1 : j \in 1 .. i \/ j = i + 1
      BY <1>2
    <3>3. \A j \in 1 .. i + 1 : t[j] = Append(s, a)[j]
      BY <1>4, <2>3, <2>6, <3>1, <3>2
    <3> QED
      BY <2>6, <3>1, <3>3, SeqEqual
  <2>8. s \o <<a, x>> = Append(t, x)
    <3>1. <<a, x>> \in Seq(S) /\ Len(<<a, x>>) = 2 /\ <<a, x>>[1] = a /\ <<a, x>>[2] = x
      BY <2>4
    <3>2. PICK u \in Seq(S) : u = <<a, x>>
      BY <3>1
    <3>a. PICK w : w = s \o u
      OBVIOUS
    <3>3. /\ w \in Seq(S) /\ Len(w) = i + 2
          /\ \A j \in 1 .. i + 2 : w[j] = IF j <= i THEN s[j] ELSE u[j - i]
      BY <1>4, <3>1, <3>2, <3>a, ConcatProperties
    <3>4. /\ Append(t, x) \in Seq(S) /\ Len(Append(t, x)) = i + 1 + 1
          /\ \A j \in 1 .. i + 1 : Append(t, x)[j] = t[j]
          /\ Append(t, x)[i + 1 + 1] = x
      BY <2>6, AppendProperties
    <3>5. i + 1 + 1 = i + 2 /\ \A j \in 1 .. i + 2 : j \in 1 .. i \/ j = i + 1 \/ j = i + 2
      BY <1>2
    <3>6. \A j \in 1 .. i : w[j] = h[j] /\ Append(t, x)[j] = h[j]
      BY <1>2, <1>4, <2>6, <3>3, <3>4
    <3>7. w[i + 1] = u[1] /\ w[i + 2] = u[2]
      <4>1. /\ i + 1 \in 1 .. i + 2 /\ ~(i + 1 <= i) /\ i + 1 - i = 1
            /\ i + 2 \in 1 .. i + 2 /\ ~(i + 2 <= i) /\ i + 2 - i = 2
        BY <1>2
      <4>2. w[i + 1] = u[i + 1 - i] /\ w[i + 2] = u[i + 2 - i]
        BY <3>3, <4>1
      <4> QED
        BY <4>1, <4>2
    <3>8. Append(t, x)[i + 1] = a /\ Append(t, x)[i + 2] = x
      BY <1>2, <2>1, <2>3, <2>6, <3>4, <3>5
    <3>9. \A j \in 1 .. i + 2 : w[j] = Append(t, x)[j]
      BY <3>1, <3>2, <3>5, <3>6, <3>7, <3>8
    <3>10. w = Append(t, x)
      BY <3>3, <3>4, <3>5, <3>9, SeqEqual
    <3> QED
      BY <3>2, <3>10, <3>a
  <2>9. Toward(p, h, x) = Upto(h, i + 1, x)
    BY <1>10, <2>2, <2>3, <2>5, <2>8 DEF Upto
  <2> QED
    BY <1>1, <1>6, <1>7, <1>8, <1>11, <2>9
<1>12. CASE ~(i + 1 < n)
  <2>1. n - i = 1 /\ n = i + 1
    BY <1>2, <1>12
  <2>2. Toward(p, h, x) = s \o rest
    BY <1>9, <1>10, <2>1
  <2>3. s \o rest = h
    <3>1. s \o rest \in Seq(S) /\ Len(s \o rest) = i + 1
          /\ \A j \in 1 .. i + 1 : (s \o rest)[j] = IF j <= i THEN s[j] ELSE rest[j - i]
      <4>1. PICK r : r = rest
        OBVIOUS
      <4>2. r \in Seq(S) /\ Len(r) = 1
        BY <1>9, <2>1, <4>1
      <4>3. /\ s \o r \in Seq(S) /\ Len(s \o r) = Len(s) + Len(r)
            /\ \A j \in 1 .. Len(s) + Len(r) : (s \o r)[j] = IF j <= Len(s) THEN s[j] ELSE r[j - Len(s)]
        BY <1>4, <4>2, ConcatProperties
      <4> QED
        BY <1>4, <4>1, <4>2, <4>3
    <3>2. \A j \in 1 .. i : (s \o rest)[j] = h[j]
      BY <1>2, <1>4, <3>1
    <3>3. (s \o rest)[i + 1] = h[i + 1]
      <4>1. i + 1 \in 1 .. i + 1 /\ ~(i + 1 <= i) /\ i + 1 - i = 1 /\ 1 \in 1 .. n - i
        BY <1>2, <2>1
      <4> QED
        BY <1>9, <3>1, <4>1
    <3>4. \A j \in 1 .. i + 1 : j \in 1 .. i \/ j = i + 1
      BY <1>2
    <3>5. \A j \in 1 .. i + 1 : (s \o rest)[j] = h[j]
      BY <3>2, <3>3, <3>4
    <3> QED
      BY <1>1, <2>1, <3>1, <3>5, SeqEqual
  <2> QED
    BY <1>1, <1>6, <1>7, <1>8, <1>12, <2>2, <2>3
<1> QED
  BY <1>11, <1>12

\* On the pages around its home and below it a note is at its home.
LEMMA HomeOn ==
  ASSUME NEW m, NEW e \in Visible(m), NEW h, m.resolved[e].home = {h},
         NEW p, Under(p, h) \/ Under(h, p)
  PROVE  /\ Under(p, h) => e \in Shown(p, m)
         /\ ~Under(p, h) => ChildOf(p, h) \in Children(p, m)
<1> DEFINE About(d) == {g \in m.resolved[d].home : Under(p, g) \/ Under(g, p)}
           home == HomesOn(p, m)
<1>1. About(e) = {h}
  OBVIOUS
<1>2. home = [d \in {c \in Visible(m) : About(c) # {}} |-> Only(About(d))]
  BY DEF HomesOn
<1> HIDE DEF About, home
<1>3. e \in DOMAIN home /\ home[e] = Only({h})
  BY <1>1, <1>2
<1>4. home[e] = h
  BY <1>3, OnlyIs
<1> QED
  BY <1>3, <1>4 DEF Shown, Children, home

\* A note at one home comes on a page, as many steps down as that is long.
LEMMA IsReached ==
  ASSUME NEW m, NEW e \in Visible(m), NEW h \in Paths, m.resolved[e].home = {h}
  PROVE  \E p \in Pages(m, Len(h)) : e \in Shown(p, m)
<1>1. PICK end \in Segment : end = ""
  BY Zenon DEF Segment
<1>2. \A p : IsFolder(p) <=> Last(p) = end
  BY <1>1, Zenon DEF IsFolder
<1>3. \A p : ChildOf(p, h) = Toward(p, h, end)
  BY <1>1, Zenon DEF ChildOf, Toward
<1>4. h \in Seq(Segment) /\ h # <<>>
  BY DEF Paths
<1>5. PICK n \in Nat : n = Len(h) /\ n # 0
  BY <1>4
<1>6. PICK up : /\ up[0] = {Root} /\ up[n] = Pages(m, n)
                /\ \A k \in 0 .. n - 1 : up[k + 1] = Onward(up[k], m)
  BY PagesAre
<1> DEFINE Seen(k) == \E p \in up[k] : e \in Shown(p, m)
           Z == {k \in 0 .. n - 1 : Seen(k) \/ Upto(h, k, end) \in up[k]}
<1>7. Upto(h, 0, end) = Root
  <2>1. SubSeq(h, 1, 0) = <<>>
    BY SubSeqEmpty
  <2>2. Append(<<>>, end) = <<end>>
    OBVIOUS
  <2> QED
    BY <1>1, <2>1, <2>2, Zenon DEF Upto, Root
<1>8. 0 \in Z
  BY <1>5, <1>6, <1>7
<1>9. ASSUME NEW k \in 0 .. n - 1, k \in Z
      PROVE  Seen(k + 1) \/ (IF k + 1 < n THEN Upto(h, k + 1, end) ELSE h) \in up[k + 1]
  <2>1. up[k + 1] = Onward(up[k], m)
    BY <1>6
  <2>2. up[k] \subseteq up[k + 1]
    BY <2>1 DEF Onward
  <2>3. CASE Seen(k)
    BY <2>2, <2>3
  <2>4. CASE Upto(h, k, end) \in up[k]
    <3>1. PICK p \in up[k] : p = Upto(h, k, end)
      BY <2>4
    <3>2. k \in 0 .. Len(h) - 1
      BY <1>5
    <3>3. /\ Last(p) = end /\ Len(h) >= Len(p) /\ IsPrefix(Front(p), h)
          /\ Toward(p, h, end) = IF k + 1 < Len(h) THEN Upto(h, k + 1, end) ELSE h
      BY <1>4, <3>1, <3>2, FoldersAround
    <3>4. IsFolder(p) /\ Under(h, p)
      BY <1>2, <3>3 DEF Under
    <3>5. CASE Under(p, h)
      BY <2>2, <3>4, <3>5, HomeOn
    <3>6. CASE ~Under(p, h)
      <4>1. ChildOf(p, h) \in Children(p, m)
        BY <3>4, <3>6, HomeOn
      <4>2. ChildOf(p, h) \in up[k + 1]
        BY <2>1, <3>4, <4>1 DEF Onward
      <4> QED
        BY <1>3, <1>5, <3>3, <4>2
    <3> QED
      BY <3>5, <3>6
  <2> QED
    BY <1>9, <2>3, <2>4
<1>10. \A k \in 0 .. n - 1 - 1 : k \in Z => k + 1 \in Z
  <2> SUFFICES ASSUME NEW k \in 0 .. n - 1 - 1, k \in Z PROVE k + 1 \in Z
    OBVIOUS
  <2>1. k \in 0 .. n - 1 /\ k + 1 \in 0 .. n - 1 /\ k + 1 < n
    BY <1>5
  <2>2. Seen(k + 1) \/ (IF k + 1 < n THEN Upto(h, k + 1, end) ELSE h) \in up[k + 1]
    BY <1>9, <2>1
  <2> HIDE DEF Seen
  <2> QED
    BY <2>1, <2>2
<1>11. n - 1 \in Nat
  BY <1>5
<1> HIDE DEF Z
<1>12. 0 .. n - 1 \subseteq Z
  BY <1>8, <1>10, <1>11, UpTo
<1>13. n - 1 \in Z /\ n - 1 \in 0 .. n - 1 /\ n - 1 + 1 = n
  BY <1>11, <1>12
<1>14. Seen(n - 1 + 1) \/ (IF n - 1 + 1 < n THEN Upto(h, n - 1 + 1, end) ELSE h) \in up[n - 1 + 1]
  BY <1>9, <1>13
<1>15. Seen(n) \/ h \in up[n]
  <2> HIDE DEF Seen
  <2>1. ~(n < n)
    OBVIOUS
  <2> QED
    BY <1>13, <1>14, <2>1
<1>16. Under(h, h)
  <2>1. IsPrefix(Front(h), h)
    <3>1. n - 1 \in 0 .. Len(h) /\ n - 1 <= Len(h)
      BY <1>5
    <3>2. PICK s : s = SubSeq(h, 1, n - 1)
      OBVIOUS
    <3>3. s \in Seq(Segment) /\ Len(s) = n - 1
      BY <1>4, <3>1, <3>2, PartIs
    <3>4. SubSeq(s, 1, n - 1) = s
      BY <3>3, SubSeqFull
    <3>5. Front(h) = s
      BY <1>5, <3>2 DEF Front
    <3> QED
      BY <1>5, <3>1, <3>2, <3>3, <3>4, <3>5 DEF IsPrefix
  <2>2. Len(h) >= Len(h)
    BY <1>5
  <2> QED
    BY <2>1, <2>2 DEF Under
<1>17. Seen(n)
  BY <1>15, <1>16, HomeOn
<1> QED
  BY <1>5, <1>6, <1>17

-----------------------------------------------------------------------------
(* All there is to know.                                                   *)

\* A reading is known with the classes of its origins.
Classified(m) == \A e \in DOMAIN m.folded : NoteOrigins(OfEntry(records, e)) \subseteq DOMAIN m.class

\* The reading of e is known, and where it is if it is present.
Has(m, e) ==
  /\ e \in DOMAIN m.folded
  /\ Present(ReadingIn(checkout, records, e)) => e \in DOMAIN m.resolved

LEMMA FoldedClassified ==
  ASSUME StoreInv, Ends(LandedBindings(records)), NEW m, Current(checkout, records, m),
         Classified(m), NEW e
  PROVE  Classified(Folded(m, e))
<1>1. CASE e \in DOMAIN m.folded
  BY <1>1 DEF Folded
<1>2. CASE e \notin DOMAIN m.folded
  <2> DEFINE N == Cardinality(NoteOrigins(OfEntry(records, e)))
  <2>0. PICK n : n = Classed(m, RecordOrigins(e))
    OBVIOUS
  <2>1. /\ N \in Nat /\ DOMAIN RecordOrigins(e) = 1 .. N
        /\ \A o \in NoteOrigins(OfEntry(records, e)) :
             \E i \in 1 .. N : RecordOrigins(e)[i] = o
    BY OriginsListed
  <2> HIDE DEF N
  <2>2. /\ Current(checkout, records, n) /\ Learns(m, n)
        /\ \A i \in 1 .. N : RecordOrigins(e)[i] \in DOMAIN n.class
    BY <2>0, <2>1, ClassedCurrent
  <2>3. NoteOrigins(OfEntry(records, e)) \subseteq DOMAIN n.class
    BY <2>1, <2>2
  <2>4. Folded(m, e) = WithReading(n, e)
    BY <1>2, <2>0 DEF Folded
  <2>5. PICK k, f, s, l : n = [class |-> k, folded |-> f, resolved |-> s, links |-> l]
    BY <2>2 DEF Current
  <2>6. \E new : WithReading(n, e) = [class |-> k, folded |-> new, resolved |-> s, links |-> l]
                 /\ DOMAIN new = DOMAIN f \cup {e}
    <3> DEFINE L == {o \in DOMAIN n.class : n.class[o] = "landed"}
               new == Added(f, [d \in {e} |-> Reading(records, e, L)])
    <3>1. WithReading(n, e) = [class |-> k, folded |-> new, resolved |-> s, links |-> l]
      BY <2>5 DEF WithReading
    <3>2. DOMAIN new = DOMAIN f \cup {e}
      BY DEF Added
    <3> HIDE DEF new
    <3> QED
      BY <3>1, <3>2
  <2>7. PICK v, new : /\ v = WithReading(n, e)
                      /\ v = [class |-> k, folded |-> new, resolved |-> s, links |-> l]
                      /\ DOMAIN new = DOMAIN f \cup {e}
    BY <2>6
  <2>8. v.class = n.class /\ DOMAIN v.folded = DOMAIN m.folded \cup {e}
        /\ DOMAIN m.class \subseteq DOMAIN n.class
    BY <2>2, <2>5, <2>7 DEF Learns
  <2> QED
    BY <2>3, <2>4, <2>7, <2>8 DEF Classified
<1> QED
  BY <1>1, <1>2

LEMMA ResolvedClassified ==
  ASSUME StoreInv, Ends(LandedBindings(records)), NEW m, Current(checkout, records, m),
         Classified(m), NEW e
  PROVE  Classified(Resolved(m, e))
<1>1. PICK n : n = Folded(m, e)
  OBVIOUS
<1>2. Classified(n) /\ Current(checkout, records, n)
  BY <1>1, FoldedClassified, FoldedCurrent
<1>3. WithResolution(n, e).class = n.class /\ WithResolution(n, e).folded = n.folded
  <2>1. PICK k, f, s, l : n = [class |-> k, folded |-> f, resolved |-> s, links |-> l]
    BY <1>2 DEF Current
  <2>2. \E t : WithResolution(n, e) = [class |-> k, folded |-> f, resolved |-> t, links |-> l]
    <3>1. CASE e \in DOMAIN n.resolved \/ ~Present(n.folded[e])
      BY <2>1, <3>1 DEF WithResolution
    <3>2. CASE ~(e \in DOMAIN n.resolved \/ ~Present(n.folded[e]))
      <4>1. PICK t : t = Added(n.resolved, [d \in {e} |-> Resolution(n.folded[e])])
        OBVIOUS
      <4>2. WithResolution(n, e) = [class |-> k, folded |-> f, resolved |-> t, links |-> l]
        BY <2>1, <3>2, <4>1 DEF WithResolution
      <4> QED
        BY <4>2
    <3> QED
      BY <3>1, <3>2
  <2>3. PICK v, t : v = WithResolution(n, e) /\ v = [class |-> k, folded |-> f, resolved |-> t, links |-> l]
    BY <2>2
  <2>4. v.class = k /\ v.folded = f /\ n.class = k /\ n.folded = f
    BY <2>1, <2>3
  <2> QED
    BY <2>3, <2>4
<1> QED
  BY <1>1, <1>2, <1>3 DEF Resolved, Classified

LEMMA AnewIs ==
  ASSUME StoreInv, Ends(LandedBindings(records))
  PROVE  Current(checkout, records, Anew) /\ Classified(Anew) /\ \A e \in Known : Has(Anew, e)
<1> DEFINE N == Cardinality(Known)
           q == InOrder(Known)
<1>0. PICK m : m = NothingKnown
  OBVIOUS
<1>1. /\ N \in Nat /\ q \in [1 .. N -> Known]
      /\ \A e \in Known : \E i \in 1 .. N : q[i] = e
  BY InOrderIs
<1>a. DOMAIN q = 1 .. N
  BY <1>1
<1> HIDE DEF N
<1>2. PICK w : Resolving!Steps(w, N, m, q)
  BY <1>1, <1>a, Resolving!FoldSteps
<1>3. Anew = Resolving!FoldOver(m, q)
  BY <1>0 DEF Anew, ResolvedAll, Resolving!FoldOver, Resolving!Largest, FoldLeft, MapThenFoldSet, Max
<1> HIDE DEF q
<1>4. /\ w[0] = m
      /\ \A d \in 0 .. N - 1 : w[d + 1] = Resolved(w[d], q[d + 1])
      /\ w[N] = Anew
  BY <1>2, <1>3 DEF Resolving!Steps
<1> DEFINE Good(d) == /\ Current(checkout, records, w[d]) /\ Classified(w[d])
                      /\ \A i \in 1 .. d : Has(w[d], q[i])
           Z == {d \in 0 .. N : Good(d)}
<1>5. 0 \in Z
  <2>1. Current(checkout, records, m)
    BY <1>0, NothingIsCurrent
  <2>2. Classified(m)
    BY <1>0 DEF Classified, NothingKnown, NoMemo
  <2>3. 0 \in 0 .. N /\ 1 .. 0 = {}
    BY <1>1
  <2> QED
    BY <1>4, <2>1, <2>2, <2>3
<1>6. ASSUME NEW d \in 0 .. N - 1, d \in Z PROVE d + 1 \in Z
  <2>1. d + 1 \in 0 .. N /\ \A i \in 1 .. d + 1 : i \in 1 .. d \/ i = d + 1
    BY <1>1
  <2>2. w[d + 1] = Resolved(w[d], q[d + 1])
    BY <1>4
  <2>3. Good(d)
    BY <1>6
  <2>4. PICK v, e : v = w[d] /\ e = q[d + 1]
    OBVIOUS
  <2>5. /\ Current(checkout, records, Resolved(v, e)) /\ Reads(v, Resolved(v, e))
        /\ Has(Resolved(v, e), e)
    BY <2>3, <2>4, ResolvedCurrent DEF Has
  <2>6. Classified(Resolved(v, e))
    BY <2>3, <2>4, ResolvedClassified
  <2>7. \A i \in 1 .. d : Has(Resolved(v, e), q[i])
    BY <2>3, <2>4, <2>5 DEF Has, Reads
  <2>8. Good(d + 1)
    BY <2>1, <2>2, <2>4, <2>5, <2>6, <2>7
  <2> HIDE DEF Good
  <2> QED
    BY <2>1, <2>8
<1> HIDE DEF Z, Good
<1>7. 0 .. N \subseteq Z
  BY <1>1, <1>5, <1>6, UpTo
<1>8. Good(N)
  BY <1>1, <1>7 DEF Z
<1>9. \A e \in Known : Has(w[N], e)
  BY <1>1, <1>8 DEF Good
<1> QED
  BY <1>4, <1>8, <1>9 DEF Good

\* An entry is among those its handle may mean.
LEMMA HandleHasIt ==
  ASSUME NEW e \in Known
  PROVE  e \in HandleOf(e)
<1>1. PICK S \in Twins : e \in S
  BY CommandsAssumption DEF Known
<1>2. Only({T \in Twins : e \in T}) \in {T \in Twins : e \in T}
  BY <1>1 DEF Only
<1> QED
  BY <1>2 DEF HandleOf, TwinsOf

\* A living note that has not landed has no origin that has.
LEMMA UnlandedIs ==
  ASSUME StoreInv, NEW m, Current(checkout, records, m), Classified(m),
         NEW e \in DOMAIN m.folded, ~m.folded[e].landed
  PROVE  LineageOf(e, m) \in {"pending-elsewhere", "unknown", "abandoned"}
<1> DEFINE states == {m.class[o] : o \in NoteOrigins(OfEntry(records, e))}
           L == LandedIn(checkout, records, e)
<1>1. "landed" \notin states
  <2> SUFFICES ASSUME NEW o \in NoteOrigins(OfEntry(records, e)), m.class[o] = "landed" PROVE FALSE
    OBVIOUS
  <2>1. StateIn(checkout, records, o) = "landed"
    BY DEF Current, Classified
  <2>2. o \in L
    BY <2>1 DEF LandedIn
  <2>3. LandedOf(records, e, Note \cup Mark, L) # {}
    <3>1. PICK r \in OfEntry(records, e) : r.kind \in Note \cup Mark /\ r.origin = o
      BY DEF NoteOrigins
    <3> QED
      BY <2>2, <3>1 DEF LandedOf
  <2>4. LandedOf(records, e, Note \cup Mark, L) \in SUBSET records
    BY DEF LandedOf, OfEntry
  <2>5. NewestLanded(records, e, Note \cup Mark, L) # {}
    BY <2>3, <2>4, NewestIs DEF NewestLanded
  <2>6. m.folded[e] = Reading(records, e, L)
    BY DEF Current, ReadingIn
  <2>7. m.folded[e].landed
    BY <2>5, <2>6, ReadingSays DEF Says
  <2> QED
    BY <2>7
<1> HIDE DEF states
<1>2. LineageOf(e, m) =
        CASE "landed" \in states -> "landed"
          [] "landed" \notin states /\ "pending-elsewhere" \in states -> "pending-elsewhere"
          [] states \cap {"landed", "pending-elsewhere"} = {} /\ "unknown" \in states -> "unknown"
          [] OTHER -> "abandoned"
  BY DEF LineageOf, states
<1>3. CASE "pending-elsewhere" \in states
  BY <1>1, <1>2, <1>3
<1>4. CASE "pending-elsewhere" \notin states /\ "unknown" \in states
  <2>1. states \cap {"landed", "pending-elsewhere"} = {}
    BY <1>1, <1>4
  <2> QED
    BY <1>1, <1>2, <1>4, <2>1
<1>5. CASE "pending-elsewhere" \notin states /\ "unknown" \notin states
  BY <1>1, <1>2, <1>5
<1> QED
  BY <1>3, <1>4, <1>5

-----------------------------------------------------------------------------
(* Where a note is.                                                        *)

LEMMA CommonIs ==
  ASSUME NEW a \in Seq(Segment), NEW b \in Seq(Segment)
  PROVE  LET l == Len(Resolver!LongestCommonPrefix({a, b}))
         IN  l \in Nat /\ l <= Len(a) /\ l <= Len(b)
<1> DEFINE C == Resolver!CommonPrefixes({a, b})
           l == Resolver!LongestCommonPrefix({a, b})
<1>0. PICK j, k \in Nat : j = Len(a) /\ k = Len(b)
  OBVIOUS
<1>1. ASSUME NEW s \in Seq(Segment), NEW x \in Resolver!Prefixes(s)
      PROVE  x \in Seq(Segment) /\ Len(x) \in Nat
  <2>1. PICK n \in 0 .. Len(s) : x = SubSeq(s, 1, n)
    BY <1>1 DEF Resolver!Prefixes
  <2> QED
    BY <2>1, PartIs
<1>2. \A x \in C : /\ x \in Resolver!Prefixes(a) \/ x \in Resolver!Prefixes(b)
                   /\ Resolver!IsPrefix(x, a) /\ Resolver!IsPrefix(x, b)
  BY DEF Resolver!CommonPrefixes
<1>3. \A x \in C : Len(x) \in Nat /\ Len(x) <= j /\ Len(x) <= k
  BY <1>0, <1>1, <1>2 DEF Resolver!IsPrefix
<1>4. <<>> \in C
  <2>1. PICK x : x = SubSeq(a, 1, 0)
    OBVIOUS
  <2>2. x = <<>> /\ SubSeq(a, 1, 0) = x /\ SubSeq(b, 1, 0) = x /\ SubSeq(x, 1, 0) = x
    BY <2>1, SubSeqEmpty
  <2>3. Len(x) = 0 /\ 0 \in 0 .. Len(a)
    BY <1>0, <2>2
  <2>4. Resolver!IsPrefix(x, a) /\ Resolver!IsPrefix(x, b)
    BY <1>0, <2>2, <2>3 DEF Resolver!IsPrefix
  <2>5. x \in Resolver!Prefixes(a)
    BY <2>2, <2>3 DEF Resolver!Prefixes
  <2> QED
    BY <2>2, <2>4, <2>5 DEF Resolver!CommonPrefixes
<1>5. l \in C
  <2> DEFINE N == {Len(x) : x \in C}
  <2>1. N \in SUBSET Nat /\ N # {} /\ \A n \in N : n <= j
    BY <1>3, <1>4
  <2>2. PICK n \in N : \A m \in N : m <= n
    <3> HIDE DEF N
    <3> QED
      BY <2>1, GreatestNumber
  <2>3. \E x \in C : \A y \in C : Len(y) <= Len(x)
    BY <2>2
  <2> HIDE DEF C
  <2> QED
    BY <2>3 DEF Resolver!LongestCommonPrefix, C
<1> QED
  BY <1>0, <1>3, <1>5

\* The folder of a path.
LEMMA DirIs ==
  ASSUME NEW p \in Seq(Segment)
  PROVE  Resolver!Dir(p) \in Seq(Segment)
<1>1. PICK n \in Nat : n = Len(p)
  OBVIOUS
<1>2. ASSUME p # <<>> PROVE SubSeq(p, 1, Len(p) - 1) \in Seq(Segment)
  <2>1. Len(p) - 1 \in 0 .. Len(p)
    BY <1>1, <1>2
  <2> QED
    BY <2>1, PartIs
<1> QED
  BY <1>2 DEF Resolver!Dir, Resolver!Front

LEMMA AffinityIs ==
  ASSUME NEW p \in Seq(Segment), NEW h \in Seq(Segment)
  PROVE  Resolver!Affinity(p, h) \in Nat
<1>1. PICK end \in Segment, dot \in Segment : end = "" /\ dot = "."
  BY Zenon DEF Segment
<1>2. ASSUME NEW f \in Seq(Segment)
      PROVE  Resolver!Segments(f) \in Seq(Segment)
  <2>1. Resolver!Segments(f) = (IF f = <<>> THEN <<dot>> ELSE f) \o <<end>>
    BY <1>1, Zenon DEF Resolver!Segments
  <2>2. <<dot>> \in Seq(Segment) /\ <<end>> \in Seq(Segment)
    OBVIOUS
  <2>3. PICK s \in Seq(Segment), t \in Seq(Segment) :
          s = (IF f = <<>> THEN <<dot>> ELSE f) /\ t = <<end>>
    BY <2>2
  <2>4. s \o t \in Seq(Segment)
    BY ConcatProperties
  <2> QED
    BY <2>1, <2>3, <2>4
<1>3. PICK a \in Seq(Segment), b \in Seq(Segment) :
        a = Resolver!Segments(Resolver!Dir(p)) /\ b = Resolver!Segments(Resolver!Dir(h))
  BY <1>2, DirIs
<1>b. PICK k : k = Len(Resolver!LongestCommonPrefix({a, b}))
  OBVIOUS
<1>c. k \in Nat /\ k <= Len(a) /\ k <= Len(b)
  BY <1>b, CommonIs
<1>4. PICK i \in Nat, j \in Nat : i = Len(a) /\ j = Len(b)
  OBVIOUS
<1>5. Resolver!DirDistance(p, h) = i + j - 2 * k
  BY <1>3, <1>4, <1>b DEF Resolver!DirDistance
<1>6. Resolver!DirDistance(p, h) \in Nat
  <2>1. i + j - 2 * k \in Nat
    BY <1>4, <1>c
  <2> QED
    BY <1>5, <2>1
<1>7. PICK d \in Nat : d = Resolver!DirDistance(p, h)
  BY <1>6
<1>8. Resolver!Affinity(p, h) = (IF Resolver!Base(p) # Resolver!Base(h) THEN 65536 ELSE 0) + d
  BY <1>7 DEF Resolver!Affinity
<1> QED
  BY <1>8

\* Of equals the leader is one.
LEMMA LeaderIs ==
  ASSUME NEW S \in SUBSET Seq(Segment), S # {}, NEW h \in Seq(Segment)
  PROVE  Resolver!Leader([p \in S |-> 100], h) \in S
<1> DEFINE score == [p \in S |-> 100]
           far(p) == Resolver!Affinity(p, h)
           closest == {p \in S : \A q \in S : far(p) <= far(q)}
<1>1. Resolver!MaxScore(score) = 100
  <2>1. {score[p] : p \in DOMAIN score} = {100}
    OBVIOUS
  <2> HIDE DEF score
  <2>2. Resolver!Max({100}) = 100
    BY DEF Resolver!Max
  <2> QED
    BY <2>1, <2>2 DEF Resolver!MaxScore
<1>2. {p \in DOMAIN score : Resolver!MaxScore(score) - score[p] < Resolver!AcceptMargin} = S
  <2>1. 100 - 100 < 20
    OBVIOUS
  <2>2. DOMAIN score = S /\ \A p \in S : score[p] = 100
    OBVIOUS
  <2> HIDE DEF score
  <2> QED
    BY <1>1, <2>1, <2>2 DEF Resolver!AcceptMargin
<1>3. Resolver!Leader(score, h) = CHOOSE p \in closest : \A q \in closest : score[p] >= score[q]
  BY <1>2 DEF Resolver!Leader
<1>4. closest # {}
  <2> DEFINE N == {far(p) : p \in S}
  <2>1. N \in SUBSET Nat /\ N # {}
    BY AffinityIs
  <2>2. PICK n \in N : \A k \in N : n <= k
    <3> HIDE DEF N
    <3> QED
      BY <2>1, LeastNumber
  <2>3. PICK p \in S : n = far(p)
    BY <2>2
  <2>4. p \in closest
    BY <2>2, <2>3
  <2> QED
    BY <2>4
<1>5. \E p \in closest : \A q \in closest : score[p] >= score[q]
  <2>1. closest \subseteq S
    OBVIOUS
  <2>2. \A p, q \in S : score[p] >= score[q]
    <3>1. 100 >= 100
      OBVIOUS
    <3> QED
      BY <3>1
  <2> HIDE DEF closest, score
  <2> QED
    BY <1>4, <2>1, <2>2
<1>6. closest \subseteq S
  OBVIOUS
<1> HIDE DEF closest, score
<1>7. Resolver!Leader(score, h) \in closest
  BY <1>3, <1>5
<1> QED
  BY <1>6, <1>7 DEF score
LEMMA SameSize ==
  ASSUME NEW S
  PROVE  Resolver!Cardinality(S) = Cardinality(S)
BY DEF Resolver!Cardinality, Cardinality

\* Where a fresh file note is there is a file.
LEMMA FileHome ==
  ASSUME NEW note, NEW pairs, note.path \in Seq(Segment),
         Resolver!FileResolution(note, tree, pairs).state = "fresh"
  PROVE  \E p \in DOMAIN tree : Resolver!FileResolution(note, tree, pairs).home = {p}
<1> DEFINE h == note.path
           copies == {p \in DOMAIN tree : tree[p] = note.anchor}
           score == Resolver!Scores(note, tree, pairs)
           best == Resolver!Leader(score, h)
           decisive == /\ score[best] >= Resolver!AcceptScore
                       /\ \A p \in DOMAIN score \ {best} :
                            score[best] - score[p] >= Resolver!AcceptMargin
           many == Resolver!Cardinality(copies) > 1
           even == [p \in copies |-> 100]
           pin == Resolver!Asserted(note, tree)
           res == Resolver!FileResolution(note, tree, pairs)
<1>1. res = CASE h \in copies -> Resolver!At("fresh", 1, h)
              [] h \notin copies /\ copies # {} ->
                   Resolver!At(IF many THEN "unconfirmed" ELSE "fresh", 2, Resolver!Leader(even, h))
              [] copies = {} /\ DOMAIN score # {} ->
                   Resolver!At(IF decisive THEN "stale" ELSE "unconfirmed", 3, best)
              [] copies = {} /\ DOMAIN score = {} /\ pin -> Resolver!At("stale", 4, h)
              [] OTHER -> Resolver!Nowhere("orphaned", 5)
  BY DEF Resolver!FileResolution
<1>2. copies \subseteq DOMAIN tree /\ DOMAIN tree \subseteq Seq(Segment)
  <2>1. Seq(STRING) \subseteq Seq(Segment)
    BY SeqMonotonic DEF Segment
  <2>2. DOMAIN tree \subseteq Seq(STRING)
    BY CheckoutAssumption DEF tree
  <2> QED
    BY <2>1, <2>2
<1>3. copies # {} => Resolver!Leader(even, h) \in copies
  <2> HIDE DEF copies, h
  <2> QED
    BY <1>2, LeaderIs DEF h
<1>4. res.state = "fresh"
  OBVIOUS
<1> HIDE DEF copies, score, best, decisive, even, many, pin, res, h
<1>5. CASE h \in copies
  <2>1. res = Resolver!At("fresh", 1, h)
    BY <1>1, <1>5
  <2> QED
    BY <1>2, <1>5, <2>1 DEF Resolver!At, res
<1>6. CASE h \notin copies /\ copies # {}
  <2>1. PICK s : res = Resolver!At(s, 2, Resolver!Leader(even, h))
    BY <1>1, <1>6
  <2> QED
    BY <1>2, <1>3, <1>6, <2>1 DEF Resolver!At, res
<1>7. CASE copies = {} /\ DOMAIN score # {}
  <2>1. PICK s \in {"stale", "unconfirmed"} : res = Resolver!At(s, 3, best)
    BY <1>1, <1>7
  <2>2. res.state = s
    BY <2>1 DEF Resolver!At
  <2> QED
    BY <1>4, <2>1, <2>2
<1>8. CASE copies = {} /\ DOMAIN score = {}
  <2>1. res = Resolver!At("stale", 4, h) \/ res = Resolver!Nowhere("orphaned", 5)
    BY <1>1, <1>8
  <2>2. res.state \in {"stale", "orphaned"}
    BY <2>1 DEF Resolver!At, Resolver!Nowhere
  <2> QED
    BY <1>4, <2>2
<1> QED
  BY <1>5, <1>6, <1>7, <1>8

\* A cut of a path is a path.
LEMMA CutIs ==
  ASSUME NEW S, NEW s \in Seq(S), NEW k \in Int, k <= Len(s)
  PROVE  SubSeq(s, 1, k) \in Seq(S)
<1>1. \A i \in 1 .. k : s[i] \in S
  BY ElementOfSeq
<1> QED
  BY <1>1, SubSeqProperties

\* What is below a folder, by its path from there.
LEMMA MembersAre ==
  ASSUME NEW o, IsFiniteSet(DOMAIN o), DOMAIN o \subseteq Seq(Segment),
         NEW f \in Seq(Segment)
  PROVE  LET M == DOMAIN Resolver!Subtree(o, f)
         IN  IsFiniteSet(M) /\ M \subseteq Seq(Segment)
<1> DEFINE U == Resolver!Under(DOMAIN o, f)
           Lower(p) == SubSeq(p, Len(f) + 1, Len(p))
           M == DOMAIN Resolver!Subtree(o, f)
           g == [p \in U |-> Lower(p)]
<1>1. M = {Lower(p) : p \in U}
  BY DEF Resolver!Subtree
<1>2. U \subseteq DOMAIN o
  BY DEF Resolver!Under
<1>3. IsFiniteSet(U)
  BY <1>2, FS_Subset
<1>4. g \in [U -> M] /\ \A x \in M : \E p \in U : g[p] = x
  BY <1>1
<1>5. ASSUME NEW p \in U PROVE Lower(p) \in Seq(Segment)
  <2>1. p \in Seq(Segment) /\ Len(f) <= Len(p)
    BY DEF Resolver!Under, Resolver!IsStrictPrefix, Resolver!IsPrefix
  <2>2. Len(f) \in 0 .. Len(p)
    BY <2>1
  <2> QED
    BY <2>1, <2>2, RestOf
<1> HIDE DEF U, g
<1>6. M \subseteq Seq(Segment)
  BY <1>1, <1>5
<1> HIDE DEF M
<1>7. IsFiniteSet(M)
  BY <1>3, <1>4, ImageIsFinite
<1> QED
  BY <1>6, <1>7 DEF M

\* The folder a member speaks for.
LEMMA TargetIs ==
  ASSUME NEW to \in Seq(Segment), NEW rel \in Seq(Segment), NEW f \in Resolver!TargetPrefix(to, rel)
  PROVE  f \in Seq(Segment)
<1>1. ASSUME NEW s \in Seq(Segment), NEW t \in Seq(Segment)
      PROVE  SubSeq(s, 1, Len(s) - Len(t)) \in Seq(Segment)
  <2>1. Len(s) - Len(t) \in Int /\ Len(s) - Len(t) <= Len(s)
    OBVIOUS
  <2> QED
    BY <2>1, CutIs
<1>2. f \in {SubSeq(to, 1, Len(to) - Len(rel)),
             SubSeq(Resolver!Dir(to), 1, Len(Resolver!Dir(to)) - Len(Resolver!Dir(rel)))}
  BY DEF Resolver!TargetPrefix
<1>3. Resolver!Dir(to) \in Seq(Segment) /\ Resolver!Dir(rel) \in Seq(Segment)
  BY DirIs
<1> QED
  BY <1>1, <1>2, <1>3

\* What the members vote for.
LEMMA VotesAre ==
  ASSUME NEW key, NEW M, IsFiniteSet(M), M \subseteq Seq(Segment), NEW pairs,
         DOMAIN pairs \subseteq Seq(Segment)
  PROVE  LET vote == Resolver!Votes(key, M, pairs)
         IN  /\ IsFiniteSet(DOMAIN vote)
             /\ \A rel \in DOMAIN vote : vote[rel] \in Seq(Segment)
<1> DEFINE For(rel) == {to \in DOMAIN pairs :
                          pairs[to] = key \o rel /\ Resolver!TargetPrefix(to, rel) # {}}
           voters == {rel \in M : For(rel) # {}}
           vote == Resolver!Votes(key, M, pairs)
<1>1. /\ DOMAIN vote = voters
      /\ \A rel \in voters :
           vote[rel] = CHOOSE f \in Resolver!TargetPrefix(CHOOSE to \in For(rel) : TRUE, rel) : TRUE
  BY DEF Resolver!Votes
<1>2. IsFiniteSet(DOMAIN vote)
  <2>1. voters \subseteq M
    OBVIOUS
  <2> HIDE DEF voters, vote
  <2> QED
    BY <1>1, <2>1, FS_Subset
<1>3. ASSUME NEW rel \in voters PROVE vote[rel] \in Seq(Segment)
  <2> DEFINE to == CHOOSE t \in For(rel) : TRUE
             f == CHOOSE t \in Resolver!TargetPrefix(to, rel) : TRUE
  <2>1. to \in For(rel)
    <3> HIDE DEF For
    <3> QED
      BY <1>3
  <2>2. to \in Seq(Segment) /\ Resolver!TargetPrefix(to, rel) # {} /\ rel \in Seq(Segment)
    BY <1>3, <2>1
  <2>3. vote[rel] = f
    BY <1>1, <1>3
  <2> HIDE DEF to, vote
  <2>4. f \in Resolver!TargetPrefix(to, rel)
    BY <2>2
  <2> HIDE DEF f
  <2>5. f \in Seq(Segment)
    BY <2>2, <2>4, TargetIs
  <2> QED
    BY <2>3, <2>5
<1> QED
  BY <1>1, <1>2, <1>3
LEMMA TallyIs ==
  ASSUME NEW M, NEW vote, NEW t, IsFiniteSet(DOMAIN vote), DOMAIN vote # {},
         Resolver!Tally(M, vote, t).state = "fresh"
  PROVE  \E rel \in DOMAIN vote : Resolver!Tally(M, vote, t).home = {vote[rel]}
<1> DEFINE for(f) == {r \in DOMAIN vote : vote[r] = f}
           paired == Resolver!Cardinality(DOMAIN vote)
           names == {vote[r] : r \in DOMAIN vote}
           count == [f \in names |-> Resolver!Cardinality(for(f))]
           share == [f \in DOMAIN count |-> (count[f] * 100) \div paired]
           winner == CHOOSE f \in DOMAIN count : count[f] = Resolver!MaxScore(count)
           runner == Resolver!Max({0} \cup {share[f] : f \in DOMAIN count \ {winner}})
           coverage == (paired * 100) \div Resolver!Cardinality(M)
           there == Resolver!Cardinality(Resolver!Under(DOMAIN t, winner))
           foreign == IF there > count[winner]
                      THEN ((there - count[winner]) * 100) \div there ELSE 0
           candidates == {f \in DOMAIN share : share[f] >= Resolver!SplitCandidatePct}
           wins == /\ share[winner] > Resolver!FolderMajorityPct
                   /\ share[winner] - runner >= Resolver!FolderMarginPct
                   /\ coverage >= Resolver!FolderCoveragePct
           whole == /\ count[winner] = paired
                    /\ coverage = 100
                    /\ foreign < Resolver!AbsorbedForeignPct
           res == Resolver!Tally(M, vote, t)
<1>1. res = IF wins THEN Resolver!At(IF whole THEN "fresh" ELSE "unconfirmed", 3, winner)
            ELSE [state |-> IF candidates = {} THEN "scattered" ELSE "split",
                  layer |-> 3, home |-> candidates]
  BY Zenon DEF Resolver!Tally
<1>2. names # {} /\ IsFiniteSet(names) /\ \A f \in names : \E rel \in DOMAIN vote : vote[rel] = f
  <2> DEFINE g == [r \in DOMAIN vote |-> vote[r]]
  <2>1. g \in [DOMAIN vote -> names] /\ \A x \in names : \E r \in DOMAIN vote : g[r] = x
    OBVIOUS
  <2>2. names # {}
    OBVIOUS
  <2> HIDE DEF names, g
  <2>3. IsFiniteSet(names)
    BY <2>1, ImageIsFinite
  <2> QED
    BY <2>2, <2>3 DEF names
<1>3. \A f \in names : count[f] \in Nat
  <2> TAKE f \in names
  <2>1. for(f) \subseteq DOMAIN vote
    OBVIOUS
  <2>2. count[f] = Resolver!Cardinality(for(f))
    OBVIOUS
  <2> HIDE DEF for, count
  <2>3. IsFiniteSet(for(f))
    BY <2>1, FS_Subset
  <2>4. Cardinality(for(f)) \in Nat
    BY <2>3, FS_CardinalityType
  <2> QED
    BY <2>2, <2>4, SameSize
<1>4. DOMAIN count = names
  OBVIOUS
<1> HIDE DEF count, names
<1>5. winner \in names
  <2> DEFINE N == {count[f] : f \in names}
             g == [f \in names |-> count[f]]
  <2>1. N \in SUBSET Nat /\ N # {}
    BY <1>2, <1>3
  <2>2. IsFiniteSet(N)
    <3>1. g \in [names -> N] /\ \A x \in N : \E f \in names : g[f] = x
      OBVIOUS
    <3> HIDE DEF N, g
    <3> QED
      BY <1>2, <3>1, ImageIsFinite
  <2>3. Resolver!MaxScore(count) = Max(N)
    BY <1>4 DEF Resolver!MaxScore, Resolver!Max, Max
  <2>4. Max(N) \in N
    <3> HIDE DEF N
    <3> QED
      BY <2>1, <2>2, GreatestIs
  <2>5. \E f \in names : count[f] = Resolver!MaxScore(count)
    BY <2>3, <2>4
  <2> QED
    BY <1>4, <2>5
<1>6. res.state = "fresh"
  OBVIOUS
<1> HIDE DEF wins, whole, candidates, winner, res
<1>7. wins
  <2> SUFFICES ASSUME ~wins PROVE FALSE
    OBVIOUS
  <2>1. PICK s \in {"scattered", "split"} : res = [state |-> s, layer |-> 3, home |-> candidates]
    BY <1>1
  <2>2. res.state = s
    BY <2>1
  <2> QED
    BY <1>6, <2>1, <2>2
<1>8. res.home = {winner}
  <2>1. PICK s : res = Resolver!At(s, 3, winner)
    BY <1>1, <1>7
  <2> QED
    BY <2>1 DEF Resolver!At
<1> QED
  BY <1>2, <1>5, <1>8 DEF res

\* Where a fresh folder note is there is a folder.
LEMMA FolderHome ==
  ASSUME NEW note, NEW pairs, DOMAIN pairs \subseteq Seq(Segment),
         note.path \in Seq(Segment), note.anchor \in Seq(Segment),
         NEW o, note.origin = {o}, IsFiniteSet(DOMAIN o), DOMAIN o \subseteq Seq(Segment),
         Resolver!FolderResolution(note, tree, tree, pairs).state = "fresh"
  PROVE  \E g \in Seq(Segment) : Resolver!FolderResolution(note, tree, tree, pairs).home = {g}
<1> DEFINE h == note.path
           elsewhere == Resolver!Elsewhere(note, tree, tree)
           M == UNION {DOMAIN Resolver!Subtree(q, note.anchor) : q \in note.origin}
           vote == Resolver!Votes(note.anchor, M, pairs)
           even == [f \in elsewhere |-> 100]
           gone == Resolver!Under(DOMAIN tree, h) = {}
           res == Resolver!FolderResolution(note, tree, tree, pairs)
<1>1. res = CASE ~gone -> Resolver!At("fresh", 1, h)
              [] gone /\ M # {} /\ elsewhere # {} ->
                   Resolver!At("fresh", 2, Resolver!Leader(even, h))
              [] gone /\ elsewhere = {} /\ DOMAIN vote # {} -> Resolver!Tally(M, vote, tree)
              [] OTHER -> Resolver!Nowhere("orphaned", 4)
  BY DEF Resolver!FolderResolution
<1>2. DOMAIN tree \subseteq Seq(Segment)
  <2>1. Seq(STRING) \subseteq Seq(Segment)
    BY SeqMonotonic DEF Segment
  <2>2. DOMAIN tree \subseteq Seq(STRING)
    BY CheckoutAssumption DEF tree
  <2> QED
    BY <2>1, <2>2
<1>3. elsewhere \subseteq Seq(Segment)
  <2>1. \A p \in DOMAIN tree : Resolver!Dir(p) \in Seq(Segment)
    BY <1>2, DirIs
  <2>2. \A d \in Seq(Segment) : Resolver!Prefixes(d) \subseteq Seq(Segment)
    BY PartIs DEF Resolver!Prefixes
  <2>3. Resolver!Folders(DOMAIN tree) \subseteq Seq(Segment)
    BY <2>1, <2>2 DEF Resolver!Folders
  <2> QED
    BY <2>3 DEF Resolver!Elsewhere
<1>4. elsewhere # {} => Resolver!Leader(even, h) \in Seq(Segment)
  <2> HIDE DEF elsewhere, h
  <2>1. elsewhere # {} => Resolver!Leader(even, h) \in elsewhere
    BY <1>3, LeaderIs DEF h
  <2> QED
    BY <1>3, <2>1
<1>5. IsFiniteSet(M) /\ M \subseteq Seq(Segment)
  <2>1. M = DOMAIN Resolver!Subtree(o, note.anchor)
    OBVIOUS
  <2> QED
    BY <2>1, MembersAre
<1> HIDE DEF M
<1>6. IsFiniteSet(DOMAIN vote) /\ \A rel \in DOMAIN vote : vote[rel] \in Seq(Segment)
  BY <1>5, VotesAre
<1>7. res.state = "fresh"
  OBVIOUS
<1> HIDE DEF elsewhere, vote, even, gone, res
<1>8. CASE ~gone
  <2>1. res = Resolver!At("fresh", 1, h)
    BY <1>1, <1>8
  <2> QED
    BY <2>1 DEF Resolver!At, res
<1>9. CASE gone /\ M # {} /\ elsewhere # {}
  <2>1. res = Resolver!At("fresh", 2, Resolver!Leader(even, h))
    BY <1>1, <1>9
  <2> QED
    BY <1>4, <1>9, <2>1 DEF Resolver!At, res
<1>10. CASE gone /\ elsewhere = {} /\ DOMAIN vote # {}
  <2>1. res = Resolver!Tally(M, vote, tree)
    BY <1>1, <1>10
  <2>a. PICK v : v = vote
    OBVIOUS
  <2>b. IsFiniteSet(DOMAIN v) /\ DOMAIN v # {} /\ Resolver!Tally(M, v, tree).state = "fresh"
    BY <1>6, <1>7, <1>10, <2>1, <2>a
  <2>2. \E rel \in DOMAIN v : Resolver!Tally(M, v, tree).home = {v[rel]}
    BY <2>b, TallyIs
  <2> QED
    BY <1>6, <2>1, <2>2, <2>a DEF res
<1>11. CASE gone /\ ~(M # {} /\ elsewhere # {}) /\ ~(elsewhere = {} /\ DOMAIN vote # {})
  <2>1. res = Resolver!Nowhere("orphaned", 4)
    BY <1>1, <1>11
  <2>2. res.state = "orphaned"
    BY <2>1 DEF Resolver!Nowhere
  <2> QED
    BY <1>7, <2>2
<1> QED
  BY <1>8, <1>9, <1>10, <1>11

\* A fresh note is at one home, which is a path.
LEMMA HomeIs ==
  ASSUME NEW now, NEW a, a = Only(now.anchor), a.origin \in Commit, a.path \in Paths,
         HintOf(now) \in Paths, Resolution(now).state = "fresh"
  PROVE  \E h \in Paths : Resolution(now).home = {h}
<1>1. PICK o, pairs : o = Trees[a.origin] /\ pairs = Renamed(o)
  OBVIOUS
<1>2. Seq(STRING) \subseteq Seq(Segment)
  BY SeqMonotonic DEF Segment
<1>3. /\ IsFiniteSet(DOMAIN o) /\ DOMAIN o \subseteq Seq(Segment)
      /\ DOMAIN tree \subseteq Paths
  <2>1. /\ IsFiniteSet(DOMAIN o) /\ DOMAIN o \subseteq Seq(STRING)
        /\ DOMAIN tree \subseteq Seq(STRING) \ {<<>>}
    BY <1>1, CheckoutAssumption DEF tree
  <2> QED
    BY <1>2, <2>1 DEF Paths
<1>4. DOMAIN pairs \subseteq Seq(Segment)
  <2>1. DOMAIN pairs \subseteq DOMAIN tree
    BY <1>1 DEF Renamed
  <2> QED
    BY <1>3, <2>1 DEF Paths
<1>5. ASSUME NEW p \in Paths PROVE p \in Seq(Segment) /\ Front(p) \in Seq(Segment)
  <2>1. p \in Seq(Segment) /\ p # <<>>
    BY DEF Paths
  <2>2. Len(p) - 1 \in 0 .. Len(p)
    BY <2>1
  <2>3. SubSeq(p, 1, Len(p) - 1) \in Seq(Segment)
    BY <2>1, <2>2, PartIs
  <2> QED
    BY <2>1, <2>3 DEF Front
<1>6. CASE IsFolder(a.path)
  <2> DEFINE Bare(p) == IF IsFolder(p) THEN Front(p) ELSE p
             note == [folder |-> TRUE, path |-> Bare(HintOf(now)), anchor |-> Front(a.path),
                      pinned |-> Only(now.path).kind = "RP", origin |-> {o}, atHand |-> TRUE]
             res == Resolver!FolderResolution(note, tree, tree, pairs)
  <2>1. note.folder /\ note.path = Bare(HintOf(now)) /\ note.anchor = Front(a.path) /\ note.origin = {o}
    OBVIOUS
  <2>2. Resolution(now) = [res EXCEPT !.home = {Append(g, "") : g \in @}]
    <3>1. Resolver!Resolution(note, tree, tree, pairs) = res
      <4> HIDE DEF note
      <4> QED
        BY <2>1, Zenon DEF Resolver!Resolution
    <3> HIDE DEF res
    <3>2. Resolution(now) = [Resolver!Resolution(note, tree, tree, pairs)
                               EXCEPT !.home = {Append(g, "") : g \in @}]
      BY <1>1, <1>6, Zenon DEF Resolution
    <3> QED
      BY <3>1, <3>2, Zenon
  <2>3. note.path \in Seq(Segment) /\ note.anchor \in Seq(Segment)
    <3> HIDE DEF note
    <3> QED
      BY <1>5, <2>1
  <2>4. PICK end \in Segment : end = ""
    BY Zenon DEF Segment
  <2> HIDE DEF note, res
  <2>5. PICK r : r = Resolution(now) /\ r = [res EXCEPT !.home = {Append(g, end) : g \in @}]
    BY <2>2, <2>4, Zenon
  <2>6. res.state = "fresh"
    BY <2>5
  <2>7. PICK g \in Seq(Segment) : res.home = {g}
    BY <1>3, <1>4, <2>1, <2>3, <2>6, FolderHome DEF res
  <2>8. r.home = {Append(g, end)}
    BY <2>5, <2>7
  <2>9. Append(g, end) \in Paths
    BY WithEnd DEF Paths
  <2> QED
    BY <2>5, <2>8, <2>9
<1>7. CASE ~IsFolder(a.path)
  <2> DEFINE Bare(p) == IF IsFolder(p) THEN Front(p) ELSE p
             note == [folder |-> IsFolder(a.path), path |-> Bare(HintOf(now)), anchor |-> a.blob,
                      pinned |-> Only(now.path).kind = "RP", origin |-> {o}, atHand |-> TRUE]
             res == Resolver!FileResolution(note, tree, pairs)
  <2>1. ~note.folder /\ note.path = Bare(HintOf(now))
    BY <1>7
  <2>2. Resolution(now) = [res EXCEPT !.home = @]
    <3>1. Resolver!Resolution(note, tree, tree, pairs) = res
      <4> HIDE DEF note
      <4> QED
        BY <2>1, Zenon DEF Resolver!Resolution
    <3> HIDE DEF res
    <3>2. Resolution(now) = [Resolver!Resolution(note, tree, tree, pairs) EXCEPT !.home = @]
      BY <1>1, <1>7, Zenon DEF Resolution
    <3> QED
      BY <3>1, <3>2, Zenon
  <2>3. note.path \in Seq(Segment)
    <3> HIDE DEF note
    <3> QED
      BY <1>5, <2>1
  <2> HIDE DEF note, res
  <2>4. PICK r : r = Resolution(now) /\ r = [res EXCEPT !.home = @]
    BY <2>2
  <2>5. res.state = "fresh"
    BY <2>4
  <2>6. PICK p \in DOMAIN tree : res.home = {p}
    BY <2>3, <2>5, FileHome DEF res
  <2>7. r.home = {p}
    BY <2>4, <2>6
  <2> QED
    BY <1>3, <2>4, <2>6, <2>7
<1> QED
  BY <1>6, <1>7
-----------------------------------------------------------------------------
(* No note is out of reach.                                                *)

\* A note, or what moves one, is of a commit and on a path.
Placed(x) == x.kind \in Note \cup Mark => x.origin \in Commit /\ x.path \in Paths
PathInv == \A x \in records : Placed(x)

LEMMA PathOf ==
  Seq(STRING) \ {<<>>} \subseteq Paths
<1>1. Seq(STRING) \subseteq Seq(Segment)
  BY SeqMonotonic DEF Segment
<1> QED
  BY <1>1 DEF Paths

\* What there is is at a path.
LEMMA ExistsIs ==
  ASSUME NEW p, Exists(p)
  PROVE  p \in Paths
<1>1. DOMAIN tree \subseteq Seq(STRING) \ {<<>>}
  BY CheckoutAssumption DEF tree
<1>2. PICK end \in Segment : end = ""
  BY Zenon DEF Segment
<1>3. \/ p \in DOMAIN tree
      \/ \E q \in DOMAIN tree : p \in {Append(SubSeq(q, 1, i), end) : i \in 0 .. Len(q) - 1}
  BY <1>2, Zenon DEF Exists
<1>4. CASE p \in DOMAIN tree
  BY <1>1, <1>4, PathOf
<1>5. ASSUME NEW q \in DOMAIN tree, NEW i \in 0 .. Len(q) - 1, p = Append(SubSeq(q, 1, i), end)
      PROVE  p \in Paths
  <2>1. q \in Seq(Segment)
    BY <1>1, PathOf DEF Paths
  <2>2. i \in 0 .. Len(q)
    BY <2>1
  <2>3. SubSeq(q, 1, i) \in Seq(Segment)
    BY <2>1, <2>2, PartIs
  <2> QED
    BY <1>5, <2>3, WithEnd DEF Paths
<1> QED
  BY <1>3, <1>4, <1>5

LEMMA PathInit == Init => PathInv
<1> SUFFICES ASSUME Init PROVE PathInv
  OBVIOUS
<1>1. PICK s \in Start : records = s.records
  BY DEF Init
<1>2. records \subseteq Record
  BY <1>1, CommandsAssumption
<1>3. \A x \in Record : Placed(x)
  BY CommandsAssumption, PathOf DEF Placed
<1> QED
  BY <1>2, <1>3 DEF PathInv

LEMMA AbsorbPlaced ==
  ASSUME PathInv, NEW m, NEW x, Placed(x), Absorb(m, x)
  PROVE  PathInv'
<1>1. records' = records \cup {x}
  BY DEF Absorb
<1> QED
  BY <1>1 DEF PathInv, Placed

\* What a command writes about a note is at a path of this checkout.
LEMMA StampPlaced ==
  ASSUME NEW kind, NEW e, NEW p, Exists(p), NEW x,
         x = Stamp(kind, e, p) \/ x = [Rec(kind, e) EXCEPT !.origin = Here, !.path = p]
  PROVE  Placed(x)
<1>1. p \in Paths /\ Here \in Commit
  BY ExistsIs, CheckoutAssumption
<1>2. x.origin = Here /\ x.path = p
  BY DEF Stamp, Rec
<1> QED
  BY <1>1, <1>2 DEF Placed

\* What it writes otherwise is about no place.
LEMMA OtherPlaced ==
  ASSUME NEW x, x.kind \in {"TB", "FB", "LN", "UL", "VD"}
  PROVE  Placed(x)
BY DEF Placed, Note, Mark

LEMMA CommandPlaced ==
  ASSUME BatchInv, ChainsEnd, PathInv, Command
  PROVE  PathInv'
<1>1. ASSUME NEW e \in Entry, NEW p \in Places, Create(e, p) PROVE PathInv'
  <2>1. PICK x : x = Stamp("CR", e, p)
    OBVIOUS
  <2>2. Absorb(memo, x) /\ Exists(p)
    BY <1>1, <2>1 DEF Create, Commits
  <2>3. Placed(x)
    BY <2>1, <2>2, StampPlaced
  <2> QED
    BY <2>2, <2>3, AbsorbPlaced
<1>2. ASSUME NEW S \in Handles, Repair(HasRead(S), S) PROVE PathInv'
  <2>1. PICK n, e : \/ Tombstone(n, e)
                    \/ \E kind \in {"SU", "RA"} : \E p : Exists(p) /\ Repairs(n, kind, e, p)
    BY <1>2, RepairIs
  <2>2. CASE Tombstone(n, e)
    <3>1. PICK x : x = Rec("TB", e)
      OBVIOUS
    <3>2. Placed(x)
      <4>1. x.kind = "TB"
        BY <3>1 DEF Rec
      <4> QED
        BY <4>1, OtherPlaced
    <3>3. Absorb(n, x)
      BY <2>2, <3>1 DEF Tombstone, Commits
    <3> QED
      BY <3>2, <3>3, AbsorbPlaced
  <2>3. CASE \E kind \in {"SU", "RA"} : \E p : Exists(p) /\ Repairs(n, kind, e, p)
    <3>1. PICK kind \in {"SU", "RA"} : \E p : Exists(p) /\ Repairs(n, kind, e, p)
      BY <2>3
    <3>2. PICK p : Exists(p) /\ Repairs(n, kind, e, p)
      BY <3>1
    <3>3. PICK x : x = Stamp(kind, e, p)
      OBVIOUS
    <3>4. Absorb(n, x)
      BY <3>2, <3>3 DEF Repairs
    <3>5. Placed(x)
      BY <3>2, <3>3, StampPlaced
    <3> QED
      BY <3>4, <3>5, AbsorbPlaced
  <2> QED
    BY <2>1, <2>2, <2>3
<1>3. ASSUME NEW n, NEW x, x.kind \in {"FB", "LN", "UL", "VD"}, Commits(n, x) PROVE PathInv'
  <2>1. Placed(x)
    BY <1>3, OtherPlaced
  <2> QED
    BY <1>3, <2>1, AbsorbPlaced DEF Commits
<1>4. ASSUME NEW S \in Handles, Feedback(HasSeen(memo, S), S) PROVE PathInv'
  <2>1. PICK n : n = HasSeen(memo, S)
    OBVIOUS
  <2>2. PICK e \in S : Commits(n, Rec("FB", e))
    BY <1>4, <2>1 DEF Feedback
  <2>3. PICK x : x = Rec("FB", e)
    OBVIOUS
  <2>4. x.kind = "FB"
    BY <2>3 DEF Rec
  <2> QED
    BY <1>3, <2>2, <2>3, <2>4
<1>5. ASSUME NEW m, NEW n, NEW S, NEW T, Link(m, S, T) \/ Unlink(n, S, T) PROVE PathInv'
  <2>1. CASE Link(m, S, T)
    <3>1. PICK d, e : Commits(m, [Rec("LN", d) EXCEPT !.to = e])
      BY <2>1 DEF Link
    <3>2. PICK x : x = [Rec("LN", d) EXCEPT !.to = e]
      OBVIOUS
    <3>3. x.kind = "LN"
      BY <3>2 DEF Rec
    <3>4. Commits(m, x)
      BY <3>1, <3>2
    <3> QED
      BY <1>3, <3>3, <3>4
  <2>2. CASE Unlink(n, S, T)
    <3>1. PICK d, e : Commits(n, [Rec("UL", d) EXCEPT !.to = e])
      BY <2>2 DEF Unlink
    <3>2. PICK x : x = [Rec("UL", d) EXCEPT !.to = e]
      OBVIOUS
    <3>3. x.kind = "UL"
      BY <3>2 DEF Rec
    <3>4. Commits(n, x)
      BY <3>1, <3>2
    <3> QED
      BY <1>3, <3>3, <3>4
  <2> QED
    BY <1>5, <2>1, <2>2
<1>6. ASSUME NEW o, NEW as, Verdict(o, as) PROVE PathInv'
  <2>1. PICK x : x = [Rec("VD", None) EXCEPT !.origin = o, !.as = as]
    OBVIOUS
  <2>2. x.kind = "VD"
    BY <2>1 DEF Rec
  <2>3. Commits(memo, x)
    BY <1>6, <2>1 DEF Verdict
  <2> QED
    BY <1>3, <2>2, <2>3
<1>7. ASSUME NEW n, NEW verb, NEW p, NEW q, Macro(n, verb, p, q) PROVE PathInv'
  <2>1. records' = records
    BY <1>7 DEF Macro
  <2> QED
    BY <2>1 DEF PathInv, Placed
<1> QED
  BY <1>1, <1>2, <1>4, <1>5, <1>6, <1>7 DEF Command

LEMMA PathStep ==
  ASSUME BatchInv, ChainsEnd, PathInv, [Next]_vars
  PROVE  PathInv'
<1>1. ASSUME UNCHANGED records PROVE PathInv'
  BY <1>1 DEF PathInv, Placed
<1>2. ASSUME MacroStep PROVE PathInv'
  <2>1. PICK l \in last :
          LET e == Head(l.todo)
              to == Destination(HintOf(memo.folded[e]), l.old, l.new)
          IN  CASE l.verb = "rm" -> Absorb(memo, Rec("TB", e))
                [] l.verb = "mv" /\ Exists(to) ->
                     Absorb(memo, [Rec("RP", e) EXCEPT !.origin = Here, !.path = to])
                [] OTHER -> UNCHANGED <<checkout, records, memo>>
    BY <1>2 DEF MacroStep
  <2>2. PICK e, to : e = Head(l.todo) /\ to = Destination(HintOf(memo.folded[e]), l.old, l.new)
    OBVIOUS
  <2>3. PICK x, y : x = Rec("TB", e) /\ y = [Rec("RP", e) EXCEPT !.origin = Here, !.path = to]
    OBVIOUS
  <2>4. \/ Absorb(memo, x)
        \/ Exists(to) /\ Absorb(memo, y)
        \/ UNCHANGED records
    BY <2>1, <2>2, <2>3
  <2>5. Placed(x) /\ (Exists(to) => Placed(y))
    <3>1. x.kind = "TB"
      BY <2>3 DEF Rec
    <3>2. Placed(x)
      BY <3>1, OtherPlaced
    <3>3. Exists(to) => Placed(y)
      BY <2>3, StampPlaced
    <3> QED
      BY <3>2, <3>3
  <2> QED
    BY <1>1, <2>4, <2>5, AbsorbPlaced
<1>3. ASSUME NextBatch PROVE PathInv'
  <2>1. \/ UNCHANGED records
        \/ \E x \in Record : records' = AddAbsent(records, {x})
    BY <1>3 DEF NextBatch
  <2>2. ASSUME NEW x \in Record, records' = AddAbsent(records, {x}) PROVE PathInv'
    <3>1. Placed(x)
      BY CommandsAssumption, PathOf DEF Placed
    <3>2. records' \subseteq records \cup {x}
      BY <2>2 DEF AddAbsent
    <3> QED
      BY <3>1, <3>2 DEF PathInv, Placed
  <2> QED
    BY <1>1, <2>1, <2>2
<1>4. ASSUME Look \/ UNCHANGED vars PROVE PathInv'
  BY <1>1, <1>4 DEF Look, vars
<1> QED
  BY <1>2, <1>3, <1>4, CommandPlaced DEF Next

\* A note is written before what moves it.
NotesFirst ==
  \A r \in records : r.kind \in Mark => \E n \in Notes(records, r.entry) : n.id < r.id

\* What a living note is read from is of commits, and on paths.
LEMMA WrittenAt ==
  ASSUME StoreInv, PathInv, NotesFirst, NEW e, NEW now, now = ReadingIn(checkout, records, e),
         Present(now)
  PROVE  /\ Only(now.anchor).origin \in Commit /\ Only(now.anchor).path \in Paths
         /\ HintOf(now) \in Paths
<1>1. PICK L : L = LandedIn(checkout, records, e)
  OBVIOUS
<1>2. Says(now, records, e, L)
  BY <1>1, ReadingSays DEF ReadingIn
<1> DEFINE N == NewestLanded(records, e, Note \cup {"RA"}, L)
           older == {n \in Notes(records, e) : \E m \in now.path : n.id < m.id}
<1>3. /\ now.path # {} /\ now.path = NewestLanded(records, e, Note \cup Mark, L)
      /\ now.anchor = IF N # {} THEN N ELSE Rescue(records, e, L)
      /\ Rescue(records, e, L) = NewestOf(older)
  BY <1>2 DEF Says, Present, Rescue
<1>4. ASSUME NEW K, NEW x \in NewestLanded(records, e, K, L)
      PROVE  x \in records /\ x.entry = e /\ x.kind \in K /\ x \in LandedOf(records, e, K, L)
  BY DEF NewestLanded, NewestOf, LandedOf, OfEntry
<1>5. \A x \in NewestOf(older) : x \in records /\ x.kind \in Note
  BY DEF NewestOf, Notes, OfEntry
<1>6. PICK x \in now.path : x = Only(now.path)
  BY <1>3 DEF Only
<1>7. HintOf(now) \in Paths
  <2>1. x \in records /\ x.kind \in Note \cup Mark
    BY <1>3, <1>4, <1>6
  <2> QED
    BY <1>6, <2>1 DEF HintOf, PathInv, Placed
<1>8. now.anchor # {}
  <2>1. CASE N # {}
    BY <1>3, <2>1
  <2>2. CASE N = {}
    <3>1. /\ x \in records /\ x.entry = e /\ x.kind \in Note \cup Mark
          /\ x \in LandedOf(records, e, Note \cup Mark, L)
      BY <1>3, <1>4, <1>6
    <3>2. x.kind \in Mark
      <4> SUFFICES ASSUME x.kind \in Note PROVE FALSE
        BY <3>1
      <4>1. x \in LandedOf(records, e, Note \cup {"RA"}, L)
        BY <3>1 DEF LandedOf
      <4>2. LandedOf(records, e, Note \cup {"RA"}, L) \in SUBSET records
        BY DEF LandedOf, OfEntry
      <4>3. NewestOf(LandedOf(records, e, Note \cup {"RA"}, L)) # {}
        BY <4>1, <4>2, NewestIs
      <4> QED
        BY <2>2, <4>3 DEF NewestLanded
    <3>3. PICK n \in Notes(records, e) : n.id < x.id
      BY <3>1, <3>2 DEF NotesFirst
    <3>4. n \in older
      BY <3>3
    <3>5. older \in SUBSET records
      BY DEF Notes, OfEntry
    <3>6. NewestOf(older) # {}
      BY <3>4, <3>5, NewestIs
    <3> QED
      BY <1>3, <2>2, <3>6
  <2> QED
    BY <2>1, <2>2
<1> HIDE DEF N
<1>9. PICK y \in now.anchor : y = Only(now.anchor)
  BY <1>8 DEF Only
<1>10. y \in records /\ y.kind \in Note \cup Mark
  <2>1. CASE y \in N
    BY <1>4, <2>1 DEF N, Mark
  <2>2. CASE y \in NewestOf(older)
    BY <1>5, <2>2
  <2> QED
    BY <1>3, <1>9, <2>1, <2>2
<1> QED
  BY <1>7, <1>9, <1>10 DEF PathInv, Placed

\* The verbs take what is to be taken, by its handle and by its name.
LEMMA TakesIt ==
  ASSUME NEW m, NEW e \in Known
  PROVE  /\ ~m.folded[e].deleted /\ (m.folded[e].landed \/ LineageOf(e, m) = "abandoned")
            => e \in Addressed(m, HandleOf(e), TRUE) /\ Addressed(m, {e}, TRUE) = {e}
         /\ e \in Visible(m)
            => e \in Addressed(m, HandleOf(e), FALSE) /\ Addressed(m, {e}, FALSE) = {e}
BY HandleHasIt DEF Addressed

LEMMA ReachIs ==
  ASSUME BatchInv, ChainsEnd, PathInv, NotesFirst, NEW m, m = Anew, NEW e \in Known
  PROVE  InReach(m, e)
<1>1. StoreInv /\ Current(checkout, records, m) /\ Classified(m) /\ Has(m, e)
  BY AnewIs DEF BatchInv, ChainsEnd
<1>2. PICK now : now = m.folded[e]
  OBVIOUS
<1>3. now = ReadingIn(checkout, records, e) /\ e \in DOMAIN m.folded
  BY <1>1, <1>2 DEF Current, Has
<1> DEFINE Takes(repair) == /\ e \in Addressed(m, HandleOf(e), repair)
                            /\ Addressed(m, {e}, repair) = {e}
<1>4. \/ now.deleted
      \/ /\ e \in Visible(m)
         /\ \E h \in m.resolved[e].home : \E p \in Pages(m, Len(h)) : e \in Shown(p, m)
         /\ Takes(FALSE) /\ Takes(TRUE)
      \/ e \in Debt(m) /\ Takes(TRUE)
      \/ LineageOf(e, m) \in {"pending-elsewhere", "unknown"}
      => InReach(m, e)
  BY <1>2 DEF InReach
<1>5. ~now.deleted /\ (now.landed \/ LineageOf(e, m) = "abandoned") => Takes(TRUE)
  BY <1>2, TakesIt
<1>6. e \in Visible(m) => Takes(FALSE)
  BY TakesIt
<1> HIDE DEF Takes
<1>7. CASE now.deleted
  BY <1>4, <1>7
<1>8. CASE ~now.deleted /\ ~now.landed
  <2>1. LineageOf(e, m) \in {"pending-elsewhere", "unknown", "abandoned"}
    BY <1>1, <1>2, <1>3, <1>8, UnlandedIs
  <2>2. CASE LineageOf(e, m) = "abandoned"
    <3>1. e \in Debt(m)
      BY <1>2, <1>8, <2>2 DEF Debt
    <3> QED
      BY <1>4, <1>5, <1>8, <2>2, <3>1
  <2> QED
    BY <1>4, <2>1, <2>2
<1>9. CASE ~now.deleted /\ now.landed
  <2>1. Present(now)
    BY <1>9 DEF Present
  <2>2. PICK at : at = Resolution(now)
    OBVIOUS
  <2>3. e \in DOMAIN m.resolved /\ m.resolved[e] = at
    BY <1>1, <1>3, <2>1, <2>2 DEF Has, Current
  <2>4. CASE at.state # "fresh" \/ now.disputed
    <3>1. e \in Debt(m)
      BY <1>2, <1>9, <2>3, <2>4 DEF Debt
    <3> QED
      BY <1>4, <1>5, <1>9, <3>1
  <2>5. CASE at.state = "fresh"
    <3>1. e \in Visible(m)
      BY <2>3, <2>5 DEF Visible, Resolver!Visible
    <3>2. /\ Only(now.anchor).origin \in Commit /\ Only(now.anchor).path \in Paths
          /\ HintOf(now) \in Paths
      BY <1>1, <1>3, <2>1, WrittenAt
    <3>3. PICK h \in Paths : at.home = {h}
      BY <2>2, <2>5, <3>2, HomeIs
    <3>4. \E p \in Pages(m, Len(h)) : e \in Shown(p, m)
      BY <2>3, <3>1, <3>3, IsReached
    <3> QED
      BY <1>4, <1>5, <1>6, <1>9, <2>3, <3>1, <3>3, <3>4
  <2> QED
    BY <2>4, <2>5
<1> QED
  BY <1>7, <1>8, <1>9

\* While dm follows all chains of verdicts to their ends, and no mark comes
\* without its note, no living note of this line is lost to its readers: one that
\* has landed comes on a page below the root's, as many steps down as its home is
\* long, or on the worklist, one whose line is dead on the worklist, and the verbs
\* take it by its handle.
THEOREM NothingIsOutOfReach == Spec /\ []ChainsEnd /\ []NotesFirst => []NoNoteIsOutOfReach
<1>1. BatchInv /\ ChainsEnd /\ PathInv /\ [Next]_vars => PathInv'
  BY PathStep
<1>2. BatchInv /\ ChainsEnd /\ PathInv /\ NotesFirst => NoNoteIsOutOfReach
  BY ReachIs DEF NoNoteIsOutOfReach
<1> QED
  BY PathInit, BatchInvariant, <1>1, <1>2, PTL DEF Spec

=============================================================================
