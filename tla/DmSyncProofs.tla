---------------------------- MODULE DmSyncProofs ----------------------------
(***************************************************************************)
(* Proofs about DmSync, for any number of clones, records and compactions: *)
(* its type invariant; as long as every clone has its remote from the      *)
(* start, that no acknowledged record is ever lost, that it implements     *)
(* SharedStore, and that a clone reads what it wrote; that the merge it    *)
(* rests on is a join; then what lands beside the records, which is the    *)
(* counts of what was read and the contents that notes are anchored to;    *)
(* and that what is deleted stays so.                                      *)
(***************************************************************************)
EXTENDS DmSync, Induction

Tree == [tree : StoreSet, at : CommitTime]

-----------------------------------------------------------------------------
(* The store as a value.                                                   *)

\* The elements of a sequence are of what the sequence is of.
LEMMA EltType ==
  ASSUME NEW S, NEW c \in Seq(S), NEW i \in 1 .. Len(c)
  PROVE  c[i] \in S
OBVIOUS

\* And one more of it can be appended.
LEMMA AppendType ==
  ASSUME NEW S, NEW c \in Seq(S), NEW x \in S
  PROVE  Append(c, x) \in Seq(S)
OBVIOUS

\* What there is before anything is written.
LEMMA EmptyType == EmptySet \in StoreSet /\ NoStats \in Stats /\ NoCommit \in Commit
BY DEF EmptySet, StoreSet, Stats, NoStats, Row, ZeroRow, NoCommit, Commit

\* Reading a tip gives a store.
LEMMA ContentType ==
  ASSUME NEW c \in Commit
  PROVE  Content(c) \in StoreSet
<1>1. EmptySet \in StoreSet
  BY EmptyType
<1>2. CASE c = NoCommit
  BY <1>1, <1>2 DEF Content
<1>3. CASE c # NoCommit
  <2>1. c \in Seq(Tree)
    BY DEF Commit, Tree
  <2>2. Len(c) \in 1 .. Len(c)
    BY <2>1, <1>3 DEF NoCommit
  <2>3. c[Len(c)] \in Tree
    BY <2>1, <2>2, EltType
  <2> QED BY <1>3, <2>3 DEF Content, Tree
<1> QED BY <1>2, <1>3

\* The merges of register files are register files.
LEMMA StatsType ==
  ASSUME NEW a \in Stats, NEW b \in Stats
  PROVE  MergeStats(a, b) \in Stats /\ AddStats(a, b) \in Stats
BY DEF MergeStats, AddStats, Stats, Row, Larger

\* The merge of two stores is a store.
LEMMA MergeType ==
  ASSUME NEW a \in StoreSet, NEW b \in StoreSet
  PROVE  Merge(a, b) \in StoreSet
<1>1. \A q \in Replica : MergeStats(a.stats[q], b.stats[q]) \in Stats
  BY StatsType DEF StoreSet
<1>2. MergeRecords(a.recs, b.recs) \subseteq Record
  BY DEF MergeRecords, StoreSet
<1> QED BY <1>1, <1>2 DEF Merge, StoreSet

\* Adding what a replica has pending to a store gives a store.
LEMMA WithOwnType ==
  ASSUME NEW s \in StoreSet, NEW R \in SUBSET Record, NEW B \in SUBSET Blob,
         NEW q \in Replica, NEW d \in Stats
  PROVE  WithOwn(s, R, B, q, d) \in StoreSet
<1>1. AddStats(s.stats[q], d) \in Stats
  BY StatsType DEF StoreSet
<1>2. AddAbsent(s.recs, R) \subseteq Record
  BY DEF AddAbsent, StoreSet
<1> QED BY <1>1, <1>2 DEF WithOwn, StoreSet

\* A commit on a commit is a commit.
LEMMA StoreCommitType ==
  ASSUME NEW s \in StoreSet, NEW tip \in Commit, NEW at \in CommitTime
  PROVE  StoreCommit(s, tip, at) \in Commit
<1>1. Content(tip) \in StoreSet
  BY ContentType
<1>2. Overlay(s, Content(tip)) \in StoreSet
  <2>1. AddAbsent(Content(tip).recs, s.recs) \subseteq Record
    BY <1>1 DEF AddAbsent, StoreSet
  <2> QED BY <1>1, <2>1 DEF Overlay, StoreSet
<1>3. [tree |-> Overlay(s, Content(tip)), at |-> at] \in Tree
  BY <1>2 DEF Tree
<1>4. tip \in Seq(Tree) /\ Commit = Seq(Tree)
  BY DEF Commit, Tree
<1>5. Append(tip, [tree |-> Overlay(s, Content(tip)), at |-> at]) \in Commit
  BY <1>3, <1>4, AppendType
<1> QED BY <1>5 DEF StoreCommit

\* What a sweep keeps is a store, one epoch on, of records that were there.
LEMMA SweptType ==
  ASSUME NEW s \in StoreSet, NEW aged
  PROVE  Swept(s, aged) \in StoreSet
<1>1. KeptRecords(s.recs, aged) \subseteq s.recs
  BY DEF KeptRecords, KeptLinks, KeptVerdicts
<1>2. KeptBlobs(s.blobs, KeptRecords(s.recs, aged)) \subseteq s.blobs
  BY DEF KeptBlobs
<1>3. [q \in Replica |-> [e \in Entry |->
         IF Living(s.recs, e) THEN s.stats[q][e] ELSE ZeroRow]] \in [Replica -> Stats]
  BY DEF StoreSet, Stats, Row, ZeroRow
<1> QED BY <1>1, <1>2, <1>3 DEF Swept, StoreSet

\* An orphan commit of a store is a commit.
LEMMA CompactType ==
  ASSUME NEW s \in StoreSet, NEW at \in CommitTime
  PROVE  Compact(s, at) \in Commit
BY DEF Compact, Commit

\* The contents that come with a commit are contents.
LEMMA BlobsType ==
  ASSUME NEW c \in Commit
  PROVE  BlobsOf(c) \subseteq Blob
<1>1. c \in Seq(Tree)
  BY DEF Commit, Tree
<1>2. \A i \in DOMAIN c : c[i] \in Tree
  BY <1>1, EltType
<1> QED BY <1>2 DEF BlobsOf, Tree, StoreSet

-----------------------------------------------------------------------------
(* Type correctness.                                                       *)

\* What the helpers assign has the right type.
LEMMA ExitType ==
  ASSUME TypeOK, NEW r \in Replica, Exit(r)
  PROVE  /\ pc' \in [Replica -> Pcs]
         /\ snap' \in [Replica -> StoreSet]
         /\ own' \in [Replica -> SUBSET Record]
         /\ base' \in [Replica -> Commit]
         /\ cand' \in [Replica -> Commit]
         /\ attempt' \in [Replica -> 1 .. MaxAttempts]
BY EmptyType, SyncAssumption DEF TypeOK, Exit, Pcs

\* The refspec is ensured or not.
LEMMA EnsureType ==
  ASSUME TypeOK, NEW r \in Replica, EnsureRefspec(r)
  PROVE  linked' \in [Replica -> {"none", "added", "ensured"}]
BY DEF TypeOK, EnsureRefspec

\* A fetch leaves a mirror and an object database.
LEMMA FetchType ==
  ASSUME TypeOK, NEW r \in Replica, FetchInto(r)
  PROVE  /\ mirror' \in [Replica -> Commit]
         /\ odb' \in [Replica -> SUBSET Blob]
<1>1. BlobsOf(remote) \subseteq Blob
  BY BlobsType DEF TypeOK
<1> QED BY <1>1 DEF TypeOK, FetchInto

\* The variables of every reachable state have their types.
THEOREM TypeCorrect == Spec => []TypeOK
<1>1. Init => TypeOK
  BY EmptyType, SyncAssumption DEF Init, TypeOK, Pcs
<1>2. TypeOK /\ [Next]_vars => TypeOK'
  <2> SUFFICES ASSUME TypeOK, [Next]_vars
               PROVE  TypeOK'
    OBVIOUS
  <2>1. ASSUME NEW r \in Replica, DmInit(r)
        PROVE  TypeOK'
    <3>1. mirror' \in [Replica -> Commit] /\ odb' \in [Replica -> SUBSET Blob]
      BY <2>1, FetchType DEF DmInit, TypeOK
    <3>2. linked' \in [Replica -> {"none", "added", "ensured"}]
      BY <2>1, EnsureType DEF DmInit
    <3> QED BY <2>1, <3>1, <3>2 DEF DmInit, TypeOK, session, ghosts
  <2>0. ASSUME NEW r \in Replica, CreateStore(r)
        PROVE  TypeOK'
    <3>1. \A at \in CommitTime : StoreCommit(EmptySet, NoCommit, at) \in Commit
      BY EmptyType, StoreCommitType
    <3> QED BY <2>0, <3>1 DEF CreateStore, TypeOK, session, ghosts
  <2>2. ASSUME NEW r \in Replica, DmInitFails(r)
        PROVE  TypeOK'
    <3>1. linked' \in [Replica -> {"none", "added", "ensured"}]
      BY <2>2, EnsureType DEF DmInitFails, TypeOK
    <3>2. inited' \in [Replica -> {"no", "creating", "yes"}]
      BY <2>2 DEF DmInitFails, TypeOK
    <3>3. faults' \in Nat
      BY <2>2 DEF DmInitFails, TypeOK
    <3> QED BY <2>2, <3>1, <3>2, <3>3 DEF DmInitFails, TypeOK, session
  <2>3. ASSUME NEW r \in Replica, AddRemote(r)
        PROVE  TypeOK'
    BY <2>3 DEF AddRemote, TypeOK, session, ghosts
  <2>4. ASSUME NEW r \in Replica, GitFetch(r)
        PROVE  TypeOK'
    BY <2>4, FetchType DEF GitFetch, TypeOK, session, ghosts
  <2>5. ASSUME NEW r \in Replica, NEW x \in Record, Write(r, x)
        PROVE  TypeOK'
    <3>1. x.blob # None => x.blob \in Blob
      BY RecordAssumption
    <3> QED BY <2>5, <3>1 DEF Write, TypeOK, session
  <2>6. ASSUME NEW r \in Replica, NEW x \in Record, WriteDies(r, x)
        PROVE  TypeOK'
    <3>1. x.blob # None => x.blob \in Blob
      BY RecordAssumption
    <3> QED BY <2>6, <3>1 DEF WriteDies, TypeOK, session
  <2>7. ASSUME NEW r \in Replica, NEW e \in Entry, Bump(r, e)
        PROVE  TypeOK'
    <3> DEFINE delta == [NoStats EXCEPT ![e] = [n |-> 1, t |-> bumped[r][e] + 1]]
    <3>1. delta \in Stats
      BY EmptyType DEF TypeOK, Stats, Row
    <3>2. AddStats(pstats[r], delta) \in Stats
      BY <3>1, StatsType DEF TypeOK
    <3>3. pstats' \in [Replica -> Stats]
      BY <2>7, <3>2 DEF Bump, TypeOK
    <3>4. bumped' \in [Replica -> [Entry -> Nat]]
      <4> DEFINE row == [bumped[r] EXCEPT ![e] = @ + 1]
      <4>1. row \in [Entry -> Nat]
        BY DEF TypeOK
      <4>2. bumped' = [bumped EXCEPT ![r] = row]
        BY <2>7 DEF Bump
      <4> HIDE DEF row
      <4> QED
        BY <4>1, <4>2 DEF TypeOK
    <3> QED BY <2>7, <3>3, <3>4 DEF Bump, TypeOK, session
  <2>8. ASSUME NEW r \in Replica, SyncOpen(r) \/ SyncOpenSkipping(r)
        PROVE  TypeOK'
    <3>1. pc' \in [Replica -> Pcs]
      <4>1. \E p \in {"fetch", "mint"} : pc' = [pc EXCEPT ![r] = p]
        BY <2>8 DEF SyncOpen, SyncOpenSkipping, Goto
      <4> QED
        BY <4>1 DEF TypeOK, Pcs, SyncPcs
    <3>2. Content(mirror[r]) \in StoreSet
      BY ContentType DEF TypeOK
    <3>3. Open(r)
      BY <2>8 DEF SyncOpen, SyncOpenSkipping
    <3>4. linked' \in [Replica -> {"none", "added", "ensured"}]
      BY <3>3, EnsureType DEF Open
    <3> QED BY <3>1, <3>2, <3>3, <3>4 DEF Open, TypeOK, ghosts
  <2>9. ASSUME NEW r \in Replica, SyncFetch(r)
        PROVE  TypeOK'
    <3>1. pc' \in [Replica -> Pcs]
      BY <2>9 DEF SyncFetch, Goto, TypeOK, Pcs, SyncPcs
    <3> QED BY <2>9, <3>1, FetchType DEF SyncFetch, TypeOK, ghosts
  <2>10. ASSUME NEW r \in Replica, Mint(r)
        PROVE  TypeOK'
    <3>1. pc' \in [Replica -> Pcs]
      BY <2>10 DEF Mint, Goto, TypeOK, Pcs, SyncPcs
    <3>2. Mintable(r) \subseteq SUBSET Record
      BY DEF Mintable
    <3>3. PICK V \in Mintable(r) :
            /\ pending' = [pending EXCEPT ![r] = @ \cup V]
            /\ own' = [own EXCEPT ![r] = pending[r] \cup V]
            /\ authored' = [authored EXCEPT ![r] = @ \cup V]
      BY <2>10 DEF Mint
    <3>4. V \subseteq Record
      BY <3>2, <3>3
    <3>5. /\ pending' \in [Replica -> SUBSET Record]
          /\ own' \in [Replica -> SUBSET Record]
          /\ authored' \in [Replica -> SUBSET Record]
      BY <3>3, <3>4 DEF TypeOK
    <3> QED BY <2>10, <3>1, <3>5 DEF Mint, TypeOK
  <2>11. ASSUME NEW r \in Replica, Build(r)
        PROVE  TypeOK'
    <3>1. Merged(r) \in StoreSet
      <4>1. Content(mirror[r]) \in StoreSet /\ snap[r] \in StoreSet
        BY ContentType DEF TypeOK
      <4>2. Merge(snap[r], Content(mirror[r])) \in StoreSet
        BY <4>1, MergeType
      <4> QED BY <4>2, WithOwnType DEF Merged, TypeOK
    <3>2. PICK at \in CommitTime :
             LET commit == StoreCommit(Merged(r), mirror[r], at)
             IN  /\ cand' = [cand EXCEPT ![r] = commit]
                 /\ odb' = [odb EXCEPT ![r] = @ \cup BlobsOf(commit)]
                 /\ pc' = [pc EXCEPT ![r] = IF mirror[r] # NoCommit /\ commit = mirror[r]
                                            THEN "clear"
                                            ELSE IF HasRemote(r) THEN "push" ELSE "update"]
      BY <2>11 DEF Build
    <3> DEFINE commit == StoreCommit(Merged(r), mirror[r], at)
    <3>3. commit \in Commit
      BY <3>1, StoreCommitType DEF TypeOK
    <3>4. BlobsOf(commit) \subseteq Blob
      BY <3>3, BlobsType
    <3>5. pc' \in [Replica -> Pcs]
      BY <3>2 DEF TypeOK, Pcs, SyncPcs
    <3>6. cand' \in [Replica -> Commit] /\ odb' \in [Replica -> SUBSET Blob]
      BY <3>2, <3>3, <3>4 DEF TypeOK
    <3> QED BY <2>11, <3>5, <3>6 DEF Build, TypeOK, ghosts
  <2>12. ASSUME NEW r \in Replica, PushLands(r)
        PROVE  TypeOK'
    BY <2>12 DEF PushLands, Goto, TypeOK, Pcs, SyncPcs, clone, ghosts
  <2>13. ASSUME NEW r \in Replica, PushRejected(r)
        PROVE  TypeOK'
    <3>1. attempt' \in [Replica -> 1 .. MaxAttempts]
      BY <2>13, SyncAssumption DEF PushRejected, TypeOK
    <3>2. pc' \in [Replica -> Pcs]
      BY <2>13 DEF PushRejected, Goto, TypeOK, Pcs, SyncPcs
    <3> QED BY <2>13, <3>1, <3>2 DEF PushRejected, TypeOK, clone, ghosts
  <2>14. ASSUME NEW r \in Replica, PushGivesUp(r)
        PROVE  TypeOK'
    BY <2>14, ExitType DEF PushGivesUp, TypeOK, clone, ghosts
  <2>15. ASSUME NEW r \in Replica, PushFails(r)
        PROVE  TypeOK'
    BY <2>15, ExitType DEF PushFails, Fault, TypeOK, clone
  <2>16. ASSUME NEW r \in Replica, Refetch(r)
        PROVE  TypeOK'
    <3>1. pc' \in [Replica -> Pcs]
      BY <2>16 DEF Refetch, Goto, TypeOK, Pcs, SyncPcs
    <3> QED BY <2>16, <3>1, FetchType DEF Refetch, TypeOK, ghosts
  <2>17. ASSUME NEW r \in Replica, UpdateRef(r)
        PROVE  TypeOK'
    BY <2>17 DEF UpdateRef, Goto, TypeOK, Pcs, SyncPcs, ghosts
  <2>18. ASSUME NEW r \in Replica, ClearRecord(r)
        PROVE  TypeOK'
    BY <2>18 DEF ClearRecord, TypeOK, session, ghosts
  <2>19. ASSUME NEW r \in Replica, ClearBlob(r)
        PROVE  TypeOK'
    BY <2>19 DEF ClearBlob, TypeOK, session, ghosts
  <2>20. ASSUME NEW r \in Replica, ClearStats(r)
        PROVE  TypeOK'
    BY <2>20, ExitType, EmptyType DEF ClearStats, TypeOK, ghosts
  <2>21. ASSUME NEW r \in Replica, GcOpen(r) \/ GcOpenSkipping(r)
        PROVE  TypeOK'
    <3>1. pc' \in [Replica -> Pcs]
      BY <2>21 DEF GcOpen, GcOpenSkipping, Goto, TypeOK, Pcs, GcPcs
    <3>2. OpenGc(r)
      BY <2>21 DEF GcOpen, GcOpenSkipping
    <3>3. linked' \in [Replica -> {"none", "added", "ensured"}]
      BY <3>2, EnsureType DEF OpenGc
    <3> QED BY <3>1, <3>2, <3>3 DEF OpenGc, TypeOK, ghosts
  <2>22. ASSUME NEW r \in Replica, GcFetch(r)
        PROVE  TypeOK'
    <3>1. pc' \in [Replica -> Pcs]
      <4>1. pc' = [pc EXCEPT ![r] = "gcSweep"]
        BY <2>22 DEF GcFetch, Goto
      <4> QED
        BY <4>1 DEF TypeOK, Pcs, GcPcs
    <3> QED BY <2>22, <3>1, FetchType DEF GcFetch, TypeOK, ghosts
  <2>23. ASSUME NEW r \in Replica, GcSweep(r)
        PROVE  TypeOK'
    <3>1. PICK at \in CommitTime :
             cand' = [cand EXCEPT ![r] = Compact(Swept(Content(mirror[r]), Aged), at)]
      BY <2>23 DEF GcSweep
    <3>2. Content(mirror[r]) \in StoreSet
      BY ContentType DEF TypeOK
    <3>3. Compact(Swept(Content(mirror[r]), Aged), at) \in Commit
      BY <3>2, SweptType, CompactType
    <3>4. cand' \in [Replica -> Commit]
      BY <3>1, <3>3 DEF TypeOK
    <3>5. pc' \in [Replica -> Pcs]
      BY <2>23 DEF GcSweep, TypeOK, Pcs, GcPcs
    <3> QED BY <2>23, <3>4, <3>5 DEF GcSweep, TypeOK, clone, ghosts
  <2>24. ASSUME NEW r \in Replica, GcNothing(r)
        PROVE  TypeOK'
    BY <2>24, ExitType DEF GcNothing, TypeOK, clone, ghosts
  <2>25. ASSUME NEW r \in Replica, GcLands(r)
        PROVE  TypeOK'
    <3>1. Drops(r) \subseteq Record
      BY ContentType DEF TypeOK, Drops, StoreSet
    <3> QED BY <2>25, <3>1 DEF GcLands, Goto, TypeOK, Pcs, GcPcs, clone
  <2>26. ASSUME NEW r \in Replica, GcRejected(r)
        PROVE  TypeOK'
    <3>1. attempt' \in [Replica -> 1 .. MaxAttempts]
      BY <2>26, SyncAssumption DEF GcRejected, TypeOK
    <3>2. pc' \in [Replica -> Pcs]
      BY <2>26 DEF GcRejected, Goto, TypeOK, Pcs, GcPcs
    <3> QED BY <2>26, <3>1, <3>2 DEF GcRejected, TypeOK, clone, ghosts
  <2>27. ASSUME NEW r \in Replica, GcGivesUp(r)
        PROVE  TypeOK'
    BY <2>27, ExitType DEF GcGivesUp, TypeOK, clone, ghosts
  <2>28. ASSUME NEW r \in Replica, GcFails(r)
        PROVE  TypeOK'
    <3>1. Drops(r) \subseteq Record
      BY ContentType DEF TypeOK, Drops, StoreSet
    <3> QED BY <2>28, <3>1, ExitType DEF GcFails, Fault, TypeOK, clone
  <2>29. ASSUME NEW r \in Replica, GcUpdate(r)
        PROVE  TypeOK'
    <3>1. Drops(r) \subseteq Record
      BY ContentType DEF TypeOK, Drops, StoreSet
    <3> QED BY <2>29, <3>1, ExitType DEF GcUpdate, TypeOK
  <2>30. ASSUME NEW r \in Replica, Crash(r)
        PROVE  TypeOK'
    BY <2>30, ExitType DEF Crash, Fault, TypeOK, clone
  <2>31. CASE UNCHANGED vars
    BY <2>31 DEF TypeOK, vars, clone, session, ghosts
  <2> QED
    BY <2>0, <2>1, <2>2, <2>3, <2>4, <2>5, <2>6, <2>7, <2>8, <2>9, <2>10, <2>11, <2>12,
       <2>13, <2>14, <2>15, <2>16, <2>17, <2>18, <2>19, <2>20, <2>21, <2>22, <2>23, <2>24,
       <2>25, <2>26, <2>27, <2>28, <2>29, <2>30, <2>31
    DEF Next, SyncStep, GcStep
<1> QED BY <1>1, <1>2, PTL DEF Spec

-----------------------------------------------------------------------------
(* No record is lost.                                                      *)
(*                                                                         *)
(* By itself NoLostRecord is not inductive: pending is cleared on the word *)
(* of the program counter, the remote moves forward on the word of git.    *)
(* What these words mean is added: a commit holds the records of all its   *)
(* ancestors, a mirror holds only what was shared, a candidate holds what  *)
(* its sync contributes, and once a push landed that much is shared.       *)

NoLateRemote == LateRemote = {}

Grows(c) == \A i, j \in DOMAIN c : i <= j => c[i].tree.recs \subseteq c[j].tree.recs

Safe == Shared \cup dropped

CloneInv(r) ==
  /\ linked[r] # "none"
  /\ Grows(mirror[r]) /\ Grows(cand[r])
  /\ Content(mirror[r]).recs \subseteq Safe
  /\ pc[r] = "push" => own[r] \subseteq Content(cand[r]).recs
  /\ pc[r] \in {"update", "clear"} => own[r] \subseteq Safe
  /\ pc[r] \in {"update", "gcUpdate"} => Content(cand[r]).recs \subseteq Safe

RecordsInv ==
  \A q \in Replica : \A x \in authored[q] :
    x \in Safe \/ \E p \in Replica : x \in pending[p]

IInv ==
  /\ Grows(remote)
  /\ \A r \in Replica : CloneInv(r)
  /\ RecordsInv

\* Adding what is absent adds everything: an id names one record.
LEMMA AbsentCovers ==
  ASSUME NEW X \in SUBSET Record, NEW Y \in SUBSET Record
  PROVE  AddAbsent(X, Y) = X \cup Y
<1>1. ASSUME NEW y \in Y, y.id \in Ids(X)
      PROVE  y \in X
  <2>1. PICK x \in X : x.id = y.id
    BY <1>1 DEF Ids
  <2> QED BY <2>1, UniqueIds
<1> QED BY <1>1 DEF AddAbsent

\* A commit holds what its parent held and what it was made to add, and
\* continues a history that grows.
LEMMA CommitHolds ==
  ASSUME NEW s \in StoreSet, NEW tip \in Commit, NEW at \in CommitTime
  PROVE  /\ Content(tip).recs \subseteq Content(StoreCommit(s, tip, at)).recs
         /\ s.recs \subseteq Content(StoreCommit(s, tip, at)).recs
         /\ Grows(tip) => Grows(StoreCommit(s, tip, at))
<1> DEFINE new == Overlay(s, Content(tip))
           x == [tree |-> new, at |-> at]
           c == StoreCommit(s, tip, at)
<1>1. Content(tip) \in StoreSet
  BY ContentType
<1>2. new.recs = Content(tip).recs \cup s.recs
  BY <1>1, AbsentCovers DEF Overlay, StoreSet
<1>3. CASE tip # NoCommit /\ new = Content(tip)
  <2>1. c = tip
    BY <1>3 DEF StoreCommit
  <2> QED BY <1>2, <1>3, <2>1
<1>4. CASE ~(tip # NoCommit /\ new = Content(tip))
  <2>1. c = Append(tip, x)
    BY <1>4 DEF StoreCommit
  <2>2. tip \in Seq(Tree)
    BY DEF Commit, Tree
  <2> HIDE DEF x
  <2>3. /\ Len(c) = Len(tip) + 1 /\ Len(tip) \in Nat
        /\ DOMAIN c = 1 .. Len(c)
        /\ \A i \in 1 .. Len(tip) : c[i] = tip[i]
        /\ c[Len(c)] = x
        /\ c # NoCommit
    BY <2>1, <2>2 DEF NoCommit
  <2>4. x.tree = new
    BY DEF x
  <2>5. Content(c) = new
    BY <2>3, <2>4 DEF Content
  <2>6. ASSUME Grows(tip)
        PROVE  Grows(c)
    <3>1. SUFFICES ASSUME NEW i \in DOMAIN c, NEW j \in DOMAIN c, i <= j
                   PROVE  c[i].tree.recs \subseteq c[j].tree.recs
      BY DEF Grows
    <3>2. DOMAIN tip = 1 .. Len(tip)
      BY <2>2
    <3>3. ASSUME NEW k \in DOMAIN tip
          PROVE  tip[k].tree.recs \subseteq Content(tip).recs
      <4>1. tip # NoCommit /\ Len(tip) \in DOMAIN tip /\ k <= Len(tip)
        BY <3>2, <3>3, <2>3 DEF NoCommit
      <4> QED BY <2>6, <4>1 DEF Grows, Content
    <3>4. CASE j \in DOMAIN tip
      <4>1. i \in DOMAIN tip
        BY <2>3, <3>1, <3>2, <3>4
      <4> QED BY <2>3, <2>6, <3>1, <3>2, <3>4, <4>1 DEF Grows
    <3>5. CASE j \notin DOMAIN tip
      <4>1. j = Len(c)
        BY <2>3, <3>2, <3>5
      <4>2. c[j].tree.recs = new.recs
        BY <2>3, <2>4, <4>1
      <4>3. CASE i = Len(c)
        BY <4>1, <4>3
      <4>4. CASE i # Len(c)
        <5>1. i \in DOMAIN tip /\ c[i] = tip[i]
          BY <2>3, <3>2, <4>4
        <5> QED BY <1>2, <3>3, <4>2, <5>1
      <4> QED BY <4>3, <4>4
    <3> QED BY <3>4, <3>5
  <2> QED BY <1>2, <2>5, <2>6
<1> QED BY <1>3, <1>4

\* A fast-forward along a history that grows loses no record.
LEMMA ForwardKeeps ==
  ASSUME NEW old \in Commit, NEW new \in Commit, FastForward(old, new), Grows(new)
  PROVE  Content(old).recs \subseteq Content(new).recs
<1>1. old \in Seq(Tree) /\ new \in Seq(Tree)
  BY DEF Commit, Tree
<1>2. CASE old = NoCommit
  BY <1>2 DEF Content, EmptySet
<1>3. CASE old # NoCommit
  <2>1. /\ Len(old) \in 1 .. Len(old) /\ Len(old) <= Len(new)
        /\ Len(old) \in DOMAIN new /\ Len(new) \in DOMAIN new
        /\ new # NoCommit
    BY <1>1, <1>3 DEF FastForward, NoCommit
  <2>2. old[Len(old)] = new[Len(old)]
    BY <2>1 DEF FastForward
  <2> QED BY <1>3, <2>1, <2>2 DEF Content, Grows
<1> QED BY <1>2, <1>3

\* What a sync would have the store hold includes what it contributes.
LEMMA MergedHoldsOwn ==
  ASSUME TypeOK, NEW r \in Replica
  PROVE  Merged(r) \in StoreSet /\ own[r] \subseteq Merged(r).recs
<1> DEFINE m == Merge(snap[r], Content(mirror[r]))
<1>1. m \in StoreSet
  BY ContentType, MergeType DEF TypeOK
<1>2. Merged(r) = WithOwn(m, own[r], pblobs[r], r, pstats[r])
  BY DEF Merged
<1> HIDE DEF m
<1>3. AddAbsent(m.recs, own[r]) = m.recs \cup own[r]
  BY <1>1, AbsentCovers DEF TypeOK, StoreSet
<1>4. WithOwn(m, own[r], pblobs[r], r, pstats[r]).recs = AddAbsent(m.recs, own[r])
  BY <1>1 DEF WithOwn, StoreSet
<1>5. Merged(r) \in StoreSet
  BY <1>1, <1>2, WithOwnType DEF TypeOK
<1> QED BY <1>2, <1>3, <1>4, <1>5

-----------------------------------------------------------------------------
(* The steps.                                                              *)

\* What every step of clone r does: the records of the remote and those it
\* swept only grow in number, other clones stay, a record leaves a pending only
\* when it is safe, and enters `authored` only by a pending.
Unmoved(q) ==
  /\ mirror'[q] = mirror[q] /\ linked'[q] = linked[q] /\ cand'[q] = cand[q]
  /\ own'[q] = own[q] /\ pc'[q] = pc[q]

StepOf(r) ==
  /\ Grows(remote)'
  /\ Safe \subseteq Safe'
  /\ \A q \in Replica \ {r} : Unmoved(q)
  /\ CloneInv(r)'
  /\ \A q \in Replica : pending[q] \subseteq pending'[q] \cup Safe'
  /\ \A q \in Replica : authored'[q] \subseteq authored[q] \cup pending'[q]

\* Such a step preserves the invariant.
LEMMA StepPreserves ==
  ASSUME TypeOK, TypeOK', IInv, NEW r \in Replica, StepOf(r)
  PROVE  IInv'
<1>1. ASSUME NEW q \in Replica
      PROVE  CloneInv(q)'
  <2>1. CASE q = r
    BY <2>1 DEF StepOf
  <2>2. CASE q # r
    <3>1. CloneInv(q) /\ Unmoved(q) /\ Safe \subseteq Safe'
      BY <2>2 DEF StepOf, IInv
    <3>2. Content(mirror'[q]) = Content(mirror[q]) /\ Content(cand'[q]) = Content(cand[q])
      BY <3>1 DEF Unmoved
    <3>3. Grows(mirror'[q]) /\ Grows(cand'[q])
      BY <3>1 DEF Unmoved, CloneInv
    <3> QED BY <3>1, <3>2, <3>3 DEF Unmoved, CloneInv
  <2> QED BY <2>1, <2>2
<1>2. RecordsInv'
  <2> SUFFICES ASSUME NEW q \in Replica, NEW x \in authored'[q], x \notin Safe'
               PROVE  \E p \in Replica : x \in pending'[p]
    BY DEF RecordsInv
  <2>1. CASE x \in pending'[q]
    BY <2>1
  <2>2. CASE x \notin pending'[q]
    <3>1. x \in authored[q] /\ x \notin Safe
      BY <2>2 DEF StepOf
    <3>2. PICK p \in Replica : x \in pending[p]
      BY <3>1 DEF IInv, RecordsInv
    <3> QED BY <3>2 DEF StepOf
  <2> QED BY <2>1, <2>2
<1> QED BY <1>1, <1>2 DEF IInv, StepOf

\* Where the remote and what was swept stay, so does what is safe.
LEMMA SafeStays ==
  ASSUME UNCHANGED <<remote, dropped>>
  PROVE  Safe' = Safe /\ Grows(remote)' = Grows(remote)
BY DEF Safe, Shared

\* A fetch leaves a mirror that grows and is safe.
LEMMA FetchInv ==
  ASSUME TypeOK, IInv, NEW r \in Replica, FetchInto(r), UNCHANGED <<remote, dropped>>
  PROVE  /\ Grows(mirror'[r]) /\ Content(mirror'[r]).recs \subseteq Safe'
         /\ \A q \in Replica \ {r} : mirror'[q] = mirror[q]
<1>1. CASE remote = NoCommit
  <2>1. mirror' = mirror
    BY <1>1 DEF FetchInto
  <2> QED BY <2>1, SafeStays DEF IInv, CloneInv
<1>2. CASE remote # NoCommit
  <2>1. mirror' = [mirror EXCEPT ![r] = remote]
    BY <1>2 DEF FetchInto
  <2>2. mirror'[r] = remote /\ \A q \in Replica \ {r} : mirror'[q] = mirror[q]
    BY <2>1 DEF TypeOK
  <2> QED BY <2>2, SafeStays DEF IInv, Safe, Shared
<1> QED BY <1>1, <1>2

\* A clone keeps its remote.
LEMMA LinkInv ==
  ASSUME TypeOK, IInv, NEW r \in Replica, EnsureRefspec(r)
  PROVE  linked'[r] # "none" /\ \A q \in Replica \ {r} : linked'[q] = linked[q]
BY DEF EnsureRefspec, TypeOK, IInv, CloneInv

\* An invocation that is over has nothing left to keep.
LEMMA ExitInv ==
  ASSUME TypeOK, IInv, NEW r \in Replica, Exit(r), Safe \subseteq Safe',
         linked'[r] # "none", Grows(mirror'[r]), Content(mirror'[r]).recs \subseteq Safe'
  PROVE  /\ CloneInv(r)'
         /\ \A q \in Replica \ {r} :
              pc'[q] = pc[q] /\ own'[q] = own[q] /\ cand'[q] = cand[q]
<1>1. pc'[r] = "idle" /\ cand'[r] = NoCommit
  BY DEF Exit, TypeOK
<1>2. Grows(NoCommit)
  BY DEF Grows, NoCommit
<1>3. \A q \in Replica \ {r} :
        pc'[q] = pc[q] /\ own'[q] = own[q] /\ cand'[q] = cand[q]
  BY DEF Exit, TypeOK
<1>4. CloneInv(r)'
  BY <1>1, <1>2 DEF CloneInv
<1> QED BY <1>3, <1>4

\* A candidate that lands takes nothing from what is safe.
LEMMA ForwardSafe ==
  ASSUME TypeOK, IInv, NEW r \in Replica, FastForward(remote, cand[r]),
         remote' = cand[r], UNCHANGED dropped
  PROVE  /\ Grows(remote)' /\ Safe \subseteq Safe'
         /\ Content(cand[r]).recs \subseteq Safe'
<1>1. Grows(cand[r])
  BY DEF IInv, CloneInv
<1>2. Content(remote).recs \subseteq Content(cand[r]).recs
  BY <1>1, ForwardKeeps DEF TypeOK
<1> QED BY <1>1, <1>2 DEF Safe, Shared

\* A compaction that lands under its lease takes nothing but what it drops.
LEMMA LeaseSafe ==
  ASSUME TypeOK, IInv, NEW r \in Replica, Lease(r),
         remote' = cand[r], dropped' = dropped \cup Drops(r)
  PROVE  /\ Grows(remote)' /\ Safe \subseteq Safe'
         /\ Content(cand[r]).recs \subseteq Safe'
<1>1. Grows(cand[r])
  BY DEF IInv, CloneInv
<1>2. CASE remote = base[r]
  BY <1>1, <1>2 DEF Safe, Shared, Drops
<1>3. CASE remote = cand[r]
  BY <1>1, <1>3 DEF Safe, Shared
<1> QED BY <1>2, <1>3 DEF Lease

\* Every step there is, is such a step of a clone.
LEMMA EveryStep ==
  ASSUME TypeOK, TypeOK', IInv, Next
  PROVE  \E r \in Replica : StepOf(r)
<1>1. ASSUME NEW r \in Replica, DmInit(r)
      PROVE  StepOf(r)
  <2>1. Safe' = Safe /\ Grows(remote)'
    BY <1>1, SafeStays DEF DmInit, IInv, ghosts
  <2>2. /\ Grows(mirror'[r]) /\ Content(mirror'[r]).recs \subseteq Safe'
        /\ \A q \in Replica \ {r} : mirror'[q] = mirror[q]
    <3>1. CASE FetchInto(r)
      BY <1>1, <3>1, FetchInv DEF DmInit, ghosts
    <3>2. CASE UNCHANGED mirror
      BY <2>1, <3>2 DEF IInv, CloneInv
    <3> QED BY <1>1, <3>1, <3>2 DEF DmInit
  <2>3. linked'[r] # "none" /\ \A q \in Replica \ {r} : linked'[q] = linked[q]
    BY <1>1, LinkInv DEF DmInit
  <2> QED BY <1>1, <2>1, <2>2, <2>3
       DEF DmInit, StepOf, Unmoved, IInv, CloneInv, session, ghosts
<1>0. ASSUME NEW r \in Replica, CreateStore(r)
      PROVE  StepOf(r)
  <2>1. Safe' = Safe /\ Grows(remote)'
    BY <1>0, SafeStays DEF CreateStore, IInv, ghosts
  <2>2. PICK at \in CommitTime :
          mirror' = [mirror EXCEPT ![r] = StoreCommit(EmptySet, NoCommit, at)]
    BY <1>0 DEF CreateStore
  <2> DEFINE x == [tree |-> Overlay(EmptySet, EmptySet), at |-> at]
  <2>3. StoreCommit(EmptySet, NoCommit, at) = <<x>>
    BY DEF StoreCommit, NoCommit, Content
  <2>4. x.tree.recs = {}
    BY DEF Overlay, EmptySet, AddAbsent
  <2> HIDE DEF x
  <2>5. Content(<<x>>).recs = {}
    BY <2>4 DEF Content, NoCommit
  <2>6. Grows(<<x>>)
    BY DEF Grows
  <2>7. /\ Grows(mirror'[r]) /\ Content(mirror'[r]).recs \subseteq Safe'
        /\ \A q \in Replica \ {r} : mirror'[q] = mirror[q]
    BY <2>2, <2>3, <2>5, <2>6 DEF TypeOK
  <2> QED BY <1>0, <2>1, <2>7
       DEF CreateStore, StepOf, Unmoved, IInv, CloneInv, session, ghosts
<1>2. ASSUME NEW r \in Replica, DmInitFails(r)
      PROVE  StepOf(r)
  <2>1. Safe' = Safe /\ Grows(remote)'
    BY <1>2, SafeStays DEF DmInitFails, IInv, ghosts
  <2> QED BY <1>2, <2>1, LinkInv DEF DmInitFails, StepOf, Unmoved, IInv, CloneInv,
             TypeOK, session, clone, ghosts
<1>3. ASSUME NEW r \in Replica, GitFetch(r)
      PROVE  StepOf(r)
  <2>1. Safe' = Safe /\ Grows(remote)'
    BY <1>3, SafeStays DEF GitFetch, IInv, ghosts
  <2> QED BY <1>3, <2>1, FetchInv DEF GitFetch, StepOf, Unmoved, IInv, CloneInv,
             TypeOK, session, clone, ghosts
<1>4. ASSUME NEW r \in Replica, NEW x \in Record, Write(r, x)
      PROVE  StepOf(r)
  <2>1. Safe' = Safe /\ Grows(remote)'
    BY <1>4, SafeStays DEF Write, IInv, ghosts
  <2> QED BY <1>4, <2>1 DEF Write, StepOf, Unmoved, IInv, CloneInv, TypeOK, session,
             clone, ghosts
<1>5. ASSUME NEW r \in Replica, NEW x \in Record, WriteDies(r, x)
      PROVE  StepOf(r)
  <2>1. Safe' = Safe /\ Grows(remote)'
    BY <1>5, SafeStays DEF WriteDies, IInv, ghosts
  <2> QED BY <1>5, <2>1 DEF WriteDies, StepOf, Unmoved, IInv, CloneInv, TypeOK,
             session, clone, ghosts
<1>6. ASSUME NEW r \in Replica, NEW e \in Entry, Bump(r, e)
      PROVE  StepOf(r)
  <2>1. Safe' = Safe /\ Grows(remote)'
    BY <1>6, SafeStays DEF Bump, IInv, ghosts
  <2> QED BY <1>6, <2>1 DEF Bump, StepOf, Unmoved, IInv, CloneInv, TypeOK, session,
             clone, ghosts
<1>7. ASSUME NEW r \in Replica, SyncOpen(r) \/ SyncOpenSkipping(r)
      PROVE  StepOf(r)
  <2>1. Open(r) /\ UNCHANGED <<remote, dropped, mirror, pending, own, cand, authored>>
    BY <1>7 DEF SyncOpen, SyncOpenSkipping, Open, ghosts
  <2>2. Safe' = Safe /\ Grows(remote)'
    BY <2>1, SafeStays DEF IInv
  <2>3. pc'[r] \in {"fetch", "mint"} /\ \A q \in Replica \ {r} : pc'[q] = pc[q]
    BY <1>7 DEF SyncOpen, SyncOpenSkipping, Goto, TypeOK
  <2>4. linked'[r] # "none" /\ \A q \in Replica \ {r} : linked'[q] = linked[q]
    BY <2>1, LinkInv DEF Open
  <2> QED BY <2>1, <2>2, <2>3, <2>4 DEF StepOf, Unmoved, IInv, CloneInv
<1>8. ASSUME NEW r \in Replica, SyncFetch(r)
      PROVE  StepOf(r)
  <2>1. Safe' = Safe /\ Grows(remote)'
    BY <1>8, SafeStays DEF SyncFetch, Goto, IInv, ghosts
  <2> QED BY <1>8, <2>1, FetchInv DEF SyncFetch, Goto, StepOf, Unmoved, IInv,
             CloneInv, TypeOK, session, clone, ghosts
<1>9. ASSUME NEW r \in Replica, Mint(r)
      PROVE  StepOf(r)
  <2>1. Safe' = Safe /\ Grows(remote)'
    BY <1>9, SafeStays DEF Mint, IInv
  <2>2. PICK V \in Mintable(r) :
          /\ pending' = [pending EXCEPT ![r] = @ \cup V]
          /\ authored' = [authored EXCEPT ![r] = @ \cup V]
    BY <1>9 DEF Mint
  <2>3. /\ \A q \in Replica : pending[q] \subseteq pending'[q]
        /\ \A q \in Replica : authored'[q] \subseteq authored[q] \cup pending'[q]
    BY <2>2 DEF TypeOK
  <2>4. pc'[r] = "build" /\ \A q \in Replica \ {r} : pc'[q] = pc[q] /\ own'[q] = own[q]
    BY <1>9 DEF Mint, Goto, TypeOK
  <2> QED BY <1>9, <2>1, <2>3, <2>4 DEF Mint, StepOf, Unmoved, IInv, CloneInv
<1>10. ASSUME NEW r \in Replica, Build(r)
      PROVE  StepOf(r)
  <2>1. Safe' = Safe /\ Grows(remote)'
    BY <1>10, SafeStays DEF Build, IInv, ghosts
  <2>2. PICK at \in CommitTime :
           LET commit == StoreCommit(Merged(r), mirror[r], at)
           IN  /\ cand' = [cand EXCEPT ![r] = commit]
               /\ pc' = [pc EXCEPT ![r] = IF mirror[r] # NoCommit /\ commit = mirror[r]
                                          THEN "clear"
                                          ELSE IF HasRemote(r) THEN "push" ELSE "update"]
    BY <1>10 DEF Build
  <2> DEFINE commit == StoreCommit(Merged(r), mirror[r], at)
  <2>3. mirror[r] \in Commit /\ Grows(mirror[r]) /\ linked[r] # "none"
        /\ Content(mirror[r]).recs \subseteq Safe
    BY DEF TypeOK, IInv, CloneInv
  <2>4. own[r] \subseteq Content(commit).recs /\ Grows(commit)
    BY <2>3, MergedHoldsOwn, CommitHolds
  <2> HIDE DEF commit
  <2>5. /\ cand' = [cand EXCEPT ![r] = commit]
        /\ pc' = [pc EXCEPT ![r] = IF mirror[r] # NoCommit /\ commit = mirror[r]
                                   THEN "clear" ELSE "push"]
    BY <2>2, <2>3 DEF commit, HasRemote
  <2>6. cand'[r] = commit /\ \A q \in Replica \ {r} : cand'[q] = cand[q] /\ pc'[q] = pc[q]
    BY <2>5 DEF TypeOK
  <2>7. \/ pc'[r] = "push"
        \/ pc'[r] = "clear" /\ commit = mirror[r]
    BY <2>5 DEF TypeOK
  <2>8. CloneInv(r)'
    <3>1. CASE pc'[r] = "push"
      BY <1>10, <2>1, <2>3, <2>4, <2>6, <3>1 DEF Build, CloneInv
    <3>2. CASE pc'[r] = "clear" /\ commit = mirror[r]
      BY <1>10, <2>1, <2>3, <2>4, <2>6, <3>2 DEF Build, CloneInv
    <3> QED BY <2>7, <3>1, <3>2
  <2> QED BY <1>10, <2>1, <2>6, <2>8 DEF Build, StepOf, Unmoved, ghosts
<1>11. ASSUME NEW r \in Replica, PushLands(r)
      PROVE  StepOf(r)
  <2>1. /\ Grows(remote)' /\ Safe \subseteq Safe'
        /\ Content(cand[r]).recs \subseteq Safe'
    BY <1>11, ForwardSafe DEF PushLands, ghosts
  <2>2. pc[r] = "push" /\ pc'[r] = "update" /\ \A q \in Replica \ {r} : pc'[q] = pc[q]
    BY <1>11 DEF PushLands, Goto, TypeOK
  <2>3. own[r] \subseteq Content(cand[r]).recs /\ CloneInv(r)
    BY <2>2 DEF IInv, CloneInv
  <2> QED BY <1>11, <2>1, <2>2, <2>3 DEF PushLands, StepOf, Unmoved, CloneInv, clone, ghosts
<1>12. ASSUME NEW r \in Replica, PushRejected(r)
      PROVE  StepOf(r)
  <2>1. Safe' = Safe /\ Grows(remote)'
    BY <1>12, SafeStays DEF PushRejected, Goto, IInv, ghosts
  <2> QED BY <1>12, <2>1 DEF PushRejected, Goto, StepOf, Unmoved, IInv, CloneInv,
             TypeOK, session, clone, ghosts
<1>13. ASSUME NEW r \in Replica, PushGivesUp(r)
      PROVE  StepOf(r)
  <2>1. Safe' = Safe /\ Grows(remote)'
    BY <1>13, SafeStays DEF PushGivesUp, IInv, ghosts
  <2>2. linked' = linked /\ mirror' = mirror /\ pending' = pending /\ authored' = authored
    BY <1>13 DEF PushGivesUp, clone, ghosts
  <2>3. Grows(mirror[r]) /\ Content(mirror[r]).recs \subseteq Safe /\ linked[r] # "none"
    BY DEF IInv, CloneInv
  <2>4. Exit(r)
    BY <1>13 DEF PushGivesUp
  <2> QED BY <2>1, <2>2, <2>3, <2>4, ExitInv DEF StepOf, Unmoved
<1>14. ASSUME NEW r \in Replica, PushFails(r)
      PROVE  StepOf(r)
  <2>1. Safe \subseteq Safe' /\ Grows(remote)'
    <3>1. CASE UNCHANGED remote
      BY <1>14, <3>1, SafeStays DEF PushFails, IInv
    <3>2. CASE FastForward(remote, cand[r]) /\ remote' = cand[r]
      BY <1>14, <3>2, ForwardSafe DEF PushFails
    <3> QED BY <1>14, <3>1, <3>2 DEF PushFails
  <2>2. linked' = linked /\ mirror' = mirror /\ pending' = pending /\ authored' = authored
    BY <1>14 DEF PushFails, clone
  <2>3. Grows(mirror[r]) /\ Content(mirror[r]).recs \subseteq Safe /\ linked[r] # "none"
    BY DEF IInv, CloneInv
  <2>4. Exit(r)
    BY <1>14 DEF PushFails, Fault
  <2> QED BY <2>1, <2>2, <2>3, <2>4, ExitInv DEF StepOf, Unmoved
<1>15. ASSUME NEW r \in Replica, Refetch(r)
      PROVE  StepOf(r)
  <2>1. Safe' = Safe /\ Grows(remote)'
    BY <1>15, SafeStays DEF Refetch, Goto, IInv, ghosts
  <2> QED BY <1>15, <2>1, FetchInv DEF Refetch, Goto, StepOf, Unmoved, IInv, CloneInv,
             TypeOK, session, clone, ghosts
<1>16. ASSUME NEW r \in Replica, UpdateRef(r)
      PROVE  StepOf(r)
  <2>1. Safe' = Safe /\ Grows(remote)'
    BY <1>16, SafeStays DEF UpdateRef, Goto, IInv, ghosts
  <2> QED BY <1>16, <2>1 DEF UpdateRef, Goto, StepOf, Unmoved, IInv, CloneInv, TypeOK,
             session, clone, ghosts
<1>17. ASSUME NEW r \in Replica, ClearRecord(r)
      PROVE  StepOf(r)
  <2>1. Safe' = Safe /\ Grows(remote)'
    BY <1>17, SafeStays DEF ClearRecord, IInv, ghosts
  <2>2. PICK x \in own[r] \cap pending[r] : pending' = [pending EXCEPT ![r] = @ \ {x}]
    BY <1>17 DEF ClearRecord
  <2>3. x \in Safe
    BY <1>17, <2>2 DEF ClearRecord, IInv, CloneInv
  <2>4. \A q \in Replica : pending[q] \subseteq pending'[q] \cup Safe'
    BY <2>1, <2>2, <2>3 DEF TypeOK
  <2> QED BY <1>17, <2>1, <2>4 DEF ClearRecord, StepOf, Unmoved, IInv, CloneInv,
             session, ghosts
<1>18. ASSUME NEW r \in Replica, ClearBlob(r)
      PROVE  StepOf(r)
  <2>1. Safe' = Safe /\ Grows(remote)'
    BY <1>18, SafeStays DEF ClearBlob, IInv, ghosts
  <2> QED BY <1>18, <2>1 DEF ClearBlob, StepOf, Unmoved, IInv, CloneInv, TypeOK,
             session, clone, ghosts
<1>19. ASSUME NEW r \in Replica, ClearStats(r)
      PROVE  StepOf(r)
  <2>1. Safe' = Safe /\ Grows(remote)'
    BY <1>19, SafeStays DEF ClearStats, IInv, ghosts
  <2>2. linked' = linked /\ mirror' = mirror /\ pending' = pending /\ authored' = authored
    BY <1>19 DEF ClearStats, clone, ghosts
  <2>3. Grows(mirror[r]) /\ Content(mirror[r]).recs \subseteq Safe /\ linked[r] # "none"
    BY DEF IInv, CloneInv
  <2>4. Exit(r)
    BY <1>19 DEF ClearStats
  <2> QED BY <2>1, <2>2, <2>3, <2>4, ExitInv DEF StepOf, Unmoved
<1>20. ASSUME NEW r \in Replica, GcOpen(r) \/ GcOpenSkipping(r)
      PROVE  StepOf(r)
  <2>1. OpenGc(r) /\ UNCHANGED <<remote, dropped, mirror, pending, own, cand, authored>>
    BY <1>20 DEF GcOpen, GcOpenSkipping, OpenGc, ghosts
  <2>2. Safe' = Safe /\ Grows(remote)'
    BY <2>1, SafeStays DEF IInv
  <2>3. pc'[r] \in {"gcFetch", "gcSweep"} /\ \A q \in Replica \ {r} : pc'[q] = pc[q]
    BY <1>20 DEF GcOpen, GcOpenSkipping, Goto, TypeOK
  <2>4. linked'[r] # "none" /\ \A q \in Replica \ {r} : linked'[q] = linked[q]
    BY <2>1, LinkInv DEF OpenGc
  <2> QED BY <2>1, <2>2, <2>3, <2>4 DEF StepOf, Unmoved, IInv, CloneInv
<1>21. ASSUME NEW r \in Replica, GcFetch(r)
      PROVE  StepOf(r)
  <2>1. Safe' = Safe /\ Grows(remote)'
    BY <1>21, SafeStays DEF GcFetch, Goto, IInv, ghosts
  <2> QED BY <1>21, <2>1, FetchInv DEF GcFetch, Goto, StepOf, Unmoved, IInv, CloneInv,
             TypeOK, session, clone, ghosts
<1>22. ASSUME NEW r \in Replica, GcSweep(r)
      PROVE  StepOf(r)
  <2>1. Safe' = Safe /\ Grows(remote)'
    BY <1>22, SafeStays DEF GcSweep, IInv, ghosts
  <2>2. PICK at \in CommitTime :
           cand' = [cand EXCEPT ![r] = Compact(Swept(Content(mirror[r]), Aged), at)]
    BY <1>22 DEF GcSweep
  <2>3. Grows(Compact(Swept(Content(mirror[r]), Aged), at))
    BY DEF Grows, Compact
  <2>4. Grows(cand'[r]) /\ \A q \in Replica \ {r} : cand'[q] = cand[q]
    BY <2>2, <2>3 DEF TypeOK
  <2>5. pc'[r] = "gcPush" /\ \A q \in Replica \ {r} : pc'[q] = pc[q]
    BY <1>22 DEF GcSweep, TypeOK, IInv, CloneInv, HasRemote
  <2> QED BY <1>22, <2>1, <2>4, <2>5
       DEF GcSweep, StepOf, Unmoved, IInv, CloneInv, clone, ghosts
<1>23. ASSUME NEW r \in Replica, GcNothing(r)
      PROVE  StepOf(r)
  <2>1. Safe' = Safe /\ Grows(remote)'
    BY <1>23, SafeStays DEF GcNothing, IInv, ghosts
  <2>2. linked' = linked /\ mirror' = mirror /\ pending' = pending /\ authored' = authored
    BY <1>23 DEF GcNothing, clone, ghosts
  <2>3. Grows(mirror[r]) /\ Content(mirror[r]).recs \subseteq Safe /\ linked[r] # "none"
    BY DEF IInv, CloneInv
  <2>4. Exit(r)
    BY <1>23 DEF GcNothing
  <2> QED BY <2>1, <2>2, <2>3, <2>4, ExitInv DEF StepOf, Unmoved
<1>24. ASSUME NEW r \in Replica, GcLands(r)
      PROVE  StepOf(r)
  <2>1. /\ Grows(remote)' /\ Safe \subseteq Safe'
        /\ Content(cand[r]).recs \subseteq Safe'
    BY <1>24, LeaseSafe DEF GcLands
  <2>2. pc'[r] = "gcUpdate" /\ \A q \in Replica \ {r} : pc'[q] = pc[q]
    BY <1>24 DEF GcLands, Goto, TypeOK
  <2>3. CloneInv(r)
    BY DEF IInv
  <2> QED BY <1>24, <2>1, <2>2, <2>3 DEF GcLands, StepOf, Unmoved, CloneInv, clone
<1>25. ASSUME NEW r \in Replica, GcRejected(r)
      PROVE  StepOf(r)
  <2>1. Safe' = Safe /\ Grows(remote)'
    BY <1>25, SafeStays DEF GcRejected, Goto, IInv, ghosts
  <2> QED BY <1>25, <2>1 DEF GcRejected, Goto, StepOf, Unmoved, IInv, CloneInv,
             TypeOK, session, clone, ghosts
<1>26. ASSUME NEW r \in Replica, GcGivesUp(r)
      PROVE  StepOf(r)
  <2>1. Safe' = Safe /\ Grows(remote)'
    BY <1>26, SafeStays DEF GcGivesUp, IInv, ghosts
  <2>2. linked' = linked /\ mirror' = mirror /\ pending' = pending /\ authored' = authored
    BY <1>26 DEF GcGivesUp, clone, ghosts
  <2>3. Grows(mirror[r]) /\ Content(mirror[r]).recs \subseteq Safe /\ linked[r] # "none"
    BY DEF IInv, CloneInv
  <2>4. Exit(r)
    BY <1>26 DEF GcGivesUp
  <2> QED BY <2>1, <2>2, <2>3, <2>4, ExitInv DEF StepOf, Unmoved
<1>27. ASSUME NEW r \in Replica, GcFails(r)
      PROVE  StepOf(r)
  <2>1. Safe \subseteq Safe' /\ Grows(remote)'
    <3>1. CASE UNCHANGED <<remote, dropped>>
      BY <3>1, SafeStays DEF IInv
    <3>2. CASE Lease(r) /\ remote' = cand[r] /\ dropped' = dropped \cup Drops(r)
      BY <3>2, LeaseSafe
    <3> QED BY <1>27, <3>1, <3>2 DEF GcFails
  <2>2. linked' = linked /\ mirror' = mirror /\ pending' = pending /\ authored' = authored
    BY <1>27 DEF GcFails, clone
  <2>3. Grows(mirror[r]) /\ Content(mirror[r]).recs \subseteq Safe /\ linked[r] # "none"
    BY DEF IInv, CloneInv
  <2>4. Exit(r)
    BY <1>27 DEF GcFails, Fault
  <2> QED BY <2>1, <2>2, <2>3, <2>4, ExitInv DEF StepOf, Unmoved
<1>28. ASSUME NEW r \in Replica, GcUpdate(r)
      PROVE  StepOf(r)
  <2>1. pc[r] = "gcUpdate" /\ Exit(r) /\ mirror' = [mirror EXCEPT ![r] = cand[r]]
        /\ UNCHANGED <<remote, linked, pending, authored>>
    BY <1>28 DEF GcUpdate, Goto
  <2>2. CloneInv(r)
    BY DEF IInv
  <2>3. UNCHANGED dropped
    BY <1>28, <2>2 DEF GcUpdate, HasRemote, CloneInv
  <2>4. Safe' = Safe /\ Grows(remote)'
    BY <2>1, <2>3, SafeStays DEF IInv
  <2>5. mirror'[r] = cand[r] /\ \A q \in Replica \ {r} : mirror'[q] = mirror[q]
    BY <2>1 DEF TypeOK
  <2>6. Grows(mirror'[r]) /\ Content(mirror'[r]).recs \subseteq Safe' /\ linked'[r] # "none"
    BY <2>1, <2>2, <2>4, <2>5 DEF CloneInv
  <2> QED BY <2>1, <2>4, <2>5, <2>6, ExitInv DEF StepOf, Unmoved
<1>29. ASSUME NEW r \in Replica, Crash(r)
      PROVE  StepOf(r)
  <2>1. Safe' = Safe /\ Grows(remote)'
    BY <1>29, SafeStays DEF Crash, IInv, ghosts, Fault
  <2>2. linked' = linked /\ mirror' = mirror /\ pending' = pending /\ authored' = authored
    BY <1>29 DEF Crash, clone, ghosts, Fault
  <2>3. Grows(mirror[r]) /\ Content(mirror[r]).recs \subseteq Safe /\ linked[r] # "none"
    BY DEF IInv, CloneInv
  <2>4. Exit(r)
    BY <1>29 DEF Crash, Fault
  <2> QED BY <2>1, <2>2, <2>3, <2>4, ExitInv DEF StepOf, Unmoved
<1>30. ASSUME NEW r \in Replica
      PROVE  ~AddRemote(r)
  BY DEF AddRemote, IInv, CloneInv
<1> QED
  BY <1>0, <1>1, <1>2, <1>3, <1>4, <1>5, <1>6, <1>7, <1>8, <1>9, <1>10,
     <1>11, <1>12, <1>13, <1>14, <1>15, <1>16, <1>17, <1>18, <1>19, <1>20, <1>21,
     <1>22, <1>23, <1>24, <1>25, <1>26, <1>27, <1>28, <1>29, <1>30
  DEF Next, SyncStep, GcStep

\* The invariant holds where no clone gets its remote late.
LEMMA InvCorrect ==
  ASSUME NoLateRemote
  PROVE  Spec => []IInv
<1>1. Init => IInv
  <2> SUFFICES ASSUME Init
               PROVE  IInv
    OBVIOUS
  <2>1. Grows(NoCommit) /\ Content(NoCommit).recs = {}
    BY DEF Grows, NoCommit, Content, EmptySet
  <2>2. ASSUME NEW r \in Replica
        PROVE  CloneInv(r)
    BY <2>1, <2>2, NoLateRemote DEF Init, CloneInv, NoLateRemote
  <2>3. RecordsInv
    BY DEF Init, RecordsInv
  <2> QED BY <2>1, <2>2, <2>3 DEF IInv, Init
<1>2. TypeOK /\ TypeOK' /\ IInv /\ [Next]_vars => IInv'
  <2> SUFFICES ASSUME TypeOK, TypeOK', IInv, [Next]_vars
               PROVE  IInv'
    OBVIOUS
  <2>1. CASE Next
    BY <2>1, EveryStep, StepPreserves
  <2>2. CASE UNCHANGED vars
    BY <2>2 DEF IInv, CloneInv, RecordsInv, Safe, Shared, vars, clone, session, ghosts
  <2> QED BY <2>1, <2>2
<1> QED BY TypeCorrect, <1>1, <1>2, PTL DEF Spec

\* No record that was acknowledged is ever lost, whatever the crashes, races,
\* retries and compactions, if no clone gets its remote late: it is on the
\* remote, or pending in a clone, or was swept by a compaction that landed.
THEOREM NothingIsLost ==
  ASSUME NoLateRemote
  PROVE  Spec => []NoLostRecord
<1>1. IInv => NoLostRecord
  BY DEF IInv, RecordsInv, NoLostRecord, acked, Held, Safe
<1> QED BY InvCorrect, <1>1, PTL

\* A sync that reports success has shared what its clone's mirror has: what
\* run late_unshared finds takes a clone that gets its remote late.
THEOREM SyncsShare ==
  ASSUME NoLateRemote
  PROVE  Spec => SuccessIsShared
<1>1. IInv => \A r \in Replica : Content(mirror[r]).recs \subseteq Shared \cup dropped
  BY DEF IInv, CloneInv, Safe
<1>2. IInv => [\A r \in Replica :
                 pc[r] = "clear" /\ pc'[r] = "idle" /\ faults' = faults /\ HasRemote(r)
                   => Content(mirror[r]).recs \subseteq Shared \cup dropped]_vars
  BY <1>1
<1> QED BY InvCorrect, <1>2, PTL DEF SuccessIsShared

-----------------------------------------------------------------------------
(* Merge is a join, for any stores, at any epochs, and even when a         *)
(* corruption made two records with one rec-id.                            *)

\* A store keys its records by rec-id.
Keyed(R) == \A x, y \in R : x.id = y.id => x = y

KeyedSet == {s \in StoreSet : Keyed(s.recs)}

\* Two keyed sets of records merge into a keyed one: of equal ids the smaller
\* bytes stay, and no id is lost.
LEMMA MergeRecordsKeyed ==
  ASSUME NEW X \in SUBSET Record, NEW Y \in SUBSET Record, Keyed(X), Keyed(Y)
  PROVE  /\ MergeRecords(X, Y) \in SUBSET Record
         /\ Keyed(MergeRecords(X, Y))
         /\ \A x \in X \cup Y : \E m \in MergeRecords(X, Y) : m.id = x.id /\ m.data <= x.data
<1>1. \A x \in Record : x.data \in Nat
  BY RecordAssumption
<1>2. MergeRecords(X, Y) \in SUBSET Record
  BY DEF MergeRecords
<1>3. Keyed(MergeRecords(X, Y))
  <2> SUFFICES ASSUME NEW x \in MergeRecords(X, Y), NEW y \in MergeRecords(X, Y), x.id = y.id
               PROVE  x = y
    BY DEF Keyed
  <2>1. x.data <= y.data /\ y.data <= x.data
    BY DEF MergeRecords
  <2> QED BY <1>1, <1>2, <2>1, RecordIsBytes
<1>4. ASSUME NEW x \in X \cup Y
      PROVE  \E m \in MergeRecords(X, Y) : m.id = x.id /\ m.data <= x.data
  <2>1. CASE \A y \in X \cup Y : y.id = x.id => x.data <= y.data
    BY <1>1, <2>1 DEF MergeRecords
  <2>2. CASE \E y \in X \cup Y : y.id = x.id /\ ~(x.data <= y.data)
    <3>1. PICK y \in X \cup Y : y.id = x.id /\ ~(x.data <= y.data)
      BY <2>2
    <3>2. x # y
      BY <1>1, <3>1
    <3>3. \A z \in X \cup Y : z.id = y.id => z = x \/ z = y
      BY <3>1, <3>2 DEF Keyed
    <3> QED BY <1>1, <3>1, <3>3 DEF MergeRecords
  <2> QED BY <2>1, <2>2
<1> QED BY <1>2, <1>3, <1>4

\* The records of three copies with the smallest bytes of those with their id.
Least(X, Y, Z) ==
  {x \in X \cup Y \cup Z : \A y \in X \cup Y \cup Z : y.id = x.id => x.data <= y.data}

\* Which of three copies is merged first does not matter.
LEMMA MergeRecordsAssociates ==
  ASSUME NEW X \in SUBSET Record, NEW Y \in SUBSET Record, NEW Z \in SUBSET Record,
         Keyed(X), Keyed(Y), Keyed(Z)
  PROVE  MergeRecords(MergeRecords(X, Y), Z) = Least(X, Y, Z)
<1>1. \A x \in Record : x.data \in Nat
  BY RecordAssumption
<1> DEFINE M == MergeRecords(X, Y)
           All == X \cup Y \cup Z
<1>2. /\ M \subseteq X \cup Y
      /\ \A x \in X \cup Y : \E m \in M : m.id = x.id /\ m.data <= x.data
  <2>1. M \subseteq X \cup Y
    BY DEF MergeRecords
  <2> QED
    BY <2>1, MergeRecordsKeyed
<1>3. ASSUME NEW x \in MergeRecords(M, Z), NEW y \in All, y.id = x.id
      PROVE  x \in All /\ x.data <= y.data
  <2>1. \A m \in M \cup Z : m.id = x.id => x.data <= m.data
    BY DEF MergeRecords
  <2>2. x \in M \cup Z
    BY DEF MergeRecords
  <2>3. PICK m \in M \cup Z : m.id = y.id /\ m.data <= y.data
    BY <1>1, <1>2
  <2> HIDE DEF M
  <2>4. x.data <= m.data
    BY <1>3, <2>1, <2>3
  <2>5. x \in Record /\ m \in Record /\ y \in Record
    BY <1>2, <2>2, <2>3
  <2> QED BY <1>1, <1>2, <2>2, <2>3, <2>4, <2>5
<1>4. ASSUME NEW x \in All, \A y \in All : y.id = x.id => x.data <= y.data
      PROVE  x \in MergeRecords(M, Z)
  <2>1. x \in M \cup Z
    BY <1>4 DEF MergeRecords
  <2> QED BY <1>2, <1>4, <2>1 DEF MergeRecords
<1>5. MergeRecords(M, Z) \subseteq All
  BY DEF MergeRecords
<1> QED BY <1>3, <1>4, <1>5 DEF Least

\* Two copies of a register file: max is a join.
LEMMA MergeStatsJoins ==
  ASSUME NEW a \in Stats, NEW b \in Stats, NEW c \in Stats
  PROVE  /\ MergeStats(a, b) \in Stats
         /\ MergeStats(a, b) = MergeStats(b, a)
         /\ MergeStats(a, a) = a
         /\ MergeStats(MergeStats(a, b), c) = MergeStats(a, MergeStats(b, c))
<1>1. \A e \in Entry :
        /\ a[e].n \in Nat /\ a[e].t \in Nat /\ a[e] = [n |-> a[e].n, t |-> a[e].t]
        /\ b[e].n \in Nat /\ b[e].t \in Nat
        /\ c[e].n \in Nat /\ c[e].t \in Nat
  BY DEF Stats, Row
<1>2. \A i, j, k \in Nat :
        /\ Larger(i, j) \in Nat
        /\ Larger(i, j) = Larger(j, i)
        /\ Larger(i, i) = i
        /\ Larger(Larger(i, j), k) = Larger(i, Larger(j, k))
  BY DEF Larger
<1>3. MergeStats(a, b) \in Stats
  BY <1>1, <1>2 DEF MergeStats, Stats, Row
<1>4. MergeStats(a, b) = MergeStats(b, a)
  BY <1>1, <1>2 DEF MergeStats
<1>5. MergeStats(a, a) = a
  BY <1>1, <1>2 DEF MergeStats, Stats
<1>6. MergeStats(MergeStats(a, b), c) = MergeStats(a, MergeStats(b, c))
  <2>1. ASSUME NEW e \in Entry
        PROVE  /\ Larger(Larger(a[e].n, b[e].n), c[e].n) = Larger(a[e].n, Larger(b[e].n, c[e].n))
               /\ Larger(Larger(a[e].t, b[e].t), c[e].t) = Larger(a[e].t, Larger(b[e].t, c[e].t))
    <3>1. /\ a[e].n \in Nat /\ b[e].n \in Nat /\ c[e].n \in Nat
          /\ a[e].t \in Nat /\ b[e].t \in Nat /\ c[e].t \in Nat
      BY <1>1
    <3>2. Larger(Larger(a[e].n, b[e].n), c[e].n) = Larger(a[e].n, Larger(b[e].n, c[e].n))
      BY <3>1 DEF Larger
    <3>3. Larger(Larger(a[e].t, b[e].t), c[e].t) = Larger(a[e].t, Larger(b[e].t, c[e].t))
      BY <3>1 DEF Larger
    <3> QED BY <3>2, <3>3
  <2> QED BY <2>1, Zenon DEF MergeStats
<1> QED BY <1>3, <1>4, <1>5, <1>6

\* The merge of two stores does not depend on which of them is one's own:
\* two clones that exchange their stores agree.
THEOREM MergeCommutes ==
  ASSUME NEW a \in StoreSet, NEW b \in StoreSet
  PROVE  Merge(a, b) = Merge(b, a)
<1>1. \A q \in Replica : MergeStats(a.stats[q], b.stats[q]) = MergeStats(b.stats[q], a.stats[q])
  BY MergeStatsJoins DEF StoreSet
<1>2. MergeRecords(a.recs, b.recs) = MergeRecords(b.recs, a.recs)
  BY DEF MergeRecords
<1>3. a.epoch \in Nat /\ b.epoch \in Nat /\ a.blobs \cup b.blobs = b.blobs \cup a.blobs
  BY DEF StoreSet
<1>4. [q \in Replica |-> MergeStats(a.stats[q], b.stats[q])] =
        [q \in Replica |-> MergeStats(b.stats[q], a.stats[q])]
  BY <1>1
<1>5. CASE a.epoch = b.epoch
  BY <1>2, <1>3, <1>4, <1>5, Zenon DEF Merge
<1>6. CASE a.epoch # b.epoch
  BY <1>3, <1>6 DEF Merge
<1> QED BY <1>5, <1>6

\* Merging what was merged already changes nothing: a retry is harmless.
THEOREM MergeIsIdempotent ==
  ASSUME NEW a \in KeyedSet
  PROVE  Merge(a, a) = a
<1>1. [q \in Replica |-> MergeStats(a.stats[q], a.stats[q])] = a.stats
  BY MergeStatsJoins DEF KeyedSet, StoreSet
<1>2. MergeRecords(a.recs, a.recs) = a.recs
  BY RecordAssumption DEF MergeRecords, KeyedSet, Keyed, StoreSet
<1> QED BY <1>1, <1>2 DEF Merge, KeyedSet, StoreSet

\* The order in which the stores of several clones are merged, across
\* compactions too, does not matter.
THEOREM MergeAssociates ==
  ASSUME NEW a \in KeyedSet, NEW b \in KeyedSet, NEW c \in KeyedSet
  PROVE  Merge(Merge(a, b), c) = Merge(a, Merge(b, c))
<1>1. \A q \in Replica :
        MergeStats(MergeStats(a.stats[q], b.stats[q]), c.stats[q]) =
          MergeStats(a.stats[q], MergeStats(b.stats[q], c.stats[q]))
  BY MergeStatsJoins DEF KeyedSet, StoreSet
<1>2. MergeRecords(MergeRecords(a.recs, b.recs), c.recs) =
        MergeRecords(a.recs, MergeRecords(b.recs, c.recs))
  <2>1. /\ a.recs \in SUBSET Record /\ Keyed(a.recs)
        /\ b.recs \in SUBSET Record /\ Keyed(b.recs)
        /\ c.recs \in SUBSET Record /\ Keyed(c.recs)
    BY DEF KeyedSet, StoreSet
  <2>2. MergeRecords(a.recs, MergeRecords(b.recs, c.recs)) =
          MergeRecords(MergeRecords(b.recs, c.recs), a.recs)
    BY DEF MergeRecords
  <2>3. MergeRecords(MergeRecords(a.recs, b.recs), c.recs) = Least(a.recs, b.recs, c.recs)
    BY <2>1, MergeRecordsAssociates
  <2>4. MergeRecords(MergeRecords(b.recs, c.recs), a.recs) = Least(b.recs, c.recs, a.recs)
    BY <2>1, MergeRecordsAssociates
  <2>5. Least(a.recs, b.recs, c.recs) = Least(b.recs, c.recs, a.recs)
    BY DEF Least
  <2> QED BY <2>2, <2>3, <2>4, <2>5
<1>3. a.epoch \in Nat /\ b.epoch \in Nat /\ c.epoch \in Nat
  BY DEF KeyedSet, StoreSet
<1>4. CASE a.epoch = b.epoch /\ b.epoch = c.epoch
  <2>1. [q \in Replica |->
           MergeStats([p \in Replica |-> MergeStats(a.stats[p], b.stats[p])][q], c.stats[q])] =
        [q \in Replica |->
           MergeStats(a.stats[q], [p \in Replica |-> MergeStats(b.stats[p], c.stats[p])][q])]
    BY <1>1
  <2> QED BY <1>2, <1>4, <2>1 DEF Merge
<1>5. CASE ~(a.epoch = b.epoch /\ b.epoch = c.epoch)
  <2>1. \A x, y : x.epoch = y.epoch => Merge(x, y).epoch = x.epoch
    BY DEF Merge
  <2>2. \A x, y : /\ x.epoch \in Nat /\ y.epoch \in Nat
                  /\ x.epoch > y.epoch
                  => Merge(x, y) = x /\ Merge(y, x) = x
    BY DEF Merge
  <2>3. CASE a.epoch = b.epoch
    BY <1>3, <1>5, <2>1, <2>2, <2>3
  <2>4. CASE b.epoch = c.epoch
    BY <1>3, <1>5, <2>1, <2>2, <2>4
  <2>5. CASE a.epoch # b.epoch /\ b.epoch # c.epoch
    BY <1>3, <2>1, <2>2, <2>5
  <2> QED BY <2>3, <2>4, <2>5
<1> QED BY <1>4, <1>5

-----------------------------------------------------------------------------
(* Epochs.                                                                 *)

\* s is the store t, or was it before: of an earlier epoch, or of the same one
\* with no more records.
Earlier(s, t) == s.epoch < t.epoch \/ (s.epoch = t.epoch /\ s.recs \subseteq t.recs)

\* The epoch of a commit is no lower than those of its ancestors.
Rises(c) == \A i, j \in DOMAIN c : i <= j => c[i].tree.epoch <= c[j].tree.epoch

\* The commits and stores that the variables hold are stores.
LEMMA Stores ==
  ASSUME TypeOK, NEW r \in Replica
  PROVE  /\ Content(remote) \in StoreSet /\ Content(mirror[r]) \in StoreSet
         /\ Content(cand[r]) \in StoreSet /\ Content(base[r]) \in StoreSet
         /\ snap[r] \in StoreSet
BY ContentType DEF TypeOK

\* Being earlier is a preorder.
LEMMA EarlierOrders ==
  ASSUME NEW s \in StoreSet, NEW t \in StoreSet, NEW u \in StoreSet
  PROVE  /\ Earlier(s, s)
         /\ Earlier(s, t) /\ Earlier(t, u) => Earlier(s, u)
BY DEF Earlier, StoreSet

\* A new commit holds what its parent held and what it was made of, in the
\* epoch of the latter.
LEMMA CommitIs ==
  ASSUME NEW s \in StoreSet, NEW tip \in Commit, NEW at \in CommitTime
  PROVE  /\ Content(StoreCommit(s, tip, at)).epoch = s.epoch
         /\ Content(StoreCommit(s, tip, at)).recs = Content(tip).recs \cup s.recs
         /\ Rises(tip) /\ Content(tip).epoch <= s.epoch => Rises(StoreCommit(s, tip, at))
<1> DEFINE new == Overlay(s, Content(tip))
           x == [tree |-> new, at |-> at]
           c == StoreCommit(s, tip, at)
<1>1. Content(tip) \in StoreSet
  BY ContentType
<1>2. new.recs = Content(tip).recs \cup s.recs /\ new.epoch = s.epoch
  BY <1>1, AbsentCovers DEF Overlay, StoreSet
<1>3. CASE tip # NoCommit /\ new = Content(tip)
  <2>1. c = tip
    BY <1>3 DEF StoreCommit
  <2> QED BY <1>2, <1>3, <2>1
<1>4. CASE ~(tip # NoCommit /\ new = Content(tip))
  <2>1. c = Append(tip, x)
    BY <1>4 DEF StoreCommit
  <2>2. tip \in Seq(Tree)
    BY DEF Commit, Tree
  <2> HIDE DEF x
  <2>3. /\ Len(c) = Len(tip) + 1 /\ Len(tip) \in Nat
        /\ DOMAIN c = 1 .. Len(c) /\ DOMAIN tip = 1 .. Len(tip)
        /\ \A i \in 1 .. Len(tip) : c[i] = tip[i]
        /\ c[Len(c)] = x
        /\ c # NoCommit
    BY <2>1, <2>2 DEF NoCommit
  <2>4. x.tree = new
    BY DEF x
  <2>5. Content(c) = new
    BY <2>3, <2>4 DEF Content
  <2>6. ASSUME Rises(tip), Content(tip).epoch <= s.epoch
        PROVE  Rises(c)
    <3>1. SUFFICES ASSUME NEW i \in DOMAIN c, NEW j \in DOMAIN c, i <= j
                   PROVE  c[i].tree.epoch <= c[j].tree.epoch
      BY DEF Rises
    <3>2. ASSUME NEW k \in DOMAIN tip
          PROVE  tip[k].tree.epoch \in Nat /\ tip[k].tree.epoch <= s.epoch
      <4>1. tip # NoCommit /\ Len(tip) \in DOMAIN tip /\ k <= Len(tip)
        BY <3>2, <2>3 DEF NoCommit
      <4>2. tip[k].tree.epoch <= Content(tip).epoch
        BY <2>6, <4>1 DEF Rises, Content
      <4>3. tip[k] \in Tree
        BY <2>2, <2>3, EltType
      <4> QED BY <1>1, <2>6, <4>2, <4>3 DEF Tree, StoreSet
    <3>3. CASE j \in DOMAIN tip
      <4>1. i \in DOMAIN tip
        BY <2>3, <3>1, <3>3
      <4> QED BY <2>3, <2>6, <3>1, <3>3, <4>1 DEF Rises
    <3>4. CASE j \notin DOMAIN tip
      <4>1. j = Len(c) /\ c[j].tree.epoch = s.epoch
        BY <1>2, <2>3, <2>4, <3>4
      <4>2. CASE i = Len(c)
        BY <4>1, <4>2 DEF StoreSet
      <4>3. CASE i # Len(c)
        <5>1. i \in DOMAIN tip /\ c[i] = tip[i]
          BY <2>3, <4>3
        <5> QED BY <3>2, <4>1, <5>1
      <4> QED BY <4>2, <4>3
    <3> QED BY <3>3, <3>4
  <2> QED BY <1>2, <2>5, <2>6
<1> QED BY <1>3, <1>4

\* A fast-forward never lowers the epoch.
LEMMA ForwardRises ==
  ASSUME NEW old \in Commit, NEW new \in Commit, FastForward(old, new), Rises(new)
  PROVE  Content(old).epoch <= Content(new).epoch
<1>1. old \in Seq(Tree) /\ new \in Seq(Tree)
  BY DEF Commit, Tree
<1>2. CASE old = NoCommit
  BY <1>2, ContentType DEF Content, EmptySet, StoreSet
<1>3. CASE old # NoCommit
  <2>1. /\ Len(old) \in 1 .. Len(old) /\ Len(old) <= Len(new)
        /\ Len(old) \in DOMAIN new /\ Len(new) \in DOMAIN new
        /\ new # NoCommit
    BY <1>1, <1>3 DEF FastForward, NoCommit
  <2>2. old[Len(old)] = new[Len(old)]
    BY <2>1 DEF FastForward
  <2> QED BY <1>3, <2>1, <2>2 DEF Content, Rises
<1> QED BY <1>2, <1>3

\* What a sync would have the store hold is of the newer epoch of what it read
\* and what the mirror holds, and has what they have in that epoch, and its own.
LEMMA MergedIs ==
  ASSUME TypeOK, NEW r \in Replica
  PROVE  LET s == snap[r]
             m == Content(mirror[r])
         IN  /\ Merged(r) \in StoreSet
             /\ s.epoch < m.epoch => /\ Merged(r).epoch = m.epoch
                                     /\ Merged(r).recs = m.recs \cup own[r]
             /\ s.epoch > m.epoch => /\ Merged(r).epoch = s.epoch
                                     /\ Merged(r).recs = s.recs \cup own[r]
             /\ s.epoch = m.epoch => /\ Merged(r).epoch = m.epoch
                                     /\ Merged(r).recs \subseteq s.recs \cup m.recs \cup own[r]
<1> DEFINE s == snap[r]
           m == Content(mirror[r])
           u == Merge(s, m)
<1>1. s \in StoreSet /\ m \in StoreSet /\ u \in StoreSet
  BY Stores, MergeType
<1>2. Merged(r) = WithOwn(u, own[r], pblobs[r], r, pstats[r])
  BY DEF Merged
<1>3. /\ s.epoch < m.epoch => u = m
      /\ s.epoch > m.epoch => u = s
      /\ s.epoch = m.epoch => u.epoch = m.epoch /\ u.recs \subseteq s.recs \cup m.recs
  BY <1>1 DEF Merge, MergeRecords, StoreSet
<1> HIDE DEF u
<1>4. AddAbsent(u.recs, own[r]) = u.recs \cup own[r]
  BY <1>1, AbsentCovers DEF TypeOK, StoreSet
<1>5. /\ WithOwn(u, own[r], pblobs[r], r, pstats[r]).recs = u.recs \cup own[r]
      /\ WithOwn(u, own[r], pblobs[r], r, pstats[r]).epoch = u.epoch
  BY <1>1, <1>4 DEF WithOwn, StoreSet
<1>6. Merged(r) \in StoreSet
  BY MergedHoldsOwn
<1> QED BY <1>2, <1>3, <1>5, <1>6

-----------------------------------------------------------------------------
(* The invariant of the promise.                                           *)
(*                                                                         *)
(* That what a push adds was pending is not inductive: a candidate is made *)
(* of a mirror and a snapshot that may be old.  What they hold and the     *)
(* remote has no more must be of an earlier epoch, where the fast-forward  *)
(* cannot succeed: epochs rise along every history, and never fall on the  *)
(* remote.                                                                 *)

\* All that a compaction which waits for its lease knows of what it swept.
SweptWell(r) ==
  LET was == Content(base[r])
      is == Content(cand[r])
  IN  /\ was.recs \subseteq Safe
      /\ is.recs \subseteq was.recs
      /\ \A x \in was.recs : x.kind = "TB" => x \in is.recs
      /\ is.epoch = was.epoch + 1

FollowsInv(r) ==
  LET m == Content(mirror[r])
      c == Content(cand[r])
      shared == Content(remote)
  IN  /\ Rises(mirror[r]) /\ Rises(cand[r])
      /\ Earlier(m, shared) /\ Earlier(snap[r], shared)
      /\ pc[r] \in {"fetch", "mint", "build", "push", "refetch"} =>
           snap[r].epoch <= m.epoch \/ m.recs = {}
      /\ pc[r] \in {"build", "push", "refetch"} => own[r] \subseteq pending[r]
      /\ pc[r] = "push" => \/ c.epoch < shared.epoch
                           \/ c.epoch = shared.epoch /\ c.recs \subseteq shared.recs \cup own[r]
      /\ pc[r] \in {"update", "gcUpdate"} => Earlier(c, shared)
      /\ pc[r] = "gcPush" => SweptWell(r)

PInv == Rises(remote) /\ \A r \in Replica : FollowsInv(r)

\* What a step of clone r leaves alone of clone q.
Still(q) ==
  /\ mirror'[q] = mirror[q] /\ cand'[q] = cand[q] /\ base'[q] = base[q]
  /\ snap'[q] = snap[q] /\ own'[q] = own[q] /\ pc'[q] = pc[q]
  /\ pending'[q] = pending[q]

FollowsStep(r) ==
  /\ Rises(remote)' /\ Earlier(Content(remote), Content(remote'))
  /\ \A q \in Replica \ {r} : Still(q)
  /\ FollowsInv(r)'

\* Such a step, which takes nothing from what is safe, preserves the invariant.
LEMMA FollowsPreserves ==
  ASSUME TypeOK, TypeOK', PInv, Safe \subseteq Safe', NEW r \in Replica, FollowsStep(r)
  PROVE  PInv'
<1> SUFFICES ASSUME NEW q \in Replica
             PROVE  FollowsInv(q)'
  BY DEF PInv, FollowsStep
<1>1. CASE q = r
  BY <1>1 DEF FollowsStep
<1>2. CASE q # r
  <2> DEFINE m == Content(mirror[q])
             c == Content(cand[q])
             was == Content(remote)
             is == Content(remote')
  <2>1. Still(q) /\ FollowsInv(q) /\ Earlier(was, is)
    BY <1>2 DEF FollowsStep, PInv
  <2>2. /\ m \in StoreSet /\ c \in StoreSet /\ snap[q] \in StoreSet
        /\ was \in StoreSet /\ is \in StoreSet
    BY Stores, ContentType DEF TypeOK
  <2>3. Content(mirror'[q]) = m /\ Content(cand'[q]) = c /\ snap'[q] = snap[q]
    BY <2>1 DEF Still
  <2>4. Rises(mirror'[q]) /\ Rises(cand'[q])
    BY <2>1 DEF Still, FollowsInv
  <2>5. Earlier(m, is) /\ Earlier(snap[q], is)
    BY <2>1, <2>2, EarlierOrders DEF FollowsInv
  <2>6. pc[q] = "push" => \/ c.epoch < is.epoch
                          \/ c.epoch = is.epoch /\ c.recs \subseteq is.recs \cup own[q]
    BY <2>1, <2>2 DEF FollowsInv, Earlier, StoreSet
  <2>7. pc[q] \in {"update", "gcUpdate"} => Earlier(c, is)
    BY <2>1, <2>2, EarlierOrders DEF FollowsInv
  <2>8. pc[q] = "gcPush" => SweptWell(q)'
    BY <2>1, <2>3 DEF FollowsInv, SweptWell, Still
  <2> HIDE DEF m, c, is
  <2>9. /\ pc[q] \in {"fetch", "mint", "build", "push", "refetch"} =>
             snap[q].epoch <= m.epoch \/ m.recs = {}
        /\ pc[q] \in {"build", "push", "refetch"} => own[q] \subseteq pending[q]
    BY <2>1 DEF FollowsInv, m
  <2> QED BY <2>1, <2>3, <2>4, <2>5, <2>6, <2>7, <2>8, <2>9 DEF FollowsInv, Still, is
<1> QED BY <1>1, <1>2

\* An invocation that is over leaves a mirror to speak of, and nothing else.
LEMMA FollowsExit ==
  ASSUME TypeOK, NEW r \in Replica, Exit(r), Content(remote') \in StoreSet,
         Rises(mirror'[r]), Earlier(Content(mirror'[r]), Content(remote'))
  PROVE  /\ FollowsInv(r)'
         /\ \A q \in Replica \ {r} : /\ pc'[q] = pc[q] /\ own'[q] = own[q]
                                     /\ cand'[q] = cand[q] /\ base'[q] = base[q]
                                     /\ snap'[q] = snap[q]
<1>1. pc'[r] = "idle" /\ cand'[r] = NoCommit /\ snap'[r] = EmptySet
  BY DEF Exit, TypeOK
<1>2. Rises(NoCommit)
  BY DEF Rises, NoCommit
<1>3. Earlier(EmptySet, Content(remote'))
  BY DEF Earlier, EmptySet, StoreSet
<1>4. FollowsInv(r)'
  BY <1>1, <1>2, <1>3 DEF FollowsInv
<1> QED BY <1>4 DEF Exit, TypeOK

\* Where the remote stays, nothing on it is disturbed.
LEMMA RemoteStays ==
  ASSUME TypeOK, PInv, UNCHANGED remote
  PROVE  /\ Rises(remote)' /\ Earlier(Content(remote), Content(remote'))
         /\ Content(remote') = Content(remote) /\ Content(remote') \in StoreSet
BY ContentType, EarlierOrders DEF PInv, TypeOK

\* A fetch makes the mirror what the remote is, or leaves it.
LEMMA FetchFollows ==
  ASSUME TypeOK, PInv, NEW r \in Replica, FetchInto(r), UNCHANGED remote
  PROVE  /\ Rises(mirror'[r]) /\ Earlier(Content(mirror'[r]), Content(remote))
         /\ snap[r].epoch <= Content(mirror[r]).epoch \/ Content(mirror[r]).recs = {}
              => \/ snap[r].epoch <= Content(mirror'[r]).epoch
                 \/ Content(mirror'[r]).recs = {}
         /\ \A q \in Replica \ {r} : mirror'[q] = mirror[q]
<1>1. CASE remote = NoCommit
  <2>1. mirror' = mirror
    BY <1>1 DEF FetchInto
  <2> QED BY <2>1 DEF PInv, FollowsInv
<1>2. CASE remote # NoCommit
  <2>1. mirror' = [mirror EXCEPT ![r] = remote]
    BY <1>2 DEF FetchInto
  <2>2. mirror'[r] = remote /\ \A q \in Replica \ {r} : mirror'[q] = mirror[q]
    BY <2>1 DEF TypeOK
  <2>3. Content(remote) \in StoreSet /\ snap[r] \in StoreSet
    BY Stores
  <2>4. snap[r].epoch <= Content(remote).epoch
    BY <2>3 DEF PInv, FollowsInv, Earlier, StoreSet
  <2> QED BY <2>2, <2>3, <2>4, EarlierOrders DEF PInv
<1> QED BY <1>1, <1>2

\* A push that lands goes on from what was shared, in the same epoch or a later.
LEMMA PushRises ==
  ASSUME TypeOK, IInv, PInv, NEW r \in Replica, FastForward(remote, cand[r])
  PROVE  Rises(cand[r]) /\ Earlier(Content(remote), Content(cand[r]))
<1>1. Rises(cand[r]) /\ Grows(cand[r])
  BY DEF PInv, FollowsInv, IInv, CloneInv
<1>2. remote \in Commit /\ cand[r] \in Commit
  BY DEF TypeOK
<1>3. /\ Content(remote).epoch <= Content(cand[r]).epoch
      /\ Content(remote).recs \subseteq Content(cand[r]).recs
  BY <1>1, <1>2, ForwardRises, ForwardKeeps
<1>4. Content(remote).epoch \in Nat /\ Content(cand[r]).epoch \in Nat
  BY Stores DEF StoreSet
<1> QED BY <1>1, <1>3, <1>4 DEF Earlier

\* What is left of a compaction that lands is of the next epoch.
LEMMA LeaseRises ==
  ASSUME TypeOK, PInv, NEW r \in Replica, pc[r] = "gcPush", Lease(r)
  PROVE  Rises(cand[r]) /\ Earlier(Content(remote), Content(cand[r]))
<1>1. Rises(cand[r]) /\ SweptWell(r)
  BY DEF PInv, FollowsInv
<1>2. Content(base[r]).epoch \in Nat
  BY Stores DEF StoreSet
<1>3. CASE remote = base[r]
  BY <1>1, <1>2, <1>3 DEF Earlier, SweptWell
<1>4. CASE remote = cand[r]
  BY <1>1, <1>4, Stores, EarlierOrders
<1> QED BY <1>1, <1>3, <1>4 DEF Lease

\* A landing whose reply is lost leaves the mirror where it was.
LEMMA LandsExit ==
  ASSUME TypeOK, TypeOK', PInv, NEW r \in Replica, Exit(r), UNCHANGED mirror,
         Earlier(Content(remote), Content(remote'))
  PROVE  /\ FollowsInv(r)'
         /\ \A q \in Replica \ {r} : /\ pc'[q] = pc[q] /\ own'[q] = own[q]
                                     /\ cand'[q] = cand[q] /\ base'[q] = base[q]
                                     /\ snap'[q] = snap[q]
<1>1. Rises(mirror[r]) /\ Earlier(Content(mirror[r]), Content(remote))
  BY DEF PInv, FollowsInv
<1>2. Content(remote') \in StoreSet
  BY ContentType DEF TypeOK
<1>3. Earlier(Content(mirror[r]), Content(remote'))
  BY <1>1, <1>2, Stores, EarlierOrders
<1> QED BY <1>1, <1>2, <1>3, FollowsExit

\* A sweep keeps what it keeps of what there was, the tombstones among it, and
\* opens the next epoch.
LEMMA SweepKeeps ==
  ASSUME NEW s, NEW aged
  PROVE  /\ Swept(s, aged).recs \subseteq s.recs
         /\ \A x \in s.recs : x.kind = "TB" => x \in Swept(s, aged).recs
         /\ Swept(s, aged).epoch = s.epoch + 1
<1>1. KeptRecords(s.recs, aged) \subseteq s.recs
  BY DEF KeptRecords, KeptLinks, KeptVerdicts
<1>2. ASSUME NEW x \in s.recs, x.kind = "TB"
      PROVE  x \in KeptRecords(s.recs, aged)
  <2>1. x \in OfEntry(s.recs, x.entry)
    BY DEF OfEntry
  <2>2. x \in KeptOf(s.recs, aged, x.entry)
    BY <1>2, <2>1 DEF KeptOf, Tombstoned
  <2> QED BY <2>2 DEF KeptRecords
<1> QED BY <1>1, <1>2 DEF Swept

\* Every step there is, is such a step of a clone.
LEMMA EveryStepFollows ==
  ASSUME TypeOK, TypeOK', IInv, PInv, Safe \subseteq Safe', Next
  PROVE  \E r \in Replica : FollowsStep(r)
<1>1. ASSUME NEW r \in Replica, DmInit(r)
      PROVE  FollowsStep(r)
  <2>1. UNCHANGED <<remote, cand, base, snap, own, pc, pending, dropped>>
    BY <1>1 DEF DmInit, session, ghosts
  <2>2. /\ Rises(mirror'[r]) /\ Earlier(Content(mirror'[r]), Content(remote))
        /\ snap[r].epoch <= Content(mirror[r]).epoch \/ Content(mirror[r]).recs = {}
             => \/ snap[r].epoch <= Content(mirror'[r]).epoch
                \/ Content(mirror'[r]).recs = {}
        /\ \A q \in Replica \ {r} : mirror'[q] = mirror[q]
    <3>1. CASE UNCHANGED mirror
      BY <3>1 DEF PInv, FollowsInv
    <3> QED BY <1>1, <2>1, <3>1, FetchFollows DEF DmInit
  <2> QED BY <2>1, <2>2, RemoteStays, SafeStays
       DEF FollowsStep, Still, FollowsInv, SweptWell, PInv
<1>2. ASSUME NEW r \in Replica, CreateStore(r)
      PROVE  FollowsStep(r)
  <2>1. UNCHANGED <<remote, cand, base, snap, own, pc, pending, dropped>>
    BY <1>2 DEF CreateStore, session, ghosts
  <2>2. PICK at \in CommitTime :
          mirror' = [mirror EXCEPT ![r] = StoreCommit(EmptySet, NoCommit, at)]
    BY <1>2 DEF CreateStore
  <2> DEFINE c == StoreCommit(EmptySet, NoCommit, at)
  <2>3. /\ Content(c).epoch = EmptySet.epoch
        /\ Content(c).recs = Content(NoCommit).recs \cup EmptySet.recs
        /\ Rises(NoCommit) /\ Content(NoCommit).epoch <= EmptySet.epoch => Rises(c)
    BY EmptyType, CommitIs
  <2>4. Rises(NoCommit) /\ Content(NoCommit) = EmptySet
    BY DEF Rises, NoCommit, Content
  <2>5. Content(c).epoch = 0 /\ Content(c).recs = {} /\ Rises(c)
    BY <2>3, <2>4 DEF EmptySet
  <2> HIDE DEF c
  <2>6. Earlier(Content(c), Content(remote))
    BY <2>5, Stores DEF Earlier, StoreSet
  <2>7. mirror'[r] = c /\ \A q \in Replica \ {r} : mirror'[q] = mirror[q]
    BY <2>2 DEF TypeOK, c
  <2> QED BY <2>1, <2>5, <2>6, <2>7, RemoteStays, SafeStays
       DEF FollowsStep, Still, FollowsInv, SweptWell, PInv
<1>3. ASSUME NEW r \in Replica,
             \/ DmInitFails(r)
             \/ \E x \in Record : WriteDies(r, x)
             \/ \E e \in Entry : Bump(r, e)
             \/ ClearBlob(r)
      PROVE  FollowsStep(r)
  <2>1. UNCHANGED <<remote, mirror, cand, base, snap, own, pc, pending, dropped>>
    BY <1>3 DEF DmInitFails, WriteDies, Bump, ClearBlob, session, ghosts
  <2> QED BY <2>1, RemoteStays, SafeStays
       DEF FollowsStep, Still, FollowsInv, SweptWell, PInv
<1>4. ASSUME NEW r \in Replica, GitFetch(r)
      PROVE  FollowsStep(r)
  <2>1. UNCHANGED <<remote, cand, base, snap, own, pc, pending, dropped>> /\ FetchInto(r)
    BY <1>4 DEF GitFetch, session, ghosts
  <2> QED BY <2>1, FetchFollows, RemoteStays, SafeStays
       DEF FollowsStep, Still, FollowsInv, SweptWell, PInv
<1>5. ASSUME NEW r \in Replica, NEW x \in Record, Write(r, x)
      PROVE  FollowsStep(r)
  <2>1. UNCHANGED <<remote, mirror, cand, base, snap, own, pc, dropped>> /\ pc[r] = "idle"
    BY <1>5 DEF Write, session
  <2>2. \A q \in Replica \ {r} : pending'[q] = pending[q]
    BY <1>5 DEF Write, TypeOK
  <2> QED BY <2>1, <2>2, RemoteStays, SafeStays
       DEF FollowsStep, Still, FollowsInv, SweptWell, PInv
<1>6. ASSUME NEW r \in Replica, SyncOpen(r) \/ SyncOpenSkipping(r)
      PROVE  FollowsStep(r)
  <2>1. UNCHANGED <<remote, mirror, cand, base, own, pending, dropped>> /\ Open(r)
    BY <1>6 DEF SyncOpen, SyncOpenSkipping, Open, ghosts
  <2>2. pc'[r] \in {"fetch", "mint"} /\ \A q \in Replica \ {r} : pc'[q] = pc[q]
    BY <1>6 DEF SyncOpen, SyncOpenSkipping, Goto, TypeOK
  <2>3. snap'[r] = Content(mirror[r]) /\ \A q \in Replica \ {r} : snap'[q] = snap[q]
    BY <2>1 DEF Open, TypeOK
  <2>4. snap'[r].epoch <= Content(mirror[r]).epoch
    BY <2>3, Stores DEF StoreSet
  <2> QED BY <2>1, <2>2, <2>3, <2>4, RemoteStays, SafeStays
       DEF FollowsStep, Still, FollowsInv, PInv
<1>7. ASSUME NEW r \in Replica, SyncFetch(r) \/ Refetch(r)
      PROVE  FollowsStep(r)
  <2>1. UNCHANGED <<remote, cand, base, snap, own, pending, dropped>> /\ FetchInto(r)
    BY <1>7 DEF SyncFetch, Refetch, ghosts
  <2>2. /\ \/ pc[r] = "fetch" /\ pc'[r] = "mint"
           \/ pc[r] = "refetch" /\ pc'[r] = "build"
        /\ \A q \in Replica \ {r} : pc'[q] = pc[q]
    BY <1>7 DEF SyncFetch, Refetch, Goto, TypeOK
  <2> QED BY <2>1, <2>2, FetchFollows, RemoteStays DEF FollowsStep, Still, FollowsInv, PInv
<1>8. ASSUME NEW r \in Replica, Mint(r)
      PROVE  FollowsStep(r)
  <2>1. UNCHANGED <<remote, mirror, cand, base, snap, dropped>>
    BY <1>8 DEF Mint
  <2>2. PICK V \in Mintable(r) :
          /\ pending' = [pending EXCEPT ![r] = @ \cup V]
          /\ own' = [own EXCEPT ![r] = pending[r] \cup V]
    BY <1>8 DEF Mint
  <2>3. /\ own'[r] \subseteq pending'[r]
        /\ \A q \in Replica \ {r} : own'[q] = own[q] /\ pending'[q] = pending[q]
    BY <2>2 DEF TypeOK
  <2>4. /\ pc[r] = "mint" /\ pc'[r] = "build"
        /\ \A q \in Replica \ {r} : pc'[q] = pc[q]
    BY <1>8 DEF Mint, Goto, TypeOK
  <2> QED BY <2>1, <2>3, <2>4, RemoteStays DEF FollowsStep, Still, FollowsInv, PInv
<1>9. ASSUME NEW r \in Replica, Build(r)
      PROVE  FollowsStep(r)
  <2>1. UNCHANGED <<remote, mirror, base, snap, own, pending, dropped>> /\ pc[r] = "build"
    BY <1>9 DEF Build, ghosts
  <2>2. PICK at \in CommitTime :
           LET commit == StoreCommit(Merged(r), mirror[r], at)
           IN  /\ cand' = [cand EXCEPT ![r] = commit]
               /\ pc' = [pc EXCEPT ![r] = IF mirror[r] # NoCommit /\ commit = mirror[r]
                                          THEN "clear"
                                          ELSE IF HasRemote(r) THEN "push" ELSE "update"]
    BY <1>9 DEF Build
  <2> DEFINE commit == StoreCommit(Merged(r), mirror[r], at)
             m == Content(mirror[r])
             s == snap[r]
             shared == Content(remote)
  <2>3. cand'[r] = commit /\ \A q \in Replica \ {r} : cand'[q] = cand[q] /\ pc'[q] = pc[q]
    BY <2>2 DEF TypeOK
  <2>4. pc'[r] \in {"clear", "push"}
    BY <2>2 DEF TypeOK, IInv, CloneInv, HasRemote
  <2>5. mirror[r] \in Commit /\ m \in StoreSet /\ s \in StoreSet /\ shared \in StoreSet
    BY Stores DEF TypeOK
  <2>6. /\ Earlier(m, shared) /\ Earlier(s, shared) /\ Rises(mirror[r])
        /\ s.epoch <= m.epoch \/ m.recs = {}
    BY <2>1 DEF PInv, FollowsInv
  <2>7. /\ Merged(r) \in StoreSet
        /\ s.epoch < m.epoch => /\ Merged(r).epoch = m.epoch
                                /\ Merged(r).recs = m.recs \cup own[r]
        /\ s.epoch > m.epoch => /\ Merged(r).epoch = s.epoch
                                /\ Merged(r).recs = s.recs \cup own[r]
        /\ s.epoch = m.epoch => /\ Merged(r).epoch = m.epoch
                                /\ Merged(r).recs \subseteq s.recs \cup m.recs \cup own[r]
    BY MergedIs
  <2>8. /\ Content(commit).epoch = Merged(r).epoch
        /\ Content(commit).recs = m.recs \cup Merged(r).recs
        /\ Rises(mirror[r]) /\ m.epoch <= Merged(r).epoch => Rises(commit)
    BY <2>5, <2>7, CommitIs
  <2> HIDE DEF commit, m, s, shared
  <2>9. m.epoch \in Nat /\ s.epoch \in Nat /\ shared.epoch \in Nat
    BY <2>5 DEF StoreSet
  <2>10. Rises(commit)
    BY <2>6, <2>7, <2>8, <2>9
  <2>11. \/ Content(commit).epoch < shared.epoch
         \/ /\ Content(commit).epoch = shared.epoch
            /\ Content(commit).recs \subseteq shared.recs \cup own[r]
    <3>1. CASE s.epoch < m.epoch
      BY <2>6, <2>7, <2>8, <2>9, <3>1 DEF Earlier
    <3>2. CASE s.epoch > m.epoch
      <4>1. m.recs = {}
        BY <2>6, <2>9, <3>2
      <4> QED BY <2>6, <2>7, <2>8, <2>9, <3>2, <4>1 DEF Earlier
    <3>3. CASE s.epoch = m.epoch
      BY <2>6, <2>7, <2>8, <2>9, <3>3 DEF Earlier
    <3> QED BY <2>9, <3>1, <3>2, <3>3
  <2>12. FollowsInv(r)'
    BY <2>1, <2>3, <2>4, <2>6, <2>10, <2>11 DEF FollowsInv, PInv, m, s, shared
  <2> QED BY <2>1, <2>3, <2>12, RemoteStays DEF FollowsStep, Still
<1>10. ASSUME NEW r \in Replica, PushLands(r)
       PROVE  FollowsStep(r)
  <2>1. /\ UNCHANGED <<mirror, cand, base, snap, own, pending, dropped>>
        /\ FastForward(remote, cand[r]) /\ remote' = cand[r]
    BY <1>10 DEF PushLands, clone, ghosts
  <2>2. /\ pc[r] = "push" /\ pc'[r] = "update"
        /\ \A q \in Replica \ {r} : pc'[q] = pc[q]
    BY <1>10 DEF PushLands, Goto, TypeOK
  <2>3. Rises(cand[r]) /\ Earlier(Content(remote), Content(cand[r]))
    BY <2>1, PushRises
  <2>4. FollowsInv(r)'
    BY <2>1, <2>2, <2>3, Stores, EarlierOrders DEF FollowsInv, PInv
  <2> QED BY <2>1, <2>2, <2>3, <2>4 DEF FollowsStep, Still
<1>11. ASSUME NEW r \in Replica, PushRejected(r)
       PROVE  FollowsStep(r)
  <2>1. UNCHANGED <<remote, mirror, cand, base, snap, own, pending, dropped>>
    BY <1>11 DEF PushRejected, clone, ghosts
  <2>2. /\ pc[r] = "push" /\ pc'[r] = "refetch"
        /\ \A q \in Replica \ {r} : pc'[q] = pc[q]
    BY <1>11 DEF PushRejected, Goto, TypeOK
  <2> QED BY <2>1, <2>2, RemoteStays DEF FollowsStep, Still, FollowsInv, PInv
<1>12. ASSUME NEW r \in Replica,
              PushGivesUp(r) \/ ClearStats(r) \/ GcNothing(r) \/ GcGivesUp(r) \/ Crash(r)
       PROVE  FollowsStep(r)
  <2>1. UNCHANGED <<remote, mirror, pending, dropped>> /\ Exit(r)
    BY <1>12 DEF PushGivesUp, ClearStats, GcNothing, GcGivesUp, Crash, Fault, clone, ghosts
  <2>2. Rises(mirror[r]) /\ Earlier(Content(mirror[r]), Content(remote))
    BY DEF PInv, FollowsInv
  <2> QED BY <2>1, <2>2, RemoteStays, FollowsExit DEF FollowsStep, Still
<1>13. ASSUME NEW r \in Replica, PushFails(r)
       PROVE  FollowsStep(r)
  <2>1. UNCHANGED <<mirror, pending, dropped>> /\ Exit(r) /\ pc[r] = "push"
    BY <1>13 DEF PushFails, Fault, clone
  <2>2. Rises(remote)' /\ Earlier(Content(remote), Content(remote'))
    <3>1. CASE UNCHANGED remote
      BY <3>1, RemoteStays
    <3>2. CASE FastForward(remote, cand[r]) /\ remote' = cand[r]
      BY <2>1, <3>2, PushRises
    <3> QED BY <1>13, <3>1, <3>2 DEF PushFails
  <2> QED BY <2>1, <2>2, LandsExit DEF FollowsStep, Still
<1>14. ASSUME NEW r \in Replica, UpdateRef(r)
       PROVE  FollowsStep(r)
  <2>1. UNCHANGED <<remote, cand, base, snap, own, pending, dropped>>
    BY <1>14 DEF UpdateRef, ghosts
  <2>2. /\ pc[r] = "update" /\ pc'[r] = "clear"
        /\ \A q \in Replica \ {r} : pc'[q] = pc[q]
    BY <1>14 DEF UpdateRef, Goto, TypeOK
  <2>3. mirror'[r] = cand[r] /\ \A q \in Replica \ {r} : mirror'[q] = mirror[q]
    BY <1>14 DEF UpdateRef, TypeOK
  <2> QED BY <2>1, <2>2, <2>3, RemoteStays DEF FollowsStep, Still, FollowsInv, PInv
<1>15. ASSUME NEW r \in Replica, ClearRecord(r)
       PROVE  FollowsStep(r)
  <2>1. UNCHANGED <<remote, mirror, cand, base, snap, own, pc, dropped>> /\ pc[r] = "clear"
    BY <1>15 DEF ClearRecord, session, ghosts
  <2>2. \A q \in Replica \ {r} : pending'[q] = pending[q]
    BY <1>15 DEF ClearRecord, TypeOK
  <2> QED BY <2>1, <2>2, RemoteStays DEF FollowsStep, Still, FollowsInv, PInv
<1>16. ASSUME NEW r \in Replica, GcOpen(r) \/ GcOpenSkipping(r)
       PROVE  FollowsStep(r)
  <2>1. UNCHANGED <<remote, mirror, cand, base, snap, own, pending, dropped>>
    BY <1>16 DEF GcOpen, GcOpenSkipping, OpenGc, ghosts
  <2>2. pc'[r] \in {"gcFetch", "gcSweep"} /\ \A q \in Replica \ {r} : pc'[q] = pc[q]
    BY <1>16 DEF GcOpen, GcOpenSkipping, Goto, TypeOK
  <2> QED BY <2>1, <2>2, RemoteStays DEF FollowsStep, Still, FollowsInv, PInv
<1>17. ASSUME NEW r \in Replica, GcFetch(r)
       PROVE  FollowsStep(r)
  <2>1. UNCHANGED <<remote, cand, base, snap, own, pending, dropped>> /\ FetchInto(r)
    BY <1>17 DEF GcFetch, ghosts
  <2>2. pc'[r] = "gcSweep" /\ \A q \in Replica \ {r} : pc'[q] = pc[q]
    BY <1>17 DEF GcFetch, Goto, TypeOK
  <2> QED BY <2>1, <2>2, FetchFollows, RemoteStays DEF FollowsStep, Still, FollowsInv, PInv
<1>18. ASSUME NEW r \in Replica, GcSweep(r)
       PROVE  FollowsStep(r)
  <2>1. UNCHANGED <<remote, mirror, snap, own, pending, dropped>>
    BY <1>18 DEF GcSweep, clone, ghosts
  <2>2. PICK at \in CommitTime :
           cand' = [cand EXCEPT ![r] = Compact(Swept(Content(mirror[r]), Aged), at)]
    BY <1>18 DEF GcSweep
  <2> DEFINE c == Compact(Swept(Content(mirror[r]), Aged), at)
  <2>3. cand'[r] = c /\ base'[r] = mirror[r]
        /\ \A q \in Replica \ {r} : cand'[q] = cand[q] /\ base'[q] = base[q]
    BY <1>18, <2>2 DEF GcSweep, TypeOK
  <2>4. pc'[r] = "gcPush" /\ \A q \in Replica \ {r} : pc'[q] = pc[q]
    BY <1>18 DEF GcSweep, TypeOK, IInv, CloneInv, HasRemote
  <2>5. Rises(c) /\ Content(c) = Swept(Content(mirror[r]), Aged)
    <3>1. Len(c) = 1 /\ DOMAIN c = {1} /\ c[1].tree = Swept(Content(mirror[r]), Aged)
      BY DEF Compact
    <3>2. Swept(Content(mirror[r]), Aged).epoch \in Nat
      BY Stores, SweptType DEF StoreSet
    <3>3. c # NoCommit
      BY <3>1 DEF NoCommit
    <3> QED BY <3>1, <3>2, <3>3 DEF Rises, Content
  <2> HIDE DEF c
  <2>6. SweptWell(r)'
    BY <2>1, <2>3, <2>5, SweepKeeps, SafeStays DEF SweptWell, IInv, CloneInv
  <2> QED BY <2>1, <2>3, <2>4, <2>5, <2>6, RemoteStays DEF FollowsStep, Still, FollowsInv, PInv
<1>19. ASSUME NEW r \in Replica, GcLands(r)
       PROVE  FollowsStep(r)
  <2>1. /\ UNCHANGED <<mirror, cand, base, snap, own, pending>>
        /\ Lease(r) /\ remote' = cand[r]
    BY <1>19 DEF GcLands, clone
  <2>2. /\ pc[r] = "gcPush" /\ pc'[r] = "gcUpdate"
        /\ \A q \in Replica \ {r} : pc'[q] = pc[q]
    BY <1>19 DEF GcLands, Goto, TypeOK
  <2>3. Rises(cand[r]) /\ Earlier(Content(remote), Content(cand[r]))
    BY <2>1, <2>2, LeaseRises
  <2>4. FollowsInv(r)'
    BY <2>1, <2>2, <2>3, Stores, EarlierOrders DEF FollowsInv, PInv
  <2> QED BY <2>1, <2>2, <2>3, <2>4 DEF FollowsStep, Still
<1>20. ASSUME NEW r \in Replica, GcRejected(r)
       PROVE  FollowsStep(r)
  <2>1. UNCHANGED <<remote, mirror, cand, base, snap, own, pending, dropped>>
    BY <1>20 DEF GcRejected, clone, ghosts
  <2>2. pc'[r] = "gcRefetch" /\ \A q \in Replica \ {r} : pc'[q] = pc[q]
    BY <1>20 DEF GcRejected, Goto, TypeOK
  <2> QED BY <2>1, <2>2, RemoteStays DEF FollowsStep, Still, FollowsInv, PInv
<1>21. ASSUME NEW r \in Replica, GcFails(r)
       PROVE  FollowsStep(r)
  <2>1. UNCHANGED <<mirror, pending>> /\ Exit(r) /\ pc[r] = "gcPush"
    BY <1>21 DEF GcFails, Fault, clone
  <2>2. Rises(remote)' /\ Earlier(Content(remote), Content(remote'))
    <3>1. CASE UNCHANGED remote
      BY <3>1, RemoteStays
    <3>2. CASE Lease(r) /\ remote' = cand[r]
      BY <2>1, <3>2, LeaseRises
    <3> QED BY <1>21, <3>1, <3>2 DEF GcFails
  <2> QED BY <2>1, <2>2, LandsExit DEF FollowsStep, Still
<1>22. ASSUME NEW r \in Replica, GcUpdate(r)
       PROVE  FollowsStep(r)
  <2>1. UNCHANGED <<remote, pending>> /\ Exit(r) /\ pc[r] = "gcUpdate"
    BY <1>22 DEF GcUpdate
  <2>2. mirror'[r] = cand[r] /\ \A q \in Replica \ {r} : mirror'[q] = mirror[q]
    BY <1>22 DEF GcUpdate, TypeOK
  <2>3. Rises(cand[r]) /\ Earlier(Content(cand[r]), Content(remote))
    BY <2>1 DEF PInv, FollowsInv
  <2> QED BY <2>1, <2>2, <2>3, RemoteStays, FollowsExit DEF FollowsStep, Still
<1>23. ASSUME NEW r \in Replica
       PROVE  ~AddRemote(r)
  BY DEF AddRemote, IInv, CloneInv
<1> QED
  BY <1>1, <1>2, <1>3, <1>4, <1>5, <1>6, <1>7, <1>8, <1>9, <1>10, <1>11, <1>12,
     <1>13, <1>14, <1>15, <1>16, <1>17, <1>18, <1>19, <1>20, <1>21, <1>22, <1>23
  DEF Next, SyncStep, GcStep

\* The invariant of the promise holds where no clone gets its remote late.
LEMMA PInvCorrect ==
  ASSUME NoLateRemote
  PROVE  Spec => []PInv
<1>1. Init => PInv
  <2> SUFFICES ASSUME Init
               PROVE  PInv
    OBVIOUS
  <2>1. Rises(NoCommit) /\ Content(NoCommit) = EmptySet /\ EmptySet \in StoreSet
    BY EmptyType DEF Rises, NoCommit, Content
  <2>2. Earlier(EmptySet, EmptySet)
    BY DEF Earlier
  <2>3. ASSUME NEW r \in Replica
        PROVE  FollowsInv(r)
    BY <2>1, <2>2 DEF Init, FollowsInv
  <2> QED BY <2>1, <2>3 DEF PInv, Init
<1>2. TypeOK /\ TypeOK' /\ IInv /\ PInv /\ [Next]_vars => PInv'
  <2> SUFFICES ASSUME TypeOK, TypeOK', IInv, PInv, [Next]_vars
               PROVE  PInv'
    OBVIOUS
  <2>1. CASE Next
    <3>1. Safe \subseteq Safe'
      BY <2>1, EveryStep DEF StepOf
    <3> QED BY <2>1, <3>1, EveryStepFollows, FollowsPreserves
  <2>2. CASE UNCHANGED vars
    BY <2>2 DEF PInv, FollowsInv, SweptWell, Safe, Shared, vars, clone, session, ghosts
  <2> QED BY <2>1, <2>2
<1> QED BY TypeCorrect, InvCorrect, <1>1, <1>2, PTL DEF Spec

-----------------------------------------------------------------------------
(* The promise, and that it is kept.                                       *)

\* Every record acknowledged stays in a pending, on the remote, or with what
\* was swept: so says SharedStore of any system that implements it.
THEOREM PromiseLosesNothing == Promise!Spec => []Promise!NothingLost
<1>1. Promise!Init => Promise!NothingLost
  BY DEF Promise!Init, Promise!NothingLost
<1>2. Promise!NothingLost /\ [Promise!Next]_Promise!vars => Promise!NothingLost'
  BY DEF Promise!NothingLost, Promise!Next, Promise!Acknowledge, Promise!Share,
         Promise!Release, Promise!Compact, Promise!vars
<1> QED BY <1>1, <1>2, PTL DEF Promise!Spec

\* Where only clones and mirrors move, the promise sees nothing.
LEMMA QuietStep ==
  ASSUME UNCHANGED <<remote, authored, pending, dropped>>
  PROVE  UNCHANGED Promise!vars
BY DEF Promise!vars, acked, Held, Shared

\* A push that lands shares what was pending in its clone.
LEMMA PushShares ==
  ASSUME TypeOK, IInv, PInv, NEW r \in Replica, pc[r] = "push",
         FastForward(remote, cand[r]), remote' = cand[r],
         UNCHANGED <<authored, pending, dropped>>
  PROVE  Promise!Share
<1> DEFINE c == Content(cand[r])
           X == c.recs \ Shared
<1>1. Content(remote).recs \subseteq c.recs /\ Content(remote).epoch <= c.epoch
  <2>1. Grows(cand[r]) /\ Rises(cand[r])
    BY DEF IInv, CloneInv, PInv, FollowsInv
  <2> QED BY <2>1, ForwardKeeps, ForwardRises DEF TypeOK
<1>2. c.epoch \in Nat /\ Content(remote).epoch \in Nat
  BY Stores DEF StoreSet
<1>3. /\ own[r] \subseteq pending[r]
      /\ \/ c.epoch < Content(remote).epoch
         \/ c.epoch = Content(remote).epoch /\ c.recs \subseteq Content(remote).recs \cup own[r]
  BY DEF PInv, FollowsInv
<1>4. X \subseteq Held
  BY <1>1, <1>2, <1>3 DEF Held, Shared
<1>5. Content(remote').recs = Shared \cup X /\ Content(remote').epoch = Content(remote).epoch
  BY <1>1, <1>2, <1>3 DEF Shared
<1>6. acked' = acked /\ Held' = Held
  BY DEF acked, Held
<1> HIDE DEF X
<1> QED BY <1>4, <1>5, <1>6 DEF Promise!Share, Shared

\* A compaction that lands takes no tombstone; one that finds itself there
\* already changes nothing.
LEMMA LeaseCompacts ==
  ASSUME TypeOK, IInv, PInv, NEW r \in Replica, pc[r] = "gcPush", Lease(r),
         remote' = cand[r], dropped' = dropped \cup Drops(r),
         UNCHANGED <<authored, pending>>
  PROVE  [Promise!Next]_(Promise!vars)
<1> DEFINE was == Content(base[r])
           is == Content(cand[r])
           terminal == {x \in Record : x.kind = "TB"}
<1>1. /\ was.recs \subseteq Safe /\ is.recs \subseteq was.recs
      /\ \A x \in was.recs : x.kind = "TB" => x \in is.recs
      /\ is.epoch = was.epoch + 1
  BY DEF PInv, FollowsInv, SweptWell
<1>2. acked' = acked /\ Held' = Held
  BY DEF acked, Held
<1>3. CASE remote = base[r]
  <2>1. Drops(r) \in SUBSET (Shared \ terminal)
    BY <1>1, <1>3 DEF Drops, Shared
  <2>2. Content(remote').recs = Shared \ Drops(r)
    BY <1>1, <1>3 DEF Drops, Shared
  <2>3. Content(remote').epoch = Content(remote).epoch + 1
    BY <1>1, <1>3
  <2>4. Promise!Compact
    BY <1>2, <2>1, <2>2, <2>3 DEF Promise!Compact, Shared
  <2> QED BY <2>4 DEF Promise!Next
<1>4. CASE remote = cand[r]
  <2>1. Drops(r) \subseteq dropped
    BY <1>1, <1>4 DEF Drops, Safe, Shared
  <2>2. dropped' = dropped /\ remote' = remote
    BY <1>4, <2>1
  <2> QED BY <2>2, QuietStep
<1> QED BY <1>3, <1>4 DEF Lease

\* What is acknowledged at once, by a command or by a mint pass, was never
\* acknowledged before.
LEMMA AppendsAcknowledge ==
  ASSUME TypeOK, NEW r \in Replica, NEW V \in SUBSET (Record \ acked),
         pending' = [pending EXCEPT ![r] = @ \cup V],
         authored' = [authored EXCEPT ![r] = @ \cup V],
         UNCHANGED <<remote, dropped>>
  PROVE  [Promise!Next]_(Promise!vars)
<1>1. acked' = acked \cup V /\ Held' = Held \cup V
  BY DEF acked, Held, TypeOK
<1>2. CASE V = {}
  BY <1>1, <1>2 DEF Promise!vars, Shared
<1>3. CASE V # {}
  <2>1. Promise!Acknowledge
    BY <1>1, <1>3 DEF Promise!Acknowledge, Shared
  <2> QED BY <2>1 DEF Promise!Next
<1> QED BY <1>2, <1>3

\* Every step of the system is a step of the promise, or none.
LEMMA PromiseStep ==
  ASSUME TypeOK, IInv, PInv, [Next]_vars
  PROVE  [Promise!Next]_(Promise!vars)
<1>1. ASSUME NEW r \in Replica, NEW x \in Record, Write(r, x)
      PROVE  [Promise!Next]_(Promise!vars)
  <2>1. /\ pending' = [pending EXCEPT ![r] = @ \cup {x}]
        /\ authored' = [authored EXCEPT ![r] = @ \cup {x}]
        /\ UNCHANGED <<remote, dropped>> /\ x \in Record \ acked
    BY <1>1 DEF Write, Writable
  <2>2. {x} \in SUBSET (Record \ acked)
    BY <2>1
  <2> QED BY <2>1, <2>2, AppendsAcknowledge
<1>2. ASSUME NEW r \in Replica, Mint(r)
      PROVE  [Promise!Next]_(Promise!vars)
  <2>1. PICK V \in Mintable(r) :
          /\ pending' = [pending EXCEPT ![r] = @ \cup V]
          /\ authored' = [authored EXCEPT ![r] = @ \cup V]
    BY <1>2 DEF Mint
  <2>2. V \in SUBSET (Record \ acked) /\ UNCHANGED <<remote, dropped>>
    BY <1>2, <2>1 DEF Mint, Mintable
  <2> QED BY <2>1, <2>2, AppendsAcknowledge
<1>3. ASSUME NEW r \in Replica, PushLands(r)
      PROVE  [Promise!Next]_(Promise!vars)
  <2>1. /\ pc[r] = "push" /\ FastForward(remote, cand[r]) /\ remote' = cand[r]
        /\ UNCHANGED <<authored, pending, dropped>>
    BY <1>3 DEF PushLands, Goto, clone, ghosts
  <2> QED BY <2>1, PushShares DEF Promise!Next
<1>4. ASSUME NEW r \in Replica, PushFails(r)
      PROVE  [Promise!Next]_(Promise!vars)
  <2>1. pc[r] = "push" /\ UNCHANGED <<authored, pending, dropped>>
    BY <1>4 DEF PushFails, clone
  <2>2. CASE UNCHANGED remote
    BY <2>1, <2>2, QuietStep
  <2>3. CASE FastForward(remote, cand[r]) /\ remote' = cand[r]
    BY <2>1, <2>3, PushShares DEF Promise!Next
  <2> QED BY <1>4, <2>2, <2>3 DEF PushFails
<1>5. ASSUME NEW r \in Replica, ClearRecord(r)
      PROVE  [Promise!Next]_(Promise!vars)
  <2>1. pc[r] = "clear" /\ UNCHANGED <<remote, authored, dropped>>
    BY <1>5 DEF ClearRecord, ghosts
  <2>2. PICK x \in own[r] \cap pending[r] : pending' = [pending EXCEPT ![r] = @ \ {x}]
    BY <1>5 DEF ClearRecord
  <2> DEFINE X == Held \ Held'
  <2>3. x \in Shared \cup dropped
    BY <2>1, <2>2 DEF IInv, CloneInv, Safe
  <2>4. \A q \in Replica : pending'[q] = pending[q] \/ pending'[q] = pending[q] \ {x}
    BY <2>2 DEF TypeOK
  <2>5. Held' \subseteq Held /\ X \subseteq {x}
    BY <2>4 DEF Held
  <2>6. X \in SUBSET (Held \cap (Shared \cup dropped)) /\ Held' = Held \ X
    BY <2>3, <2>5
  <2> HIDE DEF X
  <2>7. acked' = acked /\ Shared' = Shared
    BY <2>1 DEF acked, Shared
  <2>8. Promise!Release
    BY <2>1, <2>6, <2>7 DEF Promise!Release
  <2> QED BY <2>8 DEF Promise!Next
<1>6. ASSUME NEW r \in Replica, GcLands(r)
      PROVE  [Promise!Next]_(Promise!vars)
  <2>1. /\ pc[r] = "gcPush" /\ Lease(r) /\ remote' = cand[r]
        /\ dropped' = dropped \cup Drops(r) /\ UNCHANGED <<authored, pending>>
    BY <1>6 DEF GcLands, Goto, clone
  <2> QED BY <2>1, LeaseCompacts
<1>7. ASSUME NEW r \in Replica, GcFails(r)
      PROVE  [Promise!Next]_(Promise!vars)
  <2>1. pc[r] = "gcPush" /\ UNCHANGED <<authored, pending>>
    BY <1>7 DEF GcFails, clone
  <2>2. CASE UNCHANGED <<remote, dropped>>
    BY <2>1, <2>2, QuietStep
  <2>3. CASE Lease(r) /\ remote' = cand[r] /\ dropped' = dropped \cup Drops(r)
    BY <2>1, <2>3, LeaseCompacts
  <2> QED BY <1>7, <2>2, <2>3 DEF GcFails
<1>8. ASSUME NEW r \in Replica, GcUpdate(r)
      PROVE  [Promise!Next]_(Promise!vars)
  <2>1. UNCHANGED dropped
    BY <1>8 DEF GcUpdate, HasRemote, IInv, CloneInv
  <2> QED BY <1>8, <2>1, QuietStep DEF GcUpdate
<1>9. ASSUME NEW r \in Replica,
             \/ DmInit(r) \/ CreateStore(r) \/ DmInitFails(r) \/ AddRemote(r) \/ GitFetch(r)
             \/ \E x \in Record : WriteDies(r, x)
             \/ \E e \in Entry : Bump(r, e)
             \/ SyncOpen(r) \/ SyncOpenSkipping(r) \/ GcOpen(r) \/ GcOpenSkipping(r)
      PROVE  [Promise!Next]_(Promise!vars)
  <2>1. UNCHANGED <<remote, authored, pending, dropped>>
    BY <1>9 DEF DmInit, CreateStore, DmInitFails, AddRemote, GitFetch, WriteDies, Bump,
               SyncOpen, SyncOpenSkipping, Open, GcOpen, GcOpenSkipping, OpenGc, ghosts
  <2> QED BY <2>1, QuietStep
<1>10. ASSUME NEW r \in Replica,
              \/ SyncFetch(r) \/ Build(r) \/ PushRejected(r) \/ PushGivesUp(r) \/ Refetch(r)
              \/ UpdateRef(r) \/ ClearBlob(r) \/ ClearStats(r)
              \/ GcFetch(r) \/ GcSweep(r) \/ GcNothing(r) \/ GcRejected(r) \/ GcGivesUp(r)
              \/ Crash(r)
       PROVE  [Promise!Next]_(Promise!vars)
  <2>1. UNCHANGED <<remote, authored, pending, dropped>>
    BY <1>10 DEF SyncFetch, Build, PushRejected, PushGivesUp, Refetch, UpdateRef, ClearBlob,
                ClearStats, GcFetch, GcSweep, GcNothing, GcRejected, GcGivesUp, Crash,
                clone, ghosts
  <2> QED BY <2>1, QuietStep
<1>11. CASE UNCHANGED vars
  <2>1. UNCHANGED <<remote, authored, pending, dropped>>
    BY <1>11 DEF vars, clone, ghosts
  <2> QED BY <2>1, QuietStep
<1>12. CASE Next
  BY <1>1, <1>2, <1>3, <1>4, <1>5, <1>6, <1>7, <1>8, <1>9, <1>10, <1>12
  DEF Next, SyncStep, GcStep
<1> QED BY <1>11, <1>12

\* The machinery of sync and gc implements SharedStore: whatever the crashes,
\* races, lost replies and retries, an acknowledged record is pending until it
\* is shared and shared until a compaction sweeps it, and what a landing adds
\* to the remote is pending somewhere, if no clone gets its remote late.
THEOREM PromiseIsKept ==
  ASSUME NoLateRemote
  PROVE  Spec => KeepsPromise
<1>1. Init => Promise!Init
  BY DEF Init, Promise!Init, acked, Held, Shared, Content, NoCommit, EmptySet
<1>2. TypeOK /\ IInv /\ PInv /\ [Next]_vars => [Promise!Next]_(Promise!vars)
  BY PromiseStep
<1> QED BY TypeCorrect, InvCorrect, PInvCorrect, <1>1, <1>2, PTL
         DEF Spec, KeepsPromise, Promise!Spec

\* No landing brings back what a compaction swept: all that it adds to the
\* remote is pending in a clone.
THEOREM NothingResurrects ==
  ASSUME NoLateRemote
  PROVE  Spec => NoResurrection
<1>1. ASSUME TypeOK, IInv, PInv, [Next]_vars
      PROVE  [Content(remote').recs \ Shared \subseteq Held]_vars
  <2>1. [Promise!Next]_(Promise!vars)
    BY <1>1, PromiseStep
  <2>2. Content(remote').recs = Shared'
    BY DEF Shared
  <2>3. Shared' \ Shared \subseteq Held
    BY <2>1 DEF Promise!Next, Promise!Acknowledge, Promise!Share, Promise!Release,
                Promise!Compact, Promise!vars
  <2> QED BY <2>2, <2>3
<1> QED BY TypeCorrect, InvCorrect, PInvCorrect, <1>1, PTL DEF Spec, NoResurrection

\* What leaves the remote leaves it with its epoch, so that every clone with an
\* older copy is told; and no step lowers the epoch.
THEOREM OnlyCompactionForgets ==
  ASSUME NoLateRemote
  PROVE  Spec => ForgottenOnlyByCompaction
<1> DEFINE Told == /\ Shared \ Content(remote').recs # {}
                         => Content(remote').epoch > Content(remote).epoch
                   /\ Content(remote').epoch >= Content(remote).epoch
<1>1. ASSUME TypeOK, IInv, PInv, [Next]_vars
      PROVE  Told
  <2>1. [Promise!Next]_(Promise!vars)
    BY <1>1, PromiseStep
  <2>2. Content(remote').recs = Shared' /\ Content(remote).epoch \in Nat
    BY <1>1, ContentType DEF Shared, TypeOK, StoreSet
  <2>3. \/ Shared' = Shared /\ Content(remote').epoch = Content(remote).epoch
        \/ Shared \subseteq Shared' /\ Content(remote').epoch = Content(remote).epoch
        \/ Content(remote').epoch = Content(remote).epoch + 1
    BY <2>1 DEF Promise!Next, Promise!Acknowledge, Promise!Share, Promise!Release,
                Promise!Compact, Promise!vars
  <2> QED BY <2>2, <2>3
<1>2. TypeOK /\ IInv /\ PInv /\ [Next]_vars => [Told]_vars
  BY <1>1
<1> QED BY TypeCorrect, InvCorrect, PInvCorrect, <1>2, PTL DEF Spec, ForgottenOnlyByCompaction

Tombs(R) == {x \in R : x.kind = "TB"}

\* No acknowledged deletion is ever lost, to a compaction either: it is pending
\* in a clone until it is on the remote, and what is there stays there.  gc
\* decides what to take from the store it fetched, and what it pushes replaces
\* the remote by force: no tombstone that landed by then may be missing from it.
THEOREM DeletionsAreKept ==
  ASSUME NoLateRemote
  PROVE  Spec => /\ [](Tombs(acked) \subseteq Held \cup Shared)
                 /\ [][Tombs(Shared) \subseteq Shared']_vars
<1> DEFINE NoneSwept == Tombs(dropped) = {}
<1>1. Init => NoneSwept
  BY DEF Init, Tombs
<1>2. ASSUME TypeOK, IInv, PInv, NoneSwept, [Next]_vars
      PROVE  NoneSwept' /\ Tombs(Shared) \subseteq Shared'
  <2>1. [Promise!Next]_(Promise!vars)
    BY <1>2, PromiseStep
  <2>2. \/ dropped' = dropped /\ Shared \subseteq Shared'
        \/ \E X \in SUBSET (Shared \ {x \in Record : x.kind = "TB"}) :
             dropped' = dropped \cup X /\ Shared' = Shared \ X
    BY <2>1 DEF Promise!Next, Promise!Acknowledge, Promise!Share, Promise!Release,
                Promise!Compact, Promise!vars
  <2>3. Shared \subseteq Record
    BY <1>2, ContentType DEF Shared, TypeOK, StoreSet
  <2> QED BY <1>2, <2>2, <2>3 DEF Tombs
<1>3. IInv /\ NoneSwept => Tombs(acked) \subseteq Held \cup Shared
  BY DEF IInv, RecordsInv, NoLostRecord, acked, Held, Safe, Tombs
<1>4. TypeOK /\ IInv /\ PInv /\ NoneSwept /\ [Next]_vars => NoneSwept'
  BY <1>2
<1>5. TypeOK /\ IInv /\ PInv /\ NoneSwept /\ [Next]_vars
        => [Tombs(Shared) \subseteq Shared']_vars
  BY <1>2
<1> HIDE DEF NoneSwept
<1>6. Spec => []NoneSwept
  BY <1>1, <1>4, TypeCorrect, InvCorrect, PInvCorrect, PTL DEF Spec
<1>7. Spec => [](Tombs(acked) \subseteq Held \cup Shared)
  BY <1>3, <1>6, InvCorrect, PTL
<1>8. Spec => [][Tombs(Shared) \subseteq Shared']_vars
  BY <1>5, <1>6, TypeCorrect, InvCorrect, PInvCorrect, PTL DEF Spec
<1> QED BY <1>7, <1>8

-----------------------------------------------------------------------------
(* The invariant of reading.                                               *)
(*                                                                         *)
(* A clone's own records are in its mirror or pending, but the mirror is   *)
(* replaced wholesale at a fetch, after a landing and when dm init creates *)
(* a store, and pending is cleared on the word of the program counter.     *)
(* What will replace the mirror must hold them as well.                    *)

ReadsInv(r) ==
  LET seen(c) == Content(c).recs \cup pending[r] \cup dropped
  IN  /\ authored[r] \subseteq seen(mirror[r])
      /\ inited[r] = "creating" => pc[r] = "idle" /\ authored[r] \subseteq pending[r] \cup dropped
      /\ pc[r] \in {"push", "update"} => /\ authored[r] \subseteq seen(cand[r])
                                         /\ own[r] \subseteq Content(cand[r]).recs
      /\ pc[r] = "clear" => own[r] \subseteq Content(mirror[r]).recs \cup dropped
      /\ pc[r] = "gcPush" => authored[r] \subseteq seen(base[r])
      /\ pc[r] = "gcUpdate" => authored[r] \subseteq seen(cand[r])

RInv == \A r \in Replica : ReadsInv(r)

Unread(q) ==
  /\ mirror'[q] = mirror[q] /\ cand'[q] = cand[q] /\ base'[q] = base[q]
  /\ own'[q] = own[q] /\ pc'[q] = pc[q] /\ inited'[q] = inited[q]
  /\ pending'[q] = pending[q] /\ authored'[q] = authored[q]

ReadStep(r) ==
  /\ dropped \subseteq dropped'
  /\ \A q \in Replica \ {r} : Unread(q)
  /\ ReadsInv(r)'

\* Such a step preserves the invariant.
LEMMA ReadPreserves ==
  ASSUME RInv, NEW r \in Replica, ReadStep(r)
  PROVE  RInv'
<1> SUFFICES ASSUME NEW q \in Replica, q # r
             PROVE  ReadsInv(q)'
  BY DEF RInv, ReadStep
<1>1. ReadsInv(q) /\ Unread(q) /\ dropped \subseteq dropped'
  BY DEF RInv, ReadStep
<1>2. /\ Content(mirror'[q]) = Content(mirror[q]) /\ Content(cand'[q]) = Content(cand[q])
      /\ Content(base'[q]) = Content(base[q])
  BY <1>1 DEF Unread
<1> QED BY <1>1, <1>2 DEF ReadsInv, Unread

\* A mirror holds nothing but what is safe: what a fetch takes from the clone,
\* it had from the remote, and it is there or swept.
LEMMA FetchReads ==
  ASSUME TypeOK, IInv, RInv, NEW r \in Replica, FetchInto(r)
  PROVE  /\ authored[r] \subseteq Content(mirror'[r]).recs \cup pending[r] \cup dropped
         /\ pc[r] = "clear" => own[r] \subseteq Content(mirror'[r]).recs \cup dropped
         /\ \A q \in Replica \ {r} : mirror'[q] = mirror[q]
<1>1. ReadsInv(r) /\ CloneInv(r)
  BY DEF RInv, IInv
<1>2. CASE remote = NoCommit
  <2>1. mirror' = mirror
    BY <1>2 DEF FetchInto
  <2> QED BY <1>1, <2>1 DEF ReadsInv
<1>3. CASE remote # NoCommit
  <2>1. mirror'[r] = remote /\ \A q \in Replica \ {r} : mirror'[q] = mirror[q]
    BY <1>3 DEF FetchInto, TypeOK
  <2> QED BY <1>1, <2>1 DEF ReadsInv, CloneInv, Safe, Shared
<1> QED BY <1>2, <1>3

\* An invocation that is over needs no more than that the clone's mirror, and
\* what is pending, hold what it wrote.
LEMMA ExitReads ==
  ASSUME TypeOK, RInv, NEW r \in Replica, Exit(r), UNCHANGED <<inited, pending, authored>>,
         dropped \subseteq dropped',
         authored[r] \subseteq Content(mirror'[r]).recs \cup pending[r] \cup dropped',
         \A q \in Replica \ {r} : mirror'[q] = mirror[q]
  PROVE  ReadStep(r)
<1>1. pc'[r] = "idle"
  BY DEF Exit, TypeOK
<1>2. ReadsInv(r)'
  BY <1>1 DEF ReadsInv, RInv
<1>3. \A q \in Replica \ {r} : Unread(q)
  BY DEF Exit, TypeOK, Unread
<1> QED BY <1>2, <1>3 DEF ReadStep

\* What a compaction that lands sweeps, the clone knows to be swept.
LEMMA SweptReads ==
  ASSUME RInv, NEW r \in Replica, pc[r] = "gcPush", dropped' = dropped \cup Drops(r)
  PROVE  authored[r] \subseteq Content(cand[r]).recs \cup pending[r] \cup dropped'
BY DEF RInv, ReadsInv, Drops

\* Every step there is, is such a step of a clone.
LEMMA EveryStepReads ==
  ASSUME ~InitBeside, TypeOK, IInv, RInv, Next
  PROVE  \E r \in Replica : ReadStep(r)
<1>1. ASSUME NEW r \in Replica, DmInit(r)
      PROVE  ReadStep(r)
  <2>1. /\ UNCHANGED <<cand, base, own, pc, pending, authored, dropped>>
        /\ pc[r] = "idle" /\ ReadsInv(r)
        /\ \A q \in Replica \ {r} : inited'[q] = inited[q]
    BY <1>1 DEF DmInit, session, ghosts, TypeOK, RInv
  <2>2. CASE UNCHANGED mirror
    <3>1. inited'[r] = "creating" => Content(mirror[r]).recs = {}
      BY <1>1 DEF DmInit, TypeOK, Content, EmptySet
    <3> QED BY <2>1, <2>2, <3>1 DEF ReadStep, Unread, ReadsInv
  <2>3. CASE mirror[r] = NoCommit /\ RemoteStore(r) /\ FetchInto(r)
    <3>1. inited'[r] = "yes"
      BY <1>1, <2>3 DEF DmInit, TypeOK
    <3> QED BY <2>1, <2>3, <3>1, FetchReads DEF ReadStep, Unread, ReadsInv
  <2> QED BY <1>1, <2>2, <2>3 DEF DmInit
<1>2. ASSUME NEW r \in Replica, CreateStore(r)
      PROVE  ReadStep(r)
  <2>1. /\ UNCHANGED <<cand, base, own, pc, pending, authored, dropped>>
        /\ inited[r] = "creating" /\ inited'[r] = "yes"
        /\ \A q \in Replica \ {r} : inited'[q] = inited[q] /\ mirror'[q] = mirror[q]
    BY <1>2 DEF CreateStore, session, ghosts, TypeOK
  <2>2. pc[r] = "idle" /\ authored[r] \subseteq pending[r] \cup dropped
    BY <2>1 DEF RInv, ReadsInv
  <2> QED BY <2>1, <2>2 DEF ReadStep, Unread, ReadsInv
<1>3. ASSUME NEW r \in Replica, DmInitFails(r)
      PROVE  ReadStep(r)
  <2>1. /\ UNCHANGED <<mirror, cand, base, own, pc, pending, authored, dropped>>
        /\ inited'[r] = "yes" /\ \A q \in Replica \ {r} : inited'[q] = inited[q]
    BY <1>3 DEF DmInitFails, session, TypeOK
  <2> QED BY <2>1 DEF ReadStep, Unread, ReadsInv, RInv
<1>4. ASSUME NEW r \in Replica,
             \/ \E x \in Record : WriteDies(r, x)
             \/ \E e \in Entry : Bump(r, e)
             \/ ClearBlob(r)
      PROVE  ReadStep(r)
  <2>1. UNCHANGED <<mirror, cand, base, own, pc, inited, pending, authored, dropped>>
    BY <1>4 DEF WriteDies, Bump, ClearBlob, session, ghosts
  <2> QED BY <2>1 DEF ReadStep, Unread, ReadsInv, RInv
<1>5. ASSUME NEW r \in Replica, GitFetch(r)
      PROVE  ReadStep(r)
  <2>1. UNCHANGED <<cand, base, own, pc, inited, pending, authored, dropped>> /\ FetchInto(r)
    BY <1>5 DEF GitFetch, session, ghosts
  <2> QED BY <2>1, FetchReads DEF ReadStep, Unread, ReadsInv, RInv
<1>6. ASSUME NEW r \in Replica, NEW x \in Record, Write(r, x)
      PROVE  ReadStep(r)
  <2>1. /\ UNCHANGED <<mirror, cand, base, own, pc, inited, dropped>>
        /\ pc[r] = "idle" /\ inited[r] = "yes"
    BY <1>6 DEF Write, session, Initialized
  <2>2. /\ pending'[r] = pending[r] \cup {x} /\ authored'[r] = authored[r] \cup {x}
        /\ \A q \in Replica \ {r} : pending'[q] = pending[q] /\ authored'[q] = authored[q]
    BY <1>6 DEF Write, TypeOK
  <2> QED BY <2>1, <2>2 DEF ReadStep, Unread, ReadsInv, RInv
<1>7. ASSUME NEW r \in Replica,
             SyncOpen(r) \/ SyncOpenSkipping(r) \/ GcOpen(r) \/ GcOpenSkipping(r)
      PROVE  ReadStep(r)
  <2>1. /\ UNCHANGED <<mirror, cand, base, own, inited, pending, authored, dropped>>
        /\ inited[r] = "yes"
    BY <1>7 DEF SyncOpen, SyncOpenSkipping, Open, GcOpen, GcOpenSkipping, OpenGc, ghosts,
                Initialized
  <2>2. pc'[r] \in {"fetch", "mint", "gcFetch", "gcSweep"} /\ \A q \in Replica \ {r} : pc'[q] = pc[q]
    BY <1>7 DEF SyncOpen, SyncOpenSkipping, GcOpen, GcOpenSkipping, Goto, TypeOK
  <2> QED BY <2>1, <2>2 DEF ReadStep, Unread, ReadsInv, RInv
<1>8. ASSUME NEW r \in Replica, SyncFetch(r) \/ Refetch(r) \/ GcFetch(r)
      PROVE  ReadStep(r)
  <2>1. UNCHANGED <<cand, base, own, inited, pending, authored, dropped>> /\ FetchInto(r)
    BY <1>8 DEF SyncFetch, Refetch, GcFetch, ghosts
  <2>2. /\ pc[r] # "idle" /\ pc'[r] \in {"mint", "build", "gcSweep"}
        /\ \A q \in Replica \ {r} : pc'[q] = pc[q]
    BY <1>8 DEF SyncFetch, Refetch, GcFetch, Goto, TypeOK
  <2> QED BY <2>1, <2>2, FetchReads DEF ReadStep, Unread, ReadsInv, RInv
<1>9. ASSUME NEW r \in Replica, Mint(r)
      PROVE  ReadStep(r)
  <2>1. UNCHANGED <<mirror, cand, base, inited, dropped>>
    BY <1>9 DEF Mint
  <2>2. PICK V \in Mintable(r) :
          /\ pending' = [pending EXCEPT ![r] = @ \cup V]
          /\ own' = [own EXCEPT ![r] = pending[r] \cup V]
          /\ authored' = [authored EXCEPT ![r] = @ \cup V]
    BY <1>9 DEF Mint
  <2>3. /\ pending'[r] = pending[r] \cup V /\ authored'[r] = authored[r] \cup V
        /\ \A q \in Replica \ {r} : /\ pending'[q] = pending[q] /\ authored'[q] = authored[q]
                                    /\ own'[q] = own[q]
    BY <2>2 DEF TypeOK
  <2>4. pc[r] = "mint" /\ pc'[r] = "build" /\ \A q \in Replica \ {r} : pc'[q] = pc[q]
    BY <1>9 DEF Mint, Goto, TypeOK
  <2> QED BY <2>1, <2>3, <2>4 DEF ReadStep, Unread, ReadsInv, RInv
<1>10. ASSUME NEW r \in Replica, Build(r)
       PROVE  ReadStep(r)
  <2>1. /\ UNCHANGED <<mirror, base, own, inited, pending, authored, dropped>>
        /\ pc[r] = "build"
    BY <1>10 DEF Build, ghosts
  <2>2. PICK at \in CommitTime :
           LET commit == StoreCommit(Merged(r), mirror[r], at)
           IN  /\ cand' = [cand EXCEPT ![r] = commit]
               /\ pc' = [pc EXCEPT ![r] = IF mirror[r] # NoCommit /\ commit = mirror[r]
                                          THEN "clear"
                                          ELSE IF HasRemote(r) THEN "push" ELSE "update"]
    BY <1>10 DEF Build
  <2> DEFINE commit == StoreCommit(Merged(r), mirror[r], at)
  <2>3. /\ Content(mirror[r]).recs \subseteq Content(commit).recs
        /\ own[r] \subseteq Content(commit).recs
    BY MergedHoldsOwn, CommitHolds DEF TypeOK
  <2> HIDE DEF commit
  <2>4. /\ cand'[r] = commit
        /\ \A q \in Replica \ {r} : cand'[q] = cand[q] /\ pc'[q] = pc[q]
    BY <2>2 DEF TypeOK, commit
  <2>5. \/ pc'[r] \in {"push", "update"}
        \/ pc'[r] = "clear" /\ commit = mirror[r]
    BY <2>2 DEF TypeOK, commit
  <2>6. ReadsInv(r) /\ inited[r] # "creating"
    BY <2>1 DEF RInv, ReadsInv
  <2>7. ReadsInv(r)'
    <3>1. CASE pc'[r] \in {"push", "update"}
      BY <2>1, <2>3, <2>4, <2>6, <3>1 DEF ReadsInv
    <3>2. CASE pc'[r] = "clear" /\ commit = mirror[r]
      BY <2>1, <2>3, <2>6, <3>2 DEF ReadsInv
    <3> QED BY <2>5, <3>1, <3>2
  <2> QED BY <2>1, <2>4, <2>7 DEF ReadStep, Unread
<1>11. ASSUME NEW r \in Replica, PushLands(r) \/ PushRejected(r) \/ GcRejected(r)
       PROVE  ReadStep(r)
  <2>1. UNCHANGED <<mirror, cand, base, own, inited, pending, authored, dropped>>
    BY <1>11 DEF PushLands, PushRejected, GcRejected, clone, ghosts
  <2>2. /\ \/ pc[r] = "push" /\ pc'[r] \in {"update", "refetch"}
           \/ pc[r] = "gcPush" /\ pc'[r] = "gcRefetch"
        /\ \A q \in Replica \ {r} : pc'[q] = pc[q]
    BY <1>11 DEF PushLands, PushRejected, GcRejected, Goto, TypeOK
  <2> QED BY <2>1, <2>2 DEF ReadStep, Unread, ReadsInv, RInv
<1>12. ASSUME NEW r \in Replica,
              \/ PushGivesUp(r) \/ PushFails(r) \/ ClearStats(r)
              \/ GcNothing(r) \/ GcGivesUp(r) \/ GcFails(r) \/ Crash(r)
       PROVE  ReadStep(r)
  <2>1. UNCHANGED <<mirror, inited, pending, authored>> /\ Exit(r) /\ dropped \subseteq dropped'
    BY <1>12 DEF PushGivesUp, PushFails, ClearStats, GcNothing, GcGivesUp, GcFails, Crash,
                 Fault, clone, ghosts
  <2>2. authored[r] \subseteq Content(mirror'[r]).recs \cup pending[r] \cup dropped'
    BY <2>1 DEF RInv, ReadsInv
  <2> QED BY <2>1, <2>2, ExitReads
<1>13. ASSUME NEW r \in Replica, UpdateRef(r)
       PROVE  ReadStep(r)
  <2>1. UNCHANGED <<cand, base, own, inited, pending, authored, dropped>>
    BY <1>13 DEF UpdateRef, ghosts
  <2>2. /\ pc[r] = "update" /\ pc'[r] = "clear" /\ mirror'[r] = cand[r]
        /\ \A q \in Replica \ {r} : pc'[q] = pc[q] /\ mirror'[q] = mirror[q]
    BY <1>13 DEF UpdateRef, Goto, TypeOK
  <2> QED BY <2>1, <2>2 DEF ReadStep, Unread, ReadsInv, RInv
<1>14. ASSUME NEW r \in Replica, ClearRecord(r)
       PROVE  ReadStep(r)
  <2>1. UNCHANGED <<mirror, cand, base, own, pc, inited, authored, dropped>> /\ pc[r] = "clear"
    BY <1>14 DEF ClearRecord, session, ghosts
  <2>2. PICK x \in own[r] \cap pending[r] : pending' = [pending EXCEPT ![r] = @ \ {x}]
    BY <1>14 DEF ClearRecord
  <2>3. /\ pending'[r] = pending[r] \ {x}
        /\ \A q \in Replica \ {r} : pending'[q] = pending[q]
    BY <2>2 DEF TypeOK
  <2> QED BY <2>1, <2>2, <2>3 DEF ReadStep, Unread, ReadsInv, RInv
<1>15. ASSUME NEW r \in Replica, GcSweep(r)
       PROVE  ReadStep(r)
  <2>1. UNCHANGED <<mirror, own, inited, pending, authored, dropped>> /\ pc[r] = "gcSweep"
    BY <1>15 DEF GcSweep, clone, ghosts
  <2>2. /\ pc'[r] = "gcPush" /\ base'[r] = mirror[r]
        /\ \A q \in Replica \ {r} : /\ pc'[q] = pc[q] /\ base'[q] = base[q]
                                    /\ cand'[q] = cand[q]
    BY <1>15 DEF GcSweep, TypeOK, IInv, CloneInv, HasRemote
  <2> QED BY <2>1, <2>2 DEF ReadStep, Unread, ReadsInv, RInv
<1>16. ASSUME NEW r \in Replica, GcLands(r)
       PROVE  ReadStep(r)
  <2>1. /\ UNCHANGED <<mirror, cand, base, own, inited, pending, authored>>
        /\ dropped' = dropped \cup Drops(r)
    BY <1>16 DEF GcLands, clone
  <2>2. /\ pc[r] = "gcPush" /\ pc'[r] = "gcUpdate" /\ \A q \in Replica \ {r} : pc'[q] = pc[q]
    BY <1>16 DEF GcLands, Goto, TypeOK
  <2> QED BY <2>1, <2>2, SweptReads DEF ReadStep, Unread, ReadsInv, RInv
<1>17. ASSUME NEW r \in Replica, GcUpdate(r)
       PROVE  ReadStep(r)
  <2>1. /\ UNCHANGED <<inited, pending, authored>> /\ Exit(r) /\ dropped \subseteq dropped'
        /\ pc[r] = "gcUpdate"
    BY <1>17 DEF GcUpdate
  <2>2. mirror'[r] = cand[r] /\ \A q \in Replica \ {r} : mirror'[q] = mirror[q]
    BY <1>17 DEF GcUpdate, TypeOK
  <2>3. authored[r] \subseteq Content(mirror'[r]).recs \cup pending[r] \cup dropped'
    BY <2>1, <2>2 DEF RInv, ReadsInv
  <2> QED BY <2>1, <2>2, <2>3, ExitReads
<1>18. ASSUME NEW r \in Replica
       PROVE  ~AddRemote(r)
  BY DEF AddRemote, IInv, CloneInv
<1> QED
  BY <1>1, <1>2, <1>3, <1>4, <1>5, <1>6, <1>7, <1>8, <1>9, <1>10, <1>11, <1>12,
     <1>13, <1>14, <1>15, <1>16, <1>17, <1>18
  DEF Next, SyncStep, GcStep

\* The invariant holds if no clone runs a command beside dm init.
LEMMA RInvCorrect ==
  ASSUME NoLateRemote, ~InitBeside
  PROVE  Spec => []RInv
<1>1. Init => RInv
  BY DEF Init, RInv, ReadsInv
<1>2. TypeOK /\ IInv /\ RInv /\ [Next]_vars => RInv'
  <2> SUFFICES ASSUME TypeOK, IInv, RInv, [Next]_vars
               PROVE  RInv'
    OBVIOUS
  <2>1. CASE Next
    BY <2>1, EveryStepReads, ReadPreserves
  <2>2. CASE UNCHANGED vars
    BY <2>2 DEF RInv, ReadsInv, vars, clone, session, ghosts
  <2> QED BY <2>1, <2>2
<1> QED BY TypeCorrect, InvCorrect, <1>1, <1>2, PTL DEF Spec

\* A clone keeps seeing what it wrote, through every step of its own syncs and
\* compactions and of the others': in its mirror or pending, unless swept, if
\* no clone gets its remote late and none runs a command beside dm init, which
\* takes no lock.
THEOREM WritesAreRead ==
  ASSUME NoLateRemote, ~InitBeside
  PROVE  Spec => []ReadYourWrites
<1>1. RInv => ReadYourWrites
  BY DEF RInv, ReadsInv, ReadYourWrites, View
<1> QED BY RInvCorrect, <1>1, PTL

-----------------------------------------------------------------------------
(* Counts.                                                                 *)

LEMMA CountType ==
  ASSUME NEW s \in StoreSet, NEW q \in Replica, NEW e \in Entry
  PROVE  s.stats[q] \in Stats /\ s.stats[q][e].n \in Nat
BY DEF StoreSet, Stats, Row

\* A commit counts what it was made to say, or else what its parent said.
LEMMA CommitCounts ==
  ASSUME NEW s \in StoreSet, NEW tip \in Commit, NEW at \in CommitTime, NEW q \in Replica
  PROVE  Content(StoreCommit(s, tip, at)).stats[q] =
           IF s.stats[q] = NoStats THEN Content(tip).stats[q] ELSE s.stats[q]
<1> DEFINE new == Overlay(s, Content(tip))
           x == [tree |-> new, at |-> at]
           c == StoreCommit(s, tip, at)
<1>1. new.stats[q] = IF s.stats[q] = NoStats THEN Content(tip).stats[q] ELSE s.stats[q]
  BY DEF Overlay
<1>2. Content(c) = new
  <2>1. CASE tip # NoCommit /\ new = Content(tip)
    BY <2>1 DEF StoreCommit
  <2>2. CASE ~(tip # NoCommit /\ new = Content(tip))
    <3>1. c = Append(tip, x) /\ tip \in Seq(Tree)
      BY <2>2 DEF StoreCommit, Commit, Tree
    <3> HIDE DEF x
    <3>2. c # NoCommit /\ c[Len(c)] = x
      BY <3>1 DEF NoCommit
    <3> QED
      BY <3>2 DEF Content, x
  <2> QED
    BY <2>1, <2>2
<1> QED
  BY <1>1, <1>2

\* What a sync would have the store count: of the others what it read or what
\* the mirror has, of its own clone the deltas besides.
LEMMA MergedCounts ==
  ASSUME TypeOK, NEW r \in Replica, NEW q \in Replica, NEW e \in Entry
  PROVE  LET s == snap[r]
             m == Content(mirror[r])
             delta == IF q = r THEN pstats[r][e].n ELSE 0
         IN  /\ \/ Merged(r).stats[q][e].n = s.stats[q][e].n + delta
                \/ Merged(r).stats[q][e].n = m.stats[q][e].n + delta
             /\ s.epoch <= m.epoch => Merged(r).stats[q][e].n >= m.stats[q][e].n + delta
<1> DEFINE s == snap[r]
           m == Content(mirror[r])
           u == Merge(s, m)
           delta == IF q = r THEN pstats[r][e].n ELSE 0
<1>1. s \in StoreSet /\ m \in StoreSet /\ u \in StoreSet
  BY Stores, MergeType
<1>2. Merged(r) = WithOwn(u, own[r], pblobs[r], r, pstats[r])
  BY DEF Merged
<1>3. s.stats[q][e].n \in Nat /\ m.stats[q][e].n \in Nat /\ u.stats[q] \in Stats
      /\ s.epoch \in Nat /\ m.epoch \in Nat
  BY <1>1, CountType DEF StoreSet
<1>4. /\ u.stats[q][e].n = s.stats[q][e].n \/ u.stats[q][e].n = m.stats[q][e].n
      /\ s.epoch <= m.epoch => u.stats[q][e].n >= m.stats[q][e].n
  <2>1. CASE s.epoch # m.epoch
    BY <1>3, <2>1 DEF Merge
  <2>2. CASE s.epoch = m.epoch
    <3>1. u.stats[q][e].n = Larger(s.stats[q][e].n, m.stats[q][e].n)
      BY <2>2 DEF Merge, MergeStats
    <3> QED
      BY <1>3, <3>1 DEF Larger
  <2> QED
    BY <2>1, <2>2
<1> HIDE DEF u
<1>5. pstats[r] \in Stats /\ pstats[r][e].n \in Nat
  BY DEF TypeOK, Stats, Row
<1>6. Merged(r).stats[q][e].n = u.stats[q][e].n + delta
  <2>1. Merged(r).stats[q] = IF q = r THEN AddStats(u.stats[r], pstats[r]) ELSE u.stats[q]
    BY <1>1, <1>2 DEF WithOwn, StoreSet
  <2>2. u.stats[q][e].n \in Nat
    BY <1>1, CountType
  <2>3. CASE q = r
    BY <1>5, <2>1, <2>3 DEF AddStats
  <2>4. CASE q # r
    BY <2>1, <2>2, <2>4
  <2> QED
    BY <2>3, <2>4
<1>7. delta \in Nat /\ u.stats[q][e].n \in Nat
  BY <1>1, <1>5, CountType
<1> HIDE DEF delta
<1>8. /\ \/ Merged(r).stats[q][e].n = s.stats[q][e].n + delta
         \/ Merged(r).stats[q][e].n = m.stats[q][e].n + delta
      /\ s.epoch <= m.epoch => Merged(r).stats[q][e].n >= m.stats[q][e].n + delta
  BY <1>3, <1>4, <1>6, <1>7
<1> QED
  BY <1>8 DEF delta

-----------------------------------------------------------------------------
(* No count is exceeded.                                                   *)
(*                                                                         *)
(* The remote says too much of clone r when a store that has r's deltas in *)
(* it already gets them a second time.  So all stores that any clone holds *)
(* must know of no more than r has shared (Known), save the candidate that *)
(* r itself is about to push.                                              *)

Known(r) == [e \in Entry |-> bumped[r][e] - Unshared(r, e)]

Below(s, r, b) == \A e \in Entry : s.stats[r][e].n <= b[e]

CountsInv(q) ==
  \A r \in Replica :
    /\ Below(Content(mirror[q]), r, Known(r))
    /\ Below(snap[q], r, Known(r))
    /\ pc[q] \in {"push", "update"} =>
         Below(Content(cand[q]), r, IF q = r THEN bumped[r] ELSE Known(r))
    /\ pc[q] \in {"gcPush", "gcUpdate"} => Below(Content(cand[q]), r, Known(r))

CInv ==
  faults = 0 => /\ \A r \in Replica : Below(Content(remote), r, Known(r))
                /\ \A q \in Replica : CountsInv(q)

\* What a step of clone p does while nothing fails.
CountsStep(p) ==
  /\ \A r \in Replica, e \in Entry :
       Known(r)[e] <= Known(r)'[e] /\ bumped[r][e] <= bumped'[r][e]
  /\ \A q \in Replica \ {p} : /\ mirror'[q] = mirror[q] /\ snap'[q] = snap[q]
                              /\ cand'[q] = cand[q] /\ pc'[q] = pc[q]
  /\ \A r \in Replica : Below(Content(remote'), r, Known(r)')
  /\ CountsInv(p)'

LEMMA KnownType ==
  ASSUME TypeOK, NEW r \in Replica, NEW e \in Entry
  PROVE  /\ Known(r)[e] = bumped[r][e] - Unshared(r, e) /\ Known(r)[e] \in Int
         /\ Unshared(r, e) \in Nat /\ bumped[r][e] \in Nat /\ pstats[r][e].n \in Nat
BY DEF TypeOK, Known, Unshared, Stats, Row

\* What was within a bound is within a greater one.
LEMMA BelowMore ==
  ASSUME NEW s \in StoreSet, NEW r \in Replica, NEW b, NEW c, Below(s, r, b),
         \A e \in Entry : b[e] \in Int /\ c[e] \in Int /\ b[e] <= c[e]
  PROVE  Below(s, r, c)
<1> SUFFICES ASSUME NEW e \in Entry PROVE s.stats[r][e].n <= c[e]
  BY DEF Below
<1>1. s.stats[r][e].n \in Nat /\ s.stats[r][e].n <= b[e]
  BY CountType DEF Below
<1> QED
  BY <1>1

\* Such a step preserves the invariant.
LEMMA CountsPreserves ==
  ASSUME TypeOK, TypeOK', CInv, faults' = 0 => faults = 0, NEW p \in Replica,
         faults' = 0 => CountsStep(p)
  PROVE  CInv'
<1> SUFFICES ASSUME CountsStep(p), faults = 0, faults' = 0,
                    NEW q \in Replica, q # p, NEW r \in Replica
             PROVE  /\ Below(Content(mirror'[q]), r, Known(r)')
                    /\ Below(snap'[q], r, Known(r)')
                    /\ pc'[q] \in {"push", "update"} =>
                         Below(Content(cand'[q]), r, IF q = r THEN bumped'[r] ELSE Known(r)')
                    /\ pc'[q] \in {"gcPush", "gcUpdate"} =>
                         Below(Content(cand'[q]), r, Known(r)')
  BY DEF CInv, CountsStep, CountsInv
<1>1. /\ mirror'[q] = mirror[q] /\ snap'[q] = snap[q] /\ cand'[q] = cand[q] /\ pc'[q] = pc[q]
      /\ Content(mirror[q]) \in StoreSet /\ snap[q] \in StoreSet /\ Content(cand[q]) \in StoreSet
  BY Stores DEF CountsStep
<1>2. \A e \in Entry : /\ Known(r)[e] \in Int /\ Known(r)'[e] \in Int
                       /\ Known(r)[e] <= Known(r)'[e]
  <2>1. TypeOK' => \A e \in Entry : Known(r)'[e] \in Int
    BY DEF TypeOK, Known, Unshared, Stats, Row
  <2> QED
    BY <2>1, KnownType DEF CountsStep
<1>3. \A e \in Entry : /\ bumped[r][e] \in Int /\ bumped'[r][e] \in Int
                       /\ bumped[r][e] <= bumped'[r][e]
  BY DEF CountsStep, TypeOK
<1>4. CountsInv(q)
  BY DEF CInv
<1>5. /\ Below(Content(mirror[q]), r, Known(r)')
      /\ Below(snap[q], r, Known(r)')
      /\ pc[q] \in {"gcPush", "gcUpdate"} => Below(Content(cand[q]), r, Known(r)')
  BY <1>1, <1>2, <1>4, BelowMore DEF CountsInv
<1>6. pc[q] \in {"push", "update"} /\ q # r => Below(Content(cand[q]), r, Known(r)')
  BY <1>1, <1>2, <1>4, BelowMore DEF CountsInv
<1>7. pc[q] \in {"push", "update"} /\ q = r => Below(Content(cand[q]), r, bumped'[r])
  BY <1>1, <1>3, <1>4, BelowMore DEF CountsInv
<1> QED
  BY <1>1, <1>5, <1>6, <1>7

\* What is known stays where nothing is counted, and nothing lands or is over.
LEMMA KnownStays ==
  ASSUME TypeOK, UNCHANGED <<pstats, bumped>>, NEW p \in Replica,
         \A q \in Replica \ {p} : pc'[q] = pc[q], Landed(p)' <=> Landed(p)
  PROVE  \A r \in Replica : /\ Known(r)' = Known(r)
                            /\ \A e \in Entry : Known(r)[e] <= Known(r)'[e]
<1> SUFFICES ASSUME NEW r \in Replica
             PROVE  Known(r)' = Known(r)
  BY KnownType
<1>1. Landed(r)' <=> Landed(r)
  BY DEF Landed
<1> QED
  BY <1>1 DEF Known, Unshared

\* Where nothing failed, every count is known of, and nothing is below nought.
LEMMA EmptyIsBelow ==
  ASSUME TypeOK, CInv, faults = 0, NEW r \in Replica
  PROVE  Below(EmptySet, r, Known(r)) /\ Content(NoCommit) = EmptySet
<1>1. \A e \in Entry : Known(r)[e] >= 0
  <2> SUFFICES ASSUME NEW e \in Entry PROVE Known(r)[e] >= 0
    OBVIOUS
  <2>1. Content(mirror[r]).stats[r][e].n \in Nat
    BY Stores, CountType
  <2>2. Content(mirror[r]).stats[r][e].n <= Known(r)[e]
    BY DEF CInv, CountsInv, Below
  <2> QED
    BY <2>1, <2>2, KnownType
<1> QED
  BY <1>1 DEF Below, EmptySet, NoStats, ZeroRow, Content, NoCommit

\* A fetch takes the counts of the remote.
LEMMA FetchCounts ==
  ASSUME TypeOK, CInv, faults = 0, NEW p \in Replica, FetchInto(p)
  PROVE  /\ \A r \in Replica : Below(Content(mirror'[p]), r, Known(r))
         /\ \A q \in Replica \ {p} : mirror'[q] = mirror[q]
<1>1. mirror'[p] = mirror[p] \/ mirror'[p] = remote
  BY DEF FetchInto, TypeOK
<1> QED
  BY <1>1 DEF FetchInto, TypeOK, CInv, CountsInv

\* Every step there is, is such a step of a clone, or fails.
LEMMA EveryStepCounts ==
  ASSUME TypeOK, TypeOK', CInv, Next
  PROVE  /\ faults' = 0 => faults = 0
         /\ \E p \in Replica : faults' = 0 => CountsStep(p)
<1>1. ASSUME NEW p \in Replica,
             \/ DmInitFails(p) \/ PushFails(p) \/ GcFails(p) \/ Crash(p)
             \/ \E x \in Record : WriteDies(p, x)
      PROVE  faults' # 0
  BY <1>1 DEF DmInitFails, PushFails, GcFails, Crash, WriteDies, Fault, TypeOK
<1>2. ASSUME NEW p \in Replica,
             \/ AddRemote(p) \/ ClearRecord(p) \/ ClearBlob(p)
             \/ \E x \in Record : Write(p, x)
      PROVE  faults' = faults /\ (faults = 0 => CountsStep(p))
  <2>1. UNCHANGED <<remote, mirror, snap, cand, pc, pstats, bumped, faults>>
    BY <1>2 DEF AddRemote, ClearRecord, ClearBlob, Write, session, ghosts
  <2>2. \A r \in Replica : /\ Known(r)' = Known(r)
                           /\ \A e \in Entry : Known(r)[e] <= Known(r)'[e]
    BY <2>1, KnownStays DEF Landed
  <2> QED
    BY <2>1, <2>2, KnownType DEF CountsStep, CInv, CountsInv
<1>3. ASSUME NEW p \in Replica,
             DmInit(p) \/ GitFetch(p) \/ SyncFetch(p) \/ Refetch(p) \/ GcFetch(p)
      PROVE  faults' = faults /\ (faults = 0 => CountsStep(p))
  <2>1. /\ UNCHANGED <<remote, snap, cand, pstats, bumped, faults>>
        /\ UNCHANGED mirror \/ FetchInto(p)
    BY <1>3 DEF DmInit, GitFetch, SyncFetch, Refetch, GcFetch, session, ghosts
  <2>2. /\ \/ pc' = pc
           \/ /\ pc[p] \in {"fetch", "refetch", "gcFetch", "gcRefetch"}
              /\ pc'[p] \in {"mint", "build", "gcSweep"}
        /\ \A q \in Replica \ {p} : pc'[q] = pc[q]
    BY <1>3 DEF DmInit, GitFetch, SyncFetch, Refetch, GcFetch, Goto, session, TypeOK
  <2>3. \A r \in Replica : /\ Known(r)' = Known(r)
                           /\ \A e \in Entry : Known(r)[e] <= Known(r)'[e]
    BY <2>1, <2>2, KnownStays DEF Landed
  <2>4. ASSUME faults = 0
        PROVE  /\ \A r \in Replica : Below(Content(mirror'[p]), r, Known(r))
               /\ \A q \in Replica \ {p} : mirror'[q] = mirror[q]
    BY <2>1, <2>4, FetchCounts DEF CInv, CountsInv
  <2> QED
    BY <2>1, <2>2, <2>3, <2>4, KnownType DEF CountsStep, CInv, CountsInv
<1>4. ASSUME NEW p \in Replica, CreateStore(p)
      PROVE  faults' = faults /\ (faults = 0 => CountsStep(p))
  <2>1. UNCHANGED <<remote, snap, cand, pc, pstats, bumped, faults>>
    BY <1>4 DEF CreateStore, session, ghosts
  <2>2. PICK at \in CommitTime :
          mirror' = [mirror EXCEPT ![p] = StoreCommit(EmptySet, NoCommit, at)]
    BY <1>4 DEF CreateStore
  <2>3. \A q \in Replica \ {p} : mirror'[q] = mirror[q]
    BY <2>2 DEF TypeOK
  <2>4. mirror'[p] = StoreCommit(EmptySet, NoCommit, at)
    BY <2>2 DEF TypeOK
  <2>5. \A r \in Replica : Content(mirror'[p]).stats[r] = EmptySet.stats[r]
    BY <2>4, EmptyType, CommitCounts DEF Content
  <2>6. \A r \in Replica : /\ Known(r)' = Known(r)
                           /\ \A e \in Entry : Known(r)[e] <= Known(r)'[e]
    BY <2>1, KnownStays DEF Landed
  <2>7. faults = 0 => \A r \in Replica : Below(Content(mirror'[p]), r, Known(r))
    BY <2>5, EmptyIsBelow DEF Below
  <2> QED
    BY <2>1, <2>3, <2>6, <2>7, KnownType DEF CountsStep, CInv, CountsInv
<1>5. ASSUME NEW p \in Replica, NEW e \in Entry, Bump(p, e)
      PROVE  faults' = faults /\ (faults = 0 => CountsStep(p))
  <2>1. UNCHANGED <<remote, mirror, snap, cand, pc, faults>> /\ pc[p] = "idle"
    BY <1>5 DEF Bump, session
  <2> DEFINE delta == [NoStats EXCEPT ![e] = [n |-> 1, t |-> bumped[p][e] + 1]]
  <2>2. /\ bumped' = [bumped EXCEPT ![p][e] = @ + 1]
        /\ pstats' = [pstats EXCEPT ![p] = AddStats(pstats[p], delta)]
    BY <1>5 DEF Bump
  <2>3. \A f \in Entry : delta[f].n = IF f = e THEN 1 ELSE 0
    BY DEF NoStats, ZeroRow
  <2> HIDE DEF delta
  <2>4. \A r \in Replica, f \in Entry :
          bumped'[r][f] = bumped[r][f] + (IF r = p /\ f = e THEN 1 ELSE 0)
    BY <2>2 DEF TypeOK
  <2>5. \A r \in Replica, f \in Entry :
          pstats'[r][f].n = pstats[r][f].n + (IF r = p /\ f = e THEN 1 ELSE 0)
    <3> SUFFICES ASSUME NEW r \in Replica, NEW f \in Entry
                 PROVE pstats'[r][f].n = pstats[r][f].n + (IF r = p /\ f = e THEN 1 ELSE 0)
      OBVIOUS
    <3>1. pstats'[r] = IF r = p THEN AddStats(pstats[p], delta) ELSE pstats[r]
      BY <2>2 DEF TypeOK
    <3>2. AddStats(pstats[p], delta)[f].n = pstats[p][f].n + delta[f].n
      BY DEF AddStats
    <3> QED
      BY <2>3, <3>1, <3>2, KnownType
  <2>6. \A r \in Replica, f \in Entry : Known(r)'[f] = Known(r)[f]
    <3> SUFFICES ASSUME NEW r \in Replica, NEW f \in Entry
                 PROVE  Known(r)'[f] = Known(r)[f]
      OBVIOUS
    <3>1. r = p => ~Landed(r)
      BY <2>1 DEF Landed
    <3>2. Known(r)'[f] = bumped'[r][f] - (IF Landed(r) THEN 0 ELSE pstats'[r][f].n)
      BY <2>1 DEF Known, Unshared, Landed
    <3>3. Known(r)[f] = bumped[r][f] - (IF Landed(r) THEN 0 ELSE pstats[r][f].n)
      BY DEF Known, Unshared
    <3> QED
      BY <2>4, <2>5, <3>1, <3>2, <3>3, KnownType
  <2>7. \A r \in Replica, s \in StoreSet : Below(s, r, Known(r)) => Below(s, r, Known(r)')
    BY <2>6 DEF Below
  <2>8. faults = 0 => CountsInv(p)'
    BY <2>1, <2>7, Stores DEF CInv, CountsInv
  <2>9. faults = 0 => \A r \in Replica : Below(Content(remote'), r, Known(r)')
    BY <2>1, <2>7, Stores DEF CInv
  <2>10. \A r \in Replica, f \in Entry :
          Known(r)[f] <= Known(r)'[f] /\ bumped[r][f] <= bumped'[r][f]
    BY <2>4, <2>6, KnownType
  <2> QED
    BY <2>1, <2>8, <2>9, <2>10 DEF CountsStep
<1>6. ASSUME NEW p \in Replica,
             \/ SyncOpen(p) \/ SyncOpenSkipping(p) \/ GcOpen(p) \/ GcOpenSkipping(p)
             \/ Mint(p) \/ PushRejected(p) \/ GcRejected(p)
      PROVE  faults' = faults /\ (faults = 0 => CountsStep(p))
  <2>1. /\ UNCHANGED <<remote, mirror, cand, pstats, bumped, faults>>
        /\ \/ snap' = snap
           \/ snap' = [snap EXCEPT ![p] = Content(mirror[p])]
    BY <1>6 DEF SyncOpen, SyncOpenSkipping, Open, GcOpen, GcOpenSkipping, OpenGc, Mint,
                PushRejected, GcRejected, clone, ghosts
  <2>2. /\ \A q \in Replica \ {p} : snap'[q] = snap[q]
        /\ snap'[p] = snap[p] \/ snap'[p] = Content(mirror[p])
    BY <2>1 DEF TypeOK
  <2>3. /\ ~Landed(p)
        /\ pc'[p] \in {"fetch", "mint", "gcFetch", "gcSweep", "build", "refetch", "gcRefetch"}
        /\ \A q \in Replica \ {p} : pc'[q] = pc[q]
    BY <1>6 DEF SyncOpen, SyncOpenSkipping, GcOpen, GcOpenSkipping, Mint, PushRejected,
                GcRejected, Goto, TypeOK, Landed
  <2>4. \A r \in Replica : /\ Known(r)' = Known(r)
                           /\ \A e \in Entry : Known(r)[e] <= Known(r)'[e]
    BY <2>1, <2>3, KnownStays DEF Landed
  <2> QED
    BY <2>1, <2>2, <2>3, <2>4, KnownType DEF CountsStep, CInv, CountsInv
<1>7. ASSUME NEW p \in Replica, Build(p)
      PROVE  faults' = faults /\ (faults = 0 => CountsStep(p))
  <2>1. UNCHANGED <<remote, mirror, snap, pstats, bumped, faults>> /\ pc[p] = "build"
    BY <1>7 DEF Build, ghosts
  <2>2. PICK at \in CommitTime :
           LET commit == StoreCommit(Merged(p), mirror[p], at)
           IN  /\ cand' = [cand EXCEPT ![p] = commit]
               /\ pc' = [pc EXCEPT ![p] = IF mirror[p] # NoCommit /\ commit = mirror[p]
                                          THEN "clear"
                                          ELSE IF HasRemote(p) THEN "push" ELSE "update"]
    BY <1>7 DEF Build
  <2> DEFINE commit == StoreCommit(Merged(p), mirror[p], at)
  <2>3. /\ cand'[p] = commit /\ pc'[p] \in {"push", "update", "clear"}
        /\ \A q \in Replica \ {p} : cand'[q] = cand[q] /\ pc'[q] = pc[q]
    BY <2>2 DEF TypeOK
  <2>4. \A r \in Replica, e \in Entry :
          /\ Known(r)[e] <= Known(r)'[e]
          /\ bumped'[r][e] = bumped[r][e] /\ bumped[r][e] <= bumped'[r][e]
    <3> SUFFICES ASSUME NEW r \in Replica, NEW e \in Entry
                 PROVE  Known(r)[e] <= Known(r)'[e]
      BY <2>1, KnownType
    <3>1. Known(r)'[e] = bumped[r][e] - (IF Landed(r)' THEN 0 ELSE pstats[r][e].n)
      BY <2>1 DEF Known, Unshared
    <3>2. Known(r)[e] = bumped[r][e] - (IF Landed(r) THEN 0 ELSE pstats[r][e].n)
      BY DEF Known, Unshared
    <3>3. Landed(r) => Landed(r)'
      BY <2>1, <2>3 DEF Landed
    <3> QED
      BY <3>1, <3>2, <3>3, KnownType
  <2>5. \A r \in Replica, e \in Entry : Known(r)[e] \in Int /\ Known(r)'[e] \in Int
    <3>1. TypeOK' => \A r \in Replica, e \in Entry : Known(r)'[e] \in Int
      BY DEF TypeOK, Known, Unshared, Stats, Row
    <3> QED
      BY <3>1, KnownType
  <2>6. \A r \in Replica, s \in StoreSet : Below(s, r, Known(r)) => Below(s, r, Known(r)')
    BY <2>4, <2>5, BelowMore
  <2>7. ASSUME faults = 0, NEW r \in Replica
        PROVE  Below(Content(commit), r, IF p = r THEN bumped'[r] ELSE Known(r)')
    <3> DEFINE b == IF p = r THEN bumped'[r] ELSE Known(r)'
    <3> SUFFICES ASSUME NEW e \in Entry
                 PROVE  Content(commit).stats[r][e].n <= b[e]
      BY DEF Below
    <3>1. /\ Content(mirror[p]).stats[r][e].n <= Known(r)[e]
          /\ snap[p].stats[r][e].n <= Known(r)[e]
      BY <2>7 DEF CInv, CountsInv, Below
    <3>2. /\ Content(mirror[p]).stats[r][e].n \in Nat /\ snap[p].stats[r][e].n \in Nat
      BY Stores, CountType
    <3>3. Merged(p) \in StoreSet /\ mirror[p] \in Commit
      BY MergedHoldsOwn DEF TypeOK
    <3>4. \/ Content(commit).stats[r] = Content(mirror[p]).stats[r]
          \/ Content(commit).stats[r] = Merged(p).stats[r]
      BY <3>3, CommitCounts
    <3> HIDE DEF commit
    <3>5. p = r => ~Landed(r)
      BY <2>1 DEF Landed
    <3>6. Known(r)[e] = bumped[r][e] - (IF Landed(r) THEN 0 ELSE pstats[r][e].n)
      BY DEF Known, Unshared
    <3>7. \/ Content(commit).stats[r][e].n = Content(mirror[p]).stats[r][e].n
          \/ Content(commit).stats[r][e].n =
               snap[p].stats[r][e].n + (IF r = p THEN pstats[p][e].n ELSE 0)
          \/ Content(commit).stats[r][e].n =
               Content(mirror[p]).stats[r][e].n + (IF r = p THEN pstats[p][e].n ELSE 0)
      BY <3>4, MergedCounts
    <3>8. CASE p = r
      <4>1. b[e] = bumped[r][e]
        BY <2>1, <3>8
      <4> QED
        BY <3>1, <3>2, <3>5, <3>6, <3>7, <3>8, <4>1, KnownType
    <3>9. CASE p # r
      <4>1. b[e] = Known(r)'[e]
        BY <3>9
      <4> QED
        BY <2>4, <2>5, <3>1, <3>2, <3>7, <3>9, <4>1
    <3> QED
      BY <3>8, <3>9
  <2>8. faults = 0 => CountsInv(p)'
    BY <2>1, <2>3, <2>6, <2>7, Stores DEF CInv, CountsInv
  <2>9. faults = 0 => \A r \in Replica : Below(Content(remote'), r, Known(r)')
    BY <2>1, <2>6, Stores DEF CInv
  <2> QED
    BY <2>1, <2>3, <2>4, <2>8, <2>9 DEF CountsStep
<1>8. ASSUME NEW p \in Replica, PushLands(p)
      PROVE  faults' = faults /\ (faults = 0 => CountsStep(p))
  <2>1. /\ UNCHANGED <<mirror, snap, cand, pstats, bumped, faults>>
        /\ remote' = cand[p]
    BY <1>8 DEF PushLands, clone, ghosts
  <2>2. /\ pc[p] = "push" /\ pc'[p] = "update"
        /\ \A q \in Replica \ {p} : pc'[q] = pc[q]
    BY <1>8 DEF PushLands, Goto, TypeOK
  <2>3. \A r \in Replica \ {p}, e \in Entry : Known(r)'[e] = Known(r)[e]
    BY <2>1, <2>2 DEF Known, Unshared, Landed
  <2>4. \A e \in Entry : Known(p)'[e] = bumped[p][e] /\ Known(p)[e] <= bumped[p][e]
    <3>1. \A e \in Entry : Known(p)'[e] = bumped[p][e] - 0
      BY <2>1, <2>2 DEF Known, Unshared, Landed
    <3> QED
      BY <3>1, KnownType
  <2>5. \A r \in Replica, e \in Entry :
          /\ Known(r)[e] <= Known(r)'[e] /\ bumped[r][e] <= bumped'[r][e]
          /\ Known(r)[e] \in Int /\ Known(r)'[e] \in Int
    BY <2>1, <2>3, <2>4, KnownType
  <2>6. \A r \in Replica, s \in StoreSet : Below(s, r, Known(r)) => Below(s, r, Known(r)')
    BY <2>5, BelowMore
  <2>7. ASSUME faults = 0, NEW r \in Replica
        PROVE  /\ Below(Content(cand[p]), r, IF p = r THEN bumped'[r] ELSE Known(r)')
               /\ Below(Content(cand[p]), r, Known(r)')
    <3>1. Below(Content(cand[p]), r, IF p = r THEN bumped[r] ELSE Known(r))
      BY <2>2, <2>7 DEF CInv, CountsInv
    <3>2. CASE p = r
      BY <2>1, <2>4, <3>1, <3>2 DEF Below
    <3>3. CASE p # r
      BY <2>6, <3>1, <3>3, Stores
    <3> QED
      BY <3>2, <3>3
  <2>8. faults = 0 => CountsInv(p)'
    BY <2>1, <2>2, <2>6, <2>7, Stores DEF CInv, CountsInv
  <2>9. faults = 0 => \A r \in Replica : Below(Content(remote'), r, Known(r)')
    BY <2>1, <2>7
  <2> QED
    BY <2>1, <2>2, <2>5, <2>8, <2>9 DEF CountsStep
<1>9. ASSUME NEW p \in Replica, PushGivesUp(p) \/ GcGivesUp(p) \/ GcNothing(p)
      PROVE  faults' = faults /\ (faults = 0 => CountsStep(p))
  <2>1. UNCHANGED <<remote, mirror, pstats, bumped, faults>> /\ Exit(p) /\ ~Landed(p)
    BY <1>9 DEF PushGivesUp, GcGivesUp, GcNothing, clone, ghosts, Landed
  <2>2. /\ pc'[p] = "idle" /\ snap'[p] = EmptySet
        /\ \A q \in Replica \ {p} : snap'[q] = snap[q] /\ cand'[q] = cand[q] /\ pc'[q] = pc[q]
    BY <2>1 DEF Exit, TypeOK
  <2>3. \A r \in Replica : /\ Known(r)' = Known(r)
                           /\ \A e \in Entry : Known(r)[e] <= Known(r)'[e]
    BY <2>1, <2>2, KnownStays DEF Landed
  <2> QED
    BY <2>1, <2>2, <2>3, EmptyIsBelow, KnownType DEF CountsStep, CInv, CountsInv
<1>10. ASSUME NEW p \in Replica, UpdateRef(p)
      PROVE  faults' = faults /\ (faults = 0 => CountsStep(p))
  <2>1. UNCHANGED <<remote, snap, cand, pstats, bumped, faults>>
    BY <1>10 DEF UpdateRef, ghosts
  <2>2. /\ pc[p] = "update" /\ pc'[p] = "clear" /\ mirror'[p] = cand[p]
        /\ \A q \in Replica \ {p} : pc'[q] = pc[q] /\ mirror'[q] = mirror[q]
    BY <1>10 DEF UpdateRef, Goto, TypeOK
  <2>3. \A r \in Replica : /\ Known(r)' = Known(r)
                           /\ \A e \in Entry : Known(r)[e] <= Known(r)'[e]
    BY <2>1, <2>2, KnownStays DEF Landed
  <2>4. \A e \in Entry : Known(p)[e] = bumped[p][e]
    <3>1. \A e \in Entry : Known(p)[e] = bumped[p][e] - 0
      BY <2>2 DEF Known, Unshared, Landed
    <3> QED
      BY <3>1, KnownType
  <2>5. faults = 0 => \A r \in Replica : Below(Content(cand[p]), r, Known(r))
    BY <2>2, <2>4 DEF CInv, CountsInv, Below
  <2> QED
    BY <2>1, <2>2, <2>3, <2>5, KnownType DEF CountsStep, CInv, CountsInv
<1>11. ASSUME NEW p \in Replica, ClearStats(p)
      PROVE  faults' = faults /\ (faults = 0 => CountsStep(p))
  <2>1. /\ UNCHANGED <<remote, mirror, bumped, faults>> /\ Exit(p) /\ pc[p] = "clear"
        /\ pstats' = [pstats EXCEPT ![p] = NoStats]
    BY <1>11 DEF ClearStats, ghosts
  <2>2. /\ pc'[p] = "idle" /\ snap'[p] = EmptySet
        /\ \A q \in Replica \ {p} : snap'[q] = snap[q] /\ cand'[q] = cand[q] /\ pc'[q] = pc[q]
    BY <2>1 DEF Exit, TypeOK
  <2>3. pstats'[p] = NoStats /\ \A q \in Replica \ {p} : pstats'[q] = pstats[q]
    BY <2>1 DEF TypeOK
  <2>4. \A r \in Replica, e \in Entry : Unshared(r, e)' = Unshared(r, e)
    BY <2>1, <2>2, <2>3 DEF Unshared, Landed, NoStats, ZeroRow
  <2>5. \A r \in Replica : /\ Known(r)' = Known(r)
                           /\ \A e \in Entry : Known(r)[e] <= Known(r)'[e]
    <3>1. \A r \in Replica : Known(r)' = Known(r)
      BY <2>1, <2>4 DEF Known
    <3> QED
      BY <3>1, KnownType
  <2> QED
    BY <2>1, <2>2, <2>5, EmptyIsBelow, KnownType DEF CountsStep, CInv, CountsInv
<1>12. ASSUME NEW p \in Replica, GcSweep(p)
      PROVE  faults' = faults /\ (faults = 0 => CountsStep(p))
  <2>1. UNCHANGED <<remote, mirror, snap, pstats, bumped, faults>> /\ pc[p] = "gcSweep"
    BY <1>12 DEF GcSweep, clone, ghosts
  <2>2. PICK at \in CommitTime :
          cand' = [cand EXCEPT ![p] = Compact(Swept(Content(mirror[p]), Aged), at)]
    BY <1>12 DEF GcSweep
  <2>3. /\ cand'[p] = Compact(Swept(Content(mirror[p]), Aged), at)
        /\ pc'[p] \in {"gcPush", "gcUpdate"}
        /\ \A q \in Replica \ {p} : pc'[q] = pc[q] /\ cand'[q] = cand[q]
    BY <1>12, <2>2 DEF GcSweep, TypeOK
  <2>4. \A r \in Replica : /\ Known(r)' = Known(r)
                           /\ \A e \in Entry : Known(r)[e] <= Known(r)'[e]
    BY <2>1, <2>3, KnownStays DEF Landed
  <2>5. Content(cand'[p]) = Swept(Content(mirror[p]), Aged)
    BY <2>3 DEF Compact, Content, NoCommit
  <2>6. ASSUME faults = 0, NEW r \in Replica
        PROVE  Below(Content(cand'[p]), r, Known(r))
    <3> SUFFICES ASSUME NEW e \in Entry
                 PROVE  Content(cand'[p]).stats[r][e].n <= Known(r)[e]
      BY DEF Below
    <3>1. \/ Content(cand'[p]).stats[r][e].n = Content(mirror[p]).stats[r][e].n
          \/ Content(cand'[p]).stats[r][e].n = EmptySet.stats[r][e].n
      BY <2>5 DEF Swept, EmptySet, NoStats
    <3> QED
      BY <2>6, <3>1, EmptyIsBelow DEF CInv, CountsInv, Below
  <2> QED
    BY <2>1, <2>3, <2>4, <2>6, KnownType DEF CountsStep, CInv, CountsInv
<1>13. ASSUME NEW p \in Replica, GcLands(p)
      PROVE  faults' = faults /\ (faults = 0 => CountsStep(p))
  <2>1. /\ UNCHANGED <<mirror, snap, cand, pstats, bumped, faults>>
        /\ remote' = cand[p]
    BY <1>13 DEF GcLands, clone
  <2>2. /\ pc[p] = "gcPush" /\ pc'[p] = "gcUpdate"
        /\ \A q \in Replica \ {p} : pc'[q] = pc[q]
    BY <1>13 DEF GcLands, Goto, TypeOK
  <2>3. \A r \in Replica : /\ Known(r)' = Known(r)
                           /\ \A e \in Entry : Known(r)[e] <= Known(r)'[e]
    BY <2>1, <2>2, KnownStays DEF Landed
  <2> QED
    BY <2>1, <2>2, <2>3, KnownType DEF CountsStep, CInv, CountsInv
<1>14. ASSUME NEW p \in Replica, GcUpdate(p)
      PROVE  faults' = faults /\ (faults = 0 => CountsStep(p))
  <2>1. UNCHANGED <<remote, pstats, bumped, faults>> /\ Exit(p) /\ pc[p] = "gcUpdate"
    BY <1>14 DEF GcUpdate
  <2>2. /\ pc'[p] = "idle" /\ snap'[p] = EmptySet /\ mirror'[p] = cand[p]
        /\ \A q \in Replica \ {p} : /\ snap'[q] = snap[q] /\ cand'[q] = cand[q]
                                    /\ pc'[q] = pc[q] /\ mirror'[q] = mirror[q]
    BY <1>14, <2>1 DEF GcUpdate, Exit, TypeOK
  <2>3. \A r \in Replica : /\ Known(r)' = Known(r)
                           /\ \A e \in Entry : Known(r)[e] <= Known(r)'[e]
    BY <2>1, <2>2, KnownStays DEF Landed
  <2> QED
    BY <2>1, <2>2, <2>3, EmptyIsBelow, KnownType DEF CountsStep, CInv, CountsInv
<1> QED
  BY <1>1, <1>2, <1>3, <1>4, <1>5, <1>6, <1>7, <1>8, <1>9, <1>10, <1>11, <1>12, <1>13, <1>14
  DEF Next, SyncStep, GcStep

\* No bump is counted twice, by however many retries, merges and compactions
\* its delta goes through, while no invocation is cut short.
THEOREM CountsAreExact == Spec => []StatsExact
<1>1. TypeOK /\ Init => CInv
  <2> SUFFICES ASSUME TypeOK, Init PROVE CInv
    OBVIOUS
  <2>1. \A r \in Replica, e \in Entry : Known(r)[e] = 0
    BY DEF Init, Known, Unshared, NoStats, ZeroRow, Landed
  <2>2. \A r \in Replica, e \in Entry : EmptySet.stats[r][e].n = 0
    BY DEF EmptySet, NoStats, ZeroRow
  <2> QED
    BY <2>1, <2>2 DEF Init, CInv, CountsInv, Below, Content
<1>2. TypeOK /\ TypeOK' /\ CInv /\ [Next]_vars => CInv'
  <2>1. ASSUME TypeOK, TypeOK', CInv, Next PROVE CInv'
    BY <2>1, EveryStepCounts, CountsPreserves
  <2>2. ASSUME CInv, UNCHANGED vars PROVE CInv'
    BY <2>2 DEF CInv, CountsInv, Known, Unshared, Landed, vars, clone, session, ghosts
  <2> QED
    BY <2>1, <2>2
<1>3. TypeOK /\ CInv => StatsExact
  <2> SUFFICES ASSUME TypeOK, CInv, faults = 0, NEW r \in Replica, NEW e \in Entry
               PROVE  Register(r, e) + Unshared(r, e) <= bumped[r][e]
    BY DEF StatsExact, StatsCountOnce
  <2>1. Content(remote).stats[r][e].n <= Known(r)[e]
    BY DEF CInv, Below
  <2>2. Content(remote).stats[r][e].n \in Nat
    BY Stores, CountType
  <2> QED
    BY <2>1, <2>2, KnownType DEF Register
<1> QED
  BY TypeCorrect, <1>1, <1>2, <1>3, PTL DEF Spec

-----------------------------------------------------------------------------
(* Contents.                                                               *)
(*                                                                         *)
(* That the remote has what was staged is not inductive: the stores that   *)
(* may be pushed must have it too, and a clone must keep it pending as     *)
(* long as a record that names it is (BlobsInv).  A store holds nothing    *)
(* but what was acknowledged, or staging a record could catch up with it.  *)

\* The store has what was staged (T) for the records it has (of those of A).
Beside(s, A, T) == s.recs \subseteq A /\ \A x \in s.recs \cap T : x.blob \in s.blobs

BlobsInv(q) ==
  /\ Beside(Content(mirror[q]), acked, staged)
  /\ Beside(snap[q], acked, staged)
  /\ Beside(Content(cand[q]), acked, staged)
  /\ pending[q] \subseteq acked
  /\ \A x \in pending[q] \cap staged : x.blob \in pblobs[q]
  /\ pc[q] \in {"build", "push", "refetch"} => own[q] = pending[q]
  /\ pc[q] \in {"update", "clear"} => pending[q] \subseteq own[q]

StagedInv == staged \subseteq acked /\ \A x \in staged : x.blob # None

BInv ==
  /\ StagedInv
  /\ Beside(Content(remote), acked, staged)
  /\ \A q \in Replica : BlobsInv(q)

\* What a step of clone p does.
Untouched(q) ==
  /\ mirror'[q] = mirror[q] /\ snap'[q] = snap[q] /\ cand'[q] = cand[q]
  /\ pending'[q] = pending[q] /\ pblobs'[q] = pblobs[q]
  /\ pc'[q] = pc[q] /\ own'[q] = own[q]

BlobsStep(p) ==
  /\ acked \subseteq acked' /\ staged' \cap acked \subseteq staged /\ StagedInv'
  /\ \A q \in Replica \ {p} : Untouched(q)
  /\ Beside(Content(remote'), acked', staged')
  /\ BlobsInv(p)'

\* A record that is staged later is new to every store.
LEMMA BesideLater ==
  ASSUME NEW s \in StoreSet, NEW A, NEW B, NEW T, NEW U,
         Beside(s, A, T), A \subseteq B, U \cap A \subseteq T
  PROVE  Beside(s, B, U)
BY DEF Beside

\* Such a step preserves the invariant.
LEMMA BlobsPreserves ==
  ASSUME TypeOK, TypeOK', BInv, NEW p \in Replica, BlobsStep(p)
  PROVE  BInv'
<1> SUFFICES ASSUME NEW q \in Replica, q # p
             PROVE  BlobsInv(q)'
  BY DEF BInv, BlobsStep
<1>1. Untouched(q) /\ BlobsInv(q) /\ acked \subseteq acked' /\ staged' \cap acked \subseteq staged
  BY DEF BlobsStep, BInv
<1>2. /\ Content(mirror[q]) \in StoreSet /\ snap[q] \in StoreSet /\ Content(cand[q]) \in StoreSet
  BY Stores
<1>3. /\ Beside(Content(mirror'[q]), acked', staged')
      /\ Beside(snap'[q], acked', staged')
      /\ Beside(Content(cand'[q]), acked', staged')
  BY <1>1, <1>2, BesideLater DEF BlobsInv, Untouched
<1>4. /\ pending'[q] \subseteq acked'
      /\ \A x \in pending'[q] \cap staged' : x.blob \in pblobs'[q]
  BY <1>1 DEF BlobsInv, Untouched
<1> QED
  BY <1>1, <1>3, <1>4 DEF BlobsInv, Untouched

\* The empty store has all that it should.
LEMMA EmptyIsBeside ==
  ASSUME NEW A, NEW T
  PROVE  Beside(EmptySet, A, T) /\ Content(NoCommit) = EmptySet
BY DEF Beside, EmptySet, Content, NoCommit

\* Merging loses neither side's contents.
LEMMA MergeBeside ==
  ASSUME NEW a \in StoreSet, NEW b \in StoreSet, NEW A, NEW T,
         Beside(a, A, T), Beside(b, A, T)
  PROVE  Beside(Merge(a, b), A, T)
<1>1. CASE a.epoch # b.epoch
  BY <1>1 DEF Merge
<1>2. CASE a.epoch = b.epoch
  <2>1. /\ Merge(a, b).recs \subseteq a.recs \cup b.recs
        /\ Merge(a, b).blobs = a.blobs \cup b.blobs
    BY <1>2 DEF Merge, MergeRecords
  <2> QED
    BY <2>1 DEF Beside
<1> QED
  BY <1>1, <1>2

\* Nor does committing on what is there.
LEMMA CommitBeside ==
  ASSUME NEW s \in StoreSet, NEW tip \in Commit, NEW at \in CommitTime, NEW A, NEW T,
         Beside(s, A, T), Beside(Content(tip), A, T)
  PROVE  Beside(Content(StoreCommit(s, tip, at)), A, T)
<1> DEFINE new == Overlay(s, Content(tip))
           x == [tree |-> new, at |-> at]
           c == StoreCommit(s, tip, at)
<1>1. new.recs \subseteq Content(tip).recs \cup s.recs /\ new.blobs = Content(tip).blobs \cup s.blobs
  BY DEF Overlay, AddAbsent
<1>2. Beside(new, A, T)
  BY <1>1 DEF Beside
<1>3. Content(c) = new
  <2>1. CASE tip # NoCommit /\ new = Content(tip)
    BY <2>1 DEF StoreCommit
  <2>2. CASE ~(tip # NoCommit /\ new = Content(tip))
    <3>1. c = Append(tip, x) /\ tip \in Seq(Tree)
      BY <2>2 DEF StoreCommit, Commit, Tree
    <3> HIDE DEF x
    <3>2. c # NoCommit /\ c[Len(c)] = x
      BY <3>1 DEF NoCommit
    <3> QED
      BY <3>2 DEF Content, x
  <2> QED
    BY <2>1, <2>2
<1> QED
  BY <1>2, <1>3

\* What a sync would have the store hold has what was staged for its own.
LEMMA MergedBeside ==
  ASSUME TypeOK, BInv, NEW r \in Replica, pc[r] = "build"
  PROVE  Beside(Merged(r), acked, staged)
<1> DEFINE u == Merge(snap[r], Content(mirror[r]))
<1>1. u \in StoreSet /\ Beside(u, acked, staged)
  BY Stores, MergeType, MergeBeside DEF BInv, BlobsInv
<1>2. Merged(r) = WithOwn(u, own[r], pblobs[r], r, pstats[r])
  BY DEF Merged
<1> HIDE DEF u
<1>3. /\ Merged(r).recs \subseteq u.recs \cup own[r]
      /\ Merged(r).blobs = u.blobs \cup pblobs[r]
  BY <1>1, <1>2 DEF WithOwn, AddAbsent, StoreSet
<1>4. own[r] = pending[r] /\ pending[r] \subseteq acked
      /\ \A x \in pending[r] \cap staged : x.blob \in pblobs[r]
  BY DEF BInv, BlobsInv
<1> QED
  BY <1>1, <1>3, <1>4 DEF Beside

\* A sweep keeps the contents of the records it keeps.
LEMMA SweptBeside ==
  ASSUME NEW s \in StoreSet, NEW aged, NEW A, NEW T \in SUBSET Record,
         \A x \in T : x.blob # None, Beside(s, A, T)
  PROVE  Beside(Swept(s, aged), A, T)
<1> DEFINE K == KeptRecords(s.recs, aged)
<1>1. Swept(s, aged).recs = K /\ Swept(s, aged).blobs = KeptBlobs(s.blobs, K)
  BY DEF Swept
<1>2. K \subseteq s.recs
  BY DEF KeptRecords, KeptLinks, KeptVerdicts
<1> HIDE DEF K
<1>3. ASSUME NEW x \in K \cap T
      PROVE  x.blob \in KeptBlobs(s.blobs, K)
  <2>1. x.kind \in {"CR", "SU", "RA"} /\ x.blob \in s.blobs
    BY <1>2, <1>3, RecordAssumption DEF Beside
  <2> QED
    BY <1>3, <2>1 DEF KeptBlobs, Note
<1> QED
  BY <1>1, <1>2, <1>3 DEF Beside

\* What clone r holds once its invocation is over.
LEMMA ExitBlobs ==
  ASSUME TypeOK, BInv, NEW r \in Replica, Exit(r),
         UNCHANGED <<pending, pblobs, authored, staged>>,
         mirror'[r] = mirror[r] \/ mirror'[r] = cand[r],
         \A q \in Replica \ {r} : mirror'[q] = mirror[q],
         remote' = remote \/ remote' = cand[r]
  PROVE  BlobsStep(r)
<1>1. acked' = acked
  BY DEF acked
<1>2. /\ pc'[r] = "idle" /\ snap'[r] = EmptySet /\ cand'[r] = NoCommit
      /\ \A q \in Replica \ {r} : /\ pc'[q] = pc[q] /\ snap'[q] = snap[q]
                                  /\ cand'[q] = cand[q] /\ own'[q] = own[q]
  BY DEF Exit, TypeOK
<1> QED
  BY <1>1, <1>2, EmptyIsBeside DEF BlobsStep, BInv, BlobsInv, Untouched, StagedInv

\* Every step there is, is such a step of a clone.
LEMMA EveryStepBlobs ==
  ASSUME TypeOK, TypeOK', BInv, Next
  PROVE  \E p \in Replica : BlobsStep(p)
<1>1. ASSUME NEW p \in Replica,
             AddRemote(p) \/ DmInitFails(p) \/ \E e \in Entry : Bump(p, e)
      PROVE  BlobsStep(p)
  <2>1. UNCHANGED <<remote, mirror, snap, cand, pc, own, pending, pblobs, authored, staged>>
    BY <1>1 DEF AddRemote, DmInitFails, Bump, session, ghosts
  <2>2. acked' = acked
    BY <2>1 DEF acked
  <2> QED
    BY <2>1, <2>2 DEF BlobsStep, BInv, BlobsInv, Untouched, StagedInv
<1>2. ASSUME NEW p \in Replica, ClearRecord(p)
      PROVE  BlobsStep(p)
  <2>1. UNCHANGED <<remote, mirror, snap, cand, pc, own, pblobs, authored, staged>> /\ pc[p] = "clear"
    BY <1>2 DEF ClearRecord, session, ghosts
  <2>2. pending'[p] \subseteq pending[p] /\ \A q \in Replica \ {p} : pending'[q] = pending[q]
    BY <1>2 DEF ClearRecord, TypeOK
  <2>3. acked' = acked
    BY <2>1 DEF acked
  <2> QED
    BY <2>1, <2>2, <2>3 DEF BlobsStep, BInv, BlobsInv, Untouched, StagedInv
<1>3. ASSUME NEW p \in Replica, ClearBlob(p)
      PROVE  BlobsStep(p)
  <2>1. /\ UNCHANGED <<remote, mirror, snap, cand, pc, own, pending, authored, staged>>
        /\ pc[p] = "clear" /\ own[p] \cap pending[p] = {}
    BY <1>3 DEF ClearBlob, session, ghosts
  <2>2. pending[p] = {}
    BY <2>1 DEF BInv, BlobsInv
  <2>3. \A q \in Replica \ {p} : pblobs'[q] = pblobs[q]
    BY <1>3 DEF ClearBlob, TypeOK
  <2>4. acked' = acked
    BY <2>1 DEF acked
  <2> QED
    BY <2>1, <2>2, <2>3, <2>4 DEF BlobsStep, BInv, BlobsInv, Untouched, StagedInv
<1>4. ASSUME NEW p \in Replica,
             DmInit(p) \/ GitFetch(p) \/ SyncFetch(p) \/ Refetch(p) \/ GcFetch(p)
      PROVE  BlobsStep(p)
  <2>1. /\ UNCHANGED <<remote, snap, cand, own, pending, pblobs, authored, staged>>
        /\ UNCHANGED mirror \/ FetchInto(p)
    BY <1>4 DEF DmInit, GitFetch, SyncFetch, Refetch, GcFetch, session, ghosts
  <2>2. /\ \/ pc' = pc
           \/ pc[p] = "refetch" /\ pc'[p] = "build"
           \/ pc'[p] \in {"mint", "gcSweep"}
        /\ \A q \in Replica \ {p} : pc'[q] = pc[q]
    BY <1>4 DEF DmInit, GitFetch, SyncFetch, Refetch, GcFetch, Goto, session, TypeOK
  <2>3. /\ mirror'[p] = mirror[p] \/ mirror'[p] = remote
        /\ \A q \in Replica \ {p} : mirror'[q] = mirror[q]
    BY <2>1 DEF FetchInto, TypeOK
  <2>4. acked' = acked
    BY <2>1 DEF acked
  <2> QED
    BY <2>1, <2>2, <2>3, <2>4 DEF BlobsStep, BInv, BlobsInv, Untouched, StagedInv
<1>5. ASSUME NEW p \in Replica, CreateStore(p)
      PROVE  BlobsStep(p)
  <2>1. UNCHANGED <<remote, snap, cand, pc, own, pending, pblobs, authored, staged>>
    BY <1>5 DEF CreateStore, session, ghosts
  <2>2. PICK at \in CommitTime :
          mirror' = [mirror EXCEPT ![p] = StoreCommit(EmptySet, NoCommit, at)]
    BY <1>5 DEF CreateStore
  <2> DEFINE c == StoreCommit(EmptySet, NoCommit, at)
  <2>3. Beside(Content(c), acked, staged)
    BY EmptyType, EmptyIsBeside, CommitBeside
  <2> HIDE DEF c
  <2>4. mirror'[p] = c /\ \A q \in Replica \ {p} : mirror'[q] = mirror[q]
    BY <2>2 DEF TypeOK, c
  <2>5. acked' = acked
    BY <2>1 DEF acked
  <2> QED
    BY <2>1, <2>3, <2>4, <2>5 DEF BlobsStep, BInv, BlobsInv, Untouched, StagedInv
<1>6. ASSUME NEW p \in Replica, NEW x \in Record, Write(p, x)
      PROVE  BlobsStep(p)
  <2>1. /\ UNCHANGED <<remote, mirror, snap, cand, pc, own>> /\ pc[p] = "idle" /\ x \notin acked
        /\ pending' = [pending EXCEPT ![p] = @ \cup {x}]
        /\ authored' = [authored EXCEPT ![p] = @ \cup {x}]
    BY <1>6 DEF Write, Writable, session
  <2>2. \/ staged' = staged /\ pblobs' = pblobs
        \/ /\ staged' = staged \cup {x} /\ x.blob # None
           /\ pblobs' = [pblobs EXCEPT ![p] = @ \cup {x.blob}]
    BY <1>6 DEF Write
  <2>3. acked' = acked \cup {x}
    BY <2>1 DEF acked, TypeOK
  <2>4. /\ pending'[p] = pending[p] \cup {x} /\ pblobs[p] \subseteq pblobs'[p]
        /\ x \in staged' => x.blob \in pblobs'[p]
        /\ \A q \in Replica \ {p} : pending'[q] = pending[q] /\ pblobs'[q] = pblobs[q]
    <3>1. x \notin staged
      BY <2>1 DEF BInv, StagedInv
    <3> QED
      BY <2>1, <2>2, <3>1 DEF TypeOK
  <2>5. /\ acked \subseteq acked' /\ staged' \cap acked \subseteq staged /\ StagedInv'
        /\ staged' \subseteq staged \cup {x}
    BY <2>1, <2>2, <2>3 DEF BInv, StagedInv
  <2>6. /\ Beside(Content(remote), acked', staged')
        /\ Beside(Content(mirror[p]), acked', staged')
        /\ Beside(snap[p], acked', staged')
        /\ Beside(Content(cand[p]), acked', staged')
    BY <2>5, Stores, BesideLater DEF BInv, BlobsInv
  <2>7. \A q \in Replica \ {p} : Untouched(q)
    BY <2>1, <2>4 DEF Untouched
  <2>8. /\ pending'[p] \subseteq acked'
        /\ \A y \in pending'[p] \cap staged' : y.blob \in pblobs'[p]
    BY <2>3, <2>4, <2>5 DEF BInv, BlobsInv
  <2>9. BlobsInv(p)'
    BY <2>1, <2>6, <2>8 DEF BlobsInv
  <2> QED
    BY <2>1, <2>5, <2>6, <2>7, <2>9 DEF BlobsStep
<1>7. ASSUME NEW p \in Replica, NEW x \in Record, WriteDies(p, x)
      PROVE  BlobsStep(p)
  <2>1. UNCHANGED <<remote, mirror, snap, cand, pc, own, pending, authored, staged>>
    BY <1>7 DEF WriteDies, session
  <2>2. pblobs[p] \subseteq pblobs'[p] /\ \A q \in Replica \ {p} : pblobs'[q] = pblobs[q]
    BY <1>7 DEF WriteDies, TypeOK
  <2>3. acked' = acked
    BY <2>1 DEF acked
  <2> QED
    BY <2>1, <2>2, <2>3 DEF BlobsStep, BInv, BlobsInv, Untouched, StagedInv
<1>8. ASSUME NEW p \in Replica, Mint(p)
      PROVE  BlobsStep(p)
  <2>1. /\ UNCHANGED <<remote, mirror, snap, cand, pblobs, staged>>
        /\ pc'[p] = "build" /\ \A q \in Replica \ {p} : pc'[q] = pc[q]
    BY <1>8 DEF Mint, Goto, TypeOK
  <2>2. PICK V \in Mintable(p) :
          /\ pending' = [pending EXCEPT ![p] = @ \cup V]
          /\ own' = [own EXCEPT ![p] = pending[p] \cup V]
          /\ authored' = [authored EXCEPT ![p] = @ \cup V]
    BY <1>8 DEF Mint
  <2>3. V \cap acked = {}
    BY DEF Mintable
  <2>4. acked' = acked \cup V
    BY <2>2 DEF acked, TypeOK
  <2>5. /\ pending'[p] = pending[p] \cup V /\ own'[p] = pending'[p]
        /\ \A q \in Replica \ {p} : pending'[q] = pending[q] /\ own'[q] = own[q]
    BY <2>2 DEF TypeOK
  <2>6. /\ Beside(Content(remote), acked', staged)
        /\ Beside(Content(mirror[p]), acked', staged)
        /\ Beside(snap[p], acked', staged)
        /\ Beside(Content(cand[p]), acked', staged)
    BY <2>4 DEF BInv, BlobsInv, Beside
  <2>7. /\ pending'[p] \subseteq acked'
        /\ \A y \in pending'[p] \cap staged : y.blob \in pblobs[p]
    BY <2>3, <2>4, <2>5 DEF BInv, BlobsInv, StagedInv
  <2>8. BlobsInv(p)'
    BY <2>1, <2>5, <2>6, <2>7 DEF BlobsInv
  <2>9. \A q \in Replica \ {p} : Untouched(q)
    BY <2>1, <2>5 DEF Untouched
  <2> QED
    BY <2>1, <2>4, <2>6, <2>8, <2>9 DEF BlobsStep, BInv, StagedInv
<1>9. ASSUME NEW p \in Replica,
             \/ SyncOpen(p) \/ SyncOpenSkipping(p) \/ GcOpen(p) \/ GcOpenSkipping(p)
             \/ PushRejected(p) \/ GcRejected(p)
      PROVE  BlobsStep(p)
  <2>1. /\ UNCHANGED <<remote, mirror, cand, own, pending, pblobs, authored, staged>>
        /\ \/ snap' = snap
           \/ snap' = [snap EXCEPT ![p] = Content(mirror[p])]
    BY <1>9 DEF SyncOpen, SyncOpenSkipping, Open, GcOpen, GcOpenSkipping, OpenGc,
                PushRejected, GcRejected, clone, ghosts
  <2>2. /\ \A q \in Replica \ {p} : snap'[q] = snap[q]
        /\ snap'[p] = snap[p] \/ snap'[p] = Content(mirror[p])
    BY <2>1 DEF TypeOK
  <2>3. /\ \/ pc'[p] \in {"fetch", "mint", "gcFetch", "gcSweep", "gcRefetch"}
           \/ pc[p] = "push" /\ pc'[p] = "refetch"
        /\ \A q \in Replica \ {p} : pc'[q] = pc[q]
    BY <1>9 DEF SyncOpen, SyncOpenSkipping, GcOpen, GcOpenSkipping, PushRejected,
                GcRejected, Goto, TypeOK
  <2>4. acked' = acked
    BY <2>1 DEF acked
  <2> QED
    BY <2>1, <2>2, <2>3, <2>4 DEF BlobsStep, BInv, BlobsInv, Untouched, StagedInv
<1>10. ASSUME NEW p \in Replica, Build(p)
      PROVE  BlobsStep(p)
  <2>1. /\ UNCHANGED <<remote, mirror, snap, own, pending, pblobs, authored, staged>>
        /\ pc[p] = "build"
    BY <1>10 DEF Build, ghosts
  <2>2. PICK at \in CommitTime :
           LET commit == StoreCommit(Merged(p), mirror[p], at)
           IN  /\ cand' = [cand EXCEPT ![p] = commit]
               /\ pc' = [pc EXCEPT ![p] = IF mirror[p] # NoCommit /\ commit = mirror[p]
                                          THEN "clear"
                                          ELSE IF HasRemote(p) THEN "push" ELSE "update"]
    BY <1>10 DEF Build
  <2> DEFINE commit == StoreCommit(Merged(p), mirror[p], at)
  <2>3. /\ cand'[p] = commit /\ pc'[p] \in {"push", "update", "clear"}
        /\ \A q \in Replica \ {p} : cand'[q] = cand[q] /\ pc'[q] = pc[q]
    BY <2>2 DEF TypeOK
  <2>4. Beside(Content(commit), acked, staged)
    <3>1. /\ Merged(p) \in StoreSet /\ mirror[p] \in Commit
          /\ Beside(Merged(p), acked, staged) /\ Beside(Content(mirror[p]), acked, staged)
      BY <2>1, MergedHoldsOwn, MergedBeside DEF TypeOK, BInv, BlobsInv
    <3> QED
      BY <3>1, CommitBeside
  <2> HIDE DEF commit
  <2>5. acked' = acked
    BY <2>1 DEF acked
  <2> QED
    BY <2>1, <2>3, <2>4, <2>5 DEF BlobsStep, BInv, BlobsInv, Untouched, StagedInv
<1>11. ASSUME NEW p \in Replica, PushLands(p) \/ GcLands(p) \/ UpdateRef(p)
       PROVE  BlobsStep(p)
  <2>1. /\ UNCHANGED <<snap, cand, own, pending, pblobs, authored, staged>>
        /\ remote' = remote \/ remote' = cand[p]
        /\ mirror' = mirror \/ mirror' = [mirror EXCEPT ![p] = cand[p]]
    BY <1>11 DEF PushLands, GcLands, UpdateRef, clone, ghosts
  <2>2. /\ \/ pc[p] = "push" /\ pc'[p] = "update"
           \/ pc[p] = "update" /\ pc'[p] = "clear"
           \/ pc'[p] = "gcUpdate"
        /\ \A q \in Replica \ {p} : pc'[q] = pc[q]
    BY <1>11 DEF PushLands, GcLands, UpdateRef, Goto, TypeOK
  <2>3. /\ mirror'[p] = mirror[p] \/ mirror'[p] = cand[p]
        /\ \A q \in Replica \ {p} : mirror'[q] = mirror[q]
    BY <2>1 DEF TypeOK
  <2>4. acked' = acked
    BY <2>1 DEF acked
  <2> QED
    BY <2>1, <2>2, <2>3, <2>4 DEF BlobsStep, BInv, BlobsInv, Untouched, StagedInv
<1>12. ASSUME NEW p \in Replica,
              \/ PushGivesUp(p) \/ GcGivesUp(p) \/ GcNothing(p) \/ ClearStats(p)
              \/ Crash(p) \/ PushFails(p) \/ GcFails(p) \/ GcUpdate(p)
       PROVE  BlobsStep(p)
  <2>1. /\ Exit(p) /\ UNCHANGED <<pending, pblobs, authored, staged>>
        /\ remote' = remote \/ remote' = cand[p]
        /\ mirror' = mirror \/ mirror' = [mirror EXCEPT ![p] = cand[p]]
    BY <1>12 DEF PushGivesUp, GcGivesUp, GcNothing, ClearStats, Crash, PushFails, GcFails,
                 GcUpdate, Fault, clone, ghosts
  <2>2. /\ mirror'[p] = mirror[p] \/ mirror'[p] = cand[p]
        /\ \A q \in Replica \ {p} : mirror'[q] = mirror[q]
    BY <2>1 DEF TypeOK
  <2> QED
    BY <2>1, <2>2, ExitBlobs
<1>13. ASSUME NEW p \in Replica, GcSweep(p)
       PROVE  BlobsStep(p)
  <2>1. UNCHANGED <<remote, mirror, snap, own, pending, pblobs, authored, staged>>
    BY <1>13 DEF GcSweep, clone, ghosts
  <2>2. PICK at \in CommitTime :
          cand' = [cand EXCEPT ![p] = Compact(Swept(Content(mirror[p]), Aged), at)]
    BY <1>13 DEF GcSweep
  <2>3. /\ cand'[p] = Compact(Swept(Content(mirror[p]), Aged), at)
        /\ pc'[p] \in {"gcPush", "gcUpdate"}
        /\ \A q \in Replica \ {p} : pc'[q] = pc[q] /\ cand'[q] = cand[q]
    BY <1>13, <2>2 DEF GcSweep, TypeOK
  <2>4. Content(cand'[p]) = Swept(Content(mirror[p]), Aged)
    BY <2>3 DEF Compact, Content, NoCommit
  <2>5. Beside(Content(cand'[p]), acked, staged)
    BY <2>4, Stores, SweptBeside DEF BInv, BlobsInv, StagedInv, TypeOK
  <2>6. acked' = acked
    BY <2>1 DEF acked
  <2> QED
    BY <2>1, <2>3, <2>5, <2>6 DEF BlobsStep, BInv, BlobsInv, Untouched, StagedInv
<1> QED
  BY <1>1, <1>2, <1>3, <1>4, <1>5, <1>6, <1>7, <1>8, <1>9, <1>10, <1>11, <1>12, <1>13
  DEF Next, SyncStep, GcStep

\* The invariant holds.
LEMMA BInvCorrect == Spec => []BInv
<1>1. Init => BInv
  <2> SUFFICES ASSUME Init PROVE BInv
    OBVIOUS
  <2>1. acked = {} /\ staged = {}
    BY DEF Init, acked
  <2> QED
    BY <2>1, EmptyIsBeside DEF Init, BInv, BlobsInv, StagedInv
<1>2. TypeOK /\ TypeOK' /\ BInv /\ [Next]_vars => BInv'
  <2>1. ASSUME TypeOK, TypeOK', BInv, Next PROVE BInv'
    BY <2>1, EveryStepBlobs, BlobsPreserves
  <2>2. ASSUME BInv, UNCHANGED vars PROVE BInv'
    <3>1. UNCHANGED <<remote, mirror, snap, cand, base, pending, pblobs, own, pc, odb,
                      authored, staged, dropped>>
      BY <2>2 DEF vars, clone, session, ghosts
    <3>2. acked' = acked
      BY <3>1 DEF acked
    <3>3. \A q \in Replica : BlobsInv(q) => BlobsInv(q)'
      BY <3>1, <3>2 DEF BlobsInv
    <3> QED
      BY <2>2, <3>1, <3>2, <3>3 DEF BInv, StagedInv
  <2> QED
    BY <2>1, <2>2
<1> QED
  BY TypeCorrect, <1>1, <1>2, PTL DEF Spec

\* A content staged with a record lands with it, and stays beside it for as
\* long as the record does, whatever merges, retries and compactions it meets.
THEOREM ContentsLand == Spec => []StagedBlobLands
<1>1. BInv => StagedBlobLands
  BY DEF BInv, Beside, StagedBlobLands, Shared
<1> QED
  BY BInvCorrect, <1>1, PTL

-----------------------------------------------------------------------------
(* Deletions.                                                              *)
(*                                                                         *)
(* A clone reads an entry as deleted in its mirror or in its pending.  The *)
(* mirror is replaced by what a fetch brings and by what its invocation    *)
(* built: neither may lack a tombstone that the mirror has (EndsInv).      *)

EndsInv(q) ==
  /\ Tombs(Content(mirror[q]).recs) \subseteq Shared
  /\ inited[q] = "creating" => mirror[q] = NoCommit /\ pc[q] = "idle"
  /\ pc[q] \in {"push", "update", "gcPush", "gcUpdate"} =>
       Tombs(Content(mirror[q]).recs) \subseteq Content(cand[q]).recs

EInv == Tombs(dropped) = {} /\ \A q \in Replica : EndsInv(q)

\* What a step of clone p does: it takes no tombstone from where others could
\* have read it, nor from itself.
SameEnds(q) ==
  /\ mirror'[q] = mirror[q] /\ cand'[q] = cand[q] /\ inited'[q] = inited[q]
  /\ pc'[q] = pc[q] /\ pending'[q] = pending[q]

EndsStep(p) ==
  /\ Tombs(dropped') = {} /\ Tombs(Shared) \subseteq Shared'
  /\ \A q \in Replica \ {p} : SameEnds(q)
  /\ EndsInv(p)'
  /\ Tombs(View(p)) \subseteq View(p)'

\* Such a step preserves the invariant, and no clone sees less deleted.
LEMMA EndsPreserves ==
  ASSUME EInv, NEW p \in Replica, EndsStep(p)
  PROVE  EInv' /\ \A q \in Replica : Tombs(View(q)) \subseteq View(q)'
<1>1. ASSUME NEW q \in Replica, q # p
      PROVE  EndsInv(q)' /\ View(q)' = View(q)
  <2>1. EndsInv(q) /\ SameEnds(q) /\ Tombs(Shared) \subseteq Shared'
    BY <1>1 DEF EInv, EndsStep
  <2>2. Content(mirror'[q]) = Content(mirror[q]) /\ Content(cand'[q]) = Content(cand[q])
    BY <2>1 DEF SameEnds
  <2> QED
    BY <2>1, <2>2 DEF EndsInv, SameEnds, Tombs, View
<1>2. \A q \in Replica : Tombs(View(q)) \subseteq View(q)'
  BY <1>1 DEF EndsStep, Tombs
<1> QED
  BY <1>1, <1>2 DEF EInv, EndsStep

\* A fetch brings every tombstone that the mirror has.
LEMMA FetchEnds ==
  ASSUME TypeOK, EInv, NEW r \in Replica, FetchInto(r), remote' = remote
  PROVE  /\ Tombs(Content(mirror'[r]).recs) \subseteq Shared
         /\ Tombs(Content(mirror[r]).recs) \subseteq Content(mirror'[r]).recs
         /\ \A q \in Replica \ {r} : mirror'[q] = mirror[q]
<1>1. /\ mirror'[r] = mirror[r] \/ mirror'[r] = remote
      /\ \A q \in Replica \ {r} : mirror'[q] = mirror[q]
  BY DEF FetchInto, TypeOK
<1> QED
  BY <1>1 DEF EInv, EndsInv, Tombs, Shared

\* What lands by a push has all that was there, and what lands by a compaction
\* has its tombstones.
LEMMA LandingEnds ==
  ASSUME TypeOK, IInv, PInv, NEW r \in Replica, remote' = cand[r],
         \/ FastForward(remote, cand[r])
         \/ pc[r] = "gcPush" /\ Lease(r)
  PROVE  Tombs(Shared) \subseteq Shared'
<1>1. CASE FastForward(remote, cand[r])
  <2>1. remote \in Commit /\ cand[r] \in Commit /\ Grows(cand[r])
    BY DEF TypeOK, IInv, CloneInv
  <2> QED
    BY <1>1, <2>1, ForwardKeeps DEF Shared, Tombs
<1>2. CASE pc[r] = "gcPush" /\ Lease(r)
  <2>1. SweptWell(r)
    BY <1>2 DEF PInv, FollowsInv
  <2> QED
    BY <1>2, <2>1 DEF SweptWell, Lease, Shared, Tombs
<1> QED
  BY <1>1, <1>2

\* What a landed compaction drops is no tombstone.
LEMMA DropsEnds ==
  ASSUME PInv, EInv, NEW r \in Replica, pc[r] = "gcPush"
  PROVE  Tombs(dropped \cup Drops(r)) = {}
<1>1. SweptWell(r)
  BY DEF PInv, FollowsInv
<1> QED
  BY <1>1 DEF SweptWell, EInv, Drops, Tombs

\* An invocation that is over leaves its clone a mirror with the tombstones
\* that it had.
LEMMA ExitEnds ==
  ASSUME TypeOK, EInv, RInv, NEW r \in Replica, Exit(r), UNCHANGED <<inited, pending>>,
         Tombs(dropped') = {}, Tombs(Shared) \subseteq Shared',
         Tombs(Content(mirror[r]).recs) \subseteq Content(mirror'[r]).recs,
         Tombs(Content(mirror'[r]).recs) \subseteq Shared',
         pc[r] # "idle",
         \A q \in Replica \ {r} : mirror'[q] = mirror[q]
  PROVE  EndsStep(r)
<1>1. pc'[r] = "idle" /\ \A q \in Replica \ {r} : pc'[q] = pc[q] /\ cand'[q] = cand[q]
  BY DEF Exit, TypeOK
<1>2. EndsInv(r)'
  BY <1>1 DEF EndsInv, EInv, Shared
<1>3. \A q \in Replica \ {r} : SameEnds(q)
  BY <1>1 DEF SameEnds
<1>4. Tombs(View(r)) \subseteq View(r)'
  BY DEF View, Tombs
<1> QED
  BY <1>2, <1>3, <1>4 DEF EndsStep

\* Every step there is, is such a step of a clone.
LEMMA EveryStepEnds ==
  ASSUME ~InitBeside, ~UserFetch, TypeOK, TypeOK', IInv, PInv, RInv, EInv, Next
  PROVE  \E p \in Replica : EndsStep(p)
<1>1. ASSUME NEW p \in Replica,
             \/ DmInitFails(p) \/ ClearBlob(p)
             \/ \E x \in Record : WriteDies(p, x)
             \/ \E e \in Entry : Bump(p, e)
      PROVE  EndsStep(p)
  <2>1. UNCHANGED <<remote, mirror, cand, pc, pending, dropped>>
    BY <1>1 DEF DmInitFails, ClearBlob, WriteDies, Bump, session, ghosts
  <2>2. /\ inited'[p] \in {inited[p], "yes"}
        /\ \A q \in Replica \ {p} : inited'[q] = inited[q]
    BY <1>1 DEF DmInitFails, ClearBlob, WriteDies, Bump, TypeOK
  <2> QED
    BY <2>1, <2>2 DEF EndsStep, EndsInv, EInv, SameEnds, Tombs, View, Shared
<1>2. ASSUME NEW p \in Replica, Mint(p) \/ \E x \in Record : Write(p, x)
      PROVE  EndsStep(p)
  <2>1. UNCHANGED <<remote, mirror, cand, inited, dropped>>
    BY <1>2 DEF Mint, Write, session
  <2>2. /\ pc' = pc \/ (pc[p] = "mint" /\ pc'[p] = "build")
        /\ \A q \in Replica \ {p} : pc'[q] = pc[q]
    BY <1>2 DEF Mint, Write, Goto, session, TypeOK
  <2>3. pending[p] \subseteq pending'[p] /\ \A q \in Replica \ {p} : pending'[q] = pending[q]
    BY <1>2 DEF Mint, Write, TypeOK
  <2> QED
    BY <2>1, <2>2, <2>3 DEF EndsStep, EndsInv, EInv, SameEnds, Tombs, View, Shared
<1>3. ASSUME NEW p \in Replica, ClearRecord(p)
      PROVE  EndsStep(p)
  <2>1. UNCHANGED <<remote, mirror, cand, pc, inited, dropped>> /\ pc[p] = "clear"
    BY <1>3 DEF ClearRecord, session, ghosts
  <2>2. /\ pending[p] \subseteq pending'[p] \cup own[p]
        /\ \A q \in Replica \ {p} : pending'[q] = pending[q]
    BY <1>3 DEF ClearRecord, TypeOK
  <2>3. own[p] \subseteq Content(mirror[p]).recs \cup dropped
    BY <2>1 DEF RInv, ReadsInv
  <2> QED
    BY <2>1, <2>2, <2>3 DEF EndsStep, EndsInv, EInv, SameEnds, Tombs, View, Shared
<1>4. ASSUME NEW p \in Replica, DmInit(p)
      PROVE  EndsStep(p)
  <2>1. UNCHANGED <<remote, cand, pc, pending, dropped>> /\ pc[p] = "idle"
    BY <1>4 DEF DmInit, session, ghosts
  <2>2. /\ inited'[p] = "yes" \/ mirror'[p] = NoCommit
        /\ \A q \in Replica \ {p} : inited'[q] = inited[q]
    <3>1. CASE mirror[p] = NoCommit /\ ~RemoteStore(p)
      BY <1>4, <3>1 DEF DmInit, TypeOK
    <3>2. CASE ~(mirror[p] = NoCommit /\ ~RemoteStore(p))
      BY <1>4, <3>2 DEF DmInit, TypeOK
    <3> QED
      BY <3>1, <3>2
  <2>3. /\ Tombs(Content(mirror'[p]).recs) \subseteq Shared
        /\ Tombs(Content(mirror[p]).recs) \subseteq Content(mirror'[p]).recs
        /\ \A q \in Replica \ {p} : mirror'[q] = mirror[q]
    <3>1. CASE mirror' = mirror
      BY <3>1 DEF EInv, EndsInv, Tombs
    <3>2. CASE FetchInto(p)
      BY <2>1, <3>2, FetchEnds
    <3> QED
      BY <1>4, <3>1, <3>2 DEF DmInit
  <2> QED
    BY <2>1, <2>2, <2>3 DEF EndsStep, EndsInv, EInv, SameEnds, Tombs, View, Shared
<1>5. ASSUME NEW p \in Replica, CreateStore(p)
      PROVE  EndsStep(p)
  <2>1. UNCHANGED <<remote, cand, pc, pending, dropped>> /\ mirror[p] = NoCommit /\ pc[p] = "idle"
    BY <1>5 DEF CreateStore, session, ghosts, EInv, EndsInv
  <2>2. PICK at \in CommitTime :
          mirror' = [mirror EXCEPT ![p] = StoreCommit(EmptySet, NoCommit, at)]
    BY <1>5 DEF CreateStore
  <2>3. Content(StoreCommit(EmptySet, NoCommit, at)).recs = {} /\ Content(NoCommit).recs = {}
    BY EmptyType, CommitIs DEF Content, EmptySet
  <2>4. /\ Content(mirror'[p]).recs = {} /\ Content(mirror[p]).recs = {}
        /\ \A q \in Replica \ {p} : mirror'[q] = mirror[q]
    BY <2>1, <2>2, <2>3 DEF TypeOK
  <2>5. inited'[p] = "yes" /\ \A q \in Replica \ {p} : inited'[q] = inited[q]
    BY <1>5 DEF CreateStore, TypeOK
  <2> QED
    BY <2>1, <2>4, <2>5 DEF EndsStep, EndsInv, EInv, SameEnds, Tombs, View, Shared
<1>6. ASSUME NEW p \in Replica, SyncFetch(p) \/ Refetch(p) \/ GcFetch(p)
      PROVE  EndsStep(p)
  <2>1. /\ UNCHANGED <<remote, cand, inited, pending, dropped>> /\ FetchInto(p)
        /\ pc[p] # "idle" /\ pc'[p] \in {"mint", "build", "gcSweep"}
        /\ \A q \in Replica \ {p} : pc'[q] = pc[q]
    BY <1>6 DEF SyncFetch, Refetch, GcFetch, Goto, ghosts, TypeOK
  <2>2. /\ Tombs(Content(mirror'[p]).recs) \subseteq Shared
        /\ Tombs(Content(mirror[p]).recs) \subseteq Content(mirror'[p]).recs
        /\ \A q \in Replica \ {p} : mirror'[q] = mirror[q]
    BY <2>1, FetchEnds
  <2>3. inited[p] # "creating"
    BY <2>1 DEF EInv, EndsInv
  <2> QED
    BY <2>1, <2>2, <2>3 DEF EndsStep, EndsInv, EInv, SameEnds, Tombs, View, Shared
<1>7. ASSUME NEW p \in Replica,
             \/ SyncOpen(p) \/ SyncOpenSkipping(p) \/ GcOpen(p) \/ GcOpenSkipping(p)
             \/ PushRejected(p) \/ GcRejected(p)
      PROVE  EndsStep(p)
  <2>1. /\ UNCHANGED <<remote, mirror, cand, inited, pending, dropped>>
        /\ pc'[p] \in {"fetch", "mint", "gcFetch", "gcSweep", "refetch", "gcRefetch"}
        /\ \A q \in Replica \ {p} : pc'[q] = pc[q]
    BY <1>7 DEF SyncOpen, SyncOpenSkipping, Open, GcOpen, GcOpenSkipping, OpenGc,
                PushRejected, GcRejected, clone, ghosts, Goto, TypeOK
  <2>2. inited[p] # "creating"
    BY <1>7 DEF SyncOpen, SyncOpenSkipping, Open, GcOpen, GcOpenSkipping, OpenGc, Initialized,
                PushRejected, GcRejected, Goto, EInv, EndsInv
  <2> QED
    BY <2>1, <2>2 DEF EndsStep, EndsInv, EInv, SameEnds, Tombs, View, Shared
<1>8. ASSUME NEW p \in Replica, Build(p)
      PROVE  EndsStep(p)
  <2>1. UNCHANGED <<remote, mirror, inited, pending, dropped>> /\ pc[p] = "build"
    BY <1>8 DEF Build, ghosts
  <2>2. PICK at \in CommitTime :
           LET commit == StoreCommit(Merged(p), mirror[p], at)
           IN  /\ cand' = [cand EXCEPT ![p] = commit]
               /\ pc' = [pc EXCEPT ![p] = IF mirror[p] # NoCommit /\ commit = mirror[p]
                                          THEN "clear"
                                          ELSE IF HasRemote(p) THEN "push" ELSE "update"]
    BY <1>8 DEF Build
  <2> DEFINE commit == StoreCommit(Merged(p), mirror[p], at)
  <2>3. /\ cand'[p] = commit /\ pc'[p] \in {"push", "update", "clear"}
        /\ \A q \in Replica \ {p} : cand'[q] = cand[q] /\ pc'[q] = pc[q]
    BY <2>2 DEF TypeOK
  <2>4. Content(mirror[p]).recs \subseteq Content(commit).recs
    BY MergedHoldsOwn, CommitHolds DEF TypeOK
  <2> HIDE DEF commit
  <2>5. inited[p] # "creating"
    BY <2>1 DEF EInv, EndsInv
  <2> QED
    BY <2>1, <2>3, <2>4, <2>5 DEF EndsStep, EndsInv, EInv, SameEnds, Tombs, View, Shared
<1>9. ASSUME NEW p \in Replica, PushLands(p) \/ GcLands(p)
      PROVE  EndsStep(p)
  <2>1. /\ UNCHANGED <<mirror, cand, inited, pending>> /\ remote' = cand[p]
        /\ \/ pc[p] = "push" /\ FastForward(remote, cand[p]) /\ dropped' = dropped
           \/ pc[p] = "gcPush" /\ Lease(p) /\ dropped' = dropped \cup Drops(p)
        /\ pc'[p] \in {"update", "gcUpdate"}
        /\ \A q \in Replica \ {p} : pc'[q] = pc[q]
    BY <1>9 DEF PushLands, GcLands, Goto, clone, ghosts, TypeOK
  <2>2. Tombs(Shared) \subseteq Shared'
    BY <2>1, LandingEnds
  <2>3. Tombs(dropped') = {}
    BY <2>1, DropsEnds DEF EInv
  <2>4. inited[p] # "creating"
    BY <2>1 DEF EInv, EndsInv
  <2> QED
    BY <2>1, <2>2, <2>3, <2>4 DEF EndsStep, EndsInv, EInv, SameEnds, Tombs, View
<1>10. ASSUME NEW p \in Replica, UpdateRef(p)
       PROVE  EndsStep(p)
  <2>1. /\ UNCHANGED <<remote, cand, inited, pending, dropped>>
        /\ pc[p] = "update" /\ pc'[p] = "clear" /\ mirror'[p] = cand[p]
        /\ \A q \in Replica \ {p} : pc'[q] = pc[q] /\ mirror'[q] = mirror[q]
    BY <1>10 DEF UpdateRef, Goto, ghosts, TypeOK
  <2>2. Tombs(Content(cand[p]).recs) \subseteq Shared
    BY <2>1 DEF IInv, CloneInv, Safe, EInv, Tombs
  <2>3. inited[p] # "creating"
    BY <2>1 DEF EInv, EndsInv
  <2> QED
    BY <2>1, <2>2, <2>3 DEF EndsStep, EndsInv, EInv, SameEnds, Tombs, View, Shared
<1>11. ASSUME NEW p \in Replica,
              \/ PushGivesUp(p) \/ GcGivesUp(p) \/ GcNothing(p) \/ ClearStats(p)
              \/ Crash(p) \/ PushFails(p) \/ GcFails(p)
       PROVE  EndsStep(p)
  <2>1. /\ Exit(p) /\ UNCHANGED <<mirror, inited, pending>> /\ pc[p] # "idle"
        /\ \/ UNCHANGED <<remote, dropped>>
           \/ remote' = cand[p] /\ FastForward(remote, cand[p]) /\ dropped' = dropped
           \/ /\ remote' = cand[p] /\ pc[p] = "gcPush" /\ Lease(p)
              /\ dropped' = dropped \cup Drops(p)
    BY <1>11 DEF PushGivesUp, GcGivesUp, GcNothing, ClearStats, Crash, PushFails, GcFails,
                 Fault, clone, ghosts
  <2>2. Tombs(Shared) \subseteq Shared'
    <3>1. CASE UNCHANGED remote
      BY <3>1 DEF Shared, Tombs
    <3> QED
      BY <2>1, <3>1, LandingEnds
  <2>3. Tombs(dropped') = {}
    BY <2>1, DropsEnds DEF EInv
  <2>4. Tombs(Content(mirror'[p]).recs) \subseteq Shared'
    BY <2>1, <2>2 DEF EInv, EndsInv, Tombs
  <2> QED
    BY <2>1, <2>2, <2>3, <2>4, ExitEnds DEF Tombs
<1>12. ASSUME NEW p \in Replica, GcUpdate(p)
       PROVE  EndsStep(p)
  <2>1. /\ Exit(p) /\ UNCHANGED <<remote, inited, pending, dropped>> /\ pc[p] = "gcUpdate"
        /\ mirror'[p] = cand[p] /\ \A q \in Replica \ {p} : mirror'[q] = mirror[q]
    BY <1>12 DEF GcUpdate, TypeOK, IInv, CloneInv, HasRemote
  <2>2. Tombs(Content(cand[p]).recs) \subseteq Shared
    BY <2>1 DEF IInv, CloneInv, Safe, EInv, Tombs
  <2>3. Tombs(Content(mirror[p]).recs) \subseteq Content(cand[p]).recs
    BY <2>1 DEF EInv, EndsInv
  <2>4. Shared' = Shared
    BY <2>1 DEF Shared
  <2>5. Tombs(dropped') = {} /\ Tombs(Shared) \subseteq Shared'
    BY <2>1, <2>4 DEF EInv, Tombs
  <2> QED
    BY <2>1, <2>2, <2>3, <2>4, <2>5, ExitEnds
<1>13. ASSUME NEW p \in Replica, GcSweep(p)
       PROVE  EndsStep(p)
  <2>1. UNCHANGED <<remote, mirror, inited, pending, dropped>> /\ pc[p] = "gcSweep"
    BY <1>13 DEF GcSweep, clone, ghosts
  <2>2. PICK at \in CommitTime :
          cand' = [cand EXCEPT ![p] = Compact(Swept(Content(mirror[p]), Aged), at)]
    BY <1>13 DEF GcSweep
  <2>3. /\ cand'[p] = Compact(Swept(Content(mirror[p]), Aged), at)
        /\ pc'[p] \in {"gcPush", "gcUpdate"}
        /\ \A q \in Replica \ {p} : pc'[q] = pc[q] /\ cand'[q] = cand[q]
    BY <1>13, <2>2 DEF GcSweep, TypeOK
  <2>4. Content(cand'[p]) = Swept(Content(mirror[p]), Aged)
    BY <2>3 DEF Compact, Content, NoCommit
  <2>5. Tombs(Content(mirror[p]).recs) \subseteq Content(cand'[p]).recs
    BY <2>4, SweepKeeps DEF Tombs
  <2>6. inited[p] # "creating"
    BY <2>1 DEF EInv, EndsInv
  <2> QED
    BY <2>1, <2>3, <2>5, <2>6 DEF EndsStep, EndsInv, EInv, SameEnds, Tombs, View, Shared
<1>14. ASSUME NEW p \in Replica
       PROVE  ~AddRemote(p) /\ ~GitFetch(p)
  BY DEF AddRemote, GitFetch, IInv, CloneInv
<1> QED
  BY <1>1, <1>2, <1>3, <1>4, <1>5, <1>6, <1>7, <1>8, <1>9, <1>10, <1>11, <1>12, <1>13, <1>14
  DEF Next, SyncStep, GcStep

\* The invariant holds if nothing runs beside dm: the mirror that an invocation
\* replaces is then still the one it built on.
LEMMA EInvCorrect ==
  ASSUME NoLateRemote, ~InitBeside, ~UserFetch
  PROVE  Spec => []EInv
<1>1. Init => EInv
  BY DEF Init, EInv, EndsInv, Tombs, Content, EmptySet
<1>2. TypeOK /\ TypeOK' /\ IInv /\ PInv /\ RInv /\ EInv /\ [Next]_vars => EInv'
  <2>1. ASSUME TypeOK, TypeOK', IInv, PInv, RInv, EInv, Next PROVE EInv'
    BY <2>1, EveryStepEnds, EndsPreserves
  <2>2. ASSUME EInv, UNCHANGED vars PROVE EInv'
    BY <2>2 DEF EInv, EndsInv, Shared, vars, clone, session, ghosts
  <2> QED
    BY <2>1, <2>2
<1> QED
  BY TypeCorrect, InvCorrect, PInvCorrect, RInvCorrect, <1>1, <1>2, PTL DEF Spec

\* An entry that a clone reads as deleted, in its mirror or in its pending, it
\* reads as deleted ever after, if no clone gets its remote late and neither
\* the user's own fetches nor other commands run beside dm.
THEOREM DeletionsStay ==
  ASSUME NoLateRemote, ~InitBeside, ~UserFetch
  PROVE  Spec => DeletedStaysDeleted
<1> DEFINE Stays == \A r \in Replica, e \in Entry :
                      Tombstoned(View(r), e) => Tombstoned(View(r)', e)
<1>1. ASSUME TypeOK, TypeOK', IInv, PInv, RInv, EInv, Next
      PROVE  Stays
  <2>1. \A r \in Replica : Tombs(View(r)) \subseteq View(r)'
    BY <1>1, EveryStepEnds, EndsPreserves
  <2> QED
    BY <2>1 DEF Tombs, Tombstoned, OfEntry
<1>2. TypeOK /\ TypeOK' /\ IInv /\ PInv /\ RInv /\ EInv /\ [Next]_vars => [Stays]_vars
  BY <1>1
<1> QED
  BY TypeCorrect, InvCorrect, PInvCorrect, RInvCorrect, EInvCorrect, <1>2, PTL
  DEF Spec, DeletedStaysDeleted

-----------------------------------------------------------------------------
(* No count is lost.                                                       *)
(*                                                                         *)
(* A row is lost where a sweep finds no living entry to it, so a store     *)
(* that counts what was read of an entry must have a note of it, unless    *)
(* the entry was deleted (HasNotes): and so must any store that a clone    *)
(* may add its deltas to.  What was counted is in the register, and in the *)
(* mirror, but for the deltas of the clone itself (RowsInv).               *)

\* A rec-id is a ULID, which has 128 bits.
BoundedIds == \E n \in Nat : \A x \in Record : x.id <= n

\* The entries that nobody deleted.
undeleted == {e \in Entry : ~Tombstoned(acked, e)}

Noted(R, e) == Notes(R, e) # {}

HasNotes(s, L) == \A q \in Replica, e \in L : s.stats[q][e].n > 0 => Noted(s.recs, e)

\* No row is less than what the same row of an ancestor was.
NoLess(s, t) == \A q \in Replica, e \in Entry : s.stats[q][e].n <= t.stats[q][e].n
RowsGrow(c) == \A i, j \in DOMAIN c : i <= j => NoLess(c[i].tree, c[j].tree)

\* Of one entry that nobody deleted.
RowInv(q, e) ==
  LET m == Content(mirror[q])
      c == Content(cand[q])
      delta == pstats[q][e].n
  IN  /\ Register(q, e) + Unshared(q, e) >= bumped[q][e]
      /\ m.stats[q][e].n + (IF pc[q] = "clear" THEN 0 ELSE delta) >= bumped[q][e]
      /\ pc[q] \in {"push", "update"} => c.stats[q][e].n >= bumped[q][e]
      /\ pc[q] \in {"gcPush", "gcUpdate"} => c.stats[q][e].n + delta >= bumped[q][e]
      /\ inited[q] = "creating" => delta >= bumped[q][e]

NoteInv(q, e) ==
  LET m == Content(mirror[q])
      c == Content(cand[q])
  IN  /\ Noted(View(q), e)
      /\ inited[q] = "creating" => Noted(pending[q], e)
      /\ pc[q] \in {"push", "update"} => Noted(c.recs, e)
      /\ pc[q] \in {"gcPush", "gcUpdate"} => Noted(c.recs \cup pending[q], e)
      /\ pc[q] = "clear" => Noted(m.recs, e)

\* What the sweep left of an entry's note, it left of its rows.
LeftOf(q, e) ==
  LET b == Content(base[q])
      c == Content(cand[q])
  IN  Noted(b.recs, e) => /\ Noted(c.recs, e)
                          /\ \A r \in Replica : c.stats[r][e].n = b.stats[r][e].n

RowsInv(q) ==
  /\ RowsGrow(mirror[q]) /\ RowsGrow(cand[q])
  /\ HasNotes(Content(mirror[q]), undeleted)
  /\ HasNotes(snap[q], undeleted)
  /\ HasNotes(Content(cand[q]), undeleted)
  /\ \A e \in undeleted : RowInv(q, e) /\ (pstats[q][e].n > 0 => NoteInv(q, e))
  /\ pc[q] \in {"fetch", "mint", "build", "push", "refetch"} =>
       snap[q].epoch <= Content(mirror[q]).epoch
  /\ pc[q] = "gcPush" => \A e \in undeleted : LeftOf(q, e)

\* A note is dropped only if a newer one is shared, or the entry deleted.
DropsInv == \A x \in dropped : x.kind \in Note /\ x.entry \in undeleted => Noted(Shared, x.entry)

NInv ==
  /\ RowsGrow(remote) /\ HasNotes(Content(remote), undeleted) /\ DropsInv
  /\ \A q \in Replica : RowsInv(q)

\* What becomes of the remote: no row of an entry that is left shrinks.
SharedRows ==
  /\ undeleted' \subseteq undeleted
  /\ RowsGrow(remote') /\ HasNotes(Content(remote'), undeleted') /\ DropsInv'
  /\ \A q \in Replica, e \in undeleted' : Register(q, e) <= Register(q, e)'

\* What a step of clone p does.
SameRows(q) ==
  /\ mirror'[q] = mirror[q] /\ cand'[q] = cand[q] /\ base'[q] = base[q]
  /\ snap'[q] = snap[q] /\ pc'[q] = pc[q] /\ inited'[q] = inited[q]
  /\ pending'[q] = pending[q] /\ pstats'[q] = pstats[q] /\ bumped'[q] = bumped[q]

RowsStep(p) ==
  /\ SharedRows
  /\ \A q \in Replica \ {p} : SameRows(q)
  /\ RowsInv(p)'

\* The numbers that the invariant is about are numbers.
LEMMA RowTypes ==
  ASSUME TypeOK, NEW q \in Replica, NEW e \in Entry
  PROVE  /\ Content(mirror[q]).stats[q][e].n \in Nat
         /\ Content(cand[q]).stats[q][e].n \in Nat
         /\ Register(q, e) \in Nat /\ Unshared(q, e) \in Nat
         /\ pstats[q][e].n \in Nat /\ bumped[q][e] \in Nat
BY Stores, CountType DEF Register, TypeOK, Unshared, Stats, Row

\* Such a step preserves the invariant.
LEMMA RowsPreserves ==
  ASSUME TypeOK, TypeOK', NInv, NEW p \in Replica, RowsStep(p)
  PROVE  NInv'
<1> SUFFICES ASSUME NEW q \in Replica, q # p
             PROVE  RowsInv(q)'
  BY DEF NInv, RowsStep, SharedRows
<1>1. SameRows(q) /\ RowsInv(q) /\ undeleted' \subseteq undeleted
  BY DEF NInv, RowsStep, SharedRows
<1>2. /\ Content(mirror'[q]) = Content(mirror[q]) /\ Content(cand'[q]) = Content(cand[q])
      /\ Content(base'[q]) = Content(base[q])
  BY <1>1 DEF SameRows
<1>3. /\ RowsGrow(mirror'[q]) /\ RowsGrow(cand'[q])
      /\ HasNotes(Content(mirror'[q]), undeleted')
      /\ HasNotes(snap'[q], undeleted')
      /\ HasNotes(Content(cand'[q]), undeleted')
  BY <1>1, <1>2 DEF RowsInv, SameRows, HasNotes
<1>4. ASSUME NEW e \in undeleted'
      PROVE  RowInv(q, e)' /\ (pstats'[q][e].n > 0 => NoteInv(q, e)')
  <2>1. e \in undeleted /\ e \in Entry
    BY <1>1, <1>4 DEF undeleted
  <2>2. RowInv(q, e) /\ (pstats[q][e].n > 0 => NoteInv(q, e))
    BY <1>1, <2>1 DEF RowsInv
  <2>3. Register(q, e) <= Register(q, e)' /\ Unshared(q, e)' = Unshared(q, e)
    BY <1>1, <1>4 DEF RowsStep, SharedRows, SameRows, Unshared, Landed
  <2>4. Register(q, e)' \in Nat
    BY <2>1, ContentType, CountType DEF Register, TypeOK
  <2>5. Register(q, e)' + Unshared(q, e)' >= bumped'[q][e]
    BY <1>1, <2>1, <2>2, <2>3, <2>4, RowTypes DEF RowInv, SameRows
  <2>6. View(q)' = View(q)
    BY <1>1 DEF View, SameRows
  <2> QED
    BY <1>1, <1>2, <2>2, <2>5, <2>6 DEF RowInv, NoteInv, SameRows
<1>5. pc'[q] = "gcPush" => \A e \in undeleted' : LeftOf(q, e)'
  BY <1>1, <1>2 DEF RowsInv, SameRows, LeftOf
<1> QED
  BY <1>1, <1>2, <1>3, <1>4, <1>5 DEF RowsInv, SameRows

-----------------------------------------------------------------------------
(* What the operators do to rows.                                          *)

\* Where ids are bounded, records of which there are some have a newest one.
LEMMA NewestIs ==
  ASSUME BoundedIds, NEW S \in SUBSET Record, S # {}
  PROVE  NewestOf(S) # {}
<1>1. Ids(S) \in SUBSET Nat /\ Ids(S) # {}
  BY RecordAssumption DEF Ids
<1>2. PICK b \in Nat : \A n \in Ids(S) : n <= b
  BY DEF BoundedIds, Ids
<1>3. PICK n \in Ids(S) : \A m \in Ids(S) : m <= n
  BY <1>1, <1>2, GreatestNumber
<1> QED
  BY <1>3 DEF Ids, NewestOf

\* A sweep leaves a living entry a note, and its rows.
LEMMA SweptRows ==
  ASSUME BoundedIds, NEW s \in StoreSet, NEW aged, NEW e \in Entry,
         ~Tombstoned(s.recs, e), Noted(s.recs, e)
  PROVE  /\ Noted(Swept(s, aged).recs, e)
         /\ \A r \in Replica : Swept(s, aged).stats[r][e] = s.stats[r][e]
<1>1. Notes(s.recs, e) \in SUBSET Record
  BY DEF StoreSet, Notes, OfEntry
<1>2. PICK x \in NewestOf(Notes(s.recs, e)) : TRUE
  BY <1>1, NewestIs DEF Noted
<1>3. x \in s.recs /\ x.entry = e /\ x.kind \in Note
  BY DEF NewestOf, Notes, OfEntry
<1>4. x \in KeptOf(s.recs, aged, e)
  BY DEF KeptOf, Pinned, Noted
<1>5. x \in Swept(s, aged).recs
  BY <1>3, <1>4 DEF Swept, KeptRecords
<1>6. \A r \in Replica : Swept(s, aged).stats[r][e] = s.stats[r][e]
  BY DEF Swept, Living, Noted
<1> QED
  BY <1>3, <1>5, <1>6 DEF Noted, Notes, OfEntry

\* A sweep leaves no row without a note.
LEMMA SweptHasNotes ==
  ASSUME BoundedIds, NEW s \in StoreSet, NEW aged, NEW L \in SUBSET Entry
  PROVE  HasNotes(Swept(s, aged), L)
<1> SUFFICES ASSUME NEW q \in Replica, NEW e \in L, Swept(s, aged).stats[q][e].n > 0
             PROVE  Noted(Swept(s, aged).recs, e)
  BY DEF HasNotes
<1>1. Living(s.recs, e)
  BY DEF Swept, ZeroRow
<1> QED
  BY <1>1, SweptRows DEF Living, Noted

\* A history goes on growing if its next store has no less than its last.
LEMMA CommitGrows ==
  ASSUME NEW s \in StoreSet, NEW tip \in Commit, NEW at \in CommitTime, RowsGrow(tip),
         NoLess(Content(tip), Content(StoreCommit(s, tip, at)))
  PROVE  RowsGrow(StoreCommit(s, tip, at))
<1> DEFINE new == Overlay(s, Content(tip))
           x == [tree |-> new, at |-> at]
           c == StoreCommit(s, tip, at)
<1>1. CASE c = tip
  BY <1>1
<1>2. CASE c # tip
  <2>1. c = Append(tip, x) /\ tip \in Seq(Tree)
    BY <1>2 DEF StoreCommit, Commit, Tree
  <2>2. c \in Commit
    BY StoreCommitType
  <2> HIDE DEF x
  <2>3. /\ Len(c) = Len(tip) + 1 /\ Len(tip) \in Nat
        /\ DOMAIN c = 1 .. Len(c) /\ DOMAIN tip = 1 .. Len(tip)
        /\ \A i \in 1 .. Len(tip) : c[i] = tip[i]
        /\ c # NoCommit
    BY <2>1 DEF NoCommit
  <2>4. Content(c) = c[Len(c)].tree
    BY <2>3 DEF Content
  <2> HIDE DEF c
  <2>5. SUFFICES ASSUME NEW i \in DOMAIN c, NEW j \in DOMAIN c, i <= j,
                        NEW q \in Replica, NEW e \in Entry
                 PROVE  c[i].tree.stats[q][e].n <= c[j].tree.stats[q][e].n
    BY DEF RowsGrow, NoLess, c
  <2>6. \A k \in DOMAIN c : c[k].tree \in StoreSet
    <3>1. c \in Seq(Tree)
      BY <2>2 DEF Commit, Tree
    <3>2. \A k \in DOMAIN c : c[k] \in Tree
      BY <2>3, <3>1, EltType
    <3> QED
      BY <3>2 DEF Tree
  <2>7. \A k \in DOMAIN c : c[k].tree.stats[q][e].n \in Nat
    BY <2>6, CountType
  <2>8. CASE j \in DOMAIN tip
    <3>1. i \in DOMAIN tip
      BY <2>3, <2>5, <2>8
    <3> QED
      BY <2>3, <2>5, <2>8, <3>1 DEF RowsGrow, NoLess
  <2>9. CASE i \notin DOMAIN tip
    <3>1. i = j
      BY <2>3, <2>5, <2>9
    <3> QED
      BY <2>7, <3>1
  <2>10. CASE i \in DOMAIN tip /\ j \notin DOMAIN tip
    <3>1. j = Len(c) /\ c[i] = tip[i] /\ i <= Len(tip) /\ Len(tip) \in DOMAIN tip
          /\ c[Len(tip)] = tip[Len(tip)] /\ Len(tip) \in DOMAIN c
      BY <2>3, <2>10
    <3>2. tip # NoCommit /\ Content(tip) = tip[Len(tip)].tree
      BY <2>3, <3>1 DEF NoCommit, Content
    <3>3. tip[i].tree.stats[q][e].n <= tip[Len(tip)].tree.stats[q][e].n
      BY <2>10, <3>1 DEF RowsGrow, NoLess
    <3>4. tip[Len(tip)].tree.stats[q][e].n <= c[j].tree.stats[q][e].n
      BY <2>4, <3>1, <3>2 DEF NoLess, c
    <3>5. /\ tip[i].tree.stats[q][e].n \in Nat
          /\ tip[Len(tip)].tree.stats[q][e].n \in Nat
          /\ c[j].tree.stats[q][e].n \in Nat
      BY <2>7, <3>1
    <3> QED
      BY <3>1, <3>3, <3>4, <3>5
  <2> QED
    BY <2>8, <2>9, <2>10
<1> QED
  BY <1>1, <1>2

\* A fast-forward along such a history makes no row shrink.
LEMMA ForwardRows ==
  ASSUME NEW old \in Commit, NEW new \in Commit, FastForward(old, new), RowsGrow(new)
  PROVE  NoLess(Content(old), Content(new))
<1>1. old \in Seq(Tree) /\ new \in Seq(Tree)
  BY DEF Commit, Tree
<1>2. CASE old = NoCommit
  <2>1. Content(new) \in StoreSet
    BY ContentType
  <2>2. ASSUME NEW q \in Replica, NEW e \in Entry
        PROVE  Content(old).stats[q][e].n <= Content(new).stats[q][e].n
    <3>1. Content(new).stats[q][e].n \in Nat
      BY <2>1, CountType
    <3> QED
      BY <1>2, <3>1 DEF Content, EmptySet, NoStats, ZeroRow
  <2> QED
    BY <2>2 DEF NoLess
<1>3. CASE old # NoCommit
  <2>1. /\ Len(old) \in 1 .. Len(old) /\ Len(old) <= Len(new)
        /\ Len(old) \in DOMAIN new /\ Len(new) \in DOMAIN new
        /\ new # NoCommit
    BY <1>1, <1>3 DEF FastForward, NoCommit
  <2>2. old[Len(old)] = new[Len(old)]
    BY <2>1 DEF FastForward
  <2> QED
    BY <1>3, <2>1, <2>2 DEF Content, RowsGrow
<1> QED
  BY <1>2, <1>3

\* What a sync would have the store hold comes with the records it counts.
LEMMA MergedCarries ==
  ASSUME TypeOK, NEW r \in Replica, NEW q \in Replica, NEW e \in Entry,
         snap[r].epoch <= Content(mirror[r]).epoch
  PROVE  LET s == snap[r]
             m == Content(mirror[r])
             delta == IF q = r THEN pstats[r][e].n ELSE 0
         IN  \/ Merged(r).stats[q][e].n = m.stats[q][e].n + delta
             \/ /\ Merged(r).stats[q][e].n = s.stats[q][e].n + delta
                /\ s.recs \subseteq Merged(r).recs
<1> DEFINE s == snap[r]
           m == Content(mirror[r])
           u == Merge(s, m)
<1>1. s \in StoreSet /\ m \in StoreSet /\ u \in StoreSet
  BY Stores, MergeType
<1>2. Merged(r) = WithOwn(u, own[r], pblobs[r], r, pstats[r])
  BY DEF Merged
<1>3. CASE s.epoch = m.epoch
  <2>1. u.recs = MergeRecords(s.recs, m.recs)
    BY <1>3 DEF Merge
  <2>2. \A x, y \in s.recs \cup m.recs : x.id = y.id => x = y
    BY <1>1, UniqueIds DEF StoreSet
  <2>3. \A x \in s.recs : x.data <= x.data
    BY <1>1, RecordAssumption DEF StoreSet
  <2>4. s.recs \subseteq u.recs
    BY <2>1, <2>2, <2>3 DEF MergeRecords
  <2> HIDE DEF u
  <2>5. s.recs \subseteq Merged(r).recs
    BY <1>1, <1>2, <2>4 DEF WithOwn, AddAbsent, StoreSet
  <2> QED
    BY <2>5, MergedCounts
<1>4. CASE s.epoch # m.epoch
  <2>1. s.epoch < m.epoch
    BY <1>1, <1>4 DEF StoreSet
  <2>2. u = m
    BY <1>1, <2>1 DEF Merge, StoreSet
  <2> HIDE DEF u
  <2>3. Merged(r).stats[q] = IF q = r THEN AddStats(m.stats[r], pstats[r]) ELSE m.stats[q]
    BY <1>1, <1>2, <2>2 DEF WithOwn, StoreSet
  <2>4. m.stats[q][e].n \in Nat
    BY <1>1, CountType
  <2>5. CASE q = r
    BY <2>3, <2>5 DEF AddStats
  <2>6. CASE q # r
    BY <2>3, <2>4, <2>6
  <2> QED
    BY <2>5, <2>6
<1> QED
  BY <1>3, <1>4

-----------------------------------------------------------------------------
(* What the steps do to rows.                                              *)

\* Entries only get deleted.
LEMMA FewerLeft ==
  ASSUME acked \subseteq acked'
  PROVE  undeleted' \subseteq undeleted
BY DEF undeleted, Tombstoned, OfEntry

\* What is safe of an undeleted entry's notes, a note is shared for.
LEMMA SharedNotes ==
  ASSUME IInv, NInv, NEW q \in Replica, NEW e \in undeleted
  PROVE  /\ Noted(Content(mirror[q]).recs, e) => Noted(Shared, e)
         /\ pc[q] = "gcUpdate" /\ Noted(Content(cand[q]).recs, e) => Noted(Shared, e)
<1>1. ASSUME NEW R, R \subseteq Safe, Noted(R, e)
      PROVE  Noted(Shared, e)
  <2>1. PICK x \in R : x.kind \in Note /\ x.entry = e
    BY <1>1 DEF Noted, Notes, OfEntry
  <2>2. CASE x \in Shared
    BY <2>1, <2>2 DEF Noted, Notes, OfEntry
  <2>3. CASE x \in dropped
    BY <2>1, <2>3 DEF NInv, DropsInv
  <2> QED
    BY <1>1, <2>2, <2>3 DEF Safe
<1> QED
  BY <1>1 DEF IInv, CloneInv

\* The candidate that a sync builds counts all that the mirror counts, and the
\* deltas; it has a note for all that it counts, and every record of the view.
LEMMA BuildRows ==
  ASSUME TypeOK, BInv, NInv, NEW r \in Replica, pc[r] = "build", NEW at \in CommitTime
  PROVE  LET c == StoreCommit(Merged(r), mirror[r], at)
             m == Content(mirror[r])
         IN  /\ RowsGrow(c) /\ HasNotes(Content(c), undeleted)
             /\ View(r) \subseteq Content(c).recs
             /\ \A e \in Entry : /\ Content(c).stats[r][e].n \in Nat
                                 /\ Content(c).stats[r][e].n >= m.stats[r][e].n + pstats[r][e].n
<1> DEFINE c == StoreCommit(Merged(r), mirror[r], at)
           m == Content(mirror[r])
           delta(q, e) == IF q = r THEN pstats[r][e].n ELSE 0
<1>1. /\ mirror[r] \in Commit /\ m \in StoreSet /\ snap[r] \in StoreSet
      /\ Merged(r) \in StoreSet /\ own[r] \subseteq Merged(r).recs
  BY Stores, MergedHoldsOwn DEF TypeOK
<1>2. Content(c) \in StoreSet
  BY <1>1, StoreCommitType, ContentType
<1>3. Content(c).recs = m.recs \cup Merged(r).recs
  BY <1>1, CommitIs
<1>4. RowsInv(r) /\ snap[r].epoch <= m.epoch
  BY DEF NInv, RowsInv
<1>5. own[r] = pending[r]
  BY DEF BInv, BlobsInv
<1>6. ASSUME NEW q \in Replica, NEW e \in Entry
      PROVE  /\ Content(c).stats[q][e].n >= m.stats[q][e].n + delta(q, e)
             /\ \/ Content(c).stats[q][e].n = m.stats[q][e].n
                \/ Content(c).stats[q][e].n = m.stats[q][e].n + delta(q, e)
                \/ /\ Content(c).stats[q][e].n = snap[r].stats[q][e].n + delta(q, e)
                   /\ snap[r].recs \subseteq Content(c).recs
  <2>1. /\ m.stats[q][e].n \in Nat /\ Content(c).stats[q][e].n \in Nat
        /\ Merged(r).stats[q][e].n \in Nat
    BY <1>1, <1>2, CountType
  <2>2. delta(q, e) \in Nat
    BY RowTypes
  <2>3. Merged(r).stats[q][e].n >= m.stats[q][e].n + delta(q, e)
    BY <1>4, MergedCounts
  <2>4. \/ Merged(r).stats[q][e].n = m.stats[q][e].n + delta(q, e)
        \/ /\ Merged(r).stats[q][e].n = snap[r].stats[q][e].n + delta(q, e)
           /\ snap[r].recs \subseteq Merged(r).recs
    BY <1>4, MergedCarries
  <2>5. Content(c).stats[q] =
          IF Merged(r).stats[q] = NoStats THEN m.stats[q] ELSE Merged(r).stats[q]
    BY <1>1, CommitCounts
  <2> HIDE DEF c, delta, m
  <2>6. CASE Merged(r).stats[q] = NoStats
    <3>1. Merged(r).stats[q][e].n = 0
      BY <2>6 DEF NoStats, ZeroRow
    <3> QED
      BY <2>1, <2>2, <2>3, <2>5, <2>6, <3>1
  <2>7. CASE Merged(r).stats[q] # NoStats
    BY <1>3, <2>3, <2>4, <2>5, <2>7
  <2> QED
    BY <2>6, <2>7
<1>7. NoLess(m, Content(c))
  <2> SUFFICES ASSUME NEW q \in Replica, NEW e \in Entry
               PROVE  m.stats[q][e].n <= Content(c).stats[q][e].n
    BY DEF NoLess
  <2>1. /\ m.stats[q][e].n \in Nat /\ Content(c).stats[q][e].n \in Nat /\ delta(q, e) \in Nat
    BY <1>1, <1>2, CountType, RowTypes
  <2>2. Content(c).stats[q][e].n >= m.stats[q][e].n + delta(q, e)
    BY <1>6
  <2> HIDE DEF c, delta, m
  <2> QED
    BY <2>1, <2>2
<1>8. RowsGrow(c)
  BY <1>1, <1>4, <1>7, CommitGrows DEF RowsInv
<1>9. View(r) \subseteq Content(c).recs
  BY <1>1, <1>3, <1>5 DEF View
<1>10. HasNotes(Content(c), undeleted)
  <2> SUFFICES ASSUME NEW q \in Replica, NEW e \in undeleted, Content(c).stats[q][e].n > 0
               PROVE  Noted(Content(c).recs, e)
    BY DEF HasNotes
  <2>1. e \in Entry
    BY DEF undeleted
  <2>2. /\ m.stats[q][e].n \in Nat /\ snap[r].stats[q][e].n \in Nat /\ delta(q, e) \in Nat
    BY <1>1, <2>1, CountType, RowTypes
  <2>3. \/ m.stats[q][e].n > 0
        \/ delta(q, e) > 0
        \/ snap[r].stats[q][e].n > 0 /\ snap[r].recs \subseteq Content(c).recs
    <3>1. \/ Content(c).stats[q][e].n = m.stats[q][e].n
          \/ Content(c).stats[q][e].n = m.stats[q][e].n + delta(q, e)
          \/ /\ Content(c).stats[q][e].n = snap[r].stats[q][e].n + delta(q, e)
             /\ snap[r].recs \subseteq Content(c).recs
      BY <1>6, <2>1
    <3> HIDE DEF c, delta, m
    <3> QED
      BY <2>2, <3>1
  <2>4. CASE m.stats[q][e].n > 0
    <3>1. Noted(m.recs, e)
      BY <1>4, <2>4 DEF RowsInv, HasNotes
    <3> QED
      BY <1>3, <3>1 DEF Noted, Notes, OfEntry
  <2>5. CASE delta(q, e) > 0
    <3>1. Noted(View(r), e)
      BY <1>4, <2>5 DEF RowsInv, NoteInv
    <3> QED
      BY <1>9, <3>1 DEF Noted, Notes, OfEntry
  <2>6. CASE snap[r].stats[q][e].n > 0 /\ snap[r].recs \subseteq Content(c).recs
    <3>1. Noted(snap[r].recs, e)
      BY <1>4, <2>6 DEF RowsInv, HasNotes
    <3> QED
      BY <2>6, <3>1 DEF Noted, Notes, OfEntry
  <2> QED
    BY <2>3, <2>4, <2>5, <2>6
<1>11. ASSUME NEW e \in Entry
       PROVE  /\ Content(c).stats[r][e].n \in Nat
              /\ Content(c).stats[r][e].n >= m.stats[r][e].n + pstats[r][e].n
  BY <1>2, <1>6, CountType
<1> QED
  BY <1>8, <1>9, <1>10, <1>11

\* Where the remote stays, nothing on it is disturbed.
LEMMA RemoteRows ==
  ASSUME TypeOK, NInv, UNCHANGED <<remote, dropped>>, acked \subseteq acked'
  PROVE  SharedRows
<1>1. undeleted' \subseteq undeleted
  BY FewerLeft
<1>2. DropsInv'
  BY <1>1 DEF NInv, DropsInv, Shared
<1>3. \A q \in Replica, e \in undeleted' : Register(q, e) <= Register(q, e)'
  BY <1>1, RowTypes DEF Register, undeleted
<1> QED
  BY <1>1, <1>2, <1>3 DEF SharedRows, NInv, HasNotes

\* What a push lands counts all that the remote counted.
LEMMA PushRows ==
  ASSUME TypeOK, IInv, NInv, NEW p \in Replica, UNCHANGED <<dropped, authored>>,
         FastForward(remote, cand[p]), remote' = cand[p]
  PROVE  SharedRows
<1>1. undeleted' = undeleted
  BY DEF undeleted, acked
<1>2. remote \in Commit /\ cand[p] \in Commit /\ Grows(cand[p]) /\ RowsInv(p)
  BY DEF TypeOK, IInv, CloneInv, NInv
<1>3. Shared \subseteq Shared' /\ NoLess(Content(remote), Content(remote'))
  BY <1>2, ForwardKeeps, ForwardRows DEF Shared, RowsInv
<1>4. DropsInv'
  BY <1>1, <1>3 DEF NInv, DropsInv, Noted, Notes, OfEntry
<1>5. \A q \in Replica, e \in undeleted' : Register(q, e) <= Register(q, e)'
  BY <1>3 DEF NoLess, Register, undeleted
<1> QED
  BY <1>1, <1>2, <1>4, <1>5 DEF SharedRows, RowsInv

\* What a compaction lands counts as much of the entries that are left.
LEMMA LeaseRows ==
  ASSUME TypeOK, NInv, NEW p \in Replica, UNCHANGED authored, pc[p] = "gcPush", Lease(p),
         remote' = cand[p], dropped' = dropped \cup Drops(p)
  PROVE  SharedRows
<1>1. undeleted' = undeleted /\ undeleted \subseteq Entry
  BY DEF undeleted, acked
<1>2. RowsInv(p) /\ \A e \in undeleted : LeftOf(p, e)
  BY DEF NInv, RowsInv
<1>3. ASSUME NEW e \in undeleted, Noted(Shared, e)
      PROVE  Noted(Shared', e)
  BY <1>2, <1>3 DEF Lease, LeftOf, Shared
<1>4. DropsInv'
  <2> SUFFICES ASSUME NEW x \in dropped', x.kind \in Note, x.entry \in undeleted
               PROVE  Noted(Shared', x.entry)
    BY <1>1 DEF DropsInv
  <2>1. CASE x \in dropped
    BY <1>3, <2>1 DEF NInv, DropsInv
  <2>2. CASE x \in Drops(p)
    <3>1. Noted(Content(base[p]).recs, x.entry)
      BY <2>2 DEF Drops, Noted, Notes, OfEntry
    <3> QED
      BY <1>2, <3>1 DEF LeftOf, Shared
  <2> QED
    BY <2>1, <2>2
<1>5. ASSUME NEW q \in Replica, NEW e \in undeleted'
      PROVE  Register(q, e) <= Register(q, e)'
  <2>1. Register(q, e) \in Nat /\ Content(cand[p]).stats[q][e].n \in Nat
    BY <1>1, RowTypes, Stores, CountType
  <2>2. Register(q, e)' = Content(cand[p]).stats[q][e].n
    BY DEF Register
  <2>3. CASE remote = cand[p]
    BY <2>1, <2>2, <2>3 DEF Register
  <2>4. CASE remote = base[p] /\ Register(q, e) > 0
    <3>1. Noted(Shared, e)
      BY <1>1, <2>4 DEF NInv, HasNotes, Register, Shared
    <3>2. Content(cand[p]).stats[q][e].n = Register(q, e)
      BY <1>1, <1>2, <2>4, <3>1 DEF LeftOf, Shared, Register
    <3> QED
      BY <2>1, <2>2, <3>2
  <2>5. CASE Register(q, e) = 0
    BY <2>1, <2>2, <2>5
  <2> QED
    BY <2>1, <2>3, <2>4, <2>5 DEF Lease
<1> QED
  BY <1>1, <1>2, <1>4, <1>5 DEF SharedRows, RowsInv

\* An invocation that is over leaves a mirror and deltas to speak of.
LEMMA ExitRows ==
  ASSUME TypeOK, TypeOK', ~InitBeside, RInv, NInv, NEW p \in Replica, Exit(p), pc[p] # "idle",
         SharedRows, UNCHANGED <<inited, pending, bumped, pstats>>,
         \A q \in Replica \ {p} : mirror'[q] = mirror[q],
         \/ mirror'[p] = mirror[p]
         \/ pc[p] = "gcUpdate" /\ mirror'[p] = cand[p]
  PROVE  RowsStep(p)
<1>1. /\ pc'[p] = "idle" /\ snap'[p] = EmptySet /\ cand'[p] = NoCommit
      /\ \A q \in Replica \ {p} : SameRows(q)
  BY DEF Exit, TypeOK, SameRows
<1>2. inited[p] # "creating" /\ RowsInv(p)
  BY DEF RInv, ReadsInv, NInv
<1>3. /\ RowsGrow(mirror'[p]) /\ RowsGrow(NoCommit)
      /\ HasNotes(Content(mirror'[p]), undeleted')
      /\ HasNotes(EmptySet, undeleted') /\ Content(NoCommit) = EmptySet
  <2>1. RowsGrow(mirror'[p]) /\ HasNotes(Content(mirror'[p]), undeleted)
    BY <1>2 DEF RowsInv
  <2>2. RowsGrow(NoCommit) /\ Content(NoCommit) = EmptySet
    BY DEF RowsGrow, NoCommit, Content
  <2>3. HasNotes(EmptySet, undeleted)
    BY DEF HasNotes, EmptySet, NoStats, ZeroRow, undeleted
  <2> QED
    BY <2>1, <2>2, <2>3 DEF HasNotes, SharedRows
<1>4. ASSUME NEW e \in undeleted'
      PROVE  RowInv(p, e)' /\ (pstats'[p][e].n > 0 => NoteInv(p, e)')
  <2>1. e \in undeleted /\ e \in Entry
    BY <1>4 DEF SharedRows, undeleted
  <2>2. RowInv(p, e) /\ (pstats[p][e].n > 0 => NoteInv(p, e))
    BY <1>2, <2>1 DEF RowsInv
  <2>3. Register(p, e) <= Register(p, e)' /\ Unshared(p, e)' = pstats[p][e].n
    BY <1>1, <1>4 DEF SharedRows, Unshared, Landed
  <2>4. /\ Register(p, e)' \in Nat /\ Content(mirror'[p]).stats[p][e].n \in Nat
        /\ Unshared(p, e) <= pstats[p][e].n
    BY <2>1, ContentType, CountType, RowTypes DEF Register, TypeOK, Unshared
  <2>5. RowInv(p, e)'
    <3>1. Register(p, e)' + pstats[p][e].n >= bumped[p][e]
      BY <2>1, <2>2, <2>3, <2>4, RowTypes DEF RowInv
    <3>2. Content(mirror'[p]).stats[p][e].n + pstats[p][e].n >= bumped[p][e]
      BY <2>1, <2>2, <2>4, RowTypes DEF RowInv
    <3> QED
      BY <1>1, <1>2, <2>3, <3>1, <3>2 DEF RowInv
  <2>6. pstats[p][e].n > 0 => NoteInv(p, e)'
    <3>1. NoteInv(p, e) => Noted(Content(mirror'[p]).recs \cup pending[p], e)
      BY DEF NoteInv, View
    <3> QED
      BY <1>1, <1>2, <2>2, <3>1 DEF NoteInv, View
  <2> QED
    BY <2>5, <2>6
<1>5. RowsInv(p)'
  BY <1>1, <1>3, <1>4 DEF RowsInv
<1> QED
  BY <1>1, <1>5 DEF RowsStep

\* A fetch brings a mirror that counts as much, and has a note where it had one.
LEMMA FetchRows ==
  ASSUME TypeOK, IInv, PInv, NInv, NEW p \in Replica, FetchInto(p)
  PROVE  /\ \A q \in Replica \ {p} : mirror'[q] = mirror[q]
         /\ RowsGrow(mirror'[p]) /\ HasNotes(Content(mirror'[p]), undeleted)
         /\ Content(mirror[p]).epoch <= Content(mirror'[p]).epoch
         /\ \A e \in undeleted :
              /\ Content(mirror'[p]).stats[p][e].n
                   + (IF pc[p] = "clear" THEN 0 ELSE pstats[p][e].n) >= bumped[p][e]
              /\ Noted(Content(mirror[p]).recs, e) => Noted(Content(mirror'[p]).recs, e)
<1>1. /\ mirror'[p] = mirror[p] \/ mirror'[p] = remote
      /\ \A q \in Replica \ {p} : mirror'[q] = mirror[q]
  BY DEF FetchInto, TypeOK
<1>2. RowsInv(p)
  BY DEF NInv
<1>3. CASE mirror'[p] = mirror[p]
  <2>1. Content(mirror[p]).epoch \in Nat
    BY Stores DEF StoreSet
  <2> QED
    BY <1>1, <1>2, <1>3, <2>1 DEF RowsInv, RowInv
<1>4. CASE mirror'[p] = remote
  <2>1. Earlier(Content(mirror[p]), Content(remote))
    BY DEF PInv, FollowsInv
  <2>2. Content(mirror[p]).epoch <= Content(remote).epoch
    BY <2>1, Stores DEF Earlier, StoreSet
  <2>3. ASSUME NEW e \in undeleted
        PROVE  /\ Content(remote).stats[p][e].n
                    + (IF pc[p] = "clear" THEN 0 ELSE pstats[p][e].n) >= bumped[p][e]
               /\ Noted(Content(mirror[p]).recs, e) => Noted(Content(remote).recs, e)
    <3>1. Register(p, e) + Unshared(p, e) >= bumped[p][e] /\ e \in Entry
      BY <1>2, <2>3 DEF RowsInv, RowInv, undeleted
    <3>2. Unshared(p, e) <= IF pc[p] = "clear" THEN 0 ELSE pstats[p][e].n
      BY <3>1, RowTypes DEF Unshared, Landed
    <3>3. Register(p, e) + (IF pc[p] = "clear" THEN 0 ELSE pstats[p][e].n) >= bumped[p][e]
      BY <3>1, <3>2, RowTypes
    <3> QED
      BY <2>3, <3>3, SharedNotes DEF Register, Shared
  <2> QED
    BY <1>1, <1>4, <2>2, <2>3 DEF NInv
<1> QED
  BY <1>1, <1>3, <1>4

\* Where a clone keeps its rows, it keeps the invariant of them, wherever the
\* invocation goes on to from where it holds no candidate.
LEMMA RowsGoOn ==
  ASSUME TypeOK, TypeOK', NInv, NEW p \in Replica, SharedRows,
         UNCHANGED <<cand, base, pstats, bumped>>,
         Landed(p)' <=> Landed(p), pc'[p] = "clear" <=> pc[p] = "clear",
         pc'[p] \in {"push", "update", "gcPush", "gcUpdate"} => pc'[p] = pc[p],
         pc'[p] \in {"fetch", "mint", "build", "push", "refetch"} =>
           \/ pc[p] \in {"fetch", "mint", "build", "push", "refetch"} /\ snap'[p] = snap[p]
           \/ snap'[p] = Content(mirror'[p]),
         snap'[p] = snap[p] \/ snap'[p] = Content(mirror'[p]),
         RowsGrow(mirror'[p]), HasNotes(Content(mirror'[p]), undeleted),
         Content(mirror[p]).epoch <= Content(mirror'[p]).epoch,
         \A e \in undeleted :
           /\ Content(mirror'[p]).stats[p][e].n
                + (IF pc[p] = "clear" THEN 0 ELSE pstats[p][e].n) >= bumped[p][e]
           /\ Noted(Content(mirror[p]).recs, e) => Noted(Content(mirror'[p]).recs, e),
         pending[p] \subseteq pending'[p] \/ pc[p] = "clear",
         inited'[p] = "creating" =>
           pc[p] = "idle" /\ (inited[p] = "creating" \/ mirror'[p] = NoCommit)
  PROVE  RowsInv(p)'
<1>1. RowsInv(p) /\ undeleted' \subseteq undeleted /\ undeleted \subseteq Entry
  BY DEF NInv, SharedRows, undeleted
<1>2. /\ RowsGrow(mirror'[p]) /\ RowsGrow(cand'[p])
      /\ HasNotes(Content(mirror'[p]), undeleted') /\ HasNotes(snap'[p], undeleted')
      /\ HasNotes(Content(cand'[p]), undeleted')
  BY <1>1 DEF RowsInv, HasNotes
<1>3. ASSUME NEW e \in undeleted'
      PROVE  RowInv(p, e)'
  <2>1. e \in undeleted /\ e \in Entry /\ RowInv(p, e)
    BY <1>1, <1>3 DEF RowsInv
  <2>2. Register(p, e) <= Register(p, e)' /\ Unshared(p, e)' = Unshared(p, e)
    BY <1>3 DEF SharedRows, Unshared
  <2>3. Register(p, e)' \in Nat
    BY <2>1, ContentType, CountType DEF Register, TypeOK
  <2>4. Register(p, e)' + Unshared(p, e)' >= bumped'[p][e]
    BY <2>1, <2>2, <2>3, RowTypes DEF RowInv
  <2>5. inited'[p] = "creating" => pstats[p][e].n >= bumped[p][e]
    <3>1. CASE inited[p] = "creating"
      BY <2>1, <3>1 DEF RowInv
    <3>2. CASE mirror'[p] = NoCommit /\ pc[p] = "idle"
      <4>1. Content(mirror'[p]).stats[p][e].n = 0
        BY <2>1, <3>2 DEF Content, EmptySet, NoStats, ZeroRow
      <4> QED
        BY <2>1, <3>2, <4>1, RowTypes
    <3> QED
      BY <3>1, <3>2
  <2> QED
    BY <2>1, <2>4, <2>5 DEF RowInv
<1>4. ASSUME NEW e \in undeleted', pstats'[p][e].n > 0
      PROVE  NoteInv(p, e)'
  <2>1. e \in undeleted /\ NoteInv(p, e)
    BY <1>1, <1>4 DEF RowsInv
  <2>2. Noted(Content(mirror[p]).recs, e) => Noted(Content(mirror'[p]).recs, e)
    BY <2>1
  <2>3. Noted(View(p), e)'
    <3>1. pc[p] = "clear" => Noted(Content(mirror'[p]).recs, e)
      BY <2>1, <2>2 DEF NoteInv
    <3> QED
      BY <2>1, <2>2, <3>1 DEF NoteInv, View, Noted, Notes, OfEntry
  <2>4. inited'[p] = "creating" => Noted(pending'[p], e)
    <3>1. CASE mirror'[p] = NoCommit
      BY <2>3, <3>1 DEF View, Noted, Notes, OfEntry, Content, EmptySet
    <3>2. CASE inited[p] = "creating" /\ pending[p] \subseteq pending'[p]
      BY <2>1, <3>2 DEF NoteInv, Noted, Notes, OfEntry
    <3> QED
      BY <3>1, <3>2
  <2>5. pc'[p] \in {"gcPush", "gcUpdate"} => Noted(Content(cand'[p]).recs \cup pending'[p], e)
    BY <2>1 DEF NoteInv, Noted, Notes, OfEntry
  <2> QED
    BY <2>1, <2>2, <2>3, <2>4, <2>5 DEF NoteInv
<1>5. pc'[p] \in {"fetch", "mint", "build", "push", "refetch"} =>
        snap'[p].epoch <= Content(mirror'[p]).epoch
  <2>1. /\ Content(mirror[p]).epoch \in Nat /\ snap[p].epoch \in Nat
        /\ Content(mirror'[p]).epoch \in Nat
    BY Stores, ContentType DEF StoreSet, TypeOK
  <2> QED
    BY <1>1, <2>1 DEF RowsInv
<1>6. pc'[p] = "gcPush" => \A e \in undeleted' : LeftOf(p, e)'
  BY <1>1 DEF RowsInv, LeftOf
<1> QED
  BY <1>2, <1>3, <1>4, <1>5, <1>6 DEF RowsInv

\* Every step there is, is such a step of a clone.
LEMMA EveryStepRows ==
  ASSUME BoundedIds, ~InitBeside, TypeOK, TypeOK', IInv, PInv, RInv, BInv, BInv', NInv, Next
  PROVE  \E p \in Replica : RowsStep(p)
<1> DEFINE Kept(p) == \A e \in undeleted :
             /\ Content(mirror[p]).stats[p][e].n
                  + (IF pc[p] = "clear" THEN 0 ELSE pstats[p][e].n) >= bumped[p][e]
             /\ Noted(Content(mirror[p]).recs, e) => Noted(Content(mirror[p]).recs, e)
<1>a. \A p \in Replica : /\ RowsInv(p) /\ Kept(p)
                         /\ RowsGrow(mirror[p]) /\ HasNotes(Content(mirror[p]), undeleted)
                         /\ Content(mirror[p]).epoch <= Content(mirror[p]).epoch
  BY Stores DEF NInv, RowsInv, RowInv, StoreSet
<1>b. \A p \in Replica : inited[p] = "creating" => pc[p] = "idle"
  BY DEF RInv, ReadsInv
<1> HIDE DEF Kept
<1>1. ASSUME NEW p \in Replica,
             \/ DmInitFails(p) \/ ClearRecord(p) \/ ClearBlob(p)
             \/ \E x \in Record : Write(p, x) \/ WriteDies(p, x)
      PROVE  RowsStep(p)
  <2>1. UNCHANGED <<remote, mirror, cand, base, snap, pc, pstats, bumped, dropped>>
    BY <1>1 DEF DmInitFails, ClearRecord, ClearBlob, Write, WriteDies, session, ghosts
  <2>2. /\ inited'[p] \in {inited[p], "yes"}
        /\ \A q \in Replica \ {p} : inited'[q] = inited[q]
    BY <1>1 DEF DmInitFails, ClearRecord, ClearBlob, Write, WriteDies, TypeOK
  <2>3. /\ pending[p] \subseteq pending'[p] \/ pc[p] = "clear"
        /\ \A q \in Replica \ {p} : pending'[q] = pending[q]
    BY <1>1 DEF DmInitFails, ClearRecord, ClearBlob, Write, WriteDies, TypeOK
  <2>4. acked \subseteq acked'
    <3>1. \/ authored' = authored
          \/ \E x \in Record : authored' = [authored EXCEPT ![p] = @ \cup {x}]
      BY <1>1 DEF DmInitFails, ClearRecord, ClearBlob, Write, WriteDies, ghosts
    <3>a. DOMAIN authored = Replica
      BY DEF TypeOK
    <3>2. ASSUME NEW q \in Replica PROVE authored[q] \subseteq authored'[q]
      <4>1. authored' = authored \/ authored'[q] = authored[q]
            \/ \E x \in Record : authored'[q] = authored[q] \cup {x}
        BY <3>1, <3>a
      <4> QED
        BY <4>1
    <3> QED
      BY <3>2 DEF acked
  <2>5. SharedRows
    BY <2>1, <2>4, RemoteRows
  <2>6. RowsInv(p)'
    BY <1>a, <1>b, <2>1, <2>2, <2>3, <2>5, RowsGoOn DEF Landed, Kept
  <2> QED
    BY <2>1, <2>2, <2>3, <2>5, <2>6 DEF RowsStep, SameRows
<1>2. ASSUME NEW p \in Replica, Mint(p)
      PROVE  RowsStep(p)
  <2>1. /\ UNCHANGED <<remote, mirror, inited, cand, base, snap, pstats, bumped, dropped>>
        /\ pc[p] = "mint" /\ pc'[p] = "build" /\ \A q \in Replica \ {p} : pc'[q] = pc[q]
    BY <1>2 DEF Mint, Goto, TypeOK
  <2>2. pending[p] \subseteq pending'[p] /\ \A q \in Replica \ {p} : pending'[q] = pending[q]
    BY <1>2 DEF Mint, TypeOK
  <2>3. acked \subseteq acked'
    <3>1. \A q \in Replica : authored[q] \subseteq authored'[q]
      BY <1>2 DEF Mint, TypeOK
    <3> QED
      BY <3>1 DEF acked
  <2>4. SharedRows
    BY <2>1, <2>3, RemoteRows
  <2>5. RowsInv(p)'
    BY <1>a, <1>b, <2>1, <2>2, <2>4, RowsGoOn DEF Landed, Kept
  <2> QED
    BY <2>1, <2>2, <2>4, <2>5 DEF RowsStep, SameRows
<1>3. ASSUME NEW p \in Replica,
             DmInit(p) \/ GitFetch(p) \/ SyncFetch(p) \/ Refetch(p) \/ GcFetch(p)
      PROVE  RowsStep(p)
  <2>1. /\ UNCHANGED <<remote, cand, base, snap, pending, pstats, bumped, authored, dropped>>
        /\ UNCHANGED mirror \/ FetchInto(p)
    BY <1>3 DEF DmInit, GitFetch, SyncFetch, Refetch, GcFetch, session, ghosts
  <2>2. /\ \/ pc' = pc
           \/ pc[p] \in {"fetch", "refetch"} /\ pc'[p] \in {"mint", "build"}
           \/ pc[p] \in {"gcFetch", "gcRefetch"} /\ pc'[p] = "gcSweep"
        /\ \A q \in Replica \ {p} : pc'[q] = pc[q]
    BY <1>3 DEF DmInit, GitFetch, SyncFetch, Refetch, GcFetch, Goto, session, TypeOK
  <2>3. /\ inited'[p] = "creating" =>
             \/ inited'[p] = inited[p]
             \/ mirror'[p] = NoCommit /\ pc[p] = "idle"
        /\ \A q \in Replica \ {p} : inited'[q] = inited[q]
    <3>1. CASE DmInit(p) /\ mirror[p] = NoCommit /\ ~RemoteStore(p)
      BY <3>1 DEF DmInit, TypeOK
    <3>2. CASE DmInit(p) /\ ~(mirror[p] = NoCommit /\ ~RemoteStore(p))
      BY <3>2 DEF DmInit, TypeOK
    <3>3. CASE ~DmInit(p)
      BY <1>3, <3>3 DEF GitFetch, SyncFetch, Refetch, GcFetch, TypeOK
    <3> QED
      BY <3>1, <3>2, <3>3
  <2>4. acked' = acked
    BY <2>1 DEF acked
  <2>5. SharedRows
    BY <2>1, <2>4, RemoteRows
  <2>6. /\ \A q \in Replica \ {p} : mirror'[q] = mirror[q]
        /\ RowsGrow(mirror'[p]) /\ HasNotes(Content(mirror'[p]), undeleted)
        /\ Content(mirror[p]).epoch <= Content(mirror'[p]).epoch
        /\ \A e \in undeleted :
             /\ Content(mirror'[p]).stats[p][e].n
                  + (IF pc[p] = "clear" THEN 0 ELSE pstats[p][e].n) >= bumped[p][e]
             /\ Noted(Content(mirror[p]).recs, e) => Noted(Content(mirror'[p]).recs, e)
    <3>1. CASE UNCHANGED mirror
      BY <1>a, <3>1 DEF Kept
    <3>2. CASE FetchInto(p)
      BY <3>2, FetchRows
    <3> QED
      BY <2>1, <3>1, <3>2
  <2>7. RowsInv(p)'
    BY <1>b, <2>1, <2>2, <2>3, <2>5, <2>6, RowsGoOn DEF Landed
  <2> QED
    BY <2>1, <2>2, <2>3, <2>5, <2>6, <2>7 DEF RowsStep, SameRows
<1>4. ASSUME NEW p \in Replica,
             \/ SyncOpen(p) \/ SyncOpenSkipping(p) \/ GcOpen(p) \/ GcOpenSkipping(p)
             \/ PushRejected(p) \/ GcRejected(p)
      PROVE  RowsStep(p)
  <2>1. /\ UNCHANGED <<remote, mirror, inited, pending, cand, base, pstats, bumped, authored, dropped>>
        /\ inited[p] = "yes" \/ pc[p] # "idle"
    BY <1>4 DEF SyncOpen, SyncOpenSkipping, Open, GcOpen, GcOpenSkipping, OpenGc, Initialized,
                PushRejected, GcRejected, Goto, clone, ghosts
  <2>2. \/ /\ pc[p] = "idle" /\ pc'[p] \in {"fetch", "mint"}
           /\ snap' = [snap EXCEPT ![p] = Content(mirror[p])]
        \/ /\ pc[p] \in {"idle", "gcPush"} /\ pc'[p] \in {"gcFetch", "gcSweep", "gcRefetch"}
           /\ snap' = snap
        \/ pc[p] = "push" /\ pc'[p] = "refetch" /\ snap' = snap
    BY <1>4 DEF SyncOpen, SyncOpenSkipping, Open, GcOpen, GcOpenSkipping, OpenGc,
                PushRejected, GcRejected, Goto, TypeOK
  <2>3. \A q \in Replica \ {p} : pc'[q] = pc[q] /\ snap'[q] = snap[q]
    BY <1>4, <2>2 DEF SyncOpen, SyncOpenSkipping, GcOpen, GcOpenSkipping,
                      PushRejected, GcRejected, Goto, TypeOK
  <2>4. \/ /\ pc[p] = "idle" /\ pc'[p] \in {"fetch", "mint"}
           /\ snap'[p] = Content(mirror[p])
        \/ /\ pc[p] \in {"idle", "gcPush"} /\ pc'[p] \in {"gcFetch", "gcSweep", "gcRefetch"}
           /\ snap'[p] = snap[p]
        \/ pc[p] = "push" /\ pc'[p] = "refetch" /\ snap'[p] = snap[p]
    BY <2>2 DEF TypeOK
  <2>5. acked' = acked
    BY <2>1 DEF acked
  <2>6. SharedRows
    BY <2>1, <2>5, RemoteRows
  <2>7. RowsInv(p)'
    BY <1>a, <1>b, <2>1, <2>4, <2>6, RowsGoOn DEF Landed, Kept
  <2> QED
    BY <2>1, <2>3, <2>6, <2>7 DEF RowsStep, SameRows
<1>5. ASSUME NEW p \in Replica, CreateStore(p)
      PROVE  RowsStep(p)
  <2>1. /\ UNCHANGED <<remote, cand, base, snap, pc, pending, pstats, bumped, authored, dropped>>
        /\ pc[p] = "idle" /\ inited[p] = "creating"
    BY <1>5, <1>b DEF CreateStore, session, ghosts
  <2>2. PICK at \in CommitTime :
          mirror' = [mirror EXCEPT ![p] = StoreCommit(EmptySet, NoCommit, at)]
    BY <1>5 DEF CreateStore
  <2> DEFINE c == StoreCommit(EmptySet, NoCommit, at)
  <2>3. /\ Content(c).recs = {} /\ \A q \in Replica : Content(c).stats[q] = NoStats
        /\ Content(NoCommit) = EmptySet
    <3>1. Content(NoCommit) = EmptySet
      BY DEF Content
    <3>2. Content(c).recs = Content(NoCommit).recs \cup EmptySet.recs
      BY EmptyType, CommitIs
    <3>3. \A q \in Replica : Content(c).stats[q] = IF EmptySet.stats[q] = NoStats
                                                   THEN Content(NoCommit).stats[q]
                                                   ELSE EmptySet.stats[q]
      BY EmptyType, CommitCounts
    <3> HIDE DEF c
    <3> QED
      BY <3>1, <3>2, <3>3 DEF EmptySet
  <2>4. RowsGrow(c) /\ HasNotes(Content(c), undeleted')
    <3>1. NoLess(EmptySet, Content(c)) /\ RowsGrow(NoCommit)
      <4>1. \A q \in Replica, e \in Entry : Content(c).stats[q][e].n = 0
        BY <2>3 DEF NoStats, ZeroRow
      <4>2. \A q \in Replica, e \in Entry : EmptySet.stats[q][e].n = 0
        BY DEF EmptySet, NoStats, ZeroRow
      <4> HIDE DEF c
      <4> QED
        BY <4>1, <4>2 DEF NoLess, RowsGrow, NoCommit
    <3>2. RowsGrow(c)
      BY <2>3, <3>1, EmptyType, CommitGrows
    <3> QED
      BY <2>3, <3>2, FewerLeft DEF HasNotes, NoStats, ZeroRow, undeleted
  <2> HIDE DEF c
  <2>5. mirror'[p] = c /\ \A q \in Replica \ {p} : mirror'[q] = mirror[q]
    BY <2>2 DEF TypeOK, c
  <2>6. inited'[p] = "yes" /\ \A q \in Replica \ {p} : inited'[q] = inited[q]
    BY <1>5 DEF CreateStore, TypeOK
  <2>7. acked' = acked
    BY <2>1 DEF acked
  <2>8. SharedRows /\ undeleted' = undeleted
    BY <2>1, <2>7, RemoteRows DEF undeleted
  <2>9. ASSUME NEW e \in undeleted'
        PROVE  RowInv(p, e)' /\ (pstats'[p][e].n > 0 => NoteInv(p, e)')
    <3>1. e \in Entry /\ RowInv(p, e) /\ (pstats[p][e].n > 0 => NoteInv(p, e))
      BY <1>a, <2>8, <2>9 DEF RowsInv, undeleted
    <3>2. Register(p, e)' = Register(p, e) /\ Unshared(p, e)' = Unshared(p, e)
      BY <2>1 DEF Register, Unshared, Landed
    <3>3. Content(mirror'[p]).stats[p][e].n = 0
      BY <2>3, <2>5, <3>1 DEF NoStats, ZeroRow
    <3>4. RowInv(p, e)'
      BY <2>1, <2>6, <3>1, <3>2, <3>3, RowTypes DEF RowInv
    <3>5. NoteInv(p, e) => NoteInv(p, e)'
      BY <2>1, <2>6 DEF NoteInv, View, Noted, Notes, OfEntry
    <3> QED
      BY <2>1, <3>1, <3>4, <3>5
  <2>10. RowsInv(p)'
    BY <1>a, <2>1, <2>4, <2>5, <2>8, <2>9 DEF RowsInv
  <2> QED
    BY <2>1, <2>5, <2>6, <2>8, <2>10 DEF RowsStep, SameRows
<1>6. ASSUME NEW p \in Replica, NEW f \in Entry, Bump(p, f)
      PROVE  RowsStep(p)
  <2>1. /\ UNCHANGED <<remote, mirror, inited, cand, base, snap, pc, pending, authored, dropped>>
        /\ pc[p] = "idle" /\ inited[p] = "yes" /\ Noted(View(p), f)
    BY <1>6 DEF Bump, session, Initialized, Living, Noted
  <2> DEFINE delta == [NoStats EXCEPT ![f] = [n |-> 1, t |-> bumped[p][f] + 1]]
  <2>2. /\ bumped' = [bumped EXCEPT ![p][f] = @ + 1]
        /\ pstats' = [pstats EXCEPT ![p] = AddStats(pstats[p], delta)]
    BY <1>6 DEF Bump
  <2>3. \A e \in Entry : delta[e].n = IF e = f THEN 1 ELSE 0
    BY DEF NoStats, ZeroRow
  <2> HIDE DEF delta
  <2>4. pstats'[p] = AddStats(pstats[p], delta)
        /\ \A q \in Replica \ {p} : pstats'[q] = pstats[q] /\ bumped'[q] = bumped[q]
    BY <2>2 DEF TypeOK
  <2>5. \A e \in Entry : /\ pstats'[p][e].n = pstats[p][e].n + (IF e = f THEN 1 ELSE 0)
                         /\ bumped'[p][e] = bumped[p][e] + (IF e = f THEN 1 ELSE 0)
    <3>1. \A e \in Entry : pstats'[p][e].n = pstats[p][e].n + delta[e].n
      BY <2>4 DEF AddStats
    <3>2. \A e \in Entry : bumped'[p][e] = bumped[p][e] + (IF e = f THEN 1 ELSE 0)
      BY <2>2, RowTypes DEF TypeOK
    <3> QED
      BY <2>3, <3>1, <3>2
  <2>6. acked' = acked
    BY <2>1 DEF acked
  <2>7. SharedRows /\ undeleted' = undeleted
    BY <2>1, <2>6, RemoteRows DEF undeleted
  <2>8. ASSUME NEW e \in undeleted'
        PROVE  RowInv(p, e)' /\ (pstats'[p][e].n > 0 => NoteInv(p, e)')
    <3>1. e \in Entry /\ RowInv(p, e) /\ (pstats[p][e].n > 0 => NoteInv(p, e))
      BY <1>a, <2>7, <2>8 DEF RowsInv, undeleted
    <3>2. /\ Register(p, e)' = Register(p, e)
          /\ Unshared(p, e) = pstats[p][e].n /\ Unshared(p, e)' = pstats'[p][e].n
      BY <2>1 DEF Register, Unshared, Landed
    <3>3. RowInv(p, e)'
      BY <2>1, <2>5, <3>1, <3>2, RowTypes DEF RowInv
    <3>4. pstats'[p][e].n > 0 => e = f \/ pstats[p][e].n > 0
      BY <2>5, <3>1, RowTypes
    <3>5. pstats'[p][e].n > 0 => Noted(View(p), e)
      BY <2>1, <3>1, <3>4 DEF NoteInv
    <3>6. Noted(View(p), e) => NoteInv(p, e)'
      BY <2>1 DEF NoteInv, View
    <3> QED
      BY <3>3, <3>5, <3>6
  <2>9. RowsInv(p)'
    BY <1>a, <2>1, <2>7, <2>8 DEF RowsInv
  <2> QED
    BY <2>1, <2>4, <2>7, <2>9 DEF RowsStep, SameRows
<1>7. ASSUME NEW p \in Replica, Build(p)
      PROVE  RowsStep(p)
  <2>1. /\ UNCHANGED <<remote, mirror, inited, pending, pstats, bumped, base, snap, authored, dropped>>
        /\ pc[p] = "build"
    BY <1>7 DEF Build, ghosts
  <2>2. PICK at \in CommitTime :
           LET commit == StoreCommit(Merged(p), mirror[p], at)
           IN  /\ cand' = [cand EXCEPT ![p] = commit]
               /\ pc' = [pc EXCEPT ![p] = IF mirror[p] # NoCommit /\ commit = mirror[p]
                                          THEN "clear"
                                          ELSE IF HasRemote(p) THEN "push" ELSE "update"]
    BY <1>7 DEF Build
  <2> DEFINE c == StoreCommit(Merged(p), mirror[p], at)
  <2>3. /\ cand'[p] = c
        /\ pc'[p] = "push" \/ (pc'[p] = "clear" /\ c = mirror[p])
        /\ \A q \in Replica \ {p} : cand'[q] = cand[q] /\ pc'[q] = pc[q]
    <3>1. HasRemote(p)
      BY DEF HasRemote, IInv, CloneInv
    <3> QED
      BY <2>2, <3>1 DEF TypeOK
  <2>4. /\ RowsGrow(c) /\ HasNotes(Content(c), undeleted) /\ View(p) \subseteq Content(c).recs
        /\ \A e \in Entry :
             /\ Content(c).stats[p][e].n \in Nat
             /\ Content(c).stats[p][e].n >= Content(mirror[p]).stats[p][e].n + pstats[p][e].n
    BY <2>1, BuildRows
  <2> HIDE DEF c
  <2>5. acked' = acked
    BY <2>1 DEF acked
  <2>6. SharedRows /\ undeleted' = undeleted
    BY <2>1, <2>5, RemoteRows DEF undeleted
  <2>7. ASSUME NEW e \in undeleted'
        PROVE  RowInv(p, e)' /\ (pstats'[p][e].n > 0 => NoteInv(p, e)')
    <3>1. e \in Entry /\ RowInv(p, e) /\ (pstats[p][e].n > 0 => NoteInv(p, e))
      BY <1>a, <2>6, <2>7 DEF RowsInv, undeleted
    <3>2. /\ Register(p, e)' = Register(p, e) /\ Unshared(p, e) = pstats[p][e].n
          /\ Unshared(p, e)' = IF pc'[p] = "clear" THEN 0 ELSE pstats[p][e].n
      BY <2>1, <2>3 DEF Register, Unshared, Landed
    <3>3. inited[p] # "creating"
      BY <1>b, <2>1
    <3>4. /\ Content(c).stats[p][e].n \in Nat
          /\ Content(c).stats[p][e].n >= Content(mirror[p]).stats[p][e].n + pstats[p][e].n
      BY <2>4, <3>1
    <3>5. CASE pc'[p] = "push"
      <4>1. RowInv(p, e)'
        BY <2>1, <2>3, <3>1, <3>2, <3>3, <3>4, <3>5, RowTypes DEF RowInv
      <4>2. Noted(View(p), e) => Noted(Content(c).recs, e)
        BY <2>4 DEF Noted, Notes, OfEntry
      <4>3. Noted(View(p), e) => NoteInv(p, e)'
        <5>1. View(p)' = View(p) /\ inited'[p] # "creating" /\ cand'[p] = c
          BY <2>1, <2>3, <3>3 DEF View
        <5> HIDE DEF c
        <5> QED
          BY <3>5, <4>2, <5>1 DEF NoteInv
      <4> QED
        BY <2>1, <3>1, <4>1, <4>3 DEF NoteInv
    <3>6. CASE pc'[p] = "clear" /\ c = mirror[p]
      <4>1. pstats[p][e].n = 0
        BY <3>1, <3>4, <3>6, RowTypes
      <4>2. RowInv(p, e)'
        BY <2>1, <3>1, <3>2, <3>3, <3>6, <4>1, RowTypes DEF RowInv
      <4> QED
        BY <2>1, <4>1, <4>2
    <3> QED
      BY <2>3, <3>5, <3>6
  <2>8. RowsInv(p)'
    BY <1>a, <2>1, <2>3, <2>4, <2>6, <2>7 DEF RowsInv
  <2> QED
    BY <2>1, <2>3, <2>6, <2>8 DEF RowsStep, SameRows
<1>8. ASSUME NEW p \in Replica, PushLands(p)
      PROVE  RowsStep(p)
  <2>1. /\ UNCHANGED <<mirror, inited, pending, pstats, bumped, base, snap, cand, authored, dropped>>
        /\ pc[p] = "push" /\ pc'[p] = "update" /\ \A q \in Replica \ {p} : pc'[q] = pc[q]
        /\ FastForward(remote, cand[p]) /\ remote' = cand[p]
    BY <1>8 DEF PushLands, Goto, clone, ghosts, TypeOK
  <2>2. SharedRows
    BY <2>1, PushRows
  <2>3. undeleted' = undeleted
    BY <2>1 DEF undeleted, acked
  <2>4. ASSUME NEW e \in undeleted'
        PROVE  RowInv(p, e)' /\ (pstats'[p][e].n > 0 => NoteInv(p, e)')
    <3>1. e \in Entry /\ RowInv(p, e) /\ (pstats[p][e].n > 0 => NoteInv(p, e))
      BY <1>a, <2>3, <2>4 DEF RowsInv, undeleted
    <3>2. Register(p, e)' = Content(cand[p]).stats[p][e].n /\ Unshared(p, e)' = 0
      BY <2>1 DEF Register, Unshared, Landed
    <3>3. inited[p] # "creating"
      BY <1>b, <2>1
    <3>4. RowInv(p, e)'
      BY <2>1, <3>1, <3>2, <3>3, RowTypes DEF RowInv
    <3>5. NoteInv(p, e) => NoteInv(p, e)'
      BY <2>1 DEF NoteInv, View
    <3> QED
      BY <2>1, <3>1, <3>4, <3>5
  <2>5. RowsInv(p)'
    BY <1>a, <2>1, <2>3, <2>4 DEF RowsInv
  <2> QED
    BY <2>1, <2>2, <2>5 DEF RowsStep, SameRows
<1>9. ASSUME NEW p \in Replica, UpdateRef(p)
      PROVE  RowsStep(p)
  <2>1. /\ UNCHANGED <<remote, inited, pending, pstats, bumped, base, snap, cand, authored, dropped>>
        /\ pc[p] = "update" /\ pc'[p] = "clear" /\ mirror'[p] = cand[p]
        /\ \A q \in Replica \ {p} : pc'[q] = pc[q] /\ mirror'[q] = mirror[q]
    BY <1>9 DEF UpdateRef, Goto, ghosts, TypeOK
  <2>2. acked' = acked
    BY <2>1 DEF acked
  <2>3. SharedRows /\ undeleted' = undeleted
    BY <2>1, <2>2, RemoteRows DEF undeleted
  <2>4. ASSUME NEW e \in undeleted'
        PROVE  RowInv(p, e)' /\ (pstats'[p][e].n > 0 => NoteInv(p, e)')
    <3>1. e \in Entry /\ RowInv(p, e) /\ (pstats[p][e].n > 0 => NoteInv(p, e))
      BY <1>a, <2>3, <2>4 DEF RowsInv, undeleted
    <3>2. /\ Register(p, e)' = Register(p, e)
          /\ Unshared(p, e)' = 0 /\ Unshared(p, e) = 0
      BY <2>1 DEF Register, Unshared, Landed
    <3>3. inited[p] # "creating"
      BY <1>b, <2>1
    <3>4. RowInv(p, e)'
      BY <2>1, <3>1, <3>2, <3>3, RowTypes DEF RowInv
    <3>5. NoteInv(p, e) => NoteInv(p, e)'
      BY <2>1, <3>3 DEF NoteInv, View, Noted, Notes, OfEntry
    <3> QED
      BY <2>1, <3>1, <3>4, <3>5
  <2>5. RowsInv(p)'
    BY <1>a, <2>1, <2>3, <2>4 DEF RowsInv
  <2> QED
    BY <2>1, <2>3, <2>5 DEF RowsStep, SameRows
<1>10. ASSUME NEW p \in Replica, GcLands(p)
       PROVE  RowsStep(p)
  <2>1. /\ UNCHANGED <<mirror, inited, pending, pstats, bumped, base, snap, cand, authored>>
        /\ pc[p] = "gcPush" /\ pc'[p] = "gcUpdate" /\ \A q \in Replica \ {p} : pc'[q] = pc[q]
        /\ Lease(p) /\ remote' = cand[p] /\ dropped' = dropped \cup Drops(p)
    BY <1>10 DEF GcLands, Goto, clone, TypeOK
  <2>2. SharedRows
    BY <2>1, LeaseRows
  <2>3. undeleted' = undeleted
    BY <2>1 DEF undeleted, acked
  <2>4. ASSUME NEW e \in undeleted'
        PROVE  RowInv(p, e)' /\ (pstats'[p][e].n > 0 => NoteInv(p, e)')
    <3>1. e \in Entry /\ RowInv(p, e) /\ (pstats[p][e].n > 0 => NoteInv(p, e))
      BY <1>a, <2>3, <2>4 DEF RowsInv, undeleted
    <3>2. /\ Register(p, e)' = Content(cand[p]).stats[p][e].n
          /\ Unshared(p, e)' = pstats[p][e].n
      BY <2>1 DEF Register, Unshared, Landed
    <3>3. inited[p] # "creating"
      BY <1>b, <2>1
    <3>4. RowInv(p, e)'
      BY <2>1, <3>1, <3>2, <3>3, RowTypes DEF RowInv
    <3>5. NoteInv(p, e) => NoteInv(p, e)'
      BY <2>1 DEF NoteInv, View
    <3> QED
      BY <2>1, <3>1, <3>4, <3>5
  <2>5. RowsInv(p)'
    BY <1>a, <2>1, <2>3, <2>4 DEF RowsInv
  <2> QED
    BY <2>1, <2>2, <2>5 DEF RowsStep, SameRows
<1>11. ASSUME NEW p \in Replica,
              \/ PushGivesUp(p) \/ GcGivesUp(p) \/ GcNothing(p) \/ Crash(p)
              \/ PushFails(p) \/ GcFails(p) \/ GcUpdate(p)
       PROVE  RowsStep(p)
  <2>1. /\ Exit(p) /\ pc[p] # "idle"
        /\ UNCHANGED <<inited, pending, bumped, pstats, authored>>
        /\ \/ mirror' = mirror
           \/ pc[p] = "gcUpdate" /\ mirror' = [mirror EXCEPT ![p] = cand[p]]
    BY <1>11 DEF PushGivesUp, GcGivesUp, GcNothing, Crash, PushFails, GcFails, GcUpdate,
                 Fault, clone, ghosts
  <2>2. \/ UNCHANGED <<remote, dropped>>
        \/ remote' = cand[p] /\ FastForward(remote, cand[p]) /\ dropped' = dropped
        \/ /\ remote' = cand[p] /\ pc[p] = "gcPush" /\ Lease(p)
           /\ dropped' = dropped \cup Drops(p)
    BY <1>11 DEF PushGivesUp, GcGivesUp, GcNothing, Crash, PushFails, GcFails, GcUpdate,
                 Fault, clone, ghosts, HasRemote, IInv, CloneInv
  <2>3. acked' = acked
    BY <2>1 DEF acked
  <2>4. SharedRows
    BY <2>1, <2>2, <2>3, RemoteRows, PushRows, LeaseRows
  <2>5. /\ mirror'[p] = mirror[p] \/ (pc[p] = "gcUpdate" /\ mirror'[p] = cand[p])
        /\ \A q \in Replica \ {p} : mirror'[q] = mirror[q]
    BY <2>1 DEF TypeOK
  <2> QED
    BY <2>1, <2>4, <2>5, ExitRows
<1>12. ASSUME NEW p \in Replica, ClearStats(p)
       PROVE  RowsStep(p)
  <2>1. /\ UNCHANGED <<remote, mirror, inited, pending, bumped, authored, dropped>>
        /\ Exit(p) /\ pc[p] = "clear" /\ pstats' = [pstats EXCEPT ![p] = NoStats]
    BY <1>12 DEF ClearStats, ghosts
  <2>2. /\ pc'[p] = "idle" /\ snap'[p] = EmptySet /\ cand'[p] = NoCommit
        /\ pstats'[p] = NoStats
        /\ \A q \in Replica \ {p} : SameRows(q)
    BY <2>1 DEF Exit, TypeOK, SameRows
  <2>3. acked' = acked
    BY <2>1 DEF acked
  <2>4. SharedRows /\ undeleted' = undeleted
    BY <2>1, <2>3, RemoteRows DEF undeleted
  <2>5. /\ RowsGrow(NoCommit) /\ HasNotes(EmptySet, undeleted) /\ Content(NoCommit) = EmptySet
    BY DEF RowsGrow, HasNotes, NoCommit, EmptySet, NoStats, ZeroRow, Content, undeleted
  <2>6. ASSUME NEW e \in undeleted'
        PROVE  RowInv(p, e)' /\ pstats'[p][e].n = 0
    <3>1. e \in Entry /\ RowInv(p, e)
      BY <1>a, <2>4, <2>6 DEF RowsInv, undeleted
    <3>2. pstats'[p][e].n = 0
      BY <2>2, <3>1 DEF NoStats, ZeroRow
    <3>3. /\ Register(p, e)' = Register(p, e)
          /\ Unshared(p, e) = 0 /\ Unshared(p, e)' = 0
      BY <2>1, <2>2, <3>2 DEF Register, Unshared, Landed
    <3>4. inited[p] # "creating"
      BY <1>b, <2>1
    <3>5. RowInv(p, e)'
      BY <2>1, <2>2, <3>1, <3>2, <3>3, <3>4, RowTypes DEF RowInv
    <3> QED
      BY <3>2, <3>5
  <2>7. RowsInv(p)'
    BY <1>a, <2>1, <2>2, <2>4, <2>5, <2>6 DEF RowsInv
  <2> QED
    BY <2>2, <2>4, <2>7 DEF RowsStep
<1>13. ASSUME NEW p \in Replica, GcSweep(p)
       PROVE  RowsStep(p)
  <2>1. /\ UNCHANGED <<remote, mirror, inited, pending, pstats, bumped, snap, authored, dropped>>
        /\ pc[p] = "gcSweep"
    BY <1>13 DEF GcSweep, clone, ghosts
  <2>2. PICK at \in CommitTime :
          cand' = [cand EXCEPT ![p] = Compact(Swept(Content(mirror[p]), Aged), at)]
    BY <1>13 DEF GcSweep
  <2>3. /\ cand'[p] = Compact(Swept(Content(mirror[p]), Aged), at) /\ base'[p] = mirror[p]
        /\ pc'[p] \in {"gcPush", "gcUpdate"}
        /\ \A q \in Replica \ {p} : pc'[q] = pc[q] /\ cand'[q] = cand[q] /\ base'[q] = base[q]
    BY <1>13, <2>2 DEF GcSweep, TypeOK
  <2> DEFINE m == Content(mirror[p])
             c == Swept(m, Aged)
  <2>4. Content(cand'[p]) = c /\ m \in StoreSet
    BY <2>3, Stores DEF Compact, Content, NoCommit
  <2>5. acked' = acked
    BY <2>1 DEF acked
  <2>6. SharedRows /\ undeleted' = undeleted /\ undeleted \subseteq Entry
    BY <2>1, <2>5, RemoteRows DEF undeleted
  <2>7. RowsGrow(cand'[p]) /\ HasNotes(Content(cand'[p]), undeleted)
    <3>1. HasNotes(c, undeleted)
      BY <2>4, <2>6, SweptHasNotes
    <3>2. DOMAIN cand'[p] = {1} /\ cand'[p][1].tree = c
      BY <2>3 DEF Compact
    <3>3. Content(cand'[p]) \in StoreSet
      BY ContentType DEF TypeOK
    <3> HIDE DEF c
    <3>4. NoLess(c, c)
      BY <2>4, <3>3, CountType DEF NoLess
    <3> QED
      BY <2>4, <3>1, <3>2, <3>4 DEF RowsGrow
  <2>8. ASSUME NEW e \in undeleted, Noted(m.recs, e)
        PROVE  /\ Noted(c.recs, e)
               /\ \A r \in Replica : c.stats[r][e] = m.stats[r][e]
    <3>1. m.recs \subseteq acked
      BY DEF BInv, BlobsInv, Beside
    <3>2. ~Tombstoned(m.recs, e) /\ e \in Entry
      BY <3>1 DEF undeleted, Tombstoned, OfEntry
    <3> HIDE DEF m
    <3> QED
      BY <2>4, <2>8, <3>2, SweptRows DEF c
  <2> HIDE DEF c
  <2>9. ASSUME NEW e \in undeleted'
        PROVE  RowInv(p, e)' /\ (pstats'[p][e].n > 0 => NoteInv(p, e)')
    <3>1. e \in Entry /\ RowInv(p, e) /\ (pstats[p][e].n > 0 => NoteInv(p, e))
      BY <1>a, <2>6, <2>9 DEF RowsInv, undeleted
    <3>2. Register(p, e)' = Register(p, e) /\ Unshared(p, e)' = Unshared(p, e)
      BY <2>1, <2>3 DEF Register, Unshared, Landed
    <3>3. inited[p] # "creating"
      BY <1>b, <2>1
    <3>4. c.stats[p][e].n + pstats[p][e].n >= bumped[p][e]
      <4>1. c.stats[p][e].n \in Nat
        BY <2>4, <3>1, ContentType, CountType DEF TypeOK
      <4>2. CASE m.stats[p][e].n > 0
        <5>1. Noted(m.recs, e)
          BY <1>a, <2>6, <2>9, <4>2 DEF RowsInv, HasNotes
        <5>2. c.stats[p][e] = m.stats[p][e]
          BY <2>6, <2>8, <2>9, <5>1
        <5> QED
          BY <2>1, <3>1, <5>2, RowTypes DEF RowInv
      <4>3. CASE m.stats[p][e].n = 0
        BY <2>1, <3>1, <4>1, <4>3, RowTypes DEF RowInv
      <4> QED
        BY <3>1, <4>2, <4>3, RowTypes
    <3>5. RowInv(p, e)'
      BY <2>1, <2>3, <2>4, <3>1, <3>2, <3>3, <3>4 DEF RowInv
    <3>6. NoteInv(p, e) => NoteInv(p, e)'
      <4>1. Noted(m.recs, e) => Noted(c.recs, e)
        BY <2>6, <2>8, <2>9
      <4>2. Noted(View(p), e) => Noted(c.recs \cup pending[p], e)
        BY <4>1 DEF View, Noted, Notes, OfEntry
      <4> QED
        BY <2>1, <2>3, <2>4, <3>3, <4>2 DEF NoteInv, View
    <3> QED
      BY <2>1, <3>1, <3>5, <3>6
  <2>10. \A e \in undeleted' : LeftOf(p, e)'
    BY <2>3, <2>4, <2>6, <2>8 DEF LeftOf
  <2>11. RowsInv(p)'
    BY <1>a, <2>1, <2>3, <2>6, <2>7, <2>9, <2>10 DEF RowsInv
  <2> QED
    BY <2>1, <2>3, <2>6, <2>11 DEF RowsStep, SameRows
<1>14. ASSUME NEW p \in Replica
       PROVE  ~AddRemote(p)
  BY DEF AddRemote, IInv, CloneInv
<1> QED
  BY <1>1, <1>2, <1>3, <1>4, <1>5, <1>6, <1>7, <1>8, <1>9, <1>10, <1>11, <1>12, <1>13, <1>14
  DEF Next, SyncStep, GcStep

\* Of an entry that nobody deleted every bump is in the register, or among the
\* deltas of the clone that made it: no retry, merge, fetch or compaction
\* forgets one, if no clone gets its remote late and none runs a command beside
\* dm init.
THEOREM CountsAreKept ==
  ASSUME NoLateRemote, ~InitBeside, BoundedIds
  PROVE  Spec => []StatsNeverLost
<1>1. Init => NInv
  <2> SUFFICES ASSUME Init PROVE NInv
    OBVIOUS
  <2>1. /\ RowsGrow(NoCommit) /\ Content(NoCommit) = EmptySet
        /\ HasNotes(EmptySet, undeleted)
    BY DEF RowsGrow, NoCommit, Content, HasNotes, EmptySet, NoStats, ZeroRow, undeleted
  <2>2. ASSUME NEW q \in Replica, NEW e \in Entry
        PROVE  /\ Content(mirror[q]).stats[q][e].n = 0 /\ Register(q, e) = 0
               /\ pstats[q][e].n = 0 /\ bumped[q][e] = 0 /\ Unshared(q, e) = 0
    BY <2>1, <2>2 DEF Init, Register, Unshared, EmptySet, NoStats, ZeroRow
  <2>3. ASSUME NEW q \in Replica, NEW e \in undeleted
        PROVE  RowInv(q, e) /\ ~(pstats[q][e].n > 0)
    BY <2>2 DEF RowInv, Init, undeleted
  <2> QED
    BY <2>1, <2>3 DEF Init, NInv, RowsInv, DropsInv
<1>2. TypeOK /\ TypeOK' /\ IInv /\ PInv /\ RInv /\ BInv /\ BInv' /\ NInv /\ [Next]_vars
        => NInv'
  <2>1. ASSUME TypeOK, TypeOK', IInv, PInv, RInv, BInv, BInv', NInv, Next PROVE NInv'
    BY <2>1, EveryStepRows, RowsPreserves
  <2>2. ASSUME NInv, UNCHANGED vars PROVE NInv'
    <3>1. undeleted' = undeleted /\ Shared' = Shared
      BY <2>2 DEF undeleted, acked, Shared, vars, ghosts
    <3>2. \A q \in Replica, e \in Entry : /\ RowInv(q, e)' = RowInv(q, e)
                                          /\ NoteInv(q, e)' = NoteInv(q, e)
                                          /\ LeftOf(q, e)' = LeftOf(q, e)
      BY <2>2 DEF RowInv, NoteInv, LeftOf, Register, Unshared, Landed, View, vars, clone,
                  session, ghosts
    <3> QED
      BY <2>2, <3>1, <3>2 DEF NInv, RowsInv, DropsInv, vars, clone, session, ghosts, undeleted
  <2> QED
    BY <2>1, <2>2
<1>3. NInv => StatsNeverLost
  BY DEF NInv, RowsInv, RowInv, StatsNeverLost, undeleted
<1> QED
  BY TypeCorrect, InvCorrect, PInvCorrect, RInvCorrect, BInvCorrect, <1>1, <1>2, <1>3, PTL DEF Spec

-----------------------------------------------------------------------------
(* What vanishes.                                                          *)
(*                                                                         *)
(* A record that is nowhere any more was in a mirror or in a snapshot, and *)
(* nowhere that is safe.  GoneInv says at each place of an invocation what *)
(* of the two is still held elsewhere.  It needs no clone to have a remote *)
(* from the start: of those that have, it says that they hold nothing but  *)
(* what is safe.                                                           *)

GoneInv(q) ==
  /\ Grows(mirror[q]) /\ Grows(cand[q])
  /\ inited[q] = "creating" => pc[q] = "idle" /\ mirror[q] = NoCommit
  /\ q \notin LateRemote =>
       /\ linked[q] # "none"
       /\ Content(mirror[q]).recs \cup snap[q].recs \subseteq Safe
       /\ pc[q] \in {"update", "gcUpdate"} => Content(cand[q]).recs \subseteq Safe
  /\ pc[q] \notin SyncPcs => snap[q].recs = {}
  /\ pc[q] \in {"fetch", "mint", "build", "push", "refetch"} =>
       Content(mirror[q]).recs \subseteq snap[q].recs \cup Safe
  /\ pc[q] \in {"push", "update"} =>
       /\ Content(mirror[q]).recs \cup own[q] \subseteq Content(cand[q]).recs
       /\ snap[q].epoch >= Content(cand[q]).epoch => snap[q].recs \subseteq Content(cand[q]).recs
  /\ pc[q] = "clear" =>
       /\ own[q] \subseteq Content(mirror[q]).recs
       /\ snap[q].epoch >= Content(mirror[q]).epoch => snap[q].recs \subseteq Content(mirror[q]).recs
  /\ pc[q] = "gcPush" \/ (pc[q] = "gcUpdate" /\ ~HasRemote(q)) => base[q] = mirror[q]
  /\ pc[q] = "gcUpdate" /\ HasRemote(q) =>
       Content(mirror[q]).recs \subseteq Content(cand[q]).recs \cup dropped

VInv == Grows(remote) /\ \A q \in Replica : GoneInv(q)

\* Only the clone that takes the step has anything of its own changed.
Aside(q) ==
  /\ mirror'[q] = mirror[q] /\ inited'[q] = inited[q] /\ linked'[q] = linked[q]
  /\ snap'[q] = snap[q] /\ own'[q] = own[q] /\ base'[q] = base[q]
  /\ cand'[q] = cand[q] /\ pc'[q] = pc[q]

\* The record goes with the sync that carries it, or with the fetch of a gc.
Going(p, x) ==
  /\ p \in LateRemote
  /\ \/ /\ x \in snap[p].recs /\ pc'[p] = "idle"
        /\ pc[p] = "clear" => snap[p].epoch < Content(mirror[p]).epoch
     \/ pc[p] \in {"gcFetch", "gcRefetch"} /\ pc'[p] = "gcSweep"

Carries(p) ==
  \A x \in Content(mirror[p]).recs \cup snap[p].recs :
    x \in Safe' \cup Content(mirror'[p]).recs \cup snap'[p].recs \/ Going(p, x)

GoneStep(p) ==
  /\ Grows(remote)' /\ Safe \subseteq Safe' /\ dropped \subseteq dropped'
  /\ \A q \in Replica \ {p} : Aside(q)
  /\ GoneInv(p)'
  /\ \A q \in Replica : pending[q] \subseteq pending'[q] \cup Content(mirror'[p]).recs
  /\ Carries(p)

LEMMA GonePreserves ==
  ASSUME TypeOK, TypeOK', VInv, NEW p \in Replica, GoneStep(p)
  PROVE  VInv'
<1>1. ASSUME NEW q \in Replica \ {p}
      PROVE  GoneInv(q)'
  <2>1. GoneInv(q) /\ Aside(q) /\ Safe \subseteq Safe' /\ dropped \subseteq dropped'
    BY DEF VInv, GoneStep
  <2>2. /\ Content(mirror'[q]) = Content(mirror[q]) /\ Content(cand'[q]) = Content(cand[q])
        /\ Grows(mirror'[q]) /\ Grows(cand'[q])
        /\ HasRemote(q)' = HasRemote(q)
    BY <2>1 DEF Aside, GoneInv, HasRemote
  <2> QED BY <2>1, <2>2 DEF Aside, GoneInv
<1> QED BY <1>1 DEF VInv, GoneStep

\* What such a step makes vanish goes in one of the ways there are.
LEMMA GoneIsGoing ==
  ASSUME NEW p \in Replica, GoneStep(p), NEW x \in Somewhere, x \notin Somewhere'
  PROVE  Going(p, x)
<1>1. /\ x \notin Safe'
      /\ \A q \in Replica :
           x \notin pending'[q] /\ x \notin Content(mirror'[q]).recs /\ x \notin snap'[q].recs
  BY DEF Somewhere, Safe, Shared, Held
<1>2. CASE x \in Safe
  BY <1>1, <1>2 DEF GoneStep
<1>3. CASE \E q \in Replica : x \in pending[q]
  BY <1>1, <1>3 DEF GoneStep
<1>4. CASE \E q \in Replica : x \in Content(mirror[q]).recs \cup snap[q].recs
  <2>1. PICK q \in Replica : x \in Content(mirror[q]).recs \cup snap[q].recs
    BY <1>4
  <2>2. CASE q = p
    BY <1>1, <2>1, <2>2 DEF GoneStep, Carries
  <2>3. CASE q # p
    BY <1>1, <2>1, <2>3 DEF GoneStep, Aside
  <2> QED BY <2>2, <2>3
<1> QED BY <1>2, <1>3, <1>4 DEF Somewhere, Safe, Held

LEMMA FetchGone ==
  ASSUME TypeOK, VInv, NEW r \in Replica, FetchInto(r), UNCHANGED <<remote, dropped>>
  PROVE  /\ Grows(mirror'[r])
         /\ Content(mirror'[r]).recs \subseteq Content(mirror[r]).recs \cup Safe
         /\ \A q \in Replica \ {r} : mirror'[q] = mirror[q]
<1>1. CASE remote = NoCommit
  BY <1>1 DEF FetchInto, VInv, GoneInv
<1>2. CASE remote # NoCommit
  <2>1. mirror'[r] = remote /\ \A q \in Replica \ {r} : mirror'[q] = mirror[q]
    BY <1>2 DEF FetchInto, TypeOK
  <2> QED BY <2>1 DEF VInv, Safe, Shared
<1> QED BY <1>1, <1>2

\* A clone has a remote by then exactly when it had.
LEMMA LinkGone ==
  ASSUME TypeOK, NEW r \in Replica, EnsureRefspec(r)
  PROVE  /\ linked'[r] = "none" <=> linked[r] = "none"
         /\ \A q \in Replica \ {r} : linked'[q] = linked[q]
BY DEF EnsureRefspec, HasRemote, TypeOK

\* An invocation that is over keeps its mirror; what only its snapshot held goes
\* in one of the ways there are.
LEMMA ExitGone ==
  ASSUME TypeOK, VInv, NEW r \in Replica, Exit(r), pc[r] # "idle",
         Safe \subseteq Safe', dropped \subseteq dropped', UNCHANGED <<linked, inited>>,
         Grows(mirror'[r]), Content(mirror[r]).recs \subseteq Content(mirror'[r]).recs \cup Safe',
         r \notin LateRemote => Content(mirror'[r]).recs \subseteq Safe'
  PROVE  /\ GoneInv(r)' /\ Carries(r)
         /\ \A q \in Replica \ {r} :
              /\ snap'[q] = snap[q] /\ own'[q] = own[q] /\ base'[q] = base[q]
              /\ cand'[q] = cand[q] /\ pc'[q] = pc[q]
<1>1. /\ pc'[r] = "idle" /\ cand'[r] = NoCommit /\ snap'[r] = EmptySet
      /\ \A q \in Replica \ {r} :
           /\ snap'[q] = snap[q] /\ own'[q] = own[q] /\ base'[q] = base[q]
           /\ cand'[q] = cand[q] /\ pc'[q] = pc[q]
  BY DEF Exit, TypeOK
<1>2. Grows(NoCommit) /\ EmptySet.recs = {}
  BY DEF Grows, NoCommit, EmptySet
<1>3. inited[r] # "creating" /\ (r \notin LateRemote => linked[r] # "none")
  BY DEF VInv, GoneInv
<1>4. GoneInv(r)'
  BY <1>1, <1>2, <1>3 DEF GoneInv, SyncPcs
<1>5. Carries(r)
  <2> SUFFICES ASSUME NEW x \in snap[r].recs, x \notin Safe', x \notin Content(mirror'[r]).recs
               PROVE  Going(r, x)
    BY DEF Carries
  <2>1. r \in LateRemote
    BY DEF VInv, GoneInv
  <2>2. ASSUME pc[r] = "clear"
        PROVE  snap[r].epoch < Content(mirror[r]).epoch
    <3>1. snap[r].epoch \in Nat /\ Content(mirror[r]).epoch \in Nat
      BY Stores DEF StoreSet
    <3>2. CASE snap[r].epoch >= Content(mirror[r]).epoch
      BY <2>2, <3>2 DEF VInv, GoneInv
    <3> QED BY <3>1, <3>2
  <2> QED BY <1>1, <2>1, <2>2 DEF Going
<1> QED BY <1>1, <1>4, <1>5

\* What lands, be it a push or a compaction, takes nothing from what is safe.
LEMMA LandsGone ==
  ASSUME TypeOK, VInv, NEW r \in Replica, remote' = cand[r],
         \/ FastForward(remote, cand[r]) /\ UNCHANGED dropped
         \/ Lease(r) /\ dropped' = dropped \cup Drops(r)
  PROVE  /\ Grows(remote)' /\ Safe \subseteq Safe' /\ dropped \subseteq dropped'
         /\ Content(cand[r]).recs \subseteq Safe'
<1>1. Grows(cand[r])
  BY DEF VInv, GoneInv
<1>2. CASE FastForward(remote, cand[r]) /\ UNCHANGED dropped
  <2>1. Content(remote).recs \subseteq Content(cand[r]).recs
    BY <1>1, <1>2, ForwardKeeps DEF TypeOK
  <2> QED BY <1>1, <1>2, <2>1 DEF Safe, Shared
<1>3. CASE Lease(r) /\ dropped' = dropped \cup Drops(r)
  BY <1>1, <1>3 DEF Safe, Shared, Drops, Lease
<1> QED BY <1>2, <1>3

\* What a sync builds holds what the mirror holds and its own records; and the
\* snapshot, unless the mirror is of a newer epoch.
LEMMA BuildCarries ==
  ASSUME TypeOK, NEW r \in Replica, NEW at \in CommitTime
  PROVE  LET commit == StoreCommit(Merged(r), mirror[r], at)
         IN  /\ Content(mirror[r]).recs \cup own[r] \subseteq Content(commit).recs
             /\ snap[r].epoch >= Content(commit).epoch => snap[r].recs \subseteq Content(commit).recs
<1> DEFINE s == snap[r]
           m == Content(mirror[r])
           commit == StoreCommit(Merged(r), mirror[r], at)
<1>1. /\ s \in StoreSet /\ m \in StoreSet /\ Merged(r) \in StoreSet
      /\ own[r] \subseteq Merged(r).recs /\ mirror[r] \in Commit
  BY Stores, MergedHoldsOwn DEF TypeOK
<1>2. Content(commit).epoch = Merged(r).epoch /\ Content(commit).recs = m.recs \cup Merged(r).recs
  BY <1>1, CommitIs
<1>3. ASSUME s.epoch >= Content(commit).epoch
      PROVE  s.recs \subseteq Content(commit).recs
  <2>1. s.epoch \in Nat /\ m.epoch \in Nat
    BY <1>1 DEF StoreSet
  <2>2. CASE s.epoch < m.epoch
    BY <1>2, <1>3, <2>1, <2>2, MergedIs
  <2>3. CASE s.epoch > m.epoch
    BY <1>2, <2>3, MergedIs
  <2>4. CASE s.epoch = m.epoch
    <3>1. Merge(s, m).recs = MergeRecords(s.recs, m.recs)
      BY <1>1, <2>4 DEF Merge, StoreSet
    <3>2. s.recs \subseteq MergeRecords(s.recs, m.recs)
      <4> SUFFICES ASSUME NEW x \in s.recs, NEW y \in s.recs \cup m.recs, y.id = x.id
                   PROVE  x.data <= y.data
        BY DEF MergeRecords
      <4>1. x \in Record /\ y \in Record
        BY <1>1 DEF StoreSet
      <4> QED BY <4>1, UniqueIds, RecordAssumption
    <3>3. Merge(s, m) \in StoreSet
      BY <1>1, MergeType
    <3>4. Merged(r).recs = AddAbsent(Merge(s, m).recs, own[r])
      BY <3>3 DEF Merged, WithOwn, StoreSet
    <3> QED BY <1>2, <3>1, <3>2, <3>4 DEF AddAbsent
  <2> QED BY <2>1, <2>2, <2>3, <2>4
<1> QED BY <1>1, <1>2, <1>3

\* Every step there is, is such a step of a clone that runs nothing beside
\* dm init, and whose user does not fetch.
LEMMA EveryStepGone ==
  ASSUME ~InitBeside, ~UserFetch, TypeOK, TypeOK', VInv, Next
  PROVE  \E r \in Replica : GoneStep(r)
<1> USE DEF SyncPcs
<1>a. \A q \in Replica : GoneInv(q)
  BY DEF VInv
<1>b. Grows(remote)
  BY DEF VInv
<1>c. UNCHANGED <<remote, dropped>> => Safe' = Safe /\ Grows(remote)'
  BY <1>b DEF Safe, Shared
<1>d. \A r \in Replica : Initialized(r) => inited[r] = "yes"
  BY DEF Initialized
<1>1. ASSUME NEW r \in Replica, DmInit(r)
      PROVE  GoneStep(r)
  <2>1. /\ pc[r] = "idle" /\ EnsureRefspec(r) /\ inited[r] # "creating"
        /\ UNCHANGED <<remote, dropped, pending, pc, snap, own, base, cand>>
    BY <1>1 DEF DmInit, session, ghosts
  <2>2. /\ Grows(mirror'[r]) /\ \A q \in Replica \ {r} : mirror'[q] = mirror[q]
        /\ Content(mirror'[r]).recs \subseteq Content(mirror[r]).recs \cup Safe
        /\ Content(mirror[r]).recs \subseteq Content(mirror'[r]).recs
        /\ inited'[r] = "creating" => mirror'[r] = NoCommit
    <3>1. CASE UNCHANGED mirror /\ (mirror[r] # NoCommit \/ ~RemoteStore(r))
      BY <1>1, <1>a, <3>1 DEF DmInit, GoneInv, TypeOK
    <3>2. CASE mirror[r] = NoCommit /\ RemoteStore(r) /\ FetchInto(r)
      <4>1. Content(mirror[r]).recs = {}
        BY <3>2 DEF Content, EmptySet
      <4>2. inited'[r] = "yes"
        BY <1>1, <3>2 DEF DmInit, TypeOK
      <4> QED BY <2>1, <3>2, <4>1, <4>2, FetchGone
    <3> QED BY <1>1, <3>1, <3>2 DEF DmInit
  <2>3. /\ linked'[r] = "none" <=> linked[r] = "none"
        /\ \A q \in Replica \ {r} : linked'[q] = linked[q] /\ inited'[q] = inited[q]
    BY <1>1, <2>1, LinkGone DEF DmInit, TypeOK
  <2>4. GoneInv(r)'
    BY <1>a, <1>c, <2>1, <2>2, <2>3 DEF GoneInv
  <2>5. Carries(r)
    BY <2>1, <2>2 DEF Carries
  <2> QED BY <1>c, <2>1, <2>2, <2>3, <2>4, <2>5 DEF GoneStep, Aside
<1>2. ASSUME NEW r \in Replica, CreateStore(r)
      PROVE  GoneStep(r)
  <2>1. /\ inited[r] = "creating"
        /\ UNCHANGED <<remote, dropped, linked, pending, pc, snap, own, base, cand>>
    BY <1>2 DEF CreateStore, session, ghosts
  <2>2. PICK at \in CommitTime :
          mirror' = [mirror EXCEPT ![r] = StoreCommit(EmptySet, NoCommit, at)]
    BY <1>2 DEF CreateStore
  <2> DEFINE c == StoreCommit(EmptySet, NoCommit, at)
  <2>3. Content(NoCommit).recs = {} /\ Grows(NoCommit) /\ EmptySet.recs = {}
    BY DEF Content, EmptySet, Grows, NoCommit
  <2>4. NoCommit \in Commit /\ EmptySet \in StoreSet
    BY EmptyType
  <2>5. Grows(c) /\ Content(c).recs = {}
    BY <2>3, <2>4, CommitHolds, CommitIs
  <2> HIDE DEF c
  <2>6. mirror'[r] = c /\ \A q \in Replica \ {r} : mirror'[q] = mirror[q]
    BY <2>2 DEF c, TypeOK
  <2>7. inited'[r] = "yes" /\ \A q \in Replica \ {r} : inited'[q] = inited[q]
    BY <1>2 DEF CreateStore, TypeOK
  <2>8. mirror[r] = NoCommit /\ pc[r] = "idle"
    BY <1>a, <2>1 DEF GoneInv
  <2>9. GoneInv(r)'
    BY <1>a, <1>c, <2>1, <2>5, <2>6, <2>7, <2>8 DEF GoneInv
  <2>10. Carries(r)
    BY <2>1, <2>3, <2>8 DEF Carries
  <2> QED BY <1>c, <2>1, <2>6, <2>7, <2>9, <2>10 DEF GoneStep, Aside
<1>3. ASSUME NEW r \in Replica, DmInitFails(r)
      PROVE  GoneStep(r)
  <2>1. /\ UNCHANGED <<remote, dropped, mirror, pending, pc, snap, own, base, cand>>
        /\ inited'[r] = "yes" /\ \A q \in Replica \ {r} : inited'[q] = inited[q]
    BY <1>3 DEF DmInitFails, session, TypeOK
  <2>2. /\ linked'[r] = "none" <=> linked[r] = "none"
        /\ \A q \in Replica \ {r} : linked'[q] = linked[q]
    BY <1>3, LinkGone DEF DmInitFails
  <2>3. GoneInv(r)'
    BY <1>a, <1>c, <2>1, <2>2 DEF GoneInv, HasRemote
  <2> QED BY <1>c, <2>1, <2>2, <2>3 DEF GoneStep, Aside, Carries
<1>4. ASSUME NEW r \in Replica, AddRemote(r)
      PROVE  GoneStep(r)
  <2>1. /\ UNCHANGED <<remote, dropped, mirror, inited, pending, pc, snap, own, base, cand>>
        /\ pc[r] = "idle" /\ linked'[r] = "added"
        /\ \A q \in Replica \ {r} : linked'[q] = linked[q]
    BY <1>4 DEF AddRemote, session, ghosts, TypeOK
  <2>2. GoneInv(r)'
    BY <1>a, <1>c, <2>1 DEF GoneInv
  <2> QED BY <1>c, <2>1, <2>2 DEF GoneStep, Aside, Carries
<1>5. ASSUME NEW r \in Replica
      PROVE  ~GitFetch(r)
  BY DEF GitFetch
<1>6. ASSUME NEW r \in Replica,
             UNCHANGED <<remote, dropped, mirror, inited, linked, pc, snap, own, base, cand>>,
             \A q \in Replica : pending[q] \subseteq pending'[q]
      PROVE  GoneStep(r)
  <2>1. GoneInv(r)'
    BY <1>6, <1>a, <1>c DEF GoneInv, HasRemote
  <2> QED BY <1>6, <1>c, <2>1 DEF GoneStep, Aside, Carries
<1>7. ASSUME NEW r \in Replica, NEW x \in Record, Write(r, x) \/ WriteDies(r, x)
      PROVE  GoneStep(r)
  BY <1>6, <1>7 DEF Write, WriteDies, session, TypeOK
<1>8. ASSUME NEW r \in Replica, NEW e \in Entry, Bump(r, e)
      PROVE  GoneStep(r)
  BY <1>6, <1>8 DEF Bump, session
<1>9. ASSUME NEW r \in Replica, SyncOpen(r) \/ SyncOpenSkipping(r)
      PROVE  GoneStep(r)
  <2>1. /\ Open(r) /\ UNCHANGED <<remote, dropped, mirror, inited, pending, own, base, cand>>
        /\ pc[r] = "idle" /\ inited[r] = "yes" /\ EnsureRefspec(r)
        /\ pc'[r] \in {"fetch", "mint"} /\ \A q \in Replica \ {r} : pc'[q] = pc[q]
    BY <1>9, <1>d DEF SyncOpen, SyncOpenSkipping, Open, Goto, ghosts, TypeOK
  <2>2. /\ snap'[r] = Content(mirror[r]) /\ \A q \in Replica \ {r} : snap'[q] = snap[q]
    BY <2>1 DEF Open, TypeOK
  <2>3. /\ linked'[r] = "none" <=> linked[r] = "none"
        /\ \A q \in Replica \ {r} : linked'[q] = linked[q]
    BY <2>1, LinkGone
  <2>4. snap[r].recs = {}
    BY <1>a, <2>1 DEF GoneInv
  <2>5. GoneInv(r)'
    BY <1>a, <1>c, <2>1, <2>2, <2>3 DEF GoneInv
  <2> QED BY <1>c, <2>1, <2>2, <2>3, <2>4, <2>5 DEF GoneStep, Aside, Carries
<1>10. ASSUME NEW r \in Replica, SyncFetch(r) \/ Refetch(r)
      PROVE  GoneStep(r)
  <2>1. /\ FetchInto(r) /\ pc[r] \in {"fetch", "refetch"}
        /\ UNCHANGED <<remote, dropped, inited, linked, pending, snap, own, base, cand>>
        /\ pc'[r] \in {"mint", "build"} /\ \A q \in Replica \ {r} : pc'[q] = pc[q]
    BY <1>10 DEF SyncFetch, Refetch, Goto, ghosts, TypeOK
  <2>2. /\ Grows(mirror'[r]) /\ \A q \in Replica \ {r} : mirror'[q] = mirror[q]
        /\ Content(mirror'[r]).recs \subseteq Content(mirror[r]).recs \cup Safe
    BY <2>1, FetchGone
  <2>3. inited[r] # "creating" /\ Content(mirror[r]).recs \subseteq snap[r].recs \cup Safe
    BY <1>a, <2>1 DEF GoneInv
  <2>4. GoneInv(r)'
    BY <1>a, <1>c, <2>1, <2>2, <2>3 DEF GoneInv
  <2>5. Carries(r)
    BY <1>c, <2>1, <2>3 DEF Carries
  <2> QED BY <1>c, <2>1, <2>2, <2>4, <2>5 DEF GoneStep, Aside
<1>11. ASSUME NEW r \in Replica, Mint(r)
      PROVE  GoneStep(r)
  <2>1. PICK V \in Mintable(r) :
          /\ pending' = [pending EXCEPT ![r] = @ \cup V]
          /\ own' = [own EXCEPT ![r] = pending[r] \cup V]
    BY <1>11 DEF Mint
  <2>2. /\ \A q \in Replica : pending[q] \subseteq pending'[q]
        /\ \A q \in Replica \ {r} : own'[q] = own[q]
    BY <2>1 DEF TypeOK
  <2>3. /\ UNCHANGED <<remote, dropped, mirror, inited, linked, snap, base, cand>>
        /\ pc[r] = "mint" /\ pc'[r] = "build" /\ \A q \in Replica \ {r} : pc'[q] = pc[q]
    BY <1>11 DEF Mint, Goto, TypeOK
  <2>4. GoneInv(r)'
    BY <1>a, <1>c, <2>3 DEF GoneInv
  <2> QED BY <1>c, <2>2, <2>3, <2>4 DEF GoneStep, Aside, Carries
<1>12. ASSUME NEW r \in Replica, Build(r)
      PROVE  GoneStep(r)
  <2>1. PICK at \in CommitTime :
           LET commit == StoreCommit(Merged(r), mirror[r], at)
           IN  /\ cand' = [cand EXCEPT ![r] = commit]
               /\ pc' = [pc EXCEPT ![r] = IF mirror[r] # NoCommit /\ commit = mirror[r]
                                          THEN "clear"
                                          ELSE IF HasRemote(r) THEN "push" ELSE "update"]
    BY <1>12 DEF Build
  <2> DEFINE commit == StoreCommit(Merged(r), mirror[r], at)
  <2>2. /\ Content(mirror[r]).recs \cup own[r] \subseteq Content(commit).recs
        /\ snap[r].epoch >= Content(commit).epoch => snap[r].recs \subseteq Content(commit).recs
    BY BuildCarries
  <2>3. Grows(commit)
    BY <1>a, CommitHolds, MergedHoldsOwn DEF GoneInv, TypeOK
  <2>4. /\ cand' = [cand EXCEPT ![r] = commit]
        /\ \/ pc' = [pc EXCEPT ![r] = "clear"] /\ commit = mirror[r]
           \/ pc' = [pc EXCEPT ![r] = "push"] /\ HasRemote(r)
           \/ pc' = [pc EXCEPT ![r] = "update"] /\ ~HasRemote(r)
    BY <2>1
  <2> HIDE DEF commit
  <2>5. /\ cand'[r] = commit /\ \A q \in Replica \ {r} : cand'[q] = cand[q] /\ pc'[q] = pc[q]
        /\ \/ pc'[r] = "clear" /\ commit = mirror[r]
           \/ pc'[r] = "push" /\ HasRemote(r)
           \/ pc'[r] = "update" /\ ~HasRemote(r)
    BY <2>4 DEF TypeOK
  <2>6. /\ UNCHANGED <<remote, dropped, mirror, inited, linked, pending, snap, own, base>>
        /\ pc[r] = "build"
    BY <1>12 DEF Build, ghosts
  <2>7. GoneInv(r)'
    BY <1>a, <1>c, <2>2, <2>3, <2>5, <2>6 DEF GoneInv, HasRemote
  <2> QED BY <1>c, <2>5, <2>6, <2>7 DEF GoneStep, Aside, Carries
<1>13. ASSUME NEW r \in Replica, PushLands(r)
      PROVE  GoneStep(r)
  <2>1. /\ UNCHANGED <<dropped, mirror, inited, linked, pending, snap, own, base, cand>>
        /\ pc[r] = "push" /\ pc'[r] = "update" /\ \A q \in Replica \ {r} : pc'[q] = pc[q]
    BY <1>13 DEF PushLands, Goto, clone, ghosts, TypeOK
  <2>2. /\ Grows(remote)' /\ Safe \subseteq Safe' /\ dropped \subseteq dropped'
        /\ Content(cand[r]).recs \subseteq Safe'
    BY <1>13, <2>1, LandsGone DEF PushLands
  <2>3. GoneInv(r)'
    BY <1>a, <2>1, <2>2 DEF GoneInv
  <2> QED BY <2>1, <2>2, <2>3 DEF GoneStep, Aside, Carries
<1>14. ASSUME NEW r \in Replica, PushRejected(r)
      PROVE  GoneStep(r)
  <2>1. /\ UNCHANGED <<remote, dropped, mirror, inited, linked, pending, snap, own, base, cand>>
        /\ pc[r] = "push" /\ pc'[r] = "refetch" /\ \A q \in Replica \ {r} : pc'[q] = pc[q]
    BY <1>14 DEF PushRejected, Goto, clone, ghosts, TypeOK
  <2>2. GoneInv(r)'
    BY <1>a, <1>c, <2>1 DEF GoneInv
  <2> QED BY <1>c, <2>1, <2>2 DEF GoneStep, Aside, Carries
<1>15. ASSUME NEW r \in Replica, UpdateRef(r)
      PROVE  GoneStep(r)
  <2>1. /\ UNCHANGED <<remote, dropped, inited, linked, pending, snap, own, base, cand>>
        /\ pc[r] = "update" /\ pc'[r] = "clear" /\ \A q \in Replica \ {r} : pc'[q] = pc[q]
        /\ mirror'[r] = cand[r] /\ \A q \in Replica \ {r} : mirror'[q] = mirror[q]
    BY <1>15 DEF UpdateRef, Goto, ghosts, TypeOK
  <2>2. GoneInv(r)'
    BY <1>a, <1>c, <2>1 DEF GoneInv
  <2>3. Carries(r)
    BY <1>a, <2>1 DEF GoneInv, Carries
  <2> QED BY <1>c, <2>1, <2>2, <2>3 DEF GoneStep, Aside
<1>16. ASSUME NEW r \in Replica, ClearRecord(r)
      PROVE  GoneStep(r)
  <2>1. /\ UNCHANGED <<remote, dropped, mirror, inited, linked, pc, snap, own, base, cand>>
        /\ pc[r] = "clear"
    BY <1>16 DEF ClearRecord, session, ghosts
  <2>2. PICK x \in own[r] \cap pending[r] : pending' = [pending EXCEPT ![r] = @ \ {x}]
    BY <1>16 DEF ClearRecord
  <2>3. x \in Content(mirror'[r]).recs
    BY <1>a, <2>1, <2>2 DEF GoneInv
  <2>4. \A q \in Replica : pending[q] \subseteq pending'[q] \cup Content(mirror'[r]).recs
    BY <2>2, <2>3 DEF TypeOK
  <2>5. GoneInv(r)'
    BY <1>a, <1>c, <2>1 DEF GoneInv
  <2> QED BY <1>c, <2>1, <2>4, <2>5 DEF GoneStep, Aside, Carries
<1>17. ASSUME NEW r \in Replica, ClearBlob(r)
      PROVE  GoneStep(r)
  BY <1>6, <1>17 DEF ClearBlob, session, ghosts
<1>18. ASSUME NEW r \in Replica, Exit(r), pc[r] # "idle",
             UNCHANGED <<mirror, inited, linked, pending>>,
             Grows(remote)', Safe \subseteq Safe', dropped \subseteq dropped'
      PROVE  GoneStep(r)
  <2>1. Grows(mirror'[r]) /\ (r \notin LateRemote => Content(mirror'[r]).recs \subseteq Safe')
    BY <1>18, <1>a DEF GoneInv
  <2>2. /\ GoneInv(r)' /\ Carries(r)
        /\ \A q \in Replica \ {r} :
             /\ snap'[q] = snap[q] /\ own'[q] = own[q] /\ base'[q] = base[q]
             /\ cand'[q] = cand[q] /\ pc'[q] = pc[q]
    BY <1>18, <2>1, ExitGone
  <2> QED BY <1>18, <2>2 DEF GoneStep, Aside
<1>19. ASSUME NEW r \in Replica,
             PushGivesUp(r) \/ ClearStats(r) \/ GcNothing(r) \/ GcGivesUp(r) \/ Crash(r)
      PROVE  GoneStep(r)
  <2>1. /\ Exit(r) /\ pc[r] # "idle"
        /\ UNCHANGED <<remote, dropped, mirror, inited, linked, pending>>
    BY <1>19 DEF PushGivesUp, ClearStats, GcNothing, GcGivesUp, Crash, Fault, clone, ghosts
  <2> QED BY <1>c, <1>18, <2>1
<1>20. ASSUME NEW r \in Replica, PushFails(r)
      PROVE  GoneStep(r)
  <2>1. /\ Exit(r) /\ pc[r] # "idle" /\ UNCHANGED <<dropped, mirror, inited, linked, pending>>
        /\ UNCHANGED remote \/ (FastForward(remote, cand[r]) /\ remote' = cand[r])
    BY <1>20 DEF PushFails, Fault, clone
  <2>2. Grows(remote)' /\ Safe \subseteq Safe'
    BY <1>c, <2>1, LandsGone
  <2> QED BY <1>18, <2>1, <2>2
<1>21. ASSUME NEW r \in Replica, GcFails(r)
      PROVE  GoneStep(r)
  <2>1. /\ Exit(r) /\ pc[r] # "idle" /\ UNCHANGED <<mirror, inited, linked, pending>>
        /\ \/ UNCHANGED <<remote, dropped>>
           \/ Lease(r) /\ remote' = cand[r] /\ dropped' = dropped \cup Drops(r)
    BY <1>21 DEF GcFails, Fault, clone
  <2>2. Grows(remote)' /\ Safe \subseteq Safe' /\ dropped \subseteq dropped'
    BY <1>c, <2>1, LandsGone
  <2> QED BY <1>18, <2>1, <2>2
<1>22. ASSUME NEW r \in Replica, GcOpen(r) \/ GcOpenSkipping(r)
      PROVE  GoneStep(r)
  <2>1. /\ UNCHANGED <<remote, dropped, mirror, inited, pending, snap, own, base, cand>>
        /\ pc[r] = "idle" /\ inited[r] = "yes" /\ EnsureRefspec(r)
        /\ pc'[r] \in {"gcFetch", "gcSweep"} /\ \A q \in Replica \ {r} : pc'[q] = pc[q]
    BY <1>22, <1>d DEF GcOpen, GcOpenSkipping, OpenGc, Goto, ghosts, TypeOK
  <2>2. /\ linked'[r] = "none" <=> linked[r] = "none"
        /\ \A q \in Replica \ {r} : linked'[q] = linked[q]
    BY <2>1, LinkGone
  <2>3. GoneInv(r)'
    BY <1>a, <1>c, <2>1, <2>2 DEF GoneInv
  <2> QED BY <1>c, <2>1, <2>2, <2>3 DEF GoneStep, Aside, Carries
<1>23. ASSUME NEW r \in Replica, GcFetch(r)
      PROVE  GoneStep(r)
  <2>1. /\ FetchInto(r) /\ pc[r] \in {"gcFetch", "gcRefetch"}
        /\ UNCHANGED <<remote, dropped, inited, linked, pending, snap, own, base, cand>>
        /\ pc'[r] = "gcSweep" /\ \A q \in Replica \ {r} : pc'[q] = pc[q]
    BY <1>23 DEF GcFetch, Goto, ghosts, TypeOK
  <2>2. /\ Grows(mirror'[r]) /\ \A q \in Replica \ {r} : mirror'[q] = mirror[q]
        /\ Content(mirror'[r]).recs \subseteq Content(mirror[r]).recs \cup Safe
    BY <2>1, FetchGone
  <2>3. /\ inited[r] # "creating"
        /\ r \notin LateRemote => Content(mirror[r]).recs \subseteq Safe
    BY <1>a, <2>1 DEF GoneInv
  <2>4. GoneInv(r)'
    BY <1>a, <1>c, <2>1, <2>2, <2>3 DEF GoneInv
  <2>5. Carries(r)
    BY <1>c, <2>1, <2>3 DEF Carries, Going
  <2> QED BY <1>c, <2>1, <2>2, <2>4, <2>5 DEF GoneStep, Aside
<1>24. ASSUME NEW r \in Replica, GcSweep(r)
      PROVE  GoneStep(r)
  <2>1. PICK at \in CommitTime :
           cand' = [cand EXCEPT ![r] = Compact(Swept(Content(mirror[r]), Aged), at)]
    BY <1>24 DEF GcSweep
  <2>2. Grows(Compact(Swept(Content(mirror[r]), Aged), at))
    BY DEF Grows, Compact
  <2>3. Grows(cand'[r]) /\ \A q \in Replica \ {r} : cand'[q] = cand[q]
    BY <2>1, <2>2 DEF TypeOK
  <2>4. /\ UNCHANGED <<remote, dropped, mirror, inited, linked, pending, snap, own>>
        /\ pc[r] = "gcSweep" /\ \A q \in Replica \ {r} : pc'[q] = pc[q] /\ base'[q] = base[q]
        /\ base'[r] = mirror[r]
        /\ pc'[r] = IF HasRemote(r) THEN "gcPush" ELSE "gcUpdate"
    BY <1>24 DEF GcSweep, clone, ghosts, TypeOK
  <2>5. GoneInv(r)'
    BY <1>a, <1>c, <2>3, <2>4 DEF GoneInv, HasRemote
  <2> QED BY <1>c, <2>3, <2>4, <2>5 DEF GoneStep, Aside, Carries
<1>25. ASSUME NEW r \in Replica, GcLands(r)
      PROVE  GoneStep(r)
  <2>1. /\ UNCHANGED <<mirror, inited, linked, pending, snap, own, base, cand>>
        /\ pc[r] = "gcPush" /\ pc'[r] = "gcUpdate" /\ \A q \in Replica \ {r} : pc'[q] = pc[q]
        /\ dropped' = dropped \cup Drops(r)
    BY <1>25 DEF GcLands, Goto, clone, TypeOK
  <2>2. /\ Grows(remote)' /\ Safe \subseteq Safe' /\ dropped \subseteq dropped'
        /\ Content(cand[r]).recs \subseteq Safe'
    BY <1>25, LandsGone DEF GcLands
  <2>3. base[r] = mirror[r]
    BY <1>a, <2>1 DEF GoneInv
  <2>4. Content(mirror[r]).recs \subseteq Content(cand[r]).recs \cup dropped'
    BY <2>1, <2>3 DEF Drops
  <2>5. GoneInv(r)'
    BY <1>a, <2>1, <2>2, <2>3, <2>4 DEF GoneInv
  <2> QED BY <2>1, <2>2, <2>5 DEF GoneStep, Aside, Carries
<1>26. ASSUME NEW r \in Replica, GcRejected(r)
      PROVE  GoneStep(r)
  <2>1. /\ UNCHANGED <<remote, dropped, mirror, inited, linked, pending, snap, own, base, cand>>
        /\ pc[r] = "gcPush" /\ pc'[r] = "gcRefetch" /\ \A q \in Replica \ {r} : pc'[q] = pc[q]
    BY <1>26 DEF GcRejected, Goto, clone, ghosts, TypeOK
  <2>2. GoneInv(r)'
    BY <1>a, <1>c, <2>1 DEF GoneInv
  <2> QED BY <1>c, <2>1, <2>2 DEF GoneStep, Aside, Carries
<1>27. ASSUME NEW r \in Replica, GcUpdate(r)
      PROVE  GoneStep(r)
  <2>1. /\ Exit(r) /\ pc[r] = "gcUpdate" /\ UNCHANGED <<remote, inited, linked, pending>>
        /\ mirror'[r] = cand[r] /\ \A q \in Replica \ {r} : mirror'[q] = mirror[q]
        /\ dropped' = IF HasRemote(r) THEN dropped ELSE dropped \cup Drops(r)
    BY <1>27 DEF GcUpdate, TypeOK
  <2>2. Grows(remote)' /\ Safe \subseteq Safe' /\ dropped \subseteq dropped'
    BY <1>b, <2>1 DEF Safe, Shared
  <2>3. Content(mirror[r]).recs \subseteq Content(cand[r]).recs \cup dropped'
    BY <1>a, <2>1 DEF GoneInv, Drops
  <2>4. /\ Grows(mirror'[r])
        /\ Content(mirror[r]).recs \subseteq Content(mirror'[r]).recs \cup Safe'
        /\ r \notin LateRemote => Content(mirror'[r]).recs \subseteq Safe'
    BY <1>a, <2>1, <2>2, <2>3 DEF GoneInv, Safe
  <2>5. /\ GoneInv(r)' /\ Carries(r)
        /\ \A q \in Replica \ {r} :
             /\ snap'[q] = snap[q] /\ own'[q] = own[q] /\ base'[q] = base[q]
             /\ cand'[q] = cand[q] /\ pc'[q] = pc[q]
    BY <2>1, <2>2, <2>4, ExitGone
  <2> QED BY <2>1, <2>2, <2>5 DEF GoneStep, Aside
<1> QED
  BY <1>1, <1>2, <1>3, <1>4, <1>5, <1>7, <1>8, <1>9, <1>10, <1>11, <1>12, <1>13,
     <1>14, <1>15, <1>16, <1>17, <1>19, <1>20, <1>21, <1>22, <1>23, <1>24, <1>25,
     <1>26, <1>27
  DEF Next, SyncStep, GcStep

\* Wherever remotes come late, a record is lost for good in no way but those of
\* VanishesWithItsSync: with the sync that carries it over its own first fetch, or
\* by the fetch of a gc; and it is of a clone whose remote came late.
THEOREM VanishingIsKnown ==
  ASSUME ~InitBeside, ~UserFetch
  PROVE  Spec => VanishesWithItsSync
<1>1. Init => VInv
  <2> SUFFICES ASSUME Init
               PROVE  VInv
    OBVIOUS
  <2>1. Grows(NoCommit) /\ Content(NoCommit).recs = {} /\ EmptySet.recs = {}
    BY DEF Grows, NoCommit, Content, EmptySet
  <2> QED BY <2>1 DEF Init, VInv, GoneInv, SyncPcs
<1>2. TypeOK /\ TypeOK' /\ VInv /\ [Next]_vars => VInv'
  <2> SUFFICES ASSUME TypeOK, TypeOK', VInv, [Next]_vars
               PROVE  VInv'
    OBVIOUS
  <2>1. CASE Next
    BY <2>1, EveryStepGone, GonePreserves
  <2>2. CASE UNCHANGED vars
    BY <2>2 DEF VInv, GoneInv, Safe, Shared, HasRemote, vars, clone, session, ghosts
  <2> QED BY <2>1, <2>2
<1>3. TypeOK /\ TypeOK' /\ VInv /\ [Next]_vars =>
        [\A x \in Somewhere \ Somewhere' :
           \E r \in LateRemote :
             \/ /\ x \in snap[r].recs /\ pc'[r] = "idle"
                /\ pc[r] = "clear" => snap[r].epoch < Content(mirror[r]).epoch
             \/ pc[r] \in {"gcFetch", "gcRefetch"} /\ pc'[r] = "gcSweep"]_vars
  <2> SUFFICES ASSUME TypeOK, TypeOK', VInv, Next, NEW x \in Somewhere, x \notin Somewhere'
               PROVE  \E r \in LateRemote : Going(r, x)
    BY DEF Going
  <2>1. PICK p \in Replica : GoneStep(p)
    BY EveryStepGone
  <2>2. Going(p, x)
    BY <2>1, GoneIsGoing
  <2> QED BY <2>2 DEF Going
<1> QED BY TypeCorrect, <1>1, <1>2, <1>3, PTL DEF Spec, VanishesWithItsSync

=============================================================================
