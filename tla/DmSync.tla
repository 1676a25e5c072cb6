------------------------------- MODULE DmSync -------------------------------
(***************************************************************************)
(* Sharing notes: dm init, the commands that append to pending, dm sync    *)
(* and dm gc, run by clones that share one remote.                         *)
(*                                                                         *)
(* One clone runs one invocation at a time (the flock of internal/local),  *)
(* so a clone is a program counter and the variables of the invocation it  *)
(* is in.  Everything an invocation does to the clone's files, to the      *)
(* mirror ref or to the remote is a step of its own, and between two steps *)
(* other clones move, the user fetches and the invocation may die.         *)
(***************************************************************************)
EXTENDS Sweep, FiniteSets

CONSTANTS
  Aged,         \* the records that every sweep finds past the shadow window
  CommitTime,   \* the times a commit may be stamped with
  LateRemote,   \* the clones that start without a remote
  MaxAttempts,  \* maxPushAttempts of app/sync.go
  MaxEpoch,     \* bound: a compaction starts only below this epoch
  MaxBumps,     \* bound: stat bumps in all
  MaxFaults,    \* bound: crashes, transport failures and lost replies
  UserFetch,    \* whether the user runs git fetch beside dm
  InitBeside    \* whether the clone runs other commands beside dm init

ASSUME SyncAssumption ==
  /\ MaxAttempts \in Nat \ {0}
  /\ MaxEpoch \in Nat /\ MaxBumps \in Nat /\ MaxFaults \in Nat
  /\ UserFetch \in BOOLEAN /\ InitBeside \in BOOLEAN
  /\ LateRemote \subseteq Replica

VARIABLES
  remote,   \* refs/dm/store of the shared remote
  mirror,   \* refs/dm/store of each clone
  inited,   \* dm init: "no", "yes", or "creating", the clone marked and no store yet
  linked,   \* the clone's remote: "none", "added", or "ensured" with the refspec
  pending,  \* .git/.dm/pending/records
  pblobs,   \* .git/.dm/pending/blobs
  pstats,   \* .git/.dm/pending/stats
  odb       \* the anchored contents in the clone's object database

VARIABLES   \* of the invocation the clone is in
  pc,       \* where it stands
  snap,     \* Session.StoreSet: the mirror's content when it opened
  own,      \* the pending records it contributes
  base,     \* the mirror tip it built on
  cand,     \* the commit it built
  attempt   \* its push attempts so far

VARIABLES   \* of no code: what the properties compare with
  authored, \* per clone, the records its commands acknowledged
  staged,   \* those whose anchored content was staged with them
  dropped,  \* what landed compactions swept
  bumped,   \* the stat bumps made, per clone and entry
  faults    \* the faults so far

clone == <<mirror, inited, linked, pending, pblobs, pstats, odb>>
session == <<pc, snap, own, base, cand, attempt>>
ghosts == <<authored, staged, dropped, bumped, faults>>
vars == <<remote, clone, session, ghosts>>

SyncPcs == {"fetch", "mint", "build", "push", "refetch", "update", "clear"}
GcPcs == {"gcFetch", "gcSweep", "gcPush", "gcRefetch", "gcUpdate"}
Pcs == {"idle"} \cup SyncPcs \cup GcPcs

acked == UNION {authored[r] : r \in Replica}

\* What a command on clone r reads: store and pending.
View(r) == Content(mirror[r]).recs \cup pending[r]

\* The anchored contents that come with the history of a commit.
BlobsOf(c) == UNION {c[i].tree.blobs : i \in DOMAIN c}

Init ==
  /\ remote = NoCommit
  /\ mirror = [r \in Replica |-> NoCommit]
  /\ inited = [r \in Replica |-> "no"]
  /\ linked = [r \in Replica |-> IF r \in LateRemote THEN "none" ELSE "added"]
  /\ pending = [r \in Replica |-> {}]
  /\ pblobs = [r \in Replica |-> {}]
  /\ pstats = [r \in Replica |-> NoStats]
  /\ odb = [r \in Replica |-> {}]
  /\ pc = [r \in Replica |-> "idle"]
  /\ snap = [r \in Replica |-> EmptySet]
  /\ own = [r \in Replica |-> {}]
  /\ base = [r \in Replica |-> NoCommit]
  /\ cand = [r \in Replica |-> NoCommit]
  /\ attempt = [r \in Replica |-> 1]
  /\ authored = [r \in Replica |-> {}]
  /\ staged = {} /\ dropped = {}
  /\ bumped = [r \in Replica |-> [e \in Entry |-> 0]]
  /\ faults = 0

-----------------------------------------------------------------------------
(* Moves of an invocation.                                                 *)

\* The invocation goes from one place to the next.
Goto(r, from, to) == pc[r] = from /\ pc' = [pc EXCEPT ![r] = to]

\* It is over: the lock is released and its memory is gone.
Exit(r) ==
  /\ pc' = [pc EXCEPT ![r] = "idle"]
  /\ snap' = [snap EXCEPT ![r] = EmptySet]
  /\ own' = [own EXCEPT ![r] = {}]
  /\ base' = [base EXCEPT ![r] = NoCommit]
  /\ cand' = [cand EXCEPT ![r] = NoCommit]
  /\ attempt' = [attempt EXCEPT ![r] = 1]

\* It returns an error that is none of its own making.
Fault(r) == faults < MaxFaults /\ faults' = faults + 1 /\ Exit(r)

HasRemote(r) == linked[r] # "none"

\* sync and gc ensure the refspec before they touch the remote.
EnsureRefspec(r) ==
  linked' = IF HasRemote(r) THEN [linked EXCEPT ![r] = "ensured"] ELSE linked

\* Mutant of FetchInto: the refspec is not forced.
FetchIntoUnforced(r) ==
  /\ mirror' = IF FastForward(mirror[r], remote)
               THEN [mirror EXCEPT ![r] = remote] ELSE mirror
  /\ odb' = [odb EXCEPT ![r] = @ \cup BlobsOf(remote)]

\* git fetch with the forced refspec: the mirror becomes the remote's ref,
\* whatever it was; a remote without the ref leaves it alone.
FetchInto(r) ==
  /\ mirror' = IF remote = NoCommit THEN mirror ELSE [mirror EXCEPT ![r] = remote]
  /\ odb' = [odb EXCEPT ![r] = @ \cup BlobsOf(remote)]

-----------------------------------------------------------------------------
(* dm init, the user's own git commands, and the commands that write.      *)

\* Whether dm init finds a store on the remote.
RemoteStore(r) == HasRemote(r) /\ remote # NoCommit

\* dm init marks the clone, ensures the refspec and looks for a store: the
\* clone's own, or the remote's, which it fetches.  It takes no lock.
DmInit(r) ==
  /\ inited[r] # "creating"
  /\ pc[r] = "idle" \/ InitBeside
  /\ EnsureRefspec(r)
  /\ \/ /\ mirror[r] # NoCommit \/ ~RemoteStore(r)
        /\ UNCHANGED <<mirror, odb>>
     \/ /\ mirror[r] = NoCommit /\ RemoteStore(r)
        /\ FetchInto(r)
  /\ inited' = [inited EXCEPT ![r] =
                   IF mirror[r] = NoCommit /\ ~RemoteStore(r) THEN "creating" ELSE "yes"]
  /\ UNCHANGED <<remote, pending, pblobs, pstats, session, ghosts>>

\* It found none and creates an empty one, whatever the ref is by now.
CreateStore(r) ==
  /\ inited[r] = "creating"
  /\ inited' = [inited EXCEPT ![r] = "yes"]
  /\ \E at \in CommitTime :
       mirror' = [mirror EXCEPT ![r] = StoreCommit(EmptySet, NoCommit, at)]
  /\ UNCHANGED <<remote, linked, pending, pblobs, pstats, odb, session, ghosts>>

\* It dies, or one of its git commands fails, once the clone is marked.
DmInitFails(r) ==
  /\ inited[r] # "yes"
  /\ faults < MaxFaults /\ faults' = faults + 1
  /\ inited' = [inited EXCEPT ![r] = "yes"]
  /\ EnsureRefspec(r) \/ UNCHANGED linked
  /\ UNCHANGED <<remote, mirror, pending, pblobs, pstats, odb, session,
                 authored, staged, dropped, bumped>>

\* A command finds the clone initialized.
Initialized(r) == inited[r] = "yes" \/ (inited[r] = "creating" /\ InitBeside)

\* The user adds the remote to a clone that had none.
AddRemote(r) ==
  /\ linked[r] = "none" /\ pc[r] = "idle"
  /\ linked' = [linked EXCEPT ![r] = "added"]
  /\ UNCHANGED <<remote, mirror, inited, pending, pblobs, pstats, odb, session, ghosts>>

\* The user runs git fetch, beside whatever dm is doing: no lock stops it.
GitFetch(r) ==
  /\ UserFetch /\ linked[r] = "ensured"
  /\ FetchInto(r)
  /\ UNCHANGED <<remote, inited, linked, pending, pblobs, pstats, session, ghosts>>

\* A record a command of clone r may append now.  Only a CR starts an entry;
\* every other record is refused unless its entry (each end of a link) lives
\* in the view; a verdict may be passed on any commit, but not on itself.  The
\* minter goes past everything pending.
Writable(r, x) ==
  /\ x \in Record \ acked
  /\ x.kind \notin {"CR", "VD"} => Living(View(r), x.entry)
  /\ x.kind = "VD" => x.as # x.origin
  /\ x.kind \in {"LN", "UL"} => Living(View(r), x.to)
  /\ \A p \in pending[r] : p.id < x.id

\* A command of a batch appends one record, durably, before it is acknowledged,
\* after staging the content it anchors if the object database lacks it.
Write(r, x) ==
  LET stage == x.blob # None /\ x.blob \notin odb[r]
  IN  /\ pc[r] = "idle" /\ Initialized(r)
      /\ Writable(r, x)
      /\ pending' = [pending EXCEPT ![r] = @ \cup {x}]
      /\ pblobs' = IF stage THEN [pblobs EXCEPT ![r] = @ \cup {x.blob}] ELSE pblobs
      /\ authored' = [authored EXCEPT ![r] = @ \cup {x}]
      /\ staged' = IF stage THEN staged \cup {x} ELSE staged
      /\ UNCHANGED <<remote, mirror, inited, linked, pstats, odb, session,
                     dropped, bumped, faults>>

\* It dies between the two.
WriteDies(r, x) ==
  /\ pc[r] = "idle" /\ Initialized(r)
  /\ Writable(r, x)
  /\ x.blob # None /\ x.blob \notin odb[r]
  /\ faults < MaxFaults /\ faults' = faults + 1
  /\ pblobs' = [pblobs EXCEPT ![r] = @ \cup {x.blob}]
  /\ UNCHANGED <<remote, mirror, inited, linked, pending, pstats, odb, session,
                 authored, staged, dropped, bumped>>

\* The bumps made so far.
Events == UNION {{<<q, e, n>> : n \in 1 .. bumped[q][e]} : q \in Replica, e \in Entry}

\* A read counts what it opened and flushes the deltas when it closes.
Bump(r, e) ==
  /\ pc[r] = "idle" /\ Initialized(r)
  /\ Living(View(r), e)
  /\ Cardinality(Events) < MaxBumps
  /\ bumped' = [bumped EXCEPT ![r][e] = @ + 1]
  /\ pstats' = [pstats EXCEPT ![r] =
                  AddStats(@, [NoStats EXCEPT ![e] = [n |-> 1, t |-> bumped[r][e] + 1]])]
  /\ UNCHANGED <<remote, mirror, inited, linked, pending, pblobs, odb, session,
                 authored, staged, dropped, faults>>

-----------------------------------------------------------------------------
(* dm sync.                                                                *)

\* The session opens: the lock, a snapshot of the mirror, and the refspec.
Open(r) ==
  /\ Initialized(r)
  /\ snap' = [snap EXCEPT ![r] = Content(mirror[r])]
  /\ EnsureRefspec(r)
  /\ UNCHANGED <<remote, mirror, inited, pending, pblobs, pstats, odb,
                 own, base, cand, attempt, ghosts>>

SyncOpen(r) == Goto(r, "idle", IF HasRemote(r) THEN "fetch" ELSE "mint") /\ Open(r)

\* With EnvSkipFetch set, the first fetch is left out.
SyncOpenSkipping(r) == HasRemote(r) /\ Goto(r, "idle", "mint") /\ Open(r)

SyncFetch(r) ==
  /\ Goto(r, "fetch", "mint")
  /\ FetchInto(r)
  /\ UNCHANGED <<remote, inited, linked, pending, pblobs, pstats,
                 snap, own, base, cand, attempt, ghosts>>

\* The commits a mint pass asks about: the origins of the records of entries
\* that are not deleted and the landed-as commits of the winning verdicts, but
\* for those that have a verdict.
Bindable(R) ==
  LET verdicts == {x \in R : x.kind = "VD"}
      winning == {v \in verdicts : \A w \in verdicts : w.origin = v.origin => w.id <= v.id}
  IN  (NoteOrigins({x \in R : ~Tombstoned(R, x.entry)}) \cup {v.as : v \in winning})
        \ {v.origin : v \in verdicts}

\* What it may append, one verdict after another: code history decides which.
Mintable(r) ==
  LET fresh == {v \in Record \ acked : /\ v.kind = "VD" /\ v.as # None
                                       /\ \A p \in pending[r] : p.id < v.id}
  IN  {V \in SUBSET fresh :
         \A v \in V : v.origin \in Bindable(View(r) \cup {w \in V : w.id < v.id})}

\* The mint pass appends the verdicts it finds to pending; then own is taken.
Mint(r) ==
  /\ Goto(r, "mint", "build")
  /\ \E V \in Mintable(r) :
       /\ pending' = [pending EXCEPT ![r] = @ \cup V]
       /\ own' = [own EXCEPT ![r] = pending[r] \cup V]
       /\ authored' = [authored EXCEPT ![r] = @ \cup V]
  /\ UNCHANGED <<remote, mirror, inited, linked, pblobs, pstats, odb,
                 snap, base, cand, attempt, staged, dropped, bumped, faults>>

\* Mutant of Merged: a newer epoch is adopted without one's own records.
MergedWholesale(r) ==
  IF Content(mirror[r]).epoch > snap[r].epoch
  THEN Content(mirror[r])
  ELSE WithOwn(Merge(snap[r], Content(mirror[r])), own[r], pblobs[r], r, pstats[r])

\* Mutant of Merged: what only the mirror held is not carried over the fetch.
MergedOnFetched(r) == WithOwn(Content(mirror[r]), own[r], pblobs[r], r, pstats[r])

\* What this sync would have the store hold, given what the mirror holds now.
Merged(r) ==
  WithOwn(Merge(snap[r], Content(mirror[r])), own[r], pblobs[r], r, pstats[r])

\* The candidate commit on the mirror's tip.  When it adds nothing, everything
\* pending already landed; without a remote, the local ref is where it lands.
Build(r) ==
  /\ pc[r] = "build"
  /\ \E at \in CommitTime :
       LET commit == StoreCommit(Merged(r), mirror[r], at)
       IN  /\ cand' = [cand EXCEPT ![r] = commit]
           /\ odb' = [odb EXCEPT ![r] = @ \cup BlobsOf(commit)]
           /\ pc' = [pc EXCEPT ![r] = IF mirror[r] # NoCommit /\ commit = mirror[r]
                                      THEN "clear"
                                      ELSE IF HasRemote(r) THEN "push" ELSE "update"]
  /\ UNCHANGED <<remote, mirror, inited, linked, pending, pblobs, pstats,
                 snap, own, base, attempt, ghosts>>

\* Mutant of PushLands: the push is forced.
PushLandsForced(r) ==
  /\ Goto(r, "push", "update")
  /\ remote' = cand[r]
  /\ UNCHANGED <<clone, snap, own, base, cand, attempt, ghosts>>

\* The push is a plain fast-forward.
PushLands(r) ==
  /\ Goto(r, "push", "update")
  /\ FastForward(remote, cand[r])
  /\ remote' = cand[r]
  /\ UNCHANGED <<clone, snap, own, base, cand, attempt, ghosts>>

\* Mutant of PushRejected: no bound on the attempts.
PushRejectedAlways(r) ==
  /\ ~FastForward(remote, cand[r])
  /\ Goto(r, "push", "refetch")
  /\ attempt' = [attempt EXCEPT ![r] = @ + 1]
  /\ UNCHANGED <<remote, clone, snap, own, base, cand, ghosts>>

\* The remote moved: fetch again and merge again, a bounded number of times.
PushRejected(r) ==
  /\ ~FastForward(remote, cand[r])
  /\ attempt[r] < MaxAttempts
  /\ Goto(r, "push", "refetch")
  /\ attempt' = [attempt EXCEPT ![r] = @ + 1]
  /\ UNCHANGED <<remote, clone, snap, own, base, cand, ghosts>>

\* Mutant of PushGivesUp: pending is cleared whether or not the push landed.
PushGivesUpCleared(r) ==
  /\ Goto(r, "push", "clear")
  /\ ~FastForward(remote, cand[r])
  /\ attempt[r] >= MaxAttempts
  /\ UNCHANGED <<remote, clone, snap, own, base, cand, attempt, ghosts>>

\* The last attempt lost its race too: the sync degrades to fetch-only.
PushGivesUp(r) ==
  /\ pc[r] = "push"
  /\ ~FastForward(remote, cand[r])
  /\ attempt[r] >= MaxAttempts
  /\ Exit(r)
  /\ UNCHANGED <<remote, clone, ghosts>>

\* The push fails for another reason, before or after it took effect.
PushFails(r) ==
  /\ pc[r] = "push"
  /\ \/ UNCHANGED remote
     \/ FastForward(remote, cand[r]) /\ remote' = cand[r]
  /\ Fault(r)
  /\ UNCHANGED <<clone, authored, staged, dropped, bumped>>

Refetch(r) ==
  /\ Goto(r, "refetch", "build")
  /\ FetchInto(r)
  /\ UNCHANGED <<remote, inited, linked, pending, pblobs, pstats,
                 snap, own, base, cand, attempt, ghosts>>

\* Mutant of UpdateRef: the mirror waits for the next fetch.
UpdateRefNot(r) ==
  /\ Goto(r, "update", "clear")
  /\ UNCHANGED <<remote, clone, snap, own, base, cand, attempt, ghosts>>

\* The mirror follows the landing.
UpdateRef(r) ==
  /\ Goto(r, "update", "clear")
  /\ mirror' = [mirror EXCEPT ![r] = cand[r]]
  /\ UNCHANGED <<remote, inited, linked, pending, pblobs, pstats, odb,
                 snap, own, base, cand, attempt, ghosts>>

\* Pending is cleared by name, file by file: records, then blobs, then stats.
ClearRecord(r) ==
  /\ pc[r] = "clear"
  /\ \E x \in own[r] \cap pending[r] :
       pending' = [pending EXCEPT ![r] = @ \ {x}]
  /\ UNCHANGED <<remote, mirror, inited, linked, pblobs, pstats, odb, session, ghosts>>

\* Mutant of ClearBlob: blobs go without waiting for the records.
ClearBlobFirst(r) ==
  /\ pc[r] = "clear"
  /\ \E b \in pblobs[r] : pblobs' = [pblobs EXCEPT ![r] = @ \ {b}]
  /\ UNCHANGED <<remote, mirror, inited, linked, pending, pstats, odb, session, ghosts>>

ClearBlob(r) ==
  /\ pc[r] = "clear"
  /\ own[r] \cap pending[r] = {}
  /\ \E b \in pblobs[r] : pblobs' = [pblobs EXCEPT ![r] = @ \ {b}]
  /\ UNCHANGED <<remote, mirror, inited, linked, pending, pstats, odb, session, ghosts>>

ClearStats(r) ==
  /\ pc[r] = "clear"
  /\ own[r] \cap pending[r] = {}
  /\ pblobs[r] = {}
  /\ pstats' = [pstats EXCEPT ![r] = NoStats]
  /\ Exit(r)
  /\ UNCHANGED <<remote, mirror, inited, linked, pending, pblobs, odb, ghosts>>

-----------------------------------------------------------------------------
(* dm gc.                                                                  *)

OpenGc(r) ==
  /\ Initialized(r)
  /\ Content(remote).epoch < MaxEpoch /\ Content(mirror[r]).epoch < MaxEpoch
  /\ EnsureRefspec(r)
  /\ UNCHANGED <<remote, mirror, inited, pending, pblobs, pstats, odb,
                 snap, own, base, cand, attempt, ghosts>>

GcOpen(r) == Goto(r, "idle", IF HasRemote(r) THEN "gcFetch" ELSE "gcSweep") /\ OpenGc(r)

GcOpenSkipping(r) == HasRemote(r) /\ Goto(r, "idle", "gcSweep") /\ OpenGc(r)

GcFetch(r) ==
  /\ \/ Goto(r, "gcFetch", "gcSweep")
     \/ Goto(r, "gcRefetch", "gcSweep")
  /\ FetchInto(r)
  /\ UNCHANGED <<remote, inited, linked, pending, pblobs, pstats,
                 snap, own, base, cand, attempt, ghosts>>

\* The mirror's tip, swept, becomes an orphan commit.
GcSweep(r) ==
  /\ pc[r] = "gcSweep"
  /\ mirror[r] # NoCommit
  /\ base' = [base EXCEPT ![r] = mirror[r]]
  /\ \E at \in CommitTime :
       cand' = [cand EXCEPT ![r] = Compact(Swept(Content(mirror[r]), Aged), at)]
  /\ pc' = [pc EXCEPT ![r] = IF HasRemote(r) THEN "gcPush" ELSE "gcUpdate"]
  /\ UNCHANGED <<remote, clone, snap, own, attempt, ghosts>>

\* Nothing to compact: no store yet.
GcNothing(r) ==
  /\ pc[r] = "gcSweep"
  /\ mirror[r] = NoCommit
  /\ Exit(r)
  /\ UNCHANGED <<remote, clone, ghosts>>

\* The lease: the remote still holds the tip that was swept (or git finds
\* nothing to do, the very commit being there already).
Lease(r) == remote = base[r] \/ remote = cand[r]

\* What landing r's compaction sweeps.
Drops(r) == Content(base[r]).recs \ Content(cand[r]).recs

\* Mutant of GcLands: the push is forced, without the lease.
GcLandsForced(r) ==
  /\ Goto(r, "gcPush", "gcUpdate")
  /\ remote' = cand[r]
  /\ dropped' = dropped \cup Drops(r)
  /\ UNCHANGED <<clone, snap, own, base, cand, attempt, authored, staged, bumped, faults>>

GcLands(r) ==
  /\ Goto(r, "gcPush", "gcUpdate")
  /\ Lease(r)
  /\ remote' = cand[r]
  /\ dropped' = dropped \cup Drops(r)
  /\ UNCHANGED <<clone, snap, own, base, cand, attempt, authored, staged, bumped, faults>>

\* Mutant of GcRejected: it tries the same lease again.
GcRejectedSpins(r) ==
  /\ pc[r] = "gcPush"
  /\ ~Lease(r)
  /\ attempt[r] < MaxAttempts
  /\ UNCHANGED vars

GcRejected(r) ==
  /\ ~Lease(r)
  /\ attempt[r] < MaxAttempts
  /\ Goto(r, "gcPush", "gcRefetch")
  /\ attempt' = [attempt EXCEPT ![r] = @ + 1]
  /\ UNCHANGED <<remote, clone, snap, own, base, cand, ghosts>>

GcGivesUp(r) ==
  /\ pc[r] = "gcPush"
  /\ ~Lease(r)
  /\ attempt[r] >= MaxAttempts
  /\ Exit(r)
  /\ UNCHANGED <<remote, clone, ghosts>>

GcFails(r) ==
  /\ pc[r] = "gcPush"
  /\ \/ UNCHANGED <<remote, dropped>>
     \/ Lease(r) /\ remote' = cand[r] /\ dropped' = dropped \cup Drops(r)
  /\ Fault(r)
  /\ UNCHANGED <<clone, authored, staged, bumped>>

\* The mirror follows; without a remote this is where the compaction lands.
GcUpdate(r) ==
  /\ pc[r] = "gcUpdate"
  /\ mirror' = [mirror EXCEPT ![r] = cand[r]]
  /\ dropped' = IF HasRemote(r) THEN dropped ELSE dropped \cup Drops(r)
  /\ Exit(r)
  /\ UNCHANGED <<remote, inited, linked, pending, pblobs, pstats, odb,
                 authored, staged, bumped, faults>>

-----------------------------------------------------------------------------
\* The process dies, or a git command (a fetch, a ref update, reading the
\* store) or a file operation fails under it, anywhere in an invocation: either
\* way it is over at once and what it did so far stays.
Crash(r) ==
  /\ pc[r] # "idle"
  /\ Fault(r)
  /\ UNCHANGED <<remote, clone, authored, staged, dropped, bumped>>

\* The steps of an invocation that has started.
SyncStep(r) ==
  \/ SyncFetch(r) \/ Mint(r) \/ Build(r)
  \/ PushLands(r) \/ PushRejected(r) \/ PushGivesUp(r) \/ Refetch(r)
  \/ UpdateRef(r) \/ ClearRecord(r) \/ ClearBlob(r) \/ ClearStats(r)

GcStep(r) ==
  \/ GcFetch(r) \/ GcSweep(r) \/ GcNothing(r)
  \/ GcLands(r) \/ GcRejected(r) \/ GcGivesUp(r) \/ GcUpdate(r)

Next ==
  \E r \in Replica :
    \/ DmInit(r) \/ CreateStore(r) \/ DmInitFails(r) \/ AddRemote(r) \/ GitFetch(r)
    \/ \E x \in Record : Write(r, x) \/ WriteDies(r, x)
    \/ \E e \in Entry : Bump(r, e)
    \/ SyncOpen(r) \/ SyncOpenSkipping(r) \/ SyncStep(r) \/ PushFails(r)
    \/ GcOpen(r) \/ GcOpenSkipping(r) \/ GcStep(r) \/ GcFails(r)
    \/ Crash(r)

Spec == Init /\ [][Next]_vars
-----------------------------------------------------------------------------
(* What is true of every state.                                            *)

Commit == Seq([tree : StoreSet, at : CommitTime])

\* The values the variables range over.
TypeOK ==
  /\ remote \in Commit
  /\ mirror \in [Replica -> Commit]
  /\ inited \in [Replica -> {"no", "creating", "yes"}]
  /\ linked \in [Replica -> {"none", "added", "ensured"}]
  /\ pending \in [Replica -> SUBSET Record]
  /\ pblobs \in [Replica -> SUBSET Blob]
  /\ pstats \in [Replica -> Stats]
  /\ odb \in [Replica -> SUBSET Blob]
  /\ pc \in [Replica -> Pcs]
  /\ snap \in [Replica -> StoreSet]
  /\ own \in [Replica -> SUBSET Record]
  /\ base \in [Replica -> Commit]
  /\ cand \in [Replica -> Commit]
  /\ attempt \in [Replica -> 1 .. MaxAttempts]
  /\ authored \in [Replica -> SUBSET Record]
  /\ staged \subseteq Record /\ dropped \subseteq Record
  /\ bumped \in [Replica -> [Entry -> Nat]]
  /\ faults \in Nat

Shared == Content(remote).recs
Held == UNION {pending[r] : r \in Replica}

\* No record is ever lost: whatever was acknowledged is on the remote, or
\* still pending in some clone, or was swept by a compaction that landed.
\* Pending is cleared, the remote forced and the mirror overwritten under
\* crashes, lost replies, races and compactions.  It is of clones that have a
\* remote from the start: VanishesWithItsSync is of those that get one late.
NoLostRecord == acked \subseteq Shared \cup Held \cup dropped

\* A clone keeps seeing what it wrote, through every step of its own syncs
\* and compactions and of the others': in its mirror or pending, unless swept.
ReadYourWrites ==
  \A r \in Replica : authored[r] \subseteq View(r) \cup dropped

\* A record of the remote whose content was staged with it has the content
\* beside it, even one that lands again after its compaction.
StagedBlobLands ==
  \A x \in Shared \cap staged : x.blob \in Content(remote).blobs

\* Where a record can be at all: beside the above, in the mirror of a clone or
\* in the memory of a running sync.
Somewhere ==
  Shared \cup Held \cup dropped
    \cup UNION {Content(mirror[r]).recs \cup snap[r].recs : r \in Replica}

\* Clone r's deltas have landed, but are not cleared yet.
Landed(r) == pc[r] \in {"update", "clear"}

Register(r, e) == Content(remote).stats[r][e].n
Unshared(r, e) == IF Landed(r) THEN 0 ELSE pstats[r][e].n

\* While the entry was not deleted by anybody, no stat event is forgotten by
\* the merges, the retries or the compactions.
StatsNeverLost ==
  \A r \in Replica, e \in Entry :
    ~Tombstoned(acked, e) => Register(r, e) + Unshared(r, e) >= bumped[r][e]

\* No stat event is counted twice by a push that is retried.
StatsCountOnce ==
  \A r \in Replica, e \in Entry :
    Register(r, e) + Unshared(r, e) <= bumped[r][e]

\* None is as long as no invocation is cut short between its landing and the
\* end of its clearing.
StatsExact == faults = 0 => StatsCountOnce

-----------------------------------------------------------------------------
(* What is true of every step.                                             *)

\* A record gets to the remote from the pending of a clone and from nowhere
\* else: what a compaction swept is never pushed back from an old mirror.
NoResurrection ==
  [][Content(remote').recs \ Shared \subseteq Held]_vars

\* A record leaves the remote only in a step that raises the epoch, so that
\* every clone with an older copy is told; and no step lowers the epoch.
ForgottenOnlyByCompaction ==
  [][/\ Shared \ Content(remote').recs # {}
          => Content(remote').epoch > Content(remote).epoch
     /\ Content(remote').epoch >= Content(remote).epoch]_vars

\* A record can vanish in three ways, all of a clone whose remote came late:
\* the sync that carries it over its own fetch ends before it lands, or finds
\* the remote in another epoch; or a gc fetches, and carries nothing.  A sync
\* that lands in one epoch has carried all that the mirror held.
VanishesWithItsSync ==
  [][\A x \in Somewhere \ Somewhere' :
       \E r \in LateRemote :
         \/ /\ x \in snap[r].recs /\ pc'[r] = "idle"
            /\ pc[r] = "clear" => snap[r].epoch < Content(mirror[r]).epoch
         \/ pc[r] \in {"gcFetch", "gcRefetch"} /\ pc'[r] = "gcSweep"]_vars

\* A sync that reports success to a clone with a remote has shared what the
\* clone's mirror has.
SuccessIsShared ==
  [][\A r \in Replica :
       pc[r] = "clear" /\ pc'[r] = "idle" /\ faults' = faults /\ HasRemote(r)
         => Content(mirror[r]).recs \subseteq Shared \cup dropped]_vars

\* Once a clone reads an entry as deleted, it never reads it as living again.
DeletedStaysDeleted ==
  [][\A r \in Replica, e \in Entry :
       Tombstoned(View(r), e) => Tombstoned(View(r)', e)]_vars

-----------------------------------------------------------------------------
(* The promise it implements.                                              *)

Promise == INSTANCE SharedStore WITH
  Terminal <- {x \in Record : x.kind = "TB"},
  written <- acked,
  held <- Held,
  shared <- Shared,
  swept <- dropped,
  epoch <- Content(remote).epoch

\* Every step of the clones and of git is a step of SharedStore, or none.
KeepsPromise == Promise!Spec

-----------------------------------------------------------------------------
(* What must happen.                                                       *)

\* The steps of a running invocation go on: nothing in one waits for another.
Progress == \A r \in Replica : WF_vars(SyncStep(r)) /\ WF_vars(GcStep(r))

\* The user of each clone initializes it and syncs, with the fetch, again and
\* again.
KeepsSyncing ==
  \A r \in Replica :
    WF_vars(DmInit(r)) /\ WF_vars(CreateStore(r)) /\ SF_vars(SyncOpen(r))

LiveSpec == Spec /\ Progress /\ KeepsSyncing

\* Every invocation ends, however many races it loses.
Terminates == \A r \in Replica : pc[r] # "idle" ~> pc[r] = "idle"

\* Every record is shared in the end.
EventuallyShared == \A x \in Record : x \in acked ~> x \in Shared \cup dropped

\* Every clone ends up with what the remote has, and with nothing pending.
EventuallyConverged ==
  <>[](\A r \in Replica : Content(mirror[r]) = Content(remote) /\ pending[r] = {})

=============================================================================
