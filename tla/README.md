# Dark Matter in TLA+

Dark Matter (`dm`) keeps notes on a code base in a git ref of its own,
`refs/dm/store`, which every clone mirrors, merges and pushes without a
coordinator. This directory holds a model of it: TLA+ modules translated from
the Go source, TLC runs over small instances, and theorems checked by TLAPS.
`PROJECT.json` maps every definition to the lines it models and lists the runs,
the mutants each property is tested with, the findings, the hazards and the
theorems.

The source paths below are relative to `src/`; in the tables and lists `app/`,
`core/`, `gitio/`, `evcache/`, `local/` and `store/` are those of `internal/`.

## 1. The system

Notes are *entries*. Everything said of an entry is an immutable one-line
record with a rec-id (a ULID): created `CR`, superseded `SU`, re-anchored `RA`,
re-pathed `RP`, tombstoned `TB`, linked `LN`, unlinked `UL`, disputed `FB`; and
a verdict `VD` says of a code commit what it landed as after a rewrite, or that
it did not. What a checkout reads of an entry is a fold over the records whose
origin commit has landed there.

| component | state | operations | interacts through |
|---|---|---|---|
| `internal/core/union` (union, stats) | none: a value, the store | `Merge`, `WithOwn`, `AddStats`, `mergeStats` | called by sync, session |
| `internal/core/union/sweep.go` | none | `Sweep` | called by gc |
| `internal/store` | the commits of `refs/dm/store` | `Tip`, `Read`, `Commit`, `Compact` | git objects; sync, gc, init |
| `internal/app/initcmd.go` | clone marker, refspec, the first store commit | `Init` | takes no lock; fetches |
| `internal/app/sync.go` | the mirror ref, pending, the remote ref | `Sync` | git fetch/push, mint pass, store |
| `internal/app/gc.go` | the mirror ref, the remote ref | `GC` | git fetch/push with lease, sweep |
| `internal/app/session.go` | a snapshot, the stat deltas | `OpenSession`, `View`, `Bump*`, `Close` | the lock, local, store |
| `internal/app/batch.go` | memos of a batch: classes, readings, resolutions, handles | commands of a batch; `absorb`, `classify`, `fold`, `resolution` | session, lineage, fold, resolve |
| `internal/app/mint.go` | `nomatch` memos | `mintM1`, `mintPass` | executor, ladder |
| `internal/app/worklist.go` | none | `Worklist` | executor |
| `internal/local` | `.git/.dm`: replica id, pending records, blobs and stats, cache, lock | append, stage, clear, `Lock` | session, sync |
| `internal/core/lineage` (lineage) | none | `WinningVerdicts`, `LandedBindings`, `Classify` | executor, with code history as data |
| `internal/core/lineage/ladder.go` | none | the matchers m1 to m3 | mint pass |
| `internal/core/fold` | none | `Fold`, `Links` | executor |
| `internal/core/record` | the minter's floor | types, codec, `Minter`, `DeriveHandle` | everything |
| `internal/core/resolve` | none | `Resolve` (rule (a)) | executor, worklist |
| `internal/core/view` | none | ranking, previews | executor, cli |
| `internal/evcache` | rename pairs and the unreachable set on disk | `RenamePairs`, `ReachableFrom` | lineage, resolve |
| `internal/gitio`, `core/evidence` | git itself | plumbing, queries | everything |
| `internal/cli`, `cmd` | none | parse, render, dispatch | app |

What is hard:

* **Concurrency between clones.** A sync or gc is a dozen separate steps on
  files, refs and the remote; other clones take theirs in between, and every
  push can lose a race. One clone runs one invocation at a time (a flock), but
  `dm init` takes no lock, and the user's own `git fetch` moves the mirror.
* **Failure.** An invocation can die anywhere; a push can land and its reply be
  lost; fetches and ref updates fail. Nothing undoes half an invocation.
* **Compaction.** It deletes records without seeing other clones' pending.
  Records that reference what was swept land later; clones still hold old
  copies.
* **Order.** Records reach a clone in any order, while fold, sweep and lineage
  decide by rec-id.
* **Memos.** A batch remembers classifications, readings and resolutions while
  it writes the records that change them; a file remembers which origins are
  dead while the refs move.
* **Guessing.** Where a note is, after its file was edited, moved, copied and
  committed, is a decision over partial evidence, which the next command trusts
  and writes down.

What makes each part correct:

* *sync, gc, init*: an acknowledged record is never lost; its author goes on
  reading it; what was swept is not pushed back; the remote forgets nothing but
  by a compaction; everything is shared in the end and the clones converge.
* *union*: merging is a join, so that the order of meetings is of no account.
* *stats*: no event is forgotten, and none counts twice.
* *sweep*: deletions stay; a checkout reads what it read before; verdicts
  outlive the records they classify; a second sweep finds nothing.
* *executor*, *evcache*: a memo is what would be computed afresh.
* *commands*, *worklist*: every living note is on a page one comes to, or on the
  worklist, and some verb takes it there; a repair heals; a `mv` that was cut
  short completes when it is given again.
* *mint pass*, *ladder*: a note follows its line through rewrites, and never to
  what a branch was used for afterwards; a manual verdict stands and settles its
  whole group; a remembered failure hides no landing.
* *session, local, mint*: the overlay is the disk; a clone's records have ids in
  the order it wrote them; no stat delta is overwritten; whoever waits for the
  lock gets it.
* *resolve* and the verbs `a`, `k`, `u`, `mv`: a note follows its content, is
  never shown on something else while the content is there, and stays put once
  it has been put.

## 2. Modules

| module | models | over the code |
|---|---|---|
| `Union` | the store as a value, and a commit of the store branch as its own history | `core/union/union.go`, `store/store.go`, `gitio` push semantics |
| `Sweep` (extends Union) | `union.Sweep` | `core/union/sweep.go` |
| `Fold` (extends Sweep) | what a checkout reads of an entry | `core/fold/fold.go` |
| `Lineage` (extends Union) | which commits count as landed | `core/lineage/lineage.go` |
| `Resolve` | rule (a): where a note is | `core/resolve/resolve.go` |
| `Ladder` | code history, segments, and the matchers m1, m2, m3 | `core/lineage/ladder.go`, `gitio/forensics.go` |
| `DmSync` (extends Sweep) | clones running init, writing commands, sync and gc against one remote | `app/initcmd.go`, `sync.go`, `gc.go`, `session.go`, `local/local.go`, the writing side of `batch.go` and `mint.go` |
| `Invocation` | the processes of one clone: lock, session, minting, pending files | `local/lock.go`, `local/local.go`, `app/session.go`, `core/record/mint.go` |
| `Compaction` (extends Fold, Lineage) | one store under arrivals and sweeps, beside the same store never swept | `sweep.go`, `fold.go`, `lineage.go` together |
| `Executor` (extends Fold, Lineage; uses Resolve) | the memos of a batch | `app/batch.go` |
| `Commands` (extends Executor) | the verbs of a batch, handles, `mv` and `rm` record by record, pages and worklist debt | `app/batch.go`, `app/worklist.go`, `core/record/handle.go` |
| `MintPass` (extends Ladder, Lineage) | one clone whose user and forge rewrite history, and the verdicts dm mints | `app/mint.go`, `app/sync.go`, the groups of `worklist.go`, `verdict` of `batch.go` |
| `UnreachCache` | the file of dead origins against a code history that changes | `evcache/unreach.go`, `local/cache.go`, `gitio/forensics.go` |
| `Placement` (extends Resolve) | a note, the checkout under it, and the verbs that put it back | `app/batch.go`, `gitio/evidence.go` |
| `SharedStore` | the abstract promise of sharing | design.md 8.4 and 8.7; implemented by DmSync |
| `MCDmSync`, `MCCompaction`, `MCCommands`, `MCMintPass`, `MCInvocation`, `MCUnreachCache`, `MCPlacement` | the records, histories and trees of the TLC instances | |
| `DmSyncProofs` | theorems on `DmSync`, `Union` and `SharedStore`: nothing is lost, merging is a join, the refinement and what it promises, what a clone reads of its own, counts, contents and deletions | |
| `InvocationProofs`, `CompactionProofs`, `UnreachProofs`, `PlacementProofs`, `MintPassProofs` | theorems on the modules of these names | |
| `ExecutorProofs` | theorems on `Commands` and the `Executor` it extends: memos, repairs, `mv`, what is in reach | |
| `Induction` | what proofs about recursive functions, folds, orders, maxima and finite images rest on | |

A definition named `XBy...`, `XNot`, `X...Forced` and the like just before a
definition `X`, with the comment "Mutant of X", is a plausible bug in X. It is
used by no specification; put in the place of X it must break the property
`PROJECT.json` names beside it.

### DmSync, state and steps

`remote`, `mirror[r]` are the two ends of `refs/dm/store`. A commit has at most
one parent, so it is represented by its history, the sequence of its trees with
their commit times: a fast-forward is a prefix, two commits are one object
exactly when the sequences are equal, and identical orphan commits of two
compactors coincide just as they do in git. `pending`, `pblobs`, `pstats` are
the files under `.git/.dm/pending`, `odb` the anchored contents that git has,
`inited` and `linked` are the marker file and the remote with its refspec.

`pc[r]` is where the running invocation stands; `snap` is `Session.StoreSet`,
`own`, `cand`, `base`, `attempt` are the locals of `Sync` and `GC`. The steps
of a sync are `SyncOpen`, `SyncFetch`, `Mint`, `Build`, then `PushLands`,
`PushRejected` (and `Refetch`, back to `Build`), `PushGivesUp` or `PushFails`,
then `UpdateRef` and the clearing, one file a step (`ClearRecord`, `ClearBlob`,
`ClearStats`). Gc is `GcOpen`, `GcFetch`, `GcSweep` (or `GcNothing`),
`GcLands`, `GcRejected`, `GcGivesUp` or `GcFails`, and `GcUpdate`. `Crash` ends an
invocation at any of these places and stands as well for a fetch, a ref update
or a file operation that fails. `DmInit` and `CreateStore` are the two halves
of `dm init` around the check it acts on, and what git does before the check is one step;
`AddRemote` and `GitFetch` are the user's. `authored`, `staged`, `dropped`, `bumped`, `faults` are read by the
properties and the bounds only.

Abstractions: a record is the parts the policy reads; its bytes are a rank,
which `Merge` compares when one id comes with two contents. The three counters
of a stat row are treated alike by all of the code, so one stands for all. The
commit time is a choice. Which verdicts a mint pass finds depends on code
history, so `Mintable` leaves it open within what `bindCandidates` lets it bind.
A commit is built and written in one step: until it is pushed or a ref names
it, nobody sees it. That one invocation runs at a time, that a record is
appended in one step, and that ids go up within what is pending, is what
`Invocation` shows of the code below.

### Invocation

`lock`, `whole`, `torn` and `stats` are the files: the holders of the flock, the
pending records that are written, those that are created and not (or never)
written, and the accumulator. `pc`, `seen`, `floor`, `drawn`, `minted`, `opened`
and `deltas` are of each process. An id is a millisecond and a tail; `Mintings`
is `MintRecID` with the monotonic entropy of the ULID library and the floor that
the session resumes from pending. `Create` and `Append` are the two halves of
`AppendPendingRecord`; `LoadFails` is the refusal to open over a file that is no
record. A sync is, for this module, an invocation that clears.

### Compaction and UnreachCache

`Compaction` has two stores side by side, `full` that was never swept and
`kept` that was. `Arrive` lands a record that its writer could have written,
that is, after what it refers to; `SweepAt(t)` runs `Sweep` at a clock that goes
forward. The properties compare what a checkout would read of the two. `late`
and `swept` tell them what came after a sweep.

`UnreachCache` has the commit graph, the object database, the shallow cut, the
refs and the state file, and one query: `Ask` lists the refs, `Revalidate` keeps
the dead the refs' movement cannot have revived, `Scan` asks git for each of the
rest, `Answer` writes back. The user's git runs at every step between.

### Executor and Commands

`Executor` has the records a batch has absorbed and `memo`, the four maps of the
executor struct: classes of origins, readings of entries, resolutions, links. A
lookup is a function from a memo to a larger one (`Folded(m, e)`, `Resolved(m, e)`,
`WithLinks(m)`): it computes what is missing the way `fold`, `resolution` and
`linkSet` do, from what `m` says by then, stale or not. `Forget` drops what the
invalidation in `absorb` and `addEntryRecord` drops. A batch classifies the
origins missing from its memo in one call, in some order, with the batched
closure of `Classify`, since walks of several origins share it. The checkout is
clean and stays at `Here`; `Resolve` decides over its tree, with renames that are
either renames of whole contents or none.

A command of `Commands` first extends the memo by what it reads (`HasRead`,
`HasSeen`), then decides by the memo `m` it has by then and commits one record
(`Commits`, `Repairs`). A handle is the set of the entries whose tails begin with
it: a short form is one of `Twins`, the extended form is a singleton; `Addressed`
is `resolve`, for a repairing verb or another. `mv` and `rm` begin (`Macro`) with
the list that `homedAt` gives and take one `MacroStep` per note; `NextBatch` ends
the batch between any two records, and may bring records of other clones. `Look`
is `r`, a worklist or a mint pass, and whatever a command reads for its reply.
`last` is the last repairing command, with what was known before it. A path is
the sequence of its segments, the last one "" for a folder.

### Ladder and MintPass

A commit is its parents and its tree, a set of changes, each with a size in
lines; a patch is what it adds and takes away. On these `Ladder` has segments,
merge bases, the reflog filter of m1, the replay of m2 commit by commit and the
squash of m3 with its floor and its single candidate. `MintPass` has the commits,
the shallow cut, the tips of local and remote branches, the reflogs and `head`;
and of dm the origins that have a note, the winning `verdict` of each origin and
the `nomatch` memos. The user commits, merges, amends, rebases with any commits
left out, resets, switches branches and deepens; the forge goes on, squashes or
rebases, and others see it at the next fetch. `Batch`, `SyncFetch` and `SyncMint`
run the pass as the sequence of its attempts, in every order that the code leaves
open; `SyncDies` and `BatchDies` cut it after any attempt and within the verdicts
of the next. `SyncFetch` takes both ref snapshots and the fetch between them as one step, so the
forced updates are of remote branches; `mint.go` compares the local ones as well, which
move there only if the user's git runs beside the fetch. `Judge` is a `vd` of the user, after the pass of its own batch.
`rewrites`, `owed`, `tried` and `settled` are of no code: what the properties
compare with.

### Resolve and Placement

`Resolve` has the whole decision of the functions `file` and `folder` as
operators: the five layers for a file (the content at the hint; the content
elsewhere; what is similar to it at the hint or at a rename pair, by score, margin
and affinity; the hint if `mv` put the note there; nothing) and the four ranks for
a folder (its path; its very subtree elsewhere; the vote of its members; nothing),
with the states `stale`, `unconfirmed`, `split` and `scattered`. A path is the
sequence of its segments; how similar two contents are is data. The trails of
runners-up and votes that a resolution carries for the worklist are left out.

`Placement` has `head`, `tree` and one `note`. The user edits, moves files and
folders, and commits; `Create`, `Pull`, `Keep`, `KeepAt` and `Move` are the
verbs. `Pairs` is what git's rename detection may say: any pairing of a new path
with a similar old one, or none. Every property is stated for every outcome.

## 3. Runs

| run | instance | shows |
|---|---|---|
| `init_beside` | 2 clones, a record and its deletion, 1 compaction, no fault; commands beside `dm init`, and the user's git fetch anywhere; a push that loses its race is tried again | `TypeOK`, `NoLostRecord`, `NoResurrection`, `ForgottenOnlyByCompaction` |
| `sync_stats` | 2 clones, 3 events, 1 fault, 1 compaction | `StatsNeverLost`; `StatsExact`: no event counts twice without a fault |
| `sync_contents` | two notes on one uncommitted content, a deletion, 1 compaction, 1 fault, one attempt a push; no git fetch and no command beside dm | that DmSync implements `SharedStore` (`KeepsPromise`); `ReadYourWrites`, `StagedBlobLands`, `DeletedStaysDeleted` |
| `sync_live` | 2 clones, one record, 1 compaction, 1 fault, fairness | `Terminates`, `EventuallyShared`, `EventuallyConverged` |
| `late_remote` | a clone that starts without a remote, 2 faults, 1 compaction | `VanishesWithItsSync` |
| `late_unshared` | the same, two entries, no fault | a violation of `SuccessIsShared` |
| `sweep` | an entry with every kind of record on three lines, another entry, a link made and unmade, verdicts in a chain; late arrivals; sweeps at two times | `DeletionIsForever`, `ReadsAsIfUnswept`, `HasBodyInTime`, `VerdictsOutlive`, `SweepIsDone` |
| `commands` | a folder that was split up, a file rewritten; a note on each, one of a dead line that went on without this checkout, a dispute, a link, a new note; handles that collide; three clones that judge, do not, or see the other line on a branch; 2 commands | `OriginsCurrent`, `ReadingsCurrent` (classes, readings, resolutions and links), `NoNoteIsOutOfReach`, `RepairsHeal`, `MovesResume` |
| `mint` | a topic of one or two commits beside a default branch, a second branch on it or elsewhere, full or shallow; 3 events of the history, 2 notes, 1 manual verdict | `OneVerdictRepairsGroup`, `VoidStands`, `OnlyRewritesBind`, `MemosHideNothing`, `FirstRewriteKeepsNotes` |
| `unreach` | a diamond of 4 commits, 2 refs, an origin, full and shallow clones | `DeadIsDead`, `FileIsSound` |
| `invocation` | 2 processes, clocks that jump both ways, 2 faults, fairness | `OverlayIsDisk`, `StatsKept`, `AppendsInOrder`, `NobodyWaitsForever` |
| `placement` | 2 folders one with a folder in it, 3 contents of 84, 65 and 10 percent, 2 changes by the user, 2 verbs | `ContentIsFollowed`, `FolderIsFollowed`, `PinnedIsSeen`, `SeenCanBeBlessed`, `RepairSettles` |

### Bounds

* `DmSync`: `MaxEpoch` = 1 (compactions start below that epoch), `MaxFaults`
  (crashes, transport failures, lost replies), `MaxBumps`, `MaxAttempts` = 2 (5 in
  the code), `CommitTime`, the set of records. `sync_contents`, which has three
  records and a fault, makes do with one attempt; what it checks of records is
  proved for any number. Two clones are the writer and the
  racer; that any number of clones loses nothing is proved. Two attempts
  exercise the rejection, the retry and the giving up; further ones repeat the
  retry with the same state. One compaction suffices for a clone to be an epoch
  behind; the mutants of the epoch rule, the lease and the fast-forward are all
  caught at this bound. A single fault at any step, with everybody else going
  on, covers every place at which an invocation can be cut; `late_remote` has
  two, since its sync must be cut after something else failed, and `init_beside`
  none: `KeepsPromise`, which implies `NoLostRecord`, has the faults. `Aged`, the
  records a compaction finds old enough, is empty here: a compaction takes the
  bodies of what is deleted, and the rules of age are those of `Compaction`.
* `Compaction`: `SweepTime` = {1, 3}, the moments a sweep may run at: before and
  after the revision that replaces the first. `MaxChainDepth` is the code's 16.
* `Commands`: `MaxCommands` = 2, a second command over what the first one left
  in the memos and in the checkout's reading, any number of batches around them,
  and a `mv` given again after it was cut; `MaxChainDepth` = 2, for the chain of
  two that two verdicts make. The bounds stop it: no deadlock check.
* `MintPass`: `MaxWork` = 3 events of user and forge together, of which a rewrite,
  another and what a fetch brings is the shortest history that binds through a
  chain; `MaxNotes` = 2, so that a line has a note that is bound and one that is
  not; `MaxJudged` = 1. Changes `Edit` = {a, c} of 3 and 1 lines and one of 4 on
  the default branch, `MinDiffFloor` = 3, the code's: above, at and below the
  floor. `MaxChainDepth` = 4 is longer than any chain here. The bounds stop it.
* `UnreachCache`: the history is given, finite, and every ref may go anywhere in
  it, so nothing else needs a bound. A diamond has a fast-forward, a fork, a
  merge and a reset. `Retreats` says that refs may also lose commits while a
  query runs.
* `Invocation`: `MaxMints` = 3, `MaxEvents` = 2, `MaxFaults` = 2, `Tails` = 2 and
  `Clock` = {0, 2}: a millisecond runs out at its second id, and the clock can
  stay, jump ahead and step back, with a millisecond between into which the
  minter rolls over.
* `Placement`: `MaxEdits` = 2, `MaxRepairs` = 2, commits as they like. Two changes
  are a move with an edit, or a move and a move on. The bounds stop it, so this
  run does not check deadlock. Every layer for files and folders, `split` and
  `unconfirmed` are reached; "scattered" is not, since it takes more than four
  targets with a share under a quarter each.

The passing runs fire every action.

### A disagreement between the code and its comments

`late_unshared`: a clone that synced while it had no remote has everything in its
mirror and nothing pending. The remote is added; the first sync fetches from it
nothing, finds its candidate equal to its own mirror, takes this for "everything
pending already landed" (`app/sync.go:212`), reports success and pushes nothing.
The next record that is written takes everything along. That this takes a clone whose
remote comes late is proved (`SyncsShare`, section 5).

### Met while modelling

These have no run of their own. Where a property of a run leaves the cause out,
it is named.

* `app/sync.go:206`: a sync that dies between its landing and `ClearPendingStats`
  has its deltas added again by the next (design.md:632-633 says that pending is
  cleared after). `StatsExact` is of histories without a fault.
* `app/sync.go:147`: a clone that gets its remote late has what it shared with
  itself in its mirror only. The first fetch is forced and replaces the mirror;
  if the sync then fails, the records are gone. A gc there replaces it too, and
  carries nothing; and a merge across epochs keeps the remote's side alone
  (`core/union/union.go:48`, design.md:984). `VanishesWithItsSync` says these are
  all the ways.
* `app/initcmd.go:82`: `dm init` finds no store; a first `dm sync` beside it makes
  one and clears pending; `dm init` then overwrites the ref with the empty
  store. Without a remote nothing else has the records. `NoLostRecord` is checked
  with commands beside `dm init`, and holds since there is a remote. A clone's own
  reading does step back until its next sync: `ReadYourWrites` is of clones that
  run nothing beside `dm init`.
* `app/sync.go:232`: the user's fetch brings a deletion between a sync's push and
  its ref update, which steps the mirror back until the next fetch.
  `DeletedStaysDeleted` is checked without such a fetch.
* `app/batch.go:1060`: content is in the object database from a store commit that
  has been compacted; a new note on it is shared without it. `StagedBlobLands`
  is of records whose content was staged.
* `core/union/sweep.go:123`: an `RP` older than a swept note lands after the sweep:
  its entry is present where it has landed, with no body (design.md:1141-1143).
  `HasBodyInTime` is of marks that arrive before the sweep.
* `core/union/sweep.go:136`: after a sweep a line may read an older revision than
  its own, where the design has it read the entry as pending elsewhere.
* `core/lineage/lineage.go:119`: two origins on a verdict chain longer than the
  depth, asked in one batch, cut each other short. `OriginsCurrent` is checked
  with chains within the depth, and proved for them (`ChainsEnd`, section 5).
* `evcache/unreach.go:65`: `git fetch --unshallow` moves no ref and makes dead
  origins reachable; the file does not notice. And `unreach.go:31`: a ref that
  retreats while a query runs and later comes back to where it was listed leaves
  a file that is wrong for good. `DeadIsDead` and `FileIsSound` leave out a file that
  outlived a deepening, and one made by a query during which any ref retreated or
  was deleted, whether it comes back or not (`tainted`).
* `evcache/evcache.go:62-70`: an origin that is not fetched has no pairs, and this
  is remembered under a key that does not change when it is fetched, so presence is
  not validity (line 46). And the diff is of the working tree as it is by then,
  while `Clean` and `HeadTree` are of the snapshot the invocation began with: an
  edit made in between is remembered under the key of the clean tree.
* `gitio/evidence.go:208`: a folder renamed with plain `mv` is untracked, pairs
  with nothing, and its note is orphaned until `git add`.
* `core/record/mint.go:71`: the floor is of what is pending, not of what was
  shared: after a sync a clock that stepped back mints ids below it.
* `local/local.go:81`: a record file torn by a crash makes every later session
  refuse to open, until it is removed by hand.

Of the mint pass and the ladder:

* `app/mint.go:75`: an origin has one winning verdict. A commit that was rewritten
  before, on another branch or before a reset, is not bound to what it becomes
  the next time, and its notes are not visible there, against the table of
  design.md:91. `FirstRewriteKeepsNotes` is of the first rewriting.
* `core/lineage/lineage.go:30-32`: an origin that is reachable is abandoned all
  the same when a verdict of it ends its chain in a dead commit.
* `app/mint.go:12-13` (design.md:1379-1380): m2 gets the forced updates of dm's own
  fetch. Those of the user's fetch, and those of a sync that dies before it has
  minted, are seen by nobody again.
* `app/mint.go:124`: m1 takes one branch after the other. A commit that was rewritten
  on one and, as what it became, on another that comes earlier is bound all the
  way by the second pass, not by the first.
* `app/mint.go:171`: m2 and m3 share their memo, so a forced update that m2 gave
  up on is not tried by m3, which could find it. The cache is therefore not free
  to lose, or to keep, as `local/cache.go:16-17` has it. `MemosHideNothing` leaves
  just this out.
* `core/lineage/ladder.go:41`: the reflog entries of `git pull --rebase` begin with
  neither prefix, and m1 misses them.

Of the verbs:

* `app/batch.go:926-941`: a `mv` of a folder to the root gives every note under it a
  path that begins with `./` and is in no tree, so each of them fails; and a folder
  moved into itself is moved again by the `mv` that is to finish it (`MovesResume`
  is of the notes whose new path is not under the old one too, or is where they are). `mv` takes what is visible, and of the worklist
  not the abandoned entries (design.md 6.5 names both).
* `app/batch.go:221` (design.md:229-236): a new entry makes the short handle of an
  older one ambiguous; and a short handle whose entry is deleted, not visible or
  debt is taken by the verbs that do not repair as the other entry with it that is
  visible (`batch.go:411-484`).
* `core/fold/fold.go:105-133`: a `k` or `mv` of a note that was rescued from a dead
  line reads the newest body before it, which may be one that has not landed.
* `app/batch.go:607-617`: a command that has committed and then fails to read what
  its reply needs reports an error, and given again writes the note twice.
* A dispute or a body written under a clock that runs ahead is not overcome by this
  clone's own `k` or `u` until its clock gets there (design.md:871).
* `app/worklist.go:61`: an abandoned entry has no path, so a session's scope counts
  its group only where the session touched the root.

## 4. Fairness

`DmSync!LiveSpec` has weak fairness of `SyncStep(r)` and `GcStep(r)`: a running
invocation is a sequential program, none of whose steps waits for another
clone (the one wait, for the lock, is before the first step, and the lock dies
with its holder). Weak fairness of `DmInit(r)` and `CreateStore(r)` and strong
fairness of `SyncOpen(r)` say that the user of each clone initializes it and
syncs again and again: strong, since `idle` comes and goes with other
invocations. Nothing is assumed of writes, gc, bumps, the user's fetches, nor
of `SyncOpenSkipping`, a test knob. Faults are bounded by `MaxFaults`: with a
fault in every invocation nothing would ever be shared. The bound `MaxEpoch`
plays a part as well: a compaction that lands in every window of a sync would
starve it, since attempts are bounded too. `Terminates` needs only the first
kind of fairness.

`Invocation!LiveSpec` has weak fairness of `Step(p)`: a process that has the lock
goes on, and its batch is finite, which the bounds on ids and events stand for.
Strong fairness of `Lock(p)` is the kernel's: a lock that is free again and again
is given to everyone who waits for it. Nothing is assumed of `Start`, of deaths
and of failing writes.

## 5. What is proved

For all sets of clones, entries, records and contents, all bounds, and any
number of compactions and faults:

* `TypeCorrect`: `DmSync!Spec => []TypeOK`, with a lemma for the type of every
  store operation and one step per action.
* `NothingIsLost`: `DmSync!Spec => []NoLostRecord` for clones with a remote from
  the start (`NoLateRemote`; without it the property is false, see section 3).
  The property is not inductive: that pending may be cleared depends on where
  the invocation stands. Call a record safe when it is on the remote or was
  dropped by a compaction. The invariant `IInv` says that every authored record
  is safe or pending somewhere; that commits hold the records of their ancestors
  (`Grows`), so that a fast-forward loses nothing; that a mirror holds only what
  is safe; that the candidate of a sync that pushes holds its own records; and
  that at `update` and `clear` the own records, and at `update` and `gcUpdate`
  those of the candidate, are safe. It all comes together at `ClearRecord`; the
  steps that could break it are `PushLands` (only ever adds) and `GcLands` (what
  it takes is dropped, which is where the lease is used).
* `SyncsShare`: `DmSync!Spec => SuccessIsShared` under the same assumption, from the
  same invariant: the property that `late_unshared` finds violated holds wherever
  no remote comes late.
* `PromiseIsKept`: under the same assumption DmSync implements `SharedStore`, the
  refinement that `sync_contents` checks, with `NothingResurrects` and
  `OnlyCompactionForgets` from the same steps. That what a push adds was pending
  is not inductive either, since a candidate is made of a mirror and a snapshot
  that may be old and hold what has been swept since. `PInv` says with the epochs
  why such a push cannot land: epochs rise along every history (`Rises`), and no
  mirror or snapshot is ahead of the remote (`Earlier`); so a candidate is of an
  earlier epoch than the remote, where no fast-forward reaches, or holds nothing
  but what is shared and its own records, which are pending. And a compaction that
  waits for its lease is of the next epoch, and has swept no tombstone
  (`SweptWell`).
* `DeletionsAreKept`: from the same, no compaction of the clones of `DmSync` has swept a
  tombstone. So an acknowledged deletion is pending until it is on the remote, and stays
  there through the pushes of gc, which replace the remote by force: what one decided
  over a store it had fetched must still have every deletion that landed by then.
* `WritesAreRead`: `DmSync!Spec => []ReadYourWrites`, with the user's fetch at any
  moment, for clones that have a remote and run nothing beside `dm init`. A clone's
  own records are in its mirror or pending, but the mirror is replaced wholesale;
  `ReadsInv` adds that whatever is about to replace it holds them too.
* `DeletionsStay`: `DmSync!Spec => DeletedStaysDeleted`, for clones that have a
  remote, with neither commands beside `dm init` nor the user's fetch (which can
  bring a deletion that the ref update then steps back from, section 3). A
  clone reads a deletion from its mirror or from pending, and both are taken
  from it. `EInv` says that no tombstone was ever dropped; that one in the mirror
  is on the remote (with the refinement's invariants: so whatever is fetched has
  it); and that a candidate which waits to replace the mirror has the tombstones
  of the mirror as it is by then.
* `CountsAreExact`: `DmSync!Spec => []StatsExact`, with no hypothesis: late
  remotes and the user's fetch are no exception. Without a fault a clone's own row
  is at most what was counted in the stores that have its deltas added, and at
  most what is not pending any more everywhere else (`CInv`); the hard place is
  the sync's retry, which adds its deltas again and again, each time to a store
  that has not got them, since a push that was rejected has not landed.
* `CountsAreKept`: `DmSync!Spec => []StatsNeverLost`, for clones that have a remote
  and run nothing beside `dm init`. The row of a living entry lives as long as
  its note is in the store that is swept, so `NInv` has to say where the note
  is: in what the clone reads, in every candidate, and in the rows' own stores
  (`HasNotes`); that what a sweep drops of notes is replaced by a newer one or
  deleted (`DropsInv`, the place where a greatest rec-id is needed: `BoundedIds`,
  a ULID has 128 bits); and, for the counts, that rows only grow along a history
  (`RowsGrow`) and that a compaction that waits for its lease has left every row of
  a living entry as its base had it (`LeftOf`).
* `VanishingIsKnown`: `DmSync!Spec => VanishesWithItsSync`, for clones whose remote may
  come late, that run nothing beside `dm init` and whose user does not fetch: a
  record that `late_remote` sees vanish vanishes in one of the ways the property
  names, and in no other. `VInv` is `IInv` without the claim about mirrors, which is
  false there. In its place `GoneInv` says for each place of an invocation what of
  the clone's mirror and of its snapshot is held elsewhere: on the remote, pending,
  in the candidate, or swept by a compaction.
* `ContentsLand`: `DmSync!Spec => []StagedBlobLands`, with no hypothesis. `BInv` says
  it of every store there is: the remote, mirrors, snapshots and candidates,
  and of pending with the staged contents beside it, which are cleared after the
  records and not before them.
* `AppendsAreInOrder`, `OverlayAlwaysDisk`, `StatsAreKept`: `Invocation!Spec =>
  AppendsInOrder`, `=> []OverlayIsDisk` and `=> []StatsKept`, for any number of
  processes, any clock and any width of the tail. The invariant `IInv` adds to the
  types that the lock has one holder and only a holder is past `load`
  (`Exclusive`), that the floor of whoever is loaded is at least every id pending
  (`Above`), and that every nonempty part of what is pending has a greatest id
  (`Topped`), which is what makes the minter's resumption from pending mean
  something. They discharge, for the code below a sync, what `DmSync` takes for
  granted of its `Write` and `Bump`.
* `StoreInvariant`, `DeletionsAreForever` (Compaction): a store keeps its
  deletions under any sweeps, at whatever clock and in any order of arrival. The
  strengthening: the store holds only what arrived and all tombstones that did;
  it is needed because whether an entry is deleted is read off the store that
  is swept.
* `RegistersAreForever`, `ReadingsAreForever`: `Compaction!Spec =>
  []ReadsAsIfUnswept`, for any records and any sweeps. `RInv` says that of an entry
  that is not deleted the store has every mark and complaint and the newest note
  (`EntriesKept`), of two such entries every link and unlink (`LinksKept`), and
  that nothing is said of an entry before a note of it arrived (`Headed`):
  without that an entry would die of having no note yet. Bodies, paths, anchors and
  links need nothing more. For disputes the theorem has the hypothesis
  `CreatedFirst`: every `SU` and mark has an id above the `CR`. The guard of a
  dispute is the newest `SU` or `RA`; a sweep keeps the newest note, and where that
  is the `CR`, an `SU` below it is gone and its guard with it. Ids follow clocks, so
  the hypothesis is that no clock is behind what its owner has read; the instance
  of `sweep` has it as an `ASSUME`, and without it the property fails.
* `BodiesAreForever`: `=> []HasBodyInTime`, with the same hypothesis: the `CR`
  precedes every mark, so a mark that has landed alone finds a note to be rescued
  from, in the store that is swept as in the one that is not, since the sweep pins
  the newest note before each mark.
* `VerdictsAreForever`: `=> []VerdictsOutlive`. What is needed of verdicts is the
  least set closed under landed-as that holds the origins of the records that
  stay (`NeededIsLeast`). The needed verdicts of the unswept store that arrived
  in time are in the store (`VerdictsKept`), and a chain that starts at a needed
  origin never leaves what is needed, so the recursive functions of the two
  stores agree step by step.
* `SweepsAreDone`: `=> SweepIsDone`: a swept store is what a sweep of it leaves.
* `FilesAreSound`, `CacheIsUnobservable`: `UnreachCache!Spec => []FileIsSound` and `=>
  []DeadIsDead`, for any finite history, any refs, shallow or not. First the past
  of a commit, a recursive function in the model, is shown to be the least closed
  set: the generations stop growing after as many steps as there are commits. From
  that, what a fast-forward adds to the past of the refs is what the revalidation
  asks for. `IInv` adds that the refs a query listed are each still in the past
  of the ref of that name (`Followed`), and that what it found dead by then is
  not in the past of the refs it listed (`ScanSound`).
* `ContentFollowed`, `FolderFollowed`, `PinsAreSeen`, `SeenIsBlessable`, `RepairsSettle`:
  `Placement!Spec => []ContentIsFollowed` and so on, all five properties of
  `placement`, for any finite set of paths of any depth, any contents, any
  similarity of them, and any outcome of git's rename detection. Beyond types
  (`Typed`: trees are of files, a note is of one kind with a path and an anchor of
  that kind, there is one origin) nothing is needed of the history: they are facts
  about one decision of `Resolve`, one lemma for the layers of a file
  (`FileLayers`) and one for the ranks of a folder (`FolderLayers`). Below them is
  what these decisions rest on: the leader is within the margin of every candidate,
  and is the hint itself where no other leads it by the margin, since only the
  hint is at distance 0 from itself (`LeaderLeads`, `AffinityType`, which needs what
  the longest common prefix of two paths is); a vote is for a folder that is there
  (`VotesType`), a winner of the tally has votes, and a unanimous tally of all the
  members passes every threshold (`TallyType`). The proof found `ContentIsFollowed` as
  it stood to be wrong: it held a note that `mv` has put somewhere against similar
  files that are below `FollowScore`, which are no candidates. The instance had no
  such contents; the property now speaks of candidates.
* `MintInvariant`, `RewritesBind`, `VoidsStand`, `MemosAreSafe`, `GroupsAreRepaired`:
  `MintPass!Spec => []MInv`, and from it `OnlyRewritesBind`, `VoidStands`,
  `MemosHideNothing` and `OneVerdictRepairsGroup`, for any history that goes on in
  any way, any branches, any sizes of changes, and any number of passes, deaths
  and verdicts. Types apart, `MInv` says that what a reflog calls a rebase or an amend
  was one (`ReflogInv`), that every m1 went along one (`RewriteBound`), and that what
  the memo holds and no m2 left there fails as an m3 for good (`MemoInv`): commits do
  not change, the memo is kept only by a clone that has them all, and what a squash
  looks at in two commits is then the same in every later history. A pass is a fold
  over attempts whose number nobody bounds; `Passing` follows it attempt by attempt.
  For the groups the fold is over the dead origins: every member of a group is an
  ancestor of its tip, whichever order the origins come in.
* `RewritesKeepNotes`: `MintPass!Spec => [](ChainsEnd => FirstRewriteKeepsNotes)`. `OwedInv`
  says of every debt that the reflog of the branch leads from what the note has landed as
  to the tip it is owed by, rewriting by rewriting, where each has been bound already or is
  the first to carry the commit away, in no other branch's reflog (`Leads`). A pass that dies, or a
  verdict of another line, leaves that way passable (`DiedLeads`); one that goes through
  follows it: m1 of the branch come in the order of its reflog, and before one of them
  only earlier ones and those of other branches, which find nothing there (`OnTheWay`,
  `Places`). Then the verdicts lead to the tip (`Paid`), and `ChainsEnd`, that
  no chain of a note is cut off by the depth, makes that the end of its chain or a part of it.
  The code follows 16 verdicts; `FewBindingsKeepNotes` has no other hypothesis than that no
  more commits are bound than that (`ChainOfFew`: commits on a chain are distinct).
* `BatchInvariant`, `OriginsStayCurrent`, `ReadingsStayCurrent`: `Commands!Spec /\
  []ChainsEnd => []BatchInv`, and from it `OriginsCurrent` and `ReadingsCurrent`.
  `Current` says of each of the four maps that what is in it is what the records by
  now give. The proof has two halves: a lookup adds only what is current (`Learns`,
  `Reads`), folds over any number of entries included, and a write leaves nothing that it made
  stale, record kind by record kind (`ForgottenEnough`). The former needs that a batch of origins is
  classified as each of them alone, which is false in general (section 3, chains
  beyond the depth): `ChainsEnd` is that every chain of landed verdicts that there is
  ends within the depth, or closes on itself.
* `RepairsDoHeal`: `=> []RepairsHeal` under the same hypothesis. `HealInv` is about the
  records and not about the memo: after `u` and `k` the new record is the newest of
  every register it supplies and of every dispute's guard, its anchor and its path
  are of this checkout, and rule (a) takes that pair to be fresh (`PlacedIs` and what is
  before it, for files and for folders).
* `MovesDoResume`: `=> []MovesResume`, moreover under `KindsAgree`. `MoveInv` follows a
  `mv` through its records, note by note: what it still has to do is known, landed and
  under the old path, what it has done is where it belongs, and what it does not take is
  as it was (`Stage`, `Listed`); with every cut it says what the second run finds. That a
  moved note is seen needs that a path and an anchor are of one kind: `KindsAgree` is that
  every landed note is asserted to be on a file if it was written about a file, and on a
  folder if about a folder.
* `NothingIsOutOfReach`: `=> []NoNoteIsOutOfReach` under `ChainsEnd` and `NotesFirst`: no mark
  comes without an earlier note of its entry (what a mark without one would be
  anchored to is an arbitrary value in the model). Its invariant `PathInv` is small: every
  note and mark is of a commit and on a path. The rest is about one state. Whoever reads
  everything has every living note classified, folded and resolved (`AnewIs`, a fold over
  the entries). A fresh note has exactly one home, whatever layer or rank of the
  resolution placed it, and that is a path (`HomeIs`); from the root's page one comes
  towards it by the child inventories, a segment a step (`FoldersAround`, `IsReached`).
  What is not landed is pending elsewhere, unknown or abandoned, and then it is debt
  (`UnlandedIs`). `HandleHasIt` is that the handle shown for an entry has the entry among
  those it may mean.
* `MergeCommutes`, `MergeIsIdempotent`, `MergeAssociates` (Union): the merge is
  a join, epochs included, and also where two records collide on an id; this is
  the comment of `union.go` ("Commutative and idempotent, so the sync retry
  loop converges"), and associativity besides.
* `PromiseLosesNothing` (SharedStore): the abstract promise has the guarantee it
  is meant for.

The assumptions are the named `ASSUME`s of the modules: `RecordAssumption` (what
the parts of a record are, and which kinds have a content), `RecordIsBytes`
(equal bytes are equal records), `UniqueIds` (distinct records have distinct
rec-ids, which the ULIDs are relied on for; the theorems about `Merge` do
without it), `SyncAssumption`, `InvocationAssumption`, `CompactionAssumption`
(notes and marks have an origin), `ChainAssumption`, `HistoryAssumption` (types
of the bounds, finite histories), `PlacementAssumption` (finitely many
paths, with segments that are neither empty nor ".", and a content is 100
percent of itself), `LadderAssumption` and `MintAssumption` (sizes are numbers, a start is a
history with branches in it), `CheckoutAssumption` (trees are of finitely many
files) and `CommandsAssumption` (every entry has one short handle; a start is of finitely
many records, at a commit that HEAD descends from; notes and marks have a commit and a
path). TLC evaluates them on its instances. The hypotheses that are
of one theorem only stand in the theorem: `NoLateRemote`, `~InitBeside` and
`~UserFetch` say which clones it is about, each excluded by a disagreement or a
remark of section 3 that has the reason; `CreatedFirst`, `BoundedIds`, `ChainsEnd`, `KindsAgree` and
`NotesFirst` are above. The last three are of records that other clones may bring, or of
how often a line was rewritten, so that they are hypotheses about states and not about
the constants. They hold in every state of `commands`, which has a chain of the full
depth, and `ChainsEnd` of MintPassProofs in every state of `mint`.

How recursion is reasoned about: the library's induction theorems take an
operator for a parameter, which these provers cannot instantiate. `Induction` has
induction over sets of numbers instead, from the well-foundedness of strict
inclusion (`LeastNumber`, `UpTo`), and from it that a recursive function exists,
is of its type, and is the only one (`IterationExists`, `IterationUnique`): enough
for `Chain` and for the past of a commit, of which one fact each is needed. Folds over
sequences are of any length as well: `Induction` has a constant operator `Op`, for
which it says that a fold is the last of its steps (`FoldSteps`), and each module
that folds instantiates it with its own step (`Trying`, `Replaying`, `Grouping`,
`Folding`, `Resolving`); an invariant of the steps is then carried by `UpTo`. Sequences that
are sorted by a choice are in order by counting what is below each element (`Ranks`,
`SortedIs`).

Restated for the proofs: `MovesResume` now says of each note by itself whether a second
`mv` would take it on, instead of leaving out every `mv` of which that holds for some
note, and says what becomes of notes the `mv` does not take. `InReach` of
`NoNoteIsOutOfReach` now counts the steps from page to page, and asks for no more of them
than the note's home has segments, where it used to close over the paths of `Places`.

Only model-checked is liveness under fairness, and ENABLED, which are out of this
prover's reach. Every safety property that a passing run checks is in the statement of
a theorem.

## 6. What is not modelled

* The record codec, the sharding of the store tree, parsing, rendering, ranking,
  previews and search: conversions without state, tested by round trips.
* Of the reading commands: how deep `r` goes, what of a page is cut off, the links
  it lists. What notes a page has, and what it does to the memos, is modelled.
* Of the worklist: the scope of a session, the tally and the hints. Which notes
  are debt and how dead lines group is modelled.
* The match memo of `evcache`, rename pairs on disk under a key of two commits.
* Replica ids are assumed distinct, entropy and clocks are choices, and the wiring
  of both (`determinism`) is left out, as are `dump`, fixtures and the sandbox.

## 7. Plan

Done, in this order: `Union`, `Sweep`, `DmSync` with `SharedStore`, `Fold`,
`Lineage`, `Compaction`, `Executor`, `UnreachCache`, `Invocation`, `Resolve`,
`Placement`, `Ladder` with `MintPass`, `Commands` over `Executor`; and the theorems
above, of which those of `MintPassProofs` and `ExecutorProofs` are the last.

Next modules:

1. `MatchMemo`: the rename pairs on disk against origins that are fetched later;
   the property holds of origins that are there, and the memo of one that is not
   is the disagreement of section 3.
2. The worklist's scope: each group of debt counted once, and for a session only
   where it was, over `Commands`.
3. A refinement from `MintPass` to `Mintable` of `DmSync`: whatever a pass mints is
   what DmSync leaves open.
