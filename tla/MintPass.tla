------------------------------ MODULE MintPass ------------------------------
(***************************************************************************)
(* One clone whose user rewrites history, and what dm concludes of it: the *)
(* mint pass (internal/app/mint.go), run by every batch, worklist and      *)
(* sync, the verdicts it mints, the memos of what it could not prove, the  *)
(* worklist's groups and the vd that settles one.                          *)
(*                                                                         *)
(* A note is the commit it was written on: its entry has that one origin.  *)
(* In one clone a later verdict has the larger rec-id, so of each origin   *)
(* only the winning one is kept.                                           *)
(***************************************************************************)
EXTENDS Ladder, Lineage, SequencesExt

CONSTANTS
  Branch,     \* the local branches, in the order git lists them
  Start,      \* the histories to begin with
  Edit,       \* the changes made from then on
  MaxWork,    \* bounds what the user and the forge do to the history
  MaxNotes,   \* the notes
  MaxJudged   \* and the manual verdicts

Branches == {Branch[i] : i \in DOMAIN Branch}

ASSUME MintAssumption ==
  /\ Branch \in Seq(STRING) /\ Edit \subseteq Change /\ MaxChainDepth > 0
  /\ \A s \in Start :
       /\ IsHistory(s.commits)
       /\ s.tips \in [Branches -> DOMAIN s.commits]
       /\ s.remotes \in [{"main", "topic"} -> DOMAIN s.commits]
       /\ s.head \in Branches
       /\ s.noted \subseteq DOMAIN s.commits

VARIABLES
  commits,   \* every commit there is
  cut,       \* those whose parents a shallow clone has not got
  tips,      \* branch -> its tip
  remotes,   \* the share remote's "main", its default, and "topic" -> tip
  head,      \* the branch checked out
  reflog,    \* branch -> what moved it, oldest first
  noted,     \* the commits a living note was written on
  verdict,   \* origin -> its winning verdict
  nomatch,   \* the attempts that failed: <<tip, target>>
  session,   \* the sync that has fetched and not minted yet, or NoSession
  rewrites,  \* aux: the rewritings there were: <<old tip, new tip>>
  owed,      \* aux: notes that were landed here when their line was rewritten
  tried,     \* aux: the forced updates an m2 gave up on
  settled,   \* aux: the last thing that happened was a mint pass
  work, judged

git == <<commits, cut, tips, remotes, head, reflog, rewrites>>
store == <<noted, verdict, nomatch, tried>>
vars == <<git, store, session, owed, settled, work, judged>>

NoSession == [pairs |-> {}, head |-> 0]

-----------------------------------------------------------------------------
(* What dm sees.                                                           *)

\* A shallow clone takes the commits at its edge for roots.
History == [c \in DOMAIN commits |->
              IF c \in cut THEN [commits[c] EXCEPT !.parents = {}] ELSE commits[c]]

qualified == cut = {}

RefTips == {tips[b] : b \in Branches} \cup {remotes[r] : r \in DOMAIN remotes}

Bindings(v) == [o \in {u \in DOMAIN v : v[u].as # 0} |-> v[o].as]

\* The end of the chain, which is what reachability is asked of.
Terminal(v, o) == LET c == Chain(Bindings(v), o) IN c[Len(c)]

Reaching(c) == {t \in RefTips : IsAncestor(History, c, t)}

\* Classify, for an origin and the HEAD h; the order of a batch only matters to
\* chains longer than any here.
ClassOf(v, h, o) ==
  Classify(Bindings(v), qualified, Ancestors(History, h),
           UNION {Ancestors(History, t) : t \in RefTips}, <<o>>)[o]

Landed(o) == ClassOf(verdict, tips[head], o) = "landed"

-----------------------------------------------------------------------------
(* The mint pass.  It runs over a state st of verdicts and memos, as a     *)
(* sequence of attempts.                                                   *)

\* Mutant of Candidates: inference takes a voided origin for a free one.
CandidatesOverVoid(v, override) ==
  LET all == noted \cup {v[o].as : o \in DOMAIN Bindings(v)}
  IN  IF override THEN all ELSE all \ DOMAIN Bindings(v)

\* Mutant of Candidates: what origins landed as is left out.
CandidatesUnchained(v, override) == IF override THEN noted ELSE noted \ DOMAIN v

\* Mutant of Candidates: a manual verdict spares what has one.
CandidatesSpared(v, override) ==
  (noted \cup {v[o].as : o \in DOMAIN Bindings(v)}) \ DOMAIN v

\* bindCandidates: the origins of living notes, and what origins landed as;
\* those with a standing verdict only for an override.
Candidates(v, override) ==
  LET all == noted \cup {v[o].as : o \in DOMAIN Bindings(v)}
  IN  IF override THEN all ELSE all \ DOMAIN v

Minted(v, origins, as, by) ==
  [o \in DOMAIN v \cup origins |-> IF o \in origins THEN [as |-> as, by |-> by] ELSE v[o]]

Bind(st, tip, as, by) ==
  [st EXCEPT !.v = Minted(@, BindSegment(History, tip, as, Candidates(@, FALSE)), as, by)]

\* mintM1, one succession of a reflog.
M1(st, a) ==
  IF IsAncestor(History, a.old, a.new) THEN st ELSE Bind(st, a.old, a.new, "m1")

\* One forced update of the fetch.
M2(st, a) ==
  CASE IsAncestor(History, a.old, a.new) \/ <<a.old, a.new>> \in st.memo -> st
    [] AttemptReplay(History, a.old, a.new) -> Bind(st, a.old, a.new, "m2")
    [] OTHER -> [st EXCEPT !.memo = @ \cup {<<a.old, a.new>>}]

\* Mutant of M3: of a failed attempt only the line is remembered.
M3ByTip(st, a) ==
  LET match == AttemptSquash(History, a.old, a.new)
      memo == {<<a.old, t>> : t \in DOMAIN commits}
  IN  IF IsAncestor(History, a.old, a.new) \/ <<a.old, a.new>> \in st.memo THEN st
      ELSE IF match = {} THEN [st EXCEPT !.memo = @ \cup memo]
      ELSE Bind(st, a.old, CHOOSE c \in match : TRUE, "m3")

\* One line against one target.
M3(st, a) ==
  LET match == AttemptSquash(History, a.old, a.new)
  IN  IF IsAncestor(History, a.old, a.new) \/ <<a.old, a.new>> \in st.memo THEN st
      ELSE IF match = {} THEN [st EXCEPT !.memo = @ \cup {<<a.old, a.new>>}]
      ELSE Bind(st, a.old, CHOOSE c \in match : TRUE, "m3")

Attempt(st, a) == CASE a.by = "m1" -> M1(st, a)
                    [] a.by = "m2" -> M2(st, a)
                    [] a.by = "m3" -> M3(st, a)

Successions == FlattenSeq([i \in DOMAIN Branch |-> ReflogSuccessions(reflog[Branch[i]])])

Try(e, by) == [old |-> e.old, new |-> e.new, by |-> by]

\* What is tried before it is known what has not landed.
Early(pairs) ==
  LET m2 == SetToSeq(pairs)
  IN  [i \in DOMAIN Successions |-> Try(Successions[i], "m1")]
        \o [i \in DOMAIN m2 |-> Try(m2[i], "m2")]

\* candidateTips against mintTargets: the refs that reach what has not landed,
\* in any order, each against HEAD and the remote's default branch.
Late(v, h) ==
  LET waiting == {o \in noted : ClassOf(v, h, o) # "landed"}
      lines == UNION {Reaching(Terminal(v, o)) : o \in waiting}
      against(t) == LET to == <<h>> \o (IF remotes["main"] = h THEN <<>> ELSE <<remotes["main"]>>)
                    IN  [i \in DOMAIN to |-> [old |-> t, new |-> to[i], by |-> "m3"]]
  IN  {FlattenSeq([i \in DOMAIN order |-> against(order[i])]) : order \in SetToSeqs(lines)}

\* The attempts of a pass; a clone that is not qualified makes none.
Attempts(st, h, pairs) ==
  IF ~qualified THEN {<<>>}
  ELSE {Early(pairs) \o late : late \in Late(FoldLeft(Attempt, st, Early(pairs)).v, h)}

Now == [v |-> verdict, memo |-> nomatch]

\* The whole pass, with what it may leave.
Passed(h, pairs) == {FoldLeft(Attempt, Now, run) : run \in Attempts(Now, h, pairs)}

\* A pass that dies: after some attempts, within the verdicts of the next.
Died(h, pairs) ==
  UNION {UNION {LET st == FoldLeft(Attempt, Now, SubSeq(run, 1, k - 1))
                    next == Attempt(st, run[k])
                IN  {[st EXCEPT !.v = [o \in DOMAIN st.v \cup part |-> next.v[o]]] :
                       part \in SUBSET (DOMAIN next.v \ DOMAIN st.v)} :
                  k \in DOMAIN run} :
           run \in Attempts(Now, h, pairs)}

-----------------------------------------------------------------------------
(* Git, its user and the forge.                                            *)

Tip == tips[head]

Flip(tree, x) == (tree \ {x}) \cup ({x} \ tree)

\* What was owed before the last pass is settled.
Due == IF settled THEN {} ELSE owed

\* A step on the history; dm has no part in it.
Works ==
  /\ work < MaxWork /\ work' = work + 1
  /\ settled' = FALSE
  /\ UNCHANGED <<store, session, judged>>

\* The branch checked out goes to c.
MoveTo(c, how) ==
  /\ tips' = [tips EXCEPT ![head] = c]
  /\ reflog' = [reflog EXCEPT ![head] = Append(@, [how |-> how, old |-> Tip, new |-> c])]

New == Len(commits) + 1

CommitChange(x) ==
  /\ Works
  /\ commits' = Append(commits, [parents |-> {Tip}, tree |-> Flip(commits[Tip].tree, x)])
  /\ MoveTo(New, "commit")
  /\ owed' = Due
  /\ UNCHANGED <<cut, remotes, head, rewrites>>

\* The default branch is merged into this one.
MergeMain ==
  LET onto == remotes["main"]
      d == RangePatchID(commits, MergeBase(commits, Tip, onto), onto)
  IN  /\ Works
      /\ ~IsAncestor(History, onto, Tip) /\ ~IsAncestor(History, Tip, onto)
      /\ MergeBase(History, Tip, onto) # 0
      /\ commits' = Append(commits, [parents |-> {Tip, onto},
                       tree |-> (commits[Tip].tree \cup d.added) \ d.removed])
      /\ MoveTo(New, "commit")
      /\ owed' = Due
      /\ UNCHANGED <<cut, remotes, head, rewrites>>

\* The commits of lines that were rewritten.
Rewritten ==
  UNION {Segment(commits, MergeBase(commits, p[1], p[2]), p[1]) : p \in rewrites}

\* The branch checked out becomes another line.  What has landed here is owed:
\* by the commit it landed as, when that was neither rewritten nor judged yet.
Rewrites(c, how) ==
  LET here == Ancestors(History, Tip)
      by(o) == {Chain(Bindings(verdict), o)[i] :
                  i \in DOMAIN Chain(Bindings(verdict), o)} \cap here
      due(o) == {d.by : d \in {x \in Due : x.note = o}}
      free(o) == (by(o) \cup due(o)) \ (Rewritten \cup DOMAIN verdict \cup {0})
      on(d) == IF d \in Segment(commits', MergeBase(commits', Tip, c), Tip) THEN c ELSE d
  IN  /\ MoveTo(c, how)
      /\ rewrites' = rewrites \cup {<<Tip, c>>}
      /\ owed' = {[note |-> o, by |-> IF free(o) = {} THEN 0 ELSE on(CHOOSE d \in free(o) : TRUE)] :
                    o \in {n \in noted : by(n) \cup due(n) # {}}}

Amend(tree) ==
  /\ Works
  /\ Cardinality(History[Tip].parents) = 1
  /\ commits' = Append(commits, [parents |-> commits[Tip].parents, tree |-> tree])
  /\ Rewrites(New, "amend")
  /\ UNCHANGED <<cut, remotes, head>>

\* One commit, replayed onto the tip; when that has it already, it is left out.
ReplayOne(on, c) ==
  LET d == PatchID(on.commits, c)
      tree == (on.commits[on.tip].tree \cup d.added) \ d.removed
  IN  IF tree = on.commits[on.tip].tree THEN on
      ELSE [commits |-> Append(on.commits, [parents |-> {on.tip}, tree |-> tree]),
            tip |-> Len(on.commits) + 1]

Replayed(line, onto) ==
  FoldLeft(ReplayOne, [commits |-> commits, tip |-> onto], InOrder(line))

\* rebase, to the default branch; an interactive one may drop commits.
Rebase(keep) ==
  LET onto == remotes["main"]
      new == Replayed(keep, onto)
  IN  /\ Works
      /\ MergeBase(History, Tip, onto) # 0
      /\ ~IsAncestor(History, onto, Tip) /\ ~IsAncestor(History, Tip, onto)
      /\ commits' = new.commits
      /\ Rewrites(new.tip, "rebase")
      /\ UNCHANGED <<cut, remotes, head>>

\* reset, or a branch used for something else.
Reset(c) ==
  /\ Works
  /\ c # Tip
  /\ MoveTo(c, "reset")
  /\ owed' = {}
  /\ UNCHANGED <<commits, cut, remotes, head, rewrites>>

Checkout(b) ==
  /\ Works
  /\ b # head
  /\ head' = b
  /\ owed' = {}
  /\ UNCHANGED <<commits, cut, tips, remotes, reflog, rewrites>>

\* fetch --unshallow.
Deepen ==
  /\ Works
  /\ ~qualified
  /\ cut' = {}
  /\ owed' = {}
  /\ UNCHANGED <<commits, tips, remotes, head, reflog, rewrites>>

\* What may have happened on the forge since the last fetch: the default branch
\* went on, or took a branch in as one commit; a teammate rebased the topic, or
\* made one commit of it.
ForgeEvents ==
  LET main == remotes["main"]
      topic == remotes["topic"]
      base == MergeBase(commits, topic, main)
      line == {c \in Segment(commits, base, topic) : Cardinality(commits[c].parents) = 1}
      On(ref, onto, tree) ==
        [commits |-> Append(commits, [parents |-> {onto} \ {0}, tree |-> tree]),
         remotes |-> [remotes EXCEPT ![ref] = New]]
      Squashed(t) == LET d == RangePatchID(commits, MergeBase(commits, t, main), t)
                     IN  (commits[main].tree \cup d.added) \ d.removed
      new == Replayed(line, main)
  IN  {On("main", main, Flip(commits[main].tree, x)) : x \in Edit}
        \cup {On("main", main, Squashed(t)) : t \in {u \in RefTips : ~IsAncestor(commits, u, main)}}
        \cup (IF Cardinality(line) < 2 THEN {}
              ELSE {On("topic", base, commits[topic].tree)})
        \cup (IF new.tip = main \/ IsAncestor(commits, main, topic) THEN {}
              ELSE {[commits |-> new.commits,
                     remotes |-> [remotes EXCEPT !["topic"] = new.tip]]})

\* The user's git fetch.
Fetch(event) ==
  /\ Works
  /\ commits' = event.commits /\ remotes' = event.remotes
  /\ owed' = Due
  /\ UNCHANGED <<cut, tips, head, reflog, rewrites>>

-----------------------------------------------------------------------------
(* dm.                                                                     *)

Keep(st) == verdict' = st.v /\ nomatch' = st.memo

\* A batch or a worklist, which may write a note here.
Batch ==
  /\ session = NoSession
  /\ \E st \in Passed(Tip, {}) : Keep(st)
  /\ noted' \in {noted, noted \cup {Tip}} /\ Cardinality(noted') <= MaxNotes
  /\ settled' = (noted' = noted)
  /\ UNCHANGED <<git, session, owed, tried, work, judged>>

\* forcedUpdates: of the refs there are before and after.
ForcedUpdates(event) ==
  {[old |-> remotes[r], new |-> event.remotes[r]] :
     r \in {q \in DOMAIN remotes : ~IsAncestor(event.commits, remotes[q], event.remotes[q])}}

\* Sync, up to its fetch.
SyncFetch(event) ==
  /\ session = NoSession
  /\ work < MaxWork /\ work' = work + 1
  /\ settled' = FALSE
  /\ commits' = event.commits /\ remotes' = event.remotes
  /\ session' = [pairs |-> ForcedUpdates(event), head |-> Tip]
  /\ owed' = Due
  /\ UNCHANGED <<cut, tips, head, reflog, rewrites, store, judged>>

\* mintForSync.
SyncMint ==
  /\ session # NoSession
  /\ \E st \in Passed(session.head, session.pairs) :
       /\ Keep(st)
       /\ tried' = tried \cup ({<<p.old, p.new>> : p \in session.pairs} \cap st.memo)
  /\ session' = NoSession
  /\ settled' = (session.head = Tip)
  /\ UNCHANGED <<git, noted, owed, work, judged>>

\* A sync dies in its mint pass, or before it.
SyncDies ==
  /\ session # NoSession
  /\ \E st \in {Now} \cup Died(session.head, session.pairs) :
       /\ Keep(st)
       /\ tried' = tried \cup ({<<p.old, p.new>> : p \in session.pairs} \cap st.memo)
  /\ session' = NoSession
  /\ settled' = FALSE
  /\ UNCHANGED <<git, noted, owed, work, judged>>

\* A batch dies in its mint pass.
BatchDies ==
  /\ session = NoSession /\ work < MaxWork
  /\ \E st \in Died(Tip, {}) : Keep(st)
  /\ settled' = FALSE
  /\ UNCHANGED <<git, noted, session, owed, tried, work, judged>>

\* verdict: the verdicts after vd:subject:landed:as.
Disposed(v, subject, as) ==
  LET line == BindSegment(History, subject, as, Candidates(v, TRUE) \cup {subject})
  IN  Minted(v, IF line = {} THEN {subject} ELSE line, as, "m5")

\* A batch with a vd, after the pass of its own.
Judge ==
  /\ session = NoSession /\ work < MaxWork
  /\ judged < MaxJudged /\ judged' = judged + 1
  /\ \E st \in Passed(Tip, {}) :
       /\ nomatch' = st.memo
       /\ \/ \E o \in DOMAIN Bindings(st.v) : verdict' = Minted(st.v, {o}, 0, "m5")
          \/ \E subject \in noted \ {remotes["main"]} :
               verdict' = Disposed(st.v, subject, remotes["main"])
  /\ settled' = FALSE /\ owed' = {}
  /\ UNCHANGED <<git, noted, tried, session, work>>

-----------------------------------------------------------------------------

Init ==
  /\ \E s \in Start :
       /\ commits = s.commits /\ cut = s.cut /\ tips = s.tips /\ remotes = s.remotes
       /\ head = s.head /\ noted = s.noted
  /\ reflog = [b \in Branches |-> <<>>]
  /\ verdict = [o \in {} |-> 0]
  /\ nomatch = {} /\ rewrites = {} /\ tried = {} /\ owed = {}
  /\ session = NoSession
  /\ settled = FALSE
  /\ work = 0 /\ judged = 0

Line == {c \in Segment(History, MergeBase(History, Tip, remotes["main"]), Tip) :
           Cardinality(commits[c].parents) = 1}

Next ==
  \/ \E x \in Edit : CommitChange(x)
  \/ MergeMain
  \/ \E tree \in {commits[Tip].tree} \cup {Flip(commits[Tip].tree, x) : x \in Edit} : Amend(tree)
  \/ \E keep \in SUBSET Line : Rebase(keep)
  \/ \E c \in RefTips \cup {p[1] : p \in rewrites} : Reset(c)
  \/ \E b \in Branches : Checkout(b)
  \/ Deepen
  \/ \E event \in ForgeEvents : Fetch(event) \/ SyncFetch(event)
  \/ Batch \/ SyncMint \/ SyncDies \/ BatchDies
  \/ Judge

Spec == Init /\ [][Next]_vars

-----------------------------------------------------------------------------
(* What the worklist says.                                                 *)

Dead == {o \in noted : ClassOf(verdict, Tip, o) = "abandoned"}

SameLine(a, b) == IsAncestor(History, a, b) \/ IsAncestor(History, b, a)

\* The first group of its line that there is, or a new one.
Grouped(groups, o) ==
  LET at == {i \in DOMAIN groups : SameLine(o, groups[i].tip)}
      i == CHOOSE j \in at : \A k \in at : j <= k
  IN  IF at = {} THEN Append(groups, [tip |-> o, of |-> {o}])
      ELSE [groups EXCEPT ![i] =
              [tip |-> IF IsAncestor(History, @.tip, o) THEN o ELSE @.tip,
               of |-> @.of \cup {o}]]

\* collectWorklist: the dead origins in the order of their entries, each with
\* the first group of its line, whose tip is the newest.
Groups(order) == FoldLeft(Grouped, <<>>, order)

-----------------------------------------------------------------------------

\* A vd on the tip of a worklist group, for a commit of this checkout, makes
\* every note of the group landed here: also those that are bound elsewhere.
OneVerdictRepairsGroup ==
  \A order \in SetToSeqs(Dead) :
    LET groups == Groups(order)
    IN  \A i \in DOMAIN groups : \A as \in Ancestors(History, Tip) :
          \A o \in groups[i].of :
            ClassOf(Disposed(verdict, groups[i].tip, as), Tip, o) = "landed"

\* A manual unlanded stands through every later pass, until another vd.
VoidStands ==
  [][\A o \in DOMAIN verdict : verdict[o].as = 0 /\ judged' = judged =>
       verdict'[o] = verdict[o]]_vars

\* m1 binds a note only to what its line was rewritten to: not to what a branch
\* was reset to, or used for afterwards.
OnlyRewritesBind ==
  \A o \in DOMAIN verdict : verdict[o].by = "m1" =>
    \E p \in rewrites : p[2] = verdict[o].as /\ IsAncestor(commits, o, p[1])

\* What a pass over the verdicts proves that skips the attempts of this memo.
Proves(memo) ==
  LET st == [v |-> verdict, memo |-> memo]
  IN  {FoldLeft(Attempt, st, run).v : run \in Attempts(st, Tip, {})}

\* A failed attempt may be skipped while it is remembered: a pass proves no less
\* for it.  Left out is what m2 gave up on, which m3 then does not try either.
MemosHideNothing == settled => Proves(nomatch) = Proves(tried)

\* A note that was landed on a branch is landed on it after the branch was
\* rewritten, once or several times, and read: if it was landed by a commit that
\* had not been rewritten before, nor landed anywhere else.
FirstRewriteKeepsNotes ==
  settled /\ qualified => \A d \in owed : d.by # 0 => Landed(d.note)

=============================================================================
