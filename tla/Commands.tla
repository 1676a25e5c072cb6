------------------------------ MODULE Commands ------------------------------
(***************************************************************************)
(* The commands of a batch (internal/app/batch.go): which note a handle    *)
(* means, what each verb commits, mv and rm as one record after another,   *)
(* what r shows and the worklist lists.  Resolve says where a note is,     *)
(* Executor what a batch remembers; what a vd binds is in MintPass.        *)
(***************************************************************************)
EXTENDS Executor

CONSTANTS
  Start,       \* the histories and stores to begin with
  Twins,       \* the entries by the short form of their handles
  Places,      \* the paths a command may name
  MaxCommands  \* bounds the commands

ASSUME CommandsAssumption ==
  /\ UNION Twins = Entry /\ \A S, T \in Twins : S = T \/ S \cap T = {}
  /\ Places \subseteq Seq(STRING) \ {<<>>}
  /\ \A s \in Start : Here \in s.ancestors /\ s.records \subseteq Record /\ IsFiniteSet(s.records)
  /\ \A x \in Record : x.kind \in Note \cup Mark =>
                         x.origin \in Commit /\ x.path \in Seq(STRING) \ {<<>>}

VARIABLES
  last,   \* {} or the last command, if it was a u, k, mv or rm
  done    \* the commands so far

vars == <<checkout, records, memo, last, done>>

\* Where mv takes p, which is under old.  What goes to the root folder keeps
\* its "./", and no file is called that.
Destination(p, old, new) ==
  LET rest == SubSeq(p, Len(old), Len(p))
  IN  CASE ~IsFolder(old) \/ p = old -> new
        [] IsFolder(old) /\ p # old /\ new = Root -> <<".">> \o rest
        [] OTHER -> Front(new) \o rest

\* The landed notes that m has the resolutions of, and a reader sees.
Visible(m) == {e \in DOMAIN m.resolved : Resolver!Visible(m.resolved[e])}

-----------------------------------------------------------------------------
(* Handles.  A handle is the set of the entries whose tails begin with it. *)

TwinsOf(e) == Only({S \in Twins : e \in S})

\* deriveHandle: the short form, unless it is taken by then.
HandleOf(e) == IF \E d \in TwinsOf(e) \cap Known : First(d) < First(e) THEN {e} ELSE TwinsOf(e)

Handles == Twins \cup {{e} : e \in Entry}

\* entryLineage.
LineageOf(e, m) ==
  LET states == {m.class[o] : o \in NoteOrigins(OfEntry(records, e))}
  IN  CASE "landed" \in states -> "landed"
        [] "landed" \notin states /\ "pending-elsewhere" \in states -> "pending-elsewhere"
        [] states \cap {"landed", "pending-elsewhere"} = {} /\ "unknown" \in states -> "unknown"
        [] OTHER -> "abandoned"

\* resolve: the notes the handle may mean, when the readings of all of them are
\* known; of a repairing verb, or of another.
Addressed(m, S, repair) ==
  IF repair
  THEN {e \in S \cap Known : ~m.folded[e].deleted
                              /\ (m.folded[e].landed \/ LineageOf(e, m) = "abandoned")}
  ELSE S \cap Visible(m)

-----------------------------------------------------------------------------
(* What r shows, and the worklist lists, by what m knows.                  *)

\* childOf: one level down from the folder towards p.
ChildOf(folder, p) ==
  LET rest == SubSeq(p, Len(folder), Len(p))
  IN  Front(folder) \o (IF Len(rest) > 1 THEN <<Head(rest), "">> ELSE rest)

\* The home for which a note is on the page of p: there, around it or below it;
\* of the candidates of a split one such.
HomesOn(p, m) ==
  LET About(e) == {h \in m.resolved[e].home : Under(p, h) \/ Under(h, p)}
  IN  [e \in {d \in Visible(m) : About(d) # {}} |-> Only(About(e))]

\* The notes r shows at p, as its own or as a parent's.
Shown(p, m) == LET home == HomesOn(p, m) IN {e \in DOMAIN home : Under(p, home[e])}

\* Mutant of Children: a folder lists what is right below it.
ChildrenDirect(p, m) ==
  LET home == HomesOn(p, m)
  IN  {home[e] : e \in {d \in DOMAIN home : ~Under(p, home[d]) /\ ChildOf(p, home[d]) = home[d]}}

\* The child inventory of the page of a folder.
Children(p, m) ==
  LET home == HomesOn(p, m)
  IN  {ChildOf(p, home[e]) : e \in {d \in DOMAIN home : ~Under(p, home[d])}}

\* collectWorklist: the debt, by note.
Debt(m) ==
  {e \in Known : ~m.folded[e].deleted
     /\ IF m.folded[e].landed
        THEN m.resolved[e].state # "fresh" \/ m.folded[e].disputed
        ELSE LineageOf(e, m) = "abandoned"}

-----------------------------------------------------------------------------
(* The commands.                                                           *)

\* The clocks agree: an id is above those of all records there are.
Fresh == Max({0} \cup {x.id : x \in records}) + 1

\* A record of the command.
Rec(kind, e) ==
  [id |-> Fresh, data |-> Fresh, kind |-> kind, entry |-> e, to |-> None,
   origin |-> None, as |-> None, blob |-> None, path |-> None]

\* Mutant of Stamp: a note on a file stays on the content it was on.
StampKeepingContent(kind, e, p) ==
  LET before == {r \in OfEntry(records, e) : r.blob # None}
      content == IF before = {} THEN tree[p] ELSE Only(NewestOf(before)).blob
  IN  [Rec(kind, e) EXCEPT !.origin = Here, !.path = p,
                           !.blob = IF IsFolder(p) THEN None ELSE content]

\* stampAnchor: kind, at a path the checkout has.
Stamp(kind, e, p) ==
  [Rec(kind, e) EXCEPT !.origin = Here, !.path = p,
                       !.blob = IF IsFolder(p) THEN None ELSE tree[p]]

Running == \E l \in last : l.todo # <<>>

\* The commands there may be: one after another.
Ready == ~Running /\ done < MaxCommands

\* A command that knows m by now commits x and is done.
Commits(m, x) ==
  /\ last' = {} /\ done' = done + 1
  /\ Absorb(m, x)

\* So does one that repairs an entry.
Repairs(m, kind, e, p) ==
  /\ last' = {[verb |-> kind, old |-> p, new |-> p, todo |-> <<>>, cut |-> FALSE,
               was |-> [d \in {e} |-> m.folded[d]]]}
  /\ done' = done + 1
  /\ Absorb(m, Stamp(kind, e, p))

Create(e, p) ==
  /\ e \notin Known /\ \A x \in Record : x.entry # e
  /\ Exists(p)
  /\ Commits(memo, Stamp("CR", e, p))

\* u, and k without a path: at the one home of a note that has one, restampPath.
Restamp(kind, m, e) ==
  \E p \in m.resolved[e].home :
    /\ e \in Visible(m) /\ m.resolved[e].state # "split"
    /\ Exists(p)
    /\ Repairs(m, kind, e, p)

\* k with a path, also of an abandoned note.
ReAnchorAt(m, e, p) ==
  /\ m.folded[e].landed => IsFolderNote(m.folded[e]) = IsFolder(p)
  /\ Exists(p)
  /\ Repairs(m, "RA", e, p)

Tombstone(m, e) == Commits(m, Rec("TB", e))

\* A repairing verb, of a handle whose readings m knows.
Repair(m, S) ==
  \E e \in S :
    /\ Addressed(m, S, TRUE) = {e}
    /\ \/ Tombstone(m, e)
       \/ \E p \in Places : ReAnchorAt(m, e, p)
       \/ Present(m.folded[e]) /\ \E kind \in {"SU", "RA"} : Restamp(kind, Resolved(m, e), e)

Feedback(m, S) ==
  \E e \in S : Addressed(m, S, FALSE) = {e} /\ Commits(m, Rec("FB", e))

\* al.
Link(m, S, T) ==
  \E d \in S, e \in T :
    /\ Addressed(m, S, FALSE) = {d} /\ Addressed(m, T, FALSE) = {e}
    /\ d # e
    /\ Commits(m, [Rec("LN", d) EXCEPT !.to = e])

\* dl, of a pair that is linked by what m knows.
Unlink(m, S, T) ==
  \E d \in S, e \in T :
    /\ Addressed(m, S, FALSE) = {d} /\ Addressed(m, T, FALSE) = {e}
    /\ \E l \in UNION m.links : l.entry = d /\ l.to = e
    /\ Commits(m, [Rec("UL", d) EXCEPT !.to = e])

\* One verdict, by hand or by the mint pass; one for an ancestor of HEAD, which
\* has landed anyhow, changes nothing.
Verdict(o, as) ==
  /\ o # as
  /\ Commits(memo, [Rec("VD", None) EXCEPT !.origin = o, !.as = as])

\* Mutant of HomedAt: what r shows at the path.
HomedAtSeen(m, path) ==
  {e \in Visible(ResolvedAll(m, Known)) : Under(HintOf(m.folded[e]), path)}

\* homedAt: the landed notes whose hint is under the path, wherever they are.
HomedAt(m, path) ==
  {e \in Known : Present(m.folded[e]) /\ Under(HintOf(m.folded[e]), path)}

\* mv and rm begin; a mv that was cut short may be given again.
Macro(m, verb, old, new) ==
  LET again == {l \in last : l.cut /\ l.verb = verb /\ l.old = old /\ l.new = new}
  IN  /\ done' = done + 1
      /\ HomedAt(m, old) # {}
      /\ last' = {[verb |-> verb, old |-> old, new |-> new,
                   todo |-> InOrder(HomedAt(m, old)), cut |-> FALSE,
                   was |-> IF again # {} THEN Only(again).was ELSE [e \in Known |-> m.folded[e]]]}
      /\ memo' = m
      /\ UNCHANGED <<checkout, records>>

\* The next of its notes.
MacroStep ==
  \E l \in last :
    /\ l.todo # <<>>
    /\ LET e == Head(l.todo)
           to == Destination(HintOf(memo.folded[e]), l.old, l.new)
       IN  CASE l.verb = "rm" -> Absorb(memo, Rec("TB", e))
             [] l.verb = "mv" /\ Exists(to) ->
                  Absorb(memo, [Rec("RP", e) EXCEPT !.origin = Here, !.path = to])
             [] OTHER -> UNCHANGED <<checkout, records, memo>>
    /\ last' = {[l EXCEPT !.todo = Tail(@)]}
    /\ UNCHANGED done

\* r, which reads no less than the worklist and than what a command reads for its
\* ack, and the classifications a mint pass begins with.
Look ==
  /\ ~Running
  /\ \/ memo' = WithLinks(ResolvedAll(memo, Known))
     \/ memo' = Classed(memo, SetToSeq(NoteOrigins({r \in records : ~Tombstoned(records, r.entry)})))
  /\ UNCHANGED <<checkout, records, last, done>>

\* The batch is over, or dies between two records; the next one may find more
\* in the store.
NextBatch ==
  /\ memo' = NothingKnown
  /\ \/ /\ last' = {[l EXCEPT !.todo = <<>>, !.cut = TRUE] :
                      l \in {k \in last : k.todo # <<>> \/ k.cut}}
        /\ UNCHANGED records
     \/ ~Running /\ last' = {} /\ \E x \in Record \ records : records' = AddAbsent(records, {x})
  /\ UNCHANGED <<checkout, done>>

Init ==
  /\ \E s \in Start :
       /\ ancestors = s.ancestors /\ reachable = s.reachable /\ qualified = s.qualified
       /\ records = s.records
  /\ memo = NothingKnown
  /\ last = {} /\ done = 0

\* What a command knows when it has read the notes of a handle.
HasRead(S) == FoldedAll(memo, S \cap Known)
HasSeen(m, S) == ResolvedAll(m, S \cap Known)

Command ==
  \/ \E e \in Entry, p \in Places : Create(e, p)
  \/ \E S \in Handles : Repair(HasRead(S), S) \/ Feedback(HasSeen(memo, S), S)
  \/ \E S, T \in Handles : \E m \in {HasSeen(HasSeen(memo, S), T)} :
       Link(m, S, T) \/ Unlink(WithLinks(m), S, T)
  \/ \E o \in Commit \ ancestors, as \in Commit \cup {None} : Verdict(o, as)
  \/ \E m \in {FoldedAll(memo, Known)} :
       \/ \E p, q \in Places : IsFolder(p) = IsFolder(q) /\ Macro(m, "mv", p, q)
       \/ \E p \in Places : Macro(m, "rm", p, p)

Next ==
  \/ Look
  \/ Ready /\ Command
  \/ MacroStep
  \/ NextBatch

Spec == Init /\ [][Next]_vars

-----------------------------------------------------------------------------

\* All there is to know now.
Anew == ResolvedAll(NothingKnown, Known)

\* The pages S, and the children of those that are folders'.
Onward(S, m) == S \cup UNION {Children(p, m) : p \in {q \in S : IsFolder(q)}}

\* The pages one comes to from the root's, in at most n steps.
Pages(m, n) ==
  LET upto[k \in 0 .. n] == IF k = 0 THEN {Root} ELSE Onward(upto[k - 1], m)
  IN  upto[n]

\* The note is deleted, or where a reader who knows m comes to it, in as many
\* steps as its home is long, or of a line that may yet land here.
InReach(m, e) ==
  LET Takes(repair) == /\ e \in Addressed(m, HandleOf(e), repair)
                       /\ Addressed(m, {e}, repair) = {e}
  IN  \/ m.folded[e].deleted
      \/ /\ e \in Visible(m)
         /\ \E h \in m.resolved[e].home : \E p \in Pages(m, Len(h)) : e \in Shown(p, m)
         /\ Takes(FALSE) /\ Takes(TRUE)
      \/ e \in Debt(m) /\ Takes(TRUE)
      \/ LineageOf(e, m) \in {"pending-elsewhere", "unknown"}

\* No living note of this line is lost to its readers: one that has landed is on
\* a page they come to down the child inventories, or on the worklist; one whose
\* line is dead is on the worklist.  Of the former every verb takes it, of the
\* latter the repairing ones, by the handle dm shows for it, or they name it
\* among those it may mean, when its own tail does.
NoNoteIsOutOfReach == \A m \in {Anew} : \A e \in Known : InReach(m, e)

\* A body that has landed stays.
KeepsBody(was, now) == \A b \in was.body : StateOf(b.origin) = "landed" => now.body = {b}

\* What u and k repair is repaired: whatever was known of the note when the
\* command was given, and wherever it was, it is then where they put it, without
\* a doubt and without a dispute, in this checkout; and k leaves a landed
\* note's body alone.
RepairsHeal ==
  \A l \in {k \in last : k.verb \in {"SU", "RA"}} : \A e \in DOMAIN l.was :
    LET now == ReadingOf(e)
        at == Resolution(now)
    IN  /\ Present(now) /\ ~now.disputed
        /\ at.state = "fresh" /\ at.home = {l.new}
        /\ l.verb = "RA" => KeepsBody(l.was[e], now)

\* A mv that is through, be it the second time after a first one that was cut
\* short anywhere, has taken every landed note under the old path whose new path
\* there is to that path, where it is seen, and has left every other note alone.
\* What has its new path under the old one too, as after mv a/ a/b/, the second
\* time goes on from there.
MovesResume ==
  \A l \in {k \in last : k.verb = "mv" /\ k.todo = <<>> /\ ~k.cut} : \A e \in DOMAIN l.was :
    LET was == l.was[e]
        now == ReadingOf(e)
        to == Destination(HintOf(was), l.old, l.new)
    IN  IF Present(was) /\ Under(HintOf(was), l.old) /\ Exists(to)
        THEN (Under(to, l.old) => to = HintOf(was)) =>
               HintOf(now) = to /\ Resolver!Visible(Resolution(now)) /\ KeepsBody(was, now)
        ELSE now = was

=============================================================================
