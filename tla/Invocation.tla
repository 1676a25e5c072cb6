----------------------------- MODULE Invocation -----------------------------
(***************************************************************************)
(* The invocations of one clone: the lock (internal/local/lock.go), the    *)
(* session (internal/app/session.go), the pending files                    *)
(* (internal/local/local.go) and the ids (internal/core/record/mint.go).   *)
(*                                                                         *)
(* Processes wait for one lock, load what is pending, append records with  *)
(* fresh ids, count stat events, or clear what a sync has landed, and may  *)
(* die anywhere, with a file half written.  DmSync takes what this module  *)
(* shows for granted: a record is appended in one step, by one invocation  *)
(* at a time, with an id above everything pending.                         *)
(***************************************************************************)
EXTENDS Integers

CONSTANTS
  Proc,       \* dm processes
  Tails,      \* the random tails of one millisecond are 0 .. Tails - 1
  Clock,      \* the milliseconds the wall clock may show, in any order
  MaxMints,   \* bound: ids minted
  MaxEvents,  \* bound: stat events counted
  MaxFaults   \* bound: deaths and failing writes

ASSUME InvocationAssumption ==
  /\ Tails \in Nat \ {0}
  /\ Clock \subseteq Nat
  /\ MaxMints \in Nat /\ MaxEvents \in Nat /\ MaxFaults \in Nat

VARIABLES
  lock,    \* the processes that hold .git/.dm/lock
  whole,   \* pending/records: the ids of the files that are written
  torn,    \* those of the files that are created and not yet, or never, written
  stats    \* pending/stats: the events accumulated

VARIABLES  \* of each process
  pc,      \* where it stands
  seen,    \* Session.Pending
  floor,   \* Minter.last
  drawn,   \* the minter's entropy: the millisecond and tail last drawn
  minted,  \* the id of the record being appended
  opened,  \* Session.PendingStats: the accumulator when it opened
  deltas   \* the events of this invocation

VARIABLES  \* of no code
  mints,   \* ids minted so far
  events,  \* stat events so far
  counted, \* the events of the invocations that flushed theirs, since the last clear
  faults   \* faults so far

files == <<whole, torn, stats>>
memory == <<seen, floor, drawn, minted, opened, deltas>>
ghosts == <<mints, events, counted, faults>>
vars == <<lock, files, pc, memory, ghosts>>

None == -1
Undrawn == [ms |-> None, tail |-> 0]

\* An id is a millisecond and a tail, in that order.
IdAt(ms, tail) == ms * Tails + tail
MsOf(id) == id \div Tails

Init ==
  /\ lock = {}
  /\ whole = {} /\ torn = {} /\ stats = 0
  /\ pc = [p \in Proc |-> "idle"]
  /\ seen = [p \in Proc |-> {}]
  /\ floor = [p \in Proc |-> None]
  /\ drawn = [p \in Proc |-> Undrawn]
  /\ minted = [p \in Proc |-> None]
  /\ opened = [p \in Proc |-> 0]
  /\ deltas = [p \in Proc |-> 0]
  /\ mints = 0 /\ events = 0 /\ counted = 0 /\ faults = 0

-----------------------------------------------------------------------------
(* Minting.                                                                *)

\* ulid.New in monotonic mode at ms: within the millisecond it drew from last
\* the tail goes up by some step, and past the end there is no id; else, or
\* when the tail drawn was zero, it is drawn afresh.
Draws(d, ms) ==
  {[ms |-> ms, tail |-> t] :
     t \in {u \in 0 .. Tails - 1 : d.ms = ms /\ d.tail # 0 => d.tail < u}}

\* When a step goes past the end, the next millisecond is drawn from.
DrawsOrRolls(d, ms) ==
  Draws(d, ms) \cup
    IF d.ms = ms /\ d.tail # 0 THEN Draws(Undrawn, ms + 1) ELSE {}

\* Mutant of Mintings: a clock behind the floor is not followed, and that is all.
MintingsUnraised(f, d, now) ==
  LET ms == IF f # None /\ now < MsOf(f) THEN MsOf(f) ELSE now
  IN  {[id |-> IdAt(n.ms, n.tail), drawn |-> n] : n \in DrawsOrRolls(d, ms)}

\* MintRecID: what may be minted above the floor f when the clock shows now.  A
\* clock behind the floor is not followed, and a draw that is not above the
\* floor makes way for the floor's successor.
Mintings(f, d, now) ==
  LET ms == IF f # None /\ now < MsOf(f) THEN MsOf(f) ELSE now
  IN  {[id |-> IF IdAt(n.ms, n.tail) <= f THEN f + 1 ELSE IdAt(n.ms, n.tail),
        drawn |-> n] : n \in DrawsOrRolls(d, ms)}

-----------------------------------------------------------------------------

Goto(p, from, to) == pc[p] = from /\ pc' = [pc EXCEPT ![p] = to]

\* The process ends: its memory is gone, and the lock, if it had it, is free.
Exit(p) ==
  /\ pc' = [pc EXCEPT ![p] = "idle"]
  /\ seen' = [seen EXCEPT ![p] = {}]
  /\ floor' = [floor EXCEPT ![p] = None]
  /\ drawn' = [drawn EXCEPT ![p] = Undrawn]
  /\ minted' = [minted EXCEPT ![p] = None]
  /\ opened' = [opened EXCEPT ![p] = 0]
  /\ deltas' = [deltas EXCEPT ![p] = 0]
  /\ lock' = lock \ {p}

\* A dm command starts, and waits for the lock.
Start(p) ==
  /\ Goto(p, "idle", "waiting")
  /\ UNCHANGED <<lock, files, memory, ghosts>>

\* Mutant of Lock: it is taken over from a holder that is slow.
LockBeside(p) ==
  /\ Goto(p, "waiting", "load")
  /\ lock' = lock \cup {p}
  /\ UNCHANGED <<files, memory, ghosts>>

Lock(p) ==
  /\ Goto(p, "waiting", "load")
  /\ lock = {}
  /\ lock' = {p}
  /\ UNCHANGED <<files, memory, ghosts>>

\* The minter resumes past everything pending.
Resumed == IF whole = {} THEN None ELSE CHOOSE x \in whole : \A y \in whole : y <= x

\* load: the session scans what is pending.
Load(p) ==
  /\ Goto(p, "load", "open")
  /\ torn = {}
  /\ seen' = [seen EXCEPT ![p] = whole]
  /\ floor' = [floor EXCEPT ![p] = Resumed]
  /\ drawn' = [drawn EXCEPT ![p] = Undrawn]
  /\ opened' = [opened EXCEPT ![p] = stats]
  /\ deltas' = [deltas EXCEPT ![p] = 0]
  /\ UNCHANGED <<lock, files, minted, ghosts>>

\* Mutant of LoadFails: it waits for the file to be written.
LoadWaits(p) ==
  /\ Goto(p, "load", "load")
  /\ torn # {}
  /\ UNCHANGED <<lock, files, memory, ghosts>>

\* A file that is no record makes it give up, and release the lock.
LoadFails(p) ==
  /\ pc[p] = "load"
  /\ torn # {}
  /\ Exit(p)
  /\ UNCHANGED <<files, ghosts>>

\* AppendPendingRecord creates the file of the id, which must not be there ...
Create(p) ==
  /\ Goto(p, "open", "append")
  /\ mints < MaxMints /\ mints' = mints + 1
  /\ \E now \in Clock : \E m \in Mintings(floor[p], drawn[p], now) :
       /\ m.id \notin whole \cup torn
       /\ minted' = [minted EXCEPT ![p] = m.id]
       /\ floor' = [floor EXCEPT ![p] = m.id]
       /\ drawn' = [drawn EXCEPT ![p] = m.drawn]
       /\ torn' = torn \cup {m.id}
  /\ UNCHANGED <<lock, whole, stats, seen, opened, deltas,
                 events, counted, faults>>

\* Mutant of Append: the overlay is as it was when the session opened.
AppendUnseen(p) ==
  /\ Goto(p, "append", "open")
  /\ whole' = whole \cup {minted[p]}
  /\ torn' = torn \ {minted[p]}
  /\ UNCHANGED <<lock, stats, memory, ghosts>>

\* ... and writes it; then the record is in the overlay too.
Append(p) ==
  /\ Goto(p, "append", "open")
  /\ whole' = whole \cup {minted[p]}
  /\ torn' = torn \ {minted[p]}
  /\ seen' = [seen EXCEPT ![p] = @ \cup {minted[p]}]
  /\ UNCHANGED <<lock, stats, floor, drawn, minted, opened, deltas, ghosts>>

\* The write fails; the command does, and the batch goes on.
AppendFails(p) ==
  /\ Goto(p, "append", "open")
  /\ faults < MaxFaults /\ faults' = faults + 1
  /\ UNCHANGED <<lock, files, memory, mints, events, counted>>

\* A read counts an event.
Count(p) ==
  /\ pc[p] = "open"
  /\ events < MaxEvents /\ events' = events + 1
  /\ deltas' = [deltas EXCEPT ![p] = @ + 1]
  /\ UNCHANGED <<lock, files, pc, seen, floor, drawn, minted, opened,
                 mints, counted, faults>>

\* The invocation is a sync, whose push of all that is pending landed.
Landed(p) ==
  /\ Goto(p, "open", "clear")
  /\ deltas[p] = 0
  /\ UNCHANGED <<lock, files, memory, ghosts>>

\* ClearPending, by name.
ClearRecord(p) ==
  /\ pc[p] = "clear"
  /\ \E x \in seen[p] \cap whole :
       /\ whole' = whole \ {x}
       /\ seen' = [seen EXCEPT ![p] = @ \ {x}]
  /\ UNCHANGED <<lock, torn, stats, pc, floor, drawn, minted, opened, deltas, ghosts>>

\* ClearPendingStats; the session forgets its accumulator, and has no events of
\* its own to flush.
ClearStats(p) ==
  /\ Goto(p, "clear", "close")
  /\ seen[p] = {}
  /\ stats' = 0 /\ counted' = 0
  /\ opened' = [opened EXCEPT ![p] = 0]
  /\ UNCHANGED <<lock, whole, torn, seen, floor, drawn, minted, deltas,
                 mints, events, faults>>

\* Close: the events are flushed, in one write that may fail unnoticed.
Flush(p) ==
  /\ Goto(p, "open", "close")
  /\ \/ /\ deltas[p] > 0
        /\ stats' = opened[p] + deltas[p]
        /\ counted' = counted + deltas[p]
        /\ UNCHANGED faults
     \/ /\ deltas[p] > 0
        /\ faults < MaxFaults /\ faults' = faults + 1
        /\ UNCHANGED <<stats, counted>>
     \/ /\ deltas[p] = 0
        /\ UNCHANGED <<stats, counted, faults>>
  /\ UNCHANGED <<lock, whole, torn, memory, mints, events>>

Close(p) ==
  /\ pc[p] = "close"
  /\ Exit(p)
  /\ UNCHANGED <<files, ghosts>>

\* The process dies anywhere, also between the two halves of an append.
Die(p) ==
  /\ pc[p] # "idle"
  /\ faults < MaxFaults /\ faults' = faults + 1
  /\ Exit(p)
  /\ UNCHANGED <<files, mints, events, counted>>

\* The steps of a process that has the lock.
Step(p) ==
  \/ Load(p) \/ LoadFails(p)
  \/ Create(p) \/ Append(p) \/ Count(p)
  \/ Landed(p) \/ ClearRecord(p) \/ ClearStats(p)
  \/ Flush(p) \/ Close(p)

Next == \E p \in Proc : Start(p) \/ Lock(p) \/ Step(p) \/ AppendFails(p) \/ Die(p)

Spec == Init /\ [][Next]_vars

\* A process that has the lock goes on; the kernel gives a lock that is free
\* again and again to everybody who waits.
LiveSpec == Spec /\ \A p \in Proc : WF_vars(Step(p)) /\ SF_vars(Lock(p))

-----------------------------------------------------------------------------

Locked == {"load", "open", "append", "clear", "close"}
Loaded == Locked \ {"load"}

\* A record is appended with an id above all that is pending, whatever the clock
\* does and whoever appended the others: the order in which a clone wrote is
\* the order in which its records fold.
AppendsInOrder ==
  [][\A x \in whole' \ whole : \A y \in whole : y < x]_vars

\* What a session takes for pending is what is pending, from its load to its
\* end, through its own writes, failed ones and clearing.
OverlayIsDisk == \A p \in Proc : pc[p] \in Loaded => seen[p] = whole

\* The accumulator has the events of every invocation that flushed its own:
\* none is overwritten by one that opened before.
StatsKept == stats = counted

\* Whoever waits for the lock gets it, whatever becomes of its holders.
NobodyWaitsForever == \A p \in Proc : pc[p] = "waiting" ~> pc[p] # "waiting"

=============================================================================
