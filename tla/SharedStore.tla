---------------------------- MODULE SharedStore ----------------------------
(***************************************************************************)
(* What sharing notes promises, whatever the machinery underneath: a       *)
(* record that was acknowledged is held by a clone until it is shared,     *)
(* shared until a compaction sweeps it, and a deletion is never swept.     *)
(* design.md, sections 8.4 and 8.7, read as a state machine.               *)
(***************************************************************************)
EXTENDS Naturals

CONSTANTS
  Record,   \* the records that may ever be written
  Terminal  \* the tombstones among them

VARIABLES
  written,  \* the records acknowledged so far
  held,     \* those some clone has pending
  shared,   \* those on the remote
  swept,    \* those a compaction took away
  epoch     \* the number of compactions that landed

vars == <<written, held, shared, swept, epoch>>

Init ==
  /\ written = {} /\ held = {} /\ shared = {} /\ swept = {}
  /\ epoch = 0

\* A write command, or a mint pass, appends new records to a pending.
Acknowledge ==
  \E X \in SUBSET (Record \ written) :
    /\ X # {}
    /\ written' = written \cup X
    /\ held' = held \cup X
    /\ UNCHANGED <<shared, swept, epoch>>

\* A sync lands: what it adds to the remote is pending somewhere.
Share ==
  \E X \in SUBSET held :
    /\ shared' = shared \cup X
    /\ UNCHANGED <<written, held, swept, epoch>>

\* Pending is cleared, of records that were shared by then.
Release ==
  \E X \in SUBSET (held \cap (shared \cup swept)) :
    /\ held' = held \ X
    /\ UNCHANGED <<written, shared, swept, epoch>>

\* A compaction lands: it may take anything from the remote but a tombstone.
Compact ==
  \E X \in SUBSET (shared \ Terminal) :
    /\ shared' = shared \ X
    /\ swept' = swept \cup X
    /\ epoch' = epoch + 1
    /\ UNCHANGED <<written, held>>

Next == Acknowledge \/ Share \/ Release \/ Compact

Spec == Init /\ [][Next]_vars

\* Nothing that was acknowledged is lost.
NothingLost == written \subseteq held \cup shared \cup swept
=============================================================================
