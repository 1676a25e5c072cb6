-------------------------- MODULE InvocationProofs --------------------------
(***************************************************************************)
(* Theorems about Invocation, for any number of processes, any clock, any  *)
(* width of the random tail and no bound on deaths: what DmSync takes for  *)
(* granted of the sessions of one clone.                                   *)
(***************************************************************************)
EXTENDS Invocation, TLAPS

\* What the steps need to be typed of the state.
Typed ==
  /\ pc \in [Proc -> Locked \cup {"idle", "waiting"}]
  /\ seen \in [Proc -> SUBSET Int]
  /\ floor \in [Proc -> Int]
  /\ drawn \in [Proc -> [ms : Int, tail : Int]]
  /\ minted \in [Proc -> Int]
  /\ whole \in SUBSET Int

\* Whatever is left of what is pending has a greatest id.
Topped ==
  \A S \in SUBSET whole : S # {} => \E x \in S : \A y \in S : y <= x

\* The lock is had by one.
Exclusive == \A p \in Proc : pc[p] \in Locked => lock = {p}

\* A minter stays at or above what is pending while its session is open, and
\* the id it is about to write is above it.
Above ==
  \A p \in Proc :
    /\ pc[p] = "open" => \A y \in whole : y <= floor[p]
    /\ pc[p] = "append" => minted[p] = floor[p] /\ \A y \in whole : y < minted[p]

IInv == Typed /\ Topped /\ Exclusive /\ Above /\ OverlayIsDisk

-----------------------------------------------------------------------------

\* The minter resumes at or above everything pending.
LEMMA ResumedIsAbove ==
  ASSUME Typed, Topped
  PROVE  Resumed \in Int /\ \A y \in whole : y <= Resumed
<1>1. CASE whole = {}
  BY <1>1 DEF Resumed, None
<1>2. CASE whole # {}
  <2>1. \E x \in whole : \A y \in whole : y <= x
    BY <1>2 DEF Topped
  <2> QED
    BY <1>2, <2>1 DEF Resumed, Typed
<1> QED
  BY <1>1, <1>2

\* Whatever the clock shows and the entropy draws, an id is minted above the
\* floor.
LEMMA MintsAbove ==
  ASSUME NEW f \in Int, NEW d, NEW now \in Clock, NEW m \in Mintings(f, d, now)
  PROVE  /\ m.id \in Int /\ f < m.id
         /\ m.drawn \in [ms : Int, tail : Int]
<1> DEFINE ms == IF f # None /\ now < MsOf(f) THEN MsOf(f) ELSE now
<1>1. ms \in Int
  BY InvocationAssumption DEF MsOf
<1> HIDE DEF ms
<1>2. PICK n \in DrawsOrRolls(d, ms) :
        m = [id |-> IF IdAt(n.ms, n.tail) <= f THEN f + 1 ELSE IdAt(n.ms, n.tail),
             drawn |-> n]
  BY DEF Mintings, ms
<1>3. n \in [ms : Int, tail : Int]
  BY <1>1, InvocationAssumption DEF DrawsOrRolls, Draws
<1>4. IdAt(n.ms, n.tail) \in Int
  BY <1>3, InvocationAssumption DEF IdAt
<1> QED
  BY <1>2, <1>3, <1>4


-----------------------------------------------------------------------------

LEMMA InitOk == Init => IInv
BY DEF Init, IInv, Typed, Topped, Exclusive, Above, OverlayIsDisk, Undrawn, None,
       Locked, Loaded

\* Typing, by action.
LEMMA StaysTyped == IInv /\ [Next]_vars => Typed'
<1> SUFFICES ASSUME IInv, [Next]_vars PROVE Typed'
  OBVIOUS
<1> USE DEF Typed, Locked
<1>1. CASE UNCHANGED vars
  BY <1>1 DEF IInv, vars, files, memory
<1>2. ASSUME NEW p \in Proc,
             \/ Start(p) \/ Lock(p) \/ AppendFails(p)
             \/ Landed(p) \/ Count(p) \/ Flush(p)
      PROVE  Typed'
  BY <1>2 DEF IInv, Start, Lock, AppendFails, Landed, Count, Flush, Goto, files, memory
<1>3. ASSUME NEW p \in Proc, LoadFails(p) \/ Close(p) \/ Die(p)
      PROVE  Typed'
  <2>1. Exit(p) /\ whole' = whole
    BY <1>3 DEF LoadFails, Close, Die, files
  <2>2. None \in Int /\ Undrawn \in [ms : Int, tail : Int]
    BY DEF None, Undrawn
  <2>3. /\ pc' \in [Proc -> Locked \cup {"idle", "waiting"}]
        /\ seen' \in [Proc -> SUBSET Int]
        /\ floor' \in [Proc -> Int]
        /\ drawn' \in [Proc -> [ms : Int, tail : Int]]
        /\ minted' \in [Proc -> Int]
    BY <2>1, <2>2 DEF IInv, Exit
  <2> QED
    BY <2>1, <2>3 DEF IInv
<1>4. ASSUME NEW p \in Proc, Load(p) PROVE Typed'
  <2>1. Resumed \in Int /\ Undrawn \in [ms : Int, tail : Int]
    BY ResumedIsAbove DEF IInv, Undrawn, None
  <2> QED
    BY <1>4, <2>1 DEF IInv, Load, Goto, files
<1>5. ASSUME NEW p \in Proc, Create(p) PROVE Typed'
  <2>0. PICK now \in Clock : \E m \in Mintings(floor[p], drawn[p], now) :
          /\ minted' = [minted EXCEPT ![p] = m.id]
          /\ floor' = [floor EXCEPT ![p] = m.id]
          /\ drawn' = [drawn EXCEPT ![p] = m.drawn]
    BY <1>5 DEF Create
  <2>1. PICK m \in Mintings(floor[p], drawn[p], now) :
          /\ minted' = [minted EXCEPT ![p] = m.id]
          /\ floor' = [floor EXCEPT ![p] = m.id]
          /\ drawn' = [drawn EXCEPT ![p] = m.drawn]
    BY <2>0
  <2>2. m.id \in Int /\ m.drawn \in [ms : Int, tail : Int]
    BY MintsAbove DEF IInv
  <2> QED
    BY <1>5, <2>1, <2>2 DEF IInv, Create, Goto
<1>6. ASSUME NEW p \in Proc, Append(p) PROVE Typed'
  BY <1>6 DEF IInv, Append, Goto
<1>7. ASSUME NEW p \in Proc, ClearRecord(p) \/ ClearStats(p) PROVE Typed'
  BY <1>7 DEF IInv, ClearRecord, ClearStats, Goto
<1> QED
  BY <1>1, <1>2, <1>3, <1>4, <1>5, <1>6, <1>7 DEF Next, Step

\* The invariant beyond the types, by action.
LEMMA StepsKeep == IInv /\ [Next]_vars => (Topped /\ Exclusive /\ Above /\ OverlayIsDisk)'
<1> SUFFICES ASSUME IInv, [Next]_vars
             PROVE  (Topped /\ Exclusive /\ Above /\ OverlayIsDisk)'
  OBVIOUS
<1> USE DEF IInv
<1>1. CASE UNCHANGED vars
  BY <1>1 DEF Topped, Exclusive, Above, OverlayIsDisk, vars, files, memory
<1>2. ASSUME NEW p \in Proc, Start(p) \/ Lock(p)
      PROVE  (Topped /\ Exclusive /\ Above /\ OverlayIsDisk)'
  <2>1. Exclusive'
    BY <1>2 DEF Typed, Exclusive, Start, Lock, Goto, Locked
  <2>2. Topped' /\ Above' /\ OverlayIsDisk'
    BY <1>2 DEF Typed, Topped, Above, OverlayIsDisk, Start, Lock, Goto, files, memory,
                Locked, Loaded
  <2> QED
    BY <2>1, <2>2
<1>3. ASSUME NEW p \in Proc, LoadFails(p) \/ Close(p) \/ Die(p)
      PROVE  (Topped /\ Exclusive /\ Above /\ OverlayIsDisk)'
  <2>1. Exit(p) /\ whole' = whole
    BY <1>3 DEF LoadFails, Close, Die, files
  <2>2. \A q \in Proc \ {p} :
          pc'[q] = pc[q] /\ seen'[q] = seen[q] /\ floor'[q] = floor[q]
            /\ minted'[q] = minted[q]
    BY <2>1 DEF Typed, Exit
  <2>3. pc'[p] = "idle"
    BY <2>1 DEF Typed, Exit
  <2>4. Exclusive'
    <3>1. \A q \in Proc \ {p} : pc[q] \in Locked => lock = {q} /\ lock' = {q}
      BY <2>1 DEF Exclusive, Exit
    <3> QED
      BY <2>2, <2>3, <3>1 DEF Exclusive, Locked
  <2>5. Topped' /\ Above' /\ OverlayIsDisk'
    BY <2>1, <2>2, <2>3 DEF Topped, Above, OverlayIsDisk, Locked, Loaded
  <2> QED
    BY <2>4, <2>5
<1>4. ASSUME NEW p \in Proc, Load(p)
      PROVE  (Topped /\ Exclusive /\ Above /\ OverlayIsDisk)'
  <2>1. Resumed \in Int /\ \A y \in whole : y <= Resumed
    BY ResumedIsAbove
  <2>2. Topped' /\ Exclusive'
    BY <1>4 DEF Typed, Topped, Exclusive, Load, Goto, files, Locked
  <2>3. Above' /\ OverlayIsDisk'
    BY <1>4, <2>1 DEF Typed, Above, OverlayIsDisk, Load, Goto, files, Locked, Loaded
  <2> QED
    BY <2>2, <2>3
<1>5. ASSUME NEW p \in Proc, Create(p)
      PROVE  (Topped /\ Exclusive /\ Above /\ OverlayIsDisk)'
  <2>0. PICK now \in Clock : \E m \in Mintings(floor[p], drawn[p], now) :
          /\ minted' = [minted EXCEPT ![p] = m.id]
          /\ floor' = [floor EXCEPT ![p] = m.id]
    BY <1>5 DEF Create
  <2>1. PICK m \in Mintings(floor[p], drawn[p], now) :
          /\ minted' = [minted EXCEPT ![p] = m.id]
          /\ floor' = [floor EXCEPT ![p] = m.id]
    BY <2>0
  <2>2. floor[p] \in Int /\ m.id \in Int /\ floor[p] < m.id
    BY MintsAbove DEF Typed
  <2>3. /\ whole' = whole /\ seen' = seen /\ lock' = lock
        /\ pc[p] = "open" /\ pc' = [pc EXCEPT ![p] = "append"]
    BY <1>5 DEF Create, Goto
  <2>4. \A y \in whole : y < m.id
    BY <2>2, <2>3 DEF Above, Typed
  <2>5. Topped' /\ Exclusive' /\ OverlayIsDisk'
    BY <2>3 DEF Typed, Topped, Exclusive, OverlayIsDisk, Locked, Loaded
  <2>6. Above'
    BY <2>1, <2>2, <2>3, <2>4 DEF Typed, Above
  <2> QED
    BY <2>5, <2>6
<1>6. ASSUME NEW p \in Proc, Append(p)
      PROVE  (Topped /\ Exclusive /\ Above /\ OverlayIsDisk)'
  <2> DEFINE x == minted[p]
  <2>1. /\ pc[p] = "append" /\ pc' = [pc EXCEPT ![p] = "open"]
        /\ whole' = whole \cup {x} /\ seen' = [seen EXCEPT ![p] = @ \cup {x}]
        /\ lock' = lock /\ floor' = floor /\ minted' = minted
    BY <1>6 DEF Append, Goto
  <2>2. x \in Int /\ floor[p] = x /\ \A y \in whole : y < x
    BY <2>1 DEF Typed, Above
  <2>3. \A q \in Proc \ {p} : pc[q] \notin Locked /\ pc'[q] = pc[q]
    BY <2>1 DEF Typed, Exclusive, Locked
  <2>4. Exclusive'
    BY <2>1, <2>3 DEF Exclusive, Locked
  <2>5. OverlayIsDisk'
    BY <2>1, <2>3 DEF Typed, OverlayIsDisk, Loaded, Locked
  <2>6. Above'
    BY <2>1, <2>2, <2>3 DEF Typed, Above, Locked
  <2>7. Topped'
    <3> SUFFICES ASSUME NEW S \in SUBSET (whole \cup {x}), S # {}
                 PROVE  \E z \in S : \A y \in S : y <= z
      BY <2>1 DEF Topped
    <3>1. CASE x \in S
      BY <3>1, <2>2 DEF Typed
    <3>2. CASE x \notin S
      BY <3>2 DEF Topped
    <3> QED
      BY <3>1, <3>2
  <2> QED
    BY <2>4, <2>5, <2>6, <2>7
<1>7. ASSUME NEW p \in Proc, AppendFails(p) \/ Landed(p) \/ Count(p) \/ Flush(p) \/ ClearStats(p)
      PROVE  (Topped /\ Exclusive /\ Above /\ OverlayIsDisk)'
  <2>1. /\ whole' = whole /\ seen' = seen /\ lock' = lock
        /\ floor' = floor /\ minted' = minted
        /\ \E to \in Loaded :
             /\ pc' = [pc EXCEPT ![p] = to]
             /\ pc[p] \in Loaded
             /\ to = "open" => pc[p] \in {"open", "append"}
             /\ to # "append"
    BY <1>7 DEF Typed, AppendFails, Landed, Count, Flush, ClearStats, Goto, files, memory,
                Loaded, Locked
  <2>2. Topped'
    BY <2>1 DEF Topped
  <2>3. Exclusive' /\ OverlayIsDisk'
    BY <2>1 DEF Typed, Exclusive, OverlayIsDisk, Loaded, Locked
  <2>4. Above'
    BY <2>1 DEF Typed, Above, Loaded, Locked
  <2> QED
    BY <2>2, <2>3, <2>4
<1>8. ASSUME NEW p \in Proc, ClearRecord(p)
      PROVE  (Topped /\ Exclusive /\ Above /\ OverlayIsDisk)'
  <2>1. PICK x \in seen[p] \cap whole :
          whole' = whole \ {x} /\ seen' = [seen EXCEPT ![p] = @ \ {x}]
    BY <1>8 DEF ClearRecord
  <2>2. pc[p] = "clear" /\ pc' = pc /\ lock' = lock /\ floor' = floor /\ minted' = minted
    BY <1>8 DEF ClearRecord
  <2>3. \A q \in Proc \ {p} : pc[q] \notin Locked
    BY <2>2 DEF Exclusive, Locked
  <2>4. Topped' /\ Exclusive' /\ Above'
    BY <2>1, <2>2 DEF Topped, Exclusive, Above
  <2>5. OverlayIsDisk'
    BY <2>1, <2>2, <2>3 DEF Typed, OverlayIsDisk, Loaded, Locked
  <2> QED
    BY <2>4, <2>5
<1> QED
  BY <1>1, <1>2, <1>3, <1>4, <1>5, <1>6, <1>7, <1>8 DEF Next, Step

-----------------------------------------------------------------------------

THEOREM Inductive == Spec => []IInv
<1>1. IInv /\ [Next]_vars => IInv'
  BY StaysTyped, StepsKeep DEF IInv
<1> QED
  BY InitOk, <1>1, PTL DEF Spec

\* What a session takes for pending is what is pending, in every clone, through
\* all deaths, failed writes and clearings.
THEOREM OverlayAlwaysDisk == Spec => []OverlayIsDisk
<1>1. IInv => OverlayIsDisk
  BY DEF IInv
<1> QED
  BY Inductive, <1>1, PTL

\* A record is appended with an id above all that is pending, whatever the clock
\* and the entropy do: DmSync's assumption about ids.
THEOREM AppendsAreInOrder == Spec => AppendsInOrder
<1>1. IInv /\ [Next]_vars => [\A x \in whole' \ whole : \A y \in whole : y < x]_vars
  <2> SUFFICES ASSUME IInv, Next
               PROVE  \A x \in whole' \ whole : \A y \in whole : y < x
    OBVIOUS
  <2>1. ASSUME NEW p \in Proc, Append(p)
        PROVE  \A x \in whole' \ whole : \A y \in whole : y < x
    BY <2>1 DEF IInv, Above, Append, Goto
  <2>2. ASSUME NEW p \in Proc,
               \/ Start(p) \/ Lock(p) \/ AppendFails(p) \/ Die(p) \/ Load(p)
               \/ LoadFails(p) \/ Create(p) \/ Count(p) \/ Landed(p)
               \/ ClearRecord(p) \/ ClearStats(p) \/ Flush(p) \/ Close(p)
        PROVE  whole' \subseteq whole
    BY <2>2 DEF Start, Lock, AppendFails, Die, Load, LoadFails, Create, Count, Landed,
                ClearRecord, ClearStats, Flush, Close, files
  <2> QED
    BY <2>1, <2>2 DEF Next, Step
<1> QED
  BY Inductive, <1>1, PTL DEF Spec, AppendsInOrder

-----------------------------------------------------------------------------
(* The accumulator.                                                        *)

\* What a session has read of the accumulator is what it still holds, until the
\* session writes it: only the one that has the lock does.  Beside a sync that
\* is clearing, nobody has events of his own.
SInv ==
  /\ stats \in Int /\ counted \in Int
  /\ opened \in [Proc -> Int] /\ deltas \in [Proc -> Int]
  /\ StatsKept
  /\ \A p \in Proc : pc[p] \in {"open", "append", "clear"} => opened[p] = stats

LEMMA StatsStep == IInv /\ SInv /\ [Next]_vars => SInv'
<1> SUFFICES ASSUME IInv, SInv, [Next]_vars PROVE SInv'
  OBVIOUS
<1> USE DEF IInv, Typed, SInv, StatsKept
<1>1. CASE UNCHANGED vars
  BY <1>1 DEF vars, files, memory, ghosts
<1>2. ASSUME NEW p \in Proc,
             \/ Start(p) \/ Lock(p) \/ Create(p) \/ Append(p) \/ AppendFails(p)
             \/ Landed(p) \/ ClearRecord(p)
      PROVE  SInv'
  <2>1. /\ stats' = stats /\ counted' = counted
        /\ opened' = opened /\ deltas' = deltas
        /\ \A q \in Proc : pc'[q] \in {"open", "append", "clear"}
                           => pc[q] \in {"open", "append", "clear"}
    BY <1>2 DEF Start, Lock, Create, Append, AppendFails, Landed, ClearRecord, Goto,
                files, memory, ghosts
  <2> QED
    BY <2>1
<1>3. ASSUME NEW p \in Proc, Load(p) PROVE SInv'
  <2>1. /\ stats' = stats /\ counted' = counted
        /\ opened' = [opened EXCEPT ![p] = stats] /\ deltas' = [deltas EXCEPT ![p] = 0]
        /\ pc' = [pc EXCEPT ![p] = "open"]
    BY <1>3 DEF Load, Goto, files, ghosts
  <2> QED
    BY <2>1
<1>4. ASSUME NEW p \in Proc, LoadFails(p) \/ Close(p) \/ Die(p) PROVE SInv'
  <2>1. /\ stats' = stats /\ counted' = counted
        /\ opened' = [opened EXCEPT ![p] = 0] /\ deltas' = [deltas EXCEPT ![p] = 0]
        /\ pc' = [pc EXCEPT ![p] = "idle"]
    BY <1>4 DEF LoadFails, Close, Die, Exit, files, ghosts
  <2> QED
    BY <2>1
<1>5. ASSUME NEW p \in Proc, Count(p) PROVE SInv'
  BY <1>5 DEF Count, files
\* A write of the accumulator: nobody else has read what it held.
<1>6. ASSUME NEW p \in Proc, ClearStats(p) \/ Flush(p) PROVE SInv'
  <2>1. /\ pc[p] \in {"open", "clear"} /\ pc' = [pc EXCEPT ![p] = "close"]
        /\ opened' \in {opened, [opened EXCEPT ![p] = 0]}
        /\ deltas' = deltas
    BY <1>6 DEF ClearStats, Flush, Goto, memory
  <2>2. \A q \in Proc : pc'[q] \notin {"open", "append", "clear"}
    <3>1. lock = {p}
      BY <2>1 DEF Exclusive, Locked
    <3>2. \A q \in Proc \ {p} : pc'[q] = pc[q] /\ pc[q] \notin Locked
      BY <2>1, <3>1 DEF Exclusive
    <3> QED
      BY <2>1, <3>2 DEF Locked
  <2>3. stats' \in Int /\ counted' \in Int /\ stats' = counted'
    <3>1. CASE ClearStats(p)
      BY <3>1 DEF ClearStats
    <3>2. CASE Flush(p)
      <4>1. opened[p] = stats /\ deltas[p] \in Int
        BY <3>2 DEF Flush, Goto
      <4> QED
        BY <3>2, <4>1 DEF Flush
    <3> QED
      BY <1>6, <3>1, <3>2
  <2> QED
    BY <2>1, <2>2, <2>3
<1> QED
  BY <1>1, <1>2, <1>3, <1>4, <1>5, <1>6 DEF Next, Step

\* The accumulator has the events of every invocation that flushed its own,
\* whatever opened, died or was cleared in between: no session writes over a
\* count it has not read.
THEOREM StatsAreKept == Spec => []StatsKept
<1>1. Init => SInv
  BY DEF Init, SInv, StatsKept
<1>2. SInv => StatsKept
  BY DEF SInv
<1> QED
  BY Inductive, StatsStep, <1>1, <1>2, PTL DEF Spec

=============================================================================
