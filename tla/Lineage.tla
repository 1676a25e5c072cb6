------------------------------ MODULE Lineage ------------------------------
(***************************************************************************)
(* Rule (b): which commits count as landed at a checkout, given the        *)
(* verdicts that say what a rewritten commit landed as.  The pure half of  *)
(* internal/core/lineage (lineage.go).                                     *)
(*                                                                         *)
(* The code history comes in as data: the ancestors of HEAD, and whether a *)
(* commit is reachable from some other ref.                                *)
(***************************************************************************)
EXTENDS Union

CONSTANT MaxChainDepth  \* how far a chain of verdicts is followed

ASSUME ChainAssumption == MaxChainDepth \in Nat

Verdicts(R) == {r \in R : r.kind = "VD"}

\* One verdict per origin wins, the newest; an unlanded one voids the binding.
WinningVerdicts(R) ==
  {v \in Verdicts(R) : \A w \in Verdicts(R) : w.origin = v.origin => w.id <= v.id}

\* The winning bindings: origin -> landed-as.
LandedBindings(R) ==
  LET landed == {v \in WinningVerdicts(R) : v.as # None}
  IN  [o \in {v.origin : v \in landed} |-> (CHOOSE v \in landed : v.origin = o).as]

\* The walk from o along the bindings b: at most MaxChainDepth moves, and none
\* to a commit it already went through.
Chain(b, o) ==
  LET walk[d \in 0 .. MaxChainDepth] ==
        IF d = 0 THEN <<o>>
        ELSE LET sofar == walk[d - 1]
                 s == sofar[Len(sofar)]
             IN  IF /\ Len(sofar) = d
                    /\ s \in DOMAIN b
                    /\ \A i \in DOMAIN sofar : sofar[i] # b[s]
                 THEN Append(sofar, b[s])
                 ELSE sofar
  IN  walk[MaxChainDepth]

\* The commits asked of git for the origins of a batch, in its order: of each
\* chain what comes before the first commit that was asked for already.
Closure(b, batch) ==
  LET upto[n \in 0 .. Len(batch)] ==
        IF n = 0 THEN {}
        ELSE LET c == Chain(b, batch[n])
             IN  upto[n - 1] \cup
                   {c[i] : i \in {k \in DOMAIN c : \A j \in 2 .. k : c[j] \notin upto[n - 1]}}
  IN  upto[Len(batch)]

\* Classify: an origin of the batch is landed when its chain meets an ancestor
\* of HEAD; of another the end of its chain decides.
Classify(b, qualified, ancestors, reachable, batch) ==
  LET landed == ancestors \cap Closure(b, batch)
  IN  [o \in {batch[i] : i \in DOMAIN batch} |->
         LET c == Chain(b, o)
         IN  IF \E i \in DOMAIN c : c[i] \in landed THEN "landed"
             ELSE IF c[Len(c)] \in reachable THEN "pending-elsewhere"
             ELSE IF qualified THEN "abandoned" ELSE "unknown"]

=============================================================================
