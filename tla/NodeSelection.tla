---------------------------- MODULE NodeSelection ----------------------------
(***************************************************************************)
(* select_primary_idx of upstream/mod.rs with the counter and the          *)
(* last_selected stamps it works on.  Callers take a number, read the      *)
(* stamps and the scores, and store their number in the stamp of the node  *)
(* they chose, each at its own time.                                       *)
(***************************************************************************)
EXTENDS Integers, FiniteSets, FiniteSetsExt

CONSTANTS NodeCount,      \* nodes.len()
          Callers,        \* tasks in exchange_observed at the same time
          ProbeInterval,  \* PROBE_INTERVAL
          BandFactor,     \* SELECT_BAND_FACTOR
          BandFloor,      \* SELECT_BAND_FLOOR_US
          Ewmas, Inflights, Windows,  \* health a node may show; window 0 is u64::MAX
          CongestionFactor,           \* CONGESTION_SCORE_FACTOR
          Saturated,      \* u64::MAX
          MaxQueries      \* bound on the counter

SelectionAssumption ==
    /\ NodeCount \in Nat \ {0} /\ ProbeInterval \in Nat /\ MaxQueries \in Nat
    /\ BandFactor \in Nat \ {0} /\ BandFloor \in Nat /\ CongestionFactor \in Nat \ {0}
    /\ Ewmas \cup Inflights \cup Windows \subseteq Nat /\ Saturated \in Nat

Nodes == 0..(NodeCount - 1)

VARIABLES next,         \* next
          lastSelected, \* lastSelected[n]: n.last_selected
          cpc,          \* where a caller is
          queryIx,      \* its number
          chosen,       \* the node it chose
          probing,      \* it chose by the probe branch
          health,       \* the health every node shows
          served        \* history: the counter when n was last chosen

vars == <<next, lastSelected, cpc, queryIx, chosen, probing, health, served>>

Health == [ewma : Ewmas, inflight : Inflights, window : Windows]

TypeOK ==
    /\ next \in Nat /\ lastSelected \in [Nodes -> Nat]
    /\ cpc \in [Callers -> {"idle", "numbered", "chosen"}]
    /\ queryIx \in [Callers -> Nat] /\ chosen \in [Callers -> Nodes]
    /\ probing \in [Callers -> BOOLEAN] /\ health \in [Nodes -> Health]
    /\ served \in [Nodes -> Nat]

Init ==
    /\ next = 0 /\ lastSelected = [n \in Nodes |-> 0]
    /\ cpc = [c \in Callers |-> "idle"] /\ queryIx = [c \in Callers |-> 0]
    /\ chosen = [c \in Callers |-> 0] /\ probing = [c \in Callers |-> FALSE]
    /\ health \in [Nodes -> Health] /\ served = [n \in Nodes |-> 0]

-----------------------------------------------------------------------------
SatMul(a, b) == Min({a * b, Saturated})
SatAdd(a, b) == Min({a + b, Saturated})

BandLimit(best) == Max({SatMul(best, BandFactor), SatAdd(best, BandFloor)})

\* selection_score.
SelectionScore(h) ==
    LET base == IF h.ewma = 0 THEN h.inflight ELSE SatMul(h.ewma, 1 + h.inflight)
    IN IF h.window > 0 /\ h.inflight >= h.window THEN SatMul(base, CongestionFactor) ELSE base

BestScore == Min({SelectionScore(health[n]) : n \in Nodes})
InBand == {n \in Nodes : SelectionScore(health[n]) <= BandLimit(BestScore)}

\* min_by_key returns the first of several minima.
LeastRecent == CHOOSE n \in Nodes :
    \A m \in Nodes : \/ lastSelected[n] < lastSelected[m]
                     \/ lastSelected[n] = lastSelected[m] /\ n <= m

\* query_ix.wrapping_sub(last_selected): a difference below zero is huge.
ProbeDue(ix) == ix < lastSelected[LeastRecent]
                \/ ix - lastSelected[LeastRecent] >= ProbeInterval

Fetch(c) ==
    /\ cpc[c] = "idle" /\ next < MaxQueries
    /\ queryIx' = [queryIx EXCEPT ![c] = next] /\ next' = next + 1
    /\ cpc' = [cpc EXCEPT ![c] = "numbered"]
    /\ UNCHANGED <<lastSelected, chosen, probing, health, served>>

\* The least recently selected node when a probe is due, else one of the band,
\* by a hash of the number: any of them.
Select(c) ==
    /\ cpc[c] = "numbered"
    /\ IF ProbeDue(queryIx[c])
       THEN chosen' = [chosen EXCEPT ![c] = LeastRecent]
       ELSE \E n \in InBand : chosen' = [chosen EXCEPT ![c] = n]
    /\ probing' = [probing EXCEPT ![c] = ProbeDue(queryIx[c])]
    /\ cpc' = [cpc EXCEPT ![c] = "chosen"]
    /\ served' = [served EXCEPT ![chosen'[c]] = next]
    /\ UNCHANGED <<next, lastSelected, queryIx, health>>

Store(c) ==
    /\ cpc[c] = "chosen"
    /\ lastSelected' = [lastSelected EXCEPT ![chosen[c]] = queryIx[c]]
    /\ cpc' = [cpc EXCEPT ![c] = "idle"]
    /\ queryIx' = [queryIx EXCEPT ![c] = 0] /\ chosen' = [chosen EXCEPT ![c] = 0]
    /\ probing' = [probing EXCEPT ![c] = FALSE]
    /\ UNCHANGED <<next, health, served>>

\* NodeHealth updates what a node shows at any time.
HealthChanges(n) ==
    /\ \E h \in Health : h # health[n] /\ health' = [health EXCEPT ![n] = h]
    /\ UNCHANGED <<next, lastSelected, cpc, queryIx, chosen, probing, served>>

Next == \/ \E c \in Callers : Fetch(c) \/ Select(c) \/ Store(c)
        \/ \E n \in Nodes : HealthChanges(n)

Spec == Init /\ [][Next]_vars

-----------------------------------------------------------------------------
\* select_primary_idx: "deprioritised nodes are re-measured": whatever the
\* scores, a node goes unselected for little more than PROBE_INTERVAL queries:
\* the other nodes due at the same time and the callers in flight come first.
NoNodeForgotten ==
    \A n \in Nodes :
        next - served[n] <= ProbeInterval + NodeCount + 2 * Cardinality(Callers)

=============================================================================
