--------------------------- MODULE ExchangeProofs ---------------------------
(***************************************************************************)
(* A pool's exchanges and a node's health, for any number of queries,      *)
(* nodes and exchanges: the invariants of UpstreamPool and NodeHealth,     *)
(* each with the inductive invariant behind it.                            *)
(***************************************************************************)
EXTENDS Integers, FiniteSets, TLAPS

-----------------------------------------------------------------------------
(* UpstreamPool.                                                            *)

CONSTANTS PoolNodes, Queries, MinBudget

VARIABLES pool, hedging, qpc, primary, secondary, poolAsked, failed, result, activeHedges,
          stats, started, abandoned

\* Queries, nodes, and hedges within the budget.
Pool == INSTANCE UpstreamPool WITH
    Nodes <- PoolNodes, asked <- poolAsked

Counters == [ok : Nat, err : Nat, cancelled : Nat, inflight : Int]

PoolTyped ==
    /\ pool \in (SUBSET PoolNodes) \ {{}} /\ hedging \in BOOLEAN
    /\ qpc \in [Queries -> Pool!QueryPcs]
    /\ primary \in [Queries -> PoolNodes \cup {"none"}]
    /\ secondary \in [Queries -> PoolNodes \cup {"none"}]
    /\ poolAsked \in [Queries -> 0..2] /\ failed \in [Queries -> 0..2]
    /\ result \in [Queries -> {"none", "ok", "err"}]
    /\ activeHedges \in Int
    /\ stats \in [PoolNodes -> Counters]
    /\ started \in [PoolNodes -> Nat] /\ abandoned \in [PoolNodes -> Nat]

\* Which exchanges a query runs, how many it started and how many of them failed, from
\* where it is.
PoolPlaced(q) ==
    /\ qpc[q] \in {"new", "done"} => primary[q] = "none" /\ secondary[q] = "none"
    /\ qpc[q] \in {"phase1", "over", "alone"} => primary[q] # "none" /\ secondary[q] = "none"
    /\ qpc[q] = "guarded" => (primary[q] = "none" <=> secondary[q] # "none")
    /\ qpc[q] = "race" =>
           primary[q] # "none" /\ secondary[q] # "none" /\ primary[q] # secondary[q]
    /\ qpc[q] = "new" => poolAsked[q] = 0 /\ failed[q] = 0
    /\ qpc[q] \in {"phase1", "over", "alone"} => poolAsked[q] = 1 /\ failed[q] = 0
    /\ qpc[q] = "guarded" => poolAsked[q] = failed[q] + 1
    /\ qpc[q] = "race" => poolAsked[q] = 2 /\ failed[q] = 0
    /\ qpc[q] # "done" => result[q] = "none"
    /\ result[q] = "err" => failed[q] = poolAsked[q]

Claimants == {q \in Queries : qpc[q] \in Pool!Guarded \cup {"over"}}
Hedgers == {q \in Queries : qpc[q] \in Pool!Guarded}
RunningOn(n) == {q \in Queries : n \in Pool!Running(q)}

PoolHedges == activeHedges = Cardinality(Claimants) /\ Cardinality(Hedgers) <= Pool!HedgeBudget
PoolInflight == \A n \in PoolNodes : stats[n].inflight = Cardinality(RunningOn(n))

PoolInv == /\ PoolTyped /\ (\A q \in Queries : PoolPlaced(q))
           /\ PoolHedges /\ PoolInflight /\ Pool!CountedOnce

PoolSizes == /\ IsFiniteSet(Queries) /\ IsFiniteSet(PoolNodes) /\ "none" \notin PoolNodes
             /\ MinBudget \in Nat

\* What a step of query q leaves alone, and how it moves the two counts: with q's claim,
\* which enters phase 2 only within the budget, and with the exchanges q runs.
PoolOthers(q) ==
    \A p \in Queries \ {q} :
        /\ qpc'[p] = qpc[p] /\ primary'[p] = primary[p] /\ secondary'[p] = secondary[p]
        /\ poolAsked'[p] = poolAsked[p] /\ failed'[p] = failed[p] /\ result'[p] = result[p]
PoolClaimed(q) ==
    /\ activeHedges' = activeHedges + (IF q \in Claimants' THEN 1 ELSE 0)
                                    - (IF q \in Claimants THEN 1 ELSE 0)
    /\ q \in Hedgers' /\ q \notin Hedgers => activeHedges < Pool!HedgeBudget
PoolRan(q) ==
    \A n \in PoolNodes : stats'[n].inflight = stats[n].inflight
                         + (IF n \in Pool!Running(q)' THEN 1 ELSE 0)
                         - (IF n \in Pool!Running(q) THEN 1 ELSE 0)
PoolMoves(q) == /\ PoolTyped' /\ PoolPlaced(q)' /\ PoolOthers(q) /\ UNCHANGED pool
                /\ PoolClaimed(q) /\ PoolRan(q) /\ Pool!CountedOnce'

LEMMA PoolUnguarded ==
    ASSUME NEW s \in Counters
    PROVE  /\ Pool!Unguarded(s) \in Counters
           /\ Pool!Unguarded(s).inflight = s.inflight - 1
           /\ Pool!Unguarded(s).ok = s.ok /\ Pool!Unguarded(s).err = s.err
           /\ Pool!Unguarded(s).cancelled = s.cancelled
BY DEF Pool!Unguarded, Counters

LEMMA PoolCounted ==
    ASSUME NEW c \in Counters, NEW r \in {"ok", "err", "cancelled"}
    PROVE  LET d == Pool!Counted(c, r)
           IN  /\ d \in Counters /\ d.inflight = c.inflight
               /\ d.ok + d.err + d.cancelled = c.ok + c.err + c.cancelled + 1
<1>1. CASE r = "ok"
    BY <1>1 DEF Pool!Counted, Counters
<1>2. CASE r = "err"
    BY <1>2 DEF Pool!Counted, Counters
<1>3. CASE r = "cancelled"
    BY <1>3 DEF Pool!Counted, Counters
<1>. QED BY Zenon, <1>1, <1>2, <1>3

\* What the guard and the counters of an exchange do to the node it ended on, and to no
\* other.
LEMMA PoolRecorded ==
    ASSUME NEW s \in [PoolNodes -> Counters], NEW n \in PoolNodes,
           NEW r \in {"ok", "err", "cancelled"}
    PROVE  LET t == Pool!Recorded(s, n, r)
           IN  /\ t \in [PoolNodes -> Counters]
               /\ \A m \in PoolNodes : m # n => t[m] = s[m]
               /\ t[n].inflight = s[n].inflight - 1
               /\ t[n].ok + t[n].err + t[n].cancelled = s[n].ok + s[n].err + s[n].cancelled + 1
<1>1. s[n] \in Counters
    OBVIOUS
<1>. DEFINE c == Pool!Counted(s[n], r)
            d == Pool!Unguarded(c)
<1>2. /\ c \in Counters /\ c.inflight = s[n].inflight
      /\ c.ok + c.err + c.cancelled = s[n].ok + s[n].err + s[n].cancelled + 1
    BY Zenon, <1>1, PoolCounted
<1>3. d \in Counters /\ d.inflight = c.inflight - 1
      /\ d.ok = c.ok /\ d.err = c.err /\ d.cancelled = c.cancelled
    BY Zenon, <1>2, PoolUnguarded
<1>4. Pool!Recorded(s, n, r) = [s EXCEPT ![n] = d]
    BY Zenon DEF Pool!Recorded
<1>. HIDE DEF c, d
<1>. QED BY Zenon, <1>2, <1>3, <1>4

\* The counters hold numbers.
LEMMA PoolNumbers ==
    ASSUME PoolTyped, NEW m \in PoolNodes
    PROVE  /\ stats[m].ok \in Nat /\ stats[m].err \in Nat /\ stats[m].cancelled \in Nat
           /\ stats[m].inflight \in Int /\ abandoned[m] \in Nat /\ started[m] \in Nat
BY Zenon DEF PoolTyped, Counters

\* An exchange begins.
PoolBegan(q, n) ==
    /\ stats' \in [PoolNodes -> Counters] /\ started' \in [PoolNodes -> Nat]
    /\ poolAsked' \in [Queries -> 0..2] /\ poolAsked'[q] = poolAsked[q] + 1
    /\ \A p \in Queries \ {q} : poolAsked'[p] = poolAsked[p]
    /\ \A m \in PoolNodes : stats'[m].inflight = stats[m].inflight + (IF m = n THEN 1 ELSE 0)

LEMMA PoolBegun ==
    ASSUME PoolTyped, Pool!CountedOnce, NEW q \in Queries, NEW n \in PoolNodes, poolAsked[q] < 2,
           Pool!Begin(q, n), UNCHANGED abandoned
    PROVE  PoolBegan(q, n) /\ Pool!CountedOnce'
<1>. USE DEF PoolTyped, Pool!Begin
<1>1. /\ stats' \in [PoolNodes -> Counters] /\ started' \in [PoolNodes -> Nat]
      /\ stats'[n].inflight = stats[n].inflight + 1 /\ started'[n] = started[n] + 1
      /\ stats'[n].ok = stats[n].ok /\ stats'[n].err = stats[n].err
      /\ stats'[n].cancelled = stats[n].cancelled
      /\ \A m \in PoolNodes : m # n => stats'[m] = stats[m] /\ started'[m] = started[m]
    BY DEF Counters
<1>2. /\ poolAsked' \in [Queries -> 0..2] /\ poolAsked'[q] = poolAsked[q] + 1
      /\ \A p \in Queries \ {q} : poolAsked'[p] = poolAsked[p]
    OBVIOUS
<1>. HIDE DEF PoolTyped, Pool!Begin
<1>3. ASSUME NEW m \in PoolNodes
      PROVE  started'[m] = stats'[m].ok + stats'[m].err + stats'[m].cancelled
                           + stats'[m].inflight + abandoned'[m]
  <2>1. started[m] = stats[m].ok + stats[m].err + stats[m].cancelled + stats[m].inflight
                     + abandoned[m]
      BY Zenon DEF Pool!CountedOnce
  <2>2. CASE m = n
      BY <1>1, <2>1, <2>2, PoolNumbers
  <2>3. CASE m # n
      BY Zenon, <1>1, <2>1, <2>3
  <2>. QED BY Zenon, <2>2, <2>3
<1>4. \A m \in PoolNodes : stats'[m].inflight = stats[m].inflight + (IF m = n THEN 1 ELSE 0)
    BY <1>1, PoolNumbers
<1>. QED BY Zenon, <1>1, <1>2, <1>3, <1>4 DEF PoolBegan, Pool!CountedOnce

\* The counters an ending exchange leaves.
LEMMA PoolEnded ==
    ASSUME PoolTyped, Pool!CountedOnce, NEW n \in PoolNodes, NEW r \in {"ok", "err"},
           stats' = Pool!Recorded(stats, n, r), UNCHANGED <<started, abandoned>>
    PROVE  /\ stats' \in [PoolNodes -> Counters]
           /\ \A m \in PoolNodes :
                  stats'[m].inflight = stats[m].inflight - (IF m = n THEN 1 ELSE 0)
           /\ Pool!CountedOnce'
<1>0. stats \in [PoolNodes -> Counters]
    BY Zenon DEF PoolTyped
<1>1. /\ stats' \in [PoolNodes -> Counters]
      /\ \A m \in PoolNodes : m # n => stats'[m] = stats[m]
      /\ stats'[n].inflight = stats[n].inflight - 1
      /\ stats'[n].ok + stats'[n].err + stats'[n].cancelled
             = stats[n].ok + stats[n].err + stats[n].cancelled + 1
    BY <1>0, PoolRecorded
<1>2. ASSUME NEW m \in PoolNodes
      PROVE  started'[m] = stats'[m].ok + stats'[m].err + stats'[m].cancelled
                           + stats'[m].inflight + abandoned'[m]
  <2>1. /\ stats'[m].ok \in Nat /\ stats'[m].err \in Nat /\ stats'[m].cancelled \in Nat
        /\ stats'[m].inflight \in Int
      BY Zenon, <1>1 DEF Counters
  <2>2. started[m] = stats[m].ok + stats[m].err + stats[m].cancelled + stats[m].inflight
                     + abandoned[m]
      BY Zenon DEF Pool!CountedOnce
  <2>3. CASE m = n
      BY <1>1, <2>1, <2>2, <2>3, PoolNumbers
  <2>4. CASE m # n
      BY Zenon, <1>1, <2>2, <2>4
  <2>. QED BY Zenon, <2>3, <2>4
<1>3. \A m \in PoolNodes : stats'[m].inflight = stats[m].inflight - (IF m = n THEN 1 ELSE 0)
    BY <1>1, PoolNumbers
<1>. QED BY Zenon, <1>1, <1>2, <1>3 DEF Pool!CountedOnce

LEMMA PoolStart ==
    ASSUME PoolSizes, PoolTyped, Pool!CountedOnce, NEW q \in Queries, PoolPlaced(q),
           Pool!Start(q)
    PROVE  PoolMoves(q)
<1>1. PICK n \in pool : primary' = [primary EXCEPT ![q] = n] /\ Pool!Begin(q, n)
    BY Zenon DEF Pool!Start
<1>2. n \in PoolNodes /\ n # "none"
    BY Zenon DEF PoolSizes, PoolTyped
<1>3. /\ qpc[q] = "new" /\ qpc' = [qpc EXCEPT ![q] = IF hedging THEN "phase1" ELSE "alone"]
      /\ UNCHANGED <<pool, hedging, secondary, failed, result, activeHedges, abandoned>>
    BY Zenon DEF Pool!Start, Pool!Go
<1>4. /\ poolAsked[q] = 0 /\ failed[q] = 0 /\ result[q] = "none"
      /\ primary[q] = "none" /\ secondary[q] = "none"
    BY Zenon, <1>3 DEF PoolPlaced
<1>5. PoolBegan(q, n) /\ Pool!CountedOnce'
    BY <1>1, <1>2, <1>3, <1>4, PoolBegun
<1>6. /\ qpc' \in [Queries -> Pool!QueryPcs] /\ qpc'[q] \in {"phase1", "alone"}
      /\ primary' \in [Queries -> PoolNodes \cup {"none"}] /\ primary'[q] = n
      /\ \A p \in Queries \ {q} : qpc'[p] = qpc[p] /\ primary'[p] = primary[p]
    BY Zenon, <1>1, <1>2, <1>3 DEF PoolTyped, Pool!QueryPcs
<1>7. PoolTyped'
    BY Zenon, <1>3, <1>5, <1>6 DEF PoolTyped, PoolBegan
<1>8. PoolPlaced(q)'
    BY <1>2, <1>3, <1>4, <1>5, <1>6 DEF PoolPlaced, PoolBegan
<1>9. PoolOthers(q)
    BY Zenon, <1>3, <1>5, <1>6 DEF PoolOthers, PoolBegan
<1>10. PoolClaimed(q)
  <2>1. q \notin Claimants /\ q \notin Claimants' /\ q \notin Hedgers'
      BY Zenon, <1>3, <1>6 DEF Claimants, Hedgers, Pool!Guarded
  <2>2. activeHedges \in Int
      BY Zenon DEF PoolTyped
  <2>. QED BY <1>3, <2>1, <2>2 DEF PoolClaimed
<1>11. PoolRan(q)
  <2>1. Pool!Running(q) = {} /\ Pool!Running(q)' = {n}
      BY Zenon, <1>2, <1>3, <1>4, <1>6 DEF Pool!Running, Pool!NoNode
  <2>. QED BY <1>5, <2>1, PoolNumbers DEF PoolRan, PoolBegan
<1>. QED BY Zenon, <1>3, <1>5, <1>7, <1>8, <1>9, <1>10, <1>11 DEF PoolMoves

LEMMA PoolHedgeTimer ==
    ASSUME PoolSizes, PoolTyped, Pool!CountedOnce, NEW q \in Queries, PoolPlaced(q),
           Pool!HedgeTimer(q)
    PROVE  PoolMoves(q)
<1>1. /\ qpc[q] = "phase1" /\ activeHedges' = activeHedges + 1
      /\ UNCHANGED <<pool, hedging, primary, failed, result, abandoned>>
    BY Zenon DEF Pool!HedgeTimer
<1>2. /\ poolAsked[q] = 1 /\ failed[q] = 0 /\ result[q] = "none" /\ secondary[q] = "none"
      /\ primary[q] \in PoolNodes /\ primary[q] # "none"
    BY Zenon, <1>1 DEF PoolPlaced, PoolTyped
<1>3. activeHedges \in Int
    BY Zenon DEF PoolTyped
<1>4. q \notin Claimants /\ q \notin Hedgers
    BY Zenon, <1>1 DEF Claimants, Hedgers, Pool!Guarded
<1>5. CASE /\ Pool!Go(q, "over") \/ (Pool!Go(q, "guarded") /\ activeHedges < Pool!HedgeBudget)
           /\ UNCHANGED <<secondary, stats, started, poolAsked>>
  <2>1. /\ qpc' \in [Queries -> Pool!QueryPcs] /\ \A p \in Queries \ {q} : qpc'[p] = qpc[p]
        /\ \/ qpc'[q] = "over"
           \/ qpc'[q] = "guarded" /\ activeHedges < Pool!HedgeBudget
      BY Zenon, <1>5 DEF PoolTyped, Pool!Go, Pool!QueryPcs
  <2>2. PoolTyped' /\ Pool!CountedOnce'
      BY <1>1, <1>3, <1>5, <2>1 DEF PoolTyped, Pool!CountedOnce
  <2>3. PoolPlaced(q)'
      BY <1>1, <1>2, <1>5, <2>1 DEF PoolPlaced
  <2>4. PoolOthers(q)
      BY Zenon, <1>1, <1>5, <2>1 DEF PoolOthers
  <2>5. q \in Claimants' /\ (q \in Hedgers' => activeHedges < Pool!HedgeBudget)
      BY Zenon, <2>1 DEF Claimants, Hedgers, Pool!Guarded
  <2>6. PoolClaimed(q)
      BY <1>1, <1>3, <1>4, <2>5 DEF PoolClaimed
  <2>7. PoolRan(q)
      BY <1>1, <1>5, PoolNumbers DEF PoolRan, Pool!Running
  <2>. QED BY Zenon, <1>1, <2>2, <2>3, <2>4, <2>6, <2>7 DEF PoolMoves
<1>6. CASE /\ activeHedges < Pool!HedgeBudget /\ Pool!Go(q, "race")
           /\ \E n \in pool \ {primary[q]} :
                  secondary' = [secondary EXCEPT ![q] = n] /\ Pool!Begin(q, n)
  <2>1. PICK n \in pool \ {primary[q]} :
            secondary' = [secondary EXCEPT ![q] = n] /\ Pool!Begin(q, n)
      BY Zenon, <1>6
  <2>2. n \in PoolNodes /\ n # "none" /\ n # primary[q]
      BY Zenon DEF PoolSizes, PoolTyped
  <2>3. PoolBegan(q, n) /\ Pool!CountedOnce'
      BY <1>1, <1>2, <2>1, <2>2, PoolBegun
  <2>4. /\ qpc' \in [Queries -> Pool!QueryPcs] /\ qpc'[q] = "race"
        /\ secondary' \in [Queries -> PoolNodes \cup {"none"}] /\ secondary'[q] = n
        /\ \A p \in Queries \ {q} : qpc'[p] = qpc[p] /\ secondary'[p] = secondary[p]
      BY Zenon, <1>6, <2>1, <2>2 DEF PoolTyped, Pool!Go, Pool!QueryPcs
  <2>5. PoolTyped'
      BY <1>1, <1>3, <2>3, <2>4 DEF PoolTyped, PoolBegan
  <2>6. PoolPlaced(q)'
      BY <1>1, <1>2, <2>2, <2>3, <2>4 DEF PoolPlaced, PoolBegan
  <2>7. PoolOthers(q)
      BY Zenon, <1>1, <2>3, <2>4 DEF PoolOthers, PoolBegan
  <2>8. PoolClaimed(q)
    <3>1. q \in Claimants'
        BY Zenon, <2>4 DEF Claimants, Pool!Guarded
    <3>. QED BY <1>1, <1>3, <1>4, <1>6, <3>1 DEF PoolClaimed
  <2>9. PoolRan(q)
    <3>1. Pool!Running(q) = {primary[q]} /\ Pool!Running(q)' = {primary[q], n}
        BY Zenon, <1>1, <1>2, <2>2, <2>4 DEF Pool!Running, Pool!NoNode
    <3>. QED BY <2>2, <2>3, <3>1, PoolNumbers DEF PoolRan, PoolBegan
  <2>. QED BY Zenon, <1>1, <2>3, <2>5, <2>6, <2>7, <2>8, <2>9 DEF PoolMoves
<1>. QED BY Zenon, <1>5, <1>6 DEF Pool!HedgeTimer

LEMMA PoolUnclaim ==
    ASSUME PoolTyped, Pool!CountedOnce, NEW q \in Queries, PoolPlaced(q), Pool!Unclaim(q)
    PROVE  PoolMoves(q)
<1>1. /\ qpc[q] = "over" /\ activeHedges' = activeHedges - 1 /\ qpc'[q] = "alone"
      /\ qpc' \in [Queries -> Pool!QueryPcs] /\ \A p \in Queries \ {q} : qpc'[p] = qpc[p]
    BY Zenon DEF Pool!Unclaim, PoolTyped, Pool!Go, Pool!QueryPcs
<1>2. UNCHANGED <<pool, hedging, primary, secondary, poolAsked, failed, result, stats,
                  started, abandoned>>
    BY Zenon DEF Pool!Unclaim
<1>3. PoolTyped' /\ Pool!CountedOnce'
    BY <1>1, <1>2 DEF PoolTyped, Pool!CountedOnce
<1>4. PoolPlaced(q)'
    BY Zenon, <1>1, <1>2 DEF PoolPlaced
<1>5. PoolOthers(q) /\ UNCHANGED pool
    BY Zenon, <1>1, <1>2 DEF PoolOthers
<1>6. PoolClaimed(q)
  <2>1. q \in Claimants /\ q \notin Claimants' /\ q \notin Hedgers'
      BY Zenon, <1>1 DEF Claimants, Hedgers, Pool!Guarded
  <2>2. activeHedges \in Int
      BY Zenon DEF PoolTyped
  <2>. QED BY <1>1, <2>1, <2>2 DEF PoolClaimed
<1>7. PoolRan(q)
    BY <1>2, PoolNumbers DEF PoolRan, Pool!Running
<1>. QED BY Zenon, <1>3, <1>4, <1>5, <1>6, <1>7 DEF PoolMoves

\* A query that returns gives its claim back and runs nothing.
PoolReturned(q, r) ==
    /\ qpc' \in [Queries -> Pool!QueryPcs] /\ qpc'[q] = "done"
    /\ primary' \in [Queries -> PoolNodes \cup {"none"}] /\ primary'[q] = "none"
    /\ secondary' \in [Queries -> PoolNodes \cup {"none"}] /\ secondary'[q] = "none"
    /\ result' \in [Queries -> {"none", "ok", "err"}] /\ result'[q] = r
    /\ activeHedges' \in Int
    /\ \A p \in Queries \ {q} : /\ qpc'[p] = qpc[p] /\ primary'[p] = primary[p]
                                /\ secondary'[p] = secondary[p] /\ result'[p] = result[p]

LEMMA PoolReturns ==
    ASSUME PoolTyped, NEW q \in Queries, qpc[q] \notin {"over", "done"},
           NEW r \in {"none", "ok", "err"}, Pool!Return(q, r)
    PROVE  PoolReturned(q, r) /\ PoolClaimed(q) /\ Pool!Running(q)' = {}
<1>1. /\ qpc' \in [Queries -> Pool!QueryPcs] /\ qpc'[q] = "done"
      /\ \A p \in Queries \ {q} : qpc'[p] = qpc[p]
    BY Zenon DEF PoolTyped, Pool!Return, Pool!Go, Pool!QueryPcs
<1>2. /\ primary' \in [Queries -> PoolNodes \cup {"none"}] /\ primary'[q] = "none"
      /\ secondary' \in [Queries -> PoolNodes \cup {"none"}] /\ secondary'[q] = "none"
      /\ \A p \in Queries \ {q} : primary'[p] = primary[p] /\ secondary'[p] = secondary[p]
    BY Zenon DEF PoolTyped, Pool!Return, Pool!NoNode
<1>3. /\ result' \in [Queries -> {"none", "ok", "err"}] /\ result'[q] = r
      /\ \A p \in Queries \ {q} : result'[p] = result[p]
    BY Zenon DEF PoolTyped, Pool!Return
<1>4. Pool!Running(q)' = {}
    BY Zenon, <1>2 DEF Pool!Running, Pool!NoNode
<1>5. q \notin Claimants' /\ q \notin Hedgers' /\ (q \in Claimants <=> qpc[q] \in Pool!Guarded)
    BY Zenon, <1>1 DEF Claimants, Hedgers, Pool!Guarded
<1>6. activeHedges \in Int
    BY Zenon DEF PoolTyped
<1>7. activeHedges' = activeHedges - (IF q \in Claimants THEN 1 ELSE 0)
    BY <1>5, <1>6 DEF Pool!Return
<1>8. PoolClaimed(q) /\ activeHedges' \in Int
    BY <1>5, <1>6, <1>7 DEF PoolClaimed
<1>. QED BY Zenon, <1>1, <1>2, <1>3, <1>4, <1>8 DEF PoolReturned

LEMMA PoolEndLast ==
    ASSUME PoolSizes, PoolTyped, Pool!CountedOnce, NEW q \in Queries, PoolPlaced(q),
           Pool!EndLast(q)
    PROVE  PoolMoves(q)
<1>. DEFINE n == Pool!LastExchange(q)
<1>1. PICK r \in {"ok", "err"} :
          /\ stats' = Pool!Recorded(stats, n, r)
          /\ failed' = [failed EXCEPT ![q] = IF r = "err" THEN @ + 1 ELSE @]
          /\ Pool!Return(q, r)
    BY Zenon DEF Pool!EndLast
<1>2. /\ qpc[q] \in {"phase1", "alone", "guarded"}
      /\ UNCHANGED <<pool, hedging, started, poolAsked, abandoned>>
    BY Zenon DEF Pool!EndLast
<1>3. /\ poolAsked[q] = failed[q] + 1 /\ poolAsked[q] \in 0..2 /\ failed[q] \in 0..2
      /\ \/ primary[q] # "none" /\ secondary[q] = "none"
         \/ primary[q] = "none" /\ secondary[q] # "none"
      /\ primary[q] \in PoolNodes \cup {"none"} /\ secondary[q] \in PoolNodes \cup {"none"}
    BY <1>2 DEF PoolPlaced, PoolTyped
<1>4. n \in PoolNodes /\ Pool!Running(q) = {n}
    BY Zenon, <1>3 DEF PoolSizes, Pool!LastExchange, Pool!Running, Pool!NoNode
<1>. HIDE DEF n
<1>5. PoolReturned(q, r) /\ PoolClaimed(q) /\ Pool!Running(q)' = {}
    BY Zenon, <1>1, <1>2, PoolReturns
<1>6. /\ stats' \in [PoolNodes -> Counters] /\ Pool!CountedOnce'
      /\ \A m \in PoolNodes : stats'[m].inflight = stats[m].inflight - (IF m = n THEN 1 ELSE 0)
    BY Zenon, <1>1, <1>2, <1>4, PoolEnded
<1>7. /\ failed' \in [Queries -> 0..2]
      /\ failed'[q] = IF r = "err" THEN failed[q] + 1 ELSE failed[q]
      /\ \A p \in Queries \ {q} : failed'[p] = failed[p]
    BY Zenon, <1>1, <1>3 DEF PoolTyped
<1>8. PoolTyped'
    BY Zenon, <1>2, <1>5, <1>6, <1>7 DEF PoolTyped, PoolReturned
<1>9. PoolPlaced(q)'
    BY Zenon, <1>2, <1>3, <1>5, <1>7 DEF PoolPlaced, PoolReturned
<1>10. PoolOthers(q)
    BY Zenon, <1>2, <1>5, <1>7 DEF PoolOthers, PoolReturned
<1>11. PoolRan(q)
    BY <1>4, <1>5, <1>6, PoolNumbers DEF PoolRan
<1>. QED BY Zenon, <1>2, <1>5, <1>6, <1>8, <1>9, <1>10, <1>11 DEF PoolMoves

\* The first of two exchanges succeeds, and the other is cancelled.
LEMMA PoolFirstWins ==
    ASSUME PoolTyped, Pool!CountedOnce, NEW q \in Queries, PoolPlaced(q), qpc[q] = "race",
           NEW a \in PoolNodes, NEW b \in PoolNodes, a # b, Pool!Running(q) = {a, b},
           Pool!FirstWins(q, a, b),
           UNCHANGED <<pool, hedging, started, poolAsked, abandoned>>
    PROVE  PoolMoves(q)
<1>. DEFINE s == Pool!Recorded(stats, a, "ok")
<1>1. /\ stats' = Pool!Recorded(s, b, "cancelled") /\ Pool!Return(q, "ok")
      /\ UNCHANGED failed
    BY Zenon DEF Pool!FirstWins
<1>2. PoolReturned(q, "ok") /\ PoolClaimed(q) /\ Pool!Running(q)' = {}
    BY Zenon, <1>1, PoolReturns
<1>3. stats \in [PoolNodes -> Counters]
    BY Zenon DEF PoolTyped
<1>4. /\ s \in [PoolNodes -> Counters] /\ \A m \in PoolNodes : m # a => s[m] = stats[m]
      /\ s[a].inflight = stats[a].inflight - 1
      /\ s[a].ok + s[a].err + s[a].cancelled
             = stats[a].ok + stats[a].err + stats[a].cancelled + 1
    BY <1>3, PoolRecorded
<1>. HIDE DEF s
<1>5. /\ stats' \in [PoolNodes -> Counters] /\ \A m \in PoolNodes : m # b => stats'[m] = s[m]
      /\ stats'[b].inflight = s[b].inflight - 1
      /\ stats'[b].ok + stats'[b].err + stats'[b].cancelled
             = s[b].ok + s[b].err + s[b].cancelled + 1
  <2>1. stats' = Pool!Recorded(s, b, "cancelled") /\ s \in [PoolNodes -> Counters]
      BY Zenon, <1>1, <1>4
  <2>. QED BY <2>1, PoolRecorded
<1>6. ASSUME NEW m \in PoolNodes
      PROVE  /\ started'[m] = stats'[m].ok + stats'[m].err + stats'[m].cancelled
                              + stats'[m].inflight + abandoned'[m]
             /\ stats'[m].inflight = stats[m].inflight - (IF m \in {a, b} THEN 1 ELSE 0)
  <2>1. /\ stats'[m].ok \in Nat /\ stats'[m].err \in Nat /\ stats'[m].cancelled \in Nat
        /\ stats'[m].inflight \in Int
      BY Zenon, <1>5 DEF Counters
  <2>2. started[m] = stats[m].ok + stats[m].err + stats[m].cancelled + stats[m].inflight
                     + abandoned[m]
      BY Zenon DEF Pool!CountedOnce
  <2>3. CASE m = a
    <3>1. stats'[m] = s[a]
        BY Zenon, <1>5, <2>3
    <3>. QED BY <1>4, <2>1, <2>2, <2>3, <3>1, PoolNumbers
  <2>4. CASE m = b
    <3>1. s[b] = stats[b]
        BY Zenon, <1>4
    <3>. QED BY <1>5, <2>1, <2>2, <2>4, <3>1, PoolNumbers
  <2>5. CASE m # a /\ m # b
    <3>1. stats'[m] = stats[m]
        BY Zenon, <1>4, <1>5, <2>5
    <3>. QED BY <2>2, <2>5, <3>1, PoolNumbers
  <2>. QED BY Zenon, <2>3, <2>4, <2>5
<1>7. PoolTyped'
    BY Zenon, <1>1, <1>2, <1>5 DEF PoolTyped, PoolReturned
<1>8. PoolPlaced(q)'
    BY Zenon, <1>2 DEF PoolPlaced, PoolReturned
<1>9. PoolOthers(q)
    BY Zenon, <1>1, <1>2 DEF PoolOthers, PoolReturned
<1>10. PoolRan(q)
  <2>1. ASSUME NEW m \in PoolNodes
        PROVE  stats'[m].inflight = stats[m].inflight + 0 - (IF m \in {a, b} THEN 1 ELSE 0)
      BY <1>6, PoolNumbers
  <2>. QED BY Zenon, <1>2, <2>1 DEF PoolRan
<1>. QED BY Zenon, <1>2, <1>6, <1>7, <1>8, <1>9, <1>10 DEF PoolMoves, Pool!CountedOnce

\* The first of two exchanges fails, and the query waits for the other.
LEMMA PoolFirstFails ==
    ASSUME PoolTyped, Pool!CountedOnce, NEW q \in Queries, PoolPlaced(q), qpc[q] = "race",
           NEW a \in PoolNodes, NEW b \in PoolNodes, a # b, Pool!Running(q) = {a, b},
           Pool!FirstFails(q, a), Pool!Running(q)' = {b},
           primary' \in [Queries -> PoolNodes \cup {"none"}],
           secondary' \in [Queries -> PoolNodes \cup {"none"}],
           primary'[q] = "none" <=> secondary'[q] # "none",
           \A p \in Queries \ {q} : primary'[p] = primary[p] /\ secondary'[p] = secondary[p],
           UNCHANGED <<pool, hedging, started, poolAsked, abandoned>>
    PROVE  PoolMoves(q)
<1>1. /\ stats' = Pool!Recorded(stats, a, "err") /\ Pool!Go(q, "guarded")
      /\ failed' = [failed EXCEPT ![q] = @ + 1] /\ UNCHANGED <<result, activeHedges>>
    BY Zenon DEF Pool!FirstFails
<1>2. poolAsked[q] = 2 /\ failed[q] = 0 /\ result[q] = "none"
    BY Zenon DEF PoolPlaced
<1>3. /\ stats' \in [PoolNodes -> Counters] /\ Pool!CountedOnce'
      /\ \A m \in PoolNodes : stats'[m].inflight = stats[m].inflight - (IF m = a THEN 1 ELSE 0)
    BY Zenon, <1>1, PoolEnded
<1>4. /\ qpc' \in [Queries -> Pool!QueryPcs] /\ qpc'[q] = "guarded"
      /\ \A p \in Queries \ {q} : qpc'[p] = qpc[p]
    BY Zenon, <1>1 DEF PoolTyped, Pool!Go, Pool!QueryPcs
<1>5. /\ failed' \in [Queries -> 0..2] /\ failed'[q] = 1
      /\ \A p \in Queries \ {q} : failed'[p] = failed[p]
    BY <1>1, <1>2 DEF PoolTyped
<1>6. PoolTyped'
    BY Zenon, <1>1, <1>3, <1>4, <1>5 DEF PoolTyped
<1>7. PoolPlaced(q)'
    BY <1>1, <1>2, <1>4, <1>5 DEF PoolPlaced
<1>8. PoolOthers(q)
    BY Zenon, <1>1, <1>4, <1>5 DEF PoolOthers
<1>9. PoolClaimed(q)
  <2>1. q \in Claimants /\ q \in Hedgers /\ q \in Claimants'
      BY Zenon, <1>4 DEF Claimants, Hedgers, Pool!Guarded
  <2>2. activeHedges \in Int
      BY Zenon DEF PoolTyped
  <2>. QED BY <1>1, <2>1, <2>2 DEF PoolClaimed
<1>10. PoolRan(q)
    BY <1>3, PoolNumbers DEF PoolRan
<1>. QED BY Zenon, <1>3, <1>6, <1>7, <1>8, <1>9, <1>10 DEF PoolMoves

LEMMA PoolEndFirst ==
    ASSUME PoolSizes, PoolTyped, Pool!CountedOnce, NEW q \in Queries, PoolPlaced(q),
           Pool!EndFirst(q)
    PROVE  PoolMoves(q)
<1>1. /\ qpc[q] = "race"
      /\ UNCHANGED <<pool, hedging, started, poolAsked, abandoned>>
    BY Zenon DEF Pool!EndFirst
<1>2. /\ primary[q] \in PoolNodes /\ secondary[q] \in PoolNodes /\ primary[q] # secondary[q]
      /\ primary[q] # "none" /\ secondary[q] # "none"
      /\ Pool!Running(q) = {primary[q], secondary[q]}
      /\ Pool!Running(q) = {secondary[q], primary[q]}
    BY Zenon, <1>1 DEF PoolPlaced, PoolTyped, Pool!Running, Pool!NoNode
<1>3. CASE Pool!FirstWins(q, primary[q], secondary[q])
    BY Zenon, <1>1, <1>2, <1>3, PoolFirstWins
<1>4. CASE Pool!FirstWins(q, secondary[q], primary[q])
    BY Zenon, <1>1, <1>2, <1>4, PoolFirstWins
<1>5. CASE /\ Pool!FirstFails(q, primary[q])
           /\ primary' = [primary EXCEPT ![q] = "none"] /\ UNCHANGED secondary
  <2>1. /\ primary' \in [Queries -> PoolNodes \cup {"none"}] /\ primary'[q] = "none"
        /\ secondary' \in [Queries -> PoolNodes \cup {"none"}] /\ secondary'[q] = secondary[q]
        /\ \A p \in Queries \ {q} : primary'[p] = primary[p] /\ secondary'[p] = secondary[p]
      BY Zenon, <1>5 DEF PoolTyped
  <2>2. Pool!Running(q)' = {secondary[q]}
      BY Zenon, <1>2, <2>1 DEF Pool!Running, Pool!NoNode
  <2>. QED BY Zenon, <1>1, <1>2, <1>5, <2>1, <2>2, PoolFirstFails
<1>6. CASE /\ Pool!FirstFails(q, secondary[q])
           /\ secondary' = [secondary EXCEPT ![q] = "none"] /\ UNCHANGED primary
  <2>1. /\ primary' \in [Queries -> PoolNodes \cup {"none"}] /\ primary'[q] = primary[q]
        /\ secondary' \in [Queries -> PoolNodes \cup {"none"}] /\ secondary'[q] = "none"
        /\ \A p \in Queries \ {q} : primary'[p] = primary[p] /\ secondary'[p] = secondary[p]
      BY Zenon, <1>6 DEF PoolTyped
  <2>2. Pool!Running(q)' = {primary[q]}
      BY Zenon, <1>2, <2>1 DEF Pool!Running, Pool!NoNode
  <2>. QED BY Zenon, <1>1, <1>2, <1>6, <2>1, <2>2, PoolFirstFails
<1>. QED BY Zenon, <1>3, <1>4, <1>5, <1>6 DEF Pool!EndFirst, Pool!NoNode

LEMMA PoolDrop ==
    ASSUME PoolTyped, Pool!CountedOnce, NEW q \in Queries, PoolPlaced(q), Pool!Drop(q)
    PROVE  PoolMoves(q)
<1>. DEFINE R == Pool!Running(q)
<1>1. /\ qpc[q] \in {"phase1", "alone", "guarded", "race"} /\ Pool!Return(q, "none")
      /\ UNCHANGED <<pool, hedging, poolAsked, failed, started>>
    BY Zenon DEF Pool!Drop
<1>2. /\ stats' = [n \in PoolNodes |-> IF n \in R THEN Pool!Unguarded(stats[n]) ELSE stats[n]]
      /\ abandoned' = [n \in PoolNodes |-> abandoned[n] + IF n \in R THEN 1 ELSE 0]
    BY Zenon DEF Pool!Drop
<1>. HIDE DEF R
<1>3. PoolReturned(q, "none") /\ PoolClaimed(q) /\ Pool!Running(q)' = {}
    BY Zenon, <1>1, PoolReturns
<1>4. ASSUME NEW n \in PoolNodes
      PROVE  /\ stats'[n] \in Counters /\ abandoned'[n] \in Nat
             /\ stats'[n].inflight = stats[n].inflight - (IF n \in R THEN 1 ELSE 0)
             /\ abandoned'[n] = abandoned[n] + (IF n \in R THEN 1 ELSE 0)
             /\ stats'[n].ok = stats[n].ok /\ stats'[n].err = stats[n].err
             /\ stats'[n].cancelled = stats[n].cancelled
  <2>1. stats[n] \in Counters
      BY Zenon DEF PoolTyped
  <2>2. /\ Pool!Unguarded(stats[n]) \in Counters
        /\ Pool!Unguarded(stats[n]).inflight = stats[n].inflight - 1
        /\ Pool!Unguarded(stats[n]).ok = stats[n].ok
        /\ Pool!Unguarded(stats[n]).err = stats[n].err
        /\ Pool!Unguarded(stats[n]).cancelled = stats[n].cancelled
      BY Zenon, <2>1, PoolUnguarded
  <2>3. CASE n \in R
      BY <1>2, <2>2, <2>3, PoolNumbers
  <2>4. CASE n \notin R
      BY <1>2, <2>1, <2>4, PoolNumbers
  <2>. QED BY Zenon, <2>3, <2>4
<1>5. stats' \in [PoolNodes -> Counters] /\ abandoned' \in [PoolNodes -> Nat]
    BY Zenon, <1>2, <1>4
<1>6. PoolTyped'
    BY Zenon, <1>1, <1>3, <1>5 DEF PoolTyped, PoolReturned
<1>7. PoolPlaced(q)'
    BY Zenon, <1>3 DEF PoolPlaced, PoolReturned
<1>8. PoolOthers(q)
    BY Zenon, <1>1, <1>3 DEF PoolOthers, PoolReturned
<1>9. ASSUME NEW n \in PoolNodes
      PROVE  started'[n] = stats'[n].ok + stats'[n].err + stats'[n].cancelled
                           + stats'[n].inflight + abandoned'[n]
  <2>1. started[n] = stats[n].ok + stats[n].err + stats[n].cancelled + stats[n].inflight
                     + abandoned[n]
      BY Zenon DEF Pool!CountedOnce
  <2>2. /\ stats'[n].inflight + abandoned'[n] = stats[n].inflight + abandoned[n]
        /\ stats'[n].inflight \in Int /\ abandoned'[n] \in Nat
    <3>1. /\ stats'[n] \in Counters /\ abandoned'[n] \in Nat
          /\ stats'[n].inflight = stats[n].inflight - (IF n \in R THEN 1 ELSE 0)
          /\ abandoned'[n] = abandoned[n] + (IF n \in R THEN 1 ELSE 0)
        BY <1>4, Zenon
    <3>2. stats[n].inflight \in Int /\ abandoned[n] \in Nat
        BY Zenon, PoolNumbers
    <3>. QED BY <3>1, <3>2 DEF Counters
  <2>3. /\ stats'[n].ok = stats[n].ok /\ stats'[n].err = stats[n].err
        /\ stats'[n].cancelled = stats[n].cancelled /\ started'[n] = started[n]
      BY Zenon, <1>1, <1>4
  <2>4. /\ stats[n].ok \in Nat /\ stats[n].err \in Nat /\ stats[n].cancelled \in Nat
        /\ stats[n].inflight \in Int /\ abandoned[n] \in Nat
      BY Zenon, PoolNumbers
  <2>. QED BY <2>1, <2>2, <2>3, <2>4
<1>10. PoolRan(q)
  <2>1. ASSUME NEW n \in PoolNodes
        PROVE  stats'[n].inflight = stats[n].inflight + 0 - (IF n \in R THEN 1 ELSE 0)
      BY <1>4, PoolNumbers
  <2>. QED BY Zenon, <1>3, <2>1 DEF PoolRan, R
<1>. QED BY Zenon, <1>1, <1>3, <1>6, <1>7, <1>8, <1>9, <1>10 DEF PoolMoves, Pool!CountedOnce

-----------------------------------------------------------------------------
(* NodeHealth.                                                              *)

CONSTANTS HealthExchanges, Rtts, RttFloor, RttCap, Limits, RefreshAt

VARIABLES ewma, failures, window, maxInflight, rpc, healthKind, rtt, old, had, triggered,
          lastBump

\* The exchanges of one node, without AIMD (limit 0) and with it.
Health == INSTANCE NodeHealth WITH
    Exchanges <- HealthExchanges, kind <- healthKind

HealthTyped ==
    /\ ewma \in Nat /\ failures \in Nat /\ window \in Nat /\ maxInflight \in Limits
    /\ rpc \in [HealthExchanges -> Health!Pcs] /\ rtt \in [HealthExchanges -> Rtts \cup {0}]
    /\ healthKind \in [HealthExchanges -> {"none", "ok", "timeout", "error"}]
    /\ old \in [HealthExchanges -> Nat] /\ had \in [HealthExchanges -> BOOLEAN]
    /\ triggered \in BOOLEAN /\ lastBump \in {"timeout", "error", "none"}

\* What an exchange between its load of the window and its store relies on: AIMD is on,
\* and the copy it loaded is a window that a success may widen.
HealthPlaced(x) ==
    /\ rpc[x] \in {"loadWindow", "storeWindow"} => maxInflight > 0
    /\ rpc[x] = "storeWindow" => old[x] \in 1 .. maxInflight
    /\ rpc[x] = "storeWindow" /\ healthKind[x] = "ok" => old[x] < maxInflight
    /\ rpc[x] \in {"loadEwma", "loadFailures", "storeEwma", "reset", "loadWindow",
                   "storeWindow"} => healthKind[x] # "none"
    /\ rpc[x] = "bump" => healthKind[x] \in {"timeout", "error"}

\* A run of failures at the threshold whose last is a timeout has been seen, or is about
\* to be.
HealthSeen ==
    lastBump = "timeout" /\ failures >= RefreshAt =>
        triggered \/ \E x \in HealthExchanges : rpc[x] = "check"

HealthInv == /\ HealthTyped /\ (\A x \in HealthExchanges : HealthPlaced(x))
             /\ Health!WindowInBounds /\ HealthSeen

HealthSizes == /\ Rtts \subseteq Nat \ {0} /\ Limits \subseteq Nat
               /\ RttFloor \in Nat \ {0} /\ RttCap \in Nat /\ RttFloor <= RttCap
               /\ RefreshAt \in Nat

LEMMA HealthConstants == Health!HealthAssumption => HealthSizes
BY Zenon DEF Health!HealthAssumption, HealthSizes

LEMMA HealthMax ==
    ASSUME NEW a \in Nat, NEW b \in Nat
    PROVE  /\ Health!Max({a, b}) = IF a >= b THEN a ELSE b
           /\ Health!Min({a, b}) = IF a <= b THEN a ELSE b
BY DEF Health!Max, Health!Min

LEMMA HealthEstimates ==
    ASSUME HealthSizes, NEW e \in Nat, NEW r \in Nat
    PROVE  Health!Blend(e, r) \in Nat /\ Health!Inflated(e) \in Nat
<1>1. Health!Blend(e, r) \in Nat
    BY DEF Health!Blend
<1>2. Health!Max({2 * e, RttFloor}) \in Nat
    BY HealthMax DEF HealthSizes
<1>3. Health!Inflated(e) \in Nat
    BY <1>2, HealthMax, Zenon DEF HealthSizes, Health!Inflated
<1>. QED BY Zenon, <1>1, <1>3

LEMMA HealthInitInv ==
    ASSUME HealthSizes, Health!Init
    PROVE  HealthInv
<1>. USE DEF HealthSizes, Health!Init
<1>1. HealthTyped
    BY Zenon DEF HealthTyped, Health!Pcs
<1>2. ASSUME NEW x \in HealthExchanges PROVE HealthPlaced(x)
    BY Zenon DEF HealthPlaced
<1>3. Health!WindowInBounds /\ HealthSeen
    BY DEF Health!WindowInBounds, HealthSeen
<1>. QED BY Zenon, <1>1, <1>2, <1>3 DEF HealthInv

\* An exchange moves on: the others stay placed as they were, and a run that was seen, or
\* about to be, still is unless the counts change.
LEMMA HealthMoves ==
    ASSUME HealthTyped, \A y \in HealthExchanges : HealthPlaced(y),
           NEW x \in HealthExchanges, NEW c \in Health!Pcs,
           rpc' = [rpc EXCEPT ![x] = c], UNCHANGED maxInflight,
           \A y \in HealthExchanges \ {x} : old'[y] = old[y] /\ healthKind'[y] = healthKind[y],
           HealthPlaced(x)'
    PROVE  \A y \in HealthExchanges : HealthPlaced(y)'
<1>1. rpc'[x] = c /\ \A y \in HealthExchanges \ {x} : rpc'[y] = rpc[y]
    BY Zenon DEF HealthTyped
<1>. TAKE y \in HealthExchanges
<1>2. CASE y = x
    BY Zenon, <1>2
<1>3. CASE y # x
    BY Zenon, <1>1, <1>3 DEF HealthPlaced
<1>. QED BY Zenon, <1>2, <1>3

LEMMA HealthStaysSeen ==
    ASSUME HealthTyped, HealthSeen, NEW x \in HealthExchanges, NEW c,
           rpc[x] # "check", rpc' = [rpc EXCEPT ![x] = c],
           UNCHANGED <<failures, lastBump, triggered>>
    PROVE  HealthSeen'
BY Zenon DEF HealthTyped, HealthSeen

\* Finish clears what the exchange kept.
LEMMA HealthFinish ==
    ASSUME HealthTyped, NEW x \in HealthExchanges, Health!Finish(x)
    PROVE  /\ rpc' = [rpc EXCEPT ![x] = "done"] /\ rpc'[x] = "done"
           /\ rpc' \in [HealthExchanges -> Health!Pcs]
           /\ rtt' \in [HealthExchanges -> Rtts \cup {0}]
           /\ healthKind' \in [HealthExchanges -> {"none", "ok", "timeout", "error"}]
           /\ old' \in [HealthExchanges -> Nat] /\ had' \in [HealthExchanges -> BOOLEAN]
           /\ \A y \in HealthExchanges \ {x} :
                  old'[y] = old[y] /\ healthKind'[y] = healthKind[y]
           /\ HealthPlaced(x)'
<1>1. had' \in [HealthExchanges -> BOOLEAN]
    BY Zenon DEF HealthTyped, Health!Finish
<1>2. /\ rpc' = [rpc EXCEPT ![x] = "done"] /\ rpc'[x] = "done"
      /\ rpc' \in [HealthExchanges -> Health!Pcs]
      /\ rtt' \in [HealthExchanges -> Rtts \cup {0}]
      /\ healthKind' \in [HealthExchanges -> {"none", "ok", "timeout", "error"}]
      /\ old' \in [HealthExchanges -> Nat]
      /\ \A y \in HealthExchanges \ {x} : old'[y] = old[y] /\ healthKind'[y] = healthKind[y]
    BY Zenon DEF HealthTyped, Health!Finish, Health!Go, Health!Pcs
<1>3. HealthPlaced(x)'
    BY Zenon, <1>2 DEF HealthPlaced
<1>. QED BY Zenon, <1>1, <1>2, <1>3

LEMMA HealthEnds ==
    ASSUME HealthSizes, HealthInv, NEW x \in HealthExchanges, Health!Ends(x)
    PROVE  HealthInv'
<1>. USE DEF HealthInv
<1>1. /\ rpc[x] = "running" /\ rpc' = [rpc EXCEPT ![x] = "loadEwma"]
      /\ UNCHANGED <<ewma, failures, window, maxInflight, old, had, triggered, lastBump>>
    BY Zenon DEF Health!Ends, Health!Go
<1>2. /\ healthKind' \in [HealthExchanges -> {"none", "ok", "timeout", "error"}]
      /\ healthKind'[x] # "none"
      /\ \A y \in HealthExchanges \ {x} : healthKind'[y] = healthKind[y]
      /\ rtt' \in [HealthExchanges -> Rtts \cup {0}]
    BY DEF Health!Ends, HealthTyped, Health!Errors
<1>3. HealthTyped'
    BY <1>1, <1>2, Zenon DEF HealthTyped, Health!Pcs
<1>4. HealthPlaced(x)'
    BY Zenon, <1>1, <1>2 DEF HealthPlaced, HealthTyped
<1>5. Health!WindowInBounds' /\ "loadEwma" \in Health!Pcs
    BY Zenon, <1>1 DEF Health!WindowInBounds, Health!Pcs
<1>. QED BY <1>1, <1>2, <1>3, <1>4, <1>5, HealthMoves, HealthStaysSeen, Zenon

LEMMA HealthLoadEwma ==
    ASSUME HealthSizes, HealthInv, NEW x \in HealthExchanges, Health!LoadEwma(x)
    PROVE  HealthInv'
<1>. USE DEF HealthInv
<1>1. PICK c \in {"loadFailures", "storeEwma"} :
          /\ rpc' = [rpc EXCEPT ![x] = c]
          /\ rpc[x] = "loadEwma" /\ old' = [old EXCEPT ![x] = ewma]
          /\ UNCHANGED <<ewma, failures, window, maxInflight, healthKind, rtt, had, triggered,
                         lastBump>>
    BY Zenon DEF Health!LoadEwma, Health!Go
<1>2. HealthTyped' /\ c \in Health!Pcs
    BY Zenon, <1>1 DEF HealthTyped, Health!Pcs
<1>3. HealthPlaced(x)'
    BY Zenon, <1>1 DEF HealthPlaced, HealthTyped
<1>4. Health!WindowInBounds' /\ \A y \in HealthExchanges \ {x} : old'[y] = old[y]
    BY Zenon, <1>1 DEF Health!WindowInBounds, HealthTyped
<1>. QED BY <1>1, <1>2, <1>3, <1>4, HealthMoves, HealthStaysSeen, Zenon

LEMMA HealthLoadFailures ==
    ASSUME HealthSizes, HealthInv, NEW x \in HealthExchanges, Health!LoadFailures(x)
    PROVE  HealthInv'
<1>. USE DEF HealthInv
<1>1. /\ rpc' = [rpc EXCEPT ![x] = "storeEwma"] /\ "storeEwma" \in Health!Pcs
      /\ rpc[x] = "loadFailures" /\ had' = [had EXCEPT ![x] = failures # 0]
      /\ UNCHANGED <<ewma, failures, window, maxInflight, healthKind, rtt, old, triggered,
                     lastBump>>
    BY Zenon DEF Health!LoadFailures, Health!Go, Health!Pcs
<1>2. had' \in [HealthExchanges -> BOOLEAN]
    BY <1>1, Zenon DEF HealthTyped
<1>3. HealthTyped'
    BY Zenon, <1>1, <1>2 DEF HealthTyped
<1>4. HealthPlaced(x)'
    BY Zenon, <1>1 DEF HealthPlaced, HealthTyped
<1>5. Health!WindowInBounds'
    BY Zenon, <1>1 DEF Health!WindowInBounds
<1>. QED BY <1>1, <1>3, <1>4, <1>5, HealthMoves, HealthStaysSeen, Zenon

LEMMA HealthStoreEwma ==
    ASSUME HealthSizes, HealthInv, NEW x \in HealthExchanges, Health!StoreEwma(x)
    PROVE  HealthInv'
<1>. USE DEF HealthInv
<1>1. PICK c \in {"reset", "loadWindow", "bump"} :
          /\ rpc' = [rpc EXCEPT ![x] = c]
          /\ c = "loadWindow" => maxInflight > 0
          /\ c = "bump" => healthKind[x] # "ok"
    BY Zenon DEF Health!StoreEwma, Health!Go, Health!Succeeded
<1>2. /\ rpc[x] = "storeEwma"
      /\ UNCHANGED <<failures, window, maxInflight, healthKind, rtt, old, had, triggered,
                     lastBump>>
    BY Zenon DEF Health!StoreEwma
<1>3. ewma' \in Nat
  <2>0. old[x] \in Nat /\ rtt[x] \in Rtts \cup {0}
      BY Zenon DEF HealthTyped
  <2>1. old[x] \in Nat /\ rtt[x] \in Nat
    <3>1. ASSUME NEW r \in Rtts PROVE r \in Nat
        BY Zenon DEF HealthSizes
    <3>. QED BY <2>0, <3>1
  <2>2. Health!Blend(old[x], rtt[x]) \in Nat /\ Health!Inflated(old[x]) \in Nat
      BY Zenon, <2>1, HealthEstimates
  <2>. QED BY Zenon, <2>1, <2>2 DEF Health!StoreEwma
<1>4. HealthTyped' /\ c \in Health!Pcs
    BY Zenon, <1>1, <1>2, <1>3 DEF HealthTyped, Health!Pcs
<1>5. HealthPlaced(x)'
    BY Zenon, <1>1, <1>2 DEF HealthPlaced, HealthTyped
<1>6. Health!WindowInBounds'
    BY Zenon, <1>2 DEF Health!WindowInBounds
<1>. QED BY <1>1, <1>2, <1>4, <1>5, <1>6, HealthMoves, HealthStaysSeen, Zenon

LEMMA HealthReset ==
    ASSUME HealthSizes, HealthInv, NEW x \in HealthExchanges, Health!Reset(x)
    PROVE  HealthInv'
<1>. USE DEF HealthInv
<1>1. /\ rpc[x] = "reset" /\ failures' = 0 /\ triggered' = FALSE /\ lastBump' = "none"
      /\ UNCHANGED <<ewma, window, maxInflight>>
    BY Zenon DEF Health!Reset
<1>2. Health!WindowInBounds' /\ HealthSeen' /\ {"loadWindow", "done"} \subseteq Health!Pcs
    BY Zenon, <1>1 DEF Health!WindowInBounds, HealthSeen, Health!Pcs
<1>3. CASE /\ maxInflight > 0 /\ rpc' = [rpc EXCEPT ![x] = "loadWindow"]
           /\ UNCHANGED <<healthKind, old, had, rtt>>
  <2>1. HealthTyped'
      BY <1>1, <1>3, Zenon DEF HealthTyped, Health!Pcs
  <2>2. HealthPlaced(x)'
      BY Zenon, <1>1, <1>3 DEF HealthPlaced, HealthTyped
  <2>. QED BY <1>1, <1>2, <1>3, <2>1, <2>2, HealthMoves, Zenon
<1>4. CASE Health!Finish(x)
  <2>1. /\ rpc' = [rpc EXCEPT ![x] = "done"]
        /\ rpc' \in [HealthExchanges -> Health!Pcs]
        /\ rtt' \in [HealthExchanges -> Rtts \cup {0}]
        /\ healthKind' \in [HealthExchanges -> {"none", "ok", "timeout", "error"}]
        /\ old' \in [HealthExchanges -> Nat] /\ had' \in [HealthExchanges -> BOOLEAN]
        /\ \A y \in HealthExchanges \ {x} :
               old'[y] = old[y] /\ healthKind'[y] = healthKind[y]
        /\ HealthPlaced(x)'
      BY Zenon, <1>4, HealthFinish
  <2>2. HealthTyped'
      BY <1>1, <2>1, Zenon DEF HealthTyped
  <2>. QED BY <1>1, <1>2, <2>1, <2>2, HealthMoves, Zenon
<1>. QED BY Zenon, <1>3, <1>4 DEF Health!Reset, Health!Go

LEMMA HealthLoadWindow ==
    ASSUME HealthSizes, HealthInv, NEW x \in HealthExchanges, Health!LoadWindow(x)
    PROVE  HealthInv'
<1>. USE DEF HealthInv
<1>1. /\ rpc[x] = "loadWindow"
      /\ UNCHANGED <<ewma, failures, window, maxInflight, triggered, lastBump>>
    BY Zenon DEF Health!LoadWindow
<1>2. Health!WindowInBounds' /\ {"storeWindow", "done"} \subseteq Health!Pcs
    BY Zenon, <1>1 DEF Health!WindowInBounds, Health!Pcs
<1>3. CASE /\ ~(healthKind[x] = "ok" /\ window >= maxInflight)
           /\ rpc' = [rpc EXCEPT ![x] = "storeWindow"] /\ old' = [old EXCEPT ![x] = window]
           /\ UNCHANGED <<healthKind, had, rtt>>
  <2>1. HealthTyped' /\ \A y \in HealthExchanges \ {x} : old'[y] = old[y]
      BY Zenon, <1>1, <1>3 DEF HealthTyped, Health!Pcs
  <2>2. maxInflight \in Nat /\ maxInflight > 0 /\ window \in 1 .. maxInflight
      BY <1>1 DEF HealthPlaced, Health!WindowInBounds, HealthTyped, HealthSizes
  <2>3. rpc'[x] = "storeWindow" /\ old'[x] = window
      BY Zenon, <1>3 DEF HealthTyped
  <2>4. healthKind'[x] = healthKind[x] /\ healthKind[x] # "none" /\ maxInflight' = maxInflight
      BY <1>1, <1>3, Zenon DEF HealthPlaced
  <2>5. healthKind[x] = "ok" => window < maxInflight
      BY <1>3, <2>2
  <2>6. HealthPlaced(x)'
      BY Zenon, <2>2, <2>3, <2>4, <2>5 DEF HealthPlaced
  <2>. QED BY <1>1, <1>2, <1>3, <2>1, <2>6, HealthMoves, HealthStaysSeen, Zenon
<1>4. CASE Health!Finish(x)
  <2>1. /\ rpc' = [rpc EXCEPT ![x] = "done"]
        /\ rpc' \in [HealthExchanges -> Health!Pcs]
        /\ rtt' \in [HealthExchanges -> Rtts \cup {0}]
        /\ healthKind' \in [HealthExchanges -> {"none", "ok", "timeout", "error"}]
        /\ old' \in [HealthExchanges -> Nat] /\ had' \in [HealthExchanges -> BOOLEAN]
        /\ \A y \in HealthExchanges \ {x} :
               old'[y] = old[y] /\ healthKind'[y] = healthKind[y]
        /\ HealthPlaced(x)'
      BY <1>4, HealthFinish
  <2>2. HealthTyped'
      BY Zenon, <1>1, <2>1 DEF HealthTyped
  <2>. QED BY <1>1, <1>2, <2>1, <2>2, HealthMoves, HealthStaysSeen, Zenon
<1>. QED BY Zenon, <1>3, <1>4 DEF Health!LoadWindow, Health!Go, Health!Succeeded

LEMMA HealthStoreWindow ==
    ASSUME HealthSizes, HealthInv, NEW x \in HealthExchanges, Health!StoreWindow(x)
    PROVE  HealthInv'
<1>. USE DEF HealthInv
<1>1. /\ rpc[x] = "storeWindow" /\ HealthPlaced(x)
      /\ window' = IF healthKind[x] = "ok" THEN old[x] + 1 ELSE Health!Max({old[x] \div 2, 1})
      /\ UNCHANGED <<ewma, failures, maxInflight, triggered, lastBump>>
    BY Zenon DEF Health!StoreWindow, Health!Succeeded
<1>2. /\ maxInflight \in Nat /\ old[x] \in 1 .. maxInflight
      /\ healthKind[x] = "ok" => old[x] < maxInflight
    BY Zenon, <1>1 DEF HealthPlaced, HealthTyped, HealthSizes
<1>3. Health!Max({old[x] \div 2, 1}) = IF old[x] \div 2 >= 1 THEN old[x] \div 2 ELSE 1
  <2>1. old[x] \div 2 \in Nat
      BY <1>2
  <2>. QED BY Zenon, <2>1, HealthMax
<1>4. window' \in 1 .. maxInflight
  <2>1. CASE healthKind[x] = "ok"
      BY <1>1, <1>2, <2>1
  <2>2. CASE healthKind[x] # "ok"
    <3>1. window' = IF old[x] \div 2 >= 1 THEN old[x] \div 2 ELSE 1
        BY Zenon, <1>1, <1>3, <2>2
    <3>. QED BY <1>2, <3>1
  <2>. QED BY Zenon, <2>1, <2>2
<1>5. Health!WindowInBounds' /\ window' \in Nat /\ {"bump", "done"} \subseteq Health!Pcs
    BY <1>1, <1>2, <1>4 DEF Health!WindowInBounds, Health!Pcs
<1>6. CASE /\ healthKind[x] # "ok" /\ rpc' = [rpc EXCEPT ![x] = "bump"]
           /\ UNCHANGED <<healthKind, old, had, rtt>>
  <2>1. HealthTyped'
      BY Zenon, <1>1, <1>5, <1>6 DEF HealthTyped, Health!Pcs
  <2>2. HealthPlaced(x)'
      BY Zenon, <1>1, <1>6 DEF HealthPlaced, HealthTyped
  <2>. QED BY <1>1, <1>5, <1>6, <2>1, <2>2, HealthMoves, HealthStaysSeen, Zenon
<1>7. CASE Health!Finish(x)
  <2>1. /\ rpc' = [rpc EXCEPT ![x] = "done"]
        /\ rpc' \in [HealthExchanges -> Health!Pcs]
        /\ rtt' \in [HealthExchanges -> Rtts \cup {0}]
        /\ healthKind' \in [HealthExchanges -> {"none", "ok", "timeout", "error"}]
        /\ old' \in [HealthExchanges -> Nat] /\ had' \in [HealthExchanges -> BOOLEAN]
        /\ \A y \in HealthExchanges \ {x} :
               old'[y] = old[y] /\ healthKind'[y] = healthKind[y]
        /\ HealthPlaced(x)'
      BY <1>7, HealthFinish
  <2>2. HealthTyped'
      BY <1>1, <1>5, <2>1 DEF HealthTyped
  <2>. QED BY <1>1, <1>5, <2>1, <2>2, HealthMoves, HealthStaysSeen, Zenon
<1>. QED BY <1>6, <1>7, Zenon DEF Health!StoreWindow, Health!Go, Health!Succeeded

LEMMA HealthBump ==
    ASSUME HealthSizes, HealthInv, NEW x \in HealthExchanges, Health!Bump(x)
    PROVE  HealthInv'
<1>. USE DEF HealthInv
<1>1. /\ rpc[x] = "bump" /\ failures' = failures + 1 /\ lastBump' = healthKind[x]
      /\ UNCHANGED <<ewma, window, maxInflight, triggered>>
    BY Zenon DEF Health!Bump
<1>2. healthKind[x] \in {"timeout", "error"}
    BY Zenon, <1>1 DEF HealthPlaced
<1>3. Health!WindowInBounds' /\ {"check", "done"} \subseteq Health!Pcs
    BY Zenon, <1>1 DEF Health!WindowInBounds, Health!Pcs
<1>4. CASE /\ rpc' = [rpc EXCEPT ![x] = "check"] /\ UNCHANGED <<healthKind, old, had, rtt>>
  <2>1. HealthTyped'
      BY <1>1, <1>2, <1>4 DEF HealthTyped, Health!Pcs
  <2>2. rpc'[x] = "check"
      BY Zenon, <1>4 DEF HealthTyped
  <2>3. HealthPlaced(x)' /\ HealthSeen'
      BY Zenon, <2>2 DEF HealthPlaced, HealthSeen
  <2>. QED BY <1>1, <1>3, <1>4, <2>1, <2>3, HealthMoves, Zenon
<1>5. CASE healthKind[x] # "timeout" /\ Health!Finish(x)
  <2>1. /\ rpc' = [rpc EXCEPT ![x] = "done"]
        /\ rpc' \in [HealthExchanges -> Health!Pcs]
        /\ rtt' \in [HealthExchanges -> Rtts \cup {0}]
        /\ healthKind' \in [HealthExchanges -> {"none", "ok", "timeout", "error"}]
        /\ old' \in [HealthExchanges -> Nat] /\ had' \in [HealthExchanges -> BOOLEAN]
        /\ \A y \in HealthExchanges \ {x} :
               old'[y] = old[y] /\ healthKind'[y] = healthKind[y]
        /\ HealthPlaced(x)'
      BY <1>5, HealthFinish, Zenon
  <2>2. HealthTyped'
    <3>1. failures' \in Nat /\ lastBump' \in {"timeout", "error", "none"}
        BY <1>1, <1>2 DEF HealthTyped
    <3>. QED BY Zenon, <1>1, <2>1, <3>1 DEF HealthTyped
  <2>3. HealthSeen'
      BY Zenon, <1>1, <1>5 DEF HealthSeen
  <2>. QED BY <1>1, <1>3, <2>1, <2>2, <2>3, HealthMoves, Zenon
<1>. QED BY Zenon, <1>4, <1>5 DEF Health!Bump, Health!Go

LEMMA HealthCheck ==
    ASSUME HealthSizes, HealthInv, NEW x \in HealthExchanges, Health!Check(x)
    PROVE  HealthInv'
<1>. USE DEF HealthInv
<1>1. /\ rpc[x] = "check" /\ triggered' = (triggered \/ failures >= RefreshAt)
      /\ UNCHANGED <<ewma, failures, window, maxInflight, lastBump>> /\ Health!Finish(x)
    BY Zenon DEF Health!Check
<1>2. /\ rpc' = [rpc EXCEPT ![x] = "done"] /\ "done" \in Health!Pcs
      /\ rpc' \in [HealthExchanges -> Health!Pcs]
      /\ rtt' \in [HealthExchanges -> Rtts \cup {0}]
      /\ healthKind' \in [HealthExchanges -> {"none", "ok", "timeout", "error"}]
      /\ old' \in [HealthExchanges -> Nat] /\ had' \in [HealthExchanges -> BOOLEAN]
      /\ \A y \in HealthExchanges \ {x} : old'[y] = old[y] /\ healthKind'[y] = healthKind[y]
      /\ HealthPlaced(x)'
    BY Zenon, <1>1, HealthFinish DEF Health!Pcs
<1>3. triggered' \in BOOLEAN
    BY Zenon, <1>1 DEF HealthTyped
<1>4. HealthTyped' /\ HealthSeen' /\ Health!WindowInBounds'
    BY <1>1, <1>2, <1>3, Zenon DEF HealthTyped, HealthSeen, Health!WindowInBounds
<1>. QED BY <1>1, <1>2, <1>4, HealthMoves, Zenon

LEMMA HealthStep ==
    ASSUME HealthSizes, HealthInv, Health!Next \/ UNCHANGED Health!vars
    PROVE  HealthInv'
<1>1. CASE \E x \in HealthExchanges :
               \/ Health!Ends(x) \/ Health!LoadEwma(x) \/ Health!LoadFailures(x)
               \/ Health!StoreEwma(x) \/ Health!Reset(x) \/ Health!LoadWindow(x)
               \/ Health!StoreWindow(x) \/ Health!Bump(x) \/ Health!Check(x)
    BY <1>1, HealthEnds, HealthLoadEwma, HealthLoadFailures, HealthStoreEwma, HealthReset,
       HealthLoadWindow, HealthStoreWindow, HealthBump, HealthCheck
<1>2. CASE UNCHANGED Health!vars
    BY Zenon, <1>2 DEF Health!vars, HealthInv, HealthTyped, HealthPlaced, HealthSeen,
                Health!WindowInBounds
<1>. QED BY Zenon, <1>1, <1>2 DEF Health!Next, Health!Idle

\* An exchange that is about to store an estimate has a round trip of its own or a copy of
\* an estimate that was in range.
HealthSample(x) ==
    /\ rpc[x] \in {"loadEwma", "loadFailures", "storeEwma"} /\ healthKind[x] = "ok" =>
           rtt[x] \in Rtts
    /\ rpc[x] \in {"loadFailures", "storeEwma"} => Health!Measured(old[x])

HealthLearnt == Health!EstimateKept /\ \A x \in HealthExchanges : HealthSample(x)

\* What is stored: a blend is not above both of its parts, and neither kind is 0.
LEMMA HealthBlended ==
    ASSUME HealthSizes, NEW e \in Nat, Health!Measured(e), NEW r \in Rtts
    PROVE  /\ r # 0 /\ Health!Measured(r) /\ (e # 0 => Health!Blend(e, r) # 0)
           /\ Health!Measured(Health!Blend(e, r))
<1>. USE DEF HealthSizes
<1>1. r \in Nat \ {0}
    OBVIOUS
<1>2. Health!Measured(r)
    BY <1>1 DEF Health!Measured
<1>3. e # 0 => Health!Blend(e, r) # 0
    BY <1>1 DEF Health!Blend
<1>4. Health!Blend(e, r) \in Nat /\ (Health!Blend(e, r) <= e \/ Health!Blend(e, r) <= r)
  <2>1. ASSUME NEW a \in Nat, NEW b \in Nat, a >= b
        PROVE  a \div 4 >= b \div 4 /\ a \div 4 - b \div 4 <= a - b
      BY <2>1
  <2>2. CASE e >= r
      BY <1>1, <2>1, <2>2 DEF Health!Blend
  <2>3. CASE r >= e
      BY <1>1, <2>1, <2>3 DEF Health!Blend
  <2>. QED BY <1>1, <2>2, <2>3
<1>5. Health!Measured(Health!Blend(e, r))
  <2>. DEFINE b == Health!Blend(e, r)
  <2>1. b \in Nat /\ (b <= e \/ b <= r) /\ Rtts \subseteq Nat /\ RttCap \in Nat
      BY <1>4
  <2>2. e <= RttCap \/ \E q \in Rtts : e <= q
      BY Zenon DEF Health!Measured
  <2>. HIDE DEF b
  <2>3. b <= RttCap \/ \E q \in Rtts : b <= q
      BY <2>1, <2>2
  <2>. QED BY <2>3 DEF Health!Measured, b
<1>. QED BY <1>1, <1>2, <1>3, <1>5

LEMMA HealthInflated ==
    ASSUME HealthSizes, NEW e \in Nat
    PROVE  Health!Inflated(e) # 0 /\ Health!Measured(Health!Inflated(e))
<1>. USE DEF HealthSizes
<1>1. Health!Max({2 * e, RttFloor}) \in Nat \ {0}
    BY HealthMax
<1>2. Health!Inflated(e) = IF Health!Max({2 * e, RttFloor}) <= RttCap
                           THEN Health!Max({2 * e, RttFloor}) ELSE RttCap
    BY Zenon, <1>1, HealthMax DEF Health!Inflated
<1>3. Health!Inflated(e) \in Nat \ {0} /\ Health!Inflated(e) <= RttCap
    BY <1>1, <1>2
<1>. QED BY Zenon, <1>3 DEF Health!Measured

LEMMA HealthInitLearnt ==
    ASSUME HealthSizes, Health!Init
    PROVE  HealthLearnt
BY DEF HealthSizes, Health!Init, HealthLearnt, HealthSample, Health!EstimateKept,
       Health!Measured, Health!Stored

\* A step that stores no estimate and takes its exchange past the store only if it was
\* there already.
LEMMA HealthKeeps ==
    ASSUME HealthTyped, HealthLearnt, NEW x \in HealthExchanges, NEW c,
           rpc' = [rpc EXCEPT ![x] = c], UNCHANGED ewma,
           c \in Health!Stored => rpc[x] \in Health!Stored,
           \A y \in HealthExchanges \ {x} :
               rtt'[y] = rtt[y] /\ old'[y] = old[y] /\ healthKind'[y] = healthKind[y],
           HealthSample(x)'
    PROVE  HealthLearnt'
<1>1. rpc'[x] = c /\ \A y \in HealthExchanges \ {x} : rpc'[y] = rpc[y]
    BY Zenon DEF HealthTyped
<1>2. ASSUME NEW y \in HealthExchanges PROVE HealthSample(y)'
  <2>1. CASE y # x
      BY Zenon, <1>1, <2>1 DEF HealthLearnt, HealthSample, Health!Measured
  <2>. QED BY Zenon, <2>1
<1>3. Health!EstimateKept'
    BY Zenon, <1>1 DEF HealthLearnt, Health!EstimateKept, Health!Measured, Health!Stored
<1>. QED BY Zenon, <1>2, <1>3 DEF HealthLearnt

LEMMA HealthLearns ==
    ASSUME HealthSizes, HealthInv, HealthLearnt, Health!Next \/ UNCHANGED Health!vars
    PROVE  HealthLearnt'
<1>. USE DEF HealthInv
<1>1. ASSUME NEW x \in HealthExchanges, Health!Ends(x) PROVE HealthLearnt'
  <2>1. /\ rpc[x] = "running" /\ rpc' = [rpc EXCEPT ![x] = "loadEwma"]
        /\ UNCHANGED <<ewma, old>>
      BY Zenon, <1>1 DEF Health!Ends, Health!Go
  <2>2. /\ healthKind'[x] = "ok" => rtt'[x] \in Rtts
        /\ \A y \in HealthExchanges \ {x} :
               healthKind'[y] = healthKind[y] /\ rtt'[y] = rtt[y]
      BY <1>1 DEF Health!Ends, HealthTyped, Health!Errors
  <2>3. HealthSample(x)' /\ "loadEwma" \notin Health!Stored
      BY Zenon, <2>1, <2>2 DEF HealthSample, HealthTyped, Health!Stored
  <2>. QED BY Zenon, <2>1, <2>2, <2>3, HealthKeeps
<1>2. ASSUME NEW x \in HealthExchanges, Health!LoadEwma(x) PROVE HealthLearnt'
  <2>1. /\ rpc[x] = "loadEwma" /\ old' = [old EXCEPT ![x] = ewma]
        /\ \E c \in {"loadFailures", "storeEwma"} : rpc' = [rpc EXCEPT ![x] = c]
        /\ UNCHANGED <<ewma, healthKind, rtt>>
      BY Zenon, <1>2 DEF Health!LoadEwma, Health!Go
  <2>2. PICK c \in {"loadFailures", "storeEwma"} : rpc' = [rpc EXCEPT ![x] = c]
      BY Zenon, <2>1
  <2>3. c \notin Health!Stored
      BY Zenon, <2>2 DEF Health!Stored
  <2>4. old'[x] = ewma /\ \A y \in HealthExchanges \ {x} : old'[y] = old[y]
      BY Zenon, <2>1 DEF HealthTyped
  <2>5. Health!Measured(ewma) /\ HealthSample(x)
      BY Zenon DEF HealthLearnt, Health!EstimateKept
  <2>6. HealthSample(x)'
      BY Zenon, <2>1, <2>4, <2>5 DEF HealthSample, Health!Measured
  <2>. QED BY Zenon, <2>1, <2>2, <2>3, <2>4, <2>6, HealthKeeps
<1>3. ASSUME NEW x \in HealthExchanges, Health!LoadFailures(x) PROVE HealthLearnt'
  <2>1. /\ rpc[x] = "loadFailures" /\ rpc' = [rpc EXCEPT ![x] = "storeEwma"]
        /\ UNCHANGED <<ewma, old, healthKind, rtt>>
      BY Zenon, <1>3 DEF Health!LoadFailures, Health!Go
  <2>2. HealthSample(x)
      BY Zenon DEF HealthLearnt
  <2>3. HealthSample(x)' /\ "storeEwma" \notin Health!Stored
      BY Zenon, <2>1, <2>2 DEF HealthSample, HealthTyped, Health!Stored, Health!Measured
  <2>. QED BY Zenon, <2>1, <2>3, HealthKeeps
<1>4. ASSUME NEW x \in HealthExchanges, Health!StoreEwma(x) PROVE HealthLearnt'
  <2>1. rpc[x] = "storeEwma" /\ HealthSample(x) /\ old[x] \in Nat
      BY Zenon, <1>4 DEF Health!StoreEwma, HealthLearnt, HealthTyped
  <2>2. Health!Measured(old[x])
      BY Zenon, <2>1 DEF HealthSample
  <2>3. ewma' # 0 /\ Health!Measured(ewma')
    <3>1. CASE /\ Health!Succeeded(x)
               /\ ewma' = IF old[x] = 0 \/ had[x] THEN rtt[x]
                          ELSE Health!Blend(old[x], rtt[x])
      <4>1. rtt[x] \in Rtts
          BY Zenon, <2>1, <3>1 DEF HealthSample, Health!Succeeded
      <4>2. /\ rtt[x] # 0 /\ Health!Measured(rtt[x])
            /\ old[x] # 0 => Health!Blend(old[x], rtt[x]) # 0
            /\ Health!Measured(Health!Blend(old[x], rtt[x]))
          BY Zenon, <2>1, <2>2, <4>1, HealthBlended
      <4>3. CASE ewma' = rtt[x]
          BY <4>2, <4>3
      <4>4. CASE old[x] # 0 /\ ewma' = Health!Blend(old[x], rtt[x])
          BY <4>2, <4>4
      <4>. QED BY Zenon, <3>1, <4>3, <4>4
    <3>2. CASE ewma' = Health!Inflated(old[x])
        BY Zenon, <2>1, <3>2, HealthInflated
    <3>. QED BY Zenon, <1>4, <3>1, <3>2 DEF Health!StoreEwma
  <2>4. /\ \E c \in {"reset", "loadWindow", "bump"} : rpc' = [rpc EXCEPT ![x] = c]
        /\ UNCHANGED <<healthKind, rtt, old>>
      BY Zenon, <1>4 DEF Health!StoreEwma, Health!Go
  <2>5. ASSUME NEW y \in HealthExchanges PROVE HealthSample(y)'
    <3>1. CASE y # x
        BY Zenon, <2>4, <3>1 DEF HealthLearnt, HealthSample, HealthTyped, Health!Measured
    <3>2. CASE y = x
        BY Zenon, <2>4, <3>2 DEF HealthSample, HealthTyped
    <3>. QED BY Zenon, <3>1, <3>2
  <2>. QED BY Zenon, <2>3, <2>5 DEF HealthLearnt, Health!EstimateKept, Health!Measured
<1>5. ASSUME NEW x \in HealthExchanges, NEW c \in Health!Stored,
             rpc[x] \in Health!Stored, rpc' = [rpc EXCEPT ![x] = c], UNCHANGED ewma,
             \A y \in HealthExchanges \ {x} :
                 rtt'[y] = rtt[y] /\ old'[y] = old[y] /\ healthKind'[y] = healthKind[y]
      PROVE  HealthLearnt'
  <2>1. HealthSample(x)'
      BY Zenon, <1>5 DEF HealthSample, HealthTyped, Health!Stored
  <2>. QED BY Zenon, <1>5, <2>1, HealthKeeps
<1>6. ASSUME NEW x \in HealthExchanges,
             \/ Health!Reset(x) \/ Health!LoadWindow(x) \/ Health!StoreWindow(x)
             \/ Health!Bump(x) \/ Health!Check(x)
      PROVE  HealthLearnt'
  <2>1. rpc[x] \in Health!Stored /\ UNCHANGED ewma
      BY Zenon, <1>6 DEF Health!Reset, Health!LoadWindow, Health!StoreWindow, Health!Bump,
                         Health!Check, Health!Stored
  <2>2. /\ \E c \in Health!Stored : rpc' = [rpc EXCEPT ![x] = c]
        /\ \A y \in HealthExchanges \ {x} :
               rtt'[y] = rtt[y] /\ old'[y] = old[y] /\ healthKind'[y] = healthKind[y]
    <3>1. CASE Health!Finish(x)
        BY Zenon, <3>1 DEF Health!Finish, Health!Go, Health!Stored, HealthTyped
    <3>2. CASE /\ \E c \in {"loadWindow", "bump", "check"} : Health!Go(x, c)
               /\ UNCHANGED <<healthKind, old, had, rtt>>
        BY Zenon, <3>2 DEF Health!Go, Health!Stored
    <3>3. CASE /\ Health!Go(x, "storeWindow") /\ old' = [old EXCEPT ![x] = window]
               /\ UNCHANGED <<healthKind, had, rtt>>
        BY Zenon, <3>3 DEF Health!Go, Health!Stored, HealthTyped
    <3>. QED BY Zenon, <1>6, <3>1, <3>2, <3>3 DEF Health!Reset, Health!LoadWindow,
                Health!StoreWindow, Health!Bump, Health!Check
  <2>. QED BY Zenon, <1>5, <2>1, <2>2
<1>7. CASE UNCHANGED Health!vars
    BY Zenon, <1>7 DEF Health!vars, HealthLearnt, HealthSample, Health!EstimateKept,
                       Health!Measured
<1>. QED BY Zenon, <1>1, <1>2, <1>3, <1>4, <1>6, <1>7 DEF Health!Next, Health!Idle

\* The window stays in [1, max_inflight] (HealthStats).
LEMMA HealthBounds ==
    ASSUME HealthInv
    PROVE  Health!TypeOK /\ Health!WindowInBounds
BY Zenon DEF HealthInv, HealthTyped, Health!TypeOK, Health!Errors

\* HealthStats: although loads and stores of concurrent exchanges interleave, the window
\* stays in [1, max_inflight], a run of failures that ends in a timeout has triggered the
\* refresh, and an estimate is never lost nor out of range.
THEOREM HealthSafe ==
    ASSUME HealthSizes
    PROVE  Health!Spec => [](/\ Health!TypeOK /\ Health!WindowInBounds
                             /\ Health!RunTriggersRefresh /\ Health!EstimateKept)
<1>1. Health!Init => HealthInv /\ HealthLearnt
    BY Zenon, HealthInitInv, HealthInitLearnt
<1>2. HealthInv /\ HealthLearnt /\ [Health!Next]_(Health!vars) => HealthInv' /\ HealthLearnt'
    BY Zenon, HealthStep, HealthLearns
<1>3. HealthInv /\ HealthLearnt =>
          /\ Health!TypeOK /\ Health!WindowInBounds
          /\ Health!RunTriggersRefresh /\ Health!EstimateKept
  <2>1. HealthInv => Health!RunTriggersRefresh
      BY Zenon DEF HealthInv, Health!RunTriggersRefresh, Health!Quiescent, HealthSeen
  <2>. QED BY Zenon, <2>1, HealthBounds DEF HealthLearnt
<1>. QED BY <1>1, <1>2, <1>3, PTL DEF Health!Spec

-----------------------------------------------------------------------------
(* The counts of UpstreamPool.                                              *)

INSTANCE FiniteSetTheorems

\* Two sets that differ in at most one element.
LEMMA OneApart ==
    ASSUME NEW Q, IsFiniteSet(Q), NEW S \in SUBSET Q, NEW T \in SUBSET Q, NEW q \in Q,
           \A p \in Q \ {q} : p \in S <=> p \in T
    PROVE  /\ Cardinality(S) \in Nat /\ Cardinality(T) \in Nat
           /\ q \in S /\ q \notin T => Cardinality(T) = Cardinality(S) - 1
           /\ q \notin S /\ q \in T => Cardinality(T) = Cardinality(S) + 1
           /\ (q \in S <=> q \in T) => Cardinality(T) = Cardinality(S)
<1>1. IsFiniteSet(S) /\ IsFiniteSet(T)
    BY FS_Subset
<1>2. Cardinality(S) \in Nat /\ Cardinality(T) \in Nat
    BY <1>1, FS_CardinalityType
<1>3. ASSUME q \in S, q \notin T PROVE Cardinality(T) = Cardinality(S) - 1
  <2>1. T = S \ {q}
      BY <1>3
  <2>. QED BY <1>1, <1>3, <2>1, FS_RemoveElement
<1>4. ASSUME q \notin S, q \in T PROVE Cardinality(T) = Cardinality(S) + 1
  <2>1. T = S \cup {q}
      BY <1>4
  <2>. QED BY <1>1, <1>4, <2>1, FS_AddElement
<1>5. ASSUME q \in S <=> q \in T PROVE S = T
    BY <1>5
<1>. QED BY <1>2, <1>3, <1>4, <1>5

\* A subset of a finite set has no more elements.
LEMMA SubsetCount ==
    ASSUME NEW T, IsFiniteSet(T), NEW S \in SUBSET T
    PROVE  Cardinality(S) \in Nat /\ Cardinality(T) \in Nat /\ Cardinality(S) <= Cardinality(T)
BY FS_Subset, FS_CardinalityType

LEMMA PoolFinite == \A S : /\ Pool!IsFiniteSet(S) = IsFiniteSet(S)
                           /\ Pool!Cardinality(S) = Cardinality(S)
BY DEF Pool!IsFiniteSet, IsFiniteSet, Pool!Cardinality, Cardinality

LEMMA PoolConstants == Pool!PoolAssumption => PoolSizes
BY PoolFinite DEF Pool!PoolAssumption, PoolSizes, Pool!NoNode

LEMMA PoolBudget == ASSUME PoolSizes, PoolTyped PROVE Pool!HedgeBudget \in Nat
<1>1. Cardinality(pool) \in Nat
    BY SubsetCount DEF PoolSizes, PoolTyped
<1>2. ASSUME NEW a \in Nat, NEW b \in Nat PROVE Pool!Max({a, b}) \in Nat
    BY DEF Pool!Max
<1>. QED BY <1>1, <1>2, PoolFinite DEF Pool!HedgeBudget, PoolSizes

LEMMA PoolInitInv ==
    ASSUME PoolSizes, Pool!Init
    PROVE  PoolInv
<1>. USE DEF PoolSizes, Pool!Init, Pool!NoNode
<1>1. PoolTyped
    BY DEF PoolTyped, Pool!QueryPcs, Pool!Zero, Counters
<1>2. ASSUME NEW q \in Queries PROVE PoolPlaced(q)
    BY Zenon, <1>2 DEF PoolPlaced
<1>3. Claimants = {} /\ Hedgers = {} /\ \A n \in PoolNodes : RunningOn(n) = {}
    BY Zenon DEF Claimants, Hedgers, RunningOn, Pool!Guarded, Pool!Running
<1>4. PoolHedges
    BY <1>1, <1>3, FS_EmptySet, PoolBudget DEF PoolHedges
<1>5. PoolInflight
    BY Zenon, <1>3, FS_EmptySet DEF PoolInflight, Pool!Zero
<1>6. Pool!CountedOnce
    BY DEF Pool!CountedOnce, Pool!Zero
<1>. QED BY <1>1, <1>2, <1>4, <1>5, <1>6 DEF PoolInv

\* A step that moves one query keeps the claims and the running exchanges counted.
LEMMA PoolClaims ==
    ASSUME PoolSizes, PoolTyped, PoolHedges, NEW q \in Queries, UNCHANGED pool,
           PoolOthers(q), PoolClaimed(q)
    PROVE  PoolHedges'
<1>. DEFINE B == Pool!HedgeBudget
<1>0. B' = B /\ B \in Nat
    BY Zenon, PoolBudget DEF Pool!HedgeBudget
<1>1. /\ Claimants \in SUBSET Queries /\ Claimants' \in SUBSET Queries
      /\ Hedgers \in SUBSET Claimants /\ Hedgers' \in SUBSET Queries
      /\ \A p \in Queries \ {q} : /\ p \in Claimants <=> p \in Claimants'
                                  /\ p \in Hedgers <=> p \in Hedgers'
    BY Zenon DEF Claimants, Hedgers, PoolOthers
<1>. HIDE DEF B
<1>2. activeHedges' = Cardinality(Claimants')
    BY <1>1, OneApart DEF PoolHedges, PoolSizes, PoolClaimed
<1>3. Cardinality(Hedgers) \in Nat /\ Cardinality(Hedgers) <= activeHedges
      /\ activeHedges \in Nat
    BY Zenon, <1>1, SubsetCount, FS_Subset DEF PoolHedges, PoolSizes
<1>4. Cardinality(Hedgers') <= B
    BY <1>0, <1>1, <1>3, OneApart DEF PoolHedges, PoolSizes, PoolClaimed, B
<1>. QED BY Zenon, <1>0, <1>2, <1>4 DEF PoolHedges, B

LEMMA PoolCounts ==
    ASSUME PoolSizes, PoolInflight, NEW q \in Queries, PoolOthers(q), PoolRan(q)
    PROVE  PoolInflight'
<1>. SUFFICES ASSUME NEW n \in PoolNodes
              PROVE  stats'[n].inflight = Cardinality(RunningOn(n)')
    BY DEF PoolInflight
<1>1. /\ RunningOn(n) \in SUBSET Queries /\ RunningOn(n)' \in SUBSET Queries
      /\ \A p \in Queries \ {q} : p \in RunningOn(n) <=> p \in RunningOn(n)'
      /\ q \in RunningOn(n) <=> n \in Pool!Running(q)
      /\ q \in RunningOn(n)' <=> n \in Pool!Running(q)'
    BY DEF RunningOn, Pool!Running, PoolOthers
<1>2. /\ IsFiniteSet(Queries) /\ stats[n].inflight = Cardinality(RunningOn(n))
      /\ stats'[n].inflight = stats[n].inflight
             + (IF q \in RunningOn(n)' THEN 1 ELSE 0) - (IF q \in RunningOn(n) THEN 1 ELSE 0)
    BY <1>1 DEF PoolInflight, PoolSizes, PoolRan
<1>3. /\ Cardinality(RunningOn(n)) \in Nat
      /\ q \in RunningOn(n) /\ q \notin RunningOn(n)' =>
             Cardinality(RunningOn(n)') = Cardinality(RunningOn(n)) - 1
      /\ q \notin RunningOn(n) /\ q \in RunningOn(n)' =>
             Cardinality(RunningOn(n)') = Cardinality(RunningOn(n)) + 1
      /\ (q \in RunningOn(n) <=> q \in RunningOn(n)') =>
             Cardinality(RunningOn(n)') = Cardinality(RunningOn(n))
    BY <1>1, <1>2, OneApart
<1>. QED BY <1>2, <1>3

LEMMA PoolStep ==
    ASSUME PoolSizes, PoolInv, Pool!Next \/ UNCHANGED Pool!vars
    PROVE  PoolInv'
<1>0. /\ PoolTyped /\ (\A q \in Queries : PoolPlaced(q))
      /\ PoolHedges /\ PoolInflight /\ Pool!CountedOnce
    BY DEF PoolInv
<1>1. ASSUME NEW q \in Queries, \/ Pool!Start(q) \/ Pool!HedgeTimer(q) \/ Pool!Unclaim(q)
                                \/ Pool!EndLast(q) \/ Pool!EndFirst(q) \/ Pool!Drop(q)
      PROVE  PoolInv'
  <2>1. PoolMoves(q)
      BY <1>0, <1>1, PoolStart, PoolHedgeTimer, PoolUnclaim, PoolEndLast, PoolEndFirst,
         PoolDrop, Zenon
  <2>2. /\ PoolTyped' /\ PoolPlaced(q)' /\ PoolOthers(q) /\ UNCHANGED pool
        /\ PoolClaimed(q) /\ PoolRan(q) /\ Pool!CountedOnce'
      BY <2>1 DEF PoolMoves
  <2>3. ASSUME NEW p \in Queries PROVE PoolPlaced(p)'
    <3>1. CASE p = q
        BY <2>2, <3>1
    <3>2. CASE p # q
      <4>1. /\ qpc'[p] = qpc[p] /\ primary'[p] = primary[p] /\ secondary'[p] = secondary[p]
            /\ poolAsked'[p] = poolAsked[p] /\ failed'[p] = failed[p]
            /\ result'[p] = result[p]
          BY <2>2, <3>2, Zenon DEF PoolOthers
      <4>. QED BY <1>0, <4>1 DEF PoolPlaced
    <3>. QED BY <3>1, <3>2
  <2>4. PoolHedges' /\ PoolInflight'
      BY <1>0, <2>2, PoolClaims, PoolCounts
  <2>. QED BY <2>2, <2>3, <2>4 DEF PoolInv
<1>2. CASE UNCHANGED Pool!vars
  <2>1. UNCHANGED <<pool, hedging, qpc, primary, secondary, poolAsked, failed, result,
                    activeHedges, stats, started, abandoned>>
      BY <1>2 DEF Pool!vars
  <2>2. PoolTyped'
      BY <1>0, <2>1 DEF PoolTyped
  <2>3. \A q \in Queries : PoolPlaced(q)'
      BY <1>0, <2>1 DEF PoolPlaced
  <2>4. PoolHedges'
      BY Zenon, <1>0, <2>1 DEF PoolHedges, Claimants, Hedgers, Pool!HedgeBudget
  <2>5. PoolInflight' /\ Pool!CountedOnce'
      BY <1>0, <2>1 DEF PoolInflight, RunningOn, Pool!Running, Pool!CountedOnce
  <2>. QED BY <2>2, <2>3, <2>4, <2>5 DEF PoolInv
<1>. QED BY Zenon, <1>1, <1>2 DEF Pool!Next, Pool!Idle

\* exchange_observed and the guards it holds: claims and running exchanges are counted
\* exactly, every exchange is counted once, and a query fails only if all of its exchanges
\* did.
THEOREM PoolSafe ==
    ASSUME PoolSizes, PoolInv
    PROVE  /\ Pool!TypeOK /\ Pool!HedgesWithinBudget /\ Pool!InflightExact
           /\ Pool!CountedOnce /\ Pool!EitherSuccessWins
<1>. USE DEF PoolInv
<1>1. Pool!HedgesWithinBudget
    BY PoolFinite DEF PoolHedges, Claimants, Hedgers, Pool!HedgesWithinBudget
<1>2. Pool!InflightExact
    BY PoolFinite DEF PoolInflight, RunningOn, Pool!InflightExact
<1>3. ASSUME NEW n \in PoolNodes
      PROVE  stats[n] \in [ok : Nat, err : Nat, cancelled : Nat, inflight : Nat]
  <2>1. Cardinality(RunningOn(n)) \in Nat
      BY SubsetCount DEF RunningOn, PoolSizes
  <2>. QED BY <2>1 DEF PoolInflight, PoolTyped, Counters
<1>4. activeHedges \in Nat
    BY SubsetCount DEF PoolHedges, Claimants, PoolSizes
<1>5. Pool!TypeOK
    BY <1>3, <1>4 DEF Pool!TypeOK, PoolTyped, Pool!NoNode, Counters
<1>6. Pool!EitherSuccessWins
    BY Zenon DEF Pool!EitherSuccessWins, PoolPlaced
<1>. QED BY <1>1, <1>2, <1>5, <1>6
=============================================================================
