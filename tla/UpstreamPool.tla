---------------------------- MODULE UpstreamPool ----------------------------
(***************************************************************************)
(* upstream/mod.rs, UpstreamPool::exchange_observed: a query goes to a     *)
(* primary node and, when that is slow and the hedge budget allows, to a   *)
(* second one; the first success wins and the other exchange is dropped.   *)
(* UpstreamNode::exchange and the RAII guards keep the counters of         *)
(* stats.rs.                                                               *)
(*                                                                         *)
(* Which node is chosen is NodeSelection, the health it is chosen by is    *)
(* NodeHealth, and how an exchange of a node ends is UdpUpstream, TcpMux   *)
(* and ConnSlot: here any node may be chosen and any exchange may end      *)
(* either way.                                                             *)
(***************************************************************************)
EXTENDS Integers, FiniteSets, FiniteSetsExt

CONSTANTS Nodes,        \* the nodes a pool may have
          Queries,      \* calls of exchange_observed
          MinBudget     \* the 4 in hedge_budget

NoNode == "none"

PoolAssumption == /\ IsFiniteSet(Nodes) /\ Nodes # {} /\ NoNode \notin Nodes
                  /\ IsFiniteSet(Queries)
                  /\ MinBudget \in Nat

VARIABLES pool,         \* nodes
          hedging,      \* hedge_delay is configured
          qpc,          \* where a query is
          primary, secondary,   \* the nodes whose exchange it is running
          asked, failed,        \* exchanges it started, and how many of them failed
          result,       \* what it returned
          activeHedges, \* active_hedges
          stats,        \* stats[n]: the counters of node n
          started,      \* history: exchanges started on n
          abandoned     \* history: exchanges dropped with their whole query

vars == <<pool, hedging, qpc, primary, secondary, asked, failed, result, activeHedges, stats,
          started, abandoned>>

\* Phase 1; the budget claimed, or claimed in vain; waiting for one exchange
\* with or without the guard of phase 2; racing two.
QueryPcs == {"new", "phase1", "over", "alone", "guarded", "race", "done"}
Guarded == {"guarded", "race"}
HedgeBudget == Max({Cardinality(pool), MinBudget})
Zero == [ok |-> 0, err |-> 0, cancelled |-> 0, inflight |-> 0]

TypeOK ==
    /\ pool \in (SUBSET Nodes) \ {{}} /\ hedging \in BOOLEAN
    /\ qpc \in [Queries -> QueryPcs]
    /\ primary \in [Queries -> Nodes \cup {NoNode}]
    /\ secondary \in [Queries -> Nodes \cup {NoNode}]
    /\ asked \in [Queries -> 0..2] /\ failed \in [Queries -> 0..2]
    /\ result \in [Queries -> {"none", "ok", "err"}]
    /\ activeHedges \in Nat
    /\ stats \in [Nodes -> [ok : Nat, err : Nat, cancelled : Nat, inflight : Nat]]
    /\ started \in [Nodes -> Nat] /\ abandoned \in [Nodes -> Nat]

Init ==
    /\ pool \in (SUBSET Nodes) \ {{}} /\ hedging \in BOOLEAN
    /\ qpc = [q \in Queries |-> "new"]
    /\ primary = [q \in Queries |-> NoNode] /\ secondary = [q \in Queries |-> NoNode]
    /\ asked = [q \in Queries |-> 0] /\ failed = [q \in Queries |-> 0]
    /\ result = [q \in Queries |-> "none"]
    /\ activeHedges = 0 /\ stats = [n \in Nodes |-> Zero]
    /\ started = [n \in Nodes |-> 0] /\ abandoned = [n \in Nodes |-> 0]

-----------------------------------------------------------------------------
Go(q, pc) == qpc' = [qpc EXCEPT ![q] = pc]

\* UpstreamNode::exchange counts itself, and its guard uncounts it.
Begin(q, n) == /\ stats' = [stats EXCEPT ![n].inflight = @ + 1]
               /\ started' = [started EXCEPT ![n] = @ + 1]
               /\ asked' = [asked EXCEPT ![q] = @ + 1]

Unguarded(c) == [c EXCEPT !.inflight = @ - 1]
Counted(c, what) == CASE what = "ok" -> [c EXCEPT !.ok = @ + 1]
                      [] what = "err" -> [c EXCEPT !.err = @ + 1]
                      [] what = "cancelled" -> [c EXCEPT !.cancelled = @ + 1]
Recorded(s, n, what) == [s EXCEPT ![n] = Unguarded(Counted(@, what))]

\* The query returns r: the guards of phase 2 and of what still runs go.
Return(q, r) ==
    /\ Go(q, "done") /\ result' = [result EXCEPT ![q] = r]
    /\ primary' = [primary EXCEPT ![q] = NoNode]
    /\ secondary' = [secondary EXCEPT ![q] = NoNode]
    /\ activeHedges' = IF qpc[q] \in Guarded THEN activeHedges - 1 ELSE activeHedges

\* Selects the primary and starts its exchange.
Start(q) ==
    /\ qpc[q] = "new"
    /\ \E n \in pool : /\ primary' = [primary EXCEPT ![q] = n]
                       /\ Begin(q, n)
    /\ Go(q, IF hedging THEN "phase1" ELSE "alone")
    /\ UNCHANGED <<pool, hedging, secondary, failed, result, activeHedges, abandoned>>

\* Mutant: the budget is read first and claimed later.
ClaimAfterCheck(q) ==
    /\ qpc[q] \in {"phase1", "over"}
    /\ \/ qpc[q] = "phase1" /\ activeHedges < HedgeBudget /\ Go(q, "over")
          /\ UNCHANGED <<activeHedges, secondary, stats, started, asked>>
       \/ qpc[q] = "over"
          /\ activeHedges' = activeHedges + 1
          /\ Go(q, "guarded") /\ UNCHANGED <<secondary, stats, started, asked>>
    /\ UNCHANGED <<pool, hedging, primary, failed, result, abandoned>>
\* The hedge timer fires: fetch_add claims, and a claim beyond the budget is
\* given back in a second step.  A claim within it starts the other node.
HedgeTimer(q) ==
    /\ qpc[q] = "phase1"
    /\ activeHedges' = activeHedges + 1
    /\ \/ /\ activeHedges >= HedgeBudget
          /\ Go(q, "over") /\ UNCHANGED <<secondary, stats, started, asked>>
       \/ /\ activeHedges < HedgeBudget /\ pool = {primary[q]}
          /\ Go(q, "guarded") /\ UNCHANGED <<secondary, stats, started, asked>>
       \/ /\ activeHedges < HedgeBudget
          /\ \E n \in pool \ {primary[q]} : /\ secondary' = [secondary EXCEPT ![q] = n]
                                            /\ Begin(q, n)
          /\ Go(q, "race")
    /\ UNCHANGED <<pool, hedging, primary, failed, result, abandoned>>

Unclaim(q) ==
    /\ qpc[q] = "over"
    /\ activeHedges' = activeHedges - 1
    /\ Go(q, "alone")
    /\ UNCHANGED <<pool, hedging, primary, secondary, asked, failed, result, stats, started,
                   abandoned>>

\* The only exchange the query still runs, its primary or its secondary, ends.
\* secondary_result.or(result): an error after an error is an error.
LastExchange(q) == IF primary[q] # NoNode THEN primary[q] ELSE secondary[q]
EndLast(q) ==
    /\ qpc[q] \in {"phase1", "alone", "guarded"}
    /\ \E r \in {"ok", "err"} :
           /\ stats' = Recorded(stats, LastExchange(q), r)
           /\ failed' = [failed EXCEPT ![q] = IF r = "err" THEN @ + 1 ELSE @]
           /\ Return(q, r)
    /\ UNCHANGED <<pool, hedging, started, asked, abandoned>>

\* One of two ends first.  Its success ends the query and cancels the other.
FirstWins(q, mine, other) ==
    /\ stats' = Recorded(Recorded(stats, mine, "ok"), other, "cancelled")
    /\ Return(q, "ok") /\ UNCHANGED failed

\* Its error leaves the query waiting for the other.
FirstFails(q, mine) ==
    /\ stats' = Recorded(stats, mine, "err")
    /\ failed' = [failed EXCEPT ![q] = @ + 1]
    /\ Go(q, "guarded")
    /\ UNCHANGED <<result, activeHedges>>

EndFirst(q) ==
    /\ qpc[q] = "race"
    /\ \/ FirstWins(q, primary[q], secondary[q])
       \/ FirstWins(q, secondary[q], primary[q])
       \/ /\ FirstFails(q, primary[q])
          /\ primary' = [primary EXCEPT ![q] = NoNode] /\ UNCHANGED secondary
       \/ /\ FirstFails(q, secondary[q])
          /\ secondary' = [secondary EXCEPT ![q] = NoNode] /\ UNCHANGED primary
    /\ UNCHANGED <<pool, hedging, started, asked, abandoned>>

\* The caller drops the query at any await.
Running(q) == {primary[q], secondary[q]} \ {NoNode}
Drop(q) ==
    /\ qpc[q] \in {"phase1", "alone", "guarded", "race"}
    /\ stats' = [n \in Nodes |-> IF n \in Running(q) THEN Unguarded(stats[n]) ELSE stats[n]]
    /\ abandoned' = [n \in Nodes |-> abandoned[n] + IF n \in Running(q) THEN 1 ELSE 0]
    /\ Return(q, "none")
    /\ UNCHANGED <<pool, hedging, asked, failed, started>>

Idle == (\A q \in Queries : qpc[q] = "done") /\ UNCHANGED vars

Next ==
    \/ \E q \in Queries : \/ Start(q) \/ HedgeTimer(q) \/ Unclaim(q)
                          \/ EndLast(q) \/ EndFirst(q) \/ Drop(q)
    \/ Idle

Spec == Init /\ [][Next]_vars

-----------------------------------------------------------------------------
\* exchange_observed: queries in phase 2 never exceed the budget, whatever
\* fetch_add and fetch_sub of different queries interleave, and no claim is
\* lost or given back twice.
HedgesWithinBudget ==
    /\ Cardinality({q \in Queries : qpc[q] \in Guarded}) <= HedgeBudget
    /\ activeHedges = Cardinality({q \in Queries : qpc[q] \in Guarded \cup {"over"}})

\* ActiveInflightGuard: the inflight count that selection scores by is the
\* number of exchanges running on the node, however they end.
InflightExact ==
    \A n \in Nodes : stats[n].inflight = Cardinality({q \in Queries : n \in Running(q)})

\* stats.rs: every exchange started on a node is counted once, as a success,
\* an error or a cancellation, unless its whole query was dropped.
CountedOnce ==
    \A n \in Nodes :
        started[n] = stats[n].ok + stats[n].err + stats[n].cancelled + stats[n].inflight
                     + abandoned[n]

\* exchange_observed: a query fails only if every exchange it started failed.
EitherSuccessWins == \A q \in Queries : result[q] = "err" => failed[q] = asked[q]

=============================================================================
