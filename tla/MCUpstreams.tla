---------------------------- MODULE MCUpstreams -----------------------------
(***************************************************************************)
(* Safety of the upstream side, from the choice of a node to the answer of *)
(* a query. The components are checked side by side and do not interact    *)
(* here: `part' picks the one that runs, and the variables of the others   *)
(* are off. The state space is the union of theirs.                        *)
(***************************************************************************)
EXTENDS Integers, FiniteSets, TransportProofs, ExchangeProofs, AnswerProofs

VARIABLES part,
          next, lastSelected, cpc, queryIx, chosen, probing, health, served

\* Three nodes of which any may be slow, two callers, and a probe every second query.
Select == INSTANCE NodeSelection WITH
    NodeCount <- 3, Callers <- {"c1", "c2"}, ProbeInterval <- 2, BandFactor <- 2,
    BandFloor <- 1, Ewmas <- {0, 9}, Inflights <- {1}, Windows <- {1},
    CongestionFactor <- 4, Saturated <- 40, MaxQueries <- 10

ASSUME Assumptions ==
    /\ Tcp!TcpMuxAssumption /\ Slot!ConnSlotAssumption /\ Pool!PoolAssumption
    /\ Health!HealthAssumption /\ Select!SelectionAssumption /\ Timing!TimingAssumption
    /\ Final!ServersAssumption

tcpVars == <<writerTx, connecting, generation, tornDown, backoff, reader, woken, writer,
    batch, queue, sent, tcpXpc, xconn, chan, force, forced, node>>
slotVars == <<slotTransport, slot, holder, state, opened, permits, slotXpc, conn, slotFirst>>
poolVars == <<pool, hedging, qpc, primary, secondary, poolAsked, failed, result,
    activeHedges, stats, started, abandoned>>
healthVars == <<ewma, failures, window, maxInflight, rpc, healthKind, rtt, old, had,
    triggered, lastBump>>
selectVars == <<next, lastSelected, cpc, queryIx, chosen, probing, health, served>>
timingVars == <<now, timingTransport, lpc, exchanges, legs, hedgeDue, extra, hedges, waited,
    fpc, fdue>>
finalVars == <<finalKind, target, finalFirst, second, filter, forwardTo, loaded,
    noipAsPrimary, pc, answer, finalAsked, ended, verdict, response, winner, forwarded,
    entry>>
vars == <<part, tcpVars, slotVars, poolVars, healthVars, selectVars, timingVars, finalVars>>

\* A component that does not run holds nothing.
Off(v) == v = "off"
TcpOff == Off(writerTx) /\ Off(connecting) /\ Off(generation) /\ Off(tornDown) /\
    Off(backoff) /\ Off(reader) /\ Off(woken) /\ Off(writer) /\ Off(batch) /\ Off(queue) /\
    Off(sent) /\ Off(tcpXpc) /\ Off(xconn) /\ Off(chan) /\ Off(force) /\ Off(forced) /\
    Off(node)
SlotOff == Off(slotTransport) /\ Off(slot) /\ Off(holder) /\ Off(state) /\ Off(opened) /\
    Off(permits) /\ Off(slotXpc) /\ Off(conn) /\ Off(slotFirst)
PoolOff == Off(pool) /\ Off(hedging) /\ Off(qpc) /\ Off(primary) /\ Off(secondary) /\
    Off(poolAsked) /\ Off(failed) /\ Off(result) /\ Off(activeHedges) /\ Off(stats) /\
    Off(started) /\ Off(abandoned)
HealthOff == Off(ewma) /\ Off(failures) /\ Off(window) /\ Off(maxInflight) /\ Off(rpc) /\
    Off(healthKind) /\ Off(rtt) /\ Off(old) /\ Off(had) /\ Off(triggered) /\ Off(lastBump)
SelectOff == Off(next) /\ Off(lastSelected) /\ Off(cpc) /\ Off(queryIx) /\ Off(chosen) /\
    Off(probing) /\ Off(health) /\ Off(served)
TimingOff == Off(now) /\ Off(timingTransport) /\ Off(lpc) /\ Off(exchanges) /\ Off(legs) /\
    Off(hedgeDue) /\ Off(extra) /\ Off(hedges) /\ Off(waited) /\ Off(fpc) /\ Off(fdue)
FinalOff == Off(finalKind) /\ Off(target) /\ Off(finalFirst) /\ Off(second) /\
    Off(filter) /\ Off(forwardTo) /\ Off(loaded) /\ Off(noipAsPrimary) /\ Off(pc) /\
    Off(answer) /\ Off(finalAsked) /\ Off(ended) /\ Off(verdict) /\ Off(response) /\
    Off(winner) /\ Off(forwarded) /\ Off(entry)

Init ==
    \/ /\ part = "tcp" /\ Tcp!Init /\ SlotOff /\ PoolOff /\ HealthOff /\ SelectOff
       /\ TimingOff /\ FinalOff
    \/ /\ part = "slot" /\ Slot!Init /\ TcpOff /\ PoolOff /\ HealthOff /\ SelectOff
       /\ TimingOff /\ FinalOff
    \/ /\ part = "pool" /\ Pool!Init /\ TcpOff /\ SlotOff /\ HealthOff /\ SelectOff
       /\ TimingOff /\ FinalOff
    \/ /\ part = "health" /\ Health!Init /\ TcpOff /\ SlotOff /\ PoolOff /\ SelectOff
       /\ TimingOff /\ FinalOff
    \/ /\ part = "select" /\ Select!Init /\ TcpOff /\ SlotOff /\ PoolOff /\ HealthOff
       /\ TimingOff /\ FinalOff
    \/ /\ part = "timing" /\ Timing!Init /\ TcpOff /\ SlotOff /\ PoolOff /\ HealthOff
       /\ SelectOff /\ FinalOff
    \/ /\ part = "final" /\ Final!Init /\ TcpOff /\ SlotOff /\ PoolOff /\ HealthOff
       /\ SelectOff /\ TimingOff

Next ==
    \/ /\ part = "tcp" /\ Tcp!Next
       /\ UNCHANGED <<part, slotVars, poolVars, healthVars, selectVars, timingVars,
                      finalVars>>
    \/ /\ part = "slot" /\ Slot!Next
       /\ UNCHANGED <<part, tcpVars, poolVars, healthVars, selectVars, timingVars,
                      finalVars>>
    \/ /\ part = "pool" /\ Pool!Next
       /\ UNCHANGED <<part, tcpVars, slotVars, healthVars, selectVars, timingVars,
                      finalVars>>
    \/ /\ part = "health" /\ Health!Next
       /\ UNCHANGED <<part, tcpVars, slotVars, poolVars, selectVars, timingVars, finalVars>>
    \/ /\ part = "select" /\ Select!Next
       /\ UNCHANGED <<part, tcpVars, slotVars, poolVars, healthVars, timingVars, finalVars>>
    \/ /\ part = "timing" /\ Timing!Next
       /\ UNCHANGED <<part, tcpVars, slotVars, poolVars, healthVars, selectVars, finalVars>>
    \/ /\ part = "final" /\ Final!Next
       /\ UNCHANGED <<part, tcpVars, slotVars, poolVars, healthVars, selectVars, timingVars>>

Spec == Init /\ [][Next]_vars

-----------------------------------------------------------------------------
\* A query given a connection that has since been withdrawn is told so and does not
\* sit out its timeout (disconnect, force_reconnect); exchanges that find a slot
\* empty together open one connection between them, none is lost from the slot
\* (get_or_connect), and a second attempt is on another connection than the one found
\* dead (send_request).
ConnectionsSound ==
    /\ part = "tcp" => Tcp!TypeOK /\ Tcp!WithdrawnQueriesFail
    /\ part = "slot" => Slot!TypeOK /\ Slot!OneOpenConnection /\ Slot!RetryOnAnother

\* No permit, no claim on the hedge budget and no count of a node's exchanges is lost
\* or given back twice on any way an exchange can end (acquire_inflight_permit,
\* exchange_observed, ActiveInflightGuard, stats.rs), and the AIMD window stays in
\* [1, max_inflight] although loads and stores of concurrent exchanges interleave
\* (HealthStats).
CountsExact ==
    /\ part = "slot" => Slot!PermitsConserved
    /\ part = "pool" => /\ Pool!TypeOK /\ Pool!HedgesWithinBudget /\ Pool!InflightExact
                        /\ Pool!CountedOnce
    /\ part = "health" => Health!TypeOK /\ Health!WindowInBounds

\* Whatever the scores, a node goes unselected for little more than PROBE_INTERVAL
\* queries (select_primary_idx); its estimate is never lost and never above what was
\* measured or charged for a failure (HealthStats), and a run of failures that ends in a
\* timeout has triggered its transport's refresh (UpstreamNode::exchange).
NodesReconsidered ==
    /\ part = "select" => Select!TypeOK /\ Select!NoNodeForgotten
    /\ part = "health" => Health!EstimateKept /\ Health!RunTriggersRefresh

\* A singleflight leader ends within what its exchanges may take in the worst case and
\* the time that full UDP send queues hold its packets, and a follower does not give up
\* on a leader whose exchanges wait for one answer each (exchange_with_dedupe).
WaitsBounded ==
    part = "timing" => Timing!TypeOK /\ Timing!LeaderBounded /\ Timing!PlainLeaderCovered

\* A query fails only if every exchange it started failed (exchange_observed); of two
\* servers a clean answer wins (race), the primary's answer is trusted only inside
\* the set (resolve_none_rule_with_cidr), and what is cached is credited to, and
\* lives as long as allowed by, the server that answered (exchange_with_dedupe).
BestAnswerWins ==
    /\ part = "pool" => Pool!EitherSuccessWins
    /\ part = "final" => /\ Final!TypeOK /\ Final!CleanAnswerWins
                         /\ Final!AddressTestRespected /\ Final!CreditedToAnswerer
                         /\ Final!TtlOfAnswerer

\* The stale teardown of an older connection never withdraws a newer one, however
\* long it waited for the lock (disconnect, evict_if_unhealthy).
OnlyOwnTeardown ==
    [][/\ part = "tcp" => Tcp!OnlyOwnTeardown
       /\ part = "slot" => Slot!OnlyClosedEvicted]_vars

-----------------------------------------------------------------------------
(* The invariants above hold for all sizes, not only for those of the      *)
(* configuration: each component keeps its own inductive invariant, and a  *)
(* step of one leaves the variables of the others alone.                   *)

\* The inductive invariant of the component that runs.
UpstreamsInv ==
    /\ part = "tcp" => TcpInv
    /\ part = "slot" => SlotInv
    /\ part = "pool" => PoolInv
    /\ part = "health" => HealthInv /\ HealthLearnt
    /\ part = "timing" => TimingInv
    /\ part = "final" => FinalInv

LEMMA UpstreamsSizes ==
    /\ TcpSizes /\ SlotSizes /\ PoolSizes /\ HealthSizes /\ TimingSizes /\ FinalSizes
BY ZenonT(60), Assumptions, TcpConstants, SlotConstants, PoolConstants, HealthConstants,
   TimingConstants, FinalConstants DEF Assumptions

LEMMA UpstreamsInit == Init => UpstreamsInv
BY ZenonT(60), UpstreamsSizes, TcpInitInv, SlotInitInv, PoolInitInv, HealthInitInv,
   HealthInitLearnt, TimingInitInv, FinalInitInv DEF Init, UpstreamsInv

\* What a step may do: one component moves and the same one goes on, or none moves.
LEMMA UpstreamsMoves ==
    ASSUME [Next]_vars
    PROVE  /\ part' = part
           /\ part = "tcp" => Tcp!Next \/ UNCHANGED Tcp!vars
           /\ part = "slot" => Slot!Next \/ UNCHANGED Slot!vars
           /\ part = "pool" => Pool!Next \/ UNCHANGED Pool!vars
           /\ part = "health" => Health!Next \/ UNCHANGED Health!vars
           /\ part = "timing" => Timing!Next \/ UNCHANGED Timing!vars
           /\ part = "final" => Final!Next \/ UNCHANGED Final!vars
<1>1. CASE Next
    BY ZenonT(60), <1>1 DEF Next
<1>2. CASE UNCHANGED vars
  <2>1. UNCHANGED Tcp!vars
      BY ZenonT(60), <1>2 DEF vars, tcpVars, Tcp!vars, Tcp!lockVars, Tcp!taskVars,
        Tcp!exchangeVars, Tcp!forceVars
  <2>2. UNCHANGED Slot!vars
      BY ZenonT(60), <1>2 DEF vars, slotVars, Slot!vars
  <2>3. UNCHANGED Pool!vars
      BY ZenonT(60), <1>2 DEF vars, poolVars, Pool!vars
  <2>4. UNCHANGED Health!vars
      BY ZenonT(60), <1>2 DEF vars, healthVars, Health!vars
  <2>5. UNCHANGED Timing!vars
      BY ZenonT(60), <1>2 DEF vars, timingVars, Timing!vars
  <2>6. UNCHANGED Final!vars
      BY ZenonT(60), <1>2 DEF vars, finalVars, Final!vars, Final!config
  <2>. QED BY ZenonT(60), <1>2, <2>1, <2>2, <2>3, <2>4, <2>5, <2>6 DEF vars
<1>. QED BY ZenonT(60), <1>1, <1>2

LEMMA UpstreamsStep == UpstreamsInv /\ [Next]_vars => UpstreamsInv'
<1>. SUFFICES ASSUME UpstreamsInv, [Next]_vars PROVE UpstreamsInv'
    BY ZenonT(60)
<1>1. CASE part = "tcp"
    BY ZenonT(60), <1>1, UpstreamsMoves, UpstreamsSizes, TcpStep DEF UpstreamsInv
<1>2. CASE part = "slot"
    BY ZenonT(60), <1>2, UpstreamsMoves, UpstreamsSizes, SlotStep DEF UpstreamsInv
<1>3. CASE part = "pool"
    BY ZenonT(60), <1>3, UpstreamsMoves, UpstreamsSizes, PoolStep DEF UpstreamsInv
<1>4. CASE part = "health"
    BY ZenonT(60), <1>4, UpstreamsMoves, UpstreamsSizes, HealthStep, HealthLearns
    DEF UpstreamsInv
<1>5. CASE part = "timing"
    BY ZenonT(60), <1>5, UpstreamsMoves, UpstreamsSizes, TimingStep DEF UpstreamsInv
<1>6. CASE part = "final"
    BY ZenonT(60), <1>6, UpstreamsMoves, UpstreamsSizes, FinalStep DEF UpstreamsInv
<1>. QED BY ZenonT(60), <1>1, <1>2, <1>3, <1>4, <1>5, <1>6, UpstreamsMoves DEF UpstreamsInv

\* Every component keeps its inductive invariant, whichever of them runs (upstream/).
THEOREM UpstreamsInvariance == Spec => []UpstreamsInv
BY UpstreamsInit, UpstreamsStep, PTL DEF Spec

\* disconnect, get_or_connect and send_request, for any number of exchanges, connections
\* and permits: no query waits on a withdrawn connection in ignorance, and the slot holds
\* the only open one.
THEOREM ConnectionsAreSound == Spec => []ConnectionsSound
<1>1. UpstreamsInv => ConnectionsSound
    BY ZenonT(60), UpstreamsSizes, TcpSafe, SlotSafe
    DEF UpstreamsInv, ConnectionsSound
<1>. QED BY <1>1, UpstreamsInvariance, PTL

\* The permits, the hedge budget, the counts of stats.rs and the AIMD window of HealthStats,
\* for any number of exchanges, queries and nodes: none is lost or given back twice.
THEOREM CountsAreExact == Spec => []CountsExact
<1>1. UpstreamsInv => CountsExact
    BY ZenonT(60), UpstreamsSizes, SlotSafe, PoolSafe, HealthBounds
    DEF UpstreamsInv, CountsExact
<1>. QED BY <1>1, UpstreamsInvariance, PTL

\* exchange_with_dedupe, for any timeout, hedge delay and queue: a leader ends within the
\* worst case of its exchanges, and its follower waits for it.
THEOREM WaitsAreBounded == Spec => []WaitsBounded
<1>1. UpstreamsInv => WaitsBounded
    BY ZenonT(60), UpstreamsSizes, TimingSafe
    DEF UpstreamsInv, WaitsBounded
<1>. QED BY <1>1, UpstreamsInvariance, PTL

\* exchange_observed and do_upstream_exchange, for any number of nodes and servers: the
\* better answer is returned, and cached under the name of the server that gave it.
THEOREM BestAnswersWin == Spec => []BestAnswerWins
<1>1. UpstreamsInv => BestAnswerWins
    BY ZenonT(60), UpstreamsSizes, PoolSafe, FinalSafe
    DEF UpstreamsInv, BestAnswerWins
<1>. QED BY <1>1, UpstreamsInvariance, PTL

\* disconnect and evict_if_unhealthy, for any number of connections: a stale teardown
\* never withdraws a newer connection.
THEOREM TeardownsAreOwn == Spec => OnlyOwnTeardown
<1>1. UpstreamsInv /\ [Next]_vars => [/\ part = "tcp" => Tcp!OnlyOwnTeardown
                                      /\ part = "slot" => Slot!OnlyClosedEvicted]_vars
  <2>. SUFFICES ASSUME UpstreamsInv, Next
                PROVE  /\ part = "tcp" => Tcp!OnlyOwnTeardown
                       /\ part = "slot" => Slot!OnlyClosedEvicted
      BY ZenonT(60)
  <2>1. CASE part = "tcp"
    <3>1. Tcp!Next
        BY ZenonT(60), <2>1 DEF Next
    <3>. QED BY ZenonT(60), <2>1, <3>1, UpstreamsSizes, TcpOwnTeardown DEF UpstreamsInv
  <2>2. CASE part = "slot"
    <3>1. Slot!Next
        BY ZenonT(60), <2>2 DEF Next
    <3>. QED BY ZenonT(60), <2>2, <3>1, UpstreamsSizes, SlotEvictsClosed DEF UpstreamsInv
  <2>. QED BY ZenonT(60), <2>1, <2>2
<1>. QED BY <1>1, UpstreamsInvariance, PTL DEF Spec, OnlyOwnTeardown
=============================================================================
