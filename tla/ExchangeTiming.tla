--------------------------- MODULE ExchangeTiming ---------------------------
(***************************************************************************)
(* How long the leader of a singleflight key can take, against how long a  *)
(* follower waits for it (resolver.rs, exchange_with_dedupe).              *)
(*                                                                         *)
(* The leader makes one exchange and, when a filter forwards, one more.    *)
(* An exchange runs on one node of a pool or, when hedged, on two, and on  *)
(* a node it goes through the phases of its transport; every phase has a   *)
(* timeout of its own.  Over UDP the packet must first enter the send      *)
(* queue of its socket, and nothing limits how long a full queue holds it. *)
(* Time is counted in ticks and advances only when no timer is due.        *)
(***************************************************************************)
EXTENDS Integers

CONSTANTS Timeout,      \* cfg.timeout
          HedgeDelay,   \* cfg.hedge_delay, 0 when hedging is off
          Adaptive,     \* the delays UpstreamNode::hedge_delay may compute
          Slack,        \* Duration::from_secs(1)
          SlotQueue,    \* callers that may be ahead in a connection slot's mutex
          MaxHeld       \* bound on the ticks that full send queues hold packets

TimingAssumption == /\ Timeout \in Nat \ {0} /\ Slack \in Nat \ {0}
                    /\ HedgeDelay \in Nat /\ SlotQueue \in Nat /\ MaxHeld \in Nat
                    /\ Adaptive \subseteq Nat \ {0}

Transports == {"udp", "mux", "doh", "quic"}

\* The timed waits of a transport's exchange, one after the other.
\* UDP: the answer, then the TCP fallback when it is truncated.  The send into the
\* bounded queue before them is not timed.
UdpPhases == 2
\* TCP and TLS: connecting and queueing the frame, then the answer.
MuxPhases == 2
\* DoH: the permit, then connecting, sending and reading together.
DohPhases == 2
\* DoQ and HTTP/3: the permit, the slot's mutex while each caller ahead connects,
\* the connection, the answer.
QuicPhases == 3 + SlotQueue
Phases(t) == CASE t = "udp" -> UdpPhases [] t = "mux" -> MuxPhases
               [] t = "doh" -> DohPhases [] t = "quic" -> QuicPhases
\* After an error DoQ and HTTP/3 take the mutex again, to evict the connection.
EvictWaits(t) == IF t = "quic" THEN SlotQueue ELSE 0

MaxExchangesPerQuery == 2

\* Mutant: room for the first exchange only.
FollowerWaitOne == Timeout + HedgeDelay + Slack
FollowerWait == Timeout * MaxExchangesPerQuery + HedgeDelay + Slack

Legs == {1, 2}
Off == [phase |-> 0, due |-> 0, held |-> FALSE]

VARIABLES now,
          transport,    \* of the nodes of the pool
          lpc,          \* the leader: "exchange" or "done"
          exchanges,    \* exchanges it has started
          legs,         \* legs[1] the primary node's exchange, legs[2] the hedge's
          hedgeDue,     \* when the hedge timer fires, -1 when it is not armed
          extra,        \* history: it hedged twice, or later than configured, or
                        \* an exchange went past its first phase or was held
          hedges,       \* history: hedges started
          waited,       \* history: ticks during which a full queue held a packet
          fpc, fdue     \* a follower of the leader's key and its deadline

vars == <<now, transport, lpc, exchanges, legs, hedgeDue, extra, hedges, waited,
          fpc, fdue>>

TypeOK ==
    /\ now \in Nat /\ transport \in Transports
    /\ lpc \in {"exchange", "done"} /\ exchanges \in 1..2
    /\ legs \in [Legs -> [phase : 0..Phases(transport) + EvictWaits(transport),
                          due : Nat, held : BOOLEAN]]
    /\ hedgeDue \in Nat \cup {-1}
    /\ extra \in BOOLEAN /\ hedges \in 0..2 /\ waited \in Nat
    /\ fpc \in {"absent", "waiting", "answered", "servfail"} /\ fdue \in Nat

Running(l) == legs[l].phase # 0
Phase(n) == [phase |-> n, due |-> now + Timeout, held |-> FALSE]
\* The first wait of an exchange; over UDP a full send queue may hold its packet.
Held == IF transport = "udp" THEN BOOLEAN ELSE {FALSE}
Begin(h) == [phase |-> 1, due |-> now + Timeout, held |-> h]
Primary(h) == [l \in Legs |-> IF l = 1 THEN Begin(h) ELSE Off]

\* The hedge timer of an exchange that begins now: the configured delay while
\* the primary has no sample or has just failed, else one from its own RTT.
\* A pool without hedging has none.
HedgeTimers == IF HedgeDelay = 0 THEN {-1} ELSE {now + d : d \in Adaptive \cup {HedgeDelay}}

Init ==
    /\ now = 0 /\ transport \in Transports
    /\ lpc = "exchange" /\ exchanges = 1
    /\ \E h \in Held : legs = Primary(h)
    /\ hedgeDue \in HedgeTimers
    /\ extra = FALSE /\ hedges = 0 /\ waited = 0
    /\ fpc = "absent" /\ fdue = 0

-----------------------------------------------------------------------------
LeaderDone == /\ lpc' = "done" /\ legs' = [l \in Legs |-> Off] /\ hedgeDue' = -1
              /\ UNCHANGED <<exchanges, extra>>

\* The exchange of a rule succeeds: a filter may forward the query to another
\* server, whose pool begins an exchange of its own.
Succeed ==
    \/ LeaderDone
    \/ /\ exchanges < MaxExchangesPerQuery
       /\ exchanges' = exchanges + 1
       /\ \E h \in Held : legs' = Primary(h)
       /\ hedgeDue' \in HedgeTimers
       /\ UNCHANGED <<lpc, extra>>

\* The flusher has made room: the packet enters the queue, and the timeout begins.
Enqueue(l) ==
    /\ Running(l) /\ legs[l].held
    /\ legs' = [legs EXCEPT ![l].held = FALSE]
    /\ UNCHANGED <<now, transport, lpc, exchanges, hedgeDue, extra, hedges, waited, fpc, fdue>>

\* What a node waits for happens in time, perhaps at once: its next wait begins,
\* or it has the answer and the other node's exchange is dropped.
PhaseEnds(l) ==
    /\ Running(l) /\ ~legs[l].held /\ now <= legs[l].due
    /\ \/ /\ legs[l].phase < Phases(transport) + EvictWaits(transport)
          /\ legs' = [legs EXCEPT ![l] = Phase(@.phase + 1)]
          /\ extra' = TRUE
          /\ UNCHANGED <<lpc, exchanges, hedgeDue>>
       \/ legs[l].phase <= Phases(transport) /\ Succeed
    /\ UNCHANGED <<now, transport, hedges, waited, fpc, fdue>>

\* A node's exchange fails, at the latest when its timer fires.  The leader
\* goes on while the other node's runs; a primary that fails before the hedge
\* timer fires ends the exchange.
LegFails(l) ==
    /\ Running(l)
    /\ \/ \E o \in Legs \ {l} : /\ Running(o)
                                /\ legs' = [legs EXCEPT ![l] = Off]
                                /\ UNCHANGED <<lpc, exchanges, hedgeDue, extra>>
       \/ (\A o \in Legs \ {l} : ~Running(o)) /\ LeaderDone
    /\ UNCHANGED <<now, transport, hedges, waited, fpc, fdue>>

\* The hedge timer fires: a second node is asked, with timeouts of its own,
\* unless the pool has spent its hedge budget or has no other node.
HedgeFires ==
    /\ hedgeDue # -1 /\ now >= hedgeDue /\ Running(1)
    /\ hedgeDue' = -1
    /\ \/ /\ \E h \in Held : legs' = [legs EXCEPT ![2] = Begin(h)]
          /\ hedges' = hedges + 1
          /\ extra' = (extra \/ hedges > 0 \/ now - (legs[1].due - Timeout) > HedgeDelay)
       \/ UNCHANGED <<legs, hedges, extra>>
    /\ UNCHANGED <<now, transport, lpc, exchanges, waited, fpc, fdue>>

Join ==
    /\ fpc = "absent" /\ lpc = "exchange"
    /\ fpc' = "waiting" /\ fdue' = now + FollowerWait
    /\ UNCHANGED <<now, transport, lpc, exchanges, legs, hedgeDue, extra, hedges, waited>>

\* The leader publishes, or is gone without publishing: the follower answers.
Answer ==
    /\ fpc = "waiting" /\ lpc = "done"
    /\ fpc' = "answered"
    /\ UNCHANGED <<now, transport, lpc, exchanges, legs, hedgeDue, extra, hedges, waited,
                   fdue>>

\* The wait times out: the follower answers SERVFAIL.
GiveUp ==
    /\ fpc = "waiting" /\ now >= fdue
    /\ fpc' = "servfail"
    /\ UNCHANGED <<now, transport, lpc, exchanges, legs, hedgeDue, extra, hedges, waited,
                   fdue>>

\* Time passes when no timer is due.  The timeout of a held exchange has not begun: what
\* it will be due at moves on with the clock.
Holding == \E l \in Legs : legs[l].held
Tick ==
    /\ lpc = "exchange" \/ fpc = "waiting"
    /\ \A l \in Legs : Running(l) => now < legs[l].due
    /\ hedgeDue # -1 => now < hedgeDue
    /\ fpc = "waiting" => now < fdue
    /\ now' = now + 1
    /\ legs' = [l \in Legs |-> IF legs[l].held THEN [legs[l] EXCEPT !.due = @ + 1]
                              ELSE legs[l]]
    /\ IF Holding THEN waited < MaxHeld /\ waited' = waited + 1 /\ extra' = TRUE
                  ELSE UNCHANGED <<waited, extra>>
    /\ UNCHANGED <<transport, lpc, exchanges, hedgeDue, hedges, fpc, fdue>>

Idle == lpc = "done" /\ fpc # "waiting" /\ UNCHANGED vars

Next == \/ \E l \in Legs : Enqueue(l) \/ PhaseEnds(l) \/ LegFails(l)
        \/ HedgeFires \/ Join \/ Answer \/ GiveUp \/ Tick \/ Idle

Spec == Init /\ [][Next]_vars

-----------------------------------------------------------------------------
\* The leader ends within what its exchanges may take in the worst case: each
\* phase of the primary, then, when the hedge started at the last moment, each
\* phase of the second node.  Full send queues come on top of it, as long as they
\* hold its packets, and are the only thing that does: the send of
\* UdpUpstream::exchange is awaited outside its timeout.
WorstExchange == (IF HedgeDelay = 0 THEN 1 ELSE 2)
                     * (Phases(transport) + EvictWaits(transport)) * Timeout
LeaderBounded == lpc = "exchange" => now <= MaxExchangesPerQuery * WorstExchange + waited

\* A follower does not give up on a leader whose exchanges wait for nothing but
\* one answer each, not for room in a queue either, and of which one is hedged after
\* the configured delay: the case the deadline is computed for.
PlainLeaderCovered == fpc = "servfail" /\ lpc = "exchange" => extra

=============================================================================
