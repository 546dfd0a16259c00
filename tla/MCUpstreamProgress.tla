------------------------- MODULE MCUpstreamProgress -------------------------
(***************************************************************************)
(* What the upstream transports are sure to do.  The three components are  *)
(* checked side by side and do not interact here: `part' picks the one     *)
(* that runs, and the others rest in their initial state.                  *)
(***************************************************************************)
EXTENDS Integers, FiniteSets

VARIABLES part,
          sock, sendq, gen, loop, flusher, queued, udpXpc, path, refresh, begun, cooling, udpNode,
          writerTx, connecting, generation, tornDown, backoff, reader, woken, writer, batch,
          queue, sent, tcpXpc, xconn, chan, force, forced, tcpNode,
          transport, slot, holder, state, opened, permits, slotXpc, conn, first

Exchanges == {"x1", "x2"}

\* One socket that is refreshed once, and a send queue of one.
Udp == INSTANCE UdpUpstream WITH
    NumSlots <- 1, QueueCap <- 1, MaxRefresh <- 1, xpc <- udpXpc, node <- udpNode
\* Two connections, one after the other, and a queue of one.
Tcp == INSTANCE TcpMux WITH
    QueueCap <- 1, MaxConns <- 2, MaxForce <- 0, xpc <- tcpXpc, node <- tcpNode
\* Two permits and two connections, one after the other.
Slot == INSTANCE ConnSlot WITH Permits <- 2, MaxConns <- 2, xpc <- slotXpc

ASSUME Assumptions ==
    Udp!UdpAssumption /\ Tcp!TcpMuxAssumption /\ Slot!ConnSlotAssumption

udpVars == <<sock, sendq, gen, loop, flusher, queued, udpXpc, path, refresh, begun, cooling,
             udpNode>>
tcpVars == <<writerTx, connecting, generation, tornDown, backoff, reader, woken, writer, batch,
             queue, sent, tcpXpc, xconn, chan, force, forced, tcpNode>>
slotVars == <<transport, slot, holder, state, opened, permits, slotXpc, conn, first>>
vars == <<part, udpVars, tcpVars, slotVars>>

Init == /\ part \in {"udp", "tcp", "slot"} /\ Udp!Init /\ Tcp!Init
        /\ Slot!Init /\ (part = "slot" \/ transport = "doh")

Next == \/ part = "udp" /\ Udp!Next /\ UNCHANGED <<part, tcpVars, slotVars>>
        \/ part = "tcp" /\ Tcp!Next /\ UNCHANGED <<part, udpVars, slotVars>>
        \/ part = "slot" /\ Slot!Next /\ UNCHANGED <<part, udpVars, tcpVars>>

\* Tasks run, writes to a socket complete, timers fire.  Nothing is assumed of the
\* network: no datagram or socket error need ever arrive.
UdpFairness ==
    /\ \A i \in Udp!Slots, g \in Udp!Generations :
           WF_udpVars(part = "udp" /\ Udp!LoopStep(i, g))
    /\ \A i \in Udp!Slots, n \in Udp!Numbers :
           /\ WF_udpVars(part = "udp" /\ Udp!Flush(i, n))
           /\ WF_udpVars(part = "udp" /\ Udp!FlusherExit(i, n))
    /\ \A x \in Exchanges :
           /\ WF_udpVars(part = "udp" /\ Udp!Timeout(x))
           /\ WF_udpVars(part = "udp" /\ Udp!ClaimRefresh(x))
    /\ WF_udpVars(part = "udp" /\ Udp!RefreshStep)
    /\ WF_udpVars(part = "udp" /\ Udp!ShutdownStep)

\* Tasks run and timers fire; the peer may be silent for ever.
TcpFairness ==
    /\ \A x \in Exchanges : WF_tcpVars(part = "tcp" /\ Tcp!GiveUp(x))
    /\ \A c \in Tcp!Conns : /\ WF_tcpVars(part = "tcp" /\ Tcp!ReaderStep(c))
                            /\ WF_tcpVars(part = "tcp" /\ Tcp!WriterStep(c))
    /\ WF_tcpVars(part = "tcp" /\ Tcp!ForceStep)

\* Timers fire and tasks run.  No peer need ever answer, no connection ever close.
SlotFairness ==
    \A x \in Exchanges :
        /\ WF_slotVars(part = "slot" /\ Slot!PermitTimeout(x))
        /\ WF_slotVars(part = "slot" /\ Slot!Timeout(x))
        \* QUIC bounds the handshake itself.
        /\ WF_slotVars(part = "slot" /\ transport # "doh" /\ Slot!ConnectFails(x))
        /\ WF_slotVars(part = "slot" /\ Slot!EvictIfUnhealthy(x))

\* A bounded channel and a tokio mutex serve those who wait for them in order.
Served(x) ==
    \/ part = "udp" /\ Udp!Enqueue(x) /\ UNCHANGED slotVars
    \/ part = "slot" /\ (Slot!GetOrConnect(x) \/ Slot!EvictLock(x)) /\ UNCHANGED udpVars

Spec == /\ Init /\ [][Next]_vars
        /\ UdpFairness /\ TcpFairness /\ SlotFairness
        /\ \A x \in Exchanges : SF_<<udpVars, slotVars>>(Served(x))

-----------------------------------------------------------------------------
\* The socket in a slot is read by the loop of the slot's generation and the slot's
\* queue is written to it (do_refresh, recv_loop), and no refresh strands a packet in
\* a queue whose flusher has gone (UdpUpstream::exchange).
UdpSlotsServed == Udp!TypeOK /\ Udp!SlotServed /\ Udp!NoStrandedPacket

\* An exchange returns on every transport: although the wait for room in the UDP
\* queue has no timeout, whoever holds the lock of a multiplexed connection or is
\* connecting, and although a connection slot's lock is held across awaits.
ExchangesEnd == Udp!ExchangesEnd /\ Tcp!ExchangesEnd /\ Slot!ExchangesEnd

\* What was replaced ends: the receive loop of an old generation (no notification is
\* lost between its check of the generation and its wait), the flusher of a replaced
\* queue, which drains it first, and the writer whose sender was withdrawn.
RetiredTasksEnd ==
    Udp!SupersededLoopsEnd /\ Udp!ReplacedQueuesDrain /\ Tcp!WithdrawnWritersEnd
=============================================================================
