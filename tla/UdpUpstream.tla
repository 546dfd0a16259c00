---------------------------- MODULE UdpUpstream ----------------------------
(***************************************************************************)
(* upstream/udp.rs: a pool of connected sockets, each with a supervised    *)
(* receive loop and a send queue drained by a flusher task.  Sustained     *)
(* timeouts replace every socket (trigger_refresh, do_refresh); dropping   *)
(* the node retires every loop (shutdown).                                 *)
(*                                                                         *)
(* A socket, the queue in front of it and its flusher share a number: slot *)
(* i starts with number 0 and every refresh of i opens the next.  Receive  *)
(* loops are numbered by the generation they were spawned for.  Matching a *)
(* response to its query is InflightRegistry; here a response reaches its  *)
(* query if a loop reads the socket the query was written to.              *)
(***************************************************************************)
EXTENDS Naturals, FiniteSets

CONSTANTS NumSlots,      \* runtime.upstream-udp-sockets
          Exchanges,     \* calls of UdpUpstream::exchange
          QueueCap,      \* SEND_QUEUE_CAP
          MaxRefresh     \* bound: refreshes that begin

UdpAssumption == /\ NumSlots \in Nat \ {0}
                 /\ QueueCap \in Nat \ {0}
                 /\ MaxRefresh \in Nat
                 /\ IsFiniteSet(Exchanges)

Slots == 1 .. NumSlots
Numbers == 0 .. MaxRefresh            \* sockets, queues and flushers of a slot
Generations == 0 .. MaxRefresh + 1    \* one more bump: shutdown

VARIABLES sock,      \* sockets[i]: the socket in the slot
          sendq,     \* send_qs[i]: the queue in the slot
          gen,       \* generations[i]
          loop,      \* loop[i][g]: the receive loop spawned for generation g
          flusher,   \* flusher[i][n]: the task that drains queue n of slot i
          queued,    \* queued[i][n]: exchanges whose packet is in that queue
          xpc,       \* where an exchange is
          path,      \* path[x]: the slot and queue number its packet went to
          refresh,   \* the task spawned by trigger_refresh
          begun,     \* refreshes begun so far
          cooling,   \* now_ms() < refresh_guard.not_before_ms
          node       \* the UpstreamNode that owns the upstream

vars == <<sock, sendq, gen, loop, flusher, queued, xpc, path, refresh, begun, cooling, node>>
poolVars == <<sock, sendq, gen>>
exchangeVars == <<queued, xpc, path>>
refreshVars == <<refresh, begun, cooling>>

\* Mutant: the wait is registered by the select's first poll only.
ArmedInSelect == {"wait"}
\* Between enabling `refreshed` and the next turn of the loop, a loop is
\* among the waiters that notify_waiters wakes.
ArmedPcs == {"check", "load", "wait"}
LoopPcs == {"none", "top", "check", "load", "wait", "backoff", "done"}

NoLoop == [pc |-> "none", woken |-> FALSE, held |-> 0]
IdleRefresh == [pc |-> "idle", slot |-> 1, newGen |-> 0]
DoneLoop == [pc |-> "done", woken |-> FALSE, held |-> 0]
NewLoop == [pc |-> "top", woken |-> FALSE, held |-> 0]

NoPath == [slot |-> 1, num |-> 0]

\* The packet of x has left for the network.
Flying(x) == xpc[x] = "waiting" /\ \A n \in Numbers : x \notin queued[path[x].slot][n]

TypeOK ==
    /\ sock \in [Slots -> Numbers] /\ sendq \in [Slots -> Numbers]
    /\ gen \in [Slots -> Generations]
    /\ loop \in [Slots -> [Generations -> [pc : LoopPcs, woken : BOOLEAN, held : Numbers]]]
    /\ flusher \in [Slots -> [Numbers -> {"none", "run", "done"}]]
    /\ queued \in [Slots -> [Numbers -> SUBSET Exchanges]]
    /\ \A i \in Slots, n \in Numbers : Cardinality(queued[i][n]) <= QueueCap
    /\ xpc \in [Exchanges -> {"new", "sending", "waiting", "tcp", "claiming", "done"}]
    /\ path \in [Exchanges -> [slot : Slots, num : Numbers]]
    /\ refresh \in [pc : {"idle", "open", "stored", "requeued", "bumped", "notify"},
                    slot : Slots, newGen : Generations]
    /\ begun \in Numbers /\ cooling \in BOOLEAN
    /\ node \in [pc : {"live", "dropping", "dropped"}, slot : 1 .. NumSlots + 1]

\* UdpUpstream::create: one socket, queue, flusher and loop per slot.
Init ==
    /\ sock = [i \in Slots |-> 0] /\ sendq = [i \in Slots |-> 0] /\ gen = [i \in Slots |-> 0]
    /\ loop = [i \in Slots |-> [g \in Generations |-> IF g = 0 THEN NewLoop ELSE NoLoop]]
    /\ flusher = [i \in Slots |-> [n \in Numbers |-> IF n = 0 THEN "run" ELSE "none"]]
    /\ queued = [i \in Slots |-> [n \in Numbers |-> {}]]
    /\ xpc = [x \in Exchanges |-> "new"]
    /\ path = [x \in Exchanges |-> NoPath]
    /\ refresh = IdleRefresh /\ begun = 0 /\ cooling = FALSE
    /\ node = [pc |-> "live", slot |-> 1]

-----------------------------------------------------------------------------
Leave(x, pc) == /\ xpc' = [xpc EXCEPT ![x] = pc]
                /\ path' = [path EXCEPT ![x] = NoPath]

(* UdpUpstream::exchange.                                                   *)

\* The round-robin index picks a slot; the sender loaded from it is held
\* until the packet is in the queue, which may take a while.
PickQueue(x) ==
    /\ xpc[x] = "new" /\ node.pc = "live"     \* register succeeded
    /\ \E i \in Slots : path' = [path EXCEPT ![x] = [slot |-> i, num |-> sendq[i]]]
    /\ xpc' = [xpc EXCEPT ![x] = "sending"]
    /\ UNCHANGED <<poolVars, loop, flusher, queued, refreshVars, node>>

RegisterFails(x) ==
    /\ xpc[x] = "new" /\ node.pc = "live"
    /\ xpc' = [xpc EXCEPT ![x] = "done"]
    /\ UNCHANGED <<poolVars, loop, flusher, queued, path, refreshVars, node>>

Enqueue(x) ==
    LET i == path[x].slot
        n == path[x].num
    IN /\ xpc[x] = "sending"
       /\ Cardinality(queued[i][n]) < QueueCap
       /\ queued' = [queued EXCEPT ![i][n] = @ \cup {x}]
       /\ xpc' = [xpc EXCEPT ![x] = "waiting"]
       /\ UNCHANGED <<poolVars, loop, flusher, path, refreshVars, node>>

\* The timeout covers the wait for the response only; the TCP retry of a
\* truncated one has its own.  In UpstreamNode::exchange, a run of timeouts
\* calls trigger_refresh, which first looks at the cooldown.
Timeout(x) ==
    /\ xpc[x] \in {"waiting", "tcp"}
    /\ \E stale \in BOOLEAN :
           Leave(x, IF stale /\ ~cooling THEN "claiming" ELSE "done")
    /\ UNCHANGED <<poolVars, loop, flusher, queued, refreshVars, node>>

TcpFallback(x) ==
    /\ xpc[x] = "tcp"
    /\ Leave(x, "done")
    /\ UNCHANGED <<poolVars, loop, flusher, queued, refreshVars, node>>

\* RefreshGuard::try_begin from the compare-exchange on, and the spawn.
ClaimRefresh(x) ==
    /\ xpc[x] = "claiming"
    /\ xpc' = [xpc EXCEPT ![x] = "done"]
    /\ IF refresh.pc = "idle" /\ begun < MaxRefresh
         THEN /\ refresh' = [IdleRefresh EXCEPT !.pc = "open"]
              /\ begun' = begun + 1 /\ cooling' = TRUE
         ELSE UNCHANGED refreshVars
    /\ UNCHANGED <<poolVars, loop, flusher, queued, path, node>>

\* A select drops the exchange (hedging, a cancelled leader).
Cancel(x) ==
    /\ xpc[x] \in {"sending", "waiting", "tcp"}
    /\ Leave(x, "done")
    /\ UNCHANGED <<poolVars, loop, flusher, queued, refreshVars, node>>

CoolDown ==
    /\ cooling /\ cooling' = FALSE
    /\ UNCHANGED <<poolVars, loop, flusher, exchangeVars, refresh, begun, node>>

-----------------------------------------------------------------------------
(* udp_send::run_send_flush_loop.                                           *)

\* A queue is closed once no slot and no sending exchange holds its sender.
\* The slots go with the upstream itself, whose last owners are the node,
\* the receive loops and the refresh task.
Freed ==
    /\ node.pc = "dropped" /\ refresh.pc = "idle"
    /\ \A i \in Slots, g \in Generations : loop[i][g].pc \in {"none", "done"}
Closed(i, n) ==
    /\ sendq[i] # n \/ Freed
    /\ \A x \in Exchanges : xpc[x] = "sending" => path[x] # [slot |-> i, num |-> n]

\* Takes what is queued, up to a batch, and writes it; what the kernel
\* refuses is dropped, and its exchange left to its timeout.
Flush(i, n) ==
    /\ flusher[i][n] = "run" /\ queued[i][n] # {}
    /\ \E batch \in SUBSET queued[i][n] \ {{}} :
           queued' = [queued EXCEPT ![i][n] = @ \ batch]
    /\ UNCHANGED <<poolVars, loop, flusher, xpc, path, refreshVars, node>>

FlusherExit(i, n) ==
    /\ flusher[i][n] = "run" /\ queued[i][n] = {} /\ Closed(i, n)
    /\ flusher' = [flusher EXCEPT ![i][n] = "done"]
    /\ UNCHANGED <<poolVars, loop, exchangeVars, refreshVars, node>>

-----------------------------------------------------------------------------
(* spawn_recv_supervisor and recv_loop, for the loop of slot i, generation g. *)

SetLoop(i, g, state) == loop' = [loop EXCEPT ![i][g] = state]
LoopOnly == UNCHANGED <<poolVars, flusher, exchangeVars, refreshVars, node>>

Arm(i, g) ==
    /\ loop[i][g].pc = "top"
    /\ SetLoop(i, g, [loop[i][g] EXCEPT !.pc = "check"])
    /\ LoopOnly

CheckGeneration(i, g) ==
    /\ loop[i][g].pc = "check"
    /\ SetLoop(i, g, IF gen[i] # g THEN DoneLoop ELSE [loop[i][g] EXCEPT !.pc = "load"])
    /\ LoopOnly

LoadSocket(i, g) ==
    /\ loop[i][g].pc = "load"
    /\ SetLoop(i, g, [loop[i][g] EXCEPT !.pc = "wait", !.held = sock[i]])
    /\ LoopOnly

Woken(i, g) ==
    /\ loop[i][g].pc = "wait" /\ loop[i][g].woken
    /\ SetLoop(i, g, NewLoop)
    /\ LoopOnly

\* The errors of a connected socket whose peer is unreachable are drained.
IcmpError(i, g) ==
    /\ loop[i][g].pc = "wait"
    /\ SetLoop(i, g, NewLoop)
    /\ LoopOnly

\* A batch of datagrams, answers to whatever was written to this socket.
Receive(i, g) ==
    /\ loop[i][g].pc = "wait"
    /\ \E answered \in SUBSET {x \in Exchanges :
                                  Flying(x) /\ path[x] = [slot |-> i, num |-> loop[i][g].held]} :
           \E truncated \in SUBSET answered :
            /\ xpc' = [x \in Exchanges |-> IF x \in truncated THEN "tcp"
                                       ELSE IF x \in answered THEN "done" ELSE xpc[x]]
            /\ path' = [x \in Exchanges |-> IF x \in answered THEN NoPath ELSE path[x]]
    /\ SetLoop(i, g, NewLoop)
    /\ UNCHANGED <<poolVars, flusher, queued, refreshVars, node>>

\* Any other socket error ends the loop; the supervisor sleeps and restarts it.
ReceiveError(i, g) ==
    /\ loop[i][g].pc = "wait"
    /\ SetLoop(i, g, [NewLoop EXCEPT !.pc = "backoff"])
    /\ LoopOnly
Restart(i, g) ==
    /\ loop[i][g].pc = "backoff"
    /\ SetLoop(i, g, NewLoop)
    /\ LoopOnly

-----------------------------------------------------------------------------
(* do_refresh and shutdown.                                                 *)

NotifyWaiters ==
    loop' = [i \in Slots |-> [g \in Generations |->
                IF loop[i][g].pc \in ArmedPcs THEN [loop[i][g] EXCEPT !.woken = TRUE]
                                              ELSE loop[i][g]]]

NextSlot ==
    refresh' = IF refresh.slot = NumSlots THEN [refresh EXCEPT !.pc = "notify"]
               ELSE [pc |-> "open", slot |-> refresh.slot + 1, newGen |-> 0]

OpenFails ==
    /\ refresh.pc = "open"
    /\ NextSlot
    /\ UNCHANGED <<poolVars, loop, flusher, exchangeVars, begun, cooling, node>>

StoreSocket ==
    /\ refresh.pc = "open"
    /\ sock' = [sock EXCEPT ![refresh.slot] = @ + 1]
    /\ refresh' = [refresh EXCEPT !.pc = "stored"]
    /\ UNCHANGED <<sendq, gen, loop, flusher, exchangeVars, begun, cooling, node>>

StoreQueue ==
    /\ refresh.pc = "stored"
    /\ sendq' = [sendq EXCEPT ![refresh.slot] = @ + 1]
    /\ refresh' = [refresh EXCEPT !.pc = "requeued"]
    /\ UNCHANGED <<sock, gen, loop, flusher, exchangeVars, begun, cooling, node>>

\* Mutant: the supervisor is spawned for the generation before the bump.
BumpAfterLoad ==
    /\ refresh.pc = "requeued"
    /\ gen' = [gen EXCEPT ![refresh.slot] = @ + 1]
    /\ refresh' = [refresh EXCEPT !.pc = "bumped", !.newGen = gen[refresh.slot]]
    /\ UNCHANGED <<sock, sendq, loop, flusher, exchangeVars, begun, cooling, node>>
BumpGeneration ==
    /\ refresh.pc = "requeued"
    /\ gen' = [gen EXCEPT ![refresh.slot] = @ + 1]
    /\ refresh' = [refresh EXCEPT !.pc = "bumped", !.newGen = gen[refresh.slot] + 1]
    /\ UNCHANGED <<sock, sendq, loop, flusher, exchangeVars, begun, cooling, node>>

\* new_gen is what fetch_add returned, whatever the slot's generation is now.
SpawnTasks ==
    /\ refresh.pc = "bumped"
    /\ SetLoop(refresh.slot, refresh.newGen, NewLoop)
    /\ flusher' = [flusher EXCEPT ![refresh.slot][sendq[refresh.slot]] = "run"]
    /\ NextSlot
    /\ UNCHANGED <<poolVars, exchangeVars, begun, cooling, node>>

FinishRefresh ==
    /\ refresh.pc = "notify"
    /\ NotifyWaiters
    /\ refresh' = IdleRefresh
    /\ UNCHANGED <<poolVars, flusher, exchangeVars, begun, cooling, node>>

\* Drop for UpstreamNode: no exchange borrows the node any more, but a
\* refresh task may still own the upstream.
DropNode ==
    /\ node.pc = "live"
    /\ \A x \in Exchanges : xpc[x] \in {"new", "done"}
    /\ node' = [node EXCEPT !.pc = "dropping"]
    /\ UNCHANGED <<poolVars, loop, flusher, exchangeVars, refreshVars>>

RetireSlot ==
    /\ node.pc = "dropping" /\ node.slot <= NumSlots
    /\ gen' = [gen EXCEPT ![node.slot] = @ + 1]
    /\ node' = [node EXCEPT !.slot = @ + 1]
    /\ UNCHANGED <<sock, sendq, loop, flusher, exchangeVars, refreshVars>>

FinishShutdown ==
    /\ node.pc = "dropping" /\ node.slot = NumSlots + 1
    /\ NotifyWaiters
    /\ node' = [node EXCEPT !.pc = "dropped"]
    /\ UNCHANGED <<poolVars, flusher, exchangeVars, refreshVars>>

-----------------------------------------------------------------------------
LoopStep(i, g) ==
    \/ Arm(i, g) \/ CheckGeneration(i, g) \/ LoadSocket(i, g)
    \/ Woken(i, g) \/ Restart(i, g)
RefreshStep ==
    OpenFails \/ StoreSocket \/ StoreQueue \/ BumpGeneration \/ SpawnTasks \/ FinishRefresh
ShutdownStep == RetireSlot \/ FinishShutdown

\* Everything that was started has ended.
Idle == /\ \A x \in Exchanges : xpc[x] \in {"new", "done"}
        /\ Freed
        /\ \A i \in Slots, n \in Numbers : flusher[i][n] \in {"none", "done"}
        /\ UNCHANGED vars

Next ==
    \/ \E x \in Exchanges : \/ PickQueue(x) \/ RegisterFails(x) \/ Enqueue(x)
                            \/ Timeout(x) \/ TcpFallback(x)
                            \/ ClaimRefresh(x) \/ Cancel(x)
    \/ \E i \in Slots, n \in Numbers : Flush(i, n) \/ FlusherExit(i, n)
    \/ \E i \in Slots, g \in Generations :
           \/ LoopStep(i, g)
           \/ Receive(i, g) \/ IcmpError(i, g) \/ ReceiveError(i, g)
    \/ CoolDown \/ RefreshStep
    \/ DropNode \/ ShutdownStep
    \/ Idle

Spec == Init /\ [][Next]_vars

-----------------------------------------------------------------------------
\* recv_loop: the socket in a slot is read.  Unless a refresh is at work on
\* the slot or shutdown has passed it, the loop of the slot's generation
\* exists, and when it waits it waits on the socket that is in the slot and
\* that the slot's queue is written to.
AtWork(i) == refresh.slot = i /\ refresh.pc \in {"stored", "requeued", "bumped"}
Retired(i) == node.pc # "live" /\ node.slot > i
SlotServed ==
    \A i \in Slots : ~AtWork(i) /\ ~Retired(i) =>
        LET current == loop[i][gen[i]]
        IN /\ current.pc \notin {"none", "done"}
           /\ current.pc = "wait" => current.held = sock[i]
           /\ sendq[i] = sock[i] /\ flusher[i][sendq[i]] = "run"

\* exchange: a packet is only ever queued where a flusher takes it, or will
\* once the refresh has spawned it; no refresh strands a packet in a queue
\* whose flusher has gone.
NoStrandedPacket ==
    \A i \in Slots, n \in Numbers :
        /\ queued[i][n] # {} \/ \E x \in Exchanges : /\ xpc[x] = "sending"
                                                   /\ path[x] = [slot |-> i, num |-> n]
        => flusher[i][n] = "run" \/ (AtWork(i) /\ n = sendq[i])

\* recv_loop enables `refreshed` before it compares generations, so no
\* notification is lost: a loop of a superseded generation ends even if its
\* socket stays silent for ever.
SupersededLoopsEnd ==
    []<>(\A i \in Slots, g \in Generations :
             gen[i] = g \/ loop[i][g].pc \in {"none", "done"})

\* do_refresh: a replaced queue closes, and its flusher drains it and exits.
ReplacedQueuesDrain ==
    []<>(\A i \in Slots, n \in Numbers :
             sendq[i] = n \/ (flusher[i][n] # "run" /\ queued[i][n] = {}))

\* exchange returns although the wait for room in the queue has no timeout.
ExchangesEnd == []<>(\A x \in Exchanges : xpc[x] \in {"new", "done"})

=============================================================================
