------------------------- MODULE MCServiceProgress --------------------------
(***************************************************************************)
(* What the components around the resolver are sure to do. They are        *)
(* checked side by side and do not interact here: `part' picks the one     *)
(* that runs, and the others rest in their initial state.                  *)
(***************************************************************************)
EXTENDS Integers, Sequences, FiniteSets

VARIABLES part,
          ringSlots, tail, ktail, khead, cq, armed, ready, ringPc, ringBatch, ringAt,
          needsArm, socket, arrived, taken,
          st, permits, admission, head, apc, replies, staging, pending, room, now,
          deadline, shed, sendDrops,
          hpc, tcpSlots, read, task, writer, out, full, eof, reset,
          ipsetQueue, ipsetBatch, ipsetWpc, ipsetTodo, need, retained, kernel, givenUp,
          dropped, submitted, submits, failures,
          ppc, pseq, seq, shard, enqueued, refused, processed, evictions, logWpc, start, k,
          logProgressed, logBatch, closing, ring, tosend, cpc, chan, lagged, got, lastId,
          connects, log, seen0, sentBefore, cleared,
          diskConfig, disk, hot, lock, hotQueue, hotWpc, changed, retries, parsed, hotTodo,
          built, edits, restarts, missed,
          entries, bootPc, result, resolved, bootAt, bootProgressed, url, found, tries,
          asked

ShardQueries == {"c1", "m1", "m2", "bad"}
TcpQueries == [c \in {"a", "b"} |-> IF c = "a" THEN <<"a2", "a1", "a3">> ELSE <<"b1">>]
TcpTimeouts == [c \in {"a", "b"} |-> IF c = "a" THEN {"length", "body"} ELSE {}]
LogProducers == {"p1", "p2"}
Config(ok, refs, startup) == [ok |-> ok, refs |-> refs, startup |-> startup]
HotConfigs == {Config(TRUE, {}, 0), Config(TRUE, {"a"}, 0), Config(TRUE, {"a"}, 1)}
Url(h, rs) == [host |-> h, refs |-> rs]
Resting == <<Url("ip", <<>>)>>
BootShapes ==
    {Resting, <<Url("RCODE", <<>>)>>, <<Url("ip", <<>>), Url("name", <<1>>)>>}
    \cup {<<Url("name", <<d>>)>> : d \in 1 .. 3}

\* Two receive buffers and five datagrams.
Ring == INSTANCE UringRing WITH
    Entries <- 2, Wrap <- 4, Bursts <- 5, slots <- ringSlots, pc <- ringPc,
    batch <- ringBatch, at <- ringAt
\* A query with a cached answer, two without, and one of a peer that cannot be
\* reached.
Shard == INSTANCE UdpShard WITH
    Queries <- ShardQueries, Cached <- {"c1"}, Unreachable <- {"bad"}, MaxInflight <- 1,
    QueueMs <- 1, AdmissionCap <- 1, ReplyCap <- 1, PendingCap <- 1, BatchSize <- 2,
    Room <- 1, MaxDrain <- 2, MaxNow <- 2
\* Two clients, one of which sends three queries, and one without timeouts.
Tcp == INSTANCE TcpListener WITH
    Conns <- {"a", "b"}, Queries <- TcpQueries, Cached <- {"a1"}, Ignored <- {},
    Timeouts <- TcpTimeouts, MaxConns <- 2, slots <- tcpSlots
\* An ipset and an nftset, one address of each family.
Ipset == INSTANCE IpsetWorker WITH
    NSets <- 2, NIps <- 2, NftSets <- {2}, V6 <- {2}, Special <- {}, AddQueueSize <- 2,
    MaxIpsPerMessage <- 2, MaxSubmits <- 4, MaxFailures <- 2, queue <- ipsetQueue,
    batch <- ipsetBatch, wpc <- ipsetWpc, todo <- ipsetTodo
\* Two producers with a shard each.
Log == INSTANCE QueryLog WITH
    Producers <- LogProducers, NShards <- 2,
    ShardOf <- [p \in LogProducers |-> IF p = "p2" THEN 1 ELSE 0], PerShard <- 2,
    BatchSize <- 2, RingCapacity <- 2, BackfillLimit <- 2, BroadcastCap <- 1,
    MaxEvents <- 3, MaxConnects <- 0, MayClear <- FALSE, wpc <- logWpc,
    progressed <- logProgressed, batch <- logBatch
\* One ruleset, which configurations begin and cease to use; four edits.
Hot == INSTANCE HotReload WITH
    Rulesets <- {"a"}, Configs <- HotConfigs, InitialConfig <- Config(TRUE, {}, 0),
    BadFiles <- FALSE, Retries <- 2, MaxEdits <- 4, MaxRestarts <- 1, queue <- hotQueue,
    wpc <- hotWpc, todo <- hotTodo
\* Three entries with every graph of references.
Boot == INSTANCE Bootstrap WITH
    N <- 3, Shapes <- BootShapes, pc <- bootPc, at <- bootAt, progressed <- bootProgressed

ASSUME Assumptions ==
    /\ Ring!UringAssumption /\ Shard!ShardAssumption /\ Tcp!TcpAssumption
    /\ Ipset!IpsetAssumption /\ Log!QueryLogAssumption /\ Hot!ReloadAssumption
    /\ Boot!BootstrapAssumption

ringVars == <<ringSlots, tail, ktail, khead, cq, armed, ready, ringPc, ringBatch, ringAt,
    needsArm, socket, arrived, taken>>
shardVars == <<st, permits, admission, head, apc, replies, staging, pending, room, now,
    deadline, shed, sendDrops>>
tcpVars == <<hpc, tcpSlots, read, task, writer, out, full, eof, reset>>
ipsetVars == <<ipsetQueue, ipsetBatch, ipsetWpc, ipsetTodo, need, retained, kernel,
    givenUp, dropped, submitted, submits, failures>>
logVars == <<ppc, pseq, seq, shard, enqueued, refused, processed, evictions, logWpc, start,
    k, logProgressed, logBatch, closing, ring, tosend, cpc, chan, lagged, got, lastId,
    connects, log, seen0, sentBefore, cleared>>
hotVars == <<diskConfig, disk, hot, lock, hotQueue, hotWpc, changed, retries, parsed,
    hotTodo, built, edits, restarts, missed>>
bootVars == <<entries, bootPc, result, resolved, bootAt, bootProgressed, url, found, tries,
    asked>>
vars == <<part, ringVars, shardVars, tcpVars, ipsetVars, logVars, hotVars, bootVars>>

Init == /\ part \in {"ring", "shard", "tcp", "ipset", "log", "hot", "boot"}
        /\ Ring!Init /\ Shard!Init /\ Tcp!Init /\ Ipset!Init /\ Log!Init /\ Hot!Init
        /\ Boot!Init /\ (part = "boot" \/ \A i \in 1..3 : entries[i] = Resting)

Next ==
    \/ /\ part = "ring" /\ Ring!Next
       /\ UNCHANGED <<part, shardVars, tcpVars, ipsetVars, logVars, hotVars, bootVars>>
    \/ /\ part = "shard" /\ Shard!Next
       /\ UNCHANGED <<part, ringVars, tcpVars, ipsetVars, logVars, hotVars, bootVars>>
    \/ /\ part = "tcp" /\ Tcp!Next
       /\ UNCHANGED <<part, ringVars, shardVars, ipsetVars, logVars, hotVars, bootVars>>
    \/ /\ part = "ipset" /\ Ipset!Next
       /\ UNCHANGED <<part, ringVars, shardVars, tcpVars, logVars, hotVars, bootVars>>
    \/ /\ part = "log" /\ Log!Next
       /\ UNCHANGED <<part, ringVars, shardVars, tcpVars, ipsetVars, hotVars, bootVars>>
    \/ /\ part = "hot" /\ Hot!Next
       /\ UNCHANGED <<part, ringVars, shardVars, tcpVars, ipsetVars, logVars, bootVars>>
    \/ /\ part = "boot" /\ Boot!Next
       /\ UNCHANGED <<part, ringVars, shardVars, tcpVars, ipsetVars, logVars, hotVars>>

\* The kernel serves a live operation, the runtime polls a shard whose ring is readable.
RingFairness ==
    WF_ringVars(part = "ring" /\ Ring!KernelStep) /\ WF_ringVars(part = "ring" /\ Ring!ShardStep)

\* Tasks that can run are polled, a resolver task ends (ExchangeTiming bounds it), the
\* network drains the socket and time passes.
ShardFairness ==
    /\ WF_shardVars(part = "shard" /\ Shard!Writable)
    /\ WF_shardVars(part = "shard" /\ Shard!Admission)
    /\ WF_shardVars(part = "shard" /\ Shard!Flusher)
    /\ WF_shardVars(part = "shard" /\ Shard!Transmit)
    /\ WF_shardVars(part = "shard" /\ Shard!Tick)
    /\ \A q \in ShardQueries : /\ WF_shardVars(part = "shard" /\ Shard!Resolved(q))
                                /\ WF_shardVars(part = "shard" /\ Shard!DirectSend(q))

\* Timers fire, resolver tasks end, and a write goes on while the socket has room; the
\* client need not send anything, nor read what was written to it.
TcpFairness ==
    /\ \A c \in {"a", "b"} : /\ WF_tcpVars(part = "tcp" /\ Tcp!TimeOut(c))
                             /\ WF_tcpVars(part = "tcp" /\ Tcp!ReadFails(c))
    /\ \A q \in {"a1", "a2", "a3", "b1"} : WF_tcpVars(part = "tcp" /\ Tcp!TaskStep(q))

\* The workers and watchers are threads or tasks that are scheduled; opening a netlink
\* socket succeeds in the end, and a bootstrap query has a read timeout of three seconds.
\* Editing files and failing watches are not fair.
WorkerFairness ==
    /\ WF_ipsetVars(part = "ipset" /\ Ipset!Worker)
    /\ WF_logVars(part = "log" /\ Log!Worker)
    /\ \A p \in LogProducers :
           WF_logVars(part = "log" /\ (Log!TakeSeq(p) \/ Log!Send(p)))
    /\ WF_hotVars(part = "hot" /\ Hot!RulesetStep)
    /\ WF_hotVars(part = "hot" /\ Hot!ConfigStep)
    /\ WF_bootVars(part = "boot" /\ Boot!Next)

Spec == /\ Init /\ [][Next]_vars
        /\ RingFairness /\ ShardFairness /\ TcpFairness /\ WorkerFairness

-----------------------------------------------------------------------------
\* Whoever asks is served: every datagram the kernel takes in reaches the shard's drain
\* however its completions fall around the clearing of the readiness; every query of a
\* UDP shard is answered or counted as dropped; on TCP a query that was read is answered
\* although the idle timeout ends its handler, and a client that stalls gives its slot
\* back where its reads have a timeout and it reads its answers (udp_uring.rs,
\* udp_send.rs, listener.rs).
ListenersServe ==
    Ring!AllTaken /\ Shard!EveryQueryEnds /\ Tcp!ReadIsAnswered /\ Tcp!SlotsComeBack

\* What is left to a thread is done: the ipset worker empties its queue whatever the
\* socket does, every event sent is logged whichever shard it is in, changes on disk are
\* applied once the files stay as they are, and resolving the upstream names returns
\* although references form a cycle (ipset/worker.rs, querylog/worker.rs, watch_files,
\* config/parse.rs).
BackgroundWorkDone ==
    /\ Ipset!QueueEmptied /\ Log!EventsLogged /\ Hot!ChangesApplied
    /\ []<>(part = "boot" => Boot!Returned)
=============================================================================
