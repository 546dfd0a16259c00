----------------------------- MODULE MCService ------------------------------
(***************************************************************************)
(* Safety of what surrounds the resolver: listeners, kernel sets, query    *)
(* log, history, statistics and reloads. The components are checked side   *)
(* by side and do not interact here: `part' picks the one that runs, and   *)
(* the variables of the others are off. The state space is the union of    *)
(* theirs.                                                                 *)
(***************************************************************************)
EXTENDS Integers, Sequences, FiniteSets

VARIABLES part,
          ringSlots, tail, ktail, khead, cq, armed, ready, pc, ringBatch, at, needsArm,
          socket, arrived, ringTaken,
          st, permits, admission, head, apc, shardReplies, staging, pending, room, now,
          deadline, shed, sendDrops,
          hpc, tcpSlots, read, task, writer, out, full, eof, reset,
          ipsetQueue, ipsetBatch, ipsetWpc, ipsetTodo, need, retained, kernel, givenUp,
          dropped, submitted, submits, failures,
          isInterval, current, asked, netlinkSeq, requests, netlinkReplies, intervalSets,
          late,
          ppc, pseq, logSeq, shard, enqueued, refused, processed, evictions, logWpc, start,
          k, progressed, logBatch, closing, logRing, tosend, cpc, chan, lagged, got,
          lastId, connects, log, seen0, sentBefore, cleared,
          plain, content, torn, pidx, gz, gzContent, gidx, comp, cidx, filesWpc, act, buf,
          idx, dirty, victims, next, cutoff, appended, faults, flushed, pruned,
          events, blocks, query, walk, cursor, shown, seen,
          statsSlots, spc, i, sum, prev, acc, ticks, statsRing, peak, published,
          statsTaken, evicted, recorded,
          diskConfig, disk, hot, lock, hotQueue, hotWpc, changed, retries, parsed, hotTodo,
          built, edits, restarts, missed

TcpQueries == [c \in {"a", "b"} |-> IF c = "a" THEN <<"a2", "a1", "a3">> ELSE <<"b1">>]
TcpTimeouts == [c \in {"a", "b"} |-> IF c = "a" THEN {"length", "body"} ELSE {}]
Config(ok, refs, startup) == [ok |-> ok, refs |-> refs, startup |-> startup]
HotConfigs == {Config(TRUE, {"b"}, 0), Config(TRUE, {"a", "b"}, 0), Config(TRUE, {"b"}, 1),
               Config(FALSE, {}, 0)}

\* Two receive buffers, and a tail that wraps around within the seven datagrams that
\* arrive.
Ring == INSTANCE UringRing WITH
    Entries <- 2, Wrap <- 4, Bursts <- 7, slots <- ringSlots, batch <- ringBatch,
    taken <- ringTaken
\* Queries with a cached answer and without one, one of a peer that cannot be
\* reached, and queues that few of them fill.
Shard == INSTANCE UdpShard WITH
    Queries <- {"c1", "m1", "m2", "bad"}, Cached <- {"c1"}, Unreachable <- {"bad"},
    MaxInflight <- 1, QueueMs <- 1, AdmissionCap <- 1, ReplyCap <- 2, PendingCap <- 1,
    BatchSize <- 2, Room <- 1, MaxDrain <- 2, MaxNow <- 2, replies <- shardReplies
\* The same with room for every reply, so that the admission task never waits for it.
InTime == INSTANCE UdpShard WITH
    Queries <- {"m1", "m2", "bad"}, Cached <- {}, Unreachable <- {"bad"}, MaxInflight <- 1,
    QueueMs <- 1, AdmissionCap <- 1, ReplyCap <- 3, PendingCap <- 1, BatchSize <- 2,
    Room <- 1, MaxDrain <- 2, MaxNow <- 3, replies <- shardReplies
\* Two clients for one slot; of the three queries of one the handler answers the
\* second, a task the first and nobody the third.  The other one has no timeouts.
Tcp == INSTANCE TcpListener WITH
    Conns <- {"a", "b"}, Queries <- TcpQueries, Cached <- {"a1"}, Ignored <- {"a3"},
    Timeouts <- TcpTimeouts, MaxConns <- 1, slots <- tcpSlots
\* An ipset and an nftset, two addresses of IPv4, one of IPv6 and a private one; a
\* queue of two.
Ipset == INSTANCE IpsetWorker WITH
    NSets <- 2, NIps <- 4, NftSets <- {2}, V6 <- {3}, Special <- {4}, AddQueueSize <- 2,
    MaxIpsPerMessage <- 2, MaxSubmits <- 4, MaxFailures <- 2, queue <- ipsetQueue,
    batch <- ipsetBatch, wpc <- ipsetWpc, todo <- ipsetTodo
\* Four nftsets of either kind, and sequence numbers that wrap around.
Netlink == INSTANCE NetlinkQuery WITH
    NSets <- 4, SeqModulus <- 5, seq <- netlinkSeq, replies <- netlinkReplies
\* Two producers with a shard each, a ring of two events that may be cleared.
Log == INSTANCE QueryLog WITH
    Producers <- {"p1", "p2"}, NShards <- 2,
    ShardOf <- [p \in {"p1", "p2"} |-> IF p = "p2" THEN 1 ELSE 0], PerShard <- 2,
    BatchSize <- 2, RingCapacity <- 2, BackfillLimit <- 2, BroadcastCap <- 1,
    MaxEvents <- 3, MaxConnects <- 0, MayClear <- TRUE, seq <- logSeq, wpc <- logWpc,
    batch <- logBatch, ring <- logRing
\* Two producers that share a shard of one.
Shared == INSTANCE QueryLog WITH
    Producers <- {"p1", "p2"}, NShards <- 1, ShardOf <- [p \in {"p1", "p2"} |-> 0],
    PerShard <- 1, BatchSize <- 2, RingCapacity <- 2, BackfillLimit <- 2,
    BroadcastCap <- 1, MaxEvents <- 3, MaxConnects <- 0, MayClear <- FALSE, seq <- logSeq,
    wpc <- logWpc, batch <- logBatch, ring <- logRing
\* One producer, and a client of the event stream that connects three times.
Stream == INSTANCE QueryLog WITH
    Producers <- {"p1"}, NShards <- 1, ShardOf <- [p \in {"p1"} |-> 0], PerShard <- 1,
    BatchSize <- 1, RingCapacity <- 2, BackfillLimit <- 2, BroadcastCap <- 1,
    MaxEvents <- 4, MaxConnects <- 3, MayClear <- FALSE, seq <- logSeq, wpc <- logWpc,
    batch <- logBatch, ring <- logRing
\* Segments of two events, of which two are kept and one may be old.
Files == INSTANCE HistoryFiles WITH
    MaxSize <- 2, MaxSegments <- 2, Compress <- TRUE, MaxEvents <- 4, MaxFiles <- 5,
    MaxFaults <- 2, MaxAged <- 1, wpc <- filesWpc
\* The same with none that is old.
Young == INSTANCE HistoryFiles WITH
    MaxSize <- 2, MaxSegments <- 2, Compress <- TRUE, MaxEvents <- 4, MaxFiles <- 4,
    MaxFaults <- 2, MaxAged <- 0, wpc <- filesWpc
\* A segment of up to three events at three times, in blocks of up to two.
Pages == INSTANCE HistoryPages WITH
    Times <- {1, 2, 3}, Stride <- 2, Limits <- {1, 2}, MaxScan <- 9, MaxEvents <- 3,
    BatchSizes <- {1, 2}, InOrder <- TRUE
\* Two threads, samples of two ticks, a ring of three samples.
Stats == INSTANCE QueryStats WITH
    NSlots <- 2, SampleTicks <- 2, RingLen <- 3, Peaks <- {1, 2}, MaxBuckets <- 5,
    MaxCount <- 2, slots <- statsSlots, ring <- statsRing, taken <- statsTaken
\* One thread and a longer ring, for the windows of the dashboard.
Buckets == INSTANCE QueryStats WITH
    NSlots <- 1, SampleTicks <- 2, RingLen <- 4, Peaks <- {}, MaxBuckets <- 5,
    MaxCount <- 4, slots <- statsSlots, ring <- statsRing, taken <- statsTaken
\* Two rulesets, configurations that use one or both, need a restart or do not parse;
\* three edits.
Hot == INSTANCE HotReload WITH
    Rulesets <- {"a", "b"}, Configs <- HotConfigs, InitialConfig <- Config(TRUE, {"a"}, 0),
    BadFiles <- TRUE, Retries <- 2, MaxEdits <- 3, MaxRestarts <- 1, queue <- hotQueue,
    wpc <- hotWpc, todo <- hotTodo

ASSUME Assumptions ==
    /\ Ring!UringAssumption /\ Shard!ShardAssumption /\ InTime!ShardAssumption
    /\ Tcp!TcpAssumption /\ Ipset!IpsetAssumption /\ Netlink!NetlinkAssumption
    /\ Log!QueryLogAssumption /\ Shared!QueryLogAssumption /\ Stream!QueryLogAssumption
    /\ Files!HistoryAssumption /\ Young!HistoryAssumption /\ Hot!ReloadAssumption

ringVars == <<ringSlots, tail, ktail, khead, cq, armed, ready, pc, ringBatch, at, needsArm,
    socket, arrived, ringTaken>>
shardVars == <<st, permits, admission, head, apc, shardReplies, staging, pending, room,
    now, deadline, shed, sendDrops>>
tcpVars == <<hpc, tcpSlots, read, task, writer, out, full, eof, reset>>
ipsetVars == <<ipsetQueue, ipsetBatch, ipsetWpc, ipsetTodo, need, retained, kernel,
    givenUp, dropped, submitted, submits, failures>>
netlinkVars == <<isInterval, current, asked, netlinkSeq, requests, netlinkReplies,
    intervalSets, late>>
logVars == <<ppc, pseq, logSeq, shard, enqueued, refused, processed, evictions, logWpc,
    start, k, progressed, logBatch, closing, logRing, tosend, cpc, chan, lagged, got,
    lastId, connects, log, seen0, sentBefore, cleared>>
filesVars == <<plain, content, torn, pidx, gz, gzContent, gidx, comp, cidx, filesWpc, act,
    buf, idx, dirty, victims, next, cutoff, appended, faults, flushed, pruned>>
pagesVars == <<events, blocks, query, walk, cursor, shown, seen>>
statsVars == <<statsSlots, spc, i, sum, prev, acc, ticks, statsRing, peak, published,
    statsTaken, evicted, recorded>>
hotVars == <<diskConfig, disk, hot, lock, hotQueue, hotWpc, changed, retries, parsed,
    hotTodo, built, edits, restarts, missed>>
vars == <<part, ringVars, shardVars, tcpVars, ipsetVars, netlinkVars, logVars, filesVars,
          pagesVars, statsVars, hotVars>>

\* A component that does not run holds nothing.
Off(v) == v = "off"
RingOff == Off(ringSlots) /\ Off(tail) /\ Off(ktail) /\ Off(khead) /\ Off(cq) /\
    Off(armed) /\ Off(ready) /\ Off(pc) /\ Off(ringBatch) /\ Off(at) /\ Off(needsArm) /\
    Off(socket) /\ Off(arrived) /\ Off(ringTaken)
ShardOff == Off(st) /\ Off(permits) /\ Off(admission) /\ Off(head) /\ Off(apc) /\
    Off(shardReplies) /\ Off(staging) /\ Off(pending) /\ Off(room) /\ Off(now) /\
    Off(deadline) /\ Off(shed) /\ Off(sendDrops)
TcpOff == Off(hpc) /\ Off(tcpSlots) /\ Off(read) /\ Off(task) /\ Off(writer) /\ Off(out) /\
    Off(full) /\ Off(eof) /\ Off(reset)
IpsetOff == Off(ipsetQueue) /\ Off(ipsetBatch) /\ Off(ipsetWpc) /\ Off(ipsetTodo) /\
    Off(need) /\ Off(retained) /\ Off(kernel) /\ Off(givenUp) /\ Off(dropped) /\
    Off(submitted) /\ Off(submits) /\ Off(failures)
NetlinkOff == Off(isInterval) /\ Off(current) /\ Off(asked) /\ Off(netlinkSeq) /\
    Off(requests) /\ Off(netlinkReplies) /\ Off(intervalSets) /\ Off(late)
LogOff == Off(ppc) /\ Off(pseq) /\ Off(logSeq) /\ Off(shard) /\ Off(enqueued) /\
    Off(refused) /\ Off(processed) /\ Off(evictions) /\ Off(logWpc) /\ Off(start) /\
    Off(k) /\ Off(progressed) /\ Off(logBatch) /\ Off(closing) /\ Off(logRing) /\
    Off(tosend) /\ Off(cpc) /\ Off(chan) /\ Off(lagged) /\ Off(got) /\ Off(lastId) /\
    Off(connects) /\ Off(log) /\ Off(seen0) /\ Off(sentBefore) /\ Off(cleared)
FilesOff == Off(plain) /\ Off(content) /\ Off(torn) /\ Off(pidx) /\ Off(gz) /\
    Off(gzContent) /\ Off(gidx) /\ Off(comp) /\ Off(cidx) /\ Off(filesWpc) /\ Off(act) /\
    Off(buf) /\ Off(idx) /\ Off(dirty) /\ Off(victims) /\ Off(next) /\ Off(cutoff) /\
    Off(appended) /\ Off(faults) /\ Off(flushed) /\ Off(pruned)
PagesOff == Off(events) /\ Off(blocks) /\ Off(query) /\ Off(walk) /\ Off(cursor) /\
    Off(shown) /\ Off(seen)
StatsOff == Off(statsSlots) /\ Off(spc) /\ Off(i) /\ Off(sum) /\ Off(prev) /\ Off(acc) /\
    Off(ticks) /\ Off(statsRing) /\ Off(peak) /\ Off(published) /\ Off(statsTaken) /\
    Off(evicted) /\ Off(recorded)
HotOff == Off(diskConfig) /\ Off(disk) /\ Off(hot) /\ Off(lock) /\ Off(hotQueue) /\
    Off(hotWpc) /\ Off(changed) /\ Off(retries) /\ Off(parsed) /\ Off(hotTodo) /\
    Off(built) /\ Off(edits) /\ Off(restarts) /\ Off(missed)

Init ==
    \/ /\ part = "ring" /\ Ring!Init /\ ShardOff /\ TcpOff /\ IpsetOff /\ NetlinkOff
       /\ LogOff /\ FilesOff /\ PagesOff /\ StatsOff /\ HotOff
    \/ /\ part = "shard" /\ Shard!Init /\ RingOff /\ TcpOff /\ IpsetOff /\ NetlinkOff
       /\ LogOff /\ FilesOff /\ PagesOff /\ StatsOff /\ HotOff
    \/ /\ part = "intime" /\ InTime!Init /\ RingOff /\ TcpOff /\ IpsetOff /\ NetlinkOff
       /\ LogOff /\ FilesOff /\ PagesOff /\ StatsOff /\ HotOff
    \/ /\ part = "tcp" /\ Tcp!Init /\ RingOff /\ ShardOff /\ IpsetOff /\ NetlinkOff
       /\ LogOff /\ FilesOff /\ PagesOff /\ StatsOff /\ HotOff
    \/ /\ part = "ipset" /\ Ipset!Init /\ RingOff /\ ShardOff /\ TcpOff /\ NetlinkOff
       /\ LogOff /\ FilesOff /\ PagesOff /\ StatsOff /\ HotOff
    \/ /\ part = "netlink" /\ Netlink!Init /\ RingOff /\ ShardOff /\ TcpOff /\ IpsetOff
       /\ LogOff /\ FilesOff /\ PagesOff /\ StatsOff /\ HotOff
    \/ /\ part = "log" /\ Log!Init /\ RingOff /\ ShardOff /\ TcpOff /\ IpsetOff
       /\ NetlinkOff /\ FilesOff /\ PagesOff /\ StatsOff /\ HotOff
    \/ /\ part = "shared" /\ Shared!Init /\ RingOff /\ ShardOff /\ TcpOff /\ IpsetOff
       /\ NetlinkOff /\ FilesOff /\ PagesOff /\ StatsOff /\ HotOff
    \/ /\ part = "stream" /\ Stream!Init /\ RingOff /\ ShardOff /\ TcpOff /\ IpsetOff
       /\ NetlinkOff /\ FilesOff /\ PagesOff /\ StatsOff /\ HotOff
    \/ /\ part = "files" /\ Files!Init /\ RingOff /\ ShardOff /\ TcpOff /\ IpsetOff
       /\ NetlinkOff /\ LogOff /\ PagesOff /\ StatsOff /\ HotOff
    \/ /\ part = "young" /\ Young!Init /\ RingOff /\ ShardOff /\ TcpOff /\ IpsetOff
       /\ NetlinkOff /\ LogOff /\ PagesOff /\ StatsOff /\ HotOff
    \/ /\ part = "pages" /\ Pages!Init /\ RingOff /\ ShardOff /\ TcpOff /\ IpsetOff
       /\ NetlinkOff /\ LogOff /\ FilesOff /\ StatsOff /\ HotOff
    \/ /\ part = "stats" /\ Stats!Init /\ RingOff /\ ShardOff /\ TcpOff /\ IpsetOff
       /\ NetlinkOff /\ LogOff /\ FilesOff /\ PagesOff /\ HotOff
    \/ /\ part = "buckets" /\ Buckets!Init /\ RingOff /\ ShardOff /\ TcpOff /\ IpsetOff
       /\ NetlinkOff /\ LogOff /\ FilesOff /\ PagesOff /\ HotOff
    \/ /\ part = "hot" /\ Hot!Init /\ RingOff /\ ShardOff /\ TcpOff /\ IpsetOff
       /\ NetlinkOff /\ LogOff /\ FilesOff /\ PagesOff /\ StatsOff

Next ==
    \/ /\ part = "ring" /\ Ring!Next
       /\ UNCHANGED <<part, shardVars, tcpVars, ipsetVars, netlinkVars, logVars, filesVars,
                      pagesVars, statsVars, hotVars>>
    \/ /\ part = "shard" /\ Shard!Next
       /\ UNCHANGED <<part, ringVars, tcpVars, ipsetVars, netlinkVars, logVars, filesVars,
                      pagesVars, statsVars, hotVars>>
    \/ /\ part = "intime" /\ InTime!Next
       /\ UNCHANGED <<part, ringVars, tcpVars, ipsetVars, netlinkVars, logVars, filesVars,
                      pagesVars, statsVars, hotVars>>
    \/ /\ part = "tcp" /\ Tcp!Next
       /\ UNCHANGED <<part, ringVars, shardVars, ipsetVars, netlinkVars, logVars,
                      filesVars, pagesVars, statsVars, hotVars>>
    \/ /\ part = "ipset" /\ Ipset!Next
       /\ UNCHANGED <<part, ringVars, shardVars, tcpVars, netlinkVars, logVars, filesVars,
                      pagesVars, statsVars, hotVars>>
    \/ /\ part = "netlink" /\ Netlink!Next
       /\ UNCHANGED <<part, ringVars, shardVars, tcpVars, ipsetVars, logVars, filesVars,
                      pagesVars, statsVars, hotVars>>
    \/ /\ part = "log" /\ Log!Next
       /\ UNCHANGED <<part, ringVars, shardVars, tcpVars, ipsetVars, netlinkVars,
                      filesVars, pagesVars, statsVars, hotVars>>
    \/ /\ part = "shared" /\ Shared!Next
       /\ UNCHANGED <<part, ringVars, shardVars, tcpVars, ipsetVars, netlinkVars,
                      filesVars, pagesVars, statsVars, hotVars>>
    \/ /\ part = "stream" /\ Stream!Next
       /\ UNCHANGED <<part, ringVars, shardVars, tcpVars, ipsetVars, netlinkVars,
                      filesVars, pagesVars, statsVars, hotVars>>
    \/ /\ part = "files" /\ Files!Next
       /\ UNCHANGED <<part, ringVars, shardVars, tcpVars, ipsetVars, netlinkVars, logVars,
                      pagesVars, statsVars, hotVars>>
    \/ /\ part = "young" /\ Young!Next
       /\ UNCHANGED <<part, ringVars, shardVars, tcpVars, ipsetVars, netlinkVars, logVars,
                      pagesVars, statsVars, hotVars>>
    \/ /\ part = "pages" /\ Pages!Next
       /\ UNCHANGED <<part, ringVars, shardVars, tcpVars, ipsetVars, netlinkVars, logVars,
                      filesVars, statsVars, hotVars>>
    \/ /\ part = "stats" /\ Stats!Next
       /\ UNCHANGED <<part, ringVars, shardVars, tcpVars, ipsetVars, netlinkVars, logVars,
                      filesVars, pagesVars, hotVars>>
    \/ /\ part = "buckets" /\ Buckets!Next
       /\ UNCHANGED <<part, ringVars, shardVars, tcpVars, ipsetVars, netlinkVars, logVars,
                      filesVars, pagesVars, hotVars>>
    \/ /\ part = "hot" /\ Hot!Next
       /\ UNCHANGED <<part, ringVars, shardVars, tcpVars, ipsetVars, netlinkVars, logVars,
                      filesVars, pagesVars, statsVars>>

Spec == Init /\ [][Next]_vars

-----------------------------------------------------------------------------
\* Every receive buffer is in the ring or in one completion still to be drained; the
\* kernel only takes buffers that were put there, the completion queue never
\* overflows, and there is never a second multishot operation on the socket (BufRing,
\* drain_recv, arm_recv).
BuffersOwned ==
    part = "ring" => /\ Ring!TypeOK /\ Ring!OneOwner /\ Ring!PublishedIsPut
                     /\ Ring!CqFits /\ Ring!ArmedOnce

\* Every query and reply of a UDP shard is in one place, permits are conserved, lost
\* replies are counted once, and with room for the replies a query waits at most max-
\* inflight-queue-ms; the answers on a TCP connection are written whole, and no slot
\* is lost (udp_uring.rs, udp_send.rs, listener.rs).
RepliesAccounted ==
    /\ part = "shard" => /\ Shard!TypeOK /\ Shard!OnePlace /\ Shard!PermitsConserved
                         /\ Shard!DropsCounted
    /\ part = "intime" => InTime!WaitsAtMostQueueMs
    /\ part = "tcp" => Tcp!TypeOK /\ Tcp!AnswersWhole /\ Tcp!HandlersLimited

\* An address that was submitted is in the kernel's set, on its way there, counted as
\* dropped, or in a message the socket cut short, which is only logged; messages cover
\* their batch and fit, the backlog is bounded (worker.rs), and a late answer about one
\* set is never taken for another's (client.rs).
SetAddsAccounted ==
    /\ part = "ipset" => /\ Ipset!TypeOK /\ Ipset!Accounted /\ Ipset!MessagesCover
                         /\ Ipset!BacklogBounded
    /\ part = "netlink" => Netlink!TypeOK /\ Netlink!FlagIsItsSets

\* An event that was sent is in its shard, in the worker's batch or in the log, once,
\* and is logged before shutdown ends; the ring holds the latest, no shard overflows,
\* a client that reconnects misses none of the ring (worker.rs, api.rs); samples,
\* peaks and buckets neither lose nor repeat a query (ring.rs).
EventsCountedOnce ==
    /\ part = "log" => /\ Log!TypeOK /\ Log!EventsAccounted /\ Log!RingIsLatest
                       /\ Log!DrainedAtShutdown
    /\ part = "shared" => Shared!ChannelBounded
    /\ part = "stream" => Stream!PicksUp
    /\ part = "stats" => Stats!SamplesExact /\ Stats!PeakExact
    /\ part = "buckets" => Buckets!BucketsExact

\* Every event that was flushed and not pruned is in exactly one listed file, through
\* rotation, compression, failed writes and crashes between any two steps; an index
\* that loads describes its file, the active segment is not pruned for its number,
\* and following the cursor shows every matching event once and in order
\* (querylog/worker.rs).
HistoryListedOnce ==
    /\ part = "files" => Files!TypeOK /\ Files!ListedOnce /\ Files!IndexExact
    /\ part = "young" => Young!ActiveKept
    /\ part = "pages" => Pages!WalkComplete

\* The rulesets loaded are those the published configuration names, a change that
\* needs a restart is never applied in part, and when both watchers wait with nothing
\* pending, what is published is what is on disk (reload_ruleset, reload_config,
\* watch_files).
HotStateCurrent ==
    part = "hot" => /\ Hot!TypeOK /\ Hot!HotSelfConsistent /\ Hot!StartupFieldsKept
                    /\ Hot!QuietMeansCurrent
=============================================================================
