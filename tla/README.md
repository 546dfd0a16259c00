# A TLA+ verification of PathDNS

PathDNS is a policy-based DNS forwarder: it answers from a cache where it can,
and otherwise routes each query by name and rule set to one of several
upstreams, filters the response, caches it and answers. Configuration and rule
sets are reloaded while queries are in flight. This directory models it with
TLA+, checks the models with TLC on small instances and proves the central
invariants with TLAPS for all instances.

Source paths below are relative to `src/src/`.

## 1. The system

A query passes through these parts:

    socket -> fast path (cache probe) -> admission (max-inflight permit)
           -> hot-state snapshot -> route -> singleflight
                 leader:   exchange (pool -> node -> transport), filters,
                           generation check, cache insert, publish
                 follower: wait for the leader, at most a deadline
           -> reply queue -> socket

Next to it run the file watchers that reload rule sets and configuration, the
periodic cache save, the ipset worker, the query log worker, and in every
upstream its receive, send and refresh tasks.

| Part | Source | Module | What makes it hard |
|---|---|---|---|
| Query pipeline, singleflight, caches, hot state as a query sees them | `resolver.rs`, `singleflight.rs`, `cache.rs`, `verdict_cache.rs`, `server.rs` | `QueryPipeline` | cancellation at any await; check-then-act against reloads; a leader that vanishes; colliding keys |
| Leader's time against follower's deadline | `resolver.rs`, `upstream/` | `ExchangeTiming` | several timeouts in a row, hedges and fallbacks |
| Final servers, filters' effects, credit and TTL policy | `resolver.rs` | `FinalAnswer` | two answers in either order, forwards, verdicts |
| Inflight registry | `upstream/inflight.rs` | `InflightRegistry`, abstractly `Correlator` | ID reuse, late and duplicated responses, guards that outlive entries |
| UDP transport | `upstream/udp.rs` | `UdpUpstream` | lost wakeups, refresh of some sockets, shutdown, full send queues |
| TCP and TLS transport | `upstream/tcp_mux.rs` | `TcpMux` | a lock held while connecting, two teardowns, two tasks per connection |
| DoH, DoQ, HTTP/3 | `upstream/doh.rs`, `upstream/quic.rs`, `upstream/mod.rs` | `ConnSlot` | a lock held across awaits, eviction of a connection that was replaced |
| Pool | `upstream/mod.rs`, `stats.rs` | `UpstreamPool`, `NodeHealth`, `NodeSelection` | hedge budget, counters without a lock, stamps stored late |
| UDP listener | `udp_uring.rs`, `udp_send.rs` | `UringRing`, `UdpShard` | memory shared with the kernel, full queues, partial sends |
| TCP listener | `listener.rs` | `TcpListener` | many writers on one connection, stalled clients |
| Watchers and reloads | `server.rs` | `HotReload`, `ConfigReload` | two threads, debouncing, retries, failed watches, changes that need a restart |
| Bootstrap | `config/parse.rs`, `config/upstream_url.rs` | `Bootstrap` | references in any order and in cycles, lost queries |
| Routing and filters | `route_index.rs`, `router.rs`, `ruleset.rs`, `domain.rs`, `response_filter.rs` | `Routing` | memo and cache against reloads |
| Lifetimes and subnets of cached answers | `cache.rs`, `dns/ttl.rs`, `resolver.rs` | `CacheTtl`, `EcsCache` | two clocks, restarts, reboots; three ECS modes |
| Saving and loading | `persist.rs`, `lib.rs`, `config/fingerprint.rs` | `Persistence`, abstractly `AtomicFile` | crash between any two steps, two savers |
| Kernel sets | `ipset/` | `IpsetWorker`, `NetlinkQuery`, `IpsetElements` | failing sockets, late answers, wrapping addresses |
| Query log | `querylog/` | `QueryLog`, `HistoryFiles`, `HistoryPages`, `QueryStats` | shards, full channels, reconnects, crashes while rotating |
| Sets of addresses and domains | `iprange.rs`, `mrs.rs` | `IpRangeSet`, `MrsTrie` | bounds, succinct tries |
| Packets | `dns/` | `Edns`, `QName` | several readers of the same bytes |

`PROJECT.json` gives for every definition the lines it models, and lists the
hazards with the line at which each one bites and the property that covers it.

## 2. The modules

One action is what the code does between two points where another task, thread
or machine can intervene: an await, a lock, an atomic, a system call, a cache
call. Data are reduced to what the properties tell apart. The comment at the
head of each module says what its values stand for.

The `MC` modules instantiate the components with the constants of the runs,
assume what a component assumes of its constants, and state fairness (only
`QueryPipeline` states its own, `FairSpec`). `Persistence` has nothing to add to
and is run as it is. The `Proofs` modules, and the proofs at the end of
`HotReload` and of `MCUpstreams`, are section 5.

### QueryPipeline

Queries and reloaders share the hot state, the two caches, the singleflight
table and the permits.

| Variable | Code |
|---|---|
| `pc` | where the query's task is |
| `snap` | `hot.generation` of the snapshot it routes with |
| `basis` | the generation whose rule set decided between the two final servers (its own, or that of the verdict it reused) |
| `occupied`, `waiters`, `chan` | the singleflight table: keys, senders under each key, the followers' oneshots |
| `permits` | `AppState::limit` |
| `cache`, `verdicts` | the two caches, as sets of entries; `late` records whether the generation had moved on when the entry was inserted |
| `hot`, `rpc`, `rgen` | the current generation, where a reloader is, the generation it will publish |
| `stores` | history: how many hot states reloads have published |

| Actions | Code |
|---|---|
| `RejectPacket`, `CacheHit`, `CacheMiss`, `FindExpired`, `RemoveExpired` | `try_fast_path_into`, `DnsCache::lookup_into_keyed`; the removal is by key and a call of its own |
| `Admit`, `Overload` | `handle_packet_slow_with_info`; waiting in queue mode is staying where one is |
| `Snapshot`, `RegisterLeader`, `RegisterFollower` | `resolve_query`, `singleflight::register` |
| `Exchange`, `ReuseVerdict`, `TestBoth`, `JudgePrimary`, `AddVerdict`, `AwaitSecondary` | `resolve_with_filters`, `do_upstream_exchange`, `resolve_none_rule_with_cidr` |
| `CheckGeneration`, `CacheAdd`, `Publish` | the second half of `exchange_with_dedupe` |
| `Abandon`, `DropLeader` | the future is dropped at an await, or no SERVFAIL can be built; `Drop for SingleflightLeader` |
| `Receive`, `Deadline` | the follower |
| `BeginReload`, `AbortReload`, `StoreHot`, `InvalidateCache`, `InvalidateVerdicts` | both reload functions, from taking `reload_lock` to releasing it |

A question stands for (qname, qtype, EDNS variant) and has a section, which is
what the bytes of a packet show of it; keys, names, sections and routes of
questions are constant functions, and `KeyOf` need not be injective. The cache
compares the whole question (`DnsCache::lookup_into_keyed` compares the stored
variant), a follower the section alone (`resolver.rs:670`), so only the key tells
a follower that its leader's answer is for its own variant. A route is
one of three classes, since only rules have filters and `skip-cache`, and only
the CIDR test uses verdicts. An exchange is one step with any outcome. The mix
of key and generation into the singleflight key is taken to be injective. A
poisoned mutex (a panic, which aborts release builds) is left out.

### InflightRegistry and Correlator

Exchanges register under an ID, send, wait, and drop their guard; the network
may answer any query that was ever sent, at any time and any number of times,
or never. `Register`, `CapReached` and `TableFull` are
`InflightRegistry::register`; `Deliver` is `complete`, which holds the shard
lock throughout; `ClearShard` is one turn of the loop of `clear`; `DropGuard`
is the guard's `Drop`. `Receive` and `FallbackDone` are the UDP exchange that
keeps its guard during the TCP fallback, which is why the guard compares
tokens and not IDs. `Correlator` is what the registry promises and has neither
IDs, tokens nor shards: an exchange is open, is answered with an answer to its
question or given up, and holds its place under the cap until it ends.
`Correlates` is that specification under the refinement mapping.

### Persistence and AtomicFile

The save task, the save at shutdown and the load at startup, with
`atomic_write` step by step (write, sync, rename, sync of the directory), a kill
of the process after any of them and a loss of power, which loses what was not
synced. The configuration and the rulesets are edited and reloaded at any time,
and queries insert what they found after their generation check, perhaps after
the reload has stored and cleared.
An entry is represented by the versions it was produced under, a fingerprint by
the versions it was computed from. `AtomicFile` is the promise: one whole version under the
name, replaced in one step, and after a loss of power the version that was
flushed or a later one. `FilesAtomic` says that both cache files implement it.

### Upstreams

`UdpUpstream`, `TcpMux` and `ConnSlot` model the transports with every await,
lock and notification as a step; a response reaches its query if somebody reads
what the query was written to, and matching is left to the registry.
`UpstreamPool` is an exchange with its hedge and the counters of `stats.rs`,
`NodeHealth` the separate loads and stores of the health averages and of the
AIMD window (an estimate is never lost again nor out of range, `EstimateKept`), `NodeSelection` the choice of a node with the stamps that probes
rest on. `ExchangeTiming` runs the leader's timers in discrete time against the
follower's deadline. The send into a full UDP queue is awaited before the timeout
begins (`udp.rs:126`), so the timer of a held packet moves on with the clock, and
`LeaderBounded` bounds the leader by its phases and the time its packets were
held. `FinalAnswer` follows one query from the two final servers
to the entry that is cached.

### Listeners, kernel sets, log, reloads

`UringRing` has the buffer ring with its wrapping tail, the multishot
operation the kernel may end at any completion, and the readiness flag; a
re-arming that fails ends the shard.
`UdpShard` has the admission queue with its deadlines, the reply queue, the
flusher and the direct sends. `TcpListener` has the handler and the tasks that
share the write half, clients that leave their answers unread, close their side
or break the connection, and connections with and without timeouts (0 in the
configuration means none). `IpsetWorker` keeps what a failing socket did not take;
`NetlinkQuery` asks about each set with sequence numbers that wrap around.
`QueryLog` has the sharded channels, the worker that polls them in rotation,
the ring and the event stream with its backfill; `HistoryFiles` the segments,
sidecars, compression and pruning with crashes between any two steps;
`HistoryPages` the cursor; `QueryStats` the sharded counters and the sampler.
`HotReload` has both watchers from the inotify event to the stored state.

### What the resolver works on

`ConfigReload` has the checks of a configuration, the positions a generation
is built from, and which changes a reload applies. `Bootstrap` is the
resolution of the upstreams' names in the order of their references.
`Routing` compares the compiled index, its memo and its cache with a scan of
the rules. `CacheTtl`, `EcsCache`, `Edns` and `QName` are an answer's lifetime,
its sharing between subnets, the EDNS record and the question. In `QName` the
routed text is built as the code builds it, label by label with a dot between
two, in lower case, and with the replacement character for what is not UTF-8.
`IpRangeSet`, `IpsetElements` and `MrsTrie` are algorithms that are compared
with their meaning over all small inputs.

## 3. Runs

| Run | Instance | States | About |
|---|---|---|---|
| `pipeline_safety` | 3 queries that collide on the 64-bit key, two of one section in different variants; 2 permits; 2 reloaders and a reload that turns a CIDR-tested route into a rule | 515,097 | eight invariants of `QueryPipeline` |
| `pipeline_liveness` | 3 queries on one key, 3 permits, 1 reload | 202,364 | `EveryQueryEnds` |
| `late_write`, `mixed_decision` | 1 or 2 queries, 1 reload | | violated, see section 4 |
| `inflight_capped` | 4 exchanges, 2 questions, 2 IDs in different shards, cap 2 | 914,381 | correlation, no eviction, the exact cap |
| `inflight_unlimited` | 3 exchanges, 2 IDs, no cap, so that the table fills | 128,457 | no leaked entry; implements `Correlator` |
| `persistence` | 2 runs of the process, 2 edits or saves of both caches in any order, 1 query at a time between its generation check and its insert | 1,011,342 | durability, fingerprints, an orderly stop; implements `AtomicFile` |
| `upstreams` | seven components side by side | 1,396,186 | safety of transports and pool |
| `upstream_progress` | three components side by side | 73,000 | exchanges and replaced tasks end |
| `service` | ten components side by side, some in several instances | 1,370,002 | safety of listeners, kernel sets, log, reloads |
| `service_progress` | seven components side by side | 297,091 | their liveness |
| `data` | ten components side by side, some in several instances | 671,739 | configurations, routing, cache, sets, packets |

**Side by side** means what it says: `MCUpstreams`, `MCUpstreamProgress`,
`MCService`, `MCServiceProgress` and `MCData` put several components in one
specification, of which `part` picks one in the initial state; that one takes
its steps and the others do not move. The state space is the sum of theirs and
not their product. Such a run shows what the separate runs of its components
would show, and nothing of how they interact. A property of these runs is a
conjunction over the components, each conjunct stated in the component's own
module and guarded by `part`. Where components do interact, one module has
both: queries, caches and reloads in `QueryPipeline`, exchange and registry in
`InflightRegistry`, savers and reloads in `Persistence`, watchers and reload
lock in `HotReload`, pool, guards and counters in `UpstreamPool`.

| Property | Components | What it says |
|---|---|---|
| `ConnectionsSound` | `TcpMux`, `ConnSlot` | a query on a withdrawn connection fails at once; one open connection per slot; the single retry uses another connection |
| `OnlyOwnTeardown` | `TcpMux`, `ConnSlot` | a step takes out a connection only if it is the one found broken |
| `CountsExact` | `ConnSlot`, `UpstreamPool`, `NodeHealth` | permits, hedge budget, inflight and success counters under every order of ends and drops; the window in its bounds |
| `NodesReconsidered` | `NodeHealth`, `NodeSelection` | no node is forgotten, no estimate is lost or out of range, a run of failures triggers a refresh |
| `WaitsBounded` | `ExchangeTiming` | the leader ends within its phases and the time full queues hold its packets; the follower's deadline covers a plain leader |
| `BestAnswerWins` | `UpstreamPool`, `FinalAnswer` | a success or clean answer of either wins; the address test, the credit and the TTL policy follow the server that answered |
| `UdpSlotsServed`, `ExchangesEnd`, `RetiredTasksEnd` | `UdpUpstream`, `TcpMux`, `ConnSlot` | the socket in a slot is read and written; every exchange returns; replaced loops, flushers and writers end |
| `BuffersOwned` | `UringRing` | every buffer has one owner across the wrap of the tail |
| `RepliesAccounted` | `UdpShard`, `TcpListener` | every query and reply is in one place; answers on TCP are whole; permits and slots are conserved |
| `SetAddsAccounted` | `IpsetWorker`, `NetlinkQuery` | an address is in the set, on its way, counted or in a message cut short; a late answer is not taken for another's |
| `EventsCountedOnce` | `QueryLog`, `QueryStats` | every event is logged once and before shutdown ends; samples neither lose nor repeat a query |
| `HistoryListedOnce` | `HistoryFiles`, `HistoryPages` | every event flushed is in one listed file; the cursor shows each once |
| `HotStateCurrent` | `HotReload` | rulesets are those of the configuration; at rest what is published is what is on disk |
| `ListenersServe`, `BackgroundWorkDone` | see `MCServiceProgress` | liveness of listeners and of the workers, watchers and bootstrap |
| `ConfigurationWhole` | `ConfigReload`, `Bootstrap` | no dangling reference or position, applied whole or not at all; names resolved in dependency order |
| `RoutingExact` | `Routing` | index, memo and cache agree with a scan of the rules |
| `CacheHonest` | `CacheTtl`, `EcsCache` | nothing is served past its TTL or to another subnet |
| `SetsExact` | `IpsetElements`, `IpRangeSet`, `MrsTrie` | elements, ranges and tries hold what was given (with a mask of 0, address zero alone) |
| `PacketsReadAlike` | `Edns`, `QName` | the readers of a packet agree; route and cache key tell the same names apart, but for a dot inside a label and bytes that are not UTF-8 |

Every conjunct was tried against a mutated model and fails on it;
`PROJECT.json` keeps one such mutant for each property.

Deadlock is checked in every run: a model may stop only where the code may,
and says so with an explicit idle step.

### Bounds

They are chosen so that the cases listed as hazards happen. Two queries make a
leader and a follower, the third a new leader of the same or of a colliding key
while the old one is between publishing and its drop; with two permits the
third is refused or waits. One reload yields both generations a check can
confuse. Four exchanges on two IDs give every ID a former owner whose guard or
response is still about. Queues hold one or two, so that they fill; rings and
sequence numbers wrap around within a run; two connections, one after the
other, give a stale teardown something to hit; segments, samples and events
outnumber what is kept. The names `MaxX` are bounds of the model that the code
does not have, and the guards name them.

Some instances are narrower than their components allow, because in the wider
ones the code does not do what is said of it (section 4), and the property would
fail there:

- `Persistence`: `NeverMisapplied` and `OrderlyStopKeeps` except a save or a
  start that met a change being applied (the history variable `overlap`): a save
  whose fingerprint was taken, or entries collected, between an edit and the end
  of its reload; a start during which a ruleset file is edited between its
  fingerprint and its loading. `NeverMisapplied` also excepts an entry inserted
  after the reload it missed had cleared (`late`), which is what `late_write`
  shows of the insert; such an entry is saved and loaded like any other.
- `EcsCache`: no filter forwards to another server (`Forwarding` is FALSE).
- `CacheTtl`: a reboot is checked for `NeverServedStale`, and only the runs
  without one for `CountsDownFromReceipt`.
- `QueryLog`: one producer, and a ring no longer than the backfill, where the
  event stream is checked (`PicksUp`).
- `HistoryPages`: events are in order of time (`InOrder`) and the scan limit is
  not reached.
- `HistoryFiles`: `ActiveKept` only where no segment is old (`Young`).
- `UdpShard`: `WaitsAtMostQueueMs` only with room for every reply (`InTime`).
- `HotReload`: in `service_progress` no file is unreadable (`BadFiles` is
  FALSE), since after its last retry a watcher waits for the next event.
- `Bootstrap`: a URL has at most one `bootstrap=`.
- `Edns`: `FoundExact` is for queries that are whole.

### Fairness

`pipeline_liveness`: weak fairness of each query's own steps, because the
runtime polls woken tasks and every exchange ends by its timeouts, and of the
rest of a reload that has begun. None for arrivals, cancellation, new reloads
or the follower's deadline: `EveryQueryEnds` holds without anybody's deadline.

`upstream_progress`: tasks run, writes complete, timers fire. No peer need ever
answer and no connection need ever close. Strong fairness only for waiting on a
bounded channel and on a tokio mutex, which serve waiters in order.

`service_progress`: the kernel serves a live operation, tasks are polled, a
resolver task ends (`WaitsBounded`), a socket drains, time passes, threads are
scheduled, a netlink socket can be opened in the end. A TCP client need not
send anything nor read its answers: `ReadIsAnswered` and `SlotsComeBack` except a
client that stops reading for good, since the code sets no bound on a write, and
`SlotsComeBack` also a read without a timeout. That a resolver task ends rests
on `WaitsBounded` and, over UDP, on the flusher making room in the end. A shard
whose receive cannot be armed again returns, and `AllTaken` excepts it. Editing files and failing watches are not fair.

## 4. Where comments and code part

Nearly everything the comments, the documentation and the structure of the code
promise holds. The runs `late_write` and `mixed_decision` show two promises
about caches across a reload that do not:

- `late_write`: `resolver.rs:738` compares generations and `resolver.rs:806`
  inserts. A reload that stores and clears in between leaves the old response
  in the fresh cache until its TTL ends. The comment at `resolver.rs:576` says
  this cannot happen.
- `mixed_decision`: `server.rs:834` argues that a query that reads the new
  state before the clear has its own write cleared. Its write may come after
  the clear, and if it took a verdict from the verdict cache, which is cleared
  last, the answer it caches was chosen by the old rule set.

`StaleEntriesAreLate` and `StaleVerdictsAreLate` say what does hold: an entry
of an older generation is there either because the clear has not run yet, or
because its insert fell into that window.

In the other components the following was met in the same way: TLC refuted the
property that a comment suggests. The models have these steps; the refuted
properties are not kept here, and the ones that are say what holds in spite of
them or in their absence (see Bounds).

- `upstream/udp.rs:228`: a refresh that is under way when `shutdown` runs
  spawns a receive loop nothing retires (comment at 218).
- `upstream/tcp_mux.rs:363`: `pending.clear()` after the lock is released can
  fail queries of the next connection (340). Line 455: a reader not yet in its
  idle select misses the notification (440). `upstream/mod.rs:752`: reader and
  writer of a dropped node hold the sender that keeps them waiting (737).
- `upstream/mod.rs:304`: a success computed from an older load can undo the
  inflation of a failure (317). Line 531: a delayed query finds every stamp
  newer than its own, and `wrapping_sub` makes it a probe (523).
- `resolver.rs:630`: the follower's deadline counts one timeout per exchange,
  while transports grant several in a row (616).
- `server.rs:1054`: after the last retry a change waits for the next event of
  the same watcher (1030).
- `resolver.rs:586`: the key is chosen before a filter may forward the query to
  a server with another ECS mode (`router.rs:89`). `cache.rs:366`: the stripped
  key is probed for every query that carries ECS (5, 681).
- `cache.rs:648`: after a reboot the records' own TTLs start again although the
  entry's does not (643). `dns/ttl.rs:152`: the cap on negative answers is not
  applied to an NXDOMAIN with a CNAME (124).
- `config/fingerprint.rs:147`: the fingerprint is taken from the files on disk
  and not from those loaded, so a save between an edit and its reload mislabels
  entries (8). `lib.rs:205`: it is taken before the save has the lock; a reload in
  between mislabels entries too, and a save that waited for the one at shutdown
  (`lib.rs:256`) replaces its files with such ones.
  `server.rs:256`: at a start the fingerprint is taken before the rulesets are
  loaded (`server.rs:290`), and an edit in between mislabels them as well.
  `overlap` is exactly this.
- `udp_uring.rs:692`: while the admission task sends a SERVFAIL itself, the
  queries behind it wait past their deadline (README.md:424).
  `udp_send.rs:183`: an error for one peer drops the rest of a staged batch
  (`udp_uring.rs:67`). `listener.rs:200`: tasks keep the socket after its slot
  is free (159). `upstream/udp.rs:126`: the send into a full queue is outside the
  timeout that the leader's bound counts (`resolver.rs:616`).
- `ipset/worker.rs:59`: what was kept is retried only when a new job arrives
  (78). `ipset/codec.rs:297`: a mask of 0, which
  `ipset/config.rs:94` accepts, shifts by the whole width (289); in a release
  build the prefix shrinks to address zero.
- `querylog/api.rs:559`: the backfill is by number and limited, while the ring
  is in order of arrival (513). `querylog/worker.rs:720`: an active segment can
  be pruned by the age in its name (`mod.rs:352`); 642: an empty segment is not
  reused (453); 514: a compression can outlive the pruning of its source
  (`mod.rs:346`); 84: a block's range is its first and last event's time (854);
  937: the scan limit ends a walk without a cursor (811).
- `config/parse.rs:1095`: of two `bootstrap=` parameters the order follows the
  first and the lookup the last (`upstream_url.rs:11`).
- `dns/ecs.rs:124`: an OPT record whose last option is cut is not stripped
  (105). `dns/mod.rs:205`: the OPT record is looked for without skipping answer
  and authority records (190). `cache.rs:157`: unknown options are part of the
  key (45).

The other way round, `mrs.rs:55` guards against a bitmap that sends the walk
round in circles; `SetsExact` shows that the walk enters no node twice for any
bitmap of the instance.

## 5. Proofs

All theorems are for arbitrary constants under the named assumptions of the
modules (finite sets of queries, exchanges and nodes, functions with their
types, natural bounds, timeouts above zero).

`QueryPipelineProofs` proves typing and the invariants of `pipeline_safety`.
The inductive invariant `IInv` has five parts, each preserved given the types
and itself, so each has its own lemma for the queries' steps:

- `TypeOK`;
- `SfInv`: an entry exists exactly while one leader owns it; senders are only
  under occupied keys, each under the key of its follower; an open channel is
  listed; what is in a channel has the generation of the key it came through.
  `NoOrphanedFollower` is not inductive: it needs to know that a waiter is
  listed under a key that is occupied, and that an occupied key has a leader;
- `ReplyInv`: replies have the section and the key of the question they answer, and
  carry the follower's generation;
- `PermitsConserved`, by counting the queries that hold a permit;
- `ReloadInv`: at most one reloader is out of `idle`, and the one that builds
  holds the successor of the current generation; with it the uniqueness of
  generations and the two statements about late entries.

`InflightRegistryProofs` proves typing, the four invariants of the registry and
that it implements `Correlator` (theorem `Implements`). The strengthening says
that tokens of live guards are distinct and below `nextToken`, that entries
have distinct IDs and belong to the guard whose token they carry, and that an
open channel has its entry. Tokens are what separates two owners of one ID. For
the refinement every action is shown to be one step of `Correlator` or to leave
its variables alone.

`PersistenceProofs` proves that no crash leaves a file that was not written to
its end (`Wholeness`), that two savers never write the same temporary file
(`WritersApart`), that a save that reported success survives a loss of power
(`Durability`), and that both files implement `AtomicFile` (`Atomicity`). The
inductive invariant is the conjunction of `Typed`; `LockHeld` (who is inside
`atomic_write` holds the save lock); `OwnTmp` (the temporary file is that of
the holder and newer than the file it will replace); `AllSynced` (what is
renamed has been synced, and so had what is visible); and `Ages` (the numbers of
the versions reported, flushed and visible are in this order). No part is
inductive alone: that a rename keeps the file whole and the numbers in order
rests on the lock, which keeps the other writer off the temporary file.
A second invariant on top of it, `EInv`, is about what the files hold. While no
save has met a change being applied, every file, every temporary file and every
fingerprint in a writer's hands is of one version no newer than the one in use
(`Unmixed`), but for entries that came in late; and what the save at shutdown set out to keep is in memory, in a
file on its way, or under its name (`KeptSafe`). `NoEntryMisapplied` and
`NothingKeptIsLost` follow.

The upstream side is proved component by component, in three modules that
declare the variables of two components each, and put together in
`MCUpstreams`, which extends them. A component `X` has its invariant `XInv`, the
lemmas that it holds initially (`XInitInv`) and is kept by every step
(`XStep`), and the theorem `XSafe` that it implies what the component promises.
In `MCUpstreams` a step of one component leaves the variables of the others
alone, so `UpstreamsInv` is inductive, and the theorems `ConnectionsAreSound`,
`CountsAreExact`, `WaitsAreBounded`, `BestAnswersWin` and `TeardownsAreOwn` state
the properties of the run `upstreams` for all sizes. What each invariant adds:

- `TcpInv` (`TransportProofs`): one exchange at most connects, with no sender in
  place meanwhile; the sender in place is that of the latest generation, and no
  later connection has tasks; whoever sends or waits was given a connection; a
  queue grows only below its capacity. `WithdrawnQueriesFail` is inductive given
  these.
- `SlotInv` (`TransportProofs`): the mutex has one holder, who connects or checks
  health; connections are opened in order and only the one in the slot may be
  up; whoever connects has found the slot empty or its connection closed; the
  connection an exchange found dead is closed and out of the slot once it has
  looked; permits and running exchanges add up, by counting.
- `PoolInv` (`ExchangeProofs`): where a query is determines whom it asked and
  what has failed; the budget counts the queries that hold a claim, a node's
  inflight the queries that run on it. Each is a cardinality that one query's
  step changes by one.
- `HealthInv` and `HealthLearnt` (`ExchangeProofs`): an exchange between its load of the window and
  its store holds a value in the bounds, below the limit if it will widen it,
  however stale; a failure count at the threshold after a timeout has triggered
  the refresh or has its check ahead of it; an exchange that has loaded an estimate
  holds one in range, so that its store, however late, brings none out of range.
- `TimingInv` (`AnswerProofs`): a running leg is not overdue, and is due at the
  latest after one timeout for each of its phases, counted from the latest start
  of its exchange, and of the primary for a hedge; a leader whose exchanges wait
  for one answer each has used one timeout for each and one hedge delay; ticks
  during which a packet was held move its timer and are counted in `waited`; a
  follower's deadline is no earlier than its wait.
- `FinalInv` (`AnswerProofs`): who was asked and what is known of the answers at
  each step of the race and of the address test, and that the response is from
  the server whose TTL policy applies.

`HealthSafe` states of the specification of `NodeHealth` what it contributes to
`CountsExact` and `NodesReconsidered`, under `HealthSizes` (a floor of the round
trip of at least 1 and no higher than the cap).

`HotReload` has its proofs at its end. `PublishedIsCurrent` states what the run
`service` checks of it as `HotStateCurrent`, for any rulesets, configurations,
edits, retries and failures of a watch, given `ReloadAssumption`.
`QuietMeansCurrent` speaks only of the state at rest, so the invariant `IInv`
says of every other state who still knows of a change:

- `ConfigTold`: a config.json that is not in force has an event queued, is
  among the collected changes, was missed by a watch that was down, or needs a
  restart; and what a reload has parsed is what is on disk, unless the edit was
  missed or an event is queued that will have it parsed again;
- `RulesetsTold`: the same for each ruleset in force and for each one that a
  reload has read. A reload of config.json may rely on the changes the other
  watcher has collected; one of the rulesets may not, as it clears them when it
  succeeds, and only an event still queued counts for it;
- `Locked` and `Loading`: who loads holds the reload lock, so the configuration
  it started from is still the one in force when it stores, and what it has
  read and will read are the rulesets of the configuration it publishes;
- `Trying`: a reload under way has an attempt left; and the types, with the
  events of each watcher confined to its own files (`Typed`, `Heard`).

Only model-checked:

- all liveness, and with it `UdpSlotsServed`, which is checked in the same run:
  fairness is beyond the prover;
- what recursive definitions compute, and so the algorithms of `data`
  (`SetsExact`, `RoutingExact`, `PacketsReadAlike`, `CacheHonest`,
  `ConfigurationWhole`): they are compared with their meaning by enumeration;
- `NodesReconsidered` for `NodeSelection`: its bound is that of two callers, as
  more callers may each bring back an old stamp;
- the other invariants of the run `service`: the shard's batches are recursive,
  and most of the rest are about what sequences of arbitrary length hold;
- the two violated properties.

## 6. Not modelled

- The bytes of HTTP, HTTP/2, QUIC, TLS and zstd streams, of the netlink
  messages' headers and of the reply builders; logging, hashing, `sys.rs`;
  setting up sockets, rings and threads. They hold no protocol state.
- The dashboard's HTTP parsing, authentication and rendering.
- The text of configuration: URLs, durations, regular expressions, defaults.
- Filters on record type, rcode and class, and the extraction of addresses.
- What the kernel commits of a message with `NLM_F_EXCL` when one of its
  elements exists already.
- Eviction by the cache library, beyond the freedom to miss; panics, which
  abort the process in release builds.
- The product of components that run side by side: a shard with the pipeline, a
  transport with the registry over several connections. Their interfaces are
  the freedom the models leave: an exchange may end either way at any time, a
  resolver task may take any time that `ExchangeTiming` allows.
