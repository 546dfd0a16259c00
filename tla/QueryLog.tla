------------------------------ MODULE QueryLog ------------------------------
(***************************************************************************)
(* querylog/mod.rs, worker.rs (run, recv_batch, process_batch), ring.rs    *)
(* (EventRing) and api.rs (handle_sse): query events go from the threads   *)
(* that resolve, through one bounded channel per shard, to the worker,     *)
(* which appends them to the ring and broadcasts them to a dashboard; the  *)
(* dashboard's event source reconnects with the last number it has seen.   *)
(*                                                                         *)
(* An event is its sequence number.  Producers are threads; shards are     *)
(* numbered from 0.                                                        *)
(***************************************************************************)
EXTENDS Integers, Sequences, FiniteSets, SequencesExt

CONSTANTS Producers,
          NShards,
          ShardOf,          \* ShardOf[p]: thread_shard
          PerShard,         \* capacity of a shard's channel
          BatchSize,
          RingCapacity,
          BackfillLimit,    \* events a query of the ring returns at most
          BroadcastCap,     \* capacity of the broadcast channel
          MaxEvents,        \* bound: events numbered, and events refused
          MaxConnects,      \* bound: connections of the dashboard
          MayClear          \* DELETE /api/querylog may be called

QueryLogAssumption == /\ ShardOf \in [Producers -> 0..NShards - 1]
                      /\ BatchSize \in Nat \ {0} /\ RingCapacity \in Nat \ {0}

VARIABLES ppc, pseq,    \* where a producer is, and its event
          seq,          \* the next sequence number
          shard,        \* shard[s]: events in its channel
          enqueued, refused, processed, evictions,      \* counters
          wpc, start, k, progressed, batch,             \* the worker
          closing,      \* the shutdown flag is seen
          ring,
          tosend,       \* events of the batch still to be broadcast
          cpc,          \* the dashboard: "off", "subscribed", "live"
          chan, lagged, \* its receiver of the broadcast channel
          got, lastId,  \* events it has seen, and the last of them
          connects,
          log,          \* history: events in the order they were appended
          seen0,        \* history: length of log when the client began to follow it
          sentBefore,   \* history: events sent before the shutdown
          cleared       \* history: events cleared from the ring

pvars == <<ppc, pseq, seq>>
wvars == <<wpc, start, k, progressed, batch>>
cvars == <<cpc, chan, lagged, got, lastId, connects, seen0>>
rvars == <<ring, evictions, log, cleared>>
counts == <<enqueued, refused>>
vars == <<pvars, shard, counts, processed, wvars, closing, rvars, tosend, cvars, sentBefore>>

Shards == 0..NShards - 1
NoEvent == 0

TypeOK ==
    /\ ppc \in [Producers -> {"idle", "reserved", "built", "sent"}]
    /\ pseq \in [Producers -> 0..MaxEvents] /\ seq \in 1..MaxEvents + 1
    /\ \A s \in Shards : Len(shard[s]) <= PerShard
    /\ wpc \in {"recv", "drain", "push", "check", "broadcast", "done"}
    /\ start \in Shards /\ k \in 0..NShards
    /\ Len(batch) <= BatchSize /\ Len(ring) <= RingCapacity
    /\ cpc \in {"off", "subscribed", "live"} /\ Len(chan) <= BroadcastCap

Init ==
    /\ ppc = [p \in Producers |-> "idle"] /\ pseq = [p \in Producers |-> NoEvent] /\ seq = 1
    /\ shard = [s \in Shards |-> <<>>]
    /\ enqueued = 0 /\ refused = 0 /\ processed = 0 /\ evictions = 0
    /\ wpc = "recv" /\ start = 0 /\ k = 0 /\ progressed = FALSE /\ batch = <<>>
    /\ closing = FALSE /\ ring = <<>> /\ tosend = <<>>
    /\ cpc = "off" /\ chan = <<>> /\ lagged = FALSE /\ got = {} /\ lastId = NoEvent
    /\ connects = 0 /\ log = <<>> /\ seen0 = 0 /\ sentBefore = {} /\ cleared = 0

-----------------------------------------------------------------------------
(* try_emit_with *)

Reserved(s) == Cardinality({p \in Producers : ShardOf[p] = s /\ ppc[p] \in {"reserved", "built"}})
HasRoom(s) == Len(shard[s]) + Reserved(s) < PerShard

\* A permit is reserved before the event is built; without one, or once the worker
\* has gone, the event is counted as dropped.
Reserve(p) ==
    /\ ppc[p] = "idle" /\ seq + Cardinality({q \in Producers : ppc[q] = "reserved"}) <= MaxEvents
    /\ refused < MaxEvents
    /\ IF wpc # "done" /\ HasRoom(ShardOf[p])
       THEN ppc' = [ppc EXCEPT ![p] = "reserved"] /\ UNCHANGED refused
       ELSE refused' = refused + 1 /\ UNCHANGED ppc
    /\ UNCHANGED <<pseq, seq, shard, enqueued, processed, wvars, closing, rvars, tosend, cvars,
                   sentBefore>>
TakeSeq(p) ==
    /\ ppc[p] = "reserved"
    /\ ppc' = [ppc EXCEPT ![p] = "built"] /\ pseq' = [pseq EXCEPT ![p] = seq] /\ seq' = seq + 1
    /\ UNCHANGED <<shard, counts, processed, wvars, closing, rvars, tosend, cvars, sentBefore>>
Send(p) ==
    /\ ppc[p] = "built"
    /\ ppc' = [ppc EXCEPT ![p] = "sent"] /\ pseq' = [pseq EXCEPT ![p] = NoEvent]
    /\ shard' = [shard EXCEPT ![ShardOf[p]] = Append(@, pseq[p])]
    /\ UNCHANGED <<seq, counts, processed, wvars, closing, rvars, tosend, cvars, sentBefore>>
Count(p) ==
    /\ ppc[p] = "sent"
    /\ ppc' = [ppc EXCEPT ![p] = "idle"] /\ enqueued' = enqueued + 1
    /\ UNCHANGED <<pseq, seq, shard, refused, processed, wvars, closing, rvars, tosend, cvars,
                   sentBefore>>

-----------------------------------------------------------------------------
(* The worker *)

Shard(i) == (start + i) % NShards
Pending(s) == shard[s] # <<>>

\* recv_batch: the first event, from the first shard in turn that has one.
Receive ==
    /\ wpc = "recv" /\ ~closing
    /\ \E i \in 0..NShards - 1 :
          /\ Pending(Shard(i)) /\ \A j \in 0..i - 1 : ~Pending(Shard(j))
          /\ batch' = <<Head(shard[Shard(i)])>> /\ shard' = [shard EXCEPT ![Shard(i)] = Tail(@)]
          /\ start' = (Shard(i) + 1) % NShards
    /\ wpc' = "drain" /\ k' = 0 /\ progressed' = FALSE
    /\ UNCHANGED <<pvars, counts, processed, closing, rvars, tosend, cvars, sentBefore>>

\* drain_available: one from each shard in turn, until the batch is full or a round
\* finds nothing.
Drain ==
    /\ wpc = "drain" /\ Len(batch) < BatchSize /\ k < NShards
    /\ IF Pending(Shard(k))
       THEN /\ batch' = Append(batch, Head(shard[Shard(k)]))
            /\ shard' = [shard EXCEPT ![Shard(k)] = Tail(@)] /\ progressed' = TRUE
       ELSE UNCHANGED <<batch, shard, progressed>>
    /\ k' = k + 1
    /\ UNCHANGED <<pvars, counts, processed, wpc, start, closing, rvars, tosend, cvars,
                   sentBefore>>
EndOfRound ==
    /\ wpc = "drain" /\ Len(batch) < BatchSize /\ k = NShards /\ progressed
    /\ k' = 0 /\ progressed' = FALSE
    /\ UNCHANGED <<pvars, shard, counts, processed, wpc, start, batch, closing, rvars, tosend,
                   cvars, sentBefore>>
\* The batch is complete; an empty one ends a worker that is closing.
EndOfDrain ==
    /\ wpc = "drain" /\ (Len(batch) = BatchSize \/ (k = NShards /\ ~progressed))
    /\ wpc' = IF batch = <<>> THEN "done" ELSE "push"
    /\ processed' = processed + Len(batch) /\ k' = 0 /\ progressed' = FALSE
    /\ UNCHANGED <<pvars, shard, counts, start, batch, closing, rvars, tosend, cvars, sentBefore>>

\* push_batch, under the ring's lock.
Push ==
    /\ wpc = "push" /\ wpc' = "check"
    /\ LET all == ring \o batch
           over == IF Len(all) > RingCapacity THEN Len(all) - RingCapacity ELSE 0
       IN ring' = SubSeq(all, over + 1, Len(all)) /\ evictions' = evictions + over
    /\ log' = log \o batch
    /\ UNCHANGED <<pvars, shard, counts, processed, start, k, progressed, batch, closing,
                   cleared, tosend, cvars, sentBefore>>
\* The lock is released; are there subscribers?
Check ==
    /\ wpc = "check" /\ wpc' = "broadcast" /\ batch' = <<>>
    /\ tosend' = IF cpc # "off" THEN batch ELSE <<>>
    /\ UNCHANGED <<pvars, shard, counts, processed, start, k, progressed, closing, rvars, cvars,
                   sentBefore>>
Broadcast ==
    /\ wpc = "broadcast" /\ tosend # <<>> /\ tosend' = Tail(tosend)
    /\ IF cpc = "off" THEN UNCHANGED <<chan, lagged>>
       ELSE IF Len(chan) < BroadcastCap
            THEN chan' = Append(chan, Head(tosend)) /\ UNCHANGED lagged
            ELSE chan' = Append(Tail(chan), Head(tosend)) /\ lagged' = TRUE
    /\ UNCHANGED <<pvars, shard, counts, processed, wvars, closing, rvars, cpc, got, lastId,
                   connects, seen0, sentBefore>>
EndOfBatch ==
    /\ wpc = "broadcast" /\ tosend = <<>>
    /\ wpc' = IF closing THEN "drain" ELSE "recv"
    /\ UNCHANGED <<pvars, shard, counts, processed, start, k, progressed, batch, closing, rvars,
                   tosend, cvars, sentBefore>>

\* The shutdown flag: everything that is left is drained.
\* Mutant: nothing is drained.
ShutDownOnce ==
    /\ wpc = "recv" /\ ~closing /\ closing' = TRUE
    /\ sentBefore' = UNION {ToSet(shard[s]) : s \in Shards} /\ wpc' = "done"
    /\ UNCHANGED <<pvars, shard, counts, processed, start, k, progressed, batch, rvars, tosend,
                   cvars>>
ShutDown ==
    /\ wpc = "recv" /\ ~closing /\ closing' = TRUE
    /\ sentBefore' = UNION {ToSet(shard[s]) : s \in Shards} /\ wpc' = "drain"
    /\ UNCHANGED <<pvars, shard, counts, processed, start, k, progressed, batch, rvars, tosend,
                   cvars>>

Clear ==
    /\ MayClear /\ ring # <<>> /\ ring' = <<>> /\ cleared' = cleared + Len(ring)
    /\ UNCHANGED <<pvars, shard, counts, processed, wvars, closing, evictions, log, tosend, cvars,
                   sentBefore>>

-----------------------------------------------------------------------------
(* handle_sse *)

Subscribe ==
    /\ cpc = "off" /\ connects < MaxConnects /\ connects' = connects + 1
    /\ cpc' = "subscribed" /\ chan' = <<>> /\ lagged' = FALSE
    /\ seen0' = IF lastId = NoEvent THEN Len(log) ELSE seen0
    /\ UNCHANGED <<pvars, shard, counts, processed, wvars, closing, rvars, tosend, got, lastId,
                   sentBefore>>
\* The newest BackfillLimit of the ring's events after the last one seen, in the
\* ring's order; none when the client has seen none.
RingAfter(id) ==
    LET later == SelectSeq(ring, LAMBDA e : e > id)
        from == IF Len(later) > BackfillLimit THEN Len(later) - BackfillLimit ELSE 0
    IN SubSeq(later, from + 1, Len(later))
Backfill ==
    /\ cpc = "subscribed" /\ cpc' = "live"
    /\ LET after == IF lastId = NoEvent THEN <<>> ELSE RingAfter(lastId)
       IN /\ got' = got \cup ToSet(after)
          /\ lastId' = IF after = <<>> THEN lastId ELSE Last(after)
    /\ UNCHANGED <<pvars, shard, counts, processed, wvars, closing, rvars, tosend, chan, lagged,
                   connects, seen0, sentBefore>>
Forward ==
    /\ cpc = "live" /\ ~lagged /\ chan # <<>>
    /\ chan' = Tail(chan) /\ got' = got \cup {Head(chan)} /\ lastId' = Head(chan)
    /\ UNCHANGED <<pvars, shard, counts, processed, wvars, closing, rvars, tosend, cpc, lagged,
                   connects, seen0, sentBefore>>
\* The receiver lagged, or the connection broke.
Disconnect ==
    /\ cpc # "off" /\ (lagged \/ connects < MaxConnects)
    /\ cpc' = "off" /\ chan' = <<>> /\ lagged' = FALSE
    /\ UNCHANGED <<pvars, shard, counts, processed, wvars, closing, rvars, tosend, got, lastId,
                   connects, seen0, sentBefore>>

Idle == wpc \in {"recv", "done"} /\ UNCHANGED vars

Emit(p) == Reserve(p) \/ TakeSeq(p) \/ Send(p) \/ Count(p)
Worker == Receive \/ Drain \/ EndOfRound \/ EndOfDrain \/ Push \/ Check \/ Broadcast \/ EndOfBatch
Client == Subscribe \/ Backfill \/ Forward \/ Disconnect
Next == (\E p \in Producers : Emit(p)) \/ Worker \/ ShutDown \/ Clear \/ Client \/ Idle

Spec == Init /\ [][Next]_vars

-----------------------------------------------------------------------------
\* An event that was sent is in its channel, in the worker's batch or in the log, and
\* in one of them only; the counters say as much, but for producers that have sent
\* and not yet counted.
SentEvents == (1..seq - 1) \ {pseq[p] : p \in Producers}
Places(e) == Cardinality({s \in Shards : e \in ToSet(shard[s])})
             + Cardinality({i \in DOMAIN log : log[i] = e})
             + (IF wpc \in {"drain", "push"} /\ e \in ToSet(batch) THEN 1 ELSE 0)
EventsAccounted ==
    /\ \A e \in SentEvents : Places(e) = 1
    /\ Cardinality(SentEvents) = enqueued + Cardinality({p \in Producers : ppc[p] = "sent"})
    /\ wpc = "recv" => processed = Len(log)

\* The ring holds the latest events, and every event that is no longer in it was
\* counted as evicted or was cleared.
RingIsLatest ==
    /\ IsSuffix(ring, log)
    /\ Len(log) = Len(ring) + evictions + cleared
    /\ cleared = 0 => Len(ring) = IF Len(log) < RingCapacity THEN Len(log) ELSE RingCapacity

\* No channel holds more than its capacity, with the permits that are out.
ChannelBounded == \A s \in Shards : Len(shard[s]) + Reserved(s) <= PerShard

\* A worker told to shut down logs all that was sent before ("Drain all remaining
\* events across every shard before returning", worker.rs:381).
DrainedAtShutdown == wpc = "done" => sentBefore \subseteq ToSet(log)

\* "the server backfills all ring events with seq > that value so the client picks up
\* from where it left off" (api.rs:513): a client that is up to date has seen every
\* event of the ring that was logged since it began to follow.
UpToDate == cpc = "live" /\ chan = <<>> /\ ~lagged /\ tosend = <<>> /\ wpc \notin {"check"}
PicksUp == UpToDate => \A i \in seen0 + 1..Len(log) : log[i] \in ToSet(ring) => log[i] \in got

\* Every event sent is logged, whichever shard it is in, unless the worker shuts down.
EventsLogged ==
    []<>(closing \/ SentEvents \subseteq ToSet(log))
=============================================================================
