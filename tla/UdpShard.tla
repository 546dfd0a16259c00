------------------------------ MODULE UdpShard ------------------------------
(***************************************************************************)
(* One UDP shard after a datagram was received (udp_uring.rs, udp_send.rs):*)
(* process_packet, the admission loop for queries over the inflight limit, *)
(* the resolver tasks, the reply queue and its flusher, direct sends when  *)
(* it is full, and the batched sends with their queue of unsent replies.   *)
(*                                                                         *)
(* A reply is represented by its query.  One socket buffer takes what all  *)
(* of them send; the address of a peer in Unreachable is refused by it.    *)
(***************************************************************************)
EXTENDS Integers, Sequences, FiniteSets, SequencesExt, FiniteSetsExt

CONSTANTS Queries,
          Cached,         \* queries the fast path answers
          Unreachable,    \* queries whose peer cannot be sent to
          MaxInflight,    \* permits of state.limit
          QueueMs,        \* inflight_queue_ms
          AdmissionCap, ReplyCap, PendingCap,   \* ADMISSION_QUEUE_CAP and so on
          BatchSize,
          Room,           \* replies the socket's send buffer holds
          MaxDrain,       \* bound on datagrams of one drain
          MaxNow          \* bound on the clock

ShardAssumption ==
    /\ Cached \subseteq Queries /\ Unreachable \subseteq Queries
    /\ MaxInflight \in Nat \ {0} /\ QueueMs \in Nat
    /\ {AdmissionCap, ReplyCap, PendingCap, BatchSize, Room} \subseteq Nat \ {0}
    /\ MaxDrain \in Nat /\ MaxNow \in Nat

VARIABLES st,             \* st[q]: where a query or its reply is
          permits,
          admission,      \* the queue of the admission loop
          head,           \* the query the loop waits for a permit with, or sends for
          apc,
          replies,        \* the queue of the flusher
          staging,        \* what the flusher sends
          pending,        \* pending_sends of the shard loop
          room,           \* of the socket's send buffer
          now, deadline,
          shed, sendDrops \* the counters inflight_drops and udp_send_drops

queues == <<admission, replies, staging, pending>>
vars == <<st, permits, admission, head, apc, replies, staging, pending, room, now, deadline,
          shed, sendDrops>>

None == "none"
Places == {"new", "admission", "resolving", "queued", "staged", "direct", "pending", "sent",
           "overflowed", "lost", "silent"}
Ended == {"sent", "overflowed", "lost", "silent"}
Set(s) == {s[i] : i \in DOMAIN s}

TypeOK ==
    /\ st \in [Queries -> Places]
    /\ permits \in 0..MaxInflight /\ room \in 0..Room /\ now \in 0..MaxNow
    /\ head \in Queries \cup {None} /\ apc \in {"recv", "wait", "granted", "send"}
    /\ Len(admission) <= AdmissionCap /\ Len(replies) <= ReplyCap
    /\ Len(staging) <= BatchSize /\ Len(pending) <= PendingCap
    /\ deadline \in [Queries -> Nat] /\ shed \in Nat /\ sendDrops \in Nat

Init ==
    /\ st = [q \in Queries |-> "new"] /\ permits = MaxInflight
    /\ admission = <<>> /\ head = None /\ apc = "recv"
    /\ replies = <<>> /\ staging = <<>> /\ pending = <<>> /\ room = Room
    /\ now = 0 /\ deadline = [q \in Queries |-> 0] /\ shed = 0 /\ sendDrops = 0

-----------------------------------------------------------------------------
\* sendmmsg: it takes items up to the first it cannot send.
Accepted(items, r) ==
    Max({k \in 0..Len(items) : k <= r /\ \A i \in 1..k : items[i] \notin Unreachable})

Mark(f, qs, place) == [q \in Queries |-> IF q \in qs THEN place ELSE f[q]]

\* flush_sends: what is sent, queued and dropped of items.
FlushSends(items, r, space) ==
    LET sent == Accepted(items, r)
        left == SubSeq(items, sent + 1, Len(items))
    IN [sent |-> sent, keep |-> SubSeq(left, 1, Min({space, Len(left)})),
        drop |-> IF Len(left) > space THEN Len(left) - space ELSE 0]

\* drain_pending_sends: batch after batch until the socket would block or takes
\* only part of one; a first item it refuses is dropped.
RECURSIVE DrainPending(_, _, _)
DrainPending(p, r, lost) ==
    LET n == Min({Len(p), BatchSize})
        sent == Accepted(SubSeq(p, 1, n), r)
        rest == SubSeq(p, sent + 1, Len(p))
        more == DrainPending(rest, r - sent, lost)
    IN IF p = <<>> \/ (sent = 0 /\ p[1] \notin Unreachable)
         THEN [left |-> p, sent |-> 0, lost |-> lost]
       ELSE IF sent = 0 THEN DrainPending(Tail(p), r, lost \cup {p[1]})
       ELSE IF sent < n THEN [left |-> rest, sent |-> sent, lost |-> lost]
       ELSE [more EXCEPT !.sent = @ + sent]

-----------------------------------------------------------------------------
\* process_packet for one datagram: answered, resolved, queued for admission, or
\* refused with SERVFAIL.
Sorted(acc, q) ==
    IF q \in Cached THEN [acc EXCEPT !.items = Append(@, q)]
    ELSE IF acc.permits > 0 THEN [acc EXCEPT !.permits = @ - 1, !.spawned = @ \cup {q}]
    ELSE IF QueueMs > 0 /\ Len(acc.admission) < AdmissionCap
      THEN [acc EXCEPT !.admission = Append(@, q)]
    ELSE [acc EXCEPT !.items = Append(@, q), !.shed = @ + 1]

\* One round of serve_udp_uring: a drain, flush_sends, drain_pending_sends.
Receive(pkts) ==
    LET acc == FoldLeft(Sorted, [items |-> <<>>, permits |-> permits, spawned |-> {},
                                 admission |-> admission, shed |-> shed], pkts)
        f == FlushSends(acc.items, room, PendingCap - Len(pending))
        p == pending \o f.keep
        d == DrainPending(p, room - f.sent, {})
        sent == Set(SubSeq(acc.items, 1, f.sent)) \cup (Set(p) \ (Set(d.left) \cup d.lost))
        overflowed == Set(acc.items) \ (Set(SubSeq(acc.items, 1, f.sent)) \cup Set(f.keep))
        queued == Set(acc.admission) \ Set(admission)
    IN /\ \A q \in Set(pkts) : st[q] = "new"
       /\ now + QueueMs <= MaxNow
       /\ permits' = acc.permits /\ admission' = acc.admission /\ shed' = acc.shed
       /\ st' = [q \in Queries |-> CASE q \in acc.spawned -> "resolving"
                                     [] q \in queued -> "admission"
                                     [] q \in sent -> "sent"
                                     [] q \in overflowed -> "overflowed"
                                     [] q \in d.lost -> "lost"
                                     [] q \in Set(d.left) -> "pending"
                                     [] OTHER -> st[q]]
       /\ deadline' = [q \in Queries |-> IF q \in queued THEN now + QueueMs ELSE deadline[q]]
       /\ pending' = d.left /\ room' = room - f.sent - d.sent
       /\ sendDrops' = sendDrops + f.drop + Cardinality(d.lost)
       /\ UNCHANGED <<head, apc, replies, staging, now>>

\* The socket is writable while replies are pending.
Writable ==
    LET d == DrainPending(pending, room, {})
    IN /\ pending # <<>> /\ room > 0
       /\ pending' = d.left /\ room' = room - d.sent
       /\ sendDrops' = sendDrops + Cardinality(d.lost)
       /\ st' = Mark(Mark(st, Set(pending) \ (Set(d.left) \cup d.lost), "sent"), d.lost, "lost")
       /\ UNCHANGED <<permits, admission, head, apc, replies, staging, now, deadline, shed>>

-----------------------------------------------------------------------------
\* A reply goes to the flusher, or is sent by its own task when the queue is full.
HandOver(q) ==
    IF Len(replies) < ReplyCap
    THEN replies' = Append(replies, q) /\ st' = [st EXCEPT ![q] = "queued"]
    ELSE st' = [st EXCEPT ![q] = "direct"] /\ UNCHANGED replies

\* A permit that is released goes to the task that waits for one.
Release ==
    IF apc = "wait" THEN apc' = "granted" /\ UNCHANGED permits
                    ELSE permits' = permits + 1 /\ UNCHANGED apc

\* A resolver task: handle_packet_slow_preparsed releases the permit and returns a
\* reply, or none.
\* Mutant: a task without a reply keeps its permit.
ResolvedKeepsPermit(q) ==
    /\ st[q] = "resolving"
    /\ \/ HandOver(q) /\ Release
       \/ st' = [st EXCEPT ![q] = "silent"] /\ UNCHANGED <<replies, permits, apc>>
    /\ UNCHANGED <<admission, head, staging, pending, room, now, deadline, shed, sendDrops>>
Resolved(q) ==
    /\ st[q] = "resolving" /\ Release
    /\ HandOver(q) \/ (st' = [st EXCEPT ![q] = "silent"] /\ UNCHANGED replies)
    /\ UNCHANGED <<admission, head, staging, pending, room, now, deadline, shed, sendDrops>>

\* send_one_response: at once, or when the socket has room.
DirectSend(q) ==
    /\ st[q] = "direct" /\ (q \in Unreachable \/ room > 0)
    /\ IF q \in Unreachable
       THEN /\ st' = [st EXCEPT ![q] = "lost"] /\ sendDrops' = sendDrops + 1 /\ UNCHANGED room
       ELSE /\ st' = [st EXCEPT ![q] = "sent"] /\ room' = room - 1 /\ UNCHANGED sendDrops
    /\ IF apc = "send" /\ head = q THEN apc' = "recv" /\ head' = None
                                   ELSE UNCHANGED <<apc, head>>
    /\ UNCHANGED <<permits, queues, now, deadline, shed>>

-----------------------------------------------------------------------------
Expired == now >= deadline[head]

\* admission_loop: the query at the front takes a permit, or waits for one until
\* its deadline.
Take ==
    /\ apc = "recv" /\ admission # <<>>
    /\ admission' = Tail(admission)
    /\ IF permits > 0
       THEN /\ permits' = permits - 1 /\ st' = [st EXCEPT ![Head(admission)] = "resolving"]
            /\ UNCHANGED <<head, apc>>
       ELSE head' = Head(admission) /\ apc' = "wait" /\ UNCHANGED <<permits, st>>
    /\ UNCHANGED <<replies, staging, pending, room, now, deadline, shed, sendDrops>>
Admit ==
    /\ apc = "granted"
    /\ st' = [st EXCEPT ![head] = "resolving"] /\ head' = None /\ apc' = "recv"
    /\ UNCHANGED <<permits, queues, room, now, deadline, shed, sendDrops>>
TimeOut ==
    /\ apc = "wait" /\ Expired
    /\ shed' = shed + 1 /\ HandOver(head)
    /\ IF st'[head] = "direct" THEN apc' = "send" /\ UNCHANGED head
                               ELSE apc' = "recv" /\ head' = None
    /\ UNCHANGED <<permits, admission, staging, pending, room, now, deadline, sendDrops>>

\* run_send_flush_loop: a batch is taken, and sent piece by piece; an error gives
\* up what is left of it.
FlushTake ==
    LET n == Min({BatchSize, Len(replies)})
    IN /\ staging = <<>> /\ replies # <<>>
       /\ \E k \in 1..n : /\ staging' = SubSeq(replies, 1, k)
                          /\ replies' = SubSeq(replies, k + 1, Len(replies))
       /\ st' = Mark(st, Set(staging'), "staged")
       /\ UNCHANGED <<permits, admission, head, apc, pending, room, now, deadline, shed,
                      sendDrops>>
Dropped(items) == Len(items)
FlushSend ==
    LET sent == Accepted(staging, room)
    IN /\ staging # <<>> /\ (sent > 0 \/ staging[1] \in Unreachable)
       /\ IF sent > 0
          THEN /\ staging' = SubSeq(staging, sent + 1, Len(staging)) /\ room' = room - sent
               /\ st' = Mark(st, Set(SubSeq(staging, 1, sent)), "sent")
               /\ UNCHANGED sendDrops
          ELSE /\ staging' = <<>> /\ st' = Mark(st, Set(staging), "lost")
               /\ sendDrops' = sendDrops + Dropped(staging) /\ UNCHANGED room
       /\ UNCHANGED <<permits, admission, head, apc, replies, pending, now, deadline, shed>>

-----------------------------------------------------------------------------
\* The network takes a reply out of the socket's buffer.
Transmit ==
    /\ room < Room /\ room' = room + 1
    /\ UNCHANGED <<st, permits, queues, head, apc, now, deadline, shed, sendDrops>>

\* Timers fire when they are due, and tasks that can run do not wait for the clock.
Due == \/ apc = "recv" /\ admission # <<>>
       \/ apc = "granted" \/ (apc = "wait" /\ Expired) \/ (apc = "send" /\ room > 0)
Tick ==
    /\ now < MaxNow /\ ~Due
    /\ now' = now + 1
    /\ UNCHANGED <<st, permits, queues, head, apc, room, deadline, shed, sendDrops>>

Drains == UNION {[1..n -> Queries] : n \in 1..MaxDrain}
Admission == Take \/ Admit \/ TimeOut
Flusher == FlushTake \/ FlushSend

\* Every query received has ended.
Idle == (\A q \in Queries : st[q] \in Ended \cup {"new"}) /\ UNCHANGED vars

Next == \/ \E pkts \in {s \in Drains : IsInjective(s)} : Receive(pkts)
        \/ Writable \/ Admission \/ Flusher \/ Transmit \/ Tick \/ Idle
        \/ \E q \in Queries : Resolved(q) \/ DirectSend(q)

Spec == Init /\ [][Next]_vars

-----------------------------------------------------------------------------
\* Every query and every reply is in one place: in the queue its state says, and
\* once.
OnePlace ==
    LET Holds(s, place) == IsInjective(s) /\ Set(s) = {q \in Queries : st[q] = place}
    IN /\ Holds(replies, "queued") /\ Holds(staging, "staged") /\ Holds(pending, "pending")
       /\ Holds(IF head # None /\ apc # "send" THEN <<head>> \o admission ELSE admission,
                "admission")

\* No permit is lost or used twice, on any way a query can end.
PermitsConserved ==
    permits + Cardinality({q \in Queries : st[q] = "resolving"})
            + (IF apc = "granted" THEN 1 ELSE 0) = MaxInflight

\* udp_send_drops counts the replies that were lost, each once.
DropsCounted == sendDrops = Cardinality({q \in Queries : st[q] \in {"lost", "overflowed"}})

\* "queries that exceed `max-inflight` wait up to N ms for a slot before being shed
\* with SERVFAIL" (README.md:424).
WaitsAtMostQueueMs == \A q \in Queries : st[q] = "admission" => now <= deadline[q]

\* Every query received is answered, dropped and counted, or has no answer: no
\* queue, permit or send waits for ever.
EveryQueryEnds == []<>(\A q \in Queries : st[q] \in {"new"} \cup Ended)
=============================================================================
