----------------------------- MODULE QueryStats -----------------------------
(***************************************************************************)
(* querylog/mod.rs (ShardedCounter), worker.rs (run_qps_sampler) and       *)
(* ring.rs (StatsRing): threads count queries, each in its own slot, and   *)
(* record peaks of a gauge; once a second the sampler sums the slots one   *)
(* by one, folds the differences into samples and publishes the peak; the  *)
(* dashboard aggregates the samples.                                       *)
(***************************************************************************)
EXTENDS Integers, Sequences, FiniteSets, SequencesExt

CONSTANTS NSlots,           \* slots of the counter, one per thread
          SampleTicks,      \* STATS_SAMPLE_SECS
          RingLen,          \* STATS_RING_LEN
          Peaks,            \* values of the gauge, above 0
          MaxBuckets,       \* bound: buckets asked for
          MaxCount          \* bound: queries a thread counts

VARIABLES slots, spc, i, sum, prev, acc, ticks, ring,
          peak, published, taken,       \* the gauge: accumulator, value, and in flight
          evicted,      \* history: what samples pushed out of the ring held
          recorded      \* history: peaks recorded since the accumulator was taken

counter == <<slots>>
sampler == <<spc, i, sum, prev, acc, ticks, ring, evicted>>
gauge == <<peak, published, taken, recorded>>
vars == <<counter, sampler, gauge>>

Slots == 1..NSlots
SumOf(s) == FoldSeq(LAMBDA x, y : x + y, 0, s)
Total == SumOf(slots)

Init == /\ slots = [s \in Slots |-> 0] /\ spc = "tick" /\ i = 1 /\ sum = 0 /\ prev = 0
        /\ acc = 0 /\ ticks = 0 /\ ring = <<>> /\ evicted = 0
        /\ peak = 0 /\ published = 0 /\ taken = 0 /\ recorded = {}

-----------------------------------------------------------------------------
(* The threads *)

FetchAdd(s) == /\ slots[s] < MaxCount /\ slots' = [slots EXCEPT ![s] = @ + 1]
               /\ UNCHANGED <<sampler, gauge>>
\* A shard's loop folds its latest receive latency, or the fill of its socket's buffer,
\* into the accumulator (fetch_max).
RecordPeak(v) == /\ peak' = Max({peak, v}) /\ recorded' = recorded \cup {v}
                 /\ UNCHANGED <<counter, sampler, published, taken>>

-----------------------------------------------------------------------------
(* run_qps_sampler *)

Tick == /\ spc = "tick" /\ spc' = "load" /\ i' = 1 /\ sum' = 0
        /\ UNCHANGED <<counter, prev, acc, ticks, ring, evicted, gauge>>
\* ShardedCounter::load
LoadSlot == /\ spc = "load" /\ i <= NSlots /\ sum' = sum + slots[i] /\ i' = i + 1
            /\ UNCHANGED <<counter, spc, prev, acc, ticks, ring, evicted, gauge>>

Delta == IF sum > prev THEN sum - prev ELSE 0
\* The difference is folded into the sample, which is pushed when it is complete.
Fold == /\ spc = "load" /\ i = NSlots + 1 /\ spc' = "take" /\ prev' = sum
        /\ IF ticks + 1 >= SampleTicks
           THEN /\ ring' = Append(IF Len(ring) = RingLen THEN Tail(ring) ELSE ring, acc + Delta)
                /\ evicted' = evicted + (IF Len(ring) = RingLen THEN Head(ring) ELSE 0)
                /\ acc' = 0 /\ ticks' = 0
           ELSE acc' = acc + Delta /\ ticks' = ticks + 1 /\ UNCHANGED <<ring, evicted>>
        /\ UNCHANGED <<counter, i, sum, gauge>>
\* The accumulator is swapped for zero, then published.
TakePeak == /\ spc = "take" /\ spc' = "publish" /\ taken' = peak /\ peak' = 0 /\ recorded' = {}
            /\ UNCHANGED <<counter, i, sum, prev, acc, ticks, ring, evicted, published>>
PublishPeak == /\ spc = "publish" /\ spc' = "tick" /\ published' = taken /\ taken' = 0
               /\ UNCHANGED <<counter, i, sum, prev, acc, ticks, ring, evicted, peak, recorded>>

Next == \/ \E s \in Slots : FetchAdd(s)
        \/ \E v \in Peaks : RecordPeak(v)
        \/ Tick \/ LoadSlot \/ Fold \/ TakePeak \/ PublishPeak
Spec == Init /\ [][Next]_vars

-----------------------------------------------------------------------------
(* StatsRing *)

Taken(seconds) == Min({seconds \div SampleTicks, RingLen, Len(ring)})
Window(seconds) == SubSeq(ring, Len(ring) - Taken(seconds) + 1, Len(ring))
Aggregate(seconds) == SumOf(Window(seconds))
BucketAggregate(seconds, asked) ==
    LET buckets == Max({asked, 1})
        n == Taken(seconds)
    IN [b \in 1..buckets |-> SumOf(SubSeq(Window(seconds), ((b - 1) * n) \div buckets + 1,
                                          IF b = buckets THEN n ELSE (b * n) \div buckets))]

-----------------------------------------------------------------------------
\* Although the slots are not read at one moment, the samples neither lose nor repeat
\* a query: what was sampled, pushed or not, is what the sampler had counted at its
\* last tick, which is no more than was counted since.
SamplesExact == SumOf(ring) + evicted + acc = prev /\ prev <= Total

\* "Returns exactly `buckets` entries" (ring.rs:246): however the window and the number
\* of buckets divide, the buckets hold each sample of the window once.
BucketsExact ==
    \A seconds \in 0..SampleTicks * (RingLen + 1), asked \in 0..MaxBuckets :
        /\ Len(BucketAggregate(seconds, asked)) = Max({asked, 1})
        /\ SumOf(BucketAggregate(seconds, asked)) = Aggregate(seconds)

\* No peak is lost between two windows and none is published twice: the accumulator is
\* the largest value recorded since it was last taken.
PeakExact == peak = Max(recorded \cup {0})
=============================================================================
