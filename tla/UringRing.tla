----------------------------- MODULE UringRing -----------------------------
(***************************************************************************)
(* udp_uring.rs: the provided buffer ring shared with the kernel, the      *)
(* multishot recvmsg that fills it, and the shard loop that waits for      *)
(* completions, drains them, recycles their buffers and arms the operation *)
(* again when the kernel has ended it.                                     *)
(***************************************************************************)
EXTENDS Integers, Sequences, FiniteSets, SequencesExt

CONSTANTS Entries,      \* buffers of the ring, a power of two
          Wrap,         \* 2^16: the tail is a u16
          Bursts        \* bound on datagrams that arrive

UringAssumption ==
    /\ Entries \in Nat \ {0} /\ Wrap \in Nat \ {0} /\ Bursts \in Nat
    /\ Wrap % Entries = 0 /\ 2 * Entries <= Wrap

VARIABLES slots,        \* the entries of the ring: a buffer id in each
          tail,         \* ProvidedBufRing::tail
          ktail, khead, \* the shared tail, and how far the kernel has taken
          cq,           \* completions not yet consumed
          armed,        \* the multishot operation is live in the kernel
          ready,        \* the ring fd's readiness, as the reactor holds it
          pc, batch, at, \* the shard loop, the completions of a drain, and those done
          needsArm,
          socket,       \* datagrams in the socket's receive buffer
          arrived, taken    \* history: datagrams arrived, and handed to process_packet

ring == <<slots, tail, ktail>>
kernel == <<khead, armed, socket, arrived>>
loop == <<pc, batch, at, needsArm>>
vars == <<ring, kernel, cq, ready, loop, taken>>

Bids == 0..Entries - 1
NoBid == -1
Cqe == [bid : Bids \cup {NoBid}, good : BOOLEAN, more : BOOLEAN]

TypeOK ==
    /\ slots \in [Bids -> Bids]
    /\ {tail, ktail, khead} \subseteq 0..Wrap - 1
    /\ cq \in Seq(Cqe) /\ armed \in BOOLEAN /\ ready \in BOOLEAN /\ needsArm \in BOOLEAN
    /\ pc \in {"park", "sync", "drain", "publish", "arm", "ended"}
    /\ batch \in 0..Len(cq) /\ at \in 0..batch
    /\ socket \in 0..Bursts /\ arrived \in 0..Bursts /\ taken \in 0..arrived
    /\ armed => ~needsArm

\* UringRecv::new fills the ring and publishes it; serve_udp_uring arms it.
Init ==
    /\ slots = [i \in Bids |-> i] /\ tail = Entries /\ ktail = Entries /\ khead = 0
    /\ cq = <<>> /\ armed = TRUE /\ ready = FALSE /\ pc = "park" /\ batch = 0 /\ at = 0
    /\ needsArm = FALSE /\ socket = 0 /\ arrived = 0 /\ taken = 0

-----------------------------------------------------------------------------
\* The kernel: it takes the next published buffer for a datagram, and may end the
\* operation with any completion; without a buffer it ends it.
Arrive ==
    /\ arrived < Bursts
    /\ arrived' = arrived + 1 /\ socket' = socket + 1
    /\ UNCHANGED <<ring, khead, armed, cq, ready, loop, taken>>
Complete(good, more) ==
    /\ armed /\ socket > 0 /\ khead # ktail
    /\ cq' = Append(cq, [bid |-> slots[khead % Entries], good |-> good, more |-> more])
    /\ khead' = (khead + 1) % Wrap
    /\ socket' = socket - 1 /\ armed' = more /\ ready' = TRUE
    /\ UNCHANGED <<ring, arrived, loop, taken>>
OutOfBuffers ==
    /\ armed /\ socket > 0 /\ khead = ktail
    /\ cq' = Append(cq, [bid |-> NoBid, good |-> FALSE, more |-> FALSE])
    /\ armed' = FALSE /\ ready' = TRUE
    /\ UNCHANGED <<ring, khead, socket, arrived, loop, taken>>

-----------------------------------------------------------------------------
\* serve_udp_uring: the readiness is cleared before the drain.
Wake ==
    /\ pc = "park" /\ ready
    /\ ready' = FALSE /\ pc' = "sync"
    /\ UNCHANGED <<ring, kernel, cq, batch, at, needsArm, taken>>

\* drain: the completions there are now.
Sync ==
    /\ pc = "sync"
    /\ batch' = Len(cq) /\ at' = 0 /\ pc' = "drain"
    /\ UNCHANGED <<ring, kernel, cq, ready, needsArm, taken>>

\* put: the buffer goes into the slot at the tail, which is not yet published.
Put(bid) ==
    /\ slots' = [slots EXCEPT ![tail % Entries] = bid]
    /\ tail' = (tail + 1) % Wrap
    /\ UNCHANGED ktail

\* One completion: a good datagram is processed, and its buffer is recycled
\* whether or not it was good.
\* Mutant: the buffer of a bad datagram is not recycled.
RecyclesGood(c) == c.bid # NoBid /\ c.good
Recycles(c) == c.bid # NoBid
EndsStream(c) == ~c.more
DrainOne ==
    LET c == cq[at + 1]
    IN /\ pc = "drain" /\ at < batch
       /\ at' = at + 1
       /\ needsArm' = (needsArm \/ EndsStream(c))
       /\ taken' = IF c.bid # NoBid THEN taken + 1 ELSE taken
       /\ IF Recycles(c) THEN Put(c.bid) ELSE UNCHANGED ring
       /\ UNCHANGED <<kernel, cq, ready, pc, batch>>

\* The completions go back to the kernel, then the buffers, with one store of
\* the tail.
DrainEnd ==
    /\ pc = "drain" /\ at = batch
    /\ cq' = SubSeq(cq, batch + 1, Len(cq)) /\ batch' = 0 /\ at' = 0 /\ pc' = "publish"
    /\ UNCHANGED <<ring, kernel, ready, needsArm, taken>>
Publish ==
    /\ pc = "publish"
    /\ ktail' = tail /\ pc' = "arm"
    /\ UNCHANGED <<slots, tail, kernel, cq, ready, batch, at, needsArm, taken>>

\* arm, when needed; then the loop sends what it has to send and parks.
\* Mutant: the readiness is cleared after the drain.
ArmClears ==
    /\ pc = "arm"
    /\ armed' = (armed \/ needsArm) /\ needsArm' = FALSE /\ pc' = "park" /\ ready' = FALSE
    /\ UNCHANGED <<ring, khead, socket, arrived, cq, batch, at, taken>>
Arm ==
    /\ pc = "arm"
    /\ armed' = (armed \/ needsArm) /\ needsArm' = FALSE /\ pc' = "park"
    /\ UNCHANGED <<ring, khead, socket, arrived, cq, ready, batch, at, taken>>

\* Arming fails: serve_udp_uring returns the error, and the listener ends with it.
ArmFails ==
    /\ pc = "arm" /\ needsArm /\ pc' = "ended"
    /\ UNCHANGED <<ring, kernel, cq, ready, batch, at, needsArm, taken>>

KernelStep == OutOfBuffers \/ \E good, more \in BOOLEAN : Complete(good, more)
ShardStep == Wake \/ Sync \/ DrainOne \/ DrainEnd \/ Publish \/ Arm \/ ArmFails

\* Nothing more arrives.
Idle == arrived = Bursts /\ UNCHANGED vars

Next == Arrive \/ KernelStep \/ ShardStep \/ Idle

Spec == Init /\ [][Next]_vars

-----------------------------------------------------------------------------
\* Every buffer has one owner: it is in the ring, published or staged, or in one
\* completion that the drain has not come to.  So the kernel never fills a buffer
\* that is being read, none is lost, and the ring never holds more than it can.
InRing(b) == {i \in 0..((tail - khead) % Wrap) - 1 : slots[(khead + i) % Entries] = b}
InCq(b) == {i \in at + 1..Len(cq) : cq[i].bid = b}
OneOwner == \A b \in Bids : Cardinality(InRing(b)) + Cardinality(InCq(b)) = 1

\* The kernel only takes buffers that have been put into the ring.
PublishedIsPut == (ktail - khead) % Wrap <= (tail - khead) % Wrap

\* The completion queue, sized for two rings (setup_cqsize), never overflows: the
\* operation ends before it could.
CqFits == Len(cq) <= 2 * Entries

\* There is never a second multishot operation on the socket, whose completions
\* would use up the buffers of the first.
ArmedOnce == pc = "arm" /\ needsArm => ~armed

\* Every datagram the socket takes in reaches the shard's drain, however often the
\* kernel ends the operation or runs out of buffers and however its completions
\* fall between the clearing of the readiness and the parking, unless arming it again fails.
AllTaken == []<>(taken = arrived \/ pc = "ended")
=============================================================================
