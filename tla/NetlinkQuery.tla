---------------------------- MODULE NetlinkQuery ----------------------------
(***************************************************************************)
(* IpSetManager::new, ipset/client.rs and ipset/socket.rs: at startup the  *)
(* kernel is asked for each nftset, one after another over one socket,     *)
(* whether it is an interval set.  An answer may be an error, and may come *)
(* after the question has timed out.                                       *)
(***************************************************************************)
EXTENDS Integers, Sequences

CONSTANTS NSets,            \* the nftsets of add_rules, in order
          SeqModulus        \* 2^32

NetlinkAssumption == NSets \in Nat \ {0} /\ SeqModulus \in Nat /\ SeqModulus > 2

VARIABLES isInterval,   \* isInterval[s]: what the kernel knows
          current,      \* the set being asked about
          asked,        \* the question is sent
          seq,          \* the socket's next sequence number
          requests,     \* requests the kernel has not answered
          replies,      \* answers in the socket's buffer
          intervalSets, \* interval_nft_sets
          late          \* history: sets whose question timed out or failed

vars == <<isInterval, current, asked, seq, requests, replies, intervalSets, late>>

Sets == 1..NSets

TypeOK ==
    /\ isInterval \in [Sets -> BOOLEAN] /\ current \in 1..NSets + 1 /\ asked \in 0..SeqModulus - 1
    /\ seq \in 1..SeqModulus - 1
    /\ intervalSets \subseteq Sets /\ late \subseteq Sets

Init ==
    /\ isInterval \in [Sets -> BOOLEAN] /\ current = 1 /\ asked = 0 /\ seq = 1
    /\ requests = <<>> /\ replies = <<>> /\ intervalSets = {} /\ late = {}

Max1(n) == IF n < 1 THEN 1 ELSE n
\* alloc_seq: wrapping_add(1).max(1).
NextSeq(n) == Max1((n + 1) % SeqModulus)

\* query_nft_interval_flag sends its request.
Ask ==
    /\ current \in Sets /\ asked = 0
    /\ asked' = seq /\ seq' = NextSeq(seq)
    /\ requests' = Append(requests, [seq |-> seq, set |-> current])
    /\ UNCHANGED <<isInterval, current, replies, intervalSets, late>>

\* The kernel's answer: NFT_MSG_NEWSET with the flags, or an error.
Answer ==
    /\ requests # <<>>
    /\ LET r == Head(requests)
       IN \E ok \in BOOLEAN :
              replies' = Append(replies, [seq |-> r.seq, ok |-> ok, flag |-> isInterval[r.set]])
    /\ requests' = Tail(requests)
    /\ UNCHANGED <<isInterval, current, asked, seq, intervalSets, late>>

\* recv_for_seq: a message of another number is passed over.
Match(r) == r.seq = asked
Discard ==
    /\ asked # 0 /\ replies # <<>> /\ ~Match(Head(replies))
    /\ replies' = Tail(replies)
    /\ UNCHANGED <<isInterval, current, asked, seq, requests, intervalSets, late>>
\* decode_nft_set_flags; a failed query leaves the set out.
Receive ==
    /\ asked # 0 /\ replies # <<>> /\ Match(Head(replies))
    /\ LET r == Head(replies)
       IN /\ intervalSets' = IF r.ok /\ r.flag THEN intervalSets \cup {current} ELSE intervalSets
          /\ late' = IF r.ok THEN late ELSE late \cup {current}
    /\ replies' = Tail(replies) /\ current' = current + 1 /\ asked' = 0
    /\ UNCHANGED <<isInterval, seq, requests>>
\* The receive timeout: the answer is taken to be no.
TimeOut ==
    /\ asked # 0 /\ replies = <<>>
    /\ current' = current + 1 /\ asked' = 0 /\ late' = late \cup {current}
    /\ UNCHANGED <<isInterval, seq, requests, replies, intervalSets>>

Idle == current > NSets /\ requests = <<>> /\ UNCHANGED vars

Next == Ask \/ Answer \/ Discard \/ Receive \/ TimeOut \/ Idle
Spec == Init /\ [][Next]_vars

-----------------------------------------------------------------------------
\* An answer is never taken for that of another set, however late it comes: a set
\* whose question was answered is known for what it is, and no set is taken for an
\* interval set that is none (a range written to a plain set is refused).
FlagIsItsSets ==
    \A s \in Sets : s < current => /\ s \in intervalSets => isInterval[s]
                                   /\ s \notin late => (s \in intervalSets) = isInterval[s]
=============================================================================
