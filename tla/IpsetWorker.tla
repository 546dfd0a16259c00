---------------------------- MODULE IpsetWorker ----------------------------
(***************************************************************************)
(* ipset/mod.rs, ipset/worker.rs, ipset/client.rs: addresses of answers    *)
(* are queued for the kernel's sets, and one worker thread adds them, a    *)
(* batch at a time, over a netlink socket it opens again after an error.   *)
(*                                                                         *)
(* A job is <<set, ip>>.  A batch is a set of jobs: the code sorts it and  *)
(* removes repetitions before it looks at it.  Sets and addresses are      *)
(* numbers, in the order the code sorts them.                              *)
(***************************************************************************)
EXTENDS Integers, Sequences, FiniteSets, FiniteSetsExt

CONSTANTS NSets, NIps,
          NftSets,          \* the sets that are nftsets
          V6,               \* the addresses of IPv6
          Special,          \* the addresses is_special_use refuses
          AddQueueSize,     \* ADD_QUEUE_SIZE
          MaxIpsPerMessage, \* MAX_IPS_PER_MESSAGE
          MaxSubmits,       \* bound: addresses submitted
          MaxFailures       \* bound: batches that meet a failing socket

IpsetAssumption == AddQueueSize \in Nat \ {0} /\ MaxIpsPerMessage \in Nat \ {0}

VARIABLES queue,        \* the channel
          batch,        \* the worker's batch
          wpc,          \* where the worker is
          todo,         \* sets of the batch not yet sent
          need,         \* need_reconnect
          retained,     \* jobs to be tried again
          kernel,       \* jobs the kernel has committed
          givenUp,      \* jobs whose message was sent short
          dropped,      \* dropped_count
          submitted,    \* history: jobs submitted
          submits, failures

wvars == <<todo, need, retained>>
bounds == <<submitted, submits, failures>>
vars == <<queue, batch, wpc, wvars, kernel, givenUp, dropped, bounds>>

Jobs == (1..NSets) \X (1..NIps)

TypeOK ==
    /\ queue \in Seq(Jobs) /\ Len(queue) <= AddQueueSize
    /\ batch \subseteq Jobs /\ retained \subseteq batch
    /\ wpc \in {"connect", "recv", "drain", "send"}
    /\ todo \subseteq 1..NSets /\ need \in BOOLEAN
    /\ kernel \subseteq Jobs /\ givenUp \subseteq Jobs /\ submitted \subseteq Jobs
    /\ dropped \in 0..MaxSubmits

Init ==
    /\ queue = <<>> /\ batch = {} /\ wpc = "connect"
    /\ todo = {} /\ need = FALSE /\ retained = {}
    /\ kernel = {} /\ givenUp = {} /\ dropped = 0
    /\ submitted = {} /\ submits = 0 /\ failures = 0

-----------------------------------------------------------------------------
\* add_ips, for one address: never added if special, dropped if the queue is full.
Submit(j) ==
    /\ submits < MaxSubmits /\ submits' = submits + 1
    /\ IF j[2] \in Special THEN UNCHANGED <<queue, dropped, submitted>>
       ELSE /\ submitted' = submitted \cup {j}
            /\ IF Len(queue) < AddQueueSize
               THEN queue' = Append(queue, j) /\ UNCHANGED dropped
               ELSE dropped' = dropped + 1 /\ UNCHANGED queue
    /\ UNCHANGED <<batch, wpc, wvars, kernel, givenUp, failures>>

\* NetfilterClient::new, tried until it succeeds.
Connect ==
    /\ wpc = "connect" /\ wpc' = "recv"
    /\ UNCHANGED <<queue, batch, wvars, kernel, givenUp, dropped, bounds>>

\* recv: the worker waits for a job, then takes all it finds.
Take ==
    /\ wpc \in {"recv", "drain"} /\ queue # <<>>
    /\ batch' = batch \cup {Head(queue)} /\ queue' = Tail(queue) /\ wpc' = "drain"
    /\ UNCHANGED <<wvars, kernel, givenUp, dropped, bounds>>
Sort ==
    /\ wpc = "drain" /\ queue = <<>>
    /\ wpc' = "send" /\ todo' = {j[1] : j \in batch} /\ need' = FALSE /\ retained' = {}
    /\ UNCHANGED <<queue, batch, kernel, givenUp, dropped, bounds>>

\* The messages for one set: an ipset's by family, all in parts of MaxIpsPerMessage.
Before(j, js) == Cardinality({k \in js : k[2] < j[2]})
Parts(js) == {{j \in js : Before(j, js) \div MaxIpsPerMessage = n} : n \in 0..NIps} \ {{}}
Messages(js) ==
    IF \A j \in js : j[1] \in NftSets THEN Parts(js)
    ELSE Parts({j \in js : j[2] \notin V6}) \cup Parts({j \in js : j[2] \in V6})

NextJobs == {j \in batch : j[1] = Min(todo)}

\* A set's jobs are sent, every message of them although one may fail.  An I/O error
\* keeps them all for later; a short send is only logged.
\* Mutant: the jobs of a set after the failing one are lost.
SkipLoses ==
    /\ wpc = "send" /\ todo # {} /\ need
    /\ todo' = todo \ {Min(todo)}
    /\ UNCHANGED <<queue, batch, wpc, need, retained, kernel, givenUp, dropped, bounds>>
Skip ==
    /\ wpc = "send" /\ todo # {} /\ need
    /\ todo' = todo \ {Min(todo)} /\ retained' = retained \cup NextJobs
    /\ UNCHANGED <<queue, batch, wpc, need, kernel, givenUp, dropped, bounds>>
SendSet ==
    /\ wpc = "send" /\ todo # {} /\ ~need
    /\ LET jobs == NextJobs
       IN \E failed \in SUBSET Messages(jobs) :
              /\ kernel' = kernel \cup UNION (Messages(jobs) \ failed)
              /\ IF failed = {} THEN UNCHANGED <<need, retained, givenUp, failures>>
                 ELSE /\ failures < MaxFailures /\ failures' = failures + 1
                      /\ \/ /\ need' = TRUE /\ retained' = retained \cup jobs
                            /\ UNCHANGED givenUp
                         \/ /\ givenUp' = givenUp \cup UNION failed
                            /\ UNCHANGED <<need, retained>>
    /\ todo' = todo \ {Min(todo)}
    /\ UNCHANGED <<queue, batch, wpc, dropped, submitted, submits>>

\* The end of a batch: what is kept for later is cut to the size of the queue, and
\* the socket is opened again after an error.
Less(j, k) == j[1] < k[1] \/ (j[1] = k[1] /\ j[2] < k[2])
Kept(js) == {j \in js : Cardinality({k \in js : Less(k, j)}) < AddQueueSize}
EndBatch ==
    /\ wpc = "send" /\ todo = {}
    /\ batch' = Kept(retained) /\ dropped' = dropped + Cardinality(retained \ batch')
    /\ wpc' = IF need THEN "connect" ELSE "recv"
    /\ need' = FALSE /\ retained' = {}
    /\ UNCHANGED <<queue, todo, kernel, givenUp, bounds>>

\* The worker waits for a job and no answer brings one.
Idle == wpc = "recv" /\ queue = <<>> /\ UNCHANGED vars

Worker == Connect \/ Take \/ Sort \/ Skip \/ SendSet \/ EndBatch
Next == (\E j \in Jobs : Submit(j)) \/ Worker \/ Idle

Spec == Init /\ [][Next]_vars

-----------------------------------------------------------------------------
\* An address that was submitted is in the kernel's set or on its way there, or it
\* was counted in dropped_count, or its message was sent short: an error of the
\* socket for one set loses no job of that or another set.
Held == {queue[i] : i \in DOMAIN queue} \cup batch
Accounted == Cardinality(submitted \ (kernel \cup Held \cup givenUp)) <= dropped

\* Every message is of one family for an ipset, and none is longer than it may be,
\* so that together they are the batch.
MessagesCover ==
    wpc = "send" => \A s \in todo :
        LET jobs == {j \in batch : j[1] = s}
        IN /\ UNION Messages(jobs) = jobs
           /\ \A m \in Messages(jobs) :
                  /\ Cardinality(m) <= MaxIpsPerMessage
                  /\ s \in NftSets \/ \A j, k \in m : (j[2] \in V6) = (k[2] \in V6)

\* What is kept for later never outgrows the queue, however often the socket fails.
BacklogBounded == wpc \in {"connect", "recv"} => Cardinality(batch) <= AddQueueSize

\* The worker reconnects "rather than exiting permanently" (worker.rs:43): the queue
\* is always emptied again.
QueueEmptied == []<>(queue = <<>>)

=============================================================================
