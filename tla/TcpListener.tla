---------------------------- MODULE TcpListener ----------------------------
(***************************************************************************)
(* listener.rs: client connections over TCP.  serve_tcp_listener takes a   *)
(* slot for each and handle_tcp_conn reads its queries one after another,  *)
(* under the idle and the read timeout; a query with a cached answer is    *)
(* answered by the handler, any other by a task of its own, and the        *)
(* answers share the write half through a mutex.                           *)
(***************************************************************************)
EXTENDS Integers, Sequences, FiniteSets

CONSTANTS Conns,
          Queries,      \* Queries[c]: the queries the client of c sends, in order
          Cached,       \* those the fast path answers
          Ignored,      \* those without an answer (FastPathOutcome::Drop, Ok(None))
          Timeouts,     \* Timeouts[c]: the reads of c that have a timeout; 0 in the
                        \* configuration when c was accepted means none
          MaxConns      \* tcp_max_connections

TcpAssumption ==
    /\ DOMAIN Queries = Conns /\ MaxConns \in Nat \ {0}
    /\ Timeouts \in [Conns -> SUBSET {"length", "body"}]

VARIABLES hpc,          \* hpc[c]: where the handler of c is
          slots,        \* permits of tcp_conn_limit
          read,         \* read[c]: queries read
          task,         \* task[q]: where the task of a query is
          writer,       \* writer[c]: the query whose answer holds the write half
          out,          \* out[c]: halves of answers written
          full,         \* connections whose client has left its answers unread
          eof,          \* connections whose client has closed its side
          reset         \* connections the client has broken

client == <<full, eof, reset>>
vars == <<hpc, slots, read, task, writer, out, client>>

All == UNION {{Queries[c][i] : i \in DOMAIN Queries[c]} : c \in Conns}
ConnOf(q) == CHOOSE c \in Conns : \E i \in DOMAIN Queries[c] : Queries[c][i] = q
Nobody == "nobody"

TypeOK ==
    /\ hpc \in [Conns -> {"none", "length", "body", "answer", "closed", "refused"}]
    /\ slots \in 0..MaxConns
    /\ \A c \in Conns : read[c] \in 0..Len(Queries[c])
    /\ task \in [All -> {"none", "resolving", "locking", "writing", "answered", "over"}]
    /\ \A c \in Conns : writer[c] = Nobody \/ ConnOf(writer[c]) = c
    /\ full \subseteq Conns /\ eof \subseteq Conns /\ reset \subseteq Conns

Init ==
    /\ hpc = [c \in Conns |-> "none"] /\ slots = MaxConns /\ read = [c \in Conns |-> 0]
    /\ task = [q \in All |-> "none"] /\ writer = [c \in Conns |-> Nobody]
    /\ out = [c \in Conns |-> <<>>]
    /\ full = {} /\ eof = {} /\ reset = {}

-----------------------------------------------------------------------------
\* serve_tcp_listener: a connection over the limit is dropped at once.
Accept(c) ==
    /\ hpc[c] = "none"
    /\ IF slots > 0 THEN hpc' = [hpc EXCEPT ![c] = "length"] /\ slots' = slots - 1
                    ELSE hpc' = [hpc EXCEPT ![c] = "refused"] /\ UNCHANGED slots
    /\ UNCHANGED <<read, task, writer, out, client>>

\* The handler returns and its slot is free.
Close(c) == hpc' = [hpc EXCEPT ![c] = "closed"] /\ slots' = slots + 1

\* The length prefix of the next query is read; one of zero is skipped.
ReadLength(c) ==
    /\ hpc[c] = "length" /\ c \notin eof \cup reset /\ read[c] < Len(Queries[c])
    /\ hpc' = [hpc EXCEPT ![c] = "body"]
    /\ UNCHANGED <<slots, read, task, writer, out, client>>

\* The body is read, and the query answered from the cache, dropped, or given to a
\* task.
ReadBody(c) ==
    LET q == Queries[c][read[c] + 1]
    IN /\ hpc[c] = "body" /\ c \notin eof \cup reset
       /\ read' = [read EXCEPT ![c] = @ + 1]
       /\ IF q \in Cached
          THEN hpc' = [hpc EXCEPT ![c] = "answer"] /\ task' = [task EXCEPT ![q] = "locking"]
          ELSE /\ hpc' = [hpc EXCEPT ![c] = "length"]
               /\ \E d \in {"resolving"} \cup (IF q \in Ignored THEN {"over"} ELSE {}) :
                     task' = [task EXCEPT ![q] = d]
       /\ UNCHANGED <<slots, writer, out, client>>

\* The idle timeout, or the read timeout, where there is one.
TimeOut(c) ==
    /\ hpc[c] \in Timeouts[c] /\ Close(c)
    /\ UNCHANGED <<read, task, writer, out, client>>
\* The client closes its side, or the connection breaks, while the handler reads.
ReadFails(c) ==
    /\ hpc[c] \in {"length", "body"} /\ c \in eof \cup reset /\ Close(c)
    /\ UNCHANGED <<read, task, writer, out, client>>

-----------------------------------------------------------------------------
\* handle_packet_slow_preparsed returns with an answer, or without one.
Resolve(q) ==
    /\ task[q] = "resolving"
    /\ task' = [task EXCEPT ![q] = IF q \in Ignored THEN "over" ELSE "locking"]
    /\ UNCHANGED <<hpc, slots, read, writer, out, client>>

\* The write half is locked for the whole of an answer.
Lock(q) ==
    /\ task[q] = "locking" /\ writer[ConnOf(q)] = Nobody
    /\ task' = [task EXCEPT ![q] = "writing"] /\ writer' = [writer EXCEPT ![ConnOf(q)] = q]
    /\ UNCHANGED <<hpc, slots, read, out, client>>

\* write_all: the socket takes an answer in pieces, without a timeout, and none while its
\* buffers are full, which a piece may make them.
Written(q) == Len(SelectSeq(out[ConnOf(q)], LAMBDA x : x = q))
Write(q) ==
    /\ task[q] = "writing" /\ ConnOf(q) \notin full \cup reset /\ Written(q) < 2
    /\ out' = [out EXCEPT ![ConnOf(q)] = Append(@, q)]
    /\ full' \in {full, full \cup {ConnOf(q)}}
    /\ UNCHANGED <<hpc, slots, read, task, writer, eof, reset>>
\* The lock is dropped.  The handler reads on after its own answer, and returns if
\* that failed.
WriteEnds(q) ==
    LET c == ConnOf(q)
        ok == Written(q) = 2
    IN /\ task[q] = "writing" /\ (ok \/ c \in reset)
       /\ task' = [task EXCEPT ![q] = IF ok THEN "answered" ELSE "over"]
       /\ writer' = [writer EXCEPT ![c] = Nobody]
       /\ IF q \notin Cached THEN UNCHANGED <<hpc, slots>>
          ELSE IF ok THEN hpc' = [hpc EXCEPT ![c] = "length"] /\ UNCHANGED slots
          ELSE Close(c)
       /\ UNCHANGED <<read, out, client>>

\* The client reads what it was sent, closes its side, or breaks the connection.
Open(c) == hpc[c] \in {"length", "body", "answer", "closed"} /\ c \notin reset
Resume(c) ==
    /\ Open(c) /\ c \in full /\ full' = full \ {c}
    /\ UNCHANGED <<hpc, slots, read, task, writer, out, eof, reset>>
Finish(c) ==
    /\ Open(c) /\ c \notin eof /\ eof' = eof \cup {c}
    /\ UNCHANGED <<hpc, slots, read, task, writer, out, full, reset>>
Reset(c) ==
    /\ Open(c) /\ reset' = reset \cup {c}
    /\ UNCHANGED <<hpc, slots, read, task, writer, out, full, eof>>

\* All connections are closed and all tasks have ended.
Idle ==
    /\ \A c \in Conns : hpc[c] \in {"closed", "refused"}
    /\ \A q \in All : task[q] \notin {"resolving", "locking", "writing"}
    /\ UNCHANGED vars

ConnStep(c) == ReadLength(c) \/ ReadBody(c) \/ TimeOut(c) \/ ReadFails(c)
TaskStep(q) == Resolve(q) \/ Lock(q) \/ Write(q) \/ WriteEnds(q)

ClientStep(c) == Resume(c) \/ Finish(c) \/ Reset(c)

Next == \/ \E c \in Conns : Accept(c) \/ ConnStep(c) \/ ClientStep(c)
        \/ \E q \in All : TaskStep(q)
        \/ Idle

Spec == Init /\ [][Next]_vars

-----------------------------------------------------------------------------
\* The answers on a connection are written one after another, none inside another,
\* although the handler and any number of tasks write them.
AnswersWhole ==
    \A c \in Conns : \A i \in 1..Len(out[c]) - 1 :
        out[c][i] # out[c][i + 1] =>
            i % 2 = 0 /\ \A j \in i + 1..Len(out[c]) : out[c][j] # out[c][i]

\* At most tcp_max_connections handlers run, and no slot is lost.
HandlersLimited ==
    slots + Cardinality({c \in Conns : hpc[c] \in {"length", "body", "answer"}}) = MaxConns

\* A query that was read is answered unless it has no answer, or its client breaks the
\* connection or never reads on: also when the idle timeout, or the client's closing its
\* side, ends the handler while its task runs.
ReadIsAnswered ==
    \A c \in Conns :
        \/ <>[](c \in full)
        \/ []<>(\A i \in DOMAIN Queries[c] :
                   LET q == Queries[c][i]
                   IN read[c] < i \/ task[q] = "answered" \/ q \in Ignored \/ c \in reset)

\* A client that stalls, at any byte of a query, or goes away does not keep its slot.  It
\* keeps it where the configuration has no timeout for the read it stalls, and while a
\* cached answer waits for it to read on: write_all has none.
SlotsComeBack ==
    \A c \in Conns :
        \/ []<>(hpc[c] \in {"none", "refused", "closed"})
        \/ <>[](hpc[c] \in {"length", "body"} \ Timeouts[c] /\ c \notin eof \cup reset)
        \/ <>[](hpc[c] = "answer" /\ c \in full \ reset)
=============================================================================
