------------------------------- MODULE TcpMux -------------------------------
(***************************************************************************)
(* upstream/tcp_mux.rs: queries multiplexed over one TCP or TLS connection *)
(* with a reader and a writer task each.  The async mutex writer_tx holds  *)
(* the sender of the current connection and is kept while connecting; the  *)
(* generation counts connections.  Whoever sees a failure disconnects: it  *)
(* withdraws the sender, fails the registered queries and wakes the other  *)
(* task.  Sustained timeouts do the same from outside (force_reconnect).   *)
(*                                                                         *)
(* Connections are numbered by generation; 0 is None.  A registry entry is *)
(* an open response channel, and clear() is one step: that it goes shard   *)
(* by shard is in InflightRegistry, which also has the IDs.                *)
(***************************************************************************)
EXTENDS Naturals, FiniteSets

CONSTANTS Exchanges,    \* calls of TcpMux::exchange
          QueueCap,     \* WRITE_QUEUE_CAP
          MaxConns,     \* bound: connections established
          MaxForce      \* bound: force_reconnect tasks

TcpMuxAssumption == /\ QueueCap \in Nat \ {0}
                    /\ MaxConns \in Nat /\ MaxForce \in Nat
                    /\ IsFiniteSet(Exchanges)

Conns == 1 .. MaxConns

VARIABLES writerTx,    \* writer_tx: the connection whose sender it holds
          connecting,  \* the exchanges that hold the lock of writer_tx (at most one)
          generation,
          tornDown,    \* current_torn_down: the connection whose Notify it holds
          backoff,     \* now_ms() < reconnect_not_before_ms
          reader,      \* reader[c], writer[c]: the tasks of connection c
          woken,       \* woken[c]: the reader's wait on torn_down was notified
          writer,
          batch,       \* batch[c]: the frames the writer is writing
          queue,       \* queue[c]: the channel in front of the writer
          sent,        \* sent[c]: queries the peer may still answer on c
          xpc, xconn,  \* where an exchange is, and the connection it was given
          chan,        \* the response channel of an exchange
          force,       \* the force_reconnect task
          forced,      \* how many there were
          node         \* whether the UpstreamNode still exists

lockVars == <<writerTx, connecting, generation, tornDown, backoff>>
taskVars == <<reader, woken, writer, batch, queue, sent>>
exchangeVars == <<xpc, xconn, chan>>
forceVars == <<force, forced>>
vars == <<lockVars, taskVars, exchangeVars, forceVars, node>>

DisconnectPcs == {"lock", "clear", "notify", "done"}
ReaderPcs == {"none", "top", "pick", "idle", "active"} \cup DisconnectPcs
WriterPcs == {"none", "recv", "write"} \cup DisconnectPcs

Ended == {"none", "done"}
Registered(x) == xpc[x] \notin {"new", "done"} /\ chan[x] = "open"

TypeOK ==
    /\ writerTx \in {0} \cup Conns /\ generation \in {0} \cup Conns
    /\ tornDown \in {0} \cup Conns
    /\ connecting \in SUBSET Exchanges /\ Cardinality(connecting) <= 1
    /\ backoff \in BOOLEAN
    /\ reader \in [Conns -> ReaderPcs] /\ writer \in [Conns -> WriterPcs]
    /\ woken \in [Conns -> BOOLEAN]
    /\ \A f \in {batch, queue, sent} : f \in [Conns -> SUBSET Exchanges]
    /\ \A c \in Conns : Cardinality(queue[c]) <= QueueCap
    /\ xpc \in [Exchanges -> {"new", "locking", "connecting", "sending", "waiting", "done"}]
    /\ xconn \in [Exchanges -> {0} \cup Conns]
    /\ chan \in [Exchanges -> {"open", "response", "closed"}]
    /\ force \in {"off", "lock", "clear", "take"} /\ forced \in 0 .. MaxForce
    /\ node \in {"live", "dropped"}

Init ==
    /\ writerTx = 0 /\ connecting = {} /\ generation = 0 /\ tornDown = 0 /\ backoff = FALSE
    /\ reader = [c \in Conns |-> "none"] /\ writer = [c \in Conns |-> "none"]
    /\ woken = [c \in Conns |-> FALSE] /\ batch = [c \in Conns |-> {}]
    /\ queue = [c \in Conns |-> {}] /\ sent = [c \in Conns |-> {}]
    /\ xpc = [x \in Exchanges |-> "new"] /\ xconn = [x \in Exchanges |-> 0]
    /\ chan = [x \in Exchanges |-> "open"]
    /\ force = "off" /\ forced = 0 /\ node = "live"

-----------------------------------------------------------------------------
(* TcpMux::exchange and ensure_connection.                                  *)

Go(x, pc) == xpc' = [xpc EXCEPT ![x] = pc]
\* The exchange returns, and its guards go: the registry entry, the sender.
Leave(x) == /\ Go(x, "done")
            /\ xconn' = [xconn EXCEPT ![x] = 0]
            /\ chan' = [chan EXCEPT ![x] = "open"]

\* Registers; the registry is full or the packet too large for a frame.
Register(x) ==
    /\ xpc[x] = "new" /\ node = "live"
    /\ Go(x, "locking") \/ Go(x, "done")
    /\ UNCHANGED <<lockVars, taskVars, xconn, chan, forceVars, node>>

\* With the lock: take the sender, or fail within the backoff, or connect.
EnsureConnection(x) ==
    /\ xpc[x] = "locking" /\ connecting = {}
    /\ \/ /\ writerTx # 0
          /\ xconn' = [xconn EXCEPT ![x] = writerTx] /\ Go(x, "sending")
          /\ UNCHANGED <<connecting, chan>>
       \/ /\ writerTx = 0 /\ backoff
          /\ Leave(x) /\ UNCHANGED connecting
       \/ /\ writerTx = 0 /\ ~backoff
          /\ connecting' = {x} /\ Go(x, "connecting") /\ UNCHANGED <<xconn, chan>>
    /\ UNCHANGED <<writerTx, generation, tornDown, backoff, taskVars, forceVars, node>>

\* Still under the lock: the new generation, its sender, its signal, its tasks.
Connect(x) ==
    LET c == generation + 1
    IN /\ xpc[x] = "connecting" /\ c \in Conns
       /\ generation' = c /\ writerTx' = c /\ tornDown' = c
       /\ connecting' = {}
       /\ reader' = [reader EXCEPT ![c] = "top"]
       /\ writer' = [writer EXCEPT ![c] = "recv"]
       /\ xconn' = [xconn EXCEPT ![x] = c] /\ Go(x, "sending")
       /\ UNCHANGED <<backoff, woken, batch, queue, sent, chan, forceVars, node>>

ConnectFails(x) ==
    /\ xpc[x] = "connecting"
    /\ backoff' = TRUE /\ connecting' = {}
    /\ Leave(x)
    /\ UNCHANGED <<writerTx, generation, tornDown, taskVars, forceVars, node>>

BackoffOver ==
    /\ backoff /\ backoff' = FALSE
    /\ UNCHANGED <<writerTx, connecting, generation, tornDown, taskVars, exchangeVars,
                   forceVars, node>>

\* The send waits for room; it fails once the writer has dropped its end.
Enqueue(x) ==
    LET c == xconn[x]
    IN /\ xpc[x] = "sending"
       /\ \/ /\ writer[c] # "done" /\ Cardinality(queue[c]) < QueueCap
             /\ queue' = [queue EXCEPT ![c] = @ \cup {x}] /\ Go(x, "waiting")
             /\ UNCHANGED <<xconn, chan>>
          \/ writer[c] = "done" /\ Leave(x) /\ UNCHANGED queue
       /\ UNCHANGED <<lockVars, reader, woken, writer, batch, sent, forceVars, node>>

\* The response, or the closed channel: the exchange returns.
Return(x) ==
    /\ xpc[x] = "waiting" /\ chan[x] # "open"
    /\ Leave(x)
    /\ UNCHANGED <<lockVars, taskVars, forceVars, node>>

\* Mutant: the timeout is around the wait for the response only.
GiveUpWaiting(x) ==
    /\ xpc[x] = "waiting"
    /\ Leave(x)
    /\ UNCHANGED <<lockVars, taskVars, forceVars, node>>
\* One timeout around ensure_connection and send, another around the wait; a
\* cancelled exchange drops the same guards, the lock among them.  A run of
\* timeouts calls force_reconnect, at most one task at a time.
GiveUp(x) ==
    /\ xpc[x] \in {"locking", "connecting", "sending", "waiting"}
    /\ Leave(x)
    /\ connecting' = connecting \ {x}
    /\ \/ force = "off" /\ forced < MaxForce /\ force' = "lock" /\ forced' = forced + 1
       \/ UNCHANGED forceVars
    /\ UNCHANGED <<writerTx, generation, tornDown, backoff, taskVars, node>>

-----------------------------------------------------------------------------
(* disconnect, run by the reader or the writer of connection c.             *)

ClearPending == chan' = [x \in Exchanges |-> IF Registered(x) THEN "closed" ELSE chan[x]]
Notify(c) == woken' = [woken EXCEPT ![c] = @ \/ reader[c] = "idle"]

\* Mutant: whichever connection is current is torn down.
WithdrawAny(c) == connecting = {} /\ writerTx' = 0
\* The lock is taken before the generation is compared.
Withdraw(c) ==
    /\ connecting = {}
    /\ writerTx' = IF generation = c THEN 0 ELSE writerTx
\* Mutant: the registered queries are left to their timeouts.
AfterWithdrawNotify(c) == IF generation = c THEN "notify" ELSE "done"
AfterWithdraw(c) == IF generation = c THEN "clear" ELSE "done"

\* A step of disconnect, by a task that is at pc and goes to task.
Disconnect(c, pc, task) ==
    \/ /\ pc = "lock" /\ Withdraw(c) /\ task = AfterWithdraw(c)
       /\ UNCHANGED <<connecting, woken, chan>>
    \/ /\ pc = "clear" /\ ClearPending /\ task = "notify"
       /\ UNCHANGED <<writerTx, connecting, woken>>
    \/ /\ pc = "notify" /\ Notify(c) /\ task = "done"
       /\ UNCHANGED <<writerTx, connecting, chan>>

ReaderDisconnects(c) ==
    /\ \E next \in DisconnectPcs :
           /\ Disconnect(c, reader[c], next)
           /\ reader' = [reader EXCEPT ![c] = next]
           /\ sent' = [sent EXCEPT ![c] = IF next = "done" THEN {} ELSE @]
    /\ UNCHANGED <<generation, tornDown, backoff, writer, batch, queue, xpc, xconn,
                   forceVars, node>>
WriterDisconnects(c) ==
    /\ \E next \in DisconnectPcs :
           /\ Disconnect(c, writer[c], next)
           /\ writer' = [writer EXCEPT ![c] = next]
           /\ queue' = [queue EXCEPT ![c] = IF next = "done" THEN {} ELSE @]
    /\ UNCHANGED <<generation, tornDown, backoff, reader, batch, sent, xpc, xconn,
                   forceVars, node>>

-----------------------------------------------------------------------------
(* mux_reader_loop.                                                         *)

ReaderOnly == UNCHANGED <<lockVars, writer, batch, queue, xpc, xconn, forceVars, node>>
SetReader(c, pc) == reader' = [reader EXCEPT ![c] = pc]

ReaderChecks(c) ==
    /\ reader[c] = "top"
    /\ SetReader(c, IF generation # c THEN "done" ELSE "pick")
    /\ sent' = [sent EXCEPT ![c] = IF generation # c THEN {} ELSE @]
    /\ ReaderOnly /\ UNCHANGED <<woken, chan>>

\* Without a query in the registry the reader waits without a timeout, and is
\* woken by notifications from now on only.
ReaderPicks(c) ==
    /\ reader[c] = "pick"
    /\ SetReader(c, IF \E x \in Exchanges : Registered(x) THEN "active" ELSE "idle")
    /\ ReaderOnly /\ UNCHANGED <<woken, sent, chan>>

\* A frame: the answer to a query sent on c, completed if it is registered.
ReaderFrame(c) ==
    /\ reader[c] \in {"idle", "active"}
    /\ \E x \in sent[c] :
           /\ sent' = [sent EXCEPT ![c] = @ \ {x}]
           /\ chan' = [chan EXCEPT ![x] = IF Registered(x) THEN "response" ELSE @]
    /\ SetReader(c, "top")
    /\ woken' = [woken EXCEPT ![c] = FALSE]
    /\ ReaderOnly

\* End of stream, a malformed or oversized frame, or one cut short.
ReaderFails(c) ==
    /\ reader[c] \in {"idle", "active"}
    /\ SetReader(c, "lock")
    /\ woken' = [woken EXCEPT ![c] = FALSE]
    /\ ReaderOnly /\ UNCHANGED <<sent, chan>>
ReaderTimesOut(c) == reader[c] = "active" /\ ReaderFails(c)
ReaderWoken(c) == reader[c] = "idle" /\ woken[c] /\ ReaderFails(c)

-----------------------------------------------------------------------------
(* mux_writer_loop.                                                         *)

WriterOnly == UNCHANGED <<lockVars, reader, woken, exchangeVars, forceVars, node>>

\* The next batch, unless a newer connection has superseded this one.
WriterTakes(c) ==
    /\ writer[c] = "recv" /\ queue[c] # {}
    /\ writer' = [writer EXCEPT ![c] = IF generation # c THEN "done" ELSE "write"]
    /\ batch' = [batch EXCEPT ![c] = IF generation # c THEN {} ELSE queue[c]]
    /\ queue' = [queue EXCEPT ![c] = {}]
    /\ UNCHANGED sent /\ WriterOnly

WriterWrites(c) ==
    /\ writer[c] = "write"
    /\ \/ /\ writer' = [writer EXCEPT ![c] = "recv"]
          /\ sent' = [sent EXCEPT ![c] = IF reader[c] = "done" THEN @ ELSE @ \cup batch[c]]
       \/ writer' = [writer EXCEPT ![c] = "lock"] /\ UNCHANGED sent
    /\ batch' = [batch EXCEPT ![c] = {}]
    /\ UNCHANGED queue /\ WriterOnly

\* recv returns None when no sender is left: neither writer_tx nor an
\* exchange holds one.  The tasks keep writer_tx itself alive.
WriterClosed(c) ==
    /\ writer[c] = "recv" /\ queue[c] = {} /\ writerTx # c
    /\ \A x \in Exchanges : ~(xpc[x] = "sending" /\ xconn[x] = c)
    /\ writer' = [writer EXCEPT ![c] = "done"]
    /\ UNCHANGED <<batch, queue, sent>> /\ WriterOnly

-----------------------------------------------------------------------------
(* force_reconnect's task, and the end of the node.                         *)

ForceWithdraw ==
    /\ force = "lock" /\ connecting = {}
    /\ writerTx' = 0 /\ force' = "clear"
    /\ UNCHANGED <<connecting, generation, tornDown, backoff, taskVars, exchangeVars,
                   forced, node>>
ForceClear ==
    /\ force = "clear"
    /\ ClearPending /\ force' = "take"
    /\ UNCHANGED <<lockVars, taskVars, xpc, xconn, forced, node>>
ForceNotify ==
    /\ force = "take"
    /\ IF tornDown = 0 THEN UNCHANGED woken ELSE Notify(tornDown)
    /\ tornDown' = 0 /\ force' = "off"
    /\ UNCHANGED <<writerTx, connecting, generation, backoff, reader, writer, batch, queue,
                   sent, exchangeVars, forced, node>>

\* Drop for UpstreamNode does nothing for this transport.
DropNode ==
    /\ node = "live" /\ \A x \in Exchanges : xpc[x] \in {"new", "done"}
    /\ node' = "dropped"
    /\ UNCHANGED <<lockVars, taskVars, exchangeVars, forceVars>>

-----------------------------------------------------------------------------
ReaderStep(c) == \/ ReaderChecks(c) \/ ReaderPicks(c)
                 \/ ReaderTimesOut(c) \/ ReaderWoken(c) \/ ReaderDisconnects(c)
WriterStep(c) == WriterTakes(c) \/ WriterWrites(c) \/ WriterClosed(c) \/ WriterDisconnects(c)
ForceStep == ForceWithdraw \/ ForceClear \/ ForceNotify

\* Without its node nothing need ever happen again.
Idle == node = "dropped" /\ force = "off" /\ UNCHANGED vars

Next ==
    \/ \E x \in Exchanges :
          \/ Register(x) \/ EnsureConnection(x) \/ Connect(x) \/ ConnectFails(x)
          \/ Enqueue(x) \/ Return(x) \/ GiveUp(x)
    \/ \E c \in Conns : \/ ReaderStep(c) \/ ReaderFrame(c) \/ ReaderFails(c)
                        \/ WriterStep(c)
    \/ BackoffOver \/ ForceStep \/ DropNode
    \/ Idle

Spec == Init /\ [][Next]_vars

-----------------------------------------------------------------------------
\* disconnect: a sender is withdrawn only by a task of its own connection or
\* by force_reconnect; the stale disconnect of an older connection never
\* removes it, however long it waited for the lock.
OnlyOwnTeardown ==
    \A c \in Conns : writerTx = c /\ writerTx' # c =>
        \/ reader[c] = "lock" /\ reader'[c] = "clear"
        \/ writer[c] = "lock" /\ writer'[c] = "clear"
        \/ force = "lock" /\ force' = "clear"

\* disconnect and force_reconnect: a query given a connection that has since
\* been withdrawn is told so, and does not sit out its timeout, unless the
\* teardown that will tell it is still on its way.
Clearing == \/ force = "clear"
            \/ \E c \in Conns : reader[c] = "clear" \/ writer[c] = "clear"
WithdrawnQueriesFail ==
    \A x \in Exchanges :
        xpc[x] \in {"sending", "waiting"} /\ writerTx # xconn[x] => ~Registered(x) \/ Clearing

\* exchange returns, whoever holds the lock or is connecting.
ExchangesEnd == []<>(\A x \in Exchanges : xpc[x] \in {"new", "done"})

\* mux_writer_loop: once its sender is withdrawn the writer ends, whether it
\* was writing, waiting for frames or tearing down itself.
WithdrawnWritersEnd ==
    []<>(\A c \in Conns : writerTx = c \/ writer[c] \in {"none", "done"})

=============================================================================
