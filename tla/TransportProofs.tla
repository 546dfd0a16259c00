--------------------------- MODULE TransportProofs ---------------------------
(***************************************************************************)
(* The connections of the upstream side, for any number of exchanges,      *)
(* permits and connections: the invariants of TcpMux and of ConnSlot, each *)
(* with the inductive invariant behind it.                                 *)
(***************************************************************************)
EXTENDS Integers, FiniteSets, TLAPS

-----------------------------------------------------------------------------
(* TcpMux.                                                                  *)

CONSTANTS TcpExchanges, QueueCap, TcpConns, MaxForce

VARIABLES writerTx, connecting, generation, tornDown, backoff, reader, woken, writer,
          batch, queue, sent, tcpXpc, xconn, chan, force, forced, node

\* Exchanges over one connection after the other.
Tcp == INSTANCE TcpMux WITH
    Exchanges <- TcpExchanges, MaxConns <- TcpConns, xpc <- tcpXpc

TcpTyped ==
    /\ writerTx \in 0 .. TcpConns /\ generation \in 0 .. TcpConns
    /\ tornDown \in 0 .. TcpConns
    /\ backoff \in BOOLEAN
    /\ reader \in [Tcp!Conns -> Tcp!ReaderPcs] /\ writer \in [Tcp!Conns -> Tcp!WriterPcs]
    /\ woken \in [Tcp!Conns -> BOOLEAN]
    /\ batch \in [Tcp!Conns -> SUBSET TcpExchanges]
    /\ queue \in [Tcp!Conns -> SUBSET TcpExchanges]
    /\ sent \in [Tcp!Conns -> SUBSET TcpExchanges]
    /\ tcpXpc \in [TcpExchanges -> {"new", "locking", "connecting", "sending", "waiting", "done"}]
    /\ xconn \in [TcpExchanges -> 0 .. TcpConns]
    /\ chan \in [TcpExchanges -> {"open", "response", "closed"}]
    /\ force \in {"off", "lock", "clear", "take"} /\ forced \in 0 .. MaxForce
    /\ node \in {"live", "dropped"}

\* The lock is held by the one exchange that connects, and there is no sender meanwhile.
TcpLocked ==
    /\ connecting = {x \in TcpExchanges : tcpXpc[x] = "connecting"}
    /\ \A x, y \in connecting : x = y
    /\ connecting # {} => writerTx = 0

\* The sender is that of the newest connection, and no later one has tasks yet.
TcpCurrent ==
    /\ writerTx \in {0, generation}
    /\ \A c \in Tcp!Conns : c > generation => reader[c] = "none" /\ writer[c] = "none"

\* Whoever sends or waits was given a connection.
TcpGiven ==
    \A x \in TcpExchanges : tcpXpc[x] \in {"sending", "waiting"} => xconn[x] \in Tcp!Conns

\* All but the length of the queues.
TcpShape == TcpTyped /\ TcpLocked /\ TcpCurrent /\ TcpGiven /\ Tcp!WithdrawnQueriesFail

\* The channel in front of a writer holds no more than its capacity.
TcpQueued == \A c \in Tcp!Conns : Cardinality(queue[c]) <= QueueCap

TcpInv == TcpShape /\ TcpQueued

\* A step adds a query to a queue that has room, or empties a queue, or neither.
TcpQueueMoves ==
    \A c \in Tcp!Conns :
        \/ queue'[c] = queue[c] \/ queue'[c] = {}
        \/ /\ Tcp!Cardinality(queue[c]) < QueueCap
           /\ \E x \in TcpExchanges : queue'[c] = queue[c] \cup {x}

TcpSizes == /\ QueueCap \in Nat /\ TcpConns \in Nat /\ MaxForce \in Nat
            /\ IsFiniteSet(TcpExchanges)

LEMMA TcpFinite == \A S : /\ Tcp!IsFiniteSet(S) = IsFiniteSet(S)
                          /\ Tcp!Cardinality(S) = Cardinality(S)
BY DEF Tcp!IsFiniteSet, IsFiniteSet, Tcp!Cardinality, Cardinality

LEMMA TcpConstants == Tcp!TcpMuxAssumption => TcpSizes
BY Zenon, TcpFinite DEF Tcp!TcpMuxAssumption, TcpSizes

LEMMA TcpInitShape ==
    ASSUME TcpSizes, Tcp!Init
    PROVE  TcpShape
<1>. USE DEF TcpSizes, Tcp!Init
<1>0. backoff \in BOOLEAN /\ woken \in [Tcp!Conns -> BOOLEAN]
    BY Zenon
<1>1. TcpTyped
    BY <1>0 DEF TcpTyped, Tcp!ReaderPcs, Tcp!WriterPcs
<1>2. TcpLocked /\ TcpCurrent /\ TcpGiven
    BY Zenon DEF TcpLocked, TcpCurrent, TcpGiven
<1>3. Tcp!WithdrawnQueriesFail
    BY Zenon DEF Tcp!WithdrawnQueriesFail
<1>. QED BY Zenon, <1>1, <1>2, <1>3 DEF TcpShape

\* A step that ends no teardown and gives nobody a reason to complain leaves the queries
\* of withdrawn connections as they are.
LEMMA TcpTold ==
    ASSUME Tcp!WithdrawnQueriesFail,
           \/ Tcp!Clearing'
           \/ \A x \in TcpExchanges : ~Tcp!Registered(x)'
           \/ /\ Tcp!Clearing => Tcp!Clearing'
              /\ \A x \in TcpExchanges :
                     /\ tcpXpc'[x] \in {"sending", "waiting"} /\ writerTx' # xconn'[x]
                     /\ Tcp!Registered(x)'
                     => /\ tcpXpc[x] \in {"sending", "waiting"} /\ writerTx # xconn[x]
                        /\ Tcp!Registered(x)
    PROVE  Tcp!WithdrawnQueriesFail'
BY Zenon DEF Tcp!WithdrawnQueriesFail

\* What notify_waiters leaves is still a function to BOOLEAN.
LEMMA TcpNotifyTyped ==
    ASSUME NEW c, woken \in [Tcp!Conns -> BOOLEAN], Tcp!Notify(c) \/ UNCHANGED woken
    PROVE  woken' \in [Tcp!Conns -> BOOLEAN]
BY Zenon DEF Tcp!Notify

LEMMA TcpRegisterStep ==
    ASSUME TcpSizes, TcpShape, NEW x \in TcpExchanges, Tcp!Register(x)
    PROVE  TcpShape' /\ TcpQueueMoves
<1>. USE DEF TcpSizes, TcpShape, Tcp!Register, Tcp!Go, Tcp!lockVars, Tcp!taskVars,
    Tcp!exchangeVars, Tcp!forceVars
<1>1. TcpTyped'
    BY Zenon DEF TcpTyped
<1>2. TcpLocked'
    BY DEF TcpLocked, TcpTyped
<1>3. TcpCurrent'
    BY Zenon DEF TcpCurrent, TcpLocked, TcpTyped, Tcp!Conns
<1>4. TcpQueueMoves
    BY Zenon DEF TcpQueueMoves
<1>5. TcpGiven'
    BY DEF TcpGiven, TcpTyped
<1>6. Tcp!WithdrawnQueriesFail'
  <2>1. Tcp!Clearing => Tcp!Clearing'
      BY Zenon DEF Tcp!Clearing, TcpTyped
  <2>2. \A y \in TcpExchanges :
            /\ tcpXpc'[y] \in {"sending", "waiting"} /\ writerTx' # xconn'[y]
            /\ Tcp!Registered(y)'
            => /\ tcpXpc[y] \in {"sending", "waiting"} /\ writerTx # xconn[y]
               /\ Tcp!Registered(y)
      BY DEF Tcp!Registered, TcpTyped
  <2>. QED BY <2>1, <2>2, TcpTold
<1>. QED BY Zenon, <1>1, <1>2, <1>3, <1>4, <1>5, <1>6

LEMMA TcpEnsureStep ==
    ASSUME TcpSizes, TcpShape, NEW x \in TcpExchanges, Tcp!EnsureConnection(x)
    PROVE  TcpShape' /\ TcpQueueMoves
<1>. USE DEF TcpSizes, TcpShape, Tcp!EnsureConnection, Tcp!Leave, Tcp!Go, Tcp!lockVars,
    Tcp!taskVars, Tcp!exchangeVars, Tcp!forceVars
<1>1. TcpTyped'
    BY DEF TcpTyped
<1>2. TcpLocked'
    BY DEF TcpLocked, TcpTyped
<1>3. TcpCurrent'
    BY Zenon DEF TcpCurrent, TcpLocked, TcpTyped, Tcp!Conns
<1>4. TcpQueueMoves
    BY Zenon DEF TcpQueueMoves
<1>5. TcpGiven'
  <2>1. writerTx # 0 => writerTx \in Tcp!Conns
      BY DEF TcpTyped, Tcp!Conns
  <2>. QED BY <2>1 DEF TcpGiven, TcpTyped
<1>6. Tcp!WithdrawnQueriesFail'
  <2>1. Tcp!Clearing => Tcp!Clearing'
      BY Zenon DEF Tcp!Clearing, TcpTyped
  <2>2. \A y \in TcpExchanges :
            /\ tcpXpc'[y] \in {"sending", "waiting"} /\ writerTx' # xconn'[y]
            /\ Tcp!Registered(y)'
            => /\ tcpXpc[y] \in {"sending", "waiting"} /\ writerTx # xconn[y]
               /\ Tcp!Registered(y)
      BY DEF Tcp!Registered, TcpTyped
  <2>. QED BY Zenon, <2>1, <2>2, TcpTold
<1>. QED BY Zenon, <1>1, <1>2, <1>3, <1>4, <1>5, <1>6

LEMMA TcpConnectStep ==
    ASSUME TcpSizes, TcpShape, NEW x \in TcpExchanges, Tcp!Connect(x)
    PROVE  TcpShape' /\ TcpQueueMoves
<1>. USE DEF TcpSizes, TcpShape, Tcp!Connect, Tcp!Go, Tcp!lockVars, Tcp!taskVars,
    Tcp!exchangeVars, Tcp!forceVars
<1>1. TcpTyped'
    BY DEF TcpTyped, Tcp!ReaderPcs, Tcp!WriterPcs, Tcp!Conns
<1>2. TcpLocked'
    BY DEF TcpLocked, TcpTyped
<1>3. TcpCurrent'
    BY DEF TcpCurrent, TcpLocked, TcpTyped, Tcp!Conns
<1>4. TcpQueueMoves
    BY Zenon DEF TcpQueueMoves
<1>5. TcpGiven'
    BY Zenon DEF TcpGiven, TcpTyped, Tcp!Conns
<1>6. Tcp!WithdrawnQueriesFail'
  <2>1. Tcp!Clearing => Tcp!Clearing'
      BY DEF Tcp!Clearing, TcpTyped, TcpCurrent, Tcp!Conns
  <2>2. \A y \in TcpExchanges :
            /\ tcpXpc'[y] \in {"sending", "waiting"} /\ writerTx' # xconn'[y]
            /\ Tcp!Registered(y)'
            => /\ tcpXpc[y] \in {"sending", "waiting"} /\ writerTx # xconn[y]
               /\ Tcp!Registered(y)
      BY DEF Tcp!Registered, TcpTyped, TcpLocked, TcpGiven, Tcp!Conns
  <2>. QED BY Zenon, <2>1, <2>2, TcpTold
<1>. QED BY Zenon, <1>1, <1>2, <1>3, <1>4, <1>5, <1>6

LEMMA TcpConnectFailsStep ==
    ASSUME TcpSizes, TcpShape, NEW x \in TcpExchanges, Tcp!ConnectFails(x)
    PROVE  TcpShape' /\ TcpQueueMoves
<1>. USE DEF TcpSizes, TcpShape, Tcp!ConnectFails, Tcp!Leave, Tcp!Go, Tcp!lockVars,
    Tcp!taskVars, Tcp!exchangeVars, Tcp!forceVars
<1>1. TcpTyped'
    BY DEF TcpTyped
<1>2. TcpLocked'
    BY DEF TcpLocked, TcpTyped
<1>3. TcpCurrent'
    BY Zenon DEF TcpCurrent, TcpLocked, TcpTyped, Tcp!Conns
<1>4. TcpQueueMoves
    BY Zenon DEF TcpQueueMoves
<1>5. TcpGiven'
    BY Zenon DEF TcpGiven, TcpTyped
<1>6. Tcp!WithdrawnQueriesFail'
  <2>1. Tcp!Clearing => Tcp!Clearing'
      BY Zenon DEF Tcp!Clearing, TcpTyped
  <2>2. \A y \in TcpExchanges :
            /\ tcpXpc'[y] \in {"sending", "waiting"} /\ writerTx' # xconn'[y]
            /\ Tcp!Registered(y)'
            => /\ tcpXpc[y] \in {"sending", "waiting"} /\ writerTx # xconn[y]
               /\ Tcp!Registered(y)
      BY DEF Tcp!Registered, TcpTyped
  <2>. QED BY <2>1, <2>2, TcpTold
<1>. QED BY <1>1, <1>2, <1>3, <1>4, <1>5, <1>6

LEMMA TcpEnqueueStep ==
    ASSUME TcpSizes, TcpShape, NEW x \in TcpExchanges, Tcp!Enqueue(x)
    PROVE  TcpShape' /\ TcpQueueMoves
<1>. USE DEF TcpSizes, TcpShape, Tcp!Enqueue, Tcp!Leave, Tcp!Go, Tcp!lockVars, Tcp!taskVars,
    Tcp!exchangeVars, Tcp!forceVars
<1>1. TcpTyped'
    BY DEF TcpTyped
<1>2. TcpLocked'
    BY DEF TcpLocked, TcpTyped
<1>3. TcpCurrent'
    BY Zenon DEF TcpCurrent, TcpLocked, TcpTyped, Tcp!Conns
<1>4. TcpQueueMoves
    BY DEF TcpQueueMoves, TcpTyped
<1>5. TcpGiven'
    BY DEF TcpGiven, TcpTyped
<1>6. Tcp!WithdrawnQueriesFail'
  <2>1. Tcp!Clearing => Tcp!Clearing'
      BY Zenon DEF Tcp!Clearing, TcpTyped
  <2>2. \A y \in TcpExchanges :
            /\ tcpXpc'[y] \in {"sending", "waiting"} /\ writerTx' # xconn'[y]
            /\ Tcp!Registered(y)'
            => /\ tcpXpc[y] \in {"sending", "waiting"} /\ writerTx # xconn[y]
               /\ Tcp!Registered(y)
      BY DEF Tcp!Registered, TcpTyped
  <2>. QED BY Zenon, <2>1, <2>2, TcpTold
<1>. QED BY Zenon, <1>1, <1>2, <1>3, <1>4, <1>5, <1>6

LEMMA TcpReturnStep ==
    ASSUME TcpSizes, TcpShape, NEW x \in TcpExchanges, Tcp!Return(x)
    PROVE  TcpShape' /\ TcpQueueMoves
<1>. USE DEF TcpSizes, TcpShape, Tcp!Return, Tcp!Leave, Tcp!Go, Tcp!lockVars, Tcp!taskVars,
    Tcp!exchangeVars, Tcp!forceVars
<1>1. TcpTyped'
    BY DEF TcpTyped
<1>2. TcpLocked'
    BY Zenon DEF TcpLocked, TcpTyped
<1>3. TcpCurrent'
    BY Zenon DEF TcpCurrent, TcpLocked, TcpTyped, Tcp!Conns
<1>4. TcpQueueMoves
    BY Zenon DEF TcpQueueMoves
<1>5. TcpGiven'
    BY Zenon DEF TcpGiven, TcpTyped
<1>6. Tcp!WithdrawnQueriesFail'
  <2>1. Tcp!Clearing => Tcp!Clearing'
      BY Zenon DEF Tcp!Clearing, TcpTyped
  <2>2. \A y \in TcpExchanges :
            /\ tcpXpc'[y] \in {"sending", "waiting"} /\ writerTx' # xconn'[y]
            /\ Tcp!Registered(y)'
            => /\ tcpXpc[y] \in {"sending", "waiting"} /\ writerTx # xconn[y]
               /\ Tcp!Registered(y)
      BY Zenon DEF Tcp!Registered, TcpTyped
  <2>. QED BY <2>1, <2>2, TcpTold
<1>. QED BY Zenon, <1>1, <1>2, <1>3, <1>4, <1>5, <1>6

LEMMA TcpGiveUpStep ==
    ASSUME TcpSizes, TcpShape, NEW x \in TcpExchanges, Tcp!GiveUp(x)
    PROVE  TcpShape' /\ TcpQueueMoves
<1>. USE DEF TcpSizes, TcpShape, Tcp!GiveUp, Tcp!Leave, Tcp!Go, Tcp!lockVars, Tcp!taskVars,
    Tcp!exchangeVars, Tcp!forceVars
<1>1. TcpTyped'
    BY DEF TcpTyped
<1>2. TcpLocked'
    BY Zenon DEF TcpLocked, TcpTyped
<1>3. TcpCurrent'
    BY Zenon DEF TcpCurrent, TcpLocked, TcpTyped, Tcp!Conns
<1>4. TcpQueueMoves
    BY Zenon DEF TcpQueueMoves
<1>5. TcpGiven'
    BY Zenon DEF TcpGiven, TcpTyped
<1>6. Tcp!WithdrawnQueriesFail'
  <2>1. Tcp!Clearing => Tcp!Clearing'
      BY Zenon DEF Tcp!Clearing, TcpTyped
  <2>2. \A y \in TcpExchanges :
            /\ tcpXpc'[y] \in {"sending", "waiting"} /\ writerTx' # xconn'[y]
            /\ Tcp!Registered(y)'
            => /\ tcpXpc[y] \in {"sending", "waiting"} /\ writerTx # xconn[y]
               /\ Tcp!Registered(y)
      BY Zenon DEF Tcp!Registered, TcpTyped
  <2>. QED BY <2>1, <2>2, TcpTold
<1>. QED BY <1>1, <1>2, <1>3, <1>4, <1>5, <1>6

LEMMA TcpReaderStep ==
    ASSUME TcpSizes, TcpShape, NEW c \in Tcp!Conns, 
           Tcp!ReaderChecks(c) \/ Tcp!ReaderPicks(c) \/ Tcp!ReaderFails(c)
    PROVE  TcpShape' /\ TcpQueueMoves
<1>. USE DEF TcpSizes, TcpShape, Tcp!ReaderChecks, Tcp!ReaderPicks, Tcp!ReaderFails,
    Tcp!SetReader, Tcp!ReaderOnly, Tcp!lockVars, Tcp!taskVars, Tcp!exchangeVars, Tcp!forceVars
<1>1. TcpTyped'
  <2>1. reader' \in [Tcp!Conns -> Tcp!ReaderPcs]
      BY DEF TcpTyped, Tcp!ReaderPcs, Tcp!DisconnectPcs
  <2>2. woken' \in [Tcp!Conns -> BOOLEAN]
      BY Zenon DEF TcpTyped
  <2>3. sent' \in [Tcp!Conns -> SUBSET TcpExchanges]
      BY DEF TcpTyped
  <2>. QED BY <2>1, <2>2, <2>3 DEF TcpTyped
<1>2. TcpLocked'
    BY DEF TcpLocked, TcpTyped
<1>3. TcpCurrent'
    BY DEF TcpCurrent, TcpLocked, TcpTyped, Tcp!Conns
<1>4. TcpQueueMoves
    BY Zenon DEF TcpQueueMoves
<1>5. TcpGiven'
    BY Zenon DEF TcpGiven, TcpTyped
<1>6. Tcp!WithdrawnQueriesFail'
  <2>1. Tcp!Clearing => Tcp!Clearing'
      BY Zenon DEF Tcp!Clearing, TcpTyped
  <2>2. \A y \in TcpExchanges :
            /\ tcpXpc'[y] \in {"sending", "waiting"} /\ writerTx' # xconn'[y]
            /\ Tcp!Registered(y)'
            => /\ tcpXpc[y] \in {"sending", "waiting"} /\ writerTx # xconn[y]
               /\ Tcp!Registered(y)
      BY Zenon DEF Tcp!Registered, TcpTyped
  <2>. QED BY Zenon, <2>1, <2>2, TcpTold
<1>. QED BY <1>1, <1>2, <1>3, <1>4, <1>5, <1>6

LEMMA TcpFrameStep ==
    ASSUME TcpSizes, TcpShape, NEW c \in Tcp!Conns, Tcp!ReaderFrame(c)
    PROVE  TcpShape' /\ TcpQueueMoves
<1>. USE DEF TcpSizes, TcpShape, Tcp!ReaderFrame, Tcp!SetReader, Tcp!ReaderOnly,
    Tcp!lockVars, Tcp!taskVars, Tcp!exchangeVars, Tcp!forceVars
<1>1. TcpTyped'
    BY DEF TcpTyped, Tcp!ReaderPcs, Tcp!DisconnectPcs
<1>2. TcpLocked'
    BY Zenon DEF TcpLocked, TcpTyped
<1>3. TcpCurrent'
    BY Zenon DEF TcpCurrent, TcpLocked, TcpTyped, Tcp!Conns
<1>4. TcpQueueMoves
    BY Zenon DEF TcpQueueMoves
<1>5. TcpGiven'
    BY Zenon DEF TcpGiven, TcpTyped
<1>6. Tcp!WithdrawnQueriesFail'
  <2>1. Tcp!Clearing => Tcp!Clearing'
      BY Zenon DEF Tcp!Clearing, TcpTyped
  <2>2. \A y \in TcpExchanges :
            /\ tcpXpc'[y] \in {"sending", "waiting"} /\ writerTx' # xconn'[y]
            /\ Tcp!Registered(y)'
            => /\ tcpXpc[y] \in {"sending", "waiting"} /\ writerTx # xconn[y]
               /\ Tcp!Registered(y)
      BY DEF Tcp!Registered, TcpTyped
  <2>. QED BY <2>1, <2>2, TcpTold
<1>. QED BY <1>1, <1>2, <1>3, <1>4, <1>5, <1>6

LEMMA TcpWriterStep ==
    ASSUME TcpSizes, TcpShape, NEW c \in Tcp!Conns, 
           Tcp!WriterTakes(c) \/ Tcp!WriterWrites(c) \/ Tcp!WriterClosed(c)
    PROVE  TcpShape' /\ TcpQueueMoves
<1>. USE DEF TcpSizes, TcpShape, Tcp!WriterTakes, Tcp!WriterWrites, Tcp!WriterClosed,
    Tcp!WriterOnly,
    Tcp!lockVars, Tcp!taskVars, Tcp!exchangeVars, Tcp!forceVars
<1>1. TcpTyped'
    BY DEF TcpTyped, Tcp!WriterPcs, Tcp!DisconnectPcs
<1>2. TcpLocked'
    BY Zenon DEF TcpLocked, TcpTyped
<1>3. TcpCurrent'
    BY DEF TcpCurrent, TcpLocked, TcpTyped, Tcp!Conns
<1>4. TcpQueueMoves
    BY Zenon DEF TcpQueueMoves, TcpTyped
<1>5. TcpGiven'
    BY Zenon DEF TcpGiven, TcpTyped
<1>6. Tcp!WithdrawnQueriesFail'
  <2>1. Tcp!Clearing => Tcp!Clearing'
      BY DEF Tcp!Clearing, TcpTyped
  <2>2. \A y \in TcpExchanges :
            /\ tcpXpc'[y] \in {"sending", "waiting"} /\ writerTx' # xconn'[y]
            /\ Tcp!Registered(y)'
            => /\ tcpXpc[y] \in {"sending", "waiting"} /\ writerTx # xconn[y]
               /\ Tcp!Registered(y)
      BY Zenon DEF Tcp!Registered, TcpTyped
  <2>. QED BY <2>1, <2>2, TcpTold
<1>. QED BY Zenon, <1>1, <1>2, <1>3, <1>4, <1>5, <1>6

LEMMA TcpReaderDisconnectsStep ==
    ASSUME TcpSizes, TcpShape, NEW c \in Tcp!Conns, Tcp!ReaderDisconnects(c)
    PROVE  TcpShape' /\ TcpQueueMoves
<1>. USE DEF TcpSizes, TcpShape, Tcp!ReaderDisconnects, Tcp!Disconnect, Tcp!Withdraw,
    Tcp!AfterWithdraw, Tcp!ClearPending,
    Tcp!DisconnectPcs, Tcp!lockVars, Tcp!taskVars, Tcp!exchangeVars, Tcp!forceVars
<1>1. TcpTyped'
  <2>1. woken' \in [Tcp!Conns -> BOOLEAN]
      BY TcpNotifyTyped DEF TcpTyped
  <2>2. chan' \in [TcpExchanges -> {"open", "response", "closed"}]
      BY DEF TcpTyped
  <2>3. writerTx' \in 0 .. TcpConns
      BY DEF TcpTyped
  <2>4. sent' \in [Tcp!Conns -> SUBSET TcpExchanges]
      BY Zenon DEF TcpTyped
  <2>5. reader' \in [Tcp!Conns -> Tcp!ReaderPcs]
      BY DEF TcpTyped, Tcp!ReaderPcs
  <2>. QED BY <2>1, <2>2, <2>3, <2>4, <2>5 DEF TcpTyped
<1>2. TcpLocked'
    BY Zenon DEF TcpLocked, TcpTyped
<1>3. TcpCurrent'
    BY DEF TcpCurrent, TcpLocked, TcpTyped, Tcp!Conns
<1>4. TcpQueueMoves
    BY Zenon DEF TcpQueueMoves
<1>5. TcpGiven'
    BY Zenon DEF TcpGiven, TcpTyped
<1>6. Tcp!WithdrawnQueriesFail'
  <2>1. CASE reader[c] = "lock" /\ generation = c
      BY <2>1, TcpTold DEF Tcp!Clearing, TcpTyped
  <2>2. CASE reader[c] = "clear"
    <3>1. \A y \in TcpExchanges : ~Tcp!Registered(y)'
        BY <2>2 DEF Tcp!Registered, TcpTyped
    <3>. QED BY Zenon, <3>1, TcpTold
  <2>3. CASE reader[c] # "clear" /\ ~(reader[c] = "lock" /\ generation = c)
    <3>1. Tcp!Clearing => Tcp!Clearing'
        BY Zenon, <2>3 DEF Tcp!Clearing, TcpTyped
    <3>2. writerTx' = writerTx /\ chan' = chan
        BY <2>3
    <3>. QED BY Zenon, <3>1, <3>2, TcpTold DEF Tcp!Registered
  <2>. QED BY <2>1, <2>2, <2>3
<1>. QED BY <1>1, <1>2, <1>3, <1>4, <1>5, <1>6

LEMMA TcpWriterDisconnectsStep ==
    ASSUME TcpSizes, TcpShape, NEW c \in Tcp!Conns, Tcp!WriterDisconnects(c)
    PROVE  TcpShape' /\ TcpQueueMoves
<1>. USE DEF TcpSizes, TcpShape, Tcp!WriterDisconnects, Tcp!Disconnect, Tcp!Withdraw,
    Tcp!AfterWithdraw, Tcp!ClearPending,
    Tcp!DisconnectPcs, Tcp!lockVars, Tcp!taskVars, Tcp!exchangeVars, Tcp!forceVars
<1>1. TcpTyped'
  <2>1. woken' \in [Tcp!Conns -> BOOLEAN]
      BY Zenon, TcpNotifyTyped DEF TcpTyped
  <2>2. chan' \in [TcpExchanges -> {"open", "response", "closed"}]
      BY Zenon DEF TcpTyped
  <2>3. writerTx' \in 0 .. TcpConns
      BY DEF TcpTyped
  <2>4. queue' \in [Tcp!Conns -> SUBSET TcpExchanges]
      BY Zenon DEF TcpTyped
  <2>5. writer' \in [Tcp!Conns -> Tcp!WriterPcs]
      BY DEF TcpTyped, Tcp!WriterPcs
  <2>. QED BY <2>1, <2>2, <2>3, <2>4, <2>5 DEF TcpTyped
<1>2. TcpLocked'
    BY Zenon DEF TcpLocked, TcpTyped
<1>3. TcpCurrent'
    BY DEF TcpCurrent, TcpLocked, TcpTyped, Tcp!Conns
<1>4. TcpQueueMoves
    BY DEF TcpQueueMoves, TcpTyped
<1>5. TcpGiven'
    BY Zenon DEF TcpGiven, TcpTyped
<1>6. Tcp!WithdrawnQueriesFail'
  <2>1. CASE writer[c] = "lock" /\ generation = c
      BY <2>1, TcpTold DEF Tcp!Clearing, TcpTyped
  <2>2. CASE writer[c] = "clear"
    <3>1. \A y \in TcpExchanges : ~Tcp!Registered(y)'
        BY <2>2 DEF Tcp!Registered, TcpTyped
    <3>. QED BY <3>1, TcpTold
  <2>3. CASE writer[c] # "clear" /\ ~(writer[c] = "lock" /\ generation = c)
    <3>1. Tcp!Clearing => Tcp!Clearing'
        BY <2>3 DEF Tcp!Clearing, TcpTyped
    <3>2. writerTx' = writerTx /\ chan' = chan
        BY <2>3
    <3>. QED BY <3>1, <3>2, TcpTold DEF Tcp!Registered
  <2>. QED BY <2>1, <2>2, <2>3
<1>. QED BY <1>1, <1>2, <1>3, <1>4, <1>5, <1>6

LEMMA TcpForceWithdrawStep ==
    ASSUME TcpSizes, TcpShape, Tcp!ForceWithdraw
    PROVE  TcpShape' /\ TcpQueueMoves
<1>. USE DEF TcpSizes, TcpShape, Tcp!ForceWithdraw, Tcp!lockVars, Tcp!taskVars,
    Tcp!exchangeVars, Tcp!forceVars
<1>1. TcpTyped'
    BY DEF TcpTyped
<1>2. TcpLocked'
    BY Zenon DEF TcpLocked, TcpTyped
<1>3. TcpCurrent'
    BY Zenon DEF TcpCurrent, TcpLocked, TcpTyped, Tcp!Conns
<1>4. TcpQueueMoves
    BY Zenon DEF TcpQueueMoves
<1>5. TcpGiven'
    BY Zenon DEF TcpGiven, TcpTyped
<1>6. Tcp!WithdrawnQueriesFail'
    BY Zenon, TcpTold DEF Tcp!Clearing
<1>. QED BY <1>1, <1>2, <1>3, <1>4, <1>5, <1>6

LEMMA TcpForceClearStep ==
    ASSUME TcpSizes, TcpShape, Tcp!ForceClear
    PROVE  TcpShape' /\ TcpQueueMoves
<1>. USE DEF TcpSizes, TcpShape, Tcp!ForceClear, Tcp!ClearPending, Tcp!lockVars, Tcp!taskVars,
    Tcp!exchangeVars, Tcp!forceVars
<1>1. TcpTyped'
    BY Zenon DEF TcpTyped, Tcp!Registered
<1>2. TcpLocked'
    BY Zenon DEF TcpLocked, TcpTyped
<1>3. TcpCurrent'
    BY Zenon DEF TcpCurrent, TcpLocked, TcpTyped, Tcp!Conns
<1>4. TcpQueueMoves
    BY Zenon DEF TcpQueueMoves
<1>5. TcpGiven'
    BY Zenon DEF TcpGiven, TcpTyped
<1>6. Tcp!WithdrawnQueriesFail'
  <2>1. \A y \in TcpExchanges : ~Tcp!Registered(y)'
      BY Zenon DEF Tcp!Registered, TcpTyped
  <2>. QED BY Zenon, <2>1, TcpTold
<1>. QED BY Zenon, <1>1, <1>2, <1>3, <1>4, <1>5, <1>6

LEMMA TcpForceNotifyStep ==
    ASSUME TcpSizes, TcpShape, Tcp!ForceNotify
    PROVE  TcpShape' /\ TcpQueueMoves
<1>. USE DEF TcpSizes, TcpShape, Tcp!ForceNotify, Tcp!lockVars, Tcp!taskVars,
    Tcp!exchangeVars, Tcp!forceVars
<1>1. TcpTyped'
  <2>1. woken' \in [Tcp!Conns -> BOOLEAN]
      BY Zenon, TcpNotifyTyped DEF TcpTyped
  <2>. QED BY <2>1 DEF TcpTyped
<1>2. TcpLocked'
    BY Zenon DEF TcpLocked, TcpTyped
<1>3. TcpCurrent'
    BY Zenon DEF TcpCurrent, TcpLocked, TcpTyped, Tcp!Conns
<1>4. TcpQueueMoves
    BY Zenon DEF TcpQueueMoves
<1>5. TcpGiven'
    BY Zenon DEF TcpGiven, TcpTyped
<1>6. Tcp!WithdrawnQueriesFail'
  <2>1. Tcp!Clearing => Tcp!Clearing'
      BY Zenon DEF Tcp!Clearing, TcpTyped
  <2>2. \A y \in TcpExchanges :
            /\ tcpXpc'[y] \in {"sending", "waiting"} /\ writerTx' # xconn'[y]
            /\ Tcp!Registered(y)'
            => /\ tcpXpc[y] \in {"sending", "waiting"} /\ writerTx # xconn[y]
               /\ Tcp!Registered(y)
      BY Zenon DEF Tcp!Registered, TcpTyped
  <2>. QED BY <2>1, <2>2, TcpTold
<1>. QED BY <1>1, <1>2, <1>3, <1>4, <1>5, <1>6

LEMMA TcpOtherStep ==
    ASSUME TcpSizes, TcpShape, Tcp!BackoffOver \/ Tcp!DropNode \/ UNCHANGED Tcp!vars
    PROVE  TcpShape' /\ TcpQueueMoves
<1>. USE DEF TcpSizes, TcpShape, Tcp!BackoffOver, Tcp!DropNode, Tcp!vars,
    Tcp!lockVars, Tcp!taskVars, Tcp!exchangeVars, Tcp!forceVars
<1>1. TcpTyped'
    BY Zenon DEF TcpTyped
<1>2. TcpLocked'
    BY Zenon DEF TcpLocked, TcpTyped
<1>3. TcpCurrent'
    BY DEF TcpCurrent, TcpLocked, TcpTyped, Tcp!Conns
<1>4. TcpQueueMoves
    BY Zenon DEF TcpQueueMoves
<1>5. TcpGiven'
    BY Zenon DEF TcpGiven, TcpTyped
<1>6. Tcp!WithdrawnQueriesFail'
  <2>1. Tcp!Clearing => Tcp!Clearing'
      BY Zenon DEF Tcp!Clearing, TcpTyped
  <2>2. \A y \in TcpExchanges :
            /\ tcpXpc'[y] \in {"sending", "waiting"} /\ writerTx' # xconn'[y]
            /\ Tcp!Registered(y)'
            => /\ tcpXpc[y] \in {"sending", "waiting"} /\ writerTx # xconn[y]
               /\ Tcp!Registered(y)
      BY Zenon DEF Tcp!Registered, TcpTyped
  <2>. QED BY <2>1, <2>2, TcpTold
<1>. QED BY <1>1, <1>2, <1>3, <1>4, <1>5, <1>6

LEMMA TcpShapeStep ==
    ASSUME TcpSizes, TcpShape, Tcp!Next \/ UNCHANGED Tcp!vars
    PROVE  TcpShape' /\ TcpQueueMoves
<1>1. ASSUME NEW x \in TcpExchanges,
             \/ Tcp!Register(x) \/ Tcp!EnsureConnection(x) \/ Tcp!Connect(x)
             \/ Tcp!ConnectFails(x) \/ Tcp!Enqueue(x) \/ Tcp!Return(x) \/ Tcp!GiveUp(x)
      PROVE  TcpShape' /\ TcpQueueMoves
    BY <1>1, TcpRegisterStep, TcpEnsureStep, TcpConnectStep, TcpConnectFailsStep,
        TcpEnqueueStep, TcpReturnStep, TcpGiveUpStep
<1>2. ASSUME NEW c \in Tcp!Conns,
             Tcp!ReaderStep(c) \/ Tcp!ReaderFrame(c) \/ Tcp!ReaderFails(c)
      PROVE  TcpShape' /\ TcpQueueMoves
    BY <1>2, TcpReaderStep, TcpFrameStep, TcpReaderDisconnectsStep DEF Tcp!ReaderStep,
        Tcp!ReaderTimesOut, Tcp!ReaderWoken
<1>3. ASSUME NEW c \in Tcp!Conns, Tcp!WriterStep(c) PROVE TcpShape' /\ TcpQueueMoves
    BY <1>3, TcpWriterStep, TcpWriterDisconnectsStep DEF Tcp!WriterStep
<1>4. CASE Tcp!ForceStep
    BY <1>4, TcpForceWithdrawStep, TcpForceClearStep, TcpForceNotifyStep DEF Tcp!ForceStep
<1>5. CASE Tcp!BackoffOver \/ Tcp!DropNode \/ UNCHANGED Tcp!vars
    BY <1>5, TcpOtherStep
<1>. QED BY <1>1, <1>2, <1>3, <1>4, <1>5 DEF Tcp!Next, Tcp!Idle

\* A sender is withdrawn by a task of its own connection or by force_reconnect: the
\* generation is compared under the lock, and the sender is that of the generation.
THEOREM TcpOwnTeardown ==
    ASSUME TcpSizes, TcpInv, Tcp!Next
    PROVE  Tcp!OnlyOwnTeardown
<1>. SUFFICES ASSUME NEW c \in Tcp!Conns, writerTx = c, writerTx' # c
              PROVE  \/ reader[c] = "lock" /\ reader'[c] = "clear"
                     \/ writer[c] = "lock" /\ writer'[c] = "clear"
                     \/ force = "lock" /\ force' = "clear"
    BY Zenon DEF Tcp!OnlyOwnTeardown
<1>1. c = generation /\ connecting = {} /\ c # 0
    BY DEF TcpInv, TcpShape, TcpCurrent, TcpLocked, Tcp!Conns, TcpSizes
<1>2. \A x \in TcpExchanges : ~Tcp!Connect(x)
    BY <1>1 DEF Tcp!Connect, TcpInv, TcpShape, TcpLocked
<1>3. \/ Tcp!ForceWithdraw
      \/ \E d \in Tcp!Conns : Tcp!ReaderDisconnects(d) \/ Tcp!WriterDisconnects(d)
    BY <1>2 DEF Tcp!Next, Tcp!Register, Tcp!EnsureConnection, Tcp!ConnectFails, Tcp!Enqueue,
        Tcp!Return, Tcp!GiveUp, Tcp!ReaderStep, Tcp!ReaderChecks, Tcp!ReaderPicks,
        Tcp!ReaderTimesOut, Tcp!ReaderWoken, Tcp!ReaderFrame, Tcp!ReaderFails,
        Tcp!ReaderOnly, Tcp!WriterStep, Tcp!WriterTakes, Tcp!WriterWrites, Tcp!WriterClosed,
        Tcp!WriterOnly, Tcp!BackoffOver, Tcp!ForceStep, Tcp!ForceClear, Tcp!ForceNotify,
        Tcp!DropNode, Tcp!Idle, Tcp!vars, Tcp!lockVars
<1>4. CASE Tcp!ForceWithdraw
    BY <1>4 DEF Tcp!ForceWithdraw
<1>5. ASSUME NEW d \in Tcp!Conns, Tcp!ReaderDisconnects(d) \/ Tcp!WriterDisconnects(d)
      PROVE  \/ reader[c] = "lock" /\ reader'[c] = "clear"
             \/ writer[c] = "lock" /\ writer'[c] = "clear"
  <2>1. d = c
      BY Zenon, <1>1, <1>5 DEF Tcp!ReaderDisconnects, Tcp!WriterDisconnects, Tcp!Disconnect,
          Tcp!Withdraw
  <2>. QED BY <1>1, <1>5, <2>1 DEF Tcp!ReaderDisconnects, Tcp!WriterDisconnects,
           Tcp!Disconnect, Tcp!Withdraw, Tcp!AfterWithdraw, TcpInv, TcpShape,
           TcpTyped
<1>. QED BY <1>3, <1>4, <1>5

-----------------------------------------------------------------------------
(* ConnSlot.                                                                *)

CONSTANTS SlotExchanges, Permits, SlotConns

VARIABLES slotTransport, slot, holder, state, opened, permits, slotXpc, conn, slotFirst

\* Exchanges with permits, and the one connection they share.
Slot == INSTANCE ConnSlot WITH
    Exchanges <- SlotExchanges, MaxConns <- SlotConns, transport <- slotTransport,
    xpc <- slotXpc, first <- slotFirst

SlotPcs == {"new", "permit", "done"} \cup Slot!Running

SlotTyped ==
    /\ slotTransport \in Slot!Transports
    /\ slot \in 0 .. SlotConns /\ opened \in 0 .. SlotConns
    /\ state \in [Slot!Conns -> {"none", "up", "closed"}]
    /\ slotXpc \in [SlotExchanges -> SlotPcs]
    /\ conn \in [SlotExchanges -> 0 .. SlotConns]
    /\ slotFirst \in [SlotExchanges -> 0 .. SlotConns]

\* The mutex is held across connecting and across the health check, by one exchange.
SlotLocked ==
    /\ holder = {x \in SlotExchanges : slotXpc[x] \in {"connect", "check"}}
    /\ \A x, y \in holder : x = y

\* Connections are opened in order; the one in the slot is the only one that may be up.
SlotOrdered ==
    /\ \A c \in Slot!Conns : state[c] # "none" <=> c <= opened
    /\ slot <= opened
    /\ \A c \in Slot!Conns : state[c] = "up" => slot = c

\* Whoever connects has found the slot empty, or with a closed connection.
SlotVacant ==
    \A x \in SlotExchanges : slotXpc[x] = "connect" => slot = 0 \/ state[slot] = "closed"

\* An exchange has been given a connection, and the one it has found dead is no longer
\* in the slot once it has looked.
SlotHandles ==
    \A x \in SlotExchanges :
        /\ slotXpc[x] \in {"probe", "use"} => conn[x] \in Slot!Conns /\ state[conn[x]] # "none"
        /\ slotXpc[x] \in {"new", "permit", "done"} => slotFirst[x] = 0
        /\ slotFirst[x] # 0 =>
               /\ state[slotFirst[x]] = "closed"
               /\ slotXpc[x] \in {"get", "connect"} => slot # slotFirst[x]
               /\ slotXpc[x] = "probe" => conn[x] # slotFirst[x]

\* All but the number of permits.
SlotShape == SlotTyped /\ SlotLocked /\ SlotOrdered /\ SlotVacant /\ SlotHandles

\* Permits in the semaphore and in the hands of exchanges add up.
SlotPermits ==
    /\ permits \in Nat
    /\ permits + Cardinality({x \in SlotExchanges : slotXpc[x] \in Slot!Running}) = Permits

SlotInv == SlotShape /\ SlotPermits

LEMMA SlotFinite == \A S : /\ Slot!IsFiniteSet(S) = IsFiniteSet(S)
                           /\ Slot!Cardinality(S) = Cardinality(S)
BY Zenon DEF Slot!IsFiniteSet, IsFiniteSet, Slot!Cardinality, Cardinality

\* The parameters, as the proofs need them.
SlotSizes == SlotConns \in Nat /\ Permits \in Nat /\ IsFiniteSet(SlotExchanges)

LEMMA SlotConstants == Slot!ConnSlotAssumption => SlotSizes
BY Zenon, SlotFinite DEF Slot!ConnSlotAssumption, SlotSizes

LEMMA SlotInitShape ==
    ASSUME SlotSizes, Slot!Init
    PROVE  SlotShape
BY DEF SlotSizes, Slot!Init, SlotShape, SlotTyped, SlotLocked, SlotOrdered, SlotVacant,
    SlotHandles, SlotPcs, Slot!Conns, Slot!None, Slot!Transports

\* An exchange goes to p: it takes a permit, gives it back, or does neither.
SlotPaid(x, p) ==
    \/ (slotXpc[x] \in Slot!Running <=> p \in Slot!Running) /\ permits' = permits
    \/ /\ slotXpc[x] \notin Slot!Running /\ p \in Slot!Running
       /\ permits > 0 /\ permits' = permits - 1
    \/ /\ slotXpc[x] \in Slot!Running /\ p \notin Slot!Running
       /\ permits' = permits + 1

SlotCharged ==
    \/ UNCHANGED <<slotXpc, permits>>
    \/ \E x \in SlotExchanges, p \in SlotPcs :
           slotXpc' = [slotXpc EXCEPT ![x] = p] /\ SlotPaid(x, p)

\* An exchange x goes to p, with the handle c and the dead handle d; the connections stay
\* as they are.
SlotMoved(x, p, c, d) ==
    /\ slotXpc' = [slotXpc EXCEPT ![x] = p]
    /\ conn' = [conn EXCEPT ![x] = c] /\ slotFirst' = [slotFirst EXCEPT ![x] = d]
    /\ UNCHANGED <<slotTransport, slot, state, opened>>
    /\ holder' = IF p \in {"connect", "check"} THEN {x} ELSE holder \ {x}
    /\ p \in {"connect", "check"} => holder \subseteq {x}
    /\ p = "connect" => slot = 0 \/ state[slot] = "closed"
    /\ p \in {"probe", "use"} => c \in Slot!Conns /\ state[c] # "none"
    /\ p \in {"new", "permit", "done"} => d = 0
    /\ d # 0 => /\ state[d] = "closed"
                /\ p \in {"get", "connect"} => slot # d
                /\ p = "probe" => c # d
    /\ SlotPaid(x, p)

LEMMA SlotMove ==
    ASSUME SlotSizes, SlotShape, NEW x \in SlotExchanges, NEW p \in SlotPcs,
           NEW c \in 0 .. SlotConns, NEW d \in 0 .. SlotConns, SlotMoved(x, p, c, d)
    PROVE  SlotShape' /\ SlotCharged
<1>. USE DEF SlotShape, SlotMoved
<1>1. SlotTyped'
    BY Zenon DEF SlotTyped
<1>2. SlotLocked'
    BY DEF SlotLocked, SlotTyped
<1>3. SlotOrdered'
    BY Zenon DEF SlotOrdered
<1>4. SlotVacant'
    BY Zenon DEF SlotVacant, SlotTyped
<1>5. SlotHandles'
    BY Zenon DEF SlotHandles, SlotTyped
<1>6. SlotCharged
    BY Zenon DEF SlotCharged
<1>. QED BY <1>1, <1>2, <1>3, <1>4, <1>5, <1>6

\* What an exchange that keeps its handles, or lets go of everything, has to show.
LEMMA SlotKeeps ==
    ASSUME SlotSizes, SlotShape, NEW x \in SlotExchanges
    PROVE  /\ UNCHANGED conn => conn' = [conn EXCEPT ![x] = conn[x]]
           /\ UNCHANGED slotFirst => slotFirst' = [slotFirst EXCEPT ![x] = slotFirst[x]]
           /\ conn[x] \in 0 .. SlotConns /\ slotFirst[x] \in 0 .. SlotConns
           /\ slotXpc[x] \notin {"connect", "check"} => x \notin holder
           /\ slotXpc[x] \in {"connect", "check"} => holder = {x}
BY Zenon DEF SlotShape, SlotTyped, SlotLocked

LEMMA SlotLeaves ==
    ASSUME SlotSizes, SlotShape, NEW x \in SlotExchanges, slotXpc[x] \in Slot!Running,
           Slot!Leave(x), UNCHANGED <<slotTransport, slot, state, opened>>
    PROVE  SlotShape' /\ SlotCharged
<1>. USE DEF SlotSizes
<1>1. SlotMoved(x, "done", 0, 0)
    BY Zenon DEF SlotMoved, SlotPaid, Slot!Leave, Slot!Go, Slot!None, Slot!Running
<1>. QED BY <1>1, SlotMove DEF SlotPcs

\* Steps of an exchange that leave the connections alone.
LEMMA SlotExchangeStep ==
    ASSUME SlotSizes, SlotShape, NEW x \in SlotExchanges,
           \/ Slot!Start(x) \/ Slot!Acquire(x) \/ Slot!PermitTimeout(x) \/ Slot!GetOrConnect(x)
           \/ Slot!ConnectFails(x) \/ Slot!EvictLock(x) \/ Slot!Probe(x) \/ Slot!Answered(x)
           \/ Slot!StreamFails(x) \/ Slot!Timeout(x) \/ Slot!Cancel(x)
    PROVE  SlotShape' /\ SlotCharged
<1>. USE DEF SlotSizes
<1>. DEFINE Goes(p, c, d) == p \in SlotPcs /\ c \in 0 .. SlotConns /\ d \in 0 .. SlotConns
                             /\ SlotMoved(x, p, c, d)
<1>0. ASSUME NEW p, NEW c, NEW d, Goes(p, c, d) PROVE SlotShape' /\ SlotCharged
    BY Zenon, <1>0, SlotMove
<1>. HIDE DEF Goes
<1>k. /\ SlotHandles /\ SlotTyped /\ SlotOrdered
    BY Zenon DEF SlotShape
<1>2. CASE Slot!Start(x)
  <2>1. Goes("permit", conn[x], slotFirst[x])
      BY <1>2, <1>k, SlotKeeps DEF Goes, SlotPcs, SlotMoved, SlotPaid, Slot!Start, Slot!Go,
          Slot!Running, SlotHandles
  <2>. QED BY Zenon, <1>0, <2>1
<1>3. CASE Slot!Acquire(x)
  <2>1. Goes("get", conn[x], slotFirst[x])
      BY <1>3, <1>k, SlotKeeps DEF Goes, SlotPcs, SlotMoved, SlotPaid, Slot!Acquire, Slot!Go,
          Slot!Running, SlotHandles
  <2>. QED BY Zenon, <1>0, <2>1
<1>4. CASE Slot!PermitTimeout(x)
  <2>1. Goes("done", conn[x], slotFirst[x])
      BY <1>4, <1>k, SlotKeeps DEF Goes, SlotPcs, SlotMoved, SlotPaid, Slot!PermitTimeout,
          Slot!Go, Slot!Running, SlotHandles
  <2>. QED BY Zenon, <1>0, <2>1
<1>5. CASE Slot!GetOrConnect(x)
  <2>1. CASE Slot!Accepts
    <3>1. Goes(IF slotTransport = "doh" THEN "probe" ELSE "use", slot, slotFirst[x])
        BY <1>5, <2>1, <1>k, SlotKeeps DEF Goes, SlotPcs, SlotMoved, SlotPaid,
            Slot!GetOrConnect, Slot!Go, Slot!Got, Slot!Accepts, Slot!None, Slot!Running,
            SlotHandles, SlotTyped, SlotOrdered, Slot!Conns
    <3>. QED BY Zenon, <1>0, <3>1
  <2>2. CASE ~Slot!Accepts
    <3>1. slot = 0 \/ state[slot] = "closed"
        BY <2>2, <1>k DEF Slot!Accepts, Slot!None, Slot!Healthy, SlotTyped,
            SlotOrdered, Slot!Conns
    <3>2. Goes("connect", conn[x], slotFirst[x])
        BY Zenon, <1>5, <2>2, <3>1, <1>k, SlotKeeps DEF Goes, SlotPcs, SlotMoved, SlotPaid,
            Slot!GetOrConnect, Slot!Go, Slot!Running, SlotHandles
    <3>. QED BY Zenon, <1>0, <3>2
  <2>. QED BY Zenon, <2>1, <2>2
<1>6. CASE Slot!ConnectFails(x)
  <2>1. CASE slotTransport = "doq"
    <3>1. Goes("evict", conn[x], slotFirst[x])
        BY <1>6, <2>1, <1>k, SlotKeeps DEF Goes, SlotPcs, SlotMoved, SlotPaid,
            Slot!ConnectFails, Slot!Go, Slot!Running, SlotHandles
    <3>. QED BY Zenon, <1>0, <3>1
  <2>2. CASE slotTransport # "doq"
      BY Zenon, <1>6, <2>2, SlotLeaves DEF Slot!ConnectFails, Slot!Running
  <2>. QED BY Zenon, <2>1, <2>2
<1>7. CASE Slot!EvictLock(x)
  <2>1. Goes("check", conn[x], slotFirst[x])
      BY <1>7, <1>k, SlotKeeps DEF Goes, SlotPcs, SlotMoved, SlotPaid, Slot!EvictLock,
          Slot!Go, Slot!Running, SlotHandles
  <2>. QED BY Zenon, <1>0, <2>1
<1>8. CASE Slot!Probe(x)
  <2>1. CASE Slot!Healthy(conn[x])
    <3>1. Goes("use", conn[x], slotFirst[x])
        BY <1>8, <2>1, <1>k, SlotKeeps DEF Goes, SlotPcs, SlotMoved, SlotPaid,
            Slot!Probe, Slot!Go, Slot!Running, SlotHandles
    <3>. QED BY Zenon, <1>0, <3>1
  <2>2. CASE ~Slot!Healthy(conn[x]) /\ slotFirst[x] = 0
    <3>1. state[conn[x]] = "closed"
        BY Zenon, <1>8, <2>2, <1>k DEF Slot!Probe, Slot!Healthy, SlotHandles, SlotTyped
    <3>2. Goes("evict", conn[x], conn[x])
        BY <1>8, <2>2, <3>1, <1>k, SlotKeeps DEF Goes, SlotPcs, SlotMoved, SlotPaid,
            Slot!Probe, Slot!Go, Slot!None, Slot!Running, SlotHandles
    <3>. QED BY Zenon, <1>0, <3>2
  <2>3. CASE ~Slot!Healthy(conn[x]) /\ slotFirst[x] # 0
      BY Zenon, <1>8, <2>3, SlotLeaves DEF Slot!Probe, Slot!None, Slot!Running
  <2>. QED BY <2>1, <2>2, <2>3
<1>9. CASE Slot!Answered(x) \/ Slot!Cancel(x)
    BY Zenon, <1>9, SlotLeaves DEF Slot!Answered, Slot!Cancel, Slot!Running
<1>10. CASE Slot!StreamFails(x)
  <2>1. CASE slotTransport # "doh"
    <3>1. Goes("evict", conn[x], slotFirst[x])
        BY <1>10, <2>1, <1>k, SlotKeeps DEF Goes, SlotPcs, SlotMoved, SlotPaid,
            Slot!StreamFails, Slot!Go, Slot!Running, SlotHandles
    <3>. QED BY <1>0, <3>1
  <2>2. CASE slotTransport = "doh"
      BY Zenon, <1>10, <2>2, SlotLeaves DEF Slot!StreamFails, Slot!Running
  <2>. QED BY <2>1, <2>2
<1>11. CASE Slot!Timeout(x)
  <2>1. CASE slotTransport = "doq"
    <3>1. Goes("evict", conn[x], slotFirst[x])
        BY <1>11, <2>1, <1>k, SlotKeeps DEF Goes, SlotPcs, SlotMoved, SlotPaid,
            Slot!Timeout, Slot!TimedPcs, Slot!Go, Slot!Running, SlotHandles
    <3>. QED BY <1>0, <3>1
  <2>2. CASE slotTransport # "doq"
      BY Zenon, <1>11, <2>2, SlotLeaves DEF Slot!Timeout, Slot!TimedPcs, Slot!Running
  <2>. QED BY <2>1, <2>2
<1>. QED BY <1>2, <1>3, <1>4, <1>5, <1>6, <1>7, <1>8, <1>9, <1>10, <1>11

\* The new connection goes into the slot; as whoever connects found nothing up there, it
\* is the only one that is.
LEMMA SlotConnectedStep ==
    ASSUME SlotSizes, SlotShape, NEW x \in SlotExchanges, Slot!Connected(x)
    PROVE  SlotShape' /\ SlotCharged
<1>. USE DEF SlotSizes, SlotShape, Slot!Connected, Slot!Conns, Slot!Got, Slot!Go
<1>k. holder = {x} /\ UNCHANGED slotFirst
    BY Zenon, SlotKeeps
<1>0. slot = 0 \/ state[slot] = "closed"
    BY Zenon DEF SlotVacant
<1>1. SlotTyped'
    BY DEF SlotTyped, SlotPcs, Slot!Running
<1>2. SlotLocked'
    BY Zenon, <1>k DEF SlotLocked, SlotTyped
<1>3. SlotOrdered'
    BY <1>0 DEF SlotOrdered, SlotTyped
<1>4. SlotVacant'
    BY Zenon, <1>k DEF SlotVacant, SlotTyped, SlotLocked
<1>5. SlotHandles'
  <2>1. opened + 1 \in Slot!Conns /\ state[opened + 1] = "none"
      BY DEF SlotOrdered, SlotTyped
  <2>2. \A y \in SlotExchanges : y # x => slotXpc'[y] = slotXpc[y] /\ conn'[y] = conn[y]
      BY Zenon DEF SlotTyped
  <2>3. \A d \in Slot!Conns : state[d] # "none" => d # opened + 1 /\ state'[d] = state[d]
      BY Zenon, <2>1 DEF SlotTyped
  <2>4. slotXpc'[x] \in {"probe", "use"} /\ conn'[x] = opened + 1 /\ state'[opened + 1] = "up"
      BY Zenon, <2>1 DEF SlotTyped
  <2>5. \A y \in SlotExchanges : slotFirst[y] # 0 =>
            slotFirst[y] \in Slot!Conns /\ state[slotFirst[y]] = "closed"
      BY DEF SlotHandles, SlotTyped
  <2>. QED BY <2>1, <2>2, <2>3, <2>4, <2>5 DEF SlotHandles, SlotTyped
<1>6. SlotCharged
  <2>1. PICK p \in {"probe", "use"} : slotXpc' = [slotXpc EXCEPT ![x] = p]
      BY Zenon
  <2>2. SlotPaid(x, p)
      BY DEF SlotPaid, Slot!Running
  <2>. QED BY Zenon, <2>1, <2>2 DEF SlotCharged, SlotPcs, Slot!Running
<1>. QED BY Zenon, <1>1, <1>2, <1>3, <1>4, <1>5, <1>6

LEMMA SlotEvictStep ==
    ASSUME SlotSizes, SlotShape, NEW x \in SlotExchanges, Slot!EvictIfUnhealthy(x)
    PROVE  SlotShape' /\ SlotCharged
<1>. USE DEF SlotSizes, SlotShape
<1>0. /\ slot' = slot \/ (slot' = 0 /\ slot # 0)
      /\ slot' # 0 => state[slot'] = "up"
      /\ slot' # slot => state[slot] # "up"
      /\ UNCHANGED <<slotTransport, state, opened>>
    BY Zenon DEF Slot!EvictIfUnhealthy, Slot!Evicted, Slot!None, Slot!Healthy
<1>1. holder = {x} /\ holder' = {} /\ slotXpc[x] = "check"
    BY Zenon, SlotKeeps DEF Slot!EvictIfUnhealthy, Slot!Leave
<1>2. PICK p \in {"get", "done"}, c \in 0 .. SlotConns, d \in 0 .. SlotConns :
          /\ slotXpc' = [slotXpc EXCEPT ![x] = p] /\ conn' = [conn EXCEPT ![x] = c]
          /\ slotFirst' = [slotFirst EXCEPT ![x] = d]
          /\ \/ p = "get" /\ d = slotFirst[x] /\ permits' = permits
             \/ p = "done" /\ d = 0 /\ permits' = permits + 1
  <2>1. CASE slotTransport = "doh"
    <3>1. /\ slotXpc' = [slotXpc EXCEPT ![x] = "get"] /\ UNCHANGED <<permits, conn, slotFirst>>
        BY Zenon, <2>1 DEF Slot!EvictIfUnhealthy, Slot!Go
    <3>2. /\ conn' = [conn EXCEPT ![x] = conn[x]] /\ conn[x] \in 0 .. SlotConns
          /\ slotFirst' = [slotFirst EXCEPT ![x] = slotFirst[x]]
          /\ slotFirst[x] \in 0 .. SlotConns
        BY Zenon, <3>1, SlotKeeps
    <3>. QED BY Zenon, <3>1, <3>2
  <2>2. CASE slotTransport # "doh"
      BY <2>2 DEF Slot!EvictIfUnhealthy, Slot!Leave, Slot!Go, Slot!None
  <2>. QED BY Zenon, <2>1, <2>2
<1>3. SlotTyped'
    BY <1>0, <1>2 DEF SlotTyped, SlotPcs, Slot!Running
<1>4. SlotLocked'
    BY <1>1, <1>2 DEF SlotLocked, SlotTyped
<1>5. SlotOrdered'
    BY <1>0 DEF SlotOrdered, SlotTyped, Slot!Conns
<1>6. SlotVacant'
    BY Zenon, <1>0, <1>2 DEF SlotVacant, SlotTyped
<1>7. SlotHandles'
  <2>1. \A y \in SlotExchanges : slotFirst'[y] # 0 => state[slotFirst'[y]] = "closed"
      BY Zenon, <1>2 DEF SlotHandles, SlotTyped
  <2>. QED BY Zenon, <1>0, <1>2, <2>1 DEF SlotHandles, SlotTyped
<1>8. SlotCharged
  <2>1. SlotPaid(x, p)
      BY <1>1, <1>2 DEF SlotPaid, Slot!Running
  <2>. QED BY Zenon, <1>2, <2>1 DEF SlotCharged, SlotPcs, Slot!Running
<1>. QED BY Zenon, <1>3, <1>4, <1>5, <1>6, <1>7, <1>8

LEMMA SlotCloseStep ==
    ASSUME SlotSizes, SlotShape, NEW c \in Slot!Conns, Slot!Close(c)
    PROVE  SlotShape' /\ SlotCharged
<1>. USE DEF SlotShape, Slot!Close
<1>1. SlotTyped'
    BY Zenon DEF SlotTyped
<1>2. SlotLocked'
    BY Zenon DEF SlotLocked
<1>3. SlotOrdered'
    BY Zenon DEF SlotOrdered, SlotTyped
<1>4. SlotVacant'
    BY DEF SlotVacant, SlotTyped
<1>5. SlotHandles'
    BY DEF SlotHandles, SlotTyped
<1>6. SlotCharged
    BY Zenon DEF SlotCharged
<1>. QED BY <1>1, <1>2, <1>3, <1>4, <1>5, <1>6

LEMMA SlotShapeStep ==
    ASSUME SlotSizes, SlotShape, Slot!Next \/ UNCHANGED Slot!vars
    PROVE  SlotShape' /\ SlotCharged
<1>1. CASE UNCHANGED Slot!vars
    BY Zenon, <1>1 DEF Slot!vars, SlotShape, SlotTyped, SlotLocked, SlotOrdered,
        SlotVacant, SlotHandles, SlotCharged
<1>2. CASE \E c \in Slot!Conns : Slot!Close(c)
    BY Zenon, <1>2, SlotCloseStep
<1>3. ASSUME NEW x \in SlotExchanges,
             \/ Slot!Start(x) \/ Slot!Acquire(x) \/ Slot!PermitTimeout(x)
             \/ Slot!GetOrConnect(x) \/ Slot!Connected(x) \/ Slot!ConnectFails(x)
             \/ Slot!EvictLock(x) \/ Slot!EvictIfUnhealthy(x)
             \/ Slot!Probe(x) \/ Slot!Answered(x) \/ Slot!StreamFails(x) \/ Slot!Timeout(x)
             \/ Slot!Cancel(x)
      PROVE  SlotShape' /\ SlotCharged
    BY <1>3, SlotExchangeStep, SlotConnectedStep, SlotEvictStep
<1>. QED BY <1>1, <1>2, <1>3 DEF Slot!Next, Slot!Idle

\* A connection leaves the slot only once it has closed: evict_if_unhealthy looks again
\* under the lock, and whoever replaces a connection found it closed.
THEOREM SlotEvictsClosed ==
    ASSUME SlotSizes, SlotInv, Slot!Next
    PROVE  Slot!OnlyClosedEvicted
<1>. USE DEF SlotSizes
<1>. SUFFICES ASSUME NEW c \in Slot!Conns, slot = c, slot' # c PROVE state[c] = "closed"
    BY Zenon DEF Slot!OnlyClosedEvicted
<1>1. PICK x \in SlotExchanges : Slot!Connected(x) \/ Slot!EvictIfUnhealthy(x)
    BY Zenon DEF Slot!Next, Slot!Idle, Slot!vars, Slot!Close, Slot!Start, Slot!Acquire,
        Slot!PermitTimeout, Slot!GetOrConnect, Slot!ConnectFails, Slot!EvictLock, Slot!Probe,
        Slot!Answered, Slot!StreamFails, Slot!Timeout, Slot!Cancel
<1>2. state[c] # "none" /\ state[c] \in {"none", "up", "closed"} /\ c # 0
    BY DEF SlotInv, SlotShape, SlotOrdered, SlotTyped, Slot!Conns
<1>. QED BY Zenon, <1>1, <1>2 DEF SlotInv, SlotShape, SlotVacant, Slot!Connected,
         Slot!EvictIfUnhealthy, Slot!Evicted, Slot!Healthy, Slot!None

-----------------------------------------------------------------------------
(* The length of TcpMux's queues.                                           *)

INSTANCE FiniteSetTheorems

LEMMA TcpInitInv ==
    ASSUME TcpSizes, Tcp!Init
    PROVE  TcpInv
<1>1. TcpQueued
    BY FS_EmptySet DEF TcpQueued, TcpSizes, Tcp!Init
<1>. QED BY Zenon, <1>1, TcpInitShape DEF TcpInv

LEMMA TcpStep ==
    ASSUME TcpSizes, TcpInv, Tcp!Next \/ UNCHANGED Tcp!vars
    PROVE  TcpInv'
<1>1. TcpShape' /\ TcpQueueMoves
    BY Zenon, TcpShapeStep DEF TcpInv
<1>2. ASSUME NEW c \in Tcp!Conns PROVE Cardinality(queue'[c]) <= QueueCap
  <2>1. Cardinality(queue[c]) <= QueueCap /\ IsFiniteSet(queue[c])
      BY Zenon, FS_Subset DEF TcpInv, TcpQueued, TcpShape, TcpTyped, TcpSizes
  <2>2. CASE queue'[c] = queue[c] \/ queue'[c] = {}
      BY <2>1, <2>2, FS_EmptySet DEF TcpSizes
  <2>3. ASSUME NEW x, queue'[c] = queue[c] \cup {x}, Cardinality(queue[c]) < QueueCap
        PROVE  Cardinality(queue'[c]) <= QueueCap
    <3>1. /\ Cardinality(queue[c]) \in Nat
          /\ \/ Cardinality(queue[c] \cup {x}) = Cardinality(queue[c])
             \/ Cardinality(queue[c] \cup {x}) = Cardinality(queue[c]) + 1
        BY <2>1, FS_CardinalityType, FS_AddElement
    <3>. QED BY <2>1, <2>3, <3>1 DEF TcpSizes
  <2>. QED BY Zenon, <1>1, <2>2, <2>3, TcpFinite DEF TcpQueueMoves
<1>3. TcpQueued'
    BY Zenon, <1>2 DEF TcpQueued
<1>. QED BY Zenon, <1>1, <1>3 DEF TcpInv

\* What the invariant says of the code: the types, the bound of the write queues and the
\* lock, and that a query is told when its connection is withdrawn.
THEOREM TcpSafe ==
    ASSUME TcpSizes, TcpInv
    PROVE  Tcp!TypeOK /\ Tcp!WithdrawnQueriesFail
<1>. USE TcpFinite DEF TcpInv, TcpShape, TcpSizes
<1>1. Cardinality(connecting) <= 1
  <2>1. connecting = {} \/ \E x \in connecting : connecting = {x}
      BY DEF TcpLocked
  <2>2. CASE connecting = {}
      BY <2>2, FS_EmptySet
  <2>3. ASSUME NEW x, connecting = {x} PROVE Cardinality(connecting) = 1
      BY <2>3, FS_Singleton, Zenon
  <2>. QED BY <2>1, <2>2, <2>3
<1>2. 0 .. TcpConns = {0} \cup Tcp!Conns
    BY DEF Tcp!Conns
<1>. QED BY <1>1, <1>2 DEF Tcp!TypeOK, TcpTyped, TcpLocked, TcpQueued

-----------------------------------------------------------------------------
(* The permits of ConnSlot.                                                 *)

LEMMA SlotInitInv ==
    ASSUME SlotSizes, Slot!Init
    PROVE  SlotInv
<1>1. {x \in SlotExchanges : slotXpc[x] \in Slot!Running} = {}
    BY DEF Slot!Init, Slot!Running
<1>2. SlotPermits
    BY <1>1, FS_EmptySet DEF SlotPermits, SlotSizes, Slot!Init
<1>. QED BY Zenon, <1>2, SlotInitShape DEF SlotInv

LEMMA SlotCount ==
    ASSUME SlotSizes, SlotTyped, SlotPermits, NEW x \in SlotExchanges, NEW p \in SlotPcs,
           slotXpc' = [slotXpc EXCEPT ![x] = p], SlotPaid(x, p)
    PROVE  SlotPermits'
<1>. USE DEF SlotSizes
<1>. DEFINE R == {y \in SlotExchanges : slotXpc[y] \in Slot!Running}
<1>1. IsFiniteSet(R) /\ Cardinality(R) \in Nat
    BY Zenon, FS_Subset, FS_CardinalityType
<1>2. \A y \in SlotExchanges : slotXpc'[y] = IF y = x THEN p ELSE slotXpc[y]
    BY Zenon DEF SlotTyped
<1>3. CASE (slotXpc[x] \in Slot!Running <=> p \in Slot!Running) /\ permits' = permits
  <2>1. R' = R
      BY Zenon, <1>2, <1>3
  <2>. QED BY Zenon, <1>3, <2>1 DEF SlotPermits
<1>4. CASE /\ slotXpc[x] \notin Slot!Running /\ p \in Slot!Running
           /\ permits > 0 /\ permits' = permits - 1
  <2>1. R' = R \cup {x} /\ x \notin R
      BY Zenon, <1>2, <1>4
  <2>2. Cardinality(R') = Cardinality(R) + 1
      BY <1>1, <2>1, FS_AddElement
  <2>. QED BY <1>1, <1>4, <2>2 DEF SlotPermits
<1>5. CASE /\ slotXpc[x] \in Slot!Running /\ p \notin Slot!Running
           /\ permits' = permits + 1
  <2>1. R' = R \ {x} /\ x \in R
      BY Zenon, <1>2, <1>5
  <2>2. Cardinality(R \ {x}) = Cardinality(R) - 1
    <3>. HIDE DEF R
    <3>. QED BY <1>1, <2>1, FS_RemoveElement
  <2>3. Cardinality(R') = Cardinality(R) - 1
      BY <2>1, <2>2, Zenon
  <2>. QED BY <1>1, <1>5, <2>3 DEF SlotPermits
<1>. QED BY Zenon, <1>3, <1>4, <1>5 DEF SlotPaid

LEMMA SlotStep ==
    ASSUME SlotSizes, SlotInv, Slot!Next \/ UNCHANGED Slot!vars
    PROVE  SlotInv'
<1>1. SlotShape' /\ SlotCharged
    BY Zenon, SlotShapeStep DEF SlotInv
<1>2. CASE UNCHANGED <<slotXpc, permits>>
    BY Zenon, <1>1, <1>2 DEF SlotInv, SlotPermits
<1>3. ASSUME NEW x \in SlotExchanges, NEW p \in SlotPcs,
             slotXpc' = [slotXpc EXCEPT ![x] = p], SlotPaid(x, p)
      PROVE  SlotPermits'
    BY Zenon, <1>3, SlotCount DEF SlotInv, SlotShape
<1>. QED BY Zenon, <1>1, <1>2, <1>3 DEF SlotInv, SlotCharged

\* What the invariant says of the code: the slot's type, one open connection, a second
\* attempt on another connection, no permit lost.
THEOREM SlotSafe ==
    ASSUME SlotSizes, SlotInv
    PROVE  /\ Slot!TypeOK /\ Slot!OneOpenConnection /\ Slot!RetryOnAnother
           /\ Slot!PermitsConserved
<1>. USE DEF SlotSizes
<1>. USE SlotFinite DEF SlotInv, SlotShape
<1>1. Cardinality(holder) <= 1
  <2>1. holder = {} \/ \E x \in holder : holder = {x}
      BY DEF SlotLocked
  <2>2. CASE holder = {}
      BY <2>2, FS_EmptySet
  <2>3. ASSUME NEW x, holder = {x} PROVE Cardinality(holder) = 1
      BY <2>3, FS_Singleton, Zenon
  <2>. QED BY <2>1, <2>2, <2>3
<1>2. permits \in 0 .. Permits
  <2>1. Cardinality({x \in SlotExchanges : slotXpc[x] \in Slot!Running}) \in Nat
      BY Zenon, FS_Subset, FS_CardinalityType
  <2>. QED BY <2>1 DEF SlotPermits
<1>3. Slot!TypeOK
    BY <1>1, <1>2 DEF Slot!TypeOK, SlotTyped, SlotLocked, SlotPcs, Slot!None, Slot!Conns
<1>4. Slot!OneOpenConnection /\ Slot!RetryOnAnother
    BY Zenon DEF Slot!OneOpenConnection, Slot!RetryOnAnother, SlotOrdered, SlotHandles, Slot!None
<1>5. Slot!PermitsConserved
    BY Zenon DEF Slot!PermitsConserved, SlotPermits
<1>. QED BY <1>3, <1>4, <1>5
=============================================================================
