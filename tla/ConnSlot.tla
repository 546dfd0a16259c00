------------------------------ MODULE ConnSlot ------------------------------
(***************************************************************************)
(* upstream/mod.rs ConnSlot and its users, upstream/doh.rs and             *)
(* upstream/quic.rs (DoQ and HTTP/3): one shared connection in an async    *)
(* mutex that is held across the health check and across connecting.       *)
(*                                                                         *)
(* Connections are numbered in the order they open; 0 is None.  What is    *)
(* left out: the bytes of a request, and that an h2 connection which is    *)
(* only busy delays ready().                                               *)
(***************************************************************************)
EXTENDS Naturals, FiniteSets

CONSTANTS Exchanges,    \* calls of exchange
          Permits,      \* upstream-max-inflight
          MaxConns      \* bound: connections opened

ConnSlotAssumption == /\ Permits \in Nat /\ MaxConns \in Nat
                      /\ IsFiniteSet(Exchanges)

Conns == 1 .. MaxConns
None == 0
Transports == {"doh", "doq", "h3"}

VARIABLES transport,   \* which upstream this is
          slot,        \* the connection in the slot
          holder,      \* the exchanges inside the mutex (at most one)
          state,       \* state[c]: whether connection c is up
          opened,      \* connections opened so far
          permits,     \* permits left in the semaphore
          xpc,         \* where an exchange is
          conn,        \* conn[x]: the handle it was given
          first        \* first[x]: the handle a DoH exchange found dead

vars == <<transport, slot, holder, state, opened, permits, xpc, conn, first>>

\* Inside exchange, with a permit.
Running == {"get", "connect", "probe", "evict", "check", "use"}

TypeOK ==
    /\ transport \in Transports
    /\ slot \in {None} \cup Conns
    /\ holder \in SUBSET Exchanges /\ Cardinality(holder) <= 1
    /\ state \in [Conns -> {"none", "up", "closed"}]
    /\ opened \in 0 .. MaxConns
    /\ permits \in 0 .. Permits
    /\ xpc \in [Exchanges -> {"new", "permit", "done"} \cup Running]
    /\ conn \in [Exchanges -> {None} \cup Conns] /\ first \in [Exchanges -> {None} \cup Conns]

Init ==
    /\ transport \in Transports
    /\ slot = None /\ holder = {} /\ state = [c \in Conns |-> "none"] /\ opened = 0
    /\ permits = Permits
    /\ xpc = [x \in Exchanges |-> "new"]
    /\ conn = [x \in Exchanges |-> None] /\ first = [x \in Exchanges |-> None]

Go(x, pc) == xpc' = [xpc EXCEPT ![x] = pc]
Healthy(c) == state[c] = "up"

\* The exchange returns or is dropped: its guard and its permit with it.
Leave(x) ==
    /\ Go(x, "done")
    /\ holder' = holder \ {x}
    /\ permits' = permits + 1
    /\ conn' = [conn EXCEPT ![x] = None] /\ first' = [first EXCEPT ![x] = None]

-----------------------------------------------------------------------------
(* acquire_inflight_permit.                                                 *)

Start(x) ==
    /\ xpc[x] = "new" /\ Go(x, "permit")
    /\ UNCHANGED <<transport, slot, holder, state, opened, permits, conn, first>>

Acquire(x) ==
    /\ xpc[x] = "permit" /\ permits > 0
    /\ permits' = permits - 1
    /\ Go(x, "get")
    /\ UNCHANGED <<transport, slot, holder, state, opened, conn, first>>

PermitTimeout(x) ==
    /\ xpc[x] = "permit" /\ Go(x, "done")
    /\ UNCHANGED <<transport, slot, holder, state, opened, permits, conn, first>>

-----------------------------------------------------------------------------
(* ConnSlot::get_or_connect.                                                *)

\* The stored connection is taken if the health check accepts it: DoH accepts
\* any, and probes it later; QUIC asks for close_reason().
Accepts == slot # None /\ (transport = "doh" \/ Healthy(slot))

Got(x, c) == /\ conn' = [conn EXCEPT ![x] = c]
             /\ Go(x, IF transport = "doh" THEN "probe" ELSE "use")

GetOrConnect(x) ==
    /\ xpc[x] = "get" /\ holder = {}
    /\ IF Accepts THEN Got(x, slot) /\ UNCHANGED holder
                  ELSE Go(x, "connect") /\ holder' = {x} /\ UNCHANGED conn
    /\ UNCHANGED <<transport, slot, state, opened, permits, first>>

Connected(x) ==
    LET c == opened + 1
    IN /\ xpc[x] = "connect" /\ c \in Conns
       /\ opened' = c /\ state' = [state EXCEPT ![c] = "up"]
       /\ slot' = c /\ holder' = {}
       /\ Got(x, c)
       /\ UNCHANGED <<transport, permits, first>>

\* Refused or timed out.  DoQ still visits the slot before it returns.
ConnectFails(x) ==
    /\ xpc[x] = "connect"
    /\ IF transport = "doq"
         THEN Go(x, "evict") /\ holder' = {} /\ UNCHANGED <<permits, conn, first>>
         ELSE Leave(x)
    /\ UNCHANGED <<transport, slot, state, opened>>

-----------------------------------------------------------------------------
(* ConnSlot::evict_if_unhealthy, in two steps: the DoH check awaits.        *)

EvictLock(x) ==
    /\ xpc[x] = "evict" /\ holder = {}
    /\ holder' = {x} /\ Go(x, "check")
    /\ UNCHANGED <<transport, slot, state, opened, permits, conn, first>>

Evicted == IF slot # None /\ ~Healthy(slot) THEN None ELSE slot

\* DoH goes on to its second get_or_connect, QUIC returns its error.
EvictIfUnhealthy(x) ==
    /\ xpc[x] = "check"
    /\ slot' = Evicted
    /\ IF transport = "doh"
         THEN Go(x, "get") /\ holder' = {} /\ UNCHANGED <<permits, conn, first>>
         ELSE Leave(x)
    /\ UNCHANGED <<transport, state, opened>>

-----------------------------------------------------------------------------
(* DoHUpstream::send_request, and what follows in each transport.           *)

\* ready(), outside the lock.  The first failure evicts and tries again, the
\* second is the exchange's error.
Probe(x) ==
    /\ xpc[x] = "probe"
    /\ IF Healthy(conn[x])
         THEN Go(x, "use") /\ UNCHANGED <<holder, permits, conn, first>>
         ELSE IF first[x] = None
         THEN /\ Go(x, "evict") /\ first' = [first EXCEPT ![x] = conn[x]]
              /\ UNCHANGED <<holder, permits, conn>>
         ELSE Leave(x)
    /\ UNCHANGED <<transport, slot, state, opened>>

Answered(x) ==
    /\ xpc[x] = "use" /\ Healthy(conn[x])
    /\ Leave(x)
    /\ UNCHANGED <<transport, slot, state, opened>>

\* A stream error, a bad status, a closed connection: QUIC looks at the slot.
StreamFails(x) ==
    /\ xpc[x] = "use"
    /\ IF transport = "doh"
         THEN Leave(x)
         ELSE Go(x, "evict") /\ UNCHANGED <<holder, permits, conn, first>>
    /\ UNCHANGED <<transport, slot, state, opened>>

\* DoH has one timeout around everything after the permit, QUIC one around
\* connecting (ConnectFails) and one around the stream; HTTP/3 returns from
\* that one without a look at the slot.
TimedPcs == IF transport = "doh" THEN Running ELSE {"use"}
Timeout(x) ==
    /\ xpc[x] \in TimedPcs
    /\ IF transport = "doq"
         THEN Go(x, "evict") /\ UNCHANGED <<holder, permits, conn, first>>
         ELSE Leave(x)
    /\ UNCHANGED <<transport, slot, state, opened>>

\* A select drops the exchange at any await.
Cancel(x) ==
    /\ xpc[x] \in Running
    /\ Leave(x)
    /\ UNCHANGED <<transport, slot, state, opened>>

\* The connection ends, for whatever reason.
Close(c) ==
    /\ state[c] = "up" /\ state' = [state EXCEPT ![c] = "closed"]
    /\ UNCHANGED <<transport, slot, holder, opened, permits, xpc, conn, first>>

-----------------------------------------------------------------------------
Idle == (\A x \in Exchanges : xpc[x] = "done") /\ UNCHANGED vars

Next ==
    \/ \E x \in Exchanges :
          \/ Start(x) \/ Acquire(x) \/ PermitTimeout(x)
          \/ GetOrConnect(x) \/ Connected(x) \/ ConnectFails(x)
          \/ EvictLock(x) \/ EvictIfUnhealthy(x)
          \/ Probe(x) \/ Answered(x) \/ StreamFails(x) \/ Timeout(x) \/ Cancel(x)
    \/ \E c \in Conns : Close(c)
    \/ Idle

Spec == Init /\ [][Next]_vars

-----------------------------------------------------------------------------
\* evict_if_unhealthy: a connection leaves the slot, cleared or replaced, only
\* once it has closed; a stale verdict never evicts a fresh connection.
OnlyClosedEvicted ==
    \A c \in Conns : slot = c /\ slot' # c => state[c] = "closed"

\* get_or_connect: as the lock is held while connecting, exchanges that find
\* the slot empty together open one connection between them, and no open
\* connection is lost from the slot.
OneOpenConnection ==
    \A c \in Conns : state[c] = "up" => slot = c

\* exchange: permits in the semaphore and in the hands of exchanges add up.
PermitsConserved ==
    permits + Cardinality({x \in Exchanges : xpc[x] \in Running}) = Permits

\* send_request: its second attempt is on another connection than the one it
\* found dead, so it fails only if two connections died under it.
RetryOnAnother ==
    \A x \in Exchanges : xpc[x] = "probe" /\ first[x] # None => conn[x] # first[x]

\* exchange returns although the lock is held across awaits: everyone who
\* waits for it gets it or times out.
ExchangesEnd == []<>(\A x \in Exchanges : xpc[x] \in {"new", "done"})

=============================================================================
