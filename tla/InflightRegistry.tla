--------------------------- MODULE InflightRegistry ---------------------------
(***************************************************************************)
(* The registry that pairs concurrent upstream queries with responses by a *)
(* 16-bit ID (upstream/inflight.rs), driven by the exchanges that use it   *)
(* (upstream/udp.rs, upstream/tcp_mux.rs).  Responses may be lost, delayed  *)
(* past the end of their exchange, or duplicated; an ID is free again once  *)
(* its entry is gone, while the guard of its former owner may still live.   *)
(***************************************************************************)
EXTENDS Naturals, FiniteSets

CONSTANTS
    Exchanges,    \* calls of exchange
    Questions,    \* question sections
    Ids,          \* upstream IDs, the outputs of mix16
    Shards,       \* lock shards
    ShardOf,      \* the shard that owns an ID
    QuestionOf,   \* the question each exchange asks
    Cap           \* upstream-max-inflight; 0 means unlimited

ASSUME RegistryAssumption ==
    /\ IsFiniteSet(Exchanges)
    /\ Ids # {}
    /\ Cap \in Nat
    /\ QuestionOf \in [Exchanges -> Questions]
    /\ ShardOf \in [Ids -> Shards]

VARIABLES
    pc,         \* where each exchange is
    id,         \* the ID its registration got
    token,      \* the token of its guard
    inbox,      \* its oneshot: the question answered, once delivered
    entries,    \* the registry: a set of entries over all shards
    nextToken,  \* InflightRegistry::next_token
    permits,    \* free permits of the cap
    network     \* queries sent upstream, any of which may be answered

vars == <<pc, id, token, inbox, entries, nextToken, permits, network>>

\* pcs at which the InflightGuard of an exchange is alive.
GuardPcs == {"registered", "waiting", "fallback", "leaving"}
Pcs == GuardPcs \cup {"start", "done"}
Guards == {e \in Exchanges : pc[e] \in GuardPcs}
States == {"none", "open", "closed", "delivered"}

Entry(e, i) == [id |-> i, token |-> nextToken, question |-> QuestionOf[e], owner |-> e]
Entries == [id : Ids, token : Nat, question : Questions, owner : Exchanges]
Packets == [id : Ids, question : Questions]

Init ==
    /\ pc = [e \in Exchanges |-> "start"]
    /\ id = [e \in Exchanges |-> CHOOSE i \in Ids : TRUE]
    /\ token = [e \in Exchanges |-> 0]
    /\ inbox = [e \in Exchanges |-> [state |-> "none", question |-> QuestionOf[e]]]
    /\ entries = {}
    /\ nextToken = 0
    /\ permits = Cap
    /\ network = {}

Goto(e, label) == pc' = [pc EXCEPT ![e] = label]

Used == {x.id : x \in entries}

-----------------------------------------------------------------------------
(* InflightRegistry::register.                                              *)

\* The probe loop inserts under the first ID it finds vacant; which one that
\* is depends on the counter all exchanges share.
Register(e) ==
    /\ pc[e] = "start"
    /\ Cap > 0 => permits > 0
    /\ permits' = IF Cap > 0 THEN permits - 1 ELSE permits
    /\ \E i \in Ids \ Used :
          /\ entries' = entries \cup {Entry(e, i)}
          /\ id' = [id EXCEPT ![e] = i]
    /\ token' = [token EXCEPT ![e] = nextToken]
    /\ nextToken' = nextToken + 1
    /\ inbox' = [inbox EXCEPT ![e].state = "open"]
    /\ Goto(e, "registered")
    /\ UNCHANGED network

\* InflightCapReached: nothing is taken.
CapReached(e) ==
    /\ pc[e] = "start"
    /\ Cap > 0 /\ permits = 0
    /\ Goto(e, "done")
    /\ UNCHANGED <<id, token, inbox, entries, nextToken, permits, network>>

\* "inflight table is full": the token is spent, the permit comes back.
TableFull(e) ==
    /\ pc[e] = "start"
    /\ Cap > 0 => permits > 0
    /\ Ids \subseteq Used
    /\ nextToken' = nextToken + 1
    /\ Goto(e, "done")
    /\ UNCHANGED <<id, token, inbox, entries, permits, network>>

-----------------------------------------------------------------------------
(* The exchange that holds the guard.                                       *)

Send(e) ==
    /\ pc[e] = "registered"
    /\ network' = network \cup {[id |-> id[e], question |-> QuestionOf[e]]}
    /\ Goto(e, "waiting")
    /\ UNCHANGED <<id, token, inbox, entries, nextToken, permits>>

\* A send queue that is gone, a connection that cannot be had, a timeout, or
\* the caller dropping the future.
GiveUp(e) ==
    /\ pc[e] \in {"registered", "waiting"}
    /\ Goto(e, "leaving")
    /\ UNCHANGED <<id, token, inbox, entries, nextToken, permits, network>>

\* The oneshot resolves.  A truncated UDP response is asked for again over
\* TCP, with the guard still alive.
Receive(e) ==
    /\ pc[e] = "waiting"
    /\ inbox[e].state # "open"
    /\ \/ Goto(e, "leaving")
       \/ inbox[e].state = "delivered" /\ Goto(e, "fallback")
    /\ UNCHANGED <<id, token, inbox, entries, nextToken, permits, network>>

\* The TCP exchange ends, well or badly.
FallbackDone(e) ==
    /\ pc[e] = "fallback"
    /\ Goto(e, "leaving")
    /\ UNCHANGED <<id, token, inbox, entries, nextToken, permits, network>>

\* Mutant: the guard removes whatever entry has its ID.
DropGuardById(e) ==
    /\ pc[e] = "leaving"
    /\ entries' = {x \in entries : x.id # id[e]}
    /\ permits' = IF Cap > 0 THEN permits + 1 ELSE permits
    /\ Goto(e, "done")
    /\ UNCHANGED <<id, token, inbox, nextToken, network>>

\* Mutant: the guard gives back its permit and leaves its entry.
DropGuardPermitOnly(e) ==
    /\ pc[e] = "leaving"
    /\ permits' = IF Cap > 0 THEN permits + 1 ELSE permits
    /\ Goto(e, "done")
    /\ UNCHANGED <<id, token, inbox, entries, nextToken, network>>

\* Mutant: the permit is given back only if the entry was still there.
DropGuardIfOwned(e) ==
    /\ pc[e] = "leaving"
    /\ LET mine == {x \in entries : x.id = id[e] /\ x.token = token[e]}
       IN  /\ entries' = entries \ mine
           /\ permits' = IF Cap > 0 /\ mine # {} THEN permits + 1 ELSE permits
    /\ Goto(e, "done")
    /\ UNCHANGED <<id, token, inbox, nextToken, network>>

\* Drop of InflightGuard: the entry goes only if it is still this
\* registration's; the permit goes back in any case.
DropGuard(e) ==
    /\ pc[e] = "leaving"
    /\ entries' = {x \in entries : ~(x.id = id[e] /\ x.token = token[e])}
    /\ permits' = IF Cap > 0 THEN permits + 1 ELSE permits
    /\ Goto(e, "done")
    /\ UNCHANGED <<id, token, inbox, nextToken, network>>

-----------------------------------------------------------------------------
(* The receive side.                                                        *)

Close(owners) ==
    inbox' = [e \in Exchanges |->
                 IF e \in owners /\ inbox[e].state = "open"
                 THEN [inbox[e] EXCEPT !.state = "closed"] ELSE inbox[e]]

\* Mutant: the waiter is completed by ID alone.
DeliverById(p) ==
    \E x \in entries :
        /\ x.id = p.id
        /\ entries' = entries \ {x}
        /\ inbox' = IF inbox[x.owner].state = "open"
                    THEN [inbox EXCEPT ![x.owner] =
                             [state |-> "delivered", question |-> p.question]]
                    ELSE inbox
        /\ UNCHANGED <<pc, id, token, nextToken, permits, network>>

\* InflightRegistry::complete on a response that has a waiter: peek, compare
\* the question, remove and send, all under the shard lock.
Deliver(p) ==
    \E x \in entries :
        /\ x.id = p.id
        /\ x.question = p.question
        /\ entries' = entries \ {x}
        /\ inbox' = IF inbox[x.owner].state = "open"
                    THEN [inbox EXCEPT ![x.owner] =
                             [state |-> "delivered", question |-> p.question]]
                    ELSE inbox
        /\ UNCHANGED <<pc, id, token, nextToken, permits, network>>

\* InflightRegistry::clear, one shard at a time.
ClearShard(s) ==
    LET gone == {x \in entries : ShardOf[x.id] = s} IN
    /\ gone # {}
    /\ entries' = entries \ gone
    /\ Close({x.owner : x \in gone})
    /\ UNCHANGED <<pc, id, token, nextToken, permits, network>>

-----------------------------------------------------------------------------
Step(e) ==
    \/ Register(e) \/ CapReached(e) \/ TableFull(e)
    \/ Send(e) \/ GiveUp(e) \/ Receive(e) \/ FallbackDone(e) \/ DropGuard(e)

Next ==
    \/ \E e \in Exchanges : Step(e)
    \/ \E p \in network : Deliver(p)
    \/ \E s \in Shards : ClearShard(s)
    \/ (\A e \in Exchanges : pc[e] = "done") /\ UNCHANGED vars

Spec == Init /\ [][Next]_vars

-----------------------------------------------------------------------------
(* Properties.                                                              *)

\* The values the variables of the registry and its exchanges range over.
TypeOK ==
    /\ pc \in [Exchanges -> Pcs]
    /\ id \in [Exchanges -> Ids]
    /\ token \in [Exchanges -> Nat]
    /\ inbox \in [Exchanges -> [state : States, question : Questions]]
    /\ entries \subseteq Entries
    /\ nextToken \in Nat
    /\ permits \in Nat
    /\ network \subseteq Packets

\* A response reaches an exchange only if it answers that exchange's question,
\* however late or often the responses of former owners of the ID arrive.
AnswersOwnQuestion ==
    \A e \in Exchanges :
        inbox[e].state = "delivered" => inbox[e].question = QuestionOf[e]

\* While an exchange waits, its registration is in the table: no guard, stale
\* response or later registration of another exchange evicts it.
WaiterKeepsEntry ==
    \A e \in Exchanges :
        (pc[e] \in GuardPcs /\ inbox[e].state = "open")
            => \E x \in entries : x.owner = e /\ x.id = id[e] /\ x.token = token[e]

\* Every entry belongs to a live guard, which will remove it: entries of
\* exchanges that timed out do not pile up until the table is full.
EntryHasGuard ==
    \A x \in entries :
        pc[x.owner] \in GuardPcs /\ x.id = id[x.owner] /\ x.token = token[x.owner]

\* The cap counts live guards, those whose response has already arrived too.
PermitsConserved ==
    Cap > 0 => permits + Cardinality(Guards) = Cap

\* How the registry implements Correlator: a registration is pending until its
\* response is handed over, the registry is cleared or its guard is dropped.
StatusOf(e) ==
    IF inbox[e].state = "delivered" THEN "answered"
    ELSE IF pc[e] = "start" THEN "idle"
    ELSE IF pc[e] = "done" \/ inbox[e].state = "closed" THEN "failed"
    ELSE "pending"
GotOf(e) == IF inbox[e].state = "delivered" THEN {inbox[e].question} ELSE {}

Abstract == INSTANCE Correlator WITH
    status <- [e \in Exchanges |-> StatusOf(e)],
    got <- [e \in Exchanges |-> GotOf(e)]

\* The registry implements Correlator: in every behaviour a registration is answered
\* at most once, by a response to its own question, never after it was cleared or its
\* guard was dropped, and no more than the cap are pending at a time (inflight.rs).
Correlates == Abstract!Spec
=============================================================================
