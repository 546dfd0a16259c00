---------------------------- MODULE QueryPipeline ----------------------------
(***************************************************************************)
(* The life of a client query (resolver.rs, singleflight.rs, cache.rs,     *)
(* verdict_cache.rs) while hot reloads (server.rs) replace the routing     *)
(* state under it.                                                         *)
(*                                                                         *)
(* Every query is a process whose steps are the points where another task  *)
(* or thread can intervene: an await, a lock, an ArcSwap load, a cache     *)
(* call.  Routing, filters and upstreams are reduced to what they decide:  *)
(* an answer, a filtered query or an error.  A generation stands for all   *)
(* the routing state of one HotState.                                      *)
(***************************************************************************)
EXTENDS Naturals, FiniteSets

CONSTANTS
    Queries,        \* client queries, each one packet
    Questions,      \* a question section and an EDNS variant
    Sections,       \* question sections: qname, qtype and class
    Names,          \* qnames, the keys of the verdict cache
    Keys,           \* 64-bit cache keys; two questions may share one
    Reloaders,      \* reload_ruleset and reload_config
    QuestionOf,     \* the question each query asks
    SectionOf,      \* question section of a question
    KeyOf,          \* cache key of a question
    NameOf,         \* qname of a question
    RouteOf,        \* <<generation, question>> to a target
    MaxInflight,    \* permits of AppState::limit
    MaxGeneration   \* bound on the number of reloads

Generations == 0 .. MaxGeneration

\* "rule" is RouteTarget::Rule, the only target with filters and skip-cache;
\* "final" is Server or Race; "cidr" is CidrTest.
Targets == {"rule", "final", "cidr"}

ASSUME PipelineAssumption ==
    /\ IsFiniteSet(Queries)
    /\ QuestionOf \in [Queries -> Questions]
    /\ SectionOf \in [Questions -> Sections]
    /\ KeyOf \in [Questions -> Keys]
    /\ NameOf \in [Questions -> Names]
    /\ MaxInflight \in Nat
    /\ MaxGeneration \in Nat
    /\ RouteOf \in [Generations \X Questions -> Targets]

VARIABLES
    pc,         \* where each query is
    snap,       \* generation of the HotState a query holds
    basis,      \* generation of the ruleset its CIDR decision rests on
    chan,       \* a follower's oneshot channel
    reply,      \* what a query's client got
    permits,    \* free permits of AppState::limit
    occupied,   \* keys present in the singleflight table
    waiters,    \* senders pushed under each key
    cache,      \* the response cache, a set of entries
    verdicts,   \* the verdict cache, a set of entries
    hot,        \* generation of the current HotState
    rpc,        \* where each reloader is
    rgen,       \* generation a reloader is about to publish
    stores      \* history: number of HotStates published by reloads

queryVars == <<pc, snap, basis, chan, reply>>
tableVars == <<occupied, waiters>>
reloadVars == <<hot, rpc, rgen, stores>>
vars == <<pc, snap, basis, chan, reply, permits, occupied, waiters, cache,
          verdicts, hot, rpc, rgen, stores>>

\* The singleflight key mixes the generation into the cache key; the mix is
\* taken to be injective (a collision needs two equal 64-bit values).
SfKeys == Keys \X Generations
CacheKey(q) == KeyOf[QuestionOf[q]]
Name(q) == NameOf[QuestionOf[q]]
\* Mutant: the generation is left out of the singleflight key.
SfKeyWithoutGeneration(q) == <<CacheKey(q), 0>>

SfKey(q) == <<CacheKey(q), snap[q]>>

\* pcs at which a query owns the singleflight entry of its key.
LeaderPcs == {"leading", "exchanging", "testing", "judged", "secondary",
              "answered", "caching", "publishing", "dropped", "errored", "abandoned"}
\* pcs at which a query holds a permit of AppState::limit.
PermitPcs == LeaderPcs \cup {"admitted", "routed", "following", "published"}
Pcs == PermitPcs \cup {"new", "expired", "missed", "done"}
PermitHolders == {q \in Queries : pc[q] \in PermitPcs}

Message(kind, q, g) == [kind |-> kind, question |-> QuestionOf[q], gen |-> g]
Messages == [kind : {"none", "open", "closed", "cached", "answer", "servfail",
                     "drop", "notimp"},
             question : Questions, gen : Generations]
\* late: the generation had already moved on when the entry was inserted.
CacheEntries == [key : Keys, question : Questions, gen : Generations,
                 basis : Generations, late : BOOLEAN]
Verdicts == [name : Names, gen : Generations, late : BOOLEAN]

Init ==
    /\ pc = [q \in Queries |-> "new"]
    /\ snap = [q \in Queries |-> 0]
    /\ basis = [q \in Queries |-> 0]
    /\ chan = [q \in Queries |-> Message("none", q, 0)]
    /\ reply = [q \in Queries |-> Message("none", q, 0)]
    /\ permits = MaxInflight
    /\ occupied = {}
    /\ waiters = [k \in SfKeys |-> {}]
    /\ cache = {}
    /\ verdicts = {}
    /\ hot = 0
    /\ rpc = [r \in Reloaders |-> "idle"]
    /\ rgen = [r \in Reloaders |-> 0]
    /\ stores = 0

-----------------------------------------------------------------------------
(* Fast path: resolver::try_fast_path_into and DnsCache::lookup_into_keyed. *)

Goto(q, label) == pc' = [pc EXCEPT ![q] = label]

\* An entry answers a query only if it was stored for the same section and variant.
Hits(q) == {e \in cache : e.key = CacheKey(q) /\ e.question = QuestionOf[q]}

\* A packet that is no standard IN query: NOTIMP, or no reply at all.  The
\* slow path parses the rest of the packet and may still give up silently.
RejectPacket(q) ==
    /\ pc[q] \in {"new", "missed"}
    /\ \E kind \in {"notimp", "none"} :
          /\ kind = "notimp" => pc[q] = "new"
          /\ reply' = [reply EXCEPT ![q] = Message(kind, q, 0)]
    /\ Goto(q, "done")
    /\ UNCHANGED <<snap, basis, chan, permits, tableVars, cache, verdicts, reloadVars>>

CacheHit(q) ==
    /\ pc[q] = "new"
    /\ \E e \in Hits(q) :
          reply' = [reply EXCEPT ![q] =
                       [kind |-> "cached", question |-> e.question, gen |-> e.gen]]
    /\ Goto(q, "done")
    /\ UNCHANGED <<snap, basis, chan, permits, tableVars, cache, verdicts, reloadVars>>

CacheMiss(q) ==
    /\ pc[q] = "new"
    /\ Hits(q) = {}
    /\ Goto(q, "missed")
    /\ UNCHANGED <<snap, basis, chan, reply, permits, tableVars, cache, verdicts, reloadVars>>

\* The entry that was read has outlived its TTL; the removal is a later call.
FindExpired(q) ==
    /\ pc[q] = "new"
    /\ Hits(q) # {}
    /\ Goto(q, "expired")
    /\ UNCHANGED <<snap, basis, chan, reply, permits, tableVars, cache, verdicts, reloadVars>>

\* Removal is by key: it takes whatever entry is there by now.
RemoveExpired(q) ==
    /\ pc[q] = "expired"
    /\ cache' = {e \in cache : e.key # CacheKey(q)}
    /\ Goto(q, "missed")
    /\ UNCHANGED <<snap, basis, chan, reply, permits, tableVars, verdicts, reloadVars>>

-----------------------------------------------------------------------------
(* Admission: resolver::handle_packet_slow_with_info.  Waiting in queue     *)
(* mode is staying at "missed".                                             *)

Admit(q) ==
    /\ pc[q] = "missed"
    /\ permits > 0
    /\ permits' = permits - 1
    /\ Goto(q, "admitted")
    /\ UNCHANGED <<snap, basis, chan, reply, tableVars, cache, verdicts, reloadVars>>

Overload(q) ==
    /\ pc[q] = "missed"
    /\ permits = 0
    /\ reply' = [reply EXCEPT ![q] = Message("servfail", q, 0)]
    /\ Goto(q, "done")
    /\ UNCHANGED <<snap, basis, chan, permits, tableVars, cache, verdicts, reloadVars>>

\* Mutant: a return path that keeps its permit.
FinishKeepingPermit(q, answer) ==
    /\ reply' = [reply EXCEPT ![q] = answer]
    /\ UNCHANGED permits
    /\ Goto(q, "done")

\* Every return path of the slow path drops the permit.
Finish(q, answer) ==
    /\ reply' = [reply EXCEPT ![q] = answer]
    /\ permits' = permits + 1
    /\ Goto(q, "done")

-----------------------------------------------------------------------------
(* resolver::resolve_query and exchange_with_dedupe, up to the exchange.    *)

\* state.hot.load_full(): everything routed from here on is this generation's.
Snapshot(q) ==
    /\ pc[q] = "admitted"
    /\ snap' = [snap EXCEPT ![q] = hot]
    /\ basis' = [basis EXCEPT ![q] = hot]
    /\ Goto(q, "routed")
    /\ UNCHANGED <<chan, reply, permits, tableVars, cache, verdicts, reloadVars>>

RegisterLeader(q) ==
    /\ pc[q] = "routed"
    /\ SfKey(q) \notin occupied
    /\ occupied' = occupied \cup {SfKey(q)}
    /\ Goto(q, "leading")
    /\ UNCHANGED <<snap, basis, chan, reply, permits, waiters, cache, verdicts, reloadVars>>

RegisterFollower(q) ==
    /\ pc[q] = "routed"
    /\ SfKey(q) \in occupied
    /\ waiters' = [waiters EXCEPT ![SfKey(q)] = @ \cup {q}]
    /\ chan' = [chan EXCEPT ![q] = Message("open", q, snap[q])]
    /\ Goto(q, "following")
    /\ UNCHANGED <<snap, basis, reply, permits, occupied, cache, verdicts, reloadVars>>

-----------------------------------------------------------------------------
(* The leader's exchange: resolve_with_filters, do_upstream_exchange and    *)
(* resolve_none_rule_with_cidr.                                             *)

Target(q) == RouteOf[<<snap[q], QuestionOf[q]>>]

\* VerdictCache::get.  A hit (an expired verdict is a miss) fixes the server
\* the query goes to; basis remembers which generation decided that.
ReuseVerdict(q) ==
    /\ pc[q] = "leading"
    /\ Target(q) = "cidr"
    /\ \E v \in verdicts :
          /\ v.name = Name(q)
          /\ basis' = [basis EXCEPT ![q] = v.gen]
    /\ Goto(q, "exchanging")
    /\ UNCHANGED <<snap, chan, reply, permits, tableVars, cache, verdicts, reloadVars>>

TestBoth(q) ==
    /\ pc[q] = "leading"
    /\ Target(q) = "cidr"
    /\ Goto(q, "testing")
    /\ UNCHANGED <<snap, basis, chan, reply, permits, tableVars, cache, verdicts, reloadVars>>

\* The exchange of every other target, or of the server a verdict names.
\* Only a rule's filters can drop the query.
Exchange(q) ==
    /\ \/ pc[q] = "leading" /\ Target(q) # "cidr"
       \/ pc[q] = "exchanging"
    /\ \E outcome \in {"answered", "dropped", "errored"} :
          /\ outcome = "dropped" => Target(q) = "rule"
          /\ Goto(q, outcome)
    /\ UNCHANGED <<snap, basis, chan, reply, permits, tableVars, cache, verdicts, reloadVars>>

\* Both servers were asked.  A primary answer with addresses is judged
\* against the ruleset, and the verdict is kept if the generation read at
\* this point is still the query's; an answer without addresses, or from the
\* secondary alone, leaves no verdict.
JudgePrimary(q) ==
    /\ pc[q] = "testing"
    /\ \E outcome \in {"judged", "answered", "errored"} :
          /\ outcome = "judged" => hot = snap[q]
          /\ Goto(q, outcome)
    /\ UNCHANGED <<snap, basis, chan, reply, permits, tableVars, cache, verdicts, reloadVars>>

\* VerdictCache::add, a later call than the generation check.  A verdict
\* against the primary still waits for the secondary's answer.
AddVerdict(q) ==
    /\ pc[q] = "judged"
    /\ verdicts' = {v \in verdicts : v.name # Name(q)} \cup
                   {[name |-> Name(q), gen |-> snap[q], late |-> hot # snap[q]]}
    /\ \E outcome \in {"answered", "secondary"} : Goto(q, outcome)
    /\ UNCHANGED <<snap, basis, chan, reply, permits, tableVars, cache, reloadVars>>

\* The secondary answers or fails, and then the primary's answer stands in.
AwaitSecondary(q) ==
    /\ pc[q] = "secondary"
    /\ Goto(q, "answered")
    /\ UNCHANGED <<snap, basis, chan, reply, permits, tableVars, cache, verdicts, reloadVars>>

-----------------------------------------------------------------------------
(* The leader after its exchange: exchange_with_dedupe.                     *)

\* The cache is written only if the target allows it and the generation read
\* here is still the query's.
CheckGeneration(q) ==
    /\ pc[q] = "answered"
    /\ \/ hot = snap[q] /\ Goto(q, "caching")
       \/ (hot # snap[q] \/ Target(q) = "rule") /\ Goto(q, "publishing")
    /\ UNCHANGED <<snap, basis, chan, reply, permits, tableVars, cache, verdicts, reloadVars>>

\* DnsCache::add, which declines a truncated or uncacheable response.
CacheAdd(q) ==
    /\ pc[q] = "caching"
    /\ \/ cache' = {e \in cache : e.key # CacheKey(q)} \cup
                   {[key |-> CacheKey(q), question |-> QuestionOf[q], gen |-> snap[q],
                     basis |-> basis[q], late |-> hot # snap[q]]}
       \/ UNCHANGED cache
    /\ Goto(q, "publishing")
    /\ UNCHANGED <<snap, basis, chan, reply, permits, tableVars, verdicts, reloadVars>>

\* Mutant: the entry is looked up under the current generation.
TakeWaitersOfCurrent(q, message) ==
    LET k == <<CacheKey(q), hot>> IN
    /\ occupied' = occupied \ {k}
    /\ waiters' = [waiters EXCEPT ![k] = {}]
    /\ chan' = [w \in Queries |-> IF w \in waiters[k] /\ chan[w].kind = "open"
                                  THEN message ELSE chan[w]]

\* singleflight::take_waiters and the sends that follow it.  The sends come
\* after the unlock, but each goes to a oneshot only its follower reads.
TakeWaiters(q, message) ==
    /\ occupied' = occupied \ {SfKey(q)}
    /\ waiters' = [waiters EXCEPT ![SfKey(q)] = {}]
    /\ chan' = [w \in Queries |-> IF w \in waiters[SfKey(q)] /\ chan[w].kind = "open"
                                  THEN message ELSE chan[w]]

\* publish_bytes (an answer or a SERVFAIL) and publish_drop.
Publish(q) ==
    /\ pc[q] \in {"publishing", "dropped", "errored"}
    /\ LET kind == CASE pc[q] = "publishing" -> "answer"
                     [] pc[q] = "dropped" -> "drop"
                     [] pc[q] = "errored" -> "servfail"
       IN  /\ TakeWaiters(q, Message(kind, q, snap[q]))
           /\ reply' = [reply EXCEPT ![q] = Message(kind, q, snap[q])]
    /\ Goto(q, "published")
    /\ UNCHANGED <<snap, basis, permits, cache, verdicts, reloadVars>>

\* The leader ends without publishing: its future is dropped at an await, or
\* no SERVFAIL can be built from the query.
Abandon(q) ==
    /\ pc[q] \in {"leading", "exchanging", "testing", "secondary", "errored"}
    /\ Goto(q, "abandoned")
    /\ UNCHANGED <<snap, basis, chan, reply, permits, tableVars, cache, verdicts, reloadVars>>

\* Mutant: the entry is removed whether or not the leader published.
DropLeaderAlways(q) ==
    /\ pc[q] \in {"published", "abandoned"}
    /\ TakeWaiters(q, Message("closed", q, snap[q]))
    /\ Finish(q, reply[q])
    /\ UNCHANGED <<snap, basis, cache, verdicts, reloadVars>>

\* Mutant: there is no Drop, an unpublished entry stays.
DropLeaderNever(q) ==
    /\ pc[q] \in {"published", "abandoned"}
    /\ Finish(q, reply[q])
    /\ UNCHANGED <<snap, basis, chan, tableVars, cache, verdicts, reloadVars>>

\* Drop of SingleflightLeader, then of the permit.
DropLeader(q) ==
    /\ pc[q] \in {"published", "abandoned"}
    /\ \/ pc[q] = "published" /\ UNCHANGED <<tableVars, chan>>
       \/ pc[q] = "abandoned" /\ TakeWaiters(q, Message("closed", q, snap[q]))
    /\ Finish(q, reply[q])
    /\ UNCHANGED <<snap, basis, cache, verdicts, reloadVars>>

-----------------------------------------------------------------------------
(* The follower: it waits on its channel, but no longer than a deadline.    *)

SameSection(question, q) == SectionOf[question] = SectionOf[QuestionOf[q]]

\* Mutant: the published bytes are relayed without comparing the question.
ReceiveAny(q) ==
    /\ pc[q] = "following"
    /\ chan[q].kind # "open"
    /\ Finish(q, IF chan[q].kind = "closed" THEN Message("servfail", q, snap[q]) ELSE chan[q])
    /\ UNCHANGED <<snap, basis, chan, tableVars, cache, verdicts, reloadVars>>

\* A published message is used only if its question section is the follower's; the
\* variants are not compared.  A leader that went away is answered with SERVFAIL.
Receive(q) ==
    /\ pc[q] = "following"
    /\ chan[q].kind # "open"
    /\ LET m == chan[q] IN
       Finish(q, CASE m.kind = "drop" -> m
                   [] m.kind \in {"answer", "servfail"} /\ SameSection(m.question, q) -> m
                   [] OTHER -> Message("servfail", q, snap[q]))
    /\ UNCHANGED <<snap, basis, chan, tableVars, cache, verdicts, reloadVars>>

\* The receiver is dropped; its sender stays in the table.
Deadline(q) ==
    /\ pc[q] = "following"
    /\ chan[q].kind = "open"
    /\ chan' = [chan EXCEPT ![q] = Message("none", q, snap[q])]
    /\ Finish(q, Message("servfail", q, snap[q]))
    /\ UNCHANGED <<snap, basis, tableVars, cache, verdicts, reloadVars>>

-----------------------------------------------------------------------------
(* Hot reload: server::reload_ruleset and reload_config, which share        *)
(* AppState::reload_lock from the first read of the hot state to the last   *)
(* invalidation.                                                            *)

\* Mutant: the reload lock is not taken.
BeginReloadUnlocked(r) ==
    /\ rpc[r] = "idle"
    /\ hot < MaxGeneration
    /\ rgen' = [rgen EXCEPT ![r] = hot + 1]
    /\ rpc' = [rpc EXCEPT ![r] = "building"]
    /\ UNCHANGED <<queryVars, permits, tableVars, cache, verdicts, hot, stores>>

BeginReload(r) ==
    /\ \A s \in Reloaders : rpc[s] = "idle"
    /\ hot < MaxGeneration
    /\ rgen' = [rgen EXCEPT ![r] = hot + 1]
    /\ rpc' = [rpc EXCEPT ![r] = "building"]
    /\ UNCHANGED <<queryVars, permits, tableVars, cache, verdicts, hot, stores>>

\* Nothing to apply, a restart-only change, or a build that fails.
AbortReload(r) ==
    /\ rpc[r] = "building"
    /\ rpc' = [rpc EXCEPT ![r] = "idle"]
    /\ UNCHANGED <<queryVars, permits, tableVars, cache, verdicts, hot, rgen, stores>>

StoreHot(r) ==
    /\ rpc[r] = "building"
    /\ hot' = rgen[r]
    /\ stores' = stores + 1
    /\ rpc' = [rpc EXCEPT ![r] = "stored"]
    /\ UNCHANGED <<queryVars, permits, tableVars, cache, verdicts, rgen>>

\* Mutant: the response cache is not cleared.
InvalidateCacheNot(r) ==
    /\ rpc[r] = "stored"
    /\ rpc' = [rpc EXCEPT ![r] = "cleared"]
    /\ UNCHANGED <<queryVars, permits, tableVars, cache, verdicts, hot, rgen, stores>>

InvalidateCache(r) ==
    /\ rpc[r] = "stored"
    /\ cache' = {}
    /\ rpc' = [rpc EXCEPT ![r] = "cleared"]
    /\ UNCHANGED <<queryVars, permits, tableVars, verdicts, hot, rgen, stores>>

\* Mutant: the verdict cache is not cleared.
InvalidateVerdictsNot(r) ==
    /\ rpc[r] = "cleared"
    /\ rpc' = [rpc EXCEPT ![r] = "idle"]
    /\ UNCHANGED <<queryVars, permits, tableVars, cache, verdicts, hot, rgen, stores>>

InvalidateVerdicts(r) ==
    /\ rpc[r] = "cleared"
    /\ verdicts' = {}
    /\ rpc' = [rpc EXCEPT ![r] = "idle"]
    /\ UNCHANGED <<queryVars, permits, tableVars, cache, hot, rgen, stores>>

-----------------------------------------------------------------------------
FastPath(q) == \/ RejectPacket(q) \/ CacheHit(q) \/ CacheMiss(q) \/ FindExpired(q)

\* Steps the runtime keeps polling once a query is in the system.
Progress(q) ==
    \/ RemoveExpired(q) \/ Admit(q) \/ Overload(q)
    \/ Snapshot(q) \/ RegisterLeader(q) \/ RegisterFollower(q)
    \/ ReuseVerdict(q) \/ TestBoth(q) \/ Exchange(q) \/ JudgePrimary(q) \/ AddVerdict(q)
    \/ AwaitSecondary(q) \/ CheckGeneration(q) \/ CacheAdd(q) \/ Publish(q)
    \/ DropLeader(q) \/ Receive(q)

FinishReload(r) ==
    \/ AbortReload(r) \/ StoreHot(r) \/ InvalidateCache(r) \/ InvalidateVerdicts(r)

\* Every query is answered and no reload runs: the model stops here, and a
\* state without successors anywhere else is a deadlock of the code.
Quiescent ==
    /\ \A q \in Queries : pc[q] = "done"
    /\ \A r \in Reloaders : rpc[r] = "idle"
    /\ UNCHANGED vars

Next ==
    \/ \E q \in Queries : FastPath(q) \/ Progress(q) \/ Abandon(q) \/ Deadline(q)
    \/ \E r \in Reloaders : BeginReload(r) \/ FinishReload(r)
    \/ Quiescent

Spec == Init /\ [][Next]_vars

\* Tasks are polled, exchanges end by their timeouts, a reload that began
\* ends.  No fairness for arrivals, abandonment, new reloads or deadlines.
FairSpec ==
    /\ Spec
    /\ \A q \in Queries : WF_vars(Progress(q))
    /\ \A r \in Reloaders : WF_vars(FinishReload(r))

-----------------------------------------------------------------------------
(* Properties.                                                              *)

\* The values every variable of the query pipeline ranges over.
TypeOK ==
    /\ pc \in [Queries -> Pcs]
    /\ snap \in [Queries -> Generations]
    /\ basis \in [Queries -> Generations]
    /\ chan \in [Queries -> Messages]
    /\ reply \in [Queries -> Messages]
    /\ permits \in Nat
    /\ occupied \subseteq SfKeys
    /\ waiters \in [SfKeys -> SUBSET Queries]
    /\ cache \subseteq CacheEntries
    /\ verdicts \subseteq Verdicts
    /\ hot \in Generations
    /\ rpc \in [Reloaders -> {"idle", "building", "stored", "cleared"}]
    /\ rgen \in [Reloaders -> Generations]
    /\ stores \in Nat

\* A singleflight entry exists exactly while one leader is responsible for
\* it: the guard's Drop never evicts the entry of a later leader, and no two
\* leaders ask the upstreams the same question of the same generation.
OneLeaderPerEntry ==
    /\ \A k \in SfKeys :
          k \in occupied <=> \E q \in Queries : pc[q] \in LeaderPcs /\ SfKey(q) = k
    /\ \A p, q \in Queries :
          (pc[p] \in LeaderPcs /\ pc[q] \in LeaderPcs /\ SfKey(p) = SfKey(q)) => p = q

\* A follower that still waits is in the waiter list of the entry of a leader
\* that has yet to publish or to drop it, so it will be woken.
NoOrphanedFollower ==
    \A q \in Queries :
        (pc[q] = "following" /\ chan[q].kind = "open")
            => /\ q \in waiters[SfKey(q)]
               /\ \E p \in Queries : pc[p] \in LeaderPcs /\ SfKey(p) = SfKey(q)

\* What a follower takes from its leader was routed under the follower's own
\* HotState, whatever reloads happened meanwhile.
SharedUnderOwnGeneration ==
    \A q \in Queries :
        reply[q].kind \in {"answer", "drop"} => reply[q].gen = snap[q]

\* No client receives the answer to another question, even when two questions
\* share a 64-bit key in the cache and in the singleflight table: from the cache
\* it is for the same section and EDNS variant, from a leader for the same section,
\* and for another variant only where the keys of the two are equal.  (A filtered
\* leader's silence carries no question; followers pass it on unchecked.)
AnswersOwnQuestion ==
    \A q \in Queries :
        /\ reply[q].kind = "cached" => reply[q].question = QuestionOf[q]
        /\ reply[q].kind \in {"answer", "servfail"}
               => SameSection(reply[q].question, q) /\ KeyOf[reply[q].question] = CacheKey(q)

\* Permits of AppState::limit are neither lost nor minted on any return path.
PermitsConserved ==
    permits + Cardinality(PermitHolders) = MaxInflight

\* A response of an older generation is in the cache only until the reload
\* that replaced it clears the cache, or because its insert ran after the
\* swap although its generation check ran before it.
StaleEntriesAreLate ==
    \A e \in cache :
        e.gen # hot => e.late \/ \E r \in Reloaders : rpc[r] = "stored"

\* The same for routing verdicts.
StaleVerdictsAreLate ==
    \A v \in verdicts :
        v.gen # hot => v.late \/ \E r \in Reloaders : rpc[r] \in {"stored", "cleared"}

\* Two reloads never publish different HotStates under one generation.
GenerationsUnique == hot = stores

\* Every query that got past the socket ends, and no follower needs its
\* deadline for that.
EveryQueryEnds == \A q \in Queries : pc[q] # "new" ~> pc[q] = "done"

\* What resolver.rs says of the generation check: once a reload is over, no
\* response routed under an older generation is in the cache.
NoStaleEntryAfterReload ==
    (\A r \in Reloaders : rpc[r] = "idle") => \A e \in cache : e.gen = hot

\* What server.rs says of storing before clearing: a query that reads the new
\* hot state before the caches are cleared leaves nothing stale behind, that
\* is, once the reload is over what is cached under the current generation
\* was also decided by it.
NoStaleDecisionAfterReload ==
    (\A r \in Reloaders : rpc[r] = "idle")
        => \A e \in cache : e.gen = hot => e.basis = hot
=============================================================================
