------------------------------ MODULE EcsCache ------------------------------
(***************************************************************************)
(* EDNS client subnets (ECS) and the response cache: cache.rs's keys and   *)
(* its fallback lookup, resolver.rs's choice of the key an answer is       *)
(* cached and shared under, and upstream/mod.rs's apply_ecs_mode, for one  *)
(* question and one rule.                                                  *)
(*                                                                         *)
(* A client asks with the subnet it is in, with an OPT record and no       *)
(* subnet, or without an OPT record.  An answer is known by the subnet the *)
(* server saw.                                                             *)
(***************************************************************************)
EXTENDS Integers, FiniteSets

CONSTANTS Clients, Subnets,
          Forwarding    \* the rule has a filter that forwards

EcsAssumption == /\ IsFiniteSet(Clients) /\ IsFiniteSet(Subnets)
                 /\ "none" \notin Subnets /\ "fixed" \notin Subnets
                 /\ Forwarding \in BOOLEAN

\* EcsMode of a server's endpoints: all alike, or some strip and some forward.
Modes == {"strip", "forward", "fixed", "mixed"}

\* QueryVariant: has_opt and ecs_src.
Variants == [opt : {TRUE}, ecs : Subnets \cup {"none"}] \cup [opt : {FALSE}, ecs : {"none"}]
Keys == Variants
NoEntry == [variant |-> [opt |-> FALSE, ecs |-> "none"], seen |-> "empty"]

VARIABLES mode,         \* the rule's server
          mode2,        \* the server its filter forwards to
          cache,        \* cache[k]: the entry, NoEntry when there is none
          cpc, variant, \* where a client is, and the variant of its query
          ck,           \* its cache key, which is its singleflight key too
          answered,     \* the answer it was given: the subnet the server saw
          how           \* history: from a hit, as a leader or as a follower

vars == <<mode, mode2, cache, cpc, variant, ck, answered, how>>

TypeOK ==
    /\ mode \in Modes /\ mode2 \in Modes
    /\ cache \in [Keys -> [variant : Variants, seen : Subnets \cup {"none", "fixed", "empty"}]]
    /\ cpc \in [Clients -> {"idle", "missed", "leading", "following", "done"}]
    /\ variant \in [Clients -> Variants] /\ ck \in [Clients -> Keys]
    /\ answered \in [Clients -> Subnets \cup {"none", "fixed", "empty"}]
    /\ how \in [Clients -> {"none", "hit", "lead", "follow"}]

Init ==
    /\ mode \in Modes /\ mode2 \in (IF Forwarding THEN Modes ELSE {mode})
    /\ cache = [k \in Keys |-> NoEntry]
    /\ cpc = [c \in Clients |-> "idle"]
    /\ variant \in [Clients -> Variants]
    /\ ck = variant
    /\ answered = [c \in Clients |-> "empty"] /\ how = [c \in Clients |-> "none"]

-----------------------------------------------------------------------------
\* finish_cache_key: every part of the variant, the subnet unless it is stripped.
CacheKey(v, strip) == IF strip THEN [v EXCEPT !.ecs = "none"] ELSE v

\* queries_match_v: the stripped comparison leaves the subnet out.
QueriesMatch(stored, live, strip) ==
    IF strip THEN stored.opt = live.opt ELSE stored = live

\* lookup_into_keyed, for an entry that is fresh.
Found(v, strip) ==
    LET e == cache[CacheKey(v, strip)]
    IN e.seen # "empty" /\ QueriesMatch(e.variant, v, strip)

\* get_into_with_ecs_fallback: the query's own key, then the stripped one.
Lookup(v) == IF Found(v, FALSE) THEN {cache[CacheKey(v, FALSE)].seen}
             ELSE IF v.ecs # "none" /\ Found(v, TRUE) THEN {cache[CacheKey(v, TRUE)].seen}
             ELSE {}

Hit(c) ==
    /\ cpc[c] = "idle"
    /\ \E a \in Lookup(variant[c]) : answered' = [answered EXCEPT ![c] = a]
    /\ cpc' = [cpc EXCEPT ![c] = "done"] /\ how' = [how EXCEPT ![c] = "hit"]
    /\ UNCHANGED <<mode, mode2, cache, variant, ck>>

\* Server::strip_ecs: every endpoint strips.
StripEcs(m) == m = "strip"

Miss(c) ==
    /\ cpc[c] = "idle" /\ Lookup(variant[c]) = {}
    /\ cpc' = [cpc EXCEPT ![c] = "missed"]
    /\ ck' = [ck EXCEPT ![c] = CacheKey(variant[c], StripEcs(mode) /\ variant[c].ecs # "none")]
    /\ UNCHANGED <<mode, mode2, cache, variant, answered, how>>

Leader(k) == {c \in Clients : cpc[c] = "leading" /\ ck[c] = k}

Register(c) ==
    /\ cpc[c] = "missed"
    /\ cpc' = [cpc EXCEPT ![c] = IF Leader(ck[c]) = {} THEN "leading" ELSE "following"]
    /\ UNCHANGED <<mode, mode2, cache, variant, ck, answered, how>>

\* apply_ecs_mode: the subnet the server sees.
ApplyEcs(m, v) == CASE m = "strip" -> {"none"}
                    [] m = "forward" -> {v.ecs}
                    [] m = "fixed" -> {"fixed"}
                    [] m = "mixed" -> {"none", v.ecs}

\* The query an entry is compared by: stripped of its subnet when its key is.
CacheQuery(c) == IF StripEcs(mode) THEN [variant[c] EXCEPT !.ecs = "none"] ELSE variant[c]

\* The leader's server, or the one its filter forwards to, answers; the answer
\* is cached under the leader's key and published to the followers.
Lead(c) ==
    /\ cpc[c] = "leading"
    /\ \E m \in {mode} \cup (IF Forwarding THEN {mode2} ELSE {}) :
       \E a \in ApplyEcs(m, variant[c]) :
           LET followers == {f \in Clients : cpc[f] = "following" /\ ck[f] = ck[c]}
               Ended(x) == x = c \/ x \in followers
           IN /\ cache' = [cache EXCEPT ![ck[c]] = [variant |-> CacheQuery(c), seen |-> a]]
              /\ answered' = [x \in Clients |-> IF Ended(x) THEN a ELSE answered[x]]
              /\ cpc' = [x \in Clients |-> IF Ended(x) THEN "done" ELSE cpc[x]]
              /\ how' = [x \in Clients |-> IF x = c THEN "lead"
                                           ELSE IF x \in followers THEN "follow" ELSE how[x]]
    /\ UNCHANGED <<mode, mode2, variant, ck>>

\* The entry expires or is evicted, and a client that has been answered asks
\* again, perhaps from another subnet.
Evict(k) ==
    /\ cache[k] # NoEntry
    /\ cache' = [cache EXCEPT ![k] = NoEntry]
    /\ UNCHANGED <<mode, mode2, cpc, variant, ck, answered, how>>

AskAgain(c) ==
    /\ cpc[c] = "done"
    /\ \E v \in Variants : /\ variant' = [variant EXCEPT ![c] = v]
                           /\ ck' = [ck EXCEPT ![c] = v]
    /\ cpc' = [cpc EXCEPT ![c] = "idle"]
    /\ answered' = [answered EXCEPT ![c] = "empty"] /\ how' = [how EXCEPT ![c] = "none"]
    /\ UNCHANGED <<mode, mode2, cache>>

Next == \/ \E c \in Clients : Hit(c) \/ Miss(c) \/ Register(c) \/ Lead(c) \/ AskAgain(c)
        \/ \E k \in Keys : Evict(k)

Spec == Init /\ [][Next]_vars

-----------------------------------------------------------------------------
\* An answer a server computed for one subnet is given only to clients of that
\* subnet: neither the shared key of a stripping rule nor a shared exchange ever
\* carries it to others ("all clients can share a single cache entry",
\* router.rs:89, only when no upstream sees a subnet).
SubnetPrivate ==
    \A c \in Clients : answered[c] \in Subnets => answered[c] = variant[c].ecs

\* A rule whose servers strip the subnet keeps one entry for all subnets, and so
\* never asks upstream again because a client moved (cache.rs:300).
OneEntryPerQuestion ==
    mode = "strip" => \A k \in Keys : k.ecs # "none" => cache[k] = NoEntry

=============================================================================
