--------------------------- MODULE ConfigReload ---------------------------
(***************************************************************************)
(* What a configuration must satisfy to be accepted (Config::from_json),   *)
(* what a generation built from it refers to (build_hot_state), and which  *)
(* changes a reload applies (reload_config).  The response cache and the   *)
(* ipset manager are made once, at startup, from the configuration of that *)
(* moment, and serve every later generation; the targets of add-ip are     *)
(* known to the manager by the position of their rule and filter.          *)
(*                                                                         *)
(* Server names are numbers in name order.  A generation refers to a       *)
(* server by its position among the configured ones.                       *)
(***************************************************************************)
EXTENDS Integers, Sequences, FiniteSets, SequencesExt

CONSTANTS
    Texts,      \* the configurations the operator may write
    None        \* an absent optional field

VARIABLES
    text,       \* the configuration file
    pc,         \* "down", "running", "parsed" (a reload after parsing) or "panic"
    parsed,     \* the configuration the reload has parsed
    hot,        \* the running generation
    owned       \* the startup-owned part of the configuration the process was started with

vars == <<text, pc, parsed, hot, owned>>

-----------------------------------------------------------------------------
\* Parsing.

\* parse_rule_filter_entry.  Criteria other than the record types A and AAAA are one flag.
FilterOk(f) ==
    /\ f.types # {} \/ f.other
    /\ f.action # "forward" => f.forward = None
    /\ f.action = "forward" => f.forward # None
    /\ f.add # None => f.action = "accept" /\ f.types \in {{"A"}, {"AAAA"}}

\* parse_json_rule and parse_rules: the filters and their forward targets.
RuleOk(r, servers) ==
    /\ r.server # None
    /\ \A k \in DOMAIN r.filters :
        /\ FilterOk(r.filters[k])
        /\ r.filters[k].action = "forward" => r.filters[k].forward \in servers

\* parse_final_config; without route.final there must be a rule.
FinalOk(t) ==
    \/ t.final.kind = "none" /\ t.rules # <<>>
    \/ t.final.kind = "server" /\ t.final.primary \in t.servers
    \/ /\ t.final.kind = "dual"
       /\ t.final.primary \in t.servers /\ t.final.secondary \in t.servers
       /\ t.final.primary # t.final.secondary
       /\ t.final.answer

\* apply_cache_field_overrides.
OverrideOk(t, n) ==
    LET ov == t.overrides[n] IN
    /\ ov.no => ov.min = None /\ ov.max = None
    /\ ov.min # None /\ ov.max # None => ov.min <= ov.max
    /\ \E k \in DOMAIN t.rules : t.rules[k].server = n

\* Config::from_json, the checks.
Accepts(t) ==
    /\ \A k \in DOMAIN t.rules : RuleOk(t.rules[k], t.servers)
    /\ \A k \in DOMAIN t.rules : t.rules[k].server \in t.servers
    /\ FinalOk(t)
    /\ t.cache.max > 0 => t.cache.min <= t.cache.max
    /\ \A n \in DOMAIN t.overrides : OverrideOk(t, n)

\* parse_ipset_config: position of the rule, position of the filter, set, family.
AddTargets(t) ==
    UNION {{[rule |-> k, filter |-> m, set |-> t.rules[k].filters[m].add,
             v6 |-> "AAAA" \in t.rules[k].filters[m].types] :
                m \in {j \in DOMAIN t.rules[k].filters : t.rules[k].filters[j].add # None}} :
           k \in DOMAIN t.rules}

\* What the process takes from the configuration once.
Owned(t) == [cache |-> t.cache, add |-> AddTargets(t)]

-----------------------------------------------------------------------------
\* Building a generation.

\* The position of a server in the name-sorted list.
Index(servers, n) == Cardinality({s \in servers : s < n}) + 1
\* The server at a position.
NameAt(servers, k) == SetToSortSeq(servers, <)[k]

\* resolve_policy: an override inherits what it leaves out from the cache.
Policy(t, k, cache) ==
    LET n == t.rules[k].server IN
    IF n \notin DOMAIN t.overrides THEN [skip |-> FALSE, min |-> cache.min, max |-> cache.max]
    ELSE [skip |-> t.overrides[n].no,
          min |-> IF t.overrides[n].min = None THEN cache.min ELSE t.overrides[n].min,
          max |-> IF t.overrides[n].max = None THEN cache.max ELSE t.overrides[n].max]

\* build_rules refuses a window that is inverted once inherited.
WindowOk(p) == p.min > 0 /\ p.max > 0 => p.min <= p.max

\* build_rules and build_response_filters, for one rule.
BuildRule(t, k, cache) ==
    [server |-> t.rules[k].server,
     kind |-> Index(t.servers, t.rules[k].server),
     policy |-> Policy(t, k, cache),
     filters |-> [m \in DOMAIN t.rules[k].filters |->
        LET f == t.rules[k].filters[m] IN
        [types |-> f.types, action |-> f.action, name |-> f.forward,
         forward |-> IF f.action = "forward" THEN Index(t.servers, f.forward) ELSE 0]]]

\* resolve_fallback.
Fallback(t) ==
    CASE t.final.kind = "none" -> <<"rule", Len(t.rules)>>
      [] t.final.kind = "server" -> <<"server", Index(t.servers, t.final.primary)>>
      [] OTHER -> <<"dual", Index(t.servers, t.final.primary),
                    Index(t.servers, t.final.secondary)>>

\* Config parsing has to make sure that these lookups hit: the first is an index operation
\* on a map, which ends the process when it misses, the other returns an error.
ServersKnown(t) == \A k \in DOMAIN t.rules : t.rules[k].server \in t.servers
ForwardsKnown(t) ==
    \A k \in DOMAIN t.rules : \A m \in DOMAIN t.rules[k].filters :
        t.rules[k].filters[m].action = "forward" => t.rules[k].filters[m].forward \in t.servers
Windows(t, cache) == \A k \in DOMAIN t.rules : WindowOk(Policy(t, k, cache))
Buildable(t, cache) == ServersKnown(t) /\ ForwardsKnown(t) /\ Windows(t, cache)

Build(t, cache) ==
    [text |-> t, servers |-> t.servers, fallback |-> Fallback(t),
     rules |-> [k \in DOMAIN t.rules |-> BuildRule(t, k, cache)]]

-----------------------------------------------------------------------------
Down == [text |-> None]

Init ==
    /\ text \in Texts
    /\ pc = "down" /\ parsed = None /\ hot = Down /\ owned = None

\* The operator writes a new file.
Edit ==
    /\ pc \in {"down", "running"}
    /\ \E t \in Texts : t # text /\ text' = t
    /\ UNCHANGED <<pc, parsed, hot, owned>>

\* AppState::new: the first generation is built with the cache of the same configuration.
Start ==
    /\ pc = "down" /\ Accepts(text)
    /\ ServersKnown(text) => Buildable(text, text.cache)
    /\ pc' = IF ServersKnown(text) THEN "running" ELSE "panic"
    /\ hot' = IF ServersKnown(text) THEN Build(text, text.cache) ELSE Down
    /\ owned' = [cache |-> text.cache, add |-> AddTargets(text)]
    /\ UNCHANGED <<text, parsed>>

\* The process ends (a crash, or the operator restarts it).
Stop ==
    /\ pc = "running"
    /\ pc' = "down" /\ hot' = Down /\ owned' = None
    /\ UNCHANGED <<text, parsed>>

\* reload_config up to the lock: the file is read and checked.
Parse ==
    /\ pc = "running" /\ hot.text # text
    /\ Accepts(text)
    /\ pc' = "parsed" /\ parsed' = text
    /\ UNCHANGED <<text, hot, owned>>

\* The rest of it.  A change to what the process owns is reported and nothing is applied.
Refuse ==
    /\ pc = "parsed" /\ Owned(hot.text) # Owned(parsed)
    /\ pc' = "running" /\ parsed' = None
    /\ UNCHANGED <<text, hot, owned>>

\* Mutant: the change is reported and the rest of the configuration is applied all the same.
ApplyAlways ==
    /\ pc = "parsed"
    /\ hot' = IF Buildable(parsed, owned.cache) THEN Build(parsed, owned.cache) ELSE hot
    /\ pc' = "running" /\ parsed' = None
    /\ UNCHANGED <<text, owned>>
\* A build that fails leaves the old generation running.
Apply ==
    /\ pc = "parsed" /\ Owned(hot.text) = Owned(parsed)
    /\ pc' = IF ServersKnown(parsed) THEN "running" ELSE "panic"
    /\ hot' = IF Buildable(parsed, owned.cache) THEN Build(parsed, owned.cache) ELSE hot
    /\ parsed' = None
    /\ UNCHANGED <<text, owned>>

Next == Edit \/ Start \/ Stop \/ Parse \/ Refuse \/ Apply

Spec == Init /\ [][Next]_vars

-----------------------------------------------------------------------------
Running == hot # Down

\* Parsing has validated every name that building a generation looks up, so that neither
\* startup nor a reload dies in a lookup or refuses a forward target (build_rules' comment).
LookupsHit ==
    /\ pc # "panic"
    /\ (pc = "down" /\ Accepts(text)) => ForwardsKnown(text)
    /\ pc = "parsed" => ForwardsKnown(parsed)

\* Every position a generation holds, of a rule's server, of a forward target and of the
\* fallback, leads to the server the configuration names (build_rules, resolve_fallback).
PositionsLeadHome ==
    Running =>
        /\ \A k \in DOMAIN hot.rules :
            /\ NameAt(hot.servers, hot.rules[k].kind) = hot.text.rules[k].server
            /\ \A m \in DOMAIN hot.rules[k].filters :
                hot.rules[k].filters[m].action = "forward" =>
                    /\ hot.rules[k].filters[m].forward \in 1 .. Cardinality(hot.servers)
                    /\ NameAt(hot.servers, hot.rules[k].filters[m].forward)
                         = hot.text.rules[k].filters[m].forward
        /\ hot.fallback[1] = "rule" => hot.fallback[2] \in DOMAIN hot.rules
        /\ hot.fallback[1] = "dual" => hot.fallback[2] # hot.fallback[3]

\* The ipset manager of the running process, made at startup, and the filters of the running
\* generation agree on every position: an accepted answer is added to the set its filter
\* names, with the family of its records, and to no other (add_filter_ips).
AddIpAligned ==
    Running =>
        \A k \in DOMAIN hot.rules : \A m \in DOMAIN hot.rules[k].filters :
            LET targets == {a \in owned.add : a.rule = k /\ a.filter = m}
                f == hot.text.rules[k].filters[m]
            IN  /\ {a.set : a \in targets} = {f.add} \ {None}
                /\ \A a \in targets :
                     f.action = "accept" /\ f.types = {IF a.v6 THEN "AAAA" ELSE "A"}

\* No rule of a running generation has an inverted window of TTLs, counting what it inherits
\* from the cache the process was started with (build_rules' comment).
WindowsNotInverted ==
    Running => \A k \in DOMAIN hot.rules :
        LET p == Policy(hot.text, k, owned.cache) IN
        hot.rules[k].policy = p /\ (p.min > 0 /\ p.max > 0 => p.min <= p.max)

\* A generation never runs with startup-owned resources of another configuration
\* (reload_config: "never apply only the hot half of a configuration").
WholeConfiguration == Running => owned = [cache |-> hot.text.cache, add |-> AddTargets(hot.text)]
=============================================================================
