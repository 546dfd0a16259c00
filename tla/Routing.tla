------------------------------- MODULE Routing -------------------------------
(***************************************************************************)
(* route_index.rs, router.rs, ruleset.rs (RuleSetDb), domain.rs            *)
(* (DomainMatcher), response_filter.rs and what server.rs builds from a    *)
(* configuration: queries are routed to the first rule that matches, with  *)
(* a compiled index, a memo of tags and a cache of decisions, and answers  *)
(* run through the rule's filters, while rule sets and the configuration   *)
(* are reloaded.                                                           *)
(*                                                                         *)
(* A name is its sequence of labels.  A rule set is a file of patterns     *)
(* (behavior "domain") or of addresses (behavior "ipcidr").                *)
(***************************************************************************)
EXTENDS Integers, Sequences, FiniteSets, SequencesExt

CONSTANTS Queries,      \* queries at work
          Names,        \* query names
          Addresses,    \* addresses in answers
          Tags,         \* tags of rule sets
          Configs,      \* configurations
          Contents,     \* Contents[t]: what the file of t may hold
          MaxReloads,   \* bound: reloads
          MaxQueries    \* bound: queries

VARIABLES files,        \* what each file holds
          touched,      \* files changed since they were last looked at
          gens,         \* the HotStates that were in use; the last one is
          query,        \* query[q]: where it is and what it has found
          reloads, asked

vars == <<files, touched, gens, query, reloads, asked>>

Hot == Last(gens)
NoMatch == 0                \* usize::MAX
NoEntry == [behavior |-> "none", content |-> {}]

-----------------------------------------------------------------------------
(* domain.rs *)

Tails(name) == {SubSeq(name, i, Len(name)) : i \in 1..Len(name)}
\* classify_pattern and the three tiers of a DomainMatcher.
Full(m) == {p.labels : p \in {x \in m : x.kind = "full"}}
Suffix(m) == {p.labels : p \in {x \in m : x.kind = "suffix"}}
Wild(m) == {p.labels : p \in {x \in m : x.kind = "wild"}}
LookupSpecific(m, name) == name \in Full(m) \/ \E t \in Tails(name) : t \in Suffix(m)
LookupFuzzy(m, name) == \E w \in Wild(m) : /\ Len(w) = Len(name)
                                           /\ \A i \in DOMAIN w : w[i] \in {"*", name[i]}
InMatcher(m, name) == LookupSpecific(m, name) \/ LookupFuzzy(m, name)

-----------------------------------------------------------------------------
(* ruleset.rs *)

\* needed_ruleset_domain_tags, needed_ruleset_ipcidr_tags
Groups(cfg) == UNION {cfg.rules[i].groups : i \in DOMAIN cfg.rules}
Filters(cfg) == UNION {ToSet(cfg.rules[i].filters) : i \in DOMAIN cfg.rules}
DomainTags(cfg) == UNION {g.inc \cup g.exc : g \in Groups(cfg)}
IpCidrTags(cfg) == cfg.final.inc \cup cfg.final.exc
                   \cup UNION {f.inc \cup f.exc : f \in Filters(cfg)}

\* The file of a tag, read with the behavior the configuration gives it.
ReadFile(cfg, t) == [behavior |-> cfg.specs[t], content |-> files[t]]
\* RuleSetDb::load; an entry of the database before is used again unless its file
\* has changed.
Loaded(cfg, prev, changed) ==
    [t \in Tags |->
        IF t \notin DomainTags(cfg) \cup IpCidrTags(cfg) \/ cfg.specs[t] = "none" THEN NoEntry
        ELSE IF t \notin changed /\ prev[t] # NoEntry THEN prev[t]
        ELSE ReadFile(cfg, t)]
NoDb == [t \in Tags |-> NoEntry]
LoadSucceeds(cfg, db) == /\ \A t \in DomainTags(cfg) : db[t].behavior = "domain"
                         /\ \A t \in IpCidrTags(cfg) : db[t].behavior = "ipcidr"

MatchesTag(db, t, name) == db[t].behavior = "domain" /\ InMatcher(db[t].content, name)
MatchesIp(db, t, ip) == db[t].behavior = "ipcidr" /\ ip \in db[t].content
MatchesAnyIp(db, t, ips) == \E ip \in ips : MatchesIp(db, t, ip)
MatchesAnswerIp(db, m, ips) == /\ m.inc = {} \/ \E t \in m.inc : MatchesAnyIp(db, t, ips)
                               /\ ~\E t \in m.exc : MatchesAnyIp(db, t, ips)

-----------------------------------------------------------------------------
(* route_index.rs *)

\* RouteIndex::build: rules with matchers, and the first without.
IsCatchAll(r) == r.domains = {} /\ r.groups = {}
Entries(cfg) == SelectSeq([i \in DOMAIN cfg.rules |-> i], LAMBDA i : ~IsCatchAll(cfg.rules[i]))
CatchAll(cfg) ==
    LET all == SelectSeq([i \in DOMAIN cfg.rules |-> i], LAMBDA i : IsCatchAll(cfg.rules[i]))
    IN IF all = <<>> THEN NoMatch ELSE all[1]
NeedsRuleset(cfg) == Groups(cfg) # {}
ConstantRoute(cfg) == CatchAll(cfg) = 1 \/ Entries(cfg) = <<>>
HasDb(cfg) == DomainTags(cfg) \cup IpCidrTags(cfg) # {}

\* TagMemo::check: memo maps the tags seen to whether they matched.
Check(memo, db, t, name) == IF t \in DOMAIN memo THEN memo[t] ELSE MatchesTag(db, t, name)
GroupMatches(g, name, db, memo) ==
    /\ g.inc = {} \/ \E t \in g.inc : Check(memo, db, t, name)
    /\ ~\E t \in g.exc : Check(memo, db, t, name)
EntryMatches(r, name, db, memo, hasDb) ==
    \/ InMatcher(r.domains, name)
    \/ hasDb /\ \E g \in r.groups : GroupMatches(g, name, db, memo)
RuleTags(r) == UNION {g.inc \cup g.exc : g \in r.groups}
Remember(memo, r, name, db) ==
    [t \in DOMAIN memo \cup RuleTags(r) |-> Check(memo, db, t, name)]

\* router.rs: the fallback when no rule matches.
Fallback(cfg, qtype) ==
    CASE cfg.final.kind = "last" -> [kind |-> "rule", rule |-> Len(cfg.rules)]
      [] cfg.final.kind = "server" -> [kind |-> "server", rule |-> NoMatch]
      [] cfg.final.kind = "dual" /\ cfg.final.inc \cup cfg.final.exc # {} /\ qtype = "address" ->
            [kind |-> "cidr", rule |-> NoMatch]
      [] OTHER -> [kind |-> "race", rule |-> NoMatch]
Target(cfg, idx, qtype) == IF idx = NoMatch THEN Fallback(cfg, qtype)
                           ELSE [kind |-> "rule", rule |-> idx]

-----------------------------------------------------------------------------
Resting == [pc |-> "done", gen |-> 0, name |-> <<>>, qtype |-> "other", entry |-> 0,
            memo |-> <<>>, target |-> [kind |-> "none", rule |-> NoMatch], ips |-> {},
            filter |-> 0]
Generation(cfg, db) == [cfg |-> cfg, db |-> db, snap |-> files, cache |-> <<>>]

Init ==
    /\ files \in [Tags -> UNION {Contents[t] : t \in Tags}]
    /\ \A t \in Tags : files[t] \in Contents[t]
    /\ touched = {}
    /\ \E cfg \in Configs :
          /\ LoadSucceeds(cfg, Loaded(cfg, NoDb, {}))
          /\ gens = <<Generation(cfg, Loaded(cfg, NoDb, {}))>>
    /\ query = [q \in Queries |-> Resting] /\ reloads = 0 /\ asked = 0

(* Files, and reloads: of the configuration, or of the rule sets that changed *)

EditFile(t) ==
    /\ reloads < MaxReloads
    /\ \E c \in Contents[t] \ {files[t]} : files' = [files EXCEPT ![t] = c]
    /\ touched' = touched \cup {t}
    /\ UNCHANGED <<gens, query, reloads, asked>>
Store(cfg, db) ==
    gens' = IF LoadSucceeds(cfg, db) THEN Append(gens, Generation(cfg, db)) ELSE gens
ReloadRuleset ==
    /\ reloads < MaxReloads /\ touched # {} /\ reloads' = reloads + 1 /\ touched' = {}
    /\ Store(Hot.cfg, Loaded(Hot.cfg, Hot.db, touched))
    /\ UNCHANGED <<files, query, asked>>
ReloadConfig ==
    /\ reloads < MaxReloads /\ reloads' = reloads + 1
    /\ \E cfg \in Configs : Store(cfg, Loaded(cfg, NoDb, {}))
    /\ UNCHANGED <<files, touched, query, asked>>

-----------------------------------------------------------------------------
(* A query *)

Cfg(q) == gens[query[q].gen].cfg
Db(q) == gens[query[q].gen].db
UseCache(q) == HasDb(Cfg(q)) \/ ~NeedsRuleset(Cfg(q))
Routed(q, idx) ==
    query' = [query EXCEPT ![q].target = Target(Cfg(q), idx, query[q].qtype), ![q].pc = "routed"]

\* The HotState is taken, and a name and a type come with the query.
\* Mutant: the memo of the query before is used again.
BeginOldMemo(q) ==
    /\ query[q].pc = "done" /\ asked < MaxQueries /\ asked' = asked + 1
    /\ \E name \in Names, qtype \in {"address", "other"} :
          query' = [query EXCEPT ![q] = [Resting EXCEPT !.pc = "route", !.gen = Len(gens),
                                  !.name = name, !.qtype = qtype, !.memo = query[q].memo]]
    /\ UNCHANGED <<files, touched, gens, reloads>>
Begin(q) ==
    /\ query[q].pc = "done" /\ asked < MaxQueries /\ asked' = asked + 1
    /\ \E name \in Names, qtype \in {"address", "other"} :
          query' = [query EXCEPT ![q] = [Resting EXCEPT !.pc = "route", !.gen = Len(gens),
                                                        !.name = name, !.qtype = qtype]]
    /\ UNCHANGED <<files, touched, gens, reloads>>
\* A constant decision, or one from the cache, or the entries are gone through.
RouteConstant(q) ==
    /\ query[q].pc = "route" /\ ConstantRoute(Cfg(q)) /\ Routed(q, CatchAll(Cfg(q)))
    /\ UNCHANGED <<files, touched, gens, reloads, asked>>
CacheGet(q) ==
    /\ query[q].pc = "route" /\ ~ConstantRoute(Cfg(q))
    /\ LET cache == gens[query[q].gen].cache
       IN IF UseCache(q) /\ query[q].name \in DOMAIN cache
          THEN Routed(q, cache[query[q].name])
          ELSE query' = [query EXCEPT ![q].pc = "scan", ![q].entry = 1]
    /\ UNCHANGED <<files, touched, gens, reloads, asked>>
Decide(q, idx) ==
    /\ Routed(q, idx)
    /\ IF UseCache(q)
       THEN gens' = [gens EXCEPT ![query[q].gen].cache =
                        [n \in DOMAIN @ \cup {query[q].name} |->
                            IF n = query[q].name THEN idx ELSE @[n]]]
       ELSE UNCHANGED gens
Scan(q) ==
    /\ query[q].pc = "scan"
    /\ LET es == Entries(Cfg(q))
           e == query[q].entry
           first == CatchAll(Cfg(q))
           r == Cfg(q).rules[es[e]]
       IN IF e > Len(es) \/ (first # NoMatch /\ first < es[e])
          THEN Decide(q, first)
          ELSE IF EntryMatches(r, query[q].name, Db(q), query[q].memo, HasDb(Cfg(q)))
          THEN Decide(q, es[e])
          ELSE /\ query' = [query EXCEPT ![q].entry = e + 1,
                                 ![q].memo = Remember(@, r, query[q].name, Db(q))]
               /\ UNCHANGED gens
    /\ UNCHANGED <<files, touched, reloads, asked>>
\* The route cache makes room.
Evict ==
    /\ \E n \in DOMAIN Hot.cache :
          gens' = [gens EXCEPT ![Len(gens)].cache = [m \in DOMAIN @ \ {n} |-> @[m]]]
    /\ UNCHANGED <<files, touched, query, reloads, asked>>

\* first_match: the answer, with its addresses, through the rule's filters; the first
\* that matches acts.
FirstMatch(filters, db, ips) ==
    LET hits == {i \in DOMAIN filters : MatchesAnswerIp(db, filters[i], ips)}
    IN IF hits = {} THEN 0 ELSE CHOOSE i \in hits : \A j \in hits : i <= j
Filter(q) ==
    /\ query[q].pc = "routed"
    /\ \E ips \in SUBSET Addresses :
          query' = [query EXCEPT ![q].pc = "done", ![q].ips = ips, ![q].filter =
                       IF query[q].target.kind = "rule"
                       THEN FirstMatch(Cfg(q).rules[query[q].target.rule].filters, Db(q), ips)
                       ELSE 0]
    /\ UNCHANGED <<files, touched, gens, reloads, asked>>

Idle == (\A q \in Queries : query[q].pc = "done") /\ UNCHANGED vars
QueryStep(q) == Begin(q) \/ RouteConstant(q) \/ CacheGet(q) \/ Scan(q) \/ Filter(q)
Next == \/ \E q \in Queries : QueryStep(q)
        \/ \E t \in Tags : EditFile(t)
        \/ ReloadRuleset \/ ReloadConfig \/ Evict \/ Idle
Spec == Init /\ [][Next]_vars

-----------------------------------------------------------------------------
(* The reference: a scan of the rules, top to bottom, over the files as they were
   when the configuration or the rule sets were last loaded. *)

PatternMatches(p, name) ==
    CASE p.kind = "full" -> name = p.labels
      [] p.kind = "suffix" -> IsSuffix(p.labels, name)
      [] p.kind = "wild" -> /\ Len(name) = Len(p.labels)
                            /\ \A i \in DOMAIN name : p.labels[i] = "*" \/ p.labels[i] = name[i]
Holds(snap, t, name) == \E p \in snap[t] : PatternMatches(p, name)
RuleMatches(r, snap, name) ==
    \/ IsCatchAll(r)
    \/ \E p \in r.domains : PatternMatches(p, name)
    \/ \E g \in r.groups : /\ g.inc = {} \/ \E t \in g.inc : Holds(snap, t, name)
                           /\ \A t \in g.exc : ~Holds(snap, t, name)
FirstRule(cfg, snap, name) ==
    LET hits == {i \in DOMAIN cfg.rules : RuleMatches(cfg.rules[i], snap, name)}
    IN IF hits = {} THEN NoMatch ELSE CHOOSE i \in hits : \A j \in hits : i <= j

\* "The merge of these two streams preserves first-match semantics identical to a
\* linear top-to-bottom rule scan" (route_index.rs:17), with the memo, the route cache
\* and rule sets that are reloaded meanwhile, from the files as they were at the load.
RouteExact ==
    \A q \in Queries : query[q].pc = "routed" =>
        LET first == FirstRule(Cfg(q), gens[query[q].gen].snap, query[q].name)
        IN query[q].target = Target(Cfg(q), first, query[q].qtype)

\* A configuration that was loaded has every tag that its rules, filters and fallback
\* use, with the behavior they need ("config validation in `load` prevents such a tag
\* from ever being reachable", ruleset.rs:206), also when entries of the database
\* before are used again.
TagsUsable ==
    \A i \in DOMAIN gens :
        /\ \A g \in Groups(gens[i].cfg) : \A t \in g.inc \cup g.exc :
              gens[i].db[t] = [behavior |-> "domain", content |-> gens[i].snap[t]]
        /\ \A f \in Filters(gens[i].cfg) \cup {gens[i].cfg.final} : \A t \in f.inc \cup f.exc :
              gens[i].db[t] = [behavior |-> "ipcidr", content |-> gens[i].snap[t]]

\* The first filter whose addresses fit the answer acts, also when a later one fits too.
FilterExact ==
    \A q \in Queries : query[q].pc = "done" /\ query[q].target.kind = "rule" =>
        LET fs == Cfg(q).rules[query[q].target.rule].filters
            snap == gens[query[q].gen].snap
            Fits(f) == /\ f.inc # {} => query[q].ips \cap UNION {snap[t] : t \in f.inc} # {}
                       /\ query[q].ips \cap UNION {snap[t] : t \in f.exc} = {}
        IN IF query[q].filter = 0 THEN \A i \in DOMAIN fs : ~Fits(fs[i])
           ELSE Fits(fs[query[q].filter]) /\ \A i \in 1..query[q].filter - 1 : ~Fits(fs[i])
=============================================================================
