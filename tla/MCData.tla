------------------------------- MODULE MCData -------------------------------
(***************************************************************************)
(* Safety of what the resolver works on: configurations, routing, cached   *)
(* answers, sets of addresses and domains, and packets. The components are *)
(* checked side by side and do not interact here: `part' picks the one     *)
(* that runs, and the variables of the others are off. The state space is  *)
(* the union of theirs.                                                    *)
(***************************************************************************)
EXTENDS Integers, Sequences, FiniteSets

VARIABLES part,
          refsText, refsPc, parsed, hot, owned,
          entries, chainPc, result, resolved, at, progressed, url, found, tries, chainAsked,
          files, touched, gens, routeQuery, reloads, routeAsked,
          policy, now, boot, up, ttlEntry, ttlFile, served,
          ecsMode, mode2, cache, cpc, variant, ck, answered, how,
          mask, interval, ips,
          lines, ranges,
          storedFile, want, storedPc, stack, current, out, steps, entered,
          foundQuery, foundMode, sent, foundEntry, resp, reply, foundPc,
          head, packet, info, qname, readersText, wire, readersPc

CONSTANTS Absent,      \* an optional field that is not there
          ip1, ip2      \* addresses

\* Configurations for ConfigReload.
Filter(types, action, forward, add) ==
    [types |-> types, other |-> FALSE, action |-> action, forward |-> forward, add |-> add]
Rule(server, filters) == [server |-> server, filters |-> filters]
Final(kind, p, s) == [kind |-> kind, primary |-> p, secondary |-> s, answer |-> TRUE]
NoFinal == Final("none", Absent, Absent)
Text(ss, rs, fin, c, o) ==
    [servers |-> ss, rules |-> rs, final |-> fin, cache |-> c, overrides |-> o]
Cache(min, max) == [min |-> min, max |-> max]
NoOverrides == [n \in {} |-> Absent]
Override(no, min, max) == [no |-> no, min |-> min, max |-> max]
RefFilters ==
    {<<>>, <<Filter({"A"}, "drop", Absent, Absent)>>, <<Filter({}, "drop", Absent, Absent)>>}
    \cup {<<Filter({"A"}, "forward", n, Absent)>> : n \in {Absent, 1, 2}}
RefRules == {<<>>} \cup {<<Rule(s, fs)>> : s \in {Absent, 1, 2}, fs \in RefFilters}
RefTexts ==
    {Text(ss, rs, fin, Cache(0, 0), NoOverrides) :
        ss \in {{1, 3}, {1, 2, 3}}, rs \in RefRules,
        fin \in {NoFinal, Final("server", 2, Absent), Final("dual", 1, 3)}}
Accept(types, set) == Filter(types, "accept", Absent, set)
AddFilters == {Accept({"A"}, 1), Accept({"AAAA"}, 2), Accept({"A", "AAAA"}, 1),
    Filter({"A"}, "drop", Absent, Absent), Filter({"A"}, "drop", Absent, 1)}
AddLists == {<<>>} \cup {<<f>> : f \in AddFilters}
    \cup {<<f, Accept({"A"}, 1)>> : f \in {Accept({"AAAA"}, 2), Filter({"A"}, "drop", Absent, 1)}}
AddTexts ==
    {Text({1}, <<Rule(1, fs), Rule(1, gs)>>, NoFinal, Cache(0, 0), NoOverrides) :
        fs \in AddLists, gs \in AddLists}
TtlTexts ==
    {Text({1, 2}, <<Rule(1, <<>>), Rule(2, <<>>)>>, NoFinal, Cache(min, max), o) :
        min \in {0, 2}, max \in {0, 1, 2},
        o \in {NoOverrides} \cup {[n \in {s} |-> Override(no, a, b)] :
                s \in {1, 3}, no \in BOOLEAN, a \in {Absent, 3}, b \in {Absent, 2}}}

\* Entries of upstream servers for Bootstrap.
Url(h, rs) == [host |-> h, refs |-> rs]
OneUrl(n) ==
    {<<Url("ip", <<>>)>>, <<Url("name", <<>>)>>, <<Url("RCODE", <<>>)>>}
    \cup {<<Url("name", <<d>>)>> : d \in 0 .. n} \cup {<<Url("ip", <<d>>)>> : d \in 1 .. 2}
TwoUrls ==
    {<<Url("ip", <<>>)>>, <<Url("name", <<3>>)>>, <<Url("A", <<>>), Url("AAAA", <<>>)>>,
     <<Url("A", <<>>), Url("A", <<>>)>>, <<Url("RCODE", <<>>), Url("A", <<>>)>>,
     <<Url("A", <<>>), Url("ip", <<>>)>>}
    \cup {<<Url("ip", <<>>), Url("name", <<d>>)>> : d \in 1 .. 3}
    \cup {<<Url("name", <<d>>), Url("name", <<3>>)>> : d \in 1 .. 2}

\* Names, rule sets and configurations for Routing: every kind of matcher, a catch-all
\* in the middle, filters, and the kinds of fallback.
RouteNames == {<<"a">>, <<"b", "a">>}
Pat(k, l) == [kind |-> k, labels |-> l]
RouteContents == [t \in {"site", "net"} |->
    IF t = "site" THEN {{Pat("full", <<"a">>)}, {Pat("suffix", <<"a">>)}}
    ELSE {{ip1}, {ip1, ip2}}]
Group(i, e) == [inc |-> i, exc |-> e]
RouteRule(ds, gs, fs) == [domains |-> ds, groups |-> gs, filters |-> fs]
RouteFinal(k, i, e) == [kind |-> k, inc |-> i, exc |-> e]
Specs == [t \in {"site", "net"} |-> IF t = "site" THEN "domain" ELSE "ipcidr"]
NoSite == [Specs EXCEPT !["site"] = "none"]
RouteConfig(s, fin, rs) == [specs |-> s, final |-> fin, rules |-> rs]
RouteConfigs == {
    RouteConfig(Specs, RouteFinal("last", {}, {}),
        <<RouteRule({}, {Group({"site"}, {})}, <<Group({"net"}, {}), Group({}, {})>>),
          RouteRule({Pat("wild", <<"*", "a">>)}, {Group({}, {"site"})},
                    <<Group({}, {"net"})>>)>>),
    RouteConfig(Specs, RouteFinal("dual", {"net"}, {}),
        <<RouteRule({Pat("suffix", <<"b", "a">>)}, {}, <<>>),
          RouteRule({Pat("full", <<"a">>)}, {Group({"site"}, {})}, <<>>)>>),
    RouteConfig(Specs, RouteFinal("dual", {}, {}),
        <<RouteRule({Pat("full", <<"b", "a">>)}, {}, <<>>), RouteRule({}, {}, <<>>),
          RouteRule({Pat("suffix", <<"a">>)}, {}, <<>>)>>),
    RouteConfig(NoSite, RouteFinal("server", {}, {}),
        <<RouteRule({}, {Group({"site"}, {})}, <<>>)>>)}

\* Responses for CacheTtl: one or two answers, none, with and without an SOA, an alias
\* to a name that does not exist, and ones that are not cached.
RR(t) == [opt |-> FALSE, ttl |-> t]
OptRR == [opt |-> TRUE, ttl |-> 0]
NoSoa == [ttl |-> -1, minimum |-> -1]
Soa(t, m) == [ttl |-> t, minimum |-> m]
Response(an, rest, soa, rc) ==
    [answer |-> an, rest |-> rest, soa |-> soa, rcode |-> rc, tc |-> FALSE]
TtlPackets == {
    Response(<<RR(3), RR(2)>>, <<RR(1), OptRR>>, NoSoa, "noerror"),
    Response(<<RR(4)>>, <<>>, NoSoa, "noerror"),
    Response(<<>>, <<RR(3)>>, Soa(3, 2), "nxdomain"),
    Response(<<>>, <<OptRR>>, NoSoa, "noerror"),
    Response(<<RR(4)>>, <<RR(2)>>, Soa(2, 1), "nxdomain"),
    Response(<<OptRR>>, <<>>, NoSoa, "other"),
    [Response(<<RR(3)>>, <<>>, NoSoa, "noerror") EXCEPT !.tc = TRUE] }
RebootPackets == {
    Response(<<RR(3), RR(2)>>, <<RR(1), OptRR>>, NoSoa, "noerror"),
    Response(<<>>, <<RR(3)>>, Soa(3, 2), "nxdomain")}
Policy(n, lo, hi) == [nodata |-> n, min |-> lo, max |-> hi]
TtlPolicies == {Policy(0, 1, 3), Policy(2, 3, 0)}

\* Files for MrsTrie: of stored patterns, whole and flawed, and with any bitmap, with
\* fewer, as many and more labels and leaves than nodes.
Coder == INSTANCE MrsTrie WITH
    Word <- 3, MrsFiles <- {}, MaxArray <- 16, MaxSteps <- 50, MaxDepth <- 6,
    file <- storedFile,
    pc <- storedPc
Patterns == UNION {[1..n -> {1, 2}] : n \in 1..3}
Flawed(f) ==
    {[f EXCEPT !.parts = n] : n \in 0..Coder!Parts} \cup {[f EXCEPT !.magic = FALSE]}
      \cup {[f EXCEPT !.version = 2], [f EXCEPT !.extra = 17],
            [f EXCEPT !.behavior = "ipcidr", !.ranges = <<<<1, 2>>>>]}
StoredFiles ==
    {Coder!Encode(S) : S \in {S \in SUBSET Patterns : Cardinality(S) <= 2}}
      \cup Flawed(Coder!Encode({<<1>>, <<2, 1>>}))
AnyFiles ==
    {[magic |-> TRUE, behavior |-> "domain", extra |-> 0, version |-> 1,
      parts |-> Coder!Parts, leaves |-> l, bitmap |-> b, labels |-> s, ranges |-> <<>>,
      stored |-> {}] :
        l \in {[w \in 1..n |-> [x \in 0..1 |-> x]] : n \in {1, 3}},
        b \in UNION {[1..n -> [0..1 -> 0..1]] : n \in 1..4},
        s \in {<<1, 2>>, <<2, 1, 0, 1>>, <<1, 1, 1, 1, 1, 1>>}}

\* Messages for Edns.
Opt(options, rest, size) == [opt |-> TRUE, size |-> size, options |-> options, rest |-> rest]
Other == [opt |-> FALSE, size |-> 1, options |-> <<>>, rest |-> "none"]
Options == [code : {"ecs"}, data : {"net1", "net2", "short", "unknown"}]
               \cup [code : {"padding", "cookie"}, data : {"any"}]
OptionSeqs == {<<>>} \cup [1..1 -> Options] \cup [1..2 -> Options]
Additional(rests, sizes) ==
    {<<>>, <<Other>>} \cup UNION {{<<o>>, <<o, Other>>, <<Other, o>>} :
         o \in {Opt(s, r, z) : s \in OptionSeqs, r \in rests, z \in sizes}}
Message(an, ns, ar, more) ==
    [an |-> an, ns |-> ns, ar |-> Len(ar) + more, rrs |-> [i \in 1..an + ns |-> Other] \o ar]
PlainQueries == {Message(0, 0, ar, 0) : ar \in Additional({"none"}, {1232})}
CutQueries == {Message(an, ns, ar, more) : an \in 0..1, ns \in 0..1, more \in 0..1,
                                           ar \in Additional({"none", "short", "cut"}, {1232})}
SizedQueries ==
    {Message(an, 0, ar, more) : an \in 0..1, more \in 0..1,
         ar \in {<<>>} \cup {<<Opt(<<>>, "none", z)>> : z \in {0, 511, 512, 1232, 65535}}}
Cookie == [code |-> "cookie", data |-> "any"]
OneResponse == {Message(1, 0, <<>>, 0)}
Replies ==
    {Message(an, ns, ar, 0) : an \in 0..2, ns \in 0..1,
         ar \in {<<>>, <<Other>>, <<Opt(<<>>, "none", 1232)>>, <<Opt(<<Cookie>>, "none", 1232)>>,
                 <<Other, Opt(<<Cookie, Cookie>>, "none", 1232)>>}}

\* Packets from their question on, and names, for QName; 65 and 97 are a letter in
\* either case, 46 is the dot, 192 begins a compression pointer, and neither 192 nor 193
\* is UTF-8.
PacketsOf(bytes, most) == UNION {[1..n -> bytes] : n \in 0..most}
ReadPackets == PacketsOf({0, 1, 2, 46, 65, 192}, 4) \cup PacketsOf({0, 1, 2}, 6)
PairPackets == PacketsOf({0, 1, 2, 65, 97, 192}, 3) \cup PacketsOf({0, 1, 65, 97}, 5)
LabelBytes == {65, 97, 46, 192, 193}
NamePackets ==
    {<<Len(l)>> \o l \o <<0, 1>> : l \in PacketsOf(LabelBytes, 3)}
        \cup {<<1, a, 1, b, 0, 1>> : a, b \in LabelBytes}
NameTexts == UNION {[1..n -> {65, 97, 46}] : n \in 0..6}

\* Configurations in which rules, forward targets and fallbacks name servers that
\* come and go.
Refs == INSTANCE ConfigReload WITH
    Texts <- RefTexts, None <- Absent, text <- refsText, pc <- refsPc
\* Two rules of up to two filters, some of which add addresses to a set.
Adds == INSTANCE ConfigReload WITH
    Texts <- AddTexts, None <- Absent, text <- refsText, pc <- refsPc
\* Windows of the cache and of one of two servers.
Windows == INSTANCE ConfigReload WITH
    Texts <- TtlTexts, None <- Absent, text <- refsText, pc <- refsPc
\* Three entries of one URL each: every graph of references, with wrong names and
\* fixed answers.
Chain == INSTANCE Bootstrap WITH
    N <- 3, Shapes <- OneUrl(3), pc <- chainPc, asked <- chainAsked
\* Entries of two URLs, fixed answers and mixtures among them.
Urls == INSTANCE Bootstrap WITH
    N <- 3, Shapes <- TwoUrls, pc <- chainPc, asked <- chainAsked
\* Two names under one suffix, a domain tag and an address tag; two queries and a
\* reload.
Route == INSTANCE Routing WITH
    Queries <- {"q1"}, Names <- RouteNames, Addresses <- {ip1, ip2},
    Tags <- {"site", "net"}, Configs <- RouteConfigs, Contents <- RouteContents,
    MaxReloads <- 1, MaxQueries <- 2, query <- routeQuery, asked <- routeAsked
\* Responses with and without answers and SOA, and policies with and without bounds;
\* the process may restart.
Ttl == INSTANCE CacheTtl WITH
    Packets <- TtlPackets, Policies <- TtlPolicies, NegativeCap <- 3, Reboots <- FALSE,
    MaxNow <- 4, entry <- ttlEntry, file <- ttlFile
\* Fewer of them when the machine may restart.
Reboot == INSTANCE CacheTtl WITH
    Packets <- RebootPackets, Policies <- {Policy(0, 0, 0), Policy(0, 1, 3)},
    NegativeCap <- 3, Reboots <- TRUE, MaxNow <- 4, entry <- ttlEntry, file <- ttlFile
\* Two clients and two subnets.
Ecs == INSTANCE EcsCache WITH
    Clients <- {"c1", "c2"}, Subnets <- {"net1", "net2"}, Forwarding <- FALSE,
    mode <- ecsMode
\* Addresses of four bits, two of them in a message, every mask.
Elements == INSTANCE IpsetElements WITH
    W <- 4, Masks <- 0..4, MaxIps <- 2
\* IPv4 addresses of one bit inside a space of three bits; three lines or ranges.
Ranges == INSTANCE IpRangeSet WITH
    W4 <- 1, W6 <- 3, V4Base <- 2, Ends <- {0, 2, 4, 5, 7}, MaxLines <- 3
\* Files that hold up to two patterns of up to three bytes, whole and cut.
Stored == INSTANCE MrsTrie WITH
    Word <- 3, MrsFiles <- StoredFiles, MaxArray <- 16, MaxSteps <- 50, MaxDepth <- 6,
    file <- storedFile, pc <- storedPc
\* Any bitmap of up to four words.
Bits == INSTANCE MrsTrie WITH
    Word <- 2, MrsFiles <- AnyFiles, MaxArray <- 16, MaxSteps <- 50, MaxDepth <- 3,
    file <- storedFile, pc <- storedPc
\* Queries of up to two options, and the entry of one of them in the cache.
Found == INSTANCE Edns WITH
    Queries <- PlainQueries, Responses <- OneResponse, Ends <- {17}, Lengths <- {17},
    query <- foundQuery, mode <- foundMode, entry <- foundEntry, pc <- foundPc
\* Queries that may be cut inside an option or before a record they announce.
Rewrite == INSTANCE Edns WITH
    Queries <- CutQueries, Responses <- OneResponse, Ends <- {17}, Lengths <- {17},
    query <- foundQuery, mode <- foundMode, entry <- foundEntry, pc <- foundPc
\* Replies around every limit of their length.
Reply == INSTANCE Edns WITH
    Queries <- SizedQueries, Responses <- Replies, Ends <- {17, 270, 271},
    Lengths <- {17, 271, 511, 512, 513, 1231, 1232, 1233, 65535}, query <- foundQuery,
    mode <- foundMode, entry <- foundEntry, pc <- foundPc
\* Packets of up to six bytes for labels of two and names of four, so that some are
\* too long.
Readers == INSTANCE QName WITH
    MaxLabel <- 2, MaxName <- 4, TailLen <- 1, Upper <- 65, Lower <- 97, Dot <- 46,
    Packets <- ReadPackets, Texts <- {}, text <- readersText, pc <- readersPc
\* Pairs of names in either case, of one label or two, with dots and with bytes that are
\* not UTF-8 inside them.
Pairs == INSTANCE QName WITH
    MaxLabel <- 3, MaxName <- 5, TailLen <- 1, Upper <- 65, Lower <- 97, Dot <- 46,
    Packets <- PairPackets \cup NamePackets, Texts <- {}, text <- readersText, pc <- readersPc
\* Names as they are written in the configuration.
Texts == INSTANCE QName WITH
    MaxLabel <- 2, MaxName <- 4, TailLen <- 1, Upper <- 65, Lower <- 97, Dot <- 46,
    Packets <- {}, Texts <- NameTexts, text <- readersText, pc <- readersPc

ASSUME Assumptions ==
    /\ Chain!BootstrapAssumption /\ Urls!BootstrapAssumption /\ Ttl!TtlAssumption
    /\ Reboot!TtlAssumption /\ Ecs!EcsAssumption /\ Elements!ElementsAssumption
    /\ Ranges!RangeAssumption /\ Stored!MrsAssumption /\ Bits!MrsAssumption
    /\ Found!EdnsAssumption /\ Rewrite!EdnsAssumption /\ Reply!EdnsAssumption
    /\ Readers!QNameAssumption /\ Pairs!QNameAssumption /\ Texts!QNameAssumption

refsVars == <<refsText, refsPc, parsed, hot, owned>>
chainVars == <<entries, chainPc, result, resolved, at, progressed, url, found, tries,
    chainAsked>>
routeVars == <<files, touched, gens, routeQuery, reloads, routeAsked>>
ttlVars == <<policy, now, boot, up, ttlEntry, ttlFile, served>>
ecsVars == <<ecsMode, mode2, cache, cpc, variant, ck, answered, how>>
elementsVars == <<mask, interval, ips>>
rangesVars == <<lines, ranges>>
storedVars == <<storedFile, want, storedPc, stack, current, out, steps, entered>>
foundVars == <<foundQuery, foundMode, sent, foundEntry, resp, reply, foundPc>>
readersVars == <<head, packet, info, qname, readersText, wire, readersPc>>
vars == <<part, refsVars, chainVars, routeVars, ttlVars, ecsVars, elementsVars, rangesVars,
          storedVars, foundVars, readersVars>>

\* A component that does not run holds nothing.
Off(v) == v = "off"
RefsOff == Off(refsText) /\ Off(refsPc) /\ Off(parsed) /\ Off(hot) /\ Off(owned)
ChainOff == Off(entries) /\ Off(chainPc) /\ Off(result) /\ Off(resolved) /\ Off(at) /\
    Off(progressed) /\ Off(url) /\ Off(found) /\ Off(tries) /\ Off(chainAsked)
RouteOff == Off(files) /\ Off(touched) /\ Off(gens) /\ Off(routeQuery) /\ Off(reloads) /\
    Off(routeAsked)
TtlOff == Off(policy) /\ Off(now) /\ Off(boot) /\ Off(up) /\ Off(ttlEntry) /\
    Off(ttlFile) /\ Off(served)
EcsOff == Off(ecsMode) /\ Off(mode2) /\ Off(cache) /\ Off(cpc) /\ Off(variant) /\
    Off(ck) /\ Off(answered) /\ Off(how)
ElementsOff == Off(mask) /\ Off(interval) /\ Off(ips)
RangesOff == Off(lines) /\ Off(ranges)
StoredOff == Off(storedFile) /\ Off(want) /\ Off(storedPc) /\ Off(stack) /\ Off(current) /\
    Off(out) /\ Off(steps) /\ Off(entered)
FoundOff == Off(foundQuery) /\ Off(foundMode) /\ Off(sent) /\ Off(foundEntry) /\
    Off(resp) /\ Off(reply) /\ Off(foundPc)
ReadersOff == Off(head) /\ Off(packet) /\ Off(info) /\ Off(qname) /\ Off(readersText) /\
    Off(wire) /\ Off(readersPc)

Init ==
    \/ /\ part = "refs" /\ Refs!Init /\ ChainOff /\ RouteOff /\ TtlOff /\ EcsOff
       /\ ElementsOff /\ RangesOff /\ StoredOff /\ FoundOff /\ ReadersOff
    \/ /\ part = "adds" /\ Adds!Init /\ ChainOff /\ RouteOff /\ TtlOff /\ EcsOff
       /\ ElementsOff /\ RangesOff /\ StoredOff /\ FoundOff /\ ReadersOff
    \/ /\ part = "windows" /\ Windows!Init /\ ChainOff /\ RouteOff /\ TtlOff /\ EcsOff
       /\ ElementsOff /\ RangesOff /\ StoredOff /\ FoundOff /\ ReadersOff
    \/ /\ part = "chain" /\ Chain!Init /\ RefsOff /\ RouteOff /\ TtlOff /\ EcsOff
       /\ ElementsOff /\ RangesOff /\ StoredOff /\ FoundOff /\ ReadersOff
    \/ /\ part = "urls" /\ Urls!Init /\ RefsOff /\ RouteOff /\ TtlOff /\ EcsOff
       /\ ElementsOff /\ RangesOff /\ StoredOff /\ FoundOff /\ ReadersOff
    \/ /\ part = "route" /\ Route!Init /\ RefsOff /\ ChainOff /\ TtlOff /\ EcsOff
       /\ ElementsOff /\ RangesOff /\ StoredOff /\ FoundOff /\ ReadersOff
    \/ /\ part = "ttl" /\ Ttl!Init /\ RefsOff /\ ChainOff /\ RouteOff /\ EcsOff
       /\ ElementsOff /\ RangesOff /\ StoredOff /\ FoundOff /\ ReadersOff
    \/ /\ part = "reboot" /\ Reboot!Init /\ RefsOff /\ ChainOff /\ RouteOff /\ EcsOff
       /\ ElementsOff /\ RangesOff /\ StoredOff /\ FoundOff /\ ReadersOff
    \/ /\ part = "ecs" /\ Ecs!Init /\ RefsOff /\ ChainOff /\ RouteOff /\ TtlOff
       /\ ElementsOff /\ RangesOff /\ StoredOff /\ FoundOff /\ ReadersOff
    \/ /\ part = "elements" /\ Elements!Init /\ RefsOff /\ ChainOff /\ RouteOff
       /\ TtlOff /\ EcsOff /\ RangesOff /\ StoredOff /\ FoundOff /\ ReadersOff
    \/ /\ part = "ranges" /\ Ranges!Init /\ RefsOff /\ ChainOff /\ RouteOff /\ TtlOff
       /\ EcsOff /\ ElementsOff /\ StoredOff /\ FoundOff /\ ReadersOff
    \/ /\ part = "stored" /\ Stored!Init /\ RefsOff /\ ChainOff /\ RouteOff /\ TtlOff
       /\ EcsOff /\ ElementsOff /\ RangesOff /\ FoundOff /\ ReadersOff
    \/ /\ part = "bits" /\ Bits!Init /\ RefsOff /\ ChainOff /\ RouteOff /\ TtlOff
       /\ EcsOff /\ ElementsOff /\ RangesOff /\ FoundOff /\ ReadersOff
    \/ /\ part = "found" /\ Found!Init /\ RefsOff /\ ChainOff /\ RouteOff /\ TtlOff
       /\ EcsOff /\ ElementsOff /\ RangesOff /\ StoredOff /\ ReadersOff
    \/ /\ part = "rewrite" /\ Rewrite!Init /\ RefsOff /\ ChainOff /\ RouteOff /\ TtlOff
       /\ EcsOff /\ ElementsOff /\ RangesOff /\ StoredOff /\ ReadersOff
    \/ /\ part = "reply" /\ Reply!Init /\ RefsOff /\ ChainOff /\ RouteOff /\ TtlOff
       /\ EcsOff /\ ElementsOff /\ RangesOff /\ StoredOff /\ ReadersOff
    \/ /\ part = "readers" /\ Readers!Init /\ RefsOff /\ ChainOff /\ RouteOff /\ TtlOff
       /\ EcsOff /\ ElementsOff /\ RangesOff /\ StoredOff /\ FoundOff
    \/ /\ part = "pairs" /\ Pairs!Init /\ RefsOff /\ ChainOff /\ RouteOff /\ TtlOff
       /\ EcsOff /\ ElementsOff /\ RangesOff /\ StoredOff /\ FoundOff
    \/ /\ part = "texts" /\ Texts!Init /\ RefsOff /\ ChainOff /\ RouteOff /\ TtlOff
       /\ EcsOff /\ ElementsOff /\ RangesOff /\ StoredOff /\ FoundOff

Next ==
    \/ /\ part = "refs" /\ Refs!Next
       /\ UNCHANGED <<part, chainVars, routeVars, ttlVars, ecsVars, elementsVars,
                      rangesVars, storedVars, foundVars, readersVars>>
    \/ /\ part = "adds" /\ Adds!Next
       /\ UNCHANGED <<part, chainVars, routeVars, ttlVars, ecsVars, elementsVars,
                      rangesVars, storedVars, foundVars, readersVars>>
    \/ /\ part = "windows" /\ Windows!Next
       /\ UNCHANGED <<part, chainVars, routeVars, ttlVars, ecsVars, elementsVars,
                      rangesVars, storedVars, foundVars, readersVars>>
    \/ /\ part = "chain" /\ Chain!Next
       /\ UNCHANGED <<part, refsVars, routeVars, ttlVars, ecsVars, elementsVars,
                      rangesVars, storedVars, foundVars, readersVars>>
    \/ /\ part = "urls" /\ Urls!Next
       /\ UNCHANGED <<part, refsVars, routeVars, ttlVars, ecsVars, elementsVars,
                      rangesVars, storedVars, foundVars, readersVars>>
    \/ /\ part = "route" /\ Route!Next
       /\ UNCHANGED <<part, refsVars, chainVars, ttlVars, ecsVars, elementsVars,
                      rangesVars, storedVars, foundVars, readersVars>>
    \/ /\ part = "ttl" /\ Ttl!Next
       /\ UNCHANGED <<part, refsVars, chainVars, routeVars, ecsVars, elementsVars,
                      rangesVars, storedVars, foundVars, readersVars>>
    \/ /\ part = "reboot" /\ Reboot!Next
       /\ UNCHANGED <<part, refsVars, chainVars, routeVars, ecsVars, elementsVars,
                      rangesVars, storedVars, foundVars, readersVars>>
    \/ /\ part = "ecs" /\ Ecs!Next
       /\ UNCHANGED <<part, refsVars, chainVars, routeVars, ttlVars, elementsVars,
                      rangesVars, storedVars, foundVars, readersVars>>
    \/ /\ part = "elements" /\ Elements!Next
       /\ UNCHANGED <<part, refsVars, chainVars, routeVars, ttlVars, ecsVars, rangesVars,
                      storedVars, foundVars, readersVars>>
    \/ /\ part = "ranges" /\ Ranges!Next
       /\ UNCHANGED <<part, refsVars, chainVars, routeVars, ttlVars, ecsVars, elementsVars,
                      storedVars, foundVars, readersVars>>
    \/ /\ part = "stored" /\ Stored!Next
       /\ UNCHANGED <<part, refsVars, chainVars, routeVars, ttlVars, ecsVars, elementsVars,
                      rangesVars, foundVars, readersVars>>
    \/ /\ part = "bits" /\ Bits!Next
       /\ UNCHANGED <<part, refsVars, chainVars, routeVars, ttlVars, ecsVars, elementsVars,
                      rangesVars, foundVars, readersVars>>
    \/ /\ part = "found" /\ Found!Next
       /\ UNCHANGED <<part, refsVars, chainVars, routeVars, ttlVars, ecsVars, elementsVars,
                      rangesVars, storedVars, readersVars>>
    \/ /\ part = "rewrite" /\ Rewrite!Next
       /\ UNCHANGED <<part, refsVars, chainVars, routeVars, ttlVars, ecsVars, elementsVars,
                      rangesVars, storedVars, readersVars>>
    \/ /\ part = "reply" /\ Reply!Next
       /\ UNCHANGED <<part, refsVars, chainVars, routeVars, ttlVars, ecsVars, elementsVars,
                      rangesVars, storedVars, readersVars>>
    \/ /\ part = "readers" /\ Readers!Next
       /\ UNCHANGED <<part, refsVars, chainVars, routeVars, ttlVars, ecsVars, elementsVars,
                      rangesVars, storedVars, foundVars>>
    \/ /\ part = "pairs" /\ Pairs!Next
       /\ UNCHANGED <<part, refsVars, chainVars, routeVars, ttlVars, ecsVars, elementsVars,
                      rangesVars, storedVars, foundVars>>
    \/ /\ part = "texts" /\ Texts!Next
       /\ UNCHANGED <<part, refsVars, chainVars, routeVars, ttlVars, ecsVars, elementsVars,
                      rangesVars, storedVars, foundVars>>

Spec == Init /\ [][Next]_vars

-----------------------------------------------------------------------------
\* A configuration that is accepted has no reference that leads nowhere, rule
\* positions that lead back to their rule, one entry of sets per filter that adds and
\* no inverted window, and is published whole or not at all (config/parse.rs,
\* server.rs); an upstream name is resolved after the entry its bootstrap query goes
\* to, by that entry's mark, a cycle is an error, and nothing is given up while an
\* address is left (config/parse.rs).
ConfigurationWhole ==
    /\ part = "refs" => Refs!LookupsHit /\ Refs!PositionsLeadHome
    /\ part = "adds" => Adds!AddIpAligned
    /\ part = "windows" => Windows!WindowsNotInverted /\ Windows!WholeConfiguration
    /\ part = "chain" => Chain!Ordered /\ Chain!CycleExact
    /\ part = "urls" => Urls!RouteInherited /\ Urls!GivenUpLate

\* The index, the decision cache and the tag memo give the server that a scan of the
\* rules in order gives, whatever was reloaded before; the tags of the loaded
\* database are those of its configuration, and the first filter that fits decides
\* (route_index.rs, ruleset.rs, response_filter.rs).
RoutingExact ==
    part = "route" => Route!RouteExact /\ Route!TagsUsable /\ Route!FilterExact

\* No answer is served past its TTL, after a restart or a reboot either, and a TTL
\* counts down from when the answer was received (cache.rs, dns/ttl.rs); an answer
\* for one subnet is never served to another, and a question has one entry (cache.rs,
\* resolver.rs).
CacheHonest ==
    /\ part = "ttl" => Ttl!NeverServedStale /\ Ttl!CountsDownFromReceipt
    /\ part = "reboot" => Reboot!TypeOK /\ Reboot!NeverServedStale
    /\ part = "ecs" => Ecs!TypeOK /\ Ecs!SubnetPrivate /\ Ecs!OneEntryPerQuestion

\* The elements sent to the kernel cover exactly the masked addresses and fit their
\* message (ipset/codec.rs); merging ranges loses and adds no address (iprange.rs); a
\* domain set reads back the patterns that were stored, and for any bitmap its walk
\* enters no node twice and stays within its bounds (mrs.rs).
SetsExact ==
    /\ part = "elements" => /\ Elements!TypeOK /\ Elements!RangesExact
                            /\ Elements!HostsExact /\ Elements!MessageFits
    /\ part = "ranges" => Ranges!ContainsExact /\ Ranges!MergedApart
    /\ part = "stored" => Stored!ReadsWhatWasStored
    /\ part = "bits" => Bits!RankSelectExact /\ Bits!NoNodeTwice /\ Bits!StackSpells

\* The readers of a query name agree on every packet, names match but for case, the routing
\* name tells apart what the cache tells apart but for dots inside labels and bytes that are
\* not UTF-8, and a written name is read back (dns/mod.rs, dns/query.rs); a query finds its
\* own cache entry, a server sees the subnet its mode prescribes, a cached response carries
\* no option of a client, and a reply fits the size the client offered (dns/mod.rs,
\* dns/ecs.rs).
PacketsReadAlike ==
    /\ part = "found" => Found!FoundExact
    /\ part = "rewrite" => Rewrite!ServerSees
    /\ part = "reply" => Reply!CachedClean /\ Reply!ReplyFits
    /\ part = "readers" => Readers!ReadersAgree
    /\ part = "pairs" => Pairs!MatchExact /\ Pairs!RoutedApart
    /\ part = "texts" => Texts!EncodedIsRead
=============================================================================
