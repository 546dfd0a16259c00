-------------------------------- MODULE Edns --------------------------------
(***************************************************************************)
(* The EDNS record of a query on its way: dns/mod.rs reads its variant,    *)
(* which keys the cache, dns/ecs.rs strips or replaces its client subnet   *)
(* for the upstream, and a reply that is too long becomes a stub.          *)
(*                                                                         *)
(* A message is its counts and the records behind its one question; a      *)
(* record that does not fit into the packet is not there.                  *)
(***************************************************************************)
EXTENDS Integers, Sequences, FiniteSets, SequencesExt, FiniteSetsExt

CONSTANTS Queries,      \* the queries a client may send
          Responses,    \* the responses a server may send
          Ends,         \* question_end of a query
          Lengths       \* lengths of a reply

Subnets == {"net1", "net2"}
\* An ECS option may be shorter than its fixed part, or of a family that is not known; a
\* cookie stands for every option that is neither a subnet nor padding.
Options == [code : {"ecs"}, data : Subnets \cup {"fixed", "short", "unknown"}]
              \cup [code : {"padding", "cookie"}, data : {"any"}]
\* What follows the whole options of an OPT record: nothing, less than an option's header,
\* or an option that is longer than what is left.
Rests == {"none", "short", "cut"}
Records == [opt : BOOLEAN, size : Nat, options : Seq(Options), rest : Rests]
Messages == [an : Nat, ns : Nat, ar : Nat, rrs : Seq(Records)]
MinPayload == 512
StubOpt == 11           \* the length of TC_OPT_RR

EdnsAssumption ==
    /\ Queries \subseteq Messages /\ Responses \subseteq Messages
    /\ Ends \subseteq 17..271    \* a header, a name of up to 255 bytes, type and class
    /\ Lengths \subseteq Nat

VARIABLES query, mode,
          sent,         \* what the server is sent
          entry,        \* the cache entry: its key, its query's variant, its response
          resp,         \* the response the entry is made of
          reply,        \* what the client is sent
          pc

vars == <<query, mode, sent, entry, resp, reply, pc>>

-----------------------------------------------------------------------------
\* The first OPT record at from..to; records that are not there end the search.
FirstOpt(m, from, to) ==
    LET opts == {i \in from..to : i <= Len(m.rrs) /\ m.rrs[i].opt}
    IN IF opts = {} THEN 0 ELSE Min(opts)

\* find_opt_record counts ARCOUNT records from the end of the question.
FindOpt(m) == FirstOpt(m, 1, m.ar)

\* locate_opt skips the other two sections; -1 when the message is cut before it is found.
LocateOpt(m) ==
    LET found == FirstOpt(m, m.an + m.ns + 1, m.an + m.ns + m.ar)
    IN IF m.ar = 0 \/ found # 0 THEN found
       ELSE IF m.an + m.ns + m.ar > Len(m.rrs) THEN -1 ELSE 0

\* extract_variant, extract_opt_data and parse_ecs_src: the last subnet wins; the codes of
\* all options but whole subnets and padding count, in any order.
EcsSrc(options) ==
    LET subnets == SelectSeq(options, LAMBDA o : o.code = "ecs" /\ o.data # "short")
    IN IF subnets = <<>> \/ Last(subnets).data = "unknown" THEN "none" ELSE Last(subnets).data
IsCode(o, c) == o.code = c /\ ~(c = "ecs" /\ o.data # "short")
ExtraOpts(options) ==
    [c \in {"ecs", "cookie"} |-> Len(SelectSeq(options, LAMBDA o : IsCode(o, c)))]
Variant(m) ==
    LET options == IF FindOpt(m) = 0 THEN <<>> ELSE m.rrs[FindOpt(m)].options
    IN [opt |-> FindOpt(m) # 0, ecs |-> EcsSrc(options), extra |-> ExtraOpts(options)]

\* finish_cache_key: the hash of what it is made of.
CacheKey(v, strip) == IF strip THEN [v EXCEPT !.ecs = "none"] ELSE v
\* queries_match_v.
QueriesMatch(stored, live, strip) ==
    IF strip THEN stored.opt = live.opt ELSE stored = live

-----------------------------------------------------------------------------
NotEcs(options) == SelectSeq(options, LAMBDA o : o.code # "ecs")

\* strip_edns_ecs; the message itself when it returns None.
StripEcs(m) ==
    LET i == LocateOpt(m)
    IN IF i <= 0 THEN m
       ELSE IF m.rrs[i].rest = "cut" \/ NotEcs(m.rrs[i].options) = m.rrs[i].options THEN m
       ELSE [m EXCEPT !.rrs[i].options = NotEcs(@), !.rrs[i].rest = "none"]

\* inject_or_replace_ecs, the same way.
Fixed == [code |-> "ecs", data |-> "fixed"]
InjectEcs(m) ==
    LET i == LocateOpt(m)
    IN IF i = -1 THEN m
       ELSE IF i = 0
       THEN [m EXCEPT !.rrs = Append(@, [opt |-> TRUE, size |-> 4096, options |-> <<Fixed>>,
                                         rest |-> "none"]),
                      !.ar = (@ + 1) % 65536]
       ELSE IF m.rrs[i].rest = "cut" THEN m
       ELSE [m EXCEPT !.rrs[i].options = Append(NotEcs(@), Fixed), !.rrs[i].rest = "none"]

Modes == {"strip", "forward", "fixed"}
ApplyEcs(m) == CASE mode = "strip" -> StripEcs(m)
                 [] mode = "fixed" -> InjectEcs(m)
                 [] mode = "forward" -> m

-----------------------------------------------------------------------------
\* client_udp_payload_size.
Payload(m) == IF FindOpt(m) = 0 THEN MinPayload ELSE Max({m.rrs[FindOpt(m)].size, MinPayload})

\* maybe_truncate_for_udp of a reply of n bytes, with has_opt_record.
Truncate(m, qe, n) ==
    IF n <= Payload(m) \/ n < qe THEN [len |-> n, tc |-> FALSE, opt |-> FALSE]
    ELSE [len |-> IF FindOpt(m) # 0 THEN qe + StubOpt ELSE qe,
          tc |-> TRUE, opt |-> FindOpt(m) # 0]
NoReply == [len |-> 0, tc |-> FALSE, opt |-> FALSE]

\* strip_opt_rdata; the message itself when it returns None.
StripOptRdata(m) ==
    LET i == LocateOpt(m)
    IN IF i <= 0 THEN m ELSE [m EXCEPT !.rrs[i].options = <<>>, !.rrs[i].rest = "none"]

Empty == [an |-> 0, ns |-> 0, ar |-> 0, rrs |-> <<>>]
NoEntry == [key |-> Variant(Empty), variant |-> Variant(Empty), packet |-> Empty]

Init ==
    /\ query \in Queries /\ mode \in Modes
    /\ sent = Empty /\ entry = NoEntry /\ resp = Empty /\ reply = NoReply
    /\ pc = "received"

Send ==
    /\ pc = "received" /\ pc' = "sent"
    /\ sent' = ApplyEcs(query)
    /\ UNCHANGED <<query, mode, entry, resp, reply>>

EcsInQuery(m) == mode = "strip" /\ Variant(m).ecs # "none"
\* Mutant: the entry keeps the variant of the query as it came.
CacheVariantKept(m) == Variant(m)
\* cache_variant: that of the stripped query.
CacheVariant(m) == IF EcsInQuery(m) THEN Variant(StripEcs(m)) ELSE Variant(m)

Store(r) ==
    /\ pc = "sent" /\ pc' = "stored"
    /\ resp' = r
    /\ entry' = [key |-> CacheKey(Variant(query), EcsInQuery(query)),
                 variant |-> CacheVariant(query), packet |-> StripOptRdata(r)]
    /\ UNCHANGED <<query, mode, sent, reply>>

\* get_into_with_ecs_fallback: a later query is looked up by its own key, then by the
\* stripped one.
Found(m) ==
    LET v == Variant(m)
        At(strip) == CacheKey(v, strip) = entry.key /\ QueriesMatch(entry.variant, v, strip)
    IN At(FALSE) \/ (v.ecs # "none" /\ At(TRUE))

\* The reply to the query itself, whose length is that of the response.
Answer(qe, n) ==
    /\ pc = "stored" /\ pc' = "answered"
    /\ n >= qe
    /\ reply' = Truncate(query, qe, n)
    /\ UNCHANGED <<query, mode, sent, entry, resp>>

Idle == pc = "answered" /\ UNCHANGED vars
Next == \/ Send \/ Idle
        \/ \E r \in Responses : Store(r)
        \/ \E qe \in Ends, n \in Lengths : Answer(qe, n)
Spec == Init /\ [][Next]_vars

-----------------------------------------------------------------------------
\* How a server reads a message: the sections are what the counts say, and at most one OPT
\* record, filled with options, is in the additional section.
WellFormed(m) ==
    LET opts == {i \in DOMAIN m.rrs : m.rrs[i].opt}
    IN /\ Len(m.rrs) = m.an + m.ns + m.ar /\ Cardinality(opts) <= 1
       /\ \A i \in opts : i > m.an + m.ns /\ m.rrs[i].rest = "none"
HasOpt(m) == \E i \in DOMAIN m.rrs : m.rrs[i].opt
OptionsSeen(m) ==
    FlattenSeq([i \in DOMAIN m.rrs |-> IF m.rrs[i].opt THEN m.rrs[i].options ELSE <<>>])
SubnetsSeen(m) == {o.data : o \in {x \in Range(OptionsSeen(m)) : x.code = "ecs"}}
Others(m) == SelectSeq(m.rrs, LAMBDA r : ~r.opt)

\* Of a well-formed query the server is sent a well-formed query that carries no subnet,
\* the fixed one alone, or the client's, as the mode says; all other options and records
\* are those of the client, in their order (apply_ecs_mode).
ServerSees ==
    pc # "received" /\ WellFormed(query) =>
        /\ WellFormed(sent)
        /\ SubnetsSeen(sent) = CASE mode = "strip" -> {} [] mode = "fixed" -> {"fixed"}
                                 [] mode = "forward" -> SubnetsSeen(query)
        /\ NotEcs(OptionsSeen(sent)) = NotEcs(OptionsSeen(query))
        /\ Others(sent) = Others(query)

\* A later query finds the entry exactly when it differs from the stored one in nothing
\* but padding, the order of its options and, where the subnet is stripped or the stored
\* query has none, the subnet: of well-formed queries without answer and authority records,
\* and with one subnet at most (the lookup in cache.rs by key and queries_match_v, after
\* the strip in resolver.rs).
Plain(m) == WellFormed(m) /\ m.an + m.ns = 0
                /\ Len(SelectSeq(OptionsSeen(m), LAMBDA o : o.code = "ecs")) <= 1
SameQuestion(m, n) ==
    LET Codes(x, k) == Len(SelectSeq(OptionsSeen(x), LAMBDA o : o = k))
    IN /\ HasOpt(m) = HasOpt(n)
       /\ \/ mode = "strip" \/ SubnetsSeen(n) \cap Subnets = {}
          \/ SubnetsSeen(m) \cap Subnets = SubnetsSeen(n) \cap Subnets
       /\ \A k \in Options : k.code = "cookie" \/ k.data = "short" => Codes(m, k) = Codes(n, k)
FoundExact ==
    pc = "stored" /\ Plain(query) =>
        \A m \in Queries : Plain(m) => (Found(m) <=> SameQuestion(m, query))

\* What the cache keeps of a well-formed response has no option of the exchange it came
\* from, and is the response otherwise (strip_opt_rdata).
CachedClean ==
    pc = "stored" /\ WellFormed(resp) =>
        /\ WellFormed(entry.packet) /\ OptionsSeen(entry.packet) = <<>>
        /\ HasOpt(entry.packet) = HasOpt(resp) /\ Others(entry.packet) = Others(resp)
        /\ <<entry.packet.an, entry.packet.ns>> = <<resp.an, resp.ns>>

\* A reply over UDP is never longer than the client accepts, and never longer than 512
\* bytes when the client names no size, a stub included; a stub has an OPT record exactly
\* when the client's query has one (maybe_truncate_for_udp).
ReplyFits ==
    pc = "answered" =>
        /\ reply.len <= Max({MinPayload} \cup
                            {r.size : r \in {r \in Range(query.rrs) : r.opt}})
        /\ reply.tc /\ Plain(query) => reply.opt = HasOpt(query)
=============================================================================
