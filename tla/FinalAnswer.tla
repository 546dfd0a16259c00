---------------------------- MODULE FinalAnswer -----------------------------
(***************************************************************************)
(* resolver.rs, from do_upstream_exchange to the entry that is cached: a   *)
(* query of one target is answered by a rule's server, by route.final's    *)
(* server, by the first good answer of two servers (race), or by the one   *)
(* of two servers that the addresses in the primary's answer select        *)
(* (resolve_none_rule_with_cidr).  A rule's filter may then drop the       *)
(* answer or forward the query to another server.  What is cached names    *)
(* the server it is credited to and takes its TTL policy from the server   *)
(* that answered.                                                          *)
(***************************************************************************)
EXTENDS Integers

CONSTANTS Servers,      \* route.servers
          NoServer      \* no server

ServersAssumption == NoServer \notin Servers

\* A server's answer: addresses inside or outside the answer-ip set, none, a
\* SERVFAIL, or a network error.
Answers == {"inside", "outside", "noip", "servfail", "error"}
Clean == {"inside", "outside", "noip"}
None == "none"
Kinds == {"pool", "records", "rcode"}
Targets == {"rule", "server", "race", "cidr"}

VARIABLES kind,         \* kind[s]: an upstream pool, fixed records or a fixed RCODE
          target,       \* the kind of RouteTarget
          first, second,\* rule.kind or primary, and secondary
          filter,       \* what the rule's first matching filter does
          forwardTo,    \* its forward target
          loaded,       \* a ruleset database is loaded
          noipAsPrimary,\* fallback.noip_as_primary_ip
          pc,
          answer,       \* answer[s]: what s answered, None before
          asked,        \* servers with an exchange under way or over
          ended,        \* who ended first
          verdict,      \* the verdict cache for the name
          response,     \* [from, what]: the response resolve_with_filters returns
          winner,       \* winner_idx
          forwarded,    \* forwarded_idx
          entry         \* what is cached

config == <<kind, target, first, second, filter, forwardTo, loaded, noipAsPrimary>>
vars == <<config, pc, answer, asked, ended, verdict, response, winner, forwarded, entry>>

NoResponse == [from |-> NoServer, what |-> None]
NoEntry == [credit |-> None, server |-> NoServer, nodataTtl |-> NoServer]
Pcs == {"start", "one", "race", "cidr", "await", "filter", "forward", "cache", "done"}

TypeOK ==
    /\ kind \in [Servers -> Kinds] /\ target \in Targets
    /\ first \in Servers /\ second \in Servers /\ forwardTo \in Servers
    /\ filter \in {"none", "accept", "drop", "forward"}
    /\ loaded \in BOOLEAN /\ noipAsPrimary \in BOOLEAN
    /\ pc \in Pcs
    /\ answer \in [Servers -> Answers \cup {None}] /\ asked \in SUBSET Servers
    /\ ended \in Servers \cup {NoServer}
    /\ verdict \in {None, "primary", "secondary"}
    /\ response \in [from : Servers \cup {NoServer}, what : Answers \cup {None}]
    /\ winner \in Servers \cup {NoServer} /\ forwarded \in Servers \cup {NoServer}
    /\ entry \in [credit : {None, "rule", "final", "unknown"}, server : Servers \cup {NoServer},
                  nodataTtl : Servers \cup {NoServer}]

\* route.final's two servers are distinct entries; only a rule has a filter, and only
\* a filter that forwards has a target.
Init ==
    /\ kind \in [Servers -> Kinds] /\ target \in Targets
    /\ first \in Servers /\ second \in Servers \ {first}
    /\ filter \in (IF target = "rule" THEN {"none", "accept", "drop", "forward"} ELSE {"none"})
    /\ forwardTo \in (IF filter = "forward" THEN Servers ELSE {first})
    /\ loaded \in BOOLEAN /\ noipAsPrimary \in BOOLEAN
    /\ pc = "start"
    /\ answer = [s \in Servers |-> None] /\ asked = {}
    /\ ended = NoServer
    /\ verdict \in {None, "primary", "secondary"}
    /\ response = NoResponse /\ winner = NoServer /\ forwarded = NoServer
    /\ entry = NoEntry

-----------------------------------------------------------------------------
\* What an exchange with a server of this kind may end in: fixed answers never
\* fail, and a fixed RCODE carries no address.
Outcomes(s) == CASE kind[s] = "pool" -> Answers
                 [] kind[s] = "records" -> Clean
                 [] kind[s] = "rcode" -> {"noip", "servfail"}

\* The exchange with s ends in r; an exchange that ended keeps its answer.
Ends(s, r) == /\ s \in asked /\ answer[s] = None /\ r \in Outcomes(s)
              /\ answer' = [answer EXCEPT ![s] = r]

Respond(s, r, next) == /\ response' = [from |-> s, what |-> r]
                       /\ pc' = next

\* The target selects who is asked.  A CIDR test without a ruleset database is a
\* race, and one whose name has a verdict asks only the server it names.
Ask ==
    /\ pc = "start"
    /\ \/ /\ target \in {"rule", "server"} /\ asked' = {first} /\ pc' = "one"
       \/ /\ target = "race" \/ (target = "cidr" /\ ~loaded)
          /\ asked' = {first, second} /\ pc' = "race"
       \/ /\ target = "cidr" /\ loaded /\ verdict # None
          /\ asked' = {IF verdict = "primary" THEN first ELSE second} /\ pc' = "one"
       \/ /\ target = "cidr" /\ loaded /\ verdict = None
          /\ asked' = {first, second} /\ pc' = "cidr"
    /\ UNCHANGED <<config, answer, ended, verdict, response, winner, forwarded, entry>>

\* The only server asked answers.
One ==
    /\ pc = "one"
    /\ \E s \in asked, r \in Answers :
           /\ Ends(s, r)
           /\ Respond(s, r, IF r = "error" THEN "done" ELSE "filter")
           /\ winner' = IF target = "cidr" THEN s ELSE NoServer
    /\ UNCHANGED <<config, asked, ended, verdict, forwarded, entry>>

\* Mutant: the first server to end decides, whatever it answered.
RaceEndsFirst ==
    /\ pc = "race"
    /\ \E s \in asked, r \in Answers :
           /\ Ends(s, r)
           /\ Respond(s, r, IF r = "error" THEN "done" ELSE "filter")
           /\ winner' = s /\ ended' = ended
    /\ UNCHANGED <<config, asked, verdict, forwarded, entry>>
\* The first of the two servers to end wins if its answer is clean; otherwise
\* the other is awaited.
RaceEnds ==
    /\ pc = "race"
    /\ \E s \in asked, r \in Answers :
           /\ Ends(s, r)
           /\ \/ /\ r \in Clean /\ Respond(s, r, "filter")
                 /\ winner' = s /\ ended' = ended
              \/ /\ r \notin Clean /\ pc' = "await" /\ ended' = s
                 /\ UNCHANGED <<response, winner>>
    /\ UNCHANGED <<config, asked, verdict, forwarded, entry>>

\* pick_race_winner: a clean second answer, else the SERVFAIL either gave.
PickRaceWinner(s, r1, o, r2) ==
    IF r2 \in Clean THEN [from |-> o, what |-> r2]
    ELSE IF r1 = "servfail" THEN [from |-> s, what |-> r1] ELSE [from |-> o, what |-> r2]

\* The other server of a race ends.
RaceSecond ==
    /\ pc = "await" /\ (target = "race" \/ ~loaded)
    /\ \E o \in asked \ {ended}, r \in Answers :
           /\ Ends(o, r)
           /\ LET w == PickRaceWinner(ended, answer[ended], o, r)
              IN /\ Respond(w.from, w.what, IF w.what = "error" THEN "done" ELSE "filter")
                 /\ winner' = w.from
    /\ UNCHANGED <<config, asked, ended, verdict, forwarded, entry>>

\* CIDR test: the secondary ends first and its result is stashed.
Stash ==
    /\ pc = "cidr"
    /\ \E r \in Answers : Ends(second, r)
    /\ UNCHANGED <<config, pc, asked, ended, verdict, response, winner, forwarded, entry>>

\* The verdict the primary's answer gives for the name, kept only while the
\* routing generation is still the one the query started under.
Judged(r) == IF r = "inside" THEN "primary" ELSE IF r = "outside" THEN "secondary" ELSE verdict

\* CIDR test: the primary ends.  Inside the set, or without addresses when those
\* count as inside, its answer is the response; otherwise the secondary's is
\* needed.
PrimaryDecides(r) == r = "inside" \/ (r \in {"noip", "servfail"} /\ noipAsPrimary)
Primary ==
    /\ pc = "cidr"
    /\ \E r \in Answers :
           /\ Ends(first, r)
           /\ \E unchanged \in BOOLEAN : verdict' = IF unchanged THEN Judged(r) ELSE verdict
           /\ \/ /\ PrimaryDecides(r)
                 /\ Respond(first, r, "filter") /\ winner' = first /\ ended' = ended
              \/ /\ ~PrimaryDecides(r)
                 /\ pc' = "await" /\ ended' = first /\ UNCHANGED <<response, winner>>
    /\ UNCHANGED <<config, asked, forwarded, entry>>

\* The secondary's result, stashed or awaited: its answer if it has one, else
\* the primary's if that has one.
Secondary ==
    /\ pc = "await" /\ target = "cidr" /\ loaded
    /\ \E r \in Answers :
           /\ \/ Ends(second, r)
              \/ answer[second] = r /\ UNCHANGED answer
           /\ LET w == IF r # "error" \/ answer[first] = "error" THEN second ELSE first
                  what == IF w = first THEN answer[first] ELSE r
              IN Respond(w, what, IF what = "error" THEN "done" ELSE "filter") /\ winner' = w
    /\ UNCHANGED <<config, asked, ended, verdict, forwarded, entry>>

\* The rule's first matching filter, if any, decides.
Filter ==
    /\ pc = "filter"
    /\ \/ /\ filter \in {"none", "accept"} /\ pc' = "cache"
          /\ UNCHANGED <<answer, asked, response, winner>>
       \/ /\ filter = "drop" /\ pc' = "done" /\ response' = NoResponse
          /\ UNCHANGED <<answer, asked, winner>>
       \/ /\ filter = "forward" /\ pc' = "forward"
          /\ asked' = {forwardTo} /\ answer' = [answer EXCEPT ![forwardTo] = None]
          /\ winner' = NoServer /\ UNCHANGED response
    /\ UNCHANGED <<config, ended, verdict, forwarded, entry>>

\* The forward target answers in place of the rule's server.
Forward ==
    /\ pc = "forward"
    /\ \E r \in Answers :
           /\ Ends(forwardTo, r)
           /\ Respond(forwardTo, r, IF r = "error" THEN "done" ELSE "cache")
    /\ forwarded' = forwardTo
    /\ UNCHANGED <<config, asked, ended, verdict, winner, entry>>

\* The server whose kind sets the TTL of an answer without records.
ResolvedServer ==
    IF forwarded # NoServer THEN forwarded
    ELSE IF target \in {"rule", "server"} THEN first ELSE winner

\* The attribution the cached entry carries.
Credit ==
    CASE target = "rule" -> <<"rule", first>>
      [] target = "server" -> <<"final", first>>
      [] target \notin {"rule", "server"} /\ winner # NoServer -> <<"final", winner>>
      [] target \notin {"rule", "server"} /\ winner = NoServer -> <<"unknown", NoServer>>

\* DnsCache::add under the policy of the rule or the global one; a fixed RCODE
\* brings its own TTL.  A SERVFAIL is not cached.
Cache ==
    /\ pc = "cache"
    /\ entry' = IF response.what = "servfail" THEN NoEntry
                ELSE [credit |-> Credit[1], server |-> Credit[2],
                      nodataTtl |-> IF kind[ResolvedServer] = "rcode" THEN ResolvedServer
                                    ELSE NoServer]
    /\ pc' = "done"
    /\ UNCHANGED <<config, answer, asked, ended, verdict, response, winner, forwarded>>

Idle == pc = "done" /\ UNCHANGED vars

Next == Ask \/ One \/ RaceEnds \/ RaceSecond \/ Stash \/ Primary \/ Secondary
          \/ Filter \/ Forward \/ Cache \/ Idle

Spec == Init /\ [][Next]_vars

-----------------------------------------------------------------------------
Racing == target = "race" \/ (target = "cidr" /\ ~loaded)

\* A race returns a clean answer if either server gives one, a SERVFAIL only if
\* both ended without a clean answer, and fails only when both failed
\* (resolver.rs:1048 and the branches of race and pick_race_winner).
CleanAnswerWins ==
    Racing /\ pc \in {"filter", "cache", "done"} =>
        \/ response.what \in Clean
        \/ /\ response.what = "servfail"
           /\ \A s \in asked : answer[s] \in {"servfail", "error"}
        \/ response.what = "error" /\ \A s \in asked : answer[s] = "error"

\* The address test trusts the primary's answer only inside the set, and falls
\* back on an answer from outside it only when the secondary has failed; the
\* verdict it leaves for the name is the one the primary's answer gave.
AddressTestRespected ==
    target = "cidr" /\ loaded /\ asked = {first, second} /\ pc \in {"filter", "cache", "done"} =>
        /\ response.from = first =>
               \/ answer[first] = "inside" \/ answer[second] = "error"
               \/ answer[first] \in {"noip", "servfail"} /\ noipAsPrimary
        /\ response.from = second /\ answer[first] # "error" =>
               answer[first] \in {"outside", "noip", "servfail"}
        /\ verdict = "primary" => answer[first] = "inside"
        /\ verdict = "secondary" => answer[first] = "outside"

\* What is cached for route.final is credited to the server that answered, also
\* when it was the second of a race or was stashed (resolver.rs:728).
CreditedToAnswerer == entry.credit = "final" => entry.server = response.from

\* An answer without records is cached for the TTL of the fixed server that gave
\* it, a forward target included, and never for that of a server that did not
\* (resolver.rs:766).
TtlOfAnswerer ==
    entry # NoEntry => entry.nodataTtl = IF kind[response.from] = "rcode" THEN response.from
                                         ELSE NoServer
=============================================================================
