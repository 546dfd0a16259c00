---------------------------- MODULE Bootstrap ----------------------------
(***************************************************************************)
(* parse_servers: the entries of route.servers are checked, then resolved  *)
(* in the order their ?bootstrap= references require.  The host name of an *)
(* upstream is looked up by one-shot UDP queries to the addresses of the   *)
(* entry it names, an A query and then an AAAA query to each address, and  *)
(* any of these may be lost or refused.  The same code runs at startup and *)
(* on each reload of the configuration.                                    *)
(*                                                                         *)
(* Entries are numbered in name order.  A URL is its kind of host (an      *)
(* address, a name or one of the fixed answers) and the values of its      *)
(* bootstrap= parameters, in the order they are written.  An endpoint is   *)
(* known by the entry and the position of its URL; its mark is the one     *)
(* that URL gives.                                                         *)
(***************************************************************************)
EXTENDS Naturals, Sequences, SequencesExt

CONSTANTS
    N,          \* the number of entries
    Shapes      \* the lists of URLs an entry may have

BootstrapAssumption == N \in Nat \ {0} /\ <<>> \notin Shapes

VARIABLES
    entries,    \* the URLs of each entry
    pc,
    result,     \* "" while running, then "ok" or the error
    resolved,   \* the endpoints of each entry, or Unresolved
    at,         \* the entry the scan is at
    progressed, \* the scan has resolved an entry
    url,        \* the URL of entry at that is being parsed
    found,      \* the endpoints of the URLs before it
    tries,      \* the queries left to send for it
    asked       \* history: every query sent

vars == <<entries, pc, result, resolved, at, progressed, url, found, tries, asked>>
scan == <<resolved, at, progressed>>
upstream == <<url, found, tries>>

Entries == 1 .. N
Unresolved == <<>>
FixedHosts == {"A", "AAAA", "RCODE"}

\* is_fixed_answer_url, and the entry made of such URLs only.
IsFixedUrl(u) == u.host \in FixedHosts
IsFixed(i) == \A k \in DOMAIN entries[i] : IsFixedUrl(entries[i][k])
Mixed(i) == ~IsFixed(i) /\ \E k \in DOMAIN entries[i] : IsFixedUrl(entries[i][k])

\* parse_fixed_answer_set: one RCODE alone, or one A and one AAAA.
CountOf(i, h) == Len(SelectSeq(entries[i], LAMBDA u : u.host = h))
FixedValid(i) ==
    IF CountOf(i, "RCODE") > 0
    THEN CountOf(i, "RCODE") = 1 /\ Len(entries[i]) = 1
    ELSE CountOf(i, "A") <= 1 /\ CountOf(i, "AAAA") <= 1

\* bootstrap_ref takes the first bootstrap= of a URL, the query parser the last.
Deps(i) ==
    IF IsFixed(i) THEN {}
    ELSE {Head(entries[i][k].refs) : k \in {m \in DOMAIN entries[i] : entries[i][m].refs # <<>>}}
Reference(u) == IF u.refs = <<>> THEN 0 ELSE Last(u.refs)

\* Phase 1: every reference names another entry, which is a real upstream.
RefsValid == \A i \in Entries : \A d \in Deps(i) : d # i /\ d \in Entries /\ ~IsFixed(d)
Done(r) == pc' = "done" /\ result' = r

Init ==
    /\ entries \in [Entries -> Shapes]
    /\ pc = "check" /\ result = ""
    /\ resolved = [i \in Entries |-> Unresolved] /\ at = 1 /\ progressed = FALSE
    /\ url = 1 /\ found = <<>> /\ tries = <<>>
    /\ asked = {}

Check ==
    /\ pc = "check"
    /\ \/ (\E i \in Entries : Mixed(i)) /\ Done("mixed")
       \/ (\A i \in Entries : ~Mixed(i)) /\ ~RefsValid /\ Done("badref")
       \/ (\A i \in Entries : ~Mixed(i)) /\ RefsValid /\ pc' = "scan" /\ UNCHANGED result
    /\ UNCHANGED <<entries, scan, upstream, asked>>

\* Phase 2: a scan takes each entry that is not resolved and whose references are.
Ready(i) == resolved[i] = Unresolved /\ \A d \in Deps(i) : resolved[d] # Unresolved

Skip ==
    /\ pc = "scan" /\ at \in Entries /\ ~Ready(at)
    /\ at' = at + 1
    /\ UNCHANGED <<entries, pc, result, resolved, progressed, upstream, asked>>

TakeFixed ==
    /\ pc = "scan" /\ at \in Entries /\ Ready(at) /\ IsFixed(at)
    /\ IF FixedValid(at)
       THEN /\ resolved' = [resolved EXCEPT ![at] = <<"fixed">>]
            /\ at' = at + 1 /\ progressed' = TRUE
            /\ UNCHANGED <<pc, result>>
       ELSE Done("badfixed") /\ UNCHANGED scan
    /\ UNCHANGED <<entries, upstream, asked>>

TakeUpstream ==
    /\ pc = "scan" /\ at \in Entries /\ Ready(at) /\ ~IsFixed(at)
    /\ pc' = "url" /\ url' = 1 /\ found' = <<>>
    /\ UNCHANGED <<entries, result, scan, tries, asked>>

\* The end of a scan: all resolved, or nothing new (a cycle), or another scan.
EndScan ==
    /\ pc = "scan" /\ at = N + 1
    /\ \/ (\A i \in Entries : resolved[i] # Unresolved) /\ Done("ok") /\ UNCHANGED scan
       \/ /\ \E i \in Entries : resolved[i] = Unresolved
          /\ ~progressed /\ Done("cycle") /\ UNCHANGED scan
       \/ /\ \E i \in Entries : resolved[i] = Unresolved
          /\ progressed /\ at' = 1 /\ progressed' = FALSE
          /\ UNCHANGED <<pc, result, resolved>>
    /\ UNCHANGED <<entries, upstream, asked>>

\* The targets a lookup gives: the endpoints of an entry, none if it is not resolved.
Lookup(d) == IF d \in Entries THEN resolved[d] ELSE <<>>
\* Each target is asked for A and then for AAAA.
Tries(ts) == FlattenSeq([k \in DOMAIN ts |-> <<<<ts[k], 1>>, <<ts[k], 28>>>>])

\* parse_upstream up to its first query: an address needs none.
ParseUrl ==
    /\ pc = "url" /\ url \in DOMAIN entries[at]
    /\ LET u == entries[at][url] IN
       \/ /\ u.host = "ip"
          /\ found' = Append(found, <<at, url>>) /\ url' = url + 1
          /\ UNCHANGED <<pc, result, tries>>
       \/ /\ u.host = "name" /\ Lookup(Reference(u)) = <<>>
          /\ Done("nobootstrap") /\ UNCHANGED upstream
       \/ /\ u.host = "name" /\ Lookup(Reference(u)) # <<>>
          /\ tries' = Tries(Lookup(Reference(u)))
          /\ pc' = "ask" /\ UNCHANGED <<url, found, result>>
    /\ UNCHANGED <<entries, scan, asked>>

\* bootstrap_udp_query: a reply counts when it has an address of the type asked for.
Replies == {"lost", "refused", "nodata", "A", "AAAA"}
Usable(reply, qtype) == reply = (IF qtype = 1 THEN "A" ELSE "AAAA")

Query(try) == [by |-> <<at, url>>, to |-> try[1], mark |-> try[1], qtype |-> try[2]]

\* resolve_host: the first usable reply wins, the host fails with its last query.
Ask ==
    /\ pc = "ask"
    /\ asked' = asked \cup {Query(Head(tries))}
    /\ tries' = Tail(tries)
    /\ \E reply \in Replies :
         \/ /\ Usable(reply, Head(tries)[2])
            /\ found' = Append(found, <<at, url>>) /\ url' = url + 1 /\ pc' = "url"
            /\ UNCHANGED result
         \/ /\ ~Usable(reply, Head(tries)[2])
            /\ IF Len(tries) > 1 THEN UNCHANGED <<pc, result>> ELSE Done("unreachable")
            /\ UNCHANGED <<url, found>>
    /\ UNCHANGED <<entries, scan>>

EndUpstream ==
    /\ pc = "url" /\ url = Len(entries[at]) + 1
    /\ resolved' = [resolved EXCEPT ![at] = found]
    /\ at' = at + 1 /\ progressed' = TRUE /\ pc' = "scan"
    /\ UNCHANGED <<entries, result, upstream, asked>>

Finished == pc = "done" /\ UNCHANGED vars

Next ==
    \/ Check \/ Skip \/ TakeFixed \/ TakeUpstream \/ EndScan
    \/ ParseUrl \/ Ask \/ EndUpstream \/ Finished

Spec == Init /\ [][Next]_vars

-----------------------------------------------------------------------------

\* The entries no order can resolve: each reaches a cycle of references.
Stuck == UNION {S \in SUBSET Entries : \A i \in S : Deps(i) \cap S # {}}

\* A URL that names a bootstrap server is parsed when that server is resolved: the referenced
\* server comes before the server that bootstraps from it (upstream_url.rs, BootstrapLookup).
Ordered ==
    pc = "url" /\ url \in DOMAIN entries[at] /\ Reference(entries[at][url]) # 0
        => Lookup(Reference(entries[at][url])) # <<>>

\* A cycle is reported exactly for the entries that depend on one, and never for references
\* that some order satisfies, whatever the order of the names; success resolves every URL of
\* every entry (parse_servers' scans).
CycleExact ==
    /\ result = "cycle" => Stuck # {} /\ {i \in Entries : resolved[i] = Unresolved} = Stuck
    /\ result = "ok" =>
         /\ Stuck = {}
         /\ \A i \in Entries : ~IsFixed(i) => Len(resolved[i]) = Len(entries[i])

\* A bootstrap query goes to an address of the entry that its URL names and carries the mark
\* of that address, so it takes that entry's route (BootstrapTarget).
RouteInherited ==
    \A q \in asked :
        LET ref == Reference(entries[q.by[1]][q.by[2]]) IN
        q.to[1] = ref /\ q.mark = q.to /\ q.to \in ToSet(resolved[ref])

\* A host is given up only after every address of its bootstrap server was asked for both
\* types (resolve_host).
GivenUpLate ==
    result = "unreachable" =>
        \A t \in ToSet(Lookup(Reference(entries[at][url]))), qtype \in {1, 28} :
            \E q \in asked : q.by = <<at, url>> /\ q.to = t /\ q.qtype = qtype

\* The function returns, also when the references form a cycle and queries are lost.
Returned == pc = "done"
=============================================================================
