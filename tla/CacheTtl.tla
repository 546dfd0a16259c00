------------------------------ MODULE CacheTtl ------------------------------
(***************************************************************************)
(* The lifetime of a cached response: dns/ttl.rs computes it, DnsCache     *)
(* (cache.rs) counts it down on the monotonic clock, and a file carries it *)
(* over a restart on the wall clock.  A reboot starts the monotonic clock  *)
(* again.  One key; time is in seconds.                                    *)
(***************************************************************************)
EXTENDS Integers, Sequences, SequencesExt, FiniteSetsExt

CONSTANTS Packets,      \* responses
          Policies,     \* ResolvedCachePolicy
          NegativeCap,  \* the 10800 s of RFC 2308
          Reboots,      \* the machine may restart, not only the process
          MaxNow        \* bound on the clock

\* A record of the answer section, or of the other two sections.  An OPT record
\* has no TTL.  soa is the first SOA of the authority section, if it parses.
RRs == [opt : BOOLEAN, ttl : Nat]
NoSoa == [ttl |-> -1, minimum |-> -1]
Rcodes == {"noerror", "nxdomain", "other"}

TtlAssumption ==
    /\ NegativeCap \in Nat /\ MaxNow \in Nat /\ Reboots \in BOOLEAN
    /\ \A p \in Packets : /\ p.answer \in Seq(RRs) /\ p.rest \in Seq(RRs)
                          /\ p.rcode \in Rcodes /\ p.tc \in BOOLEAN
    /\ \A q \in Policies : q.nodata \in Nat /\ q.min \in Nat /\ q.max \in Nat

VARIABLES policy,
          now, boot,    \* the wall clock, and when the machine started
          up,           \* the process runs
          entry,        \* the cached entry
          file,         \* the saved entry
          served        \* history: the last hit

vars == <<policy, now, boot, up, entry, file, served>>

-----------------------------------------------------------------------------
\* dns/ttl.rs.

Clamp(pol, raw) == LET v == Max({raw, pol.min})
                   IN IF pol.max > 0 THEN Min({v, pol.max}) ELSE v

Timed(rrs) == SelectSeq(rrs, LAMBDA r : ~r.opt)
SoaTtl(p) == IF p.soa = NoSoa THEN -1 ELSE Min({p.soa.ttl, p.soa.minimum})
NegativeTtl(pol, p) ==
    Clamp(pol, Min({IF SoaTtl(p) = -1 THEN pol.nodata ELSE SoaTtl(p), NegativeCap}))

\* effective_ttl_and_offsets: the TTL each record counts down from.
RecordTtls(pol, p) ==
    LET all == Timed(p.answer) \o Timed(p.rest)
    IN [i \in DOMAIN all |-> IF p.answer = <<>> THEN NegativeTtl(pol, p)
                             ELSE Clamp(pol, all[i].ttl)]

\* The lifetime of the entry: its shortest answer, or the negative TTL.
EntryTtl(pol, p) ==
    IF p.answer = <<>> THEN NegativeTtl(pol, p)
    ELSE IF Timed(p.answer) = <<>> THEN pol.nodata
    ELSE Min({RecordTtls(pol, p)[i] : i \in DOMAIN Timed(p.answer)})

Cacheable(p) == ~p.tc /\ p.rcode \in {"noerror", "nxdomain"}

-----------------------------------------------------------------------------
\* cache.rs.  born and packet are history: when the response was received, and
\* what it was.
NoPacket == [answer |-> <<>>, rest |-> <<>>, soa |-> NoSoa, rcode |-> "other", tc |-> TRUE]
NoEntry == [ttl |-> 0, inserted |-> 0, rrs |-> <<>>, born |-> 0, packet |-> NoPacket]
NoFile == [expire |-> 0, ttl |-> 0, rrs |-> <<>>, born |-> 0, packet |-> NoPacket]
NoHit == [at |-> 0, rrs |-> <<>>, born |-> 0, packet |-> NoPacket]

TypeOK ==
    /\ policy \in Policies /\ now \in 0..MaxNow /\ boot \in 0..now /\ up \in BOOLEAN
    /\ entry.ttl \in Nat /\ (entry # NoEntry => entry.inserted \in boot..now)
    /\ entry.rrs \in Seq(Nat)
    /\ file.expire \in Nat /\ file.ttl \in Nat /\ file.rrs \in Seq(Nat)
    /\ served.at \in 0..now /\ served.rrs \in Seq(Nat)

Init ==
    /\ policy \in Policies
    /\ now = 0 /\ boot = 0 /\ up = TRUE
    /\ entry = NoEntry /\ file = NoFile /\ served = NoHit

\* DnsCache::add.
Add(p) ==
    /\ up /\ Cacheable(p)
    /\ entry' = [ttl |-> EntryTtl(policy, p), inserted |-> now, rrs |-> RecordTtls(policy, p),
                 born |-> now, packet |-> p]
    /\ UNCHANGED <<policy, now, boot, up, file, served>>

Fresh == now - entry.inserted < entry.ttl

\* lookup_into_keyed: a fresh entry is served with the time passed taken off
\* every record; an expired one is removed.
Patched(rrs, elapsed) == [i \in DOMAIN rrs |-> Max({rrs[i] - elapsed, 0})]
Hit ==
    /\ up /\ entry # NoEntry /\ Fresh
    /\ served' = [at |-> now, rrs |-> Patched(entry.rrs, now - entry.inserted),
                  born |-> entry.born, packet |-> entry.packet]
    /\ UNCHANGED <<policy, now, boot, up, entry, file>>

Expire ==
    /\ up /\ entry # NoEntry /\ ~Fresh
    /\ entry' = NoEntry
    /\ UNCHANGED <<policy, now, boot, up, file, served>>

\* save_to_file: the remaining lifetime becomes a deadline on the wall clock.
Save ==
    /\ up
    /\ file' = IF entry # NoEntry /\ Fresh
               THEN [expire |-> now + entry.ttl - (now - entry.inserted), ttl |-> entry.ttl,
                     rrs |-> entry.rrs, born |-> entry.born, packet |-> entry.packet]
               ELSE NoFile
    /\ UNCHANGED <<policy, now, boot, up, entry, served>>

Stop ==
    /\ up
    /\ up' = FALSE /\ entry' = NoEntry
    /\ UNCHANGED <<policy, now, boot, file, served>>

\* Mutant: a loaded entry starts its lifetime again.
LoadedAnew(b) ==
    [ttl |-> file.ttl, inserted |-> now, rrs |-> file.rrs, born |-> file.born,
     packet |-> file.packet]
\* load_from_file on a machine started at b: the entry's age is put before now,
\* or, when the monotonic clock does not reach back that far, it starts now with
\* what remains.
Loaded(b) ==
    LET remaining == file.expire - now
        age == Max({file.ttl - remaining, 0})
    IN IF age <= now - b
       THEN [ttl |-> file.ttl, inserted |-> now - age, rrs |-> file.rrs, born |-> file.born,
             packet |-> file.packet]
       ELSE [ttl |-> Min({remaining, file.ttl}), inserted |-> now, rrs |-> file.rrs,
             born |-> file.born, packet |-> file.packet]
Start(reboot) ==
    /\ ~up
    /\ up' = TRUE
    /\ boot' = IF reboot THEN now ELSE boot
    /\ entry' = IF file # NoFile /\ file.expire > now THEN Loaded(boot')
                ELSE NoEntry
    /\ UNCHANGED <<policy, now, file, served>>

\* invalidate_all, or the map evicts the entry.
Clear ==
    /\ up /\ entry' = NoEntry
    /\ UNCHANGED <<policy, now, boot, up, file, served>>

Tick ==
    /\ now < MaxNow
    /\ now' = now + 1
    /\ UNCHANGED <<policy, boot, up, entry, file, served>>

Next == \/ \E p \in Packets : Add(p)
        \/ Hit \/ Expire \/ Save \/ Stop \/ Clear \/ Tick
        \/ \E reboot \in {FALSE} \cup (IF Reboots THEN {TRUE} ELSE {}) : Start(reboot)

Spec == Init /\ [][Next]_vars

-----------------------------------------------------------------------------
\* No response is served once one of its answers has run out since it was
\* received, or, without answers, its SOA or the cap on negative TTLs, unless the
\* configured minimum keeps it; and never past the configured maximum: whatever
\* restarts, reboots and loads of the file lie in between.
NeverServedStale ==
    LET p == served.packet
        elapsed == served.at - served.born
        Within(t) == elapsed < Max({t, policy.min})
    IN served # NoHit =>
        /\ \A i \in DOMAIN Timed(p.answer) : Within(Timed(p.answer)[i].ttl)
        /\ p.answer = <<>> => /\ Within(NegativeCap)
                              /\ p.soa # NoSoa => Within(p.soa.ttl) /\ Within(p.soa.minimum)
        /\ policy.max > 0 /\ p.answer # <<>> => elapsed < Max({policy.max, policy.nodata})

\* "All freshness maths stay correct" (cache.rs:644): every record is served with
\* its own TTL less the time since the response was received, and an answer with
\* at least one second.
CountsDownFromReceipt ==
    served # NoHit =>
        /\ served.rrs = Patched(RecordTtls(policy, served.packet), served.at - served.born)
        /\ \A i \in DOMAIN Timed(served.packet.answer) : served.rrs[i] >= 1
=============================================================================
