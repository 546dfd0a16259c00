----------------------------- MODULE IpRangeSet -----------------------------
(***************************************************************************)
(* iprange.rs: the set of addresses of an ipcidr rule-set, built from      *)
(* lines in any order, with overlaps, into sorted and merged ranges that   *)
(* are searched by bisection.  The two families share one space, IPv4 as   *)
(* mapped addresses; IPv6 addresses have W6 bits here, IPv4 W4.            *)
(***************************************************************************)
EXTENDS Integers, Sequences, FiniteSets, SequencesExt

CONSTANTS W4, W6,
          V4Base,       \* ::ffff:0:0
          Ends,         \* ends of the ranges of a compiled rule-set
          MaxLines      \* bound: lines or ranges of a rule-set

RangeAssumption == /\ W4 \in Nat \ {0} /\ W6 \in Nat /\ W6 > W4
                   /\ V4Base % 2^W4 = 0 /\ V4Base + 2^W4 <= 2^W6
                   /\ Ends \subseteq 0..2^W6 - 1

VARIABLES lines,        \* history: the lines and ranges given
          ranges        \* IpRangeSetBuilder.ranges

vars == <<lines, ranges>>

Top == 2^W6 - 1
Bits(v4) == IF v4 THEN W4 ELSE W6
Ips == [v4 : {TRUE}, n : 0..2^W4 - 1] \cup [v4 : {FALSE}, n : 0..Top]
\* A line: an address and a prefix length, that of a host when it has none.
Lines == {l \in [ip : Ips, prefix : 0..W6] : l.prefix <= Bits(l.ip.v4)}

\* to_u128.
ToU128(ip) == IF ip.v4 THEN V4Base + ip.n ELSE ip.n

\* parse_cidr_range: the mask has ones above the host bits, in the whole width.
ParseCidr(l) ==
    LET size == 2^(Bits(l.ip.v4) - l.prefix)
        from == ToU128(l.ip) - (ToU128(l.ip) % size)
    IN <<from, from + size - 1>>

Init == lines = {} /\ ranges = <<>>

Room == Len(ranges) < MaxLines /\ Cardinality(lines) < MaxLines
\* push_range: an empty range is left out.
PushRange(r) == ranges' = IF r[1] <= r[2] THEN Append(ranges, r) ELSE ranges
\* push_cidr_line, and a range of a compiled rule-set.
PushCidr(l) == Room /\ PushRange(ParseCidr(l)) /\ lines' = lines \cup {l}
PushCompiled(r) ==
    Room /\ PushRange(r) /\ lines' = lines \cup {[from |-> r[1], to |-> r[2]]}

-----------------------------------------------------------------------------
\* build: sorted by the lower end; a range that overlaps or touches the last one is
\* merged into it.
SaturatingNext(n) == IF n = Top THEN Top ELSE n + 1
\* Mutant: the last range takes the end of the next.
MergeEnds(acc, r) ==
    IF acc # <<>> /\ r[1] <= SaturatingNext(Last(acc)[2])
    THEN Append(Front(acc), <<Last(acc)[1], r[2]>>) ELSE Append(acc, r)
Merge(acc, r) ==
    IF acc # <<>> /\ r[1] <= SaturatingNext(Last(acc)[2])
    THEN Append(Front(acc), <<Last(acc)[1], IF r[2] > Last(acc)[2] THEN r[2] ELSE Last(acc)[2]>>)
    ELSE Append(acc, r)
Build(rs) == FoldLeft(Merge, <<>>, SortSeq(rs, LAMBDA a, b : a[1] < b[1]))

\* contains: the last range that starts at or before the address.
InRanges(set, ip) ==
    LET v == ToU128(ip)
        idx == Len(SelectSeq(set, LAMBDA r : r[1] <= v))
    IN idx > 0 /\ v <= set[idx][2]

Done == ~Room /\ UNCHANGED vars
Next == (\E l \in Lines : PushCidr(l)) \/ (\E r \in Ends \X Ends : PushCompiled(r)) \/ Done
Spec == Init /\ [][Next]_vars

-----------------------------------------------------------------------------
\* The address lies in the prefix of the line, as the families are read by a person:
\* an IPv4 address is also its mapped form, and no other IPv6 address.
Bit(n, w, i) == (n \div 2^(w - i)) % 2
InCidr(ip, l) ==
    LET mapped == ~ip.v4 /\ ip.n \in V4Base..V4Base + 2^W4 - 1
        n == IF l.ip.v4 /\ mapped THEN ip.n - V4Base ELSE IF ~l.ip.v4 THEN ToU128(ip) ELSE ip.n
        w == Bits(l.ip.v4)
    IN /\ l.ip.v4 => ip.v4 \/ mapped
       /\ \A i \in 1..l.prefix : Bit(n, w, i) = Bit(l.ip.n, w, i)

InLine(ip, l) == IF "from" \in DOMAIN l THEN ToU128(ip) \in l.from..l.to ELSE InCidr(ip, l)

\* The set contains exactly the addresses of its lines and ranges, whatever their order and
\* overlaps, to the ends of the address space.
ContainsExact ==
    \A ip \in Ips : InRanges(Build(ranges), ip) = \E l \in lines : InLine(ip, l)

\* The ranges are sorted, with a gap between any two: bisection is sound and len() is
\* the number of separate blocks.
MergedApart ==
    LET set == Build(ranges)
    IN \A i \in 1..Len(set) : /\ set[i][1] <= set[i][2]
                              /\ i > 1 => set[i][1] > set[i - 1][2] + 1
=============================================================================
