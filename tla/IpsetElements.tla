--------------------------- MODULE IpsetElements ---------------------------
(***************************************************************************)
(* ipset/codec.rs: how addresses are written to an nftset.  A set that     *)
(* stores intervals is given the two ends of each; another is given the    *)
(* address.  Addresses have W bits here, with the wrapping and shifting of *)
(* the release build's u32 and u128 (a shift is taken modulo the width).   *)
(*                                                                         *)
(* The lengths of messages are those of the real encoding.                 *)
(***************************************************************************)
EXTENDS Integers, Sequences, FiniteSets

CONSTANTS W,                \* bits of an address
          Masks,            \* the prefix lengths of the set's name
          MaxIps            \* bound: addresses of one message

ElementsAssumption == W \in Nat \ {0} /\ Masks \subseteq 0..W

VARIABLES mask,         \* the set's mask, or None
          interval,     \* the set stores intervals
          ips           \* the addresses of a message

vars == <<mask, interval, ips>>

None == -1
Addresses == 0..2^W - 1

Init == mask \in Masks \cup {None} /\ interval \in BOOLEAN /\ ips = <<>>

Wrap(n) == n % 2^W
\* 1 << n in the release build, which masks the shift count: 1 << W is 1.
ShiftOne(n) == Wrap(2^(n % W))

\* apply_mask.
ApplyMask(ip, prefix) == ip - (ip % 2^(W - prefix))

\* prefix_end.
PrefixEnd(net, prefix) ==
    Wrap(net + IF prefix >= W THEN 1 ELSE ShiftOne(W - prefix))
\* ip_next.
IpNext(ip) == Wrap(ip + 1)

Elem(ip, end) == [ip |-> ip, end |-> end]

\* encode_nftset_add: the elements of one address.
ElementsOf(ip) ==
    LET net == IF mask = None THEN ip ELSE ApplyMask(ip, mask)
        end == IF mask = None THEN IpNext(ip) ELSE PrefixEnd(net, mask)
    IN IF interval THEN <<Elem(net, FALSE), Elem(end, TRUE)>> ELSE <<Elem(net, FALSE)>>

\* A set of intervals, as the kernel reads it: each start with the end after it; an
\* end that has wrapped to zero is the end of the address space.
RangeOf(es) ==
    {a \in Addresses : a >= es[1].ip /\ (a < es[2].ip \/ es[2].ip = 0)}

AddIp(ip) == Len(ips) < MaxIps /\ ips' = Append(ips, ip) /\ UNCHANGED <<mask, interval>>
Done == Len(ips) = MaxIps /\ UNCHANGED vars
Next == (\E ip \in Addresses : AddIp(ip)) \/ Done
Spec == Init /\ [][Next]_vars

-----------------------------------------------------------------------------
\* Bytes of an attribute, and of a nest of attributes.
Pad4(n) == n + ((4 - (n % 4)) % 4)
AttrLen(data) == Pad4(4 + data)
\* nft_interval_elem, once or twice; an end has the flags attribute.
ElemLen(bytes, iv) ==
    LET one == 4 + 4 + AttrLen(bytes)
    IN IF iv THEN one + one + AttrLen(4) ELSE one
MaxIpsPerMessage == 500
NestLen(n, bytes, iv) == 4 + n * ElemLen(bytes, iv)

-----------------------------------------------------------------------------
TypeOK ==
    /\ mask \in Masks \cup {None} /\ interval \in BOOLEAN
    /\ ips \in Seq(Addresses) /\ Len(ips) <= MaxIps
    /\ \A i \in DOMAIN ips : ElementsOf(ips[i]) \in Seq([ip : Addresses, end : BOOLEAN])

\* Prefixes by their meaning: two addresses are of one prefix when their first bits
\* are the same.
SamePrefix(a, b, prefix) ==
    \A i \in 1..prefix : (a \div 2^(W - i)) % 2 = (b \div 2^(W - i)) % 2

\* In a set of intervals exactly the addresses that share the mask's prefix with one
\* that was added are found, and without a mask exactly those added; a range does not
\* run over its end at the top of the address space.  A mask of 0, which parse_mask
\* accepts, is the one exception: the size of the prefix wraps to one address, and only
\* address zero is found, never an address too many.
RangesExact ==
    LET found == UNION {RangeOf(ElementsOf(ips[i])) : i \in DOMAIN ips}
        meant == {a \in Addresses : \E i \in DOMAIN ips :
                      SamePrefix(a, ips[i], IF mask = None THEN W ELSE mask)}
    IN interval => found = IF mask = 0 THEN meant \cap {0} ELSE meant

\* In another set the network address is written, the same for all of a prefix.
HostsExact ==
    ~interval => \A i, j \in DOMAIN ips :
        ElementsOf(ips[i]) = ElementsOf(ips[j]) <=>
            SamePrefix(ips[i], ips[j], IF mask = None THEN W ELSE mask)

\* The elements of a message fit the 16 bits of their attribute's length, for either
\* family and kind of set ("500 keeps every message comfortably under u16::MAX",
\* client.rs:141).
MessageFits == \A bytes \in {4, 16} : NestLen(MaxIpsPerMessage, bytes, interval) < 2^16
=============================================================================
