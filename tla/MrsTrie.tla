------------------------------ MODULE MrsTrie ------------------------------
(***************************************************************************)
(* Decoding a .mrs rule-set file (mrs.rs): the header, a list of address   *)
(* ranges, and the succinct trie of domain patterns with its rank and      *)
(* select, walked with an explicit stack.  The zstd stream around it is    *)
(* left out.  A domain is the sequence of its bytes.                       *)
(***************************************************************************)
EXTENDS Integers, Sequences, FiniteSets, SequencesExt, FiniteSetsExt

CONSTANTS Word,       \* bits of a word (64 in the code)
          MrsFiles,   \* the files that may be read
          MaxArray,   \* MAX_ARRAY_BYTES, in elements
          MaxSteps,   \* MAX_DOMAIN_SET_STEPS
          MaxDepth    \* MAX_DOMAIN_SET_DEPTH

Behaviors == {"domain", "ipcidr"}
Words == [0..Word - 1 -> {0, 1}]
NotUtf8 == 0          \* a byte that is no part of a text
Parts == 5            \* header, version, the three arrays (or the ranges)

MrsAssumption ==
    /\ Word \in Nat \ {0} /\ MaxArray \in Nat /\ MaxSteps \in Nat /\ MaxDepth \in Nat
    /\ \A f \in MrsFiles : /\ f.magic \in BOOLEAN /\ f.behavior \in Behaviors
                           /\ f.extra \in Nat /\ f.version \in Nat
                           /\ f.leaves \in Seq(Words) /\ f.bitmap \in Seq(Words)
                           /\ f.labels \in Seq(Nat) /\ f.ranges \in Seq(Nat \X Nat)
                           /\ f.parts \in 0..Parts   \* how much of it there is

VARIABLES file,
          want,       \* the behavior configured for the rule set
          pc,
          stack,      \* the frames of for_each_domain
          current,    \* the bytes from the root to the top frame
          out,        \* what is handed to the caller
          steps,
          entered     \* history: the nodes a frame was pushed for

vars == <<file, want, pc, stack, current, out, steps, entered>>

-----------------------------------------------------------------------------
\* RankBitmap.
None == -1
TotalBits(words) == Len(words) * Word
OnesBelow(word, bit) == Cardinality({b \in 0..bit - 1 : word[b] = 1})
Prefix(words) ==
    [w \in 0..Len(words) |-> Cardinality({x \in (1..w) \X (0..Word - 1) : words[x[1]][x[2]] = 1})]

Get(words, i) == IF i >= TotalBits(words) THEN None ELSE words[i \div Word + 1][i % Word]

Rank1(words, i) ==
    Prefix(words)[i \div Word]
      + IF i \div Word < Len(words) THEN OnesBelow(words[i \div Word + 1], i % Word) ELSE 0

Rank0(words, i) == i - Rank1(words, i)

Select1InWord(word, k) ==
    LET at == {b \in 0..Word - 1 : word[b] = 1 /\ OnesBelow(word, b) = k}
    IN IF at = {} THEN None ELSE Min(at)

\* select1: the last word that has no more than k set bits before it.
Select1(words, k) ==
    LET prefix == Prefix(words)
        idx == Cardinality({w \in 0..Len(words) : prefix[w] <= k}) - 1
        within == IF idx < Len(words)
                  THEN Select1InWord(words[idx + 1], k - prefix[idx]) ELSE None
    IN IF within = None THEN None ELSE idx * Word + within

-----------------------------------------------------------------------------
\* read_header, with the comparison of the behavior.
HeaderOk == file.parts >= 1 /\ file.magic /\ file.extra <= MaxArray /\ file.behavior = want

\* DomainSet::read_from.
DomainsOk ==
    /\ file.parts = Parts /\ file.version = 1
    /\ {Len(file.leaves), Len(file.bitmap), Len(file.labels)} \subseteq 1..MaxArray
\* The rest of decode_ipcidr_ranges.
RangesOk == file.parts = Parts /\ file.version = 1 /\ Len(file.ranges) <= MaxArray
Readable == HeaderOk /\ IF want = "domain" THEN DomainsOk ELSE RangesOk

Init ==
    /\ file \in MrsFiles /\ want \in Behaviors
    /\ pc = "open" /\ stack = <<>> /\ current = <<>> /\ out = <<>> /\ steps = 0 /\ entered = <<0>>

Refuse ==
    /\ pc = "open" /\ ~Readable
    /\ pc' = "err"
    /\ UNCHANGED <<file, want, stack, current, out, steps, entered>>
OpenDomains ==
    /\ pc = "open" /\ want = "domain" /\ Readable
    /\ pc' = "walk" /\ stack' = <<[node |-> 0, bm |-> 0, restore |-> 0]>>
    /\ UNCHANGED <<file, want, current, out, steps, entered>>
OpenRanges ==
    /\ pc = "open" /\ want = "ipcidr" /\ Readable
    /\ pc' = "done" /\ out' = file.ranges
    /\ UNCHANGED <<file, want, stack, current, steps, entered>>

-----------------------------------------------------------------------------
\* for_each_domain: one action for each turn of its loop.
Top == Last(stack)
Bit == Get(file.bitmap, Top.bm)
LabelIdx == Top.bm - Top.node
Child == Rank0(file.bitmap, Top.bm + 1)
ChildBits == Select1(file.bitmap, Child - 1) + 1
Spelled == Append(current, file.labels[LabelIdx + 1])
IsLeaf(node) == Get(file.leaves, node) = 1

CanDescend ==
    /\ LabelIdx \in 0..Len(file.labels) - 1
    /\ Child >= 1 /\ Select1(file.bitmap, Child - 1) # None
    /\ Get(file.leaves, Child) # None
    /\ IsLeaf(Child) => NotUtf8 \notin Range(Spelled)
    /\ Len(stack) < MaxDepth

Ascend ==
    /\ pc = "walk" /\ stack # <<>> /\ steps < MaxSteps /\ Bit = 1
    /\ steps' = steps + 1
    /\ current' = SubSeq(current, 1, Top.restore) /\ stack' = Front(stack)
    /\ UNCHANGED <<file, want, pc, out, entered>>

Descend ==
    /\ pc = "walk" /\ stack # <<>> /\ steps < MaxSteps /\ Bit = 0 /\ CanDescend
    /\ steps' = steps + 1
    /\ current' = Spelled
    /\ out' = IF IsLeaf(Child) THEN Append(out, Reverse(Spelled)) ELSE out
    /\ stack' = Append([stack EXCEPT ![Len(stack)].bm = @ + 1],
                       [node |-> Child, bm |-> ChildBits, restore |-> Len(current)])
    /\ entered' = Append(entered, Child)
    /\ UNCHANGED <<file, want, pc>>

\* An index out of range or a limit: the patterns found so far are dropped.
GiveUp ==
    /\ pc = "walk" /\ stack # <<>>
    /\ ~(steps < MaxSteps /\ Bit # None /\ (Bit = 0 => CanDescend))
    /\ pc' = "err" /\ out' = <<>>
    /\ UNCHANGED <<file, want, stack, current, steps, entered>>

Finish ==
    /\ pc = "walk" /\ stack = <<>>
    /\ pc' = "done"
    /\ UNCHANGED <<file, want, stack, current, out, steps, entered>>

Idle == pc \in {"done", "err"} /\ UNCHANGED vars

Walk == Ascend \/ Descend \/ GiveUp \/ Finish
Next == Refuse \/ OpenDomains \/ OpenRanges \/ Walk \/ Idle

Spec == Init /\ [][Next]_vars

-----------------------------------------------------------------------------
\* A file as mihomo writes it: the nodes of the trie over the reversed patterns in
\* breadth-first order, a clear bit for each child and a set bit after them.
Nodes(S) == {<<>>} \cup UNION {Prefixes(s) : s \in S}
Earlier(a, b) ==
    \/ Len(a) < Len(b)
    \/ Len(a) = Len(b) /\ \E i \in DOMAIN a : a[i] < b[i] /\ \A j \in 1..i - 1 : a[j] = b[j]
Packed(bits) ==
    [w \in 1..(Len(bits) + Word - 1) \div Word |->
        [b \in 0..Word - 1 |-> LET i == (w - 1) * Word + b + 1
                               IN IF i <= Len(bits) THEN bits[i] ELSE 0]]
Encode(S) ==
    LET keys == {Reverse(s) : s \in S}
        all == Nodes(keys)
        nodes == SortSeq(FoldSet(LAMBDA n, seq : Append(seq, n), <<>>, all), Earlier)
        Kids(n) == Cardinality({m \in all : m # <<>> /\ Front(m) = n})
        bits == FlattenSeq([i \in DOMAIN nodes |-> [j \in 1..Kids(nodes[i]) + 1 |->
                               IF j <= Kids(nodes[i]) THEN 0 ELSE 1]])
        labels == [i \in 1..Len(nodes) - 1 |-> Last(nodes[i + 1])]
    IN [magic |-> TRUE, behavior |-> "domain", extra |-> 0, version |-> 1, parts |-> Parts,
        leaves |-> Packed([i \in DOMAIN nodes |-> IF nodes[i] \in keys THEN 1 ELSE 0]),
        bitmap |-> Packed(bits), labels |-> labels, ranges |-> <<>>, stored |-> S]

-----------------------------------------------------------------------------
\* What is read from a file that mihomo wrote is what was stored in it, each pattern
\* once; a file that is whole, and of the configured behavior, is never refused, and any
\* other one never read in part (decode_domain_patterns, decode_ipcidr_ranges).
ReadsWhatWasStored ==
    LET whole == file.parts = Parts /\ file.magic /\ file.version = 1 /\ file.extra <= MaxArray
                    /\ file.behavior = want /\ (want = "domain" => file.stored # {})
    IN /\ pc = "done" /\ want = "domain" => /\ whole /\ Range(out) = file.stored
                                            /\ Len(out) = Cardinality(file.stored)
       /\ pc = "done" /\ want = "ipcidr" => whole /\ out = file.ranges
       /\ pc = "err" => ~whole /\ out = <<>>

\* rank1, rank0 and select1 agree with counting bits, whatever the words: empty words
\* before, between and after the set bits included (RankBitmap).
RankSelectExact ==
    LET words == file.bitmap
        Ones(i) == {p \in 0..i - 1 : words[p \div Word + 1][p % Word] = 1}
    IN pc = "open" =>
       /\ \A i \in 0..TotalBits(words) : /\ Rank1(words, i) = Cardinality(Ones(i))
                                         /\ Rank0(words, i) = i - Cardinality(Ones(i))
       /\ \A k \in 0..TotalBits(words) :
              LET at == {p \in Ones(TotalBits(words)) : Cardinality(Ones(p)) = k}
              IN Select1(words, k) = IF at = {} THEN None ELSE Min(at)

\* Whatever the bitmap, the walk enters no node twice, and each frame lies behind the one
\* below it, so that even a bitmap that is no tree is walked in linear time
\* (MAX_DOMAIN_SET_STEPS, "visits each edge encoded in `labels` at most twice").
NoNodeTwice ==
    /\ \A i, j \in DOMAIN entered : i # j => entered[i] # entered[j]
    /\ \A i \in 1..Len(stack) - 1 : /\ stack[i].bm <= stack[i + 1].bm
                                     /\ stack[i].node < stack[i + 1].node
    /\ steps <= 2 * Len(entered)

\* The stack spells the pattern: one byte for each frame above the root, within the limit
\* (MAX_DOMAIN_SET_DEPTH), and a label's index never underflows.
StackSpells ==
    /\ Len(stack) <= MaxDepth
    /\ stack # <<>> => Len(current) = Len(stack) - 1 /\ LabelIdx >= 0
    /\ \A i \in 1..Len(stack) : stack[i].restore = IF i = 1 THEN 0 ELSE i - 2

=============================================================================
