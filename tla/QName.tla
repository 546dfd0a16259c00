------------------------------- MODULE QName --------------------------------
(***************************************************************************)
(* The question of a query, which the server reads five times over:        *)
(* parse_query_fast checks and hashes it, question_end and skip_name find  *)
(* its end again, qname_from_question makes the text that is routed,       *)
(* questions_match compares it with a cached or received one, and          *)
(* encode_dns_name writes one.  A question is a sequence of bytes, the     *)
(* routed text a sequence of characters; the limits of 63 and 255 bytes    *)
(* and the length of type and class are constants.  The bytes beyond ASCII *)
(* are those that UTF-8 never uses, so that each of them is read as one    *)
(* replacement character.                                                  *)
(***************************************************************************)
EXTENDS Integers, Sequences, FiniteSets, SequencesExt

CONSTANTS MaxLabel, MaxName, TailLen,
          Upper, Lower, Dot,    \* a letter in either case, and the dot, as bytes
          Packets,              \* packets from their question on
          Texts                 \* names as they are written in the configuration

Pointer == 192
Malformed == {192, 193} \cup 245..255     \* bytes that occur in no UTF-8 text
Replacement == 65533
Heads == {"query", "reply", "opcode", "qdcount"}

QNameAssumption ==
    /\ {MaxLabel, MaxName, TailLen} \subseteq Nat \ {0}
    /\ MaxLabel < Upper /\ MaxLabel < Lower /\ Upper < Pointer /\ Lower < Pointer
    /\ Packets \subseteq Seq(0..127 \cup Malformed) /\ Texts \subseteq Seq({Upper, Lower, Dot})

VARIABLES head, packet,
          info,         \* what parse_query_fast returns
          qname,        \* the routing name, once a consumer asked for it
          text, wire,   \* a name to encode, and its encoding
          pc

vars == <<head, packet, info, qname, text, wire, pc>>

ToLower(b) == IF b = Upper THEN Lower ELSE b
ToLowerSeq(s) == [i \in DOMAIN s |-> ToLower(s[i])]
Label(p, pos) == SubSeq(p, pos + 1, pos + p[pos])

-----------------------------------------------------------------------------
(* parse_query_fast *)

Refused == [ok |-> FALSE, end |-> 0, hashed |-> <<>>]

\* skip_query_question from the length byte at pos; hashed is what the hash has been fed.
RECURSIVE SkipQuestion(_, _, _)
SkipQuestion(p, pos, hashed) ==
    IF pos > Len(p) THEN Refused
    ELSE IF p[pos] = 0
    THEN IF pos + TailLen > Len(p) THEN Refused
         ELSE [ok |-> TRUE, end |-> pos + TailLen, hashed |-> Append(hashed, 0)]
    ELSE IF p[pos] > MaxLabel \/ pos + p[pos] > Len(p) \/ pos + p[pos] + 1 > MaxName
    THEN Refused
    ELSE SkipQuestion(p, pos + p[pos] + 1, Append(hashed, p[pos]) \o ToLowerSeq(Label(p, pos)))

ParseQueryFast(h, p) == IF h = "query" THEN SkipQuestion(p, 1, <<>>) ELSE Refused

-----------------------------------------------------------------------------
(* The other readers *)

\* skip_name gives the position behind a name, compressed or not, 0 if there is none.
RECURSIVE SkipName(_, _)
SkipName(p, pos) ==
    IF pos > Len(p) THEN 0
    ELSE IF p[pos] = 0 THEN pos + 1
    ELSE IF p[pos] >= Pointer THEN IF pos + 1 > Len(p) THEN 0 ELSE pos + 2
    ELSE IF p[pos] > MaxLabel \/ pos + p[pos] > Len(p) THEN 0
    ELSE SkipName(p, pos + p[pos] + 1)

QuestionEnd(p) ==
    LET end == SkipName(p, 1)
    IN IF end = 0 \/ end + TailLen - 1 > Len(p) THEN 0 ELSE end + TailLen - 1

\* The characters of a label: what is not UTF-8 becomes the replacement character.
LabelText(l) ==
    [i \in DOMAIN l |-> IF l[i] \in Malformed THEN Replacement ELSE ToLower(l[i])]

\* qname_from_question joins the labels with dots, whatever is in them; Failed is its error.
Failed == <<-1>>
RECURSIVE QNameFrom(_, _, _, _)
QNameFrom(p, pos, end, name) ==
    IF pos > Len(p) \/ pos > end THEN name
    ELSE IF p[pos] = 0 THEN name
    ELSE IF p[pos] > MaxLabel \/ pos + p[pos] > end THEN Failed
    ELSE LET joint == IF name = <<>> THEN <<>> ELSE <<Dot>>
         IN QNameFrom(p, pos + p[pos] + 1, end, name \o joint \o LabelText(Label(p, pos)))

\* questions_match walks the names of two questions from pos on.
TypeClass(q) == SubSeq(q, Len(q) - TailLen + 1, Len(q))
RECURSIVE NamesMatch(_, _, _)
NamesMatch(a, b, pos) ==
    /\ pos <= Len(a) - TailLen + 1 /\ pos <= Len(a)
    /\ a[pos] = b[pos]
    /\ \/ a[pos] = 0
       \/ /\ pos + a[pos] <= Len(a)
          /\ \A i \in pos + 1 .. pos + a[pos] : ToLower(a[i]) = ToLower(b[i])
          /\ NamesMatch(a, b, pos + a[pos] + 1)
QuestionsMatch(a, b) ==
    /\ Len(a) = Len(b) /\ Len(a) >= TailLen
    /\ TypeClass(a) = TypeClass(b)
    /\ NamesMatch(a, b, 1)

-----------------------------------------------------------------------------
(* encode_dns_name *)

\* The text without the dots at its end.
Trimmed(t) ==
    LET n == CHOOSE n \in 0..Len(t) : /\ \A i \in n + 1 .. Len(t) : t[i] = Dot
                                      /\ n = 0 \/ t[n] # Dot
    IN SubSeq(t, 1, n)

\* The labels between the dots.
RECURSIVE Split(_)
Split(t) == IF \A i \in DOMAIN t : t[i] # Dot THEN <<t>>
            ELSE LET n == CHOOSE n \in DOMAIN t : t[n] = Dot /\ \A i \in 1..n - 1 : t[i] # Dot
                 IN <<SubSeq(t, 1, n - 1)>> \o Split(SubSeq(t, n + 1, Len(t)))

WireLen(labels) == 1 + Len(FlattenSeq(labels)) + Len(labels)
Wire(labels) == Append(FlattenSeq([i \in DOMAIN labels |-> <<Len(labels[i])>> \o labels[i]]), 0)
NoWire == <<>>
Encode(t) ==
    LET labels == Split(Trimmed(t))
    IN IF Trimmed(t) = <<>> THEN <<0>>
       ELSE IF \/ \E i \in DOMAIN labels : Len(labels[i]) \notin 1..MaxLabel
               \/ WireLen(labels) > MaxName
       THEN NoWire
       ELSE Wire(labels)

-----------------------------------------------------------------------------
Init ==
    /\ \/ head = "none" /\ packet = <<>> /\ text \in Texts /\ pc = "text"
       \/ head \in Heads /\ packet \in Packets /\ text = <<>> /\ pc = "packet"
    /\ info = Refused /\ qname = <<>> /\ wire = NoWire

Receive ==
    /\ pc = "packet"
    /\ info' = ParseQueryFast(head, packet)
    /\ pc' = IF info'.ok THEN "parsed" ELSE "refused"
    /\ UNCHANGED <<head, packet, qname, text, wire>>

\* ensure_qname: a failure would make the name empty.
EnsureQName ==
    /\ pc = "parsed" /\ pc' = "named"
    /\ qname' = QNameFrom(packet, 1, info.end, <<>>)
    /\ UNCHANGED <<head, packet, info, text, wire>>

EncodeName ==
    /\ pc = "text" /\ pc' = "encoded"
    /\ wire' = Encode(text)
    /\ UNCHANGED <<head, packet, info, qname, text>>

Idle == pc \in {"refused", "named", "encoded"} /\ UNCHANGED vars
Next == Receive \/ EnsureQName \/ EncodeName \/ Idle
Spec == Init /\ [][Next]_vars

-----------------------------------------------------------------------------
\* What a name is: labels of legal length, their encoding within the limit.
Names(bytes) ==
    LET labels == UNION {[1..n -> bytes] : n \in 1..MaxLabel}
    IN {ls \in UNION {[1..n -> labels] : n \in 0..MaxName \div 2} : WireLen(ls) <= MaxName}
AllNames == Names({0, 1, 2, Upper, Lower, Dot, Pointer})
LowerLabels(ls) == [i \in DOMAIN ls |-> ToLowerSeq(ls[i])]
\* The text of a name: every label but the first follows a dot.
Written(ls) ==
    FlattenSeq([i \in DOMAIN ls |-> IF i = 1 THEN LabelText(ls[i])
                                   ELSE <<Dot>> \o LabelText(ls[i])])

\* "`qname_from_question` cannot fail here" (resolver.rs:97): a packet is accepted exactly
\* when it is a query that starts with a legal name and has room for type and class; then
\* every reader finds the same end, the hash is fed the whole name in lower case, and the
\* routing name is the lossy text of that name, with a dot between labels
\* (parse_query_fast, question_end, qname_from_question).
ReadersAgree ==
    LET Reads(ls) == IsPrefix(Wire(ls), packet) /\ WireLen(ls) + TailLen <= Len(packet)
    IN /\ pc = "refused" => head # "query" \/ ~\E ls \in AllNames : Reads(ls)
       /\ pc = "named" => \E ls \in AllNames :
              /\ head = "query" /\ Reads(ls) /\ info.end = WireLen(ls) + TailLen
              /\ QuestionEnd(packet) = info.end
              /\ info.hashed = Wire(LowerLabels(ls))
              /\ qname = Written(ls)

\* Two accepted questions match exactly when they are fed to the hash alike and end in the
\* same type and class, so the key of the cache and its comparison draw the same line; the
\* question of a response that matches an accepted one is the same name, not a pointer
\* (questions_match).
Question(p, end) == SubSeq(p, 1, end)
Questions == {Question(p, QuestionEnd(p)) : p \in {p \in Packets : QuestionEnd(p) # 0}}
MatchExact ==
    pc = "parsed" =>
        LET a == Question(packet, info.end)
        IN \A b \in Questions :
               LET other == ParseQueryFast("query", b)
               IN QuestionsMatch(a, b) <=> /\ other.ok /\ other.hashed = info.hashed
                                           /\ TypeClass(a) = TypeClass(b)

\* Whether a label of the accepted question p, from its length byte at pos on, holds a dot.
RECURSIVE DotInLabel(_, _)
DotInLabel(p, pos) ==
    p[pos] # 0 /\ (Dot \in Range(Label(p, pos)) \/ DotInLabel(p, pos + p[pos] + 1))

\* The name that chooses the server and the name that chooses the cache entry tell the same
\* questions apart, but for two blind spots of the text: a label that holds a dot reads like
\* two labels, and bytes that are not UTF-8 all read alike.  So a name without either shares
\* its route, and its verdict, only with a name that has a dot inside a label
\* (qname_from_question against skip_query_question).
RoutedApart ==
    pc = "named" =>
        \A b \in Questions :
            LET other == ParseQueryFast("query", b)
                routed == QNameFrom(b, 1, other.end, <<>>)
            IN other.ok =>
                   /\ other.hashed = info.hashed => routed = qname
                   /\ routed = qname /\ other.hashed # info.hashed =>
                          \/ DotInLabel(packet, 1) \/ DotInLabel(b, 1)
                          \/ Replacement \in Range(qname)

\* What is encoded is accepted and read back as the text it was, and only what no query
\* could carry is refused: the limits of encode_dns_name and of parse_query_fast are one.
EncodedIsRead ==
    pc = "encoded" =>
        LET labels == IF Trimmed(text) = <<>> THEN <<>> ELSE Split(Trimmed(text))
            whole == Wire(labels) \o [i \in 1..TailLen |-> 1]
            read == ParseQueryFast("query", whole)
        IN IF wire = NoWire
           THEN ~read.ok \/ \E i \in DOMAIN labels : labels[i] = <<>>
           ELSE /\ read.ok /\ wire = Wire(labels)
                /\ QNameFrom(whole, 1, read.end, <<>>) = ToLowerSeq(Trimmed(text))
=============================================================================
