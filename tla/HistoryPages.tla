---------------------------- MODULE HistoryPages ----------------------------
(***************************************************************************)
(* querylog/worker.rs (HistoryIndex::append_batch, read_history_page):     *)
(* reading a segment page by page, through its sparse index or, while the  *)
(* index does not load, from its start; the segment may grow meanwhile.    *)
(*                                                                         *)
(* An event is its time and whether it matches the query's other filters.  *)
(* Ordinals count from 0.                                                  *)
(***************************************************************************)
EXTENDS Integers, Sequences, SequencesExt

CONSTANTS Times,        \* times of events and of queries
          Stride,       \* HISTORY_INDEX_STRIDE
          Limits,       \* page sizes
          MaxScan,      \* records a filtered read without index looks at
          MaxEvents,    \* bound: events in the segment
          BatchSizes,
          InOrder       \* events are written in the order of their times

VARIABLES events, blocks, query, walk, cursor, shown, seen

vars == <<events, blocks, query, walk, cursor, shown, seen>>

Unset == -1
Queries == [from : Times \cup {Unset}, to : Times \cup {Unset}, filter : BOOLEAN, limit : Limits]
Total == Len(events)
NoQuery == [from |-> Unset, to |-> Unset, filter |-> FALSE, limit |-> 1]

Init == /\ events = <<>> /\ blocks = <<>> /\ query = NoQuery /\ walk = "none"
        /\ cursor = Unset /\ shown = <<>> /\ seen = 0

-----------------------------------------------------------------------------
(* HistoryIndex::append_batch *)

NewBlock(bs, batch) ==
    Append(bs, [first |-> Total, n |-> Len(batch), start |-> batch[1].t, end |-> Last(batch).t])
Indexed(bs, batch) ==
    IF bs # <<>> /\ Last(bs).n + Len(batch) <= Stride
    THEN [bs EXCEPT ![Len(bs)].n = @ + Len(batch), ![Len(bs)].end = Last(batch).t]
    ELSE NewBlock(bs, batch)

AppendBatch ==
    \E n \in BatchSizes : \E batch \in [1..n -> [t : Times, m : BOOLEAN]] :
        /\ Total + n <= MaxEvents
        /\ events' = events \o batch
        /\ InOrder => \A i \in 1..Total + n - 1 : events'[i].t <= events'[i + 1].t
        /\ blocks' = Indexed(blocks, batch)
        /\ UNCHANGED <<query, walk, cursor, shown, seen>>

-----------------------------------------------------------------------------
(* Pages: what is shown, the next cursor, or Unset when there is no more *)

EventMatches(e, q) == /\ q.from = Unset \/ e.t >= q.from
                      /\ q.to = Unset \/ e.t <= q.to
                      /\ q.filter => e.m
\* The matching ordinals among ords, cut at the limit; the next one is the cursor.
Cut(ords, q) ==
    LET hits == SelectSeq(ords, LAMBDA o : EventMatches(events[o + 1], q))
    IN IF Len(hits) > q.limit
       THEN [hits |-> SubSeq(hits, 1, q.limit), next |-> hits[q.limit + 1]]
       ELSE [hits |-> hits, next |-> Unset]
Upto(a, b) == [i \in 1..(IF a < b THEN b - a ELSE 0) |-> a + i - 1]

\* read_indexed_history_page
StartsIn(q, b) == q.from = Unset \/ b.end >= q.from
FirstCandidate(q) ==
    LET in == SelectSeq(blocks, LAMBDA b : StartsIn(q, b))
    IN IF in = <<>> THEN Total ELSE in[1].first
\* Blocks up to the first, not skipped before, that starts after the window.
Blocks(q, c) ==
    LET reached == SelectSeq(blocks, LAMBDA b : b.first + b.n > c /\ StartsIn(q, b))
        past == {i \in DOMAIN reached : q.to # Unset /\ reached[i].start > q.to}
    IN IF past = {} THEN reached
       ELSE SubSeq(reached, 1, (CHOOSE i \in past : \A j \in past : i <= j) - 1)
IndexedPage(q, c0) ==
    LET first == FirstCandidate(q)
        c == IF c0 = Unset \/ c0 < first THEN first ELSE c0
    IN Cut(SelectSeq(FlattenSeq([i \in DOMAIN Blocks(q, c) |->
                         Upto(Blocks(q, c)[i].first, Blocks(q, c)[i].first + Blocks(q, c)[i].n)]),
                     LAMBDA o : o >= c), q)

\* read_legacy_history_page
Filtered(q) == q.filter \/ q.from # Unset \/ q.to # Unset
LegacyPage(q, c0) ==
    LET c == IF c0 = Unset THEN 0 ELSE c0
        end == IF Filtered(q) /\ c + MaxScan < Total THEN c + MaxScan ELSE Total
    IN Cut(Upto(c, end), q)

Ask ==
    /\ walk # "reading" /\ query' \in Queries /\ walk' = "reading"
    /\ cursor' = Unset /\ shown' = <<>> /\ UNCHANGED <<events, blocks, seen>>
\* read_history_page: without an index that loads, from the start.
ReadPage ==
    /\ walk = "reading"
    /\ \E p \in {IndexedPage(query, cursor), LegacyPage(query, cursor)} :
          /\ shown' = shown \o p.hits /\ cursor' = p.next
          /\ walk' = IF p.next = Unset THEN "end" ELSE "reading"
    /\ seen' = Total /\ UNCHANGED <<events, blocks, query>>

Next == AppendBatch \/ Ask \/ ReadPage
Spec == Init /\ [][Next]_vars

-----------------------------------------------------------------------------
\* Following the cursor to the end shows every matching event of the segment exactly
\* once and in order, with the index or without, while events are appended between
\* the pages ("Skip blocks outside the requested time window.", worker.rs:854;
\* "Legacy files remain readable through a sequential fallback", worker.rs:811).
WalkComplete ==
    walk = "end" =>
        shown = SelectSeq(Upto(0, seen), LAMBDA o : EventMatches(events[o + 1], query))
=============================================================================
