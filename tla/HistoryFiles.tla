---------------------------- MODULE HistoryFiles ----------------------------
(***************************************************************************)
(* querylog/worker.rs (MsgpackFileState, compress_to_gz, prune_old_files,  *)
(* find_resumable_segment, load_index, list_history_files): the segments   *)
(* of the query history, their index sidecars, their compression in the    *)
(* background and their pruning, with crashes and failed writes.           *)
(*                                                                         *)
(* A segment is the number of its creation, which stands for the time in   *)
(* its name.  Sizes are counted in events; a file may also end in a part   *)
(* of an event (torn).  An index is the number of events it covers.        *)
(***************************************************************************)
EXTENDS Integers, Sequences, FiniteSets, SequencesExt

CONSTANTS MaxSize,      \* max_mb: events at which a segment is rotated
          MaxSegments,  \* max_segments
          Compress,     \* compress
          MaxEvents,    \* bound: events appended
          MaxFiles,     \* bound: segments created
          MaxFaults,    \* bound: crashes and failed writes
          MaxAged       \* bound: segments that become older than retention_days

HistoryAssumption == MaxSize \in Nat \ {0} /\ MaxSegments \in Nat /\ Compress \in BOOLEAN

VARIABLES plain,        \* segments with a .msgpack file in the directory
          content, torn,        \* what that file holds, also once it is unlinked
          pidx,         \* its index sidecar
          gz,           \* segments with a .msgpack.gz file
          gzContent, gidx,
          comp,         \* comp[s]: where the compression of s is
          cidx,         \* the index the compression of s has loaded
          wpc,          \* the worker
          act,          \* the active segment, or NoSegment
          buf,          \* events in the BufWriter
          idx, dirty,   \* the active segment's index in memory
          victims,      \* files prune_old_files has still to remove
          next,         \* the next segment's name
          cutoff,       \* segments before it are older than the retention
          appended, faults,
          flushed,      \* history: flushed[s]: events flushed to s
          pruned        \* history: segments prune_old_files has removed

files == <<plain, content, torn, pidx, gz, gzContent, gidx>>
compressor == <<comp, cidx>>
active == <<act, buf, idx, dirty>>
bounds == <<appended, faults>>
vars == <<files, compressor, wpc, active, victims, next, cutoff, bounds, flushed, pruned>>

Segments == 1..MaxFiles
NoSegment == 0
NoIndex == -1
BadIndex == -2      \* a sidecar that was cut short

TypeOK ==
    /\ plain \subseteq Segments /\ gz \subseteq Segments
    /\ wpc \in {"idle", "flush", "index", "rotate", "prune"}
    /\ act \in {NoSegment} \cup Segments /\ next \in 1..MaxFiles + 1
    /\ \A s \in Segments : /\ pidx[s] \in {NoIndex, BadIndex} \cup 0..MaxEvents
                           /\ Len(content[s]) <= MaxSize /\ gidx[s] >= NoIndex

Init ==
    /\ plain = {} /\ gz = {}
    /\ content = [s \in Segments |-> <<>>] /\ gzContent = content
    /\ torn = [s \in Segments |-> FALSE]
    /\ pidx = [s \in Segments |-> NoIndex] /\ gidx = pidx
    /\ comp = [s \in Segments |-> "none"] /\ cidx = pidx
    /\ wpc = "idle" /\ act = NoSegment /\ buf = <<>> /\ idx = 0 /\ dirty = FALSE
    /\ victims = <<>> /\ next = 1 /\ cutoff = 1 /\ appended = 0 /\ faults = 0
    /\ flushed = [s \in Segments |-> <<>>] /\ pruned = {}

-----------------------------------------------------------------------------
(* Indexes and pruning *)

\* load_index: the sidecar must cover the whole file.
IndexLoads(s) == pidx[s] >= 0 /\ pidx[s] = Len(content[s]) /\ ~torn[s]

\* find_resumable_segment: the newest plain segment, below the threshold.
Newest == CHOOSE s \in plain : \A t \in plain : t <= s
Resumable == plain # {} /\ IndexLoads(Newest) /\ Len(content[Newest]) < MaxSize

\* Both forms of a segment are files of their own; the plain one comes first.
AllNames == [i \in 1..2 * MaxFiles |-> <<(i + 1) \div 2, IF i % 2 = 1 THEN "plain" ELSE "gz">>]
Present(p, g) == SelectSeq(AllNames, LAMBDA f : f[1] \in IF f[2] = "plain" THEN p ELSE g)
\* prune_old_files with plain segments p in the directory: what is too old, and of
\* the rest all but the max_segments most recent.
Victims(p, g) ==
    LET old == SelectSeq(Present(p, g), LAMBDA f : f[1] < cutoff)
        keep == SelectSeq(Present(p, g), LAMBDA f : f[1] >= cutoff)
        max == IF MaxSegments = 0 THEN 1 ELSE MaxSegments
    IN old \o SubSeq(keep, 1, Len(keep) - max)
Removes(vs, g) == {s \in Segments : <<s, "gz">> \in ToSet(vs)
                                    \/ (<<s, "plain">> \in ToSet(vs) /\ s \notin g)}

-----------------------------------------------------------------------------
(* The worker *)

\* MsgpackFileState::open, at the start and after an error.
Open ==
    /\ wpc = "idle" /\ act = NoSegment /\ (Resumable \/ next <= MaxFiles)
    /\ act' = IF Resumable THEN Newest ELSE next
    /\ idx' = IF Resumable THEN pidx[Newest] ELSE 0
    /\ next' = IF Resumable THEN next ELSE next + 1
    /\ plain' = plain \cup {act'} /\ buf' = <<>> /\ dirty' = FALSE
    /\ victims' = Victims(plain', gz) /\ pruned' = pruned \cup Removes(victims', gz)
    /\ wpc' = "prune"
    /\ UNCHANGED <<content, torn, pidx, gz, gzContent, gidx, compressor, cutoff, bounds, flushed>>

\* append_batch of one event.
AppendEvent ==
    /\ wpc = "idle" /\ act # NoSegment /\ appended < MaxEvents
    /\ appended' = appended + 1 /\ buf' = Append(buf, appended')
    /\ idx' = idx + 1 /\ dirty' = TRUE
    /\ wpc' = IF Len(content[act]) + Len(buf') >= MaxSize THEN "flush" ELSE "idle"
    /\ UNCHANGED <<files, compressor, act, victims, next, cutoff, faults, flushed, pruned>>
FlushTick ==
    /\ wpc = "idle" /\ act # NoSegment /\ wpc' = "flush"
    /\ UNCHANGED <<files, compressor, active, victims, next, cutoff, bounds, flushed, pruned>>

\* The buffer reaches the file: a part of it when it is full, all of it in flush.
Put(n, part) ==
    /\ content' = [content EXCEPT ![act] = @ \o SubSeq(buf, 1, n)]
    /\ torn' = [torn EXCEPT ![act] = IF n > 0 THEN part ELSE @ \/ part]
Spill ==
    /\ wpc = "idle" /\ act # NoSegment
    /\ \E n \in 0..Len(buf) - 1, part \in BOOLEAN :
          Put(n, part) /\ buf' = SubSeq(buf, n + 1, Len(buf))
    /\ UNCHANGED <<plain, pidx, gz, gzContent, gidx, compressor, wpc, act, idx, dirty, victims,
                   next, cutoff, bounds, flushed, pruned>>
FlushData ==
    /\ wpc = "flush" /\ wpc' = "index"
    /\ content' = [content EXCEPT ![act] = @ \o buf] /\ torn' = [torn EXCEPT ![act] = FALSE]
    /\ buf' = <<>> /\ flushed' = [flushed EXCEPT ![act] = content'[act]]
    /\ UNCHANGED <<plain, pidx, gz, gzContent, gidx, compressor, act, idx, dirty, victims, next,
                   cutoff, bounds, pruned>>
FlushIndex ==
    /\ wpc = "index" /\ wpc' = IF Len(content[act]) >= MaxSize THEN "rotate" ELSE "idle"
    /\ pidx' = IF dirty THEN [pidx EXCEPT ![act] = idx] ELSE pidx
    /\ dirty' = FALSE
    /\ UNCHANGED <<plain, content, torn, gz, gzContent, gidx, compressor, act, buf, idx, victims,
                   next, cutoff, bounds, flushed, pruned>>

\* rotate: the compression is started, a fresh segment opened, old ones pruned.
Rotate ==
    /\ wpc = "rotate" /\ next <= MaxFiles
    /\ comp' = IF Compress THEN [comp EXCEPT ![act] = "start"] ELSE comp
    /\ act' = next /\ next' = next + 1 /\ plain' = plain \cup {next}
    /\ buf' = <<>> /\ dirty' = FALSE /\ idx' = 0
    /\ victims' = Victims(plain', gz) /\ pruned' = pruned \cup Removes(victims', gz)
    /\ wpc' = "prune"
    /\ UNCHANGED <<content, torn, pidx, gz, gzContent, gidx, cidx, cutoff, bounds, flushed>>

\* remove_segment: the file and its sidecar.
RemoveVictim ==
    /\ wpc = "prune" /\ victims # <<>> /\ victims' = Tail(victims)
    /\ LET s == Head(victims)[1]
       IN IF Head(victims)[2] = "plain"
          THEN /\ plain' = plain \ {s} /\ pidx' = [pidx EXCEPT ![s] = NoIndex]
               /\ UNCHANGED <<gz, gidx>>
          ELSE /\ gz' = gz \ {s} /\ gidx' = [gidx EXCEPT ![s] = NoIndex]
               /\ UNCHANGED <<plain, pidx>>
    /\ UNCHANGED <<content, torn, gzContent, compressor, wpc, active, next, cutoff, bounds,
                   flushed, pruned>>
EndOfPrune ==
    /\ wpc = "prune" /\ victims = <<>> /\ wpc' = "idle"
    /\ UNCHANGED <<files, compressor, active, victims, next, cutoff, bounds, flushed, pruned>>

-----------------------------------------------------------------------------
(* compress_to_gz *)

StartCompress(s) ==
    /\ comp[s] = "start"
    /\ cidx' = [cidx EXCEPT ![s] = IF IndexLoads(s) THEN pidx[s] ELSE NoIndex]
    /\ comp' = [comp EXCEPT ![s] = IF s \in plain THEN "tmp" ELSE "none"]
    /\ UNCHANGED <<files, wpc, active, victims, next, cutoff, bounds, flushed, pruned>>
RenameData(s) ==
    /\ comp[s] = "tmp" /\ comp' = [comp EXCEPT ![s] = "renamed"]
    /\ gz' = gz \cup {s} /\ gzContent' = [gzContent EXCEPT ![s] = content[s]]
    /\ UNCHANGED <<plain, content, torn, pidx, gidx, cidx, wpc, active, victims, next, cutoff,
                   bounds, flushed, pruned>>
RenameIndex(s) ==
    /\ comp[s] = "renamed" /\ comp' = [comp EXCEPT ![s] = "indexed"]
    /\ gidx' = IF cidx[s] > 0 THEN [gidx EXCEPT ![s] = cidx[s]] ELSE gidx
    /\ UNCHANGED <<plain, content, torn, pidx, gz, gzContent, cidx, wpc, active, victims, next,
                   cutoff, bounds, flushed, pruned>>
\* Mutant: the plain file goes before the compressed one is in place.
RemovePlainFirst(s) ==
    /\ comp[s] \in {"tmp", "indexed"} /\ plain' = plain \ {s}
    /\ comp' = [comp EXCEPT ![s] = IF @ = "tmp" THEN "tmp" ELSE "none"]
    /\ UNCHANGED <<content, torn, pidx, gz, gzContent, gidx, cidx, wpc, active, victims, next,
                   cutoff, bounds, flushed, pruned>>
RemovePlain(s) ==
    /\ comp[s] = "indexed" /\ plain' = plain \ {s}
    /\ comp' = [comp EXCEPT ![s] = IF s \in plain THEN "removed" ELSE "none"]
    /\ UNCHANGED <<content, torn, pidx, gz, gzContent, gidx, cidx, wpc, active, victims, next,
                   cutoff, bounds, flushed, pruned>>
RemovePlainIndex(s) ==
    /\ comp[s] = "removed" /\ pidx' = [pidx EXCEPT ![s] = NoIndex]
    /\ comp' = [comp EXCEPT ![s] = "none"]
    /\ UNCHANGED <<plain, content, torn, gz, gzContent, gidx, cidx, wpc, active, victims, next,
                   cutoff, bounds, flushed, pruned>>
CompressStep(s) == StartCompress(s) \/ RenameData(s) \/ RenameIndex(s) \/ RemovePlain(s)
                   \/ RemovePlainIndex(s)

-----------------------------------------------------------------------------
(* Faults *)

\* A crash ends the worker and the compressions; what was buffered is lost.
Crash ==
    /\ faults < MaxFaults /\ faults' = faults + 1
    /\ wpc' = "idle" /\ act' = NoSegment /\ buf' = <<>> /\ idx' = 0 /\ dirty' = FALSE
    /\ victims' = <<>> /\ comp' = [s \in Segments |-> "none"]
    /\ UNCHANGED <<files, cidx, next, cutoff, appended, flushed, pruned>>
Drop == act' = NoSegment /\ buf' = <<>> /\ idx' = 0 /\ dirty' = FALSE /\ wpc' = "idle"
\* A write fails after a part of the buffer; the file state is dropped.
WriteFails ==
    /\ faults < MaxFaults /\ faults' = faults + 1 /\ wpc = "flush" /\ Drop
    /\ \E n \in 0..Len(buf), part \in BOOLEAN : (n < Len(buf) \/ ~part) /\ Put(n, part)
    /\ UNCHANGED <<plain, pidx, gz, gzContent, gidx, compressor, victims, next, cutoff, appended,
                   flushed, pruned>>
\* The write of the sidecar fails, or the process ends in the middle of it.
IndexFails ==
    /\ faults < MaxFaults /\ faults' = faults + 1 /\ wpc = "index" /\ dirty /\ Drop
    /\ pidx' = [pidx EXCEPT ![act] = BadIndex]
    /\ UNCHANGED <<plain, content, torn, gz, gzContent, gidx, compressor, victims, next, cutoff,
                   appended, flushed, pruned>>
\* rotate cannot open the fresh segment; the compression has been started.
RotateFails ==
    /\ faults < MaxFaults /\ faults' = faults + 1 /\ wpc = "rotate" /\ Drop
    /\ comp' = IF Compress THEN [comp EXCEPT ![act] = "start"] ELSE comp
    /\ UNCHANGED <<files, cidx, victims, next, cutoff, appended, flushed, pruned>>
\* An I/O error ends a compression before its first rename.
CompressFails(s) ==
    /\ faults < MaxFaults /\ faults' = faults + 1 /\ comp[s] = "tmp"
    /\ comp' = [comp EXCEPT ![s] = "none"]
    /\ UNCHANGED <<files, cidx, wpc, active, victims, next, cutoff, appended, flushed, pruned>>
\* Time passes: one more segment is older than the retention.
Age ==
    /\ cutoff <= MaxAged /\ cutoff < next /\ cutoff' = cutoff + 1
    /\ UNCHANGED <<files, compressor, wpc, active, victims, next, bounds, flushed, pruned>>

Idle == wpc \in {"idle", "rotate"} /\ UNCHANGED vars

Worker == Open \/ AppendEvent \/ FlushTick \/ Spill \/ FlushData \/ FlushIndex \/ Rotate
          \/ RemoveVictim \/ EndOfPrune
Fault == Crash \/ WriteFails \/ IndexFails \/ RotateFails \/ Age
         \/ \E s \in Segments : CompressFails(s)
Next == Worker \/ Fault \/ Idle \/ \E s \in Segments : CompressStep(s)

Spec == Init /\ [][Next]_vars

-----------------------------------------------------------------------------
(* list_history_files and read_history_page *)

\* The plain form is left out when the compressed one is there.
Listed == {<<s, "plain">> : s \in plain \ gz} \cup {<<s, "gz">> : s \in gz}
\* Whether by the index or, without a good one, from the start to the first error.
Shown(f) == ToSet(IF f[2] = "gz" THEN gzContent[f[1]] ELSE content[f[1]])

\* Every event that was flushed, in a segment that has not been pruned, is in exactly
\* one listed file: through rotation, compression, failed writes and crashes between
\* any two of their steps.
ListedOnce ==
    \A s \in Segments \ pruned : \A e \in ToSet(flushed[s]) :
        Cardinality({f \in Listed : e \in Shown(f)}) = 1

\* A sidecar that loads describes exactly the events of its file, and so does the
\* index in memory of the active segment, also after a segment was taken up again.
GzIndexLoads(s) == gidx[s] > 0 /\ s \in gz
IndexExact ==
    /\ \A s \in Segments : GzIndexLoads(s) => gidx[s] = Len(gzContent[s])
    /\ act # NoSegment => idx = Len(content[act]) + Len(buf) /\ (torn[act] => buf # <<>>)

\* The segment being written to is in the directory ("Delete compressed segments older
\* than this many days", mod.rs:352).
ActiveKept == act # NoSegment => act \in plain

=============================================================================
