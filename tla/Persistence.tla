---------------------------- MODULE Persistence ----------------------------
(***************************************************************************)
(* Saving and loading the two caches: atomic_write (persist.rs), the save  *)
(* task and the save at shutdown (lib.rs), and the load at startup         *)
(* (AppState::new), through kills of the process and losses of power, with *)
(* the configuration edited and reloaded meanwhile.                        *)
(*                                                                         *)
(* An entry is represented by the configuration it was produced under.     *)
(* Its lifetime is CacheTtl.                                               *)
(***************************************************************************)
EXTENDS Integers, FiniteSets

CONSTANTS MaxWork,      \* bound on edits and on saves of both caches, taken together
          MaxRuns,      \* bound on starts of the process
          MaxFill       \* bound on queries between their generation check and the insert

ASSUME PersistenceAssumption ==
    MaxWork \in Nat /\ MaxRuns \in Nat /\ MaxFill \in Nat

VARIABLES disk,         \* config.json and the ruleset files: a version of each
          hot,          \* the versions the process runs with
          reload, read, \* how far a reload has come, and the versions it has read
          mem,          \* mem[f]: the entries of a cache
          fill,         \* fill[f]: of queries between their generation check and the insert
          phase,        \* of the process
          lock,         \* cache_persist_lock
          wpc, wfp, wfile,  \* a writer: where it is, its fingerprint, its file
          tmp, seen,    \* <path>.tmp and <path>, as the running system sees them
          stable,       \* <path> as its directory on the disk has it
          saves, rounds, edits, runs,
          done,         \* history: the last save of a file that succeeded
          kept,         \* history: what there was when the save at shutdown began
          overlap,      \* history: a save or a start has met a change being applied
          late          \* history: entries inserted after the reload they missed had cleared

wvars == <<wpc, wfp, wfile>>
files == <<tmp, seen, stable>>
counts == <<saves, rounds, edits, runs>>
history == <<done, kept, overlap, late>>
served == <<hot, reload, read, mem, fill>>
vars == <<disk, served, phase, lock, wvars, files, counts, history>>

Files == {"cache", "verdict"}
Writers == {"task", "final"}
Starting == {"cache", "verdict", "rules"}
Versions == [conf : Nat, rules : Nat]
Image == [fp : Versions, set : SUBSET Versions, n : Nat, data : {"part", "written", "synced"}]

\* No file: no fingerprint is that of version 0.
NoImage == [fp |-> [conf |-> 0, rules |-> 0], set |-> {}, n |-> 0, data |-> "synced"]
Nothing == [f \in Files |-> {}]

TypeOK ==
    /\ disk \in Versions /\ hot \in Versions
    /\ reload \in {"idle", "read", "stored", "cleared"} /\ read \in Versions
    /\ mem \in [Files -> SUBSET Versions] /\ fill \in [Files -> SUBSET Versions]
    /\ phase \in Starting \cup {"down", "serving", "stopping", "saved"}
    /\ lock \in Writers \cup {"free"}
    /\ \A w \in Writers : wpc[w] \notin {"idle", "tagged"} => lock = w
    /\ wpc \in [Writers -> {"idle", "tagged", "collect", "write", "sync", "rename", "syncdir"}]
    /\ wfp \in [Writers -> Versions] /\ wfile \in [Writers -> Files]
    /\ \A f \in Files : tmp[f] \in Image /\ seen[f] \in Image /\ stable[f] \in Image
    /\ rounds \in 0..MaxWork /\ saves \in 0..2 * rounds
    /\ edits \in 0..MaxWork /\ runs \in 0..MaxRuns
    /\ done \in [Files -> 0..saves] /\ overlap \in BOOLEAN /\ late \subseteq Versions

-----------------------------------------------------------------------------
\* cache_fingerprint: the fields come from the configuration in use, the size and
\* time of every ruleset file from the disk, when it is called.
\* Mutant: the ruleset files are left out.
FingerprintConf(cfg) == [conf |-> cfg.conf, rules |-> 1]
Fingerprint(cfg) == [conf |-> cfg.conf, rules |-> disk.rules]

Init ==
    /\ disk = [conf |-> 1, rules |-> 1] /\ hot = disk /\ reload = "idle" /\ read = NoImage.fp
    /\ mem = Nothing /\ fill = Nothing /\ phase = "serving" /\ lock = "free"
    /\ wpc = [w \in Writers |-> "idle"] /\ wfp = [w \in Writers |-> NoImage.fp]
    /\ wfile = [w \in Writers |-> "cache"]
    /\ tmp = [f \in Files |-> NoImage] /\ seen = tmp /\ stable = tmp
    /\ saves = 0 /\ rounds = 0 /\ edits = 0 /\ runs = 1
    /\ done = [f \in Files |-> 0] /\ kept = Nothing /\ overlap = FALSE /\ late = {}

\* config.json or a ruleset file is edited.  A start that has fingerprinted the ruleset
\* files and not loaded them yet has met the change.
Edit ==
    /\ rounds + edits < MaxWork /\ edits' = edits + 1
    /\ \/ disk' = [disk EXCEPT !.conf = @ + 1] /\ UNCHANGED overlap
       \/ /\ disk' = [disk EXCEPT !.rules = @ + 1]
          /\ overlap' = (overlap \/ phase \in {"verdict", "rules"})
    /\ kept' = Nothing
    /\ UNCHANGED <<served, phase, lock, wvars, files, saves, rounds, runs, done, late>>

\* reload_config reads both, reload_ruleset the ruleset files; they store the new state,
\* then clear one cache after the other.
Running == phase \notin Starting \cup {"down"}
ReloadRead ==
    /\ Running /\ reload = "idle" /\ reload' = "read"
    /\ read' \in {disk, [hot EXCEPT !.rules = disk.rules]} /\ read' # hot
    /\ UNCHANGED <<disk, hot, mem, fill, phase, lock, wvars, files, counts, history>>
ReloadStore ==
    /\ Running /\ reload = "read"
    /\ hot' = read /\ reload' = "stored" /\ read' = NoImage.fp
    /\ UNCHANGED <<disk, mem, fill, phase, lock, wvars, files, counts, history>>
ReloadClear ==
    /\ Running /\ reload \in {"stored", "cleared"}
    /\ IF reload = "stored"
       THEN reload' = "cleared" /\ mem' = [mem EXCEPT !["cache"] = {}]
       ELSE reload' = "idle" /\ mem' = [mem EXCEPT !["verdict"] = {}]
    /\ UNCHANGED <<disk, hot, read, fill, phase, lock, wvars, files, counts, history>>

\* A query that has been answered finds its generation unchanged, and inserts what it
\* found afterwards: then a reload may have stored the next state, and cleared the cache.
CheckGeneration(f) ==
    /\ Running /\ Cardinality(fill["cache"]) + Cardinality(fill["verdict"]) < MaxFill
    /\ fill' = [fill EXCEPT ![f] = @ \cup {hot}]
    /\ UNCHANGED <<disk, hot, reload, read, mem, phase, lock, wvars, files, counts, history>>
ToClear(f) == reload = "stored" \/ (reload = "cleared" /\ f = "verdict")
Insert(f) ==
    \E v \in fill[f] :
        /\ Running /\ mem' = [mem EXCEPT ![f] = @ \cup {v}]
        /\ \/ UNCHANGED fill                                     \* another one is under way
           \/ fill' = [fill EXCEPT ![f] = @ \ {v}]
        /\ late' = IF v = hot \/ ToClear(f) THEN late ELSE late \cup {v}
        /\ UNCHANGED <<disk, hot, reload, read, phase, lock, wvars, files, counts, done, kept,
                       overlap>>

-----------------------------------------------------------------------------
\* Every change on the disk has been applied.
Settled == hot = disk /\ reload = "idle"

\* The save task: it takes the fingerprint on its tick, and starts a blocking
\* save, which takes the lock.
Tick ==
    /\ phase = "serving" /\ wpc["task"] = "idle"
    /\ rounds + edits < MaxWork /\ rounds' = rounds + 1
    /\ wpc' = [wpc EXCEPT !["task"] = "tagged"]
    /\ wfp' = [wfp EXCEPT !["task"] = Fingerprint(hot)]
    /\ overlap' = (overlap \/ ~Settled)
    /\ UNCHANGED <<disk, served, phase, lock, wfile, files, saves, edits, runs,
                   done, kept, late>>
LockTask ==
    /\ Running /\ wpc["task"] = "tagged" /\ lock = "free"
    /\ lock' = "task"
    /\ wpc' = [wpc EXCEPT !["task"] = "collect"] /\ wfile' = [wfile EXCEPT !["task"] = "cache"]
    /\ UNCHANGED <<disk, served, phase, wfp, files, counts, history>>

\* A signal, or a listener that failed: the task is aborted, a save it has started
\* is not.
Shutdown ==
    /\ phase = "serving"
    /\ phase' = "stopping"
    /\ UNCHANGED <<disk, served, lock, wvars, files, counts, history>>

LockFinal ==
    /\ phase = "stopping" /\ wpc["final"] = "idle" /\ lock = "free"
    /\ rounds + edits < MaxWork /\ rounds' = rounds + 1
    /\ lock' = "final"
    /\ wpc' = [wpc EXCEPT !["final"] = "collect"] /\ wfile' = [wfile EXCEPT !["final"] = "cache"]
    /\ wfp' = [wfp EXCEPT !["final"] = Fingerprint(hot)]
    /\ kept' = IF Settled THEN mem ELSE Nothing
    /\ overlap' = (overlap \/ ~Settled)
    /\ UNCHANGED <<disk, served, phase, files, saves, edits, runs, done, late>>

-----------------------------------------------------------------------------
\* save_to_file: the entries are collected and <path>.tmp is created.
Collect(w) ==
    LET f == wfile[w] IN
    /\ Running /\ wpc[w] = "collect"
    /\ wpc' = [wpc EXCEPT ![w] = "write"]
    /\ saves' = saves + 1
    /\ tmp' = [tmp EXCEPT ![f] = [fp |-> wfp[w], set |-> mem[f], n |-> saves', data |-> "part"]]
    /\ overlap' = (overlap \/ wfp[w] # hot)
    /\ UNCHANGED <<disk, served, phase, lock, wfp, wfile, seen, stable, rounds, edits,
                   runs, done, kept, late>>

\* Mutant: the file is renamed before it is on the disk.
WriteUnsynced(w) ==
    /\ Running /\ wpc[w] = "write"
    /\ tmp' = [tmp EXCEPT ![wfile[w]].data = "written"]
    /\ wpc' = [wpc EXCEPT ![w] = "rename"]
    /\ UNCHANGED <<disk, served, phase, lock, wfp, wfile, seen, stable, counts,
                   history>>
Write(w) ==
    /\ Running /\ wpc[w] = "write"
    /\ tmp' = [tmp EXCEPT ![wfile[w]].data = "written"]
    /\ wpc' = [wpc EXCEPT ![w] = "sync"]
    /\ UNCHANGED <<disk, served, phase, lock, wfp, wfile, seen, stable, counts,
                   history>>
Sync(w) ==
    /\ Running /\ wpc[w] = "sync"
    /\ tmp' = [tmp EXCEPT ![wfile[w]].data = "synced"]
    /\ wpc' = [wpc EXCEPT ![w] = "rename"]
    /\ UNCHANGED <<disk, served, phase, lock, wfp, wfile, seen, stable, counts,
                   history>>
Rename(w) ==
    LET f == wfile[w] IN
    /\ Running /\ wpc[w] = "rename"
    /\ seen' = [seen EXCEPT ![f] = tmp[f]] /\ tmp' = [tmp EXCEPT ![f] = NoImage]
    /\ wpc' = [wpc EXCEPT ![w] = "syncdir"]
    /\ UNCHANGED <<disk, served, phase, lock, wfp, wfile, stable, counts, history>>

\* save_caches goes on to the verdict cache, whether or not the first file was
\* saved, and the lock is released.
\* Mutant: it stops after the first file.
AfterFileStops(w) ==
    /\ wpc' = [wpc EXCEPT ![w] = "idle"] /\ lock' = "free" /\ UNCHANGED wfile
    /\ phase' = IF w = "final" THEN "saved" ELSE phase
AfterFile(w) ==
    IF wfile[w] = "cache"
    THEN /\ wfile' = [wfile EXCEPT ![w] = "verdict"]
         /\ wpc' = [wpc EXCEPT ![w] = "collect"] /\ UNCHANGED <<lock, phase>>
    ELSE /\ wpc' = [wpc EXCEPT ![w] = "idle"] /\ lock' = "free"
         /\ phase' = IF w = "final" THEN "saved" ELSE phase
         /\ UNCHANGED wfile

\* Mutant: the directory is not synced.
SyncDirSkipped(w) ==
    /\ Running /\ wpc[w] = "syncdir" /\ AfterFile(w)
    /\ done' = [done EXCEPT ![wfile[w]] = seen[wfile[w]].n]
    /\ UNCHANGED <<disk, served, wfp, files, counts, kept, overlap, late>>
SyncDir(w) ==
    /\ Running /\ wpc[w] = "syncdir" /\ AfterFile(w)
    /\ stable' = [stable EXCEPT ![wfile[w]] = seen[wfile[w]]]
    /\ done' = [done EXCEPT ![wfile[w]] = seen[wfile[w]].n]
    /\ UNCHANGED <<disk, served, wfp, tmp, seen, counts, kept, overlap, late>>

\* A step of atomic_write fails: the save of this file ends there.  <path>.tmp is left in
\* place and taken to be incomplete: nobody reads it, and the next save creates it anew.
Incomplete(image) == [image EXCEPT !.data = "part"]
SaveFails(w) ==
    /\ Running /\ wpc[w] \in {"write", "sync", "rename", "syncdir"} /\ AfterFile(w)
    /\ tmp' = [tmp EXCEPT ![wfile[w]] = IF wpc[w] = "syncdir" THEN @ ELSE Incomplete(@)]
    /\ kept' = Nothing
    /\ UNCHANGED <<disk, served, wfp, seen, stable, counts, done, overlap, late>>

-----------------------------------------------------------------------------
\* The process is gone: all it held with it.
Gone ==
    /\ phase' = "down" /\ reload' = "idle" /\ read' = NoImage.fp /\ lock' = "free"
    /\ mem' = Nothing /\ fill' = Nothing
    /\ wpc' = [w \in Writers |-> "idle"] /\ wfp' = [w \in Writers |-> NoImage.fp]
    /\ wfile' = [w \in Writers |-> "cache"]

\* async_main returns; the runtime waits for a blocking save that has begun, and
\* drops one that has not.
Exit ==
    /\ phase = "saved" /\ wpc["task"] \in {"idle", "tagged"} /\ Gone
    /\ UNCHANGED <<disk, hot, files, counts, history>>
Killed ==
    /\ phase # "down" /\ Gone
    /\ kept' = IF phase \in Starting THEN kept ELSE Nothing
    /\ UNCHANGED <<disk, hot, files, counts, done, overlap, late>>

\* After a loss of power a name may be back at what its directory on the disk had,
\* and data that was not synced may be incomplete.
PowerLoss ==
    /\ Gone /\ UNCHANGED <<disk, hot, counts, done, overlap, late>>
    /\ kept' = IF phase \in Starting \cup {"down"} THEN kept ELSE Nothing
    /\ tmp' = [f \in Files |-> NoImage]
    /\ \E back \in SUBSET {f \in Files : stable[f] # seen[f]} :
           LET Found == [f \in Files |-> IF f \in back THEN stable[f] ELSE seen[f]]
           IN \E torn \in SUBSET {f \in Files : Found[f].data # "synced"} :
                 seen' = [f \in Files |->
                     IF f \in torn THEN Incomplete(Found[f]) ELSE Found[f]]
    /\ stable' = seen'

\* A start reads config.json; AppState::new then loads each file if its fingerprint is that
\* of the configuration, taken anew for each of them, and build_hot_state loads the
\* rulesets last.
Start ==
    /\ phase = "down" /\ runs < MaxRuns /\ runs' = runs + 1
    /\ phase' = "cache" /\ hot' = [conf |-> disk.conf, rules |-> 0]
    /\ UNCHANGED <<disk, reload, read, mem, fill, lock, wvars, files, saves, rounds, edits,
                   history>>
Load(f) ==
    /\ phase = f /\ phase' = IF f = "cache" THEN "verdict" ELSE "rules"
    /\ mem' = [mem EXCEPT ![f] = IF seen[f].fp = Fingerprint(hot) THEN seen[f].set ELSE {}]
    /\ UNCHANGED <<disk, hot, reload, read, fill, lock, wvars, files, counts, history>>
Serve ==
    /\ phase = "rules" /\ phase' = "serving" /\ hot' = [hot EXCEPT !.rules = disk.rules]
    /\ UNCHANGED <<disk, reload, read, mem, fill, lock, wvars, files, counts, history>>

Idle ==
    /\ runs = MaxRuns /\ phase = "down" /\ UNCHANGED vars

WriterStep(w) == Collect(w) \/ Write(w) \/ Sync(w) \/ Rename(w) \/ SyncDir(w) \/ SaveFails(w)

Next == \/ Edit \/ ReloadRead \/ ReloadStore \/ ReloadClear
        \/ \E f \in Files : CheckGeneration(f) \/ Insert(f) \/ Load(f)
        \/ Tick \/ LockTask \/ Shutdown \/ LockFinal \/ \E w \in Writers : WriterStep(w)
        \/ Exit \/ Killed \/ PowerLoss \/ Start \/ Serve \/ Idle

Spec == Init /\ [][Next]_vars

-----------------------------------------------------------------------------
\* What stands under a cache file's name is always a file that was written to its
\* end, whenever the process is killed or the power fails (atomic_write,
\* persist.rs:11 "Write a file atomically").
FilesWhole == \A f \in Files : seen[f].data # "part" /\ stable[f].data # "part"

\* The save task and the save at shutdown never have the same <path>.tmp open
\* (lib.rs:255 "so both writers never share the same `.tmp` path"), and the file
\* one of them renames is its own.
OneTmpWriter ==
    /\ \A f \in Files :
        Cardinality({w \in Writers : wfile[w] = f /\ wpc[w] \in {"write", "sync", "rename"}}) <= 1
    /\ \A w \in Writers : wpc[w] = "rename" => /\ tmp[wfile[w]].data = "synced"
                                              /\ tmp[wfile[w]].fp = wfp[w]

\* A save that was reported as done is not lost: whatever happens later, the file
\* is that save or a later one.
DoneIsDurable == \A f \in Files : seen[f].n >= done[f] /\ stable[f].n >= done[f]

\* "a cache built under a different config is rejected on load rather than
\* misapplied" (cache.rs:522): unless a reload is about to clear them, all entries in use
\* were produced under the configuration and rulesets in use, or were inserted too late for
\* the reload that should have cleared them, through any edits, reloads, crashes and starts.
\* The other exceptions: a save whose fingerprint was taken, or whose entries were collected,
\* between an edit and the end of its reload, and a ruleset file edited between its
\* fingerprint and its loading at a start.
NeverMisapplied ==
    Running /\ reload \in {"idle", "read"} /\ ~overlap
        => \A f \in Files : mem[f] \subseteq {hot} \cup late

\* An orderly stop loses nothing: if both files could be saved and no edit was left
\* to apply or came afterwards, the next start that gets to serve has all entries there were
\* when the save at shutdown began.  The exception is the same: a save that took its
\* fingerprint before a reload may get the lock after the save at shutdown, and replace its
\* files.
OrderlyStopKeeps ==
    [][Serve /\ ~overlap => \A f \in Files : kept[f] \subseteq mem'[f]]_vars

\* How the two files implement AtomicFile.
Torn == [n |-> -1]
Version(image) ==
    IF image.data = "part" THEN Torn ELSE [fp |-> image.fp, set |-> image.set, n |-> image.n]
CacheFile == INSTANCE AtomicFile WITH
    content <- Version(seen["cache"]), durable <- Version(stable["cache"])
VerdictFile == INSTANCE AtomicFile WITH
    content <- Version(seen["verdict"]), durable <- Version(stable["verdict"])

\* Each file implements AtomicFile: through two writers, failed steps, kills and losses of
\* power it goes from whole version to newer whole version, and a loss of power takes back
\* at most what was not flushed (persist.rs, atomic_write).
FilesAtomic == CacheFile!Spec /\ VerdictFile!Spec
=============================================================================
