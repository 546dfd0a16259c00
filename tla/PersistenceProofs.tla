-------------------------- MODULE PersistenceProofs --------------------------
(***************************************************************************)
(* The cache files of Persistence stay whole, their writers never meet, a  *)
(* save reported as done is durable, each file implements AtomicFile, no   *)
(* entry is loaded under a configuration it was not made for, and what an  *)
(* orderly stop saved is there at the next start: for any number of saves, *)
(* starts and edits.                                                       *)
(***************************************************************************)
EXTENDS Persistence, FiniteSetTheorems, TLAPS

WriterPcs == {"idle", "tagged", "collect", "write", "sync", "rename", "syncdir"}

Typed ==
    /\ disk \in Versions /\ hot \in Versions
    /\ read \in Versions
    /\ mem \in [Files -> SUBSET Versions] /\ fill \in [Files -> SUBSET Versions]
    /\ lock \in Writers \cup {"free"}
    /\ wpc \in [Writers -> WriterPcs]
    /\ wfp \in [Writers -> Versions]
    /\ wfile \in [Writers -> Files]
    /\ tmp \in [Files -> Image] /\ seen \in [Files -> Image] /\ stable \in [Files -> Image]
    /\ saves \in Nat
    /\ done \in [Files -> Nat]

\* A writer that has begun holds the lock.
LockHeld == \A w \in Writers : wpc[w] \notin {"idle", "tagged"} => lock = w

\* The temporary file is the writer's own, and newer than the file it will replace.
OwnTmp ==
    \A w \in Writers : wpc[w] \in {"write", "sync", "rename"} =>
        LET f == wfile[w] IN
        tmp[f].fp = wfp[w] /\ tmp[f].n > seen[f].n /\ tmp[f].n <= saves

\* What is renamed has reached the disk, and so has what was renamed before.
AllSynced ==
    /\ \A w \in Writers : wpc[w] = "rename" => tmp[wfile[w]].data = "synced"
    /\ \A f \in Files : seen[f].data = "synced" /\ stable[f].data = "synced"

\* Saves are numbered in the order in which they were begun.
Ages == \A f \in Files : done[f] <= stable[f].n /\ stable[f].n <= seen[f].n /\ seen[f].n <= saves

\* None of the properties is inductive alone: that a rename keeps the file whole and the
\* numbers in order rests on the lock, which keeps the other writer off the temporary file.
IInv == Typed /\ LockHeld /\ OwnTmp /\ AllSynced /\ Ages

-----------------------------------------------------------------------------
LEMMA FingerprintType ==
    ASSUME Typed
    PROVE  Fingerprint(hot) \in Versions
BY Zenon DEF Typed, Fingerprint, Versions

LEMMA NoImageType == NoImage \in Image /\ NoImage.fp \in Versions /\ NoImage.n = 0
                        /\ NoImage.data = "synced"
BY Zenon DEF NoImage, Image, Versions

LEMMA InitIInv == Init => IInv
<1>. SUFFICES ASSUME Init PROVE IInv
    OBVIOUS
<1>1. Typed
    BY Zenon, NoImageType DEF Init, Typed, Versions, Nothing, Writers, Files, WriterPcs
<1>2. LockHeld /\ OwnTmp
    BY Zenon DEF Init, LockHeld, OwnTmp
<1>3. AllSynced /\ Ages
    BY NoImageType DEF Init, AllSynced, Ages
<1>. QED BY Zenon, <1>1, <1>2, <1>3 DEF IInv

\* Steps that touch neither the writers nor the files.
LEMMA OtherStep ==
    ASSUME IInv, disk' \in Versions, hot' \in Versions, read' \in Versions,
           mem' \in [Files -> SUBSET Versions], fill' \in [Files -> SUBSET Versions],
           UNCHANGED <<lock, wvars, files, saves, done>>
    PROVE  IInv'
BY Zenon DEF IInv, Typed, LockHeld, OwnTmp, AllSynced, Ages, wvars, files

\* A writer is tagged, or takes the lock; no file changes.
LEMMA BeginStep ==
    ASSUME IInv, NEW w \in Writers, wpc[w] \in {"idle", "tagged"},
           NEW label \in {"tagged", "collect"}, wpc' = [wpc EXCEPT ![w] = label],
           NEW fp \in Versions, wfp' = [wfp EXCEPT ![w] = fp],
           NEW f \in Files, wfile' = [wfile EXCEPT ![w] = f],
           \/ label = "tagged" /\ lock' = lock
           \/ lock = "free" /\ lock' = w,
           UNCHANGED <<disk, served, files, saves, done>>
    PROVE  IInv'
<1>. USE DEF IInv
<1>1. Typed'
    BY Zenon DEF Typed, WriterPcs, files, served
<1>2. LockHeld'
    BY Zenon DEF Typed, LockHeld, Writers
<1>3. \A v \in Writers : wpc'[v] \in {"write", "sync", "rename"} =>
         v # w /\ wpc'[v] = wpc[v] /\ wfile'[v] = wfile[v] /\ wfp'[v] = wfp[v]
    BY Zenon DEF Typed
<1>4. OwnTmp'
    BY Zenon, <1>3 DEF OwnTmp, files
<1>5. AllSynced' /\ Ages'
    BY <1>3 DEF AllSynced, Ages, files
<1>. QED BY Zenon, <1>1, <1>2, <1>4, <1>5

\* The other writer has not begun while one is at work.
LEMMA Alone ==
    ASSUME IInv, NEW w \in Writers, wpc[w] \notin {"idle", "tagged"}
    PROVE  \A v \in Writers \ {w} : wpc[v] \in {"idle", "tagged"}
BY Zenon DEF IInv, LockHeld

LEMMA CollectStep ==
    ASSUME IInv, NEW w \in Writers, Collect(w)
    PROVE  IInv'
<1>. USE DEF IInv
<1>. DEFINE f == wfile[w]
            image == [fp |-> wfp[w], set |-> mem[f], n |-> saves + 1, data |-> "part"]
<1>1. /\ wpc[w] = "collect" /\ wpc' = [wpc EXCEPT ![w] = "write"]
      /\ saves' = saves + 1
      /\ tmp' = [tmp EXCEPT ![f] = image]
      /\ UNCHANGED <<disk, served, lock, wfp, wfile, seen, stable, done>>
    BY Zenon DEF Collect
<1>2. image \in Image /\ f \in Files
    BY DEF Typed, Image
<1>3. Typed'
    BY <1>1, <1>2 DEF Typed, WriterPcs, served
<1>4. \A v \in Writers \ {w} : wpc'[v] \in {"idle", "tagged"}
    BY Zenon, <1>1, Alone DEF Typed
<1>5. LockHeld'
    BY Zenon, <1>1, <1>4 DEF LockHeld
<1>6. tmp'[f].fp = wfp[w] /\ tmp'[f].n = saves + 1 /\ wpc'[w] = "write"
    BY Zenon, <1>1, <1>2 DEF Typed
<1>7. OwnTmp'
  <2>1. seen[f].n <= saves /\ seen[f].n \in Nat /\ saves \in Nat
      BY Zenon, <1>2 DEF Ages, Typed, Image
  <2>. QED BY <1>1, <1>4, <1>6, <2>1 DEF OwnTmp
<1>8. AllSynced'
    BY Zenon, <1>1, <1>4, <1>6 DEF AllSynced
<1>9. Ages'
    BY <1>1 DEF Ages, Typed, Image
<1>. QED BY Zenon, <1>3, <1>5, <1>7, <1>8, <1>9

\* Write and Sync: only the state of the temporary file's data changes.
LEMMA DataStep ==
    ASSUME IInv, NEW w \in Writers, wpc[w] \in {"write", "sync"},
           NEW label \in {"sync", "rename"}, wpc' = [wpc EXCEPT ![w] = label],
           NEW data \in {"written", "synced"}, label = "rename" => data = "synced",
           tmp' = [tmp EXCEPT ![wfile[w]].data = data],
           UNCHANGED <<disk, served, lock, wfp, wfile, seen, stable, saves, done>>
    PROVE  IInv'
<1>. USE DEF IInv
<1>. DEFINE f == wfile[w]
<1>1. f \in Files /\ tmp[f] \in Image
    BY Zenon DEF Typed
<1>2. /\ tmp'[f].fp = tmp[f].fp /\ tmp'[f].n = tmp[f].n /\ tmp'[f].data = data
      /\ tmp'[f] \in Image
    BY Zenon, <1>1 DEF Typed, Image
<1>3. tmp' \in [Files -> Image]
    BY Zenon, <1>1, <1>2 DEF Typed
<1>4. Typed'
    BY Zenon, <1>3 DEF Typed, WriterPcs, served
<1>5. \A v \in Writers \ {w} : wpc'[v] \in {"idle", "tagged"}
    BY Zenon, Alone DEF Typed
<1>6. LockHeld'
    BY Zenon, <1>5 DEF LockHeld
<1>7. OwnTmp'
    BY <1>2, <1>5 DEF OwnTmp
<1>8. AllSynced'
    BY Zenon, <1>2, <1>5 DEF AllSynced, Typed
<1>9. Ages'
    BY Zenon DEF Ages
<1>. QED BY Zenon, <1>4, <1>6, <1>7, <1>8, <1>9

LEMMA RenameStep ==
    ASSUME IInv, NEW w \in Writers, Rename(w)
    PROVE  IInv'
<1>. USE DEF IInv
<1>. DEFINE f == wfile[w]
<1>1. /\ wpc[w] = "rename" /\ wpc' = [wpc EXCEPT ![w] = "syncdir"]
      /\ seen' = [seen EXCEPT ![f] = tmp[f]]
      /\ tmp' = [tmp EXCEPT ![f] = NoImage]
      /\ UNCHANGED <<disk, served, lock, wfp, wfile, stable, saves, done>>
    BY Zenon DEF Rename, counts, history
<1>2. f \in Files /\ tmp[f] \in Image
    BY Zenon DEF Typed
<1>3. Typed'
    BY Zenon, <1>1, <1>2, NoImageType DEF Typed, WriterPcs, served
<1>4. \A v \in Writers : wpc'[v] \in {"idle", "tagged", "syncdir"}
    BY Zenon, <1>1, Alone DEF Typed
<1>5. LockHeld'
    BY Zenon, <1>1, Alone DEF LockHeld, Typed
<1>6. OwnTmp'
    BY Zenon, <1>4 DEF OwnTmp
<1>7. AllSynced'
    BY Zenon, <1>1, <1>2, <1>4 DEF AllSynced, Typed
<1>8. Ages'
  <2>1. tmp[f].n > seen[f].n /\ tmp[f].n <= saves
      BY Zenon, <1>1 DEF OwnTmp
  <2>. QED BY <1>1, <1>2, <2>1 DEF Ages, Typed, Image
<1>. QED BY <1>3, <1>5, <1>6, <1>7, <1>8

\* save_caches goes on to its next file, or gives back the lock.
LEMMA AfterFileFacts ==
    ASSUME IInv, NEW w \in Writers, wpc[w] \notin {"idle", "tagged"}, AfterFile(w)
    PROVE  /\ wpc' \in [Writers -> WriterPcs]
           /\ wfile' \in [Writers -> Files]
           /\ lock' \in Writers \cup {"free"}
           /\ \A v \in Writers : wpc'[v] \in {"idle", "tagged", "collect"}
           /\ \A v \in Writers : wpc'[v] \notin {"idle", "tagged"} => lock' = v
<1>. USE DEF IInv
<1>0. \A v \in Writers \ {w} : wpc[v] \in {"idle", "tagged"}
    BY Zenon, Alone
<1>1. CASE wfile[w] = "cache"
    BY <1>0, <1>1 DEF AfterFile, Typed, WriterPcs, Files, LockHeld
<1>2. CASE wfile[w] # "cache"
    BY <1>0, <1>2 DEF AfterFile, Typed, WriterPcs, Files, LockHeld
<1>. QED BY Zenon, <1>1, <1>2

LEMMA SyncDirStep ==
    ASSUME IInv, NEW w \in Writers, SyncDir(w)
    PROVE  IInv'
<1>. USE DEF IInv
<1>. DEFINE f == wfile[w]
<1>1. /\ wpc[w] = "syncdir" /\ AfterFile(w)
      /\ stable' = [stable EXCEPT ![f] = seen[f]]
      /\ done' = [done EXCEPT ![f] = seen[f].n]
      /\ UNCHANGED <<disk, served, wfp, tmp, seen, saves>>
    BY Zenon DEF SyncDir, counts
<1>2. f \in Files /\ seen[f] \in Image /\ seen[f].n \in Nat
    BY Zenon DEF Typed, Image
<1>3. /\ wpc' \in [Writers -> WriterPcs] /\ wfile' \in [Writers -> Files]
      /\ lock' \in Writers \cup {"free"}
      /\ \A v \in Writers : wpc'[v] \in {"idle", "tagged", "collect"}
      /\ \A v \in Writers : wpc'[v] \notin {"idle", "tagged"} => lock' = v
    BY Zenon, <1>1, AfterFileFacts
<1>4. Typed'
    BY Zenon, <1>1, <1>2, <1>3 DEF Typed, served
<1>5. LockHeld' /\ OwnTmp'
    BY Zenon, <1>3 DEF LockHeld, OwnTmp
<1>6. AllSynced'
    BY Zenon, <1>1, <1>2, <1>3 DEF AllSynced, Typed
<1>7. Ages'
    BY <1>1, <1>2 DEF Ages, Typed, Image
<1>. QED BY Zenon, <1>4, <1>5, <1>6, <1>7

\* A temporary file that a failed save leaves holds what it held.
LEMMA LeftOver ==
    ASSUME Typed, NEW w \in Writers, SaveFails(w)
    PROVE  /\ tmp' \in [Files -> Image]
           /\ \A f \in Files : tmp'[f].fp = tmp[f].fp /\ tmp'[f].set = tmp[f].set
<1>1. \A i \in Image : /\ Incomplete(i) \in Image
                        /\ Incomplete(i).fp = i.fp /\ Incomplete(i).set = i.set
    BY DEF Incomplete, Image
<1>2. tmp \in [Files -> Image] /\ wfile[w] \in Files
    BY Zenon DEF Typed
<1>3. PICK i \in {tmp[wfile[w]], Incomplete(tmp[wfile[w]])} :
         tmp' = [tmp EXCEPT ![wfile[w]] = i]
    BY Zenon DEF SaveFails
<1>4. i \in Image /\ i.fp = tmp[wfile[w]].fp /\ i.set = tmp[wfile[w]].set
    BY Zenon, <1>1, <1>2, <1>3
<1>. QED BY Zenon, <1>2, <1>3, <1>4

LEMMA SaveFailsStep ==
    ASSUME IInv, NEW w \in Writers, SaveFails(w)
    PROVE  IInv'
<1>. USE DEF IInv
<1>1. /\ wpc[w] \notin {"idle", "tagged"} /\ AfterFile(w)
      /\ UNCHANGED <<disk, served, wfp, seen, stable, saves, done>>
    BY Zenon DEF SaveFails, counts
<1>a. tmp' \in [Files -> Image]
    BY Zenon, LeftOver
<1>2. /\ wpc' \in [Writers -> WriterPcs] /\ wfile' \in [Writers -> Files]
      /\ lock' \in Writers \cup {"free"}
      /\ \A v \in Writers : wpc'[v] \in {"idle", "tagged", "collect"}
      /\ \A v \in Writers : wpc'[v] \notin {"idle", "tagged"} => lock' = v
    BY Zenon, <1>1, AfterFileFacts
<1>3. Typed'
    BY Zenon, <1>1, <1>a, <1>2 DEF Typed, served
<1>4. LockHeld' /\ OwnTmp' /\ AllSynced' /\ Ages'
    BY Zenon, <1>1, <1>2 DEF LockHeld, OwnTmp, AllSynced, Ages
<1>. QED BY Zenon, <1>3, <1>4

\* The end of the process: what is under the names is one of the two versions there were.
LEMMA GoneStep ==
    ASSUME IInv, Gone, UNCHANGED <<disk, hot, saves, done>>,
           tmp' \in [Files -> Image], seen' \in [Files -> Image], stable' \in [Files -> Image],
           \A f \in Files : \/ seen'[f] = seen[f] /\ stable'[f] = stable[f]
                            \/ seen'[f] \in {seen[f], stable[f]} /\ stable'[f] = seen'[f]
    PROVE  IInv'
<1>. USE DEF IInv
<1>1. Typed'
    BY Zenon, NoImageType DEF Gone, Typed, WriterPcs, Nothing, Files, Writers
<1>2. LockHeld' /\ OwnTmp'
    BY Zenon DEF Gone, LockHeld, OwnTmp
<1>3. AllSynced'
    BY DEF Gone, AllSynced
<1>4. Ages'
  <2>. SUFFICES ASSUME NEW f \in Files
                PROVE  /\ done[f] <= stable'[f].n /\ stable'[f].n <= seen'[f].n
                        /\ seen'[f].n <= saves
      BY Zenon DEF Ages
  <2>1. /\ done[f] \in Nat /\ stable[f].n \in Nat /\ seen[f].n \in Nat /\ saves \in Nat
        /\ done[f] <= stable[f].n /\ stable[f].n <= seen[f].n /\ seen[f].n <= saves
      BY Zenon DEF Ages, Typed, Image
  <2>2. CASE seen'[f] = seen[f] /\ stable'[f] = stable[f]
      BY Zenon, <2>1, <2>2
  <2>3. CASE seen'[f] \in {seen[f], stable[f]} /\ stable'[f] = seen'[f]
      BY <2>1, <2>3
  <2>. QED BY Zenon, <2>2, <2>3
<1>. QED BY Zenon, <1>1, <1>2, <1>3, <1>4

\* After a loss of power: synced files are never torn.
LEMMA PowerLossFacts ==
    ASSUME IInv, PowerLoss
    PROVE  /\ tmp' \in [Files -> Image] /\ seen' \in [Files -> Image]
           /\ stable' \in [Files -> Image]
           /\ \A f \in Files : seen'[f] \in {seen[f], stable[f]} /\ stable'[f] = seen'[f]
<1>. USE DEF IInv
<1>. DEFINE Found(back) == [f \in Files |-> IF f \in back THEN stable[f] ELSE seen[f]]
<1>1. PICK back \in SUBSET {f \in Files : stable[f] # seen[f]} :
         \E torn \in SUBSET {f \in Files : Found(back)[f].data # "synced"} :
            seen' = [f \in Files |->
                        IF f \in torn THEN Incomplete(Found(back)[f]) ELSE Found(back)[f]]
    BY Zenon DEF PowerLoss
<1>2. {f \in Files : Found(back)[f].data # "synced"} = {}
    BY Zenon DEF AllSynced
<1>3. \A f \in Files : seen'[f] = IF f \in back THEN stable[f] ELSE seen[f]
    BY Zenon, <1>1, <1>2
<1>4. seen' \in [Files -> Image]
  <2>1. \A f \in Files : seen'[f] \in Image
      BY Zenon, <1>3 DEF Typed
  <2>. QED BY Zenon, <1>1, <2>1
<1>5. tmp' \in [Files -> Image] /\ stable' = seen'
    BY Zenon, NoImageType DEF PowerLoss
<1>. QED BY Zenon, <1>3, <1>4, <1>5

LEMMA NextIInv == IInv /\ [Next]_vars => IInv'
<1>. SUFFICES ASSUME IInv, [Next]_vars PROVE IInv'
    OBVIOUS
<1>. USE DEF IInv
<1>1. CASE Edit
  <2>1. disk' \in Versions
      BY <1>1 DEF Edit, Typed, Versions
  <2>. QED BY Zenon, <1>1, <2>1, OtherStep DEF Edit, Typed, served
<1>2. CASE ReloadRead
  <2>1. read' \in Versions
      BY <1>2 DEF ReloadRead, Typed, Versions
  <2>. QED BY Zenon, <1>2, <2>1, OtherStep DEF ReloadRead, Typed, counts, history
<1>3. CASE ReloadStore \/ ReloadClear
    BY Zenon, <1>3, OtherStep, NoImageType DEF ReloadStore, ReloadClear, Typed, counts, history
<1>4. ASSUME NEW f \in Files, CheckGeneration(f) \/ Insert(f) \/ Load(f) PROVE IInv'
  <2>1. CASE CheckGeneration(f)
      BY Zenon, <2>1, OtherStep DEF CheckGeneration, Typed, counts, history
  <2>2. CASE Insert(f)
    <3>1. PICK v \in fill[f] : Insert(f)!(v)
        BY Zenon, <2>2 DEF Insert
    <3>2. v \in Versions /\ mem[f] \subseteq Versions /\ fill[f] \subseteq Versions
        BY Zenon DEF Typed
    <3>3. mem' \in [Files -> SUBSET Versions] /\ fill' \in [Files -> SUBSET Versions]
        BY <3>1, <3>2 DEF Typed
    <3>. QED BY Zenon, <3>1, <3>3, OtherStep DEF Typed, counts
  <2>3. CASE Load(f)
    <3>1. mem' \in [Files -> SUBSET Versions]
        BY Zenon, <2>3 DEF Load, Typed, Image
    <3>. QED BY Zenon, <2>3, <3>1, OtherStep DEF Load, Typed, counts, history
  <2>. QED BY Zenon, <1>4, <2>1, <2>2, <2>3
<1>5. CASE Tick
  <2>1. wfile' = [wfile EXCEPT !["task"] = wfile["task"]]
      BY Zenon, <1>5 DEF Tick, Typed
  <2>2. wfile["task"] \in Files /\ "task" \in Writers /\ Fingerprint(hot) \in Versions
      BY Zenon, FingerprintType DEF Typed, Writers
  <2>. QED BY Zenon, <1>5, <2>1, <2>2, BeginStep DEF Tick, history
<1>6. CASE LockTask
  <2>1. wfp' = [wfp EXCEPT !["task"] = wfp["task"]]
      BY Zenon, <1>6 DEF LockTask, Typed
  <2>2. wfp["task"] \in Versions /\ "task" \in Writers /\ "cache" \in Files
      BY Zenon DEF Typed, Writers, Files
  <2>. QED BY Zenon, <1>6, <2>1, <2>2, BeginStep DEF LockTask, counts, history
<1>7. CASE LockFinal
  <2>1. "final" \in Writers /\ "cache" \in Files /\ Fingerprint(hot) \in Versions
      BY Zenon, FingerprintType DEF Writers, Files
  <2>. QED BY Zenon, <1>7, <2>1, BeginStep DEF LockFinal
<1>8. CASE Shutdown
    BY Zenon, <1>8, OtherStep DEF Shutdown, Typed, served, counts, history
<1>9. ASSUME NEW w \in Writers, WriterStep(w) PROVE IInv'
  <2>1. CASE Write(w)
      BY Zenon, <2>1, DataStep DEF Write, counts, history
  <2>2. CASE Sync(w)
      BY Zenon, <2>2, DataStep DEF Sync, counts, history
  <2>. QED BY <1>9, <2>1, <2>2, CollectStep, RenameStep, SyncDirStep, SaveFailsStep DEF WriterStep
<1>10. CASE Exit \/ Killed
    BY Zenon, <1>10, GoneStep DEF Exit, Killed, Typed, files, counts, history
<1>11. CASE PowerLoss
    BY Zenon, <1>11, GoneStep, PowerLossFacts DEF PowerLoss, counts
<1>12. CASE Start
  <2>1. hot' \in Versions
      BY <1>12 DEF Start, Typed, Versions
  <2>. QED BY Zenon, <1>12, <2>1, OtherStep DEF Start, Typed, history
<1>13. CASE Serve
  <2>1. hot' \in Versions
      BY <1>13 DEF Serve, Typed, Versions
  <2>. QED BY Zenon, <1>13, <2>1, OtherStep DEF Serve, Typed, counts, history
<1>14. CASE UNCHANGED vars
    BY Zenon, <1>14, OtherStep DEF vars, Typed, served, counts, history
<1>. QED BY <1>1, <1>2, <1>3, <1>4, <1>5, <1>6, <1>7, <1>8, <1>9, <1>10, <1>11, <1>12, <1>13,
           <1>14
        DEF Next, Idle

LEMMA Invariance == Spec => []IInv
<1>. QED BY InitIInv, NextIInv, PTL DEF Spec

-----------------------------------------------------------------------------
\* A cache file is whole at every moment, whenever the process is killed or the power fails.
THEOREM Wholeness == Spec => []FilesWhole
<1>1. IInv => FilesWhole
    BY Zenon DEF IInv, AllSynced, FilesWhole
<1>. QED BY <1>1, Invariance, PTL

\* The save task and the save at shutdown never have the same temporary file open.
THEOREM WritersApart == Spec => []OneTmpWriter
<1>1. IInv => OneTmpWriter
  <2>. SUFFICES ASSUME IInv PROVE OneTmpWriter
      OBVIOUS
  <2>. USE DEF IInv
  <2>1. ASSUME NEW f \in Files
        PROVE  Cardinality({w \in Writers :
                              wfile[w] = f /\ wpc[w] \in {"write", "sync", "rename"}}) <= 1
    <3>. DEFINE S == {w \in Writers : wfile[w] = f /\ wpc[w] \in {"write", "sync", "rename"}}
    <3>1. S \subseteq {lock}
        BY Zenon DEF LockHeld
    <3>2. IsFiniteSet({lock}) /\ Cardinality({lock}) = 1
        BY Zenon, FS_Singleton
    <3>3. Cardinality(S) <= Cardinality({lock})
        BY Zenon, <3>1, <3>2, FS_Subset
    <3>. QED BY Zenon, <3>2, <3>3
  <2>2. \A w \in Writers : wpc[w] = "rename" =>
            tmp[wfile[w]].data = "synced" /\ tmp[wfile[w]].fp = wfp[w]
      BY Zenon DEF AllSynced, OwnTmp
  <2>. QED BY Zenon, <2>1, <2>2 DEF OneTmpWriter
<1>. QED BY <1>1, Invariance, PTL

\* Once a save is reported as done, the file is that save or a later one for ever.
THEOREM Durability == Spec => []DoneIsDurable
<1>1. IInv => DoneIsDurable
    BY DEF IInv, Ages, Typed, Image, DoneIsDurable
<1>. QED BY <1>1, Invariance, PTL

-----------------------------------------------------------------------------
(* Each file implements AtomicFile.                                         *)

\* The three steps of AtomicFile, and the stutter, for a file of the system.
FileStep(f) ==
    \/ /\ Version(seen'[f]) # Torn /\ Version(seen'[f]).n > Version(seen[f]).n
       /\ stable'[f] = stable[f]
    \/ stable'[f] = seen[f] /\ seen'[f] = seen[f]
    \/ (seen'[f] = seen[f] \/ seen'[f] = stable[f]) /\ stable'[f] = seen'[f]
    \/ seen'[f] = seen[f] /\ stable'[f] = stable[f]

LEMMA WholeVersion ==
    ASSUME NEW image \in Image, image.data = "synced"
    PROVE  Version(image) # Torn /\ Version(image).n = image.n
BY Zenon DEF Version, Torn, Image

LEMMA RenameFile ==
    ASSUME IInv, NEW w \in Writers, Rename(w), NEW f \in Files
    PROVE  FileStep(f)
<1>. USE DEF IInv
<1>1. /\ wpc[w] = "rename" /\ wfile[w] \in Files
      /\ seen' = [seen EXCEPT ![wfile[w]] = tmp[wfile[w]]] /\ UNCHANGED stable
    BY Zenon DEF Rename, Typed
<1>2. CASE f # wfile[w]
    BY Zenon, <1>1, <1>2 DEF FileStep, Typed
<1>3. CASE f = wfile[w]
  <2>1. seen'[f] = tmp[f] /\ tmp[f] \in Image /\ seen[f] \in Image
      BY Zenon, <1>1, <1>3 DEF Typed
  <2>2. tmp[f].data = "synced" /\ seen[f].data = "synced" /\ tmp[f].n > seen[f].n
      BY Zenon, <1>1, <1>3 DEF AllSynced, OwnTmp
  <2>. QED BY Zenon, <1>1, <2>1, <2>2, WholeVersion DEF FileStep
<1>. QED BY Zenon, <1>2, <1>3

LEMMA NextFile ==
    ASSUME IInv, [Next]_vars, NEW f \in Files
    PROVE  FileStep(f)
<1>1. ASSUME NEW w \in Writers, Rename(w) PROVE FileStep(f)
    BY Zenon, <1>1, RenameFile
<1>2. ASSUME NEW w \in Writers, SyncDir(w) PROVE FileStep(f)
    BY Zenon, <1>2 DEF SyncDir, FileStep, IInv, Typed
<1>3. CASE PowerLoss
    BY Zenon, <1>3, PowerLossFacts DEF FileStep
<1>4. ASSUME UNCHANGED <<seen, stable>> PROVE FileStep(f)
    BY Zenon, <1>4 DEF FileStep
<1>5. CASE \/ Edit \/ ReloadRead \/ ReloadStore \/ ReloadClear \/ Tick \/ LockTask \/ Shutdown
           \/ LockFinal
    BY Zenon, <1>4, <1>5 DEF Edit, ReloadRead, ReloadStore, ReloadClear, Tick, LockTask,
       Shutdown, LockFinal, files
<1>6. CASE Exit \/ Killed \/ Start \/ Serve \/ UNCHANGED vars
    BY Zenon, <1>4, <1>6 DEF Exit, Killed, Start, Serve, vars, files
<1>7. ASSUME NEW g \in Files, CheckGeneration(g) \/ Insert(g) \/ Load(g) PROVE FileStep(f)
    BY Zenon, <1>4, <1>7 DEF CheckGeneration, Insert, Load, files
<1>8. ASSUME NEW w \in Writers, Collect(w) \/ Write(w) \/ Sync(w) \/ SaveFails(w)
      PROVE  FileStep(f)
    BY Zenon, <1>4, <1>8 DEF Collect, Write, Sync, SaveFails, files
<1>. QED BY <1>1, <1>2, <1>3, <1>5, <1>6, <1>7, <1>8 DEF Next, WriterStep, Idle

\* Each cache file implements the abstract atomic file, for any number of saves, failures,
\* kills and losses of power.
THEOREM Atomicity == Spec => FilesAtomic
<1>1. Init => CacheFile!Init /\ VerdictFile!Init
    BY DEF Init, CacheFile!Init, VerdictFile!Init, Version, Torn, NoImage, Files
<1>2. IInv /\ [Next]_vars => [CacheFile!Next]_(CacheFile!vars)
  <2>. SUFFICES ASSUME IInv, [Next]_vars
                PROVE  CacheFile!Next \/ UNCHANGED CacheFile!vars
      OBVIOUS
  <2>1. FileStep("cache")
      BY Zenon, NextFile DEF Files
  <2>. QED BY Zenon, <2>1 DEF FileStep, CacheFile!Next, CacheFile!vars, CacheFile!Replace,
                        CacheFile!Flush, CacheFile!PowerLoss
<1>3. IInv /\ [Next]_vars => [VerdictFile!Next]_(VerdictFile!vars)
  <2>. SUFFICES ASSUME IInv, [Next]_vars
                PROVE  VerdictFile!Next \/ UNCHANGED VerdictFile!vars
      OBVIOUS
  <2>1. FileStep("verdict")
      BY Zenon, NextFile DEF Files
  <2>. QED BY Zenon, <2>1 DEF FileStep, VerdictFile!Next, VerdictFile!vars, VerdictFile!Replace,
                        VerdictFile!Flush, VerdictFile!PowerLoss
<1>. QED BY <1>1, <1>2, <1>3, Invariance, PTL
    DEF FilesAtomic, CacheFile!Spec, VerdictFile!Spec, Spec

-----------------------------------------------------------------------------
(* Entries and the configuration they were produced under.                  *)

\* A process that is down or starting neither reloads nor saves, one that has not loaded
\* has no entries, and the save at shutdown is all a stopping one waits for.
Phases ==
    /\ reload \in {"idle", "read", "stored", "cleared"}
    /\ ~Running => reload = "idle" /\ \A w \in Writers : wpc[w] = "idle"
    /\ phase \in {"down", "cache"} => mem = Nothing
    /\ wpc["final"] # "idle" => phase = "stopping"

\* Versions only grow.
Upto(v, w) == v.conf <= w.conf /\ v.rules <= w.rules
Pure(image, others) == image.set \subseteq {image.fp} \cup others

\* While no save and no start has met a change that was being applied: a reload clears what
\* the state before it has left, but for late inserts, a file holds what its fingerprint
\* says, a start has loaded what was made for the rulesets it is about to load, and no save
\* at work has the fingerprint of a state whose reload has still to clear a cache.
Unmixed ==
    /\ Running /\ reload \in {"idle", "read"} => \A f \in Files : mem[f] \subseteq {hot} \cup late
    /\ reload = "cleared" => mem["cache"] \subseteq {hot} \cup late
    /\ phase \in {"verdict", "rules"} =>
            \A f \in Files : mem[f] \subseteq {Fingerprint(hot)} \cup late
    /\ \A f \in Files : Pure(tmp[f], late) /\ Pure(seen[f], late) /\ Pure(stable[f], late)
    /\ Upto(hot, disk)
    /\ reload = "read" => Upto(hot, read) /\ Upto(read, disk) /\ read # hot
    /\ \A w \in Writers : wpc[w] # "idle" =>
            Upto(wfp[w], hot) /\ (reload \in {"idle", "read"} \/ wfp[w] # hot)

\* The save at shutdown has not yet renamed, or not yet flushed, its version of a file.
ToRename(f) ==
    \/ wfile["final"] = f /\ wpc["final"] \in {"collect", "write", "sync", "rename"}
    \/ wfile["final"] = "cache" /\ f = "verdict" /\ wpc["final"] \notin {"idle", "tagged"}
ToFlush(f) == ToRename(f) \/ (wfile["final"] = f /\ wpc["final"] = "syncdir")

\* An image that the next start loads, with all there was.
Holds(image, f) == image.fp = disk /\ kept[f] \subseteq image.set

\* The cache has been loaded.
Ready(f) == Running \/ phase = "rules" \/ (phase = "verdict" /\ f = "cache")

\* From the save at shutdown to the next edit, what there was is in the caches, in each
\* temporary file, and in each file that save has come past.
KeptSafe ==
    /\ reload = "idle" /\ (Running => hot = disk)
    /\ phase \in Starting => hot.conf = disk.conf
    /\ \A f \in Files : Ready(f) => kept[f] \subseteq mem[f]
    /\ wpc["final"] # "idle" => wfp["final"] = disk
    /\ \A w \in Writers : wpc[w] \in {"write", "sync", "rename"} => Holds(tmp[wfile[w]], wfile[w])
    /\ \A f \in Files : (ToRename(f) \/ Holds(seen[f], f)) /\ (ToFlush(f) \/ Holds(stable[f], f))

EInv == Phases /\ (~overlap => Unmixed) /\ (~overlap /\ kept # Nothing => KeptSafe)

LEMMA PhasesStep ==
    ASSUME IInv, Phases, [Next]_vars
    PROVE  Phases'
<1>. USE DEF IInv, Typed, Phases, Writers, Running, Starting
<1>1. CASE Edit \/ UNCHANGED vars
    BY Zenon, <1>1 DEF Edit, vars, wvars, served
<1>2. CASE ReloadRead \/ ReloadStore \/ ReloadClear
    BY <1>2 DEF ReloadRead, ReloadStore, ReloadClear, wvars
<1>3. ASSUME NEW f \in Files, CheckGeneration(f) \/ Insert(f) PROVE Phases'
    BY <1>3 DEF CheckGeneration, Insert, wvars
<1>4. ASSUME NEW f \in Files, Load(f) PROVE Phases'
    BY <1>4 DEF Load, wvars, Files
<1>5. CASE Tick \/ LockTask
    BY <1>5 DEF Tick, LockTask, served
<1>6. CASE Shutdown \/ LockFinal
    BY <1>6 DEF Shutdown, LockFinal, wvars, served
<1>7. ASSUME NEW w \in Writers, Collect(w) \/ Write(w) \/ Sync(w) \/ Rename(w) PROVE Phases'
    BY Zenon, <1>7 DEF Collect, Write, Sync, Rename, served
<1>8. ASSUME NEW w \in Writers, SyncDir(w) \/ SaveFails(w) PROVE Phases'
  <2>1. /\ Running /\ wpc[w] \in {"write", "sync", "rename", "syncdir"} /\ AfterFile(w)
        /\ reload' = reload /\ mem' = mem
      BY Zenon, <1>8 DEF SyncDir, SaveFails, served
  <2>2. w = "task" => wpc["final"] = "idle" \/ wpc["final"] = "tagged"
      BY Zenon, <2>1, Alone
  <2>3. Running'
      BY <2>1 DEF AfterFile
  <2>4. wpc'["final"] # "idle" => phase' = "stopping"
      BY Zenon, <2>1, <2>2 DEF AfterFile
  <2>. QED BY <2>1, <2>3, <2>4
<1>9. CASE Exit \/ Killed \/ PowerLoss
    BY Zenon, <1>9 DEF Exit, Killed, PowerLoss, Gone
<1>10. CASE Start \/ Serve
    BY <1>10 DEF Start, Serve, wvars
<1>. QED BY <1>1, <1>2, <1>3, <1>4, <1>5, <1>6, <1>7, <1>8, <1>9, <1>10
        DEF Next, WriterStep, Idle

\* Steps that leave the entries and the versions alone: no new writer starts, and no file
\* gets anything but what another one held.
LEMMA UnmixedKept ==
    ASSUME Unmixed, UNCHANGED <<hot, reload, read, mem, wfp, late>>,
           Upto(hot, disk'), reload = "read" => Upto(read, disk'),
           Running' => Running,
           phase' \in {"verdict", "rules"} =>
               phase \in {"verdict", "rules"} /\ disk'.rules = disk.rules,
           \A w \in Writers : wpc'[w] # "idle" => wpc[w] # "idle",
           \A f \in Files : Pure(tmp'[f], late) /\ Pure(seen'[f], late) /\ Pure(stable'[f], late)
    PROVE  Unmixed'
<1>1. phase' \in {"verdict", "rules"} => Fingerprint(hot)' = Fingerprint(hot)
    BY Zenon DEF Fingerprint
<1>. QED BY Zenon, <1>1 DEF Unmixed, Upto, Pure

LEMMA WriterUnmixed ==
    ASSUME IInv, Phases, Unmixed, ~overlap', NEW w \in Writers, WriterStep(w)
    PROVE  Unmixed'
<1>. USE DEF IInv
<1>0. /\ UNCHANGED <<disk, hot, reload, read, mem, wfp, late>> /\ Running
      /\ Upto(hot, disk') /\ (reload = "read" => Upto(read, disk'))
    BY Zenon DEF WriterStep, Collect, Write, Sync, Rename, SyncDir, SaveFails, Unmixed, served,
       history
<1>a. /\ Running' => Running
      /\ phase' \in {"verdict", "rules"} =>
            phase \in {"verdict", "rules"} /\ disk'.rules = disk.rules
    BY <1>0 DEF WriterStep, Collect, Write, Sync, Rename, SyncDir, SaveFails, AfterFile
<1>1. CASE Collect(w)
  <2>1. wfp[w] = hot /\ wpc[w] = "collect"
      BY Zenon, <1>1 DEF Collect
  <2>2. mem[wfile[w]] \subseteq {wfp[w]} \cup late
      BY Zenon, <1>0, <2>1 DEF Unmixed, Typed
  <2>3. \A f \in Files : Pure(tmp'[f], late)
      BY Zenon, <1>1, <2>2 DEF Collect, Pure, Unmixed, Typed
  <2>4. UNCHANGED <<seen, stable>> /\ \A v \in Writers : wpc'[v] # "idle" => wpc[v] # "idle"
      BY Zenon, <1>1 DEF Collect, Typed
  <2>5. \A f \in Files : Pure(seen'[f], late) /\ Pure(stable'[f], late)
      BY Zenon, <2>4 DEF Unmixed
  <2>. QED BY Zenon, <1>0, <1>a, <2>3, <2>4, <2>5, UnmixedKept
<1>2. CASE Write(w) \/ Sync(w)
  <2>1. ASSUME NEW f \in Files PROVE tmp'[f].set = tmp[f].set /\ tmp'[f].fp = tmp[f].fp
    <3>1. tmp[f] \in Image /\ wfile[w] \in Files
        BY Zenon DEF Typed
    <3>2. CASE f = wfile[w]
        BY <1>2, <3>1, <3>2 DEF Write, Sync, Typed, Image
    <3>3. CASE f # wfile[w]
        BY Zenon, <1>2, <3>1, <3>3 DEF Write, Sync, Typed
    <3>. QED BY Zenon, <3>2, <3>3
  <2>2. UNCHANGED <<seen, stable>> /\ \A v \in Writers : wpc'[v] # "idle" => wpc[v] # "idle"
      BY Zenon, <1>2 DEF Write, Sync, Typed
  <2>3. \A f \in Files : Pure(tmp'[f], late) /\ Pure(seen'[f], late) /\ Pure(stable'[f], late)
      BY Zenon, <2>1, <2>2 DEF Unmixed, Pure
  <2>. QED BY Zenon, <1>0, <1>a, <2>2, <2>3, UnmixedKept
<1>3. CASE Rename(w)
  <2>1. \A f \in Files : /\ seen'[f] \in {seen[f], tmp[f]} /\ tmp'[f] \in {tmp[f], NoImage}
                         /\ stable'[f] = stable[f]
      BY Zenon, <1>3 DEF Rename, Typed
  <2>2. Pure(NoImage, late)
      BY Zenon DEF Pure, NoImage
  <2>3. \A f \in Files : Pure(tmp'[f], late) /\ Pure(seen'[f], late) /\ Pure(stable'[f], late)
      BY Zenon, <2>1, <2>2 DEF Unmixed
  <2>4. \A v \in Writers : wpc'[v] # "idle" => wpc[v] # "idle"
      BY <1>3 DEF Rename, Typed
  <2>. QED BY Zenon, <1>0, <1>a, <2>3, <2>4, UnmixedKept
<1>4. CASE SyncDir(w) \/ SaveFails(w)
  <2>1. \A f \in Files : /\ stable'[f] \in {seen[f], stable[f]} /\ seen'[f] = seen[f]
                         /\ tmp'[f].fp = tmp[f].fp /\ tmp'[f].set = tmp[f].set
    <3>1. CASE SyncDir(w)
        BY <3>1 DEF SyncDir, Typed
    <3>2. CASE SaveFails(w)
        BY Zenon, <3>2, LeftOver DEF SaveFails
    <3>. QED BY Zenon, <1>4, <3>1, <3>2
  <2>2. \A f \in Files : Pure(tmp'[f], late) /\ Pure(seen'[f], late) /\ Pure(stable'[f], late)
      BY Zenon, <2>1 DEF Unmixed, Pure
  <2>3. \A v \in Writers : wpc'[v] # "idle" => wpc[v] # "idle"
      BY Zenon, <1>4 DEF SyncDir, SaveFails, AfterFile, Typed
  <2>. QED BY Zenon, <1>0, <1>a, <2>2, <2>3, UnmixedKept
<1>. QED BY Zenon, <1>1, <1>2, <1>3, <1>4 DEF WriterStep

LEMMA Newer ==
    ASSUME NEW u \in Versions, NEW v \in Versions, NEW w \in Versions,
           Upto(u, v), Upto(v, w), v # w
    PROVE  Upto(u, w) /\ u # w
BY DEF Upto, Versions

LEMMA UnmixedStep ==
    ASSUME IInv, Phases, Unmixed, ~overlap', [Next]_vars
    PROVE  Unmixed'
<1>. USE DEF IInv
<1>1. CASE Edit
  <2>1. disk' \in Versions /\ disk'.conf >= disk.conf /\ disk'.rules >= disk.rules
      BY <1>1 DEF Edit, Typed, Versions
  <2>2. UNCHANGED <<hot, reload, read, mem, wfp, wpc, tmp, seen, stable, late, phase>>
      BY Zenon, <1>1 DEF Edit, wvars, files, served
  <2>3. Upto(hot, disk') /\ (reload = "read" => Upto(read, disk'))
      BY <2>1, <2>2 DEF Unmixed, Upto, Typed, Versions
  <2>4. phase \in {"verdict", "rules"} => disk'.rules = disk.rules
      BY <1>1 DEF Edit, Typed, Versions
  <2>5. Running' => Running
      BY Zenon, <2>2 DEF Running
  <2>. QED BY Zenon, <2>2, <2>3, <2>4, <2>5, UnmixedKept DEF Unmixed
<1>2. CASE ReloadRead
  <2>1. /\ Running /\ reload = "idle" /\ reload' = "read" /\ read' # hot
        /\ read' \in {disk, [hot EXCEPT !.rules = disk.rules]}
        /\ UNCHANGED <<disk, hot, mem, phase, wpc, wfp, tmp, seen, stable, late>>
      BY Zenon, <1>2 DEF ReloadRead, wvars, files, history
  <2>2. Upto(hot, read') /\ Upto(read', disk)
      BY <2>1 DEF Unmixed, Upto, Typed, Versions
  <2>3. Running' /\ phase' \notin {"verdict", "rules"}
      BY <2>1 DEF Running, Starting
  <2>. QED BY Zenon, <2>1, <2>2, <2>3 DEF Unmixed
<1>3. CASE ReloadStore
  <2>1. /\ Running /\ reload = "read" /\ hot' = read /\ reload' = "stored"
        /\ UNCHANGED <<disk, phase, wpc, wfp, tmp, seen, stable, late>>
      BY Zenon, <1>3 DEF ReloadStore, wvars, files, history
  <2>2. Upto(hot, read) /\ Upto(read, disk) /\ read # hot
      BY Zenon, <2>1 DEF Unmixed
  <2>3. \A w \in Writers : wpc[w] # "idle" => Upto(wfp[w], read) /\ wfp[w] # read
      BY Zenon, <2>2, Newer DEF Unmixed, Typed
  <2>4. phase' \notin {"verdict", "rules"}
      BY <2>1 DEF Running, Starting
  <2>. QED BY Zenon, <2>1, <2>2, <2>3, <2>4 DEF Unmixed
<1>4. CASE ReloadClear
  <2>1. phase' \notin {"verdict", "rules"}
      BY <1>4 DEF ReloadClear, Running, Starting
  <2>. QED BY <1>4, <2>1 DEF ReloadClear, Unmixed, Typed, Phases, Files, wvars, files, history
<1>5. ASSUME NEW f \in Files, CheckGeneration(f) PROVE Unmixed'
  <2>1. /\ UNCHANGED <<disk, hot, reload, read, mem, wfp, wpc, tmp, seen, stable, late, phase>>
      BY Zenon, <1>5 DEF CheckGeneration, wvars, files, history
  <2>2. Running' => Running
      BY Zenon, <2>1 DEF Running
  <2>. QED BY Zenon, <2>1, <2>2, UnmixedKept DEF Unmixed
<1>6. ASSUME NEW f \in Files, Insert(f) PROVE Unmixed'
  <2>1. PICK v \in fill[f] : Insert(f)!(v)
      BY Zenon, <1>6 DEF Insert
  <2>2. /\ Running /\ mem' = [mem EXCEPT ![f] = @ \cup {v}]
        /\ late' = IF v = hot \/ ToClear(f) THEN late ELSE late \cup {v}
        /\ UNCHANGED <<disk, hot, reload, read, phase, wpc, wfp, tmp, seen, stable>>
      BY Zenon, <2>1 DEF wvars, files
  <2>3. late \subseteq late' /\ (v \in {hot} \cup late' \/ ToClear(f))
      BY Zenon, <2>2
  <2>4. phase' \notin {"verdict", "rules"}
      BY <2>2 DEF Running, Starting
  <2>5. \A g \in Files : /\ g # f => mem'[g] = mem[g]
                         /\ mem'[g] \subseteq mem[g] \cup {v}
      BY Zenon, <2>2 DEF Typed
  <2>6. reload \in {"idle", "read"} => \A g \in Files : mem'[g] \subseteq {hot} \cup late'
    <3>1. reload \in {"idle", "read"} => ~ToClear(f)
        BY DEF ToClear
    <3>. QED BY Zenon, <2>2, <2>3, <2>5, <3>1 DEF Unmixed
  <2>7. reload = "cleared" => mem'["cache"] \subseteq {hot} \cup late'
    <3>1. reload = "cleared" /\ f = "cache" => ~ToClear(f)
        BY DEF ToClear
    <3>. QED BY Zenon, <2>3, <2>5, <3>1 DEF Unmixed, Files
  <2>8. \A g \in Files : /\ Pure(tmp[g], late') /\ Pure(seen[g], late')
                         /\ Pure(stable[g], late')
      BY Zenon, <2>3 DEF Unmixed, Pure
  <2>. QED BY Zenon, <2>2, <2>4, <2>6, <2>7, <2>8 DEF Unmixed
<1>7. CASE Tick \/ LockFinal
  <2>1. /\ hot = disk /\ reload = "idle" /\ Running /\ phase' = phase
        /\ UNCHANGED <<disk, hot, reload, read, mem, tmp, seen, stable, late>>
      BY <1>7 DEF Tick, LockFinal, Settled, files, served, Running, Starting
  <2>2. Fingerprint(hot) = hot
      BY Zenon, <2>1 DEF Fingerprint, Typed, Versions
  <2>3. \A w \in Writers :
            wpc'[w] # "idle" => wfp'[w] = hot \/ (wpc[w] # "idle" /\ wfp'[w] = wfp[w])
      BY Zenon, <1>7, <2>2 DEF Tick, LockFinal, Typed
  <2>4. \A w \in Writers : wpc'[w] # "idle" => Upto(wfp'[w], hot)
      BY <2>3 DEF Unmixed, Upto, Typed, Versions
  <2>5. phase' \notin {"verdict", "rules"}
      BY <2>1 DEF Running, Starting
  <2>. QED BY Zenon, <2>1, <2>4, <2>5 DEF Unmixed
<1>8. CASE LockTask \/ Shutdown
  <2>1. UNCHANGED <<disk, hot, reload, read, mem, wfp, tmp, seen, stable, late>>
      BY Zenon, <1>8 DEF LockTask, Shutdown, wvars, files, served, history
  <2>2. \A v \in Writers : wpc'[v] # "idle" => wpc[v] # "idle"
      BY Zenon, <1>8 DEF LockTask, Shutdown, Typed, wvars
  <2>3. Running /\ phase' \notin {"verdict", "rules"}
      BY <1>8 DEF LockTask, Shutdown, Running, Starting
  <2>. QED BY Zenon, <2>1, <2>2, <2>3, UnmixedKept DEF Unmixed
<1>9. ASSUME NEW w \in Writers, WriterStep(w) PROVE Unmixed'
    BY Zenon, <1>9, WriterUnmixed
<1>10. CASE Exit \/ Killed \/ PowerLoss
  <2>1. UNCHANGED <<disk, hot, late>> /\ Gone
      BY Zenon, <1>10 DEF Exit, Killed, PowerLoss, history
  <2>2. \A f \in Files : Pure(tmp'[f], late) /\ Pure(seen'[f], late) /\ Pure(stable'[f], late)
    <3>1. CASE Exit \/ Killed
        BY Zenon, <3>1 DEF Exit, Killed, files, Unmixed
    <3>2. CASE PowerLoss
      <4>1. Pure(NoImage, late) /\ tmp' = [f \in Files |-> NoImage]
          BY Zenon, <3>2 DEF Pure, NoImage, PowerLoss
      <4>. QED BY <3>2, <4>1, PowerLossFacts DEF Unmixed
    <3>. QED BY Zenon, <1>10, <3>1, <3>2
  <2>3. /\ phase' = "down" /\ reload' = "idle" /\ \A w \in Writers : wpc'[w] = "idle"
      BY Zenon, <2>1 DEF Gone
  <2>4. ~Running'
      BY <2>3 DEF Running
  <2>. QED BY <2>1, <2>2, <2>3, <2>4 DEF Unmixed
<1>11. CASE Start \/ Serve
  <2>1. /\ reload' = "idle" /\ UNCHANGED <<disk, mem, wpc, tmp, seen, stable, late>>
        /\ \A w \in Writers : wpc[w] = "idle"
      BY <1>11 DEF Start, Serve, Phases, Running, Starting, wvars, files, history
  <2>2. Upto(hot', disk)
      BY <1>11 DEF Start, Serve, Unmixed, Upto, Typed, Versions
  <2>3. Running' => \A f \in Files : mem[f] \subseteq {hot'} \cup late
    <3>1. CASE Start
        BY <3>1 DEF Start, Running, Starting
    <3>2. CASE Serve
      <4>1. hot' = Fingerprint(hot) /\ phase = "rules"
          BY <3>2 DEF Serve, Fingerprint, Typed, Versions
      <4>. QED BY Zenon, <4>1 DEF Unmixed
    <3>. QED BY Zenon, <1>11, <3>1, <3>2
  <2>4. phase' \notin {"verdict", "rules"}
      BY <1>11 DEF Start, Serve
  <2>. QED BY Zenon, <2>1, <2>2, <2>3, <2>4 DEF Unmixed
<1>12. ASSUME NEW f \in Files, Load(f) PROVE Unmixed'
  <2>1. /\ phase = f /\ phase' \in {"verdict", "rules"}
        /\ mem' = [mem EXCEPT ![f] = IF seen[f].fp = Fingerprint(hot) THEN seen[f].set ELSE {}]
        /\ UNCHANGED <<disk, hot, reload, read, wpc, wfp, tmp, seen, stable, late>>
      BY <1>12 DEF Load, wvars, files, history
  <2>2. \A g \in Files : mem[g] \subseteq {Fingerprint(hot)} \cup late
    <3>1. CASE phase = "cache"
        BY Zenon, <3>1 DEF Phases, Nothing
    <3>2. CASE phase = "verdict"
        BY Zenon, <3>2 DEF Unmixed
    <3>. QED BY Zenon, <2>1, <3>1, <3>2 DEF Files
  <2>3. \A g \in Files : mem'[g] \subseteq {Fingerprint(hot)} \cup late
      BY <2>1, <2>2 DEF Unmixed, Pure, Typed
  <2>4. ~Running' /\ reload = "idle" /\ \A w \in Writers : wpc[w] = "idle"
      BY <2>1 DEF Phases, Running, Starting, Files
  <2>5. Fingerprint(hot)' = Fingerprint(hot)
      BY Zenon, <2>1 DEF Fingerprint
  <2>. QED BY Zenon, <2>1, <2>3, <2>4, <2>5 DEF Unmixed
<1>13. CASE UNCHANGED vars
  <2>1. UNCHANGED <<disk, hot, reload, read, mem, phase, wfp, wpc, tmp, seen, stable, late>>
      BY Zenon, <1>13 DEF vars, wvars, files, served, history
  <2>2. Running' => Running
      BY Zenon, <2>1 DEF Running
  <2>. QED BY Zenon, <2>1, <2>2, UnmixedKept DEF Unmixed
<1>. QED BY <1>1, <1>2, <1>3, <1>4, <1>5, <1>6, <1>7, <1>8, <1>9, <1>10, <1>11, <1>12, <1>13
        DEF Next, Idle

\* Steps other than a writer's: nothing is written, and the save at shutdown stands still.
LEMMA KeptFrame ==
    ASSUME KeptSafe, UNCHANGED <<disk, reload, kept, tmp, seen, stable>>,
           Running' => hot' = disk, phase' \in Starting => hot'.conf = disk.conf,
           wfile'["final"] = wfile["final"], wpc'["final"] = wpc["final"],
           wfp'["final"] = wfp["final"],
           \A f \in Files : Ready(f)' => kept[f] \subseteq mem'[f],
           \A w \in Writers : wpc'[w] \in {"write", "sync", "rename"} =>
               wpc'[w] = wpc[w] /\ wfile'[w] = wfile[w]
    PROVE  KeptSafe'
BY DEF KeptSafe, ToRename, ToFlush, Holds

LEMMA LockFinalKept ==
    ASSUME IInv, ~overlap', LockFinal
    PROVE  KeptSafe'
<1>. USE DEF IInv
<1>1. /\ lock = "free" /\ hot = disk /\ reload = "idle" /\ kept' = mem
      /\ phase' = phase /\ phase \notin Starting
      /\ wpc' = [wpc EXCEPT !["final"] = "collect"]
      /\ wfile' = [wfile EXCEPT !["final"] = "cache"]
      /\ wfp' = [wfp EXCEPT !["final"] = Fingerprint(hot)]
      /\ UNCHANGED <<disk, hot, reload, mem>>
    BY DEF LockFinal, Settled, Starting, served
<1>2. Fingerprint(hot) = hot
    BY Zenon, <1>1 DEF Fingerprint, Typed, Versions
<1>3. \A w \in Writers : wpc'[w] \notin {"write", "sync", "rename"}
    BY Zenon, <1>1 DEF Typed, LockHeld, Writers
<1>4. wpc'["final"] = "collect" /\ wfile'["final"] = "cache" /\ wfp'["final"] = disk
    BY Zenon, <1>1, <1>2 DEF Typed, Writers
<1>5. \A f \in Files : ToRename(f)' /\ ToFlush(f)'
    BY Zenon, <1>4 DEF ToRename, ToFlush, Files
<1>. QED BY Zenon, <1>1, <1>3, <1>4, <1>5 DEF KeptSafe

\* What is written is what there is in the cache, under the fingerprint of now.
LEMMA TmpKept ==
    ASSUME IInv, KeptSafe, ~overlap', NEW w \in Writers, Collect(w) \/ Write(w) \/ Sync(w)
    PROVE  KeptSafe'
<1>. USE DEF IInv
<1>. DEFINE f == wfile[w]
<1>1. /\ UNCHANGED <<disk, hot, reload, mem, phase, kept, seen, stable, wfp, wfile>>
      /\ Running /\ wpc[w] \in {"collect", "write", "sync"}
      /\ wpc'[w] \in {"write", "sync", "rename"}
      /\ \A v \in Writers \ {w} : wpc'[v] = wpc[v]
    BY Zenon DEF Collect, Write, Sync, Typed, served, history
<1>2. f \in Files /\ tmp[f] \in Image
    BY Zenon DEF Typed
<1>3. Holds(tmp'[f], f)
  <2>1. CASE Collect(w)
    <3>1. wfp[w] = hot /\ tmp'[f].fp = wfp[w] /\ tmp'[f].set = mem[f]
        BY Zenon, <1>2, <2>1 DEF Collect, Typed
    <3>. QED BY Zenon, <1>1, <1>2, <3>1 DEF KeptSafe, Holds, Ready
  <2>2. CASE Write(w) \/ Sync(w)
    <3>1. Holds(tmp[f], f)
        BY Zenon, <2>2 DEF Write, Sync, KeptSafe
    <3>2. tmp'[f].fp = tmp[f].fp /\ tmp'[f].set = tmp[f].set
        BY <1>2, <2>2 DEF Write, Sync, Typed, Image
    <3>. QED BY Zenon, <3>1, <3>2 DEF Holds
  <2>. QED BY Zenon, <2>1, <2>2
<1>4. \A v \in Writers : wpc'[v] \in {"write", "sync", "rename"} => v = w
    BY Zenon, <1>1, Alone
<1>5. \A g \in Files : (ToRename(g) => ToRename(g)') /\ (ToFlush(g) => ToFlush(g)')
    BY Zenon, <1>1 DEF ToRename, ToFlush, Writers
<1>6. /\ hot' = disk' /\ reload' = "idle" /\ \A g \in Files : kept'[g] \subseteq mem'[g]
      /\ wpc'["final"] # "idle" => wfp'["final"] = disk'
    BY Zenon, <1>1 DEF KeptSafe, Ready, Writers
<1>7. \A v \in Writers : wpc'[v] \in {"write", "sync", "rename"} =>
          Holds(tmp[wfile[v]], wfile[v])'
    BY Zenon, <1>1, <1>3, <1>4 DEF Holds
<1>8. \A g \in Files : (ToRename(g) \/ Holds(seen[g], g))' /\ (ToFlush(g) \/ Holds(stable[g], g))'
    BY Zenon, <1>1, <1>5 DEF KeptSafe, Holds
<1>. QED BY <1>6, <1>7, <1>8 DEF KeptSafe

LEMMA RenameKept ==
    ASSUME IInv, KeptSafe, NEW w \in Writers, Rename(w)
    PROVE  KeptSafe'
<1>. USE DEF IInv
<1>. DEFINE f == wfile[w]
<1>1. /\ UNCHANGED <<disk, hot, reload, mem, phase, kept, stable, wfp, wfile>>
      /\ Running /\ wpc[w] = "rename" /\ wpc'[w] = "syncdir"
      /\ \A v \in Writers \ {w} : wpc'[v] = wpc[v]
    BY Zenon DEF Rename, Typed, served, history
<1>2. f \in Files /\ Holds(tmp[f], f)
    BY Zenon, <1>1 DEF KeptSafe, Typed
<1>3. seen'[f] = tmp[f] /\ \A g \in Files \ {f} : seen'[g] = seen[g]
    BY Zenon, <1>2 DEF Rename, Typed
<1>4. \A v \in Writers : wpc'[v] \notin {"write", "sync", "rename"}
    BY Zenon, <1>1, Alone
<1>5. \A g \in Files : (ToFlush(g) => ToFlush(g)') /\ (g # f /\ ToRename(g) => ToRename(g)')
    BY Zenon, <1>1 DEF ToRename, ToFlush, Writers
<1>6. /\ hot' = disk' /\ reload' = "idle" /\ \A g \in Files : kept'[g] \subseteq mem'[g]
      /\ wpc'["final"] # "idle" => wfp'["final"] = disk'
    BY Zenon, <1>1 DEF KeptSafe, Ready, Writers
<1>7. \A g \in Files : (ToRename(g) \/ Holds(seen[g], g))' /\ (ToFlush(g) \/ Holds(stable[g], g))'
    BY <1>1, <1>2, <1>3, <1>5 DEF KeptSafe, Holds
<1>. QED BY Zenon, <1>4, <1>6, <1>7 DEF KeptSafe

LEMMA SyncDirKept ==
    ASSUME IInv, KeptSafe, NEW w \in Writers, SyncDir(w)
    PROVE  KeptSafe'
<1>. USE DEF IInv
<1>. DEFINE f == wfile[w]
<1>1. /\ UNCHANGED <<disk, hot, reload, mem, kept, seen, wfp>>
      /\ Running /\ wpc[w] = "syncdir" /\ AfterFile(w)
    BY Zenon DEF SyncDir, served
<1>2. f \in Files /\ stable'[f] = seen[f] /\ \A g \in Files \ {f} : stable'[g] = stable[g]
    BY Zenon DEF SyncDir, Typed
<1>3. \A v \in Writers : wpc'[v] \in {"idle", "tagged", "collect"}
    BY Zenon, <1>1, AfterFileFacts
<1>4. /\ hot' = disk' /\ reload' = "idle" /\ \A g \in Files : kept'[g] \subseteq mem'[g]
      /\ wpc'["final"] # "idle" => wfp'["final"] = disk'
    BY Zenon, <1>1 DEF KeptSafe, Ready, Writers, AfterFile, Typed
<1>5. \A g \in Files : ToRename(g) => g # f
    BY Zenon, <1>1, Alone DEF ToRename, Writers
<1>6. \A g \in Files : (ToRename(g) => ToRename(g)') /\ (g # f /\ ToFlush(g) => ToFlush(g)')
  <2>1. CASE w = "task"
      BY <1>1, <2>1, Alone DEF ToRename, ToFlush, Writers
  <2>2. CASE w = "final" /\ f = "cache"
    <3>1. wfile'["final"] = "verdict" /\ wpc'["final"] = "collect"
        BY Zenon, <1>1, <2>2 DEF AfterFile, Typed, Writers
    <3>. QED BY <1>1, <2>2, <3>1 DEF ToRename, ToFlush, Files
  <2>3. CASE w = "final" /\ f # "cache"
      BY Zenon, <1>1, <2>3 DEF ToRename, ToFlush
  <2>. QED BY <2>1, <2>2, <2>3 DEF Writers
<1>7. \A g \in Files : (ToRename(g) \/ Holds(seen[g], g))' /\ (ToFlush(g) \/ Holds(stable[g], g))'
    BY <1>1, <1>2, <1>5, <1>6 DEF KeptSafe, Holds
<1>. QED BY Zenon, <1>3, <1>4, <1>7 DEF KeptSafe

LEMMA KeptStep ==
    ASSUME IInv, Phases, kept # Nothing => KeptSafe, [Next]_vars, ~overlap', kept' # Nothing
    PROVE  KeptSafe'
<1>. USE DEF IInv
<1>1. CASE LockFinal
    BY Zenon, <1>1, LockFinalKept
<1>2. CASE ~LockFinal
  <2>0. kept # Nothing /\ kept' = kept
      BY <1>2 DEF Next, WriterStep, Idle, Edit, ReloadRead, ReloadStore, ReloadClear,
                  CheckGeneration, Insert, Load, Tick, LockTask, Shutdown, Collect, Write, Sync,
                  Rename, SyncDir, SaveFails, Exit, Killed, PowerLoss, Start, Serve, vars, history
  <2>. KeptSafe
      BY Zenon, <2>0
  <2>1. CASE Edit
      BY Zenon, <2>0, <2>1 DEF Edit
  <2>2. CASE ReloadRead \/ ReloadStore \/ ReloadClear
      BY <2>2 DEF ReloadRead, ReloadStore, ReloadClear, KeptSafe, Typed, Versions
  <2>3. ASSUME NEW f \in Files, CheckGeneration(f) \/ Insert(f) PROVE KeptSafe'
    <3>1. /\ UNCHANGED <<disk, hot, reload, phase, kept, wpc, wfp, wfile, tmp, seen, stable>>
          /\ Running
        BY Zenon, <2>3 DEF CheckGeneration, Insert, wvars, files, history
    <3>2. \A g \in Files : mem[g] \subseteq mem'[g]
        BY <2>3 DEF CheckGeneration, Insert, Typed
    <3>3. \A g \in Files : kept[g] \subseteq mem'[g]
        BY Zenon, <3>1, <3>2 DEF KeptSafe, Ready
    <3>4. hot' = disk /\ phase' \notin Starting
        BY Zenon, <3>1 DEF KeptSafe, Running
    <3>. QED BY Zenon, <3>1, <3>3, <3>4, KeptFrame
  <2>4. ASSUME NEW f \in Files, Load(f) PROVE KeptSafe'
    <3>1. /\ UNCHANGED <<disk, hot, reload, kept, wpc, wfp, wfile, tmp, seen, stable>>
          /\ phase \in Starting /\ phase = f /\ phase' \in {"verdict", "rules"}
          /\ phase' = IF f = "cache" THEN "verdict" ELSE "rules"
          /\ mem' = [mem EXCEPT ![f] = IF seen[f].fp = Fingerprint(hot)
                                        THEN seen[f].set ELSE {}]
        BY <2>4 DEF Load, Files, Starting, wvars, files, history
    <3>2. ~Running' /\ ~Running
        BY <3>1 DEF Running, Starting
    <3>3. Fingerprint(hot) = disk
        BY Zenon, <3>1 DEF KeptSafe, Fingerprint, Typed, Versions
    <3>4. \A g \in Files : ~ToRename(g)
        BY Zenon, <3>2 DEF Phases, ToRename, Writers
    <3>5. kept[f] \subseteq mem'[f] /\ \A g \in Files \ {f} : mem'[g] = mem[g]
        BY <3>1, <3>3, <3>4 DEF KeptSafe, Holds, Typed
    <3>6. \A g \in Files : Ready(g)' => g = f \/ Ready(g)
        BY <3>1, <3>2 DEF Ready, Files
    <3>7. \A g \in Files : Ready(g)' => kept[g] \subseteq mem'[g]
        BY Zenon, <3>5, <3>6 DEF KeptSafe
    <3>. QED BY Zenon, <3>1, <3>2, <3>7, KeptFrame DEF KeptSafe
  <2>5. CASE Tick \/ LockTask \/ Shutdown
    <3>1. /\ UNCHANGED <<disk, hot, reload, kept, tmp, seen, stable, mem>> /\ Running
          /\ phase' \notin Starting
          /\ wfile'["final"] = wfile["final"] /\ wpc'["final"] = wpc["final"]
          /\ wfp'["final"] = wfp["final"]
          /\ \A w \in Writers : wpc'[w] \in {"write", "sync", "rename"} =>
                 wpc'[w] = wpc[w] /\ wfile'[w] = wfile[w]
        BY <2>5 DEF Tick, LockTask, Shutdown, Typed, Writers, Running, Starting, wvars, files,
           served, history
    <3>2. hot' = disk /\ \A f \in Files : kept[f] \subseteq mem'[f]
        BY Zenon, <3>1 DEF KeptSafe, Ready
    <3>. QED BY Zenon, <3>1, <3>2, KeptFrame
  <2>6. ASSUME NEW w \in Writers, WriterStep(w) PROVE KeptSafe'
    <3>1. ~SaveFails(w)
        BY Zenon, <2>0 DEF SaveFails
    <3>. QED BY <2>6, <3>1, TmpKept, RenameKept, SyncDirKept DEF WriterStep
  <2>7. CASE Exit \/ Killed \/ PowerLoss
    <3>1. Gone /\ phase \in Starting \cup {"saved", "down"} /\ UNCHANGED disk
        BY Zenon, <2>0, <2>7 DEF Exit, Killed, PowerLoss
    <3>2. \A f \in Files : ~ToRename(f) /\ ~ToFlush(f)
        BY <3>1 DEF Phases, Running, Starting, Writers, ToRename, ToFlush
    <3>3. \A f \in Files : /\ seen'[f] \in {seen[f], stable[f]}
                           /\ stable'[f] \in {seen[f], stable[f]}
        BY Zenon, <2>7, PowerLossFacts DEF Exit, Killed, files
    <3>4. \A f \in Files : Holds(seen[f], f)' /\ Holds(stable[f], f)'
        BY <2>0, <3>1, <3>2, <3>3 DEF KeptSafe, Holds
    <3>. QED BY <3>1, <3>4 DEF KeptSafe, Gone, Running, Starting, Ready, Writers
  <2>8. CASE Start
    <3>1. /\ phase' = "cache" /\ hot'.conf = disk.conf
          /\ UNCHANGED <<disk, reload, kept, wpc, wfp, wfile, tmp, seen, stable>>
        BY <2>8 DEF Start, wvars, files, history
    <3>2. ~Running' /\ \A f \in Files : ~Ready(f)'
        BY <3>1 DEF Running, Starting, Ready
    <3>. QED BY Zenon, <3>1, <3>2, KeptFrame
  <2>9. CASE Serve
    <3>1. /\ phase = "rules" /\ phase' = "serving" /\ hot' = [hot EXCEPT !.rules = disk.rules]
          /\ UNCHANGED <<disk, reload, mem, kept, wpc, wfp, wfile, tmp, seen, stable>>
        BY <2>9 DEF Serve, wvars, files, history
    <3>2. phase \in Starting /\ phase' \notin Starting /\ \A f \in Files : Ready(f)
        BY <3>1 DEF Starting, Ready
    <3>3. hot' = disk
        BY <3>1, <3>2 DEF KeptSafe, Typed, Versions
    <3>. QED BY Zenon, <3>1, <3>2, <3>3, KeptFrame DEF KeptSafe
  <2>10. CASE UNCHANGED vars
    <3>1. UNCHANGED <<disk, hot, reload, mem, phase, kept, wpc, wfp, wfile, tmp, seen, stable>>
        BY Zenon, <2>10 DEF vars, wvars, files, served, history
    <3>. QED BY <3>1, KeptFrame DEF KeptSafe, Running, Ready
  <2>. QED BY <1>2, <2>1, <2>2, <2>3, <2>4, <2>5, <2>6, <2>7, <2>8, <2>9, <2>10 DEF Next, Idle
<1>. QED BY Zenon, <1>1, <1>2

LEMMA OverlapStays ==
    ASSUME [Next]_vars, overlap PROVE overlap'
BY DEF Next, WriterStep, Idle, Edit, ReloadRead, ReloadStore, ReloadClear, CheckGeneration,
       Insert, Load, Tick, LockTask, LockFinal, Shutdown, Collect, Write, Sync, Rename, SyncDir,
       SaveFails, Exit, Killed, PowerLoss, Start, Serve, vars, history

LEMMA EntriesInvariance == Spec => [](IInv /\ EInv)
<1>1. Init => EInv
  <2>. SUFFICES ASSUME Init PROVE EInv
      OBVIOUS
  <2>1. Phases
      BY Zenon DEF Init, Phases, Writers, Running, Starting
  <2>2. \A f \in Files : tmp[f] = NoImage /\ seen[f] = NoImage /\ stable[f] = NoImage
      BY Zenon DEF Init
  <2>3. Pure(NoImage, late)
      BY Zenon DEF NoImage, Pure
  <2>4. Upto(hot, disk)
      BY DEF Init, Upto
  <2>5. Unmixed
      BY <2>2, <2>3, <2>4 DEF Init, Unmixed, Nothing
  <2>. QED BY Zenon, <2>1, <2>5 DEF EInv, Init
<1>2. IInv /\ EInv /\ [Next]_vars => EInv'
    BY PhasesStep, UnmixedStep, KeptStep, OverlapStays DEF EInv
<1>. QED BY <1>1, <1>2, InitIInv, NextIInv, PTL DEF Spec

\* A cache built under one configuration is never served under another (cache.rs:522), but for
\* late inserts, a save that overlaps a reload and an edit during a start, for any number of
\* edits, reloads, queries, saves, kills and starts.
THEOREM NoEntryMisapplied == Spec => []NeverMisapplied
<1>1. EInv => NeverMisapplied
    BY Zenon DEF EInv, Unmixed, NeverMisapplied
<1>. QED BY <1>1, EntriesInvariance, PTL

\* What the save at shutdown found is there again after the next start, through losses of
\* power in between, for any number of saves before it.
THEOREM NothingKeptIsLost == Spec => OrderlyStopKeeps
<1>1. IInv /\ EInv /\ [Next]_vars =>
          [Serve /\ ~overlap => \A f \in Files : kept[f] \subseteq mem'[f]]_vars
  <2>. SUFFICES ASSUME IInv, EInv, Serve, ~overlap, NEW f \in Files
                PROVE  kept[f] \subseteq mem'[f]
      OBVIOUS
  <2>1. CASE kept = Nothing
      BY Zenon, <2>1 DEF Nothing
  <2>2. CASE kept # Nothing
      BY Zenon, <2>2 DEF EInv, KeptSafe, Serve, Ready
  <2>. QED BY Zenon, <2>1, <2>2
<1>. QED BY <1>1, EntriesInvariance, PTL DEF Spec, OrderlyStopKeeps
=============================================================================
