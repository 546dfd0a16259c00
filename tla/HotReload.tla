----------------------------- MODULE HotReload -----------------------------
(***************************************************************************)
(* server.rs: the two watcher threads (config.json and the ruleset files), *)
(* from an inotify event to the stored HotState: debouncing, retries, the  *)
(* reload lock, reload_config, reload_ruleset with RuleSetDb::load, and    *)
(* the restart of a watch that failed.                                     *)
(*                                                                         *)
(* What queries see of a reload in progress is QueryPipeline; here a       *)
(* store, its invalidations and record_applied are one step.               *)
(***************************************************************************)
EXTENDS Integers, TLAPS

CONSTANTS Rulesets,       \* the files of route.ruleset
          Configs,        \* contents config.json may be given
          InitialConfig,  \* the content at startup
          BadFiles,       \* a ruleset file may be given content that does not load
          Retries,        \* RELOAD_RETRIES
          MaxEdits,       \* bound on file edits
          MaxRestarts     \* bound on failures of a watch

\* A content: does it load, which rulesets does it refer to, and the value of
\* its startup-only fields.
ConfigType == [ok : BOOLEAN, refs : SUBSET Rulesets, startup : Nat]

ReloadAssumption ==
    /\ Configs \subseteq ConfigType /\ InitialConfig \in ConfigType /\ InitialConfig.ok
    /\ Rulesets \cap {"config.json", "overflow"} = {}
    /\ BadFiles \in BOOLEAN /\ Retries \in Nat \ {0} /\ MaxEdits \in Nat
    /\ MaxRestarts \in Nat

VARIABLES diskConfig,     \* config.json
          disk,           \* disk[t]: version and loadability of ruleset file t
          hot,            \* the published HotState: config and loaded versions
          lock,           \* holder of reload_lock
          queue,          \* events the kernel holds for a watcher
          wpc,            \* where a watcher is
          changed,        \* changed_paths
          retries,        \* attempts left
          parsed,         \* the config a reload_config parsed
          todo, built,    \* files a reload still reads, versions it has read
          edits, restarts,
          missed          \* history: files whose change a broken watch lost

vars == <<diskConfig, disk, hot, lock, queue, wpc, changed, retries, parsed, todo, built, edits,
          restarts, missed>>

Watchers == {"config", "ruleset"}
ConfigFile == "config.json"
Overflow == "overflow"
Targets(w) == IF w = "config" THEN {ConfigFile} ELSE Rulesets
Unread == -1
NoDb == [t \in Rulesets |-> Unread]

TypeOK ==
    /\ diskConfig \in ConfigType
    /\ disk \in [Rulesets -> [ver : Nat, ok : BOOLEAN]]
    /\ hot \in [cfg : ConfigType, db : [Rulesets -> Nat \cup {Unread}], gen : Nat]
    /\ lock \in Watchers \cup {"free"}
    /\ queue \in [Watchers -> SUBSET (Rulesets \cup {ConfigFile, Overflow})]
    /\ wpc \in [Watchers -> {"down", "reading", "debounce", "reload", "parsed", "loading"}]
    /\ \A w \in Watchers : changed[w] \subseteq Targets(w)
    /\ retries \in [Watchers -> 0..Retries]
    /\ parsed \in ConfigType
    /\ todo \in [Watchers -> SUBSET Rulesets]
    /\ built \in [Watchers -> [Rulesets -> Nat \cup {Unread}]]
    /\ edits \in 0..MaxEdits /\ restarts \in 0..MaxRestarts
    /\ missed \subseteq Rulesets \cup {ConfigFile}

Init ==
    /\ diskConfig = InitialConfig
    /\ disk = [t \in Rulesets |-> [ver |-> 0, ok |-> TRUE]]
    /\ hot = [cfg |-> InitialConfig, gen |-> 0,
              db |-> [t \in Rulesets |-> IF t \in InitialConfig.refs THEN 0 ELSE Unread]]
    /\ lock = "free" /\ queue = [w \in Watchers |-> {}]
    /\ wpc = [w \in Watchers |-> "down"] /\ changed = [w \in Watchers |-> {}]
    /\ retries = [w \in Watchers |-> 0] /\ parsed = InitialConfig
    /\ todo = [w \in Watchers |-> {}] /\ built = [w \in Watchers |-> NoDb]
    /\ edits = 0 /\ restarts = 0 /\ missed = {}

-----------------------------------------------------------------------------
\* A file is written.  The kernel queues an event, or drops it and queues the
\* overflow mark; with no watch it does nothing.
Notify(w, f) ==
    IF wpc[w] = "down" THEN missed' = missed \cup {f} /\ UNCHANGED queue
    ELSE /\ \E e \in {f, Overflow} : queue' = [queue EXCEPT ![w] = @ \cup {e}]
         /\ UNCHANGED missed

EditConfig ==
    /\ edits < MaxEdits /\ edits' = edits + 1
    /\ \E c \in Configs \ {diskConfig} : diskConfig' = c
    /\ Notify("config", ConfigFile)
    /\ UNCHANGED <<disk, hot, lock, wpc, changed, retries, parsed, todo, built, restarts>>

EditRuleset(t) ==
    /\ edits < MaxEdits /\ edits' = edits + 1
    /\ \E ok \in {TRUE, ~BadFiles} : disk' = [disk EXCEPT ![t] = [ver |-> edits + 1, ok |-> ok]]
    /\ Notify("ruleset", t)
    /\ UNCHANGED <<diskConfig, hot, lock, wpc, changed, retries, parsed, todo, built, restarts>>

-----------------------------------------------------------------------------
\* spawn_reload_watcher and the head of watch_files: the watch is set up.
StartWatch(w) ==
    /\ wpc[w] = "down"
    /\ wpc' = [wpc EXCEPT ![w] = "reading"]
    /\ UNCHANGED <<diskConfig, disk, hot, lock, queue, changed, retries, parsed, todo, built,
                   edits, restarts, missed>>

\* read_events_blocking fails: watch_files returns with all it had collected.
WatchFails(w) ==
    /\ wpc[w] = "reading" /\ restarts < MaxRestarts
    /\ restarts' = restarts + 1
    /\ wpc' = [wpc EXCEPT ![w] = "down"]
    /\ missed' = missed \cup changed[w] \cup (queue[w] \ {Overflow})
                 \cup (IF Overflow \in queue[w] THEN Targets(w) ELSE {})
    /\ changed' = [changed EXCEPT ![w] = {}] /\ queue' = [queue EXCEPT ![w] = {}]
    /\ UNCHANGED <<diskConfig, disk, hot, lock, retries, parsed, todo, built, edits>>

\* collect_changed_paths.
Collected(w, events) == IF Overflow \in events THEN Targets(w) ELSE events

\* One blocking read returns some of the queued events.
ReadEvents(w) ==
    /\ wpc[w] = "reading"
    /\ \E events \in SUBSET queue[w] \ {{}} :
           /\ queue' = [queue EXCEPT ![w] = @ \ events]
           /\ changed' = [changed EXCEPT ![w] = @ \cup Collected(w, events)]
    /\ wpc' = [wpc EXCEPT ![w] = "debounce"]
    /\ UNCHANGED <<diskConfig, disk, hot, lock, retries, parsed, todo, built, edits, restarts,
                   missed>>

\* Mutant: within the debounce window the event is skipped, not delayed.
DebounceSkips(w) ==
    /\ wpc[w] = "debounce"
    /\ wpc' = [wpc EXCEPT ![w] = "reading"]
    /\ UNCHANGED <<diskConfig, disk, hot, lock, queue, changed, retries, parsed, todo, built,
                   edits, restarts, missed>>
\* The window is over, or it is slept out and what came meanwhile is read too.
Debounce(w) ==
    /\ wpc[w] = "debounce"
    /\ \E events \in SUBSET queue[w] :
           /\ queue' = [queue EXCEPT ![w] = @ \ events]
           /\ changed' = [changed EXCEPT ![w] = @ \cup Collected(w, events)]
    /\ wpc' = [wpc EXCEPT ![w] = "reload"]
    /\ retries' = [retries EXCEPT ![w] = Retries]
    /\ UNCHANGED <<diskConfig, disk, hot, lock, parsed, todo, built, edits, restarts, missed>>

\* The reload returned Ok: the collected changes count as applied.
Succeed(w) ==
    /\ wpc' = [wpc EXCEPT ![w] = "reading"] /\ changed' = [changed EXCEPT ![w] = {}]
    /\ retries' = [retries EXCEPT ![w] = 0]

\* It returned Err: it is tried again, or given up with the changes kept.
Fail(w) ==
    /\ wpc' = [wpc EXCEPT ![w] = IF retries[w] = 1 THEN "reading" ELSE "reload"]
    /\ retries' = [retries EXCEPT ![w] = @ - 1]
    /\ UNCHANGED changed

\* reload_ruleset up to the load: under the lock, from the current config.
\* With no tag in use there is nothing to do.  RuleSetDb::load reads the
\* changed files and takes the others from the previous database.
BeginRuleset ==
    LET w == "ruleset"
        reread == {t \in hot.cfg.refs : t \in changed[w] \/ hot.db[t] = Unread} IN
    /\ wpc[w] = "reload" /\ lock = "free"
    /\ \/ hot.cfg.refs = {} /\ Succeed(w) /\ UNCHANGED <<lock, todo, built>>
       \/ /\ hot.cfg.refs # {}
          /\ lock' = w /\ wpc' = [wpc EXCEPT ![w] = "loading"]
          /\ todo' = [todo EXCEPT ![w] = reread]
          /\ built' = [built EXCEPT ![w] =
                          [t \in Rulesets |-> IF t \in reread THEN Unread ELSE hot.db[t]]]
          /\ UNCHANGED <<changed, retries>>
    /\ UNCHANGED <<diskConfig, disk, hot, queue, parsed, edits, restarts, missed>>

\* reload_config parses the file before it takes the lock.
ParseConfig ==
    LET w == "config" IN
    /\ wpc[w] = "reload"
    /\ IF diskConfig.ok
       THEN /\ parsed' = diskConfig /\ wpc' = [wpc EXCEPT ![w] = "parsed"]
            /\ UNCHANGED <<changed, retries>>
       ELSE Fail(w) /\ UNCHANGED parsed
    /\ UNCHANGED <<diskConfig, disk, hot, lock, queue, todo, built, edits, restarts, missed>>

\* Mutant: the rulesets are loaded without the lock.
BeginConfigUnlocked ==
    LET w == "config" IN
    /\ wpc[w] = "parsed"
    /\ \/ parsed.startup # hot.cfg.startup /\ Succeed(w) /\ UNCHANGED <<todo, built>>
       \/ /\ parsed.startup = hot.cfg.startup
          /\ wpc' = [wpc EXCEPT ![w] = "loading"]
          /\ todo' = [todo EXCEPT ![w] = parsed.refs] /\ built' = [built EXCEPT ![w] = NoDb]
          /\ UNCHANGED <<changed, retries>>
    /\ UNCHANGED <<diskConfig, disk, hot, queue, parsed, edits, restarts, missed, lock>>
\* A changed startup-only field leaves all as it is, and counts as success.
BeginConfig ==
    LET w == "config" IN
    /\ wpc[w] = "parsed" /\ lock = "free"
    /\ \/ parsed.startup # hot.cfg.startup /\ Succeed(w) /\ UNCHANGED <<lock, todo, built>>
       \/ /\ parsed.startup = hot.cfg.startup
          /\ lock' = w /\ wpc' = [wpc EXCEPT ![w] = "loading"]
          /\ todo' = [todo EXCEPT ![w] = parsed.refs] /\ built' = [built EXCEPT ![w] = NoDb]
          /\ UNCHANGED <<changed, retries>>
    /\ UNCHANGED <<diskConfig, disk, hot, queue, parsed, edits, restarts, missed>>

Unlocked(w) == lock' = IF lock = w THEN "free" ELSE lock

\* One file is read; a file that does not load fails the reload.
LoadFile(w, t) ==
    /\ wpc[w] = "loading" /\ t \in todo[w]
    /\ IF disk[t].ok
       THEN /\ built' = [built EXCEPT ![w][t] = disk[t].ver]
            /\ todo' = [todo EXCEPT ![w] = @ \ {t}]
            /\ UNCHANGED <<wpc, changed, retries, lock>>
       ELSE /\ Fail(w) /\ Unlocked(w)
            /\ todo' = [todo EXCEPT ![w] = {}] /\ built' = [built EXCEPT ![w] = NoDb]
    /\ UNCHANGED <<diskConfig, disk, hot, queue, parsed, edits, restarts, missed>>

\* The new HotState is stored, the caches are cleared, the lock is released.
StoreHot(w) ==
    /\ wpc[w] = "loading" /\ todo[w] = {}
    /\ hot' = [cfg |-> IF w = "config" THEN parsed ELSE hot.cfg,
               db |-> built[w], gen |-> hot.gen + 1]
    /\ Succeed(w) /\ Unlocked(w)
    /\ built' = [built EXCEPT ![w] = NoDb]
    /\ UNCHANGED <<diskConfig, disk, queue, parsed, todo, edits, restarts, missed>>

WatcherStep(w) ==
    \/ StartWatch(w) \/ ReadEvents(w) \/ Debounce(w) \/ StoreHot(w)
    \/ \E t \in Rulesets : LoadFile(w, t)
RulesetStep == WatcherStep("ruleset") \/ BeginRuleset
ConfigStep == WatcherStep("config") \/ ParseConfig \/ BeginConfig

\* Both watchers wait for events and none will come.
Idle ==
    /\ edits = MaxEdits /\ restarts = MaxRestarts
    /\ \A w \in Watchers : wpc[w] = "reading" /\ queue[w] = {}
    /\ UNCHANGED vars

Next ==
    \/ EditConfig \/ \E t \in Rulesets : EditRuleset(t)
    \/ RulesetStep \/ ConfigStep
    \/ \E w \in Watchers : WatchFails(w)
    \/ Idle

Spec == Init /\ [][Next]_vars

-----------------------------------------------------------------------------
\* The config in force is that on disk, unless that needs a restart, and every
\* ruleset in use is the one on disk; as far as no watch was down meanwhile.
Current ==
    /\ ConfigFile \in missed \/ hot.cfg = diskConfig \/ diskConfig.startup # hot.cfg.startup
    /\ \A t \in hot.cfg.refs : t \in missed \/ hot.db[t] = disk[t].ver

\* reload_ruleset: every ruleset tag the published config refers to is loaded,
\* and no other: "the reload must use the current config's tags".
HotSelfConsistent == \A t \in Rulesets : hot.db[t] # Unread <=> t \in hot.cfg.refs

\* reload_config: "never apply only the hot half of a configuration whose
\* startup-owned resources no longer match".
StartupFieldsKept == hot.cfg.startup = InitialConfig.startup

\* watch_files: when both watchers wait with nothing queued and nothing
\* accumulated, what is published is what is on disk: no order of edits,
\* partial reads, reloads and incremental loads loses a change.
QuietMeansCurrent ==
    (\A w \in Watchers : wpc[w] = "reading" /\ queue[w] = {} /\ changed[w] = {}) => Current

\* watch_files: "every accumulated change is eventually applied": once all
\* files on disk load and stay as they are, what is published becomes and
\* remains what is on disk.
ChangesApplied ==
    <>[](diskConfig.ok /\ \A t \in Rulesets : disk[t].ok) => <>[]Current

-----------------------------------------------------------------------------
(* Proofs, for any number of rulesets, edits, retries and failures of a watch. *)

\* The types; a watcher only hears of its own files.
Typed ==
    /\ diskConfig \in ConfigType /\ parsed \in ConfigType
    /\ disk \in [Rulesets -> [ver : Nat, ok : BOOLEAN]]
    /\ hot \in [cfg : ConfigType, db : [Rulesets -> Nat \cup {-1}], gen : Nat]
    /\ lock \in {"config", "ruleset", "free"}
    /\ wpc \in [Watchers -> {"down", "reading", "debounce", "reload", "parsed", "loading"}]
    /\ todo \in [Watchers -> SUBSET Rulesets]
    /\ built \in [Watchers -> [Rulesets -> Nat \cup {-1}]]
    /\ edits \in 0 .. MaxEdits /\ restarts \in 0 .. MaxRestarts

Heard ==
    /\ queue \in [Watchers -> SUBSET (Rulesets \cup {"config.json", "overflow"})]
    /\ queue["config"] \subseteq {"config.json", "overflow"}
    /\ queue["ruleset"] \subseteq Rulesets \cup {"overflow"}
    /\ changed \in [Watchers -> SUBSET (Rulesets \cup {"config.json"})]
    /\ changed["config"] \subseteq {"config.json"} /\ changed["ruleset"] \subseteq Rulesets
    /\ missed \subseteq Rulesets \cup {"config.json"}

\* A reload under way has an attempt left, and one that loads holds the lock.
Trying ==
    /\ retries \in [Watchers -> 0 .. Retries]
    /\ \A w \in Watchers : wpc[w] \in {"reload", "parsed", "loading"} => retries[w] >= 1
Locked == \A w \in Watchers : wpc[w] = "loading" => lock = w

\* The rulesets a reload will publish: those of the configuration it publishes.
Loading ==
    /\ wpc["config"] = "loading" =>
           \A t \in Rulesets : (t \in todo["config"] \/ built["config"][t] # -1)
                               <=> t \in parsed.refs
    /\ wpc["ruleset"] = "loading" =>
           \A t \in Rulesets : (t \in todo["ruleset"] \/ built["ruleset"][t] # -1)
                               <=> t \in hot.cfg.refs
    /\ wpc["config"] = "loading" => parsed.startup = hot.cfg.startup

\* A config.json that is not in force is known to the watcher of config.json, and one that
\* was parsed before the latest edit will be parsed again.
ConfigTold ==
    /\ \/ hot.cfg = diskConfig \/ diskConfig.startup # hot.cfg.startup
       \/ "config.json" \in missed \/ queue["config"] # {} \/ changed["config"] # {}
    /\ wpc["config"] \in {"parsed", "loading"} =>
           parsed = diskConfig \/ "config.json" \in missed \/ queue["config"] # {}

\* A ruleset that is not in force is known to the watcher of the rulesets, or will be
\* when the reload is over that read it too early.
Told(t) == t \in missed \/ t \in queue["ruleset"] \/ "overflow" \in queue["ruleset"]
RulesetsTold ==
    /\ \A t \in hot.cfg.refs :
           hot.db[t] = disk[t].ver \/ Told(t) \/ t \in changed["ruleset"]
    /\ wpc["config"] = "loading" => \A t \in parsed.refs \ todo["config"] :
           built["config"][t] = disk[t].ver \/ Told(t) \/ t \in changed["ruleset"]
    /\ wpc["ruleset"] = "loading" => \A t \in hot.cfg.refs \ todo["ruleset"] :
           built["ruleset"][t] = disk[t].ver \/ Told(t)

\* The inductive invariant.
IInv == /\ Typed /\ Heard /\ Trying /\ Locked /\ Loading /\ ConfigTold /\ RulesetsTold
        /\ HotSelfConsistent /\ StartupFieldsKept

\* It holds when the state is first published (AppState::new).
LEMMA InitInv ==
    ASSUME ReloadAssumption, Init
    PROVE  IInv
<1>. USE DEF ReloadAssumption, Init, ConfigType, Watchers, NoDb, Unread
<1>1. Typed
    BY DEF Typed
<1>2. Heard
    BY DEF Heard
<1>3. Trying /\ Locked /\ Loading
    BY DEF Trying, Locked, Loading
<1>4. ConfigTold /\ RulesetsTold
    BY DEF ConfigTold, RulesetsTold
<1>5. HotSelfConsistent /\ StartupFieldsKept
    BY DEF HotSelfConsistent, StartupFieldsKept
<1>. QED BY Zenon, <1>1, <1>2, <1>3, <1>4, <1>5 DEF IInv

\* Every step keeps it: the edits, the watch, the debounce, and the two reloads.
LEMMA KeepsEditConfig ==
    ASSUME ReloadAssumption, IInv, EditConfig
    PROVE  IInv'
<1>. USE DEF IInv, ReloadAssumption, ConfigType, Watchers,
    EditConfig, Notify, ConfigFile, Overflow
<1>1. Typed'
    BY DEF Typed
<1>2. Heard' /\ Trying' /\ Locked'
    BY DEF Heard, Typed, Trying, Locked
<1>3. Loading' /\ HotSelfConsistent' /\ StartupFieldsKept'
    BY DEF Loading, Typed, HotSelfConsistent, StartupFieldsKept
<1>4. ConfigTold'
    <2>1. "config.json" \in missed' \/ queue'["config"] # {}
        <3>1. CASE wpc["config"] = "down"
            BY <3>1
        <3>2. CASE wpc["config"] # "down"
            <4>1. PICK e \in {"config.json", "overflow"} :
                      queue' = [queue EXCEPT !["config"] = @ \cup {e}]
                BY <3>2
            <4>2. e \in queue'["config"]
                BY <4>1 DEF Heard
            <4>. QED BY <4>2
        <3>. QED BY <3>1, <3>2
    <2>. QED BY <2>1 DEF ConfigTold
<1>5. RulesetsTold'
    BY DEF RulesetsTold, Typed, Told, Heard
<1>. QED BY Zenon, <1>1, <1>2, <1>3, <1>4, <1>5

LEMMA KeepsEditRuleset ==
    ASSUME NEW t \in Rulesets, ReloadAssumption, IInv, EditRuleset(t)
    PROVE  IInv'
<1>. USE DEF IInv, ReloadAssumption, ConfigType, Watchers,
    EditRuleset, Notify, Overflow
<1>1. Typed'
    <2>1. PICK ok \in {TRUE, ~BadFiles} :
              disk' = [disk EXCEPT ![t] = [ver |-> edits + 1, ok |-> ok]]
        OBVIOUS
    <2>2. [ver |-> edits + 1, ok |-> ok] \in [ver : Nat, ok : BOOLEAN]
        <3>1. edits + 1 \in Nat
            BY DEF Typed
        <3>2. ok \in BOOLEAN
            BY Zenon
        <3>. QED BY ONLY Zenon, <3>1, <3>2
    <2>3. disk' \in [Rulesets -> [ver : Nat, ok : BOOLEAN]]
        BY <2>1, <2>2 DEF Typed
    <2>. QED BY <2>3 DEF Typed
<1>2. Heard' /\ Trying' /\ Locked'
    BY DEF Heard, Typed, Trying, Locked
<1>3. Loading' /\ HotSelfConsistent' /\ StartupFieldsKept'
    BY DEF Loading, Typed, HotSelfConsistent, StartupFieldsKept
<1>4. ConfigTold'
    BY DEF ConfigTold, Typed, Heard
<1>5. RulesetsTold'
    BY DEF RulesetsTold, Typed, Told, Heard
<1>. QED BY Zenon, <1>1, <1>2, <1>3, <1>4, <1>5

LEMMA KeepsStartWatch ==
    ASSUME NEW w \in Watchers, ReloadAssumption, IInv, StartWatch(w)
    PROVE  IInv'
<1>. USE DEF IInv, ReloadAssumption, ConfigType, Watchers,
    StartWatch
<1>1. Typed'
    BY DEF Typed
<1>2. Heard' /\ Trying' /\ Locked'
    BY DEF Heard, Typed, Trying, Locked
<1>3. Loading' /\ HotSelfConsistent' /\ StartupFieldsKept'
    BY DEF Loading, Typed, HotSelfConsistent, StartupFieldsKept
<1>4. ConfigTold'
    BY DEF ConfigTold, Typed, Heard
<1>5. RulesetsTold'
    BY DEF RulesetsTold, Typed, Told, Heard
<1>. QED BY Zenon, <1>1, <1>2, <1>3, <1>4, <1>5

LEMMA KeepsWatchFails ==
    ASSUME NEW w \in Watchers, ReloadAssumption, IInv, WatchFails(w)
    PROVE  IInv'
<1>. USE DEF IInv, ReloadAssumption, ConfigType, Watchers,
    WatchFails, Targets, ConfigFile, Overflow
<1>1. Typed'
    BY DEF Typed
<1>2. Heard' /\ Trying' /\ Locked'
    BY DEF Heard, Typed, Trying, Locked
<1>3. Loading' /\ HotSelfConsistent' /\ StartupFieldsKept'
    BY DEF Loading, Typed, HotSelfConsistent, StartupFieldsKept
<1>4. ConfigTold'
    BY DEF ConfigTold, Typed, Heard
<1>5. RulesetsTold'
    BY DEF RulesetsTold, Typed, Told, Heard
<1>. QED BY Zenon, <1>1, <1>2, <1>3, <1>4, <1>5

LEMMA KeepsReadEvents ==
    ASSUME NEW w \in Watchers, ReloadAssumption, IInv, ReadEvents(w)
    PROVE  IInv'
<1>. USE DEF IInv, ReloadAssumption, ConfigType, Watchers,
    ReadEvents, Collected, Targets, ConfigFile, Overflow
<1>1. Typed'
    BY DEF Typed
<1>2. Heard' /\ Trying' /\ Locked'
    BY DEF Heard, Typed, Trying, Locked
<1>3. Loading' /\ HotSelfConsistent' /\ StartupFieldsKept'
    BY DEF Loading, Typed, HotSelfConsistent, StartupFieldsKept
<1>4. ConfigTold'
    <2>1. PICK news \in SUBSET queue[w] :
              /\ queue' = [queue EXCEPT ![w] = @ \ news]
              /\ changed' = [changed EXCEPT ![w] = @ \cup Collected(w, news)]
        OBVIOUS
    <2>2. ASSUME NEW e \in queue["config"]
          PROVE  queue'["config"] # {} \/ changed'["config"] # {}
        <3>1. CASE w = "config" /\ e \in news
            <4>1. "config.json" \in changed'["config"]
                BY <2>1, <3>1 DEF Heard
            <4>. QED BY <4>1
        <3>2. CASE ~ (w = "config" /\ e \in news)
            <4>1. e \in queue'["config"]
                BY <2>1, <3>2 DEF Heard
            <4>. QED BY <4>1
        <3>. QED BY <3>1, <3>2
    <2>3. ASSUME NEW e \in changed["config"]
          PROVE  changed'["config"] # {}
        <3>1. e \in changed'["config"]
            BY <2>1 DEF Heard
        <3>. QED BY <3>1
    <2>4. w # "config" => queue'["config"] = queue["config"]
        BY <2>1 DEF Heard
    <2>5. queue["config"] = {} \/ queue'["config"] # {} \/ changed'["config"] # {}
        BY Zenon, <2>2
    <2>6. changed["config"] = {} \/ changed'["config"] # {}
        BY Zenon, <2>3
    <2>. QED BY <2>4, <2>5, <2>6 DEF ConfigTold, Typed
<1>5. RulesetsTold'
    BY DEF RulesetsTold, Typed, Told, Heard
<1>. QED BY Zenon, <1>1, <1>2, <1>3, <1>4, <1>5

LEMMA KeepsDebounce ==
    ASSUME NEW w \in Watchers, ReloadAssumption, IInv, Debounce(w)
    PROVE  IInv'
<1>. USE DEF IInv, ReloadAssumption, ConfigType, Watchers,
    Debounce, Collected, Targets, ConfigFile, Overflow
<1>1. Typed'
    BY DEF Typed
<1>2. Heard' /\ Trying' /\ Locked'
    BY DEF Heard, Typed, Trying, Locked
<1>3. Loading' /\ HotSelfConsistent' /\ StartupFieldsKept'
    BY DEF Loading, Typed, HotSelfConsistent, StartupFieldsKept
<1>4. ConfigTold'
    <2>1. PICK news \in SUBSET queue[w] :
              /\ queue' = [queue EXCEPT ![w] = @ \ news]
              /\ changed' = [changed EXCEPT ![w] = @ \cup Collected(w, news)]
        OBVIOUS
    <2>2. ASSUME NEW e \in queue["config"]
          PROVE  queue'["config"] # {} \/ changed'["config"] # {}
        <3>1. CASE w = "config" /\ e \in news
            <4>1. "config.json" \in changed'["config"]
                BY <2>1, <3>1 DEF Heard
            <4>. QED BY <4>1
        <3>2. CASE ~ (w = "config" /\ e \in news)
            <4>1. e \in queue'["config"]
                BY <2>1, <3>2 DEF Heard
            <4>. QED BY <4>1
        <3>. QED BY <3>1, <3>2
    <2>3. ASSUME NEW e \in changed["config"]
          PROVE  changed'["config"] # {}
        <3>1. e \in changed'["config"]
            BY <2>1 DEF Heard
        <3>. QED BY <3>1
    <2>4. w # "config" => queue'["config"] = queue["config"]
        BY <2>1 DEF Heard
    <2>5. queue["config"] = {} \/ queue'["config"] # {} \/ changed'["config"] # {}
        BY Zenon, <2>2
    <2>6. changed["config"] = {} \/ changed'["config"] # {}
        BY Zenon, <2>3
    <2>. QED BY <2>4, <2>5, <2>6 DEF ConfigTold, Typed
<1>5. RulesetsTold'
    BY DEF RulesetsTold, Typed, Told, Heard
<1>. QED BY Zenon, <1>1, <1>2, <1>3, <1>4, <1>5

LEMMA KeepsBeginRuleset ==
    ASSUME ReloadAssumption, IInv, BeginRuleset
    PROVE  IInv'
<1>. USE DEF IInv, ReloadAssumption, ConfigType, Watchers,
    BeginRuleset, Succeed, Unread
<1>1. Typed'
    BY DEF Typed
<1>2. Heard' /\ Trying' /\ Locked'
    BY DEF Heard, Typed, Trying, Locked
<1>3. Loading' /\ HotSelfConsistent' /\ StartupFieldsKept'
    BY DEF Loading, Typed, Locked, HotSelfConsistent, Unread, StartupFieldsKept
<1>4. ConfigTold'
    BY DEF ConfigTold, Typed, Heard, Locked, Loading
<1>5. RulesetsTold'
    BY DEF RulesetsTold, Typed, Told, Heard, Locked, Loading, HotSelfConsistent, Unread
<1>. QED BY Zenon, <1>1, <1>2, <1>3, <1>4, <1>5

LEMMA KeepsParseConfig ==
    ASSUME ReloadAssumption, IInv, ParseConfig
    PROVE  IInv'
<1>. USE DEF IInv, ReloadAssumption, ConfigType, Watchers,
    ParseConfig, Fail
<1>1. Typed'
    BY DEF Typed
<1>2. Heard' /\ Trying' /\ Locked'
    BY DEF Heard, Typed, Trying, Locked
<1>3. Loading' /\ HotSelfConsistent' /\ StartupFieldsKept'
    BY DEF Loading, Typed, HotSelfConsistent, StartupFieldsKept
<1>4. ConfigTold'
    BY DEF ConfigTold, Typed, Heard
<1>5. RulesetsTold'
    BY DEF RulesetsTold, Typed, Told, Heard
<1>. QED BY Zenon, <1>1, <1>2, <1>3, <1>4, <1>5

LEMMA KeepsBeginConfig ==
    ASSUME ReloadAssumption, IInv, BeginConfig
    PROVE  IInv'
<1>. USE DEF IInv, ReloadAssumption, ConfigType, Watchers,
    BeginConfig, Succeed, NoDb, Unread
<1>1. Typed'
    BY DEF Typed
<1>2. Heard' /\ Trying' /\ Locked'
    BY DEF Heard, Typed, Trying, Locked
<1>3. Loading' /\ HotSelfConsistent' /\ StartupFieldsKept'
    BY DEF Loading, Typed, Locked, HotSelfConsistent, Unread, StartupFieldsKept
<1>4. ConfigTold'
    BY DEF ConfigTold, Typed, Heard, Locked, Loading
<1>5. RulesetsTold'
    BY DEF RulesetsTold, Typed, Told, Heard, Locked, Loading, HotSelfConsistent, Unread
<1>. QED BY Zenon, <1>1, <1>2, <1>3, <1>4, <1>5

LEMMA KeepsLoadFile ==
    ASSUME NEW w \in Watchers, NEW t \in Rulesets, ReloadAssumption, IInv, LoadFile(w, t)
    PROVE  IInv'
<1>. USE DEF IInv, ReloadAssumption, ConfigType, Watchers,
    LoadFile, Fail, Unlocked, NoDb, Unread
<1>1. Typed'
    <2>1. built' \in [Watchers -> [Rulesets -> Nat \cup {-1}]]
        <3>1. CASE disk[t].ok
            <4>1. built' = [built EXCEPT ![w] = [built[w] EXCEPT ![t] = disk[t].ver]]
                BY <3>1
            <4>2. [built[w] EXCEPT ![t] = disk[t].ver] \in [Rulesets -> Nat \cup {-1}]
                BY DEF Typed
            <4>. QED BY <4>1, <4>2 DEF Typed
        <3>2. CASE ~ disk[t].ok
            BY <3>2 DEF Typed
        <3>. QED BY <3>1, <3>2
    <2>. QED BY <2>1 DEF Typed
<1>2. Heard' /\ Trying' /\ Locked'
    BY DEF Heard, Typed, Trying, Locked
<1>3. Loading' /\ HotSelfConsistent' /\ StartupFieldsKept'
    BY DEF Loading, Typed, Locked, HotSelfConsistent, Unread, StartupFieldsKept
<1>4. ConfigTold'
    BY DEF ConfigTold, Typed, Heard, Locked, Loading
<1>5. RulesetsTold'
    <2>1. CASE disk[t].ok
        <3>1. \A u \in Rulesets : built'[w][u] = IF u = t THEN disk[t].ver ELSE built[w][u]
            BY <2>1 DEF Typed
        <3>2. \A v \in Watchers \ {w} : todo'[v] = todo[v] /\ built'[v] = built[v]
            BY <2>1 DEF Typed
        <3>3. todo'[w] = todo[w] \ {t} /\ UNCHANGED <<wpc, changed, queue, missed>>
            BY <2>1 DEF Typed
        <3>4. UNCHANGED <<hot, disk, parsed>>
            OBVIOUS
        <3>5. \A u : Told(u)' = Told(u)
            BY <3>3 DEF Told
        <3>6. \A u \in hot'.cfg.refs :
                  hot'.db[u] = disk'[u].ver \/ Told(u)' \/ u \in changed'["ruleset"]
            BY <3>3, <3>4, <3>5 DEF RulesetsTold
        <3>7. ASSUME wpc'["config"] = "loading", NEW u \in parsed'.refs \ todo'["config"]
              PROVE  built'["config"][u] = disk'[u].ver \/ Told(u)' \/ u \in changed'["ruleset"]
            <4>1. u \in Rulesets
                BY <3>4, <3>7 DEF Typed
            <4>2. CASE w = "config"
                BY <3>1, <3>3, <3>4, <3>5, <3>7, <4>1, <4>2 DEF RulesetsTold
            <4>3. CASE w # "config"
                BY <3>2, <3>3, <3>4, <3>5, <3>7, <4>1, <4>3 DEF RulesetsTold
            <4>. QED BY <4>2, <4>3
        <3>8. ASSUME wpc'["ruleset"] = "loading", NEW u \in hot'.cfg.refs \ todo'["ruleset"]
              PROVE  built'["ruleset"][u] = disk'[u].ver \/ Told(u)'
            <4>1. u \in Rulesets
                BY <3>4, <3>8 DEF Typed
            <4>2. CASE w = "ruleset"
                BY <3>1, <3>3, <3>4, <3>5, <3>8, <4>1, <4>2 DEF RulesetsTold
            <4>3. CASE w # "ruleset"
                BY <3>2, <3>3, <3>4, <3>5, <3>8, <4>1, <4>3 DEF RulesetsTold
            <4>. QED BY <4>2, <4>3
        <3>. QED BY Zenon, <3>6, <3>7, <3>8 DEF RulesetsTold
    <2>2. CASE ~ disk[t].ok
        BY <2>2 DEF RulesetsTold, Typed, Told
    <2>. QED BY <2>1, <2>2
<1>. QED BY Zenon, <1>1, <1>2, <1>3, <1>4, <1>5

LEMMA KeepsStoreHot ==
    ASSUME NEW w \in Watchers, ReloadAssumption, IInv, StoreHot(w)
    PROVE  IInv'
<1>. USE DEF IInv, ReloadAssumption, ConfigType, Watchers,
    StoreHot, Succeed, Unlocked, NoDb, Unread
<1>1. Typed'
    BY DEF Typed
<1>2. Heard' /\ Trying' /\ Locked'
    BY DEF Heard, Typed, Trying, Locked
<1>3. Loading' /\ HotSelfConsistent' /\ StartupFieldsKept'
    BY DEF Loading, Typed, Locked, HotSelfConsistent, Unread, StartupFieldsKept
<1>4. ConfigTold'
    BY DEF ConfigTold, Typed, Heard, Locked, Loading
<1>5. RulesetsTold'
    BY DEF RulesetsTold, Typed, Told, Heard, Locked, Loading, HotSelfConsistent, Unread
<1>. QED BY Zenon, <1>1, <1>2, <1>3, <1>4, <1>5

\* No step of either watcher, and no edit, breaks it.
LEMMA Step ==
    ASSUME ReloadAssumption, IInv, Next \/ UNCHANGED vars
    PROVE  IInv'
<1>1. CASE UNCHANGED vars
    BY Zenon, <1>1 DEF vars, IInv, Typed, Heard, Trying, Locked, Loading,
       ConfigTold, RulesetsTold, Told, HotSelfConsistent, StartupFieldsKept
<1>2. ASSUME NEW w \in Watchers, WatcherStep(w) \/ WatchFails(w)
      PROVE  IInv'
    BY Zenon, <1>2, KeepsStartWatch, KeepsWatchFails, KeepsReadEvents, KeepsDebounce,
       KeepsLoadFile, KeepsStoreHot DEF WatcherStep
<1>3. CASE RulesetStep \/ ConfigStep
    BY Zenon, <1>2, <1>3, KeepsBeginRuleset, KeepsParseConfig, KeepsBeginConfig
       DEF RulesetStep, ConfigStep, Watchers
<1>4. CASE EditConfig \/ \E t \in Rulesets : EditRuleset(t)
    BY Zenon, <1>4, KeepsEditConfig, KeepsEditRuleset
<1>. QED BY Zenon, <1>1, <1>2, <1>3, <1>4 DEF Next, Idle

\* reload_ruleset, reload_config and watch_files, for any rulesets and configurations and any
\* number of edits, retries and failures of a watch: what is published is consistent with
\* itself, and when both watchers wait with nothing pending it is what is on disk.
THEOREM PublishedIsCurrent ==
    ASSUME ReloadAssumption
    PROVE  Spec => [](TypeOK /\ HotSelfConsistent /\ StartupFieldsKept /\ QuietMeansCurrent)
<1>1. Init => IInv
    BY InitInv
<1>2. IInv /\ [Next]_vars => IInv'
    BY Step
<1>3. ASSUME IInv
      PROVE  TypeOK /\ HotSelfConsistent /\ StartupFieldsKept /\ QuietMeansCurrent
  <2>1. TypeOK
      BY <1>3 DEF IInv, Typed, Heard, Trying, TypeOK, ConfigType, Watchers, Targets, ConfigFile,
         Overflow, Unread
  <2>2. QuietMeansCurrent
      BY <1>3 DEF IInv, Typed, Heard, ConfigTold, RulesetsTold, Told, QuietMeansCurrent, Current,
         ConfigFile, Watchers
  <2>. QED BY Zenon, <1>3, <2>1, <2>2 DEF IInv
<1>. QED BY <1>1, <1>2, <1>3, PTL DEF Spec
=============================================================================
