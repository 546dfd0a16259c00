------------------------- MODULE QueryPipelineProofs -------------------------
(***************************************************************************)
(* The safety properties of QueryPipeline for any number of queries, keys, *)
(* reloaders and reloads.  The inductive invariant has parts that are      *)
(* preserved on their own: the singleflight table, the replies that go     *)
(* through it, the permits, and the caches across reloads.                 *)
(***************************************************************************)
EXTENDS QueryPipeline, FiniteSetTheorems, TLAPS

\* A sender in the table belongs to a query that registered under that key,
\* and the key is present.
WaitersWellFormed ==
    \A k \in SfKeys : \A w \in waiters[k] :
        k \in occupied /\ SfKey(w) = k /\ pc[w] \in {"following", "done"}

\* A follower with an open channel has its sender in the table.
WaitingIsListed ==
    \A q \in Queries :
        (pc[q] = "following" /\ chan[q].kind = "open") => q \in waiters[SfKey(q)]

\* What was sent to a follower comes from its own generation and its own key.
ChannelsOwnEntry ==
    \A q \in Queries : pc[q] = "following" =>
        /\ chan[q].kind \in {"answer", "drop"} => chan[q].gen = snap[q]
        /\ chan[q].kind \in {"answer", "servfail"}
              => KeyOf[chan[q].question] = KeyOf[QuestionOf[q]]

\* The part about the singleflight table.
SfInv ==
    /\ OneLeaderPerEntry
    /\ WaitersWellFormed
    /\ WaitingIsListed
    /\ ChannelsOwnEntry

\* The part about replies: they come last, and answer what was asked.
ReplyInv ==
    /\ \A q \in Queries : reply[q].kind # "none" => pc[q] \in {"published", "done"}
    /\ SharedUnderOwnGeneration
    /\ AnswersOwnQuestion

\* The part about reloads: one at a time, each publishing the successor of
\* the generation it found.
ReloadInv ==
    /\ \A r, s \in Reloaders : (rpc[r] # "idle" /\ rpc[s] # "idle") => r = s
    /\ \A r \in Reloaders : rpc[r] = "building" => rgen[r] = hot + 1
    /\ GenerationsUnique
    /\ StaleEntriesAreLate
    /\ StaleVerdictsAreLate

LEMMA SfKeyType ==
    ASSUME TypeOK, NEW q \in Queries
    PROVE  SfKey(q) \in SfKeys /\ CacheKey(q) \in Keys /\ Name(q) \in Names
BY Zenon, PipelineAssumption DEF TypeOK, SfKey, SfKeys, CacheKey, Name

LEMMA MessageType ==
    ASSUME NEW q \in Queries, NEW g \in Generations,
           NEW kind \in {"none", "open", "closed", "cached", "answer", "servfail",
                         "drop", "notimp"}
    PROVE  Message(kind, q, g) \in Messages
BY Zenon, PipelineAssumption DEF Message, Messages

LEMMA ZeroGeneration == 0 \in Generations
BY PipelineAssumption DEF Generations

\* A leader at work, between registering and publishing.
Work(q) ==
    \/ ReuseVerdict(q) \/ TestBoth(q) \/ Exchange(q) \/ JudgePrimary(q) \/ AddVerdict(q)
    \/ AwaitSecondary(q) \/ CheckGeneration(q) \/ CacheAdd(q) \/ Abandon(q)

LEMMA WorkIsQuiet ==
    ASSUME NEW q \in Queries, Work(q)
    PROVE  /\ pc[q] \in LeaderPcs
           /\ \E label \in LeaderPcs : Goto(q, label)
           /\ UNCHANGED <<snap, chan, reply, permits, occupied, waiters>>
<1>. USE DEF LeaderPcs, tableVars
<1>1. CASE ReuseVerdict(q)
    BY Zenon, <1>1 DEF ReuseVerdict
<1>2. CASE TestBoth(q)
    BY Zenon, <1>2 DEF TestBoth
<1>3. CASE Exchange(q)
    BY Zenon, <1>3 DEF Exchange
<1>4. CASE JudgePrimary(q)
    BY Zenon, <1>4 DEF JudgePrimary
<1>5. CASE AddVerdict(q)
    BY Zenon, <1>5 DEF AddVerdict
<1>6. CASE AwaitSecondary(q)
    BY Zenon, <1>6 DEF AwaitSecondary
<1>7. CASE CheckGeneration(q)
    BY Zenon, <1>7 DEF CheckGeneration
<1>8. CASE CacheAdd(q)
    BY Zenon, <1>8 DEF CacheAdd
<1>9. CASE Abandon(q)
    BY Zenon, <1>9 DEF Abandon
<1>. QED BY Zenon, <1>1, <1>2, <1>3, <1>4, <1>5, <1>6, <1>7, <1>8, <1>9 DEF Work

-----------------------------------------------------------------------------
(* Type correctness.                                                        *)

LEMMA InitType == Init => TypeOK
BY PipelineAssumption, ZeroGeneration, MessageType
DEF Init, TypeOK, Pcs

LEMMA TakeWaitersType ==
    ASSUME TypeOK, NEW q \in Queries, NEW m \in Messages, TakeWaiters(q, m)
    PROVE  /\ occupied' \subseteq SfKeys
           /\ waiters' \in [SfKeys -> SUBSET Queries]
           /\ chan' \in [Queries -> Messages]
BY Zenon, SfKeyType DEF TypeOK, TakeWaiters

LEMMA QueryType ==
    ASSUME TypeOK, NEW q \in Queries,
           FastPath(q) \/ Progress(q) \/ Abandon(q) \/ Deadline(q)
    PROVE  TypeOK'
<1>. USE DEF Goto, Pcs, PermitPcs, LeaderPcs
<1>1. CASE RejectPacket(q)
    BY <1>1, ZeroGeneration, MessageType DEF RejectPacket, TypeOK, tableVars, reloadVars
<1>2. CASE CacheHit(q)
    BY <1>2 DEF CacheHit, Hits, CacheEntries, Messages, TypeOK, tableVars, reloadVars
<1>3. CASE CacheMiss(q) \/ FindExpired(q)
    BY <1>3 DEF CacheMiss, FindExpired, TypeOK, tableVars, reloadVars
<1>4. CASE RemoveExpired(q)
    BY Zenon, <1>4 DEF RemoveExpired, TypeOK, tableVars, reloadVars
<1>5. CASE Admit(q)
    BY <1>5 DEF Admit, TypeOK, tableVars, reloadVars
<1>6. CASE Overload(q)
    BY Zenon, <1>6, ZeroGeneration, MessageType DEF Overload, TypeOK, tableVars, reloadVars
<1>7. CASE Snapshot(q)
    BY Zenon, <1>7 DEF Snapshot, TypeOK, tableVars, reloadVars
<1>8. CASE RegisterLeader(q)
    BY <1>8, SfKeyType DEF RegisterLeader, TypeOK, tableVars, reloadVars
<1>9. CASE RegisterFollower(q)
    BY Zenon, <1>9, SfKeyType, MessageType DEF RegisterFollower, TypeOK, tableVars, reloadVars
<1>10. CASE ReuseVerdict(q)
    BY Zenon, <1>10 DEF ReuseVerdict, Verdicts, TypeOK, tableVars, reloadVars
<1>11. CASE \/ TestBoth(q) \/ Exchange(q) \/ JudgePrimary(q) \/ AwaitSecondary(q)
            \/ CheckGeneration(q) \/ Abandon(q)
    BY <1>11 DEF TestBoth, Exchange, JudgePrimary, AwaitSecondary, CheckGeneration, Abandon,
                 TypeOK, tableVars, reloadVars
<1>12. CASE AddVerdict(q)
  <2>1. (hot # snap[q]) \in BOOLEAN
      OBVIOUS
  <2>2. [name |-> Name(q), gen |-> snap[q], late |-> hot # snap[q]] \in Verdicts
      BY Zenon, <2>1, SfKeyType DEF Verdicts, TypeOK
  <2>. QED BY Zenon, <1>12, <2>2 DEF AddVerdict, TypeOK, tableVars, reloadVars
<1>13. CASE CacheAdd(q)
  <2>1. (hot # snap[q]) \in BOOLEAN
      OBVIOUS
  <2>2. [key |-> CacheKey(q), question |-> QuestionOf[q], gen |-> snap[q],
         basis |-> basis[q], late |-> hot # snap[q]] \in CacheEntries
      BY Zenon, <2>1, SfKeyType, PipelineAssumption DEF CacheEntries, TypeOK
  <2>. QED BY Zenon, <1>13, <2>2 DEF CacheAdd, TypeOK, tableVars, reloadVars
<1>14. CASE Publish(q)
  <2>1. PICK kind \in {"answer", "drop", "servfail"} :
           /\ TakeWaiters(q, Message(kind, q, snap[q]))
           /\ reply' = [reply EXCEPT ![q] = Message(kind, q, snap[q])]
      BY Zenon, <1>14 DEF Publish
  <2>2. Message(kind, q, snap[q]) \in Messages
      BY Zenon, MessageType DEF TypeOK
  <2>. QED BY <1>14, <2>1, <2>2, TakeWaitersType DEF Publish, TypeOK, reloadVars
<1>15. CASE DropLeader(q)
  <2>1. /\ occupied' \subseteq SfKeys
        /\ waiters' \in [SfKeys -> SUBSET Queries]
        /\ chan' \in [Queries -> Messages]
      BY Zenon, <1>15, MessageType, TakeWaitersType DEF DropLeader, tableVars, TypeOK
  <2>2. /\ pc' = [pc EXCEPT ![q] = "done"]
        /\ reply' = [reply EXCEPT ![q] = reply[q]]
        /\ permits' = permits + 1
        /\ UNCHANGED <<snap, basis, cache, verdicts, reloadVars>>
      BY Zenon, <1>15 DEF DropLeader, Finish
  <2>. QED BY <2>1, <2>2 DEF TypeOK, reloadVars
<1>16. CASE Receive(q)
  <2>1. \E m \in Messages : Finish(q, m)
      BY Zenon, <1>16, MessageType DEF Receive, TypeOK
  <2>. QED BY <1>16, <2>1 DEF Receive, Finish, TypeOK, tableVars, reloadVars
<1>17. CASE Deadline(q)
    BY <1>17, MessageType DEF Deadline, Finish, TypeOK, tableVars, reloadVars
<1>. QED BY Zenon, <1>1, <1>2, <1>3, <1>4, <1>5, <1>6, <1>7, <1>8, <1>9, <1>10, <1>11, <1>12,
            <1>13, <1>14, <1>15, <1>16, <1>17 DEF FastPath, Progress

LEMMA ReloadType ==
    ASSUME TypeOK, NEW r \in Reloaders, BeginReload(r) \/ FinishReload(r)
    PROVE  TypeOK'
<1>. USE DEF TypeOK, queryVars, tableVars
<1>1. CASE BeginReload(r)
    BY <1>1, PipelineAssumption DEF BeginReload, Generations
<1>2. CASE AbortReload(r)
    BY <1>2 DEF AbortReload
<1>3. CASE StoreHot(r)
    BY <1>3 DEF StoreHot
<1>4. CASE InvalidateCache(r)
    BY <1>4 DEF InvalidateCache
<1>5. CASE InvalidateVerdicts(r)
    BY <1>5 DEF InvalidateVerdicts
<1>. QED BY Zenon, <1>1, <1>2, <1>3, <1>4, <1>5 DEF FinishReload

-----------------------------------------------------------------------------
(* The singleflight table.                                                  *)

LEMMA InitSf == Init => SfInv
BY Zenon DEF Init, SfInv, OneLeaderPerEntry, WaitersWellFormed, WaitingIsListed,
       ChannelsOwnEntry, LeaderPcs

\* A step that neither registers, publishes nor ends a wait.
LEMMA QuietSf ==
    ASSUME TypeOK, SfInv, NEW q \in Queries, NEW label \in Pcs, Goto(q, label),
           pc[q] \in LeaderPcs <=> label \in LeaderPcs,
           pc[q] \notin {"following", "done"}, label # "following",
           UNCHANGED <<snap, chan, occupied, waiters>>
    PROVE  SfInv'
<1>. USE DEF SfInv
<1>1. \A p \in Queries : SfKey(p)' = SfKey(p)
    BY Zenon DEF SfKey, CacheKey
<1>2. \A p \in Queries : pc'[p] \in LeaderPcs <=> pc[p] \in LeaderPcs
    BY Zenon DEF TypeOK, Goto
<1>3. OneLeaderPerEntry'
    BY <1>1, <1>2 DEF OneLeaderPerEntry
<1>4. WaitersWellFormed'
    BY Zenon, <1>1 DEF WaitersWellFormed, TypeOK, Goto
<1>5. WaitingIsListed' /\ ChannelsOwnEntry'
    BY Zenon, <1>1 DEF WaitingIsListed, ChannelsOwnEntry, TypeOK, Goto
<1>. QED BY Zenon, <1>3, <1>4, <1>5

LEMMA SnapshotSf ==
    ASSUME TypeOK, SfInv, NEW q \in Queries, Snapshot(q)
    PROVE  SfInv'
<1>. USE DEF SfInv
<1>0. /\ pc[q] = "admitted" /\ pc' = [pc EXCEPT ![q] = "routed"]
      /\ snap' = [snap EXCEPT ![q] = hot]
      /\ UNCHANGED <<chan, occupied, waiters>>
    BY Zenon DEF Snapshot, Goto, tableVars
<1>1. \A p \in Queries : p # q => SfKey(p)' = SfKey(p) /\ pc'[p] = pc[p]
    BY Zenon, <1>0 DEF SfKey, CacheKey, TypeOK
<1>2. pc[q] \notin LeaderPcs /\ pc'[q] \notin LeaderPcs /\ pc'[q] = "routed"
    BY Zenon, <1>0 DEF LeaderPcs, TypeOK
<1>3. OneLeaderPerEntry'
    BY <1>0, <1>1, <1>2 DEF OneLeaderPerEntry
<1>4. WaitersWellFormed'
    BY Zenon, <1>0, <1>1 DEF WaitersWellFormed, TypeOK
<1>5. WaitingIsListed' /\ ChannelsOwnEntry'
    BY Zenon, <1>0, <1>1, <1>2 DEF WaitingIsListed, ChannelsOwnEntry, TypeOK
<1>. QED BY Zenon, <1>3, <1>4, <1>5

LEMMA RegisterLeaderSf ==
    ASSUME TypeOK, SfInv, NEW q \in Queries, RegisterLeader(q)
    PROVE  SfInv'
<1>. USE DEF SfInv
<1>0. /\ pc[q] = "routed" /\ pc' = [pc EXCEPT ![q] = "leading"]
      /\ SfKey(q) \notin occupied /\ occupied' = occupied \cup {SfKey(q)}
      /\ UNCHANGED <<snap, chan, waiters>>
    BY Zenon DEF RegisterLeader, Goto
<1>1. \A p \in Queries : SfKey(p)' = SfKey(p)
    BY Zenon, <1>0 DEF SfKey, CacheKey
<1>2. pc[q] \notin LeaderPcs /\ pc'[q] \in LeaderPcs
    BY Zenon, <1>0 DEF LeaderPcs, TypeOK
<1>3. \A p \in Queries : p # q => pc'[p] = pc[p]
    BY Zenon, <1>0 DEF TypeOK
<1>4. \A p \in Queries : pc[p] \in LeaderPcs => SfKey(p) # SfKey(q)
    BY Zenon, <1>0, SfKeyType DEF OneLeaderPerEntry
<1>5. OneLeaderPerEntry'
    BY <1>0, <1>1, <1>2, <1>3, <1>4, SfKeyType DEF OneLeaderPerEntry
<1>6. WaitersWellFormed'
    BY Zenon, <1>0, <1>1, <1>3 DEF WaitersWellFormed, TypeOK
<1>7. WaitingIsListed' /\ ChannelsOwnEntry'
    BY Zenon, <1>0, <1>1 DEF WaitingIsListed, ChannelsOwnEntry, TypeOK
<1>. QED BY <1>5, <1>6, <1>7

LEMMA RegisterFollowerSf ==
    ASSUME TypeOK, SfInv, NEW q \in Queries, RegisterFollower(q)
    PROVE  SfInv'
<1>. USE DEF SfInv
<1>0. /\ pc[q] = "routed" /\ pc' = [pc EXCEPT ![q] = "following"]
      /\ SfKey(q) \in occupied
      /\ waiters' = [waiters EXCEPT ![SfKey(q)] = @ \cup {q}]
      /\ chan' = [chan EXCEPT ![q] = Message("open", q, snap[q])]
      /\ UNCHANGED <<snap, occupied>>
    BY Zenon DEF RegisterFollower, Goto
<1>1. \A p \in Queries : SfKey(p)' = SfKey(p)
    BY Zenon, <1>0 DEF SfKey, CacheKey
<1>2. \A p \in Queries : pc'[p] \in LeaderPcs <=> pc[p] \in LeaderPcs
    BY Zenon, <1>0 DEF LeaderPcs, TypeOK
<1>3. \A p \in Queries : p # q => pc'[p] = pc[p] /\ chan'[p] = chan[p]
    BY Zenon, <1>0 DEF TypeOK
<1>4. pc'[q] = "following" /\ chan'[q].kind = "open"
    BY Zenon, <1>0 DEF TypeOK, Message
<1>5. OneLeaderPerEntry'
    BY <1>0, <1>1, <1>2 DEF OneLeaderPerEntry
<1>6. \A k \in SfKeys : waiters'[k] = IF k = SfKey(q) THEN waiters[k] \cup {q} ELSE waiters[k]
    BY Zenon, <1>0, SfKeyType DEF TypeOK
<1>7. WaitersWellFormed'
    BY <1>0, <1>1, <1>3, <1>4, <1>6 DEF WaitersWellFormed, TypeOK
<1>8. WaitingIsListed'
    BY <1>1, <1>3, <1>6, SfKeyType DEF WaitingIsListed
<1>9. ChannelsOwnEntry'
    BY <1>0, <1>3, <1>4 DEF ChannelsOwnEntry
<1>. QED BY Zenon, <1>5, <1>7, <1>8, <1>9

\* The owner of an entry removes it and wakes exactly its own followers.
LEMMA TakeWaitersSf ==
    ASSUME TypeOK, SfInv, NEW q \in Queries, pc[q] \in LeaderPcs,
           NEW label \in {"published", "done"}, Goto(q, label),
           NEW m \in Messages, m.gen = snap[q], m.kind # "open", m.question = QuestionOf[q],
           TakeWaiters(q, m), UNCHANGED snap
    PROVE  SfInv'
<1>. USE DEF SfInv
<1>1. \A p \in Queries : SfKey(p)' = SfKey(p)
    BY Zenon DEF SfKey, CacheKey
<1>2. pc'[q] \notin LeaderPcs /\ pc'[q] # "following" /\ pc[q] # "following"
    BY Zenon DEF LeaderPcs, TypeOK, Goto
<1>3. \A p \in Queries : p # q => pc'[p] = pc[p]
    BY Zenon DEF TypeOK, Goto
<1>4. OneLeaderPerEntry'
  <2>1. \A p \in Queries : (p # q /\ pc[p] \in LeaderPcs) => SfKey(p) # SfKey(q)
      BY Zenon DEF OneLeaderPerEntry
  <2>. QED BY <1>1, <1>2, <1>3, <2>1, SfKeyType DEF OneLeaderPerEntry, TakeWaiters
<1>5. \A k \in SfKeys : waiters'[k] = IF k = SfKey(q) THEN {} ELSE waiters[k]
    BY Zenon, SfKeyType DEF TypeOK, TakeWaiters
<1>6. WaitersWellFormed'
  <2>. SUFFICES ASSUME NEW k \in SfKeys, NEW w \in waiters'[k]
                PROVE  k \in occupied' /\ SfKey(w)' = k /\ pc'[w] \in {"following", "done"}
      BY Zenon DEF WaitersWellFormed
  <2>1. k # SfKey(q) /\ w \in waiters[k] /\ w \in Queries
      BY Zenon, <1>5 DEF TypeOK
  <2>2. k \in occupied /\ SfKey(w) = k /\ pc[w] \in {"following", "done"}
      BY Zenon, <2>1 DEF WaitersWellFormed
  <2>. QED BY Zenon, <1>1, <1>3, <2>1, <2>2 DEF TakeWaiters
<1>7. \A w \in Queries : chan'[w] = IF w \in waiters[SfKey(q)] /\ chan[w].kind = "open"
                                    THEN m ELSE chan[w]
    BY Zenon DEF TakeWaiters
<1>8. WaitingIsListed'
    BY <1>1, <1>2, <1>3, <1>5, <1>7, SfKeyType DEF WaitingIsListed
<1>9. ChannelsOwnEntry'
  <2>1. \A w \in Queries : w \in waiters[SfKey(q)] =>
            snap[w] = snap[q] /\ KeyOf[QuestionOf[w]] = KeyOf[QuestionOf[q]]
      BY Zenon, SfKeyType DEF WaitersWellFormed, SfKey, CacheKey
  <2>. QED BY Zenon, <1>2, <1>3, <1>7, <2>1 DEF ChannelsOwnEntry
<1>. QED BY Zenon, <1>4, <1>6, <1>8, <1>9

\* A follower leaves; its sender may stay in the table.
LEMMA LeaveSf ==
    ASSUME TypeOK, SfInv, NEW q \in Queries, pc[q] = "following", Goto(q, "done"),
           \A p \in Queries : p # q => chan'[p] = chan[p],
           UNCHANGED <<snap, occupied, waiters>>
    PROVE  SfInv'
<1>. USE DEF SfInv
<1>1. \A p \in Queries : SfKey(p)' = SfKey(p)
    BY Zenon DEF SfKey, CacheKey
<1>2. \A p \in Queries : p # q => pc'[p] = pc[p]
    BY Zenon DEF TypeOK, Goto
<1>3. pc'[q] = "done" /\ pc[q] \notin LeaderPcs /\ pc'[q] \notin LeaderPcs
    BY Zenon DEF TypeOK, Goto, LeaderPcs
<1>4. OneLeaderPerEntry'
    BY <1>1, <1>2, <1>3 DEF OneLeaderPerEntry
<1>5. WaitersWellFormed'
    BY <1>1, <1>2, <1>3 DEF WaitersWellFormed, TypeOK
<1>6. WaitingIsListed' /\ ChannelsOwnEntry'
    BY <1>1, <1>2, <1>3 DEF WaitingIsListed, ChannelsOwnEntry
<1>. QED BY Zenon, <1>4, <1>5, <1>6

LEMMA QuerySf ==
    ASSUME TypeOK, SfInv, NEW q \in Queries,
           FastPath(q) \/ Progress(q) \/ Abandon(q) \/ Deadline(q)
    PROVE  SfInv'
<1>1. CASE FastPath(q)
  <2>1. PICK label \in {"done", "missed", "expired"} : Goto(q, label)
      BY Zenon, <1>1 DEF FastPath, RejectPacket, CacheHit, CacheMiss, FindExpired
  <2>2. pc[q] \in {"new", "missed"} /\ UNCHANGED <<snap, chan, occupied, waiters>>
      BY Zenon, <1>1 DEF FastPath, RejectPacket, CacheHit, CacheMiss, FindExpired, tableVars
  <2>. QED BY Zenon, <2>1, <2>2, QuietSf DEF LeaderPcs, PermitPcs, Pcs
<1>2. CASE RemoveExpired(q) \/ Admit(q) \/ Overload(q)
  <2>1. PICK label \in {"missed", "admitted", "done"} : Goto(q, label)
      BY Zenon, <1>2 DEF RemoveExpired, Admit, Overload
  <2>2. pc[q] \in {"expired", "missed"} /\ UNCHANGED <<snap, chan, occupied, waiters>>
      BY Zenon, <1>2 DEF RemoveExpired, Admit, Overload, tableVars
  <2>. QED BY Zenon, <2>1, <2>2, QuietSf DEF LeaderPcs, PermitPcs, Pcs
<1>3. CASE Work(q)
  <2>1. PICK label \in LeaderPcs : Goto(q, label)
      BY Zenon, <1>3, WorkIsQuiet
  <2>2. pc[q] \in LeaderPcs /\ UNCHANGED <<snap, chan, occupied, waiters>>
      BY Zenon, <1>3, WorkIsQuiet
  <2>3. \A l \in LeaderPcs : l \in Pcs /\ l \notin {"following", "done"}
      BY Zenon DEF LeaderPcs, PermitPcs, Pcs
  <2>. QED BY Zenon, <2>1, <2>2, <2>3, QuietSf
<1>4. CASE Publish(q)
  <2>1. PICK kind \in {"answer", "drop", "servfail"} :
           TakeWaiters(q, Message(kind, q, snap[q]))
      BY Zenon, <1>4 DEF Publish
  <2>2. /\ pc[q] \in LeaderPcs /\ Goto(q, "published") /\ UNCHANGED snap
      BY Zenon, <1>4 DEF Publish, LeaderPcs
  <2>. DEFINE m == Message(kind, q, snap[q])
  <2>3. m \in Messages /\ m.gen = snap[q] /\ m.kind # "open" /\ m.question = QuestionOf[q]
      BY Zenon, MessageType DEF TypeOK, Message
  <2>. HIDE DEF m
  <2>4. TakeWaiters(q, m)
      BY Zenon, <2>1 DEF m
  <2>. QED BY Zenon, <2>2, <2>3, <2>4, TakeWaitersSf
<1>5. CASE DropLeader(q)
  <2>0. Goto(q, "done") /\ UNCHANGED snap
      BY Zenon, <1>5 DEF DropLeader, Finish
  <2>1. CASE pc[q] = "published" /\ UNCHANGED <<tableVars, chan>>
      BY Zenon, <2>0, <2>1, QuietSf DEF LeaderPcs, PermitPcs, Pcs, tableVars
  <2>2. CASE pc[q] = "abandoned" /\ TakeWaiters(q, Message("closed", q, snap[q]))
    <3>. DEFINE m == Message("closed", q, snap[q])
    <3>1. m \in Messages /\ m.gen = snap[q] /\ m.kind # "open" /\ m.question = QuestionOf[q]
        BY Zenon, MessageType DEF TypeOK, Message
    <3>. HIDE DEF m
    <3>2. TakeWaiters(q, m) /\ pc[q] \in LeaderPcs
        BY Zenon, <2>2 DEF m, LeaderPcs
    <3>. QED BY Zenon, <2>0, <3>1, <3>2, TakeWaitersSf
  <2>. QED BY <1>5, <2>1, <2>2 DEF DropLeader
<1>6. CASE Receive(q) \/ Deadline(q)
  <2>1. pc[q] = "following" /\ Goto(q, "done") /\ UNCHANGED <<snap, occupied, waiters>>
      BY Zenon, <1>6 DEF Receive, Deadline, Finish, tableVars
  <2>2. \A p \in Queries : p # q => chan'[p] = chan[p]
      BY Zenon, <1>6 DEF Receive, Deadline, TypeOK
  <2>. QED BY Zenon, <2>1, <2>2, LeaveSf
<1>. QED BY Zenon, <1>1, <1>2, <1>3, <1>4, <1>5, <1>6, SnapshotSf, RegisterLeaderSf,
            RegisterFollowerSf DEF Progress, Work

-----------------------------------------------------------------------------
(* Replies.                                                                 *)

LEMMA InitReply == Init => ReplyInv
BY DEF Init, ReplyInv, SharedUnderOwnGeneration, AnswersOwnQuestion, Message

\* A step before the reply.
LEMMA SilentReply ==
    ASSUME TypeOK, ReplyInv, NEW q \in Queries, pc[q] \notin {"published", "done"},
           NEW label, Goto(q, label), UNCHANGED reply,
           \A p \in Queries : p # q => snap'[p] = snap[p]
    PROVE  ReplyInv'
<1>1. reply[q].kind = "none"
    BY Zenon DEF ReplyInv
<1>. QED BY Zenon, <1>1 DEF ReplyInv, SharedUnderOwnGeneration, AnswersOwnQuestion, TypeOK, Goto

\* The step that sets the reply, and the drop of a leader, which keeps it.
LEMMA SetReply ==
    ASSUME TypeOK, ReplyInv, NEW q \in Queries,
           NEW label \in {"published", "done"}, Goto(q, label),
           NEW m, reply' = [reply EXCEPT ![q] = m], UNCHANGED snap,
           m.kind \in {"answer", "drop"} => m.gen = snap[q],
           m.kind = "cached" => m.question = QuestionOf[q],
           m.kind \in {"answer", "servfail"}
               => SameSection(m.question, q) /\ KeyOf[m.question] = CacheKey(q)
    PROVE  ReplyInv'
<1>1. \A p \in Queries : reply'[p] = IF p = q THEN m ELSE reply[p]
    BY Zenon DEF TypeOK
<1>2. \A p \in Queries : pc'[p] = IF p = q THEN label ELSE pc[p]
    BY Zenon DEF TypeOK, Goto
<1>. QED BY <1>1, <1>2 DEF ReplyInv, SharedUnderOwnGeneration, AnswersOwnQuestion

LEMMA QueryReply ==
    ASSUME TypeOK, SfInv, ReplyInv, NEW q \in Queries,
           FastPath(q) \/ Progress(q) \/ Abandon(q) \/ Deadline(q)
    PROVE  ReplyInv'
<1>1. CASE RejectPacket(q)
  <2>1. PICK kind \in {"notimp", "none"} :
           reply' = [reply EXCEPT ![q] = Message(kind, q, 0)]
      BY Zenon, <1>1 DEF RejectPacket
  <2>2. Goto(q, "done") /\ UNCHANGED snap
      BY Zenon, <1>1 DEF RejectPacket
  <2>3. Message(kind, q, 0).kind = kind
      BY Zenon DEF Message
  <2>. QED BY <2>1, <2>2, <2>3, SetReply, Zenon
<1>2. CASE CacheHit(q)
  <2>1. PICK e \in Hits(q) :
           reply' = [reply EXCEPT ![q] =
                        [kind |-> "cached", question |-> e.question, gen |-> e.gen]]
      BY Zenon, <1>2 DEF CacheHit
  <2>2. e.question = QuestionOf[q]
      BY Zenon DEF Hits
  <2>. QED BY Zenon, <1>2, <2>1, <2>2, SetReply DEF CacheHit
<1>3. CASE Overload(q)
    BY Zenon, <1>3, SetReply DEF Overload, Message, SameSection, CacheKey
<1>4. CASE Publish(q)
  <2>1. PICK kind \in {"answer", "drop", "servfail"} :
           reply' = [reply EXCEPT ![q] = Message(kind, q, snap[q])]
      BY Zenon, <1>4 DEF Publish
  <2>. QED BY Zenon, <1>4, <2>1, SetReply DEF Publish, Message, SameSection, CacheKey
<1>5. CASE DropLeader(q)
    BY Zenon, <1>5, SetReply
    DEF DropLeader, Finish, ReplyInv, SharedUnderOwnGeneration, AnswersOwnQuestion
<1>6. CASE Receive(q)
  <2>1. PICK m : /\ Finish(q, m)
                 /\ \/ m = chan[q] /\ m.kind = "drop"
                    \/ /\ m = chan[q] /\ m.kind \in {"answer", "servfail"}
                       /\ SameSection(m.question, q)
                    \/ m = Message("servfail", q, snap[q])
      BY Zenon, <1>6 DEF Receive
  <2>2. /\ chan[q].kind \in {"answer", "drop"} => chan[q].gen = snap[q]
        /\ chan[q].kind \in {"answer", "servfail"} =>
               KeyOf[chan[q].question] = KeyOf[QuestionOf[q]]
      BY Zenon, <1>6 DEF Receive, SfInv, ChannelsOwnEntry
  <2>3. m.kind \in {"answer", "drop"} => m.gen = snap[q]
    <3>1. CASE m = chan[q]
        BY <2>2, <3>1, Zenon
    <3>2. CASE m = Message("servfail", q, snap[q])
      <4>1. m.gen = snap[q]
          BY <3>2, Zenon DEF Message
      <4>. QED BY <4>1, Zenon
    <3>. QED BY <2>1, <3>1, <3>2, Zenon
  <2>4. /\ m.kind # "cached"
        /\ m.kind \in {"answer", "servfail"}
              => SameSection(m.question, q) /\ KeyOf[m.question] = CacheKey(q)
    <3>1. CASE m = Message("servfail", q, snap[q])
      <4>1. m.kind = "servfail" /\ m.question = QuestionOf[q]
          BY <3>1, Zenon DEF Message
      <4>. QED BY <4>1, Zenon DEF SameSection, CacheKey
    <3>. QED BY <2>1, <2>2, <3>1, Zenon DEF CacheKey
  <2>5. Goto(q, "done") /\ reply' = [reply EXCEPT ![q] = m] /\ UNCHANGED snap
      BY Zenon, <1>6, <2>1 DEF Receive, Finish
  <2>. QED BY <2>3, <2>4, <2>5, SetReply, Zenon
<1>7. CASE Deadline(q)
  <2>1. /\ Goto(q, "done") /\ UNCHANGED snap
        /\ reply' = [reply EXCEPT ![q] = Message("servfail", q, snap[q])]
      BY Zenon, <1>7 DEF Deadline, Finish
  <2>. QED BY <2>1, SetReply, Zenon DEF Message, SameSection, CacheKey
<1>8. CASE \/ CacheMiss(q) \/ FindExpired(q) \/ RemoveExpired(q) \/ Admit(q) \/ Snapshot(q)
           \/ RegisterLeader(q) \/ RegisterFollower(q)
  <2>1. pc[q] \in {"new", "expired", "missed", "admitted", "routed"} /\ UNCHANGED reply
      BY Zenon, <1>8 DEF CacheMiss, FindExpired, RemoveExpired, Admit, Snapshot, RegisterLeader,
                  RegisterFollower
  <2>2. \A p \in Queries : p # q => snap'[p] = snap[p]
      BY Zenon, <1>8 DEF CacheMiss, FindExpired, RemoveExpired, Admit, Snapshot, RegisterLeader,
                  RegisterFollower, TypeOK
  <2>3. \E label : Goto(q, label)
      BY Zenon, <1>8 DEF CacheMiss, FindExpired, RemoveExpired, Admit, Snapshot, RegisterLeader,
                  RegisterFollower
  <2>. QED BY Zenon, <2>1, <2>2, <2>3, SilentReply
<1>9. CASE Work(q)
  <2>1. pc[q] \notin {"published", "done"} /\ UNCHANGED <<snap, reply>>
      BY Zenon, <1>9, WorkIsQuiet DEF LeaderPcs
  <2>2. \E label : Goto(q, label)
      BY Zenon, <1>9, WorkIsQuiet
  <2>. QED BY Zenon, <2>1, <2>2, SilentReply
<1>. QED BY Zenon, <1>1, <1>2, <1>3, <1>4, <1>5, <1>6, <1>7, <1>8, <1>9
    DEF FastPath, Progress, Work

-----------------------------------------------------------------------------
(* Permits.                                                                 *)

LEMMA HoldersFinite ==
    /\ IsFiniteSet(PermitHolders)
    /\ Cardinality(PermitHolders) \in Nat
<1>1. PermitHolders \in SUBSET Queries /\ IsFiniteSet(Queries)
    BY Zenon, PipelineAssumption DEF PermitHolders
<1>2. IsFiniteSet(PermitHolders)
    BY Zenon, <1>1, FS_Subset
<1>. QED BY Zenon, <1>2, FS_CardinalityType

LEMMA InitPermits == Init => PermitsConserved
<1>. SUFFICES ASSUME Init PROVE PermitsConserved
    OBVIOUS
<1>1. PermitHolders = {}
    BY Zenon DEF Init, PermitHolders, PermitPcs, LeaderPcs
<1>. QED BY <1>1, FS_EmptySet, PipelineAssumption DEF Init, PermitsConserved

LEMMA KeepPermit ==
    ASSUME TypeOK, PermitsConserved, NEW q \in Queries, NEW label, Goto(q, label),
           pc[q] \in PermitPcs <=> label \in PermitPcs, UNCHANGED permits
    PROVE  PermitsConserved'
<1>1. PermitHolders' = PermitHolders
    BY Zenon DEF PermitHolders, TypeOK, Goto
<1>. QED BY Zenon, <1>1 DEF PermitsConserved

LEMMA ReleasePermit ==
    ASSUME TypeOK, PermitsConserved, NEW q \in Queries, pc[q] \in PermitPcs,
           Goto(q, "done"), permits' = permits + 1
    PROVE  PermitsConserved'
<1>1. PermitHolders' = PermitHolders \ {q} /\ q \in PermitHolders
    BY Zenon DEF PermitHolders, TypeOK, Goto, PermitPcs, LeaderPcs
<1>2. Cardinality(PermitHolders \ {q}) = Cardinality(PermitHolders) - 1
    BY Zenon, <1>1, HoldersFinite, FS_RemoveElement
<1>. QED BY <1>1, <1>2, HoldersFinite DEF PermitsConserved, TypeOK

LEMMA QueryPermits ==
    ASSUME TypeOK, PermitsConserved, NEW q \in Queries,
           FastPath(q) \/ Progress(q) \/ Abandon(q) \/ Deadline(q)
    PROVE  PermitsConserved'
<1>1. CASE FastPath(q) \/ RemoveExpired(q) \/ Overload(q)
  <2>1. PICK label \in {"done", "missed", "expired"} : Goto(q, label)
      BY Zenon, <1>1 DEF FastPath, RejectPacket, CacheHit, CacheMiss, FindExpired, RemoveExpired,
                  Overload
  <2>2. pc[q] \in {"new", "missed", "expired"} /\ UNCHANGED permits
      BY Zenon, <1>1 DEF FastPath, RejectPacket, CacheHit, CacheMiss, FindExpired, RemoveExpired,
                  Overload
  <2>. QED BY Zenon, <2>1, <2>2, KeepPermit DEF PermitPcs, LeaderPcs
<1>2. CASE Admit(q)
  <2>1. PermitHolders' = PermitHolders \cup {q} /\ q \notin PermitHolders
      BY Zenon, <1>2 DEF Admit, PermitHolders, TypeOK, Goto, PermitPcs, LeaderPcs
  <2>2. Cardinality(PermitHolders \cup {q}) = Cardinality(PermitHolders) + 1
      BY Zenon, <2>1, HoldersFinite, FS_AddElement
  <2>. QED BY <1>2, <2>1, <2>2, HoldersFinite DEF Admit, PermitsConserved, TypeOK
<1>3. CASE Snapshot(q) \/ RegisterLeader(q) \/ RegisterFollower(q) \/ Publish(q)
  <2>1. PICK label \in {"routed", "leading", "following", "published"} : Goto(q, label)
      BY Zenon, <1>3 DEF Snapshot, RegisterLeader, RegisterFollower, Publish
  <2>2. /\ pc[q] \in {"admitted", "routed", "publishing", "dropped", "errored"}
        /\ UNCHANGED permits
      BY Zenon, <1>3 DEF Snapshot, RegisterLeader, RegisterFollower, Publish
  <2>. QED BY Zenon, <2>1, <2>2, KeepPermit DEF PermitPcs, LeaderPcs
<1>4. CASE Work(q)
  <2>1. PICK label \in LeaderPcs : Goto(q, label)
      BY <1>4, WorkIsQuiet
  <2>2. pc[q] \in LeaderPcs /\ UNCHANGED permits
      BY Zenon, <1>4, WorkIsQuiet
  <2>. QED BY <2>1, <2>2, KeepPermit DEF PermitPcs
<1>5. CASE DropLeader(q) \/ Receive(q) \/ Deadline(q)
  <2>1. /\ pc[q] \in {"published", "abandoned", "following"}
        /\ Goto(q, "done") /\ permits' = permits + 1
      BY Zenon, <1>5 DEF DropLeader, Receive, Deadline, Finish
  <2>. QED BY Zenon, <2>1, ReleasePermit DEF PermitPcs, LeaderPcs
<1>. QED BY Zenon, <1>1, <1>2, <1>3, <1>4, <1>5 DEF Progress, Work

-----------------------------------------------------------------------------
(* The caches across reloads.                                               *)

LEMMA InitReload == Init => ReloadInv
<1>. SUFFICES ASSUME Init PROVE ReloadInv
    OBVIOUS
<1>1. \A r \in Reloaders : rpc[r] = "idle"
    BY Zenon DEF Init
<1>2. cache = {} /\ verdicts = {} /\ hot = stores
    BY Zenon DEF Init
<1>. QED BY Zenon, <1>1, <1>2
    DEF ReloadInv, GenerationsUnique, StaleEntriesAreLate, StaleVerdictsAreLate

\* A query may add what is current or marked late, and remove anything.
LEMMA CacheWrite ==
    ASSUME ReloadInv, UNCHANGED reloadVars,
           \A e \in cache' : e \in cache \/ e.gen = hot \/ e.late,
           \A v \in verdicts' : v \in verdicts \/ v.gen = hot \/ v.late
    PROVE  ReloadInv'
<1>1. hot' = hot /\ rpc' = rpc /\ rgen' = rgen /\ stores' = stores
    BY Zenon DEF reloadVars
<1>2. GenerationsUnique'
    BY Zenon, <1>1 DEF ReloadInv, GenerationsUnique
<1>3. StaleEntriesAreLate'
    BY Zenon, <1>1 DEF ReloadInv, StaleEntriesAreLate
<1>4. StaleVerdictsAreLate'
    BY Zenon, <1>1 DEF ReloadInv, StaleVerdictsAreLate
<1>. QED BY Zenon, <1>1, <1>2, <1>3, <1>4 DEF ReloadInv

LEMMA QueryReload ==
    ASSUME TypeOK, ReloadInv, NEW q \in Queries,
           FastPath(q) \/ Progress(q) \/ Abandon(q) \/ Deadline(q)
    PROVE  ReloadInv'
<1>1. UNCHANGED reloadVars
  <2>1. CASE FastPath(q) \/ RemoveExpired(q) \/ Admit(q) \/ Overload(q) \/ Snapshot(q)
      BY Zenon, <2>1 DEF FastPath, RejectPacket, CacheHit, CacheMiss, FindExpired, RemoveExpired,
                  Admit, Overload, Snapshot
  <2>2. CASE \/ RegisterLeader(q) \/ RegisterFollower(q) \/ Publish(q) \/ DropLeader(q)
             \/ Receive(q) \/ Deadline(q)
      BY Zenon, <2>2 DEF RegisterLeader, RegisterFollower, Publish, DropLeader, Receive, Deadline
  <2>3. CASE Work(q)
      BY <2>3, Zenon DEF Work, ReuseVerdict, TestBoth, Exchange, JudgePrimary, AddVerdict,
                  AwaitSecondary, CheckGeneration, CacheAdd, Abandon
  <2>. QED BY Zenon, <2>1, <2>2, <2>3 DEF Progress, Work
<1>2. CASE RemoveExpired(q)
  <2>1. cache' \subseteq cache /\ UNCHANGED verdicts
      BY <1>2, SMTT(30) DEF RemoveExpired
  <2>. QED BY Zenon, <1>1, <2>1, CacheWrite
<1>3. CASE CacheAdd(q)
  <2>. DEFINE new == [key |-> CacheKey(q), question |-> QuestionOf[q], gen |-> snap[q],
                      basis |-> basis[q], late |-> hot # snap[q]]
  <2>1. cache' \subseteq cache \cup {new} /\ UNCHANGED verdicts
      BY Zenon, <1>3 DEF CacheAdd
  <2>2. new.gen = hot \/ new.late
      BY Zenon
  <2>. HIDE DEF new
  <2>. QED BY <1>1, <2>1, <2>2, CacheWrite, SMTT(30)
<1>4. CASE AddVerdict(q)
  <2>. DEFINE new == [name |-> Name(q), gen |-> snap[q], late |-> hot # snap[q]]
  <2>1. verdicts' \subseteq verdicts \cup {new} /\ UNCHANGED cache
      BY Zenon, <1>4 DEF AddVerdict
  <2>2. new.gen = hot \/ new.late
      BY Zenon
  <2>. HIDE DEF new
  <2>. QED BY <1>1, <2>1, <2>2, CacheWrite, SMTT(30)
<1>5. CASE UNCHANGED <<cache, verdicts>>
    BY <1>1, <1>5, CacheWrite, SMTT(30)
<1>6. CASE FastPath(q) \/ Admit(q) \/ Overload(q) \/ Snapshot(q)
    BY Zenon, <1>5, <1>6 DEF FastPath, RejectPacket, CacheHit, CacheMiss, FindExpired, Admit,
                      Overload, Snapshot
<1>7. CASE \/ RegisterLeader(q) \/ RegisterFollower(q) \/ Publish(q) \/ DropLeader(q)
           \/ Receive(q) \/ Deadline(q)
    BY Zenon, <1>5, <1>7 DEF RegisterLeader, RegisterFollower, Publish, DropLeader, Receive,
       Deadline
<1>8. CASE Work(q) /\ ~AddVerdict(q) /\ ~CacheAdd(q)
    BY <1>5, <1>8, Zenon DEF Work, ReuseVerdict, TestBoth, Exchange, JudgePrimary, AwaitSecondary,
                      CheckGeneration, Abandon
<1>. QED BY <1>2, <1>3, <1>4, <1>6, <1>7, <1>8 DEF Progress, Work

\* The reload that clears the caches is the only one that runs, so what it
\* leaves behind is late.
LEMMA ReloadReload ==
    ASSUME TypeOK, ReloadInv, NEW r \in Reloaders, BeginReload(r) \/ FinishReload(r)
    PROVE  ReloadInv'
<1>. USE DEF ReloadInv, GenerationsUnique, StaleEntriesAreLate, StaleVerdictsAreLate
<1>1. CASE BeginReload(r)
    BY Zenon, <1>1 DEF BeginReload, TypeOK, Generations
<1>2. CASE AbortReload(r)
    BY <1>2 DEF AbortReload, TypeOK
<1>3. CASE StoreHot(r)
    BY Zenon, <1>3 DEF StoreHot, TypeOK, Generations
<1>4. CASE InvalidateCache(r)
    BY Zenon, <1>4 DEF InvalidateCache, TypeOK
<1>5. CASE InvalidateVerdicts(r)
    BY <1>5 DEF InvalidateVerdicts, TypeOK
<1>. HIDE DEF ReloadInv, GenerationsUnique, StaleEntriesAreLate, StaleVerdictsAreLate
<1>. QED BY <1>1, <1>2, <1>3, <1>4, <1>5 DEF FinishReload

-----------------------------------------------------------------------------
(* The invariant and what follows from it.                                  *)

IInv == TypeOK /\ SfInv /\ ReplyInv /\ PermitsConserved /\ ReloadInv

LEMMA NextIInv == IInv /\ [Next]_vars => IInv'
<1>. SUFFICES ASSUME IInv, [Next]_vars PROVE IInv'
    OBVIOUS
<1>1. ASSUME NEW q \in Queries, FastPath(q) \/ Progress(q) \/ Abandon(q) \/ Deadline(q)
      PROVE  IInv'
    BY Zenon, <1>1, QueryType, QuerySf, QueryReply, QueryPermits, QueryReload DEF IInv
<1>2. ASSUME NEW r \in Reloaders, BeginReload(r) \/ FinishReload(r)
      PROVE  IInv'
  <2>1. UNCHANGED <<queryVars, permits, tableVars>>
      BY <1>2, SMTT(30) DEF BeginReload, FinishReload, AbortReload, StoreHot, InvalidateCache,
                            InvalidateVerdicts
  <2>2. SfInv' /\ ReplyInv' /\ PermitsConserved'
      BY <2>1 DEF IInv, SfInv, ReplyInv, PermitsConserved, OneLeaderPerEntry,
                  WaitersWellFormed, WaitingIsListed, ChannelsOwnEntry, SfKey, CacheKey,
                  SharedUnderOwnGeneration, AnswersOwnQuestion, PermitHolders, queryVars,
                  tableVars
  <2>. QED BY <1>2, <2>2, ReloadType, ReloadReload DEF IInv
<1>3. CASE UNCHANGED vars
  <2>1. TypeOK'
      BY <1>3, SMTT(30) DEF vars, IInv, TypeOK
  <2>2. SfInv'
      BY Zenon, <1>3 DEF vars, IInv, SfInv, OneLeaderPerEntry, WaitersWellFormed, WaitingIsListed,
                  ChannelsOwnEntry, SfKey, CacheKey
  <2>3. ReplyInv' /\ PermitsConserved'
      BY Zenon, <1>3 DEF vars, IInv, ReplyInv, SharedUnderOwnGeneration, AnswersOwnQuestion,
                  PermitsConserved, PermitHolders
  <2>4. ReloadInv'
      BY Zenon, <1>3 DEF vars, IInv, ReloadInv, GenerationsUnique, StaleEntriesAreLate,
                  StaleVerdictsAreLate
  <2>. QED BY Zenon, <2>1, <2>2, <2>3, <2>4 DEF IInv
<1>. QED BY Zenon, <1>1, <1>2, <1>3 DEF Next, Quiescent

LEMMA Invariance == Spec => []IInv
<1>1. Init => IInv
    BY Zenon, InitType, InitSf, InitReply, InitPermits, InitReload DEF IInv
<1>. QED BY <1>1, NextIInv, PTL DEF Spec

\* Type correctness of the query pipeline.
THEOREM Typing == Spec => []TypeOK
<1>1. IInv => TypeOK
    BY Zenon DEF IInv
<1>. QED BY <1>1, Invariance, PTL

\* singleflight: an entry of the table has exactly one leader, across
\* publishing, abandonment and re-registration of the same key.
THEOREM SingleLeader == Spec => []OneLeaderPerEntry
<1>1. IInv => OneLeaderPerEntry
    BY Zenon DEF IInv, SfInv
<1>. QED BY <1>1, Invariance, PTL

\* singleflight: a follower that waits has a leader that will wake it.
THEOREM FollowersHaveLeaders == Spec => []NoOrphanedFollower
<1>1. IInv => NoOrphanedFollower
    BY Zenon, SfKeyType DEF IInv, SfInv, NoOrphanedFollower, WaitingIsListed, WaitersWellFormed,
                     OneLeaderPerEntry
<1>. QED BY <1>1, Invariance, PTL

\* A follower's answer was routed under the follower's own generation.
THEOREM SharedGeneration == Spec => []SharedUnderOwnGeneration
<1>1. IInv => SharedUnderOwnGeneration
    BY Zenon DEF IInv, ReplyInv
<1>. QED BY <1>1, Invariance, PTL

\* No client gets the answer to another question section, colliding keys or not, and for
\* another EDNS variant only from a leader of the same key.
THEOREM OwnQuestion == Spec => []AnswersOwnQuestion
<1>1. IInv => AnswersOwnQuestion
    BY Zenon DEF IInv, ReplyInv
<1>. QED BY <1>1, Invariance, PTL

\* No path through the resolver loses or mints a permit.
THEOREM Permits == Spec => []PermitsConserved
<1>1. IInv => PermitsConserved
    BY Zenon DEF IInv
<1>. QED BY <1>1, Invariance, PTL

\* The reload lock gives every published HotState a generation of its own.
THEOREM UniqueGenerations == Spec => []GenerationsUnique
<1>1. IInv => GenerationsUnique
    BY Zenon DEF IInv, ReloadInv
<1>. QED BY <1>1, Invariance, PTL

\* Storing before clearing, with the generation check before the insert,
\* leaves one way for a stale response to outlive a reload: an insert whose
\* check ran before the store.
THEOREM OnlyLateInserts == Spec => []StaleEntriesAreLate
<1>1. IInv => StaleEntriesAreLate
    BY Zenon DEF IInv, ReloadInv
<1>. QED BY <1>1, Invariance, PTL

\* The same for the verdict cache.
THEOREM OnlyLateVerdicts == Spec => []StaleVerdictsAreLate
<1>1. IInv => StaleVerdictsAreLate
    BY Zenon DEF IInv, ReloadInv
<1>. QED BY <1>1, Invariance, PTL
=============================================================================
