------------------------ MODULE InflightRegistryProofs ------------------------
(***************************************************************************)
(* The safety properties of InflightRegistry for any number of exchanges,  *)
(* IDs, shards and questions and any cap.                                  *)
(***************************************************************************)
EXTENDS InflightRegistry, FiniteSetTheorems, TLAPS

\* An ID has at most one entry, which asks its owner's question.
EntriesWellFormed ==
    /\ \A x, y \in entries : x.id = y.id => x = y
    /\ \A x \in entries : x.question = QuestionOf[x.owner]

\* Live guards hold distinct tokens, all of them already issued.
TokensDistinct ==
    /\ \A e \in Guards : token[e] < nextToken
    /\ \A e, f \in Guards : token[e] = token[f] => e = f

\* Without the two conjuncts above the properties are not inductive: a guard
\* of a reused ID is kept from its successor's entry only by its token.
IInv ==
    /\ TypeOK
    /\ EntriesWellFormed
    /\ TokensDistinct
    /\ EntryHasGuard
    /\ WaiterKeepsEntry
    /\ AnswersOwnQuestion
    /\ PermitsConserved

-----------------------------------------------------------------------------
(* How the set of live guards changes, and what that does to its size.      *)

LEMMA GuardsFinite ==
    /\ IsFiniteSet(Guards)
    /\ Cardinality(Guards) \in Nat
<1>1. Guards \in SUBSET Exchanges /\ IsFiniteSet(Exchanges)
    BY Zenon, RegistryAssumption DEF Guards
<1>2. IsFiniteSet(Guards)
    BY Zenon, <1>1, FS_Subset
<1>3. Cardinality(Guards) \in Nat
    BY Zenon, <1>2, FS_CardinalityType
<1>. QED BY Zenon, <1>2, <1>3

LEMMA GuardEnters ==
    ASSUME TypeOK, NEW e \in Exchanges, pc[e] \notin GuardPcs,
           NEW label \in GuardPcs, Goto(e, label)
    PROVE  /\ Guards' = Guards \cup {e}
           /\ Cardinality(Guards') = Cardinality(Guards) + 1
<1>1. Guards' = Guards \cup {e}
    BY Zenon DEF TypeOK, Guards, Goto
<1>2. e \notin Guards
    BY Zenon DEF Guards
<1>3. Cardinality(Guards \cup {e}) = Cardinality(Guards) + 1
    BY Zenon, <1>2, GuardsFinite, FS_AddElement
<1>. QED BY Zenon, <1>1, <1>3

LEMMA GuardLeaves ==
    ASSUME TypeOK, NEW e \in Exchanges, pc[e] \in GuardPcs, Goto(e, "done")
    PROVE  /\ Guards' = Guards \ {e}
           /\ Cardinality(Guards') = Cardinality(Guards) - 1
<1>1. Guards' = Guards \ {e}
    BY Zenon DEF TypeOK, Guards, Goto, GuardPcs
<1>2. e \in Guards
    BY Zenon DEF Guards
<1>3. Cardinality(Guards \ {e}) = Cardinality(Guards) - 1
    BY Zenon, <1>2, GuardsFinite, FS_RemoveElement
<1>. QED BY Zenon, <1>1, <1>3

LEMMA GuardStays ==
    ASSUME TypeOK, NEW e \in Exchanges, NEW label \in Pcs, Goto(e, label),
           pc[e] \in GuardPcs <=> label \in GuardPcs
    PROVE  Guards' = Guards
BY Zenon DEF TypeOK, Guards, Goto

-----------------------------------------------------------------------------
LEMMA InitIInv == Init => IInv
<1>. SUFFICES ASSUME Init PROVE IInv
    OBVIOUS
<1>1. TypeOK
    BY Zenon, RegistryAssumption DEF Init, TypeOK, Pcs, States
<1>2. Guards = {}
    BY Zenon DEF Init, Guards, GuardPcs
<1>3. Cardinality(Guards) = 0
    BY Zenon, <1>2, FS_EmptySet
<1>4. PermitsConserved
    BY <1>3, RegistryAssumption DEF Init, PermitsConserved
<1>5. EntriesWellFormed /\ EntryHasGuard /\ TokensDistinct
    BY Zenon, <1>2 DEF Init, EntriesWellFormed, EntryHasGuard, TokensDistinct
<1>6. WaiterKeepsEntry /\ AnswersOwnQuestion
    BY Zenon DEF Init, WaiterKeepsEntry, AnswersOwnQuestion
<1>. QED BY Zenon, <1>1, <1>4, <1>5, <1>6 DEF IInv

LEMMA RegisterStep ==
    ASSUME IInv, NEW e \in Exchanges, Register(e)
    PROVE  IInv'
<1>. USE DEF IInv
<1>0. PICK i \in Ids \ Used :
         /\ entries' = entries \cup {Entry(e, i)}
         /\ id' = [id EXCEPT ![e] = i]
    BY Zenon DEF Register
<1>a. /\ pc[e] \notin GuardPcs
      /\ pc' = [pc EXCEPT ![e] = "registered"]
      /\ token' = [token EXCEPT ![e] = nextToken]
      /\ nextToken' = nextToken + 1
      /\ inbox' = [inbox EXCEPT ![e].state = "open"]
    BY Zenon DEF Register, Goto, GuardPcs
<1>b. \A x \in entries : x.id # i
    BY Zenon, <1>0 DEF Used
<1>c. \A x \in entries : x.owner # e
    BY Zenon, <1>a DEF EntryHasGuard
<1>1. TypeOK'
  <2>1. permits' \in Nat
      BY RegistryAssumption DEF TypeOK, Register
  <2>2. Entry(e, i) \in Entries
      BY Zenon, <1>0, RegistryAssumption DEF TypeOK, Entries, Entry
  <2>. QED BY <1>0, <1>a, <2>1, <2>2 DEF TypeOK, Register, Pcs, GuardPcs, States
<1>2. EntriesWellFormed'
    BY <1>0, <1>b DEF EntriesWellFormed, Entry
<1>3. Guards' = Guards \cup {e} /\ Cardinality(Guards') = Cardinality(Guards) + 1
    BY Zenon, GuardEnters DEF Register, GuardPcs
<1>4. TokensDistinct'
    BY <1>a, <1>3 DEF TokensDistinct, TypeOK, Guards
<1>5. EntryHasGuard'
    BY <1>0, <1>a, <1>c DEF EntryHasGuard, TypeOK, Entries, Entry, GuardPcs
<1>6. WaiterKeepsEntry'
  <2>. SUFFICES ASSUME NEW f \in Exchanges, pc'[f] \in GuardPcs, inbox'[f].state = "open"
                PROVE  \E x \in entries' : x.owner = f /\ x.id = id'[f] /\ x.token = token'[f]
      BY Zenon DEF WaiterKeepsEntry
  <2>1. CASE f = e
    <3>1. id'[e] = i /\ token'[e] = nextToken
        BY Zenon, <1>0, <1>a DEF TypeOK
    <3>2. Entry(e, i) \in entries'
        BY Zenon, <1>0
    <3>. QED BY Zenon, <2>1, <3>1, <3>2 DEF Entry
  <2>2. CASE f # e
    <3>1. /\ pc'[f] = pc[f] /\ inbox'[f] = inbox[f]
          /\ id'[f] = id[f] /\ token'[f] = token[f]
        BY Zenon, <1>0, <1>a, <2>2 DEF TypeOK
    <3>. QED BY <1>0, <3>1 DEF WaiterKeepsEntry
  <2>. QED BY Zenon, <2>1, <2>2
<1>7. AnswersOwnQuestion'
    BY Zenon, <1>a DEF AnswersOwnQuestion, TypeOK
<1>8. PermitsConserved'
    BY <1>3, GuardsFinite, RegistryAssumption DEF PermitsConserved, Register, TypeOK
<1>. QED BY Zenon, <1>1, <1>2, <1>4, <1>5, <1>6, <1>7, <1>8

\* The steps of an exchange that touch neither the registry nor the permits.
LEMMA MoveStep ==
    ASSUME IInv, NEW e \in Exchanges, NEW label \in Pcs, Goto(e, label),
           pc[e] \in GuardPcs <=> label \in GuardPcs,
           UNCHANGED <<id, token, inbox, entries, permits>>,
           nextToken' \in Nat, nextToken' >= nextToken,
           network' \subseteq Packets
    PROVE  IInv'
<1>. USE DEF IInv
<1>1. TypeOK'
    BY Zenon DEF TypeOK, Goto
<1>2. Guards' = Guards
    BY Zenon, GuardStays
<1>3. TokensDistinct'
    BY <1>2 DEF TokensDistinct, TypeOK, Guards
<1>4. \A f \in Exchanges : pc'[f] \in GuardPcs <=> pc[f] \in GuardPcs
    BY Zenon DEF TypeOK, Goto
<1>5. EntryHasGuard'
    BY Zenon, <1>4 DEF EntryHasGuard, TypeOK, Entries
<1>6. WaiterKeepsEntry'
    BY Zenon, <1>4 DEF WaiterKeepsEntry
<1>7. EntriesWellFormed' /\ AnswersOwnQuestion'
    BY Zenon DEF EntriesWellFormed, AnswersOwnQuestion
<1>8. PermitsConserved'
    BY Zenon, <1>2 DEF PermitsConserved
<1>. QED BY Zenon, <1>1, <1>3, <1>5, <1>6, <1>7, <1>8

LEMMA DropGuardStep ==
    ASSUME IInv, NEW e \in Exchanges, DropGuard(e)
    PROVE  IInv'
<1>. USE DEF IInv
<1>a. /\ pc[e] \in GuardPcs
      /\ pc' = [pc EXCEPT ![e] = "done"]
      /\ entries' = {x \in entries : ~(x.id = id[e] /\ x.token = token[e])}
      /\ UNCHANGED <<id, token, inbox, nextToken, network>>
    BY Zenon DEF DropGuard, Goto, GuardPcs
<1>1. TypeOK'
    BY <1>a, RegistryAssumption DEF TypeOK, DropGuard, Pcs, GuardPcs
<1>2. Guards' = Guards \ {e} /\ Cardinality(Guards') = Cardinality(Guards) - 1
    BY Zenon, <1>a, GuardLeaves DEF DropGuard
<1>3. TokensDistinct' /\ EntriesWellFormed' /\ AnswersOwnQuestion'
    BY Zenon, <1>a, <1>2 DEF TokensDistinct, EntriesWellFormed, AnswersOwnQuestion
<1>4. \A x \in entries' : x \in entries /\ x.owner # e
    BY Zenon, <1>a DEF EntryHasGuard, TypeOK, Entries
<1>5. EntryHasGuard'
    BY Zenon, <1>a, <1>4 DEF EntryHasGuard, TypeOK, Entries
<1>6. WaiterKeepsEntry'
  <2>. SUFFICES ASSUME NEW f \in Exchanges, pc'[f] \in GuardPcs, inbox'[f].state = "open"
                PROVE  \E x \in entries' : x.owner = f /\ x.id = id'[f] /\ x.token = token'[f]
      BY Zenon DEF WaiterKeepsEntry
  <2>1. f # e /\ pc[f] \in GuardPcs /\ inbox[f].state = "open"
      BY Zenon, <1>a DEF TypeOK, GuardPcs
  <2>2. PICK x \in entries : x.owner = f /\ x.id = id[f] /\ x.token = token[f]
      BY Zenon, <2>1 DEF WaiterKeepsEntry
  <2>3. token[f] # token[e]
      BY Zenon, <1>a, <2>1 DEF TokensDistinct, Guards
  <2>4. x \in entries'
      BY Zenon, <1>a, <2>2, <2>3
  <2>. QED BY Zenon, <1>a, <2>2, <2>4
<1>7. PermitsConserved'
    BY <1>2, GuardsFinite, RegistryAssumption DEF PermitsConserved, DropGuard, TypeOK
<1>. QED BY Zenon, <1>1, <1>3, <1>5, <1>6, <1>7

\* Entries leave the registry together with the open state of their owners.
LEMMA RemovalStep ==
    ASSUME IInv, NEW gone \in SUBSET entries,
           entries' = entries \ gone,
           inbox' \in [Exchanges -> [state : States, question : Questions]],
           \A x \in gone : inbox'[x.owner].state # "open",
           \A f \in Exchanges : inbox'[f].state = "open" => inbox[f].state = "open",
           AnswersOwnQuestion',
           UNCHANGED <<pc, id, token, nextToken, permits, network>>
    PROVE  IInv'
<1>. USE DEF IInv
<1>1. TypeOK'
    BY Zenon DEF TypeOK
<1>2. Guards' = Guards
    BY Zenon DEF Guards
<1>3. TokensDistinct'
    BY Zenon, <1>2 DEF TokensDistinct
<1>4. EntriesWellFormed' /\ EntryHasGuard'
    BY Zenon DEF EntriesWellFormed, EntryHasGuard
<1>5. WaiterKeepsEntry'
  <2>. SUFFICES ASSUME NEW f \in Exchanges, pc[f] \in GuardPcs, inbox'[f].state = "open"
                PROVE  \E x \in entries' : x.owner = f /\ x.id = id[f] /\ x.token = token[f]
      BY DEF WaiterKeepsEntry
  <2>1. PICK x \in entries : x.owner = f /\ x.id = id[f] /\ x.token = token[f]
      BY Zenon DEF WaiterKeepsEntry
  <2>2. x \notin gone
      BY Zenon, <2>1
  <2>. QED BY Zenon, <2>1, <2>2
<1>6. PermitsConserved'
    BY Zenon, <1>2 DEF PermitsConserved
<1>. QED BY Zenon, <1>1, <1>3, <1>4, <1>5, <1>6

LEMMA DeliverStep ==
    ASSUME IInv, NEW p \in network, Deliver(p)
    PROVE  IInv'
<1>0. PICK x \in entries :
         /\ x.question = p.question
         /\ entries' = entries \ {x}
         /\ inbox' = IF inbox[x.owner].state = "open"
                     THEN [inbox EXCEPT ![x.owner] =
                              [state |-> "delivered", question |-> p.question]]
                     ELSE inbox
         /\ UNCHANGED <<pc, id, token, nextToken, permits, network>>
    BY Zenon DEF Deliver
<1>1. x.owner \in Exchanges /\ x.question = QuestionOf[x.owner] /\ p.question \in Questions
    BY Zenon, <1>0, RegistryAssumption DEF IInv, TypeOK, Entries, EntriesWellFormed
<1>2. inbox' \in [Exchanges -> [state : States, question : Questions]]
    BY Zenon, <1>0, <1>1 DEF IInv, TypeOK, States
<1>3. inbox'[x.owner].state # "open"
    BY Zenon, <1>0, <1>1 DEF IInv, TypeOK
<1>4. \A f \in Exchanges : inbox'[f].state = "open" => inbox[f].state = "open"
    BY Zenon, <1>0, <1>1 DEF IInv, TypeOK
<1>5. AnswersOwnQuestion'
    BY Zenon, <1>0, <1>1 DEF IInv, TypeOK, AnswersOwnQuestion
<1>. DEFINE gone == {x}
<1>6. gone \in SUBSET entries /\ \A y \in gone : inbox'[y.owner].state # "open"
    BY Zenon, <1>3
<1>7. entries' = entries \ gone
    BY Zenon, <1>0
<1>. HIDE DEF gone
<1>. QED BY Zenon, <1>0, <1>2, <1>4, <1>5, <1>6, <1>7, RemovalStep

LEMMA ClearShardStep ==
    ASSUME IInv, NEW s \in Shards, ClearShard(s)
    PROVE  IInv'
<1>. DEFINE gone == {x \in entries : ShardOf[x.id] = s}
            owners == {x.owner : x \in gone}
<1>0. /\ entries' = entries \ gone
      /\ inbox' = [e \in Exchanges |->
                     IF e \in owners /\ inbox[e].state = "open"
                     THEN [inbox[e] EXCEPT !.state = "closed"] ELSE inbox[e]]
      /\ UNCHANGED <<pc, id, token, nextToken, permits, network>>
    BY Zenon DEF ClearShard, Close
<1>1. \A x \in gone : x.owner \in Exchanges /\ x.owner \in owners
    BY Zenon DEF IInv, TypeOK, Entries
<1>6. gone \in SUBSET entries
    OBVIOUS
<1>. HIDE DEF owners, gone
<1>2. inbox' \in [Exchanges -> [state : States, question : Questions]]
    BY Zenon, <1>0 DEF IInv, TypeOK, States
<1>3. \A x \in gone : inbox'[x.owner].state # "open"
    BY <1>0, <1>1 DEF IInv, TypeOK
<1>4. \A f \in Exchanges : inbox'[f].state = "open" => inbox[f].state = "open"
    BY Zenon, <1>0 DEF IInv, TypeOK
<1>5. AnswersOwnQuestion'
    BY <1>0 DEF IInv, TypeOK, AnswersOwnQuestion
<1>. QED BY <1>0, <1>2, <1>3, <1>4, <1>5, <1>6, RemovalStep

LEMMA NextIInv == IInv /\ [Next]_vars => IInv'
<1>. SUFFICES ASSUME IInv, [Next]_vars PROVE IInv'
    OBVIOUS
<1>1. ASSUME NEW e \in Exchanges, Step(e) PROVE IInv'
  <2>1. CASE Register(e)
      BY Zenon, <2>1, RegisterStep
  <2>2. CASE CapReached(e) \/ TableFull(e)
      BY <2>2, MoveStep DEF CapReached, TableFull, IInv, TypeOK, Pcs, GuardPcs
  <2>3. CASE Send(e)
    <3>1. network' \subseteq Packets
        BY <2>3, RegistryAssumption DEF Send, IInv, TypeOK, Packets
    <3>. QED BY <2>3, <3>1, MoveStep DEF Send, IInv, TypeOK, Pcs, GuardPcs
  <2>4. CASE GiveUp(e) \/ FallbackDone(e)
      BY <2>4, MoveStep DEF GiveUp, FallbackDone, IInv, TypeOK, Pcs, GuardPcs
  <2>5. CASE Receive(e)
      BY <2>5, MoveStep DEF Receive, IInv, TypeOK, Pcs, GuardPcs
  <2>6. CASE DropGuard(e)
      BY <2>6, DropGuardStep
  <2>. QED BY Zenon, <1>1, <2>1, <2>2, <2>3, <2>4, <2>5, <2>6 DEF Step
<1>2. CASE UNCHANGED vars
    BY <1>2 DEF vars, IInv, TypeOK, EntriesWellFormed, TokensDistinct, EntryHasGuard,
                WaiterKeepsEntry, AnswersOwnQuestion, PermitsConserved, Guards
<1>. QED BY Zenon, <1>1, <1>2, DeliverStep, ClearShardStep DEF Next

LEMMA Invariance == Spec => []IInv
<1>. QED BY InitIInv, NextIInv, PTL DEF Spec

-----------------------------------------------------------------------------
\* Type correctness of the registry and of the exchanges that use it.
THEOREM Typing == Spec => []TypeOK
<1>1. IInv => TypeOK
    BY Zenon DEF IInv
<1>. QED BY <1>1, Invariance, PTL

\* However IDs are reused and responses delayed or repeated, complete hands an
\* exchange only a response to its own question.
THEOREM Correlation == Spec => []AnswersOwnQuestion
<1>1. IInv => AnswersOwnQuestion
    BY Zenon DEF IInv
<1>. QED BY <1>1, Invariance, PTL

\* The token check in the guard's Drop suffices: no exchange ever loses its
\* registration to another one, so its response can still arrive.
THEOREM NoEviction == Spec => []WaiterKeepsEntry
<1>1. IInv => WaiterKeepsEntry
    BY Zenon DEF IInv
<1>. QED BY <1>1, Invariance, PTL

\* Every entry has a live guard that will remove it.
THEOREM NoLeakedEntry == Spec => []EntryHasGuard
<1>1. IInv => EntryHasGuard
    BY Zenon DEF IInv
<1>. QED BY <1>1, Invariance, PTL

\* upstream-max-inflight is exact: permits and live guards add up to the cap.
THEOREM CapExact == Spec => []PermitsConserved
<1>1. IInv => PermitsConserved
    BY Zenon DEF IInv
<1>. QED BY <1>1, Invariance, PTL

-----------------------------------------------------------------------------
(* The registry implements Correlator.                                      *)

\* An exchange that has not registered has not been handed anything.
StartFresh == \A e \in Exchanges : pc[e] = "start" => inbox[e].state = "none"

LEMMA NextStartFresh == IInv /\ StartFresh /\ [Next]_vars => StartFresh'
<1>. SUFFICES ASSUME IInv, StartFresh, [Next]_vars,
                     NEW f \in Exchanges, pc'[f] = "start"
              PROVE  inbox'[f].state = "none"
    BY Zenon DEF StartFresh
<1>. USE DEF IInv
<1>1. ASSUME NEW e \in Exchanges, Register(e) PROVE inbox'[f].state = "none"
    BY Zenon, <1>1 DEF Register, Goto, TypeOK, StartFresh
<1>2. ASSUME NEW e \in Exchanges, Step(e), ~Register(e) PROVE inbox'[f].state = "none"
  <2>1. UNCHANGED inbox
      BY Zenon, <1>2 DEF Step, CapReached, TableFull, Send, GiveUp, Receive, FallbackDone,
         DropGuard
  <2>2. \E label \in Pcs \ {"start"} : Goto(e, label)
      BY Zenon, <1>2 DEF Step, CapReached, TableFull, Send, GiveUp, Receive, FallbackDone,
         DropGuard,
                  Pcs, GuardPcs
  <2>3. pc[f] = "start"
      BY Zenon, <2>2 DEF Goto, TypeOK
  <2>. QED BY Zenon, <2>1, <2>3 DEF StartFresh
<1>3. ASSUME NEW p \in network, Deliver(p) PROVE inbox'[f].state = "none"
  <2>1. PICK x \in entries :
           /\ inbox' = IF inbox[x.owner].state = "open"
                       THEN [inbox EXCEPT ![x.owner] =
                                [state |-> "delivered", question |-> p.question]]
                       ELSE inbox
           /\ UNCHANGED pc
      BY Zenon, <1>3 DEF Deliver
  <2>2. x.owner # f
      BY Zenon, <2>1 DEF EntryHasGuard, GuardPcs
  <2>. QED BY Zenon, <2>1, <2>2 DEF StartFresh, TypeOK
<1>4. ASSUME NEW s \in Shards, ClearShard(s) PROVE inbox'[f].state = "none"
    BY Zenon, <1>4 DEF ClearShard, Close, StartFresh
<1>5. CASE UNCHANGED vars
    BY Zenon, <1>5 DEF vars, StartFresh
<1>. QED BY Zenon, <1>1, <1>2, <1>3, <1>4, <1>5 DEF Next

LEMMA InvarianceFresh == Spec => [](IInv /\ StartFresh)
<1>1. Init => StartFresh
    BY DEF Init, StartFresh
<1>. QED BY <1>1, InitIInv, NextIInv, NextStartFresh, PTL DEF Spec

\* A step that leaves every status and every inbox alone is a stutter.
LEMMA StutterStep ==
    ASSUME \A f \in Exchanges : StatusOf(f)' = StatusOf(f), UNCHANGED inbox
    PROVE  UNCHANGED Abstract!vars
BY Zenon DEF Abstract!vars, GotOf

\* The instance has its own copy of the standard definition.
LEMMA SameCardinality == \A S : Abstract!Cardinality(S) = Cardinality(S)
BY Zenon DEF Abstract!Cardinality, Cardinality

\* Pending registrations have live guards, so a free permit leaves room for one more.
LEMMA PendingBelowCap ==
    ASSUME IInv, Cap > 0, permits > 0
    PROVE  Cardinality(Abstract!Pending) < Cap
<1>1. Abstract!Pending \subseteq Guards
    BY Zenon DEF Abstract!Pending, StatusOf, Guards, IInv, TypeOK, Pcs
<1>2. Cardinality(Abstract!Pending) <= Cardinality(Guards)
    BY Zenon, <1>1, GuardsFinite, FS_Subset
<1>3. Cardinality(Abstract!Pending) \in Nat
    BY Zenon, <1>1, GuardsFinite, FS_Subset, FS_CardinalityType
<1>. QED BY <1>2, <1>3, GuardsFinite, RegistryAssumption DEF IInv, PermitsConserved, TypeOK

LEMMA RegisterRefines ==
    ASSUME IInv, StartFresh, NEW e \in Exchanges, Register(e)
    PROVE  Abstract!Begin(e)
<1>. USE DEF IInv
<1>1. /\ pc[e] = "start" /\ inbox[e].state = "none"
      /\ pc' = [pc EXCEPT ![e] = "registered"]
      /\ inbox' = [inbox EXCEPT ![e].state = "open"]
    BY Zenon DEF Register, Goto, StartFresh
<1>2. StatusOf(e) = "idle" /\ StatusOf(e)' = "pending" /\ GotOf(e) = {} /\ GotOf(e)' = {}
    BY Zenon, <1>1 DEF StatusOf, GotOf, TypeOK
<1>3. \A f \in Exchanges \ {e} : StatusOf(f)' = StatusOf(f) /\ GotOf(f)' = GotOf(f)
    BY Zenon, <1>1 DEF StatusOf, GotOf, TypeOK
<1>4. Cap > 0 => Abstract!Cardinality(Abstract!Pending) < Cap
    BY Zenon, PendingBelowCap, SameCardinality DEF Register
<1>. QED BY Zenon, <1>2, <1>3, <1>4 DEF Abstract!Begin

\* Steps that only move an exchange that is registered on.
LEMMA MoveRefines ==
    ASSUME IInv, NEW e \in Exchanges, pc[e] \in GuardPcs,
           NEW label \in GuardPcs, Goto(e, label), UNCHANGED inbox
    PROVE  UNCHANGED Abstract!vars
<1>1. \A f \in Exchanges : StatusOf(f)' = StatusOf(f)
    BY DEF StatusOf, Goto, GuardPcs, IInv, TypeOK
<1>. QED BY Zenon, <1>1, StutterStep

LEMMA RefusalRefines ==
    ASSUME IInv, StartFresh, NEW e \in Exchanges, pc[e] = "start",
           Goto(e, "done"), UNCHANGED inbox
    PROVE  Abstract!Refuse(e)
<1>1. StatusOf(e) = "idle" /\ StatusOf(e)' = "failed"
    BY Zenon DEF StatusOf, StartFresh, Goto, IInv, TypeOK
<1>2. \A f \in Exchanges \ {e} : StatusOf(f)' = StatusOf(f)
    BY Zenon DEF StatusOf, Goto, IInv, TypeOK
<1>3. \A f \in Exchanges : GotOf(f)' = GotOf(f)
    BY Zenon DEF GotOf
<1>. QED BY Zenon, <1>1, <1>2, <1>3 DEF Abstract!Refuse

\* A guard dropped before its response came ends the registration.
LEMMA DropRefines ==
    ASSUME IInv, NEW e \in Exchanges, DropGuard(e)
    PROVE  Abstract!Next \/ UNCHANGED Abstract!vars
<1>. USE DEF IInv
<1>1. pc[e] = "leaving" /\ pc' = [pc EXCEPT ![e] = "done"] /\ UNCHANGED inbox
    BY Zenon DEF DropGuard, Goto
<1>2. \A f \in Exchanges \ {e} : StatusOf(f)' = StatusOf(f)
    BY Zenon, <1>1 DEF StatusOf, TypeOK
<1>3. \A f \in Exchanges : GotOf(f)' = GotOf(f)
    BY Zenon, <1>1 DEF GotOf
<1>4. CASE inbox[e].state \in {"delivered", "closed"}
  <2>1. StatusOf(e)' = StatusOf(e)
      BY Zenon, <1>1, <1>4 DEF StatusOf, TypeOK
  <2>. QED BY <1>1, <1>2, <2>1, StutterStep
<1>5. CASE inbox[e].state \notin {"delivered", "closed"}
  <2>1. StatusOf(e) = "pending" /\ StatusOf(e)' = "failed"
      BY Zenon, <1>1, <1>5 DEF StatusOf, TypeOK
  <2>2. {e} \in SUBSET Abstract!Pending
      BY Zenon, <2>1 DEF Abstract!Pending
  <2>3. Abstract!Fail({e})
      BY Zenon, <1>2, <1>3, <2>1 DEF Abstract!Fail
  <2>. QED BY Zenon, <2>2, <2>3 DEF Abstract!Next
<1>. QED BY <1>4, <1>5

LEMMA DeliverRefines ==
    ASSUME IInv, NEW p \in network, Deliver(p)
    PROVE  Abstract!Next \/ UNCHANGED Abstract!vars
<1>. USE DEF IInv
<1>1. PICK x \in entries :
         /\ x.question = p.question
         /\ inbox' = IF inbox[x.owner].state = "open"
                     THEN [inbox EXCEPT ![x.owner] =
                              [state |-> "delivered", question |-> p.question]]
                     ELSE inbox
         /\ UNCHANGED pc
    BY Zenon DEF Deliver
<1>2. x.owner \in Exchanges /\ pc[x.owner] \in GuardPcs /\ x.question = QuestionOf[x.owner]
    BY Zenon, <1>1 DEF TypeOK, Entries, EntryHasGuard, EntriesWellFormed
<1>3. CASE inbox[x.owner].state # "open"
    BY Zenon, <1>1, <1>3, StutterStep DEF StatusOf
<1>4. CASE inbox[x.owner].state = "open"
  <2>1. /\ StatusOf(x.owner) = "pending" /\ StatusOf(x.owner)' = "answered"
        /\ GotOf(x.owner)' = {QuestionOf[x.owner]}
      BY Zenon, <1>1, <1>2, <1>4 DEF StatusOf, GotOf, GuardPcs, TypeOK
  <2>2. \A f \in Exchanges \ {x.owner} : StatusOf(f)' = StatusOf(f) /\ GotOf(f)' = GotOf(f)
      BY Zenon, <1>1, <1>2, <1>4 DEF StatusOf, GotOf, TypeOK
  <2>3. Abstract!Answer(x.owner)
      BY Zenon, <1>2, <2>1, <2>2 DEF Abstract!Answer
  <2>. QED BY Zenon, <1>2, <2>3 DEF Abstract!Next
<1>. QED BY Zenon, <1>3, <1>4

\* Clearing a shard fails all pending registrations in it at once.
LEMMA ClearRefines ==
    ASSUME IInv, NEW s \in Shards, ClearShard(s)
    PROVE  Abstract!Next
<1>. USE DEF IInv
<1>. DEFINE owners == {x.owner : x \in {x \in entries : ShardOf[x.id] = s}}
            S == {e \in Exchanges : e \in owners /\ inbox[e].state = "open"}
<1>1. /\ inbox' = [e \in Exchanges |->
                     IF e \in owners /\ inbox[e].state = "open"
                     THEN [inbox[e] EXCEPT !.state = "closed"] ELSE inbox[e]]
      /\ UNCHANGED pc
    BY Zenon DEF ClearShard, Close
<1>2. \A e \in S : pc[e] \in GuardPcs
    BY Zenon DEF EntryHasGuard
<1>. HIDE DEF owners
<1>3. \A e \in S : StatusOf(e) = "pending" /\ StatusOf(e)' = "failed"
    BY Zenon, <1>1, <1>2 DEF StatusOf, GuardPcs, TypeOK
<1>4. \A e \in Exchanges \ S : StatusOf(e)' = StatusOf(e)
    BY Zenon, <1>1 DEF StatusOf
<1>5. \A e \in Exchanges : GotOf(e)' = GotOf(e)
    BY Zenon, <1>1 DEF GotOf, TypeOK
<1>6. S \in SUBSET Abstract!Pending
    BY Zenon, <1>3 DEF Abstract!Pending
<1>. HIDE DEF S
<1>7. Abstract!Fail(S)
    BY Zenon, <1>3, <1>4, <1>5 DEF Abstract!Fail
<1>. QED BY Zenon, <1>6, <1>7 DEF Abstract!Next

LEMMA NextRefines == IInv /\ StartFresh /\ [Next]_vars => [Abstract!Next]_(Abstract!vars)
<1>. SUFFICES ASSUME IInv, StartFresh, [Next]_vars
              PROVE  Abstract!Next \/ UNCHANGED Abstract!vars
    OBVIOUS
<1>1. ASSUME NEW e \in Exchanges, Step(e)
      PROVE  Abstract!Next \/ UNCHANGED Abstract!vars
  <2>1. CASE Register(e)
      BY Zenon, <2>1, RegisterRefines DEF Abstract!Next
  <2>2. CASE CapReached(e) \/ TableFull(e)
      BY Zenon, <2>2, RefusalRefines DEF CapReached, TableFull, Abstract!Next
  <2>3. CASE Send(e)
      BY Zenon, <2>3, MoveRefines DEF Send, GuardPcs
  <2>4. CASE GiveUp(e) \/ FallbackDone(e)
      BY Zenon, <2>4, MoveRefines DEF GiveUp, FallbackDone, GuardPcs
  <2>5. CASE Receive(e)
      BY Zenon, <2>5, MoveRefines DEF Receive, GuardPcs
  <2>6. CASE DropGuard(e)
      BY Zenon, <2>6, DropRefines
  <2>. QED BY <1>1, <2>1, <2>2, <2>3, <2>4, <2>5, <2>6 DEF Step
<1>2. CASE UNCHANGED vars
    BY Zenon, <1>2, StutterStep DEF vars, StatusOf
<1>. QED BY Zenon, <1>1, <1>2, DeliverRefines, ClearRefines DEF Next

\* The registry implements Correlator for any number of exchanges, IDs and shards and
\* any cap: a registration is answered at most once and only with its own response, and
\* what was cleared or given up is never answered afterwards.
THEOREM Implements == Spec => Correlates
<1>1. Init => Abstract!Init
    BY DEF Init, Abstract!Init, StatusOf, GotOf
<1>. QED BY <1>1, InvarianceFresh, NextRefines, PTL DEF Correlates, Abstract!Spec, Spec
===========================================================================
