----------------------------- MODULE Correlator -----------------------------
(***************************************************************************)
(* What the inflight registry promises to the exchanges that use it,       *)
(* without IDs, tokens, shards or packets: a registration is accepted only *)
(* below the cap, and then it is answered once, with a response to its own *)
(* question, or it fails, alone or together with others.  What has ended   *)
(* stays as it ended.                                                      *)
(***************************************************************************)
EXTENDS Naturals, FiniteSets

CONSTANTS Exchanges, QuestionOf, Cap

VARIABLES
    status,     \* "idle", "pending", "answered" or "failed"
    got         \* the questions whose responses an exchange was handed

vars == <<status, got>>

Pending == {e \in Exchanges : status[e] = "pending"}

Init ==
    /\ status = [e \in Exchanges |-> "idle"]
    /\ got = [e \in Exchanges |-> {}]

Begin(e) ==
    /\ status[e] = "idle"
    /\ Cap > 0 => Cardinality(Pending) < Cap
    /\ status' = [status EXCEPT ![e] = "pending"]
    /\ UNCHANGED got

Refuse(e) ==
    /\ status[e] = "idle"
    /\ status' = [status EXCEPT ![e] = "failed"]
    /\ UNCHANGED got

Answer(e) ==
    /\ status[e] = "pending"
    /\ status' = [status EXCEPT ![e] = "answered"]
    /\ got' = [got EXCEPT ![e] = {QuestionOf[e]}]

Fail(S) ==
    /\ status' = [e \in Exchanges |-> IF e \in S THEN "failed" ELSE status[e]]
    /\ UNCHANGED got

Next ==
    \/ \E e \in Exchanges : Begin(e) \/ Refuse(e) \/ Answer(e)
    \/ \E S \in SUBSET Pending : Fail(S)

Spec == Init /\ [][Next]_vars
=============================================================================
