----------------------------- MODULE NodeHealth -----------------------------
(***************************************************************************)
(* HealthStats of upstream/mod.rs: the RTT estimate, the failure count and *)
(* the AIMD window of one upstream node.  Every exchange that ends on the  *)
(* node updates them from its own thread, with separate relaxed loads and  *)
(* stores and no lock, so each load and each store is a step here.         *)
(***************************************************************************)
EXTENDS Integers, FiniteSetsExt

CONSTANTS Exchanges,    \* exchanges ending on the node
          Rtts,         \* round-trip times they may measure, at least 1 us
          RttFloor,     \* FAILURE_RTT_FLOOR_US
          RttCap,       \* FAILURE_RTT_CAP_US
          Limits,       \* values of max_inflight, 0 is unlimited
          RefreshAt     \* STALE_SOCKET_REFRESH_THRESHOLD

HealthAssumption ==
    /\ Rtts \subseteq Nat \ {0} /\ Limits \subseteq Nat
    /\ RttFloor \in Nat \ {0} /\ RttCap \in Nat /\ RttFloor <= RttCap
    /\ RefreshAt \in Nat \ {0}

VARIABLES ewma,         \* ewma_rtt_us, 0 is no data
          failures,     \* consecutive_failures
          window,       \* concurrency_window; 0 stands for its u64::MAX
          maxInflight,  \* max_inflight
          rpc,          \* the next access of an exchange
          kind,         \* how it ended
          rtt,          \* the RTT of a success
          old,          \* its local copy of ewma, later of window
          had,          \* its local had_failures
          triggered,    \* history: a refresh was triggered since failures was last 0
          lastBump      \* history: the failure that counted last

vars == <<ewma, failures, window, maxInflight, rpc, kind, rtt, old, had, triggered, lastBump>>

Errors == {"timeout", "error"}
Pcs == {"running", "loadEwma", "loadFailures", "storeEwma", "reset", "loadWindow",
        "storeWindow", "bump", "check", "done"}

TypeOK ==
    /\ ewma \in Nat /\ failures \in Nat /\ window \in Nat /\ maxInflight \in Limits
    /\ rpc \in [Exchanges -> Pcs] /\ rtt \in [Exchanges -> Rtts \cup {0}]
    /\ kind \in [Exchanges -> {"none", "ok"} \cup Errors]
    /\ old \in [Exchanges -> Nat] /\ had \in [Exchanges -> BOOLEAN]
    /\ triggered \in BOOLEAN /\ lastBump \in Errors \cup {"none"}

Init ==
    /\ maxInflight \in Limits /\ window = maxInflight
    /\ ewma = 0 /\ failures = 0
    /\ rpc = [x \in Exchanges |-> "running"] /\ rtt = [x \in Exchanges |-> 0]
    /\ kind = [x \in Exchanges |-> "none"]
    /\ old = [x \in Exchanges |-> 0] /\ had = [x \in Exchanges |-> FALSE]
    /\ triggered = FALSE /\ lastBump = "none"

-----------------------------------------------------------------------------
\* record_success: alpha = 1/4 in integer arithmetic.
Blend(e, r) == e - (e \div 4) + (r \div 4)

\* record_failure: doubled, then clamped.
Inflated(e) == Min({Max({2 * e, RttFloor}), RttCap})

Succeeded(x) == kind[x] = "ok"
Go(x, pc) == rpc' = [rpc EXCEPT ![x] = pc]
Finish(x) == /\ Go(x, "done")
             /\ old' = [old EXCEPT ![x] = 0] /\ had' = [had EXCEPT ![x] = FALSE]
             /\ kind' = [kind EXCEPT ![x] = "none"] /\ rtt' = [rtt EXCEPT ![x] = 0]

\* transport.exchange returns.
Ends(x) ==
    /\ rpc[x] = "running"
    /\ \/ /\ kind' = [kind EXCEPT ![x] = "ok"]
          /\ \E r \in Rtts : rtt' = [rtt EXCEPT ![x] = r]
       \/ /\ \E k \in Errors : kind' = [kind EXCEPT ![x] = k]
          /\ UNCHANGED rtt
    /\ Go(x, "loadEwma")
    /\ UNCHANGED <<ewma, failures, window, maxInflight, old, had, triggered, lastBump>>

LoadEwma(x) ==
    /\ rpc[x] = "loadEwma"
    /\ old' = [old EXCEPT ![x] = ewma]
    /\ Go(x, IF Succeeded(x) THEN "loadFailures" ELSE "storeEwma")
    /\ UNCHANGED <<ewma, failures, window, maxInflight, kind, rtt, had, triggered, lastBump>>

LoadFailures(x) ==
    /\ rpc[x] = "loadFailures"
    /\ had' = [had EXCEPT ![x] = failures # 0]
    /\ Go(x, "storeEwma")
    /\ UNCHANGED <<ewma, failures, window, maxInflight, kind, rtt, old, triggered, lastBump>>

\* A success adopts the sample or blends it, a failure inflates the estimate.
StoreEwma(x) ==
    /\ rpc[x] = "storeEwma"
    /\ \/ /\ Succeeded(x)
          /\ ewma' = IF old[x] = 0 \/ had[x] THEN rtt[x] ELSE Blend(old[x], rtt[x])
          /\ Go(x, "reset")
       \/ /\ ~Succeeded(x)
          /\ ewma' = Inflated(old[x])
          /\ Go(x, IF kind[x] = "timeout" /\ maxInflight > 0 THEN "loadWindow" ELSE "bump")
    /\ UNCHANGED <<failures, window, maxInflight, kind, rtt, old, had, triggered, lastBump>>

\* record_success clears the failures, then opens the window by one.
Reset(x) ==
    /\ rpc[x] = "reset"
    /\ failures' = 0 /\ triggered' = FALSE /\ lastBump' = "none"
    /\ IF maxInflight > 0 THEN Go(x, "loadWindow") /\ UNCHANGED <<kind, old, had, rtt>>
                          ELSE Finish(x)
    /\ UNCHANGED <<ewma, window, maxInflight>>

LoadWindow(x) ==
    /\ rpc[x] = "loadWindow"
    /\ IF Succeeded(x) /\ window >= maxInflight
       THEN Finish(x)
       ELSE /\ Go(x, "storeWindow") /\ old' = [old EXCEPT ![x] = window]
            /\ UNCHANGED <<kind, had, rtt>>
    /\ UNCHANGED <<ewma, failures, window, maxInflight, triggered, lastBump>>

\* One more after a success, half after a timeout, of the copy loaded before.
StoreWindow(x) ==
    /\ rpc[x] = "storeWindow"
    /\ window' = IF Succeeded(x) THEN old[x] + 1 ELSE Max({old[x] \div 2, 1})
    /\ IF Succeeded(x) THEN Finish(x) ELSE Go(x, "bump") /\ UNCHANGED <<kind, old, had, rtt>>
    /\ UNCHANGED <<ewma, failures, maxInflight, triggered, lastBump>>

\* record_failure ends by counting the failure.
Bump(x) ==
    /\ rpc[x] = "bump"
    /\ failures' = failures + 1 /\ lastBump' = kind[x]
    /\ IF kind[x] = "timeout" THEN Go(x, "check") /\ UNCHANGED <<kind, old, had, rtt>>
       ELSE Finish(x)
    /\ UNCHANGED <<ewma, window, maxInflight, triggered>>

\* Mutant: the refresh is triggered only beyond the threshold.
CheckExceeded(x) ==
    /\ rpc[x] = "check"
    /\ triggered' = (triggered \/ failures > RefreshAt)
    /\ Finish(x)
    /\ UNCHANGED <<ewma, failures, window, maxInflight, lastBump>>

\* After a timeout, a run of failures triggers a refresh of the transport.
Check(x) ==
    /\ rpc[x] = "check"
    /\ triggered' = (triggered \/ failures >= RefreshAt)
    /\ Finish(x)
    /\ UNCHANGED <<ewma, failures, window, maxInflight, lastBump>>

Idle == (\A x \in Exchanges : rpc[x] = "done") /\ UNCHANGED vars

Next ==
    \/ \E x \in Exchanges : \/ Ends(x) \/ LoadEwma(x) \/ LoadFailures(x) \/ StoreEwma(x)
                            \/ Reset(x) \/ LoadWindow(x) \/ StoreWindow(x) \/ Bump(x)
                            \/ Check(x)
    \/ Idle

Spec == Init /\ [][Next]_vars

-----------------------------------------------------------------------------
Quiescent == \A x \in Exchanges : rpc[x] \in {"running", "done"}
\* Where an exchange is once it has stored an estimate.
Stored == {"reset", "loadWindow", "storeWindow", "bump", "check", "done"}

\* HealthStats: the window is "bounded [1, max_inflight]" although its loads
\* and stores of concurrent exchanges interleave, and is left alone when AIMD
\* is disabled.
WindowInBounds == IF maxInflight = 0 THEN window = 0 ELSE window \in 1..maxInflight

\* record_success and record_failure: an exchange stores what it computed from an estimate
\* that others may have replaced since.  Still no store brings back 0, which the readers
\* take for a node without data, nor an estimate above both the cap on failures and every
\* round trip there is, which the node would not recover from.
Measured(e) == e <= RttCap \/ \E r \in Rtts : e <= r
EstimateKept ==
    /\ (\E x \in Exchanges : rpc[x] \in Stored) => ewma # 0
    /\ Measured(ewma)

\* UpstreamNode::exchange: when the latest failure is a timeout and the run of
\* failures has reached the threshold, the transport's refresh was triggered,
\* unless a success ended the run in between.
RunTriggersRefresh ==
    Quiescent /\ failures >= RefreshAt /\ lastBump = "timeout" => triggered

=============================================================================
