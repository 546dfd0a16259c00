---------------------------- MODULE AnswerProofs -----------------------------
(***************************************************************************)
(* How long a leader takes and whose answer it caches, for any timeouts    *)
(* and any number of servers: the invariants of ExchangeTiming and         *)
(* FinalAnswer, each with the inductive invariant behind it.               *)
(***************************************************************************)
EXTENDS Integers, TLAPS

-----------------------------------------------------------------------------
(* ExchangeTiming.                                                          *)

CONSTANTS TimeLimit, HedgeDelay, Adaptive, Slack, SlotQueue, MaxHeld

VARIABLES now, timingTransport, lpc, exchanges, legs, hedgeDue, extra, hedges, waited,
          fpc, fdue

\* A leader, its exchanges and its follower, in ticks.
Timing == INSTANCE ExchangeTiming WITH
    Timeout <- TimeLimit, transport <- timingTransport

\* The timed waits of an exchange on one node, what they take together, and when the
\* exchange under way began at the latest.
TimingWaits == Timing!Phases(timingTransport) + Timing!EvictWaits(timingTransport)
TimingWork == TimingWaits * TimeLimit
TimingBase == IF exchanges = 1 THEN 0 ELSE Timing!WorstExchange

\* A running leg is not overdue.  Each phase adds one timeout to the latest time it can be
\* due, every tick in a full queue one tick, and a hedge begins while the primary runs.  Of
\* a leader whose exchanges wait for one answer each, every exchange adds one timeout and
\* the only hedge its delay.
TimingLeg(l) ==
    Timing!Running(l) =>
        /\ lpc = "exchange" /\ now <= legs[l].due
        /\ legs[l].due <= TimingBase + (IF l = 2 THEN TimingWork ELSE 0)
                                     + legs[l].phase * TimeLimit + waited
        /\ l = 2 => HedgeDelay # 0
        /\ ~extra => /\ legs[l].phase = 1
                     /\ legs[l].due <= exchanges * TimeLimit
                                       + (IF hedges > 0 THEN HedgeDelay ELSE 0)

TimingHedges ==
    /\ hedges + (IF hedgeDue # -1 THEN 1 ELSE 0) <= exchanges
    /\ hedgeDue # -1 => HedgeDelay # 0
    /\ ~extra => hedges <= 1

TimingFollower ==
    /\ fpc \in {"waiting", "servfail"} => fdue >= Timing!FollowerWait
    /\ fpc = "servfail" => now >= fdue

TimingInv == /\ Timing!TypeOK /\ TimingLeg(1) /\ TimingLeg(2)
             /\ lpc = "exchange" => Timing!Running(1) \/ Timing!Running(2)
             /\ TimingHedges /\ TimingFollower

TimingSizes == /\ TimeLimit \in Nat \ {0} /\ Slack \in Nat \ {0} /\ HedgeDelay \in Nat
               /\ SlotQueue \in Nat /\ MaxHeld \in Nat /\ Adaptive \subseteq Nat \ {0}

LEMMA TimingConstants == Timing!TimingAssumption => TimingSizes
BY Zenon DEF Timing!TimingAssumption, TimingSizes

\* A product grows with its factor, one timeout at a time.
LEMMA TimingProducts ==
    ASSUME NEW t \in Nat, NEW a \in Nat, NEW b \in Nat, a <= b
    PROVE  /\ a * t \in Nat /\ b * t \in Nat /\ a * t <= b * t
           /\ (a + 1) * t = a * t + t
<1>1. a * t \in Nat /\ b * t \in Nat /\ (b - a) * t \in Nat
    OBVIOUS
<1>2. b * t = a * t + (b - a) * t
    OBVIOUS
<1>. QED BY <1>1, <1>2

LEMMA TimingWorst ==
    ASSUME TimingSizes, timingTransport \in Timing!Transports
    PROVE  /\ TimingWaits \in Nat \ {0} /\ TimingWork \in Nat
           /\ Timing!WorstExchange = IF HedgeDelay = 0 THEN TimingWork ELSE 2 * TimingWork
<1>1. TimingWaits \in Nat \ {0}
    BY DEF TimingWaits, TimingSizes, Timing!Transports, Timing!Phases, Timing!EvictWaits,
           Timing!UdpPhases, Timing!MuxPhases, Timing!DohPhases, Timing!QuicPhases
<1>2. TimingWork \in Nat
    BY <1>1 DEF TimingWork, TimingSizes
<1>3. Timing!WorstExchange = (IF HedgeDelay = 0 THEN 1 ELSE 2) * TimingWaits * TimeLimit
    BY Zenon DEF Timing!WorstExchange, TimingWaits
<1>4. Timing!WorstExchange = IF HedgeDelay = 0 THEN TimingWork ELSE 2 * TimingWork
  <2>1. 1 * TimingWaits * TimeLimit = TimingWork
      BY <1>1 DEF TimingWork, TimingSizes
  <2>2. 2 * TimingWaits * TimeLimit = 2 * TimingWork
      BY <1>1 DEF TimingWork, TimingSizes
  <2>. QED BY Zenon, <1>3, <2>1, <2>2
<1>. QED BY Zenon, <1>1, <1>2, <1>4

LEMMA TimingInitInv ==
    ASSUME TimingSizes, Timing!Init
    PROVE  TimingInv
<1>. USE DEF TimingSizes, Timing!Init
<1>1. TimingWaits \in Nat \ {0}
    BY Zenon, TimingWorst
<1>2. /\ legs \in [Timing!Legs -> [phase : 0 .. TimingWaits, due : Nat, held : BOOLEAN]]
      /\ legs[1].phase = 1 /\ legs[1].due = TimeLimit /\ legs[2].phase = 0
  <2>1. PICK h \in BOOLEAN : legs = Timing!Primary(h)
      BY DEF Timing!Held
  <2>. QED BY <1>1, <2>1 DEF Timing!Legs, Timing!Primary, Timing!Begin, Timing!Off
<1>3. hedgeDue \in Nat \cup {-1} /\ (hedgeDue # -1 => HedgeDelay # 0)
    BY DEF Timing!HedgeTimers
<1>4. Timing!TypeOK
  <2>1. extra \in BOOLEAN
      BY Zenon
  <2>2. now \in Nat /\ exchanges \in 1 .. 2 /\ hedges \in 0 .. 2 /\ fdue \in Nat
        /\ waited \in Nat
      OBVIOUS
  <2>. QED BY Zenon, <1>2, <1>3, <2>1, <2>2 DEF Timing!TypeOK, TimingWaits
<1>5. TimingLeg(1) /\ TimingLeg(2) /\ Timing!Running(1)
    BY <1>2 DEF TimingLeg, Timing!Running, TimingBase
<1>6. TimingHedges /\ TimingFollower
    BY <1>3 DEF TimingHedges, TimingFollower
<1>. QED BY Zenon, <1>4, <1>5, <1>6 DEF TimingInv

\* What the invariant says of the numbers, in one place.
LEMMA TimingFacts ==
    ASSUME TimingSizes, TimingInv
    PROVE  /\ TimingWaits \in Nat \ {0} /\ TimingWork \in Nat /\ TimingBase \in Nat
           /\ Timing!WorstExchange = IF HedgeDelay = 0 THEN TimingWork ELSE 2 * TimingWork
           /\ now \in Nat /\ exchanges \in 1 .. 2 /\ hedges \in 0 .. 2 /\ waited \in Nat
           /\ \A l \in {1, 2} :
                  /\ legs[l].phase \in 0 .. TimingWaits /\ legs[l].due \in Nat
                  /\ legs[l].phase * TimeLimit \in Nat
                  /\ legs[l].phase * TimeLimit <= TimingWork
                  /\ (legs[l].phase + 1) * TimeLimit = legs[l].phase * TimeLimit + TimeLimit
<1>1. timingTransport \in Timing!Transports
    BY Zenon DEF TimingInv, Timing!TypeOK
<1>2. /\ TimingWaits \in Nat \ {0} /\ TimingWork \in Nat
      /\ Timing!WorstExchange = IF HedgeDelay = 0 THEN TimingWork ELSE 2 * TimingWork
    BY Zenon, <1>1, TimingWorst
<1>3. now \in Nat /\ exchanges \in 1 .. 2 /\ hedges \in 0 .. 2 /\ waited \in Nat
    BY Zenon DEF TimingInv, Timing!TypeOK
<1>4. TimingBase \in Nat
    BY <1>2, <1>3 DEF TimingBase
<1>5. ASSUME NEW l \in {1, 2}
      PROVE  /\ legs[l].phase \in 0 .. TimingWaits /\ legs[l].due \in Nat
             /\ legs[l].phase * TimeLimit \in Nat
             /\ legs[l].phase * TimeLimit <= TimingWork
             /\ (legs[l].phase + 1) * TimeLimit = legs[l].phase * TimeLimit + TimeLimit
  <2>1. legs[l].phase \in 0 .. TimingWaits /\ legs[l].due \in Nat
      BY Zenon DEF TimingInv, Timing!TypeOK, TimingWaits, Timing!Legs
  <2>2. legs[l].phase \in Nat /\ legs[l].phase <= TimingWaits
      BY <1>2, <2>1
  <2>. QED BY Zenon, <1>2, <2>1, <2>2, TimingProducts DEF TimingSizes, TimingWork
<1>. QED BY Zenon, <1>2, <1>3, <1>4, <1>5

\* No running leg is due later than the worst case of the exchanges so far, but for the
\* time spent in full queues.
LEMMA TimingDue ==
    ASSUME TimingSizes, TimingInv, NEW l \in {1, 2}, Timing!Running(l)
    PROVE  /\ lpc = "exchange" /\ now <= legs[l].due
           /\ legs[l].due <= TimingBase + Timing!WorstExchange + waited
           /\ l = 1 => legs[l].due <= TimingBase + TimingWork + waited
<1>1. TimingLeg(l)
    BY Zenon DEF TimingInv
<1>. QED BY <1>1, TimingFacts DEF TimingLeg

\* The leader is done, or its second exchange begins.
LEMMA TimingLeaderDone ==
    ASSUME TimingSizes, TimingInv, Timing!LeaderDone,
           UNCHANGED <<now, timingTransport, hedges, waited, fpc, fdue>>
    PROVE  TimingInv'
<1>1. /\ lpc' = "done" /\ hedgeDue' = -1 /\ UNCHANGED <<exchanges, extra>>
      /\ legs' = [l \in Timing!Legs |-> Timing!Off]
    BY Zenon DEF Timing!LeaderDone
<1>2. TimingWaits' = TimingWaits /\ TimingWaits \in Nat
    BY Zenon, TimingFacts DEF TimingWaits
<1>3. /\ legs' \in [Timing!Legs -> [phase : 0 .. TimingWaits, due : Nat, held : BOOLEAN]]
      /\ legs'[1].phase = 0 /\ legs'[2].phase = 0
    BY <1>1, <1>2 DEF Timing!Legs, Timing!Off
<1>4. Timing!TypeOK'
    BY Zenon, <1>1, <1>2, <1>3 DEF TimingInv, Timing!TypeOK, TimingWaits
<1>5. TimingLeg(1)' /\ TimingLeg(2)'
    BY Zenon, <1>3 DEF TimingLeg, Timing!Running
<1>6. TimingHedges' /\ TimingFollower'
    BY <1>1, TimingFacts DEF TimingInv, TimingHedges, TimingFollower, Timing!FollowerWait,
                             Timing!MaxExchangesPerQuery
<1>. QED BY Zenon, <1>1, <1>4, <1>5, <1>6 DEF TimingInv

LEMMA TimingSecondExchange ==
    ASSUME TimingSizes, TimingInv, NEW m \in {1, 2}, Timing!Running(m),
           exchanges < 2, exchanges' = exchanges + 1,
           NEW h \in BOOLEAN, legs' = Timing!Primary(h), hedgeDue' \in Timing!HedgeTimers,
           UNCHANGED <<now, timingTransport, lpc, extra, hedges, waited, fpc, fdue>>
    PROVE  TimingInv'
<1>. USE DEF TimingSizes
<1>1. /\ TimingWaits' = TimingWaits /\ TimingWork' = TimingWork
      /\ Timing!WorstExchange' = Timing!WorstExchange
    BY Zenon DEF TimingWaits, TimingWork, Timing!WorstExchange
<1>2. /\ legs' \in [Timing!Legs -> [phase : 0 .. TimingWaits, due : Nat, held : BOOLEAN]]
      /\ legs'[1].phase = 1 /\ legs'[1].due = now + TimeLimit /\ legs'[2].phase = 0
    BY TimingFacts DEF Timing!Legs, Timing!Off, Timing!Primary, Timing!Begin
<1>3. hedgeDue' \in Nat \cup {-1} /\ (hedgeDue' # -1 => HedgeDelay # 0)
    BY TimingFacts DEF Timing!HedgeTimers
<1>4. Timing!TypeOK'
    BY <1>1, <1>2, <1>3, TimingFacts DEF TimingInv, Timing!TypeOK, TimingWaits
<1>5. exchanges = 1 /\ TimingBase = 0 /\ TimingBase' = Timing!WorstExchange
    BY <1>1, TimingFacts DEF TimingBase
<1>6. lpc = "exchange" /\ now <= Timing!WorstExchange + waited
    BY <1>5, TimingDue, TimingFacts
<1>7. ~extra => now <= TimeLimit + (IF hedges > 0 THEN HedgeDelay ELSE 0)
  <2>1. TimingLeg(m)
      BY Zenon DEF TimingInv
  <2>. QED BY <1>5, <2>1, TimingFacts DEF TimingLeg
<1>8. TimingLeg(1)' /\ TimingLeg(2)' /\ Timing!Running(1)'
  <2>1. Timing!Running(1)' /\ ~Timing!Running(2)'
      BY <1>2 DEF Timing!Running
  <2>2. legs'[1].phase * TimeLimit = TimeLimit /\ exchanges' * TimeLimit = TimeLimit + TimeLimit
      BY <1>2, <1>5
  <2>3. /\ now' <= legs'[1].due
        /\ legs'[1].due <= TimingBase' + 0 + legs'[1].phase * TimeLimit + waited'
      BY <1>2, <1>5, <1>6, <2>2, TimingFacts
  <2>4. ~extra' => legs'[1].due <= exchanges' * TimeLimit
                                   + (IF hedges' > 0 THEN HedgeDelay ELSE 0)
      BY <1>2, <1>7, <2>2, TimingFacts
  <2>5. TimingLeg(1)'
      BY <1>2, <1>6, <2>3, <2>4 DEF TimingLeg
  <2>. QED BY Zenon, <2>1, <2>5 DEF TimingLeg
<1>9. TimingHedges' /\ TimingFollower'
    BY <1>3, TimingFacts DEF TimingInv, TimingHedges, TimingFollower, Timing!FollowerWait,
                             Timing!MaxExchangesPerQuery
<1>. QED BY Zenon, <1>4, <1>8, <1>9 DEF TimingInv

\* A leg goes on to its next phase.
LEMMA TimingNextPhase ==
    ASSUME TimingSizes, TimingInv, NEW l \in {1, 2}, Timing!Running(l),
           legs[l].phase < TimingWaits,
           legs' = [legs EXCEPT ![l] = Timing!Phase(legs[l].phase + 1)], extra' = TRUE,
           UNCHANGED <<now, timingTransport, lpc, exchanges, hedgeDue, hedges, waited, fpc,
                       fdue>>
    PROVE  TimingInv'
<1>. USE DEF TimingSizes
<1>1. /\ TimingWaits' = TimingWaits /\ TimingWork' = TimingWork /\ TimingBase' = TimingBase
    BY Zenon DEF TimingWaits, TimingWork, TimingBase, Timing!WorstExchange
<1>2. legs \in [Timing!Legs -> [phase : 0 .. TimingWaits, due : Nat, held : BOOLEAN]]
    BY Zenon DEF TimingInv, Timing!TypeOK, TimingWaits
<1>3. /\ legs' \in [Timing!Legs -> [phase : 0 .. TimingWaits, due : Nat, held : BOOLEAN]]
      /\ legs'[l].phase = legs[l].phase + 1 /\ legs'[l].due = now + TimeLimit
      /\ \A o \in {1, 2} \ {l} : legs'[o] = legs[o]
    BY <1>2, TimingFacts DEF Timing!Legs, Timing!Phase
<1>4. Timing!TypeOK'
    BY Zenon, <1>1, <1>3 DEF TimingInv, Timing!TypeOK, TimingWaits
<1>5. TimingLeg(l) /\ legs'[l].phase * TimeLimit = legs[l].phase * TimeLimit + TimeLimit
    BY Zenon, <1>3, TimingFacts DEF TimingInv
<1>6. TimingLeg(l)' /\ Timing!Running(l)'
  <2>. DEFINE P == legs[l].phase * TimeLimit
              H == IF l = 2 THEN TimingWork ELSE 0
  <2>1. /\ P \in Nat /\ H \in Nat /\ TimingBase \in Nat /\ legs[l].due \in Nat
        /\ now \in Nat /\ waited \in Nat /\ legs'[l].phase \in Nat \ {0}
      BY <1>3, TimingFacts
  <2>2. /\ lpc = "exchange" /\ now <= legs[l].due
        /\ legs[l].due <= TimingBase + H + P + waited /\ (l = 2 => HedgeDelay # 0)
      BY Zenon, <1>5 DEF TimingLeg
  <2>3. legs'[l].phase * TimeLimit = P + TimeLimit
      BY Zenon, <1>5
  <2>. HIDE DEF P, H
  <2>4. now <= legs'[l].due /\ legs'[l].due <= TimingBase + H + (P + TimeLimit) + waited
      BY <1>3, <2>1, <2>2
  <2>5. TimingLeg(l)'
      BY Zenon, <1>1, <2>2, <2>3, <2>4 DEF TimingLeg, H
  <2>. QED BY <2>1, <2>5 DEF Timing!Running
<1>7. ASSUME NEW o \in {1, 2} \ {l} PROVE TimingLeg(o)'
    BY <1>1, <1>3, TimingFacts DEF TimingInv, TimingLeg, Timing!Running
<1>8. TimingHedges' /\ TimingFollower'
    BY Zenon, TimingFacts DEF TimingInv, TimingHedges, TimingFollower, Timing!FollowerWait,
                       Timing!MaxExchangesPerQuery
<1>. QED BY Zenon, <1>4, <1>6, <1>7, <1>8 DEF TimingInv

\* A packet leaves the wait for a queue: nothing but that changes.
LEMMA TimingEnqueue ==
    ASSUME TimingSizes, TimingInv, NEW l \in Timing!Legs, Timing!Enqueue(l)
    PROVE  TimingInv'
<1>1. /\ legs' = [legs EXCEPT ![l].held = FALSE]
      /\ UNCHANGED <<now, timingTransport, lpc, exchanges, hedgeDue, extra, hedges, waited, fpc,
                     fdue>>
    BY Zenon DEF Timing!Enqueue
<1>2. /\ TimingWaits' = TimingWaits /\ TimingWork' = TimingWork /\ TimingBase' = TimingBase
    BY Zenon, <1>1 DEF TimingWaits, TimingWork, TimingBase, Timing!WorstExchange
<1>3. legs \in [Timing!Legs -> [phase : 0 .. TimingWaits, due : Nat, held : BOOLEAN]]
    BY Zenon DEF TimingInv, Timing!TypeOK, TimingWaits
<1>4. /\ legs' \in [Timing!Legs -> [phase : 0 .. TimingWaits, due : Nat, held : BOOLEAN]]
      /\ \A o \in {1, 2} : legs'[o].phase = legs[o].phase /\ legs'[o].due = legs[o].due
    BY <1>1, <1>3 DEF Timing!Legs
<1>5. Timing!TypeOK'
    BY Zenon, <1>1, <1>2, <1>4 DEF TimingInv, Timing!TypeOK, TimingWaits
<1>6. ASSUME NEW o \in {1, 2}, TimingLeg(o)
      PROVE  TimingLeg(o)' /\ Timing!Running(o)' = Timing!Running(o)
    BY Zenon, <1>1, <1>2, <1>4, <1>6 DEF TimingLeg, Timing!Running
<1>7. TimingHedges' /\ TimingFollower'
    BY Zenon, <1>1 DEF TimingInv, TimingHedges, TimingFollower, Timing!FollowerWait,
                       Timing!MaxExchangesPerQuery
<1>. QED BY Zenon, <1>1, <1>5, <1>6, <1>7 DEF TimingInv

LEMMA TimingPhaseEnds ==
    ASSUME TimingSizes, TimingInv, NEW l \in Timing!Legs, Timing!PhaseEnds(l)
    PROVE  TimingInv'
<1>1. /\ l \in {1, 2} /\ Timing!Running(l)
      /\ UNCHANGED <<now, timingTransport, hedges, waited, fpc, fdue>>
    BY Zenon DEF Timing!PhaseEnds, Timing!Legs
<1>2. CASE /\ legs[l].phase < TimingWaits
           /\ legs' = [legs EXCEPT ![l] = Timing!Phase(legs[l].phase + 1)] /\ extra' = TRUE
           /\ UNCHANGED <<lpc, exchanges, hedgeDue>>
    BY Zenon, <1>1, <1>2, TimingNextPhase
<1>3. CASE Timing!LeaderDone
    BY Zenon, <1>1, <1>3, TimingLeaderDone
<1>4. CASE /\ exchanges < Timing!MaxExchangesPerQuery /\ exchanges' = exchanges + 1
           /\ \E h \in Timing!Held : legs' = Timing!Primary(h)
           /\ hedgeDue' \in Timing!HedgeTimers /\ UNCHANGED <<lpc, extra>>
  <2>1. PICK h \in BOOLEAN : legs' = Timing!Primary(h)
      BY <1>4 DEF Timing!Held
  <2>. QED BY Zenon, <1>1, <1>4, <2>1, TimingSecondExchange DEF Timing!MaxExchangesPerQuery
<1>. QED BY Zenon, <1>2, <1>3, <1>4 DEF Timing!PhaseEnds, Timing!Succeed, TimingWaits

LEMMA TimingLegFails ==
    ASSUME TimingSizes, TimingInv, NEW l \in Timing!Legs, Timing!LegFails(l)
    PROVE  TimingInv'
<1>1. l \in {1, 2} /\ UNCHANGED <<now, timingTransport, hedges, waited, fpc, fdue>>
    BY Zenon DEF Timing!LegFails, Timing!Legs
<1>2. ASSUME NEW o \in Timing!Legs \ {l}, Timing!Running(o),
             legs' = [legs EXCEPT ![l] = Timing!Off],
             UNCHANGED <<lpc, exchanges, hedgeDue, extra>>
      PROVE  TimingInv'
  <2>1. /\ TimingWaits' = TimingWaits /\ TimingWork' = TimingWork /\ TimingBase' = TimingBase
      BY Zenon, <1>1, <1>2 DEF TimingWaits, TimingWork, TimingBase, Timing!WorstExchange
  <2>2. legs \in [Timing!Legs -> [phase : 0 .. TimingWaits, due : Nat, held : BOOLEAN]]
      BY Zenon DEF TimingInv, Timing!TypeOK, TimingWaits
  <2>3. /\ legs' \in [Timing!Legs -> [phase : 0 .. TimingWaits, due : Nat, held : BOOLEAN]]
        /\ legs'[l].phase = 0 /\ legs'[o] = legs[o] /\ o \in {1, 2} \ {l}
      BY <1>1, <1>2, <2>2, TimingFacts DEF Timing!Legs, Timing!Off
  <2>4. Timing!TypeOK'
      BY Zenon, <1>1, <1>2, <2>1, <2>3 DEF TimingInv, Timing!TypeOK, TimingWaits
  <2>5. TimingLeg(l)'
      BY Zenon, <2>3 DEF TimingLeg, Timing!Running
  <2>6. TimingLeg(o)' /\ Timing!Running(o)'
      BY <1>1, <1>2, <2>1, <2>3 DEF TimingInv, TimingLeg, Timing!Running
  <2>7. TimingHedges' /\ TimingFollower'
      BY Zenon, <1>1, <1>2 DEF TimingInv, TimingHedges, TimingFollower, Timing!FollowerWait,
                        Timing!MaxExchangesPerQuery
  <2>. QED BY <1>1, <2>3, <2>4, <2>5, <2>6, <2>7 DEF TimingInv
<1>3. CASE Timing!LeaderDone
    BY Zenon, <1>1, <1>3, TimingLeaderDone
<1>. QED BY Zenon, <1>2, <1>3 DEF Timing!LegFails

LEMMA TimingHedgeFires ==
    ASSUME TimingSizes, TimingInv, Timing!HedgeFires
    PROVE  TimingInv'
<1>. USE DEF TimingSizes
<1>1. /\ hedgeDue # -1 /\ now >= hedgeDue /\ Timing!Running(1) /\ hedgeDue' = -1
      /\ UNCHANGED <<now, timingTransport, lpc, exchanges, waited, fpc, fdue>>
    BY Zenon DEF Timing!HedgeFires
<1>2. /\ TimingWaits' = TimingWaits /\ TimingWork' = TimingWork /\ TimingBase' = TimingBase
    BY Zenon, <1>1 DEF TimingWaits, TimingWork, TimingBase, Timing!WorstExchange
<1>3. legs \in [Timing!Legs -> [phase : 0 .. TimingWaits, due : Nat, held : BOOLEAN]]
    BY Zenon DEF TimingInv, Timing!TypeOK, TimingWaits
<1>4. TimingFollower'
    BY Zenon, <1>1 DEF TimingInv, TimingFollower, Timing!FollowerWait, Timing!MaxExchangesPerQuery
<1>5. CASE /\ \E h \in Timing!Held : legs' = [legs EXCEPT ![2] = Timing!Begin(h)]
           /\ hedges' = hedges + 1
           /\ extra' = (extra \/ hedges > 0 \/ now - (legs[1].due - TimeLimit) > HedgeDelay)
  <2>1. /\ legs' \in [Timing!Legs -> [phase : 0 .. TimingWaits, due : Nat, held : BOOLEAN]]
        /\ legs'[2].phase = 1 /\ legs'[2].due = now + TimeLimit /\ legs'[1] = legs[1]
    <3>1. PICK h \in BOOLEAN : legs' = [legs EXCEPT ![2] = Timing!Begin(h)]
        BY <1>5 DEF Timing!Held
    <3>. QED BY <1>3, <3>1, TimingFacts DEF Timing!Legs, Timing!Begin
  <2>2. extra' \in BOOLEAN /\ hedges' \in 0 .. 2
      BY <1>1, <1>5, TimingFacts DEF TimingInv, TimingHedges
  <2>3. Timing!TypeOK'
      BY Zenon, <1>1, <1>2, <2>1, <2>2 DEF TimingInv, Timing!TypeOK, TimingWaits
  <2>. DEFINE E == exchanges * TimeLimit
  <2>6. E \in Nat
      BY TimingFacts
  <2>. HIDE DEF E
  <2>4. /\ lpc = "exchange" /\ now <= legs[1].due
        /\ legs[1].due <= TimingBase + TimingWork + waited /\ HedgeDelay # 0
        /\ legs[1].due <= TimingBase + 0 + legs[1].phase * TimeLimit + waited
        /\ ~extra => legs[1].phase = 1
                     /\ legs[1].due <= E + (IF hedges > 0 THEN HedgeDelay ELSE 0)
    <3>1. TimingLeg(1) /\ HedgeDelay # 0
        BY Zenon, <1>1 DEF TimingInv, TimingHedges
    <3>2. legs[1].due <= TimingBase + TimingWork + waited
        BY Zenon, <1>1, TimingDue
    <3>. QED BY <1>1, <3>1, <3>2 DEF TimingLeg, E
  <2>5. ~extra' => /\ ~extra /\ hedges = 0 /\ now - (legs[1].due - TimeLimit) <= HedgeDelay
                   /\ legs[1].phase = 1 /\ legs[1].due <= E
    <3>. SUFFICES ASSUME ~extra'
                  PROVE  /\ ~extra /\ hedges = 0
                         /\ now - (legs[1].due - TimeLimit) <= HedgeDelay
                         /\ legs[1].phase = 1 /\ legs[1].due <= E
        OBVIOUS
    <3>1. /\ ~extra /\ ~(hedges > 0) /\ ~(now - (legs[1].due - TimeLimit) > HedgeDelay)
        BY <1>5, Zenon
    <3>2. now \in Nat /\ legs[1].due \in Nat /\ hedges \in 0 .. 2
        BY Zenon, TimingFacts
    <3>3. hedges = 0 /\ now - (legs[1].due - TimeLimit) <= HedgeDelay
        BY <3>1, <3>2
    <3>. QED BY <2>4, <2>6, <3>1, <3>2, <3>3
  <2>7. TimingLeg(1)'
    <3>1. /\ legs'[1].due <= TimingBase' + 0 + legs'[1].phase * TimeLimit + waited'
          /\ now' <= legs'[1].due
        BY Zenon, <1>1, <1>2, <2>1, <2>4
    <3>2. ~extra' => /\ legs'[1].phase = 1
                     /\ legs'[1].due <= E + (IF hedges' > 0 THEN HedgeDelay ELSE 0)
        BY <1>5, <2>1, <2>5, <2>6, TimingFacts
    <3>. QED BY <1>1, <2>4, <3>1, <3>2 DEF TimingLeg, E
  <2>8. TimingLeg(2)'
    <3>1. legs'[2].phase * TimeLimit = TimeLimit
        BY <2>1
    <3>2. /\ legs'[2].due <= TimingBase' + TimingWork' + legs'[2].phase * TimeLimit + waited'
          /\ now' <= legs'[2].due
        BY <1>1, <1>2, <2>1, <2>4, <3>1, TimingFacts
    <3>3. ~extra' => legs'[2].due <= E + (IF hedges' > 0 THEN HedgeDelay ELSE 0)
        BY <1>5, <2>1, <2>5, <2>6, TimingFacts
    <3>. QED BY Zenon, <1>1, <2>1, <2>4, <3>2, <3>3 DEF TimingLeg, E
  <2>9. TimingHedges' /\ Timing!Running(1)'
      BY <1>1, <1>5, <2>1, <2>5, TimingFacts DEF TimingInv, TimingHedges, Timing!Running
  <2>. QED BY Zenon, <1>4, <2>3, <2>7, <2>8, <2>9 DEF TimingInv
<1>6. CASE UNCHANGED <<legs, hedges, extra>>
  <2>1. Timing!TypeOK'
      BY Zenon, <1>1, <1>2, <1>6 DEF TimingInv, Timing!TypeOK, TimingWaits
  <2>2. TimingLeg(1)' /\ TimingLeg(2)' /\ Timing!Running(1)'
      BY Zenon, <1>1, <1>2, <1>6 DEF TimingInv, TimingLeg, Timing!Running
  <2>3. TimingHedges'
      BY <1>1, <1>6, TimingFacts DEF TimingInv, TimingHedges
  <2>. QED BY Zenon, <1>4, <2>1, <2>2, <2>3 DEF TimingInv
<1>. QED BY Zenon, <1>5, <1>6 DEF Timing!HedgeFires

\* The follower's steps.
LEMMA TimingOthers ==
    ASSUME TimingSizes, TimingInv, Timing!Join \/ Timing!Answer \/ Timing!GiveUp
    PROVE  TimingInv'
<1>. USE DEF TimingSizes
<1>1. UNCHANGED <<now, timingTransport, lpc, exchanges, legs, hedgeDue, extra, hedges, waited>>
    BY Zenon DEF Timing!Join, Timing!Answer, Timing!GiveUp
<1>2. /\ TimingWaits' = TimingWaits /\ TimingWork' = TimingWork /\ TimingBase' = TimingBase
      /\ Timing!FollowerWait \in Nat
    BY <1>1 DEF TimingWaits, TimingWork, TimingBase, Timing!WorstExchange,
                Timing!FollowerWait, Timing!MaxExchangesPerQuery
<1>3. now \in Nat /\ fdue \in Nat /\ fpc \in {"absent", "waiting", "answered", "servfail"}
    BY Zenon DEF TimingInv, Timing!TypeOK
<1>4. Timing!TypeOK'
  <2>1. fdue' \in Nat /\ fpc' \in {"absent", "waiting", "answered", "servfail"}
      BY <1>2, <1>3 DEF Timing!Join, Timing!Answer, Timing!GiveUp
  <2>. QED BY Zenon, <1>1, <1>2, <2>1 DEF TimingInv, Timing!TypeOK, TimingWaits
<1>5. TimingLeg(1)' /\ TimingLeg(2)'
    BY Zenon, <1>1, <1>2 DEF TimingInv, TimingLeg, Timing!Running
<1>6. TimingHedges' /\ (lpc' = "exchange" => Timing!Running(1)' \/ Timing!Running(2)')
    BY Zenon, <1>1 DEF TimingInv, TimingHedges, Timing!Running
<1>7. TimingFollower'
  <2>1. Timing!FollowerWait' = Timing!FollowerWait
      BY Zenon DEF Timing!FollowerWait, Timing!MaxExchangesPerQuery
  <2>2. CASE Timing!Join
      BY <1>2, <1>3, <2>1, <2>2 DEF TimingFollower, Timing!Join
  <2>3. CASE Timing!Answer
      BY Zenon, <2>3 DEF TimingFollower, Timing!Answer
  <2>4. CASE Timing!GiveUp
      BY Zenon, <2>1, <2>4 DEF TimingInv, TimingFollower, Timing!GiveUp
  <2>. QED BY Zenon, <2>2, <2>3, <2>4
<1>. QED BY Zenon, <1>4, <1>5, <1>6, <1>7 DEF TimingInv

\* The clock: what a queue holds is due one tick later, and one tick more was waited.
LEMMA TimingTick ==
    ASSUME TimingSizes, TimingInv, Timing!Tick
    PROVE  TimingInv'
<1>. USE DEF TimingSizes
<1>1. /\ now' = now + 1 /\ \A l \in {1, 2} : Timing!Running(l) => now < legs[l].due
      /\ legs' = [l \in Timing!Legs |-> IF legs[l].held
                                        THEN [legs[l] EXCEPT !.due = legs[l].due + 1]
                                        ELSE legs[l]]
      /\ UNCHANGED <<timingTransport, lpc, exchanges, hedgeDue, hedges, fpc, fdue>>
    BY Zenon DEF Timing!Tick, Timing!Legs
<1>2. /\ TimingWaits' = TimingWaits /\ TimingWork' = TimingWork /\ TimingBase' = TimingBase
    BY Zenon, <1>1 DEF TimingWaits, TimingWork, TimingBase, Timing!WorstExchange
<1>3. legs \in [Timing!Legs -> [phase : 0 .. TimingWaits, due : Nat, held : BOOLEAN]]
    BY Zenon DEF TimingInv, Timing!TypeOK, TimingWaits
<1>4. /\ legs' \in [Timing!Legs -> [phase : 0 .. TimingWaits, due : Nat, held : BOOLEAN]]
      /\ \A l \in {1, 2} : /\ legs'[l].phase = legs[l].phase
                           /\ legs[l].held => legs'[l].due = legs[l].due + 1
                           /\ ~legs[l].held => legs'[l].due = legs[l].due
    BY <1>1, <1>3 DEF Timing!Legs
<1>5. /\ \A l \in {1, 2} : legs[l].held => waited' = waited + 1 /\ extra' = TRUE
      /\ (\A l \in {1, 2} : ~legs[l].held) => waited' = waited /\ extra' = extra
    BY Zenon DEF Timing!Tick, Timing!Holding, Timing!Legs
<1>6. waited \in Nat /\ now \in Nat /\ waited' \in Nat /\ waited <= waited' /\ now' \in Nat
  <2>1. waited \in Nat /\ now \in Nat
      BY Zenon, TimingFacts
  <2>2. waited' = waited + 1 \/ waited' = waited
      BY Zenon, <1>5
  <2>. QED BY <1>1, <2>1, <2>2
<1>7. extra' \in BOOLEAN /\ (extra => extra')
  <2>1. extra \in BOOLEAN
      BY Zenon DEF TimingInv, Timing!TypeOK
  <2>2. extra' = TRUE \/ extra' = extra
      BY Zenon, <1>5
  <2>. QED BY <2>1, <2>2
<1>8. Timing!TypeOK'
    BY Zenon, <1>1, <1>2, <1>4, <1>6, <1>7 DEF TimingInv, Timing!TypeOK, TimingWaits
<1>9. ASSUME NEW l \in {1, 2}, TimingLeg(l)
      PROVE  TimingLeg(l)' /\ Timing!Running(l)' = Timing!Running(l)
  <2>1. Timing!Running(l)' = Timing!Running(l)
      BY Zenon, <1>4 DEF Timing!Running
  <2>. SUFFICES ASSUME Timing!Running(l) PROVE TimingLeg(l)'
      BY Zenon, <2>1 DEF TimingLeg
  <2>. DEFINE P == legs[l].phase * TimeLimit
              E == exchanges * TimeLimit + (IF hedges > 0 THEN HedgeDelay ELSE 0)
              H == IF l = 2 THEN TimingWork ELSE 0
  <2>2. P \in Nat /\ legs[l].due \in Nat /\ H \in Nat /\ TimingBase \in Nat
      BY TimingFacts
  <2>3. /\ lpc = "exchange" /\ legs[l].due <= TimingBase + H + P + waited
        /\ l = 2 => HedgeDelay # 0
        /\ ~extra => legs[l].phase = 1 /\ legs[l].due <= E
      BY Zenon, <1>9 DEF TimingLeg
  <2>4. now < legs[l].due
      BY Zenon, <1>1
  <2>. HIDE DEF P, E, H
  <2>5. now' <= legs'[l].due /\ legs'[l].due <= TimingBase + H + P + waited'
    <3>1. CASE legs[l].held
        BY <1>1, <1>4, <1>5, <1>6, <2>2, <2>3, <2>4, <3>1
    <3>2. CASE ~legs[l].held
        BY <1>1, <1>4, <1>6, <2>2, <2>3, <2>4, <3>2
    <3>. QED BY Zenon, <3>1, <3>2
  <2>6. ~extra' => legs'[l].phase = 1 /\ legs'[l].due <= E
      BY Zenon, <1>4, <1>5, <1>7, <2>3
  <2>. QED BY Zenon, <1>1, <1>2, <1>4, <2>3, <2>5, <2>6 DEF TimingLeg, P, E, H
<1>10. TimingHedges'
    BY Zenon, <1>1, <1>7 DEF TimingInv, TimingHedges
<1>11. TimingFollower'
  <2>1. Timing!FollowerWait' = Timing!FollowerWait
      BY Zenon DEF Timing!FollowerWait, Timing!MaxExchangesPerQuery
  <2>2. fdue \in Nat
      BY Zenon DEF TimingInv, Timing!TypeOK
  <2>. QED BY <1>1, <1>6, <2>1, <2>2 DEF TimingInv, TimingFollower
<1>. QED BY Zenon, <1>1, <1>8, <1>9, <1>10, <1>11 DEF TimingInv

LEMMA TimingStep ==
    ASSUME TimingSizes, TimingInv, Timing!Next \/ UNCHANGED Timing!vars
    PROVE  TimingInv'
<1>1. CASE \E l \in Timing!Legs : Timing!Enqueue(l) \/ Timing!PhaseEnds(l)
                                    \/ Timing!LegFails(l)
    BY Zenon, <1>1, TimingEnqueue, TimingPhaseEnds, TimingLegFails
<1>2. CASE UNCHANGED Timing!vars
    BY <1>2 DEF Timing!vars, TimingInv, Timing!TypeOK, TimingLeg, TimingHedges, TimingFollower,
                Timing!Running, TimingBase, TimingWork, TimingWaits, Timing!WorstExchange
<1>. QED BY Zenon, <1>1, <1>2, TimingHedgeFires, TimingOthers, TimingTick
    DEF Timing!Next, Timing!Idle

\* exchange_with_dedupe: the leader ends within the worst case of its exchanges and the time
\* that full UDP send queues held its packets, and the follower's deadline covers a leader
\* whose exchanges wait for one answer each.
THEOREM TimingSafe ==
    ASSUME TimingSizes, TimingInv
    PROVE  Timing!TypeOK /\ Timing!LeaderBounded /\ Timing!PlainLeaderCovered
<1>. USE DEF TimingSizes
<1>1. Timing!LeaderBounded
  <2>. SUFFICES ASSUME lpc = "exchange" PROVE now <= 2 * Timing!WorstExchange + waited
      BY Zenon DEF Timing!LeaderBounded, Timing!MaxExchangesPerQuery
  <2>1. PICK l \in {1, 2} : Timing!Running(l)
      BY Zenon DEF TimingInv
  <2>2. now <= TimingBase + Timing!WorstExchange + waited
      BY <2>1, TimingDue, TimingFacts
  <2>. QED BY <2>2, TimingFacts DEF TimingBase
<1>2. Timing!PlainLeaderCovered
  <2>. SUFFICES ASSUME fpc = "servfail", lpc = "exchange", ~extra PROVE FALSE
      BY Zenon DEF Timing!PlainLeaderCovered, TimingInv, Timing!TypeOK
  <2>1. PICK l \in {1, 2} : Timing!Running(l)
      BY Zenon DEF TimingInv
  <2>2. now <= exchanges * TimeLimit + (IF hedges > 0 THEN HedgeDelay ELSE 0)
      BY <2>1, TimingFacts DEF TimingInv, TimingLeg
  <2>3. now >= TimeLimit * 2 + HedgeDelay + Slack
      BY TimingFacts DEF TimingInv, TimingFollower, Timing!FollowerWait,
                         Timing!MaxExchangesPerQuery, Timing!TypeOK
  <2>. QED BY <2>2, <2>3, TimingFacts
<1>. QED BY Zenon, <1>1, <1>2 DEF TimingInv

-----------------------------------------------------------------------------
(* FinalAnswer.                                                             *)

CONSTANTS Servers, NoServer

VARIABLES finalKind, target, finalFirst, second, filter, forwardTo, loaded, noipAsPrimary,
          pc, answer, finalAsked, ended, verdict, response, winner, forwarded, entry

\* The servers of route.final, and those to forward to.
Final == INSTANCE FinalAnswer WITH
    kind <- finalKind, first <- finalFirst, asked <- finalAsked

\* The two servers of route.final, raced or told apart by the addresses of the primary's
\* answer.
FinalTwo == {finalFirst, second}
FinalTesting == target = "cidr" /\ loaded

FinalConfig ==
    /\ finalFirst # second
    /\ filter # "none" => target = "rule"
    /\ forwarded # NoServer => target = "rule"

\* The verdict so far is the one the primary's answer gave.
FinalVerdict ==
    /\ verdict = "primary" => answer[finalFirst] = "inside"
    /\ verdict = "secondary" => answer[finalFirst] = "outside"

\* Who has been asked, and what is known of their answers, at each step of the way.
FinalStage ==
    /\ pc # "done" => entry = Final!NoEntry
    /\ pc \notin {"cache", "done"} => forwarded = NoServer
    /\ pc = "one" => \/ target \in {"rule", "server"} /\ finalAsked = {finalFirst}
                     \/ FinalTesting /\ \E s \in FinalTwo : finalAsked = {s}
    /\ pc = "forward" => filter = "forward"
    /\ pc = "race" => Final!Racing /\ finalAsked = FinalTwo
    /\ pc = "cidr" => FinalTesting /\ finalAsked = FinalTwo /\ verdict = "none"
    /\ pc = "await" =>
           /\ target \in {"race", "cidr"} /\ finalAsked = FinalTwo
           /\ Final!Racing => ended \in FinalTwo /\ answer[ended] \in {"servfail", "error"}
           /\ FinalTesting => /\ answer[finalFirst] # "none" /\ FinalVerdict
                              /\ ~Final!PrimaryDecides(answer[finalFirst])

\* The server that the TTL is taken from is the one whose answer is the response.
FinalAnswered ==
    pc \in {"filter", "cache"} =>
        response.from \in Servers /\ response.from = Final!ResolvedServer

FinalInv == /\ Final!TypeOK /\ FinalConfig /\ FinalStage /\ FinalAnswered
            /\ Final!CleanAnswerWins /\ Final!AddressTestRespected
            /\ Final!CreditedToAnswerer /\ Final!TtlOfAnswerer

FinalSizes == NoServer \notin Servers

LEMMA FinalConstants == Final!ServersAssumption => FinalSizes
BY Zenon DEF Final!ServersAssumption, FinalSizes

LEMMA FinalInitInv ==
    ASSUME FinalSizes, Final!Init
    PROVE  FinalInv
<1>. USE DEF FinalSizes, Final!Init
<1>1. Final!TypeOK
    BY Zenon DEF Final!TypeOK, Final!NoResponse, Final!NoEntry, Final!Pcs, Final!None
<1>2. FinalConfig /\ FinalStage /\ FinalAnswered
    BY Zenon DEF FinalConfig, FinalStage, FinalAnswered
<1>3. Final!CleanAnswerWins /\ Final!AddressTestRespected
    BY Zenon DEF Final!CleanAnswerWins, Final!AddressTestRespected
<1>4. Final!CreditedToAnswerer /\ Final!TtlOfAnswerer
    BY Zenon DEF Final!CreditedToAnswerer, Final!TtlOfAnswerer, Final!NoEntry, Final!None
<1>. QED BY Zenon, <1>1, <1>2, <1>3, <1>4 DEF FinalInv

\* Until something is cached, the entry says nothing.
LEMMA FinalNoEntry ==
    ASSUME entry' = Final!NoEntry
    PROVE  Final!CreditedToAnswerer' /\ Final!TtlOfAnswerer'
BY Zenon DEF Final!CreditedToAnswerer, Final!TtlOfAnswerer, Final!NoEntry, Final!None

\* The configuration of a query does not change.
LEMMA FinalSame ==
    ASSUME UNCHANGED Final!config
    PROVE  /\ UNCHANGED <<finalKind, target, finalFirst, second, filter, forwardTo, loaded,
                          noipAsPrimary>>
           /\ FinalTwo' = FinalTwo /\ FinalTesting' = FinalTesting
           /\ Final!Racing' = Final!Racing
BY Zenon DEF Final!config, FinalTwo, FinalTesting, Final!Racing

LEMMA FinalAsk ==
    ASSUME FinalSizes, FinalInv, Final!Ask
    PROVE  FinalInv'
<1>. USE DEF FinalInv
<1>1. /\ pc = "start" /\ pc' \in {"one", "race", "cidr"} /\ UNCHANGED Final!config
      /\ UNCHANGED <<answer, ended, verdict, response, winner, forwarded, entry>>
    BY Zenon DEF Final!Ask
<1>2. /\ UNCHANGED <<finalKind, target, finalFirst, second, filter, forwardTo, loaded,
                     noipAsPrimary>>
      /\ FinalTwo' = FinalTwo /\ FinalTesting' = FinalTesting /\ Final!Racing' = Final!Racing
    BY Zenon, <1>1, FinalSame
<1>3. finalAsked' \in SUBSET Servers
    BY Zenon DEF Final!Ask, Final!TypeOK
<1>4. Final!TypeOK'
    BY <1>1, <1>2, <1>3 DEF Final!TypeOK, Final!Pcs
<1>5. FinalConfig' /\ FinalAnswered' /\ Final!CleanAnswerWins' /\ Final!AddressTestRespected'
    BY Zenon, <1>1, <1>2 DEF FinalConfig, FinalAnswered, Final!CleanAnswerWins,
                      Final!AddressTestRespected
<1>6. FinalStage'
    BY Zenon, <1>1, <1>2 DEF FinalStage, Final!Ask, FinalTwo, FinalTesting, Final!Racing,
       Final!None
<1>7. entry' = Final!NoEntry
    BY Zenon, <1>1 DEF FinalStage
<1>. QED BY Zenon, <1>4, <1>5, <1>6, <1>7, FinalNoEntry

\* An exchange ends: its answer is recorded, and the others' are kept.
LEMMA FinalEnds ==
    ASSUME Final!TypeOK, NEW s \in Servers, NEW r, Final!Ends(s, r)
    PROVE  /\ r \in Final!Answers /\ r # "none" /\ answer[s] = "none"
           /\ answer' \in [Servers -> Final!Answers \cup {"none"}]
           /\ answer'[s] = r /\ \A o \in Servers \ {s} : answer'[o] = answer[o]
<1>1. r \in Final!Answers
    BY Zenon DEF Final!Ends, Final!Outcomes, Final!TypeOK, Final!Kinds, Final!Answers, Final!Clean
<1>. QED BY Zenon, <1>1 DEF Final!Ends, Final!TypeOK, Final!Answers, Final!None

LEMMA FinalOne ==
    ASSUME FinalSizes, FinalInv, Final!One
    PROVE  FinalInv'
<1>. USE DEF FinalInv
<1>1. PICK s \in finalAsked, r \in Final!Answers :
          /\ Final!Ends(s, r)
          /\ Final!Respond(s, r, IF r = "error" THEN "done" ELSE "filter")
          /\ winner' = IF target = "cidr" THEN s ELSE NoServer
    BY Zenon DEF Final!One
<1>2. /\ pc = "one" /\ UNCHANGED Final!config /\ s \in Servers
      /\ UNCHANGED <<finalAsked, ended, verdict, forwarded, entry>>
    BY Zenon DEF Final!One, Final!TypeOK
<1>3. /\ UNCHANGED <<finalKind, target, finalFirst, second, filter, forwardTo, loaded,
                     noipAsPrimary>>
      /\ FinalTwo' = FinalTwo /\ FinalTesting' = FinalTesting /\ Final!Racing' = Final!Racing
    BY Zenon, <1>2, FinalSame
<1>4. /\ r \in Final!Answers /\ answer' \in [Servers -> Final!Answers \cup {"none"}]
    BY Zenon, <1>1, <1>2, FinalEnds
<1>5. /\ response' = [from |-> s, what |-> r] /\ pc' \in {"done", "filter"}
      /\ response'.from = s
    BY Zenon, <1>1 DEF Final!Respond
<1>6. Final!TypeOK'
    BY <1>1, <1>2, <1>3, <1>4, <1>5 DEF Final!TypeOK, Final!Pcs, Final!None
<1>7. FinalConfig' /\ FinalStage'
    BY Zenon, <1>2, <1>3, <1>5 DEF FinalConfig, FinalStage
<1>8. /\ entry' = Final!NoEntry /\ forwarded' = NoServer
      /\ \/ target \in {"rule", "server"} /\ finalAsked = {finalFirst} /\ s = finalFirst
         \/ FinalTesting /\ (\E t \in FinalTwo : finalAsked = {t}) /\ winner' = s
    BY Zenon, <1>1, <1>2 DEF FinalStage, FinalTesting
<1>9. FinalAnswered'
    BY Zenon, <1>2, <1>3, <1>5, <1>8 DEF FinalAnswered, Final!ResolvedServer, FinalTesting
<1>10. Final!CleanAnswerWins'
    BY Zenon, <1>3, <1>8 DEF Final!CleanAnswerWins, Final!Racing, FinalTesting
<1>11. Final!AddressTestRespected'
  <2>1. ~(target = "cidr" /\ finalAsked = {finalFirst, second})
      BY Zenon, <1>8 DEF FinalConfig, FinalTwo
  <2>. QED BY Zenon, <1>2, <1>3, <2>1 DEF Final!AddressTestRespected
<1>. QED BY Zenon, <1>6, <1>7, <1>8, <1>9, <1>10, <1>11, FinalNoEntry

\* A response in a race or of the address test, from one of the two servers.
LEMMA FinalResponds ==
    ASSUME FinalSizes, FinalInv, pc \in {"race", "cidr", "await"}, UNCHANGED Final!config,
           UNCHANGED <<finalAsked, forwarded, entry>>, Final!TypeOK',
           NEW s \in Servers, response'.from = s, winner' = s, pc' \in {"filter", "done"}
    PROVE  /\ FinalConfig' /\ FinalStage' /\ FinalAnswered'
           /\ Final!CreditedToAnswerer' /\ Final!TtlOfAnswerer'
<1>. USE DEF FinalInv
<1>1. /\ UNCHANGED <<finalKind, target, finalFirst, second, filter, forwardTo, loaded,
                     noipAsPrimary>>
      /\ FinalTwo' = FinalTwo /\ FinalTesting' = FinalTesting /\ Final!Racing' = Final!Racing
    BY Zenon, FinalSame
<1>2. entry' = Final!NoEntry /\ forwarded' = NoServer /\ target \in {"race", "cidr"}
    BY Zenon DEF FinalStage, FinalTesting, Final!Racing
<1>3. FinalConfig' /\ FinalStage'
    BY Zenon, <1>1, <1>2 DEF FinalConfig, FinalStage
<1>4. FinalAnswered'
    BY Zenon, <1>1, <1>2 DEF FinalAnswered, Final!ResolvedServer
<1>. QED BY Zenon, <1>2, <1>3, <1>4, FinalNoEntry

LEMMA FinalRaceEnds ==
    ASSUME FinalSizes, FinalInv, Final!RaceEnds
    PROVE  FinalInv'
<1>. USE DEF FinalInv
<1>1. PICK s \in finalAsked, r \in Final!Answers :
          /\ Final!Ends(s, r)
          /\ \/ /\ r \in Final!Clean /\ Final!Respond(s, r, "filter")
                /\ winner' = s /\ ended' = ended
             \/ /\ r \notin Final!Clean /\ pc' = "await" /\ ended' = s
                /\ UNCHANGED <<response, winner>>
    BY Zenon DEF Final!RaceEnds
<1>2. /\ pc = "race" /\ UNCHANGED Final!config /\ s \in Servers
      /\ UNCHANGED <<finalAsked, verdict, forwarded, entry>>
    BY Zenon DEF Final!RaceEnds, Final!TypeOK
<1>3. /\ UNCHANGED <<finalKind, target, finalFirst, second, filter, forwardTo, loaded,
                     noipAsPrimary>>
      /\ FinalTwo' = FinalTwo /\ FinalTesting' = FinalTesting /\ Final!Racing' = Final!Racing
    BY Zenon, <1>2, FinalSame
<1>4. /\ answer' \in [Servers -> Final!Answers \cup {"none"}] /\ answer'[s] = r
    BY Zenon, <1>1, <1>2, FinalEnds
<1>5. Final!Racing /\ finalAsked = FinalTwo /\ ~FinalTesting
    BY Zenon, <1>2 DEF FinalStage, FinalTesting, Final!Racing
<1>6. CASE /\ r \in Final!Clean /\ Final!Respond(s, r, "filter")
           /\ winner' = s /\ ended' = ended
  <2>1. response' = [from |-> s, what |-> r] /\ pc' = "filter"
      BY Zenon, <1>6 DEF Final!Respond
  <2>2. Final!TypeOK'
      BY <1>2, <1>3, <1>4, <1>6, <2>1 DEF Final!TypeOK, Final!Pcs, Final!None
  <2>3. /\ FinalConfig' /\ FinalStage' /\ FinalAnswered'
        /\ Final!CreditedToAnswerer' /\ Final!TtlOfAnswerer'
      BY Zenon, <1>2, <1>6, <2>1, <2>2, FinalResponds
  <2>4. Final!CleanAnswerWins' /\ Final!AddressTestRespected'
      BY Zenon, <1>3, <1>5, <1>6, <2>1 DEF Final!CleanAnswerWins, Final!AddressTestRespected,
                                    FinalTesting
  <2>. QED BY Zenon, <2>2, <2>3, <2>4
<1>7. CASE /\ r \notin Final!Clean /\ pc' = "await" /\ ended' = s
           /\ UNCHANGED <<response, winner>>
  <2>1. Final!TypeOK'
      BY <1>2, <1>3, <1>4, <1>7 DEF Final!TypeOK, Final!Pcs, Final!None
  <2>2. answer'[s] \in {"servfail", "error"} /\ s \in FinalTwo /\ target \in {"race", "cidr"}
      BY Zenon, <1>4, <1>5, <1>7 DEF Final!Answers, Final!Clean, Final!Racing
  <2>3. FinalConfig' /\ FinalStage' /\ FinalAnswered' /\ entry' = Final!NoEntry
      BY Zenon, <1>2, <1>3, <1>5, <1>7, <2>2 DEF FinalConfig, FinalStage, FinalAnswered
  <2>4. Final!CleanAnswerWins' /\ Final!AddressTestRespected'
      BY Zenon, <1>7 DEF Final!CleanAnswerWins, Final!AddressTestRespected
  <2>. QED BY Zenon, <2>1, <2>3, <2>4, FinalNoEntry
<1>. QED BY Zenon, <1>1, <1>6, <1>7

LEMMA FinalRaceSecond ==
    ASSUME FinalSizes, FinalInv, Final!RaceSecond
    PROVE  FinalInv'
<1>. USE DEF FinalInv
<1>0. /\ pc = "await" /\ (target = "race" \/ ~loaded) /\ UNCHANGED Final!config
      /\ UNCHANGED <<finalAsked, ended, verdict, forwarded, entry>>
    BY Zenon DEF Final!RaceSecond
<1>1. PICK o \in finalAsked \ {ended}, r \in Final!Answers :
          /\ Final!Ends(o, r)
          /\ LET w == Final!PickRaceWinner(ended, answer[ended], o, r)
             IN  /\ Final!Respond(w.from, w.what, IF w.what = "error" THEN "done" ELSE "filter")
                 /\ winner' = w.from
    BY Zenon DEF Final!RaceSecond
<1>. DEFINE w == Final!PickRaceWinner(ended, answer[ended], o, r)
<1>2. /\ Final!Racing /\ ~FinalTesting /\ finalAsked = FinalTwo /\ ended \in FinalTwo
      /\ answer[ended] \in {"servfail", "error"}
    BY Zenon, <1>0 DEF FinalStage, Final!Racing, FinalTesting
<1>3. /\ UNCHANGED <<finalKind, target, finalFirst, second, filter, forwardTo, loaded,
                     noipAsPrimary>>
      /\ FinalTwo' = FinalTwo /\ FinalTesting' = FinalTesting /\ Final!Racing' = Final!Racing
    BY Zenon, <1>0, FinalSame
<1>4. o \in Servers /\ ended \in Servers /\ o # ended /\ FinalTwo = {o, ended}
    BY Zenon, <1>1, <1>2 DEF FinalTwo, Final!TypeOK
<1>5. /\ answer' \in [Servers -> Final!Answers \cup {"none"}] /\ answer'[o] = r
      /\ answer'[ended] = answer[ended]
    BY Zenon, <1>1, <1>4, FinalEnds
<1>6. /\ w.from \in Servers /\ w.what \in Final!Answers
      /\ \/ w.what \in Final!Clean
         \/ w.what = "servfail" /\ r \in {"servfail", "error"}
         \/ w.what = "error" /\ r = "error" /\ answer[ended] = "error"
    BY Zenon, <1>2, <1>4 DEF Final!PickRaceWinner, Final!Answers, Final!Clean
<1>7. /\ response' = [from |-> w.from, what |-> w.what] /\ pc' \in {"filter", "done"}
      /\ winner' = w.from
    BY Zenon, <1>1 DEF Final!Respond
<1>. HIDE DEF w
<1>8. Final!TypeOK'
    BY <1>0, <1>3, <1>5, <1>6, <1>7 DEF Final!TypeOK, Final!Pcs, Final!None
<1>9. /\ FinalConfig' /\ FinalStage' /\ FinalAnswered'
      /\ Final!CreditedToAnswerer' /\ Final!TtlOfAnswerer'
    BY Zenon, <1>0, <1>6, <1>7, <1>8, FinalResponds
<1>10. Final!CleanAnswerWins'
  <2>1. \A s \in finalAsked' : answer'[s] = r \/ answer'[s] = answer[ended]
      BY Zenon, <1>0, <1>2, <1>4, <1>5
  <2>. QED BY Zenon, <1>2, <1>6, <1>7, <2>1 DEF Final!CleanAnswerWins
<1>11. Final!AddressTestRespected'
    BY Zenon, <1>2, <1>3 DEF Final!AddressTestRespected, FinalTesting
<1>. QED BY Zenon, <1>8, <1>9, <1>10, <1>11

LEMMA FinalStash ==
    ASSUME FinalSizes, FinalInv, Final!Stash
    PROVE  FinalInv'
<1>. USE DEF FinalInv
<1>1. PICK r \in Final!Answers : Final!Ends(second, r)
    BY Zenon DEF Final!Stash
<1>2. /\ pc = "cidr" /\ UNCHANGED Final!config
      /\ UNCHANGED <<pc, finalAsked, ended, verdict, response, winner, forwarded, entry>>
    BY Zenon DEF Final!Stash
<1>3. /\ UNCHANGED <<finalKind, target, finalFirst, second, filter, forwardTo, loaded,
                     noipAsPrimary>>
      /\ FinalTwo' = FinalTwo /\ FinalTesting' = FinalTesting /\ Final!Racing' = Final!Racing
    BY Zenon, <1>2, FinalSame
<1>4. answer' \in [Servers -> Final!Answers \cup {"none"}]
    BY Zenon, <1>1, FinalEnds DEF Final!TypeOK
<1>5. Final!TypeOK'
    BY <1>2, <1>3, <1>4 DEF Final!TypeOK, Final!None
<1>6. FinalConfig' /\ FinalStage' /\ FinalAnswered' /\ entry' = Final!NoEntry
    BY Zenon, <1>2, <1>3 DEF FinalConfig, FinalStage, FinalAnswered
<1>7. Final!CleanAnswerWins' /\ Final!AddressTestRespected'
    BY Zenon, <1>2 DEF Final!CleanAnswerWins, Final!AddressTestRespected
<1>. QED BY Zenon, <1>5, <1>6, <1>7, FinalNoEntry

LEMMA FinalPrimary ==
    ASSUME FinalSizes, FinalInv, Final!Primary
    PROVE  FinalInv'
<1>. USE DEF FinalInv
<1>1. PICK r \in Final!Answers :
          /\ Final!Ends(finalFirst, r)
          /\ verdict' = Final!Judged(r) \/ verdict' = verdict
          /\ \/ /\ Final!PrimaryDecides(r)
                /\ Final!Respond(finalFirst, r, "filter") /\ winner' = finalFirst
                /\ ended' = ended
             \/ /\ ~Final!PrimaryDecides(r)
                /\ pc' = "await" /\ ended' = finalFirst /\ UNCHANGED <<response, winner>>
    BY Zenon DEF Final!Primary
<1>2. /\ pc = "cidr" /\ UNCHANGED Final!config /\ finalFirst \in Servers
      /\ UNCHANGED <<finalAsked, forwarded, entry>>
    BY Zenon DEF Final!Primary, Final!TypeOK
<1>3. /\ UNCHANGED <<finalKind, target, finalFirst, second, filter, forwardTo, loaded,
                     noipAsPrimary>>
      /\ FinalTwo' = FinalTwo /\ FinalTesting' = FinalTesting /\ Final!Racing' = Final!Racing
    BY Zenon, <1>2, FinalSame
<1>4. /\ answer' \in [Servers -> Final!Answers \cup {"none"}]
      /\ answer'[finalFirst] = r /\ r # "none"
    BY Zenon, <1>1, <1>2, FinalEnds
<1>5. /\ FinalTesting /\ ~Final!Racing /\ finalAsked = FinalTwo /\ verdict = "none"
    BY Zenon, <1>2 DEF FinalStage, FinalTesting, Final!Racing
<1>6. FinalVerdict' /\ verdict' \in {"none", "primary", "secondary"}
    BY Zenon, <1>1, <1>3, <1>4, <1>5 DEF FinalVerdict, Final!Judged
<1>7. CASE /\ Final!PrimaryDecides(r)
           /\ Final!Respond(finalFirst, r, "filter") /\ winner' = finalFirst /\ ended' = ended
  <2>1. response' = [from |-> finalFirst, what |-> r] /\ pc' = "filter"
      BY Zenon, <1>7 DEF Final!Respond
  <2>2. Final!TypeOK'
      BY <1>2, <1>3, <1>4, <1>6, <1>7, <2>1 DEF Final!TypeOK, Final!Pcs, Final!None
  <2>3. /\ FinalConfig' /\ FinalStage' /\ FinalAnswered'
        /\ Final!CreditedToAnswerer' /\ Final!TtlOfAnswerer'
      BY Zenon, <1>2, <1>7, <2>1, <2>2, FinalResponds
  <2>4. Final!CleanAnswerWins'
      BY Zenon, <1>3, <1>5 DEF Final!CleanAnswerWins
  <2>5. Final!AddressTestRespected'
      BY Zenon, <1>3, <1>4, <1>6, <1>7, <2>1 DEF Final!AddressTestRespected, Final!PrimaryDecides,
                                          FinalVerdict, FinalConfig
  <2>. QED BY Zenon, <2>2, <2>3, <2>4, <2>5
<1>8. CASE /\ ~Final!PrimaryDecides(r)
           /\ pc' = "await" /\ ended' = finalFirst /\ UNCHANGED <<response, winner>>
  <2>1. Final!TypeOK'
      BY <1>2, <1>3, <1>4, <1>6, <1>8 DEF Final!TypeOK, Final!Pcs, Final!None
  <2>2. ~Final!PrimaryDecides(answer[finalFirst])'
      BY Zenon, <1>3, <1>4, <1>8 DEF Final!PrimaryDecides
  <2>3. FinalConfig' /\ FinalAnswered' /\ entry' = Final!NoEntry
      BY Zenon, <1>2, <1>3, <1>8 DEF FinalConfig, FinalStage, FinalAnswered
  <2>4. FinalStage'
      BY Zenon, <1>2, <1>3, <1>4, <1>5, <1>6, <1>8, <2>2, <2>3 DEF FinalStage, FinalTesting
  <2>5. Final!CleanAnswerWins' /\ Final!AddressTestRespected'
      BY Zenon, <1>8 DEF Final!CleanAnswerWins, Final!AddressTestRespected
  <2>. QED BY Zenon, <2>1, <2>3, <2>4, <2>5, FinalNoEntry
<1>. QED BY Zenon, <1>1, <1>7, <1>8

LEMMA FinalSecondary ==
    ASSUME FinalSizes, FinalInv, Final!Secondary
    PROVE  FinalInv'
<1>. USE DEF FinalInv
<1>. DEFINE F == answer[finalFirst]
<1>1. PICK r \in Final!Answers :
          /\ Final!Ends(second, r) \/ (answer[second] = r /\ UNCHANGED answer)
          /\ LET s == IF r # "error" \/ F = "error" THEN second ELSE finalFirst
                 what == IF s = finalFirst THEN F ELSE r
             IN  /\ Final!Respond(s, what, IF what = "error" THEN "done" ELSE "filter")
                 /\ winner' = s
    BY Zenon DEF Final!Secondary
<1>2. /\ pc = "await" /\ FinalTesting /\ UNCHANGED Final!config
      /\ finalFirst \in Servers /\ second \in Servers /\ finalFirst # second
      /\ UNCHANGED <<finalAsked, ended, verdict, forwarded, entry>>
    BY Zenon DEF Final!Secondary, Final!TypeOK, FinalTesting, FinalConfig
<1>3. /\ UNCHANGED <<finalKind, target, finalFirst, second, filter, forwardTo, loaded,
                     noipAsPrimary>>
      /\ FinalTwo' = FinalTwo /\ FinalTesting' = FinalTesting /\ Final!Racing' = Final!Racing
    BY Zenon, <1>2, FinalSame
<1>4. /\ answer' \in [Servers -> Final!Answers \cup {"none"}]
      /\ answer'[second] = r /\ answer'[finalFirst] = F
    BY <1>1, <1>2, FinalEnds DEF Final!TypeOK, Final!None
<1>5. /\ F \in Final!Answers /\ FinalVerdict /\ ~Final!PrimaryDecides(F) /\ ~Final!Racing
    BY Zenon, <1>2 DEF FinalStage, FinalTesting, Final!Racing, Final!TypeOK, Final!None
<1>6. PICK s \in Servers, what \in Final!Answers :
          /\ \/ s = second
             \/ s = finalFirst /\ r = "error"
          /\ response' = [from |-> s, what |-> what] /\ winner' = s
          /\ pc' \in {"filter", "done"}
  <2>1. CASE r # "error" \/ F = "error"
      BY Zenon, <1>1, <1>2, <2>1 DEF Final!Respond
  <2>2. CASE ~(r # "error" \/ F = "error")
      BY Zenon, <1>1, <1>2, <1>5, <2>2 DEF Final!Respond
  <2>. QED BY Zenon, <2>1, <2>2
<1>. HIDE DEF F
<1>7. Final!TypeOK'
    BY <1>2, <1>3, <1>4, <1>6 DEF Final!TypeOK, Final!Pcs, Final!None
<1>8. /\ FinalConfig' /\ FinalStage' /\ FinalAnswered'
      /\ Final!CreditedToAnswerer' /\ Final!TtlOfAnswerer'
    BY Zenon, <1>2, <1>6, <1>7, FinalResponds
<1>9. Final!CleanAnswerWins'
    BY Zenon, <1>3, <1>5 DEF Final!CleanAnswerWins
<1>10. Final!AddressTestRespected'
  <2>1. /\ response'.from = finalFirst => answer'[second] = "error"
        /\ F # "error" => F \in {"outside", "noip", "servfail"}
        /\ verdict' = "primary" => F = "inside"
        /\ verdict' = "secondary" => F = "outside"
      BY Zenon, <1>2, <1>4, <1>5, <1>6 DEF Final!Answers, Final!PrimaryDecides, FinalVerdict, F
  <2>. QED BY Zenon, <1>3, <1>4, <2>1 DEF Final!AddressTestRespected
<1>. QED BY Zenon, <1>7, <1>8, <1>9, <1>10

LEMMA FinalFilter ==
    ASSUME FinalSizes, FinalInv, Final!Filter
    PROVE  FinalInv'
<1>. USE DEF FinalInv
<1>1. /\ pc = "filter" /\ UNCHANGED Final!config
      /\ UNCHANGED <<ended, verdict, forwarded, entry>>
    BY Zenon DEF Final!Filter
<1>2. /\ UNCHANGED <<finalKind, target, finalFirst, second, filter, forwardTo, loaded,
                     noipAsPrimary>>
      /\ FinalTwo' = FinalTwo /\ FinalTesting' = FinalTesting /\ Final!Racing' = Final!Racing
    BY Zenon, <1>1, FinalSame
<1>3. entry' = Final!NoEntry /\ forwarded' = NoServer
    BY Zenon, <1>1 DEF FinalStage
<1>4. CASE pc' = "cache" /\ UNCHANGED <<answer, finalAsked, response, winner>>
  <2>1. Final!TypeOK'
      BY <1>1, <1>2, <1>4 DEF Final!TypeOK, Final!Pcs
  <2>2. FinalConfig' /\ FinalStage' /\ FinalAnswered'
      BY Zenon, <1>1, <1>2, <1>3, <1>4 DEF FinalConfig, FinalStage, FinalAnswered,
                                    Final!ResolvedServer
  <2>3. Final!CleanAnswerWins' /\ Final!AddressTestRespected'
      BY Zenon, <1>1, <1>2, <1>4 DEF Final!CleanAnswerWins, Final!AddressTestRespected
  <2>. QED BY Zenon, <1>3, <2>1, <2>2, <2>3, FinalNoEntry
<1>5. CASE /\ filter = "drop" /\ pc' = "done" /\ response' = Final!NoResponse
           /\ UNCHANGED <<answer, finalAsked, winner>>
  <2>1. Final!TypeOK'
      BY <1>1, <1>2, <1>5 DEF Final!TypeOK, Final!Pcs, Final!NoResponse, Final!None
  <2>2. FinalConfig' /\ FinalStage' /\ FinalAnswered' /\ target = "rule"
      BY Zenon, <1>1, <1>2, <1>3, <1>5 DEF FinalConfig, FinalStage, FinalAnswered
  <2>3. Final!CleanAnswerWins' /\ Final!AddressTestRespected'
      BY Zenon, <1>2, <2>2 DEF Final!CleanAnswerWins, Final!AddressTestRespected, Final!Racing
  <2>. QED BY Zenon, <1>3, <2>1, <2>2, <2>3, FinalNoEntry
<1>6. CASE /\ filter = "forward" /\ pc' = "forward"
           /\ finalAsked' = {forwardTo}
           /\ answer' = [answer EXCEPT ![forwardTo] = Final!None]
           /\ winner' = NoServer /\ UNCHANGED response
  <2>1. Final!TypeOK'
      BY <1>1, <1>2, <1>6 DEF Final!TypeOK, Final!Pcs, Final!None
  <2>2. FinalConfig' /\ FinalStage' /\ FinalAnswered'
      BY Zenon, <1>1, <1>2, <1>3, <1>6 DEF FinalConfig, FinalStage, FinalAnswered
  <2>3. Final!CleanAnswerWins' /\ Final!AddressTestRespected'
      BY Zenon, <1>6 DEF Final!CleanAnswerWins, Final!AddressTestRespected
  <2>. QED BY <1>3, <2>1, <2>2, <2>3, FinalNoEntry
<1>. QED BY Zenon, <1>4, <1>5, <1>6 DEF Final!Filter

LEMMA FinalForward ==
    ASSUME FinalSizes, FinalInv, Final!Forward
    PROVE  FinalInv'
<1>. USE DEF FinalInv
<1>1. PICK r \in Final!Answers :
          /\ Final!Ends(forwardTo, r)
          /\ Final!Respond(forwardTo, r, IF r = "error" THEN "done" ELSE "cache")
    BY Zenon DEF Final!Forward
<1>2. /\ pc = "forward" /\ UNCHANGED Final!config /\ forwardTo \in Servers
      /\ forwarded' = forwardTo /\ UNCHANGED <<finalAsked, ended, verdict, winner, entry>>
    BY Zenon DEF Final!Forward, Final!TypeOK
<1>3. /\ UNCHANGED <<finalKind, target, finalFirst, second, filter, forwardTo, loaded,
                     noipAsPrimary>>
      /\ FinalTwo' = FinalTwo /\ FinalTesting' = FinalTesting /\ Final!Racing' = Final!Racing
    BY Zenon, <1>2, FinalSame
<1>4. answer' \in [Servers -> Final!Answers \cup {"none"}]
    BY Zenon, <1>1, <1>2, FinalEnds
<1>5. response' = [from |-> forwardTo, what |-> r] /\ pc' \in {"cache", "done"}
    BY Zenon, <1>1 DEF Final!Respond
<1>6. Final!TypeOK'
    BY <1>2, <1>3, <1>4, <1>5 DEF Final!TypeOK, Final!Pcs, Final!None
<1>7. target = "rule" /\ entry' = Final!NoEntry /\ FinalConfig'
    BY Zenon, <1>2, <1>3 DEF FinalConfig, FinalStage
<1>8. FinalStage'
    BY Zenon, <1>5, <1>7 DEF FinalStage
<1>9. FinalAnswered'
    BY Zenon, <1>2, <1>5 DEF FinalAnswered, Final!ResolvedServer, FinalSizes
<1>10. Final!CleanAnswerWins' /\ Final!AddressTestRespected'
    BY Zenon, <1>3, <1>7 DEF Final!CleanAnswerWins, Final!AddressTestRespected, Final!Racing
<1>. QED BY Zenon, <1>6, <1>7, <1>8, <1>9, <1>10, FinalNoEntry

LEMMA FinalCache ==
    ASSUME FinalSizes, FinalInv, Final!Cache
    PROVE  FinalInv'
<1>. USE DEF FinalInv
<1>1. /\ pc = "cache" /\ pc' = "done" /\ UNCHANGED Final!config
      /\ UNCHANGED <<answer, finalAsked, ended, verdict, response, winner, forwarded>>
    BY Zenon DEF Final!Cache
<1>2. /\ UNCHANGED <<finalKind, target, finalFirst, second, filter, forwardTo, loaded,
                     noipAsPrimary>>
      /\ FinalTwo' = FinalTwo /\ FinalTesting' = FinalTesting /\ Final!Racing' = Final!Racing
    BY Zenon, <1>1, FinalSame
<1>3. FinalConfig' /\ FinalStage' /\ FinalAnswered'
    BY Zenon, <1>1, <1>2 DEF FinalConfig, FinalStage, FinalAnswered
<1>4. Final!CleanAnswerWins' /\ Final!AddressTestRespected'
    BY Zenon, <1>1, <1>2 DEF Final!CleanAnswerWins, Final!AddressTestRespected
<1>. DEFINE R == Final!ResolvedServer
<1>5. R \in Servers /\ R = response.from
    BY Zenon, <1>1 DEF FinalAnswered
<1>6. PICK c \in {"rule", "final", "unknown"}, s \in Servers \cup {NoServer} :
          Final!Credit = <<c, s>> /\ (c = "final" => s = R)
  <2>1. CASE target = "rule"
      BY Zenon, <2>1 DEF Final!Credit, Final!TypeOK
  <2>2. CASE target = "server"
    <3>1. Final!Credit = <<"final", finalFirst>>
        BY Zenon, <2>2 DEF Final!Credit
    <3>2. R = finalFirst
        BY Zenon, <2>2 DEF Final!ResolvedServer, FinalConfig
    <3>. QED BY Zenon, <1>5, <3>1, <3>2
  <2>3. CASE target \in {"race", "cidr"}
    <3>1. R = winner
        BY Zenon, <2>3 DEF Final!ResolvedServer, FinalConfig
    <3>2. Final!Credit = <<"final", winner>>
        BY Zenon, <1>5, <2>3, <3>1 DEF Final!Credit, FinalSizes
    <3>. QED BY Zenon, <1>5, <3>1, <3>2
  <2>. QED BY Zenon, <2>1, <2>2, <2>3 DEF Final!TypeOK, Final!Targets
<1>7. \/ entry' = Final!NoEntry
      \/ entry' = [credit |-> c, server |-> s,
                   nodataTtl |-> IF finalKind[R] = "rcode" THEN R ELSE NoServer]
    BY Zenon, <1>6 DEF Final!Cache
<1>. HIDE DEF R
<1>8. Final!TypeOK'
  <2>1. entry' \in [credit : {"none", "rule", "final", "unknown"},
                    server : Servers \cup {NoServer}, nodataTtl : Servers \cup {NoServer}]
      BY <1>5, <1>6, <1>7 DEF Final!NoEntry, Final!None
  <2>. QED BY <1>1, <1>2, <2>1 DEF Final!TypeOK, Final!Pcs, Final!None
<1>9. Final!CreditedToAnswerer' /\ Final!TtlOfAnswerer'
  <2>1. CASE entry' = Final!NoEntry
      BY Zenon, <2>1, FinalNoEntry
  <2>2. CASE entry' = [credit |-> c, server |-> s,
                       nodataTtl |-> IF finalKind[R] = "rcode" THEN R ELSE NoServer]
      BY Zenon, <1>1, <1>2, <1>5, <1>6, <2>2 DEF Final!CreditedToAnswerer, Final!TtlOfAnswerer
  <2>. QED BY Zenon, <1>7, <2>1, <2>2
<1>. QED BY Zenon, <1>3, <1>4, <1>8, <1>9

LEMMA FinalStep ==
    ASSUME FinalSizes, FinalInv, Final!Next \/ UNCHANGED Final!vars
    PROVE  FinalInv'
<1>1. CASE UNCHANGED Final!vars
  <2>. USE <1>1 DEF Final!vars, Final!config, FinalInv
  <2>1. Final!TypeOK'
      BY DEF Final!TypeOK
  <2>2. FinalConfig'
      BY DEF FinalConfig
  <2>5. FinalStage'
      BY DEF FinalStage, FinalTwo, FinalTesting, FinalVerdict, Final!Racing,
             Final!PrimaryDecides
  <2>6. FinalAnswered'
      BY DEF FinalAnswered, Final!ResolvedServer
  <2>3. Final!CleanAnswerWins' /\ Final!AddressTestRespected'
      BY DEF Final!CleanAnswerWins, Final!AddressTestRespected, Final!PrimaryDecides,
             Final!Racing
  <2>4. Final!CreditedToAnswerer' /\ Final!TtlOfAnswerer'
      BY DEF Final!CreditedToAnswerer, Final!TtlOfAnswerer, Final!ResolvedServer
  <2>. QED BY Zenon, <2>1, <2>2, <2>3, <2>4, <2>5, <2>6
<1>. QED BY Zenon, <1>1, FinalAsk, FinalOne, FinalRaceEnds, FinalRaceSecond, FinalStash,
            FinalPrimary, FinalSecondary, FinalFilter, FinalForward, FinalCache
    DEF Final!Next, Final!Idle

\* do_upstream_exchange to the cached entry: of two raced servers a clean answer wins, the
\* address test is respected, and what is cached is credited to, and lives as long as
\* allowed by, the server that answered.
THEOREM FinalSafe ==
    ASSUME FinalInv
    PROVE  /\ Final!TypeOK /\ Final!CleanAnswerWins /\ Final!AddressTestRespected
           /\ Final!CreditedToAnswerer /\ Final!TtlOfAnswerer
BY Zenon DEF FinalInv
====
