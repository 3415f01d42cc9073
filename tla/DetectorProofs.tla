--------------------------- MODULE DetectorProofs ---------------------------
(***************************************************************************)
(* What an alert of the anomaly detector means, for every load, every      *)
(* noise threshold and every number of ticks.                              *)
(***************************************************************************)
EXTENDS Detector, TLAPS

(* Multiplying both sides of an inequality by a denominator.               *)
LEMMA Scale ==
    ASSUME NEW a \in Nat, NEW b \in Nat, NEW d \in Nat, a <= b
    PROVE  a * d <= b * d /\ a * d \in Nat /\ b * d \in Nat
  <1>1. PICK c \in Nat : b = a + c
    <2>1. b - a \in Nat /\ b = a + (b - a)
      OBVIOUS
    <2> QED
      BY <2>1
  <1>2. c * d \in Nat /\ a * d \in Nat
    OBVIOUS
  <1>3. b * d = a * d + c * d
    BY <1>1
  <1> QED
    BY <1>2, <1>3

(* And dividing by it.                                                     *)
LEMMA Unscale ==
    ASSUME NEW a \in Nat, NEW b \in Nat, NEW d \in Nat, a * d > b * d
    PROVE  a > b
  <1> SUFFICES ASSUME a <= b PROVE FALSE
    OBVIOUS
  <1>1. a * d <= b * d /\ a * d \in Nat /\ b * d \in Nat
    BY Scale
  <1> QED
    BY <1>1

(* The state the service starts in.                                        *)
LEMMA DetectorTypeInit == Init => TypeOK
  <1> SUFFICES ASSUME Init PROVE TypeOK
    OBVIOUS
  <1>1. NothingYet \in [rps : Nat, num : Nat, den : Nat \ {0}, initialized : BOOLEAN]
    BY DEF NothingYet
  <1>2. buffered \in BOOLEAN /\ initialized \in BOOLEAN
    BY Zenon DEF Init
  <1>3. /\ second \in 0 .. MaxSeconds /\ pending \in Nat /\ streak \in Nat
        /\ num \in Nat /\ den \in Nat \ {0} /\ low \in Nat /\ peak \in Nat
        /\ stage \in {"waiting", "publishing"}
    BY DetectorAssumption DEF Init
  <1>4. last = NothingYet
    BY DEF Init
  <1> QED
    BY <1>1, <1>2, <1>3, <1>4 DEF TypeOK

(* Type correctness.                                                       *)
THEOREM DetectorTypeCorrect == Spec => []TypeOK
  <1>1. Init => TypeOK
    BY DetectorTypeInit
  <1>2. TypeOK /\ [Next]_vars => TypeOK'
    <2> SUFFICES ASSUME TypeOK, [Next]_vars
                 PROVE  TypeOK'
      OBVIOUS
    <2> USE DetectorAssumption DEF TypeOK
    <2>1. ASSUME NEW n \in Loads, RecordEvent(n)
          PROVE  TypeOK'
      BY <2>1 DEF RecordEvent
    <2>2. CASE Second
      BY <2>2 DEF Second
    <2>3. ASSUME Swap
          PROVE  /\ buffered' \in BOOLEAN /\ pending' \in Nat
                 /\ second' \in 0 .. MaxSeconds
                 /\ last' \in [rps : Nat, num : Nat, den : Nat \ {0}, initialized : BOOLEAN]
      BY <2>3 DEF Swap
    <2>4. CASE Start
      BY <2>3, <2>4 DEF Start
    <2>5. CASE Evaluate
      <3>1. num' \in Nat /\ den' \in Nat \ {0} /\ low' \in Nat /\ peak' \in Nat
        <4>1. pending * den \in Nat
          OBVIOUS
        <4> QED
          BY <2>5, <4>1 DEF Evaluate, Fold
      <3>2. streak' \in Nat /\ stage' \in {"waiting", "publishing"} /\ initialized' \in BOOLEAN
        BY <2>5 DEF Evaluate
      <3> QED
        BY <2>3, <2>5, <3>1, <3>2 DEF Evaluate
    <2>6. CASE PublishSpikeAlert
      BY <2>6 DEF PublishSpikeAlert
    <2>7. CASE UNCHANGED vars
      BY <2>7 DEF vars
    <2> QED
      BY <2>1, <2>2, <2>4, <2>5, <2>6, <2>7 DEF Next, Finished
  <1> QED
    BY <1>1, <1>2, PTL DEF Spec

-----------------------------------------------------------------------------
(* One evaluation, as arithmetic: the four facts the invariant needs, for  *)
(* a value p folded into the average n / d.                                *)
LEMMA SpikeArithmetic ==
    ASSUME NEW p \in Nat, NEW n \in Nat, NEW d \in Nat \ {0},
           Spike(p, Fold(p, n, d), 5 * d)
    PROVE  3 * (p * d) > 8 * n /\ p > Noise
  <1>1. p * d \in Nat /\ p * (5 * d) = 5 * (p * d)
    OBVIOUS
  <1>2. p * (5 * d) > 2 * (p * d + 4 * n)
    BY DEF Spike, Fold
  <1> QED
    BY <1>1, <1>2 DEF Spike

LEMMA FoldIsBetween ==
    ASSUME NEW p \in Nat, NEW n \in Nat, NEW d \in Nat \ {0}, NEW l \in Nat, NEW h \in Nat,
           l <= p, p <= h, l * d <= n, n <= h * d
    PROVE  l * (5 * d) <= Fold(p, n, d) /\ Fold(p, n, d) <= h * (5 * d)
  <1>1. l * d <= p * d /\ p * d <= h * d /\ l * d \in Nat /\ p * d \in Nat /\ h * d \in Nat
    BY Scale
  <1>2. l * (5 * d) = 5 * (l * d) /\ h * (5 * d) = 5 * (h * d)
    OBVIOUS
  <1> QED
    BY <1>1, <1>2 DEF Fold

(* The share of the last value in the average after one more fold.         *)
LEMMA ShareGrows ==
    ASSUME NEW p \in Nat, NEW q \in Nat, NEW n \in Nat, NEW d \in Nat \ {0},
           p <= q, Spike(p, Fold(p, n, d), 5 * d)
    PROVE  /\ 5 * n >= 1 * (q * d) => 25 * Fold(p, n, d) >= 9 * (p * (5 * d))
           /\ 25 * n >= 9 * (q * d) => 125 * Fold(p, n, d) >= 61 * (p * (5 * d))
           /\ ~(125 * n >= 61 * (q * d))
  <1>1. p * d <= q * d /\ p * d \in Nat /\ q * d \in Nat
    BY Scale
  <1>2. p * (5 * d) = 5 * (p * d)
    OBVIOUS
  <1>3. 3 * (p * d) > 8 * n
    BY SpikeArithmetic
  <1> QED
    BY <1>1, <1>2, <1>3 DEF Fold

LEMMA ShareStarts ==
    ASSUME NEW p \in Nat, NEW n \in Nat, NEW d \in Nat \ {0}
    PROVE  5 * Fold(p, n, d) >= 1 * (p * (5 * d))
  <1>1. p * d \in Nat /\ p * (5 * d) = 5 * (p * d)
    OBVIOUS
  <1> QED
    BY <1>1 DEF Fold

-----------------------------------------------------------------------------
(* The detector's four promises in one inductive invariant.                *)
THEOREM MeanInvariantHolds == Spec => []MeanInvariant
  <1>1. Init => MeanInvariant
    <2> SUFFICES ASSUME Init PROVE MeanInvariant
      OBVIOUS
    <2>1. TypeOK
      BY DetectorTypeInit
    <2> QED
      BY <2>1 DEF Init, MeanInvariant, AlertIsSpike, MeanIsBetween, AlertNeedsGrowth, AverageCatchesUp
  <1>2. MeanInvariant /\ TypeOK' /\ [Next]_vars => MeanInvariant'
    <2> SUFFICES ASSUME MeanInvariant, TypeOK', [Next]_vars
                 PROVE  MeanInvariant'
      OBVIOUS
    <2>1. ASSUME UNCHANGED <<initialized, num, den, stage, last, low, peak, streak>>
          PROVE  MeanInvariant'
      BY <2>1 DEF MeanInvariant, AlertIsSpike, MeanIsBetween, AlertNeedsGrowth, AverageCatchesUp
    <2>2. ASSUME NEW n \in Loads, RecordEvent(n)
          PROVE  MeanInvariant'
      BY <2>1, <2>2 DEF RecordEvent
    <2>3. CASE Second
      BY <2>1, <2>3 DEF Second
    <2>4. CASE Start
      <3>1. /\ low' = pending /\ peak' = pending /\ num' = pending /\ den' = 1
            /\ stage' = "waiting" /\ streak' = 0
        BY <2>4 DEF Start, Swap, MeanInvariant
      <3> QED
        BY <3>1 DEF TypeOK, MeanInvariant, AlertIsSpike, MeanIsBetween, AlertNeedsGrowth,
                    AverageCatchesUp
    <2>5. CASE Evaluate
      <3> DEFINE share == last.rps * den
      <3>1. /\ pending \in Nat /\ num \in Nat /\ den \in Nat \ {0} /\ streak \in Nat
            /\ last.rps \in Nat /\ low \in Nat /\ peak \in Nat
        BY DEF MeanInvariant, TypeOK
      <3>2. num' = Fold(pending, num, den) /\ den' = 5 * den
        BY <2>5 DEF Evaluate
      <3>3. /\ last'.rps = pending /\ last'.num = num /\ last'.den = den
            /\ last'.initialized = initialized
        BY <2>5 DEF Evaluate, Swap
      <3>4. initialized /\ initialized'
        BY <2>5 DEF Evaluate
      <3>5. /\ low' \in Nat /\ low' <= low /\ low' <= pending
            /\ peak' \in Nat /\ peak <= peak' /\ pending <= peak'
        BY <2>5, <3>1 DEF Evaluate
      <3>6. low * den <= num /\ num <= peak * den
        BY DEF MeanInvariant, MeanIsBetween
      <3>7. MeanIsBetween'
        <4>1. /\ low' * den <= low * den /\ peak * den <= peak' * den
              /\ low' * den \in Nat /\ low * den \in Nat
              /\ peak * den \in Nat /\ peak' * den \in Nat
          BY <3>1, <3>5, Scale
        <4>2. low' * den <= num /\ num <= peak' * den
          BY <3>1, <3>6, <4>1
        <4>3. low' * (5 * den) <= Fold(pending, num, den)
              /\ Fold(pending, num, den) <= peak' * (5 * den)
          BY <3>1, <3>5, <4>2, FoldIsBetween
        <4> QED
          BY <3>2, <4>3 DEF MeanIsBetween
      <3>8. CASE Spike(pending, num', den')
        <4>1. stage' = "publishing"
          BY <2>5, <3>8 DEF Evaluate
        <4>2. streak' = IF streak > 0 /\ pending <= last.rps THEN streak + 1 ELSE 1
          BY <2>5, <3>8 DEF Evaluate
        <4>3. Spike(pending, Fold(pending, num, den), 5 * den)
          BY <3>2, <3>8
        <4>4. 3 * (pending * den) > 8 * num /\ pending > Noise
          BY <3>1, <4>3, SpikeArithmetic
        <4>5. AlertIsSpike'
          <5>1. 3 * pending * den = 3 * (pending * den)
            BY <3>1
          <5> QED
            BY <3>3, <3>4, <4>4, <5>1 DEF AlertIsSpike
        <4>6. AlertNeedsGrowth'
          <5>1. /\ low * den \in Nat /\ pending * den \in Nat
                /\ (3 * pending) * den = 3 * (pending * den)
                /\ (8 * low) * den = 8 * (low * den)
            BY <3>1
          <5>2. (3 * pending) * den > (8 * low) * den
            BY <3>1, <3>6, <4>4, <5>1
          <5>3. 3 * pending > 8 * low
            <6>1. 3 * pending \in Nat /\ 8 * low \in Nat /\ den \in Nat
              BY <3>1
            <6> QED
              BY <5>2, <6>1, Unscale
          <5>4. 3 * pending > 8 * low'
            <6> DEFINE l == low'
            <6>1. l \in Nat /\ l <= low
              BY <3>5
            <6> HIDE DEF l
            <6>2. 3 * pending > 8 * l
              BY <3>1, <5>3, <6>1
            <6> QED
              BY <6>2 DEF l
          <5> QED
            BY <3>3, <5>4 DEF AlertNeedsGrowth
        <4>7. AverageCatchesUp'
          <5>1. CASE streak > 0 /\ pending <= last.rps
            <6>1. /\ 5 * num >= 1 * share => 25 * num' >= 9 * (pending * den')
                  /\ 25 * num >= 9 * share => 125 * num' >= 61 * (pending * den')
                  /\ ~(125 * num >= 61 * share)
              <7>1. pending <= last.rps
                BY <5>1
              <7>2. /\ 5 * num >= 1 * share =>
                           25 * Fold(pending, num, den) >= 9 * (pending * (5 * den))
                    /\ 25 * num >= 9 * share =>
                           125 * Fold(pending, num, den) >= 61 * (pending * (5 * den))
                    /\ ~(125 * num >= 61 * share)
                BY <3>1, <4>3, <7>1, ShareGrows
              <7> QED
                BY <3>2, <7>2
            <6>2. streak' = streak + 1
              BY <4>2, <5>1
            <6>3. \/ streak = 1 /\ 5 * num >= 1 * share
                  \/ streak = 2 /\ 25 * num >= 9 * share
                  \/ streak = 3 /\ 125 * num >= 61 * share
              BY <3>1, <5>1 DEF MeanInvariant, AverageCatchesUp
            <6> QED
              BY <3>3, <6>1, <6>2, <6>3 DEF AverageCatchesUp
          <5>2. CASE ~(streak > 0 /\ pending <= last.rps)
            <6>1. streak' = 1
              BY <4>2, <5>2
            <6>2. 5 * num' >= 1 * (pending * den')
              BY <3>1, <3>2, ShareStarts
            <6> QED
              BY <3>3, <6>1, <6>2 DEF AverageCatchesUp
          <5> QED
            BY <5>1, <5>2
        <4> QED
          BY <3>4, <3>7, <4>5, <4>6, <4>7 DEF MeanInvariant
      <3>9. CASE ~Spike(pending, num', den')
        <4>1. stage' = "waiting" /\ streak' = 0
          BY <2>5, <3>9 DEF Evaluate
        <4> QED
          BY <3>4, <3>7, <4>1 DEF MeanInvariant, AlertIsSpike, AlertNeedsGrowth, AverageCatchesUp
      <3> QED
        BY <3>8, <3>9
    <2>6. CASE PublishSpikeAlert
      BY <2>6 DEF PublishSpikeAlert, MeanInvariant, AlertIsSpike, MeanIsBetween, AlertNeedsGrowth, AverageCatchesUp
    <2>7. CASE UNCHANGED vars
      BY <2>1, <2>7 DEF vars
    <2> QED
      BY <2>2, <2>3, <2>4, <2>5, <2>6, <2>7 DEF Next, Finished
  <1> QED
    BY <1>1, <1>2, DetectorTypeCorrect, PTL DEF Spec

(* An alert is a real spike: more than 8/3 of the average before it.       *)
THEOREM AlertsAreSpikes == Spec => []AlertIsSpike
  <1>1. MeanInvariant => AlertIsSpike
    BY DEF MeanInvariant
  <1> QED
    BY <1>1, MeanInvariantHolds, PTL

(* The average never leaves the range of what was folded into it.          *)
THEOREM MeanStaysBetween == Spec => []MeanIsBetween
  <1>1. MeanInvariant => MeanIsBetween
    BY DEF MeanInvariant
  <1> QED
    BY <1>1, MeanInvariantHolds, PTL

(* Without growth to 8/3 of the least value there is no alert.             *)
THEOREM NoAlertWithoutGrowth == Spec => []AlertNeedsGrowth
  <1>1. MeanInvariant => AlertNeedsGrowth
    BY DEF MeanInvariant
  <1> QED
    BY <1>1, MeanInvariantHolds, PTL

(* A load that does not grow is reported at most three times in a row.     *)
THEOREM AtMostThreeAlerts == Spec => []AlertsSubside
  <1>1. MeanInvariant => AlertsSubside
    BY DEF MeanInvariant, AverageCatchesUp, AlertsSubside
  <1> QED
    BY <1>1, MeanInvariantHolds, PTL
=============================================================================
