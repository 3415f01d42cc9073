------------------------------ MODULE Detector ------------------------------
(***************************************************************************)
(* The anomaly detector (services/anomaly): POST /record adds one to an    *)
(* atomic counter; a goroutine woken by a one second ticker swaps the      *)
(* counter with 0, folds what it got into an exponential moving average    *)
(* and publishes an alert when the last value is a spike.  While it waits  *)
(* for Redis, the ticker buffers one tick and drops the others.            *)
(*                                                                         *)
(* The average is kept as the exact fraction num / den; the rounding of    *)
(* float64 arithmetic is left out.                                         *)
(***************************************************************************)
EXTENDS Integers

CONSTANTS
    Loads,       \* the numbers of events that may arrive together
    Totals,      \* bound of the model: the values of the counter explored
    Noise,       \* spikes up to this many events are ignored (100)
    MaxSeconds   \* bound of the model: the ticks of the ticker

ASSUME DetectorAssumption ==
    /\ Loads \subseteq Nat
    /\ Totals \subseteq Nat
    /\ Noise \in Nat
    /\ MaxSeconds \in Nat

VARIABLES
    second,       \* ticks of the ticker so far
    buffered,     \* ticker.C holds a tick
    pending,      \* currentSecondEvents
    initialized,  \* the average has a first value
    num, den,     \* currentEMA
    stage,        \* the goroutine waits for a tick or for Redis
    last,         \* history: the last value evaluated and the state before it
    low, peak,    \* history: least and greatest value folded into the average
    streak        \* history: alerts in a row for values that did not grow

vars == <<second, buffered, pending, initialized, num, den, stage,
          last, low, peak, streak>>

NothingYet == [rps |-> 0, num |-> 0, den |-> 1, initialized |-> FALSE]

TypeOK ==
    /\ second \in 0 .. MaxSeconds
    /\ buffered \in BOOLEAN
    /\ pending \in Nat
    /\ initialized \in BOOLEAN
    /\ num \in Nat
    /\ den \in Nat \ {0}
    /\ stage \in {"waiting", "publishing"}
    /\ last \in [rps : Nat, num : Nat, den : Nat \ {0}, initialized : BOOLEAN]
    /\ low \in Nat /\ peak \in Nat
    /\ streak \in Nat

-----------------------------------------------------------------------------
(* rps > 2.0 * average and rps > 100, for the average n / d.  (A           *)
(* definition named Faulty... is what a slip would make of the one that    *)
(* follows it; no specification uses it.)                                  *)
FaultySpikeNoise(rps, n, d) == rps * d > 2 * n
FaultySpikeLow(rps, n, d) == 2 * rps * d > n /\ rps > Noise

Spike(rps, n, d) == rps * d > 2 * n /\ rps > Noise

(* The numerator of 0.2 * rps + 0.8 * n / d over the denominator 5 * d.    *)
FaultyFoldSigned(rps, n, d) == 4 * n - rps * d
FaultyFoldSmall(rps, n, d) == 4 * n

Fold(rps, n, d) == rps * d + 4 * n

Init ==
    /\ second = 0
    /\ buffered = FALSE
    /\ pending = 0
    /\ initialized = FALSE
    /\ num = 0 /\ den = 1
    /\ stage = "waiting"
    /\ last = NothingYet
    /\ low = 0 /\ peak = 0
    /\ streak = 0

(* A burst of POST /record: events that arrive between two steps of the    *)
(* goroutine add up, in whatever order they come.                          *)
RecordEvent(n) ==
    /\ pending + n \in Totals
    /\ pending' = pending + n
    /\ UNCHANGED <<second, buffered, initialized, num, den, stage, last, low, peak, streak>>

(* The ticker fires; a tick that finds the buffer full is dropped.         *)
Second ==
    /\ second < MaxSeconds
    /\ second' = second + 1
    /\ buffered' = TRUE
    /\ UNCHANGED <<pending, initialized, num, den, stage, last, low, peak, streak>>

(* The goroutine takes a tick and swaps the counter with 0.                *)
Swap ==
    /\ stage = "waiting" /\ buffered
    /\ buffered' = FALSE
    /\ pending' = 0
    /\ last' = [rps |-> pending, num |-> num, den |-> den,
                initialized |-> initialized]
    /\ UNCHANGED second

(* The first value that is not 0 becomes the average.                      *)
Start ==
    /\ ~initialized
    /\ Swap
    /\ num' = pending /\ den' = 1
    /\ initialized' = (pending > 0)
    /\ low' = pending /\ peak' = pending
    /\ UNCHANGED <<stage, streak>>

(* Every later value is folded into the average, then compared with it.    *)
Evaluate ==
    /\ initialized
    /\ Swap
    /\ num' = Fold(pending, num, den) /\ den' = 5 * den
    /\ low' = IF pending < low THEN pending ELSE low
    /\ peak' = IF pending > peak THEN pending ELSE peak
    /\ IF Spike(pending, num', den')
       THEN /\ stage' = "publishing"
            /\ streak' = IF streak > 0 /\ pending <= last.rps THEN streak + 1 ELSE 1
       ELSE /\ stage' = "waiting"
            /\ streak' = 0
    /\ UNCHANGED initialized

(* Redis answers PUBLISH dashboard_updates, or the call fails and is logged. *)
PublishSpikeAlert ==
    /\ stage = "publishing"
    /\ stage' = "waiting"
    /\ UNCHANGED <<second, buffered, pending, initialized, num, den, last, low, peak, streak>>

(* The bounded ticker has stopped and its last tick was taken.             *)
Finished ==
    /\ second = MaxSeconds
    /\ ~buffered /\ stage = "waiting"
    /\ UNCHANGED vars

Next ==
    \/ \E n \in Loads : RecordEvent(n)
    \/ Second
    \/ Start
    \/ Evaluate
    \/ PublishSpikeAlert
    \/ Finished

Spec == Init /\ [][Next]_vars

-----------------------------------------------------------------------------
(* What an alert means.  The value is compared with an average that        *)
(* already contains it, so it is more than 8/3 of the average before it    *)
(* (not 2), more than the noise, and never the first value.                *)
AlertIsSpike ==
    stage = "publishing" =>
        /\ last.initialized
        /\ last.rps > Noise
        /\ 3 * last.rps * last.den > 8 * last.num

(* The average lies between the least and the greatest value folded in.    *)
MeanIsBetween == low * den <= num /\ num <= peak * den

(* A load that never grows to 8/3 of its least value raises no alert.      *)
AlertNeedsGrowth == stage = "publishing" => 3 * last.rps > 8 * low

(* A load that jumped and stays, or falls back, is reported at most three  *)
(* times: the average catches up, whatever the jump.                       *)
AlertsSubside == streak <= 3

(* Why AlertsSubside holds: after one, two or three alerts in a row for    *)
(* values that do not grow, at least 1 - 0.8^k of the last is in the       *)
(* average, and for k = 3 more would be needed than an alert allows.       *)
AverageCatchesUp ==
    LET of(n, d) == d * num >= n * (last.rps * den)
    IN  \/ streak = 0
        \/ streak = 1 /\ of(1, 5)
        \/ streak = 2 /\ of(9, 25)
        \/ streak = 3 /\ of(61, 125)

(* The inductive invariant behind the four properties above.               *)
MeanInvariant ==
    /\ TypeOK
    /\ AlertIsSpike /\ MeanIsBetween /\ AlertNeedsGrowth /\ AverageCatchesUp
    /\ ~initialized => streak = 0 /\ stage = "waiting"

(* ema.go:40 and documentation.tex:144 taken at their word: a value above  *)
(* twice the average of the past, and above the noise, raises an alert.    *)
SpikeOverTwice ==
    (/\ last.initialized
     /\ last.rps > Noise
     /\ last.rps * last.den > 2 * last.num) => (stage = "publishing" \/ streak > 0)
=============================================================================
