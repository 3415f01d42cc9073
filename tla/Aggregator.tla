----------------------------- MODULE Aggregator -----------------------------
(***************************************************************************)
(* The aggregator (services/aggregator/main.go) on one partition of        *)
(* raw-events.                                                             *)
(*                                                                         *)
(* ReadMessage hands over the next event and, in the same call, queues its *)
(* offset to be committed; a ticker commits what is queued once a second.  *)
(* The event is applied to Redis only afterwards, by a pipeline that is    *)
(* not a transaction and that go-redis sends again, from its first         *)
(* command, when a connection breaks.  The consumer starts again at the    *)
(* committed offset after a crash and after a rebalance of its group.      *)
(***************************************************************************)
EXTENDS Integers, Sequences, FiniteSets

CONSTANTS
    Events,         \* bound of the model: the offsets are 1 .. Events
    Malformed,      \* those whose value is not a JSON object
    Untyped,        \* those without a string as event_type
    MaxRetries,     \* go-redis sends a failed pipeline again this many times
    MaxBreaks,      \* bound of the model: connections to Redis that break
    MaxCrashes,     \* bound of the model: crashes of the aggregator
    MaxRebalances   \* bound of the model: rebalances of the consumer group

Offsets == 1 .. Events

ASSUME AggregatorAssumption ==
    /\ Events \in Nat
    /\ Malformed \subseteq Offsets /\ Untyped \subseteq Offsets
    /\ MaxRetries \in Nat /\ MaxBreaks \in Nat
    /\ MaxCrashes \in Nat /\ MaxRebalances \in Nat

VARIABLES
    up,           \* the aggregator runs
    position,     \* the offset ReadMessage returns next
    queued,       \* what the ticker will commit: the offset to resume from
    committed,    \* what the group coordinator has stored
    event,        \* the event in the loop, 0 for none
    commands,     \* the commands Redis has yet to execute for it
    tries,        \* how often its pipeline was sent again
    applied,      \* Redis: per command and offset, how often it was applied
    consumed,     \* metrics.KafkaMessagesConsumed
    processed,    \* metrics.EventsProcessed
    redisErrors,  \* metrics.RedisErrors
    breaks, crashes, rebalances,
    failures,     \* history: redisErrors before the last crash
    skipped       \* history: malformed events consumed since the start

vars == <<up, position, queued, committed, event, commands, tries, applied, consumed,
          processed, redisErrors, breaks, crashes, rebalances, failures, skipped>>
consumer == <<position, queued, committed>>
metrics == <<consumed, processed, redisErrors>>
faults == <<breaks, crashes, rebalances>>
history == <<failures, skipped>>

Kinds == {"incr", "zincrby"}

(* The pipeline of an event: every event the gateway accepts has a user.   *)
(* (A definition named Faulty... is what a slip would make of the one that *)
(* follows it; no specification uses it.)                                  *)
FaultyPipelineShort(o) == <<"zincrby">>
FaultyPipelineLong(o) == <<"incr", "zincrby", "zincrby">>

Pipeline(o) == IF o \in Untyped THEN <<"zincrby">> ELSE <<"incr", "zincrby">>

TypeOK ==
    /\ up \in BOOLEAN
    /\ position \in 1 .. Events + 1
    /\ queued \in 1 .. Events + 1
    /\ committed \in 1 .. Events + 1
    /\ event \in 0 .. Events
    /\ commands \in {<<>>, <<"zincrby">>, <<"incr", "zincrby">>}
    /\ tries \in 0 .. MaxRetries
    /\ applied \in [Kinds -> [Offsets -> Nat]]
    /\ consumed \in Nat /\ processed \in Nat /\ redisErrors \in Nat
    /\ breaks \in 0 .. MaxBreaks
    /\ crashes \in 0 .. MaxCrashes
    /\ rebalances \in 0 .. MaxRebalances
    /\ failures \in Nat /\ skipped \in Nat

Init ==
    /\ up = TRUE
    /\ position = 1 /\ queued = 1 /\ committed = 1
    /\ event = 0 /\ commands = <<>> /\ tries = 0
    /\ applied = [k \in Kinds |-> [o \in Offsets |-> 0]]
    /\ consumed = 0 /\ processed = 0 /\ redisErrors = 0
    /\ breaks = 0 /\ crashes = 0 /\ rebalances = 0
    /\ failures = 0 /\ skipped = 0

-----------------------------------------------------------------------------
(* The loop.                                                               *)

(* What ReadMessage queues for the ticker when it returns offset o.        *)
FaultyQueued(o) == o + 2

Queued(o) == o + 1

(* ReadMessage; a value that is not JSON is skipped.                       *)
ReadMessage ==
    /\ up /\ event = 0
    /\ position <= Events
    /\ position' = position + 1
    /\ queued' = Queued(position)
    /\ consumed' = consumed + 1
    /\ IF position \in Malformed
       THEN skipped' = skipped + 1 /\ UNCHANGED <<event, commands, tries>>
       ELSE /\ event' = position
            /\ commands' = Pipeline(position)
            /\ tries' = 0
            /\ UNCHANGED skipped
    /\ UNCHANGED <<up, committed, applied, processed, redisErrors, faults, failures>>

(* Redis executes the next command of the pipeline.                        *)
Execute ==
    /\ event # 0 /\ commands # <<>>
    /\ applied' = [applied EXCEPT ![Head(commands)][event] = @ + 1]
    /\ commands' = Tail(commands)
    /\ UNCHANGED <<up, consumer, event, tries, metrics, faults, history>>

(* The event is done with, successfully or not.                            *)
FaultyNextEvent == event' = 0 /\ commands' = <<>> /\ UNCHANGED processed

NextEvent == event' = 0 /\ commands' = <<>> /\ processed' = processed + 1

(* Exec returns the replies.                                               *)
Processed ==
    /\ event # 0 /\ commands = <<>>
    /\ NextEvent
    /\ UNCHANGED <<up, consumer, tries, applied, consumed, redisErrors, faults, history>>

(* The connection breaks before, between or after the commands; go-redis   *)
(* sends them all again.                                                   *)
BreakAndRetry ==
    /\ event # 0 /\ breaks < MaxBreaks
    /\ tries < MaxRetries
    /\ breaks' = breaks + 1
    /\ tries' = tries + 1
    /\ commands' = Pipeline(event)
    /\ UNCHANGED <<up, consumer, event, applied, metrics, crashes, rebalances, history>>

(* After the last try Exec returns the error: logged, counted, and on to   *)
(* the next event.                                                         *)
RedisError ==
    /\ event # 0 /\ breaks < MaxBreaks
    /\ tries = MaxRetries
    /\ breaks' = breaks + 1
    /\ redisErrors' = redisErrors + 1
    /\ NextEvent
    /\ UNCHANGED <<up, consumer, tries, applied, consumed, crashes, rebalances, history>>

-----------------------------------------------------------------------------
(* The consumer group.                                                     *)

(* The ticker of the reader.                                               *)
Commit ==
    /\ up /\ queued # committed
    /\ committed' = queued
    /\ UNCHANGED <<up, position, queued, event, commands, tries, applied, metrics, faults, history>>

(* The group rebalances: the reader tries a last commit and resumes from   *)
(* what is stored.  The event in the loop is not affected.                 *)
Rebalance ==
    /\ up /\ rebalances < MaxRebalances
    /\ rebalances' = rebalances + 1
    /\ committed' \in {queued, committed}
    /\ position' = committed'
    /\ queued' = committed'
    /\ UNCHANGED <<up, event, commands, tries, applied, metrics, breaks, crashes, history>>

(* Where a restarted reader begins.                                        *)
FaultyResumeAt == 1

ResumeAt == committed

(* The process dies; what it was doing and what it counted is forgotten.   *)
Crash ==
    /\ up /\ crashes < MaxCrashes
    /\ up' = FALSE /\ crashes' = crashes + 1
    /\ event' = 0 /\ commands' = <<>> /\ tries' = 0
    /\ consumed' = 0 /\ processed' = 0 /\ redisErrors' = 0
    /\ failures' = failures + redisErrors
    /\ skipped' = 0
    /\ UNCHANGED <<consumer, applied, breaks, rebalances>>

Restart ==
    /\ ~up
    /\ up' = TRUE
    /\ position' = ResumeAt /\ queued' = ResumeAt
    /\ UNCHANGED <<committed, event, commands, tries, applied, metrics, faults, history>>

-----------------------------------------------------------------------------
Next ==
    \/ ReadMessage \/ Execute \/ Processed \/ BreakAndRetry \/ RedisError
    \/ Commit \/ Rebalance \/ Crash \/ Restart

Spec == Init /\ [][Next]_vars

(* The loop, Redis and the ticker go on.  Nothing in the repository starts *)
(* a dead process again: EverythingAggregated has that as its premise.     *)
FairSpec ==
    /\ Spec
    /\ WF_vars(ReadMessage) /\ WF_vars(Execute) /\ WF_vars(Processed)
    /\ WF_vars(Commit)

-----------------------------------------------------------------------------
WellFormed == Offsets \ Malformed

(* How often a command of the pipeline of o was applied.                   *)
Complete(o) == applied["zincrby"][o] > 0 /\ (o \notin Untyped => applied["incr"][o] > 0)

(* The events behind the committed offset that never reached Redis whole.  *)
Lost == {o \in WellFormed : o < committed /\ o # event /\ ~Complete(o)}

(* A failure loses at most the one event that was in the loop, although    *)
(* its offset may have been committed long before.                         *)
LossBound == Cardinality(Lost) <= crashes + failures + redisErrors

(* An event is counted once more only for a pipeline sent again, a crash   *)
(* or a rebalance.                                                         *)
DuplicateBound ==
    \A k \in Kinds, o \in Offsets : applied[k][o] <= 1 + breaks + crashes + rebalances

(* While nothing fails the totals are exact: one count for every event     *)
(* the reader has passed, and none for those to come.                      *)
ExactWhenCalm ==
    breaks + crashes + rebalances = 0 =>
        \A o \in WellFormed \ {event} :
            /\ applied["zincrby"][o] = IF o < position THEN 1 ELSE 0
            /\ applied["incr"][o] = IF o < position /\ o \notin Untyped THEN 1 ELSE 0

(* The offset to resume from never passes what was read, and what is       *)
(* stored never passes what was queued or moves back.                      *)
CommitsFollowReads == committed <= queued /\ (up => queued <= position)
CommitsNeverRetreat == [][committed' >= committed]_vars

(* Since the process started, every message consumed was skipped, is in    *)
(* the loop, or counts as processed, errors included.                      *)
EveryMessageCounted ==
    consumed = processed + skipped + (IF event = 0 THEN 0 ELSE 1)

(* Whatever fails, an aggregator that is always started again reads and    *)
(* commits the whole log in the end, and events are missing from the       *)
(* totals only when a process or a pipeline failed.                        *)
EverythingAggregated ==
    []<>up =>
        <>[]/\ committed = Events + 1
            /\ crashes + failures + redisErrors = 0 => \A o \in WellFormed : Complete(o)

(* documentation.tex:80, PRD 1504 and PRD 1705: whatever crashes, Kafka    *)
(* keeps each event until it is processed.                                 *)
NoLossInCrash == Lost = {}
=============================================================================
