------------------------------- MODULE Ingest -------------------------------
(***************************************************************************)
(* POST /ingest: the handler of the gateway                                *)
(* (services/gateway/handlers/ingest.go), the asynchronous Kafka writer    *)
(* behind ProduceEvent (services/gateway/kafka/producer.go) and the        *)
(* partitions of raw-events.                                               *)
(*                                                                         *)
(* The writer answers nil as soon as a message is queued in memory.  One   *)
(* goroutine per partition cuts the queue into batches and sends them one  *)
(* after the other, each a bounded number of times; nobody waits for the   *)
(* outcome.  What the rate limiter answers is a choice here (RateLimiter   *)
(* says which); an error of the limiter lets the request pass.             *)
(***************************************************************************)
EXTENDS Integers, Sequences, FiniteSets, SequencesExt

CONSTANTS
    Requests,     \* the POSTs that clients make
    Partitions,   \* of the topic
    PartitionOf,  \* per request: the partition its user_id hashes to
    BatchSize,    \* messages in one write to the broker (1000)
    MaxAttempts,  \* times the writer tries to send a batch (10)
    MaxOutages,   \* bound of the model: outages of the broker
    MaxLosses,    \* bound of the model: batches the broker loses
    MaxCrashes    \* bound of the model: crashes of the gateway

ASSUME IngestAssumption ==
    /\ IsFiniteSet(Requests)
    /\ PartitionOf \in [Requests -> Partitions]
    /\ BatchSize \in Nat \ {0}
    /\ MaxAttempts \in Nat \ {0}
    /\ MaxOutages \in Nat /\ MaxLosses \in Nat /\ MaxCrashes \in Nat

VARIABLES
    stage,     \* per request: where its handler is
    outcome,   \* per request: what the handler has decided to answer
    ping,      \* per request: the goroutine that POSTs /record
    active,    \* metrics.ActiveConnections
    counter,   \* EventsIngested ("accepted") and EventsRejected by reason
    hits,      \* metrics.RateLimitHits
    queue,     \* per partition: messages waiting in the writer
    batch,     \* per partition: the batch being sent, <<>> for none
    attempts,  \* per partition: failed attempts to send it
    topic,     \* per partition: what the broker stores
    broker,    \* Kafka is up
    gateway,   \* the gateway is up
    outages, losses, crashes,
    born,      \* history: crashes before the request arrived
    earlier    \* history: the requests answered before it arrived

vars == <<stage, outcome, ping, active, counter, hits, queue, batch, attempts,
          topic, broker, gateway, outages, losses, crashes, born, earlier>>
metrics == <<active, counter, hits>>
writer == <<queue, batch, attempts>>
world == <<broker, gateway, outages, losses, crashes>>
history == <<born, earlier>>

Reasons == {"bad_request", "missing_user_id", "rate_limit", "kafka_error"}
Outcomes == Reasons \cup {"accepted"}
InHandler == {"reading", "limiting", "refusing", "producing", "counting", "returning"}

TypeOK ==
    /\ stage \in [Requests -> InHandler \cup {"new", "answered", "broken"}]
    /\ outcome \in [Requests -> Outcomes \cup {"none"}]
    /\ ping \in [Requests -> {"none", "flying", "recorded", "lost"}]
    /\ active \in Nat
    /\ counter \in [Outcomes -> Nat]
    /\ hits \in Nat
    /\ queue \in [Partitions -> Seq(Requests)]
    /\ batch \in [Partitions -> BoundedSeq(Requests, BatchSize)]
    /\ attempts \in [Partitions -> 0 .. MaxAttempts - 1]
    /\ topic \in [Partitions -> Seq(Requests)]
    /\ broker \in BOOLEAN /\ gateway \in BOOLEAN
    /\ outages \in 0 .. MaxOutages /\ losses \in 0 .. MaxLosses /\ crashes \in 0 .. MaxCrashes
    /\ born \in [Requests -> 0 .. MaxCrashes]
    /\ earlier \in [Requests -> SUBSET Requests]

Init ==
    /\ stage = [r \in Requests |-> "new"]
    /\ outcome = [r \in Requests |-> "none"]
    /\ ping = [r \in Requests |-> "none"]
    /\ active = 0
    /\ counter = [o \in Outcomes |-> 0]
    /\ hits = 0
    /\ queue = [p \in Partitions |-> <<>>]
    /\ batch = [p \in Partitions |-> <<>>]
    /\ attempts = [p \in Partitions |-> 0]
    /\ topic = [p \in Partitions |-> <<>>]
    /\ broker = TRUE /\ gateway = TRUE
    /\ outages = 0 /\ losses = 0 /\ crashes = 0
    /\ born = [r \in Requests |-> 0]
    /\ earlier = [r \in Requests |-> {}]

-----------------------------------------------------------------------------
(* HandleIngest, from one statement other goroutines can notice to the     *)
(* next.                                                                   *)
At(r, s) == stage[r] = s
Goto(r, s) == stage' = [stage EXCEPT ![r] = s]

(* The handler has decided: count it, then return.                         *)
Decide(r, o) ==
    /\ outcome' = [outcome EXCEPT ![r] = o]
    /\ counter' = [counter EXCEPT ![o] = @ + 1]
    /\ Goto(r, "returning")

Arrive(r) ==
    /\ gateway /\ At(r, "new")
    /\ Goto(r, "reading")
    /\ active' = active + 1
    /\ born' = [born EXCEPT ![r] = crashes]
    /\ earlier' = [earlier EXCEPT ![r] = {s \in Requests : At(s, "answered")}]
    /\ UNCHANGED <<outcome, ping, counter, hits, writer, topic, world>>

(* The body ends when the client ends it: nothing in main.go limits how    *)
(* long the handler reads.  Invalid or cut short, or no user_id: 400.      *)
Refuse(r) ==
    /\ At(r, "reading")
    /\ \E o \in {"bad_request", "missing_user_id"} : Decide(r, o)
    /\ UNCHANGED <<ping, active, hits, writer, topic, world, history>>

(* A valid event is reported to the anomaly detector, whatever follows.    *)
Validate(r) ==
    /\ At(r, "reading")
    /\ Goto(r, "limiting")
    /\ ping' = [ping EXCEPT ![r] = "flying"]
    /\ UNCHANGED <<outcome, metrics, writer, topic, world, history>>

(* The POST to /record arrives or is given up after a second.              *)
Ping(r) ==
    /\ ping[r] = "flying"
    /\ \E result \in {"recorded", "lost"} : ping' = [ping EXCEPT ![r] = result]
    /\ UNCHANGED <<stage, outcome, metrics, writer, topic, world, history>>

(* AllowRequest returns true, or an error: fail open.                      *)
Pass(r) ==
    /\ At(r, "limiting")
    /\ Goto(r, "producing")
    /\ UNCHANGED <<outcome, ping, metrics, writer, topic, world, history>>

(* AllowRequest returns false: RateLimitHits.Inc.                          *)
Limit(r) ==
    /\ At(r, "limiting")
    /\ hits' = hits + 1
    /\ Goto(r, "refusing")
    /\ UNCHANGED <<outcome, ping, active, counter, writer, topic, world, history>>

(* Then the other counter, and 429.  (A definition named Faulty... is what *)
(* a slip would make of the one that follows it; no specification uses     *)
(* it.)                                                                    *)
FaultyAfterLimit(r) ==
    /\ outcome' = [outcome EXCEPT ![r] = "rate_limit"]
    /\ counter' = [counter EXCEPT !["rate_limit"] = @ + 1]
    /\ Goto(r, "producing")

AfterLimit(r) == Decide(r, "rate_limit")

Reject(r) ==
    /\ At(r, "refusing")
    /\ AfterLimit(r)
    /\ UNCHANGED <<ping, active, hits, writer, topic, world, history>>

(* WriteMessages queues the event and returns nil.                         *)
Produce(r) ==
    /\ At(r, "producing")
    /\ queue' = [queue EXCEPT ![PartitionOf[r]] = Append(@, r)]
    /\ Goto(r, "counting")
    /\ UNCHANGED <<outcome, ping, metrics, batch, attempts, topic, world, history>>

(* ProduceEvent fails before the event is queued: it cannot be marshalled, *)
(* it is too large, or the partitions of the topic cannot be read: 500.    *)
ProduceError(r) ==
    /\ At(r, "producing")
    /\ Decide(r, "kafka_error")
    /\ UNCHANGED <<ping, active, hits, writer, topic, world, history>>

(* EventsIngested.Inc, and 202.                                            *)
Accept(r) ==
    /\ At(r, "counting")
    /\ Decide(r, "accepted")
    /\ UNCHANGED <<ping, active, hits, writer, topic, world, history>>

(* The deferred Dec runs and the response goes out.                        *)
FaultyActiveAfter(r) == IF outcome[r] = "accepted" THEN active - 1 ELSE active
FaultyActiveTwice(r) == IF outcome[r] = "accepted" THEN active - 1 ELSE active - 2

ActiveAfter(r) == active - 1

Return(r) ==
    /\ At(r, "returning")
    /\ Goto(r, "answered")
    /\ active' = ActiveAfter(r)
    /\ UNCHANGED <<outcome, ping, counter, hits, writer, topic, world, history>>

-----------------------------------------------------------------------------
(* The writer's goroutine for one partition.                               *)

(* A batch is closed when it is full or 10 ms old.                         *)
FaultyMayCloseFull(n) == n = BatchSize

MayClose(n) == n <= BatchSize

CutBatch(p) ==
    /\ batch[p] = <<>>
    /\ \E n \in 1 .. Len(queue[p]) :
        /\ MayClose(n)
        /\ batch' = [batch EXCEPT ![p] = SubSeq(queue[p], 1, n)]
        /\ queue' = [queue EXCEPT ![p] = SubSeq(@, n + 1, Len(@))]
    /\ UNCHANGED <<stage, outcome, ping, metrics, attempts, topic, world, history>>

(* The batch is done with: stored, lost or given up.                       *)
DoneWith(p) ==
    /\ batch' = [batch EXCEPT ![p] = <<>>]
    /\ attempts' = [attempts EXCEPT ![p] = 0]

(* What the broker appends to the partition.                               *)
FaultyStored(p) == Tail(batch[p])

Stored(p) == batch[p]

(* The broker stores the batch.  The writer asks for no acknowledgement,   *)
(* so a batch the broker loses looks just the same.                        *)
Store(p) ==
    /\ broker /\ batch[p] # <<>>
    /\ DoneWith(p)
    /\ \/ topic' = [topic EXCEPT ![p] = @ \o Stored(p)] /\ UNCHANGED losses
       \/ losses < MaxLosses /\ losses' = losses + 1 /\ UNCHANGED topic
    /\ UNCHANGED <<stage, outcome, ping, metrics, queue, broker, gateway, outages, crashes, history>>

(* An attempt fails; after the last one the batch is dropped.              *)
FaultyDropped(p) == queue' = [queue EXCEPT ![p] = @ \o batch[p]]

Dropped(p) == UNCHANGED queue
LastAttempt(p) == attempts[p] + 1 = MaxAttempts

AttemptFails(p) ==
    /\ ~broker /\ batch[p] # <<>>
    /\ IF LastAttempt(p)
       THEN DoneWith(p) /\ Dropped(p)
       ELSE attempts' = [attempts EXCEPT ![p] = @ + 1] /\ UNCHANGED <<queue, batch>>
    /\ UNCHANGED <<stage, outcome, ping, metrics, topic, world, history>>

-----------------------------------------------------------------------------
(* Failures.                                                               *)
BrokerFails ==
    /\ broker /\ outages < MaxOutages
    /\ broker' = FALSE /\ outages' = outages + 1
    /\ UNCHANGED <<stage, outcome, ping, metrics, writer, topic, gateway, losses, crashes, history>>

BrokerRecovers ==
    /\ ~broker
    /\ broker' = TRUE
    /\ UNCHANGED <<stage, outcome, ping, metrics, writer, topic, gateway, outages, losses, crashes, history>>

(* The gateway dies with its requests, its queues and its counters; the    *)
(* deferred Close, which would flush the writer, does not run.             *)
Crash ==
    /\ gateway /\ crashes < MaxCrashes
    /\ gateway' = FALSE /\ crashes' = crashes + 1
    /\ stage' = [r \in Requests |-> IF stage[r] \in InHandler THEN "broken" ELSE stage[r]]
    /\ ping' = [r \in Requests |-> IF ping[r] = "flying" THEN "lost" ELSE ping[r]]
    /\ active' = 0 /\ hits' = 0 /\ counter' = [o \in Outcomes |-> 0]
    /\ queue' = [p \in Partitions |-> <<>>]
    /\ batch' = [p \in Partitions |-> <<>>]
    /\ attempts' = [p \in Partitions |-> 0]
    /\ UNCHANGED <<outcome, topic, broker, outages, losses, history>>

Restart ==
    /\ ~gateway
    /\ gateway' = TRUE
    /\ UNCHANGED <<stage, outcome, ping, metrics, writer, topic, broker, outages, losses, crashes, history>>

-----------------------------------------------------------------------------
Body(r) == Refuse(r) \/ Validate(r)

Handle(r) ==
    \/ Pass(r) \/ Limit(r) \/ Reject(r)
    \/ Produce(r) \/ ProduceError(r) \/ Accept(r) \/ Return(r)

Write(p) == CutBatch(p) \/ Store(p) \/ AttemptFails(p)

Next ==
    \/ \E r \in Requests : Arrive(r) \/ Body(r) \/ Handle(r) \/ Ping(r)
    \/ \E p \in Partitions : Write(p)
    \/ BrokerFails \/ BrokerRecovers \/ Crash \/ Restart

Spec == Init /\ [][Next]_vars

(* Handlers and goroutines run once the body is there; a client may never  *)
(* end it.  Nothing in the repository starts again what is down: a         *)
(* property that needs it says so in its premise.                          *)
FairSpec ==
    /\ Spec
    /\ \A r \in Requests : WF_vars(Handle(r)) /\ WF_vars(Ping(r))
    /\ \A p \in Partitions : WF_vars(Write(p))

-----------------------------------------------------------------------------
Published(r) == r \in ToSet(topic[PartitionOf[r]])
Buffered(r) == r \in ToSet(queue[PartitionOf[r]]) \cup ToSet(batch[PartitionOf[r]])

(* The requests this life of the gateway has seen.                         *)
Current == {r \in Requests : stage[r] # "new" /\ born[r] = crashes}

(* Whatever interleaves, the gauge is the number of requests being         *)
(* handled, every request is counted under exactly the outcome it is       *)
(* answered, and RateLimitHits is ahead of the counter of refusals by the  *)
(* handlers that have updated the first and not yet the second.            *)
MetricsBalance ==
    /\ active = Cardinality({r \in Requests : stage[r] \in InHandler})
    /\ \A o \in Outcomes : counter[o] = Cardinality({r \in Current : outcome[r] = o})
    /\ hits = counter["rate_limit"] + Cardinality({r \in Requests : At(r, "refusing")})

(* A client that was told no finds nothing in Kafka, now or later.         *)
RefusedStaysOut ==
    \A r \in Requests : outcome[r] \in Reasons => ~Published(r) /\ ~Buffered(r)

(* The key is the user_id, so the events of a user share a partition, and  *)
(* one answered before the next was sent comes before it, through batches, *)
(* retries, outages and restarts; nothing is stored twice.                 *)
UserOrder ==
    \A p \in Partitions :
        /\ IsInjective(topic[p])
        /\ \A i, j \in 1 .. Len(topic[p]) : topic[p][i] \in earlier[topic[p][j]] => i < j

(* PRD 1507 ("Gateway buffers in memory; produces when Kafka recovers"):   *)
(* if Kafka always recovers, every event answered 202 reaches the topic.   *)
(* These are the events that EventsIngested counts (MetricsBalance), which *)
(* metrics/prometheus.go:11 calls "successfully accepted and published to  *)
(* Kafka".                                                                 *)
AcceptedIsPublished ==
    []<>broker => \A r \in Requests : outcome[r] = "accepted" ~> Published(r)

(* It does unless something fails while it is in the writer, whatever has  *)
(* failed before and whichever other clients never end their bodies: the   *)
(* gateway dies, the broker is down, or the broker loses a batch nobody    *)
(* waits for.                                                              *)
LossNeedsFailure ==
    \A r \in Requests, n \in 0 .. MaxLosses :
        (/\ Buffered(r) /\ losses = n)
            ~> (Published(r) \/ ~broker \/ ~gateway \/ losses > n)
=============================================================================
