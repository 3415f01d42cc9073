---------------------------- MODULE IngestProofs ----------------------------
(***************************************************************************)
(* Proofs that the metrics of the gateway balance, that refused events     *)
(* stay out of Kafka and that the events of a user stay in order.          *)
(***************************************************************************)
EXTENDS Ingest, FiniteSetTheorems, TLAPS

-----------------------------------------------------------------------------
(* Types, group by group.                                                  *)
HandlersOK ==
    /\ stage \in [Requests -> InHandler \cup {"new", "answered", "broken"}]
    /\ outcome \in [Requests -> Outcomes \cup {"none"}]
    /\ ping \in [Requests -> {"none", "flying", "recorded", "lost"}]

CountersOK == active \in Int /\ counter \in [Outcomes -> Nat] /\ hits \in Nat

WriterOK ==
    /\ queue \in [Partitions -> Seq(Requests)]
    /\ batch \in [Partitions -> BoundedSeq(Requests, BatchSize)]
    /\ attempts \in [Partitions -> 0 .. MaxAttempts - 1]
    /\ topic \in [Partitions -> Seq(Requests)]

FailuresOK ==
    /\ outages \in 0 .. MaxOutages
    /\ losses \in 0 .. MaxLosses
    /\ crashes \in 0 .. MaxCrashes

PowersOK == broker \in BOOLEAN /\ gateway \in BOOLEAN

HistoryOK ==
    /\ born \in [Requests -> 0 .. MaxCrashes]
    /\ earlier \in [Requests -> SUBSET Requests]

(* Where a handler that has not decided yet can be.                        *)
Undecided == {"new", "reading", "limiting", "refusing", "producing", "counting"}

(* A handler moves as follows, in every step.                              *)
LEMMA HandlersStep ==
    ASSUME HandlersOK, [Next]_vars
    PROVE  HandlersOK'
<1> USE DEF HandlersOK, InHandler, Outcomes, Reasons
<1>1. ASSUME NEW r \in Requests, Arrive(r) PROVE HandlersOK'
  BY <1>1 DEF Arrive, At, Goto
<1>2. ASSUME NEW r \in Requests, Refuse(r) PROVE HandlersOK'
  BY <1>2 DEF Refuse, At, Goto, Decide
<1>3. ASSUME NEW r \in Requests, Validate(r) PROVE HandlersOK'
  BY <1>3 DEF Validate, At, Goto
<1>4. ASSUME NEW r \in Requests, Ping(r) PROVE HandlersOK'
  BY <1>4 DEF Ping
<1>5. ASSUME NEW r \in Requests, Pass(r) \/ Limit(r) PROVE HandlersOK'
  BY <1>5 DEF Pass, Limit, At, Goto
<1>6. ASSUME NEW r \in Requests, Reject(r) PROVE HandlersOK'
  BY <1>6 DEF Reject, AfterLimit, At, Goto, Decide
<1>7. ASSUME NEW r \in Requests, Produce(r) PROVE HandlersOK'
  BY <1>7 DEF Produce, At, Goto
<1>8. ASSUME NEW r \in Requests, ProduceError(r) PROVE HandlersOK'
  BY <1>8 DEF ProduceError, At, Goto, Decide
<1>9. ASSUME NEW r \in Requests, Accept(r) PROVE HandlersOK'
  BY <1>9 DEF Accept, At, Goto, Decide
<1>10. ASSUME NEW r \in Requests, Return(r) PROVE HandlersOK'
  BY <1>10 DEF Return, At, Goto
<1>11. CASE Crash
  BY <1>11 DEF Crash
<1>12. ASSUME NEW p \in Partitions, Write(p) PROVE HandlersOK'
  BY <1>12 DEF Write, CutBatch, Store, AttemptFails
<1>13. CASE BrokerFails \/ BrokerRecovers \/ Restart \/ UNCHANGED vars
  BY <1>13 DEF BrokerFails, BrokerRecovers, Restart, vars
<1> QED
  BY <1>1, <1>2, <1>3, <1>4, <1>5, <1>6, <1>7, <1>8, <1>9, <1>10, <1>11, <1>12, <1>13
  DEF Next, Body, Handle

LEMMA CountersStep ==
    ASSUME CountersOK, [Next]_vars
    PROVE  CountersOK'
<1> USE DEF CountersOK, Outcomes, Reasons
<1>1. ASSUME NEW r \in Requests, Arrive(r) PROVE CountersOK'
  BY <1>1 DEF Arrive
<1>2. ASSUME NEW r \in Requests, NEW o \in Outcomes, Decide(r, o) PROVE counter' \in [Outcomes -> Nat]
  BY <1>2 DEF Decide
<1>3. ASSUME NEW r \in Requests, Refuse(r) PROVE CountersOK'
  BY <1>2, <1>3 DEF Refuse
<1>4. ASSUME NEW r \in Requests, Reject(r) PROVE CountersOK'
  BY <1>2, <1>4 DEF Reject, AfterLimit
<1>5. ASSUME NEW r \in Requests, ProduceError(r) PROVE CountersOK'
  BY <1>2, <1>5 DEF ProduceError
<1>6. ASSUME NEW r \in Requests, Accept(r) PROVE CountersOK'
  BY <1>2, <1>6 DEF Accept
<1>7. ASSUME NEW r \in Requests, Return(r) PROVE CountersOK'
  BY <1>7 DEF Return, ActiveAfter
<1>8. CASE Crash
  BY <1>8 DEF Crash
<1>9. ASSUME NEW r \in Requests, Validate(r) \/ Pass(r) \/ Limit(r) \/ Produce(r) \/ Ping(r)
      PROVE  CountersOK'
  BY <1>9 DEF Validate, Pass, Limit, Produce, Ping, metrics
<1>10. ASSUME NEW p \in Partitions, Write(p) PROVE CountersOK'
  BY <1>10 DEF Write, CutBatch, Store, AttemptFails, metrics
<1>11. CASE BrokerFails \/ BrokerRecovers \/ Restart \/ UNCHANGED vars
  BY <1>11 DEF BrokerFails, BrokerRecovers, Restart, vars, metrics
<1> QED
  BY <1>1, <1>3, <1>4, <1>5, <1>6, <1>7, <1>8, <1>9, <1>10, <1>11 DEF Next, Body, Handle

LEMMA FailuresStep ==
    ASSUME FailuresOK, [Next]_vars
    PROVE  FailuresOK'
<1> USE IngestAssumption DEF FailuresOK
<1>1. CASE BrokerFails
  BY <1>1 DEF BrokerFails
<1>2. CASE Crash
  BY <1>2 DEF Crash
<1>3. ASSUME NEW p \in Partitions, Store(p) PROVE FailuresOK'
  BY <1>3 DEF Store
<1>4. ASSUME NEW p \in Partitions, CutBatch(p) \/ AttemptFails(p) PROVE FailuresOK'
  BY <1>4 DEF CutBatch, AttemptFails, world
<1>5. ASSUME NEW r \in Requests, Arrive(r) \/ Body(r) \/ Handle(r) \/ Ping(r) PROVE FailuresOK'
  BY <1>5 DEF Arrive, Body, Handle, Ping, Refuse, Validate, Pass, Limit, Reject, Produce, ProduceError,
              Accept, Return, world
<1>6. CASE BrokerRecovers \/ Restart \/ UNCHANGED vars
  BY <1>6 DEF BrokerRecovers, Restart, vars
<1> QED
  BY <1>1, <1>2, <1>3, <1>4, <1>5, <1>6 DEF Next, Write

LEMMA PowersStep ==
    ASSUME PowersOK, [Next]_vars
    PROVE  PowersOK'
<1> USE DEF PowersOK
<1>1. CASE BrokerFails \/ BrokerRecovers \/ Crash \/ Restart
  BY <1>1, Zenon DEF BrokerFails, BrokerRecovers, Crash, Restart
<1>2. CASE UNCHANGED <<broker, gateway>>
  BY <1>2, Zenon
<1>3. ASSUME NEW p \in Partitions, Write(p) PROVE UNCHANGED <<broker, gateway>>
  BY <1>3 DEF Write, CutBatch, Store, AttemptFails, world
<1>4. ASSUME NEW r \in Requests, Arrive(r) \/ Body(r) \/ Handle(r) \/ Ping(r)
      PROVE  UNCHANGED <<broker, gateway>>
  BY <1>4 DEF Arrive, Body, Handle, Ping, Refuse, Validate, Pass, Limit, Reject, Produce, ProduceError,
              Accept, Return, world
<1>5. CASE UNCHANGED vars
  BY <1>2, <1>5, Zenon DEF vars
<1> QED
  BY <1>1, <1>2, <1>3, <1>4, <1>5, Zenon DEF Next

LEMMA HistoryStep ==
    ASSUME HistoryOK, FailuresOK, [Next]_vars
    PROVE  HistoryOK'
<1> USE DEF HistoryOK
<1>1. ASSUME NEW r \in Requests, Arrive(r) PROVE HistoryOK'
  BY <1>1 DEF Arrive, FailuresOK
<1>2. ASSUME NEW r \in Requests, Body(r) \/ Handle(r) \/ Ping(r) PROVE HistoryOK'
  BY <1>2 DEF Body, Handle, Ping, Refuse, Validate, Pass, Limit, Reject, Produce, ProduceError,
              Accept, Return, history
<1>3. ASSUME NEW p \in Partitions, Write(p) PROVE HistoryOK'
  BY <1>3 DEF Write, CutBatch, Store, AttemptFails, history
<1>4. CASE BrokerFails \/ BrokerRecovers \/ Crash \/ Restart \/ UNCHANGED vars
  BY <1>4 DEF BrokerFails, BrokerRecovers, Crash, Restart, vars, history
<1> QED
  BY <1>1, <1>2, <1>3, <1>4 DEF Next

-----------------------------------------------------------------------------
(* Facts about sequences.                                                  *)
LEMMA AppendSet ==
    ASSUME NEW S, NEW s \in Seq(S), NEW x \in S
    PROVE  /\ Append(s, x) \in Seq(S)
           /\ ToSet(Append(s, x)) = ToSet(s) \cup {x}
<1>1. Len(Append(s, x)) = Len(s) + 1 /\ Len(s) \in Nat /\ Append(s, x) \in Seq(S)
  OBVIOUS
<1>2. \A i \in 1 .. Len(s) : Append(s, x)[i] = s[i]
  OBVIOUS
<1>3. Append(s, x)[Len(s) + 1] = x
  OBVIOUS
<1>4. DOMAIN Append(s, x) = 1 .. Len(s) + 1 /\ DOMAIN s = 1 .. Len(s)
  BY <1>1
<1>5. \A i \in 1 .. Len(s) + 1 : i \in 1 .. Len(s) \/ i = Len(s) + 1
  BY <1>1
<1>6. (1 .. Len(s)) \subseteq 1 .. Len(s) + 1 /\ Len(s) + 1 \in 1 .. Len(s) + 1
  BY <1>1
<1>7. ToSet(Append(s, x)) \subseteq ToSet(s) \cup {x}
  BY <1>2, <1>3, <1>4, <1>5, Zenon DEF ToSet
<1>8. ToSet(s) \cup {x} \subseteq ToSet(Append(s, x))
  BY <1>2, <1>3, <1>4, <1>6, Zenon DEF ToSet
<1> QED
  BY <1>1, <1>7, <1>8, Zenon

LEMMA ConcatSet ==
    ASSUME NEW S, NEW s \in Seq(S), NEW t \in Seq(S)
    PROVE  /\ s \o t \in Seq(S)
           /\ ToSet(s \o t) = ToSet(s) \cup ToSet(t)
<1>1. /\ s \o t \in Seq(S) /\ Len(s \o t) = Len(s) + Len(t)
      /\ Len(s) \in Nat /\ Len(t) \in Nat
  OBVIOUS
<1>2. \A i \in 1 .. Len(s) : (s \o t)[i] = s[i]
  BY <1>1
<1>3. \A i \in 1 .. Len(t) : (s \o t)[Len(s) + i] = t[i]
  BY <1>1
<1>4. /\ DOMAIN (s \o t) = 1 .. Len(s) + Len(t)
      /\ DOMAIN s = 1 .. Len(s) /\ DOMAIN t = 1 .. Len(t)
  BY <1>1
<1>5. \A i \in 1 .. Len(s) + Len(t) :
         i \in 1 .. Len(s) \/ \E j \in 1 .. Len(t) : i = Len(s) + j
  <2> TAKE i \in 1 .. Len(s) + Len(t)
  <2>1. CASE i <= Len(s)
    BY <1>1, <2>1
  <2>2. CASE i > Len(s)
    <3>1. i - Len(s) \in 1 .. Len(t) /\ i = Len(s) + (i - Len(s))
      BY <1>1, <2>2
    <3> QED
      BY <3>1
  <2> QED
    BY <1>1, <2>1, <2>2
<1>6. /\ \A i \in 1 .. Len(s) : i \in 1 .. Len(s) + Len(t)
      /\ \A j \in 1 .. Len(t) : Len(s) + j \in 1 .. Len(s) + Len(t)
  BY <1>1
<1>7. ToSet(s \o t) \subseteq ToSet(s) \cup ToSet(t)
  <2> SUFFICES ASSUME NEW i \in 1 .. Len(s) + Len(t)
               PROVE  (s \o t)[i] \in ToSet(s) \cup ToSet(t)
    BY <1>4 DEF ToSet
  <2>1. CASE i \in 1 .. Len(s)
    BY <1>2, <1>4, <2>1 DEF ToSet
  <2>2. ASSUME NEW j \in 1 .. Len(t), i = Len(s) + j
        PROVE  (s \o t)[i] \in ToSet(t)
    BY <1>3, <1>4, <2>2 DEF ToSet
  <2> QED
    BY <1>5, <2>1, <2>2
<1>8. \A i \in 1 .. Len(s) : s[i] \in ToSet(s \o t)
  <2> TAKE i \in 1 .. Len(s)
  <2>1. i \in DOMAIN (s \o t) /\ (s \o t)[i] = s[i]
    BY <1>2, <1>4, <1>6
  <2> QED
    BY <2>1 DEF ToSet
<1>9. \A j \in 1 .. Len(t) : t[j] \in ToSet(s \o t)
  <2> TAKE j \in 1 .. Len(t)
  <2>1. Len(s) + j \in DOMAIN (s \o t) /\ (s \o t)[Len(s) + j] = t[j]
    BY <1>3, <1>4, <1>6
  <2> QED
    BY <2>1 DEF ToSet
<1>10. ToSet(s) \cup ToSet(t) \subseteq ToSet(s \o t)
  <2>1. ToSet(s) = {s[i] : i \in 1 .. Len(s)} /\ ToSet(t) = {t[j] : j \in 1 .. Len(t)}
    BY <1>4 DEF ToSet
  <2> QED
    BY <1>8, <1>9, <2>1
<1> QED
  BY <1>1, <1>7, <1>10, Zenon

(* The two pieces a queue is cut into.                                     *)
LEMMA CutSets ==
    ASSUME NEW S, NEW s \in Seq(S), NEW n \in 1 .. Len(s)
    PROVE  LET a == SubSeq(s, 1, n)
               b == SubSeq(s, n + 1, Len(s))
           IN  /\ a \in Seq(S) /\ Len(a) = n /\ \A i \in 1 .. n : a[i] = s[i]
               /\ b \in Seq(S) /\ Len(b) = Len(s) - n
               /\ \A i \in 1 .. Len(s) - n : b[i] = s[n + i]
<1> DEFINE a == SubSeq(s, 1, n)
           b == SubSeq(s, n + 1, Len(s))
<1>1. n \in Nat /\ Len(s) \in Nat /\ 1 <= n /\ n <= Len(s)
  OBVIOUS
<1>2. \A i \in 1 .. Len(s) : s[i] \in S
  OBVIOUS
<1>3. a \in Seq(S) /\ Len(a) = n /\ \A i \in 1 .. n : a[i] = s[i]
  BY <1>1, <1>2
<1>4. Len(b) = Len(s) - n /\ \A i \in 1 .. Len(s) - n : b[i] = s[n + i]
  BY <1>1, <1>2
<1>5. b \in Seq(S)
  BY <1>1, <1>2
<1> QED
  BY <1>3, <1>4, <1>5

LEMMA EmptySet ==
    ASSUME NEW S
    PROVE  <<>> \in Seq(S) /\ Len(<<>>) = 0 /\ ToSet(<<>>) = {}
  BY DEF ToSet

LEMMA BatchIsSeq ==
    ASSUME NEW S, NEW n \in Nat, NEW s \in BoundedSeq(S, n)
    PROVE  s \in Seq(S) /\ Len(s) <= n
<1>1. PICK m \in 0 .. n : s \in [1 .. m -> S]
  BY DEF BoundedSeq, SeqOf
<1>2. m \in Nat /\ m <= n
  BY <1>1
<1> QED
  BY <1>1, <1>2

LEMMA SeqIsBatch ==
    ASSUME NEW S, NEW n \in Nat, NEW s \in Seq(S), Len(s) <= n
    PROVE  s \in BoundedSeq(S, n)
<1>1. s \in [1 .. Len(s) -> S] /\ Len(s) \in 0 .. n
  OBVIOUS
<1> QED
  BY <1>1 DEF BoundedSeq, SeqOf

LEMMA SubSets ==
    ASSUME NEW S, NEW s \in Seq(S), NEW n \in 1 .. Len(s)
    PROVE  /\ ToSet(SubSeq(s, 1, n)) \subseteq ToSet(s)
           /\ ToSet(SubSeq(s, n + 1, Len(s))) \subseteq ToSet(s)
<1> DEFINE a == SubSeq(s, 1, n)
           b == SubSeq(s, n + 1, Len(s))
<1>1. /\ a \in Seq(S) /\ Len(a) = n /\ \A i \in 1 .. n : a[i] = s[i]
      /\ b \in Seq(S) /\ Len(b) = Len(s) - n
      /\ \A i \in 1 .. Len(s) - n : b[i] = s[n + i]
  BY CutSets
<1>2. DOMAIN a = 1 .. n /\ DOMAIN b = 1 .. Len(s) - n /\ DOMAIN s = 1 .. Len(s)
  BY <1>1
<1>3. /\ n \in Nat /\ Len(s) \in Nat
      /\ \A i \in 1 .. n : i \in 1 .. Len(s)
      /\ \A i \in 1 .. Len(s) - n : n + i \in 1 .. Len(s)
  OBVIOUS
<1> HIDE DEF a, b
<1>4. ASSUME NEW i \in 1 .. n PROVE a[i] \in ToSet(s)
  BY <1>1, <1>2, <1>3 DEF ToSet
<1>5. ASSUME NEW i \in 1 .. Len(s) - n PROVE b[i] \in ToSet(s)
  BY <1>1, <1>2, <1>3 DEF ToSet
<1>6. ToSet(a) \subseteq ToSet(s)
  BY <1>2, <1>4 DEF ToSet
<1>7. ToSet(b) \subseteq ToSet(s)
  BY <1>2, <1>5 DEF ToSet
<1> QED
  BY <1>6, <1>7 DEF a, b

-----------------------------------------------------------------------------
(* Types of the writer and of the topic.                                   *)
LEMMA WriterStep ==
    ASSUME WriterOK, [Next]_vars
    PROVE  WriterOK'
<1> USE IngestAssumption DEF WriterOK
<1>1. /\ 0 \in 0 .. MaxAttempts - 1 /\ BatchSize \in Nat
      /\ <<>> \in Seq(Requests) /\ <<>> \in BoundedSeq(Requests, BatchSize)
  <2>1. <<>> \in Seq(Requests) /\ Len(<<>>) <= BatchSize
    BY EmptySet
  <2>2. 0 \in 0 .. MaxAttempts - 1 /\ BatchSize \in Nat
    OBVIOUS
  <2> QED
    BY <2>1, <2>2, SeqIsBatch
<1>2. ASSUME NEW r \in Requests, Produce(r) PROVE WriterOK'
  <2>1. Append(queue[PartitionOf[r]], r) \in Seq(Requests)
    BY AppendSet
  <2> QED
    BY <1>2, <2>1 DEF Produce
<1>3. ASSUME NEW p \in Partitions, CutBatch(p) PROVE WriterOK'
  <2>1. PICK n \in 1 .. Len(queue[p]) :
           /\ n <= BatchSize
           /\ batch' = [batch EXCEPT ![p] = SubSeq(queue[p], 1, n)]
           /\ queue' = [queue EXCEPT ![p] = SubSeq(queue[p], n + 1, Len(queue[p]))]
    BY <1>3 DEF CutBatch, MayClose
  <2>2. /\ SubSeq(queue[p], 1, n) \in Seq(Requests) /\ Len(SubSeq(queue[p], 1, n)) = n
        /\ SubSeq(queue[p], n + 1, Len(queue[p])) \in Seq(Requests)
    <3>1. queue[p] \in Seq(Requests)
      OBVIOUS
    <3> HIDE DEF WriterOK
    <3> QED
      BY <3>1, CutSets
  <2>3. SubSeq(queue[p], 1, n) \in BoundedSeq(Requests, BatchSize)
    BY <1>1, <2>1, <2>2, SeqIsBatch
  <2>4. attempts' = attempts /\ topic' = topic
    BY <1>3 DEF CutBatch
  <2> QED
    BY <2>1, <2>2, <2>3, <2>4
<1>4. ASSUME NEW p \in Partitions, Store(p) PROVE WriterOK'
  <2>1. topic[p] \o batch[p] \in Seq(Requests)
    BY <1>1, BatchIsSeq, ConcatSet
  <2>2. topic' \in [Partitions -> Seq(Requests)]
    BY <1>4, <2>1 DEF Store, Stored
  <2>3. /\ batch' \in [Partitions -> BoundedSeq(Requests, BatchSize)]
        /\ attempts' \in [Partitions -> 0 .. MaxAttempts - 1]
    BY <1>1, <1>4 DEF Store, DoneWith
  <2>4. queue' = queue
    BY <1>4 DEF Store
  <2> QED
    BY <2>2, <2>3, <2>4
<1>5. ASSUME NEW p \in Partitions, AttemptFails(p) PROVE WriterOK'
  <2>1. CASE LastAttempt(p)
    BY <1>1, <1>5, <2>1 DEF AttemptFails, DoneWith, Dropped
  <2>2. CASE ~LastAttempt(p)
    <3>1. attempts[p] + 1 \in 0 .. MaxAttempts - 1
      <4>1. attempts[p] \in 0 .. MaxAttempts - 1 /\ attempts[p] + 1 # MaxAttempts
        BY <2>2 DEF LastAttempt
      <4>2. MaxAttempts \in Nat
        OBVIOUS
      <4> QED
        BY <4>1, <4>2
    <3>2. attempts' = [attempts EXCEPT ![p] = attempts[p] + 1] /\ UNCHANGED <<queue, batch, topic>>
      BY <1>5, <2>2 DEF AttemptFails
    <3>3. attempts' \in [Partitions -> 0 .. MaxAttempts - 1]
      BY <3>1, <3>2
    <3> QED
      BY <3>2, <3>3
  <2> QED
    BY <2>1, <2>2
<1>6. CASE Crash
  BY <1>1, <1>6 DEF Crash
<1>7. ASSUME NEW r \in Requests,
             \/ Arrive(r) \/ Refuse(r) \/ Validate(r) \/ Pass(r) \/ Limit(r)
             \/ Reject(r) \/ ProduceError(r) \/ Accept(r) \/ Return(r) \/ Ping(r)
      PROVE  WriterOK'
  BY <1>7 DEF Arrive, Refuse, Validate, Pass, Limit, Reject, ProduceError, Accept, Return, Ping, writer
<1>8. CASE BrokerFails \/ BrokerRecovers \/ Restart \/ UNCHANGED vars
  BY <1>8 DEF BrokerFails, BrokerRecovers, Restart, vars, writer
<1> QED
  BY <1>2, <1>3, <1>4, <1>5, <1>6, <1>7, <1>8 DEF Next, Body, Handle, Write

LEMMA WriterStarts == Init => WriterOK
<1>1. <<>> \in Seq(Requests) /\ Len(<<>>) <= BatchSize /\ BatchSize \in Nat
  BY EmptySet, IngestAssumption
<1>2. <<>> \in BoundedSeq(Requests, BatchSize)
  BY <1>1, SeqIsBatch
<1> QED
  BY <1>1, <1>2, IngestAssumption DEF Init, WriterOK

-----------------------------------------------------------------------------
(* What an invariant needs to know of the moves of handlers: one that has  *)
(* not decided has no outcome, none goes back to before the writer, a      *)
(* refusal comes from there, and an answer is final.                       *)
Early == {"new", "reading", "limiting", "refusing", "producing"}

Silent == \A r \in Requests : stage[r] \in Undecided => outcome[r] = "none"

Moves(r) ==
    /\ stage'[r] \in Undecided => outcome'[r] = "none"
    /\ stage'[r] \in Early => stage[r] \in Early
    /\ outcome'[r] \in Reasons => outcome[r] \in Reasons \/ stage[r] \in Early
    /\ stage[r] = "answered" => stage'[r] = "answered"

LEMMA HandlersMove ==
    ASSUME HandlersOK, Silent, [Next]_vars, NEW q \in Requests
    PROVE  Moves(q)
<1> USE DEF HandlersOK, InHandler, Outcomes, Reasons, Silent, Moves, Early, Undecided
<1>1. ASSUME NEW r \in Requests, Arrive(r) PROVE Moves(q)
  BY <1>1 DEF Arrive, At, Goto
<1>2. ASSUME NEW r \in Requests, Refuse(r) PROVE Moves(q)
  BY <1>2 DEF Refuse, At, Goto, Decide
<1>3. ASSUME NEW r \in Requests, Validate(r) PROVE Moves(q)
  BY <1>3 DEF Validate, At, Goto
<1>4. ASSUME NEW r \in Requests, Ping(r) PROVE Moves(q)
  BY <1>4 DEF Ping
<1>5. ASSUME NEW r \in Requests, Pass(r) \/ Limit(r) PROVE Moves(q)
  BY <1>5 DEF Pass, Limit, At, Goto
<1>6. ASSUME NEW r \in Requests, Reject(r) PROVE Moves(q)
  BY <1>6 DEF Reject, AfterLimit, At, Goto, Decide
<1>7. ASSUME NEW r \in Requests, Produce(r) PROVE Moves(q)
  BY <1>7 DEF Produce, At, Goto
<1>8. ASSUME NEW r \in Requests, ProduceError(r) PROVE Moves(q)
  BY <1>8 DEF ProduceError, At, Goto, Decide
<1>9. ASSUME NEW r \in Requests, Accept(r) PROVE Moves(q)
  BY <1>9 DEF Accept, At, Goto, Decide
<1>10. ASSUME NEW r \in Requests, Return(r) PROVE Moves(q)
  BY <1>10 DEF Return, At, Goto
<1>11. CASE Crash
  BY <1>11 DEF Crash
<1>12. ASSUME NEW p \in Partitions, Write(p) PROVE Moves(q)
  BY <1>12 DEF Write, CutBatch, Store, AttemptFails
<1>13. CASE BrokerFails \/ BrokerRecovers \/ Restart \/ UNCHANGED vars
  BY <1>13 DEF BrokerFails, BrokerRecovers, Restart, vars
<1> QED
  BY <1>1, <1>2, <1>3, <1>4, <1>5, <1>6, <1>7, <1>8, <1>9, <1>10, <1>11, <1>12, <1>13
  DEF Next, Body, Handle

LEMMA SilentStep ==
    ASSUME HandlersOK, Silent, [Next]_vars
    PROVE  Silent'
  BY HandlersMove DEF Silent, Moves

-----------------------------------------------------------------------------
(* The metrics.  What an induction needs beside the balance: a handler     *)
(* that has not decided has no outcome, so that Decide counts its request  *)
(* for the first time; a request in its handler belongs to this life of    *)
(* the gateway; none belongs to a life to come, so that after a crash      *)
(* there is nothing to count.                                              *)
Handled == {r \in Requests : stage[r] \in InHandler}
Decided(o) == {r \in Current : outcome[r] = o}
Refusing == {r \in Requests : stage[r] = "refusing"}

Lives ==
    /\ \A r \in Requests : stage[r] \in InHandler => born[r] = crashes
    /\ \A r \in Requests : born[r] <= crashes

Balance ==
    /\ active = Cardinality(Handled)
    /\ \A o \in Outcomes : counter[o] = Cardinality(Decided(o))
    /\ hits = counter["rate_limit"] + Cardinality(Refusing)

Typed == HandlersOK /\ CountersOK /\ FailuresOK /\ HistoryOK

LEMMA LivesStep ==
    ASSUME Typed, Lives, [Next]_vars
    PROVE  Lives'
<1> USE DEF Typed, HandlersOK, FailuresOK, HistoryOK, Lives, InHandler
<1>1. ASSUME NEW r \in Requests, Arrive(r) PROVE Lives'
  BY <1>1 DEF Arrive, At, Goto, world
<1>2. ASSUME NEW r \in Requests, Refuse(r) PROVE Lives'
  BY <1>2 DEF Refuse, At, Goto, Decide, world, history
<1>3. ASSUME NEW r \in Requests, Validate(r) PROVE Lives'
  BY <1>3 DEF Validate, At, Goto, world, history
<1>4. ASSUME NEW r \in Requests, Ping(r) PROVE Lives'
  BY <1>4 DEF Ping, world, history
<1>5. ASSUME NEW r \in Requests, Pass(r) \/ Limit(r) PROVE Lives'
  BY <1>5 DEF Pass, Limit, At, Goto, world, history
<1>6. ASSUME NEW r \in Requests, Reject(r) PROVE Lives'
  BY <1>6 DEF Reject, AfterLimit, At, Goto, Decide, world, history
<1>7. ASSUME NEW r \in Requests, Produce(r) PROVE Lives'
  BY <1>7 DEF Produce, At, Goto, world, history
<1>8. ASSUME NEW r \in Requests, ProduceError(r) PROVE Lives'
  BY <1>8 DEF ProduceError, At, Goto, Decide, world, history
<1>9. ASSUME NEW r \in Requests, Accept(r) PROVE Lives'
  BY <1>9 DEF Accept, At, Goto, Decide, world, history
<1>10. ASSUME NEW r \in Requests, Return(r) PROVE Lives'
  BY <1>10 DEF Return, At, Goto, world, history
<1>11. CASE Crash
  <2>1. /\ \A r \in Requests : stage'[r] \notin InHandler
        /\ born' = born /\ crashes' = crashes + 1
    BY <1>11 DEF Crash, history
  <2> QED
    BY <2>1
<1>12. ASSUME NEW p \in Partitions, Write(p) PROVE Lives'
  BY <1>12 DEF Write, CutBatch, Store, AttemptFails, world, history
<1>13. CASE BrokerFails \/ BrokerRecovers \/ Restart \/ UNCHANGED vars
  BY <1>13 DEF BrokerFails, BrokerRecovers, Restart, vars, world, history
<1> QED
  BY <1>1, <1>2, <1>3, <1>4, <1>5, <1>6, <1>7, <1>8, <1>9, <1>10, <1>11, <1>12, <1>13
  DEF Next, Body, Handle

(* Everything counted is finite, and counts as expected.                   *)
LEMMA OneMore ==
    ASSUME NEW S, IsFiniteSet(S), NEW x, x \notin S
    PROVE  Cardinality(S \cup {x}) = Cardinality(S) + 1
  BY FS_AddElement

LEMMA OneLess ==
    ASSUME NEW S, IsFiniteSet(S), NEW x \in S
    PROVE  Cardinality(S \ {x}) = Cardinality(S) - 1
  BY FS_RemoveElement

LEMMA Countable ==
    /\ IsFiniteSet(Handled) /\ IsFiniteSet(Refusing) /\ Cardinality(Refusing) \in Nat
    /\ \A o \in Outcomes : IsFiniteSet(Decided(o))
<1>1. /\ Handled \subseteq Requests /\ Refusing \subseteq Requests
      /\ \A o \in Outcomes : Decided(o) \subseteq Requests
  BY DEF Handled, Refusing, Decided, Current
<1>2. IsFiniteSet(Refusing)
  BY <1>1, IngestAssumption, FS_Subset
<1>3. Cardinality(Refusing) \in Nat
  BY <1>2, FS_CardinalityType
<1> QED
  BY <1>1, <1>2, <1>3, IngestAssumption, FS_Subset

(* The kinds of step: a decision, which counts its request; an arrival or  *)
(* a return, which moves the gauge; a call over the limit, which counts    *)
(* the first of two metrics; and those that leave all as they are.         *)
LEMMA DecisionCounts ==
    ASSUME Typed, Silent, Lives,
           NEW r \in Requests, stage[r] \in {"reading", "refusing", "producing", "counting"},
           NEW o \in Outcomes, Decide(r, o),
           UNCHANGED <<born, crashes>>
    PROVE  /\ Handled' = Handled /\ Refusing' = Refusing \ {r}
           /\ Decided(o)' = Decided(o) \cup {r} /\ r \notin Decided(o)
           /\ \A n \in Outcomes \ {o} : Decided(n)' = Decided(n)
           /\ counter' = [counter EXCEPT ![o] = counter[o] + 1]
<1>1. /\ outcome' = [outcome EXCEPT ![r] = o]
      /\ stage' = [stage EXCEPT ![r] = "returning"]
      /\ counter' = [counter EXCEPT ![o] = counter[o] + 1]
  BY DEF Decide, Goto
<1>2. outcome[r] = "none" /\ "none" \notin Outcomes
  BY DEF Silent, Undecided, Outcomes, Reasons
<1>3. Handled' = Handled /\ Refusing' = Refusing \ {r}
  BY <1>1 DEF Handled, Refusing, InHandler, Typed, HandlersOK
<1>4. Current' = Current /\ r \in Current
  BY <1>1 DEF Current, Lives, InHandler, Typed, HandlersOK
<1>5. \A q \in Requests : outcome'[q] = IF q = r THEN o ELSE outcome[q]
  BY <1>1 DEF Typed, HandlersOK
<1>6. Decided(o)' = Decided(o) \cup {r} /\ r \notin Decided(o)
  BY <1>2, <1>4, <1>5 DEF Decided, Current
<1>7. \A n \in Outcomes \ {o} : Decided(n)' = Decided(n)
  BY <1>2, <1>4, <1>5 DEF Decided, Current
<1> QED
  BY <1>1, <1>3, <1>6, <1>7

LEMMA DecisionBalances ==
    ASSUME Typed, Silent, Lives, Balance,
           NEW r \in Requests, stage[r] \in {"reading", "refusing", "producing", "counting"},
           NEW o \in Outcomes, Decide(r, o),
           UNCHANGED <<born, crashes, active, hits>>,
           o = "rate_limit" <=> stage[r] = "refusing"
    PROVE  Balance'
<1>1. /\ Handled' = Handled /\ Refusing' = Refusing \ {r}
      /\ Decided(o)' = Decided(o) \cup {r} /\ r \notin Decided(o)
      /\ \A n \in Outcomes \ {o} : Decided(n)' = Decided(n)
      /\ counter' = [counter EXCEPT ![o] = counter[o] + 1]
  BY DecisionCounts
<1>2. Cardinality(Decided(o)') = Cardinality(Decided(o)) + 1
  BY <1>1, Countable, OneMore
<1>3. counter \in [Outcomes -> Nat]
  BY DEF Typed, CountersOK
<1>4. \A n \in Outcomes : counter'[n] = Cardinality(Decided(n)')
  <2>1. ASSUME NEW n \in Outcomes \ {o} PROVE counter'[n] = Cardinality(Decided(n)')
    BY <1>1, <1>3 DEF Balance
  <2>2. counter'[o] = Cardinality(Decided(o)')
    BY <1>1, <1>2, <1>3 DEF Balance
  <2> QED
    BY <2>1, <2>2
<1>5. hits' = counter'["rate_limit"] + Cardinality(Refusing')
  <2>1. "rate_limit" \in Outcomes /\ Cardinality(Refusing) \in Nat
    BY Countable DEF Outcomes, Reasons
  <2>2. CASE o = "rate_limit"
    <3>1. r \in Refusing
      BY <2>2 DEF Refusing
    <3>2. Cardinality(Refusing') = Cardinality(Refusing) - 1
      BY <1>1, <3>1, Countable, OneLess
    <3>3. counter'["rate_limit"] = counter["rate_limit"] + 1
      BY <1>1, <1>3, <2>1, <2>2
    <3> QED
      BY <1>3, <2>1, <3>2, <3>3 DEF Balance
  <2>3. CASE o # "rate_limit"
    <3>1. Refusing' = Refusing
      BY <1>1, <2>3 DEF Refusing
    <3>2. counter'["rate_limit"] = counter["rate_limit"]
      BY <1>1, <1>3, <2>1, <2>3
    <3> QED
      BY <3>1, <3>2 DEF Balance
  <2> QED
    BY <2>2, <2>3
<1>6. active' = Cardinality(Handled')
  BY <1>1 DEF Balance
<1> QED
  BY <1>4, <1>5, <1>6 DEF Balance

LEMMA QuietBalances ==
    ASSUME Balance, Handled' = Handled, Refusing' = Refusing, \A o \in Outcomes : Decided(o)' = Decided(o),
           UNCHANGED metrics
    PROVE  Balance'
  BY DEF Balance, metrics

LEMMA BalanceStep ==
    ASSUME Typed, Silent, Lives, Balance, [Next]_vars
    PROVE  Balance'
<1> USE DEF Typed, HandlersOK
<1>1. ASSUME NEW r \in Requests, Arrive(r) PROVE Balance'
  <2>1. /\ stage[r] = "new" /\ stage' = [stage EXCEPT ![r] = "reading"]
        /\ active' = active + 1 /\ UNCHANGED <<outcome, counter, hits, crashes>>
        /\ born' = [born EXCEPT ![r] = crashes]
    BY <1>1 DEF Arrive, At, Goto, world
  <2>2. outcome[r] = "none" /\ "none" \notin Outcomes
    BY <2>1 DEF Silent, Undecided, Outcomes, Reasons
  <2>3. Handled' = Handled \cup {r} /\ r \notin Handled /\ Refusing' = Refusing
    BY <2>1 DEF Handled, Refusing, InHandler
  <2>4. \A o \in Outcomes : Decided(o)' = Decided(o)
    BY <2>1, <2>2 DEF Decided, Current, HistoryOK
  <2>5. Cardinality(Handled') = Cardinality(Handled) + 1
    BY <2>3, Countable, OneMore
  <2> QED
    BY <2>1, <2>3, <2>4, <2>5 DEF Balance
<1>2. ASSUME NEW r \in Requests, Refuse(r) PROVE Balance'
  <2>1. PICK o \in {"bad_request", "missing_user_id"} : Decide(r, o)
    BY <1>2 DEF Refuse
  <2>2. stage[r] = "reading" /\ UNCHANGED <<born, crashes, active, hits>>
    BY <1>2 DEF Refuse, At, world, history
  <2>3. o \in Outcomes /\ o # "rate_limit"
    BY DEF Outcomes, Reasons
  <2> QED
    BY <2>1, <2>2, <2>3, DecisionBalances
<1>3. ASSUME NEW r \in Requests, Reject(r) PROVE Balance'
  <2>1. /\ stage[r] = "refusing" /\ UNCHANGED <<born, crashes, active, hits>>
        /\ Decide(r, "rate_limit")
    BY <1>3 DEF Reject, AfterLimit, At, world, history
  <2>2. "rate_limit" \in Outcomes
    BY DEF Outcomes, Reasons
  <2> QED
    BY <2>1, <2>2, DecisionBalances
<1>4. ASSUME NEW r \in Requests, ProduceError(r) PROVE Balance'
  <2>1. /\ stage[r] = "producing" /\ UNCHANGED <<born, crashes, active, hits>>
        /\ Decide(r, "kafka_error")
    BY <1>4 DEF ProduceError, At, world, history
  <2>2. "kafka_error" \in Outcomes /\ "kafka_error" # "rate_limit"
    BY DEF Outcomes, Reasons
  <2> QED
    BY <2>1, <2>2, DecisionBalances
<1>5. ASSUME NEW r \in Requests, Accept(r) PROVE Balance'
  <2>1. /\ stage[r] = "counting" /\ UNCHANGED <<born, crashes, active, hits>>
        /\ Decide(r, "accepted")
    BY <1>5 DEF Accept, At, world, history
  <2>2. "accepted" \in Outcomes /\ "accepted" # "rate_limit"
    BY DEF Outcomes
  <2> QED
    BY <2>1, <2>2, DecisionBalances
<1>6. ASSUME NEW r \in Requests, Return(r) PROVE Balance'
  <2>1. /\ stage[r] = "returning" /\ stage' = [stage EXCEPT ![r] = "answered"]
        /\ active' = active - 1 /\ UNCHANGED <<outcome, counter, hits, crashes, born>>
    BY <1>6 DEF Return, ActiveAfter, At, Goto, world, history
  <2>2. Handled' = Handled \ {r} /\ r \in Handled /\ Refusing' = Refusing
    BY <2>1 DEF Handled, Refusing, InHandler
  <2>3. \A o \in Outcomes : Decided(o)' = Decided(o)
    BY <2>1 DEF Decided, Current
  <2>4. Cardinality(Handled') = Cardinality(Handled) - 1
    BY <2>2, Countable, OneLess
  <2> QED
    BY <2>1, <2>2, <2>3, <2>4 DEF Balance
<1>7. ASSUME NEW r \in Requests, Validate(r) \/ Pass(r) \/ Produce(r) PROVE Balance'
  <2>1. /\ stage[r] \in {"reading", "limiting", "producing"}
        /\ \E s \in {"limiting", "producing", "counting"} : stage' = [stage EXCEPT ![r] = s]
        /\ UNCHANGED <<outcome, metrics, crashes, born>>
    BY <1>7 DEF Validate, Pass, Produce, At, Goto, world, history
  <2>2. /\ Handled' = Handled /\ Refusing' = Refusing
        /\ \A o \in Outcomes : Decided(o)' = Decided(o)
    BY <2>1 DEF Handled, Refusing, InHandler, Decided, Current
  <2> QED
    BY <2>1, <2>2, QuietBalances
<1>8. ASSUME NEW r \in Requests, Ping(r) PROVE Balance'
  <2>1. UNCHANGED <<stage, outcome, metrics, crashes, born>>
    BY <1>8 DEF Ping, world, history
  <2> QED
    BY <2>1, QuietBalances DEF Handled, Refusing, Decided, Current
<1>9. ASSUME NEW p \in Partitions, Write(p) PROVE Balance'
  <2>1. UNCHANGED <<stage, outcome, metrics, crashes, born>>
    BY <1>9 DEF Write, CutBatch, Store, AttemptFails, world, history
  <2> QED
    BY <2>1, QuietBalances DEF Handled, Refusing, Decided, Current
<1>10. CASE BrokerFails \/ BrokerRecovers \/ Restart \/ UNCHANGED vars
  <2>1. UNCHANGED <<stage, outcome, metrics, crashes, born>>
    BY <1>10 DEF BrokerFails, BrokerRecovers, Restart, vars, metrics, history
  <2> QED
    BY <2>1, QuietBalances DEF Handled, Refusing, Decided, Current
<1>11. CASE Crash
  <2>1. /\ \A r \in Requests : stage'[r] \notin InHandler
        /\ born' = born /\ crashes' = crashes + 1
        /\ active' = 0 /\ hits' = 0 /\ counter' = [o \in Outcomes |-> 0]
    BY <1>11 DEF Crash, history, InHandler
  <2>2. Handled' = {} /\ Refusing' = {}
    BY <2>1 DEF Handled, Refusing, InHandler
  <2>3. \A r \in Requests : born'[r] # crashes'
    BY <2>1 DEF Lives, HistoryOK, FailuresOK
  <2>4. \A o \in Outcomes : Decided(o)' = {}
    BY <2>3 DEF Decided, Current
  <2>5. Cardinality({}) = 0
    BY FS_EmptySet
  <2>6. \A o \in Outcomes : counter'[o] = Cardinality(Decided(o)')
    BY <2>1, <2>4, <2>5
  <2>7. hits' = counter'["rate_limit"] + Cardinality(Refusing')
    BY <2>1, <2>2, <2>5 DEF Outcomes, Reasons
  <2>8. active' = Cardinality(Handled')
    BY <2>1, <2>2, <2>5
  <2> QED
    BY <2>6, <2>7, <2>8 DEF Balance
<1>12. ASSUME NEW r \in Requests, Limit(r) PROVE Balance'
  <2>1. /\ stage[r] = "limiting" /\ stage' = [stage EXCEPT ![r] = "refusing"]
        /\ hits' = hits + 1 /\ UNCHANGED <<active, outcome, counter, crashes, born>>
    BY <1>12 DEF Limit, At, Goto, world, history
  <2>2. Refusing' = Refusing \cup {r} /\ r \notin Refusing /\ Handled' = Handled
    BY <2>1 DEF Handled, Refusing, InHandler
  <2>3. \A o \in Outcomes : Decided(o)' = Decided(o)
    BY <2>1 DEF Decided, Current
  <2>4. Cardinality(Refusing') = Cardinality(Refusing) + 1
    BY <2>2, Countable, OneMore
  <2>5. counter["rate_limit"] \in Nat /\ Cardinality(Refusing) \in Nat
    BY Countable DEF CountersOK, Outcomes, Reasons
  <2>6. hits' = counter'["rate_limit"] + Cardinality(Refusing')
    BY <2>1, <2>4, <2>5 DEF Balance
  <2> QED
    BY <2>1, <2>2, <2>3, <2>6 DEF Balance
<1> QED
  BY <1>1, <1>2, <1>3, <1>4, <1>5, <1>6, <1>7, <1>8, <1>9, <1>10, <1>11, <1>12
  DEF Next, Body, Handle

MetricsInvariant == Typed /\ Silent /\ Lives /\ Balance

LEMMA MetricsInvariantHolds == Spec => []MetricsInvariant
<1>1. Init => MetricsInvariant
  <2> SUFFICES ASSUME Init PROVE MetricsInvariant
    OBVIOUS
  <2> USE IngestAssumption DEF Init
  <2>1. HandlersOK
    BY DEF HandlersOK
  <2>2. CountersOK /\ FailuresOK
    BY DEF CountersOK, FailuresOK
  <2>3. HistoryOK /\ Lives /\ Silent
    BY DEF HistoryOK, Lives, Silent, InHandler
  <2>4. Handled = {} /\ Refusing = {} /\ \A o \in Outcomes : Decided(o) = {}
    BY DEF Handled, Refusing, Decided, Current, InHandler
  <2>5. Cardinality({}) = 0 /\ "rate_limit" \in Outcomes
    BY FS_EmptySet DEF Outcomes, Reasons
  <2>6. /\ \A o \in Outcomes : counter[o] = 0
        /\ active = 0 /\ hits = 0
    OBVIOUS
  <2> HIDE DEF Init
  <2>7. Balance
    BY <2>4, <2>5, <2>6 DEF Balance
  <2> QED
    BY <2>1, <2>2, <2>3, <2>7 DEF MetricsInvariant, Typed
<1>2. MetricsInvariant /\ [Next]_vars => MetricsInvariant'
  BY HandlersStep, CountersStep, FailuresStep, HistoryStep, SilentStep, LivesStep, BalanceStep
  DEF MetricsInvariant, Typed
<1> QED
  BY <1>1, <1>2, PTL DEF Spec

(* Whatever interleaves, the gauge and the counters say what has happened, *)
(* up to the handlers between the two metrics of a call over the limit.    *)
THEOREM MetricsAreBalanced == Spec => []MetricsBalance
<1>1. MetricsInvariant => MetricsBalance
  BY DEF MetricsInvariant, Balance, MetricsBalance, Handled, Decided, Refusing, At
<1> QED
  BY <1>1, MetricsInvariantHolds, PTL

(* Every variable keeps its type; the gauge does not go below 0, because   *)
(* it is the number of handlers.                                           *)
THEOREM IngestTypeCorrect == Spec => []TypeOK
<1>1. Init => WriterOK
  BY WriterStarts
<1>2. WriterOK /\ [Next]_vars => WriterOK'
  BY WriterStep
<1>3. Init => PowersOK
  BY Zenon DEF Init, PowersOK
<1>4. PowersOK /\ [Next]_vars => PowersOK'
  BY PowersStep
<1>5. MetricsInvariant /\ WriterOK /\ PowersOK => TypeOK
  <2> SUFFICES ASSUME MetricsInvariant, WriterOK, PowersOK PROVE TypeOK
    OBVIOUS
  <2>1. active \in Nat
    BY Countable, FS_CardinalityType DEF MetricsInvariant, Balance
  <2> QED
    BY <2>1, Zenon DEF MetricsInvariant, Typed, HandlersOK, CountersOK, FailuresOK,
                       HistoryOK, WriterOK, PowersOK, TypeOK
<1> QED
  BY <1>1, <1>2, <1>3, <1>4, <1>5, MetricsInvariantHolds, PTL DEF Spec

-----------------------------------------------------------------------------
(* Refused events.  A partition knows the events its topic, its batch and  *)
(* its queue hold; only Produce tells it of one, when that is past the     *)
(* refusals.                                                               *)
Known(p) == ToSet(topic[p]) \cup ToSet(batch[p]) \cup ToSet(queue[p])

KnownPast ==
    \A p \in Partitions : \A r \in Known(p) : stage[r] \notin Early /\ outcome[r] \notin Reasons

LEMMA SequencesOfWriter ==
    ASSUME WriterOK, NEW p \in Partitions
    PROVE  topic[p] \in Seq(Requests) /\ batch[p] \in Seq(Requests) /\ queue[p] \in Seq(Requests)
<1>1. batch[p] \in BoundedSeq(Requests, BatchSize) /\ BatchSize \in Nat
  BY IngestAssumption DEF WriterOK
<1>2. batch[p] \in Seq(Requests)
  BY <1>1, BatchIsSeq
<1> QED
  BY <1>2 DEF WriterOK

LEMMA KnownRequests ==
    ASSUME WriterOK, NEW p \in Partitions
    PROVE  Known(p) \subseteq Requests
<1>1. ASSUME NEW s \in Seq(Requests) PROVE ToSet(s) \subseteq Requests
  BY DEF ToSet
<1> QED
  BY <1>1, SequencesOfWriter DEF Known

LEMMA ProduceTells ==
    ASSUME WriterOK, NEW r \in Requests, Produce(r), NEW p \in Partitions
    PROVE  Known(p)' = IF p = PartitionOf[r] THEN Known(p) \cup {r} ELSE Known(p)
<1>1. /\ queue' = [queue EXCEPT ![PartitionOf[r]] = Append(queue[PartitionOf[r]], r)]
      /\ topic' = topic /\ batch' = batch
  BY DEF Produce
<1>2. PartitionOf[r] \in Partitions
  BY IngestAssumption
<1>3. ToSet(Append(queue[PartitionOf[r]], r)) = ToSet(queue[PartitionOf[r]]) \cup {r}
  BY <1>2, SequencesOfWriter, AppendSet
<1>4. CASE p = PartitionOf[r]
  <2>1. queue'[p] = Append(queue[PartitionOf[r]], r)
    BY <1>1, <1>4 DEF WriterOK
  <2> QED
    BY <1>1, <1>3, <1>4, <2>1 DEF Known
<1>5. CASE p # PartitionOf[r]
  <2>1. queue'[p] = queue[p]
    BY <1>1, <1>5 DEF WriterOK
  <2> QED
    BY <1>1, <1>5, <2>1 DEF Known
<1> QED
  BY <1>4, <1>5

LEMMA OthersTellNothing ==
    ASSUME WriterOK, [Next]_vars, NEW p \in Partitions,
           \A r \in Requests : ~Produce(r)
    PROVE  Known(p)' \subseteq Known(p)
<1> USE DEF Known
<1>1. ASSUME NEW o \in Partitions, CutBatch(o) PROVE Known(p)' \subseteq Known(p)
  <2>1. PICK n \in 1 .. Len(queue[o]) :
           /\ batch' = [batch EXCEPT ![o] = SubSeq(queue[o], 1, n)]
           /\ queue' = [queue EXCEPT ![o] = SubSeq(queue[o], n + 1, Len(queue[o]))]
           /\ topic' = topic
    BY <1>1 DEF CutBatch
  <2>2. /\ ToSet(SubSeq(queue[o], 1, n)) \subseteq ToSet(queue[o])
        /\ ToSet(SubSeq(queue[o], n + 1, Len(queue[o]))) \subseteq ToSet(queue[o])
    BY SequencesOfWriter, SubSets
  <2>3. CASE p = o
    <3>1. /\ batch'[p] = SubSeq(queue[o], 1, n)
          /\ queue'[p] = SubSeq(queue[o], n + 1, Len(queue[o]))
      BY <2>1, <2>3 DEF WriterOK
    <3> QED
      BY <2>1, <2>2, <2>3, <3>1
  <2>4. CASE p # o
    <3>1. batch'[p] = batch[p] /\ queue'[p] = queue[p]
      BY <2>1, <2>4 DEF WriterOK
    <3> QED
      BY <2>1, <3>1
  <2> QED
    BY <2>3, <2>4
<1>2. ASSUME NEW o \in Partitions, Store(o) PROVE Known(p)' \subseteq Known(p)
  <2>1. /\ batch' = [batch EXCEPT ![o] = <<>>] /\ queue' = queue
        /\ topic' = [topic EXCEPT ![o] = topic[o] \o batch[o]] \/ topic' = topic
    BY <1>2 DEF Store, Stored, DoneWith
  <2>2. ToSet(topic[o] \o batch[o]) = ToSet(topic[o]) \cup ToSet(batch[o])
    BY SequencesOfWriter, ConcatSet
  <2>3. ToSet(<<>>) = {}
    BY EmptySet
  <2>4. CASE p = o
    <3>1. /\ batch'[p] = <<>> /\ queue'[p] = queue[p]
          /\ topic'[p] = topic[o] \o batch[o] \/ topic'[p] = topic[p]
      BY <2>1, <2>4 DEF WriterOK
    <3> QED
      BY <2>2, <2>3, <2>4, <3>1
  <2>5. CASE p # o
    <3>1. batch'[p] = batch[p] /\ queue'[p] = queue[p] /\ topic'[p] = topic[p]
      BY <2>1, <2>5 DEF WriterOK
    <3> QED
      BY <3>1
  <2> QED
    BY <2>4, <2>5
<1>3. ASSUME NEW o \in Partitions, AttemptFails(o) PROVE Known(p)' \subseteq Known(p)
  <2>1. /\ batch' = [batch EXCEPT ![o] = <<>>] \/ batch' = batch
        /\ queue' = queue /\ topic' = topic
    BY <1>3 DEF AttemptFails, DoneWith, Dropped
  <2>2. batch'[p] = <<>> \/ batch'[p] = batch[p]
    BY <2>1 DEF WriterOK
  <2>3. ToSet(<<>>) = {}
    BY EmptySet
  <2> QED
    BY <2>1, <2>2, <2>3
<1>4. CASE Crash
  <2>1. batch'[p] = <<>> /\ queue'[p] = <<>> /\ topic' = topic
    BY <1>4 DEF Crash
  <2>2. ToSet(<<>>) = {}
    BY EmptySet
  <2> QED
    BY <2>1, <2>2
<1>5. ASSUME NEW r \in Requests,
             \/ Arrive(r) \/ Refuse(r) \/ Validate(r) \/ Pass(r) \/ Limit(r)
             \/ Reject(r) \/ ProduceError(r) \/ Accept(r) \/ Return(r) \/ Ping(r)
      PROVE  Known(p)' \subseteq Known(p)
  <2>1. UNCHANGED <<topic, batch, queue>>
    BY <1>5 DEF Arrive, Refuse, Validate, Pass, Limit, Reject, ProduceError, Accept, Return, Ping, writer
  <2> QED
    BY <2>1
<1>6. CASE BrokerFails \/ BrokerRecovers \/ Restart \/ UNCHANGED vars
  <2>1. UNCHANGED <<topic, batch, queue>>
    BY <1>6 DEF BrokerFails, BrokerRecovers, Restart, vars, writer
  <2> QED
    BY <2>1
<1> QED
  BY <1>1, <1>2, <1>3, <1>4, <1>5, <1>6 DEF Next, Body, Handle, Write

LEMMA KnownPastStep ==
    ASSUME HandlersOK, WriterOK, Silent, KnownPast, [Next]_vars
    PROVE  KnownPast'
<1> SUFFICES ASSUME NEW p \in Partitions, NEW q \in Known(p)'
             PROVE  stage'[q] \notin Early /\ outcome'[q] \notin Reasons
  BY DEF KnownPast
<1>1. CASE q \in Known(p)
  <2>1. q \in Requests /\ stage[q] \notin Early /\ outcome[q] \notin Reasons
    BY <1>1, KnownRequests DEF KnownPast
  <2>2. Moves(q)
    BY <2>1, HandlersMove
  <2> QED
    BY <2>1, <2>2 DEF Moves
<1>2. ASSUME NEW r \in Requests, Produce(r), q \notin Known(p)
      PROVE  stage'[q] \notin Early /\ outcome'[q] \notin Reasons
  <2>1. q = r
    BY <1>2, ProduceTells
  <2>2. stage[r] = "producing" /\ stage'[r] = "counting" /\ outcome' = outcome
    BY <1>2 DEF Produce, At, Goto, HandlersOK
  <2>3. outcome[r] = "none"
    BY <2>2 DEF Silent, Undecided
  <2> QED
    BY <2>1, <2>2, <2>3 DEF Early, Reasons
<1>3. CASE \A r \in Requests : ~Produce(r)
  BY <1>1, <1>3, OthersTellNothing
<1> QED
  BY <1>1, <1>2, <1>3

RefusedInvariant == HandlersOK /\ WriterOK /\ Silent /\ KnownPast

LEMMA RefusedInvariantHolds == Spec => []RefusedInvariant
<1>1. Init => RefusedInvariant
  <2> SUFFICES ASSUME Init PROVE RefusedInvariant
    OBVIOUS
  <2>1. HandlersOK /\ Silent
    BY DEF Init, HandlersOK, Silent
  <2>2. WriterOK
    BY WriterStarts
  <2>3. \A p \in Partitions : Known(p) = {}
    BY EmptySet DEF Init, Known
  <2> QED
    BY <2>1, <2>2, <2>3 DEF RefusedInvariant, KnownPast
<1>2. RefusedInvariant /\ [Next]_vars => RefusedInvariant'
  BY HandlersStep, WriterStep, SilentStep, KnownPastStep DEF RefusedInvariant
<1> QED
  BY <1>1, <1>2, PTL DEF Spec

(* An event that was refused is neither in Kafka nor on its way there.     *)
THEOREM RefusedNeverStored == Spec => []RefusedStaysOut
<1>1. RefusedInvariant => RefusedStaysOut
  <2> SUFFICES ASSUME RefusedInvariant, NEW r \in Requests, outcome[r] \in Reasons
               PROVE  ~Published(r) /\ ~Buffered(r)
    BY DEF RefusedStaysOut
  <2>1. r \notin Known(PartitionOf[r])
    BY IngestAssumption DEF RefusedInvariant, KnownPast
  <2> QED
    BY <2>1 DEF Known, Published, Buffered
<1> QED
  BY <1>1, RefusedInvariantHolds, PTL

-----------------------------------------------------------------------------
(* Order.  Events a and b fit, in that order, unless they are one event or *)
(* b was answered before a was sent.  What a partition has stored, is      *)
(* sending and has queued is one line in which all events fit: the writer  *)
(* takes pieces out of it and appends to its end, and moves nothing.       *)
Fit(e, a, b) == a # b /\ b \notin e[a]

Chain(e, s) == \A i, j \in 1 .. Len(s) : i < j => Fit(e, s[i], s[j])

Ahead(e, s, t) == \A a \in ToSet(s), b \in ToSet(t) : Fit(e, a, b)

Line(e, t, b, q) ==
    /\ Chain(e, t) /\ Chain(e, b) /\ Chain(e, q)
    /\ Ahead(e, t, b) /\ Ahead(e, t, q) /\ Ahead(e, b, q)

LEMMA ElementInSet ==
    ASSUME NEW S, NEW s \in Seq(S), NEW i \in 1 .. Len(s)
    PROVE  s[i] \in ToSet(s)
  BY DEF ToSet

LEMMA ChainAppend ==
    ASSUME NEW S, NEW e, NEW s \in Seq(S), NEW x \in S,
           Chain(e, s), \A a \in ToSet(s) : Fit(e, a, x)
    PROVE  Chain(e, Append(s, x))
<1> DEFINE t == Append(s, x)
<1>1. /\ Len(t) = Len(s) + 1 /\ Len(s) \in Nat
      /\ \A i \in 1 .. Len(s) : t[i] = s[i]
      /\ t[Len(s) + 1] = x
  OBVIOUS
<1> SUFFICES ASSUME NEW i \in 1 .. Len(t), NEW j \in 1 .. Len(t), i < j
             PROVE  Fit(e, t[i], t[j])
  BY DEF Chain
<1> HIDE DEF t
<1>2. CASE j = Len(s) + 1
  <2>1. i \in 1 .. Len(s)
    BY <1>1, <1>2
  <2>2. t[i] = s[i] /\ t[j] = x /\ s[i] \in ToSet(s)
    BY <1>1, <1>2, <2>1, ElementInSet
  <2> QED
    BY <2>2
<1>3. CASE j # Len(s) + 1
  <2>1. i \in 1 .. Len(s) /\ j \in 1 .. Len(s)
    BY <1>1, <1>3
  <2>2. t[i] = s[i] /\ t[j] = s[j]
    BY <1>1, <2>1
  <2> QED
    BY <2>1, <2>2 DEF Chain
<1> QED
  BY <1>2, <1>3

LEMMA ChainConcat ==
    ASSUME NEW S, NEW e, NEW s \in Seq(S), NEW t \in Seq(S),
           Chain(e, s), Chain(e, t), Ahead(e, s, t)
    PROVE  Chain(e, s \o t)
<1> DEFINE u == s \o t
<1>1. /\ Len(u) = Len(s) + Len(t) /\ Len(s) \in Nat /\ Len(t) \in Nat
      /\ \A i \in 1 .. Len(s) : u[i] = s[i]
      /\ \A i \in 1 .. Len(t) : u[Len(s) + i] = t[i]
  OBVIOUS
<1> SUFFICES ASSUME NEW i \in 1 .. Len(u), NEW j \in 1 .. Len(u), i < j
             PROVE  Fit(e, u[i], u[j])
  BY DEF Chain
<1> HIDE DEF u
<1>2. \A k \in 1 .. Len(u) : k > Len(s) => k - Len(s) \in 1 .. Len(t) /\ u[k] = t[k - Len(s)]
  <2> SUFFICES ASSUME NEW k \in 1 .. Len(u), k > Len(s)
               PROVE  k - Len(s) \in 1 .. Len(t) /\ u[k] = t[k - Len(s)]
    OBVIOUS
  <2>1. k - Len(s) \in 1 .. Len(t) /\ k = Len(s) + (k - Len(s))
    BY <1>1
  <2> QED
    BY <1>1, <2>1
<1>3. CASE j <= Len(s)
  <2>1. i \in 1 .. Len(s) /\ j \in 1 .. Len(s)
    BY <1>1, <1>3
  <2>2. u[i] = s[i] /\ u[j] = s[j]
    BY <1>1, <2>1
  <2> QED
    BY <2>1, <2>2 DEF Chain
<1>4. CASE i <= Len(s) /\ j > Len(s)
  <2>1. i \in 1 .. Len(s) /\ j - Len(s) \in 1 .. Len(t) /\ u[j] = t[j - Len(s)]
    BY <1>1, <1>2, <1>4
  <2>2. u[i] \in ToSet(s) /\ u[j] \in ToSet(t)
    BY <1>1, <2>1, ElementInSet
  <2> QED
    BY <2>2 DEF Ahead
<1>5. CASE i > Len(s)
  <2>1. /\ i - Len(s) \in 1 .. Len(t) /\ u[i] = t[i - Len(s)]
        /\ j - Len(s) \in 1 .. Len(t) /\ u[j] = t[j - Len(s)]
    BY <1>1, <1>2, <1>5
  <2>2. i - Len(s) < j - Len(s)
    BY <1>1
  <2> QED
    BY <2>1, <2>2 DEF Chain
<1> QED
  BY <1>1, <1>3, <1>4, <1>5

LEMMA ChainCut ==
    ASSUME NEW S, NEW e, NEW s \in Seq(S), NEW n \in 1 .. Len(s), Chain(e, s)
    PROVE  LET a == SubSeq(s, 1, n)
               b == SubSeq(s, n + 1, Len(s))
           IN  Chain(e, a) /\ Chain(e, b) /\ Ahead(e, a, b)
<1> DEFINE a == SubSeq(s, 1, n)
           b == SubSeq(s, n + 1, Len(s))
<1>1. /\ a \in Seq(S) /\ Len(a) = n /\ \A i \in 1 .. n : a[i] = s[i]
      /\ b \in Seq(S) /\ Len(b) = Len(s) - n
      /\ \A i \in 1 .. Len(s) - n : b[i] = s[n + i]
  BY CutSets
<1>2. DOMAIN a = 1 .. n /\ DOMAIN b = 1 .. Len(s) - n
  BY <1>1
<1>3. /\ n \in Nat /\ Len(s) \in Nat
      /\ \A i \in 1 .. n : i \in 1 .. Len(s)
      /\ \A i \in 1 .. Len(s) - n : n + i \in 1 .. Len(s)
      /\ \A i \in 1 .. n : \A j \in 1 .. Len(s) - n : i < n + j
      /\ \A i, j \in 1 .. Len(s) - n : i < j => n + i < n + j
  OBVIOUS
<1> HIDE DEF a, b
<1>4. Chain(e, a)
  <2> SUFFICES ASSUME NEW i \in 1 .. n, NEW j \in 1 .. n, i < j
               PROVE  Fit(e, a[i], a[j])
    BY <1>1 DEF Chain
  <2>1. a[i] = s[i] /\ a[j] = s[j] /\ i \in 1 .. Len(s) /\ j \in 1 .. Len(s)
    BY <1>1, <1>3
  <2> QED
    BY <2>1 DEF Chain
<1>5. Chain(e, b)
  <2> SUFFICES ASSUME NEW i \in 1 .. Len(s) - n, NEW j \in 1 .. Len(s) - n, i < j
               PROVE  Fit(e, b[i], b[j])
    BY <1>1 DEF Chain
  <2>1. /\ b[i] = s[n + i] /\ b[j] = s[n + j]
        /\ n + i \in 1 .. Len(s) /\ n + j \in 1 .. Len(s) /\ n + i < n + j
    BY <1>1, <1>3
  <2> QED
    BY <2>1 DEF Chain
<1>6. Ahead(e, a, b)
  <2> SUFFICES ASSUME NEW i \in 1 .. n, NEW j \in 1 .. Len(s) - n
               PROVE  Fit(e, a[i], b[j])
    BY <1>2 DEF Ahead, ToSet
  <2>1. a[i] = s[i] /\ b[j] = s[n + j] /\ i < n + j /\ i \in 1 .. Len(s) /\ n + j \in 1 .. Len(s)
    BY <1>1, <1>3
  <2> QED
    BY <2>1 DEF Chain
<1> QED
  BY <1>4, <1>5, <1>6 DEF a, b

LEMMA EmptyChain ==
    ASSUME NEW e
    PROVE  Chain(e, <<>>) /\ ToSet(<<>>) = {}
  BY EmptySet DEF Chain

(* What the writer does to a line.                                         *)
LEMMA LineCut ==
    ASSUME NEW S, NEW e, NEW t \in Seq(S), NEW q \in Seq(S), NEW n \in 1 .. Len(q),
           Line(e, t, <<>>, q)
    PROVE  Line(e, t, SubSeq(q, 1, n), SubSeq(q, n + 1, Len(q)))
<1>1. /\ ToSet(SubSeq(q, 1, n)) \subseteq ToSet(q)
      /\ ToSet(SubSeq(q, n + 1, Len(q))) \subseteq ToSet(q)
  BY SubSets
<1>2. /\ Chain(e, SubSeq(q, 1, n)) /\ Chain(e, SubSeq(q, n + 1, Len(q)))
      /\ Ahead(e, SubSeq(q, 1, n), SubSeq(q, n + 1, Len(q)))
  BY ChainCut DEF Line
<1>3. Chain(e, t) /\ Ahead(e, t, q)
  BY DEF Line
<1>4. Ahead(e, t, SubSeq(q, 1, n)) /\ Ahead(e, t, SubSeq(q, n + 1, Len(q)))
  BY <1>1, <1>3 DEF Ahead
<1> QED
  BY <1>2, <1>3, <1>4 DEF Line

LEMMA LineStore ==
    ASSUME NEW S, NEW e, NEW t \in Seq(S), NEW b \in Seq(S), NEW q \in Seq(S), Line(e, t, b, q)
    PROVE  Line(e, t \o b, <<>>, q)
<1>1. Chain(e, t \o b)
  BY ChainConcat DEF Line
<1>2. ToSet(t \o b) = ToSet(t) \cup ToSet(b)
  BY ConcatSet
<1>3. Ahead(e, t \o b, q)
  BY <1>2 DEF Ahead, Line
<1>4. Chain(e, q)
  BY DEF Line
<1>5. Chain(e, <<>>) /\ Ahead(e, t \o b, <<>>) /\ Ahead(e, <<>>, q)
  BY EmptyChain DEF Ahead
<1> QED
  BY <1>1, <1>3, <1>4, <1>5 DEF Line

LEMMA LineDrop ==
    ASSUME NEW e, NEW t, NEW b, NEW q, Line(e, t, b, q)
    PROVE  Line(e, t, <<>>, q) /\ Line(e, t, <<>>, <<>>)
<1>1. /\ Chain(e, <<>>) /\ Ahead(e, t, <<>>) /\ Ahead(e, <<>>, q) /\ Ahead(e, <<>>, <<>>)
  BY EmptyChain DEF Ahead
<1> QED
  BY <1>1 DEF Line

LEMMA LineAppend ==
    ASSUME NEW S, NEW e, NEW t, NEW b, NEW q \in Seq(S), NEW x \in S, Line(e, t, b, q),
           \A a \in ToSet(t) \cup ToSet(b) \cup ToSet(q) : Fit(e, a, x)
    PROVE  Line(e, t, b, Append(q, x))
<1>1. Chain(e, Append(q, x))
  BY ChainAppend DEF Line
<1>2. ToSet(Append(q, x)) = ToSet(q) \cup {x}
  BY AppendSet
<1>3. Ahead(e, t, Append(q, x))
  BY <1>2 DEF Line, Ahead
<1>4. Ahead(e, b, Append(q, x))
  BY <1>2 DEF Line, Ahead
<1> QED
  BY <1>1, <1>3, <1>4 DEF Line

(* Only the history of events in the line matters.                         *)
LEMMA LineHistory ==
    ASSUME NEW S, NEW e, NEW f, NEW t \in Seq(S), NEW b \in Seq(S), NEW q \in Seq(S),
           Line(e, t, b, q),
           \A a \in ToSet(t) \cup ToSet(b) \cup ToSet(q) : f[a] = e[a]
    PROVE  Line(f, t, b, q)
<1>1. ASSUME NEW s \in Seq(S), Chain(e, s), \A a \in ToSet(s) : f[a] = e[a]
      PROVE  Chain(f, s)
  BY <1>1, ElementInSet DEF Chain, Fit
<1>2. Chain(f, t) /\ Chain(f, b) /\ Chain(f, q)
  BY <1>1 DEF Line
<1>3. Ahead(f, t, b) /\ Ahead(f, t, q) /\ Ahead(f, b, q)
  BY DEF Line, Ahead, Fit
<1> QED
  BY <1>2, <1>3 DEF Line

(* The history itself.                                                     *)
Past ==
    \A r \in Requests : r \notin earlier[r] /\ \A s \in earlier[r] : stage[s] = "answered"

(* Only an arrival writes the history.                                     *)
LEMMA OnlyArrivals ==
    ASSUME [Next]_vars
    PROVE  earlier' = earlier \/ \E r \in Requests : Arrive(r)
<1>1. ASSUME NEW r \in Requests, Body(r) \/ Handle(r) \/ Ping(r) PROVE earlier' = earlier
  BY <1>1 DEF Body, Handle, Ping, Refuse, Validate, Pass, Limit, Reject, Produce, ProduceError,
              Accept, Return, history
<1>2. ASSUME NEW p \in Partitions, Write(p) PROVE earlier' = earlier
  BY <1>2 DEF Write, CutBatch, Store, AttemptFails, history
<1>3. CASE BrokerFails \/ BrokerRecovers \/ Crash \/ Restart \/ UNCHANGED vars
  BY <1>3 DEF BrokerFails, BrokerRecovers, Crash, Restart, vars, history
<1> QED
  BY <1>1, <1>2, <1>3 DEF Next

LEMMA PastStep ==
    ASSUME HandlersOK, HistoryOK, Silent, Past, [Next]_vars
    PROVE  Past'
<1>1. ASSUME NEW s \in Requests, stage[s] = "answered" PROVE stage'[s] = "answered"
  BY <1>1, HandlersMove DEF Moves
<1>2. ASSUME NEW r \in Requests, Arrive(r) PROVE Past'
  <2>1. /\ stage[r] = "new"
        /\ earlier' = [earlier EXCEPT ![r] = {s \in Requests : stage[s] = "answered"}]
    BY <1>2 DEF Arrive, At
  <2> QED
    BY <1>1, <2>1 DEF Past, HistoryOK
<1>3. CASE earlier' = earlier
  BY <1>1, <1>3 DEF Past, HistoryOK
<1> QED
  BY <1>2, <1>3, OnlyArrivals

LinesOrdered == \A p \in Partitions : Line(earlier, topic[p], batch[p], queue[p])

LEMMA LinesStep ==
    ASSUME HandlersOK, HistoryOK, WriterOK, KnownPast, Past, LinesOrdered, [Next]_vars
    PROVE  LinesOrdered'
<1> SUFFICES ASSUME NEW p \in Partitions
             PROVE  Line(earlier', topic'[p], batch'[p], queue'[p])
  BY DEF LinesOrdered
<1> DEFINE Kept == Line(earlier', topic'[p], batch'[p], queue'[p])
<1>1. /\ Line(earlier, topic[p], batch[p], queue[p])
      /\ topic[p] \in Seq(Requests) /\ batch[p] \in Seq(Requests) /\ queue[p] \in Seq(Requests)
  BY SequencesOfWriter DEF LinesOrdered
<1>2. ASSUME NEW r \in Requests, Arrive(r) PROVE Kept
  <2>1. /\ stage[r] = "new" /\ UNCHANGED <<topic, batch, queue>>
        /\ earlier' = [earlier EXCEPT ![r] = {s \in Requests : stage[s] = "answered"}]
    BY <1>2 DEF Arrive, At, writer
  <2>2. r \notin Known(p) /\ Known(p) \subseteq Requests
    BY <2>1, KnownRequests DEF KnownPast, Early
  <2>3. \A a \in Known(p) : earlier'[a] = earlier[a]
    BY <2>1, <2>2 DEF HistoryOK
  <2>4. Line(earlier', topic[p], batch[p], queue[p])
    BY <1>1, <2>3, LineHistory DEF Known
  <2> QED
    BY <2>1, <2>4
<1>3. ASSUME NEW r \in Requests, Produce(r) PROVE Kept
  <2>1. /\ stage[r] = "producing" /\ UNCHANGED <<topic, batch, earlier>>
        /\ queue' = [queue EXCEPT ![PartitionOf[r]] = Append(queue[PartitionOf[r]], r)]
    BY <1>3 DEF Produce, At, history
  <2>2. CASE p = PartitionOf[r]
    <3>1. queue'[p] = Append(queue[p], r)
      BY <2>1, <2>2 DEF WriterOK
    <3>2. \A a \in Known(p) : Fit(earlier, a, r)
      BY <2>1, KnownRequests DEF KnownPast, Past, Fit, Early
    <3>3. Line(earlier, topic[p], batch[p], Append(queue[p], r))
      BY <1>1, <3>2, LineAppend DEF Known
    <3> QED
      BY <2>1, <3>1, <3>3
  <2>3. CASE p # PartitionOf[r]
    <3>1. queue'[p] = queue[p]
      BY <2>1, <2>3 DEF WriterOK
    <3> QED
      BY <1>1, <2>1, <3>1
  <2> QED
    BY <2>2, <2>3
<1>4. ASSUME NEW o \in Partitions, CutBatch(o) PROVE Kept
  <2>1. PICK n \in 1 .. Len(queue[o]) :
           /\ batch' = [batch EXCEPT ![o] = SubSeq(queue[o], 1, n)]
           /\ queue' = [queue EXCEPT ![o] = SubSeq(queue[o], n + 1, Len(queue[o]))]
           /\ batch[o] = <<>> /\ UNCHANGED <<topic, earlier>>
    BY <1>4 DEF CutBatch, history
  <2>2. CASE p = o
    <3>1. /\ batch'[p] = SubSeq(queue[p], 1, n)
          /\ queue'[p] = SubSeq(queue[p], n + 1, Len(queue[p]))
      BY <2>1, <2>2 DEF WriterOK
    <3>2. Line(earlier, topic[p], SubSeq(queue[p], 1, n), SubSeq(queue[p], n + 1, Len(queue[p])))
      BY <1>1, <2>1, <2>2, LineCut
    <3> QED
      BY <2>1, <3>1, <3>2
  <2>3. CASE p # o
    <3>1. batch'[p] = batch[p] /\ queue'[p] = queue[p]
      BY <2>1, <2>3 DEF WriterOK
    <3> QED
      BY <1>1, <2>1, <3>1
  <2> QED
    BY <2>2, <2>3
<1>5. ASSUME NEW o \in Partitions, Store(o) PROVE Kept
  <2>1. /\ batch' = [batch EXCEPT ![o] = <<>>] /\ UNCHANGED <<queue, earlier>>
        /\ topic' = [topic EXCEPT ![o] = topic[o] \o batch[o]] \/ topic' = topic
    BY <1>5 DEF Store, Stored, DoneWith, history
  <2>2. CASE p = o
    <3>1. /\ batch'[p] = <<>> /\ queue'[p] = queue[p]
          /\ topic'[p] = topic[p] \o batch[p] \/ topic'[p] = topic[p]
      BY <2>1, <2>2 DEF WriterOK
    <3>2. Line(earlier, topic[p] \o batch[p], <<>>, queue[p])
      BY <1>1, LineStore
    <3>3. Line(earlier, topic[p], <<>>, queue[p])
      BY <1>1, LineDrop
    <3> QED
      BY <2>1, <3>1, <3>2, <3>3
  <2>3. CASE p # o
    <3>1. batch'[p] = batch[p] /\ queue'[p] = queue[p] /\ topic'[p] = topic[p]
      BY <2>1, <2>3 DEF WriterOK
    <3> QED
      BY <1>1, <2>1, <3>1
  <2> QED
    BY <2>2, <2>3
<1>6. ASSUME NEW o \in Partitions, AttemptFails(o) PROVE Kept
  <2>1. /\ batch' = [batch EXCEPT ![o] = <<>>] \/ batch' = batch
        /\ UNCHANGED <<queue, topic, earlier>>
    BY <1>6 DEF AttemptFails, DoneWith, Dropped, history
  <2>2. batch'[p] = <<>> \/ batch'[p] = batch[p]
    BY <2>1 DEF WriterOK
  <2>3. Line(earlier, topic[p], <<>>, queue[p])
    BY <1>1, LineDrop
  <2> QED
    BY <1>1, <2>1, <2>2, <2>3
<1>7. CASE Crash
  <2>1. batch'[p] = <<>> /\ queue'[p] = <<>> /\ UNCHANGED <<topic, earlier>>
    BY <1>7 DEF Crash, history
  <2>2. Line(earlier, topic[p], <<>>, <<>>)
    BY <1>1, LineDrop
  <2> QED
    BY <2>1, <2>2
<1>8. ASSUME NEW r \in Requests,
             \/ Refuse(r) \/ Validate(r) \/ Pass(r) \/ Limit(r)
             \/ Reject(r) \/ ProduceError(r) \/ Accept(r) \/ Return(r) \/ Ping(r)
      PROVE  Kept
  <2>1. UNCHANGED <<topic, batch, queue, earlier>>
    BY <1>8 DEF Refuse, Validate, Pass, Limit, Reject, ProduceError, Accept, Return, Ping, writer, history
  <2> QED
    BY <1>1, <2>1
<1>9. CASE BrokerFails \/ BrokerRecovers \/ Restart \/ UNCHANGED vars
  <2>1. UNCHANGED <<topic, batch, queue, earlier>>
    BY <1>9 DEF BrokerFails, BrokerRecovers, Restart, vars, writer, history
  <2> QED
    BY <1>1, <2>1
<1> QED
  BY <1>2, <1>3, <1>4, <1>5, <1>6, <1>7, <1>8, <1>9 DEF Next, Body, Handle, Write

OrderInvariant == RefusedInvariant /\ FailuresOK /\ HistoryOK /\ Past /\ LinesOrdered

LEMMA OrderInvariantHolds == Spec => []OrderInvariant
<1>1. Init => FailuresOK /\ HistoryOK /\ Past /\ LinesOrdered
  <2> SUFFICES ASSUME Init PROVE FailuresOK /\ HistoryOK /\ Past /\ LinesOrdered
    OBVIOUS
  <2>1. FailuresOK /\ HistoryOK
    BY IngestAssumption DEF Init, FailuresOK, HistoryOK
  <2>2. Past
    BY DEF Init, Past
  <2>3. \A p \in Partitions : topic[p] = <<>> /\ batch[p] = <<>> /\ queue[p] = <<>>
    BY DEF Init
  <2>4. Line(earlier, <<>>, <<>>, <<>>)
    BY EmptyChain DEF Line, Ahead
  <2>5. LinesOrdered
    BY <2>3, <2>4 DEF LinesOrdered
  <2> QED
    BY <2>1, <2>2, <2>5
<1>2. /\ RefusedInvariant /\ FailuresOK /\ HistoryOK /\ Past /\ LinesOrdered /\ [Next]_vars
      => FailuresOK' /\ HistoryOK' /\ Past' /\ LinesOrdered'
  BY FailuresStep, HistoryStep, PastStep, LinesStep DEF RefusedInvariant
<1> QED
  BY <1>1, <1>2, RefusedInvariantHolds, PTL DEF Spec, OrderInvariant

(* Nothing is stored twice, and a user's events are stored in the order in *)
(* which they were answered and sent.                                      *)
THEOREM UsersStayInOrder == Spec => []UserOrder
<1>1. OrderInvariant => UserOrder
  <2> SUFFICES ASSUME OrderInvariant, NEW p \in Partitions
               PROVE  /\ IsInjective(topic[p])
                      /\ \A i, j \in 1 .. Len(topic[p]) :
                            topic[p][i] \in earlier[topic[p][j]] => i < j
    BY DEF UserOrder
  <2>1. topic[p] \in Seq(Requests)
    BY DEF OrderInvariant, RefusedInvariant, WriterOK
  <2>2. Len(topic[p]) \in Nat /\ DOMAIN topic[p] = 1 .. Len(topic[p])
    BY <2>1
  <2>3. Chain(earlier, topic[p])
    BY DEF OrderInvariant, LinesOrdered, Line
  <2>4. ASSUME NEW i \in 1 .. Len(topic[p]), NEW j \in 1 .. Len(topic[p])
        PROVE  i < j \/ i = j \/ j < i
    BY <2>2
  <2>5. IsInjective(topic[p])
    BY <2>2, <2>3, <2>4 DEF IsInjective, Chain, Fit
  <2>6. ASSUME NEW i \in 1 .. Len(topic[p]), NEW j \in 1 .. Len(topic[p]),
               topic[p][i] \in earlier[topic[p][j]]
        PROVE  i < j
    <3>1. topic[p][j] \in Requests
      BY <2>1
    <3>2. topic[p][i] # topic[p][j]
      BY <2>6, <3>1 DEF OrderInvariant, Past
    <3>3. ~(j < i)
      BY <2>3, <2>6 DEF Chain, Fit
    <3> QED
      BY <2>4, <3>2, <3>3
  <2> QED
    BY <2>5, <2>6
<1> QED
  BY <1>1, OrderInvariantHolds, PTL
=============================================================================
