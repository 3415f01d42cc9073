-------------------------- MODULE AggregatorProofs --------------------------
(***************************************************************************)
(* What the aggregator loses and counts twice at most, for every log and   *)
(* any number of broken connections, crashes and rebalances.               *)
(***************************************************************************)
EXTENDS Aggregator, FiniteSetTheorems, TLAPS

(* The commands that can wait for Redis.                                   *)
Pipelines == {<<>>, <<"zincrby">>, <<"incr", "zincrby">>}

LEMMA PipelineType ==
    ASSUME NEW o
    PROVE  Pipeline(o) \in Pipelines
  BY DEF Pipeline, Pipelines

(* Redis executes the first command and leaves the rest.                   *)
LEMMA PipelineSteps ==
    ASSUME commands \in Pipelines, commands # <<>>
    PROVE  /\ Head(commands) \in Kinds
           /\ Tail(commands) \in Pipelines
  <1>1. CASE commands = <<"zincrby">>
    BY <1>1 DEF Pipelines, Kinds
  <1>2. CASE commands = <<"incr", "zincrby">>
    BY <1>2 DEF Pipelines, Kinds
  <1> QED
    BY <1>1, <1>2 DEF Pipelines

(* Type correctness.                                                       *)
THEOREM AggregatorTypeCorrect == Spec => []TypeOK
  <1>1. Init => TypeOK
    BY AggregatorAssumption DEF Init, TypeOK
  <1>2. TypeOK /\ [Next]_vars => TypeOK'
    <2> SUFFICES ASSUME TypeOK, [Next]_vars
                 PROVE  TypeOK'
      OBVIOUS
    <2> USE AggregatorAssumption DEF TypeOK, consumer, metrics, faults, history
    <2>1. CASE ReadMessage
      <3>1. commands' \in Pipelines /\ tries' \in 0 .. MaxRetries
        BY <2>1, PipelineType DEF ReadMessage, Pipelines
      <3>2. position \in 1 .. Events /\ queued' = position + 1
        BY <2>1 DEF ReadMessage, Queued
      <3> QED
        BY <2>1, <3>1, <3>2 DEF ReadMessage, Pipelines
    <2>2. CASE Execute
      <3>1. Head(commands) \in Kinds /\ commands' \in Pipelines
        BY <2>2, PipelineSteps DEF Execute, Pipelines
      <3>2. event \in Offsets
        BY <2>2 DEF Execute, Offsets
      <3>3. applied' \in [Kinds -> [Offsets -> Nat]]
        BY <2>2, <3>1, <3>2 DEF Execute
      <3> QED
        BY <2>2, <3>1, <3>3 DEF Execute, Pipelines
    <2>3. CASE Processed
      BY <2>3 DEF Processed, NextEvent
    <2>4. CASE BreakAndRetry
      <3>1. commands' \in Pipelines
        BY <2>4, PipelineType DEF BreakAndRetry
      <3> QED
        BY <2>4, <3>1 DEF BreakAndRetry, Pipelines
    <2>5. CASE RedisError
      BY <2>5 DEF RedisError, NextEvent
    <2>6. CASE Commit
      BY <2>6 DEF Commit
    <2>7. CASE Rebalance
      BY <2>7 DEF Rebalance
    <2>8. CASE Crash
      <3>1. /\ up' \in BOOLEAN
            /\ event' = 0 /\ commands' = <<>> /\ tries' = 0
            /\ UNCHANGED <<position, queued, committed, applied, breaks, rebalances>>
        BY <2>8 DEF Crash
      <3>2. /\ crashes' \in 0 .. MaxCrashes
            /\ consumed' = 0 /\ processed' = 0 /\ redisErrors' = 0
            /\ failures' \in Nat /\ skipped' = 0
        BY <2>8 DEF Crash
      <3> QED
        BY <3>1, <3>2
    <2>9. CASE Restart
      BY <2>9 DEF Restart, ResumeAt
    <2>10. CASE UNCHANGED vars
      BY <2>10 DEF vars
    <2> QED
      BY <2>1, <2>2, <2>3, <2>4, <2>5, <2>6, <2>7, <2>8, <2>9, <2>10 DEF Next
  <1> QED
    BY <1>1, <1>2, PTL DEF Spec

-----------------------------------------------------------------------------
(* The reader queues exactly what it has read, and a dead process handles  *)
(* no event.                                                               *)
ReaderInvariant ==
    /\ TypeOK
    /\ committed <= queued
    /\ up => queued = position
    /\ ~up => event = 0 /\ commands = <<>>

LEMMA ReaderInvariantHolds == Spec => []ReaderInvariant
  <1>1. Init => ReaderInvariant
    BY AggregatorAssumption DEF Init, ReaderInvariant, TypeOK
  <1>2. ReaderInvariant /\ TypeOK' /\ [Next]_vars => ReaderInvariant'
    <2> SUFFICES ASSUME ReaderInvariant, TypeOK', [Next]_vars
                 PROVE  ReaderInvariant'
      OBVIOUS
    <2>0. /\ position \in Int /\ queued \in Int /\ committed \in Int
          /\ position' \in Int /\ queued' \in Int /\ committed' \in Int
      BY AggregatorAssumption DEF ReaderInvariant, TypeOK
    <2> SUFFICES /\ committed' <= queued'
                 /\ up' => queued' = position'
                 /\ ~up' => event' = 0 /\ commands' = <<>>
      BY DEF ReaderInvariant
    <2> USE <2>0 DEF ReaderInvariant, consumer
    <2>1. CASE ReadMessage
      BY <2>1 DEF ReadMessage, Queued
    <2>2. CASE Execute
      BY <2>2 DEF Execute
    <2>3. CASE Processed
      BY <2>3 DEF Processed, NextEvent
    <2>4. CASE BreakAndRetry
      BY <2>4 DEF BreakAndRetry
    <2>5. CASE RedisError
      BY <2>5 DEF RedisError, NextEvent
    <2>6. CASE Commit
      BY <2>6 DEF Commit
    <2>7. CASE Rebalance
      BY <2>7 DEF Rebalance
    <2>8. CASE Crash
      BY <2>8 DEF Crash
    <2>9. CASE Restart
      BY <2>9 DEF Restart, ResumeAt
    <2>10. CASE UNCHANGED vars
      BY <2>10 DEF vars
    <2> QED
      BY <2>1, <2>2, <2>3, <2>4, <2>5, <2>6, <2>7, <2>8, <2>9, <2>10 DEF Next
  <1> QED
    BY <1>1, <1>2, AggregatorTypeCorrect, PTL DEF Spec

(* The committed offset never passes what was read.                        *)
THEOREM CommitsAreRead == Spec => []CommitsFollowReads
  <1>1. ReaderInvariant => CommitsFollowReads
    BY AggregatorAssumption DEF ReaderInvariant, TypeOK, CommitsFollowReads
  <1> QED
    BY <1>1, ReaderInvariantHolds, PTL

(* The committed offset never moves back.                                  *)
THEOREM CommitsAdvance == Spec => CommitsNeverRetreat
  <1>1. ReaderInvariant /\ [Next]_vars => [committed' >= committed]_vars
    <2> SUFFICES ASSUME ReaderInvariant, Next
                 PROVE  committed' >= committed
      OBVIOUS
    <2>1. queued \in Int /\ committed \in Int /\ committed <= queued
      BY AggregatorAssumption DEF ReaderInvariant, TypeOK
    <2>2. committed' \in {queued, committed}
      BY DEF Next, consumer, ReadMessage, Execute, Processed, BreakAndRetry, RedisError,
             Commit, Rebalance, Crash, Restart
    <2> QED
      BY <2>1, <2>2
  <1> QED
    BY <1>1, ReaderInvariantHolds, PTL DEF Spec, CommitsNeverRetreat

(* Every message consumed since the start was skipped, counted as          *)
(* processed, or is in the loop.                                           *)
THEOREM MessagesAreCounted == Spec => []EveryMessageCounted
  <1>1. Init => EveryMessageCounted
    BY DEF Init, EveryMessageCounted
  <1>2. EveryMessageCounted /\ TypeOK /\ [Next]_vars => EveryMessageCounted'
    <2> SUFFICES ASSUME EveryMessageCounted, TypeOK, [Next]_vars
                 PROVE  EveryMessageCounted'
      OBVIOUS
    <2>0. consumed \in Int /\ processed \in Int /\ skipped \in Int
      BY DEF TypeOK
    <2> USE <2>0 DEF EveryMessageCounted, metrics, history
    <2>1. CASE ReadMessage
      <3>1. position # 0
        BY DEF TypeOK
      <3> QED
        BY <2>1, <3>1 DEF ReadMessage
    <2>2. CASE Execute
      BY <2>2 DEF Execute
    <2>3. CASE Processed
      BY <2>3 DEF Processed, NextEvent
    <2>4. CASE BreakAndRetry
      BY <2>4 DEF BreakAndRetry
    <2>5. CASE RedisError
      BY <2>5 DEF RedisError, NextEvent
    <2>6. CASE Commit
      BY <2>6 DEF Commit
    <2>7. CASE Rebalance
      BY <2>7 DEF Rebalance
    <2>8. CASE Crash
      BY <2>8 DEF Crash
    <2>9. CASE Restart
      BY <2>9 DEF Restart
    <2>10. CASE UNCHANGED vars
      BY <2>10 DEF vars
    <2> QED
      BY <2>1, <2>2, <2>3, <2>4, <2>5, <2>6, <2>7, <2>8, <2>9, <2>10 DEF Next
  <1> QED
    BY <1>1, <1>2, AggregatorTypeCorrect, PTL DEF Spec

-----------------------------------------------------------------------------
(* The argument for LossBound.  An event behind the offset queued for      *)
(* commit is in the loop, whole in Redis, or was given up in a failure;    *)
(* and while it is in the loop the commands gone from the pipeline have    *)
(* been applied.                                                           *)
Missed == {o \in WellFormed : o < queued /\ o # event /\ ~Complete(o)}

PipelineInvariant ==
    event # 0 =>
        /\ event \in WellFormed
        /\ commands = <<>> => Complete(event)
        /\ commands = <<"zincrby">> => event \in Untyped \/ applied["incr"][event] > 0

LossInvariant ==
    /\ ReaderInvariant
    /\ PipelineInvariant
    /\ Cardinality(Missed) <= crashes + failures + redisErrors

(* One more event is missed for one more failure, or none for none.        *)
LEMMA MissedGrows ==
    ASSUME LossInvariant, TypeOK',
           NEW n \in 0 .. 1,
           crashes' + failures' + redisErrors' = crashes + failures + redisErrors + n,
           IF n = 0 THEN Missed' \subseteq Missed ELSE Missed' \subseteq Missed \cup {event}
    PROVE  Cardinality(Missed') <= crashes' + failures' + redisErrors'
  <1>1. IsFiniteSet(Missed) /\ Cardinality(Missed) \in Nat
    <2>1. IsFiniteSet(Offsets)
      BY FS_Interval, AggregatorAssumption DEF Offsets
    <2> QED
      BY <2>1, FS_Subset, FS_CardinalityType DEF Missed, WellFormed
  <1>2. /\ IsFiniteSet(Missed \cup {event})
        /\ Cardinality(Missed \cup {event}) \in {Cardinality(Missed), Cardinality(Missed) + 1}
    BY <1>1, FS_AddElement
  <1>3. Cardinality(Missed') \in Nat /\ Cardinality(Missed') <= Cardinality(Missed) + n
    <2>1. CASE n = 0
      BY <2>1, <1>1, FS_Subset, FS_CardinalityType
    <2>2. CASE n = 1
      BY <2>2, <1>1, <1>2, FS_Subset, FS_CardinalityType
    <2> QED
      BY <2>1, <2>2
  <1>4. /\ crashes \in Int /\ failures \in Int /\ redisErrors \in Int
        /\ Cardinality(Missed) <= crashes + failures + redisErrors
    BY DEF LossInvariant, ReaderInvariant, TypeOK
  <1> QED
    BY <1>1, <1>3, <1>4

(* What Redis executes is never undone, and takes the event in the loop    *)
(* one command further.                                                    *)
LEMMA ExecuteCompletes ==
    ASSUME LossInvariant, Execute
    PROVE  /\ \A o \in WellFormed : Complete(o) => Complete(o)'
           /\ PipelineInvariant'
  <1> USE DEF LossInvariant, ReaderInvariant
  <1>1. /\ event \in WellFormed /\ event \in Offsets /\ event' = event /\ event # 0
        /\ applied \in [Kinds -> [Offsets -> Nat]]
    BY DEF Execute, PipelineInvariant, WellFormed, TypeOK
  <1>2. CASE commands = <<"zincrby">>
    <2>1. /\ commands' = <<>>
          /\ applied' = [applied EXCEPT !["zincrby"][event] = @ + 1]
      BY <1>2 DEF Execute
    <2>2. \A o \in Offsets :
            /\ applied'["incr"][o] = applied["incr"][o]
            /\ applied'["zincrby"][o] = applied["zincrby"][o] + (IF o = event THEN 1 ELSE 0)
            /\ applied["zincrby"][o] \in Nat
      BY <1>1, <2>1 DEF Kinds
    <2>3. event \in Untyped \/ applied["incr"][event] > 0
      BY <1>1, <1>2 DEF PipelineInvariant
    <2> QED
      BY <1>1, <2>1, <2>2, <2>3 DEF PipelineInvariant, Complete, WellFormed
  <1>3. CASE commands = <<"incr", "zincrby">>
    <2>1. /\ commands' = <<"zincrby">>
          /\ applied' = [applied EXCEPT !["incr"][event] = @ + 1]
      BY <1>3 DEF Execute
    <2>2. \A o \in Offsets :
            /\ applied'["zincrby"][o] = applied["zincrby"][o]
            /\ applied'["incr"][o] = applied["incr"][o] + (IF o = event THEN 1 ELSE 0)
            /\ applied["incr"][o] \in Nat
      BY <1>1, <2>1 DEF Kinds
    <2> QED
      BY <1>1, <2>1, <2>2 DEF PipelineInvariant, Complete, WellFormed
  <1> QED
    BY <1>2, <1>3 DEF Execute, TypeOK

LEMMA LossInvariantHolds == Spec => []LossInvariant
  <1>1. Init /\ ReaderInvariant => LossInvariant
    <2> SUFFICES ASSUME Init, ReaderInvariant
                 PROVE  LossInvariant
      OBVIOUS
    <2>1. Missed = {}
      BY DEF Init, Missed, WellFormed, Offsets
    <2> QED
      BY <2>1, FS_EmptySet DEF Init, LossInvariant, PipelineInvariant
  <1>2. LossInvariant /\ ReaderInvariant' /\ [Next]_vars => LossInvariant'
    <2> SUFFICES ASSUME LossInvariant, ReaderInvariant', [Next]_vars
                 PROVE  /\ PipelineInvariant'
                        /\ Cardinality(Missed') <= crashes' + failures' + redisErrors'
      BY DEF LossInvariant
    <2>0. /\ TypeOK /\ TypeOK'
          /\ position \in Int /\ queued \in Int /\ committed \in Int
          /\ crashes \in Int /\ failures \in Int /\ redisErrors \in Int
          /\ committed <= queued /\ (up => queued = position)
          /\ \A o \in WellFormed : o \in Int /\ o # 0
      <3>1. TypeOK /\ TypeOK' /\ committed <= queued /\ (up => queued = position)
        BY DEF LossInvariant, ReaderInvariant
      <3>2. /\ position \in Int /\ queued \in Int /\ committed \in Int
            /\ crashes \in Int /\ failures \in Int /\ redisErrors \in Int
        BY <3>1, AggregatorAssumption DEF TypeOK
      <3>3. \A o \in WellFormed : o \in Int /\ o # 0
        BY AggregatorAssumption DEF WellFormed, Offsets
      <3> QED
        BY <3>1, <3>2, <3>3
    <2> USE <2>0 DEF consumer, metrics, faults, history
    <2>1. CASE ReadMessage
      <3>1. PipelineInvariant'
        <4>1. event' = 0 \/ (event' = position /\ position \in WellFormed
                             /\ commands' = Pipeline(position))
          BY <2>1 DEF ReadMessage, WellFormed, Offsets, TypeOK
        <4> QED
          BY <4>1 DEF PipelineInvariant, Pipeline
      <3>2. Missed' \subseteq Missed
        BY <2>1 DEF ReadMessage, Queued, Missed, Complete, WellFormed
      <3>3. crashes' + failures' + redisErrors' = crashes + failures + redisErrors + 0
        BY <2>1 DEF ReadMessage
      <3> QED
        BY <3>1, <3>2, <3>3, MissedGrows
    <2>2. CASE Execute
      <3>1. Missed' \subseteq Missed
        BY <2>2, ExecuteCompletes DEF Execute, Missed
      <3>2. crashes' + failures' + redisErrors' = crashes + failures + redisErrors + 0
        BY <2>2 DEF Execute
      <3> QED
        BY <2>2, <3>1, <3>2, MissedGrows, ExecuteCompletes
    <2>3. CASE Processed
      <3>1. Complete(event)
        BY <2>3 DEF Processed, LossInvariant, PipelineInvariant
      <3>2. Missed' \subseteq Missed
        BY <2>3, <3>1 DEF Processed, NextEvent, Missed, Complete
      <3>3. crashes' + failures' + redisErrors' = crashes + failures + redisErrors + 0
        BY <2>3 DEF Processed
      <3>4. PipelineInvariant'
        BY <2>3 DEF Processed, NextEvent, PipelineInvariant
      <3> QED
        BY <3>2, <3>3, <3>4, MissedGrows
    <2>4. CASE BreakAndRetry
      <3>1. PipelineInvariant'
        BY <2>4 DEF BreakAndRetry, PipelineInvariant, LossInvariant, Pipeline
      <3>2. Missed' \subseteq Missed
        BY <2>4 DEF BreakAndRetry, Missed, Complete
      <3>3. crashes' + failures' + redisErrors' = crashes + failures + redisErrors + 0
        BY <2>4 DEF BreakAndRetry
      <3> QED
        BY <3>1, <3>2, <3>3, MissedGrows
    <2>5. CASE RedisError
      <3>1. PipelineInvariant'
        BY <2>5 DEF RedisError, NextEvent, PipelineInvariant
      <3>2. Missed' \subseteq Missed \cup {event}
        BY <2>5 DEF RedisError, NextEvent, Missed, Complete
      <3>3. crashes' + failures' + redisErrors' = crashes + failures + redisErrors + 1
        BY <2>5 DEF RedisError
      <3> QED
        BY <3>1, <3>2, <3>3, MissedGrows
    <2>6. CASE Commit
      <3>1. PipelineInvariant' /\ Missed' \subseteq Missed
        BY <2>6 DEF Commit, Missed, Complete, PipelineInvariant, LossInvariant
      <3>2. crashes' + failures' + redisErrors' = crashes + failures + redisErrors + 0
        BY <2>6 DEF Commit
      <3> QED
        BY <3>1, <3>2, MissedGrows
    <2>7. CASE Rebalance
      <3>1. PipelineInvariant'
        BY <2>7 DEF Rebalance, Complete, PipelineInvariant, LossInvariant
      <3>2. queued' <= queued
        BY <2>7 DEF Rebalance
      <3>3. Missed' \subseteq Missed
        BY <2>7, <3>2 DEF Rebalance, Missed, Complete, ReaderInvariant, TypeOK
      <3>4. crashes' + failures' + redisErrors' = crashes + failures + redisErrors + 0
        BY <2>7 DEF Rebalance
      <3> QED
        BY <3>1, <3>3, <3>4, MissedGrows
    <2>8. CASE Crash
      <3>1. PipelineInvariant' /\ Missed' \subseteq Missed \cup {event}
        BY <2>8 DEF Crash, PipelineInvariant, Missed, Complete
      <3>2. crashes' + failures' + redisErrors' = crashes + failures + redisErrors + 1
        BY <2>8 DEF Crash
      <3> QED
        BY <3>1, <3>2, MissedGrows
    <2>9. CASE Restart
      <3>1. PipelineInvariant'
        BY <2>9 DEF Restart, Complete, PipelineInvariant, LossInvariant
      <3>2. Missed' \subseteq Missed
        BY <2>9 DEF Restart, ResumeAt, Missed, Complete
      <3>3. crashes' + failures' + redisErrors' = crashes + failures + redisErrors + 0
        BY <2>9 DEF Restart
      <3> QED
        BY <3>1, <3>2, <3>3, MissedGrows
    <2>10. CASE UNCHANGED vars
      BY <2>10 DEF vars, LossInvariant, PipelineInvariant, Missed, Complete
    <2> QED
      BY <2>1, <2>2, <2>3, <2>4, <2>5, <2>6, <2>7, <2>8, <2>9, <2>10 DEF Next
  <1> QED
    BY <1>1, <1>2, ReaderInvariantHolds, PTL DEF Spec

(* At most one event is lost for each crash and each pipeline given up.    *)
THEOREM OneLossPerFailure == Spec => []LossBound
  <1>1. LossInvariant => LossBound
    <2> SUFFICES ASSUME LossInvariant
                 PROVE  LossBound
      OBVIOUS
    <2>1. IsFiniteSet(Missed)
      <3>1. IsFiniteSet(Offsets)
        BY FS_Interval, AggregatorAssumption DEF Offsets
      <3> QED
        BY <3>1, FS_Subset DEF Missed, WellFormed
    <2>2. Lost \subseteq Missed
      BY AggregatorAssumption
         DEF LossInvariant, ReaderInvariant, TypeOK, Lost, Missed, WellFormed, Offsets
    <2>3. /\ Cardinality(Lost) \in Int /\ Cardinality(Missed) \in Int
          /\ Cardinality(Lost) <= Cardinality(Missed)
      BY <2>1, <2>2, FS_Subset, FS_CardinalityType
    <2>4. /\ Cardinality(Missed) <= crashes + failures + redisErrors
          /\ crashes \in Int /\ failures \in Int /\ redisErrors \in Int
      BY DEF LossInvariant, ReaderInvariant, TypeOK
    <2> QED
      BY <2>3, <2>4 DEF LossBound
  <1> QED
    BY <1>1, LossInvariantHolds, PTL

-----------------------------------------------------------------------------
(* The argument for DuplicateBound.  Redis has applied a command of an     *)
(* event, or it waits in the pipeline, or the event is yet to be read (by  *)
(* a restarted process: from the committed offset).  The three together    *)
(* grow only when a connection breaks, the process dies or the group       *)
(* rebalances.                                                             *)
Contains(s, k) == k \in {s[i] : i \in 1 .. Len(s)}
Waiting(k, o) == IF o = event /\ Contains(commands, k) THEN 1 ELSE 0
ResumeFrom == IF up THEN position ELSE committed
Unread(o) == IF o >= ResumeFrom THEN 1 ELSE 0

DuplicateInvariant ==
    \A k \in Kinds, o \in Offsets :
        applied[k][o] + Waiting(k, o) + Unread(o) <= 1 + breaks + crashes + rebalances

(* No command is twice in a pipeline.                                      *)
LEMMA PipelineContains ==
    ASSUME NEW s, NEW k
    PROVE  /\ s = <<>> => ~Contains(s, k)
           /\ s = <<"zincrby">> => (Contains(s, k) <=> k = "zincrby")
           /\ s = <<"incr", "zincrby">> => (Contains(s, k) <=> k \in Kinds)
  <1>1. ASSUME s = <<>>
        PROVE  ~Contains(s, k)
    BY <1>1 DEF Contains
  <1>2. ASSUME s = <<"zincrby">>
        PROVE  Contains(s, k) <=> k = "zincrby"
    <2>1. Len(s) = 1 /\ s[1] = "zincrby"
      BY <1>2
    <2>2. 1 .. 1 = {1}
      OBVIOUS
    <2> QED
      BY <2>1, <2>2 DEF Contains
  <1>3. ASSUME s = <<"incr", "zincrby">>
        PROVE  Contains(s, k) <=> k \in Kinds
    <2>1. Len(s) = 2 /\ s[1] = "incr" /\ s[2] = "zincrby"
      BY <1>3
    <2>2. 1 .. 2 = {1, 2}
      OBVIOUS
    <2> QED
      BY <2>1, <2>2 DEF Contains, Kinds
  <1> QED
    BY <1>1, <1>2, <1>3

(* Redis applies a command that waited, and it waits no more.              *)
LEMMA ExecuteMoves ==
    ASSUME TypeOK, Execute, NEW k \in Kinds, NEW o \in Offsets
    PROVE  applied'[k][o] + Waiting(k, o)' = applied[k][o] + Waiting(k, o)
  <1>1. /\ event \in Offsets /\ event' = event
        /\ applied \in [Kinds -> [Offsets -> Nat]]
        /\ applied[k][o] \in Nat
    <2>1. event \in 0 .. Events /\ applied \in [Kinds -> [Offsets -> Nat]]
      BY DEF TypeOK
    <2>2. event # 0 /\ event' = event
      BY DEF Execute
    <2> QED
      BY <2>1, <2>2, AggregatorAssumption DEF Offsets
  <1>2. CASE commands = <<"zincrby">>
    <2>1. /\ commands' = <<>>
          /\ applied' = [applied EXCEPT !["zincrby"][event] = @ + 1]
      BY <1>2 DEF Execute
    <2>2. applied'[k][o] = applied[k][o] + (IF o = event /\ k = "zincrby" THEN 1 ELSE 0)
      BY <1>1, <2>1 DEF Kinds
    <2>3. ~Contains(commands', k) /\ (Contains(commands, k) <=> k = "zincrby")
      BY <1>2, <2>1, PipelineContains
    <2> QED
      BY <1>1, <2>2, <2>3 DEF Waiting
  <1>3. CASE commands = <<"incr", "zincrby">>
    <2>1. /\ commands' = <<"zincrby">>
          /\ applied' = [applied EXCEPT !["incr"][event] = @ + 1]
      BY <1>3 DEF Execute
    <2>2. applied'[k][o] = applied[k][o] + (IF o = event /\ k = "incr" THEN 1 ELSE 0)
      BY <1>1, <2>1 DEF Kinds
    <2>3. (Contains(commands', k) <=> k = "zincrby") /\ Contains(commands, k)
      BY <1>3, <2>1, PipelineContains
    <2> QED
      BY <1>1, <2>2, <2>3 DEF Waiting, Kinds
  <1> QED
    BY <1>2, <1>3 DEF Execute, TypeOK

LEMMA DuplicateInvariantHolds == Spec => []DuplicateInvariant
  <1>1. Init => DuplicateInvariant
    <2> SUFFICES ASSUME Init, NEW k \in Kinds, NEW o \in Offsets
                 PROVE  applied[k][o] + Waiting(k, o) + Unread(o) <= 1 + breaks + crashes + rebalances
      BY DEF DuplicateInvariant
    <2>1. applied[k][o] = 0 /\ breaks = 0 /\ crashes = 0 /\ rebalances = 0
      BY DEF Init
    <2>2. Waiting(k, o) = 0
      BY AggregatorAssumption DEF Init, Waiting, Offsets
    <2> QED
      BY <2>1, <2>2 DEF Unread
  <1>2. DuplicateInvariant /\ ReaderInvariant /\ TypeOK' /\ [Next]_vars => DuplicateInvariant'
    <2> SUFFICES ASSUME DuplicateInvariant, ReaderInvariant, TypeOK', [Next]_vars,
                        NEW k \in Kinds, NEW o \in Offsets
                 PROVE  applied'[k][o] + Waiting(k, o)' + Unread(o)'
                          <= 1 + breaks' + crashes' + rebalances'
      BY DEF DuplicateInvariant
    <2> DEFINE a == applied[k][o]
               b == 1 + breaks + crashes + rebalances
               bb == 1 + breaks' + crashes' + rebalances'
               aa == applied'[k][o]
               w == Waiting(k, o)
               ww == Waiting(k, o)'
               u == Unread(o)
               uu == Unread(o)'
    <2>0. /\ a \in Int /\ aa \in Int /\ b \in Int /\ bb \in Int
          /\ w \in 0 .. 1 /\ ww \in 0 .. 1 /\ u \in 0 .. 1 /\ uu \in 0 .. 1
          /\ a + w + u <= b
      <3>1. TypeOK
        BY DEF ReaderInvariant
      <3>2. a \in Int /\ b \in Int
        <4>1. applied \in [Kinds -> [Offsets -> Nat]]
          BY <3>1 DEF TypeOK
        <4>2. applied[k][o] \in Nat
          BY <4>1
        <4>3. breaks \in Int /\ crashes \in Int /\ rebalances \in Int
          BY <3>1, AggregatorAssumption DEF TypeOK
        <4> QED
          BY <4>2, <4>3
      <3>3. aa \in Int /\ bb \in Int
        <4>1. applied' \in [Kinds -> [Offsets -> Nat]]
          BY DEF TypeOK
        <4>2. applied'[k][o] \in Nat
          BY <4>1
        <4>3. breaks' \in Int /\ crashes' \in Int /\ rebalances' \in Int
          BY AggregatorAssumption DEF TypeOK
        <4> QED
          BY <4>2, <4>3
      <3>4. w \in 0 .. 1 /\ ww \in 0 .. 1
        BY DEF Waiting
      <3>5. u \in 0 .. 1 /\ uu \in 0 .. 1
        BY DEF Unread
      <3>6. a + w + u <= b
        BY DEF DuplicateInvariant
      <3> QED
        BY <3>2, <3>3, <3>4, <3>5, <3>6
    <2> SUFFICES aa + ww + uu <= bb
      OBVIOUS
    <2>a. ASSUME aa = a, ww = w, uu = u, bb = b
          PROVE  aa + ww + uu <= bb
      BY <2>0, <2>a
    <2>b. ASSUME aa = a, ww = 0 \/ ww = w, uu = 0 \/ uu = u, bb >= b
          PROVE  aa + ww + uu <= bb
      BY <2>0, <2>b
    <2>c. ASSUME aa = a, ww = 0 \/ ww = w, bb = b + 1
          PROVE  aa + ww + uu <= bb
      BY <2>0, <2>c
    <2>d. ASSUME aa = a, uu = u, bb = b + 1
          PROVE  aa + ww + uu <= bb
      BY <2>0, <2>d
    <2>1. CASE ReadMessage
      <3>1. aa = a /\ bb = b
        BY <2>1 DEF ReadMessage, faults
      <3>2. event = 0 /\ o # 0 /\ up /\ up' /\ position' = position + 1 /\ position \in Int
        BY <2>1, AggregatorAssumption DEF ReadMessage, Offsets, ReaderInvariant, TypeOK
      <3>3. w = 0
        BY <3>2 DEF Waiting
      <3>4. u = (IF o >= position THEN 1 ELSE 0) /\ uu = (IF o >= position + 1 THEN 1 ELSE 0)
        BY <3>2 DEF Unread, ResumeFrom
      <3>5. o # position => ww = 0
        BY <2>1, <3>2 DEF ReadMessage, Waiting
      <3>6. o \in Int
        BY AggregatorAssumption DEF Offsets
      <3> QED
        BY <2>0, <3>1, <3>2, <3>3, <3>4, <3>5, <3>6
    <2>2. CASE Execute
      <3>1. aa + ww = a + w
        BY <2>2, ExecuteMoves DEF ReaderInvariant
      <3>2. uu = u /\ bb = b
        BY <2>2 DEF Execute, faults, consumer, Unread, ResumeFrom
      <3> QED
        BY <2>0, <3>1, <3>2
    <2>3. CASE Processed
      <3>1. aa = a /\ bb = b /\ uu = u
        BY <2>3 DEF Processed, faults, consumer, Unread, ResumeFrom
      <3>2. ww = 0
        BY <2>3, PipelineContains DEF Processed, NextEvent, Waiting
      <3> QED
        BY <2>b, <2>0, <3>1, <3>2
    <2>4. CASE BreakAndRetry
      <3>1. aa = a /\ uu = u
        BY <2>4 DEF BreakAndRetry, consumer, Unread, ResumeFrom
      <3>2. bb = b + 1
        BY <2>4 DEF BreakAndRetry, ReaderInvariant, TypeOK
      <3> QED
        BY <2>d, <3>1, <3>2
    <2>5. CASE RedisError
      <3>1. aa = a /\ uu = u
        BY <2>5 DEF RedisError, consumer, Unread, ResumeFrom
      <3>2. bb = b + 1
        BY <2>5 DEF RedisError, ReaderInvariant, TypeOK
      <3> QED
        BY <2>d, <3>1, <3>2
    <2>6. CASE Commit
      <3>1. aa = a /\ ww = w /\ bb = b
        BY <2>6 DEF Commit, faults, Waiting
      <3>2. uu = u
        BY <2>6 DEF Commit, Unread, ResumeFrom
      <3> QED
        BY <2>a, <3>1, <3>2
    <2>7. CASE Rebalance
      <3>1. aa = a /\ ww = w
        BY <2>7 DEF Rebalance, Waiting
      <3>2. bb = b + 1
        BY <2>7 DEF Rebalance, ReaderInvariant, TypeOK
      <3> QED
        BY <2>c, <3>1, <3>2
    <2>8. CASE Crash
      <3>1. aa = a /\ ww = 0
        BY <2>8, PipelineContains DEF Crash, Waiting
      <3>2. bb = b + 1
        BY <2>8 DEF Crash, ReaderInvariant, TypeOK
      <3> QED
        BY <2>c, <3>1, <3>2
    <2>9. CASE Restart
      <3>1. aa = a /\ ww = w /\ bb = b
        BY <2>9 DEF Restart, faults, Waiting
      <3>2. uu = u
        BY <2>9 DEF Restart, ResumeAt, Unread, ResumeFrom
      <3> QED
        BY <2>a, <3>1, <3>2
    <2>10. CASE UNCHANGED vars
      <3>1. aa = a /\ ww = w /\ bb = b
        BY <2>10 DEF vars, Waiting
      <3>2. uu = u
        BY <2>10 DEF vars, Unread, ResumeFrom
      <3> QED
        BY <2>a, <3>1, <3>2
    <2> HIDE DEF a, b, bb, aa, w, ww, u, uu
    <2> QED
      BY <2>1, <2>2, <2>3, <2>4, <2>5, <2>6, <2>7, <2>8, <2>9, <2>10 DEF Next
  <1> QED
    BY <1>1, <1>2, ReaderInvariantHolds, AggregatorTypeCorrect, PTL DEF Spec

(* An event is applied once, and once more at most for every broken        *)
(* connection, crash and rebalance.                                        *)
THEOREM DuplicatesNeedFailures == Spec => []DuplicateBound
  <1>1. DuplicateInvariant /\ TypeOK => DuplicateBound
    <2> SUFFICES ASSUME DuplicateInvariant, TypeOK, NEW k \in Kinds, NEW o \in Offsets
                 PROVE  applied[k][o] <= 1 + breaks + crashes + rebalances
      BY DEF DuplicateBound
    <2>1. /\ applied[k][o] \in Int /\ Waiting(k, o) \in 0 .. 1 /\ Unread(o) \in 0 .. 1
          /\ breaks \in Int /\ crashes \in Int /\ rebalances \in Int
      BY DEF TypeOK, Waiting, Unread
    <2>2. applied[k][o] + Waiting(k, o) + Unread(o) <= 1 + breaks + crashes + rebalances
      BY DEF DuplicateInvariant
    <2> QED
      BY <2>1, <2>2
  <1> QED
    BY <1>1, DuplicateInvariantHolds, AggregatorTypeCorrect, PTL

-----------------------------------------------------------------------------
(* The argument for ExactWhenCalm.  While nothing fails, a command of an   *)
(* event that was read was applied once or waits in the pipeline, and no   *)
(* other command was applied.                                              *)
Calm == breaks = 0 /\ crashes = 0 /\ rebalances = 0
Expected(k, o) == o < position /\ o \in WellFormed /\ (k = "incr" => o \notin Untyped)

CalmInvariant ==
    Calm =>
        /\ up
        /\ \A k \in Kinds, o \in Offsets :
            applied[k][o] + Waiting(k, o) = IF Expected(k, o) THEN 1 ELSE 0

(* The faults are counted by natural numbers.                              *)
LEMMA CalmIsNoFault ==
    ASSUME TypeOK, breaks + crashes + rebalances = 0
    PROVE  Calm
  <1>1. breaks \in Nat /\ crashes \in Nat /\ rebalances \in Nat
    BY AggregatorAssumption DEF TypeOK
  <1> QED
    BY <1>1 DEF Calm

(* The reader hands over the next event: its commands wait.                *)
LEMMA ReadMessageQueues ==
    ASSUME TypeOK, ReadMessage, NEW k \in Kinds, NEW o \in Offsets,
           applied[k][o] + Waiting(k, o) = IF Expected(k, o) THEN 1 ELSE 0
    PROVE  applied'[k][o] + Waiting(k, o)' = IF Expected(k, o)' THEN 1 ELSE 0
  <1>1. /\ position \in Int /\ position # 0 /\ position' = position + 1
        /\ event = 0 /\ o \in Int /\ o # 0 /\ applied' = applied
    BY AggregatorAssumption DEF ReadMessage, TypeOK, Offsets
  <1>2. Waiting(k, o) = 0
    BY <1>1 DEF Waiting
  <1>3. applied[k][o] \in Nat
    <2>1. applied \in [Kinds -> [Offsets -> Nat]]
      BY DEF TypeOK
    <2> QED
      BY <2>1
  <1>4. CASE o # position
    <2>1. Waiting(k, o)' = 0
      BY <1>1, <1>4 DEF ReadMessage, Waiting
    <2>2. Expected(k, o)' <=> Expected(k, o)
      BY <1>1, <1>4 DEF Expected
    <2> QED
      BY <1>1, <1>2, <2>1, <2>2
  <1>5. CASE o = position /\ o \in Malformed
    <2>1. Waiting(k, o)' = 0
      BY <1>1, <1>5 DEF ReadMessage, Waiting
    <2>2. ~Expected(k, o)' /\ ~Expected(k, o)
      BY <1>5 DEF Expected, WellFormed
    <2> QED
      BY <1>1, <1>2, <2>1, <2>2
  <1>6. CASE o = position /\ o \notin Malformed
    <2>1. event' = o /\ commands' = Pipeline(o)
      BY <1>6 DEF ReadMessage
    <2>2. Contains(commands', k) <=> (k = "incr" => o \notin Untyped)
      BY <2>1, PipelineContains DEF Pipeline, Kinds
    <2>3. Expected(k, o)' <=> (k = "incr" => o \notin Untyped)
      BY <1>1, <1>6 DEF Expected, WellFormed
    <2>4. ~Expected(k, o)
      BY <1>1, <1>6 DEF Expected
    <2> QED
      BY <1>1, <1>2, <1>3, <2>1, <2>2, <2>3, <2>4 DEF Waiting
  <1> QED
    BY <1>4, <1>5, <1>6

LEMMA CalmInvariantHolds == Spec => []CalmInvariant
  <1>1. Init => CalmInvariant
    <2> SUFFICES ASSUME Init, NEW k \in Kinds, NEW o \in Offsets
                 PROVE  applied[k][o] + Waiting(k, o) = IF Expected(k, o) THEN 1 ELSE 0
      BY DEF CalmInvariant, Init
    <2>1. applied[k][o] = 0 /\ event = 0 /\ position = 1
      BY DEF Init
    <2>2. o \in Nat /\ o # 0
      BY AggregatorAssumption DEF Offsets
    <2>3. Waiting(k, o) = 0 /\ ~Expected(k, o)
      BY <2>1, <2>2 DEF Waiting, Expected
    <2> QED
      BY <2>1, <2>3
  <1>2. CalmInvariant /\ TypeOK /\ [Next]_vars => CalmInvariant'
    <2> SUFFICES ASSUME CalmInvariant, TypeOK, [Next]_vars, Calm'
                 PROVE  /\ up'
                        /\ \A k \in Kinds, o \in Offsets :
                            applied'[k][o] + Waiting(k, o)' = IF Expected(k, o)' THEN 1 ELSE 0
      BY DEF CalmInvariant
    <2>0. breaks \in Nat /\ crashes \in Nat /\ rebalances \in Nat
      BY AggregatorAssumption DEF TypeOK
    <2>a. ASSUME Calm
          PROVE  /\ up
                 /\ \A k \in Kinds, o \in Offsets :
                     applied[k][o] + Waiting(k, o) = IF Expected(k, o) THEN 1 ELSE 0
      BY <2>a DEF CalmInvariant
    <2>b. ASSUME up' = up, applied' = applied, position' = position,
                 \A k \in Kinds, o \in Offsets : Waiting(k, o)' = Waiting(k, o), Calm
          PROVE  /\ up'
                 /\ \A k \in Kinds, o \in Offsets :
                     applied'[k][o] + Waiting(k, o)' = IF Expected(k, o)' THEN 1 ELSE 0
      BY <2>a, <2>b DEF Expected
    <2>1. CASE ReadMessage
      <3>1. Calm /\ up'
        BY <2>1 DEF ReadMessage, faults, Calm
      <3> QED
        BY <2>a, <2>1, <3>1, ReadMessageQueues
    <2>2. CASE Execute
      <3>1. Calm /\ up' = up /\ position' = position
        BY <2>2 DEF Execute, faults, consumer, Calm
      <3>2. \A k \in Kinds, o \in Offsets : Expected(k, o)' <=> Expected(k, o)
        BY <3>1 DEF Expected
      <3> QED
        BY <2>a, <2>2, <3>1, <3>2, ExecuteMoves
    <2>3. CASE Processed
      <3>1. Calm /\ up' = up /\ applied' = applied /\ position' = position
        BY <2>3 DEF Processed, faults, consumer, Calm
      <3>2. \A k \in Kinds, o \in Offsets : Waiting(k, o)' = Waiting(k, o)
        BY <2>3, PipelineContains DEF Processed, NextEvent, Waiting
      <3> QED
        BY <2>b, <3>1, <3>2
    <2>4. CASE BreakAndRetry
      BY <2>0, <2>4 DEF BreakAndRetry, Calm
    <2>5. CASE RedisError
      BY <2>0, <2>5 DEF RedisError, Calm
    <2>6. CASE Commit
      <3>1. Calm /\ up' = up /\ applied' = applied /\ position' = position
        BY <2>6 DEF Commit, faults, Calm
      <3>2. \A k \in Kinds, o \in Offsets : Waiting(k, o)' = Waiting(k, o)
        BY <2>6 DEF Commit, Waiting
      <3> QED
        BY <2>b, <3>1, <3>2
    <2>7. CASE Rebalance
      BY <2>0, <2>7 DEF Rebalance, Calm
    <2>8. CASE Crash
      BY <2>0, <2>8 DEF Crash, Calm
    <2>9. CASE Restart
      <3>1. Calm /\ ~up
        BY <2>9 DEF Restart, faults, Calm
      <3> QED
        BY <2>a, <3>1
    <2>10. CASE UNCHANGED vars
      <3>1. Calm /\ up' = up /\ applied' = applied /\ position' = position
        BY <2>10 DEF vars, Calm
      <3>2. \A k \in Kinds, o \in Offsets : Waiting(k, o)' = Waiting(k, o)
        BY <2>10 DEF vars, Waiting
      <3> QED
        BY <2>b, <3>1, <3>2
    <2> QED
      BY <2>1, <2>2, <2>3, <2>4, <2>5, <2>6, <2>7, <2>8, <2>9, <2>10 DEF Next
  <1> QED
    BY <1>1, <1>2, AggregatorTypeCorrect, PTL DEF Spec

(* While nothing fails, the totals are exact.                              *)
THEOREM CalmIsExact == Spec => []ExactWhenCalm
  <1>1. CalmInvariant /\ TypeOK => ExactWhenCalm
    <2> SUFFICES ASSUME CalmInvariant, TypeOK, Calm, NEW o \in WellFormed \ {event}
                 PROVE  /\ applied["zincrby"][o] = IF o < position THEN 1 ELSE 0
                        /\ applied["incr"][o] = IF o < position /\ o \notin Untyped THEN 1 ELSE 0
      BY CalmIsNoFault DEF ExactWhenCalm
    <2>1. applied \in [Kinds -> [Offsets -> Nat]] /\ o \in Offsets
      BY DEF TypeOK, WellFormed
    <2>2. \A k \in Kinds : applied[k][o] \in Nat /\ Waiting(k, o) = 0
      BY <2>1 DEF Waiting
    <2>3. \A k \in Kinds : applied[k][o] = IF Expected(k, o) THEN 1 ELSE 0
      BY <2>1, <2>2 DEF CalmInvariant
    <2>4. /\ Expected("zincrby", o) <=> o < position
          /\ Expected("incr", o) <=> o < position /\ o \notin Untyped
      BY DEF Expected
    <2> QED
      BY <2>3, <2>4 DEF Kinds
  <1> QED
    BY <1>1, CalmInvariantHolds, AggregatorTypeCorrect, PTL
=============================================================================
