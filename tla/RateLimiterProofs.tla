-------------------------- MODULE RateLimiterProofs --------------------------
(***************************************************************************)
(* What AllowRequest guarantees for every number of calls, every limit,    *)
(* window, clock granularity and number of retries.                        *)
(***************************************************************************)
EXTENDS RateLimiter, FiniteSetTheorems, TLAPS

(* Euclidean division, and what one half of a quantum is.                  *)
LEMMA Division ==
    ASSUME NEW a \in Int, NEW b \in Int, b > 0
    PROVE  /\ a = b * (a \div b) + (a % b)
           /\ (a % b) \in 0 .. (b - 1)
           /\ (a \div b) \in Int
  OBVIOUS

(* The slack is twice the largest whole number up to half a quantum.       *)
LEMMA SlackType ==
    /\ Slack \in Nat
    /\ \A d \in Int : 2 * d <= Quantum => 2 * d <= Slack
  <1> DEFINE h == Quantum \div 2
  <1>1. Quantum = 2 * h + (Quantum % 2) /\ (Quantum % 2) \in 0 .. 1 /\ h \in Int
    BY LimiterAssumption, Division
  <1> QED
    BY <1>1, LimiterAssumption DEF Slack

(* Rounding a time to a float64 moves it by at most half the slack.        *)
LEMMA ScoreError ==
    ASSUME NEW t \in Int
    PROVE  /\ Score(t) \in Int
           /\ 2 * (Score(t) - t) <= Slack
           /\ 2 * (t - Score(t)) <= Slack
  <1> DEFINE q == t \div Quantum
             r == t % Quantum
             up == Score(t) - t
             down == t - Score(t)
  <1>1. t = Quantum * q + r /\ r \in 0 .. (Quantum - 1) /\ q \in Int
    BY LimiterAssumption, Division
  <1>2. 2 * r < Quantum \/ 2 * r = Quantum \/ 2 * r > Quantum
    BY <1>1, LimiterAssumption
  <1>3. /\ Score(t) \in Int
        /\ 2 * up <= Quantum
        /\ 2 * down <= Quantum
    BY <1>1, <1>2, LimiterAssumption DEF Score
  <1>4. up \in Int /\ down \in Int
    BY <1>3
  <1> QED
    BY <1>3, <1>4, SlackType

(* A call removes a member only when a window, less the rounding of two    *)
(* scores, has passed between the stamps.                                  *)
LEMMA EvictedIsOld ==
    ASSUME NEW now \in Int, NEW m \in Int, Evicts(now, m)
    PROVE  m + Window - Slack <= now
  <1>1. now - Window \in Int
    BY LimiterAssumption
  <1>2. /\ Score(m) \in Int
        /\ 2 * (m - Score(m)) <= Slack
    BY ScoreError
  <1>3. /\ Score(now - Window) \in Int
        /\ 2 * (Score(now - Window) - (now - Window)) <= Slack
    BY <1>1, ScoreError
  <1>4. Score(m) <= Score(now - Window)
    BY DEF Evicts
  <1> QED
    BY <1>2, <1>3, <1>4, SlackType, LimiterAssumption

-----------------------------------------------------------------------------
(* The sorted set is finite.                                               *)
LEMMA MembersFinite == TypeOK => IsFiniteSet(members)
  <1>1. IsFiniteSet(Times)
    BY FS_Interval, LimiterAssumption DEF Times
  <1> QED
    BY <1>1, FS_Subset DEF TypeOK

(* Type correctness.                                                       *)
THEOREM TypeCorrect == Spec => []TypeOK
  <1>1. Init => TypeOK
    BY LimiterAssumption DEF Init, TypeOK, Places, Verdicts, Times, NoTTL
  <1>2. TypeOK /\ [Next]_vars => TypeOK'
    <2> SUFFICES ASSUME TypeOK, [Next]_vars
                 PROVE  TypeOK'
      OBVIOUS
    <2> USE LimiterAssumption DEF TypeOK, Places, Verdicts, Times, NoTTL, call, key
    <2>1. CASE Tick
      <3>1. /\ clock' \in Times
            /\ UNCHANGED <<verdict, stamp, tries, at, count, countedAt>>
        BY <2>1 DEF Tick
      <3>2. members' \in SUBSET Times /\ (expireAt' = NoTTL \/ expireAt' = expireAt)
        BY <2>1 DEF Tick
      <3> QED
        BY <3>1, <3>2
    <2>2. ASSUME NEW r \in Requests, Begin(r)
          PROVE  TypeOK'
      BY <2>2 DEF Begin
    <2>3. ASSUME NEW r \in Requests, ZRem(r)
          PROVE  TypeOK'
      <3>1. members' \in SUBSET Times /\ (expireAt' = NoTTL \/ expireAt' = expireAt)
        BY <2>3 DEF ZRem
      <3>2. at' \in [Requests -> Places]
        BY <2>3 DEF ZRem
      <3> QED
        BY <2>3, <3>1, <3>2 DEF ZRem
    <2>4. ASSUME NEW r \in Requests, ZAdd(r)
          PROVE  TypeOK'
      BY <2>4 DEF ZAdd
    <2>5. ASSUME NEW r \in Requests, ZCard(r)
          PROVE  TypeOK'
      <3>1. Cardinality(members) \in Nat
        BY MembersFinite, FS_CardinalityType
      <3> QED
        BY <2>5, <3>1 DEF ZCard
    <2>6. ASSUME NEW r \in Requests, Expire(r)
          PROVE  TypeOK'
      BY <2>6 DEF Expire, Expiry
    <2>7. ASSUME NEW r \in Requests, Answer(r)
          PROVE  TypeOK'
      BY <2>7 DEF Answer, Decision
    <2>8. ASSUME NEW r \in Requests, Break(r)
          PROVE  TypeOK'
      BY <2>8 DEF Break
    <2>9. ASSUME NEW r \in Requests, Retry(r)
          PROVE  TypeOK'
      BY <2>9 DEF Retry
    <2>10. ASSUME NEW r \in Requests, Fail(r)
           PROVE  TypeOK'
      BY <2>10 DEF Fail
    <2>11. CASE UNCHANGED vars
      BY <2>11 DEF vars
    <2> QED
      BY <2>1, <2>2, <2>3, <2>4, <2>5, <2>6, <2>7, <2>8, <2>9, <2>10, <2>11
         DEF Next, Serve, Finished
  <1> QED
    BY <1>1, <1>2, PTL DEF Spec

-----------------------------------------------------------------------------
(* The stamps of a set of calls are times, hence finitely many.            *)
LEMMA StampsFinite ==
    ASSUME TypeOK, NEW S \in SUBSET Requests
    PROVE  IsFiniteSet(Stamps(S))
  <1>1. Stamps(S) \in SUBSET Times
    BY DEF Stamps, TypeOK
  <1>2. IsFiniteSet(Times)
    BY FS_Interval, LimiterAssumption DEF Times
  <1> QED
    BY <1>1, <1>2, FS_Subset

(* Fewer calls have no more stamps.                                        *)
LEMMA FewerStamps ==
    ASSUME TypeOK, NEW S \in SUBSET Requests, NEW T \in SUBSET S
    PROVE  /\ Cardinality(Stamps(T)) <= Cardinality(Stamps(S))
           /\ Cardinality(Stamps(T)) \in Nat
           /\ Cardinality(Stamps(S)) \in Nat
  <1>1. Stamps(T) \in SUBSET Stamps(S)
    BY DEF Stamps
  <1>2. IsFiniteSet(Stamps(S)) /\ IsFiniteSet(Stamps(T))
    BY StampsFinite
  <1> QED
    BY <1>1, <1>2, FS_Subset, FS_CardinalityType

(* The clock never runs backwards and a sent call keeps its stamp.         *)
LEMMA StampsStay ==
    ASSUME TypeOK, StampsArePast, [Next]_vars
    PROVE  /\ clock <= clock'
           /\ \A r \in Requests : stamp'[r] <= clock'
           /\ \A r \in Requests : at'[r] # "zrem" => stamp'[r] = stamp[r]
  <1> USE DEF TypeOK, StampsArePast, Times, call, key
  <1>1. CASE Tick
    <2>1. clock' = clock + 1 /\ stamp' = stamp
      BY <1>1 DEF Tick
    <2> QED
      BY <2>1, LimiterAssumption
  <1>2. ASSUME NEW r \in Requests, Begin(r)
        PROVE  /\ clock' = clock
               /\ \A s \in Requests : stamp'[s] <= clock'
               /\ \A s \in Requests : at'[s] # "zrem" => stamp'[s] = stamp[s]
    BY <1>2, LimiterAssumption DEF Begin
  <1>3. ASSUME NEW r \in Requests, Serve(r) \/ Break(r)
        PROVE  clock' = clock /\ stamp' = stamp
    BY <1>3 DEF Serve, Break, ZRem, ZAdd, ZCard, Expire, Answer, Retry, Fail
  <1>4. CASE UNCHANGED vars
    BY <1>4, LimiterAssumption DEF vars
  <1> QED
    BY <1>1, <1>2, <1>3, <1>4, LimiterAssumption DEF Next, Finished

(* Only a call whose count is within the limit is allowed, and nothing     *)
(* moves its pipeline afterwards.                                          *)
LEMMA AllowedStayPassed ==
    ASSUME TypeOK, AllowedArePassed, [Next]_vars
    PROVE  AllowedArePassed'
  <1> USE DEF TypeOK, AllowedArePassed, call, key
  <1>1. CASE Tick
    BY <1>1 DEF Tick
  <1>2. ASSUME NEW r \in Requests, Begin(r)
        PROVE  AllowedArePassed'
    BY <1>2 DEF Begin
  <1>3. ASSUME NEW r \in Requests, ZRem(r) \/ ZAdd(r) \/ ZCard(r) \/ Expire(r)
        PROVE  AllowedArePassed'
    BY <1>3 DEF ZRem, ZAdd, ZCard, Expire
  <1>4. ASSUME NEW r \in Requests, Answer(r)
        PROVE  AllowedArePassed'
    BY <1>4 DEF Answer, Decision
  <1>5. ASSUME NEW r \in Requests, Retry(r) \/ Fail(r) \/ Break(r)
        PROVE  AllowedArePassed'
    BY <1>5 DEF Retry, Fail, Break, Underway
  <1>6. CASE UNCHANGED vars
    BY <1>6 DEF vars
  <1> QED
    BY <1>1, <1>2, <1>3, <1>4, <1>5, <1>6 DEF Next, Serve, Finished

(* Redis forgets no counted call before its window is over: another call   *)
(* evicts only what is old (EvictedIsOld), and the key cannot expire       *)
(* between a ZCARD and its EXPIRE when pipelines run one by one.           *)
LEMMA CountedStayRemembered ==
    ASSUME Whole, TypeOK, StampsArePast, CountedAreRemembered, [Next]_vars
    PROVE  CountedAreRemembered'
  <1> USE LimiterAssumption, SlackType DEF TypeOK, Times, StampsArePast, CountedAreRemembered, call, key
  <1>1. CASE Tick
    <2> SUFFICES ASSUME NEW s \in Requests, at[s] = "done", Remembered(s),
                        stamp' = stamp, at' = at, clock' = clock + 1,
                        ~(stamp[s] + Window - Slack <= clock)
                 PROVE  Remembered(s)'
      BY <1>1 DEF Tick, Underway, Remembered
    <2>1. /\ stamp[s] \in members
          /\ expireAt = NoTTL \/ stamp[s] + Window <= expireAt
      BY DEF Remembered
    <2>2. CASE expireAt # NoTTL /\ clock + 1 > expireAt
      BY <2>1, <2>2 DEF Remembered
    <2>3. CASE members' = members /\ expireAt' = expireAt
      BY <2>1, <2>3 DEF Remembered
    <2> QED
      BY <1>1, <2>2, <2>3 DEF Tick
  <1>2. ASSUME NEW r \in Requests, Begin(r)
        PROVE  CountedAreRemembered'
    BY <1>2 DEF Begin, Remembered
  <1>3. ASSUME NEW r \in Requests, ZRem(r)
        PROVE  CountedAreRemembered'
    <2> SUFFICES ASSUME NEW s \in Requests, at[s] \in {"zcard", "expire", "done"},
                        s # r, Remembered(s), ~(stamp[s] + Window - Slack <= clock)
                 PROVE  Remembered(s)'
      BY <1>3 DEF ZRem, Remembered
    <2>1. ~Evicts(stamp[r], stamp[s])
      BY EvictedIsOld
    <2>2. stamp[s] \in members'
      BY <1>3, <2>1 DEF ZRem, Remembered
    <2> QED
      BY <1>3, <2>2 DEF ZRem, Remembered
  <1>4. ASSUME NEW r \in Requests, ZAdd(r)
        PROVE  CountedAreRemembered'
    BY <1>4 DEF ZAdd, Remembered
  <1>5. ASSUME NEW r \in Requests, ZCard(r)
        PROVE  CountedAreRemembered'
    BY <1>5 DEF ZCard, Remembered
  <1>6. ASSUME NEW r \in Requests, Expire(r)
        PROVE  CountedAreRemembered'
    <2> SUFFICES ASSUME NEW s \in Requests, at[s] \in {"zcard", "expire", "done"},
                        Remembered(s), ~(stamp[s] + Window - Slack <= clock)
                 PROVE  Remembered(s)'
      BY <1>6 DEF Expire, Expiry, Remembered
    <2> QED
      BY <1>6 DEF Expire, Expiry, Remembered
  <1>7. ASSUME NEW r \in Requests, Answer(r) \/ Fail(r)
        PROVE  CountedAreRemembered'
    BY <1>7 DEF Answer, Fail, Remembered
  <1>8. ASSUME NEW r \in Requests, Retry(r) \/ Break(r)
        PROVE  CountedAreRemembered'
    BY <1>8 DEF Retry, Break, Remembered
  <1>9. CASE UNCHANGED vars
    BY <1>9 DEF vars, Remembered
  <1> QED
    BY <1>1, <1>2, <1>3, <1>4, <1>5, <1>6, <1>7, <1>8, <1>9 DEF Next, Serve, Finished

(* When a call passes, all the calls passed in its interval, itself        *)
(* included, are in the set whose size it has just read.                   *)
LEMMA PassedAreCounted ==
    ASSUME TypeOK, StampsArePast, CountedAreRemembered,
           NEW r \in Requests, ZCard(r), Passed(r)',
           NEW delay \in 0 .. Window, NEW end \in Times,
           r \in PassedIn(end, Window - delay - Slack, delay)'
    PROVE  Stamps(PassedIn(end, Window - delay - Slack, delay))' \subseteq members
  <1> SUFFICES ASSUME NEW s \in PassedIn(end, Window - delay - Slack, delay)'
               PROVE  stamp[s] \in members
    BY DEF Stamps, ZCard, call
  <1> USE LimiterAssumption, SlackType DEF TypeOK, Times, call, key
  <1>1. clock <= end + delay
    <2>1. countedAt'[r] <= stamp'[r] + delay /\ stamp'[r] <= end
      BY DEF PassedIn
    <2>2. countedAt'[r] = clock /\ stamp' = stamp
      BY DEF ZCard
    <2> QED
      BY <2>1, <2>2
  <1>2. clock < stamp[s] + Window - Slack
    <2>1. s \in Requests /\ end - (Window - delay - Slack) < stamp[s]
      BY DEF PassedIn, ZCard
    <2> QED
      BY <1>1, <2>1
  <1>3. s \in Requests /\ at[s] \in {"zcard", "expire", "done"}
    BY DEF PassedIn, Passed, ZCard
  <1> QED
    BY <1>2, <1>3 DEF CountedAreRemembered, Remembered

(* No step other than a ZCARD lets another call pass.                      *)
LEMMA PassingIsCounting ==
    ASSUME TypeOK, [Next]_vars, ~\E r \in Requests : ZCard(r) /\ Passed(r)'
    PROVE  \A s \in Requests :
              Passed(s)' => /\ Passed(s)
                            /\ stamp'[s] = stamp[s]
                            /\ countedAt'[s] = countedAt[s]
  <1> USE DEF TypeOK, Passed, call, key
  <1>1. CASE Tick
    BY <1>1 DEF Tick
  <1>2. ASSUME NEW r \in Requests, Begin(r) \/ ZRem(r) \/ ZAdd(r)
        PROVE  \A s \in Requests :
                  Passed(s)' => Passed(s) /\ stamp'[s] = stamp[s] /\ countedAt'[s] = countedAt[s]
    BY <1>2 DEF Begin, ZRem, ZAdd
  <1>3. ASSUME NEW r \in Requests, ZCard(r), ~Passed(r)'
        PROVE  \A s \in Requests :
                  Passed(s)' => Passed(s) /\ stamp'[s] = stamp[s] /\ countedAt'[s] = countedAt[s]
    BY <1>3 DEF ZCard
  <1>4. ASSUME NEW r \in Requests, Expire(r) \/ Answer(r) \/ Retry(r) \/ Fail(r) \/ Break(r)
        PROVE  \A s \in Requests :
                  Passed(s)' => Passed(s) /\ stamp'[s] = stamp[s] /\ countedAt'[s] = countedAt[s]
    BY <1>4 DEF Expire, Answer, Retry, Fail, Break
  <1>5. CASE UNCHANGED vars
    BY <1>5 DEF vars
  <1> QED
    BY <1>1, <1>2, <1>3, <1>4, <1>5 DEF Next, Serve, Finished

LEMMA PassedStayBounded ==
    ASSUME TypeOK, TypeOK', StampsArePast, CountedAreRemembered, PassedBound, [Next]_vars
    PROVE  PassedBound'
  <1> SUFFICES ASSUME NEW delay \in 0 .. Window, NEW end \in Times
               PROVE  Cardinality(Stamps(PassedIn(end, Window - delay - Slack, delay)))' <= Limit
    BY DEF PassedBound
  <1> DEFINE P == PassedIn(end, Window - delay - Slack, delay)
  <1>1. CASE \E r \in Requests : ZCard(r) /\ Passed(r)' /\ r \in P'
    <2> PICK r \in Requests : ZCard(r) /\ Passed(r)' /\ r \in P'
      BY <1>1
    <2>1. Stamps(P)' \in SUBSET members
      BY PassedAreCounted
    <2>2. IsFiniteSet(members) /\ Cardinality(members) \in Nat
      BY MembersFinite, FS_CardinalityType
    <2>3. Cardinality(Stamps(P)') <= Cardinality(members) /\ Cardinality(Stamps(P)') \in Nat
      BY <2>1, <2>2, FS_Subset, FS_CardinalityType
    <2>4. Cardinality(members) <= Limit
      BY DEF ZCard, Passed, TypeOK
    <2> QED
      BY <2>2, <2>3, <2>4, LimiterAssumption
  <1>2. CASE ~\E r \in Requests : ZCard(r) /\ Passed(r)' /\ r \in P'
    <2>1. P' \subseteq P /\ \A s \in P' : stamp'[s] = stamp[s]
      <3> SUFFICES ASSUME NEW s \in P'
                   PROVE  s \in P /\ stamp'[s] = stamp[s]
        OBVIOUS
      <3>1. s \in Requests /\ Passed(s)' /\ ~ZCard(s)
        BY <1>2 DEF PassedIn
      <3>2. Passed(s) /\ stamp'[s] = stamp[s] /\ countedAt'[s] = countedAt[s]
        <4>1. CASE \E r \in Requests : ZCard(r) /\ Passed(r)'
          BY <3>1, <4>1 DEF ZCard, Passed, call, TypeOK
        <4>2. CASE ~\E r \in Requests : ZCard(r) /\ Passed(r)'
          BY <3>1, <4>2, PassingIsCounting
        <4> QED
          BY <4>1, <4>2
      <3> QED
        BY <3>1, <3>2 DEF PassedIn
    <2>2. Stamps(P)' = {stamp[s] : s \in P'}
      BY <2>1 DEF Stamps
    <2>3. P \in SUBSET Requests /\ P' \in SUBSET P
      BY <2>1 DEF PassedIn
    <2>4. Cardinality(Stamps(P)') <= Cardinality(Stamps(P))
          /\ Cardinality(Stamps(P)') \in Nat /\ Cardinality(Stamps(P)) \in Nat
      BY <2>2, <2>3, FewerStamps DEF Stamps
    <2>5. Cardinality(Stamps(P)) <= Limit
      BY DEF PassedBound
    <2> QED
      BY <2>4, <2>5, LimiterAssumption
  <1> QED
    BY <1>1, <1>2

(* The calls allowed are among the calls passed.                           *)
LEMMA WindowInvariantSuffices == WindowInvariant => WindowBound
  <1> SUFFICES ASSUME WindowInvariant, NEW delay \in 0 .. Window, NEW end \in Times
               PROVE  Cardinality(Stamps(AllowedIn(end, Window - delay - Slack, delay))) <= Limit
    BY DEF WindowBound
  <1> DEFINE P == PassedIn(end, Window - delay - Slack, delay)
             A == AllowedIn(end, Window - delay - Slack, delay)
  <1>1. P \in SUBSET Requests /\ A \in SUBSET P
    BY DEF AllowedIn, PassedIn, Passed, WindowInvariant, AllowedArePassed
  <1>2. Cardinality(Stamps(P)) <= Limit
    BY DEF WindowInvariant, PassedBound
  <1> HIDE DEF P, A
  <1>3. /\ Cardinality(Stamps(A)) <= Cardinality(Stamps(P))
        /\ Cardinality(Stamps(A)) \in Nat
        /\ Cardinality(Stamps(P)) \in Nat
    BY <1>1, FewerStamps DEF WindowInvariant
  <1> QED
    BY <1>2, <1>3, LimiterAssumption DEF A

-----------------------------------------------------------------------------
(* The limit is kept: when Redis executes pipelines one by one, any        *)
(* interval shorter than the window by the counting delay and the rounding *)
(* of the scores has at most Limit distinct allowed stamps.                *)
THEOREM LimitIsKept == ASSUME Whole PROVE Spec => []WindowBound
  <1>1. Init => WindowInvariant
    <2> SUFFICES ASSUME Init PROVE WindowInvariant
      OBVIOUS
    <2>1. StampsArePast /\ AllowedArePassed /\ CountedAreRemembered
      BY LimiterAssumption DEF Init, StampsArePast, AllowedArePassed, CountedAreRemembered
    <2>2. ASSUME NEW delay, NEW end
          PROVE  Cardinality(Stamps(PassedIn(end, Window - delay - Slack, delay))) = 0
      <3>1. Stamps(PassedIn(end, Window - delay - Slack, delay)) = {}
        BY DEF Init, PassedIn, Passed, Stamps
      <3> QED
        BY <3>1, FS_EmptySet
    <2>3. PassedBound
      BY <2>2, LimiterAssumption DEF PassedBound
    <2>4. TypeOK
      BY LimiterAssumption DEF Init, TypeOK, Places, Verdicts, Times, NoTTL
    <2> QED
      BY <2>1, <2>3, <2>4 DEF WindowInvariant
  <1>2. TypeOK /\ TypeOK' /\ WindowInvariant /\ [Next]_vars => WindowInvariant'
    <2> SUFFICES ASSUME TypeOK, TypeOK', WindowInvariant, [Next]_vars
                 PROVE  WindowInvariant'
      OBVIOUS
    <2>1. StampsArePast'
      BY StampsStay DEF WindowInvariant, StampsArePast
    <2>2. AllowedArePassed'
      BY AllowedStayPassed DEF WindowInvariant
    <2>3. CountedAreRemembered'
      BY CountedStayRemembered DEF WindowInvariant
    <2>4. PassedBound'
      BY PassedStayBounded DEF WindowInvariant
    <2> QED
      BY <2>1, <2>2, <2>3, <2>4 DEF WindowInvariant
  <1> QED
    BY <1>1, <1>2, TypeCorrect, WindowInvariantSuffices, PTL DEF Spec
=============================================================================
