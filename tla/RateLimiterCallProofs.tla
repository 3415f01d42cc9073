------------------------ MODULE RateLimiterCallProofs ------------------------
(***************************************************************************)
(* What a single caller of AllowRequest can rely on: the key lives as long *)
(* as what it holds, a denial is justified, and after a silence of one     *)
(* window the quota is there again, whatever was denied before.            *)
(***************************************************************************)
EXTENDS RateLimiterProofs

(* A call that is on its way has been made; one that has its verdict has   *)
(* run its pipeline to the end or lost it for good.                        *)
CallsInStep ==
    \A r \in Requests :
        /\ at[r] # "unsent" => verdict[r] # "none"
        /\ verdict[r] = "denied" => at[r] = "done" /\ count[r] > Limit

LEMMA CallsStayInStep ==
    ASSUME TypeOK, CallsInStep, [Next]_vars
    PROVE  CallsInStep'
  <1> USE LimiterAssumption DEF TypeOK, CallsInStep, call, key
  <1>1. CASE Tick
    BY <1>1 DEF Tick
  <1>2. ASSUME NEW r \in Requests, Begin(r)
        PROVE  CallsInStep'
    BY <1>2 DEF Begin
  <1>3. ASSUME NEW r \in Requests, ZRem(r) \/ ZAdd(r) \/ Expire(r)
        PROVE  CallsInStep'
    BY <1>3 DEF ZRem, ZAdd, Expire
  <1>4. ASSUME NEW r \in Requests, ZCard(r)
        PROVE  CallsInStep'
    BY <1>4 DEF ZCard
  <1>5. ASSUME NEW r \in Requests, Answer(r)
        PROVE  CallsInStep'
    <2>1. /\ verdict' = [verdict EXCEPT ![r] = Decision(count[r])]
          /\ at[r] = "done" /\ UNCHANGED <<at, count>>
      BY <1>5 DEF Answer
    <2>2. count[r] \in Nat /\ Limit \in Nat
      OBVIOUS
    <2>3. Decision(count[r]) # "none" /\ (Decision(count[r]) = "denied" => count[r] > Limit)
      BY <2>2 DEF Decision
    <2> QED
      BY <2>1, <2>3
  <1>6. ASSUME NEW r \in Requests, Retry(r) \/ Fail(r) \/ Break(r)
        PROVE  CallsInStep'
    BY <1>6 DEF Retry, Fail, Break, Underway
  <1>7. CASE UNCHANGED vars
    BY <1>7 DEF vars
  <1> QED
    BY <1>1, <1>2, <1>3, <1>4, <1>5, <1>6, <1>7 DEF Next, Serve, Finished

(* A call that was made keeps its stamp and stays made.                    *)
LEMMA CallsStay ==
    ASSUME TypeOK, [Next]_vars, NEW r \in Requests, verdict[r] # "none"
    PROVE  verdict'[r] # "none" /\ stamp'[r] = stamp[r]
  <1> USE DEF TypeOK, call, key
  <1>1. CASE Tick
    BY <1>1 DEF Tick
  <1>2. ASSUME NEW s \in Requests, Begin(s)
        PROVE  verdict'[r] # "none" /\ stamp'[r] = stamp[r]
    BY <1>2 DEF Begin
  <1>3. ASSUME NEW s \in Requests, Serve(s) \/ Break(s)
        PROVE  verdict'[r] # "none" /\ stamp'[r] = stamp[r]
    BY <1>3 DEF Serve, Break, ZRem, ZAdd, ZCard, Expire, Answer, Retry, Fail, Decision
  <1>4. CASE UNCHANGED vars
    BY <1>4 DEF vars
  <1> QED
    BY <1>1, <1>2, <1>3, <1>4 DEF Next, Finished

-----------------------------------------------------------------------------
(* The key.  The expiry is set with the clock, so it is never more than a  *)
(* window ahead; members are stamps of the past, so an EXPIRE that is      *)
(* executed covers all of them; and what a ZADD leaves uncovered belongs   *)
(* to a call that is half executed.                                        *)
MembersArePast == \A m \in members : m <= clock

ExpiryIsNear == expireAt # NoTTL => expireAt <= clock + Window

Covered == expireAt # NoTTL /\ \A m \in members : m + Window <= expireAt

KeyCovered == members = {} \/ Covered \/ \E r \in Requests : HalfExecuted(r)

KeyInvariant ==
    TypeOK /\ CallsInStep /\ StampsArePast /\ MembersArePast /\ ExpiryIsNear /\ KeyCovered

LEMMA MembersStayPast ==
    ASSUME TypeOK, StampsArePast, MembersArePast, [Next]_vars
    PROVE  MembersArePast'
  <1> USE LimiterAssumption DEF TypeOK, Times, StampsArePast, MembersArePast, call, key
  <1>1. CASE Tick
    <2>1. clock' = clock + 1 /\ members' \subseteq members
      BY <1>1 DEF Tick
    <2> QED
      BY <2>1
  <1>2. ASSUME NEW r \in Requests, ZRem(r)
        PROVE  MembersArePast'
    BY <1>2 DEF ZRem
  <1>3. ASSUME NEW r \in Requests, ZAdd(r)
        PROVE  MembersArePast'
    BY <1>3 DEF ZAdd
  <1>4. CASE UNCHANGED <<members, clock>>
    BY <1>4
  <1>5. ASSUME NEW r \in Requests,
               Begin(r) \/ ZCard(r) \/ Expire(r) \/ Answer(r) \/ Retry(r) \/ Fail(r) \/ Break(r)
        PROVE  UNCHANGED <<members, clock>>
    BY <1>5 DEF Begin, ZCard, Expire, Answer, Retry, Fail, Break
  <1>6. CASE UNCHANGED vars
    BY <1>4, <1>6 DEF vars
  <1> QED
    BY <1>1, <1>2, <1>3, <1>4, <1>5, <1>6 DEF Next, Serve, Finished

LEMMA ExpiryStaysNear ==
    ASSUME TypeOK, ExpiryIsNear, [Next]_vars
    PROVE  ExpiryIsNear'
  <1> USE LimiterAssumption DEF TypeOK, Times, ExpiryIsNear, NoTTL, call, key
  <1>1. CASE Tick
    <2>1. clock' = clock + 1 /\ (expireAt' = NoTTL \/ expireAt' = expireAt)
      BY <1>1 DEF Tick
    <2> QED
      BY <2>1
  <1>2. ASSUME NEW r \in Requests, ZRem(r)
        PROVE  ExpiryIsNear'
    <2>1. clock' = clock /\ (expireAt' = NoTTL \/ expireAt' = expireAt)
      BY <1>2 DEF ZRem
    <2> QED
      BY <2>1
  <1>3. ASSUME NEW r \in Requests, Expire(r)
        PROVE  ExpiryIsNear'
    <2>1. clock' = clock /\ (expireAt' = NoTTL \/ expireAt' = clock + Window)
      BY <1>3 DEF Expire, Expiry
    <2> QED
      BY <2>1
  <1>4. CASE UNCHANGED <<expireAt, clock>>
    BY <1>4
  <1>5. ASSUME NEW r \in Requests,
               Begin(r) \/ ZAdd(r) \/ ZCard(r) \/ Answer(r) \/ Retry(r) \/ Fail(r) \/ Break(r)
        PROVE  UNCHANGED <<expireAt, clock>>
    BY <1>5 DEF Begin, ZAdd, ZCard, Answer, Retry, Fail, Break
  <1>6. CASE UNCHANGED vars
    BY <1>4, <1>6 DEF vars
  <1> QED
    BY <1>1, <1>2, <1>3, <1>4, <1>5, <1>6 DEF Next, Serve, Finished

(* A call is half executed until its EXPIRE.                               *)
LEMMA HalfStaysHalf ==
    ASSUME TypeOK, CallsInStep, [Next]_vars, NEW r \in Requests, HalfExecuted(r), ~Expire(r)
    PROVE  HalfExecuted(r)'
  <1> USE LimiterAssumption DEF TypeOK, HalfExecuted, Underway, call, key
  <1>1. CASE Tick
    BY <1>1 DEF Tick
  <1>2. ASSUME NEW s \in Requests, ZRem(s) \/ ZAdd(s) \/ ZCard(s) \/ Break(s)
        PROVE  HalfExecuted(r)'
    BY <1>2 DEF ZRem, ZAdd, ZCard, Break
  <1>7. ASSUME NEW s \in Requests, Begin(s)
        PROVE  HalfExecuted(r)'
    <2>1. s # r
      BY <1>7 DEF Begin, CallsInStep
    <2> QED
      BY <1>7, <2>1 DEF Begin
  <1>3. ASSUME NEW s \in Requests, Expire(s)
        PROVE  HalfExecuted(r)'
    BY <1>3 DEF Expire
  <1>4. ASSUME NEW s \in Requests, Answer(s) \/ Fail(s)
        PROVE  HalfExecuted(r)'
    BY <1>4 DEF Answer, Fail
  <1>5. ASSUME NEW s \in Requests, Retry(s)
        PROVE  HalfExecuted(r)'
    BY <1>5 DEF Retry
  <1>6. CASE UNCHANGED vars
    BY <1>6 DEF vars
  <1> QED
    BY <1>1, <1>2, <1>3, <1>4, <1>5, <1>6, <1>7 DEF Next, Serve, Finished

LEMMA KeyStaysCovered ==
    ASSUME KeyInvariant, [Next]_vars
    PROVE  KeyCovered'
  <1> USE LimiterAssumption DEF KeyInvariant, TypeOK, Times, KeyCovered, Covered, call, key
  <1>1. ASSUME NEW r \in Requests, Expire(r)
        PROVE  KeyCovered'
    <2>1. members' = members /\ (members = {} \/ expireAt' = clock + Window)
      BY <1>1 DEF Expire, Expiry
    <2>2. \A m \in members : m + Window <= clock + Window
      BY DEF MembersArePast
    <2>3. clock + Window # NoTTL
      BY DEF NoTTL
    <2> QED
      BY <2>1, <2>2, <2>3
  <1>2. ASSUME \A r \in Requests : ~Expire(r), NEW s \in Requests, HalfExecuted(s)
        PROVE  KeyCovered'
    BY <1>2, HalfStaysHalf
  <1>3. ASSUME \A r \in Requests : ~Expire(r) /\ ~HalfExecuted(r)
        PROVE  KeyCovered'
    <2>1. CASE Tick
      BY <1>3, <2>1 DEF Tick
    <2>2. ASSUME NEW r \in Requests, ZRem(r) \/ Break(r)
          PROVE  HalfExecuted(r)'
      BY <2>2 DEF ZRem, Break, HalfExecuted, Underway
    <2>3. ASSUME NEW r \in Requests
          PROVE  ~ZAdd(r) /\ ~ZCard(r) /\ ~Retry(r)
      BY <1>3, <2>3 DEF ZAdd, ZCard, Retry, HalfExecuted, Underway
    <2>4. ASSUME NEW r \in Requests, Begin(r) \/ Answer(r) \/ Fail(r)
          PROVE  UNCHANGED key
      BY <2>4 DEF Begin, Answer, Fail
    <2>5. CASE UNCHANGED vars
      BY <1>3, <2>5 DEF vars
    <2> QED
      BY <1>3, <2>1, <2>2, <2>3, <2>4, <2>5 DEF Next, Serve, Finished
  <1> QED
    BY <1>1, <1>2, <1>3

(* The key outlives its members and is collected a window after the last   *)
(* call, as long as no pipeline is half executed; Redis may interleave the *)
(* pipelines.                                                              *)
THEOREM KeyLivesAsLongAsNeeded == Spec => []KeyLifetime
  <1>1. Init => CallsInStep /\ StampsArePast /\ MembersArePast /\ ExpiryIsNear /\ KeyCovered
    BY LimiterAssumption
    DEF Init, CallsInStep, StampsArePast, MembersArePast, ExpiryIsNear, KeyCovered, NoTTL
  <1>2. /\ TypeOK /\ CallsInStep /\ StampsArePast /\ MembersArePast /\ ExpiryIsNear /\ KeyCovered
        /\ [Next]_vars
        => CallsInStep' /\ StampsArePast' /\ MembersArePast' /\ ExpiryIsNear' /\ KeyCovered'
    BY CallsStayInStep, StampsStay, MembersStayPast, ExpiryStaysNear, KeyStaysCovered
    DEF KeyInvariant, StampsArePast
  <1>3. TypeOK /\ ExpiryIsNear /\ KeyCovered => KeyLifetime
    BY DEF ExpiryIsNear, KeyCovered, Covered, KeyLifetime
  <1> QED
    BY <1>1, <1>2, <1>3, TypeCorrect, PTL DEF Spec

-----------------------------------------------------------------------------
(* Denials.  One at a time: while Redis is in the pipeline of a call,      *)
(* nothing else touches the set, which then holds only what that call      *)
(* counts as recent.                                                       *)
Made == {s \in Requests : verdict[s] # "none"}

Recent(r) == {s \in Made : stamp[s] > stamp[r] - Window - Slack}

MembersAreMade == members \subseteq Stamps(Made)

OneByOne == \A r, s \in Requests : Underway(r) /\ Underway(s) => r = s

PrunedForCall ==
    \A r \in Requests :
        Underway(r) => \A m \in members : m = stamp[r] \/ ~Evicts(stamp[r], m)

CountsAreRecent ==
    \A r \in Requests :
        at[r] \in {"expire", "done"} => count[r] <= Cardinality(Stamps(Recent(r)))

(* The score of a time is not negative, so ZREMRANGEBYSCORE from 0 on      *)
(* leaves nothing behind that is old enough.                               *)
LEMMA ScoreIsNatural ==
    ASSUME NEW t \in Nat
    PROVE  Score(t) >= 0
  <1> DEFINE q == t \div Quantum
             r == t % Quantum
  <1>1. t = Quantum * q + r /\ r \in 0 .. (Quantum - 1) /\ q \in Int
    BY LimiterAssumption, Division
  <1>2. q >= 0
    BY LimiterAssumption
  <1>3. q * Quantum >= 0 /\ (q + 1) * Quantum >= 0
    BY <1>1, <1>2, LimiterAssumption
  <1> HIDE DEF q, r
  <1> QED
    BY <1>3 DEF Score, q, r

LEMMA KeptIsRecent ==
    ASSUME NEW now \in Int, NEW m \in Nat, ~Evicts(now, m)
    PROVE  m > now - Window - Slack
  <1>1. now - Window \in Int
    BY LimiterAssumption
  <1>2. /\ Score(m) \in Int /\ Score(m) >= 0
        /\ 2 * (Score(m) - m) <= Slack
    BY ScoreError, ScoreIsNatural
  <1>3. /\ Score(now - Window) \in Int
        /\ 2 * ((now - Window) - Score(now - Window)) <= Slack
    BY <1>1, ScoreError
  <1>4. Score(m) > Score(now - Window)
    BY <1>2, <1>3 DEF Evicts
  <1> QED
    BY <1>2, <1>3, <1>4, SlackType, LimiterAssumption

(* Only ZREMRANGEBYSCORE opens the pipeline of a call; only ZADD puts a    *)
(* member into the set.                                                    *)
LEMMA PipelinesStayApart ==
    ASSUME Whole, TypeOK, OneByOne, [Next]_vars
    PROVE  OneByOne'
  <1> USE DEF TypeOK, OneByOne, Underway, call, key
  <1>1. ASSUME NEW r \in Requests, ZRem(r)
        PROVE  OneByOne'
    BY <1>1 DEF ZRem, Turn
  <1>2. ASSUME NEW r \in Requests, ZAdd(r) \/ ZCard(r) \/ Expire(r)
        PROVE  OneByOne'
    BY <1>2 DEF ZAdd, ZCard, Expire
  <1>3. ASSUME NEW r \in Requests, Begin(r) \/ Retry(r) \/ Break(r)
        PROVE  OneByOne'
    BY <1>3 DEF Begin, Retry, Break
  <1>4. ASSUME NEW r \in Requests, Answer(r) \/ Fail(r)
        PROVE  OneByOne'
    BY <1>4 DEF Answer, Fail
  <1>5. CASE Tick \/ UNCHANGED vars
    BY <1>5 DEF Tick, vars
  <1> QED
    BY <1>1, <1>2, <1>3, <1>4, <1>5 DEF Next, Serve, Finished

LEMMA SetStaysPruned ==
    ASSUME Whole, TypeOK, OneByOne, PrunedForCall, [Next]_vars
    PROVE  PrunedForCall'
  <1> USE DEF TypeOK, PrunedForCall, Underway, call, key
  <1>1. ASSUME NEW r \in Requests, ZRem(r)
        PROVE  PrunedForCall'
    <2>2. \A m \in members' : ~Evicts(stamp[r], m)
      BY <1>1 DEF ZRem
    <2>3. \A s \in Requests \ {r} : ~Underway(s)'
      BY <1>1 DEF ZRem, Turn
    <2>4. stamp' = stamp
      BY <1>1 DEF ZRem
    <2> QED
      BY <2>2, <2>3, <2>4
  <1>2. ASSUME NEW r \in Requests, ZAdd(r)
        PROVE  PrunedForCall'
    <2>1. \A s \in Requests \ {r} : ~Underway(s)'
      BY <1>2 DEF ZAdd, Turn
    <2>2. /\ \A m \in members : m = stamp[r] \/ ~Evicts(stamp[r], m)
          /\ members' = members \cup {stamp[r]} /\ stamp' = stamp
      BY <1>2 DEF ZAdd
    <2> QED
      BY <2>1, <2>2
  <1>3. ASSUME NEW r \in Requests, ZCard(r) \/ Expire(r)
        PROVE  PrunedForCall'
    BY <1>3 DEF ZCard, Expire
  <1>4. ASSUME NEW r \in Requests, Begin(r) \/ Retry(r) \/ Break(r)
        PROVE  PrunedForCall'
    BY <1>4 DEF Begin, Retry, Break
  <1>5. ASSUME NEW r \in Requests, Answer(r) \/ Fail(r)
        PROVE  PrunedForCall'
    BY <1>5 DEF Answer, Fail
  <1>6. CASE Tick \/ UNCHANGED vars
    BY <1>6 DEF Tick, vars
  <1> QED
    BY <1>1, <1>2, <1>3, <1>4, <1>5, <1>6 DEF Next, Serve, Finished

(* Every member in the set after a step was there, or is the stamp of the  *)
(* call whose ZADD was the step.                                           *)
LEMMA MembersCome ==
    ASSUME TypeOK, [Next]_vars
    PROVE  \/ members' \subseteq members
           \/ \E r \in Requests : ZAdd(r) /\ members' = members \cup {stamp[r]}
  <1> USE DEF call, key
  <1>1. ASSUME NEW r \in Requests, Serve(r) \/ Begin(r) \/ Break(r)
        PROVE  members' \subseteq members \/ (ZAdd(r) /\ members' = members \cup {stamp[r]})
    BY <1>1 DEF Serve, ZRem, ZAdd, ZCard, Expire, Answer, Retry, Fail, Begin, Break
  <1>2. CASE Tick \/ UNCHANGED vars
    BY <1>2 DEF Tick, vars
  <1> QED
    BY <1>1, <1>2 DEF Next, Finished

LEMMA MembersStayMade ==
    ASSUME TypeOK, CallsInStep, MembersAreMade, [Next]_vars
    PROVE  MembersAreMade'
  <1>1. Stamps(Made) \subseteq Stamps(Made)'
    BY CallsStay DEF Stamps, Made
  <1>2. ASSUME NEW r \in Requests, ZAdd(r)
        PROVE  stamp[r] \in Stamps(Made)
    BY <1>2 DEF ZAdd, CallsInStep, Stamps, Made
  <1> QED
    BY <1>1, <1>2, MembersCome DEF MembersAreMade

(* Times are finitely many, and more times are counted as more.            *)
LEMMA MoreTimes ==
    ASSUME NEW T \in SUBSET Times, NEW S \in SUBSET T
    PROVE  /\ Cardinality(S) \in Nat /\ Cardinality(T) \in Nat
           /\ Cardinality(S) <= Cardinality(T)
  <1>1. IsFiniteSet(Times)
    BY FS_Interval, LimiterAssumption DEF Times
  <1>2. IsFiniteSet(T)
    BY <1>1, FS_Subset
  <1> QED
    BY <1>2, FS_Subset, FS_CardinalityType

LEMMA RecentGrow ==
    ASSUME TypeOK, TypeOK', [Next]_vars, NEW r \in Requests, verdict[r] # "none"
    PROVE  /\ Cardinality(Stamps(Recent(r))) \in Nat
           /\ Cardinality(Stamps(Recent(r)))' \in Nat
           /\ Cardinality(Stamps(Recent(r))) <= Cardinality(Stamps(Recent(r)))'
  <1>1. Stamps(Recent(r)) \subseteq Stamps(Recent(r))'
    <2>1. stamp'[r] = stamp[r]
      BY CallsStay
    <2>2. \A s \in Recent(r) : s \in Recent(r)' /\ stamp'[s] = stamp[s]
      BY <2>1, CallsStay DEF Recent, Made
    <2> QED
      BY <2>2 DEF Stamps
  <1>2. Stamps(Recent(r))' \subseteq Times
    BY DEF Stamps, Recent, Made, TypeOK
  <1> QED
    BY <1>1, <1>2, MoreTimes

(* Nothing but ZCARD writes the count of a call that has been counted.     *)
LEMMA CountsComeFromZCard ==
    ASSUME TypeOK, [Next]_vars, NEW r \in Requests, at'[r] \in {"expire", "done"}, ~ZCard(r)
    PROVE  at[r] \in {"expire", "done"} /\ count'[r] = count[r]
  <1> USE DEF TypeOK, call, key
  <1>1. ASSUME NEW s \in Requests, Begin(s) \/ ZRem(s) \/ ZAdd(s)
        PROVE  at[r] \in {"expire", "done"} /\ count'[r] = count[r]
    BY <1>1 DEF Begin, ZRem, ZAdd
  <1>2. ASSUME NEW s \in Requests, ZCard(s) \/ Expire(s)
        PROVE  at[r] \in {"expire", "done"} /\ count'[r] = count[r]
    BY <1>2 DEF ZCard, Expire
  <1>3. ASSUME NEW s \in Requests, Answer(s) \/ Retry(s) \/ Fail(s) \/ Break(s)
        PROVE  at[r] \in {"expire", "done"} /\ count'[r] = count[r]
    BY <1>3 DEF Answer, Retry, Fail, Break
  <1>4. CASE Tick \/ UNCHANGED vars
    BY <1>4 DEF Tick, vars
  <1> QED
    BY <1>1, <1>2, <1>3, <1>4 DEF Next, Serve, Finished

LEMMA CountsStayRecent ==
    ASSUME TypeOK, TypeOK', CallsInStep, MembersAreMade, PrunedForCall, CountsAreRecent, [Next]_vars
    PROVE  CountsAreRecent'
  <1> SUFFICES ASSUME NEW r \in Requests, at'[r] \in {"expire", "done"}
               PROVE  count'[r] <= Cardinality(Stamps(Recent(r)))'
    BY DEF CountsAreRecent
  <1>1. CASE ZCard(r)
    <2>1. /\ Underway(r) /\ verdict[r] # "none"
          /\ count'[r] = Cardinality(members) /\ UNCHANGED <<verdict, stamp>>
      BY <1>1 DEF ZCard, Underway, CallsInStep, TypeOK, call
    <2>2. members \subseteq Stamps(Recent(r))
      <3> SUFFICES ASSUME NEW m \in members PROVE m > stamp[r] - Window - Slack
        BY DEF MembersAreMade, Stamps, Recent
      <3>1. m \in Nat /\ stamp[r] \in Nat
        BY DEF TypeOK, Times
      <3>2. CASE m = stamp[r]
        BY <3>1, <3>2, LimiterAssumption, SlackType
      <3>3. CASE ~Evicts(stamp[r], m)
        BY <3>1, <3>3, KeptIsRecent
      <3> QED
        BY <2>1, <3>2, <3>3 DEF PrunedForCall
    <2>3. Stamps(Recent(r)) \subseteq Times
      BY DEF Stamps, Recent, Made, TypeOK
    <2>4. Cardinality(members) <= Cardinality(Stamps(Recent(r))) /\ Cardinality(members) \in Nat
      BY <2>2, <2>3, MoreTimes
    <2> QED
      BY <2>1, <2>4, RecentGrow
  <1>2. CASE ~ZCard(r)
    <2>1. at[r] \in {"expire", "done"} /\ count'[r] = count[r]
      BY <1>2, CountsComeFromZCard
    <2>2. verdict[r] # "none" /\ count[r] \in Nat
      BY <2>1 DEF CallsInStep, TypeOK
    <2>3. count[r] <= Cardinality(Stamps(Recent(r)))
      BY <2>1 DEF CountsAreRecent
    <2> QED
      BY <2>1, <2>2, <2>3, RecentGrow
  <1> QED
    BY <1>1, <1>2

DenialInvariant ==
    /\ TypeOK /\ CallsInStep /\ OneByOne
    /\ MembersAreMade /\ PrunedForCall /\ CountsAreRecent

LEMMA DenialInvariantHolds == ASSUME Whole PROVE Spec => []DenialInvariant
  <1>1. Init => DenialInvariant
    <2> SUFFICES ASSUME Init PROVE DenialInvariant
      OBVIOUS
    <2>1. TypeOK
      BY LimiterAssumption DEF Init, TypeOK, Places, Verdicts, Times, NoTTL
    <2>2. CallsInStep /\ OneByOne /\ MembersAreMade /\ PrunedForCall /\ CountsAreRecent
      BY DEF Init, CallsInStep, OneByOne, MembersAreMade, PrunedForCall, CountsAreRecent, Underway
    <2> QED
      BY <2>1, <2>2 DEF DenialInvariant
  <1>2. TypeOK /\ TypeOK' /\ DenialInvariant /\ [Next]_vars => DenialInvariant'
    BY CallsStayInStep, PipelinesStayApart, MembersStayMade, SetStaysPruned, CountsStayRecent
    DEF DenialInvariant
  <1> QED
    BY <1>1, <1>2, TypeCorrect, PTL DEF Spec

(* When pipelines run one by one, a denial means that more than Limit      *)
(* calls with different stamps were made within the window, up to the      *)
(* rounding of scores.                                                     *)
THEOREM DenialsAreJustified == ASSUME Whole PROVE Spec => []RejectionJustified
  <1>1. DenialInvariant => RejectionJustified
    <2> SUFFICES ASSUME DenialInvariant, NEW r \in Requests, verdict[r] = "denied"
                 PROVE  Cardinality(Stamps(Recent(r))) > Limit
      BY DEF RejectionJustified, Stamps, Recent, Made
    <2>1. at[r] = "done" /\ count[r] > Limit /\ count[r] \in Nat
      BY DEF DenialInvariant, CallsInStep, TypeOK
    <2>2. count[r] <= Cardinality(Stamps(Recent(r)))
      BY <2>1 DEF DenialInvariant, CountsAreRecent
    <2>3. Stamps(Recent(r)) \subseteq Times
      BY DEF Stamps, Recent, Made, DenialInvariant, TypeOK
    <2>4. Cardinality(Stamps(Recent(r))) \in Nat
      BY <2>3, MoreTimes
    <2> QED
      BY <2>1, <2>2, <2>4, LimiterAssumption
  <1> QED
    BY <1>1, DenialInvariantHolds, PTL

-----------------------------------------------------------------------------
(* Silence.  A call is spent once it was counted within the limit, or once *)
(* a try of it was lost: it will not be denied, or it has been sent again. *)
(* Until Limit calls made since t are spent, the set holds of the time     *)
(* since t only stamps of such calls and of the one being counted; and a   *)
(* silence of a window before t leaves nothing older for a later call.     *)
CountingSince(t) == {s \in Made : t <= stamp[s] /\ at[s] = "zcard"}

Enough(t) == Cardinality(SpentSince(t)) >= Limit

MembersSince(t) == {m \in members : t <= m}

MembersAreSpent ==
    \A t \in Times :
        Silence(t) =>
            Enough(t) \/ MembersSince(t) \subseteq Stamps(SpentSince(t) \cup CountingSince(t))

ExcessIsEarned ==
    \A r \in Requests, t \in Times :
        (/\ at[r] \in {"expire", "done"} /\ count[r] > Limit
         /\ t <= stamp[r] /\ Silence(t)) => Enough(t)

(* More calls, less silence.                                               *)
LEMMA SilenceWasThere ==
    ASSUME TypeOK, [Next]_vars, NEW t, Silence(t)'
    PROVE  Silence(t)
  BY CallsStay DEF Silence

(* A later time has no smaller score.                                      *)
LEMMA ScoreIsMonotone ==
    ASSUME NEW a \in Int, NEW b \in Int, a <= b
    PROVE  Score(a) <= Score(b)
  <1> DEFINE q(x) == x \div Quantum
             r(x) == x % Quantum
             up(x) == ~(2 * r(x) < Quantum \/ (2 * r(x) = Quantum /\ q(x) % 2 = 0))
             low(x) == q(x) * Quantum
  <1>1. ASSUME NEW x \in Int
        PROVE  /\ x = low(x) + r(x) /\ r(x) \in 0 .. (Quantum - 1) /\ q(x) \in Int
               /\ low(x) \in Int
               /\ Score(x) = IF up(x) THEN low(x) + Quantum ELSE low(x)
    <2>1. x = Quantum * q(x) + r(x) /\ r(x) \in 0 .. (Quantum - 1) /\ q(x) \in Int
      BY LimiterAssumption, Division
    <2>2. Score(x) = IF up(x) THEN (q(x) + 1) * Quantum ELSE q(x) * Quantum
      BY Zenon DEF Score
    <2> HIDE DEF q, r, up
    <2>3. low(x) \in Int /\ (q(x) + 1) * Quantum = low(x) + Quantum /\ Quantum * q(x) = low(x)
      BY <2>1, LimiterAssumption
    <2> QED
      BY <2>1, <2>2, <2>3
  <1>2. q(a) < q(b) => low(a) + Quantum <= low(b)
    <2>1. q(a) \in Int /\ q(b) \in Int
      BY <1>1
    <2> HIDE DEF q
    <2>2. ASSUME q(a) < q(b)
          PROVE  low(a) + Quantum <= low(b)
      <3>1. PICK d \in Nat : q(b) = q(a) + 1 + d
        <4>1. q(b) - q(a) - 1 \in Nat /\ q(b) = q(a) + 1 + (q(b) - q(a) - 1)
          BY <2>1, <2>2
        <4> QED
          BY <4>1
      <3>2. (q(a) + 1 + d) * Quantum = q(a) * Quantum + Quantum + d * Quantum
        BY <2>1, LimiterAssumption
      <3>3. d * Quantum \in Nat
        BY LimiterAssumption
      <3>4. q(a) * Quantum \in Int
        BY <2>1, LimiterAssumption
      <3> QED
        BY <3>1, <3>2, <3>3, <3>4, LimiterAssumption
    <2> QED
      BY <2>2
  <1>3. q(a) > q(b) => low(b) + Quantum <= low(a)
    <2>1. q(a) \in Int /\ q(b) \in Int
      BY <1>1
    <2> HIDE DEF q
    <2>2. ASSUME q(a) > q(b)
          PROVE  low(b) + Quantum <= low(a)
      <3>1. PICK d \in Nat : q(a) = q(b) + 1 + d
        <4>1. q(a) - q(b) - 1 \in Nat /\ q(a) = q(b) + 1 + (q(a) - q(b) - 1)
          BY <2>1, <2>2
        <4> QED
          BY <4>1
      <3>2. (q(b) + 1 + d) * Quantum = q(b) * Quantum + Quantum + d * Quantum
        BY <2>1, LimiterAssumption
      <3>3. d * Quantum \in Nat
        BY LimiterAssumption
      <3>4. q(b) * Quantum \in Int
        BY <2>1, LimiterAssumption
      <3> QED
        BY <3>1, <3>2, <3>3, <3>4, LimiterAssumption
    <2> QED
      BY <2>2
  <1>4. q(a) = q(b) => (up(a) => up(b))
    <2>1. q(a) = q(b) => r(a) <= r(b)
      BY <1>1
    <2>2. r(a) \in Int /\ r(b) \in Int
      BY <1>1
    <2> QED
      BY <2>1, <2>2, LimiterAssumption
  <1>5. q(a) = q(b) => low(a) = low(b)
    OBVIOUS
  <1>6. /\ q(a) \in Int /\ q(b) \in Int /\ low(a) \in Int /\ low(b) \in Int
        /\ a = low(a) + r(a) /\ b = low(b) + r(b)
        /\ r(a) \in 0 .. (Quantum - 1) /\ r(b) \in 0 .. (Quantum - 1)
        /\ Score(a) = IF up(a) THEN low(a) + Quantum ELSE low(a)
        /\ Score(b) = IF up(b) THEN low(b) + Quantum ELSE low(b)
    BY <1>1
  <1> HIDE DEF q, r, up, low
  <1>7. ~(q(a) > q(b))
    BY <1>3, <1>6, LimiterAssumption
  <1>8. CASE q(a) < q(b)
    BY <1>2, <1>6, <1>8, LimiterAssumption
  <1>9. CASE q(a) = q(b)
    BY <1>4, <1>5, <1>6, <1>9, LimiterAssumption
  <1> QED
    BY <1>6, <1>7, <1>8, <1>9

(* What the ZREMRANGEBYSCORE of a call made after a silence leaves in the  *)
(* set is not older than the silence.                                      *)
LEMMA SilenceLeavesNothing ==
    ASSUME TypeOK, MembersAreMade, PrunedForCall,
           NEW r \in Requests, Underway(r),
           NEW t \in Times, t <= stamp[r], Silence(t)
    PROVE  MembersSince(t) = members
  <1> SUFFICES ASSUME NEW m \in members PROVE t <= m
    BY DEF MembersSince
  <1> USE LimiterAssumption DEF TypeOK, Times
  <1>1. m \in Nat /\ stamp[r] \in Nat /\ t \in Nat
    OBVIOUS
  <1>2. CASE m = stamp[r]
    BY <1>2
  <1>3. CASE ~Evicts(stamp[r], m)
    <2>1. ~(m <= stamp[r] - Window)
      <3> SUFFICES ASSUME m <= stamp[r] - Window PROVE FALSE
        OBVIOUS
      <3>1. Score(m) <= Score(stamp[r] - Window) /\ Score(m) >= 0
        BY <1>1, ScoreIsMonotone, ScoreIsNatural
      <3>2. Score(m) \in Int
        BY <1>1, ScoreError
      <3> QED
        BY <1>3, <3>1, <3>2 DEF Evicts
    <2>2. m <= t - Window \/ t <= m
      BY DEF MembersAreMade, Stamps, Made, Silence
    <2> QED
      BY <1>1, <2>1, <2>2
  <1> QED
    BY <1>2, <1>3 DEF PrunedForCall

LEMMA SpentStay ==
    ASSUME TypeOK, [Next]_vars, NEW t
    PROVE  SpentSince(t) \subseteq SpentSince(t)'
  <1> SUFFICES ASSUME NEW r \in SpentSince(t) PROVE r \in SpentSince(t)'
    OBVIOUS
  <1> USE LimiterAssumption DEF TypeOK, call, key
  <1>1. /\ r \in Requests /\ verdict[r] # "none" /\ verdict'[r] # "none"
        /\ t <= stamp[r] /\ stamp'[r] = stamp[r]
    BY CallsStay DEF SpentSince
  <1>2. tries[r] > 0 \/ at[r] = "lost" \/ Passed(r)
    BY DEF SpentSince
  <1> SUFFICES tries'[r] > 0 \/ at'[r] = "lost" \/ Passed(r)'
    BY <1>1 DEF SpentSince
  <1>3. ASSUME NEW s \in Requests, ZRem(s) \/ ZAdd(s)
        PROVE  tries'[r] > 0 \/ at'[r] = "lost" \/ Passed(r)'
    BY <1>1, <1>2, <1>3 DEF ZRem, ZAdd, Passed
  <1>4. ASSUME NEW s \in Requests, ZCard(s) \/ Expire(s)
        PROVE  tries'[r] > 0 \/ at'[r] = "lost" \/ Passed(r)'
    BY <1>1, <1>2, <1>4 DEF ZCard, Expire, Passed
  <1>5. ASSUME NEW s \in Requests, Begin(s)
        PROVE  tries'[r] > 0 \/ at'[r] = "lost" \/ Passed(r)'
    <2>1. s # r
      BY <1>1, <1>5 DEF Begin
    <2> QED
      BY <1>1, <1>2, <1>5, <2>1 DEF Begin, Passed
  <1>6. ASSUME NEW s \in Requests, Retry(s)
        PROVE  tries'[r] > 0 \/ at'[r] = "lost" \/ Passed(r)'
    BY <1>1, <1>2, <1>6 DEF Retry, Passed
  <1>7. ASSUME NEW s \in Requests, Answer(s) \/ Fail(s) \/ Break(s)
        PROVE  tries'[r] > 0 \/ at'[r] = "lost" \/ Passed(r)'
    BY <1>1, <1>2, <1>7 DEF Answer, Fail, Break, Passed
  <1>8. CASE Tick \/ UNCHANGED vars
    BY <1>1, <1>2, <1>8 DEF Tick, vars, Passed
  <1> QED
    BY <1>3, <1>4, <1>5, <1>6, <1>7, <1>8 DEF Next, Serve, Finished

LEMMA CountingMoves ==
    ASSUME TypeOK, [Next]_vars, NEW t, NEW r \in CountingSince(t), ~ZCard(r)
    PROVE  r \in CountingSince(t)' \cup SpentSince(t)'
  <1> USE DEF TypeOK, call, key
  <1>1. /\ r \in Requests /\ verdict[r] # "none" /\ verdict'[r] # "none" /\ at[r] = "zcard"
        /\ t <= stamp[r] /\ stamp'[r] = stamp[r]
    BY CallsStay DEF CountingSince, Made
  <1> SUFFICES at'[r] = "zcard" \/ at'[r] = "lost"
    BY <1>1 DEF SpentSince, CountingSince, Made
  <1>2. ASSUME NEW s \in Requests, Begin(s)
        PROVE  at'[r] = "zcard"
    BY <1>1, <1>2 DEF Begin
  <1>3. ASSUME NEW s \in Requests, ZRem(s) \/ ZAdd(s) \/ Expire(s) \/ Retry(s)
        PROVE  at'[r] = "zcard"
    BY <1>1, <1>3 DEF ZRem, ZAdd, Expire, Retry
  <1>4. ASSUME NEW s \in Requests, ZCard(s)
        PROVE  at'[r] = "zcard"
    BY <1>1, <1>4 DEF ZCard
  <1>5. ASSUME NEW s \in Requests, Answer(s) \/ Fail(s) \/ Break(s)
        PROVE  at'[r] = "zcard" \/ at'[r] = "lost"
    BY <1>1, <1>5 DEF Answer, Fail, Break
  <1>6. CASE Tick \/ UNCHANGED vars
    BY <1>1, <1>6 DEF Tick, vars
  <1> QED
    BY <1>2, <1>3, <1>4, <1>5, <1>6 DEF Next, Serve, Finished

(* No more stamps than calls.                                              *)
LEMMA StampsOfSpent ==
    ASSUME TypeOK, NEW t
    PROVE  /\ Cardinality(SpentSince(t)) \in Nat /\ Cardinality(Stamps(SpentSince(t))) \in Nat
           /\ IsFiniteSet(SpentSince(t)) /\ IsFiniteSet(Stamps(SpentSince(t)))
           /\ Cardinality(Stamps(SpentSince(t))) <= Cardinality(SpentSince(t))
  <1> DEFINE S == SpentSince(t)
             f == [s \in S |-> stamp[s]]
  <1>1. IsFiniteSet(S)
    <2>1. S \subseteq Requests
      BY DEF SpentSince
    <2> QED
      BY <2>1, FS_Subset, LimiterAssumption
  <1>2. f \in Surjection(S, Stamps(S))
    BY DEF Surjection, Stamps
  <1> HIDE DEF S, f
  <1>3. IsFiniteSet(Stamps(S)) /\ Cardinality(Stamps(S)) <= Cardinality(S)
    BY <1>1, <1>2, FS_Surjection
  <1> QED
    BY <1>1, <1>3, FS_CardinalityType DEF S

LEMMA EnoughStays ==
    ASSUME TypeOK, NEW t, Enough(t), [Next]_vars
    PROVE  Enough(t)'
  <1>1. SpentSince(t)' \subseteq Requests
    BY DEF SpentSince
  <1>2. IsFiniteSet(SpentSince(t)') /\ SpentSince(t) \subseteq SpentSince(t)'
    BY <1>1, SpentStay, FS_Subset, LimiterAssumption
  <1>3. /\ Cardinality(SpentSince(t)) <= Cardinality(SpentSince(t)')
        /\ Cardinality(SpentSince(t)) \in Nat /\ Cardinality(SpentSince(t)') \in Nat
    BY <1>2, FS_Subset, FS_CardinalityType
  <1> QED
    BY <1>3, LimiterAssumption DEF Enough

(* A call counted above the limit, when the set holds nothing from before  *)
(* t: all members but its own stamp are stamps of calls spent since.       *)
LEMMA CountedAbove ==
    ASSUME TypeOK, OneByOne, MembersAreSpent,
           NEW t \in Times, Silence(t), MembersSince(t) = members,
           NEW r \in Requests, ZCard(r), count'[r] > Limit
    PROVE  Enough(t)
  <1> USE LimiterAssumption
  <1>1. at[r] = "zcard" /\ count'[r] = Cardinality(members)
    BY DEF ZCard, TypeOK
  <1>2. CountingSince(t) \subseteq {r}
    BY <1>1 DEF CountingSince, Made, OneByOne, Underway
  <1>3. CASE members \subseteq Stamps(SpentSince(t) \cup CountingSince(t))
    <2>1. members \ {stamp[r]} \subseteq Stamps(SpentSince(t))
      BY <1>2, <1>3 DEF Stamps
    <2>2. IsFiniteSet(members) /\ Cardinality(members) \in Nat
      BY MembersFinite, FS_CardinalityType
    <2>3. Cardinality(members \ {stamp[r]}) >= Cardinality(members) - 1
      <3>1. Cardinality(members \ {stamp[r]})
               = IF stamp[r] \in members THEN Cardinality(members) - 1 ELSE Cardinality(members)
        BY <2>2, FS_RemoveElement, Zenon
      <3> QED
        BY <2>2, <3>1
    <2>4. /\ Cardinality(members \ {stamp[r]}) \in Nat
          /\ Cardinality(members \ {stamp[r]}) <= Cardinality(Stamps(SpentSince(t)))
      BY <2>1, StampsOfSpent, FS_Subset, FS_CardinalityType
    <2> QED
      BY <1>1, <2>2, <2>3, <2>4, StampsOfSpent DEF Enough
  <1> QED
    BY <1>3 DEF MembersAreSpent

(* A counting call is, after its ZCARD, spent or proof of the excess.      *)
LEMMA CountedIsSpent ==
    ASSUME TypeOK, TypeOK', [Next]_vars, NEW t \in Times,
           NEW r \in CountingSince(t), ZCard(r), ~(count'[r] > Limit)
    PROVE  r \in SpentSince(t)'
  <1>1. r \in Requests /\ verdict[r] # "none" /\ t <= stamp[r]
    BY DEF CountingSince, Made
  <1>2. verdict'[r] # "none" /\ stamp'[r] = stamp[r]
    BY <1>1, CallsStay
  <1>3. at'[r] = "expire"
    BY <1>1 DEF ZCard, TypeOK
  <1>4. count'[r] <= Limit
    BY <1>1, LimiterAssumption DEF TypeOK
  <1> QED
    BY <1>1, <1>2, <1>3, <1>4 DEF SpentSince, Passed

LEMMA MembersStaySpent ==
    ASSUME TypeOK, TypeOK', CallsInStep, OneByOne, MembersAreMade, MembersAreSpent,
           PrunedForCall, [Next]_vars
    PROVE  MembersAreSpent'
  <1> SUFFICES ASSUME NEW t \in Times, Silence(t)'
               PROVE  Enough(t)' \/ MembersSince(t)' \subseteq Stamps(SpentSince(t) \cup CountingSince(t))'
    BY DEF MembersAreSpent
  <1> DEFINE C == SpentSince(t) \cup CountingSince(t)
  <1>3. Silence(t)
    BY SilenceWasThere
  <1>1. CASE Enough(t)
    BY <1>1, EnoughStays
  <1>2. CASE ~Enough(t) /\ MembersSince(t) \subseteq Stamps(C)
    <2>1. ASSUME NEW s \in CountingSince(t) PROVE s \in C'
      <3>1. CASE ZCard(s)
        <4>1. s \in Requests /\ t <= stamp[s] /\ Underway(s)
          BY DEF CountingSince, Made, Underway
        <4>2. MembersSince(t) = members
          BY <1>3, <4>1, SilenceLeavesNothing
        <4>3. ~(count'[s] > Limit)
          BY <1>2, <1>3, <3>1, <4>1, <4>2, CountedAbove
        <4> QED
          BY <3>1, <4>3, CountedIsSpent
      <3>2. CASE ~ZCard(s)
        BY <3>2, CountingMoves
      <3> QED
        BY <3>1, <3>2
    <2>2. C \subseteq C'
      BY <2>1, SpentStay
    <2>3. \A s \in C : stamp'[s] = stamp[s]
      BY CallsStay DEF SpentSince, CountingSince, Made
    <2>4. MembersSince(t) \subseteq Stamps(C)'
      <3> HIDE DEF C
      <3> QED
        BY <1>2, <2>2, <2>3 DEF Stamps
    <2>5. ASSUME NEW r \in Requests, ZAdd(r), t <= stamp[r]
          PROVE  stamp[r] \in Stamps(C)'
      <3>1. verdict[r] # "none" /\ at'[r] = "zcard" /\ UNCHANGED <<verdict, stamp>>
        BY <2>5 DEF ZAdd, CallsInStep, TypeOK, call
      <3>2. r \in CountingSince(t)'
        BY <2>5, <3>1 DEF CountingSince, Made
      <3>3. r \in C' /\ stamp'[r] = stamp[r]
        BY <3>1, <3>2
      <3> HIDE DEF C
      <3> QED
        BY <3>3 DEF Stamps
    <2>6. CASE members' \subseteq members
      BY <2>4, <2>6 DEF MembersSince
    <2>7. CASE \E r \in Requests : ZAdd(r) /\ members' = members \cup {stamp[r]}
      <3> PICK r \in Requests : ZAdd(r) /\ members' = members \cup {stamp[r]}
        BY <2>7
      <3> HIDE DEF C
      <3>1. ASSUME NEW m \in MembersSince(t)' PROVE m \in Stamps(C)'
        BY <2>4, <2>5 DEF MembersSince
      <3> QED
        BY <3>1 DEF C
    <2> QED
      BY <2>6, <2>7, MembersCome
  <1> QED
    BY <1>1, <1>2, <1>3 DEF MembersAreSpent

LEMMA ExcessStaysEarned ==
    ASSUME TypeOK, OneByOne, MembersAreMade, PrunedForCall,
           MembersAreSpent, ExcessIsEarned, CallsInStep, [Next]_vars
    PROVE  ExcessIsEarned'
  <1> SUFFICES ASSUME NEW r \in Requests, NEW t \in Times,
                      at'[r] \in {"expire", "done"}, count'[r] > Limit,
                      t <= stamp'[r], Silence(t)'
               PROVE  Enough(t)'
    BY DEF ExcessIsEarned
  <1>1. Silence(t)
    BY SilenceWasThere
  <1>2. CASE ZCard(r)
    <2>1. Underway(r) /\ stamp'[r] = stamp[r]
      BY <1>2 DEF ZCard, Underway, call
    <2>2. MembersSince(t) = members
      BY <1>1, <2>1, SilenceLeavesNothing
    <2> QED
      BY <1>1, <1>2, <2>2, CountedAbove, EnoughStays
  <1>3. CASE ~ZCard(r)
    <2>1. at[r] \in {"expire", "done"} /\ count'[r] = count[r]
      BY <1>3, CountsComeFromZCard
    <2>2. stamp'[r] = stamp[r]
      BY <2>1, CallsStay DEF CallsInStep
    <2> QED
      BY <1>1, <2>1, <2>2, EnoughStays DEF ExcessIsEarned
  <1> QED
    BY <1>2, <1>3

QuotaInvariant == DenialInvariant /\ MembersAreSpent /\ ExcessIsEarned

LEMMA QuotaInvariantHolds == ASSUME Whole PROVE Spec => []QuotaInvariant
  <1>1. Init => MembersAreSpent /\ ExcessIsEarned
    BY DEF Init, MembersAreSpent, MembersSince, ExcessIsEarned
  <1>2. /\ TypeOK /\ TypeOK' /\ DenialInvariant
        /\ MembersAreSpent /\ ExcessIsEarned /\ [Next]_vars
        => MembersAreSpent' /\ ExcessIsEarned'
    BY MembersStaySpent, ExcessStaysEarned DEF DenialInvariant
  <1> QED
    BY <1>1, <1>2, DenialInvariantHolds, TypeCorrect, PTL DEF Spec, QuotaInvariant

(* When pipelines run one by one, a silence of one window restores the     *)
(* quota: after it nobody is denied before Limit calls made since then     *)
(* were counted within the limit or lost a try, whatever was denied        *)
(* before the silence.                                                     *)
THEOREM SilenceRestores == ASSUME Whole PROVE Spec => []SilenceRestoresQuota
  <1>1. QuotaInvariant => SilenceRestoresQuota
    <2> SUFFICES ASSUME QuotaInvariant, NEW r \in Requests, NEW t \in Times,
                        verdict[r] = "denied", t <= stamp[r], Silence(t)
                 PROVE  Cardinality(SpentSince(t)) >= Limit
      BY DEF SilenceRestoresQuota
    <2>1. at[r] = "done" /\ count[r] > Limit
      BY DEF QuotaInvariant, DenialInvariant, CallsInStep
    <2>2. Enough(t)
      BY <2>1 DEF QuotaInvariant, ExcessIsEarned
    <2> QED
      BY <2>2 DEF Enough
  <1> QED
    BY <1>1, QuotaInvariantHolds, PTL
=============================================================================
