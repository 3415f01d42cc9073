----------------------------- MODULE RateLimiter -----------------------------
(***************************************************************************)
(* The sliding-window limiter of the gateway, for one user, i.e. for one   *)
(* Redis key "rl:user:<id>" (services/gateway/ratelimit/redis_limiter.go). *)
(*                                                                         *)
(* Every call of AllowRequest reads its clock, sends four commands in one  *)
(* go-redis pipeline and compares the ZCARD it gets back with the limit.   *)
(* The pipeline is not a MULTI: Redis executes the four commands one at a  *)
(* time, and nothing but the size of its read buffer keeps the commands of *)
(* another connection from running between them.  A lost connection makes  *)
(* go-redis send the whole pipeline again, with the arguments computed at  *)
(* the first attempt.                                                      *)
(***************************************************************************)
EXTENDS Integers, FiniteSets

CONSTANTS
    Requests,    \* the calls of AllowRequest for this user
    Lossy,       \* those whose connection to Redis may fail
    Limit,       \* the int passed as limit (50 in the gateway)
    Window,      \* the duration passed as window (1s), in clock ticks
    Quantum,     \* distance of two neighbouring float64 near the current time
    MaxRetries,  \* go-redis sends a failed pipeline again this many times
    MaxClock,    \* bound of the model: the clock stops here
    Whole        \* TRUE: Redis reads every pipeline in one go

ASSUME LimiterAssumption ==
    /\ Lossy \subseteq Requests
    /\ IsFiniteSet(Requests)
    /\ Limit \in Nat
    /\ Window \in Nat \ {0}
    /\ Quantum \in Nat \ {0}
    /\ MaxRetries \in Nat
    /\ MaxClock \in Nat
    /\ Whole \in BOOLEAN

VARIABLES
    clock,      \* the time the gateway and Redis read, in ticks
    at,         \* per call: the next command of its pipeline Redis executes
    verdict,    \* per call: what AllowRequest has returned
    stamp,      \* per call: now, read once, score and member at the same time
    tries,      \* per call: how often go-redis has sent the pipeline again
    count,      \* per call: the reply to ZCARD
    countedAt,  \* history: when that ZCARD was executed
    members,    \* the sorted set; a member is its own unrounded score
    expireAt    \* the expiry of the key, NoTTL when it has none

vars == <<clock, at, verdict, stamp, tries, count, countedAt, members, expireAt>>
call == <<verdict, stamp, tries>>
key == <<members, expireAt>>

NoTTL == -1
Places == {"unsent", "zrem", "zadd", "zcard", "expire", "done", "lost"}
Verdicts == {"none", "waiting", "allowed", "denied", "error"}
Answered == {"allowed", "denied", "error"}
Times == 0 .. MaxClock

TypeOK ==
    /\ clock \in Times
    /\ at \in [Requests -> Places]
    /\ verdict \in [Requests -> Verdicts]
    /\ stamp \in [Requests -> Times]
    /\ tries \in [Requests -> 0 .. MaxRetries]
    /\ count \in [Requests -> Nat]
    /\ countedAt \in [Requests -> Times]
    /\ members \in SUBSET Times
    /\ expireAt \in Int
    /\ expireAt # NoTTL => expireAt \in 0 .. MaxClock + Window

-----------------------------------------------------------------------------
(* The score Redis stores for a time: the nearest float64, ties to even.   *)
Score(t) ==
    LET q == t \div Quantum
        r == t % Quantum
    IN  IF 2 * r < Quantum \/ (2 * r = Quantum /\ q % 2 = 0)
        THEN q * Quantum
        ELSE (q + 1) * Quantum

(* The definitions named Faulty... are what a slip in the code would make  *)
(* of the definition they precede; no specification uses them.             *)
FaultyEvictsNothing(now, m) == FALSE
FaultyEvictsHalf(now, m) == Score(m) <= Score(now - Window \div 2)

(* ZREMRANGEBYSCORE key 0 windowStart removes a member, bounds included.   *)
Evicts(now, m) == 0 <= Score(m) /\ Score(m) <= Score(now - Window)

(* The expiry EXPIRE key window sets.                                      *)
FaultyExpiryTwice == clock + 2 * Window
FaultyExpiryOnce == IF expireAt = NoTTL THEN clock + Window ELSE expireAt

Expiry == clock + Window

(* What AllowRequest returns: the count includes the call itself.          *)
Decision(n) == IF n <= Limit THEN "allowed" ELSE "denied"

(* Redis is between two commands of r's pipeline.                          *)
Underway(r) == at[r] \in {"zadd", "zcard", "expire"}

(* Redis may execute a command of r now.                                   *)
Turn(r) == Whole => \A s \in Requests \ {r} : ~Underway(s)

Init ==
    /\ clock = 0
    /\ at = [r \in Requests |-> "unsent"]
    /\ verdict = [r \in Requests |-> "none"]
    /\ stamp = [r \in Requests |-> 0]
    /\ tries = [r \in Requests |-> 0]
    /\ count = [r \in Requests |-> 0]
    /\ countedAt = [r \in Requests |-> 0]
    /\ members = {}
    /\ expireAt = NoTTL

-----------------------------------------------------------------------------
(* Time passes; Redis drops a key whose expiry has passed.                 *)
Tick ==
    /\ clock < MaxClock
    /\ Whole => \A r \in Requests : ~Underway(r)
    /\ clock' = clock + 1
    /\ IF expireAt # NoTTL /\ clock + 1 > expireAt
       THEN members' = {} /\ expireAt' = NoTTL
       ELSE UNCHANGED key
    /\ UNCHANGED <<call, at, count, countedAt>>

(* AllowRequest reads the clock and queues its four commands.              *)
Begin(r) ==
    /\ verdict[r] = "none"
    /\ verdict' = [verdict EXCEPT ![r] = "waiting"]
    /\ stamp' = [stamp EXCEPT ![r] = clock]
    /\ at' = [at EXCEPT ![r] = "zrem"]
    /\ UNCHANGED <<clock, tries, count, countedAt, key>>

(* 1. ZREMRANGEBYSCORE; a key left without members disappears with its TTL. *)
ZRem(r) ==
    /\ at[r] = "zrem" /\ Turn(r)
    /\ members' = {m \in members : ~Evicts(stamp[r], m)}
    /\ expireAt' = IF members' = {} THEN NoTTL ELSE expireAt
    /\ at' = [at EXCEPT ![r] = "zadd"]
    /\ UNCHANGED <<clock, call, count, countedAt>>

(* 2. ZADD key now now: calls of the same nanosecond share one member.     *)
ZAdd(r) ==
    /\ at[r] = "zadd" /\ Turn(r)
    /\ members' = members \cup {stamp[r]}
    /\ at' = [at EXCEPT ![r] = "zcard"]
    /\ UNCHANGED <<clock, call, count, countedAt, expireAt>>

(* 3. ZCARD.                                                               *)
ZCard(r) ==
    /\ at[r] = "zcard" /\ Turn(r)
    /\ count' = [count EXCEPT ![r] = Cardinality(members)]
    /\ countedAt' = [countedAt EXCEPT ![r] = clock]
    /\ at' = [at EXCEPT ![r] = "expire"]
    /\ UNCHANGED <<clock, call, key>>

(* 4. EXPIRE key window: no effect on a key that is gone.                  *)
Expire(r) ==
    /\ at[r] = "expire" /\ Turn(r)
    /\ expireAt' = IF members = {} THEN NoTTL ELSE Expiry
    /\ at' = [at EXCEPT ![r] = "done"]
    /\ UNCHANGED <<clock, call, count, countedAt, members>>

(* Exec returns the four replies and the count decides.                    *)
Answer(r) ==
    /\ verdict[r] = "waiting" /\ at[r] = "done"
    /\ verdict' = [verdict EXCEPT ![r] = Decision(count[r])]
    /\ UNCHANGED <<clock, at, stamp, tries, count, countedAt, key>>

(* The connection breaks before Redis has read the whole pipeline, or      *)
(* after the last command and before the reply.                            *)
Break(r) ==
    /\ r \in Lossy
    /\ \/ at[r] = "zrem" \/ Underway(r)
       \/ at[r] = "done" /\ verdict[r] = "waiting"
    /\ at' = [at EXCEPT ![r] = "lost"]
    /\ UNCHANGED <<clock, call, count, countedAt, key>>

(* go-redis sends the pipeline again, stamp and windowStart unchanged.     *)
Retry(r) ==
    /\ verdict[r] = "waiting" /\ at[r] = "lost"
    /\ tries[r] < MaxRetries
    /\ tries' = [tries EXCEPT ![r] = @ + 1]
    /\ at' = [at EXCEPT ![r] = "zrem"]
    /\ UNCHANGED <<clock, verdict, stamp, count, countedAt, key>>

(* Exec returns an error: after the last attempt, or at once when the      *)
(* context of the request is cancelled or the error is not one to retry.   *)
(* Redis may go on with what it was sent; the gateway fails open.          *)
Fail(r) ==
    /\ r \in Lossy
    /\ verdict[r] = "waiting"
    /\ verdict' = [verdict EXCEPT ![r] = "error"]
    /\ UNCHANGED <<clock, at, stamp, tries, count, countedAt, key>>

(* The bounded clock has stopped and every call was made and answered.     *)
Finished ==
    /\ clock = MaxClock
    /\ \A r \in Requests : verdict[r] \in Answered
    /\ UNCHANGED vars

(* What Redis and go-redis do about a call once it is sent.                *)
Serve(r) ==
    \/ ZRem(r) \/ ZAdd(r) \/ ZCard(r) \/ Expire(r)
    \/ Answer(r) \/ Retry(r) \/ Fail(r)

Next ==
    \/ Tick
    \/ \E r \in Requests : Begin(r) \/ Serve(r) \/ Break(r)
    \/ Finished

Spec == Init /\ [][Next]_vars

-----------------------------------------------------------------------------
(* How far two scores can be apart from the times they stand for.          *)
Slack == 2 * (Quantum \div 2)

Stamps(S) == {stamp[r] : r \in S}

(* The calls allowed whose stamp lies in ]end - length, end] and that      *)
(* Redis counted at most delay ticks after they were stamped.              *)
AllowedIn(end, length, delay) ==
    {r \in Requests :
        /\ verdict[r] = "allowed"
        /\ end - length < stamp[r] /\ stamp[r] <= end
        /\ countedAt[r] <= stamp[r] + delay}

(* What AllowRequest promises when Redis executes pipelines one by one:    *)
(* in any interval shorter than the window by the delay between reading    *)
(* the clock and being counted, no more than Limit distinct stamps are     *)
(* allowed, whatever was denied, retried or expired meanwhile.             *)
WindowBound ==
    \A delay \in 0 .. Window, end \in Times :
        Cardinality(Stamps(AllowedIn(end, Window - delay - Slack, delay))) <= Limit

(* Why WindowBound holds.  A call counted within the limit is, from then   *)
(* on, a member of the set until a window has passed since its stamp.      *)
Passed(r) == at[r] \in {"expire", "done"} /\ count[r] <= Limit

PassedIn(end, length, delay) ==
    {r \in Requests :
        /\ Passed(r)
        /\ end - length < stamp[r] /\ stamp[r] <= end
        /\ countedAt[r] <= stamp[r] + delay}

StampsArePast == \A r \in Requests : stamp[r] <= clock

AllowedArePassed ==
    \A r \in Requests : verdict[r] = "allowed" => at[r] = "done" /\ count[r] <= Limit

(* Remembered(r): Redis cannot have forgotten r before its window is over, *)
(* and, once EXPIRE has been executed, the expiry will not make it forget. *)
Remembered(r) ==
    \/ stamp[r] + Window - Slack <= clock
    \/ /\ stamp[r] \in members
       /\ at[r] = "done" => expireAt = NoTTL \/ stamp[r] + Window <= expireAt

CountedAreRemembered ==
    \A r \in Requests : at[r] \in {"zcard", "expire", "done"} => Remembered(r)

PassedBound ==
    \A delay \in 0 .. Window, end \in Times :
        Cardinality(Stamps(PassedIn(end, Window - delay - Slack, delay))) <= Limit

(* The inductive invariant behind WindowBound.                             *)
WindowInvariant ==
    TypeOK /\ StampsArePast /\ AllowedArePassed /\ CountedAreRemembered /\ PassedBound

(* A call is denied only for requests really made: more than Limit stamps  *)
(* no older than the window (up to rounding) have been sent to Redis.      *)
RejectionJustified ==
    \A r \in Requests :
        verdict[r] = "denied" =>
            Cardinality({stamp[s] : s \in {s \in Requests :
                verdict[s] # "none" /\ stamp[s] > stamp[r] - Window - Slack}}) > Limit

(* Denied calls are added to the set as well (line 39) and may fill it: a  *)
(* user who goes on calling more than Limit times a window is denied for   *)
(* as long as he does.  Not calling for one window ends that.  Whatever    *)
(* was denied before such a silence, a call after it is denied only when   *)
(* Limit calls since then were counted within the limit, or lost a try     *)
(* that may have been counted.                                             *)
Silence(t) ==
    \A s \in Requests : verdict[s] # "none" => stamp[s] <= t - Window \/ t <= stamp[s]

SpentSince(t) ==
    {s \in Requests :
        /\ verdict[s] # "none" /\ t <= stamp[s]
        /\ Passed(s) \/ at[s] = "lost" \/ tries[s] > 0}

SilenceRestoresQuota ==
    \A r \in Requests, t \in Times :
        verdict[r] = "denied" /\ t <= stamp[r] /\ Silence(t) =>
            Cardinality(SpentSince(t)) >= Limit

(* Line 48 refreshes the expiry after every ZADD: while no pipeline is     *)
(* half executed the key outlives each member for as long as that member   *)
(* can count, and has an expiry no later than one window from now, so that *)
(* the key of an idle user is collected (documentation.tex:180).  This     *)
(* fails only between a break and the next complete pipeline of the user.  *)
HalfExecuted(r) == Underway(r) \/ at[r] = "lost" \/ (at[r] = "zrem" /\ tries[r] > 0)

KeyLifetime ==
    (/\ members # {}
     /\ \A r \in Requests : ~HalfExecuted(r)) =>
        /\ expireAt # NoTTL
        /\ expireAt <= clock + Window
        /\ \A m \in members : expireAt >= m + Window
=============================================================================
