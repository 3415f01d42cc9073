# NexPulse in TLA+

A verification project for NexPulse, a small event-analytics platform in Go:
clients POST events to a gateway, Kafka carries them to an aggregator, Redis
keeps totals, and dashboards are told about alerts over WebSockets.  The
modules here are translated from the source under `src/`; each definition that
models code is listed with its file and lines in `PROJECT.json` ("map").

| To do | Command |
|---|---|
| check a run of the table below | `tlc -workers 2 -config <cfg> <module>` |
| check the proofs of a component | `tlapm <module>.tla`, for each module of section 5 |

## 1. The system

```
 simulator ──POST /ingest──▶ GATEWAY ──async writer──▶ Kafka raw-events
                             │  │                          │
                 AllowRequest│  │POST /record              ▼
                             ▼  ▼                      AGGREGATOR
                          Redis  ANOMALY DETECTOR          │ INCR, ZINCRBY
                             ▲        │ PUBLISH             ▼
                             └────────┴──────────────▶  Redis
                                                           │ Pub/Sub dashboard_updates, totals
                                 browsers ◀──WebSocket── QUERY SERVICE (hub, leaderboard)
```

| Component | State it keeps | Operations | Talks to |
|---|---|---|---|
| Rate limiter (`services/gateway/ratelimit`) | one Redis sorted set with an expiry per user | `AllowRequest` | Redis, by a pipeline of four commands |
| Ingest handler and producer (`services/gateway/handlers`, `kafka`, `metrics`, `main.go`) | gauge of active requests, five counters, the writer's queues and batches | `HandleIngest`, `ProduceEvent`, the writer's goroutines | limiter (call), detector (goroutine, fire and forget), Kafka |
| Aggregator (`services/aggregator`) | read position, offsets to commit, the event in the loop, counters; in Redis the totals | the consumer loop, the ticker that commits, the pipeline | Kafka consumer group, Redis |
| Anomaly detector (`services/anomaly`) | atomic counter, moving average | `POST /record`, the evaluator, `PublishSpikeAlert` | Redis Pub/Sub |
| Hub and subscription (`services/query/ws`, `rdb`) | client map, gauge, three unbuffered channels | `Run`, `ServeWS`, its reader, `Broadcast`, the subscriber | browsers, Redis Pub/Sub |
| Leaderboard query (`services/query/main.go`, `rdb`) | none | `GET /leaderboard` | Redis |
| Simulator (`tools/simulator`) | one loop per worker | POST at a rate | gateway |
| Dashboard generator and the scripts that rewrite it (`infra/grafana/dashboards`) | the text of `generate_dashboard.py`, `overview.json` | `create_dashboard`, `restructure.py`, `merge_top.py`, `move_back.py`, `populate_map.py`, run by hand | Grafana |
| Terminal dashboard, start script, infrastructure | none | polling, starting processes, configuration | all |

### What is hard, and what makes each part correct

* **Rate limiter.**  A call reads its clock, is delayed, and is executed by
  Redis after calls with later stamps; the four commands are not a
  transaction; go-redis sends a pipeline again with its old arguments; a
  float64 cannot hold a nanosecond stamp; the key may expire.  Correct means:
  no window has more than the limit of allowed calls (up to delays and
  rounding that the module makes explicit), denials are justified by real
  calls, and the key lives exactly as long as it is needed.  Denied calls are
  added to the set like the others: a user who goes on calling more than
  `Limit` times a window fills it with denied calls and stays denied.  Correct
  then means that one window without calls ends this.
* **Ingest.**  Concurrent handlers update the same metrics at different
  points, one in a `defer`; a client may keep back its body for ever, since the
  server has no read timeout; the writer is asynchronous, asks for no
  acknowledgement, drops what it cannot send and tells nobody; the process
  ends without flushing it.  Correct means: gauge and counters balance, what
  was refused is never produced, the events of a user stay in order, and an
  event is lost only when something fails while it is in the writer, whatever
  other clients do.
* **Aggregator.**  `ReadMessage` queues the offset for commit *before* the
  event is applied, commits lag up to a second, and increments are not
  idempotent.  Correct means: loss and duplication are bounded by the failures
  that happened, totals are exact while nothing fails, offsets do not go back,
  every message is accounted for, and the whole log is read in the end.
* **Detector.**  The value is folded into the average *before* it is compared
  with it, and the evaluator waits for Redis while the ticker drops ticks.
  Correct means: an alert is a spike, values that do not grow raise none,
  and a load that jumped stops being reported.  What a value has to do with a
  second is another question (`DetectorSeconds`).
* **Hub.**  A disconnect is noticed by a failed write and by the reader, in
  either order; `WriteMessage` has no deadline and runs in the goroutine that
  serves every channel.  Correct means: map and gauge agree, nothing leaks,
  each browser gets a contiguous piece of one order of updates, and a browser
  that left is forgotten.
* **Dashboard scripts.**  Four scripts rewrite the generator by searching its
  text for marks and cutting there.  They share no record of what has been
  done: each takes for granted what the text looks like, and a mark that is not found is
  -1, the last line.  Scripts and generator empty the file they are about to
  write, and may be stopped before they have written it.  The generator lays its
  panels out by hand and numbers rows and panels separately.  Correct means:
  the scripts the text was written for lose and double nothing, a run that
  reports its success has lost nothing, an overview that is whole is what the
  text says, ids are distinct, and panels do not overlap.

`PROJECT.json` lists each of these hazards with its line and the properties
that would catch it.

## 2. The modules

| Module | Models | Read with |
|---|---|---|
| `RateLimiter` | `AllowRequest` for one user | `MCRateLimiter`, `RateLimiterProofs`, `RateLimiterCallProofs` |
| `Ingest` | `HandleIngest`, the writer, the topic, outages and crashes | `MCIngest`, `IngestProofs` |
| `Aggregator` | the consumer of one partition, its pipeline, commits, crashes and rebalances | `AggregatorProofs` |
| `Detector` | `RecordEvent`, the ticker, the evaluator, the alert | `MCDetector`, `DetectorProofs` |
| `DetectorSeconds` | the detector with a count of each second, late only when Redis is | `Detector` |
| `Hub` | `Run`, `ServeWS`, readers, subscriber, browsers | `HubProofs` |
| `Fanout` | the abstract promise of the hub: one log, and for each member a contiguous piece of it | refined by `Hub` (`ImplementsFanout`) |
| `DashboardText` | the text of the generator and what each script makes of a text | `Dashboard`, `DashboardTextProofs` |
| `Dashboard` | the generator statement by statement, and the scripts between its runs | `DashboardProofs` |

The definitions named `Faulty...` say what a slip in the code would make of the
definition they precede.  No specification uses them; they exist so that each
property can be shown to fail when the code is wrong.

### RateLimiter

One key, that is one user: keys do not share state.  `members` is the sorted set (a
member is its stamp, and `Score` is the float64 stored for it), `expireAt` the
expiry of the key.  `Begin` is lines 28-48 (read the clock, queue the
commands), `ZRem`, `ZAdd`, `ZCard` and `Expire` are the four commands as Redis
executes them, `Answer` and `Fail` the two returns.  `Fail` needs no retry
before it: the context of the request may be cancelled, or the error may be one
that go-redis does not retry; Redis then goes on with what it was sent.  `Break` is a connection
that breaks at any point of its pipeline, `Retry` go-redis sending the pipeline again with the
stamp and the windowStart of the first attempt.  `Tick` moves the clock and drops the key when
its expiry has passed.  A call may start late: between `Begin` and `ZRem` any
time and any other call may pass, which is how stamps come to be executed out
of order.  `Whole` says whether Redis runs each pipeline in one go (what
happens when a pipeline fits the read buffer of the connection) or may alternate
between two, which nothing forbids.

### Ingest

`stage[r]` walks through `HandleIngest` from one statement other goroutines
can notice to the next; the early returns are `Refuse` (400), `Limit` and `Reject`
(429, after one metric each: lines 60 and 61) and `ProduceError` (500; with the broker up as
well, when an event cannot be marshalled or is too large).  In the stage `reading` the
handler waits for the body, which its client may never end.  The answer of the limiter is a choice here, an error of the limiter
being the same as yes (the handler fails open).  `Return` is the deferred
`ActiveConnections.Dec`.  The goroutine that tells the detector is started by every
valid event (`Validate`) and may fail (`Ping`): nobody looks at its error, and no
property promises anything of it.  `queue`, `batch` and `attempts` are the writer's
state per partition; `CutBatch` closes a batch of any size up to the maximum
(the 10 ms timer may close it early), `Store` is a write the broker takes or
loses (`RequiredAcks` is left at its zero value, none), `AttemptFails` an
attempt during an outage.  `Crash` takes requests, queues and counters with
it: `Close` is deferred in `main`, which no path leaves by returning.

### Aggregator

`position` is the next offset to fetch, `queued` the offset `ReadMessage` has
queued for the ticker, `committed` what the broker stores.  `Pipeline(o)` is
the list of commands of one event: `INCR` only when it has a type, and
`ZINCRBY`, because the gateway lets no event without a user pass.  A rebalance makes the reader
resume from what is stored while the event in the loop goes on.

### Detector

The average is the exact fraction `num / den`: each fold multiplies the
denominator by 5.  `Start` and `Evaluate` are the two branches of the body of
the loop, `Second` is the ticker with its buffer of one, `PublishSpikeAlert`
the wait for Redis.  The goroutine may take its tick late for any reason.
`DetectorSeconds` adds the events of the current second and of the busiest, and
lets only Redis make the goroutine late (`Prompt`).

### Hub

A channel operation is one step of both sides, since all three channels are
unbuffered: `Register` and `Unregister` move the handler or the reader as well
as `Run`.  `Broadcast` begins the loop over the clients, `WriteMessage` picks the next of
them, `WriteOk` and `WriteError` are its outcomes; while `current` holds a
browser that has stalled neither is possible.  A write to a browser that has
just left may still succeed: the kernel takes the bytes.  go-redis queues
messages in a channel and drops those that find it full (`Publish`).  The counter
`MessagesBroadcasted` (`hub.go` 67) is left out.

### Dashboard

A text is a sequence of statements: a mark (`# ROW 3: ...`), `add_row`, the
`append` of a panel with its title (written with `_` for a space) and place, `y_pos += n`, the query of the
map, the `with` that saves, the call of `create_dashboard`.  Every cut a
script makes falls between two of them.  `DashboardText` has Python's slices
as operators, with -1 for a line that was not found, and the four scripts as
functions from texts to texts.  `Present` is the text in the repository;
`Original` is the one the scripts were written for.  It is not in the repository: it is
told by what the scripts look for and replace (`restructure.py` 9 and 29-36,
`merge_top.py` 8 and 93).  The section of the KPIs, from its mark to the next, which
`merge_top.py` cuts out, must have held charts: the functions that built them
(`create_stat`, `create_gauge`, `create_bargauge`) are still there, without a call.
As nothing tells which charts they were, one statement `Kpis` stands for the whole
section, and draws one panel.  The two texts are joined by the code itself: `restructure.py`,
`merge_top.py`, `move_back.py` and `populate_map.py`, in this order, make
`Present` of `Original`.  The functions were compared with the real scripts on
copies of the file: the marks, rows, panels and steps that remain are the same
after every sequence of up to three runs, from both texts.

`Dashboard` runs the generator one statement per step.  The call that ends the
text runs what is above it; what a script has moved below it runs in the
module, where `add_row` and `panels` are not defined (`NameError`).
`OpenOverview` empties the file and `DumpOverview` fills it; `Kill` may come
between any two steps.  The scripts are run when the generator is not: a
person at a terminal runs one command at a time.  A script is two steps as well:
`Edit` reads the text, computes another (`pending`) and opens the file, which
empties it; `WriteText` writes.  `StopScript` in between leaves the empty file.  An
empty program runs to its end without an error: `EndGenerator` then has the
result `silent`, the exit code of a good run without its message and without an
overview.  A text cut off between two blocks of the write is not told from the
empty one (it is no Python, or defines a function that nobody calls), and
what a script makes of a file that another left empty is not followed, since none
can mend it.

## 3. The runs

| Run | Module, cfg | Question | Result |
|---|---|---|---|
| `limiter` | `MCRateLimiter`, `RateLimiter.cfg` | does the limit hold, are denials justified, does a silence restore the quota, does the key live as long as its members? | holds, 5.7 million states |
| `limiter_split` | `MCRateLimiter`, `RateLimiter_split.cfg` | are the four operations atomic? | no: two calls count each other and both are denied |
| `ingest` | `MCIngest`, `Ingest.cfg` | do the metrics balance, do refused events stay out, does the order of a user survive, what can lose an event that is in the writer? | holds, 274 thousand states |
| `ingest_outage` | `MCIngest`, `Ingest_outage.cfg` | does the gateway buffer until Kafka recovers, is what it counts as published published? | no: the writer drops the batch after its last attempt |
| `aggregator` | `Aggregator`, `Aggregator.cfg` | what do failures cost, and is everything read in the end? | holds, 184 thousand states |
| `aggregator_crash` | `Aggregator`, `Aggregator_crash.cfg` | is an event kept until it is processed? | no: its offset may be committed first |
| `detector` | `MCDetector`, `Detector.cfg` | what does an alert mean, how often is it repeated? | holds, 439 thousand states |
| `detector_twice` | `MCDetector`, `Detector_twice.cfg` | does twice the historical average raise an alert? | no: it takes 8/3 |
| `detector_late` | `DetectorSeconds`, `DetectorSeconds.cfg` | is the rate of an alert that of a second? | no: not after a slow `PUBLISH` |
| `hub` | `Hub`, `Hub.cfg` | map and gauge, leaks, the refinement of `Fanout`; do updates go out, are browsers that left forgotten? | holds, the last two if no browser stalls for ever; 6,695 states |
| `hub_stalled` | `Hub`, `Hub_stalled.cfg` | do all connected dashboards get an update? | no: one that stops reading keeps it from the others |
| `dashboard` | `Dashboard`, `Dashboard.cfg` | when are the scripts safe, what does an order they were not written for cost, what is a run that reports its success worth? | holds, 26 thousand states |

### What the properties say

* `WindowBound`: for every delay `d` up to the window and every end, the
  allowed calls that Redis counted at most `d` ticks after they were stamped
  and whose stamps lie in an interval of length `Window - d - Slack` have at
  most `Limit` distinct stamps.  `Slack` is what rounding can move two scores
  apart.  With no delay and exact scores it is the documented rule.  It is about distinct stamps because
  calls of the same tick are one member: a clock with a coarse tick lets more
  calls through than the limit, although `documentation.tex` 179-183 calls
  the members unique.
* `RejectionJustified`: a denied call saw more than `Limit` stamps really
  sent and not older than the window.  It does not say that any of them was
  allowed: denied calls are members too, and those of a user who does not pause can be all
  that fills the window, so that every further call is denied.
  `SilenceRestoresQuota` says what ends it: let no call have its stamp within a window
  before `t`; then, whatever was denied earlier, a call at `t` or later is denied
  only when `Limit` calls at `t` or later were counted within the limit, or lost
  a try that may have been counted.
* `KeyLifetime`: while no pipeline is half executed, a key with members has
  an expiry, no more than a window away and no sooner than any member needs.  What a
  lost pipeline may leave is in section 4.
* `MetricsBalance`, `RefusedStaysOut`, `UserOrder`, `LossNeedsFailure`: as in
  section 1.  `MetricsBalance` holds between any two updates; there
  `RateLimitHits` is ahead of the counter of refusals by the handlers between
  lines 60 and 61.  `LossNeedsFailure` blames a failure
  only while the event is in the writer: an outage before is no excuse, nor is a
  client that keeps back its body.
* `LossBound`, `DuplicateBound`, `ExactWhenCalm`: how many events can be
  missing or counted twice, given the crashes, broken connections and
  rebalances that happened.  `CommitsFollowReads`, `CommitsNeverRetreat`,
  `EveryMessageCounted`, `EverythingAggregated` are about offsets, counters
  and progress.
* `AlertIsSpike`, `AlertNeedsGrowth`, `AlertsSubside`, `MeanIsBetween`: what
  an alert means, that steady values raise none, and that a value that jumped and stays is
  reported at most three times.  They are about the values the evaluator takes,
  whatever time a value covers.
* `GaugeMatches`, `NothingLeaks`, `ImplementsFanout`: two goroutines may
  notice the same disconnect, and one of them counts it; a finished connection
  is closed and forgotten; each browser sees a contiguous piece of one
  increasing order, never more than one message behind.  `GoneIsForgotten`,
  `UpdatesGoOut` and `ReadersReceiveUnlessStalled` are its liveness.
* `OnceIsSafe`: from the text they were written for, the scripts, each at most
  once and in any order, leave every chart of rows 2 to 7 drawn exactly once (unless one was
  stopped and has left the file empty).
  `OnlyRestructureLoses`: whatever is run how often, `move_back.py` and
  `populate_map.py` write a text that draws all that was drawn before, and
  `merge_top.py` one that draws all but the KPIs it is to replace.
  `ReportedIsWhole`: a run of the generator that prints its success has left an overview
  with every chart of rows 2 to 7.  When `restructure.py` has lost some, the run
  ends in a `NameError`; when a script was stopped, it ends without an error, and only the
  missing message tells.  `SavedIsRendered`: an overview that is whole
  is what an independent reading of the text (`Rendered`) draws, also after a
  run that was stopped half way.  `IdsDistinct`: fewer than 100 panels have
  different ids.  `OnlyInfrastructureOverlaps`: no two panels overlap but in
  the one row of section 4.

Every property has a mutant of a mapped definition in `PROJECT.json` under
which its run finds it violated.

### Bounds, and why they are enough

| Run | Bounds | Why |
|---|---|---|
| `limiter` | 3 calls, one on a connection that breaks, limit 1, window 4, clock 6, scores on every second tick, 1 retry | two calls reach the limit, a third shows what a denied or a forgotten one does to it; the clock passes the window and the expiry; stamps fall on, below and above a score |
| `ingest` | 2 requests on one partition, batches of 2, 2 attempts, two outages, one lost batch, two crashes | a full and a partial batch, a batch dropped, one retried and one behind it, a client that stalls beside one that does not, requests of two lives of the gateway, in every interleaving; the safety properties are proved for every number of each |
| `aggregator` | 3 events (one without a type, one malformed), 1 retry, 3 broken connections, 2 crashes, 1 rebalance | a pipeline broken twice is given up and a third break meets the next event; a second crash meets an event read again |
| `detector` | 6 ticks, loads of 5, 90 and 300 alone or with one another, noise 100 | a first average, then a jump and the four values after it, one more than alerts can repeat |
| `hub` | 2 browsers, 2 updates, a queue of 1, one browser may stall | a browser joins or leaves while another is written to, one waits for another, the queue overflows; the safety properties are proved for every number of each |
| `dashboard` | 4 runs of the scripts, from both texts | each script once in every order, with which the loss of charts begins out of turn, and every one of them up to four times; the safety properties are proved for every number of runs |

The counters that would be unbounded (`clock`, `second`, `sent`, the failures, the runs of the scripts)
are bounded in the guards of their actions by constants whose comment says
"bound of the model"; the theorems hold for every value of these constants.
`CHECK_DEADLOCK FALSE` stands where a run ends because all its requests,
events or browsers are used up; the limiter and the detector say so by an
action `Finished`.

### Fairness

* `Ingest`: a handler that has its body goes on (one goroutine per request;
  go-redis and the writer bound their waits), pings
  end by their timeout, and the writer's goroutines run.  Nothing is assumed
  of the clients: neither `Arrive` nor `Body`, the end of reading, is fair, so
  a client may leave its handler waiting for ever.  And neither restarts nor recoveries
  are fair, because nothing in the repository starts a service again.
  `AcceptedIsPublished` has the recovery of Kafka as its premise.
* `Aggregator`: the loop, Redis and the ticker go on.  Weak fairness is
  enough: a step of the loop stays possible until it is taken or the process
  dies.  That a dead process is started again is the premise of
  `EverythingAggregated`.
* `Hub`: `Run`'s `select` picks one of the ready channels at random, so none
  is passed over for ever although it is not ready all the time: strong
  fairness of `Register`, `Unregister` and `Broadcast`.  A blocked write goes
  on when its browser reads, however often that one pauses: strong fairness of
  `Write`.  The liveness properties have the premise `NobodyStallsForever`,
  because the code sets no write deadline; `hub_stalled` shows what happens
  without it.

## 4. Where the code and the text disagree

Six runs end in a violation, each of a sentence in the repository:

1. `limiter_split`: a pipeline is not atomic (`documentation.tex` 174,
   `redis_limiter.go` 32).  Two calls after a silent window add themselves,
   then count each other, and both are denied.
2. `detector_twice`: the threshold is 8/3 of the average before the value,
   not twice (`ema.go` 40, `documentation.tex` 144).
3. `detector_late`: a value is not what arrived in one second (`ema.go` 26,
   `documentation.tex` 142).  While the evaluator waits for Redis a load of 300
   per second adds up to 600, which is reported as the rate.
4. `hub_stalled`: not "all connected dashboards receive updates
   simultaneously" (`documentation.tex` 240).
5. `ingest_outage`: the gateway does not buffer through an outage
   (`NexPulse_PRD.md` 1507), and the counter of events "accepted and published to
   Kafka" (`prometheus.go` 11) counts them when they are queued, published or not.
6. `aggregator_crash`: an event can be lost (`documentation.tex` 80,
   `NexPulse_PRD.md` 1504).

Seen while modelling, without a run of their own: a connection that breaks after
`ZADD` leaves a key that no later call refreshes without an expiry, although
`documentation.tex` 180 says that the keys of idle users are always collected (the
premise of `KeyLifetime` excepts it); `EventsProcessed` counts events whose
pipeline failed; `dashboard.ps1` 5-6 and `README.md` 186 show
`leaderboard:endpoints` and `leaderboard:countries`, while the aggregator
writes only `leaderboard:users`.  In the dashboard: `y_pos` goes down by 7 after
panels that are 9 high (`generate_dashboard.py` 413), so that the row after
them overlaps; a stale mark of ROW 7 stands above ROW 3 (line 289), so that
`restructure.py`, run on the text as it is, moves rows 3 to 7 below the call and the
generator ends in a `NameError`; a second run of `merge_top.py` does not find its
mark and doubles the text instead of replacing its top; a script stopped between
`open` and `writelines` leaves an empty generator, whose run exits well.

## 5. What is proved

| Theorem | Says, for every value of the constants |
|---|---|
| `TypeCorrect`, `LimitIsKept` (`RateLimiterProofs`) | `[]TypeOK`; and `[]WindowBound` for a server that executes pipelines in one go (`Whole`) |
| `KeyLivesAsLongAsNeeded`, `DenialsAreJustified`, `SilenceRestores` (`RateLimiterCallProofs`) | `[]KeyLifetime`, however Redis interleaves; `[]RejectionJustified` and `[]SilenceRestoresQuota` under `Whole`, without which `limiter_split` refutes the latter |
| `IngestTypeCorrect`, `MetricsAreBalanced`, `RefusedNeverStored`, `UsersStayInOrder` (`IngestProofs`) | every safety property of the gateway |
| `DetectorTypeCorrect`, `AlertsAreSpikes`, `MeanStaysBetween`, `NoAlertWithoutGrowth`, `AtMostThreeAlerts` (`DetectorProofs`) | the five invariants of the detector |
| `AggregatorTypeCorrect`, `CommitsAreRead`, `CommitsAdvance`, `MessagesAreCounted`, `OneLossPerFailure`, `DuplicatesNeedFailures`, `CalmIsExact` (`AggregatorProofs`) | every safety property of the aggregator |
| `HubTypeCorrect`, `GaugeIsRight`, `NothingRemains`, `HubImplementsFanout` (`HubProofs`) | every safety property of the hub, the refinement of `Fanout` included |
| `PanelIdsDistinct`, `TypeCorrect`, `OverlapsOnlyInInfrastructure`, `SavesWhatIsRendered`, `ReportsAreWhole`, `OnlyRestructureLosesCharts`, `OnceEachIsSafe` (`DashboardProofs`, with the lemmas on texts in `DashboardTextProofs`) | every safety property of the dashboard, for every number of runs of the scripts in every order |

The assumptions are those named in the modules (`LimiterAssumption`,
`IngestAssumption`, `DetectorAssumption`, `AggregatorAssumption`, `HubAssumption`, `EditsAssumption`): sets are
finite where they are counted, bounds are natural numbers.  The arguments:

* **Limiter.**  `WindowBound` speaks of answered calls; what an induction needs
  is why Redis still knows them.  `WindowInvariant` adds that stamps are in
  the past, that an allowed call was counted within the limit
  (`AllowedArePassed`), that a call once added stays in the set, and its key
  alive, until its window is over up to rounding (`CountedAreRemembered`), and
  the bound for calls already counted and not yet answered (`PassedBound`).  Then, when `ZCARD`
  counts a call within the limit, the earlier ones of its interval are all
  members, so they are among the at most `Limit` it saw.
  `RejectionJustified` needs that Redis is in one pipeline at a time
  (`OneByOne`) and what the set holds meanwhile: stamps of calls really made,
  none older than the window (`MembersAreMade`, `PrunedForCall`), so that a
  count is never more than the recent stamps (`CountsAreRecent`), which only
  grow.  `SilenceRestoresQuota` follows, for each time `t` with a silent window before it,
  the calls since `t` that were counted within the limit or lost a try
  (`SpentSince`): until there are `Limit` of them, the set holds of the time
  since `t` only their stamps and that of the call being counted (`MembersAreSpent`), and
  the pruning of a call after the silence leaves nothing older
  (`SilenceLeavesNothing`), so the first count above the limit finds `Limit`
  of them (`ExcessIsEarned`).  `KeyLifetime` needs that
  a call is half executed from its `ZREMRANGEBYSCORE` to its `EXPIRE`
  (`HalfStaysHalf`), and that an `EXPIRE` covers every member, since members
  are in the past.
* **Ingest.**  `MetricsInvariant` adds to the balance that a handler that has
  not decided has no outcome (`Silent`), so that it is counted once, and that a
  request in its handler was born in this life of the gateway (`Lives`), so
  that a crash leaves nothing to count.  `RefusedInvariant` says that what a
  partition knows (topic, batch and queue together) has gone past every
  refusal.  `OrderInvariant` reads the three as one line in which of two events the later
  was not answered before the earlier was sent: the writer takes pieces out of
  it and appends to its end, and an arrival has in its history only requests
  that were answered, none of which can come after it.
* **Detector.**  `AlertsSubside` is not inductive: it needs how much of the last
  value is already in the average.  `AverageCatchesUp` says at least
  `1 - 0.8^k` of it after `k` alerts in a row (1/5, 9/25, 61/125); a fourth
  alert would need less than 1/2 with 1 - 0.8^4 > 1/2 in it.  `MeanInvariant`
  joins it with the bounds of the average.
* **Aggregator.**  `ReaderInvariant` relates the three offsets to the event in
  the loop; `LossInvariant` charges each event that can be missing (below the
  position, not in the loop, not complete) to a crash or a pipeline given up;
  `DuplicateInvariant` counts for each event the sweeps of the reader and the
  retries that could have applied it; `CalmInvariant` follows the commands of
  the event in the loop while nothing has failed.
* **Hub.**  `MapInvariant` says where the registered connections can be and
  that `Run` writes to registered ones only; `OrderInvariant` that the updates
  taken, in the subscriber's hand and in the queue are in increasing order;
  `DeliveryInvariant` that what a browser got is the piece of the log from
  where it joined, complete up to the message being written.  The refinement maps
  each step to a step of `Fanout` or to a stutter.
* **Dashboard.**  The k-th panel has the id k, or k + 99 when it is a row
  (`Numbered`); two of them can meet only at the hundredth.  The rest
  depends on what the scripts can make of a text, run after run.
  `WellFormed` is the form that both first texts have
  (`OriginalWellFormed`, `PresentWellFormed`) and that every script
  keeps (`RestructureKeepsForm`, `MergeTopKeepsForm`,
  `MoveBackKeepsForm`, `PopulateMapKeepsForm`): a save and the call below it
  stay together (`Paired`); each chart outside the infrastructure is followed,
  after only charts beside it or the query, by a step down as high as itself
  (`LaidOut`), right below it when it is the wide one that `restructure.py`
  narrows (`WideStepsDown`); the mark that `merge_top.py`
  replaces stands right above the one it stops at (`KpisOnTop`); the function is
  defined in the first line and nowhere else; and the save, the marks that are looked for
  and the charts of rows 2 to 7 are still somewhere (`Essential`).  None of these
  parts holds on its own: a script that finds no mark uses -1, so
  that it cuts above the last line, and the form says that all these
  places are ones where a text may be cut (`CutAt`, `Breaks`).  The file may also be empty, while a script is about to write
  (`Emptied`: what it will write has the form) or after it was stopped; a
  generator that has a line to run has a text with the form (`Running`).  With
  the form, `Drawing` says what a run of the generator has
  done before each line: what it drew is the page of the text above that line, and the
  overview is what the text says once it is past a save.
  `Stacked` gives the layout: every panel ends above the next free line,
  belongs to the infrastructure, or waits for the step down that
  clears it.  `ReportsAreWhole` is that a chart below the
  call stops the run, and that an empty text has no report; `OnlyRestructureLosesCharts` follows the first save
  through the other scripts (`MergeTopDraws`, `MoveBackDraws`, `PopulateMapDraws`).
  TLC agrees that the whole of `DashboardInvariant` is invariant.
  `OnceIsSafe` is about the texts themselves.  `OnceInvariant`: while no script has
  run twice on the original text, the file, or what is about to be written there, is
  one of twelve (`Written`): the KPIs on top or the overview that replaces them; row 7 as it was, moved up, or moved back with
  a stale mark above the rows; a map of the one or the other cities.  Which one
  tells which scripts have run, but for `move_back.py`, which may have found nothing
  to move.  Each script makes of such a text another one or leaves it alone
  (`WrittenMovedUp`, `WrittenMovedBack`, `WrittenNotMoved`, `WrittenMerged`,
  `WrittenPopulated`); here it matters that `restructure.py` comes once, before
  there is a stale mark.  Above
  the save every one of the twelve draws each of its charts once (`WrittenBody`), and below it
  stands nothing that could fail (`NothingFails`).

What the loop of `restructure.py` makes of a block and what the page is after each
line are recursive functions.  Induction over them needs no theorem with an operator
parameter: `DashboardTextProofs` derives induction for *sets* of natural numbers
from the well-foundedness of `<` (`LeastNatural`, `InductionOnNat`), and from it that
a function defined by primitive recursion exists (`PrimitiveRecursion`).

Only model-checked, since fairness and `ENABLED` are beyond the prover, are the
liveness properties: `LossNeedsFailure`,
`EverythingAggregated`, `GoneIsForgotten`, `UpdatesGoOut` and
`ReadersReceiveUnlessStalled`.

## 6. What is not modelled

* The memory of Redis: `allkeys-lru` (`redis.conf` 6) may evict a user's set or the
  leaderboard when Redis is full.  No code notices or reacts; the properties of the
  limiter and of the aggregator hold for keys that are not evicted.
* The leaderboard query: one read of a sorted set, without state of its own.  What the
  set can hold is what `LossBound`, `DuplicateBound` and `ExactWhenCalm` say of `ZINCRBY`.
* The simulator: a client without state.  Its requests are the arrivals of
  `Ingest`; its division of a rate by a number of workers is one line.
* Rounding of the detector's `float64` average, histograms of latencies,
  logging, CORS, JSON layout; `MessagesBroadcasted`; `KafkaConsumerLag`, which the code never sets.
* Time limits of the HTTP server: there are none, so nothing says when a request
  is answered.  The pings to the detector are started and may be lost; what the
  detector then counts is not followed.
* More than one replica of a service and more than one user of the limiter:
  keys, partitions and users do not share state in this code.
* PowerShell scripts, Docker, Prometheus and Grafana configuration: they hold
  no state of the program; what the code relies on (one broker, one Redis) enters
  the modules as the actions named above.

## 7. Where it could go on

Every safety property is checked and proved.  What would add to it:

1. `Ingest` and `Aggregator` composed over the topic, against an abstract
   specification of counting: each accepted event counted at most so often,
   whatever fails in either service.
2. The pings of `Ingest` composed with `Detector`: what the detector counts when pings are
   late.
3. Redis with a bounded memory, under the limiter and the aggregator.
