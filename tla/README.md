# Sentinel gateway: verification project

Sentinel (`src/`) is an HTTP gateway for one downstream service. It runs as
several identical pods which coordinate through Redis. This directory holds
TLA+ models of the parts that decide what happens to a request, the TLC
configurations that check them on small instances, and TLAPS proofs of what
holds for every instance. File names below are relative to `src/src/`, documents
to `src/`.

    tlc -workers 2 -config BreakerFaults.cfg MCCircuitBreaker.tla
    tlapm CircuitBreakerProofs.tla

## 1. Inventory

| Component | State it keeps | Operations | Talks to |
|---|---|---|---|
| Request pipeline, `proxy.ts` | per request: plan, limit, abort controller, timer, close listener | one handler: bucket, limiter, scheduler, breaker, degraded answer, fetch, stream | all below |
| Local token bucket, `limiter/tokenBucket.ts` | tenant -> tokens, lastRefill | `allow` | called by the pipeline |
| Distributed limiter, `limiter/distributedLimiter.ts` | Redis sorted set `rate:<tenant>` with a time to live | `getAdaptiveLimit`, `checkDistributedLimit` (Lua script) | Redis, awaited |
| Protection mode, `pressure/protectionMode.ts` | currentMode, lastModeChange | `getMode`, which also updates | reads the global pressure |
| Priority scheduler, `scheduler/` | none | `shouldAllow`, `getTenantPlan` | calls `getMode` |
| Circuit breaker, `breaker/circuitBreaker.ts` | service -> state, lastTransition, failures, successes; a history nobody reads | `check`, `recordSuccess`, `recordFailure`, message listener | Redis pub/sub, key `breaker:<service>` (written only) |
| Global pressure, `pressure/globalPressure.ts` | currentGlobalPressure; Redis keys `pressure:<pod>` for 5 s | publish every 1 s, refresh every 500 ms | Redis, pressure monitor |
| Pressure monitor, `pressure/pressureMonitor.ts` | lag samples, request and error counts | two timers, `reportRequest`, `getPressure` | called by the pipeline |
| Redis client, `redis/client.ts` | the shared connection | `getRedisClient` | ioredis, one retry per command |
| Metrics, tracing, correlation, logging, health, bootstrap, configuration | counters, spans | | no decision reads them |
| `utils/timeout.ts`, `shouldBlockRequest`, `reportError`, `breakerFailureThreshold` | | never called or read | |

A pod is one JavaScript thread. A handler is therefore cut into turns only by
its two `await`s (the limiter's script, the downstream `fetch`); in between,
other requests, timers, the subscriber's messages and Redis replies run. Across
pods everything interleaves, ordered only by Redis.

What is hard, and what makes each part correct:

- **Breaker.** Results of requests admitted in an earlier state; messages late,
  repeated, reordered, lost or missed by a subscriber that is away; two clock
  readings per transition and clocks that differ; restarts with an empty memory;
  no count of probes in flight. A cluster that is OPEN must stay so for the
  cooldown and leave it again; the breaker must keep its counters meaningful
  and agree across pods.
- **Bucket.** A clock that is set back, fractions of a token, refusals in a
  tight loop, restarts. A tenant must get no more than capacity plus rate times
  real time, and asking in vain must cost nothing.
- **Distributed limiter.** Timestamps that arrive out of order, replies lost and
  commands resent or run after their caller gave up, a key that expires. The
  latest window must not hold more allowed requests than the limit.
- **Mode.** No timer of its own; jumps by several levels. It must follow the
  pressure and not flap.
- **Pipeline.** State read before an await and used after it, a mode that
  changes between two readings in one condition, a timer racing an answer, a
  client that leaves. It must forward only under the conditions of the moment,
  time what it waits for, and end every handler.
- **Pressure.** Samples of an earlier load in the history; KEYS and MGET as two
  commands, overlapping refreshes, late and failing publications, values of dead
  pods. The local pressure must follow the load, a pod that is slow because it is
  overloaded must still be counted, and the pods must come to one average.
- **Shutdown.** The server stops accepting and waits for what is in hand; the
  handlers must run out whatever the downstream service does.

`PROJECT.json` lists these hazards with the line where each bites and the
properties that would show it.

## 2. Modules

| Module | Extends or instantiates | Models |
|---|---|---|
| `CircuitBreaker` | `ReplicatedBreaker` (refined) | the breaker on every pod, pub/sub, time, failures |
| `ReplicatedBreaker` | | what the replicated breaker promises: versions and announcements |
| `MCCircuitBreaker` | `CircuitBreaker` | clock offsets and symmetry for TLC |
| `CircuitBreakerProofs` | `CircuitBreaker` | invariants, action properties, the end of OPEN episodes, the refinement and the agreement of settled pods |
| `TokenBucket`, `MCTokenBucket`, `TokenBucketProofs` | | the local bucket |
| `SlidingWindow`, `MCSlidingWindow`, `SlidingWindowProofs` | | the distributed limiter |
| `ProtectionPolicy`, `ProtectionPolicyProofs` | | the rule of `updateMode`, as operators, and lemmas about it |
| `ProtectionMode`, `ProtectionModeProofs` | `ProtectionPolicy`, its proofs | the mode of one pod over time |
| `Gateway`, `GatewayProofs` | `ProtectionPolicy`, its proofs | the request pipeline of one pod, with its mode and its shutdown, and the breaker and limiters by their outcome |
| `PressureMonitor`, `MCPressureMonitor`, `PressureMonitorProofs` | | the local pressure of one pod; lemmas about sums and averages |
| `GlobalPressure`, `MCGlobalPressure` | | publication and averaging on every pod |
| `GlobalPressureProofs` | `GlobalPressure`; instantiates `PressureMonitorProofs` as `Monitor`, with the constants of the code | proofs about the global pressure, and from the local one to it |

### CircuitBreaker

`breakers` is the `Map` of each pod (its domain: the pods that have an entry for
the one service the proxy names). `outbox` holds PUBLISH commands handed to the
connection and not yet run by Redis, `inbox` what Redis sent to a subscriber and
the listener has not handled, `subscribed` the pods whose subscriber is
connected. `pending` counts admitted requests without an outcome, divided into
those admitted since the breaker last changed and older ones; the code does not
distinguish them, the properties do. `newest` and `missed` are history: the
published messages with the highest timestamp and the pods that will not handle
all of them.

| Action | Code |
|---|---|
| `Admit`, `StartProbing`, `Deny` | `check` |
| `RecordSuccess`, `RecordFailure` | the methods, with `checkHalfOpenStatus` and `transition` inside |
| `EndUnrecorded` | the catch of the proxy, or a degraded answer after `check` |
| `HandleRemoteUpdate` | the message listener |
| `ExecPublish`, `RepeatPublish`, `DropPublish` | Redis runs a command, runs it twice (lost reply, resent), the client gives it up |
| `Subscribe`, `Disconnect`, `Restart`, `Tick` | connection, pod and clock |

`transition` reads the clock twice, for `lastTransition` and for the message;
`MaxStall` bounds the time in between. `Skew` gives each pod's clock its offset.

### ReplicatedBreaker

The promise of the breaker without requests, counters and queues. `view` gives
each pod a version, a state and the time it was entered; `wire` holds announced
versions that may still reach someone. A pod may `Decide` along an edge of the
state diagram (out of OPEN only after the cooldown) and announces it, `Join` with
a CLOSED version of its own, `Learn` a later announced version, `Forget` all; an
announcement may get lost. `CircuitBreaker` implements it under the mapping
`View` (the entries without counters) and `InFlight` (whatever stands in any
`outbox` or `inbox`). It forbids, among others, a state change that is not
announced, an older version coming back through a late or repeated message, a
version nobody announced, and a pod that changes another pod's entry.

### TokenBucket

Tokens are thousandths, so that the refill is exact in integers; floating-point
rounding is the only thing left out. `now` is real time, `behind` how far the
clock has been set back, `allowed` and `restarts` are history. `Take` and
`Refuse` are the two outcomes of `allow`, refill and creation of the entry
included.

### SlidingWindow

One tenant (keys are independent). `Send` is the call up to the await, with the
clock reading and the limit computed for the pressure of that moment; `Script`
is the Lua script, one step because Redis runs one script at a time; `Run`,
`RunUnheard` and `Fail` are its success, a lost reply with a resend, and the
catch. A failed command may still run. Request ids are distinct (`index.ts:17`
makes UUIDs), so the sorted set is a function from ids to scores.

### ProtectionPolicy, ProtectionMode

`Updated` is `updateMode` with `changeMode`. The policy depends on
`lastModeChange` only through its age, and on the age only up to the hysteresis,
so ages saturate there and time needs no bound. `earlier` is history.

### Gateway

`phase` says which await, if any, a request is in. `Arrive` is the first turn;
`LimiterRejects`, `Shed`, `Deny` and `DegradeOrForward` are the outcomes of the
second; `Respond` and `Fail` those of the third; `BodyEnds`, `TimerFires` and
`ClientLeaves` happen outside the handler. Each action contains every reading of
the mode its turn makes, in order, each with the update it may cause, and the
clock may pass the hysteresis between two readings. With tracing off the reading
at `proxy.ts:126` is not evaluated (`span?.`), hence the constant `Tracing`.
`timers` and `aborted` follow the abort controller: the timer is cleared when
headers arrive or the client leaves, and not when `fetch` rejects. `Scrape` is
the metrics route, which reads the mode and thereby updates it. `Close` is the
handler of the signals (`index.ts:66-75`): from then on the server itself
answers new requests, and those in hand go on.

### PressureMonitor

`history` holds the lag samples, `requestCounts` the requests since the last
calculation, `currentPressure` the score in hundredths of a percent. `SampleLag`
and `CalculatePressure` are the two timers, `ReportRequest` the pipeline's call,
`LoadChanges` what the pod is put under. The processor load is the constant 0.2
of the code and the error rate zero, since nothing calls `reportError`. The
count saturates where it scores in full.

### GlobalPressure

`local` is the monitor's value on each pod, `keys` the Redis keys
`pressure:<pod>` with their value and ticks to live, `global` what
`getGlobalPressure` returns. A refresh is two steps, `Keys` and `MGet`;
`refresh` queues the replies to KEYS whose MGET is still to come, so refreshes
overlap and ask for keys that have expired since. `PublishFails` and
`RefreshFails` are the catches, `Stop` and `Start` the end and the start of a
pod. A tick is what delays publications and ages keys; `MinGap` and `MaxGap`
bound the ticks between two publications of a pod. `since` counts them, `missed`
is history: the publications that have failed in a row.

## 3. Runs

Passing:

| Run | Shows | States |
|---|---|---|
| `BreakerFaults` | skewed clocks, lost publishes: `CountersBelowThresholds`, `ClusterStaysOpen`, `OpenIsLeft`, `ImplementsReplicatedBreaker` | 0.38 M |
| `BreakerSync` | one clock, repeated publishes, disconnections and restarts: `Agreement`, `VersionsNeverGoBack` | 3.2 M |
| `Bucket` | `RateBound`, `RefusalsCostNothing` | 0.34 M |
| `Window` | `RecentAreCounted`, `AllowedWithinLimit` | 4.0 M |
| `Mode` | `FlappingIsBounded`, `ModeFollowsPressure` | 1000 |
| `Gateway` | `ForwardedUnderPresentConditions`, `ForwardingIsTimed`, `HandlersEnd`, `ShutdownDrains` | 0.28 M |
| `Monitor` | `PressureFollowsLoad` | 0.11 M |
| `Global` | failing publications, overlapping refreshes: `SlowPodsAreCounted`, `PodsConverge` | 0.47 M |

One run of each model also checks its type invariant. In `PressureMonitor` it
bounds the pressure by `Ceiling`, in `GlobalPressure` the average by 100.

Runs that find a documented statement violated by what the code does:

| Run | Statement | What the run shows |
|---|---|---|
| `BreakerProbeLimit` | "Max requests allowed in Half-Open state" (`README.md:125`), "Allow limited test requests (max 5)" (`circuitBreaker.ts:106`) | `check` counts finished probes only, so more than the maximum are in flight |
| `BreakerSpread` | "All pods receive event", "Local breaker state updated instantly" (`docs/08_Circuit_Breaker.md:126-127`) | a pod that hears of the service first by the OPEN message makes itself a CLOSED entry that the message is not newer than, and ignores the message |
| `BreakerStuck` | "Transition back to CLOSED or OPEN" (`docs/08_Circuit_Breaker.md:65`) | probes that end without a response leave the breaker HALF_OPEN |
| `BodyTimeout` | "Proxy enforces strict timeout per request." (`docs/08_Circuit_Breaker.md:148`) | the timer is cleared when the headers have come (`proxy.ts:309`), so a body that stalls is neither finished nor aborted |

### Bounds and why they suffice

- The breaker's runs have two pods, because every rule of the breaker compares
  one entry with one message; one is the source and the other the receiver.
  Queues of two allow an older message to stand before or behind a newer one, of
  another pod or repeated. One request in flight per pod, of either age, makes
  late results possible. The cooldown is 1 ms.
- `BreakerFaults`: both thresholds are 2, so that a counter stands strictly
  between zero and its threshold; clocks a millisecond apart; 2 ms of time cover
  opening, cooling down, probing and the verdict. `OpenIsLeft` speaks only of
  episodes whose cooldown ends within that time.
- `BreakerSync`: thresholds of 1, because `Agreement` depends on versions and not
  on counters; 3 ms and a stall of up to 1 ms between the two clock readings of
  a transition. All safety properties of the breaker are also proved without
  bounds.
- `Bucket`: 300 tokens a second, so a token takes more than three milliseconds
  and fractions matter; capacity 2, 8 ms, 3 ms of set-back, one restart.
- `Window`: three requests, a window of 2 ms, base limit 2 and the minimum of 1
  at full pressure, so the limit is reached and exceeded; clocks up to 1 ms
  ahead and commands up to 1 ms late reverse the order of timestamps; six
  milliseconds let a key expire (second = 2 ms, grace 1). The three calls are
  all there are, so the run may stop: deadlock is not checked there.
- `Mode`: pressures of each mode's range, at and just below its thresholds and
  the 70 percent of `ModeFollowsPressure`; hysteresis 3. Ages saturate, so time
  is unbounded.
- `Gateway`: two requests, one pressure per mode, hysteresis 1. A request
  depends on others only through the mode and the breaker, which change freely
  in any case. `BodyTimeout` has one request and two pressures: the stalled body
  needs no other.
- `Monitor`: a history of 4 samples, a full score at 20 ms of average lag,
  3 requests for the full rate, three loads (light, middling and heavy,
  `MCPressureMonitor`), so every score between none and full occurs and a
  history full of one load has to be forgotten under the next.
- `Global`: two pods with pressures 0 and 60 (the average 30 is neither's own).
  One tick between publications and keys of 3 ticks leave room for one failed
  publication and no more. One pod's refreshes overlap two at a time, the other
  pod's do not. `SlowPodsAreCounted` is proved for any and for uneven gaps.
- Symmetry (pods, tenants, requests) is used only where no liveness property is
  checked and no constant distinguishes the members.

### Fairness

- `CircuitBreaker`: time passes; requests keep arriving, so `check` is called at
  every pod; each request ends, if by nothing else then by the abort timer; Redis
  runs commands and the event loop handles messages. Nothing obliges a request
  to end with a record, which is what `BreakerStuck` turns on.
- `ProtectionMode`: time passes and requests keep calling `getMode`.
- `PressureMonitor`: the two timers keep firing (`setInterval`). Requests need
  not come.
- `GlobalPressure`: time passes, each pod's timers fire and an MGET that was sent
  is answered; failures are not assumed to end, `PodsConverge` says what follows
  if they do.
- `Gateway`: the limiter answers or its client gives up
  (`maxRetriesPerRequest: 1`), a timer fires, an aborted `fetch` rejects.
  Neither an answer of the downstream service nor the end of a body is assumed.
  The first of these fails if a Redis connection stays up and never answers:
  the client has no command timeout. `HandlersEnd` and `ShutdownDrains` are
  relative to that.

## 4. Proofs

All theorems are for arbitrary constants satisfying the named assumptions of
the modules: any set of pods, tenants, any thresholds, rates and offsets. Every
safety property the passing runs check is stated by one of them.

A liveness property rests on fairness, and fairness on ENABLED, which the prover
does not handle. What the code contributes can be proved all the same, with the
guards of the fair actions written out in the place of ENABLED, as hypotheses on
the behaviour: a due step does not stay due for ever without being taken.
`OpenIsLeft`, `HandlersEnd`, `ModeFollowsPressure` and `PressureFollowsLoad` are
proved relative to such hypotheses:

| Theorem | Hypothesis | Stands for |
|---|---|---|
| `OpenEnds` | `TimePasses` | `WF_vars(Tick)`, and ticks enough to reach `MaxTime` |
| | `ChecksCome` | `WF_vars(Check(p))` |
| `AllHandlersEnd` | `WaitsEnd` | the fairness of the limiter's answer, the timer and the aborted fetch |
| `ModeFollows` | `ReadingsCome` | `WF_vars(GetMode)` |
| | `HysteresisEnds` | `WF_vars(Tick)`, and ticks enough to outlast the hysteresis |
| `PressureFollows` | `CalculationsCome` | `WF_vars(CalculatePressure)` |
| | `SamplesCome` | `WF_vars(SampleLag)` |

`TimePasses` and `HysteresisEnds` count steps, which would take an induction over
time that the prover cannot carry out; each is about one clock alone. In
`PressureFollows` the steps are counted, one by one, which is why it is for
histories of up to 20 samples, as many as the code keeps
(`pressureMonitor.ts:32`). TLC finds every one of these hypotheses true under
`FairSpec` of the instance of its run, so no theorem is empty. Of `ShutdownDrains` and `PodsConverge` a part is proved: each
handler ends for good (`HandlersDrain`), and an agreement once reached stays
(`ConvergedStays`).

`CircuitBreakerProofs`
- `TypeCorrect`. Every write of an entry goes through `Keep`, `Transition` or
  `Adopted`; a lemma settles each, and the proof per action names the entry.
- `CountersAreBelow`. `CountersBelowThresholds` is inductive with `TypeOK`:
  a call writes either zeroed counters or counters it has just compared
  (`CallWrites`). A consequence: the refusal of `check` in HALF_OPEN
  (`circuitBreaker.ts:115`) and the 80% rule's return to OPEN (:195) are
  unreachable, whatever the configuration.
- `ClusterHolds`: `ClusterStaysOpen`, without an assumption on clocks. Of all
  calls only `StartProbing` and an adopted message change an OPEN entry
  (`OpenIsHeld`), the first after the cooldown; the messages that could be
  adopted were on their way or have just been sent, and by the refinement a pod
  that is OPEN sends none without leaving OPEN (`OpenSinceStays`).
- `VersionsAdvance`. Not inductive by itself: it needs that no entry and no
  message in a queue carries a time later than the clock
  (`NothingFromTheFuture`), which holds only when clocks agree (`NoSkew`, in the
  property). Under it, a transition stamps an entry no earlier than the one it
  replaces.
- `OpenEnds`: `OpenIsLeft`, for every pod by itself. While an episode lasts, the
  clock of the pod passes its cooldown, and it does not go back (`ClockAdvances`);
  then `CheckProbes` leaves `check` only the first probe of its three outcomes,
  whatever messages have been adopted since. Neither results of requests nor
  Redis are needed: the fairness of `FairSpec` that concerns them plays no part.
- `Refinement`: `Spec => ImplementsReplicatedBreaker`, for clocks that disagree
  and every kind of fault. Queues are treated as sets (`QueueRange`,
  `QueuesInFlight`); a call that writes an entry without a transition maps to
  `Join` or `Lose` (`KeepRefines`), a transition to `Decide`, a message that is
  adopted to `Learn`, one that is not to `Join` or `Lose`, a restart to `Forget`,
  the rest to `Lose` or nothing. `Decide` demands that the announcement is on the
  wire after the step, which is where `publishState` in the same turn is used.
- `SettledAgree`: `Agreement`. The invariant `Told` says, for clocks that agree
  and publishes that reach Redis: the newest messages have one timestamp; every
  message in an inbox is one of them or older; every entry that is not CLOSED is
  announced in its pod's outbox, or its message has been published; and a pod
  that missed nothing has each newest message in its inbox or is past it. It is
  inductive with `TypeOK` and `NothingFromTheFuture`, which is needed for a
  transition to move a pod forward.

`TokenBucketProofs`
- `TypeCorrect`, `RateIsBounded`, `RefusalsAreFree`. The invariant measures a
  bucket by its worth (tokens plus what the idle time would add, up to the
  capacity). A refill does not change the worth, a token taken lowers it by one
  token, a millisecond raises it by at most the rate, a clock set back never
  raises it. `RateBound` counts that worth as part of the budget, which makes it
  inductive.

`ProtectionModeProofs`
- `TypeCorrect`, and `FlappingBounded`: five changes of mode take longer than the
  hysteresis. The invariant `Climbing` says that the remembered ages ascend and
  that the mode is at least `i` while the `i`-th change before the last is
  younger than the hysteresis: a change that closely follows another is an
  upgrade, and four levels leave room for three.
- `ReachedModeStays`, the safety half of `ModeFollowsPressure`: while the pressure
  stays in the range of a mode, readings at any moment leave a pod in that mode or
  take it there, never elsewhere.
- `ModeFollows`: `ModeFollowsPressure` itself. Away from the mode the pressure asks
  for, no step but the reading that reaches it changes the mode or takes the
  hysteresis back (`StepTowards`), and once the hysteresis is over a reading is
  due and reaches it, from above as from below and over several levels
  (`RipeReading`). Without `HysteresisEnds` it would be false: a downgrade waits.
- `NeverAggressive`: pressures below 75 percent
  never lead to AGGRESSIVE or CRITICAL, hysteresis or not.

`SlidingWindowProofs`
- `TypeCorrect`, `RecentCounted`, `WithinLimit`. An allowed request leaves the
  sorted set by a purge, whose timestamp has then put it outside the latest
  window, or with the key; `KeyLives` says that the key outlives every allowed
  request by a window and the longest delay, because the script that allowed it
  ran at most `MaxAhead` before its timestamp and gave the key the whole time to
  live (`TtlCovers` is about rounding that up to seconds). It rests on
  `DisorderAssumption`: the grace of 5 seconds (`distributedLimiter.ts:16`) covers clock errors plus delays.
  `WithinLimit` then compares the requests allowed in the latest window with
  what the script counts.

`GatewayProofs`
- `TypeCorrect`, `ForwardedByPresent`. Only the reading of the
  mode needs an argument (`ReadPolicy`): its result is what the pressure asks for
  or the mode before, never lower than what the pressure asks for, so between
  two readings at one pressure the mode can only fall.
- `ForwardingTimed`: a handler that waits for the service has its timer armed or
  its fetch aborted. Inductive with the types, since everything that removes the
  timer of a waiting handler aborts its fetch (`TimerFires`, `ClientLeaves`) or
  ends the wait.
- `HandlerEnds` and `HandlersDrain` put the end of a handler, and its end for good
  after a signal, on three waits of the request itself, `WaitsEnd`: the limiter
  answers, an armed timer goes off, an aborted `fetch` rejects. From those,
  `ForwardingTimed` and the order of the phases it follows that the handler ends,
  and after a signal that it stays ended. `AllHandlersEnd` is `HandlersEnd`, the
  first of them for every request. `ShutdownDrains` speaks of one moment from
  which no handler runs at all: that there is one after each request has its own
  takes an induction over the requests under a temporal operator, and stays with
  TLC.
- `CeilingDisarms`: with pressures below 75 percent the pod's mode stays at
  MODERATE or lower through every reading in a turn, only FREE requests are shed
  by the scheduler and nothing is answered degraded.

`PressureMonitorProofs`
- Sums. `SumFunctionOnSet` of the community modules is a CHOOSE of a recursive
  function. The library's induction theorems cannot be instantiated, so
  `NaturalsByInduction` and `SubsetsByInduction` state induction with a set in
  the place of the predicate, from the well-foundedness of `<`. With them
  `SumIsDefined` shows that the recursion has a solution on the subsets of a
  finite set, `SumBounds` that a sum lies between the number of its terms times
  the least and times the greatest, `SumsAgree` that it depends on the terms
  alone; `Quotient` and its consequences carry this over to averages.
- `TypeCorrect`: the pressure lies within `Ceiling`, the history within its size.
- `SettledStays`, the safety half of `PressureFollowsLoad`: a history full of one
  lag scores as one sample of it does, whatever its length (`SteadyLagScore`).
- `PressureFollows`: `PressureFollowsLoad`. The samples of earlier loads leave
  the history (`HistoryRenews`): each sample makes the trail of samples of the
  present load longer by one (`SampleTrails`) and no other step makes it shorter
  (`TrailStays`), so that 20 fill any history; and if samples come to change
  nothing, the history is full of that load already (`UnmovedIsSteady`, an
  induction back from its last sample; it would be false of a history that takes
  nothing more once it is full). A steady history stays steady
  (`SteadyStays`), the first calculation clears the requests counted before, a
  second one settles the pressure (`CalculationSettles`), or none is needed any
  more.

`GlobalPressureProofs`
- `TypeCorrect`: an average of what the keys hold is a percentage, and not above
  all local pressures (`GlobalIsWithinLocal`). The invariant `TypeInv` adds that
  there are finitely many keys, by which the sum is defined at all; pods start
  and stop, but only finitely many have published.
- `SlowCounted`. `Lasts`: a key's time to live is at least the full one less a
  gap for each failed publication and the ticks since the last. Inductive with
  the types of the times alone; `(Tolerated + 1) * MaxGap < Ttl` is assumed.
- `ConvergedStays`, the safety half of `PodsConverge`. `Converged` says more than
  that all pods have the average: the keys are those of the running pods with
  their pressures, no pod has failed to publish more often than is tolerated, and
  every refresh under way asks for the keys of all running pods. The last two
  are what keeps the average from changing again.
- The lemmas about averages come from `PressureMonitorProofs` by instantiation.
  The instance has the constants of the code, for which `LoadsOfTheCode` proves
  what `PressureMonitor` assumes of them. `LocalStaysBelowAggressive` is about
  that instance: under every load the local pressure is below 75 percent.
- `GlobalStaysBelowAggressive`: local pressures within the monitor's ceiling
  average to less than 75 percent. `LocalStaysBelowAggressive`, this one,
  `NeverAggressive` and `CeilingDisarms` form a chain through the four
  components: as long as the processor load is the constant it is
  (`pressureMonitor.ts:51`) and errors are not reported, no deployment of any
  size enters AGGRESSIVE or CRITICAL mode, sheds paying tenants or degrades an
  answer. The chain is by the constants: each theorem takes as its hypothesis on
  `Local` or `Pressure` what the one before establishes, for the models are not
  composed into one.

Only model-checked: `ShutdownDrains` over all requests and `PodsConverge`, which
need an induction over requests or pods under a temporal operator; and, for the
other liveness properties, that the fairness of the specifications yields the
hypotheses in the table above, which involves ENABLED.

## 5. What the models leave out

- Data: URLs, headers, bodies, JSON, tenant names, log lines, metrics, spans.
- The breaker's failure history and stored key, which nothing reads. (So a new
  pod does start CLOSED, unlike `docs/08_Circuit_Breaker.md:201-202`.)
- Floating-point rounding in the bucket; the random draw of the scheduler is a
  choice of either outcome.
- `ProtectionMode` and `Gateway` accept any pressure at any refresh, which
  includes those `GlobalPressure` computes and, beyond today's ceiling, those it
  would compute if the missing signals were measured. `GlobalPressure` in turn
  accepts any local pressure in whole percent.
- `Gateway` keeps one request per place, and reuses a place only after the
  previous timer is gone.
- Redis failover and persistence; a Redis that loses its data behaves for the
  limiter like an expired key and for the breaker like missed messages.
- Health, metrics, tracing, logging, bootstrap, configuration, benchmarks and
  deployment files: no decision depends on their state. The two effects they do
  have are in `Gateway`: a scrape and a span read the mode.

## 6. Observations made on the way

Not stated as properties, for lack of a place where they could fail or because
the module for them is still to come:

- `ForwardedUnderPresentConditions` has one exception, taken from the code: the
  degradation test reads the mode twice (`proxy.ts:227-228`), and a downgrade
  from CRITICAL to AGGRESSIVE in between forwards a heavy request.
- With the ceiling of 0.62 AGGRESSIVE and CRITICAL are never entered
  (`NeverAggressive`), nothing is degraded (`CeilingDisarms`), and MODERATE is
  entered only from a certain use of the heap on; `Gateway`, `Mode` and their
  other proofs speak of all four modes.
- A message, the pod's own echo included, clears the failures of a CLOSED
  breaker, so failures counted between a transition and its echo are lost,
  although `circuitBreaker.ts:157` speaks of resetting on success.
- One pod's OPEN may end before its cooldown. Any strictly newer message is
  adopted (`circuitBreaker.ts:247`), and a pod that was not OPEN, or began an
  earlier episode, may announce HALF_OPEN or CLOSED; with clocks that differ even
  the HALF_OPEN of an earlier episode carries the later stamp. So the "Cooldown
  timer enforced" and "Minimum OPEN duration" of
  `docs/08_Circuit_Breaker.md:162-167` do not hold of a single pod.
  `ClusterStaysOpen` says what does hold.
- Leaving CRITICAL: `docs/07_Adaptive_Model.md:123` says "Do not exit critical
  mode until pressure < 0.7 for 5 seconds." The code leaves it at the first
  reading below 0.9 (`protectionMode.ts:27`, `:40-46`) if the mode is older
  than the hysteresis, which measures time since the last change and not time of
  calm; between 0.7 and 0.9 it leaves CRITICAL though the document keeps it. And
  0.9 itself is AGGRESSIVE by `docs/07_Adaptive_Model.md:86-87`, CRITICAL in the
  code. `ModeFollowsPressure` claims nothing where the two differ: from 70
  percent on it asks for at least the code's mode, and nothing at 90.
- The weights that the formula of `docs/07_Adaptive_Model.md:45-50` gives to the
  processor load and to errors multiply a constant 0.2 (`pressureMonitor.ts:51`)
  and zero, hence the ceiling of 0.62; the modes of `:86-87` lie above it.
- A pod that disagrees because of equal timestamps, a lost publish or a missed
  message stays so until the next transition of some pod.
- `docs/06_Rate_Limiter_Design.md:111-115` describes the bucket as a short cut
  past Redis; the code requires both limiters to agree.
- Requests the limiter rejects stay in the sorted set and count against later ones.

## 7. Plan

Done: the breaker with its abstract specification, both limiters, the mode, the
pipeline with its shutdown, the local and the global pressure; proofs of every
safety property of these, and of the liveness properties or what the code
contributes to them (section 4). Left:

1. `Gateway` with the breaker's admission and records instead of its state alone,
   so that the outcome of each turn and its record are checked together.
2. `GlobalPressure` feeding `ProtectionMode` on several pods: how far the modes
   of two pods may be apart, and for how long.
