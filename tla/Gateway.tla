------------------------------- MODULE Gateway -------------------------------
(***************************************************************************)
(* The request pipeline of one pod (src/src/proxy.ts). The handler of a    *)
(* request runs in turns of the event loop, divided by two awaits: the     *)
(* verdict of the distributed limiter and the answer of the downstream     *)
(* service. Each action of a request below is one such turn, with every    *)
(* decision the handler takes in it; between the turns other requests run, *)
(* the global pressure is refreshed and the breaker hears from other pods. *)
(*                                                                         *)
(* The limiters are represented by their verdicts and the circuit breaker  *)
(* by its state, which any result may change: TokenBucket, SlidingWindow   *)
(* and CircuitBreaker model them in full. The protection policy is the one *)
(* of ProtectionPolicy.                                                    *)
(***************************************************************************)
EXTENDS ProtectionPolicy

CONSTANTS
    Request, \* the requests a pod can have in hand at one time
    Tracing  \* config.enableTracing

ASSUME TracingAssumption == Tracing \in BOOLEAN

VARIABLES
    pressure, \* globalPressure.getGlobalPressure()
    policy,   \* the fields of protectionPolicy
    closing,  \* a signal has come and server.close() was called
    breaker,  \* the state of the breaker of the downstream service
    phase,    \* request -> how far it is
    input,    \* request -> what its handler holds across the first await
    timers,   \* the requests whose abort timer is armed
    aborted   \* the requests whose AbortController has aborted

pod  == <<pressure, policy, closing, breaker>>
vars == <<pressure, policy, closing, breaker, phase, input, timers, aborted>>

FREE     == 1
STANDARD == 2
PREMIUM  == 3

TenantPlan == {FREE, STANDARD, PREMIUM}

BreakerState == {"CLOSED", "OPEN", "HALF_OPEN"}

Phase == {"idle",       \* not arrived, or answered in full
          "limiting",   \* awaits the verdict of the distributed limiter
          "forwarding", \* awaits the answer of the downstream service
          "streaming"}  \* the handler has ended, the body is on its way

(* The plan of the tenant, whether the endpoint is heavy, and the pressure *)
(* for which the adaptive limit was computed.                              *)
Input == [plan : TenantPlan, heavy : BOOLEAN, pressure : Pressure]

NoInput == [plan |-> FREE, heavy |-> FALSE, pressure |-> 0]

TypeOK ==
    /\ pressure \in Pressure
    /\ policy \in PolicyState
    /\ closing \in BOOLEAN
    /\ breaker \in BreakerState
    /\ phase \in [Request -> Phase]
    /\ input \in [Request -> Input]
    /\ timers \subseteq Request
    /\ aborted \subseteq Request

-----------------------------------------------------------------------------
(* Readings of the mode. getMode is called several times in a turn, and the*)
(* clock may move on between two calls.                                    *)

After(ms, p) == IF ms = 0 THEN p ELSE Later(p)

Read(p) == Updated(p, pressure)

(* The plans shouldAllow blocks, and those it thins out at random.         *)
Blocked(mode) == {plan \in TenantPlan :
                      \/ mode = AGGRESSIVE /\ plan = FREE
                      \/ mode = CRITICAL /\ plan # PREMIUM}

Thinned(mode) == {plan \in TenantPlan :
                      \/ mode = MODERATE /\ plan = FREE
                      \/ mode = AGGRESSIVE /\ plan = STANDARD}

(* Mutated form of SchedulerMode: the mode as it was before the await.     *)
SchedulerModeAtArrival(r) == Target(input[r].pressure)

(* The mode shouldAllow reads.                                             *)
SchedulerMode(r) == Read(policy).currentMode

-----------------------------------------------------------------------------
(* The turns of a handler.                                                 *)

Finish(r) ==
    /\ phase' = [phase EXCEPT ![r] = "idle"]
    /\ input' = [input EXCEPT ![r] = NoInput]

(* Mutated form of Accepting: requests are taken on while the server closes*)
AcceptingAlways == TRUE

(* A server that closes answers new requests itself.                       *)
Accepting == ~ closing

(* From the arrival to the first await, or to the 429 of the local bucket. *)
(* A place is taken again only when the timer of its last request is gone. *)
(* The reading of the mode for the span is not even evaluated when there is*)
(* no span.                                                                *)
Arrive(r) ==
    /\ Accepting
    /\ phase[r] = "idle"
    /\ r \notin timers
    /\ aborted' = aborted \ {r}
    /\ UNCHANGED <<pressure, closing, breaker, timers>>
    /\ \/ UNCHANGED <<policy, phase, input>>
       \/ /\ phase' = [phase EXCEPT ![r] = "limiting"]
          /\ \E plan \in TenantPlan, heavy \in BOOLEAN :
                 input' = [input EXCEPT ![r] = [plan     |-> plan,
                                                heavy    |-> heavy,
                                                pressure |-> pressure]]
          /\ policy' = IF Tracing THEN Read(policy) ELSE policy

(* The distributed limiter answers no, or fails: 429.                      *)
LimiterRejects(r) ==
    /\ phase[r] = "limiting"
    /\ Finish(r)
    /\ UNCHANGED <<pod, timers, aborted>>

(* The scheduler drops the request: 503, labelled with the mode read again.*)
Shed(r) ==
    /\ phase[r] = "limiting"
    /\ input[r].plan \in Blocked(SchedulerMode(r)) \cup Thinned(SchedulerMode(r))
    /\ \E ms \in 0..1 : policy' = Read(After(ms, Read(policy)))
    /\ Finish(r)
    /\ UNCHANGED <<pressure, closing, breaker, timers, aborted>>

PassesScheduler(r) ==
    /\ phase[r] = "limiting"
    /\ input[r].plan \notin Blocked(SchedulerMode(r))

(* The breaker is OPEN and has not cooled down: 503.                       *)
Deny(r) ==
    /\ PassesScheduler(r)
    /\ breaker = "OPEN"
    /\ policy' = Read(policy)
    /\ Finish(r)
    /\ UNCHANGED <<pressure, closing, breaker, timers, aborted>>

(* The breaker admits the request, and starts probing if it has cooled     *)
(* down. (A HALF_OPEN breaker never refuses: CountersBelowThresholds of    *)
(* CircuitBreaker.)                                                        *)
Admit(r) ==
    /\ PassesScheduler(r)
    /\ breaker' = IF breaker = "OPEN" THEN "HALF_OPEN" ELSE breaker
    /\ UNCHANGED <<pressure, closing>>

(* The two readings that decide on a degraded response; the second is not  *)
(* taken when the first is AGGRESSIVE.                                     *)
Degrades(a, b) == a.currentMode = AGGRESSIVE \/ b.currentMode = CRITICAL

(* Mutated form of ArmTimer: fetch is called without a timer.              *)
ArmTimerNever(r) == UNCHANGED timers

ArmTimer(r) == timers' = timers \cup {r}

Forward(r) ==
    /\ phase' = [phase EXCEPT ![r] = "forwarding"]
    /\ input' = [input EXCEPT ![r] = NoInput]
    /\ ArmTimer(r)
    /\ UNCHANGED aborted

DegradeOrForward(r) ==
    /\ Admit(r)
    /\ \E ms1, ms2 \in 0..1 :
           LET a == Read(After(ms1, Read(policy)))
               b == Read(After(ms2, a))
           IN  /\ ms1 + ms2 <= 1
               /\ policy' = IF a.currentMode = AGGRESSIVE THEN a ELSE b
               /\ \/ /\ input[r].heavy /\ Degrades(a, b)
                     /\ Finish(r)
                     /\ UNCHANGED <<timers, aborted>>
                  \/ /\ ~ (input[r].heavy /\ Degrades(a, b))
                     /\ Forward(r)

ClearTimer(r) == timers' = timers \ {r}

(* The headers of the answer arrive: the timer is cleared, the breaker told*)
(* of a success or a failure, and the body handed to the reply.            *)
Respond(r) ==
    /\ phase[r] = "forwarding"
    /\ r \notin aborted
    /\ ClearTimer(r)
    /\ breaker' \in BreakerState
    /\ phase' = [phase EXCEPT ![r] = "streaming"]
    /\ UNCHANGED <<pressure, closing, policy, input, aborted>>

(* fetch rejects, because it was aborted or by itself: 502. The timer is   *)
(* not cleared here and the breaker is told nothing.                       *)
Fail(r) ==
    /\ phase[r] = "forwarding"
    /\ Finish(r)
    /\ UNCHANGED <<pod, timers, aborted>>

(* The body has been passed on, or its stream breaks.                      *)
BodyEnds(r) ==
    /\ phase[r] = "streaming"
    /\ Finish(r)
    /\ UNCHANGED <<pod, timers, aborted>>

-----------------------------------------------------------------------------
(* What happens to a request from outside its handler.                     *)

(* Aborting the controller of a request that has ended has no effect.      *)
TimerFires(r) ==
    /\ r \in timers
    /\ timers' = timers \ {r}
    /\ aborted' = aborted \cup {r}
    /\ UNCHANGED <<pod, phase, input>>

(* The listener on the request is there from just before the fetch: a      *)
(* client that leaves during the first await is not noticed.               *)
ClientLeaves(r) ==
    /\ phase[r] \in {"forwarding", "streaming"}
    /\ r \notin aborted
    /\ aborted' = aborted \cup {r}
    /\ timers' = timers \ {r}
    /\ UNCHANGED <<pod, phase, input>>

(* A message of another pod, or the end of another request.                *)
BreakerChanges ==
    /\ breaker' \in BreakerState
    /\ UNCHANGED <<pressure, closing, policy, phase, input, timers, aborted>>

Refresh ==
    /\ pressure' \in Pressure
    /\ UNCHANGED <<policy, closing, breaker, phase, input, timers, aborted>>

(* The metrics route reads the mode, and so brings it up to date.          *)
Scrape ==
    /\ policy' = Read(policy)
    /\ UNCHANGED <<pressure, closing, breaker, phase, input, timers, aborted>>

(* A signal: the server stops listening and waits for what is in hand.     *)
Close ==
    /\ ~ closing
    /\ closing' = TRUE
    /\ UNCHANGED <<pressure, policy, breaker, phase, input, timers, aborted>>

Tick ==
    /\ policy' = Later(policy)
    /\ UNCHANGED <<pressure, closing, breaker, phase, input, timers, aborted>>

-----------------------------------------------------------------------------
Init ==
    /\ pressure = 0
    /\ policy = InitialPolicy
    /\ closing = FALSE
    /\ breaker = "CLOSED"
    /\ phase = [r \in Request |-> "idle"]
    /\ input = [r \in Request |-> NoInput]
    /\ timers = {}
    /\ aborted = {}

LimiterAnswers(r) ==
    \/ LimiterRejects(r)
    \/ Shed(r)
    \/ Deny(r)
    \/ DegradeOrForward(r)

FetchSettles(r) == Respond(r) \/ Fail(r)

Next ==
    \/ \E r \in Request : \/ Arrive(r)
                          \/ LimiterAnswers(r)
                          \/ FetchSettles(r)
                          \/ BodyEnds(r)
                          \/ TimerFires(r)
                          \/ ClientLeaves(r)
    \/ BreakerChanges
    \/ Refresh
    \/ Scrape
    \/ Close
    \/ Tick

Spec == Init /\ [][Next]_vars

(* The limiter answers or its client gives up (maxRetriesPerRequest), a    *)
(* timer fires, an aborted fetch rejects. Nothing makes the downstream     *)
(* service answer, nor the body of an answer end.                          *)
Fairness ==
    \A r \in Request :
        /\ WF_vars(LimiterAnswers(r))
        /\ WF_vars(TimerFires(r))
        /\ WF_vars(r \in aborted /\ Fail(r))

FairSpec == Spec /\ Fairness

-----------------------------------------------------------------------------
(* Properties.                                                             *)

(* A request is forwarded under the conditions that hold when it is        *)
(* forwarded, not those under which it arrived, although the handler has   *)
(* waited for Redis in between: the mode is no lower than the pressure of  *)
(* the moment asks for, it blocks no request of that plan, and the breaker *)
(* is not OPEN. A heavy request is forwarded in a mode that disables heavy *)
(* endpoints only if the mode falls from CRITICAL to AGGRESSIVE between the*)
(* two readings of the degradation test (proxy.ts:178-243,                 *)
(* priorityScheduler.ts:24-68).                                            *)
ForwardedUnderPresentConditions ==
    [][\A r \in Request :
           phase[r] = "limiting" /\ phase'[r] = "forwarding" =>
               /\ policy'.currentMode >= Target(pressure)
               /\ input[r].plan \notin Blocked(policy'.currentMode)
               /\ breaker' # "OPEN"
               /\ input[r].heavy /\ policy'.currentMode >= AGGRESSIVE =>
                      /\ policy.currentMode = CRITICAL
                      /\ policy'.currentMode = AGGRESSIVE]_vars

(* A handler that waits for the downstream service has a timer that will   *)
(* abort the fetch, or the fetch is aborted already: neither the client's  *)
(* leaving, which clears the timer, nor the timer of an earlier request    *)
(* leaves it without (proxy.ts:278-306).                                   *)
ForwardingIsTimed ==
    \A r \in Request : phase[r] = "forwarding" => r \in timers \cup aborted

(* The phases in which a handler runs.                                     *)
Running == {"limiting", "forwarding"}

(* Every handler ends, even if the downstream service never answers and the*)
(* client never leaves (proxy.ts:279-306, 355-377).                        *)
HandlersEnd ==
    \A r \in Request : phase[r] \in Running ~> phase[r] \notin Running

(* After a signal the handlers run out for good, whatever the downstream   *)
(* service does: what the server still waits for before it exits is only   *)
(* bodies on their way to clients (index.ts:67-76, proxy.ts:279-306).      *)
ShutdownDrains ==
    closing ~> [](\A r \in Request : phase[r] \notin Running)

-----------------------------------------------------------------------------
(* What the documents say of the pipeline.                                 *)

(* "Proxy enforces strict timeout per request."                            *)
(* (docs/08_Circuit_Breaker.md:148): a request that was forwarded is       *)
(* answered in full or aborted, whatever the downstream service does.      *)
StrictTimeout ==
    \A r \in Request :
        phase[r] \in {"forwarding", "streaming"}
        ~> phase[r] = "idle" \/ r \in aborted
=============================================================================
