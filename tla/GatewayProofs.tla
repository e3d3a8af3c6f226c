---------------------------- MODULE GatewayProofs ----------------------------
(***************************************************************************)
(* Proofs about Gateway, for any number of requests in hand, every         *)
(* hysteresis and every set of pressures.                                  *)
(***************************************************************************)
EXTENDS Gateway, ProtectionPolicyProofs

USE PolicyAssumption, TracingAssumption

-----------------------------------------------------------------------------
(* Readings of the mode.                                                   *)

(* A reading, at once or a millisecond later, is a policy whose mode is no *)
(* lower than the pressure asks for; it is the one the pressure asks for or*)
(* the one before.                                                         *)
LEMMA ReadPolicy ==
    ASSUME TypeOK, NEW pol \in PolicyState, NEW ms \in 0..1
    PROVE  LET q == Read(After(ms, pol))
           IN  /\ After(ms, pol) \in PolicyState
               /\ q \in PolicyState
               /\ q.currentMode >= Target(pressure)
               /\ q.currentMode \in {Target(pressure), pol.currentMode}
<1>1. /\ After(ms, pol) \in PolicyState
      /\ After(ms, pol).currentMode = pol.currentMode
  BY LaterPolicy DEF After
<1>2. pressure \in Pressure
  BY DEF TypeOK
<1>. QED  BY <1>1, <1>2, UpdatedPolicy, UpdatedMode DEF Read

(* The reading that the scheduler takes.                                   *)
LEMMA ReadNow ==
    ASSUME TypeOK
    PROVE  /\ Read(policy) \in PolicyState
           /\ Read(policy).currentMode >= Target(pressure)
           /\ Read(policy).currentMode \in {Target(pressure), policy.currentMode}
<1>1. policy \in PolicyState /\ pressure \in Pressure
  BY DEF TypeOK
<1>. QED  BY <1>1, UpdatedPolicy, UpdatedMode DEF Read

-----------------------------------------------------------------------------
(* Type correctness.                                                       *)

(* The end of a handler keeps the types of what belongs to requests.       *)
LEMMA FinishType ==
    ASSUME TypeOK, NEW r \in Request, Finish(r)
    PROVE  phase' \in [Request -> Phase] /\ input' \in [Request -> Input]
<1>1. "idle" \in Phase /\ NoInput \in Input
  BY DEF Phase, NoInput, Input, TenantPlan, FREE
<1>. QED  BY <1>1 DEF Finish, TypeOK

(* The turn after the first await keeps the types.                         *)
LEMMA LimiterAnswersType ==
    ASSUME TypeOK, NEW r \in Request, LimiterAnswers(r)
    PROVE  TypeOK'
<1>0. policy \in PolicyState /\ pressure \in Pressure
  BY DEF TypeOK
<1>1. CASE LimiterRejects(r)
  BY <1>1, FinishType DEF LimiterRejects, pod, TypeOK
<1>2. CASE Shed(r)
  <2>1. policy' \in PolicyState
    BY <1>2, ReadNow, ReadPolicy DEF Shed
  <2>. QED  BY <1>2, <2>1, FinishType DEF Shed, TypeOK
<1>3. CASE Deny(r)
  <2>1. policy' \in PolicyState
    BY <1>3, ReadNow DEF Deny
  <2>. QED  BY <1>3, <2>1, FinishType DEF Deny, TypeOK
<1>4. CASE DegradeOrForward(r)
  <2>1. PICK ms1 \in 0..1, ms2 \in 0..1 :
           LET a == Read(After(ms1, Read(policy)))
               b == Read(After(ms2, a))
           IN  /\ policy' = IF a.currentMode = AGGRESSIVE THEN a ELSE b
               /\ \/ Finish(r) /\ UNCHANGED <<timers, aborted>>
                  \/ Forward(r)
    BY <1>4 DEF DegradeOrForward
  <2>2. Read(After(ms1, Read(policy))) \in PolicyState
    BY ReadNow, ReadPolicy
  <2>3. Read(After(ms2, Read(After(ms1, Read(policy))))) \in PolicyState
    BY <2>2, ReadPolicy
  <2>4. policy' \in PolicyState
    BY <2>1, <2>2, <2>3
  <2>5. breaker' \in BreakerState /\ pressure' = pressure /\ closing' = closing
    BY <1>4 DEF DegradeOrForward, Admit, BreakerState, TypeOK
  <2>6. /\ phase' \in [Request -> Phase] /\ input' \in [Request -> Input]
        /\ timers' \subseteq Request /\ aborted' \subseteq Request
    <3>1. CASE Finish(r) /\ UNCHANGED <<timers, aborted>>
      BY <3>1, FinishType DEF TypeOK
    <3>2. CASE Forward(r)
      BY <3>2 DEF Forward, ArmTimer, TypeOK, Phase, NoInput, Input,
                  TenantPlan, FREE
    <3>. QED  BY <2>1, <3>1, <3>2
  <2>. QED  BY <2>4, <2>5, <2>6 DEF TypeOK
<1>. QED  BY <1>1, <1>2, <1>3, <1>4 DEF LimiterAnswers

(* Every step keeps the types.                                             *)
LEMMA NextType ==
    ASSUME TypeOK, [Next]_vars
    PROVE  TypeOK'
<1>0. policy \in PolicyState /\ pressure \in Pressure
  BY DEF TypeOK
<1>1. ASSUME NEW r \in Request, Arrive(r)
      PROVE  TypeOK'
  <2>1. policy' \in PolicyState
    BY <1>0, <1>1, ReadNow DEF Arrive
  <2>2. input' \in [Request -> Input]
    BY <1>1 DEF Arrive, Input, TypeOK
  <2>. QED  BY <1>1, <2>1, <2>2 DEF Arrive, Phase, TypeOK
<1>2. ASSUME NEW r \in Request, FetchSettles(r) \/ BodyEnds(r)
      PROVE  TypeOK'
  <2>1. CASE Respond(r)
    BY <2>1 DEF Respond, ClearTimer, Phase, TypeOK
  <2>2. CASE Fail(r) \/ BodyEnds(r)
    BY <2>2, FinishType DEF Fail, BodyEnds, pod, TypeOK
  <2>. QED  BY <1>2, <2>1, <2>2 DEF FetchSettles
<1>3. ASSUME NEW r \in Request, TimerFires(r) \/ ClientLeaves(r)
      PROVE  TypeOK'
  BY <1>3 DEF TimerFires, ClientLeaves, pod, TypeOK
<1>4. CASE BreakerChanges \/ Refresh \/ Close
  BY <1>4 DEF BreakerChanges, Refresh, Close, TypeOK
<1>5. CASE Scrape \/ Tick
  <2>1. policy' \in PolicyState
    BY <1>0, <1>5, ReadNow, LaterPolicy DEF Scrape, Tick
  <2>. QED  BY <1>5, <2>1 DEF Scrape, Tick, TypeOK
<1>6. CASE UNCHANGED vars
  BY <1>6 DEF vars, TypeOK
<1>. QED  BY <1>1, <1>2, <1>3, <1>4, <1>5, <1>6, LimiterAnswersType DEF Next

(* The types hold at the start.                                            *)
LEMMA InitType == Init => TypeOK
<1>1. InitialPolicy \in PolicyState
  BY DEF InitialPolicy, PolicyState, Mode, Ages, NORMAL, CRITICAL
<1>2. NoInput \in Input
  BY DEF NoInput, Input, TenantPlan, FREE
<1>. QED  BY <1>1, <1>2 DEF Init, TypeOK, BreakerState, Phase

(* Phases, inputs, timers and the policy keep their types.                 *)
THEOREM TypeCorrect == Spec => []TypeOK
<1>1. Init => TypeOK
  BY InitType
<1>2. TypeOK /\ [Next]_vars => TypeOK'
  BY NextType
<1>. QED  BY <1>1, <1>2, PTL DEF Spec

-----------------------------------------------------------------------------
(* Timers.                                                                 *)

(* A handler waits for the answer only with a timer or an aborted fetch:   *)
(* the timer is armed in the turn that calls fetch, and whatever disarms it*)
(* before the answer aborts the fetch.                                     *)
LEMMA NextTimed ==
    ASSUME TypeOK, ForwardingIsTimed, [Next]_vars
    PROVE  ForwardingIsTimed'
<1>0. phase \in [Request -> Phase] /\ timers \subseteq Request
  BY DEF TypeOK
<1>1. ASSUME NEW r \in Request, Arrive(r)
      PROVE  ForwardingIsTimed'
  BY <1>0, <1>1 DEF Arrive, ForwardingIsTimed
<1>2. ASSUME NEW r \in Request, Finish(r), UNCHANGED <<timers, aborted>>
      PROVE  ForwardingIsTimed'
  BY <1>0, <1>2 DEF Finish, ForwardingIsTimed
<1>3. ASSUME NEW r \in Request, LimiterAnswers(r)
      PROVE  ForwardingIsTimed'
  <2>1. CASE Forward(r)
    BY <1>0, <2>1 DEF Forward, ArmTimer, ForwardingIsTimed
  <2>. QED  BY <1>2, <1>3, <2>1 DEF LimiterAnswers, LimiterRejects, Shed, Deny,
                                    DegradeOrForward
<1>4. ASSUME NEW r \in Request, FetchSettles(r) \/ BodyEnds(r)
      PROVE  ForwardingIsTimed'
  <2>1. CASE Respond(r)
    BY <1>0, <2>1 DEF Respond, ClearTimer, ForwardingIsTimed
  <2>. QED  BY <1>2, <1>4, <2>1 DEF FetchSettles, Fail, BodyEnds
<1>5. ASSUME NEW r \in Request, TimerFires(r) \/ ClientLeaves(r)
      PROVE  ForwardingIsTimed'
  BY <1>5 DEF TimerFires, ClientLeaves, ForwardingIsTimed
<1>6. CASE BreakerChanges \/ Refresh \/ Scrape \/ Close \/ Tick \/ UNCHANGED vars
  BY <1>6 DEF BreakerChanges, Refresh, Scrape, Close, Tick, vars,
              ForwardingIsTimed
<1>. QED  BY <1>1, <1>3, <1>4, <1>5, <1>6 DEF Next

(* No handler waits for the downstream service without something that will *)
(* end the wait.                                                           *)
THEOREM ForwardingTimed == Spec => []ForwardingIsTimed
<1>1. Init => ForwardingIsTimed
  BY DEF Init, ForwardingIsTimed
<1>2. TypeOK /\ ForwardingIsTimed /\ [Next]_vars => ForwardingIsTimed'
  BY NextTimed
<1>. QED  BY <1>1, <1>2, TypeCorrect, PTL DEF Spec

-----------------------------------------------------------------------------
(* Decisions.                                                              *)

(* A mode that is no higher blocks no further plan.                        *)
LEMMA BlockedIsMonotonic ==
    ASSUME NEW m \in Mode, NEW n \in Mode, m <= n
    PROVE  Blocked(m) \subseteq Blocked(n)
BY DEF Blocked, Mode, NORMAL, AGGRESSIVE, CRITICAL, FREE, PREMIUM, TenantPlan

(* Only DegradeOrForward forwards.                                         *)
LEMMA OnlyForwarding ==
    ASSUME TypeOK, [Next]_vars, NEW r \in Request,
           phase[r] = "limiting", phase'[r] = "forwarding"
    PROVE  DegradeOrForward(r) /\ Forward(r)
<1>0. phase \in [Request -> Phase]
  BY DEF TypeOK
<1>1. ASSUME NEW q \in Request, Finish(q)
      PROVE  FALSE
  BY <1>0, <1>1 DEF Finish
<1>2. ASSUME NEW q \in Request, Forward(q)
      PROVE  q = r
  BY <1>0, <1>2 DEF Forward
<1>3. ASSUME NEW q \in Request, Arrive(q)
      PROVE  FALSE
  BY <1>0, <1>3 DEF Arrive
<1>4. ASSUME NEW q \in Request, Respond(q)
      PROVE  FALSE
  BY <1>0, <1>4 DEF Respond
<1>5. ASSUME NEW q \in Request, LimiterAnswers(q)
      PROVE  q = r /\ DegradeOrForward(q) /\ Forward(q)
  BY <1>1, <1>2, <1>5 DEF LimiterAnswers, LimiterRejects, Shed, Deny,
                          DegradeOrForward
<1>6. ASSUME UNCHANGED phase
      PROVE  FALSE
  BY <1>6
<1>. QED  BY <1>1, <1>3, <1>4, <1>5, <1>6
          DEF Next, FetchSettles, Fail, BodyEnds, TimerFires, ClientLeaves,
              BreakerChanges, Refresh, Scrape, Close, Tick, vars

(* A request is forwarded under the conditions of the moment.              *)
THEOREM ForwardedByPresent == Spec => ForwardedUnderPresentConditions
<1>1. ASSUME TypeOK, [Next]_vars, NEW r \in Request,
             phase[r] = "limiting", phase'[r] = "forwarding"
      PROVE  /\ policy'.currentMode >= Target(pressure)
             /\ input[r].plan \notin Blocked(policy'.currentMode)
             /\ breaker' # "OPEN"
             /\ input[r].heavy /\ policy'.currentMode >= AGGRESSIVE =>
                    /\ policy.currentMode = CRITICAL
                    /\ policy'.currentMode = AGGRESSIVE
  <2>1. DegradeOrForward(r) /\ Forward(r)
    BY <1>1, OnlyForwarding
  <2>2. ~ Finish(r)
    BY <1>1 DEF Finish, TypeOK
  <2>. DEFINE s == Read(policy)
              a(ms1) == Read(After(ms1, s))
              b(ms1, ms2) == Read(After(ms2, a(ms1)))
              t == Target(pressure)
  <2>3. PICK ms1 \in 0..1, ms2 \in 0..1 :
           /\ policy' = IF a(ms1).currentMode = AGGRESSIVE THEN a(ms1)
                                                           ELSE b(ms1, ms2)
           /\ ~ (input[r].heavy /\ Degrades(a(ms1), b(ms1, ms2)))
    BY <2>1, <2>2 DEF DegradeOrForward
  <2>4. /\ t \in Mode /\ policy.currentMode \in Mode
        /\ s \in PolicyState /\ s.currentMode \in Mode
        /\ s.currentMode >= t
        /\ s.currentMode \in {t, policy.currentMode}
    BY <1>1, ReadNow, TargetType DEF TypeOK, PolicyState
  <2>5. /\ a(ms1) \in PolicyState
        /\ a(ms1).currentMode >= t
        /\ a(ms1).currentMode \in {t, s.currentMode}
    BY <1>1, <2>4, ReadPolicy
  <2>6. /\ b(ms1, ms2) \in PolicyState
        /\ b(ms1, ms2).currentMode >= t
        /\ b(ms1, ms2).currentMode \in {t, a(ms1).currentMode}
    BY <1>1, <2>5, ReadPolicy
  <2>7. input[r].plan \notin Blocked(s.currentMode)
    BY <2>1 DEF DegradeOrForward, Admit, PassesScheduler, SchedulerMode
  <2>8. breaker' # "OPEN"
    BY <2>1 DEF DegradeOrForward, Admit
  <2>. HIDE DEF s, a, b, t
  <2>9. /\ policy'.currentMode \in Mode
        /\ policy'.currentMode >= t
        /\ policy'.currentMode <= s.currentMode
    BY <2>3, <2>4, <2>5, <2>6 DEF Mode, NORMAL, CRITICAL
  <2>10. input[r].plan \notin Blocked(policy'.currentMode)
    BY <2>4, <2>7, <2>9, BlockedIsMonotonic
  <2>11. ASSUME input[r].heavy, policy'.currentMode >= AGGRESSIVE
         PROVE  /\ policy.currentMode = CRITICAL
                /\ policy'.currentMode = AGGRESSIVE
    BY <2>3, <2>4, <2>5, <2>6, <2>11
       DEF Degrades, Mode, NORMAL, AGGRESSIVE, CRITICAL
  <2>. QED  BY <2>8, <2>9, <2>10, <2>11 DEF t
<1>2. TypeOK /\ [Next]_vars =>
          [\A r \in Request :
               phase[r] = "limiting" /\ phase'[r] = "forwarding" =>
                   /\ policy'.currentMode >= Target(pressure)
                   /\ input[r].plan \notin Blocked(policy'.currentMode)
                   /\ breaker' # "OPEN"
                   /\ input[r].heavy /\ policy'.currentMode >= AGGRESSIVE =>
                          /\ policy.currentMode = CRITICAL
                          /\ policy'.currentMode = AGGRESSIVE]_vars
  BY <1>1
<1>. QED  BY <1>2, TypeCorrect, PTL DEF Spec, ForwardedUnderPresentConditions

-----------------------------------------------------------------------------
(* The end of a handler.                                                   *)

(* What ends the three waits of a handler: the limiter answers or its      *)
(* client gives up, a timer fires or is cleared, an aborted fetch rejects. *)
WaitsEnd(r) ==
    /\ phase[r] = "limiting" ~> ~ (phase[r] = "limiting")
    /\ r \in timers ~> ~ (r \in timers)
    /\ phase[r] = "forwarding" /\ r \in aborted ~> ~ (phase[r] = "forwarding")

(* A handler that waits for the downstream service does not start anew, and*)
(* an abort is not taken back while it waits.                              *)
LEMMA ForwardingSteps ==
    ASSUME TypeOK, [Next]_vars, NEW r \in Request, phase[r] = "forwarding"
    PROVE  /\ phase'[r] # "limiting"
           /\ r \in aborted => r \in aborted'
<1>0. phase \in [Request -> Phase]
  BY DEF TypeOK
<1>1. ASSUME NEW q \in Request, Arrive(q)
      PROVE  phase'[r] # "limiting" /\ (r \in aborted => r \in aborted')
  BY <1>0, <1>1 DEF Arrive
<1>2. ASSUME NEW q \in Request, Finish(q), UNCHANGED aborted
      PROVE  phase'[r] # "limiting" /\ (r \in aborted => r \in aborted')
  BY <1>0, <1>2 DEF Finish
<1>3. ASSUME NEW q \in Request, LimiterAnswers(q)
      PROVE  phase'[r] # "limiting" /\ (r \in aborted => r \in aborted')
  <2>1. CASE Forward(q)
    BY <1>0, <2>1 DEF Forward
  <2>. QED  BY <1>2, <1>3, <2>1 DEF LimiterAnswers, LimiterRejects, Shed, Deny,
                                    DegradeOrForward
<1>4. ASSUME NEW q \in Request, FetchSettles(q) \/ BodyEnds(q)
      PROVE  phase'[r] # "limiting" /\ (r \in aborted => r \in aborted')
  <2>1. CASE Respond(q)
    BY <1>0, <2>1 DEF Respond
  <2>. QED  BY <1>2, <1>4, <2>1 DEF FetchSettles, Fail, BodyEnds
<1>5. ASSUME NEW q \in Request, TimerFires(q) \/ ClientLeaves(q)
      PROVE  phase'[r] # "limiting" /\ (r \in aborted => r \in aborted')
  BY <1>5 DEF TimerFires, ClientLeaves
<1>6. CASE BreakerChanges \/ Refresh \/ Scrape \/ Close \/ Tick \/ UNCHANGED vars
  BY <1>6 DEF BreakerChanges, Refresh, Scrape, Close, Tick, vars
<1>. QED  BY <1>1, <1>3, <1>4, <1>5, <1>6 DEF Next

(* A handler ends if each of its waits does: nothing else is needed, not   *)
(* the downstream service, nor the client.                                 *)
THEOREM HandlerEnds ==
    ASSUME NEW r \in Request
    PROVE  Spec /\ WaitsEnd(r) =>
               (phase[r] \in Running ~> phase[r] \notin Running)
<1>. DEFINE Limiting   == phase[r] = "limiting"
            Forwarding == phase[r] = "forwarding"
            Timed      == r \in timers
            Aborted    == r \in aborted
            Runs       == phase[r] \in Running
            Ended      == phase[r] \notin Running
<1>1. /\ Runs <=> Limiting \/ Forwarding
      /\ Ended <=> ~ Runs
  BY DEF Running
<1>2. ForwardingIsTimed /\ Forwarding => Timed \/ Aborted
  BY DEF ForwardingIsTimed
<1>3. TypeOK /\ Forwarding /\ [Next]_vars =>
          ~ Limiting' /\ (Aborted => Aborted')
  BY ForwardingSteps
<1>4. WaitsEnd(r) <=> /\ Limiting ~> ~ Limiting
                      /\ Timed ~> ~ Timed
                      /\ Forwarding /\ Aborted ~> ~ Forwarding
  BY DEF WaitsEnd
<1>. HIDE DEF Limiting, Forwarding, Timed, Aborted, Runs, Ended
<1>5. Spec /\ WaitsEnd(r) => (Runs ~> Ended)
  BY <1>1, <1>2, <1>3, <1>4, TypeCorrect, ForwardingTimed, PTL DEF Spec
<1>. QED  BY <1>5 DEF Runs, Ended

(* So every handler ends, however many requests are in hand and whatever   *)
(* the others do, if the limiter answers or gives up, the timer fires and  *)
(* an aborted fetch settles.                                               *)
THEOREM AllHandlersEnd ==
    Spec /\ (\A r \in Request : WaitsEnd(r)) => HandlersEnd
<1>1. ASSUME NEW r \in Request
      PROVE  Spec /\ WaitsEnd(r) =>
                 (phase[r] \in Running ~> phase[r] \notin Running)
  BY HandlerEnds
<1>. QED  BY <1>1 DEF HandlersEnd

-----------------------------------------------------------------------------
(* Shutdown.                                                               *)

(* While the server closes no handler starts.                              *)
LEMMA ClosingStarts ==
    ASSUME TypeOK, closing, [Next]_vars, NEW r \in Request, phase[r] \notin Running
    PROVE  closing' /\ phase'[r] \notin Running
<1>0. phase \in [Request -> Phase]
  BY DEF TypeOK
<1>1. ASSUME NEW q \in Request, Arrive(q)
      PROVE  FALSE
  BY <1>1 DEF Arrive, Accepting
<1>2. ASSUME NEW q \in Request, Finish(q), UNCHANGED closing
      PROVE  closing' /\ phase'[r] \notin Running
  BY <1>0, <1>2 DEF Finish, Running
<1>3. ASSUME NEW q \in Request, LimiterAnswers(q)
      PROVE  closing' /\ phase'[r] \notin Running
  <2>1. phase[q] = "limiting" /\ UNCHANGED closing
    BY <1>3 DEF LimiterAnswers, LimiterRejects, Shed, Deny, DegradeOrForward,
                Admit, PassesScheduler, pod
  <2>2. CASE Forward(q)
    BY <1>0, <2>1, <2>2 DEF Forward, Running
  <2>. QED  BY <1>2, <1>3, <2>1, <2>2
            DEF LimiterAnswers, LimiterRejects, Shed, Deny, DegradeOrForward
<1>4. ASSUME NEW q \in Request, FetchSettles(q) \/ BodyEnds(q)
      PROVE  closing' /\ phase'[r] \notin Running
  <2>1. CASE Respond(q)
    BY <1>0, <2>1 DEF Respond, Running
  <2>. QED  BY <1>2, <1>4, <2>1 DEF FetchSettles, Fail, BodyEnds, pod
<1>5. ASSUME UNCHANGED phase, closing'
      PROVE  closing' /\ phase'[r] \notin Running
  BY <1>5
<1>. QED  BY <1>1, <1>3, <1>4, <1>5
          DEF Next, TimerFires, ClientLeaves, pod, BreakerChanges, Refresh,
              Scrape, Close, Tick, vars

(* After a signal each handler ends for good if each of its waits ends:    *)
(* ShutdownDrains for one request, whatever the others do.                 *)
THEOREM HandlersDrain ==
    ASSUME NEW r \in Request
    PROVE  Spec /\ WaitsEnd(r) => (closing ~> [](phase[r] \notin Running))
<1>. DEFINE Runs  == phase[r] \in Running
            Ended == phase[r] \notin Running
<1>1. TypeOK /\ closing /\ [Next]_vars => closing'
  <2>. SUFFICES ASSUME TypeOK, closing, [Next]_vars
                PROVE  closing'
    OBVIOUS
  <2>1. ASSUME NEW q \in Request, LimiterAnswers(q) \/ FetchSettles(q) \/ Arrive(q)
        PROVE  closing'
    BY <2>1 DEF LimiterAnswers, LimiterRejects, Shed, Deny, DegradeOrForward,
                Admit, FetchSettles, Respond, Fail, Arrive, pod
  <2>. QED  BY <2>1 DEF Next, BodyEnds, TimerFires, ClientLeaves, pod,
                        BreakerChanges, Refresh, Scrape, Close, Tick, vars
<1>2. TypeOK /\ closing /\ Ended /\ [Next]_vars => Ended'
  BY ClosingStarts
<1>3. Runs <=> ~ Ended
  OBVIOUS
<1>4. Spec /\ WaitsEnd(r) => (Runs ~> Ended)
  BY HandlerEnds
<1>. HIDE DEF Runs, Ended
<1>5. Spec /\ WaitsEnd(r) => (closing ~> []Ended)
  BY <1>1, <1>2, <1>3, <1>4, TypeCorrect, PTL DEF Spec
<1>. QED  BY <1>5 DEF Ended

-----------------------------------------------------------------------------
(* The ceiling of the pressure.                                            *)

Mild == policy.currentMode <= MODERATE

(* Among the requests the scheduler drops only those of free tenants; a    *)
(* request it and the breaker let through is forwarded and not answered in *)
(* degraded form.                                                          *)
OnlyFreeIsShed == [][\A r \in Request : Shed(r) => input[r].plan = FREE]_vars

NothingIsDegraded ==
    [][\A r \in Request : DegradeOrForward(r) => phase'[r] = "forwarding"]_vars

(* A reading at a pressure below 75 percent, at once or later.             *)
LEMMA MildRead ==
    ASSUME TypeOK, pressure < 75,
           NEW pol \in PolicyState, pol.currentMode <= MODERATE, NEW ms \in 0..1
    PROVE  /\ Read(pol) \in PolicyState
           /\ Read(pol).currentMode <= MODERATE
           /\ Read(After(ms, pol)) \in PolicyState
           /\ Read(After(ms, pol)).currentMode <= MODERATE
<1>1. pressure \in Pressure
  BY DEF TypeOK
<1>2. After(ms, pol) \in PolicyState /\ After(ms, pol).currentMode <= MODERATE
  BY LaterPolicy DEF After
<1>. QED  BY <1>1, <1>2, MildReading, UpdatedPolicy DEF Read

(* No step raises the mode above MODERATE.                                 *)
LEMMA NextMild ==
    ASSUME TypeOK, Mild, pressure < 75, [Next]_vars
    PROVE  Mild'
<1>0. policy \in PolicyState /\ policy.currentMode <= MODERATE
  BY DEF TypeOK, Mild
<1>1. CASE UNCHANGED policy
  BY <1>1 DEF Mild
<1>2. CASE policy' = Read(policy)
  BY <1>0, <1>2, MildRead, 0 \in 0..1 DEF Mild
<1>3. ASSUME NEW r \in Request, Shed(r)
      PROVE  Mild'
  BY <1>0, <1>3, MildRead DEF Shed, Mild
<1>4. ASSUME NEW r \in Request, DegradeOrForward(r)
      PROVE  Mild'
  <2>. DEFINE a(ms) == Read(After(ms, Read(policy)))
  <2>1. PICK ms1 \in 0..1, ms2 \in 0..1 :
            policy' = IF a(ms1).currentMode = AGGRESSIVE THEN a(ms1)
                      ELSE Read(After(ms2, a(ms1)))
    BY <1>4 DEF DegradeOrForward
  <2>2. a(ms1) \in PolicyState /\ a(ms1).currentMode <= MODERATE
    BY <1>0, MildRead
  <2>. HIDE DEF a
  <2>3. Read(After(ms2, a(ms1))).currentMode <= MODERATE
    BY <2>2, MildRead
  <2>. QED  BY <2>1, <2>2, <2>3 DEF Mild
<1>5. CASE Tick
  BY <1>0, <1>5, LaterPolicy DEF Tick, Mild
<1>. QED  BY <1>1, <1>2, <1>3, <1>4, <1>5
          DEF Next, Arrive, LimiterAnswers, LimiterRejects, Deny, FetchSettles,
              Respond, Fail, BodyEnds, TimerFires, ClientLeaves, pod,
              BreakerChanges, Refresh, Scrape, Close, vars

(* With pressures below 75 percent, which is all that pods come to whose   *)
(* monitors measure what they measure now (GlobalStaysBelowAggressive of   *)
(* GlobalPressureProofs), paying tenants are not shed and no answer is     *)
(* degraded, through all the readings of the mode a handler takes.         *)
THEOREM CeilingDisarms ==
    ASSUME \A p \in Pressure : p < 75
    PROVE  Spec => []Mild /\ OnlyFreeIsShed /\ NothingIsDegraded
<1>1. Init => Mild
  BY DEF Init, InitialPolicy, Mild, NORMAL, MODERATE
<1>2. TypeOK /\ Mild /\ [Next]_vars => Mild'
  BY NextMild DEF TypeOK
<1>3. ASSUME TypeOK, Mild, NEW r \in Request, Shed(r)
      PROVE  input[r].plan = FREE
  <2>1. SchedulerMode(r) \in Mode /\ SchedulerMode(r) <= MODERATE
    BY <1>3, MildRead, 0 \in 0..1 DEF SchedulerMode, Mild, TypeOK, PolicyState
  <2>2. input[r].plan \in Blocked(SchedulerMode(r)) \cup Thinned(SchedulerMode(r))
    BY <1>3 DEF Shed
  <2>. HIDE DEF SchedulerMode
  <2>. QED  BY <2>1, <2>2 DEF Blocked, Thinned, Mode, NORMAL, MODERATE,
                              AGGRESSIVE, CRITICAL
<1>4. ASSUME TypeOK, Mild, NEW r \in Request, DegradeOrForward(r)
      PROVE  phase'[r] = "forwarding"
  <2>. DEFINE a(ms) == Read(After(ms, Read(policy)))
  <2>1. PICK ms1 \in 0..1, ms2 \in 0..1 :
            Degrades(a(ms1), Read(After(ms2, a(ms1)))) \/ Forward(r)
    BY <1>4 DEF DegradeOrForward
  <2>2. policy \in PolicyState /\ policy.currentMode <= MODERATE /\ pressure < 75
    BY <1>4 DEF TypeOK, Mild
  <2>3. Read(policy) \in PolicyState /\ Read(policy).currentMode <= MODERATE
    BY <1>4, <2>2, MildRead
  <2>4. a(ms1) \in PolicyState /\ a(ms1).currentMode <= MODERATE
    BY <1>4, <2>2, <2>3, MildRead
  <2>. HIDE DEF a
  <2>5. Read(After(ms2, a(ms1))).currentMode <= MODERATE
    BY <1>4, <2>2, <2>4, MildRead
  <2>6. ~ Degrades(a(ms1), Read(After(ms2, a(ms1))))
    BY <2>4, <2>5 DEF Degrades, MODERATE, AGGRESSIVE, CRITICAL
  <2>7. Forward(r)
    BY <2>1, <2>6
  <2>. QED  BY <1>4, <2>7 DEF Forward, TypeOK
<1>5. TypeOK /\ Mild /\ [Next]_vars =>
          [\A r \in Request : Shed(r) => input[r].plan = FREE]_vars
  BY <1>3
<1>6. TypeOK /\ Mild /\ [Next]_vars =>
          [\A r \in Request : DegradeOrForward(r) => phase'[r] = "forwarding"]_vars
  BY <1>4
<1>. QED  BY <1>1, <1>2, <1>5, <1>6, TypeCorrect, PTL
          DEF Spec, OnlyFreeIsShed, NothingIsDegraded
=============================================================================
