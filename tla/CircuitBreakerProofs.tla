------------------------- MODULE CircuitBreakerProofs -------------------------
(***************************************************************************)
(* Proofs about CircuitBreaker, for every set of pods, every threshold,    *)
(* every clock offset and every kind of failure: its invariants and action *)
(* properties, the end of OPEN episodes, that it implements                *)
(* ReplicatedBreaker, and the agreement of settled pods.                   *)
(*                                                                         *)
(* All changes of an entry go through Keep, Transition or the adoption of  *)
(* a message, so the lemmas below settle each of these once and the proofs *)
(* per action only say with which entry they are used.                     *)
(***************************************************************************)
EXTENDS CircuitBreaker, TLAPS

USE ThresholdAssumption, ClockAssumption, BoundAssumption

-----------------------------------------------------------------------------
(* Entries.                                                                *)

EntriesOK == \E D \in SUBSET Pod : breakers \in [D -> BreakerData]

(* The entry of a pod, present or made on demand, is well formed.          *)
LEMMA EntryType ==
    ASSUME TypeOK, NEW p \in Pod
    PROVE  /\ Clock(p) \in Nat
           /\ Fresh(p) \in BreakerData
           /\ GetBreaker(p) \in BreakerData
           /\ p \in DOMAIN breakers => GetBreaker(p) = breakers[p]
<1>1. Clock(p) \in Nat
  BY DEF TypeOK, Clock
<1>2. Fresh(p) \in BreakerData
  BY <1>1 DEF Fresh, BreakerData, State
<1>3. PICK D \in SUBSET Pod : breakers \in [D -> BreakerData]
  BY DEF TypeOK
<1>. QED  BY <1>1, <1>2, <1>3 DEF GetBreaker

(* Replacing the entry of one pod leaves the others alone.                 *)
LEMMA SetBreakerType ==
    ASSUME TypeOK, NEW p \in Pod, NEW b \in BreakerData
    PROVE  /\ \E D \in SUBSET Pod : SetBreaker(p, b) \in [D -> BreakerData]
           /\ DOMAIN SetBreaker(p, b) = DOMAIN breakers \cup {p}
           /\ SetBreaker(p, b)[p] = b
           /\ \A q \in DOMAIN breakers :
                  q # p => SetBreaker(p, b)[q] = breakers[q]
<1>1. PICK D \in SUBSET Pod : breakers \in [D -> BreakerData]
  BY DEF TypeOK
<1>2. SetBreaker(p, b) \in [D \cup {p} -> BreakerData]
  BY <1>1 DEF SetBreaker
<1>3. D \cup {p} \in SUBSET Pod
  OBVIOUS
<1>. QED  BY <1>1, <1>2, <1>3 DEF SetBreaker

-----------------------------------------------------------------------------
(* Type correctness.                                                       *)

(* The parts of TypeOK that Keep and Transition decide.                    *)
RestOK ==
    /\ now \in Nat
    /\ EntriesOK
    /\ outbox \in [Pod -> Seq(BreakerMessage)]
    /\ subscribed \subseteq Pod
    /\ inbox \in [Pod -> Seq(BreakerMessage)]
    /\ newest \subseteq BreakerMessage
    /\ missed \subseteq Pod

(* TypeOK is RestOK and the type of pending.                               *)
LEMMA TypeOKParts == TypeOK <=> RestOK /\ pending \in [Pod -> [Age -> Nat]]
BY DEF TypeOK, RestOK, EntriesOK

(* Writing a well-formed entry keeps everything but pending well formed.   *)
LEMMA KeepType ==
    ASSUME TypeOK, NEW p \in Pod, NEW b \in BreakerData, Keep(p, b)
    PROVE  RestOK'
<1>1. EntriesOK'
  BY SetBreakerType DEF Keep, EntriesOK
<1>. QED  BY <1>1 DEF Keep, redis, RestOK, TypeOK

(* So does a transition.                                                   *)
LEMMA TransitionType ==
    ASSUME TypeOK, NEW p \in Pod, NEW s \in State, Transition(p, s)
    PROVE  RestOK'
<1>1. PICK elapsed \in 0..MaxStall :
          /\ now' = now + elapsed
          /\ breakers' = SetBreaker(p, [state |-> s,
                                        lastTransition |-> Clock(p),
                                        failures |-> 0, successes |-> 0])
          /\ outbox' = [outbox EXCEPT ![p] =
                            Append(@, [state |-> s,
                                       timestamp |-> Clock(p) + elapsed])]
          /\ UNCHANGED redis
  BY DEF Transition
<1>2. Clock(p) \in Nat
  BY EntryType
<1>3. [state |-> s, lastTransition |-> Clock(p),
       failures |-> 0, successes |-> 0] \in BreakerData
  BY <1>2 DEF BreakerData
<1>4. EntriesOK'
  BY <1>1, <1>3, SetBreakerType DEF EntriesOK
<1>5. [state |-> s, timestamp |-> Clock(p) + elapsed] \in BreakerMessage
  BY <1>2 DEF BreakerMessage
<1>6. outbox' \in [Pod -> Seq(BreakerMessage)]
  BY <1>1, <1>5 DEF TypeOK
<1>7. now' \in Nat
  BY <1>1 DEF TypeOK
<1>. QED  BY <1>1, <1>4, <1>6, <1>7 DEF redis, RestOK, TypeOK

(* Counting a request in, out or as stale yields proper counts.            *)
LEMMA PendingType ==
    ASSUME TypeOK, NEW p \in Pod, NEW age \in Age
    PROVE  /\ Aged(p) \in [Age -> Nat]
           /\ Plus(pending[p], age) \in [Age -> Nat]
           /\ Plus(Aged(p), age) \in [Age -> Nat]
           /\ pending[p][age] > 0 => /\ Minus(pending[p], age) \in [Age -> Nat]
                                     /\ Minus(Aged(p), "stale") \in [Age -> Nat]
<1>1. pending[p] \in [Age -> Nat] /\ "current" \in Age /\ "stale" \in Age
  BY DEF TypeOK, Age
<1>2. Aged(p) \in [Age -> Nat]
  BY <1>1 DEF Aged, Age
<1>3. \A r \in [Age -> Nat] : Plus(r, age) \in [Age -> Nat]
  BY DEF Plus
<1>4. pending[p][age] > 0 => Minus(pending[p], age) \in [Age -> Nat]
  BY <1>1 DEF Minus
<1>5. pending[p][age] > 0 => Aged(p)["stale"] > 0
  BY <1>1 DEF Aged, Age
<1>6. pending[p][age] > 0 => Minus(Aged(p), "stale") \in [Age -> Nat]
  BY <1>1, <1>2, <1>5 DEF Minus
<1>. QED  BY <1>1, <1>2, <1>3, <1>4, <1>6

(* check preserves the types.                                              *)
LEMMA CheckType ==
    ASSUME TypeOK, NEW p \in Pod, Check(p)
    PROVE  TypeOK'
<1>0. GetBreaker(p) \in BreakerData /\ "current" \in Age
  BY EntryType DEF Age
<1>1. CASE Admit(p)
  <2>1. RestOK'
    BY <1>0, <1>1, KeepType DEF Admit
  <2>2. pending' \in [Pod -> [Age -> Nat]]
    BY <1>0, <1>1, PendingType DEF Admit, TypeOK
  <2>. QED  BY <2>1, <2>2 DEF TypeOK, RestOK, EntriesOK
<1>2. CASE StartProbing(p)
  <2>1. RestOK'
    BY <1>2, TransitionType DEF StartProbing, State
  <2>2. pending' \in [Pod -> [Age -> Nat]]
    BY <1>0, <1>2, PendingType DEF StartProbing, TypeOK
  <2>. QED  BY <2>1, <2>2 DEF TypeOK, RestOK, EntriesOK
<1>3. CASE Deny(p)
  <2>1. RestOK'
    BY <1>0, <1>3, KeepType DEF Deny
  <2>. QED  BY <1>3, <2>1 DEF Deny, TypeOK, RestOK, EntriesOK
<1>. QED  BY <1>1, <1>2, <1>3 DEF Check

(* A request that ends leaves a proper count behind.                       *)
LEMMA FinishType ==
    ASSUME TypeOK, NEW p \in Pod, NEW age \in Age,
           Finish(p, age) \/ FinishAged(p, age)
    PROVE  pending' \in [Pod -> [Age -> Nat]]
<1>1. CASE Finish(p, age)
  <2>1. Minus(pending[p], age) \in [Age -> Nat]
    BY <1>1, PendingType DEF Finish
  <2>2. pending' = [pending EXCEPT ![p] = Minus(pending[p], age)]
    BY <1>1 DEF Finish
  <2>. QED  BY <2>1, <2>2 DEF TypeOK
<1>2. CASE FinishAged(p, age)
  <2>1. Minus(Aged(p), "stale") \in [Age -> Nat]
    BY <1>2, PendingType DEF FinishAged
  <2>. QED  BY <1>2, <2>1 DEF FinishAged, TypeOK
<1>. QED  BY <1>1, <1>2

(* The end of a request preserves the types.                               *)
LEMMA EndType ==
    ASSUME TypeOK, NEW p \in Pod, End(p)
    PROVE  TypeOK'
<1>. DEFINE b == GetBreaker(p)
<1>0. /\ b \in BreakerData
      /\ [b EXCEPT !.failures = 0] \in BreakerData
      /\ [b EXCEPT !.failures = @ + 1] \in BreakerData
      /\ [b EXCEPT !.successes = @ + 1] \in BreakerData
  BY EntryType DEF BreakerData
<1>1. ASSUME NEW age \in Age, RecordSuccess(p, age) PROVE TypeOK'
  <2>1. Verdict([b EXCEPT !.successes = @ + 1]) \in State /\ "OPEN" \in State
    BY DEF Verdict, State
  <2>2. RestOK'
    BY <1>0, <1>1, <2>1, KeepType, TransitionType DEF RecordSuccess
  <2>3. pending' \in [Pod -> [Age -> Nat]]
    BY <1>1, FinishType DEF RecordSuccess
  <2>. QED  BY <2>2, <2>3 DEF TypeOK, RestOK, EntriesOK
<1>2. ASSUME NEW age \in Age, RecordFailure(p, age) PROVE TypeOK'
  <2>1. "OPEN" \in State
    BY DEF State
  <2>2. RestOK'
    BY <1>0, <1>2, <2>1, KeepType, TransitionType DEF RecordFailure
  <2>3. pending' \in [Pod -> [Age -> Nat]]
    BY <1>2, FinishType DEF RecordFailure
  <2>. QED  BY <2>2, <2>3 DEF TypeOK, RestOK, EntriesOK
<1>3. ASSUME NEW age \in Age, EndUnrecorded(p, age) PROVE TypeOK'
  <2>1. pending' \in [Pod -> [Age -> Nat]]
    BY <1>3, FinishType DEF EndUnrecorded
  <2>. QED  BY <1>3, <2>1 DEF EndUnrecorded, redis, TypeOK
<1>. QED  BY <1>1, <1>2, <1>3 DEF End

(* The message listener preserves the types.                               *)
LEMMA HandleType ==
    ASSUME TypeOK, NEW p \in Pod, HandleRemoteUpdate(p)
    PROVE  TypeOK'
<1>. DEFINE m == Head(inbox[p])
<1>1. /\ m \in BreakerMessage
      /\ inbox' \in [Pod -> Seq(BreakerMessage)]
  BY DEF HandleRemoteUpdate, TypeOK
<1>2. Adopted(p, m) \in BreakerData
  BY <1>1 DEF Adopted, BreakerMessage, BreakerData
<1>3. EntriesOK'
  <2>1. PICK b \in BreakerData : breakers' = SetBreaker(p, b)
    BY <1>2, EntryType DEF HandleRemoteUpdate
  <2>. QED  BY <2>1, SetBreakerType DEF EntriesOK
<1>4. pending' \in [Pod -> [Age -> Nat]]
  <2>1. Aged(p) \in [Age -> Nat]
    BY PendingType DEF Age
  <2>. QED  BY <2>1 DEF HandleRemoteUpdate, TypeOK
<1>. QED  BY <1>1, <1>3, <1>4 DEF HandleRemoteUpdate, TypeOK, EntriesOK

(* A published message reaches queues and history as a message.            *)
LEMMA PublishType ==
    ASSUME TypeOK, NEW m \in BreakerMessage, Publish(m)
    PROVE  /\ inbox' \in [Pod -> Seq(BreakerMessage)]
           /\ newest' \subseteq BreakerMessage
           /\ missed' \subseteq Pod
           /\ UNCHANGED <<now, breakers, pending, subscribed>>
BY DEF Publish, local, TypeOK

(* Redis, the connections and restarts preserve the types.                 *)
LEMMA EnvironmentType ==
    ASSUME TypeOK, NEW p \in Pod, Environment(p)
    PROVE  TypeOK'
<1>1. CASE ExecPublish(p)
  <2>1. /\ Head(outbox[p]) \in BreakerMessage
        /\ outbox' \in [Pod -> Seq(BreakerMessage)]
    BY <1>1 DEF ExecPublish, TypeOK
  <2>. QED  BY <1>1, <2>1, PublishType DEF ExecPublish, TypeOK
<1>2. CASE RepeatPublish(p)
  <2>1. Head(outbox[p]) \in BreakerMessage
    BY <1>2 DEF RepeatPublish, TypeOK
  <2>. QED  BY <1>2, <2>1, PublishType DEF RepeatPublish, TypeOK
<1>3. CASE DropPublish(p)
  <2>1. outbox' \in [Pod -> Seq(BreakerMessage)]
    BY <1>3 DEF DropPublish, TypeOK
  <2>. QED  BY <1>3, <2>1 DEF DropPublish, local, redis, TypeOK
<1>4. CASE Subscribe(p)
  BY <1>4 DEF Subscribe, local, TypeOK
<1>5. CASE Disconnect(p)
  <2>1. inbox' \in [Pod -> Seq(BreakerMessage)]
    BY <1>5 DEF Disconnect, TypeOK
  <2>. QED  BY <1>5, <2>1 DEF Disconnect, local, TypeOK
<1>6. CASE Restart(p)
  <2>1. EntriesOK'
    <3>1. PICK D \in SUBSET Pod : breakers \in [D -> BreakerData]
      BY DEF TypeOK
    <3>2. breakers' \in [D \ {p} -> BreakerData] /\ D \ {p} \in SUBSET Pod
      BY <1>6, <3>1 DEF Restart
    <3>. QED  BY <3>2 DEF EntriesOK
  <2>2. /\ inbox' \in [Pod -> Seq(BreakerMessage)]
        /\ outbox' \in [Pod -> Seq(BreakerMessage)]
        /\ pending' \in [Pod -> [Age -> Nat]]
    BY <1>6 DEF Restart, TypeOK
  <2>. QED  BY <1>6, <2>1, <2>2 DEF Restart, TypeOK, EntriesOK
<1>. QED  BY <1>1, <1>2, <1>3, <1>4, <1>5, <1>6 DEF Environment

(* The types hold at the start.                                            *)
LEMMA InitType == Init => TypeOK
<1>. SUFFICES ASSUME Init PROVE TypeOK
  OBVIOUS
<1>1. breakers \in [{} -> BreakerData] /\ {} \in SUBSET Pod
  BY DEF Init
<1>2. \E D \in SUBSET Pod : breakers \in [D -> BreakerData]
  BY <1>1
<1>. QED  BY <1>2 DEF Init, TypeOK

(* The types hold after every step.                                        *)
LEMMA NextType ==
    ASSUME TypeOK, [Next]_vars
    PROVE  TypeOK'
<1>1. ASSUME NEW p \in Pod, Call(p) PROVE TypeOK'
  BY <1>1, CheckType, EndType, HandleType DEF Call
<1>2. ASSUME NEW p \in Pod, Environment(p) PROVE TypeOK'
  BY <1>2, EnvironmentType
<1>3. CASE Tick
  BY <1>3 DEF Tick, local, redis, TypeOK
<1>4. CASE UNCHANGED vars
  BY <1>4 DEF vars, TypeOK
<1>. QED  BY <1>1, <1>2, <1>3, <1>4 DEF Next

(* Every entry, message and counter stays what the code declares it to be. *)
THEOREM TypeCorrect == Spec => []TypeOK
<1>1. Init => TypeOK
  BY InitType
<1>2. TypeOK /\ [Next]_vars => TypeOK'
  BY NextType
<1>. QED  BY <1>1, <1>2, PTL DEF Spec

-----------------------------------------------------------------------------
(* The counters.                                                           *)

Counted(b) ==
    /\ b.state = "CLOSED"    => /\ b.failures < ConsecutiveFailures
                                /\ b.successes = 0
    /\ b.state = "HALF_OPEN" => /\ b.failures = 0
                                /\ b.successes < HalfOpenMaxRequests
    /\ b.state = "OPEN"      => b.failures = 0 /\ b.successes = 0

(* Zeroed counters are below any threshold.                                *)
LEMMA ZeroIsCounted ==
    ASSUME NEW b \in BreakerData, b.failures = 0, b.successes = 0
    PROVE  Counted(b)
BY DEF Counted

(* The entry of a pod is below its thresholds, also when it is made now.   *)
LEMMA EntryIsCounted ==
    ASSUME TypeOK, CountersBelowThresholds, NEW p \in Pod
    PROVE  Counted(GetBreaker(p))
<1>1. CASE p \in DOMAIN breakers
  BY <1>1 DEF GetBreaker, CountersBelowThresholds, Counted
<1>2. CASE p \notin DOMAIN breakers
  <2>1. GetBreaker(p) = Fresh(p) /\ Fresh(p) \in BreakerData
    BY <1>2, EntryType DEF GetBreaker
  <2>2. Fresh(p).failures = 0 /\ Fresh(p).successes = 0
    BY DEF Fresh
  <2>. QED  BY <2>1, <2>2, ZeroIsCounted
<1>. QED  BY <1>1, <1>2

(* A transition writes zeroed counters and the local time.                 *)
LEMMA TransitionWrites ==
    ASSUME TypeOK, NEW p \in Pod, NEW s \in State, Transition(p, s)
    PROVE  \E b \in BreakerData : /\ breakers' = SetBreaker(p, b)
                                  /\ Counted(b)
                                  /\ b.state = s
                                  /\ b.lastTransition = Clock(p)
<1>. DEFINE b == [state |-> s, lastTransition |-> Clock(p),
                  failures |-> 0, successes |-> 0]
<1>1. breakers' = SetBreaker(p, b)
  BY DEF Transition
<1>2. b \in BreakerData
  BY EntryType DEF BreakerData
<1>3. Counted(b)
  BY <1>2, ZeroIsCounted
<1>. QED  BY <1>1, <1>2, <1>3

(* What a call of pod p may write: an entry within its thresholds.         *)
LEMMA CallWrites ==
    ASSUME TypeOK, CountersBelowThresholds, NEW p \in Pod, Call(p)
    PROVE  \/ UNCHANGED breakers
           \/ \E b \in BreakerData : breakers' = SetBreaker(p, b) /\ Counted(b)
<1>. DEFINE b == GetBreaker(p)
<1>0. b \in BreakerData /\ Counted(b)
  BY EntryType, EntryIsCounted
<1>1. CASE Check(p)
  BY <1>0, <1>1, TransitionWrites
     DEF Check, Admit, StartProbing, Deny, Keep, State
<1>2. CASE End(p)
  <2>1. ASSUME NEW age \in Age, RecordSuccess(p, age)
        PROVE  \E c \in BreakerData : breakers' = SetBreaker(p, c) /\ Counted(c)
    <3>. DEFINE counted == [b EXCEPT !.successes = @ + 1]
    <3>1. CASE b.state = "CLOSED"
      <4>1. /\ [b EXCEPT !.failures = 0] \in BreakerData
            /\ Counted([b EXCEPT !.failures = 0])
        BY <1>0, <3>1 DEF BreakerData, Counted
      <4>. QED  BY <2>1, <3>1, <4>1 DEF RecordSuccess, Keep
    <3>2. CASE b.state = "HALF_OPEN" /\ Attempts(counted) < HalfOpenMaxRequests
      <4>1. counted \in BreakerData
        BY <1>0 DEF BreakerData
      <4>2. Counted(counted)
        BY <1>0, <3>2 DEF BreakerData, Counted, Attempts
      <4>3. Attempts(counted) \in Nat
        BY <1>0 DEF BreakerData, Attempts
      <4>4. Keep(p, counted)
        BY <2>1, <3>2, <4>3 DEF RecordSuccess
      <4>. QED  BY <4>1, <4>2, <4>4 DEF Keep
    <3>3. CASE b.state = "HALF_OPEN" /\ Attempts(counted) >= HalfOpenMaxRequests
      <4>1. Verdict(counted) \in State
        BY DEF Verdict, State
      <4>2. Attempts(counted) \in Nat
        BY <1>0 DEF BreakerData, Attempts
      <4>3. Transition(p, Verdict(counted))
        BY <2>1, <3>3, <4>2 DEF RecordSuccess
      <4>. QED  BY <4>1, <4>3, TransitionWrites
    <3>4. CASE b.state = "OPEN"
      BY <1>0, <2>1, <3>4 DEF RecordSuccess, Keep
    <3>5. Attempts(counted) \in Nat /\ b.state \in State
      BY <1>0 DEF BreakerData, Attempts
    <3>. QED  BY <3>1, <3>2, <3>3, <3>4, <3>5 DEF State
  <2>2. ASSUME NEW age \in Age, RecordFailure(p, age)
        PROVE  \E c \in BreakerData : breakers' = SetBreaker(p, c) /\ Counted(c)
    <3>. DEFINE counted == [b EXCEPT !.failures = @ + 1]
    <3>1. CASE b.state = "CLOSED" /\ counted.failures < ConsecutiveFailures
      <4>1. counted \in BreakerData /\ Counted(counted)
        BY <1>0, <3>1 DEF BreakerData, Counted
      <4>2. breakers' = SetBreaker(p, counted) \/ Transition(p, "OPEN")
        BY <2>2, <3>1 DEF RecordFailure, Keep
      <4>. QED  BY <4>1, <4>2, TransitionWrites DEF State
    <3>2. CASE Transition(p, "OPEN")
      BY <3>2, TransitionWrites DEF State
    <3>3. CASE b.state = "OPEN"
      BY <1>0, <2>2, <3>3 DEF RecordFailure, Keep
    <3>. QED  BY <2>2, <3>1, <3>2, <3>3 DEF RecordFailure
  <2>3. ASSUME NEW age \in Age, EndUnrecorded(p, age)
        PROVE  UNCHANGED breakers
    BY <2>3 DEF EndUnrecorded
  <2>. QED  BY <1>2, <2>1, <2>2, <2>3 DEF End
<1>3. CASE HandleRemoteUpdate(p)
  <2>. DEFINE a == Adopted(p, Head(inbox[p]))
  <2>1. Head(inbox[p]) \in BreakerMessage
    BY <1>3 DEF HandleRemoteUpdate, TypeOK
  <2>2. a \in BreakerData /\ a.failures = 0 /\ a.successes = 0
    BY <2>1 DEF Adopted, BreakerMessage, BreakerData
  <2>3. Counted(a)
    BY <2>2, ZeroIsCounted
  <2>. QED  BY <1>0, <1>3, <2>2, <2>3 DEF HandleRemoteUpdate
<1>. QED  BY <1>1, <1>2, <1>3 DEF Call

(* Every step keeps all counters below their thresholds.                   *)
LEMMA NextCounters ==
    ASSUME TypeOK, CountersBelowThresholds, [Next]_vars
    PROVE  CountersBelowThresholds'
<1>0. CountersBelowThresholds' <=>
          \A q \in DOMAIN breakers' : Counted(breakers'[q])
  BY DEF CountersBelowThresholds, Counted
<1>1. \A q \in DOMAIN breakers : Counted(breakers[q])
  BY DEF CountersBelowThresholds, Counted
<1>2. ASSUME NEW p \in Pod, Call(p)
      PROVE  CountersBelowThresholds'
  <2>1. CASE UNCHANGED breakers
    BY <1>0, <1>1, <2>1
  <2>2. ASSUME NEW b \in BreakerData, breakers' = SetBreaker(p, b), Counted(b)
        PROVE  CountersBelowThresholds'
    <3>0. /\ DOMAIN SetBreaker(p, b) = DOMAIN breakers \cup {p}
          /\ SetBreaker(p, b)[p] = b
          /\ \A q \in DOMAIN breakers :
                 q # p => SetBreaker(p, b)[q] = breakers[q]
      BY SetBreakerType
    <3>1. /\ DOMAIN breakers' = DOMAIN breakers \cup {p}
          /\ breakers'[p] = b
          /\ \A q \in DOMAIN breakers : q # p => breakers'[q] = breakers[q]
      BY <2>2, <3>0
    <3>2. ASSUME NEW q \in DOMAIN breakers' PROVE Counted(breakers'[q])
      BY <1>1, <2>2, <3>1, <3>2
    <3>. QED  BY <1>0, <3>2
  <2>. QED  BY <1>2, <2>1, <2>2, CallWrites
<1>3. ASSUME NEW p \in Pod, Environment(p)
      PROVE  CountersBelowThresholds'
  <2>1. CASE Restart(p)
    BY <1>0, <1>1, <2>1 DEF Restart
  <2>2. CASE ~ Restart(p)
    <3>1. UNCHANGED breakers
      BY <1>3, <2>2 DEF Environment, ExecPublish, RepeatPublish, DropPublish,
                        Publish, Subscribe, Disconnect, local
    <3>. QED  BY <1>0, <1>1, <3>1
  <2>. QED  BY <2>1, <2>2
<1>4. CASE Tick \/ UNCHANGED vars
  BY <1>0, <1>1, <1>4 DEF Tick, local, vars
<1>. QED  BY <1>2, <1>3, <1>4 DEF Next

(* In particular a HALF_OPEN breaker has no failure on record and room for *)
(* another attempt, so check never refuses a request in that state.        *)
THEOREM CountersAreBelow == Spec => []CountersBelowThresholds
<1>1. Init => TypeOK /\ CountersBelowThresholds
  BY InitType DEF Init, CountersBelowThresholds
<1>2. TypeOK /\ CountersBelowThresholds /\ [Next]_vars
          => (TypeOK /\ CountersBelowThresholds)'
  BY NextType, NextCounters
<1>. QED  BY <1>1, <1>2, PTL DEF Spec

-----------------------------------------------------------------------------
(* An OPEN episode.                                                        *)

(* A call changes no entry but its own pod's.                              *)
LEMMA CallKeepsOthers ==
    ASSUME TypeOK, CountersBelowThresholds, NEW p \in Pod, Call(p)
    PROVE  \A q \in DOMAIN breakers : q # p => breakers'[q] = breakers[q]
<1>1. ASSUME NEW b \in BreakerData, breakers' = SetBreaker(p, b)
      PROVE  \A q \in DOMAIN breakers : q # p => breakers'[q] = breakers[q]
  <2>1. \A q \in DOMAIN breakers : q # p => SetBreaker(p, b)[q] = breakers[q]
    BY SetBreakerType
  <2>. QED  BY <1>1, <2>1
<1>. QED  BY <1>1, CallWrites

(* Outside the calls an entry changes only by disappearing.                *)
LEMMA EnvironmentKeepsEntries ==
    ASSUME TypeOK, NEW p \in Pod, Environment(p)
    PROVE  \A q \in DOMAIN breakers \cap DOMAIN breakers' :
               breakers'[q] = breakers[q]
<1>1. CASE Restart(p)
  BY <1>1 DEF Restart
<1>2. CASE ~ Restart(p)
  <2>1. UNCHANGED breakers
    BY <1>2 DEF Environment, ExecPublish, RepeatPublish, DropPublish,
                Publish, Subscribe, Disconnect, local
  <2>. QED  BY <2>1
<1>. QED  BY <1>1, <1>2

(* Keep writes exactly the entry it is given.                              *)
LEMMA KeepWrites ==
    ASSUME TypeOK, NEW p \in Pod, NEW b \in BreakerData, Keep(p, b)
    PROVE  breakers'[p] = b
<1>1. SetBreaker(p, b)[p] = b
  BY SetBreakerType
<1>. QED  BY <1>1 DEF Keep

(* What a call may do to its own OPEN entry.                               *)
LEMMA CallRespectsOpen ==
    ASSUME TypeOK, NEW p \in Pod, Call(p), p \in DOMAIN breakers,
           breakers[p].state = "OPEN", breakers'[p] # breakers[p]
    PROVE  \/ /\ Clock(p) - breakers[p].lastTransition > CooldownMs
              /\ breakers'[p].state = "HALF_OPEN"
           \/ /\ inbox[p] # <<>>
              /\ inbox'[p] = Tail(inbox[p])
              /\ Head(inbox[p]).timestamp > breakers[p].lastTransition
              /\ Message(breakers'[p]) = Head(inbox[p])
<1>0. /\ GetBreaker(p) = breakers[p]
      /\ breakers[p] \in BreakerData
      /\ ~ Keep(p, breakers[p])
  BY EntryType, KeepWrites
<1>1. CASE Check(p)
  <2>1. StartProbing(p)
    BY <1>0, <1>1 DEF Check, Admit, Allows, Deny
  <2>2. CooledDown(p) /\ Transition(p, "HALF_OPEN")
    BY <2>1 DEF StartProbing
  <2>3. PICK b \in BreakerData : breakers' = SetBreaker(p, b)
                                 /\ b.state = "HALF_OPEN"
    BY <2>2, TransitionWrites DEF State
  <2>4. SetBreaker(p, b)[p] = b
    BY SetBreakerType
  <2>. QED  BY <1>0, <2>2, <2>3, <2>4 DEF CooledDown
<1>2. CASE End(p)
  <2>1. PICK age \in Age : \/ RecordSuccess(p, age)
                           \/ RecordFailure(p, age)
                           \/ EndUnrecorded(p, age)
    BY <1>2 DEF End
  <2>2. ~ RecordSuccess(p, age)
    BY <1>0 DEF RecordSuccess
  <2>3. ~ RecordFailure(p, age)
    BY <1>0 DEF RecordFailure
  <2>4. ~ EndUnrecorded(p, age)
    BY DEF EndUnrecorded
  <2>. QED  BY <2>1, <2>2, <2>3, <2>4
<1>3. CASE HandleRemoteUpdate(p)
  <2>. DEFINE m == Head(inbox[p])
              a == Adopted(p, m)
  <2>0. m \in BreakerMessage /\ a \in BreakerData
    <3>1. m \in BreakerMessage
      BY <1>3 DEF HandleRemoteUpdate, TypeOK
    <3>. QED  BY <3>1 DEF Adopted, BreakerMessage, BreakerData
  <2>1. SetBreaker(p, breakers[p])[p] = breakers[p]
    BY <1>0, SetBreakerType
  <2>2. Supersedes(m, breakers[p]) /\ breakers' = SetBreaker(p, a)
    BY <1>0, <1>3, <2>1 DEF HandleRemoteUpdate
  <2>3. breakers'[p] = a
    BY <2>0, <2>2, SetBreakerType
  <2>4. Message(a) = m
    BY <2>0 DEF Message, Adopted, BreakerMessage
  <2>5. inbox[p] # <<>> /\ inbox'[p] = Tail(inbox[p])
    BY <1>3 DEF HandleRemoteUpdate, TypeOK
  <2>. QED  BY <2>2, <2>3, <2>4, <2>5 DEF Supersedes
<1>. QED  BY <1>1, <1>2, <1>3 DEF Call

(* So an OPEN entry of a running pod changes only after its own cooldown   *)
(* or for a message that is newer than it.                                 *)
LEMMA OpenIsHeld ==
    ASSUME TypeOK, CountersBelowThresholds, [Next]_vars,
           NEW p \in DOMAIN breakers \cap DOMAIN breakers',
           breakers[p].state = "OPEN", breakers'[p] # breakers[p]
    PROVE  \/ Clock(p) - breakers[p].lastTransition > CooldownMs
           \/ /\ inbox[p] # <<>>
              /\ Head(inbox[p]).timestamp > breakers[p].lastTransition
              /\ Message(breakers'[p]) = Head(inbox[p])
<1>0. p \in Pod
  BY DEF TypeOK
<1>1. ASSUME NEW q \in Pod, Call(q)
      PROVE  q = p
  BY <1>1, CallKeepsOthers
<1>2. ASSUME NEW q \in Pod, Environment(q)
      PROVE  FALSE
  BY <1>2, EnvironmentKeepsEntries
<1>3. ~ (Tick \/ UNCHANGED vars)
  BY DEF Tick, local, vars
<1>4. Call(p)
  BY <1>1, <1>2, <1>3 DEF Next
<1>. QED  BY <1>0, <1>4, CallRespectsOpen

-----------------------------------------------------------------------------
(* Versions, when the clocks agree. Nothing in the system is stamped with a*)
(* time that has yet to come.                                              *)

Past(queue, t) == \A i \in 1..Len(queue) : queue[i].timestamp <= t

EntriesPast == \A p \in DOMAIN breakers : breakers[p].lastTransition <= Clock(p)
QueuesPast  == \A p \in Pod : /\ Past(outbox[p], Clock(p))
                              /\ Past(inbox[p], Clock(p))

NothingFromTheFuture == EntriesPast /\ QueuesPast

(* A queue of past messages stays one as time passes and it moves on.      *)
LEMMA PastQueues ==
    ASSUME NEW q \in Seq(BreakerMessage), NEW m \in BreakerMessage,
           NEW s \in Nat, NEW t \in Nat, s <= t, Past(q, s)
    PROVE  /\ Past(q, t)
           /\ m.timestamp <= t => Past(Append(q, m), t)
           /\ q # <<>> => /\ Past(Tail(q), t)
                         /\ Head(q) \in BreakerMessage
                         /\ Head(q).timestamp <= s
<1>1. \A i \in 1..Len(q) : q[i].timestamp \in Nat
  <2>1. \A i \in 1..Len(q) : q[i] \in BreakerMessage
    OBVIOUS
  <2>2. \A n \in BreakerMessage : n.timestamp \in Nat
    BY DEF BreakerMessage
  <2>. QED  BY <2>1, <2>2
<1>2. \A i \in 1..Len(q) : q[i].timestamp <= t
  BY <1>1 DEF Past
<1>3. ASSUME m.timestamp <= t, NEW i \in 1..Len(Append(q, m))
      PROVE  Append(q, m)[i].timestamp <= t
  <2>1. CASE i \in 1..Len(q)
    BY <1>2, <2>1
  <2>2. CASE i = Len(q) + 1
    BY <1>3, <2>2
  <2>. QED  BY <1>3, <2>1, <2>2
<1>4. ASSUME q # <<>>, NEW i \in 1..Len(Tail(q))
      PROVE  Tail(q)[i].timestamp <= t
  <2>1. Tail(q)[i] = q[i + 1] /\ i + 1 \in 1..Len(q)
    BY <1>4
  <2>. QED  BY <1>2, <2>1
<1>5. q # <<>> => Head(q) = q[1] /\ 1 \in 1..Len(q) /\ q[1] \in BreakerMessage
  OBVIOUS
<1>6. q # <<>> => Head(q).timestamp <= s
  BY <1>5 DEF Past
<1>7. Past(q, t)
  BY <1>2 DEF Past
<1>8. m.timestamp <= t => Past(Append(q, m), t)
  BY <1>3 DEF Past
<1>9. q # <<>> => Past(Tail(q), t)
  BY <1>4 DEF Past
<1>. QED  BY <1>5, <1>6, <1>7, <1>8, <1>9

(* No step sets a clock back.                                              *)
LEMMA ClockAdvances ==
    ASSUME TypeOK, TypeOK', [Next]_vars
    PROVE  \A p \in Pod : /\ Clock(p) \in Nat /\ Clock(p)' \in Nat
                          /\ Clock(p) <= Clock(p)'
<1>1. now' \in Nat /\ now \in Nat /\ now <= now'
  <2>0. now' \in Nat /\ now \in Nat
    BY DEF TypeOK
  <2>1. ASSUME NEW p \in Pod, NEW s \in State, Transition(p, s)
        PROVE  now <= now'
    BY <2>0, <2>1 DEF Transition
  <2>2. ASSUME NEW p \in Pod, Call(p) PROVE now <= now'
    <3>1. Verdict([GetBreaker(p) EXCEPT !.successes = @ + 1]) \in State
      BY DEF Verdict, State
    <3>2. CASE Check(p)
      BY <2>0, <2>1, <3>2 DEF Check, Admit, StartProbing, Deny, Keep, State
    <3>3. CASE End(p)
      BY <2>0, <2>1, <3>1, <3>3
         DEF End, RecordSuccess, RecordFailure, EndUnrecorded, Keep, State
    <3>4. CASE HandleRemoteUpdate(p)
      BY <2>0, <3>4 DEF HandleRemoteUpdate
    <3>. QED  BY <2>2, <3>2, <3>3, <3>4 DEF Call
  <2>3. ASSUME NEW p \in Pod, Environment(p) PROVE now <= now'
    BY <2>0, <2>3 DEF Environment, ExecPublish, RepeatPublish, DropPublish,
                      Publish, Subscribe, Disconnect, Restart
  <2>4. CASE Tick
    BY <2>0, <2>4 DEF Tick
  <2>5. CASE UNCHANGED vars
    BY <2>0, <2>5 DEF vars
  <2>. QED  BY <2>0, <2>2, <2>3, <2>4, <2>5 DEF Next
<1>. QED  BY <1>1 DEF Clock

(* What a call of pod p does to its entry and to the queues.               *)
Stamp(p, b) ==
    \/ b.lastTransition = GetBreaker(p).lastTransition
    \/ b.lastTransition = Clock(p)
    \/ /\ inbox[p] # <<>>
       /\ b.lastTransition = Head(inbox[p]).timestamp
       /\ b.lastTransition > GetBreaker(p).lastTransition

Sends(p) ==
    \/ UNCHANGED <<outbox, inbox>>
    \/ /\ UNCHANGED inbox
       /\ \E m \in BreakerMessage :
              /\ m.timestamp <= Clock(p)'
              /\ outbox' = [outbox EXCEPT ![p] = Append(@, m)]
    \/ /\ UNCHANGED outbox
       /\ inbox[p] # <<>>
       /\ inbox' = [inbox EXCEPT ![p] = Tail(@)]

StampedEntry(p) ==
    \/ UNCHANGED breakers
    \/ \E c \in BreakerData : breakers' = SetBreaker(p, c) /\ Stamp(p, c)

(* A transition stamps its entry now and its message no earlier.           *)
LEMMA TransitionStamps ==
    ASSUME TypeOK, NEW p \in Pod, NEW s \in State, Transition(p, s)
    PROVE  StampedEntry(p) /\ Sends(p)
<1>1. StampedEntry(p)
  BY TransitionWrites DEF StampedEntry, Stamp
<1>2. PICK elapsed \in 0..MaxStall :
          /\ now' = now + elapsed
          /\ outbox' = [outbox EXCEPT ![p] =
                            Append(@, [state |-> s,
                                       timestamp |-> Clock(p) + elapsed])]
          /\ UNCHANGED redis
  BY DEF Transition
<1>. DEFINE m == [state |-> s, timestamp |-> Clock(p) + elapsed]
<1>3. m \in BreakerMessage
  BY EntryType DEF BreakerMessage
<1>4. m.timestamp <= Clock(p)'
  BY <1>2 DEF Clock, TypeOK
<1>. QED  BY <1>1, <1>2, <1>3, <1>4 DEF Sends, redis

(* A call without a transition keeps the stamp, or makes it now.           *)
LEMMA KeepStamps ==
    ASSUME TypeOK, NEW p \in Pod, NEW b \in BreakerData, Keep(p, b),
           b.lastTransition = GetBreaker(p).lastTransition
    PROVE  StampedEntry(p) /\ Sends(p)
BY DEF Keep, StampedEntry, Stamp, Sends, redis

(* The stamp and the message that a call may leave.                        *)
LEMMA CallStamps ==
    ASSUME TypeOK, NEW p \in Pod, Call(p)
    PROVE  StampedEntry(p) /\ Sends(p)
<1>. DEFINE b == GetBreaker(p)
            failed == [b EXCEPT !.failures = @ + 1]
            succeeded == [b EXCEPT !.successes = @ + 1]
            cleared == [b EXCEPT !.failures = 0]
<1>. b \in BreakerData
  BY EntryType
<1>0. /\ \A c \in {failed, succeeded, cleared} :
             c \in BreakerData /\ c.lastTransition = b.lastTransition
      /\ Verdict(succeeded) \in State /\ {"OPEN", "HALF_OPEN"} \subseteq State
  BY DEF BreakerData, Verdict, State
<1>. HIDE DEF b
<1>1. CASE Check(p)
  BY <1>0, <1>1, KeepStamps, TransitionStamps
     DEF Check, Admit, StartProbing, Deny, b
<1>2. CASE End(p)
  <2>1. ASSUME NEW age \in Age, RecordSuccess(p, age)
        PROVE  StampedEntry(p) /\ Sends(p)
    <3>1. \/ \E c \in {b, succeeded, cleared} : Keep(p, c)
          \/ Transition(p, Verdict(succeeded))
      BY <2>1 DEF RecordSuccess, b
    <3>. QED  BY <1>0, <3>1, KeepStamps, TransitionStamps DEF b
  <2>2. ASSUME NEW age \in Age, RecordFailure(p, age)
        PROVE  StampedEntry(p) /\ Sends(p)
    <3>1. \/ \E c \in {b, failed} : Keep(p, c)
          \/ Transition(p, "OPEN")
      BY <2>2 DEF RecordFailure, b
    <3>. QED  BY <1>0, <3>1, KeepStamps, TransitionStamps DEF b
  <2>3. ASSUME NEW age \in Age, EndUnrecorded(p, age)
        PROVE  StampedEntry(p) /\ Sends(p)
    BY <2>3 DEF EndUnrecorded, StampedEntry, Sends, redis
  <2>. QED  BY <1>2, <2>1, <2>2, <2>3 DEF End
<1>3. CASE HandleRemoteUpdate(p)
  <2>. DEFINE m == Head(inbox[p])
  <2>1. m \in BreakerMessage /\ inbox[p] # <<>>
    BY <1>3 DEF HandleRemoteUpdate, TypeOK
  <2>2. /\ Adopted(p, m) \in BreakerData
        /\ Adopted(p, m).lastTransition = m.timestamp
    BY <2>1 DEF Adopted, BreakerMessage, BreakerData
  <2>3. Sends(p)
    BY <1>3, <2>1 DEF HandleRemoteUpdate, Sends
  <2>4. CASE Supersedes(m, b) /\ breakers' = SetBreaker(p, Adopted(p, m))
    <3>1. Stamp(p, Adopted(p, m))
      BY <2>1, <2>2, <2>4 DEF Stamp, Supersedes, b
    <3>. QED  BY <2>2, <2>3, <2>4, <3>1 DEF StampedEntry
  <2>5. CASE breakers' = SetBreaker(p, b)
    <3>1. Stamp(p, b)
      BY DEF Stamp, b
    <3>. QED  BY <2>3, <2>5, <3>1 DEF StampedEntry
  <2>. QED  BY <1>3, <2>3, <2>4, <2>5 DEF HandleRemoteUpdate, b
<1>. QED  BY <1>1, <1>2, <1>3 DEF Call

(* A stamped entry is no older than the one it replaces, and not from the  *)
(* future.                                                                 *)
LEMMA StampIsBetween ==
    ASSUME TypeOK, NothingFromTheFuture, NEW p \in Pod, StampedEntry(p)
    PROVE  /\ \A q \in DOMAIN breakers' : breakers'[q].lastTransition <= Clock(q)
           /\ \A q \in DOMAIN breakers \cap DOMAIN breakers' :
                  breakers'[q].lastTransition >= breakers[q].lastTransition
<1>1. \A q \in DOMAIN breakers : /\ q \in Pod
                                 /\ breakers[q].lastTransition \in Nat
                                 /\ breakers[q].lastTransition <= Clock(q)
  <2>1. ASSUME NEW q \in DOMAIN breakers
        PROVE  q \in Pod /\ breakers[q] \in BreakerData
    BY DEF TypeOK
  <2>. QED  BY <2>1 DEF BreakerData, NothingFromTheFuture, EntriesPast
<1>2. CASE UNCHANGED breakers
  BY <1>1, <1>2
<1>3. ASSUME NEW b \in BreakerData, breakers' = SetBreaker(p, b), Stamp(p, b)
      PROVE  /\ \A q \in DOMAIN breakers' :
                    breakers'[q].lastTransition <= Clock(q)
             /\ \A q \in DOMAIN breakers \cap DOMAIN breakers' :
                    breakers'[q].lastTransition >= breakers[q].lastTransition
  <2>1. /\ Clock(p) \in Nat
        /\ GetBreaker(p).lastTransition \in Nat
        /\ GetBreaker(p).lastTransition <= Clock(p)
        /\ p \in DOMAIN breakers => GetBreaker(p) = breakers[p]
    <3>1. CASE p \in DOMAIN breakers
      BY <1>1, <3>1, EntryType
    <3>2. CASE p \notin DOMAIN breakers
      <4>1. GetBreaker(p) = Fresh(p)
        BY <3>2 DEF GetBreaker
      <4>2. Fresh(p).lastTransition = Clock(p)
        BY DEF Fresh
      <4>. QED  BY <3>2, <4>1, <4>2, EntryType
    <3>. QED  BY <3>1, <3>2
  <2>2. inbox[p] # <<>> => /\ Head(inbox[p]).timestamp \in Nat
                           /\ Head(inbox[p]).timestamp <= Clock(p)
    <3>1. inbox[p] \in Seq(BreakerMessage) /\ Past(inbox[p], Clock(p))
      BY DEF TypeOK, NothingFromTheFuture, QueuesPast
    <3>2. inbox[p] # <<>> => inbox[p][1] \in BreakerMessage
                             /\ Head(inbox[p]) = inbox[p][1]
                             /\ 1 \in 1..Len(inbox[p])
      BY <3>1
    <3>3. inbox[p] # <<>> => inbox[p][1].timestamp <= Clock(p)
      BY <3>1, <3>2 DEF Past
    <3>. QED  BY <3>2, <3>3 DEF BreakerMessage
  <2>3. /\ b.lastTransition \in Nat
        /\ b.lastTransition <= Clock(p)
        /\ b.lastTransition >= GetBreaker(p).lastTransition
    BY <1>3, <2>1, <2>2 DEF Stamp
  <2>4. /\ DOMAIN breakers' = DOMAIN breakers \cup {p}
        /\ breakers'[p] = b
        /\ \A q \in DOMAIN breakers : q # p => breakers'[q] = breakers[q]
    <3>1. /\ DOMAIN SetBreaker(p, b) = DOMAIN breakers \cup {p}
          /\ SetBreaker(p, b)[p] = b
          /\ \A q \in DOMAIN breakers :
                 q # p => SetBreaker(p, b)[q] = breakers[q]
      BY SetBreakerType
    <3>. QED  BY <1>3, <3>1
  <2>. QED  BY <1>1, <2>1, <2>3, <2>4
<1>. QED  BY <1>2, <1>3 DEF StampedEntry

(* A call leaves nothing that carries a time of the future.                *)
LEMMA CallPast ==
    ASSUME TypeOK, TypeOK', NoSkew, NothingFromTheFuture, [Next]_vars,
           NEW p \in Pod, Call(p)
    PROVE  NothingFromTheFuture'
<1>1. \A q \in Pod : /\ Clock(q) \in Nat /\ Clock(q)' \in Nat
                     /\ Clock(q) <= Clock(q)'
  BY ClockAdvances
<1>2. EntriesPast'
  <2>1. ASSUME NEW q \in DOMAIN breakers'
        PROVE  breakers'[q].lastTransition <= Clock(q)'
    <3>1. q \in Pod /\ breakers'[q] \in BreakerData
      BY DEF TypeOK
    <3>2. breakers'[q].lastTransition <= Clock(q)
      BY CallStamps, StampIsBetween
    <3>. QED  BY <1>1, <3>1, <3>2 DEF BreakerData
  <2>. QED  BY <2>1 DEF EntriesPast
<1>3. ASSUME NEW q \in Pod
      PROVE  Past(outbox'[q], Clock(q)') /\ Past(inbox'[q], Clock(q)')
  <2>1. /\ outbox[q] \in Seq(BreakerMessage) /\ Past(outbox[q], Clock(q))
        /\ inbox[q] \in Seq(BreakerMessage) /\ Past(inbox[q], Clock(q))
    BY DEF TypeOK, NothingFromTheFuture, QueuesPast
  <2>2. [state |-> "OPEN", timestamp |-> 0] \in BreakerMessage
    BY DEF BreakerMessage, State
  <2>3. Past(outbox[q], Clock(q)') /\ Past(inbox[q], Clock(q)')
    BY <1>1, <2>1, <2>2, PastQueues
  <2>4. Sends(p)
    BY CallStamps
  <2>5. CASE UNCHANGED <<outbox, inbox>>
    BY <2>3, <2>5
  <2>6. ASSUME NEW m \in BreakerMessage, m.timestamp <= Clock(p)',
               outbox' = [outbox EXCEPT ![p] = Append(@, m)], UNCHANGED inbox
        PROVE  Past(outbox'[q], Clock(q)') /\ Past(inbox'[q], Clock(q)')
    <3>1. CASE q = p
      <4>1. outbox'[q] = Append(outbox[q], m)
        BY <2>6, <3>1 DEF TypeOK
      <4>. QED  BY <1>1, <2>1, <2>3, <2>6, <3>1, <4>1, PastQueues
    <3>2. CASE q # p
      BY <2>3, <2>6, <3>2 DEF TypeOK
    <3>. QED  BY <3>1, <3>2
  <2>7. CASE /\ UNCHANGED outbox
             /\ inbox[p] # <<>>
             /\ inbox' = [inbox EXCEPT ![p] = Tail(@)]
    <3>1. CASE q = p
      <4>1. inbox'[q] = Tail(inbox[q])
        BY <2>7, <3>1 DEF TypeOK
      <4>. QED  BY <1>1, <2>1, <2>2, <2>3, <2>7, <3>1, <4>1, PastQueues
    <3>2. CASE q # p
      BY <2>3, <2>7, <3>2 DEF TypeOK
    <3>. QED  BY <3>1, <3>2
  <2>. QED  BY <2>4, <2>5, <2>6, <2>7 DEF Sends
<1>. QED  BY <1>2, <1>3 DEF NothingFromTheFuture, QueuesPast

(* What the network does to the queues.                                    *)
LEMMA PublishDelivers ==
    ASSUME TypeOK, NEW m \in BreakerMessage, Publish(m)
    PROVE  \A q \in Pod : inbox'[q] = inbox[q] \/ inbox'[q] = Append(inbox[q], m)
BY DEF Publish, TypeOK

(* Redis, the connections and restarts make no new stamps.                 *)
LEMMA EnvironmentPast ==
    ASSUME TypeOK, TypeOK', NoSkew, NothingFromTheFuture, [Next]_vars,
           NEW p \in Pod, Environment(p)
    PROVE  NothingFromTheFuture'
<1>1. \A q \in Pod : /\ Clock(q) \in Nat /\ Clock(q)' = Clock(q)
                     /\ Clock(q) = Clock(p)
  <2>1. now' = now
    BY DEF Environment, ExecPublish, RepeatPublish, DropPublish,
           Publish, Subscribe, Disconnect, Restart
  <2>2. \A q \in Pod : Skew[q] = Skew[p]
    BY DEF NoSkew
  <2>. QED  BY <2>1, <2>2, ClockAdvances DEF Clock
<1>2. EntriesPast'
  <2>1. ASSUME NEW q \in DOMAIN breakers'
        PROVE  breakers'[q].lastTransition <= Clock(q)'
    <3>1. q \in DOMAIN breakers
      BY DEF Environment, ExecPublish, RepeatPublish, DropPublish,
             Publish, Subscribe, Disconnect, Restart, local
    <3>2. breakers'[q] = breakers[q] /\ q \in Pod
      BY <3>1, EnvironmentKeepsEntries DEF TypeOK
    <3>. QED  BY <1>1, <3>1, <3>2 DEF NothingFromTheFuture, EntriesPast
  <2>. QED  BY <2>1 DEF EntriesPast
<1>3. ASSUME NEW q \in Pod
      PROVE  Past(outbox'[q], Clock(q)) /\ Past(inbox'[q], Clock(q))
  <2>1. /\ outbox[q] \in Seq(BreakerMessage) /\ Past(outbox[q], Clock(q))
        /\ inbox[q] \in Seq(BreakerMessage) /\ Past(inbox[q], Clock(q))
        /\ outbox[p] \in Seq(BreakerMessage) /\ Past(outbox[p], Clock(p))
    BY DEF TypeOK, NothingFromTheFuture, QueuesPast
  <2>2. outbox[p] # <<>> => /\ Head(outbox[p]) \in BreakerMessage
                            /\ Head(outbox[p]).timestamp <= Clock(q)
                            /\ Past(Tail(outbox[p]), Clock(p))
    <3>1. [state |-> "OPEN", timestamp |-> 0] \in BreakerMessage
      BY DEF BreakerMessage, State
    <3>. QED  BY <1>1, <2>1, <3>1, PastQueues
  <2>3. Past(<<>>, Clock(q))
    BY DEF Past
  <2>4. CASE ExecPublish(p) \/ RepeatPublish(p)
    <3>1. outbox[p] # <<>> /\ Publish(Head(outbox[p]))
      BY <2>4 DEF ExecPublish, RepeatPublish
    <3>2. Past(inbox'[q], Clock(q))
      <4>. DEFINE m == Head(outbox[p])
      <4>1. m \in BreakerMessage /\ m.timestamp <= Clock(q)
        BY <2>2, <3>1
      <4>2. inbox'[q] = inbox[q] \/ inbox'[q] = Append(inbox[q], m)
        BY <3>1, <4>1, PublishDelivers
      <4>. HIDE DEF m
      <4>3. Clock(q) \in Nat /\ Clock(q) <= Clock(q)
        BY <1>1
      <4>4. Past(Append(inbox[q], m), Clock(q))
        BY <2>1, <4>1, <4>3, PastQueues
      <4>. QED  BY <2>1, <4>2, <4>4
    <3>3. outbox'[q] = outbox[q] \/ (q = p /\ outbox'[q] = Tail(outbox[p]))
      BY <2>4 DEF ExecPublish, RepeatPublish, TypeOK
    <3>. QED  BY <2>1, <2>2, <3>1, <3>2, <3>3
  <2>5. CASE DropPublish(p)
    <3>1. outbox[p] # <<>> /\ UNCHANGED inbox
      BY <2>5 DEF DropPublish, redis
    <3>2. outbox'[q] = outbox[q] \/ (q = p /\ outbox'[q] = Tail(outbox[p]))
      BY <2>5 DEF DropPublish, TypeOK
    <3>. QED  BY <2>1, <2>2, <3>1, <3>2
  <2>6. CASE Subscribe(p)
    BY <2>1, <2>6 DEF Subscribe
  <2>7. CASE Disconnect(p)
    <3>1. UNCHANGED outbox /\ (inbox'[q] = inbox[q] \/ inbox'[q] = <<>>)
      BY <2>7 DEF Disconnect, TypeOK
    <3>. QED  BY <2>1, <2>3, <3>1
  <2>8. CASE Restart(p)
    <3>1. /\ outbox'[q] = outbox[q] \/ outbox'[q] = <<>>
          /\ inbox'[q] = inbox[q] \/ inbox'[q] = <<>>
      BY <2>8 DEF Restart, TypeOK
    <3>. QED  BY <2>1, <2>3, <3>1
  <2>. QED  BY <2>4, <2>5, <2>6, <2>7, <2>8 DEF Environment
<1>. QED  BY <1>1, <1>2, <1>3 DEF NothingFromTheFuture, QueuesPast

(* Nothing carries a time of the future after any step.                    *)
LEMMA NextPast ==
    ASSUME TypeOK, TypeOK', NoSkew, NothingFromTheFuture, [Next]_vars
    PROVE  NothingFromTheFuture'
<1>1. CASE UNCHANGED <<breakers, outbox, inbox>>
  <2>1. \A q \in Pod : /\ Clock(q) \in Nat /\ Clock(q)' \in Nat
                       /\ Clock(q) <= Clock(q)'
    BY ClockAdvances
  <2>2. ASSUME NEW q \in DOMAIN breakers'
        PROVE  breakers'[q].lastTransition <= Clock(q)'
    <3>1. q \in Pod /\ q \in DOMAIN breakers /\ breakers[q] \in BreakerData
      BY <1>1 DEF TypeOK
    <3>2. breakers[q].lastTransition \in Nat
      BY <3>1 DEF BreakerData
    <3>3. breakers[q].lastTransition <= Clock(q)
      BY <3>1 DEF NothingFromTheFuture, EntriesPast
    <3>4. /\ Clock(q) \in Nat /\ Clock(q)' \in Nat
          /\ Clock(q) <= Clock(q)'
      BY <2>1, <3>1
    <3>5. breakers'[q] = breakers[q]
      BY <1>1
    <3>. QED  BY <3>2, <3>3, <3>4, <3>5
  <2>3. ASSUME NEW q \in Pod
        PROVE  Past(outbox[q], Clock(q)') /\ Past(inbox[q], Clock(q)')
    <3>1. [state |-> "OPEN", timestamp |-> 0] \in BreakerMessage
      BY DEF BreakerMessage, State
    <3>2. /\ outbox[q] \in Seq(BreakerMessage) /\ Past(outbox[q], Clock(q))
          /\ inbox[q] \in Seq(BreakerMessage) /\ Past(inbox[q], Clock(q))
      BY DEF TypeOK, NothingFromTheFuture, QueuesPast
    <3>. QED  BY <2>1, <3>1, <3>2, PastQueues
  <2>. QED  BY <1>1, <2>2, <2>3
            DEF NothingFromTheFuture, EntriesPast, QueuesPast
<1>2. CASE Tick \/ UNCHANGED vars
  BY <1>1, <1>2 DEF Tick, local, redis, vars
<1>. QED  BY <1>2, CallPast, EnvironmentPast DEF Next

(* With clocks that agree a pod's version of the breaker only moves on.    *)
THEOREM VersionsAdvance == Spec => VersionsNeverGoBack
<1>1. Init => (NoSkew => NothingFromTheFuture)
  BY DEF Init, NothingFromTheFuture, EntriesPast, QueuesPast, Past
<1>2. TypeOK /\ TypeOK' /\ (NoSkew => NothingFromTheFuture) /\ [Next]_vars
          => (NoSkew => NothingFromTheFuture)'
  BY NextPast DEF NoSkew
<1>3. ASSUME TypeOK, NoSkew, NothingFromTheFuture, [Next]_vars,
             NEW p \in DOMAIN breakers \cap DOMAIN breakers'
      PROVE  breakers'[p].lastTransition >= breakers[p].lastTransition
  <2>1. p \in Pod /\ breakers[p].lastTransition \in Nat
    BY <1>3 DEF TypeOK, BreakerData
  <2>2. ASSUME NEW q \in Pod, Call(q)
        PROVE  breakers'[p].lastTransition >= breakers[p].lastTransition
    BY <1>3, <2>2, CallStamps, StampIsBetween
  <2>3. ASSUME NEW q \in Pod, Environment(q)
        PROVE  breakers'[p].lastTransition >= breakers[p].lastTransition
    BY <1>3, <2>1, <2>3, EnvironmentKeepsEntries
  <2>4. CASE Tick \/ UNCHANGED vars
    BY <2>1, <2>4 DEF Tick, local, vars
  <2>. QED  BY <1>3, <2>2, <2>3, <2>4 DEF Next
<1>4. TypeOK /\ (NoSkew => NothingFromTheFuture) /\ [Next]_vars =>
          [NoSkew =>
              \A p \in DOMAIN breakers \cap DOMAIN breakers' :
                  breakers'[p].lastTransition >= breakers[p].lastTransition]_vars
  BY <1>3
<1>. QED  BY <1>1, <1>2, <1>4, TypeCorrect, PTL DEF Spec, VersionsNeverGoBack

-----------------------------------------------------------------------------
(* An OPEN breaker is left. The fairness of FairSpec is spelled out with   *)
(* the guards of the actions in the place of ENABLED.                      *)

(* The entry is OPEN, from a time that lets its cooldown end within the    *)
(* bound; it is OPEN and its cooldown is over.                             *)
OpenEarly(p) ==
    /\ p \in DOMAIN breakers
    /\ breakers[p].state = "OPEN"
    /\ breakers[p].lastTransition + CooldownMs < MaxTime

OpenTooLong(p) ==
    p \in DOMAIN breakers /\ breakers[p].state = "OPEN" /\ CooledDown(p)

Late(p) == Clock(p) >= MaxTime

(* Time passes (WF_vars(Tick)).                                            *)
TimePasses(p) == <>Late(p)

(* Requests keep arriving: a breaker that is OPEN after its cooldown and   *)
(* goes on to be is asked again (WF_vars(Check(p))).                       *)
ChecksCome(p) == []<>(~ OpenTooLong(p)) \/ []<><<Check(p)>>_vars

(* Of the three outcomes of check only the first probe is left then.       *)
LEMMA CheckProbes ==
    ASSUME TypeOK, NEW p \in Pod, OpenTooLong(p), Check(p)
    PROVE  p \in DOMAIN breakers' /\ breakers'[p].state = "HALF_OPEN"
<1>1. GetBreaker(p).state = "OPEN"
  BY DEF OpenTooLong, GetBreaker
<1>2. ~ Allows(GetBreaker(p)) /\ ~ Deny(p)
  BY <1>1 DEF Allows, Deny, OpenTooLong
<1>3. Transition(p, "HALF_OPEN")
  BY <1>2 DEF Check, Admit, StartProbing
<1>4. PICK b \in BreakerData : breakers' = SetBreaker(p, b) /\ b.state = "HALF_OPEN"
  BY <1>3, TransitionWrites DEF State
<1>. QED  BY <1>4 DEF SetBreaker

(* On each pod, whatever messages arrive, other pods do and faults occur,  *)
(* no OPEN episode lasts for ever: all it takes is that the pod's clock    *)
(* runs and that requests go on to ask its breaker.                        *)
THEOREM OpenEnds ==
    Spec /\ (\A p \in Pod : TimePasses(p) /\ ChecksCome(p)) => OpenIsLeft
<1>1. ASSUME NEW p \in Pod
      PROVE  Spec /\ TimePasses(p) /\ ChecksCome(p) =>
                 (OpenEarly(p) ~> ~ OpenEarly(p))
  <2>1. TypeOK /\ TypeOK' /\ Late(p) /\ [Next]_vars => Late(p)'
    BY ClockAdvances DEF Late
  <2>2. TypeOK /\ OpenEarly(p) /\ Late(p) => OpenTooLong(p)
    <3>. SUFFICES ASSUME TypeOK, OpenEarly(p), Late(p)
                  PROVE  CooledDown(p)
      BY DEF OpenEarly, OpenTooLong
    <3>1. Clock(p) \in Nat /\ breakers[p].lastTransition \in Nat
          /\ GetBreaker(p) = breakers[p]
      BY EntryType DEF OpenEarly, BreakerData
    <3>. QED  BY <3>1 DEF OpenEarly, Late, CooledDown
  <2>3. TypeOK /\ OpenTooLong(p) /\ <<Check(p)>>_vars => ~ OpenEarly(p)'
    BY CheckProbes DEF OpenEarly
  <2>. QED  BY <2>1, <2>2, <2>3, TypeCorrect, PTL
            DEF Spec, TimePasses, ChecksCome
<1>. QED  BY <1>1 DEF OpenIsLeft, OpenEarly

-----------------------------------------------------------------------------
(* CircuitBreaker implements ReplicatedBreaker. The view of a pod is its   *)
(* entry without the counters, the wire is what stands in any queue; each  *)
(* step below is matched with a step of the abstract specification or with *)
(* none. The last part proves that pods which have heard everything agree. *)

(* What the operations on a queue do to the messages in it.                *)
LEMMA QueueRange ==
    ASSUME NEW q \in Seq(BreakerMessage), NEW m
    PROVE  /\ Range(Append(q, m)) = Range(q) \cup {m}
           /\ q # <<>> => Range(Tail(q)) \subseteq Range(q) /\ Head(q) \in Range(q)
<1>1. Range(Append(q, m)) = Range(q) \cup {m}
  <2>1. DOMAIN Append(q, m) = 1 .. Len(q) + 1 /\ DOMAIN q = 1 .. Len(q)
    OBVIOUS
  <2>2. /\ Append(q, m)[Len(q) + 1] = m
        /\ \A i \in 1 .. Len(q) : Append(q, m)[i] = q[i]
    OBVIOUS
  <2>. QED  BY <2>1, <2>2 DEF Range
<1>2. ASSUME q # <<>>
      PROVE  Range(Tail(q)) \subseteq Range(q) /\ Head(q) \in Range(q)
  <2>1. /\ DOMAIN Tail(q) = 1 .. Len(q) - 1 /\ DOMAIN q = 1 .. Len(q)
        /\ 1 \in DOMAIN q /\ Head(q) = q[1]
        /\ \A i \in 1 .. Len(q) - 1 : Tail(q)[i] = q[i + 1]
    BY <1>2
  <2>2. \A i \in 1 .. Len(q) - 1 : i + 1 \in 1 .. Len(q)
    OBVIOUS
  <2>. QED  BY <2>1, <2>2 DEF Range
<1>. QED  BY <1>1, <1>2

(* The empty queue holds nothing.                                          *)
LEMMA EmptyRange == Range(<<>>) = {}
BY DEF Range

(* A message is in flight when it stands in a queue of some pod.           *)
LEMMA InFlightIs ==
    /\ \A m : m \in InFlight <=>
           \E p \in Pod : m \in Range(outbox[p]) \/ m \in Range(inbox[p])
    /\ \A m : m \in InFlight' <=>
           \E p \in Pod : m \in Range(outbox'[p]) \/ m \in Range(inbox'[p])
BY DEF InFlight

(* Queues that hold nothing new leave nothing new in flight.               *)
LEMMA InFlightShrinks ==
    ASSUME \A p \in Pod : /\ Range(outbox'[p]) \subseteq InFlight
                          /\ Range(inbox'[p]) \subseteq InFlight
    PROVE  InFlight' \subseteq InFlight
BY InFlightIs

(* The parts of a queue that is in flight are in flight.                   *)
LEMMA QueuesInFlight ==
    ASSUME TypeOK, NEW p \in Pod
    PROVE  /\ Range(outbox[p]) \subseteq InFlight
           /\ Range(inbox[p]) \subseteq InFlight
           /\ outbox[p] \in Seq(BreakerMessage)
           /\ inbox[p] \in Seq(BreakerMessage)
           /\ outbox[p] # <<>> => /\ Head(outbox[p]) \in InFlight
                                  /\ Range(Tail(outbox[p])) \subseteq InFlight
           /\ inbox[p] # <<>> => /\ Head(inbox[p]) \in InFlight
                                 /\ Range(Tail(inbox[p])) \subseteq InFlight
<1>1. outbox[p] \in Seq(BreakerMessage) /\ inbox[p] \in Seq(BreakerMessage)
  BY DEF TypeOK
<1>2. Range(outbox[p]) \subseteq InFlight /\ Range(inbox[p]) \subseteq InFlight
  BY InFlightIs
<1>. QED  BY <1>1, <1>2, QueueRange

-----------------------------------------------------------------------------
(* Steps of one pod, seen from above.                                      *)

(* The abstract version of a pod.                                          *)
LEMMA ViewIs ==
    ASSUME TypeOK, NEW p \in Pod
    PROVE  /\ DOMAIN View = DOMAIN breakers
           /\ p \in DOMAIN View =>
                  /\ View[p] = Message(GetBreaker(p))
                  /\ View[p].timestamp = GetBreaker(p).lastTransition
           /\ Abstract!StateOf(p) = GetBreaker(p).state
<1>1. DOMAIN View = DOMAIN breakers
  BY DEF View
<1>2. p \in DOMAIN View => View[p] = Message(GetBreaker(p))
  BY <1>1, EntryType DEF View
<1>3. Message(GetBreaker(p)).timestamp = GetBreaker(p).lastTransition
  BY DEF Message
<1>4. Abstract!StateOf(p) = GetBreaker(p).state
  BY <1>1, <1>2 DEF Abstract!StateOf, GetBreaker, Fresh, Message
<1>. QED  BY <1>1, <1>2, <1>3, <1>4

(* Replacing the entry of one pod leaves those of the others.              *)
LEMMA EntryReplaced ==
    ASSUME TypeOK, NEW p \in Pod, NEW b \in BreakerData,
           breakers' = SetBreaker(p, b)
    PROVE  /\ DOMAIN breakers' = DOMAIN breakers \cup {p}
           /\ breakers'[p] = b
           /\ \A q \in DOMAIN breakers : q # p => breakers'[q] = breakers[q]
<1>1. /\ DOMAIN SetBreaker(p, b) = DOMAIN breakers \cup {p}
      /\ SetBreaker(p, b)[p] = b
      /\ \A q \in DOMAIN breakers : q # p => SetBreaker(p, b)[q] = breakers[q]
  BY SetBreakerType
<1>. QED  BY <1>1

(* Replacing the entry of one pod replaces its version only.               *)
LEMMA ViewAfter ==
    ASSUME TypeOK, NEW p \in Pod, NEW b \in BreakerData,
           breakers' = SetBreaker(p, b)
    PROVE  /\ Abstract!OnlyAt(p)
           /\ View'[p] = Message(b)
<1>1. /\ DOMAIN breakers' = DOMAIN breakers \cup {p}
      /\ breakers'[p] = b
      /\ \A q \in DOMAIN breakers : q # p => breakers'[q] = breakers[q]
  BY EntryReplaced
<1>2. /\ DOMAIN View = DOMAIN breakers
      /\ \A q \in DOMAIN breakers : View[q] = Message(breakers[q])
      /\ DOMAIN View' = DOMAIN breakers'
      /\ \A q \in DOMAIN breakers' : View'[q] = Message(breakers'[q])
  BY DEF View, Message
<1>3. DOMAIN View' = DOMAIN View \cup {p} /\ View'[p] = Message(b)
  BY <1>1, <1>2
<1>4. \A q \in DOMAIN View \ {p} : View'[q] = View[q]
  BY <1>1, <1>2
<1>. QED  BY <1>3, <1>4 DEF Abstract!OnlyAt

(* Writing an entry of the same version shows nothing, or a pod that joins.*)
LEMMA SameVersion ==
    ASSUME TypeOK, NEW p \in Pod, NEW b \in BreakerData,
           breakers' = SetBreaker(p, b),
           Message(b) = Message(GetBreaker(p)),
           InFlight' \subseteq InFlight
    PROVE  Abstract!Join(p) \/ Abstract!Lose
<1>1. Abstract!OnlyAt(p) /\ View'[p] = Message(b)
  BY ViewAfter
<1>2. CASE p \in DOMAIN View
  <2>1. DOMAIN View' = DOMAIN View /\ \A q \in DOMAIN View : View'[q] = View[q]
    BY <1>1, <1>2, ViewIs DEF Abstract!OnlyAt
  <2>2. /\ View = [q \in DOMAIN View |-> View[q]]
        /\ View' = [q \in DOMAIN View' |-> View'[q]]
    BY DEF View
  <2>3. View' = View
    BY <2>1, <2>2
  <2>. QED  BY <2>3 DEF Abstract!Lose
<1>3. CASE p \notin DOMAIN View
  <2>1. Message(b).state = "CLOSED"
    BY <1>3, ViewIs DEF GetBreaker, Fresh, Message
  <2>. QED  BY <1>1, <1>3, <2>1 DEF Abstract!Join
<1>. QED  BY <1>2, <1>3

(* A call without a transition or a message.                               *)
LEMMA KeepRefines ==
    ASSUME TypeOK, NEW p \in Pod, NEW b \in BreakerData, Keep(p, b),
           Message(b) = Message(GetBreaker(p))
    PROVE  Abstract!Next
<1>1. InFlight' = InFlight
  BY DEF Keep, redis, InFlight
<1>2. Abstract!Join(p) \/ Abstract!Lose
  BY <1>1, SameVersion DEF Keep
<1>. QED  BY <1>2 DEF Abstract!Next

(* A transition along an edge, after the cooldown if it leaves OPEN.       *)
LEMMA TransitionRefines ==
    ASSUME TypeOK, NEW p \in Pod, NEW s \in State, Transition(p, s),
           <<GetBreaker(p).state, s>> \in Abstract!Edge,
           GetBreaker(p).state = "OPEN" => CooledDown(p)
    PROVE  Abstract!Next
<1>1. PICK elapsed \in 0..MaxStall :
          /\ breakers' = SetBreaker(p, [state |-> s,
                                        lastTransition |-> Clock(p),
                                        failures |-> 0, successes |-> 0])
          /\ outbox' = [outbox EXCEPT ![p] =
                            Append(@, [state |-> s,
                                       timestamp |-> Clock(p) + elapsed])]
          /\ inbox' = inbox
  BY DEF Transition, redis
<1>. DEFINE b == [state |-> s, lastTransition |-> Clock(p),
                  failures |-> 0, successes |-> 0]
            m == [state |-> s, timestamp |-> Clock(p) + elapsed]
<1>2. Clock(p) \in Nat /\ GetBreaker(p) \in BreakerData
  BY EntryType
<1>3. b \in BreakerData
  BY <1>2 DEF BreakerData
<1>4. Abstract!OnlyAt(p) /\ View'[p] = Message(b)
  BY <1>1, <1>3, ViewAfter
<1>5. <<Abstract!StateOf(p), View'[p].state>> \in Abstract!Edge
  <2>1. View'[p].state = s
    BY <1>4 DEF Message
  <2>2. Abstract!StateOf(p) = GetBreaker(p).state
    BY ViewIs
  <2>. QED  BY <2>1, <2>2
<1>6. ASSUME Abstract!StateOf(p) = "OPEN"
      PROVE  View'[p].timestamp - View[p].timestamp > CooldownMs
  <2>1. GetBreaker(p).state = "OPEN" /\ p \in DOMAIN View
    BY <1>6, ViewIs DEF GetBreaker, Fresh
  <2>2. View'[p].timestamp = Clock(p)
    BY <1>4 DEF Message
  <2>3. View[p].timestamp = GetBreaker(p).lastTransition
    BY <2>1, ViewIs
  <2>4. Clock(p) - GetBreaker(p).lastTransition > CooldownMs
    BY <2>1 DEF CooledDown
  <2>. QED  BY <2>2, <2>3, <2>4
<1>7. InFlight' = InFlight \cup {m}
  <2>1. \A q \in Pod : /\ Range(outbox'[q]) = IF q = p
                              THEN Range(outbox[q]) \cup {m}
                              ELSE Range(outbox[q])
                       /\ Range(inbox'[q]) = Range(inbox[q])
    <3>. TAKE q \in Pod
    <3>1. /\ outbox[q] \in Seq(BreakerMessage)
          /\ p \in DOMAIN outbox /\ q \in DOMAIN outbox
      BY DEF TypeOK
    <3>2. outbox' = [outbox EXCEPT ![p] = Append(outbox[p], m)]
      BY <1>1
    <3>. HIDE DEF m
    <3>3. outbox'[q] = IF q = p THEN Append(outbox[q], m) ELSE outbox[q]
      BY <3>1, <3>2
    <3>. QED  BY <1>1, <3>1, <3>3, QueueRange
  <2>. HIDE DEF m
  <2>2. \A x : x \in InFlight' <=> x \in InFlight \cup {m}
    BY <2>1, InFlightIs
  <2>. QED  BY <2>2
<1>8. /\ m.state = View'[p].state
      /\ m.timestamp >= View'[p].timestamp
  BY <1>2, <1>4 DEF Message
<1>9. Abstract!Decide(p)
  <2>. HIDE DEF m, b
  <2>. QED  BY <1>4, <1>5, <1>6, <1>7, <1>8 DEF Abstract!Decide
<1>. QED  BY <1>9 DEF Abstract!Next

-----------------------------------------------------------------------------
(* Calls.                                                                  *)

(* check admits, starts to probe along OPEN -> HALF_OPEN, or denies.       *)
LEMMA CheckRefines ==
    ASSUME TypeOK, NEW p \in Pod, Check(p)
    PROVE  Abstract!Next
<1>1. GetBreaker(p) \in BreakerData
  BY EntryType
<1>2. CASE Admit(p)
  BY <1>1, <1>2, KeepRefines DEF Admit
<1>3. CASE StartProbing(p)
  <2>1. /\ GetBreaker(p).state = "OPEN"
        /\ CooledDown(p)
        /\ Transition(p, "HALF_OPEN")
    BY <1>3 DEF StartProbing
  <2>2. <<GetBreaker(p).state, "HALF_OPEN">> \in Abstract!Edge
    BY <2>1 DEF Abstract!Edge
  <2>. QED  BY <2>1, <2>2, TransitionRefines DEF State
<1>4. CASE Deny(p)
  BY <1>1, <1>4, KeepRefines DEF Deny
<1>. QED  BY <1>2, <1>3, <1>4 DEF Check

(* A result is counted, or ends the state along an edge out of CLOSED or   *)
(* HALF_OPEN.                                                              *)
LEMMA EndRefines ==
    ASSUME TypeOK, NEW p \in Pod, End(p)
    PROVE  Abstract!Next \/ UNCHANGED Abstract!vars
<1>. DEFINE b == GetBreaker(p)
            won == [b EXCEPT !.successes = @ + 1]
            lost == [b EXCEPT !.failures = @ + 1]
            cleared == [b EXCEPT !.failures = 0]
<1>1. b \in BreakerData
  BY EntryType
<1>2. /\ won \in BreakerData /\ Message(won) = Message(b)
      /\ lost \in BreakerData /\ Message(lost) = Message(b)
      /\ cleared \in BreakerData /\ Message(cleared) = Message(b)
  BY <1>1 DEF BreakerData, Message
<1>3. ASSUME NEW c \in {b, won, lost, cleared}, Keep(p, c)
      PROVE  Abstract!Next
  BY <1>1, <1>2, <1>3, KeepRefines
<1>4. ASSUME NEW s \in {"CLOSED", "OPEN"}, Transition(p, s),
             \/ b.state = "HALF_OPEN"
             \/ b.state = "CLOSED" /\ s = "OPEN"
      PROVE  Abstract!Next
  <2>1. s \in State /\ b.state # "OPEN"
    BY <1>4 DEF State
  <2>2. <<b.state, s>> \in Abstract!Edge
    BY <1>4 DEF Abstract!Edge
  <2>. QED  BY <1>4, <2>1, <2>2, TransitionRefines
<1>5. PICK age \in Age : \/ RecordSuccess(p, age)
                         \/ RecordFailure(p, age)
                         \/ EndUnrecorded(p, age)
  BY DEF End
<1>6. CASE RecordSuccess(p, age)
  <2>1. \/ \E c \in {b, won, lost, cleared} : Keep(p, c)
        \/ b.state = "HALF_OPEN" /\ Transition(p, Verdict(won))
    BY <1>6 DEF RecordSuccess
  <2>2. Verdict(won) \in {"CLOSED", "OPEN"}
    BY DEF Verdict
  <2>. QED  BY <1>3, <1>4, <2>1, <2>2
<1>7. CASE RecordFailure(p, age)
  <2>1. \/ \E c \in {b, won, lost, cleared} : Keep(p, c)
        \/ /\ b.state = "HALF_OPEN" \/ b.state = "CLOSED"
           /\ Transition(p, "OPEN")
    BY <1>7 DEF RecordFailure
  <2>. QED  BY <1>3, <1>4, <2>1
<1>8. CASE EndUnrecorded(p, age)
  BY <1>8 DEF EndUnrecorded, redis, Abstract!vars, View, InFlight
<1>. QED  BY <1>5, <1>6, <1>7, <1>8

(* The listener learns a later version, or keeps its own.                  *)
LEMMA HandleRefines ==
    ASSUME TypeOK, NEW p \in Pod, HandleRemoteUpdate(p)
    PROVE  Abstract!Next
<1>. DEFINE m == Head(inbox[p])
            b == GetBreaker(p)
<1>1. /\ inbox[p] # <<>>
      /\ inbox' = [inbox EXCEPT ![p] = Tail(@)]
      /\ outbox' = outbox
  BY DEF HandleRemoteUpdate
<1>2. InFlight' \subseteq InFlight
  <2>1. \A q \in Pod : inbox'[q] = IF q = p THEN Tail(inbox[q]) ELSE inbox[q]
    BY <1>1 DEF TypeOK
  <2>. QED  BY <1>1, <2>1, QueuesInFlight, InFlightShrinks
<1>3. m \in InFlight /\ m \in BreakerMessage /\ b \in BreakerData
  BY <1>1, QueuesInFlight, EntryType
<1>. HIDE DEF m, b
<1>4. CASE Supersedes(m, b) /\ breakers' = SetBreaker(p, Adopted(p, m))
  <2>1. Adopted(p, m) \in BreakerData
    BY <1>3 DEF Adopted, BreakerMessage, BreakerData
  <2>2. Message(Adopted(p, m)) = m
    BY <1>3 DEF Adopted, Message, BreakerMessage
  <2>3. Abstract!OnlyAt(p) /\ View'[p] = m
    BY <1>4, <2>1, <2>2, ViewAfter
  <2>4. p \in DOMAIN View => m.timestamp > View[p].timestamp
    BY <1>4, ViewIs DEF Supersedes, b
  <2>5. Abstract!Learn(p)
    BY <1>2, <1>3, <2>3, <2>4 DEF Abstract!Learn
  <2>. QED  BY <2>5 DEF Abstract!Next
<1>5. CASE breakers' = SetBreaker(p, b)
  <2>1. Abstract!Join(p) \/ Abstract!Lose
    BY <1>2, <1>3, <1>5, SameVersion DEF b
  <2>. QED  BY <2>1 DEF Abstract!Next
<1>. QED  BY <1>4, <1>5 DEF HandleRemoteUpdate, m, b

-----------------------------------------------------------------------------
(* Redis, connections and restarts.                                        *)

(* A command that runs delivers what was already in flight.                *)
LEMMA PublishRefines ==
    ASSUME TypeOK, NEW p \in Pod, outbox[p] # <<>>, Publish(Head(outbox[p])),
           \A q \in Pod : outbox'[q] = outbox[q] \/ outbox'[q] = Tail(outbox[q])
    PROVE  Abstract!Next
<1>. DEFINE m == Head(outbox[p])
<1>1. m \in InFlight /\ m \in BreakerMessage
  BY QueuesInFlight
<1>2. \A q \in Pod : inbox'[q] = inbox[q] \/ inbox'[q] = Append(inbox[q], m)
  BY <1>1, PublishDelivers
<1>3. View' = View
  BY DEF Publish, local, View
<1>. HIDE DEF m
<1>4. \A q \in Pod : /\ Range(inbox'[q]) \subseteq InFlight
                     /\ Range(outbox'[q]) \subseteq InFlight
  <2>. TAKE q \in Pod
  <2>1. Range(inbox'[q]) \subseteq InFlight
    <3>1. Range(inbox[q]) \subseteq InFlight /\ inbox[q] \in Seq(BreakerMessage)
      BY QueuesInFlight
    <3>2. Range(Append(inbox[q], m)) = Range(inbox[q]) \cup {m}
      BY <3>1, QueueRange
    <3>3. m \in InFlight
      BY <1>1
    <3>4. CASE inbox'[q] = inbox[q]
      BY <3>1, <3>4
    <3>5. CASE inbox'[q] = Append(inbox[q], m)
      BY <3>1, <3>2, <3>3, <3>5
    <3>. QED  BY <1>2, <3>4, <3>5
  <2>2. outbox[q] = <<>> => Range(Tail(outbox[q])) \subseteq InFlight
    BY EmptyRange
  <2>3. Range(outbox'[q]) \subseteq InFlight
    BY <2>2, QueuesInFlight
  <2>. QED  BY <2>1, <2>3
<1>5. Abstract!Lose
  BY <1>3, <1>4, InFlightShrinks DEF Abstract!Lose
<1>. QED  BY <1>5 DEF Abstract!Next

(* Every step of the environment loses or repeats announcements, or makes  *)
(* a pod forget.                                                           *)
LEMMA EnvironmentRefines ==
    ASSUME TypeOK, NEW p \in Pod, Environment(p)
    PROVE  Abstract!Next \/ UNCHANGED Abstract!vars
<1>0. outbox \in [Pod -> Seq(BreakerMessage)] /\ inbox \in [Pod -> Seq(BreakerMessage)]
  BY DEF TypeOK
<1>1. CASE ExecPublish(p)
  <2>1. \A q \in Pod : outbox'[q] = outbox[q] \/ outbox'[q] = Tail(outbox[q])
    BY <1>0, <1>1 DEF ExecPublish
  <2>. QED  BY <1>1, <2>1, PublishRefines DEF ExecPublish
<1>2. CASE RepeatPublish(p)
  BY <1>2, PublishRefines DEF RepeatPublish
<1>3. CASE DropPublish(p)
  <2>1. /\ outbox[p] # <<>>
        /\ View' = View
        /\ inbox' = inbox
        /\ \A q \in Pod : outbox'[q] = IF q = p THEN Tail(outbox[q]) ELSE outbox[q]
    BY <1>0, <1>3 DEF DropPublish, local, redis, View
  <2>2. Abstract!Lose
    BY <2>1, QueuesInFlight, InFlightShrinks DEF Abstract!Lose
  <2>. QED  BY <2>2 DEF Abstract!Next
<1>4. CASE Subscribe(p)
  BY <1>4 DEF Subscribe, local, Abstract!vars, View, InFlight
<1>5. CASE Disconnect(p)
  <2>1. /\ View' = View
        /\ outbox' = outbox
        /\ \A q \in Pod : inbox'[q] = IF q = p THEN <<>> ELSE inbox[q]
    BY <1>0, <1>5 DEF Disconnect, local, View
  <2>2. Abstract!Lose
    BY <2>1, QueuesInFlight, EmptyRange, InFlightShrinks DEF Abstract!Lose
  <2>. QED  BY <2>2 DEF Abstract!Next
<1>6. CASE Restart(p)
  <2>1. /\ \A q \in Pod : outbox'[q] = IF q = p THEN <<>> ELSE outbox[q]
        /\ \A q \in Pod : inbox'[q] = IF q = p THEN <<>> ELSE inbox[q]
        /\ breakers' = [q \in DOMAIN breakers \ {p} |-> breakers[q]]
    BY <1>0, <1>6 DEF Restart
  <2>2. InFlight' \subseteq InFlight
    BY <2>1, QueuesInFlight, EmptyRange, InFlightShrinks
  <2>3. /\ DOMAIN View' = DOMAIN View \ {p}
        /\ \A q \in DOMAIN View' : View'[q] = View[q]
    BY <2>1 DEF View
  <2>4. Abstract!Forget(p)
    BY <2>2, <2>3 DEF Abstract!Forget
  <2>. QED  BY <2>4 DEF Abstract!Next
<1>. QED  BY <1>1, <1>2, <1>3, <1>4, <1>5, <1>6 DEF Environment

-----------------------------------------------------------------------------
(* The theorem.                                                            *)

(* The initial states correspond.                                          *)
LEMMA InitRefines == Init => Abstract!Init
<1>. SUFFICES ASSUME Init PROVE Abstract!Init
  OBVIOUS
<1>1. DOMAIN View = {}
  BY DEF Init, View
<1>2. \A m : m \notin InFlight
  BY EmptyRange, InFlightIs DEF Init
<1>. QED  BY <1>1, <1>2 DEF Abstract!Init

(* The steps correspond.                                                   *)
LEMMA NextRefines ==
    ASSUME TypeOK, [Next]_vars
    PROVE  [Abstract!Next]_(Abstract!vars)
<1>1. ASSUME NEW p \in Pod, Call(p)
      PROVE  Abstract!Next \/ UNCHANGED Abstract!vars
  BY <1>1, CheckRefines, EndRefines, HandleRefines DEF Call
<1>2. CASE Tick
  BY <1>2 DEF Tick, local, redis, Abstract!vars, View, InFlight
<1>3. CASE UNCHANGED vars
  BY <1>3 DEF vars, Abstract!vars, View, InFlight
<1>. QED  BY <1>1, <1>2, <1>3, EnvironmentRefines DEF Next

(* The breaker with its requests, counters, queues and faults implements   *)
(* the replicated breaker.                                                 *)
THEOREM Refinement == Spec => ImplementsReplicatedBreaker
<1>1. Init => Abstract!Init
  BY InitRefines
<1>2. TypeOK /\ [Next]_vars => [Abstract!Next]_(Abstract!vars)
  BY NextRefines
<1>. QED  BY <1>1, <1>2, TypeCorrect, PTL
          DEF Spec, ImplementsReplicatedBreaker, Abstract!Spec

(* No pod leaves OPEN while all are OPEN, nothing newer is on its way and  *)
(* the cooldown lasts. That no such change is announced either follows     *)
(* from the refinement: only a decision puts anything new on the wire.     *)
LEMMA OpenSinceStays ==
    ASSUME TypeOK, CountersBelowThresholds, [Next]_vars,
           NEW s \in Nat, OpenSince(s), DOMAIN breakers' = Pod,
           \A p \in Pod : Clock(p)' <= s + CooldownMs
    PROVE  OpenSince(s)'
<1>0. TypeOK'
  BY NextType
<1>1. ASSUME NEW p \in Pod
      PROVE  /\ breakers'[p].state = "OPEN"
             /\ breakers'[p].lastTransition >= s
  <2>0. /\ p \in DOMAIN breakers \cap DOMAIN breakers'
        /\ breakers[p].state = "OPEN"
        /\ breakers[p].lastTransition >= s
        /\ breakers[p].lastTransition \in Nat
    BY DEF OpenSince, TypeOK, BreakerData
  <2>1. CASE breakers'[p] = breakers[p]
    BY <2>0, <2>1
  <2>2. CASE breakers'[p] # breakers[p]
    <3>1. ~ (Clock(p) - breakers[p].lastTransition > CooldownMs)
      <4>1. Clock(p) <= Clock(p)' /\ Clock(p) \in Nat /\ Clock(p)' \in Nat
        BY <1>0, ClockAdvances
      <4>2. Clock(p)' <= s + CooldownMs /\ CooldownMs \in Nat
        BY ThresholdAssumption
      <4>. QED  BY <2>0, <4>1, <4>2
    <3>2. /\ inbox[p] # <<>>
          /\ Head(inbox[p]).timestamp > breakers[p].lastTransition
          /\ Message(breakers'[p]) = Head(inbox[p])
      BY <2>0, <2>2, <3>1, OpenIsHeld
    <3>3. Head(inbox[p]) \in InFlight /\ Head(inbox[p]) \in BreakerMessage
      BY <3>2, QueuesInFlight
    <3>4. Head(inbox[p]).timestamp \in Nat
      BY <3>3 DEF BreakerMessage
    <3>5. Head(inbox[p]).state = "OPEN"
      BY <2>0, <3>2, <3>3, <3>4 DEF OpenSince
    <3>. QED  BY <2>0, <3>2, <3>4, <3>5 DEF Message
  <2>. QED  BY <2>1, <2>2
<1>2. ASSUME NEW m \in InFlight', m.state # "OPEN"
      PROVE  m \in InFlight
  <2>1. CASE InFlight' \subseteq InFlight
    BY <2>1
  <2>2. ASSUME NEW p \in Pod, Abstract!Decide(p)
        PROVE  m \in InFlight
    <3>1. p \in DOMAIN View' /\ View'[p].state = "OPEN"
      BY <1>1 DEF View, Message
    <3>. QED  BY <1>2, <2>2, <3>1 DEF Abstract!Decide
  <2>3. InFlight' \subseteq InFlight \/ \E p \in Pod : Abstract!Decide(p)
    BY NextRefines DEF Abstract!Next, Abstract!vars, Abstract!Join,
       Abstract!Learn, Abstract!Forget, Abstract!Lose
  <2>. QED  BY <2>1, <2>2, <2>3
<1>. QED  BY <1>1, <1>2 DEF OpenSince

(* When the whole cluster is OPEN and nothing newer is on its way, it stays*)
(* OPEN through late results and messages of earlier episodes, until the   *)
(* cooldown is over by the clock of one of the pods or one restarts.       *)
THEOREM ClusterHolds == Spec => ClusterStaysOpen
<1>. DEFINE Versions == {breakers[q].lastTransition : q \in DOMAIN breakers}
<1>1. ASSUME TypeOK, CountersBelowThresholds, [Next]_vars,
             NEW s \in Versions, OpenSince(s), DOMAIN breakers' = Pod,
             \A p \in Pod : Clock(p)' <= s + CooldownMs
      PROVE  OpenSince(s)'
  <2>1. s \in Nat
    BY <1>1 DEF TypeOK, BreakerData
  <2>. QED  BY <1>1, <2>1, OpenSinceStays
<1>2. TypeOK /\ CountersBelowThresholds /\ [Next]_vars =>
          [\A s \in Versions :
               /\ OpenSince(s)
               /\ \A p \in Pod : Clock(p)' <= s + CooldownMs
               /\ DOMAIN breakers' = Pod
               => OpenSince(s)']_vars
  BY <1>1
<1>. QED  BY <1>2, TypeCorrect, CountersAreBelow, PTL DEF Spec, ClusterStaysOpen

-----------------------------------------------------------------------------
(* Agreement. With clocks that agree and publishes that reach Redis, every *)
(* message on its way to a pod has been published, every entry that is not *)
(* CLOSED is announced or about to be, and a pod that missed nothing has   *)
(* the newest messages in its inbox or behind it.                          *)

HeardIn(m, messages) ==
    m \in messages \/ \E n \in messages : m.timestamp < n.timestamp

OneTime == \A m, n \in newest : m.timestamp = n.timestamp

InboxHeard == \A p \in Pod : \A m \in Range(inbox[p]) : HeardIn(m, newest)

Announcing(b, queue) ==
    \E m \in Range(queue) : m.state = b.state /\ m.timestamp >= b.lastTransition

EntriesAnnounced ==
    \A p \in DOMAIN breakers :
        breakers[p].state # "CLOSED" =>
            Announcing(breakers[p], outbox[p]) \/ HeardIn(Message(breakers[p]), newest)

NewestReaches ==
    \A p \in Pod \ missed : \A m \in newest :
        \/ m \in Range(inbox[p])
        \/ p \in DOMAIN breakers /\ breakers[p].lastTransition >= m.timestamp

Told == OneTime /\ InboxHeard /\ EntriesAnnounced /\ NewestReaches

(* A message in a queue is the next one or one of the rest.                *)
LEMMA HeadOrTail ==
    ASSUME NEW q \in Seq(BreakerMessage), q # <<>>, NEW x \in Range(q)
    PROVE  x = Head(q) \/ x \in Range(Tail(q))
<1>1. /\ DOMAIN Tail(q) = 1 .. Len(q) - 1 /\ DOMAIN q = 1 .. Len(q)
      /\ Head(q) = q[1]
      /\ \A i \in 1 .. Len(q) - 1 : Tail(q)[i] = q[i + 1]
  OBVIOUS
<1>2. PICK i \in 1 .. Len(q) : x = q[i]
  BY <1>1 DEF Range
<1>3. CASE i # 1
  <2>1. i - 1 \in 1 .. Len(q) - 1 /\ Tail(q)[i - 1] = q[i]
    BY <1>1, <1>3
  <2>. QED  BY <1>1, <1>2, <2>1 DEF Range
<1>. QED  BY <1>1, <1>2, <1>3

(* Agreement follows: a settled pod has no message to come or to send.     *)
LEMMA ToldAgree ==
    ASSUME TypeOK, Told
    PROVE  Agreement
<1>. SUFFICES ASSUME NEW p \in Pod, NEW m \in newest, Settled(p),
                     ~ (/\ breakers[p].state = "CLOSED"
                        /\ breakers[p].lastTransition >= m.timestamp)
              PROVE  Message(breakers[p]) \in newest
  BY DEF Agreement
<1>1. /\ p \in DOMAIN breakers /\ p \notin missed
      /\ Range(outbox[p]) = {} /\ Range(inbox[p]) = {}
  BY EmptyRange DEF Settled
<1>2. breakers[p].lastTransition >= m.timestamp
  BY <1>1 DEF Told, NewestReaches
<1>3. HeardIn(Message(breakers[p]), newest)
  BY <1>1, <1>2 DEF Told, EntriesAnnounced, Announcing
<1>4. \A n \in newest : /\ n.timestamp = m.timestamp
                        /\ n.timestamp \in Nat
                        /\ breakers[p].lastTransition \in Nat
  BY <1>1 DEF Told, OneTime, TypeOK, BreakerMessage, BreakerData
<1>. QED  BY <1>2, <1>3, <1>4 DEF HeardIn, Message

(* The kinds of calls, as far as versions and queues go.                   *)
LEMMA CallKinds ==
    ASSUME TypeOK, NEW p \in Pod, Call(p)
    PROVE  \/ UNCHANGED <<breakers, outbox, redis>>
           \/ \E b \in BreakerData : Keep(p, b) /\ Message(b) = Message(GetBreaker(p))
           \/ \E s \in State : Transition(p, s)
           \/ HandleRemoteUpdate(p)
<1>. DEFINE b == GetBreaker(p)
            won == [b EXCEPT !.successes = @ + 1]
            lost == [b EXCEPT !.failures = @ + 1]
            cleared == [b EXCEPT !.failures = 0]
<1>1. b \in BreakerData
  BY EntryType
<1>2. /\ \A c \in {b, won, lost, cleared} :
             c \in BreakerData /\ Message(c) = Message(b)
      /\ Verdict(won) \in State /\ {"OPEN", "HALF_OPEN"} \subseteq State
  BY <1>1 DEF BreakerData, Message, Verdict, State
<1>3. CASE Check(p)
  BY <1>2, <1>3 DEF Check, Admit, StartProbing, Deny
<1>4. CASE End(p)
  <2>1. ASSUME NEW age \in Age, RecordSuccess(p, age)
        PROVE  \/ \E c \in {b, won, cleared} : Keep(p, c)
               \/ Transition(p, Verdict(won))
    BY <2>1 DEF RecordSuccess
  <2>2. ASSUME NEW age \in Age, RecordFailure(p, age)
        PROVE  (\E c \in {b, lost} : Keep(p, c)) \/ Transition(p, "OPEN")
    BY <2>2 DEF RecordFailure
  <2>3. ASSUME NEW age \in Age, EndUnrecorded(p, age)
        PROVE  UNCHANGED <<breakers, outbox, redis>>
    BY <2>3 DEF EndUnrecorded
  <2>. HIDE DEF won, lost, cleared
  <2>. QED  BY <1>2, <1>4, <2>1, <2>2, <2>3 DEF End
<1>. QED  BY <1>3, <1>4 DEF Call

(* A call that leaves the queues and the version of its pod as they are,   *)
(* or makes a CLOSED entry where there was none.                           *)
LEMMA KeepTold ==
    ASSUME TypeOK, NothingFromTheFuture, Told, NEW p \in Pod, Call(p),
           NEW b \in BreakerData, Keep(p, b), Message(b) = Message(GetBreaker(p))
    PROVE  Told'
<1>1. /\ breakers' = SetBreaker(p, b)
      /\ outbox' = outbox /\ inbox' = inbox /\ newest' = newest /\ missed' = missed
  BY DEF Keep, redis
<1>2. /\ DOMAIN breakers' = DOMAIN breakers \cup {p}
      /\ breakers'[p] = b
      /\ \A q \in DOMAIN breakers : q # p => breakers'[q] = breakers[q]
  BY <1>1, EntryReplaced
<1>3. b.state = GetBreaker(p).state /\ b.lastTransition = GetBreaker(p).lastTransition
  BY DEF Message
<1>4. CASE p \in DOMAIN breakers
  <2>1. GetBreaker(p) = breakers[p]
    BY <1>4 DEF GetBreaker
  <2>2. \A q \in DOMAIN breakers' :
            /\ q \in DOMAIN breakers
            /\ breakers'[q].state = breakers[q].state
            /\ breakers'[q].lastTransition = breakers[q].lastTransition
    BY <1>2, <1>3, <1>4, <2>1
  <2>3. EntriesAnnounced'
    BY <1>1, <2>2 DEF Told, EntriesAnnounced, Announcing, Message
  <2>. QED  BY <1>1, <1>2, <2>2, <2>3 DEF Told, OneTime, InboxHeard, NewestReaches
<1>5. CASE p \notin DOMAIN breakers
  <2>1. b.state = "CLOSED"
    BY <1>3, <1>5 DEF GetBreaker, Fresh
  <2>2. \A q \in DOMAIN breakers : breakers'[q] = breakers[q]
    BY <1>2, <1>5
  <2>3. EntriesAnnounced'
    BY <1>1, <1>2, <2>1, <2>2 DEF Told, EntriesAnnounced
  <2>. QED  BY <1>1, <1>2, <2>2, <2>3 DEF Told, OneTime, InboxHeard, NewestReaches
<1>. QED  BY <1>4, <1>5

(* A transition queues the announcement of the version it makes.           *)
LEMMA TransitionTold ==
    ASSUME TypeOK, NothingFromTheFuture, Told, NEW p \in Pod, Call(p),
           NEW s \in State, Transition(p, s)
    PROVE  Told'
<1>. DEFINE b == [state |-> s, lastTransition |-> Clock(p),
                  failures |-> 0, successes |-> 0]
<1>1. PICK elapsed \in 0..MaxStall :
          /\ breakers' = SetBreaker(p, b)
          /\ outbox' = [outbox EXCEPT ![p] =
                            Append(@, [state |-> s,
                                       timestamp |-> Clock(p) + elapsed])]
          /\ inbox' = inbox /\ newest' = newest /\ missed' = missed
  BY DEF Transition, redis
<1>. DEFINE m == [state |-> s, timestamp |-> Clock(p) + elapsed]
<1>2. /\ DOMAIN breakers' = DOMAIN breakers \cup {p}
      /\ breakers'[p] = b
      /\ \A q \in DOMAIN breakers : q # p => breakers'[q] = breakers[q]
  <2>1. b \in BreakerData
    BY EntryType DEF BreakerData
  <2>. HIDE DEF b
  <2>. QED  BY <1>1, <2>1, EntryReplaced
<1>3. /\ m.state = b.state /\ m.timestamp >= b.lastTransition
  BY EntryType
<1>. HIDE DEF m
<1>4. m \in Range(outbox'[p]) /\ \A q \in Pod : q # p => outbox'[q] = outbox[q]
  <2>1. outbox \in [Pod -> Seq(BreakerMessage)]
    BY DEF TypeOK
  <2>2. outbox'[p] = Append(outbox[p], m) /\ \A q \in Pod : q # p => outbox'[q] = outbox[q]
    BY <1>1, <2>1 DEF m
  <2>. QED  BY <2>1, <2>2, QueueRange
<1>. HIDE DEF b
<1>5. EntriesAnnounced'
  <2>1. ASSUME NEW q \in DOMAIN breakers', breakers'[q].state # "CLOSED"
        PROVE  \/ Announcing(breakers'[q], outbox'[q])
               \/ HeardIn(Message(breakers'[q]), newest')
    <3>1. CASE q = p
      BY <1>2, <1>3, <1>4, <3>1 DEF Announcing
    <3>2. CASE q # p
      <4>1. q \in DOMAIN breakers /\ q \in Pod /\ breakers'[q] = breakers[q]
        BY <1>2, <3>2 DEF TypeOK
      <4>. QED  BY <1>1, <1>4, <2>1, <3>2, <4>1 DEF Told, EntriesAnnounced
    <3>. QED  BY <3>1, <3>2
  <2>. QED  BY <2>1 DEF EntriesAnnounced
<1>6. NewestReaches'
  <2>1. ASSUME NEW q \in Pod \ missed, NEW n \in newest
        PROVE  \/ n \in Range(inbox[q])
               \/ q \in DOMAIN breakers' /\ breakers'[q].lastTransition >= n.timestamp
    <3>1. CASE n \in Range(inbox[q])
      BY <3>1
    <3>2. CASE q \in DOMAIN breakers /\ breakers[q].lastTransition >= n.timestamp
      <4>1. q \in DOMAIN breakers' /\ breakers'[q].lastTransition >= breakers[q].lastTransition
        BY <1>2, <3>2, CallStamps, StampIsBetween
      <4>2. /\ n.timestamp \in Nat /\ breakers[q].lastTransition \in Nat
            /\ breakers'[q].lastTransition \in Nat
        <5>1. b.lastTransition \in Nat
          BY EntryType DEF b
        <5>. QED  BY <1>2, <3>2, <5>1 DEF TypeOK, BreakerMessage, BreakerData
      <4>. QED  BY <3>2, <4>1, <4>2
    <3>. QED  BY <2>1, <3>1, <3>2 DEF Told, NewestReaches
  <2>. QED  BY <1>1, <2>1 DEF NewestReaches
<1>. QED  BY <1>1, <1>5, <1>6 DEF Told, OneTime, InboxHeard

(* A handled message is behind its pod.                                    *)
LEMMA HandleTold ==
    ASSUME TypeOK, NothingFromTheFuture, Told, NEW p \in Pod, HandleRemoteUpdate(p)
    PROVE  Told'
<1>. DEFINE m == Head(inbox[p])
            b == GetBreaker(p)
            c == breakers'[p]
<1>1. /\ inbox[p] # <<>>
      /\ inbox' = [inbox EXCEPT ![p] = Tail(@)]
      /\ outbox' = outbox /\ newest' = newest /\ missed' = missed
  BY DEF HandleRemoteUpdate
<1>2. /\ m \in BreakerMessage /\ m \in Range(inbox[p])
      /\ b \in BreakerData
      /\ inbox[p] \in Seq(BreakerMessage)
      /\ m.timestamp \in Nat /\ b.lastTransition \in Nat
  <2>1. inbox[p] \in Seq(BreakerMessage)
    BY DEF TypeOK
  <2>2. m \in BreakerMessage
    BY <1>1, <2>1
  <2>. QED  BY <1>1, <2>1, <2>2, QueueRange, EntryType DEF BreakerMessage, BreakerData
<1>3. \A x \in Range(inbox[p]) : x = m \/ x \in Range(Tail(inbox[p]))
  BY <1>1, <1>2, HeadOrTail
<1>4. \A q \in Pod : /\ Range(inbox'[q]) \subseteq Range(inbox[q])
                     /\ q # p => inbox'[q] = inbox[q]
                     /\ q = p => inbox'[q] = Tail(inbox[p])
  <2>1. \A q \in Pod : inbox'[q] = IF q = p THEN Tail(inbox[q]) ELSE inbox[q]
    BY <1>1 DEF TypeOK
  <2>. QED  BY <1>1, <1>2, <2>1, QueueRange
<1>5. /\ DOMAIN breakers' = DOMAIN breakers \cup {p}
      /\ \A q \in DOMAIN breakers : q # p => breakers'[q] = breakers[q]
      /\ c.lastTransition \in Nat
      /\ c.lastTransition >= m.timestamp /\ c.lastTransition >= b.lastTransition
      /\ \/ Message(c) = m
         \/ c = b
  <2>1. CASE Supersedes(m, b) /\ breakers' = SetBreaker(p, Adopted(p, m))
    <3>1. Adopted(p, m) \in BreakerData /\ Adopted(p, m).lastTransition = m.timestamp
          /\ Message(Adopted(p, m)) = m
      BY <1>2 DEF Adopted, BreakerMessage, BreakerData, Message
    <3>2. c = Adopted(p, m) /\ DOMAIN breakers' = DOMAIN breakers \cup {p}
          /\ \A q \in DOMAIN breakers : q # p => breakers'[q] = breakers[q]
      BY <2>1, <3>1, EntryReplaced
    <3>. QED  BY <1>2, <2>1, <3>1, <3>2 DEF Supersedes
  <2>2. CASE ~ Supersedes(m, b) /\ breakers' = SetBreaker(p, b)
    <3>1. c = b /\ DOMAIN breakers' = DOMAIN breakers \cup {p}
          /\ \A q \in DOMAIN breakers : q # p => breakers'[q] = breakers[q]
      BY <1>2, <2>2, EntryReplaced
    <3>. QED  BY <1>2, <2>2, <3>1 DEF Supersedes
  <2>. QED  BY <2>1, <2>2 DEF HandleRemoteUpdate
<1>6. EntriesAnnounced'
  <2>1. ASSUME NEW q \in DOMAIN breakers', breakers'[q].state # "CLOSED"
        PROVE  \/ Announcing(breakers'[q], outbox[q])
               \/ HeardIn(Message(breakers'[q]), newest)
    <3>1. CASE q # p
      BY <1>5, <2>1, <3>1 DEF Told, EntriesAnnounced
    <3>2. CASE q = p /\ Message(c) = m
      BY <1>2, <3>2 DEF Told, InboxHeard
    <3>3. CASE q = p /\ c = b
      <4>1. p \in DOMAIN breakers /\ b = breakers[p]
        BY <2>1, <3>3 DEF GetBreaker, Fresh
      <4>. QED  BY <2>1, <3>3, <4>1 DEF Told, EntriesAnnounced
    <3>. QED  BY <1>5, <3>1, <3>2, <3>3
  <2>. QED  BY <1>1, <2>1 DEF EntriesAnnounced
<1>7. NewestReaches'
  <2>1. ASSUME NEW q \in Pod \ missed, NEW n \in newest
        PROVE  \/ n \in Range(inbox'[q])
               \/ q \in DOMAIN breakers' /\ breakers'[q].lastTransition >= n.timestamp
    <3>0. \/ n \in Range(inbox[q])
          \/ q \in DOMAIN breakers /\ breakers[q].lastTransition >= n.timestamp
      BY <2>1 DEF Told, NewestReaches
    <3>1. CASE q # p
      BY <1>4, <1>5, <3>0, <3>1
    <3>2. CASE q = p /\ n \in Range(inbox[p])
      BY <1>3, <1>4, <1>5, <3>2
    <3>3. CASE q = p /\ q \in DOMAIN breakers /\ breakers[q].lastTransition >= n.timestamp
      <4>1. b = breakers[p] /\ n.timestamp \in Nat
        BY <3>3 DEF GetBreaker, TypeOK, BreakerMessage
      <4>. QED  BY <1>2, <1>5, <3>3, <4>1
    <3>. QED  BY <3>0, <3>1, <3>2, <3>3
  <2>. QED  BY <1>1, <2>1 DEF NewestReaches
<1>8. InboxHeard'
  BY <1>1, <1>4 DEF Told, InboxHeard
<1>. QED  BY <1>1, <1>6, <1>7, <1>8 DEF Told, OneTime

(* A heard message is no younger than some message of the set.             *)
LEMMA HeardBy ==
    ASSUME NEW M \in SUBSET BreakerMessage, NEW x \in BreakerMessage, HeardIn(x, M)
    PROVE  \E n \in M : x.timestamp <= n.timestamp
<1>1. \A y \in BreakerMessage : y.timestamp \in Nat
  BY DEF BreakerMessage
<1>2. CASE x \in M
  <2>1. x.timestamp <= x.timestamp
    BY <1>1
  <2>. QED  BY <1>2, <2>1
<1>3. CASE \E n \in M : x.timestamp < n.timestamp
  <2>1. PICK n \in M : x.timestamp < n.timestamp
    BY <1>3
  <2>2. x.timestamp <= n.timestamp
    BY <1>1, <2>1
  <2>. QED  BY <2>2
<1>. QED  BY <1>2, <1>3 DEF HeardIn

(* A publication is heard, and takes nothing away from what was.           *)
LEMMA PublishHears ==
    ASSUME TypeOK, OneTime, NEW m \in BreakerMessage, Publish(m)
    PROVE  /\ OneTime'
           /\ HeardIn(m, newest')
           /\ \A x \in BreakerMessage : HeardIn(x, newest) => HeardIn(x, newest')
           /\ \A q \in Pod \ missed' : \A n \in newest' :
                  \/ n = m /\ q \in subscribed
                  \/ n \in newest /\ q \notin missed
<1>1. /\ newest' = IF Newer(m, newest) THEN {m}
                   ELSE IF Tied(m, newest) THEN newest \cup {m} ELSE newest
      /\ missed' = IF Newer(m, newest) THEN Pod \ subscribed
                   ELSE IF Tied(m, newest) THEN missed \cup (Pod \ subscribed)
                   ELSE missed
  BY DEF Publish
<1>2. m.timestamp \in Nat /\ \A x \in BreakerMessage : x.timestamp \in Nat
  BY DEF BreakerMessage
<1>3. newest \subseteq BreakerMessage
  BY DEF TypeOK
<1>4. CASE Newer(m, newest)
  <2>1. newest' = {m} /\ missed' = Pod \ subscribed
    BY <1>1, <1>4
  <2>2. \A n \in newest : n.timestamp < m.timestamp
    BY <1>2, <1>3, <1>4 DEF Newer, Timestamp
  <2>3. ASSUME NEW x \in BreakerMessage, HeardIn(x, newest)
        PROVE  x.timestamp < m.timestamp
    <3>1. PICK n \in newest : x.timestamp <= n.timestamp
      BY <1>3, <2>3, HeardBy
    <3>2. n.timestamp < m.timestamp /\ n.timestamp \in Nat /\ x.timestamp \in Nat
      BY <1>2, <1>3, <2>2
    <3>. QED  BY <1>2, <3>1, <3>2
  <2>4. OneTime'
    BY <2>1 DEF OneTime
  <2>5. HeardIn(m, newest') /\ \A x \in BreakerMessage : HeardIn(x, newest) => HeardIn(x, newest')
    BY <2>1, <2>3 DEF HeardIn
  <2>6. \A q \in Pod \ missed' : \A n \in newest' : n = m /\ q \in subscribed
    BY <2>1
  <2>7. \A q \in Pod \ missed' : \A n \in newest' :
            \/ n = m /\ q \in subscribed
            \/ n \in newest /\ q \notin missed
    <3>. TAKE q \in Pod \ missed'
    <3>. TAKE n \in newest'
    <3>. QED  BY <2>6
  <2>. QED  BY <2>4, <2>5, <2>7
<1>5. CASE ~ Newer(m, newest) /\ Tied(m, newest)
  <2>1. newest' = newest \cup {m} /\ missed' = missed \cup (Pod \ subscribed)
    BY <1>1, <1>5
  <2>2. \A n \in newest : n.timestamp = m.timestamp
    BY <1>5 DEF Tied, Timestamp, OneTime
  <2>. QED  BY <2>1, <2>2 DEF OneTime, HeardIn
<1>6. CASE ~ Newer(m, newest) /\ ~ Tied(m, newest)
  <2>1. newest' = newest /\ missed' = missed
    BY <1>1, <1>6
  <2>2. \E n \in newest : m.timestamp < n.timestamp
    BY <1>2, <1>3, <1>6 DEF Newer, Tied, Timestamp
  <2>. QED  BY <2>1, <2>2 DEF OneTime, HeardIn
<1>. QED  BY <1>4, <1>5, <1>6

(* Redis runs an announcement: what was announced by its queue is heard.   *)
LEMMA PublishTold ==
    ASSUME TypeOK, Told, NEW p \in Pod, outbox[p] # <<>>,
           Publish(Head(outbox[p])),
           \A q \in Pod : \/ outbox'[q] = outbox[q]
                          \/ q = p /\ outbox'[q] = Tail(outbox[p])
    PROVE  Told'
<1>. DEFINE m == Head(outbox[p])
<1>0. /\ outbox[p] \in Seq(BreakerMessage) /\ m \in BreakerMessage
      /\ inbox \in [Pod -> Seq(BreakerMessage)]
  BY DEF TypeOK
<1>1. /\ breakers' = breakers
      /\ inbox' = [q \in Pod |-> IF q \in subscribed THEN Append(inbox[q], m)
                                                     ELSE inbox[q]]
  BY DEF Publish, local
<1>2. /\ OneTime'
      /\ HeardIn(m, newest')
      /\ \A x \in BreakerMessage : HeardIn(x, newest) => HeardIn(x, newest')
      /\ \A q \in Pod \ missed' : \A n \in newest' :
             \/ n = m /\ q \in subscribed
             \/ n \in newest /\ q \notin missed
  BY <1>0, PublishHears DEF Told
<1>3. \A x \in Range(outbox[p]) : x = m \/ x \in Range(Tail(outbox[p]))
  BY <1>0, HeadOrTail
<1>. HIDE DEF m
<1>4. \A q \in Pod : /\ inbox[q] \in Seq(BreakerMessage)
                     /\ Range(inbox[q]) \subseteq BreakerMessage
                     /\ Range(inbox[q]) \subseteq Range(inbox'[q])
                     /\ Range(inbox'[q]) \subseteq Range(inbox[q]) \cup {m}
                     /\ q \in subscribed => m \in Range(inbox'[q])
  <2>. TAKE q \in Pod
  <2>1. inbox[q] \in Seq(BreakerMessage) /\ Range(inbox[q]) \subseteq BreakerMessage
    BY <1>0 DEF Range
  <2>2. Range(Append(inbox[q], m)) = Range(inbox[q]) \cup {m}
    BY <2>1, QueueRange
  <2>. QED  BY <1>1, <2>1, <2>2
<1>5. InboxHeard'
  BY <1>2, <1>4 DEF Told, InboxHeard
<1>6. ASSUME NEW q \in DOMAIN breakers, breakers[q].state # "CLOSED"
      PROVE  \/ Announcing(breakers[q], outbox'[q])
             \/ HeardIn(Message(breakers[q]), newest')
  <2>0. q \in Pod /\ breakers[q] \in BreakerData /\ Message(breakers[q]) \in BreakerMessage
    BY DEF TypeOK, BreakerData, BreakerMessage, Message
  <2>1. CASE HeardIn(Message(breakers[q]), newest)
    BY <1>2, <2>0, <2>1
  <2>2. CASE Announcing(breakers[q], outbox[q]) /\ outbox'[q] = outbox[q]
    BY <2>2
  <2>3. CASE Announcing(breakers[q], outbox[p]) /\ q = p /\ outbox'[p] = Tail(outbox[p])
    <3>1. PICK x \in Range(outbox[p]) :
              x.state = breakers[q].state /\ x.timestamp >= breakers[q].lastTransition
      BY <2>3 DEF Announcing
    <3>2. CASE x \in Range(Tail(outbox[p]))
      BY <2>3, <3>1, <3>2 DEF Announcing
    <3>3. CASE x = m
      <4>1. HeardIn(x, newest')
        BY <1>2, <3>3
      <4>2. /\ x.timestamp \in Nat /\ breakers[q].lastTransition \in Nat
            /\ x = [state |-> x.state, timestamp |-> x.timestamp]
        BY <1>0, <2>0, <3>3 DEF BreakerMessage, BreakerData
      <4>3. CASE x.timestamp = breakers[q].lastTransition
        <5>1. x = Message(breakers[q])
          BY <3>1, <4>2, <4>3 DEF Message
        <5>. QED  BY <4>1, <5>1
      <4>4. CASE x.timestamp > breakers[q].lastTransition
        <5>1. newest' \subseteq BreakerMessage
          BY <1>0 DEF Publish, TypeOK, m
        <5>2. PICK n \in newest' : x.timestamp <= n.timestamp
          BY <1>0, <3>3, <4>1, <5>1, HeardBy
        <5>3. n.timestamp \in Nat
          BY <5>1 DEF BreakerMessage
        <5>4. Message(breakers[q]).timestamp < n.timestamp
          BY <4>2, <4>4, <5>2, <5>3 DEF Message
        <5>. QED  BY <5>4 DEF HeardIn
      <4>. QED  BY <3>1, <4>2, <4>3, <4>4
    <3>. QED  BY <1>3, <3>1, <3>2, <3>3
  <2>4. \/ outbox'[q] = outbox[q]
        \/ q = p /\ outbox'[q] = Tail(outbox[p])
    BY <2>0
  <2>. QED  BY <1>6, <2>1, <2>2, <2>3, <2>4 DEF Told, EntriesAnnounced
<1>7. EntriesAnnounced'
  BY <1>1, <1>6 DEF EntriesAnnounced
<1>8. NewestReaches'
  <2>1. ASSUME NEW q \in Pod \ missed', NEW n \in newest'
        PROVE  \/ n \in Range(inbox'[q])
               \/ q \in DOMAIN breakers /\ breakers[q].lastTransition >= n.timestamp
    <3>1. CASE n = m /\ q \in subscribed
      BY <1>4, <3>1
    <3>2. CASE n \in newest /\ q \notin missed
      BY <1>4, <3>2 DEF Told, NewestReaches
    <3>. QED  BY <1>2, <3>1, <3>2
  <2>. QED  BY <1>1, <2>1 DEF NewestReaches
<1>. QED  BY <1>2, <1>5, <1>7, <1>8 DEF Told

(* What a pod misses it is known to have missed.                           *)
LEMMA EnvironmentTold ==
    ASSUME TypeOK, Told, "drop" \notin Faults, NEW p \in Pod, Environment(p)
    PROVE  Told'
<1>0. outbox \in [Pod -> Seq(BreakerMessage)] /\ inbox \in [Pod -> Seq(BreakerMessage)]
  BY DEF TypeOK
<1>1. CASE ExecPublish(p)
  <2>1. \A q \in Pod : \/ outbox'[q] = outbox[q]
                       \/ q = p /\ outbox'[q] = Tail(outbox[p])
    BY <1>0, <1>1 DEF ExecPublish
  <2>. QED  BY <1>1, <2>1, PublishTold DEF ExecPublish
<1>2. CASE RepeatPublish(p)
  BY <1>2, PublishTold DEF RepeatPublish
<1>3. CASE Subscribe(p)
  BY <1>3 DEF Subscribe, local, Told, OneTime, InboxHeard, EntriesAnnounced, NewestReaches
<1>4. CASE Disconnect(p)
  <2>1. /\ breakers' = breakers /\ outbox' = outbox /\ newest' = newest
        /\ \A q \in Pod : inbox'[q] = IF q = p THEN <<>> ELSE inbox[q]
        /\ missed \subseteq missed'
        /\ (\E i \in DOMAIN inbox[p] : inbox[p][i] \in newest) => p \in missed'
    BY <1>0, <1>4 DEF Disconnect, local
  <2>2. InboxHeard'
    BY <2>1, EmptyRange DEF Told, InboxHeard
  <2>3. p \notin missed' => \A n \in newest : n \notin Range(inbox[p])
    BY <2>1 DEF Range
  <2>4. NewestReaches'
    <3>1. ASSUME NEW q \in Pod \ missed', NEW n \in newest
          PROVE  \/ n \in Range(inbox'[q])
                 \/ q \in DOMAIN breakers /\ breakers[q].lastTransition >= n.timestamp
      <4>1. \/ n \in Range(inbox[q])
            \/ q \in DOMAIN breakers /\ breakers[q].lastTransition >= n.timestamp
        BY <2>1 DEF Told, NewestReaches
      <4>. QED  BY <2>1, <2>3, <4>1
    <3>. QED  BY <2>1, <3>1 DEF NewestReaches
  <2>. QED  BY <2>1, <2>2, <2>4 DEF Told, OneTime, EntriesAnnounced
<1>5. CASE Restart(p)
  <2>1. /\ \A q \in Pod : outbox'[q] = IF q = p THEN <<>> ELSE outbox[q]
        /\ \A q \in Pod : inbox'[q] = IF q = p THEN <<>> ELSE inbox[q]
        /\ breakers' = [q \in DOMAIN breakers \ {p} |-> breakers[q]]
        /\ newest' = newest /\ missed' = missed \cup {p}
    BY <1>0, <1>5 DEF Restart
  <2>2. InboxHeard'
    BY <2>1, EmptyRange DEF Told, InboxHeard
  <2>3. EntriesAnnounced'
    <3>1. ASSUME NEW q \in DOMAIN breakers', breakers'[q].state # "CLOSED"
          PROVE  \/ Announcing(breakers'[q], outbox'[q])
                 \/ HeardIn(Message(breakers'[q]), newest')
      <4>1. q \in DOMAIN breakers /\ q \in Pod /\ q # p /\ breakers'[q] = breakers[q]
        BY <2>1 DEF TypeOK
      <4>. QED  BY <2>1, <3>1, <4>1 DEF Told, EntriesAnnounced
    <3>. QED  BY <3>1 DEF EntriesAnnounced
  <2>4. NewestReaches'
    <3>1. ASSUME NEW q \in Pod \ missed', NEW n \in newest'
          PROVE  \/ n \in Range(inbox'[q])
                 \/ q \in DOMAIN breakers' /\ breakers'[q].lastTransition >= n.timestamp
      <4>1. q \in Pod \ missed /\ q # p /\ n \in newest
        BY <2>1
      <4>2. q \in DOMAIN breakers => q \in DOMAIN breakers' /\ breakers'[q] = breakers[q]
        BY <2>1, <4>1
      <4>. QED  BY <2>1, <4>1, <4>2 DEF Told, NewestReaches
    <3>. QED  BY <3>1 DEF NewestReaches
  <2>. QED  BY <2>1, <2>2, <2>3, <2>4 DEF Told, OneTime
<1>6. ~ DropPublish(p)
  BY DEF DropPublish
<1>. QED  BY <1>1, <1>2, <1>3, <1>4, <1>5, <1>6 DEF Environment

(* Every step.                                                             *)
LEMMA NextTold ==
    ASSUME TypeOK, NothingFromTheFuture, Told, "drop" \notin Faults, [Next]_vars
    PROVE  Told'
<1>1. CASE UNCHANGED <<breakers, outbox, redis>>
  BY <1>1 DEF redis, Told, OneTime, InboxHeard, EntriesAnnounced, NewestReaches
<1>2. ASSUME NEW p \in Pod, Call(p)
      PROVE  Told'
  BY <1>1, <1>2, CallKinds, KeepTold, TransitionTold, HandleTold
<1>3. CASE Tick \/ UNCHANGED vars
  BY <1>1, <1>3 DEF Tick, local, redis, vars
<1>. QED  BY <1>2, <1>3, EnvironmentTold DEF Next

(* With clocks that agree and publishes that reach Redis, settled pods are *)
(* where the newest message says, or CLOSED by a later entry of their own. *)
THEOREM SettledAgree == Spec => []Agreement
<1>. DEFINE Fine == NoSkew /\ "drop" \notin Faults
            IInv == Fine => NothingFromTheFuture /\ Told
<1>1. Init => IInv
  <2>1. Init => NothingFromTheFuture
    BY DEF Init, NothingFromTheFuture, EntriesPast, QueuesPast, Past
  <2>2. Init => Told
    BY EmptyRange DEF Init, Told, OneTime, InboxHeard, EntriesAnnounced, NewestReaches
  <2>. QED  BY <2>1, <2>2
<1>2. TypeOK /\ TypeOK' /\ IInv /\ [Next]_vars => IInv'
  BY NextPast, NextTold DEF NoSkew
<1>3. TypeOK /\ IInv => Agreement
  <2>1. ASSUME TypeOK, IInv, Fine
        PROVE  Agreement
    BY <2>1, ToldAgree
  <2>2. ASSUME ~ Fine
        PROVE  Agreement
    <3>. HIDE DEF NoSkew
    <3>. QED  BY <2>2 DEF Agreement
  <2>. QED  BY <2>1, <2>2
<1>. QED  BY <1>1, <1>2, <1>3, TypeCorrect, PTL DEF Spec
=============================================================================
