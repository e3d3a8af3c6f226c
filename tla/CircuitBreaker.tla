--------------------------- MODULE CircuitBreaker ---------------------------
(***************************************************************************)
(* The circuit breaker of the gateway (src/src/breaker/circuitBreaker.ts): *)
(* one breaker per pod for the only service the proxy guards, kept in step *)
(* across pods by messages on the Redis channel sentinel:breaker.          *)
(*                                                                         *)
(* Every pod runs JavaScript on one thread, so a call of check, of         *)
(* recordSuccess, of recordFailure or of the message listener is one step. *)
(* Between the steps stand the request in flight (fetch is awaited), the   *)
(* Redis commands written to the shared connection and the messages on     *)
(* their way to each subscriber.                                           *)
(***************************************************************************)
EXTENDS Integers, Sequences, Functions

CONSTANTS
    Pod,                  \* the gateway processes
    ConsecutiveFailures,  \* config.breakerConsecutiveFailures
    CooldownMs,           \* config.breakerCooldownMs
    HalfOpenMaxRequests,  \* config.breakerHalfOpenMaxRequests
    Skew,                 \* how far each pod's clock is ahead of true time
    MaxStall,             \* longest time between two clock readings of a call
    Faults,               \* the kinds of failure a run allows
    MaxTime,              \* bound: the last instant modelled
    MaxPending,           \* bound: requests in flight on one pod, per age
    MaxQueue              \* bound: messages in one queue of a pod

FaultKind == {"restart", "disconnect", "repeat", "drop"}

ASSUME ThresholdAssumption ==
    /\ ConsecutiveFailures \in Nat \ {0}
    /\ HalfOpenMaxRequests \in Nat \ {0}
    /\ CooldownMs \in Nat

ASSUME ClockAssumption ==
    /\ Skew \in [Pod -> Nat]
    /\ MaxStall \in Nat

ASSUME BoundAssumption ==
    /\ MaxTime \in Nat
    /\ MaxPending \in Nat
    /\ MaxQueue \in Nat
    /\ Faults \subseteq FaultKind

VARIABLES
    now,        \* true time in ms
    breakers,   \* pod -> its BreakerData, for the pods whose Map has an entry
    pending,    \* pod -> admitted requests whose outcome is not known yet
    outbox,     \* pod -> messages whose PUBLISH Redis has not executed yet
    subscribed, \* the pods whose subscriber connection is subscribed
    inbox,      \* pod -> messages Redis sent to its subscriber, not yet handled
    newest,     \* history: the published messages with the highest timestamp
    missed      \* history: the pods that will not handle all of newest

local == <<breakers, pending>>
redis == <<subscribed, inbox, newest, missed>>
vars  == <<now, breakers, pending, outbox, subscribed, inbox, newest, missed>>

State == {"CLOSED", "OPEN", "HALF_OPEN"}

BreakerData == [state : State, lastTransition : Nat,
                failures : Nat, successes : Nat]

BreakerMessage == [state : State, timestamp : Nat]

(* A request in flight is "current" while its pod's breaker is as it was   *)
(* when check admitted it, "stale" once the breaker has changed since. The *)
(* code does not tell the two apart; the properties do.                    *)
Age == {"current", "stale"}

(* The true time at which the clock of p reads what Date.now() returns.    *)
Clock(p) == now + Skew[p]

TypeOK ==
    /\ now \in Nat
    /\ \E D \in SUBSET Pod : breakers \in [D -> BreakerData]
    /\ pending \in [Pod -> [Age -> Nat]]
    /\ outbox \in [Pod -> Seq(BreakerMessage)]
    /\ subscribed \subseteq Pod
    /\ inbox \in [Pod -> Seq(BreakerMessage)]
    /\ newest \subseteq BreakerMessage
    /\ missed \subseteq Pod

-----------------------------------------------------------------------------
(* Reading and replacing the entry of a pod.                               *)

Fresh(p) == [state |-> "CLOSED", lastTransition |-> Clock(p),
             failures |-> 0, successes |-> 0]

(* getBreaker creates the entry of a service the first time it is asked.   *)
GetBreaker(p) == IF p \in DOMAIN breakers THEN breakers[p] ELSE Fresh(p)

SetBreaker(p, b) ==
    [q \in DOMAIN breakers \cup {p} |-> IF q = p THEN b ELSE breakers[q]]

(* The requests of p after its breaker has changed.                        *)
Aged(p) == [current |-> 0,
            stale   |-> pending[p]["current"] + pending[p]["stale"]]

(* r is a pod's count of requests by age.                                  *)
Plus(r, age)  == [r EXCEPT ![age] = @ + 1]
Minus(r, age) == [r EXCEPT ![age] = @ - 1]
Total(r)      == r["current"] + r["stale"]

(* transition: a new state with the time of the change and zeroed counters,*)
(* then publishState, which reads the clock again for the timestamp of the *)
(* message and hands its PUBLISH to the connection. (The SET of the key    *)
(* breaker:<service> that follows is left out: no code reads the key.) No  *)
(* caller asks for the state the breaker is already in.                    *)
Transition(p, newState) ==
    \E elapsed \in 0..MaxStall :
        /\ now + elapsed <= MaxTime
        /\ Len(outbox[p]) < MaxQueue
        /\ now' = now + elapsed
        /\ breakers' = SetBreaker(p, [state |-> newState,
                                      lastTransition |-> Clock(p),
                                      failures |-> 0, successes |-> 0])
        /\ outbox' = [outbox EXCEPT ![p] =
                          Append(@, [state |-> newState,
                                     timestamp |-> Clock(p) + elapsed])]
        /\ UNCHANGED redis

(* The calls that write the entry without a transition.                    *)
Keep(p, b) ==
    /\ breakers' = SetBreaker(p, b)
    /\ UNCHANGED <<now, outbox, redis>>

-----------------------------------------------------------------------------
(* check: the proxy asks before it forwards a request.                     *)

(* Mutated form of CooledDown: seconds taken for milliseconds.             *)
CooledDownInSeconds(p) ==
    Clock(p) - GetBreaker(p).lastTransition > 1000 * CooldownMs

CooledDown(p) == Clock(p) - GetBreaker(p).lastTransition > CooldownMs

Attempts(b) == b.successes + b.failures

(* check returns true without a transition.                                *)
Allows(b) ==
    \/ b.state = "CLOSED"
    \/ b.state = "HALF_OPEN" /\ Attempts(b) < HalfOpenMaxRequests

Admit(p) ==
    /\ Allows(GetBreaker(p))
    /\ Total(pending[p]) < MaxPending
    /\ pending' = [pending EXCEPT ![p] = Plus(@, "current")]
    /\ Keep(p, GetBreaker(p))

(* The first request after the cooldown becomes the first probe.           *)
StartProbing(p) ==
    /\ GetBreaker(p).state = "OPEN"
    /\ CooledDown(p)
    /\ Total(pending[p]) < MaxPending
    /\ pending' = [pending EXCEPT ![p] = Plus(Aged(p), "current")]
    /\ Transition(p, "HALF_OPEN")

Deny(p) ==
    /\ ~ Allows(GetBreaker(p))
    /\ GetBreaker(p).state = "OPEN" => ~ CooledDown(p)
    /\ UNCHANGED pending
    /\ Keep(p, GetBreaker(p))

Check(p) == Admit(p) \/ StartProbing(p) \/ Deny(p)

-----------------------------------------------------------------------------
(* The outcome of a request. A response below 500 is a success, any other  *)
(* response a failure, whatever the state in which the request was         *)
(* admitted.                                                               *)

(* checkHalfOpenStatus: the verdict once enough attempts are in.           *)
Verdict(b) == IF 10 * b.successes >= 8 * Attempts(b) THEN "CLOSED" ELSE "OPEN"

(* Mutated form of Finish: one request records its outcome twice.          *)
FinishTwice(p, age) == pending' = [pending EXCEPT ![p] = Minus(@, age)]

Finish(p, age) ==
    /\ pending[p][age] > 0
    /\ pending' = [pending EXCEPT ![p] = Minus(@, age)]

FinishAged(p, age) ==
    /\ pending[p][age] > 0
    /\ pending' = [pending EXCEPT ![p] = Minus(Aged(p), "stale")]

RecordSuccess(p, age) ==
    LET b == GetBreaker(p)
        counted == [b EXCEPT !.successes = @ + 1]
    IN  \/ /\ b.state = "CLOSED"
           /\ Finish(p, age)
           /\ Keep(p, [b EXCEPT !.failures = 0])
        \/ /\ b.state = "HALF_OPEN"
           /\ Attempts(counted) < HalfOpenMaxRequests
           /\ Finish(p, age)
           /\ Keep(p, counted)
        \/ /\ b.state = "HALF_OPEN"
           /\ Attempts(counted) >= HalfOpenMaxRequests
           /\ FinishAged(p, age)
           /\ Transition(p, Verdict(counted))
        \/ /\ b.state = "OPEN"
           /\ Finish(p, age)
           /\ Keep(p, b)

(* The ten-second history kept beside the counter is never read and is     *)
(* left out.                                                               *)
RecordFailure(p, age) ==
    LET b == GetBreaker(p)
        counted == [b EXCEPT !.failures = @ + 1]
    IN  \/ /\ b.state = "CLOSED"
           /\ counted.failures < ConsecutiveFailures
           /\ Finish(p, age)
           /\ Keep(p, counted)
        \/ /\ b.state = "HALF_OPEN" \/ b.state = "CLOSED"
           /\ b.state = "CLOSED" => counted.failures >= ConsecutiveFailures
           /\ FinishAged(p, age)
           /\ Transition(p, "OPEN")
        \/ /\ b.state = "OPEN"
           /\ Finish(p, age)
           /\ Keep(p, b)

(* A request the breaker admitted that ends without a record: it timed out,*)
(* the network failed, the client left, or the pod answered it with a      *)
(* degraded response. The proxy tells the breaker nothing.                 *)
EndUnrecorded(p, age) ==
    /\ Finish(p, age)
    /\ UNCHANGED <<now, breakers, outbox, redis>>

-----------------------------------------------------------------------------
(* Redis executes the commands of a connection in order.                   *)

Timestamp(messages) == {m.timestamp : m \in messages}

Newer(m, messages)  == \A t \in Timestamp(messages) : m.timestamp > t
Tied(m, messages)   == m.timestamp \in Timestamp(messages)

Publish(m) ==
    /\ \A q \in subscribed : Len(inbox[q]) < MaxQueue
    /\ inbox' = [q \in Pod |-> IF q \in subscribed THEN Append(inbox[q], m)
                                                   ELSE inbox[q]]
    /\ newest' = IF Newer(m, newest) THEN {m}
                 ELSE IF Tied(m, newest) THEN newest \cup {m} ELSE newest
    /\ missed' = IF Newer(m, newest) THEN Pod \ subscribed
                 ELSE IF Tied(m, newest) THEN missed \cup (Pod \ subscribed)
                 ELSE missed
    /\ UNCHANGED <<now, local, subscribed>>

ExecPublish(p) ==
    /\ outbox[p] # <<>>
    /\ Publish(Head(outbox[p]))
    /\ outbox' = [outbox EXCEPT ![p] = Tail(@)]

(* The connection breaks after Redis ran the command and before the reply  *)
(* came: the client sends the command again.                               *)
RepeatPublish(p) ==
    /\ "repeat" \in Faults
    /\ outbox[p] # <<>>
    /\ Publish(Head(outbox[p]))
    /\ UNCHANGED outbox

(* The client gives the command up (maxRetriesPerRequest); the rejection   *)
(* is logged and nothing else.                                             *)
DropPublish(p) ==
    /\ "drop" \in Faults
    /\ outbox[p] # <<>>
    /\ outbox' = [outbox EXCEPT ![p] = Tail(@)]
    /\ UNCHANGED <<now, local, redis>>

(* Mutated form of Supersedes: any message is accepted ("LWW or simple     *)
(* acceptance?").                                                          *)
SupersedesAlways(m, b) == TRUE

(* handleRemoteUpdate compares the message with the entry and replaces it. *)
Supersedes(m, b) == m.timestamp > b.lastTransition

(* Mutated forms of Adopted: the counters survive; the local clock stamps  *)
(* the version.                                                            *)
AdoptedWithCounters(p, m) == [GetBreaker(p) EXCEPT
                                  !.state = m.state,
                                  !.lastTransition = m.timestamp]

AdoptedAtLocalTime(p, m) == [state |-> m.state, lastTransition |-> Clock(p),
                             failures |-> 0, successes |-> 0]

Adopted(p, m) == [state |-> m.state, lastTransition |-> m.timestamp,
                  failures |-> 0, successes |-> 0]

(* The publisher hears its own messages as well; nothing is published here.*)
HandleRemoteUpdate(p) ==
    /\ inbox[p] # <<>>
    /\ LET m == Head(inbox[p])
           b == GetBreaker(p)
       IN  \/ /\ Supersedes(m, b)
              /\ breakers' = SetBreaker(p, Adopted(p, m))
              /\ pending' = [pending EXCEPT ![p] = Aged(p)]
           \/ /\ ~ Supersedes(m, b)
              /\ breakers' = SetBreaker(p, b)
              /\ UNCHANGED pending
    /\ inbox' = [inbox EXCEPT ![p] = Tail(@)]
    /\ UNCHANGED <<now, outbox, subscribed, newest, missed>>

(* setupRedis: the subscriber connects, and subscribes again by itself     *)
(* after every reconnection.                                               *)
Subscribe(p) ==
    /\ p \notin subscribed
    /\ subscribed' = subscribed \cup {p}
    /\ UNCHANGED <<now, local, outbox, inbox, newest, missed>>

(* Redis keeps nothing for a subscriber that is away.                      *)
Disconnect(p) ==
    /\ "disconnect" \in Faults
    /\ p \in subscribed
    /\ subscribed' = subscribed \ {p}
    /\ inbox' = [inbox EXCEPT ![p] = <<>>]
    /\ missed' = IF \E i \in DOMAIN inbox[p] : inbox[p][i] \in newest
                   THEN missed \cup {p} ELSE missed
    /\ UNCHANGED <<now, local, outbox, newest>>

(* A pod is replaced: everything it kept was in memory.                    *)
Restart(p) ==
    /\ "restart" \in Faults
    /\ breakers' = [q \in DOMAIN breakers \ {p} |-> breakers[q]]
    /\ pending' = [pending EXCEPT ![p] = [a \in Age |-> 0]]
    /\ outbox' = [outbox EXCEPT ![p] = <<>>]
    /\ inbox' = [inbox EXCEPT ![p] = <<>>]
    /\ subscribed' = subscribed \ {p}
    /\ missed' = missed \cup {p}
    /\ UNCHANGED <<now, newest>>

Tick ==
    /\ now < MaxTime
    /\ now' = now + 1
    /\ UNCHANGED <<local, outbox, redis>>

-----------------------------------------------------------------------------
Init ==
    /\ now = 0
    /\ breakers = <<>>
    /\ pending = [p \in Pod |-> [a \in Age |-> 0]]
    /\ outbox = [p \in Pod |-> <<>>]
    /\ subscribed = {}
    /\ inbox = [p \in Pod |-> <<>>]
    /\ newest = {}
    /\ missed = {}

End(p) == \E age \in Age : \/ RecordSuccess(p, age)
                           \/ RecordFailure(p, age)
                           \/ EndUnrecorded(p, age)

Call(p) == Check(p) \/ End(p) \/ HandleRemoteUpdate(p)

Environment(p) ==
    \/ ExecPublish(p)
    \/ RepeatPublish(p)
    \/ DropPublish(p)
    \/ Subscribe(p)
    \/ Disconnect(p)
    \/ Restart(p)

Next == Tick \/ \E p \in Pod : Call(p) \/ Environment(p)

Spec == Init /\ [][Next]_vars

(* Time passes; requests keep arriving at every pod (the proxy calls check *)
(* for each) and every request ends, by the abort timer of the proxy if by *)
(* nothing else; Redis runs what it is sent; the event loop handles what   *)
(* the subscriber receives. Nothing forces a request to end with a record. *)
Fairness ==
    /\ WF_vars(Tick)
    /\ \A p \in Pod : /\ WF_vars(Check(p))
                      /\ WF_vars(End(p))
                      /\ WF_vars(ExecPublish(p))
                      /\ WF_vars(HandleRemoteUpdate(p))

FairSpec == Spec /\ Fairness

-----------------------------------------------------------------------------
(* Properties.                                                             *)

(* Every counter stands below the threshold that would have acted on it,   *)
(* and only the counter its state uses is not zero. In particular a        *)
(* HALF_OPEN breaker never has a failure on record and never refuses a     *)
(* request: the refusal in check (circuitBreaker.ts:115) and the return to *)
(* OPEN in checkHalfOpenStatus (:195) are never reached, whatever the      *)
(* interleaving of results and remote updates.                             *)
CountersBelowThresholds ==
    \A p \in DOMAIN breakers :
        LET b == breakers[p]
        IN  /\ b.state = "CLOSED"    => /\ b.failures < ConsecutiveFailures
                                       /\ b.successes = 0
            /\ b.state = "HALF_OPEN" => /\ b.failures = 0
                                       /\ b.successes < HalfOpenMaxRequests
            /\ b.state = "OPEN"      => b.failures = 0 /\ b.successes = 0

Message(b) == [state |-> b.state, timestamp |-> b.lastTransition]

NoSkew == \A p, q \in Pod : Skew[p] = Skew[q]

(* With clocks that agree a running pod never returns to an older version  *)
(* of the breaker: local transitions, echoes of its own messages and       *)
(* messages of other pods, in any order and repeated, only move            *)
(* lastTransition forward (transition :206, handleRemoteUpdate :247-250).  *)
VersionsNeverGoBack ==
    [][NoSkew =>
           \A p \in DOMAIN breakers \cap DOMAIN breakers' :
               breakers'[p].lastTransition >= breakers[p].lastTransition]_vars

(* A pod that has nothing queued in either direction and lost none of the  *)
(* newest messages.                                                        *)
Settled(p) ==
    /\ p \in DOMAIN breakers \ missed
    /\ outbox[p] = <<>>
    /\ inbox[p] = <<>>

(* With clocks that agree and publishes that reach Redis, a settled pod is *)
(* in the state the newest message says, unless it is CLOSED by an entry   *)
(* it made for itself no earlier than that message (getBreaker :71). Two   *)
(* settled pods can therefore differ only through such an entry or through *)
(* two messages of one millisecond.                                        *)
Agreement ==
    NoSkew /\ "drop" \notin Faults =>
        \A p \in Pod, m \in newest :
            Settled(p) =>
                \/ Message(breakers[p]) \in newest
                \/ /\ breakers[p].state = "CLOSED"
                   /\ breakers[p].lastTransition >= m.timestamp

(* While requests keep arriving, no OPEN episode lasts for ever: the       *)
(* cooldown passes and the next check starts probing, or a newer message   *)
(* replaces the episode (check :92-98). Episodes too young for their       *)
(* cooldown to end within the bound on time are left out.                  *)
OpenIsLeft ==
    LET OpenEarly(p) == /\ p \in DOMAIN breakers
                        /\ breakers[p].state = "OPEN"
                        /\ breakers[p].lastTransition + CooldownMs < MaxTime
    IN  \A p \in Pod : OpenEarly(p) ~> ~ OpenEarly(p)

(* The versions the pods hold, and those still on their way.               *)
View == [p \in DOMAIN breakers |-> Message(breakers[p])]

InFlight == UNION {Range(outbox[p]) \cup Range(inbox[p]) : p \in Pod}

(* Every pod is OPEN since s or later, and what the queues hold of other   *)
(* states is not newer.                                                    *)
OpenSince(s) ==
    /\ DOMAIN breakers = Pod
    /\ \A p \in Pod : breakers[p].state = "OPEN" /\ breakers[p].lastTransition >= s
    /\ \A m \in InFlight : m.state # "OPEN" => m.timestamp <= s

(* Once every pod is OPEN and nothing newer is on its way, they all stay   *)
(* OPEN until the cooldown is over by the clock of one of them or a pod    *)
(* loses its memory: no result of an earlier request and no late, repeated *)
(* or reordered message of an earlier episode changes the state before, or *)
(* makes the cooldown count from an earlier time (check :94, recordSuccess *)
(* :123, recordFailure :133, handleRemoteUpdate :247). The code does not   *)
(* promise as much for an episode that only some of the pods are in: one   *)
(* that is not may announce a change, and end it.                          *)
ClusterStaysOpen ==
    [][\A s \in {breakers[q].lastTransition : q \in DOMAIN breakers} :
           /\ OpenSince(s)
           /\ \A p \in Pod : Clock(p)' <= s + CooldownMs
           /\ DOMAIN breakers' = Pod
           => OpenSince(s)']_vars

Abstract == INSTANCE ReplicatedBreaker WITH view <- View, wire <- InFlight

(* Seen as versions and announcements the breaker is a ReplicatedBreaker:  *)
(* whatever requests, results, messages and faults do, a pod's version     *)
(* changes only along the state diagram, announced and after the cooldown, *)
(* or to a later version that some pod announced (transition :200-241,     *)
(* handleRemoteUpdate :243-258). It holds for clocks that disagree.        *)
ImplementsReplicatedBreaker == Abstract!Spec

-----------------------------------------------------------------------------
(* What the documents and comments say of the breaker.                     *)

(* "Max requests allowed in Half-Open state" (README.md:125), "Allow       *)
(* limited test requests (max 5)" (circuitBreaker.ts:106): the probes in   *)
(* flight and those already counted together stay within the maximum.      *)
HalfOpenLimit ==
    \A p \in DOMAIN breakers :
        breakers[p].state = "HALF_OPEN" =>
            pending[p]["current"] + Attempts(breakers[p])
                <= HalfOpenMaxRequests

(* "All pods receive event", "Local breaker state updated instantly"       *)
(* (docs/08_Circuit_Breaker.md:125-127): a settled pod shows the OPEN that *)
(* is the only newest message.                                             *)
OpenReachesEveryPod ==
    \A p \in Pod, m \in newest :
        Settled(p) /\ newest = {m} /\ m.state = "OPEN" =>
            breakers[p].state = "OPEN"

(* HALF_OPEN must "Transition back to CLOSED or OPEN"                      *)
(* (docs/08_Circuit_Breaker.md:65).                                        *)
HalfOpenEnds ==
    \A p \in Pod :
        (p \in DOMAIN breakers /\ breakers[p].state = "HALF_OPEN")
        ~> ~ (p \in DOMAIN breakers /\ breakers[p].state = "HALF_OPEN")
=============================================================================
