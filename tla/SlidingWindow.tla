---------------------------- MODULE SlidingWindow ----------------------------
(***************************************************************************)
(* The distributed limiter (src/src/limiter/distributedLimiter.ts) for one *)
(* tenant. A pod reads its clock, sends the script with that reading, its  *)
(* request id and its own limit, and awaits the verdict. Redis runs one    *)
(* script at a time, in the order of arrival, which need not be the order  *)
(* of the timestamps: the clocks of the pods differ and commands travel    *)
(* for as long as they travel.                                             *)
(***************************************************************************)
EXTENDS Integers, FiniteSets

CONSTANTS
    Request,      \* the calls of checkDistributedLimit, by request id
    WindowMs,     \* config.windowMs
    BaseRateLimit,\* config.baseRateLimit
    Multiplier,   \* the values of PLAN_MULTIPLIERS in use
    Pressure,     \* the global pressures in use, in percent
    SecondMs,     \* milliseconds in a second (1000)
    GraceSeconds, \* seconds the key outlives its window (5)
    MaxAhead,     \* how far a pod's clock may be ahead of true time
    MaxDelay,     \* longest time between sending a command and running it
    MaxTime       \* bound: the last instant modelled

(* Mutated form of TtlMs: the key lives as long as its window.             *)
TtlWithoutGrace == ((WindowMs + SecondMs - 1) \div SecondMs) * SecondMs

(* The time to live of the key: math.ceil(windowMs / 1000) + 5 seconds.    *)
TtlMs == ((WindowMs + SecondMs - 1) \div SecondMs + GraceSeconds) * SecondMs

ASSUME WindowAssumption ==
    /\ WindowMs \in Nat \ {0}
    /\ BaseRateLimit \in Nat \ {0}
    /\ Multiplier \subseteq Nat \ {0}
    /\ Pressure \subseteq 0..100
    /\ SecondMs \in Nat \ {0}
    /\ GraceSeconds \in Nat

(* The grace of the key covers the disorder of the timestamps.             *)
ASSUME DisorderAssumption ==
    /\ MaxAhead \in Nat
    /\ MaxDelay \in Nat
    /\ MaxTime \in Nat
    /\ MaxAhead + MaxDelay <= GraceSeconds * SecondMs

VARIABLES
    now,       \* true time
    call,      \* request -> where its call of checkDistributedLimit stands
    args,      \* request -> the arguments its pod sent with the script
    commands,  \* the requests whose script Redis may still run
    zset,      \* the sorted set rate:<tenant>: request id -> score
    expireAt,  \* when Redis removes the key
    latest     \* history: the highest timestamp Redis has run a script with

vars == <<now, call, args, commands, zset, expireAt, latest>>

Status == {"idle", "waiting", "allowed", "rejected"}

(* now is what Date.now() gave, sent is the true time at that moment.      *)
Arguments == [now : Nat, limit : Nat, sent : Nat]

TypeOK ==
    /\ now \in Nat
    /\ call \in [Request -> Status]
    /\ args \in [Request -> Arguments]
    /\ \A r \in Request : call[r] # "idle" => args[r].limit >= 1
    /\ commands \subseteq Request
    /\ \E D \in SUBSET Request : zset \in [D -> Nat]
    /\ expireAt \in Nat
    /\ latest \in Nat

-----------------------------------------------------------------------------
Most(a, b) == IF a >= b THEN a ELSE b

(* Mutated form of AdaptiveLimit: nothing keeps the limit positive.        *)
AdaptiveLimitUnclamped(pressure, multiplier) ==
    (BaseRateLimit * multiplier * (100 - pressure)) \div 100

(* getAdaptiveLimit: the limit shrinks with the pressure and stays         *)
(* positive.                                                               *)
AdaptiveLimit(pressure, multiplier) ==
    Most(1, (BaseRateLimit * multiplier * (100 - pressure)) \div 100)

(* checkDistributedLimit up to the await.                                  *)
Send(r) ==
    /\ call[r] = "idle"
    /\ \E ahead \in 0..MaxAhead, pressure \in Pressure, mult \in Multiplier :
           args' = [args EXCEPT ![r] =
                        [now   |-> now + ahead,
                         limit |-> AdaptiveLimit(pressure, mult),
                         sent  |-> now]]
    /\ call' = [call EXCEPT ![r] = "waiting"]
    /\ commands' = commands \cup {r}
    /\ UNCHANGED <<now, zset, expireAt, latest>>

(* ZREMRANGEBYSCORE key 0 now-windowMs: the ids that stay.                 *)
Kept(r) == {q \in DOMAIN zset : zset[q] > args[r].now - WindowMs}

(* ZADD key now requestId: the set after the purge and the insertion.      *)
ZAdd(r) == [q \in Kept(r) \cup {r} |-> IF q = r THEN args[r].now ELSE zset[q]]

(* Mutated form of Verdict: the count is taken before the insertion.       *)
VerdictBeforeAdding(r) == IF Cardinality(Kept(r)) > args[r].limit
                            THEN "rejected" ELSE "allowed"

(* The verdict of the script: ZCARD against the caller's limit. Rejected   *)
(* requests are in the set as well.                                        *)
Verdict(r) == IF Cardinality(Kept(r) \cup {r}) > args[r].limit
                THEN "rejected" ELSE "allowed"

(* What the script does to Redis.                                          *)
Script(r) ==
    /\ r \in commands
    /\ now <= args[r].sent + MaxDelay
    /\ zset' = ZAdd(r)
    /\ expireAt' = now + TtlMs
    /\ latest' = Most(latest, args[r].now)
    /\ UNCHANGED <<now, args>>

(* Redis runs the script and the caller, if it still waits, hears the      *)
(* verdict.                                                                *)
Run(r) ==
    /\ Script(r)
    /\ commands' = commands \ {r}
    /\ call' = IF call[r] = "waiting" THEN [call EXCEPT ![r] = Verdict(r)]
                                      ELSE call

(* Redis runs the script, the reply is lost and the client sends the       *)
(* command again.                                                          *)
RunUnheard(r) ==
    /\ Script(r)
    /\ UNCHANGED <<commands, call>>

(* The command fails on the client: the limiter rejects. The command may   *)
(* have run, may still run, or may never run.                              *)
Fail(r) ==
    /\ call[r] = "waiting"
    /\ call' = [call EXCEPT ![r] = "rejected"]
    /\ commands' \in {commands, commands \ {r}}
    /\ UNCHANGED <<now, args, zset, expireAt, latest>>

(* Redis removes a key whose time to live has passed.                      *)
Expire ==
    /\ zset # <<>>
    /\ now >= expireAt
    /\ zset' = <<>>
    /\ UNCHANGED <<now, call, args, commands, expireAt, latest>>

Tick ==
    /\ now < MaxTime
    /\ now' = now + 1
    /\ UNCHANGED <<call, args, commands, zset, expireAt, latest>>

-----------------------------------------------------------------------------
Init ==
    /\ now = 0
    /\ call = [r \in Request |-> "idle"]
    /\ args = [r \in Request |-> [now |-> 0, limit |-> 0, sent |-> 0]]
    /\ commands = {}
    /\ zset = <<>>
    /\ expireAt = 0
    /\ latest = 0

Next ==
    \/ \E r \in Request : Send(r) \/ Run(r) \/ RunUnheard(r) \/ Fail(r)
    \/ Expire
    \/ Tick

Spec == Init /\ [][Next]_vars

-----------------------------------------------------------------------------
(* Properties.                                                             *)

Allowed == {r \in Request : call[r] = "allowed"}

(* The allowed requests of the window that ends at the latest timestamp.   *)
Recent == {r \in Allowed : args[r].now > latest - WindowMs}

(* Every allowed request of the latest window is in the sorted set, to be  *)
(* counted against the next one, for as long as a command that is on its   *)
(* way can share a window with it: neither the purge by a pod whose clock  *)
(* is ahead nor the expiry of the key loses it (script :19-28).            *)
RecentAreCounted ==
    \A r \in Recent :
        args[r].now > now - MaxDelay - WindowMs =>
            r \in DOMAIN zset /\ zset[r] = args[r].now

(* A request is allowed only when it and the requests allowed before it in *)
(* the latest window are within its limit, whatever the order in which the *)
(* scripts run, the clocks of the pods, lost replies, resent commands and  *)
(* commands that run after their caller gave up (script :19-35, catch      *)
(* :71-77).                                                                *)
AllowedWithinLimit ==
    [][\A r \in Request :
           call[r] = "waiting" /\ call'[r] = "allowed" =>
               Cardinality(Recent' \cup {r}) <= args[r].limit]_vars
=============================================================================
