----------------------------- MODULE TokenBucket -----------------------------
(***************************************************************************)
(* The local burst bucket of a pod (src/src/limiter/tokenBucket.ts): one   *)
(* bucket per tenant, filled by the clock and drained by one token for     *)
(* every request it lets through.                                          *)
(*                                                                         *)
(* Tokens are counted in thousandths, so that elapsedMs / 1000 * refillRate*)
(* is the integer elapsedMs * RefillRate. The code computes the same sum   *)
(* in floating point; its rounding error is left out.                      *)
(***************************************************************************)
EXTENDS Integers

CONSTANTS
    Tenant,       \* the values of the tenant header
    Capacity,     \* config.burstCapacity, in tokens
    RefillRate,   \* config.refillRate, in tokens per second
    MaxTime,      \* bound: the last instant modelled
    MaxBehind,    \* bound: how far the clock may be set back in all
    MaxRestarts   \* bound: restarts of the pod

ASSUME BucketAssumption ==
    /\ Capacity \in Nat \ {0}
    /\ RefillRate \in Nat

ASSUME BoundAssumption ==
    /\ MaxTime \in Nat
    /\ MaxBehind \in Nat
    /\ MaxRestarts \in Nat

VARIABLES
    now,       \* ms that have really passed
    behind,    \* how far the pod's clock has been set back
    buckets,   \* tenant -> its BucketState, for the tenants seen so far
    allowed,   \* history: tenant -> requests let through since the start
    restarts   \* history: how often the pod was restarted

vars == <<now, behind, buckets, allowed, restarts>>

Milli == 1000

Full == Milli * Capacity

BucketState == [tokens : 0..Full, lastRefill : Int]

(* What Date.now() returns.                                                *)
Clock == now - behind

TypeOK ==
    /\ now \in Nat
    /\ behind \in Nat
    /\ \E D \in SUBSET Tenant : buckets \in [D -> BucketState]
    /\ allowed \in [Tenant -> Nat]
    /\ restarts \in Nat

-----------------------------------------------------------------------------
Least(a, b) == IF a <= b THEN a ELSE b

(* A tenant seen for the first time gets a full bucket.                    *)
GetBucket(t) ==
    IF t \in DOMAIN buckets THEN buckets[t]
                            ELSE [tokens |-> Full, lastRefill |-> Clock]

(* Mutated forms of Refilled: the sum is not capped; the time of a refill  *)
(* is not noted; only whole tokens are added.                              *)
RefilledUncapped(b) ==
    LET tokensToAdd == (Clock - b.lastRefill) * RefillRate
    IN  IF tokensToAdd > 0
          THEN [tokens |-> b.tokens + tokensToAdd, lastRefill |-> Clock]
          ELSE b

RefilledUnstamped(b) ==
    LET tokensToAdd == (Clock - b.lastRefill) * RefillRate
    IN  IF tokensToAdd > 0
          THEN [b EXCEPT !.tokens = Least(Full, @ + tokensToAdd)]
          ELSE b

RefilledWholeTokens(b) ==
    LET wholeTokens == ((Clock - b.lastRefill) * RefillRate) \div Milli
    IN  IF Clock > b.lastRefill
          THEN [tokens |-> Least(Full, b.tokens + Milli * wholeTokens),
                lastRefill |-> Clock]
          ELSE b

(* The refill at the start of allow. A clock that was set back adds        *)
(* nothing until it has passed lastRefill again.                           *)
Refilled(b) ==
    LET tokensToAdd == (Clock - b.lastRefill) * RefillRate
    IN  IF tokensToAdd > 0
          THEN [tokens |-> Least(Full, b.tokens + tokensToAdd),
                lastRefill |-> Clock]
          ELSE b

SetBucket(t, b) ==
    [u \in DOMAIN buckets \cup {t} |-> IF u = t THEN b ELSE buckets[u]]

Take(t) ==
    LET b == Refilled(GetBucket(t))
    IN  /\ b.tokens >= Milli
        /\ buckets' = SetBucket(t, [b EXCEPT !.tokens = @ - Milli])
        /\ allowed' = [allowed EXCEPT ![t] = @ + 1]
        /\ UNCHANGED <<now, behind, restarts>>

Refuse(t) ==
    LET b == Refilled(GetBucket(t))
    IN  /\ b.tokens < Milli
        /\ buckets' = SetBucket(t, b)
        /\ UNCHANGED <<now, behind, allowed, restarts>>

Allow(t) == Take(t) \/ Refuse(t)

(* The map lives in memory: a pod that restarts knows no tenant.           *)
Restart ==
    /\ restarts < MaxRestarts
    /\ restarts' = restarts + 1
    /\ buckets' = <<>>
    /\ UNCHANGED <<now, behind, allowed>>

Tick ==
    /\ now < MaxTime
    /\ now' = now + 1
    /\ UNCHANGED <<behind, buckets, allowed, restarts>>

(* Date.now() is not monotonic: the system clock may be set back.          *)
SetClockBack ==
    /\ behind < MaxBehind
    /\ behind' = behind + 1
    /\ UNCHANGED <<now, buckets, allowed, restarts>>

-----------------------------------------------------------------------------
Init ==
    /\ now = 0
    /\ behind = 0
    /\ buckets = <<>>
    /\ allowed = [t \in Tenant |-> 0]
    /\ restarts = 0

Next ==
    \/ \E t \in Tenant : Allow(t)
    \/ Restart
    \/ Tick
    \/ SetClockBack

Spec == Init /\ [][Next]_vars

-----------------------------------------------------------------------------
(* Properties.                                                             *)

(* What a bucket holds, and what the time since its last refill is worth,  *)
(* up to the capacity.                                                     *)
Idle(b)  == IF Clock > b.lastRefill THEN Clock - b.lastRefill ELSE 0
Worth(b) == Least(Full, b.tokens + Idle(b) * RefillRate)

Level(t) == Worth(GetBucket(t))

(* Whatever the pattern of calls, and however often the clock is set back, *)
(* a tenant gets no more than a full bucket, another full bucket for every *)
(* restart of the pod, and what the refill rate gives in the time that has *)
(* really passed; what is left in the bucket counts against it (allow      *)
(* :17-44).                                                                *)
RateBound ==
    \A t \in Tenant :
        Milli * allowed[t] + Level(t)
            <= (1 + restarts) * Full + RefillRate * now

(* A tenant that keeps calling while its bucket is empty does not delay    *)
(* its own refill: unless a request is let through, the clock is set back  *)
(* or the pod restarts, no level goes down, not by a fraction of a token   *)
(* (allow :30-36).                                                         *)
RefusalsCostNothing ==
    [][\A t \in Tenant :
           allowed' = allowed /\ restarts' = restarts /\ behind' = behind =>
               Level(t)' >= Level(t)]_vars
=============================================================================
