-------------------------- MODULE TokenBucketProofs --------------------------
(***************************************************************************)
(* Proofs about TokenBucket, for every capacity, refill rate and set of    *)
(* tenants.                                                                *)
(*                                                                         *)
(* Everything rests on one fact about a refill: it moves what the idle     *)
(* time is worth into the bucket and leaves nothing idle, so the worth of  *)
(* the bucket is the same before and after. RateBound is then inductive    *)
(* together with the type invariant.                                       *)
(***************************************************************************)
EXTENDS TokenBucket, TLAPS

USE BucketAssumption, BoundAssumption

-----------------------------------------------------------------------------
(* Arithmetic that the SMT solver needs in small portions.                 *)

(* A full bucket holds at least one token.                                 *)
LEMMA FullIsPositive == Full \in Nat /\ Full >= Milli /\ Milli = 1000
BY DEF Full, Milli

(* Natural numbers are closed under multiplication.                        *)
LEMMA ProductIsNat ==
    ASSUME NEW a \in Nat, NEW b \in Nat
    PROVE  a * b \in Nat
OBVIOUS

(* One more factor adds the other factor once at most.                     *)
LEMMA ProductGrows ==
    ASSUME NEW a \in Nat, NEW b \in Nat, NEW c \in Nat, a <= b + 1
    PROVE  a * c <= b * c + c
<1>1. a * c <= (b + 1) * c
  OBVIOUS
<1>. QED  BY <1>1

(* Products grow with their factors.                                       *)
LEMMA ProductIsMonotone ==
    ASSUME NEW a \in Nat, NEW b \in Nat, NEW c \in Nat, a <= b
    PROVE  a * c <= b * c
OBVIOUS

-----------------------------------------------------------------------------
(* What a refill does to a bucket.                                         *)

(* A refill keeps the worth and leaves nothing idle.                       *)
LEMMA RefillMovesWorth ==
    ASSUME Clock \in Int, NEW b \in BucketState
    PROVE  /\ Refilled(b) \in BucketState
           /\ Refilled(b).tokens = Worth(b)
           /\ Idle(Refilled(b)) * RefillRate = 0
<1>. DEFINE tokensToAdd == (Clock - b.lastRefill) * RefillRate
<1>1. Full \in Nat /\ b.tokens \in 0..Full /\ b.lastRefill \in Int
  BY FullIsPositive DEF BucketState
<1>2. b = [tokens |-> b.tokens, lastRefill |-> b.lastRefill]
  BY DEF BucketState
<1>3. CASE Clock > b.lastRefill /\ RefillRate > 0
  <2>1. tokensToAdd \in Nat /\ tokensToAdd > 0
    BY <1>1, <1>3
  <2>2. Refilled(b) = [tokens |-> Least(Full, b.tokens + tokensToAdd),
                       lastRefill |-> Clock]
    BY <2>1 DEF Refilled
  <2>3. Worth(b) = Least(Full, b.tokens + tokensToAdd)
    BY <1>3 DEF Worth, Idle
  <2>4. Least(Full, b.tokens + tokensToAdd) \in 0..Full
    BY <1>1, <2>1 DEF Least
  <2>5. Idle(Refilled(b)) = 0
    BY <2>2 DEF Idle
  <2>. QED  BY <2>2, <2>3, <2>4, <2>5 DEF BucketState
<1>4. CASE ~ (Clock > b.lastRefill /\ RefillRate > 0)
  <2>1. ~ (tokensToAdd > 0)
    BY <1>1, <1>4
  <2>2. Refilled(b) = b
    BY <2>1 DEF Refilled
  <2>3. Idle(b) * RefillRate = 0
    BY <1>1, <1>4 DEF Idle
  <2>4. Worth(b) = b.tokens
    BY <1>1, <2>3 DEF Worth, Least
  <2>. QED  BY <2>2, <2>3, <2>4
<1>. QED  BY <1>3, <1>4

(* With nothing idle, a bucket is worth the tokens in it.                  *)
LEMMA WorthOfSettled ==
    ASSUME Clock \in Int, NEW b \in BucketState, NEW k \in 0..Full,
           Idle(b) * RefillRate = 0
    PROVE  /\ Worth([b EXCEPT !.tokens = k]) = k
           /\ [b EXCEPT !.tokens = k] \in BucketState
<1>1. Full \in Nat
  BY FullIsPositive
<1>2. /\ [b EXCEPT !.tokens = k].tokens = k
      /\ [b EXCEPT !.tokens = k].lastRefill = b.lastRefill
      /\ [b EXCEPT !.tokens = k] \in BucketState
  BY DEF BucketState
<1>3. Idle([b EXCEPT !.tokens = k]) = Idle(b)
  BY <1>2 DEF Idle
<1>. QED  BY <1>1, <1>2, <1>3 DEF Worth, Least

(* A bucket is never worth more than the capacity.                         *)
LEMMA WorthIsBounded ==
    ASSUME Clock \in Int, NEW b \in BucketState
    PROVE  Worth(b) \in 0..Full
BY RefillMovesWorth DEF BucketState

-----------------------------------------------------------------------------
(* Type correctness.                                                       *)

(* The bucket of a tenant is well formed, also when it is made now.        *)
LEMMA BucketType ==
    ASSUME TypeOK, NEW t \in Tenant
    PROVE  Clock \in Int /\ GetBucket(t) \in BucketState
<1>1. Clock \in Int
  BY DEF TypeOK, Clock
<1>2. PICK D \in SUBSET Tenant : buckets \in [D -> BucketState]
  BY DEF TypeOK
<1>3. [tokens |-> Full, lastRefill |-> Clock] \in BucketState
  BY <1>1, FullIsPositive DEF BucketState
<1>. QED  BY <1>1, <1>2, <1>3 DEF GetBucket

(* Replacing one bucket leaves the others alone.                           *)
LEMMA SetBucketType ==
    ASSUME TypeOK, NEW t \in Tenant, NEW b \in BucketState
    PROVE  /\ \E D \in SUBSET Tenant : SetBucket(t, b) \in [D -> BucketState]
           /\ t \in DOMAIN SetBucket(t, b)
           /\ SetBucket(t, b)[t] = b
           /\ \A u \in Tenant \ {t} :
                  /\ u \in DOMAIN SetBucket(t, b) <=> u \in DOMAIN buckets
                  /\ u \in DOMAIN buckets => SetBucket(t, b)[u] = buckets[u]
<1>1. PICK D \in SUBSET Tenant : buckets \in [D -> BucketState]
  BY DEF TypeOK
<1>2. SetBucket(t, b) \in [D \cup {t} -> BucketState]
  BY <1>1 DEF SetBucket
<1>3. D \cup {t} \in SUBSET Tenant
  OBVIOUS
<1>. QED  BY <1>1, <1>2, <1>3 DEF SetBucket

(* The types hold at the start.                                            *)
LEMMA InitType == Init => TypeOK
<1>. SUFFICES ASSUME Init PROVE TypeOK
  OBVIOUS
<1>1. buckets \in [{} -> BucketState] /\ {} \in SUBSET Tenant
  BY DEF Init
<1>. QED  BY <1>1 DEF Init, TypeOK

(* The types hold after every step.                                        *)
LEMMA NextType ==
    ASSUME TypeOK, [Next]_vars
    PROVE  TypeOK'
<1>1. ASSUME NEW t \in Tenant, Take(t) PROVE TypeOK'
  <2>. DEFINE b == Refilled(GetBucket(t))
              c == [b EXCEPT !.tokens = @ - Milli]
  <2>1. b \in BucketState
    BY BucketType, RefillMovesWorth
  <2>2. c \in BucketState
    BY <1>1, <2>1, FullIsPositive DEF Take, BucketState
  <2>3. \E D \in SUBSET Tenant : buckets' \in [D -> BucketState]
    BY <1>1, <2>2, SetBucketType DEF Take
  <2>4. allowed' \in [Tenant -> Nat]
    BY <1>1 DEF Take, TypeOK
  <2>. QED  BY <1>1, <2>3, <2>4 DEF Take, TypeOK
<1>2. ASSUME NEW t \in Tenant, Refuse(t) PROVE TypeOK'
  <2>1. Refilled(GetBucket(t)) \in BucketState
    BY BucketType, RefillMovesWorth
  <2>2. \E D \in SUBSET Tenant : buckets' \in [D -> BucketState]
    BY <1>2, <2>1, SetBucketType DEF Refuse
  <2>. QED  BY <1>2, <2>2 DEF Refuse, TypeOK
<1>3. CASE Restart
  <2>1. buckets' \in [{} -> BucketState] /\ {} \in SUBSET Tenant
    BY <1>3 DEF Restart
  <2>2. \E D \in SUBSET Tenant : buckets' \in [D -> BucketState]
    BY <2>1
  <2>3. /\ restarts' = restarts + 1
        /\ now' = now /\ behind' = behind /\ allowed' = allowed
    BY <1>3 DEF Restart
  <2>. QED  BY <2>2, <2>3 DEF TypeOK
<1>4. CASE Tick
  BY <1>4 DEF Tick, TypeOK
<1>5. CASE SetClockBack
  BY <1>5 DEF SetClockBack, TypeOK
<1>6. CASE UNCHANGED vars
  BY <1>6 DEF vars, TypeOK
<1>. QED  BY <1>1, <1>2, <1>3, <1>4, <1>5, <1>6 DEF Next, Allow

(* The buckets never hold less than nothing or more than the capacity,     *)
(* whatever the clock does.                                                *)
THEOREM TypeCorrect == Spec => []TypeOK
<1>1. Init => TypeOK
  BY InitType
<1>2. TypeOK /\ [Next]_vars => TypeOK'
  BY NextType
<1>. QED  BY <1>1, <1>2, PTL DEF Spec

-----------------------------------------------------------------------------
(* The bound on the rate.                                                  *)

(* A tenant without a bucket is worth a full one.                          *)
LEMMA FreshIsFull ==
    TypeOK => \A t \in Tenant : t \notin DOMAIN buckets => Level(t) = Full
<1>. SUFFICES ASSUME TypeOK, NEW t \in Tenant, t \notin DOMAIN buckets
             PROVE  Level(t) = Full
  OBVIOUS
<1>1. Clock \in Int /\ GetBucket(t) = [tokens |-> Full, lastRefill |-> Clock]
  BY BucketType DEF GetBucket
<1>2. Idle(GetBucket(t)) = 0
  BY <1>1 DEF Idle
<1>. QED  BY <1>1, <1>2, FullIsPositive DEF Level, Worth, Least

(* A level lies between nothing and the capacity.                          *)
LEMMA LevelIsBounded ==
    TypeOK => \A t \in Tenant : Level(t) \in 0..Full
BY BucketType, WorthIsBounded DEF Level

(* The same two facts about the state after a step.                        *)
LEMMA FreshIsFullNext ==
    TypeOK' => \A t \in Tenant : t \notin DOMAIN buckets' => Level(t)' = Full
<1>1. (TypeOK => \A t \in Tenant : t \notin DOMAIN buckets => Level(t) = Full)'
  BY FreshIsFull, PTL
<1>. QED  BY <1>1

LEMMA LevelIsBoundedNext ==
    TypeOK' => \A t \in Tenant : Level(t)' \in 0..Full
<1>1. (TypeOK => \A t \in Tenant : Level(t) \in 0..Full)'
  BY LevelIsBounded, PTL
<1>. QED  BY <1>1

(* A bucket that a step leaves alone is worth the same while the clock     *)
(* stands still.                                                           *)
LEMMA SameBucketSameLevel ==
    ASSUME TypeOK, TypeOK', NEW t \in Tenant, Clock' = Clock,
           t \in DOMAIN buckets' <=> t \in DOMAIN buckets,
           t \in DOMAIN buckets => buckets'[t] = buckets[t]
    PROVE  Level(t)' = Level(t)
BY DEF Level, Worth, Idle, GetBucket

(* Taking a token costs exactly one token; refusing costs nothing.         *)
LEMMA TakeCostsOne ==
    ASSUME TypeOK, TypeOK', NEW t \in Tenant, Take(t)
    PROVE  /\ Level(t)' = Level(t) - Milli
           /\ allowed'[t] = allowed[t] + 1
           /\ \A u \in Tenant \ {t} : /\ Level(u)' = Level(u)
                                      /\ allowed'[u] = allowed[u]
           /\ now' = now /\ restarts' = restarts
<1>. DEFINE b == Refilled(GetBucket(t))
            k == b.tokens - Milli
<1>1. Clock \in Int /\ Clock' = Clock
  BY BucketType DEF Take, Clock
<1>2. b \in BucketState /\ b.tokens = Level(t) /\ Idle(b) * RefillRate = 0
  BY BucketType, RefillMovesWorth DEF Level
<1>3. k \in 0..Full
  BY <1>2, FullIsPositive DEF Take, BucketState
<1>4. buckets' = SetBucket(t, [b EXCEPT !.tokens = k])
  BY DEF Take
<1>5. /\ Worth([b EXCEPT !.tokens = k]) = k
      /\ [b EXCEPT !.tokens = k] \in BucketState
  BY <1>1, <1>2, <1>3, WorthOfSettled
<1>6. GetBucket(t)' = [b EXCEPT !.tokens = k]
  BY <1>4, <1>5, SetBucketType DEF GetBucket
<1>7. Level(t)' = Worth([b EXCEPT !.tokens = k])
  BY <1>1, <1>6 DEF Level, Worth, Idle
<1>8. \A u \in Tenant \ {t} : Level(u)' = Level(u)
  <2>1. \A u \in Tenant \ {t} :
            /\ u \in DOMAIN buckets' <=> u \in DOMAIN buckets
            /\ u \in DOMAIN buckets => buckets'[u] = buckets[u]
    BY <1>4, <1>5, SetBucketType
  <2>. QED  BY <1>1, <2>1, SameBucketSameLevel
<1>. QED  BY <1>2, <1>5, <1>7, <1>8 DEF Take, TypeOK

(* A refusal changes no level.                                             *)
LEMMA RefuseCostsNothing ==
    ASSUME TypeOK, TypeOK', NEW t \in Tenant, Refuse(t)
    PROVE  \A u \in Tenant : Level(u)' = Level(u)
<1>. DEFINE b == Refilled(GetBucket(t))
<1>1. Clock \in Int /\ Clock' = Clock
  BY BucketType DEF Refuse, Clock
<1>2. b \in BucketState /\ b.tokens = Level(t) /\ Idle(b) * RefillRate = 0
  BY BucketType, RefillMovesWorth DEF Level
<1>3. b.tokens \in 0..Full
  BY <1>2 DEF BucketState
<1>4. buckets' = SetBucket(t, b)
  BY DEF Refuse
<1>5. GetBucket(t)' = b
  BY <1>2, <1>4, SetBucketType DEF GetBucket
<1>6. Worth(b) = b.tokens
  BY <1>2, <1>3, FullIsPositive DEF Worth, Least
<1>7. Level(t)' = Worth(b)
  BY <1>1, <1>5 DEF Level, Worth, Idle
<1>8. \A u \in Tenant \ {t} : Level(u)' = Level(u)
  BY <1>1, <1>2, <1>4, SetBucketType, SameBucketSameLevel
<1>. QED  BY <1>2, <1>6, <1>7, <1>8

(* A bucket nobody touches gains at most the refill rate in a millisecond, *)
(* loses nothing as time passes, and gains nothing from a clock set back.  *)
LEMMA WorthOverTime ==
    ASSUME TypeOK, TypeOK', NEW t \in Tenant, buckets' = buckets
    PROVE  /\ Clock' = Clock + 1 => /\ Level(t)' >= Level(t)
                                    /\ Level(t)' <= Level(t) + RefillRate
           /\ Clock' = Clock - 1 => Level(t)' <= Level(t)
<1>1. CASE t \notin DOMAIN buckets
  <2>1. Level(t) = Full
    BY <1>1, FreshIsFull
  <2>2. Level(t)' = Full
    BY <1>1, FreshIsFullNext
  <2>. QED  BY <2>1, <2>2, FullIsPositive
<1>2. CASE t \in DOMAIN buckets
  <2>. DEFINE b == buckets[t]
              g == Idle(b) * RefillRate
              h == Idle(b)' * RefillRate
  <2>1. /\ GetBucket(t) = b /\ GetBucket(t)' = b
        /\ b \in BucketState /\ Clock \in Int
    BY <1>2, BucketType DEF GetBucket
  <2>2. Idle(b) \in Nat
    BY <2>1 DEF Idle, BucketState
  <2>3. Level(t) = Least(Full, b.tokens + g)
    BY <2>1 DEF Level, Worth
  <2>4. Level(t)' = Least(Full, b.tokens + h)
    BY <2>1 DEF Level, Worth
  <2>5. b.tokens \in Nat /\ Full \in Nat /\ g \in Nat
    BY <2>1, <2>2, ProductIsNat, FullIsPositive DEF BucketState
  <2>6. ASSUME Clock' = Clock + 1
        PROVE  /\ Level(t)' >= Level(t)
               /\ Level(t)' <= Level(t) + RefillRate
    <3>1. /\ Idle(b)' \in Nat
          /\ Idle(b) <= Idle(b)'
          /\ Idle(b)' <= Idle(b) + 1
      BY <2>1, <2>6 DEF Idle, BucketState
    <3>2. h \in Nat /\ g <= h /\ h <= g + RefillRate
      BY <2>2, <3>1, ProductIsNat, ProductIsMonotone, ProductGrows
    <3>3. Least(Full, b.tokens + h) >= Least(Full, b.tokens + g)
      BY <2>5, <3>2 DEF Least
    <3>4. Least(Full, b.tokens + h) <= Least(Full, b.tokens + g) + RefillRate
      BY <2>5, <3>2 DEF Least
    <3>. QED  BY <2>3, <2>4, <3>3, <3>4
  <2>7. ASSUME Clock' = Clock - 1
        PROVE  Level(t)' <= Level(t)
    <3>1. Idle(b)' \in Nat /\ Idle(b)' <= Idle(b)
      BY <2>1, <2>7 DEF Idle, BucketState
    <3>2. h \in Nat /\ h <= g
      BY <2>2, <3>1, ProductIsNat, ProductIsMonotone
    <3>3. Least(Full, b.tokens + h) <= Least(Full, b.tokens + g)
      BY <2>5, <3>2 DEF Least
    <3>. QED  BY <2>3, <2>4, <3>3
  <2>. QED  BY <2>6, <2>7
<1>. QED  BY <1>1, <1>2

(* The right side of RateBound.                                            *)
Budget == (1 + restarts) * Full + RefillRate * now

(* A restart adds a full bucket to the budget, a millisecond the rate.     *)
LEMMA BudgetGrows ==
    ASSUME TypeOK
    PROVE  /\ Budget \in Nat
           /\ now' = now + 1 /\ restarts' = restarts
                  => Budget' = Budget + RefillRate
           /\ now' = now /\ restarts' = restarts + 1 => Budget' = Budget + Full
           /\ now' = now /\ restarts' = restarts => Budget' = Budget
<1>1. now \in Nat /\ restarts \in Nat /\ Full \in Nat
  BY FullIsPositive DEF TypeOK
<1>2. Budget \in Nat
  BY <1>1, ProductIsNat DEF Budget
<1>3. RefillRate * (now + 1) = RefillRate * now + RefillRate
  BY <1>1
<1>4. (1 + (restarts + 1)) * Full = (1 + restarts) * Full + Full
  BY <1>1
<1>5. (1 + restarts) * Full \in Nat /\ RefillRate * now \in Nat
  BY <1>1, ProductIsNat
<1>. QED  BY <1>1, <1>2, <1>3, <1>4, <1>5 DEF Budget

(* The bound holds at the start.                                           *)
LEMMA InitBound == Init => RateBound
<1>. SUFFICES ASSUME Init, NEW t \in Tenant
             PROVE  Milli * allowed[t] + Level(t) <= Budget
  BY DEF RateBound, Budget
<1>1. TypeOK /\ t \notin DOMAIN buckets
  BY InitType DEF Init
<1>2. Level(t) = Full /\ allowed[t] = 0
  BY <1>1, FreshIsFull DEF Init
<1>3. Budget = Full
  BY FullIsPositive DEF Init, Budget
<1>. QED  BY <1>2, <1>3, FullIsPositive

(* The bound holds after every step.                                       *)
LEMMA NextBound ==
    ASSUME TypeOK, TypeOK', RateBound, [Next]_vars
    PROVE  RateBound'
<1>. SUFFICES ASSUME NEW u \in Tenant
             PROVE  Milli * allowed'[u] + Level(u)' <= Budget'
  BY DEF RateBound, Budget
<1>0. /\ Milli * allowed[u] + Level(u) <= Budget
      /\ Level(u) \in 0..Full /\ Full \in Nat /\ allowed[u] \in Nat
      /\ Budget \in Nat /\ Milli = 1000
  BY LevelIsBounded, FullIsPositive, BudgetGrows DEF RateBound, Budget, TypeOK
<1>1. ASSUME NEW t \in Tenant, Take(t)
      PROVE  Milli * allowed'[u] + Level(u)' <= Budget'
  <2>1. Budget' = Budget
    BY <1>1, TakeCostsOne, BudgetGrows
  <2>2. CASE u = t
    <3>1. Level(u)' = Level(u) - Milli /\ allowed'[u] = allowed[u] + 1
      BY <1>1, <2>2, TakeCostsOne
    <3>. QED  BY <1>0, <2>1, <3>1
  <2>3. CASE u # t
    <3>1. Level(u)' = Level(u) /\ allowed'[u] = allowed[u]
      BY <1>1, <2>3, TakeCostsOne
    <3>. QED  BY <1>0, <2>1, <3>1
  <2>. QED  BY <2>2, <2>3
<1>2. ASSUME NEW t \in Tenant, Refuse(t)
      PROVE  Milli * allowed'[u] + Level(u)' <= Budget'
  <2>1. Level(u)' = Level(u)
    BY <1>2, RefuseCostsNothing
  <2>2. allowed' = allowed /\ Budget' = Budget
    BY <1>2, BudgetGrows DEF Refuse
  <2>. QED  BY <1>0, <2>1, <2>2
<1>3. CASE Restart
  <2>1. allowed' = allowed /\ Budget' = Budget + Full
    BY <1>3, BudgetGrows DEF Restart
  <2>2. Level(u)' \in 0..Full
    BY LevelIsBoundedNext
  <2>. QED  BY <1>0, <2>1, <2>2
<1>4. CASE Tick
  <2>1. allowed' = allowed /\ Budget' = Budget + RefillRate
    BY <1>4, BudgetGrows DEF Tick
  <2>2. Clock' = Clock + 1
    BY <1>4 DEF Tick, Clock, TypeOK
  <2>3. Level(u)' <= Level(u) + RefillRate /\ Level(u)' \in 0..Full
    BY <1>4, <2>2, WorthOverTime, LevelIsBoundedNext DEF Tick
  <2>. QED  BY <1>0, <2>1, <2>3
<1>5. CASE SetClockBack
  <2>1. allowed' = allowed /\ Budget' = Budget
    BY <1>5, BudgetGrows DEF SetClockBack
  <2>2. Clock' = Clock - 1
    BY <1>5 DEF SetClockBack, Clock, TypeOK
  <2>3. Level(u)' <= Level(u) /\ Level(u)' \in 0..Full
    BY <1>5, <2>2, WorthOverTime, LevelIsBoundedNext DEF SetClockBack
  <2>. QED  BY <1>0, <2>1, <2>3
<1>6. CASE UNCHANGED vars
  <2>1. Level(u)' = Level(u)
    BY <1>6 DEF vars, Level, Worth, Idle, GetBucket, Clock
  <2>2. allowed' = allowed /\ Budget' = Budget
    BY <1>6 DEF vars, Budget
  <2>. QED  BY <1>0, <2>1, <2>2
<1>. QED  BY <1>1, <1>2, <1>3, <1>4, <1>5, <1>6 DEF Next, Allow

(* A tenant never gets more than a full bucket, another one for every      *)
(* restart, and the refill rate times the time that has really passed,     *)
(* although the clock may be set back any number of times.                 *)
THEOREM RateIsBounded == Spec => []RateBound
<1>1. Init => TypeOK /\ RateBound
  BY InitType, InitBound
<1>2. TypeOK /\ RateBound /\ [Next]_vars => (TypeOK /\ RateBound)'
  BY NextType, NextBound
<1>. QED  BY <1>1, <1>2, PTL DEF Spec

-----------------------------------------------------------------------------
(* The cost of a refusal.                                                  *)

(* A step that lets nothing through lowers no level.                       *)
LEMMA StepKeepsLevels ==
    ASSUME TypeOK, TypeOK', [Next]_vars,
           allowed' = allowed, restarts' = restarts, behind' = behind
    PROVE  \A u \in Tenant : Level(u)' >= Level(u)
<1>. SUFFICES ASSUME NEW u \in Tenant PROVE Level(u)' >= Level(u)
  OBVIOUS
<1>0. Level(u) \in Int /\ allowed[u] \in Nat /\ restarts \in Nat
      /\ behind \in Nat
  BY LevelIsBounded, FullIsPositive DEF TypeOK
<1>1. ASSUME NEW t \in Tenant, Take(t) PROVE FALSE
  <2>1. allowed'[t] = allowed[t] + 1
    BY <1>1, TakeCostsOne
  <2>. QED  BY <2>1 DEF TypeOK
<1>2. ASSUME NEW t \in Tenant, Refuse(t) PROVE Level(u)' >= Level(u)
  BY <1>0, <1>2, RefuseCostsNothing
<1>3. CASE Restart
  BY <1>0, <1>3 DEF Restart
<1>4. CASE Tick
  <2>1. Clock' = Clock + 1
    BY <1>4 DEF Tick, Clock, TypeOK
  <2>. QED  BY <1>4, <2>1, WorthOverTime DEF Tick
<1>5. CASE SetClockBack
  BY <1>0, <1>5 DEF SetClockBack
<1>6. CASE UNCHANGED vars
  <2>1. Level(u)' = Level(u)
    BY <1>6 DEF vars, Level, Worth, Idle, GetBucket, Clock
  <2>. QED  BY <1>0, <2>1
<1>. QED  BY <1>1, <1>2, <1>3, <1>4, <1>5, <1>6 DEF Next, Allow

(* No call that is refused, and no passing of time, takes anything from    *)
(* any tenant: calling an empty bucket does not delay its refill.          *)
THEOREM RefusalsAreFree == Spec => RefusalsCostNothing
<1>1. TypeOK /\ TypeOK' /\ [Next]_vars =>
          [\A t \in Tenant :
               allowed' = allowed /\ restarts' = restarts /\ behind' = behind =>
                   Level(t)' >= Level(t)]_vars
  BY StepKeepsLevels
<1>. QED  BY <1>1, TypeCorrect, PTL DEF Spec, RefusalsCostNothing
=============================================================================
