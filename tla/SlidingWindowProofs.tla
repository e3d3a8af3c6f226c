-------------------------- MODULE SlidingWindowProofs --------------------------
(***************************************************************************)
(* Proofs about SlidingWindow, for every set of requests, every window,    *)
(* limit and pressure, and any disorder of the timestamps that the grace   *)
(* of the key covers.                                                      *)
(*                                                                         *)
(* An allowed request can leave the sorted set in two ways. The purge by a *)
(* script takes it only when that script's timestamp has put the request   *)
(* outside the latest window. The expiry of the key takes it only a window *)
(* and the longest delay after its timestamp, because its own script ran   *)
(* at most MaxAhead before its timestamp and gave the key TtlMs from then. *)
(***************************************************************************)
EXTENDS SlidingWindow, FiniteSetTheorems, TLAPS

USE WindowAssumption, DisorderAssumption

-----------------------------------------------------------------------------
(* Times that bound one another.                                           *)

(* A timestamp is what a clock that may be ahead showed when it was sent.  *)
SentInThePast ==
    \A r \in Request : /\ args[r].sent <= now
                       /\ args[r].sent <= args[r].now
                       /\ args[r].now <= args[r].sent + MaxAhead

(* The key lives for TtlMs from now at most, and with every allowed        *)
(* request for a window and the longest delay after its timestamp.         *)
KeyLives ==
    /\ expireAt <= now + TtlMs
    /\ \A r \in Allowed : expireAt >= args[r].now + WindowMs + MaxDelay

CommandsAreSent == \A r \in commands : call[r] # "idle"

IInv ==
    /\ TypeOK
    /\ SentInThePast
    /\ KeyLives
    /\ CommandsAreSent
    /\ RecentAreCounted
    /\ IsFiniteSet(DOMAIN zset)

-----------------------------------------------------------------------------
(* Rounding the window up to seconds loses none of it.                     *)
LEMMA TtlCovers == TtlMs \in Nat /\ TtlMs >= WindowMs + MaxAhead + MaxDelay
<1>. DEFINE seconds == (WindowMs + SecondMs - 1) \div SecondMs
<1>1. seconds \in Nat /\ seconds * SecondMs >= WindowMs
  OBVIOUS
<1>2. seconds * SecondMs \in Nat /\ GraceSeconds * SecondMs \in Nat
  BY <1>1
<1>3. TtlMs = seconds * SecondMs + GraceSeconds * SecondMs
  BY <1>1 DEF TtlMs
<1>. QED  BY <1>1, <1>2, <1>3

(* The limit under any pressure is a positive number.                      *)
LEMMA LimitIsPositive ==
    ASSUME NEW pressure \in Pressure, NEW mult \in Multiplier
    PROVE  AdaptiveLimit(pressure, mult) \in Nat /\ AdaptiveLimit(pressure, mult) >= 1
<1>1. mult \in Nat /\ 100 - pressure \in Nat
  OBVIOUS
<1>2. BaseRateLimit * mult \in Nat
  BY <1>1
<1>3. BaseRateLimit * mult * (100 - pressure) \in Nat
  BY <1>1, <1>2
<1>4. (BaseRateLimit * mult * (100 - pressure)) \div 100 \in Nat
  BY <1>3
<1>. QED  BY <1>4 DEF AdaptiveLimit, Most

-----------------------------------------------------------------------------
(* The invariant.                                                          *)

(* It holds at the start.                                                  *)
LEMMA InitInv == Init => IInv
<1>. SUFFICES ASSUME Init PROVE IInv
  OBVIOUS
<1>1. zset = <<>> /\ DOMAIN zset = {} /\ zset \in [{} -> Nat]
  BY DEF Init
<1>2. TypeOK
  BY <1>1 DEF Init, TypeOK, Status, Arguments
<1>3. Allowed = {}
  BY DEF Init, Allowed
<1>. QED  BY <1>1, <1>2, <1>3, TtlCovers, FS_EmptySet
          DEF Init, IInv, SentInThePast, KeyLives, CommandsAreSent, RecentAreCounted, Recent

(* A call sends a new timestamp for a request that is not allowed yet.     *)
LEMMA SendInv ==
    ASSUME IInv, NEW r \in Request, Send(r)
    PROVE  IInv'
<1>1. PICK ahead \in 0..MaxAhead, pressure \in Pressure, mult \in Multiplier :
          args' = [args EXCEPT ![r] = [now   |-> now + ahead,
                                       limit |-> AdaptiveLimit(pressure, mult),
                                       sent  |-> now]]
  BY DEF Send
<1>2. /\ call[r] = "idle" /\ call' = [call EXCEPT ![r] = "waiting"]
      /\ commands' = commands \cup {r}
      /\ UNCHANGED <<now, zset, expireAt, latest>>
  BY DEF Send
<1>3. /\ args \in [Request -> Arguments] /\ call \in [Request -> Status]
      /\ commands \subseteq Request /\ now \in Nat
  BY DEF IInv, TypeOK
<1>4. /\ args'[r] = [now |-> now + ahead, limit |-> AdaptiveLimit(pressure, mult),
                     sent |-> now]
      /\ args'[r] \in Arguments /\ args'[r].limit >= 1
      /\ args'[r].now = now + ahead /\ args'[r].sent = now
  BY <1>1, <1>3, LimitIsPositive DEF Arguments
<1>5. \A q \in Request : q # r => args'[q] = args[q] /\ call'[q] = call[q]
  BY <1>1, <1>2, <1>3
<1>6. args' \in [Request -> Arguments] /\ call' \in [Request -> Status]
  BY <1>1, <1>2, <1>3, <1>4 DEF Status
<1>7. call'[r] = "waiting"
  BY <1>2, <1>3
<1>8. TypeOK'
  BY <1>2, <1>3, <1>4, <1>5, <1>6 DEF IInv, TypeOK
<1>9. SentInThePast'
  BY <1>2, <1>3, <1>4, <1>5 DEF IInv, SentInThePast
<1>10. Allowed' = Allowed /\ r \notin Allowed
  BY <1>2, <1>5, <1>7 DEF Allowed
<1>11. KeyLives'
  BY <1>2, <1>5, <1>10 DEF IInv, KeyLives, Allowed, TtlMs
<1>12. CommandsAreSent'
  BY <1>2, <1>3, <1>5, <1>7 DEF IInv, CommandsAreSent
<1>13. RecentAreCounted'
  BY <1>2, <1>5, <1>10 DEF IInv, RecentAreCounted, Recent, Allowed
<1>. QED  BY <1>2, <1>8, <1>9, <1>11, <1>12, <1>13 DEF IInv

(* What a script leaves behind: its own request in the set, the others of  *)
(* the latest window where they were, and a key that lives long enough for *)
(* all of them.                                                            *)
LEMMA ScriptFacts ==
    ASSUME IInv, NEW r \in Request, Script(r)
    PROVE  /\ \E D \in SUBSET Request : zset' \in [D -> Nat]
           /\ DOMAIN zset' = Kept(r) \cup {r}
           /\ IsFiniteSet(DOMAIN zset')
           /\ r \in DOMAIN zset' /\ zset'[r] = args[r].now
           /\ \A q \in Kept(r) : zset'[q] = zset[q] \/ q = r
           /\ latest' \in Nat /\ latest' >= latest /\ latest' >= args[r].now
           /\ expireAt' \in Nat /\ expireAt' <= now' + TtlMs' /\ expireAt' >= expireAt
           /\ expireAt' >= args[r].now + WindowMs + MaxDelay
           /\ args[r].now >= now - MaxDelay
<1>1. /\ r \in commands /\ now <= args[r].sent + MaxDelay
      /\ zset' = ZAdd(r) /\ expireAt' = now + TtlMs
      /\ latest' = Most(latest, args[r].now)
      /\ now' = now
  BY DEF Script
<1>2. /\ now \in Nat /\ latest \in Nat /\ expireAt \in Nat /\ commands \subseteq Request
      /\ args[r].now \in Nat /\ args[r].sent \in Nat
      /\ args[r].sent <= now /\ args[r].sent <= args[r].now
      /\ args[r].now <= args[r].sent + MaxAhead
      /\ expireAt <= now + TtlMs
  BY DEF IInv, TypeOK, SentInThePast, KeyLives, Arguments
<1>3. PICK D \in SUBSET Request : zset \in [D -> Nat]
  BY DEF IInv, TypeOK
<1>4. Kept(r) \subseteq DOMAIN zset /\ Kept(r) \cup {r} \in SUBSET Request
  BY <1>3 DEF Kept
<1>5. IsFiniteSet(Kept(r) \cup {r})
  BY <1>4, FS_Subset, FS_AddElement DEF IInv
<1>6. zset' \in [Kept(r) \cup {r} -> Nat]
  BY <1>1, <1>2, <1>3, <1>4 DEF ZAdd
<1>7. /\ DOMAIN zset' = Kept(r) \cup {r}
      /\ r \in DOMAIN zset' /\ zset'[r] = args[r].now
      /\ \A q \in Kept(r) : zset'[q] = zset[q] \/ q = r
  BY <1>1 DEF ZAdd
<1>8. latest' \in Nat /\ latest' >= latest /\ latest' >= args[r].now
  BY <1>1, <1>2 DEF Most
<1>9. /\ expireAt' \in Nat /\ expireAt' <= now' + TtlMs' /\ expireAt' >= expireAt
      /\ expireAt' >= args[r].now + WindowMs + MaxDelay
  BY <1>1, <1>2, TtlCovers DEF TtlMs
<1>10. args[r].now >= now - MaxDelay
  BY <1>1, <1>2
<1>. QED  BY <1>4, <1>5, <1>6, <1>7, <1>8, <1>9, <1>10

(* Hence whoever was allowed and is still of the latest window is counted. *)
LEMMA ScriptKeepsRecent ==
    ASSUME IInv, NEW r \in Request, Script(r), NEW q \in Request,
           q \in Allowed, args[q].now > latest' - WindowMs
    PROVE  q \in DOMAIN zset' /\ zset'[q] = args[q].now /\ q \in Kept(r) \cup {r}
<1>1. /\ latest' >= latest /\ latest' >= args[r].now /\ latest' \in Nat
      /\ args[r].now >= now - MaxDelay
      /\ DOMAIN zset' = Kept(r) \cup {r} /\ zset'[r] = args[r].now
      /\ \A u \in Kept(r) : zset'[u] = zset[u] \/ u = r
  BY ScriptFacts
<1>2. now \in Nat /\ latest \in Nat /\ args[q].now \in Nat /\ args[r].now \in Nat
  BY DEF IInv, TypeOK, Arguments
<1>3. q \in Recent /\ args[q].now > now - MaxDelay - WindowMs
  BY <1>1, <1>2 DEF Recent
<1>4. q \in DOMAIN zset /\ zset[q] = args[q].now
  BY <1>3 DEF IInv, RecentAreCounted
<1>5. q \in Kept(r)
  BY <1>1, <1>2, <1>4 DEF Kept
<1>. QED  BY <1>1, <1>4, <1>5

(* A script, whether its caller hears of it or not.                        *)
LEMMA ScriptInv ==
    ASSUME IInv, NEW r \in Request, Script(r),
           commands' \subseteq commands, call' \in [Request -> Status],
           \A q \in Request : call'[q] = "idle" <=> call[q] = "idle",
           Allowed' \subseteq Allowed \cup {r}
    PROVE  IInv'
<1>1. now' = now /\ args' = args
  BY DEF Script
<1>2. TypeOK'
  BY <1>1, ScriptFacts DEF IInv, TypeOK
<1>3. SentInThePast'
  BY <1>1 DEF IInv, SentInThePast
<1>4. KeyLives'
  <2>1. \A q \in Allowed' : q \in Allowed \/ q = r
    OBVIOUS
  <2>2. \A q \in Request : args[q].now \in Nat
    BY DEF IInv, TypeOK, Arguments
  <2>3. Allowed' \subseteq Request /\ expireAt \in Nat
    BY DEF Allowed, IInv, TypeOK
  <2>4. ASSUME NEW q \in Allowed'
        PROVE  expireAt' >= args[q].now + WindowMs + MaxDelay
    <3>1. CASE q \in Allowed
      <4>1. expireAt >= args[q].now + WindowMs + MaxDelay
        BY <3>1 DEF IInv, KeyLives
      <4>2. expireAt' \in Nat /\ expireAt' >= expireAt /\ args[q].now \in Nat
        BY <2>2, <2>3, <3>1, ScriptFacts DEF Allowed
      <4>. QED  BY <2>3, <4>1, <4>2
    <3>2. CASE q = r
      BY <3>2, ScriptFacts
    <3>. QED  BY <2>1, <3>1, <3>2
  <2>. QED  BY <1>1, <2>4, ScriptFacts DEF KeyLives
<1>5. CommandsAreSent'
  BY DEF IInv, TypeOK, CommandsAreSent
<1>6. RecentAreCounted'
  <2>1. SUFFICES ASSUME NEW q \in Recent'
                 PROVE  q \in DOMAIN zset' /\ zset'[q] = args'[q].now
    BY DEF RecentAreCounted
  <2>2. /\ q \in Request /\ q \in Allowed \cup {r}
        /\ args[q].now > latest' - WindowMs
    BY <1>1 DEF Recent, Allowed
  <2>3. CASE q \in Allowed
    BY <1>1, <2>2, <2>3, ScriptKeepsRecent
  <2>4. CASE q = r
    BY <1>1, <2>4, ScriptFacts
  <2>. QED  BY <2>2, <2>3, <2>4
<1>. QED  BY <1>2, <1>3, <1>4, <1>5, <1>6, ScriptFacts DEF IInv

(* The script runs and the caller hears the verdict, or it does not.       *)
LEMMA RunInv ==
    ASSUME IInv, NEW r \in Request, Run(r) \/ RunUnheard(r)
    PROVE  IInv'
<1>1. call \in [Request -> Status] /\ Script(r)
  BY DEF IInv, TypeOK, Run, RunUnheard
<1>2. CASE Run(r)
  <2>1. Verdict(r) \in {"rejected", "allowed"}
    BY DEF Verdict
  <2>2. /\ commands' = commands \ {r}
        /\ call' = IF call[r] = "waiting" THEN [call EXCEPT ![r] = Verdict(r)] ELSE call
    BY <1>2 DEF Run
  <2>3. /\ call' \in [Request -> Status]
        /\ \A q \in Request : q # r => call'[q] = call[q]
        /\ call'[r] = "idle" <=> call[r] = "idle"
    BY <1>1, <2>1, <2>2 DEF Status
  <2>4. Allowed' \subseteq Allowed \cup {r}
    BY <2>3 DEF Allowed
  <2>. QED  BY <1>1, <2>2, <2>3, <2>4, ScriptInv
<1>3. CASE RunUnheard(r)
  BY <1>1, <1>3, ScriptInv DEF RunUnheard, Allowed
<1>. QED  BY <1>2, <1>3

(* A caller that gives up is not allowed.                                  *)
LEMMA FailInv ==
    ASSUME IInv, NEW r \in Request, Fail(r)
    PROVE  IInv'
<1>1. /\ call[r] = "waiting" /\ call' = [call EXCEPT ![r] = "rejected"]
      /\ commands' \subseteq commands
      /\ UNCHANGED <<now, args, zset, expireAt, latest>>
  BY DEF Fail
<1>2. /\ call \in [Request -> Status] /\ commands \subseteq Request
      /\ call' \in [Request -> Status]
      /\ call'[r] = "rejected"
      /\ \A q \in Request : q # r => call'[q] = call[q]
  BY <1>1 DEF IInv, TypeOK, Status
<1>3. Allowed' = Allowed
  BY <1>1, <1>2 DEF Allowed
<1>4. TypeOK'
  BY <1>1, <1>2 DEF IInv, TypeOK
<1>5. SentInThePast'
  BY <1>1 DEF IInv, SentInThePast
<1>6. KeyLives'
  BY <1>1, <1>3 DEF IInv, KeyLives, TtlMs
<1>7. CommandsAreSent'
  BY <1>1, <1>2 DEF IInv, CommandsAreSent
<1>8. RecentAreCounted'
  BY <1>1, <1>3 DEF IInv, RecentAreCounted, Recent
<1>. QED  BY <1>1, <1>4, <1>5, <1>6, <1>7, <1>8 DEF IInv

(* When the key expires, no allowed request of a window to come is lost.   *)
LEMMA ExpireInv ==
    ASSUME IInv, Expire
    PROVE  IInv'
<1>1. /\ now >= expireAt /\ zset' = <<>>
      /\ UNCHANGED <<now, call, args, commands, expireAt, latest>>
  BY DEF Expire
<1>2. DOMAIN zset' = {} /\ zset' \in [{} -> Nat] /\ IsFiniteSet({})
  BY <1>1, FS_EmptySet
<1>3. TypeOK'
  BY <1>1, <1>2 DEF IInv, TypeOK
<1>4. SentInThePast' /\ CommandsAreSent'
  BY <1>1 DEF IInv, SentInThePast, CommandsAreSent
<1>5. KeyLives'
  BY <1>1 DEF IInv, KeyLives, Allowed, TtlMs
<1>6. RecentAreCounted'
  <2>. SUFFICES ASSUME NEW q \in Recent', args'[q].now > now' - MaxDelay - WindowMs
                PROVE  FALSE
    BY DEF RecentAreCounted
  <2>1. /\ q \in Allowed /\ args[q].now \in Nat /\ now \in Nat /\ expireAt \in Nat
        /\ args[q].now > now - MaxDelay - WindowMs
    BY <1>1 DEF Recent, Allowed, IInv, TypeOK, Arguments
  <2>2. expireAt >= args[q].now + WindowMs + MaxDelay
    BY <2>1 DEF IInv, KeyLives
  <2>. QED  BY <1>1, <2>1, <2>2
<1>. QED  BY <1>2, <1>3, <1>4, <1>5, <1>6 DEF IInv

(* Time passes; fewer requests are recent enough to matter.                *)
LEMMA TickInv ==
    ASSUME IInv, Tick
    PROVE  IInv'
<1>1. /\ now' = now + 1
      /\ UNCHANGED <<call, args, commands, zset, expireAt, latest>>
  BY DEF Tick
<1>2. now \in Nat /\ expireAt \in Nat /\ \A r \in Request : args[r].now \in Nat /\ args[r].sent \in Nat
  BY DEF IInv, TypeOK, Arguments
<1>3. TypeOK'
  BY <1>1, <1>2 DEF IInv, TypeOK
<1>4. SentInThePast' /\ CommandsAreSent'
  BY <1>1, <1>2 DEF IInv, SentInThePast, CommandsAreSent
<1>5. KeyLives'
  <2>1. expireAt' <= now' + TtlMs'
    BY <1>1, <1>2, TtlCovers DEF IInv, KeyLives, TtlMs
  <2>. QED  BY <1>1, <2>1 DEF IInv, KeyLives, Allowed
<1>6. RecentAreCounted'
  <2>1. Recent' = Recent /\ Recent \subseteq Request
    BY <1>1 DEF Recent, Allowed
  <2>. QED  BY <1>1, <1>2, <2>1 DEF IInv, RecentAreCounted
<1>. QED  BY <1>1, <1>3, <1>4, <1>5, <1>6 DEF IInv

(* Every step preserves the invariant.                                     *)
LEMMA NextInv ==
    ASSUME IInv, [Next]_vars
    PROVE  IInv'
<1>1. CASE UNCHANGED vars
  BY <1>1 DEF vars, IInv, TypeOK, SentInThePast, KeyLives, CommandsAreSent,
              RecentAreCounted, Recent, Allowed, TtlMs
<1>. QED  BY <1>1, SendInv, RunInv, FailInv, ExpireInv, TickInv DEF Next

-----------------------------------------------------------------------------
(* The state has its type; the limit sent with every script is positive.   *)
THEOREM TypeCorrect == Spec => []TypeOK
<1>1. IInv => TypeOK
  BY DEF IInv
<1>. QED  BY <1>1, InitInv, NextInv, PTL DEF Spec

(* Neither a purge nor the expiry of the key loses an allowed request that *)
(* a command on its way may have to be counted with.                       *)
THEOREM RecentCounted == Spec => []RecentAreCounted
<1>1. IInv => RecentAreCounted
  BY DEF IInv
<1>. QED  BY <1>1, InitInv, NextInv, PTL DEF Spec

(* The step that allows a request finds all the recent ones in the set it  *)
(* counts.                                                                 *)
LEMMA AllowedByCount ==
    ASSUME IInv, [Next]_vars, NEW r \in Request,
           call[r] = "waiting", call'[r] = "allowed"
    PROVE  Cardinality(Recent' \cup {r}) <= args[r].limit
<1>1. call \in [Request -> Status]
  BY DEF IInv, TypeOK
<1>2. ASSUME NEW q \in Request, Send(q) \/ RunUnheard(q) \/ Fail(q)
      PROVE  FALSE
  BY <1>1, <1>2 DEF Send, RunUnheard, Fail
<1>3. ~ (Expire \/ Tick \/ UNCHANGED vars)
  BY DEF Expire, Tick, vars
<1>4. Run(r)
  <2>1. PICK q \in Request : Run(q)
    BY <1>2, <1>3 DEF Next
  <2>. QED  BY <1>1, <2>1 DEF Run
<1>5. Script(r) /\ call' = [call EXCEPT ![r] = Verdict(r)] /\ args' = args
  BY <1>4 DEF Run, Script
<1>6. Verdict(r) = "allowed"
  BY <1>1, <1>5
<1>7. Cardinality(Kept(r) \cup {r}) \in Nat
  BY <1>5, ScriptFacts, FS_CardinalityType
<1>8. Cardinality(Kept(r) \cup {r}) <= args[r].limit
  BY <1>6, <1>7 DEF Verdict, IInv, TypeOK, Arguments
<1>9. Recent' \cup {r} \subseteq Kept(r) \cup {r}
  <2>1. SUFFICES ASSUME NEW q \in Recent', q # r PROVE q \in Kept(r) \cup {r}
    OBVIOUS
  <2>2. q \in Request /\ q \in Allowed /\ args[q].now > latest' - WindowMs
    BY <1>1, <1>5, <2>1 DEF Recent, Allowed
  <2>. QED  BY <1>5, <2>2, ScriptKeepsRecent
<1>10. IsFiniteSet(Kept(r) \cup {r})
  BY <1>5, ScriptFacts
<1>11. /\ IsFiniteSet(Recent' \cup {r})
       /\ Cardinality(Recent' \cup {r}) <= Cardinality(Kept(r) \cup {r})
  BY <1>9, <1>10, FS_Subset
<1>. QED  BY <1>7, <1>8, <1>11, FS_CardinalityType DEF IInv, TypeOK, Arguments

(* A request is allowed only within the limit of its latest window,        *)
(* whatever the order of the scripts and whoever gave up.                  *)
THEOREM WithinLimit == Spec => AllowedWithinLimit
<1>1. IInv /\ [Next]_vars =>
          [\A r \in Request :
              call[r] = "waiting" /\ call'[r] = "allowed" =>
                  Cardinality(Recent' \cup {r}) <= args[r].limit]_vars
  BY AllowedByCount
<1>. QED  BY <1>1, InitInv, NextInv, PTL DEF Spec, AllowedWithinLimit
=============================================================================
