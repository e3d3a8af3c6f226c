------------------------ MODULE GlobalPressureProofs ------------------------
(***************************************************************************)
(* Proofs about GlobalPressure, for every set of pods, every set of local  *)
(* pressures, and any gaps and times to live that satisfy TimeAssumption;  *)
(* and what the monitor, with the constants of the code                    *)
(* (pressureMonitor.ts:31, :62, :66), makes of the global pressure. The    *)
(* lemmas on averages are those of PressureMonitorProofs.                  *)
(***************************************************************************)
EXTENDS GlobalPressure, FiniteSetTheorems, TLAPS

VARIABLES load, history, requestCounts, currentPressure

(* The monitor of a pod.                                                   *)
Monitor ==
    INSTANCE PressureMonitorProofs
    WITH HistorySize <- 20, LagFull <- 100, RequestsFull <- 1000,
         Load <- [memory : 0..100, lag : Nat, busy : BOOLEAN]

-----------------------------------------------------------------------------
(* Averages.                                                               *)

(* The constants of the code are what the monitor assumes of them.         *)
LEMMA LoadsOfTheCode == Monitor!LoadsAreMeasured
BY DEF Monitor!LoadsAreMeasured

(* Both modules mean the same by a sum, a finite set and its size.         *)
LEMMA SameSums ==
    /\ \A f, S : Monitor!SumFunctionOnSet(f, S) = SumFunctionOnSet(f, S)
    /\ \A S : Monitor!IsFiniteSet(S) <=> IsFiniteSet(S)
    /\ \A S : Monitor!Cardinality(S) = Cardinality(S)
<1>1. \A f, S : Monitor!SumFunctionOnSet(f, S) = SumFunctionOnSet(f, S)
  BY DEF Monitor!SumFunctionOnSet, Monitor!FoldFunctionOnSet,
         Monitor!MapThenFoldSet, SumFunctionOnSet, FoldFunctionOnSet,
         MapThenFoldSet
<1>2. \A S : Monitor!IsFiniteSet(S) <=> IsFiniteSet(S)
  BY DEF Monitor!IsFiniteSet, IsFiniteSet
<1>3. \A S : Monitor!Cardinality(S) = Cardinality(S)
  BY DEF Monitor!Cardinality, Cardinality
<1>. QED  BY <1>1, <1>2, <1>3

(* An average of natural numbers is one, and not above all of them.        *)
LEMMA AverageBounds ==
    ASSUME NEW S, IsFiniteSet(S), S # {}, NEW f, NEW V \in SUBSET Nat,
           \A x \in S : f[x] \in V
    PROVE  /\ SumFunctionOnSet(f, S) \div Cardinality(S) \in Nat
           /\ \E v \in V : SumFunctionOnSet(f, S) \div Cardinality(S) <= v
<1>1. Monitor!IsFiniteSet(S)
  BY SameSums
<1>2. /\ Monitor!SumFunctionOnSet(f, S) \div Monitor!Cardinality(S) \in Nat
      /\ \E v \in V :
             Monitor!SumFunctionOnSet(f, S) \div Monitor!Cardinality(S) <= v
  BY <1>1, LoadsOfTheCode, Monitor!AverageBounds
<1>. QED  BY <1>2, SameSums

(* Functions that agree on a set have the same sum on it.                  *)
LEMMA SumsAgree ==
    ASSUME NEW S, IsFiniteSet(S), NEW f, NEW h, \A x \in S : f[x] = h[x]
    PROVE  SumFunctionOnSet(f, S) = SumFunctionOnSet(h, S)
<1>1. Monitor!IsFiniteSet(S)
  BY SameSums
<1>2. Monitor!SumFunctionOnSet(f, S) = Monitor!SumFunctionOnSet(h, S)
  BY <1>1, LoadsOfTheCode, Monitor!SumsAgree
<1>. QED  BY <1>2, SameSums

-----------------------------------------------------------------------------
(* The global pressure: slow pods are counted. The values averaged play no *)
(* part in it, so the invariant leaves them out.                           *)

USE PressureAssumption, TimeAssumption

(* The part of the types the argument needs.                               *)
TimesOK ==
    /\ alive \subseteq Pod
    /\ since \in [Pod -> 0..MaxGap]
    /\ missed \in [Pod -> 0..(Tolerated + 1)]
    /\ \A p \in Pod \ alive : missed[p] = Tolerated + 1
    /\ \A q \in DOMAIN keys : q \in Pod /\ keys[q].left \in Nat
    /\ \A q \in DOMAIN keys :
           keys[q] = [value |-> keys[q].value, left |-> keys[q].left]

(* A key has the time to live less what the failed publications and the    *)
(* time since may have taken.                                              *)
Lasts(p) ==
    /\ p \in DOMAIN keys
    /\ keys[p].left >= Ttl - missed[p] * MaxGap - since[p]

KeysLast == \A p \in alive : missed[p] <= Tolerated => Lasts(p)

IInv == TimesOK /\ KeysLast

(* What a tolerated number of failures takes leaves time for one more.     *)
LEMMA RoomForOneMore ==
    ASSUME NEW m \in 0..Tolerated
    PROVE  /\ m * MaxGap \in Nat
           /\ (m + 1) * MaxGap = m * MaxGap + MaxGap
           /\ m * MaxGap + MaxGap < Ttl
<1>1. m \in Nat /\ Tolerated - m \in Nat
  OBVIOUS
<1>2. m * MaxGap \in Nat /\ (Tolerated - m) * MaxGap \in Nat
  BY <1>1
<1>3. (m + 1) * MaxGap = m * MaxGap + MaxGap
  BY <1>1
<1>4. (Tolerated + 1) * MaxGap = m * MaxGap + (Tolerated - m) * MaxGap + MaxGap
  BY <1>1
<1>. QED  BY <1>2, <1>3, <1>4

(* The invariant holds at the start.                                       *)
LEMMA InitInv == Init => IInv
BY DEF Init, IInv, TimesOK, KeysLast

(* A publication renews the key of its pod.                                *)
LEMMA PublishInv ==
    ASSUME IInv, NEW p \in Pod, PublishLocalPressure(p)
    PROVE  IInv'
<1>1. /\ since' = [since EXCEPT ![p] = 0]
      /\ missed' = [missed EXCEPT ![p] = 0]
      /\ alive' = alive /\ p \in alive
      /\ DOMAIN keys' = DOMAIN keys \cup {p}
      /\ keys'[p].left = Ttl
      /\ \A q \in DOMAIN keys : q # p => keys'[q] = keys[q]
      /\ keys'[p] = [value |-> local[p], left |-> Ttl]
  BY DEF PublishLocalPressure, Written
<1>2. TimesOK'
  BY <1>1 DEF IInv, TimesOK
<1>3. ASSUME NEW q \in alive, missed'[q] <= Tolerated
      PROVE  Lasts(q)'
  <2>1. CASE q = p
    BY <1>1, <2>1 DEF Lasts, IInv, TimesOK
  <2>2. CASE q # p
    <3>1. missed'[q] = missed[q] /\ since'[q] = since[q]
      BY <1>1, <2>2 DEF IInv, TimesOK
    <3>2. Lasts(q)
      BY <1>3, <3>1 DEF IInv, KeysLast
    <3>. QED  BY <1>1, <2>2, <3>1, <3>2 DEF Lasts
  <2>. QED  BY <2>1, <2>2
<1>. QED  BY <1>1, <1>2, <1>3 DEF IInv, KeysLast

(* A failed one lets no more time pass than it counts for.                 *)
LEMMA PublishFailsInv ==
    ASSUME IInv, NEW p \in Pod, PublishFails(p)
    PROVE  IInv'
<1>0. /\ since \in [Pod -> 0..MaxGap]
      /\ missed \in [Pod -> 0..(Tolerated + 1)]
      /\ alive \subseteq Pod
      /\ \A q \in DOMAIN keys : keys[q].left \in Nat
  BY DEF IInv, TimesOK
<1>1. /\ since' = [since EXCEPT ![p] = 0]
      /\ missed' = [missed EXCEPT ![p] = Min({@ + 1, Tolerated + 1})]
      /\ alive' = alive /\ p \in alive
      /\ keys' = keys
  BY DEF PublishFails
<1>2. /\ Min({missed[p] + 1, Tolerated + 1}) \in 0..(Tolerated + 1)
      /\ Min({missed[p] + 1, Tolerated + 1}) <= Tolerated =>
             /\ missed[p] <= Tolerated
             /\ Min({missed[p] + 1, Tolerated + 1}) = missed[p] + 1
  <2>1. missed[p] \in 0..(Tolerated + 1)
    BY <1>0
  <2>2. Min({missed[p] + 1, Tolerated + 1}) =
            IF missed[p] <= Tolerated THEN missed[p] + 1 ELSE Tolerated + 1
    BY <2>1 DEF Min
  <2>. QED  BY <2>1, <2>2
<1>3. TimesOK'
  BY <1>0, <1>1, <1>2 DEF IInv, TimesOK
<1>4. ASSUME NEW q \in alive, missed'[q] <= Tolerated
      PROVE  Lasts(q)'
  <2>1. CASE q = p
    <3>1. /\ missed[p] \in 0..Tolerated /\ missed'[p] = missed[p] + 1
          /\ since[p] \in 0..MaxGap /\ since'[p] = 0
      BY <1>0, <1>1, <1>2, <1>4, <2>1
    <3>2. p \in DOMAIN keys /\ keys[p].left >= Ttl - missed[p] * MaxGap - since[p]
      BY <2>1, <3>1 DEF IInv, KeysLast, Lasts
    <3>3. /\ missed[p] * MaxGap \in Nat
          /\ (missed[p] + 1) * MaxGap = missed[p] * MaxGap + MaxGap
      BY <3>1, RoomForOneMore
    <3>4. keys[p].left >= Ttl - (missed[p] + 1) * MaxGap
      BY <1>0, <3>1, <3>2, <3>3
    <3>. QED  BY <1>1, <2>1, <3>1, <3>2, <3>4 DEF Lasts
  <2>2. CASE q # p
    <3>1. missed'[q] = missed[q] /\ since'[q] = since[q]
      BY <1>0, <1>1, <2>2
    <3>2. Lasts(q)
      BY <1>4, <3>1 DEF IInv, KeysLast
    <3>. QED  BY <1>1, <3>1, <3>2 DEF Lasts
  <2>. QED  BY <2>1, <2>2
<1>. QED  BY <1>1, <1>3, <1>4 DEF IInv, KeysLast

(* A tick takes one from each key and adds one to the time since.          *)
LEMMA TickInv ==
    ASSUME IInv, Tick
    PROVE  IInv'
<1>0. /\ since \in [Pod -> 0..MaxGap]
      /\ missed \in [Pod -> 0..(Tolerated + 1)]
      /\ alive \subseteq Pod
      /\ \A q \in DOMAIN keys : q \in Pod /\ keys[q].left \in Nat
  BY DEF IInv, TimesOK
<1>1. /\ \A p \in alive : since[p] < MaxGap
      /\ since' = [p \in Pod |-> IF p \in alive THEN since[p] + 1 ELSE since[p]]
      /\ alive' = alive /\ missed' = missed
      /\ DOMAIN keys' = {r \in DOMAIN keys : keys[r].left > 1}
  BY DEF Tick
<1>2. \A q \in DOMAIN keys' : keys'[q] = [keys[q] EXCEPT !.left = @ - 1]
  BY DEF Tick
<1>3. \A q \in DOMAIN keys' :
          /\ keys'[q] = [value |-> keys[q].value, left |-> keys[q].left - 1]
          /\ keys'[q].left = keys[q].left - 1
  <2>. SUFFICES ASSUME NEW q \in DOMAIN keys'
                PROVE  keys'[q] = [value |-> keys[q].value, left |-> keys[q].left - 1]
    OBVIOUS
  <2>1. keys[q] = [value |-> keys[q].value, left |-> keys[q].left]
    BY <1>1 DEF IInv, TimesOK
  <2>2. keys'[q] = [[value |-> keys[q].value, left |-> keys[q].left]
                        EXCEPT !.left = keys[q].left - 1]
    BY <1>2, <2>1
  <2>. QED  BY <2>2
<1>4. TimesOK'
  <2>1. \A q \in DOMAIN keys' :
            /\ q \in Pod /\ keys'[q].left \in Nat
            /\ keys'[q] = [value |-> keys'[q].value, left |-> keys'[q].left]
    <3>. SUFFICES ASSUME NEW q \in DOMAIN keys'
                  PROVE  /\ q \in Pod /\ keys'[q].left \in Nat
                         /\ keys'[q] = [value |-> keys'[q].value,
                                        left |-> keys'[q].left]
      OBVIOUS
    <3>1. q \in Pod /\ keys[q].left \in Nat /\ keys[q].left > 1
      BY <1>0, <1>1
    <3>2. keys'[q].value = keys[q].value
      BY <1>3
    <3>. QED  BY <1>3, <3>1, <3>2
  <2>2. since' \in [Pod -> 0..MaxGap]
    BY <1>0, <1>1
  <2>. QED  BY <1>0, <1>1, <2>1, <2>2 DEF IInv, TimesOK
<1>5. ASSUME NEW q \in alive, missed'[q] <= Tolerated
      PROVE  Lasts(q)'
  <2>1. /\ missed[q] \in 0..Tolerated /\ missed'[q] = missed[q]
        /\ since[q] \in 0..MaxGap /\ since[q] < MaxGap
        /\ since'[q] = since[q] + 1
    BY <1>0, <1>1, <1>5
  <2>2. q \in DOMAIN keys /\ keys[q].left >= Ttl - missed[q] * MaxGap - since[q]
    BY <1>1, <1>5, <2>1 DEF IInv, KeysLast, Lasts
  <2>3. missed[q] * MaxGap \in Nat /\ missed[q] * MaxGap + MaxGap < Ttl
    BY <2>1, RoomForOneMore
  <2>4. keys[q].left > 1
    BY <1>0, <2>1, <2>2, <2>3
  <2>5. q \in DOMAIN keys' /\ keys'[q].left = keys[q].left - 1
    BY <1>1, <1>3, <2>2, <2>4
  <2>6. keys'[q].left >= Ttl - missed[q] * MaxGap - since'[q]
    BY <1>0, <2>1, <2>2, <2>3, <2>5
  <2>. QED  BY <2>1, <2>5, <2>6 DEF Lasts
<1>. QED  BY <1>1, <1>4, <1>5 DEF IInv, KeysLast

(* Every step preserves the invariant.                                     *)
LEMMA NextInv ==
    ASSUME IInv, [Next]_vars
    PROVE  IInv'
<1>1. ASSUME UNCHANGED <<alive, since, keys, missed>>
      PROVE  IInv'
  BY <1>1 DEF IInv, TimesOK, KeysLast, Lasts
<1>2. ASSUME NEW p \in Pod, Keys(p) \/ MGet(p) \/ CalculatePressure(p) \/ RefreshFails(p)
      PROVE  IInv'
  BY <1>1, <1>2 DEF Keys, MGet, CalculatePressure, RefreshFails
<1>3. ASSUME NEW p \in Pod, Stop(p)
      PROVE  IInv'
  <2>1. TimesOK'
    BY <1>3 DEF Stop, IInv, TimesOK
  <2>2. KeysLast'
    BY <1>3 DEF Stop, IInv, TimesOK, KeysLast, Lasts
  <2>. QED  BY <2>1, <2>2 DEF IInv
<1>4. ASSUME NEW p \in Pod, Start(p)
      PROVE  IInv'
  BY <1>4 DEF Start, IInv, TimesOK, KeysLast, Lasts
<1>5. CASE UNCHANGED vars
  BY <1>1, <1>5 DEF vars
<1>. QED  BY <1>2, <1>3, <1>4, <1>5, PublishInv, PublishFailsInv, TickInv
          DEF Next, Routine, Timers, Disturbance

(* The key of a running pod outlives its tolerated failures.               *)
THEOREM SlowCounted == Spec => []SlowPodsAreCounted
<1>1. IInv => SlowPodsAreCounted
  BY DEF IInv, KeysLast, Lasts, SlowPodsAreCounted
<1>. QED  BY <1>1, InitInv, NextInv, PTL DEF Spec

-----------------------------------------------------------------------------
(* The global pressure: types, and the ceiling on it. Only finitely many   *)
(* keys exist at any time, which the averages need; it does not take a     *)
(* finite set of pods.                                                     *)

FinitelyMany == IsFiniteSet(DOMAIN keys)

(* No pod acts on a pressure above all the local ones there can be,        *)
(* whichever keys its refresh found (refreshGlobalPressure :33-66).        *)
GlobalWithinLocal == \A p \in Pod : \E v \in Local : global[p] <= v

TypeInv == TypeOK /\ FinitelyMany /\ GlobalWithinLocal

(* What the types say of the keys.                                         *)
LEMMA KeysAre ==
    ASSUME TypeOK
    PROVE  /\ DOMAIN keys \subseteq Pod
           /\ \A q \in DOMAIN keys : /\ keys[q] \in Key
                                    /\ keys[q].value \in Local
                                    /\ keys[q].left \in 1..Ttl
<1>1. PICK D \in SUBSET Pod : keys \in [D -> Key]
  BY DEF TypeOK
<1>2. \A q \in DOMAIN keys : keys[q] \in Key
  BY <1>1
<1>. QED  BY <1>1, <1>2 DEF Key

(* The average of keys that were found.                                    *)
LEMMA AverageType ==
    ASSUME TypeOK, FinitelyMany, NEW pods \in SUBSET DOMAIN keys, pods # {}
    PROVE  /\ Average(pods) \in 0..100
           /\ \E v \in Local : Average(pods) <= v
<1>. DEFINE f == [q \in DOMAIN keys |-> keys[q].value]
<1>1. IsFiniteSet(pods)
  BY FS_Subset DEF FinitelyMany
<1>2. \A q \in pods : f[q] \in Local
  BY KeysAre
<1>3. Local \in SUBSET Nat
  OBVIOUS
<1>. HIDE DEF f
<1>4. /\ SumFunctionOnSet(f, pods) \div Cardinality(pods) \in Nat
      /\ \E v \in Local : SumFunctionOnSet(f, pods) \div Cardinality(pods) <= v
  BY <1>1, <1>2, <1>3, AverageBounds
<1>5. Average(pods) = SumFunctionOnSet(f, pods) \div Cardinality(pods)
  BY DEF Average, Total, f
<1>6. Average(pods) \in Nat /\ \E v \in Local : Average(pods) <= v
  BY <1>4, <1>5
<1>7. PICK v \in Local : Average(pods) <= v
  BY <1>6
<1>8. v \in 0..100
  OBVIOUS
<1>. QED  BY <1>6, <1>7, <1>8

(* A pod that takes on a local pressure or an average of keys.             *)
LEMMA GlobalType ==
    ASSUME TypeOK, GlobalWithinLocal, NEW p \in Pod, NEW g,
           global' = [global EXCEPT ![p] = g],
           g \in 0..100, \E v \in Local : g <= v
    PROVE  global' \in [Pod -> 0..100] /\ GlobalWithinLocal'
<1>1. global \in [Pod -> 0..100]
  BY DEF TypeOK
<1>2. \A q \in Pod : global'[q] = IF q = p THEN g ELSE global[q]
  BY <1>1
<1>. QED  BY <1>1, <1>2 DEF GlobalWithinLocal

(* The local pressure of a pod is one of those there can be.               *)
LEMMA LocalType ==
    ASSUME TypeOK, NEW p \in Pod
    PROVE  local[p] \in 0..100 /\ \E v \in Local : local[p] <= v
<1>1. local[p] \in Local
  BY DEF TypeOK
<1>2. local[p] \in 0..100
  BY <1>1
<1>. QED  BY <1>1, <1>2

(* A publication adds one key.                                             *)
LEMMA PublishTypes ==
    ASSUME TypeInv, NEW p \in Pod, PublishLocalPressure(p)
    PROVE  TypeInv'
<1>1. local[p] \in Local /\ Ttl \in 1..Ttl
  <2>1. 0 * MaxGap + MaxGap < Ttl
    BY RoomForOneMore, 0 \in 0..Tolerated
  <2>2. Ttl \in 1..Ttl
    BY <2>1
  <2>. QED  BY <2>2 DEF TypeInv, TypeOK
<1>2. keys' \in [DOMAIN keys \cup {p} -> Key]
  BY <1>1, KeysAre DEF PublishLocalPressure, Written, Key, TypeInv
<1>3. DOMAIN keys \cup {p} \in SUBSET Pod
  BY KeysAre DEF TypeInv
<1>4. FinitelyMany'
  BY <1>2, FS_AddElement DEF TypeInv, FinitelyMany
<1>5. /\ since' \in [Pod -> 0..MaxGap]
      /\ missed' \in [Pod -> 0..(Tolerated + 1)]
  BY DEF PublishLocalPressure, TypeInv, TypeOK
<1>. QED  BY <1>2, <1>3, <1>4, <1>5
          DEF PublishLocalPressure, TypeInv, TypeOK, GlobalWithinLocal

(* A publication that fails adds none.                                     *)
LEMMA PublishFailsTypes ==
    ASSUME TypeInv, NEW p \in Pod, PublishFails(p)
    PROVE  TypeInv'
<1>1. missed[p] \in 0..(Tolerated + 1)
  BY DEF TypeInv, TypeOK
<1>2. Min({missed[p] + 1, Tolerated + 1}) \in 0..(Tolerated + 1)
  <2>1. Min({missed[p] + 1, Tolerated + 1}) =
            IF missed[p] <= Tolerated THEN missed[p] + 1 ELSE Tolerated + 1
    BY <1>1 DEF Min
  <2>. QED  BY <1>1, <2>1
<1>3. /\ since' \in [Pod -> 0..MaxGap]
      /\ missed' \in [Pod -> 0..(Tolerated + 1)]
  BY <1>2 DEF PublishFails, TypeInv, TypeOK
<1>. QED  BY <1>3 DEF PublishFails, TypeInv, TypeOK, FinitelyMany, GlobalWithinLocal

(* The commands of a refresh.                                              *)
LEMMA RefreshTypes ==
    ASSUME TypeInv, NEW p \in Pod, Keys(p) \/ MGet(p) \/ RefreshFails(p)
    PROVE  TypeInv'
<1>0. /\ refresh \in [Pod -> Seq(SUBSET Pod)]
      /\ DOMAIN keys \in SUBSET Pod
      /\ TypeOK /\ FinitelyMany /\ GlobalWithinLocal
  BY KeysAre DEF TypeInv, TypeOK
<1>1. refresh' \in [Pod -> Seq(SUBSET Pod)]
  <2>1. Append(refresh[p], DOMAIN keys) \in Seq(SUBSET Pod)
    BY <1>0
  <2>2. refresh[p] # <<>> => Tail(refresh[p]) \in Seq(SUBSET Pod)
    BY <1>0
  <2>. QED  BY <1>0, <2>1, <2>2 DEF Keys, MGet, RefreshFails
<1>2. global' \in [Pod -> 0..100] /\ GlobalWithinLocal'
  <2>1. CASE UNCHANGED global
    BY <1>0, <2>1 DEF TypeOK, GlobalWithinLocal
  <2>2. CASE global' = [global EXCEPT ![p] = local[p]]
    BY <1>0, <2>2, LocalType, GlobalType
  <2>3. CASE MGet(p)
    <3>. DEFINE found == Found(Head(refresh[p]))
    <3>1. global' = [global EXCEPT ![p] =
                         IF found = {} THEN local[p] ELSE Average(found)]
      BY <2>3 DEF MGet
    <3>2. found \in SUBSET DOMAIN keys
      BY DEF Found
    <3>. HIDE DEF found
    <3>3. CASE found = {}
      BY <2>2, <3>1, <3>3
    <3>4. CASE found # {}
      BY <1>0, <3>1, <3>2, <3>4, AverageType, GlobalType
    <3>. QED  BY <3>3, <3>4
  <2>. QED  BY <2>1, <2>2, <2>3 DEF Keys, RefreshFails
<1>3. UNCHANGED <<alive, local, since, keys, missed>>
  BY DEF Keys, MGet, RefreshFails
<1>. QED  BY <1>0, <1>1, <1>2, <1>3 DEF TypeInv, TypeOK, FinitelyMany

(* Keys age and expire.                                                    *)
LEMMA TickTypes ==
    ASSUME TypeInv, Tick
    PROVE  TypeInv'
<1>. DEFINE D == {r \in DOMAIN keys : keys[r].left > 1}
<1>1. keys' = [q \in D |-> [keys[q] EXCEPT !.left = @ - 1]]
  BY DEF Tick
<1>2. ASSUME NEW q \in D
      PROVE  [keys[q] EXCEPT !.left = @ - 1] \in Key
  <2>1. keys[q] \in Key /\ keys[q].left \in 1..Ttl /\ keys[q].left > 1
    BY KeysAre DEF TypeInv
  <2>. QED  BY <2>1 DEF Key
<1>3. keys' \in [D -> Key]
  BY <1>1, <1>2
<1>4. D \in SUBSET Pod /\ D \in SUBSET DOMAIN keys
  BY KeysAre DEF TypeInv
<1>5. FinitelyMany'
  BY <1>3, <1>4, FS_Subset DEF TypeInv, FinitelyMany
<1>6. since' \in [Pod -> 0..MaxGap]
  BY DEF Tick, TypeInv, TypeOK
<1>. QED  BY <1>3, <1>4, <1>5, <1>6 DEF Tick, TypeInv, TypeOK, GlobalWithinLocal

(* A pod stops with the memory it will start with.                         *)
LEMMA StopTypes ==
    ASSUME TypeInv, NEW p \in Pod, Stop(p)
    PROVE  TypeInv'
<1>1. 0 \in 0..MaxGap /\ Tolerated + 1 \in 0..(Tolerated + 1)
  OBVIOUS
<1>2. /\ local' \in [Pod -> Local]
      /\ since' \in [Pod -> 0..MaxGap]
      /\ missed' \in [Pod -> 0..(Tolerated + 1)]
      /\ alive' \subseteq Pod
      /\ refresh' \in [Pod -> Seq(SUBSET Pod)]
  BY <1>1 DEF Stop, TypeInv, TypeOK
<1>3. global' \in [Pod -> 0..100] /\ GlobalWithinLocal'
  <2>1. 0 \in 0..100 /\ \E v \in Local : 0 <= v
    OBVIOUS
  <2>. QED  BY <2>1, GlobalType DEF Stop, TypeInv
<1>. QED  BY <1>2, <1>3 DEF Stop, TypeInv, TypeOK, FinitelyMany

(* Every step keeps the types and the ceiling.                             *)
LEMMA NextTypes ==
    ASSUME TypeInv, [Next]_vars
    PROVE  TypeInv'
<1>1. ASSUME NEW p \in Pod, CalculatePressure(p) \/ Start(p)
      PROVE  TypeInv'
  BY <1>1 DEF CalculatePressure, Start, TypeInv, TypeOK, FinitelyMany,
              GlobalWithinLocal
<1>2. CASE UNCHANGED vars
  BY <1>2 DEF vars, TypeInv, TypeOK, FinitelyMany, GlobalWithinLocal
<1>. QED  BY <1>1, <1>2, PublishTypes, PublishFailsTypes, RefreshTypes,
             TickTypes, StopTypes
          DEF Next, Routine, Timers, Disturbance

(* They hold at the start.                                                 *)
LEMMA InitTypes == Init => TypeInv
<1>. SUFFICES ASSUME Init
              PROVE  TypeInv
  OBVIOUS
<1>1. keys = <<>> /\ DOMAIN keys = {}
  BY DEF Init
<1>2. keys \in [{} -> Key]
  BY <1>1
<1>3. FinitelyMany
  BY <1>1, FS_EmptySet DEF FinitelyMany
<1>4. {} \in SUBSET Pod /\ \E D \in SUBSET Pod : keys \in [D -> Key]
  BY <1>2
<1>5. /\ local \in [Pod -> Local]
      /\ refresh \in [Pod -> Seq(SUBSET Pod)]
      /\ global \in [Pod -> 0..100]
      /\ \A p \in Pod : global[p] = 0
  BY DEF Init
<1>6. /\ alive \subseteq Pod
      /\ since \in [Pod -> 0..MaxGap]
      /\ missed \in [Pod -> 0..(Tolerated + 1)]
  BY DEF Init
<1>7. GlobalWithinLocal
  BY <1>5 DEF GlobalWithinLocal
<1>. QED  BY <1>3, <1>4, <1>5, <1>6, <1>7 DEF TypeInv, TypeOK

(* Local and global pressures are percentages, keys live no longer than    *)
(* they were given, and publications are not put off beyond MaxGap.        *)
THEOREM TypeCorrect == Spec => []TypeOK
<1>1. TypeInv => TypeOK
  BY DEF TypeInv
<1>. QED  BY <1>1, InitTypes, NextTypes, PTL DEF Spec

(* The pressure a pod acts on is not above all the local ones there can be.*)
LEMMA GlobalIsWithinLocal == Spec => []GlobalWithinLocal
<1>1. TypeInv => GlobalWithinLocal
  BY DEF TypeInv
<1>. QED  BY <1>1, InitTypes, NextTypes, PTL DEF Spec

-----------------------------------------------------------------------------
(* The global pressure: agreement.                                         *)

(* The pods agree on the average of their local pressures, the keys are    *)
(* theirs and hold what they measure, no pod has failed to publish too     *)
(* often, and the replies its refreshes wait with name every running pod.  *)
Converged ==
    /\ DOMAIN keys = alive
    /\ \A p \in alive : /\ keys[p].value = local[p]
                        /\ missed[p] <= Tolerated
                        /\ \A i \in 1..Len(refresh[p]) : alive \subseteq refresh[p][i]
                        /\ global[p] = AverageOfLocal

(* Then the average of the keys is the average of the local pressures.     *)
LEMMA AveragesAgree ==
    ASSUME FinitelyMany, Converged, alive # {}
    PROVE  Average(alive) = AverageOfLocal
<1>. DEFINE f == [q \in DOMAIN keys |-> keys[q].value]
<1>1. IsFiniteSet(alive) /\ \A p \in alive : f[p] = local[p]
  BY DEF FinitelyMany, Converged
<1>. HIDE DEF f
<1>2. SumFunctionOnSet(f, alive) = SumFunctionOnSet(local, alive)
  BY <1>1, SumsAgree
<1>3. Cardinality(alive) \in Nat \ {0}
  BY <1>1, FS_CardinalityType, FS_EmptySet
<1>4. Max({1, Cardinality(alive)}) = Cardinality(alive)
  BY <1>3 DEF Max
<1>. QED  BY <1>2, <1>4 DEF Average, Total, AverageOfLocal, f

(* Ticks, publications and refreshes keep the agreement.                   *)
LEMMA RoutineConverged ==
    ASSUME IInv, IInv', TypeInv, Converged, [Routine]_vars
    PROVE  Converged'
<1>0. /\ alive \subseteq Pod
      /\ missed \in [Pod -> 0..(Tolerated + 1)]
      /\ global \in [Pod -> 0..100]
      /\ refresh \in [Pod -> Seq(SUBSET Pod)]
  BY DEF TypeInv, TypeOK
<1>1. ASSUME NEW p \in Pod, PublishLocalPressure(p)
      PROVE  Converged'
  <2>1. /\ p \in alive
        /\ DOMAIN keys' = DOMAIN keys \cup {p}
        /\ keys'[p].value = local[p]
        /\ \A q \in DOMAIN keys : q # p => keys'[q] = keys[q]
        /\ missed' = [missed EXCEPT ![p] = 0]
        /\ UNCHANGED <<alive, local, refresh, global>>
    BY <1>1 DEF PublishLocalPressure, Written
  <2>2. AverageOfLocal' = AverageOfLocal
    BY <2>1 DEF AverageOfLocal
  <2>. QED  BY <1>0, <2>1, <2>2 DEF Converged
<1>2. ASSUME NEW p \in Pod, Keys(p)
      PROVE  Converged'
  <2>1. /\ p \in alive
        /\ refresh' = [refresh EXCEPT ![p] = Append(@, alive)]
        /\ UNCHANGED <<alive, local, since, keys, global, missed>>
    BY <1>2 DEF Keys, Converged
  <2>2. AverageOfLocal' = AverageOfLocal
    BY <2>1 DEF AverageOfLocal
  <2>3. ASSUME NEW q \in alive, NEW i \in 1..Len(refresh'[q])
        PROVE  alive \subseteq refresh'[q][i]
    <3>1. CASE q # p
      BY <1>0, <2>1, <3>1 DEF Converged
    <3>2. CASE q = p
      <4>1. refresh[p] \in Seq(SUBSET Pod) /\ refresh'[p] = Append(refresh[p], alive)
        BY <1>0, <2>1
      <4>2. \A k \in 1..Len(refresh[p]) : alive \subseteq refresh[p][k]
        BY <2>1 DEF Converged
      <4>. QED  BY <1>0, <3>2, <4>1, <4>2
    <3>. QED  BY <3>1, <3>2
  <2>. QED  BY <2>1, <2>2, <2>3 DEF Converged
<1>3. ASSUME NEW p \in Pod, MGet(p)
      PROVE  Converged'
  <2>1. /\ refresh[p] # <<>>
        /\ refresh' = [refresh EXCEPT ![p] = Tail(@)]
        /\ UNCHANGED <<alive, local, since, keys, missed>>
        /\ \A q \in Pod : q # p => global'[q] = global[q]
    BY <1>0, <1>3 DEF MGet
  <2>2. AverageOfLocal' = AverageOfLocal
    BY <2>1 DEF AverageOfLocal
  <2>3. ASSUME p \in alive
        PROVE  global'[p] = AverageOfLocal
    <3>1. refresh[p] \in Seq(SUBSET Pod) /\ 1 \in 1..Len(refresh[p])
      BY <1>0, <2>1
    <3>2. alive \subseteq Head(refresh[p])
      BY <2>3, <3>1 DEF Converged
    <3>3. Found(Head(refresh[p])) = alive
      BY <3>2 DEF Found, Converged
    <3>4. global'[p] = Average(alive)
      BY <1>0, <1>3, <2>3, <3>3 DEF MGet
    <3>. QED  BY <2>3, <3>4, AveragesAgree DEF TypeInv
  <2>4. ASSUME NEW q \in alive, NEW i \in 1..Len(refresh'[q])
        PROVE  alive \subseteq refresh'[q][i]
    <3>1. CASE q # p
      BY <1>0, <2>1, <3>1 DEF Converged
    <3>2. CASE q = p
      <4>1. /\ refresh[p] \in Seq(SUBSET Pod) /\ refresh'[p] = Tail(refresh[p])
            /\ i + 1 \in 1..Len(refresh[p]) /\ refresh'[p][i] = refresh[p][i + 1]
        BY <1>0, <2>1, <3>2
      <4>. QED  BY <3>2, <4>1 DEF Converged
    <3>. QED  BY <3>1, <3>2
  <2>. QED  BY <1>0, <2>1, <2>2, <2>3, <2>4 DEF Converged
<1>4. CASE Tick
  <2>1. UNCHANGED <<alive, local, refresh, global, missed>>
    BY <1>4 DEF Tick
  <2>2. /\ DOMAIN keys' \subseteq DOMAIN keys
        /\ \A q \in DOMAIN keys' : keys'[q] = [keys[q] EXCEPT !.left = @ - 1]
    BY <1>4 DEF Tick
  <2>3. alive \subseteq DOMAIN keys'
    BY <2>1 DEF IInv, KeysLast, Lasts, Converged
  <2>4. \A q \in DOMAIN keys' : keys'[q].value = keys[q].value
    <3>. SUFFICES ASSUME NEW q \in DOMAIN keys'
                  PROVE  keys'[q].value = keys[q].value
      OBVIOUS
    <3>1. keys[q] \in Key
      BY <2>2, KeysAre DEF TypeInv
    <3>. QED  BY <2>2, <3>1 DEF Key
  <2>5. AverageOfLocal' = AverageOfLocal
    BY <2>1 DEF AverageOfLocal
  <2>. QED  BY <2>1, <2>2, <2>3, <2>4, <2>5 DEF Converged
<1>5. CASE UNCHANGED vars
  BY <1>5 DEF vars, Converged, AverageOfLocal
<1>. QED  BY <1>1, <1>2, <1>3, <1>4, <1>5 DEF Routine, Timers

(* The safety half of PodsConverge: while pods only publish and refresh,   *)
(* at whatever moments, an agreement on the average is not lost again; no  *)
(* refresh under way brings an earlier value back and no key expires.      *)
THEOREM ConvergedStays ==
    Spec => [](Converged /\ [][Routine]_vars => []Converged)
<1>1. IInv /\ IInv' /\ TypeInv /\ Converged /\ [Routine]_vars => Converged'
  BY RoutineConverged
<1>. QED  BY <1>1, InitInv, NextInv, InitTypes, NextTypes, PTL DEF Spec

-----------------------------------------------------------------------------
(* From the local pressure to the global one. Local pressures are          *)
(* hundredths of a percent in Monitor and percentages in GlobalPressure.   *)

(* Whatever the load, the local pressure stays below the score from which  *)
(* AGGRESSIVE protection would begin.                                      *)
THEOREM LocalStaysBelowAggressive ==
    Monitor!Spec => [](currentPressure < 7500)
<1>1. Monitor!TypeOK => currentPressure < 7500
  BY DEF Monitor!TypeOK, Monitor!Ceiling, Monitor!Score
<1>2. Monitor!Spec => []Monitor!TypeOK
  BY LoadsOfTheCode, Monitor!TypeCorrect
<1>. QED  BY <1>1, <1>2, PTL

(* Pods whose local pressure is what the monitor can come to average to    *)
(* less than the 75 percent from which AGGRESSIVE protection would begin.  *)
THEOREM GlobalStaysBelowAggressive ==
    ASSUME \A v \in Local : 100 * v <= Monitor!Ceiling
    PROVE  Spec => [](\A p \in Pod : global[p] < 75)
<1>1. Monitor!Ceiling = 6200
  BY DEF Monitor!Ceiling, Monitor!Score
<1>2. \A v \in Local : v < 75
  BY <1>1
<1>3. TypeOK /\ GlobalWithinLocal => \A p \in Pod : global[p] < 75
  <2>. SUFFICES ASSUME TypeOK, GlobalWithinLocal, NEW p \in Pod
                PROVE  global[p] < 75
    OBVIOUS
  <2>1. PICK v \in Local : global[p] <= v
    BY DEF GlobalWithinLocal
  <2>2. global[p] \in 0..100 /\ v \in 0..100 /\ v < 75
    BY <1>2 DEF TypeOK
  <2>. QED  BY <2>1, <2>2
<1>. QED  BY <1>3, TypeCorrect, GlobalIsWithinLocal, PTL
=============================================================================
