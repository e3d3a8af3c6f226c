------------------------- MODULE ProtectionModeProofs -------------------------
(***************************************************************************)
(* Proofs about ProtectionMode, for every hysteresis and every set of      *)
(* pressures.                                                              *)
(***************************************************************************)
EXTENDS ProtectionMode, ProtectionPolicyProofs

USE PolicyAssumption

-----------------------------------------------------------------------------
(* Type correctness.                                                       *)

(* The types hold after every step.                                        *)
LEMMA NextType ==
    ASSUME TypeOK, [Next]_vars
    PROVE  TypeOK'
<1>0. /\ pressure \in Pressure /\ policy \in PolicyState
      /\ earlier \in [1..3 -> Ages]
      /\ policy.lastModeChange \in Ages
  BY DEF TypeOK, PolicyState
<1>1. CASE GetMode
  <2>1. policy' \in PolicyState
    BY <1>0, <1>1, UpdatedPolicy DEF GetMode
  <2>2. earlier' \in [1..3 -> Ages]
    BY <1>0, <1>1 DEF GetMode, Remember
  <2>. QED  BY <1>0, <1>1, <2>1, <2>2 DEF GetMode, TypeOK
<1>2. ASSUME NEW p \in Pressure, Refresh(p)
      PROVE  TypeOK'
  BY <1>0, <1>2 DEF Refresh, TypeOK
<1>3. CASE Tick
  <2>1. policy' \in PolicyState
    BY <1>0, <1>3, OlderType DEF Tick, Later, PolicyState
  <2>2. earlier' \in [1..3 -> Ages]
    BY <1>0, <1>3, OlderType DEF Tick
  <2>. QED  BY <1>0, <1>3, <2>1, <2>2 DEF Tick, TypeOK
<1>4. CASE UNCHANGED vars
  BY <1>4 DEF vars, TypeOK
<1>. QED  BY <1>1, <1>2, <1>3, <1>4 DEF Next

(* The types hold at the start.                                            *)
LEMMA InitType == Init => TypeOK
BY DEF Init, TypeOK, InitialPolicy, PolicyState, Mode, Ages, NORMAL, CRITICAL

(* The mode is one of the four and the remembered ages are ages.           *)
THEOREM TypeCorrect == Spec => []TypeOK
<1>1. Init => TypeOK
  BY InitType
<1>2. TypeOK /\ [Next]_vars => TypeOK'
  BY NextType
<1>. QED  BY <1>1, <1>2, PTL DEF Spec

-----------------------------------------------------------------------------
(* Flapping. A change that follows another within the hysteresis is an     *)
(* upgrade, so that i changes in a row that do leave the mode at i or more.*)

AgesAscend ==
    /\ policy.lastModeChange <= earlier[1]
    /\ earlier[1] <= earlier[2]
    /\ earlier[2] <= earlier[3]

YoungChangesClimb ==
    \A i \in 1..3 : earlier[i] <= HysteresisMs => policy.currentMode >= i

Climbing == AgesAscend /\ YoungChangesClimb

(* The types in the form the arithmetic steps use.                         *)
LEMMA Naturals ==
    ASSUME TypeOK
    PROVE  /\ policy \in PolicyState
           /\ policy.currentMode \in 0..3
           /\ policy.lastModeChange \in Nat
           /\ \A i \in 1..3 : earlier[i] \in Nat
<1>1. policy \in PolicyState /\ \A i \in 1..3 : earlier[i] \in Ages
  BY DEF TypeOK
<1>. QED  BY <1>1 DEF PolicyState, Mode, NORMAL, CRITICAL, Ages

(* A reading of the mode preserves the invariant.                          *)
LEMMA GetModeClimbs ==
    ASSUME TypeOK, TypeOK', Climbing, GetMode
    PROVE  Climbing'
<1>1. CASE policy' = policy
  BY <1>1 DEF GetMode, Climbing, AgesAscend, YoungChangesClimb
<1>2. CASE policy'.currentMode # policy.currentMode
  <2>1. /\ policy'.lastModeChange = 0
        /\ \/ policy'.currentMode > policy.currentMode
           \/ policy.lastModeChange > HysteresisMs
    BY <1>2, UpdatedPolicy DEF GetMode, TypeOK
  <2>2. /\ earlier'[1] = policy.lastModeChange
        /\ earlier'[2] = earlier[1]
        /\ earlier'[3] = earlier[2]
    BY <1>2 DEF GetMode, Remember
  <2>3. policy'.currentMode \in 0..3
    BY Naturals DEF TypeOK, PolicyState, Mode, NORMAL, CRITICAL
  <2>4. /\ earlier[1] <= HysteresisMs => policy.currentMode >= 1
        /\ earlier[2] <= HysteresisMs => policy.currentMode >= 2
    BY DEF Climbing, YoungChangesClimb
  <2>5. AgesAscend'
    BY <2>1, <2>2, Naturals DEF Climbing, AgesAscend
  <2>6. ASSUME NEW i \in 1..3, earlier'[i] <= HysteresisMs
        PROVE  policy'.currentMode >= i
    <3>1. CASE i = 1
      BY <2>1, <2>2, <2>3, <2>6, <3>1, Naturals
    <3>2. CASE i = 2
      BY <2>1, <2>2, <2>3, <2>4, <2>6, <3>2, Naturals DEF Climbing, AgesAscend
    <3>3. CASE i = 3
      BY <2>1, <2>2, <2>3, <2>4, <2>6, <3>3, Naturals DEF Climbing, AgesAscend
    <3>. QED  BY <3>1, <3>2, <3>3
  <2>. QED  BY <2>5, <2>6 DEF Climbing, YoungChangesClimb
<1>3. policy'.currentMode = policy.currentMode => policy' = policy
  <2>1. CASE Updated(policy, pressure) = policy
    BY <2>1 DEF GetMode
  <2>2. CASE IsUpgrade(policy, Target(pressure)) \/ MayDowngrade(policy, Target(pressure))
    BY <2>2, Naturals DEF GetMode, Updated, IsUpgrade, MayDowngrade
  <2>. QED  BY <2>1, <2>2 DEF Updated
<1>. QED  BY <1>1, <1>2, <1>3

(* A millisecond preserves the invariant.                                  *)
LEMMA TickClimbs ==
    ASSUME TypeOK, Climbing, Tick
    PROVE  Climbing'
<1>1. /\ policy.lastModeChange \in Ages /\ policy \in PolicyState
      /\ \A i \in 1..3 : earlier[i] \in Ages
  BY DEF TypeOK, PolicyState
<1>2. /\ policy'.currentMode = policy.currentMode
      /\ policy'.lastModeChange = Older(policy.lastModeChange)
      /\ \A i \in 1..3 : earlier'[i] = Older(earlier[i])
  BY <1>1 DEF Tick, Later, PolicyState
<1>3. AgesAscend'
  BY <1>1, <1>2, OlderIsMonotonic DEF Climbing, AgesAscend
<1>4. ASSUME NEW i \in 1..3, earlier'[i] <= HysteresisMs
      PROVE  policy'.currentMode >= i
  <2>1. earlier[i] <= HysteresisMs
    BY <1>1, <1>2, <1>4, OlderType DEF Ages
  <2>. QED  BY <1>2, <2>1 DEF Climbing, YoungChangesClimb
<1>. QED  BY <1>3, <1>4 DEF Climbing, YoungChangesClimb

(* Every step preserves the invariant.                                     *)
LEMMA NextClimbs ==
    ASSUME TypeOK, TypeOK', Climbing, [Next]_vars
    PROVE  Climbing'
<1>1. ASSUME NEW p \in Pressure, Refresh(p)
      PROVE  Climbing'
  BY <1>1 DEF Refresh, Climbing, AgesAscend, YoungChangesClimb
<1>2. CASE UNCHANGED vars
  BY <1>2 DEF vars, Climbing, AgesAscend, YoungChangesClimb
<1>. QED  BY <1>1, <1>2, GetModeClimbs, TickClimbs DEF Next

(* Five changes of mode take longer than the hysteresis.                   *)
THEOREM FlappingBounded == Spec => FlappingIsBounded
<1>1. Init => Climbing
  <2>. SUFFICES ASSUME Init PROVE Climbing
    OBVIOUS
  <2>1. /\ policy.lastModeChange = HysteresisMs + 1
        /\ \A i \in 1..3 : earlier[i] = HysteresisMs + 1
    BY DEF Init, InitialPolicy
  <2>. QED  BY <2>1 DEF Climbing, AgesAscend, YoungChangesClimb
<1>2. TypeOK /\ TypeOK' /\ Climbing /\ [Next]_vars => Climbing'
  BY NextClimbs
<1>3. ASSUME TypeOK, TypeOK', Climbing, [Next]_vars,
             policy'.currentMode # policy.currentMode
      PROVE  earlier[3] > HysteresisMs
  <2>1. GetMode
    BY <1>3 DEF Next, Refresh, Tick, Later, vars, TypeOK, PolicyState
  <2>2. \/ policy'.currentMode > policy.currentMode
        \/ policy.lastModeChange > HysteresisMs
    BY <1>3, <2>1, UpdatedPolicy DEF GetMode, TypeOK
  <2>3. policy'.currentMode \in 0..3
    BY <1>3 DEF TypeOK, PolicyState, Mode, NORMAL, CRITICAL
  <2>4. earlier[3] <= HysteresisMs => policy.currentMode >= 3
    BY <1>3 DEF Climbing, YoungChangesClimb
  <2>. QED  BY <1>3, <2>2, <2>3, <2>4, Naturals DEF Climbing, AgesAscend
<1>4. TypeOK /\ TypeOK' /\ Climbing /\ [Next]_vars =>
          [policy'.currentMode # policy.currentMode =>
               earlier[3] > HysteresisMs]_vars
  BY <1>3
<1>. QED  BY <1>1, <1>2, <1>4, TypeCorrect, PTL DEF Spec, FlappingIsBounded

-----------------------------------------------------------------------------
(* Following the pressure.                                                 *)

(* The pressure is in the range of mode m; the pod is in mode m; a step    *)
(* leaves the mode as it is or makes it m.                                 *)
Asked(m) == Target(pressure) = m
Reached(m) == policy.currentMode = m
Approach(m) == policy'.currentMode \in {policy.currentMode, m}

(* The safety half of ModeFollowsPressure: while the pressure stays within *)
(* the range of a mode, a pod that is in that mode remains in it, and one  *)
(* that is not changes to no other.                                        *)
THEOREM ReachedModeStays ==
    ASSUME NEW m \in Mode
    PROVE  Spec => []([]Asked(m) => /\ Reached(m) => []Reached(m)
                                   /\ [][Approach(m)]_vars)
<1>1. ASSUME TypeOK, Asked(m), [Next]_vars
      PROVE  [Approach(m)]_vars /\ (Reached(m) => Reached(m)')
  <2>1. policy \in PolicyState /\ pressure \in Pressure
    BY <1>1 DEF TypeOK
  <2>2. CASE GetMode
    BY <1>1, <2>1, <2>2, UpdatedMode DEF GetMode, Asked, Reached, Approach
  <2>3. CASE Tick
    BY <2>1, <2>3, LaterPolicy DEF Tick, Reached, Approach
  <2>4. CASE UNCHANGED policy
    BY <2>4 DEF Reached, Approach
  <2>. QED  BY <1>1, <2>2, <2>3, <2>4 DEF Next, Refresh, vars
<1>2. TypeOK /\ Asked(m) /\ [Next]_vars =>
          [Approach(m)]_vars /\ (Reached(m) => Reached(m)')
  BY <1>1
<1>. QED  BY <1>2, TypeCorrect, PTL DEF Spec

-----------------------------------------------------------------------------
(* From settled pressure to settled mode. The fairness of FairSpec is      *)
(* spelled out with the guards of the actions in the place of ENABLED.     *)

(* A reading would change the mode; the hysteresis is over.                *)
ReadingDue == Updated(policy, pressure) # policy
Ripe == policy.lastModeChange > HysteresisMs

(* Requests keep arriving: a reading that would change the mode and goes on*)
(* to would be made (WF_vars(GetMode)).                                    *)
ReadingsCome == []<>(~ ReadingDue) \/ []<><<GetMode>>_vars

(* Time passes: a mode that lasts outlasts the hysteresis.                 *)
HysteresisEnds ==
    []<>Ripe \/ []<><<policy'.currentMode # policy.currentMode>>_vars

(* Away from the mode the pressure asks for, a step leaves the mode and a  *)
(* hysteresis that is over as they are, or reaches that mode.              *)
LEMMA StepTowards ==
    ASSUME NEW m \in Mode, TypeOK, Asked(m), ~ Reached(m), [Next]_vars
    PROVE  Reached(m)' \/ (/\ policy'.currentMode = policy.currentMode
                           /\ Ripe => Ripe')
<1>0. /\ policy \in PolicyState /\ pressure \in Pressure
      /\ policy.lastModeChange \in Ages
  BY DEF TypeOK, PolicyState
<1>1. CASE GetMode
  <2>1. policy' = policy \/ policy' = [currentMode |-> m, lastModeChange |-> 0]
    BY <1>1 DEF GetMode, Updated, Asked
  <2>. QED  BY <2>1 DEF Reached, Ripe
<1>2. CASE Tick
  BY <1>0, <1>2, OlderType DEF Tick, Later, PolicyState, Ages, Ripe
<1>3. CASE UNCHANGED policy
  BY <1>3 DEF Ripe
<1>. QED  BY <1>1, <1>2, <1>3 DEF Next, Refresh, vars

(* After the hysteresis, as before it when the way is up, a reading is due *)
(* and reaches the mode.                                                   *)
LEMMA RipeReading ==
    ASSUME NEW m \in Mode, TypeOK, Asked(m), ~ Reached(m), Ripe
    PROVE  /\ ReadingDue
           /\ GetMode => Reached(m)'
<1>1. Updated(policy, pressure) = [currentMode |-> m, lastModeChange |-> 0]
  BY DEF Updated, Asked, Reached, Ripe, MayDowngrade
<1>. QED  BY <1>1 DEF ReadingDue, Reached, GetMode

(* A pressure that stays in the range of a mode comes to be answered by    *)
(* that mode for good, from above and from below, for every hysteresis: all*)
(* it takes is that requests keep reading the mode and that time passes.   *)
(* The proof shows it for every pressure; ModeFollowsPressure asks for less*)
(* where the documents do.                                                 *)
THEOREM ModeFollows ==
    Spec /\ ReadingsCome /\ HysteresisEnds => ModeFollowsPressure
<1>1. ASSUME NEW m \in Mode
      PROVE  Spec /\ ReadingsCome /\ HysteresisEnds =>
                 (<>[]Asked(m) => <>[]Reached(m))
  <2>. DEFINE Change == policy'.currentMode # policy.currentMode
  <2>1. TypeOK /\ Asked(m) /\ Reached(m) /\ [Next]_vars => Reached(m)'
    <3>. SUFFICES ASSUME TypeOK, Asked(m), Reached(m), [Next]_vars
                  PROVE  Reached(m)'
      OBVIOUS
    <3>. QED  BY UpdatedMode, LaterPolicy
              DEF TypeOK, Asked, Reached, Next, GetMode, Tick, Refresh, vars
  <2>2. TypeOK /\ Asked(m) /\ ~ Reached(m) /\ Ripe /\ [Next]_vars =>
            Reached(m)' \/ Ripe'
    BY StepTowards
  <2>3. TypeOK /\ Asked(m) /\ ~ Reached(m) /\ [Next]_vars /\ <<Change>>_vars =>
            Reached(m)'
    BY StepTowards
  <2>4. TypeOK /\ Asked(m) /\ ~ Reached(m) /\ Ripe => ReadingDue
    BY RipeReading
  <2>5. TypeOK /\ Asked(m) /\ ~ Reached(m) /\ Ripe /\ <<GetMode>>_vars =>
            Reached(m)'
    BY RipeReading
  <2>6. HysteresisEnds <=> []<>Ripe \/ []<><<Change>>_vars
    BY DEF HysteresisEnds
  <2>. HIDE DEF Change
  <2>. QED  BY <2>1, <2>2, <2>3, <2>4, <2>5, <2>6, TypeCorrect, PTL
            DEF Spec, ReadingsCome
<1>2. ASSUME NEW m \in Mode
      PROVE  Spec /\ ReadingsCome /\ HysteresisEnds =>
                 /\ <>[](Target(pressure) = m /\ pressure # 90)
                        => <>[](policy.currentMode >= m)
                 /\ <>[](Target(pressure) = m /\ pressure < 70)
                        => <>[](policy.currentMode = m)
  <2>. DEFINE AskedBeside == Target(pressure) = m /\ pressure # 90
              AskedBelow  == Target(pressure) = m /\ pressure < 70
              AtLeast     == policy.currentMode >= m
              Exactly     == policy.currentMode = m
  <2>1. (AskedBeside => Asked(m)) /\ (AskedBelow => Asked(m))
    BY DEF Asked
  <2>2. Reached(m) => AtLeast /\ Exactly
    <3>1. m \in Int
      BY DEF Mode, NORMAL, CRITICAL
    <3>. QED  BY <3>1 DEF Reached
  <2>3. Spec /\ ReadingsCome /\ HysteresisEnds => (<>[]Asked(m) => <>[]Reached(m))
    BY <1>1
  <2>. HIDE DEF AskedBeside, AskedBelow, AtLeast, Exactly
  <2>4. Spec /\ ReadingsCome /\ HysteresisEnds =>
            /\ <>[]AskedBeside => <>[]AtLeast
            /\ <>[]AskedBelow => <>[]Exactly
    BY <2>1, <2>2, <2>3, PTL
  <2>. QED  BY <2>4 DEF AskedBeside, AskedBelow, AtLeast, Exactly
<1>. QED  BY <1>2 DEF ModeFollowsPressure

-----------------------------------------------------------------------------
(* The ceiling of the pressure.                                            *)

(* With pressures below 75 percent, which is all that pods come to whose   *)
(* monitors measure what they measure now (GlobalStaysBelowAggressive of   *)
(* GlobalPressureProofs), the mode is never AGGRESSIVE or CRITICAL.        *)
THEOREM NeverAggressive ==
    ASSUME \A p \in Pressure : p < 75
    PROVE  Spec => [](policy.currentMode <= MODERATE)
<1>. DEFINE Mild == policy.currentMode <= MODERATE
<1>1. Init => Mild
  BY DEF Init, InitialPolicy, NORMAL, MODERATE
<1>2. ASSUME TypeOK, Mild, [Next]_vars
      PROVE  Mild'
  <2>1. policy \in PolicyState /\ pressure \in Pressure
    BY <1>2 DEF TypeOK
  <2>2. CASE GetMode
    BY <1>2, <2>1, <2>2, MildReading DEF GetMode
  <2>3. CASE Tick
    BY <1>2, <2>1, <2>3, LaterPolicy DEF Tick
  <2>4. CASE UNCHANGED policy
    BY <1>2, <2>4
  <2>. QED  BY <1>2, <2>2, <2>3, <2>4 DEF Next, Refresh, vars
<1>. HIDE DEF Mild
<1>3. TypeOK /\ Mild /\ [Next]_vars => Mild'
  BY <1>2
<1>4. Mild <=> policy.currentMode <= MODERATE
  BY DEF Mild
<1>. QED  BY <1>1, <1>3, <1>4, TypeCorrect, PTL DEF Spec
=============================================================================
