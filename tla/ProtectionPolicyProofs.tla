------------------------- MODULE ProtectionPolicyProofs -------------------------
(***************************************************************************)
(* What every reading of the mode respects, for every hysteresis, every set*)
(* of pressures and every state of the policy.                             *)
(***************************************************************************)
EXTENDS ProtectionPolicy, TLAPS

USE PolicyAssumption

-----------------------------------------------------------------------------
(* The policy.                                                             *)

(* The thresholds cover every pressure.                                    *)
LEMMA TargetType == ASSUME NEW p \in Pressure PROVE Target(p) \in Mode
<1>1. p \in 0..100
  OBVIOUS
<1>2. Target(p) \in {NORMAL, MODERATE, AGGRESSIVE, CRITICAL}
  <2>1. CASE p >= 90
    BY <1>1, <2>1 DEF Target
  <2>2. CASE p >= 75 /\ p < 90
    BY <1>1, <2>2 DEF Target
  <2>3. CASE p >= 50 /\ p < 75
    BY <1>1, <2>3 DEF Target
  <2>4. CASE p < 50
    BY <1>1, <2>4 DEF Target
  <2>. QED  BY <1>1, <2>1, <2>2, <2>3, <2>4
<1>. QED  BY <1>2 DEF Mode, NORMAL, MODERATE, AGGRESSIVE, CRITICAL

(* Ages grow and stay in range.                                            *)
LEMMA OlderType == ASSUME NEW a \in Ages
                   PROVE  Older(a) \in Ages /\ Older(a) >= a
BY DEF Older, Ages

(* Growing older keeps the order of ages.                                  *)
LEMMA OlderIsMonotonic == ASSUME NEW a \in Ages, NEW b \in Ages, a <= b
                          PROVE  Older(a) <= Older(b)
BY DEF Older, Ages

(* A change of mode: upwards, or downwards after the hysteresis.           *)
LEMMA UpdatedPolicy ==
    ASSUME NEW pol \in PolicyState, NEW p \in Pressure
    PROVE  /\ Updated(pol, p) \in PolicyState
           /\ \/ Updated(pol, p) = pol
              \/ /\ Updated(pol, p).lastModeChange = 0
                 /\ \/ Updated(pol, p).currentMode > pol.currentMode
                    \/ pol.lastModeChange > HysteresisMs
<1>1. Target(p) \in Mode
  BY TargetType
<1>2. 0 \in Ages
  BY DEF Ages
<1>3. Updated(pol, p) \in PolicyState
  BY <1>1, <1>2 DEF Updated, PolicyState
<1>. QED  BY <1>1, <1>3 DEF Updated, PolicyState, IsUpgrade, MayDowngrade

(* A reading leaves the mode where the pressure asks for it or above, and  *)
(* above only where it already was.                                        *)
LEMMA UpdatedMode ==
    ASSUME NEW pol \in PolicyState, NEW p \in Pressure
    PROVE  /\ Updated(pol, p).currentMode >= Target(p)
           /\ Updated(pol, p).currentMode \in {Target(p), pol.currentMode}
<1>1. Target(p) \in Mode /\ pol.currentMode \in Mode
  BY TargetType DEF PolicyState
<1>2. CASE Updated(pol, p) = pol
  <2>1. ~ IsUpgrade(pol, Target(p)) \/ Target(p) = pol.currentMode
    BY <1>2 DEF Updated
  <2>. QED  BY <1>1, <1>2, <2>1 DEF IsUpgrade, Mode, NORMAL, CRITICAL
<1>3. CASE Updated(pol, p).currentMode = Target(p)
  BY <1>1, <1>3 DEF Mode, NORMAL, CRITICAL
<1>. QED  BY <1>2, <1>3 DEF Updated

(* A pressure below 75 percent asks for no mode that blocks a paying       *)
(* tenant, and no reading at such a pressure enters one.                   *)
LEMMA MildTarget ==
    ASSUME NEW p \in Pressure, p < 75
    PROVE  Target(p) <= MODERATE
<1>1. p \in 0..100
  OBVIOUS
<1>2. Target(p) \in {NORMAL, MODERATE}
  <2>1. CASE p >= 50
    BY <1>1, <2>1 DEF Target
  <2>2. CASE p < 50
    BY <1>1, <2>2 DEF Target
  <2>. QED  BY <1>1, <2>1, <2>2
<1>. QED  BY <1>2 DEF NORMAL, MODERATE

LEMMA MildReading ==
    ASSUME NEW pol \in PolicyState, pol.currentMode <= MODERATE,
           NEW p \in Pressure, p < 75
    PROVE  Updated(pol, p).currentMode <= MODERATE
BY MildTarget, UpdatedMode

(* A millisecond does not change the mode.                                 *)
LEMMA LaterPolicy ==
    ASSUME NEW pol \in PolicyState
    PROVE  Later(pol) \in PolicyState /\ Later(pol).currentMode = pol.currentMode
BY OlderType DEF Later, PolicyState
=============================================================================
