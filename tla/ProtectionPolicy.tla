--------------------------- MODULE ProtectionPolicy ---------------------------
(***************************************************************************)
(* The rule by which a pod chooses its protection mode                     *)
(* (src/src/pressure/protectionMode.ts), as operators on the two fields of *)
(* ProtectionPolicy. The mode has no timer of its own: each call of getMode*)
(* brings it up to date.                                                   *)
(*                                                                         *)
(* Of lastModeChange only its age matters, and of an age only whether it   *)
(* exceeds the hysteresis; ages stop at the first value that does, so that *)
(* time needs no bound.                                                    *)
(***************************************************************************)
EXTENDS Integers

CONSTANTS
    HysteresisMs, \* HYSTERESIS_MS (5000)
    Pressure      \* the values of the global pressure, in percent

ASSUME PolicyAssumption ==
    /\ HysteresisMs \in Nat
    /\ Pressure \subseteq 0..100
    /\ 0 \in Pressure

(* The modes as the weights isUpgrade compares.                            *)
NORMAL     == 0
MODERATE   == 1
AGGRESSIVE == 2
CRITICAL   == 3

Mode == NORMAL..CRITICAL

Ages == 0..(HysteresisMs + 1)

Older(age) == IF age <= HysteresisMs THEN age + 1 ELSE age

PolicyState == [currentMode : Mode, lastModeChange : Ages]

(* lastModeChange starts at 0, the epoch.                                  *)
InitialPolicy == [currentMode |-> NORMAL, lastModeChange |-> HysteresisMs + 1]

-----------------------------------------------------------------------------
(* Mutated form of Target: the modes share the range evenly.               *)
TargetByQuarter(p) == p \div 25

(* The mode the thresholds of updateMode ask for.                          *)
Target(p) ==
    CASE p >= 90            -> CRITICAL
      [] p >= 75 /\ p < 90  -> AGGRESSIVE
      [] p >= 50 /\ p < 75  -> MODERATE
      [] p < 50             -> NORMAL

IsUpgrade(policy, newMode) == newMode > policy.currentMode

(* Mutated forms of MayDowngrade: the hysteresis is ignored; a downgrade   *)
(* is never due.                                                           *)
MayDowngradeAtOnce(policy, newMode) == newMode # policy.currentMode

MayDowngradeNever(policy, newMode) ==
    /\ newMode # policy.currentMode
    /\ policy.lastModeChange > HysteresisMs + 1

MayDowngrade(policy, newMode) ==
    /\ newMode # policy.currentMode
    /\ policy.lastModeChange > HysteresisMs

(* updateMode and changeMode: up at once, down after the hysteresis, by    *)
(* any number of levels.                                                   *)
Updated(policy, p) ==
    IF IsUpgrade(policy, Target(p)) \/ MayDowngrade(policy, Target(p))
      THEN [currentMode |-> Target(p), lastModeChange |-> 0]
      ELSE policy

(* A millisecond later.                                                    *)
Later(policy) == [policy EXCEPT !.lastModeChange = Older(@)]
=============================================================================
