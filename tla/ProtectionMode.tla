---------------------------- MODULE ProtectionMode ----------------------------
(***************************************************************************)
(* The protection mode of a pod over time: requests call getMode, the      *)
(* global pressure is refreshed elsewhere and time passes, in any order.   *)
(***************************************************************************)
EXTENDS ProtectionPolicy

VARIABLES
    pressure, \* globalPressure.getGlobalPressure()
    policy,   \* the fields of protectionPolicy
    earlier   \* history: ages of the three changes before the last

vars == <<pressure, policy, earlier>>

TypeOK ==
    /\ pressure \in Pressure
    /\ policy \in PolicyState
    /\ earlier \in [1..3 -> Ages]

-----------------------------------------------------------------------------
Remember(age) ==
    [i \in 1..3 |-> IF i = 1 THEN age ELSE earlier[i - 1]]

GetMode ==
    /\ policy' = Updated(policy, pressure)
    /\ earlier' = IF policy'.currentMode # policy.currentMode
                    THEN Remember(policy.lastModeChange)
                    ELSE earlier
    /\ UNCHANGED pressure

(* refreshGlobalPressure assigns a new value.                              *)
Refresh(p) ==
    /\ pressure' = p
    /\ UNCHANGED <<policy, earlier>>

Tick ==
    /\ policy' = Later(policy)
    /\ earlier' = [i \in 1..3 |-> Older(earlier[i])]
    /\ UNCHANGED pressure

-----------------------------------------------------------------------------
Init ==
    /\ pressure = 0
    /\ policy = InitialPolicy
    /\ earlier = [i \in 1..3 |-> HysteresisMs + 1]

Next == GetMode \/ Tick \/ \E p \in Pressure : Refresh(p)

Spec == Init /\ [][Next]_vars

(* Time passes, and requests keep arriving: each calls getMode.            *)
FairSpec == Spec /\ WF_vars(Tick) /\ WF_vars(GetMode)

-----------------------------------------------------------------------------
(* Properties.                                                             *)

(* However the pressure swings, five changes of mode take longer than the  *)
(* hysteresis: with four levels at most three upgrades follow each other,  *)
(* and a downgrade waits (updateMode :40-46, changeMode :66).              *)
FlappingIsBounded ==
    [][policy'.currentMode # policy.currentMode =>
           earlier[3] > HysteresisMs]_vars

(* Once the pressure stays within the range of one mode, the pod comes to  *)
(* protect itself at least as that mode does, whatever the mode before and *)
(* however many levels there are in between; and below 70 percent it comes *)
(* to that mode and no other, so that no protection outlives its reason    *)
(* (updateMode :21-47). What docs/07_Adaptive_Model.md says of 90 percent  *)
(* (:86-87) and of leaving CRITICAL between 70 and 90 percent (:123)       *)
(* differs from the code and is left out.                                  *)
ModeFollowsPressure ==
    \A m \in Mode :
        /\ <>[](Target(pressure) = m /\ pressure # 90)
               => <>[](policy.currentMode >= m)
        /\ <>[](Target(pressure) = m /\ pressure < 70)
               => <>[](policy.currentMode = m)
=============================================================================
