-------------------------- MODULE ReplicatedBreaker --------------------------
(***************************************************************************)
(* What the replicated circuit breaker promises, without requests, counters*)
(* or queues. Each pod that has one holds a version of the breaker: a state*)
(* and the time it was entered. A version changes in two ways only: its pod*)
(* takes a decision the state diagram allows and announces it, or its pod  *)
(* learns a later version that some pod has announced. Announcements may be*)
(* lost, delayed, reordered and repeated, and pods may forget.             *)
(***************************************************************************)
EXTENDS Integers

CONSTANTS
    Pod,       \* the gateway processes
    CooldownMs \* how long an OPEN version is held

VARIABLES
    view, \* pod -> its version, for the pods that have one
    wire  \* the announced versions that may still reach a pod

vars == <<view, wire>>

(* The state diagram. A pod without a version stands at CLOSED.            *)
Edge == {<<"CLOSED", "OPEN">>, <<"OPEN", "HALF_OPEN">>,
         <<"HALF_OPEN", "OPEN">>, <<"HALF_OPEN", "CLOSED">>}

StateOf(p) == IF p \in DOMAIN view THEN view[p].state ELSE "CLOSED"

(* No other pod's version changes.                                         *)
OnlyAt(p) ==
    /\ DOMAIN view' = DOMAIN view \cup {p}
    /\ \A q \in DOMAIN view \ {p} : view'[q] = view[q]

-----------------------------------------------------------------------------
(* A pod moves along an edge, out of OPEN only after the cooldown, and     *)
(* announces its new version with a timestamp no older than it.            *)
Decide(p) ==
    /\ OnlyAt(p)
    /\ <<StateOf(p), view'[p].state>> \in Edge
    /\ StateOf(p) = "OPEN" =>
           view'[p].timestamp - view[p].timestamp > CooldownMs
    /\ \E m \in wire' : /\ wire' = wire \cup {m}
                        /\ m.state = view'[p].state
                        /\ m.timestamp >= view'[p].timestamp

(* A pod without a version starts with a CLOSED one of its own.            *)
Join(p) ==
    /\ p \notin DOMAIN view
    /\ OnlyAt(p)
    /\ view'[p].state = "CLOSED"
    /\ wire' \subseteq wire

(* A pod takes over an announced version later than its own.               *)
Learn(p) ==
    /\ OnlyAt(p)
    /\ view'[p] \in wire
    /\ p \in DOMAIN view => view'[p].timestamp > view[p].timestamp
    /\ wire' \subseteq wire

(* A pod is replaced.                                                      *)
Forget(p) ==
    /\ DOMAIN view' = DOMAIN view \ {p}
    /\ \A q \in DOMAIN view' : view'[q] = view[q]
    /\ wire' \subseteq wire

(* Announcements that have reached everyone they will ever reach.          *)
Lose ==
    /\ wire' \subseteq wire
    /\ UNCHANGED view

-----------------------------------------------------------------------------
Init ==
    /\ DOMAIN view = {}
    /\ wire = {}

Next ==
    \/ \E p \in Pod : Decide(p) \/ Join(p) \/ Learn(p) \/ Forget(p)
    \/ Lose

Spec == Init /\ [][Next]_vars
=============================================================================
