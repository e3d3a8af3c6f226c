---------------------------- MODULE GlobalPressure ----------------------------
(***************************************************************************)
(* The global pressure (src/src/pressure/globalPressure.ts): every pod     *)
(* publishes its local pressure under a key that expires, and averages the *)
(* keys it finds. A refresh is two commands, KEYS and MGET, with an await  *)
(* after each, and is started by a timer whether or not the one before has *)
(* ended; the commands of a pod share a connection, which keeps their      *)
(* order. Keys appear and expire between the two.                          *)
(*                                                                         *)
(* Pressures are percentages. A command and its reply are one step. Time   *)
(* advances in ticks only as far as publications are due, so that it needs *)
(* no bound.                                                               *)
(***************************************************************************)
EXTENDS Integers, Sequences, Functions, FiniteSetsExt

CONSTANTS
    Pod,         \* the gateway processes
    Local,       \* the pressures pressureMonitor.getPressure() returns
    MinGap,      \* ticks between two publications of a pod: the timer's
    MaxGap,      \*   second, less or more by what delays timer and command
    Ttl,         \* ticks a key lives (EX 5)
    Tolerated,   \* publications in a row that may fail within that time
    MaxRefreshes \* bound: pod -> its refreshes under way at one time

(* A pod starts with the pressure 0, before its first calculation.         *)
ASSUME PressureAssumption == Local \subseteq 0..100 /\ 0 \in Local

ASSUME TimeAssumption ==
    /\ MinGap \in Nat /\ MaxGap \in Nat /\ Ttl \in Nat /\ Tolerated \in Nat
    /\ MinGap <= MaxGap
    /\ (Tolerated + 1) * MaxGap < Ttl
    /\ MaxRefreshes \in [Pod -> Nat \ {0}]

VARIABLES
    alive,   \* the pods that run
    local,   \* pod -> pressureMonitor.getPressure()
    since,   \* pod -> ticks since its last publication was due
    keys,    \* pods with a key pressure:<pod> -> its value and ticks to live
    refresh, \* pod -> the replies to KEYS its refreshes ask MGET about
    global,  \* pod -> currentGlobalPressure
    missed   \* history: pod -> publications failed since its last good one

vars == <<alive, local, since, keys, refresh, global, missed>>

Key == [value : Local, left : 1..Ttl]

TypeOK ==
    /\ alive \subseteq Pod
    /\ local \in [Pod -> Local]
    /\ since \in [Pod -> 0..MaxGap]
    /\ \E D \in SUBSET Pod : keys \in [D -> Key]
    /\ refresh \in [Pod -> Seq(SUBSET Pod)]
    /\ global \in [Pod -> 0..100]
    /\ missed \in [Pod -> 0..(Tolerated + 1)]

-----------------------------------------------------------------------------
(* calculatePressure of the monitor, another timer of the same pod.        *)
CalculatePressure(p) ==
    /\ p \in alive
    /\ \E v \in Local : local' = [local EXCEPT ![p] = v]
    /\ UNCHANGED <<alive, since, keys, refresh, global, missed>>

(* Mutated form of Written: the time to live is as long as the gap between *)
(* two publications may be.                                                *)
WrittenForOneGap(p) ==
    [q \in DOMAIN keys \cup {p} |->
        IF q = p THEN [value |-> local[p], left |-> MaxGap] ELSE keys[q]]

(* SET pressure:<pod> <local> EX 5.                                        *)
Written(p) ==
    [q \in DOMAIN keys \cup {p} |->
        IF q = p THEN [value |-> local[p], left |-> Ttl] ELSE keys[q]]

PublishLocalPressure(p) ==
    /\ p \in alive
    /\ since[p] >= MinGap
    /\ since' = [since EXCEPT ![p] = 0]
    /\ keys' = Written(p)
    /\ missed' = [missed EXCEPT ![p] = 0]
    /\ UNCHANGED <<alive, local, refresh, global>>

(* The SET fails; the rejection is logged.                                 *)
PublishFails(p) ==
    /\ p \in alive
    /\ since[p] >= MinGap
    /\ since' = [since EXCEPT ![p] = 0]
    /\ missed' = [missed EXCEPT ![p] = Min({@ + 1, Tolerated + 1})]
    /\ UNCHANGED <<alive, local, keys, refresh, global>>

(* A refresh starts: KEYS pressure:*. Without keys it ends with the local  *)
(* pressure, otherwise it goes on to MGET.                                 *)
Keys(p) ==
    /\ p \in alive
    /\ Len(refresh[p]) < MaxRefreshes[p]
    /\ \/ /\ DOMAIN keys = {}
          /\ global' = [global EXCEPT ![p] = local[p]]
          /\ UNCHANGED refresh
       \/ /\ DOMAIN keys # {}
          /\ refresh' = [refresh EXCEPT ![p] = Append(@, DOMAIN keys)]
          /\ UNCHANGED global
    /\ UNCHANGED <<alive, local, since, keys, missed>>

(* The keys of the earlier reply that still have a value. The value "0" is *)
(* a string, and true; in the mutated form it is taken for a missing one.  *)
FoundWithoutZero(asked) == {q \in asked \cap DOMAIN keys : keys[q].value # 0}

Found(asked) == asked \cap DOMAIN keys

Total(pods) == SumFunctionOnSet([q \in DOMAIN keys |-> keys[q].value], pods)

(* The sum over the count; the mutated form forgets to divide.             *)
AverageUndivided(pods) == Total(pods)

Average(pods) == Total(pods) \div Cardinality(pods)

MGet(p) ==
    /\ refresh[p] # <<>>
    /\ LET found == Found(Head(refresh[p]))
       IN  global' = [global EXCEPT ![p] =
                          IF found = {} THEN local[p] ELSE Average(found)]
    /\ refresh' = [refresh EXCEPT ![p] = Tail(@)]
    /\ UNCHANGED <<alive, local, since, keys, missed>>

(* KEYS or MGET fails: the local pressure takes the place of the average.  *)
RefreshFails(p) ==
    /\ p \in alive
    /\ global' = [global EXCEPT ![p] = local[p]]
    /\ \/ UNCHANGED refresh
       \/ refresh[p] # <<>> /\ refresh' = [refresh EXCEPT ![p] = Tail(@)]
    /\ UNCHANGED <<alive, local, since, keys, missed>>

-----------------------------------------------------------------------------
(* A pod stops; its key stays until it expires.                            *)
Stop(p) ==
    /\ p \in alive
    /\ alive' = alive \ {p}
    /\ refresh' = [refresh EXCEPT ![p] = <<>>]
    /\ global' = [global EXCEPT ![p] = 0]
    /\ local' = [local EXCEPT ![p] = 0]
    /\ since' = [since EXCEPT ![p] = 0]
    /\ missed' = [missed EXCEPT ![p] = Tolerated + 1]
    /\ UNCHANGED keys

(* A pod starts, with the memory of a new process.                         *)
Start(p) ==
    /\ p \notin alive
    /\ alive' = alive \cup {p}
    /\ UNCHANGED <<local, since, keys, refresh, global, missed>>

(* Half a second or so: no publication is put off beyond MaxGap; keys age  *)
(* and expire.                                                             *)
Tick ==
    /\ \A p \in alive : since[p] < MaxGap
    /\ since' = [p \in Pod |-> IF p \in alive THEN since[p] + 1 ELSE since[p]]
    /\ keys' = [q \in {r \in DOMAIN keys : keys[r].left > 1} |->
                    [keys[q] EXCEPT !.left = @ - 1]]
    /\ UNCHANGED <<alive, local, refresh, global, missed>>

-----------------------------------------------------------------------------
Init ==
    /\ alive = {}
    /\ local = [p \in Pod |-> 0]
    /\ since = [p \in Pod |-> 0]
    /\ keys = <<>>
    /\ refresh = [p \in Pod |-> <<>>]
    /\ global = [p \in Pod |-> 0]
    /\ missed = [p \in Pod |-> Tolerated + 1]

Timers(p) == PublishLocalPressure(p) \/ Keys(p) \/ MGet(p)

Routine == Tick \/ \E p \in Pod : Timers(p)

Disturbance ==
    \E p \in Pod : \/ CalculatePressure(p)
                   \/ PublishFails(p)
                   \/ RefreshFails(p)
                   \/ Stop(p)
                   \/ Start(p)

Next == Routine \/ Disturbance

Spec == Init /\ [][Next]_vars

(* Time passes and the timers of the pods fire.                            *)
Fairness ==
    /\ WF_vars(Tick)
    /\ \A p \in Pod : /\ WF_vars(PublishLocalPressure(p))
                      /\ WF_vars(Keys(p))
                      /\ WF_vars(MGet(p))

FairSpec == Spec /\ Fairness

-----------------------------------------------------------------------------
(* Properties.                                                             *)

(* The key of a running pod does not expire while at most Tolerated of its *)
(* publications in a row have failed, however unevenly they are spaced: a  *)
(* pod under pressure is not left out of the average because it is slow    *)
(* (publishLocalPressure :23-31).                                          *)
SlowPodsAreCounted ==
    \A p \in alive : missed[p] <= Tolerated => p \in DOMAIN keys

(* What the average of the running pods would be now.                      *)
AverageOfLocal ==
    SumFunctionOnSet(local, alive) \div Max({1, Cardinality(alive)})

(* Once pods no longer start, stop, fail or change their pressure, every   *)
(* pod comes to the same pressure, the average over the running pods:      *)
(* stopped pods are forgotten, and no refresh that was under way, however  *)
(* old the keys it asks for, brings an earlier value back                  *)
(* (refreshGlobalPressure :33-66).                                         *)
PodsConverge ==
    <>[][Routine]_vars => <>[](\A p \in alive : global[p] = AverageOfLocal)
=============================================================================
