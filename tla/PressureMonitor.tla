--------------------------- MODULE PressureMonitor ---------------------------
(***************************************************************************)
(* The local pressure of a pod (src/src/pressure/pressureMonitor.ts). One  *)
(* timer samples how late it fires, another turns the samples, the heap in *)
(* use and the requests counted since its last run into a score; requests  *)
(* are reported in between. The two timers are not synchronised, and a     *)
(* busy event loop delays both.                                            *)
(***************************************************************************)
EXTENDS Integers, Sequences, Functions, FiniteSetsExt

CONSTANTS
    HistorySize,  \* lag samples kept (20)
    LagFull,      \* average lag in ms that scores in full (100)
    RequestsFull, \* requests between two calculations that do (1000)
    Load          \* the loads a pod is put under

(* Heap in use as a percentage of 512 MB, at most 100; the lateness of the *)
(* lag timer in ms; whether requests arrive.                               *)
LoadsAreMeasured ==
    /\ HistorySize \in Nat \ {0}
    /\ LagFull \in Nat \ {0}
    /\ RequestsFull \in Nat \ {0}
    /\ Load \subseteq [memory : 0..100, lag : Nat, busy : BOOLEAN]

ASSUME LoadAssumption == LoadsAreMeasured

VARIABLES
    load,           \* the load of the moment
    history,        \* the lag samples
    requestCounts,  \* requests reported since the last calculation
    currentPressure \* what getPressure returns, in hundredths of a percent

vars == <<load, history, requestCounts, currentPressure>>

-----------------------------------------------------------------------------
(* The score.                                                              *)

Least(a, b) == Min({a, b})

(* avgLag / 100, at most 1, in percent; the average of no samples is zero. *)
(* In the mutated form nothing bounds it.                                  *)
LagScoreUnbounded(samples) ==
    (100 * SumFunction(samples)) \div (Max({1, Len(samples)}) * LagFull)

LagScore(samples) ==
    Least(100, (100 * SumFunction(samples)) \div
                   (Max({1, Len(samples)}) * LagFull))

RpsLoad(requests) == Least(100, (100 * requests) \div RequestsFull)

(* The weighted sum. The processor load is the constant 0.2; errors are    *)
(* never reported (reportError has no caller), so their rate is zero.      *)
Score(memory, lagScore, rpsLoad) ==
    35 * 20 + 25 * memory + 15 * lagScore + 15 * rpsLoad

(* The highest score of any load.                                          *)
Ceiling == Score(100, 100, 100)

TypeOK ==
    /\ load \in Load
    /\ history \in Seq(Nat)
    /\ Len(history) <= HistorySize
    /\ requestCounts \in 0..RequestsFull
    /\ currentPressure \in 0..Ceiling

-----------------------------------------------------------------------------
LoadChanges ==
    /\ load' \in Load
    /\ UNCHANGED <<history, requestCounts, currentPressure>>

(* reportRequest. The count stops where it scores in full.                 *)
ReportRequest ==
    /\ load.busy
    /\ requestCounts' = Least(requestCounts + 1, RequestsFull)
    /\ UNCHANGED <<load, history, currentPressure>>

(* Mutated form of Recorded: a full history takes no further sample.       *)
RecordedUntilFull(samples, lag) ==
    IF Len(samples) < HistorySize THEN Append(samples, lag) ELSE samples

(* push, and shift when there is one too many.                             *)
Recorded(samples, lag) ==
    IF Len(samples) < HistorySize THEN Append(samples, lag)
                                  ELSE Append(Tail(samples), lag)

SampleLag ==
    /\ history' = Recorded(history, load.lag)
    /\ UNCHANGED <<load, requestCounts, currentPressure>>

CalculatePressure ==
    /\ currentPressure' = Score(load.memory, LagScore(history),
                                RpsLoad(requestCounts))
    /\ requestCounts' = 0
    /\ UNCHANGED <<load, history>>

-----------------------------------------------------------------------------
Init ==
    /\ load \in Load
    /\ history = <<>>
    /\ requestCounts = 0
    /\ currentPressure = 0

Next == LoadChanges \/ ReportRequest \/ SampleLag \/ CalculatePressure

Spec == Init /\ [][Next]_vars

(* The timers keep firing.                                                 *)
FairSpec == Spec /\ WF_vars(SampleLag) /\ WF_vars(CalculatePressure)

-----------------------------------------------------------------------------
(* Properties.                                                             *)

(* Once requests have stopped and the load no longer changes, the pressure *)
(* settles at what the load is worth: neither samples nor requests of an   *)
(* earlier load are counted for ever (timer :25-35, calculatePressure      *)
(* :59-67).                                                                *)
PressureFollowsLoad ==
    \A l \in Load :
        <>[](load = l /\ ~ l.busy) =>
            <>[](currentPressure = Score(l.memory, LagScore(<<l.lag>>), 0))
=============================================================================
