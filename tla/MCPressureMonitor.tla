-------------------------- MODULE MCPressureMonitor --------------------------
(***************************************************************************)
(* An instance of PressureMonitor for TLC: idle, a long garbage collection *)
(* without requests, and traffic with a full heap and a blocked loop.      *)
(***************************************************************************)
EXTENDS PressureMonitor

Loads == {[memory |-> 10,  lag |-> 0,  busy |-> FALSE],
          [memory |-> 60,  lag |-> 15, busy |-> FALSE],
          [memory |-> 100, lag |-> 30, busy |-> TRUE]}
=============================================================================
