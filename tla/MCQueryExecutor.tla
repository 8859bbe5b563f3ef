-------------------------- MODULE MCQueryExecutor --------------------------
(* Instances of QueryExecutor for TLC.                                     *)
EXTENDS QueryExecutorRefinement

(* A clock that only moves forward, and a wall clock that an NTP or VM     *)
(* adjustment may step back by one tick while a query runs.                 *)
MonotoneDeltas == 0..1
SteppingDeltas == -1..1

(* argv[1]: a negative, a zero and a normal number of rounds.              *)
SmallIterations == {-1, 0, 1, 2}

AllModes == {"simple", "detailed", "explain"}
=============================================================================
