--------------------------- MODULE MCRequestRate ----------------------------
(* Two goroutines over four periods: long enough for both buckets to be   *)
(* used twice, and for a gap in which a bucket goes stale.                 *)
EXTENDS RequestRateHistory, TLC

CallersSymmetry == Permutations(Callers)
=============================================================================
