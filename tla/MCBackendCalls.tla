--------------------------- MODULE MCBackendCalls ---------------------------
(* The calls over every list of at most three pods, every set of ready     *)
(* pods and every table of counters with the values below: the sentinel -1 *)
(* and both sides of it.                                                   *)
EXTENDS BackendCalls

MCCounts == {-2, -1, 1}
=============================================================================
