--------------------------- MODULE MCSeccompTest ---------------------------
(* Every filter there is. *)
EXTENDS SeccompTest

AllPolicies == SUBSET Syscalls
=============================================================================
