-------------------------- MODULE MCEtcdWatchTest ---------------------------
(* The tests with a few requests and watchers, on a registry in which      *)
(* killed runs have left anything they may leave.                          *)
EXTENDS EtcdWatchTest

LeftBehind == SUBSET (Keys \cup MinKeys \cup {Dummy})
=============================================================================
