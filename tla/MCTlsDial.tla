----------------------------- MODULE MCTlsDial ------------------------------
(* Up to three dials, and numbers of dials no goroutine is started for.    *)
EXTENDS TlsDial

SomeDials == {-1, 0, 1, 2, 3}
=============================================================================
