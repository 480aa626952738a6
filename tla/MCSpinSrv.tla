----------------------------- MODULE MCSpinSrv ------------------------------
(* The spin server with more requests than slots.                          *)
EXTENDS SpinSrv
=============================================================================
