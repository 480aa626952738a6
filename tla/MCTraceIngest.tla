--------------------------- MODULE MCTraceIngest ----------------------------
(* Three files and a few runs, started in the modes the options give.      *)
EXTENDS TraceIngest

Incremental == [incremental |-> TRUE, reset |-> FALSE]
IncrementalReset == [incremental |-> TRUE, reset |-> TRUE]
Standard == [incremental |-> FALSE, reset |-> FALSE]
StandardReset == [incremental |-> FALSE, reset |-> TRUE]

SafeModes == {Incremental, IncrementalReset, Standard}
ResetModes == {Incremental, StandardReset}
=============================================================================
