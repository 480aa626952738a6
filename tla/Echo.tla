-------------------------------- MODULE Echo --------------------------------
(***************************************************************************)
(* What a client of the RPC experiment is promised, with a proxy or        *)
(* without: its calls are made one after the other, the server serves each *)
(* once, after it is made and before it returns, and none is made or       *)
(* returns once one has been lost.                                         *)
(***************************************************************************)
EXTENDS Integers

VARIABLES
    called,     \* calls the client has made
    served,     \* calls the server has answered
    returned,   \* calls that returned to the client
    lost        \* has a call failed?

evars == <<called, served, returned, lost>>

Init == called = 0 /\ served = 0 /\ returned = 0 /\ lost = FALSE

Call ==
    /\ called = returned /\ ~lost
    /\ called' = called + 1
    /\ UNCHANGED <<served, returned, lost>>

Serve ==
    /\ served < called
    /\ served' = served + 1
    /\ UNCHANGED <<called, returned, lost>>

Return ==
    /\ returned < served /\ ~lost
    /\ returned' = returned + 1
    /\ UNCHANGED <<called, served, lost>>

Lose ==
    /\ ~lost
    /\ lost' = TRUE
    /\ UNCHANGED <<called, served, returned>>

Next == Call \/ Serve \/ Return \/ Lose

Spec == Init /\ [][Next]_evars
=============================================================================
