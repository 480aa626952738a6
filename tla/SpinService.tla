---------------------------- MODULE SpinService -----------------------------
(***************************************************************************)
(* What the spin server promises: requests are queued, at most one per     *)
(* slot spins at a time, each spins once, and each is answered after its   *)
(* spin.  The order in which queued requests get a slot is left open.      *)
(* With a single slot a spin kills the server, and what was accepted or    *)
(* being read is lost.                                                     *)
(***************************************************************************)
EXTENDS Integers, FiniteSets

CONSTANT Requests

VARIABLES
    slots,     \* how many
    new,       \* not yet made
    queued,    \* accepted, waiting for a slot
    spinning,  \* on a slot
    answered   \* done

svars == <<slots, new, queued, spinning, answered>>

Init ==
    /\ slots \in Nat \ {0}
    /\ new = Requests
    /\ queued = {} /\ spinning = {} /\ answered = {}

Accept(r) ==
    /\ r \in new
    /\ new' = new \ {r}
    /\ queued' = queued \cup {r}
    /\ UNCHANGED <<slots, spinning, answered>>

(* A request without an id or with a duration that does not parse. *)
Refuse(r) ==
    /\ r \in new
    /\ new' = new \ {r}
    /\ UNCHANGED <<slots, queued, spinning, answered>>

Start(r) ==
    /\ r \in queued
    /\ Cardinality(spinning) < slots
    /\ queued' = queued \ {r}
    /\ spinning' = spinning \cup {r}
    /\ UNCHANGED <<slots, new, answered>>

Answer(r) ==
    /\ r \in spinning
    /\ slots > 1
    /\ spinning' = spinning \ {r}
    /\ answered' = answered \cup {r}
    /\ UNCHANGED <<slots, new, queued>>

Lose ==
    /\ slots = 1 /\ spinning # {}
    /\ new' \in SUBSET new
    /\ queued' = {} /\ spinning' = {}
    /\ UNCHANGED <<slots, answered>>

Next ==
    \/ \E r \in Requests : Accept(r) \/ Refuse(r) \/ Start(r) \/ Answer(r)
    \/ Lose

Spec ==
    /\ Init /\ [][Next]_svars
    /\ \A r \in Requests : WF_svars(Start(r) \/ Answer(r))
=============================================================================
