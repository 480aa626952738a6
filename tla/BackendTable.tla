---------------------------- MODULE BackendTable ----------------------------
(***************************************************************************)
(* The data the elasticity load balancer keeps about its backends          *)
(* (kubernetes/elasticity/cmd/lb/main.go, struct LB): podIPs, the ordered  *)
(* list of backends, and outstandingReqs, the number of requests it        *)
(* believes each address is serving.                                       *)
(*                                                                         *)
(* A backend is a member of Pods.  The code builds the address as          *)
(* ip + ":8080", which is one-to-one, so a pod stands both for its IP and  *)
(* for its address.  NoAddr stands for the address "" that the code starts *)
(* its search for the shortest queue with.                                 *)
(*                                                                         *)
(* The operators below say what the two loops of the code compute, over    *)
(* every order in which Go may range over a map.  Module BackendCalls runs *)
(* the loops themselves and shows that this is their result.               *)
(***************************************************************************)
EXTENDS Integers, Sequences, FiniteSets, Functions

CONSTANTS Pods,    \* the pods that may ever back the service
          NoAddr   \* the address ""

ASSUME BackendAssumption == IsFiniteSet(Pods) /\ NoAddr \notin Pods

VARIABLES
    podIPs,            \* lb.podIPs
    outstandingReqs,   \* lb.outstandingReqs
    ips                \* the map of ready pods monitorPods makes, the argument
                       \* of updatePodIPs

Addrs == Pods \cup {NoAddr}

(* A Go map[string]int: a function whose domain is the set of its keys. *)
IsQLenTable(m) == DOMAIN m \subseteq Addrs /\ m \in [DOMAIN m -> Int]

NoTable == [a \in {} |-> 0]

(* What reading m[a] gives: a missing key reads as 0. *)
Count(m, a) == IF a \in DOMAIN m THEN m[a] ELSE 0

(* m[a] += d, which creates a missing key. *)
AddTo(m, a, d) ==
    [x \in DOMAIN m \cup {a} |-> Count(m, x) + (IF x = a THEN d ELSE 0)]

(* m[a] = 0 for every a in S. *)
ZeroAll(m, S) == [x \in DOMAIN m \cup S |-> IF x \in S THEN 0 ELSE m[x]]

(* Every way of listing the finite set S without repetition. *)
Orderings(S) == Bijection(1..Cardinality(S), S)

(* What updatePodIPs makes of the list old when the endpoints object       *)
(* names the pods now: the survivors keep their order and come before the  *)
(* additions, which come in any order.                                     *)
IsUpdateOf(new, old, now) ==
    /\ new \in Orderings(now)
    /\ \A i, j \in DOMAIN old :
          i < j /\ old[i] \in now /\ old[j] \in now =>
              \E k, l \in DOMAIN new : k < l /\ new[k] = old[i] /\ new[l] = old[j]
    /\ \A k, l \in DOMAIN new :
          k < l /\ new[l] \in Range(old) => new[k] \in Range(old)

(* updatePodIPs panics exactly when the first backend of the list is gone: *)
(* after removing element 0 it logs podIPs[-1].                            *)
UpdatePanics(old, now) == old # <<>> /\ old[1] \notin now

ShortestOf(m) == {a \in DOMAIN m : \A b \in DOMAIN m : m[a] <= m[b]}

PickSetIgnoringSentinel(m) == IF DOMAIN m = {} THEN {NoAddr} ELSE ShortestOf(m)

(* The addresses that getBackendPodAddrClntSideQLen may return for the     *)
(* table m.  Its loop uses -1 for "no minimum yet", so once it has met a   *)
(* queue of length -1 it forgets it and takes whatever comes next: when -1 *)
(* is the minimum, every address is a possible answer.                     *)
PickSet(m) ==
    IF DOMAIN m = {} THEN {NoAddr}
    ELSE IF \E a \in ShortestOf(m) : m[a] = -1 THEN DOMAIN m
    ELSE ShortestOf(m)
=============================================================================
