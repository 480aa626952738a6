------------------------- MODULE LoadBalancerProofs -------------------------
(***************************************************************************)
(* Type correctness of the load balancer, the accounting of its counters,  *)
(* and what either type of balancing promises, for any finite set of pods, *)
(* any finite set of requests and any LBTypes.  Then, for any list, ready  *)
(* set and table of counters, what the two loops of BackendCalls compute,  *)
(* and that PickSet is exactly what the search can return.                 *)
(***************************************************************************)
EXTENDS LoadBalancer, BackendCalls, FiniteSetTheorems, TLAPS

(* Adding to one counter makes a table again, and reads as one would hope. *)
LEMMA AddToTable ==
    ASSUME NEW m, IsQLenTable(m), NEW a \in Addrs, NEW d \in Int
    PROVE  IsQLenTable(AddTo(m, a, d)) /\ DOMAIN AddTo(m, a, d) = DOMAIN m \cup {a}
  <1>1. \A x : Count(m, x) \in Int
    BY DEF IsQLenTable, Count
  <1> QED
    BY <1>1 DEF IsQLenTable, AddTo

LEMMA AddToCount ==
    ASSUME NEW m, IsQLenTable(m), NEW a \in Addrs, NEW d \in Int, NEW x
    PROVE  Count(AddTo(m, a, d), x) = Count(m, x) + (IF x = a THEN d ELSE 0)
  BY DEF IsQLenTable, AddTo, Count

(* Setting the counters of a set of pods to 0 makes a table again. *)
LEMMA ZeroAllTable ==
    ASSUME NEW m, IsQLenTable(m), NEW S \in SUBSET Addrs
    PROVE  IsQLenTable(ZeroAll(m, S)) /\ DOMAIN ZeroAll(m, S) = DOMAIN m \cup S
  BY DEF IsQLenTable, ZeroAll

LEMMA ZeroAllCount ==
    ASSUME NEW m, NEW S, NEW x
    PROVE  Count(ZeroAll(m, S), x) = IF x \in S THEN 0 ELSE Count(m, x)
  BY DEF ZeroAll, Count

(* The table of a process that has just started. *)
LEMMA NoTableIsTable == IsQLenTable(NoTable) /\ DOMAIN NoTable = {}
  BY DEF IsQLenTable, NoTable

(* The search for the shortest queue answers with an address. *)
LEMMA PickIsAddr ==
    ASSUME NEW m, IsQLenTable(m)
    PROVE  PickSet(m) \subseteq Addrs
  BY DEF IsQLenTable, PickSet, ShortestOf, Addrs

(* A list of all the pods in S without repetition is a sequence of pods    *)
(* whose range is S.                                                       *)
LEMMA OrderingIsSeq ==
    ASSUME NEW S \in SUBSET Pods, NEW s \in Orderings(S)
    PROVE  s \in Seq(Pods) /\ Range(s) = S
  <1>1. IsFiniteSet(S)
    BY FS_Subset, BackendAssumption
  <1>2. Cardinality(S) \in Nat
    BY <1>1, FS_CardinalityType
  <1>3. s \in [1..Cardinality(S) -> S] /\ \A y \in S : \E x \in 1..Cardinality(S) : s[x] = y
    BY DEF Orderings, Bijection, Surjection
  <1> QED
    BY <1>2, <1>3 DEF Range

(* The number of requests in flight at an address is a number, and how it  *)
(* changes when one request enters or leaves.                              *)
LEMMA OutstandingIsNat ==
    ASSUME NEW a
    PROVE  IsFiniteSet(InFlight(a)) /\ Outstanding(a) \in Nat
  <1>1. InFlight(a) \in SUBSET Requests
    BY DEF InFlight
  <1> QED
    BY <1>1, FS_Subset, FS_CardinalityType, RequestAssumption DEF Outstanding

LEMMA OneMoreInFlight ==
    ASSUME NEW a, NEW r, r \notin InFlight(a), InFlight(a)' = InFlight(a) \cup {r}
    PROVE  Outstanding(a)' = Outstanding(a) + 1
  BY OutstandingIsNat, FS_AddElement DEF Outstanding

LEMMA OneLessInFlight ==
    ASSUME NEW a, NEW r \in InFlight(a), InFlight(a)' = InFlight(a) \ {r}
    PROVE  Outstanding(a)' = Outstanding(a) - 1
  BY OutstandingIsNat, FS_RemoveElement DEF Outstanding

LEMMA SameInFlight ==
    ASSUME NEW a, InFlight(a)' = InFlight(a)
    PROVE  Outstanding(a)' = Outstanding(a)
  BY DEF Outstanding
-----------------------------------------------------------------------------
(* What an action leaves alone is enough for most of the conjuncts. *)

(* Type correctness of struct LB and of everything around it (lines 43-50, *)
(* 68-179): in particular every entry of podIPs is a pod, the index of     *)
(* line 117 is in bounds, and counters are integers.                       *)
THEOREM TypeCorrect == Spec => []TypeOK
  <1>1. Init => TypeOK
    BY DEF Init, InitLB, TypeOK, NoTable, NoTurns, IsQLenTable, RequestStates, Addrs
  <1>2. TypeOK /\ [Next]_vars => TypeOK'
    <2> SUFFICES ASSUME TypeOK, [Next]_vars PROVE TypeOK'
      OBVIOUS
    <2> USE DEF TypeOK, lbVars, monVars, envVars, hist
    <2>1. ASSUME NEW D \in SUBSET Requests, Die(D), UNCHANGED envVars PROVE TypeOK'
      <3>1. IsQLenTable(outstandingReqs')
        BY <2>1, NoTableIsTable DEF Die
      <3>2. [st |-> "aborted", addr |-> NoAddr] \in [st : RequestStates, addr : Addrs]
        BY DEF RequestStates, Addrs
      <3>3. req' \in [Requests -> [st : RequestStates, addr : Addrs]]
        BY <2>1, <3>2 DEF Die
      <3> QED
        <4>1. podIPs' \in Seq(Pods) /\ idx' \in Nat /\ ips' \subseteq Pods
          BY <2>1 DEF Die
        <4>2. lostCount' \in [Addrs -> Nat] /\ turns' \in [Pods -> Nat]
          BY <2>1 DEF Die, NoTurns
        <4>3. running' \in BOOLEAN /\ monitor' \in {"get", "update"}
          BY <2>1 DEF Die
        <4>4. lbType' \in LBTypes /\ ready' \subseteq Pods /\ apiUp' \in BOOLEAN
          BY <2>1
        <4> QED
          BY <3>1, <3>3, <4>1, <4>2, <4>3, <4>4
    <2>2. CASE MonitorGet
      BY <2>2 DEF MonitorGet
    <2>3. CASE MonitorGetFails
      BY <2>1, <2>3 DEF MonitorGetFails
    <2>4. CASE MonitorUpdate
      <3> DEFINE added == ips \ Range(podIPs)
      <3>1. podIPs' \in Orderings(ips) /\ turns' \in {turns, NoTurns}
        BY <2>4 DEF MonitorUpdate, UpdatedLists
      <3>2. podIPs' \in Seq(Pods) /\ turns' \in [Pods -> Nat]
        BY <3>1, OrderingIsSeq DEF NoTurns
      <3>3. IsQLenTable(outstandingReqs')
        <4>1. outstandingReqs' = ZeroAll(outstandingReqs, added)
          BY <2>4 DEF MonitorUpdate, UpdatedCounters
        <4>2. added \in SUBSET Addrs
          BY DEF Addrs
        <4> HIDE DEF added
        <4> QED
          BY <4>1, <4>2, ZeroAllTable
      <3>4. lostCount' \in [Addrs -> Nat]
        BY <2>4, OutstandingIsNat DEF MonitorUpdate
      <3> QED
        BY <2>4, <3>2, <3>3, <3>4 DEF MonitorUpdate
    <2>5. CASE MonitorPanics
      BY <2>1, <2>5 DEF MonitorPanics
    <2>6. CASE Restart
      BY <2>6 DEF Restart
    <2>7. ASSUME NEW r \in Requests, PickRR(r) PROVE TypeOK'
      <3> DEFINE k == (idx % Len(podIPs)) + 1
      <3>1. Len(podIPs) \in Nat \ {0}
        BY <2>7 DEF PickRR, RRIndex, NextIdx
      <3>2. k \in 1..Len(podIPs)
        BY <3>1
      <3>3. podIPs[k] \in Pods
        BY <3>2
      <3> HIDE DEF k
      <3>4. req' = [req EXCEPT ![r] = [st |-> "proxied", addr |-> podIPs[k]]]
            /\ turns' = [turns EXCEPT ![podIPs[k]] = @ + 1]
        BY <2>7 DEF PickRR, RRIndex, NextIdx, k
      <3>5. req' \in [Requests -> [st : RequestStates, addr : Addrs]]
        BY <3>3, <3>4 DEF RequestStates, Addrs
      <3>6. turns' \in [Pods -> Nat]
        BY <3>3, <3>4
      <3> QED
        BY <2>7, <3>5, <3>6 DEF PickRR, RRIndex, NextIdx
    <2>8. ASSUME NEW r \in Requests, PickClntSideQLen(r) PROVE TypeOK'
      <3>1. PICK a \in PickSet(outstandingReqs) :
               /\ req' = [req EXCEPT ![r] = [st |-> "proxied", addr |-> a]]
               /\ outstandingReqs' = AddTo(outstandingReqs, a, 1)
        BY <2>8 DEF PickClntSideQLen, PickCounted
      <3>2. a \in Addrs
        BY PickIsAddr
      <3>3. IsQLenTable(outstandingReqs')
        <4>1. \A d \in Int : IsQLenTable(AddTo(outstandingReqs, a, d))
          BY <3>2, AddToTable
        <4>2. outstandingReqs' = AddTo(outstandingReqs, a, 1)
          BY <3>1
        <4> QED
          BY <4>1, <4>2
      <3>4. req' \in [Requests -> [st : RequestStates, addr : Addrs]]
        BY <3>1, <3>2 DEF RequestStates
      <3> QED
        BY <2>8, <3>3, <3>4 DEF PickClntSideQLen, PickCounted
    <2>9. ASSUME NEW r \in Requests, PickFatal(r) PROVE TypeOK'
      BY <2>1, <2>9 DEF PickFatal
    <2>10. ASSUME NEW r \in Requests, NEW st \in {"got", "refused"}, ProxyReturns(r, st)
           PROVE  TypeOK'
      BY <2>10 DEF ProxyReturns, RequestStates
    <2>11. ASSUME NEW r \in Requests, NEW st \in {"answered", "refused"}, CopyBody(r, st)
           PROVE  TypeOK'
      BY <2>11 DEF CopyBody, RequestStates
    <2>12. ASSUME NEW r \in Requests, Put(r) PROVE TypeOK'
      <3>1. req[r].addr \in Addrs
        OBVIOUS
      <3>2. IsQLenTable(outstandingReqs')
        <4>1. \A d \in Int : IsQLenTable(AddTo(outstandingReqs, req[r].addr, d))
          BY <3>1, AddToTable
        <4>2. outstandingReqs' = AddTo(outstandingReqs, req[r].addr, -1)
          BY <2>12 DEF Put, PutCounted, Returns
        <4> QED
          BY <4>1, <4>2
      <3>3. PICK st \in {"ok", "err"} :
               req' = [req EXCEPT ![r] = [st |-> st, addr |-> NoAddr]]
        BY <2>12 DEF Put, PutCounted, Returns
      <3>4. req' \in [Requests -> [st : RequestStates, addr : Addrs]]
        BY <3>3 DEF RequestStates, Addrs
      <3> QED
        BY <2>12, <3>2, <3>4 DEF Put, PutCounted, Returns
    <2>13. CASE EndpointsChange
      BY <2>13 DEF EndpointsChange
    <2>14. CASE ApiToggles
      BY <2>14 DEF ApiToggles
    <2>15. CASE UNCHANGED vars
      BY <2>15 DEF vars
    <2> QED
      BY <2>2, <2>3, <2>4, <2>5, <2>6, <2>7, <2>8, <2>9, <2>10, <2>11, <2>12,
         <2>13, <2>14, <2>15 DEF Next, Monitor, Handler
  <1> QED
    BY <1>1, <1>2, PTL DEF Spec
-----------------------------------------------------------------------------
(* Most steps leave the handlers that hold an address where they are. *)
LEMMA HandlersUnchanged ==
    ASSUME NEW a, UNCHANGED req
    PROVE  InFlight(a)' = InFlight(a)
  BY DEF InFlight

(* A handler that moves on with its address is still in flight there. *)
LEMMA HandlerMovesOn ==
    ASSUME TypeOK, NEW a, NEW r \in Requests, HoldsAddr(req[r].st),
           NEW st \in RequestStates, HoldsAddr(st),
           req' = [req EXCEPT ![r].st = st]
    PROVE  InFlight(a)' = InFlight(a)
  <1>1. \A s \in Requests : /\ req'[s].addr = req[s].addr
                             /\ HoldsAddr(req'[s].st) <=> HoldsAddr(req[s].st)
    BY DEF TypeOK
  <1> QED
    BY <1>1 DEF InFlight

(* A new handler is in flight at the address it was given, and only there. *)
LEMMA HandlerStarts ==
    ASSUME TypeOK, NEW a, NEW b \in Addrs, NEW r \in Requests, ~HoldsAddr(req[r].st),
           req' = [req EXCEPT ![r] = [st |-> "proxied", addr |-> b]]
    PROVE  /\ r \notin InFlight(a)
           /\ a = b => InFlight(a)' = InFlight(a) \cup {r}
           /\ a # b => InFlight(a)' = InFlight(a)
  <1>1. req'[r] = [st |-> "proxied", addr |-> b]
        /\ \A s \in Requests \ {r} : req'[s] = req[s]
    BY DEF TypeOK
  <1> QED
    BY <1>1 DEF InFlight, HoldsAddr

(* A handler that has put its address back is in flight nowhere. *)
LEMMA HandlerEnds ==
    ASSUME TypeOK, NEW a, NEW r \in Requests, HoldsAddr(req[r].st), Put(r)
    PROVE  /\ a = req[r].addr => r \in InFlight(a) /\ InFlight(a)' = InFlight(a) \ {r}
           /\ a # req[r].addr => InFlight(a)' = InFlight(a)
  <1>1. ~HoldsAddr(req'[r].st) /\ \A s \in Requests \ {r} : req'[s] = req[s]
    BY DEF TypeOK, Put, Returns, HoldsAddr
  <1> QED
    BY <1>1 DEF InFlight

(* When the process dies no handler is left. *)
LEMMA NobodySurvives ==
    ASSUME NEW a, NEW D, Die(D)
    PROVE  InFlight(a)' = {}
  BY DEF Die, InFlight, HoldsAddr

Accounted(a) == Outstanding(a) = Count(outstandingReqs, a) + lostCount[a]

(* One action of the load balancer keeps the account of one address. *)
LEMMA AccountStep ==
    ASSUME TypeOK, lbType = "clntsideqlen", NEW a \in Addrs, Accounted(a), [Next]_vars
    PROVE  Accounted(a)'
  <1> USE DEF lbVars, monVars, envVars, hist
  <1>0. /\ Outstanding(a) \in Nat /\ lostCount[a] \in Nat
        /\ Count(outstandingReqs, a) \in Int
        /\ IsQLenTable(outstandingReqs)
    BY OutstandingIsNat DEF TypeOK, IsQLenTable, Count
  <1>1. ASSUME UNCHANGED <<outstandingReqs, lostCount>>, InFlight(a)' = InFlight(a)
        PROVE  Accounted(a)'
    BY <1>1, SameInFlight DEF Accounted, Count
  <1>2. ASSUME NEW D, Die(D) PROVE Accounted(a)'
    <2>1. Outstanding(a)' = 0
      BY <1>2, NobodySurvives, FS_EmptySet DEF Outstanding
    <2>2. Count(outstandingReqs', a) = 0 /\ lostCount'[a] = 0
      BY <1>2 DEF Die, NoTable, Count
    <2> QED
      BY <2>1, <2>2 DEF Accounted, Count
  <1>3. CASE MonitorGet \/ Restart \/ EndpointsChange \/ ApiToggles \/ UNCHANGED vars
    BY <1>1, <1>3, HandlersUnchanged
       DEF MonitorGet, Restart, EndpointsChange, ApiToggles, vars
  <1>4. CASE MonitorGetFails \/ MonitorPanics
    BY <1>2, <1>4 DEF MonitorGetFails, MonitorPanics
  <1>5. CASE MonitorUpdate
    <2> DEFINE added == ips \ Range(podIPs)
    <2>1. /\ outstandingReqs' = ZeroAll(outstandingReqs, added)
          /\ lostCount'[a] = IF a \in added THEN Outstanding(a) ELSE lostCount[a]
          /\ UNCHANGED req
      BY <1>5 DEF MonitorUpdate, UpdatedCounters
    <2> HIDE DEF added
    <2>2. Count(outstandingReqs', a) = IF a \in added THEN 0 ELSE Count(outstandingReqs, a)
      BY <2>1, ZeroAllCount
    <2>3. Outstanding(a)' = Outstanding(a)
      BY <2>1, HandlersUnchanged, SameInFlight
    <2>4. Outstanding(a)' = Count(outstandingReqs', a) + lostCount'[a]
      BY <1>0, <2>1, <2>2, <2>3 DEF Accounted
    <2> QED
      BY <2>4 DEF Accounted, Count
  <1>6. ASSUME NEW r \in Requests, PickClntSideQLen(r) PROVE Accounted(a)'
    <2>1. PICK b \in PickSet(outstandingReqs) :
             /\ req' = [req EXCEPT ![r] = [st |-> "proxied", addr |-> b]]
             /\ outstandingReqs' = AddTo(outstandingReqs, b, 1)
      BY <1>6 DEF PickClntSideQLen, PickCounted
    <2>2. b \in Addrs /\ ~HoldsAddr(req[r].st) /\ lostCount' = lostCount
      BY <1>0, <1>6, PickIsAddr DEF PickClntSideQLen, PickCounted, Arriving
    <2>3. \A d \in Int : Count(AddTo(outstandingReqs, b, d), a)
                         = Count(outstandingReqs, a) + (IF a = b THEN d ELSE 0)
      BY <1>0, <2>2, AddToCount
    <2>4. Count(outstandingReqs', a) = Count(outstandingReqs, a) + (IF a = b THEN 1 ELSE 0)
      BY <2>1, <2>3
    <2>5. Outstanding(a)' = Outstanding(a) + (IF a = b THEN 1 ELSE 0)
      <3>1. CASE a = b
        <4>1. r \notin InFlight(a) /\ InFlight(a)' = InFlight(a) \cup {r}
          BY <2>1, <2>2, <3>1, HandlerStarts
        <4> QED
          BY <3>1, <4>1, OneMoreInFlight
      <3>2. CASE a # b
        <4>1. InFlight(a)' = InFlight(a)
          BY <2>1, <2>2, <3>2, HandlerStarts
        <4> QED
          BY <1>0, <3>2, <4>1, SameInFlight
      <3> QED
        BY <3>1, <3>2
    <2>6. Outstanding(a)' = Count(outstandingReqs', a) + lostCount'[a]
      BY <1>0, <2>2, <2>4, <2>5 DEF Accounted
    <2> QED
      BY <2>6 DEF Accounted, Count
  <1>7. ASSUME NEW r \in Requests, PickRR(r) PROVE Accounted(a)'
    BY <1>7 DEF PickRR, RRIndex, NextIdx
  <1>8. ASSUME NEW r \in Requests, PickFatal(r) PROVE Accounted(a)'
    BY <1>2, <1>8 DEF PickFatal
  <1>9. ASSUME NEW r \in Requests, NEW st \in {"got", "refused"}, ProxyReturns(r, st)
        PROVE  Accounted(a)'
    <2>1. InFlight(a)' = InFlight(a)
      BY <1>9, HandlerMovesOn DEF ProxyReturns, HoldsAddr, RequestStates
    <2> QED
      BY <1>1, <1>9, <2>1 DEF ProxyReturns
  <1>10. ASSUME NEW r \in Requests, NEW st \in {"answered", "refused"}, CopyBody(r, st)
         PROVE  Accounted(a)'
    <2>1. InFlight(a)' = InFlight(a)
      BY <1>10, HandlerMovesOn DEF CopyBody, HoldsAddr, RequestStates
    <2> QED
      BY <1>1, <1>10, <2>1 DEF CopyBody
  <1>11. ASSUME NEW r \in Requests, Put(r) PROVE Accounted(a)'
    <2> DEFINE b == req[r].addr
    <2>1. b \in Addrs /\ HoldsAddr(req[r].st) /\ lostCount' = lostCount
          /\ outstandingReqs' = AddTo(outstandingReqs, b, -1)
      BY <1>11 DEF Put, PutCounted, Returns, HoldsAddr, TypeOK
    <2>2. Outstanding(a)' = IF a = b THEN Outstanding(a) - 1 ELSE Outstanding(a)
      <3>1. CASE a = b
        BY <1>11, <2>1, <3>1, HandlerEnds, OneLessInFlight
      <3>2. CASE a # b
        BY <1>11, <2>1, <3>2, HandlerEnds, SameInFlight
      <3> QED
        BY <3>1, <3>2
    <2> HIDE DEF b
    <2>3. \A d \in Int : Count(AddTo(outstandingReqs, b, d), a)
                         = Count(outstandingReqs, a) + (IF a = b THEN d ELSE 0)
      BY <1>0, <2>1, AddToCount
    <2>4. Count(outstandingReqs', a) = Count(outstandingReqs, a) + (IF a = b THEN -1 ELSE 0)
      BY <2>1, <2>3
    <2>5. Outstanding(a)' = Count(outstandingReqs', a) + lostCount'[a]
      BY <1>0, <2>1, <2>2, <2>4 DEF Accounted
    <2> QED
      BY <2>5 DEF Accounted, Count
  <1> QED
    BY <1>3, <1>4, <1>5, <1>6, <1>7, <1>8, <1>9, <1>10, <1>11 DEF Next, Monitor, Handler

(* Under clntsideqlen every counter is, at every moment, the number of     *)
(* requests in flight at its address less those in flight when the counter *)
(* was last reset (lines 89, 135, 157): for every number of pods and       *)
(* requests, whatever the endpoints do.                                    *)
THEOREM CountersAreAccounted == Spec => []CountersAccountForRequests
  <1>1. Init => CountersAccountForRequests
    <2> SUFFICES ASSUME Init, NEW a \in Addrs PROVE Accounted(a)
      BY DEF CountersAccountForRequests, Accounted
    <2>1. InFlight(a) = {}
      BY DEF Init, InFlight, HoldsAddr
    <2> QED
      BY <2>1, FS_EmptySet DEF Init, InitLB, Accounted, Outstanding, NoTable, Count
  <1>2. [Next]_vars => lbType' = lbType
    BY DEF Next, Monitor, Handler, MonitorGet, MonitorGetFails, MonitorUpdate,
           MonitorPanics, Restart, PickRR, PickClntSideQLen, PickFatal, ProxyReturns,
           CopyBody, Put, EndpointsChange, ApiToggles, envVars, vars
  <1>3. TypeOK /\ CountersAccountForRequests /\ [Next]_vars => CountersAccountForRequests'
    BY <1>2, AccountStep DEF CountersAccountForRequests, Accounted
  <1> QED
    BY <1>1, <1>3, TypeCorrect, PTL DEF Spec
-----------------------------------------------------------------------------
(* Counters are never deleted, so a list of backends and the requests in   *)
(* flight keep theirs: the inductive strengthening of the next theorem.    *)
CounterInv == EveryBackendHasACounter /\ EveryRequestHasACounter

(* putBackendPodAddr finds a counter for every address it is given, even   *)
(* after updatePodIPs has removed the pod while its request was out.       *)
THEOREM RequestsHaveCounters == Spec => []EveryRequestHasACounter
  <1>1. Init => CounterInv
    BY DEF Init, InitLB, CounterInv, EveryBackendHasACounter, EveryRequestHasACounter,
           HoldsAddr, Range
  <1>2. TypeOK /\ CounterInv /\ [Next]_vars => CounterInv'
    <2> SUFFICES ASSUME TypeOK, CounterInv, [Next]_vars PROVE CounterInv'
      OBVIOUS
    <2> USE DEF lbVars, monVars, envVars, hist, CounterInv, EveryBackendHasACounter,
                EveryRequestHasACounter
    <2>0. IsQLenTable(outstandingReqs) /\ req \in [Requests -> [st : RequestStates, addr : Addrs]]
      BY DEF TypeOK
    <2>1. ASSUME NEW D, Die(D) PROVE CounterInv'
      BY <2>1 DEF Die, HoldsAddr, Range
    <2>2. ASSUME UNCHANGED <<podIPs, outstandingReqs>>,
                 \A r \in Requests : HoldsAddr(req'[r].st) =>
                     HoldsAddr(req[r].st) /\ req'[r].addr = req[r].addr
          PROVE  CounterInv'
      BY <2>2
    <2>3. CASE MonitorGet \/ Restart \/ EndpointsChange \/ ApiToggles \/ UNCHANGED vars
      BY <2>2, <2>3 DEF MonitorGet, Restart, EndpointsChange, ApiToggles, vars
    <2>4. CASE MonitorGetFails \/ MonitorPanics
      BY <2>1, <2>4 DEF MonitorGetFails, MonitorPanics
    <2>5. CASE MonitorUpdate
      <3> DEFINE added == ips \ Range(podIPs)
      <3>1. podIPs' \in Orderings(ips)
        BY <2>5 DEF MonitorUpdate, UpdatedLists
      <3>2. Range(podIPs') = ips /\ added \in SUBSET Addrs
        BY <3>1, OrderingIsSeq DEF TypeOK, Addrs
      <3>3. DOMAIN outstandingReqs' = DOMAIN outstandingReqs \cup added
        <4>1. outstandingReqs' = ZeroAll(outstandingReqs, added)
          BY <2>5 DEF MonitorUpdate, UpdatedCounters
        <4> HIDE DEF added
        <4> QED
          BY <2>0, <3>2, <4>1, ZeroAllTable
      <3>4. req' = req
        BY <2>5 DEF MonitorUpdate
      <3> QED
        BY <3>2, <3>3, <3>4
    <2>6. ASSUME NEW r \in Requests, PickRR(r) PROVE CounterInv'
      <3> DEFINE k == (idx % Len(podIPs)) + 1
      <3>1. Len(podIPs) \in Nat \ {0} /\ idx \in Nat
        BY <2>6 DEF PickRR, RRIndex, NextIdx, TypeOK
      <3>2. k \in DOMAIN podIPs
        BY <3>1 DEF TypeOK
      <3>3. podIPs[k] \in DOMAIN outstandingReqs
        BY <3>2 DEF Range
      <3>4. req' = [req EXCEPT ![r] = [st |-> "proxied", addr |-> podIPs[k]]]
            /\ UNCHANGED <<podIPs, outstandingReqs>>
        BY <2>6 DEF PickRR, RRIndex, NextIdx
      <3> HIDE DEF k
      <3> QED
        BY <2>0, <3>3, <3>4
    <2>7. ASSUME NEW r \in Requests, PickClntSideQLen(r) PROVE CounterInv'
      <3>1. PICK a \in PickSet(outstandingReqs) :
               /\ req' = [req EXCEPT ![r] = [st |-> "proxied", addr |-> a]]
               /\ outstandingReqs' = AddTo(outstandingReqs, a, 1)
        BY <2>7 DEF PickClntSideQLen, PickCounted
      <3>2. DOMAIN outstandingReqs' = DOMAIN outstandingReqs \cup {a}
        BY <3>1 DEF AddTo
      <3> QED
        BY <2>0, <2>7, <3>1, <3>2 DEF PickClntSideQLen, PickCounted
    <2>8. ASSUME NEW r \in Requests, PickFatal(r) PROVE CounterInv'
      BY <2>1, <2>8 DEF PickFatal
    <2>9. ASSUME NEW r \in Requests, NEW st \in {"got", "refused"}, ProxyReturns(r, st)
          PROVE  CounterInv'
      BY <2>0, <2>2, <2>9 DEF ProxyReturns, HoldsAddr
    <2>10. ASSUME NEW r \in Requests, NEW st \in {"answered", "refused"}, CopyBody(r, st)
           PROVE  CounterInv'
      BY <2>0, <2>2, <2>10 DEF CopyBody, HoldsAddr
    <2>11. ASSUME NEW r \in Requests, Put(r) PROVE CounterInv'
      <3>1. DOMAIN outstandingReqs' = DOMAIN outstandingReqs \cup {req[r].addr}
        BY <2>11 DEF Put, PutCounted, Returns, AddTo
      <3>2. ~HoldsAddr(req'[r].st) /\ \A s \in Requests \ {r} : req'[s] = req[s]
        BY <2>0, <2>11 DEF Put, PutCounted, Returns, HoldsAddr
      <3> QED
        BY <2>11, <3>1, <3>2 DEF Put, PutCounted, Returns
    <2> QED
      BY <2>3, <2>4, <2>5, <2>6, <2>7, <2>8, <2>9, <2>10, <2>11 DEF Next, Monitor, Handler
  <1>3. CounterInv => EveryRequestHasACounter
    BY DEF CounterInv
  <1> QED
    BY <1>1, <1>2, <1>3, TypeCorrect, PTL DEF Spec
-----------------------------------------------------------------------------
(* Among counters none of which is negative the search finds a smallest.   *)
LEMMA PickIsShortest ==
    ASSUME NEW m, IsQLenTable(m), \A x \in DOMAIN m : m[x] >= 0,
           NEW a \in PickSet(m), NEW b \in DOMAIN m
    PROVE  m[a] <= m[b]
  <1>1. \A x \in DOMAIN m : m[x] \in Int /\ m[x] # -1
    BY DEF IsQLenTable
  <1>2. a \in ShortestOf(m)
    BY <1>1 DEF PickSet, ShortestOf
  <1> QED
    BY <1>2 DEF ShortestOf

(* The balancing follows the load: as long as no counter has lost a        *)
(* request, getBackendPodAddrClntSideQLen (lines 126-135) returns an       *)
(* address with the fewest requests in flight of all it knows.             *)
THEOREM LeastLoadedPicked == Spec => PicksLeastLoaded
  <1> DEFINE Step ==
        (lbType = "clntsideqlen" /\ \A a \in Addrs : lostCount[a] = 0) =>
          \A r \in Requests :
             Arriving(r) /\ req'[r].st = "proxied" =>
                \A p \in DOMAIN outstandingReqs :
                    Outstanding(req'[r].addr) <= Outstanding(p)
  <1>1. TypeOK /\ CountersAccountForRequests /\ [Next]_vars => [Step]_vars
    <2> SUFFICES ASSUME TypeOK, CountersAccountForRequests, Next,
                        lbType = "clntsideqlen", \A a \in Addrs : lostCount[a] = 0,
                        NEW r \in Requests, Arriving(r), req'[r].st = "proxied",
                        NEW p \in DOMAIN outstandingReqs
                 PROVE  Outstanding(req'[r].addr) <= Outstanding(p)
      OBVIOUS
    <2>1. /\ IsQLenTable(outstandingReqs)
          /\ req \in [Requests -> [st : RequestStates, addr : Addrs]]
          /\ ~HoldsAddr(req[r].st)
      BY DEF TypeOK, Arriving
    <2>2. \A a \in DOMAIN outstandingReqs :
             Outstanding(a) = outstandingReqs[a] /\ outstandingReqs[a] >= 0
      <3> SUFFICES ASSUME NEW a \in DOMAIN outstandingReqs
                   PROVE  Outstanding(a) = outstandingReqs[a] /\ outstandingReqs[a] >= 0
        OBVIOUS
      <3>1. a \in Addrs /\ outstandingReqs[a] \in Int
        BY <2>1 DEF IsQLenTable
      <3>2. Outstanding(a) = outstandingReqs[a]
        BY <3>1 DEF CountersAccountForRequests, Count
      <3> QED
        BY <3>2, OutstandingIsNat
    <2>3. PickClntSideQLen(r)
      <3> USE DEF lbVars, monVars, envVars, hist
      <3>1. ASSUME NEW D, Die(D) PROVE FALSE
        BY <2>1, <3>1 DEF Die, HoldsAddr
      <3>2. ASSUME req' = req PROVE FALSE
        BY <2>1, <3>2 DEF HoldsAddr
      <3>3. ASSUME NEW s \in Requests, HoldsAddr(req[s].st),
                   \A t \in Requests \ {s} : req'[t] = req[t]
            PROVE  FALSE
        BY <2>1, <3>3 DEF HoldsAddr
      <3>4. ~Monitor /\ ~Restart /\ ~EndpointsChange /\ ~ApiToggles
        BY <3>1, <3>2 DEF Monitor, MonitorGet, MonitorGetFails, MonitorUpdate, MonitorPanics,
                          Restart, EndpointsChange, ApiToggles
      <3>5. PICK s \in Requests : Handler(s)
        BY <3>4 DEF Next
      <3>6. ~PickRR(s) /\ ~PickFatal(s)
        BY <3>1 DEF PickRR, PickFatal
      <3>7. \A st \in {"got", "refused"} : ~ProxyReturns(s, st)
        BY <2>1, <3>3 DEF ProxyReturns, HoldsAddr
      <3>8. \A st \in {"answered", "refused"} : ~CopyBody(s, st)
        BY <2>1, <3>3 DEF CopyBody, HoldsAddr
      <3>9. ~Put(s)
        BY <2>1, <3>3 DEF Put, Returns, HoldsAddr
      <3>10. PickClntSideQLen(s)
        BY <3>5, <3>6, <3>7, <3>8, <3>9 DEF Handler
      <3>11. s = r
        BY <2>1, <3>10 DEF PickClntSideQLen, HoldsAddr
      <3> QED
        BY <3>10, <3>11
    <2>4. PICK a \in PickSet(outstandingReqs) : req'[r].addr = a
      BY <2>1, <2>3 DEF PickClntSideQLen
    <2>5. a \in DOMAIN outstandingReqs
      BY <2>4 DEF PickSet, ShortestOf
    <2>6. outstandingReqs[a] <= outstandingReqs[p]
      BY <2>1, <2>2, <2>4, PickIsShortest
    <2> QED
      BY <2>2, <2>4, <2>5, <2>6
  <1>2. [][Step]_vars => PicksLeastLoaded
    BY DEF PicksLeastLoaded
  <1> HIDE DEF Step
  <1> QED
    BY <1>1, <1>2, TypeCorrect, CountersAreAccounted, PTL DEF Spec
-----------------------------------------------------------------------------
(* lb.idx++ moves lb.idx%n to the next index, and from the last to 0.      *)
LEMMA NextRemainder ==
    ASSUME NEW k \in Nat, NEW n \in Nat \ {0}
    PROVE  (k + 1) % n = IF k % n = n - 1 THEN 0 ELSE (k % n) + 1
  <1> DEFINE q == k \div n
             r == k % n
             q2 == (k + 1) \div n
             r2 == (k + 1) % n
  <1>1. q \in Int /\ q2 \in Int /\ r \in 0..(n - 1) /\ r2 \in 0..(n - 1)
    OBVIOUS
  <1>2. k = n * q + r /\ k + 1 = n * q2 + r2
    OBVIOUS
  <1> SUFFICES r2 = IF r = n - 1 THEN 0 ELSE r + 1
    OBVIOUS
  <1> HIDE DEF q, r, q2, r2
  <1>3. n * (q2 - q) = r + 1 - r2
    BY <1>1, <1>2
  <1>4. (\A d \in Int : d >= 1 => n * d >= n) /\ (\A d \in Int : d <= -1 => n * d <= -n)
    OBVIOUS
  <1>5. q2 - q = 0 \/ q2 - q = 1
    <2>1. q2 - q \in Int
      BY <1>1
    <2>2. ~(q2 - q <= -1)
      BY <1>1, <1>3, <1>4, <2>1
    <2>3. ~(q2 - q >= 2)
      <3>1. n * (q2 - q) = n + n * (q2 - q - 1)
        BY <1>1
      <3>2. q2 - q >= 2 => n * (q2 - q - 1) >= n
        BY <1>1, <1>4
      <3> QED
        BY <1>1, <1>3, <3>1, <3>2
    <2> QED
      BY <2>1, <2>2, <2>3
  <1>6. CASE q2 - q = 0
    BY <1>1, <1>3, <1>6
  <1>7. CASE q2 - q = 1
    BY <1>1, <1>3, <1>7
  <1> QED
    BY <1>5, <1>6, <1>7

(* The order in which round robin will come to the positions of the list,  *)
(* from c, the next, to the one before c.                                  *)
Before(c, i, j) == IF i >= c THEN j < c \/ i <= j ELSE j < c /\ i <= j

NextPosition == RRIndex(idx, Len(podIPs))

(* Positions that round robin will come to later have had as many turns as *)
(* earlier ones, or one more.                                              *)
EvenInv ==
    lbType = "rr" =>
        /\ \A i, j \in 1..Len(podIPs) : podIPs[i] = podIPs[j] => i = j
        /\ \A i, j \in 1..Len(podIPs) :
              Before(NextPosition, i, j) =>
                  /\ turns[podIPs[i]] <= turns[podIPs[j]]
                  /\ turns[podIPs[j]] <= turns[podIPs[i]] + 1

(* Round robin is even while the list is stable, for any number of pods    *)
(* and requests and from any index (lines 117-118).                        *)
THEOREM RoundRobinEven == Spec => []RoundRobinIsEven
  <1>1. Init => EvenInv
    BY DEF Init, InitLB, EvenInv
  <1>2. TypeOK /\ EvenInv /\ [Next]_vars => EvenInv'
    <2> SUFFICES ASSUME TypeOK, EvenInv, [Next]_vars PROVE EvenInv'
      OBVIOUS
    <2> USE DEF lbVars, monVars, envVars, hist
    <2>1. ASSUME UNCHANGED <<lbType, podIPs, idx, turns>> PROVE EvenInv'
      BY <2>1 DEF EvenInv, NextPosition, RRIndex
    <2>2. ASSUME NEW D, Die(D) PROVE EvenInv'
      BY <2>2 DEF Die, EvenInv
    <2>3. CASE MonitorUpdate
      <3>1. CASE podIPs' = podIPs
        BY <2>1, <2>3, <3>1 DEF MonitorUpdate
      <3>2. CASE podIPs' # podIPs
        <4>1. podIPs' \in Orderings(ips) /\ turns' = NoTurns
          BY <2>3, <3>2 DEF MonitorUpdate, UpdatedLists
        <4>2. podIPs' \in Seq(Pods) /\ ips \subseteq Pods
          BY <4>1, OrderingIsSeq DEF TypeOK
        <4>3. \A i, j \in DOMAIN podIPs' : podIPs'[i] = podIPs'[j] => i = j
          <5>1. podIPs' \in Injection(1..Cardinality(ips), ips)
            BY <4>1 DEF Orderings, Bijection
          <5> QED
            BY <5>1 DEF Injection, IsInjective
        <4>4. DOMAIN podIPs' = 1..Len(podIPs')
              /\ \A i \in 1..Len(podIPs') : podIPs'[i] \in Pods
          BY <4>2
        <4>5. \A i \in 1..Len(podIPs') : turns'[podIPs'[i]] = 0
          BY <4>1, <4>4 DEF NoTurns
        <4> QED
          BY <4>3, <4>4, <4>5 DEF EvenInv
      <3> QED
        BY <3>1, <3>2
    <2>4. ASSUME NEW r \in Requests, PickRR(r) PROVE EvenInv'
      <3> DEFINE n == Len(podIPs)
                 c == RRIndex(idx, n)
                 d == RRIndex(idx + 1, n)
      <3>1. /\ n \in Nat \ {0} /\ idx \in Nat /\ lbType = "rr"
            /\ podIPs \in Seq(Pods) /\ turns \in [Pods -> Nat]
        BY <2>4 DEF PickRR, TypeOK
      <3>2. c \in 1..n /\ d = IF c = n THEN 1 ELSE c + 1
        <4>1. idx % n \in 0..(n - 1)
          BY <3>1
        <4>2. (idx + 1) % n = IF idx % n = n - 1 THEN 0 ELSE (idx % n) + 1
          BY <3>1, NextRemainder
        <4> QED
          BY <3>1, <4>1, <4>2 DEF RRIndex
      <3>3. /\ UNCHANGED <<podIPs, lbType>>
            /\ turns' = [turns EXCEPT ![podIPs[c]] = @ + 1]
            /\ NextPosition = c /\ NextPosition' = d
        BY <2>4 DEF PickRR, NextIdx, NextPosition, RRIndex
      <3>4. \A i \in 1..n : podIPs[i] \in Pods
        BY <3>1
      <3>5. /\ \A i, j \in 1..n : podIPs[i] = podIPs[j] => i = j
            /\ \A i, j \in 1..n :
                  Before(c, i, j) =>
                      /\ turns[podIPs[i]] <= turns[podIPs[j]]
                      /\ turns[podIPs[j]] <= turns[podIPs[i]] + 1
        BY <3>1, <3>3 DEF EvenInv
      <3> HIDE DEF n, c, d
      <3>6. \A i \in 1..n : /\ turns[podIPs[i]] \in Nat
                             /\ turns'[podIPs[i]] =
                                   turns[podIPs[i]] + (IF i = c THEN 1 ELSE 0)
        BY <3>1, <3>2, <3>3, <3>4, <3>5
      <3>7. ASSUME NEW i \in 1..n, NEW j \in 1..n, Before(d, i, j)
            PROVE  /\ turns'[podIPs[i]] <= turns'[podIPs[j]]
                   /\ turns'[podIPs[j]] <= turns'[podIPs[i]] + 1
        <4>1. CASE i = j
          BY <3>6, <4>1
        <4>2. CASE i # j /\ j = c
          <5>1. Before(c, c, i)
            BY <3>1, <3>2 DEF Before, n
          <5> QED
            BY <3>2, <3>5, <3>6, <4>2, <5>1
        <4>3. CASE i # j /\ j # c
          <5>1. i # c /\ Before(c, i, j)
            BY <3>1, <3>2, <3>7, <4>3 DEF Before, n
          <5> QED
            BY <3>5, <3>6, <4>3, <5>1
        <4> QED
          BY <4>1, <4>2, <4>3
      <3> QED
        BY <3>3, <3>5, <3>7 DEF EvenInv, n
    <2>5. CASE MonitorGet \/ Restart \/ EndpointsChange \/ ApiToggles \/ UNCHANGED vars
      BY <2>1, <2>5 DEF MonitorGet, Restart, EndpointsChange, ApiToggles, vars
    <2>6. CASE MonitorGetFails \/ MonitorPanics
      BY <2>2, <2>6 DEF MonitorGetFails, MonitorPanics
    <2>7. ASSUME NEW r \in Requests, PickFatal(r) PROVE EvenInv'
      BY <2>2, <2>7 DEF PickFatal
    <2>8. ASSUME NEW r \in Requests, PickClntSideQLen(r) PROVE EvenInv'
      BY <2>1, <2>8 DEF PickClntSideQLen
    <2>9. ASSUME NEW r \in Requests, NEW st \in {"got", "refused"}, ProxyReturns(r, st)
          PROVE  EvenInv'
      BY <2>1, <2>9 DEF ProxyReturns
    <2>10. ASSUME NEW r \in Requests, NEW st \in {"answered", "refused"}, CopyBody(r, st)
           PROVE  EvenInv'
      BY <2>1, <2>10 DEF CopyBody
    <2>11. ASSUME NEW r \in Requests, Put(r) PROVE EvenInv'
      BY <2>1, <2>11 DEF Put
    <2> QED
      BY <2>3, <2>4, <2>5, <2>6, <2>7, <2>8, <2>9, <2>10, <2>11 DEF Next, Monitor, Handler
  <1>3. TypeOK /\ EvenInv => RoundRobinIsEven
    <2> SUFFICES ASSUME TypeOK, EvenInv, lbType = "rr",
                        NEW i \in 1..Len(podIPs), NEW j \in 1..Len(podIPs)
                 PROVE  turns[podIPs[i]] <= turns[podIPs[j]] + 1
      <3>1. DOMAIN podIPs = 1..Len(podIPs)
        BY DEF TypeOK
      <3> QED
        BY <3>1 DEF RoundRobinIsEven, Range
    <2>1. NextPosition \in Int
      <3>1. Len(podIPs) \in Nat \ {0} /\ idx \in Nat
        BY DEF TypeOK
      <3> QED
        BY <3>1 DEF NextPosition, RRIndex
    <2>2. Before(NextPosition, i, j) \/ Before(NextPosition, j, i)
      BY <2>1 DEF Before
    <2>3. turns[podIPs[i]] \in Nat /\ turns[podIPs[j]] \in Nat
      BY DEF TypeOK
    <2> QED
      BY <2>2, <2>3 DEF EvenInv
  <1> QED
    BY <1>1, <1>2, <1>3, TypeCorrect, PTL DEF Spec
-----------------------------------------------------------------------------
(* The loops of the table, one call at a time.                             *)

IsList(s) == s \in Seq(Pods) /\ \A k, l \in 1..Len(s) : s[k] = s[l] => k = l

(* The pods of the old list that are still ready are in s, in their old    *)
(* order.                                                                  *)
HasSurvivors(s) ==
    \A j \in DOMAIN oldIPs : oldIPs[j] \in readyIPs => oldIPs[j] \in Range(s)
InOldOrder(s) ==
    \A j, k \in DOMAIN oldIPs :
        j < k /\ oldIPs[j] \in readyIPs /\ oldIPs[k] \in readyIPs =>
            \E m, n \in DOMAIN s : m < n /\ s[m] = oldIPs[j] /\ s[n] = oldIPs[k]
SurvivorsFirst(s) ==
    \A m, n \in DOMAIN s : m < n /\ s[n] \in Range(oldIPs) => s[m] \in Range(oldIPs)

(* A list of the pods in S is one of its orderings, and the other way      *)
(* round.                                                                  *)
LEMMA OrderingIsList ==
    ASSUME NEW S \in SUBSET Pods, NEW s \in Orderings(S)
    PROVE  IsList(s)
  <1>1. IsFiniteSet(S) /\ Cardinality(S) \in Nat
    BY FS_Subset, FS_CardinalityType, BackendAssumption
  <1>2. s \in [1..Cardinality(S) -> S] /\ IsInjective(s)
    BY DEF Orderings, Bijection, Injection
  <1>3. s \in Seq(Pods) /\ Len(s) = Cardinality(S)
    BY <1>1, <1>2
  <1> QED
    BY <1>2, <1>3 DEF IsList, IsInjective

LEMMA ListIsOrdering ==
    ASSUME NEW s, IsList(s)
    PROVE  s \in Orderings(Range(s))
  <1> DEFINE D == 1..Len(s)
  <1>1. s \in [D -> Range(s)] /\ DOMAIN s = D
    BY DEF IsList, Range
  <1>2. s \in Injection(D, Range(s))
    BY <1>1 DEF IsList, Injection, IsInjective
  <1>3. s \in Bijection(D, Range(s))
    BY <1>1, <1>2 DEF Bijection, Surjection, Range
  <1>4. Len(s) \in Nat
    BY DEF IsList
  <1>5. IsFiniteSet(D) /\ Cardinality(D) = Len(s)
    <2>1. Len(s) \in Int /\ 1 \in Int /\ (1 > Len(s) => Len(s) = 0)
      BY <1>4
    <2>2. IsFiniteSet(D) /\ Cardinality(D) = IF 1 > Len(s) THEN 0 ELSE Len(s) - 1 + 1
      BY <2>1, FS_Interval
    <2> QED
      BY <2>1, <2>2
  <1>6. Cardinality(Range(s)) = Len(s)
    BY <1>3, <1>5, FS_Bijection DEF ExistsBijection
  <1> QED
    BY <1>3, <1>6 DEF Orderings

(* What cutting one element out of a list leaves. *)
LEMMA CutElements ==
    ASSUME NEW s \in Seq(Pods), NEW k \in 1..Len(s)
    PROVE  /\ WithoutPod(s, k) \in Seq(Pods)
           /\ Len(WithoutPod(s, k)) = Len(s) - 1
           /\ \A j \in 1..Len(s) - 1 :
                 WithoutPod(s, k)[j] = IF j < k THEN s[j] ELSE s[j + 1]
  <1> DEFINE u == SubSeq(s, 1, k - 1)
             v == SubSeq(s, k + 1, Len(s))
  <1>0. Len(s) \in Nat
    OBVIOUS
  <1>1. u \in Seq(Pods) /\ Len(u) = k - 1 /\ \A j \in 1..k - 1 : u[j] = s[j]
    BY <1>0
  <1>2. v \in Seq(Pods) /\ Len(v) = Len(s) - k
    BY <1>0
  <1>3. \A j \in 1..Len(s) - k : v[j] = s[j + k]
    BY <1>0
  <1> HIDE DEF u, v
  <1>4. u \o v \in Seq(Pods) /\ Len(u \o v) = Len(s) - 1
    <2>1. u \o v \in Seq(Pods) /\ Len(u \o v) = Len(u) + Len(v)
      BY <1>1, <1>2
    <2> QED
      BY <1>0, <1>1, <1>2, <2>1
  <1>5. ASSUME NEW j \in 1..Len(s) - 1
        PROVE  (u \o v)[j] = IF j < k THEN s[j] ELSE s[j + 1]
    <2>1. CASE j < k
      BY <1>0, <1>1, <1>2, <2>1
    <2>2. CASE ~(j < k)
      <3>1. (u \o v)[j] = v[j - (k - 1)]
        BY <1>0, <1>1, <1>2, <2>2
      <3>2. j - (k - 1) \in 1..Len(s) - k
        BY <1>0, <2>2
      <3> QED
        BY <1>0, <1>3, <2>2, <3>1, <3>2
    <2> QED
      BY <2>1, <2>2
  <1> QED
    BY <1>4, <1>5 DEF WithoutPod, u, v

(* And so the list is still one, of the same pods but that one, in the     *)
(* same order.                                                             *)
LEMMA CutList ==
    ASSUME NEW s, IsList(s), NEW k \in 1..Len(s)
    PROVE  /\ IsList(WithoutPod(s, k))
           /\ Len(WithoutPod(s, k)) = Len(s) - 1
           /\ Range(WithoutPod(s, k)) \subseteq Range(s)
           /\ \A j \in 1..k - 1 : WithoutPod(s, k)[j] = s[j]
  <1> DEFINE t == WithoutPod(s, k)
  <1>0. s \in Seq(Pods) /\ Len(s) \in Nat
    BY DEF IsList
  <1>1. /\ t \in Seq(Pods) /\ Len(t) = Len(s) - 1
        /\ \A j \in 1..Len(s) - 1 : t[j] = IF j < k THEN s[j] ELSE s[j + 1]
    BY <1>0, CutElements
  <1> HIDE DEF t
  <1>2. ASSUME NEW j \in 1..Len(s) - 1, NEW m \in 1..Len(s) - 1, t[j] = t[m]
        PROVE  j = m
    <2> DEFINE old(x) == IF x < k THEN x ELSE x + 1
    <2>1. \A x, y \in 1..Len(s) : s[x] = s[y] => x = y
      BY DEF IsList
    <2>2. \A x \in 1..Len(s) - 1 : old(x) \in 1..Len(s) /\ t[x] = s[old(x)]
      BY <1>0, <1>1
    <2>3. old(j) = old(m) => j = m
      BY <1>0, <1>1
    <2> HIDE DEF old
    <2> QED
      BY <1>2, <2>1, <2>2, <2>3
  <1>3. \A j \in 1..Len(s) - 1 : t[j] \in Range(s)
    BY <1>0, <1>1 DEF Range
  <1>4. Range(t) \subseteq Range(s)
    BY <1>0, <1>1, <1>3 DEF Range
  <1>5. \A j \in 1..k - 1 : t[j] = s[j]
    BY <1>0, <1>1
  <1>6. IsList(t)
    BY <1>0, <1>1, <1>2 DEF IsList
  <1> QED
    BY <1>0, <1>1, <1>4, <1>5, <1>6 DEF t

LEMMA CutKeepsOrder ==
    ASSUME NEW s, IsList(s), NEW k \in 1..Len(s), s[k] \notin readyIPs
    PROVE  /\ HasSurvivors(s) => HasSurvivors(WithoutPod(s, k))
           /\ InOldOrder(s) => InOldOrder(WithoutPod(s, k))
  <1> DEFINE t == WithoutPod(s, k)
             new(m) == IF m < k THEN m ELSE m - 1
  <1>0. s \in Seq(Pods) /\ Len(s) \in Nat
    BY DEF IsList
  <1>1. /\ t \in Seq(Pods) /\ Len(t) = Len(s) - 1
        /\ \A j \in 1..Len(s) - 1 : t[j] = IF j < k THEN s[j] ELSE s[j + 1]
    BY <1>0, CutElements
  <1> HIDE DEF t
  <1>2. \A m \in 1..Len(s) : m # k => new(m) \in DOMAIN t /\ t[new(m)] = s[m]
    BY <1>0, <1>1
  <1>3. \A m, n \in 1..Len(s) : m # k /\ n # k /\ m < n => new(m) < new(n)
    BY <1>0, <1>1
  <1> HIDE DEF new
  <1>4. \A x \in Range(s) : x # s[k] => x \in Range(t)
    BY <1>0, <1>1, <1>2 DEF Range
  <1>5. HasSurvivors(s) => HasSurvivors(t)
    BY <1>4 DEF HasSurvivors
  <1>6. ASSUME InOldOrder(s) PROVE InOldOrder(t)
    <2> SUFFICES ASSUME NEW j \in DOMAIN oldIPs, NEW l \in DOMAIN oldIPs,
                        j < l, oldIPs[j] \in readyIPs, oldIPs[l] \in readyIPs
                 PROVE  \E m, n \in DOMAIN t :
                            m < n /\ t[m] = oldIPs[j] /\ t[n] = oldIPs[l]
      BY DEF InOldOrder
    <2>1. PICK m, n \in DOMAIN s : m < n /\ s[m] = oldIPs[j] /\ s[n] = oldIPs[l]
      BY <1>6 DEF InOldOrder
    <2>2. m \in 1..Len(s) /\ n \in 1..Len(s) /\ m # k /\ n # k
      BY <1>0, <1>1, <2>1
    <2> QED
      BY <1>2, <1>3, <2>1, <2>2
  <1> QED
    BY <1>5, <1>6 DEF t

(* What putting a new pod at the end of a list makes. *)
LEMMA GrownList ==
    ASSUME NEW s, IsList(s), NEW x \in Pods, x \notin Range(s)
    PROVE  /\ IsList(Append(s, x)) /\ Range(Append(s, x)) = Range(s) \cup {x}
           /\ HasSurvivors(s) => HasSurvivors(Append(s, x))
           /\ InOldOrder(s) => InOldOrder(Append(s, x))
           /\ SurvivorsFirst(s) /\ x \notin Range(oldIPs) => SurvivorsFirst(Append(s, x))
  <1> DEFINE t == Append(s, x)
  <1>1. /\ s \in Seq(Pods) /\ t \in Seq(Pods) /\ Len(s) \in Nat /\ Len(t) = Len(s) + 1
        /\ t[Len(s) + 1] = x /\ \A j \in 1..Len(s) : t[j] = s[j]
        /\ DOMAIN s = 1..Len(s) /\ DOMAIN t = 1..Len(s) + 1
    BY DEF IsList
  <1> HIDE DEF t
  <1>2. \A j \in 1..Len(s) : s[j] # x
    BY <1>1 DEF Range
  <1>3. IsList(t)
    <2>1. \A m, n \in 1..Len(s) : s[m] = s[n] => m = n
      BY DEF IsList
    <2>2. \A m, n \in 1..Len(s) + 1 : t[m] = t[n] => m = n
      BY <1>1, <1>2, <2>1
    <2> QED
      BY <1>1, <2>2 DEF IsList
  <1>4. Range(t) = Range(s) \cup {x}
    BY <1>1 DEF Range
  <1>5. HasSurvivors(s) => HasSurvivors(t)
    BY <1>4 DEF HasSurvivors
  <1>6. InOldOrder(s) => InOldOrder(t)
    BY <1>1 DEF InOldOrder
  <1>7. ASSUME SurvivorsFirst(s), x \notin Range(oldIPs) PROVE SurvivorsFirst(t)
    <2> SUFFICES ASSUME NEW m \in DOMAIN t, NEW n \in DOMAIN t,
                        m < n, t[n] \in Range(oldIPs)
                 PROVE  t[m] \in Range(oldIPs)
      BY DEF SurvivorsFirst
    <2>1. n # Len(s) + 1
      BY <1>1, <1>7
    <2>2. m \in DOMAIN s /\ n \in DOMAIN s /\ t[m] = s[m] /\ t[n] = s[n]
      BY <1>1, <2>1
    <2> QED
      BY <1>7, <2>2 DEF SurvivorsFirst
  <1> QED
    BY <1>3, <1>4, <1>5, <1>6, <1>7 DEF t

CallTypes ==
    /\ IsList(oldIPs) /\ IsList(podIPs)
    /\ readyIPs \in SUBSET Pods /\ ips \in SUBSET readyIPs
    /\ IsQLenTable(oldReqs) /\ IsQLenTable(outstandingReqs)
    /\ at \in Nat \ {0}
    /\ pc \in {"remove", "add", "search", "done", "panic"}

(* While pods are removed: all before the index at are ready and struck    *)
(* from the argument, none of the others is; and either nothing has        *)
(* happened yet or the first pod of the list has been kept.                *)
Seen == {podIPs[k] : k \in 1..at - 1}

RemoveInv ==
    pc = "remove" =>
        /\ at <= Len(podIPs) + 1
        /\ Range(podIPs) \subseteq Range(oldIPs)
        /\ Seen \subseteq readyIPs /\ ips = readyIPs \ Seen
        /\ outstandingReqs = oldReqs
        /\ at = 1 => podIPs = oldIPs
        /\ at # 1 => ~UpdatePanics(oldIPs, readyIPs)

(* While pods are added: what is left of the argument is what the list     *)
(* lacks, and is new.                                                      *)
AddInv ==
    pc = "add" =>
        /\ Range(podIPs) \cup ips = readyIPs
        /\ ips \cap Range(podIPs) = {} /\ ips \cap Range(oldIPs) = {}
        /\ outstandingReqs = ZeroAll(oldReqs, (readyIPs \ Range(oldIPs)) \ ips)

OrderInv ==
    /\ pc # "panic" => HasSurvivors(podIPs) /\ InOldOrder(podIPs)
    /\ pc \in {"add", "search", "done"} => SurvivorsFirst(podIPs)
    /\ pc \in {"search", "done"} => Range(podIPs) = readyIPs

PanicInv ==
    /\ pc = "panic" => UpdatePanics(oldIPs, readyIPs)
    /\ pc \in {"add", "search", "done"} => ~UpdatePanics(oldIPs, readyIPs)

CallInv == CallTypes /\ RemoveInv /\ AddInv /\ OrderInv /\ PanicInv

LEMMA CallInit == InitCalls => CallInv
  <1> SUFFICES ASSUME InitCalls PROVE CallInv
    OBVIOUS
  <1>1. PICK S \in SUBSET Pods : oldIPs \in Orderings(S)
    BY DEF InitCalls
  <1>2. IsList(oldIPs) /\ IsList(podIPs)
    BY <1>1, OrderingIsList DEF InitCalls
  <1>3. IsQLenTable(oldReqs) /\ IsQLenTable(outstandingReqs)
    BY CountsAssumption DEF InitCalls, IsQLenTable
  <1>4. CallTypes
    BY <1>2, <1>3 DEF InitCalls, CallTypes
  <1>5. Seen = {}
    BY DEF InitCalls, Seen
  <1>6. Len(podIPs) \in Nat /\ DOMAIN oldIPs = 1..Len(oldIPs)
    BY <1>2 DEF IsList
  <1>7. RemoveInv
    BY <1>5, <1>6 DEF InitCalls, RemoveInv
  <1>8. HasSurvivors(podIPs) /\ InOldOrder(podIPs)
    BY DEF InitCalls, HasSurvivors, InOldOrder, Range
  <1>9. AddInv /\ OrderInv /\ PanicInv
    BY <1>8 DEF InitCalls, AddInv, OrderInv, PanicInv
  <1> QED
    BY <1>4, <1>7, <1>9 DEF CallInv

LEMMA RemoveStep ==
    ASSUME CallInv, RemovePod PROVE CallInv'
  <1> USE DEF RemovePod, args, search
  <1>0. IsList(podIPs) /\ at \in 1..Len(podIPs) /\ Len(podIPs) \in Nat /\ at \in Nat \ {0}
    BY DEF CallInv, CallTypes, IsList
  <1>1. podIPs[at] \notin Seen
    <2>1. \A k \in 1..at - 1 : podIPs[k] # podIPs[at]
      BY <1>0 DEF IsList
    <2> QED
      BY <2>1 DEF Seen
  <1>2. podIPs[at] \notin readyIPs
    BY <1>1 DEF CallInv, RemoveInv
  <1>3. /\ IsList(podIPs') /\ Len(podIPs') = Len(podIPs) - 1
        /\ Range(podIPs') \subseteq Range(podIPs)
        /\ \A j \in 1..at - 1 : podIPs'[j] = podIPs[j]
    BY <1>0, CutList
  <1>4. at' = at
    BY DEF SteppedBack
  <1>5. CallTypes'
    BY <1>3, <1>4 DEF CallInv, CallTypes, PcAfterRemoval, IsList
  <1>6. Seen' = Seen
    BY <1>3, <1>4 DEF Seen
  <1>7. UpdatePanics(oldIPs, readyIPs)' = UpdatePanics(oldIPs, readyIPs)
    BY DEF UpdatePanics
  <1>8. CASE at = 1
    <2>1. podIPs = oldIPs /\ oldIPs # <<>>
      BY <1>0, <1>8 DEF CallInv, RemoveInv
    <2>2. UpdatePanics(oldIPs, readyIPs)
      BY <1>2, <1>8, <2>1 DEF UpdatePanics
    <2>3. pc' = "panic"
      BY <1>8 DEF PcAfterRemoval
    <2> QED
      BY <1>5, <1>7, <2>2, <2>3 DEF CallInv, RemoveInv, AddInv, OrderInv, PanicInv
  <1>9. CASE at # 1
    <2>1. pc' = "remove"
      BY <1>9 DEF PcAfterRemoval
    <2>2. at' <= Len(podIPs') + 1
      BY <1>0, <1>3, <1>4
    <2>3. Range(podIPs') \subseteq Range(oldIPs')
      BY <1>3 DEF CallInv, RemoveInv
    <2>4. RemoveInv'
      BY <1>4, <1>6, <1>7, <1>9, <2>1, <2>2, <2>3 DEF CallInv, RemoveInv
    <2>5. HasSurvivors(podIPs) /\ InOldOrder(podIPs)
      BY DEF CallInv, OrderInv
    <2>6. HasSurvivors(WithoutPod(podIPs, at)) /\ InOldOrder(WithoutPod(podIPs, at))
      BY <1>0, <1>2, <2>5, CutKeepsOrder
    <2>7. HasSurvivors(podIPs)' /\ InOldOrder(podIPs)'
      BY <2>6 DEF HasSurvivors, InOldOrder
    <2>8. AddInv' /\ OrderInv' /\ PanicInv'
      BY <2>1, <2>7 DEF AddInv, OrderInv, PanicInv
    <2> QED
      BY <1>5, <2>4, <2>8 DEF CallInv
  <1> QED
    BY <1>8, <1>9

LEMMA KeepStep ==
    ASSUME CallInv, KeepPod PROVE CallInv'
  <1> USE DEF KeepPod, args, search
  <1>0. at \in 1..Len(podIPs) /\ Len(podIPs) \in Nat /\ podIPs[at] \in readyIPs
    BY DEF CallInv, CallTypes, IsList
  <1>1. Seen' = Seen \cup {podIPs[at]}
    BY <1>0 DEF Seen
  <1>2. CallTypes'
    BY <1>0 DEF CallInv, CallTypes, Struck, IsList
  <1>3. ~UpdatePanics(oldIPs', readyIPs')
    <2>1. CASE at = 1
      BY <1>0, <2>1 DEF CallInv, RemoveInv, UpdatePanics
    <2>2. CASE at # 1
      BY <2>2 DEF CallInv, RemoveInv, UpdatePanics
    <2> QED
      BY <2>1, <2>2
  <1>4. Seen' \subseteq readyIPs' /\ ips' = readyIPs' \ Seen'
    BY <1>0, <1>1 DEF CallInv, RemoveInv, Struck
  <1>5. at' <= Len(podIPs') + 1 /\ at' # 1
    BY <1>0
  <1>6. Range(podIPs') \subseteq Range(oldIPs') /\ outstandingReqs' = oldReqs'
    BY DEF CallInv, RemoveInv
  <1>7. RemoveInv'
    BY <1>3, <1>4, <1>5, <1>6 DEF RemoveInv
  <1>8. HasSurvivors(podIPs)' /\ InOldOrder(podIPs)'
    BY DEF CallInv, OrderInv, HasSurvivors, InOldOrder
  <1>9. AddInv' /\ OrderInv' /\ PanicInv'
    BY <1>8 DEF AddInv, OrderInv, PanicInv
  <1> QED
    BY <1>2, <1>7, <1>9 DEF CallInv

LEMMA RemovalDoneStep ==
    ASSUME CallInv, RemovalDone PROVE CallInv'
  <1> USE DEF RemovalDone, args, search
  <1>0. at = Len(podIPs) + 1 /\ Len(podIPs) \in Nat /\ DOMAIN podIPs = 1..Len(podIPs)
    BY DEF CallInv, CallTypes, IsList, RemoveInv, PastLastPod
  <1>1. Seen = Range(podIPs)
    BY <1>0 DEF Seen, Range
  <1>2. CallTypes' /\ RemoveInv'
    BY DEF CallInv, CallTypes, RemoveInv, IsList
  <1>3. Range(podIPs) \cup ips = readyIPs /\ ips \cap Range(podIPs) = {}
    BY <1>1 DEF CallInv, CallTypes, RemoveInv
  <1>4. ips \cap Range(oldIPs) = {}
    <2> SUFFICES ASSUME NEW j \in DOMAIN oldIPs, oldIPs[j] \in ips PROVE FALSE
      BY DEF Range
    <2>1. oldIPs[j] \in Range(podIPs)
      BY DEF CallInv, CallTypes, OrderInv, HasSurvivors
    <2> QED
      BY <1>3, <2>1
  <1>5. (readyIPs \ Range(oldIPs)) \ ips = {}
    <2>1. Range(podIPs) \subseteq Range(oldIPs)
      BY DEF CallInv, RemoveInv
    <2> QED
      BY <1>3, <2>1
  <1>6. ZeroAll(oldReqs, {}) = outstandingReqs
    BY DEF CallInv, CallTypes, RemoveInv, IsQLenTable, ZeroAll
  <1>7. AddInv'
    BY <1>3, <1>4, <1>5, <1>6 DEF AddInv
  <1>8. HasSurvivors(podIPs)' /\ InOldOrder(podIPs)'
    BY DEF CallInv, OrderInv, HasSurvivors, InOldOrder
  <1>9. SurvivorsFirst(podIPs)'
    BY DEF CallInv, RemoveInv, SurvivorsFirst, Range
  <1>10. ~UpdatePanics(oldIPs, readyIPs)
    <2>1. CASE at = 1
      <3>1. podIPs = oldIPs /\ Len(podIPs) = 0
        BY <1>0, <2>1 DEF CallInv, RemoveInv
      <3>2. oldIPs = <<>>
        BY <3>1 DEF CallInv, CallTypes, IsList
      <3> QED
        BY <3>2 DEF UpdatePanics
    <2>2. CASE at # 1
      BY <2>2 DEF CallInv, RemoveInv
    <2> QED
      BY <2>1, <2>2
  <1>11. OrderInv' /\ PanicInv'
    BY <1>8, <1>9, <1>10 DEF OrderInv, PanicInv, UpdatePanics
  <1> QED
    BY <1>2, <1>7, <1>11 DEF CallInv

LEMMA AddStep ==
    ASSUME CallInv, NEW ip \in ips, AddPod(ip) PROVE CallInv'
  <1> USE DEF AddPod, args, search
  <1>0. /\ IsList(podIPs) /\ ip \in Pods /\ ip \notin Range(podIPs)
        /\ ip \in readyIPs /\ ip \notin Range(oldIPs)
    BY DEF CallInv, CallTypes, AddInv
  <1>1. /\ HasSurvivors(podIPs) /\ InOldOrder(podIPs) /\ SurvivorsFirst(podIPs)
    BY DEF CallInv, OrderInv
  <1>2. IsList(podIPs') /\ Range(podIPs') = Range(podIPs) \cup {ip}
    BY <1>0, GrownList
  <1>3. /\ HasSurvivors(Append(podIPs, ip)) /\ InOldOrder(Append(podIPs, ip))
        /\ SurvivorsFirst(Append(podIPs, ip))
    BY <1>0, <1>1, GrownList
  <1>4. HasSurvivors(podIPs)' /\ InOldOrder(podIPs)' /\ SurvivorsFirst(podIPs)'
    BY <1>3 DEF HasSurvivors, InOldOrder, SurvivorsFirst
  <1>5. IsQLenTable(outstandingReqs')
    <2>1. {ip} \in SUBSET Addrs
      BY <1>0 DEF Addrs
    <2>2. IsQLenTable(outstandingReqs)
      BY DEF CallInv, CallTypes
    <2>3. IsQLenTable(ZeroAll(outstandingReqs, {ip}))
      BY <2>1, <2>2, ZeroAllTable
    <2> QED
      BY <2>3 DEF FreshCount
  <1>6. CallTypes'
    BY <1>2, <1>5 DEF CallInv, CallTypes, IsList
  <1>7. outstandingReqs' = ZeroAll(oldReqs, (readyIPs \ Range(oldIPs)) \ ips')
    <2> DEFINE A == (readyIPs \ Range(oldIPs)) \ ips
    <2>1. outstandingReqs' = ZeroAll(ZeroAll(oldReqs, A), {ip})
      BY DEF CallInv, AddInv, FreshCount
    <2>2. (readyIPs \ Range(oldIPs)) \ ips' = A \cup {ip}
      BY <1>0
    <2> HIDE DEF A
    <2>3. ZeroAll(ZeroAll(oldReqs, A), {ip}) = ZeroAll(oldReqs, A \cup {ip})
      BY DEF ZeroAll
    <2> QED
      BY <2>1, <2>2, <2>3
  <1>8. /\ Range(podIPs') \cup ips' = readyIPs'
        /\ ips' \cap Range(podIPs') = {} /\ ips' \cap Range(oldIPs') = {}
    BY <1>0, <1>2 DEF CallInv, AddInv
  <1>9. AddInv'
    BY <1>7, <1>8 DEF AddInv
  <1>10. RemoveInv' /\ OrderInv' /\ PanicInv'
    BY <1>4 DEF CallInv, RemoveInv, OrderInv, PanicInv, UpdatePanics
  <1> QED
    BY <1>6, <1>9, <1>10 DEF CallInv

(* The search leaves the list alone. *)
LEMMA SearchKeeps ==
    ASSUME CallInv, pc \in {"add", "search"}, pc' \in {"search", "done"},
           pc = "add" => ips = {}, UNCHANGED <<args, at, podIPs, ips>>,
           IsQLenTable(oldReqs'), IsQLenTable(outstandingReqs')
    PROVE  CallInv'
  <1> USE DEF args
  <1>1. CallTypes'
    BY DEF CallInv, CallTypes, IsList
  <1>2. RemoveInv' /\ AddInv'
    BY DEF RemoveInv, AddInv
  <1>3. Range(podIPs) = readyIPs
    BY DEF CallInv, AddInv, OrderInv
  <1>4. HasSurvivors(podIPs)' /\ InOldOrder(podIPs)' /\ SurvivorsFirst(podIPs)'
    BY DEF CallInv, OrderInv, HasSurvivors, InOldOrder, SurvivorsFirst
  <1>5. OrderInv'
    BY <1>3, <1>4 DEF OrderInv
  <1>6. PanicInv'
    BY DEF CallInv, PanicInv, UpdatePanics
  <1> QED
    BY <1>1, <1>2, <1>5, <1>6 DEF CallInv
-----------------------------------------------------------------------------
(* What the search knows of the counters it has visited: its minimum is    *)
(* the counter of its address; nothing visited is less, unless -1, which   *)
(* makes it forget, was among them; and it never forgets less than -1.     *)
Visited == DOMAIN oldReqs \ unseen

MinimumInv ==
    /\ unseen \subseteq DOMAIN oldReqs
    /\ Visited = {} => addr = NoAddr /\ minQLen = -1
    /\ Visited # {} => addr \in Visited /\ minQLen = oldReqs[addr]
    /\ \A a \in Visited : oldReqs[a] < -1 => minQLen <= oldReqs[a]
    /\ (\A a \in Visited : oldReqs[a] # -1) =>
          \A a \in Visited : minQLen <= oldReqs[a]

SearchInv ==
    /\ pc = "search" => MinimumInv /\ outstandingReqs = oldReqs
    /\ pc = "done" => MinimumInv /\ unseen = {}
    /\ pc \in {"remove", "add"} => addr = NoAddr /\ minQLen = -1

LEMMA VisitStep ==
    ASSUME CallInv, SearchInv, NEW a \in unseen, Visit(a) PROVE MinimumInv'
  <1> DEFINE m == oldReqs
  <1> USE DEF Visit, args
  <1>0. MinimumInv /\ outstandingReqs = m /\ m' = m
    BY DEF SearchInv
  <1>1. a \in DOMAIN m /\ \A x \in DOMAIN m : m[x] \in Int
    BY <1>0 DEF CallInv, CallTypes, IsQLenTable, MinimumInv
  <1>2. Visited' = Visited \cup {a} /\ Visited \subseteq DOMAIN m
    BY <1>0, <1>1 DEF Visited, MinimumInv
  <1>3. minQLen \in Int
    BY <1>0, <1>1, <1>2 DEF MinimumInv
  <1>4. unseen' \subseteq DOMAIN m
    BY <1>0 DEF MinimumInv
  <1> HIDE DEF m
  <1>5. CASE Better(m[a], minQLen)
    <2>1. minQLen' = m[a] /\ addr' = a
      BY <1>0, <1>5
    <2>2. m[a] < minQLen \/ minQLen = -1
      BY <1>5 DEF Better
    <2>3. \A x \in Visited' : m[x] < -1 => minQLen' <= m[x]
      BY <1>0, <1>1, <1>2, <1>3, <2>1, <2>2 DEF MinimumInv, m
    <2>4. ASSUME \A x \in Visited' : m[x] # -1, NEW x \in Visited'
          PROVE  minQLen' <= m[x]
      <3>1. CASE x = a
        BY <1>1, <2>1, <3>1
      <3>2. CASE x \in Visited
        <4>1. minQLen # -1
          BY <1>0, <1>2, <2>4, <3>2 DEF MinimumInv, m
        <4>2. minQLen <= m[x]
          BY <1>0, <1>2, <2>4, <3>2 DEF MinimumInv, m
        <4> QED
          BY <1>1, <1>2, <1>3, <2>1, <2>2, <3>2, <4>1, <4>2
      <3> QED
        BY <1>2, <3>1, <3>2
    <2> QED
      BY <1>0, <1>2, <1>4, <2>1, <2>3, <2>4 DEF MinimumInv, m
  <1>6. CASE ~Better(m[a], minQLen)
    <2>1. minQLen' = minQLen /\ addr' = addr
      BY <1>0, <1>6
    <2>2. minQLen <= m[a] /\ minQLen # -1
      BY <1>1, <1>3, <1>6 DEF Better
    <2>3. Visited # {}
      BY <1>0, <2>2 DEF MinimumInv
    <2>4. \A x \in Visited' : m[x] < -1 => minQLen' <= m[x]
      BY <1>0, <1>2, <2>1, <2>2 DEF MinimumInv, m
    <2>5. (\A x \in Visited' : m[x] # -1) => \A x \in Visited' : minQLen' <= m[x]
      BY <1>0, <1>2, <2>1, <2>2 DEF MinimumInv, m
    <2> QED
      BY <1>0, <1>2, <1>4, <2>1, <2>3, <2>4, <2>5 DEF MinimumInv, m
  <1> QED
    BY <1>5, <1>6

LEMMA CallStep ==
    CallInv /\ SearchInv /\ [NextCalls]_callVars => CallInv' /\ SearchInv'
  <1> SUFFICES ASSUME CallInv, SearchInv, [NextCalls]_callVars
               PROVE  CallInv' /\ SearchInv'
    OBVIOUS
  <1>0. IsQLenTable(oldReqs) /\ IsQLenTable(outstandingReqs)
    BY DEF CallInv, CallTypes
  <1>1. CASE RemovePod
    BY <1>1, RemoveStep DEF RemovePod, PcAfterRemoval, search, SearchInv
  <1>2. CASE KeepPod
    BY <1>2, KeepStep DEF KeepPod, search, SearchInv
  <1>3. CASE RemovalDone
    BY <1>3, RemovalDoneStep DEF RemovalDone, search, SearchInv
  <1>4. ASSUME NEW ip \in ips, AddPod(ip) PROVE CallInv' /\ SearchInv'
    BY <1>4, AddStep DEF AddPod, search, SearchInv
  <1>5. CASE StartSearch
    <2>1. CallInv'
      BY <1>0, <1>5, SearchKeeps DEF StartSearch
    <2>2. Visited' = {} /\ unseen' = DOMAIN oldReqs' /\ addr' = NoAddr /\ minQLen' = -1
      BY <1>5 DEF StartSearch, SearchInv, Visited
    <2>3. MinimumInv'
      BY <2>2 DEF MinimumInv
    <2> QED
      BY <1>5, <2>1, <2>3 DEF StartSearch, SearchInv
  <1>6. ASSUME NEW a \in unseen, Visit(a) PROVE CallInv' /\ SearchInv'
    <2>1. CallInv'
      BY <1>0, <1>6, SearchKeeps DEF Visit
    <2>2. MinimumInv'
      BY <1>6, VisitStep
    <2> QED
      BY <1>6, <2>1, <2>2 DEF Visit, SearchInv
  <1>7. CASE Return
    <2>1. MinimumInv'
      BY <1>7 DEF Return, SearchInv, MinimumInv, Visited, search
    <2>2. addr \in Addrs
      BY <1>0, <1>7 DEF Return, SearchInv, MinimumInv, Visited, IsQLenTable, Addrs
    <2>3. IsQLenTable(outstandingReqs')
      <3>1. \A d \in Int : IsQLenTable(AddTo(outstandingReqs, addr, d))
        BY <1>0, <2>2, AddToTable
      <3>2. IsQLenTable(AddTo(outstandingReqs, addr, 1))
        BY <3>1
      <3> QED
        BY <1>7, <3>2 DEF Return
    <2>4. CallInv'
      BY <1>0, <1>7, <2>3, SearchKeeps DEF Return
    <2> QED
      BY <1>7, <2>1, <2>4 DEF Return, SearchInv, search
  <1>8. CASE UNCHANGED callVars
    <2>1. CallInv'
      BY <1>8 DEF callVars, args, CallInv, CallTypes, RemoveInv, AddInv, OrderInv,
                  PanicInv, Seen, IsList, HasSurvivors, InOldOrder, SurvivorsFirst,
                  UpdatePanics
    <2>2. SearchInv'
      BY <1>8 DEF callVars, search, SearchInv, MinimumInv, Visited
    <2> QED
      BY <2>1, <2>2
  <1> QED
    BY <1>1, <1>2, <1>3, <1>4, <1>5, <1>6, <1>7, <1>8 DEF NextCalls

LEMMA CallsAlways == CallsSpec => [](CallInv /\ SearchInv)
  <1>1. InitCalls => SearchInv
    BY DEF InitCalls, SearchInv
  <1> QED
    BY <1>1, CallInit, CallStep, PTL DEF CallsSpec

(* A call of updatePodIPs that returns leaves the list IsUpdateOf          *)
(* describes: exactly the ready pods, none twice, survivors first and in   *)
(* their old order, although it edits the slice it walks (lines 73-90).    *)
THEOREM ReadyPodsReturned == CallsSpec => []ReturnsTheReadyPods
  <1>1. CallInv => ReturnsTheReadyPods
    <2> SUFFICES ASSUME CallInv, pc = "search" PROVE IsUpdateOf(podIPs, oldIPs, readyIPs)
      BY DEF ReturnsTheReadyPods
    <2>1. IsList(podIPs) /\ Range(podIPs) = readyIPs
      BY DEF CallInv, CallTypes, OrderInv
    <2>2. podIPs \in Orderings(readyIPs)
      BY <2>1, ListIsOrdering
    <2>3. InOldOrder(podIPs) /\ SurvivorsFirst(podIPs)
      BY DEF CallInv, OrderInv
    <2> QED
      BY <2>2, <2>3 DEF IsUpdateOf, InOldOrder, SurvivorsFirst
  <1> QED
    BY <1>1, CallsAlways, PTL

(* It panics when the first pod of the list is gone, and only then (lines  *)
(* 77-78).                                                                 *)
THEOREM PanicExplained == CallsSpec => []PanicsIffFirstPodGone
  <1>1. CallInv => PanicsIffFirstPodGone
    BY DEF CallInv, PanicInv, PanicsIffFirstPodGone
  <1> QED
    BY <1>1, CallsAlways, PTL

(* It starts a counter at 0 for exactly the pods it adds and leaves every  *)
(* other as it was (lines 85-90).                                          *)
THEOREM NewPodsCountedFromZero == CallsSpec => CountsOnlyNewPodsFromZero
  <1>1. CallInv /\ [NextCalls]_callVars =>
            [pc' = "search" /\ pc = "add" =>
                outstandingReqs = ZeroAll(oldReqs, readyIPs \ Range(oldIPs))]_callVars
    <2> SUFFICES ASSUME CallInv, NextCalls, pc' = "search", pc = "add"
                 PROVE  outstandingReqs = ZeroAll(oldReqs, readyIPs \ Range(oldIPs))
      OBVIOUS
    <2>1. ips = {}
      BY DEF NextCalls, RemovePod, KeepPod, RemovalDone, AddPod, StartSearch, Visit, Return
    <2>2. outstandingReqs = ZeroAll(oldReqs, (readyIPs \ Range(oldIPs)) \ ips)
      BY DEF CallInv, AddInv
    <2>3. (readyIPs \ Range(oldIPs)) \ ips = readyIPs \ Range(oldIPs)
      BY <2>1
    <2> QED
      BY <2>2, <2>3
  <1> QED
    BY <1>1, CallsAlways, PTL DEF CallsSpec, CountsOnlyNewPodsFromZero

(* The search returns an address PickSet allows, whatever the order of the *)
(* range: one with the least counter, unless that is the sentinel -1       *)
(* (lines 127-134).                                                        *)
THEOREM SearchReturnsAPick == CallsSpec => []ReturnsAPick
  <1>1. CallInv /\ SearchInv => ReturnsAPick
    <2> SUFFICES ASSUME CallInv, SearchInv, pc = "done" PROVE addr \in PickSet(oldReqs)
      BY DEF ReturnsAPick
    <2>1. MinimumInv /\ Visited = DOMAIN oldReqs
      BY DEF SearchInv, Visited
    <2>2. \A x \in DOMAIN oldReqs : oldReqs[x] \in Int
      BY DEF CallInv, CallTypes, IsQLenTable
    <2>3. CASE DOMAIN oldReqs = {}
      BY <2>1, <2>3 DEF MinimumInv, PickSet
    <2>4. CASE DOMAIN oldReqs # {}
      <3>1. addr \in DOMAIN oldReqs /\ minQLen = oldReqs[addr] /\ minQLen \in Int
        BY <2>1, <2>2, <2>4 DEF MinimumInv
      <3>2. CASE \E a \in ShortestOf(oldReqs) : oldReqs[a] = -1
        BY <2>4, <3>1, <3>2 DEF PickSet
      <3>3. CASE \A a \in ShortestOf(oldReqs) : oldReqs[a] # -1
        <4>1. ASSUME NEW x \in DOMAIN oldReqs PROVE minQLen <= oldReqs[x]
          <5>1. CASE \E b \in DOMAIN oldReqs : oldReqs[b] < -1
            <6>1. minQLen < -1
              BY <2>1, <2>2, <3>1, <5>1 DEF MinimumInv
            <6>2. oldReqs[x] < -1 => minQLen <= oldReqs[x]
              BY <2>1 DEF MinimumInv
            <6> QED
              BY <2>2, <3>1, <6>1, <6>2
          <5>2. CASE \A b \in DOMAIN oldReqs : oldReqs[b] >= -1
            <6>1. \A b \in DOMAIN oldReqs : oldReqs[b] # -1
              BY <2>2, <3>3, <5>2 DEF ShortestOf
            <6> QED
              BY <2>1, <6>1 DEF MinimumInv
          <5> QED
            BY <2>2, <5>1, <5>2
        <4>2. addr \in ShortestOf(oldReqs)
          BY <3>1, <4>1 DEF ShortestOf
        <4> QED
          BY <2>4, <3>3, <4>2 DEF PickSet
      <3> QED
        BY <3>2, <3>3
    <2> QED
      BY <2>3, <2>4
  <1> QED
    BY <1>1, CallsAlways, PTL

-----------------------------------------------------------------------------
(* Induction and recursion                                                 *)

(* Every set of numbers that is not empty has a least. *)
LEMMA LeastNumber ==
    ASSUME NEW S, S \subseteq Nat, S # {}
    PROVE  \E m \in S : \A n \in S : m <= n
  <1> DEFINE R == OpToRel(<, Nat)
  <1>1. IsWellFoundedOn(R, Nat)
    BY NatLessThanWellFounded
  <1>2. \A m, n \in Nat : <<m, n>> \in R <=> m < n
    BY DEF OpToRel
  <1> HIDE DEF R
  <1>3. PICK m \in S : \A n \in S : <<n, m>> \notin R
    BY <1>1, WFMin
  <1>4. ASSUME NEW n \in S PROVE m <= n
    <2>1. m \in Nat /\ n \in Nat /\ ~(n < m)
      BY <1>2, <1>3
    <2> QED
      BY <2>1
  <1> QED
    BY <1>4

(* A set that has 0 and, with each number, the next has all of them.       *)
LEMMA Induction ==
    ASSUME NEW S, 0 \in S, \A n \in Nat : n \in S => n + 1 \in S
    PROVE  Nat \subseteq S
  <1>1. SUFFICES ASSUME Nat \ S # {} PROVE FALSE
    OBVIOUS
  <1>2. PICK m \in Nat \ S : \A n \in Nat \ S : m <= n
    BY <1>1, LeastNumber
  <1>3. m # 0 /\ m - 1 \in Nat /\ m - 1 \notin Nat \ S
    BY <1>2
  <1>4. (m - 1) + 1 = m
    BY <1>2
  <1> QED
    BY <1>2, <1>3, <1>4

(* There is a function defined by recursion from one number to the next.   *)
Follows(f, n, first, step) ==
    \A k \in 0..n : f[k] = IF k = 0 THEN first ELSE step[k][f[k - 1]]

LEMMA RecursiveFcn ==
    ASSUME NEW T, NEW first \in T, NEW step \in [Nat -> [T -> T]], NEW n \in Nat
    PROVE  \E f \in [0..n -> T] : Follows(f, n, first, step)
  <1> DEFINE S == {m \in Nat : \E f \in [0..m -> T] : Follows(f, m, first, step)}
  <1>1. 0 \in S
    <2> DEFINE f == [k \in 0..0 |-> first]
    <2>1. f \in [0..0 -> T] /\ Follows(f, 0, first, step)
      BY DEF Follows
    <2> HIDE DEF f
    <2> QED
      BY <2>1
  <1>2. ASSUME NEW m \in Nat, m \in S PROVE m + 1 \in S
    <2>1. PICK f \in [0..m -> T] : Follows(f, m, first, step)
      BY <1>2
    <2> DEFINE g == [k \in 0..m + 1 |-> IF k = m + 1 THEN step[m + 1][f[m]] ELSE f[k]]
    <2>2. g \in [0..m + 1 -> T]
      OBVIOUS
    <2>3. Follows(g, m + 1, first, step)
      <3>1. SUFFICES ASSUME NEW k \in 0..m + 1
                     PROVE g[k] = IF k = 0 THEN first ELSE step[k][g[k - 1]]
        BY DEF Follows
      <3>2. CASE k = m + 1
        BY <3>2
      <3>3. CASE k \in 0..m
        BY <2>1, <3>3 DEF Follows
      <3> QED
        BY <3>2, <3>3
    <2> HIDE DEF g
    <2> QED
      BY <2>2, <2>3
  <1> HIDE DEF S
  <1>3. n \in S
    BY <1>1, <1>2, Induction
  <1> QED
    BY <1>3 DEF S

-----------------------------------------------------------------------------
(* The search along one order of the keys                                  *)

LEMMA OrderingIs ==
    ASSUME NEW m, IsQLenTable(m), NEW o \in Orderings(DOMAIN m)
    PROVE  /\ Len(o) \in Nat /\ o \in [1..Len(o) -> DOMAIN m]
           /\ Len(o) = Cardinality(DOMAIN m)
           /\ \A j, k \in 1..Len(o) : o[j] = o[k] => j = k
           /\ \A a \in DOMAIN m : \E k \in 1..Len(o) : o[k] = a
  <1>1. IsFiniteSet(Addrs)
    BY BackendAssumption, FS_AddElement DEF Addrs
  <1>2. IsFiniteSet(DOMAIN m)
    BY <1>1, FS_Subset DEF IsQLenTable
  <1>3. Cardinality(DOMAIN m) \in Nat
    BY <1>2, FS_CardinalityType
  <1>4. /\ o \in [1..Cardinality(DOMAIN m) -> DOMAIN m] /\ IsInjective(o)
        /\ \A a \in DOMAIN m : \E k \in 1..Cardinality(DOMAIN m) : o[k] = a
    BY DEF Orderings, Bijection, Injection, Surjection
  <1>5. Len(o) = Cardinality(DOMAIN m)
    BY <1>3, <1>4
  <1> QED
    BY <1>3, <1>4, <1>5 DEF IsInjective

(* addr and minQLen after each key. *)
Scans(f, m, o) ==
    f = [k \in 0..Len(o) |->
            IF k = 0 THEN <<NoAddr, -1>>
            ELSE IF Better(m[o[k]], f[k - 1][2]) THEN <<o[k], m[o[k]]>> ELSE f[k - 1]]
Scan(m, o) == CHOOSE f : Scans(f, m, o)

LEMMA ScanExists ==
    ASSUME NEW m, IsQLenTable(m), NEW o \in Orderings(DOMAIN m)
    PROVE  Scans(Scan(m, o), m, o)
  <1> DEFINE N == Len(o)
             T == Addrs \X Int
             none == <<NoAddr, -1>>
             At(k) == <<o[k], m[o[k]]>>
             step == [k \in Nat |-> IF k \in 1..N
                        THEN [q \in T |-> IF Better(m[o[k]], q[2]) THEN At(k) ELSE q]
                        ELSE [q \in T |-> q]]
  <1>1. N \in Nat /\ \A k \in 1..N : o[k] \in Addrs /\ m[o[k]] \in Int
    BY OrderingIs DEF IsQLenTable
  <1>2. none \in T
    BY DEF Addrs
  <1>3. \A k \in 1..N : At(k) \in T
    BY <1>1
  <1> HIDE DEF none, At, T
  <1>4. step \in [Nat -> [T -> T]]
    BY <1>3
  <1>5. \A k \in 1..N, q \in T :
           step[k][q] = IF Better(m[o[k]], q[2]) THEN At(k) ELSE q
    BY <1>1
  <1> HIDE DEF step
  <1>6. PICK f \in [0..N -> T] : Follows(f, N, none, step)
    BY <1>1, <1>2, <1>4, RecursiveFcn
  <1>7. ASSUME NEW k \in 0..N
        PROVE  f[k] = IF k = 0 THEN <<NoAddr, -1>>
                      ELSE IF Better(m[o[k]], f[k - 1][2]) THEN <<o[k], m[o[k]]>>
                           ELSE f[k - 1]
    <2>1. CASE k = 0
      BY <1>6, <2>1 DEF Follows, none
    <2>2. CASE k # 0
      <3>1. k \in 1..N /\ k - 1 \in 0..N
        BY <1>1, <2>2
      <3>2. f[k - 1] \in T
        BY <1>6, <3>1
      <3>3. f[k] = step[k][f[k - 1]]
        BY <1>6, <2>2 DEF Follows
      <3>4. f[k] = IF Better(m[o[k]], f[k - 1][2]) THEN At(k) ELSE f[k - 1]
        BY <1>5, <3>1, <3>2, <3>3
      <3> QED
        BY <2>2, <3>4 DEF At
    <2> QED
      BY <2>1, <2>2
  <1>8. f = [k \in 0..N |-> f[k]]
    BY <1>6
  <1>9. Scans(f, m, o)
    BY <1>7, <1>8 DEF Scans
  <1> QED
    BY <1>9 DEF Scan

LEMMA ScanIs ==
    ASSUME NEW m, IsQLenTable(m), NEW o \in Orderings(DOMAIN m)
    PROVE  /\ ScanAlong(m, o) = Scan(m, o)[Len(o)][1]
           /\ Scan(m, o)[0][1] = NoAddr /\ Scan(m, o)[0][2] = -1
           /\ \A k \in 1..Len(o) :
                 IF Better(m[o[k]], Scan(m, o)[k - 1][2])
                 THEN Scan(m, o)[k][1] = o[k] /\ Scan(m, o)[k][2] = m[o[k]]
                 ELSE /\ Scan(m, o)[k][1] = Scan(m, o)[k - 1][1]
                      /\ Scan(m, o)[k][2] = Scan(m, o)[k - 1][2]
  <1> DEFINE f == Scan(m, o)
  <1>1. ScanAlong(m, o) = f[Len(o)][1]
    BY DEF ScanAlong, Scan, Scans
  <1>2. Scans(f, m, o)
    BY ScanExists
  <1> HIDE DEF f
  <1>3. Len(o) \in Nat
    BY OrderingIs
  <1>4. \A k \in 0..Len(o) :
           f[k] = IF k = 0 THEN <<NoAddr, -1>>
                  ELSE IF Better(m[o[k]], f[k - 1][2]) THEN <<o[k], m[o[k]]>> ELSE f[k - 1]
    BY <1>2 DEF Scans
  <1>5. 0 \in 0..Len(o) /\ \A k \in 1..Len(o) : k \in 0..Len(o) /\ k # 0
    BY <1>3
  <1>6. f[0][1] = NoAddr /\ f[0][2] = -1
    <2>1. f[0] = <<NoAddr, -1>>
      BY <1>4, <1>5
    <2> QED
      BY <2>1
  <1>7. ASSUME NEW k \in 1..Len(o)
        PROVE  IF Better(m[o[k]], f[k - 1][2])
               THEN f[k][1] = o[k] /\ f[k][2] = m[o[k]]
               ELSE f[k][1] = f[k - 1][1] /\ f[k][2] = f[k - 1][2]
    <2>1. f[k] = IF Better(m[o[k]], f[k - 1][2]) THEN <<o[k], m[o[k]]>> ELSE f[k - 1]
      BY <1>4, <1>5
    <2>2. <<o[k], m[o[k]]>>[1] = o[k] /\ <<o[k], m[o[k]]>>[2] = m[o[k]]
      OBVIOUS
    <2> QED
      BY <2>1, <2>2
  <1> QED
    BY <1>1, <1>6, <1>7 DEF f

(* What the search knows after k keys, as MinimumInv says it of the loop.  *)
Knows(m, o, k) ==
    LET found == Scan(m, o)[k][1]
        least == Scan(m, o)[k][2]
    IN  /\ k = 0 => found = NoAddr /\ least = -1
        /\ k > 0 => \E j \in 1..k : found = o[j] /\ least = m[o[j]]
        /\ \A j \in 1..k : m[o[j]] < -1 => least <= m[o[j]]
        /\ (\A j \in 1..k : m[o[j]] # -1) => \A j \in 1..k : least <= m[o[j]]

LEMMA ScanKnows ==
    ASSUME NEW m, IsQLenTable(m), NEW o \in Orderings(DOMAIN m)
    PROVE  \A k \in 0..Len(o) : Knows(m, o, k)
  <1> DEFINE N == Len(o)
             f == Scan(m, o)
             A(k) == f[k][1]
             L(k) == f[k][2]
             V(k) == m[o[k]]
             K(k) == /\ k = 0 => A(k) = NoAddr /\ L(k) = -1
                     /\ k > 0 => \E j \in 1..k : A(k) = o[j] /\ L(k) = V(j)
                     /\ \A j \in 1..k : V(j) < -1 => L(k) <= V(j)
                     /\ (\A j \in 1..k : V(j) # -1) => \A j \in 1..k : L(k) <= V(j)
             P(k) == k <= N => K(k)
  <1>1. N \in Nat /\ \A k \in 1..N : V(k) \in Int
    BY OrderingIs DEF IsQLenTable
  <1>2. A(0) = NoAddr /\ L(0) = -1
    BY ScanIs
  <1>3. \A k \in 1..N : IF Better(V(k), L(k - 1)) THEN A(k) = o[k] /\ L(k) = V(k)
                         ELSE A(k) = A(k - 1) /\ L(k) = L(k - 1)
    BY ScanIs
  <1>0. \A k : Knows(m, o, k) <=> K(k)
    BY DEF Knows
  <1> HIDE DEF A, L, V, f
  <1>4. P(0)
    BY <1>2
  <1>5. ASSUME NEW k \in Nat, P(k) PROVE P(k + 1)
    <2>1. SUFFICES ASSUME k + 1 <= N PROVE K(k + 1)
      OBVIOUS
    <2>2. k + 1 \in 1..N /\ (k + 1) - 1 = k /\ k <= N /\ k + 1 > 0 /\ k + 1 # 0
      BY <1>1, <2>1
    <2>3. K(k)
      BY <1>5, <2>2
    <2>4. IF Better(V(k + 1), L(k)) THEN A(k + 1) = o[k + 1] /\ L(k + 1) = V(k + 1)
          ELSE A(k + 1) = A(k) /\ L(k + 1) = L(k)
      BY <1>3, <2>2
    <2>5. V(k + 1) \in Int /\ \A j \in 1..k : V(j) \in Int
      BY <1>1, <2>2
    <2>6. \A j \in 1..k + 1 : j \in 1..k \/ j = k + 1
      OBVIOUS
    <2>7. k + 1 \in 1..k + 1 /\ \A j \in 1..k : j \in 1..k + 1
      OBVIOUS
    <2>8. L(k) \in Int
      <3>1. CASE k = 0
        BY <2>3, <3>1
      <3>2. CASE k > 0
        BY <2>3, <2>5, <3>2
      <3> QED
        BY <3>1, <3>2
    <2>9. CASE Better(V(k + 1), L(k))
      <3>1. A(k + 1) = o[k + 1] /\ L(k + 1) = V(k + 1)
        BY <2>4, <2>9
      <3>2. V(k + 1) < L(k) \/ L(k) = -1
        BY <2>9 DEF Better
      <3>3. \A j \in 1..k + 1 : V(j) < -1 => L(k + 1) <= V(j)
        BY <2>3, <2>5, <2>6, <2>8, <3>1, <3>2
      <3>4. ASSUME \A j \in 1..k + 1 : V(j) # -1, NEW j \in 1..k + 1
            PROVE  L(k + 1) <= V(j)
        <4>1. CASE j = k + 1
          BY <2>5, <3>1, <4>1
        <4>2. CASE j \in 1..k
          <5>1. L(k) # -1
            <6>1. k > 0
              BY <4>2
            <6> QED
              BY <2>3, <2>7, <3>4, <6>1
          <5>2. L(k) <= V(j)
            BY <2>3, <2>7, <3>4, <4>2
          <5> QED
            BY <2>5, <2>8, <3>1, <3>2, <4>2, <5>1, <5>2
        <4> QED
          BY <2>6, <4>1, <4>2
      <3> QED
        BY <2>2, <2>7, <3>1, <3>3, <3>4
    <2>10. CASE ~Better(V(k + 1), L(k))
      <3>1. A(k + 1) = A(k) /\ L(k + 1) = L(k)
        BY <2>4, <2>10
      <3>2. L(k) <= V(k + 1) /\ L(k) # -1
        BY <2>5, <2>8, <2>10 DEF Better
      <3>3. k > 0
        BY <2>3, <3>2
      <3>4. \E j \in 1..k + 1 : A(k + 1) = o[j] /\ L(k + 1) = V(j)
        BY <2>3, <2>7, <3>1, <3>3
      <3>5. \A j \in 1..k + 1 : V(j) < -1 => L(k + 1) <= V(j)
        BY <2>3, <2>6, <3>1, <3>2
      <3>6. ASSUME \A j \in 1..k + 1 : V(j) # -1, NEW j \in 1..k + 1
            PROVE  L(k + 1) <= V(j)
        BY <2>3, <2>6, <2>7, <3>1, <3>2, <3>6
      <3> QED
        BY <2>2, <3>4, <3>5, <3>6
    <2> QED
      BY <2>9, <2>10
  <1> HIDE DEF P, K
  <1>6. Nat \subseteq {k \in Nat : P(k)}
    <2> DEFINE S == {k \in Nat : P(k)}
    <2>1. 0 \in S /\ \A k \in Nat : k \in S => k + 1 \in S
      BY <1>4, <1>5
    <2> HIDE DEF S
    <2>2. Nat \subseteq S
      BY <2>1, Induction
    <2> QED
      BY <2>2 DEF S
  <1>7. ASSUME NEW k \in 0..N PROVE Knows(m, o, k)
    <2>1. k \in Nat /\ k <= N
      BY <1>1
    <2> QED
      BY <1>0, <1>6, <2>1 DEF P
  <1> QED
    BY <1>7

(* No order leads to an address that PickSet does not allow. *)
LEMMA ScanPicks ==
    ASSUME NEW m, IsQLenTable(m), NEW o \in Orderings(DOMAIN m)
    PROVE  ScanAlong(m, o) \in PickSet(m)
  <1> DEFINE N == Len(o)
             a == Scan(m, o)[N][1]
             least == Scan(m, o)[N][2]
  <1>1. /\ N \in Nat /\ o \in [1..N -> DOMAIN m]
        /\ \A x \in DOMAIN m : \E k \in 1..N : o[k] = x
        /\ \A x \in DOMAIN m : m[x] \in Int
    BY OrderingIs DEF IsQLenTable
  <1>2. ScanAlong(m, o) = a
    BY ScanIs
  <1>3. Knows(m, o, N)
    <2>1. N \in 0..N
      BY <1>1
    <2> QED
      BY <2>1, ScanKnows
  <1>4. /\ N = 0 => a = NoAddr
        /\ N > 0 => \E j \in 1..N : a = o[j] /\ least = m[o[j]]
        /\ \A j \in 1..N : m[o[j]] < -1 => least <= m[o[j]]
        /\ (\A j \in 1..N : m[o[j]] # -1) => \A j \in 1..N : least <= m[o[j]]
    BY <1>3 DEF Knows
  <1> HIDE DEF a, least, N
  <1>5. CASE DOMAIN m = {}
    <2>1. N = 0
      <3>1. \A k \in 1..N : FALSE
        BY <1>1, <1>5
      <3> QED
        BY <1>1, <3>1
    <2> QED
      BY <1>2, <1>4, <1>5, <2>1 DEF PickSet
  <1>6. CASE DOMAIN m # {}
    <2>1. N > 0
      BY <1>1, <1>6
    <2>2. a \in DOMAIN m /\ least = m[a] /\ least \in Int
      BY <1>1, <1>4, <2>1
    <2>3. \A x \in DOMAIN m : m[x] < -1 => least <= m[x]
      BY <1>1, <1>4
    <2>4. (\A x \in DOMAIN m : m[x] # -1) => \A x \in DOMAIN m : least <= m[x]
      BY <1>1, <1>4
    <2>5. CASE \E x \in ShortestOf(m) : m[x] = -1
      BY <1>2, <1>6, <2>2, <2>5 DEF PickSet
    <2>6. CASE \A x \in ShortestOf(m) : m[x] # -1
      <3>1. ASSUME NEW x \in DOMAIN m PROVE least <= m[x]
        <4>1. CASE \E b \in DOMAIN m : m[b] < -1
          <5>1. least < -1
            BY <1>1, <2>2, <2>3, <4>1
          <5> QED
            BY <1>1, <2>2, <2>3, <5>1
        <4>2. CASE \A b \in DOMAIN m : m[b] >= -1
          <5>1. \A b \in DOMAIN m : m[b] # -1
            BY <1>1, <2>6, <4>2 DEF ShortestOf
          <5> QED
            BY <2>4, <5>1
        <4> QED
          BY <1>1, <4>1, <4>2
      <3>2. a \in ShortestOf(m)
        BY <2>2, <3>1 DEF ShortestOf
      <3> QED
        BY <1>2, <1>6, <2>6, <3>2 DEF PickSet
    <2> QED
      BY <2>5, <2>6
  <1> QED
    BY <1>5, <1>6

(* A table has an order of its keys, and two keys of an order can change   *)
(* places.                                                                 *)
LEMMA OrderingExists ==
    ASSUME NEW m, IsQLenTable(m)
    PROVE  \E o : o \in Orderings(DOMAIN m)
  <1>1. IsFiniteSet(Addrs)
    BY BackendAssumption, FS_AddElement DEF Addrs
  <1>2. IsFiniteSet(DOMAIN m)
    BY <1>1, FS_Subset DEF IsQLenTable
  <1>3. ExistsBijection(1..Cardinality(DOMAIN m), DOMAIN m)
    BY <1>2, FS_CardinalityType
  <1> QED
    BY <1>3 DEF ExistsBijection, Orderings

LEMMA OrderingSwapped ==
    ASSUME NEW m, IsQLenTable(m), NEW o \in Orderings(DOMAIN m),
           NEW i \in 1..Len(o), NEW j \in 1..Len(o)
    PROVE  \E w \in Orderings(DOMAIN m) :
              /\ Len(w) = Len(o) /\ w[i] = o[j] /\ w[j] = o[i]
              /\ \A k \in 1..Len(o) : k # i /\ k # j => w[k] = o[k]
  <1> DEFINE D == DOMAIN m
             N == Len(o)
             w == [k \in 1..N |-> IF k = i THEN o[j] ELSE IF k = j THEN o[i] ELSE o[k]]
  <1>1. /\ N \in Nat /\ o \in [1..N -> D] /\ N = Cardinality(D)
        /\ \A k, l \in 1..N : o[k] = o[l] => k = l
        /\ \A a \in D : \E k \in 1..N : o[k] = a
    BY OrderingIs
  <1> HIDE DEF D, N
  <1>2. w \in [1..N -> D]
    BY <1>1
  <1>3. /\ w[i] = o[j] /\ w[j] = o[i]
        /\ \A k \in 1..N : k # i /\ k # j => w[k] = o[k]
    BY DEF N
  <1>4. i \in 1..N /\ j \in 1..N
    BY DEF N
  <1> HIDE DEF w
  <1>5. \A k, l \in 1..N : w[k] = w[l] => k = l
    BY <1>1, <1>3, <1>4
  <1>6. \A a \in D : \E k \in 1..N : w[k] = a
    BY <1>1, <1>3, <1>4
  <1>7. w \in Bijection(1..N, D)
    BY <1>2, <1>5, <1>6 DEF Bijection, Injection, Surjection, IsInjective
  <1>8. w \in Orderings(D)
    BY <1>1, <1>7 DEF Orderings
  <1>9. Len(w) = N
    BY <1>1, <1>2
  <1> QED
    BY <1>3, <1>8, <1>9 DEF N, D

(* The shortest queue is returned when it is looked at first. *)
LEMMA FirstIsPicked ==
    ASSUME NEW m, IsQLenTable(m), NEW a \in ShortestOf(m), m[a] # -1
    PROVE  \E o \in Orderings(DOMAIN m) : ScanAlong(m, o) = a
  <1>1. a \in DOMAIN m /\ \A x \in DOMAIN m : m[a] <= m[x] /\ m[x] \in Int
    BY DEF ShortestOf, IsQLenTable
  <1>2. PICK q \in Orderings(DOMAIN m) : TRUE
    BY OrderingExists
  <1>3. PICK i \in 1..Len(q) : q[i] = a
    BY <1>1, OrderingIs
  <1>4. Len(q) \in Nat /\ 1 \in 1..Len(q)
    <2>1. Len(q) \in Nat
      BY OrderingIs
    <2> QED
      BY <1>3, <2>1
  <1>5. PICK o \in Orderings(DOMAIN m) : Len(o) = Len(q) /\ o[1] = q[i]
    BY <1>4, OrderingSwapped
  <1> DEFINE N == Len(o)
             A(k) == Scan(m, o)[k][1]
             L(k) == Scan(m, o)[k][2]
             P(k) == k + 1 <= N => A(k + 1) = a /\ L(k + 1) = m[a]
  <1>6. /\ N \in Nat /\ 1 \in 1..N /\ o[1] = a
        /\ \A k \in 1..N : m[o[k]] \in Int /\ m[a] <= m[o[k]]
    BY <1>1, <1>3, <1>4, <1>5, OrderingIs
  <1>7. /\ L(0) = -1
        /\ \A k \in 1..N : IF Better(m[o[k]], L(k - 1)) THEN A(k) = o[k] /\ L(k) = m[o[k]]
                          ELSE A(k) = A(k - 1) /\ L(k) = L(k - 1)
    BY ScanIs
  <1>8. ScanAlong(m, o) = A(N)
    BY ScanIs
  <1> HIDE DEF A, L, N
  <1>9. P(0)
    <2>1. Better(m[o[1]], L(0))
      BY <1>7 DEF Better
    <2>2. A(1) = a /\ L(1) = m[a]
      <3>1. 1 - 1 = 0
        OBVIOUS
      <3> QED
        BY <1>6, <1>7, <2>1, <3>1
    <2>3. 0 + 1 = 1
      OBVIOUS
    <2> QED
      BY <2>2, <2>3
  <1>10. ASSUME NEW k \in Nat, P(k) PROVE P(k + 1)
    <2> DEFINE n == (k + 1) + 1
    <2>1. SUFFICES ASSUME n <= N PROVE A(n) = a /\ L(n) = m[a]
      OBVIOUS
    <2>2. n \in 1..N /\ n - 1 = k + 1 /\ k + 1 <= N
      BY <1>6, <2>1
    <2>3. A(k + 1) = a /\ L(k + 1) = m[a]
      BY <1>10, <2>2
    <2>4. ~Better(m[o[n]], L(n - 1))
      <3>1. m[o[n]] \in Int /\ m[a] <= m[o[n]] /\ m[a] \in Int /\ L(n - 1) = m[a]
        BY <1>1, <1>6, <2>2, <2>3
      <3> QED
        BY <3>1 DEF Better
    <2> HIDE DEF n
    <2> QED
      BY <1>7, <2>2, <2>3, <2>4
  <1> HIDE DEF P
  <1>11. Nat \subseteq {k \in Nat : P(k)}
    <2> DEFINE S == {k \in Nat : P(k)}
    <2>1. 0 \in S /\ \A k \in Nat : k \in S => k + 1 \in S
      BY <1>9, <1>10
    <2> HIDE DEF S
    <2>2. Nat \subseteq S
      BY <2>1, Induction
    <2> QED
      BY <2>2 DEF S
  <1>12. N - 1 \in Nat /\ (N - 1) + 1 = N /\ N <= N
    BY <1>6
  <1>13. A(N) = a
    BY <1>11, <1>12 DEF P
  <1> QED
    BY <1>8, <1>13

(* After a key with the sentinel -1 the next one is taken, whatever it is. *)
LEMMA AnyIsPicked ==
    ASSUME NEW m, IsQLenTable(m), NEW z \in ShortestOf(m), m[z] = -1, NEW a \in DOMAIN m
    PROVE  \E o \in Orderings(DOMAIN m) : ScanAlong(m, o) = a
  <1>1. z \in DOMAIN m /\ \A x \in DOMAIN m : -1 <= m[x] /\ m[x] \in Int
    BY DEF ShortestOf, IsQLenTable
  <1>2. ASSUME NEW o \in Orderings(DOMAIN m), NEW k \in 1..Len(o), m[o[k]] = -1
        PROVE  /\ Scan(m, o)[k][1] = o[k] /\ Scan(m, o)[k][2] = -1
    <2> DEFINE L == Scan(m, o)[k - 1][2]
    <2>1. k - 1 \in 0..Len(o) /\ (k - 1 = 0 \/ k - 1 > 0)
          /\ \A j \in 1..k - 1 : o[j] \in DOMAIN m
      BY OrderingIs
    <2>2. Knows(m, o, k - 1)
      BY <2>1, ScanKnows
    <2>3. /\ k - 1 = 0 => L = -1
          /\ k - 1 > 0 => \E j \in 1..k - 1 : L = m[o[j]]
      BY <2>2 DEF Knows
    <2>4. IF Better(m[o[k]], L)
          THEN Scan(m, o)[k][1] = o[k] /\ Scan(m, o)[k][2] = m[o[k]]
          ELSE TRUE
      BY ScanIs
    <2> HIDE DEF L
    <2>5. L \in Int /\ -1 <= L
      BY <1>1, <2>1, <2>3
    <2>6. Better(m[o[k]], L)
      BY <1>2, <2>5 DEF Better
    <2> QED
      BY <1>2, <2>4, <2>6
  <1>3. PICK q \in Orderings(DOMAIN m) : TRUE
    BY OrderingExists
  <1>4. PICK i \in 1..Len(q) : q[i] = a
    BY OrderingIs
  <1>5. Len(q) \in Nat /\ Len(q) \in 1..Len(q)
    <2>1. Len(q) \in Nat
      BY OrderingIs
    <2> QED
      BY <1>4, <2>1
  <1>6. PICK r \in Orderings(DOMAIN m) : Len(r) = Len(q) /\ r[Len(q)] = q[i]
    BY <1>5, OrderingSwapped
  <1> DEFINE N == Len(q)
  <1>7. N \in Nat /\ N \in 1..N /\ Len(r) = N /\ r[N] = a
    BY <1>4, <1>5, <1>6
  <1> HIDE DEF N
  <1>8. CASE m[a] = -1
    <2>1. Scan(m, r)[N][1] = a
      BY <1>2, <1>7, <1>8
    <2> QED
      BY <1>7, <2>1, ScanIs
  <1>9. CASE m[a] # -1
    <2>1. PICK j \in 1..N : r[j] = z
      BY <1>1, <1>7, OrderingIs
    <2>2. j # N
      BY <1>7, <1>9, <2>1
    <2>3. N - 1 \in 1..N /\ N # N - 1
      BY <1>7, <2>1, <2>2
    <2>4. PICK o \in Orderings(DOMAIN m) :
             /\ Len(o) = N /\ o[N - 1] = r[j]
             /\ \A k \in 1..N : k # N - 1 /\ k # j => o[k] = r[k]
      <3>1. N - 1 \in 1..Len(r) /\ j \in 1..Len(r)
        BY <1>7, <2>3
      <3>2. \A k, l \in 1..Len(r) :
               \E o \in Orderings(DOMAIN m) :
                  /\ Len(o) = Len(r) /\ o[k] = r[l]
                  /\ \A n \in 1..Len(r) : n # k /\ n # l => o[n] = r[n]
        BY OrderingSwapped
      <3> QED
        BY <1>7, <3>1, <3>2
    <2>5. o[N - 1] = z /\ o[N] = a
      BY <1>7, <2>1, <2>2, <2>3, <2>4
    <2>6. Scan(m, o)[N - 1][2] = -1
      BY <1>2, <2>3, <2>4, <2>5
    <2>7. Better(m[o[N]], Scan(m, o)[N - 1][2])
      BY <2>6 DEF Better
    <2>8. Scan(m, o)[N][1] = a
      BY <1>7, <2>4, <2>5, <2>7, ScanIs
    <2>9. ScanAlong(m, o) = a
      BY <2>4, <2>8, ScanIs
    <2> QED
      BY <2>9
  <1> QED
    BY <1>8, <1>9

(* PickSet is exactly what the search can return.                          *)
LEMMA PickSetIs ==
    ASSUME NEW m, IsQLenTable(m)
    PROVE  PickSet(m) = {ScanAlong(m, o) : o \in Orderings(DOMAIN m)}
  <1>1. \A o \in Orderings(DOMAIN m) : ScanAlong(m, o) \in PickSet(m)
    BY ScanPicks
  <1>2. ASSUME NEW a \in PickSet(m)
        PROVE  \E o \in Orderings(DOMAIN m) : ScanAlong(m, o) = a
    <2>1. CASE DOMAIN m = {}
      <3>1. PICK o \in Orderings(DOMAIN m) : TRUE
        BY OrderingExists
      <3>2. ScanAlong(m, o) \in PickSet(m)
        BY ScanPicks
      <3> QED
        BY <2>1, <3>2 DEF PickSet
    <2>2. CASE DOMAIN m # {} /\ \E z \in ShortestOf(m) : m[z] = -1
      <3>1. a \in DOMAIN m
        BY <2>2 DEF PickSet
      <3> QED
        BY <2>2, <3>1, AnyIsPicked
    <2>3. CASE DOMAIN m # {} /\ \A z \in ShortestOf(m) : m[z] # -1
      <3>1. a \in ShortestOf(m)
        BY <2>3 DEF PickSet
      <3> QED
        BY <2>3, <3>1, FirstIsPicked
    <2> QED
      BY <2>1, <2>2, <2>3
  <1> QED
    BY <1>1, <1>2

(* The addresses that PickSet, and so LoadBalancer, allows the search are  *)
(* exactly those that some order of the keys returns, for any number of    *)
(* keys and any counters: those with the least counter, and all of them    *)
(* when that is the sentinel -1 (lines 127-134).                           *)
THEOREM PickSetExact == CallsSpec => []PickSetIsExact
  <1>1. CallInv => PickSetIsExact
    BY PickSetIs DEF CallInv, CallTypes, PickSetIsExact
  <1> QED
    BY <1>1, CallsAlways, PTL
=============================================================================
