---------------------------- MODULE LoadBalancer ----------------------------
(***************************************************************************)
(* The load balancer of the elasticity testbed                             *)
(* (kubernetes/elasticity/cmd/lb/main.go): one goroutine that polls the    *)
(* Kubernetes endpoints of the service (monitorPods), one goroutine per    *)
(* client request (lbHandler), and the struct LB they share under lb.mu.   *)
(*                                                                         *)
(* Every method of LB that takes lb.mu holds it from its first statement   *)
(* to its return, so each is one action; what interleaves is the calls.    *)
(* The loops inside updatePodIPs and getBackendPodAddrClntSideQLen are     *)
(* taken apart in module BackendCalls.                                     *)
(*                                                                         *)
(* Operators that come in pairs (AlwaysFirst, RRIndex) are a slip the code *)
(* could contain and what it does; the slip is used by no action.          *)
(*                                                                         *)
(* Kubernetes (the endpoints, the API server, the restart of a dead pod,   *)
(* kubernetes/lb/*.yaml: "restartPolicy: Always"), the backends and the    *)
(* clients are the environment.                                            *)
(***************************************************************************)
EXTENDS BackendTable

CONSTANTS Requests,   \* those that may be under way at once: as one ends,
                      \* with a reply or without, its client may call again
          LBTypes,    \* arguments the program is started with
          MaxPicks    \* bound: picks of round robin in one life of the process

ASSUME RequestAssumption == IsFiniteSet(Requests) /\ MaxPicks \in Nat

VARIABLES
    lbType,            \* lb.t, the argument of the program
    running,           \* is the process up?
    idx,               \* lb.idx
    monitor,           \* monitorPods: "get" (or asleep before it) or "update"
    req,               \* per request, where its handler is and its addr
    ready,             \* environment: the addresses of the endpoints object
    apiUp,             \* environment: does the API server answer?
    lostCount,         \* history: requests a counter forgot when it was reset
    turns              \* history: picks per pod since podIPs last changed

lbVars  == <<podIPs, outstandingReqs, idx>>
monVars == <<monitor, ips>>
envVars == <<lbType, ready, apiUp>>
hist    == <<lostCount, turns>>
vars    == <<running, lbVars, monVars, req, envVars, hist>>

(* A handler: never called, waiting for its backend, holding an answer   *)
(* or an error to pass on, about to run its deferred putBackendPodAddr,    *)
(* returned with a reply or with status 400, or dead with the process.     *)
RequestStates ==
    {"new", "proxied", "got", "answered", "refused", "ok", "err", "aborted"}

HoldsAddr(st) == st \in {"proxied", "got", "answered", "refused"}

(* The requests whose handler is between its pick and its put. *)
InFlight(a) == {r \in Requests : HoldsAddr(req[r].st) /\ req[r].addr = a}

Outstanding(a) == Cardinality(InFlight(a))

NoTurns == [p \in Pods |-> 0]

(* newLB and the start of main. *)
InitLB ==
    /\ podIPs = <<>>
    /\ outstandingReqs = NoTable
    /\ idx = 0
    /\ monitor = "get"
    /\ ips = {}
    /\ lostCount = [a \in Addrs |-> 0]
    /\ turns = NoTurns

Init ==
    /\ lbType \in LBTypes
    /\ running = TRUE
    /\ InitLB
    /\ req = [r \in Requests |-> [st |-> "new", addr |-> NoAddr]]
    /\ ready \in SUBSET Pods
    /\ apiUp = TRUE

(* log.Fatalf, or a panic outside a handler: every goroutine dies, and the *)
(* clients of the running handlers, and of dying, lose their connection.   *)
Die(dying) ==
    /\ running' = FALSE
    /\ req' = [r \in Requests |->
                  IF HoldsAddr(req[r].st) \/ r \in dying
                    THEN [st |-> "aborted", addr |-> NoAddr] ELSE req[r]]
    /\ podIPs' = <<>>
    /\ outstandingReqs' = NoTable
    /\ idx' = 0
    /\ monitor' = "get"
    /\ ips' = {}
    /\ lostCount' = [a \in Addrs |-> 0]
    /\ turns' = NoTurns

(* Kubernetes starts the container again. *)
Restart ==
    /\ ~running
    /\ running' = TRUE
    /\ UNCHANGED <<lbVars, monVars, req, envVars, hist>>

-----------------------------------------------------------------------------
(* monitorPods *)

MonitorGet ==
    /\ running /\ monitor = "get" /\ apiUp
    /\ ips' = ready
    /\ monitor' = "update"
    /\ UNCHANGED <<running, lbVars, req, envVars, hist>>

(* The Get fails: log.Fatalf. *)
MonitorGetFails ==
    /\ running /\ monitor = "get" /\ ~apiUp
    /\ Die({})
    /\ UNCHANGED envVars

(* What the call makes of the list and of the counters. *)
GrownLists == {podIPs \o tail : tail \in Orderings(ips \ Range(podIPs))}
UpdatedLists == {new \in Orderings(ips) : IsUpdateOf(new, podIPs, ips)}

RebuiltCounters(added) == [p \in ips |-> 0]
UpdatedCounters(added) == ZeroAll(outstandingReqs, added)

(* updatePodIPs(ips) returns; ips is what Get returned, however long ago. *)
MonitorUpdate ==
    LET added == ips \ Range(podIPs)
    IN  /\ running /\ monitor = "update"
        /\ ~UpdatePanics(podIPs, ips)
        /\ podIPs' \in UpdatedLists
        /\ turns' = IF podIPs' = podIPs THEN turns ELSE NoTurns
        /\ outstandingReqs' = UpdatedCounters(added)
        /\ lostCount' = [a \in Addrs |->
                            IF a \in added THEN Outstanding(a) ELSE lostCount[a]]
        /\ monitor' = "get"
        /\ UNCHANGED <<running, idx, ips, req, envVars>>

(* updatePodIPs logs podIPs[-1] and panics: the goroutine is not a handler *)
(* of net/http, so nothing recovers and the process dies.                  *)
MonitorPanics ==
    /\ running /\ monitor = "update"
    /\ UpdatePanics(podIPs, ips)
    /\ Die({})
    /\ UNCHANGED envVars

-----------------------------------------------------------------------------
(* lbHandler.  A handler is called only while the process is up, for a     *)
(* client that has never called or whose last call has ended, however.     *)

Arriving(r) == running /\ ~HoldsAddr(req[r].st)

(* lb.idx%len(lb.podIPs), counted from 1, and lb.idx++. *)
AlwaysFirst(k, n) == 1
RRIndex(k, n) == (k % n) + 1

NextIdx(k) == k + 1

(* getBackendPodAddrRR *)
PickRR(r) ==
    /\ Arriving(r) /\ lbType = "rr" /\ podIPs # <<>>
    /\ idx < MaxPicks
    /\ LET ip == podIPs[RRIndex(idx, Len(podIPs))]
       IN  /\ req' = [req EXCEPT ![r] = [st |-> "proxied", addr |-> ip]]
           /\ turns' = [turns EXCEPT ![ip] = @ + 1]
    /\ idx' = NextIdx(idx)
    /\ UNCHANGED <<running, podIPs, outstandingReqs, monVars, envVars, lostCount>>

PickUncounted(a) == AddTo(outstandingReqs, a, 0)
PickCounted(a) == AddTo(outstandingReqs, a, 1)

(* getBackendPodAddrClntSideQLen *)
PickClntSideQLen(r) ==
    /\ Arriving(r) /\ lbType = "clntsideqlen"
    /\ \E a \in PickSet(outstandingReqs) :
          /\ req' = [req EXCEPT ![r] = [st |-> "proxied", addr |-> a]]
          /\ outstandingReqs' = PickCounted(a)
    /\ UNCHANGED <<running, podIPs, idx, monVars, envVars, hist>>

(* "No backend pod IPs available", or a type getBackendPodAddr does not    *)
(* implement: log.Fatalf in the handler takes every other request with it. *)
PickFatal(r) ==
    /\ Arriving(r)
    /\ IF lbType = "rr" THEN podIPs = <<>> ELSE lbType # "clntsideqlen"
    /\ Die({r})
    /\ UNCHANGED envVars

(* lb.clnt.Get returns a response, or an error: a refused connection, the  *)
(* client's timeout of 20 minutes, or at once for the URL "http:///spin?". *)
ProxyReturns(r, st) ==
    /\ running /\ req[r].st = "proxied"
    /\ st = "got" => req[r].addr # NoAddr
    /\ req' = [req EXCEPT ![r].st = st]
    /\ UNCHANGED <<running, lbVars, monVars, envVars, hist>>

(* io.Copy of the body to the client, which can fail too. *)
CopyBody(r, st) ==
    /\ running /\ req[r].st = "got"
    /\ req' = [req EXCEPT ![r].st = st]
    /\ UNCHANGED <<running, lbVars, monVars, envVars, hist>>

(* The deferred putBackendPodAddr(addr) runs on every path, for a reply    *)
(* and for an error alike; then the handler returns.                       *)
ReturnsOnReply(st) == st = "answered"
Returns(st) == st \in {"answered", "refused"}

PutOnReply(a, st) == AddTo(outstandingReqs, a, IF st = "answered" THEN -1 ELSE 0)
PutCounted(a, st) == AddTo(outstandingReqs, a, -1)

Put(r) ==
    /\ running /\ Returns(req[r].st)
    /\ outstandingReqs' = PutCounted(req[r].addr, req[r].st)
    /\ req' = [req EXCEPT ![r] = [st |-> IF @.st = "answered" THEN "ok" ELSE "err",
                                  addr |-> NoAddr]]
    /\ UNCHANGED <<running, podIPs, idx, monVars, envVars, hist>>

-----------------------------------------------------------------------------
(* The environment: pods come, go and come back with the same IP; the API  *)
(* server becomes unreachable and reachable again.                         *)
EndpointsChange ==
    /\ \E S \in SUBSET Pods : S # ready /\ ready' = S
    /\ UNCHANGED <<lbType, running, lbVars, monVars, req, apiUp, hist>>

ApiToggles ==
    /\ apiUp' = ~apiUp
    /\ UNCHANGED <<lbType, running, lbVars, monVars, req, ready, hist>>

Monitor == MonitorGet \/ MonitorGetFails \/ MonitorUpdate \/ MonitorPanics

Handler(r) ==
    \/ PickRR(r)
    \/ PickClntSideQLen(r)
    \/ PickFatal(r)
    \/ \E st \in {"got", "refused"} : ProxyReturns(r, st)
    \/ \E st \in {"answered", "refused"} : CopyBody(r, st)
    \/ Put(r)

Next ==
    \/ Monitor
    \/ Restart
    \/ \E r \in Requests : Handler(r)
    \/ EndpointsChange
    \/ ApiToggles

(* The goroutines run, Kubernetes restarts the pod, and a handler whose    *)
(* request has been forwarded ends: http.Client.Timeout bounds both Get    *)
(* and the reading of the body.  Clients may call for ever, or never.      *)
Fairness ==
    /\ WF_vars(Monitor)
    /\ WF_vars(Restart)
    /\ \A r \in Requests : WF_vars(HoldsAddr(req[r].st) /\ Handler(r))

Spec == Init /\ [][Next]_vars /\ Fairness

-----------------------------------------------------------------------------
TypeOK ==
    /\ lbType \in LBTypes
    /\ running \in BOOLEAN
    /\ podIPs \in Seq(Pods)
    /\ IsQLenTable(outstandingReqs)
    /\ idx \in Nat
    /\ monitor \in {"get", "update"}
    /\ ips \subseteq Pods
    /\ req \in [Requests -> [st : RequestStates, addr : Addrs]]
    /\ ready \subseteq Pods
    /\ apiUp \in BOOLEAN
    /\ lostCount \in [Addrs -> Nat]
    /\ turns \in [Pods -> Nat]

(* The meaning of a counter under clntsideqlen: it is the number of        *)
(* requests between their pick and their put at that address, less those   *)
(* that were in flight when updatePodIPs last set the counter to 0.  So    *)
(* getBackendPodAddrClntSideQLen, putBackendPodAddr on every path of       *)
(* lbHandler, and updatePodIPs agree on every request, across departures   *)
(* and returns of its pod.                                                 *)
CountersAccountForRequests ==
    lbType = "clntsideqlen" =>
        \A a \in Addrs :
            Outstanding(a) = Count(outstandingReqs, a) + lostCount[a]

(* Every pod of the list has a counter. *)
EveryBackendHasACounter == Range(podIPs) \subseteq DOMAIN outstandingReqs

(* A request can only be in flight at an address that has a counter, so    *)
(* putBackendPodAddr never invents a key, whatever updatePodIPs did to the *)
(* list while the request was out (lines 68-91, 157).                      *)
EveryRequestHasACounter ==
    \A r \in Requests :
        HoldsAddr(req[r].st) => req[r].addr \in DOMAIN outstandingReqs

(* While the list of pods does not change, round robin gives no pod two    *)
(* requests more than another, wherever idx stood when the list was made   *)
(* and however the handlers interleave (lines 117-118).                    *)
RoundRobinIsEven ==
    lbType = "rr" =>
        \A p, q \in Range(podIPs) : turns[p] <= turns[q] + 1

(* As long as no counter has lost a request (no pod has come back with     *)
(* requests out), client-side queue length sends a request to an address   *)
(* with the fewest requests in flight of all it knows (lines 126-135).     *)
PicksLeastLoaded ==
    [][ (lbType = "clntsideqlen" /\ \A a \in Addrs : lostCount[a] = 0) =>
          \A r \in Requests :
             Arriving(r) /\ req'[r].st = "proxied" =>
                \A p \in DOMAIN outstandingReqs :
                    Outstanding(req'[r].addr) <= Outstanding(p) ]_vars

(* A forwarded request always ends: answered, refused, or cut off by the   *)
(* death of the process; a stuck backend cannot hold it (line 54).         *)
ForwardedRequestsEnd ==
    \A r \in Requests :
        req[r].st = "proxied" ~> req[r].st \in {"ok", "err", "aborted"}

(* From some time on no call finds the list empty under round robin, and   *)
(* none meets a type that is not implemented (lines 115, 146).             *)
CallsStopKilling == <>[][\A r \in Requests : ~PickFatal(r)]_vars

(* Once the endpoints stop changing and the API server answers, podIPs is  *)
(* and stays the set of ready pods, whatever stale snapshot, panic or      *)
(* restart came before (lines 93-108).  Under clntsideqlen that is so      *)
(* however many calls go on coming.  With the other types every call that  *)
(* comes before a restarted process has learned its backends kills it      *)
(* again, for ever if clients never pause: they have to leave it alone.    *)
MonitorConverges ==
    /\ <>[]apiUp /\ <>[][FALSE]_ready
    /\ lbType = "clntsideqlen" \/ CallsStopKilling
    => <>[](Range(podIPs) = ready)

(* Line 126: "Find the backend pod with the shortes qlen".  What is found  *)
(* is a backend pod, if there is any.                                      *)
PicksABackend ==
    [][ \A r \in Requests :
          Arriving(r) /\ req'[r].st = "proxied" /\ podIPs # <<>> =>
              req'[r].addr \in Range(podIPs) ]_vars
=============================================================================
