---------------------------- MODULE BackendCalls ----------------------------
(***************************************************************************)
(* The two loops of the load balancer's table (lb/main.go), iteration by   *)
(* iteration: a call of updatePodIPs, then a call of                       *)
(* getBackendPodAddrClntSideQLen on the table it leaves.  Each call holds  *)
(* lb.mu throughout, so nothing interleaves with it; what matters is the   *)
(* index of the removal loop, which edits the slice it walks, the map that *)
(* is at once the set of ready pods and of pods still to be added, and the *)
(* sentinel -1 of the search, whose order Go does not fix.                 *)
(*                                                                         *)
(* Indices are those of TLA+ sequences, one more than Go's.  The operators *)
(* that come in pairs (NotStruck, Struck) are a slip the loop could hold   *)
(* and what it does; the slip is used by no action.                        *)
(***************************************************************************)
EXTENDS BackendTable

CONSTANT Counts    \* the counter values a call may find in outstandingReqs

ASSUME CountsAssumption == Counts \subseteq Int

VARIABLES
    oldIPs,           \* podIPs when updatePodIPs starts
    readyIPs,         \* its argument
    oldReqs,          \* outstandingReqs when the call under way started
    pc,               \* "remove", "add", "search", "done" or "panic"
    at,               \* the index i of the removal loop
    unseen,           \* the keys the search has not visited
    addr, minQLen     \* its local variables

args   == <<oldIPs, readyIPs>>
search == <<unseen, addr, minQLen>>
callVars ==
    <<args, oldReqs, pc, at, podIPs, ips, outstandingReqs, search>>

(* The state a call can find: a list without repetition and a counter for  *)
(* every pod of the list (counters of departed pods are never deleted, and *)
(* requests out across a pod's return make its counter negative).          *)
InitCalls ==
    /\ oldIPs \in UNION {Orderings(S) : S \in SUBSET Pods}
    /\ readyIPs \in SUBSET Pods
    /\ oldReqs \in UNION {[D -> Counts] : D \in SUBSET Addrs}
    /\ Range(oldIPs) \subseteq DOMAIN oldReqs
    /\ pc = "remove" /\ at = 1
    /\ podIPs = oldIPs /\ ips = readyIPs /\ outstandingReqs = oldReqs
    /\ unseen = {} /\ addr = NoAddr /\ minQLen = -1

-----------------------------------------------------------------------------
(* updatePodIPs *)

WithoutPod(s, k) == SubSeq(s, 1, k - 1) \o SubSeq(s, k + 1, Len(s))

(* The index after a removal: i-- and then the loop's own i++. *)
SteppedBack(k) == k

(* The removal logs podIPs[i] after i--: there is no such element when i   *)
(* was the first.                                                          *)
PcLoggingBeforeRemoval(k) == "remove"
PcAfterRemoval(k) == IF k = 1 THEN "panic" ELSE "remove"

(* The pod at i is no longer ready: cut it out and look at i again. *)
RemovePod ==
    /\ pc = "remove"
    /\ at <= Len(podIPs)
    /\ podIPs[at] \notin ips
    /\ podIPs' = WithoutPod(podIPs, at)
    /\ at' = SteppedBack(at)
    /\ pc' = PcAfterRemoval(at)
    /\ UNCHANGED <<args, oldReqs, ips, outstandingReqs, search>>

(* A pod that stays is struck from the argument, so as not to be added. *)
NotStruck(ip) == ips
Struck(ip) == ips \ {ip}

KeepPod ==
    /\ pc = "remove"
    /\ at <= Len(podIPs)
    /\ podIPs[at] \in ips
    /\ ips' = Struck(podIPs[at])
    /\ at' = at + 1
    /\ UNCHANGED <<args, oldReqs, pc, podIPs, outstandingReqs, search>>

AtLastPod == at = Len(podIPs)
PastLastPod == at > Len(podIPs)

RemovalDone ==
    /\ pc = "remove"
    /\ PastLastPod
    /\ pc' = "add"
    /\ UNCHANGED <<args, oldReqs, at, podIPs, ips, outstandingReqs, search>>

(* One iteration of "for ip := range ips", in an order Go does not fix;    *)
(* here ips is what the range has still to visit.                          *)
KeptCount(ip) == AddTo(outstandingReqs, ip, 0)
FreshCount(ip) == ZeroAll(outstandingReqs, {ip})

AddPod(ip) ==
    /\ pc = "add"
    /\ podIPs' = Append(podIPs, ip)
    /\ outstandingReqs' = FreshCount(ip)
    /\ ips' = ips \ {ip}
    /\ UNCHANGED <<args, oldReqs, pc, at, search>>

-----------------------------------------------------------------------------
(* getBackendPodAddrClntSideQLen *)

(* updatePodIPs returns; the next call is the search, which ranges over    *)
(* the keys of the map.                                                    *)
StartSearch ==
    /\ pc = "add"
    /\ ips = {}
    /\ pc' = "search"
    /\ oldReqs' = outstandingReqs
    /\ unseen' = DOMAIN outstandingReqs
    /\ UNCHANGED <<args, at, podIPs, ips, outstandingReqs, addr, minQLen>>

BetterIfLonger(qlen, min) == qlen > min \/ min = -1
Better(qlen, min) == qlen < min \/ min = -1

Visit(a) ==
    /\ pc = "search"
    /\ unseen' = unseen \ {a}
    /\ IF Better(outstandingReqs[a], minQLen)
         THEN minQLen' = outstandingReqs[a] /\ addr' = a
         ELSE UNCHANGED <<minQLen, addr>>
    /\ UNCHANGED <<args, oldReqs, pc, at, podIPs, ips, outstandingReqs>>

(* lb.outstandingReqs[addr]++, and addr is returned. *)
Return ==
    /\ pc = "search"
    /\ unseen = {}
    /\ outstandingReqs' = AddTo(outstandingReqs, addr, 1)
    /\ pc' = "done"
    /\ UNCHANGED <<args, oldReqs, at, podIPs, ips, search>>

NextCalls ==
    \/ RemovePod
    \/ KeepPod
    \/ RemovalDone
    \/ \E ip \in ips : AddPod(ip)
    \/ StartSearch
    \/ \E a \in unseen : Visit(a)
    \/ Return

CallsSpec == InitCalls /\ [][NextCalls]_callVars /\ WF_callVars(NextCalls)

-----------------------------------------------------------------------------
(* A call of updatePodIPs that returns leaves the list that IsUpdateOf     *)
(* describes: exactly the ready pods, none twice, survivors first and in   *)
(* their old order.  This is what the in-place removal (lines 73-83) and   *)
(* the deletion from the argument (line 81) have to get right together.    *)
ReturnsTheReadyPods ==
    pc = "search" => IsUpdateOf(podIPs, oldIPs, readyIPs)

(* It has started a counter at 0 for exactly the pods it added and has     *)
(* left every other counter, of survivors and of pods long gone, as it     *)
(* found it (lines 85-90).                                                 *)
CountsOnlyNewPodsFromZero ==
    [][ pc' = "search" /\ pc = "add" =>
          outstandingReqs = ZeroAll(oldReqs, readyIPs \ Range(oldIPs)) ]_callVars

(* The call panics when the first pod of the list is gone, and only then.  *)
PanicsIffFirstPodGone ==
    /\ pc = "panic" => UpdatePanics(oldIPs, readyIPs)
    /\ pc \in {"search", "done"} => ~UpdatePanics(oldIPs, readyIPs)

(* Whatever order the range takes, the address returned is one PickSet     *)
(* allows: the least loaded unless the minimum is the sentinel -1, and ""  *)
(* when there is no counter at all (lines 127-134).                        *)
ReturnsAPick == pc = "done" => addr \in PickSet(oldReqs)

(* The search along one order of the keys, with <<addr, minQLen>> after    *)
(* each: what Visit does, as a function of the order.                      *)
ScanAlong(m, order) ==
    LET scan[k \in 0..Len(order)] ==
            IF k = 0 THEN <<NoAddr, -1>>
            ELSE IF Better(m[order[k]], scan[k - 1][2])
                 THEN <<order[k], m[order[k]]>>
                 ELSE scan[k - 1]
    IN  scan[Len(order)][1]

(* PickSet promises no address that some order does not return: it is the  *)
(* exact set of answers (lines 127-134).                                   *)
PickSetIsExact ==
    pc = "search" /\ unseen = DOMAIN oldReqs =>
        PickSet(oldReqs) =
            {ScanAlong(oldReqs, order) : order \in Orderings(DOMAIN oldReqs)}

(* Both calls come to an end, although one steps its index back. *)
Terminates == <>(pc \in {"done", "panic"})
=============================================================================
