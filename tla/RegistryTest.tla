---------------------------- MODULE RegistryTest ----------------------------
(***************************************************************************)
(* The service-registry load tests of load-balancing/service-discovery     *)
(* that register, deregister and read: TestRegisterOnly,                   *)
(* TestRegisterDeregisterOnly and TestRegisterDeregisterGet, the same for  *)
(* etcd and consul.  A run is a process; the registry outlives it, so what *)
(* a run leaves behind, or a run that was killed, is there for the next.   *)
(* A call of the registry may fail, and what it asked for be done or not;  *)
(* assertions on its error are not fatal, so a test goes on all the same,  *)
(* and panics where it reads the reply of etcd that it did not get.        *)
(*                                                                         *)
(* Module EtcdWatchTest runs them, and the watch tests, against one        *)
(* registry.                                                               *)
(*                                                                         *)
(* Request i of any run registers key i (an atomic counter that starts     *)
(* afresh with the run); the load generator runs requests concurrently.    *)
(* Entries of an unrelated service have another prefix and are left out.   *)
(* Of an operator pair such as Left and Removed the first is a slip that   *)
(* no action uses.                                                         *)
(***************************************************************************)
EXTENDS Integers, FiniteSets

CONSTANTS Keys,        \* the keys "svc-replica-i" of the requests of a run
          MinKeys,     \* "min-svc-replica-0" ...: minEntries of them
          Found,       \* what may be registered before the first run
          MaxRuns      \* bound: runs of a test

ASSUME RegistryAssumption ==
    /\ IsFiniteSet(Keys) /\ IsFiniteSet(MinKeys) /\ Keys \cap MinKeys = {}
    /\ \A contents \in Found : IsFiniteSet(contents)
    /\ MaxRuns \in Nat

VARIABLES
    reg,       \* the keys registered with the service discovery
    runs,      \* test runs begun
    test,      \* the test running, or the last one
    service,   \* "etcd" or "consul": whose tests these are
    main,      \* off, populate, check, running, closing, ended, crashed
    req,       \* per request of this run: none, put, registered, done
    failed     \* the assertions that failed in this run

regVars == <<reg, runs, test, service, main, req, failed>>

minEntries == Cardinality(MinKeys)
Registering == "RegisterOnly"
RegisterTests == {Registering, "RegisterDeregisterOnly", "RegisterDeregisterGet"}

(* No assertion that a call of the registry returned no error has failed.  *)
AllWell == "err" \notin failed

Active == main \notin {"off", "ended", "crashed"}

RegInit ==
    /\ reg \in Found
    /\ runs = 0
    /\ test = Registering
    /\ service \in {"etcd", "consul"}
    /\ main = "off"
    /\ req = [k \in Keys |-> "none"]
    /\ failed = {}

MainGoes(from, to) == main = from /\ main' = to

(* What a process keeps to itself starts afresh.                           *)
ProcessState ==
    /\ req' = [k \in Keys |-> "none"]
    /\ failed' = {}

(* A test begins: TestRegisterOnly neither populates nor checks.           *)
Begin(t) ==
    /\ ~Active /\ runs < MaxRuns
    /\ runs' = runs + 1
    /\ test' = t
    /\ service' = service
    /\ main' = IF t = Registering THEN "running" ELSE "populate"
    /\ ProcessState
    /\ UNCHANGED reg

(* populateRegistry, and its check: the registry holds ninstances entries. *)
Populate ==
    /\ MainGoes("populate", "check")
    /\ reg' = reg \cup MinKeys
    /\ UNCHANGED <<runs, test, service, req, failed>>

(* A Put fails, or the Get of the check that follows.                      *)
PopulateFails ==
    /\ MainGoes("populate", "ended")
    /\ \E some \in SUBSET MinKeys : reg' = reg \cup some
    /\ failed' = failed \cup {"err"}
    /\ UNCHANGED <<runs, test, service, req>>

CheckFails(at) ==
    /\ MainGoes(at, "ended")
    /\ failed' = failed \cup {"err"}
    /\ UNCHANGED <<reg, runs, test, service, req>>

MoreThanEnough == minEntries < Cardinality(reg)
EnoughEntries == minEntries <= Cardinality(reg)

EnoughIsRight == Cardinality(reg) >= minEntries
RightNumber == Cardinality(reg) = minEntries

CheckInitial(next) ==
    /\ MainGoes("check", IF RightNumber THEN next ELSE "ended")
    /\ failed' = IF RightNumber THEN failed ELSE failed \cup {"initial"}
    /\ UNCHANGED <<reg, runs, test, service, req>>

(* The load generator starts a request: i := idx.Add(1).                   *)
Request(k) ==
    /\ main = "running" /\ req[k] = "none"
    /\ req' = [req EXCEPT ![k] = "put"]
    /\ UNCHANGED <<reg, runs, test, service, main, failed>>

Register(k, next) ==
    /\ Active /\ req[k] = "put"
    /\ reg' = reg \cup {k}
    /\ req' = [req EXCEPT ![k] = next]
    /\ UNCHANGED <<runs, test, service, main, failed>>

(* Put fails; now is what it has made of the registry.                     *)
RegisterFails(k, next, now) ==
    /\ Active /\ req[k] = "put"
    /\ reg' = now
    /\ req' = [req EXCEPT ![k] = next]
    /\ failed' = failed \cup {"err"}
    /\ UNCHANGED <<runs, test, service, main>>

Left(k) == reg
Removed(k) == reg \ {k}

Deregister(k) ==
    /\ Active /\ req[k] = "registered"
    /\ reg' = Removed(k)
    /\ req' = [req EXCEPT ![k] = "done"]
    /\ failed' = failed \cup {f \in {"deleted"} : service = "etcd" /\ k \notin reg}
    /\ UNCHANGED <<runs, test, service, main>>

(* The process dies, leaving this; a request on its way to the registry is *)
(* carried out now or never.                                               *)
Dies(left) ==
    /\ main' = "crashed"
    /\ \E late \in SUBSET {k \in Keys : req[k] = "put"} : reg' = left \cup late
    /\ ProcessState
    /\ UNCHANGED <<runs, test, service>>

(* Delete fails, having removed the key or not.  With etcd resp is nil and *)
(* resp.Deleted a panic; consul's tests only note the error.               *)
DeletePanics(k) ==
    /\ Active /\ req[k] = "registered"
    /\ \E now \in {reg, Removed(k)} : Dies(now)

DeregisterFails(k) ==
    /\ Active /\ req[k] = "registered"
    /\ reg' \in {reg, Removed(k)}
    /\ req' = [req EXCEPT ![k] = "done"]
    /\ failed' = failed \cup {"err"}
    /\ UNCHANGED <<runs, test, service, main>>

(* readLG: "No services returned", "Too few services returned".            *)
Read ==
    /\ main = "running" /\ test = "RegisterDeregisterGet"
    /\ failed' = failed \cup {f \in {"none", "few"} :
                     \/ f = "none" /\ ~(Cardinality(reg) > 1)
                     \/ f = "few" /\ service = "etcd" /\ ~EnoughEntries}
    /\ UNCHANGED <<reg, runs, test, service, main, req>>

(* Get fails: kvs.Kvs of a nil kvs is a panic, the length of a nil svcs 0. *)
ReadFails ==
    /\ main = "running" /\ test = "RegisterDeregisterGet"
    /\ \/ service = "etcd" /\ Dies(reg)
       \/ /\ service = "consul"
          /\ failed' = failed \cup {"err", "none"}
          /\ UNCHANGED <<reg, runs, test, service, main, req>>

AllReturned == \A k \in Keys : req[k] \in {"none", "done"}

(* The load generators have run; the deferred checkRegistry.               *)
Finish ==
    /\ MainGoes("running", IF test = Registering THEN "ended" ELSE "closing")
    /\ AllReturned
    /\ UNCHANGED <<reg, runs, test, service, req, failed>>

CheckFinal ==
    /\ MainGoes("closing", "ended")
    /\ failed' = IF EnoughEntries THEN failed ELSE failed \cup {"final"}
    /\ UNCHANGED <<reg, runs, test, service, req>>

(* The test is killed.                                                     *)
Crash == Active /\ Dies(reg)

RegMainStep ==
    \/ Populate \/ PopulateFails \/ CheckInitial("running") \/ Finish \/ CheckFinal
    \/ \E at \in {"check", "closing"} : CheckFails(at)

RegRequestStep(k) ==
    LET next == IF test = Registering THEN "done" ELSE "registered"
    IN  \/ Register(k, next)
        \/ \E now \in {reg, reg \cup {k}} : RegisterFails(k, next, now)
        \/ Deregister(k)
        \/ service = "etcd" /\ DeletePanics(k)
        \/ service = "consul" /\ DeregisterFails(k)

(* A step of one of these tests, once begun. *)
RegStep ==
    RegMainStep \/ Read \/ ReadFails \/ \E k \in Keys : Request(k) \/ RegRequestStep(k)

-----------------------------------------------------------------------------
(* No assertion of the tests fails but that on the initial contents, which *)
(* fails on what earlier runs left, and the one a registry of fewer than   *)
(* two entries is enough for; and when a call of the registry has failed,  *)
(* those on its error, on the number deleted and on consul's empty answer. *)
(* There are enough entries all the same (lines 66, 80, 165, 232, 233).    *)
AssertionsHold ==
    failed \subseteq {"initial"}
        \cup (IF minEntries < 2 THEN {"none"} ELSE {})
        \cup (IF AllWell THEN {} ELSE {"err", "deleted", "none"})
=============================================================================
