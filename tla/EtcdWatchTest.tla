--------------------------- MODULE EtcdWatchTest ---------------------------
(***************************************************************************)
(* The load tests of etcd: those of RegistryTest, and two that watch.  In  *)
(* these a request registers a key and measures how long it takes until    *)
(* every stable watcher has heard of it, by a WaitGroup that request and   *)
(* watchers find in a WatchMap; in the second one-shot watchers come and   *)
(* go, and a third goroutine writes a dummy key to release them.           *)
(*                                                                         *)
(* etcd delivers the events of the keys to each watch in order; a call of  *)
(* etcd that fails has been carried out, or never is.  Time is             *)
(* counted in units of dur.  Of an operator pair such as AnyAcked and      *)
(* Acked the first is a slip that no action uses.                          *)
(***************************************************************************)
EXTENDS RegistryTest, Sequences

CONSTANTS Watchers,    \* the stable watchers: nWatchers of them
          OneShots,    \* the requests of watchLG
          Dummy        \* the key "xxx"

ASSUME WatchAssumption ==
    /\ IsFiniteSet(Watchers) /\ Watchers \cap OneShots = {}
    /\ Dummy \notin Keys \cup MinKeys

VARIABLES
    wgs,       \* WatchMap.wgs: per key its wait group's counter, or NoGroup
    watch,     \* per watcher: off, asking, watching, stopped
    queue,     \* per watcher, the events etcd has yet to deliver
    stops,     \* how many times done <- true was received
    dummy,     \* the third goroutine: off, check, sleep, awake, put, done
    elapsed    \* time since the load generators were started, up to 3

watchVars == <<wgs, watch, queue, stops, dummy, elapsed>>
vars == <<regVars, watchVars>>

Adding == "WatchAddWatchers"
WatchTests == {"WatchStableSet", Adding}
nWatchers == Cardinality(Watchers)
NoGroup == -1
Everybody == Watchers \cup OneShots

Init ==
    /\ RegInit
    /\ wgs = [k \in Keys |-> NoGroup]
    /\ watch = [w \in Everybody |-> "off"]
    /\ queue = [w \in Everybody |-> << >>]
    /\ stops = 0 /\ dummy = "off" /\ elapsed = 0

NoWatchYet ==
    /\ wgs' = [k \in Keys |-> NoGroup]
    /\ watch' = [w \in Everybody |-> "off"]
    /\ queue' = [w \in Everybody |-> << >>]
    /\ stops' = 0 /\ dummy' = "off" /\ elapsed' = 0

BeginTest(t) ==
    /\ t \in WatchTests => service = "etcd"
    /\ Begin(t)
    /\ NoWatchYet

PopulateFirst ==
    /\ Populate \/ PopulateFails \/ CheckInitial("start") \/ CheckFails("check")
    /\ UNCHANGED watchVars

(* c.Watch returns when etcd has registered the watch. *)
StartWatcher(w) ==
    /\ main = "start" /\ watch[w] = "off"
    /\ watch' = [watch EXCEPT ![w] = "watching"]
    /\ UNCHANGED <<regVars, wgs, queue, stops, dummy, elapsed>>

RunLoad ==
    /\ MainGoes("start", "running")
    /\ \A w \in Watchers : watch[w] = "watching"
    /\ dummy' = IF test = Adding THEN "check" ELSE "off"
    /\ UNCHANGED <<reg, runs, test, service, req, failed, wgs, watch, queue, stops, elapsed>>

-----------------------------------------------------------------------------
(* Etcd: an event goes to everyone who watches.                            *)
Notify(is, k) ==
    queue' = [w \in Everybody |->
                 IF watch[w] = "watching" THEN Append(queue[w], [is |-> is, key |-> k])
                 ELSE queue[w]]

(* IsCreate: the key was not there. *)
PutEvent(k) == IF k \in reg THEN "modify" ELSE "create"

(* A request of writeLG: wm.Add enters a wait group, then adds nWatchers   *)
(* to it.                                                                  *)

AddGroup(k) ==
    /\ test \in WatchTests /\ main = "running" /\ req[k] = "none"
    /\ req' = [req EXCEPT ![k] = "entered"]
    /\ wgs' = [wgs EXCEPT ![k] = 0]
    /\ UNCHANGED <<reg, runs, test, service, main, failed, watch, queue, stops, dummy, elapsed>>

CountWatchers(k) ==
    /\ Active /\ req[k] = "entered"
    /\ req' = [req EXCEPT ![k] = "put"]
    /\ wgs' = [wgs EXCEPT ![k] = @ + nWatchers]
    /\ UNCHANGED <<reg, runs, test, service, main, failed, watch, queue, stops, dummy, elapsed>>

Put(k) ==
    /\ Register(k, "waiting")
    /\ Notify(PutEvent(k), k)
    /\ UNCHANGED <<wgs, watch, stops, dummy, elapsed>>

(* The assertion on the error of Put is not fatal: the request goes on to  *)
(* Wait, for watchers of which none will hear when etcd has not registered *)
(* the key.                                                                *)
PutFails(k) ==
    /\ \/ RegisterFails(k, "waiting", reg \cup {k}) /\ Notify(PutEvent(k), k)
       \/ RegisterFails(k, "missed", reg) /\ UNCHANGED queue
    /\ UNCHANGED <<wgs, watch, stops, dummy, elapsed>>

(* watchers.Wait() *)
Wait(k) ==
    /\ Active /\ req[k] \in {"waiting", "missed"} /\ wgs[k] = 0
    /\ req' = [req EXCEPT ![k] = "registered"]
    /\ UNCHANGED <<reg, runs, test, service, main, failed, watchVars>>

Delete(k) ==
    /\ Deregister(k)
    /\ IF k \in reg THEN Notify("delete", k) ELSE UNCHANGED queue
    /\ UNCHANGED <<wgs, watch, stops, dummy, elapsed>>

DeleteFails(k) == DeletePanics(k) /\ NoWatchYet

-----------------------------------------------------------------------------
(* The watchers: select between an event and done. *)

AnyAcked(e) == e.key # Dummy
Acked(e) == e.is = "create" /\ e.key # Dummy

(* watcher, not one-shot and with ackCreates. *)
Hear(w) ==
    /\ Active /\ w \in Watchers
    /\ watch[w] = "watching" /\ queue[w] # << >>
    /\ LET e == Head(queue[w])
       IN  wgs' = IF Acked(e) THEN [wgs EXCEPT ![e.key] = @ - 1] ELSE wgs
    /\ queue' = [queue EXCEPT ![w] = Tail(@)]
    /\ UNCHANGED <<regVars, watch, stops, dummy, elapsed>>

(* A request of watchLG: a watch, and watcher, one-shot and without acks.  *)
AskForWatch(w) ==
    /\ main = "running" /\ test = Adding /\ elapsed = 0
    /\ w \in OneShots /\ watch[w] = "off"
    /\ watch' = [watch EXCEPT ![w] = "asking"]
    /\ UNCHANGED <<regVars, wgs, queue, stops, dummy, elapsed>>

WatchStarts(w) ==
    /\ Active /\ watch[w] = "asking"
    /\ watch' = [watch EXCEPT ![w] = "watching"]
    /\ UNCHANGED <<regVars, wgs, queue, stops, dummy, elapsed>>

HearOnce(w) ==
    /\ Active /\ w \in OneShots
    /\ watch[w] = "watching" /\ queue[w] # << >>
    /\ watch' = [watch EXCEPT ![w] = "stopped"]
    /\ queue' = [queue EXCEPT ![w] = << >>]
    /\ UNCHANGED <<regVars, wgs, stops, dummy, elapsed>>

(* The third goroutine: for time.Since(start) < dur*3. *)

CheckTime ==
    /\ Active /\ dummy = "check"
    /\ dummy' = IF elapsed < 3 THEN "sleep" ELSE "done"
    /\ UNCHANGED <<regVars, wgs, watch, queue, stops, elapsed>>

PutDummy ==
    /\ Active /\ dummy = "awake"
    /\ dummy' = "put"
    /\ reg' = reg \cup {Dummy}
    /\ Notify(PutEvent(Dummy), Dummy)
    /\ UNCHANGED <<runs, test, service, main, req, failed, wgs, watch, stops, elapsed>>

(* Its failure is no more fatal: the key is deleted next all the same.     *)
PutDummyFails ==
    /\ Active /\ dummy = "awake"
    /\ dummy' = "put"
    /\ \/ reg' = reg \cup {Dummy} /\ Notify(PutEvent(Dummy), Dummy)
       \/ UNCHANGED <<reg, queue>>
    /\ failed' = failed \cup {"err"}
    /\ UNCHANGED <<runs, test, service, main, req, wgs, watch, stops, elapsed>>

DeleteDummy ==
    /\ Active /\ dummy = "put"
    /\ dummy' = "check"
    /\ reg' = reg \ {Dummy}
    /\ failed' = IF Dummy \in reg THEN failed ELSE failed \cup {"deleted"}
    /\ IF Dummy \in reg THEN Notify("delete", Dummy) ELSE UNCHANGED queue
    /\ UNCHANGED <<runs, test, service, main, req, wgs, watch, stops, elapsed>>

(* Again resp is nil and resp.Deleted a panic.                             *)
DeleteDummyFails ==
    /\ Active /\ dummy = "put"
    /\ \E now \in {reg, reg \ {Dummy}} : Dies(now)
    /\ NoWatchYet

(* It sleeps for 10 seconds, the default of dur; etcd registers the watch  *)
(* of a watcher that asked in less.                                        *)
Awake ==
    /\ Active /\ dummy = "sleep"
    /\ \A w \in OneShots : watch[w] # "asking"
    /\ dummy' = "awake"
    /\ elapsed' = elapsed + 1
    /\ UNCHANGED <<regVars, wgs, watch, queue, stops>>

-----------------------------------------------------------------------------
(* wg.Wait(), then done <- true for each of the nWatchers. *)
NobodyWaitedFor == TRUE
OneShotsReturned == \A w \in OneShots : watch[w] \in {"off", "stopped"}

(* After n of the sends on done: one to each stable watcher. *)
AfterStops(n) == IF n = nWatchers THEN "closing" ELSE "stopping"

FinishLoad ==
    /\ MainGoes("running", AfterStops(0))
    /\ AllReturned
    /\ OneShotsReturned
    /\ dummy \in {"off", "done"}
    /\ UNCHANGED <<reg, runs, test, service, req, failed, watchVars>>

StopWatcher(w) ==
    /\ main = "stopping" /\ stops < nWatchers
    /\ watch[w] = "watching"
    /\ watch' = [watch EXCEPT ![w] = "stopped"]
    /\ stops' = stops + 1
    /\ main' = AfterStops(stops')
    /\ UNCHANGED <<reg, runs, test, service, req, failed, wgs, queue, dummy, elapsed>>

CheckAtLast == (CheckFinal \/ CheckFails("closing")) /\ UNCHANGED watchVars

(* Killed; what is on its way to etcd may be carried out, and a dummy key  *)
(* stays.                                                                  *)
CrashTest == Crash /\ NoWatchYet

-----------------------------------------------------------------------------
MainStep ==
    /\ test \in WatchTests
    /\ \/ PopulateFirst \/ RunLoad \/ FinishLoad \/ CheckAtLast
       \/ \E w \in Watchers : StartWatcher(w)
       \/ \E w \in Everybody : StopWatcher(w)

RequestStep(k) ==
    /\ test \in WatchTests
    /\ CountWatchers(k) \/ Put(k) \/ PutFails(k) \/ Wait(k) \/ Delete(k) \/ DeleteFails(k)

WatcherStep(w) == Hear(w) \/ WatchStarts(w) \/ HearOnce(w)
DummyStep ==
    CheckTime \/ Awake \/ PutDummy \/ PutDummyFails \/ DeleteDummy \/ DeleteDummyFails

(* The tests of RegistryTest, during which nobody watches. *)
WithoutWatching(step) == test \in RegisterTests /\ step /\ UNCHANGED watchVars

Next ==
    \/ \E t \in RegisterTests \cup WatchTests : BeginTest(t)
    \/ WithoutWatching(RegStep)
    \/ MainStep
    \/ \E k \in Keys : AddGroup(k) \/ RequestStep(k)
    \/ \E w \in Everybody : AskForWatch(w) \/ WatcherStep(w)
    \/ DummyStep
    \/ CrashTest

(* Goroutines that can run do, sleeps end, etcd answers, be it with an     *)
(* error, and delivers.                                                    *)
(* Tests and requests need not be begun.                                   *)
Fairness ==
    /\ WF_vars(MainStep) /\ WF_vars(DummyStep) /\ WF_vars(WithoutWatching(RegMainStep))
    /\ \A k \in Keys : /\ WF_vars(RequestStep(k))
                      /\ WF_vars(WithoutWatching(RegRequestStep(k)))
    /\ \A w \in Everybody : WF_vars(WatcherStep(w))

Spec == Init /\ [][Next]_vars /\ Fairness

-----------------------------------------------------------------------------
(* The create of k that watcher w has not heard of. *)
Owed(w, k) == \E n \in 1..Len(queue[w]) :
                  queue[w][n].is = "create" /\ queue[w][n].key = k

(* A wait group counts the stable watchers that have yet to hear of its    *)
(* key, however puts, deliveries and acknowledgements interleave; so none  *)
(* is ever done more often than it was added (a panic), and the time a     *)
(* request measures is that of the last watcher (348-360).  After a Put    *)
(* that failed and was not carried out, that is all of them, for good.     *)
AcksAreCounted ==
    Active /\ test \in WatchTests => \A k \in Keys :
        CASE req[k] \in {"put", "missed"} -> wgs[k] = nWatchers
          [] req[k] \in {"waiting", "registered", "done"} ->
                 wgs[k] = Cardinality({w \in Watchers : Owed(w, k)})
          [] OTHER -> wgs[k] \in {0, NoGroup}

(* What this run has registered and not yet deregistered, if all is well.  *)
Own == {k \in Keys : req[k] \in {"waiting", "registered"}}
           \cup (IF dummy = "put" THEN {Dummy} ELSE {})

(* A test that goes on measures a clean registry: it holds the entries of  *)
(* populateRegistry and what its own requests and its third goroutine have *)
(* registered, nothing an earlier run left, however that run ended         *)
(* (populateRegistry 62-68).  Only calls that fail can make a key of its   *)
(* own be missing or stay.                                                 *)
RegistryIsClean ==
    main \in {"start", "running", "stopping", "closing"} /\ test # Registering =>
        /\ MinKeys \subseteq reg
        /\ reg \subseteq MinKeys \cup Own \cup {k \in Keys : req[k] = "done"}
        /\ AllWell => reg = MinKeys \cup Own

(* When a test ends well every stable watcher has been told to stop: none  *)
(* of the sends on the channel they share with the one-shot watchers went  *)
(* to one of those (lines 381-383, 495-496, 537-539).                      *)
WatchersAreStopped ==
    test \in WatchTests /\ main \in {"closing", "ended"} /\ failed = {} =>
        \A w \in Watchers : watch[w] = "stopped"

(* A request waits for watchers that will never hear.                      *)
PutWasLost == \E k \in Keys : req[k] = "missed"

(* A test that begins comes to its end, whatever runs before it left in    *)
(* etcd, if no call fails: no request waits for a watcher that will not    *)
(* hear, no one-shot watcher for an event that never comes.  Of calls that *)
(* fail, only these keep it from ending: a Put that etcd does not carry    *)
(* out, whose request is in Wait for ever (354-359, 455-460), and all Puts *)
(* of the dummy key, of which one carried out is enough (525).             *)
TestsEnd ==
    /\ Active ~> ~Active \/ ~AllWell
    /\ Active /\ (test = Adding => dummy = "put" /\ Dummy \in reg)
          ~> ~Active \/ PutWasLost
=============================================================================
