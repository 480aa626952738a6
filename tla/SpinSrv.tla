------------------------------ MODULE SpinSrv -------------------------------
(***************************************************************************)
(* The spin server (kubernetes/elasticity/cmd/spinhttpsrv/main.go): one    *)
(* goroutine per request runs spinHandler, one goroutine per slot runs     *)
(* worker, and they meet on two unbuffered channels, s.q to hand a request *)
(* over and r.doneC to hand it back.  qlen is an atomic counter that no    *)
(* lock ties to the channel.  Each step below is one atomic operation of   *)
(* the code, one channel rendezvous, or one critical section.  The calls   *)
(* of the request-rate estimator are steps here; what they compute, for    *)
(* any goroutines that call it, is module RequestRate.                     *)
(*                                                                         *)
(* The id and duration of a request only decide whether it is refused; how *)
(* long it spins is left open.  Of an operator pair such as UncountedEntry *)
(* and CountedEntry the first is a slip that no action uses.               *)
(***************************************************************************)
EXTENDS Integers, FiniteSets

CONSTANTS Requests,    \* requests, each made once
          Workers,     \* worker goroutines there may be
          Nobody       \* a worker without a request

ASSUME SpinAssumption ==
    /\ IsFiniteSet(Requests) /\ IsFiniteSet(Workers)
    /\ Nobody \notin Requests

VARIABLES
    slots,        \* the worker goroutines there are
    running,      \* is the process up?
    hpc,          \* per request, where its handler is
    wpc,          \* per worker, where it is
    job,          \* per worker, its request r
    qlen,         \* s.qlen
    qlenStart,    \* per request, r.qlenStart
    qlenFinish,   \* per request, r.qlenFinish
    rps,          \* per request, has r.rps been set?
    isDone        \* per request, r.isDone

nslots == Cardinality(slots)

fields   == <<qlenStart, qlenFinish, rps, isDone>>
vars     == <<slots, running, hpc, wpc, job, qlen, fields>>

HandlerStates ==
    {"new", "rated", "counted", "sending", "waiting", "back",
     "replied", "refused", "aborted"}
WorkerStates ==
    {"idle", "got", "spinning", "spun", "rated", "finishing", "handing"}

Init ==
    /\ slots \in (SUBSET Workers) \ {{}}
    /\ running = TRUE
    /\ hpc = [r \in Requests |-> "new"]
    /\ wpc = [w \in Workers |-> "idle"]
    /\ job = [w \in Workers |-> Nobody]
    /\ qlen = 0
    /\ qlenStart = [r \in Requests |-> 0]
    /\ qlenFinish = [r \in Requests |-> 0]
    /\ rps = [r \in Requests |-> FALSE]
    /\ isDone = [r \in Requests |-> FALSE]

HandlerGoes(r, from, to) ==
    /\ running
    /\ hpc[r] = from
    /\ hpc' = [hpc EXCEPT ![r] = to]

WorkerGoes(w, from, to) ==
    /\ running
    /\ wpc[w] = from
    /\ wpc' = [wpc EXCEPT ![w] = to]

-----------------------------------------------------------------------------
(* spinHandler and enqueue *)

(* A missing id, a missing duration, or one that does not parse. *)
Refuse(r) ==
    /\ HandlerGoes(r, "new", "refused")
    /\ UNCHANGED <<slots, running, wpc, job, qlen, fields>>

UpdateRequestRate(r) ==
    /\ HandlerGoes(r, "new", "rated")
    /\ UNCHANGED <<slots, running, wpc, job, qlen, fields>>

(* s.qlen.Add(1) *)
UncountedEntry == qlen
CountedEntry == qlen + 1

CountEntry(r) ==
    /\ HandlerGoes(r, "rated", "counted")
    /\ qlen' = CountedEntry
    /\ UNCHANGED <<slots, running, wpc, job, fields>>

(* r.qlenStart = int(s.qlen.Load()) *)
LoadQLenStart(r) ==
    /\ HandlerGoes(r, "counted", "sending")
    /\ qlenStart' = [qlenStart EXCEPT ![r] = qlen]
    /\ UNCHANGED <<slots, running, wpc, job, qlen, qlenFinish, rps, isDone>>

(* s.q <- r meets r := <-s.q. *)
HandOver(r, w) ==
    /\ HandlerGoes(r, "sending", "waiting")
    /\ w \in slots
    /\ WorkerGoes(w, "idle", "got")
    /\ job' = [job EXCEPT ![w] = r]
    /\ UNCHANGED <<slots, running, qlen, fields>>

-----------------------------------------------------------------------------
(* worker *)

(* s.qlen.Add(-1) *)
CountExit(w) ==
    /\ WorkerGoes(w, "got", "spinning")
    /\ qlen' = qlen - 1
    /\ UNCHANGED <<slots, running, hpc, job, fields>>

(* spin: with nslots = 1 nothing is left to sleep, and rand.Int63n(0)      *)
(* panics in getFirstSleep.                                                *)
SpinPanicsBelowThree(n) == n < 3
SpinPanics(n) == n = 1

Spin(w) ==
    /\ WorkerGoes(w, "spinning", "spun")
    /\ ~SpinPanics(nslots)
    /\ UNCHANGED <<slots, running, hpc, job, qlen, fields>>

(* The panic is in a worker: no handler recovers it and the process dies.  *)
SpinCrash(w) ==
    /\ running /\ wpc[w] = "spinning"
    /\ SpinPanics(nslots)
    /\ running' = FALSE
    /\ hpc' = [r \in Requests |->
                  IF hpc[r] \in {"new", "replied", "refused"} THEN hpc[r] ELSE "aborted"]
    /\ UNCHANGED <<slots, wpc, job, qlen, fields>>

(* Kubernetes starts the container again: main and newSrv. *)
Restart ==
    /\ ~running
    /\ running' = TRUE
    /\ wpc' = [w \in Workers |-> "idle"]
    /\ job' = [w \in Workers |-> Nobody]
    /\ qlen' = 0
    /\ UNCHANGED <<slots, hpc, fields>>

(* r.rps = s.getRequestRate() *)
GetRequestRate(w) ==
    /\ WorkerGoes(w, "spun", "rated")
    /\ rps' = [rps EXCEPT ![job[w]] = TRUE]
    /\ UNCHANGED <<slots, running, hpc, job, qlen, qlenStart, qlenFinish, isDone>>

(* r.qlenFinish = int(s.qlen.Load()) *)
LoadQLenFinish(w) ==
    /\ WorkerGoes(w, "rated", "finishing")
    /\ qlenFinish' = [qlenFinish EXCEPT ![job[w]] = qlen]
    /\ UNCHANGED <<slots, running, hpc, job, qlen, qlenStart, rps, isDone>>

(* done(): the flag first, then the channel. *)
FlagForgotten(r) == isDone
FlagSet(r) == [isDone EXCEPT ![r] = TRUE]

MarkDone(w) ==
    /\ WorkerGoes(w, "finishing", "handing")
    /\ isDone' = FlagSet(job[w])
    /\ UNCHANGED <<slots, running, hpc, job, qlen, qlenStart, qlenFinish, rps>>

(* r.doneC <- true meets <-r.doneC in waitUntilDone. *)
StopsAfterOneJob == "stopped"
TakesNextJob == "idle"

JobKept(w) == job
JobDropped(w) == [job EXCEPT ![w] = Nobody]

HandBack(w) ==
    /\ WorkerGoes(w, "handing", TakesNextJob)
    /\ HandlerGoes(job[w], "waiting", "back")
    /\ job' = JobDropped(w)
    /\ UNCHANGED <<slots, running, qlen, fields>>

(* The reply: req.String() reads every field of the request. *)
Reply(r) ==
    /\ HandlerGoes(r, "back", "replied")
    /\ UNCHANGED <<slots, running, wpc, job, qlen, fields>>

-----------------------------------------------------------------------------
Handler(r) ==
    \/ UpdateRequestRate(r) \/ CountEntry(r) \/ LoadQLenStart(r)
    \/ \E w \in Workers : HandOver(r, w)
    \/ Reply(r)

Worker(w) ==
    \/ CountExit(w) \/ Spin(w) \/ SpinCrash(w)
    \/ GetRequestRate(w) \/ LoadQLenFinish(w) \/ MarkDone(w)
    \/ HandBack(w)

Next ==
    \/ \E r \in Requests : Handler(r) \/ Refuse(r)
    \/ \E w \in Workers : Worker(w)
    \/ Restart

(* Go runs every goroutine that can run; spin ends when its duration is    *)
(* over.  A request need never be made.                                    *)
Fairness ==
    /\ \A r \in Requests : WF_vars(hpc[r] # "new" /\ Handler(r))
    /\ \A w \in Workers : WF_vars(Worker(w))
    /\ WF_vars(Restart)

Spec == Init /\ [][Next]_vars /\ Fairness

-----------------------------------------------------------------------------
TypeOK ==
    /\ slots \subseteq Workers
    /\ running \in BOOLEAN
    /\ hpc \in [Requests -> HandlerStates]
    /\ wpc \in [Workers -> WorkerStates]
    /\ job \in [Workers -> Requests \cup {Nobody}]
    /\ qlen \in Nat
    /\ qlenStart \in [Requests -> Nat]
    /\ qlenFinish \in [Requests -> Nat]
    /\ rps \in [Requests -> BOOLEAN]
    /\ isDone \in [Requests -> BOOLEAN]

(* The requests qlen counts: from the Add(1) of their handler to the       *)
(* Add(-1) of their worker.                                                *)
Queued == {r \in Requests : hpc[r] \in {"counted", "sending"}}
JustTaken == {w \in Workers : running /\ wpc[w] = "got"}

(* qlen is the number of requests between the two atomic adds, whatever    *)
(* the interleaving of handlers and workers; in particular it is never     *)
(* negative and comes back to 0 (lines 182, 191).                          *)
QLenIsExact ==
    running => qlen = Cardinality(Queued) + Cardinality(JustTaken)

(* Handler and worker never touch a request at the same time: while a      *)
(* worker has it the handler is waiting for it, no two workers have the    *)
(* same one, and whoever waits is had by a worker (lines 44-49, 185, 190). *)
OneOwner ==
    running =>
        /\ \A w \in Workers : job[w] # Nobody => hpc[job[w]] = "waiting"
        /\ \A v, w \in Workers : job[v] = job[w] /\ job[v] # Nobody => v = w
        /\ \A r \in Requests : hpc[r] = "waiting" => \E w \in Workers : job[w] = r

(* A reply is printed from a finished request, with its rate and with the  *)
(* queue length its own arrival counted (lines 47-58, 175-177).            *)
RepliesAreComplete ==
    \A r \in Requests :
        hpc[r] \in {"back", "replied"} =>
            isDone[r] /\ rps[r] /\ qlenStart[r] >= 1

(* Every request that is not refused is answered, if there are at least    *)
(* two slots, however handlers and workers are interleaved.                *)
EveryRequestIsAnswered ==
    \A r \in Requests : nslots > 1 /\ hpc[r] = "rated" ~> hpc[r] = "replied"


(* The promise of SpinService.  A request is accepted when its handler     *)
(* counts it in, spins from the Add(-1) of its worker, and is answered     *)
(* when it is handed back.                                                 *)
SpinningNow ==
    {job[w] : w \in {v \in Workers : running /\ wpc[v] \notin {"idle", "got"}}}

Service == INSTANCE SpinService
    WITH slots <- nslots,
         new <- {r \in Requests : hpc[r] \in {"new", "rated"}},
         queued <- Queued \cup {job[w] : w \in JustTaken},
         spinning <- SpinningNow,
         answered <- {r \in Requests : hpc[r] \in {"back", "replied"}}

ServiceSpec == Service!Spec
=============================================================================
