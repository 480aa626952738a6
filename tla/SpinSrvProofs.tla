--------------------------- MODULE SpinSrvProofs ----------------------------
(***************************************************************************)
(* Proofs about the spin server, for any number of requests and workers:   *)
(* a request has one owner, the queue length is exact, the types hold (the *)
(* queue length is a natural number only because it is exact), and replies *)
(* are complete, each of which rests on those before it; and every step is *)
(* a step of SpinService or one it does not see.                           *)
(*                                                                         *)
(* And about its estimator: the buckets are exact as long as it is called  *)
(* in every period and without delay, for any set of callers and any       *)
(* length of time.                                                         *)
(***************************************************************************)
EXTENDS SpinSrv, RequestRateHistory, FiniteSetTheorems, TLAPS

(* The types as far as they are inductive by themselves: qlen and what is  *)
(* loaded from it are integers.                                            *)
LooseTypes ==
    /\ slots \subseteq Workers
    /\ running \in BOOLEAN
    /\ hpc \in [Requests -> HandlerStates]
    /\ wpc \in [Workers -> WorkerStates]
    /\ job \in [Workers -> Requests \cup {Nobody}]
    /\ qlen \in Int
    /\ qlenStart \in [Requests -> Int]
    /\ qlenFinish \in [Requests -> Int]
    /\ rps \in [Requests -> BOOLEAN]
    /\ isDone \in [Requests -> BOOLEAN]

(* A worker that is not idle has a request, and no handler of a dead       *)
(* process is left anywhere.                                               *)
BusyHaveJobs == running => \A w \in Workers : wpc[w] # "idle" <=> job[w] # Nobody
NoneSurvives ==
    ~running => \A r \in Requests : hpc[r] \in {"new", "replied", "refused", "aborted"}

OwnerInv == LooseTypes /\ BusyHaveJobs /\ NoneSurvives /\ OneOwner

LEMMA OwnerInit == Init => OwnerInv
  BY DEF Init, OwnerInv, LooseTypes, BusyHaveJobs, NoneSurvives, OneOwner,
         HandlerStates, WorkerStates

LEMMA OwnerStep == OwnerInv /\ [Next]_vars => OwnerInv'
  <1> SUFFICES ASSUME OwnerInv, [Next]_vars PROVE OwnerInv'
    OBVIOUS
  <1> USE SpinAssumption DEF OwnerInv, LooseTypes, BusyHaveJobs, NoneSurvives, OneOwner,
          HandlerStates, WorkerStates, HandlerGoes, WorkerGoes, fields
  <1>1. ASSUME NEW r \in Requests,
               Refuse(r) \/ UpdateRequestRate(r) \/ CountEntry(r) \/ LoadQLenStart(r) \/ Reply(r)
        PROVE  OwnerInv'
    <2>1. CASE Refuse(r)
      BY <2>1 DEF Refuse
    <2>2. CASE UpdateRequestRate(r)
      BY <2>2 DEF UpdateRequestRate
    <2>3. CASE CountEntry(r)
      BY <2>3 DEF CountEntry, CountedEntry
    <2>4. CASE LoadQLenStart(r)
      BY <2>4 DEF LoadQLenStart
    <2>5. CASE Reply(r)
      BY <2>5 DEF Reply
    <2> QED
      BY <1>1, <2>1, <2>2, <2>3, <2>4, <2>5
  <1>2. ASSUME NEW r \in Requests, NEW w \in Workers, HandOver(r, w) PROVE OwnerInv'
    BY <1>2 DEF HandOver
  <1>3. ASSUME NEW w \in Workers,
               CountExit(w) \/ Spin(w) \/ GetRequestRate(w) \/ LoadQLenFinish(w) \/ MarkDone(w)
        PROVE  OwnerInv'
    <2>1. CASE CountExit(w)
      BY <2>1 DEF CountExit
    <2>2. CASE Spin(w)
      BY <2>2 DEF Spin
    <2>3. CASE GetRequestRate(w)
      BY <2>3 DEF GetRequestRate
    <2>4. CASE LoadQLenFinish(w)
      BY <2>4 DEF LoadQLenFinish
    <2>5. CASE MarkDone(w)
      BY <2>5 DEF MarkDone, FlagSet
    <2> QED
      BY <1>3, <2>1, <2>2, <2>3, <2>4, <2>5
  <1>4. ASSUME NEW w \in Workers, SpinCrash(w) PROVE OwnerInv'
    BY <1>4 DEF SpinCrash
  <1>5. ASSUME NEW w \in Workers, HandBack(w) PROVE OwnerInv'
    BY <1>5 DEF HandBack, TakesNextJob, JobDropped
  <1>6. CASE Restart
    BY <1>6 DEF Restart
  <1>7. CASE UNCHANGED vars
    BY <1>7 DEF vars
  <1> QED
    BY <1>1, <1>2, <1>3, <1>4, <1>5, <1>6, <1>7 DEF Next, Handler, Worker

(* Handler and worker never touch a request at the same time, and each     *)
(* request that waits is with exactly one worker (lines 44-49, 185, 190).  *)
THEOREM RequestsHaveOneOwner == Spec => []OneOwner
  <1>1. Spec => []OwnerInv
    BY OwnerInit, OwnerStep, PTL DEF Spec
  <1>2. OwnerInv => OneOwner
    BY DEF OwnerInv
  <1> QED
    BY <1>1, <1>2, PTL

-----------------------------------------------------------------------------
(* The queue length *)

ExactInv == OwnerInv /\ QLenIsExact

(* The two sets whose sizes qlen adds up are finite.                       *)
LEMMA CountedAreFinite ==
    /\ IsFiniteSet(Queued) /\ IsFiniteSet(JustTaken)
    /\ Cardinality(Queued) \in Nat /\ Cardinality(JustTaken) \in Nat
  BY SpinAssumption, FS_Subset, FS_CardinalityType DEF Queued, JustTaken

LEMMA ExactInit == Init => QLenIsExact
  <1> SUFFICES ASSUME Init PROVE QLenIsExact
    OBVIOUS
  <1>1. Queued = {} /\ JustTaken = {}
    BY DEF Init, Queued, JustTaken
  <1> QED
    BY <1>1, FS_EmptySet DEF Init, QLenIsExact

(* A step that changes neither qlen nor the two sets.                      *)
LEMMA ExactKept ==
    ASSUME QLenIsExact, running, qlen' = qlen, Queued' = Queued, JustTaken' = JustTaken
    PROVE  QLenIsExact'
  BY DEF QLenIsExact

LEMMA ExactStep == ExactInv /\ [Next]_vars => QLenIsExact'
  <1> SUFFICES ASSUME ExactInv, [Next]_vars PROVE QLenIsExact'
    OBVIOUS
  <1> USE DEF ExactInv, OwnerInv, LooseTypes, HandlerGoes, WorkerGoes, fields
  <1>1. ASSUME NEW r \in Requests,
               Refuse(r) \/ UpdateRequestRate(r) \/ LoadQLenStart(r) \/ Reply(r)
        PROVE  QLenIsExact'
    <2>1. running /\ qlen' = qlen /\ Queued' = Queued /\ JustTaken' = JustTaken
      BY <1>1 DEF Refuse, UpdateRequestRate, LoadQLenStart, Reply, Queued, JustTaken
    <2> QED
      BY <2>1, ExactKept
  <1>2. ASSUME NEW r \in Requests, CountEntry(r) PROVE QLenIsExact'
    <2>1. Queued' = Queued \cup {r} /\ r \notin Queued /\ JustTaken' = JustTaken
      BY <1>2 DEF CountEntry, Queued, JustTaken
    <2>2. Cardinality(Queued') = Cardinality(Queued) + 1
      BY <2>1, CountedAreFinite, FS_AddElement
    <2>3. running /\ qlen' = qlen + 1
      BY <1>2 DEF CountEntry, CountedEntry
    <2> QED
      BY <2>1, <2>2, <2>3, CountedAreFinite DEF QLenIsExact
  <1>3. ASSUME NEW r \in Requests, NEW w \in Workers, HandOver(r, w) PROVE QLenIsExact'
    <2>1. Queued' = Queued \ {r} /\ r \in Queued
      BY <1>3 DEF HandOver, Queued
    <2>2. JustTaken' = JustTaken \cup {w} /\ w \notin JustTaken
      BY <1>3 DEF HandOver, JustTaken
    <2>3. Cardinality(Queued') = Cardinality(Queued) - 1
      BY <2>1, CountedAreFinite, FS_RemoveElement
    <2>4. Cardinality(JustTaken') = Cardinality(JustTaken) + 1
      BY <2>2, CountedAreFinite, FS_AddElement
    <2>5. running /\ qlen' = qlen
      BY <1>3 DEF HandOver
    <2> QED
      BY <2>3, <2>4, <2>5, CountedAreFinite DEF QLenIsExact
  <1>4. ASSUME NEW w \in Workers, CountExit(w) PROVE QLenIsExact'
    <2>1. JustTaken' = JustTaken \ {w} /\ w \in JustTaken /\ Queued' = Queued
      BY <1>4 DEF CountExit, JustTaken, Queued
    <2>2. Cardinality(JustTaken') = Cardinality(JustTaken) - 1
      BY <2>1, CountedAreFinite, FS_RemoveElement
    <2>3. running /\ qlen' = qlen - 1
      BY <1>4 DEF CountExit
    <2> QED
      BY <2>1, <2>2, <2>3, CountedAreFinite DEF QLenIsExact
  <1>5. ASSUME NEW w \in Workers,
               Spin(w) \/ GetRequestRate(w) \/ LoadQLenFinish(w) \/ MarkDone(w)
        PROVE  QLenIsExact'
    <2>1. running /\ qlen' = qlen /\ Queued' = Queued /\ JustTaken' = JustTaken
      BY <1>5 DEF Spin, GetRequestRate, LoadQLenFinish, MarkDone, Queued, JustTaken
    <2> QED
      BY <2>1, ExactKept
  <1>6. ASSUME NEW w \in Workers, HandBack(w) PROVE QLenIsExact'
    <2>1. job[w] \in Requests
      BY <1>6 DEF HandBack, BusyHaveJobs
    <2>2. running /\ qlen' = qlen /\ Queued' = Queued /\ JustTaken' = JustTaken
      BY <1>6, <2>1 DEF HandBack, TakesNextJob, Queued, JustTaken
    <2> QED
      BY <2>2, ExactKept
  <1>7. ASSUME NEW w \in Workers, SpinCrash(w) PROVE QLenIsExact'
    BY <1>7 DEF SpinCrash, QLenIsExact
  <1>8. CASE Restart
    <2>1. Queued' = {} /\ JustTaken' = {}
      BY <1>8 DEF Restart, NoneSurvives, Queued, JustTaken
    <2> QED
      BY <1>8, <2>1, FS_EmptySet DEF Restart, QLenIsExact
  <1>9. CASE UNCHANGED vars
    BY <1>9 DEF vars, QLenIsExact, Queued, JustTaken
  <1> QED
    BY <1>1, <1>2, <1>3, <1>4, <1>5, <1>6, <1>7, <1>8, <1>9 DEF Next, Handler, Worker

LEMMA AlwaysExact == Spec => []ExactInv
  <1>1. Init => ExactInv
    BY OwnerInit, ExactInit DEF ExactInv
  <1>2. ExactInv /\ [Next]_vars => ExactInv'
    BY OwnerStep, ExactStep DEF ExactInv
  <1> QED
    BY <1>1, <1>2, PTL DEF Spec

(* qlen counts exactly the requests between the Add(1) of their handler    *)
(* and the Add(-1) of their worker (lines 182, 191).                       *)
THEOREM QueueLengthIsExact == Spec => []QLenIsExact
  <1>1. ExactInv => QLenIsExact
    BY DEF ExactInv
  <1> QED
    BY <1>1, AlwaysExact, PTL

-----------------------------------------------------------------------------
(* Types.  qlen goes down as well as up: that it stays a natural number    *)
(* follows from what it counts.                                            *)

LEMMA TypeInit == Init => TypeOK
  BY DEF Init, TypeOK, HandlerStates, WorkerStates

LEMMA TypeStep == ExactInv /\ ExactInv' /\ TypeOK /\ [Next]_vars => TypeOK'
  <1> SUFFICES ASSUME ExactInv, ExactInv', TypeOK, [Next]_vars PROVE TypeOK'
    OBVIOUS
  <1>1. qlen' \in Nat
    <2>1. CASE running'
      <3>1. qlen' = Cardinality(Queued') + Cardinality(JustTaken')
        BY <2>1 DEF ExactInv, QLenIsExact
      <3>2. Cardinality(Queued') \in Nat /\ Cardinality(JustTaken') \in Nat
        BY SpinAssumption, FS_Subset, FS_CardinalityType DEF Queued, JustTaken
      <3> QED
        BY <3>1, <3>2
    <2>2. CASE ~running'
      <3>1. qlen' = qlen
        BY <2>2 DEF ExactInv, OwnerInv, LooseTypes, Next, Handler, Worker, vars, fields,
           HandlerGoes, WorkerGoes, Refuse, UpdateRequestRate, CountEntry, LoadQLenStart,
           HandOver, Reply, CountExit, Spin, SpinCrash, GetRequestRate, LoadQLenFinish,
           MarkDone, HandBack, Restart
      <3> QED
        BY <3>1 DEF TypeOK
    <2> QED
      BY <2>1, <2>2
  <1>2. qlenStart' \in [Requests -> Nat] /\ qlenFinish' \in [Requests -> Nat]
    BY DEF TypeOK, Next, Handler, Worker, vars, fields,
       HandlerGoes, WorkerGoes, Refuse, UpdateRequestRate, CountEntry, LoadQLenStart,
       HandOver, Reply, CountExit, Spin, SpinCrash, GetRequestRate, LoadQLenFinish,
       MarkDone, HandBack, Restart
  <1> QED
    BY <1>1, <1>2 DEF TypeOK, ExactInv, OwnerInv, LooseTypes

LEMMA AlwaysTyped == Spec => [](ExactInv /\ TypeOK)
  <1>1. Init => TypeOK
    BY TypeInit
  <1>2. (ExactInv /\ TypeOK) /\ ExactInv' /\ [Next]_vars => TypeOK'
    BY TypeStep
  <1> QED
    BY <1>1, <1>2, AlwaysExact, PTL DEF Spec

(* The types of the server's state; qlen never goes below zero, and no     *)
(* request remembers a negative queue length (lines 46-58, 175-191).       *)
THEOREM SpinSrvTypeCorrect == Spec => []TypeOK
  BY AlwaysTyped, PTL

-----------------------------------------------------------------------------
(* Replies *)

(* What has been filled in of a request, from where its handler and its    *)
(* worker are.                                                             *)
ArrivalCounted ==
    \A r \in Requests :
        hpc[r] \in {"sending", "waiting", "back", "replied"} => qlenStart[r] >= 1
WorkerFillsIn ==
    running => \A w \in Workers :
        /\ wpc[w] \in {"rated", "finishing", "handing"} => rps[job[w]]
        /\ wpc[w] = "handing" => isDone[job[w]]
FinishedIsFilledIn ==
    \A r \in Requests : hpc[r] \in {"back", "replied"} => isDone[r] /\ rps[r]

ReplyInv == ArrivalCounted /\ WorkerFillsIn /\ FinishedIsFilledIn

LEMMA ReplyInit == Init => ReplyInv
  BY DEF Init, ReplyInv, ArrivalCounted, WorkerFillsIn, FinishedIsFilledIn

LEMMA ReplyStep == ExactInv /\ TypeOK /\ ReplyInv /\ [Next]_vars => ReplyInv'
  <1> SUFFICES ASSUME ExactInv, TypeOK, ReplyInv, [Next]_vars PROVE ReplyInv'
    OBVIOUS
  <1> USE DEF ReplyInv, ArrivalCounted, WorkerFillsIn, FinishedIsFilledIn,
          TypeOK, HandlerStates, WorkerStates, HandlerGoes, WorkerGoes, fields
  <1>1. ASSUME NEW r \in Requests, LoadQLenStart(r) PROVE ReplyInv'
    <2>1. r \in Queued
      BY <1>1 DEF LoadQLenStart, Queued
    <2>2. Cardinality(Queued) # 0
      BY <2>1, CountedAreFinite, FS_EmptySet
    <2>3. qlen >= 1
      BY <1>1, <2>2, CountedAreFinite DEF LoadQLenStart, ExactInv, QLenIsExact
    <2> QED
      BY <1>1, <2>3 DEF LoadQLenStart
  <1>2. ASSUME NEW r \in Requests,
               Refuse(r) \/ UpdateRequestRate(r) \/ CountEntry(r) \/ Reply(r)
        PROVE  ReplyInv'
    BY <1>2 DEF Refuse, UpdateRequestRate, CountEntry, Reply
  <1>3. ASSUME NEW r \in Requests, NEW w \in Workers, HandOver(r, w) PROVE ReplyInv'
    BY <1>3 DEF HandOver
  <1>4. ASSUME NEW w \in Workers,
               CountExit(w) \/ Spin(w) \/ GetRequestRate(w) \/ LoadQLenFinish(w) \/ MarkDone(w)
        PROVE  ReplyInv'
    <2>1. job[w] \in Requests
      BY <1>4 DEF ExactInv, OwnerInv, BusyHaveJobs,
                  CountExit, Spin, GetRequestRate, LoadQLenFinish, MarkDone
    <2>2. CASE CountExit(w)
      BY <2>1, <2>2 DEF CountExit
    <2>3. CASE Spin(w)
      BY <2>1, <2>3 DEF Spin
    <2>4. CASE GetRequestRate(w)
      BY <2>1, <2>4 DEF GetRequestRate
    <2>5. CASE LoadQLenFinish(w)
      BY <2>1, <2>5 DEF LoadQLenFinish
    <2>6. CASE MarkDone(w)
      BY <2>1, <2>6 DEF MarkDone, FlagSet
    <2> QED
      BY <1>4, <2>2, <2>3, <2>4, <2>5, <2>6
  <1>5. ASSUME NEW w \in Workers, HandBack(w) PROVE ReplyInv'
    <2>1. job[w] \in Requests
      BY <1>5 DEF ExactInv, OwnerInv, BusyHaveJobs, HandBack
    <2> QED
      BY <1>5, <2>1 DEF ExactInv, OwnerInv, OneOwner, HandBack, TakesNextJob, JobDropped
  <1>6. ASSUME NEW w \in Workers, SpinCrash(w) PROVE ReplyInv'
    BY <1>6 DEF SpinCrash
  <1>7. CASE Restart
    BY <1>7 DEF Restart
  <1>8. CASE UNCHANGED vars
    BY <1>8 DEF vars
  <1> QED
    BY <1>1, <1>2, <1>3, <1>4, <1>5, <1>6, <1>7, <1>8 DEF Next, Handler, Worker

(* A reply is printed from a finished request, with its rate and with the  *)
(* queue length its own arrival counted (lines 47-58, 175-177).            *)
THEOREM RepliesComplete == Spec => []RepliesAreComplete
  <1>1. ReplyInv => RepliesAreComplete
    BY DEF ReplyInv, ArrivalCounted, FinishedIsFilledIn, RepliesAreComplete
  <1>2. Spec => []ReplyInv
    BY ReplyInit, ReplyStep, AlwaysTyped, PTL DEF Spec
  <1> QED
    BY <1>1, <1>2, PTL

-----------------------------------------------------------------------------
(* What SpinService promises *)

(* Workers without a slot stay idle, and with a single slot nothing gets   *)
(* past its spin.                                                          *)
SlotInv ==
    /\ slots # {}
    /\ running => \A w \in Workers : wpc[w] # "idle" => w \in slots
    /\ nslots = 1 =>
          /\ running => \A w \in Workers : wpc[w] \in {"idle", "got", "spinning"}
          /\ \A r \in Requests : hpc[r] \notin {"back", "replied"}

LEMMA SlotInit == Init => SlotInv
  BY DEF Init, SlotInv

LEMMA SlotStep == OwnerInv /\ SlotInv /\ [Next]_vars => SlotInv'
  <1> SUFFICES ASSUME OwnerInv, SlotInv, [Next]_vars PROVE SlotInv'
    OBVIOUS
  <1> USE DEF SlotInv, OwnerInv, LooseTypes, WorkerStates, HandlerGoes, WorkerGoes, nslots, fields
  <1>1. slots' = slots
    BY DEF Next, Handler, Worker, Refuse, UpdateRequestRate, CountEntry, LoadQLenStart, HandOver,
           Reply, CountExit, Spin, SpinCrash, GetRequestRate, LoadQLenFinish, MarkDone, HandBack,
           Restart, vars
  <1>2. ASSUME NEW r \in Requests,
               Refuse(r) \/ UpdateRequestRate(r) \/ CountEntry(r) \/ LoadQLenStart(r) \/ Reply(r)
        PROVE  SlotInv'
    BY <1>1, <1>2 DEF Refuse, UpdateRequestRate, CountEntry, LoadQLenStart, Reply
  <1>3. ASSUME NEW r \in Requests, NEW w \in Workers, HandOver(r, w) PROVE SlotInv'
    BY <1>1, <1>3 DEF HandOver
  <1>4. ASSUME NEW w \in Workers,
               CountExit(w) \/ Spin(w) \/ GetRequestRate(w) \/ LoadQLenFinish(w) \/ MarkDone(w)
        PROVE  SlotInv'
    BY <1>1, <1>4 DEF CountExit, Spin, SpinPanics, GetRequestRate, LoadQLenFinish, MarkDone
  <1>5. ASSUME NEW w \in Workers, HandBack(w) PROVE SlotInv'
    <2>1. nslots # 1
      BY <1>5 DEF HandBack
    <2> QED
      BY <1>1, <1>5, <2>1 DEF HandBack, TakesNextJob
  <1>6. ASSUME NEW w \in Workers, SpinCrash(w) PROVE SlotInv'
    BY <1>1, <1>6 DEF SpinCrash
  <1>7. CASE Restart
    BY <1>1, <1>7 DEF Restart
  <1>8. CASE UNCHANGED vars
    BY <1>8 DEF vars
  <1> QED
    BY <1>2, <1>3, <1>4, <1>5, <1>6, <1>7, <1>8 DEF Next, Handler, Worker

(* The state of SpinService, as SpinSrv maps it. *)
New == {r \in Requests : hpc[r] \in {"new", "rated"}}
Waiting == Queued \cup {job[w] : w \in JustTaken}
Answered == {r \in Requests : hpc[r] \in {"back", "replied"}}
Spinners == {w \in Workers : running /\ wpc[w] \notin {"idle", "got"}}

LEMMA SlotsAreFinite ==
    ASSUME OwnerInv, SlotInv
    PROVE  IsFiniteSet(slots) /\ nslots \in Nat \ {0}
  BY SpinAssumption, FS_Subset, FS_CardinalityType, FS_EmptySet
  DEF OwnerInv, LooseTypes, SlotInv, nslots

(* A worker that is about to spin has a slot that nobody spins on. *)
LEMMA OneSlotFree ==
    ASSUME OwnerInv, SlotInv, running, NEW w \in Workers, wpc[w] = "got"
    PROVE  IsFiniteSet(SpinningNow) /\ Cardinality(SpinningNow) < nslots
  <1> DEFINE f == [v \in Spinners |-> job[v]]
  <1>1. f \in Surjection(Spinners, SpinningNow)
    BY DEF Spinners, SpinningNow, Surjection
  <1>2. Spinners \subseteq slots \ {w} /\ w \in slots
    BY DEF Spinners, SlotInv
  <1>3. IsFiniteSet(slots \ {w}) /\ Cardinality(slots \ {w}) = nslots - 1
    BY <1>2, SlotsAreFinite, FS_RemoveElement DEF nslots
  <1>4. IsFiniteSet(Spinners) /\ Cardinality(Spinners) <= nslots - 1
    BY <1>2, <1>3, FS_Subset
  <1> HIDE DEF f
  <1>5. IsFiniteSet(SpinningNow) /\ Cardinality(SpinningNow) <= Cardinality(Spinners)
    BY <1>1, <1>4, FS_Surjection
  <1> QED
    BY <1>4, <1>5, SlotsAreFinite, FS_CardinalityType

ServiceInv == OwnerInv /\ SlotInv

LEMMA SameCardinality == ASSUME NEW S PROVE Service!Cardinality(S) = Cardinality(S)
  BY DEF Service!Cardinality, Cardinality

LEMMA ServiceInit == Init => Service!Init
  <1> SUFFICES ASSUME Init PROVE Service!Init
    OBVIOUS
  <1>1. nslots \in Nat \ {0}
    BY OwnerInit, SlotInit, SlotsAreFinite
  <1>2. Queued = {} /\ JustTaken = {} /\ SpinningNow = {}
    BY DEF Init, Queued, JustTaken, SpinningNow
  <1> QED
    BY <1>1, <1>2 DEF Init, Service!Init

(* Steps that SpinService does not see. *)
LEMMA Unseen ==
    ASSUME nslots' = nslots, New' = New, Waiting' = Waiting, SpinningNow' = SpinningNow,
           Answered' = Answered
    PROVE  [Service!Next]_(Service!svars)
  BY DEF New, Waiting, Answered, Service!svars

LEMMA ServiceStep == ServiceInv /\ [Next]_vars => [Service!Next]_(Service!svars)
  <1> SUFFICES ASSUME ServiceInv, [Next]_vars PROVE [Service!Next]_(Service!svars)
    OBVIOUS
  <1> USE DEF ServiceInv, OwnerInv, LooseTypes, BusyHaveJobs, OneOwner, HandlerGoes, WorkerGoes,
          fields, nslots
  <1>1. ASSUME NEW r \in Requests, Refuse(r) PROVE Service!Refuse(r)
    <2>1. r \in New /\ New' = New \ {r} /\ Waiting' = Waiting /\ Answered' = Answered
      BY <1>1 DEF Refuse, New, Waiting, Answered, Queued, JustTaken
    <2>2. nslots' = nslots /\ SpinningNow' = SpinningNow
      BY <1>1 DEF Refuse, SpinningNow
    <2> QED
      BY <2>1, <2>2 DEF Service!Refuse, New, Waiting, Answered
  <1>2. ASSUME NEW r \in Requests, CountEntry(r) PROVE Service!Accept(r)
    <2>1. r \in New /\ New' = New \ {r} /\ Waiting' = Waiting \cup {r} /\ Answered' = Answered
      BY <1>2 DEF CountEntry, New, Waiting, Answered, Queued, JustTaken
    <2>2. nslots' = nslots /\ SpinningNow' = SpinningNow
      BY <1>2 DEF CountEntry, SpinningNow
    <2> QED
      BY <2>1, <2>2 DEF Service!Accept, New, Waiting, Answered
  <1>3. ASSUME NEW r \in Requests, UpdateRequestRate(r) \/ LoadQLenStart(r) \/ Reply(r)
        PROVE  [Service!Next]_(Service!svars)
    <2>1. nslots' = nslots /\ SpinningNow' = SpinningNow
      BY <1>3 DEF UpdateRequestRate, LoadQLenStart, Reply, SpinningNow
    <2>2. New' = New /\ Answered' = Answered
      BY <1>3 DEF UpdateRequestRate, LoadQLenStart, Reply, New, Answered
    <2>3. Waiting' = Waiting
      BY <1>3 DEF UpdateRequestRate, LoadQLenStart, Reply, Waiting, Queued, JustTaken
    <2> QED
      BY <2>1, <2>2, <2>3, Unseen
  <1>4. ASSUME NEW r \in Requests, NEW w \in Workers, HandOver(r, w)
        PROVE  [Service!Next]_(Service!svars)
    <2>1. nslots' = nslots /\ SpinningNow' = SpinningNow
      BY <1>4 DEF HandOver, SpinningNow
    <2>2. New' = New /\ Answered' = Answered
      BY <1>4 DEF HandOver, New, Answered
    <2>3. Queued' = Queued \ {r} /\ r \in Queued /\ JustTaken' = JustTaken \cup {w} /\ w \notin JustTaken
      BY <1>4 DEF HandOver, Queued, JustTaken
    <2>4. job'[w] = r /\ \A v \in JustTaken : job'[v] = job[v]
      BY <1>4, <2>3 DEF HandOver, JustTaken
    <2>5. Waiting' = Waiting
      BY <2>3, <2>4 DEF Waiting
    <2> QED
      BY <2>1, <2>2, <2>5, Unseen
  <1>5. ASSUME NEW w \in Workers, CountExit(w) PROVE Service!Next
    <2>1. job[w] \in Requests /\ running /\ wpc[w] = "got" /\ job' = job
      BY <1>5 DEF CountExit
    <2>2. Cardinality(SpinningNow) < nslots
      BY <2>1, OneSlotFree
    <2>3. nslots' = nslots /\ New' = New /\ Answered' = Answered
      BY <1>5 DEF CountExit, New, Answered
    <2>4. SpinningNow' = SpinningNow \cup {job[w]}
      BY <1>5 DEF CountExit, SpinningNow
    <2>5. Queued' = Queued /\ job[w] \notin Queued /\ JustTaken' = JustTaken \ {w} /\ w \in JustTaken
      BY <1>5, <2>1 DEF CountExit, Queued, JustTaken
    <2>6. \A v \in JustTaken \ {w} : job[v] # job[w]
      BY <2>1 DEF JustTaken
    <2>7. job[w] \in Waiting /\ Waiting' = Waiting \ {job[w]}
      BY <2>1, <2>5, <2>6 DEF Waiting
    <2>8. Service!Start(job[w])
      BY <2>2, <2>3, <2>4, <2>7, SameCardinality DEF Service!Start, New, Waiting, Answered
    <2> QED
      BY <2>1, <2>8 DEF Service!Next, Service!Start
  <1>6. ASSUME NEW w \in Workers,
               Spin(w) \/ GetRequestRate(w) \/ LoadQLenFinish(w) \/ MarkDone(w)
        PROVE  [Service!Next]_(Service!svars)
    <2>1. nslots' = nslots /\ UNCHANGED <<running, hpc, job>>
      BY <1>6 DEF Spin, GetRequestRate, LoadQLenFinish, MarkDone
    <2>2. /\ wpc[w] \notin {"idle", "got"} /\ wpc'[w] \notin {"idle", "got"}
          /\ \A v \in Workers : v # w => wpc'[v] = wpc[v]
      BY <1>6 DEF Spin, GetRequestRate, LoadQLenFinish, MarkDone
    <2>3. SpinningNow' = SpinningNow /\ JustTaken' = JustTaken
      BY <2>1, <2>2 DEF SpinningNow, JustTaken
    <2> QED
      BY <2>1, <2>3, Unseen DEF New, Waiting, Answered, Queued
  <1>7. ASSUME NEW w \in Workers, SpinCrash(w) PROVE Service!Lose
    <2>1. nslots = 1 /\ nslots' = nslots /\ running' = FALSE
      BY <1>7 DEF SpinCrash, SpinPanics
    <2>2. New' \subseteq New /\ Queued' = {} /\ JustTaken' = {} /\ SpinningNow' = {}
      BY <1>7, <2>1 DEF SpinCrash, New, Queued, JustTaken, SpinningNow
    <2>3. job[w] \in SpinningNow
      BY <1>7 DEF SpinCrash, SpinningNow
    <2>4. Answered' = Answered
      BY <1>7, <2>1 DEF SpinCrash, Answered, SlotInv
    <2> QED
      BY <2>1, <2>2, <2>3, <2>4 DEF Service!Lose, New, Waiting, Answered
  <1>8. ASSUME NEW w \in Workers, HandBack(w) PROVE Service!Next
    <2>1. /\ job[w] \in Requests /\ running /\ wpc[w] = "handing" /\ hpc[job[w]] = "waiting"
          /\ hpc' = [hpc EXCEPT ![job[w]] = "back"]
          /\ wpc' = [wpc EXCEPT ![w] = "idle"]
          /\ job' = [job EXCEPT ![w] = Nobody]
          /\ running' = running
      BY <1>8 DEF HandBack, TakesNextJob, JobDropped
    <2>2. nslots' = nslots /\ nslots > 1
      BY <1>8, <2>1, SlotsAreFinite DEF HandBack, SlotInv
    <2>3. New' = New /\ Answered' = Answered \cup {job[w]}
      BY <2>1 DEF New, Answered
    <2>4. Queued' = Queued /\ JustTaken' = JustTaken /\ w \notin JustTaken
      BY <2>1 DEF Queued, JustTaken
    <2>5. Waiting' = Waiting
      BY <2>1, <2>4 DEF Waiting, JustTaken
    <2>6. Spinners' = Spinners \ {w} /\ w \in Spinners
      BY <2>1 DEF Spinners
    <2>7. \A v \in Spinners \ {w} : job'[v] = job[v] /\ job[v] # job[w]
      BY <2>1 DEF Spinners
    <2>8. job[w] \in SpinningNow /\ SpinningNow' = SpinningNow \ {job[w]}
      BY <2>6, <2>7 DEF SpinningNow, Spinners
    <2>9. Service!Answer(job[w])
      BY <2>2, <2>3, <2>5, <2>8 DEF Service!Answer, New, Waiting, Answered
    <2> QED
      BY <2>1, <2>9 DEF Service!Next, Service!Answer
  <1>9. CASE Restart
    <2>1. nslots' = nslots /\ New' = New /\ Answered' = Answered
      BY <1>9 DEF Restart, New, Answered
    <2>2. Queued = {} /\ JustTaken = {} /\ SpinningNow = {}
      BY <1>9 DEF Restart, NoneSurvives, Queued, JustTaken, SpinningNow
    <2>3. Queued' = {} /\ JustTaken' = {} /\ SpinningNow' = {}
      BY <1>9, <2>2 DEF Restart, Queued, JustTaken, SpinningNow
    <2> QED
      BY <2>1, <2>2, <2>3, Unseen DEF Waiting
  <1>10. CASE UNCHANGED vars
    BY <1>10, Unseen DEF vars, New, Waiting, Answered, Queued, JustTaken, SpinningNow
  <1>11. ASSUME NEW r \in Requests,
                Service!Accept(r) \/ Service!Refuse(r)
         PROVE  Service!Next
    BY <1>11 DEF Service!Next
  <1>12. Service!Lose => Service!Next
    BY DEF Service!Next
  <1>13. ASSUME NEW r \in Requests, Handler(r) \/ Refuse(r) PROVE [Service!Next]_(Service!svars)
    <2>1. CASE \E w \in Workers : HandOver(r, w)
      BY <1>4, <2>1
    <2>2. CASE Refuse(r) \/ CountEntry(r)
      BY <1>1, <1>2, <1>11, <2>2
    <2>3. CASE UpdateRequestRate(r) \/ LoadQLenStart(r) \/ Reply(r)
      BY <1>3, <2>3
    <2> QED
      BY <1>13, <2>1, <2>2, <2>3 DEF Handler
  <1>14. ASSUME NEW w \in Workers, Worker(w) PROVE [Service!Next]_(Service!svars)
    <2>1. CASE CountExit(w) \/ HandBack(w)
      BY <1>5, <1>8, <2>1
    <2>2. CASE SpinCrash(w)
      BY <1>7, <1>12, <2>2
    <2>3. CASE Spin(w) \/ GetRequestRate(w) \/ LoadQLenFinish(w) \/ MarkDone(w)
      BY <1>6, <2>3
    <2> QED
      BY <1>14, <2>1, <2>2, <2>3 DEF Worker
  <1> QED
    BY <1>9, <1>10, <1>13, <1>14 DEF Next

(* The safety part of ServiceSpec: every step of handlers and workers is a *)
(* step of SpinService or one it does not see, so that at most one request *)
(* spins on each slot, each spins once, and each is answered after its     *)
(* spin (lines 65-104, 160-210).                                           *)
THEOREM ServiceImplemented == Spec => Service!Init /\ [][Service!Next]_(Service!svars)
  <1>1. Spec => [](ServiceInv)
    BY OwnerInit, OwnerStep, SlotInit, SlotStep, PTL DEF Spec, ServiceInv
  <1> QED
    BY <1>1, ServiceInit, ServiceStep, PTL DEF Spec
-----------------------------------------------------------------------------
(* The request-rate estimator.                                             *)

HTypeOK ==
    /\ RateTypeOK
    /\ arrivals \in [Periods -> Nat]
    /\ latest \in Periods
    /\ prompt \in BOOLEAN /\ dense \in BOOLEAN
    /\ actual \in [Callers -> Nat]

(* Buckets alternate. *)
LEMMA BucketType ==
    ASSUME NEW t \in Nat
    PROVE  Bucket(t) \in 0..1 /\ OtherBucket(Bucket(t)) \in 0..1
           /\ OtherBucket(Bucket(t)) # Bucket(t)
  BY DEF Bucket, OtherBucket

LEMMA BucketsAlternate ==
    ASSUME NEW t \in Nat
    PROVE  Bucket(t + 1) = OtherBucket(Bucket(t)) /\ OtherBucket(Bucket(t + 1)) = Bucket(t)
  BY DEF Bucket, OtherBucket

LEMMA ClearedType ==
    ASSUME RateTypeOK, NEW b \in 0..1
    PROVE  /\ Cleared(b) \in [0..1 -> Nat]
           /\ Cleared(b)[b] = IF reqCntIdx # b THEN 0 ELSE reqCnts[b]
           /\ Cleared(b)[OtherBucket(b)] = reqCnts[OtherBucket(b)]
  BY DEF RateTypeOK, Cleared, OtherBucket

(* The estimator and its history keep their types (lines 60-68, 120-152). *)
THEOREM EstimatorTypeCorrect == HSpec => []HTypeOK
  <1>1. HInit => HTypeOK
    BY PeriodAssumption DEF HInit, InitRate, HTypeOK, RateTypeOK, Periods, NotSampled
  <1>2. HTypeOK /\ [HNext]_hvars => HTypeOK'
    <2> SUFFICES ASSUME HTypeOK, [HNext]_hvars PROVE HTypeOK'
      OBVIOUS
    <2> USE DEF HTypeOK, RateTypeOK, hist
    <2>1. CASE HTick
      BY <2>1, PeriodAssumption DEF HTick, Tick, Periods
    <2>2. ASSUME NEW c \in Callers, HSample(c) PROVE HTypeOK'
      BY <2>2 DEF HSample, Sample
    <2>3. ASSUME NEW c \in Callers, HUpdate(c) PROVE HTypeOK'
      <3>1. sampled[c] \in Periods /\ sampled[c] \in Nat
        BY <2>3 DEF HUpdate, Update, Periods
      <3>2. Bucket(sampled[c]) \in 0..1
        BY <3>1, BucketType
      <3>3. reqCnts' \in [0..1 -> Nat] /\ reqCntIdx' \in 0..1
        BY <2>3, <3>2, ClearedType DEF HUpdate, Update
      <3>4. arrivals' \in [Periods -> Nat]
        BY <2>3, <3>1 DEF HUpdate
      <3>5. latest' \in Periods /\ prompt' \in BOOLEAN /\ dense' \in BOOLEAN
        BY <2>3, <3>1 DEF HUpdate, Locked
      <3> QED
        BY <2>3, <3>3, <3>4, <3>5 DEF HUpdate, Update
    <2>4. ASSUME NEW c \in Callers, HGetRate(c) PROVE HTypeOK'
      <3>1. sampled[c] \in Periods /\ sampled[c] \in Nat
        BY <2>4 DEF HGetRate, GetRate, Periods
      <3>2. Bucket(sampled[c]) \in 0..1 /\ OtherBucket(Bucket(sampled[c])) \in 0..1
        BY <3>1, BucketType
      <3>3. reqCnts' \in [0..1 -> Nat] /\ reqCntIdx' \in 0..1
        BY <2>4, <3>2, ClearedType DEF HGetRate, GetRate
      <3>4. PreviousBucket(Bucket(sampled[c])) \in Nat
        BY <3>2, ClearedType DEF PreviousBucket
      <3>5. latest' \in Periods /\ prompt' \in BOOLEAN /\ dense' \in BOOLEAN
        BY <2>4, <3>1 DEF HGetRate, Locked
      <3>6. ArrivalsBefore(sampled[c]) \in Nat
        <4>1. sampled[c] # 0 => sampled[c] - 1 \in Periods
          BY <3>1, PeriodAssumption DEF Periods
        <4> QED
          BY <4>1 DEF ArrivalsBefore
      <3>7. actual' \in [Callers -> Nat]
        BY <2>4, <3>6 DEF HGetRate
      <3> QED
        BY <2>4, <3>3, <3>4, <3>5, <3>7 DEF HGetRate, GetRate
    <2>5. CASE UNCHANGED hvars
      BY <2>5 DEF hvars, rateVars
    <2> QED
      BY <2>1, <2>2, <2>3, <2>4, <2>5 DEF HNext
  <1> QED
    BY <1>1, <1>2, PTL DEF HSpec
-----------------------------------------------------------------------------
(* The invariant behind BucketsAreExact: while calls are prompt nobody has *)
(* used a period later than the last, so no arrival lies in the future;    *)
(* and the index in use is that of the last call's period, unless nothing  *)
(* has been counted yet.                                                   *)
BucketInv ==
    /\ \A c \in Callers : sampled[c] <= period
    /\ prompt => /\ latest <= period
                 /\ \A t \in Periods : t > latest => arrivals[t] = 0
    /\ prompt /\ dense =>
         /\ reqCntIdx = Bucket(latest) \/ reqCnts = [b \in 0..1 |-> 0]
         /\ BucketsAreExact

(* A prompt call of the last call's period or of the next one finds, after *)
(* maybeClearRequestRateL, its own period in its bucket and the period     *)
(* before in the other.                                                    *)
LEMMA ClearedIsExact ==
    ASSUME HTypeOK, BucketInv, NEW t \in Periods, prompt, dense, t \in {latest, latest + 1}
    PROVE  /\ Cleared(Bucket(t))[Bucket(t)] = arrivals[t]
           /\ Cleared(Bucket(t))[OtherBucket(Bucket(t))] = ArrivalsBefore(t)
  <1> DEFINE b == Bucket(t)
  <1>0. t \in Nat /\ latest \in Nat /\ b \in 0..1
        /\ OtherBucket(b) \in 0..1 /\ OtherBucket(b) # b
    BY BucketType DEF Periods, HTypeOK
  <1>1. /\ Cleared(b)[b] = IF reqCntIdx # b THEN 0 ELSE reqCnts[b]
        /\ Cleared(b)[OtherBucket(b)] = reqCnts[OtherBucket(b)]
    BY <1>0, ClearedType DEF HTypeOK
  <1>2. /\ reqCnts[Bucket(latest)] = arrivals[latest]
        /\ reqCnts[OtherBucket(Bucket(latest))] = ArrivalsBefore(latest)
        /\ reqCntIdx = Bucket(latest) \/ reqCnts = [x \in 0..1 |-> 0]
    BY DEF BucketInv, BucketsAreExact
  <1>3. CASE t = latest
    <2>1. reqCntIdx # b => reqCnts[b] = 0
      BY <1>0, <1>2, <1>3
    <2> QED
      BY <1>1, <1>2, <1>3, <2>1
  <1>4. CASE t = latest + 1
    <2>1. b = OtherBucket(Bucket(latest)) /\ OtherBucket(b) = Bucket(latest)
      BY <1>0, <1>4, BucketsAlternate
    <2>2. arrivals[t] = 0
      BY <1>0, <1>4 DEF BucketInv
    <2>3. ArrivalsBefore(t) = arrivals[latest]
      BY <1>0, <1>4 DEF ArrivalsBefore
    <2>4. reqCntIdx = b => reqCnts[b] = 0
      BY <1>0, <1>2, <2>1
    <2> QED
      BY <1>1, <1>2, <2>1, <2>2, <2>3, <2>4
  <1> QED
    BY <1>3, <1>4

(* A call in time is of the last call's period or of the next one. *)
LEMMA InTime ==
    ASSUME HTypeOK, BucketInv, NEW c \in Callers, sampled[c] # NotSampled, Locked(c),
           prompt', dense'
    PROVE  /\ prompt /\ dense /\ sampled[c] = period /\ latest' = sampled[c]
           /\ sampled[c] \in Periods /\ sampled[c] \in {latest, latest + 1}
  <1>1. sampled[c] \in Periods /\ sampled[c] \in Nat /\ latest \in Nat
    BY DEF HTypeOK, RateTypeOK, Periods
  <1>2. prompt /\ dense /\ sampled[c] = period /\ latest' = sampled[c]
        /\ sampled[c] <= latest + 1
    BY DEF Locked
  <1>3. latest <= period
    BY <1>2 DEF BucketInv
  <1> QED
    BY <1>1, <1>2, <1>3

LEMMA BucketInit == HInit => BucketInv
  <1> SUFFICES ASSUME HInit PROVE BucketInv
    OBVIOUS
  <1>1. period \in Nat /\ period \in Periods /\ latest = period /\ period < 2
    BY DEF HInit, InitRate, Periods
  <1>2. Bucket(latest) \in 0..1 /\ OtherBucket(Bucket(latest)) \in 0..1
    BY <1>1, BucketType
  <1>3. latest # 0 => latest - 1 \in Periods
    BY <1>1, PeriodAssumption DEF Periods
  <1>4. ArrivalsBefore(latest) = 0 /\ arrivals[latest] = 0
    BY <1>1, <1>3 DEF HInit, ArrivalsBefore
  <1>5. BucketsAreExact
    BY <1>2, <1>4 DEF HInit, InitRate, BucketsAreExact
  <1> QED
    BY <1>1, <1>5 DEF HInit, InitRate, BucketInv, NotSampled

LEMMA BucketStep == HTypeOK /\ BucketInv /\ [HNext]_hvars => BucketInv'
  <1> SUFFICES ASSUME HTypeOK, BucketInv, [HNext]_hvars PROVE BucketInv'
    OBVIOUS
  <1> USE DEF hist
  <1>1. CASE HTick \/ UNCHANGED hvars
    <2>1. UNCHANGED <<reqCntIdx, reqCnts, sampled, arrivals, latest, prompt, dense>>
          /\ period' \in {period, period + 1}
      BY <1>1 DEF HTick, Tick, hvars, rateVars
    <2>2. period \in Nat /\ latest \in Nat
          /\ \A c \in Callers : sampled[c] \in Int
      BY DEF HTypeOK, RateTypeOK, Periods, NotSampled
    <2> QED
      BY <2>1, <2>2 DEF BucketInv, BucketsAreExact, ArrivalsBefore
  <1>2. ASSUME NEW c \in Callers, HSample(c) PROVE BucketInv'
    <2>1. \A d \in Callers : sampled'[d] \in {sampled[d], period}
      BY <1>2 DEF HSample, Sample, HTypeOK, RateTypeOK
    <2>2. period \in Nat
      BY DEF HTypeOK, RateTypeOK, Periods
    <2>3. UNCHANGED <<period, reqCntIdx, reqCnts, arrivals, latest, prompt, dense>>
      BY <1>2 DEF HSample, Sample
    <2> QED
      BY <2>1, <2>2, <2>3 DEF BucketInv, BucketsAreExact, ArrivalsBefore
  <1>3. ASSUME NEW c \in Callers, HUpdate(c) PROVE BucketInv'
    <2> DEFINE t == sampled[c]
               b == Bucket(t)
    <2>0. t \in Periods /\ t \in Nat /\ period \in Nat /\ latest \in Nat /\ t # NotSampled
          /\ Locked(c) /\ period' = period /\ t <= period
      BY <1>3 DEF HUpdate, Update, HTypeOK, RateTypeOK, Periods, BucketInv
    <2>1. b \in 0..1 /\ OtherBucket(b) \in 0..1 /\ OtherBucket(b) # b
      BY <2>0, BucketType
    <2>2. /\ reqCntIdx' = b
          /\ reqCnts' = [Cleared(b) EXCEPT ![b] = @ + 1]
          /\ sampled' = [sampled EXCEPT ![c] = NotSampled]
          /\ arrivals' = [arrivals EXCEPT ![t] = @ + 1]
      BY <1>3 DEF HUpdate, Update
    <2>3. Cleared(b) \in [0..1 -> Nat]
      BY <2>1, ClearedType DEF HTypeOK
    <2>4. \A d \in Callers : sampled'[d] <= period'
      BY <2>0, <2>2 DEF HTypeOK, RateTypeOK, BucketInv, NotSampled
    <2>5. ASSUME prompt'
          PROVE  latest' <= period' /\ \A x \in Periods : x > latest' => arrivals'[x] = 0
      <3>1. prompt /\ latest' = t /\ t = period
        BY <2>0, <2>5 DEF Locked
      <3>2. latest <= t /\ \A x \in Periods : x > latest => arrivals[x] = 0
        BY <3>1 DEF BucketInv
      <3>3. \A x \in Periods : x > t => arrivals'[x] = arrivals[x] /\ x \in Nat
        BY <2>0, <2>2 DEF HTypeOK, Periods
      <3> QED
        BY <2>0, <3>1, <3>2, <3>3
    <2>6. ASSUME prompt', dense' PROVE BucketsAreExact' /\ reqCntIdx' = Bucket(latest')
      <3>1. prompt /\ dense /\ latest' = t /\ t \in {latest, latest + 1}
        BY <2>0, <2>6, InTime
      <3>2. Cleared(b)[b] = arrivals[t] /\ Cleared(b)[OtherBucket(b)] = ArrivalsBefore(t)
        BY <2>0, <3>1, ClearedIsExact
      <3>3. reqCnts'[b] = arrivals'[t]
        BY <2>0, <2>1, <2>2, <2>3, <3>2 DEF HTypeOK
      <3>4. reqCnts'[OtherBucket(b)] = ArrivalsBefore(t)
        BY <2>1, <2>2, <2>3, <3>2
      <3>5. t # 0 => t - 1 \in Periods /\ t - 1 # t
        BY <2>0, PeriodAssumption DEF Periods
      <3>6. (IF t = 0 THEN 0 ELSE arrivals'[t - 1]) = ArrivalsBefore(t)
        BY <2>0, <2>2, <3>5 DEF ArrivalsBefore, HTypeOK
      <3> HIDE DEF t
      <3>7. reqCntIdx' = Bucket(latest')
        BY <2>2, <3>1
      <3>8. reqCnts'[Bucket(latest')] = arrivals'[latest']
        BY <3>1, <3>3
      <3>9. reqCnts'[OtherBucket(Bucket(latest'))]
            = (IF latest' = 0 THEN 0 ELSE arrivals'[latest' - 1])
        BY <3>1, <3>4, <3>6
      <3> QED
        BY <3>7, <3>8, <3>9 DEF BucketsAreExact, ArrivalsBefore
    <2> QED
      BY <2>4, <2>5, <2>6 DEF BucketInv
  <1>4. ASSUME NEW c \in Callers, HGetRate(c) PROVE BucketInv'
    <2> DEFINE t == sampled[c]
               b == Bucket(t)
    <2>0. t \in Periods /\ t \in Nat /\ period \in Nat /\ latest \in Nat /\ t # NotSampled
          /\ Locked(c) /\ period' = period /\ arrivals' = arrivals
      BY <1>4 DEF HGetRate, GetRate, HTypeOK, RateTypeOK, Periods
    <2>2. /\ reqCntIdx' = b
          /\ reqCnts' = Cleared(b)
          /\ sampled' = [sampled EXCEPT ![c] = NotSampled]
      BY <1>4 DEF HGetRate, GetRate
    <2>4. \A d \in Callers : sampled'[d] <= period'
      BY <2>0, <2>2 DEF HTypeOK, RateTypeOK, BucketInv, NotSampled
    <2>5. ASSUME prompt'
          PROVE  latest' <= period' /\ \A x \in Periods : x > latest' => arrivals'[x] = 0
      <3>1. prompt /\ latest' = t /\ t = period
        BY <2>0, <2>5 DEF Locked
      <3>2. latest <= t /\ \A x \in Periods : x > latest => arrivals[x] = 0
        BY <3>1 DEF BucketInv
      <3>3. \A x \in Periods : x \in Nat
        BY DEF Periods
      <3> QED
        BY <2>0, <3>1, <3>2, <3>3
    <2>6. ASSUME prompt', dense' PROVE BucketsAreExact' /\ reqCntIdx' = Bucket(latest')
      <3>1. prompt /\ dense /\ latest' = t /\ t \in {latest, latest + 1}
        BY <2>0, <2>6, InTime
      <3>2. Cleared(b)[b] = arrivals[t] /\ Cleared(b)[OtherBucket(b)] = ArrivalsBefore(t)
        BY <2>0, <3>1, ClearedIsExact
      <3> QED
        BY <2>0, <2>2, <3>1, <3>2 DEF BucketsAreExact, ArrivalsBefore
    <2> QED
      BY <2>4, <2>5, <2>6 DEF BucketInv
  <1> QED
    BY <1>1, <1>2, <1>3, <1>4 DEF HNext

(* While the estimator is called in every period and without delay, its    *)
(* two buckets hold the requests of the current and of the previous period *)
(* (lines 120-152), for any number of goroutines and any length of time.   *)
THEOREM BucketsExact == HSpec => []BucketsAreExact
  <1>1. HTypeOK /\ BucketInv => BucketsAreExact
    BY DEF BucketInv, BucketsAreExact
  <1> QED
    BY <1>1, EstimatorTypeCorrect, BucketInit, BucketStep, PTL DEF HSpec

(* And then getRequestRate returns the requests of the previous period. *)
THEOREM GetsExact == HSpec => RegularGetsAreExact
  <1> DEFINE Exact == \A c \in Callers :
                         prompt' /\ dense' /\ HGetRate(c) => rate'[c] = actual'[c]
  <1>1. HTypeOK /\ HTypeOK' /\ BucketInv /\ [HNext]_hvars => [Exact]_hvars
    <2> SUFFICES ASSUME HTypeOK, HTypeOK', BucketInv, NEW c \in Callers,
                        prompt', dense', HGetRate(c)
                 PROVE  rate'[c] = actual'[c]
      OBVIOUS
    <2>1. Locked(c) /\ sampled[c] # NotSampled
          /\ actual' = [actual EXCEPT ![c] = ArrivalsBefore(sampled[c])]
          /\ rate' = [rate EXCEPT ![c] = PreviousBucket(Bucket(sampled[c]))]
      BY DEF HGetRate, GetRate
    <2>2. prompt /\ dense /\ sampled[c] \in Periods /\ sampled[c] \in {latest, latest + 1}
      BY <2>1, InTime
    <2>3. PreviousBucket(Bucket(sampled[c])) = ArrivalsBefore(sampled[c])
      BY <2>2, ClearedIsExact DEF PreviousBucket
    <2> QED
      BY <2>1, <2>3 DEF HTypeOK, RateTypeOK
  <1> QED
    BY <1>1, EstimatorTypeCorrect, BucketInit, BucketStep, PTL DEF HSpec, RegularGetsAreExact
=============================================================================
