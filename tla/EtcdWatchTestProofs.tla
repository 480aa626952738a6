------------------------ MODULE EtcdWatchTestProofs -------------------------
(***************************************************************************)
(* The load tests of etcd, for any numbers of requests, entries, watchers  *)
(* and runs, on anything killed runs may have left in the registry: a test *)
(* that goes on measures a clean registry and none of its later assertions *)
(* fails (CleanInv); the stable watchers are stopped, one by each send     *)
(* (WatchInv); the wait groups count who has yet to hear (GroupInv).  Each *)
(* invariant rests on the ones before it.                                  *)
(***************************************************************************)
EXTENDS EtcdWatchTest, FiniteSetTheorems, TLAPS

Mains == {"off", "populate", "check", "start", "running", "stopping",
          "closing", "ended", "crashed"}
ReqSteps == {"none", "entered", "put", "missed", "waiting", "registered", "done"}

Types ==
    /\ IsFiniteSet(reg)
    /\ test \in RegisterTests \cup WatchTests
    /\ main \in Mains
    /\ req \in [Keys -> ReqSteps]

(* Nothing is registered or written before the initial check.              *)
NothingYet ==
    main \in {"populate", "check", "start"} =>
        dummy = "off" /\ \A k \in Keys : req[k] = "none"

PopulatedFirst == main = "check" => MinKeys \subseteq reg

OnlyRegistering ==
    test = Registering =>
        /\ main \in {"off", "running", "ended", "crashed"}
        /\ \A k \in Keys : req[k] \in {"none", "put", "done"}

NoDummyKey == test \in RegisterTests => dummy = "off"

(* A put that was lost has failed.                                         *)
MissedIsNoted == \A k \in Keys : req[k] = "missed" => ~AllWell

CleanInv ==
    /\ Types /\ NothingYet /\ PopulatedFirst /\ OnlyRegistering /\ NoDummyKey
    /\ MissedIsNoted /\ RegistryIsClean /\ AssertionsHold

rv == <<reg, test, main, req, failed, dummy>>

-----------------------------------------------------------------------------
LEMMA Unseen == CleanInv /\ UNCHANGED rv => CleanInv'
BY DEF CleanInv, rv, Types, NothingYet, PopulatedFirst, OnlyRegistering, NoDummyKey, MissedIsNoted,
       RegistryIsClean, Own, AssertionsHold, AllWell

LEMMA BeginClean ==
    ASSUME CleanInv, NEW t \in RegisterTests \cup WatchTests, BeginTest(t)
    PROVE  CleanInv'
BY DEF CleanInv, BeginTest, Begin, ProcessState, NoWatchYet, Types, NothingYet, PopulatedFirst,
       OnlyRegistering, NoDummyKey, MissedIsNoted, RegistryIsClean, AssertionsHold, AllWell,
       Mains, ReqSteps, RegisterTests, WatchTests, Registering, Active, Adding

LEMMA PopulateClean ==
    ASSUME CleanInv, Populate \/ PopulateFails, UNCHANGED dummy
    PROVE  CleanInv'
<1>1. PICK some \in SUBSET MinKeys : reg' = reg \cup some
  BY DEF Populate, PopulateFails
<1>2. IsFiniteSet(some)
  BY FS_Subset, RegistryAssumption
<1>3. IsFiniteSet(reg')
  BY <1>1, <1>2, FS_Union DEF CleanInv, Types
<1> QED
  BY <1>3 DEF CleanInv, Populate, PopulateFails, MainGoes, Types, NothingYet, PopulatedFirst,
       OnlyRegistering, NoDummyKey, MissedIsNoted, RegistryIsClean, AssertionsHold, AllWell, Mains

LEMMA CheckFailsClean ==
    ASSUME CleanInv, NEW at, CheckFails(at), at \in {"check", "closing"}, UNCHANGED dummy
    PROVE  CleanInv'
BY DEF CleanInv, CheckFails, MainGoes, Types, NothingYet, PopulatedFirst, OnlyRegistering,
       NoDummyKey, MissedIsNoted, RegistryIsClean, AssertionsHold, AllWell, Mains

(* A registry that contains the entries of populateRegistry and has their  *)
(* number has nothing else.                                                *)
LEMMA CheckClean ==
    ASSUME CleanInv, NEW next \in {"start", "running"}, CheckInitial(next), UNCHANGED dummy
    PROVE  CleanInv'
<1>1. CASE RightNumber
  <2>1. reg = MinKeys
    BY <1>1, FS_Subset, RegistryAssumption
       DEF CheckInitial, MainGoes, CleanInv, PopulatedFirst, Types, RightNumber, minEntries
  <2> QED
    BY <1>1, <2>1 DEF CleanInv, CheckInitial, MainGoes, Types, NothingYet, PopulatedFirst,
       OnlyRegistering, NoDummyKey, MissedIsNoted, RegistryIsClean, Own, AssertionsHold, AllWell,
       Mains
<1>2. CASE ~RightNumber
  BY <1>2 DEF CleanInv, CheckInitial, MainGoes, Types, NothingYet, PopulatedFirst,
       OnlyRegistering, NoDummyKey, MissedIsNoted, RegistryIsClean, AssertionsHold, AllWell, Mains
<1> QED
  BY <1>1, <1>2

(* Once it is clean there are enough entries.                              *)
LEMMA EnoughThere ==
    ASSUME CleanInv, main \in {"start", "running", "stopping", "closing"}, test # Registering
    PROVE  EnoughEntries /\ (minEntries >= 2 => Cardinality(reg) > 1) /\ minEntries \in Nat
<1>1. IsFiniteSet(reg) /\ MinKeys \in SUBSET reg
  BY DEF CleanInv, Types, RegistryIsClean
<1>2. Cardinality(MinKeys) <= Cardinality(reg)
  BY <1>1, FS_Subset
<1>3. Cardinality(MinKeys) \in Nat /\ Cardinality(reg) \in Nat
  BY <1>1, FS_CardinalityType, RegistryAssumption
<1> QED
  BY <1>2, <1>3 DEF EnoughEntries, minEntries

LEMMA RequestClean ==
    ASSUME CleanInv, NEW k \in Keys, NEW step \in {"put", "entered"},
           main = "running", req[k] = "none",
           test = Registering => step = "put",
           req' = [req EXCEPT ![k] = step],
           UNCHANGED <<reg, test, main, failed, dummy>>
    PROVE  CleanInv'
BY DEF CleanInv, Types, NothingYet, PopulatedFirst, OnlyRegistering, NoDummyKey, MissedIsNoted,
       RegistryIsClean, Own, AssertionsHold, AllWell, Mains, ReqSteps

(* A request that does not register or deregister goes on.                 *)
LEMMA GoesOnClean ==
    ASSUME CleanInv, NEW k \in Keys, Active, test # Registering,
           \/ req[k] = "entered" /\ req' = [req EXCEPT ![k] = "put"]
           \/ req[k] \in {"waiting", "missed"} /\ req' = [req EXCEPT ![k] = "registered"],
           UNCHANGED <<reg, test, main, failed, dummy>>
    PROVE  CleanInv'
BY DEF CleanInv, Types, NothingYet, PopulatedFirst, OnlyRegistering, NoDummyKey, MissedIsNoted,
       RegistryIsClean, Own, AssertionsHold, AllWell, Mains, ReqSteps

(* A put done or failed; of a put that failed the key may have stayed out. *)
LEMMA RegisterClean ==
    ASSUME CleanInv, NEW k \in Keys, NEW next \in {"done", "missed", "waiting", "registered"},
           (test = Registering) <=> (next = "done"),
           \/ Register(k, next) /\ next # "missed"
           \/ RegisterFails(k, next, reg \cup {k}) /\ next # "missed"
           \/ RegisterFails(k, next, reg),
           UNCHANGED dummy
    PROVE  CleanInv'
<1>1. IsFiniteSet(reg')
  BY FS_AddElement DEF CleanInv, Types, Register, RegisterFails
<1>2. /\ req[k] = "put" /\ req' = [req EXCEPT ![k] = next] /\ UNCHANGED <<test, main>>
      /\ \/ reg' = reg \cup {k} /\ next # "missed" /\ failed' = failed
         \/ /\ reg' = reg \/ (reg' = reg \cup {k} /\ next # "missed")
            /\ failed' = failed \cup {"err"}
  BY DEF Register, RegisterFails
<1>3. RegistryIsClean'
  BY <1>2 DEF CleanInv, Types, RegistryIsClean, Own, ReqSteps, AllWell
<1>4. AssertionsHold' /\ (~AllWell => ~AllWell')
  BY <1>2 DEF CleanInv, AssertionsHold, AllWell
<1>5. req' \in [Keys -> ReqSteps] /\ MissedIsNoted'
  BY <1>2, <1>4 DEF CleanInv, Types, ReqSteps, MissedIsNoted, AllWell
<1>6. main \notin {"off", "populate", "check", "start", "ended", "crashed"}
  BY <1>2 DEF CleanInv, NothingYet, Register, RegisterFails, Active
<1> QED
  BY <1>1, <1>2, <1>3, <1>4, <1>5, <1>6 DEF CleanInv, Types, NothingYet, PopulatedFirst,
       OnlyRegistering, NoDummyKey, Mains

LEMMA DeregisterClean ==
    ASSUME CleanInv, NEW k \in Keys, Deregister(k) \/ DeregisterFails(k), UNCHANGED dummy
    PROVE  CleanInv'
<1>1. /\ test # Registering /\ main \in {"running", "stopping", "closing"}
      /\ req[k] = "registered" /\ req' = [req EXCEPT ![k] = "done"] /\ UNCHANGED <<test, main>>
  BY DEF CleanInv, Types, NothingYet, OnlyRegistering, Deregister, DeregisterFails, Active, Mains
<1>2. \/ /\ reg' = reg \ {k}
         /\ failed' = failed \cup {f \in {"deleted"} : service = "etcd" /\ k \notin reg}
      \/ reg' \in {reg, reg \ {k}} /\ failed' = failed \cup {"err"}
  BY DEF Deregister, DeregisterFails, Removed
<1>3. IsFiniteSet(reg')
  BY <1>2, FS_RemoveElement DEF CleanInv, Types
<1>4. AllWell => k \in reg
  BY <1>1 DEF CleanInv, RegistryIsClean, Own
<1>5. AllWell' => AllWell /\ reg' = reg \ {k}
  BY <1>2 DEF AllWell
<1>6. RegistryIsClean'
  BY <1>1, <1>2, <1>5, RegistryAssumption, WatchAssumption
     DEF CleanInv, Types, RegistryIsClean, Own, ReqSteps
<1>7. AssertionsHold'
  BY <1>2, <1>4 DEF CleanInv, AssertionsHold, AllWell
<1> QED
  BY <1>1, <1>3, <1>5, <1>6, <1>7 DEF CleanInv, Types, NothingYet, PopulatedFirst, OnlyRegistering,
       NoDummyKey, MissedIsNoted, Mains, ReqSteps

LEMMA ReadClean ==
    ASSUME CleanInv, Read, UNCHANGED dummy
    PROVE  CleanInv'
<1>1. EnoughEntries /\ (minEntries >= 2 => Cardinality(reg) > 1) /\ minEntries \in Nat
  BY EnoughThere DEF Read, Registering
<1>2. failed' = failed \cup (IF Cardinality(reg) > 1 THEN {} ELSE {"none"})
  BY <1>1 DEF Read
<1>3. ~(Cardinality(reg) > 1) => minEntries < 2
  BY <1>1
<1>4. AllWell' <=> AllWell
  BY <1>2 DEF AllWell
<1>5. failed \subseteq {"initial"} \cup (IF minEntries < 2 THEN {"none"} ELSE {})
                       \cup (IF AllWell THEN {} ELSE {"err", "deleted", "none"})
  BY DEF CleanInv, AssertionsHold
<1>6. failed' \subseteq {"initial"} \cup (IF minEntries < 2 THEN {"none"} ELSE {})
                        \cup (IF AllWell THEN {} ELSE {"err", "deleted", "none"})
  BY <1>2, <1>3, <1>5
<1> QED
  BY <1>4, <1>6 DEF CleanInv, Types, NothingYet, PopulatedFirst, OnlyRegistering, NoDummyKey,
       MissedIsNoted, RegistryIsClean, Own, AssertionsHold, minEntries, Read

(* Of consul, whose tests go on.                                           *)
LEMMA ReadFailsClean ==
    ASSUME CleanInv, failed' = failed \cup {"err", "none"},
           UNCHANGED <<reg, test, main, req, dummy>>
    PROVE  CleanInv'
<1>1. ~AllWell' /\ AssertionsHold'
  BY DEF CleanInv, AssertionsHold, AllWell
<1> QED
  BY <1>1 DEF CleanInv, Types, NothingYet, PopulatedFirst, OnlyRegistering, NoDummyKey,
       MissedIsNoted, RegistryIsClean, Own

(* A step of the main goroutine that leaves the rest alone.                *)
LEMMA MainClean ==
    ASSUME CleanInv, main' \in Mains \ {"populate", "check"},
           main' = "start" => main = "start",
           main' \in {"running", "stopping", "closing"} =>
               main \in {"start", "running", "stopping", "closing"},
           test = Registering => main' \in {"ended", "crashed"},
           test \in RegisterTests => dummy' = "off",
           dummy' = dummy \/ (dummy # "put" /\ dummy' # "put" /\ main' # "start"),
           UNCHANGED <<reg, test, req, failed>>
    PROVE  CleanInv'
BY DEF CleanInv, Types, NothingYet, PopulatedFirst, OnlyRegistering, NoDummyKey, MissedIsNoted,
       RegistryIsClean, Own, AssertionsHold, AllWell, Mains

LEMMA CheckFinalClean ==
    ASSUME CleanInv, CheckFinal, UNCHANGED dummy
    PROVE  CleanInv'
<1>1. test # Registering
  BY DEF CheckFinal, MainGoes, CleanInv, OnlyRegistering
<1>2. UNCHANGED failed
  BY <1>1, EnoughThere DEF CheckFinal, MainGoes
<1> QED
  BY <1>1, <1>2, MainClean DEF CheckFinal, MainGoes, CleanInv, NoDummyKey, Mains

LEMMA PutDummyClean ==
    ASSUME CleanInv, PutDummy \/ PutDummyFails
    PROVE  CleanInv'
<1>1. main \in {"running", "stopping", "closing"} /\ test \notin RegisterTests
  BY DEF CleanInv, Types, NothingYet, NoDummyKey, PutDummy, PutDummyFails, Active, Mains
<1>2. IsFiniteSet(reg')
  BY FS_AddElement DEF CleanInv, Types, PutDummy, PutDummyFails
<1>3. AllWell' => AllWell /\ reg' = reg \cup {Dummy}
  BY DEF PutDummy, PutDummyFails, AllWell
<1>4. /\ dummy = "awake" /\ dummy' = "put" /\ reg' \in {reg, reg \cup {Dummy}}
      /\ UNCHANGED <<test, main, req>>
  BY DEF PutDummy, PutDummyFails
<1>5. AssertionsHold'
  BY DEF PutDummy, PutDummyFails, CleanInv, AssertionsHold, AllWell
<1>6. RegistryIsClean'
  BY <1>1, <1>3, <1>4 DEF CleanInv, RegistryIsClean, Own, RegisterTests
<1> QED
  BY <1>1, <1>2, <1>3, <1>4, <1>5, <1>6 DEF CleanInv, Types, NothingYet, PopulatedFirst,
       OnlyRegistering, NoDummyKey, MissedIsNoted, RegisterTests

LEMMA DeleteDummyClean ==
    ASSUME CleanInv, DeleteDummy
    PROVE  CleanInv'
<1>1. main \in {"running", "stopping", "closing"} /\ test \notin RegisterTests
  BY DEF CleanInv, Types, NothingYet, NoDummyKey, DeleteDummy, Active, Mains
<1>2. IsFiniteSet(reg')
  BY FS_RemoveElement DEF CleanInv, Types, DeleteDummy
<1>3. AllWell => Dummy \in reg
  BY <1>1 DEF CleanInv, RegistryIsClean, Own, DeleteDummy, RegisterTests
<1>4. AllWell' <=> AllWell
  BY DEF DeleteDummy, AllWell
<1>5. AssertionsHold'
  BY <1>3 DEF DeleteDummy, CleanInv, AssertionsHold, AllWell
<1>6. RegistryIsClean'
  BY <1>1, <1>4, WatchAssumption DEF CleanInv, RegistryIsClean, Own, DeleteDummy, RegisterTests
<1> QED
  BY <1>1, <1>2, <1>4, <1>5, <1>6 DEF CleanInv, Types, NothingYet, PopulatedFirst,
       OnlyRegistering, NoDummyKey, MissedIsNoted, DeleteDummy, RegisterTests

(* The process is killed, or panics.                                       *)
LEMMA DiesClean ==
    ASSUME CleanInv, NEW left, IsFiniteSet(left), Dies(left), dummy' \in {"off", dummy}
    PROVE  CleanInv'
<1>1. IsFiniteSet(reg')
  <2>1. PICK late \in SUBSET {k \in Keys : req[k] = "put"} : reg' = left \cup late
    BY DEF Dies
  <2>2. IsFiniteSet(late)
    BY FS_Subset, RegistryAssumption
  <2> QED
    BY <2>1, <2>2, FS_Union
<1> QED
  BY <1>1 DEF CleanInv, Dies, ProcessState, Types, NothingYet, PopulatedFirst, OnlyRegistering,
       NoDummyKey, MissedIsNoted, RegistryIsClean, AssertionsHold, AllWell, Mains, ReqSteps

LEMMA FiniteLeft ==
    ASSUME CleanInv, NEW k
    PROVE  IsFiniteSet(reg) /\ IsFiniteSet(reg \ {k})
BY FS_RemoveElement DEF CleanInv, Types

LEMMA CleanStep == CleanInv /\ [Next]_vars => CleanInv'
<1> SUFFICES ASSUME CleanInv, [Next]_vars PROVE CleanInv'
  OBVIOUS
<1>1. CASE \E t \in RegisterTests \cup WatchTests : BeginTest(t)
  BY <1>1, BeginClean
<1>2. CASE WithoutWatching(RegStep)
  <2>1. UNCHANGED dummy /\ test \in RegisterTests /\ RegStep
    BY <1>2 DEF WithoutWatching, watchVars
  <2>2. CASE Populate \/ PopulateFails
    BY <2>1, <2>2, PopulateClean
  <2>3. CASE CheckInitial("running")
    BY <2>1, <2>3, CheckClean
  <2>4. CASE Finish
    BY <2>1, <2>4, MainClean DEF Finish, MainGoes, Mains, CleanInv, NoDummyKey
  <2>5. CASE CheckFinal
    BY <2>1, <2>5, CheckFinalClean
  <2>6. CASE Read \/ ReadFails
    <3>1. CASE Read
      BY <2>1, <3>1, ReadClean
    <3>2. CASE ReadFails /\ service = "consul"
      BY <2>1, <3>2, ReadFailsClean DEF ReadFails
    <3>3. CASE Dies(reg)
      BY <2>1, <3>3, DiesClean, FiniteLeft
    <3> QED
      BY <2>6, <3>1, <3>2, <3>3 DEF ReadFails
  <2>7. ASSUME NEW k \in Keys, Request(k) PROVE CleanInv'
    BY <2>1, <2>7, RequestClean DEF Request
  <2>8. ASSUME NEW k \in Keys, RegRequestStep(k) PROVE CleanInv'
    <3> DEFINE next == IF test = Registering THEN "done" ELSE "registered"
    <3>1. \/ \/ Register(k, next) \/ RegisterFails(k, next, reg)
             \/ RegisterFails(k, next, reg \cup {k})
          \/ Deregister(k) \/ DeregisterFails(k)
          \/ DeletePanics(k)
      BY <2>8 DEF RegRequestStep
    <3>2. next \in {"done", "registered"} /\ ((test = Registering) <=> (next = "done"))
      OBVIOUS
    <3> HIDE DEF next
    <3>3. CASE \/ Register(k, next) \/ RegisterFails(k, next, reg)
               \/ RegisterFails(k, next, reg \cup {k})
      BY <2>1, <3>2, <3>3, RegisterClean
    <3>4. CASE Deregister(k) \/ DeregisterFails(k)
      BY <2>1, <3>4, DeregisterClean
    <3>5. CASE DeletePanics(k)
      BY <2>1, <3>5, DiesClean, FiniteLeft DEF DeletePanics, Removed
    <3> QED
      BY <3>1, <3>3, <3>4, <3>5
  <2>9. ASSUME NEW at \in {"check", "closing"}, CheckFails(at) PROVE CleanInv'
    BY <2>1, <2>9, CheckFailsClean
  <2> QED
    BY <2>1, <2>2, <2>3, <2>4, <2>5, <2>6, <2>7, <2>8, <2>9 DEF RegStep, RegMainStep
<1>3. CASE MainStep
  <2>1. test # Registering /\ test \notin RegisterTests
    BY <1>3 DEF MainStep, WatchTests, Adding, RegisterTests, Registering
  <2>2. CASE PopulateFirst
    BY <2>2, PopulateClean, CheckClean, CheckFailsClean DEF PopulateFirst, watchVars
  <2>3. CASE RunLoad
    BY <2>1, <2>3, MainClean DEF RunLoad, MainGoes, Mains, CleanInv, NothingYet
  <2>4. CASE FinishLoad
    BY <2>1, <2>4, MainClean DEF FinishLoad, MainGoes, AfterStops, Mains, watchVars
  <2>5. CASE CheckAtLast
    BY <2>5, CheckFinalClean, CheckFailsClean DEF CheckAtLast, watchVars
  <2>6. ASSUME NEW w \in Watchers, StartWatcher(w) PROVE CleanInv'
    BY <2>6, Unseen DEF StartWatcher, rv, regVars
  <2>7. ASSUME NEW w \in Everybody, StopWatcher(w) PROVE CleanInv'
    BY <2>1, <2>7, MainClean DEF StopWatcher, AfterStops, Mains
  <2> QED
    BY <1>3, <2>2, <2>3, <2>4, <2>5, <2>6, <2>7 DEF MainStep
<1>4. ASSUME NEW k \in Keys, AddGroup(k) \/ RequestStep(k) PROVE CleanInv'
  <2>1. test # Registering
    BY <1>4 DEF AddGroup, RequestStep, WatchTests, Adding, Registering
  <2>2. CASE AddGroup(k)
    BY <2>1, <2>2, RequestClean DEF AddGroup
  <2>3. CASE CountWatchers(k) \/ Wait(k)
    BY <2>1, <2>3, GoesOnClean DEF CountWatchers, Wait, watchVars
  <2>4. CASE Put(k) \/ PutFails(k)
    BY <2>1, <2>4, RegisterClean DEF Put, PutFails
  <2>5. CASE Delete(k)
    BY <2>5, DeregisterClean DEF Delete
  <2>6. CASE DeleteFails(k)
    BY <2>6, DiesClean, FiniteLeft DEF DeleteFails, DeletePanics, Removed, NoWatchYet
  <2> QED
    BY <1>4, <2>2, <2>3, <2>4, <2>5, <2>6 DEF RequestStep
<1>5. ASSUME NEW w \in Everybody, AskForWatch(w) \/ WatcherStep(w) PROVE CleanInv'
  BY <1>5, Unseen DEF AskForWatch, WatcherStep, Hear, WatchStarts, HearOnce, rv, regVars
<1>6. CASE DummyStep
  <2>1. CASE CheckTime \/ Awake
    <3>1. dummy' # "put" /\ dummy # "put" /\ dummy # "off" /\ Active
      BY <2>1 DEF CheckTime, Awake
    <3>2. main \in {"running", "stopping", "closing"} /\ test \notin RegisterTests
      BY <3>1 DEF CleanInv, Types, NothingYet, NoDummyKey, Active, Mains
    <3> QED
      BY <2>1, <3>1, <3>2, MainClean DEF CheckTime, Awake, regVars, Mains, RegisterTests
  <2>2. CASE DeleteDummyFails
    BY <2>2, DiesClean, FiniteLeft DEF DeleteDummyFails, NoWatchYet
  <2> QED
    BY <1>6, <2>1, <2>2, PutDummyClean, DeleteDummyClean DEF DummyStep
<1>7. CASE CrashTest
  BY <1>7, DiesClean, FiniteLeft DEF CrashTest, Crash, NoWatchYet
<1>8. CASE UNCHANGED vars
  BY <1>8, Unseen DEF vars, regVars, watchVars, rv
<1> QED
  BY <1>1, <1>2, <1>3, <1>4, <1>5, <1>6, <1>7, <1>8 DEF Next

LEMMA CleanInit == Init => CleanInv
BY RegistryAssumption DEF Init, RegInit, CleanInv, Types, NothingYet, PopulatedFirst,
   OnlyRegistering, NoDummyKey, MissedIsNoted, RegistryIsClean, AssertionsHold, Mains, ReqSteps,
   RegisterTests

LEMMA AlwaysClean == Spec => []CleanInv
BY CleanInit, CleanStep, PTL DEF Spec

(* A test that goes on measures a clean registry, for any numbers of       *)
(* requests and entries, any contents killed runs may have left, any       *)
(* number of runs and whatever calls fail (populateRegistry 62-68).        *)
THEOREM RegistryStaysClean == Spec => []RegistryIsClean
BY AlwaysClean, PTL DEF CleanInv

(* And no assertion fails but the initial one, with fewer than two entries *)
(* that of readLG, and those that a failed call explains; none of these is *)
(* on there being enough entries (lines 66, 80, 165, 232, 233).            *)
THEOREM AssertionsNeverFail == Spec => []AssertionsHold
BY AlwaysClean, PTL DEF CleanInv


-----------------------------------------------------------------------------
(* The watchers *)

WatchTypes ==
    /\ watch \in [Everybody -> {"off", "asking", "watching", "stopped"}]
    /\ stops \in Nat

Stopped == {w \in Watchers : watch[w] = "stopped"}

(* All stable watchers watch while requests run; then they stop, one with  *)
(* each send.                                                              *)
WatchersStop ==
    test \in WatchTests =>
        /\ main \in {"populate", "check", "start", "running"} => stops = 0
        /\ main = "running" => \A w \in Watchers : watch[w] = "watching"
        /\ main \in {"stopping", "closing"} =>
              /\ OneShotsReturned /\ AllReturned
              /\ \A w \in Watchers : watch[w] \in {"watching", "stopped"}
              /\ stops = Cardinality(Stopped)
        /\ main = "closing" \/ (main = "ended" /\ failed = {}) => Stopped = Watchers

WatchInv == WatchTypes /\ WatchersStop

wv == <<test, main, req, failed, watch, stops>>

LEMMA UnseenByWatchers == WatchInv /\ UNCHANGED wv => WatchInv'
BY DEF WatchInv, WatchTypes, WatchersStop, Stopped, OneShotsReturned, AllReturned, wv

(* A request is under way only while the load generators run.              *)
LEMMA RequestsRun ==
    ASSUME CleanInv, WatchInv, Active, test \in WatchTests,
           NEW k \in Keys, req[k] \notin {"none", "done"}
    PROVE  main = "running" /\ \A w \in Watchers : watch[w] = "watching"
BY DEF CleanInv, Types, NothingYet, WatchInv, WatchersStop, AllReturned, Active, Mains

LEMMA OffWatch ==
    ASSUME WatchInv, UNCHANGED <<watch, stops>>, test' \notin WatchTests
    PROVE  WatchInv'
BY DEF WatchInv, WatchTypes, WatchersStop

(* While the load runs, only one-shot watchers come and go.                *)
LEMMA LoadRuns ==
    ASSUME WatchInv, main = "running", UNCHANGED <<test, main, stops>>,
           watch' \in [Everybody -> {"off", "asking", "watching", "stopped"}],
           \A w \in Watchers : watch'[w] = watch[w]
    PROVE  WatchInv'
BY DEF WatchInv, WatchTypes, WatchersStop

LEMMA BeginWatch ==
    ASSUME WatchInv, NEW t \in RegisterTests \cup WatchTests, BeginTest(t)
    PROVE  WatchInv'
BY DEF WatchInv, WatchTypes, WatchersStop, BeginTest, Begin, NoWatchYet, RegisterTests,
       WatchTests, Registering, Adding

LEMMA MainStepWatch ==
    ASSUME CleanInv, WatchInv, MainStep
    PROVE  WatchInv'
<1> USE DEF WatchInv, WatchTypes, WatchersStop
<1>1. CASE PopulateFirst
  BY <1>1 DEF PopulateFirst, Populate, PopulateFails, CheckInitial, CheckFails, MainGoes, watchVars
<1>2. CASE RunLoad
  BY <1>2 DEF RunLoad, MainGoes
<1>3. CASE FinishLoad
  <2>1. stops = 0 /\ Stopped = {} /\ Stopped' = {}
    BY <1>3 DEF FinishLoad, MainGoes, MainStep, Stopped, watchVars
  <2>2. Cardinality(Stopped') = 0
    BY <2>1, FS_EmptySet
  <2>3. main' = "closing" => Watchers = {}
    BY <1>3, FS_EmptySet, WatchAssumption DEF FinishLoad, MainGoes, AfterStops, nWatchers
  <2>4. main' \in {"stopping", "closing"} /\ main = "running" /\ test' = test
    BY <1>3 DEF FinishLoad, MainGoes, AfterStops
  <2>5. OneShotsReturned' /\ AllReturned'
    BY <1>3 DEF FinishLoad, OneShotsReturned, AllReturned, watchVars
  <2> QED
    BY <1>3, <2>1, <2>2, <2>3, <2>4, <2>5 DEF FinishLoad, watchVars
<1>4. CASE CheckAtLast
  BY <1>4 DEF CheckAtLast, CheckFinal, CheckFails, MainGoes, Stopped, watchVars
<1>5. ASSUME NEW w \in Watchers, StartWatcher(w) PROVE WatchInv'
  BY <1>5 DEF StartWatcher, regVars
<1>6. ASSUME NEW w \in Everybody, StopWatcher(w) PROVE WatchInv'
  <2>1. main = "stopping" /\ test \in WatchTests /\ test' = test /\ w \in Watchers /\ w \notin Stopped
    BY <1>6 DEF StopWatcher, OneShotsReturned, Everybody, MainStep, Stopped
  <2>2. Stopped' = Stopped \cup {w}
    BY <1>6, <2>1 DEF StopWatcher, Stopped, Everybody
  <2>3. IsFiniteSet(Stopped) /\ IsFiniteSet(Stopped')
    BY FS_Subset, WatchAssumption DEF Stopped
  <2>4. stops' = Cardinality(Stopped')
    BY <1>6, <2>1, <2>2, <2>3, FS_AddElement DEF StopWatcher
  <2>5. main' = "closing" => Stopped' = Watchers
    <3>1. Stopped' \in SUBSET Watchers
      BY DEF Stopped
    <3> QED
      BY <1>6, <2>4, <3>1, FS_Subset, WatchAssumption DEF StopWatcher, AfterStops, nWatchers
  <2>6. OneShotsReturned' /\ AllReturned'
    BY <1>6, <2>1, WatchAssumption
       DEF StopWatcher, OneShotsReturned, AllReturned, Everybody
  <2>7. main' \in {"stopping", "closing"} /\ stops' \in Nat
    BY <1>6 DEF StopWatcher, AfterStops
  <2>8. /\ watch' \in [Everybody -> {"off", "asking", "watching", "stopped"}]
        /\ \A v \in Watchers : watch'[v] \in {"watching", "stopped"}
    BY <1>6, <2>1 DEF StopWatcher, Everybody
  <2> QED
    BY <2>1, <2>4, <2>5, <2>6, <2>7, <2>8
<1> QED
  BY <1>1, <1>2, <1>3, <1>4, <1>5, <1>6 DEF MainStep

(* A process that has died watches no more.                                *)
LEMMA DiesWatch ==
    ASSUME NEW left, Dies(left), NoWatchYet
    PROVE  WatchInv'
BY DEF Dies, NoWatchYet, WatchInv, WatchTypes, WatchersStop

LEMMA SameTest == RegStep => test' = test
BY DEF RegStep, RegMainStep, RegRequestStep, Populate, PopulateFails, CheckInitial, CheckFails,
       Finish, CheckFinal, Read, ReadFails, Request, Register, RegisterFails, Deregister,
       DeregisterFails, DeletePanics, Dies

LEMMA WatchStep == CleanInv /\ WatchInv /\ [Next]_vars => WatchInv'
<1> SUFFICES ASSUME CleanInv, WatchInv, [Next]_vars PROVE WatchInv'
  OBVIOUS
<1>1. CASE \E t \in RegisterTests \cup WatchTests : BeginTest(t)
  BY <1>1, BeginWatch
<1>2. CASE WithoutWatching(RegStep)
  <2>1. test' = test
    BY <1>2, SameTest DEF WithoutWatching
  <2> QED
    BY <1>2, <2>1, OffWatch
       DEF WithoutWatching, watchVars, RegisterTests, WatchTests, Registering, Adding
<1>3. CASE MainStep
  BY <1>3, MainStepWatch
<1>4. ASSUME NEW k \in Keys, AddGroup(k) \/ RequestStep(k) PROVE WatchInv'
  <2>1. CASE DeleteFails(k)
    BY <2>1, DiesWatch DEF DeleteFails, DeletePanics
  <2>2. CASE AddGroup(k) \/ CountWatchers(k) \/ Put(k) \/ PutFails(k) \/ Wait(k) \/ Delete(k)
    <3>1. main = "running"
      BY <1>4, <2>2, RequestsRun DEF AddGroup, RequestStep, CountWatchers, Put, PutFails, Register,
         RegisterFails, Wait, Delete, Deregister
    <3>2. UNCHANGED <<test, main, watch, stops>>
      BY <2>2 DEF AddGroup, CountWatchers, Put, PutFails, Register, RegisterFails, Wait, Delete,
         Deregister, watchVars
    <3> QED
      BY <3>1, <3>2, LoadRuns DEF WatchInv, WatchTypes
  <2> QED
    BY <1>4, <2>1, <2>2 DEF RequestStep
<1>5. ASSUME NEW w \in Everybody, AskForWatch(w) \/ WatcherStep(w) PROVE WatchInv'
  <2>1. CASE Hear(w)
    BY <2>1, UnseenByWatchers DEF Hear, regVars, wv
  <2>2. CASE AskForWatch(w)
    BY <2>2, LoadRuns, WatchAssumption DEF AskForWatch, regVars, WatchInv, WatchTypes, Everybody
  <2>3. CASE WatchStarts(w)
    BY <2>3 DEF WatchStarts, regVars, WatchInv, WatchTypes, WatchersStop, Stopped, Active,
                OneShotsReturned, AllReturned, Everybody
  <2>4. CASE HearOnce(w)
    <3>1. \A v \in Watchers : watch'[v] = watch[v]
      BY <2>4, WatchAssumption DEF HearOnce, WatchInv, WatchTypes, Everybody
    <3> QED
      BY <2>4, <3>1 DEF HearOnce, regVars, WatchInv, WatchTypes, WatchersStop, Stopped, Active,
                OneShotsReturned, AllReturned, Everybody
  <2> QED
    BY <1>5, <2>1, <2>2, <2>3, <2>4 DEF WatcherStep
<1>6. CASE DummyStep
  <2>1. CASE CheckTime \/ Awake \/ PutDummy
    BY <2>1, UnseenByWatchers DEF CheckTime, Awake, PutDummy, regVars, wv
  <2>2. CASE DeleteDummy \/ PutDummyFails
    BY <2>2 DEF DeleteDummy, PutDummyFails, Active, WatchInv, WatchTypes, WatchersStop, Stopped,
                OneShotsReturned, AllReturned
  <2>3. CASE DeleteDummyFails
    BY <2>3, DiesWatch DEF DeleteDummyFails
  <2> QED
    BY <1>6, <2>1, <2>2, <2>3 DEF DummyStep
<1>7. CASE CrashTest
  BY <1>7, DiesWatch DEF CrashTest, Crash
<1>8. CASE UNCHANGED vars
  BY <1>8, UnseenByWatchers DEF vars, regVars, watchVars, wv
<1> QED
  BY <1>1, <1>2, <1>3, <1>4, <1>5, <1>6, <1>7, <1>8 DEF Next

LEMMA WatchInit == Init => WatchInv
BY DEF Init, RegInit, WatchInv, WatchTypes, WatchersStop

LEMMA AlwaysWatched == Spec => [](CleanInv /\ WatchInv)
BY CleanInit, CleanStep, WatchInit, WatchStep, PTL DEF Spec

(* When a test ends well every stable watcher has been told to stop, for   *)
(* any numbers of stable and one-shot watchers: the sends on the channel   *)
(* they share all went to stable ones (lines 381-383, 537-539).            *)
THEOREM AllWatchersStopped == Spec => []WatchersAreStopped
<1>1. WatchInv => WatchersAreStopped
  BY DEF WatchInv, WatchersStop, WatchersAreStopped, Stopped
<1> QED
  BY <1>1, AlwaysWatched, PTL


-----------------------------------------------------------------------------
(* The wait groups *)

Events == [is : {"create", "modify", "delete"}, key : Keys \cup {Dummy}]

Creates(e, k) == e.is = "create" /\ e.key = k
Has(q, k) == \E n \in 1..Len(q) : Creates(q[n], k)
Once(q, k) == \A m, n \in 1..Len(q) : Creates(q[m], k) /\ Creates(q[n], k) => m = n

LEMMA AppendHas ==
    ASSUME NEW q \in Seq(Events), NEW e \in Events, NEW k
    PROVE  /\ Append(q, e) \in Seq(Events)
           /\ Has(Append(q, e), k) <=> Has(q, k) \/ Creates(e, k)
           /\ Once(q, k) /\ ~(Has(q, k) /\ Creates(e, k)) => Once(Append(q, e), k)
<1> DEFINE s == Append(q, e)
<1>1. s \in Seq(Events) /\ Len(s) = Len(q) + 1 /\ Len(q) \in Nat
  OBVIOUS
<1>2. s[Len(q) + 1] = e /\ \A n \in 1..Len(q) : s[n] = q[n]
  OBVIOUS
<1> HIDE DEF s
<1>3. \A n \in 1..Len(s) : n = Len(q) + 1 \/ n \in 1..Len(q)
  BY <1>1
<1>4. 1..Len(q) \subseteq 1..Len(s) /\ Len(q) + 1 \in 1..Len(s)
  BY <1>1
<1>5. Has(s, k) <=> Has(q, k) \/ Creates(e, k)
  BY <1>2, <1>3, <1>4 DEF Has
<1>6. Once(q, k) /\ ~(Has(q, k) /\ Creates(e, k)) => Once(s, k)
  BY <1>2, <1>3, <1>4 DEF Has, Once
<1> QED
  BY <1>1, <1>5, <1>6 DEF s

LEMMA TailHas ==
    ASSUME NEW q \in Seq(Events), q # << >>, NEW k
    PROVE  /\ Tail(q) \in Seq(Events) /\ Head(q) \in Events
           /\ Has(q, k) <=> Creates(Head(q), k) \/ Has(Tail(q), k)
           /\ Once(q, k) => /\ Once(Tail(q), k)
                            /\ Creates(Head(q), k) => ~Has(Tail(q), k)
<1> DEFINE s == Tail(q)
<1>1. s \in Seq(Events) /\ Len(s) = Len(q) - 1 /\ Len(q) \in Nat /\ Len(q) >= 1
  OBVIOUS
<1>2. Head(q) = q[1] /\ Head(q) \in Events /\ \A n \in 1..Len(s) : s[n] = q[n + 1]
  OBVIOUS
<1> HIDE DEF s
<1>3. \A n \in 1..Len(s) : n + 1 \in 1..Len(q) /\ n + 1 # 1
  BY <1>1
<1>4. \A n \in 1..Len(q) : n = 1 \/ (n - 1 \in 1..Len(s) /\ (n - 1) + 1 = n)
  BY <1>1
<1>5. 1 \in 1..Len(q)
  BY <1>1
<1>6. Has(q, k) => Creates(Head(q), k) \/ Has(s, k)
  <2> SUFFICES ASSUME NEW n \in 1..Len(q), Creates(q[n], k)
               PROVE  Creates(Head(q), k) \/ Has(s, k)
    BY DEF Has
  <2>1. CASE n = 1
    BY <2>1, <1>2
  <2>2. CASE n # 1
    <3>1. n - 1 \in 1..Len(s) /\ s[n - 1] = q[n]
      BY <2>2, <1>2, <1>4
    <3> QED
      BY <3>1 DEF Has
  <2> QED
    BY <2>1, <2>2
<1>7. Creates(Head(q), k) \/ Has(s, k) => Has(q, k)
  BY <1>2, <1>3, <1>5 DEF Has
<1>8. ASSUME Once(q, k) PROVE Once(s, k) /\ (Creates(Head(q), k) => ~Has(s, k))
  <2>1. ASSUME NEW m \in 1..Len(s), NEW n \in 1..Len(s), Creates(s[m], k), Creates(s[n], k)
        PROVE  m = n
    <3>1. m + 1 = n + 1
      BY <1>2, <1>3, <1>8, <2>1 DEF Once
    <3> QED
      BY <3>1
  <2>2. ASSUME Creates(Head(q), k), NEW n \in 1..Len(s), Creates(s[n], k)
        PROVE  FALSE
    <3>1. 1 = n + 1
      BY <1>2, <1>3, <1>5, <1>8, <2>2 DEF Once
    <3> QED
      BY <3>1, <1>3
  <2> QED
    BY <2>1, <2>2 DEF Once, Has
<1> QED
  BY <1>1, <1>2, <1>6, <1>7, <1>8 DEF s

OwedBy(k) == {w \in Watchers : Owed(w, k)}

GroupTypes == wgs \in [Keys -> Int] /\ queue \in [Everybody -> Seq(Events)]

(* The create of a key is delivered to a watcher at most once, and not     *)
(* before its put, nor if that is lost.                                    *)
CreatedOnce ==
    test \in WatchTests => \A w \in Watchers, k \in Keys :
        /\ req[k] \in {"none", "entered", "put", "missed"} => ~Owed(w, k)
        /\ Once(queue[w], k)

GroupCounts(k) ==
    /\ req[k] = "none" => wgs[k] = NoGroup
    /\ req[k] = "entered" => wgs[k] = 0
    /\ req[k] \in {"put", "missed"} => wgs[k] = nWatchers
    /\ req[k] \in {"waiting", "registered", "done"} => wgs[k] = Cardinality(OwedBy(k))

GroupsCount == Active /\ test \in WatchTests => \A k \in Keys : GroupCounts(k)

GroupInv == GroupTypes /\ CreatedOnce /\ GroupsCount


LEMMA OwedIsHas == \A w, k : Owed(w, k) <=> Has(queue[w], k)
BY DEF Owed, Has, Creates

LEMMA SomeWatchers == nWatchers \in Nat
BY FS_CardinalityType, WatchAssumption DEF nWatchers

LEMMA UnseenByGroups ==
    ASSUME GroupInv, UNCHANGED <<test, req, wgs, queue>>, Active' => Active
    PROVE  GroupInv'
<1>1. \A w, k : Owed(w, k)' <=> Owed(w, k)
  BY DEF Owed
<1>2. \A k : OwedBy(k)' = OwedBy(k)
  BY <1>1 DEF OwedBy
<1>3. CreatedOnce'
  BY <1>1 DEF GroupInv, CreatedOnce, Once, Creates
<1>4. GroupsCount'
  BY <1>2 DEF GroupInv, GroupsCount, GroupCounts
<1> QED
  BY <1>3, <1>4 DEF GroupInv, GroupTypes

LEMMA OffGroups ==
    ASSUME GroupInv, UNCHANGED <<wgs, queue>>, test' \notin WatchTests
    PROVE  GroupInv'
BY DEF GroupInv, GroupTypes, CreatedOnce, GroupsCount

(* Nothing is owed and no group is entered when a process starts or ends.  *)
LEMMA NoGroups ==
    ASSUME NoWatchYet, ProcessState
    PROVE  GroupInv'
<1>1. GroupTypes'
  BY DEF NoWatchYet, GroupTypes, NoGroup
<1>2. \A w \in Watchers : Len(queue'[w]) = 0
  BY DEF NoWatchYet, Everybody
<1>3. \A w \in Watchers, k \in Keys : ~Owed(w, k)' /\ Once(queue'[w], k)
  BY <1>2 DEF Owed, Once
<1> QED
  BY <1>1, <1>3 DEF NoWatchYet, ProcessState, GroupInv, CreatedOnce, GroupsCount, GroupCounts

(* A request goes on while nothing is delivered.                           *)
LEMMA RequestGroups ==
    ASSUME CleanInv, GroupInv, NEW k \in Keys, Active, test \in WatchTests,
           UNCHANGED <<test, main, queue>>,
           \/ /\ req[k] = "none" /\ req' = [req EXCEPT ![k] = "entered"]
              /\ wgs' = [wgs EXCEPT ![k] = 0]
           \/ /\ req[k] = "entered" /\ req' = [req EXCEPT ![k] = "put"]
              /\ wgs' = [wgs EXCEPT ![k] = @ + nWatchers]
           \/ req[k] = "put" /\ req' = [req EXCEPT ![k] = "missed"] /\ wgs' = wgs
           \/ /\ req[k] \in {"waiting", "missed"} /\ wgs[k] = 0
              /\ req' = [req EXCEPT ![k] = "registered"] /\ wgs' = wgs
    PROVE  GroupInv'
<1>1. req' \in [Keys -> ReqSteps] /\ req \in [Keys -> ReqSteps]
  BY DEF CleanInv, Types, ReqSteps
<1>2. \A w, j : Owed(w, j)' <=> Owed(w, j)
  BY DEF Owed
<1>3. \A j : OwedBy(j)' = OwedBy(j)
  BY <1>2 DEF OwedBy
<1>4. GroupTypes'
  BY SomeWatchers DEF GroupInv, GroupTypes
<1>5. CreatedOnce'
  BY <1>1, <1>2 DEF GroupInv, CreatedOnce, Once
<1>6. \A j \in Keys : GroupCounts(j)
  BY DEF GroupInv, GroupsCount
<1>7. nWatchers = 0 => Cardinality(OwedBy(k)) = 0
  <2>1. nWatchers = 0 => OwedBy(k) = {}
    BY FS_EmptySet, WatchAssumption DEF nWatchers, OwedBy
  <2> QED
    BY <2>1, FS_EmptySet
<1>8. \A j \in Keys : GroupCounts(j)'
  BY <1>1, <1>3, <1>6, <1>7, SomeWatchers DEF GroupCounts, GroupInv, GroupTypes
<1> QED
  BY <1>4, <1>5, <1>8 DEF GroupInv, GroupsCount

(* An event that creates no key of a request.                              *)
LEMMA OtherEvent ==
    ASSUME GroupInv, NEW is \in {"create", "modify", "delete"}, NEW key \in Keys \cup {Dummy},
           is # "create" \/ key \notin Keys,
           Notify(is, key)
    PROVE  /\ queue' \in [Everybody -> Seq(Events)]
           /\ \A w \in Watchers, k \in Keys :
                 /\ Owed(w, k)' <=> Owed(w, k)
                 /\ Once(queue[w], k) => Once(queue'[w], k)
<1> DEFINE e == [is |-> is, key |-> key]
<1>1. e \in Events /\ \A k \in Keys : ~Creates(e, k)
  BY DEF Events, Creates
<1>2. \A w \in Everybody : queue[w] \in Seq(Events)
  BY DEF GroupInv, GroupTypes
<1>3. queue' = [w \in Everybody |->
                   IF watch[w] = "watching" THEN Append(queue[w], e) ELSE queue[w]]
  BY DEF Notify
<1> HIDE DEF e
<1>4. \A w \in Everybody : queue'[w] = Append(queue[w], e) \/ queue'[w] = queue[w]
  BY <1>3
<1>5. queue' \in [Everybody -> Seq(Events)]
  BY <1>1, <1>2, <1>3, AppendHas
<1>6. ASSUME NEW w \in Watchers, NEW k \in Keys
      PROVE  /\ Has(queue'[w], k) <=> Has(queue[w], k)
             /\ Once(queue[w], k) => Once(queue'[w], k)
  <2>1. queue[w] \in Seq(Events) /\ (queue'[w] = Append(queue[w], e) \/ queue'[w] = queue[w])
    BY <1>2, <1>4 DEF Everybody
  <2>2. ASSUME NEW q \in Seq(Events), NEW r, r = Append(q, e) \/ r = q
        PROVE  (Has(r, k) <=> Has(q, k)) /\ (Once(q, k) => Once(r, k))
    <3>1. CASE r = Append(q, e)
      BY <1>1, <3>1, AppendHas
    <3> QED
      BY <2>2, <3>1
  <2> QED
    BY <2>1, <2>2 DEF Has, Once, Creates
<1>7. \A w, k : Owed(w, k)' <=> Has(queue'[w], k)
  BY DEF Owed, Has, Creates
<1> QED
  BY <1>5, <1>6, <1>7, OwedIsHas

LEMMA OtherOrNone ==
    ASSUME GroupInv, NEW is \in {"create", "modify", "delete"}, NEW key \in Keys \cup {Dummy},
           is # "create" \/ key \notin Keys,
           Notify(is, key) \/ UNCHANGED queue
    PROVE  /\ queue' \in [Everybody -> Seq(Events)]
           /\ \A w \in Watchers, k \in Keys :
                 /\ Owed(w, k)' <=> Owed(w, k)
                 /\ Once(queue[w], k) => Once(queue'[w], k)
<1>1. CASE UNCHANGED queue
  BY <1>1 DEF GroupInv, GroupTypes, Owed
<1> QED
  BY <1>1, OtherEvent

(* Such an event, and perhaps the end of a request, leave the counts.      *)
LEMMA OtherEventGroups ==
    ASSUME CleanInv, GroupInv, UNCHANGED <<test, main, wgs>>,
           queue' \in [Everybody -> Seq(Events)],
           \A w \in Watchers, k \in Keys :
                 /\ Owed(w, k)' <=> Owed(w, k)
                 /\ Once(queue[w], k) => Once(queue'[w], k),
           \/ UNCHANGED req
           \/ \E k \in Keys : req[k] = "registered" /\ req' = [req EXCEPT ![k] = "done"]
    PROVE  GroupInv'
<1>1. req' \in [Keys -> ReqSteps] /\ req \in [Keys -> ReqSteps]
  BY DEF CleanInv, Types, ReqSteps
<1>2. \A j \in Keys : OwedBy(j)' = OwedBy(j)
  BY DEF OwedBy
<1>3. \A j \in Keys : /\ req'[j] \in {"none", "entered", "put", "missed"} => req'[j] = req[j]
                      /\ req'[j] \in {"waiting", "registered", "done"} =>
                            req[j] \in {"waiting", "registered", "done"}
  BY <1>1
<1>4. GroupTypes'
  BY DEF GroupInv, GroupTypes
<1>5. CreatedOnce'
  BY <1>3 DEF GroupInv, CreatedOnce
<1>6. GroupsCount'
  BY <1>2, <1>3 DEF GroupInv, GroupsCount, GroupCounts, Active
<1> QED
  BY <1>4, <1>5, <1>6 DEF GroupInv

(* The put of a request creates its key, and every stable watcher is told. *)
LEMMA PutGroups ==
    ASSUME CleanInv, WatchInv, GroupInv, NEW k \in Keys, test \in WatchTests,
           Register(k, "waiting") \/ RegisterFails(k, "waiting", reg \cup {k}),
           Notify(PutEvent(k), k), UNCHANGED wgs
    PROVE  GroupInv'
<1> DEFINE e == [is |-> "create", key |-> k]
<1>1. /\ main = "running" /\ Active /\ test # Registering /\ req[k] = "put"
      /\ \A w \in Watchers : watch[w] = "watching"
      /\ UNCHANGED <<test, main, wgs>>
  BY RequestsRun DEF Register, RegisterFails, WatchTests, Adding, Registering
<1>2. k \notin reg
  BY <1>1, RegistryAssumption, WatchAssumption DEF CleanInv, RegistryIsClean, Own
<1>3. queue' = [w \in Everybody |->
                   IF watch[w] = "watching" THEN Append(queue[w], e) ELSE queue[w]]
  BY <1>2 DEF Notify, PutEvent
<1>4. e \in Events /\ \A j \in Keys : Creates(e, j) <=> j = k
  BY DEF Events, Creates
<1>5. \A w \in Everybody : queue[w] \in Seq(Events)
  BY DEF GroupInv, GroupTypes
<1> HIDE DEF e
<1>6. \A w \in Watchers : queue'[w] = Append(queue[w], e)
  BY <1>1, <1>3 DEF Everybody
<1>7. queue' \in [Everybody -> Seq(Events)]
  BY <1>3, <1>4, <1>5, AppendHas
<1>8. \A w \in Watchers : ~Owed(w, k)
  BY <1>1 DEF GroupInv, CreatedOnce
<1>9. ASSUME NEW w \in Watchers, NEW j \in Keys
      PROVE  (Owed(w, j)' <=> Owed(w, j) \/ j = k) /\ Once(queue'[w], j)
  <2>1. queue[w] \in Seq(Events) /\ Once(queue[w], j)
    BY <1>5 DEF Everybody, GroupInv, CreatedOnce
  <2>2. /\ Has(queue'[w], j) <=> Has(queue[w], j) \/ j = k
        /\ ~(Has(queue[w], j) /\ j = k) => Once(queue'[w], j)
    <3>1. ASSUME NEW q \in Seq(Events), NEW r, r = Append(q, e)
          PROVE  /\ Has(r, j) <=> Has(q, j) \/ j = k
                 /\ Once(q, j) /\ ~(Has(q, j) /\ j = k) => Once(r, j)
      BY <1>4, <3>1, AppendHas
    <3> QED
      BY <1>6, <2>1, <3>1 DEF Has, Once, Creates
  <2>3. Owed(w, j)' <=> Has(queue'[w], j)
    BY DEF Owed, Has, Creates
  <2> QED
    BY <1>8, <2>2, <2>3, OwedIsHas
<1>10. req' = [req EXCEPT ![k] = "waiting"] /\ req \in [Keys -> ReqSteps]
  BY DEF CleanInv, Types, Register, RegisterFails
<1>11. GroupTypes'
  BY <1>1, <1>7 DEF GroupInv, GroupTypes
<1>12. CreatedOnce'
  BY <1>1, <1>9, <1>10 DEF GroupInv, CreatedOnce
<1>13. OwedBy(k)' = Watchers /\ \A j \in Keys \ {k} : OwedBy(j)' = OwedBy(j)
  BY <1>9 DEF OwedBy
<1>14. \A j \in Keys : GroupCounts(j)
  BY <1>1 DEF GroupInv, GroupsCount
<1>15. GroupCounts(k)'
  BY <1>1, <1>10, <1>13, <1>14 DEF GroupCounts, nWatchers
<1>16. \A j \in Keys \ {k} : GroupCounts(j)'
  BY <1>1, <1>10, <1>13, <1>14 DEF GroupCounts
<1> QED
  BY <1>11, <1>12, <1>15, <1>16 DEF GroupInv, GroupsCount


(* A stable watcher hears of an event: of a create it acknowledges, it was *)
(* owed one before and is not any more.                                    *)
LEMMA HearGroups ==
    ASSUME CleanInv, GroupInv, NEW w \in Watchers, Hear(w)
    PROVE  GroupInv'
<1> DEFINE e == Head(queue[w])
<1>1. queue \in [Everybody -> Seq(Events)] /\ w \in Everybody /\ wgs \in [Keys -> Int]
  BY DEF GroupInv, GroupTypes, Everybody
<1>2. /\ queue[w] \in Seq(Events) /\ queue[w] # << >>
      /\ queue' = [queue EXCEPT ![w] = Tail(queue[w])]
      /\ wgs' = IF Acked(e) THEN [wgs EXCEPT ![e.key] = @ - 1] ELSE wgs
      /\ UNCHANGED <<test, main, req>>
  BY <1>1 DEF Hear, regVars
<1>3. e \in Events /\ Tail(queue[w]) \in Seq(Events)
  BY <1>2
<1> HIDE DEF e
<1>4. queue' \in [Everybody -> Seq(Events)] /\ wgs' \in [Keys -> Int]
  <2>1. queue' \in [Everybody -> Seq(Events)]
    BY <1>1, <1>2, <1>3
  <2>2. Acked(e) => e.key \in Keys
    BY <1>3 DEF Acked, Events
  <2>3. wgs' \in [Keys -> Int]
    BY <1>1, <1>2, <2>2
  <2> QED
    BY <2>1, <2>3
<1>5. /\ queue'[w] = Tail(queue[w])
      /\ \A v \in Everybody \ {w} : queue'[v] = queue[v]
  BY <1>1, <1>2
<1>6. CASE test \notin WatchTests
  BY <1>2, <1>4, <1>6 DEF GroupInv, GroupTypes, CreatedOnce, GroupsCount
<1>7. CASE test \in WatchTests
  <2>1. ASSUME NEW j \in Keys
        PROVE  /\ Owed(w, j) <=> Creates(e, j) \/ Owed(w, j)'
               /\ Once(queue'[w], j)
               /\ Creates(e, j) => ~Owed(w, j)'
    <3>1. Once(queue[w], j)
      BY <1>7 DEF GroupInv, CreatedOnce
    <3>2. ASSUME NEW q \in Seq(Events), q # << >>, NEW r, r = Tail(q), Once(q, j)
          PROVE  /\ Has(q, j) <=> Creates(Head(q), j) \/ Has(r, j)
                 /\ Once(r, j)
                 /\ Creates(Head(q), j) => ~Has(r, j)
      BY <3>2, TailHas
    <3> QED
      BY <1>2, <1>5, <3>1, <3>2 DEF Has, Once, Creates, Owed, e
  <2>2. ASSUME NEW v \in Watchers \ {w}, NEW j \in Keys
        PROVE  (Owed(v, j)' <=> Owed(v, j)) /\ Once(queue'[v], j)
    <3>1. queue'[v] = queue[v] /\ Once(queue[v], j)
      BY <1>5, <1>7 DEF Everybody, GroupInv, CreatedOnce
    <3> QED
      BY <3>1 DEF Owed, Once, Creates
  <2>3. CreatedOnce'
    BY <1>2, <2>1, <2>2 DEF GroupInv, CreatedOnce
  <2>4. \A j \in Keys : ~Creates(e, j) => OwedBy(j)' = OwedBy(j)
    BY <2>1, <2>2 DEF OwedBy
  <2>5. \A j \in Keys : Creates(e, j) =>
           w \in OwedBy(j) /\ OwedBy(j)' = OwedBy(j) \ {w}
    BY <2>1, <2>2 DEF OwedBy
  <2>6. \A j \in Keys : Creates(e, j) <=> Acked(e) /\ e.key = j
    BY WatchAssumption DEF Creates, Acked
  <2>7. ASSUME Active, NEW j \in Keys
        PROVE  GroupCounts(j)'
    <3>1. GroupCounts(j)
      BY <1>7, <2>7 DEF GroupInv, GroupsCount
    <3>2. CASE ~Creates(e, j)
      <4>1. wgs'[j] = wgs[j]
        BY <1>1, <1>2, <2>6, <3>2
      <4> QED
        BY <1>2, <2>4, <3>1, <3>2, <4>1 DEF GroupCounts
    <3>3. CASE Creates(e, j)
      <4>1. wgs'[j] = wgs[j] - 1
        BY <1>1, <1>2, <2>6, <3>3
      <4>2. req[j] \notin {"none", "entered", "put", "missed"}
        BY <1>7, <2>1, <3>3 DEF GroupInv, CreatedOnce
      <4>3. IsFiniteSet(OwedBy(j))
        BY FS_Subset, WatchAssumption DEF OwedBy
      <4>4. Cardinality(OwedBy(j)') = Cardinality(OwedBy(j)) - 1
        BY <2>5, <3>3, <4>3, FS_RemoveElement
      <4> QED
        BY <1>2, <3>1, <4>1, <4>2, <4>4 DEF GroupCounts
    <3> QED
      BY <3>2, <3>3
  <2>8. GroupsCount'
    BY <1>2, <2>7 DEF GroupsCount, Active
  <2> QED
    BY <1>4, <2>3, <2>8 DEF GroupInv, GroupTypes
<1> QED
  BY <1>6, <1>7

(* What a one-shot watcher has yet to hear concerns no group.              *)
LEMMA HearOnceGroups ==
    ASSUME GroupInv, NEW w \in OneShots, HearOnce(w)
    PROVE  GroupInv'
<1>1. \A v \in Watchers : queue'[v] = queue[v]
  BY WatchAssumption DEF HearOnce, GroupInv, GroupTypes, Everybody
<1>2. \A v \in Watchers, k \in Keys :
         (Owed(v, k)' <=> Owed(v, k)) /\ (Once(queue[v], k) => Once(queue'[v], k))
  BY <1>1 DEF Owed, Once, Creates
<1>3. \A k \in Keys : OwedBy(k)' = OwedBy(k)
  BY <1>2 DEF OwedBy
<1>4. UNCHANGED <<test, main, req, wgs>>
  BY DEF HearOnce, regVars
<1>5. GroupTypes'
  <2>1. << >> \in Seq(Events) /\ queue' = [queue EXCEPT ![w] = << >>]
    BY DEF HearOnce
  <2> QED
    BY <1>4, <2>1 DEF GroupInv, GroupTypes
<1>6. CreatedOnce'
  BY <1>2, <1>4 DEF GroupInv, CreatedOnce
<1>7. GroupsCount'
  BY <1>3, <1>4 DEF GroupInv, GroupsCount, GroupCounts, Active
<1> QED
  BY <1>5, <1>6, <1>7 DEF GroupInv

LEMMA GroupStep == CleanInv /\ WatchInv /\ GroupInv /\ [Next]_vars => GroupInv'
<1> SUFFICES ASSUME CleanInv, WatchInv, GroupInv, [Next]_vars PROVE GroupInv'
  OBVIOUS
<1>1. CASE \E t \in RegisterTests \cup WatchTests : BeginTest(t)
  BY <1>1, NoGroups DEF BeginTest, Begin
<1>2. CASE WithoutWatching(RegStep)
  <2>1. test' = test
    BY <1>2, SameTest DEF WithoutWatching
  <2> QED
    BY <1>2, <2>1, OffGroups
       DEF WithoutWatching, watchVars, RegisterTests, WatchTests, Registering, Adding
<1>3. CASE MainStep
  <2>1. UNCHANGED <<test, req, wgs, queue>> /\ Active
    BY <1>3 DEF MainStep, PopulateFirst, Populate, PopulateFails, CheckInitial, CheckFails, RunLoad,
                FinishLoad, CheckAtLast, CheckFinal, StartWatcher, StopWatcher, MainGoes, Active,
                regVars, watchVars
  <2> QED
    BY <2>1, UnseenByGroups
<1>4. ASSUME NEW k \in Keys, AddGroup(k) \/ RequestStep(k) PROVE GroupInv'
  <2>1. test \in WatchTests
    BY <1>4 DEF AddGroup, RequestStep
  <2>2. CASE AddGroup(k) \/ CountWatchers(k) \/ Wait(k)
    BY <2>1, <2>2, RequestGroups DEF AddGroup, CountWatchers, Wait, watchVars, Active
  <2>3. CASE Put(k)
    BY <2>1, <2>3, PutGroups DEF Put
  <2>4. CASE PutFails(k)
    <3>1. CASE RegisterFails(k, "waiting", reg \cup {k}) /\ Notify(PutEvent(k), k)
      BY <2>1, <2>4, <3>1, PutGroups DEF PutFails
    <3>2. CASE RegisterFails(k, "missed", reg) /\ UNCHANGED queue
      BY <2>1, <2>4, <3>2, RequestGroups DEF PutFails, RegisterFails
    <3> QED
      BY <2>4, <3>1, <3>2 DEF PutFails
  <2>5. CASE Delete(k)
    <3>1. /\ UNCHANGED <<test, main, wgs>> /\ req[k] = "registered"
          /\ req' = [req EXCEPT ![k] = "done"]
          /\ Notify("delete", k) \/ UNCHANGED queue
      BY <2>5 DEF Delete, Deregister
    <3> QED
      BY <3>1, OtherOrNone, OtherEventGroups
  <2>6. CASE DeleteFails(k)
    BY <2>6, NoGroups DEF DeleteFails, DeletePanics, Dies
  <2> QED
    BY <1>4, <2>2, <2>3, <2>4, <2>5, <2>6 DEF RequestStep
<1>5. ASSUME NEW w \in Everybody, AskForWatch(w) \/ WatcherStep(w) PROVE GroupInv'
  <2>1. CASE Hear(w)
    BY <2>1, HearGroups DEF Hear
  <2>2. CASE HearOnce(w)
    BY <2>2, HearOnceGroups DEF HearOnce
  <2>3. CASE AskForWatch(w) \/ WatchStarts(w)
    BY <2>3, UnseenByGroups DEF AskForWatch, WatchStarts, regVars, Active
  <2> QED
    BY <1>5, <2>1, <2>2, <2>3 DEF WatcherStep
<1>6. CASE DummyStep
  <2>1. CASE CheckTime \/ Awake
    BY <2>1, UnseenByGroups DEF CheckTime, Awake, regVars, Active
  <2>2. CASE PutDummy \/ PutDummyFails
    <3>1. PutEvent(Dummy) \in {"create", "modify", "delete"} /\ Dummy \notin Keys
      BY WatchAssumption DEF PutEvent
    <3>2. UNCHANGED <<test, main, wgs, req>> /\ (Notify(PutEvent(Dummy), Dummy) \/ UNCHANGED queue)
      BY <2>2 DEF PutDummy, PutDummyFails
    <3> QED
      BY <3>1, <3>2, OtherOrNone, OtherEventGroups
  <2>3. CASE DeleteDummy
    <3>1. UNCHANGED <<test, main, wgs, req>> /\ (Notify("delete", Dummy) \/ UNCHANGED queue)
      BY <2>3 DEF DeleteDummy
    <3> QED
      BY <3>1, WatchAssumption, OtherOrNone, OtherEventGroups
  <2>4. CASE DeleteDummyFails
    BY <2>4, NoGroups DEF DeleteDummyFails, Dies
  <2> QED
    BY <1>6, <2>1, <2>2, <2>3, <2>4 DEF DummyStep
<1>7. CASE CrashTest
  BY <1>7, NoGroups DEF CrashTest, Crash, Dies
<1>8. CASE UNCHANGED vars
  BY <1>8, UnseenByGroups DEF vars, regVars, watchVars, Active
<1> QED
  BY <1>1, <1>2, <1>3, <1>4, <1>5, <1>6, <1>7, <1>8 DEF Next

LEMMA GroupInit == Init => GroupInv
<1> SUFFICES ASSUME Init PROVE GroupInv
  OBVIOUS
<1>1. \A w \in Watchers : Len(queue[w]) = 0
  BY DEF Init, Everybody
<1>2. CreatedOnce
  BY <1>1 DEF CreatedOnce, Owed, Once
<1> QED
  BY <1>2 DEF Init, RegInit, GroupInv, GroupTypes, GroupsCount, Active, NoGroup

(* A wait group counts the stable watchers that have yet to hear of its    *)
(* key, for any numbers of requests and watchers, however puts, deliveries *)
(* and acknowledgements interleave and whichever fail (lines 348-360).     *)
THEOREM AcksCounted == Spec => []AcksAreCounted
<1>1. CleanInv /\ GroupInv => AcksAreCounted
  BY DEF CleanInv, Types, ReqSteps, GroupInv, GroupsCount, GroupCounts, OwedBy, AcksAreCounted
<1>2. Spec => [](CleanInv /\ WatchInv /\ GroupInv)
  BY CleanInit, CleanStep, WatchInit, WatchStep, GroupInit, GroupStep, PTL DEF Spec
<1> QED
  BY <1>1, <1>2, PTL

=============================================================================
