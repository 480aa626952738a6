--------------------------- MODULE TlsDialProofs ----------------------------
(***************************************************************************)
(* The average that the TLS client prints is that of successful dials, one *)
(* time of each, for any number of goroutines and any interleaving of      *)
(* their unlocked assignments and tests of err.                            *)
(***************************************************************************)
EXTENDS TlsDial, FiniteSetTheorems, TLAPS

Steps == {"off", "dial", "shake", "test", "handshake", "done", "send", "over"}
Links == {"none", "queued", "accepted", "finished", "alerted", "served"}

Types ==
    /\ ndial \in Int /\ ndial <= MaxDials /\ trusting \in BOOLEAN
    /\ spawned \in Nat
    /\ main \in {"start", "spawning", "waiting", "draining", "printed", "dead"}
    /\ go \in [Dials -> Steps]
    /\ conn \in [Dials -> BOOLEAN]
    /\ link \in [Dials -> Links]
    /\ received \subseteq Dials

(* Only goroutines that were started do anything, at most ndial of them.   *)
Started ==
    /\ main = "start" => spawned = 0
    /\ main \in {"spawning", "waiting", "draining", "printed"} => spawned <= ndial
    /\ \A g \in Dials : go[g] # "off" => g <= spawned

(* A connection comes of a handshake that the client finished, and without *)
(* one a goroutine does not get past conn.Handshake().                     *)
ConnIsMade ==
    \A g \in Dials :
        /\ go[g] \in {"off", "dial", "shake"} => ~conn[g]
        /\ go[g] \in {"done", "send", "over"} => conn[g]
        /\ conn[g] => link[g] \in {"finished", "served"}

ReceivedAreOver == \A g \in received : go[g] = "over"
AllReceived == main = "printed" => received = 1..ndial

IInv == Types /\ Started /\ ConnIsMade /\ ReceivedAreOver /\ AllReceived

-----------------------------------------------------------------------------
LEMMA DialsAreNats == MaxDials \in Nat /\ \A g \in Dials : g \in Nat /\ g > 0
  BY DialAssumption DEF Dials

LEMMA InvInit == Init => IInv
  <1> SUFFICES ASSUME Init PROVE IInv
    OBVIOUS
  <1>1. ndial \in Int /\ ndial <= MaxDials
    BY DialAssumption DEF Init
  <1>2. Types
    BY <1>1 DEF Init, Types, Steps, Links
  <1> QED
    BY <1>2 DEF Init, IInv, Started, ConnIsMade, ReceivedAreOver, AllReceived

(* The main goroutine. *)
LEMMA MainStep == ASSUME IInv, Main PROVE IInv'
  <1> USE DEF IInv
  <1>1. UNCHANGED <<conn, link, received, ndial, trusting>>
    BY DEF Main, AddToGroup, Spawn, AllSpawned, Wait, PrintAverage, args
  <1>2. CASE Spawn
    <2>1. /\ main = "spawning" /\ main' = main /\ spawned < ndial /\ spawned' = spawned + 1
          /\ go' = [go EXCEPT ![spawned + 1] = "dial"]
      BY <1>2 DEF Spawn
    <2>2. spawned + 1 \in Dials /\ spawned \in Nat /\ ndial \in Int
      BY <2>1, DialsAreNats DEF Types, Dials
    <2>3. go[spawned + 1] = "off"
      BY <2>2 DEF Started, Types, Steps
    <2>4. Types'
      BY <1>1, <2>1, <2>2 DEF Types, Steps
    <2>5. Started'
      BY <1>1, <2>1, <2>2, DialsAreNats DEF Started, Types
    <2>6. ConnIsMade' /\ ReceivedAreOver'
      BY <1>1, <2>1, <2>2, <2>3 DEF ConnIsMade, ReceivedAreOver, Types
    <2> QED
      BY <2>1, <2>4, <2>5, <2>6 DEF AllReceived
  <1>3. CASE AddToGroup \/ AllSpawned \/ Wait \/ PrintAverage
    <2>1. UNCHANGED <<go, spawned>>
      BY <1>3 DEF AddToGroup, AllSpawned, Wait, PrintAverage
    <2>2. \/ main = "start" /\ main' = (IF ndial < 0 THEN "dead" ELSE "spawning")
          \/ main = "spawning" /\ main' = "waiting"
          \/ main = "waiting" /\ main' = "draining"
          \/ /\ main = "draining" /\ main' = (IF ndial = 0 THEN "dead" ELSE "printed")
             /\ Cardinality(received) = ndial
      BY <1>3 DEF AddToGroup, AllSpawned, Wait, PrintAverage, MainGoes
    <2>3. Types' /\ ConnIsMade' /\ ReceivedAreOver'
      BY <1>1, <2>1, <2>2 DEF Types, ConnIsMade, ReceivedAreOver
    <2>4. Started'
      BY <1>1, <2>1, <2>2 DEF Started, Types
    <2>5. AllReceived'
      <3> SUFFICES ASSUME main' = "printed" PROVE received = 1..ndial
        BY <1>1 DEF AllReceived
      <3>1. main = "draining" /\ Cardinality(received) = ndial /\ spawned <= ndial
        BY <2>2 DEF Started
      <3>2. received \subseteq 1..ndial
        <4> SUFFICES ASSUME NEW g \in received PROVE g \in 1..ndial
          OBVIOUS
        <4>1. g \in Dials /\ g <= spawned
          BY DEF Types, ReceivedAreOver, Started
        <4> QED
          BY <3>1, <4>1, DialsAreNats DEF Types
      <3>3. ndial \in Nat
        BY <3>1 DEF Types
      <3>4. IsFiniteSet(1..ndial) /\ Cardinality(1..ndial) = ndial
        BY <3>3, FS_Interval
      <3> QED
        BY <3>1, <3>2, <3>4, FS_Subset
    <2> QED
      BY <2>3, <2>4, <2>5
  <1> QED
    BY <1>2, <1>3 DEF Main

(* A goroutine; whether its dial succeeds is up to the server and the      *)
(* network, which error it tests to the others.                            *)
LEMMA GoroutineStep ==
    ASSUME IInv, NEW g \in Dials, Goroutine(g) \/ NetworkFails(g) PROVE IInv'
  <1> USE DEF IInv
  <1>1. UNCHANGED <<ndial, trusting, spawned>> /\ ClientUp
    BY DEF Goroutine, NetworkFails, UnknownProxy, DialConnects, DialFails, DialShakes, TestErr,
           Handshake, Done, Send, DialReturns, GoFrom, args
  <1>2. main' = main \/ main' = "dead"
    BY DEF Goroutine, NetworkFails, UnknownProxy, DialConnects, DialFails, DialShakes, TestErr,
           Handshake, Done, Send, DialReturns, Dies
  <1>3. /\ main \in {"spawning", "waiting", "draining"}
        /\ AllReceived'
    BY <1>1, <1>2 DEF ClientUp, AllReceived
  <1>4. CASE UnknownProxy(g)
    BY <1>1, <1>2, <1>3, <1>4
    DEF UnknownProxy, Dies, Types, Started, ConnIsMade, ReceivedAreOver
  <1>5. CASE DialConnects(g)
    BY <1>1, <1>2, <1>3, <1>5
    DEF DialConnects, GoFrom, Types, Steps, Links, Started, ConnIsMade, ReceivedAreOver
  <1>6. CASE DialFails(g) \/ NetworkFails(g)
    <2>1. go[g] \in {"dial", "shake"}
      BY <1>6 DEF DialFails, NetworkFails, GoFrom
    <2>2. /\ go' = [go EXCEPT ![g] = "test"] /\ conn' = [conn EXCEPT ![g] = FALSE]
          /\ UNCHANGED <<link, received, main>>
      BY <1>6 DEF DialFails, NetworkFails, DialReturns
    <2> QED
      BY <1>1, <1>3, <2>1, <2>2
      DEF Types, Steps, Started, ConnIsMade, ReceivedAreOver
  <1>7. CASE DialShakes(g)
    <2>1. go[g] = "shake"
      BY <1>7 DEF DialShakes, GoFrom
    <2>2. /\ go' = [go EXCEPT ![g] = "test"]
          /\ conn' = [conn EXCEPT ![g] = trusting]
          /\ link' = [link EXCEPT ![g] = IF trusting THEN "finished" ELSE "alerted"]
          /\ UNCHANGED <<received, main>>
      BY <1>7 DEF DialShakes, DialReturns
    <2> QED
      BY <1>1, <1>3, <2>1, <2>2
      DEF Types, Steps, Links, Started, ConnIsMade, ReceivedAreOver
  <1>8. CASE TestErr(g)
    <2>1. /\ go[g] = "test"
          /\ go' = go \/ go' = [go EXCEPT ![g] = "handshake"]
          /\ UNCHANGED <<conn, link, received>>
      BY <1>8 DEF TestErr, GoFrom
    <2> QED
      BY <1>1, <1>2, <1>3, <2>1
      DEF Types, Steps, Started, ConnIsMade, ReceivedAreOver
  <1>9. CASE Handshake(g)
    <2>1. /\ go[g] = "handshake"
          /\ go' = go \/ (conn[g] /\ go' = [go EXCEPT ![g] = "done"])
          /\ UNCHANGED <<conn, link, received>>
      BY <1>9 DEF Handshake, GoFrom, NilPanics, DoneFirst
    <2> QED
      BY <1>1, <1>2, <1>3, <2>1
      DEF Types, Steps, Started, ConnIsMade, ReceivedAreOver
  <1>10. CASE Done(g)
    <2>1. go[g] = "done" /\ go' = [go EXCEPT ![g] = "send"]
      BY <1>10 DEF Done, GoFrom, StepAfter, DoneFirst
    <2>2. UNCHANGED <<conn, link, received, main>>
      BY <1>10 DEF Done
    <2> QED
      BY <1>1, <1>3, <2>1, <2>2
      DEF Types, Steps, Started, ConnIsMade, ReceivedAreOver
  <1>11. CASE Send(g)
    <2>1. go[g] = "send" /\ go' = [go EXCEPT ![g] = "over"]
      BY <1>11 DEF Send, GoFrom, StepAfter, DoneFirst
    <2>2. received' = received \cup {g} /\ UNCHANGED <<conn, link, main>>
      BY <1>11 DEF Send
    <2> QED
      BY <1>1, <1>3, <2>1, <2>2
      DEF Types, Steps, Started, ConnIsMade, ReceivedAreOver
  <1> QED
    BY <1>4, <1>5, <1>6, <1>7, <1>8, <1>9, <1>10, <1>11 DEF Goroutine

(* The server moves connections on, and takes none back. *)
LEMMA ServerStep == ASSUME IInv, Listen \/ Serve PROVE IInv'
  <1> USE DEF IInv
  <1>1. UNCHANGED <<ndial, trusting, main, spawned, go, conn, received>>
    BY DEF Listen, Serve, Accept, HandshakeSucceeds, HandshakeFails, args
  <1>2. \/ link' = link
        \/ \E g \in Dials : link[g] = "queued" /\ link' = [link EXCEPT ![g] = "accepted"]
        \/ \E g \in Dials : link[g] = "finished" /\ link' = [link EXCEPT ![g] = "served"]
    BY DEF Listen, Serve, Accept, HandshakeSucceeds, HandshakeFails
  <1> QED
    BY <1>1, <1>2 DEF Types, Links, Started, ConnIsMade, ReceivedAreOver, AllReceived

LEMMA InvStep == IInv /\ [Next]_vars => IInv'
  <1> SUFFICES ASSUME IInv, [Next]_vars PROVE IInv'
    OBVIOUS
  <1>1. CASE UNCHANGED vars
    BY <1>1 DEF vars, args, IInv, Types, Started, ConnIsMade, ReceivedAreOver, AllReceived
  <1>2. CASE Next
    BY <1>2, MainStep, GoroutineStep, ServerStep DEF Next
  <1> QED
    BY <1>1, <1>2

(* The client prints the average of one time of each of ndial dials that   *)
(* succeeded: a goroutine misled by the error of another dies of its nil   *)
(* connection (lines 220-250).                                             *)
THEOREM OnlySuccessIsAveraged == Spec => []AverageIsOfDials
  <1>1. Init => IInv
    BY InvInit
  <1>2. IInv /\ [Next]_vars => IInv'
    BY InvStep
  <1>3. IInv => AverageIsOfDials
    <2> SUFFICES ASSUME IInv, main = "printed"
                 PROVE  /\ received = 1..ndial
                        /\ \A g \in 1..ndial : conn[g] /\ link[g] \in {"finished", "served"}
      BY DEF AverageIsOfDials
    <2>1. received = 1..ndial
      BY DEF IInv, AllReceived
    <2> QED
      BY <2>1 DEF IInv, Types, ReceivedAreOver, ConnIsMade
  <1> QED
    BY <1>1, <1>2, <1>3, PTL DEF Spec
=============================================================================
