------------------------------ MODULE TlsDial -------------------------------
(***************************************************************************)
(* The TLS experiment (tls/cmd/client/main.go, tls/cmd/server/main.go): a  *)
(* client starts one goroutine per dial, waits for a WaitGroup, receives a *)
(* time from each over an unbuffered channel and prints the average.  The  *)
(* server accepts and shakes hands with one connection after the other.    *)
(*                                                                         *)
(* The goroutines share err, a variable of main, and assign and test it in *)
(* two steps without a lock.  A test may see the goroutine's own value (a  *)
(* register) or the variable's.  Each process dies of the first error it   *)
(* sees, and the other notices.  Behind the addresses of the proxies is    *)
(* the same server.  Of an operator pair such as NilIsSkipped and          *)
(* NilPanics the first is a slip that no action uses.                      *)
(***************************************************************************)
EXTENDS Integers, FiniteSets

CONSTANTS MaxDials,      \* bound: goroutines of the client
          NDials,        \* values of <ndial>
          ProxyTypes     \* values of the last argument

Dials == 1..MaxDials

ASSUME DialAssumption ==
    MaxDials \in Nat /\ NDials \subseteq Int /\ \A n \in NDials : n <= MaxDials

VARIABLES
    ndial,       \* <ndial>
    proxytype,   \* the last argument
    trusting,    \* does the certificate of the server match the client's?
    main,        \* start, spawning, waiting, draining, printed, dead
    spawned,     \* goroutines started
    wg,          \* the counter of the WaitGroup
    err,         \* the shared variable: is it an error?
    go,          \* per goroutine, its next step
    conn,        \* per goroutine, has Dial given it a connection?
    received,    \* the goroutines whose time main has received
    link,        \* per goroutine, its connection: none, queued, accepted,
                 \* finished, alerted, served
    server       \* off, accepting, shaking, dead

args == <<ndial, proxytype, trusting>>
vars == <<args, main, spawned, wg, err, go, conn, received, link, server>>

Init ==
    /\ ndial \in NDials /\ proxytype \in ProxyTypes /\ trusting \in BOOLEAN
    /\ main = "start" /\ spawned = 0 /\ wg = 0 /\ err = FALSE
    /\ go = [g \in Dials |-> "off"]
    /\ conn = [g \in Dials |-> FALSE]
    /\ received = {}
    /\ link = [g \in Dials |-> "none"]
    /\ server = "off"

MainGoes(from, to) == main = from /\ main' = to

(* log.Fatalf, or a panic nothing recovers. *)
Dies == main' = "dead"

ClientUp == main \in {"spawning", "waiting", "draining"}
ClientGone == main \in {"printed", "dead"}

-----------------------------------------------------------------------------
(* The main goroutine of the client *)

(* wg.Add panics if ndial is negative. *)
AddToGroup ==
    /\ MainGoes("start", IF ndial < 0 THEN "dead" ELSE "spawning")
    /\ wg' = ndial
    /\ UNCHANGED <<args, spawned, err, go, conn, received, link, server>>

(* go func, then Sleep: the goroutine may run at once or after others.     *)
Spawn ==
    /\ main = "spawning" /\ spawned < ndial
    /\ spawned' = spawned + 1
    /\ go' = [go EXCEPT ![spawned + 1] = "dial"]
    /\ UNCHANGED <<args, main, wg, err, conn, received, link, server>>

AllSpawned ==
    /\ MainGoes("spawning", "waiting") /\ spawned = ndial
    /\ UNCHANGED <<args, spawned, wg, err, go, conn, received, link, server>>

Wait ==
    /\ MainGoes("waiting", "draining") /\ wg = 0
    /\ UNCHANGED <<args, spawned, wg, err, go, conn, received, link, server>>

(* The average of no dials is a division by zero. *)
PrintAverage ==
    /\ MainGoes("draining", IF ndial = 0 THEN "dead" ELSE "printed")
    /\ Cardinality(received) = ndial
    /\ UNCHANGED <<args, spawned, wg, err, go, conn, received, link, server>>

-----------------------------------------------------------------------------
(* A goroutine of the client *)

GoFrom(g, step) == ClientUp /\ go[g] = step

(* conn, err = tls.Dial(...) *)
DialReturns(g, good) ==
    /\ go' = [go EXCEPT ![g] = "test"]
    /\ conn' = [conn EXCEPT ![g] = good]
    /\ err' = ~good
    /\ UNCHANGED <<args, main, spawned, wg, received, server>>

Known == proxytype \in {"noproxy", "netproxy", "pipeproxy"}

UnknownProxy(g) ==
    /\ GoFrom(g, "dial") /\ ~Known
    /\ Dies
    /\ UNCHANGED <<args, spawned, wg, err, go, conn, received, link, server>>

DialConnects(g) ==
    /\ GoFrom(g, "dial") /\ Known
    /\ server \in {"accepting", "shaking"}
    /\ link' = [link EXCEPT ![g] = "queued"]
    /\ go' = [go EXCEPT ![g] = "shake"]
    /\ UNCHANGED <<args, main, spawned, wg, err, conn, received, server>>

(* Nobody listens, or the server dies before the handshake is over.        *)
DialFails(g) ==
    /\ \/ GoFrom(g, "dial") /\ Known /\ server \in {"off", "dead"}
       \/ GoFrom(g, "shake") /\ server = "dead"
    /\ DialReturns(g, FALSE)
    /\ UNCHANGED link

(* At any time; nobody can count on it. *)
NetworkFails(g) ==
    /\ (GoFrom(g, "dial") /\ Known) \/ GoFrom(g, "shake")
    /\ DialReturns(g, FALSE)
    /\ UNCHANGED link

(* The client's part of the handshake, inside Dial: it checks the          *)
(* certificate, and finishes or sends an alert.                            *)
DialShakes(g) ==
    /\ GoFrom(g, "shake") /\ link[g] = "accepted" /\ server # "dead"
    /\ link' = [link EXCEPT ![g] = IF trusting THEN "finished" ELSE "alerted"]
    /\ DialReturns(g, trusting)

(* if err != nil: log.Fatalf *)
TestErr(g) ==
    /\ GoFrom(g, "test")
    /\ \E isErr \in {err, ~conn[g]} :
          IF isErr THEN Dies /\ UNCHANGED go
                   ELSE go' = [go EXCEPT ![g] = "handshake"] /\ UNCHANGED main
    /\ UNCHANGED <<args, spawned, wg, err, conn, received, link, server>>

(* conn.Handshake(): Dial has done it; of a nil connection it panics. *)
NilIsSkipped(g) == FALSE
NilPanics(g) == ~conn[g]

SendsFirst == <<"send", "done">>
DoneFirst == <<"done", "send">>

Handshake(g) ==
    /\ GoFrom(g, "handshake")
    /\ IF NilPanics(g) THEN Dies /\ UNCHANGED go
       ELSE go' = [go EXCEPT ![g] = DoneFirst[1]] /\ UNCHANGED main
    /\ UNCHANGED <<args, spawned, wg, err, conn, received, link, server>>

(* After the first of wg.Done() and the send, the second. *)
StepAfter(step) == IF step = DoneFirst[1] THEN DoneFirst[2] ELSE "over"

Done(g) ==
    /\ GoFrom(g, "done")
    /\ wg' = wg - 1
    /\ go' = [go EXCEPT ![g] = StepAfter("done")]
    /\ UNCHANGED <<args, main, spawned, err, conn, received, link, server>>

(* ch <- time.Since(start) meets <-ch. *)
Send(g) ==
    /\ GoFrom(g, "send") /\ main = "draining"
    /\ received' = received \cup {g}
    /\ go' = [go EXCEPT ![g] = StepAfter("send")]
    /\ UNCHANGED <<args, main, spawned, wg, err, conn, link, server>>

-----------------------------------------------------------------------------
(* The server *)

Listen ==
    /\ server = "off"
    /\ server' = "accepting"
    /\ UNCHANGED <<args, main, spawned, wg, err, go, conn, received, link>>

Accept(g) ==
    /\ server = "accepting" /\ link[g] = "queued"
    /\ server' = "shaking"
    /\ link' = [link EXCEPT ![g] = "accepted"]
    /\ UNCHANGED <<args, main, spawned, wg, err, go, conn, received>>

HandshakeSucceeds(g) ==
    /\ server = "shaking" /\ link[g] = "finished"
    /\ server' = "accepting"
    /\ link' = [link EXCEPT ![g] = "served"]
    /\ UNCHANGED <<args, main, spawned, wg, err, go, conn, received>>

(* An alert, or the end of the client process: log.Fatalf.  If that ended  *)
(* after its part, what the server sends last may still fail.              *)
HandshakeFails(g) ==
    /\ server = "shaking"
    /\ link[g] = "alerted" \/ (ClientGone /\ link[g] \in {"accepted", "finished"})
    /\ server' = "dead"
    /\ UNCHANGED <<args, main, spawned, wg, err, go, conn, received, link>>

-----------------------------------------------------------------------------
Main == AddToGroup \/ Spawn \/ AllSpawned \/ Wait \/ PrintAverage
Goroutine(g) ==
    \/ UnknownProxy(g) \/ DialConnects(g) \/ DialFails(g) \/ DialShakes(g)
    \/ TestErr(g) \/ Handshake(g) \/ Done(g) \/ Send(g)
Serve == \E g \in Dials : Accept(g) \/ HandshakeSucceeds(g) \/ HandshakeFails(g)

Next ==
    \/ Main
    \/ \E g \in Dials : Goroutine(g) \/ NetworkFails(g)
    \/ Listen \/ Serve

(* Both processes run; tls.Dial has no timeout, so a dial ends only because *)
(* the server answers or is not there.  It need not be started.            *)
Fairness ==
    /\ WF_vars(Main) /\ WF_vars(Serve)
    /\ \A g \in Dials : WF_vars(Goroutine(g))

Spec == Init /\ [][Next]_vars /\ Fairness

-----------------------------------------------------------------------------
(* The average is printed only of dials that succeeded, one time of each:  *)
(* a goroutine that tests another's nil error instead of its own goes on   *)
(* with a nil connection, and never to its send (lines 220-250).           *)
AverageIsOfDials ==
    main = "printed" =>
        /\ received = 1..ndial
        /\ \A g \in 1..ndial : conn[g] /\ link[g] \in {"finished", "served"}

(* The client prints or dies, whatever the server does: main does not wait *)
(* for the group while a goroutine waits for main (lines 241-249).         *)
ClientEnds == main = "spawning" ~> ClientGone
=============================================================================
