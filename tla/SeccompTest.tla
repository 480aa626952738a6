---------------------------- MODULE SeccompTest ----------------------------
(***************************************************************************)
(* The Lambda function that finds out which system calls its filter lets   *)
(* through (lambda/seccomp-allowlist/cmd/main.go).  An invocation plays    *)
(* the server of a TCP connection, starts a goroutine that plays the       *)
(* client, notes the outcome of every call in a map under a lock, and      *)
(* marshals the map without that lock and without waiting for the client,  *)
(* which may go on into later invocations of the same process.             *)
(*                                                                         *)
(* A call fails when the filter denies it, or when the kernel has a        *)
(* reason: the port is still in use, nobody listens, the peer has gone.    *)
(* The server's calls and their AddResult are one step each: no one else   *)
(* writes those names.  The client's are two.  Of an operator pair such as *)
(* WriteUnreported and AfterWrite the first is a slip that no action uses. *)
(***************************************************************************)
EXTENDS Integers, FiniteSets

CONSTANTS MaxInvocations,   \* bound: invocations of the process
          Policies          \* the sets of calls a filter may deny

Invocations == 1..MaxInvocations

Syscalls == {"socket", "bind", "listen", "accept", "connect", "read", "write", "close"}

(* The keys of Results, and the call each is about. *)
SrvNames == {"socket", "bind", "listen", "accept", "socket.read",
             "socket_srv.nfd.close", "socket_srv.close"}
ClntNames == {"connect", "socket.write", "socket_clnt.close"}
Names == SrvNames \cup ClntNames

CallOf(name) ==
    CASE name = "socket.read" -> "read"
      [] name = "socket.write" -> "write"
      [] name \in {"socket_srv.nfd.close", "socket_srv.close", "socket_clnt.close"} -> "close"
      [] OTHER -> name

ASSUME SeccompAssumption ==
    Policies \subseteq SUBSET Syscalls /\ MaxInvocations \in Nat

VARIABLES
    denied,     \* the calls this filter denies
    inv,        \* the invocation under way, or the last one
    srv,        \* HandleRequest and socketSrv: the next call, or idle, dead
    clnt,       \* per invocation, the next step of its client goroutine
    err,        \* per invocation, did the last call of its client fail?
    results,    \* per invocation, sc.Results: none, ok, fail
    report,     \* per invocation, the map it returned; empty before
    begun,      \* the results when json.Marshal began to iterate
    listener,   \* per invocation, its fd: none, bound, listening, closed
    peer,       \* per invocation, its client's end: none, open, closed
    conn,       \* per invocation, the server's end of its client's connection:
                \* none, queued, open, reset, lingering (TIME-WAIT), gone
    sent,       \* per invocation, is the message unread in that connection?
    blocked     \* history: the invocations that found the port in use

kernel == <<listener, peer, conn, sent>>
vars == <<denied, inv, srv, clnt, err, results, report, begun, kernel, blocked>>

NoResults == [n \in Names |-> "none"]
NoReport == << >>

Init ==
    /\ denied \in Policies
    /\ inv = 0 /\ srv = "idle" /\ begun = NoResults /\ blocked = {}
    /\ clnt = [i \in Invocations |-> "off"]
    /\ err = [i \in Invocations |-> FALSE]
    /\ results = [i \in Invocations |-> NoResults]
    /\ report = [i \in Invocations |-> NoReport]
    /\ listener = [i \in Invocations |-> "none"]
    /\ peer = [i \in Invocations |-> "none"]
    /\ conn = [i \in Invocations |-> "none"]
    /\ sent = [i \in Invocations |-> FALSE]

Allowed(call) == call \notin denied
Outcome(ok) == IF ok THEN "ok" ELSE "fail"

-----------------------------------------------------------------------------
(* The invocation: HandleRequest, socketSrv *)

(* An event that is not null: NewSyscalls. *)
Invoke ==
    /\ srv = "idle" /\ inv + 1 \in Invocations
    /\ inv' = inv + 1
    /\ srv' = "socket"
    /\ UNCHANGED <<denied, clnt, err, results, report, begun, kernel, blocked>>

(* event.ID is read before event is compared with nil: a panic. *)
InvokeWithNull ==
    /\ srv = "idle" /\ inv + 1 \in Invocations
    /\ srv' = "dead"
    /\ UNCHANGED <<denied, inv, clnt, err, results, report, begun, kernel, blocked>>

(* A call of the server returns, its result is added, and next it calls    *)
(* good or bad.                                                            *)
SrvCall(name, ok, good, bad) ==
    /\ results' = [results EXCEPT ![inv][name] = Outcome(ok)]
    /\ srv' = IF ok THEN good ELSE bad
    /\ UNCHANGED <<denied, inv, err, report, begun>>

SrvSocket ==
    /\ srv = "socket"
    /\ SrvCall("socket", Allowed("socket"), "bind", "marshal")
    /\ UNCHANGED <<clnt, kernel, blocked>>

(* The port is in use while any socket of it is left, also a connection    *)
(* that the server closed first: no SO_REUSEADDR is set.                   *)
PortInUse ==
    \E i \in Invocations :
        listener[i] \in {"bound", "listening"} \/ conn[i] \in {"open", "lingering"}

SrvBind ==
    LET ok == Allowed("bind") /\ ~PortInUse
    IN  /\ srv = "bind"
        /\ SrvCall("bind", ok, "listen", "close fd")
        /\ listener' = IF ok THEN [listener EXCEPT ![inv] = "bound"] ELSE listener
        /\ blocked' = IF PortInUse THEN blocked \cup {inv} ELSE blocked
        /\ UNCHANGED <<clnt, peer, conn, sent>>

(* Then go sc.socketClnt(). *)
SrvListen ==
    LET ok == Allowed("listen")
    IN  /\ srv = "listen"
        /\ SrvCall("listen", ok, "accept", "close fd")
        /\ listener' = IF ok THEN [listener EXCEPT ![inv] = "listening"] ELSE listener
        /\ clnt' = IF ok THEN [clnt EXCEPT ![inv] = "socket"] ELSE clnt
        /\ UNCHANGED <<peer, conn, sent, blocked>>

(* Accept waits for a connection, however long. *)
SrvAccept ==
    /\ srv = "accept"
    /\ \/ /\ ~Allowed("accept")
          /\ UNCHANGED conn
       \/ /\ Allowed("accept")
          /\ \E i \in Invocations : /\ conn[i] = "queued"
                                    /\ conn' = [conn EXCEPT ![i] = "open"]
    /\ SrvCall("accept", Allowed("accept"), "read", "close fd")
    /\ UNCHANGED <<clnt, listener, peer, sent, blocked>>

(* nfd; the listener of an invocation accepts one connection. *)
Accepted == {i \in Invocations : conn[i] = "open"}

(* Read waits for the message or for the end of the connection; a wrong    *)
(* size overwrites the result of the call.                                 *)
SrvRead ==
    /\ srv = "read"
    /\ \E i \in Accepted :
          /\ ~Allowed("read") \/ sent[i] \/ peer[i] = "closed"
          /\ SrvCall("socket.read", Allowed("read") /\ sent[i],
                     "close nfd", "close nfd")
          /\ sent' = IF Allowed("read") THEN [sent EXCEPT ![i] = FALSE] ELSE sent
    /\ UNCHANGED <<clnt, listener, peer, conn, blocked>>

(* The end that closes first lingers in TIME-WAIT, unless it left data     *)
(* unread: then the connection is reset.                                   *)
ServerEndAfterClose(i) ==
    IF peer[i] = "closed" THEN "gone" ELSE IF sent[i] THEN "reset" ELSE "lingering"

SrvCloseNfd ==
    /\ srv = "close nfd"
    /\ SrvCall("socket_srv.nfd.close", Allowed("close"), "close fd", "close fd")
    /\ conn' = IF Allowed("close")
               THEN [i \in Invocations |->
                        IF i \in Accepted THEN ServerEndAfterClose(i) ELSE conn[i]]
               ELSE conn
    /\ UNCHANGED <<clnt, listener, peer, sent, blocked>>

(* Connections that were not accepted are reset. *)
SrvCloseFd ==
    /\ srv = "close fd"
    /\ SrvCall("socket_srv.close", Allowed("close"), "marshal", "marshal")
    /\ IF Allowed("close")
       THEN /\ listener' = [listener EXCEPT ![inv] = "closed"]
            /\ conn' = [i \in Invocations |-> IF conn[i] = "queued" THEN "reset" ELSE conn[i]]
       ELSE UNCHANGED <<listener, conn>>
    /\ UNCHANGED <<clnt, peer, sent, blocked>>

(* json.Marshal iterates over the map without the lock. *)
MarshalBegins ==
    /\ srv = "marshal"
    /\ srv' = "marshalling"
    /\ begun' = results[inv]
    /\ UNCHANGED <<denied, inv, clnt, err, results, report, kernel, blocked>>

(* Of what was added meanwhile, any part may be in the report. *)
MarshalEnds ==
    /\ srv = "marshalling"
    /\ srv' = "idle"
    /\ \E seen \in SUBSET {n \in Names : results[inv][n] # begun[n]} :
          report' = [report EXCEPT ![inv] =
              [n \in Names |-> IF n \in seen THEN results[inv][n] ELSE begun[n]]]
    /\ UNCHANGED <<denied, inv, clnt, err, results, begun, kernel, blocked>>

-----------------------------------------------------------------------------
(* The client: socketClnt *)

ClntCall(i, from, to, ok) ==
    /\ srv # "dead"
    /\ clnt[i] = from
    /\ clnt' = [clnt EXCEPT ![i] = to]
    /\ err' = [err EXCEPT ![i] = ~ok]
    /\ UNCHANGED <<denied, inv, srv, results, report, begun, blocked>>

(* AddResult; the runtime kills a process it sees writing to a map that is *)
(* being iterated over.                                                    *)
AddResult(i, from, name, to) ==
    /\ srv # "dead"
    /\ clnt[i] = from
    /\ clnt' = [clnt EXCEPT ![i] = to]
    /\ results' = [results EXCEPT ![i][name] = Outcome(~err[i])]
    /\ \/ UNCHANGED srv
       \/ i = inv /\ srv = "marshalling" /\ srv' = "dead"
    /\ UNCHANGED <<denied, inv, err, report, begun, kernel, blocked>>

(* No result is added for this call; without a socket the client gives up. *)
ClntSocket(i) ==
    /\ ClntCall(i, "socket", IF Allowed("socket") THEN "connect" ELSE "ended", Allowed("socket"))
    /\ UNCHANGED kernel

Listening == \E i \in Invocations : listener[i] = "listening"

ConnectUnreported(i) == IF err[i] THEN "ended" ELSE "write"
AfterConnect(i) == "add connect"

ClntConnect(i) ==
    LET ok == Allowed("connect") /\ Listening
    IN  /\ ClntCall(i, "connect", AfterConnect(i), ok)
        /\ peer' = IF ok THEN [peer EXCEPT ![i] = "open"] ELSE peer
        /\ conn' = IF ok THEN [conn EXCEPT ![i] = "queued"] ELSE conn
        /\ UNCHANGED <<listener, sent>>

AddConnect(i) ==
    AddResult(i, "add connect", "connect", IF err[i] THEN "ended" ELSE "write")

(* After the server's close one write is still taken, and answered by a    *)
(* reset.                                                                  *)
WriteUnreported(i) == "close"
AfterWrite(i) == "add write"

ClntWrite(i) ==
    LET ok == Allowed("write") /\ conn[i] # "reset"
    IN  /\ ClntCall(i, "write", AfterWrite(i), ok)
        /\ sent' = IF ok /\ conn[i] \in {"queued", "open"}
                   THEN [sent EXCEPT ![i] = TRUE] ELSE sent
        /\ conn' = IF ok /\ conn[i] = "lingering"
                   THEN [conn EXCEPT ![i] = "reset"] ELSE conn
        /\ UNCHANGED <<listener, peer>>

(* The result, and for a failed write, whose size is wrong, another one in *)
(* its place.                                                              *)
AddWrite(i) ==
    AddResult(i, "add write", "socket.write", IF err[i] THEN "add size" ELSE "close")

GivesUp == "ended"
ClosesAnyhow == "close"
AddWriteSize(i) == AddResult(i, "add size", "socket.write", ClosesAnyhow)

ClntClose(i) ==
    /\ ClntCall(i, "close", "add close", Allowed("close"))
    /\ peer' = IF Allowed("close") THEN [peer EXCEPT ![i] = "closed"] ELSE peer
    /\ UNCHANGED <<listener, conn, sent>>

AddClose(i) == AddResult(i, "add close", "socket_clnt.close", "ended")

-----------------------------------------------------------------------------
(* The kernel forgets a connection after a minute. *)
LingerEnds(i) ==
    /\ conn[i] = "lingering"
    /\ conn' = [conn EXCEPT ![i] = "gone"]
    /\ UNCHANGED <<denied, inv, srv, clnt, err, results, report, begun,
                   listener, peer, sent, blocked>>

Server ==
    \/ SrvSocket \/ SrvBind \/ SrvListen \/ SrvAccept \/ SrvRead
    \/ SrvCloseNfd \/ SrvCloseFd \/ MarshalBegins \/ MarshalEnds

Client(i) ==
    \/ ClntSocket(i) \/ ClntConnect(i) \/ AddConnect(i)
    \/ ClntWrite(i) \/ AddWrite(i) \/ AddWriteSize(i)
    \/ ClntClose(i) \/ AddClose(i)

Next ==
    \/ Invoke \/ InvokeWithNull
    \/ Server
    \/ \E i \in Invocations : Client(i) \/ LingerEnds(i)

(* Goroutines that can run do, as long as an invocation is under way: in   *)
(* between Lambda may freeze the process.                                  *)
Fairness ==
    WF_vars(Server) /\ \A i \in Invocations : WF_vars(srv # "idle" /\ Client(i))

Spec == Init /\ [][Next]_vars /\ Fairness

-----------------------------------------------------------------------------
(* Whatever a report says failed, it also names a call that failed for a   *)
(* reason of its own: one the filter denies, or a bind to a port that an   *)
(* earlier invocation still held.  A failed read in particular never comes *)
(* without the failed write behind it, though nothing waits for the client *)
(* (lines 78-84, 118-122, 182).                                            *)
ReportsNameACulprit ==
    \A i \in Invocations : report[i] # NoReport =>
        LET failed == {n \in Names : report[i][n] = "fail"}
        IN  failed # {} =>
                \E n \in failed : CallOf(n) \in denied \/ (n = "bind" /\ i \in blocked)

(* A report in which the message arrived says that the client connected    *)
(* and does not say that it failed to write: those of the client's results *)
(* that the marshalling may miss came after the message (lines 76, 79,     *)
(* 118, 182).                                                              *)
ReadMeansConnected ==
    \A i \in Invocations : report[i] # NoReport =>
        (report[i]["socket.read"] = "ok" =>
            report[i]["connect"] = "ok" /\ report[i]["socket.write"] # "fail")

(* An invocation returns a report, or dies of the unlocked map, under      *)
(* every filter that lets the client connect and either write or close;    *)
(* under others Accept or Read may wait for ever (lines 75, 114, 118).     *)
ClientIsHeard == Allowed("connect") /\ (Allowed("write") \/ Allowed("close"))

InvocationsReturn ==
    \A i \in Invocations :
        (inv = i /\ srv = "socket" /\ ClientIsHeard)
            ~> (report[i] # NoReport \/ srv = "dead")
=============================================================================
