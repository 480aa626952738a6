------------------------------ MODULE RpcChain ------------------------------
(***************************************************************************)
(* The RPC experiment of load-balancing/proxy: a client, a server, and     *)
(* between them, for the netproxy and pipeproxy variants, a proxy that     *)
(* serves one client over one connection to the server.  Frames travel     *)
(* over byte streams of bounded capacity, so a write may block half way    *)
(* and a read may see half a frame; one unit of a stream is a uint32 or a  *)
(* piece of a payload.  Any error is log.Fatalf: the process is gone and   *)
(* its peers find out by reading or writing.                               *)
(*                                                                         *)
(* A program is the script of its reads and writes: a preface, then a      *)
(* round that is repeated told[p] times.  Of an operator pair such as      *)
(* FitsStrictly and Fits the first is a slip that no action uses.          *)
(***************************************************************************)
EXTENDS Integers, Sequences

CONSTANTS Proxied,     \* is there a proxy?
          SockCap,     \* units a stream holds
          AddrCap,     \* length of the address buffers of proxy and server
          BodyCap,     \* length of their message buffers
          BodyLens,    \* message lengths the client is started with
          AddrLens,    \* lengths of the server's address
          NRPCs,       \* numbers of RPCs the client is started with
          Modulus      \* uint32 holds 0..Modulus-1

ASSUME ChainAssumption ==
    /\ Proxied \in BOOLEAN
    /\ SockCap \in Nat \ {0} /\ AddrCap \in Nat /\ BodyCap \in Nat
    /\ BodyLens \subseteq Nat /\ AddrLens \subseteq Nat /\ NRPCs \subseteq Int
    /\ Modulus \in Nat \ {0}

Chain == IF Proxied THEN <<"client", "proxy", "server">> ELSE <<"client", "server">>
Procs == {Chain[k] : k \in 1..Len(Chain)}
NextHop(p) == IF p = "client" THEN Chain[2] ELSE "server"
PrevHop(p) == IF p = "server" THEN Chain[Len(Chain) - 1] ELSE "client"
Links == UNION {{<<p, NextHop(p)>>, <<NextHop(p), p>>} : p \in Procs \ {"server"}}

Out(what, peer) == [dir |-> "out", what |-> what, peer |-> peer]
In(what, peer) == [dir |-> "in", what |-> what, peer |-> peer]

(* InformNRPC and GetNRPC. *)
Preface(p) ==
    CASE p = "client" -> <<Out("count", NextHop(p))>>
      [] p = "proxy"  -> <<In("count", PrevHop(p)), Out("count", NextHop(p))>>
      [] p = "server" -> <<In("count", PrevHop(p))>>

(* ClientRPC, ServeRPC and ProxyRPC. *)
AwaitsReplyFirst(p) ==
    <<Out("addr", NextHop(p)), In("reply", NextHop(p)), Out("body", NextHop(p))>>
ClientRound(p) ==
    <<Out("addr", NextHop(p)), Out("body", NextHop(p)), In("reply", NextHop(p))>>

BodyFirst(p) ==
    <<In("body", PrevHop(p)), In("addr", PrevHop(p)), Out("reply", PrevHop(p))>>
AnswersEarly(p) ==
    <<In("addr", PrevHop(p)), Out("reply", PrevHop(p)), In("body", PrevHop(p))>>
ServerRound(p) ==
    <<In("addr", PrevHop(p)), In("body", PrevHop(p)), Out("reply", PrevHop(p))>>

ReplyFirst(p) ==
    <<In("addr", PrevHop(p)), In("body", PrevHop(p)), Out("reply", PrevHop(p))>>
        \o ClientRound(p)
ProxyRound(p) ==
    <<In("addr", PrevHop(p)), In("body", PrevHop(p))>>
        \o ClientRound(p) \o <<Out("reply", PrevHop(p))>>

Round(p) == CASE p = "client" -> ClientRound(p)
              [] p = "proxy"  -> ProxyRound(p)
              [] p = "server" -> ServerRound(p)

Script(p) == Preface(p) \o Round(p)
RoundStart(p) == Len(Preface(p)) + 1

VARIABLES
    args,        \* the client's command line: nrpc, bufsz, length of srvaddr
    status,      \* per process: off, listening, dialed, running, done, failed
    at,          \* per process, the step of its script
    left,        \* per process, what is left of the frame under way
    told,        \* per process, the nrpc of its loop
    i,           \* per process, its loop counter
    frameLen,    \* per process, lengths of the addr and the body it holds
    tag,         \* per process, the RPC whose body it holds
    wire,        \* per direction of a link, what was written and not read
    dialed,      \* the processes whose dial succeeded
    interfered   \* was a process killed, or started before its server?

progress == <<at, left, told, i, frameLen, tag>>
vars == <<args, status, progress, wire, dialed, interfered>>

Header == -1      \* left: the length of the frame comes next
Unknown == -1     \* told

Init ==
    /\ args \in [nrpc : NRPCs, body : BodyLens, addr : AddrLens]
    /\ status = [p \in Procs |-> "off"]
    /\ at = [p \in Procs |-> 1]
    /\ left = [p \in Procs |-> Header]
    /\ told = [p \in Procs |-> IF p = "client" THEN args.nrpc ELSE Unknown]
    /\ i = [p \in Procs |-> 0]
    /\ frameLen = [p \in Procs |-> IF p = "client"
                                   THEN [addr |-> args.addr, body |-> args.body]
                                   ELSE [addr |-> 0, body |-> 0]]
    /\ tag = [p \in Procs |-> 0]
    /\ wire = [l \in Links |-> << >>]
    /\ dialed = {}
    /\ interfered = FALSE

Goes(p, from, to) ==
    /\ status[p] = from
    /\ status' = [status EXCEPT ![p] = to]

Fails(p) == Goes(p, "running", "failed")

-----------------------------------------------------------------------------
(* Start-up: the proxy listens, dials the server, then accepts; each side  *)
(* takes one connection.                                                   *)
Listen(p) ==
    /\ p # "client"
    /\ Goes(p, "off", "listening")
    /\ UNCHANGED <<args, progress, wire, dialed, interfered>>

Dial(p) ==
    /\ \/ p = "client" /\ Goes(p, "off", "running")
       \/ p = "proxy" /\ Goes(p, "listening", "dialed")
    /\ status[NextHop(p)] \in {"listening", "dialed"}
    /\ dialed' = dialed \cup {p}
    /\ UNCHANGED <<args, progress, wire, interfered>>

DialFails(p) ==
    /\ \/ p = "client" /\ Goes(p, "off", "failed")
       \/ p = "proxy" /\ Goes(p, "listening", "failed")
    /\ status[NextHop(p)] \notin {"listening", "dialed"}
    /\ interfered' = TRUE
    /\ UNCHANGED <<args, progress, wire, dialed>>

(* The peer has dialed; it may be gone again. *)
Accept(p) ==
    /\ \/ p = "server" /\ Goes(p, "listening", "running")
       \/ p = "proxy" /\ Goes(p, "dialed", "running")
    /\ PrevHop(p) \in dialed
    /\ UNCHANGED <<args, progress, wire, dialed, interfered>>

Kill(p) ==
    /\ status[p] \in {"listening", "dialed", "running"}
    /\ status' = [status EXCEPT ![p] = "failed"]
    /\ interfered' = TRUE
    /\ UNCHANGED <<args, progress, wire, dialed>>
-----------------------------------------------------------------------------
(* Reading and writing *)

Op(p) == Script(p)[at[p]]
Running(p, dir) == status[p] = "running" /\ Op(p).dir = dir
Gone(p) == status[p] \in {"done", "failed"}
Incoming(p) == wire[<<Op(p).peer, p>>]
Outgoing(p) == wire[<<p, Op(p).peer>>]
Buffer(what) == IF what = "addr" THEN "addr" ELSE "body"

(* The server divides by nrpc when it has served them all. *)
EndOf(p, n) == IF p = "server" /\ n = 0 THEN "failed" ELSE "done"

(* The operation under way is complete: on to the next one, or to the loop *)
(* condition i < nrpc.                                                     *)
Complete(p, n) ==
    LET atEnd  == at[p] = Len(Script(p))
        rounds == IF atEnd THEN i[p] + 1 ELSE i[p]
        atHead == atEnd \/ at[p] = Len(Preface(p))
        ends   == atHead /\ rounds >= n
    IN  /\ i' = [i EXCEPT ![p] = rounds]
        /\ left' = [left EXCEPT ![p] = Header]
        /\ at' = [at EXCEPT ![p] = IF atHead THEN RoundStart(p) ELSE @ + 1]
        /\ status' = IF ends THEN [status EXCEPT ![p] = EndOf(p, n)] ELSE status

StillIn(p, n) ==
    /\ left' = [left EXCEPT ![p] = n]
    /\ UNCHANGED <<i, at, status>>

(* n units of the frame are left. *)
Proceed(p, n) == IF n = 0 THEN Complete(p, told[p]) ELSE StillIn(p, n)

Unit(is, n) == [is |-> is, n |-> n]
Wrap(n) == n % Modulus      \* uint32(nrpc)

(* WriteUint32 and WriteFrame, a unit at a time. *)
Write(p, unit) ==
    /\ Len(Outgoing(p)) < SockCap
    /\ wire' = [wire EXCEPT ![<<p, Op(p).peer>>] = Append(@, unit)]
    /\ UNCHANGED <<args, told, frameLen, tag, dialed, interfered>>

WriteCount(p) ==
    /\ Running(p, "out") /\ Op(p).what = "count"
    /\ Write(p, Unit("count", Wrap(told[p])))
    /\ Complete(p, told[p])

WriteLength(p) ==
    /\ Running(p, "out") /\ Op(p).what # "count" /\ left[p] = Header
    /\ LET n == frameLen[p][Buffer(Op(p).what)]
       IN  Write(p, Unit("length", n)) /\ Proceed(p, n)

WritePayload(p) ==
    /\ Running(p, "out") /\ left[p] # Header
    /\ Write(p, Unit(Op(p).what, IF p = "client" THEN i[p] + 1 ELSE tag[p]))
    /\ Proceed(p, left[p] - 1)

WriteFails(p) ==
    /\ Running(p, "out") /\ Gone(Op(p).peer)
    /\ Fails(p)
    /\ UNCHANGED <<args, progress, wire, dialed, interfered>>

(* ReadUint32 and ReadFrameInto.  A frame is read into the buffer cut to   *)
(* its length, and a reply into that of the message it answers.            *)
Read(p) ==
    /\ Incoming(p) # << >>
    /\ wire' = [wire EXCEPT ![<<Op(p).peer, p>>] = Tail(@)]
    /\ UNCHANGED <<args, dialed, interfered>>

RoomFor(p, what) ==
    CASE what = "addr" -> AddrCap
      [] what = "body" -> BodyCap
      [] what = "reply" -> frameLen[p].body

FitsStrictly(p, n) == n < RoomFor(p, Op(p).what)
Fits(p, n) ==
    IF Op(p).what = "reply" THEN n = RoomFor(p, "reply") ELSE n <= RoomFor(p, Op(p).what)

BodyForgotten(p, n) == tag
BodyKept(p, n) == IF Op(p).what = "addr" THEN tag ELSE [tag EXCEPT ![p] = n]

ReadCount(p) ==
    /\ Running(p, "in") /\ Op(p).what = "count"
    /\ Read(p)
    /\ LET n == Head(Incoming(p)).n
       IN  told' = [told EXCEPT ![p] = n] /\ Complete(p, n)
    /\ UNCHANGED <<frameLen, tag>>

ReadLength(p) ==
    /\ Running(p, "in") /\ Op(p).what # "count" /\ left[p] = Header
    /\ Read(p)
    /\ LET n == Head(Incoming(p)).n
       IN  /\ Fits(p, n)
           /\ frameLen' = [frameLen EXCEPT ![p][Buffer(Op(p).what)] = n]
           /\ Proceed(p, n)
    /\ UNCHANGED <<told, tag>>

ReadPayload(p) ==
    /\ Running(p, "in") /\ left[p] # Header
    /\ Read(p)
    /\ tag' = BodyKept(p, Head(Incoming(p)).n)
    /\ Proceed(p, left[p] - 1)
    /\ UNCHANGED <<told, frameLen>>

(* A frame that does not fit; or the peer is gone and nothing more comes,  *)
(* which it does at once if the peer left something unread (a reset).      *)
ReadFails(p) ==
    /\ Running(p, "in")
    /\ \/ /\ Incoming(p) # << >> /\ Op(p).what # "count" /\ left[p] = Header
          /\ ~Fits(p, Head(Incoming(p)).n)
       \/ Gone(Op(p).peer) /\ (Incoming(p) = << >> \/ Outgoing(p) # << >>)
    /\ Fails(p)
    /\ UNCHANGED <<args, progress, wire, dialed, interfered>>

-----------------------------------------------------------------------------
Step(p) ==
    \/ WriteCount(p) \/ WriteLength(p) \/ WritePayload(p) \/ WriteFails(p)
    \/ ReadCount(p) \/ ReadLength(p) \/ ReadPayload(p) \/ ReadFails(p)

Connect(p) == Dial(p) \/ DialFails(p) \/ Accept(p)

Next == \E p \in Procs : Listen(p) \/ Connect(p) \/ Kill(p) \/ Step(p)

(* A process that can go on does: each is a loop of blocking calls.  None  *)
(* need ever be started.                                                   *)
Fairness ==
    \A p \in Procs : WF_vars(status[p] # "off" /\ (Connect(p) \/ Step(p)))

Spec == Init /\ [][Next]_vars /\ Fairness

-----------------------------------------------------------------------------
(* The two ends of a stream agree on where frames begin: a process that    *)
(* expects a length, an address, a message or a reply finds just that at   *)
(* the head of the stream, whatever pieces the frames travel in            *)
(* (frame.go 25-57).                                                       *)
FramesAreAligned ==
    \A p \in Procs :
        status[p] = "running" /\ Op(p).dir = "in" /\ Incoming(p) # << >> =>
            Head(Incoming(p)).is = IF Op(p).what = "count" THEN "count"
                                   ELSE IF left[p] = Header THEN "length"
                                   ELSE Op(p).what

(* Every call that returns brings back its own message, through the one    *)
(* buffer each process reads all its messages and replies into             *)
(* (rpc.go 50-55, 71-72).                                                  *)
RepliesAreEchoes ==
    at["client"] = RoundStart("client") /\ left["client"] = Header /\ args.body > 0 =>
        tag["client"] = i["client"]

(* Nothing fails without a cause: if nobody is killed or started too       *)
(* early, the buffers are long enough for the client's frames and uint32   *)
(* for its number of RPCs, which is not 0, no process exits with an error. *)
Fine == /\ ~interfered
        /\ args.body <= BodyCap /\ args.addr <= AddrCap
        /\ args.nrpc \in 1..Modulus - 1

FailuresHaveCauses == Fine => \A p \in Procs : status[p] # "failed"

(* A client that has connected ends, and so does everyone the connection   *)
(* leads to, with success or by an error that travels along the chain:     *)
(* nobody waits for a frame that never comes.                              *)
EveryoneConnectedEnds ==
    status["client"] = "running" ~>
        \A p \in Procs : status[p] \notin {"dialed", "running"}

(* The promise of Echo.                                                    *)
InCall == at["client"] # RoundStart("client") \/ left["client"] # Header
Calls == INSTANCE Echo
    WITH called <- IF at["client"] > 1 /\ InCall THEN i["client"] + 1 ELSE i["client"],
         served <- i["server"],
         returned <- i["client"],
         lost <- status["client"] = "failed"

EchoSpec == Calls!Spec
=============================================================================
