--------------------------- MODULE RpcChainProofs ---------------------------
(***************************************************************************)
(* Proofs about the RPC chain, with a proxy or without, for streams and    *)
(* buffers of any capacity, frames of any length, any number of RPCs and   *)
(* any width of uint32: the ends of a stream agree on its frames, every    *)
(* reply echoes its message, no process fails without a cause, and every   *)
(* step is a step of Echo or one it does not see.                          *)
(*                                                                         *)
(* The invariant gives every process, from the step it is at and what is   *)
(* left of its frame, four positions: how much of the round's request it   *)
(* has sent on and has taken, how much of the reply it has answered and    *)
(* has got back.  A stream holds what lies between the positions of its    *)
(* two ends.                                                               *)
(***************************************************************************)
EXTENDS RpcChain, TLAPS

(* The scripts, step by step. *)
Steps(p) == IF p = "proxy" THEN 8 ELSE 4
Start(p) == IF p = "proxy" THEN 3 ELSE 2
FirstOut(p) == IF p = "client" THEN 2 ELSE 5     \* the address goes on
FirstIn(p) == IF p = "server" THEN 2 ELSE 3      \* the address comes in

Dir(p, s) ==
    IF p = "client" THEN IF s = 4 THEN "in" ELSE "out"
    ELSE IF p = "server" THEN IF s = 4 THEN "out" ELSE "in"
    ELSE IF s \in {1, 3, 4, 7} THEN "in" ELSE "out"
What(p, s) ==
    IF p = "proxy"
    THEN IF s \in {1, 2} THEN "count" ELSE IF s \in {3, 5} THEN "addr"
         ELSE IF s \in {4, 6} THEN "body" ELSE "reply"
    ELSE IF s = 1 THEN "count" ELSE IF s = 2 THEN "addr"
         ELSE IF s = 3 THEN "body" ELSE "reply"
IsForward(what) == what # "reply"
Peer(p, s) ==
    IF (Dir(p, s) = "out") = IsForward(What(p, s)) THEN NextHop(p) ELSE PrevHop(p)
NextStep(p, s) == IF s = Steps(p) THEN Start(p) ELSE s + 1

Size(a, what) == IF what = "addr" THEN a.addr ELSE a.body

(* A step of the script at which l was left of the frame, after a unit. *)
Finishes(a, p, s, l) ==
    \/ What(p, s) = "count"
    \/ l = 1
    \/ l = Header /\ Size(a, What(p, s)) = 0
Advances(a, p, s, l, j, s2, l2, j2) ==
    IF Finishes(a, p, s, l)
    THEN /\ s2 = NextStep(p, s) /\ l2 = Header
         /\ j2 = IF s = Steps(p) THEN j + 1 ELSE j
    ELSE /\ s2 = s /\ j2 = j
         /\ l2 = IF l = Header THEN Size(a, What(p, s)) ELSE l - 1

(* Positions. *)
RequestLen(a) == 2 + a.addr + a.body
ReplyLen(a) == 1 + a.body
Moved(l, n) == IF l = Header THEN 0 ELSE 1 + n - l

InRequest(a, what, l) ==
    IF what = "count" THEN -1
    ELSE IF what = "addr" THEN Moved(l, a.addr) ELSE 1 + a.addr + Moved(l, a.body)

SentAt(p, a, s, l) ==
    IF s < Start(p) THEN -1
    ELSE IF s < FirstOut(p) THEN 0
    ELSE IF s < FirstOut(p) + 2 THEN InRequest(a, What(p, s), l)
    ELSE RequestLen(a)
TakenAt(p, a, s, l) ==
    IF s = 1 THEN -1
    ELSE IF s < FirstIn(p) THEN 0
    ELSE IF s < FirstIn(p) + 2 THEN InRequest(a, What(p, s), l)
    ELSE RequestLen(a)
GotAt(p, a, s, l) ==
    IF s < FirstOut(p) + 2 THEN 0
    ELSE IF s = FirstOut(p) + 2 THEN Moved(l, a.body) ELSE ReplyLen(a)
AnsweredAt(p, a, s, l) ==
    IF s = Steps(p) THEN Moved(l, a.body) ELSE 0

Sent(p) == SentAt(p, args, at[p], left[p])
Taken(p) == TakenAt(p, args, at[p], left[p])
Got(p) == GotAt(p, args, at[p], left[p])
Answered(p) == AnsweredAt(p, args, at[p], left[p])

(* Unit k of the request or reply of round n; 0 is the count, which comes  *)
(* once.  It is the client's if uint32 holds that.                         *)
Sound(a) == a.nrpc \in 1..Modulus - 1

IsRequestUnit(a, x, k, n) ==
    /\ k = 0 => x.is = "count" /\ (Sound(a) => x.n = a.nrpc)
    /\ k = 1 => x = Unit("length", a.addr)
    /\ k > 1 /\ k < a.addr + 2 => x.is = "addr"
    /\ k = a.addr + 2 => x = Unit("length", a.body)
    /\ k > a.addr + 2 => x = Unit("body", n)
IsReplyUnit(a, x, k, n) ==
    /\ k = 1 => x = Unit("length", a.body)
    /\ k > 1 => x = Unit("reply", n)
IsUnit(a, forward, x, k, n) ==
    IF forward THEN IsRequestUnit(a, x, k, n) ELSE IsReplyUnit(a, x, k, n)

(* The stream w holds what lies between from and to. *)
Carries(a, forward, w, from, to, n) ==
    /\ Len(w) = to - from
    /\ \A k \in 1..Len(w) : IsUnit(a, forward, w[k], from + k, n)

(* A process and the next, which is in the same round or, until its reply  *)
(* has been read, one ahead.                                               *)
HopState(a, iu, id, sent, taken, got, answered, down, up) ==
    /\ id \in {iu, iu + 1}
    /\ id # iu => taken = 0
    /\ Carries(a, TRUE, down, IF id = iu THEN taken ELSE RequestLen(a), sent, iu + 1)
    /\ Carries(a, FALSE, up, got, IF id = iu THEN answered ELSE ReplyLen(a), iu + 1)

HopInv(u, d) ==
    HopState(args, i[u], i[d], Sent(u), Taken(d), Got(u), Answered(d),
             wire[<<u, d>>], wire[<<d, u>>])

(* A process by itself. *)
HasAddr(p, s, l) == p = "client" \/ s > FirstIn(p) \/ (s = FirstIn(p) /\ l # Header)
HasBody(p, s, l) ==
    p = "client" \/ s > FirstIn(p) + 1 \/ (s = FirstIn(p) + 1 /\ l # Header)
InFrame(a, p, s, l) ==
    l = Header \/ (What(p, s) # "count" /\ l \in 1..Size(a, What(p, s)))

NotYet == {"off", "listening", "dialed"}

Local(a, p, s, l, j, fl, tg, n) ==
    /\ s \in 1..Steps(p)
    /\ InFrame(a, p, s, l)
    /\ s < Start(p) => j = 0
    /\ HasAddr(p, s, l) => fl.addr = a.addr
    /\ HasBody(p, s, l) => fl.body = a.body
    /\ a.body > 0 => IF p = "client" THEN s # 4 => tg = j
                     ELSE s > FirstIn(p) + 1 => tg = j + 1
    /\ Sound(a) /\ (p = "client" \/ s > 1) => n = a.nrpc

LocalInv(p) ==
    /\ Local(args, p, at[p], left[p], i[p], frameLen[p], tag[p], told[p])
    /\ status[p] \in NotYet => at[p] = 1

(* Without a cause, each process counts the client's RPCs and ends with    *)
(* the last.                                                               *)
CauseInv(p) ==
    /\ status[p] # "failed"
    /\ status[p] = "done" => i[p] = args.nrpc /\ at[p] = Start(p) /\ left[p] = Header
    /\ status[p] = "running" /\ at[p] >= Start(p) => i[p] < args.nrpc

Units == [is : {"count", "length", "addr", "body", "reply"}, n : Int]
Statuses == NotYet \cup {"running", "done", "failed"}

ChainTypes ==
    /\ args \in [nrpc : Int, body : Nat, addr : Nat]
    /\ status \in [Procs -> Statuses]
    /\ at \in [Procs -> Nat]
    /\ left \in [Procs -> Int]
    /\ told \in [Procs -> Int]
    /\ i \in [Procs -> Nat]
    /\ frameLen \in [Procs -> [addr : Nat, body : Nat]]
    /\ tag \in [Procs -> Int]
    /\ wire \in [Links -> Seq(Units)]
    /\ interfered \in BOOLEAN

Senders == Procs \ {"server"}

ChainInv ==
    /\ ChainTypes
    /\ \A p \in Procs : LocalInv(p)
    /\ \A u \in Senders : HopInv(u, NextHop(u))

CausesInv == Fine => \A p \in Procs : CauseInv(p)
-----------------------------------------------------------------------------
(* The chain and its scripts.                                              *)

LEMMA ChainIs ==
    /\ Procs = IF Proxied THEN {"client", "proxy", "server"} ELSE {"client", "server"}
    /\ NextHop("client") = IF Proxied THEN "proxy" ELSE "server"
    /\ NextHop("proxy") = "server"
    /\ PrevHop("server") = IF Proxied THEN "proxy" ELSE "client"
    /\ PrevHop("proxy") = "client"
  <1>1. CASE Proxied
    <2>1. Chain = <<"client", "proxy", "server">>
      BY <1>1 DEF Chain
    <2>2. Len(Chain) = 3 /\ Chain[1] = "client" /\ Chain[2] = "proxy" /\ Chain[3] = "server"
      BY <2>1
    <2>3. 1..3 = {1, 2, 3}
      OBVIOUS
    <2>4. Procs = {"client", "proxy", "server"}
      BY <2>2, <2>3 DEF Procs
    <2> QED
      BY <1>1, <2>2, <2>4 DEF NextHop, PrevHop
  <1>2. CASE ~Proxied
    <2>1. Chain = <<"client", "server">>
      BY <1>2 DEF Chain
    <2>2. Len(Chain) = 2 /\ Chain[1] = "client" /\ Chain[2] = "server"
      BY <2>1
    <2>3. 1..2 = {1, 2}
      OBVIOUS
    <2>4. Procs = {"client", "server"}
      BY <2>2, <2>3 DEF Procs
    <2> QED
      BY <1>2, <2>2, <2>4 DEF NextHop, PrevHop
  <1> QED
    BY <1>1, <1>2

(* A process and its neighbours. *)
LEMMA Neighbours ==
    /\ \A u \in Senders : /\ NextHop(u) \in Procs /\ NextHop(u) # "client"
                          /\ PrevHop(NextHop(u)) = u /\ NextHop(u) # u
    /\ \A d \in Procs : d # "client" => /\ PrevHop(d) \in Senders
                                        /\ NextHop(PrevHop(d)) = d
    /\ "client" \in Senders /\ "client" \in Procs /\ "server" \in Procs
    /\ \A p \in Procs : p \in {"client", "proxy", "server"}
    /\ Senders \subseteq Procs
  BY ChainIs DEF Senders

LEMMA LinkIs ==
    ASSUME NEW u \in Senders
    PROVE  <<u, NextHop(u)>> \in Links /\ <<NextHop(u), u>> \in Links
  BY DEF Links, Senders

(* A concatenation, element by element. *)
IsConcat(r, s, t) == r = s \o t

Joined(r, s, t) ==
    /\ Len(r) = Len(s) + Len(t)
    /\ \A k \in 1..Len(s) : r[k] = s[k]
    /\ \A k \in 1..Len(t) : r[Len(s) + k] = t[k]

LEMMA ConcatIs ==
    ASSUME NEW S, NEW s \in Seq(S), NEW t \in Seq(S), NEW r, IsConcat(r, s, t)
    PROVE  r \in Seq(S) /\ Joined(r, s, t)
  <1>1. r \in Seq(S) /\ Len(r) = Len(s) + Len(t)
    BY DEF IsConcat
  <1>2. \A k \in 1..Len(s) : r[k] = s[k]
    BY DEF IsConcat
  <1>3. \A k \in 1..Len(t) : r[Len(s) + k] = t[k]
    BY DEF IsConcat
  <1> QED
    BY <1>1, <1>2, <1>3 DEF Joined

LEMMA OneAndThree ==
    ASSUME NEW a, NEW b, NEW c, NEW d, NEW u, u = <<a>>, NEW v, v = <<b, c, d>>,
           NEW s, IsConcat(s, u, v)
    PROVE  Len(s) = 4 /\ s[1] = a /\ s[2] = b /\ s[3] = c /\ s[4] = d
  <1> DEFINE S == {a, b, c, d}
  <1>1. u \in Seq(S) /\ v \in Seq(S)
    OBVIOUS
  <1>2. Len(u) = 1 /\ u[1] = a /\ Len(v) = 3 /\ v[1] = b /\ v[2] = c /\ v[3] = d
    OBVIOUS
  <1> HIDE DEF S
  <1>3. Joined(s, u, v)
    BY <1>1, ConcatIs, Zenon
  <1> QED
    BY <1>2, <1>3 DEF Joined

LEMMA ProxyScript ==
    ASSUME NEW a, NEW b, NEW c, NEW d, NEW e, NEW f, NEW g, NEW h,
           NEW t, t = <<a, b>>, NEW u, u = <<c, d>>, NEW v, v = <<e, f, g>>,
           NEW w, w = <<h>>, NEW x, IsConcat(x, u, v), NEW r, IsConcat(r, x, w),
           NEW s, IsConcat(s, t, r)
    PROVE  /\ Len(s) = 8 /\ s[1] = a /\ s[2] = b /\ s[3] = c /\ s[4] = d
           /\ s[5] = e /\ s[6] = f /\ s[7] = g /\ s[8] = h
  <1> DEFINE S == {a, b, c, d, e, f, g, h}
  <1>1. t \in Seq(S) /\ u \in Seq(S) /\ v \in Seq(S) /\ w \in Seq(S)
    OBVIOUS
  <1>2. Len(t) = 2 /\ t[1] = a /\ t[2] = b /\ Len(u) = 2 /\ u[1] = c /\ u[2] = d
    OBVIOUS
  <1>3. Len(v) = 3 /\ v[1] = e /\ v[2] = f /\ v[3] = g /\ Len(w) = 1 /\ w[1] = h
    OBVIOUS
  <1> HIDE DEF S
  <1>4. x \in Seq(S) /\ Joined(x, u, v)
    BY <1>1, ConcatIs, Zenon
  <1>5. r \in Seq(S) /\ Joined(r, x, w)
    BY <1>1, <1>4, ConcatIs, Zenon
  <1>6. Joined(s, t, r)
    BY <1>1, <1>5, ConcatIs, Zenon
  <1>7. Len(x) = 5 /\ x[1] = c /\ x[2] = d /\ x[3] = e /\ x[4] = f /\ x[5] = g
    BY <1>2, <1>3, <1>4 DEF Joined
  <1>8. /\ Len(r) = 6 /\ r[1] = c /\ r[2] = d /\ r[3] = e
        /\ r[4] = f /\ r[5] = g /\ r[6] = h
    BY <1>3, <1>5, <1>7 DEF Joined
  <1> QED
    BY <1>2, <1>6, <1>8 DEF Joined

LEMMA ScriptIs ==
    ASSUME NEW p \in Procs
    PROVE  /\ Len(Script(p)) = Steps(p)
           /\ Len(Preface(p)) = Start(p) - 1
           /\ RoundStart(p) = Start(p)
           /\ \A s \in 1..Steps(p) :
                 Script(p)[s] = [dir |-> Dir(p, s), what |-> What(p, s), peer |-> Peer(p, s)]
  <1> DEFINE op(s) == [dir |-> Dir(p, s), what |-> What(p, s), peer |-> Peer(p, s)]
  <1>1. CASE p = "client"
    <2>1. /\ Preface(p) = <<Out("count", NextHop(p))>>
          /\ Round(p) =
                <<Out("addr", NextHop(p)), Out("body", NextHop(p)), In("reply", NextHop(p))>>
      BY <1>1 DEF Preface, Round, ClientRound
    <2>2. /\ Len(Script(p)) = 4
          /\ Script(p)[1] = Out("count", NextHop(p)) /\ Script(p)[2] = Out("addr", NextHop(p))
          /\ Script(p)[3] = Out("body", NextHop(p)) /\ Script(p)[4] = In("reply", NextHop(p))
      BY <2>1, OneAndThree DEF IsConcat, Script
    <2>3. Len(Preface(p)) = 1
      BY <1>1 DEF Preface
    <2>4. /\ Out("count", NextHop(p)) = op(1) /\ Out("addr", NextHop(p)) = op(2)
          /\ Out("body", NextHop(p)) = op(3) /\ In("reply", NextHop(p)) = op(4)
      BY <1>1 DEF Out, In, Dir, What, Peer, IsForward
    <2>5. Steps(p) = 4 /\ Start(p) = 2 /\ RoundStart(p) = 2
      <3>1. Steps(p) = 4 /\ Start(p) = 2
        BY <1>1 DEF Steps, Start
      <3>2. RoundStart(p) = 2
        BY <2>3 DEF RoundStart
      <3> QED
        BY <3>1, <3>2
    <2> HIDE DEF op
    <2>6. \A s \in 1..Steps(p) : Script(p)[s] = op(s)
      <3>1. 1..4 = {1, 2, 3, 4}
        OBVIOUS
      <3> QED
        BY <2>2, <2>4, <2>5, <3>1
    <2> QED
      BY <2>2, <2>3, <2>5, <2>6 DEF op
  <1>2. CASE p = "server"
    <2>1. /\ Preface(p) = <<In("count", PrevHop(p))>>
          /\ Round(p) =
                <<In("addr", PrevHop(p)), In("body", PrevHop(p)), Out("reply", PrevHop(p))>>
      BY <1>2 DEF Preface, Round, ServerRound
    <2>2. /\ Len(Script(p)) = 4
          /\ Script(p)[1] = In("count", PrevHop(p)) /\ Script(p)[2] = In("addr", PrevHop(p))
          /\ Script(p)[3] = In("body", PrevHop(p)) /\ Script(p)[4] = Out("reply", PrevHop(p))
      BY <2>1, OneAndThree DEF IsConcat, Script
    <2>3. Len(Preface(p)) = 1
      BY <1>2 DEF Preface
    <2>4. /\ In("count", PrevHop(p)) = op(1) /\ In("addr", PrevHop(p)) = op(2)
          /\ In("body", PrevHop(p)) = op(3) /\ Out("reply", PrevHop(p)) = op(4)
      BY <1>2 DEF Out, In, Dir, What, Peer, IsForward
    <2>5. Steps(p) = 4 /\ Start(p) = 2 /\ RoundStart(p) = 2
      <3>1. Steps(p) = 4 /\ Start(p) = 2
        BY <1>2 DEF Steps, Start
      <3>2. RoundStart(p) = 2
        BY <2>3 DEF RoundStart
      <3> QED
        BY <3>1, <3>2
    <2> HIDE DEF op
    <2>6. \A s \in 1..Steps(p) : Script(p)[s] = op(s)
      <3>1. 1..4 = {1, 2, 3, 4}
        OBVIOUS
      <3> QED
        BY <2>2, <2>4, <2>5, <3>1
    <2> QED
      BY <2>2, <2>3, <2>5, <2>6 DEF op
  <1>3. CASE p = "proxy"
    <2> DEFINE a == In("count", PrevHop(p))
               b == Out("count", NextHop(p))
               c == In("addr", PrevHop(p))
               d == In("body", PrevHop(p))
               e == Out("addr", NextHop(p))
               f == Out("body", NextHop(p))
               g == In("reply", NextHop(p))
               h == Out("reply", PrevHop(p))
    <2>1. /\ a = op(1) /\ b = op(2) /\ c = op(3) /\ d = op(4)
      BY <1>3 DEF Out, In, Dir, What, Peer, IsForward
    <2>2. /\ e = op(5) /\ f = op(6) /\ g = op(7) /\ h = op(8)
      BY <1>3 DEF Out, In, Dir, What, Peer, IsForward
    <2> DEFINE x == <<c, d>> \o <<e, f, g>>
    <2>3. Round(p) = x \o <<h>>
      BY <1>3 DEF Round, ProxyRound, ClientRound
    <2>4. Preface(p) = <<a, b>>
      BY <1>3 DEF Preface
    <2> HIDE DEF a, b, c, d, e, f, g, h
    <2>5. Len(Preface(p)) = 2
      BY <2>4
    <2>6. IsConcat(x, <<c, d>>, <<e, f, g>>)
      BY DEF IsConcat
    <2>7. IsConcat(Round(p), x, <<h>>) /\ IsConcat(Script(p), Preface(p), Round(p))
      BY <2>3 DEF IsConcat, Script
    <2> HIDE DEF x
    <2>10. /\ Len(Script(p)) = 8
           /\ Script(p)[1] = a /\ Script(p)[2] = b /\ Script(p)[3] = c /\ Script(p)[4] = d
           /\ Script(p)[5] = e /\ Script(p)[6] = f /\ Script(p)[7] = g /\ Script(p)[8] = h
      BY <2>4, <2>6, <2>7, ProxyScript
    <2>8. Steps(p) = 8 /\ Start(p) = 3 /\ RoundStart(p) = 3
      <3>1. Steps(p) = 8 /\ Start(p) = 3
        BY <1>3 DEF Steps, Start
      <3>2. RoundStart(p) = 3
        BY <2>5 DEF RoundStart
      <3> QED
        BY <3>1, <3>2
    <2> HIDE DEF op
    <2>9. \A s \in 1..Steps(p) : Script(p)[s] = op(s)
      <3>1. 1..8 = {1, 2, 3, 4, 5, 6, 7, 8}
        OBVIOUS
      <3> QED
        BY <2>1, <2>2, <2>8, <2>10, <3>1
    <2> QED
      BY <2>5, <2>8, <2>9, <2>10 DEF op
  <1> QED
    BY <1>1, <1>2, <1>3, Neighbours
-----------------------------------------------------------------------------
(* How a unit read or written moves the positions of a process.            *)

Args == [nrpc : Int, body : Nat, addr : Nat]
Names == {"client", "proxy", "server"}

LEMMA RequestSent ==
    ASSUME NEW a \in Args, NEW p \in Names, NEW s \in 1..Steps(p), NEW l \in Int,
           InFrame(a, p, s, l), Dir(p, s) = "out", IsForward(What(p, s)),
           NEW j \in Nat, NEW s2, NEW l2, NEW j2, Advances(a, p, s, l, j, s2, l2, j2)
    PROVE  /\ SentAt(p, a, s, l) = InRequest(a, What(p, s), l)
           /\ SentAt(p, a, s2, l2) = SentAt(p, a, s, l) + 1
           /\ p # "client" => TakenAt(p, a, s2, l2) = TakenAt(p, a, s, l)
           /\ GotAt(p, a, s2, l2) = GotAt(p, a, s, l)
           /\ p # "client" => AnsweredAt(p, a, s2, l2) = AnsweredAt(p, a, s, l)
           /\ j2 = j
  BY DEF Args, Names, Advances, Finishes, InFrame, SentAt, TakenAt, GotAt, AnsweredAt,
         InRequest, Moved, Header, Size, Steps, Start, FirstOut, FirstIn, Dir, What,
         IsForward, NextStep, RequestLen, ReplyLen

LEMMA RequestTaken ==
    ASSUME NEW a \in Args, NEW p \in Names, NEW s \in 1..Steps(p), NEW l \in Int,
           InFrame(a, p, s, l), Dir(p, s) = "in", IsForward(What(p, s)),
           NEW j \in Nat, NEW s2, NEW l2, NEW j2, Advances(a, p, s, l, j, s2, l2, j2)
    PROVE  /\ p # "client"
           /\ TakenAt(p, a, s, l) = InRequest(a, What(p, s), l)
           /\ TakenAt(p, a, s2, l2) = TakenAt(p, a, s, l) + 1
           /\ p = "proxy" => SentAt(p, a, s2, l2) = SentAt(p, a, s, l)
           /\ GotAt(p, a, s2, l2) = GotAt(p, a, s, l)
           /\ AnsweredAt(p, a, s2, l2) = AnsweredAt(p, a, s, l)
           /\ j2 = j
  BY DEF Args, Names, Advances, Finishes, InFrame, SentAt, TakenAt, GotAt, AnsweredAt,
         InRequest, Moved, Header, Size, Steps, Start, FirstOut, FirstIn, Dir, What,
         IsForward, NextStep, RequestLen, ReplyLen

(* The client is back at the start of its round when it has read a reply.  *)
LEMMA ReplyGot ==
    ASSUME NEW a \in Args, NEW p \in Names, NEW s \in 1..Steps(p), NEW l \in Int,
           InFrame(a, p, s, l), Dir(p, s) = "in", ~IsForward(What(p, s)),
           NEW j \in Nat, NEW s2, NEW l2, NEW j2, Advances(a, p, s, l, j, s2, l2, j2)
    PROVE  /\ p # "server"
           /\ GotAt(p, a, s, l) = Moved(l, a.body)
           /\ SentAt(p, a, s, l) = RequestLen(a)
           /\ p = "proxy" => /\ TakenAt(p, a, s2, l2) = TakenAt(p, a, s, l)
                             /\ AnsweredAt(p, a, s2, l2) = AnsweredAt(p, a, s, l)
           /\ IF p = "client" /\ Finishes(a, p, s, l)
              THEN /\ GotAt(p, a, s, l) + 1 = ReplyLen(a)
                   /\ GotAt(p, a, s2, l2) = 0 /\ SentAt(p, a, s2, l2) = 0
                   /\ j2 = j + 1
              ELSE /\ GotAt(p, a, s2, l2) = GotAt(p, a, s, l) + 1
                   /\ SentAt(p, a, s2, l2) = SentAt(p, a, s, l)
                   /\ j2 = j
  <1>1. CASE p = "client"
    <2>1. s = 4
      BY <1>1 DEF Steps, Dir
    <2> QED
      BY <1>1, <2>1 DEF Args, Names, Advances, Finishes, InFrame, SentAt, TakenAt, GotAt, AnsweredAt,
             InRequest, Moved, Header, Size, Steps, Start, FirstOut, FirstIn, Dir, What,
             IsForward, NextStep, RequestLen, ReplyLen
  <1>2. CASE p = "proxy"
    <2>1. s = 7
      BY <1>2 DEF Steps, Dir, What, IsForward
    <2> QED
      BY <1>2, <2>1 DEF Args, Names, Advances, Finishes, InFrame, SentAt, TakenAt, GotAt, AnsweredAt,
             InRequest, Moved, Header, Size, Steps, Start, FirstOut, FirstIn, Dir, What,
             IsForward, NextStep, RequestLen, ReplyLen
  <1>3. p # "server"
    BY DEF Dir, What, IsForward, Steps
  <1> QED
    BY <1>1, <1>2, <1>3 DEF Names

(* A process that has answered is back at the start of its round.          *)
LEMMA ReplyAnswered ==
    ASSUME NEW a \in Args, NEW p \in Names, NEW s \in 1..Steps(p), NEW l \in Int,
           InFrame(a, p, s, l), Dir(p, s) = "out", ~IsForward(What(p, s)),
           NEW j \in Nat, NEW s2, NEW l2, NEW j2, Advances(a, p, s, l, j, s2, l2, j2)
    PROVE  /\ p # "client"
           /\ AnsweredAt(p, a, s, l) = Moved(l, a.body)
           /\ TakenAt(p, a, s, l) = RequestLen(a)
           /\ p = "proxy" => /\ SentAt(p, a, s, l) = RequestLen(a)
                             /\ GotAt(p, a, s, l) = ReplyLen(a)
           /\ IF Finishes(a, p, s, l)
              THEN /\ AnsweredAt(p, a, s, l) + 1 = ReplyLen(a)
                   /\ AnsweredAt(p, a, s2, l2) = 0 /\ TakenAt(p, a, s2, l2) = 0
                   /\ p = "proxy" => SentAt(p, a, s2, l2) = 0 /\ GotAt(p, a, s2, l2) = 0
                   /\ j2 = j + 1
              ELSE /\ AnsweredAt(p, a, s2, l2) = AnsweredAt(p, a, s, l) + 1
                   /\ TakenAt(p, a, s2, l2) = TakenAt(p, a, s, l)
                   /\ p = "proxy" => /\ SentAt(p, a, s2, l2) = SentAt(p, a, s, l)
                                     /\ GotAt(p, a, s2, l2) = GotAt(p, a, s, l)
                   /\ j2 = j
  BY DEF Args, Names, Advances, Finishes, InFrame, SentAt, TakenAt, GotAt, AnsweredAt,
         InRequest, Moved, Header, Size, Steps, Start, FirstOut, FirstIn, Dir, What,
         IsForward, NextStep, RequestLen, ReplyLen

LEMMA Bounds ==
    ASSUME NEW a \in Args, NEW p \in Names, NEW s \in 1..Steps(p), NEW l \in Int,
           InFrame(a, p, s, l)
    PROVE  /\ p # "server" => SentAt(p, a, s, l) \in -1..RequestLen(a)
           /\ p # "client" => TakenAt(p, a, s, l) \in -1..RequestLen(a)
           /\ p # "server" => GotAt(p, a, s, l) \in 0..ReplyLen(a)
           /\ p = "client" => GotAt(p, a, s, l) < ReplyLen(a)
           /\ p # "client" => AnsweredAt(p, a, s, l) \in 0..a.body
           /\ p # "client" /\ AnsweredAt(p, a, s, l) # 0 => TakenAt(p, a, s, l) = RequestLen(a)
           /\ p # "server" /\ GotAt(p, a, s, l) # 0 => SentAt(p, a, s, l) = RequestLen(a)
  BY DEF Args, Names, InFrame, SentAt, TakenAt, GotAt, AnsweredAt,
         InRequest, Moved, Header, Size, Steps, Start, FirstOut, FirstIn, Dir, What,
         IsForward, NextStep, RequestLen, ReplyLen

(* The unit at the next position. *)
LEMMA NextRequestUnit ==
    ASSUME NEW a \in Args, NEW what \in {"count", "addr", "body"}, NEW l \in Int,
           NEW x \in Units, NEW n \in Int,
           l = Header \/ (what # "count" /\ l \in 1..Size(a, what))
    PROVE  IsRequestUnit(a, x, InRequest(a, what, l) + 1, n) <=>
              IF what = "count" THEN x.is = "count" /\ (Sound(a) => x.n = a.nrpc)
              ELSE IF l = Header THEN x = Unit("length", Size(a, what))
              ELSE x.is = what /\ (what = "body" => x.n = n)
  <1> DEFINE k == InRequest(a, what, l) + 1
  <1>1. x = Unit("body", n) <=> x.is = "body" /\ x.n = n
    BY DEF Unit, Units
  <1>2. CASE what = "count"
    BY <1>2 DEF IsRequestUnit, InRequest, Args
  <1>3. CASE what = "addr" /\ l = Header
    <2>1. k = 1
      BY <1>3 DEF InRequest, Moved
    <2> QED
      BY <1>3, <2>1 DEF IsRequestUnit, Args, Size
  <1>4. CASE what = "addr" /\ l # Header
    <2>1. k = 2 + a.addr - l /\ l \in 1..a.addr /\ a.addr \in Nat
      BY <1>4 DEF InRequest, Moved, Args, Size
    <2>2. k > 1 /\ k < a.addr + 2
      BY <2>1
    <2> QED
      BY <1>4, <2>1, <2>2 DEF IsRequestUnit
  <1>5. CASE what = "body" /\ l = Header
    <2>1. k = a.addr + 2 /\ a.addr \in Nat
      BY <1>5 DEF InRequest, Moved, Args
    <2> QED
      BY <1>5, <2>1 DEF IsRequestUnit, Size
  <1>6. CASE what = "body" /\ l # Header
    <2>1. /\ k = 1 + a.addr + 1 + a.body - l + 1 /\ l \in 1..a.body
          /\ a.addr \in Nat /\ a.body \in Nat
      BY <1>6 DEF InRequest, Moved, Args, Size
    <2>2. k > a.addr + 2 /\ k > 1 /\ k # 0 /\ k # 1
      BY <2>1
    <2> QED
      BY <1>1, <1>6, <2>1, <2>2 DEF IsRequestUnit
  <1> QED
    BY <1>2, <1>3, <1>4, <1>5, <1>6

LEMMA NextReplyUnit ==
    ASSUME NEW a \in Args, NEW l \in Int, NEW x \in Units, NEW n \in Int,
           l = Header \/ l \in 1..a.body
    PROVE  IsReplyUnit(a, x, Moved(l, a.body) + 1, n) <=>
              IF l = Header THEN x = Unit("length", a.body)
              ELSE x.is = "reply" /\ x.n = n
  BY DEF Unit, Units, IsReplyUnit, Moved, Header, Args

(* What a stream carries, a unit later. *)
LEMMA CarriesMore ==
    ASSUME NEW a, NEW forward \in BOOLEAN, NEW w \in Seq(Units), NEW from \in Int,
           NEW to \in Int, NEW n, NEW x \in Units,
           Carries(a, forward, w, from, to, n), IsUnit(a, forward, x, to + 1, n)
    PROVE  Carries(a, forward, Append(w, x), from, to + 1, n)
  <1> DEFINE v == Append(w, x)
  <1>1. Len(v) = Len(w) + 1 /\ Len(w) \in Nat /\ Len(w) = to - from
    <2>1. Len(v) = Len(w) + 1 /\ Len(w) \in Nat
      OBVIOUS
    <2>2. Len(w) = to - from
      BY DEF Carries
    <2> QED
      BY <2>1, <2>2
  <1>2. ASSUME NEW k \in 1..Len(v)
        PROVE  IsUnit(a, forward, v[k], from + k, n)
    <2>1. CASE k \in 1..Len(w)
      <3>1. v[k] = w[k]
        BY <2>1
      <3>2. IsUnit(a, forward, w[k], from + k, n)
        BY <2>1 DEF Carries
      <3> QED
        BY <3>1, <3>2
    <2>2. CASE k = Len(w) + 1
      <3>1. v[k] = x
        BY <2>2
      <3>2. from + k = to + 1
        BY <1>1, <2>2
      <3> QED
        BY <3>1, <3>2
    <2> QED
      BY <1>1, <2>1, <2>2
  <1> QED
    BY <1>1, <1>2 DEF Carries

LEMMA CarriesLess ==
    ASSUME NEW a, NEW forward \in BOOLEAN, NEW w \in Seq(Units), NEW from \in Int,
           NEW to \in Int, NEW n, w # << >>, Carries(a, forward, w, from, to, n)
    PROVE  /\ Carries(a, forward, Tail(w), from + 1, to, n)
           /\ IsUnit(a, forward, Head(w), from + 1, n)
           /\ from < to
  <1> DEFINE v == Tail(w)
  <1>1. Len(v) = Len(w) - 1 /\ Len(w) \in Nat \ {0} /\ Len(w) = to - from
    BY DEF Carries
  <1>2. ASSUME NEW k \in 1..Len(v)
        PROVE  IsUnit(a, forward, v[k], (from + 1) + k, n)
    <2>1. v[k] = w[k + 1] /\ k + 1 \in 1..Len(w) /\ from + (k + 1) = (from + 1) + k
      BY <1>1
    <2> QED
      BY <2>1 DEF Carries
  <1>3. IsUnit(a, forward, Head(w), from + 1, n)
    <2>1. Head(w) = w[1] /\ 1 \in 1..Len(w)
      BY <1>1
    <2> QED
      BY <2>1 DEF Carries
  <1> QED
    BY <1>1, <1>2, <1>3 DEF Carries
-----------------------------------------------------------------------------
(* A process and the next, after a unit.                                   *)

Positions(a, sent, taken, got, answered) ==
    /\ sent \in -1..RequestLen(a) /\ taken \in -1..RequestLen(a)
    /\ got \in 0..ReplyLen(a) /\ answered \in 0..a.body
    /\ answered # 0 => taken = RequestLen(a)
    /\ got # 0 => sent = RequestLen(a)

LEMMA Lengths ==
    ASSUME NEW a \in Args
    PROVE  /\ a.addr \in Nat /\ a.body \in Nat
           /\ RequestLen(a) \in Int /\ RequestLen(a) > 0
           /\ ReplyLen(a) \in Int /\ ReplyLen(a) = a.body + 1
  <1>1. a.addr \in Nat /\ a.body \in Nat
    BY DEF Args
  <1> QED
    BY <1>1 DEF RequestLen, ReplyLen

(* The sender sends a unit of its request. *)
LEMMA HopSends ==
    ASSUME NEW a \in Args, NEW iu \in Nat, NEW id \in Nat, NEW sent, NEW taken, NEW got,
           NEW answered, Positions(a, sent, taken, got, answered),
           NEW down \in Seq(Units), NEW up \in Seq(Units),
           HopState(a, iu, id, sent, taken, got, answered, down, up),
           NEW x \in Units, IsRequestUnit(a, x, sent + 1, iu + 1)
    PROVE  HopState(a, iu, id, sent + 1, taken, got, answered, Append(down, x), up)
  <1>1. RequestLen(a) \in Int /\ sent \in Int /\ taken \in Int
    BY Lengths DEF Positions
  <1> DEFINE from == IF id = iu THEN taken ELSE RequestLen(a)
  <1>2. Carries(a, TRUE, down, from, sent, iu + 1) /\ from \in Int
    BY <1>1 DEF HopState
  <1>3. IsUnit(a, TRUE, x, sent + 1, iu + 1)
    BY DEF IsUnit
  <1>4. Carries(a, TRUE, Append(down, x), from, sent + 1, iu + 1)
    BY <1>1, <1>2, <1>3, CarriesMore
  <1> QED
    BY <1>4 DEF HopState

(* The receiver takes one. *)
LEMMA HopTakes ==
    ASSUME NEW a \in Args, NEW iu \in Nat, NEW id \in Nat, NEW sent, NEW taken, NEW got,
           NEW answered, Positions(a, sent, taken, got, answered),
           NEW down \in Seq(Units), NEW up \in Seq(Units), down # << >>,
           HopState(a, iu, id, sent, taken, got, answered, down, up)
    PROVE  /\ id = iu
           /\ IsRequestUnit(a, Head(down), taken + 1, iu + 1)
           /\ HopState(a, iu, id, sent, taken + 1, got, answered, Tail(down), up)
  <1>1. /\ RequestLen(a) \in Int /\ sent \in Int /\ taken \in Int
        /\ sent <= RequestLen(a)
    BY Lengths DEF Positions
  <1> DEFINE from == IF id = iu THEN taken ELSE RequestLen(a)
  <1>2. Carries(a, TRUE, down, from, sent, iu + 1) /\ from \in Int
    BY <1>1 DEF HopState
  <1> HIDE DEF from
  <1>3. /\ Carries(a, TRUE, Tail(down), from + 1, sent, iu + 1) /\ from < sent
        /\ IsUnit(a, TRUE, Head(down), from + 1, iu + 1)
    BY <1>1, <1>2, CarriesLess
  <1>4. id = iu /\ from = taken
    BY <1>1, <1>3 DEF from
  <1> QED
    BY <1>3, <1>4 DEF HopState, IsUnit

(* The receiver answers. *)
LEMMA HopAnswers ==
    ASSUME NEW a \in Args, NEW iu \in Nat, NEW id \in Nat, NEW sent, NEW taken, NEW got,
           NEW answered, Positions(a, sent, taken, got, answered), taken = RequestLen(a),
           NEW down \in Seq(Units), NEW up \in Seq(Units),
           HopState(a, iu, id, sent, taken, got, answered, down, up),
           NEW x \in Units, IsReplyUnit(a, x, answered + 1, iu + 1)
    PROVE  /\ id = iu
           /\ HopState(a, iu, id, sent, taken, got, answered + 1, down, Append(up, x))
           /\ answered + 1 = ReplyLen(a) =>
                 HopState(a, iu, id + 1, sent, 0, got, 0, down, Append(up, x))
  <1>1. /\ RequestLen(a) > 0 /\ answered \in Int /\ got \in Int
        /\ ReplyLen(a) \in Int
    BY Lengths DEF Positions
  <1>2. id = iu
    BY <1>1 DEF HopState
  <1>3. Carries(a, FALSE, up, got, answered, iu + 1)
    BY <1>2 DEF HopState
  <1>4. IsUnit(a, FALSE, x, answered + 1, iu + 1)
    BY DEF IsUnit
  <1>5. Carries(a, FALSE, Append(up, x), got, answered + 1, iu + 1)
    BY <1>1, <1>3, <1>4, CarriesMore
  <1>6. Carries(a, TRUE, down, RequestLen(a), sent, iu + 1)
    BY <1>2 DEF HopState
  <1>7. HopState(a, iu, id, sent, taken, got, answered + 1, down, Append(up, x))
    BY <1>2, <1>5, <1>6 DEF HopState
  <1>8. ASSUME answered + 1 = ReplyLen(a)
        PROVE  HopState(a, iu, id + 1, sent, 0, got, 0, down, Append(up, x))
    <2>1. id + 1 # iu /\ id + 1 \in {iu, iu + 1}
      BY <1>2
    <2>2. Carries(a, FALSE, Append(up, x), got, ReplyLen(a), iu + 1)
      BY <1>5, <1>8
    <2> QED
      BY <1>6, <2>1, <2>2 DEF HopState
  <1> QED
    BY <1>2, <1>7, <1>8

(* The sender gets a unit of the reply. *)
LEMMA HopGets ==
    ASSUME NEW a \in Args, NEW iu \in Nat, NEW id \in Nat, NEW sent, NEW taken, NEW got,
           NEW answered, Positions(a, sent, taken, got, answered),
           NEW down \in Seq(Units), NEW up \in Seq(Units), up # << >>,
           HopState(a, iu, id, sent, taken, got, answered, down, up)
    PROVE  /\ IsReplyUnit(a, Head(up), got + 1, iu + 1)
           /\ HopState(a, iu, id, sent, taken, got + 1, answered, down, Tail(up))
           /\ got + 1 \in 1..ReplyLen(a)
  <1>1. /\ answered \in Int /\ got \in Int /\ got >= 0 /\ ReplyLen(a) \in Int
        /\ answered <= ReplyLen(a)
    BY Lengths DEF Positions
  <1> DEFINE to == IF id = iu THEN answered ELSE ReplyLen(a)
  <1>2. Carries(a, FALSE, up, got, to, iu + 1) /\ to \in Int
    BY <1>1 DEF HopState
  <1>7. to <= ReplyLen(a)
    BY <1>1
  <1> HIDE DEF to
  <1>3. /\ Carries(a, FALSE, Tail(up), got + 1, to, iu + 1) /\ got < to
        /\ IsUnit(a, FALSE, Head(up), got + 1, iu + 1)
    BY <1>1, <1>2, CarriesLess
  <1>4. IsReplyUnit(a, Head(up), got + 1, iu + 1)
    BY <1>3 DEF IsUnit
  <1>5. HopState(a, iu, id, sent, taken, got + 1, answered, down, Tail(up))
    BY <1>3 DEF HopState, to
  <1>6. got + 1 \in 1..ReplyLen(a)
    BY <1>1, <1>2, <1>3, <1>7
  <1> QED
    BY <1>4, <1>5, <1>6

(* It has got the whole reply and goes on to its next round. *)
LEMMA HopReturns ==
    ASSUME NEW a \in Args, NEW iu \in Nat, NEW id \in Nat, NEW sent, NEW taken, NEW got,
           NEW answered, sent = RequestLen(a), got = ReplyLen(a), answered \in 0..a.body,
           answered # 0 => taken = RequestLen(a),
           NEW down \in Seq(Units), NEW up \in Seq(Units),
           HopState(a, iu, id, sent, taken, got, answered, down, up)
    PROVE  /\ id = iu + 1
           /\ HopState(a, iu + 1, id, 0, taken, 0, answered, down, up)
  <1>1. /\ RequestLen(a) \in Int /\ RequestLen(a) > 0 /\ answered \in Int
        /\ ReplyLen(a) \in Int /\ answered < ReplyLen(a)
    BY Lengths
  <1>2. id # iu
    <2>1. CASE id = iu
      <3>1. Len(up) = answered - ReplyLen(a) /\ Len(up) \in Nat
        BY <2>1 DEF HopState, Carries
      <3> QED
        BY <1>1, <3>1
    <2> QED
      BY <2>1
  <1>3. id = iu + 1 /\ taken = 0 /\ answered = 0
    BY <1>1, <1>2 DEF HopState
  <1>4. Len(down) = RequestLen(a) - RequestLen(a) /\ Len(up) = ReplyLen(a) - ReplyLen(a)
    BY <1>2 DEF HopState, Carries
  <1>5. Len(down) = 0 /\ Len(up) = 0
    BY <1>1, <1>4
  <1>6. /\ Carries(a, TRUE, down, 0, 0, (iu + 1) + 1)
        /\ Carries(a, FALSE, up, 0, 0, (iu + 1) + 1)
    BY <1>5 DEF Carries
  <1> QED
    BY <1>3, <1>6 DEF HopState
-----------------------------------------------------------------------------
(* A process by itself, after a unit: what it keeps of the one it read.    *)

Keeps(a, p, s, l, j, fl, tg, n, fl2, tg2, n2) ==
    LET what == What(p, s)
        reads == Dir(p, s) = "in"
    IN  /\ fl2 = IF reads /\ what # "count" /\ l = Header
                 THEN [fl EXCEPT ![Buffer(what)] = Size(a, what)] ELSE fl
        /\ tg2 = IF reads /\ what \in {"body", "reply"} /\ l # Header THEN j + 1 ELSE tg
        /\ IF reads /\ what = "count" THEN Sound(a) => n2 = a.nrpc ELSE n2 = n

LEMMA LocalAdvances ==
    ASSUME NEW a \in Args, NEW p \in Names, NEW s, NEW l \in Int, NEW j \in Nat,
           NEW fl \in [addr : Nat, body : Nat], NEW tg, NEW n, NEW s2, NEW l2, NEW j2,
           NEW fl2, NEW tg2, NEW n2, Local(a, p, s, l, j, fl, tg, n),
           Advances(a, p, s, l, j, s2, l2, j2), Keeps(a, p, s, l, j, fl, tg, n, fl2, tg2, n2)
    PROVE  Local(a, p, s2, l2, j2, fl2, tg2, n2)
  <1>1. /\ s \in 1..Steps(p) /\ s2 \in 1..Steps(p) /\ s2 \in {s, NextStep(p, s)}
        /\ s # 1 => s2 # 1
    BY DEF Local, Advances, NextStep, Steps, Start
  <1>2. InFrame(a, p, s2, l2)
    BY DEF Local, Advances, InFrame, Finishes, Size, Args, Header
  <1>3. s2 < Start(p) => j2 = 0
    BY DEF Local, Advances, NextStep, Steps, Start
  <1>4. /\ fl2.addr = IF Dir(p, s) = "in" /\ l = Header /\ What(p, s) = "addr"
                      THEN a.addr ELSE fl.addr
        /\ fl2.body = IF Dir(p, s) = "in" /\ l = Header /\ What(p, s) \in {"body", "reply"}
                      THEN a.body ELSE fl.body
    BY DEF Keeps, Buffer, Size, What
  <1>5. HasAddr(p, s2, l2) => fl2.addr = a.addr
    BY <1>4 DEF Local, Advances, NextStep, HasAddr, Steps, Start, FirstIn, Dir, What, Names
  <1>6. HasBody(p, s2, l2) => fl2.body = a.body
    BY <1>4 DEF Local, Advances, NextStep, HasBody, Steps, Start, FirstIn, Dir, What, Names
  <1>7. a.body > 0 => IF p = "client" THEN s2 # 4 => tg2 = j2
                      ELSE s2 > FirstIn(p) + 1 => tg2 = j2 + 1
    BY DEF Local, Advances, Keeps, NextStep, Finishes, Steps, Start, FirstIn, Dir, What,
           Names, Size, Header, Args
  <1>8. Sound(a) /\ (p = "client" \/ s2 > 1) => n2 = a.nrpc
    BY <1>1 DEF Local, Advances, Keeps, NextStep, Steps, Dir, What, Names, Finishes
  <1> QED
    BY <1>1, <1>2, <1>3, <1>5, <1>6, <1>7, <1>8 DEF Local
-----------------------------------------------------------------------------
(* The steps of the chain: what a unit does to the process that read or    *)
(* wrote it, and that it does nothing to the others.                       *)

LEMMA OpIs ==
    ASSUME NEW p \in Procs, at[p] \in 1..Steps(p)
    PROVE  /\ Op(p).dir = Dir(p, at[p]) /\ Op(p).what = What(p, at[p])
           /\ Op(p).peer = Peer(p, at[p])
  <1>1. Op(p) = [dir |-> Dir(p, at[p]), what |-> What(p, at[p]), peer |-> Peer(p, at[p])]
    BY ScriptIs, Zenon DEF Op
  <1> QED
    BY <1>1

(* What becomes of a process whose loop is told to end after n rounds. *)
StatusAfter(p, ends, j, n, was) == IF ends /\ j >= n THEN EndOf(p, n) ELSE was

Moves(p, n) ==
    /\ Advances(args, p, at[p], left[p], i[p], at'[p], left'[p], i'[p])
    /\ LET ends == /\ Finishes(args, p, at[p], left[p])
                   /\ NextStep(p, at[p]) = Start(p)
       IN  status'[p] = StatusAfter(p, ends, i'[p], n, status[p])
    /\ \A q \in Procs \ {p} : /\ at'[q] = at[q] /\ left'[q] = left[q]
                              /\ i'[q] = i[q] /\ status'[q] = status[q]
    /\ at' \in [Procs -> Nat] /\ left' \in [Procs -> Int]
    /\ i' \in [Procs -> Nat] /\ status' \in [Procs -> Statuses]

LEMMA CompleteMoves ==
    ASSUME ChainTypes, NEW p \in Procs, at[p] \in 1..Steps(p), status[p] = "running",
           NEW n \in Int, Finishes(args, p, at[p], left[p]), Complete(p, n)
    PROVE  Moves(p, n)
  <1>1. /\ Len(Script(p)) = Steps(p) /\ Len(Preface(p)) = Start(p) - 1
        /\ RoundStart(p) = Start(p)
    BY ScriptIs
  <1>2. Start(p) \in Nat /\ Steps(p) \in Nat /\ Start(p) < Steps(p)
    BY DEF Start, Steps
  <1> DEFINE atEnd == at[p] = Steps(p)
             rounds == IF atEnd THEN i[p] + 1 ELSE i[p]
             atHead == atEnd \/ at[p] = Start(p) - 1
             ends == atHead /\ rounds >= n
  <1>3. /\ i' = [i EXCEPT ![p] = rounds]
        /\ left' = [left EXCEPT ![p] = Header]
        /\ at' = [at EXCEPT ![p] = IF atHead THEN Start(p) ELSE at[p] + 1]
        /\ status' = IF ends THEN [status EXCEPT ![p] = EndOf(p, n)] ELSE status
    BY <1>1 DEF Complete
  <1>4. /\ at \in [Procs -> Nat] /\ left \in [Procs -> Int] /\ i \in [Procs -> Nat]
        /\ status \in [Procs -> Statuses]
    BY DEF ChainTypes
  <1>5. rounds \in Nat
    BY <1>4
  <1>6. NextStep(p, at[p]) = IF atHead THEN Start(p) ELSE at[p] + 1
    BY <1>2 DEF NextStep
  <1>7. NextStep(p, at[p]) = Start(p) <=> atHead
    BY <1>2, <1>4, <1>6
  <1>8. EndOf(p, n) \in Statuses
    BY DEF EndOf, Statuses
  <1>9. /\ at'[p] = NextStep(p, at[p]) /\ left'[p] = Header /\ i'[p] = rounds
        /\ status'[p] = IF ends THEN EndOf(p, n) ELSE status[p]
    BY <1>3, <1>4, <1>6
  <1>10. \A q \in Procs \ {p} : /\ at'[q] = at[q] /\ left'[q] = left[q]
                                /\ i'[q] = i[q] /\ status'[q] = status[q]
    BY <1>3, <1>4
  <1>11. at' \in [Procs -> Nat]
    BY <1>2, <1>3, <1>4
  <1>12. left' \in [Procs -> Int] /\ i' \in [Procs -> Nat]
    BY <1>3, <1>4, <1>5 DEF Header
  <1>13. status' \in [Procs -> Statuses]
    BY <1>3, <1>4, <1>8
  <1>14. Advances(args, p, at[p], left[p], i[p], at'[p], left'[p], i'[p])
    BY <1>9 DEF Advances
  <1>15. status'[p] = StatusAfter(p, atHead, i'[p], n, status[p])
    BY <1>9 DEF StatusAfter
  <1> HIDE DEF atHead, rounds, ends
  <1> QED
    BY <1>7, <1>10, <1>11, <1>12, <1>13, <1>14, <1>15 DEF Moves

LEMMA ProceedMoves ==
    ASSUME ChainTypes, NEW p \in Procs, status[p] = "running",
           at[p] \in 1..Steps(p), InFrame(args, p, at[p], left[p]),
           What(p, at[p]) # "count", NEW n,
           n = IF left[p] = Header THEN Size(args, What(p, at[p])) ELSE left[p] - 1,
           told[p] \in Int, Proceed(p, n)
    PROVE  Moves(p, told[p])
  <1>1. n \in Nat /\ (Finishes(args, p, at[p], left[p]) <=> n = 0)
    BY DEF Finishes, InFrame, Size, ChainTypes, Header
  <1>2. CASE n = 0
    BY <1>1, <1>2, CompleteMoves DEF Proceed
  <1>3. CASE n # 0
    <2>1. left' = [left EXCEPT ![p] = n] /\ i' = i /\ at' = at /\ status' = status
      BY <1>3 DEF Proceed, StillIn
    <2>2. /\ at \in [Procs -> Nat] /\ left \in [Procs -> Int] /\ i \in [Procs -> Nat]
          /\ status \in [Procs -> Statuses]
      BY DEF ChainTypes
    <2>3. Advances(args, p, at[p], left[p], i[p], at'[p], left'[p], i'[p])
      BY <1>1, <1>3, <2>1, <2>2 DEF Advances
    <2>4. \A q \in Procs \ {p} : /\ at'[q] = at[q] /\ left'[q] = left[q]
                                 /\ i'[q] = i[q] /\ status'[q] = status[q]
      BY <2>1, <2>2
    <2>5. left' \in [Procs -> Int]
      BY <1>1, <2>1, <2>2
    <2>6. \A j, k : StatusAfter(p, FALSE, j, k, status[p]) = status[p]
      BY DEF StatusAfter
    <2> QED
      BY <1>1, <1>3, <2>1, <2>2, <2>3, <2>4, <2>5, <2>6 DEF Moves
  <1> QED
    BY <1>2, <1>3

LEMMA WrapIs ==
    ASSUME NEW n \in 0..Modulus - 1
    PROVE  Wrap(n) = n
  BY ChainAssumption DEF Wrap

LEMMA WrapIsInt ==
    ASSUME NEW n \in Int
    PROVE  Wrap(n) \in Int
  BY ChainAssumption DEF Wrap

(* The unit x that p writes is the next of the request or of the reply.    *)
NextOut(p, x) ==
    LET what == What(p, at[p])
    IN  IF IsForward(what)
        THEN IsRequestUnit(args, x, InRequest(args, what, left[p]) + 1, i[p] + 1)
        ELSE IsReplyUnit(args, x, Moved(left[p], args.body) + 1, i[p] + 1)

Writes(p, x) ==
    /\ status[p] = "running" /\ Dir(p, at[p]) = "out"
    /\ wire' = [wire EXCEPT ![<<p, Peer(p, at[p])>>] = Append(@, x)]
    /\ UNCHANGED <<args, told, frameLen, tag, interfered>>

LEMMA NextOutIs ==
    ASSUME ChainInv, NEW p \in Procs, NEW x \in Units,
           LET what == What(p, at[p])
           IN  IF what = "count" THEN x.is = "count" /\ (Sound(args) => x.n = args.nrpc)
               ELSE IF left[p] = Header THEN x = Unit("length", Size(args, what))
               ELSE x.is = what /\ (what # "addr" => x.n = i[p] + 1)
    PROVE  NextOut(p, x)
  <1> DEFINE what == What(p, at[p])
  <1>1. /\ args \in Args /\ left[p] \in Int /\ i[p] + 1 \in Int
        /\ InFrame(args, p, at[p], left[p])
    BY DEF ChainInv, ChainTypes, Args, LocalInv, Local
  <1>2. what \in {"count", "addr", "body", "reply"}
    BY DEF What
  <1>3. left[p] = Header \/ (what # "count" /\ left[p] \in 1..Size(args, what))
    BY <1>1 DEF InFrame
  <1>4. CASE what = "reply"
    <2>1. Size(args, what) = args.body
      BY <1>4 DEF Size
    <2>2. IsReplyUnit(args, x, Moved(left[p], args.body) + 1, i[p] + 1)
      BY <1>1, <1>3, <1>4, <2>1, NextReplyUnit
    <2> QED
      BY <1>4, <2>2 DEF NextOut, IsForward
  <1>5. CASE what # "reply"
    <2>1. what \in {"count", "addr", "body"}
      BY <1>2, <1>5
    <2> HIDE DEF what
    <2>2. IsRequestUnit(args, x, InRequest(args, what, left[p]) + 1, i[p] + 1)
      BY <1>1, <1>3, <2>1, NextRequestUnit DEF what
    <2> QED
      BY <1>5, <2>2 DEF NextOut, IsForward, what
  <1> QED
    BY <1>4, <1>5

LEMMA WriteSteps ==
    ASSUME ChainInv, NEW p \in Procs, WriteCount(p) \/ WriteLength(p) \/ WritePayload(p)
    PROVE  Moves(p, told[p]) /\ \E x \in Units : Writes(p, x) /\ NextOut(p, x)
  <1> DEFINE what == What(p, at[p])
  <1>1. ChainTypes /\ Local(args, p, at[p], left[p], i[p], frameLen[p], tag[p], told[p])
    BY DEF ChainInv, LocalInv
  <1>2. at[p] \in 1..Steps(p) /\ InFrame(args, p, at[p], left[p])
    BY <1>1 DEF Local
  <1>3. Op(p).dir = Dir(p, at[p]) /\ Op(p).what = what /\ Op(p).peer = Peer(p, at[p])
    BY <1>2, OpIs
  <1>4. /\ told[p] \in Int /\ left[p] \in Int /\ i[p] \in Nat /\ tag[p] \in Int
        /\ args \in Args /\ p \in Names
    BY <1>1, Neighbours DEF ChainTypes, Args, Names
  <1>5. CASE WriteCount(p)
    <2>1. /\ status[p] = "running" /\ Dir(p, at[p]) = "out" /\ what = "count"
          /\ Write(p, Unit("count", Wrap(told[p]))) /\ Complete(p, told[p])
      BY <1>3, <1>5 DEF WriteCount, Running
    <2> DEFINE x == Unit("count", Wrap(told[p]))
    <2>2. x \in Units
      BY <1>4, WrapIsInt DEF Unit, Units
    <2>3. p = "client" \/ at[p] > 1
      BY <1>2, <2>1 DEF Dir
    <2>4. Sound(args) => x.n = args.nrpc
      <3>1. SUFFICES ASSUME Sound(args) PROVE Wrap(told[p]) = args.nrpc
        BY DEF Unit
      <3>2. told[p] = args.nrpc
        BY <1>1, <2>3, <3>1 DEF Local
      <3>3. args.nrpc \in 0..Modulus - 1
        BY <3>1, ChainAssumption DEF Sound
      <3> QED
        BY <3>2, <3>3, WrapIs
    <2>5. x.is = "count"
      BY DEF Unit
    <2>6. Writes(p, x)
      BY <1>3, <2>1 DEF Write, Writes
    <2> HIDE DEF x
    <2>7. NextOut(p, x)
      BY <2>1, <2>2, <2>4, <2>5, NextOutIs
    <2>8. Finishes(args, p, at[p], left[p])
      BY <2>1 DEF Finishes
    <2>9. Moves(p, told[p])
      BY <1>1, <1>2, <1>4, <2>1, <2>8, CompleteMoves
    <2> QED
      BY <2>2, <2>6, <2>7, <2>9
  <1>6. CASE WriteLength(p)
    <2> DEFINE n == Size(args, what)
               x == Unit("length", n)
    <2>1. /\ status[p] = "running" /\ Dir(p, at[p]) = "out" /\ what # "count"
          /\ left[p] = Header
      BY <1>3, <1>6 DEF WriteLength, Running
    <2>2. /\ Write(p, Unit("length", frameLen[p][Buffer(what)]))
          /\ Proceed(p, frameLen[p][Buffer(what)])
      BY <1>3, <1>6 DEF WriteLength
    <2>3. HasAddr(p, at[p], left[p]) /\ HasBody(p, at[p], left[p])
      BY <1>2, <1>4, <2>1 DEF HasAddr, HasBody, Names, FirstIn, Steps, Dir, What
    <2>4. frameLen[p].addr = args.addr /\ frameLen[p].body = args.body
      BY <1>1, <2>3 DEF Local
    <2>5. frameLen[p][Buffer(what)] = n
      BY <2>4 DEF Size, Buffer
    <2>6. n \in Nat
      BY <1>4 DEF Args, Size
    <2>7. x \in Units
      BY <2>6 DEF Unit, Units
    <2>8. Writes(p, x)
      BY <1>3, <2>1, <2>2, <2>5 DEF Write, Writes
    <2>9. NextOut(p, x)
      BY <2>1, <2>7, NextOutIs
    <2>10. Moves(p, told[p])
      BY <1>1, <1>2, <1>4, <2>1, <2>2, <2>5, ProceedMoves
    <2> QED
      BY <2>7, <2>8, <2>9, <2>10
  <1>7. CASE WritePayload(p)
    <2> DEFINE k == IF p = "client" THEN i[p] + 1 ELSE tag[p]
               x == Unit(what, k)
    <2>1. /\ status[p] = "running" /\ Dir(p, at[p]) = "out" /\ left[p] # Header
          /\ Write(p, x) /\ Proceed(p, left[p] - 1)
      BY <1>3, <1>7 DEF WritePayload, Running
    <2>2. what # "count"
      BY <1>2, <2>1 DEF InFrame
    <2>3. k \in Int /\ what \in {"addr", "body", "reply"}
      BY <1>4, <2>2 DEF What
    <2>4. x \in Units
      BY <2>3 DEF Unit, Units
    <2>5. what # "addr" => k = i[p] + 1
      <3>1. SUFFICES ASSUME what # "addr", p # "client" PROVE tag[p] = i[p] + 1
        OBVIOUS
      <3>2. at[p] > FirstIn(p) + 1
        BY <1>2, <1>4, <2>1, <2>2, <3>1 DEF Names, Dir, FirstIn, Steps, What
      <3>3. args.body > 0
        BY <1>2, <1>4, <2>1, <3>1 DEF InFrame, Size, Args
      <3> QED
        BY <1>1, <3>1, <3>2, <3>3 DEF Local
    <2>6. Writes(p, x)
      BY <1>3, <2>1 DEF Write, Writes
    <2>7. x.is = what /\ x.n = k
      BY DEF Unit
    <2> HIDE DEF x, k
    <2>8. NextOut(p, x)
      BY <2>1, <2>2, <2>4, <2>5, <2>7, NextOutIs
    <2>9. Moves(p, told[p])
      BY <1>1, <1>2, <1>4, <2>1, <2>2, ProceedMoves
    <2> QED
      BY <2>4, <2>6, <2>8, <2>9
  <1> QED
    BY <1>5, <1>6, <1>7

(* The unit p writes or reads is the one after its position.               *)
LEMMA UnitAt ==
    ASSUME NEW a \in Args, NEW p \in Names, NEW s \in 1..Steps(p), NEW l \in Int
    PROVE  /\ Dir(p, s) = "out" /\ IsForward(What(p, s)) =>
                 p # "server" /\ SentAt(p, a, s, l) = InRequest(a, What(p, s), l)
           /\ Dir(p, s) = "in" /\ IsForward(What(p, s)) =>
                 p # "client" /\ TakenAt(p, a, s, l) = InRequest(a, What(p, s), l)
           /\ Dir(p, s) = "in" /\ ~IsForward(What(p, s)) =>
                 p # "server" /\ GotAt(p, a, s, l) = Moved(l, a.body)
           /\ Dir(p, s) = "out" /\ ~IsForward(What(p, s)) =>
                 /\ p # "client" /\ AnsweredAt(p, a, s, l) = Moved(l, a.body)
                 /\ TakenAt(p, a, s, l) = RequestLen(a)
  BY DEF Args, Names, SentAt, TakenAt, GotAt, AnsweredAt, InRequest, Moved, Header, Steps,
         Start, FirstOut, FirstIn, Dir, What, IsForward

LEMMA TypesOf ==
    ASSUME ChainInv, NEW p \in Procs
    PROVE  /\ Local(args, p, at[p], left[p], i[p], frameLen[p], tag[p], told[p])
           /\ at[p] \in 1..Steps(p) /\ InFrame(args, p, at[p], left[p])
           /\ told[p] \in Int /\ left[p] \in Int /\ i[p] \in Nat /\ tag[p] \in Int
           /\ frameLen[p] \in [addr : Nat, body : Nat]
           /\ args \in Args /\ p \in Names
  <1>1. ChainTypes /\ Local(args, p, at[p], left[p], i[p], frameLen[p], tag[p], told[p])
    BY DEF ChainInv, LocalInv
  <1>2. at[p] \in 1..Steps(p) /\ InFrame(args, p, at[p], left[p])
    BY <1>1 DEF Local
  <1> QED
    BY <1>1, <1>2, Neighbours DEF ChainTypes, Args, Names

LEMMA BoundsOf ==
    ASSUME ChainInv, NEW p \in Procs
    PROVE  /\ p # "server" => /\ Sent(p) \in -1..RequestLen(args)
                              /\ Got(p) \in 0..ReplyLen(args)
                              /\ Got(p) # 0 => Sent(p) = RequestLen(args)
           /\ p # "client" => /\ Taken(p) \in -1..RequestLen(args)
                              /\ Answered(p) \in 0..args.body
                              /\ Answered(p) # 0 => Taken(p) = RequestLen(args)
  BY TypesOf, Bounds DEF Sent, Got, Taken, Answered

LEMMA HopIs ==
    ASSUME ChainInv, NEW u \in Senders, NEW d, d = NextHop(u)
    PROVE  /\ Positions(args, Sent(u), Taken(d), Got(u), Answered(d))
           /\ HopState(args, i[u], i[d], Sent(u), Taken(d), Got(u), Answered(d),
                       wire[<<u, d>>], wire[<<d, u>>])
           /\ wire[<<u, d>>] \in Seq(Units) /\ wire[<<d, u>>] \in Seq(Units)
           /\ args \in Args /\ i[u] \in Nat /\ i[d] \in Nat
           /\ u \in Procs /\ d \in Procs /\ u # "server" /\ d # "client"
  <1>1. u \in Procs /\ d \in Procs /\ u # "server" /\ d # "client"
    BY Neighbours DEF Senders
  <1>2. args \in Args /\ i[u] \in Nat /\ i[d] \in Nat
    BY <1>1, TypesOf
  <1>3. /\ Sent(u) \in -1..RequestLen(args) /\ Got(u) \in 0..ReplyLen(args)
        /\ Got(u) # 0 => Sent(u) = RequestLen(args)
    BY <1>1, BoundsOf
  <1>4. /\ Taken(d) \in -1..RequestLen(args) /\ Answered(d) \in 0..args.body
        /\ Answered(d) # 0 => Taken(d) = RequestLen(args)
    BY <1>1, BoundsOf
  <1>8. HopInv(u, d)
    BY DEF ChainInv
  <1>9. wire[<<u, d>>] \in Seq(Units) /\ wire[<<d, u>>] \in Seq(Units)
    BY LinkIs DEF ChainInv, ChainTypes
  <1> QED
    BY <1>1, <1>2, <1>3, <1>4, <1>8, <1>9 DEF Positions, HopInv

(* What a process finds at the head of the stream it reads from.           *)
LEMMA NextIn ==
    ASSUME ChainInv, NEW p \in Procs, Dir(p, at[p]) = "in",
           NEW w, w = wire[<<Peer(p, at[p]), p>>], w # << >>, NEW what, what = What(p, at[p])
    PROVE  /\ w \in Seq(Units) /\ Head(w) \in Units
           /\ IF what = "count"
              THEN Head(w).is = "count" /\ (Sound(args) => Head(w).n = args.nrpc)
              ELSE IF left[p] = Header THEN Head(w) = Unit("length", Size(args, what))
              ELSE Head(w).is = what /\ (what # "addr" => Head(w).n = i[p] + 1)
  <1>1. /\ at[p] \in 1..Steps(p) /\ InFrame(args, p, at[p], left[p]) /\ left[p] \in Int
        /\ args \in Args /\ p \in Names /\ i[p] \in Nat
    BY TypesOf
  <1>2. what \in {"count", "addr", "body", "reply"}
    BY DEF What
  <1>3. left[p] = Header \/ (what # "count" /\ left[p] \in 1..Size(args, what))
    BY <1>1 DEF InFrame
  <1>4. CASE what = "reply"
    <2> DEFINE d == NextHop(p)
    <2>1. ~IsForward(what) /\ Peer(p, at[p]) = d
      BY <1>4 DEF IsForward, Peer
    <2>2. p \in Senders /\ Got(p) = Moved(left[p], args.body)
      BY <1>1, <2>1, UnitAt DEF Got, Senders
    <2>3. IsReplyUnit(args, Head(w), Got(p) + 1, i[p] + 1) /\ w \in Seq(Units)
      BY <2>1, <2>2, HopIs, HopGets
    <2>4. Head(w) \in Units
      BY <2>3
    <2>5. Size(args, what) = args.body
      BY <1>4 DEF Size
    <2> DEFINE x == Head(w)
               n == i[p] + 1
    <2>6. /\ x \in Units /\ n \in Int /\ (left[p] = Header \/ left[p] \in 1..args.body)
          /\ IsReplyUnit(args, x, Moved(left[p], args.body) + 1, n)
      BY <1>1, <1>3, <2>2, <2>3, <2>4, <2>5
    <2> HIDE DEF x, n
    <2>7. IF left[p] = Header THEN x = Unit("length", args.body)
          ELSE x.is = "reply" /\ x.n = n
      <3>1. left[p] \in Int /\ args \in Args
        BY <1>1
      <3>2. IsReplyUnit(args, x, Moved(left[p], args.body) + 1, n) <=>
               IF left[p] = Header THEN x = Unit("length", args.body)
               ELSE x.is = "reply" /\ x.n = n
        BY <2>6, <3>1, NextReplyUnit
      <3> QED
        BY <2>6, <3>2, Zenon
    <2> QED
      BY <1>4, <2>3, <2>4, <2>5, <2>7 DEF x, n
  <1>5. CASE what # "reply"
    <2> DEFINE u == PrevHop(p)
    <2>1. IsForward(what) /\ Peer(p, at[p]) = u
      BY <1>5 DEF IsForward, Peer
    <2>2. p # "client" /\ Taken(p) = InRequest(args, what, left[p])
      BY <1>1, <2>1, UnitAt DEF Taken
    <2>3. u \in Senders /\ NextHop(u) = p
      BY <2>2, Neighbours
    <2>4. /\ i[p] = i[u] /\ w \in Seq(Units)
          /\ IsRequestUnit(args, Head(w), Taken(p) + 1, i[u] + 1)
      <3>1. /\ Positions(args, Sent(u), Taken(p), Got(u), Answered(p))
            /\ HopState(args, i[u], i[p], Sent(u), Taken(p), Got(u), Answered(p),
                        w, wire[<<p, u>>])
            /\ w \in Seq(Units) /\ wire[<<p, u>>] \in Seq(Units)
            /\ i[u] \in Nat /\ i[p] \in Nat
        BY <2>1, <2>3, HopIs
      <3> QED
        BY <1>1, <3>1, HopTakes
    <2>5. Head(w) \in Units
      BY <2>4
    <2>6. what \in {"count", "addr", "body"} /\ i[p] + 1 \in Int
      BY <1>1, <1>2, <1>5
    <2> DEFINE x == Head(w)
               n == i[p] + 1
    <2>7. /\ x \in Units /\ n \in Int
          /\ IsRequestUnit(args, x, InRequest(args, what, left[p]) + 1, n)
      BY <2>2, <2>4, <2>5, <2>6
    <2> HIDE DEF x, n
    <2>8. IF what = "count" THEN x.is = "count" /\ (Sound(args) => x.n = args.nrpc)
          ELSE IF left[p] = Header THEN x = Unit("length", Size(args, what))
          ELSE x.is = what /\ (what = "body" => x.n = n)
      BY <1>1, <1>3, <2>6, <2>7, NextRequestUnit
    <2> QED
      BY <2>4, <2>5, <2>6, <2>8 DEF x, n
  <1> QED
    BY <1>4, <1>5

(* What p holds of the unit it wrote or read; the others hold the same.    *)
Holds(p) ==
    /\ Keeps(args, p, at[p], left[p], i[p], frameLen[p], tag[p], told[p],
             frameLen'[p], tag'[p], told'[p])
    /\ \A q \in Procs \ {p} : /\ frameLen'[q] = frameLen[q] /\ tag'[q] = tag[q]
                              /\ told'[q] = told[q]
    /\ frameLen' \in [Procs -> [addr : Nat, body : Nat]]
    /\ tag' \in [Procs -> Int] /\ told' \in [Procs -> Int]

Reads(p) ==
    LET link == <<Peer(p, at[p]), p>>
    IN  /\ status[p] = "running" /\ Dir(p, at[p]) = "in"
        /\ wire[link] # << >>
        /\ wire' = [wire EXCEPT ![link] = Tail(@)]
        /\ UNCHANGED <<args, interfered>>

LEMMA ReadSteps ==
    ASSUME ChainInv, NEW p \in Procs, ReadCount(p) \/ ReadLength(p) \/ ReadPayload(p)
    PROVE  Reads(p) /\ Holds(p) /\ Moves(p, told'[p])
  <1> DEFINE what == What(p, at[p])
             link == <<Peer(p, at[p]), p>>
             x == Head(wire[link])
  <1>1. /\ at[p] \in 1..Steps(p) /\ InFrame(args, p, at[p], left[p])
        /\ told[p] \in Int /\ left[p] \in Int /\ i[p] \in Nat /\ tag[p] \in Int
        /\ frameLen[p] \in [addr : Nat, body : Nat] /\ args \in Args /\ p \in Names
    BY TypesOf
  <1>2. Op(p).dir = Dir(p, at[p]) /\ Op(p).what = what /\ Op(p).peer = Peer(p, at[p])
    BY <1>1, OpIs
  <1>3. Reads(p)
    BY <1>2 DEF ReadCount, ReadLength, ReadPayload, Running, Read, Incoming, Reads
  <1>4. Dir(p, at[p]) = "in" /\ status[p] = "running" /\ wire[link] # << >>
    BY <1>3 DEF Reads
  <1>5. Incoming(p) = wire[link]
    BY <1>2 DEF Incoming
  <1>6. /\ x \in Units
        /\ IF what = "count" THEN x.is = "count" /\ (Sound(args) => x.n = args.nrpc)
           ELSE IF left[p] = Header THEN x = Unit("length", Size(args, what))
           ELSE x.is = what /\ (what # "addr" => x.n = i[p] + 1)
    BY <1>4, NextIn
  <1>7. x.n \in Int
    BY <1>6 DEF Units
  <1>8. ChainTypes
    BY DEF ChainInv
  <1>9. /\ frameLen \in [Procs -> [addr : Nat, body : Nat]]
        /\ tag \in [Procs -> Int] /\ told \in [Procs -> Int]
    BY <1>8 DEF ChainTypes
  <1>10. CASE ReadCount(p)
    <2>1. /\ what = "count" /\ told' = [told EXCEPT ![p] = x.n] /\ Complete(p, x.n)
          /\ frameLen' = frameLen /\ tag' = tag
      BY <1>2, <1>5, <1>10 DEF ReadCount, Running
    <2> HIDE DEF x, what, link
    <2>2. /\ told'[p] = x.n /\ told' \in [Procs -> Int]
          /\ \A q \in Procs \ {p} : told'[q] = told[q]
      BY <1>7, <1>9, <2>1
    <2>3. Keeps(args, p, at[p], left[p], i[p], frameLen[p], tag[p], told[p],
                frameLen'[p], tag'[p], told'[p])
      BY <1>4, <1>6, <2>1, <2>2 DEF Keeps, what
    <2>4. Holds(p)
      BY <1>9, <2>1, <2>2, <2>3 DEF Holds
    <2>5. Finishes(args, p, at[p], left[p])
      BY <2>1 DEF Finishes, what
    <2>6. Moves(p, told'[p])
      BY <1>1, <1>4, <1>7, <1>8, <2>1, <2>2, <2>5, CompleteMoves
    <2> QED
      BY <1>3, <2>4, <2>6
  <1>11. CASE ReadLength(p)
    <2> DEFINE n == Size(args, what)
    <2>1. /\ what # "count" /\ left[p] = Header
          /\ frameLen' = [frameLen EXCEPT ![p][Buffer(what)] = x.n]
          /\ Proceed(p, x.n) /\ told' = told /\ tag' = tag
      BY <1>2, <1>5, <1>11 DEF ReadLength, Running
    <2>2. x.n = n
      BY <1>6, <2>1 DEF Unit
    <2>3. n \in Nat /\ Buffer(what) \in {"addr", "body"}
      BY <1>1 DEF Args, Size, Buffer
    <2>4. frameLen' = [frameLen EXCEPT ![p] = [frameLen[p] EXCEPT ![Buffer(what)] = n]]
      BY <2>1, <2>2
    <2> DEFINE fl == [frameLen[p] EXCEPT ![Buffer(what)] = n]
    <2>5. fl \in [addr : Nat, body : Nat]
      BY <1>1, <2>3
    <2> HIDE DEF fl, n, x, what, link
    <2>6. /\ frameLen'[p] = fl /\ frameLen' \in [Procs -> [addr : Nat, body : Nat]]
          /\ \A q \in Procs \ {p} : frameLen'[q] = frameLen[q]
      BY <1>9, <2>4, <2>5 DEF fl
    <2>7. Keeps(args, p, at[p], left[p], i[p], frameLen[p], tag[p], told[p],
                frameLen'[p], tag'[p], told'[p])
      BY <1>4, <2>1, <2>6 DEF Keeps, fl, n, what
    <2>8. Holds(p)
      BY <1>9, <2>1, <2>6, <2>7 DEF Holds
    <2>9. Moves(p, told'[p])
      BY <1>1, <1>4, <1>8, <2>1, <2>2, ProceedMoves DEF n, what
    <2> QED
      BY <1>3, <2>8, <2>9
  <1>12. CASE ReadPayload(p)
    <2>1. /\ left[p] # Header /\ tag' = BodyKept(p, x.n) /\ Proceed(p, left[p] - 1)
          /\ told' = told /\ frameLen' = frameLen
      BY <1>2, <1>5, <1>12 DEF ReadPayload, Running
    <2>2. what # "count" /\ what \in {"addr", "body", "reply"}
      BY <1>1, <2>1 DEF InFrame, What
    <2>3. tag' = IF what = "addr" THEN tag ELSE [tag EXCEPT ![p] = i[p] + 1]
      BY <1>2, <1>6, <2>1, <2>2 DEF BodyKept
    <2> HIDE DEF x, what, link
    <2>4. /\ tag'[p] = IF what = "addr" THEN tag[p] ELSE i[p] + 1
          /\ tag' \in [Procs -> Int]
          /\ \A q \in Procs \ {p} : tag'[q] = tag[q]
      BY <1>1, <1>9, <2>3
    <2>5. Keeps(args, p, at[p], left[p], i[p], frameLen[p], tag[p], told[p],
                frameLen'[p], tag'[p], told'[p])
      BY <1>4, <2>1, <2>2, <2>4 DEF Keeps, what
    <2>6. Holds(p)
      BY <1>9, <2>1, <2>4, <2>5 DEF Holds
    <2>7. Moves(p, told'[p])
      BY <1>1, <1>4, <1>8, <2>1, <2>2, ProceedMoves DEF what
    <2> QED
      BY <1>3, <2>6, <2>7
  <1> QED
    BY <1>10, <1>11, <1>12

LEMMA WriteHolds ==
    ASSUME ChainInv, NEW p \in Procs, NEW x, Writes(p, x)
    PROVE  Holds(p) /\ told'[p] = told[p]
  <1>1. /\ frameLen \in [Procs -> [addr : Nat, body : Nat]]
        /\ tag \in [Procs -> Int] /\ told \in [Procs -> Int]
    BY DEF ChainInv, ChainTypes
  <1>2. Dir(p, at[p]) # "in" /\ frameLen' = frameLen /\ tag' = tag /\ told' = told
    BY DEF Writes
  <1>3. Keeps(args, p, at[p], left[p], i[p], frameLen[p], tag[p], told[p],
              frameLen'[p], tag'[p], told'[p])
    BY <1>2 DEF Keeps
  <1> QED
    BY <1>1, <1>2, <1>3 DEF Holds
-----------------------------------------------------------------------------
(* What the invariant needs of a step: the process by itself, the types,   *)
(* the positions.                                                          *)

LEMMA LocalKept ==
    ASSUME ChainInv, NEW p \in Procs, status[p] = "running", args' = args, Holds(p),
           Moves(p, told'[p])
    PROVE  \A q \in Procs : LocalInv(q)'
  <1>1. /\ Local(args, p, at[p], left[p], i[p], frameLen[p], tag[p], told[p])
        /\ left[p] \in Int /\ i[p] \in Nat /\ args \in Args /\ p \in Names
        /\ frameLen[p] \in [addr : Nat, body : Nat]
    BY TypesOf
  <1>2. Local(args, p, at'[p], left'[p], i'[p], frameLen'[p], tag'[p], told'[p])
    BY <1>1, LocalAdvances DEF Moves, Holds
  <1>3. status'[p] \notin NotYet
    BY DEF Moves, StatusAfter, EndOf, NotYet
  <1>4. LocalInv(p)'
    BY <1>2, <1>3 DEF LocalInv
  <1>5. ASSUME NEW q \in Procs \ {p} PROVE LocalInv(q)'
    <2>1. LocalInv(q)
      BY DEF ChainInv
    <2>2. /\ at'[q] = at[q] /\ left'[q] = left[q] /\ i'[q] = i[q]
          /\ status'[q] = status[q] /\ frameLen'[q] = frameLen[q] /\ tag'[q] = tag[q]
          /\ told'[q] = told[q]
      BY DEF Moves, Holds
    <2> QED
      BY <2>1, <2>2 DEF LocalInv
  <1> QED
    BY <1>4, <1>5

LEMMA PeerIs ==
    ASSUME NEW p \in Procs, at[p] \in 1..Steps(p)
    PROVE  /\ Dir(p, at[p]) = "out" /\ IsForward(What(p, at[p])) =>
                 p \in Senders /\ Peer(p, at[p]) = NextHop(p)
           /\ Dir(p, at[p]) = "in" /\ ~IsForward(What(p, at[p])) =>
                 p \in Senders /\ Peer(p, at[p]) = NextHop(p)
           /\ Dir(p, at[p]) = "out" /\ ~IsForward(What(p, at[p])) =>
                 Peer(p, at[p]) \in Senders /\ NextHop(Peer(p, at[p])) = p
           /\ Dir(p, at[p]) = "in" /\ IsForward(What(p, at[p])) =>
                 Peer(p, at[p]) \in Senders /\ NextHop(Peer(p, at[p])) = p
           /\ <<p, Peer(p, at[p])>> \in Links /\ <<Peer(p, at[p]), p>> \in Links
  <1>1. p \in Names
    BY Neighbours DEF Names
  <1>2. Dir(p, at[p]) \in {"in", "out"}
    BY DEF Dir
  <1>3. CASE (Dir(p, at[p]) = "out") = IsForward(What(p, at[p]))
    <2>1. Peer(p, at[p]) = NextHop(p)
      BY <1>3 DEF Peer
    <2>2. p # "server"
      BY <1>1, <1>3 DEF Names, Dir, What, IsForward, Steps
    <2>3. p \in Senders
      BY <2>2 DEF Senders
    <2> QED
      BY <1>2, <1>3, <2>1, <2>3, LinkIs DEF IsForward
  <1>4. CASE ~((Dir(p, at[p]) = "out") = IsForward(What(p, at[p])))
    <2>1. Peer(p, at[p]) = PrevHop(p)
      BY <1>4 DEF Peer
    <2>2. p # "client"
      BY <1>1, <1>4 DEF Names, Dir, What, IsForward, Steps
    <2>3. PrevHop(p) \in Senders /\ NextHop(PrevHop(p)) = p
      BY <2>2, Neighbours
    <2>4. <<p, PrevHop(p)>> \in Links /\ <<PrevHop(p), p>> \in Links
      BY <2>3, LinkIs
    <2> QED
      BY <1>2, <1>4, <2>1, <2>2, <2>3, <2>4 DEF IsForward
  <1> QED
    BY <1>3, <1>4

(* The neighbours of the proxy are not the same.                           *)
LEMMA Apart ==
    ASSUME NEW u \in Senders, NEW v \in Senders, NextHop(u) = v
    PROVE  NextHop(v) # u
  BY ChainIs DEF Senders

LEMMA OthersStay ==
    ASSUME NEW p \in Procs, NEW n, Moves(p, n), args' = args, NEW q \in Procs \ {p}
    PROVE  /\ Sent(q)' = Sent(q) /\ Taken(q)' = Taken(q) /\ Got(q)' = Got(q)
           /\ Answered(q)' = Answered(q) /\ i'[q] = i[q]
  BY DEF Moves, Sent, Taken, Got, Answered

LEMMA HopStays ==
    ASSUME NEW u, NEW d, HopInv(u, d), args' = args,
           i'[u] = i[u], i'[d] = i[d], Sent(u)' = Sent(u), Taken(d)' = Taken(d),
           Got(u)' = Got(u), Answered(d)' = Answered(d),
           wire'[<<u, d>>] = wire[<<u, d>>], wire'[<<d, u>>] = wire[<<d, u>>]
    PROVE  HopInv(u, d)'
  BY DEF HopInv

(* The positions of the process, in the four kinds of step.                *)
Sends(p) ==
    /\ p # "server"
    /\ Sent(p) = InRequest(args, What(p, at[p]), left[p])
    /\ Sent(p)' = Sent(p) + 1 /\ Got(p)' = Got(p) /\ i'[p] = i[p]
    /\ p # "client" => Taken(p)' = Taken(p) /\ Answered(p)' = Answered(p)
Takes(p) ==
    /\ p # "client"
    /\ Taken(p)' = Taken(p) + 1 /\ Answered(p)' = Answered(p) /\ i'[p] = i[p]
    /\ p = "proxy" => Sent(p)' = Sent(p) /\ Got(p)' = Got(p)
Gets(p) ==
    /\ p # "server" /\ Sent(p) = RequestLen(args)
    /\ p = "proxy" => Taken(p)' = Taken(p) /\ Answered(p)' = Answered(p)
    /\ \/ Got(p)' = Got(p) + 1 /\ Sent(p)' = Sent(p) /\ i'[p] = i[p]
       \/ /\ p = "client" /\ Got(p) + 1 = ReplyLen(args)
          /\ Got(p)' = 0 /\ Sent(p)' = 0 /\ i'[p] = i[p] + 1
Answers(p) ==
    /\ p # "client" /\ Taken(p) = RequestLen(args)
    /\ Answered(p) = Moved(left[p], args.body)
    /\ p = "proxy" => Sent(p) = RequestLen(args) /\ Got(p) = ReplyLen(args)
    /\ \/ /\ Answered(p)' = Answered(p) + 1 /\ Taken(p)' = Taken(p) /\ i'[p] = i[p]
          /\ p = "proxy" => Sent(p)' = Sent(p) /\ Got(p)' = Got(p)
       \/ /\ Answered(p) + 1 = ReplyLen(args)
          /\ Answered(p)' = 0 /\ Taken(p)' = 0 /\ i'[p] = i[p] + 1
          /\ p = "proxy" => Sent(p)' = 0 /\ Got(p)' = 0

LEMMA PositionsMove ==
    ASSUME ChainInv, NEW p \in Procs, NEW n, Moves(p, n), args' = args
    PROVE  LET forward == IsForward(What(p, at[p]))
           IN  IF Dir(p, at[p]) = "out"
               THEN IF forward THEN Sends(p) ELSE Answers(p)
               ELSE IF forward THEN Takes(p) ELSE Gets(p)
  <1> DEFINE what == What(p, at[p])
             s == at[p]
             l == left[p]
             j == i[p]
             s2 == at'[p]
             l2 == left'[p]
             j2 == i'[p]
  <1>1. /\ s \in 1..Steps(p) /\ InFrame(args, p, s, l) /\ l \in Int /\ j \in Nat
        /\ args \in Args /\ p \in Names
    BY TypesOf
  <1>2. Advances(args, p, s, l, j, s2, l2, j2)
    BY DEF Moves
  <1>3. /\ Sent(p) = SentAt(p, args, s, l) /\ Sent(p)' = SentAt(p, args, s2, l2)
        /\ Taken(p) = TakenAt(p, args, s, l) /\ Taken(p)' = TakenAt(p, args, s2, l2)
        /\ Got(p) = GotAt(p, args, s, l) /\ Got(p)' = GotAt(p, args, s2, l2)
        /\ Answered(p) = AnsweredAt(p, args, s, l)
        /\ Answered(p)' = AnsweredAt(p, args, s2, l2)
    BY DEF Sent, Taken, Got, Answered
  <1>4. Dir(p, s) \in {"in", "out"}
    BY DEF Dir
  <1> HIDE DEF s, l, j, s2, l2, j2
  <1>5. CASE Dir(p, s) = "out" /\ IsForward(What(p, s))
    <2>1. /\ SentAt(p, args, s, l) = InRequest(args, What(p, s), l)
          /\ SentAt(p, args, s2, l2) = SentAt(p, args, s, l) + 1
          /\ p # "client" => TakenAt(p, args, s2, l2) = TakenAt(p, args, s, l)
          /\ GotAt(p, args, s2, l2) = GotAt(p, args, s, l)
          /\ p # "client" => AnsweredAt(p, args, s2, l2) = AnsweredAt(p, args, s, l)
          /\ j2 = j
      BY <1>1, <1>2, <1>5, RequestSent
    <2>2. p # "server"
      BY <1>1, <1>5, UnitAt
    <2>3. Sends(p)
      BY <1>3, <2>1, <2>2 DEF Sends, s, l, j, s2, l2, j2
    <2> QED
      BY <1>5, <2>3 DEF s
  <1>6. CASE Dir(p, s) = "in" /\ IsForward(What(p, s))
    <2>1. /\ p # "client"
          /\ TakenAt(p, args, s2, l2) = TakenAt(p, args, s, l) + 1
          /\ p = "proxy" => SentAt(p, args, s2, l2) = SentAt(p, args, s, l)
          /\ GotAt(p, args, s2, l2) = GotAt(p, args, s, l)
          /\ AnsweredAt(p, args, s2, l2) = AnsweredAt(p, args, s, l)
          /\ j2 = j
      BY <1>1, <1>2, <1>6, RequestTaken
    <2>2. Takes(p)
      BY <1>3, <2>1 DEF Takes, s, l, j, s2, l2, j2
    <2> QED
      BY <1>6, <2>2 DEF s
  <1>7. CASE Dir(p, s) = "in" /\ ~IsForward(What(p, s))
    <2>1. /\ p # "server" /\ SentAt(p, args, s, l) = RequestLen(args)
          /\ p = "proxy" => /\ TakenAt(p, args, s2, l2) = TakenAt(p, args, s, l)
                            /\ AnsweredAt(p, args, s2, l2) = AnsweredAt(p, args, s, l)
          /\ IF p = "client" /\ Finishes(args, p, s, l)
             THEN /\ GotAt(p, args, s, l) + 1 = ReplyLen(args)
                  /\ GotAt(p, args, s2, l2) = 0 /\ SentAt(p, args, s2, l2) = 0
                  /\ j2 = j + 1
             ELSE /\ GotAt(p, args, s2, l2) = GotAt(p, args, s, l) + 1
                  /\ SentAt(p, args, s2, l2) = SentAt(p, args, s, l)
                  /\ j2 = j
      BY <1>1, <1>2, <1>7, ReplyGot
    <2>2. Gets(p)
      BY <1>3, <2>1 DEF Gets, s, l, j, s2, l2, j2
    <2> QED
      BY <1>7, <2>2 DEF s
  <1>8. CASE Dir(p, s) = "out" /\ ~IsForward(What(p, s))
    <2>1. /\ p # "client" /\ AnsweredAt(p, args, s, l) = Moved(l, args.body)
          /\ TakenAt(p, args, s, l) = RequestLen(args)
          /\ p = "proxy" => /\ SentAt(p, args, s, l) = RequestLen(args)
                            /\ GotAt(p, args, s, l) = ReplyLen(args)
          /\ IF Finishes(args, p, s, l)
             THEN /\ AnsweredAt(p, args, s, l) + 1 = ReplyLen(args)
                  /\ AnsweredAt(p, args, s2, l2) = 0 /\ TakenAt(p, args, s2, l2) = 0
                  /\ p = "proxy" => /\ SentAt(p, args, s2, l2) = 0
                                    /\ GotAt(p, args, s2, l2) = 0
                  /\ j2 = j + 1
             ELSE /\ AnsweredAt(p, args, s2, l2) = AnsweredAt(p, args, s, l) + 1
                  /\ TakenAt(p, args, s2, l2) = TakenAt(p, args, s, l)
                  /\ p = "proxy" => /\ SentAt(p, args, s2, l2) = SentAt(p, args, s, l)
                                    /\ GotAt(p, args, s2, l2) = GotAt(p, args, s, l)
                  /\ j2 = j
      BY <1>1, <1>2, <1>8, ReplyAnswered
    <2>2. Answers(p)
      BY <1>3, <2>1 DEF Answers, s, l, j, s2, l2, j2
    <2> QED
      BY <1>8, <2>2 DEF s
  <1> QED
    BY <1>4, <1>5, <1>6, <1>7, <1>8

(* A hop whose streams the step leaves alone, and the position of p too.   *)
OnlyOn(link) == \A l \in Links \ {link} : wire'[l] = wire[l]

LEMMA HopElsewhere ==
    ASSUME ChainInv, NEW p \in Procs, NEW n, Moves(p, n), args' = args,
           NEW link, OnlyOn(link),
           NEW u \in Senders, NEW d, d = NextHop(u), link # <<u, d>>, link # <<d, u>>,
           u = p => Sent(p)' = Sent(p) /\ Got(p)' = Got(p) /\ i'[p] = i[p],
           d = p => Taken(p)' = Taken(p) /\ Answered(p)' = Answered(p) /\ i'[p] = i[p]
    PROVE  HopInv(u, d)'
  <1>1. u \in Procs /\ d \in Procs
    BY Neighbours
  <1>2. Sent(u)' = Sent(u) /\ Got(u)' = Got(u) /\ i'[u] = i[u]
    BY <1>1, OthersStay
  <1>3. Taken(d)' = Taken(d) /\ Answered(d)' = Answered(d) /\ i'[d] = i[d]
    BY <1>1, OthersStay
  <1>4. <<u, d>> \in Links /\ <<d, u>> \in Links
    BY LinkIs
  <1>6. wire'[<<u, d>>] = wire[<<u, d>>] /\ wire'[<<d, u>>] = wire[<<d, u>>]
    BY <1>4 DEF OnlyOn
  <1>7. HopInv(u, d)
    BY DEF ChainInv
  <1> QED
    BY <1>2, <1>3, <1>6, <1>7, HopStays

LEMMA HopsAfterSending ==
    ASSUME ChainInv, NEW p \in Procs, NEW n, Moves(p, n), args' = args, Sends(p),
           p \in Senders, NEW x \in Units,
           IsRequestUnit(args, x, Sent(p) + 1, i[p] + 1),
           wire' = [wire EXCEPT ![<<p, NextHop(p)>>] = Append(@, x)],
           NEW u \in Senders
    PROVE  HopInv(u, NextHop(u))'
  <1> DEFINE d == NextHop(p)
             w == wire[<<p, d>>]
  <1>1. /\ Positions(args, Sent(p), Taken(d), Got(p), Answered(d))
        /\ HopState(args, i[p], i[d], Sent(p), Taken(d), Got(p), Answered(d),
                    w, wire[<<d, p>>])
        /\ w \in Seq(Units) /\ wire[<<d, p>>] \in Seq(Units)
        /\ args \in Args /\ i[p] \in Nat /\ i[d] \in Nat /\ d \in Procs /\ d # "client"
    BY HopIs
  <1>2. d # p /\ <<p, d>> \in Links /\ <<d, p>> \in Links
    BY LinkIs, Neighbours
  <1>3. wire' = [wire EXCEPT ![<<p, d>>] = Append(w, x)]
    OBVIOUS
  <1>4. wire \in [Links -> Seq(Units)]
    BY DEF ChainInv, ChainTypes
  <1>7. OnlyOn(<<p, d>>)
    BY <1>3, <1>4 DEF OnlyOn
  <1>5. CASE u = p
    <2>1. wire'[<<p, d>>] = Append(w, x) /\ wire'[<<d, p>>] = wire[<<d, p>>]
      BY <1>2, <1>3, <1>4
    <2>2. Taken(d)' = Taken(d) /\ Answered(d)' = Answered(d) /\ i'[d] = i[d]
      BY <1>1, <1>2, OthersStay
    <2>3. Sent(p)' = Sent(p) + 1 /\ Got(p)' = Got(p) /\ i'[p] = i[p]
      BY DEF Sends
    <2> HIDE DEF d, w
    <2>4. HopState(args, i[p], i[d], Sent(p) + 1, Taken(d), Got(p), Answered(d),
                   Append(w, x), wire[<<d, p>>])
      BY <1>1, HopSends
    <2>5. HopInv(p, d)'
      BY <2>1, <2>2, <2>3, <2>4 DEF HopInv
    <2> QED
      BY <1>5, <2>5 DEF d
  <1>6. CASE u # p
    <2>1. <<p, d>> # <<u, NextHop(u)>>
      BY <1>6
    <2>2. <<p, d>> # <<NextHop(u), u>>
      BY Apart
    <2>3. NextHop(u) = p => Taken(p)' = Taken(p) /\ Answered(p)' = Answered(p) /\ i'[p] = i[p]
      BY Neighbours DEF Sends
    <2> HIDE DEF d, w
    <2> QED
      BY <1>6, <1>7, <2>1, <2>2, <2>3, HopElsewhere
  <1> QED
    BY <1>5, <1>6

LEMMA HopsAfterTaking ==
    ASSUME ChainInv, NEW p \in Procs, NEW n, Moves(p, n), args' = args, Takes(p),
           NEW v \in Senders, NextHop(v) = p, wire[<<v, p>>] # << >>,
           wire' = [wire EXCEPT ![<<v, p>>] = Tail(@)], NEW u \in Senders
    PROVE  HopInv(u, NextHop(u))'
  <1> DEFINE w == wire[<<v, p>>]
  <1>1. /\ Positions(args, Sent(v), Taken(p), Got(v), Answered(p))
        /\ HopState(args, i[v], i[p], Sent(v), Taken(p), Got(v), Answered(p),
                    w, wire[<<p, v>>])
        /\ w \in Seq(Units) /\ wire[<<p, v>>] \in Seq(Units)
        /\ args \in Args /\ i[v] \in Nat /\ i[p] \in Nat /\ v \in Procs
    BY HopIs
  <1>2. v # p /\ <<v, p>> \in Links /\ <<p, v>> \in Links
    BY LinkIs, Neighbours
  <1>3. wire' = [wire EXCEPT ![<<v, p>>] = Tail(w)]
    OBVIOUS
  <1>4. wire \in [Links -> Seq(Units)]
    BY DEF ChainInv, ChainTypes
  <1>7. OnlyOn(<<v, p>>)
    BY <1>3, <1>4 DEF OnlyOn
  <1>5. CASE u = v
    <2>1. wire'[<<v, p>>] = Tail(w) /\ wire'[<<p, v>>] = wire[<<p, v>>]
      BY <1>2, <1>3, <1>4
    <2>2. Sent(v)' = Sent(v) /\ Got(v)' = Got(v) /\ i'[v] = i[v]
      BY <1>1, <1>2, OthersStay
    <2>3. Taken(p)' = Taken(p) + 1 /\ Answered(p)' = Answered(p) /\ i'[p] = i[p]
      BY DEF Takes
    <2>4. HopState(args, i[v], i[p], Sent(v), Taken(p) + 1, Got(v), Answered(p),
                   Tail(w), wire[<<p, v>>])
      <3> HIDE DEF w
      <3> QED
        BY <1>1, HopTakes DEF w
    <2>5. HopInv(v, p)'
      BY <2>1, <2>2, <2>3, <2>4 DEF HopInv
    <2> QED
      BY <1>5, <2>5
  <1>6. CASE u # v
    <2> DEFINE d == NextHop(u)
    <2>1. d # p
      BY <1>6, Neighbours
    <2>2. <<v, p>> # <<u, d>>
      BY <1>6
    <2>3. <<v, p>> # <<d, u>>
      BY Apart
    <2>4. u = p => Sent(p)' = Sent(p) /\ Got(p)' = Got(p) /\ i'[p] = i[p]
      BY Neighbours DEF Takes, Senders
    <2> HIDE DEF w
    <2> QED
      BY <1>7, <2>1, <2>2, <2>3, <2>4, HopElsewhere
  <1> QED
    BY <1>5, <1>6

LEMMA HopsAfterGetting ==
    ASSUME ChainInv, NEW p \in Procs, NEW n, Moves(p, n), args' = args, Gets(p),
           p \in Senders, wire[<<NextHop(p), p>>] # << >>,
           wire' = [wire EXCEPT ![<<NextHop(p), p>>] = Tail(@)], NEW u \in Senders
    PROVE  HopInv(u, NextHop(u))'
  <1> DEFINE d == NextHop(p)
             w == wire[<<d, p>>]
  <1>1. /\ Positions(args, Sent(p), Taken(d), Got(p), Answered(d))
        /\ HopState(args, i[p], i[d], Sent(p), Taken(d), Got(p), Answered(d),
                    wire[<<p, d>>], w)
        /\ w \in Seq(Units) /\ wire[<<p, d>>] \in Seq(Units)
        /\ args \in Args /\ i[p] \in Nat /\ i[d] \in Nat /\ d \in Procs
    BY HopIs
  <1>2. d # p /\ <<p, d>> \in Links /\ <<d, p>> \in Links
    BY LinkIs, Neighbours
  <1>3. wire' = [wire EXCEPT ![<<d, p>>] = Tail(w)]
    OBVIOUS
  <1>4. wire \in [Links -> Seq(Units)]
    BY DEF ChainInv, ChainTypes
  <1>7. OnlyOn(<<d, p>>)
    BY <1>3, <1>4 DEF OnlyOn
  <1>5. CASE u = p
    <2>1. wire'[<<d, p>>] = Tail(w) /\ wire'[<<p, d>>] = wire[<<p, d>>]
      BY <1>2, <1>3, <1>4
    <2>2. Taken(d)' = Taken(d) /\ Answered(d)' = Answered(d) /\ i'[d] = i[d]
      BY <1>1, <1>2, OthersStay
    <2> HIDE DEF d, w
    <2>3. HopState(args, i[p], i[d], Sent(p), Taken(d), Got(p) + 1, Answered(d),
                   wire[<<p, d>>], Tail(w))
      BY <1>1, HopGets DEF d, w
    <2>4. CASE Got(p)' = Got(p) + 1 /\ Sent(p)' = Sent(p) /\ i'[p] = i[p]
      <3>1. HopInv(p, d)'
        BY <2>1, <2>2, <2>3, <2>4 DEF HopInv
      <3> QED
        BY <1>5, <3>1 DEF d
    <2>5. CASE /\ Got(p) + 1 = ReplyLen(args)
               /\ Got(p)' = 0 /\ Sent(p)' = 0 /\ i'[p] = i[p] + 1
      <3>1. Sent(p) = RequestLen(args)
        BY DEF Gets
      <3>2. /\ Answered(d) \in 0..args.body
            /\ Answered(d) # 0 => Taken(d) = RequestLen(args)
        BY <1>1 DEF Positions
      <3>3. Tail(w) \in Seq(Units)
        BY <1>1 DEF w, d
      <3>4. HopState(args, i[p] + 1, i[d], 0, Taken(d), 0, Answered(d),
                     wire[<<p, d>>], Tail(w))
        BY <1>1, <2>3, <2>5, <3>1, <3>2, <3>3, HopReturns
      <3>5. HopInv(p, d)'
        BY <2>1, <2>2, <2>5, <3>4 DEF HopInv
      <3> QED
        BY <1>5, <3>5 DEF d
    <2> QED
      BY <2>4, <2>5 DEF Gets
  <1>6. CASE u # p
    <2>1. <<d, p>> # <<u, NextHop(u)>>
      BY Apart
    <2>2. <<d, p>> # <<NextHop(u), u>>
      BY <1>6
    <2>3. NextHop(u) = p => Taken(p)' = Taken(p) /\ Answered(p)' = Answered(p) /\ i'[p] = i[p]
      BY Neighbours DEF Gets, Senders
    <2> HIDE DEF d, w
    <2> QED
      BY <1>6, <1>7, <2>1, <2>2, <2>3, HopElsewhere
  <1> QED
    BY <1>5, <1>6

LEMMA HopsAfterAnswering ==
    ASSUME ChainInv, NEW p \in Procs, NEW n, Moves(p, n), args' = args, Answers(p),
           NEW v \in Senders, NextHop(v) = p, NEW x \in Units,
           IsReplyUnit(args, x, Answered(p) + 1, i[p] + 1),
           wire' = [wire EXCEPT ![<<p, v>>] = Append(@, x)], NEW u \in Senders
    PROVE  HopInv(u, NextHop(u))'
  <1> DEFINE w == wire[<<p, v>>]
  <1>1. /\ Positions(args, Sent(v), Taken(p), Got(v), Answered(p))
        /\ HopState(args, i[v], i[p], Sent(v), Taken(p), Got(v), Answered(p),
                    wire[<<v, p>>], w)
        /\ w \in Seq(Units) /\ wire[<<v, p>>] \in Seq(Units)
        /\ args \in Args /\ i[v] \in Nat /\ i[p] \in Nat /\ v \in Procs
    BY HopIs
  <1>2. v # p /\ <<v, p>> \in Links /\ <<p, v>> \in Links
    BY LinkIs, Neighbours
  <1>3. wire' = [wire EXCEPT ![<<p, v>>] = Append(w, x)]
    OBVIOUS
  <1>4. wire \in [Links -> Seq(Units)]
    BY DEF ChainInv, ChainTypes
  <1>7. OnlyOn(<<p, v>>)
    BY <1>3, <1>4 DEF OnlyOn
  <1>5. CASE u = v
    <2>1. wire'[<<p, v>>] = Append(w, x) /\ wire'[<<v, p>>] = wire[<<v, p>>]
      BY <1>2, <1>3, <1>4
    <2>2. Sent(v)' = Sent(v) /\ Got(v)' = Got(v) /\ i'[v] = i[v]
      BY <1>1, <1>2, OthersStay
    <2> HIDE DEF w
    <2>3. Taken(p) = RequestLen(args)
      BY DEF Answers
    <2>4. i[p] = i[v]
      <3>1. RequestLen(args) > 0 /\ Taken(p) # 0
        BY <1>1, <2>3, Lengths
      <3> QED
        BY <1>1, <3>1 DEF HopState
    <2>5. IsReplyUnit(args, x, Answered(p) + 1, i[v] + 1)
      BY <2>4
    <2>6. /\ HopState(args, i[v], i[p], Sent(v), Taken(p), Got(v), Answered(p) + 1,
                      wire[<<v, p>>], Append(w, x))
          /\ Answered(p) + 1 = ReplyLen(args) =>
                HopState(args, i[v], i[p] + 1, Sent(v), 0, Got(v), 0,
                         wire[<<v, p>>], Append(w, x))
      BY <1>1, <2>3, <2>5, HopAnswers
    <2>7. CASE Answered(p)' = Answered(p) + 1 /\ Taken(p)' = Taken(p) /\ i'[p] = i[p]
      <3>1. HopInv(v, p)'
        BY <2>1, <2>2, <2>6, <2>7 DEF HopInv
      <3> QED
        BY <1>5, <3>1
    <2>8. CASE /\ Answered(p) + 1 = ReplyLen(args)
               /\ Answered(p)' = 0 /\ Taken(p)' = 0 /\ i'[p] = i[p] + 1
      <3>1. HopInv(v, p)'
        BY <2>1, <2>2, <2>6, <2>8 DEF HopInv
      <3> QED
        BY <1>5, <3>1
    <2> QED
      BY <2>7, <2>8 DEF Answers
  <1>6. CASE u # v
    <2> DEFINE d == NextHop(u)
    <2>1. d # p
      BY <1>6, Neighbours
    <2>2. <<p, v>> # <<u, d>>
      BY Apart
    <2>3. <<p, v>> # <<d, u>>
      BY <1>6
    <2>4. CASE u = p /\ Sent(p)' = 0 /\ Got(p)' = 0 /\ i'[p] = i[p] + 1
      <3>1. /\ HopState(args, i[p], i[d], Sent(p), Taken(d), Got(p), Answered(d),
                        wire[<<p, d>>], wire[<<d, p>>])
            /\ Positions(args, Sent(p), Taken(d), Got(p), Answered(d))
            /\ wire[<<p, d>>] \in Seq(Units) /\ wire[<<d, p>>] \in Seq(Units)
            /\ i[d] \in Nat /\ d \in Procs
        BY <2>4, HopIs
      <3>2. Sent(p) = RequestLen(args) /\ Got(p) = ReplyLen(args)
        BY <2>4, Neighbours DEF Answers, Senders
      <3>3. Answered(d) \in 0..args.body /\ (Answered(d) # 0 => Taken(d) = RequestLen(args))
        BY <3>1 DEF Positions
      <3>4. wire'[<<p, d>>] = wire[<<p, d>>] /\ wire'[<<d, p>>] = wire[<<d, p>>]
        BY <1>2, <1>3, <1>4, <2>2, <2>3, <2>4, LinkIs
      <3>5. Taken(d)' = Taken(d) /\ Answered(d)' = Answered(d) /\ i'[d] = i[d]
        BY <2>1, <3>1, OthersStay
      <3> HIDE DEF d, w
      <3>6. HopState(args, i[p] + 1, i[d], 0, Taken(d), 0, Answered(d),
                     wire[<<p, d>>], wire[<<d, p>>])
        BY <1>1, <3>1, <3>2, <3>3, HopReturns
      <3>7. HopInv(p, d)'
        BY <2>4, <3>4, <3>5, <3>6 DEF HopInv
      <3> QED
        BY <2>4, <3>7 DEF d
    <2>5. CASE u = p => Sent(p)' = Sent(p) /\ Got(p)' = Got(p) /\ i'[p] = i[p]
      <3> HIDE DEF d, w
      <3> QED
        BY <1>7, <2>1, <2>2, <2>3, <2>5, HopElsewhere DEF d
    <2>6. u = p => p = "proxy"
      BY Neighbours DEF Answers, Senders
    <2> QED
      BY <2>4, <2>5, <2>6 DEF Answers
  <1> QED
    BY <1>5, <1>6
-----------------------------------------------------------------------------
(* Every step keeps the invariant.                                         *)

LEMMA TypesKept ==
    ASSUME ChainInv, NEW p \in Procs, NEW n, Moves(p, n), Holds(p), args' = args,
           interfered' = interfered, wire' \in [Links -> Seq(Units)]
    PROVE  ChainTypes'
  BY DEF ChainInv, ChainTypes, Moves, Holds

LEMMA ReadKeepsChainInv ==
    ASSUME ChainInv, NEW p \in Procs, ReadCount(p) \/ ReadLength(p) \/ ReadPayload(p)
    PROVE  ChainInv'
  <1> DEFINE peer == Peer(p, at[p])
             link == <<peer, p>>
             forward == IsForward(What(p, at[p]))
  <1>1. Reads(p) /\ Holds(p) /\ Moves(p, told'[p])
    BY ReadSteps
  <1>2. /\ status[p] = "running" /\ Dir(p, at[p]) = "in" /\ wire[link] # << >>
        /\ wire' = [wire EXCEPT ![link] = Tail(@)]
        /\ args' = args /\ interfered' = interfered
    BY <1>1 DEF Reads
  <1>3. at[p] \in 1..Steps(p)
    BY TypesOf
  <1>4. link \in Links
    BY <1>3, PeerIs
  <1>5. wire' \in [Links -> Seq(Units)]
    <2>1. wire \in [Links -> Seq(Units)]
      BY DEF ChainInv, ChainTypes
    <2>2. wire[link] \in Seq(Units)
      BY <1>4, <2>1
    <2> DEFINE w == wire[link]
    <2>3. Tail(w) \in Seq(Units)
      BY <1>2, <2>2
    <2> QED
      BY <1>2, <2>1, <2>3
  <1>6. ChainTypes'
    BY <1>1, <1>2, <1>5, TypesKept
  <1>7. \A q \in Procs : LocalInv(q)'
    BY <1>1, <1>2, LocalKept
  <1>8. Dir(p, at[p]) # "out"
    BY <1>2
  <1>9. IF forward THEN Takes(p) ELSE Gets(p)
    BY <1>1, <1>2, <1>8, PositionsMove
  <1>10. ASSUME NEW u \in Senders PROVE HopInv(u, NextHop(u))'
    <2>1. CASE forward
      <3>1. peer \in Senders /\ NextHop(peer) = p
        BY <1>2, <1>3, <2>1, PeerIs
      <3> HIDE DEF peer
      <3> QED
        BY <1>1, <1>2, <1>9, <2>1, <3>1, HopsAfterTaking
    <2>2. CASE ~forward
      <3>1. p \in Senders /\ peer = NextHop(p)
        BY <1>2, <1>3, <2>2, PeerIs
      <3> HIDE DEF peer
      <3> QED
        BY <1>1, <1>2, <1>9, <2>2, <3>1, HopsAfterGetting
    <2> QED
      BY <2>1, <2>2
  <1> QED
    BY <1>6, <1>7, <1>10 DEF ChainInv

LEMMA WriteKeepsChainInv ==
    ASSUME ChainInv, NEW p \in Procs, WriteCount(p) \/ WriteLength(p) \/ WritePayload(p)
    PROVE  ChainInv'
  <1> DEFINE peer == Peer(p, at[p])
             link == <<p, peer>>
             forward == IsForward(What(p, at[p]))
  <1>1. PICK x \in Units : Writes(p, x) /\ NextOut(p, x) /\ Moves(p, told[p])
    BY WriteSteps
  <1>2. /\ status[p] = "running" /\ Dir(p, at[p]) = "out"
        /\ wire' = [wire EXCEPT ![link] = Append(@, x)]
        /\ args' = args /\ interfered' = interfered
    BY <1>1 DEF Writes
  <1>3. at[p] \in 1..Steps(p)
    BY TypesOf
  <1>4. link \in Links
    BY <1>3, PeerIs
  <1>5. wire' \in [Links -> Seq(Units)]
    <2>1. wire \in [Links -> Seq(Units)]
      BY DEF ChainInv, ChainTypes
    <2>2. wire[link] \in Seq(Units)
      BY <1>4, <2>1
    <2> DEFINE w == wire[link]
    <2>3. Append(w, x) \in Seq(Units)
      BY <2>2
    <2> QED
      BY <1>2, <2>1, <2>3
  <1>6. Holds(p) /\ Moves(p, told'[p])
    BY <1>1, WriteHolds
  <1>7. ChainTypes'
    BY <1>2, <1>5, <1>6, TypesKept
  <1>8. \A q \in Procs : LocalInv(q)'
    BY <1>2, <1>6, LocalKept
  <1>9. IF forward THEN Sends(p) ELSE Answers(p)
    BY <1>2, <1>6, PositionsMove
  <1>10. ASSUME NEW u \in Senders PROVE HopInv(u, NextHop(u))'
    <2>1. CASE forward
      <3>1. p \in Senders /\ peer = NextHop(p)
        BY <1>2, <1>3, <2>1, PeerIs
      <3>2. IsRequestUnit(args, x, Sent(p) + 1, i[p] + 1)
        BY <1>1, <1>9, <2>1 DEF NextOut, Sends
      <3> HIDE DEF peer
      <3> QED
        BY <1>2, <1>6, <1>9, <2>1, <3>1, <3>2, HopsAfterSending
    <2>2. CASE ~forward
      <3>1. peer \in Senders /\ NextHop(peer) = p
        BY <1>2, <1>3, <2>2, PeerIs
      <3>2. IsReplyUnit(args, x, Answered(p) + 1, i[p] + 1)
        BY <1>1, <1>9, <2>2 DEF NextOut, Answers
      <3> HIDE DEF peer
      <3> QED
        BY <1>2, <1>6, <1>9, <2>2, <3>1, <3>2, HopsAfterAnswering
    <2> QED
      BY <2>1, <2>2
  <1> QED
    BY <1>7, <1>8, <1>10 DEF ChainInv

(* A step that starts, connects or ends a process leaves the rest alone.   *)
Idles(p) ==
    /\ UNCHANGED <<args, at, left, told, i, frameLen, tag, wire>>
    /\ interfered' \in BOOLEAN
    /\ \E st \in Statuses : /\ status' = [status EXCEPT ![p] = st]
                            /\ st \in NotYet => status[p] \in NotYet

LEMMA IdleSteps ==
    ASSUME ChainInv, NEW p \in Procs,
           \/ Listen(p) \/ Dial(p) \/ DialFails(p) \/ Accept(p) \/ Kill(p)
           \/ WriteFails(p) \/ ReadFails(p)
    PROVE  Idles(p)
  <1>1. interfered \in BOOLEAN
    BY DEF ChainInv, ChainTypes
  <1>2. /\ UNCHANGED <<args, at, left, told, i, frameLen, tag, wire>>
        /\ interfered' \in BOOLEAN
    BY <1>1 DEF Listen, Dial, DialFails, Accept, Kill, WriteFails, ReadFails, progress
  <1>3. \E st \in Statuses : /\ status' = [status EXCEPT ![p] = st]
                             /\ st \in NotYet => status[p] \in NotYet
    BY DEF Listen, Dial, DialFails, Accept, Kill, WriteFails, ReadFails, Goes, Fails,
           Statuses, NotYet
  <1> QED
    BY <1>2, <1>3 DEF Idles

LEMMA IdleKeepsChainInv ==
    ASSUME ChainInv, NEW p \in Procs, Idles(p)
    PROVE  ChainInv'
  <1>1. PICK st \in Statuses : /\ status' = [status EXCEPT ![p] = st]
                               /\ st \in NotYet => status[p] \in NotYet
    BY DEF Idles
  <1>2. UNCHANGED <<args, at, left, told, i, frameLen, tag, wire>>
    BY DEF Idles
  <1>3. ChainTypes'
    BY <1>1, <1>2 DEF ChainInv, ChainTypes, Idles
  <1>4. ASSUME NEW q \in Procs PROVE LocalInv(q)'
    <2>1. LocalInv(q) /\ status \in [Procs -> Statuses]
      BY DEF ChainInv, ChainTypes
    <2>2. status'[q] \in NotYet => status[q] \in NotYet
      BY <1>1, <2>1
    <2> QED
      BY <1>2, <2>1, <2>2 DEF LocalInv
  <1>5. ASSUME NEW u \in Senders PROVE HopInv(u, NextHop(u))'
    <2>1. HopInv(u, NextHop(u))
      BY DEF ChainInv
    <2> QED
      BY <1>2, <2>1 DEF HopInv, Sent, Taken, Got, Answered
  <1> QED
    BY <1>3, <1>4, <1>5 DEF ChainInv

LEMMA ChainInvInit ==
    ASSUME Init
    PROVE  ChainInv
  <1>1. ChainTypes
    <2>1. args \in [nrpc : Int, body : Nat, addr : Nat]
      BY ChainAssumption DEF Init
    <2>2. told \in [Procs -> Int]
      BY <2>1 DEF Init, Unknown
    <2>3. frameLen \in [Procs -> [addr : Nat, body : Nat]]
      BY <2>1 DEF Init
    <2>4. wire \in [Links -> Seq(Units)]
      BY DEF Init
    <2>5. status \in [Procs -> Statuses]
      BY DEF Init, Statuses, NotYet
    <2>6. at \in [Procs -> Nat] /\ i \in [Procs -> Nat]
      BY DEF Init
    <2>7. left \in [Procs -> Int] /\ tag \in [Procs -> Int]
      BY DEF Init, Header
    <2>8. interfered \in BOOLEAN
      BY DEF Init
    <2> QED
      BY <2>1, <2>2, <2>3, <2>4, <2>5, <2>6, <2>7, <2>8 DEF ChainTypes
  <1>2. ASSUME NEW p \in Procs PROVE LocalInv(p)
    <2>1. /\ status[p] = "off" /\ at[p] = 1 /\ left[p] = Header /\ i[p] = 0 /\ tag[p] = 0
          /\ told[p] = IF p = "client" THEN args.nrpc ELSE Unknown
          /\ frameLen[p] = IF p = "client" THEN [addr |-> args.addr, body |-> args.body]
                           ELSE [addr |-> 0, body |-> 0]
      BY DEF Init
    <2>2. 1 \in 1..Steps(p) /\ 1 < Start(p) /\ ~(1 > FirstIn(p)) /\ 1 # FirstIn(p)
      BY DEF Steps, Start, FirstIn
    <2>3. /\ HasAddr(p, 1, Header) => p = "client"
          /\ HasBody(p, 1, Header) => p = "client"
          /\ InFrame(args, p, 1, Header) /\ ~(1 > FirstIn(p) + 1)
      BY DEF HasAddr, HasBody, InFrame, FirstIn
    <2>4. Local(args, p, 1, Header, 0, frameLen[p], 0, told[p])
      BY <2>1, <2>2, <2>3 DEF Local
    <2> QED
      BY <2>1, <2>4 DEF LocalInv
  <1>3. ASSUME NEW u \in Senders PROVE HopInv(u, NextHop(u))
    <2> DEFINE d == NextHop(u)
    <2>1. u \in Procs /\ d \in Procs /\ <<u, d>> \in Links /\ <<d, u>> \in Links
      BY Neighbours, LinkIs
    <2>2. /\ at[u] = 1 /\ at[d] = 1 /\ i[u] = 0 /\ i[d] = 0
          /\ wire[<<u, d>>] = << >> /\ wire[<<d, u>>] = << >>
      BY <2>1 DEF Init
    <2> HIDE DEF d
    <2>3. Sent(u) = -1 /\ Taken(d) = -1 /\ Got(u) = 0 /\ Answered(d) = 0
      BY <2>2 DEF Sent, Taken, Got, Answered, SentAt, TakenAt, GotAt, AnsweredAt, Start,
                  FirstOut, Steps
    <2>4. Carries(args, TRUE, << >>, -1, -1, 0 + 1) /\ Carries(args, FALSE, << >>, 0, 0, 0 + 1)
      BY DEF Carries
    <2>5. HopInv(u, d)
      BY <2>2, <2>3, <2>4 DEF HopInv, HopState
    <2> QED
      BY <2>5 DEF d
  <1> QED
    BY <1>1, <1>2, <1>3 DEF ChainInv

LEMMA ChainInvNext ==
    ASSUME ChainInv, [Next]_vars
    PROVE  ChainInv'
  <1>1. CASE UNCHANGED vars
    <2>1. UNCHANGED <<args, status, at, left, told, i, frameLen, tag, wire, interfered>>
      BY <1>1 DEF vars, progress
    <2>2. ChainTypes' /\ \A p \in Procs : LocalInv(p)'
      BY <2>1 DEF ChainInv, ChainTypes, LocalInv
    <2>3. \A u \in Senders : HopInv(u, NextHop(u))'
      BY <2>1 DEF ChainInv, HopInv, Sent, Taken, Got, Answered
    <2> QED
      BY <2>2, <2>3 DEF ChainInv
  <1>2. CASE Next
    <2>1. PICK p \in Procs : Listen(p) \/ Connect(p) \/ Kill(p) \/ Step(p)
      BY <1>2 DEF Next
    <2>2. CASE ReadCount(p) \/ ReadLength(p) \/ ReadPayload(p)
      BY <2>2, ReadKeepsChainInv
    <2>3. CASE WriteCount(p) \/ WriteLength(p) \/ WritePayload(p)
      BY <2>3, WriteKeepsChainInv
    <2>4. CASE \/ Listen(p) \/ Dial(p) \/ DialFails(p) \/ Accept(p) \/ Kill(p)
               \/ WriteFails(p) \/ ReadFails(p)
      BY <2>4, IdleSteps, IdleKeepsChainInv
    <2> QED
      BY <2>1, <2>2, <2>3, <2>4 DEF Connect, Step
  <1> QED
    BY <1>1, <1>2

(* The state of the chain has its types and the positions of every pair of *)
(* neighbours account for the units between them, whoever is killed and    *)
(* whenever (rpc.go, frame.go).                                            *)
THEOREM ChainInvariant == Spec => []ChainInv
  <1>1. Init => ChainInv
    BY ChainInvInit
  <1>2. ChainInv /\ [Next]_vars => ChainInv'
    BY ChainInvNext
  <1> QED
    BY <1>1, <1>2, PTL DEF Spec

(* The two ends of every stream agree on where frames begin.               *)
THEOREM Aligned == Spec => []FramesAreAligned
  <1>1. ASSUME ChainInv PROVE FramesAreAligned
    <2>1. SUFFICES ASSUME NEW p \in Procs, status[p] = "running", Op(p).dir = "in",
                          Incoming(p) # << >>
                   PROVE  Head(Incoming(p)).is = IF Op(p).what = "count" THEN "count"
                                                 ELSE IF left[p] = Header THEN "length"
                                                 ELSE Op(p).what
      BY DEF FramesAreAligned
    <2> DEFINE w == wire[<<Peer(p, at[p]), p>>]
    <2>2. at[p] \in 1..Steps(p)
      BY <1>1, TypesOf
    <2>3. /\ Dir(p, at[p]) = "in" /\ Op(p).what = What(p, at[p])
          /\ Incoming(p) = w /\ w # << >>
      BY <2>1, <2>2, OpIs DEF Incoming
    <2>4. IF What(p, at[p]) = "count"
          THEN Head(w).is = "count" /\ (Sound(args) => Head(w).n = args.nrpc)
          ELSE IF left[p] = Header THEN Head(w) = Unit("length", Size(args, What(p, at[p])))
          ELSE /\ Head(w).is = What(p, at[p])
               /\ What(p, at[p]) # "addr" => Head(w).n = i[p] + 1
      BY <1>1, <2>3, NextIn
    <2> HIDE DEF w
    <2> QED
      BY <2>3, <2>4 DEF Unit
  <1>2. ChainInv => FramesAreAligned
    BY <1>1
  <1> QED
    BY <1>2, ChainInvariant, PTL

(* Every call that returns brings back its own message.                    *)
THEOREM Echoes == Spec => []RepliesAreEchoes
  <1>1. ASSUME ChainInv PROVE RepliesAreEchoes
    <2>1. "client" \in Procs
      BY Neighbours
    <2>2. RoundStart("client") = 2
      BY <2>1, ScriptIs DEF Start
    <2>3. Local(args, "client", at["client"], left["client"], i["client"],
                frameLen["client"], tag["client"], told["client"])
      BY <1>1, <2>1, TypesOf
    <2> QED
      BY <2>2, <2>3 DEF RepliesAreEchoes, Local
  <1>2. ChainInv => RepliesAreEchoes
    BY <1>1
  <1> QED
    BY <1>2, ChainInvariant, PTL
-----------------------------------------------------------------------------
(* Nothing fails without a cause.                                          *)

LEMMA UnitsAhead ==
    ASSUME NEW a \in Args, NEW p \in Names, NEW s \in 1..Steps(p), NEW l \in Int,
           InFrame(a, p, s, l)
    PROVE  /\ Dir(p, s) = "out" /\ IsForward(What(p, s)) => SentAt(p, a, s, l) < RequestLen(a)
           /\ Dir(p, s) = "in" /\ ~IsForward(What(p, s)) =>
                 /\ GotAt(p, a, s, l) < ReplyLen(a)
                 /\ SentAt(p, a, s, l) = RequestLen(a)
                 /\ s >= Start(p) /\ HasBody(p, s, l)
           /\ Dir(p, s) = "out" /\ ~IsForward(What(p, s)) => s >= Start(p)
  BY DEF Args, Names, SentAt, GotAt, InRequest, Moved, Header, Steps, Start, FirstOut,
         FirstIn, Dir, What, IsForward, InFrame, Size, RequestLen, ReplyLen, HasBody

(* When its peer has ended, a process has no more to say to it, and what   *)
(* it has to hear is there.                                                *)
LEMMA PeerEnded ==
    ASSUME ChainInv, Sound(args), NEW p \in Procs, status[p] = "running", CauseInv(p),
           NEW peer, peer = Peer(p, at[p]), CauseInv(peer), status[peer] = "done"
    PROVE  /\ Dir(p, at[p]) = "in"
           /\ wire[<<peer, p>>] # << >> /\ wire[<<p, peer>>] = << >>
  <1> DEFINE what == What(p, at[p])
  <1>1. /\ at[p] \in 1..Steps(p) /\ InFrame(args, p, at[p], left[p])
        /\ left[p] \in Int /\ i[p] \in Nat /\ args \in Args /\ p \in Names
        /\ Local(args, p, at[p], left[p], i[p], frameLen[p], tag[p], told[p])
    BY TypesOf
  <1>2. i[peer] = args.nrpc /\ args.nrpc \in Int /\ args.nrpc >= 1
    BY <1>1, ChainAssumption DEF CauseInv, Sound, Args
  <1>3. i[p] < args.nrpc
    BY <1>1, <1>2 DEF CauseInv, Local, Start
  <1>4. Dir(p, at[p]) \in {"in", "out"}
    BY DEF Dir
  <1>5. RequestLen(args) \in Int /\ RequestLen(args) > 0 /\ ReplyLen(args) \in Int
    BY <1>1, Lengths
  <1>6. CASE \/ Dir(p, at[p]) = "out" /\ IsForward(what)
             \/ Dir(p, at[p]) = "in" /\ ~IsForward(what)
    <2>1. p \in Senders /\ peer = NextHop(p)
      BY <1>1, <1>6, PeerIs
    <2>2. /\ Positions(args, Sent(p), Taken(peer), Got(p), Answered(peer))
          /\ HopState(args, i[p], i[peer], Sent(p), Taken(peer), Got(p), Answered(peer),
                      wire[<<p, peer>>], wire[<<peer, p>>])
          /\ wire[<<p, peer>>] \in Seq(Units) /\ wire[<<peer, p>>] \in Seq(Units)
      BY <2>1, HopIs
    <2>3. i[peer] # i[p]
      BY <1>2, <1>3
    <2>4. /\ Len(wire[<<p, peer>>]) = Sent(p) - RequestLen(args)
          /\ Len(wire[<<peer, p>>]) = ReplyLen(args) - Got(p)
      BY <2>2, <2>3 DEF HopState, Carries
    <2>5. Sent(p) \in Int /\ Got(p) \in Int
      BY <2>2 DEF Positions
    <2>6. Sent(p) >= RequestLen(args)
      BY <1>5, <2>2, <2>4, <2>5
    <2>7. ~(Dir(p, at[p]) = "out" /\ IsForward(what))
      BY <1>1, <1>5, <2>5, <2>6, UnitsAhead DEF Sent
    <2>8. Got(p) < ReplyLen(args) /\ Sent(p) = RequestLen(args)
      BY <1>1, <1>6, <2>7, UnitsAhead DEF Got, Sent
    <2>9. Len(wire[<<p, peer>>]) = 0 /\ Len(wire[<<peer, p>>]) > 0
      BY <1>5, <2>4, <2>5, <2>8
    <2> QED
      BY <1>6, <2>2, <2>7, <2>9
  <1>7. CASE \/ Dir(p, at[p]) = "out" /\ ~IsForward(what)
             \/ Dir(p, at[p]) = "in" /\ IsForward(what)
    <2>1. peer \in Senders /\ p = NextHop(peer)
      BY <1>1, <1>7, PeerIs
    <2>2. i[p] \in {i[peer], i[peer] + 1}
      BY <2>1, HopIs DEF HopState
    <2> QED
      BY <1>1, <1>2, <1>3, <2>2
  <1> QED
    BY <1>4, <1>6, <1>7

LEMMA NoFailure ==
    ASSUME ChainInv, CausesInv, Fine, NEW p \in Procs
    PROVE  ~WriteFails(p) /\ ~ReadFails(p)
  <1> DEFINE peer == Peer(p, at[p])
             what == What(p, at[p])
             w == wire[<<peer, p>>]
  <1>1. /\ at[p] \in 1..Steps(p) /\ InFrame(args, p, at[p], left[p])
        /\ left[p] \in Int /\ args \in Args /\ p \in Names
        /\ Local(args, p, at[p], left[p], i[p], frameLen[p], tag[p], told[p])
    BY TypesOf
  <1>2. Op(p).dir = Dir(p, at[p]) /\ Op(p).what = what /\ Op(p).peer = peer
    BY <1>1, OpIs
  <1>3. Sound(args) /\ \A q \in Procs : CauseInv(q)
    BY DEF Fine, Sound, CausesInv
  <1>4. peer \in Procs
    <2>1. IsForward(what) \/ ~IsForward(what)
      OBVIOUS
    <2>2. Dir(p, at[p]) \in {"in", "out"}
      BY DEF Dir
    <2> QED
      BY <1>1, <2>1, <2>2, PeerIs, Neighbours
  <1>5. ASSUME status[p] = "running", Gone(peer)
        PROVE  /\ Dir(p, at[p]) = "in"
               /\ wire[<<peer, p>>] # << >> /\ wire[<<p, peer>>] = << >>
    <2>1. status[peer] = "done"
      BY <1>3, <1>4, <1>5 DEF Gone, CauseInv
    <2> HIDE DEF peer
    <2> QED
      BY <1>3, <1>4, <1>5, <2>1, PeerEnded DEF peer
  <1>6. ~WriteFails(p)
    BY <1>2, <1>5 DEF WriteFails, Running
  <1>7. ASSUME Dir(p, at[p]) = "in", w # << >>, what # "count", left[p] = Header
        PROVE  Fits(p, Head(w).n)
    <2>1. Head(w).n = Size(args, what)
      <3>1. Head(w) = Unit("length", Size(args, what))
        BY <1>7, NextIn
      <3> QED
        BY <3>1 DEF Unit
    <2>2. what \in {"addr", "body", "reply"}
      BY <1>7 DEF What
    <2>3. what = "reply" => frameLen[p].body = args.body
      BY <1>1, <1>7, UnitsAhead DEF Local, IsForward
    <2>4. args.body <= BodyCap /\ args.addr <= AddrCap
      BY DEF Fine
    <2> HIDE DEF what, w
    <2> QED
      BY <1>2, <2>1, <2>2, <2>3, <2>4 DEF Fits, RoomFor, Size
  <1>8. ~ReadFails(p)
    <2>1. Incoming(p) = w /\ Outgoing(p) = wire[<<p, peer>>]
      BY <1>2 DEF Incoming, Outgoing
    <2> HIDE DEF peer, what, w
    <2> QED
      BY <1>2, <1>5, <1>7, <2>1 DEF ReadFails, Running, w
  <1> QED
    BY <1>6, <1>8

(* A unit read or written. *)
LEMMA CauseKeptByMove ==
    ASSUME ChainInv, ChainInv', NEW p \in Procs, status[p] = "running", args' = args,
           Moves(p, told'[p]), Sound(args), \A q \in Procs : CauseInv(q)
    PROVE  \A q \in Procs : CauseInv(q)'
  <1> DEFINE s == at[p]
             ends == Finishes(args, p, s, left[p]) /\ NextStep(p, s) = Start(p)
  <1>1. /\ s \in 1..Steps(p) /\ i[p] \in Nat /\ args \in Args
        /\ s < Start(p) => i[p] = 0
    BY TypesOf DEF Local
  <1>2. args.nrpc \in Int /\ args.nrpc >= 1
    BY <1>1, ChainAssumption DEF Sound, Args
  <1>3. s >= Start(p) => i[p] < args.nrpc
    BY DEF CauseInv
  <1>4. i[p] < args.nrpc
    BY <1>1, <1>2, <1>3 DEF Start
  <1>5. /\ Advances(args, p, s, left[p], i[p], at'[p], left'[p], i'[p])
        /\ status'[p] = StatusAfter(p, ends, i'[p], told'[p], status[p])
    BY DEF Moves
  <1>6. Start(p) > 1 /\ Start(p) < Steps(p) /\ Start(p) \in Nat /\ Steps(p) \in Nat
    BY DEF Start, Steps
  <1>7. ASSUME ends
        PROVE  at'[p] = Start(p) /\ left'[p] = Header /\ told'[p] = args.nrpc
               /\ i'[p] \in Int /\ i'[p] <= args.nrpc
    <2>1. /\ at'[p] = Start(p) /\ left'[p] = Header
          /\ i'[p] = IF s = Steps(p) THEN i[p] + 1 ELSE i[p]
      BY <1>5, <1>7 DEF Advances
    <2>2. Local(args', p, at'[p], left'[p], i'[p], frameLen'[p], tag'[p], told'[p])
      BY DEF ChainInv, LocalInv
    <2>3. told'[p] = args.nrpc
      BY <1>6, <2>1, <2>2 DEF Local
    <2> QED
      BY <1>1, <1>2, <1>4, <2>1, <2>3
  <1>8. ASSUME ~ends
        PROVE  i'[p] = i[p] /\ status'[p] = "running"
    <2>1. i'[p] = i[p]
      BY <1>1, <1>5, <1>6, <1>8 DEF Advances, NextStep
    <2> QED
      BY <1>5, <1>8, <2>1 DEF StatusAfter
  <1>9. CauseInv(p)'
    <2>1. CASE ends /\ i'[p] >= args.nrpc
      <3>1. status'[p] = EndOf(p, args.nrpc)
        BY <1>5, <1>7, <2>1 DEF StatusAfter
      <3>2. status'[p] = "done"
        BY <1>2, <3>1 DEF EndOf
      <3>3. i'[p] = args.nrpc
        BY <1>2, <1>7, <2>1
      <3> QED
        BY <1>7, <2>1, <3>2, <3>3 DEF CauseInv
    <2>2. CASE ends /\ ~(i'[p] >= args.nrpc)
      <3>1. status'[p] = "running"
        BY <1>5, <1>7, <2>2 DEF StatusAfter
      <3>2. i'[p] < args.nrpc
        BY <1>2, <1>7, <2>2
      <3> QED
        BY <3>1, <3>2 DEF CauseInv
    <2>3. CASE ~ends
      BY <1>4, <1>8, <2>3 DEF CauseInv
    <2> QED
      BY <2>1, <2>2, <2>3
  <1>10. ASSUME NEW q \in Procs \ {p} PROVE CauseInv(q)'
    <2>1. /\ at'[q] = at[q] /\ left'[q] = left[q] /\ i'[q] = i[q] /\ status'[q] = status[q]
      BY DEF Moves
    <2>2. CauseInv(q)
      OBVIOUS
    <2> QED
      BY <2>1, <2>2 DEF CauseInv
  <1> QED
    BY <1>9, <1>10

(* A process started or connected. *)
LEMMA CauseKeptByStart ==
    ASSUME ChainInv, NEW p \in Procs, Listen(p) \/ Dial(p) \/ Accept(p),
           \A q \in Procs : CauseInv(q), NEW q \in Procs
    PROVE  CauseInv(q)'
  <1>1. /\ status[p] \in NotYet /\ UNCHANGED <<args, at, left, i>>
        /\ \E st \in NotYet \cup {"running"} : status' = [status EXCEPT ![p] = st]
    BY DEF Listen, Dial, Accept, Goes, NotYet, progress
  <1>2. PICK st \in NotYet \cup {"running"} : status' = [status EXCEPT ![p] = st]
    BY <1>1
  <1>3. status \in [Procs -> Statuses] /\ LocalInv(p)
    BY DEF ChainInv, ChainTypes
  <1>4. at[p] = 1 /\ ~(at[p] >= Start(p))
    BY <1>1, <1>3 DEF LocalInv, Start
  <1>5. status'[q] = IF q = p THEN st ELSE status[q]
    BY <1>2, <1>3
  <1>6. st # "done" /\ st # "failed"
    BY DEF NotYet
  <1> QED
    BY <1>1, <1>4, <1>5, <1>6 DEF CauseInv

LEMMA CausesInvNext ==
    ASSUME ChainInv, CausesInv, [Next]_vars
    PROVE  CausesInv'
  <1>1. ChainInv'
    BY ChainInvNext
  <1>2. SUFFICES ASSUME Fine' PROVE \A q \in Procs : CauseInv(q)'
    BY DEF CausesInv
  <1>3. CASE UNCHANGED vars
    <2>1. UNCHANGED <<args, status, at, left, i, interfered>>
      BY <1>3 DEF vars, progress
    <2> QED
      BY <1>2, <2>1 DEF Fine, CausesInv, CauseInv
  <1>4. CASE Next
    <2>1. PICK p \in Procs : Listen(p) \/ Connect(p) \/ Kill(p) \/ Step(p)
      BY <1>4 DEF Next
    <2>2. ~DialFails(p) /\ ~Kill(p)
      BY <1>2 DEF Fine, DialFails, Kill
    <2>3. args' = args /\ interfered' = interfered
      BY <2>1, <2>2 DEF Connect, Step, Listen, Dial, Accept, WriteCount, WriteLength,
                        WritePayload, WriteFails, ReadCount, ReadLength, ReadPayload,
                        ReadFails, Write, Read
    <2>4. Fine
      BY <1>2, <2>3 DEF Fine
    <2>5. Sound(args) /\ \A q \in Procs : CauseInv(q)
      BY <2>4 DEF CausesInv, Fine, Sound
    <2>6. ~WriteFails(p) /\ ~ReadFails(p)
      BY <2>4, NoFailure
    <2>7. CASE Listen(p) \/ Dial(p) \/ Accept(p)
      BY <2>5, <2>7, CauseKeptByStart
    <2>8. CASE ReadCount(p) \/ ReadLength(p) \/ ReadPayload(p)
      <3>1. Reads(p) /\ Moves(p, told'[p])
        BY <2>8, ReadSteps
      <3>2. status[p] = "running"
        BY <3>1 DEF Reads
      <3> QED
        BY <1>1, <2>3, <2>5, <3>1, <3>2, CauseKeptByMove
    <2>9. CASE WriteCount(p) \/ WriteLength(p) \/ WritePayload(p)
      <3>1. PICK x \in Units : Writes(p, x) /\ Moves(p, told[p])
        BY <2>9, WriteSteps
      <3>2. status[p] = "running" /\ Moves(p, told'[p])
        BY <3>1, WriteHolds DEF Writes
      <3> QED
        BY <1>1, <2>3, <2>5, <3>2, CauseKeptByMove
    <2> QED
      BY <2>1, <2>2, <2>6, <2>7, <2>8, <2>9 DEF Connect, Step
  <1> QED
    BY <1>3, <1>4

(* If nobody is killed or started too early, the buffers are long enough   *)
(* and uint32 holds the number of RPCs, which is not 0, no process exits   *)
(* with an error, however the frames are cut.                              *)
THEOREM Causes == Spec => []FailuresHaveCauses
  <1>1. Init => CausesInv
    <2>1. SUFFICES ASSUME Init, NEW p \in Procs PROVE CauseInv(p)
      BY DEF CausesInv
    <2>2. status[p] = "off"
      BY <2>1 DEF Init
    <2> QED
      BY <2>2 DEF CauseInv
  <1>2. ChainInv /\ CausesInv /\ [Next]_vars => CausesInv'
    BY CausesInvNext
  <1>3. CausesInv => FailuresHaveCauses
    BY DEF CausesInv, FailuresHaveCauses, CauseInv
  <1> QED
    BY <1>1, <1>2, <1>3, ChainInvariant, PTL DEF Spec
-----------------------------------------------------------------------------
(* The chain keeps the promise of Echo.                                    *)

LEMMA CalledAt ==
    ASSUME NEW a \in Args, NEW s \in 1..4, NEW l \in Int, InFrame(a, "client", s, l)
    PROVE  s > 1 /\ (s # 2 \/ l # Header) <=> SentAt("client", a, s, l) > 0
  BY DEF Args, InFrame, SentAt, InRequest, Moved, Header, Start, FirstOut, What, Size,
         RequestLen

Called == IF at["client"] > 1 /\ InCall THEN i["client"] + 1 ELSE i["client"]

CalledIfSent == Called = IF Sent("client") > 0 THEN i["client"] + 1 ELSE i["client"]

LEMMA CalledIs == ChainInv => CalledIfSent
  <1> SUFFICES ASSUME ChainInv PROVE CalledIfSent
    OBVIOUS
  <1>1. "client" \in Procs /\ RoundStart("client") = 2 /\ Steps("client") = 4
    BY Neighbours, ScriptIs DEF Start, Steps
  <1>2. /\ at["client"] \in 1..Steps("client") /\ left["client"] \in Int /\ args \in Args
        /\ InFrame(args, "client", at["client"], left["client"])
    BY <1>1, TypesOf
  <1>3. at["client"] > 1 /\ InCall <=> Sent("client") > 0
    BY <1>1, <1>2, CalledAt DEF InCall, Sent
  <1> QED
    BY <1>3 DEF Called, CalledIfSent

LEMMA CalledNext == ChainInv' => CalledIfSent'
  BY CalledIs, PTL

LEMMA ProxySends ==
    ASSUME NEW a \in Args, NEW s \in 1..8, NEW l \in Int, InFrame(a, "proxy", s, l)
    PROVE  SentAt("proxy", a, s, l) > 0 => TakenAt("proxy", a, s, l) = RequestLen(a)
  BY DEF Args, InFrame, SentAt, TakenAt, InRequest, Moved, Header, Start, FirstOut, FirstIn,
         What, Size, RequestLen

(* A request that was taken whole is the sender's own.                     *)
LEMMA TakenWhole ==
    ASSUME ChainInv, NEW u \in Senders, NEW d, d = NextHop(u), Taken(d) = RequestLen(args)
    PROVE  i[d] = i[u] /\ Sent(u) > 0
  <1>1. /\ Positions(args, Sent(u), Taken(d), Got(u), Answered(d))
        /\ HopState(args, i[u], i[d], Sent(u), Taken(d), Got(u), Answered(d),
                    wire[<<u, d>>], wire[<<d, u>>])
        /\ wire[<<u, d>>] \in Seq(Units) /\ args \in Args
    BY HopIs
  <1>2. RequestLen(args) \in Int /\ RequestLen(args) > 0
    BY <1>1, Lengths
  <1>3. i[d] = i[u]
    BY <1>1, <1>2 DEF HopState
  <1>4. Len(wire[<<u, d>>]) = Sent(u) - RequestLen(args)
    BY <1>1, <1>3 DEF HopState, Carries
  <1>5. Len(wire[<<u, d>>]) >= 0 /\ Len(wire[<<u, d>>]) \in Int
    BY <1>1
  <1>6. Sent(u) \in Int
    BY <1>1 DEF Positions
  <1> QED
    BY <1>2, <1>3, <1>4, <1>5, <1>6

LEMMA ServedWhen ==
    ASSUME ChainInv, Taken("server") = RequestLen(args)
    PROVE  i["server"] = i["client"] /\ Sent("client") > 0
  <1>1. CASE Proxied
    <2>1. /\ "client" \in Senders /\ "proxy" \in Senders /\ "proxy" \in Procs
          /\ NextHop("client") = "proxy" /\ NextHop("proxy") = "server"
      BY <1>1, ChainIs DEF Senders
    <2>2. i["server"] = i["proxy"] /\ Sent("proxy") > 0
      BY <2>1, TakenWhole
    <2>3. Taken("proxy") = RequestLen(args)
      <3>1. Steps("proxy") = 8
        BY DEF Steps
      <3>2. /\ at["proxy"] \in 1..8 /\ left["proxy"] \in Int /\ args \in Args
            /\ InFrame(args, "proxy", at["proxy"], left["proxy"])
        BY <2>1, <3>1, TypesOf
      <3> QED
        BY <2>2, <3>2, ProxySends DEF Sent, Taken
    <2>4. i["proxy"] = i["client"] /\ Sent("client") > 0
      BY <2>1, <2>3, TakenWhole
    <2> QED
      BY <2>2, <2>4
  <1>2. CASE ~Proxied
    <2>1. "client" \in Senders /\ NextHop("client") = "server"
      BY <1>2, ChainIs DEF Senders
    <2> QED
      BY <2>1, TakenWhole
  <1> QED
    BY <1>1, <1>2

LEMMA ReturnedWhen ==
    ASSUME ChainInv, NEW d, d = NextHop("client"), wire[<<d, "client">>] # << >>,
           Got("client") + 1 = ReplyLen(args)
    PROVE  i["client"] < i["server"]
  <1>1. "client" \in Senders
    BY Neighbours
  <1>2. /\ Positions(args, Sent("client"), Taken(d), Got("client"), Answered(d))
        /\ HopState(args, i["client"], i[d], Sent("client"), Taken(d), Got("client"),
                    Answered(d), wire[<<"client", d>>], wire[<<d, "client">>])
        /\ wire[<<d, "client">>] \in Seq(Units) /\ args \in Args
        /\ i["client"] \in Nat /\ i[d] \in Nat
    BY <1>1, HopIs
  <1>3. ReplyLen(args) \in Int /\ ReplyLen(args) = args.body + 1 /\ args.body \in Nat
    BY <1>2, Lengths
  <1>4. Answered(d) \in 0..args.body /\ Got("client") \in Int
    BY <1>2 DEF Positions
  <1>5. i[d] # i["client"]
    <2>1. CASE i[d] = i["client"]
      <3>1. Len(wire[<<d, "client">>]) = Answered(d) - Got("client")
        BY <1>2, <2>1 DEF HopState, Carries
      <3>2. Len(wire[<<d, "client">>]) > 0
        BY <1>2
      <3> QED
        BY <1>3, <1>4, <3>1, <3>2
    <2> QED
      BY <2>1
  <1>6. i[d] = i["client"] + 1
    BY <1>2, <1>5 DEF HopState
  <1>7. CASE Proxied
    <2>1. d = "proxy" /\ "proxy" \in Senders /\ NextHop("proxy") = "server"
      BY <1>7, ChainIs DEF Senders
    <2>2. i["server"] \in {i["proxy"], i["proxy"] + 1}
      BY <2>1, HopIs DEF HopState
    <2> QED
      BY <1>2, <1>6, <2>1, <2>2
  <1>8. CASE ~Proxied
    BY <1>2, <1>6, <1>8, ChainIs
  <1> QED
    BY <1>7, <1>8

(* A unit read or written is a call made, served or returned, or nothing.  *)
LEMMA EchoByMove ==
    ASSUME ChainInv, ChainInv', NEW p \in Procs, NEW n, Moves(p, n), args' = args,
           status[p] = "running",
           Dir(p, at[p]) = "in" => wire[<<Peer(p, at[p]), p>>] # << >>
    PROVE  [Calls!Next]_(Calls!evars)
  <1> DEFINE lost == status["client"] = "failed"
             ic == i["client"]
             is == i["server"]
             sent == Sent("client")
  <1>1. /\ "client" \in Procs /\ "server" \in Procs /\ "client" # "server"
        /\ ic \in Nat /\ is \in Nat /\ args \in Args
        /\ sent \in Int /\ RequestLen(args) > 0
    <2>1. "client" \in Procs /\ "server" \in Procs
      BY Neighbours
    <2>2. ic \in Nat /\ is \in Nat /\ args \in Args
      BY <2>1, TypesOf
    <2>3. sent \in -1..RequestLen(args) /\ RequestLen(args) \in Int
      BY <2>1, <2>2, BoundsOf, Lengths
    <2> QED
      BY <2>1, <2>2, <2>3, Lengths
  <1>2. /\ Called = IF sent > 0 THEN ic + 1 ELSE ic
        /\ Called' = IF sent' > 0 THEN ic' + 1 ELSE ic'
    BY CalledIs, CalledNext DEF CalledIfSent
  <1>3. /\ at[p] \in 1..Steps(p) /\ Dir(p, at[p]) \in {"in", "out"}
        /\ p \in {"client", "proxy", "server"}
    BY TypesOf, Neighbours DEF Dir
  <1>4. lost' = lost
    <2>1. CASE p = "client"
      <3>1. status'[p] \in {"running", "done"}
        BY <2>1 DEF Moves, StatusAfter, EndOf
      <3> QED
        BY <2>1, <3>1
    <2>2. CASE p # "client"
      BY <1>1, <2>2 DEF Moves
    <2> QED
      BY <2>1, <2>2
  <1>5. /\ p # "client" => ic' = ic /\ sent' = sent
        /\ p # "server" => is' = is
    BY <1>1, OthersStay
  <1>6. p # "client" => Called' = Called
    BY <1>2, <1>5
  <1>7. Calls!evars = <<Called, is, ic, lost>>
    BY DEF Calls!evars, Called
  <1>8. Called' = Called /\ is' = is /\ ic' = ic => [Calls!Next]_(Calls!evars)
    BY <1>4 DEF Calls!evars, Called
  <1>9. CASE p = "client"
    <2>1. ~lost
      BY <1>9
    <2>2. is' = is
      BY <1>1, <1>5, <1>9
    <2>3. CASE Sends(p)
      <3>1. sent' = sent + 1 /\ ic' = ic
        BY <1>9, <2>3 DEF Sends
      <3>2. CASE sent = 0
        <4>1. Called = ic /\ Called' = ic + 1
          BY <1>1, <1>2, <3>1, <3>2
        <4>2. Calls!Call
          BY <1>4, <2>1, <2>2, <3>1, <4>1 DEF Calls!Call, Called
        <4> QED
          BY <4>2 DEF Calls!Next
      <3>3. CASE sent # 0
        <4>1. Called' = Called
          BY <1>1, <1>2, <3>1, <3>3
        <4> QED
          BY <1>8, <2>2, <3>1, <4>1
      <3> QED
        BY <3>2, <3>3
    <2>4. CASE Gets(p) /\ Dir(p, at[p]) = "in" /\ ~IsForward(What(p, at[p]))
      <3>1. sent = RequestLen(args)
        BY <1>9, <2>4 DEF Gets
      <3>2. Called = ic + 1
        BY <1>1, <1>2, <3>1
      <3>3. CASE sent' = sent /\ ic' = ic
        <4>1. Called' = Called
          BY <1>2, <3>3
        <4> QED
          BY <1>8, <2>2, <3>3, <4>1
      <3>4. CASE Got(p) + 1 = ReplyLen(args) /\ sent' = 0 /\ ic' = ic + 1
        <4>1. Called' = ic + 1
          BY <1>2, <3>4
        <4>2. Peer(p, at[p]) = NextHop("client")
          BY <1>3, <1>9, <2>4, PeerIs
        <4>3. wire[<<NextHop("client"), "client">>] # << >>
          BY <1>9, <2>4, <4>2
        <4>4. ic < is
          BY <1>9, <3>4, <4>3, ReturnedWhen
        <4>5. Calls!Return
          BY <1>4, <2>1, <2>2, <3>2, <3>4, <4>1, <4>4 DEF Calls!Return, Called
        <4> QED
          BY <4>5 DEF Calls!Next
      <3> QED
        BY <1>9, <2>4, <3>3, <3>4 DEF Gets
    <2> QED
      BY <1>3, <1>9, <2>3, <2>4, PositionsMove DEF Takes, Answers
  <1>10. CASE p = "server"
    <2>1. ic' = ic /\ Called' = Called
      BY <1>1, <1>5, <1>6, <1>10
    <2>2. CASE Takes(p)
      <3>1. is' = is
        BY <1>10, <2>2 DEF Takes
      <3> QED
        BY <1>8, <2>1, <3>1
    <2>3. CASE Answers(p)
      <3>1. is = ic /\ sent > 0
        BY <1>10, <2>3, ServedWhen DEF Answers
      <3>2. is < Called
        BY <1>1, <1>2, <3>1
      <3>3. CASE is' = is + 1
        <4>1. Calls!Serve
          BY <1>4, <2>1, <3>2, <3>3 DEF Calls!Serve, Called
        <4> QED
          BY <4>1 DEF Calls!Next
      <3>4. CASE is' = is
        BY <1>8, <2>1, <3>4
      <3> QED
        BY <1>10, <2>3, <3>3, <3>4 DEF Answers
    <2> QED
      BY <1>3, <1>10, <2>2, <2>3, PositionsMove DEF Sends, Gets
  <1>11. CASE p = "proxy"
    BY <1>5, <1>6, <1>8, <1>11
  <1> QED
    BY <1>3, <1>9, <1>10, <1>11

LEMMA EchoByIdling ==
    ASSUME ChainInv, NEW p \in Procs, Idles(p),
           status[p] = "failed" => UNCHANGED status
    PROVE  [Calls!Next]_(Calls!evars)
  <1> DEFINE lost == status["client"] = "failed"
  <1>1. PICK st \in Statuses : status' = [status EXCEPT ![p] = st]
    BY DEF Idles
  <1>2. status \in [Procs -> Statuses] /\ "client" \in Procs
    BY Neighbours DEF ChainInv, ChainTypes
  <1>3. lost => lost'
    BY <1>1, <1>2
  <1>4. UNCHANGED <<at, left, i>>
    BY DEF Idles
  <1>5. Called' = Called /\ i'["server"] = i["server"] /\ i'["client"] = i["client"]
    BY <1>4 DEF Called, InCall
  <1>6. CASE lost' = lost
    BY <1>5, <1>6 DEF Calls!evars, Called
  <1>7. CASE ~lost /\ lost'
    <2>1. Calls!Lose
      BY <1>5, <1>7 DEF Calls!Lose, Called
    <2> QED
      BY <2>1 DEF Calls!Next
  <1> QED
    BY <1>3, <1>6, <1>7

LEMMA IdlersAlive ==
    ASSUME NEW p,
           \/ Listen(p) \/ Dial(p) \/ DialFails(p) \/ Accept(p) \/ Kill(p)
           \/ WriteFails(p) \/ ReadFails(p)
    PROVE  status[p] # "failed"
  BY DEF Listen, Dial, DialFails, Accept, Kill, WriteFails, ReadFails, Goes, Fails

LEMMA EchoStep ==
    ASSUME ChainInv, [Next]_vars
    PROVE  [Calls!Next]_(Calls!evars)
  <1>1. ChainInv'
    BY ChainInvNext
  <1>2. CASE UNCHANGED vars
    <2>1. UNCHANGED <<status, at, left, i>>
      BY <1>2 DEF vars, progress
    <2> QED
      BY <2>1 DEF Calls!evars, InCall
  <1>3. CASE Next
    <2>1. PICK p \in Procs : Listen(p) \/ Connect(p) \/ Kill(p) \/ Step(p)
      BY <1>3 DEF Next
    <2>2. CASE ReadCount(p) \/ ReadLength(p) \/ ReadPayload(p)
      <3>1. Reads(p) /\ Moves(p, told'[p])
        BY <2>2, ReadSteps
      <3>2. status[p] = "running" /\ args' = args /\ wire[<<Peer(p, at[p]), p>>] # << >>
        BY <3>1 DEF Reads
      <3> QED
        BY <1>1, <3>1, <3>2, EchoByMove
    <2>3. CASE WriteCount(p) \/ WriteLength(p) \/ WritePayload(p)
      <3>1. PICK x \in Units : Writes(p, x) /\ Moves(p, told[p])
        BY <2>3, WriteSteps
      <3>2. status[p] = "running" /\ args' = args /\ Dir(p, at[p]) # "in"
        BY <3>1 DEF Writes
      <3> QED
        BY <1>1, <3>1, <3>2, EchoByMove
    <2>4. CASE \/ Listen(p) \/ Dial(p) \/ DialFails(p) \/ Accept(p) \/ Kill(p)
               \/ WriteFails(p) \/ ReadFails(p)
      <3>1. Idles(p) /\ status[p] # "failed"
        BY <2>4, IdleSteps, IdlersAlive
      <3> QED
        BY <3>1, EchoByIdling
    <2> QED
      BY <2>1, <2>2, <2>3, <2>4 DEF Connect, Step
  <1> QED
    BY <1>2, <1>3

(* The chain is an Echo: the calls are made one after the other, the       *)
(* server serves each once, after it is made and before it returns, and    *)
(* none is made or returns once one was lost (client.go, server.go,        *)
(* proxy.go), through a proxy or not.                                      *)
THEOREM EchoImplemented == Spec => EchoSpec
  <1>1. Init => Calls!Init
    <2>1. SUFFICES ASSUME Init PROVE Calls!Init
      OBVIOUS
    <2>2. "client" \in Procs /\ "server" \in Procs
      BY Neighbours
    <2>3. /\ at["client"] = 1 /\ i["client"] = 0 /\ i["server"] = 0
          /\ status["client"] = "off"
      BY <2>1, <2>2 DEF Init
    <2> QED
      BY <2>3 DEF Calls!Init
  <1>2. ChainInv /\ [Next]_vars => [Calls!Next]_(Calls!evars)
    BY EchoStep
  <1>3. Spec => Calls!Init /\ [][Calls!Next]_(Calls!evars)
    BY <1>1, <1>2, ChainInvariant, PTL DEF Spec
  <1> QED
    BY <1>3 DEF EchoSpec, Calls!Spec
=============================================================================
