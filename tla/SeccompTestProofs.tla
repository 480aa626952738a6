------------------------- MODULE SeccompTestProofs --------------------------
(***************************************************************************)
(* What a report of the seccomp function can be trusted for, whatever the  *)
(* filters and the number of invocations, although the map is marshalled   *)
(* without the lock and clients outlive invocations.  IInv: a report that  *)
(* says the message arrived also says that the client of the same          *)
(* invocation connected, and does not say that it failed to write, since   *)
(* no server is given the connection of another invocation's client.       *)
(* CInv: a report that names a failure names one with a cause of its own.  *)
(***************************************************************************)
EXTENDS SeccompTest, TLAPS

SrvSteps == {"idle", "dead", "socket", "bind", "listen", "accept", "read",
             "close nfd", "close fd", "marshal", "marshalling"}
ToConnect == {"off", "socket", "connect"}
ToWrite == ToConnect \cup {"add connect", "write", "add write"}
Connected == {"write", "add write", "add size", "close", "add close"}
ClntSteps == ToWrite \cup Connected \cup {"ended"}
Outcomes == {"none", "ok", "fail"}
Ends == {"none", "queued", "open", "reset", "lingering", "gone"}
Maps == [Names -> Outcomes]

Types ==
    /\ inv \in Nat /\ inv <= MaxInvocations
    /\ srv \in SrvSteps
    /\ srv \notin {"idle", "dead"} => inv \in Invocations
    /\ clnt \in [Invocations -> ClntSteps]
    /\ err \in [Invocations -> BOOLEAN]
    /\ results \in [Invocations -> Maps]
    /\ begun \in Maps
    /\ report \in [Invocations -> Maps \cup {NoReport}]
    /\ conn \in [Invocations -> Ends]
    /\ sent \in [Invocations -> BOOLEAN]

(* A client starts when its server listens, and has a connection only      *)
(* after it connected.                                                     *)
ClientsStart ==
    \A i \in Invocations :
        /\ i > inv \/ (i = inv /\ srv \in {"socket", "bind", "listen"}) => clnt[i] = "off"
        /\ clnt[i] \in ToConnect => conn[i] = "none"

(* Where Accept is let through, an invocation that is past it has accepted *)
(* the connection of its client, if it has one, so that no earlier client  *)
(* is still to connect or to be accepted.                                  *)
PastAccept == {"read", "close nfd", "close fd", "marshal", "marshalling", "idle"}

AllAccepted ==
    Allowed("accept") =>
        \A i \in Invocations :
            i < inv \/ (i = inv /\ srv \in PastAccept) =>
                clnt[i] \notin {"socket", "connect"} /\ conn[i] # "queued"

(* While a server listens and reads, no other connection is open.          *)
OnlyItsClient ==
    /\ srv = "read" => Allowed("accept")
    /\ Allowed("accept") /\ srv \in {"listen", "accept", "read"} =>
          \A i \in Invocations : i # inv => conn[i] \notin {"queued", "open"}

(* What a client that has written has noted, or will note next. *)
Written(i) ==
    /\ results[i]["connect"] = "ok"
    /\ \/ clnt[i] = "add write" /\ ~err[i] /\ results[i]["socket.write"] = "none"
       \/ clnt[i] \in {"close", "add close", "ended"} /\ results[i]["socket.write"] = "ok"

ClientsNote ==
    \A i \in Invocations :
        /\ clnt[i] \in Connected => results[i]["connect"] = "ok"
        /\ clnt[i] \in ToWrite => results[i]["socket.write"] = "none"

ReadIsWritten ==
    \A i \in Invocations : sent[i] \/ results[i]["socket.read"] = "ok" => Written(i)

(* What json.Marshal began with. *)
BegunIsGood ==
    srv = "marshalling" =>
        /\ begun["socket.read"] = results[inv]["socket.read"]
        /\ begun["socket.read"] = "ok" =>
              begun["connect"] = "ok" /\ begun["socket.write"] # "fail"

IInv ==
    /\ Types /\ ClientsStart /\ AllAccepted /\ OnlyItsClient
    /\ ClientsNote /\ ReadIsWritten /\ BegunIsGood /\ ReadMeansConnected

-----------------------------------------------------------------------------
LEMMA InvocationsAreNats == MaxInvocations \in Nat /\ \A i \in Invocations : i \in Nat /\ i > 0
  BY SeccompAssumption DEF Invocations

LEMMA InvInit == Init => IInv
  <1> SUFFICES ASSUME Init PROVE IInv
    OBVIOUS
  <1>1. NoResults \in Maps
    BY DEF NoResults, Maps, Outcomes
  <1>2. Types
    BY <1>1, InvocationsAreNats
    DEF Init, Types, SrvSteps, ClntSteps, ToWrite, ToConnect, Ends, NoReport
  <1>3. ReadMeansConnected
    BY DEF Init, ReadMeansConnected, NoReport
  <1>4. /\ \A i \in Invocations : ~sent[i]
        /\ \A i \in Invocations, n \in Names : results[i][n] = "none"
    BY DEF Init, NoResults
  <1>5. "connect" \in Names /\ "socket.read" \in Names /\ "socket.write" \in Names
    BY DEF Names, SrvNames, ClntNames
  <1>6. ClientsNote /\ ReadIsWritten
    BY <1>4, <1>5 DEF Init, ClientsNote, ReadIsWritten, Connected
  <1> QED
    BY <1>2, <1>3, <1>6, InvocationsAreNats
    DEF Init, IInv, ClientsStart, AllAccepted, OnlyItsClient, BegunIsGood, ToConnect

(* What has been written stays written as long as the client does nothing. *)
LEMMA WrittenStays ==
    ASSUME NEW i \in Invocations, Written(i),
           clnt'[i] = clnt[i], err'[i] = err[i],
           results'[i]["connect"] = results[i]["connect"],
           results'[i]["socket.write"] = results[i]["socket.write"]
    PROVE  Written(i)'
  BY DEF Written

LEMMA NamesDiffer ==
    /\ "connect" \in Names /\ "socket.read" \in Names /\ "socket.write" \in Names
    /\ SrvNames \subseteq Names /\ ClntNames \subseteq Names
    /\ "connect" \notin SrvNames /\ "socket.write" \notin SrvNames
    /\ "socket.read" \notin ClntNames
  BY DEF Names, SrvNames, ClntNames

-----------------------------------------------------------------------------
(* A call of the server. *)
SrvCalls ==
    SrvSocket \/ SrvBind \/ SrvListen \/ SrvAccept \/ SrvRead \/ SrvCloseNfd \/ SrvCloseFd

(* The connections and messages a call of the server leaves. *)
LEMMA SrvCallConns ==
    ASSUME IInv, SrvCalls
    PROVE  /\ conn' \in [Invocations -> Ends] /\ sent' \in [Invocations -> BOOLEAN]
           /\ \A i \in Invocations :
                 /\ sent'[i] => sent[i]
                 /\ conn'[i] = "none" <=> conn[i] = "none"
                 /\ conn'[i] = "queued" => conn[i] = "queued"
                 /\ conn'[i] = "open" => conn[i] = "open" \/ (srv = "accept" /\ conn[i] = "queued")
  <1> USE DEF IInv
  <1>1. CASE SrvSocket \/ SrvBind \/ SrvListen
    BY <1>1 DEF SrvSocket, SrvBind, SrvListen, kernel, Types
  <1>2. CASE SrvAccept
    BY <1>2 DEF SrvAccept, Types, Ends
  <1>3. CASE SrvRead
    BY <1>3 DEF SrvRead, Types, Accepted
  <1>4. CASE SrvCloseNfd
    BY <1>4 DEF SrvCloseNfd, ServerEndAfterClose, Accepted, Types, Ends
  <1>5. CASE SrvCloseFd
    BY <1>5 DEF SrvCloseFd, Types, Ends
  <1> QED
    BY <1>1, <1>2, <1>3, <1>4, <1>5 DEF SrvCalls

(* Its result, and where the server goes from there. *)
LEMMA SrvCallResult ==
    ASSUME IInv, SrvCalls
    PROVE  /\ inv' = inv /\ inv \in Invocations
           /\ UNCHANGED <<err, report, begun, denied>>
           /\ \E name \in SrvNames, o \in {"ok", "fail"} :
                 /\ results' = [results EXCEPT ![inv][name] = o]
                 /\ name = "socket.read" /\ o = "ok" =>
                       srv = "read" /\ \E i \in Accepted : sent[i]
           /\ clnt' = clnt \/ (srv = "listen" /\ clnt' = [clnt EXCEPT ![inv] = "socket"])
           /\ \/ srv = "socket" /\ srv' \in {"bind", "marshal"}
              \/ srv = "bind" /\ srv' = "close fd"
              \/ srv = "bind" /\ srv' = "listen" /\ ~PortInUse
              \/ srv = "listen" /\ srv' = "close fd" /\ clnt' = clnt
              \/ srv = "listen" /\ srv' = "accept"
              \/ srv = "accept" /\ srv' = "close fd" /\ ~Allowed("accept")
              \/ /\ srv = "accept" /\ srv' = "read" /\ Allowed("accept")
                 /\ \E i \in Invocations :
                       conn[i] = "queued" /\ conn' = [conn EXCEPT ![i] = "open"]
              \/ srv = "read" /\ srv' = "close nfd"
              \/ srv = "close nfd" /\ srv' = "close fd"
              \/ srv = "close fd" /\ srv' = "marshal"
  <1> USE DEF IInv, SrvCall, Outcome, SrvNames, Types
  <1>1. CASE SrvSocket
    BY <1>1 DEF SrvSocket
  <1>2. CASE SrvBind
    BY <1>2 DEF SrvBind
  <1>3. CASE SrvListen
    BY <1>3 DEF SrvListen
  <1>4. CASE SrvAccept
    BY <1>4 DEF SrvAccept
  <1>5. CASE SrvRead
    BY <1>5 DEF SrvRead
  <1>6. CASE SrvCloseNfd
    BY <1>6 DEF SrvCloseNfd
  <1>7. CASE SrvCloseFd
    BY <1>7 DEF SrvCloseFd
  <1> QED
    BY <1>1, <1>2, <1>3, <1>4, <1>5, <1>6, <1>7 DEF SrvCalls

LEMMA SrvCallStep == ASSUME IInv, SrvCalls PROVE IInv'
  <1>1. /\ inv' = inv /\ inv \in Invocations /\ inv \in Nat
        /\ UNCHANGED <<err, report, begun, denied>>
    BY SrvCallResult, InvocationsAreNats
  <1>2. PICK name \in SrvNames, o \in {"ok", "fail"} :
            /\ results' = [results EXCEPT ![inv][name] = o]
            /\ name = "socket.read" /\ o = "ok" =>
                  srv = "read" /\ \E i \in Accepted : sent[i]
    BY SrvCallResult
  <1>3. /\ results' \in [Invocations -> Maps]
        /\ \A i \in Invocations :
              /\ results'[i]["connect"] = results[i]["connect"]
              /\ results'[i]["socket.write"] = results[i]["socket.write"]
              /\ results'[i]["socket.read"] = results[i]["socket.read"]
                 \/ (i = inv /\ name = "socket.read" /\ results'[i]["socket.read"] = o)
    BY <1>1, <1>2, NamesDiffer DEF IInv, Types, Maps, Outcomes
  <1>4. Types'
    BY <1>1, <1>3, SrvCallConns, SrvCallResult
    DEF IInv, Types, SrvSteps, ClntSteps, ToWrite, ToConnect
  <1>5. /\ clnt' = clnt \/ (srv = "listen" /\ srv' = "accept" /\ clnt[inv] = "off")
        /\ \A i \in Invocations : i # inv => clnt'[i] = clnt[i]
        /\ srv' \in {"socket", "bind", "listen"} => clnt' = clnt /\ srv \in {"socket", "bind"}
        /\ srv' \in PastAccept => clnt' = clnt
    <2>1. clnt \in [Invocations -> ClntSteps]
      BY DEF IInv, Types
    <2>2. srv = "listen" => clnt[inv] = "off"
      BY <1>1 DEF IInv, ClientsStart
    <2> QED
      BY <1>1, <2>1, <2>2, SrvCallResult DEF PastAccept
  <1>6. ClientsStart'
    <2> SUFFICES ASSUME NEW i \in Invocations
                 PROVE  /\ i > inv \/ (i = inv /\ srv' \in {"socket", "bind", "listen"})
                              => clnt'[i] = "off"
                        /\ clnt'[i] \in ToConnect => conn'[i] = "none"
      BY <1>1 DEF ClientsStart
    <2>1. i > inv => i # inv
      BY <1>1, InvocationsAreNats
    <2>2. clnt'[i] \in ToConnect => clnt[i] \in ToConnect
      BY <1>5 DEF ToConnect
    <2> QED
      BY <1>5, <2>1, <2>2, SrvCallConns DEF IInv, ClientsStart
  <1>7. AllAccepted'
    <2> SUFFICES ASSUME Allowed("accept"), NEW i \in Invocations,
                        i < inv \/ (i = inv /\ srv' \in PastAccept)
                 PROVE  clnt'[i] \notin {"socket", "connect"} /\ conn'[i] # "queued"
      BY <1>1 DEF AllAccepted, Allowed
    <2>1. CASE i < inv
      <3>1. clnt[i] \notin {"socket", "connect"} /\ conn[i] # "queued" /\ i # inv
        BY <2>1, <1>1, InvocationsAreNats DEF IInv, AllAccepted
      <3> QED
        BY <3>1, <1>5, SrvCallConns
    <2>2. CASE i = inv /\ srv \in PastAccept
      BY <2>2, SrvCallConns, SrvCallResult DEF IInv, AllAccepted, PastAccept
    <2>3. CASE i = inv /\ srv \in {"socket", "bind", "listen"}
      <3>1. srv' \in PastAccept
        BY <2>3, <1>1
      <3>2. clnt[i] = "off" /\ conn[i] = "none" /\ clnt'[i] = clnt[i]
        BY <2>3, <3>1, <1>5 DEF IInv, ClientsStart, ToConnect
      <3> QED
        BY <3>2, SrvCallConns
    <2>4. CASE i = inv /\ srv = "accept"
      <3>1. PICK j \in Invocations : conn[j] = "queued" /\ conn' = [conn EXCEPT ![j] = "open"]
        BY <2>4, SrvCallResult DEF PastAccept
      <3>2. j = inv
        BY <3>1, <2>4 DEF IInv, OnlyItsClient
      <3> QED
        BY <3>1, <3>2, <2>4, SrvCallResult DEF IInv, ClientsStart, Types, ToConnect
    <2> QED
      BY <2>1, <2>2, <2>3, <2>4, SrvCallResult DEF PastAccept
  <1>8. OnlyItsClient'
    <2>1. srv' = "read" => Allowed("accept")'
      BY <1>1, SrvCallResult DEF IInv, OnlyItsClient, Allowed
    <2> SUFFICES ASSUME Allowed("accept"), srv' \in {"listen", "accept", "read"},
                        NEW i \in Invocations, i # inv
                 PROVE  conn'[i] \notin {"queued", "open"}
      BY <1>1, <2>1 DEF OnlyItsClient, Allowed
    <2>2. CASE srv = "bind"
      <3>1. ~PortInUse
        BY <2>2, SrvCallResult
      <3>2. conn[i] # "open"
        BY <3>1 DEF PortInUse
      <3>3. conn[i] # "queued"
        <4>1. CASE i < inv
          BY <4>1 DEF IInv, AllAccepted
        <4>2. CASE i > inv
          BY <4>2 DEF IInv, ClientsStart, ToConnect
        <4> QED
          BY <4>1, <4>2, <1>1, InvocationsAreNats
      <3> QED
        BY <2>2, <3>2, <3>3, SrvCallConns
    <2>3. CASE srv \in {"listen", "accept"}
      BY <2>3, SrvCallConns DEF IInv, OnlyItsClient
    <2> QED
      BY <2>2, <2>3, SrvCallResult
  <1>9. ClientsNote'
    <2> SUFFICES ASSUME NEW i \in Invocations
                 PROVE  /\ clnt'[i] \in Connected => results'[i]["connect"] = "ok"
                        /\ clnt'[i] \in ToWrite => results'[i]["socket.write"] = "none"
      BY DEF ClientsNote
    <2>1. /\ clnt[i] \in Connected => results[i]["connect"] = "ok"
          /\ clnt[i] \in ToWrite => results[i]["socket.write"] = "none"
      BY DEF IInv, ClientsNote
    <2>2. CASE clnt'[i] = clnt[i]
      BY <1>3, <2>1, <2>2
    <2>3. CASE clnt'[i] # clnt[i]
      <3>1. clnt[i] = "off" /\ clnt'[i] = "socket"
        <4>1. i = inv /\ clnt' # clnt /\ clnt[i] = "off"
          BY <1>5, <2>3
        <4>2. clnt \in [Invocations -> ClntSteps]
          BY DEF IInv, Types
        <4> QED
          BY <4>1, <4>2, SrvCallResult
      <3> QED
        BY <1>3, <2>1, <3>1 DEF Connected, ToWrite, ToConnect
    <2> QED
      BY <2>2, <2>3
  <1>10. ReadIsWritten'
    <2> SUFFICES ASSUME NEW i \in Invocations,
                        sent'[i] \/ results'[i]["socket.read"] = "ok"
                 PROVE  Written(i)'
      BY DEF ReadIsWritten
    <2>1. Written(i)
      <3>1. CASE sent[i] \/ results[i]["socket.read"] = "ok"
        BY <3>1 DEF IInv, ReadIsWritten
      <3>2. CASE ~sent[i] /\ results[i]["socket.read"] # "ok"
        <4>1. i = inv /\ name = "socket.read" /\ o = "ok"
          BY <3>2, <1>3, SrvCallConns
        <4>2. PICK j \in Accepted : sent[j]
          BY <4>1, <1>2
        <4>3. srv = "read" /\ j \in Invocations /\ conn[j] = "open"
          BY <4>1, <4>2, <1>2 DEF Accepted
        <4>4. j = inv
          BY <4>3 DEF IInv, OnlyItsClient
        <4> QED
          BY <4>1, <4>2, <4>4 DEF IInv, ReadIsWritten
      <3> QED
        BY <3>1, <3>2
    <2>2. clnt'[i] = clnt[i]
      BY <2>1, SrvCallResult DEF Written, IInv, ClientsStart, Types
    <2> QED
      BY <1>1, <1>3, <2>1, <2>2, WrittenStays
  <1>11. BegunIsGood'
    BY SrvCallResult DEF BegunIsGood
  <1>12. ReadMeansConnected'
    BY <1>1 DEF IInv, ReadMeansConnected
  <1> QED
    BY <1>4, <1>6, <1>7, <1>8, <1>9, <1>10, <1>11, <1>12 DEF IInv

-----------------------------------------------------------------------------
(* Between calls: an invocation begins, or its results are marshalled. *)
LEMMA InvokeStep == ASSUME IInv, Invoke \/ InvokeWithNull PROVE IInv'
  <1>1. /\ srv = "idle" /\ inv \in Nat /\ inv + 1 \in Invocations
        /\ UNCHANGED <<denied, clnt, err, results, report, begun, conn, sent>>
        /\ \/ inv' = inv /\ srv' = "dead"
           \/ inv' = inv + 1 /\ srv' = "socket"
    BY DEF Invoke, InvokeWithNull, kernel, IInv, Types
  <1>2. inv' \in Nat /\ inv' <= MaxInvocations
    BY <1>1, InvocationsAreNats DEF IInv, Types, Invocations
  <1>3. Types'
    BY <1>1, <1>2 DEF IInv, Types, SrvSteps
  <1>4. \A i \in Invocations :
            /\ i > inv' \/ (i = inv' /\ srv' = "socket") => i > inv
            /\ i < inv' => i < inv \/ i = inv
    BY <1>1, InvocationsAreNats
  <1>5. ClientsStart' /\ AllAccepted'
    BY <1>1, <1>4 DEF IInv, ClientsStart, AllAccepted, Allowed, PastAccept
  <1>6. OnlyItsClient' /\ BegunIsGood'
    BY <1>1 DEF OnlyItsClient, BegunIsGood
  <1>7. ClientsNote' /\ ReadIsWritten' /\ ReadMeansConnected'
    BY <1>1 DEF IInv, ClientsNote, ReadIsWritten, Written, ReadMeansConnected
  <1> QED
    BY <1>3, <1>5, <1>6, <1>7 DEF IInv

LEMMA MarshalStep == ASSUME IInv, MarshalBegins \/ MarshalEnds PROVE IInv'
  <1>1. /\ UNCHANGED <<denied, inv, clnt, err, results, conn, sent>>
        /\ inv \in Invocations
        /\ \/ srv = "marshal" /\ srv' = "marshalling" /\ MarshalBegins
           \/ srv = "marshalling" /\ srv' = "idle" /\ MarshalEnds
    BY DEF MarshalBegins, MarshalEnds, kernel, IInv, Types
  <1>2. ClientsStart' /\ AllAccepted' /\ OnlyItsClient' /\ ClientsNote' /\ ReadIsWritten'
    BY <1>1
    DEF IInv, ClientsStart, AllAccepted, Allowed, PastAccept, OnlyItsClient, ClientsNote,
        ReadIsWritten, Written
  <1>3. CASE MarshalBegins
    <2>1. begun' = results[inv] /\ report' = report /\ srv' = "marshalling" /\ inv' = inv
      BY <1>3 DEF MarshalBegins
    <2>2. Types'
      BY <1>1, <2>1 DEF IInv, Types, SrvSteps
    <2>3. BegunIsGood'
      <3>1. results[inv]["socket.read"] = "ok" => Written(inv)
        BY <1>1 DEF IInv, ReadIsWritten
      <3> QED
        BY <1>1, <2>1, <3>1 DEF BegunIsGood, Written
    <2> QED
      BY <1>2, <2>1, <2>2, <2>3 DEF IInv, ReadMeansConnected
  <1>4. CASE MarshalEnds
    <2>1. srv = "marshalling" /\ srv' = "idle" /\ begun' = begun
      BY <1>4 DEF MarshalEnds
    <2>2. PICK seen \in SUBSET {n \in Names : results[inv][n] # begun[n]} :
              report' = [report EXCEPT ![inv] =
                  [n \in Names |-> IF n \in seen THEN results[inv][n] ELSE begun[n]]]
      BY <1>4 DEF MarshalEnds
    <2> DEFINE map == [n \in Names |-> IF n \in seen THEN results[inv][n] ELSE begun[n]]
    <2>3. map \in Maps
      BY <1>1 DEF IInv, Types, Maps
    <2>4. map["socket.read"] = "ok" => map["connect"] = "ok" /\ map["socket.write"] # "fail"
      <3> SUFFICES ASSUME map["socket.read"] = "ok"
                   PROVE  map["connect"] = "ok" /\ map["socket.write"] # "fail"
        OBVIOUS
      <3>1. begun["socket.read"] = "ok" /\ results[inv]["socket.read"] = "ok"
        BY <2>1, NamesDiffer DEF IInv, BegunIsGood
      <3>2. Written(inv)
        BY <1>1, <3>1 DEF IInv, ReadIsWritten
      <3>3. begun["connect"] = "ok" /\ begun["socket.write"] # "fail"
        BY <2>1, <3>1 DEF IInv, BegunIsGood
      <3> QED
        BY <3>2, <3>3, NamesDiffer DEF Written
    <2>5. report' = [report EXCEPT ![inv] = map]
      BY <2>2
    <2> HIDE DEF map
    <2>6. Types'
      BY <1>1, <2>1, <2>3, <2>5 DEF IInv, Types, SrvSteps
    <2>7. ReadMeansConnected'
      BY <1>1, <2>4, <2>5 DEF IInv, Types, ReadMeansConnected
    <2> QED
      BY <1>2, <2>1, <2>6, <2>7 DEF IInv, BegunIsGood
  <1> QED
    BY <1>3, <1>4

-----------------------------------------------------------------------------
(* A client makes a call. *)
ClntCalls(i) == ClntSocket(i) \/ ClntConnect(i) \/ ClntWrite(i) \/ ClntClose(i)

LEMMA ClntCallStep == ASSUME IInv, NEW i \in Invocations, ClntCalls(i) PROVE IInv'
  <1>1. /\ UNCHANGED <<denied, inv, srv, results, report, begun>> /\ srv # "dead"
        /\ \A j \in Invocations : j # i =>
              /\ clnt'[j] = clnt[j] /\ err'[j] = err[j]
              /\ conn'[j] = conn[j] /\ sent'[j] = sent[j]
    BY DEF ClntCalls, ClntSocket, ClntConnect, ClntWrite, ClntClose, ClntCall, kernel, IInv, Types
  <1>2. \/ /\ clnt[i] = "socket" /\ clnt'[i] \in {"connect", "ended"}
           /\ conn'[i] = conn[i] /\ sent'[i] = sent[i]
        \/ /\ clnt[i] = "connect" /\ clnt'[i] = "add connect"
           /\ conn'[i] \in {conn[i], "queued"} /\ sent'[i] = sent[i]
        \/ /\ clnt[i] = "write" /\ clnt'[i] = "add write"
           /\ conn'[i] \in {conn[i], "reset"}
           /\ sent'[i] => sent[i] \/ ~err'[i]
        \/ /\ clnt[i] = "close" /\ clnt'[i] = "add close"
           /\ conn'[i] = conn[i] /\ sent'[i] = sent[i]
    BY DEF ClntCalls, ClntSocket, ClntConnect, ClntWrite, ClntClose, ClntCall, kernel,
           AfterConnect, AfterWrite, IInv, Types
  <1>3. Types'
    <2>1. clnt' \in [Invocations -> ClntSteps]
      <3>1. clnt \in [Invocations -> ClntSteps]
        BY DEF IInv, Types
      <3>2. PICK c \in ClntSteps : clnt' = [clnt EXCEPT ![i] = c]
        BY DEF ClntCalls, ClntSocket, ClntConnect, ClntWrite, ClntClose, ClntCall,
               AfterConnect, AfterWrite, ClntSteps, ToWrite, ToConnect, Connected
      <3> QED
        BY <3>1, <3>2
    <2>2. err' \in [Invocations -> BOOLEAN]
      BY DEF ClntCalls, ClntSocket, ClntConnect, ClntWrite, ClntClose, ClntCall, IInv, Types
    <2>3. conn' \in [Invocations -> Ends]
      BY DEF ClntCalls, ClntSocket, ClntConnect, ClntWrite, ClntClose, ClntCall, kernel,
             IInv, Types, Ends
    <2>4. sent' \in [Invocations -> BOOLEAN]
      BY DEF ClntCalls, ClntSocket, ClntConnect, ClntWrite, ClntClose, ClntCall, kernel,
             IInv, Types
    <2> QED
      BY <1>1, <2>1, <2>2, <2>3, <2>4 DEF IInv, Types
  <1>4. ClientsStart'
    BY <1>1, <1>2 DEF IInv, ClientsStart, ToConnect
  <1>5. AllAccepted'
    BY <1>1, <1>2 DEF IInv, AllAccepted, Allowed
  <1>6. OnlyItsClient'
    <2> SUFFICES ASSUME Allowed("accept"), srv \in {"listen", "accept", "read"},
                        NEW j \in Invocations, j # inv
                 PROVE  conn'[j] \notin {"queued", "open"}
      BY <1>1 DEF IInv, OnlyItsClient, Allowed
    <2>1. conn[j] \notin {"queued", "open"}
      BY DEF IInv, OnlyItsClient
    <2>2. clnt[j] # "connect"
      <3>1. j < inv \/ j > inv
        BY InvocationsAreNats DEF IInv, Types
      <3> QED
        BY <3>1 DEF IInv, AllAccepted, ClientsStart
    <2> QED
      BY <1>1, <1>2, <2>1, <2>2
  <1>7. ClientsNote'
    BY <1>1, <1>2 DEF IInv, ClientsNote, Connected, ToWrite, ToConnect
  <1>8. ReadIsWritten'
    <2> SUFFICES ASSUME NEW j \in Invocations, sent'[j] \/ results[j]["socket.read"] = "ok"
                 PROVE  Written(j)'
      BY <1>1 DEF ReadIsWritten
    <2>1. CASE j # i
      BY <1>1, <2>1, WrittenStays DEF IInv, ReadIsWritten
    <2>2. CASE j = i /\ (sent[i] \/ results[i]["socket.read"] = "ok")
      <3>1. Written(i)
        BY <2>2 DEF IInv, ReadIsWritten
      <3> QED
        BY <1>1, <1>2, <2>2, <3>1 DEF Written
    <2>3. CASE j = i /\ ~sent[i] /\ results[i]["socket.read"] # "ok"
      <3>1. clnt[i] = "write" /\ clnt'[i] = "add write" /\ ~err'[i]
        BY <1>2, <2>3
      <3> QED
        BY <1>1, <2>3, <3>1 DEF IInv, ClientsNote, Connected, ToWrite, Written
    <2> QED
      BY <2>1, <2>2, <2>3
  <1>9. BegunIsGood' /\ ReadMeansConnected'
    BY <1>1 DEF IInv, BegunIsGood, ReadMeansConnected
  <1> QED
    BY <1>3, <1>4, <1>5, <1>6, <1>7, <1>8, <1>9 DEF IInv

(* A client notes a result. *)
ClntAdds(i) == AddConnect(i) \/ AddWrite(i) \/ AddWriteSize(i) \/ AddClose(i)

LEMMA ClntAddStep == ASSUME IInv, NEW i \in Invocations, ClntAdds(i) PROVE IInv'
  <1>1. /\ UNCHANGED <<denied, inv, err, report, begun, conn, sent>>
        /\ srv' = srv \/ srv' = "dead"
        /\ \A j \in Invocations : j # i => clnt'[j] = clnt[j] /\ results'[j] = results[j]
    BY DEF ClntAdds, AddConnect, AddWrite, AddWriteSize, AddClose, AddResult, kernel, IInv, Types
  <1>2. PICK name \in ClntNames :
            /\ results' = [results EXCEPT ![i][name] = Outcome(~err[i])]
            /\ \/ /\ name = "connect" /\ clnt[i] = "add connect"
                  /\ clnt'[i] = IF err[i] THEN "ended" ELSE "write"
               \/ /\ name = "socket.write" /\ clnt[i] = "add write"
                  /\ clnt'[i] = IF err[i] THEN "add size" ELSE "close"
               \/ /\ name = "socket.write" /\ clnt[i] = "add size" /\ clnt'[i] = "close"
               \/ /\ name = "socket_clnt.close" /\ clnt[i] = "add close" /\ clnt'[i] = "ended"
    BY DEF ClntAdds, AddConnect, AddWrite, AddWriteSize, AddClose, AddResult, ClosesAnyhow,
           ClntNames, IInv, Types
  <1>3. /\ results' \in [Invocations -> Maps]
        /\ results'[i][name] = Outcome(~err[i])
        /\ \A n \in Names : n # name => results'[i][n] = results[i][n]
    BY <1>2, NamesDiffer DEF IInv, Types, Maps, Outcomes, Outcome
  <1>4. Types'
    <2>1. clnt' \in [Invocations -> ClntSteps]
      BY DEF ClntAdds, AddConnect, AddWrite, AddWriteSize, AddClose, AddResult, ClosesAnyhow,
             IInv, Types, ClntSteps, ToWrite, ToConnect, Connected
    <2> QED
      BY <1>1, <1>3, <2>1 DEF IInv, Types, SrvSteps
  <1>5. ClientsStart' /\ AllAccepted' /\ OnlyItsClient'
    BY <1>1, <1>2
    DEF IInv, ClientsStart, AllAccepted, OnlyItsClient, ToConnect, Allowed, PastAccept
  <1>6. ClientsNote'
    BY <1>1, <1>2, <1>3, NamesDiffer
    DEF IInv, ClientsNote, Connected, ToWrite, ToConnect, Outcome
  <1>7. ReadIsWritten'
    <2> SUFFICES ASSUME NEW j \in Invocations, sent[j] \/ results'[j]["socket.read"] = "ok"
                 PROVE  Written(j)'
      BY <1>1 DEF ReadIsWritten
    <2>1. results'[j]["socket.read"] = results[j]["socket.read"]
      BY <1>1, <1>2, <1>3, NamesDiffer
    <2>2. Written(j)
      BY <2>1 DEF IInv, ReadIsWritten
    <2>3. CASE j # i
      BY <1>1, <2>2, <2>3, WrittenStays
    <2>4. CASE j = i
      BY <1>1, <1>2, <1>3, <2>2, <2>4, NamesDiffer DEF Written, Outcome
    <2> QED
      BY <2>3, <2>4
  <1>8. BegunIsGood'
    <2>1. inv \in Invocations /\ srv' = "marshalling" =>
              results'[inv]["socket.read"] = results[inv]["socket.read"] /\ srv = "marshalling"
      BY <1>1, <1>2, <1>3, NamesDiffer
    <2>2. srv = "marshalling" => inv \in Invocations
      BY DEF IInv, Types
    <2> QED
      BY <1>1, <2>1, <2>2 DEF IInv, BegunIsGood
  <1>9. ReadMeansConnected'
    BY <1>1 DEF IInv, ReadMeansConnected
  <1> QED
    BY <1>4, <1>5, <1>6, <1>7, <1>8, <1>9 DEF IInv

LEMMA LingerStep == ASSUME IInv, NEW i \in Invocations, LingerEnds(i) PROVE IInv'
  <1>1. /\ UNCHANGED <<denied, inv, srv, clnt, err, results, report, begun, sent>>
        /\ conn' \in [Invocations -> Ends]
        /\ \A j \in Invocations : conn'[j] = conn[j] \/ (conn[j] = "lingering" /\ conn'[j] = "gone")
    BY DEF LingerEnds, IInv, Types, Ends
  <1>2. Types'
    BY <1>1 DEF IInv, Types
  <1>3. ClientsStart' /\ AllAccepted' /\ OnlyItsClient'
    BY <1>1 DEF IInv, ClientsStart, AllAccepted, OnlyItsClient, Allowed
  <1>4. ClientsNote' /\ ReadIsWritten'
    BY <1>1 DEF IInv, ClientsNote, ReadIsWritten, Written
  <1>5. BegunIsGood'
    BY <1>1 DEF IInv, BegunIsGood
  <1>6. ReadMeansConnected'
    BY <1>1 DEF IInv, ReadMeansConnected
  <1> QED
    BY <1>2, <1>3, <1>4, <1>5, <1>6 DEF IInv

LEMMA InvStep == IInv /\ [Next]_vars => IInv'
  <1> SUFFICES ASSUME IInv, [Next]_vars PROVE IInv'
    OBVIOUS
  <1>1. CASE UNCHANGED vars
    BY <1>1
    DEF vars, kernel, IInv, Types, ClientsStart, AllAccepted, OnlyItsClient, ClientsNote,
        ReadIsWritten, Written, BegunIsGood, ReadMeansConnected, Allowed
  <1>2. CASE Invoke \/ InvokeWithNull
    BY <1>2, InvokeStep
  <1>3. CASE Server
    BY <1>3, SrvCallStep, MarshalStep DEF Server, SrvCalls
  <1>4. ASSUME NEW i \in Invocations, Client(i) \/ LingerEnds(i) PROVE IInv'
    BY <1>4, ClntCallStep, ClntAddStep, LingerStep DEF Client, ClntCalls, ClntAdds
  <1> QED
    BY <1>1, <1>2, <1>3, <1>4 DEF Next

-----------------------------------------------------------------------------
(* A report in which the message arrived says that the client connected,   *)
(* and does not say that it failed to write (lines 76, 79, 118, 182).      *)
THEOREM ReadIsOfItsClient == Spec => []ReadMeansConnected
  <1>1. IInv => ReadMeansConnected
    BY DEF IInv
  <1> QED
    BY <1>1, InvInit, InvStep, PTL DEF Spec

-----------------------------------------------------------------------------
(* Who is to blame *)

(* A map of the results of invocation i in which every failure has a cause *)
(* in the map: a call that is denied, a port in use, for the client's      *)
(* failures also the accept that was denied, and for the read the write.   *)
AcceptBlamed(m) == "accept" \in denied /\ m["accept"] = "fail"

Blamed(m, i) ==
    /\ \A n \in Names \ {"connect", "socket.write", "socket.read"} :
          m[n] = "fail" => CallOf(n) \in denied \/ (n = "bind" /\ i \in blocked)
    /\ m["connect"] = "fail" => "connect" \in denied \/ AcceptBlamed(m)
    /\ m["socket.write"] = "fail" => "write" \in denied \/ AcceptBlamed(m)
    /\ m["socket.read"] = "fail" =>
          "read" \in denied \/ ("write" \in denied /\ m["socket.write"] = "fail")

EndTypes ==
    /\ listener \in [Invocations -> {"none", "bound", "listening", "closed"}]
    /\ peer \in [Invocations -> {"none", "open", "closed"}]

(* An accept that is denied is noted before a client can be refused.       *)
AcceptNoted ==
    /\ srv = "accept" => listener[inv] = "listening"
    /\ ~Allowed("accept") => \A i \in Invocations :
          clnt[i] # "off" /\ ~(i = inv /\ srv = "accept") =>
              results[i]["accept"] = "fail"

(* The client's end of a connection, and the server's while it waits.      *)
Waits(i) == i = inv /\ srv \in {"accept", "read"}
HasWritten(i) ==
    results[i]["socket.write"] = "ok" \/ (clnt[i] = "add write" /\ ~err[i])

EndsMatch ==
    \A i \in Invocations :
        /\ clnt[i] \in ToConnect \/ (clnt[i] = "add connect" /\ err[i]) => peer[i] = "none"
        /\ clnt[i] \in Connected \/ (clnt[i] = "add connect" /\ ~err[i]) => peer[i] # "none"
        /\ peer[i] = "closed" \/ clnt[i] \in {"close", "add close"} =>
              results[i]["socket.write"] \in {"ok", "fail"}
        /\ Waits(i) /\ peer[i] # "none" => conn[i] \in {"queued", "open"}
        /\ Waits(i) /\ HasWritten(i) => sent[i]

(* What a client's last call failed of. *)
CallsFailForCause ==
    \A i \in Invocations :
        /\ clnt[i] = "add connect" /\ err[i] => "connect" \in denied \/ AcceptBlamed(results[i])
        /\ clnt[i] \in {"add write", "add size"} /\ err[i] =>
              "write" \in denied \/ AcceptBlamed(results[i])
        /\ clnt[i] = "add size" => err[i]
        /\ clnt[i] = "add close" /\ err[i] => "close" \in denied
        /\ clnt[i] \in {"add connect", "write"} /\ conn[i] = "reset" => AcceptBlamed(results[i])

ResultsBlame == \A i \in Invocations : Blamed(results[i], i)

BegunStays ==
    srv = "marshalling" =>
        /\ \A n \in SrvNames : begun[n] = results[inv][n]
        /\ begun["socket.write"] = "fail" => results[inv]["socket.write"] = "fail"
        /\ Blamed(begun, inv)

ReportsBlame == \A i \in Invocations : report[i] # NoReport => Blamed(report[i], i)

CInv ==
    /\ EndTypes /\ AcceptNoted /\ EndsMatch /\ CallsFailForCause
    /\ ResultsBlame /\ BegunStays /\ ReportsBlame

LEMMA BlamedNames ==
    /\ {"connect", "socket.write", "socket_clnt.close"} = ClntNames
    /\ "accept" \in SrvNames /\ "bind" \in SrvNames /\ "accept" \notin ClntNames
    /\ "bind" \notin ClntNames /\ SrvNames \cap ClntNames = {}
    /\ \A n \in Names : n \in SrvNames \/ n \in ClntNames
  BY DEF Names, SrvNames, ClntNames

LEMMA CInit == Init => CInv
  <1> SUFFICES ASSUME Init PROVE CInv
    OBVIOUS
  <1>1. \A i \in Invocations, n \in Names : results[i][n] = "none"
    BY DEF Init, NoResults
  <1>2. ResultsBlame
    BY <1>1, NamesDiffer, BlamedNames DEF ResultsBlame, Blamed
  <1>3. EndsMatch
    BY <1>1, NamesDiffer DEF Init, EndsMatch, Connected, HasWritten, Waits
  <1> QED
    BY <1>1, <1>2, <1>3
    DEF Init, CInv, EndTypes, AcceptNoted, CallsFailForCause, BegunStays, ReportsBlame, NoReport

(* A call of the server fails because it is denied or the port is in use,  *)
(* and the read also because the client could not write.                   *)
LEMMA SrvCallBlame ==
    ASSUME IInv, CInv, SrvCalls
    PROVE  \E name \in SrvNames, o \in {"ok", "fail"} :
              /\ results' = [results EXCEPT ![inv][name] = o]
              /\ name = "accept" <=> srv = "accept"
              /\ name = "accept" /\ ~Allowed("accept") => o = "fail"
              /\ name = "socket.read" <=> srv = "read"
              /\ o = "fail" /\ name # "socket.read" =>
                    CallOf(name) \in denied \/ (name = "bind" /\ inv \in blocked')
              /\ o = "fail" /\ name = "socket.read" =>
                    \/ "read" \in denied
                    \/ "write" \in denied /\ results[inv]["socket.write"] = "fail"
  <1> USE DEF SrvCall, Outcome, SrvNames, CallOf, Allowed
  <1>1. CASE SrvSocket
    BY <1>1 DEF SrvSocket
  <1>2. CASE SrvBind
    BY <1>2 DEF SrvBind
  <1>3. CASE SrvListen
    BY <1>3 DEF SrvListen
  <1>4. CASE SrvAccept
    BY <1>4 DEF SrvAccept
  <1>5. CASE SrvRead
    <2>1. PICK i \in Accepted :
              /\ ~Allowed("read") \/ sent[i] \/ peer[i] = "closed"
              /\ SrvCall("socket.read", Allowed("read") /\ sent[i], "close nfd", "close nfd")
      BY <1>5 DEF SrvRead
    <2>2. srv = "read" /\ "accept" \notin denied /\ i \in Invocations /\ i = inv
      BY <1>5 DEF SrvRead, IInv, OnlyItsClient, Accepted
    <2>3. CASE "read" \in denied \/ sent[i]
      BY <2>1, <2>2, <2>3
    <2>4. CASE "read" \notin denied /\ ~sent[i]
      <3>1. results[inv]["socket.write"] = "fail"
        BY <2>1, <2>2, <2>4 DEF CInv, EndsMatch, Waits, HasWritten
      <3>2. "write" \in denied
        BY <2>2, <3>1 DEF CInv, ResultsBlame, Blamed, AcceptBlamed
      <3> QED
        BY <2>1, <2>2, <3>1, <3>2
    <2> QED
      BY <2>3, <2>4
  <1>6. CASE SrvCloseNfd
    BY <1>6 DEF SrvCloseNfd
  <1>7. CASE SrvCloseFd
    BY <1>7 DEF SrvCloseFd
  <1> QED
    BY <1>1, <1>2, <1>3, <1>4, <1>5, <1>6, <1>7 DEF SrvCalls


(* What it leaves of the ends of the connections. *)
LEMMA SrvCallEnds ==
    ASSUME IInv, CInv, SrvCalls
    PROVE  /\ peer' = peer /\ blocked \subseteq blocked'
           /\ listener' \in [Invocations -> {"none", "bound", "listening", "closed"}]
           /\ srv' = "accept" => listener'[inv] = "listening"
           /\ srv' \in {"accept", "read"} =>
                 /\ sent' = sent
                 /\ \A i \in Invocations :
                       conn[i] \in {"queued", "open"} => conn'[i] \in {"queued", "open"}
           /\ \A i \in Invocations :
                 clnt[i] \in {"add connect", "write"} /\ conn'[i] = "reset" =>
                     conn[i] = "reset" \/ (srv = "close fd" /\ ~Allowed("accept"))
  <1> USE DEF IInv, CInv, EndTypes, SrvCall, Types
  <1>1. CASE SrvSocket
    BY <1>1 DEF SrvSocket, kernel
  <1>2. CASE SrvBind
    BY <1>2 DEF SrvBind
  <1>3. CASE SrvListen
    BY <1>3 DEF SrvListen
  <1>4. CASE SrvAccept
    BY <1>4 DEF SrvAccept
  <1>5. CASE SrvRead
    BY <1>5 DEF SrvRead
  <1>6. CASE SrvCloseNfd
    <2>1. \A i \in Invocations : sent[i] => clnt[i] \notin {"add connect", "write"}
      BY DEF ReadIsWritten, Written
    <2> QED
      BY <1>6, <2>1 DEF SrvCloseNfd, ServerEndAfterClose, Accepted
  <1>7. CASE SrvCloseFd
    <2>1. ASSUME NEW i \in Invocations, clnt[i] \in {"add connect", "write"}, conn[i] = "queued"
          PROVE  ~Allowed("accept")
      <3>1. ~(i > inv)
        BY <2>1 DEF ClientsStart
      <3>2. i \in Nat /\ inv \in Nat
        BY InvocationsAreNats
      <3>3. i < inv \/ i = inv
        BY <3>1, <3>2
      <3> QED
        BY <1>7, <2>1, <3>3 DEF AllAccepted, SrvCloseFd, PastAccept
    <2> QED
      BY <1>7, <2>1 DEF SrvCloseFd
  <1> QED
    BY <1>1, <1>2, <1>3, <1>4, <1>5, <1>6, <1>7 DEF SrvCalls

LEMMA SrvCallC == ASSUME IInv, CInv, SrvCalls PROVE CInv'
  <1>1. /\ inv' = inv /\ inv \in Invocations
        /\ UNCHANGED <<err, report, begun, denied, peer>> /\ blocked \subseteq blocked'
    BY SrvCallResult, SrvCallEnds
  <1>2. PICK name \in SrvNames, o \in {"ok", "fail"} :
            /\ results' = [results EXCEPT ![inv][name] = o]
            /\ name = "accept" <=> srv = "accept"
            /\ name = "accept" /\ ~Allowed("accept") => o = "fail"
            /\ name = "socket.read" <=> srv = "read"
            /\ o = "fail" /\ name # "socket.read" =>
                  CallOf(name) \in denied \/ (name = "bind" /\ inv \in blocked')
            /\ o = "fail" /\ name = "socket.read" =>
                  \/ "read" \in denied
                  \/ "write" \in denied /\ results[inv]["socket.write"] = "fail"
    BY SrvCallBlame
  <1>3. /\ \A i \in Invocations : i # inv => results'[i] = results[i]
        /\ results'[inv][name] = o
        /\ \A n \in Names : n # name => results'[inv][n] = results[inv][n]
        /\ \A i \in Invocations : results'[i]["socket.write"] = results[i]["socket.write"]
        /\ \A i \in Invocations : results'[i]["connect"] = results[i]["connect"]
    BY <1>1, <1>2, NamesDiffer DEF IInv, Types, Maps
  <1>4. \A i \in Invocations :
            "accept" \in denied /\ results[i]["accept"] = "fail" => results'[i]["accept"] = "fail"
    BY <1>1, <1>2, <1>3, NamesDiffer, BlamedNames DEF Allowed
  <1>5. /\ \A i \in Invocations : i # inv => clnt'[i] = clnt[i]
        /\ \A i \in Invocations : clnt'[i] = clnt[i]
              \/ (clnt[i] = "off" /\ clnt'[i] = "socket" /\ i = inv /\ srv = "listen"
                    /\ srv' = "accept")
    <2>1. clnt \in [Invocations -> ClntSteps] /\ (srv = "listen" => clnt[inv] = "off")
      BY <1>1 DEF IInv, Types, ClientsStart
    <2> QED
      BY <1>1, <2>1, SrvCallResult
  <1>6. EndTypes'
    BY <1>1, SrvCallEnds DEF CInv, EndTypes
  <1>7. AcceptNoted'
    <2> SUFFICES ASSUME ~Allowed("accept"), NEW i \in Invocations, clnt'[i] # "off",
                        ~(i = inv /\ srv' = "accept")
                 PROVE  results'[i]["accept"] = "fail"
      BY <1>1, SrvCallEnds DEF AcceptNoted, Allowed
    <2>1. CASE i = inv /\ srv = "accept"
      BY <1>2, <1>3, <2>1
    <2>2. CASE ~(i = inv /\ srv = "accept")
      <3>1. clnt[i] # "off"
        BY <1>5
      <3>2. results[i]["accept"] = "fail"
        BY <2>2, <3>1 DEF CInv, AcceptNoted
      <3> QED
        BY <1>4, <3>2 DEF Allowed
    <2> QED
      BY <2>1, <2>2
  <1>8. EndsMatch'
    <2> SUFFICES ASSUME NEW i \in Invocations
                 PROVE  /\ clnt'[i] \in ToConnect \/ (clnt'[i] = "add connect" /\ err[i]) =>
                              peer[i] = "none"
                        /\ clnt'[i] \in Connected \/ (clnt'[i] = "add connect" /\ ~err[i]) =>
                              peer[i] # "none"
                        /\ peer[i] = "closed" \/ clnt'[i] \in {"close", "add close"} =>
                              results[i]["socket.write"] \in {"ok", "fail"}
                        /\ i = inv /\ srv' \in {"accept", "read"} /\ peer[i] # "none" =>
                              conn'[i] \in {"queued", "open"}
                        /\ /\ i = inv /\ srv' \in {"accept", "read"}
                           /\ \/ results[i]["socket.write"] = "ok"
                              \/ clnt'[i] = "add write" /\ ~err[i]
                           => sent'[i]
      BY <1>1, <1>3 DEF EndsMatch, Waits, HasWritten
    <2>1. clnt[i] = "off" =>
             results[i]["socket.write"] = "none" /\ peer[i] = "none"
      BY DEF IInv, ClientsNote, ToWrite, ToConnect, CInv, EndsMatch
    <2>2. i = inv /\ srv' \in {"accept", "read"} => srv = "accept" \/ (srv = "listen" /\ clnt[i] = "off")
      BY SrvCallResult DEF IInv, ClientsStart
    <2>3. /\ clnt[i] \in ToConnect \/ (clnt[i] = "add connect" /\ err[i]) => peer[i] = "none"
          /\ clnt[i] \in Connected \/ (clnt[i] = "add connect" /\ ~err[i]) => peer[i] # "none"
          /\ peer[i] = "closed" \/ clnt[i] \in {"close", "add close"} =>
                results[i]["socket.write"] \in {"ok", "fail"}
          /\ i = inv /\ srv = "accept" /\ peer[i] # "none" => conn[i] \in {"queued", "open"}
          /\ /\ i = inv /\ srv = "accept"
             /\ \/ results[i]["socket.write"] = "ok"
                \/ clnt[i] = "add write" /\ ~err[i]
             => sent[i]
      BY DEF CInv, EndsMatch, Waits, HasWritten
    <2>4. i = inv /\ srv' \in {"accept", "read"} =>
             /\ sent'[i] = sent[i]
             /\ conn[i] \in {"queued", "open"} => conn'[i] \in {"queued", "open"}
      BY SrvCallEnds
    <2>5. CASE clnt'[i] = clnt[i]
      <3>1. CASE clnt[i] = "off"
        BY <2>1, <2>3, <2>4, <2>5, <3>1 DEF Connected, ToConnect
      <3>2. CASE clnt[i] # "off"
        BY <2>2, <2>3, <2>4, <2>5, <3>2
      <3> QED
        BY <3>1, <3>2
    <2>6. CASE clnt[i] = "off" /\ clnt'[i] = "socket"
      BY <2>1, <2>6 DEF Connected, ToConnect
    <2> QED
      BY <1>5, <2>5, <2>6
  <1>9. CallsFailForCause'
    <2> SUFFICES ASSUME NEW i \in Invocations
                 PROVE  (/\ clnt[i] = "add connect" /\ err[i] =>
                              "connect" \in denied \/ AcceptBlamed(results[i])
                         /\ clnt[i] \in {"add write", "add size"} /\ err[i] =>
                              "write" \in denied \/ AcceptBlamed(results[i])
                         /\ clnt[i] = "add size" => err[i]
                         /\ clnt[i] = "add close" /\ err[i] => "close" \in denied
                         /\ clnt[i] \in {"add connect", "write"} /\ conn[i] = "reset" =>
                              AcceptBlamed(results[i]))'
      BY DEF CallsFailForCause
    <2>1. clnt[i] \in {"add connect", "write"} /\ conn'[i] = "reset" =>
              "accept" \in denied /\ results[i]["accept"] = "fail"
      BY SrvCallEnds DEF CInv, CallsFailForCause, AcceptNoted, AcceptBlamed, Allowed
    <2> QED
      BY <1>1, <1>4, <1>5, <2>1 DEF CInv, CallsFailForCause, AcceptBlamed
  <1>10. ResultsBlame'
    <2> SUFFICES ASSUME NEW i \in Invocations PROVE Blamed(results[i], i)'
      BY DEF ResultsBlame
    <2>1. Blamed(results[i], i)
      BY DEF CInv, ResultsBlame
    <2>2. CASE i # inv
      BY <1>1, <1>3, <2>1, <2>2 DEF Blamed, AcceptBlamed
    <2>3. CASE i = inv
      <3>1. \A n \in Names \ {"connect", "socket.write", "socket.read"} :
               results'[i][n] = "fail" => CallOf(n) \in denied \/ (n = "bind" /\ i \in blocked')
        BY <1>1, <1>2, <1>3, <2>1, <2>3, NamesDiffer DEF Blamed
      <3>2. results'[i]["socket.read"] = "fail" =>
               "read" \in denied \/ ("write" \in denied /\ results'[i]["socket.write"] = "fail")
        BY <1>2, <1>3, <2>1, <2>3, NamesDiffer DEF Blamed
      <3> QED
        BY <1>1, <1>3, <1>4, <2>1, <3>1, <3>2 DEF Blamed, AcceptBlamed
    <2> QED
      BY <2>2, <2>3
  <1>11. BegunStays'
    BY SrvCallResult DEF BegunStays
  <1>12. ReportsBlame'
    BY <1>1 DEF CInv, ReportsBlame, Blamed, AcceptBlamed
  <1> QED
    BY <1>6, <1>7, <1>8, <1>9, <1>10, <1>11, <1>12 DEF CInv


(* A step that leaves sockets and results alone, and what is not yet in a  *)
(* report. *)
LEMMA InvokeC == ASSUME IInv, CInv, Invoke \/ InvokeWithNull PROVE CInv'
  <1>1. /\ srv = "idle" /\ srv' \in {"socket", "dead"} /\ inv' \in {inv, inv + 1}
        /\ UNCHANGED <<denied, clnt, err, results, report, listener, peer, conn, sent, blocked>>
    BY DEF Invoke, InvokeWithNull, kernel
  <1>2. EndTypes' /\ AcceptNoted'
    BY <1>1 DEF CInv, EndTypes, AcceptNoted, Allowed
  <1>3. EndsMatch'
    <2>1. \A j : ~Waits(j)'
      BY <1>1 DEF Waits
    <2>2. \A j : HasWritten(j)' = HasWritten(j)
      BY <1>1 DEF HasWritten
    <2> QED
      BY <1>1, <2>1, <2>2 DEF CInv, EndsMatch
  <1>4. CallsFailForCause'
    BY <1>1 DEF CInv, CallsFailForCause, AcceptBlamed
  <1>5. ResultsBlame' /\ BegunStays' /\ ReportsBlame'
    BY <1>1 DEF CInv, ResultsBlame, BegunStays, ReportsBlame, Blamed, AcceptBlamed
  <1> QED
    BY <1>2, <1>3, <1>4, <1>5 DEF CInv

LEMMA MarshalC == ASSUME IInv, CInv, MarshalBegins \/ MarshalEnds PROVE CInv'
  <1>1. /\ UNCHANGED <<denied, inv, clnt, err, results, listener, peer, conn, sent, blocked>>
        /\ inv \in Invocations
        /\ \/ srv = "marshal" /\ srv' = "marshalling" /\ MarshalBegins
           \/ srv = "marshalling" /\ srv' = "idle" /\ MarshalEnds
    BY DEF MarshalBegins, MarshalEnds, kernel, IInv, Types
  <1>2. EndTypes' /\ AcceptNoted' /\ EndsMatch' /\ CallsFailForCause' /\ ResultsBlame'
    <2>1. EndTypes' /\ AcceptNoted'
      BY <1>1 DEF CInv, EndTypes, AcceptNoted, Allowed
    <2>2. EndsMatch'
      <3>1. \A j : ~Waits(j)'
        BY <1>1 DEF Waits
      <3>2. \A j : HasWritten(j)' = HasWritten(j)
        BY <1>1 DEF HasWritten
      <3> QED
        BY <1>1, <3>1, <3>2 DEF CInv, EndsMatch
    <2>3. CallsFailForCause'
      BY <1>1 DEF CInv, CallsFailForCause, AcceptBlamed
    <2>4. ResultsBlame'
      BY <1>1 DEF CInv, ResultsBlame, Blamed, AcceptBlamed
    <2> QED
      BY <2>1, <2>2, <2>3, <2>4
  <1>3. CASE MarshalBegins
    <2>1. begun' = results[inv] /\ report' = report
      BY <1>3 DEF MarshalBegins
    <2>2. BegunStays'
      BY <1>1, <2>1 DEF CInv, BegunStays, ResultsBlame, Blamed, AcceptBlamed
    <2> QED
      BY <1>1, <1>2, <2>1, <2>2 DEF CInv, ReportsBlame, Blamed, AcceptBlamed
  <1>4. CASE MarshalEnds
    <2>1. srv = "marshalling" /\ srv' = "idle"
      BY <1>4 DEF MarshalEnds
    <2>2. PICK seen \in SUBSET {n \in Names : results[inv][n] # begun[n]} :
              report' = [report EXCEPT ![inv] =
                  [n \in Names |-> IF n \in seen THEN results[inv][n] ELSE begun[n]]]
      BY <1>4 DEF MarshalEnds
    <2> DEFINE map == [n \in Names |-> IF n \in seen THEN results[inv][n] ELSE begun[n]]
    <2>3. /\ \A n \in Names : map[n] \in {results[inv][n], begun[n]}
          /\ \A n \in SrvNames : map[n] = begun[n] /\ begun[n] = results[inv][n]
          /\ begun["socket.write"] = "fail" => map["socket.write"] = "fail"
      BY <2>1, NamesDiffer DEF CInv, BegunStays
    <2>4. report' = [report EXCEPT ![inv] = map]
      BY <2>2
    <2> HIDE DEF map
    <2>5. Blamed(begun, inv) /\ Blamed(results[inv], inv)
      BY <1>1, <2>1 DEF CInv, BegunStays, ResultsBlame
    <2>6. Blamed(map, inv)
      BY <2>3, <2>5, NamesDiffer, BlamedNames DEF Blamed, AcceptBlamed
    <2>7. ReportsBlame'
      BY <1>1, <2>4, <2>6 DEF IInv, Types, CInv, ReportsBlame, Blamed, AcceptBlamed
    <2> QED
      BY <1>2, <2>1, <2>7 DEF CInv, BegunStays
  <1> QED
    BY <1>3, <1>4

(* A call of a client fails because it is denied, or because the server    *)
(* was denied to accept and has closed.                                    *)
LEMMA ConnectRefused ==
    ASSUME IInv, CInv, NEW i \in Invocations, clnt[i] = "connect", srv # "dead", ~Listening
    PROVE  AcceptBlamed(results[i])
  <1>1. ~(i = inv /\ srv = "accept")
    BY DEF CInv, AcceptNoted, Listening
  <1>2. CASE ~Allowed("accept")
    BY <1>1, <1>2 DEF CInv, AcceptNoted, AcceptBlamed, Allowed
  <1>3. CASE Allowed("accept")
    <2>1. ~(i > inv) /\ i \in Nat /\ inv \in Nat
      BY InvocationsAreNats DEF IInv, ClientsStart, Types
    <2>2. ~(i < inv) /\ ~(i = inv /\ srv \in PastAccept)
      BY <1>3 DEF IInv, AllAccepted
    <2>3. i = inv
      BY <2>1, <2>2
    <2>4. srv \notin {"socket", "bind", "listen"}
      BY <2>3 DEF IInv, ClientsStart
    <2>5. srv \in SrvSteps
      BY DEF IInv, Types
    <2> QED
      BY <1>1, <2>2, <2>3, <2>4, <2>5 DEF SrvSteps, PastAccept
  <1> QED
    BY <1>2, <1>3

LEMMA ClntCallC == ASSUME IInv, CInv, NEW i \in Invocations, ClntCalls(i) PROVE CInv'
  <1>1. /\ UNCHANGED <<denied, inv, srv, results, report, begun, blocked, listener>>
        /\ srv # "dead"
        /\ \A j \in Invocations : j # i =>
              /\ clnt'[j] = clnt[j] /\ err'[j] = err[j] /\ peer'[j] = peer[j]
              /\ conn'[j] = conn[j] /\ sent'[j] = sent[j]
    <2> USE DEF ClntCall, kernel, IInv, Types, CInv, EndTypes
    <2>1. CASE ClntSocket(i)
      BY <2>1 DEF ClntSocket
    <2>2. CASE ClntConnect(i)
      BY <2>2 DEF ClntConnect
    <2>3. CASE ClntWrite(i)
      BY <2>3 DEF ClntWrite
    <2>4. CASE ClntClose(i)
      BY <2>4 DEF ClntClose
    <2> QED
      BY <2>1, <2>2, <2>3, <2>4 DEF ClntCalls
  <1>2. \/ /\ clnt[i] = "socket" /\ clnt'[i] \in {"connect", "ended"}
           /\ peer'[i] = peer[i] /\ conn'[i] = conn[i] /\ sent'[i] = sent[i]
        \/ /\ clnt[i] = "connect" /\ clnt'[i] = "add connect" /\ sent'[i] = sent[i]
           /\ \/ ~err'[i] /\ peer'[i] = "open" /\ conn'[i] = "queued"
              \/ /\ err'[i] /\ peer'[i] = peer[i] /\ conn'[i] = conn[i]
                 /\ "connect" \in denied \/ AcceptBlamed(results[i])
        \/ /\ clnt[i] = "write" /\ clnt'[i] = "add write" /\ peer'[i] = peer[i]
           /\ conn[i] \in {"queued", "open"} =>
                 conn'[i] = conn[i] /\ (~err'[i] => sent'[i])
           /\ sent[i] => sent'[i]
           /\ err'[i] => "write" \in denied \/ conn[i] = "reset"
        \/ /\ clnt[i] = "close" /\ clnt'[i] = "add close"
           /\ conn'[i] = conn[i] /\ sent'[i] = sent[i]
           /\ peer'[i] \in {peer[i], "closed"}
           /\ err'[i] => "close" \in denied
    <2> USE DEF ClntCall, kernel, AfterConnect, AfterWrite, IInv, Types, CInv, EndTypes
    <2>1. CASE ClntSocket(i)
      BY <2>1 DEF ClntSocket
    <2>2. CASE ClntConnect(i)
      BY <2>2, ConnectRefused DEF ClntConnect, Allowed
    <2>3. CASE ClntWrite(i)
      BY <2>3 DEF ClntWrite, Allowed
    <2>4. CASE ClntClose(i)
      BY <2>4 DEF ClntClose, Allowed
    <2> QED
      BY <2>1, <2>2, <2>3, <2>4 DEF ClntCalls
  <1>3. EndTypes'
    <2>1. peer' \in [Invocations -> {"none", "open", "closed"}]
      BY DEF ClntCalls, ClntSocket, ClntConnect, ClntWrite, ClntClose, kernel, CInv, EndTypes
    <2> QED
      BY <1>1, <2>1 DEF CInv, EndTypes
  <1>4. AcceptNoted'
    BY <1>1, <1>2 DEF CInv, AcceptNoted, Allowed
  <1>5. EndsMatch'
    <2> SUFFICES ASSUME NEW j \in Invocations
                 PROVE  (/\ clnt[j] \in ToConnect \/ (clnt[j] = "add connect" /\ err[j]) =>
                              peer[j] = "none"
                         /\ clnt[j] \in Connected \/ (clnt[j] = "add connect" /\ ~err[j]) =>
                              peer[j] # "none"
                         /\ peer[j] = "closed" \/ clnt[j] \in {"close", "add close"} =>
                              results[j]["socket.write"] \in {"ok", "fail"}
                         /\ Waits(j) /\ peer[j] # "none" => conn[j] \in {"queued", "open"}
                         /\ Waits(j) /\ HasWritten(j) => sent[j])'
      BY DEF EndsMatch
    <2>1. clnt[j] \in ToWrite => results[j]["socket.write"] = "none"
      BY DEF IInv, ClientsNote
    <2>2. CASE j # i
      BY <1>1, <2>2 DEF CInv, EndsMatch, Waits, HasWritten
    <2>3. CASE j = i
      BY <1>1, <1>2, <2>1, <2>3
      DEF CInv, EndsMatch, Waits, HasWritten, Connected, ToConnect, ToWrite
    <2> QED
      BY <2>2, <2>3
  <1>6. CallsFailForCause'
    <2> SUFFICES ASSUME NEW j \in Invocations
                 PROVE  (/\ clnt[j] = "add connect" /\ err[j] =>
                              "connect" \in denied \/ AcceptBlamed(results[j])
                         /\ clnt[j] \in {"add write", "add size"} /\ err[j] =>
                              "write" \in denied \/ AcceptBlamed(results[j])
                         /\ clnt[j] = "add size" => err[j]
                         /\ clnt[j] = "add close" /\ err[j] => "close" \in denied
                         /\ clnt[j] \in {"add connect", "write"} /\ conn[j] = "reset" =>
                              AcceptBlamed(results[j]))'
      BY DEF CallsFailForCause
    <2>1. clnt[j] = "connect" => conn[j] = "none"
      BY DEF IInv, ClientsStart, ToConnect
    <2> QED
      BY <1>1, <1>2, <2>1 DEF CInv, CallsFailForCause, AcceptBlamed
  <1>7. ResultsBlame' /\ BegunStays' /\ ReportsBlame'
    BY <1>1 DEF CInv, ResultsBlame, BegunStays, ReportsBlame, Blamed, AcceptBlamed
  <1> QED
    BY <1>3, <1>4, <1>5, <1>6, <1>7 DEF CInv

LEMMA ClntAddC == ASSUME IInv, CInv, NEW i \in Invocations, ClntAdds(i) PROVE CInv'
  <1>1. /\ UNCHANGED <<denied, inv, err, report, begun, listener, peer, conn, sent, blocked>>
        /\ srv' = srv \/ (srv = "marshalling" /\ srv' = "dead")
        /\ \A j \in Invocations : j # i => clnt'[j] = clnt[j] /\ results'[j] = results[j]
    BY DEF ClntAdds, AddConnect, AddWrite, AddWriteSize, AddClose, AddResult, kernel, IInv, Types
  <1>2. PICK name \in ClntNames :
            /\ results' = [results EXCEPT ![i][name] = Outcome(~err[i])]
            /\ \/ /\ name = "connect" /\ clnt[i] = "add connect"
                  /\ clnt'[i] = IF err[i] THEN "ended" ELSE "write"
               \/ /\ name = "socket.write" /\ clnt[i] = "add write"
                  /\ clnt'[i] = IF err[i] THEN "add size" ELSE "close"
               \/ /\ name = "socket.write" /\ clnt[i] = "add size" /\ clnt'[i] = "close"
               \/ /\ name = "socket_clnt.close" /\ clnt[i] = "add close" /\ clnt'[i] = "ended"
    BY DEF ClntAdds, AddConnect, AddWrite, AddWriteSize, AddClose, AddResult, ClosesAnyhow,
           ClntNames, IInv, Types
  <1>3. /\ results'[i][name] = Outcome(~err[i])
        /\ \A n \in Names : n # name => results'[i][n] = results[i][n]
        /\ \A n \in SrvNames : results'[i][n] = results[i][n]
        /\ results'[i]["accept"] = results[i]["accept"]
    <2>1. results \in [Invocations -> [Names -> Outcomes]] /\ name \in Names
      BY NamesDiffer DEF IInv, Types, Maps
    <2>2. /\ results'[i][name] = Outcome(~err[i])
          /\ \A n \in Names : n # name => results'[i][n] = results[i][n]
      BY <1>2, <2>1
    <2>3. \A n \in SrvNames : n \in Names /\ n # name
      BY NamesDiffer, BlamedNames
    <2> QED
      BY <2>2, <2>3, BlamedNames
  <1>4. EndTypes'
    BY <1>1 DEF CInv, EndTypes
  <1>10. AcceptNoted'
    <2>1. srv' = "accept" => srv = "accept"
      BY <1>1
    <2>2. \A j \in Invocations : results'[j]["accept"] = results[j]["accept"]
      BY <1>1, <1>3
    <2>3. \A j \in Invocations : clnt'[j] # "off" => clnt[j] # "off"
      BY <1>1, <1>2
    <2>4. srv = "accept" => srv' = "accept"
      BY <1>1
    <2> QED
      BY <1>1, <2>1, <2>2, <2>3, <2>4 DEF CInv, AcceptNoted, Allowed
  <1>5. EndsMatch'
    <2> SUFFICES ASSUME NEW j \in Invocations
                 PROVE  (/\ clnt[j] \in ToConnect \/ (clnt[j] = "add connect" /\ err[j]) =>
                              peer[j] = "none"
                         /\ clnt[j] \in Connected \/ (clnt[j] = "add connect" /\ ~err[j]) =>
                              peer[j] # "none"
                         /\ peer[j] = "closed" \/ clnt[j] \in {"close", "add close"} =>
                              results[j]["socket.write"] \in {"ok", "fail"}
                         /\ Waits(j) /\ peer[j] # "none" => conn[j] \in {"queued", "open"}
                         /\ Waits(j) /\ HasWritten(j) => sent[j])'
      BY DEF EndsMatch
    <2>1. CASE j # i
      BY <1>1, <2>1 DEF CInv, EndsMatch, Waits, HasWritten
    <2>2. CASE j = i
      <3>1. CASE clnt[i] = "add connect"
        <4>1. results'[i]["socket.write"] = results[i]["socket.write"] /\ results[i]["socket.write"] = "none"
          BY <1>2, <1>3, <3>1, NamesDiffer DEF IInv, ClientsNote, ToWrite
        <4> QED
          BY <1>1, <1>2, <2>2, <3>1, <4>1
          DEF CInv, EndsMatch, Waits, HasWritten, Connected, ToConnect
      <3>2. CASE clnt[i] \in {"add write", "add size"}
        <4>1. results'[i]["socket.write"] = IF err[i] THEN "fail" ELSE "ok"
          BY <1>2, <1>3, <3>2 DEF Outcome
        <4>2. clnt[i] = "add size" => err[i]
          BY DEF CInv, CallsFailForCause
        <4>3. clnt'[i] \in {"add size", "close"} /\ peer[i] # "none"
          BY <1>2, <3>2 DEF CInv, EndsMatch, Connected
        <4>4. srv' \in {"accept", "read"} => srv' = srv
          BY <1>1
        <4>5. results'[i]["socket.write"] = "ok" => HasWritten(i)
          BY <3>2, <4>1, <4>2 DEF HasWritten
        <4>6. i = inv /\ srv \in {"accept", "read"} =>
                 conn[i] \in {"queued", "open"} /\ (HasWritten(i) => sent[i])
          BY <4>3 DEF CInv, EndsMatch, Waits
        <4> QED
          BY <1>1, <2>2, <4>1, <4>3, <4>4, <4>5, <4>6 DEF Waits, HasWritten, ToConnect
      <3>3. CASE clnt[i] = "add close"
        <4>1. results'[i]["socket.write"] = results[i]["socket.write"]
          BY <1>2, <1>3, <3>3, NamesDiffer
        <4> QED
          BY <1>1, <1>2, <2>2, <3>3, <4>1
          DEF CInv, EndsMatch, Waits, HasWritten, Connected, ToConnect
      <3> QED
        BY <1>2, <3>1, <3>2, <3>3
    <2> QED
      BY <2>1, <2>2
  <1>6. CallsFailForCause'
    <2>1. \A j \in Invocations : results'[j]["accept"] = results[j]["accept"]
      BY <1>1, <1>3
    <2> DEFINE Caused(j) ==
          /\ clnt[j] = "add connect" /\ err[j] =>
                "connect" \in denied \/ AcceptBlamed(results[j])
          /\ clnt[j] \in {"add write", "add size"} /\ err[j] =>
                "write" \in denied \/ AcceptBlamed(results[j])
          /\ clnt[j] = "add size" => err[j]
          /\ clnt[j] = "add close" /\ err[j] => "close" \in denied
          /\ clnt[j] \in {"add connect", "write"} /\ conn[j] = "reset" =>
                AcceptBlamed(results[j])
    <2>2. \A j \in Invocations : AcceptBlamed(results[j])' <=> AcceptBlamed(results[j])
      BY <1>1, <2>1 DEF AcceptBlamed
    <2>3. \A j \in Invocations : Caused(j)
      BY DEF CInv, CallsFailForCause
    <2>4. ASSUME NEW j \in Invocations, j # i PROVE Caused(j)'
      BY <1>1, <2>2, <2>3, <2>4
    <2>5. Caused(i)'
      BY <1>1, <1>2, <2>2, <2>3
    <2> QED
      BY <2>4, <2>5 DEF CallsFailForCause
  <1>7. ResultsBlame'
    <2> SUFFICES ASSUME NEW j \in Invocations PROVE Blamed(results[j], j)'
      BY DEF ResultsBlame
    <2>1. Blamed(results[j], j)
      BY DEF CInv, ResultsBlame
    <2>2. CASE j # i
      BY <1>1, <2>1, <2>2 DEF Blamed, AcceptBlamed
    <2>3. CASE j = i
      <3>1. results[i]["socket.write"] = "fail" => results'[i]["socket.write"] = "fail"
        BY <1>2, <1>3, NamesDiffer
        DEF IInv, ClientsNote, ToWrite, CInv, CallsFailForCause, Outcome
      <3>2. results'[i][name] = "fail" => err[i]
        BY <1>3 DEF Outcome
      <3>3. CallOf("socket_clnt.close") = "close"
        BY DEF CallOf
      <3> QED
        <4> DEFINE r == results'[i]
        <4>1. /\ r["accept"] = results[i]["accept"] /\ r["socket.read"] = results[i]["socket.read"]
              /\ \A n \in Names : n # name => r[n] = results[i][n]
              /\ r[name] = "fail" => err[i]
          BY <1>2, <1>3, <3>2, NamesDiffer, BlamedNames
        <4> HIDE DEF r
        <4>2. r["connect"] = "fail" => "connect" \in denied \/ AcceptBlamed(results[i])
          BY <1>2, <2>1, <2>3, <4>1, NamesDiffer DEF Blamed, CInv, CallsFailForCause
        <4>3. r["socket.write"] = "fail" => "write" \in denied \/ AcceptBlamed(results[i])
          BY <1>2, <2>1, <2>3, <4>1, NamesDiffer DEF Blamed, CInv, CallsFailForCause
        <4>4. \A n \in Names \ {"connect", "socket.write", "socket.read"} :
                 r[n] = "fail" => CallOf(n) \in denied \/ (n = "bind" /\ i \in blocked)
          BY <1>2, <2>1, <2>3, <3>3, <4>1 DEF Blamed, CInv, CallsFailForCause
        <4>5. r["socket.read"] = "fail" =>
                 "read" \in denied \/ ("write" \in denied /\ r["socket.write"] = "fail")
          BY <2>1, <2>3, <3>1, <4>1 DEF Blamed, r
        <4> QED
          BY <1>1, <2>3, <4>1, <4>2, <4>3, <4>4, <4>5 DEF Blamed, AcceptBlamed, r
    <2> QED
      BY <2>2, <2>3
  <1>8. BegunStays'
    <2> SUFFICES ASSUME srv = "marshalling", srv' = "marshalling" PROVE BegunStays'
      BY <1>1 DEF BegunStays
    <2>1. \A n \in SrvNames : begun[n] = results'[inv][n]
      <3>1. inv \in Invocations
        BY DEF IInv, Types
      <3>2. \A n \in SrvNames : results'[inv][n] = results[inv][n]
        BY <1>1, <1>3, <3>1
      <3> QED
        BY <3>2 DEF CInv, BegunStays
    <2>2. begun["socket.write"] = "fail" => results'[inv]["socket.write"] = "fail"
      <3>1. inv \in Invocations
        BY DEF IInv, Types
      <3>2. results[i]["socket.write"] = "fail" => results'[i]["socket.write"] = "fail"
        BY <1>2, <1>3, NamesDiffer
        DEF IInv, ClientsNote, ToWrite, CInv, CallsFailForCause, Outcome
      <3> QED
        BY <1>1, <3>1, <3>2 DEF CInv, BegunStays
    <2> QED
      BY <1>1, <2>1, <2>2 DEF CInv, BegunStays, Blamed, AcceptBlamed
  <1>9. ReportsBlame'
    BY <1>1 DEF CInv, ReportsBlame, Blamed, AcceptBlamed
  <1> QED
    BY <1>4, <1>5, <1>6, <1>7, <1>8, <1>9, <1>10 DEF CInv

LEMMA LingerC == ASSUME IInv, CInv, NEW i \in Invocations, LingerEnds(i) PROVE CInv'
  <1>1. /\ UNCHANGED <<denied, inv, srv, clnt, err, results, report, begun, listener, peer, sent,
                       blocked>>
        /\ \A j \in Invocations : conn'[j] = conn[j] \/ (conn[j] = "lingering" /\ conn'[j] = "gone")
    BY DEF LingerEnds, IInv, Types
  <1>2. EndTypes' /\ AcceptNoted'
    BY <1>1 DEF CInv, EndTypes, AcceptNoted, Allowed
  <1>5. CallsFailForCause'
    <2>1. \A j \in Invocations : conn'[j] = "reset" => conn[j] = "reset"
      BY <1>1
    <2> QED
      BY <1>1, <2>1 DEF CInv, CallsFailForCause, AcceptBlamed
  <1>4. EndsMatch'
    <2> SUFFICES ASSUME NEW j \in Invocations, Waits(j), peer[j] # "none"
                 PROVE  conn'[j] \in {"queued", "open"}
      BY <1>1 DEF CInv, EndsMatch, Waits, HasWritten
    <2> QED
      BY <1>1 DEF CInv, EndsMatch
  <1>3. ResultsBlame' /\ BegunStays' /\ ReportsBlame'
    BY <1>1 DEF CInv, ResultsBlame, BegunStays, ReportsBlame, Blamed, AcceptBlamed
  <1> QED
    BY <1>2, <1>3, <1>4, <1>5 DEF CInv

LEMMA CStep == IInv /\ CInv /\ [Next]_vars => CInv'
  <1> SUFFICES ASSUME IInv, CInv, [Next]_vars PROVE CInv'
    OBVIOUS
  <1>1. CASE UNCHANGED vars
    <2>1. EndTypes' /\ AcceptNoted' /\ EndsMatch'
      BY <1>1 DEF vars, kernel, CInv, EndTypes, AcceptNoted, Allowed, EndsMatch, Waits, HasWritten
    <2>3. CallsFailForCause'
      BY <1>1 DEF vars, kernel, CInv, CallsFailForCause, AcceptBlamed
    <2>2. ResultsBlame' /\ BegunStays' /\ ReportsBlame'
      BY <1>1 DEF vars, CInv, ResultsBlame, BegunStays, ReportsBlame, Blamed, AcceptBlamed
    <2> QED
      BY <2>1, <2>2, <2>3 DEF CInv
  <1>2. CASE Invoke \/ InvokeWithNull
    BY <1>2, InvokeC
  <1>3. CASE Server
    BY <1>3, SrvCallC, MarshalC DEF Server, SrvCalls
  <1>4. ASSUME NEW i \in Invocations, Client(i) \/ LingerEnds(i) PROVE CInv'
    BY <1>4, ClntCallC, ClntAddC, LingerC DEF Client, ClntCalls, ClntAdds
  <1> QED
    BY <1>1, <1>2, <1>3, <1>4 DEF Next

(* A report that says something failed names a call that failed for a      *)
(* reason of its own: one that is denied, or the bind to a port that was   *)
(* in use (lines 78-84, 118-122, 182).                                     *)
THEOREM FailuresAreExplained == Spec => []ReportsNameACulprit
  <1>1. IInv /\ CInv => ReportsNameACulprit
    <2> SUFFICES ASSUME IInv, CInv, NEW i \in Invocations, report[i] # NoReport,
                        NEW f \in Names, report[i][f] = "fail"
                 PROVE  \E n \in {m \in Names : report[i][m] = "fail"} :
                            CallOf(n) \in denied \/ (n = "bind" /\ i \in blocked)
      BY DEF ReportsNameACulprit
    <2>1. Blamed(report[i], i)
      BY DEF CInv, ReportsBlame
    <2>2. /\ CallOf("connect") = "connect" /\ CallOf("accept") = "accept"
          /\ CallOf("socket.write") = "write" /\ CallOf("socket.read") = "read"
      BY DEF CallOf
    <2> QED
      BY <2>1, <2>2, NamesDiffer, BlamedNames DEF Blamed, AcceptBlamed
  <1> QED
    BY <1>1, InvInit, InvStep, CInit, CStep, PTL DEF Spec
=============================================================================
