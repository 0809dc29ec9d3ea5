--------------------------- MODULE SessionProofs ----------------------------
(***************************************************************************)
(* Proofs about module Session, for any number of sessions and clients and *)
(* any size of the sockets' buffers.                                       *)
(*                                                                         *)
(* What an answer means to its reader depends on what is on its way to it, *)
(* so the invariants speak of the contents of up[s] and down[s]:  a client *)
(* that waits has one request or one answer under way, never both, and     *)
(* among the frames that the host broadcasts.                              *)
(***************************************************************************)
EXTENDS Session, TLAPS

Requests == {"ClientIntro", "AuthRequest", "ClientNonceNotify", "QueryHostCapsRequest",
             "ConfigureStreamRequest", "StartStreamRequest", "PingRequest", "EOF",
             "CloseNotify"}
Answers  == {"ServerIntro", "PingResponse", "QueryHostCapsResponse",
             "ConfigureStreamResponse", "StartStreamResponse", "ServerPartialHashNotify",
             "ServerNonceNotify", "AuthResponse", "Frame"}
Statuses == {"", "OK", "AUTH_REQUIRED", "UNKNOWN", "ALREADY_STREAMING", "UNKNOWN_ERROR",
             "INCORRECT_PIN"}

UpPackets   == [kind : Requests, val : Sessions \cup Statuses]
DownPackets == [kind : Answers, val : Sessions \cup Statuses]

\* The types of the variables other than the Boolean one.
DataOK ==
    /\ cPc \in [Sessions -> CPcs]
    /\ pingPc \in [Sessions -> {"off", "on", "done"}]
    /\ uiPc \in [Sessions -> {"hidden", "shown", "joinRecv", "joinPing", "gone"}]
    /\ sPc \in [Sessions -> SPcs]
    /\ flagRunPing \subseteq Sessions /\ cConn \subseteq Sessions
    /\ closing \subseteq Sessions /\ net \subseteq Sessions
    /\ sConn \subseteq Sessions /\ authorized \subseteq Sessions
    /\ sStreaming \subseteq Sessions /\ typed \subseteq Sessions
    /\ trusted \subseteq Clients /\ known \subseteq Clients
    /\ displayed \in [Sessions -> {NoPin} \cup ((Sessions \cup Statuses) \X Sessions)]
    /\ authState \in [Sessions -> Sessions \cup Statuses \cup {NoNonce}]
    /\ up \in [Sessions -> Seq(UpPackets)]
    /\ down \in [Sessions -> Seq(DownPackets)]
-----------------------------------------------------------------------------
(* Packets.                                                                *)

\* The packets of the two directions, as the actions build them.
LEMMA PacketTypes ==
    /\ \A k \in Requests : \A v \in Sessions \cup Statuses : Packet(k, v) \in UpPackets
    /\ \A k \in Answers : \A v \in Sessions \cup Statuses : Packet(k, v) \in DownPackets
BY DEF Packet, UpPackets, DownPackets

\* A packet has the message and the contents it was made of.
LEMMA PacketFields ==
    /\ \A k, v : Packet(k, v).kind = k /\ Packet(k, v).val = v
BY DEF Packet

\* Two packets are the same when their messages and their contents are.
LEMMA PacketsDiffer ==
    \A k, v, l, w : Packet(k, v) = Packet(l, w) <=> k = l /\ v = w
BY DEF Packet
-----------------------------------------------------------------------------
(* Types.                                                                  *)

\* A queue that gets one more packet.
LEMMA Appended ==
    ASSUME NEW P, NEW f \in [Sessions -> Seq(P)], NEW s \in Sessions, NEW p \in P
    PROVE  [f EXCEPT ![s] = Append(@, p)] \in [Sessions -> Seq(P)]
OBVIOUS

\* The same, of a sequence.
LEMMA Longer == \A P : \A q \in Seq(P) : \A p \in P : Append(q, p) \in Seq(P)
OBVIOUS

\* What the client sends and takes has the type of the packets of its direction.
LEMMA ClientQueues ==
    ASSUME DataOK, NEW s \in Sessions
    PROVE  /\ \A k \in Requests : \A v \in Sessions \cup Statuses :
                Request(s, k, v) => up' \in [Sessions -> Seq(UpPackets)]
           /\ down[s] # <<>> => Head(down[s]) \in DownPackets
           /\ down[s] # <<>> /\ Take(s) => down' \in [Sessions -> Seq(DownPackets)]
<1>1. ASSUME NEW k \in Requests, NEW v \in Sessions \cup Statuses, Request(s, k, v)
      PROVE  up' \in [Sessions -> Seq(UpPackets)]
    <2>1. Packet(k, v) \in UpPackets
        BY PacketTypes
    <2> QED
        BY <1>1, <2>1 DEF DataOK, Request
<1>2. down[s] # <<>> => Head(down[s]) \in DownPackets
    BY DEF DataOK
<1>3. ASSUME down[s] # <<>>, Take(s)
      PROVE  down' \in [Sessions -> Seq(DownPackets)]
    BY <1>3 DEF DataOK, Take
<1> QED
    BY <1>1, <1>2, <1>3

\* What the host takes and sends has the type of the packets of its direction.
LEMMA HostQueues ==
    ASSUME DataOK, NEW s \in Sessions
    PROVE  /\ \A k : Received(s, k) => /\ up' \in [Sessions -> Seq(UpPackets)]
                                       /\ Head(up[s]) \in UpPackets
           /\ \A k \in Answers : \A v \in Sessions \cup Statuses :
                ServerSend(s, k, v) => /\ down' \in [Sessions -> Seq(DownPackets)]
                                       /\ sConn' \subseteq Sessions
<1>1. ASSUME NEW k, Received(s, k)
      PROVE  up' \in [Sessions -> Seq(UpPackets)] /\ Head(up[s]) \in UpPackets
    BY <1>1 DEF DataOK, Received
<1>2. ASSUME NEW k \in Answers, NEW v \in Sessions \cup Statuses, ServerSend(s, k, v)
      PROVE  down' \in [Sessions -> Seq(DownPackets)] /\ sConn' \subseteq Sessions
    <2>1. Packet(k, v) \in DownPackets
        BY PacketTypes
    <2>2. down \in [Sessions -> Seq(DownPackets)] /\ sConn \subseteq Sessions
        BY DEF DataOK
    <2>3. CASE Reaches(s)
        <3>1. down' = [down EXCEPT ![s] = Append(@, Packet(k, v))] /\ sConn' = sConn
            BY <1>2, <2>3 DEF ServerSend
        <3> QED
            BY <2>1, <2>2, <3>1, Appended
    <2>4. CASE ~Reaches(s)
        BY <1>2, <2>2, <2>4 DEF ServerSend
    <2> QED
        BY <2>3, <2>4
<1> QED
    BY <1>1, <1>2

\* StreamClient::disconnect keeps the types of what it changes.
LEMMA Closing ==
    ASSUME DataOK, NEW s \in Sessions, Disconnect(s)
    PROVE  /\ up' \in [Sessions -> Seq(UpPackets)]
           /\ flagRunPing' \subseteq Sessions /\ cConn' \subseteq Sessions
<1>1. Packet("CloseNotify", "") \in UpPackets
    BY PacketTypes DEF Requests, Statuses
<1> QED
    <2>1. up' \in [Sessions -> Seq(UpPackets)]
        <3>1. CASE s \in cConn
            BY <1>1, <3>1, Appended DEF DataOK, Disconnect
        <3>2. CASE s \notin cConn
            BY <3>2 DEF DataOK, Disconnect
        <3> QED
            BY <3>1, <3>2
    <2> QED
        BY <2>1 DEF DataOK, Disconnect

\* The end of the client's process does so too.
LEMMA Dying ==
    ASSUME DataOK, NEW s \in Sessions, ProcessEnds(s)
    PROVE  /\ up' \in [Sessions -> Seq(UpPackets)] /\ cConn' \subseteq Sessions
           /\ pingPc' \in [Sessions -> {"off", "on", "done"}]
           /\ uiPc' \in [Sessions -> {"hidden", "shown", "joinRecv", "joinPing", "gone"}]
           /\ trusted' \subseteq Clients
<1>1. Packet("EOF", "") \in UpPackets
    BY PacketTypes DEF Requests, Statuses
<1>2. up' \in [Sessions -> Seq(UpPackets)]
    <2>1. CASE s \in cConn
        BY <1>1, <2>1, Appended DEF DataOK, ProcessEnds
    <2>2. CASE s \notin cConn
        BY <2>2 DEF DataOK, ProcessEnds
    <2> QED
        BY <2>1, <2>2
<1> QED
    BY <1>2 DEF DataOK, ProcessEnds

\* Every step keeps the types.
LEMMA DataStep == DataOK /\ [Next]_vars => DataOK'
<1> SUFFICES ASSUME DataOK, [Next]_vars PROVE DataOK'
    OBVIOUS
<1>1. CASE UNCHANGED vars
    BY <1>1 DEF DataOK, vars, clientVars, serverVars
<1>2. CASE BroadcastBegin
    BY <1>2 DEF DataOK, BroadcastBegin, clientVars
<1>3. ASSUME NEW s \in Sessions, Connect(s) PROVE DataOK'
    BY <1>3, ClientQueues DEF DataOK, Connect, CGoto, SGoto, CPcs, SPcs, Requests, Statuses
<1>4. ASSUME NEW s \in Sessions, ConnectFails(s) PROVE DataOK'
    BY <1>4 DEF DataOK, ConnectFails, CGoto, SGoto, CPcs, SPcs
<1>5. ASSUME NEW s \in Sessions, RecvServerIntro(s) PROVE DataOK'
    BY <1>5, ClientQueues DEF DataOK, RecvServerIntro, Arrived, CGoto, CPcs, serverVars, Requests, Statuses
<1>6. ASSUME NEW s \in Sessions, RecvPartialHash(s) PROVE DataOK'
    <2>1. down' \in [Sessions -> Seq(DownPackets)]
        BY <1>6, ClientQueues DEF RecvPartialHash, Arrived
    <2>2. CASE Head(down[s]).kind = "ServerPartialHashNotify"
        <3>1. closing' = closing /\ displayed' = displayed
            BY <1>6, <2>2 DEF RecvPartialHash
        <3>2. cPc' \in [Sessions -> CPcs]
            <4>1. CGoto(s, "nonce")
                BY <1>6, <2>2 DEF RecvPartialHash
            <4> QED
                BY <4>1 DEF DataOK, CGoto, CPcs
        <3>3. up' \in [Sessions -> Seq(UpPackets)]
            BY <1>6, <2>2, ClientQueues DEF RecvPartialHash, Requests
        <3> QED
            BY <1>6, <2>1, <3>1, <3>2, <3>3 DEF DataOK, RecvPartialHash, serverVars
    <2>3. CASE Head(down[s]).kind # "ServerPartialHashNotify"
        BY <1>6, <2>1, <2>3 DEF DataOK, RecvPartialHash, IntroFails, CGoto, CPcs, serverVars
    <2> QED
        BY <2>2, <2>3
<1>7. ASSUME NEW s \in Sessions, RecvServerNonce(s) PROVE DataOK'
    <2>0. Head(down[s]).val \in Sessions \cup Statuses
        BY <1>7, ClientQueues DEF RecvServerNonce, Arrived, DownPackets
    <2>1. down' \in [Sessions -> Seq(DownPackets)]
        BY <1>7, ClientQueues DEF RecvServerNonce, Arrived
    <2>2. CASE Head(down[s]).kind = "ServerNonceNotify"
        <3>1. closing' = closing /\ up' = up
            BY <1>7, <2>2 DEF RecvServerNonce
        <3>2. cPc' \in [Sessions -> CPcs]
            <4>1. CGoto(s, "pinBox")
                BY <1>7, <2>2 DEF RecvServerNonce
            <4> QED
                BY <4>1 DEF DataOK, CGoto, CPcs
        <3>3. displayed' \in [Sessions -> {NoPin} \cup ((Sessions \cup Statuses) \X Sessions)]
            <4>1. displayed' = [displayed EXCEPT ![s] = <<Head(down[s]).val, s>>]
                BY <1>7, <2>2 DEF RecvServerNonce, ComputePin
            <4> QED
                BY <2>0, <4>1 DEF DataOK
        <3> QED
            BY <1>7, <2>1, <3>1, <3>2, <3>3 DEF DataOK, RecvServerNonce, serverVars
    <2>3. CASE Head(down[s]).kind # "ServerNonceNotify"
        BY <1>7, <2>1, <2>3 DEF DataOK, RecvServerNonce, IntroFails, CGoto, CPcs, serverVars
    <2> QED
        BY <2>2, <2>3
<1>8. ASSUME NEW s \in Sessions, PinBoxClosed(s) PROVE DataOK'
    BY <1>8 DEF DataOK, PinBoxClosed, CGoto, CPcs, serverVars
<1>9. ASSUME NEW s \in Sessions, RecvAuthResponse(s) PROVE DataOK'
    <2>1. down' \in [Sessions -> Seq(DownPackets)]
        BY <1>9, ClientQueues DEF RecvAuthResponse, Arrived
    <2>2. CASE Head(down[s]) = Packet("AuthResponse", "OK")
        <3>1. closing' = closing /\ trusted' = trusted \cup {Owner[s]}
            BY <1>9, <2>2 DEF RecvAuthResponse
        <3>2. cPc' \in [Sessions -> CPcs]
            <4>1. CGoto(s, "caps")
                BY <1>9, <2>2 DEF RecvAuthResponse
            <4> QED
                BY <4>1 DEF DataOK, CGoto, CPcs
        <3>3. up' \in [Sessions -> Seq(UpPackets)]
            BY <1>9, <2>2, ClientQueues DEF RecvAuthResponse, Requests, Statuses
        <3> QED
            <4>1. trusted' \subseteq Clients
                BY <3>1, OwnerAssumption DEF DataOK
            <4>2. UNCHANGED <<pingPc, flagRunPing, cConn, uiPc, displayed, serverVars, net>>
                BY <1>9 DEF RecvAuthResponse
            <4> QED
                BY <2>1, <3>1, <3>2, <3>3, <4>1, <4>2 DEF DataOK, serverVars
    <2>3. CASE Head(down[s]) # Packet("AuthResponse", "OK")
        BY <1>9, <2>1, <2>3 DEF DataOK, RecvAuthResponse, IntroFails, CGoto, CPcs, serverVars
    <2> QED
        BY <2>2, <2>3
<1>10. ASSUME NEW s \in Sessions, RecvHostCaps(s) PROVE DataOK'
    BY <1>10, ClientQueues DEF DataOK, RecvHostCaps, Arrived, CGoto, CPcs, serverVars, Requests, Statuses
<1>11. ASSUME NEW s \in Sessions, RecvConfigured(s) PROVE DataOK'
    BY <1>11, ClientQueues DEF DataOK, RecvConfigured, Arrived, CGoto, CPcs, serverVars, Requests, Statuses
<1>12. ASSUME NEW s \in Sessions, RecvStarted(s) PROVE DataOK'
    <2>1. down' \in [Sessions -> Seq(DownPackets)]
        BY <1>12, ClientQueues DEF RecvStarted, Arrived
    <2>2. CASE Head(down[s]).val = "OK"
        <3>1. closing' = closing /\ up' = up
            BY <1>12, <2>2 DEF RecvStarted
        <3>2. cPc' \in [Sessions -> CPcs]
            <4>1. CGoto(s, "online")
                BY <1>12, <2>2 DEF RecvStarted
            <4> QED
                BY <4>1 DEF DataOK, CGoto, CPcs
        <3>3. up' \in [Sessions -> Seq(UpPackets)]
            BY <1>12, <2>2 DEF DataOK, RecvStarted
        <3> QED
            BY <1>12, <2>1, <3>1, <3>2, <3>3 DEF DataOK, RecvStarted, serverVars
    <2>3. CASE Head(down[s]).val # "OK"
        BY <1>12, <2>1, <2>3 DEF DataOK, RecvStarted, IntroFails, CGoto, CPcs, serverVars
    <2> QED
        BY <2>2, <2>3
<1>13. ASSUME NEW s \in Sessions, RecvUnexpected(s) PROVE DataOK'
    BY <1>13, Dying DEF DataOK, RecvUnexpected, Abort, CGoto, CPcs, serverVars
<1>14. ASSUME NEW s \in Sessions, StartPing(s) PROVE DataOK'
    BY <1>14 DEF DataOK, StartPing, CGoto, CPcs, serverVars
<1>15. ASSUME NEW s \in Sessions, ReportConnected(s) PROVE DataOK'
    BY <1>15 DEF DataOK, ReportConnected, CGoto, CPcs, serverVars
<1>16. ASSUME NEW s \in Sessions, RunRecv(s) PROVE DataOK'
    BY <1>16, ClientQueues DEF DataOK, RunRecv, Arrived, clientVars, serverVars
<1>17. ASSUME NEW s \in Sessions, RecvFails(s) PROVE DataOK'
    BY <1>17 DEF DataOK, RecvFails, CGoto, CPcs, serverVars
<1>18. ASSUME NEW s \in Sessions, Ping(s) PROVE DataOK'
    BY <1>18, ClientQueues DEF DataOK, Ping, serverVars, Requests, Statuses
<1>19. ASSUME NEW s \in Sessions, PingStops(s) PROVE DataOK'
    BY <1>19 DEF DataOK, PingStops, serverVars
<1>20. ASSUME NEW s \in Sessions, UserCloses(s) PROVE DataOK'
    BY <1>20, Closing DEF DataOK, UserCloses, serverVars
<1>21. ASSUME NEW s \in Sessions, CloseLater(s) PROVE DataOK'
    BY <1>21, Closing DEF DataOK, CloseLater, serverVars
<1>22. ASSUME NEW s \in Sessions, JoinRecv(s) PROVE DataOK'
    BY <1>22 DEF DataOK, JoinRecv, serverVars
<1>23. ASSUME NEW s \in Sessions, JoinPing(s) PROVE DataOK'
    BY <1>23 DEF DataOK, JoinPing, serverVars
<1>24. ASSUME NEW s \in Sessions, NetFails(s) PROVE DataOK'
    BY <1>24 DEF DataOK, NetFails, clientVars, serverVars
<1>25. ASSUME NEW s \in Sessions, ClientIntro(s) PROVE DataOK'
    BY <1>25, HostQueues DEF DataOK, ClientIntro, ForgetAuth, clientVars, Answers, Statuses
<1>26. ASSUME NEW s \in Sessions, PingRequest(s) PROVE DataOK'
    BY <1>26, HostQueues DEF DataOK, PingRequest, ForgetAuth, clientVars, Answers, Statuses
<1>27. ASSUME NEW s \in Sessions, QueryHostCaps(s) PROVE DataOK'
    BY <1>27, HostQueues DEF DataOK, QueryHostCaps, ForgetAuth, clientVars, Answers, Statuses
<1>28. ASSUME NEW s \in Sessions, ConfigureStream(s) PROVE DataOK'
    BY <1>28, HostQueues DEF DataOK, ConfigureStream, ForgetAuth, clientVars, Answers, Statuses
<1>29. ASSUME NEW s \in Sessions, StartStream(s) PROVE DataOK'
    <2>1. /\ SGoto(s, "starting") \/ SGoto(s, "hung")
          /\ sStreaming' = sStreaming \/ sStreaming' = sStreaming \cup {s}
          /\ Received(s, "StartStreamRequest") /\ ForgetAuth(s)
          /\ UNCHANGED <<clientVars, sConn, authorized, known, typed, down, net>>
        BY <1>29 DEF StartStream, StartHangs
    <2>2. up' \in [Sessions -> Seq(UpPackets)]
        BY <2>1, HostQueues
    <2>3. sPc' \in [Sessions -> SPcs]
        BY <2>1 DEF DataOK, SGoto, SPcs
    <2>4. authState' \in [Sessions -> Sessions \cup Statuses \cup {NoNonce}]
        BY <2>1 DEF DataOK, ForgetAuth
    <2> QED
        BY <2>1, <2>2, <2>3, <2>4 DEF DataOK, clientVars
<1>30. ASSUME NEW s \in Sessions, AnswerStart(s) PROVE DataOK'
    BY <1>30, HostQueues DEF DataOK, AnswerStart, SGoto, SPcs, clientVars, Answers, Statuses
<1>31. ASSUME NEW s \in Sessions, AuthRequest(s) PROVE DataOK'
    BY <1>31, HostQueues DEF DataOK, AuthRequest, clientVars, Answers, UpPackets
<1>32. ASSUME NEW s \in Sessions, ClientNonce(s) PROVE DataOK'
    BY <1>32, HostQueues DEF DataOK, ClientNonce, SGoto, SPcs, clientVars, Answers, Statuses
<1>33. ASSUME NEW s \in Sessions, EnterPin(s) PROVE DataOK'
    <2>1. down' \in [Sessions -> Seq(DownPackets)] /\ sConn' \subseteq Sessions
        BY <1>33, HostQueues DEF EnterPin, Answers, Statuses
    <2>2. /\ typed' \subseteq Sessions
          /\ known' \subseteq Clients
          /\ authorized' \subseteq Sessions
        BY <1>33, OwnerAssumption DEF DataOK, EnterPin
    <2> QED
        BY <1>33, <2>1, <2>2 DEF DataOK, EnterPin, SGoto, SPcs, clientVars
<1>34. ASSUME NEW s \in Sessions, ServerRecvFails(s) PROVE DataOK'
    BY <1>34 DEF DataOK, ServerRecvFails, clientVars
<1>35. ASSUME NEW s \in Sessions, Leave(s) PROVE DataOK'
    BY <1>35 DEF DataOK, Leave, SGoto, SPcs, clientVars
<1>36. ASSUME NEW s \in Sessions, SendFrame(s) PROVE DataOK'
    BY <1>36, HostQueues DEF DataOK, SendFrame, clientVars, Answers, Statuses
<1>37. ASSUME NEW s \in Sessions, Killed(s) PROVE DataOK'
    BY <1>37, Dying DEF DataOK, Killed, CGoto, CPcs, serverVars
<1> QED
    BY <1>1, <1>2, <1>3, <1>4, <1>5, <1>6, <1>7, <1>8, <1>9, <1>10, <1>11, <1>12, <1>13, <1>14, <1>15, <1>16, <1>17, <1>18, <1>19, <1>20, <1>21, <1>22, <1>23, <1>24, <1>25, <1>26, <1>27, <1>28, <1>29, <1>30, <1>31, <1>32, <1>33, <1>34, <1>35, <1>36, <1>37
       DEF Next, RecvThread, Window, Handler
-----------------------------------------------------------------------------
(* Who trusts whom.                                                        *)

\* A packet that says the host accepts the client is true when it is sent.
Warranted(s, p) ==
    /\ p \in {Packet("ServerIntro", "OK"), Packet("AuthResponse", "OK")} => s \in authorized
    /\ p = Packet("AuthResponse", "OK") => Owner[s] \in known

\* It stays true while it is on its way.
Granted(s) == \A i \in DOMAIN down[s] : Warranted(s, down[s][i])

Pairing == TrustIsMutual /\ \A s \in Sessions : Granted(s)

\* What a step may do to the packets on their way to a client.
DownStep(s) ==
    \/ down'[s] = down[s]
    \/ down[s] # <<>> /\ down'[s] = Tail(down[s])
    \/ down'[s] = <<>>
    \/ \E p \in DownPackets : down'[s] = Append(down[s], p) /\ Warranted(s, p)'

\* A client that takes a packet.
LEMMA TakeStep ==
    ASSUME DataOK, NEW t \in Sessions, Arrived(t), Take(t)
    PROVE  \A s \in Sessions : DownStep(s)
BY DEF DataOK, Arrived, Take, DownStep

\* A handler that answers.
LEMMA SendStep ==
    ASSUME DataOK, NEW t \in Sessions, NEW k \in Answers, NEW v \in Sessions \cup Statuses,
           ServerSend(t, k, v), Warranted(t, Packet(k, v))'
    PROVE  \A s \in Sessions : DownStep(s)
<1>1. Packet(k, v) \in DownPackets
    BY PacketTypes
<1>2. \/ down' = [down EXCEPT ![t] = Append(@, Packet(k, v))]
      \/ down' = down
    BY DEF ServerSend
<1>3. down \in [Sessions -> Seq(DownPackets)]
    BY DEF DataOK
<1>4. PICK p \in DownPackets : p = Packet(k, v) /\ Warranted(t, p)'
    <2>1. \A p : p = Packet(k, v) => Warranted(t, p)'
        BY DEF Warranted
    <2> QED
        BY <1>1, <2>1
<1>5. CASE down' = [down EXCEPT ![t] = Append(@, Packet(k, v))]
    BY <1>3, <1>4, <1>5 DEF DownStep
<1>6. CASE down' = down
    BY <1>6 DEF DownStep
<1> QED
    BY <1>2, <1>5, <1>6

\* Every step treats the packets on their way to the clients in one of these ways,
\* and no step takes back an authorization or forgets a client.
LEMMA DownSteps ==
    ASSUME DataOK, Next
    PROVE  /\ \A s \in Sessions : DownStep(s)
           /\ known \subseteq known' /\ authorized \subseteq authorized'
<1> DEFINE Goal == /\ \A s \in Sessions : DownStep(s)
                   /\ known \subseteq known' /\ authorized \subseteq authorized'
<1>1. ASSUME NEW t \in Sessions,
             \/ Connect(t) \/ ConnectFails(t) \/ PinBoxClosed(t) \/ RecvUnexpected(t)
             \/ StartPing(t) \/ ReportConnected(t) \/ RecvFails(t) \/ Ping(t) \/ PingStops(t)
             \/ UserCloses(t) \/ CloseLater(t) \/ JoinRecv(t) \/ NetFails(t)
      PROVE  Goal
    <2>1. down' = down /\ known' = known /\ authorized \subseteq authorized'
        BY <1>1 DEF Connect, ConnectFails, PinBoxClosed, RecvUnexpected, StartPing,
           ReportConnected, RecvFails, Ping, PingStops, UserCloses, CloseLater, JoinRecv,
           NetFails, serverVars
    <2> QED
        BY <2>1 DEF DownStep
<1>2. ASSUME NEW t \in Sessions,
             \/ RecvServerIntro(t) \/ RecvPartialHash(t) \/ RecvServerNonce(t)
             \/ RecvAuthResponse(t) \/ RecvHostCaps(t) \/ RecvConfigured(t) \/ RecvStarted(t)
             \/ RunRecv(t)
      PROVE  Goal
    <2>1. Arrived(t) /\ Take(t) /\ known' = known /\ authorized' = authorized
        BY <1>2 DEF RecvServerIntro, RecvPartialHash, RecvServerNonce, RecvAuthResponse,
           RecvHostCaps, RecvConfigured, RecvStarted, RunRecv, serverVars
    <2> QED
        BY <2>1, TakeStep
<1>3. ASSUME NEW t \in Sessions, JoinPing(t) \/ Killed(t) PROVE Goal
    <2>1. down' = [down EXCEPT ![t] = <<>>] /\ known' = known /\ authorized' = authorized
        BY <1>3 DEF JoinPing, Killed, serverVars
    <2> QED
        BY <2>1 DEF DataOK, DownStep
<1>4. ASSUME NEW t \in Sessions, StartStream(t) \/ ServerRecvFails(t) \/ Leave(t) PROVE Goal
    <2>1. down' = down /\ known' = known /\ authorized' = authorized
        BY <1>4 DEF StartStream, ServerRecvFails, Leave
    <2> QED
        BY <2>1 DEF DownStep
<1>5. ASSUME NEW t \in Sessions, ClientIntro(t) PROVE Goal
    <2>1. known' = known /\ authorized' = authorized
        BY <1>5 DEF ClientIntro
    <2>2. CASE t \in authorized
        <3>1. ServerSend(t, "ServerIntro", "OK")
            BY <1>5, <2>2 DEF ClientIntro
        <3>2. Warranted(t, Packet("ServerIntro", "OK"))'
            BY <2>1, <2>2, PacketsDiffer DEF Warranted
        <3> QED
            BY <2>1, <3>1, <3>2, SendStep DEF Answers, Statuses
    <2>3. CASE t \notin authorized
        <3>1. ServerSend(t, "ServerIntro", "AUTH_REQUIRED")
            BY <1>5, <2>3 DEF ClientIntro
        <3>2. Warranted(t, Packet("ServerIntro", "AUTH_REQUIRED"))'
            BY PacketsDiffer DEF Warranted
        <3> QED
            BY <2>1, <3>1, <3>2, SendStep DEF Answers, Statuses
    <2> QED
        BY <2>2, <2>3
<1>6. ASSUME NEW t \in Sessions,
             \/ PingRequest(t) \/ QueryHostCaps(t) \/ ConfigureStream(t) \/ AnswerStart(t)
             \/ AuthRequest(t) \/ ClientNonce(t)
      PROVE  Goal
    <2>1. known' = known /\ authorized' = authorized
        BY <1>6 DEF PingRequest, QueryHostCaps, ConfigureStream, AnswerStart, AuthRequest,
           ClientNonce
    <2>2. ASSUME NEW k \in Answers \ {"ServerIntro", "AuthResponse"}, NEW v
          PROVE  Warranted(t, Packet(k, v))'
        BY PacketsDiffer DEF Warranted
    <2>3. ASSUME NEW k \in Answers \ {"ServerIntro", "AuthResponse"},
                 NEW v \in Sessions \cup Statuses, ServerSend(t, k, v)
          PROVE  Goal
        BY <2>1, <2>2, <2>3, SendStep
    <2>4. Warranted(t, Packet("AuthResponse", "UNKNOWN_ERROR"))'
        BY PacketsDiffer DEF Warranted
    <2>5. CASE PingRequest(t)
        <3>1. ServerSend(t, "PingResponse", "") \/ down' = down
            BY <2>5 DEF PingRequest
        <3>2. CASE down' = down
            BY <2>1, <3>2 DEF DownStep
        <3> QED
            BY <2>3, <3>1, <3>2 DEF Answers, Statuses
    <2>6. CASE QueryHostCaps(t)
        BY <2>3, <2>6 DEF QueryHostCaps, Answers, Statuses
    <2>7. CASE ConfigureStream(t)
        BY <2>3, <2>7 DEF ConfigureStream, Answers, Statuses
    <2>8. CASE AnswerStart(t)
        BY <2>3, <2>8 DEF AnswerStart, Answers, Statuses
    <2>9. CASE AuthRequest(t)
        BY <2>3, <2>9 DEF AuthRequest, Answers
    <2>10. CASE ClientNonce(t)
        <3>1. \/ ServerSend(t, "AuthResponse", "UNKNOWN_ERROR")
              \/ ServerSend(t, "ServerNonceNotify", t)
            BY <2>10 DEF ClientNonce
        <3>2. CASE ServerSend(t, "AuthResponse", "UNKNOWN_ERROR")
            BY <2>1, <2>4, <3>2, SendStep DEF Answers, Statuses
        <3>3. CASE ServerSend(t, "ServerNonceNotify", t)
            BY <2>3, <3>3 DEF Answers
        <3> QED
            BY <3>1, <3>2, <3>3
    <2> QED
        BY <1>6, <2>5, <2>6, <2>7, <2>8, <2>9, <2>10
<1>7. ASSUME NEW t \in Sessions, EnterPin(t) PROVE Goal
    <2>1. \/ /\ known' = known \cup {Owner[t]} /\ authorized' = authorized \cup {t}
             /\ ServerSend(t, "AuthResponse", "OK")
          \/ /\ known' = known /\ authorized' = authorized
             /\ ServerSend(t, "AuthResponse", "INCORRECT_PIN")
        BY <1>7 DEF EnterPin
    <2>2. CASE /\ known' = known \cup {Owner[t]} /\ authorized' = authorized \cup {t}
               /\ ServerSend(t, "AuthResponse", "OK")
        <3>1. Warranted(t, Packet("AuthResponse", "OK"))'
            BY <2>2 DEF Warranted
        <3> QED
            BY <2>2, <3>1, SendStep DEF Answers, Statuses
    <2>3. CASE /\ known' = known /\ authorized' = authorized
               /\ ServerSend(t, "AuthResponse", "INCORRECT_PIN")
        <3>1. Warranted(t, Packet("AuthResponse", "INCORRECT_PIN"))'
            BY PacketsDiffer DEF Warranted
        <3> QED
            BY <2>3, <3>1, SendStep DEF Answers, Statuses
    <2> QED
        BY <2>1, <2>2, <2>3
<1>8. CASE BroadcastBegin
    BY <1>8 DEF BroadcastBegin, DownStep
<1>9. ASSUME NEW t \in Sessions, SendFrame(t) PROVE Goal
    <2>1. known' = known /\ authorized' = authorized /\ ServerSend(t, "Frame", "")
        BY <1>9 DEF SendFrame
    <2>2. Warranted(t, Packet("Frame", ""))'
        <3>1. ASSUME NEW k \in Answers \ {"ServerIntro", "AuthResponse"}, NEW v
              PROVE  Warranted(t, Packet(k, v))'
            BY PacketsDiffer DEF Warranted
        <3>2. "Frame" \in Answers \ {"ServerIntro", "AuthResponse"}
            BY DEF Answers
        <3> QED
            BY <3>1, <3>2
    <2> QED
        BY <2>1, <2>2, SendStep DEF Answers, Statuses
<1> QED
    BY <1>1, <1>2, <1>3, <1>4, <1>5, <1>6, <1>7, <1>8, <1>9
       DEF Next, RecvThread, Window, Handler

\* Only an AuthResponse that accepts makes a client trust the host.
LEMMA TrustStep ==
    ASSUME DataOK, Next
    PROVE  \A c \in trusted' \ trusted : \E s \in Sessions :
                /\ c = Owner[s]
                /\ down[s] # <<>> /\ Head(down[s]) = Packet("AuthResponse", "OK")
<1>1. ASSUME NEW t \in Sessions, RecvAuthResponse(t), NEW c \in trusted' \ trusted
      PROVE  /\ c = Owner[t]
             /\ down[t] # <<>> /\ Head(down[t]) = Packet("AuthResponse", "OK")
    BY <1>1 DEF RecvAuthResponse, Arrived
<1>2. ASSUME NEW t \in Sessions, RecvUnexpected(t) \/ Killed(t)
      PROVE  trusted' \subseteq trusted
    BY <1>2 DEF RecvUnexpected, Abort, Killed, ProcessEnds
<1>3. ASSUME NEW t \in Sessions,
             \/ Connect(t) \/ ConnectFails(t) \/ RecvServerIntro(t) \/ RecvPartialHash(t)
             \/ RecvServerNonce(t) \/ PinBoxClosed(t) \/ RecvHostCaps(t) \/ RecvConfigured(t)
             \/ RecvStarted(t) \/ StartPing(t) \/ ReportConnected(t) \/ RunRecv(t)
             \/ RecvFails(t) \/ Ping(t) \/ PingStops(t) \/ UserCloses(t) \/ CloseLater(t)
             \/ JoinRecv(t) \/ JoinPing(t)
      PROVE  trusted' = trusted
    BY <1>3 DEF Connect, ConnectFails, RecvServerIntro, RecvPartialHash, RecvServerNonce,
       PinBoxClosed, RecvHostCaps, RecvConfigured, RecvStarted, StartPing, ReportConnected,
       RunRecv, RecvFails, Ping, PingStops, UserCloses, CloseLater, JoinRecv, JoinPing,
       clientVars
<1>4. ASSUME NEW t \in Sessions, NetFails(t) \/ SendFrame(t) \/ Handler(t)
      PROVE  trusted' = trusted
    BY <1>4 DEF NetFails, SendFrame, Handler, ClientIntro, PingRequest, QueryHostCaps, ConfigureStream,
       StartStream, AnswerStart, AuthRequest, ClientNonce, EnterPin, ServerRecvFails, Leave,
       clientVars
<1>5. CASE BroadcastBegin
    BY <1>5 DEF BroadcastBegin, clientVars
<1> QED
    BY <1>1, <1>2, <1>3, <1>4, <1>5 DEF Next, RecvThread, Window

\* The packets on their way stay true, and so does what a client believes.
LEMMA PairingStep == DataOK /\ Pairing /\ [Next]_vars => Pairing'
<1> SUFFICES ASSUME DataOK, Pairing, [Next]_vars PROVE Pairing'
    OBVIOUS
<1>1. CASE UNCHANGED vars
    BY <1>1 DEF Pairing, TrustIsMutual, Granted, Warranted, vars, clientVars, serverVars
<1>2. CASE Next
    <2>1. /\ \A s \in Sessions : DownStep(s)
          /\ known \subseteq known' /\ authorized \subseteq authorized'
        BY <1>2, DownSteps
    <2>2. \A s, p : Warranted(s, p) => Warranted(s, p)'
        BY <2>1 DEF Warranted
    <2>3. ASSUME NEW s \in Sessions PROVE Granted(s)'
        <3>1. /\ down[s] \in Seq(DownPackets)
              /\ \A i \in DOMAIN down[s] : \A p : p = down[s][i] => Warranted(s, p)'
            <4>1. down[s] \in Seq(DownPackets)
                BY DEF DataOK
            <4>2. \A i \in DOMAIN down[s] : Warranted(s, down[s][i])
                BY DEF Pairing, Granted
            <4> QED
                BY <2>2, <4>1, <4>2
        <3>2. CASE down'[s] = down[s]
            BY <3>1, <3>2 DEF Granted
        <3>3. CASE down[s] # <<>> /\ down'[s] = Tail(down[s])
            <4>1. \A i \in DOMAIN down'[s] : /\ i + 1 \in DOMAIN down[s]
                                             /\ down'[s][i] = down[s][i + 1]
                BY <3>1, <3>3
            <4> QED
                BY <3>1, <4>1 DEF Granted
        <3>4. CASE down'[s] = <<>>
            BY <3>4 DEF Granted
        <3>5. ASSUME NEW p \in DownPackets, down'[s] = Append(down[s], p), Warranted(s, p)'
              PROVE  Granted(s)'
            <4>1. \A i \in DOMAIN down'[s] :
                      down'[s][i] = p \/ (i \in DOMAIN down[s] /\ down'[s][i] = down[s][i])
                BY <3>1, <3>5
            <4> QED
                BY <3>1, <3>5, <4>1 DEF Granted
        <3> QED
            BY <2>1, <3>2, <3>3, <3>4, <3>5 DEF DownStep
    <2>4. TrustIsMutual'
        <3> SUFFICES ASSUME NEW c \in trusted' PROVE c \in known'
            BY DEF TrustIsMutual
        <3>1. CASE c \in trusted
            BY <2>1, <3>1 DEF Pairing, TrustIsMutual
        <3>2. ASSUME NEW s \in Sessions, c = Owner[s], down[s] # <<>>,
                     Head(down[s]) = Packet("AuthResponse", "OK")
              PROVE  c \in known'
            <4>1. down[s][1] = Packet("AuthResponse", "OK") /\ 1 \in DOMAIN down[s]
                BY <3>2 DEF DataOK
            <4> QED
                BY <2>1, <3>2, <4>1 DEF Pairing, Granted, Warranted
        <3> QED
            BY <1>2, <3>1, <3>2, TrustStep
    <2> QED
        BY <2>3, <2>4 DEF Pairing
<1> QED
    BY <1>1, <1>2
-----------------------------------------------------------------------------
(* Whose PIN makes a client known.                                         *)

\* A connection commits itself to the nonce of its own client only, and a client
\* displays PINs made with its own nonce only.
PinOK(s) ==
    /\ authState[s] \in {NoNonce, s}
    /\ \A i \in DOMAIN up[s] : up[s][i].kind = "AuthRequest" => up[s][i].val = s
    /\ displayed[s] # NoPin => \E v \in Sessions \cup Statuses : displayed[s] = <<v, s>>

Pinned == KnownByPin /\ \A s \in Sessions : PinOK(s)

\* What a step may do to the packets on their way to the host.
UpStep(s) ==
    \/ up'[s] = up[s]
    \/ up[s] # <<>> /\ up'[s] = Tail(up[s])
    \/ up'[s] = <<>>
    \/ \E p \in UpPackets :
            up'[s] = Append(up[s], p) /\ (p.kind = "AuthRequest" => p.val = s)

\* A client that sends a request.
LEMMA RequestStep ==
    ASSUME DataOK, NEW t \in Sessions, NEW k \in Requests, NEW v \in Sessions \cup Statuses,
           Request(t, k, v), k = "AuthRequest" => v = t
    PROVE  \A s \in Sessions : UpStep(s)
<1>1. PICK p \in UpPackets : p = Packet(k, v)
    BY PacketTypes
<1>2. p.kind = k /\ p.val = v
    BY <1>1, PacketFields
<1>3. up' = [up EXCEPT ![t] = Append(@, p)]
    BY <1>1 DEF Request
<1>4. up \in [Sessions -> Seq(UpPackets)]
    BY DEF DataOK
<1>5. UpStep(t)
    BY <1>2, <1>3, <1>4 DEF UpStep
<1>6. \A s \in Sessions \ {t} : UpStep(s)
    BY <1>3, <1>4 DEF UpStep
<1> QED
    BY <1>5, <1>6

\* A client that closes its socket.
LEMMA CloseStep ==
    ASSUME DataOK, NEW t \in Sessions, Disconnect(t)
    PROVE  \A s \in Sessions : UpStep(s)
<1>1. CASE t \in cConn
    <2>1. Request(t, "CloseNotify", "")
        BY <1>1 DEF Disconnect, Request
    <2> QED
        BY <2>1, RequestStep DEF Requests, Statuses
<1>2. CASE t \notin cConn
    BY <1>2 DEF Disconnect, UpStep, DataOK
<1> QED
    BY <1>1, <1>2

\* A client whose process ends.
LEMMA DeathStep ==
    ASSUME DataOK, NEW t \in Sessions, ProcessEnds(t)
    PROVE  \A s \in Sessions : UpStep(s)
<1>1. CASE t \in cConn
    <2>1. Request(t, "EOF", "")
        BY <1>1 DEF ProcessEnds, Request
    <2> QED
        BY <2>1, RequestStep DEF Requests, Statuses
<1>2. CASE t \notin cConn
    BY <1>2 DEF ProcessEnds, UpStep, DataOK
<1> QED
    BY <1>1, <1>2

\* The host takes a packet.
LEMMA ReceiveStep ==
    ASSUME DataOK, NEW t \in Sessions, NEW k, Received(t, k)
    PROVE  \A s \in Sessions : UpStep(s)
BY DEF DataOK, Received, UpStep

\* Every step treats the packets on their way to the host in one of these ways.
LEMMA UpSteps ==
    ASSUME DataOK, Next
    PROVE  \A s \in Sessions : UpStep(s)
<1> DEFINE Goal == \A s \in Sessions : UpStep(s)
<1>1. ASSUME NEW t \in Sessions,
             \/ ConnectFails(t) \/ RecvServerNonce(t) \/ PinBoxClosed(t) \/ RecvStarted(t)
             \/ StartPing(t) \/ ReportConnected(t) \/ RunRecv(t) \/ RecvFails(t)
             \/ PingStops(t) \/ JoinRecv(t) \/ JoinPing(t) \/ AnswerStart(t) \/ EnterPin(t)
             \/ ServerRecvFails(t) \/ SendFrame(t)
      PROVE  Goal
    <2>1. up' = up
        BY <1>1 DEF ConnectFails, RecvServerNonce, PinBoxClosed, RecvStarted, StartPing,
           ReportConnected, RunRecv, RecvFails, PingStops, JoinRecv, JoinPing, AnswerStart,
           EnterPin, ServerRecvFails, SendFrame
    <2> QED
        BY <2>1 DEF UpStep
<1>2. ASSUME NEW t \in Sessions, Connect(t) PROVE Goal
    BY <1>2, RequestStep DEF Connect, Requests, Statuses
<1>3. ASSUME NEW t \in Sessions, RecvServerIntro(t) PROVE Goal
    BY <1>3, RequestStep DEF RecvServerIntro, Requests, Statuses
<1>4. ASSUME NEW t \in Sessions, RecvPartialHash(t) PROVE Goal
    <2>1. Request(t, "ClientNonceNotify", t) \/ up' = up
        BY <1>4 DEF RecvPartialHash
    <2> QED
        BY <2>1, RequestStep DEF Requests, UpStep
<1>5. ASSUME NEW t \in Sessions, RecvAuthResponse(t) PROVE Goal
    <2>1. Request(t, "QueryHostCapsRequest", "") \/ up' = up
        BY <1>5 DEF RecvAuthResponse
    <2> QED
        BY <2>1, RequestStep DEF Requests, Statuses, UpStep
<1>6. ASSUME NEW t \in Sessions, RecvHostCaps(t) PROVE Goal
    BY <1>6, RequestStep DEF RecvHostCaps, Requests, Statuses
<1>7. ASSUME NEW t \in Sessions, RecvConfigured(t) PROVE Goal
    BY <1>7, RequestStep DEF RecvConfigured, Requests, Statuses
<1>8. ASSUME NEW t \in Sessions, RecvUnexpected(t) \/ Killed(t) PROVE Goal
    BY <1>8, DeathStep DEF RecvUnexpected, Abort, Killed
<1>9. ASSUME NEW t \in Sessions, Ping(t) PROVE Goal
    <2>1. Request(t, "PingRequest", "") \/ up' = up
        BY <1>9 DEF Ping
    <2> QED
        BY <2>1, RequestStep DEF Requests, Statuses, UpStep
<1>10. ASSUME NEW t \in Sessions, UserCloses(t) \/ CloseLater(t) PROVE Goal
    BY <1>10, CloseStep DEF UserCloses, CloseLater
<1>11. ASSUME NEW t \in Sessions, NetFails(t) \/ Leave(t) PROVE Goal
    <2>1. up' = [up EXCEPT ![t] = <<>>]
        BY <1>11 DEF NetFails, Leave
    <2> QED
        BY <2>1 DEF UpStep, DataOK
<1>12. ASSUME NEW t \in Sessions,
             \/ ClientIntro(t) \/ PingRequest(t) \/ QueryHostCaps(t) \/ ConfigureStream(t)
             \/ StartStream(t) \/ AuthRequest(t) \/ ClientNonce(t)
      PROVE  Goal
    <2>1. \E k \in Requests : Received(t, k)
        BY <1>12 DEF ClientIntro, PingRequest, QueryHostCaps, ConfigureStream, StartStream,
           AuthRequest, ClientNonce, Requests
    <2> QED
        BY <2>1, ReceiveStep
<1>13. CASE BroadcastBegin
    BY <1>13 DEF BroadcastBegin, UpStep
<1> QED
    BY <1>1, <1>2, <1>3, <1>4, <1>5, <1>6, <1>7, <1>8, <1>9, <1>10, <1>11, <1>12, <1>13
       DEF Next, RecvThread, Window, Handler

\* What a step may do to authState, to the PIN that is displayed, and to what the
\* operator has typed; a client only becomes known when its own PIN is typed.
LEMMA PinSteps ==
    ASSUME DataOK, Pinned, Next
    PROVE  /\ \A s \in Sessions : authState'[s] \in {NoNonce, s}
           /\ \A s \in Sessions : displayed'[s] # displayed[s] =>
                \E v \in Sessions \cup Statuses : displayed'[s] = <<v, s>>
           /\ typed \subseteq typed'
           /\ \A c \in known' \ known : \E s \in typed' : Owner[s] = c
<1> DEFINE Auth == \A s \in Sessions : authState'[s] \in {NoNonce, s}
           Pins == \A s \in Sessions : displayed'[s] # displayed[s] =>
                        \E v \in Sessions \cup Statuses : displayed'[s] = <<v, s>>
           Same == UNCHANGED <<displayed, typed, known>>
<1>1. \A s \in Sessions : authState[s] \in {NoNonce, s}
    BY DEF Pinned, PinOK
<1>2. ASSUME NEW t \in Sessions,
             \/ Connect(t) \/ ConnectFails(t) \/ RecvServerIntro(t) \/ RecvPartialHash(t)
             \/ PinBoxClosed(t) \/ RecvAuthResponse(t) \/ RecvHostCaps(t)
             \/ RecvConfigured(t) \/ RecvStarted(t) \/ RecvUnexpected(t) \/ StartPing(t)
             \/ ReportConnected(t) \/ RunRecv(t) \/ RecvFails(t)
      PROVE  Auth /\ Same
    <2>1. authState' = authState /\ Same
        BY <1>2 DEF Connect, ConnectFails, RecvServerIntro, RecvPartialHash, PinBoxClosed,
           RecvAuthResponse, RecvHostCaps, RecvConfigured, RecvStarted, RecvUnexpected,
           StartPing, ReportConnected, RunRecv, RecvFails, clientVars, serverVars
    <2> QED
        BY <1>1, <2>1
<1>3. ASSUME NEW t \in Sessions,
             \/ Ping(t) \/ PingStops(t) \/ UserCloses(t) \/ CloseLater(t) \/ JoinRecv(t)
             \/ JoinPing(t) \/ NetFails(t) \/ AnswerStart(t) \/ ClientNonce(t)
             \/ ServerRecvFails(t) \/ Leave(t) \/ Killed(t) \/ SendFrame(t)
      PROVE  Auth /\ Same
    <2>1. authState' = authState /\ Same
        BY <1>3 DEF Ping, PingStops, UserCloses, CloseLater, JoinRecv, JoinPing, NetFails,
           AnswerStart, ClientNonce, ServerRecvFails, Leave, Killed, SendFrame, clientVars,
           serverVars
    <2> QED
        BY <1>1, <2>1
<1>4. ASSUME NEW t \in Sessions,
             \/ ClientIntro(t) \/ PingRequest(t) \/ QueryHostCaps(t) \/ ConfigureStream(t)
             \/ StartStream(t)
      PROVE  Auth /\ Same
    <2>1. ForgetAuth(t) /\ Same
        BY <1>4 DEF ClientIntro, PingRequest, QueryHostCaps, ConfigureStream, StartStream,
           clientVars
    <2> QED
        BY <1>1, <2>1 DEF ForgetAuth, DataOK
<1>5. ASSUME NEW t \in Sessions, AuthRequest(t) PROVE Auth /\ Same
    <2>1. up[t] # <<>> /\ Head(up[t]).kind = "AuthRequest"
        BY <1>5 DEF AuthRequest, Received
    <2>2. Head(up[t]) = up[t][1] /\ 1 \in DOMAIN up[t]
        BY <2>1 DEF DataOK
    <2>3. Head(up[t]).val = t
        BY <2>1, <2>2 DEF Pinned, PinOK
    <2>4. authState' = [authState EXCEPT ![t] = t] /\ Same
        BY <1>5, <2>3 DEF AuthRequest, clientVars
    <2> QED
        BY <1>1, <2>4 DEF DataOK
<1>6. ASSUME NEW t \in Sessions, RecvServerNonce(t)
      PROVE  Auth /\ Pins /\ typed' = typed /\ known' = known
    <2>1. authState' = authState /\ typed' = typed /\ known' = known
        BY <1>6 DEF RecvServerNonce, serverVars
    <2>2. down[t] # <<>> /\ Head(down[t]).val \in Sessions \cup Statuses
        BY <1>6, ClientQueues DEF RecvServerNonce, Arrived, DownPackets
    <2>3. \/ displayed' = [displayed EXCEPT ![t] = <<Head(down[t]).val, t>>]
          \/ displayed' = displayed
        BY <1>6 DEF RecvServerNonce, ComputePin
    <2>4. Pins
        BY <2>2, <2>3 DEF DataOK
    <2> QED
        BY <1>1, <2>1, <2>4
<1>7. ASSUME NEW t \in Sessions, EnterPin(t)
      PROVE  /\ Auth /\ displayed' = displayed /\ typed \subseteq typed'
             /\ \A c \in known' \ known : \E s \in typed' : Owner[s] = c
    <2>1. authState' = authState /\ displayed' = displayed /\ typed \subseteq typed'
        BY <1>7 DEF EnterPin, clientVars
    <2>2. PICK pin \in Typable :
            /\ typed' = typed \cup {x \in Sessions : displayed[x] = pin /\ pin # NoPin}
            /\ \/ pin = ComputePin(t, authState[t]) /\ known' = known \cup {Owner[t]}
               \/ known' = known
        BY <1>7 DEF EnterPin
    <2>3. ASSUME pin = ComputePin(t, authState[t]) PROVE t \in typed'
        <3>1. PICK x \in Sessions : displayed[x] = <<t, authState[t]>>
            BY <2>2, <2>3 DEF Typable, ComputePin
        <3>2. displayed[x] # NoPin
            BY <1>1, <3>1, NoPinAssumption
        <3>3. PICK v \in Sessions \cup Statuses : displayed[x] = <<v, x>>
            BY <3>2 DEF Pinned, PinOK
        <3>4. x = authState[t]
            BY <3>1, <3>3
        <3>5. x = t
            BY <1>1, <3>4, NoNonceAssumption
        <3> QED
            BY <2>2, <2>3, <3>1, <3>2, <3>5 DEF ComputePin
    <2> QED
        BY <1>1, <2>1, <2>2, <2>3
<1>8. CASE BroadcastBegin
    BY <1>1, <1>8 DEF BroadcastBegin, clientVars
<1>9. ASSUME NEW t \in Sessions,
             \/ Connect(t) \/ ConnectFails(t) \/ RecvThread(t) \/ Ping(t) \/ PingStops(t)
             \/ UserCloses(t) \/ Window(t) \/ NetFails(t) \/ Killed(t) \/ SendFrame(t)
             \/ Handler(t)
      PROVE  \/ Auth /\ Same
             \/ RecvServerNonce(t)
             \/ EnterPin(t)
    BY <1>2, <1>3, <1>4, <1>5, <1>9 DEF RecvThread, Window, Handler
<1> QED
    BY <1>6, <1>7, <1>8, <1>9 DEF Next

\* The nonces on their way and the PINs on display stay those of their own sessions.
LEMMA PinStep == DataOK /\ Pinned /\ [Next]_vars => Pinned'
<1> SUFFICES ASSUME DataOK, Pinned, [Next]_vars PROVE Pinned'
    OBVIOUS
<1>1. CASE UNCHANGED vars
    BY <1>1 DEF Pinned, KnownByPin, PinOK, vars, clientVars, serverVars
<1>2. CASE Next
    <2>1. /\ \A s \in Sessions : authState'[s] \in {NoNonce, s}
          /\ \A s \in Sessions : displayed'[s] # displayed[s] =>
                \E v \in Sessions \cup Statuses : displayed'[s] = <<v, s>>
          /\ typed \subseteq typed'
          /\ \A c \in known' \ known : \E s \in typed' : Owner[s] = c
        BY <1>2, PinSteps
    <2>2. ASSUME NEW s \in Sessions
          PROVE  \A i \in DOMAIN up'[s] : up'[s][i].kind = "AuthRequest" => up'[s][i].val = s
        <3>1. /\ up[s] \in Seq(UpPackets)
              /\ \A i \in DOMAIN up[s] : up[s][i].kind = "AuthRequest" => up[s][i].val = s
            BY DEF DataOK, Pinned, PinOK
        <3>2. CASE up[s] # <<>> /\ up'[s] = Tail(up[s])
            <4>1. \A i \in DOMAIN up'[s] : i + 1 \in DOMAIN up[s] /\ up'[s][i] = up[s][i + 1]
                BY <3>1, <3>2
            <4> QED
                BY <3>1, <4>1
        <3>3. ASSUME NEW p \in UpPackets, up'[s] = Append(up[s], p),
                     p.kind = "AuthRequest" => p.val = s
              PROVE  \A i \in DOMAIN up'[s] : up'[s][i].kind = "AuthRequest" => up'[s][i].val = s
            <4>1. \A i \in DOMAIN up'[s] :
                      up'[s][i] = p \/ (i \in DOMAIN up[s] /\ up'[s][i] = up[s][i])
                BY <3>1, <3>3
            <4> QED
                BY <3>1, <3>3, <4>1
        <3> QED
            BY <1>2, <3>1, <3>2, <3>3, UpSteps DEF UpStep
    <2>3. ASSUME NEW s \in Sessions PROVE PinOK(s)'
        <3>1. displayed[s] # NoPin => \E v \in Sessions \cup Statuses : displayed[s] = <<v, s>>
            BY DEF Pinned, PinOK
        <3> QED
            BY <2>1, <2>2, <3>1 DEF PinOK
    <2>4. KnownByPin'
        BY <2>1 DEF Pinned, KnownByPin
    <2> QED
        BY <2>3, <2>4 DEF Pinned
<1> QED
    BY <1>1, <1>2
-----------------------------------------------------------------------------
(* What is on its way while the client negotiates.                         *)

\* Nothing but broadcast packets; these and at most one answer out of ans; these, fst
\* and then one answer out of snd, or a part of that.
Quiet(q) == \A i \in DOMAIN q : q[i].kind = "Frame"

One(q, ans) ==
    /\ \A i \in DOMAIN q : q[i].kind = "Frame" \/ q[i] \in ans
    /\ \A i, j \in DOMAIN q : q[i].kind # "Frame" /\ q[j].kind # "Frame" => i = j

Two(q, fst, snd) ==
    /\ \A i \in DOMAIN q : q[i].kind = "Frame" \/ q[i] = fst \/ q[i] \in snd
    /\ \A i, j \in DOMAIN q :
            i < j /\ q[i].kind # "Frame" /\ q[j].kind # "Frame" => q[i] = fst /\ q[j] \in snd

\* Silence is a special case of one answer.
LEMMA QuietOne ==
    ASSUME NEW q, NEW ans, Quiet(q)
    PROVE  One(q, ans)
BY DEF Quiet, One

\* One answer out of fewer.
LEMMA OneOfMore ==
    ASSUME NEW q, NEW ans, NEW more, ans \subseteq more, One(q, ans)
    PROVE  One(q, more)
BY DEF One

\* What a sequence holds that got one more packet, and one whose first was taken.
LEMMA Elements ==
    ASSUME NEW q \in Seq(DownPackets)
    PROVE  /\ \A p \in DownPackets : \A i \in DOMAIN Append(q, p) :
                \/ i \in DOMAIN q /\ Append(q, p)[i] = q[i]
                \/ i = Len(q) + 1 /\ i \notin DOMAIN q /\ Append(q, p)[i] = p
           /\ q # <<>> => /\ Head(q) = q[1] /\ 1 \in DOMAIN q
                          /\ \A i \in DOMAIN Tail(q) : /\ i + 1 \in DOMAIN q /\ i + 1 # 1
                                                       /\ Tail(q)[i] = q[i + 1]
OBVIOUS

\* The answer to the request of a client that heard nothing else.
LEMMA AnswerQuiet ==
    ASSUME NEW q \in Seq(DownPackets), NEW p \in DownPackets, NEW ans, p \in ans, Quiet(q)
    PROVE  One(Append(q, p), ans)
<1>1. \A i \in DOMAIN Append(q, p) :
        \/ i \in DOMAIN q /\ Append(q, p)[i] = q[i]
        \/ i = Len(q) + 1 /\ Append(q, p)[i] = p
    BY Elements
<1> QED
    BY <1>1 DEF Quiet, One

\* The verdict after the host's nonce, taken or not.
LEMMA AnswerOne ==
    ASSUME NEW q \in Seq(DownPackets), NEW p \in DownPackets, NEW fst, NEW snd, p \in snd,
           One(q, {fst})
    PROVE  Two(Append(q, p), fst, snd)
<1>1. \A i \in DOMAIN Append(q, p) :
        \/ i \in DOMAIN q /\ Append(q, p)[i] = q[i]
        \/ i = Len(q) + 1 /\ Append(q, p)[i] = p
    BY Elements
<1>2. \A i \in DOMAIN q : i \in Nat /\ i < Len(q) + 1
    OBVIOUS
<1> QED
    BY <1>1, <1>2 DEF One, Two

\* A broadcast packet changes nothing of this.
LEMMA FrameMore ==
    ASSUME NEW q \in Seq(DownPackets), NEW p \in DownPackets, p.kind = "Frame"
    PROVE  /\ Quiet(q) => Quiet(Append(q, p))
           /\ \A ans : One(q, ans) => One(Append(q, p), ans)
           /\ \A fst, snd : Two(q, fst, snd) => Two(Append(q, p), fst, snd)
<1>1. \A i \in DOMAIN Append(q, p) :
        \/ i \in DOMAIN q /\ Append(q, p)[i] = q[i]
        \/ i = Len(q) + 1 /\ Append(q, p)[i] = p
    BY Elements
<1>2. Quiet(q) => Quiet(Append(q, p))
    BY <1>1 DEF Quiet
<1>3. \A ans : One(q, ans) => One(Append(q, p), ans)
    BY <1>1 DEF One
<1>4. \A fst, snd : Two(q, fst, snd) => Two(Append(q, p), fst, snd)
    BY <1>1 DEF Two
<1> QED
    BY <1>2, <1>3, <1>4

\* The first packet, when the client hears nothing but broadcasts.
LEMMA QuietHead ==
    ASSUME NEW q \in Seq(DownPackets), q # <<>>, Quiet(q)
    PROVE  Head(q).kind = "Frame"
BY Elements DEF Quiet

\* The client takes the only answer.
LEMMA TakeOne ==
    ASSUME NEW q \in Seq(DownPackets), NEW ans, q # <<>>, One(q, ans), Head(q).kind # "Frame"
    PROVE  Head(q) \in ans /\ Quiet(Tail(q))
BY Elements DEF One, Quiet

\* The client takes the first of two answers.
LEMMA TakeFirst ==
    ASSUME NEW q \in Seq(DownPackets), NEW fst, NEW snd, q # <<>>, Two(q, fst, snd),
           Head(q).kind # "Frame", Head(q) = fst, fst \notin snd
    PROVE  One(Tail(q), snd)
<1>1. /\ Head(q) = q[1] /\ 1 \in DOMAIN q
      /\ \A i \in DOMAIN Tail(q) : i + 1 \in DOMAIN q /\ Tail(q)[i] = q[i + 1]
    BY Elements
<1>2. \A i \in DOMAIN Tail(q) : i \in Nat /\ 1 < i + 1
    OBVIOUS
<1>3. \A i \in DOMAIN Tail(q) : Tail(q)[i].kind # "Frame" => Tail(q)[i] \in snd
    BY <1>1, <1>2 DEF Two
<1>4. ASSUME NEW i \in DOMAIN Tail(q), NEW j \in DOMAIN Tail(q), i < j,
             Tail(q)[i].kind # "Frame", Tail(q)[j].kind # "Frame"
      PROVE  FALSE
    <2>1. q[i + 1] = fst
        BY <1>1, <1>2, <1>4 DEF Two
    <2> QED
        BY <1>1, <1>3, <1>4, <2>1
<1> QED
    BY <1>2, <1>3, <1>4 DEF One
-----------------------------------------------------------------------------
(* Requests and answers are in step.                                       *)

Waiting == {"intro", "partialHash", "nonce", "pinBox", "authResponse", "caps", "configure",
            "start"}
Early   == {"unborn", "intro", "partialHash", "nonce", "pinBox", "authResponse", "caps",
            "configure"}

HostNonce(s) == Packet("ServerNonceNotify", s)
Verdicts     == {Packet("AuthResponse", "OK"), Packet("AuthResponse", "INCORRECT_PIN")}

\* The thread of the Connection is not busy with a request it has taken.
Free(s) == sPc[s] \notin {"pin", "starting", "hung"}

\* The request is on its way and the client hears nothing but broadcasts, or it is
\* not and there is one answer, or none (not yet, or lost, or refused).
Exchange(s, req, ans) ==
    /\ Free(s)
    /\ \/ up[s] = <<req>> /\ Quiet(down[s])
       \/ up[s] = <<>> /\ One(down[s], ans)

\* The same while the host's thread waits for a PIN or starts the stream.
Busy(s, pc, ans) == sPc[s] = pc /\ up[s] = <<>> /\ One(down[s], ans)

AtIntro(s) ==
    Exchange(s, Packet("ClientIntro", ""),
             {Packet("ServerIntro", "AUTH_REQUIRED"), Packet("ServerIntro", "OK")})
AtHash(s) ==
    Exchange(s, Packet("AuthRequest", s), {Packet("ServerPartialHashNotify", s)})
AtNonce(s) ==
    \/ Exchange(s, Packet("ClientNonceNotify", s),
                {Packet("AuthResponse", "UNKNOWN_ERROR"), HostNonce(s)})
    \/ Busy(s, "pin", {HostNonce(s)})
    \/ Free(s) /\ up[s] = <<>> /\ Two(down[s], HostNonce(s), Verdicts)
AtPin(s) ==
    /\ up[s] = <<>>
    /\ \/ sPc[s] = "pin" /\ Quiet(down[s])
       \/ Free(s) /\ One(down[s], Verdicts)
AtCaps(s) ==
    Exchange(s, Packet("QueryHostCapsRequest", ""), {Packet("QueryHostCapsResponse", "OK")})
AtConfigure(s) ==
    Exchange(s, Packet("ConfigureStreamRequest", ""),
             {Packet("ConfigureStreamResponse", "OK")})
AtStart(s) ==
    \/ Exchange(s, Packet("StartStreamRequest", ""),
                {Packet("StartStreamResponse", "OK"), Packet("StartStreamResponse", "UNKNOWN")})
    \/ sPc[s] \in {"starting", "hung"} /\ up[s] = <<>> /\ Quiet(down[s])

Talk(s) ==
    /\ cPc[s] = "intro" => AtIntro(s)
    /\ cPc[s] = "partialHash" => AtHash(s)
    /\ cPc[s] = "nonce" => AtNonce(s)
    /\ cPc[s] \in {"pinBox", "authResponse"} => AtPin(s)
    /\ cPc[s] = "caps" => AtCaps(s)
    /\ cPc[s] = "configure" => AtConfigure(s)
    /\ cPc[s] = "start" => AtStart(s)

\* Where the threads of a session can be, and what they have done.
Stage(s) ==
    /\ cPc[s] = "unborn" => up[s] = <<>> /\ down[s] = <<>> /\ sPc[s] = "unborn"
    /\ cPc[s] \in Waiting \cup {"unborn", "online"} =>
            pingPc[s] = "off" /\ uiPc[s] = "hidden" /\ s \notin closing
    /\ cPc[s] \in Waiting => s \in cConn
    /\ cPc[s] \in {"unborn", "aborted"} => s \notin cConn
    /\ s \in sStreaming => cPc[s] \notin Early
    /\ cPc[s] \in {"caps", "configure", "start"} => s \in authorized
    /\ cPc[s] = "aborted" =>
            uiPc[s] = "gone" /\ down[s] # <<>> /\ Head(down[s]).kind = "Frame"

InStep == \A s \in Sessions : Stage(s) /\ Talk(s)

\* A step that changes nothing of the session s.
Elsewhere(s) ==
    /\ cPc'[s] = cPc[s] /\ pingPc'[s] = pingPc[s] /\ uiPc'[s] = uiPc[s] /\ sPc'[s] = sPc[s]
    /\ up'[s] = up[s] /\ down'[s] = down[s]
    /\ (s \in cConn' <=> s \in cConn) /\ (s \in closing' <=> s \in closing)
    /\ (s \in authorized' <=> s \in authorized) /\ (s \in sStreaming' <=> s \in sStreaming)

\* It keeps the session in step.
LEMMA ElsewhereStep ==
    ASSUME NEW s \in Sessions, Stage(s), Talk(s), Elsewhere(s)
    PROVE  Stage(s)' /\ Talk(s)'
<1>1. Stage(s)'
    BY DEF Stage, Elsewhere
<1>2. Talk(s)'
    <2>1. /\ AtIntro(s)' = AtIntro(s) /\ AtHash(s)' = AtHash(s) /\ AtCaps(s)' = AtCaps(s)
          /\ AtConfigure(s)' = AtConfigure(s)
        BY DEF AtIntro, AtHash, AtCaps, AtConfigure, Exchange, Free, Elsewhere
    <2>2. /\ AtNonce(s)' = AtNonce(s) /\ AtPin(s)' = AtPin(s) /\ AtStart(s)' = AtStart(s)
        BY DEF AtNonce, AtPin, AtStart, Exchange, Busy, Free, Elsewhere, HostNonce
    <2> QED
        BY <2>1, <2>2 DEF Talk, Elsewhere
<1> QED
    BY <1>1, <1>2

\* The queues of a session after a step of its own.
LEMMA OwnQueues ==
    ASSUME DataOK, NEW s \in Sessions
    PROVE  /\ up[s] \in Seq(UpPackets) /\ down[s] \in Seq(DownPackets)
           /\ \A k, v : Request(s, k, v) => up'[s] = Append(up[s], Packet(k, v))
           /\ Take(s) => down'[s] = Tail(down[s])
           /\ \A k : Received(s, k) => up'[s] = Tail(up[s])
           /\ \A k, v : ServerSend(s, k, v) =>
                \/ down'[s] = down[s]
                \/ s \in cConn /\ down'[s] = Append(down[s], Packet(k, v))
<1>1. up[s] \in Seq(UpPackets) /\ down[s] \in Seq(DownPackets)
    BY DEF DataOK
<1>2. \A k, v : Request(s, k, v) => up'[s] = Append(up[s], Packet(k, v))
    BY DEF DataOK, Request
<1>3. Take(s) => down'[s] = Tail(down[s])
    BY DEF DataOK, Take
<1>4. \A k : Received(s, k) => up'[s] = Tail(up[s])
    BY DEF DataOK, Received
<1>5. \A k, v : ServerSend(s, k, v) =>
                \/ down'[s] = down[s]
                \/ s \in cConn /\ down'[s] = Append(down[s], Packet(k, v))
    BY DEF DataOK, ServerSend, Reaches
<1> QED
    BY <1>1, <1>2, <1>3, <1>4, <1>5

\* The parts of a step of session t leave those of session s alone.
LEMMA Others ==
    ASSUME DataOK, NEW t \in Sessions, NEW s \in Sessions \ {t}
    PROVE  /\ \A pc : CGoto(t, pc) => cPc'[s] = cPc[s]
           /\ \A pc : SGoto(t, pc) => sPc'[s] = sPc[s]
           /\ \A k, v : Request(t, k, v) => up'[s] = up[s]
           /\ Take(t) => down'[s] = down[s]
           /\ \A k : Received(t, k) => up'[s] = up[s]
           /\ \A k, v : ServerSend(t, k, v) => down'[s] = down[s]
           /\ Disconnect(t) => up'[s] = up[s] /\ (s \in cConn' <=> s \in cConn)
           /\ ProcessEnds(t) => /\ up'[s] = up[s] /\ (s \in cConn' <=> s \in cConn)
                                /\ pingPc'[s] = pingPc[s] /\ uiPc'[s] = uiPc[s]
<1>1. \A pc : CGoto(t, pc) => cPc'[s] = cPc[s]
    BY DEF DataOK, CGoto
<1>2. \A pc : SGoto(t, pc) => sPc'[s] = sPc[s]
    BY DEF DataOK, SGoto
<1>3. \A k, v : Request(t, k, v) => up'[s] = up[s]
    BY DEF DataOK, Request
<1>4. Take(t) => down'[s] = down[s]
    BY DEF DataOK, Take
<1>5. \A k : Received(t, k) => up'[s] = up[s]
    BY DEF DataOK, Received
<1>6. \A k, v : ServerSend(t, k, v) => down'[s] = down[s]
    BY DEF DataOK, ServerSend
<1>7. Disconnect(t) => up'[s] = up[s] /\ (s \in cConn' <=> s \in cConn)
    BY DEF DataOK, Disconnect
<1>8. ProcessEnds(t) => /\ up'[s] = up[s] /\ (s \in cConn' <=> s \in cConn)
                        /\ pingPc'[s] = pingPc[s] /\ uiPc'[s] = uiPc[s]
    BY DEF DataOK, ProcessEnds
<1> QED
    BY <1>1, <1>2, <1>3, <1>4, <1>5, <1>6, <1>7, <1>8

\* A step of session t is elsewhere for every other session.
LEMMA Locality ==
    ASSUME DataOK, NEW t \in Sessions, NEW s \in Sessions \ {t},
           \/ Connect(t) \/ ConnectFails(t) \/ RecvThread(t) \/ Ping(t) \/ PingStops(t)
           \/ UserCloses(t) \/ Window(t) \/ NetFails(t) \/ Killed(t) \/ SendFrame(t)
           \/ Handler(t)
    PROVE  Elsewhere(s)
<1>1. CASE Connect(t)
    BY <1>1, Others DEF Elsewhere, Connect
<1>2. CASE ConnectFails(t)
    BY <1>2, Others DEF Elsewhere, ConnectFails
<1>3. CASE RecvServerIntro(t)
    BY <1>3, Others DEF Elsewhere, RecvServerIntro, serverVars
<1>4. CASE RecvPartialHash(t)
    BY <1>4, Others DEF Elsewhere, RecvPartialHash, IntroFails, serverVars
<1>5. CASE RecvServerNonce(t)
    BY <1>5, Others DEF Elsewhere, RecvServerNonce, IntroFails, serverVars
<1>6. CASE PinBoxClosed(t)
    BY <1>6, Others DEF Elsewhere, PinBoxClosed, serverVars
<1>7. CASE RecvAuthResponse(t)
    BY <1>7, Others DEF Elsewhere, RecvAuthResponse, IntroFails, serverVars
<1>8. CASE RecvHostCaps(t)
    BY <1>8, Others DEF Elsewhere, RecvHostCaps, serverVars
<1>9. CASE RecvConfigured(t)
    BY <1>9, Others DEF Elsewhere, RecvConfigured, serverVars
<1>10. CASE RecvStarted(t)
    BY <1>10, Others DEF Elsewhere, RecvStarted, IntroFails, serverVars
<1>11. CASE RecvUnexpected(t)
    BY <1>11, Others DEF Elsewhere, RecvUnexpected, Abort, serverVars
<1>12. CASE StartPing(t)
    BY <1>12, Others DEF Elsewhere, StartPing, serverVars, DataOK
<1>13. CASE ReportConnected(t)
    BY <1>13, Others DEF Elsewhere, ReportConnected, serverVars, DataOK
<1>14. CASE RunRecv(t)
    BY <1>14, Others DEF Elsewhere, RunRecv, clientVars, serverVars
<1>15. CASE RecvFails(t)
    BY <1>15, Others DEF Elsewhere, RecvFails, serverVars
<1>16. CASE Ping(t)
    BY <1>16, Others DEF Elsewhere, Ping, serverVars
<1>17. CASE PingStops(t)
    BY <1>17, Others DEF Elsewhere, PingStops, serverVars, DataOK
<1>18. CASE UserCloses(t)
    BY <1>18, Others DEF Elsewhere, UserCloses, serverVars, DataOK
<1>19. CASE CloseLater(t)
    BY <1>19, Others DEF Elsewhere, CloseLater, serverVars, DataOK
<1>20. CASE JoinRecv(t)
    BY <1>20, Others DEF Elsewhere, JoinRecv, serverVars, DataOK
<1>21. CASE JoinPing(t)
    BY <1>21, Others DEF Elsewhere, JoinPing, serverVars, DataOK
<1>22. CASE NetFails(t)
    BY <1>22, Others DEF Elsewhere, NetFails, clientVars, serverVars, DataOK
<1>23. CASE ClientIntro(t)
    BY <1>23, Others DEF Elsewhere, ClientIntro, clientVars
<1>24. CASE PingRequest(t)
    BY <1>24, Others DEF Elsewhere, PingRequest, clientVars
<1>25. CASE QueryHostCaps(t)
    BY <1>25, Others DEF Elsewhere, QueryHostCaps, clientVars
<1>26. CASE ConfigureStream(t)
    BY <1>26, Others DEF Elsewhere, ConfigureStream, clientVars
<1>27. CASE StartStream(t)
    BY <1>27, Others DEF Elsewhere, StartStream, StartHangs, clientVars
<1>28. CASE AnswerStart(t)
    BY <1>28, Others DEF Elsewhere, AnswerStart, clientVars
<1>29. CASE AuthRequest(t)
    BY <1>29, Others DEF Elsewhere, AuthRequest, clientVars
<1>30. CASE ClientNonce(t)
    BY <1>30, Others DEF Elsewhere, ClientNonce, clientVars
<1>31. CASE EnterPin(t)
    BY <1>31, Others DEF Elsewhere, EnterPin, clientVars
<1>32. CASE ServerRecvFails(t)
    BY <1>32, Others DEF Elsewhere, ServerRecvFails, clientVars
<1>33. CASE Leave(t)
    BY <1>33, Others DEF Elsewhere, Leave, clientVars, DataOK
<1>34. CASE Killed(t)
    BY <1>34, Others DEF Elsewhere, Killed, serverVars, DataOK
<1>35. CASE SendFrame(t)
    BY <1>35, Others DEF Elsewhere, SendFrame, clientVars
<1> QED
    BY <1>1, <1>2, <1>3, <1>4, <1>5, <1>6, <1>7, <1>8, <1>9, <1>10, <1>11, <1>12, <1>13, <1>14, <1>15, <1>16, <1>17, <1>18, <1>19, <1>20, <1>21, <1>22, <1>23, <1>24, <1>25, <1>26, <1>27, <1>28, <1>29, <1>30, <1>31, <1>32, <1>33, <1>34, <1>35
       DEF RecvThread, Window, Handler

\* The client hears something else than a broadcast packet: it is the answer.
LEMMA TakeAnswer ==
    ASSUME DataOK, NEW s \in Sessions, NEW req, NEW ans, Exchange(s, req, ans), Arrived(s),
           Take(s), Head(down[s]).kind # "Frame"
    PROVE  /\ Free(s) /\ up[s] = <<>> /\ Head(down[s]) \in ans /\ Quiet(down'[s])
<1>1. /\ down[s] \in Seq(DownPackets) /\ down[s] # <<>>
      /\ down'[s] = Tail(down[s])
    BY OwnQueues DEF Arrived
<1>2. ~Quiet(down[s])
    BY <1>1, QuietHead
<1>3. Free(s) /\ up[s] = <<>> /\ One(down[s], ans)
    BY <1>2 DEF Exchange
<1> QED
    BY <1>1, <1>3, TakeOne

\* The client sends its next request.
LEMMA NextRequest ==
    ASSUME DataOK, NEW s \in Sessions, NEW k, NEW v, NEW ans, NEW req, Request(s, k, v),
           req = Packet(k, v), Free(s), sPc'[s] = sPc[s], up[s] = <<>>, Quiet(down'[s])
    PROVE  Exchange(s, req, ans)'
<1>1. up'[s] = <<req>>
    BY OwnQueues
<1> QED
    BY <1>1 DEF Exchange, Free

\* The host answers a client that hears nothing but broadcasts, or fails to.
LEMMA Reply ==
    ASSUME DataOK, NEW s \in Sessions, NEW k \in Answers, NEW v \in Sessions \cup Statuses,
           NEW ans, NEW req, ServerSend(s, k, v), \E p \in ans : p = Packet(k, v),
           Quiet(down[s]), up'[s] = <<>>, Free(s)'
    PROVE  Exchange(s, req, ans)'
<1>1. PICK p \in ans : p = Packet(k, v)
    OBVIOUS
<1>2. p \in DownPackets
    BY <1>1, PacketTypes
<1>3. down'[s] = down[s] \/ down'[s] = Append(down[s], p)
    BY <1>1, OwnQueues
<1>4. One(down'[s], ans)
    <2>1. down[s] \in Seq(DownPackets)
        BY OwnQueues
    <2> QED
        BY <1>2, <1>3, <2>1, QuietOne, AnswerQuiet
<1> QED
    BY <1>4 DEF Exchange

\* What the host takes from a client that waits is the request it waits for.
LEMMA Turn ==
    ASSUME DataOK, NEW s \in Sessions, Stage(s), Talk(s), NEW k, Received(s, k)
    PROVE  /\ cPc[s] # "unborn"
           /\ cPc[s] \in Waiting =>
                /\ up'[s] = <<>> /\ Quiet(down[s])
                /\ \/ cPc[s] = "intro" /\ k = "ClientIntro"
                   \/ cPc[s] = "partialHash" /\ k = "AuthRequest"
                   \/ cPc[s] = "nonce" /\ k = "ClientNonceNotify"
                   \/ cPc[s] = "caps" /\ k = "QueryHostCapsRequest"
                   \/ cPc[s] = "configure" /\ k = "ConfigureStreamRequest"
                   \/ cPc[s] = "start" /\ k = "StartStreamRequest"
<1>1. up[s] # <<>> /\ Head(up[s]).kind = k /\ up'[s] = Tail(up[s])
    BY OwnQueues DEF Received
<1>2. ASSUME NEW l, NEW v, NEW ans, Exchange(s, Packet(l, v), ans)
      PROVE  up'[s] = <<>> /\ Quiet(down[s]) /\ k = l
    <2>1. up[s] = <<Packet(l, v)>> /\ Quiet(down[s])
        BY <1>1, <1>2 DEF Exchange
    <2> QED
        BY <1>1, <2>1, PacketFields
<1>3. cPc[s] # "unborn"
    BY <1>1 DEF Stage
<1>4. CASE cPc[s] = "intro"
    BY <1>2, <1>3, <1>4 DEF Talk, AtIntro
<1>5. CASE cPc[s] = "partialHash"
    BY <1>2, <1>3, <1>5 DEF Talk, AtHash
<1>6. CASE cPc[s] = "nonce"
    BY <1>1, <1>2, <1>3, <1>6 DEF Talk, AtNonce, Busy
<1>7. CASE cPc[s] \in {"pinBox", "authResponse"}
    BY <1>1, <1>7 DEF Talk, AtPin
<1>8. CASE cPc[s] = "caps"
    BY <1>2, <1>3, <1>8 DEF Talk, AtCaps
<1>9. CASE cPc[s] = "configure"
    BY <1>2, <1>3, <1>9 DEF Talk, AtConfigure
<1>10. CASE cPc[s] = "start"
    BY <1>1, <1>2, <1>3, <1>10 DEF Talk, AtStart
<1> QED
    BY <1>3, <1>4, <1>5, <1>6, <1>7, <1>8, <1>9, <1>10 DEF Waiting

\* What is lost on its way to the host keeps the client waiting, no more.
LEMMA Lost ==
    ASSUME DataOK, NEW s \in Sessions, Talk(s), cPc'[s] = cPc[s], down'[s] = down[s],
           up'[s] = <<>>, sPc'[s] = sPc[s] \/ (sPc[s] = "loop" /\ sPc'[s] = "gone")
    PROVE  Talk(s)'
<1>1. ASSUME NEW req, NEW ans, Exchange(s, req, ans) PROVE Exchange(s, req, ans)'
    BY <1>1, QuietOne DEF Exchange, Free
<1>2. (AtIntro(s) => AtIntro(s)') /\ (AtCaps(s) => AtCaps(s)')
    BY <1>1 DEF AtIntro, AtCaps
<1>3. (AtHash(s) => AtHash(s)') /\ (AtConfigure(s) => AtConfigure(s)')
    BY <1>1 DEF AtHash, AtConfigure
<1>4. AtNonce(s) => AtNonce(s)'
    BY <1>1 DEF AtNonce, Busy, Free, HostNonce
<1>5. AtPin(s) => AtPin(s)'
    BY DEF AtPin, Free
<1>6. AtStart(s) => AtStart(s)'
    BY <1>1 DEF AtStart
<1> QED
    BY <1>2, <1>3, <1>4, <1>5, <1>6 DEF Talk

\* The first packet of a queue.
LEMMA Single == \A p : Append(<<>>, p) = <<p>>
OBVIOUS

\* The receive thread of the client keeps its session in step.
LEMMA RecvStep ==
    ASSUME DataOK, Pairing, NEW s \in Sessions, Stage(s), Talk(s),
           Connect(s) \/ ConnectFails(s) \/ RecvThread(s)
    PROVE  Stage(s)' /\ Talk(s)'
<1> DEFINE Goal == Stage(s)' /\ Talk(s)'
<1>1. CASE Connect(s)
    <2>1. /\ cPc[s] = "unborn" /\ cPc'[s] = "intro" /\ sPc'[s] = "loop" /\ s \in cConn'
          /\ down'[s] = down[s]
          /\ UNCHANGED <<pingPc, uiPc, closing, sStreaming>>
        BY <1>1 DEF Connect, CGoto, SGoto, DataOK
    <2>2. up[s] = <<>> /\ down[s] = <<>>
        BY <2>1 DEF Stage
    <2>3. up'[s] = <<Packet("ClientIntro", "")>>
        <3>1. up'[s] = Append(up[s], Packet("ClientIntro", ""))
            BY <1>1, OwnQueues DEF Connect
        <3> QED
            BY <2>2, <3>1, Single
    <2>4. Stage(s)'
        BY <2>1 DEF Stage, Waiting, Early
    <2>5. AtIntro(s)'
        <3>1. Quiet(down'[s])
            BY <2>1, <2>2 DEF Quiet
        <3> QED
            BY <2>1, <2>3, <3>1 DEF AtIntro, Exchange, Free
    <2> QED
        BY <2>1, <2>4, <2>5 DEF Talk
<1>2. CASE ConnectFails(s) \/ RecvFails(s)
    <2>1. /\ cPc'[s] = "done"
        BY <1>2 DEF ConnectFails, RecvFails, CGoto, DataOK
    <2> QED
        BY <2>1 DEF Stage, Talk, Waiting, Early
<1>3. CASE RecvServerIntro(s)
    <2>1. /\ cPc[s] = "intro" /\ Arrived(s) /\ Take(s) /\ Head(down[s]).kind = "ServerIntro"
          /\ sPc'[s] = sPc[s]
          /\ UNCHANGED <<pingPc, uiPc, closing, sStreaming, cConn, authorized>>
        BY <1>3 DEF RecvServerIntro, serverVars
    <2>2. /\ Free(s) /\ up[s] = <<>> /\ Quiet(down'[s])
          /\ Head(down[s]) \in {Packet("ServerIntro", "AUTH_REQUIRED"),
                                Packet("ServerIntro", "OK")}
        BY <2>1, TakeAnswer DEF Talk, AtIntro
    <2>3. CASE Request(s, "AuthRequest", s) /\ CGoto(s, "partialHash")
        <3>1. cPc'[s] = "partialHash"
            BY <2>3 DEF CGoto, DataOK
        <3>2. AtHash(s)'
            BY <2>1, <2>2, <2>3, NextRequest DEF AtHash
        <3> QED
            BY <2>1, <3>1, <3>2 DEF Stage, Talk, Waiting, Early
    <2>4. CASE /\ Head(down[s]).val # "AUTH_REQUIRED"
               /\ Request(s, "QueryHostCapsRequest", "") /\ CGoto(s, "caps")
        <3>1. cPc'[s] = "caps"
            BY <2>4 DEF CGoto, DataOK
        <3>2. AtCaps(s)'
            BY <2>1, <2>2, <2>4, NextRequest DEF AtCaps
        <3>3. Head(down[s]) = Packet("ServerIntro", "OK")
            <4>1. Packet("ServerIntro", "AUTH_REQUIRED").val = "AUTH_REQUIRED"
                BY PacketFields
            <4> QED
                BY <2>2, <2>4, <4>1
        <3>4. Head(down[s]) = down[s][1] /\ 1 \in DOMAIN down[s]
            BY <2>1, OwnQueues DEF Arrived
        <3>5. s \in authorized
            BY <3>3, <3>4 DEF Pairing, Granted, Warranted
        <3> QED
            BY <2>1, <3>1, <3>2, <3>5 DEF Stage, Talk, Waiting, Early
    <2> QED
        BY <1>3, <2>3, <2>4 DEF RecvServerIntro
<1>4. CASE RecvPartialHash(s)
    <2>1. /\ cPc[s] = "partialHash" /\ Arrived(s) /\ Take(s) /\ sPc'[s] = sPc[s]
          /\ UNCHANGED <<pingPc, uiPc, sStreaming, cConn>>
        BY <1>4 DEF RecvPartialHash, serverVars
    <2>2. CASE Head(down[s]).kind = "ServerPartialHashNotify"
        <3>1. Request(s, "ClientNonceNotify", s) /\ cPc'[s] = "nonce" /\ closing' = closing
            BY <1>4, <2>2 DEF RecvPartialHash, CGoto, DataOK
        <3>2. Free(s) /\ up[s] = <<>> /\ Quiet(down'[s])
            BY <2>1, <2>2, TakeAnswer DEF Talk, AtHash
        <3>3. AtNonce(s)'
            BY <2>1, <3>1, <3>2, NextRequest DEF AtNonce
        <3> QED
            BY <2>1, <3>1, <3>3 DEF Stage, Talk, Waiting, Early
    <2>3. CASE Head(down[s]).kind # "ServerPartialHashNotify"
        <3>1. cPc'[s] = "done"
            BY <1>4, <2>3 DEF RecvPartialHash, IntroFails, CGoto, DataOK
        <3> QED
            BY <3>1 DEF Stage, Talk, Waiting, Early
    <2> QED
        BY <2>2, <2>3
<1>5. CASE RecvServerNonce(s)
    <2>1. /\ cPc[s] = "nonce" /\ Arrived(s) /\ Take(s) /\ sPc'[s] = sPc[s] /\ up' = up
          /\ UNCHANGED <<pingPc, uiPc, sStreaming, cConn>>
        BY <1>5 DEF RecvServerNonce, serverVars
    <2>2. CASE Head(down[s]).kind = "ServerNonceNotify"
        <3>1. cPc'[s] = "pinBox" /\ closing' = closing
            BY <1>5, <2>2 DEF RecvServerNonce, CGoto, DataOK
        <3>2. /\ down[s] \in Seq(DownPackets) /\ down[s] # <<>>
              /\ down'[s] = Tail(down[s])
            BY <2>1, OwnQueues DEF Arrived
        <3>3. ASSUME Exchange(s, Packet("ClientNonceNotify", s),
                              {Packet("AuthResponse", "UNKNOWN_ERROR"), HostNonce(s)})
              PROVE  AtPin(s)'
            <4>1. Free(s) /\ up[s] = <<>> /\ Quiet(down'[s])
                BY <2>1, <2>2, <3>3, TakeAnswer
            <4> QED
                BY <2>1, <4>1, QuietOne DEF AtPin, Free
        <3>4. ASSUME Busy(s, "pin", {HostNonce(s)}) PROVE AtPin(s)'
            <4>1. Quiet(down'[s])
                BY <2>2, <3>2, <3>4, TakeOne DEF Busy
            <4> QED
                BY <2>1, <3>4, <4>1 DEF AtPin, Busy
        <3>5. ASSUME Free(s), up[s] = <<>>, Two(down[s], HostNonce(s), Verdicts)
              PROVE  AtPin(s)'
            <4>1. HostNonce(s) \notin Verdicts /\ \A p \in Verdicts : p.kind = "AuthResponse"
                BY PacketFields DEF HostNonce, Verdicts
            <4>2. Head(down[s]) = HostNonce(s)
                <5>1. Head(down[s]) = down[s][1] /\ 1 \in DOMAIN down[s]
                    BY <3>2
                <5> QED
                    BY <2>2, <3>5, <4>1, <5>1 DEF Two
            <4>3. One(down'[s], Verdicts)
                BY <2>2, <3>2, <3>5, <4>1, <4>2, TakeFirst
            <4> QED
                BY <2>1, <3>5, <4>3 DEF AtPin, Free
        <3>6. AtPin(s)'
            BY <2>1, <3>3, <3>4, <3>5 DEF Talk, AtNonce
        <3> QED
            BY <2>1, <3>1, <3>6 DEF Stage, Talk, Waiting, Early
    <2>3. CASE Head(down[s]).kind # "ServerNonceNotify"
        <3>1. cPc'[s] = "done"
            BY <1>5, <2>3 DEF RecvServerNonce, IntroFails, CGoto, DataOK
        <3> QED
            BY <3>1 DEF Stage, Talk, Waiting, Early
    <2> QED
        BY <2>2, <2>3
<1>6. CASE PinBoxClosed(s)
    <2>1. /\ cPc[s] = "pinBox" /\ cPc'[s] = "authResponse"
          /\ UNCHANGED <<pingPc, uiPc, closing, sStreaming, cConn, sPc, up, down>>
        BY <1>6 DEF PinBoxClosed, CGoto, DataOK, serverVars
    <2>2. AtPin(s)'
        BY <2>1 DEF Talk, AtPin, Free
    <2> QED
        BY <2>1, <2>2 DEF Stage, Talk, Waiting, Early
<1>7. CASE RecvAuthResponse(s)
    <2>1. /\ cPc[s] = "authResponse" /\ Arrived(s) /\ Take(s) /\ sPc'[s] = sPc[s]
          /\ UNCHANGED <<pingPc, uiPc, sStreaming, cConn, authorized>>
        BY <1>7 DEF RecvAuthResponse, serverVars
    <2>2. CASE Head(down[s]) = Packet("AuthResponse", "OK")
        <3>1. Request(s, "QueryHostCapsRequest", "") /\ cPc'[s] = "caps" /\ closing' = closing
            BY <1>7, <2>2 DEF RecvAuthResponse, CGoto, DataOK
        <3>2. /\ down[s] \in Seq(DownPackets) /\ down[s] # <<>>
              /\ down'[s] = Tail(down[s]) /\ Head(down[s]).kind # "Frame"
            BY <2>1, <2>2, OwnQueues, PacketFields DEF Arrived
        <3>3. ~Quiet(down[s])
            BY <3>2, QuietHead
        <3>4. Free(s) /\ up[s] = <<>> /\ Quiet(down'[s])
            BY <2>1, <3>2, <3>3, TakeOne DEF Talk, AtPin
        <3>5. AtCaps(s)'
            BY <2>1, <3>1, <3>4, NextRequest DEF AtCaps
        <3>6. Head(down[s]) = down[s][1] /\ 1 \in DOMAIN down[s]
            BY <3>2
        <3>7. s \in authorized
            BY <2>2, <3>6 DEF Pairing, Granted, Warranted
        <3> QED
            BY <2>1, <3>1, <3>5, <3>7 DEF Stage, Talk, Waiting, Early
    <2>3. CASE Head(down[s]) # Packet("AuthResponse", "OK")
        <3>1. cPc'[s] = "done"
            BY <1>7, <2>3 DEF RecvAuthResponse, IntroFails, CGoto, DataOK
        <3> QED
            BY <3>1 DEF Stage, Talk, Waiting, Early
    <2> QED
        BY <2>2, <2>3
<1>8. CASE RecvHostCaps(s)
    <2>1. /\ cPc[s] = "caps" /\ Arrived(s) /\ Take(s) /\ sPc'[s] = sPc[s]
          /\ Head(down[s]) = Packet("QueryHostCapsResponse", "OK")
          /\ Request(s, "ConfigureStreamRequest", "") /\ cPc'[s] = "configure"
          /\ UNCHANGED <<pingPc, uiPc, closing, sStreaming, cConn, authorized>>
        BY <1>8 DEF RecvHostCaps, CGoto, DataOK, serverVars
    <2>2. Free(s) /\ up[s] = <<>> /\ Quiet(down'[s])
        <3>1. Head(down[s]).kind # "Frame"
            <4>1. Head(down[s]) = Packet("QueryHostCapsResponse", "OK")
                BY <2>1
            <4> QED
                BY <4>1, PacketFields
        <3> QED
            BY <2>1, <3>1, TakeAnswer DEF Talk, AtCaps
    <2>3. AtConfigure(s)'
        BY <2>1, <2>2, NextRequest DEF AtConfigure
    <2> QED
        BY <2>1, <2>3 DEF Stage, Talk, Waiting, Early
<1>9. CASE RecvConfigured(s)
    <2>1. /\ cPc[s] = "configure" /\ Arrived(s) /\ Take(s) /\ sPc'[s] = sPc[s]
          /\ Head(down[s]) = Packet("ConfigureStreamResponse", "OK")
          /\ Request(s, "StartStreamRequest", "") /\ cPc'[s] = "start"
          /\ UNCHANGED <<pingPc, uiPc, closing, sStreaming, cConn, authorized>>
        BY <1>9 DEF RecvConfigured, CGoto, DataOK, serverVars
    <2>2. Free(s) /\ up[s] = <<>> /\ Quiet(down'[s])
        <3>1. Head(down[s]).kind # "Frame"
            <4>1. Head(down[s]) = Packet("ConfigureStreamResponse", "OK")
                BY <2>1
            <4> QED
                BY <4>1, PacketFields
        <3> QED
            BY <2>1, <3>1, TakeAnswer DEF Talk, AtConfigure
    <2>3. AtStart(s)'
        BY <2>1, <2>2, NextRequest DEF AtStart
    <2> QED
        BY <2>1, <2>3 DEF Stage, Talk, Waiting, Early
<1>10. CASE RecvStarted(s)
    <2>1. /\ cPc[s] = "start" /\ cPc'[s] \in {"online", "done"}
          /\ cPc'[s] = "online" => closing' = closing
          /\ UNCHANGED <<pingPc, uiPc, sStreaming>>
        BY <1>10 DEF RecvStarted, IntroFails, CGoto, DataOK, serverVars
    <2> QED
        BY <2>1 DEF Stage, Talk, Waiting, Early
<1>11. CASE RecvUnexpected(s)
    <2>1. /\ cPc[s] \in {"intro", "caps", "configure", "start"} /\ Arrived(s) /\ ~Expected(s)
          /\ down' = down /\ cPc'[s] = "aborted" /\ s \notin cConn' /\ uiPc'[s] = "gone"
        BY <1>11 DEF RecvUnexpected, Abort, ProcessEnds, CGoto, DataOK
    <2>2. down[s] \in Seq(DownPackets) /\ down[s] # <<>>
        BY <2>1, OwnQueues DEF Arrived
    <2>3. ASSUME NEW req, NEW ans, Exchange(s, req, ans), Head(down[s]).kind # "Frame"
          PROVE  Head(down[s]) \in ans
        BY <2>2, <2>3, QuietHead, TakeOne DEF Exchange
    <2>4. Head(down[s]).kind = "Frame"
        <3> SUFFICES ASSUME Head(down[s]).kind # "Frame" PROVE Expected(s)
            BY <2>1
        <3>1. CASE cPc[s] = "intro"
            <4>1. Head(down[s]) \in {Packet("ServerIntro", "AUTH_REQUIRED"),
                                    Packet("ServerIntro", "OK")}
                BY <2>3, <3>1 DEF Talk, AtIntro
            <4>2. Head(down[s]).kind = "ServerIntro"
                BY <4>1, PacketFields
            <4> QED
                BY <3>1, <4>2 DEF Expected
        <3>2. CASE cPc[s] = "caps"
            BY <2>3, <3>2 DEF Expected, Talk, AtCaps
        <3>3. CASE cPc[s] = "configure"
            BY <2>3, <3>3 DEF Expected, Talk, AtConfigure
        <3>4. CASE cPc[s] = "start"
            <4>1. ~Quiet(down[s])
                BY <2>2, QuietHead
            <4>2. Head(down[s]) \in {Packet("StartStreamResponse", "OK"),
                                    Packet("StartStreamResponse", "UNKNOWN")}
                BY <2>3, <3>4, <4>1 DEF Talk, AtStart
            <4>3. Head(down[s]).kind = "StartStreamResponse"
                BY <4>2, PacketFields
            <4> QED
                BY <3>4, <4>3 DEF Expected
        <3> QED
            BY <2>1, <3>1, <3>2, <3>3, <3>4
    <2> QED
        BY <2>1, <2>2, <2>4 DEF Stage, Talk, Waiting, Early
<1>12. CASE StartPing(s) \/ ReportConnected(s)
    <2>1. cPc'[s] \in {"report", "receiving"}
        BY <1>12 DEF StartPing, ReportConnected, CGoto, DataOK
    <2> QED
        BY <2>1 DEF Stage, Talk, Waiting, Early
<1>13. CASE RunRecv(s)
    <2>1. cPc'[s] = "receiving"
        BY <1>13 DEF RunRecv, clientVars
    <2> QED
        BY <2>1 DEF Stage, Talk, Waiting, Early
<1> QED
    BY <1>1, <1>2, <1>3, <1>4, <1>5, <1>6, <1>7, <1>8, <1>9, <1>10, <1>11, <1>12, <1>13
       DEF RecvThread

\* So do the ping thread, the window and the network: none of them can act while the
\* client negotiates, except that the network may break or its process be killed.
LEMMA WindowStep ==
    ASSUME DataOK, NEW s \in Sessions, Stage(s), Talk(s),
           Ping(s) \/ PingStops(s) \/ UserCloses(s) \/ Window(s) \/ NetFails(s) \/ Killed(s)
    PROVE  Stage(s)' /\ Talk(s)'
<1>1. CASE NetFails(s)
    <2>1. /\ UNCHANGED <<cPc, pingPc, uiPc, closing, cConn, sStreaming, authorized, down, sPc>>
          /\ up'[s] = <<>>
        BY <1>1 DEF NetFails, DataOK, clientVars, serverVars
    <2>2. Talk(s)'
        BY <2>1, Lost
    <2> QED
        BY <2>1, <2>2 DEF Stage
<1>2. CASE Ping(s) \/ PingStops(s) \/ UserCloses(s) \/ Window(s)
    <2>1. /\ cPc' = cPc /\ sStreaming' = sStreaming
          /\ \/ pingPc[s] = "on"
             \/ uiPc[s] = "shown"
             \/ uiPc[s] \in {"hidden", "shown"} /\ s \in closing
             \/ uiPc[s] \in {"joinRecv", "joinPing"}
        BY <1>2 DEF Ping, PingStops, UserCloses, Window, CloseLater, JoinRecv, JoinPing,
           serverVars
    <2>2. cPc[s] \notin Waiting \cup {"unborn", "online"}
        BY <2>1 DEF Stage
    <2>3. ASSUME cPc[s] = "aborted"
          PROVE  uiPc'[s] = uiPc[s] /\ down'[s] = down[s] /\ s \notin cConn'
        <3>1. uiPc[s] = "gone" /\ s \notin cConn
            BY <2>3 DEF Stage
        <3>2. PingStops(s)
            BY <1>2, <2>3, <3>1 DEF Ping, UserCloses, Window, CloseLater, JoinRecv, JoinPing
        <3> QED
            BY <3>1, <3>2 DEF PingStops
    <2>4. Stage(s)'
        BY <2>1, <2>2, <2>3 DEF Stage, Waiting
    <2>5. Talk(s)'
        BY <2>1, <2>2 DEF Talk, Waiting
    <2> QED
        BY <2>4, <2>5
<1>3. CASE Killed(s)
    <2>1. cPc'[s] = "killed"
        BY <1>3 DEF Killed, CGoto, DataOK
    <2> QED
        BY <2>1 DEF Stage, Talk, Waiting, Early
<1> QED
    BY <1>1, <1>2, <1>3

\* A handler of the host keeps a session in step that is not being negotiated.
LEMMA HandlerIdle ==
    ASSUME DataOK, NEW s \in Sessions, Stage(s), cPc[s] \notin Waiting \cup {"unborn"},
           cPc' = cPc, pingPc' = pingPc, uiPc' = uiPc, closing' = closing, cConn' = cConn,
           s \notin cConn => down'[s] = down[s]
    PROVE  Stage(s)' /\ Talk(s)'
<1>1. Stage(s)'
    BY DEF Stage, Waiting, Early
<1>2. Talk(s)'
    BY DEF Talk, Waiting
<1> QED
    BY <1>1, <1>2

\* The thread of the Connection keeps its session in step.
LEMMA HandlerStep ==
    ASSUME DataOK, NEW s \in Sessions, Stage(s), Talk(s), Handler(s)
    PROVE  Stage(s)' /\ Talk(s)'
<1> DEFINE Client == UNCHANGED <<cPc, pingPc, uiPc, closing, cConn>>
<1>1. Client
    BY DEF Handler, ClientIntro, PingRequest, QueryHostCaps, ConfigureStream, StartStream,
       AnswerStart, AuthRequest, ClientNonce, EnterPin, ServerRecvFails, Leave, clientVars
<1>2. \A k, v : ServerSend(s, k, v) => (s \notin cConn => down'[s] = down[s])
    BY OwnQueues
<1>3. ASSUME cPc[s] \notin Waiting \cup {"unborn"}, s \notin cConn => down'[s] = down[s]
      PROVE  Stage(s)' /\ Talk(s)'
    BY <1>1, <1>3, HandlerIdle
<1>4. ASSUME sStreaming' = sStreaming, authorized \subseteq authorized', cPc[s] \in Waiting
      PROVE  Stage(s)'
    BY <1>1, <1>4 DEF Stage, Waiting
<1>5. CASE ClientIntro(s)
    <2>1. /\ Received(s, "ClientIntro") /\ sPc[s] = "loop" /\ sPc' = sPc
          /\ sStreaming' = sStreaming /\ authorized' = authorized
          /\ \/ ServerSend(s, "ServerIntro", "OK")
             \/ ServerSend(s, "ServerIntro", "AUTH_REQUIRED")
        BY <1>5 DEF ClientIntro, Received
    <2>2. /\ cPc[s] # "unborn"
          /\ cPc[s] \in Waiting => /\ cPc[s] = "intro" /\ up'[s] = <<>> /\ Quiet(down[s])
        BY <2>1, Turn
    <2>3. ASSUME cPc[s] = "intro" PROVE AtIntro(s)'
        <3>1. up'[s] = <<>> /\ Quiet(down[s]) /\ Free(s)'
            BY <2>1, <2>2, <2>3 DEF Waiting, Free
        <3> QED
            BY <2>1, <3>1, Reply DEF AtIntro, Answers, Statuses
    <2>4. CASE cPc[s] = "intro"
        BY <1>1, <1>4, <2>1, <2>3, <2>4 DEF Talk, Waiting
    <2> QED
        BY <1>2, <1>3, <2>1, <2>2, <2>4
<1>6. CASE PingRequest(s)
    <2>1. ServerSend(s, "PingResponse", "") \/ down' = down
        BY <1>6 DEF PingRequest
    <2>2. Received(s, "PingRequest")
        BY <1>6 DEF PingRequest
    <2>3. PICK k : k = "PingRequest" /\ Received(s, k)
        BY <2>2
    <2>4. cPc[s] # "unborn" /\ (cPc[s] \in Waiting => k # "PingRequest")
        BY <2>3, Turn
    <2> QED
        BY <1>2, <1>3, <2>1, <2>3, <2>4
<1>7. CASE QueryHostCaps(s)
    <2>1. /\ Received(s, "QueryHostCapsRequest") /\ sPc[s] = "loop" /\ sPc' = sPc
          /\ sStreaming' = sStreaming /\ authorized' = authorized
          /\ s \in authorized => ServerSend(s, "QueryHostCapsResponse", "OK")
          /\ \E v \in Statuses : ServerSend(s, "QueryHostCapsResponse", v)
        BY <1>7 DEF QueryHostCaps, Received, Statuses
    <2>2. /\ cPc[s] # "unborn"
          /\ cPc[s] \in Waiting => /\ cPc[s] = "caps" /\ up'[s] = <<>> /\ Quiet(down[s])
        BY <2>1, Turn
    <2>3. ASSUME cPc[s] = "caps" PROVE AtCaps(s)'
        <3>1. up'[s] = <<>> /\ Quiet(down[s]) /\ Free(s)' /\ s \in authorized
            BY <2>1, <2>2, <2>3 DEF Waiting, Free, Stage
        <3> QED
            BY <2>1, <3>1, Reply DEF AtCaps, Answers, Statuses
    <2>4. CASE cPc[s] = "caps"
        BY <1>1, <1>4, <2>1, <2>3, <2>4 DEF Talk, Waiting
    <2> QED
        BY <1>2, <1>3, <2>1, <2>2, <2>4
<1>8. CASE ConfigureStream(s)
    <2>1. /\ Received(s, "ConfigureStreamRequest") /\ sPc[s] = "loop" /\ sPc' = sPc
          /\ sStreaming' = sStreaming /\ authorized' = authorized
          /\ s \in authorized /\ s \notin sStreaming =>
                ServerSend(s, "ConfigureStreamResponse", "OK")
          /\ \E v \in Statuses : ServerSend(s, "ConfigureStreamResponse", v)
        BY <1>8 DEF ConfigureStream, Received, Statuses
    <2>2. /\ cPc[s] # "unborn"
          /\ cPc[s] \in Waiting => /\ cPc[s] = "configure" /\ up'[s] = <<>> /\ Quiet(down[s])
        BY <2>1, Turn
    <2>3. ASSUME cPc[s] = "configure" PROVE AtConfigure(s)'
        <3>1. up'[s] = <<>> /\ Quiet(down[s]) /\ Free(s)'
            BY <2>1, <2>2, <2>3 DEF Waiting, Free
        <3>2. s \in authorized /\ s \notin sStreaming
            BY <2>3 DEF Stage, Early
        <3> QED
            BY <2>1, <3>1, <3>2, Reply DEF AtConfigure, Answers, Statuses
    <2>4. CASE cPc[s] = "configure"
        BY <1>1, <1>4, <2>1, <2>3, <2>4 DEF Talk, Waiting
    <2> QED
        BY <1>2, <1>3, <2>1, <2>2, <2>4
<1>9. CASE StartStream(s)
    <2>1. /\ Received(s, "StartStreamRequest") /\ sPc'[s] \in {"starting", "hung"}
          /\ down' = down /\ authorized' = authorized
        BY <1>9 DEF StartStream, StartHangs, SGoto, DataOK
    <2>2. /\ cPc[s] # "unborn"
          /\ cPc[s] \in Waiting => /\ cPc[s] = "start" /\ up'[s] = <<>> /\ Quiet(down[s])
        BY <2>1, Turn
    <2>3. CASE cPc[s] = "start"
        <3>1. AtStart(s)'
            BY <2>1, <2>2, <2>3 DEF AtStart, Waiting
        <3> QED
            BY <1>1, <2>1, <2>3, <3>1 DEF Stage, Talk, Waiting, Early
    <2> QED
        BY <1>3, <2>1, <2>2, <2>3
<1>10. CASE AnswerStart(s)
    <2>1. /\ sPc[s] = "starting" /\ sPc'[s] = "loop" /\ up' = up
          /\ sStreaming' = sStreaming /\ authorized' = authorized
          /\ \/ ServerSend(s, "StartStreamResponse", "OK")
             \/ ServerSend(s, "StartStreamResponse", "UNKNOWN")
        BY <1>10 DEF AnswerStart, SGoto, DataOK
    <2>2. cPc[s] # "unborn" /\ (cPc[s] \in Waiting => cPc[s] = "start")
        BY <2>1 DEF Stage, Talk, Waiting, AtIntro, AtHash, AtNonce, AtPin, AtCaps,
           AtConfigure, Exchange, Busy, Free
    <2>3. ASSUME cPc[s] = "start" PROVE AtStart(s)'
        <3>1. up'[s] = <<>> /\ Quiet(down[s]) /\ Free(s)'
            BY <2>1, <2>3 DEF Talk, AtStart, Exchange, Free
        <3> QED
            BY <2>1, <3>1, Reply DEF AtStart, Answers, Statuses
    <2>4. CASE cPc[s] = "start"
        BY <1>1, <1>4, <2>1, <2>3, <2>4 DEF Talk, Waiting
    <2> QED
        BY <1>2, <1>3, <2>1, <2>2, <2>4
<1>11. CASE AuthRequest(s)
    <2>1. /\ Received(s, "AuthRequest") /\ sPc[s] = "loop" /\ sPc' = sPc
          /\ sStreaming' = sStreaming /\ authorized' = authorized
          /\ ServerSend(s, "ServerPartialHashNotify", s)
        BY <1>11 DEF AuthRequest, Received
    <2>2. /\ cPc[s] # "unborn"
          /\ cPc[s] \in Waiting => /\ cPc[s] = "partialHash" /\ up'[s] = <<>>
                                   /\ Quiet(down[s])
        BY <2>1, Turn
    <2>3. ASSUME cPc[s] = "partialHash" PROVE AtHash(s)'
        <3>1. up'[s] = <<>> /\ Quiet(down[s]) /\ Free(s)'
            BY <2>1, <2>2, <2>3 DEF Waiting, Free
        <3> QED
            BY <2>1, <3>1, Reply DEF AtHash, Answers
    <2>4. CASE cPc[s] = "partialHash"
        BY <1>1, <1>4, <2>1, <2>3, <2>4 DEF Talk, Waiting
    <2> QED
        BY <1>2, <1>3, <2>1, <2>2, <2>4
<1>12. CASE ClientNonce(s)
    <2>1. /\ Received(s, "ClientNonceNotify") /\ sPc[s] = "loop"
          /\ sStreaming' = sStreaming /\ authorized' = authorized
          /\ \/ ServerSend(s, "AuthResponse", "UNKNOWN_ERROR") /\ sPc' = sPc
             \/ ServerSend(s, "ServerNonceNotify", s) /\ sPc' = sPc
             \/ ServerSend(s, "ServerNonceNotify", s) /\ sPc'[s] = "pin"
        BY <1>12 DEF ClientNonce, Received, SGoto, DataOK
    <2>2. /\ cPc[s] # "unborn"
          /\ cPc[s] \in Waiting => /\ cPc[s] = "nonce" /\ up'[s] = <<>> /\ Quiet(down[s])
        BY <2>1, Turn
    <2>3. ASSUME cPc[s] = "nonce" PROVE AtNonce(s)'
        <3>1. up'[s] = <<>> /\ Quiet(down[s])
            BY <2>1, <2>2, <2>3 DEF Waiting
        <3>2. CASE ServerSend(s, "AuthResponse", "UNKNOWN_ERROR") /\ sPc' = sPc
            <4>1. Free(s)'
                BY <2>1, <3>2 DEF Free
            <4> QED
                BY <3>1, <3>2, <4>1, Reply DEF AtNonce, Answers, Statuses
        <3>3. CASE ServerSend(s, "ServerNonceNotify", s) /\ sPc' = sPc
            <4>1. Free(s)'
                BY <2>1, <3>3 DEF Free
            <4> QED
                BY <3>1, <3>3, <4>1, Reply DEF AtNonce, HostNonce, Answers
        <3>4. CASE ServerSend(s, "ServerNonceNotify", s) /\ sPc'[s] = "pin"
            <4>1. down[s] \in Seq(DownPackets) /\ HostNonce(s) \in DownPackets
                BY OwnQueues, PacketTypes DEF HostNonce, Answers
            <4>2. down'[s] = down[s] \/ down'[s] = Append(down[s], HostNonce(s))
                BY <3>4, OwnQueues DEF HostNonce
            <4>3. One(down'[s], {HostNonce(s)})
                BY <3>1, <4>1, <4>2, QuietOne, AnswerQuiet
            <4> QED
                BY <3>1, <3>4, <4>3 DEF AtNonce, Busy, HostNonce
        <3> QED
            BY <2>1, <3>2, <3>3, <3>4
    <2>4. CASE cPc[s] = "nonce"
        BY <1>1, <1>4, <2>1, <2>3, <2>4 DEF Talk, Waiting
    <2> QED
        BY <1>2, <1>3, <2>1, <2>2, <2>4
<1>13. CASE EnterPin(s)
    <2>1. /\ sPc[s] = "pin" /\ sPc'[s] = "loop" /\ up' = up
          /\ sStreaming' = sStreaming /\ authorized \subseteq authorized'
          /\ \/ ServerSend(s, "AuthResponse", "OK")
             \/ ServerSend(s, "AuthResponse", "INCORRECT_PIN")
        BY <1>13 DEF EnterPin, SGoto, DataOK
    <2>2. /\ cPc[s] # "unborn"
          /\ cPc[s] \in Waiting => cPc[s] \in {"nonce", "pinBox", "authResponse"}
        BY <2>1 DEF Stage, Talk, Waiting, AtIntro, AtHash, AtStart, AtCaps, AtConfigure,
           Exchange, Free
    <2>3. PICK p \in Verdicts : /\ p \in DownPackets
                                /\ down'[s] = down[s] \/ down'[s] = Append(down[s], p)
        BY <2>1, OwnQueues, PacketTypes DEF Verdicts, Answers, Statuses
    <2>4. down[s] \in Seq(DownPackets) /\ Free(s)'
        BY <2>1, OwnQueues DEF Free
    <2>5. CASE cPc[s] = "nonce"
        <3>1. up[s] = <<>> /\ One(down[s], {HostNonce(s)})
            BY <2>1, <2>5 DEF Talk, AtNonce, Exchange, Busy, Free
        <3>2. CASE down'[s] = Append(down[s], p)
            <4>1. Two(down'[s], HostNonce(s), Verdicts)
                BY <2>3, <2>4, <3>1, <3>2, AnswerOne
            <4>2. AtNonce(s)'
                BY <2>1, <2>4, <3>1, <4>1 DEF AtNonce, HostNonce
            <4> QED
                BY <1>1, <1>4, <2>1, <2>5, <4>2 DEF Talk, Waiting
        <3>3. CASE down'[s] = down[s]
            <4>1. One(down'[s], {Packet("AuthResponse", "UNKNOWN_ERROR"), HostNonce(s)})
                BY <3>1, <3>3, OneOfMore
            <4>2. AtNonce(s)'
                BY <2>1, <2>4, <3>1, <4>1 DEF AtNonce, Exchange, HostNonce
            <4> QED
                BY <1>1, <1>4, <2>1, <2>5, <4>2 DEF Talk, Waiting
        <3> QED
            BY <2>3, <3>2, <3>3
    <2>6. CASE cPc[s] \in {"pinBox", "authResponse"}
        <3>1. up[s] = <<>> /\ Quiet(down[s])
            BY <2>1, <2>6 DEF Talk, AtPin, Free
        <3>2. One(down'[s], Verdicts)
            BY <2>3, <2>4, <3>1, QuietOne, AnswerQuiet
        <3>3. AtPin(s)'
            BY <2>1, <2>4, <3>1, <3>2 DEF AtPin
        <3> QED
            BY <1>1, <1>4, <2>1, <2>6, <3>3 DEF Talk, Waiting
    <2> QED
        BY <1>2, <1>3, <2>1, <2>2, <2>5, <2>6
<1>14. CASE ServerRecvFails(s)
    <2>1. UNCHANGED <<sPc, up, down, sStreaming, authorized>>
        BY <1>14 DEF ServerRecvFails
    <2>2. Elsewhere(s)
        BY <1>1, <2>1 DEF Elsewhere
    <2> QED
        BY <2>2, ElsewhereStep
<1>15. CASE Leave(s)
    <2>1. /\ sPc[s] = "loop" /\ sPc'[s] = "gone" /\ up'[s] = <<>>
          /\ UNCHANGED <<down, sStreaming, authorized>>
        BY <1>15 DEF Leave, SGoto, DataOK
    <2>2. Talk(s)'
        BY <1>1, <2>1, Lost
    <2> QED
        BY <1>1, <2>1, <2>2 DEF Stage
<1> QED
    BY <1>5, <1>6, <1>7, <1>8, <1>9, <1>10, <1>11, <1>12, <1>13, <1>14, <1>15 DEF Handler

\* The broadcast reaches clients in every stage, and keeps them in step.
LEMMA BroadcastStep ==
    ASSUME DataOK, NEW s \in Sessions, Stage(s), Talk(s), SendFrame(s)
    PROVE  Stage(s)' /\ Talk(s)'
<1>1. UNCHANGED <<cPc, pingPc, uiPc, closing, cConn, sPc, sStreaming, authorized, up>>
    BY DEF SendFrame, clientVars
<1>2. PICK p \in DownPackets : p = Packet("Frame", "")
    BY PacketTypes DEF Answers, Statuses
<1>3. \/ down'[s] = down[s]
      \/ s \in cConn /\ down'[s] = Append(down[s], p)
    BY <1>2, OwnQueues DEF SendFrame
<1>4. CASE down'[s] = down[s]
    <2>1. Elsewhere(s)
        BY <1>1, <1>4 DEF Elsewhere
    <2> QED
        BY <2>1, ElsewhereStep
<1>5. CASE s \in cConn /\ down'[s] = Append(down[s], p)
    <2>1. down[s] \in Seq(DownPackets) /\ p.kind = "Frame"
        BY <1>2, OwnQueues, PacketFields
    <2>2. Quiet(down[s]) => Quiet(down'[s])
        BY <1>5, <2>1, FrameMore
    <2>3. \A ans : One(down[s], ans) => One(down'[s], ans)
        BY <1>5, <2>1, FrameMore
    <2>4. \A fst, snd : Two(down[s], fst, snd) => Two(down'[s], fst, snd)
        BY <1>5, <2>1, FrameMore
    <2>5. \A req, ans : Exchange(s, req, ans) => Exchange(s, req, ans)'
        BY <1>1, <2>2, <2>3 DEF Exchange, Free
    <2>6. /\ (AtIntro(s) => AtIntro(s)') /\ (AtHash(s) => AtHash(s)')
          /\ (AtCaps(s) => AtCaps(s)') /\ (AtConfigure(s) => AtConfigure(s)')
        BY <2>5 DEF AtIntro, AtHash, AtCaps, AtConfigure
    <2>7. AtNonce(s) => AtNonce(s)'
        BY <1>1, <2>3, <2>4, <2>5 DEF AtNonce, Busy, Free, HostNonce
    <2>8. AtPin(s) => AtPin(s)'
        BY <1>1, <2>2, <2>3 DEF AtPin, Free
    <2>9. AtStart(s) => AtStart(s)'
        BY <1>1, <2>2, <2>5 DEF AtStart
    <2>10. Talk(s)'
        BY <1>1, <2>6, <2>7, <2>8, <2>9 DEF Talk
    <2>11. cPc[s] \notin {"unborn", "aborted"}
        BY <1>5 DEF Stage
    <2> QED
        BY <1>1, <2>10, <2>11 DEF Stage
<1> QED
    BY <1>3, <1>4, <1>5

\* Every step keeps every session in step.
LEMMA InStepStep == DataOK /\ Pairing /\ InStep /\ [Next]_vars => InStep'
<1> SUFFICES ASSUME DataOK, Pairing, InStep, [Next]_vars, NEW s \in Sessions
             PROVE  Stage(s)' /\ Talk(s)'
    BY DEF InStep
<1>1. Stage(s) /\ Talk(s)
    BY DEF InStep
<1>2. CASE UNCHANGED vars
    <2>1. Elsewhere(s)
        BY <1>2 DEF Elsewhere, vars, clientVars, serverVars
    <2> QED
        BY <1>1, <2>1, ElsewhereStep
<1>3. CASE BroadcastBegin
    <2>1. Elsewhere(s)
        BY <1>3 DEF Elsewhere, BroadcastBegin, clientVars
    <2> QED
        BY <1>1, <2>1, ElsewhereStep
<1>4. ASSUME NEW t \in Sessions,
             \/ Connect(t) \/ ConnectFails(t) \/ RecvThread(t) \/ Ping(t) \/ PingStops(t)
             \/ UserCloses(t) \/ Window(t) \/ NetFails(t) \/ Killed(t) \/ SendFrame(t)
             \/ Handler(t)
      PROVE  Stage(s)' /\ Talk(s)'
    <2>1. CASE s = t
        BY <1>1, <1>4, <2>1, RecvStep, WindowStep, HandlerStep, BroadcastStep
    <2>2. CASE s # t
        BY <1>1, <1>4, <2>2, Locality, ElsewhereStep
    <2> QED
        BY <2>1, <2>2
<1> QED
    BY <1>2, <1>3, <1>4 DEF Next
-----------------------------------------------------------------------------
(* The theorems.                                                           *)

IndInv == DataOK /\ Pairing /\ Pinned /\ InStep

\* The host has no connection and no client has begun.
LEMMA InitInv == Init => IndInv
<1> SUFFICES ASSUME Init PROVE IndInv
    OBVIOUS
<1>1. DataOK
    BY PairedAssumption DEF Init, DataOK, CPcs, SPcs
<1>2. Pairing
    BY DEF Init, Pairing, TrustIsMutual, Granted
<1>3. Pinned
    BY DEF Init, Pinned, KnownByPin, PinOK
<1>4. InStep
    BY DEF Init, InStep, Stage, Talk, Waiting
<1> QED
    BY <1>1, <1>2, <1>3, <1>4 DEF IndInv

\* The inductive invariant: types, the truth of what the host says, the owners of the
\* nonces, and the lock-step of requests and answers.
THEOREM Inductive == Spec => []IndInv
<1>1. IndInv /\ [Next]_vars => IndInv'
    BY DataStep, PairingStep, PinStep, InStepStep DEF IndInv
<1> QED
    BY <1>1, InitInv, PTL DEF Spec

\* A client that stored the host's certificate is known to the host, for any number
\* of clients that pair at the same time over connections that may break.
THEOREM TrustCorrect == Spec => []TrustIsMutual
<1>1. IndInv => TrustIsMutual
    BY DEF IndInv, Pairing
<1> QED
    BY <1>1, Inductive, PTL

\* The host only knows clients it knew before and clients whose own PIN the operator has
\* typed, however the prompts of several connections are mixed up.
THEOREM PinCorrect == Spec => []KnownByPin
<1>1. IndInv => KnownByPin
    BY DEF IndInv, Pinned
<1> QED
    BY <1>1, Inductive, PTL

\* Only a broadcast packet can make an assertion of doIntro_ fail.
THEOREM AbortCorrect == Spec => []OnlyBroadcastsAbort
<1>1. IndInv => OnlyBroadcastsAbort
    BY DEF IndInv, InStep, Stage, OnlyBroadcastsAbort
<1> QED
    BY <1>1, Inductive, PTL
-----------------------------------------------------------------------------
(* No side of a negotiation waits for the other for nothing.               *)

\* An answer is on its way to the client that is not the host's nonce, which a verdict follows.
Coming(s) == \E i \in DOMAIN down[s] : down[s][i].kind \notin {"Frame", "ServerNonceNotify"}

Moving(s) ==
    /\ s \in sConn => sPc[s] \in {"loop", "pin", "starting", "hung"}
    /\ cPc[s] \in Waiting /\ Reaches(s) /\ sPc[s] = "loop" => up[s] # <<>> \/ Coming(s)

\* While a client waits and both sockets work, its request is there for the host's thread, or
\* that thread is busy with it (for ever, if the start hangs), or the answer is there.
IntroMoves ==
    \A s \in Sessions : cPc[s] \in Waiting /\ Reaches(s) =>
        \/ sPc[s] = "loop" /\ up[s] # <<>>
        \/ sPc[s] \in {"pin", "starting", "hung"}
        \/ \E i \in DOMAIN down[s] : down[s][i].kind # "Frame"

\* Sockets only break.
LEMMA SocketsBreak ==
    ASSUME DataOK, NEW t \in Sessions, NEW s \in Sessions,
           \/ ConnectFails(t) \/ RecvThread(t) \/ Ping(t) \/ PingStops(t)
           \/ UserCloses(t) \/ Window(t) \/ NetFails(t) \/ Killed(t) \/ SendFrame(t)
           \/ Handler(t)
           \/ Connect(t) /\ s # t
    PROVE  (s \in sConn' => s \in sConn) /\ (s \in net' => s \in net) /\ (Reaches(s)' => Reaches(s))
<1>1. s \in sConn' => s \in sConn
  <2>1. \A k, v : ServerSend(t, k, v) => (s \in sConn' => s \in sConn)
    BY DEF ServerSend
  <2>2. CASE Handler(t)
    BY <2>1, <2>2 DEF Handler, ClientIntro, PingRequest, QueryHostCaps, ConfigureStream, StartStream,
       AnswerStart, AuthRequest, ClientNonce, EnterPin, ServerRecvFails, Leave
  <2>4. CASE SendFrame(t)
    BY <2>1, <2>4 DEF SendFrame
  <2>3. CASE RecvThread(t)
    BY <2>3 DEF RecvThread, RecvServerIntro, RecvPartialHash, RecvServerNonce, PinBoxClosed,
       RecvAuthResponse, RecvHostCaps, RecvConfigured, RecvStarted, RecvUnexpected, StartPing,
       ReportConnected, RunRecv, RecvFails, serverVars
  <2> QED
    BY <2>2, <2>3, <2>4 DEF Connect, ConnectFails, Ping, PingStops, UserCloses, Window, CloseLater,
       JoinRecv, JoinPing, NetFails, Killed, serverVars
<1>2. s \in cConn' => s \in cConn
  <2>1. CASE Handler(t)
    BY <2>1 DEF Handler, ClientIntro, PingRequest, QueryHostCaps, ConfigureStream, StartStream,
       AnswerStart, AuthRequest, ClientNonce, EnterPin, ServerRecvFails, Leave, clientVars
  <2>2. CASE RecvThread(t)
    BY <2>2 DEF RecvThread, RecvServerIntro, RecvPartialHash, RecvServerNonce, PinBoxClosed,
       RecvAuthResponse, RecvHostCaps, RecvConfigured, RecvStarted, RecvUnexpected, Abort, ProcessEnds,
       StartPing, ReportConnected, RunRecv, RecvFails, clientVars
  <2>3. CASE ConnectFails(t) \/ PingStops(t) \/ NetFails(t) \/ SendFrame(t)
    <3>1. cConn' = cConn
      BY <2>3 DEF ConnectFails, PingStops, NetFails, SendFrame, clientVars
    <3> QED
      BY <3>1
  <2>5. CASE Ping(t)
    BY <2>5 DEF Ping
  <2>6. CASE Connect(t) /\ s # t
    BY <2>6 DEF Connect
  <2>4. CASE UserCloses(t) \/ Window(t)
    BY <2>4 DEF UserCloses, Window, CloseLater, JoinRecv, JoinPing, Disconnect
  <2>7. CASE Killed(t)
    BY <2>7 DEF Killed, ProcessEnds
  <2> QED
    BY <2>1, <2>2, <2>3, <2>4, <2>5, <2>6, <2>7
<1>3. s \in net' => s \in net
  <2>1. CASE Handler(t)
    BY <2>1 DEF Handler, ClientIntro, PingRequest, QueryHostCaps, ConfigureStream, StartStream,
       AnswerStart, AuthRequest, ClientNonce, EnterPin, ServerRecvFails, Leave
  <2>2. CASE RecvThread(t)
    BY <2>2 DEF RecvThread, RecvServerIntro, RecvPartialHash, RecvServerNonce, PinBoxClosed,
       RecvAuthResponse, RecvHostCaps, RecvConfigured, RecvStarted, RecvUnexpected, StartPing,
       ReportConnected, RunRecv, RecvFails
  <2> QED
    BY <2>1, <2>2 DEF Connect, ConnectFails, Ping, PingStops, UserCloses, Window, CloseLater, JoinRecv,
       JoinPing, NetFails, Killed, SendFrame
<1> QED
    BY <1>1, <1>2, <1>3 DEF Reaches

\* What is on its way stays so when a packet is added, or another one is taken.
LEMMA ComingStays ==
    ASSUME DataOK, NEW s \in Sessions
    PROVE  /\ \A p \in DownPackets : Coming(s) /\ down'[s] = Append(down[s], p) => Coming(s)'
           /\ \A p \in DownPackets :
                p.kind \notin {"Frame", "ServerNonceNotify"} /\ down'[s] = Append(down[s], p) => Coming(s)'
           /\ Coming(s) /\ down[s] # <<>> /\ Head(down[s]).kind \in {"Frame", "ServerNonceNotify"}
                /\ down'[s] = Tail(down[s]) => Coming(s)'
<1>1. PICK q \in Seq(DownPackets) : q = down[s]
    BY OwnQueues
<1>2. ASSUME NEW p \in DownPackets, down'[s] = Append(q, p)
      PROVE  /\ Coming(s) => Coming(s)'
             /\ p.kind \notin {"Frame", "ServerNonceNotify"} => Coming(s)'
  <2>1. /\ Len(q) + 1 \in DOMAIN Append(q, p) /\ Append(q, p)[Len(q) + 1] = p
        /\ \A i \in DOMAIN q : i \in DOMAIN Append(q, p) /\ Append(q, p)[i] = q[i]
    OBVIOUS
  <2> QED
    BY <1>1, <1>2, <2>1 DEF Coming
<1>3. ASSUME Coming(s), q # <<>>, Head(q).kind \in {"Frame", "ServerNonceNotify"}, down'[s] = Tail(q)
      PROVE  Coming(s)'
  <2>1. PICK i \in DOMAIN q : q[i].kind \notin {"Frame", "ServerNonceNotify"}
    BY <1>1, <1>3 DEF Coming
  <2>2. i # 1
    BY <1>3, <2>1
  <2>3. PICK j \in Nat : j = i - 1 /\ j \in DOMAIN Tail(q) /\ Tail(q)[j] = q[i]
    <3>1. i \in 1..Len(q) /\ i - 1 \in 1..(Len(q) - 1)
      BY <2>1, <2>2
    <3>2. DOMAIN Tail(q) = 1..(Len(q) - 1)
      BY <1>3
    <3>3. Tail(q)[i - 1] = q[i]
      BY <1>3, <3>1
    <3> QED
      BY <3>1, <3>2, <3>3
  <2> QED
    BY <1>3, <2>1, <2>3 DEF Coming
<1> QED
    BY <1>1, <1>2, <1>3

\* A handler's answer comes, or the host's socket is given up.
LEMMA AnswerComes ==
    ASSUME DataOK, NEW s \in Sessions, NEW k \in Answers \ {"Frame", "ServerNonceNotify"},
           NEW v \in Sessions \cup Statuses, ServerSend(s, k, v)
    PROVE  Coming(s)' \/ s \notin sConn'
<1>1. CASE Reaches(s)
  <2>1. PICK p \in DownPackets : p = Packet(k, v)
    BY PacketTypes
  <2>2. down'[s] = Append(down[s], p) /\ p.kind = k
    BY <1>1, <2>1, PacketFields DEF ServerSend, DataOK
  <2> QED
    BY <2>2, ComingStays
<1>2. CASE ~Reaches(s)
    BY <1>2 DEF ServerSend
<1> QED
    BY <1>1, <1>2

\* The client's own steps: it waits for an answer to what it has just sent, or for the verdict
\* after the host's nonce.
LEMMA ClientMoves ==
    ASSUME DataOK, NEW s \in Sessions, Stage(s), Moving(s),
           Connect(s) \/ ConnectFails(s) \/ RecvThread(s)
    PROVE  Moving(s)'
<1>1. ASSUME NEW k, NEW v, Request(s, k, v) PROVE up'[s] # <<>>
  <2>1. PICK q \in Seq(UpPackets) : q = up[s]
    BY OwnQueues
  <2>2. up'[s] = Append(q, Packet(k, v))
    BY <1>1, <2>1, OwnQueues
  <2> QED
    BY <2>2
<1>2. CASE Connect(s)
  <2>1. sPc'[s] = "loop" /\ up'[s] # <<>>
    BY <1>1, <1>2 DEF Connect, SGoto, DataOK
  <2> QED
    BY <2>1 DEF Moving
<1>3. CASE ConnectFails(s)
  <2>1. cPc'[s] = "done" /\ sConn' = sConn /\ cPc[s] = "unborn"
    BY <1>3 DEF ConnectFails, CGoto, DataOK
  <2>2. s \notin sConn
    BY <2>1 DEF Stage, Moving
  <2> QED
    BY <2>1, <2>2 DEF Moving, Waiting
<1>4. CASE RecvThread(s)
  <2>1. sPc' = sPc /\ (s \in sConn' => s \in sConn) /\ (Reaches(s)' => Reaches(s))
    <3>1. sPc' = sPc
      BY <1>4 DEF RecvThread, RecvServerIntro, RecvPartialHash, RecvServerNonce, PinBoxClosed,
         RecvAuthResponse, RecvHostCaps, RecvConfigured, RecvStarted, RecvUnexpected, StartPing,
         ReportConnected, RunRecv, RecvFails, serverVars
    <3> QED
      BY <1>4, <3>1, SocketsBreak
  <2>2. CASE up'[s] # <<>> \/ cPc'[s] \notin Waiting
    BY <2>1, <2>2 DEF Moving
  <2>3. CASE RecvServerIntro(s) \/ RecvHostCaps(s) \/ RecvConfigured(s)
    BY <1>1, <2>2, <2>3 DEF RecvServerIntro, RecvHostCaps, RecvConfigured
  <2>4. CASE RecvPartialHash(s) \/ RecvAuthResponse(s)
    <3>1. IntroFails(s) => cPc'[s] \notin Waiting
      BY DEF IntroFails, CGoto, DataOK, Waiting
    <3> QED
      BY <1>1, <2>2, <2>4, <3>1 DEF RecvPartialHash, RecvAuthResponse
  <2>5. CASE RecvServerNonce(s)
    <3>1. CASE Head(down[s]).kind = "ServerNonceNotify"
      <4>1. /\ cPc[s] = "nonce" /\ down[s] # <<>> /\ down'[s] = Tail(down[s]) /\ up' = up
        BY <2>5, <3>1, OwnQueues DEF RecvServerNonce, Arrived
      <4>2. Coming(s) => Coming(s)'
        BY <3>1, <4>1, ComingStays
      <4> QED
        BY <2>1, <4>1, <4>2 DEF Moving, Waiting
    <3>2. CASE Head(down[s]).kind # "ServerNonceNotify"
      <4>1. cPc'[s] \notin Waiting
        BY <2>5, <3>2 DEF RecvServerNonce, IntroFails, CGoto, DataOK, Waiting
      <4> QED
        BY <2>2, <4>1
    <3> QED
      BY <3>1, <3>2
  <2>6. CASE PinBoxClosed(s)
    <3>1. cPc[s] \in Waiting /\ up' = up /\ down' = down
      BY <2>6 DEF PinBoxClosed, Waiting
    <3> QED
      BY <2>1, <3>1 DEF Moving, Coming
  <2>7. CASE RecvStarted(s) \/ RecvUnexpected(s) \/ StartPing(s) \/ ReportConnected(s) \/ RunRecv(s)
             \/ RecvFails(s)
    <3>1. CASE RecvStarted(s) \/ RecvUnexpected(s)
      BY <2>2, <3>1 DEF RecvStarted, IntroFails, RecvUnexpected, Abort, CGoto, clientVars, DataOK,
         Waiting
    <3>2. CASE StartPing(s) \/ ReportConnected(s)
      BY <2>2, <3>2 DEF StartPing, ReportConnected, CGoto, DataOK, Waiting
    <3>3. CASE RunRecv(s) \/ RecvFails(s)
      BY <2>2, <3>3 DEF RunRecv, RecvFails, CGoto, clientVars, DataOK, Waiting
    <3> QED
      BY <2>7, <3>1, <3>2, <3>3
  <2> QED
    BY <1>4, <2>3, <2>4, <2>5, <2>6, <2>7 DEF RecvThread
<1> QED
    BY <1>2, <1>3, <1>4

\* The host's own steps: a request that is taken is answered, or put off to the PIN or the start
\* of the stream, or the socket is given up.
LEMMA HostMoves ==
    ASSUME DataOK, NEW s \in Sessions, Stage(s), Talk(s), Moving(s), Handler(s)
    PROVE  Moving(s)'
<1>1. cPc' = cPc
    BY DEF Handler, ClientIntro, PingRequest, QueryHostCaps, ConfigureStream, StartStream,
       AnswerStart, AuthRequest, ClientNonce, EnterPin, ServerRecvFails, Leave, clientVars
<1>2. (s \in sConn' => s \in sConn) /\ (Reaches(s)' => Reaches(s)) /\ (Reaches(s)' => s \in sConn')
    BY SocketsBreak DEF Reaches
<1>3. ASSUME sPc'[s] \in {"loop", "pin", "starting", "hung"}, Coming(s)' \/ s \notin sConn'
      PROVE  Moving(s)'
    BY <1>2, <1>3 DEF Moving
<1>4. CASE ClientIntro(s) \/ QueryHostCaps(s) \/ ConfigureStream(s) \/ AuthRequest(s)
  <2>1. sPc'[s] = "loop"
    BY <1>4 DEF ClientIntro, QueryHostCaps, ConfigureStream, AuthRequest, Received
  <2>2. Coming(s)' \/ s \notin sConn'
    BY <1>4, AnswerComes DEF ClientIntro, QueryHostCaps, ConfigureStream, AuthRequest, Answers, Statuses
  <2> QED
    BY <1>3, <2>1, <2>2
<1>5. CASE PingRequest(s)
  <2>1. PICK k : k = "PingRequest" /\ Received(s, k)
    BY <1>5 DEF PingRequest
  <2>2. cPc[s] \notin Waiting
    BY <2>1, Turn
  <2>3. sPc' = sPc
    BY <1>5 DEF PingRequest
  <2> QED
    BY <1>1, <1>2, <2>2, <2>3 DEF Moving
<1>6. CASE StartStream(s)
  <2>1. sPc'[s] \in {"starting", "hung"}
    BY <1>6 DEF StartStream, StartHangs, SGoto, DataOK
  <2> QED
    BY <2>1 DEF Moving
<1>7. CASE AnswerStart(s) \/ EnterPin(s)
  <2>1. sPc'[s] = "loop"
    BY <1>7 DEF AnswerStart, EnterPin, SGoto, DataOK
  <2>2. Coming(s)' \/ s \notin sConn'
    BY <1>7, AnswerComes DEF AnswerStart, EnterPin, Answers, Statuses
  <2> QED
    BY <1>3, <2>1, <2>2
<1>8. CASE ClientNonce(s)
  <2>1. CASE ServerSend(s, "AuthResponse", "UNKNOWN_ERROR") /\ UNCHANGED sPc
    <3>1. sPc'[s] = "loop"
      BY <1>8, <2>1 DEF ClientNonce, Received
    <3>2. Coming(s)' \/ s \notin sConn'
      BY <2>1, AnswerComes DEF Answers, Statuses
    <3> QED
      BY <1>3, <3>1, <3>2
  <2>2. CASE ServerSend(s, "ServerNonceNotify", s) /\ Reaches(s) /\ SGoto(s, "pin")
    <3>1. sPc'[s] = "pin"
      BY <2>2 DEF SGoto, DataOK
    <3> QED
      BY <3>1 DEF Moving
  <2>3. CASE ServerSend(s, "ServerNonceNotify", s) /\ ~Reaches(s) /\ UNCHANGED sPc
    <3>1. s \notin sConn'
      BY <2>3 DEF ServerSend
    <3> QED
      BY <1>2, <3>1 DEF Moving
  <2> QED
    BY <1>8, <2>1, <2>2, <2>3 DEF ClientNonce
<1>9. CASE ServerRecvFails(s) \/ Leave(s)
  <2>1. s \notin sConn'
    BY <1>9 DEF ServerRecvFails, Leave
  <2> QED
    BY <1>2, <2>1 DEF Moving
<1> QED
    BY <1>4, <1>5, <1>6, <1>7, <1>8, <1>9 DEF Handler

\* Every step keeps the negotiations moving.
LEMMA MovingStep ==
    ASSUME DataOK, InStep, \A s \in Sessions : Moving(s), [Next]_vars, NEW s \in Sessions
    PROVE  Moving(s)'
<1>1. Stage(s) /\ Talk(s) /\ Moving(s)
    BY DEF InStep
<1>2. CASE UNCHANGED vars
    BY <1>1, <1>2 DEF vars, clientVars, serverVars, Moving, Coming, Reaches
<1>3. CASE BroadcastBegin
    BY <1>1, <1>3 DEF BroadcastBegin, clientVars, Moving, Coming, Reaches
<1>4. ASSUME NEW t \in Sessions,
             \/ Connect(t) \/ ConnectFails(t) \/ RecvThread(t) \/ Ping(t) \/ PingStops(t)
             \/ UserCloses(t) \/ Window(t) \/ NetFails(t) \/ Killed(t) \/ SendFrame(t)
             \/ Handler(t)
      PROVE  Moving(s)'
  <2>1. CASE s # t
    <3>1. Elsewhere(s)
      BY <1>4, <2>1, Locality
    <3>2. (s \in sConn' => s \in sConn) /\ (Reaches(s)' => Reaches(s))
      BY <1>4, <2>1, SocketsBreak
    <3> QED
      BY <1>1, <3>1, <3>2 DEF Elsewhere, Moving, Coming
  <2>2. CASE s = t /\ (Connect(t) \/ ConnectFails(t) \/ RecvThread(t))
    BY <1>1, <2>2, ClientMoves
  <2>3. CASE s = t /\ Handler(t)
    BY <1>1, <2>3, HostMoves
  <2>4. CASE s = t /\ NetFails(t)
    BY <1>1, <2>4 DEF NetFails, serverVars, Reaches, Moving
  <2>5. CASE s = t /\ (Ping(t) \/ PingStops(t) \/ UserCloses(t) \/ Window(t))
    <3>1. /\ cPc' = cPc /\ sPc' = sPc /\ sConn' = sConn
          /\ \/ pingPc[s] = "on"
             \/ uiPc[s] = "shown"
             \/ uiPc[s] \in {"hidden", "shown"} /\ s \in closing
             \/ uiPc[s] \in {"joinRecv", "joinPing"}
      BY <2>5 DEF Ping, PingStops, UserCloses, Window, CloseLater, JoinRecv, JoinPing, serverVars
    <3>2. cPc[s] \notin Waiting
      BY <1>1, <3>1 DEF Stage
    <3> QED
      BY <1>1, <3>1, <3>2 DEF Moving
  <2>6. CASE s = t /\ Killed(t)
    <3>1. cPc'[s] \notin Waiting /\ sPc' = sPc /\ sConn' = sConn
      BY <2>6 DEF Killed, CGoto, DataOK, Waiting, serverVars
    <3> QED
      BY <1>1, <3>1 DEF Moving
  <2>7. CASE s = t /\ SendFrame(t)
    <3>1. UNCHANGED <<cPc, cConn, sPc, up, net>> /\ (s \in sConn' => s \in sConn)
      BY <2>7 DEF SendFrame, ServerSend, clientVars
    <3>2. PICK p \in DownPackets : p = Packet("Frame", "")
      BY PacketTypes DEF Answers, Statuses
    <3>3. down'[s] = down[s] \/ down'[s] = Append(down[s], p)
      BY <2>7, <3>2, OwnQueues DEF SendFrame
    <3>4. Coming(s) => Coming(s)'
      BY <3>3, ComingStays DEF Coming
    <3> QED
      BY <1>1, <3>1, <3>4 DEF Moving, Reaches
  <2> QED
    BY <1>4, <2>1, <2>2, <2>3, <2>4, <2>5, <2>6, <2>7
<1> QED
    BY <1>2, <1>3, <1>4 DEF Next

\* A client that negotiates never waits for a host that waits for it, whatever is broadcast in
\* between, in whichever order the PINs are typed: the safe part of IntroEnds.
THEOREM MovesCorrect == Spec => []IntroMoves
<1> DEFINE AllMove == \A s \in Sessions : Moving(s)
<1>1. Init => AllMove
    BY DEF Init, Moving, Waiting
<1>2. IndInv /\ AllMove /\ [Next]_vars => AllMove'
    BY MovingStep DEF IndInv
<1>3. AllMove => IntroMoves
  <2> SUFFICES ASSUME AllMove, NEW s \in Sessions, cPc[s] \in Waiting, Reaches(s)
               PROVE  \/ sPc[s] = "loop" /\ up[s] # <<>>
                      \/ sPc[s] \in {"pin", "starting", "hung"}
                      \/ \E i \in DOMAIN down[s] : down[s][i].kind # "Frame"
    BY DEF IntroMoves
  <2>1. Moving(s) /\ s \in sConn
    BY DEF Reaches
  <2> QED
    BY <2>1 DEF Moving, Coming
<1> QED
    BY <1>1, <1>2, <1>3, Inductive, PTL DEF Spec
-----------------------------------------------------------------------------
(* How full the sockets get, and who may stream.                           *)

\* The packets on their way fit into the sockets, a last word after the close not counted.
Fits(s) ==
    /\ Len(down[s]) <= Cap
    /\ Len(up[s]) <= Cap + 1
    /\ s \in cConn => Len(up[s]) <= Cap

\* A client that waits has at most one request under way.
AtMostOne(s) == cPc[s] \in Waiting => Len(up[s]) \in Nat /\ Len(up[s]) <= 1

LEMMA OneRequest ==
    ASSUME NEW s \in Sessions, Talk(s)
    PROVE  AtMostOne(s)
<1>1. Len(<<>>) = 0
    OBVIOUS
<1>2. ASSUME NEW req, NEW ans, Exchange(s, req, ans)
      PROVE  Len(up[s]) \in Nat /\ Len(up[s]) <= 1
  <2>1. Len(<<req>>) = 1
    OBVIOUS
  <2>2. up[s] = <<req>> \/ up[s] = <<>>
    BY <1>2 DEF Exchange
  <2>3. Len(up[s]) = 0 \/ Len(up[s]) = 1
    BY <1>1, <2>1, <2>2
  <2>4. 0 \in Nat /\ 0 <= 1 /\ 1 \in Nat /\ 1 <= 1
    OBVIOUS
  <2> QED
    BY <2>3, <2>4, Zenon
<1>3. up[s] = <<>> => Len(up[s]) \in Nat /\ Len(up[s]) <= 1
    BY <1>1
<1> QED
    BY <1>2, <1>3 DEF AtMostOne, Talk, Waiting, AtIntro, AtHash, AtNonce, AtPin, AtCaps, AtConfigure,
       AtStart, Busy

\* What an operation on a queue does to its length.
LEMMA Lengths ==
    ASSUME NEW P, NEW q \in Seq(P)
    PROVE  /\ Len(q) \in Nat /\ Len(<<>>) = 0
           /\ \A p \in P : Len(Append(q, p)) = Len(q) + 1
           /\ q # <<>> => Len(Tail(q)) = Len(q) - 1
OBVIOUS

\* The packets on their way to a client: every sender tests for room.
LEMMA DownFits ==
    ASSUME DataOK, NEW s \in Sessions, Len(down[s]) <= Cap,
           \/ Connect(s) \/ ConnectFails(s) \/ RecvThread(s) \/ Ping(s) \/ PingStops(s)
           \/ UserCloses(s) \/ Window(s) \/ NetFails(s) \/ Killed(s) \/ SendFrame(s)
           \/ Handler(s)
    PROVE  Len(down'[s]) <= Cap
<1>1. PICK q \in Seq(DownPackets) : q = down[s] /\ Len(q) \in Nat /\ Len(q) <= Cap
    BY OwnQueues, Lengths
<1>2. ASSUME Take(s), q # <<>> PROVE Len(down'[s]) <= Cap
  <2>1. PICK n \in Nat : n = Len(q) /\ n <= Cap
    BY <1>1
  <2>2. Len(down'[s]) = n - 1
    BY <1>1, <1>2, <2>1, OwnQueues, Lengths
  <2> QED
    BY <2>1, <2>2, CapAssumption
<1>3. ASSUME NEW k \in Answers, NEW v \in Sessions \cup Statuses, ServerSend(s, k, v)
      PROVE  Len(down'[s]) <= Cap
  <2>1. PICK p \in DownPackets : p = Packet(k, v)
    BY PacketTypes
  <2>2. down' = down \/ (Len(q) < Cap /\ down'[s] = Append(q, p))
    BY <1>1, <1>3, <2>1 DEF ServerSend, DataOK
  <2>3. Len(Append(q, p)) = Len(q) + 1
    OBVIOUS
  <2> QED
    BY <1>1, <2>2, <2>3, CapAssumption
<1>4. CASE down' = down
    BY <1>4
<1>5. CASE RecvThread(s)
  <2>1. down' = down \/ (Take(s) /\ down[s] # <<>>)
    BY <1>5 DEF RecvThread, RecvServerIntro, RecvPartialHash, RecvServerNonce, PinBoxClosed,
       RecvAuthResponse, RecvHostCaps, RecvConfigured, RecvStarted, RecvUnexpected, StartPing,
       ReportConnected, RunRecv, RecvFails, Arrived
  <2> QED
    BY <1>1, <1>2, <1>4, <2>1
<1>6. CASE Handler(s)
  <2>1. CASE ClientIntro(s) \/ PingRequest(s) \/ QueryHostCaps(s) \/ ConfigureStream(s) \/ AnswerStart(s)
    BY <1>3, <1>4, <2>1 DEF ClientIntro, PingRequest, QueryHostCaps, ConfigureStream, AnswerStart,
       Answers, Statuses
  <2>2. CASE AuthRequest(s) \/ ClientNonce(s) \/ EnterPin(s)
    BY <1>3, <2>2 DEF AuthRequest, ClientNonce, EnterPin, Answers, Statuses
  <2>3. CASE StartStream(s) \/ ServerRecvFails(s) \/ Leave(s)
    BY <1>4, <2>3 DEF StartStream, ServerRecvFails, Leave
  <2> QED
    BY <1>6, <2>1, <2>2, <2>3 DEF Handler
<1>7. CASE JoinPing(s) \/ Killed(s)
  <2>1. down'[s] = <<>>
    BY <1>7 DEF JoinPing, Killed, DataOK
  <2> QED
    BY <2>1, CapAssumption
<1>8. CASE Connect(s) \/ ConnectFails(s) \/ Ping(s) \/ PingStops(s) \/ UserCloses(s) \/ CloseLater(s)
           \/ JoinRecv(s) \/ NetFails(s)
    BY <1>4, <1>8 DEF Connect, ConnectFails, Ping, PingStops, UserCloses, CloseLater, JoinRecv, NetFails
<1>9. CASE SendFrame(s)
    BY <1>3, <1>9 DEF SendFrame, Answers, Statuses
<1> QED
    BY <1>5, <1>6, <1>7, <1>8, <1>9 DEF Window

\* The packets on their way to the host: a client sends a request when the one before was
\* answered, and a ping when there is room; then only its last word follows.
LEMMA UpFits ==
    ASSUME DataOK, NEW s \in Sessions, AtMostOne(s), AtMostOne(s)', Fits(s),
           \/ Connect(s) \/ ConnectFails(s) \/ RecvThread(s) \/ Ping(s) \/ PingStops(s)
           \/ UserCloses(s) \/ Window(s) \/ NetFails(s) \/ Killed(s) \/ SendFrame(s)
           \/ Handler(s)
    PROVE  Len(up'[s]) <= Cap + 1 /\ (s \in cConn' => Len(up'[s]) <= Cap)
<1> DEFINE Goal == Len(up'[s]) <= Cap + 1 /\ (s \in cConn' => Len(up'[s]) <= Cap)
<1>1. PICK q \in Seq(UpPackets) : q = up[s] /\ Len(q) \in Nat /\ Len(q) <= Cap + 1
                                 /\ (s \in cConn => Len(q) <= Cap)
    BY OwnQueues, Lengths DEF Fits
<1>2. CASE cPc'[s] \in Waiting
  <2>1. PICK n \in Nat : n = Len(up'[s]) /\ n <= 1
    BY <1>2 DEF AtMostOne
  <2>2. n <= Cap /\ n <= Cap + 1
    BY <2>1, CapAssumption
  <2> QED
    BY <2>1, <2>2
<1>3. ASSUME up' = up, s \in cConn' => s \in cConn PROVE Goal
    BY <1>1, <1>3, CapAssumption
<1>4. ASSUME NEW k \in Requests, NEW v \in Sessions \cup Statuses, Request(s, k, v)
      PROVE  Len(up'[s]) = Len(q) + 1
  <2>1. PICK p \in UpPackets : p = Packet(k, v)
    BY PacketTypes
  <2>2. up'[s] = Append(q, p)
    BY <1>1, <1>4, <2>1, OwnQueues
  <2> QED
    BY <2>2
<1>5. CASE Connect(s)
  <2>1. cPc'[s] \in Waiting
    BY <1>5 DEF Connect, CGoto, DataOK, Waiting
  <2> QED
    BY <1>2, <2>1
<1>6. CASE ConnectFails(s) \/ PingStops(s) \/ SendFrame(s)
    BY <1>3, <1>6 DEF ConnectFails, PingStops, SendFrame, clientVars
<1>7. CASE RecvServerIntro(s) \/ RecvHostCaps(s) \/ RecvConfigured(s) \/ PinBoxClosed(s)
  <2>1. cPc'[s] \in Waiting
    BY <1>7 DEF RecvServerIntro, RecvHostCaps, RecvConfigured, PinBoxClosed, CGoto, DataOK, Waiting
  <2> QED
    BY <1>2, <2>1
<1>8. CASE RecvPartialHash(s) \/ RecvAuthResponse(s)
  <2>1. cConn' = cConn /\ (cPc'[s] \in Waiting \/ up' = up)
    BY <1>8 DEF RecvPartialHash, RecvAuthResponse, CGoto, DataOK, Waiting
  <2> QED
    BY <1>2, <1>3, <2>1
<1>9. CASE RecvServerNonce(s) \/ RecvStarted(s) \/ StartPing(s) \/ ReportConnected(s) \/ RunRecv(s)
           \/ RecvFails(s)
    BY <1>3, <1>9 DEF RecvServerNonce, RecvStarted, StartPing, ReportConnected, RunRecv, RecvFails,
       clientVars
<1>10. CASE RecvUnexpected(s) \/ Killed(s)
  <2>1. ProcessEnds(s) /\ s \notin cConn'
    BY <1>10 DEF RecvUnexpected, Abort, Killed, ProcessEnds
  <2>2. CASE s \in cConn
    <3>1. Request(s, "EOF", "")
      BY <2>1, <2>2 DEF ProcessEnds, Request
    <3>2. PICK n \in Nat : n = Len(q) /\ n <= Cap
      BY <1>1, <2>2
    <3>3. Len(up'[s]) = n + 1
      BY <1>4, <3>1, <3>2 DEF Requests, Statuses
    <3>4. n + 1 <= Cap + 1
      BY <3>2, CapAssumption
    <3> QED
      BY <2>1, <3>3, <3>4
  <2>3. CASE s \notin cConn
    <3>1. up'[s] = up[s]
      BY <2>1, <2>3 DEF ProcessEnds, DataOK
    <3> QED
      BY <1>1, <2>1, <3>1
  <2> QED
    BY <2>2, <2>3
<1>11. CASE Ping(s)
  <2>1. CASE s \in net
    <3>1. Len(up'[s]) = Len(q) + 1 /\ Len(q) < Cap
      BY <1>1, <1>4, <1>11, <2>1 DEF Ping, Requests, Statuses
    <3> QED
      BY <1>1, <3>1, CapAssumption
  <2>2. CASE s \notin net
    BY <1>3, <1>11, <2>2 DEF Ping
  <2> QED
    BY <2>1, <2>2
<1>12. CASE UserCloses(s) \/ CloseLater(s)
  <2>1. Disconnect(s)
    BY <1>12 DEF UserCloses, CloseLater
  <2>2. CASE s \in cConn
    <3>1. Request(s, "CloseNotify", "") /\ s \notin cConn'
      BY <2>1, <2>2 DEF Disconnect, Request
    <3>2. PICK n \in Nat : n = Len(q) /\ n <= Cap
      BY <1>1, <2>2
    <3>3. Len(up'[s]) = n + 1
      BY <1>4, <3>1, <3>2 DEF Requests, Statuses
    <3>4. n + 1 <= Cap + 1
      BY <3>2, CapAssumption
    <3> QED
      BY <3>1, <3>3, <3>4
  <2>3. CASE s \notin cConn
    <3>1. up'[s] = up[s] /\ s \notin cConn'
      BY <2>1, <2>3 DEF Disconnect, DataOK
    <3> QED
      BY <1>1, <3>1
  <2> QED
    BY <2>2, <2>3
<1>13. CASE JoinRecv(s) \/ JoinPing(s)
    BY <1>3, <1>13 DEF JoinRecv, JoinPing
<1>14. CASE NetFails(s) \/ Handler(s)
  <2>1. cConn' = cConn
    BY <1>14 DEF NetFails, Handler, ClientIntro, PingRequest, QueryHostCaps, ConfigureStream, StartStream,
       AnswerStart, AuthRequest, ClientNonce, EnterPin, ServerRecvFails, Leave, clientVars
  <2>2. \/ up'[s] = q \/ up'[s] = <<>> \/ (q # <<>> /\ up'[s] = Tail(q))
    <3>1. CASE NetFails(s) \/ Leave(s)
      BY <3>1 DEF NetFails, Leave, DataOK
    <3>2. CASE AnswerStart(s) \/ EnterPin(s) \/ ServerRecvFails(s)
      BY <1>1, <3>2 DEF AnswerStart, EnterPin, ServerRecvFails
    <3>3. CASE \E k \in Requests : Received(s, k)
      BY <1>1, <3>3, OwnQueues DEF Received
    <3> QED
      BY <1>14, <3>1, <3>2, <3>3 DEF Handler, ClientIntro, PingRequest, QueryHostCaps, ConfigureStream,
         StartStream, AuthRequest, ClientNonce, Requests
  <2>3. PICK n \in Nat : n = Len(q) /\ n <= Cap + 1 /\ (s \in cConn => n <= Cap)
    BY <1>1
  <2>4. PICK m \in Nat : m = Len(up'[s]) /\ m <= n
    <3>1. q # <<>> => Len(Tail(q)) \in Nat /\ Len(Tail(q)) <= Len(q)
      OBVIOUS
    <3>2. Len(<<>>) = 0
      OBVIOUS
    <3> QED
      BY <2>2, <2>3, <3>1, <3>2
  <2>5. m <= Cap + 1 /\ (s \in cConn => m <= Cap)
    BY <2>3, <2>4, CapAssumption
  <2> QED
    BY <2>1, <2>4, <2>5
<1> QED
    BY <1>5, <1>6, <1>7, <1>8, <1>9, <1>10, <1>11, <1>12, <1>13, <1>14 DEF RecvThread, Window

\* Every step keeps the packets within the sockets.
LEMMA FitsStep ==
    ASSUME DataOK, [Next]_vars, NEW s \in Sessions, AtMostOne(s), AtMostOne(s)', Fits(s)
    PROVE  Fits(s)'
<1>1. DataOK /\ AtMostOne(s) /\ AtMostOne(s)' /\ Fits(s)
    OBVIOUS
<1>2. CASE UNCHANGED vars
    BY <1>1, <1>2 DEF vars, clientVars, Fits
<1>3. CASE BroadcastBegin
    BY <1>1, <1>3 DEF BroadcastBegin, clientVars, Fits
<1>4. ASSUME NEW t \in Sessions,
             \/ Connect(t) \/ ConnectFails(t) \/ RecvThread(t) \/ Ping(t) \/ PingStops(t)
             \/ UserCloses(t) \/ Window(t) \/ NetFails(t) \/ Killed(t) \/ SendFrame(t)
             \/ Handler(t)
      PROVE  Fits(s)'
  <2>1. CASE s # t
    <3>1. Elsewhere(s)
      BY <1>1, <1>4, <2>1, Locality
    <3> QED
      BY <1>1, <3>1 DEF Elsewhere, Fits
  <2>2. CASE s = t
    <3>1. Len(down'[s]) <= Cap
      BY <1>1, <1>4, <2>2, DownFits DEF Fits
    <3>2. Len(up'[s]) <= Cap + 1 /\ (s \in cConn' => Len(up'[s]) <= Cap)
      BY <1>1, <1>4, <2>2, UpFits
    <3> QED
      BY <3>1, <3>2 DEF Fits
  <2> QED
    BY <2>1, <2>2
<1> QED
    BY <1>2, <1>3, <1>4 DEF Next

\* Only paired clients are authorized, and only authorized ones stream.
Entitled ==
    /\ sStreaming \subseteq authorized
    /\ \A s \in authorized : Owner[s] \in known

\* Whoever's connection has started the stream was paired before, or the operator has typed
\* that client's PIN.
OnlyPairedStream ==
    \A s \in sStreaming : Owner[s] \in Paired \/ \E t \in typed : Owner[t] = Owner[s]

\* Every step keeps it; nothing is ever taken back.
LEMMA EntitledStep ==
    ASSUME Entitled, [Next]_vars
    PROVE  Entitled'
<1>1. CASE UNCHANGED <<sStreaming, authorized, known>>
    BY <1>1 DEF Entitled
<1>2. CASE UNCHANGED vars \/ BroadcastBegin
    BY <1>1, <1>2 DEF vars, serverVars, BroadcastBegin
<1>3. ASSUME NEW s \in Sessions, Connect(s) PROVE Entitled'
    BY <1>3 DEF Connect, Entitled
<1>4. ASSUME NEW s \in Sessions, EnterPin(s) PROVE Entitled'
  <2>1. /\ sStreaming' = sStreaming
        /\ \/ known' = known \cup {Owner[s]} /\ authorized' = authorized \cup {s}
           \/ UNCHANGED <<known, authorized>>
    BY <1>4 DEF EnterPin
  <2> QED
    BY <2>1 DEF Entitled
<1>5. ASSUME NEW s \in Sessions, StartStream(s) PROVE Entitled'
  <2>1. /\ UNCHANGED <<authorized, known>>
        /\ sStreaming' = sStreaming \/ (s \in authorized /\ sStreaming' = sStreaming \cup {s})
    BY <1>5 DEF StartStream, StartHangs
  <2> QED
    BY <2>1 DEF Entitled
<1>6. ASSUME NEW s \in Sessions, RecvThread(s) \/ ConnectFails(s) PROVE Entitled'
    BY <1>1, <1>6 DEF ConnectFails, RecvThread, RecvServerIntro, RecvPartialHash, RecvServerNonce,
       PinBoxClosed, RecvAuthResponse, RecvHostCaps, RecvConfigured, RecvStarted, RecvUnexpected,
       StartPing, ReportConnected, RunRecv, RecvFails, serverVars
<1>7. ASSUME NEW s \in Sessions,
             \/ Ping(s) \/ PingStops(s) \/ UserCloses(s) \/ Window(s) \/ NetFails(s) \/ Killed(s)
             \/ SendFrame(s)
      PROVE  Entitled'
    BY <1>1, <1>7 DEF Ping, PingStops, UserCloses, Window, CloseLater, JoinRecv, JoinPing, NetFails,
       Killed, SendFrame, serverVars
<1>8. ASSUME NEW s \in Sessions,
             \/ ClientIntro(s) \/ PingRequest(s) \/ QueryHostCaps(s) \/ ConfigureStream(s)
             \/ AnswerStart(s) \/ AuthRequest(s) \/ ClientNonce(s) \/ ServerRecvFails(s) \/ Leave(s)
      PROVE  Entitled'
    BY <1>1, <1>8 DEF ClientIntro, PingRequest, QueryHostCaps, ConfigureStream, AnswerStart, AuthRequest,
       ClientNonce, ServerRecvFails, Leave
<1> QED
    BY <1>2, <1>3, <1>4, <1>5, <1>6, <1>7, <1>8 DEF Next, Handler

\* The stream is started by paired clients, and by nobody else, in whichever order
\* they connect, pair and reconnect.
THEOREM StreamPaired == Spec => []OnlyPairedStream
<1>1. Init => Entitled
    BY DEF Init, Entitled
<1>2. Entitled /\ [Next]_vars => Entitled'
    BY EntitledStep
<1>3. Entitled /\ KnownByPin => OnlyPairedStream
    BY DEF Entitled, KnownByPin, OnlyPairedStream
<1> QED
    BY <1>1, <1>2, <1>3, PinCorrect, PTL DEF Spec

\* What a step does to the variables of the stream.
LEMMA StreamStep ==
    ASSUME [Next]_vars
    PROVE  /\ streaming' = streaming \/ streaming' = TRUE \/ \E L : streaming' = (streaming /\ L)
           /\ began' = began \/ began' = TRUE
           /\ bc' \subseteq bc \cup Sessions
<1>1. CASE UNCHANGED vars
    BY <1>1 DEF vars, serverVars, streamVars
<1>2. ASSUME NEW s \in Sessions, Connect(s) \/ ConnectFails(s) \/ RecvThread(s)
      PROVE  UNCHANGED streamVars
    BY <1>2 DEF Connect, ConnectFails, RecvThread, RecvServerIntro, RecvPartialHash, RecvServerNonce,
       PinBoxClosed, RecvAuthResponse, RecvHostCaps, RecvConfigured, RecvStarted, RecvUnexpected,
       StartPing, ReportConnected, RunRecv, RecvFails, serverVars
<1>3. ASSUME NEW s \in Sessions,
             \/ Ping(s) \/ PingStops(s) \/ UserCloses(s) \/ Window(s) \/ NetFails(s) \/ Killed(s)
      PROVE  UNCHANGED streamVars
    BY <1>3 DEF Ping, PingStops, UserCloses, Window, CloseLater, JoinRecv, JoinPing, NetFails, Killed,
       serverVars
<1>4. ASSUME NEW s \in Sessions,
             \/ ClientIntro(s) \/ PingRequest(s) \/ QueryHostCaps(s) \/ ConfigureStream(s)
             \/ AnswerStart(s) \/ AuthRequest(s) \/ ClientNonce(s) \/ ServerRecvFails(s) \/ EnterPin(s)
      PROVE  UNCHANGED streamVars
    BY <1>4 DEF ClientIntro, PingRequest, QueryHostCaps, ConfigureStream, AnswerStart, AuthRequest,
       ClientNonce, ServerRecvFails, EnterPin
<1>5. ASSUME NEW s \in Sessions, StartStream(s)
      PROVE  (streaming' = streaming \/ streaming' = TRUE) /\ (began' = began \/ began' = TRUE) /\ bc' = bc
    BY <1>5, Zenon DEF StartStream
<1>6. ASSUME NEW s \in Sessions, Leave(s)
      PROVE  streaming' = (streaming /\ Live # {s}) /\ began' = began /\ bc' = bc \ {s}
    BY <1>6, Zenon DEF Leave
<1>7. ASSUME NEW s \in Sessions, SendFrame(s)
      PROVE  streaming' = streaming /\ began' = began /\ bc' = bc \ {s}
    BY <1>7, Zenon DEF SendFrame
<1>8. CASE BroadcastBegin
  <2>1. streaming' = streaming /\ began' = began /\ bc' = Live
    BY <1>8, Zenon DEF BroadcastBegin
  <2>2. Live \subseteq Sessions
    BY DEF Live
  <2> QED
    BY <2>1, <2>2, Zenon
<1>9. CASE UNCHANGED streamVars
    BY <1>9, Zenon DEF streamVars
<1> QED
    BY <1>1, <1>2, <1>3, <1>4, <1>5, <1>6, <1>7, <1>8, <1>9, Zenon DEF Next, Window, Handler

\* They keep their types.
StreamOK == streaming \in BOOLEAN /\ began \in BOOLEAN /\ bc \subseteq Sessions

LEMMA StreamingStep == StreamOK /\ [Next]_vars => StreamOK'
<1> SUFFICES ASSUME StreamOK, [Next]_vars PROVE StreamOK'
    OBVIOUS
<1>1. /\ streaming' = streaming \/ streaming' = TRUE \/ \E L : streaming' = (streaming /\ L)
      /\ began' = began \/ began' = TRUE
      /\ bc' \subseteq bc \cup Sessions
    BY StreamStep
<1> QED
    BY <1>1, Zenon DEF StreamOK

\* The host's and the clients' variables have their types, and no socket holds more than it
\* can: requests wait for their answers, pings and frames for room.
THEOREM TypeCorrect == Spec => []TypeOK
<1> DEFINE AllOne == \A s \in Sessions : AtMostOne(s)
           AllFit == \A s \in Sessions : Fits(s)
           Bool   == StreamOK
<1>1. Init => AllFit
  <2>1. Len(<<>>) = 0 /\ 0 <= Cap /\ 0 <= Cap + 1
    BY CapAssumption
  <2> QED
    BY <2>1 DEF Init, Fits
<1>2. IndInv => DataOK /\ AllOne
    BY OneRequest DEF IndInv, InStep
<1>3. DataOK /\ AllOne /\ AllOne' /\ AllFit /\ [Next]_vars => AllFit'
    BY FitsStep
<1>4. Init => Bool
    BY Zenon DEF Init, StreamOK
<1>5. Bool /\ [Next]_vars => Bool'
    BY StreamingStep
<1>6. IndInv /\ AllFit /\ Bool => TypeOK
  <2> SUFFICES ASSUME IndInv, AllFit, Bool PROVE TypeOK
    OBVIOUS
  <2>1. authState \in [Sessions -> Sessions \cup {NoNonce}]
    <3>1. \A s \in Sessions : authState[s] \in {NoNonce, s}
      BY DEF IndInv, Pinned, PinOK
    <3> QED
      BY <3>1 DEF IndInv, DataOK
  <2> HIDE DEF Bool
  <2>2. /\ flagRunPing \cup cConn \cup closing \cup net \cup sConn \cup authorized
                \cup sStreaming \cup bc \cup typed \subseteq Sessions
        /\ trusted \cup known \subseteq Clients
    <3>1. bc \subseteq Sessions
      BY Zenon DEF Bool, StreamOK
    <3> QED
      BY <3>1 DEF IndInv, DataOK
  <2>3. \A s \in Sessions : Len(down[s]) <= Cap /\ Len(up[s]) <= Cap + 1
    BY DEF Fits
  <2>4. /\ cPc \in [Sessions -> CPcs] /\ sPc \in [Sessions -> SPcs]
        /\ pingPc \in [Sessions -> {"off", "on", "done"}]
        /\ uiPc \in [Sessions -> {"hidden", "shown", "joinRecv", "joinPing", "gone"}]
    BY DEF IndInv, DataOK
  <2> QED
    BY <2>1, <2>2, <2>3, <2>4, Zenon DEF TypeOK, Bool, StreamOK
<1> HIDE DEF AllOne, AllFit, Bool
<1> QED
    BY <1>1, <1>2, <1>3, <1>4, <1>5, <1>6, Inductive, PTL DEF Spec
-----------------------------------------------------------------------------
(* How a session ends.                                                     *)

\* The host will read that the client has closed the socket.
Told(s) == \E i \in DOMAIN up[s] : up[s][i].kind \in {"CloseNotify", "EOF"}

\* A window that joins its threads has closed the socket and stopped the pings, and its receive
\* thread is past the negotiation; one that is gone has no thread left; and a host whose socket
\* is still open has the client's last word before it.
Ending(s) ==
    /\ uiPc[s] \in {"joinRecv", "joinPing"} =>
            s \notin cConn /\ s \notin flagRunPing /\ cPc[s] \in {"report", "receiving", "done"}
    /\ uiPc[s] = "joinPing" => cPc[s] = "done"
    /\ uiPc[s] = "gone" =>
            cPc[s] \in {"done", "aborted", "killed"} /\ pingPc[s] # "on" /\ s \notin cConn
    /\ s \in sConn /\ s \in net /\ s \notin cConn => Told(s)

JoinsEnd == \A s \in Sessions : Ending(s)

EndInv(s) ==
    /\ Ending(s)
    /\ pingPc[s] = "on" \/ (s \in closing /\ cPc[s] # "killed") =>
            cPc[s] \in {"report", "receiving", "done"}
    /\ cPc[s] = "killed" => uiPc[s] = "gone"
    /\ uiPc[s] = "shown" => cPc[s] \in {"receiving", "done"}
    /\ s \in sConn => cPc[s] # "unborn"

\* The last word is not taken by a handler, and stays when packets are added.
LEMMA ToldStays ==
    ASSUME DataOK, NEW s \in Sessions
    PROVE  /\ up'[s] = up[s] /\ Told(s) => Told(s)'
           /\ \A k \in Requests, v \in Sessions \cup Statuses : Request(s, k, v) /\ Told(s) => Told(s)'
           /\ \A v \in Sessions \cup Statuses :
                Request(s, "CloseNotify", v) \/ Request(s, "EOF", v) => Told(s)'
           /\ \A k \in Requests \ {"CloseNotify", "EOF"} : Received(s, k) /\ Told(s) => Told(s)'
<1>1. PICK q \in Seq(UpPackets) : q = up[s]
    BY OwnQueues
<1>2. ASSUME NEW k \in Requests, NEW v \in Sessions \cup Statuses, Request(s, k, v)
      PROVE  (Told(s) => Told(s)') /\ (k \in {"CloseNotify", "EOF"} => Told(s)')
  <2>1. PICK p \in UpPackets : p = Packet(k, v)
    BY PacketTypes
  <2>2. p.kind = k /\ up'[s] = Append(q, p)
    BY <1>1, <1>2, <2>1, OwnQueues, PacketFields
  <2>3. /\ Len(q) + 1 \in DOMAIN Append(q, p) /\ Append(q, p)[Len(q) + 1] = p
        /\ \A i \in DOMAIN q : i \in DOMAIN Append(q, p) /\ Append(q, p)[i] = q[i]
    OBVIOUS
  <2> QED
    BY <1>1, <2>2, <2>3 DEF Told
<1>3. ASSUME NEW k \in Requests \ {"CloseNotify", "EOF"}, Received(s, k), Told(s)
      PROVE  Told(s)'
  <2>1. q # <<>> /\ Head(q).kind = k /\ up'[s] = Tail(q)
    BY <1>1, <1>3, OwnQueues DEF Received
  <2>2. PICK i \in DOMAIN q : q[i].kind \in {"CloseNotify", "EOF"}
    BY <1>1, <1>3 DEF Told
  <2>3. Head(q) = q[1]
    BY <2>1
  <2>4. i # 1
    BY <1>3, <2>1, <2>2, <2>3
  <2>5. PICK j \in Nat : j = i - 1 /\ j \in DOMAIN Tail(q) /\ Tail(q)[j] = q[i]
    <3>1. i \in 1..Len(q) /\ i - 1 \in 1..(Len(q) - 1)
      BY <2>2, <2>4
    <3>2. DOMAIN Tail(q) = 1..(Len(q) - 1)
      BY <2>1
    <3>3. Tail(q)[i - 1] = q[i]
      BY <2>1, <3>1
    <3> QED
      BY <3>1, <3>2, <3>3
  <2> QED
    BY <2>1, <2>2, <2>5 DEF Told
<1>4. ASSUME up'[s] = up[s], Told(s) PROVE Told(s)'
    BY <1>4 DEF Told
<1> QED
    BY <1>2, <1>3, <1>4 DEF Requests

\* The steps of the receive thread.
LEMMA RecvEnds ==
    ASSUME DataOK, NEW s \in Sessions, Stage(s), EndInv(s), Connect(s) \/ ConnectFails(s) \/ RecvThread(s)
    PROVE  EndInv(s)'
<1> USE DEF EndInv, Ending
<1>1. CASE Connect(s)
  <2>1. /\ cPc[s] = "unborn" /\ cPc'[s] = "intro" /\ s \in cConn'
        /\ UNCHANGED <<pingPc, flagRunPing, uiPc, closing, net>>
    BY <1>1 DEF Connect, CGoto, DataOK
  <2>2. pingPc[s] = "off" /\ uiPc[s] = "hidden" /\ s \notin closing
    BY <2>1 DEF Stage
  <2> QED
    BY <2>1, <2>2
<1>2. CASE ConnectFails(s)
  <2>1. /\ cPc[s] = "unborn" /\ cPc'[s] = "done"
        /\ UNCHANGED <<pingPc, flagRunPing, uiPc, net, cConn, sConn>>
    BY <1>2 DEF ConnectFails, CGoto, DataOK
  <2>2. pingPc[s] = "off" /\ uiPc[s] = "hidden"
    BY <2>1 DEF Stage
  <2> QED
    BY <2>1, <2>2
<1>3. CASE RecvServerIntro(s) \/ RecvPartialHash(s) \/ RecvServerNonce(s) \/ PinBoxClosed(s)
           \/ RecvAuthResponse(s) \/ RecvHostCaps(s) \/ RecvConfigured(s) \/ RecvStarted(s)
  <2>1. /\ cPc[s] \in Waiting /\ UNCHANGED <<pingPc, flagRunPing, uiPc, cConn>>
        /\ \/ cPc'[s] \in Waiting \cup {"online"} /\ closing' = closing
           \/ cPc'[s] = "done"
    <3>1. CGoto(s, "done") => cPc'[s] = "done"
      BY DEF CGoto, DataOK
    <3>2. \A pc \in Waiting \cup {"online"} : CGoto(s, pc) => cPc'[s] \in Waiting \cup {"online"}
      BY DEF CGoto, DataOK
    <3> QED
      BY <1>3, <3>1, <3>2 DEF RecvServerIntro, RecvPartialHash, RecvServerNonce, PinBoxClosed,
         RecvAuthResponse, RecvHostCaps, RecvConfigured, RecvStarted, IntroFails, Waiting
  <2>2. pingPc[s] = "off" /\ uiPc[s] = "hidden" /\ s \notin closing /\ s \in cConn
    BY <2>1 DEF Stage
  <2> QED
    BY <2>1, <2>2 DEF Waiting
<1>4. CASE RecvUnexpected(s)
  <2>1. /\ cPc[s] \in Waiting /\ cPc'[s] = "aborted" /\ s \notin cConn' /\ pingPc'[s] = "done"
        /\ uiPc'[s] = "gone" /\ closing' = closing
    BY <1>4 DEF RecvUnexpected, Abort, ProcessEnds, CGoto, DataOK, Waiting
  <2>2. s \notin closing /\ s \in cConn
    BY <2>1 DEF Stage
  <2>3. Told(s)'
    <3>1. Request(s, "EOF", "")
      BY <1>4, <2>2 DEF RecvUnexpected, Abort, ProcessEnds, Request
    <3> QED
      BY <3>1, ToldStays DEF Statuses
  <2> QED
    BY <2>1, <2>2, <2>3
<1>5. CASE StartPing(s)
  <2>1. /\ cPc[s] = "online" /\ cPc'[s] = "report"
        /\ UNCHANGED <<uiPc, closing, cConn, sConn, net, up>>
    BY <1>5 DEF StartPing, CGoto, DataOK, serverVars
  <2>2. uiPc[s] = "hidden"
    BY <2>1 DEF Stage
  <2> QED
    BY <2>1, <2>2 DEF Told
<1>6. CASE ReportConnected(s)
  <2>1. /\ cPc[s] = "report" /\ cPc'[s] = "receiving"
        /\ uiPc'[s] = uiPc[s] \/ uiPc'[s] = "shown"
        /\ UNCHANGED <<pingPc, flagRunPing, closing, cConn, sConn, net, up>>
    BY <1>6 DEF ReportConnected, CGoto, DataOK, serverVars
  <2> QED
    BY <2>1 DEF Told
<1>7. CASE RunRecv(s)
    BY <1>7 DEF RunRecv, clientVars, serverVars, Told
<1>8. CASE RecvFails(s)
  <2>1. /\ cPc[s] \in Receiving /\ cPc'[s] = "done" /\ (s \notin cConn \/ s \notin net)
        /\ s \notin cConn' /\ UNCHANGED <<pingPc, flagRunPing, uiPc, sConn, net, up>>
    BY <1>8 DEF RecvFails, CGoto, DataOK, serverVars
  <2> QED
    BY <2>1 DEF Told, Receiving
<1> QED
    BY <1>1, <1>2, <1>3, <1>4, <1>5, <1>6, <1>7, <1>8 DEF RecvThread

\* The steps of the ping thread, of the window and of the network.
LEMMA WindowEnds ==
    ASSUME DataOK, NEW s \in Sessions, Stage(s), EndInv(s),
           Ping(s) \/ PingStops(s) \/ UserCloses(s) \/ Window(s) \/ NetFails(s) \/ Killed(s)
    PROVE  EndInv(s)'
<1> USE DEF EndInv, Ending
<1>1. CASE Ping(s)
  <2>1. /\ pingPc[s] = "on" /\ s \in flagRunPing /\ s \in cConn
        /\ UNCHANGED <<cPc, pingPc, flagRunPing, uiPc, sConn, net>>
        /\ (s \in net /\ cConn' = cConn /\ closing' = closing) \/ s \notin net
    BY <1>1 DEF Ping, serverVars
  <2> QED
    BY <2>1
<1>2. CASE PingStops(s)
  <2>1. /\ pingPc[s] = "on" /\ pingPc'[s] = "done"
        /\ UNCHANGED <<cPc, flagRunPing, uiPc, closing, cConn, sConn, net, up>>
    BY <1>2 DEF PingStops, serverVars, DataOK
  <2> QED
    BY <2>1 DEF Told
<1>3. CASE UserCloses(s) \/ CloseLater(s)
  <2>1. /\ Disconnect(s) /\ uiPc'[s] = "joinRecv" /\ (uiPc[s] = "shown" \/ s \in closing)
        /\ UNCHANGED <<cPc, pingPc, closing, sConn, net>>
    BY <1>3 DEF UserCloses, CloseLater, serverVars, DataOK
  <2>2. s \notin cConn' /\ s \notin flagRunPing' /\ uiPc'[s] = "joinRecv"
    BY <1>3 DEF UserCloses, CloseLater, Disconnect, DataOK
  <2>3. cPc[s] \in {"report", "receiving", "done"}
    BY <1>3 DEF UserCloses, CloseLater
  <2>4. s \in sConn /\ s \in net => Told(s)'
    <3>1. CASE s \in cConn
      <4>1. Request(s, "CloseNotify", "")
        BY <1>3, <3>1 DEF UserCloses, CloseLater, Disconnect, Request
      <4> QED
        BY <4>1, ToldStays DEF Statuses
    <3>2. CASE s \notin cConn
      <4>1. up'[s] = up[s]
        BY <1>3, <3>2 DEF UserCloses, CloseLater, Disconnect, DataOK
      <4> QED
        BY <3>2, <4>1, ToldStays
    <3> QED
      BY <3>1, <3>2
  <2> QED
    BY <2>1, <2>2, <2>3, <2>4
<1>4. CASE JoinRecv(s)
  <2>1. /\ uiPc[s] = "joinRecv" /\ uiPc'[s] = "joinPing" /\ cPc[s] = "done" /\ s \notin flagRunPing'
        /\ UNCHANGED <<cPc, pingPc, closing, cConn, sConn, net, up>>
    BY <1>4 DEF JoinRecv, serverVars, DataOK
  <2> QED
    BY <2>1 DEF Told
<1>5. CASE JoinPing(s)
  <2>1. /\ uiPc[s] = "joinPing" /\ uiPc'[s] = "gone" /\ pingPc[s] # "on"
        /\ UNCHANGED <<cPc, pingPc, closing, cConn, sConn, net, up>>
    BY <1>5 DEF JoinPing, serverVars, DataOK
  <2> QED
    BY <2>1 DEF Told
<1>6. CASE NetFails(s)
  <2>1. /\ s \notin net' /\ UNCHANGED <<cPc, pingPc, flagRunPing, uiPc, closing, cConn, sConn>>
    BY <1>6 DEF NetFails, clientVars, serverVars
  <2> QED
    BY <2>1
<1>7. CASE Killed(s)
  <2>1. /\ cPc'[s] = "killed" /\ uiPc'[s] = "gone" /\ pingPc'[s] = "done" /\ s \notin cConn'
        /\ UNCHANGED <<sConn, net>> /\ cPc[s] # "unborn"
    BY <1>7 DEF Killed, ProcessEnds, CGoto, DataOK, serverVars
  <2>2. s \in sConn /\ s \in net => Told(s)'
    <3>1. CASE s \in cConn
      <4>1. Request(s, "EOF", "")
        BY <1>7, <3>1 DEF Killed, ProcessEnds, Request
      <4> QED
        BY <4>1, ToldStays DEF Statuses
    <3>2. CASE s \notin cConn
      <4>1. up'[s] = up[s]
        BY <1>7, <3>2 DEF Killed, ProcessEnds, DataOK
      <4> QED
        BY <3>2, <4>1, ToldStays
    <3> QED
      BY <3>1, <3>2
  <2> QED
    BY <2>1, <2>2
<1> QED
    BY <1>1, <1>2, <1>3, <1>4, <1>5, <1>6, <1>7 DEF Window

\* The steps of the host: it takes everything but the last word.
LEMMA HostEnds ==
    ASSUME DataOK, NEW s \in Sessions, EndInv(s), Handler(s) \/ SendFrame(s)
    PROVE  EndInv(s)'
<1>1. UNCHANGED <<cPc, pingPc, flagRunPing, uiPc, closing, cConn, net>>
    BY DEF Handler, ClientIntro, PingRequest, QueryHostCaps, ConfigureStream, StartStream,
       AnswerStart, AuthRequest, ClientNonce, EnterPin, ServerRecvFails, Leave, SendFrame,
       clientVars
<1>2. s \in sConn' => s \in sConn
    BY SocketsBreak
<1>3. Told(s) => Told(s)' \/ s \notin sConn'
  <2>1. CASE ClientIntro(s) \/ PingRequest(s) \/ QueryHostCaps(s) \/ ConfigureStream(s)
             \/ StartStream(s) \/ AuthRequest(s) \/ ClientNonce(s)
    <3>1. \E k \in Requests \ {"CloseNotify", "EOF"} : Received(s, k)
      BY <2>1 DEF ClientIntro, PingRequest, QueryHostCaps, ConfigureStream, StartStream, AuthRequest,
         ClientNonce, Requests
    <3> QED
      BY <3>1, ToldStays
  <2>2. CASE AnswerStart(s) \/ EnterPin(s) \/ ServerRecvFails(s) \/ SendFrame(s)
    <3>1. up' = up
      BY <2>2 DEF AnswerStart, EnterPin, ServerRecvFails, SendFrame
    <3> QED
      BY <3>1, ToldStays
  <2>3. CASE Leave(s)
    BY <2>3 DEF Leave
  <2> QED
    BY <2>1, <2>2, <2>3 DEF Handler
<1> QED
    BY <1>1, <1>2, <1>3 DEF EndInv, Ending

\* Every step keeps it.
LEMMA EndStep ==
    ASSUME DataOK, InStep, [Next]_vars, NEW s \in Sessions, EndInv(s)
    PROVE  EndInv(s)'
<1>1. Stage(s)
    BY DEF InStep
<1>2. CASE UNCHANGED vars
    BY <1>2 DEF vars, clientVars, serverVars, EndInv, Ending, Told
<1>3. CASE BroadcastBegin
    BY <1>3 DEF BroadcastBegin, clientVars, EndInv, Ending, Told
<1>4. ASSUME NEW t \in Sessions,
             \/ Connect(t) \/ ConnectFails(t) \/ RecvThread(t) \/ Ping(t) \/ PingStops(t)
             \/ UserCloses(t) \/ Window(t) \/ NetFails(t) \/ Killed(t) \/ SendFrame(t)
             \/ Handler(t)
      PROVE  EndInv(s)'
  <2>1. CASE s = t
    BY <1>1, <1>4, <2>1, RecvEnds, WindowEnds, HostEnds
  <2>2. CASE s # t
    <3>1. Elsewhere(s)
      BY <1>4, <2>2, Locality
    <3>2. (s \in sConn' => s \in sConn) /\ (s \in net' => s \in net)
      BY <1>4, <2>2, SocketsBreak
    <3>3. s \in flagRunPing' => s \in flagRunPing
      <4>1. CASE Handler(t) \/ NetFails(t) \/ Killed(t) \/ SendFrame(t)
        BY <4>1 DEF NetFails, Killed, SendFrame, Handler, ClientIntro, PingRequest, QueryHostCaps, ConfigureStream,
           StartStream, AnswerStart, AuthRequest, ClientNonce, EnterPin, ServerRecvFails, Leave, clientVars
      <4>2. CASE RecvThread(t)
        BY <2>2, <4>2 DEF RecvThread, RecvServerIntro, RecvPartialHash, RecvServerNonce, PinBoxClosed,
           RecvAuthResponse, RecvHostCaps, RecvConfigured, RecvStarted, RecvUnexpected, StartPing,
           ReportConnected, RunRecv, RecvFails, clientVars
      <4>3. CASE Connect(t) \/ ConnectFails(t) \/ Ping(t) \/ PingStops(t)
        BY <4>3 DEF Connect, ConnectFails, Ping, PingStops
      <4>4. CASE UserCloses(t) \/ Window(t)
        BY <4>4 DEF UserCloses, Window, CloseLater, JoinRecv, JoinPing, Disconnect
      <4> QED
        BY <1>4, <4>1, <4>2, <4>3, <4>4
    <3> QED
      BY <3>1, <3>2, <3>3 DEF Elsewhere, EndInv, Ending, Told
  <2> QED
    BY <2>1, <2>2
<1> QED
    BY <1>2, <1>3, <1>4 DEF Next

\* ~StreamClient joins threads that can end, a window that is gone leaves none behind, and the
\* host is never left with a dead client and nothing to read: the safe part of SessionEnds.
THEOREM JoinsCorrect == Spec => []JoinsEnd
<1> DEFINE AllEnd == \A s \in Sessions : EndInv(s)
<1>1. Init => AllEnd
    BY DEF Init, EndInv, Ending
<1>2. IndInv /\ AllEnd /\ [Next]_vars => AllEnd'
    BY EndStep DEF IndInv
<1>3. AllEnd => JoinsEnd
    BY DEF EndInv, JoinsEnd
<1> QED
    BY <1>1, <1>2, <1>3, Inductive, PTL DEF Spec
=============================================================================
