------------------------------ MODULE Session -------------------------------
(***************************************************************************)
(* Sessions between twilight clients and one host, over TLS sockets.       *)
(*                                                                         *)
(* The client of a session is a StreamWindow with its StreamClient: the    *)
(* receive thread greets the host, authenticates with a PIN if it must,    *)
(* negotiates the stream (doIntro_, doAuth_) and then receives packets;    *)
(* the ping thread sends pings; the user interface closes the window.      *)
(* The host's side of a session is a Connection, whose thread answers      *)
(* requests, and the encoder, which broadcasts a frame to one connection   *)
(* after the other, whatever its client is waiting for.                    *)
(*                                                                         *)
(* A socket delivers whole packets in order (NetworkSocket::send holds     *)
(* sendLock for a packet and its extra data).  Each direction holds at     *)
(* most Cap packets; a send to a full socket blocks.  The registry of the  *)
(* host, its locks and the races inside startStream are those of module    *)
(* StreamServer: here a start, and the removal of a connection, are one    *)
(* step each; but a start that follows another one may hang for ever in    *)
(* the joins of the capture pipeline (PipelineProofs, StartHangs).         *)
(***************************************************************************)
EXTENDS Naturals, Sequences, FiniteSets

CONSTANTS
    Sessions,   \* the connections that may be made, each once
    Clients,    \* the clients, identified by their certificates
    Paired,     \* those paired with the host before, as both their files say
    Owner,      \* the client of each session
    NoPin,      \* no PIN is displayed
    NoNonce,    \* authState is null
    Cap,        \* packets a socket buffers in one direction
    Frail       \* the sessions that users, the network or a kill may interrupt

ASSUME OwnerAssumption   == Owner \in [Sessions -> Clients]
ASSUME PairedAssumption  == Paired \subseteq Clients
ASSUME NoNonceAssumption == NoNonce \notin Sessions
ASSUME NoPinAssumption   == NoPin \notin Sessions \X (Sessions \cup {NoNonce})
ASSUME CapAssumption     == Cap \in Nat \ {0}
ASSUME FrailAssumption   == Frail \subseteq Sessions

VARIABLES
    cPc,        \* where the receive thread of each client is
    pingPc,     \* where its ping thread is
    flagRunPing,\* the sessions whose flagRunPing is set
    cConn,      \* the sessions whose client socket is connected
    uiPc,       \* where the window of the session is
    closing,    \* the sessions that reported DISCONNECTED to their window
    displayed,  \* the PIN the client displays
    trusted,    \* the clients that stored the host's certHash
    up, down,   \* packets on their way to the host, and to the client
    net,        \* the sessions whose network path works
    sPc,        \* where the thread of each Connection is
    sConn,      \* the sessions whose host socket is connected
    authorized, \* Connection::authorized
    authState,  \* the nonce the client has committed itself to, if any
    sStreaming, \* Connection::streaming
    streaming,  \* StreamServer::streaming
    began,      \* has the capture pipeline been started before?
    bc,         \* the connections that the broadcast under way has still to send to
    known,      \* StreamServer::knownClients
    typed       \* the sessions whose PIN the operator has typed, a history

clientVars == <<cPc, pingPc, flagRunPing, cConn, uiPc, closing, displayed, trusted>>
streamVars == <<streaming, began, bc>>
serverVars == <<sPc, sConn, authorized, authState, sStreaming, streamVars, known, typed>>
vars       == <<clientVars, serverVars, up, down, net>>

CPcs == {"unborn", "intro", "partialHash", "nonce", "pinBox", "authResponse", "caps",
         "configure", "start", "online", "report", "receiving", "done", "aborted", "killed"}

SPcs == {"unborn", "loop", "pin", "starting", "hung", "gone"}

\* A packet: its message and what matters of its contents.
Packet(k, v) == [kind |-> k, val |-> v]

\* computePin, the same on both sides: no two pairs of nonces collide.
ComputePin(serverNonce, clientNonce) == <<serverNonce, clientNonce>>

\* The connections the host has, and those whose peer a write reaches.
Live       == {s \in Sessions : sPc[s] \notin {"unborn", "gone"}}
Reaches(s) == s \in sConn /\ s \in cConn /\ s \in net
-----------------------------------------------------------------------------
Init ==
    /\ cPc = [s \in Sessions |-> "unborn"]
    /\ pingPc = [s \in Sessions |-> "off"]
    /\ flagRunPing = {}
    /\ cConn = {}
    /\ uiPc = [s \in Sessions |-> "hidden"]
    /\ closing = {}
    /\ displayed = [s \in Sessions |-> NoPin]
    /\ trusted = Paired
    /\ up = [s \in Sessions |-> <<>>]
    /\ down = [s \in Sessions |-> <<>>]
    /\ net = Sessions
    /\ sPc = [s \in Sessions |-> "unborn"]
    /\ sConn = {}
    /\ authorized = {}
    /\ authState = [s \in Sessions |-> NoNonce]
    /\ sStreaming = {}
    /\ streaming = FALSE
    /\ began = FALSE
    /\ bc = {}
    /\ known = Paired
    /\ typed = {}

CGoto(s, pc) == cPc' = [cPc EXCEPT ![s] = pc]
SGoto(s, pc) == sPc' = [sPc EXCEPT ![s] = pc]

\* A packet of the client is queued for the host.
Request(s, k, v) == up' = [up EXCEPT ![s] = Append(@, Packet(k, v))]

\* The client takes the next packet from its socket.
Take(s) == down' = [down EXCEPT ![s] = Tail(@)]

Arrived(s) == s \in cConn /\ down[s] # <<>>
-----------------------------------------------------------------------------
(* The receive thread of the client.                                       *)

\* The hub of a client is hidden while it has a window open.
OnlyWindow(s) ==
    \A o \in Sessions \ {s} :
        Owner[o] = Owner[s] => cPc[o] = "unborn" \/ uiPc[o] = "gone"

\* connect() and the accept at the host, with the certificates verified on both
\* sides; the client then sends ClientIntro.
Connect(s) ==
    /\ cPc[s] = "unborn"
    /\ OnlyWindow(s)
    /\ cConn' = cConn \cup {s}
    /\ sConn' = sConn \cup {s}
    /\ SGoto(s, "loop")
    /\ authorized' = IF Owner[s] \in known THEN authorized \cup {s} ELSE authorized
    /\ CGoto(s, "intro")
    /\ Request(s, "ClientIntro", "")
    /\ UNCHANGED <<pingPc, flagRunPing, uiPc, closing, displayed, trusted, down, net,
                   authState, sStreaming, streamVars, known, typed>>

\* connect() fails: "Unable to connect".
ConnectFails(s) ==
    /\ cPc[s] = "unborn"
    /\ OnlyWindow(s)
    /\ CGoto(s, "done")
    /\ closing' = closing \cup {s}
    /\ SGoto(s, "gone")
    /\ UNCHANGED <<pingPc, flagRunPing, cConn, uiPc, displayed, trusted, up, down, net,
                   sConn, authorized, authState, sStreaming, streamVars, known, typed>>

\* doIntro_ returns false: "Auth failed" is reported and the thread ends.
IntroFails(s) ==
    /\ CGoto(s, "done")
    /\ closing' = closing \cup {s}

\* The client's process ends and the host will read the end of the stream.  The list of
\* hosts is saved when the hub window is destroyed, so what this process learnt
\* about the host may be lost.
ProcessEnds(s) ==
    /\ cConn' = cConn \ {s}
    /\ up' = [up EXCEPT ![s] = IF s \in cConn THEN Append(@, Packet("EOF", "")) ELSE @]
    /\ pingPc' = [pingPc EXCEPT ![s] = "done"]
    /\ uiPc' = [uiPc EXCEPT ![s] = "gone"]
    /\ trusted' \in {trusted, trusted \ {Owner[s]}}

\* assert_quit or error_quit; the packet that was not expected is left.
Abort(s) == CGoto(s, "aborted") /\ ProcessEnds(s)

\* The client's process is killed, or crashes, at any time while its window exists.
Killed(s) ==
    /\ s \in Frail
    /\ cPc[s] \notin {"unborn", "aborted", "killed"}
    /\ uiPc[s] # "gone"
    /\ CGoto(s, "killed")
    /\ ProcessEnds(s)
    /\ down' = [down EXCEPT ![s] = <<>>]
    /\ UNCHANGED <<flagRunPing, closing, displayed, serverVars, net>>

\* ServerIntro: authenticate if either side does not know the other.
RecvServerIntro(s) ==
    /\ cPc[s] = "intro"
    /\ Arrived(s)
    /\ Head(down[s]).kind = "ServerIntro"
    /\ Take(s)
    /\ IF Head(down[s]).val = "AUTH_REQUIRED" \/ Owner[s] \notin trusted
       THEN Request(s, "AuthRequest", s) /\ CGoto(s, "partialHash")
       ELSE Request(s, "QueryHostCapsRequest", "") /\ CGoto(s, "caps")
    /\ UNCHANGED <<pingPc, flagRunPing, cConn, uiPc, closing, displayed, trusted,
                   serverVars, net>>

\* doAuth_ up to the PIN: each packet but the expected one is a failure.
RecvPartialHash(s) ==
    /\ cPc[s] = "partialHash"
    /\ Arrived(s)
    /\ Take(s)
    /\ \/ /\ Head(down[s]).kind = "ServerPartialHashNotify"
          /\ Request(s, "ClientNonceNotify", s)
          /\ CGoto(s, "nonce")
          /\ UNCHANGED closing
       \/ /\ Head(down[s]).kind # "ServerPartialHashNotify"
          /\ IntroFails(s)
          /\ UNCHANGED up
    /\ UNCHANGED <<pingPc, flagRunPing, cConn, uiPc, displayed, trusted, serverVars, net>>

\* The PIN is displayed; onDisplayPin waits for the user to close the box.
RecvServerNonce(s) ==
    /\ cPc[s] = "nonce"
    /\ Arrived(s)
    /\ Take(s)
    /\ \/ /\ Head(down[s]).kind = "ServerNonceNotify"
          /\ displayed' = [displayed EXCEPT ![s] = ComputePin(Head(down[s]).val, s)]
          /\ CGoto(s, "pinBox")
          /\ UNCHANGED closing
       \/ /\ Head(down[s]).kind # "ServerNonceNotify"
          /\ IntroFails(s)
          /\ UNCHANGED displayed
    /\ UNCHANGED <<pingPc, flagRunPing, cConn, uiPc, trusted, up, serverVars, net>>

PinBoxClosed(s) ==
    /\ cPc[s] = "pinBox"
    /\ CGoto(s, "authResponse")
    /\ UNCHANGED <<pingPc, flagRunPing, cConn, uiPc, closing, displayed, trusted,
                   serverVars, up, down, net>>

\* Faulty variant: the status of the AuthResponse is not looked at.
RecvAuthResponseAny(s) ==
    /\ cPc[s] = "authResponse"
    /\ Arrived(s)
    /\ Take(s)
    /\ \/ /\ Head(down[s]).kind = "AuthResponse"
          /\ trusted' = trusted \cup {Owner[s]}
          /\ Request(s, "QueryHostCapsRequest", "")
          /\ CGoto(s, "caps")
          /\ UNCHANGED closing
       \/ /\ Head(down[s]).kind # "AuthResponse"
          /\ IntroFails(s)
          /\ UNCHANGED <<trusted, up>>
    /\ UNCHANGED <<pingPc, flagRunPing, cConn, uiPc, displayed, serverVars, net>>

\* The end of doAuth_: the host's certificate is stored and the intro goes on.
RecvAuthResponse(s) ==
    /\ cPc[s] = "authResponse"
    /\ Arrived(s)
    /\ Take(s)
    /\ \/ /\ Head(down[s]) = Packet("AuthResponse", "OK")
          /\ trusted' = trusted \cup {Owner[s]}
          /\ Request(s, "QueryHostCapsRequest", "")
          /\ CGoto(s, "caps")
          /\ UNCHANGED closing
       \/ /\ Head(down[s]) # Packet("AuthResponse", "OK")
          /\ IntroFails(s)
          /\ UNCHANGED <<trusted, up>>
    /\ UNCHANGED <<pingPc, flagRunPing, cConn, uiPc, displayed, serverVars, net>>

RecvHostCaps(s) ==
    /\ cPc[s] = "caps"
    /\ Arrived(s)
    /\ Head(down[s]) = Packet("QueryHostCapsResponse", "OK")
    /\ Take(s)
    /\ Request(s, "ConfigureStreamRequest", "")
    /\ CGoto(s, "configure")
    /\ UNCHANGED <<pingPc, flagRunPing, cConn, uiPc, closing, displayed, trusted,
                   serverVars, net>>

RecvConfigured(s) ==
    /\ cPc[s] = "configure"
    /\ Arrived(s)
    /\ Head(down[s]) = Packet("ConfigureStreamResponse", "OK")
    /\ Take(s)
    /\ Request(s, "StartStreamRequest", "")
    /\ CGoto(s, "start")
    /\ UNCHANGED <<pingPc, flagRunPing, cConn, uiPc, closing, displayed, trusted,
                   serverVars, net>>

\* StartStreamResponse: a status other than OK ends the session.
RecvStarted(s) ==
    /\ cPc[s] = "start"
    /\ Arrived(s)
    /\ Head(down[s]).kind = "StartStreamResponse"
    /\ Take(s)
    /\ \/ Head(down[s]).val = "OK" /\ CGoto(s, "online") /\ UNCHANGED closing
       \/ Head(down[s]).val # "OK" /\ IntroFails(s)
    /\ UNCHANGED <<pingPc, flagRunPing, cConn, uiPc, displayed, trusted, up, serverVars, net>>

\* What doIntro_ accepts while it waits outside of doAuth_: another message, or a
\* status it cannot handle, ends the process.
Expected(s) ==
    CASE cPc[s] = "intro"     -> Head(down[s]).kind = "ServerIntro"
      [] cPc[s] = "caps"      -> Head(down[s]) = Packet("QueryHostCapsResponse", "OK")
      [] cPc[s] = "configure" -> Head(down[s]) = Packet("ConfigureStreamResponse", "OK")
      [] cPc[s] = "start"     -> Head(down[s]).kind = "StartStreamResponse"

RecvUnexpected(s) ==
    /\ cPc[s] \in {"intro", "caps", "configure", "start"}
    /\ Arrived(s)
    /\ ~Expected(s)
    /\ Abort(s)
    /\ UNCHANGED <<flagRunPing, closing, displayed, down, serverVars, net>>

\* The ping thread is started, then CONNECTED is reported, which shows the window.
StartPing(s) ==
    /\ cPc[s] = "online"
    /\ flagRunPing' = flagRunPing \cup {s}
    /\ pingPc' = [pingPc EXCEPT ![s] = "on"]
    /\ CGoto(s, "report")
    /\ UNCHANGED <<cConn, uiPc, closing, displayed, trusted, serverVars, up, down, net>>

ReportConnected(s) ==
    /\ cPc[s] = "report"
    /\ uiPc' = [uiPc EXCEPT ![s] = IF @ = "hidden" THEN "shown" ELSE @]
    /\ CGoto(s, "receiving")
    /\ UNCHANGED <<pingPc, flagRunPing, cConn, closing, displayed, trusted, serverVars,
                   up, down, net>>

\* runRecv_ passes every packet to the window, which warns of the unknown ones.
RunRecv(s) ==
    /\ cPc[s] = "receiving"
    /\ Arrived(s)
    /\ Take(s)
    /\ UNCHANGED <<clientVars, serverVars, up, net>>

\* A recv fails: the socket was disconnected, or its network path is broken,
\* which reportDisconnected tells the window.
Receiving == {"intro", "partialHash", "nonce", "authResponse", "caps", "configure",
              "start", "receiving"}

RecvFails(s) ==
    /\ cPc[s] \in Receiving
    /\ s \notin cConn \/ s \notin net
    /\ CGoto(s, "done")
    /\ cConn' = cConn \ {s}
    /\ closing' = closing \cup {s}
    /\ UNCHANGED <<pingPc, flagRunPing, uiPc, displayed, trusted, serverVars, up, down, net>>
-----------------------------------------------------------------------------
(* The ping thread, and the window.                                        *)

\* runPing_ sends a ping; the send fails when the network path is broken.
Ping(s) ==
    /\ pingPc[s] = "on"
    /\ s \in flagRunPing
    /\ s \in cConn
    /\ \/ /\ s \in net
          /\ Len(up[s]) < Cap
          /\ Request(s, "PingRequest", "")
          /\ UNCHANGED <<cConn, closing>>
       \/ /\ s \notin net
          /\ cConn' = cConn \ {s}
          /\ closing' = closing \cup {s}
          /\ UNCHANGED up
    /\ UNCHANGED <<cPc, pingPc, flagRunPing, uiPc, displayed, trusted, serverVars, down, net>>

PingStops(s) ==
    /\ pingPc[s] = "on"
    /\ s \notin flagRunPing
    /\ pingPc' = [pingPc EXCEPT ![s] = "done"]
    /\ UNCHANGED <<cPc, flagRunPing, cConn, uiPc, closing, displayed, trusted, serverVars,
                   up, down, net>>

\* Faulty variant: StreamClient::disconnect leaves the socket alone.
DisconnectFlagOnly(s) ==
    /\ flagRunPing' = flagRunPing \ {s}
    /\ UNCHANGED <<up, cConn>>

\* StreamClient::disconnect up to the join: a socket that is still connected is
\* closed, and the host is notified.
Disconnect(s) ==
    /\ flagRunPing' = flagRunPing \ {s}
    /\ up' = [up EXCEPT ![s] = IF s \in cConn THEN Append(@, Packet("CloseNotify", "")) ELSE @]
    /\ cConn' = cConn \ {s}

\* The user closes the window.
UserCloses(s) ==
    /\ uiPc[s] = "shown"
    /\ s \in Frail
    /\ Disconnect(s)
    /\ uiPc' = [uiPc EXCEPT ![s] = "joinRecv"]
    /\ UNCHANGED <<cPc, pingPc, closing, displayed, trusted, serverVars, down, net>>

\* closeLater closes the window of a session that reported DISCONNECTED.
CloseLater(s) ==
    /\ uiPc[s] \in {"hidden", "shown"}
    /\ s \in closing
    /\ Disconnect(s)
    /\ uiPc' = [uiPc EXCEPT ![s] = "joinRecv"]
    /\ UNCHANGED <<cPc, pingPc, closing, displayed, trusted, serverVars, down, net>>

\* disconnect() joins the receive thread, then ~StreamClient stops the pings.
JoinRecv(s) ==
    /\ uiPc[s] = "joinRecv"
    /\ cPc[s] = "done"
    /\ uiPc' = [uiPc EXCEPT ![s] = "joinPing"]
    /\ flagRunPing' = flagRunPing \ {s}
    /\ UNCHANGED <<cPc, pingPc, cConn, closing, displayed, trusted, serverVars, up, down, net>>

JoinPing(s) ==
    /\ uiPc[s] = "joinPing"
    /\ pingPc[s] # "on"
    /\ uiPc' = [uiPc EXCEPT ![s] = "gone"]
    /\ down' = [down EXCEPT ![s] = <<>>]
    /\ UNCHANGED <<cPc, pingPc, flagRunPing, cConn, closing, displayed, trusted, serverVars,
                   up, net>>
-----------------------------------------------------------------------------
(* The host: the thread of a Connection.                                   *)

\* The network path of a session breaks; what is on its way to the host is lost.
NetFails(s) ==
    /\ s \in Frail
    /\ s \in net
    /\ s \in sConn
    /\ net' = net \ {s}
    /\ up' = [up EXCEPT ![s] = <<>>]
    /\ UNCHANGED <<clientVars, serverVars, down>>

\* NetworkSocket::send on the host's side.
ServerSend(s, k, v) ==
    \/ /\ Reaches(s)
       /\ Len(down[s]) < Cap
       /\ down' = [down EXCEPT ![s] = Append(@, Packet(k, v))]
       /\ UNCHANGED sConn
    \/ /\ ~Reaches(s)
       /\ sConn' = sConn \ {s}
       /\ UNCHANGED down

\* run_ has received a packet of the given kind, and takes it.
Received(s, k) ==
    /\ sPc[s] = "loop"
    /\ s \in sConn
    /\ up[s] # <<>>
    /\ Head(up[s]).kind = k
    /\ up' = [up EXCEPT ![s] = Tail(@)]

ForgetAuth(s) == authState' = [authState EXCEPT ![s] = NoNonce]

ClientIntro(s) ==
    /\ Received(s, "ClientIntro")
    /\ ForgetAuth(s)
    /\ ServerSend(s, "ServerIntro", IF s \in authorized THEN "OK" ELSE "AUTH_REQUIRED")
    /\ UNCHANGED <<clientVars, sPc, authorized, sStreaming, streamVars, known, typed, net>>

\* Pings of clients that are not authorized are ignored.
PingRequest(s) ==
    /\ Received(s, "PingRequest")
    /\ ForgetAuth(s)
    /\ IF s \in authorized THEN ServerSend(s, "PingResponse", "") ELSE UNCHANGED <<down, sConn>>
    /\ UNCHANGED <<clientVars, sPc, authorized, sStreaming, streamVars, known, typed, net>>

QueryHostCaps(s) ==
    /\ Received(s, "QueryHostCapsRequest")
    /\ ForgetAuth(s)
    /\ ServerSend(s, "QueryHostCapsResponse", IF s \in authorized THEN "OK" ELSE "UNKNOWN")
    /\ UNCHANGED <<clientVars, sPc, authorized, sStreaming, streamVars, known, typed, net>>

ConfigureStream(s) ==
    /\ Received(s, "ConfigureStreamRequest")
    /\ ForgetAuth(s)
    /\ ServerSend(s, "ConfigureStreamResponse",
                  IF s \notin authorized THEN "UNKNOWN"
                  ELSE IF s \in sStreaming THEN "ALREADY_STREAMING"
                  ELSE "OK")
    /\ UNCHANGED <<clientVars, sPc, authorized, sStreaming, streamVars, known, typed, net>>

\* The joins of capture->start() hang: for a thread of the previous stream that missed the
\* stop, or that goes on because flagRun is set again.
StartHangs(s) == began /\ SGoto(s, "hung") /\ UNCHANGED sStreaming

\* startStream starts the encoder; the answer is a step of its own.
StartStream(s) ==
    /\ Received(s, "StartStreamRequest")
    /\ ForgetAuth(s)
    /\ \/ /\ s \in authorized /\ ~streaming
          /\ streaming' = TRUE
          /\ began' = TRUE
          /\ \/ SGoto(s, "starting") /\ sStreaming' = sStreaming \cup {s}
             \/ StartHangs(s)
       \/ /\ ~(s \in authorized /\ ~streaming)
          /\ SGoto(s, "starting")
          /\ UNCHANGED <<streaming, began, sStreaming>>
    /\ UNCHANGED <<clientVars, sConn, authorized, bc, known, typed, down, net>>

AnswerStart(s) ==
    /\ sPc[s] = "starting"
    /\ ServerSend(s, "StartStreamResponse", IF s \in sStreaming THEN "OK" ELSE "UNKNOWN")
    /\ SGoto(s, "loop")
    /\ UNCHANGED <<clientVars, authorized, authState, sStreaming, streamVars, known, typed,
                   up, net>>

\* msg_authRequest_ keeps the client's commitment and answers with its own.
AuthRequest(s) ==
    /\ Received(s, "AuthRequest")
    /\ authState' = [authState EXCEPT ![s] = Head(up[s]).val]
    /\ ServerSend(s, "ServerPartialHashNotify", s)
    /\ UNCHANGED <<clientVars, sPc, authorized, sStreaming, streamVars, known, typed, net>>

\* Faulty variant: this packet resets authState too, and is then dropped.
ClientNonceSilent(s) ==
    /\ Received(s, "ClientNonceNotify")
    /\ ForgetAuth(s)
    /\ UNCHANGED <<clientVars, sPc, sConn, authorized, sStreaming, streamVars, known, typed,
                   down, net>>

\* msg_clientNonceNotify_ up to the prompt for the PIN.
ClientNonce(s) ==
    /\ Received(s, "ClientNonceNotify")
    /\ IF authState[s] # Head(up[s]).val
       THEN ServerSend(s, "AuthResponse", "UNKNOWN_ERROR") /\ UNCHANGED sPc
       ELSE /\ ServerSend(s, "ServerNonceNotify", s)
            /\ IF Reaches(s) THEN SGoto(s, "pin") ELSE UNCHANGED sPc
    /\ UNCHANGED <<clientVars, authorized, authState, sStreaming, streamVars, known, typed, net>>

\* What the operator may type: a PIN that some client displays, or another number.
Typable == {displayed[s] : s \in Sessions}

\* Faulty variant: every PIN is accepted.
EnterPinAny(s) ==
    /\ sPc[s] = "pin"
    /\ \E pin \in Typable :
        /\ typed' = typed \cup {x \in Sessions : displayed[x] = pin /\ pin # NoPin}
        /\ known' = known \cup {Owner[s]}
        /\ authorized' = authorized \cup {s}
        /\ ServerSend(s, "AuthResponse", "OK")
    /\ SGoto(s, "loop")
    /\ UNCHANGED <<clientVars, authState, sStreaming, streamVars, up, net>>

\* Faulty variant: the connection is not authorized by the PIN.
EnterPinUnauthorized(s) ==
    /\ sPc[s] = "pin"
    /\ \E pin \in Typable :
        /\ typed' = typed \cup {x \in Sessions : displayed[x] = pin /\ pin # NoPin}
        /\ \/ /\ pin = ComputePin(s, authState[s])
              /\ known' = known \cup {Owner[s]}
              /\ ServerSend(s, "AuthResponse", "OK")
           \/ /\ pin # ComputePin(s, authState[s])
              /\ ServerSend(s, "AuthResponse", "INCORRECT_PIN")
              /\ UNCHANGED known
    /\ SGoto(s, "loop")
    /\ UNCHANGED <<clientVars, authorized, authState, sStreaming, streamVars, up, net>>

\* The rest of it: the prompts of several connections look the same, and any of
\* them may get the line that the operator types.
EnterPin(s) ==
    /\ sPc[s] = "pin"
    /\ \E pin \in Typable :
        /\ typed' = typed \cup {x \in Sessions : displayed[x] = pin /\ pin # NoPin}
        /\ \/ /\ pin = ComputePin(s, authState[s])
              /\ known' = known \cup {Owner[s]}
              /\ authorized' = authorized \cup {s}
              /\ ServerSend(s, "AuthResponse", "OK")
           \/ /\ pin # ComputePin(s, authState[s])
              /\ ServerSend(s, "AuthResponse", "INCORRECT_PIN")
              /\ UNCHANGED <<known, authorized>>
    /\ SGoto(s, "loop")
    /\ UNCHANGED <<clientVars, authState, sStreaming, streamVars, up, net>>

\* A recv of run_ fails and reportDisconnected clears `connected'.  The plain end
\* of the stream (EOF) is no error to recv, which then fails over and over.
ServerRecvFails(s) ==
    /\ sPc[s] = "loop"
    /\ s \in sConn
    /\ s \notin net \/ (up[s] # <<>> /\ Head(up[s]).kind = "CloseNotify")
    /\ sConn' = sConn \ {s}
    /\ UNCHANGED <<clientVars, sPc, authorized, authState, sStreaming, streamVars, known,
                   typed, up, down, net>>

\* run_ ends and the deleter removes the connection; with the last one it stops
\* the stream.
Leave(s) ==
    /\ sPc[s] = "loop"
    /\ s \notin sConn
    /\ SGoto(s, "gone")
    /\ streaming' = (streaming /\ Live # {s})
    /\ bc' = bc \ {s}
    /\ up' = [up EXCEPT ![s] = <<>>]
    /\ UNCHANGED <<clientVars, sConn, authorized, authState, sStreaming, began, known, typed,
                   down, net>>

\* The pipeline runs for sure: `streaming' is set and no start hangs.
Running == streaming /\ \A s \in Sessions : sPc[s] # "hung"

\* broadcast_ goes through the vector of connections with a frame, a cursor or audio; while
\* a start hangs, the thread it waits for may still do so, ...
BroadcastBegin ==
    /\ streaming
    /\ bc = {}
    /\ bc' = Live
    /\ UNCHANGED <<clientVars, sPc, sConn, authorized, authState, sStreaming, streaming, began,
                   known, typed, up, down, net>>

\* ... and sends it to one after the other; a full socket holds up all that come after it.
SendFrame(s) ==
    /\ s \in bc
    /\ ServerSend(s, "Frame", "")
    /\ bc' = bc \ {s}
    /\ UNCHANGED <<clientVars, sPc, authorized, authState, sStreaming, streaming, began, known,
                   typed, up, net>>
-----------------------------------------------------------------------------
RecvThread(s) ==
    \/ RecvServerIntro(s) \/ RecvPartialHash(s) \/ RecvServerNonce(s) \/ PinBoxClosed(s)
    \/ RecvAuthResponse(s) \/ RecvHostCaps(s) \/ RecvConfigured(s) \/ RecvStarted(s)
    \/ RecvUnexpected(s) \/ StartPing(s) \/ ReportConnected(s) \/ RunRecv(s) \/ RecvFails(s)

Window(s) == CloseLater(s) \/ JoinRecv(s) \/ JoinPing(s)

Handler(s) ==
    \/ ClientIntro(s) \/ PingRequest(s) \/ QueryHostCaps(s) \/ ConfigureStream(s)
    \/ StartStream(s) \/ AnswerStart(s) \/ AuthRequest(s) \/ ClientNonce(s) \/ EnterPin(s)
    \/ ServerRecvFails(s) \/ Leave(s)

Next ==
    \/ \E s \in Sessions :
        \/ Connect(s) \/ ConnectFails(s) \/ RecvThread(s) \/ Ping(s) \/ PingStops(s)
        \/ UserCloses(s) \/ Window(s) \/ Killed(s) \/ NetFails(s) \/ Handler(s) \/ SendFrame(s)
    \/ BroadcastBegin

Spec == Init /\ [][Next]_vars

\* Every thread that can run does, the operator answers every prompt, and users
\* close the PIN box; the broadcast holds sendLock when it waits for a full socket, so what
\* gets free there goes to it.  Nobody has to connect, ping or close a window.
Fairness ==
    /\ \A s \in Sessions : /\ WF_vars(RecvThread(s)) /\ WF_vars(PingStops(s))
                           /\ WF_vars(Window(s)) /\ WF_vars(Handler(s))
                           /\ SF_vars(SendFrame(s))
    /\ WF_vars(Running /\ BroadcastBegin)

FairSpec == Spec /\ Fairness
-----------------------------------------------------------------------------
(* Properties.                                                             *)

\* Every variable has its type, and no socket holds more than it can, but for the last word of a
\* client that closes it.
TypeOK ==
    /\ cPc \in [Sessions -> CPcs]
    /\ pingPc \in [Sessions -> {"off", "on", "done"}]
    /\ uiPc \in [Sessions -> {"hidden", "shown", "joinRecv", "joinPing", "gone"}]
    /\ sPc \in [Sessions -> SPcs]
    /\ flagRunPing \cup cConn \cup closing \cup net \cup sConn \cup authorized
            \cup sStreaming \cup bc \cup typed \subseteq Sessions
    /\ trusted \cup known \subseteq Clients
    /\ streaming \in BOOLEAN /\ began \in BOOLEAN
    /\ authState \in [Sessions -> Sessions \cup {NoNonce}]
    /\ \A s \in Sessions : Len(down[s]) <= Cap /\ Len(up[s]) <= Cap + 1

\* A client that has stored the host's certificate, after an AuthResponse, is a
\* client that the host knows: the two ends of a pairing never disagree that way,
\* whatever breaks, in whichever order the PINs of several clients are typed.
TrustIsMutual == trusted \subseteq known

\* The host only knows clients that were paired before or whose own PIN the operator has typed.
KnownByPin == \A c \in known \ Paired : \E s \in typed : Owner[s] = c

\* The assertions of doIntro_ about the answers to its requests fail because of a
\* broadcast packet, never because the answers are out of step or refused.
OnlyBroadcastsAbort ==
    \A s \in Sessions : cPc[s] = "aborted" => Head(down[s]).kind = "Frame"

\* Every attempt to connect comes to an end: the client is online, was refused, was ended by
\* an assertion or from outside, or has met a host whose start hangs; no side waits for
\* the other for ever otherwise, and no client that does not read stalls another.
IntroEnds ==
    \A s \in Sessions :
        (cPc[s] = "intro") ~> (cPc[s] \in {"receiving", "done", "aborted", "killed"} \/ sPc[s] = "hung")

\* The host's recv has met the plain end of the stream, which it takes for no error and meets
\* again at once (NetworkSocket.cpp:261); only a send would notice, and nothing is sent.
Spinning(s) ==
    /\ sPc[s] = "loop" /\ s \in sConn
    /\ up[s] # <<>> /\ Head(up[s]).kind = "EOF"
    /\ ~Running

\* When the client's receive thread has ended, its window is being closed or its process is
\* gone, then in time the window is destroyed, the ping thread has ended, and the host has
\* removed the connection: no join waits for ever and no connection is forgotten, unless the
\* connection's start hangs, or the end of the stream is all it hears of its client.
SessionEnds ==
    \A s \in Sessions :
        (cPc[s] \in {"done", "aborted", "killed"} \/ uiPc[s] = "joinRecv")
            ~> /\ uiPc[s] = "gone" /\ pingPc[s] # "on"
               /\ sPc[s] \in {"gone", "hung"} \/ Spinning(s)
=============================================================================
