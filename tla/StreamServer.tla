---------------------------- MODULE StreamServer ----------------------------
(***************************************************************************)
(* The host side of twilight: StreamServer and the threads that share it.  *)
(*                                                                         *)
(* The listen thread pushes a Connection for every socket it accepts; each *)
(* Connection runs its own thread (Connection::run_); a connection's       *)
(* thread that is about to end asks the deleter thread to destroy it; the  *)
(* deleter erases the connection, which joins its thread, and stops the    *)
(* stream when the last connection is gone; main stops the server after an *)
(* hour.  Every client may configure and start a stream once it is         *)
(* authorized, and stop it at any time.  Two workers broadcast what they   *)
(* encode over the vector of connections: "video" stands for the threads   *)
(* of the capture pipeline, "audio" for AudioEncoder's (modules Pipeline   *)
(* and Audio have their insides).                                          *)
(*                                                                         *)
(* connectionsLock is held across several steps only by the deleter and by *)
(* StreamServer::stop: the other critical sections do not block inside and *)
(* are one step.  No lock protects what startStream and endStream do: the  *)
(* test of `streaming', its change together with the first part's start or *)
(* stop, and the other part's start or stop are steps of their own, and    *)
(* the joins of the previous stream's workers wait.                        *)
(* A socket may fail at any time (SockFails), whichever call notices it.   *)
(***************************************************************************)
EXTENDS Naturals, Sequences, FiniteSets

CONSTANTS
    Conns,      \* the Connection objects that may be created, one per accept
    NoConn,     \* no connection
    Shutdown    \* does main's hour of service ever elapse?

ASSUME NoConnAssumption   == NoConn \notin Conns
ASSUME ShutdownAssumption == Shutdown \in BOOLEAN

VARIABLES
    mutex,        \* holder of connectionsLock: "free", "deleter" or "main"
    connections,  \* the vector of connections, as a set
    deleteReq,    \* the deque of connections to destroy
    runPc,        \* where each Connection::run_ thread is
    connected,    \* those whose NetworkSocket::connected is true
    authorized,   \* those whose Connection::authorized is true
    connStreaming,\* those whose Connection::streaming is true
    delPc,        \* where the deleter thread is
    delCur,       \* the connection the deleter took from deleteReq
    flagRunDeleter,
    mainPc,       \* where the main thread is
    streaming,    \* StreamServer::streaming
    capture,      \* CapturePipelineD3DSoft::flagRun
    encoder,      \* EncoderFFmpeg::flagRun
    audio,        \* AudioEncoder::flagRun
    requested,    \* whose mode is in requestedWidth, requestedHeight, requestedFramerate
    encoderMode,  \* whose mode the encoder was given
    worker,       \* where the worker of each kind is
    overlap,      \* history: two threads were in startStream or endStream at once
    crashed       \* a failed assertion or undefined behaviour ended the process

connVars   == <<runPc, connected, authorized, connStreaming>>
lockVars   == <<mutex, connections, deleteReq>>
delVars    == <<delPc, delCur, flagRunDeleter>>
modeVars   == <<requested, encoderMode>>
streamVars == <<streaming, capture, encoder, audio, worker, overlap, modeVars>>
vars       == <<lockVars, connVars, delVars, streamVars, mainPc, crashed>>

RunPcs == {"unborn", "deciding", "loop", "claim", "joinVideo", "joinAudio",
           "release", "stopCapture", "leaving", "returning", "finished"}

DelPcs == {"queue", "waiting", "woken", "joining", "idle", "stopping",
           "exited"}

MainPcs == {"serving", "dropping", "destructing", "joinDeleter", "exited"}

\* The deleter's places at which it holds connectionsLock.
DelHolds == {"queue", "joining", "idle", "stopping"}

\* A run_ thread at these places will not ask for connectionsLock again.
Past == {"returning", "finished"}

\* A run_ thread at these places is in startStream or endStream.
InStream == {"claim", "joinVideo", "joinAudio", "release", "stopCapture"}

Workers == {"video", "audio"}

\* A worker is off before its first start and when its thread function has returned.
WorkerPcs == {"off", "encoding", "sending"}

Elems(s) == {s[i] : i \in 1..Len(s)}
-----------------------------------------------------------------------------
\* The state after the constructor (12-64) and start() (72-74).
Init ==
    /\ mutex = "free"
    /\ connections = {}
    /\ deleteReq = <<>>
    /\ runPc = [c \in Conns |-> "unborn"]
    /\ connected = {}
    /\ authorized = {}
    /\ connStreaming = {}
    /\ delPc = "woken"
    /\ delCur = NoConn
    /\ flagRunDeleter = TRUE
    /\ mainPc = "serving"
    /\ streaming = FALSE
    /\ capture = FALSE
    /\ encoder = FALSE
    /\ audio = FALSE
    /\ requested = NoConn
    /\ encoderMode = NoConn
    /\ worker = [w \in Workers |-> "off"]
    /\ overlap = FALSE
    /\ crashed = FALSE

Goto(c, pc) == runPc' = [runPc EXCEPT ![c] = pc]

\* Changing the vector under a broadcast that iterates it without the lock leaves that
\* broadcast with dangling iterators, which may end the process.
Disturb == crashed' \in {FALSE, \E w \in Workers : worker[w] = "sending"}

\* The Connection object is destroyed, and its members with it.
Destroy(c) ==
    /\ connections' = connections \ {c}
    /\ authorized' = authorized \ {c}
    /\ connStreaming' = connStreaming \ {c}
    /\ Disturb
    /\ UNCHANGED <<mutex, deleteReq, runPc, connected, flagRunDeleter, streaming, capture,
                   encoder, audio, worker, overlap, modeVars>>

\* deleteReqCV.notify: a deleter that waits will return from the wait.
WakeDeleter == delPc' = IF delPc = "waiting" THEN "woken" ELSE delPc
-----------------------------------------------------------------------------
(* The listen thread.                                                      *)

\* Faulty variant: the callback does not take connectionsLock.
OnNewConnectionUnlocked(c) ==
    /\ mainPc = "serving"
    /\ runPc[c] = "unborn"
    /\ connections' = connections \cup {c}
    /\ connected' \in {connected, connected \cup {c}}
    /\ Goto(c, "deciding")
    /\ Disturb
    /\ UNCHANGED <<mutex, deleteReq, authorized, connStreaming, delVars, streamVars, mainPc>>

\* The onNewConnection callback, with the constructor of Connection.  The
\* socket's TLS handshake may have failed, which leaves it not connected.
OnNewConnection(c) ==
    /\ mainPc = "serving"
    /\ mutex = "free"
    /\ runPc[c] = "unborn"
    /\ connections' = connections \cup {c}
    /\ connected' \in {connected, connected \cup {c}}
    /\ Goto(c, "deciding")
    /\ Disturb
    /\ UNCHANGED <<mutex, deleteReq, authorized, connStreaming, delVars, streamVars, mainPc>>
-----------------------------------------------------------------------------
(* The thread of a connection, Connection::run_.                           *)

\* The peer or the network ends the connection: a read or a write of any
\* thread fails and reportDisconnected clears NetworkSocket::connected.
SockFails(c) ==
    /\ runPc[c] # "unborn"
    /\ c \in connections
    /\ c \in connected
    /\ connected' = connected \ {c}
    /\ UNCHANGED <<lockVars, runPc, authorized, connStreaming, delVars,
                   streamVars, mainPc, crashed>>

\* The client is authorized or not: before the loop of run_ by its certificate, in the
\* loop by the PIN the operator enters.
Decide(c) ==
    /\ runPc[c] = "deciding"
    /\ authorized' \in {authorized, authorized \cup {c}}
    /\ Goto(c, "loop")
    /\ UNCHANGED <<lockVars, connected, connStreaming, delVars, streamVars, mainPc, crashed>>

\* The loop of run_ has received a packet.
Received(c) == runPc[c] = "loop" /\ c \in connected

\* msg_clientNonceNotify_ prompts for the PIN and blocks on standard input.
AskPin(c) ==
    /\ Received(c)
    /\ Goto(c, "deciding")
    /\ UNCHANGED <<lockVars, connected, authorized, connStreaming, delVars, streamVars,
                   mainPc, crashed>>

\* Faulty variant: Connection::streaming is not checked.
ConfigureStreamAnyTime(c) ==
    /\ Received(c)
    /\ c \in authorized
    /\ requested' = c
    /\ UNCHANGED <<lockVars, connVars, delVars, streaming, capture, encoder, audio, worker, overlap,
                   encoderMode, mainPc, crashed>>

\* msg_configureStreamRequest_ that passes its checks, and configureStream; a mode goes by
\* the connection that requested it.
ConfigureStream(c) ==
    /\ Received(c)
    /\ c \in authorized
    /\ c \notin connStreaming
    /\ requested' = c
    /\ UNCHANGED <<lockVars, connVars, delVars, streaming, capture, encoder, audio, worker, overlap,
                   encoderMode, mainPc, crashed>>

\* A thread enters startStream or endStream, where there may be another one.
Enters == overlap' = (overlap \/ \E d \in Conns : runPc[d] \in InStream)

\* msg_startStreamRequest_ up to the test of `streaming' in startStream; when
\* the test fails the handler only answers UNKNOWN.
StartStreamTest(c) ==
    /\ Received(c)
    /\ c \in authorized
    /\ ~streaming
    /\ Enters
    /\ Goto(c, "claim")
    /\ UNCHANGED <<lockVars, connected, authorized, connStreaming, delVars, streaming,
                   capture, encoder, audio, worker, modeVars, mainPc, crashed>>

\* streaming = true; setEncoderMode(requested...); and capture->start(), up to the joins,
\* asserts that the pipeline was not running.
StartStreamClaim(c) ==
    /\ runPc[c] = "claim"
    /\ streaming' = TRUE
    /\ encoderMode' = requested
    /\ crashed' = capture
    /\ capture' = TRUE
    /\ Goto(c, "joinVideo")
    /\ UNCHANGED <<lockVars, connected, authorized, connStreaming, delVars, encoder, audio,
                   worker, overlap, requested, mainPc>>

\* The joins of a start return when there is no worker; two threads that join the same
\* worker may end the process.
Joined(w) == worker[w] = "off"
JoinRace(c) == \E d \in Conns \ {c} : runPc[d] = runPc[c]

\* The pipeline's threads of the previous stream are joined; the encoder's start() asserts
\* that it was stopped and that a size was set: nothing makes a peer configure before it
\* starts.
JoinVideo(c) ==
    /\ runPc[c] = "joinVideo" /\ Joined("video")
    /\ \E race \in {FALSE, JoinRace(c)} : crashed' = (race \/ encoder \/ encoderMode = NoConn)
    /\ encoder' = TRUE
    /\ worker' = [worker EXCEPT !["video"] = "encoding"]
    /\ Goto(c, "joinAudio")
    /\ UNCHANGED <<lockVars, connected, authorized, connStreaming, delVars, streaming,
                   capture, audio, overlap, modeVars, mainPc>>

\* audioEncoder.start() joins the previous worker, then the handler marks its connection.
JoinAudio(c) ==
    /\ runPc[c] = "joinAudio" /\ Joined("audio")
    /\ \E race \in {FALSE, JoinRace(c)} : crashed' = race
    /\ audio' = TRUE
    /\ worker' = [worker EXCEPT !["audio"] = "encoding"]
    /\ connStreaming' = connStreaming \cup {c}
    /\ Goto(c, "loop")
    /\ UNCHANGED <<lockVars, connected, authorized, delVars, streaming, capture, encoder,
                   overlap, modeVars, mainPc>>

\* Faulty variant: endStream does not test `streaming'.
EndStreamUntested(c) ==
    /\ Received(c)
    /\ Enters
    /\ Goto(c, "release")
    /\ UNCHANGED <<lockVars, connected, authorized, connStreaming, delVars, streaming,
                   capture, encoder, audio, worker, modeVars, mainPc, crashed>>

\* msg_stopStreamRequest_ of any client, and the test of `streaming' in endStream.
EndStreamTest(c) ==
    /\ Received(c)
    /\ streaming
    /\ Enters
    /\ Goto(c, "release")
    /\ UNCHANGED <<lockVars, connected, authorized, connStreaming, delVars, streaming,
                   capture, encoder, audio, worker, modeVars, mainPc, crashed>>

\* streaming = false; audioEncoder.stop() joins the recording threads, which a second stop
\* cannot do again.
EndStreamRelease(c) ==
    /\ runPc[c] = "release"
    /\ streaming' = FALSE
    /\ crashed' = ~audio
    /\ audio' = FALSE
    /\ Goto(c, "stopCapture")
    /\ UNCHANGED <<lockVars, connected, authorized, connStreaming, delVars, capture,
                   encoder, worker, overlap, modeVars, mainPc>>

\* capture->stop() and the encoder's stop() assert that they were running.
StopCapture(c) ==
    /\ runPc[c] = "stopCapture"
    /\ crashed' = (~capture \/ ~encoder)
    /\ capture' = FALSE
    /\ encoder' = FALSE
    /\ Goto(c, "loop")
    /\ UNCHANGED <<lockVars, connected, authorized, connStreaming, delVars, streaming,
                   audio, worker, overlap, modeVars, mainPc>>

\* The loop of run_ ends when the socket is no longer connected.
LeaveLoop(c) ==
    /\ runPc[c] = "loop"
    /\ c \notin connected
    /\ Goto(c, "leaving")
    /\ UNCHANGED <<lockVars, connected, authorized, connStreaming, delVars,
                   streamVars, mainPc, crashed>>

\* Faulty variant: the deleter is not notified.
OnDisconnectedSilent(c) ==
    /\ runPc[c] = "leaving"
    /\ mutex = "free"
    /\ deleteReq' = Append(deleteReq, c)
    /\ UNCHANGED delPc
    /\ Goto(c, "returning")
    /\ UNCHANGED <<mutex, connections, connected, authorized, connStreaming,
                   delCur, flagRunDeleter, streamVars, mainPc, crashed>>

\* StreamServer::onDisconnected, called by run_ as the last thing it does.
OnDisconnected(c) ==
    /\ runPc[c] = "leaving"
    /\ mutex = "free"
    /\ deleteReq' = Append(deleteReq, c)
    /\ WakeDeleter
    /\ Goto(c, "returning")
    /\ UNCHANGED <<mutex, connections, connected, authorized, connStreaming,
                   delCur, flagRunDeleter, streamVars, mainPc, crashed>>

\* The thread function returns: from here on a join of the thread succeeds.
Return(c) ==
    /\ runPc[c] = "returning"
    /\ Goto(c, "finished")
    /\ UNCHANGED <<lockVars, connected, authorized, connStreaming, delVars,
                   streamVars, mainPc, crashed>>
-----------------------------------------------------------------------------
(* The deleter thread.                                                     *)

\* The loop of the deleter tests its flag, with the lock; when it is clear the thread ends and
\* lets go of the lock.
DelLoop ==
    \/ flagRunDeleter /\ delPc' = "queue" /\ mutex' = "deleter"
    \/ ~flagRunDeleter /\ delPc' = "exited" /\ mutex' = "free"

\* The lock is taken when the thread starts, and again when a wait returns.
DelAcquire ==
    /\ delPc = "woken"
    /\ mutex = "free"
    /\ DelLoop
    /\ UNCHANGED <<connections, deleteReq, connVars, delCur, flagRunDeleter,
                   streamVars, mainPc, crashed>>

\* deleteReqCV.wait(lock) releases the lock.
DelWait ==
    /\ delPc = "queue"
    /\ deleteReq = <<>>
    /\ delPc' = "waiting"
    /\ mutex' = "free"
    /\ UNCHANGED <<connections, deleteReq, connVars, delCur, flagRunDeleter,
                   streamVars, mainPc, crashed>>

\* A condition variable may wake up without having been notified.
DelSpuriousWake ==
    /\ delPc = "waiting"
    /\ delPc' = "woken"
    /\ UNCHANGED <<lockVars, connVars, delCur, flagRunDeleter, streamVars, mainPc, crashed>>

\* Faulty variant: the request stays in the queue.
DelPeek ==
    /\ delPc = "queue"
    /\ deleteReq # <<>>
    /\ delCur' = Head(deleteReq)
    /\ UNCHANGED deleteReq
    /\ \/ /\ Head(deleteReq) \in connections
          /\ delPc' = "joining"
          /\ connected' = connected \ {Head(deleteReq)}
       \/ /\ Head(deleteReq) \notin connections
          /\ delPc' = "idle"
          /\ UNCHANGED connected
    /\ UNCHANGED <<mutex, connections, runPc, authorized, connStreaming,
                   flagRunDeleter, streamVars, mainPc, crashed>>

\* Takes the first request and starts to erase its connection; ~Connection
\* disconnects a socket that is still connected, then joins the thread.
DelPop ==
    /\ delPc = "queue"
    /\ deleteReq # <<>>
    /\ delCur' = Head(deleteReq)
    /\ deleteReq' = Tail(deleteReq)
    /\ \/ /\ Head(deleteReq) \in connections
          /\ delPc' = "joining"
          /\ connected' = connected \ {Head(deleteReq)}
       \/ /\ Head(deleteReq) \notin connections
          /\ delPc' = "idle"
          /\ UNCHANGED connected
    /\ UNCHANGED <<mutex, connections, runPc, authorized, connStreaming,
                   flagRunDeleter, streamVars, mainPc, crashed>>

DelJoin ==
    /\ delPc = "joining"
    /\ runPc[delCur] = "finished"
    /\ Destroy(delCur)
    /\ delCur' = NoConn
    /\ delPc' = "idle"
    /\ UNCHANGED mainPc

\* Faulty variant: the deleter leaves the stream alone.
DelIdleNoStop ==
    /\ delPc = "idle"
    /\ DelLoop
    /\ UNCHANGED <<connections, deleteReq, connVars, delCur, flagRunDeleter, streamVars, mainPc,
                   crashed>>

\* After an erase: nobody is left and the stream is on, so it is stopped.
DelIdle ==
    /\ delPc = "idle"
    /\ \/ /\ connections = {} /\ streaming
          /\ streaming' = FALSE
          /\ delPc' = "stopping"
          /\ UNCHANGED mutex
       \/ /\ ~(connections = {} /\ streaming)
          /\ DelLoop
          /\ UNCHANGED streaming
    /\ UNCHANGED <<connections, deleteReq, connVars, delCur, flagRunDeleter, capture, encoder, audio,
                   worker, overlap, modeVars, mainPc, crashed>>

\* Faulty variant: capture->stop() is missing.
DelStopAudioOnly ==
    /\ delPc = "stopping"
    /\ crashed' = ~audio
    /\ audio' = FALSE
    /\ DelLoop
    /\ UNCHANGED <<connections, deleteReq, connVars, delCur, flagRunDeleter, streaming, capture,
                   encoder, worker, overlap, modeVars, mainPc>>

\* audioEncoder.stop() and capture->stop(), in one step: there is no connection that could
\* see one done and not the other, nor can there be one while the lock is held.
DelStop ==
    /\ delPc = "stopping"
    /\ crashed' = (~audio \/ ~capture \/ ~encoder)
    /\ audio' = FALSE
    /\ capture' = FALSE
    /\ encoder' = FALSE
    /\ DelLoop
    /\ UNCHANGED <<connections, deleteReq, connVars, delCur, flagRunDeleter, streaming, worker,
                   overlap, modeVars, mainPc>>
-----------------------------------------------------------------------------
(* The main thread: StreamServer::stop and ~StreamServer.                  *)

\* stop() joins the listen thread, takes the lock and disconnects every connection; what may
\* happen while it waits for the lock may as well happen before it.
StopDisconnect ==
    /\ Shutdown
    /\ mainPc = "serving"
    /\ mutex = "free"
    /\ mutex' = "main"
    /\ connected' = connected \ connections
    /\ mainPc' = "dropping"
    /\ UNCHANGED <<connections, deleteReq, runPc, authorized, connStreaming, delVars, streamVars,
                   crashed>>

\* connections.resize(0) destroys the connections, each joining its thread.
StopDrop(c) ==
    /\ mainPc = "dropping"
    /\ c \in connections
    /\ runPc[c] = "finished"
    /\ Destroy(c)
    /\ UNCHANGED <<delPc, delCur, mainPc>>

StopReturn ==
    /\ mainPc = "dropping"
    /\ connections = {}
    /\ mutex' = "free"
    /\ mainPc' = "destructing"
    /\ UNCHANGED <<connections, deleteReq, connVars, delVars, streamVars, crashed>>

\* ~StreamServer clears the flag and notifies without taking the lock.
Destruct ==
    /\ mainPc = "destructing"
    /\ flagRunDeleter' = FALSE
    /\ WakeDeleter
    /\ mainPc' = "joinDeleter"
    /\ UNCHANGED <<lockVars, connVars, delCur, streamVars, crashed>>

DestructJoin ==
    /\ mainPc = "joinDeleter"
    /\ delPc = "exited"
    /\ mainPc' = "exited"
    /\ UNCHANGED <<lockVars, connVars, delVars, streamVars, crashed>>
-----------------------------------------------------------------------------
(* The encode thread and the audio worker: processOutput_ and broadcast_.  *)
(* A worker that was stopped may come to see it, or never: it may miss the *)
(* notification, or be held up by a peer in a broadcast.                   *)

Flag(w) == IF w = "video" THEN capture ELSE audio

\* The worker w comes to pc; the rest is none of its business.
Moves(w, pc) ==
    /\ worker' = [worker EXCEPT ![w] = pc]
    /\ UNCHANGED <<lockVars, connVars, delVars, streaming, capture, encoder, audio, overlap,
                   modeVars, mainPc, crashed>>

\* The loop of loopEncoder_ or runWorker_ tests its flagRun.
TestFlag(w) == Moves(w, IF Flag(w) THEN "encoding" ELSE "off")

\* There is something to send; the encoder of the video gives nothing once it is stopped.
BroadcastBegin(w) ==
    /\ worker[w] = "encoding"
    /\ w = "video" => encoder
    /\ Moves(w, "sending")

\* There is nothing to send because it was stopped.
NothingToSend(w) ==
    /\ worker[w] = "encoding"
    /\ IF w = "video" THEN ~encoder ELSE ~audio
    /\ TestFlag(w)

BroadcastEnd(w) ==
    /\ worker[w] = "sending"
    /\ TestFlag(w)
-----------------------------------------------------------------------------
RunThread(c) ==
    \/ Decide(c) \/ AskPin(c) \/ ConfigureStream(c)
    \/ StartStreamTest(c) \/ StartStreamClaim(c) \/ JoinVideo(c) \/ JoinAudio(c)
    \/ EndStreamTest(c) \/ EndStreamRelease(c) \/ StopCapture(c)
    \/ LeaveLoop(c) \/ OnDisconnected(c) \/ Return(c)

Deleter ==
    \/ DelAcquire \/ DelWait \/ DelPop \/ DelJoin \/ DelIdle \/ DelStop

Main ==
    \/ StopDisconnect \/ (\E c \in Conns : StopDrop(c)) \/ StopReturn
    \/ Destruct \/ DestructJoin

Worker(w) == BroadcastBegin(w) \/ NothingToSend(w) \/ BroadcastEnd(w)

\* A process that has ended stays so.
Halted == crashed /\ UNCHANGED vars

Step ==
    /\ ~crashed
    /\ \/ \E c \in Conns : OnNewConnection(c) \/ SockFails(c) \/ RunThread(c)
       \/ Deleter
       \/ DelSpuriousWake
       \/ Main
       \/ \E w \in Workers : Worker(w)

Next == Step \/ Halted

Spec == Init /\ [][Next]_vars

\* What a run_ thread does on its own, without waiting for its peer; the
\* operator is taken to answer every PIN prompt.
Progress(c) ==
    \/ Decide(c)
    \/ StartStreamClaim(c) \/ JoinVideo(c) \/ JoinAudio(c) \/ EndStreamRelease(c) \/ StopCapture(c)
    \/ LeaveLoop(c) \/ OnDisconnected(c) \/ Return(c)

\* Every thread that can run is scheduled, and who waits for a mutex that is
\* free again and again gets it (a deleter that wakes up spuriously takes the
\* lock over and over).  The peers, who may leave a broadcast waiting, the network, the
\* codecs and the workers, who may miss their stop, owe nothing.
Fairness ==
    /\ \A c \in Conns : /\ WF_vars(~crashed /\ Progress(c))
                        /\ SF_vars(~crashed /\ OnDisconnected(c))
    /\ WF_vars(~crashed /\ Deleter)
    /\ SF_vars(~crashed /\ DelAcquire)
    /\ WF_vars(~crashed /\ mainPc # "serving" /\ Main)

FairSpec == Spec /\ Fairness
-----------------------------------------------------------------------------
(* Properties.                                                             *)

DataOK ==
    /\ mutex \in {"free", "deleter", "main"}
    /\ connections \subseteq Conns
    /\ deleteReq \in Seq(Conns)
    /\ runPc \in [Conns -> RunPcs]
    /\ connected \subseteq Conns
    /\ authorized \subseteq Conns
    /\ connStreaming \subseteq Conns
    /\ delPc \in DelPcs
    /\ delCur \in Conns \cup {NoConn}
    /\ mainPc \in MainPcs
    /\ requested \in Conns \cup {NoConn}
    /\ encoderMode \in Conns \cup {NoConn}
    /\ worker \in [Workers -> WorkerPcs]

FlagsOK ==
    /\ flagRunDeleter \in BOOLEAN
    /\ streaming \in BOOLEAN
    /\ capture \in BOOLEAN
    /\ encoder \in BOOLEAN
    /\ audio \in BOOLEAN
    /\ overlap \in BOOLEAN
    /\ crashed \in BOOLEAN

\* Every variable has its type.
TypeOK == DataOK /\ FlagsOK

\* connectionsLock is held by the deleter or by stop() exactly at the places
\* where the code holds it (StreamServer.cpp 16, 19, 79).
LockOwned ==
    /\ (mutex = "deleter") <=> (delPc \in DelHolds)
    /\ (mutex = "main") <=> (mainPc = "dropping")

\* A run_ thread that may still run belongs to a Connection that still exists:
\* neither the deleter nor stop() frees a Connection under its own thread.
NoThreadOutlivesConnection ==
    \A c \in Conns :
        /\ runPc[c] \notin {"unborn", "finished"} => c \in connections
        /\ runPc[c] = "unborn" => c \notin connections

\* The deleter joins a thread while it holds connectionsLock, the lock the
\* thread takes in onDisconnected: the join can end only because that thread
\* has already been there and will never ask for the lock again.
DeleterJoinsOnlyLeavers ==
    delPc = "joining" => /\ delCur \in connections
                         /\ runPc[delCur] \in Past

\* Requests for deletion come from threads that are past onDisconnected, and
\* no connection is requested twice: a second request would make the deleter
\* compare a pointer to freed memory.
DeleteReqSound ==
    /\ \A i \in 1..Len(deleteReq) : runPc[deleteReq[i]] \in Past
    /\ \A i, j \in 1..Len(deleteReq) : deleteReq[i] = deleteReq[j] => i = j
    /\ delPc = "joining" => delCur \notin Elems(deleteReq)

\* No connection is leaked: a connection whose thread is past onDisconnected is
\* waiting in deleteReq or is the one being erased, until it is destroyed.
NoConnectionLeaked ==
    \A c \in connections :
        runPc[c] \in Past => \/ c \in Elems(deleteReq)
                             \/ delPc = "joining" /\ delCur = c

\* The invariant of the life of a connection, from its accept to its deletion.
LifeInv ==
    /\ LockOwned
    /\ NoThreadOutlivesConnection
    /\ DeleterJoinsOnlyLeavers
    /\ DeleteReqSound
    /\ NoConnectionLeaked

\* While the server serves, an empty server does not stream: the deleter that
\* erased the last connection stops the stream before it lets go of the lock,
\* so that no new connection finds a stream nobody asked for.
EmptyServerIsQuiet ==
    connections = {} /\ streaming /\ mainPc = "serving" => delPc = "idle"

\* What each place of startStream, endStream and the deleter's stop relies on, whichever
\* clients start and stop: as long as no two threads were in startStream or endStream at
\* once, the assertions of the pipeline and its encoder ("Starting without stopping first!",
\* "Stopping when not running!") cannot fail, and whenever no thread is at one of these
\* places, the pipeline and both encoders run iff `streaming' is set.
PipelineFollowsStreaming ==
    ~overlap =>
        /\ \A c \in Conns :
            /\ runPc[c] = "claim" => ~streaming /\ ~capture /\ ~encoder /\ ~audio
            /\ runPc[c] = "joinVideo" => streaming /\ capture /\ ~encoder /\ ~audio
            /\ runPc[c] = "joinAudio" => streaming /\ capture /\ encoder /\ ~audio
            /\ runPc[c] = "release" => streaming /\ capture /\ encoder /\ audio
            /\ runPc[c] = "stopCapture" => ~streaming /\ capture /\ encoder /\ ~audio
        /\ delPc = "stopping" => ~streaming /\ capture /\ encoder /\ audio
        /\ (\A c \in Conns : runPc[c] \notin InStream) /\ delPc # "stopping"
                => (streaming <=> capture) /\ (streaming <=> encoder) /\ (streaming <=> audio)

\* The client that configured the stream last, was told its mode in an OK
\* ConfigureStreamResponse and sizes its decoder by it, has the encoder run in that mode once
\* it has started a stream: whoever stops the stream and starts it again, and whatever overlaps.
ModeAgreed ==
    \A c \in Conns : capture /\ c = requested /\ c \in connStreaming => encoderMode = c

\* Why the two properties above hold: as long as nothing overlapped, one thread at most is in
\* startStream or endStream; the deleter stops a stream only when there is no connection at
\* all; and a mode is fixed for its client from the claim of its start.
StreamInv ==
    /\ PipelineFollowsStreaming
    /\ ~overlap => \A c, d \in Conns : runPc[c] \in InStream /\ runPc[d] \in InStream => c = d
    /\ delPc = "stopping" => connections = {}
    /\ \A c \in Conns :
        c = requested /\ (c \in connStreaming \/ runPc[c] \in {"joinVideo", "joinAudio"}) => encoderMode = c

\* A start waits for a worker of the previous stream.
Blocked(c) ==
    \/ runPc[c] = "joinVideo" /\ ~Joined("video")
    \/ runPc[c] = "joinAudio" /\ ~Joined("audio")

\* A connection whose socket is no longer connected is destroyed, as long as the server
\* serves (StreamServer::stop is another matter) and lives; unless its thread never comes
\* out of the joins of a start.
DeadConnectionsReclaimed ==
    \A c \in Conns :
        \/ (c \in connections \ connected) ~> (c \notin connections \/ crashed \/ mainPc # "serving")
        \/ <>[]Blocked(c)

\* When the last connection is gone, the capture pipeline is stopped, unless a start
\* or a stop was overtaken by another, which may leave the pipeline running.
StreamStopsAfterLast ==
    (connections = {} /\ capture) ~> (~capture \/ crashed \/ mainPc # "serving" \/ overlap)

\* StreamServer::stop: "Drop all elements" of `connections' (StreamServer.cpp:83).
StopDropsConnections ==
    (mainPc = "dropping") ~> (connections = {} \/ crashed)
-----------------------------------------------------------------------------
(* Refinement.                                                             *)

Phase(c) ==
    IF runPc[c] = "unborn" THEN "absent"
    ELSE IF c \notin connections THEN "reclaimed"
    ELSE IF runPc[c] \in Past THEN "left"
    ELSE "open"

Registry == INSTANCE ConnectionRegistry WITH
                phase <- [c \in Conns |-> Phase(c)],
                on    <- streaming

\* The threads of StreamServer implement the registry: each connection is
\* opened, leaves and is reclaimed once and in this order, and the stream is
\* never on when somebody joins an empty server.
ImplementsRegistry == Registry!Spec
=============================================================================
