------------------------------ MODULE Pipeline ------------------------------
(***************************************************************************)
(* The host's video path: CapturePipelineD3DSoft with its EncoderFFmpeg.   *)
(*                                                                         *)
(* One thread, of a connection that asks for a stream, sets the mode and   *)
(* starts the pipeline; another one, which ends the stream, stops it.      *)
(* StreamServer's `streaming' is tested and set without a lock, before the *)
(* calls: a start and a stop may overlap, and the assertions about their   *)
(* order then end the process.  (Two starts or two stops at once are left  *)
(* to module StreamServer.)                                                *)
(*                                                                         *)
(* Three threads run in a session: loopCapture_ scales what the desktop    *)
(* shows; loopEncoder_ picks the last picture, pushes it into the encoder  *)
(* and waits for one packet; the encoder's run_ feeds the codec.  None of  *)
(* them is joined by stop(): they end on their own, and the next start()   *)
(* joins them.                                                             *)
(*                                                                         *)
(* stop() changes the encoder's flagRun and notifies without a lock, so a  *)
(* thread's test of flagRun and its falling asleep are two steps, between  *)
(* which it holds the lock.  The codec gives one packet for each frame, or *)
(* refuses the frame, which ends run_ and leaves the encoder's flagRun set.*)
(***************************************************************************)
EXTENDS Naturals, Sequences

CONSTANTS
    Modes,        \* video modes: the size of a frame
    NoMode,       \* no size yet
    MaxSessions,  \* bound: calls of start()
    MaxFrames     \* bound: frames picked for encoding

ASSUME NoModeAssumption == NoMode \notin Modes
ASSUME BoundsAssumption == MaxSessions \in Nat /\ MaxFrames \in Nat

VARIABLES
    streaming,   \* StreamServer::streaming
    startPc,     \* where the thread that starts the pipeline is
    stopPc,      \* where the thread that stops it is
    sessions,    \* sessions begun
    flagRun,     \* CapturePipelineD3DSoft::flagRun
    encFlag,     \* EncoderFFmpeg::flagRun
    capPc,       \* where captureThread is
    encPc,       \* where encodeThread is
    runPc,       \* where the encoder's runThread is
    scaleMode,   \* ScaleSoftware's output format
    encMode,     \* EncoderFFmpeg's width and height
    tex,         \* size of ScaleSoftware's outputTex, NoMode while it is empty
    lastDesktop, \* lastFrame.desktop
    firstFrame,  \* firstFrameProvided
    hand,        \* the frame that loopEncoder_ pushes, or the packet it has read
    nextFrame,   \* EncoderFFmpeg::nextFrame: empty if not flagNextFrameAvailable
    work,        \* the frame that run_ has taken, then the packet in the codec
    packetQueue, \* encoded packets
    picked,      \* frames picked so far
    written,     \* the last packet given to writeOutput
    refused,     \* history: the codec of this session has refused a frame
    missed,      \* history: a thread was about to wait when the last stop notified
    crashed      \* a failed assertion ended the process

startVars == <<startPc, sessions>>
flagVars  == <<streaming, flagRun, encFlag>>
ctlVars   == <<startVars, stopPc, flagVars, missed>>
modeVars  == <<scaleMode, encMode>>
imageVars == <<tex, lastDesktop>>
frameVars == <<hand, nextFrame, work, packetQueue>>
vars      == <<ctlVars, capPc, encPc, runPc, modeVars, imageVars, firstFrame, frameVars,
               picked, written, refused, crashed>>

StartPcs == {"idle", "flag", "joinCapture", "joinEncode", "joinRun", "spawn"}
StopPcs  == {"idle", "flag", "encoder", "notify"}
CapPcs   == {"off", "loop", "read", "exited"}
EncPcs   == {"off", "loop", "pick", "push", "pushBlock", "pushWait", "read", "readBlock",
             "readWait", "write", "exited"}
RunPcs   == {"off", "loop", "take", "takeBlock", "takeWait", "check", "exited"}

\* A thread that a join does not wait for.
Gone(pc) == pc \in {"off", "exited"}

\* loopEncoder_ has pushed a frame and waits for its packet.
Reading == {"read", "readBlock", "readWait"}

\* The encoder's frameLock and packetLock are held by a thread that is about to wait.
FrameLockFree  == encPc # "pushBlock" /\ runPc # "takeBlock"
PacketLockFree == encPc # "readBlock"

Frames == [seq : 1..MaxFrames, mode : Modes]
-----------------------------------------------------------------------------
Init ==
    /\ streaming = FALSE /\ startPc = "idle" /\ stopPc = "idle" /\ sessions = 0
    /\ flagRun = FALSE /\ encFlag = FALSE
    /\ capPc = "off" /\ encPc = "off" /\ runPc = "off"
    /\ scaleMode = NoMode /\ encMode = NoMode
    /\ tex = NoMode /\ lastDesktop = FALSE /\ firstFrame = FALSE
    /\ hand = <<>> /\ nextFrame = <<>> /\ work = <<>> /\ packetQueue = <<>>
    /\ picked = 0 /\ written = 0 /\ refused = FALSE /\ missed = FALSE /\ crashed = FALSE
-----------------------------------------------------------------------------
(* startStream.                                                            *)

\* The test of streaming, and setEncoderMode: the threads of the previous session may still
\* be running, and the stop of that session may still be under way.
SetEncoderMode ==
    /\ startPc = "idle" /\ ~streaming
    /\ sessions < MaxSessions
    /\ sessions' = sessions + 1
    /\ streaming' = TRUE
    /\ \E m \in Modes : scaleMode' = m /\ encMode' = m
    /\ startPc' = "flag"
    /\ UNCHANGED <<stopPc, flagRun, encFlag, missed, capPc, encPc, runPc, imageVars, firstFrame,
                   frameVars, picked, written, refused, crashed>>

\* start() sets flagRun before it joins the threads of the previous session: "Starting
\* without stopping first!" if the stop of that session has not got this far.
StartFlag ==
    /\ startPc = "flag"
    /\ crashed' = flagRun
    /\ flagRun' = TRUE
    /\ startPc' = "joinCapture"
    /\ UNCHANGED <<sessions, stopPc, streaming, encFlag, missed, capPc, encPc, runPc, modeVars,
                   imageVars, firstFrame, frameVars, picked, written, refused>>

JoinCapture ==
    /\ startPc = "joinCapture" /\ Gone(capPc)
    /\ startPc' = "joinEncode"
    /\ UNCHANGED <<sessions, stopPc, flagVars, missed, capPc, encPc, runPc, modeVars, imageVars,
                   firstFrame, frameVars, picked, written, refused, crashed>>

JoinEncode ==
    /\ startPc = "joinEncode" /\ Gone(encPc)
    /\ startPc' = "joinRun"
    /\ UNCHANGED <<sessions, stopPc, flagVars, missed, capPc, encPc, runPc, modeVars, imageVars,
                   firstFrame, frameVars, picked, written, refused, crashed>>

\* EncoderFFmpeg::start: joins the old thread, forgets the frame that was waiting and
\* opens the codec anew; packetQueue is kept.
EncoderStart ==
    /\ startPc = "joinRun" /\ ~encFlag /\ Gone(runPc)
    /\ nextFrame' = <<>>
    /\ work' = <<>>
    /\ encFlag' = TRUE
    /\ runPc' = "loop"
    /\ refused' = FALSE /\ missed' = FALSE
    /\ startPc' = "spawn"
    /\ UNCHANGED <<sessions, stopPc, streaming, flagRun, capPc, encPc, modeVars, imageVars,
                   firstFrame, hand, packetQueue, picked, written, crashed>>

\* "Not stopped before start!": the stop of the previous session has not got this far.
EncoderNotStopped ==
    /\ startPc = "joinRun" /\ encFlag
    /\ crashed' = TRUE
    /\ UNCHANGED <<ctlVars, capPc, encPc, runPc, modeVars, imageVars, firstFrame, frameVars,
                   picked, written, refused>>

\* The new captureThread and encodeThread.
StartThreads ==
    /\ startPc = "spawn"
    /\ capPc' = "loop"
    /\ encPc' = "loop"
    /\ firstFrame' = FALSE
    /\ startPc' = "idle"
    /\ UNCHANGED <<sessions, stopPc, flagVars, missed, runPc, modeVars, imageVars, frameVars,
                   picked, written, refused, crashed>>
-----------------------------------------------------------------------------
(* endStream, or the deleter thread.                                       *)

\* The test of streaming: the start of the session may still be under way.
EndStream ==
    /\ stopPc = "idle" /\ streaming
    /\ streaming' = FALSE
    /\ stopPc' = "flag"
    /\ UNCHANGED <<startVars, flagRun, encFlag, missed, capPc, encPc, runPc, modeVars, imageVars,
                   firstFrame, frameVars, picked, written, refused, crashed>>

\* stop(): "Stopping when not running!" if start() has not got this far.
StopFlag ==
    /\ stopPc = "flag"
    /\ crashed' = ~flagRun
    /\ flagRun' = FALSE
    /\ stopPc' = "encoder"
    /\ UNCHANGED <<startVars, streaming, encFlag, missed, capPc, encPc, runPc, modeVars, imageVars,
                   firstFrame, frameVars, picked, written, refused>>

\* EncoderFFmpeg::stop: the flag ("Trying to stop when not running!"), ...
StopEncoder ==
    /\ stopPc = "encoder"
    /\ crashed' = ~encFlag
    /\ encFlag' = FALSE
    /\ stopPc' = "notify"
    /\ UNCHANGED <<startVars, streaming, flagRun, missed, capPc, encPc, runPc, modeVars, imageVars,
                   firstFrame, frameVars, picked, written, refused>>

\* A thread has tested encFlag and is about to wait.
AboutToWait == encPc \in {"pushBlock", "readBlock"} \/ runPc = "takeBlock"

\* Faulty variant: packetCV is not notified.
StopNotifyFrames ==
    /\ stopPc = "notify"
    /\ encPc' = IF encPc = "pushWait" THEN "push" ELSE encPc
    /\ runPc' = IF runPc = "takeWait" THEN "take" ELSE runPc
    /\ missed' = (~encFlag /\ AboutToWait)
    /\ stopPc' = "idle"
    /\ UNCHANGED <<startVars, flagVars, capPc, modeVars, imageVars, firstFrame, frameVars, picked,
                   written, refused, crashed>>

\* ... then the notifications, which wake who is asleep.
StopNotify ==
    /\ stopPc = "notify"
    /\ encPc' = CASE encPc = "pushWait" -> "push" [] encPc = "readWait" -> "read" [] OTHER -> encPc
    /\ runPc' = IF runPc = "takeWait" THEN "take" ELSE runPc
    /\ missed' = (~encFlag /\ AboutToWait)
    /\ stopPc' = "idle"
    /\ UNCHANGED <<startVars, flagVars, capPc, modeVars, imageVars, firstFrame, frameVars, picked,
                   written, refused, crashed>>
-----------------------------------------------------------------------------
(* loopCapture_.                                                           *)

CaptureLoop ==
    /\ capPc = "loop"
    /\ capPc' = IF flagRun THEN "read" ELSE "exited"
    /\ UNCHANGED <<ctlVars, encPc, runPc, modeVars, imageVars, firstFrame, frameVars, picked,
                   written, refused, crashed>>

\* What CaptureD3D::readSoftware may give: a picture of the desktop, or none (a
\* timeout, no access to the desktop, a new cursor only).
ReadSoftware == {"desktop", "none"}

\* pushInput and flush: the picture is scaled to the output format of the moment.
Scale == tex' = scaleMode

CaptureFrame ==
    /\ capPc = "read"
    /\ capPc' = "loop"
    /\ \E picture \in ReadSoftware :
        IF picture = "desktop" THEN Scale /\ lastDesktop' = TRUE ELSE UNCHANGED imageVars
    /\ UNCHANGED <<ctlVars, encPc, runPc, modeVars, firstFrame, frameVars, picked, written,
                   refused, crashed>>
-----------------------------------------------------------------------------
(* loopEncoder_, with pushFrame and readData.                              *)

\* The loop's test, and the wait for the next tick.
EncodeLoop ==
    /\ encPc = "loop"
    /\ encPc' = IF flagRun THEN "pick" ELSE "exited"
    /\ UNCHANGED <<ctlVars, capPc, runPc, modeVars, imageVars, firstFrame, frameVars, picked,
                   written, refused, crashed>>

\* Takes a copy of the last picture, new or not, once there has been one.
PickFrame ==
    /\ encPc = "pick"
    /\ \/ /\ ~firstFrame /\ ~lastDesktop
          /\ encPc' = "loop"
          /\ UNCHANGED <<firstFrame, lastDesktop, hand, picked>>
       \/ /\ firstFrame \/ lastDesktop
          /\ picked < MaxFrames
          /\ firstFrame' = TRUE
          /\ hand' = <<[seq |-> picked + 1, mode |-> tex]>>
          /\ picked' = picked + 1
          /\ lastDesktop' = FALSE
          /\ encPc' = "push"
    /\ UNCHANGED <<ctlVars, capPc, runPc, modeVars, tex, nextFrame, work, packetQueue, written,
                   refused, crashed>>

PushBlock ==
    /\ encPc = "push" /\ FrameLockFree
    /\ nextFrame # <<>> /\ encFlag
    /\ encPc' = "pushBlock"
    /\ UNCHANGED <<ctlVars, capPc, runPc, modeVars, imageVars, firstFrame, frameVars, picked,
                   written, refused, crashed>>

\* pushFrame; an encoder that was stopped drops the frame.
PushFrame ==
    /\ encPc = "push" /\ FrameLockFree
    /\ nextFrame = <<>> \/ ~encFlag
    /\ nextFrame' = IF encFlag THEN hand ELSE nextFrame
    /\ runPc' = IF encFlag /\ runPc = "takeWait" THEN "take" ELSE runPc
    /\ hand' = <<>>
    /\ encPc' = "read"
    /\ UNCHANGED <<ctlVars, capPc, modeVars, imageVars, firstFrame, work, packetQueue, picked,
                   written, refused, crashed>>

ReadBlock ==
    /\ encPc = "read" /\ PacketLockFree
    /\ packetQueue = <<>> /\ encFlag
    /\ encPc' = "readBlock"
    /\ UNCHANGED <<ctlVars, capPc, runPc, modeVars, imageVars, firstFrame, frameVars, picked,
                   written, refused, crashed>>

\* Faulty variant: readData gives up when there is no packet yet.
ReadDataPoll ==
    /\ encPc = "read" /\ PacketLockFree
    /\ \/ /\ encFlag /\ packetQueue # <<>>
          /\ hand' = <<Head(packetQueue)>>
          /\ packetQueue' = Tail(packetQueue)
          /\ encPc' = "write"
       \/ /\ ~encFlag \/ packetQueue = <<>>
          /\ encPc' = "loop"
          /\ UNCHANGED <<hand, packetQueue>>
    /\ UNCHANGED <<ctlVars, capPc, runPc, modeVars, imageVars, firstFrame, nextFrame, work, picked,
                   written, refused, crashed>>

\* Faulty variant: the newest packet is read.
ReadDataBack ==
    /\ encPc = "read" /\ PacketLockFree
    /\ \/ /\ encFlag /\ packetQueue # <<>>
          /\ hand' = <<packetQueue[Len(packetQueue)]>>
          /\ packetQueue' = SubSeq(packetQueue, 1, Len(packetQueue) - 1)
          /\ encPc' = "write"
       \/ /\ ~encFlag
          /\ encPc' = "loop"
          /\ UNCHANGED <<hand, packetQueue>>
    /\ UNCHANGED <<ctlVars, capPc, runPc, modeVars, imageVars, firstFrame, nextFrame, work, picked,
                   written, refused, crashed>>

\* readData: the first packet, or none from an encoder that was stopped.
ReadData ==
    /\ encPc = "read" /\ PacketLockFree
    /\ \/ /\ encFlag /\ packetQueue # <<>>
          /\ hand' = <<Head(packetQueue)>>
          /\ packetQueue' = Tail(packetQueue)
          /\ encPc' = "write"
       \/ /\ ~encFlag
          /\ encPc' = "loop"
          /\ UNCHANGED <<hand, packetQueue>>
    /\ UNCHANGED <<ctlVars, capPc, runPc, modeVars, imageVars, firstFrame, nextFrame, work, picked,
                   written, refused, crashed>>

\* The callback, StreamServer::processOutput_.
WriteOutput ==
    /\ encPc = "write"
    /\ written' = hand[1].seq
    /\ hand' = <<>>
    /\ encPc' = "loop"
    /\ UNCHANGED <<ctlVars, capPc, runPc, modeVars, imageVars, firstFrame, nextFrame, work,
                   packetQueue, picked, refused, crashed>>
-----------------------------------------------------------------------------
(* EncoderFFmpeg::run_.                                                    *)

\* The loop's test, when the codec has nothing to give.
RunLoop ==
    /\ runPc = "loop"
    /\ \/ ~encFlag /\ runPc' = "exited"
       \/ encFlag /\ work = <<>> /\ runPc' = "take"
    /\ UNCHANGED <<ctlVars, capPc, encPc, modeVars, imageVars, firstFrame, frameVars, picked,
                   written, refused, crashed>>

\* The loop's test, then a packet leaves the codec.
Deliver ==
    /\ runPc = "loop"
    /\ encFlag
    /\ work # <<>>
    /\ PacketLockFree
    /\ packetQueue' = packetQueue \o work
    /\ work' = <<>>
    /\ encPc' = IF encPc = "readWait" THEN "read" ELSE encPc
    /\ UNCHANGED <<ctlVars, capPc, runPc, modeVars, imageVars, firstFrame, hand, nextFrame, picked,
                   written, refused, crashed>>

TakeBlock ==
    /\ runPc = "take" /\ FrameLockFree
    /\ nextFrame = <<>> /\ encFlag
    /\ runPc' = "takeBlock"
    /\ UNCHANGED <<ctlVars, capPc, encPc, modeVars, imageVars, firstFrame, frameVars, picked,
                   written, refused, crashed>>

\* Faulty variant: the thread that waits for room is not notified.
TakeFrameSilent ==
    /\ runPc = "take" /\ FrameLockFree
    /\ encFlag /\ nextFrame # <<>>
    /\ work' = nextFrame
    /\ nextFrame' = <<>>
    /\ UNCHANGED encPc
    /\ runPc' = "check"
    /\ UNCHANGED <<ctlVars, capPc, modeVars, imageVars, firstFrame, hand, packetQueue, picked,
                   written, refused, crashed>>

TakeFrame ==
    /\ runPc = "take" /\ FrameLockFree
    /\ encFlag /\ nextFrame # <<>>
    /\ work' = nextFrame
    /\ nextFrame' = <<>>
    /\ encPc' = IF encPc = "pushWait" THEN "push" ELSE encPc
    /\ runPc' = "check"
    /\ UNCHANGED <<ctlVars, capPc, modeVars, imageVars, firstFrame, hand, packetQueue, picked,
                   written, refused, crashed>>

\* A run_ that was told to stop goes back to the loop's test.
TakeStopped ==
    /\ runPc = "take" /\ FrameLockFree
    /\ ~encFlag
    /\ runPc' = "loop"
    /\ UNCHANGED <<ctlVars, capPc, encPc, modeVars, imageVars, firstFrame, frameVars, picked,
                   written, refused, crashed>>

\* The codec refuses the frame: run_ ends, and nobody clears encFlag.
CodecRefuses ==
    /\ runPc = "check"
    /\ work[1].mode = encMode
    /\ work' = <<>>
    /\ runPc' = "exited"
    /\ refused' = TRUE
    /\ UNCHANGED <<ctlVars, capPc, encPc, modeVars, imageVars, firstFrame, hand, nextFrame,
                   packetQueue, picked, written, crashed>>

\* "Frame size does not match configuration!", else the frame goes into the codec.
CheckFrame ==
    /\ runPc = "check"
    /\ crashed' = (work[1].mode # encMode)
    /\ runPc' = "loop"
    /\ UNCHANGED <<ctlVars, capPc, encPc, modeVars, imageVars, firstFrame, frameVars, picked,
                   written, refused>>
-----------------------------------------------------------------------------
\* A thread that has decided to wait falls asleep and lets go of the lock.
Sleep ==
    /\ \/ encPc = "pushBlock" /\ encPc' = "pushWait" /\ UNCHANGED runPc
       \/ encPc = "readBlock" /\ encPc' = "readWait" /\ UNCHANGED runPc
       \/ runPc = "takeBlock" /\ runPc' = "takeWait" /\ UNCHANGED encPc
    /\ UNCHANGED <<ctlVars, capPc, modeVars, imageVars, firstFrame, frameVars, picked, written,
                   refused, crashed>>

\* A wait may return without a notification.
SpuriousWake ==
    /\ \/ encPc = "pushWait" /\ encPc' = "push" /\ UNCHANGED runPc
       \/ encPc = "readWait" /\ encPc' = "read" /\ UNCHANGED runPc
       \/ runPc = "takeWait" /\ runPc' = "take" /\ UNCHANGED encPc
    /\ UNCHANGED <<ctlVars, capPc, modeVars, imageVars, firstFrame, frameVars, picked, written,
                   refused, crashed>>
-----------------------------------------------------------------------------
Start == StartFlag \/ JoinCapture \/ JoinEncode \/ EncoderStart \/ EncoderNotStopped \/ StartThreads

Stop == StopFlag \/ StopEncoder \/ StopNotify

Caller == SetEncoderMode \/ Start \/ EndStream \/ Stop

CaptureThread == CaptureLoop \/ CaptureFrame

EncodeThread ==
    \/ EncodeLoop \/ PickFrame \/ PushBlock \/ PushFrame \/ ReadBlock \/ ReadData \/ WriteOutput

RunThread == RunLoop \/ Deliver \/ TakeBlock \/ TakeFrame \/ TakeStopped \/ CheckFrame \/ CodecRefuses

Next ==
    /\ ~crashed
    /\ Caller \/ CaptureThread \/ EncodeThread \/ RunThread \/ Sleep \/ SpuriousWake

Spec == Init /\ [][Next]_vars

\* Threads that can run do; who needs a lock that is free again and again gets it.
\* A start or a stop that has begun goes on, but nobody owes one.
Fairness ==
    /\ WF_vars(~crashed /\ Start)
    /\ WF_vars(~crashed /\ Stop)
    /\ WF_vars(~crashed /\ CaptureThread)
    /\ WF_vars(~crashed /\ EncodeThread)
    /\ SF_vars(~crashed /\ (PushFrame \/ ReadData))
    /\ WF_vars(~crashed /\ RunThread)
    /\ SF_vars(~crashed /\ (Deliver \/ TakeFrame))
    /\ WF_vars(~crashed /\ Sleep)

FairSpec == Spec /\ Fairness
-----------------------------------------------------------------------------
(* Properties.                                                             *)

\* Every variable has its type; nextFrame, hand and work hold one frame at most.
TypeOK ==
    /\ startPc \in StartPcs /\ stopPc \in StopPcs
    /\ capPc \in CapPcs /\ encPc \in EncPcs /\ runPc \in RunPcs
    /\ sessions \in 0..MaxSessions /\ picked \in 0..MaxFrames /\ written \in 0..MaxFrames
    /\ {streaming, flagRun, encFlag, lastDesktop, firstFrame, refused, missed, crashed}
            \subseteq BOOLEAN
    /\ {scaleMode, encMode, tex} \subseteq Modes \cup {NoMode}
    /\ \A q \in {hand, nextFrame, work} : Len(q) <= 1
    /\ \A q \in {hand, nextFrame, work, packetQueue} : \A i \in 1..Len(q) : q[i] \in Frames

\* Every session leaves at most one packet behind in packetQueue, which start() does
\* not clear: while the encoder runs, what is on its way is what earlier sessions
\* left and the one frame whose packet loopEncoder_ waits for.
OneBehindPerSession ==
    LET onTheWay == Len(nextFrame) + Len(work) + Len(packetQueue)
    IN  /\ onTheWay <= sessions
        /\ encFlag /\ encPc \notin Reading => onTheWay < sessions

\* Packets leave the host in the order in which their frames were picked, across
\* the sessions too.
WrittenInOrder == [][written' # written => written' > written]_vars

\* A frame that is pushed leads to a packet that is written, unless the encoder is stopped
\* or its codec has refused a frame: run_ has then ended for good, and loopEncoder_ waits.
FrameIsWritten ==
    (encPc = "push" /\ encFlag) ~> (encPc = "write" \/ ~encFlag \/ refused \/ crashed)

\* After a stop every thread of the session ends, also the loopEncoder_ whose codec refused
\* a frame, and the start that overlapped the stop returns: unless flagRun is set again
\* before, or a thread missed the notification, which stop() gives without the lock.
ThreadsEnd ==
    LET ended == startPc = "idle" /\ Gone(capPc) /\ Gone(encPc) /\ Gone(runPc)
        bound == encPc = "pick" /\ picked = MaxFrames
    IN  stopPc = "encoder" ~> (ended \/ flagRun \/ missed \/ crashed \/ bound)
=============================================================================
