------------------------------- MODULE Viewer -------------------------------
(***************************************************************************)
(* The client's video path: StreamViewerD3D with its DecoderFFmpeg.        *)
(*                                                                         *)
(* The receive thread hands frames and cursor shapes over; the user        *)
(* interface thread learns the size of the window, and destroys the        *)
(* viewer; the one of them that finds both the window and the stream ready *)
(* starts the decoder thread and the render thread.  Packets go through    *)
(* packetQueue to the decoder thread, frames through the bounded           *)
(* frameQueue to the render thread.  The decoder thread (when the queue is *)
(* full) and the render thread (when it is empty) wait on the same         *)
(* condition variable, frameCV.                                            *)
(*                                                                         *)
(* A critical section that does not wait is one step.  The codec is an     *)
(* external part that gives one frame for each packet, in order.           *)
(***************************************************************************)
EXTENDS Integers, Sequences

CONSTANTS
    MaxPackets, \* bound: frames that the host sends
    MaxShapes,  \* bound: changes of the cursor's shape
    FrameCap    \* capacity of frameQueue (4 in the code)

ASSUME BoundsAssumption   == MaxPackets \in Nat /\ MaxShapes \in Nat
ASSUME FrameCapAssumption == FrameCap \in Nat \ {0}

VARIABLES
    recvPc,          \* where the receive thread is
    uiPc,            \* where the user interface thread is
    dPc,             \* where the decoder thread, DecoderFFmpeg::run_, is
    rPc,             \* where the render thread is
    flagWindowReady, flagStreamStarted, flagInitialized, flagRunRender,
    flagRun,         \* DecoderFFmpeg::flagRun
    flagKeyInPacket,
    packetQueue,     \* packets to decode
    codec,           \* packets whose frame has not left the codec
    frameQueue,      \* decoded frames
    prevReadFrame,   \* is the last frame that was read kept alive?
    pending,         \* pendingCursorChange: a shape, 0 if none
    sent,            \* frames received from the host
    shapes,          \* shapes received from the host
    fed,             \* the last packet that went into the codec
    shown,           \* the last shape the render thread has drawn
    asserted         \* an assertion of the code failed

threadVars == <<recvPc, uiPc, dPc, rPc>>
flagVars   == <<flagWindowReady, flagStreamStarted, flagInitialized, flagRunRender, flagRun>>
queueVars  == <<flagKeyInPacket, packetQueue, codec, frameQueue, prevReadFrame>>
peerVars   == <<pending, sent, shapes>>
vars       == <<threadVars, flagVars, queueVars, peerVars, fed, shown, asserted>>

Starting == {"claim", "start", "run", "render"}

RecvPcs == {"idle", "check", "push", "joined"} \cup Starting
UiPcs   == {"idle", "check", "stop", "notify", "joinRender", "joinDecoder", "closed"} \cup Starting
DPcs    == {"off", "loop", "room", "roomWait", "packet", "packetWait", "exited"}
RPcs    == {"off", "loop", "read", "frameWait", "using", "exited"}

\* A frame on its way: its number, is it an IDR frame, and the shape it carries.
Frame(n, key, shape) == [seq |-> n, idr |-> key, shape |-> shape]

Frames == [seq : 1..MaxPackets, idr : BOOLEAN, shape : 0..MaxShapes]
-----------------------------------------------------------------------------
Init ==
    /\ recvPc = "idle" /\ uiPc = "idle" /\ dPc = "off" /\ rPc = "off"
    /\ flagWindowReady = FALSE /\ flagStreamStarted = FALSE /\ flagInitialized = FALSE
    /\ flagRunRender = FALSE /\ flagRun = FALSE /\ flagKeyInPacket = FALSE
    /\ packetQueue = <<>> /\ codec = <<>> /\ frameQueue = <<>>
    /\ prevReadFrame = FALSE
    /\ pending = 0 /\ sent = 0 /\ shapes = 0 /\ fed = 0 /\ shown = 0
    /\ asserted = FALSE

\* packetCV.notify_one: only the decoder thread waits on it.
NotifyPacket == dPc' = IF dPc = "packetWait" THEN "packet" ELSE dPc
-----------------------------------------------------------------------------
(* The receive thread: processCursorShape, processDesktopFrame.            *)

CursorShape ==
    /\ recvPc = "idle"
    /\ shapes < MaxShapes
    /\ shapes' = shapes + 1
    /\ pending' = shapes + 1
    /\ UNCHANGED <<threadVars, flagVars, queueVars, sent, fed, shown, asserted>>

\* Faulty variant: the first frame does not look at the window either.
FrameArrivesUntested ==
    /\ recvPc = "idle"
    /\ sent < MaxPackets
    /\ sent' = sent + 1
    /\ recvPc' = "push"
    /\ flagStreamStarted' = TRUE
    /\ UNCHANGED <<uiPc, dPc, rPc, flagWindowReady, flagInitialized, flagRunRender, flagRun,
                   queueVars, pending, shapes, fed, shown, asserted>>

\* A frame arrives: flagStreamStarted.exchange(true).
FrameArrives ==
    /\ recvPc = "idle"
    /\ sent < MaxPackets
    /\ sent' = sent + 1
    /\ recvPc' = IF flagStreamStarted THEN "push" ELSE "check"
    /\ flagStreamStarted' = TRUE
    /\ UNCHANGED <<uiPc, dPc, rPc, flagWindowReady, flagInitialized, flagRunRender, flagRun,
                   queueVars, pending, shapes, fed, shown, asserted>>

CheckWindow ==
    /\ recvPc = "check"
    /\ recvPc' = IF flagWindowReady THEN "claim" ELSE "push"
    /\ UNCHANGED <<uiPc, dPc, rPc, flagVars, queueVars, peerVars, fed, shown, asserted>>

\* shape is the newest one among the frames of q: 0 if there is none.
Newest(q, shape) ==
    \/ shape = 0 /\ \A i \in 1..Len(q) : q[i].shape = 0
    \/ shape # 0 /\ \E i \in 1..Len(q) : /\ q[i].shape = shape
                                         /\ \A j \in i+1..Len(q) : q[j].shape = 0

\* Faulty variant: a packet that is not an IDR packet skips the queue too.
PushDataSkipsAll ==
    /\ recvPc = "push"
    /\ \E key \in BOOLEAN, shape \in 0..MaxShapes :
        LET skip == flagKeyInPacket
        IN  /\ sent = 1 => key
            /\ IF pending = 0 /\ skip THEN Newest(packetQueue, shape) ELSE shape = pending
            /\ packetQueue' = Append(IF skip THEN <<>> ELSE packetQueue, Frame(sent, key, shape))
            /\ flagKeyInPacket' = (flagKeyInPacket \/ key)
    /\ pending' = 0
    /\ NotifyPacket
    /\ recvPc' = "idle"
    /\ UNCHANGED <<uiPc, rPc, flagVars, codec, frameQueue, prevReadFrame, sent, shapes,
                   fed, shown, asserted>>

\* Faulty variant: the cursor of the packets that are skipped is dropped.
PushDataForgetsCursor ==
    /\ recvPc = "push"
    /\ \E key \in BOOLEAN :
        /\ sent = 1 => key
        /\ LET skip  == key /\ flagKeyInPacket
           IN  packetQueue' = Append(IF skip THEN <<>> ELSE packetQueue, Frame(sent, key, pending))
        /\ flagKeyInPacket' = (flagKeyInPacket \/ key)
    /\ pending' = 0
    /\ NotifyPacket
    /\ recvPc' = "idle"
    /\ UNCHANGED <<uiPc, rPc, flagVars, codec, frameQueue, prevReadFrame, sent, shapes,
                   fed, shown, asserted>>

\* pushData: an IDR packet makes the packets before it superfluous, if the queue
\* holds another IDR packet; the last shape among them moves to the new packet.
\* The first packet of a stream is an IDR packet.
PushData ==
    /\ recvPc = "push"
    /\ \E key \in BOOLEAN, shape \in 0..MaxShapes :
        LET skip == key /\ flagKeyInPacket
        IN  /\ sent = 1 => key
            /\ IF pending = 0 /\ skip THEN Newest(packetQueue, shape) ELSE shape = pending
            /\ packetQueue' = Append(IF skip THEN <<>> ELSE packetQueue, Frame(sent, key, shape))
            /\ flagKeyInPacket' = (flagKeyInPacket \/ key)
    /\ pending' = 0
    /\ NotifyPacket
    /\ recvPc' = "idle"
    /\ UNCHANGED <<uiPc, rPc, flagVars, codec, frameQueue, prevReadFrame, sent, shapes,
                   fed, shown, asserted>>
-----------------------------------------------------------------------------
(* init_, by the receive thread (which then pushes its frame) or by the    *)
(* user interface thread; `pc' is the program counter of the one.          *)

\* Faulty variant: flagInitialized is not tested.
InitClaimUntested(pc, next, after) ==
    /\ pc = "claim"
    /\ next = "start"
    /\ flagInitialized' = TRUE
    /\ UNCHANGED <<dPc, rPc, flagRun, flagRunRender, flagKeyInPacket, asserted>>

\* flagInitialized.exchange(true): the second caller returns at once.
InitClaim(pc, next, after) ==
    /\ pc = "claim"
    /\ next = IF flagInitialized THEN after ELSE "start"
    /\ flagInitialized' = TRUE
    /\ UNCHANGED <<dPc, rPc, flagRun, flagRunRender, flagKeyInPacket, asserted>>

\* DecoderFFmpeg::start: the queue is not cleared, and no lock is held.
DecoderStart(pc, next, after) ==
    /\ pc = "start"
    /\ next = "run"
    /\ asserted' = (asserted \/ flagRun)
    /\ flagKeyInPacket' = FALSE
    /\ UNCHANGED <<dPc, rPc, flagInitialized, flagRun, flagRunRender>>

DecoderRun(pc, next, after) ==
    /\ pc = "run"
    /\ next = "render"
    /\ asserted' = (asserted \/ dPc # "off")
    /\ flagRun' = TRUE
    /\ dPc' = "loop"
    /\ UNCHANGED <<rPc, flagInitialized, flagRunRender, flagKeyInPacket>>

RenderStart(pc, next, after) ==
    /\ pc = "render"
    /\ next = after
    /\ flagRunRender' = TRUE
    /\ rPc' = "loop"
    /\ UNCHANGED <<dPc, flagInitialized, flagRun, flagKeyInPacket, asserted>>

InitStep(pc, next, after) ==
    \/ InitClaim(pc, next, after) \/ DecoderStart(pc, next, after)
    \/ DecoderRun(pc, next, after) \/ RenderStart(pc, next, after)

initRest == <<flagWindowReady, flagStreamStarted, packetQueue, codec, frameQueue, prevReadFrame,
              peerVars, fed, shown>>

InitByRecv == InitStep(recvPc, recvPc', "push") /\ UNCHANGED <<uiPc, initRest>>
InitByUi   == InitStep(uiPc, uiPc', "idle") /\ UNCHANGED <<recvPc, initRest>>
-----------------------------------------------------------------------------
(* The user interface thread: resizeEvent, and the end of the viewer.      *)

\* flagWindowReady.exchange(true), at the first resize.
Resize ==
    /\ uiPc = "idle"
    /\ ~flagWindowReady
    /\ flagWindowReady' = TRUE
    /\ uiPc' = "check"
    /\ UNCHANGED <<recvPc, dPc, rPc, flagStreamStarted, flagInitialized, flagRunRender, flagRun,
                   queueVars, peerVars, fed, shown, asserted>>

CheckStream ==
    /\ uiPc = "check"
    /\ uiPc' = IF flagStreamStarted THEN "claim" ELSE "idle"
    /\ UNCHANGED <<recvPc, dPc, rPc, flagVars, queueVars, peerVars, fed, shown, asserted>>

\* ~StreamWindow has joined the receive thread; ~StreamViewerD3D stops the render
\* loop if it was ever started.
Destroy ==
    /\ uiPc = "idle"
    /\ recvPc = "idle"
    /\ recvPc' = "joined"
    /\ uiPc' = IF flagInitialized THEN "stop" ELSE "closed"
    /\ flagRunRender' = FALSE
    /\ UNCHANGED <<dPc, rPc, flagWindowReady, flagStreamStarted, flagInitialized, flagRun,
                   queueVars, peerVars, fed, shown, asserted>>

\* DecoderFFmpeg::stop: the flag, then the notifications under both locks.
StopFlag ==
    /\ uiPc = "stop"
    /\ uiPc' = "notify"
    /\ asserted' = (asserted \/ ~flagRun)
    /\ flagRun' = FALSE
    /\ UNCHANGED <<recvPc, dPc, rPc, flagWindowReady, flagStreamStarted, flagInitialized,
                   flagRunRender, queueVars, peerVars, fed, shown>>

\* Faulty variant: only packetCV is notified.
StopNotifyPacket ==
    /\ uiPc = "notify"
    /\ uiPc' = "joinRender"
    /\ NotifyPacket
    /\ UNCHANGED <<recvPc, rPc, flagVars, queueVars, peerVars, fed, shown, asserted>>

StopNotify ==
    /\ uiPc = "notify"
    /\ uiPc' = "joinRender"
    /\ dPc' = CASE dPc = "packetWait" -> "packet" [] dPc = "roomWait" -> "room" [] OTHER -> dPc
    /\ rPc' = IF rPc = "frameWait" THEN "read" ELSE rPc
    /\ UNCHANGED <<recvPc, flagVars, queueVars, peerVars, fed, shown, asserted>>

JoinRender ==
    /\ uiPc = "joinRender"
    /\ rPc = "exited"
    /\ uiPc' = "joinDecoder"
    /\ UNCHANGED <<recvPc, dPc, rPc, flagVars, queueVars, peerVars, fed, shown, asserted>>

\* ~DecoderFFmpeg.
JoinDecoder ==
    /\ uiPc = "joinDecoder"
    /\ dPc = "exited"
    /\ uiPc' = "closed"
    /\ UNCHANGED <<recvPc, dPc, rPc, flagVars, queueVars, peerVars, fed, shown, asserted>>
-----------------------------------------------------------------------------
(* The decoder thread, run_.                                               *)

\* The loop's test, and avcodec_receive_frame.  A thread that leaves the loop
\* drops all frames, the one that was read last included.
DLoop ==
    /\ dPc = "loop"
    /\ \/ /\ flagRun
          /\ dPc' = IF codec # <<>> THEN "room" ELSE "packet"
          /\ UNCHANGED <<frameQueue, prevReadFrame>>
       \/ /\ ~flagRun
          /\ dPc' = "exited"
          /\ frameQueue' = <<>>
          /\ prevReadFrame' = FALSE
    /\ UNCHANGED <<recvPc, uiPc, rPc, flagVars, flagKeyInPacket, packetQueue, codec, peerVars,
                   fed, shown, asserted>>

\* Waits for room in frameQueue.
DWaitRoom ==
    /\ dPc = "room"
    /\ flagRun
    /\ Len(frameQueue) >= FrameCap
    /\ dPc' = "roomWait"
    /\ UNCHANGED <<recvPc, uiPc, rPc, flagVars, queueVars, peerVars, fed, shown, asserted>>

\* Faulty variant: the queue is not tested for room again after a wake-up.
DPushFrameNoTest ==
    /\ dPc = "room"
    /\ flagRun
    /\ frameQueue' = Append(frameQueue, Head(codec))
    /\ codec' = Tail(codec)
    /\ dPc' = "loop"
    /\ rPc' = IF rPc = "frameWait" THEN "read" ELSE rPc
    /\ UNCHANGED <<recvPc, uiPc, flagVars, flagKeyInPacket, packetQueue, prevReadFrame,
                   peerVars, fed, shown, asserted>>

\* Puts the frame into frameQueue; of the two threads that wait on frameCV only the
\* other one, the render thread, can be waiting for this notify_one.
DPushFrame ==
    /\ dPc = "room"
    /\ flagRun
    /\ Len(frameQueue) < FrameCap
    /\ frameQueue' = Append(frameQueue, Head(codec))
    /\ codec' = Tail(codec)
    /\ dPc' = "loop"
    /\ rPc' = IF rPc = "frameWait" THEN "read" ELSE rPc
    /\ UNCHANGED <<recvPc, uiPc, flagVars, flagKeyInPacket, packetQueue, prevReadFrame,
                   peerVars, fed, shown, asserted>>

DWaitPacket ==
    /\ dPc = "packet"
    /\ flagRun
    /\ packetQueue = <<>>
    /\ dPc' = "packetWait"
    /\ UNCHANGED <<recvPc, uiPc, rPc, flagVars, queueVars, peerVars, fed, shown, asserted>>

\* Takes a packet from the queue and sends it into the codec.
DPopPacket ==
    /\ dPc = "packet"
    /\ flagRun
    /\ packetQueue # <<>>
    /\ packetQueue' = Tail(packetQueue)
    /\ flagKeyInPacket' = (flagKeyInPacket /\ ~Head(packetQueue).idr)
    /\ codec' = Append(codec, Head(packetQueue))
    /\ fed' = Head(packetQueue).seq
    /\ dPc' = "loop"
    /\ UNCHANGED <<recvPc, uiPc, rPc, flagVars, frameQueue, prevReadFrame, peerVars, shown,
                   asserted>>

\* A thread that was told to stop goes back to the loop's test.
DStopped ==
    /\ dPc \in {"room", "packet"}
    /\ ~flagRun
    /\ dPc' = "loop"
    /\ UNCHANGED <<recvPc, uiPc, rPc, flagVars, queueVars, peerVars, fed, shown, asserted>>
-----------------------------------------------------------------------------
(* The render thread, renderLoop_ and readSoftware.                        *)

RLoop ==
    /\ rPc = "loop"
    /\ rPc' = IF flagRunRender THEN "read" ELSE "exited"
    /\ UNCHANGED <<recvPc, uiPc, dPc, flagVars, queueVars, peerVars, fed, shown, asserted>>

RWait ==
    /\ rPc = "read"
    /\ flagRun
    /\ frameQueue = <<>>
    /\ rPc' = "frameWait"
    /\ UNCHANGED <<recvPc, uiPc, dPc, flagVars, queueVars, peerVars, fed, shown, asserted>>

\* readSoftware returns false.
RStopped ==
    /\ rPc = "read"
    /\ ~flagRun
    /\ rPc' = "loop"
    /\ UNCHANGED <<recvPc, uiPc, dPc, flagVars, queueVars, peerVars, fed, shown, asserted>>

\* Faulty variant: readSoftware does not notify.
RReadSilent ==
    /\ rPc = "read"
    /\ flagRun
    /\ frameQueue # <<>>
    /\ frameQueue' = Tail(frameQueue)
    /\ prevReadFrame' = TRUE
    /\ shown' = IF Head(frameQueue).shape # 0 THEN Head(frameQueue).shape ELSE shown
    /\ rPc' = "using"
    /\ UNCHANGED dPc
    /\ UNCHANGED <<recvPc, uiPc, flagVars, flagKeyInPacket, packetQueue, codec, peerVars, fed,
                   asserted>>

\* readSoftware gives the first frame, a reference to prevReadFrame's data; here
\* the notify_one can only wake the decoder thread.
RRead ==
    /\ rPc = "read"
    /\ flagRun
    /\ frameQueue # <<>>
    /\ frameQueue' = Tail(frameQueue)
    /\ prevReadFrame' = TRUE
    /\ shown' = IF Head(frameQueue).shape # 0 THEN Head(frameQueue).shape ELSE shown
    /\ rPc' = "using"
    /\ dPc' = IF dPc = "roomWait" THEN "room" ELSE dPc
    /\ UNCHANGED <<recvPc, uiPc, flagVars, flagKeyInPacket, packetQueue, codec, peerVars, fed,
                   asserted>>

\* The frame has been scaled, uploaded and presented.
RRendered ==
    /\ rPc = "using"
    /\ rPc' = "loop"
    /\ UNCHANGED <<recvPc, uiPc, dPc, flagVars, queueVars, peerVars, fed, shown, asserted>>

\* A wait may return without a notification.
SpuriousWake ==
    /\ \/ dPc = "roomWait" /\ dPc' = "room" /\ UNCHANGED rPc
       \/ dPc = "packetWait" /\ dPc' = "packet" /\ UNCHANGED rPc
       \/ rPc = "frameWait" /\ rPc' = "read" /\ UNCHANGED dPc
    /\ UNCHANGED <<recvPc, uiPc, flagVars, queueVars, peerVars, fed, shown, asserted>>
-----------------------------------------------------------------------------
RecvThread == CursorShape \/ FrameArrives \/ CheckWindow \/ PushData \/ InitByRecv

UiThread ==
    \/ Resize \/ CheckStream \/ InitByUi \/ Destroy \/ StopFlag \/ StopNotify
    \/ JoinRender \/ JoinDecoder

DecoderThread == DLoop \/ DWaitRoom \/ DPushFrame \/ DWaitPacket \/ DPopPacket \/ DStopped

RenderThread == RLoop \/ RWait \/ RStopped \/ RRead \/ RRendered

Next == RecvThread \/ UiThread \/ DecoderThread \/ RenderThread \/ SpuriousWake

Spec == Init /\ [][Next]_vars

\* Threads that can run do; the host owes no frame, and the user no resize and no
\* closing of the window.
Fairness ==
    /\ WF_vars(CheckWindow \/ PushData \/ InitByRecv)
    /\ WF_vars(CheckStream \/ InitByUi \/ StopFlag \/ StopNotify \/ JoinRender \/ JoinDecoder)
    /\ WF_vars(DecoderThread)
    /\ WF_vars(RenderThread)

FairSpec == Spec /\ Fairness
-----------------------------------------------------------------------------
(* Properties.                                                             *)

DataOK ==
    /\ recvPc \in RecvPcs /\ uiPc \in UiPcs /\ dPc \in DPcs /\ rPc \in RPcs
    /\ packetQueue \in Seq(Frames) /\ codec \in Seq(Frames) /\ frameQueue \in Seq(Frames)
    /\ Len(frameQueue) <= FrameCap
    /\ pending \in 0..MaxShapes /\ shapes \in 0..MaxShapes /\ shown \in 0..MaxShapes
    /\ sent \in 0..MaxPackets /\ fed \in 0..MaxPackets

FlagsOK ==
    /\ flagWindowReady \in BOOLEAN /\ flagStreamStarted \in BOOLEAN
    /\ flagInitialized \in BOOLEAN /\ flagRunRender \in BOOLEAN /\ flagRun \in BOOLEAN
    /\ flagKeyInPacket \in BOOLEAN /\ prevReadFrame \in BOOLEAN /\ asserted \in BOOLEAN

\* Every variable has its type, and frameQueue never holds more than it can.
TypeOK == DataOK /\ FlagsOK

\* The receive thread has a frame that it has not pushed yet.
InHand == recvPc \in {"check", "push"} \cup Starting

\* A frame in hand was received, and a thread that wants room has a frame.
InStep ==
    /\ InHand => sent >= 1
    /\ dPc \in {"room", "roomWait"} => codec # <<>>

\* The packets in the queue can be decoded after the ones that went before: the
\* last is the last one received, each follows its predecessor, the first is an
\* IDR packet or follows the last one fed into the codec, and flagKeyInPacket is
\* set only while an IDR packet is in the queue.
QueueDecodable ==
    /\ \A i \in 1..Len(packetQueue) :
        packetQueue[i].seq = (IF InHand THEN sent - 1 ELSE sent) - (Len(packetQueue) - i)
    /\ packetQueue = <<>> => fed = IF InHand THEN sent - 1 ELSE sent
    /\ packetQueue # <<>> => packetQueue[1].idr \/ packetQueue[1].seq = fed + 1
    /\ flagKeyInPacket => \E i \in 1..Len(packetQueue) : packetQueue[i].idr

\* The codec is fed an IDR packet or the packet after the one before, although
\* pushData drops packets, and start() resets flagKeyInPacket behind its back.
FeedDecodable ==
    [][fed' # fed => fed' = fed + 1 \/ codec'[Len(codec')].idr]_vars

\* The newest shape of the cursor is never lost: while the decoder runs, what is
\* on its way, or else what is drawn, ends with the last shape received.
CursorNotLost ==
    uiPc \notin {"notify", "joinRender", "joinDecoder", "closed"} =>
        Newest(<<Frame(0, FALSE, shown)>> \o frameQueue \o codec \o packetQueue
                    \o <<Frame(sent, FALSE, pending)>>, shapes)

\* The decoder is started once, whoever finds the window and the stream ready:
\* the assertions of DecoderFFmpeg, "Not stopped before start!" and "Not started
\* before stopping!", hold, and no thread that runs is overwritten.
StartedOnce ==
    /\ ~asserted
    /\ ~(recvPc \in {"start", "run", "render"} /\ uiPc \in {"start", "run", "render"})

\* Why it is so: who starts the decoder has claimed flagInitialized, and nothing
\* runs before it.
StartInv ==
    LET midway  == {"start", "run", "render"}
        early   == {"start", "run"}
    IN  /\ StartedOnce
        /\ recvPc \in midway \/ uiPc \in midway => flagInitialized
        /\ ~flagInitialized => dPc = "off" /\ rPc = "off" /\ ~flagRun
        /\ recvPc \in early \/ uiPc \in early => dPc = "off" /\ rPc = "off" /\ ~flagRun
        /\ recvPc = "render" \/ uiPc = "render" => rPc = "off" /\ flagRun
        /\ flagInitialized /\ recvPc \notin midway /\ uiPc \notin midway
                /\ uiPc \notin {"notify", "joinRender", "joinDecoder", "closed"} => flagRun
        /\ uiPc \in {"stop", "notify", "joinRender", "joinDecoder", "closed"} => recvPc = "joined"
        /\ uiPc \in {"stop", "notify", "joinRender", "joinDecoder"} => flagInitialized

\* A thread sleeps only for a reason: while the decoder runs, nobody waits for
\* room in a queue that has room, or for what is there.
NoLostWakeup ==
    flagRun => /\ dPc = "roomWait" => Len(frameQueue) >= FrameCap
               /\ dPc = "packetWait" => packetQueue = <<>>
               /\ rPc = "frameWait" => frameQueue = <<>>

\* "Keep a reference so that it does not get freed" (DecoderFFmpeg.cpp:52): the
\* frame that the render thread uses is kept alive.
FrameKept == rPc = "using" => prevReadFrame

\* When the window and the stream are both ready, the viewer starts.
ViewerStarts == (flagWindowReady /\ flagStreamStarted) ~> (rPc # "off")

\* What is in the queues is rendered, unless the viewer is destroyed.
QueuesDrain ==
    (flagInitialized /\ packetQueue # <<>>)
        ~> \/ packetQueue = <<>> /\ codec = <<>> /\ frameQueue = <<>>
           \/ recvPc = "joined"

\* The destructor ends: both joins return.
ViewerCloses == (uiPc = "stop") ~> (uiPc = "closed")
=============================================================================
