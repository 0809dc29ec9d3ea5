---------------------------- MODULE ViewerProofs ----------------------------
(***************************************************************************)
(* Proofs about module Viewer, for every number of packets and of cursor   *)
(* shapes and every capacity of frameQueue.                                *)
(***************************************************************************)
EXTENDS Viewer, TLAPS

\* What a frame consists of.
LEMMA FrameParts ==
    /\ \A f \in Frames : f.seq \in 1..MaxPackets /\ f.shape \in 0..MaxShapes
    /\ \A n \in 1..MaxPackets, key \in BOOLEAN, shape \in 0..MaxShapes :
            /\ Frame(n, key, shape) \in Frames
            /\ Frame(n, key, shape).seq = n
            /\ Frame(n, key, shape).idr = key
BY DEF Frames, Frame

\* The queues keep their type when a frame is taken from one, or added to one.
LEMMA QueueOps ==
    ASSUME NEW q \in Seq(Frames)
    PROVE  /\ <<>> \in Seq(Frames)
           /\ \A f \in Frames : Append(q, f) \in Seq(Frames) /\ Append(q, f) # <<>>
           /\ q # <<>> => /\ Head(q) \in Frames /\ Tail(q) \in Seq(Frames)
                          /\ Len(Tail(q)) = Len(q) - 1
           /\ \A f \in Frames : Len(Append(q, f)) = Len(q) + 1
<1>1. <<>> \in Seq(Frames)
  OBVIOUS
<1>2. \A f \in Frames : Append(q, f) \in Seq(Frames) /\ Len(Append(q, f)) = Len(q) + 1
  OBVIOUS
<1>3. \A f \in Frames : Append(q, f) # <<>>
  <2>1. Len(q) \in Nat /\ Len(q) + 1 # 0
    OBVIOUS
  <2>2. Len(<<>>) = 0
    OBVIOUS
  <2> QED
    BY <1>2, <2>1, <2>2
<1>4. q # <<>> => Head(q) \in Frames /\ Tail(q) \in Seq(Frames) /\ Len(Tail(q)) = Len(q) - 1
  OBVIOUS
<1> QED
  BY <1>1, <1>2, <1>3, <1>4

\* The variables that are not Boolean keep their types, and the threads stay in step.
LEMMA DataStep == DataOK /\ InStep /\ [Next]_vars => DataOK' /\ InStep'
<1> SUFFICES ASSUME DataOK, InStep, [Next]_vars PROVE DataOK' /\ InStep'
  OBVIOUS
<1> USE BoundsAssumption, FrameCapAssumption
    DEF DataOK, InStep, InHand, RecvPcs, UiPcs, DPcs, RPcs, Starting,
        threadVars, flagVars, queueVars, peerVars
<1>1. CASE UNCHANGED vars
  BY <1>1 DEF vars
<1>2. CASE CursorShape \/ FrameArrives \/ CheckWindow
  <2>1. CASE CursorShape
    BY <2>1 DEF CursorShape
  <2>2. CASE FrameArrives
    BY <2>2 DEF FrameArrives
  <2>3. CASE CheckWindow
    BY <2>3 DEF CheckWindow
  <2> QED
    BY <1>2, <2>1, <2>2, <2>3
<1>3. CASE PushData
  <2>1. PICK key \in BOOLEAN, shape \in 0..MaxShapes, q \in {<<>>, packetQueue} :
            packetQueue' = Append(q, Frame(sent, key, shape))
    BY <1>3 DEF PushData
  <2>2. packetQueue' \in Seq(Frames)
    BY <1>3, <2>1, FrameParts, QueueOps DEF PushData
  <2> QED
    BY <1>3, <2>2 DEF PushData, NotifyPacket
<1>4. CASE InitByRecv
  BY <1>4 DEF InitByRecv, InitStep, InitClaim, DecoderStart, DecoderRun, RenderStart, initRest
<1>5. CASE InitByUi
  BY <1>5 DEF InitByUi, InitStep, InitClaim, DecoderStart, DecoderRun, RenderStart, initRest
<1>6. CASE Resize \/ CheckStream \/ Destroy
  <2>1. CASE Resize
    BY <2>1 DEF Resize
  <2>2. CASE CheckStream
    BY <2>2 DEF CheckStream
  <2>3. CASE Destroy
    BY <2>3 DEF Destroy
  <2> QED
    BY <1>6, <2>1, <2>2, <2>3
<1>7. CASE StopFlag \/ StopNotify \/ JoinRender \/ JoinDecoder
  <2>1. CASE StopNotify
    <3>1. dPc' \in DPcs /\ (dPc' \in {"room", "roomWait"} => dPc \in {"room", "roomWait"})
      BY <2>1 DEF StopNotify
    <3> QED
      BY <2>1, <3>1 DEF StopNotify
  <2>2. CASE StopFlag
    BY <2>2 DEF StopFlag
  <2>3. CASE JoinRender
    BY <2>3 DEF JoinRender
  <2>4. CASE JoinDecoder
    BY <2>4 DEF JoinDecoder
  <2> QED
    BY <1>7, <2>1, <2>2, <2>3, <2>4
<1>8. CASE DLoop \/ DWaitRoom \/ DWaitPacket \/ DStopped
  <2>1. CASE DLoop /\ ~flagRun
    <3>1. frameQueue' = <<>>
      BY <2>1 DEF DLoop
    <3>2. frameQueue' \in Seq(Frames) /\ Len(frameQueue') = 0
      BY <3>1
    <3> QED
      BY <2>1, <3>2 DEF DLoop
  <2>2. CASE DLoop /\ flagRun
    BY <2>2 DEF DLoop
  <2>3. CASE DWaitRoom
    BY <2>3 DEF DWaitRoom
  <2>4. CASE DWaitPacket
    BY <2>4 DEF DWaitPacket
  <2>5. CASE DStopped
    BY <2>5 DEF DStopped
  <2> QED
    BY <1>8, <2>1, <2>2, <2>3, <2>4, <2>5
<1>9. CASE DPushFrame
  <2>1. frameQueue' \in Seq(Frames) /\ codec' \in Seq(Frames) /\ Len(frameQueue') <= FrameCap
    BY <1>9, QueueOps DEF DPushFrame
  <2> QED
    BY <1>9, <2>1 DEF DPushFrame
<1>10. CASE DPopPacket
  <2>1. /\ packetQueue' \in Seq(Frames) /\ codec' \in Seq(Frames) /\ fed' \in 0..MaxPackets
    BY <1>10, QueueOps, FrameParts DEF DPopPacket
  <2> QED
    BY <1>10, <2>1 DEF DPopPacket
<1>11. CASE RLoop \/ RWait \/ RStopped \/ RRendered \/ SpuriousWake
  <2>1. CASE RLoop
    BY <2>1 DEF RLoop
  <2>2. CASE RWait
    BY <2>2 DEF RWait
  <2>3. CASE RStopped
    BY <2>3 DEF RStopped
  <2>4. CASE RRendered
    BY <2>4 DEF RRendered
  <2>5. CASE SpuriousWake
    BY <2>5 DEF SpuriousWake
  <2> QED
    BY <1>11, <2>1, <2>2, <2>3, <2>4, <2>5
<1>12. CASE RRead
  <2>1. /\ frameQueue' \in Seq(Frames) /\ shown' \in 0..MaxShapes /\ Len(frameQueue') <= FrameCap
    BY <1>12, QueueOps, FrameParts DEF RRead
  <2> QED
    BY <1>12, <2>1 DEF RRead
<1> QED
  BY <1>1, <1>2, <1>3, <1>4, <1>5, <1>6, <1>7, <1>8, <1>9, <1>10, <1>11, <1>12
     DEF Next, RecvThread, UiThread, DecoderThread, RenderThread

\* Flags are Boolean throughout.
LEMMA FlagsStep == FlagsOK /\ [Next]_vars => FlagsOK'
<1> SUFFICES ASSUME FlagsOK, [Next]_vars PROVE FlagsOK'
  OBVIOUS
<1> USE DEF FlagsOK, threadVars, flagVars, queueVars, peerVars
<1>1. CASE UNCHANGED vars
  BY <1>1 DEF vars
<1>2. CASE RecvThread
  <2>1. CASE InitByRecv
    <3>1. CASE InitClaim(recvPc, recvPc', "push") \/ DecoderStart(recvPc, recvPc', "push")
      BY <2>1, <3>1, Zenon DEF InitByRecv, InitClaim, DecoderStart, initRest
    <3>2. CASE DecoderRun(recvPc, recvPc', "push") \/ RenderStart(recvPc, recvPc', "push")
      BY <2>1, <3>2, Zenon DEF InitByRecv, DecoderRun, RenderStart, initRest
    <3> QED
      BY <2>1, <3>1, <3>2, Zenon DEF InitByRecv, InitStep
  <2>2. CASE CursorShape \/ FrameArrives \/ CheckWindow
    BY <2>2, Zenon DEF CursorShape, FrameArrives, CheckWindow
  <2>3. CASE PushData
    BY <2>3, Zenon DEF PushData
  <2> QED
    BY <1>2, <2>1, <2>2, <2>3, Zenon DEF RecvThread
<1>3. CASE UiThread
  <2>1. CASE InitByUi
    <3>1. CASE InitClaim(uiPc, uiPc', "idle") \/ DecoderStart(uiPc, uiPc', "idle")
      BY <2>1, <3>1, Zenon DEF InitByUi, InitClaim, DecoderStart, initRest
    <3>2. CASE DecoderRun(uiPc, uiPc', "idle") \/ RenderStart(uiPc, uiPc', "idle")
      BY <2>1, <3>2, Zenon DEF InitByUi, DecoderRun, RenderStart, initRest
    <3> QED
      BY <2>1, <3>1, <3>2, Zenon DEF InitByUi, InitStep
  <2>2. CASE Resize \/ CheckStream \/ Destroy
    BY <2>2, Zenon DEF Resize, CheckStream, Destroy
  <2>3. CASE StopFlag \/ StopNotify \/ JoinRender \/ JoinDecoder
    BY <2>3, Zenon DEF StopFlag, StopNotify, JoinRender, JoinDecoder
  <2> QED
    BY <1>3, <2>1, <2>2, <2>3, Zenon DEF UiThread
<1>4. CASE DecoderThread
  <2>1. CASE DLoop
    BY <2>1, Zenon DEF DLoop
  <2>2. CASE DPopPacket
    BY <2>2, Zenon DEF DPopPacket
  <2>3. CASE DWaitRoom \/ DPushFrame
    BY <2>3, Zenon DEF DWaitRoom, DPushFrame
  <2>4. CASE DWaitPacket \/ DStopped
    BY <2>4, Zenon DEF DWaitPacket, DStopped
  <2> QED
    BY <1>4, <2>1, <2>2, <2>3, <2>4, Zenon DEF DecoderThread
<1>5. CASE RenderThread \/ SpuriousWake
  <2>1. CASE RLoop \/ RWait \/ RStopped
    BY <2>1, Zenon DEF RLoop, RWait, RStopped
  <2>2. CASE RRead
    BY <2>2, Zenon DEF RRead
  <2>3. CASE RRendered \/ SpuriousWake
    BY <2>3, Zenon DEF RRendered, SpuriousWake
  <2> QED
    BY <1>5, <2>1, <2>2, <2>3, Zenon DEF RenderThread
<1> QED
  BY <1>1, <1>2, <1>3, <1>4, <1>5 DEF Next

\* Every variable has its type, and frameQueue keeps to its capacity.
THEOREM TypeCorrect == Spec => []TypeOK
<1>1. Init => DataOK /\ InStep
  BY BoundsAssumption, FrameCapAssumption
     DEF Init, DataOK, InStep, InHand, RecvPcs, UiPcs, DPcs, RPcs, Starting
<1>2. Init => FlagsOK
  BY Zenon DEF Init, FlagsOK
<1> QED
  BY <1>1, <1>2, DataStep, FlagsStep, PTL DEF Spec, TypeOK

\* The decoder is started by one thread, once.
LEMMA StartStep == DataOK /\ StartInv /\ [Next]_vars => StartInv'
<1> SUFFICES ASSUME DataOK, StartInv, [Next]_vars PROVE StartInv'
  OBVIOUS
<1> USE DEF StartInv, StartedOnce, DataOK, threadVars, flagVars, queueVars, peerVars,
            RecvPcs, UiPcs, Starting
<1>1. CASE UNCHANGED vars
  BY <1>1 DEF vars
<1>2. CASE CursorShape \/ FrameArrives \/ CheckWindow
  <2>1. CASE CursorShape
    BY <2>1 DEF CursorShape
  <2>2. CASE FrameArrives
    BY <2>2 DEF FrameArrives
  <2>3. CASE CheckWindow
    BY <2>3 DEF CheckWindow
  <2> QED
    BY <1>2, <2>1, <2>2, <2>3
<1>3. CASE PushData
  BY <1>3 DEF PushData, NotifyPacket
<1>4. CASE InitByRecv
  <2> USE DEF InitByRecv, initRest
  <2>1. CASE InitClaim(recvPc, recvPc', "push")
    BY <1>4, <2>1 DEF InitClaim
  <2>2. CASE DecoderStart(recvPc, recvPc', "push")
    <3>1. ~flagRun /\ ~asserted
      BY <2>2 DEF DecoderStart
    <3>2. ~asserted'
      BY <2>2, <3>1, Zenon DEF DecoderStart
    <3> QED
      BY <1>4, <2>2, <3>2 DEF DecoderStart
  <2>3. CASE DecoderRun(recvPc, recvPc', "push")
    <3>1. dPc = "off" /\ ~asserted
      BY <2>3 DEF DecoderRun
    <3>2. ~asserted'
      BY <2>3, <3>1, Zenon DEF DecoderRun
    <3> QED
      BY <1>4, <2>3, <3>2 DEF DecoderRun
  <2>4. CASE RenderStart(recvPc, recvPc', "push")
    BY <1>4, <2>4 DEF RenderStart
  <2> QED
    BY <1>4, <2>1, <2>2, <2>3, <2>4 DEF InitStep
<1>5. CASE InitByUi
  <2> USE DEF InitByUi, initRest
  <2>1. CASE InitClaim(uiPc, uiPc', "idle")
    BY <1>5, <2>1 DEF InitClaim
  <2>2. CASE DecoderStart(uiPc, uiPc', "idle")
    <3>1. ~flagRun /\ ~asserted
      BY <2>2 DEF DecoderStart
    <3>2. ~asserted'
      BY <2>2, <3>1, Zenon DEF DecoderStart
    <3> QED
      BY <1>5, <2>2, <3>2 DEF DecoderStart
  <2>3. CASE DecoderRun(uiPc, uiPc', "idle")
    <3>1. dPc = "off" /\ ~asserted
      BY <2>3 DEF DecoderRun
    <3>2. ~asserted'
      BY <2>3, <3>1, Zenon DEF DecoderRun
    <3> QED
      BY <1>5, <2>3, <3>2 DEF DecoderRun
  <2>4. CASE RenderStart(uiPc, uiPc', "idle")
    BY <1>5, <2>4 DEF RenderStart
  <2> QED
    BY <1>5, <2>1, <2>2, <2>3, <2>4 DEF InitStep
<1>6. CASE Resize \/ CheckStream \/ Destroy
  BY <1>6 DEF Resize, CheckStream, Destroy
<1>7. CASE StopFlag
  <2>1. flagRun /\ ~asserted
    BY <1>7 DEF StopFlag
  <2>2. ~asserted'
    BY <1>7, <2>1, Zenon DEF StopFlag
  <2> QED
    BY <1>7, <2>2 DEF StopFlag
<1>10. CASE StopNotify \/ JoinRender \/ JoinDecoder
  BY <1>10 DEF StopNotify, JoinRender, JoinDecoder
<1>8. CASE DecoderThread
  BY <1>8 DEF DecoderThread, DLoop, DWaitRoom, DPushFrame, DWaitPacket, DPopPacket, DStopped
<1>9. CASE RenderThread \/ SpuriousWake
  BY <1>9 DEF RenderThread, RLoop, RWait, RStopped, RRead, RRendered, SpuriousWake
<1> QED
  BY <1>1, <1>2, <1>3, <1>4, <1>5, <1>6, <1>7, <1>8, <1>9, <1>10
     DEF Next, RecvThread, UiThread

\* Whichever of the two threads finds the window and the stream ready, the
\* decoder is started once and stopped at most once.
THEOREM StartCorrect == Spec => []StartedOnce
<1>1. Init => DataOK /\ InStep
  BY BoundsAssumption, FrameCapAssumption
     DEF Init, DataOK, InStep, InHand, RecvPcs, UiPcs, DPcs, RPcs, Starting
<1>2. Init => StartInv
  BY DEF Init, StartInv, StartedOnce
<1>3. StartInv => StartedOnce
  BY DEF StartInv
<1> QED
  BY <1>1, <1>2, <1>3, DataStep, StartStep, PTL DEF Spec

\* No notification is lost while the decoder runs.
LEMMA WakeupStep == DataOK /\ StartInv /\ NoLostWakeup /\ [Next]_vars => NoLostWakeup'
<1> SUFFICES ASSUME DataOK, StartInv, NoLostWakeup, [Next]_vars PROVE NoLostWakeup'
  OBVIOUS
<1> USE DEF NoLostWakeup, threadVars, flagVars, queueVars, peerVars
<1>1. CASE UNCHANGED vars
  BY <1>1 DEF vars
<1>2. CASE CursorShape \/ FrameArrives \/ CheckWindow
  <2>1. CASE CursorShape
    BY <2>1 DEF CursorShape
  <2>2. CASE FrameArrives
    BY <2>2 DEF FrameArrives
  <2>3. CASE CheckWindow
    BY <2>3 DEF CheckWindow
  <2> QED
    BY <1>2, <2>1, <2>2, <2>3
<1>3. CASE PushData
  <2>1. dPc' # "packetWait" /\ (dPc' = "roomWait" => dPc = "roomWait")
    BY <1>3 DEF PushData, NotifyPacket
  <2> QED
    BY <1>3, <2>1 DEF PushData
<1>4. CASE InitByRecv
  BY <1>4 DEF InitByRecv, InitStep, InitClaim, DecoderStart, DecoderRun, RenderStart, initRest,
              StartInv
<1>5. CASE InitByUi
  BY <1>5 DEF InitByUi, InitStep, InitClaim, DecoderStart, DecoderRun, RenderStart, initRest,
              StartInv
<1>6. CASE Resize \/ CheckStream \/ Destroy
  BY <1>6 DEF Resize, CheckStream, Destroy
<1>7. CASE StopFlag
  BY <1>7 DEF StopFlag
<1>8. CASE StopNotify \/ JoinRender \/ JoinDecoder
  BY <1>8 DEF StopNotify, JoinRender, JoinDecoder
<1>9. CASE DLoop \/ DWaitRoom \/ DWaitPacket \/ DStopped
  BY <1>9 DEF DLoop, DWaitRoom, DWaitPacket, DStopped
<1>10. CASE DPushFrame
  BY <1>10 DEF DPushFrame
<1>11. CASE DPopPacket
  BY <1>11 DEF DPopPacket
<1>12. CASE RLoop \/ RWait \/ RStopped \/ RRendered
  BY <1>12 DEF RLoop, RWait, RStopped, RRendered
<1>13. CASE RRead
  <2>1. dPc' # "roomWait" /\ rPc' # "frameWait" /\ (dPc' = "packetWait" => dPc = "packetWait")
    BY <1>13 DEF RRead
  <2> QED
    BY <1>13, <2>1 DEF RRead
<1>14. CASE SpuriousWake
  BY <1>14 DEF SpuriousWake
<1> QED
  BY <1>1, <1>2, <1>3, <1>4, <1>5, <1>6, <1>7, <1>8, <1>9, <1>10, <1>11, <1>12, <1>13, <1>14
     DEF Next, RecvThread, UiThread, DecoderThread, RenderThread

\* Nobody sleeps for something that is there, although the decoder thread and the
\* render thread share one condition variable and wake each other with notify_one.
THEOREM WakeupCorrect == Spec => []NoLostWakeup
<1>1. Init => DataOK /\ InStep
  BY BoundsAssumption, FrameCapAssumption
     DEF Init, DataOK, InStep, InHand, RecvPcs, UiPcs, DPcs, RPcs, Starting
<1>2. Init => StartInv /\ NoLostWakeup
  BY DEF Init, StartInv, StartedOnce, NoLostWakeup
<1> QED
  BY <1>1, <1>2, DataStep, StartStep, WakeupStep, PTL DEF Spec
-----------------------------------------------------------------------------
\* A step that leaves the packets, the flag and the receive thread's hand alone
\* leaves QueueDecodable alone.
LEMMA QueueUntouched ==
    ASSUME QueueDecodable, UNCHANGED <<packetQueue, sent, fed>>, InHand' <=> InHand,
           flagKeyInPacket' => flagKeyInPacket
    PROVE  QueueDecodable'
BY DEF QueueDecodable

\* What is in packetQueue can be decoded, whatever pushData drops.
LEMMA DecodableStep == DataOK /\ InStep /\ QueueDecodable /\ [Next]_vars => QueueDecodable'
<1> SUFFICES ASSUME DataOK, InStep, QueueDecodable, [Next]_vars PROVE QueueDecodable'
  OBVIOUS
<1> USE DEF threadVars, flagVars, queueVars, peerVars
<1>1. CASE UNCHANGED vars
  BY <1>1, QueueUntouched DEF vars, InHand
<1>2. CASE CursorShape \/ CheckWindow
  BY <1>2, QueueUntouched DEF CursorShape, CheckWindow, InHand, Starting
<1>3. CASE FrameArrives
  <2>1. ~InHand /\ InHand' /\ sent' - 1 = sent
    BY <1>3 DEF FrameArrives, InHand, Starting, DataOK
  <2> QED
    BY <1>3, <2>1 DEF FrameArrives, QueueDecodable
<1>4. CASE InitByRecv
  BY <1>4, QueueUntouched
     DEF InitByRecv, InitStep, InitClaim, DecoderStart, DecoderRun, RenderStart, initRest,
         InHand, Starting
<1>5. CASE InitByUi
  BY <1>5, QueueUntouched
     DEF InitByUi, InitStep, InitClaim, DecoderStart, DecoderRun, RenderStart, initRest, InHand
<1>6. CASE Resize \/ CheckStream \/ Destroy
  BY <1>6, QueueUntouched DEF Resize, CheckStream, Destroy, InHand, Starting
<1>7. CASE StopFlag \/ StopNotify \/ JoinRender \/ JoinDecoder
  BY <1>7, QueueUntouched DEF StopFlag, StopNotify, JoinRender, JoinDecoder, InHand
<1>8. CASE DLoop \/ DWaitRoom \/ DWaitPacket \/ DStopped \/ DPushFrame
  BY <1>8, QueueUntouched DEF DLoop, DWaitRoom, DWaitPacket, DStopped, DPushFrame, InHand
<1>9. CASE RenderThread \/ SpuriousWake
  BY <1>9, QueueUntouched
     DEF RenderThread, RLoop, RWait, RStopped, RRead, RRendered, SpuriousWake, InHand
<1>10. CASE PushData
  <2>1. PICK key \in BOOLEAN, shape \in 0..MaxShapes :
          /\ sent = 1 => key
          /\ packetQueue' = Append(IF key /\ flagKeyInPacket THEN <<>> ELSE packetQueue,
                                   Frame(sent, key, shape))
          /\ flagKeyInPacket' = (flagKeyInPacket \/ key)
    BY <1>10 DEF PushData
  <2> DEFINE f == Frame(sent, key, shape)
  <2>2. f \in Frames /\ f.seq = sent /\ (f.idr <=> key) /\ sent \in Nat
    BY <1>10, <2>1, FrameParts, BoundsAssumption DEF PushData, DataOK, InStep, InHand
  <2>3. InHand /\ ~InHand' /\ UNCHANGED <<sent, fed>>
    BY <1>10 DEF PushData, InHand, Starting
  <2> HIDE DEF f
  <2>4. CASE key /\ flagKeyInPacket
    <3>1. packetQueue' = <<f>>
      <4>1. packetQueue' = Append(<<>>, f)
        BY <2>1, <2>4 DEF f
      <4>2. Append(<<>>, f) = <<f>>
        OBVIOUS
      <4> QED
        BY <4>1, <4>2
    <3>2. Len(packetQueue') = 1 /\ packetQueue'[1] = f /\ packetQueue' # <<>>
      <4>1. Len(<<f>>) = 1 /\ <<f>>[1] = f
        OBVIOUS
      <4>2. <<f>> # <<>>
        OBVIOUS
      <4> QED
        BY <3>1, <4>1, <4>2
    <3>3. 1..Len(packetQueue') = {1}
      BY <3>2
    <3> QED
      BY <2>2, <2>3, <2>4, <3>2, <3>3 DEF QueueDecodable
  <2>5. CASE ~(key /\ flagKeyInPacket)
    <3> DEFINE n == Len(packetQueue)
    <3>1. packetQueue' = Append(packetQueue, f)
      BY <2>1, <2>5 DEF f
    <3>2. /\ n \in Nat /\ Len(packetQueue') = n + 1
          /\ \A i \in 1..n : packetQueue'[i] = packetQueue[i]
          /\ packetQueue'[n + 1] = f
      BY <2>2, <3>1 DEF DataOK
    <3>3. \A i \in 1..(n + 1) : packetQueue'[i].seq = sent - (n + 1 - i)
      <4> SUFFICES ASSUME NEW i \in 1..(n + 1) PROVE packetQueue'[i].seq = sent - (n + 1 - i)
        OBVIOUS
      <4>1. CASE i = n + 1
        BY <2>2, <3>2, <4>1
      <4>2. CASE i \in 1..n
        <5>1. packetQueue[i].seq = (sent - 1) - (n - i)
          BY <2>3, <4>2 DEF QueueDecodable
        <5> QED
          BY <2>2, <3>2, <4>2, <5>1
      <4> QED
        BY <3>2, <4>1, <4>2
    <3>4. packetQueue' # <<>>
      BY <2>2, <3>1, QueueOps DEF DataOK
    <3>5. packetQueue'[1].idr \/ packetQueue'[1].seq = fed + 1
      <4>1. CASE packetQueue = <<>>
        BY <2>2, <2>3, <3>2, <4>1 DEF QueueDecodable
      <4>2. CASE packetQueue # <<>>
        BY <3>2, <4>2 DEF QueueDecodable, DataOK
      <4> QED
        BY <4>1, <4>2
    <3>6. flagKeyInPacket' => \E i \in 1..(n + 1) : packetQueue'[i].idr
      <4>1. CASE key
        BY <2>2, <3>2, <4>1
      <4>2. CASE ~key
        BY <2>1, <3>2, <4>2 DEF QueueDecodable
      <4> QED
        BY <4>1, <4>2
    <3> QED
      BY <2>3, <3>2, <3>3, <3>4, <3>5, <3>6 DEF QueueDecodable
  <2> QED
    BY <2>4, <2>5
<1>11. CASE DPopPacket
  <2> DEFINE n == Len(packetQueue)
             last == IF InHand THEN sent - 1 ELSE sent
  <2>1. /\ packetQueue # <<>> /\ packetQueue' = Tail(packetQueue)
        /\ fed' = packetQueue[1].seq /\ UNCHANGED sent /\ (InHand' <=> InHand)
        /\ flagKeyInPacket' = (flagKeyInPacket /\ ~packetQueue[1].idr)
    BY <1>11 DEF DPopPacket, InHand, DataOK
  <2>2. /\ n \in Nat \ {0} /\ Len(packetQueue') = n - 1
        /\ \A i \in 1..(n - 1) : packetQueue'[i] = packetQueue[i + 1]
    BY <2>1 DEF DataOK
  <2>3. \A i \in 1..n : packetQueue[i].seq = last - (n - i)
    BY DEF QueueDecodable
  <2>4. last \in Int
    BY DEF DataOK
  <2> HIDE DEF last
  <2>5. \A i \in 1..(n - 1) : packetQueue'[i].seq = last - (n - 1 - i)
    <3> SUFFICES ASSUME NEW i \in 1..(n - 1) PROVE packetQueue'[i].seq = last - (n - 1 - i)
      OBVIOUS
    <3>1. i + 1 \in 1..n /\ n - 1 - i = n - (i + 1)
      BY <2>2
    <3> QED
      BY <2>2, <2>3, <3>1
  <2>6. fed' = last - (n - 1)
    BY <2>1, <2>2, <2>3
  <2>7. packetQueue' = <<>> => fed' = last
    <3> SUFFICES ASSUME packetQueue' = <<>> PROVE fed' = last
      OBVIOUS
    <3>1. Len(packetQueue') = 0
      OBVIOUS
    <3>2. n - 1 = 0
      BY <2>2, <3>1
    <3>3. fed' = last - 0
      BY <2>6, <3>2, Zenon
    <3>4. last - 0 = last
      BY <2>4
    <3> QED
      BY <3>3, <3>4, Zenon
  <2>8. packetQueue' # <<>> => packetQueue'[1].seq = fed' + 1
    <3> SUFFICES ASSUME packetQueue' # <<>> PROVE packetQueue'[1].seq = fed' + 1
      OBVIOUS
    <3>1. packetQueue' \in Seq(Frames) /\ Len(packetQueue') # 0
      BY <2>1 DEF DataOK
    <3>2. n - 1 >= 1
      BY <2>2, <3>1
    <3> QED
      BY <2>2, <2>4, <2>5, <2>6, <3>2
  <2>9. flagKeyInPacket' => \E i \in 1..(n - 1) : packetQueue'[i].idr
    <3> SUFFICES ASSUME flagKeyInPacket, ~packetQueue[1].idr
                 PROVE  \E i \in 1..(n - 1) : packetQueue'[i].idr
      BY <2>1
    <3>1. PICK i \in 1..n : packetQueue[i].idr
      BY DEF QueueDecodable
    <3>2. i - 1 \in 1..(n - 1) /\ packetQueue'[i - 1].idr
      BY <2>2, <3>1
    <3> QED
      BY <3>2
  <2> QED
    BY <2>1, <2>2, <2>5, <2>7, <2>8, <2>9 DEF QueueDecodable, last
<1> QED
  BY <1>1, <1>2, <1>3, <1>4, <1>5, <1>6, <1>7, <1>8, <1>9, <1>10, <1>11
     DEF Next, RecvThread, UiThread, DecoderThread

\* pushData may drop what is in the queue only for an IDR packet: what is left can
\* always be decoded after what the codec has been fed.
THEOREM DecodableCorrect == Spec => []QueueDecodable
<1>1. Init => DataOK /\ InStep
  BY BoundsAssumption, FrameCapAssumption
     DEF Init, DataOK, InStep, InHand, RecvPcs, UiPcs, DPcs, RPcs, Starting
<1>2. Init => QueueDecodable
  BY DEF Init, QueueDecodable, InHand, Starting
<1> QED
  BY <1>1, <1>2, DataStep, DecodableStep, PTL DEF Spec

\* The codec is only ever fed an IDR packet or the successor of the last packet.
THEOREM FeedCorrect == Spec => FeedDecodable
<1>1. Init => DataOK /\ InStep /\ QueueDecodable
  BY BoundsAssumption, FrameCapAssumption
     DEF Init, DataOK, InStep, InHand, RecvPcs, UiPcs, DPcs, RPcs, Starting, QueueDecodable
<1>2. DataOK /\ QueueDecodable /\ [Next]_vars
        => [fed' # fed => fed' = fed + 1 \/ codec'[Len(codec')].idr]_vars
  <2> SUFFICES ASSUME DataOK, QueueDecodable, Next, fed' # fed
               PROVE  fed' = fed + 1 \/ codec'[Len(codec')].idr
    BY DEF vars
  <2>1. DPopPacket
    BY DEF Next, RecvThread, UiThread, DecoderThread, RenderThread, CursorShape, FrameArrives,
           CheckWindow, PushData, InitByRecv, InitByUi, initRest, Resize, CheckStream, Destroy,
           StopFlag, StopNotify, JoinRender, JoinDecoder, DLoop, DWaitRoom, DPushFrame,
           DWaitPacket, DStopped, RLoop, RWait, RStopped, RRead, RRendered, SpuriousWake
  <2>2. packetQueue # <<>> /\ fed' = packetQueue[1].seq
    BY <2>1 DEF DPopPacket, DataOK
  <2>3. codec'[Len(codec')] = packetQueue[1]
    BY <2>1, <2>2 DEF DPopPacket, DataOK
  <2> QED
    BY <2>2, <2>3 DEF QueueDecodable
<1> QED
  BY <1>1, <1>2, DataStep, DecodableStep, PTL DEF Spec, FeedDecodable
-----------------------------------------------------------------------------
(* The cursor: the newest shape on its way, queue by queue, from the one    *)
(* that arrived last to the one that is drawn.                             *)

\* The newest shape of q, or if it has none, what `rest' says.
Over(q, s, rest) == (s # 0 /\ Newest(q, s)) \/ (Newest(q, 0) /\ rest)

CursorInv ==
    uiPc \notin {"notify", "joinRender", "joinDecoder", "closed"} =>
        \/ shapes # 0 /\ pending = shapes
        \/ /\ pending = 0
           /\ Over(packetQueue, shapes, Over(codec, shapes, Over(frameQueue, shapes, shown = shapes)))

\* Frames with a shape; the seq of one that stands for what is drawn is 0.
Shaped == [seq : Nat, idr : BOOLEAN, shape : Nat]

\* Two queues in a row: the second one has the newer shapes.
LEMMA NewestCat ==
  ASSUME NEW p \in Seq(Shaped), NEW q \in Seq(Shaped), NEW s \in Nat, Over(q, s, Newest(p, s)),
         NEW h, h = p \o q
  PROVE  Newest(h, s) /\ h \in Seq(Shaped)
<1>1. PICK n \in Nat, k \in Nat : n = Len(p) /\ k = Len(q)
  OBVIOUS
<1>2. /\ h \in Seq(Shaped) /\ Len(h) = n + k
      /\ \A i \in 1..n : h[i] = p[i]
      /\ \A i \in 1..k : h[n + i] = q[i]
  BY <1>1
<1>3. \A i \in 1..(n + k) : i \in 1..n \/ \E j \in 1..k : i = n + j
  <2> TAKE i \in 1..(n + k)
  <2>1. i \in 1..n \/ (i - n \in 1..k /\ i = n + (i - n))
    OBVIOUS
  <2> QED
    BY <2>1
<1>4. CASE s # 0 /\ Newest(q, s)
  <2>1. PICK i \in 1..k : q[i].shape = s /\ \A j \in i+1..k : q[j].shape = 0
    BY <1>1, <1>4 DEF Newest
  <2>2. n + i \in 1..(n + k) /\ h[n + i].shape = s
    <3>1. h[n + i] = q[i]
      BY <1>2
    <3>2. h[n + i].shape = s
      BY <2>1, <3>1
    <3>3. n + i \in 1..(n + k)
      OBVIOUS
    <3> QED
      BY <3>2, <3>3
  <2>3. ASSUME NEW j \in (n + i) + 1..(n + k) PROVE h[j].shape = 0
    <3>1. PICK m \in Nat : j = n + m
      <4>1. j - n \in Nat /\ j = n + (j - n)
        OBVIOUS
      <4> QED
        BY <4>1
    <3>2. m \in 1..k /\ m \in i+1..k
      BY <3>1
    <3> QED
      BY <1>2, <2>1, <3>1, <3>2
  <2> QED
    BY <1>2, <1>4, <2>2, <2>3 DEF Newest
<1>5. CASE Newest(q, 0) /\ Newest(p, s)
  <2>1. \A j \in 1..k : h[n + j].shape = 0
    BY <1>1, <1>2, <1>5 DEF Newest
  <2>2. CASE s = 0
    <3>1. \A i \in 1..n : h[i].shape = 0
      BY <1>1, <1>2, <1>5, <2>2 DEF Newest
    <3>2. \A i \in 1..(n + k) : h[i].shape = 0
      BY <1>3, <2>1, <3>1
    <3> QED
      BY <1>2, <2>2, <3>2 DEF Newest
  <2>3. CASE s # 0
    <3>1. PICK i \in 1..n : p[i].shape = s /\ \A j \in i+1..n : p[j].shape = 0
      BY <1>1, <1>5, <2>3 DEF Newest
    <3>2. i \in 1..(n + k) /\ h[i].shape = s
      BY <1>2, <3>1
    <3>3. ASSUME NEW j \in i+1..(n + k) PROVE h[j].shape = 0
      <4>1. j \in 1..(n + k)
        OBVIOUS
      <4>2. CASE j \in 1..n
        <5>1. j \in i+1..n
          BY <4>2
        <5> QED
          BY <1>2, <3>1, <4>2, <5>1
      <4> QED
        BY <1>3, <2>1, <4>1, <4>2
    <3> QED
      BY <1>2, <2>3, <3>2, <3>3 DEF Newest
  <2> QED
    BY <2>2, <2>3
<1> QED
  BY <1>2, <1>4, <1>5 DEF Over

\* One frame.
LEMMA NewestOne ==
  ASSUME NEW f \in Shaped
  PROVE  <<f>> \in Seq(Shaped) /\ Newest(<<f>>, f.shape)
<1>1. <<f>> \in Seq(Shaped) /\ Len(<<f>>) = 1 /\ <<f>>[1] = f
  OBVIOUS
<1>2. \A i \in 1..1 : i = 1
  OBVIOUS
<1>3. \A j \in 1+1..1 : FALSE
  OBVIOUS
<1>4. 1 \in 1..1
  OBVIOUS
<1> QED
  BY <1>1, <1>2, <1>3, <1>4 DEF Newest

\* An empty queue has none.
LEMMA NewestEmpty == \A s : Newest(<<>>, s) <=> s = 0
<1>1. Len(<<>>) = 0 /\ 1..0 = {}
  OBVIOUS
<1> QED
  BY <1>1 DEF Newest

\* A queue has one newest shape.
LEMMA NewestUnique ==
  ASSUME NEW q \in Seq(Shaped), NEW s, NEW t, Newest(q, s), Newest(q, t)
  PROVE  s = t
<1>1. CASE s = 0 \/ t = 0
  BY <1>1 DEF Newest
<1>2. CASE s # 0 /\ t # 0
  <2>1. PICK i \in 1..Len(q) : q[i].shape = s /\ \A m \in i+1..Len(q) : q[m].shape = 0
    BY <1>2 DEF Newest
  <2>2. PICK j \in 1..Len(q) : q[j].shape = t /\ \A m \in j+1..Len(q) : q[m].shape = 0
    BY <1>2 DEF Newest
  <2>3. j \notin i+1..Len(q) /\ i \notin j+1..Len(q)
    BY <1>2, <2>1, <2>2
  <2>4. Len(q) \in Nat
    OBVIOUS
  <2>5. i = j
    BY <2>3, <2>4
  <2> QED
    BY <2>1, <2>2, <2>5
<1> QED
  BY <1>1, <1>2

\* A frame is added.
LEMMA NewestAppend ==
  ASSUME NEW q \in Seq(Shaped), NEW f \in Shaped, NEW s \in Nat,
         (s # 0 /\ f.shape = s) \/ (f.shape = 0 /\ Newest(q, s))
  PROVE  Newest(Append(q, f), s)
<1>1. <<f>> \in Seq(Shaped) /\ Newest(<<f>>, f.shape)
  BY NewestOne
<1>2. Over(<<f>>, s, Newest(q, s))
  BY <1>1 DEF Over
<1>3. Append(q, f) = q \o <<f>>
  OBVIOUS
<1> QED
  BY <1>1, <1>2, <1>3, NewestCat

\* The first frame is taken.
LEMMA NewestTail ==
  ASSUME NEW q \in Seq(Shaped), q # <<>>, NEW s \in Nat, Newest(q, s)
  PROVE  (s # 0 /\ Newest(Tail(q), s)) \/ (Newest(Tail(q), 0) /\ Head(q).shape = s)
<1>1. PICK n \in Nat, t \in Seq(Shaped) : t = Tail(q) /\ n + 1 = Len(q)
  <2>1. Len(q) \in Nat /\ Len(q) # 0 /\ Tail(q) \in Seq(Shaped)
    OBVIOUS
  <2>2. Len(q) - 1 \in Nat /\ (Len(q) - 1) + 1 = Len(q)
    BY <2>1
  <2> QED
    BY <2>1, <2>2
<1>2. /\ Head(q) = q[1] /\ Len(t) = n
      /\ \A i \in 1..n : t[i] = q[i + 1]
  BY <1>1
<1>3. CASE s = 0
  <2>1. \A i \in 1..(n + 1) : q[i].shape = 0
    BY <1>1, <1>3 DEF Newest
  <2>2. 1 \in 1..(n + 1) /\ \A i \in 1..n : i + 1 \in 1..(n + 1)
    OBVIOUS
  <2> QED
    BY <1>1, <1>2, <1>3, <2>1, <2>2 DEF Newest
<1>4. CASE s # 0
  <2>1. PICK i \in 1..(n + 1) : q[i].shape = s /\ \A j \in i+1..(n + 1) : q[j].shape = 0
    BY <1>1, <1>4 DEF Newest
  <2>2. CASE i = 1
    <3>1. \A j \in 1..n : j + 1 \in i+1..(n + 1)
      BY <2>2
    <3>2. \A j \in 1..n : t[j].shape = 0
      BY <1>2, <2>1, <3>1
    <3> QED
      BY <1>1, <1>2, <2>1, <2>2, <3>2 DEF Newest
  <2>3. CASE i # 1
    <3>1. PICK m \in 1..n : m + 1 = i
      <4>1. i - 1 \in 1..n /\ (i - 1) + 1 = i
        BY <2>3
      <4> QED
        BY <4>1
    <3>2. t[m].shape = s
      BY <1>2, <2>1, <3>1
    <3>3. \A j \in m+1..n : j \in 1..n /\ j + 1 \in i+1..(n + 1)
      BY <3>1
    <3>4. ASSUME NEW j \in m+1..n PROVE t[j].shape = 0
      <4>1. j \in 1..n /\ j + 1 \in i+1..(n + 1)
        BY <3>3
      <4>2. t[j] = q[j + 1]
        BY <1>2, <4>1
      <4>3. q[j + 1].shape = 0
        BY <2>1, <4>1
      <4> QED
        BY <4>2, <4>3
    <3> QED
      BY <1>1, <1>2, <1>4, <3>2, <3>4 DEF Newest
  <2> QED
    BY <2>2, <2>3
<1> QED
  BY <1>3, <1>4

\* Frames in the queues have shapes.
LEMMA FramesShaped ==
  ASSUME DataOK
  PROVE  /\ packetQueue \in Seq(Shaped) /\ codec \in Seq(Shaped) /\ frameQueue \in Seq(Shaped)
         /\ shapes \in Nat /\ pending \in Nat /\ shown \in Nat
<1>1. Frames \subseteq Shaped
  BY BoundsAssumption DEF Frames, Shaped
<1>2. packetQueue \in Seq(Frames) /\ codec \in Seq(Frames) /\ frameQueue \in Seq(Frames)
  BY DEF DataOK
<1>3. packetQueue \in Seq(Shaped) /\ codec \in Seq(Shaped) /\ frameQueue \in Seq(Shaped)
  BY <1>1, <1>2
<1> QED
  BY <1>3, BoundsAssumption DEF DataOK

\* A step that moves no shape.
LEMMA CursorUntouched ==
  ASSUME CursorInv, UNCHANGED <<shapes, pending, packetQueue, codec, frameQueue, shown>>,
         uiPc \in {"notify", "joinRender", "joinDecoder", "closed"} =>
            uiPc' \in {"notify", "joinRender", "joinDecoder", "closed"}
  PROVE  CursorInv'
BY DEF CursorInv, Over

\* Shapes move on from queue to queue and are replaced by newer ones only.
LEMMA CursorStep == DataOK /\ InStep /\ StartInv /\ CursorInv /\ [Next]_vars => CursorInv'
<1> SUFFICES ASSUME DataOK, InStep, StartInv, CursorInv, [Next]_vars PROVE CursorInv'
  OBVIOUS
<1> USE DEF threadVars, flagVars, queueVars, peerVars
<1>1. CASE UNCHANGED vars
  BY <1>1, CursorUntouched DEF vars
<1>2. CASE FrameArrives \/ CheckWindow \/ InitByRecv
  BY <1>2, CursorUntouched DEF FrameArrives, CheckWindow, InitByRecv, initRest
<1>3. CASE CursorShape
  <2>1. shapes' = shapes + 1 /\ pending' = shapes + 1 /\ shapes \in Nat
    BY <1>3, FramesShaped DEF CursorShape
  <2>2. shapes + 1 # 0
    BY <2>1
  <2> QED
    BY <2>1, <2>2 DEF CursorInv
<1>4. CASE InitByUi
  <2>1. /\ UNCHANGED <<shapes, pending, packetQueue, codec, frameQueue, shown>>
        /\ uiPc \in {"claim", "start", "run", "render"}
    BY <1>4 DEF InitByUi, initRest, InitStep, InitClaim, DecoderStart, DecoderRun, RenderStart
  <2> QED
    BY <2>1, CursorUntouched
<1>5. CASE Resize \/ CheckStream \/ Destroy \/ StopFlag \/ StopNotify \/ JoinRender \/ JoinDecoder
  <2>1. UNCHANGED <<shapes, pending, packetQueue, codec, frameQueue, shown>>
    BY <1>5 DEF Resize, CheckStream, Destroy, StopFlag, StopNotify, JoinRender, JoinDecoder
  <2>2. uiPc \in {"notify", "joinRender", "joinDecoder", "closed"} =>
            uiPc' \in {"notify", "joinRender", "joinDecoder", "closed"}
    BY <1>5 DEF Resize, CheckStream, Destroy, StopFlag, StopNotify, JoinRender, JoinDecoder
  <2> QED
    BY <2>1, <2>2, CursorUntouched
<1>6. CASE DWaitRoom \/ DWaitPacket \/ DStopped
  BY <1>6, CursorUntouched DEF DWaitRoom, DWaitPacket, DStopped
<1>7. CASE RLoop \/ RWait \/ RStopped \/ RRendered \/ SpuriousWake
  BY <1>7, CursorUntouched DEF RLoop, RWait, RStopped, RRendered, SpuriousWake
<1>8. CASE DLoop
  <2>1. CASE flagRun
    BY <1>8, <2>1, CursorUntouched DEF DLoop
  <2>2. CASE ~flagRun
    <3>1. dPc = "loop" /\ uiPc' = uiPc
      BY <1>8 DEF DLoop
    <3>2. uiPc \in {"notify", "joinRender", "joinDecoder", "closed"}
      BY <2>2, <3>1 DEF StartInv
    <3> QED
      BY <3>1, <3>2 DEF CursorInv
  <2> QED
    BY <2>1, <2>2
<1> DEFINE s == shapes
           p == packetQueue
           c == codec
           f == frameQueue
<1>9. SUFFICES ASSUME uiPc \notin {"notify", "joinRender", "joinDecoder", "closed"},
                      PushData \/ DPushFrame \/ DPopPacket \/ RRead
               PROVE  CursorInv'
  <2>1. PushData \/ DPushFrame \/ DPopPacket \/ RRead => uiPc' = uiPc
    BY DEF PushData, DPushFrame, DPopPacket, RRead
  <2>2. CASE PushData \/ DPushFrame \/ DPopPacket \/ RRead
    BY <1>9, <2>1, <2>2 DEF CursorInv
  <2> QED
    BY <1>1, <1>2, <1>3, <1>4, <1>5, <1>6, <1>7, <1>8, <2>2
       DEF Next, RecvThread, UiThread, DecoderThread, RenderThread
<1>10. /\ p \in Seq(Shaped) /\ c \in Seq(Shaped) /\ f \in Seq(Shaped)
       /\ s \in Nat /\ pending \in Nat /\ shown \in Nat
  BY FramesShaped
<1>11. \/ s # 0 /\ pending = s
       \/ pending = 0 /\ Over(p, s, Over(c, s, Over(f, s, shown = s)))
  BY <1>9 DEF CursorInv
<1> HIDE DEF s, p, c, f
<1>12. CASE PushData
  <2>1. PICK key \in BOOLEAN, shape \in 0..MaxShapes, skip \in BOOLEAN :
          /\ IF pending = 0 /\ skip THEN Newest(p, shape) ELSE shape = pending
          /\ packetQueue' = Append(IF skip THEN <<>> ELSE p, Frame(sent, key, shape))
    BY <1>12, Zenon DEF PushData, p
  <2>2. pending' = 0 /\ shapes' = s /\ codec' = c /\ frameQueue' = f /\ shown' = shown
    BY <1>12 DEF PushData, s, c, f
  <2>3. PICK g \in Shaped : g = Frame(sent, key, shape) /\ g.shape = shape
    <3>1. sent \in Nat /\ shape \in Nat
      BY BoundsAssumption DEF DataOK
    <3>2. Frame(sent, key, shape) \in Shaped /\ Frame(sent, key, shape).shape = shape
      BY <3>1 DEF Frame, Shaped
    <3> QED
      BY <3>2
  <2>4. PICK q \in Seq(Shaped) : packetQueue' = Append(q, g) /\ q = IF skip THEN <<>> ELSE p
    <3>1. <<>> \in Seq(Shaped)
      OBVIOUS
    <3> QED
      BY <1>10, <2>1, <2>3, <3>1
  <2>5. 0 \in Nat
    OBVIOUS
  <2>6. CASE pending # 0
    <3>1. shape = s /\ s # 0
      BY <1>11, <2>1, <2>6
    <3>2. Newest(packetQueue', s)
      BY <1>10, <2>3, <2>4, <3>1, NewestAppend
    <3> QED
      BY <2>2, <3>1, <3>2 DEF CursorInv, Over
  <2>7. CASE pending = 0 /\ ~skip
    <3>1. shape = 0 /\ q = p
      BY <2>1, <2>4, <2>7
    <3>2. Newest(p, s) => Newest(packetQueue', s)
      BY <1>10, <2>3, <2>4, <3>1, NewestAppend
    <3>3. Newest(p, 0) => Newest(packetQueue', 0)
      BY <1>10, <2>3, <2>4, <2>5, <3>1, NewestAppend
    <3>4. Over(p, s, Over(c, s, Over(f, s, shown = s)))
      BY <1>11, <2>7
    <3> QED
      BY <2>2, <3>2, <3>3, <3>4 DEF CursorInv, Over
  <2>8. CASE pending = 0 /\ skip
    <3>1. Newest(p, shape) /\ q = <<>>
      BY <2>1, <2>4, <2>8
    <3>2. Newest(packetQueue', shape)
      <4>1. shape \in Nat /\ Newest(q, 0)
        BY <3>1, NewestEmpty, BoundsAssumption
      <4> QED
        BY <2>3, <2>4, <4>1, NewestAppend
    <3>3. Newest(p, s) => shape = s
      BY <1>10, <3>1, NewestUnique
    <3>4. Newest(p, 0) => shape = 0
      BY <1>10, <3>1, NewestUnique
    <3>5. Over(p, s, Over(c, s, Over(f, s, shown = s)))
      BY <1>11, <2>8
    <3> QED
      BY <2>2, <3>2, <3>3, <3>4, <3>5 DEF CursorInv, Over
  <2> QED
    BY <2>6, <2>7, <2>8
<1>13. CASE DPushFrame
  <2>1. /\ frameQueue' = Append(f, Head(c)) /\ codec' = Tail(c)
        /\ pending' = pending /\ shapes' = s /\ packetQueue' = p /\ shown' = shown
    BY <1>13 DEF DPushFrame, s, p, c, f
  <2>2. c # <<>>
    BY <1>13 DEF DPushFrame, InStep, c
  <2>3. PICK g \in Shaped : g = Head(c)
    BY <1>10, <2>2
  <2>4. /\ Newest(c, s) => (s # 0 /\ Newest(codec', s)) \/ (Newest(codec', 0) /\ g.shape = s)
        /\ Newest(c, 0) => Newest(codec', 0) /\ g.shape = 0
    BY <1>10, <2>1, <2>2, <2>3, NewestTail
  <2>5. (s # 0 /\ g.shape = s) \/ (g.shape = 0 /\ Newest(f, s)) => Newest(frameQueue', s)
    BY <1>10, <2>1, <2>3, NewestAppend
  <2>6. g.shape = 0 /\ Newest(f, 0) => Newest(frameQueue', 0)
    <3>1. 0 \in Nat
      OBVIOUS
    <3> QED
      BY <1>10, <2>1, <2>3, <3>1, NewestAppend
  <2> QED
    BY <1>11, <2>1, <2>4, <2>5, <2>6 DEF CursorInv, Over
<1>14. CASE DPopPacket
  <2>1. /\ codec' = Append(c, Head(p)) /\ packetQueue' = Tail(p) /\ p # <<>>
        /\ pending' = pending /\ shapes' = s /\ frameQueue' = f /\ shown' = shown
    BY <1>14 DEF DPopPacket, s, p, c, f
  <2>2. PICK g \in Shaped : g = Head(p)
    BY <1>10, <2>1
  <2>3. /\ Newest(p, s) => (s # 0 /\ Newest(packetQueue', s)) \/ (Newest(packetQueue', 0) /\ g.shape = s)
        /\ Newest(p, 0) => Newest(packetQueue', 0) /\ g.shape = 0
    BY <1>10, <2>1, <2>2, NewestTail
  <2>4. (s # 0 /\ g.shape = s) \/ (g.shape = 0 /\ Newest(c, s)) => Newest(codec', s)
    BY <1>10, <2>1, <2>2, NewestAppend
  <2>5. g.shape = 0 /\ Newest(c, 0) => Newest(codec', 0)
    <3>1. 0 \in Nat
      OBVIOUS
    <3> QED
      BY <1>10, <2>1, <2>2, <3>1, NewestAppend
  <2> QED
    BY <1>11, <2>1, <2>3, <2>4, <2>5 DEF CursorInv, Over
<1>15. CASE RRead
  <2>1. /\ frameQueue' = Tail(f) /\ f # <<>>
        /\ shown' = IF Head(f).shape # 0 THEN Head(f).shape ELSE shown
        /\ pending' = pending /\ shapes' = s /\ packetQueue' = p /\ codec' = c
    BY <1>15 DEF RRead, s, p, c, f
  <2>2. /\ Newest(f, s) => (s # 0 /\ Newest(frameQueue', s)) \/ (Newest(frameQueue', 0) /\ Head(f).shape = s)
        /\ Newest(f, 0) => Newest(frameQueue', 0) /\ Head(f).shape = 0
    BY <1>10, <2>1, NewestTail
  <2> QED
    BY <1>11, <2>1, <2>2 DEF CursorInv, Over
<1> QED
  BY <1>9, <1>12, <1>13, <1>14, <1>15

\* No shape of the cursor that is still the newest one is lost on its way through
\* three queues, although pushData drops packets and not every frame carries a shape.
THEOREM CursorCorrect == Spec => []CursorNotLost
<1>1. Init => DataOK /\ InStep
  BY BoundsAssumption, FrameCapAssumption
     DEF Init, DataOK, InStep, InHand, RecvPcs, UiPcs, DPcs, RPcs, Starting
<1>2. Init => StartInv
  BY DEF Init, StartInv, StartedOnce
<1>3. Init => CursorInv
  BY NewestEmpty DEF Init, CursorInv, Over
<1>4. DataOK /\ CursorInv => CursorNotLost
  <2> SUFFICES ASSUME DataOK, CursorInv, uiPc \notin {"notify", "joinRender", "joinDecoder", "closed"}
               PROVE  Newest(<<Frame(0, FALSE, shown)>> \o frameQueue \o codec \o packetQueue
                                \o <<Frame(sent, FALSE, pending)>>, shapes)
    BY DEF CursorNotLost
  <2>1. PICK s, a, z : s = shapes /\ a = Frame(0, FALSE, shown) /\ z = Frame(sent, FALSE, pending)
    OBVIOUS
  <2>2. /\ a \in Shaped /\ a.shape = shown /\ z \in Shaped /\ z.shape = pending /\ s \in Nat
        /\ packetQueue \in Seq(Shaped) /\ codec \in Seq(Shaped) /\ frameQueue \in Seq(Shaped)
    <3>1. sent \in Nat /\ 0 \in Nat
      BY BoundsAssumption DEF DataOK
    <3> QED
      BY <2>1, <3>1, FramesShaped DEF Frame, Shaped
  <2>3. PICK h1, h2, h3, h4, h5 :
          /\ h1 = <<a>> /\ h2 = h1 \o frameQueue /\ h3 = h2 \o codec /\ h4 = h3 \o packetQueue
          /\ h5 = h4 \o <<z>>
    OBVIOUS
  <2>4. h1 \in Seq(Shaped) /\ Newest(h1, shown) /\ <<z>> \in Seq(Shaped) /\ Newest(<<z>>, pending)
    BY <2>2, <2>3, NewestOne
  <2>5. h2 \in Seq(Shaped) /\ h3 \in Seq(Shaped) /\ h4 \in Seq(Shaped)
    BY <2>2, <2>3, <2>4
  <2>6. CASE s # 0 /\ pending = s
    <3>1. Over(<<z>>, s, Newest(h4, s))
      BY <2>4, <2>6 DEF Over
    <3>2. Newest(h5, s)
      BY <2>2, <2>3, <2>4, <2>5, <3>1, NewestCat
    <3> QED
      BY <2>1, <2>3, <3>2
  <2>7. CASE pending = 0 /\ Over(packetQueue, s, Over(codec, s, Over(frameQueue, s, shown = s)))
    <3>1. Over(frameQueue, s, shown = s) => Newest(h2, s)
      <4>1. Over(frameQueue, s, shown = s) => Over(frameQueue, s, Newest(h1, s))
        BY <2>4 DEF Over
      <4> QED
        BY <2>2, <2>3, <2>4, <4>1, NewestCat
    <3>2. Over(codec, s, Over(frameQueue, s, shown = s)) => Newest(h3, s)
      <4>1. Over(codec, s, Over(frameQueue, s, shown = s)) => Over(codec, s, Newest(h2, s))
        BY <3>1 DEF Over
      <4> QED
        BY <2>2, <2>3, <2>5, <4>1, NewestCat
    <3>3. Newest(h4, s)
      <4>1. Over(packetQueue, s, Newest(h3, s))
        BY <2>7, <3>2 DEF Over
      <4> QED
        BY <2>2, <2>3, <2>5, <4>1, NewestCat
    <3>4. Over(<<z>>, s, Newest(h4, s))
      BY <2>4, <2>7, <3>3 DEF Over
    <3>5. Newest(h5, s)
      BY <2>2, <2>3, <2>4, <2>5, <3>4, NewestCat
    <3> QED
      BY <2>1, <2>3, <3>5
  <2> QED
    BY <2>1, <2>6, <2>7 DEF CursorInv
<1> QED
  BY <1>1, <1>2, <1>3, <1>4, DataStep, StartStep, CursorStep, PTL DEF Spec
-----------------------------------------------------------------------------
(* How the viewer starts and how it ends.                                  *)

\* The receive thread or the user interface thread is at one of pcs.
At(pcs) == recvPc \in pcs \/ uiPc \in pcs

\* Somebody is on the way to starting the viewer as soon as the window and the stream are
\* ready, and who has claimed flagInitialized goes on until both threads run.
StartUnderWay ==
    /\ flagWindowReady /\ flagStreamStarted => flagInitialized \/ At({"check", "claim"})
    /\ flagInitialized => rPc # "off" \/ At({"start", "run", "render"})

\* The destructor joins threads that can end: they were started, they do not sleep, and the
\* flags that end their loops have fallen.
JoinsEnd ==
    uiPc \in {"joinRender", "joinDecoder"} =>
        /\ ~flagRun /\ ~flagRunRender
        /\ dPc \in {"loop", "room", "packet", "exited"}
        /\ rPc \in {"loop", "read", "using", "exited"}

\* When the destructor is done no thread uses the viewer any more.
ClosedIsQuiet ==
    uiPc = "closed" => recvPc = "joined" /\ dPc \in {"off", "exited"} /\ rPc \in {"off", "exited"}

\* The frame in use is dropped nowhere but at the end of the decoder thread, which comes before
\* the render thread is joined.
FreedOnlyInStop ==
    rPc = "using" /\ ~prevReadFrame => dPc = "exited" /\ uiPc \in {"notify", "joinRender"}

EndInv ==
    /\ StartUnderWay /\ JoinsEnd /\ ClosedIsQuiet /\ FreedOnlyInStop
    /\ flagInitialized => dPc # "off" \/ At({"start", "run"})
    /\ uiPc \in {"stop", "notify", "joinRender", "joinDecoder", "closed"} => ~flagRunRender
    /\ uiPc \in {"notify", "joinRender", "joinDecoder", "closed"} => ~flagRun
    /\ uiPc = "joinDecoder" => rPc = "exited"
    /\ dPc = "exited" => uiPc \in {"notify", "joinRender", "joinDecoder", "closed"}

\* Every step keeps it.
LEMMA EndStep == DataOK /\ StartInv /\ EndInv /\ [Next]_vars => EndInv'
<1> SUFFICES ASSUME DataOK, StartInv, EndInv, [Next]_vars PROVE EndInv'
  OBVIOUS
<1> USE DEF StartInv, EndInv, At, StartUnderWay, JoinsEnd, ClosedIsQuiet, FreedOnlyInStop,
            threadVars, flagVars, queueVars, peerVars
<1>1. CASE UNCHANGED vars
  BY <1>1 DEF vars
<1>2. CASE CursorShape \/ FrameArrives \/ CheckWindow
  <2>1. CASE CursorShape
    BY <2>1 DEF CursorShape
  <2>2. CASE FrameArrives
    BY <2>2 DEF FrameArrives
  <2>3. CASE CheckWindow
    BY <2>3 DEF CheckWindow
  <2> QED
    BY <1>2, <2>1, <2>2, <2>3
<1>3. CASE PushData
  <2>1. /\ recvPc = "push" /\ recvPc' = "idle"
        /\ dPc' = dPc \/ (dPc = "packetWait" /\ dPc' = "packet")
        /\ UNCHANGED <<uiPc, rPc, flagVars, prevReadFrame>>
    BY <1>3 DEF PushData, NotifyPacket
  <2> QED
    BY <2>1
<1>4. CASE InitByRecv
  <2> USE DEF InitByRecv, initRest
  <2>1. CASE InitClaim(recvPc, recvPc', "push")
    BY <1>4, <2>1 DEF InitClaim
  <2>2. CASE DecoderStart(recvPc, recvPc', "push")
    BY <1>4, <2>2 DEF DecoderStart
  <2>3. CASE DecoderRun(recvPc, recvPc', "push")
    BY <1>4, <2>3 DEF DecoderRun
  <2>4. CASE RenderStart(recvPc, recvPc', "push")
    BY <1>4, <2>4 DEF RenderStart
  <2> QED
    BY <1>4, <2>1, <2>2, <2>3, <2>4 DEF InitStep
<1>5. CASE InitByUi
  <2> USE DEF InitByUi, initRest
  <2>1. CASE InitClaim(uiPc, uiPc', "idle")
    BY <1>5, <2>1 DEF InitClaim
  <2>2. CASE DecoderStart(uiPc, uiPc', "idle")
    BY <1>5, <2>2 DEF DecoderStart
  <2>3. CASE DecoderRun(uiPc, uiPc', "idle")
    BY <1>5, <2>3 DEF DecoderRun
  <2>4. CASE RenderStart(uiPc, uiPc', "idle")
    BY <1>5, <2>4 DEF RenderStart
  <2> QED
    BY <1>5, <2>1, <2>2, <2>3, <2>4 DEF InitStep
<1>6. CASE Resize \/ CheckStream \/ Destroy
  <2>1. CASE Resize
    BY <2>1 DEF Resize
  <2>2. CASE CheckStream
    BY <2>2 DEF CheckStream
  <2>3. CASE Destroy
    BY <2>3 DEF Destroy
  <2> QED
    BY <1>6, <2>1, <2>2, <2>3
<1>7. CASE StopFlag
  BY <1>7 DEF StopFlag
<1>8. CASE StopNotify
  <2>1. /\ dPc' \in {"loop", "room", "packet", "exited"} /\ (dPc' = "exited" <=> dPc = "exited")
        /\ rPc' \in {"loop", "read", "using", "exited"} /\ (rPc' = "using" <=> rPc = "using")
    BY <1>8 DEF StopNotify, DataOK, DPcs, RPcs
  <2> QED
    BY <1>8, <2>1 DEF StopNotify
<1>9. CASE JoinRender \/ JoinDecoder
  BY <1>9 DEF JoinRender, JoinDecoder
<1>10. CASE DLoop
  <2>1. CASE flagRun
    BY <1>10, <2>1 DEF DLoop
  <2>2. CASE ~flagRun
    BY <1>10, <2>2 DEF DLoop
  <2> QED
    BY <2>1, <2>2
<1>11. CASE DWaitRoom \/ DPushFrame \/ DWaitPacket \/ DPopPacket \/ DStopped
  BY <1>11 DEF DWaitRoom, DPushFrame, DWaitPacket, DPopPacket, DStopped
<1>12. CASE RLoop \/ RWait \/ RStopped \/ RRendered
  BY <1>12 DEF RLoop, RWait, RStopped, RRendered
<1>13. CASE RRead
  <2>1. /\ rPc = "read" /\ rPc' = "using" /\ flagRun /\ prevReadFrame'
        /\ dPc' = dPc \/ (dPc = "roomWait" /\ dPc' = "room")
        /\ UNCHANGED <<recvPc, uiPc, flagVars>>
    BY <1>13 DEF RRead
  <2> QED
    BY <2>1
<1>14. CASE SpuriousWake
  BY <1>14 DEF SpuriousWake
<1> QED
  BY <1>1, <1>2, <1>3, <1>4, <1>5, <1>6, <1>7, <1>8, <1>9, <1>10, <1>11, <1>12, <1>13, <1>14
     DEF Next, RecvThread, UiThread, DecoderThread, RenderThread

\* It holds from the start.
LEMMA EndInductive == Spec => []EndInv
<1>1. Init => DataOK /\ InStep
  BY BoundsAssumption, FrameCapAssumption
     DEF Init, DataOK, InStep, InHand, RecvPcs, UiPcs, DPcs, RPcs, Starting
<1>2. Init => StartInv
  BY DEF Init, StartInv, StartedOnce
<1>3. Init => EndInv
  BY DEF Init, EndInv, At, StartUnderWay, JoinsEnd, ClosedIsQuiet, FreedOnlyInStop
<1> QED
  BY <1>1, <1>2, <1>3, DataStep, StartStep, EndStep, PTL DEF Spec

\* However the first resize and the first frame interleave (the two exchanges of init_'s callers),
\* the start is never left undone by both: the safe part of ViewerStarts.
THEOREM StartNotMissed == Spec => []StartUnderWay
<1>1. EndInv => StartUnderWay
  BY DEF EndInv
<1> QED
  BY <1>1, EndInductive, PTL

\* ~StreamViewerD3D never joins a thread that sleeps or that will go on: the safe part of
\* ViewerCloses.
THEOREM JoinsCorrect == Spec => []JoinsEnd
<1>1. EndInv => JoinsEnd
  BY DEF EndInv
<1> QED
  BY <1>1, EndInductive, PTL

\* No thread of the viewer outlives it.
THEOREM ClosedCorrect == Spec => []ClosedIsQuiet
<1>1. EndInv => ClosedIsQuiet
  BY DEF EndInv
<1> QED
  BY <1>1, EndInductive, PTL

\* What is left of FrameKept, which the code violates: the frame that the render thread uses is
\* freed under it only by a decoder thread that DecoderFFmpeg::stop has ended.
THEOREM FreedCorrect == Spec => []FreedOnlyInStop
<1>1. EndInv => FreedOnlyInStop
  BY DEF EndInv
<1> QED
  BY <1>1, EndInductive, PTL
=============================================================================
