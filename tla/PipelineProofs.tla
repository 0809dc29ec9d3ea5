--------------------------- MODULE PipelineProofs ---------------------------
(***************************************************************************)
(* Proofs about module Pipeline, for any set of modes and any bounds.      *)
(*                                                                         *)
(* The packets that a session leaves behind are counted against the        *)
(* sessions whose encoder was started, whatever overlaps; and the frames   *)
(* on their way are kept in the order in which they were picked, through   *)
(* the hand of loopEncoder_, nextFrame, the codec and packetQueue.         *)
(***************************************************************************)
EXTENDS Pipeline, Duplication, SequenceTheorems, TLAPS

\* The types of the variables that are not Boolean.
DataOK ==
    /\ startPc \in StartPcs /\ stopPc \in StopPcs
    /\ capPc \in CapPcs /\ encPc \in EncPcs /\ runPc \in RunPcs
    /\ sessions \in 0..MaxSessions /\ picked \in 0..MaxFrames /\ written \in 0..MaxFrames
    /\ scaleMode \in Modes \cup {NoMode} /\ encMode \in Modes \cup {NoMode}
    /\ tex \in Modes \cup {NoMode}
    /\ hand \in Seq(Frames) /\ nextFrame \in Seq(Frames) /\ work \in Seq(Frames)
    /\ packetQueue \in Seq(Frames)
    /\ Len(hand) <= 1 /\ Len(nextFrame) <= 1 /\ Len(work) <= 1

FlagsOK ==
    /\ flagRun \in BOOLEAN /\ encFlag \in BOOLEAN /\ lastDesktop \in BOOLEAN
    /\ firstFrame \in BOOLEAN /\ crashed \in BOOLEAN /\ streaming \in BOOLEAN
    /\ refused \in BOOLEAN /\ missed \in BOOLEAN

Pushing  == {"push", "pushBlock", "pushWait"}
Starting == {"flag", "joinCapture", "joinEncode", "joinRun"}

\* start() has joined loopEncoder_ before it starts the encoder and the new threads.
Calls == startPc \in {"joinRun", "spawn"} => Gone(encPc)

\* There is a picture, of a size that is known, as soon as one was asked for.
Picture ==
    /\ startPc # "idle" \/ capPc # "off" => scaleMode \in Modes
    /\ firstFrame \/ lastDesktop => tex \in Modes

\* loopEncoder_ holds a frame while it pushes or writes it; run_ one that it checks.
InHand ==
    /\ encPc \in Pushing \cup {"write"} => hand # <<>>
    /\ runPc = "check" => work # <<>>

TypeInv == DataOK /\ FlagsOK /\ Calls /\ Picture /\ InHand
-----------------------------------------------------------------------------
\* Every step keeps the flags Booleans.
LEMMA FlagsStep == FlagsOK /\ [Next]_vars => FlagsOK'
<1> SUFFICES ASSUME FlagsOK, [Next]_vars PROVE FlagsOK'
    OBVIOUS
<1>1. CASE UNCHANGED vars
    BY <1>1 DEF FlagsOK, vars, ctlVars, startVars, flagVars, imageVars
<1>2. CASE Caller
    <2>1. CASE SetEncoderMode \/ Start
        BY <2>1 DEF FlagsOK, SetEncoderMode, Start, StartFlag, JoinCapture, JoinEncode,
           EncoderStart, EncoderNotStopped, StartThreads, imageVars, ctlVars, startVars, flagVars
    <2>2. CASE EndStream \/ StopFlag \/ StopEncoder
        BY <2>2 DEF FlagsOK, EndStream, StopFlag, StopEncoder, imageVars, startVars
    <2>3. CASE StopNotify
        BY <2>3 DEF FlagsOK, StopNotify, imageVars, startVars, flagVars
    <2> QED
        BY <1>2, <2>1, <2>2, <2>3 DEF Caller, Stop
<1>3. CASE CaptureThread
    BY <1>3 DEF FlagsOK, CaptureThread, CaptureLoop, CaptureFrame, ctlVars, startVars, flagVars, imageVars
<1>4. CASE EncodeThread
    BY <1>4 DEF FlagsOK, EncodeThread, EncodeLoop, PickFrame, PushBlock, PushFrame, ReadBlock,
       ReadData, WriteOutput, ctlVars, startVars, flagVars, imageVars
<1>5. CASE RunThread
    BY <1>5 DEF FlagsOK, RunThread, RunLoop, Deliver, TakeBlock, TakeFrame, TakeStopped, CheckFrame, CodecRefuses, ctlVars, startVars, flagVars, imageVars
<1>6. CASE Sleep \/ SpuriousWake
    BY <1>6 DEF FlagsOK, Sleep, SpuriousWake, ctlVars, startVars, flagVars, imageVars
<1> QED
    BY <1>1, <1>2, <1>3, <1>4, <1>5, <1>6 DEF Next

\* Only StartThreads brings loopEncoder_ back.
LEMMA CallsStep == TypeInv /\ [Next]_vars => Calls'
<1> SUFFICES ASSUME TypeInv, [Next]_vars PROVE Calls'
    OBVIOUS
<1> USE DEF TypeInv, Calls, Gone
<1>1. CASE UNCHANGED vars
    BY <1>1 DEF vars, ctlVars, startVars, flagVars
<1>2. CASE SetEncoderMode \/ Start
    BY <1>2 DEF SetEncoderMode, Start, StartFlag, JoinCapture, JoinEncode, EncoderStart,
       EncoderNotStopped, StartThreads, ctlVars, startVars
<1>3. CASE EndStream \/ StopFlag \/ StopEncoder
    BY <1>3 DEF EndStream, StopFlag, StopEncoder, startVars
<1>4. CASE StopNotify
    BY <1>4 DEF StopNotify, startVars
<1>5. CASE CaptureThread
    BY <1>5 DEF CaptureThread, CaptureLoop, CaptureFrame, ctlVars, startVars, flagVars
<1>6. CASE EncodeThread
    BY <1>6 DEF EncodeThread, EncodeLoop, PickFrame, PushBlock, PushFrame, ReadBlock, ReadData,
       WriteOutput, ctlVars, startVars, flagVars
<1>7. CASE RunThread
    BY <1>7 DEF RunThread, RunLoop, Deliver, TakeBlock, TakeFrame, TakeStopped, CheckFrame, CodecRefuses,
       ctlVars, startVars, flagVars
<1>8. CASE Sleep \/ SpuriousWake
    BY <1>8 DEF Sleep, SpuriousWake, ctlVars, startVars, flagVars
<1> QED
    BY <1>1, <1>2, <1>3, <1>4, <1>5, <1>6, <1>7, <1>8 DEF Next, Caller, Stop

\* A picture is only scaled in a session, and only picked when there is one.
LEMMA PictureStep == TypeInv /\ [Next]_vars => Picture'
<1> SUFFICES ASSUME TypeInv, [Next]_vars PROVE Picture'
    OBVIOUS
<1> USE DEF TypeInv, Picture
<1>1. CASE UNCHANGED vars
    BY <1>1 DEF vars, ctlVars, startVars, flagVars, imageVars, modeVars
<1>2. CASE SetEncoderMode
    BY <1>2 DEF SetEncoderMode, imageVars
<1>3. CASE Caller /\ ~SetEncoderMode
    BY <1>3 DEF Caller, Start, Stop, StartFlag, JoinCapture, JoinEncode, EncoderStart,
       EncoderNotStopped, StartThreads, EndStream, StopFlag, StopEncoder, StopNotify, imageVars,
       modeVars, ctlVars, startVars
<1>4. CASE CaptureLoop
    BY <1>4 DEF CaptureLoop, ctlVars, startVars, flagVars, imageVars, modeVars
<1>5. CASE CaptureFrame
    BY <1>5 DEF CaptureFrame, Scale, ctlVars, startVars, flagVars, imageVars, modeVars
<1>6. CASE EncodeThread
    BY <1>6 DEF EncodeThread, EncodeLoop, PickFrame, PushBlock, PushFrame, ReadBlock, ReadData,
       WriteOutput, ctlVars, startVars, flagVars, imageVars, modeVars
<1>7. CASE RunThread
    BY <1>7 DEF RunThread, RunLoop, Deliver, TakeBlock, TakeFrame, TakeStopped, CheckFrame, CodecRefuses,
       ctlVars, startVars, flagVars, imageVars, modeVars
<1>8. CASE Sleep \/ SpuriousWake
    BY <1>8 DEF Sleep, SpuriousWake, ctlVars, startVars, flagVars, imageVars, modeVars
<1> QED
    BY <1>1, <1>2, <1>3, <1>4, <1>5, <1>6, <1>7, <1>8 DEF Next, CaptureThread
-----------------------------------------------------------------------------
(* The frames on their way.                                                *)

\* A step that moves no frame.
Still ==
    /\ UNCHANGED <<hand, nextFrame, work, packetQueue, picked, written>>
    /\ encPc' \in Pushing <=> encPc \in Pushing
    /\ encPc' \in Reading <=> encPc \in Reading
    /\ encPc' = "write" <=> encPc = "write"
    /\ runPc' = "check" => runPc = "check"

\* The step in which loopEncoder_ picks a frame.
Picks ==
    /\ encPc = "pick" /\ (firstFrame \/ lastDesktop)
    /\ picked < MaxFrames /\ picked' = picked + 1
    /\ hand' = <<[seq |-> picked + 1, mode |-> tex]>>
    /\ encPc' = "push"
    /\ UNCHANGED <<startPc, sessions, encFlag, runPc, nextFrame, work, packetQueue, written>>

\* The steps that move frames.
LEMMA Moves ==
    ASSUME TypeInv, [Next]_vars
    PROVE  \/ Still \/ Picks \/ EncoderStart \/ PushFrame \/ ReadData \/ WriteOutput \/ Deliver
           \/ TakeFrame \/ CodecRefuses
<1> USE DEF Still, Pushing, Reading
<1>1. CASE UNCHANGED vars
    BY <1>1 DEF vars, frameVars
<1>2. CASE Caller /\ ~EncoderStart
    <2>1. CASE StartThreads
        BY <2>1 DEF StartThreads, frameVars, TypeInv, Calls, Gone
    <2>2. CASE StopNotify
        BY <2>2 DEF StopNotify, frameVars
    <2> QED
        BY <1>2, <2>1, <2>2 DEF Caller, Start, Stop, SetEncoderMode, StartFlag, JoinCapture,
           JoinEncode, EncoderNotStopped, EndStream, StopFlag, StopEncoder, frameVars
<1>3. CASE CaptureThread
    BY <1>3 DEF CaptureThread, CaptureLoop, CaptureFrame, frameVars
<1>4. CASE EncodeLoop \/ PushBlock \/ ReadBlock
    BY <1>4 DEF EncodeLoop, PushBlock, ReadBlock, frameVars
<1>5. CASE PickFrame
    BY <1>5 DEF PickFrame, Picks, ctlVars, startVars, flagVars
<1>6. CASE RunLoop \/ TakeBlock \/ TakeStopped \/ CheckFrame
    BY <1>6 DEF RunLoop, TakeBlock, TakeStopped, CheckFrame, frameVars
<1>7. CASE Sleep \/ SpuriousWake
    BY <1>7 DEF Sleep, SpuriousWake, frameVars
<1> QED
    BY <1>1, <1>2, <1>3, <1>4, <1>5, <1>6, <1>7 DEF Next, EncodeThread, RunThread

\* Holders of one frame at most.
LEMMA Holders ==
    /\ <<>> \in Seq(Frames) /\ Len(<<>>) = 0
    /\ \A f \in Frames : <<f>> \in Seq(Frames) /\ Len(<<f>>) = 1 /\ <<f>>[1] = f /\ <<f>> # <<>>
    /\ \A q \in Seq(Frames) : q # <<>> => Head(q) \in Frames /\ Tail(q) \in Seq(Frames)
                                          /\ Len(Tail(q)) = Len(q) - 1
OBVIOUS

\* run_ delivers the one packet it has.
LEMMA Delivered ==
    ASSUME NEW q \in Seq(Frames), NEW w \in Seq(Frames), w # <<>>, Len(w) <= 1
    PROVE  /\ w[1] \in Frames /\ Len(w) = 1
           /\ q \o w \in Seq(Frames) /\ Len(q \o w) = Len(q) + 1
           /\ \A i \in 1..Len(q) : (q \o w)[i] = q[i]
           /\ (q \o w)[Len(q) + 1] = w[1]
<1>1. w[1] \in Frames /\ Len(w) = 1
    <2>1. Len(w) \in Nat /\ Len(w) # 0
        BY EmptySeq
    <2>2. Len(w) = 1
        <3>1. \A n \in Nat : n # 0 /\ n <= 1 => n = 1
            OBVIOUS
        <3> QED
            BY <2>1, <3>1
    <2>3. w[1] \in Frames
        BY <2>2, ElementOfSeq
    <2> QED
        BY <2>2, <2>3
<1>2. q \o w \in Seq(Frames) /\ Len(q \o w) = Len(q) + 1
    <2>1. q \o w \in Seq(Frames) /\ Len(q \o w) = Len(q) + Len(w)
        BY ConcatProperties
    <2> QED
        BY <1>1, <2>1
<1>3. \A i \in 1..Len(q) : (q \o w)[i] = q[i]
    OBVIOUS
<1>4. (q \o w)[Len(q) + 1] = w[1]
    BY <1>1
<1> QED
    BY <1>1, <1>2, <1>3, <1>4

\* The frames keep their types; each of hand, nextFrame and work is one at most.
LEMMA FramesStep ==
    ASSUME TypeInv, [Next]_vars
    PROVE  /\ picked' \in 0..MaxFrames /\ written' \in 0..MaxFrames
           /\ hand' \in Seq(Frames) /\ nextFrame' \in Seq(Frames) /\ work' \in Seq(Frames)
           /\ packetQueue' \in Seq(Frames)
           /\ Len(hand') <= 1 /\ Len(nextFrame') <= 1 /\ Len(work') <= 1
           /\ InHand'
<1> USE DEF TypeInv, InHand
<1>1. CASE Still
    BY <1>1 DEF Still, DataOK, Pushing
<1>2. CASE Picks
    <2>1. [seq |-> picked + 1, mode |-> tex] \in Frames
        BY <1>2, BoundsAssumption DEF Picks, Picture, DataOK, Frames
    <2> QED
        BY <1>2, <2>1, BoundsAssumption, Holders DEF Picks, DataOK
<1>3. CASE EncoderStart
    BY <1>3 DEF EncoderStart, DataOK, Calls, Pushing, Gone
<1>4. CASE PushFrame
    BY <1>4 DEF PushFrame, DataOK, Pushing
<1>5. CASE ReadData
    <2>1. CASE encFlag /\ packetQueue # <<>> /\ hand' = <<Head(packetQueue)>>
               /\ packetQueue' = Tail(packetQueue) /\ encPc' = "write"
        BY <1>5, <2>1, Holders DEF ReadData, DataOK
    <2>2. CASE encPc' = "loop" /\ UNCHANGED <<hand, packetQueue>>
        BY <1>5, <2>2 DEF ReadData, DataOK, Pushing
    <2> QED
        BY <1>5, <2>1, <2>2 DEF ReadData
<1>6. CASE WriteOutput
    <2>1. hand[1] \in Frames
        BY <1>6 DEF WriteOutput, DataOK, Pushing
    <2>2. hand[1].seq \in 0..MaxFrames
        BY <2>1, BoundsAssumption DEF Frames
    <2> QED
        BY <1>6, <2>2 DEF WriteOutput, DataOK, Pushing
<1>7. CASE Deliver
    <2>1. packetQueue \o work \in Seq(Frames)
        BY <1>7, Delivered DEF Deliver, DataOK
    <2> QED
        BY <1>7, <2>1 DEF Deliver, DataOK, Pushing
<1>8. CASE TakeFrame
    BY <1>8 DEF TakeFrame, DataOK, Pushing
<1>9. CASE CodecRefuses
    BY <1>9 DEF CodecRefuses, DataOK, Pushing
<1> QED
    BY <1>1, <1>2, <1>3, <1>4, <1>5, <1>6, <1>7, <1>8, <1>9, Moves

\* The other types.
LEMMA DataStep == TypeInv /\ [Next]_vars => DataOK'
<1> SUFFICES ASSUME TypeInv, [Next]_vars PROVE DataOK'
    OBVIOUS
<1> DEFINE Rest == /\ startPc' \in StartPcs /\ stopPc' \in StopPcs /\ capPc' \in CapPcs /\ encPc' \in EncPcs
                   /\ runPc' \in RunPcs /\ sessions' \in 0..MaxSessions
                   /\ scaleMode' \in Modes \cup {NoMode} /\ encMode' \in Modes \cup {NoMode}
                   /\ tex' \in Modes \cup {NoMode}
<1> USE DEF TypeInv
<1>1. ASSUME UNCHANGED vars PROVE Rest
    BY <1>1 DEF vars, DataOK, ctlVars, startVars, flagVars, modeVars, imageVars
<1>2. ASSUME SetEncoderMode PROVE Rest
    BY <1>2, BoundsAssumption DEF SetEncoderMode, DataOK, StartPcs, imageVars
<1>3. ASSUME Start PROVE Rest
    BY <1>3 DEF Start, StartFlag, JoinCapture, JoinEncode, EncoderStart, EncoderNotStopped,
       StartThreads, DataOK, StartPcs, CapPcs, EncPcs, RunPcs, modeVars, imageVars, ctlVars,
       startVars
<1>4. ASSUME EndStream \/ StopFlag \/ StopEncoder PROVE Rest
    BY <1>4 DEF EndStream, StopFlag, StopEncoder, DataOK, StopPcs, modeVars, imageVars, startVars
<1>5. ASSUME StopNotify PROVE Rest
    BY <1>5 DEF StopNotify, DataOK, StopPcs, EncPcs, RunPcs, modeVars, imageVars, startVars
<1>6. ASSUME CaptureThread PROVE Rest
    BY <1>6 DEF CaptureThread, CaptureLoop, CaptureFrame, Scale, DataOK, CapPcs, ctlVars, startVars, flagVars, modeVars,
       imageVars
<1>7. ASSUME EncodeLoop \/ PickFrame \/ PushBlock \/ ReadBlock PROVE Rest
    BY <1>7 DEF EncodeLoop, PickFrame, PushBlock, ReadBlock, DataOK, EncPcs, ctlVars, startVars, flagVars, modeVars,
       imageVars
<1>8. ASSUME PushFrame \/ ReadData \/ WriteOutput PROVE Rest
    BY <1>8 DEF PushFrame, ReadData, WriteOutput, DataOK, EncPcs, RunPcs, ctlVars, startVars, flagVars, modeVars,
       imageVars
<1>9. ASSUME RunThread PROVE Rest
    BY <1>9 DEF RunThread, RunLoop, Deliver, TakeBlock, TakeFrame, TakeStopped, CheckFrame, CodecRefuses, DataOK,
       EncPcs, RunPcs, ctlVars, startVars, flagVars, modeVars, imageVars
<1>10. ASSUME Sleep \/ SpuriousWake PROVE Rest
    BY <1>10 DEF Sleep, SpuriousWake, DataOK, EncPcs, RunPcs, ctlVars, startVars, flagVars, modeVars, imageVars
<1>11. Rest
    BY <1>1, <1>2, <1>3, <1>4, <1>5, <1>6, <1>7, <1>8, <1>9, <1>10
       DEF Next, Caller, Stop, EncodeThread
<1> QED
    BY <1>11, FramesStep DEF DataOK
-----------------------------------------------------------------------------
(* How many frames are on their way.                                       *)

OnTheWay == Len(nextFrame) + Len(work) + Len(packetQueue)

\* The sessions whose encoder was started.
Started == IF startPc \in Starting THEN sessions - 1 ELSE sessions

\* Each of them leaves one behind at most, so there is room for one more whenever the
\* encoder runs and no packet is waited for.
Count ==
    /\ startPc \in Starting => 0 < sessions
    /\ OnTheWay <= Started
    /\ encFlag /\ encPc \notin Reading => OnTheWay < Started

\* The numbers are numbers.
LEMMA Numbers ==
    ASSUME DataOK
    PROVE  /\ Len(nextFrame) \in Nat /\ Len(work) \in Nat /\ Len(packetQueue) \in Nat
           /\ Len(hand) \in Nat /\ sessions \in Nat /\ OnTheWay \in Nat
<1>1. /\ Len(nextFrame) \in Nat /\ Len(work) \in Nat /\ Len(packetQueue) \in Nat
      /\ Len(hand) \in Nat
    BY DEF DataOK
<1> QED
    BY <1>1, BoundsAssumption DEF DataOK, OnTheWay

\* Only the beginning of a session and EncoderFFmpeg::start count it, and only EncoderFFmpeg::start sets the
\* encoder's flag.
LEMMA CallerMoves ==
    ASSUME [Next]_vars, ~SetEncoderMode, ~EncoderStart
    PROVE  /\ sessions' = sessions
           /\ startPc' \in Starting <=> startPc \in Starting
           /\ encFlag' => encFlag
<1>1. CASE UNCHANGED vars
    BY <1>1 DEF vars, ctlVars, startVars, flagVars
<1>2. CASE Caller
    BY <1>2 DEF Starting, Caller, Start, Stop, StartFlag, JoinCapture, JoinEncode,
       EncoderNotStopped, StartThreads, EndStream, StopFlag, StopEncoder, StopNotify, ctlVars,
       startVars, flagVars
<1>3. CASE CaptureThread \/ EncodeThread
    BY <1>3 DEF CaptureThread, EncodeThread, CaptureLoop, CaptureFrame, EncodeLoop, PickFrame,
       PushBlock, PushFrame, ReadBlock, ReadData, WriteOutput, ctlVars, startVars, flagVars
<1>4. CASE RunThread \/ Sleep \/ SpuriousWake
    BY <1>4 DEF RunThread, RunLoop, Deliver, TakeBlock, TakeFrame, TakeStopped, CheckFrame, CodecRefuses, Sleep,
       SpuriousWake, ctlVars, startVars, flagVars
<1> QED
    BY <1>1, <1>2, <1>3, <1>4 DEF Next

\* Every step keeps the count.
LEMMA CountStep == TypeInv /\ Count /\ [Next]_vars => Count'
<1> SUFFICES ASSUME TypeInv, Count, [Next]_vars PROVE Count'
    OBVIOUS
<1>1. /\ Len(nextFrame) \in Nat /\ Len(work) \in Nat /\ Len(packetQueue) \in Nat
      /\ Len(hand) \in Nat /\ Len(hand) <= 1 /\ sessions \in Nat /\ OnTheWay \in Nat
    BY Numbers DEF TypeInv, DataOK
<1>2. CASE SetEncoderMode
    <2>1. /\ sessions' = sessions + 1 /\ startPc \notin Starting /\ startPc' \in Starting
          /\ OnTheWay' = OnTheWay /\ UNCHANGED <<encFlag, encPc>>
        BY <1>2 DEF SetEncoderMode, OnTheWay, frameVars, Starting
    <2>2. Started' = Started
        BY <1>1, <2>1 DEF Started
    <2> QED
        BY <1>1, <2>1, <2>2 DEF Count
<1>3. CASE EncoderStart
    <2>1. /\ sessions' = sessions /\ startPc \in Starting /\ startPc' \notin Starting
          /\ nextFrame' = <<>> /\ work' = <<>> /\ packetQueue' = packetQueue
        BY <1>3 DEF EncoderStart, Starting
    <2>2. OnTheWay' = Len(packetQueue)
        BY <1>1, <2>1 DEF OnTheWay
    <2>3. OnTheWay' <= OnTheWay
        BY <1>1, <2>2 DEF OnTheWay
    <2>4. OnTheWay' < Started'
        BY <1>1, <2>1, <2>2, <2>3 DEF Count, Started
    <2> QED
        BY <1>1, <2>1, <2>2, <2>4 DEF Count, Started
<1>4. CASE ~SetEncoderMode /\ ~EncoderStart
    <2>1. /\ sessions' = sessions
          /\ startPc' \in Starting <=> startPc \in Starting
          /\ Started' = Started /\ Started \in Int
          /\ encFlag' => encFlag
        BY <1>1, <1>4, CallerMoves DEF Started
    <2>2. ASSUME OnTheWay' \in Nat, OnTheWay' <= OnTheWay,
                 encPc' \notin Reading => encPc \notin Reading
          PROVE  Count'
        BY <1>1, <2>1, <2>2 DEF Count
    <2>3. CASE Still
        <3>1. OnTheWay' = OnTheWay /\ (encPc' \in Reading <=> encPc \in Reading)
            BY <2>3 DEF Still, OnTheWay
        <3> QED
            BY <1>1, <2>2, <3>1
    <2>4. CASE Picks \/ WriteOutput
        <3>1. /\ UNCHANGED <<nextFrame, work, packetQueue>>
              /\ encPc' \notin Reading /\ encPc \notin Reading
            BY <2>4 DEF Picks, WriteOutput, Reading
        <3> QED
            BY <1>1, <2>2, <3>1 DEF OnTheWay
    <2>5. CASE PushFrame
        <3>1. /\ encPc \notin Reading /\ encPc' \in Reading
              /\ work' = work /\ packetQueue' = packetQueue /\ UNCHANGED encFlag
              /\ \/ nextFrame' = nextFrame
                 \/ encFlag /\ nextFrame = <<>> /\ nextFrame' = hand
            BY <2>5 DEF PushFrame, Reading, ctlVars, startVars, flagVars
        <3>2. CASE nextFrame' = nextFrame
            <4>1. OnTheWay' = OnTheWay
                BY <3>1, <3>2 DEF OnTheWay
            <4> QED
                BY <1>1, <2>1, <3>1, <4>1 DEF Count
        <3>3. CASE encFlag /\ nextFrame = <<>> /\ nextFrame' = hand
            <4>1. OnTheWay' \in Nat /\ OnTheWay' <= OnTheWay + 1
                BY <1>1, <3>1, <3>3 DEF OnTheWay
            <4>2. OnTheWay < Started
                BY <3>1, <3>3 DEF Count
            <4> QED
                BY <1>1, <2>1, <3>1, <4>1, <4>2 DEF Count
        <3> QED
            BY <3>1, <3>2, <3>3
    <2>6. CASE ReadData
        <3>1. /\ nextFrame' = nextFrame /\ work' = work /\ UNCHANGED encFlag
              /\ \/ encFlag /\ packetQueue # <<>> /\ packetQueue' = Tail(packetQueue)
                 \/ ~encFlag /\ packetQueue' = packetQueue
            BY <2>6 DEF ReadData, ctlVars, startVars, flagVars
        <3>2. CASE encFlag /\ packetQueue # <<>> /\ packetQueue' = Tail(packetQueue)
            <4>1. Len(packetQueue') = Len(packetQueue) - 1 /\ Len(packetQueue) # 0
                BY <3>2, Holders, EmptySeq DEF TypeInv, DataOK
            <4>2. OnTheWay' \in Nat /\ OnTheWay' < OnTheWay
                BY <1>1, <3>1, <4>1 DEF OnTheWay
            <4> QED
                BY <1>1, <2>1, <4>2 DEF Count
        <3>3. CASE ~encFlag /\ packetQueue' = packetQueue
            <4>1. OnTheWay' = OnTheWay
                BY <3>1, <3>3 DEF OnTheWay
            <4> QED
                BY <1>1, <2>1, <3>3, <4>1 DEF Count
        <3> QED
            BY <3>1, <3>2, <3>3
    <2>7. CASE Deliver
        <3>1. /\ nextFrame' = nextFrame /\ work' = <<>> /\ work # <<>>
              /\ packetQueue' = packetQueue \o work
              /\ encPc' \in Reading <=> encPc \in Reading
            BY <2>7 DEF Deliver, Reading
        <3>2. Len(packetQueue') = Len(packetQueue) + 1 /\ Len(work) = 1
            BY <3>1, Delivered DEF TypeInv, DataOK
        <3>3. Len(work') = 0
            BY <3>1
        <3> QED
            BY <1>1, <2>2, <3>1, <3>2, <3>3 DEF OnTheWay
    <2>8. CASE TakeFrame
        <3>1. /\ nextFrame' = <<>> /\ work' = nextFrame /\ packetQueue' = packetQueue
              /\ encPc' \in Reading <=> encPc \in Reading
            BY <2>8 DEF TakeFrame, Reading
        <3>2. Len(nextFrame') = 0
            BY <3>1
        <3> QED
            BY <1>1, <2>2, <3>1, <3>2 DEF OnTheWay
    <2>9. CASE CodecRefuses
        <3>1. work' = <<>> /\ UNCHANGED <<nextFrame, packetQueue, encPc>>
            BY <2>9 DEF CodecRefuses
        <3>2. Len(work') = 0
            BY <3>1
        <3> QED
            BY <1>1, <2>2, <3>1, <3>2 DEF OnTheWay
    <2> QED
        BY <1>4, <2>3, <2>4, <2>5, <2>6, <2>7, <2>8, <2>9, Moves
<1> QED
    BY <1>2, <1>3, <1>4
-----------------------------------------------------------------------------
(* In which order they are.                                                *)

\* The frame at the head of a holder comes after everything in packetQueue, and after
\* what was written.
Behind(q) ==
    q # <<>> => /\ written < q[1].seq /\ q[1].seq <= picked
                /\ \A i \in 1..Len(packetQueue) : packetQueue[i].seq < q[1].seq

\* The frame in a loopEncoder_ that pushes is the last one picked; that of one that
\* writes precedes all the others.
Order ==
    /\ written <= picked
    /\ \A i \in 1..Len(packetQueue) :
            written < packetQueue[i].seq /\ packetQueue[i].seq <= picked
    /\ \A i, j \in 1..Len(packetQueue) : i < j => packetQueue[i].seq < packetQueue[j].seq
    /\ Behind(work) /\ Behind(nextFrame)
    /\ work # <<>> /\ nextFrame # <<>> => work[1].seq < nextFrame[1].seq
    /\ encPc \in Pushing =>
            /\ Behind(hand)
            /\ \A q \in {work, nextFrame} : q # <<>> => q[1].seq < hand[1].seq
    /\ encPc = "write" =>
            /\ written < hand[1].seq /\ hand[1].seq <= picked
            /\ \A i \in 1..Len(packetQueue) : hand[1].seq < packetQueue[i].seq
            /\ \A q \in {work, nextFrame} : q # <<>> => hand[1].seq < q[1].seq

\* The numbers of frames are numbers.
LEMMA SeqNumbers ==
    ASSUME DataOK
    PROVE  /\ picked \in Nat /\ written \in Nat
           /\ \A q \in {hand, work, nextFrame} : q # <<>> => q[1].seq \in Nat
           /\ \A i \in 1..Len(packetQueue) : packetQueue[i].seq \in Nat
<1>1. \A f \in Frames : f.seq \in Nat
    BY BoundsAssumption DEF Frames
<1>2. picked \in Nat /\ written \in Nat
    BY BoundsAssumption DEF DataOK
<1>3. \A q \in Seq(Frames) : q # <<>> => q[1].seq \in Nat
    <2>1. \A q \in Seq(Frames) : q # <<>> => Head(q) = q[1] /\ Head(q) \in Frames
        BY Holders
    <2> QED
        BY <1>1, <2>1
<1>4. \A i \in 1..Len(packetQueue) : packetQueue[i].seq \in Nat
    BY <1>1, ElementOfSeq DEF DataOK
<1> QED
    BY <1>2, <1>3, <1>4 DEF DataOK

\* Every step keeps the order.
LEMMA OrderStep == TypeInv /\ Order /\ [Next]_vars => Order'
<1> SUFFICES ASSUME TypeInv, Order, [Next]_vars PROVE Order'
    OBVIOUS
<1>1. /\ picked \in Nat /\ written \in Nat
      /\ hand # <<>> => hand[1].seq \in Nat
      /\ work # <<>> => work[1].seq \in Nat
      /\ nextFrame # <<>> => nextFrame[1].seq \in Nat
      /\ \A i \in 1..Len(packetQueue) : packetQueue[i].seq \in Nat
    BY SeqNumbers DEF TypeInv
<1>2. CASE Still
    BY <1>2 DEF Still, Order, Behind
<1>3. CASE Picks
    <2>1. /\ encPc' = "push" /\ picked' = picked + 1 /\ hand'[1].seq = picked + 1
          /\ UNCHANGED <<nextFrame, work, packetQueue, written>>
        BY <1>3 DEF Picks
    <2> QED
        BY <1>1, <2>1 DEF Order, Behind
<1>4. CASE EncoderStart
    <2>1. /\ encPc' \in {"off", "exited"} /\ nextFrame' = <<>> /\ work' = <<>>
          /\ UNCHANGED <<packetQueue, written, picked>>
        BY <1>4 DEF EncoderStart, TypeInv, Calls, Gone
    <2> QED
        BY <2>1 DEF Order, Behind, Pushing
<1>5. CASE PushFrame
    <2>1. /\ encPc \in Pushing /\ encPc' = "read"
          /\ UNCHANGED <<work, packetQueue, written, picked>>
          /\ nextFrame' = nextFrame \/ nextFrame' = hand
        BY <1>5 DEF PushFrame, Pushing
    <2>2. encPc' \notin Pushing /\ encPc' # "write"
        BY <2>1 DEF Pushing
    <2>3. CASE nextFrame' = nextFrame
        BY <2>1, <2>2, <2>3 DEF Order, Behind
    <2>4. CASE nextFrame' = hand
        BY <2>1, <2>2, <2>4 DEF Order, Behind
    <2> QED
        BY <2>1, <2>3, <2>4
<1>6. CASE ReadData
    <2>1. UNCHANGED <<work, nextFrame, written, picked>>
        BY <1>6 DEF ReadData
    <2>2. CASE packetQueue' = packetQueue /\ encPc' = "loop"
        BY <2>1, <2>2 DEF Order, Behind, Pushing
    <2>3. CASE /\ packetQueue # <<>> /\ packetQueue' = Tail(packetQueue)
               /\ hand' = <<Head(packetQueue)>> /\ encPc' = "write"
        <3>1. /\ hand'[1] = packetQueue[1] /\ 1 \in 1..Len(packetQueue)
            BY <2>3, Holders, EmptySeq DEF TypeInv, DataOK
        <3>2. \A i \in 1..Len(packetQueue') :
                  /\ i + 1 \in 1..Len(packetQueue) /\ 1 < i + 1
                  /\ packetQueue'[i] = packetQueue[i + 1]
            BY <2>3 DEF TypeInv, DataOK
        <3>3. \A i, j \in 1..Len(packetQueue') : i < j => i + 1 < j + 1
            OBVIOUS
        <3>4. \A i, j \in 1..Len(packetQueue') : i < j =>
                  packetQueue'[i].seq < packetQueue'[j].seq
            BY <3>2, <3>3 DEF Order
        <3>5. \A i \in 1..Len(packetQueue') :
                  /\ written < packetQueue'[i].seq /\ packetQueue'[i].seq <= picked
                  /\ hand'[1].seq < packetQueue'[i].seq
            BY <3>1, <3>2 DEF Order
        <3>6. /\ Behind(work)' /\ Behind(nextFrame)'
            BY <2>1, <3>2 DEF Order, Behind
        <3>7. /\ written < hand'[1].seq /\ hand'[1].seq <= picked
              /\ \A q \in {work, nextFrame} : q # <<>> => hand'[1].seq < q[1].seq
            BY <3>1 DEF Order, Behind
        <3> QED
            BY <2>1, <2>3, <3>4, <3>5, <3>6, <3>7 DEF Order, Pushing
    <2> QED
        BY <1>6, <2>2, <2>3 DEF ReadData
<1>7. CASE WriteOutput
    <2>1. /\ encPc = "write" /\ encPc' = "loop" /\ written' = hand[1].seq
          /\ UNCHANGED <<nextFrame, work, packetQueue, picked>>
        BY <1>7 DEF WriteOutput
    <2>2. encPc' \notin Pushing /\ encPc' # "write"
        BY <2>1 DEF Pushing
    <2> QED
        BY <2>1, <2>2 DEF Order, Behind
<1>8. CASE Deliver
    <2>1. /\ work # <<>> /\ packetQueue' = packetQueue \o work /\ work' = <<>>
          /\ UNCHANGED <<hand, nextFrame, picked, written>>
          /\ encPc' \in Pushing <=> encPc \in Pushing
          /\ encPc' = "write" <=> encPc = "write"
        BY <1>8 DEF Deliver, Pushing
    <2>2. /\ Len(packetQueue') = Len(packetQueue) + 1 /\ Len(packetQueue) \in Nat
          /\ \A i \in 1..Len(packetQueue) : packetQueue'[i] = packetQueue[i]
          /\ packetQueue'[Len(packetQueue) + 1] = work[1]
        BY <2>1, Delivered DEF TypeInv, DataOK
    <2>3. \A i \in 1..Len(packetQueue') :
              \/ i \in 1..Len(packetQueue) /\ packetQueue'[i] = packetQueue[i]
              \/ i = Len(packetQueue) + 1 /\ packetQueue'[i] = work[1]
        BY <2>2
    <2>4. \A i \in 1..Len(packetQueue') :
              written < packetQueue'[i].seq /\ packetQueue'[i].seq <= picked
        BY <2>1, <2>3 DEF Order, Behind
    <2>5. \A i, j \in 1..Len(packetQueue') : i < j => packetQueue'[i].seq < packetQueue'[j].seq
        BY <2>1, <2>2, <2>3 DEF Order, Behind
    <2>6. Behind(nextFrame)'
        BY <2>1, <2>3 DEF Order, Behind
    <2>7. encPc \in Pushing => \A i \in 1..Len(packetQueue') : packetQueue'[i].seq < hand[1].seq
        BY <2>1, <2>3 DEF Order, Behind, TypeInv, InHand
    <2>8. encPc = "write" => \A i \in 1..Len(packetQueue') : hand[1].seq < packetQueue'[i].seq
        BY <2>1, <2>3 DEF Order
    <2> QED
        BY <2>1, <2>4, <2>5, <2>6, <2>7, <2>8 DEF Order, Behind
<1>9. CASE TakeFrame
    <2>1. /\ work' = nextFrame /\ nextFrame' = <<>>
          /\ UNCHANGED <<hand, packetQueue, picked, written>>
          /\ encPc' \in Pushing <=> encPc \in Pushing
          /\ encPc' = "write" <=> encPc = "write"
        BY <1>9 DEF TakeFrame, Pushing
    <2> QED
        BY <2>1 DEF Order, Behind
<1>10. CASE CodecRefuses
    <2>1. work' = <<>> /\ UNCHANGED <<hand, nextFrame, packetQueue, picked, written, encPc>>
        BY <1>10 DEF CodecRefuses
    <2> QED
        BY <2>1 DEF Order, Behind
<1> QED
    BY <1>2, <1>3, <1>4, <1>5, <1>6, <1>7, <1>8, <1>9, <1>10, Moves
-----------------------------------------------------------------------------
(* The theorems.                                                           *)

IndInv == TypeInv /\ Count /\ Order

\* Nothing has been started.
LEMMA InitInv == Init => IndInv
<1> SUFFICES ASSUME Init PROVE IndInv
    OBVIOUS
<1>1. DataOK
    BY BoundsAssumption DEF Init, DataOK, StartPcs, StopPcs, CapPcs, EncPcs, RunPcs
<1>2. FlagsOK
    BY DEF Init, FlagsOK
<1>3. Calls /\ Picture /\ InHand
    BY DEF Init, Calls, Picture, InHand, Pushing
<1>4. Count
    BY DEF Init, Count, Started, OnTheWay, Starting, Reading
<1>5. Order
    BY DEF Init, Order, Behind, Pushing
<1> QED
    BY <1>1, <1>2, <1>3, <1>4, <1>5 DEF IndInv, TypeInv

\* The inductive invariant: types, flags and pictures, the count of the frames on
\* their way and their order.
THEOREM Inductive == Spec => []IndInv
<1>1. IndInv /\ [Next]_vars => IndInv'
    BY DataStep, FlagsStep, CallsStep, PictureStep, FramesStep, CountStep, OrderStep
       DEF IndInv, TypeInv
<1> QED
    BY <1>1, InitInv, PTL DEF Spec

\* Every variable has its type; in particular every frame has the size of a mode.
THEOREM TypeCorrect == Spec => []TypeOK
<1>1. IndInv => TypeOK
    <2> SUFFICES ASSUME IndInv PROVE TypeOK
        OBVIOUS
    <2>1. \A q \in {hand, nextFrame, work, packetQueue} : \A i \in 1..Len(q) : q[i] \in Frames
        BY ElementOfSeq DEF IndInv, TypeInv, DataOK
    <2> QED
        BY <2>1 DEF IndInv, TypeInv, DataOK, FlagsOK, TypeOK
<1> QED
    BY <1>1, Inductive, PTL

\* A session leaves at most one packet behind.
THEOREM OneBehindCorrect == Spec => []OneBehindPerSession
<1>1. IndInv => OneBehindPerSession
    BY Numbers DEF IndInv, TypeInv, Count, Started, OnTheWay, OneBehindPerSession
<1> QED
    BY <1>1, Inductive, PTL

\* Packets leave the host in the order in which their frames were picked.
THEOREM OrderCorrect == Spec => WrittenInOrder
<1>1. IndInv /\ [Next]_vars => (written' # written => written' > written)
    <2> SUFFICES ASSUME IndInv, [Next]_vars, written' # written PROVE written' > written
        OBVIOUS
    <2>1. WriteOutput
        BY Moves DEF IndInv, Still, Picks, EncoderStart, PushFrame, ReadData, Deliver, TakeFrame,
           CodecRefuses
    <2>2. encPc = "write" /\ written' = hand[1].seq
        BY <2>1 DEF WriteOutput
    <2>3. hand # <<>> /\ written < hand[1].seq
        BY <2>2 DEF IndInv, TypeInv, InHand, Order
    <2>4. written \in Nat /\ hand[1].seq \in Nat
        BY <2>3, SeqNumbers DEF IndInv, TypeInv
    <2> QED
        BY <2>2, <2>3, <2>4
<1>2. IndInv /\ [Next]_vars => [written' # written => written' > written]_vars
    BY <1>1
<1> QED
    BY <1>2, Inductive, PTL DEF Spec, WrittenInOrder
-----------------------------------------------------------------------------
(* Who waits for whom: the safety that FrameIsWritten rests on.            *)

\* While the encoder runs, a thread that is asleep, or has decided to sleep, has a reason
\* to: loopEncoder_ waits for room only while nextFrame is taken and for a packet only
\* while there is none, run_ waits for a frame only while there is none; and, unless the
\* codec has refused a frame, run_ is there and a packet that is waited for is on its way,
\* in nextFrame, in the codec or in packetQueue.
Awake ==
    /\ encFlag =>
        /\ encPc \in {"pushBlock", "pushWait"} => nextFrame # <<>>
        /\ encPc \in {"readBlock", "readWait"} => packetQueue = <<>>
        /\ runPc \in {"takeBlock", "takeWait"} => nextFrame = <<>>
        /\ encPc \in Reading /\ ~refused =>
                nextFrame # <<>> \/ work # <<>> \/ packetQueue # <<>>
        /\ Gone(runPc) => refused
    /\ runPc \in {"take", "takeBlock", "takeWait"} => work = <<>>
    /\ refused => runPc = "exited" /\ work = <<>>

\* The two threads of the encoder never wait for each other.
NotBothAsleep == encFlag => ~(encPc \in {"pushWait", "readWait"} /\ runPc = "takeWait")

\* Every step keeps it: who takes away the reason to sleep wakes the sleeper, and who has
\* only decided to sleep holds the lock.
LEMMA AwakeStep == TypeInv /\ Awake /\ [Next]_vars => Awake'
<1> SUFFICES ASSUME TypeInv, Awake, [Next]_vars PROVE Awake'
    OBVIOUS
<1> USE DEF Awake, Reading, Gone
<1>1. CASE UNCHANGED vars
    BY <1>1 DEF vars, ctlVars, startVars, flagVars, frameVars
<1>2. CASE SetEncoderMode \/ StartFlag \/ JoinCapture \/ JoinEncode \/ EncoderNotStopped
    BY <1>2 DEF SetEncoderMode, StartFlag, JoinCapture, JoinEncode, EncoderNotStopped, frameVars,
       ctlVars, flagVars
<1>3. CASE EncoderStart \/ StartThreads
    BY <1>3 DEF EncoderStart, StartThreads, TypeInv, Calls, frameVars, flagVars
<1>4. CASE EndStream \/ StopFlag \/ StopEncoder
    BY <1>4 DEF EndStream, StopFlag, StopEncoder, frameVars
<1>5. CASE StopNotify
    BY <1>5 DEF StopNotify, frameVars, flagVars
<1>6. CASE CaptureThread
    BY <1>6 DEF CaptureThread, CaptureLoop, CaptureFrame, ctlVars, startVars, flagVars, frameVars
<1>7. CASE EncodeLoop \/ PushBlock \/ ReadBlock
    BY <1>7 DEF EncodeLoop, PushBlock, ReadBlock, ctlVars, startVars, flagVars, frameVars
<1>8. CASE PickFrame
    BY <1>8 DEF PickFrame, ctlVars, startVars, flagVars
<1>9. CASE PushFrame
    BY <1>9 DEF PushFrame, FrameLockFree, TypeInv, InHand, Pushing, ctlVars, startVars, flagVars
<1>10. CASE ReadData \/ WriteOutput
    BY <1>10 DEF ReadData, WriteOutput, ctlVars, startVars, flagVars
<1>11. CASE RunLoop \/ TakeBlock \/ TakeStopped \/ CheckFrame \/ CodecRefuses
    BY <1>11 DEF RunLoop, TakeBlock, TakeStopped, CheckFrame, CodecRefuses, ctlVars, startVars, flagVars, frameVars
<1>12. CASE Deliver
    <2>1. packetQueue' # <<>>
        BY <1>12, Delivered, EmptySeq DEF Deliver, TypeInv, DataOK
    <2> QED
        BY <1>12, <2>1 DEF Deliver, PacketLockFree, ctlVars, startVars, flagVars
<1>13. CASE TakeFrame
    BY <1>13 DEF TakeFrame, FrameLockFree, ctlVars, startVars, flagVars
<1>14. CASE Sleep
    BY <1>14 DEF Sleep, ctlVars, startVars, flagVars, frameVars
<1>15. CASE SpuriousWake
    BY <1>15 DEF SpuriousWake, ctlVars, startVars, flagVars, frameVars
<1> QED
    BY <1>1, <1>2, <1>3, <1>4, <1>5, <1>6, <1>7, <1>8, <1>9, <1>10, <1>11, <1>12, <1>13, <1>14,
       <1>15 DEF Next, Caller, Start, Stop, EncodeThread, RunThread

\* No wakeup is lost between loopEncoder_ and run_ while the encoder runs, although stop()
\* notifies without a lock and may overlap the next start(); only a codec that refuses a
\* frame leaves loopEncoder_ waiting.
THEOREM AwakeCorrect == Spec => []Awake
<1>1. Init => Awake
    BY DEF Init, Awake, Gone
<1>2. IndInv /\ Awake /\ [Next]_vars => Awake'
    BY AwakeStep DEF IndInv
<1> QED
    BY <1>1, <1>2, Inductive, PTL DEF Spec

\* The encoder does not stop by both threads waiting.
THEOREM NoDeadlock == Spec => []NotBothAsleep
<1>1. Awake => NotBothAsleep
    BY DEF Awake, NotBothAsleep, Reading, Gone
<1> QED
    BY <1>1, AwakeCorrect, PTL
-----------------------------------------------------------------------------
(* What ends the process, and what hangs it.                               *)

\* The pipeline is configured with the same mode in every session.
SameMode == [][encMode # NoMode => UNCHANGED encMode]_vars

\* No start overlaps a stop.
Alone == startPc = "idle" \/ stopPc = "idle"

\* The flags, as a start and a stop that do not overlap leave them.
Turns ==
    /\ Alone
    /\ startPc = "idle" /\ stopPc = "idle" => (flagRun <=> streaming) /\ (encFlag <=> streaming)
    /\ startPc # "idle" => streaming
    /\ stopPc # "idle" => ~streaming
    /\ startPc \in {"joinCapture", "joinEncode", "joinRun", "spawn"} => flagRun
    /\ startPc = "spawn" => encFlag
    /\ startPc = "flag" \/ stopPc \in {"encoder", "notify"} => ~flagRun
    /\ startPc \in Starting \/ stopPc = "notify" => ~encFlag
    /\ stopPc = "flag" => flagRun
    /\ stopPc \in {"flag", "encoder"} => encFlag

\* Every step keeps them, as long as a start and a stop do not overlap.
LEMMA TurnsStep == TypeInv /\ Turns /\ [Next]_vars /\ Alone' => Turns'
<1> SUFFICES ASSUME TypeInv, Turns, [Next]_vars, Alone' PROVE Turns'
    OBVIOUS
<1> USE DEF Turns, Starting, startVars, flagVars
<1>1. CASE UNCHANGED vars
    BY <1>1 DEF vars, ctlVars
<1>2. CASE SetEncoderMode \/ StartFlag
    BY <1>2 DEF SetEncoderMode, StartFlag, Alone
<1>3. CASE JoinCapture \/ JoinEncode \/ EncoderStart
    BY <1>3 DEF JoinCapture, JoinEncode, EncoderStart, Alone
<1>4. CASE EncoderNotStopped \/ StartThreads
    BY <1>4 DEF EncoderNotStopped, StartThreads, ctlVars, Alone
<1>5. CASE EndStream \/ StopFlag
    BY <1>5 DEF EndStream, StopFlag, Alone
<1>6. CASE StopEncoder \/ StopNotify
    BY <1>6 DEF StopEncoder, StopNotify, Alone
<1>7. CASE CaptureThread
    BY <1>7 DEF CaptureThread, CaptureLoop, CaptureFrame, ctlVars
<1>8. CASE EncodeThread
    BY <1>8 DEF EncodeThread, EncodeLoop, PickFrame, PushBlock, PushFrame, ReadBlock, ReadData,
       WriteOutput, ctlVars
<1>9. CASE RunThread
    BY <1>9 DEF RunThread, RunLoop, Deliver, TakeBlock, TakeFrame, TakeStopped, CheckFrame,
       CodecRefuses, ctlVars
<1>10. CASE Sleep \/ SpuriousWake
    BY <1>10 DEF Sleep, SpuriousWake, ctlVars
<1> QED
    BY <1>1, <1>2, <1>3, <1>4, <1>5, <1>6, <1>7, <1>8, <1>9, <1>10 DEF Next, Caller, Start, Stop

\* The picture, and each frame up to the encoder's check, has the encoder's size.
Sizes ==
    /\ scaleMode = encMode
    /\ tex \in {NoMode, encMode}
    /\ encPc \in Pushing => hand[1].mode = encMode
    /\ nextFrame # <<>> => nextFrame[1].mode = encMode
    /\ work # <<>> => work[1].mode = encMode
    /\ ~crashed

\* Every step keeps the sizes if the mode stays the same and nothing overlaps.
LEMMA SizesStep ==
    TypeInv /\ Turns /\ Sizes /\ [Next]_vars /\ [encMode # NoMode => UNCHANGED encMode]_vars
        => Sizes'
<1> SUFFICES ASSUME TypeInv, Turns, Sizes, [Next]_vars,
                    [encMode # NoMode => UNCHANGED encMode]_vars
             PROVE  Sizes'
    OBVIOUS
<1>1. \A q \in {hand, nextFrame, work} : q # <<>> => q[1].mode \in Modes
    <2>1. \A q \in Seq(Frames) : q # <<>> => Head(q) = q[1] /\ Head(q) \in Frames
        BY Holders
    <2> QED
        BY <2>1 DEF TypeInv, DataOK, Frames
<1>2. CASE SetEncoderMode
    <2>1. PICK m \in Modes : scaleMode' = m /\ encMode' = m
        BY <1>2 DEF SetEncoderMode
    <2>2. UNCHANGED <<encPc, tex, hand, nextFrame, work, crashed>>
        BY <1>2 DEF SetEncoderMode, imageVars, frameVars
    <2>3. CASE encMode # NoMode
        <3>1. encMode' = encMode
            BY <2>3 DEF vars, modeVars
        <3> QED
            BY <2>1, <2>2, <3>1 DEF Sizes
    <2>4. CASE encMode = NoMode
        <3>1. tex = NoMode /\ encPc \notin Pushing /\ nextFrame = <<>> /\ work = <<>>
            BY <1>1, <2>4, NoModeAssumption DEF Sizes, TypeInv, InHand
        <3> QED
            BY <2>1, <2>2, <3>1 DEF Sizes
    <2> QED
        BY <2>3, <2>4
<1>3. CASE CaptureFrame
    BY <1>3 DEF CaptureFrame, Scale, Sizes, modeVars, imageVars, frameVars
<1>4. CASE PickFrame
    BY <1>4, NoModeAssumption DEF PickFrame, Sizes, modeVars, TypeInv, Picture, Pushing
<1>5. CASE PushFrame
    BY <1>5 DEF PushFrame, Sizes, modeVars, imageVars, Pushing
<1>6. CASE EncodeLoop \/ PushBlock \/ ReadBlock \/ ReadData \/ WriteOutput
    BY <1>6 DEF EncodeLoop, PushBlock, ReadBlock, ReadData, WriteOutput, Sizes, modeVars, imageVars,
       frameVars, Pushing
<1>7. CASE Deliver \/ TakeFrame
    BY <1>7 DEF Deliver, TakeFrame, Sizes, modeVars, imageVars, Pushing
<1>8. CASE CheckFrame
    BY <1>8 DEF CheckFrame, Sizes, modeVars, imageVars, frameVars, TypeInv, InHand
<1>9. CASE RunLoop \/ TakeBlock \/ TakeStopped \/ CodecRefuses \/ CaptureLoop
    BY <1>9 DEF RunLoop, TakeBlock, TakeStopped, CodecRefuses, CaptureLoop, Sizes, modeVars,
       imageVars, frameVars
<1>10. CASE \/ StartFlag \/ JoinCapture \/ JoinEncode \/ EncoderNotStopped
            \/ EndStream \/ StopFlag \/ StopEncoder
    <2>1. ~crashed'
        BY <1>10 DEF StartFlag, JoinCapture, JoinEncode, EncoderNotStopped, EndStream, StopFlag,
           StopEncoder, Turns, Starting, Sizes
    <2>2. UNCHANGED <<encPc, modeVars, imageVars, frameVars>>
        BY <1>10 DEF StartFlag, JoinCapture, JoinEncode, EncoderNotStopped, EndStream, StopFlag,
           StopEncoder
    <2> QED
        BY <2>1, <2>2 DEF Sizes, modeVars, imageVars, frameVars
<1>11. CASE EncoderStart \/ StartThreads \/ StopNotify
    BY <1>11 DEF EncoderStart, StartThreads, StopNotify, Sizes, modeVars, imageVars, frameVars, Pushing
<1>12. CASE Sleep \/ SpuriousWake
    BY <1>12 DEF Sleep, SpuriousWake, Sizes, modeVars, imageVars, frameVars, Pushing
<1>13. CASE UNCHANGED vars
    BY <1>13 DEF vars, Sizes, modeVars, imageVars, frameVars
<1> QED
    BY <1>2, <1>3, <1>4, <1>5, <1>6, <1>7, <1>8, <1>9, <1>10, <1>11, <1>12, <1>13
       DEF Next, Caller, Start, Stop, CaptureThread, EncodeThread, RunThread

\* An assertion of the pipeline and its encoder ends the process only after a change of the
\* mode between two sessions ("Frame size does not match configuration!") or an overlap of a
\* start and a stop, which StreamServer does not prevent.
THEOREM NoCrash == Spec /\ SameMode /\ []Alone => []~crashed
<1>1. Init => Sizes /\ Turns
    BY DEF Init, Sizes, Pushing, Turns, Starting, Alone
<1>2. /\ IndInv /\ Turns /\ Sizes /\ [Next]_vars
      /\ [encMode # NoMode => UNCHANGED encMode]_vars /\ Alone'
      => Sizes' /\ Turns'
    BY SizesStep, TurnsStep DEF IndInv
<1>3. Sizes => ~crashed
    BY DEF Sizes
<1> QED
    BY <1>1, <1>2, <1>3, Inductive, PTL DEF Spec, SameMode

\* start() has set flagRun before a thread of the previous session saw that it was
\* cleared: that thread goes on, and start() joins it.
Stuck ==
    /\ flagRun
    /\ \/ startPc = "joinCapture" /\ ~Gone(capPc)
       \/ startPc \in {"joinCapture", "joinEncode"} /\ ~Gone(encPc)

\* A thread that calls neither a join that returns nor StopFlag leaves it so.
LEMMA StuckCaller ==
    ASSUME Stuck, Caller, ~StopFlag
    PROVE  Stuck'
<1>1. startPc \in {"joinCapture", "joinEncode"}
    BY DEF Stuck
<1>2. CASE JoinCapture \/ JoinEncode
    <2>1. UNCHANGED <<flagRun, capPc, encPc>>
        BY <1>2 DEF JoinCapture, JoinEncode, flagVars
    <2>2. startPc' = "joinEncode" /\ ~Gone(encPc)
        BY <1>2 DEF JoinCapture, JoinEncode, Stuck
    <2> QED
        BY <2>1, <2>2 DEF Stuck, Gone
<1>3. CASE EndStream \/ StopEncoder
    BY <1>3 DEF EndStream, StopEncoder, startVars, Stuck, Gone
<1>4. CASE StopNotify
    <2>1. UNCHANGED <<flagRun, capPc, startPc>> /\ (Gone(encPc') <=> Gone(encPc))
        BY <1>4 DEF StopNotify, startVars, flagVars, Gone
    <2> QED
        BY <2>1 DEF Stuck, Gone
<1> QED
    BY <1>1, <1>2, <1>3, <1>4 DEF Caller, Start, Stop, SetEncoderMode, StartFlag, EncoderStart,
       EncoderNotStopped, StartThreads

\* The threads leave the flags alone, and do not end while flagRun is set.
LEMMA StuckThreads ==
    ASSUME flagRun,
           CaptureThread \/ EncodeThread \/ RunThread \/ Sleep \/ SpuriousWake
    PROVE  /\ UNCHANGED <<startPc, flagRun>>
           /\ Gone(capPc') => Gone(capPc)
           /\ Gone(encPc') => Gone(encPc)
<1> USE DEF Gone, ctlVars, startVars, flagVars
<1>1. CASE CaptureThread
    BY <1>1 DEF CaptureThread, CaptureLoop, CaptureFrame
<1>2. CASE EncodeThread
    BY <1>2 DEF EncodeThread, EncodeLoop, PickFrame, PushBlock, PushFrame, ReadBlock, ReadData,
       WriteOutput
<1>3. CASE RunThread
    BY <1>3 DEF RunThread, RunLoop, Deliver, TakeBlock, TakeFrame, TakeStopped, CheckFrame,
       CodecRefuses
<1>4. CASE Sleep \/ SpuriousWake
    BY <1>4 DEF Sleep, SpuriousWake
<1> QED
    BY <1>1, <1>2, <1>3, <1>4

\* Such a start() never returns, whatever the threads do, unless another thread stops the
\* pipeline meanwhile.
THEOREM StartHangs ==
    Spec /\ [][~StopFlag]_vars => [](Stuck => [](startPc \in {"joinCapture", "joinEncode"}))
<1>1. Stuck /\ [Next]_vars /\ [~StopFlag]_vars => Stuck'
    <2>1. ASSUME Stuck, UNCHANGED vars PROVE Stuck'
        BY <2>1 DEF vars, ctlVars, startVars, flagVars, Stuck, Gone
    <2>2. ASSUME Stuck, CaptureThread \/ EncodeThread \/ RunThread \/ Sleep \/ SpuriousWake
          PROVE  Stuck'
        <3>1. /\ UNCHANGED <<startPc, flagRun>>
              /\ Gone(capPc') => Gone(capPc)
              /\ Gone(encPc') => Gone(encPc)
            BY <2>2, StuckThreads DEF Stuck
        <3> QED
            BY <2>2, <3>1 DEF Stuck, Gone
    <2> QED
        BY <2>1, <2>2, StuckCaller DEF Next
<1>2. Stuck => startPc \in {"joinCapture", "joinEncode"}
    BY DEF Stuck
<1> QED
    BY <1>1, <1>2, PTL DEF Spec

\* The codec has refused a frame, and loopEncoder_ waits for a packet: there is none, and
\* run_ has ended.
Stalled == encFlag /\ refused /\ encPc \in Reading /\ packetQueue = <<>>

\* Nothing but a stop, or the end of the process, gets loopEncoder_ out of that wait: the
\* stream stands still although the encoder counts as running.
THEOREM RefusalStalls == Spec => [][Stalled => Stalled' \/ StopEncoder]_vars
<1>1. IndInv /\ Awake /\ [Next]_vars /\ Stalled => Stalled' \/ StopEncoder
    <2> SUFFICES ASSUME IndInv, Awake, [Next]_vars, Stalled, ~StopEncoder PROVE Stalled'
        OBVIOUS
    <2> USE DEF Stalled, Reading
    <2>1. runPc = "exited" /\ work = <<>>
        BY DEF Awake
    <2>2. startPc # "spawn"
        BY DEF IndInv, TypeInv, Calls, Gone
    <2>3. CASE UNCHANGED vars
        BY <2>3 DEF vars, ctlVars, flagVars, frameVars
    <2>4. CASE SetEncoderMode \/ Start
        BY <2>2, <2>4 DEF SetEncoderMode, Start, StartFlag, JoinCapture, JoinEncode, EncoderStart,
           EncoderNotStopped, StartThreads, ctlVars, flagVars, frameVars
    <2>5. CASE EndStream \/ StopFlag \/ StopNotify
        BY <2>5 DEF EndStream, StopFlag, StopNotify, flagVars, frameVars
    <2>6. CASE CaptureThread
        BY <2>6 DEF CaptureThread, CaptureLoop, CaptureFrame, ctlVars, flagVars, frameVars
    <2>7. CASE EncodeThread
        BY <2>7 DEF EncodeThread, EncodeLoop, PickFrame, PushBlock, PushFrame, ReadBlock, ReadData,
           WriteOutput, ctlVars, flagVars, frameVars
    <2>8. CASE RunThread
        BY <2>1, <2>8 DEF RunThread, RunLoop, Deliver, TakeBlock, TakeFrame, TakeStopped,
           CheckFrame, CodecRefuses
    <2>9. CASE Sleep \/ SpuriousWake
        BY <2>9 DEF Sleep, SpuriousWake, ctlVars, flagVars, frameVars
    <2> QED
        BY <2>3, <2>4, <2>5, <2>6, <2>7, <2>8, <2>9 DEF Next, Caller, Stop
<1>2. IndInv /\ Awake /\ [Next]_vars => [Stalled => Stalled' \/ StopEncoder]_vars
    BY <1>1
<1> QED
    BY <1>2, Inductive, AwakeCorrect, PTL DEF Spec
-----------------------------------------------------------------------------
(* CaptureD3D, where the pictures come from: module Capture, whose threads *)
(* are renamed here because Pipeline models some of them as well.          *)

VARIABLES
    streamer,       \* ctl of Capture
    querier,        \* other of Capture
    reader,         \* capPc of Capture
    picker,         \* encPc of Capture
    screenRun,      \* flagRun of Capture
    hasDesktop,     \* lastDesktop of Capture
    hasFirst,       \* firstFrame of Capture
    streams,        \* sessions of Capture
    alone,          \* as in Capture
    screenDied      \* crashed of Capture

Screen == INSTANCE Capture WITH ctl <- streamer, other <- querier, capPc <- reader,
              encPc <- picker, flagRun <- screenRun, lastDesktop <- hasDesktop,
              firstFrame <- hasFirst, sessions <- streams, crashed <- screenDied

\* The flags of CaptureD3D and of its users are Booleans.
ScreenFlags ==
    /\ screenRun \in BOOLEAN /\ output \in BOOLEAN /\ stale \in BOOLEAN
    /\ frameAcquired \in BOOLEAN /\ sentFirstFrame \in BOOLEAN /\ hasDesktop \in BOOLEAN
    /\ hasFirst \in BOOLEAN /\ alone \in BOOLEAN /\ screenDied \in BOOLEAN

\* Between its release of the last frame and the end of the read, readD3D has none; and
\* the frame it is about to take is that of the object it has now, unless a connection
\* came in between.
ReadInv ==
    /\ reader \in {"acquire", "acquired"} => ~frameAcquired
    /\ reader = "acquired" /\ ~stale => dup = "used"

\* A stream that was configured when no capture thread was left and that has not had its
\* first picture yet: none was sent of this duplication, and the next frame that is
\* acquired comes at once, because the object is new or still to be opened; or the
\* capture thread has just acquired it.
FirstPictureComing ==
    streamer = "running" /\ alone /\ ~hasFirst /\ ~hasDesktop =>
        /\ ~sentFirstFrame
        /\ dup = "used" => reader = "acquired"

\* From the configuration to the start of the stream nobody reads.
Configured ==
    streamer \in {"start", "join"} /\ alone /\ ~screenDied =>
        reader \in {"off", "exited"} /\ ~sentFirstFrame /\ dup # "used"

ScreenInv == ScreenFlags /\ ReadInv /\ FrameOfDuplication /\ Configured /\ FirstPictureComing

\* A request for the host's modes replaces the objects, or ends the process.
Replaces ==
    \/ /\ dup' # "used" /\ ~frameAcquired' /\ ~sentFirstFrame'
       /\ stale' <=> stale \/ reader \in {"read", "acquire", "acquired"}
    \/ screenDied' /\ UNCHANGED <<dup, frameAcquired, sentFirstFrame, stale>>

\* What the calls of such a request do to the objects.
LEMMA Queries ==
    ASSUME NEW rival,
           Screen!InitCapture(rival) \/ Screen!OpenCapture(rival) \/ Screen!CurrentMode(rival)
    PROVE  Replaces
<1>1. ASSUME Screen!Released(rival)
      PROVE  stale' <=> stale \/ reader \in {"read", "acquire", "acquired"}
    BY <1>1 DEF Screen!Released, Screen!Reading
<1>2. CASE Screen!InitCapture(rival)
    BY <1>1, <1>2 DEF Screen!InitCapture, Screen!Opened, Replaces
<1>3. CASE Screen!OpenCapture(rival)
    BY <1>1, <1>3 DEF Screen!OpenCapture, Screen!Opened, Replaces
<1>4. CASE Screen!CurrentMode(rival)
    BY <1>1, <1>4 DEF Screen!CurrentMode, Screen!Opened, Replaces
<1> QED
    BY <1>2, <1>3, <1>4

\* The flags are Booleans after such a call.
LEMMA QueryFlags ==
    ASSUME ScreenFlags, NEW rival,
           Screen!InitCapture(rival) \/ Screen!OpenCapture(rival) \/ Screen!CurrentMode(rival)
    PROVE  /\ output' \in BOOLEAN /\ screenDied' \in BOOLEAN /\ stale' \in BOOLEAN
           /\ frameAcquired' \in BOOLEAN /\ sentFirstFrame' \in BOOLEAN
<1> USE DEF ScreenFlags
<1>1. ASSUME Screen!Released(rival) PROVE screenDied' \in BOOLEAN /\ stale' \in BOOLEAN
    BY <1>1 DEF Screen!Released
<1>2. ASSUME NEW d, Screen!Opened(d)
      PROVE  frameAcquired' \in BOOLEAN /\ sentFirstFrame' \in BOOLEAN
    BY <1>2 DEF Screen!Opened
<1>3. CASE Screen!InitCapture(rival) \/ Screen!OpenCapture(rival)
    BY <1>1, <1>2, <1>3 DEF Screen!InitCapture, Screen!OpenCapture
<1>4. CASE Screen!CurrentMode(rival)
    BY <1>1, <1>2, <1>4 DEF Screen!CurrentMode
<1> QED
    BY <1>3, <1>4

\* Every step keeps the flags Booleans.
LEMMA ScreenFlagsStep == ScreenFlags /\ [Screen!Next]_(Screen!vars) => ScreenFlags'
<1> SUFFICES ASSUME ScreenFlags, [Screen!Next]_(Screen!vars) PROVE ScreenFlags'
    OBVIOUS
<1> USE DEF ScreenFlags, Screen!ctlVars, Screen!encVars, Screen!dupVars
<1>1. CASE UNCHANGED Screen!vars
    BY <1>1 DEF Screen!vars
<1>2. CASE Screen!OtherQueries \/ Screen!QueryHostCaps \/ Screen!Configure
    <2>1. /\ output' \in BOOLEAN /\ screenDied' \in BOOLEAN
          /\ stale' \in BOOLEAN /\ frameAcquired' \in BOOLEAN /\ sentFirstFrame' \in BOOLEAN
        BY <1>2, QueryFlags DEF Screen!OtherQueries, Screen!QueryHostCaps, Screen!Configure
    <2>2. UNCHANGED <<hasFirst, screenRun, hasDesktop>>
        BY <1>2 DEF Screen!OtherQueries, Screen!QueryHostCaps, Screen!Configure
    <2>3. alone' \in BOOLEAN
        <3>1. CASE Screen!OtherQueries \/ Screen!QueryHostCaps
            BY <3>1 DEF Screen!OtherQueries, Screen!QueryHostCaps
        <3>2. CASE Screen!Configure
            <4>1. alone' = Screen!Gone(reader)
                BY <3>2 DEF Screen!Configure
            <4>2. Screen!Gone(reader) \in BOOLEAN
                BY DEF Screen!Gone
            <4> QED
                BY <4>1, <4>2
        <3> QED
            BY <1>2, <3>1, <3>2
    <2> QED
        BY <2>1, <2>2, <2>3
<1>3. CASE Screen!StartFlag \/ Screen!StartThreads \/ Screen!StopFlag
    BY <1>3 DEF Screen!StartFlag, Screen!StartThreads, Screen!StopFlag
<1>4. CASE Screen!StopCapture
    BY <1>4 DEF Screen!StopCapture, Screen!Released
<1>5. CASE Screen!CaptureLoop \/ Screen!ReadWithoutOutput \/ Screen!AcquireNothing
    BY <1>5 DEF Screen!CaptureLoop, Screen!ReadWithoutOutput, Screen!AcquireNothing
<1>6. CASE Screen!ReadOpens \/ Screen!ReadDenied \/ Screen!ReleaseLost
    BY <1>6 DEF Screen!ReadOpens, Screen!ReadDenied, Screen!ReleaseLost, Screen!Opened
<1>7. CASE Screen!ReleaseFrame \/ Screen!AcquireLost \/ Screen!AcquireNext
    BY <1>7 DEF Screen!ReleaseFrame, Screen!AcquireLost, Screen!AcquireNext
<1>8. ASSUME NEW presented \in BOOLEAN, Screen!TakeFrame(presented) PROVE ScreenFlags'
    BY <1>8 DEF Screen!TakeFrame
<1>9. CASE Screen!Encode
    BY <1>9 DEF Screen!Encode, Screen!EncodeLoop, Screen!EncodePick
<1> QED
    BY <1>1, <1>2, <1>3, <1>4, <1>5, <1>6, <1>7, <1>8, <1>9
       DEF Screen!Next, Screen!Connection, Screen!Read

\* Every step keeps the frame with its object: a connection that replaces the object
\* forgets the frame, and makes a read that is under way stale.
LEMMA ScreenStep == ScreenInv /\ [Screen!Next]_(Screen!vars) => ScreenInv'
<1> SUFFICES ASSUME ScreenInv, [Screen!Next]_(Screen!vars) PROVE ScreenInv'
    OBVIOUS
<1> DEFINE Rest == ReadInv /\ FrameOfDuplication /\ Configured /\ FirstPictureComing
<1> USE DEF ScreenInv, ReadInv, FrameOfDuplication, Releasable, Configured, FirstPictureComing
<1>1. CASE UNCHANGED Screen!vars
    BY <1>1 DEF Screen!vars, Screen!ctlVars, Screen!encVars, Screen!dupVars, ScreenFlags
<1>2. ASSUME Screen!Next PROVE ~screenDied
    BY <1>2 DEF Screen!Next
<1>3. ASSUME Screen!Next, Screen!OtherQueries PROVE Rest'
    <2>1. UNCHANGED <<streamer, reader, hasFirst, hasDesktop, alone>>
        BY <1>3 DEF Screen!OtherQueries, Screen!encVars
    <2>2. Replaces
        BY <1>3, Queries DEF Screen!OtherQueries
    <2> QED
        BY <1>2, <1>3, <2>1, <2>2 DEF Replaces
<1>4. ASSUME Screen!QueryHostCaps PROVE Rest'
    <2>1. UNCHANGED reader /\ streamer' \in {"open", "mode", "configure"}
        BY <1>4 DEF Screen!QueryHostCaps
    <2>2. Replaces
        BY <1>4, Queries DEF Screen!QueryHostCaps
    <2> QED
        BY <2>1, <2>2 DEF Replaces
<1>5. ASSUME Screen!Configure PROVE Rest'
    <2>1. UNCHANGED reader /\ streamer' = "start" /\ (alone' <=> reader \in {"off", "exited"})
        BY <1>5 DEF Screen!Configure, Screen!Gone
    <2>2. Replaces
        BY <1>5, Queries DEF Screen!Configure
    <2> QED
        BY <2>1, <2>2 DEF Replaces
<1>6. ASSUME Screen!Next /\ Screen!StartFlag PROVE Rest'
    BY <1>2, <1>6 DEF Screen!StartFlag, Screen!encVars, Screen!dupVars
<1>7. ASSUME Screen!Next /\ Screen!StartThreads PROVE Rest'
    BY <1>2, <1>7 DEF Screen!StartThreads
<1>8. ASSUME Screen!StopFlag PROVE Rest'
    BY <1>8 DEF Screen!StopFlag, Screen!encVars, Screen!dupVars
<1>9. ASSUME Screen!StopCapture PROVE Rest'
    <2>1. /\ dup' = "none" /\ ~frameAcquired' /\ streamer' = "idle" /\ UNCHANGED reader
        BY <1>9 DEF Screen!StopCapture
    <2>2. reader \in {"acquire", "acquired"} => stale'
        BY <1>9 DEF Screen!StopCapture, Screen!Released, Screen!Reading, Screen!Releasable
    <2> QED
        BY <2>1, <2>2
<1>10. ASSUME Screen!CaptureLoop PROVE Rest'
    BY <1>10 DEF Screen!CaptureLoop, Screen!dupVars, Screen!ctlVars, Screen!encVars
<1>11. ASSUME Screen!ReadWithoutOutput \/ Screen!AcquireNothing PROVE Rest'
    BY <1>11 DEF Screen!ReadWithoutOutput, Screen!AcquireNothing, Screen!dupVars, Screen!ctlVars,
       Screen!encVars
<1>12. ASSUME Screen!ReadOpens \/ Screen!ReadDenied PROVE Rest'
    BY <1>12 DEF Screen!ReadOpens, Screen!ReadDenied, Screen!Opened, Screen!ctlVars,
       Screen!encVars
<1>13. ASSUME Screen!ReleaseLost PROVE Rest'
    BY <1>13 DEF Screen!ReleaseLost, Screen!Opened, Screen!ctlVars, Screen!encVars
<1>14. ASSUME Screen!Next, Screen!ReleaseFrame PROVE Rest'
    <2>1. /\ UNCHANGED <<streamer, hasFirst, hasDesktop, alone, dup, sentFirstFrame>>
          /\ reader = "read" /\ reader' = "acquire" /\ ~frameAcquired'
        BY <1>14 DEF Screen!ReleaseFrame, Screen!ctlVars, Screen!encVars
    <2>2. ~screenDied
        BY <1>2, <1>14
    <2> QED
        BY <2>1, <2>2
<1>15. ASSUME Screen!AcquireLost \/ Screen!AcquireNext PROVE Rest'
    BY <1>15 DEF Screen!AcquireLost, Screen!AcquireNext, Screen!ctlVars, Screen!encVars
<1>16. ASSUME NEW presented \in BOOLEAN, Screen!TakeFrame(presented) PROVE Rest'
    BY <1>16 DEF Screen!TakeFrame, Screen!ctlVars, Screen!encVars
<1>17. ASSUME Screen!Encode PROVE Rest'
    <2>1. /\ UNCHANGED <<streamer, reader, output, dup, frameAcquired, sentFirstFrame, stale, alone>>
          /\ screenDied' = screenDied
        BY <1>17 DEF Screen!Encode, Screen!EncodeLoop, Screen!EncodePick, Screen!dupVars,
           Screen!ctlVars
    <2>2. ~hasFirst' /\ ~hasDesktop' => ~hasFirst /\ ~hasDesktop
        BY <1>17 DEF Screen!Encode, Screen!EncodeLoop, Screen!EncodePick
    <2> QED
        BY <2>1, <2>2
<1> QED
    BY ScreenFlagsStep, <1>1, <1>3, <1>4, <1>5, <1>6, <1>7, <1>8, <1>9, <1>10, <1>11, <1>12, <1>13, <1>14, <1>15,
       <1>16, <1>17 DEF Screen!Next, Screen!Connection, Screen!Read

\* The inductive invariant of CaptureD3D and its users.
THEOREM ScreenInductive == Screen!Spec => []ScreenInv
<1>1. Screen!Init => ScreenInv
    BY DEF Screen!Init, ScreenInv, ScreenFlags, ReadInv, FrameOfDuplication, Releasable, Configured,
       FirstPictureComing
<1> QED
    BY <1>1, ScreenStep, PTL DEF Screen!Spec

\* CaptureD3D gives a frame back only to the object it came from, whatever the
\* connections do to that object between the reads.
THEOREM DuplicationCorrect == Screen!Spec => []FrameOfDuplication
<1>1. ScreenInv => FrameOfDuplication
    BY DEF ScreenInv
<1> QED
    BY <1>1, ScreenInductive, PTL

\* The first picture of a stream is never waited for with an object that has nothing to
\* give until the screen changes: what FirstPicture needs besides fair scheduling.
THEOREM FirstPictureSafe == Screen!Spec => []FirstPictureComing
<1>1. ScreenInv => FirstPictureComing
    BY DEF ScreenInv
<1> QED
    BY <1>1, ScreenInductive, PTL

\* Where the threads are, and what the duplication is.
Places ==
    /\ streamer \in {"idle", "open", "mode", "configure", "start", "join", "running", "stop"}
    /\ querier \in {"idle", "open", "mode"}
    /\ reader \in {"off", "loop", "read", "acquire", "acquired", "exited"}
    /\ picker \in {"off", "loop", "pick", "exited"}
    /\ dup \in {"none", "new", "used"} /\ streams \in 0..MaxSessions

\* Every step keeps that.
LEMMA PlacesStep == Places /\ [Screen!Next]_(Screen!vars) => Places'
<1> SUFFICES ASSUME Places, [Screen!Next]_(Screen!vars) PROVE Places'
    OBVIOUS
<1> USE DEF Places, Screen!ctlVars, Screen!encVars, Screen!dupVars
<1>1. CASE UNCHANGED Screen!vars
    BY <1>1 DEF Screen!vars
<1>2. ASSUME NEW rival,
             Screen!InitCapture(rival) \/ Screen!OpenCapture(rival) \/ Screen!CurrentMode(rival)
      PROVE  dup' \in {"none", "new", "used"}
    BY <1>2 DEF Screen!InitCapture, Screen!OpenCapture, Screen!CurrentMode, Screen!Opened
<1>3. CASE Screen!OtherQueries
    BY <1>2, <1>3 DEF Screen!OtherQueries
<1>4. CASE Screen!QueryHostCaps \/ Screen!Configure
    BY <1>2, <1>4 DEF Screen!QueryHostCaps, Screen!Configure
<1>5. CASE Screen!StartFlag
    BY <1>5, BoundsAssumption DEF Screen!StartFlag
<1>6. CASE Screen!StartThreads \/ Screen!StopFlag \/ Screen!StopCapture
    BY <1>6 DEF Screen!StartThreads, Screen!StopFlag, Screen!StopCapture
<1>7. CASE Screen!CaptureLoop \/ Screen!ReadOpens \/ Screen!ReadDenied \/ Screen!ReadWithoutOutput
    BY <1>7 DEF Screen!CaptureLoop, Screen!ReadOpens, Screen!ReadDenied, Screen!ReadWithoutOutput,
       Screen!Opened
<1>8. CASE Screen!ReleaseFrame \/ Screen!ReleaseLost
    BY <1>8 DEF Screen!ReleaseFrame, Screen!ReleaseLost, Screen!Opened
<1>9. CASE Screen!AcquireNothing \/ Screen!AcquireLost \/ Screen!AcquireNext
    BY <1>9 DEF Screen!AcquireNothing, Screen!AcquireLost, Screen!AcquireNext
<1>10. CASE \E presented \in BOOLEAN : Screen!TakeFrame(presented)
    BY <1>10 DEF Screen!TakeFrame
<1>11. CASE Screen!Encode
    BY <1>11 DEF Screen!Encode, Screen!EncodeLoop, Screen!EncodePick
<1> QED
    BY <1>1, <1>3, <1>4, <1>5, <1>6, <1>7, <1>8, <1>9, <1>10, <1>11
       DEF Screen!Next, Screen!Connection, Screen!Read

\* The variables of the capture keep their types.
THEOREM ScreenTypeCorrect == Screen!Spec => []Screen!TypeOK
<1>1. Screen!Init => Places
    BY BoundsAssumption DEF Screen!Init, Places
<1>2. Places /\ ScreenInv => Screen!TypeOK
    BY DEF Places, ScreenInv, ScreenFlags, Screen!TypeOK
<1> QED
    BY <1>1, <1>2, PlacesStep, ScreenInductive, PTL DEF Screen!Spec
=============================================================================
