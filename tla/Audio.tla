------------------------------- MODULE Audio --------------------------------
(***************************************************************************)
(* The host's sound path: AudioEncoder with its AudioCaptureWASAPI.        *)
(*                                                                         *)
(* The record thread resamples what it captures into chunks and appends    *)
(* them to `buffer'; the worker thread cuts the chunks into packets of     *)
(* FrameSize samples, which it encodes and broadcasts; the playback thread *)
(* keeps the audio device awake.  start() and stop() are called by the     *)
(* threads that start and stop the stream, in the order that StreamServer  *)
(* gives them.  stop() joins the two capture threads and not the worker;   *)
(* it changes flagRun, clears `buffer' and frees the codec without         *)
(* bufferLock.                                                             *)
(*                                                                         *)
(* A sample is its number.  The size of a chunk is that after resampling.  *)
(***************************************************************************)
EXTENDS Naturals, SequencesExt

CONSTANTS
    FrameSize,    \* samples of a packet (960 in the code)
    MaxChunk,     \* bound: samples of a chunk
    MaxSamples,   \* bound: samples recorded
    MaxQueue,     \* bound: chunks in the buffer
    MaxSessions   \* bound: calls of start()

ASSUME FrameSizeAssumption == FrameSize \in Nat \ {0}
ASSUME BoundsAssumption    == {MaxChunk, MaxSamples, MaxQueue, MaxSessions} \subseteq Nat

VARIABLES
    ctl,       \* where the thread that starts and stops the sound is
    sessions,  \* sessions begun
    flagRun,   \* AudioEncoder::flagRun
    capFlag,   \* AudioCaptureWASAPI::flagRun
    recPc,     \* where recordThread is
    playPc,    \* where playbackThread is
    wPc,       \* where workerThread is
    codec,     \* do swrCtx and enc exist?
    buffer,    \* the deque of chunks
    curr,      \* the rest of the chunk that the worker copies
    buf,       \* the samples of the next packet
    recorded,  \* samples recorded, a history
    sent,      \* the last sample sent, a history
    crashed    \* a freed codec or a damaged deque ended the process

ctlVars  == <<ctl, sessions, flagRun, capFlag>>
dataVars == <<buffer, curr, buf, recorded, sent>>
vars     == <<ctlVars, recPc, playPc, wPc, codec, dataVars, crashed>>

CtlPcs  == {"idle", "joinWorker", "capture", "running", "joinRecord", "joinPlayback",
            "stopFlag", "notify", "clear", "free", "destroy", "gone"}
RecPcs  == {"off", "configure", "loop", "read", "exited"}
PlayPcs == {"off", "loop", "exited"}
WPcs    == {"off", "loop", "lock", "block", "wait", "pop", "fill", "encode", "exited"}

\* The worker holds bufferLock between its test and its wait, and while it pops.
LockFree == wPc \notin {"block", "pop"}
-----------------------------------------------------------------------------
Init ==
    /\ ctl = "idle" /\ sessions = 0 /\ flagRun = FALSE /\ capFlag = FALSE
    /\ recPc = "off" /\ playPc = "off" /\ wPc = "off"
    /\ codec = FALSE
    /\ buffer = <<>> /\ curr = <<>> /\ buf = <<>>
    /\ recorded = 0 /\ sent = 0 /\ crashed = FALSE
-----------------------------------------------------------------------------
(* start(), stop() and the destructor.                                     *)

Start ==
    /\ ctl = "idle"
    /\ sessions < MaxSessions
    /\ sessions' = sessions + 1
    /\ ctl' = "joinWorker"
    /\ UNCHANGED <<flagRun, capFlag, recPc, playPc, wPc, codec, dataVars, crashed>>

\* The old worker is joined; the new one begins with nothing in hand.
StartWorker ==
    /\ ctl = "joinWorker"
    /\ wPc \in {"off", "exited"}
    /\ flagRun' = TRUE
    /\ wPc' = "loop"
    /\ curr' = <<>> /\ buf' = <<>>
    /\ sent' = recorded
    /\ ctl' = "capture"
    /\ UNCHANGED <<sessions, capFlag, recPc, playPc, codec, buffer, recorded, crashed>>

StartCapture ==
    /\ ctl = "capture"
    /\ capFlag' = TRUE
    /\ playPc' = "loop"
    /\ recPc' = "configure"
    /\ ctl' = "running"
    /\ UNCHANGED <<sessions, flagRun, wPc, codec, dataVars, crashed>>

StopCapture ==
    /\ ctl = "running"
    /\ capFlag' = FALSE
    /\ ctl' = "joinRecord"
    /\ UNCHANGED <<sessions, flagRun, recPc, playPc, wPc, codec, dataVars, crashed>>

JoinRecord ==
    /\ ctl = "joinRecord"
    /\ recPc = "exited"
    /\ ctl' = "joinPlayback"
    /\ UNCHANGED <<sessions, flagRun, capFlag, recPc, playPc, wPc, codec, dataVars, crashed>>

JoinPlayback ==
    /\ ctl = "joinPlayback"
    /\ playPc = "exited"
    /\ ctl' = "stopFlag"
    /\ UNCHANGED <<sessions, flagRun, capFlag, recPc, playPc, wPc, codec, dataVars, crashed>>

StopFlag ==
    /\ ctl = "stopFlag"
    /\ flagRun' = FALSE
    /\ ctl' = "notify"
    /\ UNCHANGED <<sessions, capFlag, recPc, playPc, wPc, codec, dataVars, crashed>>

StopNotify ==
    /\ ctl = "notify"
    /\ wPc' = IF wPc = "wait" THEN "lock" ELSE wPc
    /\ ctl' = "clear"
    /\ UNCHANGED <<sessions, flagRun, capFlag, recPc, playPc, codec, dataVars, crashed>>

\* Faulty variant: the chunks that are left are kept.
ClearBufferKeeps ==
    /\ ctl = "clear"
    /\ crashed' = (wPc = "pop")
    /\ ctl' = "free"
    /\ UNCHANGED <<sessions, flagRun, capFlag, recPc, playPc, wPc, codec, dataVars>>

\* buffer.clear() without the lock: it damages a deque that the worker is popping
\* from, unless it comes wholly before or after.
ClearBuffer ==
    /\ ctl = "clear"
    /\ buffer' = <<>>
    /\ crashed' = (wPc = "pop")
    /\ ctl' = "free"
    /\ UNCHANGED <<sessions, flagRun, capFlag, recPc, playPc, wPc, codec, curr, buf, recorded,
                   sent>>

\* swr_free and opus_encoder_destroy.
FreeCodec ==
    /\ ctl = "free"
    /\ codec' = FALSE
    /\ ctl' = "idle"
    /\ UNCHANGED <<sessions, flagRun, capFlag, recPc, playPc, wPc, dataVars, crashed>>

Destruct ==
    /\ ctl = "idle"
    /\ ctl' = "destroy"
    /\ UNCHANGED <<sessions, flagRun, capFlag, recPc, playPc, wPc, codec, dataVars, crashed>>

DestructJoin ==
    /\ ctl = "destroy"
    /\ wPc \in {"off", "exited"}
    /\ ctl' = "gone"
    /\ UNCHANGED <<sessions, flagRun, capFlag, recPc, playPc, wPc, codec, dataVars, crashed>>
-----------------------------------------------------------------------------
(* The capture threads.                                                    *)

\* runRecord_ opens the device and calls onConfigured, whatever capFlag says.
Configure ==
    /\ recPc = "configure"
    /\ codec' = TRUE
    /\ recPc' = "loop"
    /\ UNCHANGED <<ctlVars, playPc, wPc, dataVars, crashed>>

RecordLoop ==
    /\ recPc = "loop"
    /\ recPc' = IF capFlag THEN "read" ELSE "exited"
    /\ UNCHANGED <<ctlVars, playPc, wPc, codec, dataVars, crashed>>

\* GetBuffer has no frames, or a timestamp error.
RecordNothing ==
    /\ recPc = "read"
    /\ recPc' = "loop"
    /\ UNCHANGED <<ctlVars, playPc, wPc, codec, dataVars, crashed>>

\* Faulty variant: bufferLockCV is not notified.
OnAudioDataSilent ==
    /\ recPc = "read" /\ LockFree
    /\ Len(buffer) < MaxQueue
    /\ \E n \in 0..MaxChunk :
        /\ recorded + n <= MaxSamples
        /\ buffer' = Append(buffer, [i \in 1..n |-> recorded + i])
        /\ recorded' = recorded + n
    /\ UNCHANGED wPc
    /\ crashed' = ~codec
    /\ recPc' = "loop"
    /\ UNCHANGED <<ctlVars, playPc, codec, curr, buf, sent>>

\* Sound or silence is resampled and appended to the buffer, under bufferLock; the
\* resampler may keep all of it to itself.
OnAudioData ==
    /\ recPc = "read" /\ LockFree
    /\ Len(buffer) < MaxQueue
    /\ \E n \in 0..MaxChunk :
        /\ recorded + n <= MaxSamples
        /\ buffer' = Append(buffer, [i \in 1..n |-> recorded + i])
        /\ recorded' = recorded + n
    /\ wPc' = IF wPc = "wait" THEN "lock" ELSE wPc
    /\ crashed' = ~codec
    /\ recPc' = "loop"
    /\ UNCHANGED <<ctlVars, playPc, codec, curr, buf, sent>>

\* runPlayback_ plays silence until it is told to stop.
PlaybackEnds ==
    /\ playPc = "loop"
    /\ ~capFlag
    /\ playPc' = "exited"
    /\ UNCHANGED <<ctlVars, recPc, wPc, codec, dataVars, crashed>>
-----------------------------------------------------------------------------
(* runWorker_.                                                             *)

WorkerLoop ==
    /\ wPc = "loop"
    /\ wPc' = IF flagRun THEN "lock" ELSE "exited"
    /\ UNCHANGED <<ctlVars, recPc, playPc, codec, dataVars, crashed>>

\* Under bufferLock: decides to wait, leaves the loop, or goes on to pop.
WorkerLock ==
    /\ wPc = "lock"
    /\ wPc' = IF buffer # <<>> THEN "pop" ELSE IF flagRun THEN "block" ELSE "exited"
    /\ UNCHANGED <<ctlVars, recPc, playPc, codec, dataVars, crashed>>

\* The worker falls asleep and lets go of the lock.
WorkerSleep ==
    /\ wPc = "block"
    /\ wPc' = "wait"
    /\ UNCHANGED <<ctlVars, recPc, playPc, codec, dataVars, crashed>>

SpuriousWake ==
    /\ wPc = "wait"
    /\ wPc' = "lock"
    /\ UNCHANGED <<ctlVars, recPc, playPc, codec, dataVars, crashed>>

WorkerPop ==
    /\ wPc = "pop"
    /\ curr' = Head(buffer)
    /\ buffer' = Tail(buffer)
    /\ wPc' = "fill"
    /\ UNCHANGED <<ctlVars, recPc, playPc, codec, buf, recorded, sent, crashed>>

\* Faulty variant: each chunk begins a new packet, writeIdx is not kept.
WorkerFillRestarts ==
    /\ wPc = "fill"
    /\ LET n == IF Len(curr) <= FrameSize - Len(buf) THEN Len(curr) ELSE FrameSize - Len(buf)
       IN  /\ curr' = SubSeq(curr, n + 1, Len(curr))
           /\ wPc' = IF Len(buf) + n = FrameSize THEN "encode"
                     ELSE IF curr' = <<>> THEN "loop" ELSE "fill"
           /\ buf' = IF wPc' = "loop" THEN <<>> ELSE buf \o SubSeq(curr, 1, n)
    /\ UNCHANGED <<ctlVars, recPc, playPc, codec, buffer, recorded, sent, crashed>>

\* One round of the copying loop: as much of the chunk as the packet has room for.
WorkerFill ==
    /\ wPc = "fill"
    /\ LET n == IF Len(curr) <= FrameSize - Len(buf) THEN Len(curr) ELSE FrameSize - Len(buf)
       IN  /\ curr' = SubSeq(curr, n + 1, Len(curr))
           /\ buf' = buf \o SubSeq(curr, 1, n)
           /\ wPc' = IF Len(buf') = FrameSize THEN "encode"
                     ELSE IF curr' = <<>> THEN "loop" ELSE "fill"
    /\ UNCHANGED <<ctlVars, recPc, playPc, codec, buffer, recorded, sent, crashed>>

\* opus_encode_float, then the callback that broadcasts the packet.
WorkerEncode ==
    /\ wPc = "encode"
    /\ crashed' = ~codec
    /\ sent' = buf[Len(buf)]
    /\ buf' = <<>>
    /\ wPc' = IF curr = <<>> THEN "loop" ELSE "fill"
    /\ UNCHANGED <<ctlVars, recPc, playPc, codec, buffer, curr, recorded>>
-----------------------------------------------------------------------------
Caller ==
    \/ Start \/ StartWorker \/ StartCapture \/ StopCapture \/ JoinRecord \/ JoinPlayback
    \/ StopFlag \/ StopNotify \/ ClearBuffer \/ FreeCodec \/ Destruct \/ DestructJoin

RecordThread == Configure \/ RecordLoop \/ RecordNothing \/ OnAudioData

Worker ==
    WorkerLoop \/ WorkerLock \/ WorkerSleep \/ WorkerPop \/ WorkerFill \/ WorkerEncode

Next ==
    /\ ~crashed
    /\ Caller \/ RecordThread \/ PlaybackEnds \/ Worker \/ SpuriousWake

Spec == Init /\ [][Next]_vars

\* Threads that can run do, and a broadcast ends; nobody owes a start or a stop, and
\* the device owes no sound.
Fairness ==
    /\ WF_vars(~crashed /\ RecordThread)
    /\ WF_vars(~crashed /\ PlaybackEnds)
    /\ WF_vars(~crashed /\ Worker)

FairSpec == Spec /\ Fairness
-----------------------------------------------------------------------------
(* Properties.                                                             *)

\* The samples n+1, n+2, ... : what follows sample n.
Follows(s, n) == s = [i \in 1..Len(s) |-> n + i]

\* Every variable has its type, and a packet has FrameSize samples at most.
TypeOK ==
    /\ ctl \in CtlPcs /\ recPc \in RecPcs /\ playPc \in PlayPcs /\ wPc \in WPcs
    /\ sessions \in 0..MaxSessions /\ recorded \in 0..MaxSamples /\ sent \in 0..MaxSamples
    /\ {flagRun, capFlag, codec, crashed} \subseteq BOOLEAN
    /\ Len(buf) <= FrameSize
    /\ wPc = "encode" => Len(buf) = FrameSize

\* No sample of a session is lost, doubled or moved, and none comes from an earlier
\* session: what the worker has in hand follows the last packet, also while stop()
\* empties the buffer behind its back; and while the encoder runs, that and the
\* buffer are all that was recorded since.
SamplesInOrder ==
    /\ ~crashed => Follows(buf \o curr, sent)
    /\ ~crashed /\ flagRun =>
        LET onTheWay == buf \o curr \o FlattenSeq(buffer)
        IN  Follows(onTheWay, sent) /\ Len(onTheWay) = recorded - sent

\* While the encoder runs the worker encodes with a codec, although it is started
\* before the record thread creates it; and the record thread always resamples with
\* one, although stop() frees it without the lock.
CodecWhileRunning ==
    /\ flagRun /\ wPc = "encode" => codec
    /\ recPc \in {"loop", "read"} => codec

\* When the samples of a packet have been recorded, it is sent, unless the sound is
\* stopped; whatever goes on being recorded, empty chunks too.
SamplesSent ==
    \A n \in 0..MaxSamples :
        (flagRun /\ sent = n /\ recorded >= n + FrameSize) ~> (sent # n \/ ~flagRun \/ crashed)
=============================================================================
