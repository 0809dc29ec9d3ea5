------------------------------ MODULE Capture -------------------------------
(***************************************************************************)
(* CaptureD3D, the capture of the screen, with the threads that use it at  *)
(* the same time and without a lock: the capture thread (loopCapture_,     *)
(* readD3D), the connection that streams (its host query, configure, start *)
(* and stop requests), another connection that queries the host while the  *)
(* first one streams, and the encoder thread, which waits for the first    *)
(* picture of its session.                                                 *)
(*                                                                         *)
(* The duplication object is external.  A new one gives the screen at once;*)
(* after that it gives a frame only when something has changed, which need *)
(* not happen.  It may be lost at any time, and refused while a secure     *)
(* desktop is up.  Two threads inside CaptureD3D at once may end the       *)
(* process; if they do not, a read that loses its object fails, or goes on *)
(* with the object that took its place.  Other errors of Direct3D end the  *)
(* process and are left out.                                               *)
(***************************************************************************)
EXTENDS Naturals, Duplication

CONSTANT MaxSessions    \* bound: streams started

ASSUME MaxSessionsAssumption == MaxSessions \in Nat

VARIABLES
    ctl,            \* where the thread of the streaming connection is
    other,          \* where the thread of the other connection is
    capPc,          \* where the capture thread is
    encPc,          \* where the encoder thread is
    flagRun,        \* CapturePipelineD3DSoft::flagRun
    lastDesktop,    \* lastFrame.desktop
    firstFrame,     \* firstFrameProvided of loopEncoder_
    sessions,       \* streams started
    alone,          \* history: no capture thread was left when the stream was configured
    crashed         \* the process has died

ctlVars == <<ctl, other, sessions>>
encVars == <<encPc, firstFrame>>
vars    == <<ctlVars, capPc, encVars, flagRun, dupVars, stale, lastDesktop, alone, crashed>>

Gone(pc) == pc \in {"off", "exited"}

Reading == capPc \in {"read", "acquire", "acquired"}

\* A connection's thread replaces or releases the objects of CaptureD3D: if the capture thread
\* or the other connection, at rival, is inside CaptureD3D at that moment, the process may die.
Released(rival) ==
    /\ stale' = (stale \/ Reading)
    /\ \/ crashed' = FALSE
       \/ (Reading \/ rival \in {"open", "mode"}) /\ crashed' = TRUE
-----------------------------------------------------------------------------
Init ==
    /\ ctl = "idle" /\ other = "idle" /\ capPc = "off" /\ encPc = "off"
    /\ flagRun = FALSE
    /\ output = FALSE /\ dup = "none" /\ frameAcquired = FALSE /\ sentFirstFrame = FALSE
    /\ stale = FALSE
    /\ lastDesktop = FALSE /\ firstFrame = FALSE
    /\ sessions = 0 /\ alone = FALSE /\ crashed = FALSE
-----------------------------------------------------------------------------
(* getNativeMode, on the thread of a connection.                           *)

\* init(): everything is released.
InitCapture(rival) ==
    /\ output' = FALSE
    /\ Opened("none")
    /\ Released(rival)

\* open(): device and duplication, or no duplication within five seconds.
OpenCapture(rival) ==
    /\ output' = TRUE
    /\ \E d \in {"none", "new"} : Opened(d)
    /\ Released(rival)

\* getCurrentMode() tries until it has a new duplication, provided that init() of another
\* connection has not just released the output ("Queried current mode before open").
CurrentMode(rival) ==
    /\ UNCHANGED output
    /\ \/ output /\ Opened("new") /\ Released(rival)
       \/ ~output /\ crashed' = TRUE /\ UNCHANGED <<dup, frameAcquired, sentFirstFrame, stale>>

\* A request of the other connection, which may stream by itself only later.
OtherQueries ==
    /\ \/ other = "idle" /\ InitCapture(ctl) /\ other' = "open"
       \/ other = "open" /\ OpenCapture(ctl) /\ other' = "mode"
       \/ other = "mode" /\ CurrentMode(ctl) /\ other' = "idle"
    /\ UNCHANGED <<ctl, sessions, capPc, encVars, flagRun, lastDesktop, alone>>

\* The streaming connection: QueryHostCapsRequest, ...
QueryHostCaps ==
    /\ \/ ctl = "idle" /\ InitCapture(other) /\ ctl' = "open"
       \/ ctl = "open" /\ OpenCapture(other) /\ ctl' = "mode"
       \/ ctl = "mode" /\ CurrentMode(other) /\ ctl' = "configure"
    /\ UNCHANGED <<other, sessions, capPc, encVars, flagRun, lastDesktop, alone>>

\* ... ConfigureStreamRequest, whose getCaptureResolution opens the duplication once more.
Configure ==
    /\ ctl = "configure"
    /\ ctl' = "start"
    /\ alone' = Gone(capPc)
    /\ CurrentMode(other)
    /\ UNCHANGED <<other, sessions, capPc, encVars, flagRun, lastDesktop>>
-----------------------------------------------------------------------------
(* start() and stop().                                                     *)

StartFlag ==
    /\ ctl = "start" /\ sessions < MaxSessions
    /\ flagRun' = TRUE
    /\ sessions' = sessions + 1
    /\ ctl' = "join"
    /\ UNCHANGED <<other, capPc, encVars, dupVars, stale, lastDesktop, alone, crashed>>

\* The joins, CaptureD3D::start and the new threads.
StartThreads ==
    /\ ctl = "join" /\ Gone(capPc) /\ Gone(encPc)
    /\ sentFirstFrame' = FALSE
    /\ capPc' = "loop" /\ encPc' = "loop" /\ firstFrame' = FALSE
    /\ ctl' = "running"
    /\ UNCHANGED <<other, sessions, flagRun, output, dup, frameAcquired, stale, lastDesktop, alone, crashed>>

StopFlag ==
    /\ ctl = "running"
    /\ flagRun' = FALSE
    /\ ctl' = "stop"
    /\ UNCHANGED <<other, sessions, capPc, encVars, dupVars, stale, lastDesktop, alone, crashed>>

\* CaptureD3D::stop, while the capture thread may be reading.
StopCapture ==
    /\ ctl = "stop"
    /\ ctl' = "idle"
    /\ dup' = "none"
    /\ frameAcquired' = FALSE
    /\ IF Releasable THEN Released(other) ELSE crashed' = TRUE /\ UNCHANGED stale
    /\ UNCHANGED <<other, sessions, capPc, encVars, flagRun, output, sentFirstFrame, lastDesktop, alone>>
-----------------------------------------------------------------------------
(* The capture thread.                                                     *)

CaptureLoop ==
    /\ capPc = "loop"
    /\ capPc' = IF flagRun THEN "read" ELSE "exited"
    /\ UNCHANGED <<ctlVars, encVars, flagRun, dupVars, stale, lastDesktop, alone, crashed>>

\* readD3D without a duplication opens one, through an output that init() may have released.
ReadOpens ==
    /\ capPc = "read" /\ dup = "none" /\ output
    /\ Opened("new")
    /\ capPc' = "acquire" /\ stale' = FALSE
    /\ UNCHANGED <<ctlVars, encVars, flagRun, output, lastDesktop, alone, crashed>>

ReadDenied ==
    /\ capPc = "read" /\ dup = "none" /\ output
    /\ Opened("none")
    /\ capPc' = "loop"
    /\ UNCHANGED <<ctlVars, encVars, flagRun, output, stale, lastDesktop, alone, crashed>>

ReadWithoutOutput ==
    /\ capPc = "read" /\ dup = "none" /\ ~output
    /\ crashed' = TRUE
    /\ UNCHANGED <<ctlVars, capPc, encVars, flagRun, dupVars, stale, lastDesktop, alone>>

\* tryReleaseFrame_ gives the last frame back, ...
ReleaseFrame ==
    /\ capPc = "read" /\ dup # "none"
    /\ frameAcquired' = FALSE
    /\ capPc' = "acquire" /\ stale' = FALSE
    /\ crashed' = ~Releasable
    /\ UNCHANGED <<ctlVars, encVars, flagRun, output, dup, sentFirstFrame, lastDesktop, alone>>

\* ... or finds that access was lost, and tries to open the duplication anew.
ReleaseLost ==
    /\ capPc = "read" /\ dup # "none" /\ frameAcquired
    /\ \/ Opened("new") /\ capPc' = "acquire" /\ stale' = FALSE
       \/ Opened("none") /\ capPc' = "loop" /\ UNCHANGED stale
    /\ UNCHANGED <<ctlVars, encVars, flagRun, output, lastDesktop, alone, crashed>>

\* AcquireNextFrame: nothing within 150 ms.
AcquireNothing ==
    /\ capPc = "acquire" /\ (stale \/ dup = "used")
    /\ capPc' = "loop"
    /\ UNCHANGED <<ctlVars, encVars, flagRun, dupVars, stale, lastDesktop, alone, crashed>>

AcquireLost ==
    /\ capPc = "acquire"
    /\ dup' = "none"
    /\ capPc' = "loop"
    /\ UNCHANGED <<ctlVars, encVars, flagRun, output, frameAcquired, sentFirstFrame, stale, lastDesktop,
                   alone, crashed>>

\* It succeeds, on the object the read began with or on the one that took its place.
AcquireNext ==
    /\ capPc = "acquire"
    /\ \/ ~stale /\ dup' = "used"
       \/ stale /\ dup # "none" /\ dup' = "used"
       \/ stale /\ UNCHANGED dup
    /\ capPc' = "acquired"
    /\ UNCHANGED <<ctlVars, encVars, flagRun, output, frameAcquired, sentFirstFrame, stale, lastDesktop,
                   alone, crashed>>

\* Faulty variant: a picture is sent only if it was presented since the last one.
TakeFramePresented(presented) ==
    /\ capPc = "acquired"
    /\ frameAcquired' = TRUE
    /\ sentFirstFrame' = (presented \/ sentFirstFrame)
    /\ lastDesktop' = (presented \/ lastDesktop)
    /\ capPc' = "loop"
    /\ UNCHANGED <<ctlVars, encVars, flagRun, output, dup, stale, alone, crashed>>

\* The frame, with a picture that was presented since the last frame or only a cursor: the
\* first one is a picture in any case, and goes to lastFrame.
TakeFrame(presented) ==
    LET picture == presented \/ ~sentFirstFrame
    IN  /\ capPc = "acquired"
        /\ frameAcquired' = TRUE
        /\ sentFirstFrame' = (picture \/ sentFirstFrame)
        /\ lastDesktop' = (picture \/ lastDesktop)
        /\ capPc' = "loop"
        /\ UNCHANGED <<ctlVars, encVars, flagRun, output, dup, stale, alone, crashed>>
-----------------------------------------------------------------------------
(* The encoder thread.                                                     *)

EncodeLoop ==
    /\ encPc = "loop"
    /\ encPc' = IF flagRun THEN "pick" ELSE "exited"
    /\ UNCHANGED <<ctlVars, capPc, firstFrame, flagRun, dupVars, stale, lastDesktop, alone, crashed>>

EncodePick ==
    /\ encPc = "pick"
    /\ encPc' = "loop"
    /\ firstFrame' = (firstFrame \/ lastDesktop)
    /\ lastDesktop' = FALSE
    /\ UNCHANGED <<ctlVars, capPc, flagRun, dupVars, stale, alone, crashed>>
-----------------------------------------------------------------------------
Connection == QueryHostCaps \/ Configure \/ StartFlag \/ StartThreads \/ StopFlag \/ StopCapture

Read ==
    \/ CaptureLoop \/ ReadOpens \/ ReadDenied \/ ReadWithoutOutput \/ ReleaseFrame \/ ReleaseLost
    \/ AcquireNothing \/ AcquireLost \/ AcquireNext
    \/ \E presented \in BOOLEAN : TakeFrame(presented)

Encode == EncodeLoop \/ EncodePick

Next ==
    /\ ~crashed
    /\ Connection \/ OtherQueries \/ Read \/ Encode

Spec == Init /\ [][Next]_vars

\* Threads that can run do; a secure desktop goes away, and access to a duplication is not
\* lost again and again before it gave its first frame.  Only that frame, the screen as it is,
\* is owed: from a used duplication a frame is a change of the screen, and nobody owes one,
\* nor a request or a stop.
Fairness ==
    /\ WF_vars(~crashed /\ Read)
    /\ WF_vars(~crashed /\ Encode)
    /\ SF_vars(~crashed /\ ReadOpens)
    /\ SF_vars(~crashed /\ dup = "new" /\ AcquireNext)

FairSpec == Spec /\ Fairness
-----------------------------------------------------------------------------
(* Properties.                                                             *)

\* Every variable has its type.
TypeOK ==
    /\ ctl \in {"idle", "open", "mode", "configure", "start", "join", "running", "stop"}
    /\ other \in {"idle", "open", "mode"}
    /\ capPc \in {"off", "loop", "read", "acquire", "acquired", "exited"} /\ encPc \in {"off", "loop", "pick", "exited"}
    /\ dup \in {"none", "new", "used"} /\ sessions \in 0..MaxSessions
    /\ flagRun \in BOOLEAN /\ output \in BOOLEAN /\ stale \in BOOLEAN /\ frameAcquired \in BOOLEAN
    /\ sentFirstFrame \in BOOLEAN /\ lastDesktop \in BOOLEAN /\ firstFrame \in BOOLEAN
    /\ alone \in BOOLEAN /\ crashed \in BOOLEAN

\* Every stream gets its first picture, even if nothing changes on the screen and whatever
\* the other connection asks meanwhile; unless the capture thread of an earlier stream
\* was still there when the stream was configured.
FirstPicture == (ctl = "running" /\ alone) ~> (firstFrame \/ ctl # "running" \/ crashed)
=============================================================================
