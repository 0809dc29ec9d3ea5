---------------------------- MODULE Duplication -----------------------------
(***************************************************************************)
(* The objects of CaptureD3D that its users share without a lock: what     *)
(* open() made, the duplication of the screen, and the frame that was      *)
(* acquired from it.  Module Capture has the threads that use them.        *)
(***************************************************************************)

VARIABLES
    output,         \* are output, device and context valid?
    dup,            \* outputDuplication: none, new or used
    stale,          \* the object was released during the last or the current read
    frameAcquired, sentFirstFrame

dupVars == <<output, dup, frameAcquired, sentFirstFrame>>

\* Faulty variant: forgets to say that no frame is acquired from the new object.
OpenedKeeps(d) ==
    /\ dup' = d
    /\ sentFirstFrame' = FALSE
    /\ UNCHANGED frameAcquired

\* openDuplication_, which leaves d: a new object, or none if access is denied.
Opened(d) ==
    /\ dup' = d
    /\ frameAcquired' = FALSE
    /\ sentFirstFrame' = FALSE

\* ReleaseFrame is called only on the object the frame came from, or the process ends.
Releasable == frameAcquired => dup = "used"

\* A frame is given back only to the object it came from, by readD3D as by stop(), although
\* connections replace that object behind the capture thread's back; unless one did so in
\* the middle of the read that got the frame.
FrameOfDuplication == ~stale => Releasable
=============================================================================
