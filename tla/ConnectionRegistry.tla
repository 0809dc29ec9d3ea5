------------------------- MODULE ConnectionRegistry -------------------------
(***************************************************************************)
(* What StreamServer promises about the life of its connections and of the *)
(* stream, without threads, locks and queues.  A connection is opened,     *)
(* leaves, and is then reclaimed, once.  The stream is turned on by a      *)
(* connection that is open; it is turned off by one that is open, or by    *)
(* the server when none is present; and who joins an empty server finds    *)
(* the stream off.                                                         *)
(***************************************************************************)
CONSTANT Conns

VARIABLES phase, on

vars == <<phase, on>>

Present == {c \in Conns : phase[c] \in {"open", "left"}}

Init ==
    /\ phase = [c \in Conns |-> "absent"]
    /\ on = FALSE

Open(c) ==
    /\ phase[c] = "absent"
    /\ Present = {} => ~on
    /\ phase' = [phase EXCEPT ![c] = "open"]
    /\ UNCHANGED on

Leave(c) ==
    /\ phase[c] = "open"
    /\ phase' = [phase EXCEPT ![c] = "left"]
    /\ UNCHANGED on

Reclaim(c) ==
    /\ phase[c] = "left"
    /\ phase' = [phase EXCEPT ![c] = "reclaimed"]
    /\ UNCHANGED on

TurnOn(c) ==
    /\ phase[c] = "open"
    /\ on' = TRUE
    /\ UNCHANGED phase

TurnOff ==
    /\ Present = {} \/ \E c \in Conns : phase[c] = "open"
    /\ on' = FALSE
    /\ UNCHANGED phase

Next ==
    \/ \E c \in Conns : Open(c) \/ Leave(c) \/ Reclaim(c) \/ TurnOn(c)
    \/ TurnOff

Spec == Init /\ [][Next]_vars
=============================================================================
