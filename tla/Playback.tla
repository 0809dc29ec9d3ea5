------------------------------ MODULE Playback ------------------------------
(***************************************************************************)
(* The sound of the client: StreamWindow with its audio thread (runAudio_) *)
(* and the callback of the sound device (data_cb).                         *)
(*                                                                         *)
(* The receive thread puts packets into audioData; the audio thread waits  *)
(* for them on audioDataCV, decodes them and writes the samples into a     *)
(* ring, dropping the oldest ones if there is no room; the device calls    *)
(* data_cb, which plays what the ring has and then silence.  The window is *)
(* made and destroyed by the user interface thread.                        *)
(*                                                                         *)
(* A critical section that does not wait is one step.  The device and the  *)
(* Opus decoder are external: the one asks for any number of frames at any *)
(* time, the other gives any number of frames for a packet.  A frame is    *)
(* two samples, left and right.                                            *)
(***************************************************************************)
EXTENDS RingBuffer, FiniteSets

CONSTANTS
    MaxPackets,  \* bound: packets of sound that the host sends
    MaxFrames,   \* frames that a packet decodes to, at most (5760 in the code)
    MaxRequest   \* bound: frames that the device asks for at once

ASSUME PlaybackAssumption ==
    /\ MaxPackets \in Nat /\ MaxFrames \in Nat \ {0} /\ MaxRequest \in Nat
    /\ SIZE % 2 = 0 /\ 2 * MaxFrames <= SIZE

VARIABLES
    win,            \* where the user interface thread is
    recv,           \* where the receive thread is
    aPc,            \* where the audio thread is
    flagPlayAudio,
    audioData,      \* packets to decode, by number
    playing,        \* is the device started?
    ring,           \* CubebUserData::data
    received,       \* packets received
    decoded,        \* the last packet decoded
    heard,          \* what the last call of data_cb gave to the device
    quit,           \* assert_quit has ended the client
    written,        \* history: the last SIZE samples written to the ring
    last,           \* history: the last sample given to the device
    missed          \* history: the destructor notified between the audio thread's test and its wait

threads == <<win, recv, aPc>>
queue   == <<flagPlayAudio, audioData, received>>
sound   == <<playing, ring, decoded, heard>>
history == <<written, last, missed>>
vars    == <<threads, queue, sound, quit, history>>

\* Samples are numbered in the order of the host's: odd ones are left, even ones right.
Samples(packet, frames) == [i \in 1..(2 * frames) |-> 2 * MaxFrames * (packet - 1) + i]
Silence(n)              == [i \in 1..n |-> 0]

\* The last SIZE elements of s.
Latest(s) == IF Len(s) <= SIZE THEN s ELSE SubSeq(s, Len(s) - SIZE + 1, Len(s))

\* The audio thread has audioDataLock.
AudioLocked == aPc \in {"toWait", "check"}
-----------------------------------------------------------------------------
\* StreamWindow with or without sound: sc.connect has started the receive thread.
Init ==
    /\ win = "ctor" /\ recv = "idle" /\ aPc = "off"
    /\ flagPlayAudio \in BOOLEAN
    /\ audioData = <<>> /\ received = 0
    /\ playing = FALSE /\ ring = NewRing /\ decoded = 0 /\ heard = <<>>
    /\ quit = FALSE
    /\ written = <<>> /\ last = 0 /\ missed = FALSE
-----------------------------------------------------------------------------
(* The user interface thread.                                              *)

\* The end of the constructor.
StartAudio ==
    /\ win = "ctor"
    /\ win' = "open"
    /\ aPc' = IF flagPlayAudio THEN "init" ELSE "off"
    /\ UNCHANGED <<recv, queue, sound, quit, history>>

\* ~StreamWindow: sc.disconnect closes the connection and joins the receive thread.
Destroy ==
    /\ win = "open"
    /\ win' = "disconnect"
    /\ UNCHANGED <<recv, aPc, queue, sound, quit, history>>

JoinRecv ==
    /\ win = "disconnect" /\ recv = "ended"
    /\ win' = "exchange"
    /\ UNCHANGED <<recv, aPc, queue, sound, quit, history>>

ExchangeFlag ==
    /\ win = "exchange"
    /\ flagPlayAudio' = FALSE
    /\ win' = IF flagPlayAudio THEN "notify" ELSE "closed"
    /\ UNCHANGED <<recv, aPc, audioData, received, sound, quit, history>>

\* Faulty variant: nobody is woken up.
NoNotify ==
    /\ win = "notify"
    /\ win' = "join"
    /\ UNCHANGED <<recv, aPc, queue, sound, quit, history>>

\* notify_all, without audioDataLock.
Notify ==
    /\ win = "notify"
    /\ win' = "join"
    /\ aPc' = IF aPc = "wait" THEN "lock" ELSE aPc
    /\ missed' = (aPc = "toWait")
    /\ UNCHANGED <<recv, queue, sound, quit, written, last>>

JoinAudio ==
    /\ win = "join" /\ aPc = "ended"
    /\ win' = "closed"
    /\ UNCHANGED <<recv, aPc, queue, sound, quit, history>>
-----------------------------------------------------------------------------
(* The receive thread.                                                     *)

\* processNewPacket_ with a packet of sound: the flag is read without the lock.
AudioFrame ==
    /\ recv = "idle" /\ received < MaxPackets
    /\ received' = received + 1
    /\ recv' = IF flagPlayAudio THEN "push" ELSE "idle"
    /\ UNCHANGED <<win, aPc, flagPlayAudio, audioData, sound, quit, history>>

\* Faulty variant: the audio thread is not woken up.
PushQuiet ==
    /\ recv = "push" /\ ~AudioLocked
    /\ audioData' = Append(audioData, received)
    /\ recv' = "idle"
    /\ UNCHANGED <<win, aPc, flagPlayAudio, received, sound, quit, history>>

Push ==
    /\ recv = "push" /\ ~AudioLocked
    /\ audioData' = Append(audioData, received)
    /\ aPc' = IF aPc = "wait" THEN "lock" ELSE aPc
    /\ recv' = "idle"
    /\ UNCHANGED <<win, flagPlayAudio, received, sound, quit, history>>

\* The connection is closed, by sc.disconnect or from outside.
RecvEnds ==
    /\ recv = "idle"
    /\ recv' = "ended"
    /\ UNCHANGED <<win, aPc, queue, sound, quit, history>>
-----------------------------------------------------------------------------
(* The audio thread.                                                       *)

\* Decoder, device and ring are made, and the device is started.
OpenDevice ==
    /\ aPc = "init"
    /\ aPc' = "loop"
    /\ playing' = TRUE
    /\ UNCHANGED <<win, recv, queue, ring, decoded, heard, quit, history>>

\* An assert_quit: no device, a packet that cannot be decoded, a device that does not stop.
Quit ==
    /\ aPc \in {"init", "decode", "stop"}
    /\ quit' = TRUE
    /\ UNCHANGED <<threads, queue, sound, history>>

AudioLoop ==
    /\ aPc = "loop"
    /\ aPc' = IF flagPlayAudio THEN "lock" ELSE "stop"
    /\ UNCHANGED <<win, recv, queue, sound, quit, history>>

\* The condition of the wait, with the lock.
AudioTest ==
    /\ aPc = "lock"
    /\ aPc' = IF audioData = <<>> /\ flagPlayAudio THEN "toWait" ELSE "check"
    /\ UNCHANGED <<win, recv, queue, sound, quit, history>>

AudioWait ==
    /\ aPc = "toWait"
    /\ aPc' = "wait"
    /\ UNCHANGED <<win, recv, queue, sound, quit, history>>

\* A wait may return without a notification.
SpuriousWake ==
    /\ aPc = "wait"
    /\ aPc' = "lock"
    /\ UNCHANGED <<win, recv, queue, sound, quit, history>>

\* After the wait the flag is read once more.
AudioStops ==
    /\ aPc = "check" /\ ~flagPlayAudio
    /\ aPc' = "stop"
    /\ UNCHANGED <<win, recv, queue, sound, quit, history>>

AudioTake ==
    /\ aPc = "check" /\ flagPlayAudio
    /\ decoded' = Head(audioData)
    /\ audioData' = Tail(audioData)
    /\ aPc' = "decode"
    /\ UNCHANGED <<win, recv, flagPlayAudio, received, playing, ring, heard, quit, history>>

\* The packet is decoded; with dataLock, room is made and the samples are written.
Decode(frames) ==
    LET missing == 2 * frames - Available(ring)
        room    == IF missing > 0 THEN Drop(ring, missing) ELSE ring
    IN  /\ aPc = "decode"
        /\ ring' = Write(room, Samples(decoded, frames))
        /\ written' = Latest(written \o Samples(decoded, frames))
        /\ aPc' = "loop"
        /\ UNCHANGED <<win, recv, queue, playing, decoded, heard, quit, last, missed>>

\* The device is stopped and destroyed: data_cb is not called any more.
StopDevice ==
    /\ aPc = "stop"
    /\ playing' = FALSE
    /\ aPc' = "clear"
    /\ UNCHANGED <<win, recv, queue, ring, decoded, heard, quit, history>>

ClearQueue ==
    /\ aPc = "clear"
    /\ audioData' = <<>>
    /\ aPc' = "ended"
    /\ UNCHANGED <<win, recv, flagPlayAudio, received, sound, quit, history>>
-----------------------------------------------------------------------------
\* data_cb: what the ring has, with dataLock, and silence for the rest.
DataCallback(nframes) ==
    LET requestedLength == 2 * nframes
        readAmount      == IF requestedLength < ring.bufferSize THEN requestedLength ELSE ring.bufferSize
        values          == ReadValues(ring, readAmount)
    IN  /\ playing
        /\ ring' = AfterRead(ring, readAmount)
        /\ heard' = values \o Silence(requestedLength - readAmount)
        /\ last' = IF readAmount = 0 THEN last ELSE values[readAmount]
        /\ UNCHANGED <<threads, queue, playing, decoded, quit, written, missed>>
-----------------------------------------------------------------------------
UiThread == StartAudio \/ JoinRecv \/ ExchangeFlag \/ Notify \/ JoinAudio

AudioThread ==
    \/ OpenDevice \/ AudioLoop \/ AudioTest \/ AudioWait \/ AudioStops \/ AudioTake
    \/ (\E frames \in 0..MaxFrames : Decode(frames))
    \/ StopDevice \/ ClearQueue

Next ==
    /\ ~quit
    /\ \/ UiThread \/ Destroy \/ AudioFrame \/ Push \/ RecvEnds
       \/ AudioThread \/ Quit \/ SpuriousWake
       \/ \E nframes \in 0..MaxRequest : DataCallback(nframes)

Spec == Init /\ [][Next]_vars

\* Threads that can run do, and one that waits for audioDataLock gets it when it is free
\* again and again; a receive thread whose connection is closed ends.  The host
\* owes no sound, the user no closing of the window, the device no call of data_cb.
Fairness ==
    /\ WF_vars(~quit /\ UiThread)
    /\ SF_vars(~quit /\ Push)
    /\ WF_vars(~quit /\ win = "disconnect" /\ RecvEnds)
    /\ WF_vars(~quit /\ AudioThread)

FairSpec == Spec /\ Fairness
-----------------------------------------------------------------------------
(* Properties.                                                             *)

\* The ring is a queue: however its blocks were split at the end of the array, what it
\* holds is what was written last, without a gap, and never more than its size.
RingHoldsLatest ==
    /\ ring.readPos \in 0..(SIZE - 1) /\ ring.bufferSize \in 0..SIZE
    /\ ring.bufferSize <= Len(written)
    /\ Contents(ring) = SubSeq(written, Len(written) - ring.bufferSize + 1, Len(written))

\* Number of samples at the start of s, before the silence.
Sounding(s) == Cardinality({i \in DOMAIN s : s[i] # 0})

\* The device gets the samples in the host's order, none of them twice, whatever was
\* dropped in between; silence comes after them, and left stays left and right stays
\* right.
PlayedInOrder ==
    [][heard' # heard =>
         LET n == Sounding(heard')
         IN  /\ n % 2 = 0
             /\ \A i \in 1..n : /\ heard'[i] > (IF i = 1 THEN last ELSE heard'[i - 1])
                                /\ i % 2 = heard'[i] % 2]_vars

\* Every packet in the queue is decoded, unless the window is being closed or the client
\* has quit: no wakeup is lost between the receive thread and the audio thread.
PacketsDecoded ==
    \A p \in 1..MaxPackets :
        (\E i \in DOMAIN audioData : audioData[i] = p) ~> (decoded >= p \/ win # "open" \/ quit)

\* The window closes, unless the destructor's notification, which is sent without the
\* lock, came between the audio thread's test and its wait.
WindowCloses == (win = "disconnect") ~> (win = "closed" \/ missed \/ quit)
=============================================================================
