# Verification of twilight

twilight streams the desktop of a Windows host to a client: the host captures,
scales and encodes the screen and the sound, the client decodes and shows them.
Host and client talk over one TLS connection with protobuf packets; a client that
the host does not know yet is paired with a PIN. This directory holds TLA+ models
of the parts of twilight whose correctness depends on several threads or on two
machines, the TLC configurations that check them, and proofs checked by TLAPS.
Paths below are relative to the repository's `src/`.

## 1. Inventory

| part | state it keeps | operations | how it meets the others | what is hard |
|---|---|---|---|---|
| `server/StreamServer` | `connections`, `deleteReq`, `streaming`, the requested mode | accept, onDisconnected, configure/start/endStream, broadcast, stop, destructor; a deleter thread | called by every Connection thread, by the encoder threads and by main | one lock, held across joins; `streaming` and the mode have none |
| `server/Connection` | `authorized`, `streaming`, `authState` | one handler per message | one thread each; calls StreamServer, writes to its socket | its end is asked for by itself and carried out by the deleter |
| `common/net` | `connected`, send and receive locks | connect, send, recv, disconnect, accept | all of the above and StreamClient | blocking sends, failures noticed by either thread |
| `client/StreamClient`, `StreamWindow`, `HubWindow` | `flagRunPing`, the host list | connect, doIntro_, doAuth_, runRecv_, runPing_, disconnect | receive and ping threads, user interface | requests and unsolicited packets share one stream; joins from the user interface |
| `client/platform/windows/StreamViewerD3D`, `software/DecoderFFmpeg` | four start-up flags, `packetQueue`, `frameQueue`, `prevReadFrame` | frame and cursor handlers, resize, init_, pushData, readSoftware, stop | receive, window, decoder and render threads | two threads race to start; two threads share one condition variable; packets are skipped under load |
| `server/platform/windows/CapturePipelineD3DSoft`, `software/EncoderFFmpeg`, `ScaleSoftware`, `CaptureD3D` | two run flags, the last picture, `nextFrame`, `packetQueue`, the mode | setEncoderMode, start, stop, three loops | started and stopped by Connection threads or the deleter; output goes to `broadcast_` | stop() joins nothing, start() joins late; notifications without the lock |
| `server/AudioEncoder`, `AudioCaptureWASAPI` | a queue of chunks, the codec | start, stop, onConfigured, onAudioData, worker | as the video pipeline | stop() frees what the worker uses |
| `server/platform/windows/CaptureD3D` | the duplication object, whether a frame is acquired, whether the first was sent | init, open, getCurrentMode, start, stop, readD3D | the capture thread reads while connection threads query, configure and stop | no lock at all; the object is replaced behind the reader's back |
| `client/StreamWindow::runAudio_`, `common/RingBuffer.h` | `audioData`, the ring of samples | push, decode, data_cb, destructor | receive thread, audio thread, the device's callback, user interface | blocks that wrap, samples dropped, a notification without the lock |
| `client/NetworkClock` | epoch, latency, outstanding pings | adjust, monotonicHint, generatePing | ping and receive threads | a clock read without the lock |
| `common/platform/software/TextureAllocArena`, `TextureSoftware` | arenas, blocks, slots, the handles that own them | ensureFormat, alloc, clone, swap, destructor | ScaleSoftware allocates, the encoder's threads free | a block's address is used after the lock; arenas die with their last handle |
| `KnownClients`, `HostList`, `CertStore`, `Keypair` | two TOML files, two DER files | load, save, generate | Connection, HubWindow, StreamClient | files rewritten in place, key and certificate one after the other |

What makes the parts correct, in one line each: a connection is created and
destroyed once, never under its own thread; the stream runs while somebody wants it
and in the mode that was agreed; a stored certificate means that a human compared
PINs; every attempt and every session ends; packets reach the codecs in order and
decodable; samples are played in order; memory has one owner; every stream gets a first
picture; identities and pairings survive crashes; nobody sleeps while there is work;
destructors return.

`PROJECT.json` lists every component with its status, and, under `hazards`, every
place of the code that these properties are aimed at.

## 2. Modules

| module | models | checked by |
|---|---|---|
| `ConnectionRegistry` | abstract: what StreamServer promises about connections and the stream | as a property of `StreamServer` |
| `StreamServer` | StreamServer, Connection threads, deleter, encoder's broadcast, main | `server`, `server_stop_hang` |
| `StreamServerProofs` | theorems about `StreamServer` | TLAPS |
| `Session` (`MCSession`) | the protocol of several clients with one host | `session`, `session_reconnect` |
| `SessionProofs` | theorems about `Session` | TLAPS |
| `Identity` | keys, certificates, the lists of known clients and hosts, their files, crashes and restarts of host and clients | `identity` |
| `IdentityProofs` | theorems about `Identity` | TLAPS |
| `Viewer` | StreamViewerD3D and DecoderFFmpeg | `viewer`, `viewer_freed` |
| `ViewerProofs` | theorems about `Viewer` | TLAPS |
| `Pipeline` | CapturePipelineD3DSoft, EncoderFFmpeg, what they need of ScaleSoftware and CaptureD3D | `pipeline` |
| `PipelineProofs` | theorems about `Pipeline` and `Capture` | TLAPS |
| `Duplication` | the objects of CaptureD3D that its users share without a lock | with `Capture` |
| `Capture` | CaptureD3D, with the connections that use it beside the capture thread | `capture` |
| `TextureArena` | TextureAllocArena and TextureSoftware, as ScaleSoftware and EncoderFFmpeg use them | `texture` |
| `TextureArenaProofs` | theorems about `TextureArena` | TLAPS |
| `Audio` | AudioEncoder and AudioCaptureWASAPI | `audio` |
| `AudioProofs` | theorems about `Audio` | TLAPS |
| `RingBuffer` | RingBuffer as operators on its positions and cells | with `Playback` |
| `Playback` | StreamWindow's audio thread, the device's callback, the window's destructor | `playback` |
| `PlaybackProofs` | theorems about `RingBuffer` and `Playback` | TLAPS |

How they compose: `Playback` extends `RingBuffer`, `Capture` extends `Duplication`;
`StreamServer` implements `ConnectionRegistry`; the others share interfaces and no state. `StreamServer` orders
the calls that `Pipeline`, `Capture`, `TextureArena` and `Audio` take as given;
`Session` has the packets of a pairing and `Identity` what a pairing reads and writes,
over many sessions and crashes; what `Pipeline` writes is what `Viewer` receives.

Definitions whose comment begins "Faulty variant" are deliberately wrong versions of
the definition that follows them. Nothing refers to them; substituted for the right
one they make the property named in `PROJECT.json` (`mutants`) fail, which shows that
the property depends on the code it is about.

### StreamServer

One program counter per thread: `runPc[c]` for `Connection::run_`, `delPc` for the
deleter, `mainPc` for main, `worker[w]` for the threads that broadcast: "video" stands
for the threads of the capture pipeline, "audio" for the worker of AudioEncoder. `mutex`
is `connectionsLock`. Only the deleter and `stop()` hold it over several steps (both
join threads while they hold it); a critical section that cannot block inside
(`OnNewConnection`, `OnDisconnected`) is a step that needs the mutex to be free. The
deleter's wait is split into the test and the wait, with spurious wakeups.

Every connection may ask for a PIN, configure and start a stream once it is authorized,
and stop it at any time, authorized or not, as `msg_stopStreamRequest_` allows. A mode
goes by the connection that requested it (`requested`, `encoderMode`). `startStream` and
`endStream` take no lock, so they are steps of their own between which other threads
run: the test of `streaming`; its change with what the first part does up to where it
may wait; the joins of the video threads (`JoinVideo`) and of the audio worker
(`JoinAudio`), each of which waits while the worker of the previous stream is left; and
for the end the stop of the sound and that of the pipeline. `overlap` records that two
threads were in there at once. A pipeline or encoder that is started twice or stopped
twice, an encoder without a size, and two threads that join the same worker set
`crashed`, as `assert_quit` does; so may a broadcast that iterates the vector while it is
changed (`Disturb`), which is undefined behaviour. A worker that was stopped may come to
see it or not: no fairness makes it, because it may have missed the notification
(`Pipeline`, `Audio`) or wait for a peer in a send.

Each connection is accepted once (a reconnection is another member of `Conns`).

`ConnectionRegistry` says: each connection goes absent, open, left, reclaimed in this
order; the stream is turned on only for an open connection and is never on when
somebody joins an empty registry. The refinement mapping derives the phase from
`connections` and `runPc`; `on` is `streaming`.

### Session

Per session: the client's receive thread (`cPc`), ping thread, window, and the
host's Connection (`sPc`); two packet queues of at most `Cap` packets (`up` also has
room for the last word of a client that closes its socket).
A packet is its kind and, where the control
depends on it, a value (a nonce, a status). Nonces are named by the session that drew
them and `ComputePin` is injective on them: two pairs of nonces with the same six
digits are not considered. The operator at the host may type any PIN that is on some
client's screen, or none, at any prompt (`Typable`), because the prompts of two
connections share standard input. That Enter alone reads as PIN 0 (`Connection.cpp:404`)
is a matter of the digits and left out. `Paired` are the clients whose files and the
host's already have each other.

`BroadcastBegin` and `SendFrame` put a frame on one connection after the other as soon as
the host streams, whether or not the client has had its StartStreamResponse; a full socket
holds up the connections that come after it. A start that follows another one may hang in
the joins of the pipeline (`StartHangs`, which `Pipeline` and its theorem of the same name
justify); its Connection is then "hung". `NetFails` cuts a session of `Frail` at any time,
and `Killed` ends the process of its client: the pairing it has not saved is forgotten,
since `hosts.toml` is written only by `~HubWindow`, and the host reads the end of the
stream ("EOF"). An assertion of the client ends it likewise (`Abort`). `recv` takes the end
of the stream for no error and leaves `connected` set (`NetworkSocket.cpp:261`), so the
host's thread spins until a send fails (`Spinning`).

### Viewer

The receive thread (`recvPc`), the window's thread (`uiPc`), the decoder thread
(`dPc`) and the render thread (`rPc`). A frame is its number, whether it is an IDR
frame, and the cursor shape it carries. The model starts a stream with an IDR frame;
module `Pipeline` shows that the packet of an earlier session may in fact come first
(`OneBehindPerSession`); what the codec makes of such a packet is outside the model.
`codec` holds packets whose frame has not come out yet; the codec (external) returns
one frame for each packet, in order. `frameCV` has two kinds of waiters, so
`notify_one` is modelled by whom it can wake at each call.

### Pipeline

`startPc` is the thread in startStream, with setEncoderMode and start(), `stopPc` the one
in endStream or the deleter with stop(); each tests and changes `streaming` without a lock
before it goes on, so they overlap in every way, and the assertions about their order end
the process when they do so badly. `capPc` is captureThread, `encPc` encodeThread, `runPc`
the encoder's thread. `encFlag` is changed without a lock, so a
waiting thread's test and its falling asleep are two steps (`...Block`, `Sleep`)
between which it holds the lock; `missed` records that somebody was there when stop()
notified. The codec may refuse a frame (`CodecRefuses`, `refused`): run_ then ends with
`encFlag` still set. `picked` numbers the frames. `tex` is the size of the
scaled picture, `lastDesktop` whether `lastFrame.desktop` is set.

### Audio

`ctl` is the thread in start, stop or the destructor; `recPc`, `playPc` and `wPc` are
the record, playback and worker threads. Samples are numbered, a chunk is a sequence of
them, and the worker's copying loop (`readIdx`, `writeIdx`) is `WorkerFill`, one round
a step. The worker's test and its wait are two steps, as in `Pipeline`, because `stop()`
does not take `bufferLock`. A `clear()` of the deque that a worker is popping from, and
the use of a codec that was freed, end the process (`crashed`).

### Identity

A machine is the host or a client. Its files are modelled by what reading them gives:
`keyFile` and `certFile` (0 and `NoCert` if they cannot be read) and `listFile`
(clients.toml or hosts.toml as a sequence of certificates). A key is a number, a
certificate names its key and has a number of its own. `stage` is how far a process is:
each host and each StreamClient loads or makes a key, writes it, loads or makes a
certificate, writes it. Writes are in place, so `CrashHost`, `CrashClient` and a full
disk leave any beginning of the new contents: an entry of clients.toml without its
fingerprint is dropped by `load_`, an entry of hosts.toml without its certificate is
kept without one, a file cut inside an entry is a syntax error and loads nothing.
`saving` are the connection threads inside `saveFile`; the answer is sent whatever it
returns. `~HubWindow` is the only place that writes hosts.toml (`CloseHub`).
`Recognised` is `verifyCert` at both ends. `paired` and `cut` are history.

### Capture

`Duplication` has the shared objects and `Opened`, what `openDuplication_` does to them;
`Capture` has the threads.
`ctl` is the thread of the connection that streams (host query, configure, start,
stop), `other` that of a second one that only queries the host, `capPc` the capture
thread inside `loopCapture_` and `readD3D`, `encPc` the encoder thread as far as it
waits for the first picture. There is no lock between them: init(), open(),
getCurrentMode() and stop() replace the duplication object while `readD3D` uses it.
Such a step may end the process, which is what a call through a released object does,
or leave a read (`stale`) that fails or goes on with the new object. The object is
external: a new one gives the screen at once (`dup = "new"`), a used one gives a frame
only when something has changed.

### TextureArena

`tex` maps the five handles (outputTex, nextFrame, the local variables of
`loopEncoder_` and `run_`, and the temporary of `convert_`) to their slot; assignments
are exchanges, as `operator=` is. `~TextureSoftware` is two steps, `FindBlock` under
the lock and `FreeSlot` without it; `ptr` is how many blocks the arena had when the
address was taken, so that a block added in between shows. The last handle of an arena
that is no longer ScaleSoftware's destroys it.

### RingBuffer and Playback

`RingBuffer` has the positions and the array of cells, and copies in one or two pieces
as the `memcpy`s do; `Contents` is the queue it stands for. `Playback` has the user
interface thread (`win`), the receive thread, the audio thread (`aPc`) and the callback
of the device. The audio thread's test and its wait are two steps, both with
`audioDataLock`; `Push` needs that lock, the destructor's `Notify` does not. Opus and
the device are external: a packet gives up to `MaxFrames` frames, the device asks for
any number at any time.

## 3. Runs

| run | instance | states | shows |
|---|---|---|---|
| `server` | 2 connections, both may stream and stop, shutdown | 205,031 | connections, requests for deletion and the lock agree (`LifeInv`), the stream follows the connections and the agreed mode, refinement, reclaiming and stopping happen |
| `server_stop_hang` | same | | `stop()` never drops a connection whose thread is still to call `onDisconnected` (finding) |
| `session` | 2 clients, 1 session each, both may be interrupted, Cap 1 | 3,442,155 | pairings agree and rest on the right PIN; only broadcasts upset the introduction |
| `session_reconnect` | 2 clients, one paired before, the other may be interrupted, Cap 1 | 172,857 | every introduction ends; every ended session is cleaned up on both sides |
| `viewer` | 4 frames, 2 shapes, frameQueue of 2 | 271,873 | started once, decodable, cursor kept, no lost wakeup, drains, closes |
| `viewer_freed` | 2 frames | | the frame in use is freed by the decoder thread's end (finding) |
| `pipeline` | 2 sessions that may overlap, 2 modes, 4 frames | 445,637 | one packet behind per session, order across sessions, a pushed frame is written, threads end after a stop |
| `capture` | 4 streams and a second connection | 63,042 | a frame goes back to the object it came from; every stream gets a first picture |
| `texture` | 2 formats, 3 arenas, blocks of 5 slots | 997,251 | every slot has one owner, no block moves while it is freed, no `abort()` |
| `audio` | 3 sessions, packets of 2 samples, chunks of 0 to 3, 6 samples, 3 chunks queued | 93,643 | packets hold consecutive samples of one session, the codec exists while running, a full packet is sent |
| `identity` | host and 1 client, 2 entries, 2 faults | 582,355 | certificates match keys, sessions rest on a PIN, pairings are kept, pairing settles |
| `playback` | 4 packets of at most 2 frames, ring of 8 samples | 144,150 | the ring is a queue, sound in order, packets are decoded, the window closes |

Bounds. Two connections are enough for every race between two of them, between a
leaver and a newcomer, two starts, two stops or one of each at once, and for a queue of
two deletion requests; the proofs remove the bound for the invariants. `Cap` 1 makes every
blocking send happen. In `session_reconnect` the stream is started by one client, stopped
when the last one leaves and started again by the other, which is where a start may hang;
one of the two may be interrupted, so that the other one's progress is not excused by its
own failures. A `frameQueue` of
2 instead of 4 is filled, and 4 packets give two IDR packets in the queue with others
before, between and after; again the proofs remove the bounds. Two sessions of the
pipeline leave a packet behind, so that loopEncoder_ reads a packet other than that of the
frame it pushed and finds `nextFrame` full at the next; two modes make every change of
mode, and the proof covers any number of sessions and frames. A block of five slots is as
small as the five handles allow, and three arenas leave two old ones with textures still
out. Two faults are a crash during one write followed by one during another; with one
client the lists still hold the certificates of several identities of it, and the proof
covers any number of clients and faults. A ring of 8 samples is filled, wrapped and
emptied by packets of 0, 2 or 4; the proof covers every size. Four streams let a capture thread survive its stream
and meet the next configuration; nothing else in `Capture` grows. Every bound is a guard of the one action that would
exceed it.

CHECK_DEADLOCK is off where the system may stop (the program ended, every session is
over, no frame is left to send); a real deadlock there shows as a failed liveness
property. `identity` and `texture`, which never stop, are checked for deadlock.

Fairness. Each thread that can take a step eventually does (weak fairness per thread).
Where a thread needs a mutex that others take and release again and again, it gets it
eventually (strong fairness on that step): without this assumption about the mutex a
spuriously waking deleter could starve `onDisconnected`. Peers, users and the network
owe nothing: no fairness on accepts, on requests, on pings, on closing a window, on
resizing it, or on failures. The operator is assumed to answer a PIN prompt in the
end, and the user to close the PIN box; both block a thread of the program otherwise.
In `StreamServer` the workers owe nothing either, so that a join of one may wait for ever.
In `Pipeline` a start or a stop that has begun goes on, but nobody has to call one. In
`Session` a broadcast that waits for room in a socket gets it (strong fairness of
`SendFrame`), since it holds the socket's `sendLock` while it waits and no answer can
overtake it; and the encoder has something to send while the pipeline runs.
In `Identity` the host is started again when it is off and somebody goes on trying
(opens the hub, adds the host, connects, types the PIN); without that "in the end no PIN
is needed" would say nothing, and faults are finitely many because they are counted.
In `Capture` a secure desktop goes away in the end (strong fairness of `ReadOpens`) and
a new duplication is not lost every time before its first frame is taken (`AcquireNext`
while `dup` is "new"); the screen owes no change, so a used one may never give a frame. In
`Playback` a receive thread whose connection was closed ends; the host owes no sound,
the device no call.

## 4. Findings

1. `StreamServer::stop()` deadlocks when a connection is open (`server_stop_hang`).
2. The decoder thread frees the frame that is being rendered (`viewer_freed`).

The models also contain, as ends of the process, three assertions that can fail. No run
is kept for them; they show in the models as follows.

3. Two clients that start the stream at once end the host ("Starting without stopping
   first!"), and so may a start and a stop at once ("Stopping when not running!"). Both are
   in the run `server`: `PipelineFollowsStreaming` says that the flags are right until
   then (`overlap`), `CrashCausesCorrect` that the overlap is the cause.
4. A frame may precede the StartStreamResponse and ends the client ("Expected
   StartStreamResponse"): `OnlyBroadcastsAbort` says that nothing else can.
5. After a change of mode a frame of the old size reaches the encoder and ends the host
   ("Frame size does not match configuration!", `CheckFrame` of `Pipeline`); by two
   routes, an old thread still at work and an old picture still in the scaler.

Modelled too, but contradicted by no statement of the code, so only listed as hazards:
the lost wakeups of `~StreamServer`, `EncoderFFmpeg::stop`, `AudioEncoder::stop` and
`~StreamWindow` (`missed`), the codec that `AudioEncoder::stop` frees under its worker,
`CapturePipelineD3DSoft::start`, which can wait for ever for a thread of the previous
session because it sets `flagRun` before it joins (and with it the connection's thread,
which is then never reclaimed: "hung" in `Session`, `Blocked` in `StreamServer`), the
encoder whose codec refused a frame and which nobody restarts (`refused`), the host's
thread that spins on the end of a stream (`Spinning`), the mode of a client that another
one's configure request overwrites, the duplication object that
`CaptureD3D` releases under its reader, and a save of clients.toml that is cut short and
loses clients (`cut`). That finding 1, the hang of `CapturePipelineD3DSoft::start` and the stall of a refused
frame do not go away by themselves is proved (`StopHangs`, `StartHangs`, `RefusalStalls`), and so is which of these hazards are the
only ones that end the host's process (`CrashCausesCorrect`, `NoCrash`, `CrashCorrect`).

## 5. Proofs

TLAPS proves the following for every set of connections, modes, formats, sessions and
clients and for all bounds. The only assumptions are the ASSUMEs of the modules:

* null values are distinct from what they stand for (`NoMode`, `NoNonce`, `NoPin`, ...),
  `Host` is not a client, each session has an owner, `Paired` are clients and `Frail` are
  sessions;
* bounds are natural numbers; `Cap`, `FrameCap`, `FrameSize`, `SIZE` and `MaxFrames` are
  positive (in the code a `frameQueue` of 4, packets of 960 samples);
* `BLOCK_SIZE` is at least five, the number of handles (8 in the code);
* `SIZE` is even and holds the largest packet (the ring has two samples a frame).

`StreamServerProofs`

* `TypeCorrect`.
* `LifeCorrect`: `Spec => []LifeInv`. `LifeInv` is inductive together with
  `TypeOK`: who holds the mutex follows from the program counters (`LockOwned`), a
  thread past `onDisconnected` is in `deleteReq` or being erased, and nothing else
  is, and `deleteReq` has no duplicates. Each of these needs the others: erasing
  keeps `NoThreadOutlivesConnection` because the deleter waits for the thread; the
  thread gets there because it was requested only when past `onDisconnected`.
  `DeleterSound` and `NothingLeaked` are parts of it.
* `QuietWhenEmpty`, from `LifeInv`.
* `StreamCorrect`, `PipelineCorrect`, `ModeCorrect`: for any clients that start, stop and
  configure, by the invariant `StreamInv`. It fixes for each place of startStream, endStream
  and the deleter what the four flags are, as long as nothing overlapped, and adds what
  makes that inductive: one thread at most is then in there, and the deleter stops a stream
  only when no connection exists, so that it overlaps nobody. The mode needs no such
  proviso: from its claim on, a start has given the encoder the mode of the last request,
  and `Connection::streaming` keeps that client from requesting another.
* `RegistryImplemented`: `Spec => ImplementsRegistry`; every step of every thread is a
  step of `ConnectionRegistry` or leaves its variables alone.
* `DeleterWakes`: the deleter waits only while `deleteReq` is empty.
* `StopHangs`: `Hung(c)` (stop() drops the connections and the thread of c has still to
  take the lock that stop() holds) is stable, so that stop() never returns. The run
  `server_stop_hang` reaches such a state.
* `CrashCausesCorrect`: a step that ends the process is one of a broadcast over a vector
  that changed, a start that nobody configured, or comes after an overlap. `StreamInv` is
  needed to rule out the assertions of the pipeline.

`ViewerProofs`

* `TypeCorrect`, with `Len(frameQueue) <= FrameCap`.
* `StartCorrect`: `StartedOnce`, by `StartInv`: whoever is between the claim of
  `flagInitialized` and the start of the threads is alone there, and nothing ran before.
* `WakeupCorrect`: `NoLostWakeup`.
* `DecodableCorrect`, `FeedCorrect`: `QueueDecodable` is inductive with `TypeOK` and
  `InStep` (a frame in hand was received). The reset of `flagKeyInPacket` by `start()` is harmless because the
  flag is only required to be *no stronger* than the queue.
* `CursorCorrect`: `CursorNotLost`. The property speaks of the concatenation of the
  queues; `CursorInv` says the same queue by queue: the newest shape is pending, or
  nothing is and it is the newest in `packetQueue`, or that has none and it is the newest
  in `codec`, and so on to what is drawn. A frame that moves on, or a batch that is skipped
  with its shape kept, changes two neighbours of that chain only. `StartInv` is needed
  where the decoder thread ends: it does so only when the viewer is being closed.
* `StartNotMissed`, `JoinsCorrect`, `ClosedCorrect`, `FreedCorrect`, by `EndInv`: one of the
  two threads that race for `flagInitialized` is always on its way to the start; the
  destructor joins only threads that run, are not asleep and see their flag cleared; after
  it nothing of the viewer runs. `FreedOnlyInStop` is what remains true of the refuted
  `FrameKept`: only the end of the decoder thread, between `stop()` and the join of the
  render thread, frees a frame in use.

`TextureArenaProofs`

* `ArenaCorrect`: `Spec => []ArenaInv`, from which `TypeCorrect`, `SlotsCorrect`,
  `PointersCorrect` and `NoAbortCorrect` are read. `ArenaInv` adds to the three
  properties where a thread may have a texture in hand (`InHand`), what ScaleSoftware
  keeps (`OutputOK`), and that no arena has a second block (`OneBlock`). The last is
  what makes the unlocked free safe, and it is a counting argument: the five handles
  name different slots and one of them is empty when alloc runs, so at most four slots
  of five or more are taken.

`IdentityProofs`

* `IdentityCorrect`: `Spec => []IdInv`. `IdInv` says that a machine never returns to an
  identity it has replaced (`LatestOnly`), that every number in use was drawn
  (`Bounded`), hence that a new certificate is in nobody's list and no two machines
  share one (`Distinct`), that sessions agree with processes and PINs (`SessOK`), and
  the key step, `Joint`: if host and client have each other's present certificate, in
  memory or on disk, a PIN has confirmed the two. Without it a session without a PIN
  could rest on two half pairings. `FileAgrees`: while nobody saves and no save was cut
  short, clients.toml is the list in memory; `PairingsKept` needs it when the host ends.
* `CertCorrect`, `OpenCorrect` and `KeptCorrect` are read from it. The proofs go by what
  a step may do to each part of the state (`CertStep`, `ListStep`, `SessStep`,
  `HostListStep`, ...) and not by all 17 actions for each conjunct.

`SessionProofs`

* `Inductive`: `Spec => []IndInv`, with `IndInv == DataOK /\ Pairing /\ Pinned /\ InStep`.
  What an answer means depends on what is on its way to its reader, so each part speaks of
  the contents of the two queues of a session.
* `TrustCorrect`: `TrustIsMutual`, by `Pairing`: every `ServerIntro` and `AuthResponse`
  with status OK on its way is warranted: the host has authorized the session, and after an
  `AuthResponse` it knows the client.
  The property alone is not inductive, because the client believes a packet that was sent
  many steps ago.
* `PinCorrect`: `KnownByPin`, by `Pinned`: a nonce in a request, in `authState` or in a
  displayed PIN is the session's own. Hence a PIN that matches at a prompt is one that this
  client showed, whichever prompt the operator meant; or the client was paired before.
* `AbortCorrect`: `OnlyBroadcastsAbort`, by `InStep`: a client that waits has one request
  or its answer under way, never both, in step with where its Connection is, and
  everything else in `down` is a frame (after a PIN was sent for, two answers may be under
  way, in order). Most of the proof is this lock
  step; `Elsewhere` (a step of one session leaves the others alone) lets it be argued one
  session at a time.
* `TypeCorrect`: `TypeOK`, in which a socket holds at most `Cap` packets and the last word
  (`CloseNotify` or the end of the stream) of a client that closes it.
* `MovesCorrect`: `IntroMoves`, from `InStep` and `Moving`: while a client waits and both
  sockets work, its request is before the host's thread, or that thread is busy with it,
  or an answer is under way, or the start hangs. No session can wait with nobody to move
  otherwise.
* `JoinsCorrect`: `JoinsEnd`. `~StreamWindow` joins a receive thread whose socket is closed
  and a ping thread whose flag is cleared; the host whose socket is still open finds a last
  word in it (`Told`), the part that must be carried through every send and receive.
* `StreamPaired`: `OnlyPairedStream`, from `Entitled` and `KnownByPin`: whoever streams is
  a client that was paired before or whose PIN was typed.

`PipelineProofs`

* `Inductive`, with `IndInv == TypeInv /\ Count /\ Order`; `TypeCorrect` is read from
  `TypeInv`, which also has that there is a picture when one is picked. Start and stop may
  overlap in all of this.
* `OneBehindCorrect`: `OneBehindPerSession`. `Count` adds when there is room for one
  more: during start, before a frame is pushed, and after its packet was read.
  Without it a push could not be told from a second push of the same session.
* `OrderCorrect`: the action property `WrittenInOrder`. `Order` says that the numbers in
  `packetQueue`, the codec, `nextFrame` and the hand grow in this order and are above what
  was written and not above what was picked.
* `AwakeCorrect`, `NoDeadlock`: `Awake` says for each of the three waits (room, packet,
  frame) that the reason to wait holds, and that a packet that is waited for is in
  `nextFrame`, in the codec or in `packetQueue`, unless the codec has refused a frame. The
  last makes it inductive: whoever takes one away puts it into the next and wakes the
  reader. Both threads never wait at once.
* `RefusalStalls`: a loopEncoder_ that waits for a packet after a refusal, with none queued,
  waits until `StopEncoder`.
* `NoCrash`: under the hypotheses `SameMode` (every session has the mode of the first) and
  `Alone` (no start overlaps a stop) no assertion fails. `Turns` has the flags at each place
  of start and stop, `Sizes` the sizes of the frames.
* `StartHangs`: `Stuck` (start() has set `flagRun` and joins a thread of the last session
  that has not seen it cleared) is stable; TLC reaches it in the configuration of `pipeline`.
* `DuplicationCorrect`: `FrameOfDuplication` of `Capture` (here `Screen`), and
  `FirstPictureSafe`, by `ScreenInv`: what a thread inside `readD3D` has in hand at each of
  its steps unless its object was replaced (`ReadInv`), and that from the configuration to
  the first picture the object is new or unopened (`Configured`, `FirstPictureComing`).
  `ScreenTypeCorrect` is its `TypeOK`.

`AudioProofs`

* `Inductive`, with `IndInv == DataOK /\ FlagsOK /\ Threads /\ Fresh /\ InHand /\ Order`;
  `TypeCorrect`.
* `CodecCorrect`: `CodecWhileRunning`, by `Threads` and `Fresh`: the worker has nothing to
  encode before the record thread has made the codec, because a session begins
  with an empty buffer and a new worker.
* `SamplesCorrect`: `SamplesInOrder`. `Order` keeps packet, rest of the chunk and buffer
  apart, each following the one before. The buffer is a sequence of sequences, so the
  proof needs what `FlattenSeq` gives for an appended and for a removed chunk: facts by
  induction on its length. The library's induction rules take an operator and cannot be
  used; the lemmas take instead the set of lengths for which the fact fails and its least
  element (`Least`, from the well-foundedness of the natural numbers).
* `NothingHeldBackCorrect`: a worker that waits has left less than a packet; from `Order`
  and that nobody waits beside a chunk (`WaitsEmpty`).
* `CrashCorrect`: the process ends only when `stop()` has cleared the flag.

`PlaybackProofs`

* `Inductive`, with `IndInv == RingInv /\ QueueInv /\ OrderInv /\ StartInv`.
* `RingCorrect`: `RingHoldsLatest`, for every size. `Holds` says cell by cell, modulo the
  size, that the ring has the end of what was written; `write`, `read` and `drop` preserve
  it wherever the one or two pieces begin and end.
* `PlayedCorrect`: the action property `PlayedInOrder`. `QueueInv` has the packets queued
  and decoded in order, `OrderInv` the samples growing with odd and even ones taking turns
  and the last one given to the device below all that are left; dropping keeps this because
  it drops an even number of the oldest. `StartInv` (no audio thread before the
  constructor starts it) is needed to make the rest inductive.
* `AudioWakes`, `ClosedCorrect`, by `WakeInv`: the audio thread sleeps only over an empty
  queue, after the notification of `~StreamWindow` only if it was missed, and when that
  destructor is done neither thread nor callback is left.

Only model-checked: the liveness properties, since fairness and ENABLED are outside the
prover. What a lost wakeup, a join of a thread that cannot end or a request nobody has would
break in them is a safety property, and that part is proved (`DeleterWakes`, `IntroMoves`,
`JoinsEnd`, `StartUnderWay`, `Awake`, `FirstPictureComing`, `NothingHeldBack`, `AudioAwake`);
TLC has the rest, that fair threads then get there. `QueuesDrain` of `Viewer`
rests on `NoLostWakeup`; `SettlesWithoutPin` of `Identity` and `ThreadsEnd` of `Pipeline`
have no such part. Every
invariant and every `[][...]_vars` property of a passing run is proved. The modules define no
RECURSIVE operator.

## 6. Not modelled

* Bytes, pixels and samples: packets' encodings, TLS, certificates' contents, TOML and
  DER, codecs, colour conversion. Each is modelled by what its result decides.
* Overlaps inside single calls: `ScaleSoftware::setOutputFormat` is one step, and so is a
  change of the list of `KnownClients`, whose vector has no lock (the run `identity` has one
  client). `PlayedInOrder` does not look at a callback that repeats exactly the samples of
  the one before; requests of other sizes show such a repetition.
* Direct3D, DXGI, WASAPI, cubeb, Opus, libvpx (VP8) and libavcodec: external; their failures
  end the process in the code and are left out unless the code handles them.
* The Media Foundation pipeline (`CapturePipelineD3DMF`, `EncoderMF`, `ScaleD3D`): not
  reachable at this commit, since `CapturePipelineFactroryWin32.cpp:59-62` makes a
  `CapturePipelineD3DSoft` for every choice of encoder.
* OpenH264 encoder and decoder: the threading of the FFmpeg ones, with other calls.
* `NetworkClock`: arithmetic on measured delays, changed by one thread; no control.
* Rendering (`RendererD3D`), which one thread drives; widgets; helpers and log output;
  build tools.

## 7. Plan

Done: StreamServer with its abstract registry, Session, Identity, Viewer, Pipeline,
Capture, TextureArena, Audio, Playback, and proofs about all of them. Left:
`NetworkClock`, and what an outstanding ping that is answered twice or never does to it.
