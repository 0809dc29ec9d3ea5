------------------------- MODULE StreamServerProofs -------------------------
(***************************************************************************)
(* Proofs about StreamServer, for any number of connections.               *)
(***************************************************************************)
EXTENDS StreamServer, TLAPS

\* What is in a queue after a push at its back.
LEMMA ElemsAppend ==
    ASSUME NEW s \in Seq(Conns), NEW c \in Conns
    PROVE  /\ Append(s, c) \in Seq(Conns)
           /\ Len(Append(s, c)) = Len(s) + 1
           /\ \A i \in 1..Len(s) : Append(s, c)[i] = s[i]
           /\ Append(s, c)[Len(s) + 1] = c
           /\ Elems(Append(s, c)) = Elems(s) \cup {c}
<1>1. /\ Append(s, c) \in Seq(Conns)
      /\ Len(s) \in Nat
      /\ Len(Append(s, c)) = Len(s) + 1
      /\ \A i \in 1..Len(s) : Append(s, c)[i] = s[i]
      /\ Append(s, c)[Len(s) + 1] = c
  OBVIOUS
<1>2. Elems(Append(s, c)) = Elems(s) \cup {c}
  BY <1>1 DEF Elems
<1> QED
  BY <1>1, <1>2

\* What is in a queue after a pop at its front.
LEMMA ElemsTail ==
    ASSUME NEW s \in Seq(Conns), s # <<>>
    PROVE  /\ Head(s) \in Conns
           /\ Head(s) = s[1]
           /\ Len(s) > 0
           /\ Tail(s) \in Seq(Conns)
           /\ Len(Tail(s)) = Len(s) - 1
           /\ \A i \in 1..Len(Tail(s)) : i + 1 \in 1..Len(s) /\ Tail(s)[i] = s[i + 1]
           /\ Elems(s) = Elems(Tail(s)) \cup {Head(s)}
<1>1. /\ Len(s) \in Nat
      /\ Len(s) > 0
      /\ Head(s) = s[1]
      /\ Head(s) \in Conns
      /\ Tail(s) \in Seq(Conns)
      /\ Len(Tail(s)) = Len(s) - 1
      /\ \A i \in 1..Len(Tail(s)) : i + 1 \in 1..Len(s) /\ Tail(s)[i] = s[i + 1]
  OBVIOUS
<1>2. Elems(s) \subseteq Elems(Tail(s)) \cup {Head(s)}
  <2> SUFFICES ASSUME NEW i \in 1..Len(s)
               PROVE  s[i] \in Elems(Tail(s)) \cup {Head(s)}
    BY DEF Elems
  <2>1. CASE i = 1
    BY <2>1, <1>1
  <2>2. CASE i # 1
    <3>1. i - 1 \in 1..Len(Tail(s)) /\ Tail(s)[i - 1] = s[i]
      BY <2>2, <1>1
    <3> QED
      BY <3>1 DEF Elems
  <2> QED
    BY <2>1, <2>2
<1>3. Elems(Tail(s)) \cup {Head(s)} \subseteq Elems(s)
  BY <1>1 DEF Elems
<1> QED
  BY <1>1, <1>2, <1>3

\* The variables that are not Boolean keep their types.
LEMMA DataStep == DataOK /\ [Next]_vars => DataOK'
<1> SUFFICES ASSUME DataOK, [Next]_vars
             PROVE  DataOK'
  OBVIOUS
<1> USE DEF DataOK, RunPcs, DelPcs, MainPcs, Goto, Disturb, WakeDeleter, connVars, lockVars,
            delVars, streamVars, modeVars, Destroy, DelLoop, WorkerPcs
<1>1. CASE UNCHANGED vars \/ Halted
  BY <1>1 DEF Halted, vars
<1>2. ASSUME NEW c \in Conns, OnNewConnection(c) \/ SockFails(c) PROVE DataOK'
  BY <1>2 DEF OnNewConnection, SockFails
<1>3. ASSUME NEW c \in Conns, RunThread(c) PROVE DataOK'
  <2>1. CASE Decide(c) \/ AskPin(c) \/ ConfigureStream(c)
    BY <2>1 DEF Decide, AskPin, ConfigureStream
  <2>2. CASE StartStreamTest(c) \/ StartStreamClaim(c) \/ JoinVideo(c) \/ JoinAudio(c)
    BY <2>2 DEF StartStreamTest, StartStreamClaim, JoinVideo, JoinAudio
  <2>3. CASE EndStreamTest(c) \/ EndStreamRelease(c) \/ StopCapture(c)
    BY <2>3 DEF EndStreamTest, EndStreamRelease, StopCapture
  <2>4. CASE LeaveLoop(c) \/ Return(c)
    BY <2>4 DEF LeaveLoop, Return
  <2>5. CASE OnDisconnected(c)
    BY <2>5, ElemsAppend DEF OnDisconnected
  <2> QED
    BY <1>3, <2>1, <2>2, <2>3, <2>4, <2>5 DEF RunThread
<1>4. CASE Deleter \/ DelSpuriousWake
  <2>1. CASE DelPop
    BY <2>1, ElemsTail DEF DelPop
  <2>2. CASE DelAcquire \/ DelWait \/ DelJoin
    BY <2>2 DEF DelAcquire, DelWait, DelJoin
  <2>3. CASE DelIdle \/ DelStop \/ DelSpuriousWake
    BY <2>3 DEF DelIdle, DelStop, DelSpuriousWake
  <2> QED
    BY <1>4, <2>1, <2>2, <2>3 DEF Deleter
<1>5. CASE Main
  BY <1>5 DEF Main, StopDisconnect, StopDrop, StopReturn, Destruct, DestructJoin
<1>6. ASSUME NEW w \in Workers, Worker(w) PROVE DataOK'
  BY <1>6 DEF Worker, BroadcastBegin, NothingToSend, BroadcastEnd, TestFlag, Moves
<1> QED
  BY <1>1, <1>2, <1>3, <1>4, <1>5, <1>6 DEF Next, Step

\* The Boolean variables keep theirs.
LEMMA FlagsStep == FlagsOK /\ [Next]_vars => FlagsOK'
<1> SUFFICES ASSUME FlagsOK, [Next]_vars
             PROVE  FlagsOK'
  OBVIOUS
<1> USE DEF FlagsOK, connVars, lockVars, delVars, streamVars, modeVars, Destroy, Disturb, Enters
<1>1. CASE UNCHANGED vars \/ Halted
  BY <1>1, Zenon DEF Halted, vars
<1>2. ASSUME NEW c \in Conns, OnNewConnection(c) \/ SockFails(c) PROVE FlagsOK'
  BY <1>2, Zenon DEF OnNewConnection, SockFails
<1>3. ASSUME NEW c \in Conns, RunThread(c) PROVE FlagsOK'
  <2>1. CASE Decide(c) \/ AskPin(c) \/ ConfigureStream(c)
    BY <2>1, Zenon DEF Decide, AskPin, ConfigureStream
  <2>2. CASE StartStreamTest(c) \/ StartStreamClaim(c) \/ JoinVideo(c) \/ JoinAudio(c)
    <3>1. CASE StartStreamTest(c) \/ StartStreamClaim(c)
      BY <3>1, Zenon DEF StartStreamTest, StartStreamClaim
    <3>2. CASE JoinVideo(c)
      BY <3>2, Zenon DEF JoinVideo
    <3>3. CASE JoinAudio(c)
      <4>1. crashed' = FALSE \/ crashed' = JoinRace(c)
        BY <3>3, Zenon DEF JoinAudio
      <4>2. crashed' \in BOOLEAN
        BY <4>1, Zenon DEF JoinRace
      <4> QED
        BY <3>3, <4>2, Zenon DEF JoinAudio
    <3> QED
      BY <2>2, <3>1, <3>2, <3>3
  <2>3. CASE EndStreamTest(c) \/ EndStreamRelease(c) \/ StopCapture(c)
    BY <2>3, Zenon DEF EndStreamTest, EndStreamRelease, StopCapture
  <2>4. CASE LeaveLoop(c) \/ Return(c) \/ OnDisconnected(c)
    BY <2>4, Zenon DEF LeaveLoop, Return, OnDisconnected
  <2> QED
    BY <1>3, <2>1, <2>2, <2>3, <2>4 DEF RunThread
<1>4. CASE Deleter \/ DelSpuriousWake
  <2>1. CASE DelAcquire \/ DelWait \/ DelJoin \/ DelPop
    BY <2>1, Zenon DEF DelAcquire, DelWait, DelJoin, DelPop
  <2>2. CASE DelIdle \/ DelStop \/ DelSpuriousWake
    BY <2>2, Zenon DEF DelIdle, DelStop, DelSpuriousWake
  <2> QED
    BY <1>4, <2>1, <2>2 DEF Deleter
<1>5. CASE Main
  BY <1>5, Zenon DEF Main, StopDisconnect, StopDrop, StopReturn, Destruct, DestructJoin
<1>6. ASSUME NEW w \in Workers, Worker(w) PROVE FlagsOK'
  BY <1>6, Zenon DEF Worker, BroadcastBegin, NothingToSend, BroadcastEnd, TestFlag, Moves
<1> QED
  BY <1>1, <1>2, <1>3, <1>4, <1>5, <1>6 DEF Next, Step

\* Every variable keeps its type in every behaviour of the server's threads.
THEOREM TypeCorrect == Spec => []TypeOK
<1>1. Init => DataOK
  BY DEF Init, DataOK, RunPcs, DelPcs, MainPcs, WorkerPcs
<1>2. Init => FlagsOK
  BY Zenon DEF Init, FlagsOK
<1> QED
  BY <1>1, <1>2, DataStep, FlagsStep, PTL DEF Spec, TypeOK
-----------------------------------------------------------------------------
\* What a run_ thread does between its first step and onDisconnected, and a
\* socket's failure, change nothing the life of a connection depends on: the
\* thread goes from one place of its loop to another.
InLoop == RunPcs \ {"unborn", "returning", "finished"}

LoopStep(c) ==
    /\ runPc[c] \in InLoop
    /\ \E pc \in InLoop : runPc' = [runPc EXCEPT ![c] = pc]
    /\ UNCHANGED <<lockVars, delVars, mainPc>>

\* The steps of a run_ thread that touch neither the lock, the queue nor the deleter.
LEMMA LoopSteps ==
    ASSUME NEW c \in Conns, DataOK, RunThread(c)
    PROVE  LoopStep(c) \/ OnDisconnected(c) \/ Return(c)
<1> USE DEF LoopStep, InLoop, RunPcs, Goto, Received, DataOK
<1>1. CASE Decide(c) \/ AskPin(c)
  BY <1>1 DEF Decide, AskPin
<1>2. CASE ConfigureStream(c)
  <2>1. runPc' = [runPc EXCEPT ![c] = "loop"]
    BY <1>2 DEF ConfigureStream, connVars
  <2> QED
    BY <1>2, <2>1 DEF ConfigureStream
<1>3. CASE StartStreamTest(c) \/ StartStreamClaim(c) \/ JoinVideo(c) \/ JoinAudio(c)
  BY <1>3 DEF StartStreamTest, StartStreamClaim, JoinVideo, JoinAudio
<1>4. CASE EndStreamTest(c) \/ EndStreamRelease(c) \/ StopCapture(c)
  BY <1>4 DEF EndStreamTest, EndStreamRelease, StopCapture
<1>5. CASE LeaveLoop(c)
  BY <1>5 DEF LeaveLoop
<1> QED
  BY <1>1, <1>2, <1>3, <1>4, <1>5 DEF RunThread

\* Every step preserves the invariant of a connection's life.
LEMMA LifeStep == DataOK /\ LifeInv /\ [Next]_vars => LifeInv'
<1> SUFFICES ASSUME DataOK, LifeInv, [Next]_vars
             PROVE  LifeInv'
  OBVIOUS
<1> USE DEF DataOK, LifeInv, LockOwned, NoThreadOutlivesConnection, DeleterJoinsOnlyLeavers,
            DeleteReqSound, NoConnectionLeaked, RunPcs, DelPcs, MainPcs, DelHolds, Past,
            connVars, lockVars, delVars, streamVars, DelLoop, Destroy
<1>1. CASE UNCHANGED vars \/ Halted
  BY <1>1 DEF Halted, vars
<1>2. ASSUME NEW c \in Conns, OnNewConnection(c) PROVE LifeInv'
  BY <1>2 DEF OnNewConnection, Goto, Elems
<1>3. ASSUME NEW c \in Conns, SockFails(c) PROVE LifeInv'
  BY <1>3 DEF SockFails
<1>4. ASSUME NEW c \in Conns, LoopStep(c) PROVE LifeInv'
  BY <1>4 DEF LoopStep, InLoop, Elems
<1>5. ASSUME NEW c \in Conns, OnDisconnected(c) PROVE LifeInv'
  <2>1. c \notin Elems(deleteReq)
    BY <1>5 DEF OnDisconnected, Elems
  <2> QED
    BY <1>5, <2>1, ElemsAppend DEF OnDisconnected, Goto, WakeDeleter, Elems
<1>6. ASSUME NEW c \in Conns, Return(c) PROVE LifeInv'
  BY <1>6 DEF Return, Goto
<1>7. CASE DelAcquire \/ DelWait \/ DelSpuriousWake
  BY <1>7 DEF DelAcquire, DelWait, DelSpuriousWake
<1>8. CASE DelPop
  <2> DEFINE q == deleteReq
  <2>1. /\ q \in Seq(Conns) /\ q # <<>>
        /\ delCur' = Head(q) /\ deleteReq' = Tail(q)
        /\ UNCHANGED <<mutex, connections, runPc, mainPc>>
        /\ delPc = "queue"
        /\ \/ Head(q) \in connections /\ delPc' = "joining"
           \/ Head(q) \notin connections /\ delPc' = "idle"
    BY <1>8 DEF DelPop
  <2>2. /\ Head(q) = q[1] /\ Len(q) \in Nat /\ Len(q) > 0
        /\ Len(Tail(q)) = Len(q) - 1
        /\ \A i \in 1..Len(Tail(q)) : i + 1 \in 1..Len(q) /\ Tail(q)[i] = q[i + 1]
        /\ Elems(q) = Elems(Tail(q)) \cup {Head(q)}
    BY <2>1, ElemsTail
  <2>3. Head(q) \notin Elems(Tail(q))
    BY <2>1, <2>2 DEF Elems
  <2>4. DeleteReqSound'
    <3>1. \A i \in 1..Len(Tail(q)) : runPc[Tail(q)[i]] \in Past
      BY <2>2
    <3>2. \A i, j \in 1..Len(Tail(q)) : Tail(q)[i] = Tail(q)[j] => i = j
      <4> SUFFICES ASSUME NEW i \in 1..Len(Tail(q)), NEW j \in 1..Len(Tail(q)),
                          Tail(q)[i] = Tail(q)[j]
                   PROVE  i = j
        OBVIOUS
      <4>1. i + 1 = j + 1
        BY <2>2
      <4> QED
        BY <4>1, <2>2
    <3> QED
      BY <2>1, <2>3, <3>1, <3>2
  <2>5. NoConnectionLeaked' /\ DeleterJoinsOnlyLeavers'
    BY <2>1, <2>2
  <2>6. LockOwned' /\ NoThreadOutlivesConnection'
    BY <2>1
  <2> QED
    BY <2>4, <2>5, <2>6
<1>9. CASE DelJoin
  BY <1>9 DEF DelJoin
<1>10. CASE DelIdle \/ DelStop
  BY <1>10 DEF DelIdle, DelStop
<1>11. ASSUME NEW c \in Conns, StopDrop(c) PROVE LifeInv'
  BY <1>11 DEF StopDrop
<1>12. CASE StopDisconnect \/ StopReturn \/ Destruct \/ DestructJoin
  BY <1>12 DEF StopDisconnect, StopReturn, Destruct, DestructJoin, WakeDeleter
<1>13. ASSUME NEW w \in Workers, Worker(w) PROVE LifeInv'
  BY <1>13 DEF Worker, BroadcastBegin, NothingToSend, BroadcastEnd, TestFlag, Moves
<1> QED
  BY <1>1, <1>2, <1>3, <1>4, <1>5, <1>6, <1>7, <1>8, <1>9, <1>10, <1>11, <1>12, <1>13,
     LoopSteps DEF Next, Step, Deleter, Main

\* For any number of connections, in every behaviour: a thread never outlives
\* its Connection, the deleter only joins threads that are done with the lock it
\* holds, deletion is requested once, and no connection is leaked.
THEOREM LifeCorrect == Spec => []LifeInv
<1>1. Init => DataOK
  BY DEF Init, DataOK, RunPcs, DelPcs, MainPcs, WorkerPcs
<1>2. Init => LifeInv
  BY DEF Init, LifeInv, LockOwned, NoThreadOutlivesConnection, DeleterJoinsOnlyLeavers,
         DeleteReqSound, NoConnectionLeaked, DelHolds, Past, Elems
<1> QED
  BY <1>1, <1>2, DataStep, LifeStep, PTL DEF Spec

\* The deleter never waits under connectionsLock for a thread that needs it.
THEOREM DeleterSound == Spec => []DeleterJoinsOnlyLeavers
<1>1. LifeInv => DeleterJoinsOnlyLeavers
  BY DEF LifeInv
<1> QED
  BY <1>1, LifeCorrect, PTL

\* Every connection whose thread has left is on its way to be destroyed.
THEOREM NothingLeaked == Spec => []NoConnectionLeaked
<1>1. LifeInv => NoConnectionLeaked
  BY DEF LifeInv
<1> QED
  BY <1>1, LifeCorrect, PTL
-----------------------------------------------------------------------------
\* Every step keeps an empty server quiet.
LEMMA QuietStep == DataOK /\ LifeInv /\ EmptyServerIsQuiet /\ [Next]_vars => EmptyServerIsQuiet'
<1> SUFFICES ASSUME DataOK, LifeInv, EmptyServerIsQuiet, [Next]_vars
             PROVE  EmptyServerIsQuiet'
  OBVIOUS
<1> USE DEF EmptyServerIsQuiet, connVars, lockVars, delVars, streamVars, Destroy, DelLoop
<1>1. CASE UNCHANGED vars \/ Halted
  BY <1>1 DEF Halted, vars
<1>2. ASSUME NEW c \in Conns, OnNewConnection(c) \/ SockFails(c) PROVE EmptyServerIsQuiet'
  BY <1>2 DEF OnNewConnection, SockFails
<1>3. ASSUME NEW c \in Conns, RunThread(c) PROVE EmptyServerIsQuiet'
  <2>1. CASE StartStreamClaim(c)
    <3>1. c \in connections'
      BY <2>1 DEF StartStreamClaim, LifeInv, NoThreadOutlivesConnection
    <3> QED
      BY <3>1
  <2>2. CASE Decide(c) \/ AskPin(c) \/ ConfigureStream(c)
    BY <2>2 DEF Decide, AskPin, ConfigureStream
  <2>3. CASE StartStreamTest(c) \/ JoinVideo(c) \/ JoinAudio(c)
    BY <2>3 DEF StartStreamTest, JoinVideo, JoinAudio
  <2>4. CASE EndStreamTest(c) \/ EndStreamRelease(c) \/ StopCapture(c)
    BY <2>4 DEF EndStreamTest, EndStreamRelease, StopCapture
  <2>5. CASE LeaveLoop(c) \/ Return(c) \/ OnDisconnected(c)
    BY <2>5 DEF LeaveLoop, Return, OnDisconnected, WakeDeleter
  <2> QED
    BY <1>3, <2>1, <2>2, <2>3, <2>4, <2>5 DEF RunThread
<1>4. CASE Deleter \/ DelSpuriousWake
  BY <1>4 DEF Deleter, DelAcquire, DelWait, DelJoin, DelPop, DelIdle, DelStop, DelSpuriousWake
<1>5. CASE Main
  BY <1>5 DEF Main, StopDisconnect, StopDrop, StopReturn, Destruct, DestructJoin, WakeDeleter
<1>6. ASSUME NEW w \in Workers, Worker(w) PROVE EmptyServerIsQuiet'
  BY <1>6 DEF Worker, BroadcastBegin, NothingToSend, BroadcastEnd, TestFlag, Moves
<1> QED
  BY <1>1, <1>2, <1>3, <1>4, <1>5, <1>6 DEF Next, Step

\* While the server serves, nobody who joins an empty server finds a stream on.
THEOREM QuietWhenEmpty == Spec => []EmptyServerIsQuiet
<1>1. Init => DataOK /\ EmptyServerIsQuiet
  BY DEF Init, DataOK, RunPcs, DelPcs, MainPcs, WorkerPcs, EmptyServerIsQuiet
<1> QED
  BY <1>1, LifeCorrect, DataStep, QuietStep, PTL DEF Spec
-----------------------------------------------------------------------------
\* A step that moves no thread in or out of startStream and endStream.
LEMMA StreamFrame ==
    ASSUME StreamInv,
           \A d \in Conns : runPc'[d] \in InStream \/ runPc[d] \in InStream => runPc'[d] = runPc[d],
           UNCHANGED <<connections, delPc, streaming, capture, encoder, audio, overlap, modeVars>>,
           connStreaming' \subseteq connStreaming
    PROVE  StreamInv'
BY DEF StreamInv, PipelineFollowsStreaming, InStream, modeVars

\* Every step preserves StreamInv, whichever clients start and stop the stream.
LEMMA StreamStep ==
    ASSUME DataOK, FlagsOK, LifeInv, StreamInv, [Next]_vars
    PROVE  StreamInv'
<1> USE DEF StreamInv, PipelineFollowsStreaming, InStream, DataOK, FlagsOK, Goto, RunPcs,
            connVars, lockVars, delVars, streamVars, modeVars
<1>1. CASE UNCHANGED vars \/ Halted
  BY <1>1, StreamFrame DEF Halted, vars
<1>2. ASSUME NEW c \in Conns, OnNewConnection(c) PROVE StreamInv'
  BY <1>2 DEF OnNewConnection, LifeInv, LockOwned, DelHolds
<1>3. ASSUME NEW c \in Conns, SockFails(c) PROVE StreamInv'
  BY <1>3, StreamFrame DEF SockFails
<1>4. ASSUME NEW c \in Conns, RunThread(c) PROVE StreamInv'
  <2>1. runPc[c] \in InStream \cup {"loop"} => delPc # "stopping"
    BY DEF LifeInv, NoThreadOutlivesConnection
  <2>2. ~overlap /\ runPc[c] \in InStream => \A d \in Conns : d # c => runPc[d] \notin InStream
    OBVIOUS
  <2>3. CASE Decide(c) \/ AskPin(c) \/ LeaveLoop(c) \/ Return(c)
    <3>1. \A d \in Conns : runPc'[d] \in InStream \/ runPc[d] \in InStream => runPc'[d] = runPc[d]
      BY <2>3 DEF Decide, AskPin, LeaveLoop, Return, Received
    <3>2. UNCHANGED <<connections, connStreaming, delVars, streamVars>>
      BY <2>3 DEF Decide, AskPin, LeaveLoop, Return
    <3> QED
      BY <3>1, <3>2, StreamFrame
  <2>4. CASE ConfigureStream(c)
    BY <2>4 DEF ConfigureStream, Received
  <2>5. CASE StartStreamTest(c)
    BY <2>1, <2>5 DEF StartStreamTest, Received, Enters
  <2>6. CASE StartStreamClaim(c)
    BY <2>1, <2>2, <2>6 DEF StartStreamClaim
  <2>7. CASE JoinVideo(c)
    BY <2>1, <2>2, <2>7 DEF JoinVideo
  <2>8. CASE JoinAudio(c)
    BY <2>1, <2>2, <2>8 DEF JoinAudio
  <2>9. CASE EndStreamTest(c)
    BY <2>1, <2>9 DEF EndStreamTest, Received, Enters
  <2>10. CASE EndStreamRelease(c)
    BY <2>1, <2>2, <2>10 DEF EndStreamRelease
  <2>11. CASE StopCapture(c)
    BY <2>1, <2>2, <2>11 DEF StopCapture
  <2>12. CASE OnDisconnected(c)
    BY <2>12 DEF OnDisconnected, WakeDeleter
  <2> QED
    BY <1>4, <2>3, <2>4, <2>5, <2>6, <2>7, <2>8, <2>9, <2>10, <2>11, <2>12 DEF RunThread
<1>5. CASE DelAcquire \/ DelWait \/ DelSpuriousWake \/ DelPop
  BY <1>5 DEF DelAcquire, DelWait, DelSpuriousWake, DelPop, DelLoop
<1>6. CASE DelJoin
  BY <1>6 DEF DelJoin, Destroy
<1>7. CASE DelIdle
  BY <1>7 DEF DelIdle, DelLoop, LifeInv, NoThreadOutlivesConnection
<1>8. CASE DelStop
  BY <1>8 DEF DelStop, DelLoop, LifeInv, NoThreadOutlivesConnection
<1>9. CASE Main
  BY <1>9 DEF Main, StopDisconnect, StopDrop, StopReturn, Destruct, DestructJoin, WakeDeleter, Destroy
<1>10. ASSUME NEW w \in Workers, Worker(w) PROVE StreamInv'
  BY <1>10, StreamFrame DEF Worker, BroadcastBegin, NothingToSend, BroadcastEnd, TestFlag, Moves
<1> QED
  BY <1>1, <1>2, <1>3, <1>4, <1>5, <1>6, <1>7, <1>8, <1>9, <1>10 DEF Next, Step, Deleter

\* The invariant behind the two theorems that follow, for any clients that configure, start
\* and stop the stream in any order.
THEOREM StreamCorrect == Spec => []StreamInv
<1>1. Init => DataOK /\ StreamInv
  BY NoConnAssumption
     DEF Init, DataOK, RunPcs, DelPcs, MainPcs, WorkerPcs, StreamInv, PipelineFollowsStreaming, InStream
<1>2. Init => FlagsOK
  BY Zenon DEF Init, FlagsOK
<1>3. DataOK /\ FlagsOK /\ LifeInv /\ StreamInv /\ [Next]_vars => StreamInv'
  BY StreamStep
<1> QED
  BY <1>1, <1>2, <1>3, DataStep, FlagsStep, LifeCorrect, PTL DEF Spec

\* As long as no two threads are in startStream or endStream at once, the assertions of the
\* capture pipeline and its encoder hold and both encoders follow `streaming', however many
\* clients take turns at starting and stopping it.
THEOREM PipelineCorrect == Spec => []PipelineFollowsStreaming
<1>1. StreamInv => PipelineFollowsStreaming
  BY DEF StreamInv
<1> QED
  BY <1>1, StreamCorrect, PTL

\* And a client whose request is the last one has the encoder run in its mode, even when
\* starts and stops overlap.
THEOREM ModeCorrect == Spec => []ModeAgreed
<1>1. StreamInv => ModeAgreed
  BY DEF StreamInv, ModeAgreed
<1> QED
  BY <1>1, StreamCorrect, PTL
-----------------------------------------------------------------------------
(* StreamServer implements ConnectionRegistry.                             *)

\* A step that leaves the phase of every connection and `streaming' alone.
LEMMA RegistryStutter ==
    ASSUME UNCHANGED streaming, \A d \in Conns : Phase(d)' = Phase(d)
    PROVE  UNCHANGED Registry!vars
BY DEF Registry!vars

\* Every step is a step of the registry, or changes nothing it speaks about.
LEMMA RegistryStep ==
    ASSUME DataOK, LifeInv, EmptyServerIsQuiet, [Next]_vars
    PROVE  [Registry!Next]_(Registry!vars)
<1> USE DEF DataOK, LifeInv, NoThreadOutlivesConnection, Phase, Past, Goto, RunPcs,
            connVars, lockVars, delVars, streamVars
<1> DEFINE R == [Registry!Next]_(Registry!vars)
<1>1. CASE UNCHANGED vars \/ Halted
  BY <1>1, RegistryStutter DEF Halted, vars
<1>2. ASSUME NEW c \in Conns, OnNewConnection(c) PROVE R
  <2>1. Registry!Present = {} => ~streaming
    BY <1>2 DEF OnNewConnection, Registry!Present, EmptyServerIsQuiet, LockOwned, DelHolds
  <2>2. [d \in Conns |-> Phase(d)]' = [[d \in Conns |-> Phase(d)] EXCEPT ![c] = "open"]
    BY <1>2 DEF OnNewConnection
  <2>3. Registry!Open(c)
    BY <1>2, <2>1, <2>2 DEF OnNewConnection, Registry!Open
  <2> QED
    BY <2>3 DEF Registry!Next
<1>3. ASSUME NEW c \in Conns, SockFails(c) PROVE R
  BY <1>3, RegistryStutter DEF SockFails
<1>4. ASSUME NEW c \in Conns, RunThread(c) PROVE R
  <2>1. CASE Decide(c) \/ AskPin(c) \/ ConfigureStream(c)
    BY <2>1, RegistryStutter DEF Decide, AskPin, ConfigureStream, Received
  <2>2. CASE StartStreamTest(c) \/ JoinVideo(c) \/ JoinAudio(c)
    BY <2>2, RegistryStutter DEF StartStreamTest, JoinVideo, JoinAudio, Received
  <2>3. CASE StartStreamClaim(c)
    <3>1. Registry!TurnOn(c)
      BY <2>3 DEF StartStreamClaim, Registry!TurnOn
    <3> QED
      BY <3>1 DEF Registry!Next
  <2>4. CASE EndStreamTest(c) \/ StopCapture(c) \/ LeaveLoop(c) \/ Return(c)
    BY <2>4, RegistryStutter DEF EndStreamTest, StopCapture, LeaveLoop, Return, Received
  <2>5. CASE EndStreamRelease(c)
    <3>1. Registry!TurnOff
      BY <2>5 DEF EndStreamRelease, Registry!TurnOff
    <3> QED
      BY <3>1 DEF Registry!Next
  <2>6. CASE OnDisconnected(c)
    <3>1. Registry!Leave(c)
      BY <2>6 DEF OnDisconnected, Registry!Leave
    <3> QED
      BY <3>1 DEF Registry!Next
  <2> QED
    BY <1>4, <2>1, <2>2, <2>3, <2>4, <2>5, <2>6 DEF RunThread
<1>5. CASE DelJoin
  <2>1. PICK c \in Conns : c = delCur
    BY <1>5 DEF DelJoin, DeleterJoinsOnlyLeavers
  <2>2. Registry!Reclaim(c)
    BY <1>5, <2>1 DEF DelJoin, Destroy, Registry!Reclaim, DeleterJoinsOnlyLeavers
  <2> QED
    BY <2>2 DEF Registry!Next
<1>6. CASE DelIdle
  <2>1. CASE connections = {} /\ streaming
    <3>1. Registry!TurnOff
      BY <1>6, <2>1 DEF DelIdle, Registry!TurnOff, Registry!Present
    <3> QED
      BY <3>1 DEF Registry!Next
  <2>2. CASE ~(connections = {} /\ streaming)
    BY <1>6, <2>2, RegistryStutter DEF DelIdle
  <2> QED
    BY <2>1, <2>2
<1>7. CASE DelAcquire \/ DelWait \/ DelPop \/ DelSpuriousWake
  BY <1>7, RegistryStutter DEF DelAcquire, DelWait, DelPop, DelSpuriousWake
<1>8. CASE DelStop
  BY <1>8, RegistryStutter DEF DelStop
<1>9. ASSUME NEW c \in Conns, StopDrop(c) PROVE R
  <2>1. Registry!Reclaim(c)
    BY <1>9 DEF StopDrop, Destroy, Registry!Reclaim
  <2> QED
    BY <2>1 DEF Registry!Next
<1>10. CASE StopDisconnect \/ StopReturn \/ Destruct \/ DestructJoin
  BY <1>10, RegistryStutter DEF StopDisconnect, StopReturn, Destruct, DestructJoin
<1>11. ASSUME NEW w \in Workers, Worker(w) PROVE R
  BY <1>11, RegistryStutter DEF Worker, BroadcastBegin, NothingToSend, BroadcastEnd, TestFlag, Moves
<1> QED
  BY <1>1, <1>2, <1>3, <1>4, <1>5, <1>6, <1>7, <1>8, <1>9, <1>10, <1>11
     DEF Next, Step, Deleter, Main

\* StreamServer, with any number of connections, implements ConnectionRegistry.
THEOREM RegistryImplemented == Spec => ImplementsRegistry
<1>1. Init => DataOK /\ Registry!Init
  BY DEF Init, DataOK, RunPcs, DelPcs, MainPcs, WorkerPcs, Registry!Init, Phase
<1>2. DataOK /\ LifeInv /\ EmptyServerIsQuiet /\ [Next]_vars => [Registry!Next]_(Registry!vars)
  BY RegistryStep
<1> QED
  BY <1>1, <1>2, DataStep, LifeCorrect, QuietWhenEmpty, PTL
     DEF Spec, ImplementsRegistry, Registry!Spec
-----------------------------------------------------------------------------
(* What the liveness of the server rests on, and what ends or hangs it.    *)

\* The deleter sleeps only while there is nothing to delete: what keeps
\* DeadConnectionsReclaimed from being lost between a test and a wait.
DeleterAwake == delPc = "waiting" => deleteReq = <<>>

\* No request for deletion is left unnoticed.
THEOREM DeleterWakes == Spec => []DeleterAwake
<1>1. Init => DeleterAwake
  BY DEF Init, DeleterAwake
<1>2. DataOK /\ DeleterAwake /\ [Next]_vars => DeleterAwake'
  <2> SUFFICES ASSUME DataOK, DeleterAwake, [Next]_vars PROVE DeleterAwake'
    OBVIOUS
  <2> USE DEF DeleterAwake, connVars, lockVars, delVars, Destroy, DelLoop
  <2>1. CASE UNCHANGED vars \/ Halted
    BY <2>1 DEF Halted, vars
  <2>2. ASSUME NEW c \in Conns, OnNewConnection(c) \/ SockFails(c) PROVE DeleterAwake'
    BY <2>2 DEF OnNewConnection, SockFails
  <2>3. ASSUME NEW c \in Conns, RunThread(c) PROVE DeleterAwake'
    <3>1. CASE LoopStep(c) \/ Return(c)
      BY <3>1 DEF LoopStep, Return
    <3>2. CASE OnDisconnected(c)
      BY <3>2 DEF OnDisconnected, WakeDeleter
    <3> QED
      BY <2>3, <3>1, <3>2, LoopSteps
  <2>4. CASE Deleter \/ DelSpuriousWake
    BY <2>4 DEF Deleter, DelAcquire, DelWait, DelJoin, DelPop, DelIdle, DelStop, DelSpuriousWake
  <2>5. CASE Main
    BY <2>5 DEF Main, StopDisconnect, StopDrop, StopReturn, Destruct, DestructJoin, WakeDeleter
  <2>6. ASSUME NEW w \in Workers, Worker(w) PROVE DeleterAwake'
    BY <2>6 DEF Worker, BroadcastBegin, NothingToSend, BroadcastEnd, TestFlag, Moves
  <2> QED
    BY <2>1, <2>2, <2>3, <2>4, <2>5, <2>6 DEF Next, Step
<1>3. Init => DataOK
  BY DEF Init, DataOK, RunPcs, DelPcs, MainPcs, WorkerPcs
<1> QED
  BY <1>1, <1>2, <1>3, DataStep, PTL DEF Spec

\* stop() is dropping the connections, under connectionsLock, and the thread of this
\* one has still to take that lock in onDisconnected.
Hung(c) == mainPc = "dropping" /\ c \in connections /\ runPc[c] \notin Past

\* Nobody gets out of it: the thread needs the lock, and stop() waits for the thread.
LEMMA HungStep ==
    ASSUME NEW c \in Conns, DataOK, LifeInv, Hung(c), [Next]_vars
    PROVE  Hung(c)'
<1>1. mutex = "main" /\ delPc # "joining"
  BY DEF Hung, LifeInv, LockOwned, DelHolds
<1> USE DEF Hung, Past, connVars, lockVars, delVars, Destroy, DelLoop
<1>2. CASE UNCHANGED vars \/ Halted
  BY <1>2 DEF Halted, vars
<1>3. ASSUME NEW d \in Conns, OnNewConnection(d) \/ SockFails(d) PROVE Hung(c)'
  BY <1>3 DEF OnNewConnection, SockFails
<1>4. ASSUME NEW d \in Conns, RunThread(d) PROVE Hung(c)'
  <2>1. CASE LoopStep(d)
    BY <2>1 DEF LoopStep, InLoop, RunPcs, DataOK
  <2>2. CASE OnDisconnected(d)
    BY <1>1, <2>2 DEF OnDisconnected
  <2>3. CASE Return(d)
    BY <2>3 DEF Return, Goto, DataOK
  <2> QED
    BY <1>4, <2>1, <2>2, <2>3, LoopSteps
<1>5. CASE Deleter \/ DelSpuriousWake
  BY <1>1, <1>5 DEF Deleter, DelAcquire, DelWait, DelJoin, DelPop, DelIdle, DelStop, DelSpuriousWake
<1>6. CASE Main
  BY <1>6 DEF Main, StopDisconnect, StopDrop, StopReturn, Destruct, DestructJoin
<1>7. ASSUME NEW w \in Workers, Worker(w) PROVE Hung(c)'
  BY <1>7 DEF Worker, BroadcastBegin, NothingToSend, BroadcastEnd, TestFlag, Moves
<1> QED
  BY <1>2, <1>3, <1>4, <1>5, <1>6, <1>7 DEF Next, Step

\* A stop() that meets a connection whose thread has not called onDisconnected never
\* returns, whatever the other threads do and however many connections there are.
THEOREM StopHangs ==
    ASSUME NEW c \in Conns
    PROVE  Spec => [](Hung(c) => [](mainPc = "dropping"))
<1>1. Init => DataOK
  BY DEF Init, DataOK, RunPcs, DelPcs, MainPcs, WorkerPcs
<1>2. DataOK /\ LifeInv /\ Hung(c) /\ [Next]_vars => Hung(c)'
  BY HungStep
<1>3. Hung(c) => mainPc = "dropping"
  BY DEF Hung
<1> QED
  BY <1>1, <1>2, <1>3, DataStep, LifeCorrect, PTL DEF Spec

\* A worker iterates the vector of connections, which takes no lock.
Iterating == \E w \in Workers : worker[w] = "sending"

\* The process ends only when the vector of connections changes under a broadcast, when a
\* stream is started that no client configured, or after two threads were in startStream or
\* endStream at once.
CrashCauses ==
    [][crashed' # crashed => Iterating \/ (capture /\ encoderMode = NoConn) \/ overlap]_vars

\* These three are the only ways in which the threads of the server end the process,
\* whatever its clients ask for: no assertion of the pipeline fails otherwise.
THEOREM CrashCausesCorrect == Spec => CrashCauses
<1> DEFINE Cause == Iterating \/ (capture /\ encoderMode = NoConn) \/ overlap
<1>1. ASSUME FlagsOK, StreamInv, [Next]_vars, crashed' # crashed
      PROVE  Cause
  <2>1. Step /\ ~crashed /\ crashed'
    <3>1. Step
      BY <1>1 DEF Next, Halted, vars
    <3>2. crashed \in BOOLEAN /\ crashed' \in BOOLEAN
      BY <1>1, FlagsStep DEF FlagsOK
    <3>3. ~crashed
      BY <3>1 DEF Step
    <3> QED
      BY <1>1, <3>1, <3>2, <3>3
  <2>2. SUFFICES ASSUME ~overlap PROVE Cause
    OBVIOUS
  <2> USE DEF StreamInv, PipelineFollowsStreaming, InStream
  <2>3. ASSUME NEW c \in Conns, RunThread(c) PROVE Cause
    <3>1. CASE StartStreamClaim(c)
      BY <1>1, <2>1, <2>2, <3>1 DEF StartStreamClaim
    <3>2. CASE JoinVideo(c)
      <4>1. ~JoinRace(c)
        BY <1>1, <2>2, <3>2 DEF JoinVideo, JoinRace
      <4> QED
        BY <1>1, <2>1, <2>2, <3>2, <4>1 DEF JoinVideo
    <3>3. CASE JoinAudio(c)
      <4>1. ~JoinRace(c)
        BY <1>1, <2>2, <3>3 DEF JoinAudio, JoinRace
      <4> QED
        BY <2>1, <3>3, <4>1 DEF JoinAudio
    <3>4. CASE EndStreamRelease(c) \/ StopCapture(c)
      BY <1>1, <2>1, <2>2, <3>4 DEF EndStreamRelease, StopCapture
    <3>5. CASE Decide(c) \/ AskPin(c) \/ ConfigureStream(c) \/ StartStreamTest(c)
               \/ EndStreamTest(c) \/ LeaveLoop(c) \/ OnDisconnected(c) \/ Return(c)
      <4>1. crashed' = crashed
        BY <3>5 DEF Decide, AskPin, ConfigureStream, StartStreamTest, EndStreamTest, LeaveLoop,
                    OnDisconnected, Return
      <4> QED
        BY <1>1, <4>1
    <3> QED
      BY <2>3, <3>1, <3>2, <3>3, <3>4, <3>5 DEF RunThread
  <2>4. ASSUME NEW c \in Conns, OnNewConnection(c) \/ SockFails(c) PROVE Cause
    BY <1>1, <2>1, <2>4 DEF OnNewConnection, SockFails, Disturb, Iterating
  <2>5. ASSUME Deleter \/ DelSpuriousWake PROVE Cause
    <3>1. CASE DelStop
      BY <1>1, <2>1, <2>2, <3>1 DEF DelStop
    <3>2. CASE DelJoin
      BY <2>1, <3>2 DEF DelJoin, Destroy, Disturb, Iterating
    <3> QED
      BY <1>1, <2>5, <3>1, <3>2 DEF Deleter, DelAcquire, DelWait, DelPop, DelIdle, DelSpuriousWake
  <2>6. ASSUME Main PROVE Cause
    BY <1>1, <2>1, <2>6 DEF Main, StopDisconnect, StopDrop, StopReturn, Destruct, DestructJoin,
                            Destroy, Disturb, Iterating
  <2>7. ASSUME NEW w \in Workers, Worker(w) PROVE Cause
    BY <1>1, <2>7 DEF Worker, BroadcastBegin, NothingToSend, BroadcastEnd, TestFlag, Moves
  <2> QED
    BY <2>1, <2>3, <2>4, <2>5, <2>6, <2>7 DEF Step
<1>2. FlagsOK /\ StreamInv /\ [Next]_vars => [crashed' # crashed => Cause]_vars
  BY <1>1
<1> QED
  BY <1>2, StreamCorrect, TypeCorrect, PTL DEF Spec, CrashCauses, TypeOK
=============================================================================
