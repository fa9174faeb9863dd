------------------------ MODULE ExecutorStreamProofs ------------------------
(***************************************************************************)
(* Proofs about ExecutorStream, for every set of requests and every bound, *)
(* and for every assignment of stream ids where nothing else is said: what *)
(* upstream and the client see of a stream, that it implements its         *)
(* promise, and that no stream is out of a shutdown's reach.               *)
(***************************************************************************)
EXTENDS ExecutorStream, TLAPS

\* What ties a request's handler, once bodies and goroutines together.
StreamInv ==
  /\ TypeOK
  /\ \A i \in StreamIDs : activeStreams[i] # NoRequest =>
        handler[activeStreams[i]] = "accepted" /\ StreamID[activeStreams[i]] = i
  /\ drain.cur # NoRequest => handler[drain.cur] = "accepted"
  /\ \A r \in Requests :
        /\ handler[r] \in {"idle", "opened"} => upstreamCloses[r] = 0
        /\ handler[r] = "refused" => upstreamCloses[r] <= 1
        /\ handler[r] # "accepted" =>
              /\ stop[r] = "new" /\ session[r] = "new"
              /\ pump[r] = "none" /\ timer[r] = "none"
        /\ (handler[r] = "accepted" /\ stop[r] = "new") => upstreamCloses[r] = 0
        /\ stop[r] # "new" => upstreamCloses[r] = 1
        /\ session[r] \in {"closing", "done"} => stop[r] = "done"
        /\ pump[r] = "exited" => session[r] = "done"

\* Without quiesce the session alone runs stop, and each of its states fixes
\* what the host has been told.
UndrainedInv ==
  /\ drain.pc = "idle"
  /\ drains = 0
  /\ \A r \in Requests :
        /\ stop[r] # "byDrain"
        /\ session[r] \in {"new", "reporting"} => stop[r] = "new" /\ errorFrames[r] = 0
        /\ errorFrames[r] <= 1
        /\ clientCloses[r] = IF session[r] = "done" THEN 1 ELSE 0

\* TypeOK (the state of executor.go's streams): every handler, once, goroutine
\* and host counter stays in its domain.
LEMMA InitType == Init => TypeOK
  BY StreamAssumption DEF Init, TypeOK, IdleDrain, HandlerState, OnceState, SessionState, PumpState, TimerState, DrainState

LEMMA TypeStep == TypeOK /\ [Next]_vars => TypeOK'
<1>1. TypeOK /\ [Next]_vars => TypeOK'
  <2>. SUFFICES ASSUME TypeOK, [Next]_vars PROVE TypeOK'
    OBVIOUS
  <2>. USE StreamAssumption DEF TypeOK, handlerVars, pumpVars, drainVars, hostVars,
      HandlerState, OnceState, SessionState, PumpState, TimerState, DrainState
  <2>1. ASSUME NEW r \in Requests,
               \/ OpenUnreachable(r) \/ OpenNotOK(r) \/ OpenOK(r)
               \/ RegisterDuplicate(r) \/ Register(r)
               \/ SessionStep(r) \/ PumpStep(r)
        PROVE  TypeOK'
    <3>1. CASE OpenUnreachable(r)
      BY <3>1 DEF OpenUnreachable
    <3>2. CASE OpenNotOK(r)
      BY <3>2 DEF OpenNotOK, Bump
    <3>3. CASE OpenOK(r)
      BY <3>3 DEF OpenOK
    <3>4. CASE RegisterDuplicate(r)
      BY <3>4 DEF RegisterDuplicate, Bump
    <3>5. CASE Register(r)
      BY <3>5 DEF Register, RegisterGuard
    <3>6. CASE ReportError(r)
      BY <3>6 DEF ReportError, Bump
    <3>7. CASE SessionStop(r)
      BY <3>7 DEF SessionStop, StopClaim, Bump
    <3>8. CASE SessionDeregister(r)
      BY <3>8 DEF SessionDeregister, StopDone
    <3>9. CASE SessionStopped(r)
      BY <3>9 DEF SessionStopped, StopReturned
    <3>10. CASE CloseClient(r)
      BY <3>10 DEF CloseClient, Bump
    <3>11. CASE PumpStart(r)
      BY <3>11 DEF PumpStart
    <3>12. CASE ReadCall(r)
      BY <3>12 DEF ReadCall
    <3>13. CASE ReadError(r)
      BY <3>13 DEF ReadError, EndSession
    <3>14. CASE \E n \in 0..MaxFrames : ReadChunk(r, n)
      BY <3>14 DEF ReadChunk, Bump
    <3>15. CASE \E n \in 0..MaxFrames : ReadDone(r, n)
      BY <3>15 DEF ReadDone
    <3>16. CASE EmitOK(r)
      BY <3>16 DEF EmitOK
    <3>17. CASE EmitError(r)
      BY <3>17 DEF EmitError, EndSession
    <3>18. CASE EmittedChunk(r)
      BY <3>18 DEF EmittedChunk
    <3>19. CASE EmittedAll(r)
      BY <3>19 DEF EmittedAll, EndSession
    <3>20. CASE PumpExit(r)
      BY <3>20 DEF PumpExit
    <3>21. CASE TimerFire(r)
      BY <3>21 DEF TimerFire, TimeoutFail, EndSession
    <3>22. CASE TimerReturn(r)
      BY <3>22 DEF TimerReturn
    <3>. QED BY <2>1, <3>1, <3>2, <3>3, <3>4, <3>5, <3>6, <3>7, <3>8, <3>9, <3>10, <3>11, <3>12, <3>13, <3>14, <3>15, <3>16, <3>17, <3>18, <3>19, <3>20, <3>21, <3>22 DEF SessionStep, PumpStep
  <2>2. CASE \E ids \in SUBSET StreamIDs : DrainStart(ids)
    <3>1. PICK ids \in SUBSET StreamIDs : DrainStart(ids)
      BY <2>2
    <3>2. {activeStreams[i] : i \in Registered} \in SUBSET Requests
      BY DEF Registered
    <3>3. drain' \in [pc : DrainState, todo : SUBSET StreamIDs,
                      cur : Requests \cup {NoRequest}, due : SUBSET Requests]
      BY <3>1, <3>2 DEF DrainStart
    <3>4. drain'.pc = "ranging"
      BY <3>1 DEF DrainStart
    <3>5. drains' \in 0..MaxDrains
      BY <3>1 DEF DrainStart
    <3>6. UNCHANGED <<handler, activeStreams, stop, session, pump, pending, last, reads,
                      timer, upstreamCloses, errorFrames, clientCloses>>
      BY <3>1 DEF DrainStart
    <3>. QED BY <3>3, <3>4, <3>5, <3>6
  <2>3. CASE \E i \in StreamIDs : DrainVisit(i)
    <3>1. PICK i \in StreamIDs : DrainVisit(i)
      BY <2>3
    <3>2. activeStreams[i] \in Requests
      BY <3>1 DEF DrainVisit, Present
    <3>. QED BY <3>1, <3>2 DEF DrainVisit
  <2>4. CASE \E i \in StreamIDs : DrainSkip(i)
    BY <2>4 DEF DrainSkip
  <2>5. CASE DrainStop
    BY <2>5 DEF DrainStop, StopClaim, Bump
  <2>6. CASE DrainDeregister
    BY <2>6 DEF DrainDeregister, StopDone
  <2>7. CASE DrainStopped
    BY <2>7 DEF DrainStopped, DrainStoppedGuard
  <2>8. CASE DrainClose
    BY <2>8 DEF DrainClose, Bump
  <2>9. CASE DrainDelete
    BY <2>9 DEF DrainDelete
  <2>10. CASE DrainReturn
    BY <2>10 DEF DrainReturn, IdleDrain
  <2>11. CASE UNCHANGED vars
    BY <2>11 DEF vars, handlerVars, pumpVars, drainVars, hostVars
  <2>. QED BY <2>1, <2>2, <2>3, <2>4, <2>5, <2>6, <2>7, <2>8, <2>9, <2>10, <2>11 DEF Next, DrainStep, Idle
<1>. QED BY <1>1

\* StreamInv (executor.go:135-182): no step of any goroutine breaks the tie
\* between a request's handler, its onces and its upstream stream.
LEMMA InitStreamInv == Init => StreamInv
  BY InitType, StreamAssumption DEF Init, StreamInv, IdleDrain

LEMMA StreamStep == StreamInv /\ [Next]_vars => StreamInv'
<1>. SUFFICES ASSUME StreamInv, [Next]_vars PROVE StreamInv'
  OBVIOUS
<1>. TypeOK /\ TypeOK'
  BY TypeStep DEF StreamInv
<1>. USE StreamAssumption DEF StreamInv, TypeOK, handlerVars, pumpVars, drainVars, hostVars
<1>1. ASSUME NEW r \in Requests,
             \/ OpenUnreachable(r) \/ OpenNotOK(r) \/ OpenOK(r)
             \/ RegisterDuplicate(r) \/ Register(r)
             \/ SessionStep(r) \/ PumpStep(r)
      PROVE  StreamInv'
  <2>1. CASE OpenUnreachable(r)
    BY <2>1 DEF OpenUnreachable
  <2>2. CASE OpenNotOK(r)
    BY <2>2 DEF OpenNotOK, Bump
  <2>3. CASE OpenOK(r)
    BY <2>3 DEF OpenOK
  <2>4. CASE RegisterDuplicate(r)
    BY <2>4 DEF RegisterDuplicate, Bump
  <2>5. CASE Register(r)
    BY <2>5 DEF Register, RegisterGuard
  <2>6. CASE ReportError(r)
    BY <2>6 DEF ReportError, Bump
  <2>7. CASE SessionStop(r)
    BY <2>7 DEF SessionStop, StopClaim, Bump
  <2>8. CASE SessionDeregister(r)
    BY <2>8 DEF SessionDeregister, StopDone
  <2>9. CASE SessionStopped(r)
    BY <2>9 DEF SessionStopped, StopReturned
  <2>10. CASE CloseClient(r)
    BY <2>10 DEF CloseClient, Bump
  <2>11. CASE PumpStart(r)
    BY <2>11 DEF PumpStart
  <2>12. CASE ReadCall(r)
    BY <2>12 DEF ReadCall
  <2>13. CASE ReadError(r)
    BY <2>13 DEF ReadError, EndSession
  <2>14. CASE \E n \in 0..MaxFrames : ReadChunk(r, n)
    BY <2>14 DEF ReadChunk, Bump
  <2>15. CASE \E n \in 0..MaxFrames : ReadDone(r, n)
    BY <2>15 DEF ReadDone
  <2>16. CASE EmitOK(r)
    BY <2>16 DEF EmitOK
  <2>17. CASE EmitError(r)
    BY <2>17 DEF EmitError, EndSession
  <2>18. CASE EmittedChunk(r)
    BY <2>18 DEF EmittedChunk
  <2>19. CASE EmittedAll(r)
    BY <2>19 DEF EmittedAll, EndSession
  <2>20. CASE PumpExit(r)
    BY <2>20 DEF PumpExit
  <2>21. CASE TimerFire(r)
    BY <2>21 DEF TimerFire, TimeoutFail, EndSession
  <2>22. CASE TimerReturn(r)
    BY <2>22 DEF TimerReturn
  <2>. QED BY <1>1, <2>1, <2>2, <2>3, <2>4, <2>5, <2>6, <2>7, <2>8, <2>9, <2>10, <2>11, <2>12, <2>13, <2>14, <2>15, <2>16, <2>17, <2>18, <2>19, <2>20, <2>21, <2>22
         DEF SessionStep, PumpStep
<1>2. CASE \E ids \in SUBSET StreamIDs : DrainStart(ids)
  <2>1. PICK ids \in SUBSET StreamIDs : DrainStart(ids)
    BY <1>2
  <2>2. drain'.cur = drain.cur
    BY <2>1 DEF DrainStart
  <2>3. UNCHANGED <<handler, activeStreams, stop, session, pump, timer, upstreamCloses>>
    BY <2>1 DEF DrainStart
  <2>. QED BY <2>2, <2>3
<1>3. CASE \E i \in StreamIDs : DrainVisit(i)
  <2>1. PICK i \in StreamIDs : DrainVisit(i)
    BY <1>3
  <2>2. activeStreams[i] # NoRequest /\ drain'.cur = activeStreams[i]
    BY <2>1 DEF DrainVisit, Present
  <2>3. UNCHANGED <<handler, activeStreams, stop, session, pump, timer, upstreamCloses>>
    BY <2>1 DEF DrainVisit
  <2>. QED BY <2>2, <2>3
<1>4. CASE \E i \in StreamIDs : DrainSkip(i)
  BY <1>4 DEF DrainSkip
<1>5. CASE DrainStop
  BY <1>5 DEF DrainStop, StopClaim, Bump
<1>6. CASE DrainDeregister
  BY <1>6 DEF DrainDeregister, StopDone
<1>7. CASE DrainStopped
  BY <1>7 DEF DrainStopped, DrainStoppedGuard
<1>8. CASE DrainClose
  BY <1>8 DEF DrainClose, Bump
<1>9. CASE DrainDelete
  BY <1>9 DEF DrainDelete
<1>10. CASE DrainReturn
  BY <1>10 DEF DrainReturn, IdleDrain
<1>11. CASE UNCHANGED vars
  BY <1>11 DEF vars
<1>. QED BY <1>1, <1>2, <1>3, <1>4, <1>5, <1>6, <1>7, <1>8, <1>9, <1>10, <1>11
      DEF Next, DrainStep, Idle

\* TypeOK holds throughout (executor.go:97-222, 651-682).
THEOREM TypeCorrect == Spec => []TypeOK
<1>1. Init => TypeOK
  BY InitType
<1>2. TypeOK /\ [Next]_vars => TypeOK'
  BY TypeStep
<1>. QED BY <1>1, <1>2, PTL DEF Spec

\* StreamInv holds throughout: the strengthening the next theorems rest on.
LEMMA StreamInvariant == Spec => []StreamInv
<1>1. StreamInv /\ [Next]_vars => StreamInv'
  BY StreamStep
<1>. QED BY InitStreamInv, <1>1, PTL DEF Spec

\* executor.go:188-190: however the pump, the timer, the session and any number
\* of quiesce calls interleave, an upstream stream is closed at most once, and
\* has been closed once its goroutine is gone.
THEOREM UpstreamReleasedOnce == Spec => []UpstreamClosedOnce
<1>1. StreamInv => UpstreamClosedOnce
  <2>. SUFFICES ASSUME StreamInv, NEW r \in Requests
       PROVE  /\ upstreamCloses[r] <= 1
              /\ pump[r] = "exited" => upstreamCloses[r] = 1
              /\ stop[r] = "done" => upstreamCloses[r] = 1
    BY DEF UpstreamClosedOnce
  <2>. handler[r] \in {"idle", "opened", "refused", "accepted"} /\ upstreamCloses[r] \in Nat
    BY DEF StreamInv, TypeOK, HandlerState
  <2>. QED BY DEF StreamInv
<1>. QED BY <1>1, StreamInvariant, PTL

\* Without quiesce calls, UndrainedInv (executor.go:161-186) is kept by every step.
LEMMA UndrainedStep ==
  ASSUME MaxDrains = 0, StreamInv, UndrainedInv, [Next]_vars
  PROVE  UndrainedInv'
<1>. USE StreamAssumption DEF UndrainedInv, StreamInv, TypeOK, handlerVars, pumpVars, drainVars, hostVars
<1>1. ASSUME NEW r \in Requests,
             \/ OpenUnreachable(r) \/ OpenNotOK(r) \/ OpenOK(r)
             \/ RegisterDuplicate(r) \/ Register(r)
             \/ SessionStep(r) \/ PumpStep(r)
      PROVE  UndrainedInv'
  <2>1. CASE OpenUnreachable(r)
    BY <2>1 DEF OpenUnreachable
  <2>2. CASE OpenNotOK(r)
    BY <2>2 DEF OpenNotOK, Bump
  <2>3. CASE OpenOK(r)
    BY <2>3 DEF OpenOK
  <2>4. CASE RegisterDuplicate(r)
    BY <2>4 DEF RegisterDuplicate, Bump
  <2>5. CASE Register(r)
    BY <2>5 DEF Register, RegisterGuard
  <2>6. CASE ReportError(r)
    BY <2>6 DEF ReportError, Bump
  <2>7. CASE SessionStop(r)
    BY <2>7 DEF SessionStop, StopClaim, Bump
  <2>8. CASE SessionDeregister(r)
    BY <2>8 DEF SessionDeregister, StopDone
  <2>9. CASE SessionStopped(r)
    BY <2>9 DEF SessionStopped, StopReturned
  <2>10. CASE CloseClient(r)
    BY <2>10 DEF CloseClient, Bump
  <2>11. CASE PumpStart(r)
    BY <2>11 DEF PumpStart
  <2>12. CASE ReadCall(r)
    BY <2>12 DEF ReadCall
  <2>13. CASE ReadError(r)
    BY <2>13 DEF ReadError, EndSession
  <2>14. CASE \E n \in 0..MaxFrames : ReadChunk(r, n)
    BY <2>14 DEF ReadChunk, Bump
  <2>15. CASE \E n \in 0..MaxFrames : ReadDone(r, n)
    BY <2>15 DEF ReadDone
  <2>16. CASE EmitOK(r)
    BY <2>16 DEF EmitOK
  <2>17. CASE EmitError(r)
    BY <2>17 DEF EmitError, EndSession
  <2>18. CASE EmittedChunk(r)
    BY <2>18 DEF EmittedChunk
  <2>19. CASE EmittedAll(r)
    BY <2>19 DEF EmittedAll, EndSession
  <2>20. CASE PumpExit(r)
    BY <2>20 DEF PumpExit
  <2>21. CASE TimerFire(r)
    BY <2>21 DEF TimerFire, TimeoutFail, EndSession
  <2>22. CASE TimerReturn(r)
    BY <2>22 DEF TimerReturn
  <2>. QED BY <1>1, <2>1, <2>2, <2>3, <2>4, <2>5, <2>6, <2>7, <2>8, <2>9, <2>10, <2>11, <2>12, <2>13, <2>14, <2>15, <2>16, <2>17, <2>18, <2>19, <2>20, <2>21, <2>22
         DEF SessionStep, PumpStep
<1>2. ~\E ids \in SUBSET StreamIDs : DrainStart(ids)
  BY DEF DrainStart
<1>3. ~DrainStep
  BY DEF DrainStep, DrainVisit, DrainSkip, DrainStop, DrainDeregister, DrainStopped,
         DrainStoppedGuard, DrainClose, DrainDelete, DrainReturn
<1>4. CASE UNCHANGED vars
  BY <1>4 DEF vars
<1>. QED BY <1>1, <1>2, <1>3, <1>4 DEF Next, Idle

LEMMA UndrainedInvariant ==
  ASSUME MaxDrains = 0 PROVE Spec => [](StreamInv /\ UndrainedInv)
<1>1. Init => StreamInv /\ UndrainedInv
  BY InitStreamInv DEF Init, UndrainedInv, IdleDrain
<1>2. StreamInv /\ UndrainedInv /\ [Next]_vars => (StreamInv /\ UndrainedInv)'
  BY StreamStep, UndrainedStep
<1>. QED BY <1>1, <1>2, PTL DEF Spec

\* executor.go:161-164: as long as the plugin is not quiesced, a stream gets at
\* most one error frame and one close, whoever ends it.
THEOREM SessionEndsOnce ==
  ASSUME MaxDrains = 0 PROVE Spec => []ClientEndedOnce
<1>1. StreamInv /\ UndrainedInv => ClientEndedOnce
  BY DEF StreamInv, TypeOK, UndrainedInv, ClientEndedOnce
<1>. QED BY <1>1, UndrainedInvariant, PTL

\* executor.go:97-222 implements StreamPromise as long as the plugin is not
\* quiesced: every step is a step the host was promised, or changes nothing it
\* can see.
LEMMA PromiseStep ==
  ASSUME MaxDrains = 0, StreamInv, UndrainedInv, [Next]_vars
  PROVE  [Promise!Next]_Promise!vars
<1>. USE StreamAssumption
<1>1. CASE UNCHANGED vars
  BY <1>1 DEF vars, Promise!vars, handlerVars, hostVars
<1>2. ASSUME NEW r \in Requests,
             \/ OpenUnreachable(r) \/ OpenNotOK(r) \/ OpenOK(r)
             \/ RegisterDuplicate(r) \/ Register(r)
             \/ SessionStep(r) \/ PumpStep(r)
      PROVE  [Promise!Next]_Promise!vars
  <2>1. CASE OpenUnreachable(r)
    <3>1. Promise!Refuse(r)
      BY <2>1 DEF OpenUnreachable, Promise!Refuse, hostVars
    <3>. QED BY <3>1 DEF Promise!Next
  <2>2. CASE OpenNotOK(r)
    <3>1. handler[r] = "idle" /\ upstreamCloses[r] = 0
      BY <2>2 DEF OpenNotOK, StreamInv, UndrainedInv
    <3>2. upstreamCloses' = [upstreamCloses EXCEPT ![r] = 1]
      BY <2>2, <3>1 DEF OpenNotOK, Bump
    <3>3. Promise!Refuse(r)
      BY <2>2, <3>1, <3>2 DEF OpenNotOK, Promise!Refuse, handlerVars, hostVars
    <3>. QED BY <3>3 DEF Promise!Next
  <2>3. CASE OpenOK(r)
    <3>1. Promise!Open(r)
      BY <2>3 DEF OpenOK, Promise!Open, hostVars
    <3>. QED BY <3>1 DEF Promise!Next
  <2>4. CASE RegisterDuplicate(r)
    <3>1. handler[r] = "opened" /\ upstreamCloses[r] = 0
      BY <2>4 DEF RegisterDuplicate, StreamInv, UndrainedInv
    <3>2. upstreamCloses' = [upstreamCloses EXCEPT ![r] = 1]
      BY <2>4, <3>1 DEF RegisterDuplicate, Bump
    <3>3. Promise!Refuse(r)
      BY <2>4, <3>1, <3>2 DEF RegisterDuplicate, Promise!Refuse, handlerVars, hostVars
    <3>. QED BY <3>3 DEF Promise!Next
  <2>5. CASE Register(r)
    <3>1. Promise!Accept(r)
      BY <2>5 DEF Register, RegisterGuard, Promise!Accept, hostVars
    <3>. QED BY <3>1 DEF Promise!Next
  <2>6. CASE ReportError(r)
    <3>1. handler[r] = "accepted" /\ upstreamCloses[r] = 0 /\ errorFrames[r] = 0
           /\ clientCloses[r] = 0
      BY <2>6 DEF ReportError, StreamInv, UndrainedInv
    <3>2. errorFrames' = [errorFrames EXCEPT ![r] = 1]
      BY <2>6, <3>1 DEF ReportError, Bump
    <3>3. Promise!Fail(r)
      BY <2>6, <3>1, <3>2 DEF ReportError, Promise!Fail, handlerVars, hostVars
    <3>. QED BY <3>3 DEF Promise!Next
  <2>7. CASE SessionStop(r)
    <3>1. handler[r] = "accepted" /\ upstreamCloses[r] = 0 /\ clientCloses[r] = 0
      BY <2>7 DEF SessionStop, StopClaim, StreamInv, UndrainedInv
    <3>2. upstreamCloses' = [upstreamCloses EXCEPT ![r] = 1]
      BY <2>7, <3>1 DEF SessionStop, StopClaim, Bump
    <3>3. Promise!Release(r)
      BY <2>7, <3>1, <3>2 DEF SessionStop, StopClaim, Promise!Release, handlerVars, hostVars
    <3>. QED BY <3>3 DEF Promise!Next
  <2>8. CASE CloseClient(r)
    <3>1. handler[r] = "accepted" /\ upstreamCloses[r] = 1 /\ clientCloses[r] = 0
      BY <2>8 DEF CloseClient, StreamInv, UndrainedInv
    <3>2. clientCloses' = [clientCloses EXCEPT ![r] = 1]
      BY <2>8, <3>1 DEF CloseClient, Bump
    <3>3. Promise!End(r)
      BY <2>8, <3>1, <3>2 DEF CloseClient, Promise!End, handlerVars, hostVars
    <3>. QED BY <3>3 DEF Promise!Next
  <2>9. CASE \/ SessionDeregister(r)
            \/ SessionStopped(r)
            \/ PumpStart(r)
            \/ ReadCall(r)
            \/ ReadError(r)
            \/ \E n \in 0..MaxFrames : ReadChunk(r, n) \/ ReadDone(r, n)
            \/ EmitOK(r)
            \/ EmitError(r)
            \/ EmittedChunk(r)
            \/ EmittedAll(r)
            \/ PumpExit(r)
            \/ TimerFire(r)
            \/ TimerReturn(r)
    BY <2>9 DEF Promise!vars, handlerVars, pumpVars, drainVars, hostVars,
       SessionDeregister, SessionStopped, PumpStart, ReadCall, ReadError, ReadChunk, ReadDone,
       EmitOK, EmitError, EmittedChunk, EmittedAll, PumpExit, TimerFire, TimerReturn
  <2>. QED BY <1>2, <2>1, <2>2, <2>3, <2>4, <2>5, <2>6, <2>7, <2>8, <2>9
         DEF SessionStep, PumpStep
<1>3. ~\E ids \in SUBSET StreamIDs : DrainStart(ids)
  BY DEF DrainStart, UndrainedInv
<1>4. ~DrainStep
  BY DEF DrainStep, DrainVisit, DrainSkip, DrainStop, DrainDeregister, DrainStopped,
         DrainStoppedGuard, DrainClose, DrainDelete, DrainReturn, UndrainedInv,
         StreamInv, TypeOK
<1>. QED BY <1>1, <1>2, <1>3, <1>4 DEF Next, Idle

\* The refinement: without quiesce calls, ExecutorStream (executor.go:97-222)
\* implements StreamPromise.
THEOREM ImplementsPromise ==
  ASSUME MaxDrains = 0 PROVE Spec => KeepsPromise
<1>1. Init => Promise!Init
  BY DEF Init, Promise!Init
<1>2. StreamInv /\ UndrainedInv /\ [Next]_vars => [Promise!Next]_Promise!vars
  BY PromiseStep
<1>. QED BY <1>1, <1>2, UndrainedInvariant, PTL DEF Spec, KeepsPromise, Promise!Spec

-----------------------------------------------------------------------------
(***************************************************************************)
(* Registration and the drain.  Between the deletion of an entry by the    *)
(* stop function and the second deletion of the same key by                *)
(* closeAllActiveStreams another stream could register under that key, so  *)
(* these results need names the host does not use twice, or no drain.      *)
(***************************************************************************)

\* The host names every stream differently.
NamesUnique == \A r, s \in Requests : StreamID[r] = StreamID[s] => r = s

\* A stream's entry is its own until its stop function has run, so that
\* function, and the drain that waited for it, delete no other stream's entry.
OwnedInv ==
  /\ \A r \in Requests :
        (handler[r] = "accepted" /\ stop[r] # "done") => activeStreams[StreamID[r]] = r
  /\ drain.pc \in {"closing", "deleting"} => stop[drain.cur] = "done"

\* A stream the drain owes is stopped, or ahead in Range, or the one in hand.
DrainInv ==
  /\ drain.pc \in {"idle", "ranging"} => drain.cur = NoRequest
  /\ \A r \in drain.due :
        /\ handler[r] = "accepted"
        /\ \/ stop[r] = "done"
           \/ drain.pc # "idle" /\ StreamID[r] \in drain.todo
           \/ r = drain.cur

\* The steps that leave the registry, the stop functions and the drain alone.
Elsewhere(r) ==
  \/ OpenUnreachable(r) \/ OpenNotOK(r) \/ OpenOK(r) \/ RegisterDuplicate(r)
  \/ ReportError(r) \/ SessionStopped(r) \/ CloseClient(r) \/ PumpStep(r)

LEMMA ElsewhereFrame ==
  ASSUME TypeOK, NEW r \in Requests, Elsewhere(r)
  PROVE  /\ UNCHANGED <<activeStreams, stop, drain>>
         /\ \A s \in Requests : handler'[s] = "accepted" <=> handler[s] = "accepted"
<1>. USE DEF TypeOK, handlerVars, pumpVars, drainVars, hostVars
<1>1. CASE OpenUnreachable(r) \/ OpenNotOK(r) \/ OpenOK(r) \/ RegisterDuplicate(r)
  BY <1>1 DEF OpenUnreachable, OpenNotOK, OpenOK, RegisterDuplicate
<1>2. CASE ReportError(r) \/ SessionStopped(r) \/ CloseClient(r)
  BY <1>2 DEF ReportError, SessionStopped, CloseClient
<1>3. CASE PumpStep(r)
  BY <1>3 DEF PumpStep, PumpStart, ReadCall, ReadChunk, ReadDone, ReadError, EmitOK,
         EmitError, EmittedChunk, EmittedAll, PumpExit, TimerFire, TimerReturn
<1>. QED BY <1>1, <1>2, <1>3 DEF Elsewhere

\* registerActiveStream and the stop functions (executor.go:653-669) keep
\* OwnedInv, and so does a drain of uniquely named streams.
LEMMA OwnedStep ==
  ASSUME MaxDrains = 0 \/ NamesUnique, StreamInv, drains = 0 => drain.pc = "idle",
         OwnedInv, [Next]_vars
  PROVE  OwnedInv'
<1>. USE StreamAssumption DEF OwnedInv, handlerVars, pumpVars, drainVars, hostVars
<1>t. TypeOK /\ TypeOK'
  BY TypeStep DEF StreamInv
<1>d. drain.pc # "idle" => NamesUnique
  BY <1>t DEF TypeOK
<1>1. ASSUME NEW r \in Requests, Elsewhere(r) PROVE OwnedInv'
  BY <1>1, <1>t, ElsewhereFrame
<1>2. ASSUME NEW r \in Requests, Register(r) PROVE OwnedInv'
  <2>1. UNCHANGED <<stop, drain>>
    BY <1>2 DEF Register
  <2>2. handler' = [handler EXCEPT ![r] = "accepted"]
        /\ activeStreams' = [activeStreams EXCEPT ![StreamID[r]] = r]
    BY <1>2 DEF Register
  <2>3. ASSUME NEW s \in Requests, handler'[s] = "accepted", stop'[s] # "done"
        PROVE  activeStreams'[StreamID[s]] = s
    <3>1. CASE s = r
      BY <3>1, <2>2, <1>t DEF TypeOK
    <3>2. CASE s # r
      <4>1. activeStreams[StreamID[s]] = s
        BY <3>2, <2>1, <2>2, <2>3, <1>t DEF TypeOK
      <4>2. StreamID[s] # StreamID[r]
        BY <4>1, <1>2 DEF Register, RegisterGuard
      <4>. QED BY <4>1, <4>2, <2>2, <1>t DEF TypeOK
    <3>. QED BY <3>1, <3>2
  <2>. QED BY <2>1, <2>3
<1>3. ASSUME NEW r \in Requests, SessionStop(r) PROVE OwnedInv'
  <2>1. UNCHANGED <<handler, activeStreams, drain>>
        /\ stop[r] = "new" /\ stop' = [stop EXCEPT ![r] = "bySession"]
    BY <1>3 DEF SessionStop, StopClaim
  <2>. QED BY <2>1, <1>t DEF TypeOK
\* Whoever runs a stop function deletes the entry of the stream it stops.
<1>4. ASSUME NEW r \in Requests, handler[r] = "accepted", stop[r] # "done",
             activeStreams' = [activeStreams EXCEPT ![StreamID[r]] = NoRequest],
             stop' = [stop EXCEPT ![r] = "done"], UNCHANGED <<handler, drain>>
      PROVE  OwnedInv'
  <2>1. ASSUME NEW s \in Requests, handler'[s] = "accepted", stop'[s] # "done"
        PROVE  activeStreams'[StreamID[s]] = s
    <3>1. s # r /\ activeStreams[StreamID[s]] = s /\ activeStreams[StreamID[r]] = r
      BY <1>4, <2>1, <1>t DEF TypeOK
    <3>2. StreamID[s] # StreamID[r]
      BY <3>1
    <3>. QED BY <3>1, <3>2, <1>4, <1>t DEF TypeOK
  <2>2. drain'.pc \in {"closing", "deleting"} => stop'[drain'.cur] = "done"
    BY <1>4, <1>t DEF TypeOK
  <2>. QED BY <2>1, <2>2
<1>5. ASSUME NEW r \in Requests, SessionDeregister(r) PROVE OwnedInv'
  <2>1. handler[r] = "accepted"
    BY <1>5, <1>t DEF SessionDeregister, StreamInv
  <2>. QED BY <1>5, <2>1, <1>4 DEF SessionDeregister, StopDone
<1>6. CASE DrainDeregister
  <2>1. drain.cur \in Requests /\ handler[drain.cur] = "accepted"
    BY <1>6, <1>t DEF DrainDeregister, StreamInv, TypeOK
  <2>. QED BY <1>6, <2>1, <1>4 DEF DrainDeregister, StopDone
<1>7. CASE DrainDelete
  <2>1. drain.cur \in Requests /\ stop[drain.cur] = "done" /\ NamesUnique
    BY <1>7, <1>t, <1>d DEF DrainDelete, TypeOK
  <2>2. activeStreams' = [activeStreams EXCEPT ![StreamID[drain.cur]] = NoRequest]
        /\ UNCHANGED <<handler, stop>> /\ drain'.pc = "ranging"
    BY <1>7, <1>t DEF DrainDelete, TypeOK
  <2>3. ASSUME NEW s \in Requests, handler'[s] = "accepted", stop'[s] # "done"
        PROVE  activeStreams'[StreamID[s]] = s
    <3>1. activeStreams[StreamID[s]] = s /\ s # drain.cur
      BY <2>1, <2>2, <2>3
    <3>2. StreamID[s] # StreamID[drain.cur]
      BY <3>1, <2>1 DEF NamesUnique
    <3>. QED BY <3>1, <3>2, <2>2, <1>t DEF TypeOK
  <2>. QED BY <2>2, <2>3
<1>8. CASE DrainStop
  <2>1. UNCHANGED <<handler, activeStreams, drain>> /\ drain.cur \in Requests
        /\ stop[drain.cur] = "new" /\ stop' = [stop EXCEPT ![drain.cur] = "byDrain"]
    BY <1>8, <1>t DEF DrainStop, StopClaim, TypeOK
  <2>. QED BY <2>1, <1>t DEF TypeOK
<1>9. CASE DrainStopped \/ DrainClose
  BY <1>9, <1>t DEF DrainStopped, DrainStoppedGuard, DrainClose, TypeOK
<1>10. CASE \/ \E ids \in SUBSET StreamIDs : DrainStart(ids)
            \/ \E i \in StreamIDs : DrainVisit(i) \/ DrainSkip(i)
            \/ DrainReturn
  <2>1. UNCHANGED <<handler, activeStreams, stop>>
        /\ drain'.pc \notin {"closing", "deleting"}
    <3>1. CASE \E ids \in SUBSET StreamIDs : DrainStart(ids)
      BY <3>1, <1>t DEF DrainStart, TypeOK
    <3>2. CASE \E i \in StreamIDs : DrainVisit(i) \/ DrainSkip(i)
      BY ZenonT(60), <3>2, <1>t DEF DrainVisit, DrainSkip, TypeOK
    <3>3. CASE DrainReturn
      BY <3>3, <1>t DEF DrainReturn, IdleDrain, TypeOK
    <3>. QED BY <1>10, <3>1, <3>2, <3>3
  <2>. QED BY <2>1
<1>11. CASE UNCHANGED vars
  BY <1>11 DEF vars
<1>. QED BY <1>1, <1>2, <1>3, <1>5, <1>6, <1>7, <1>8, <1>9, <1>10, <1>11
      DEF Next, SessionStep, DrainStep, Elsewhere, Idle

\* Range (executor.go:671-682) loses no stream it owes, whichever streams
\* register, stop or disappear meanwhile.
LEMMA DrainInvStep ==
  ASSUME StreamInv, OwnedInv, OwnedInv', DrainInv, [Next]_vars
  PROVE  DrainInv'
<1>. USE StreamAssumption DEF DrainInv, handlerVars, pumpVars, drainVars, hostVars
<1>t. TypeOK /\ TypeOK'
  BY TypeStep DEF StreamInv
\* A step outside the drain: no stop function forgets that it has run.
<1>1. ASSUME UNCHANGED drain,
             \A s \in Requests : handler[s] = "accepted" => handler'[s] = "accepted",
             \A s \in Requests : stop[s] = "done" => stop'[s] = "done"
      PROVE  DrainInv'
  <2>1. drain.due \subseteq Requests
    BY <1>t DEF TypeOK
  <2>. QED BY <1>1, <2>1
<1>2. ASSUME NEW r \in Requests, Elsewhere(r) PROVE DrainInv'
  BY <1>1, <1>2, <1>t, ElsewhereFrame
<1>3. ASSUME NEW r \in Requests,
             Register(r) \/ SessionStop(r) \/ SessionDeregister(r)
      PROVE  DrainInv'
  <2>1. UNCHANGED drain
    BY <1>3 DEF Register, SessionStop, SessionDeregister
  <2>2. \A s \in Requests : handler[s] = "accepted" => handler'[s] = "accepted"
    BY <1>3, <1>t DEF Register, SessionStop, SessionDeregister, TypeOK
  <2>3. \A s \in Requests : stop[s] = "done" => stop'[s] = "done"
    BY <1>3, <1>t DEF Register, SessionStop, StopClaim, SessionDeregister, StopDone, TypeOK
  <2>. QED BY <1>1, <2>1, <2>2, <2>3
<1>4. CASE DrainStop \/ DrainDeregister
  <2>1. UNCHANGED <<handler, drain>>
    BY <1>4 DEF DrainStop, DrainDeregister
  <2>2. \A s \in Requests : stop[s] = "done" => stop'[s] = "done"
    BY <1>4, <1>t DEF DrainStop, StopClaim, DrainDeregister, StopDone, TypeOK
  <2>. QED BY <1>1, <2>1, <2>2
<1>5. CASE DrainStopped \/ DrainClose
  <2>1. UNCHANGED <<handler, stop>> /\ drain.pc # "idle"
        /\ drain'.pc \in {"closing", "deleting"}
        /\ drain'.cur = drain.cur /\ drain'.todo = drain.todo /\ drain'.due = drain.due
    BY <1>5, <1>t DEF DrainStopped, DrainStoppedGuard, DrainClose, TypeOK
  <2>. QED BY <2>1
\* What leaves the drain's hand has been stopped.
<1>6. CASE DrainDelete
  <2>1. UNCHANGED <<handler, stop>> /\ stop[drain.cur] = "done"
        /\ drain'.pc = "ranging" /\ drain'.cur = NoRequest
        /\ drain'.todo = drain.todo /\ drain'.due = drain.due
    BY <1>6, <1>t DEF DrainDelete, TypeOK, OwnedInv
  <2>2. drain.pc # "idle"
    BY <1>6 DEF DrainDelete
  <2>. QED BY <2>1, <2>2
<1>7. ASSUME NEW ids \in SUBSET StreamIDs, DrainStart(ids) PROVE DrainInv'
  <2>1. UNCHANGED <<handler, stop>> /\ drain'.pc = "ranging" /\ drain'.cur = NoRequest
        /\ drain'.todo = ids /\ drain'.due = {activeStreams[i] : i \in Registered}
    BY <1>7, <1>t DEF DrainStart, TypeOK
  <2>2. ASSUME NEW r \in drain'.due PROVE handler[r] = "accepted" /\ StreamID[r] \in ids
    <3>1. PICK i \in Registered : r = activeStreams[i]
      BY <2>1, <2>2
    <3>2. handler[r] = "accepted" /\ StreamID[r] = i
      BY <3>1 DEF Registered, StreamInv
    <3>. QED BY <3>1, <3>2, <1>7 DEF DrainStart
  <2>. QED BY <2>1, <2>2
\* A key that is visited still holds the stream owed for it.
<1>8. ASSUME NEW i \in StreamIDs, DrainVisit(i) PROVE DrainInv'
  <2>1. UNCHANGED <<handler, stop>> /\ drain'.pc = "stopping"
        /\ drain'.cur = activeStreams[i] /\ drain'.todo = drain.todo \ {i}
        /\ drain'.due = drain.due /\ drain.cur = NoRequest
    BY <1>8, <1>t DEF DrainVisit, TypeOK
  <2>2. ASSUME NEW r \in drain.due, stop[r] # "done"
        PROVE  StreamID[r] \in drain.todo \ {i} \/ r = activeStreams[i]
    <3>1. r \in Requests /\ handler[r] = "accepted" /\ r # drain.cur
      BY <2>1, <1>t DEF TypeOK
    <3>2. activeStreams[StreamID[r]] = r
      BY <3>1, <2>2 DEF OwnedInv
    <3>. QED BY <3>1, <3>2, <2>2
  <2>. QED BY <2>1, <2>2
<1>9. ASSUME NEW i \in StreamIDs, DrainSkip(i) PROVE DrainInv'
  <2>1. UNCHANGED <<handler, stop>> /\ drain'.pc = "ranging"
        /\ drain'.cur = NoRequest /\ drain'.todo = drain.todo \ {i}
        /\ drain'.due = drain.due /\ drain.cur = NoRequest
    BY <1>9, <1>t DEF DrainSkip, TypeOK
  <2>2. ASSUME NEW r \in drain.due, stop[r] # "done" PROVE StreamID[r] \in drain.todo \ {i}
    <3>1. r \in Requests /\ handler[r] = "accepted" /\ r # drain.cur
      BY <2>1, <1>t DEF TypeOK
    <3>2. activeStreams[StreamID[r]] = r
      BY <3>1, <2>2 DEF OwnedInv
    <3>. QED BY <3>1, <3>2, <2>2, <1>9 DEF DrainSkip
  <2>. QED BY <2>1, <2>2
<1>10. CASE DrainReturn
  <2>1. UNCHANGED <<handler, stop>> /\ drain'.pc = "idle" /\ drain'.cur = NoRequest
        /\ drain'.due = drain.due /\ drain.todo = {} /\ drain.cur = NoRequest
    BY <1>10, <1>t DEF DrainReturn, IdleDrain, TypeOK
  <2>2. \A r \in drain.due : r \in Requests
    BY <1>t DEF TypeOK
  <2>. QED BY <2>1, <2>2
<1>11. CASE UNCHANGED vars
  BY <1>1, <1>11 DEF vars
<1>. QED BY <1>2, <1>3, <1>4, <1>5, <1>6, <1>7, <1>8, <1>9, <1>10, <1>11
      DEF Next, SessionStep, DrainStep, Elsewhere, Idle

\* A drain in progress has been counted.
LEMMA CountedStep ==
  ASSUME TypeOK, drains = 0 => drain.pc = "idle", [Next]_vars
  PROVE  drains' = 0 => drain'.pc = "idle"
<1>. USE StreamAssumption DEF TypeOK, handlerVars, pumpVars, drainVars, hostVars
<1>1. CASE \E ids \in SUBSET StreamIDs : DrainStart(ids)
  BY <1>1 DEF DrainStart
<1>2. CASE DrainStep
  BY <1>2 DEF DrainStep, DrainVisit, DrainSkip, DrainStop, DrainDeregister, DrainStopped,
         DrainStoppedGuard, DrainClose, DrainDelete, DrainReturn, IdleDrain
<1>3. ASSUME NEW r \in Requests,
             Elsewhere(r) \/ Register(r) \/ SessionStop(r) \/ SessionDeregister(r)
      PROVE  UNCHANGED <<drain, drains>>
  BY <1>3 DEF Elsewhere, OpenUnreachable, OpenNotOK, OpenOK, RegisterDuplicate, Register,
         SessionStop, SessionDeregister, ReportError, SessionStopped, CloseClient, PumpStep,
         PumpStart, ReadCall, ReadChunk, ReadDone, ReadError, EmitOK, EmitError,
         EmittedChunk, EmittedAll, PumpExit, TimerFire, TimerReturn
<1>4. CASE UNCHANGED vars
  BY <1>4 DEF vars
<1>. QED BY <1>1, <1>2, <1>3, <1>4 DEF Next, SessionStep, Elsewhere, Idle

LEMMA OwnedInvariant ==
  ASSUME MaxDrains = 0 \/ NamesUnique
  PROVE  Spec => [](StreamInv /\ (drains = 0 => drain.pc = "idle") /\ OwnedInv /\ DrainInv)
<1>. DEFINE Inv == StreamInv /\ (drains = 0 => drain.pc = "idle") /\ OwnedInv /\ DrainInv
<1>1. Init => Inv
  <2>. SUFFICES ASSUME Init PROVE Inv
    OBVIOUS
  <2>1. StreamInv
    BY InitStreamInv
  <2>2. OwnedInv /\ DrainInv /\ drain.pc = "idle"
    BY DEF Init, OwnedInv, DrainInv, IdleDrain
  <2>. QED BY <2>1, <2>2
<1>2. Inv /\ [Next]_vars => Inv'
  <2>. SUFFICES ASSUME Inv, [Next]_vars PROVE Inv'
    OBVIOUS
  <2>1. StreamInv'
    BY StreamStep
  <2>2. OwnedInv'
    BY OwnedStep
  <2>3. DrainInv'
    BY <2>2, DrainInvStep
  <2>4. drains' = 0 => drain'.pc = "idle"
    BY CountedStep DEF StreamInv
  <2>. QED BY <2>1, <2>2, <2>3, <2>4
<1>. QED BY <1>1, <1>2, PTL DEF Spec

\* executor.go:653-668: an accepted stream stays in activeStreams under its own
\* stop function until that function has run - as long as the plugin is not
\* quiesced, also when the host uses a name again, and under any number of
\* drains when it does not.
THEOREM AcceptedStaysRegistered ==
  ASSUME MaxDrains = 0 \/ NamesUnique PROVE Spec => []AcceptedIsRegistered
<1>1. OwnedInv => AcceptedIsRegistered
  BY DEF OwnedInv, AcceptedIsRegistered
<1>. QED BY <1>1, OwnedInvariant, PTL

\* executor.go:671-682: when closeAllActiveStreams has returned, every stream
\* that was registered when it was called has been stopped, by the drain or by
\* its own session, however the two interleaved.
THEOREM DrainCompletes ==
  ASSUME NamesUnique PROVE Spec => []DrainStopsRegistered
<1>1. StreamInv /\ DrainInv => DrainStopsRegistered
  <2>. SUFFICES ASSUME StreamInv, DrainInv, drain.pc = "idle", NEW r \in drain.due
       PROVE  stop[r] = "done"
    BY DEF DrainStopsRegistered
  <2>. QED BY StreamAssumption DEF DrainInv, StreamInv, TypeOK
<1>. QED BY <1>1, OwnedInvariant, PTL

=============================================================================
