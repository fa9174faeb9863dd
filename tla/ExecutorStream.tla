--------------------------- MODULE ExecutorStream ---------------------------
(***************************************************************************)
(* The life of a streaming completion (executor.go): the handler that      *)
(* opens the upstream stream and registers it, the goroutine that pumps    *)
(* upstream chunks to the client, the timer that bounds it, and the        *)
(* quiesce/shutdown handler that closes every registered stream.           *)
(*                                                                         *)
(* The actors share one sync.Once per session (fail/success), one          *)
(* sync.Once per registration (stop) and the activeStreams map.  A Once    *)
(* runs the body of its first caller; later callers wait for that body to  *)
(* return.  Host callbacks are steps of their own, since other goroutines  *)
(* run while one of them is in a host call.                                *)
(***************************************************************************)
EXTENDS Naturals, FiniteSets

CONSTANTS Requests,    \* executor.execute_stream calls that carry a stream id
          StreamIDs,   \* the host's names for client streams
          StreamID,    \* the stream id each request carries
          NoRequest,   \* no entry in activeStreams
          MaxReads,    \* bound: upstream chunks read per request
          MaxFrames,   \* bound: client frames rendered from one chunk or finish
          MaxDrains    \* bound: quiesce and shutdown calls

ASSUME StreamAssumption ==
  /\ StreamID \in [Requests -> StreamIDs]
  /\ NoRequest \notin Requests
  /\ MaxReads \in Nat /\ MaxFrames \in Nat /\ MaxDrains \in Nat

VARIABLES
  handler,        \* where the execute_stream handler of a request stands
  activeStreams,  \* stream id -> the request whose stop function is stored
  stop,           \* the once of registerActiveStream's stop, per request
  session,        \* the once of executorStreamSession, per request
  pump,           \* where the goroutine running runUpstreamStream stands
  pending,        \* frames rendered and not yet emitted
  last,           \* the pump's current frames are the last ones (finish)
  reads,          \* chunks read so far
  timer,          \* the request-timeout timer
  drain,          \* the closeAllActiveStreams call in progress
  drains,         \* quiesce and shutdown calls so far
  upstreamCloses, \* host.http.stream_close calls for the upstream stream
  errorFrames,    \* host.stream.emit calls carrying an error
  clientCloses    \* host.stream.close calls for the client stream

handlerVars == <<handler>>
pumpVars == <<pump, pending, last, reads>>
drainVars == <<drain, drains>>
hostVars == <<upstreamCloses, errorFrames, clientCloses>>
vars == <<handlerVars, activeStreams, stop, session, pumpVars, timer, drainVars, hostVars>>

HandlerState == {"idle", "opened", "refused", "accepted"}
OnceState == {"new", "bySession", "byDrain", "done"}
SessionState == {"new", "reporting", "stopping", "closing", "done"}
PumpState == {"none", "spawned", "looping", "reading", "emitting", "ending", "exited"}
TimerState == {"none", "armed", "firing", "over"}
DrainState == {"idle", "ranging", "stopping", "closing", "deleting"}

TypeOK ==
  /\ handler \in [Requests -> HandlerState]
  /\ activeStreams \in [StreamIDs -> Requests \cup {NoRequest}]
  /\ stop \in [Requests -> OnceState]
  /\ session \in [Requests -> SessionState]
  /\ pump \in [Requests -> PumpState]
  /\ pending \in [Requests -> 0..MaxFrames]
  /\ last \in [Requests -> BOOLEAN]
  /\ reads \in [Requests -> 0..MaxReads]
  /\ timer \in [Requests -> TimerState]
  /\ drain \in [pc : DrainState, todo : SUBSET StreamIDs,
                cur : Requests \cup {NoRequest}, due : SUBSET Requests]
  /\ drain.pc \in {"stopping", "closing", "deleting"} => drain.cur \in Requests
  /\ drains \in 0..MaxDrains
  /\ upstreamCloses \in [Requests -> Nat]
  /\ errorFrames \in [Requests -> Nat]
  /\ clientCloses \in [Requests -> Nat]

IdleDrain == [pc |-> "idle", todo |-> {}, cur |-> NoRequest, due |-> {}]

Init ==
  /\ handler = [r \in Requests |-> "idle"]
  /\ activeStreams = [i \in StreamIDs |-> NoRequest]
  /\ stop = [r \in Requests |-> "new"]
  /\ session = [r \in Requests |-> "new"]
  /\ pump = [r \in Requests |-> "none"]
  /\ pending = [r \in Requests |-> 0]
  /\ last = [r \in Requests |-> FALSE]
  /\ reads = [r \in Requests |-> 0]
  /\ timer = [r \in Requests |-> "none"]
  /\ drain = IdleDrain
  /\ drains = 0
  /\ upstreamCloses = [r \in Requests |-> 0]
  /\ errorFrames = [r \in Requests |-> 0]
  /\ clientCloses = [r \in Requests |-> 0]

-----------------------------------------------------------------------------
(***************************************************************************)
(* The handler: open the upstream stream, refuse a failed open or a        *)
(* status other than 200, register, spawn the pump.                        *)
(***************************************************************************)

Bump(f, r) == [f EXCEPT ![r] = @ + 1]

\* host.http.do_stream fails: no upstream stream exists.
OpenUnreachable(r) ==
  /\ handler[r] = "idle"
  /\ handler' = [handler EXCEPT ![r] = "refused"]
  /\ UNCHANGED <<activeStreams, stop, session, pumpVars, timer, drainVars, hostVars>>

\* The upstream answers 401, 403, 429...: close it and report the status.
OpenNotOK(r) ==
  /\ handler[r] = "idle"
  /\ handler' = [handler EXCEPT ![r] = "refused"]
  /\ upstreamCloses' = Bump(upstreamCloses, r)
  /\ UNCHANGED <<activeStreams, stop, session, pumpVars, timer, drainVars,
                 errorFrames, clientCloses>>

OpenOK(r) ==
  /\ handler[r] = "idle"
  /\ handler' = [handler EXCEPT ![r] = "opened"]
  /\ UNCHANGED <<activeStreams, stop, session, pumpVars, timer, drainVars, hostVars>>

\* registerActiveStream found the id taken: close upstream, refuse.
RegisterDuplicate(r) ==
  /\ handler[r] = "opened"
  /\ activeStreams[StreamID[r]] # NoRequest
  /\ handler' = [handler EXCEPT ![r] = "refused"]
  /\ upstreamCloses' = Bump(upstreamCloses, r)
  /\ UNCHANGED <<activeStreams, stop, session, pumpVars, timer, drainVars,
                 errorFrames, clientCloses>>

MutRegisterOverwrites(r) == handler[r] = "opened"

RegisterGuard(r) ==
  /\ handler[r] = "opened"
  /\ activeStreams[StreamID[r]] = NoRequest

\* LoadOrStore succeeded: the goroutine is spawned and the reply is sent.
Register(r) ==
  /\ RegisterGuard(r)
  /\ activeStreams' = [activeStreams EXCEPT ![StreamID[r]] = r]
  /\ handler' = [handler EXCEPT ![r] = "accepted"]
  /\ pump' = [pump EXCEPT ![r] = "spawned"]
  /\ UNCHANGED <<stop, session, pending, last, reads, timer, drainVars, hostVars>>

-----------------------------------------------------------------------------
(***************************************************************************)
(* The session: whoever calls fail or success first runs the body, host    *)
(* calls in this order: error frame (fail only), stop, close.              *)
(***************************************************************************)

\* s.once.Do(...) of a caller that wants to end the stream; a later caller
\* changes nothing and waits for the body.
EndSession(r, how) ==
  session' = IF session[r] = "new"
             THEN [session EXCEPT ![r] = IF how = "fail" THEN "reporting" ELSE "stopping"]
             ELSE session

\* fail: the error frame goes out first.
ReportError(r) ==
  /\ session[r] = "reporting"
  /\ errorFrames' = Bump(errorFrames, r)
  /\ session' = [session EXCEPT ![r] = "stopping"]
  /\ UNCHANGED <<handlerVars, activeStreams, stop, pumpVars, timer, drainVars,
                 upstreamCloses, clientCloses>>

MutStopNoOnce(r, who) == stop' = [stop EXCEPT ![r] = IF @ = "done" THEN "done" ELSE who]

StopClaim(r, who) ==
  /\ stop[r] = "new"
  /\ stop' = [stop EXCEPT ![r] = who]

\* stop's first call: the cleanup closes the upstream stream...
SessionStop(r) ==
  /\ session[r] = "stopping"
  /\ StopClaim(r, "bySession")
  /\ upstreamCloses' = Bump(upstreamCloses, r)
  /\ UNCHANGED <<handlerVars, activeStreams, session, pumpVars, timer, drainVars,
                 errorFrames, clientCloses>>

MutStopNeverDone(r) == UNCHANGED stop

StopDone(r) == stop' = [stop EXCEPT ![r] = "done"]

\* ... and the entry is deleted.
SessionDeregister(r) ==
  /\ stop[r] = "bySession"
  /\ activeStreams' = [activeStreams EXCEPT ![StreamID[r]] = NoRequest]
  /\ StopDone(r)
  /\ UNCHANGED <<handlerVars, session, pumpVars, timer, drainVars, hostVars>>

MutStopNotAwaited(r) == session[r] = "stopping"

\* stop has returned, here or in closeAllActiveStreams.
StopReturned(r) == session[r] = "stopping" /\ stop[r] = "done"

SessionStopped(r) ==
  /\ StopReturned(r)
  /\ session' = [session EXCEPT ![r] = "closing"]
  /\ UNCHANGED <<handlerVars, activeStreams, stop, pumpVars, timer, drainVars, hostVars>>

CloseClient(r) ==
  /\ session[r] = "closing"
  /\ clientCloses' = Bump(clientCloses, r)
  /\ session' = [session EXCEPT ![r] = "done"]
  /\ UNCHANGED <<handlerVars, activeStreams, stop, pumpVars, timer, drainVars,
                 upstreamCloses, errorFrames>>

SessionStep(r) ==
  \/ ReportError(r) \/ SessionStop(r) \/ SessionDeregister(r)
  \/ SessionStopped(r) \/ CloseClient(r)

-----------------------------------------------------------------------------
(***************************************************************************)
(* The pump and its timer.                                                 *)
(***************************************************************************)

PumpStart(r) ==
  /\ pump[r] = "spawned"
  /\ pump' = [pump EXCEPT ![r] = "looping"]
  /\ timer' = [timer EXCEPT ![r] = "armed"]
  /\ UNCHANGED <<handlerVars, activeStreams, stop, session, pending, last, reads,
                 drainVars, hostVars>>

\* The next host.http.stream_read begins.
ReadCall(r) ==
  /\ pump[r] = "looping"
  /\ pump' = [pump EXCEPT ![r] = "reading"]
  /\ UNCHANGED <<handlerVars, activeStreams, stop, session, pending, last, reads,
                 timer, drainVars, hostVars>>

\* The read returns a payload: the renderer turns it into n frames.  The read
\* may have been answered before a close that another goroutine just made.
ReadChunk(r, n) ==
  /\ pump[r] = "reading"
  /\ reads[r] < MaxReads
  /\ reads' = Bump(reads, r)
  /\ pump' = [pump EXCEPT ![r] = "emitting"]
  /\ pending' = [pending EXCEPT ![r] = n]
  /\ UNCHANGED <<handlerVars, activeStreams, stop, session, last, timer, drainVars, hostVars>>

\* The read returns done: the frames of a payload that came with it and those of
\* finish() follow.
ReadDone(r, n) ==
  /\ pump[r] = "reading"
  /\ last' = [last EXCEPT ![r] = TRUE]
  /\ pump' = [pump EXCEPT ![r] = "emitting"]
  /\ pending' = [pending EXCEPT ![r] = n]
  /\ UNCHANGED <<handlerVars, activeStreams, stop, session, reads, timer, drainVars, hostVars>>

\* The read fails; a read of a closed stream does.
ReadError(r) ==
  /\ pump[r] = "reading"
  /\ EndSession(r, "fail")
  /\ pump' = [pump EXCEPT ![r] = "ending"]
  /\ UNCHANGED <<handlerVars, activeStreams, stop, pending, last, reads, timer,
                 drainVars, hostVars>>

EmitOK(r) ==
  /\ pump[r] = "emitting" /\ pending[r] > 0
  /\ pending' = [pending EXCEPT ![r] = @ - 1]
  /\ UNCHANGED <<handlerVars, activeStreams, stop, session, pump, last, reads, timer,
                 drainVars, hostVars>>

\* host.stream.emit fails: the client went away, end without an error frame.
EmitError(r) ==
  /\ pump[r] = "emitting" /\ pending[r] > 0
  /\ EndSession(r, "success")
  /\ pending' = [pending EXCEPT ![r] = 0]
  /\ pump' = [pump EXCEPT ![r] = "ending"]
  /\ UNCHANGED <<handlerVars, activeStreams, stop, last, reads, timer, drainVars, hostVars>>

\* Every frame of a chunk that was not the last is out: read on.
EmittedChunk(r) ==
  /\ pump[r] = "emitting" /\ pending[r] = 0 /\ ~last[r]
  /\ pump' = [pump EXCEPT ![r] = "looping"]
  /\ UNCHANGED <<handlerVars, activeStreams, stop, session, pending, last, reads, timer,
                 drainVars, hostVars>>

\* finish() is out: success.
EmittedAll(r) ==
  /\ pump[r] = "emitting" /\ pending[r] = 0 /\ last[r]
  /\ EndSession(r, "success")
  /\ pump' = [pump EXCEPT ![r] = "ending"]
  /\ UNCHANGED <<handlerVars, activeStreams, stop, pending, last, reads, timer,
                 drainVars, hostVars>>

\* The once body is over: the deferred timer.Stop and session.stop run (the
\* latter is a stop already called) and the goroutine returns.
PumpExit(r) ==
  /\ pump[r] = "ending" /\ session[r] = "done"
  /\ pump' = [pump EXCEPT ![r] = "exited"]
  /\ timer' = [timer EXCEPT ![r] = IF @ = "armed" THEN "over" ELSE @]
  /\ UNCHANGED <<handlerVars, activeStreams, stop, session, pending, last, reads,
                 drainVars, hostVars>>

MutTimeoutIgnored(r) == UNCHANGED session

MutTimerNoOnce(r) == session' = [session EXCEPT ![r] = "reporting"]

TimeoutFail(r) == EndSession(r, "fail")

\* The timeout elapses and its goroutine calls session.fail.
TimerFire(r) ==
  /\ timer[r] = "armed"
  /\ timer' = [timer EXCEPT ![r] = "firing"]
  /\ TimeoutFail(r)
  /\ UNCHANGED <<handlerVars, activeStreams, stop, pumpVars, drainVars, hostVars>>

TimerReturn(r) ==
  /\ timer[r] = "firing" /\ session[r] = "done"
  /\ timer' = [timer EXCEPT ![r] = "over"]
  /\ UNCHANGED <<handlerVars, activeStreams, stop, session, pumpVars, drainVars, hostVars>>

PumpStep(r) ==
  \/ PumpStart(r) \/ ReadCall(r) \/ ReadError(r)
  \/ \E n \in 0..MaxFrames : ReadChunk(r, n) \/ ReadDone(r, n)
  \/ EmitOK(r) \/ EmitError(r) \/ EmittedChunk(r) \/ EmittedAll(r)
  \/ PumpExit(r) \/ TimerFire(r) \/ TimerReturn(r)

-----------------------------------------------------------------------------
(***************************************************************************)
(* closeAllActiveStreams, called by plugin.quiesce and plugin.shutdown.    *)
(* sync.Map.Range visits every key that is present throughout, each at     *)
(* most once, and may or may not visit keys stored meanwhile.              *)
(***************************************************************************)

Registered == {i \in StreamIDs : activeStreams[i] # NoRequest}

DrainStart(ids) ==
  /\ drain.pc = "idle" /\ drains < MaxDrains
  /\ Registered \subseteq ids
  /\ drains' = drains + 1
  /\ drain' = [drain EXCEPT !.pc = "ranging", !.todo = ids,
                            !.due = {activeStreams[i] : i \in Registered}]
  /\ UNCHANGED <<handlerVars, activeStreams, stop, session, pumpVars, timer, hostVars>>

MutEntryUnchecked(i) == TRUE

Present(i) == activeStreams[i] # NoRequest

\* Range loads the entry of a key; the stop function found may be called by
\* its own stream before Range's callback calls it.
DrainVisit(i) ==
  /\ drain.pc = "ranging" /\ i \in drain.todo
  /\ Present(i)
  /\ drain' = [drain EXCEPT !.pc = "stopping", !.todo = @ \ {i},
                            !.cur = activeStreams[i]]
  /\ UNCHANGED <<handlerVars, activeStreams, stop, session, pumpVars, timer, drains, hostVars>>

DrainSkip(i) ==
  /\ drain.pc = "ranging" /\ i \in drain.todo
  /\ activeStreams[i] = NoRequest
  /\ drain' = [drain EXCEPT !.todo = @ \ {i}]
  /\ UNCHANGED <<handlerVars, activeStreams, stop, session, pumpVars, timer, drains, hostVars>>

\* cancel(): this call is the first of the stop's once...
DrainStop ==
  /\ drain.pc = "stopping"
  /\ StopClaim(drain.cur, "byDrain")
  /\ upstreamCloses' = Bump(upstreamCloses, drain.cur)
  /\ UNCHANGED <<handlerVars, activeStreams, session, pumpVars, timer, drainVars,
                 errorFrames, clientCloses>>

DrainDeregister ==
  /\ drain.pc = "stopping" /\ stop[drain.cur] = "byDrain"
  /\ activeStreams' = [activeStreams EXCEPT ![StreamID[drain.cur]] = NoRequest]
  /\ StopDone(drain.cur)
  /\ UNCHANGED <<handlerVars, session, pumpVars, timer, drainVars, hostVars>>

MutDrainNoWait == drain.pc = "stopping"

\* ... or waits for the stream's own call of it.
DrainStoppedGuard == drain.pc = "stopping" /\ stop[drain.cur] = "done"

DrainStopped ==
  /\ DrainStoppedGuard
  /\ drain' = [drain EXCEPT !.pc = "closing"]
  /\ UNCHANGED <<handlerVars, activeStreams, stop, session, pumpVars, timer, drains, hostVars>>

\* closeStream(id), outside the session's once.
DrainClose ==
  /\ drain.pc = "closing"
  /\ clientCloses' = Bump(clientCloses, drain.cur)
  /\ drain' = [drain EXCEPT !.pc = "deleting"]
  /\ UNCHANGED <<handlerVars, activeStreams, stop, session, pumpVars, timer, drains,
                 upstreamCloses, errorFrames>>

\* activeStreams.Delete(key), whatever the key holds by now.
DrainDelete ==
  /\ drain.pc = "deleting"
  /\ activeStreams' = [activeStreams EXCEPT ![StreamID[drain.cur]] = NoRequest]
  /\ drain' = [drain EXCEPT !.pc = "ranging", !.cur = NoRequest]
  /\ UNCHANGED <<handlerVars, stop, session, pumpVars, timer, drains, hostVars>>

DrainReturn ==
  /\ drain.pc = "ranging" /\ drain.todo = {}
  /\ drain' = [IdleDrain EXCEPT !.due = drain.due]
  /\ UNCHANGED <<handlerVars, activeStreams, stop, session, pumpVars, timer, drains, hostVars>>

DrainStep ==
  \/ \E i \in StreamIDs : DrainVisit(i) \/ DrainSkip(i)
  \/ DrainStop \/ DrainDeregister \/ DrainStopped \/ DrainClose \/ DrainDelete
  \/ DrainReturn

-----------------------------------------------------------------------------

\* Every call has been answered, every goroutine has returned.
Quiet ==
  /\ \A r \in Requests : /\ handler[r] \in {"refused", "accepted"}
                         /\ pump[r] \in {"none", "exited"}
                         /\ timer[r] \in {"none", "over"}
  /\ drain.pc = "idle"

\* The plugin idles; with it the only deadlocks left are real ones.
Idle == Quiet /\ UNCHANGED vars

Next ==
  \/ \E r \in Requests :
        \/ OpenUnreachable(r) \/ OpenNotOK(r) \/ OpenOK(r)
        \/ RegisterDuplicate(r) \/ Register(r)
        \/ SessionStep(r) \/ PumpStep(r)
  \/ \E ids \in SUBSET StreamIDs : DrainStart(ids)
  \/ DrainStep
  \/ Idle

Spec == Init /\ [][Next]_vars

(***************************************************************************)
(* Goroutines that can run do run, host calls return, timers fire.  A read *)
(* may hang for as long as the upstream likes; only a read of a stream     *)
(* that has been closed is sure to return.  Nothing forces the upstream to *)
(* send, a request to arrive or the host to quiesce.                       *)
(***************************************************************************)
ReadOfClosed(r) == upstreamCloses[r] > 0 /\ ReadError(r)

Fairness ==
  /\ \A r \in Requests :
        /\ WF_vars(SessionStep(r))
        /\ WF_vars(PumpStart(r)) /\ WF_vars(ReadCall(r)) /\ WF_vars(ReadOfClosed(r))
        /\ WF_vars(EmitOK(r) \/ EmitError(r))
        /\ WF_vars(EmittedChunk(r) \/ EmittedAll(r))
        /\ WF_vars(PumpExit(r))
        /\ WF_vars(TimerFire(r)) /\ WF_vars(TimerReturn(r))
        /\ WF_vars(Register(r) \/ RegisterDuplicate(r))
  /\ WF_vars(DrainStep)

FairSpec == Spec /\ Fairness

-----------------------------------------------------------------------------
(***************************************************************************)
(* Properties.                                                             *)
(***************************************************************************)

\* executor.go:188-190: every exit path closes the upstream stream, exactly
\* once - whichever of the pump, the timer and the quiesce handler gets there
\* first, and also when the handler refuses the stream after opening it.
UpstreamClosedOnce ==
  \A r \in Requests :
    /\ upstreamCloses[r] <= 1
    /\ pump[r] = "exited" => upstreamCloses[r] = 1
    /\ stop[r] = "done" => upstreamCloses[r] = 1

\* executor.go:161-164: exactly one error frame at most and one close, whoever
\* ends the stream.
ClientEndedOnce ==
  \A r \in Requests : errorFrames[r] <= 1 /\ clientCloses[r] <= 1

\* executor.go:653-668: an accepted stream stays in activeStreams, under its own
\* stop function, until that function has run: shutdown can always find it.
AcceptedIsRegistered ==
  \A r \in Requests :
    (handler[r] = "accepted" /\ stop[r] = "new") => activeStreams[StreamID[r]] = r

\* executor.go:671-682: when closeAllActiveStreams has returned, every stream
\* that was registered when it was called has been stopped.
DrainStopsRegistered ==
  drain.pc = "idle" => \A r \in drain.due : stop[r] = "done"

\* An accepted stream ends: its client stream is closed and its goroutines are
\* gone, even when the upstream hangs (executor.go:150).
AcceptedEnds ==
  \A r \in Requests :
    handler[r] = "accepted" ~> /\ clientCloses[r] > 0
                               /\ pump[r] = "exited" /\ timer[r] = "over"

\* closeAllActiveStreams returns: waiting for a stop in progress elsewhere
\* never blocks it for good.
DrainReturns == drain.pc # "idle" ~> drain.pc = "idle"

(***************************************************************************)
(* What the host may rely on, with everything internal hidden.             *)
(***************************************************************************)
Promise == INSTANCE StreamPromise WITH
  reply <- handler, upstreamCloses <- upstreamCloses,
  errorFrames <- errorFrames, clientCloses <- clientCloses

KeepsPromise == Promise!Spec

=============================================================================
