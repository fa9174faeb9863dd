---------------------------- MODULE StreamPromise ----------------------------
(***************************************************************************)
(* What a streaming execution promises the host, whatever goroutines and   *)
(* locks implement it: an accepted stream gets at most one error frame,    *)
(* then the upstream stream is released once, then the client stream is    *)
(* closed once, in that order; a refused one touches no client stream and  *)
(* leaves no upstream stream behind.                                       *)
(***************************************************************************)
EXTENDS Naturals

CONSTANTS Requests

VARIABLES reply,          \* "idle", "opened", "refused" or "accepted"
          upstreamCloses, \* times the upstream stream was closed
          errorFrames,    \* error frames sent to the client
          clientCloses    \* times the client stream was closed

vars == <<reply, upstreamCloses, errorFrames, clientCloses>>

Init ==
  /\ reply = [r \in Requests |-> "idle"]
  /\ upstreamCloses = [r \in Requests |-> 0]
  /\ errorFrames = [r \in Requests |-> 0]
  /\ clientCloses = [r \in Requests |-> 0]

\* The upstream stream is opened with status 200.
Open(r) ==
  /\ reply[r] = "idle"
  /\ reply' = [reply EXCEPT ![r] = "opened"]
  /\ UNCHANGED <<upstreamCloses, errorFrames, clientCloses>>

\* No stream for the client: an upstream stream that was opened is closed.
Refuse(r) ==
  /\ reply[r] \in {"idle", "opened"}
  /\ reply' = [reply EXCEPT ![r] = "refused"]
  /\ \/ upstreamCloses' = [upstreamCloses EXCEPT ![r] = 1]
     \/ reply[r] = "idle" /\ UNCHANGED upstreamCloses
  /\ UNCHANGED <<errorFrames, clientCloses>>

Accept(r) ==
  /\ reply[r] = "opened"
  /\ reply' = [reply EXCEPT ![r] = "accepted"]
  /\ UNCHANGED <<upstreamCloses, errorFrames, clientCloses>>

\* The one error frame, while the stream is still open at both ends.
Fail(r) ==
  /\ reply[r] = "accepted"
  /\ upstreamCloses[r] = 0 /\ errorFrames[r] = 0 /\ clientCloses[r] = 0
  /\ errorFrames' = [errorFrames EXCEPT ![r] = 1]
  /\ UNCHANGED <<reply, upstreamCloses, clientCloses>>

Release(r) ==
  /\ reply[r] = "accepted"
  /\ upstreamCloses[r] = 0 /\ clientCloses[r] = 0
  /\ upstreamCloses' = [upstreamCloses EXCEPT ![r] = 1]
  /\ UNCHANGED <<reply, errorFrames, clientCloses>>

End(r) ==
  /\ reply[r] = "accepted"
  /\ upstreamCloses[r] = 1 /\ clientCloses[r] = 0
  /\ clientCloses' = [clientCloses EXCEPT ![r] = 1]
  /\ UNCHANGED <<reply, upstreamCloses, errorFrames>>

Next == \E r \in Requests :
  Open(r) \/ Refuse(r) \/ Accept(r) \/ Fail(r) \/ Release(r) \/ End(r)

Spec == Init /\ [][Next]_vars

=============================================================================
