---------------------------- MODULE BufferedRead ----------------------------
(***************************************************************************)
(* readUpstreamResponse (executor.go): a non-streaming call reads the      *)
(* whole upstream stream into memory, against a deadline.  When it expires *)
(* a goroutine of context.AfterFunc closes the stream, which is the only   *)
(* way to wake a read that hangs.  What a read of a closed stream returns  *)
(* is the host's business: an error, or an ordinary end.                   *)
(***************************************************************************)
EXTENDS Naturals

CONSTANTS MaxBody,  \* the 64 MiB limit, in pieces
          MaxPieces \* bound: pieces the upstream sends

ASSUME ReadAssumption == MaxBody \in Nat /\ MaxPieces \in Nat

VARIABLES reader,   \* the goroutine of the host's call, and what it has read
          deadline, \* the context: "none", "armed", "expired", "cancelled"
          closer,   \* the AfterFunc goroutine: "none", "running", "done"
          stream    \* the upstream stream, held by the host

readVars == <<reader, deadline, closer, stream>>

Nothing == [pieces |-> 0, done |-> FALSE, failed |-> FALSE]
Returned == reader.pc = "returned"

ReadInit ==
  /\ reader = [pc |-> "open", body |-> 0, read |-> Nothing, result |-> "none"]
  /\ deadline = "none"
  /\ closer = "none"
  /\ stream = [opened |-> FALSE, sent |-> 0, ended |-> FALSE, closes |-> 0]

-----------------------------------------------------------------------------
\* host.http.do_stream fails, answers with another status, or opens the stream.
OpenFails ==
  /\ reader.pc = "open"
  /\ reader' = [reader EXCEPT !.pc = "returned", !.result = "unreachable"]
  /\ UNCHANGED <<deadline, closer, stream>>

OpenRefused ==
  /\ reader.pc = "open"
  /\ reader' = [reader EXCEPT !.pc = "leaving", !.result = "refused"]
  /\ stream' = [stream EXCEPT !.opened = TRUE]
  /\ UNCHANGED <<deadline, closer>>

OpenSucceeds ==
  /\ reader.pc = "open"
  /\ reader' = [reader EXCEPT !.pc = "reading"]
  /\ stream' = [stream EXCEPT !.opened = TRUE]
  /\ deadline' = "armed"
  /\ UNCHANGED closer

\* What a read of the open stream may return; it may also hang.
UpstreamAnswers(read) ==
  /\ reader.pc = "reading"
  /\ stream.closes = 0 /\ ~stream.ended
  /\ stream.sent + read.pieces <= MaxPieces
  /\ reader' = [reader EXCEPT !.pc = "read", !.read = read]
  /\ stream' = [stream EXCEPT !.sent = @ + read.pieces, !.ended = read.done]
  /\ UNCHANGED <<deadline, closer>>

\* A read of a stream that has been closed, or that was closed during the read.
ClosedAnswers(read) ==
  /\ reader.pc = "reading" /\ stream.closes > 0
  /\ reader' = [reader EXCEPT !.pc = "read", !.read = read]
  /\ UNCHANGED <<deadline, closer, stream>>

MutVerdict ==
  CASE reader.read.failed -> "failed"
    [] ~reader.read.failed /\ reader.body + reader.read.pieces > MaxBody -> "too large"
    [] OTHER -> IF reader.read.done THEN "whole" ELSE "more"

\* What the loop makes of a read, in the order of its tests.
Verdict ==
  CASE deadline = "expired" -> "timeout"
    [] deadline # "expired" /\ reader.read.failed -> "failed"
    [] deadline # "expired" /\ ~reader.read.failed
         /\ reader.body + reader.read.pieces > MaxBody -> "too large"
    [] OTHER -> IF reader.read.done THEN "whole" ELSE "more"

Judge ==
  /\ reader.pc = "read"
  /\ reader' = [reader EXCEPT
       !.pc = IF Verdict = "more" THEN "reading" ELSE "leaving",
       !.result = IF Verdict = "more" THEN @ ELSE Verdict,
       !.body = IF Verdict \in {"more", "whole"} THEN @ + reader.read.pieces ELSE @,
       !.read = Nothing]
  /\ UNCHANGED <<deadline, closer, stream>>

\* The deferred calls: the AfterFunc is stopped if it has not begun, the context
\* cancelled, the stream closed.
Return ==
  /\ reader.pc = "leaving"
  /\ reader' = [reader EXCEPT !.pc = "returned"]
  /\ deadline' = IF deadline = "armed" THEN "cancelled" ELSE deadline
  /\ stream' = [stream EXCEPT !.closes = @ + 1]
  /\ UNCHANGED closer

-----------------------------------------------------------------------------
Expire ==
  /\ deadline = "armed"
  /\ deadline' = "expired"
  /\ closer' = "running"
  /\ UNCHANGED <<reader, stream>>

MutClosesAtDeadline == 0

ClosesAtDeadline == 1

CloserCloses ==
  /\ closer = "running"
  /\ closer' = "done"
  /\ stream' = [stream EXCEPT !.closes = @ + ClosesAtDeadline]
  /\ UNCHANGED <<reader, deadline>>

CallOver == Returned /\ closer # "running" /\ UNCHANGED readVars

Answers == [pieces : {0, 1}, done : BOOLEAN, failed : BOOLEAN]
ClosedReads == {Nothing} \cup [pieces : {0}, done : BOOLEAN, failed : {TRUE}]
                         \cup {[Nothing EXCEPT !.done = TRUE]}

ReadNext ==
  \/ OpenFails \/ OpenRefused \/ OpenSucceeds
  \/ \E read \in Answers : UpstreamAnswers(read)
  \/ \E read \in ClosedReads : ClosedAnswers(read)
  \/ Judge \/ Return \/ Expire \/ CloserCloses \/ CallOver

ReadSpec == ReadInit /\ [][ReadNext]_readVars

\* The reader and the AfterFunc goroutine run, the timer fires, and the host
\* answers a read of a closed stream.  Upstream owes nothing.
ReadFairness ==
  /\ WF_readVars(Judge) /\ WF_readVars(Return)
  /\ WF_readVars(Expire) /\ WF_readVars(CloserCloses)
  /\ WF_readVars(\E read \in ClosedReads : ClosedAnswers(read))

-----------------------------------------------------------------------------
ReadTypeOK ==
  /\ reader \in [pc : {"open", "reading", "read", "leaving", "returned"},
                 body : 0..MaxBody,
                 read : [pieces : {0, 1}, done : BOOLEAN, failed : BOOLEAN],
                 result : {"none", "unreachable", "refused", "timeout", "failed",
                           "too large", "whole"}]
  /\ deadline \in {"none", "armed", "expired", "cancelled"}
  /\ closer \in {"none", "running", "done"}
  /\ stream.closes \in 0..2

\* executor.go:697-714: a body is only answered from when upstream has ended it
\* and every piece of it was read.  Closing the stream at the deadline must not
\* make a truncated body look finished.
WholeOrError ==
  reader.result = "whole" => stream.ended /\ reader.body = stream.sent

\* executor.go:684-685: an upstream that hangs cannot hold the call, and whatever
\* the outcome the stream is released.
ReadEnds == stream.opened ~> Returned /\ stream.closes > 0

=============================================================================
