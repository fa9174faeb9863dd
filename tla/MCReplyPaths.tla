---------------------------- MODULE MCReplyPaths ----------------------------
(***************************************************************************)
(* ReplyPaths with the small upstreams of MCAnthropicStream and, for the   *)
(* relay, bodies of up to three native frames or two agent frames and      *)
(* their done markers.                                                     *)
(***************************************************************************)
EXTENDS ReplyPaths, MCAnthropicStream

SseFrame(kind, text, comment) == [kind |-> kind, text |-> text, comment |-> comment]
Marker(kind) == SseFrame(kind, <<>>, FALSE)
Upto(n) == [i \in 1..n |-> i]

\* What an upstream that has told n pieces may send next: once it sends deltas,
\* a full text brings nothing new.
NativeFrames(n, deltas) ==
  {SseFrame("delta", <<n + 1>>, comment) : comment \in BOOLEAN}
  \cup {SseFrame("full", Upto(m), FALSE) : m \in {n, n + 1}}
  \cup {Marker(k) : k \in {"calls", "stage", "usage", "heartbeat", "done"}}
ToldIn(frames) == Cardinality(UNION {ToSet(frames[k].text) : k \in DOMAIN frames})
InDeltas(frames) == \E k \in DOMAIN frames : frames[k].kind \in {"delta", "calls"}
NativeAfter(frames) ==
  {f \in NativeFrames(ToldIn(frames), InDeltas(frames)) :
     InDeltas(frames) /\ f.kind = "full" => Len(f.text) = ToldIn(frames)}

AgentAfter(frames) == {SseFrame("data", <<ToldIn(frames) + 1>>, FALSE), Marker("heartbeat")}

Grow(S, After(_)) == UNION {{Append(frames, f) : f \in After(frames)} : frames \in S}
Native2 == Grow(Grow({<<>>}, NativeAfter), NativeAfter)
Native3 == Grow(Native2, NativeAfter)
Agent1 == Grow({<<>>}, AgentAfter)
WithDone(S) == S \cup {Append(frames, Marker("done")) : frames \in S}
Agent3 == WithDone(WithDone(Agent1 \cup Grow(Agent1, AgentAfter)))

Body(mode, S, eols, tails) == [mode : {mode}, frames : S, eol : eols, tail : tails]

\* Only a frame with data can be cut in the middle.
MCBodies ==
  {b \in Body("native", Native3, {"lf"}, {"ended", "cut"})
         \cup Body("native", Native2, {"lf", "crlf"}, {"ended", "open", "cut"})
         \cup Body("agent", Agent3, {"lf", "crlf"}, {"ended", "open", "cut"}) :
     b.tail = "cut" => Last(b.frames).kind \notin {"done", "heartbeat"}}

=============================================================================
