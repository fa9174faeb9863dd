--------------------------- MODULE AnthropicStream ---------------------------
(***************************************************************************)
(* anthropicStreamRenderer (claude_output.go): OpenAI chunks in, Anthropic *)
(* Messages events out, one at a time through host.stream.emit.            *)
(*                                                                         *)
(* A chunk is [error, choices, usage]; a choice is [delta, thinking,       *)
(* blank, text, calls, finish], where blank says that its reasoning is     *)
(* whitespace; a call is [index, id, name, args] where args says           *)
(* whether the fragment it carries leaves the arguments incomplete         *)
(* ("part"), completes them ("end") or is absent ("none").  "none" stands  *)
(* for the empty string of the code elsewhere too.  Texts, ids and token   *)
(* counts are left out.                                                    *)
(***************************************************************************)
EXTENDS Integers, Sequences, SequencesExt

CallType == [index : Nat, id : BOOLEAN, name : BOOLEAN, args : {"none", "part", "end"}]
\* The documented finish reasons but "function_call", which goes with a field of
\* that name that is not read.
FinishReasons == {"none", "stop", "length", "tool_calls", "content_filter"}
ChoiceType == [delta : BOOLEAN, thinking : BOOLEAN, blank : BOOLEAN, text : BOOLEAN,
               calls : Seq(CallType), finish : FinishReasons]
ChunkType == [error : BOOLEAN, choices : Seq(ChoiceType), usage : BOOLEAN]

CONSTANTS Chunks,    \* the chunks an upstream may send
          MaxChunks, \* bound: chunks of one stream, without disorder
          MaxDisordered, \* the same, with disorder
          Mode,      \* Config.APIMode, "agent" or "native"
          Disorders  \* sets of liberties an upstream may take, see Admissible

ASSUME RendererAssumption ==
  /\ MaxChunks \in Nat /\ MaxDisordered \in Nat
  /\ Mode \in {"agent", "native"}
  /\ \A d \in Disorders :
       d \subseteq {"empty", "nameless", "interleaved", "sparse", "early-usage"}

\* Content and calls are parts of a delta, an error object takes a chunk's place.
ASSUME ChunksAssumption ==
  \A chunk \in Chunks :
    /\ chunk \in ChunkType
    /\ chunk.error => chunk.choices = <<>>
    /\ \A c \in DOMAIN chunk.choices :
         LET choice == chunk.choices[c]
         IN choice.thinking \/ choice.text \/ choice.calls # <<>> => choice.delta

VARIABLES renderer, \* the fields of anthropicStreamRenderer
          queue,    \* events rendered and not yet emitted
          upstream, \* what the upstream has sent
          client    \* what the client has read

vars == <<renderer, queue, upstream, client>>

-----------------------------------------------------------------------------
(***************************************************************************)
(* Events and the renderer's helpers.  r.out collects the events of one    *)
(* call of feed or finish.                                                 *)
(***************************************************************************)

NewRenderer ==
  [started |-> FALSE, nextIndex |-> 0, openKind |-> "none", openIndex |-> -1, openTool |-> 0,
   tools |-> <<>>, sawToolCall |-> FALSE, sawContent |-> FALSE, hasUsage |-> FALSE,
   finishReason |-> "none", deltaSent |-> FALSE, stopSent |-> FALSE, out |-> <<>>]

NewTool(i) ==
  [openAIIndex |-> i, blockIndex |-> -1, id |-> FALSE, name |-> FALSE,
   arguments |-> "none", sent |-> "none", started |-> FALSE, closed |-> FALSE]

Event(type, index, detail) == [type |-> type, index |-> index, detail |-> detail]
Emit(r, e) == [r EXCEPT !.out = Append(@, e)]

ToolArgumentsValid(r) == \A t \in DOMAIN r.tools : r.tools[t].arguments \in {"none", "end"}

StartMessage(r) ==
  IF r.started THEN r
  ELSE Emit([r EXCEPT !.started = TRUE], Event("message_start", -1, "none"))

\* The tool's arguments go out as one delta when its block closes.
CloseToolBlock(r, t) ==
  LET tool == r.tools[t]
      told == IF tool.arguments = "none" THEN r
              ELSE Emit(r, Event("content_block_delta", tool.blockIndex, "input_json"))
      shut == [tool EXCEPT !.closed = TRUE, !.sent = tool.arguments]
      closed == Emit([told EXCEPT !.tools[t] = shut],
                     Event("content_block_stop", tool.blockIndex, "none"))
  IN CASE tool.closed -> r
       [] ~tool.closed /\ r.openTool = t ->
            [closed EXCEPT !.openKind = "none", !.openIndex = -1, !.openTool = 0]
       [] OTHER -> closed

MutCloseForgetsTool(r) ==
  IF r.openKind \in {"none", "tool_use"} THEN r
  ELSE [Emit(r, Event("content_block_stop", r.openIndex, "none"))
          EXCEPT !.openKind = "none", !.openIndex = -1]

CloseOpenBlock(r) ==
  CASE r.openKind = "none"     -> r
    [] r.openKind = "tool_use" -> CloseToolBlock(r, r.openTool)
    [] OTHER -> [Emit(r, Event("content_block_stop", r.openIndex, "none"))
                   EXCEPT !.openKind = "none", !.openIndex = -1]

\* thinkingDelta and textDelta: switch to a block of that kind, then a delta.
ContentDelta(r, kind) ==
  LET switched == [CloseOpenBlock(r) EXCEPT !.openKind = kind, !.openIndex = r.nextIndex,
                                            !.nextIndex = @ + 1]
      opened == IF r.openKind = kind THEN r
                ELSE Emit(switched, Event("content_block_start", switched.openIndex, kind))
  IN Emit([opened EXCEPT !.sawContent = TRUE],
          Event("content_block_delta", opened.openIndex, kind))

MutStartToolUnopened(r, t) ==
  Emit([r EXCEPT !.tools[t].started = TRUE, !.tools[t].blockIndex = r.nextIndex,
                 !.nextIndex = @ + 1, !.openKind = "tool_use", !.openIndex = r.nextIndex],
       Event("content_block_start", r.nextIndex, "tool_use"))

StartToolBlock(r, t) ==
  IF r.tools[t].started THEN r
  ELSE Emit([r EXCEPT !.tools[t] = [@ EXCEPT !.started = TRUE, !.blockIndex = r.nextIndex],
                      !.nextIndex = @ + 1, !.openKind = "tool_use",
                      !.openIndex = r.nextIndex, !.openTool = t, !.sawToolCall = TRUE],
            Event("content_block_start", r.nextIndex, "tool_use"))

ToolPosition(r, i) == CHOOSE t \in DOMAIN r.tools : r.tools[t].openAIIndex = i
ToolFor(r, i) ==
  IF \E t \in DOMAIN r.tools : r.tools[t].openAIIndex = i THEN r
  ELSE [r EXCEPT !.tools = Append(@, NewTool(i))]

MutAnnounceOver(r, t) == StartToolBlock(r, t)

Announce(r, t) == StartToolBlock(CloseOpenBlock(r), t)

\* Arguments arrive as fragments of one JSON object.
JoinArguments(arguments, fragment) ==
  CASE fragment = "none" -> arguments
    [] fragment # "none" /\ arguments = "end" -> "part"
    [] OTHER -> fragment

\* One call of toolCallDeltas' loop.
ToolCallDelta(r, call) ==
  LET known == ToolFor(r, call.index)
      t == ToolPosition(known, call.index)
      old == known.tools[t]
      tool == [old EXCEPT !.id = @ \/ call.id,
                          !.name = @ \/ (~old.started /\ call.name),
                          !.arguments = JoinArguments(@, call.args)]
      noted == [known EXCEPT !.tools[t] = tool]
  IN IF ~tool.started /\ tool.id /\ tool.name THEN Announce(noted, t) ELSE noted

NormalizeFinishReason(reason, sawToolCall, valid) ==
  IF reason \in {"length", "content_filter"} THEN reason
  ELSE IF sawToolCall THEN (IF valid THEN "tool_calls" ELSE "length")
  ELSE IF reason = "tool_calls" THEN "stop" ELSE reason

MutStopReasonUnchecked(reason, sawToolCall, valid) ==
  IF reason = "length" THEN "max_tokens" ELSE IF sawToolCall THEN "tool_use" ELSE "end_turn"

ClaudeStopReason(reason, sawToolCall, valid) ==
  CASE reason = "length" -> "max_tokens"
    [] reason \in {"tool_calls", "function_call"} ->
         IF sawToolCall /\ ~valid THEN "max_tokens" ELSE "tool_use"
    [] OTHER -> "end_turn"

MessageDelta(r) ==
  IF r.deltaSent THEN r
  ELSE Emit([r EXCEPT !.deltaSent = TRUE],
            Event("message_delta", -1,
                  ClaudeStopReason(IF r.finishReason = "none" THEN "stop" ELSE r.finishReason,
                                   r.sawToolCall, ToolArgumentsValid(r))))

MessageStop(r) ==
  IF r.stopSent THEN r
  ELSE Emit([r EXCEPT !.stopSent = TRUE], Event("message_stop", -1, "none"))

-----------------------------------------------------------------------------
(***************************************************************************)
(* feed and finish.                                                        *)
(***************************************************************************)

MutRenderDeltaEither(r, choice) ==
  LET begun == StartMessage(r)
  IN IF choice.calls # <<>> THEN FoldLeft(ToolCallDelta, begun, choice.calls)
     ELSE ContentDelta(begun, "text")

RenderDelta(r, choice) ==
  LET begun == StartMessage(r)
      thought == IF choice.thinking THEN ContentDelta(begun, "thinking") ELSE begun
      told == IF choice.text THEN ContentDelta(thought, "text") ELSE thought
      after[n \in 0..Len(choice.calls)] ==
        IF n = 0 THEN told ELSE ToolCallDelta(after[n - 1], choice.calls[n])
  IN after[Len(choice.calls)]

RenderChoice(r, choice) ==
  LET rendered == IF choice.delta THEN RenderDelta(r, choice) ELSE r
      reason == NormalizeFinishReason(choice.finish, rendered.sawToolCall,
                                      ToolArgumentsValid(rendered))
  IN IF choice.finish = "none" THEN rendered
     ELSE CloseOpenBlock([rendered EXCEPT !.finishReason = reason])

\* The message may be ended now: usage is known and either a finish reason came
\* or this is a usage-only chunk after content.
GenerationOver(r, chunk) ==
  /\ ~r.deltaSent /\ r.hasUsage
  /\ r.finishReason # "none" \/ (chunk.choices = <<>> /\ r.sawContent)

\* An OpenAI error object in place of a chunk.
ExtractionFault(chunk) == chunk.error

Feed(r, chunk) ==
  LET counted == [r EXCEPT !.hasUsage = @ \/ chunk.usage]
      after[n \in 0..Len(chunk.choices)] ==
        IF n = 0 THEN counted ELSE RenderChoice(after[n - 1], chunk.choices[n])
      rendered == after[Len(chunk.choices)]
  IN IF ExtractionFault(chunk) THEN Emit(r, Event("error", -1, "none"))
     ELSE IF GenerationOver(rendered, chunk)
          THEN MessageStop(MessageDelta(CloseOpenBlock(rendered)))
          ELSE rendered

\* finish announces a nameless call under a placeholder name, unless it carries
\* no signal at all.
FinishTool(r, t) ==
  LET tool == r.tools[t]
  IN CASE tool.closed -> r
       [] ~tool.closed /\ ~tool.started /\ ~tool.id /\ ~tool.name /\ tool.arguments = "none" ->
            [r EXCEPT !.tools[t].closed = TRUE]
       [] OTHER -> CloseToolBlock(StartToolBlock([r EXCEPT !.tools[t].name = TRUE], t), t)

MutFinishForgetsStop(r) == MessageDelta(CloseOpenBlock(r))

Finish(r) ==
  LET after[n \in 0..Len(r.tools)] ==
        IF n = 0 THEN CloseOpenBlock(r) ELSE FinishTool(after[n - 1], n)
  IN MessageStop(MessageDelta(after[Len(r.tools)]))

-----------------------------------------------------------------------------
(***************************************************************************)
(* The upstream.  One without disorder behaves as an OpenAI-compatible one *)
(* is documented to: some content first, each tool call announced under    *)
(* the next index with its id and name and finished before the next block  *)
(* begins, then a finish reason, then usage, with or in the finish chunk.  *)
(* It may stop early, or break off with an error.  The liberties it may    *)
(* take beyond that: "empty", it ends or fails before any content;         *)
(* "nameless", usage comes while a tool call has no name yet;              *)
(* "interleaved", fragments of several tool calls, or of a call and text,  *)
(* alternate; "sparse", calls skip indexes; "early-usage", it keeps        *)
(* generating after it sent usage or a finish reason.                      *)
(***************************************************************************)

\* The positions of call fragments in a chunk, and the order they are in.
Fragments(chunk) ==
  UNION {{<<c, k>> : k \in DOMAIN chunk.choices[c].calls} : c \in DOMAIN chunk.choices}
CallAt(chunk, f) == chunk.choices[f[1]].calls[f[2]]
Before(chunk, f) == {g \in Fragments(chunk) : g[1] < f[1] \/ (g[1] = f[1] /\ g[2] < f[2])}
Indexes(chunk, F) == {CallAt(chunk, f).index : f \in F}

Begins(chunk) == chunk.error \/ \E c \in DOMAIN chunk.choices : chunk.choices[c].delta
Thoughts(chunk) == Cardinality({c \in DOMAIN chunk.choices : chunk.choices[c].thinking})
Texts(chunk) == Cardinality({c \in DOMAIN chunk.choices : chunk.choices[c].text})
HasContent(chunk) ==
  \E c \in DOMAIN chunk.choices : chunk.choices[c].thinking \/ chunk.choices[c].text
Finishes(chunk) == \E c \in DOMAIN chunk.choices : chunk.choices[c].finish # "none"
Generates(chunk) == HasContent(chunk) \/ Fragments(chunk) # {}
Known == {renderer.tools[t].openAIIndex : t \in DOMAIN renderer.tools}
Nameless(chunk) ==
  \/ \E t \in DOMAIN renderer.tools : ~renderer.tools[t].started
  \/ \E f \in Fragments(chunk) :
       LET call == CallAt(chunk, f) IN call.index \notin Known /\ ~(call.id /\ call.name)
Allowed(liberty) == liberty \in upstream.disorder

Admissible(chunk) ==
  /\ upstream.phase # "over"
  /\ chunk.error => upstream.begun \/ Allowed("empty")
  /\ Generates(chunk) \/ Finishes(chunk) =>
       upstream.phase = "generating" \/ Allowed("early-usage")
  /\ Finishes(chunk) \/ chunk.usage => upstream.begun \/ Generates(chunk)
  /\ chunk.usage => /\ \/ upstream.phase = "finished" \/ Finishes(chunk)
                       \/ Allowed("early-usage")
                    /\ ~Nameless(chunk) \/ Allowed("nameless")
  /\ \/ Allowed("early-usage")
     \/ \A c \in DOMAIN chunk.choices :
          chunk.choices[c].finish # "none" => c = Len(chunk.choices)
  /\ \/ Allowed("sparse")
     \/ \A f \in Fragments(chunk) : 0..(CallAt(chunk, f).index - 1) \subseteq
             Known \cup Indexes(chunk, Before(chunk, f))
  /\ \/ Allowed("interleaved")
     \/ /\ \A f \in Fragments(chunk) :
             CallAt(chunk, f).index \notin Indexes(chunk, Before(chunk, f))
        /\ \A f \in Fragments(chunk), t \in DOMAIN renderer.tools :
             renderer.tools[t].openAIIndex = CallAt(chunk, f).index =>
               /\ ~renderer.tools[t].closed /\ ~HasContent(chunk) /\ f = <<1, 1>>
               /\ renderer.tools[t].arguments = "end" => CallAt(chunk, f).args = "none"
        /\ \A t \in DOMAIN renderer.tools :
             (Generates(chunk) /\ renderer.tools[t].arguments = "part") =>
               renderer.tools[t].openAIIndex \in Indexes(chunk, Fragments(chunk))

\* A native frame has neither "choices" nor "usage", and feed hands it to the
\* Anthropic renderer as it is: the native translator is not consulted.
Decoded(chunk) ==
  IF Mode = "native" THEN [error |-> FALSE, choices |-> <<>>, usage |-> FALSE] ELSE chunk

-----------------------------------------------------------------------------

Init ==
  /\ renderer = NewRenderer
  /\ queue = <<>>
  /\ \E d \in Disorders :
       upstream = [phase |-> "generating", begun |-> FALSE, thinking |-> 0, text |-> 0,
                   sent |-> 0, ended |-> FALSE, disorder |-> d]
  /\ client = [msg |-> "none", block |-> -1, next |-> 0, deltas |-> 0,
               thinking |-> 0, text |-> 0, tools |-> 0, reason |-> "none"]

\* What feed or finish returned: its events wait to be emitted.
Rendered(r) ==
  /\ renderer' = [r EXCEPT !.out = <<>>]
  /\ queue' = r.out

Bound == IF upstream.disorder = {} THEN MaxChunks ELSE MaxDisordered

\* The pump reads a chunk once every earlier event is out.
FeedChunk(chunk) ==
  /\ ~upstream.ended /\ queue = <<>>
  /\ upstream.sent < Bound
  /\ upstream.sent = Bound - 1 =>  \* the bound leaves room to begin
       upstream.begun \/ Begins(chunk) \/ Allowed("empty")
  /\ Admissible(chunk)
  /\ Rendered(Feed(renderer, Decoded(chunk)))
  /\ upstream' = [upstream EXCEPT
       !.sent = @ + 1,
       !.begun = @ \/ Begins(chunk),
       !.thinking = @ + Thoughts(chunk), !.text = @ + Texts(chunk),
       !.phase = IF chunk.error \/ (chunk.usage /\ ~Allowed("early-usage")) THEN "over"
                 ELSE IF Finishes(chunk) THEN "finished" ELSE @]
  /\ UNCHANGED client

UpstreamEnd ==
  /\ ~upstream.ended /\ queue = <<>>
  /\ upstream.begun \/ Allowed("empty")
  /\ Rendered(Finish(renderer))
  /\ upstream' = [upstream EXCEPT !.ended = TRUE]
  /\ UNCHANGED client

\* How a client takes an event; whether it may is MessageEvents' business.
ClientAfter(c, e) ==
  CASE e.type = "message_start" -> [c EXCEPT !.msg = "open"]
    [] e.type = "content_block_start" ->
         [c EXCEPT !.block = e.index, !.next = e.index + 1,
                   !.tools = @ + (IF e.detail = "tool_use" THEN 1 ELSE 0)]
    [] e.type = "content_block_delta" ->
         [c EXCEPT !.block = e.index, !.deltas = @ + 1,
                   !.thinking = @ + (IF e.detail = "thinking" THEN 1 ELSE 0),
                   !.text = @ + (IF e.detail = "text" THEN 1 ELSE 0)]
    [] e.type = "content_block_stop" -> [c EXCEPT !.block = -1]
    [] e.type = "message_delta" -> [c EXCEPT !.msg = "closing", !.reason = e.detail]
    [] e.type = "message_stop" -> [c EXCEPT !.msg = "stopped"]
    [] e.type = "error" -> c

\* One host.stream.emit.
EmitNext ==
  /\ queue # <<>>
  /\ queue' = Tail(queue)
  /\ client' = ClientAfter(client, Head(queue))
  /\ UNCHANGED <<renderer, upstream>>

Over == upstream.ended /\ queue = <<>>
Idle == Over /\ UNCHANGED vars

Next == (\E chunk \in Chunks : FeedChunk(chunk)) \/ UpstreamEnd \/ EmitNext \/ Idle

Spec == Init /\ [][Next]_vars

\* The pump goroutine emits what it rendered.
FairSpec == Spec /\ WF_vars(EmitNext)

-----------------------------------------------------------------------------

Tool == [openAIIndex : Nat, blockIndex : Int, id : BOOLEAN, name : BOOLEAN,
         arguments : {"none", "part", "end"}, sent : {"none", "part", "end"},
         started : BOOLEAN, closed : BOOLEAN]

\* Types, and that the open block the renderer remembers is one it announced.
TypeOK ==
  /\ renderer.openKind \in {"none", "thinking", "text", "tool_use"}
  /\ renderer.openKind = "none" <=> renderer.openIndex = -1
  /\ renderer.openKind = "tool_use" <=> renderer.openTool # 0
  /\ renderer.openTool \in 0..Len(renderer.tools)
  /\ \A t \in DOMAIN renderer.tools : renderer.tools[t] \in Tool
  /\ client.msg \in {"none", "open", "closing", "stopped"}
  /\ upstream.sent \in 0..Bound

Orderly == upstream.disorder = {}

\* claude_output.go:394-395 and provider_regression_test.go:552-557: what
\* reaches the client of an orderly upstream is one well-formed message.
Grammar == INSTANCE MessageEvents WITH
  msg <- IF Orderly THEN client.msg ELSE "none",
  block <- IF Orderly THEN client.block ELSE -1,
  next <- IF Orderly THEN client.next ELSE 0,
  deltas <- IF Orderly THEN client.deltas ELSE 0

FollowsGrammar == Grammar!Spec

\* claude_output.go:394-395, whatever the upstream does: a block ends before the
\* next one begins, a new block takes the next index, a delta goes to the open
\* block, and the message is not ended over an open block.
BlocksSequential ==
  [][/\ client'.block # client.block =>
          \/ client'.block = -1
          \/ client.block = -1 /\ client'.block = client.next /\ client'.next = client.next + 1
     /\ client'.deltas # client.deltas => client'.block = client.block /\ client.block # -1
     /\ client'.msg # client.msg => client.block = -1]_client

\* claude_output.go:476-477: a message that stops for tool use holds no tool_use
\* block whose input the client got cut short - unless calls were interleaved,
\* when what was recorded after a block closed is never sent, or went on after
\* the stop reason was out.
CompletedToolsAreWhole ==
  client.reason = "tool_use" /\ ~Allowed("interleaved") /\ ~Allowed("early-usage") =>
    /\ client.tools > 0
    /\ \A t \in DOMAIN renderer.tools :
         renderer.tools[t].started => renderer.tools[t].sent \in {"none", "end"}

\* README.md:95: every piece of reasoning and of text the upstream generated is
\* read by the Anthropic client as what it is, once.
ContentDelivered ==
  Over => client.thinking = upstream.thinking /\ client.text = upstream.text

\* Once an orderly upstream has ended, wherever it was, the client gets its
\* message_stop.
MessageEnds == (Orderly /\ upstream.ended) ~> client.msg = "stopped"

=============================================================================
