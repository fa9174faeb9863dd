---------------------------- MODULE BufferedReply ----------------------------
(***************************************************************************)
(* The non-streaming answer to an Anthropic client: aggregateUpstream      *)
(* folds the upstream body into one OpenAI completion (native.go), which   *)
(* anthropicMessageFromCompletion renders (claude_output.go).  The same    *)
(* body goes through the streaming renderer here, so that the two answers  *)
(* a client can ask for are compared.                                      *)
(***************************************************************************)
EXTENDS AnthropicStream

VARIABLE aggregate \* the fields of aggregator, and whether an error frame came

bufferedVars == <<vars, aggregate>>

-----------------------------------------------------------------------------
(* The aggregator.  Reasoning and text are counted in pieces; reasoned says that
   some of the reasoning is more than whitespace. *)

NewAggregator ==
  [thinking |-> 0, reasoned |-> FALSE, text |-> 0, toolCalls |-> <<>>, usage |-> FALSE,
   finishReason |-> "none", fault |-> FALSE]

EmptyCall == [id |-> FALSE, name |-> FALSE, arguments |-> "none"]

\* A call's index is its position: positions skipped on the way stay empty.
RoomFor(calls, index) ==
  calls \o [i \in 1..(index + 1 - Len(calls)) |-> EmptyCall]

\* One call of mergeToolCalls' loop.
MergeToolCall(calls, call) ==
  [RoomFor(calls, call.index) EXCEPT
     ![call.index + 1] = [id |-> @.id \/ call.id, name |-> @.name \/ call.name,
                          arguments |-> JoinArguments(@.arguments, call.args)]]

MergeToolCalls(calls, incoming) ==
  LET after[n \in 0..Len(incoming)] ==
        IF n = 0 THEN calls ELSE MergeToolCall(after[n - 1], incoming[n])
  IN after[Len(incoming)]

MutAddChoiceLastOnly(a, choice) ==
  [a EXCEPT !.text = IF choice.calls = <<>> THEN @ + (IF choice.text THEN 1 ELSE 0) ELSE @,
            !.thinking = @ + (IF choice.thinking THEN 1 ELSE 0),
            !.reasoned = @ \/ (choice.thinking /\ ~choice.blank),
            !.toolCalls = MergeToolCalls(@, choice.calls),
            !.finishReason = IF choice.finish # "none" THEN choice.finish ELSE @]

AddChoice(a, choice) ==
  [a EXCEPT !.text = @ + (IF choice.text THEN 1 ELSE 0),
            !.thinking = @ + (IF choice.thinking THEN 1 ELSE 0),
            !.reasoned = @ \/ (choice.thinking /\ ~choice.blank),
            !.toolCalls = MergeToolCalls(@, choice.calls),
            !.finishReason = IF choice.finish # "none" THEN choice.finish ELSE @]

\* The loop of aggregateUpstream: an error frame fails the whole call.
AddFrame(a, chunk) ==
  LET after[n \in 0..Len(chunk.choices)] ==
        IF n = 0 THEN [a EXCEPT !.usage = @ \/ chunk.usage]
        ELSE AddChoice(after[n - 1], chunk.choices[n])
  IN IF a.fault THEN a
     ELSE IF ExtractionFault(chunk) THEN [a EXCEPT !.fault = TRUE]
     ELSE after[Len(chunk.choices)]

\* completion's default when no finish reason came.
CompletionReason(a) ==
  CASE a.finishReason # "none"                       -> a.finishReason
    [] a.finishReason = "none" /\ a.toolCalls # <<>>      -> "tool_calls"
    [] OTHER                                           -> "stop"

\* The input of a call: its object, or an empty one when it does not parse.
Input(call) == IF call.arguments = "end" THEN "end" ELSE "none"

\* Reasoning of nothing but whitespace is left out.
AnthropicMessage(a) ==
  [thinking |-> IF a.reasoned THEN a.thinking ELSE 0, text |-> a.text,
   toolUse |-> [t \in DOMAIN a.toolCalls |-> Input(a.toolCalls[t])],
   stopReason |-> ClaudeStopReason(CompletionReason(a), a.toolCalls # <<>>,
                    \A t \in DOMAIN a.toolCalls : a.toolCalls[t].arguments # "part")]

\* What executorExecute answers: a message or an error.
Failed == aggregate.fault \/ upstream.sent = 0
Reply == AnthropicMessage(aggregate)

-----------------------------------------------------------------------------
(* One upstream body, streamed and buffered. *)

BufferedInit == Init /\ aggregate = NewAggregator

FrameArrives(chunk) == FeedChunk(chunk) /\ aggregate' = AddFrame(aggregate, chunk)

StreamProceeds == (UpstreamEnd \/ EmitNext \/ Idle) /\ UNCHANGED aggregate

BufferedNext == (\E chunk \in Chunks : FrameArrives(chunk)) \/ StreamProceeds

-----------------------------------------------------------------------------
\* An upstream that gives its calls ids and names, ends with a finish reason that
\* goes with them and reasons in more than whitespace.  Without it the two paths
\* differ, see the README.
Regular ==
  /\ Orderly
  /\ aggregate.thinking > 0 => aggregate.reasoned
  /\ \A t \in DOMAIN aggregate.toolCalls : aggregate.toolCalls[t].id /\ aggregate.toolCalls[t].name
  /\ aggregate.finishReason = "length"
       \/ (aggregate.finishReason = "tool_calls" <=> aggregate.toolCalls # <<>>)

\* The host picks the streaming or the buffered path by what the client asked
\* for (executor.go:81-86, claude_output.go:568-571): both give the same message,
\* as many pieces of reasoning and text, the same calls with the same inputs
\* and the same stop reason.  An input cut short is streamed as it came, and
\* buffered as an empty object; neither is announced as a completed call.
StreamedEqualsBuffered ==
  (Over /\ Regular /\ ~Failed) =>
    /\ client.thinking = Reply.thinking /\ client.text = Reply.text
    /\ client.tools = Len(Reply.toolUse)
    /\ \A t \in DOMAIN Reply.toolUse :
         IF renderer.tools[t].sent = "part"
         THEN Reply.stopReason # "tool_use" ELSE Reply.toolUse[t] = renderer.tools[t].sent
    /\ client.reason = Reply.stopReason

=============================================================================
