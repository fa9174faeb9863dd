-------------------------- MODULE MCAnthropicStream --------------------------
(***************************************************************************)
(* Small upstreams for AnthropicStream: text, reasoning, some of it blank, *)
(* two tool calls in whole or in fragments, one without a name, finish     *)
(* reasons and usage.                                                      *)
(***************************************************************************)
EXTENDS AnthropicStream

Choice(thinking, text, calls, finish) ==
  [delta |-> thinking \/ text \/ calls # <<>>, thinking |-> thinking, blank |-> FALSE,
   text |-> text, calls |-> calls, finish |-> finish]
Chunk(choices, usage) == [error |-> FALSE, choices |-> choices, usage |-> usage]
Call(i, named, args) == [index |-> i, id |-> named, name |-> named, args |-> args]

Text == Chunk(<<Choice(FALSE, TRUE, <<>>, "none")>>, FALSE)
ThinkingText == Chunk(<<Choice(TRUE, TRUE, <<>>, "none")>>, FALSE)
TextAndTool == Chunk(<<Choice(FALSE, TRUE, <<Call(0, TRUE, "end")>>, "none")>>, FALSE)
Tools(calls) == Chunk(<<Choice(FALSE, FALSE, calls, "none")>>, FALSE)
Stops(finish, usage) == Chunk(<<Choice(FALSE, FALSE, <<>>, finish)>>, usage)
LastText == Chunk(<<Choice(FALSE, TRUE, <<>>, "stop")>>, FALSE)
Usage == Chunk(<<>>, TRUE)
Heartbeat == Chunk(<<>>, FALSE)
Role == Chunk(<<[Choice(FALSE, FALSE, <<>>, "none") EXCEPT !.delta = TRUE]>>, FALSE)
BlankThinking == Chunk(<<[Choice(TRUE, FALSE, <<>>, "none") EXCEPT !.blank = TRUE]>>, FALSE)
Failure == [error |-> TRUE, choices |-> <<>>, usage |-> FALSE]

MCChunks ==
  {Text, ThinkingText, TextAndTool, LastText, Usage, Heartbeat, Role, BlankThinking,
   Failure}
  \cup {Tools(<<Call(i, TRUE, a)>>) : i \in {0, 1}, a \in {"none", "part", "end"}}
  \cup {Tools(<<Call(i, FALSE, a)>>) : i \in {0, 1}, a \in {"none", "part", "end"}}
  \cup {Tools(<<Call(0, TRUE, "end"), Call(1, TRUE, "part")>>)}
  \cup {Stops(f, u) : f \in {"stop", "tool_calls", "length"}, u \in BOOLEAN}

MCOrderly == {{}}
MCDisorders == {{}, {"empty"}, {"nameless"}, {"interleaved"}, {"sparse"}, {"early-usage"},
                {"nameless", "early-usage"}}

=============================================================================
