------------------------------ MODULE SseRelay ------------------------------
(***************************************************************************)
(* streamRenderer for an OpenAI client (executor.go), over the bytes that  *)
(* host reads return: sseDecoder cuts them into frames, which agent mode   *)
(* forwards and nativeTranslator turns into OpenAI chunks (native.go).     *)
(*                                                                         *)
(* A frame is [kind, text, comment]: text is the sequence of pieces of the *)
(* answer it carries, comment says that a comment line precedes the data.  *)
(* On the wire it is two halves of a line and a blank line, with LF or     *)
(* CRLF ends; the last one may lack its blank line or be cut in half.      *)
(***************************************************************************)
EXTENDS Naturals, Sequences, FiniteSets, SequencesExt

CONSTANT Bodies \* upstream bodies: [mode, frames, eol, tail]

ASSUME BodiesAssumption ==
  \A b \in Bodies : b.mode \in {"agent", "native"} /\ b.frames # <<>>

VARIABLES body,    \* what the upstream sends
          wire,    \* symbols of it that have not been read
          decoder, \* sseDecoder.buffer
          relay,   \* the fields of streamRenderer and nativeTranslator
          out,     \* frames the renderer has made
          over     \* finish has run

relayVars == <<body, wire, decoder, relay, out, over>>

-----------------------------------------------------------------------------
(* The wire. *)

Half(k, h) == [frame |-> k, half |-> h]
CR == Half(0, 1)  \* the symbols that belong to no frame's data
LF == Half(0, 2)
Colon == Half(0, 3)
EndOfLine(b) == IF b.eol = "crlf" THEN <<CR, LF>> ELSE <<LF>>

FrameText(b, k) ==
  LET comment == IF b.frames[k].comment THEN <<Colon>> \o EndOfLine(b) ELSE <<>>
      data == IF b.frames[k].kind = "heartbeat" THEN <<Colon>> ELSE <<Half(k, 1), Half(k, 2)>>
  IN comment \o data \o EndOfLine(b) \o EndOfLine(b)

Wire(b) ==
  LET text == FlattenSeq([k \in DOMAIN b.frames |-> FrameText(b, k)])
      blank == 2 * Len(EndOfLine(b))
      missing == CASE b.tail = "ended" -> 0
                   [] b.tail = "open"  -> blank
                   [] b.tail = "cut"   -> blank + 1
  IN SubSeq(text, 1, Len(text) - missing)

-----------------------------------------------------------------------------
(* sseDecoder. *)

UnfoldCRLF(symbols) ==
  FoldLeft(LAMBDA text, s : IF s = LF /\ text # <<>> /\ Last(text) = CR
                            THEN Append(Front(text), LF) ELSE Append(text, s),
           <<>>, symbols)

\* The line ends inside a frame only separate its lines, which the symbols
\* already are.
Trim(text) == SelectSeq(text, LAMBDA s : s # CR /\ s # LF)

TakeSymbol(acc, s) ==
  IF s = LF /\ acc.rest # <<>> /\ Last(acc.rest) = LF
  THEN LET frame == Trim(acc.rest)
       IN [rest |-> <<>>,
           frames |-> IF frame = <<>> THEN acc.frames ELSE Append(acc.frames, frame)]
  ELSE [acc EXCEPT !.rest = Append(@, s)]

MutPush(buffer, data) ==
  FoldLeft(TakeSymbol, [rest |-> <<>>, frames |-> <<>>], buffer \o UnfoldCRLF(data))

\* push: the complete frames found so far, and the partial one that stays.
Push(buffer, data) ==
  FoldLeft(TakeSymbol, [rest |-> <<>>, frames |-> <<>>], UnfoldCRLF(buffer \o data))

IsComment(frame) == frame[1] = Colon
Cut(frame) == Last(frame) # Colon /\ Last(frame).half = 1
Sent(frame) == body.frames[Last(frame).frame]
IsDoneFrame(frame) == ~IsComment(frame) /\ ~Cut(frame) /\ Sent(frame).kind = "done"

-----------------------------------------------------------------------------
(* nativeTranslator. *)

NewRelay == [full |-> <<>>, sawDelta |-> FALSE, usage |-> FALSE, finish |-> "stop",
             done |-> FALSE]

Frame(type, text) == [type |-> type, text |-> text]

\* parseFrame tolerates comment lines and drops what is not a whole object.
Parses(frame) == Last(frame) # Colon /\ ~Cut(frame)

\* translateChunk, as the next translator and the frames it emits.  A full text
\* repeats what was told before and may add to it; once a delta came, full texts
\* are ignored.
TranslateChunk(r, chunk) ==
  CASE chunk.kind = "delta" ->
         [relay |-> [r EXCEPT !.sawDelta = TRUE], out |-> <<Frame("text", chunk.text)>>]
    [] chunk.kind = "calls" ->
         [relay |-> [r EXCEPT !.sawDelta = TRUE, !.finish = "tool_calls"],
          out |-> <<Frame("calls", <<>>)>>]
    [] chunk.kind = "full" /\ ~r.sawDelta ->
         LET added == IF IsPrefix(r.full, chunk.text)
                      THEN SubSeq(chunk.text, Len(r.full) + 1, Len(chunk.text)) ELSE chunk.text
         IN [relay |-> [r EXCEPT !.full = chunk.text],
             out |-> IF added = <<>> THEN <<>> ELSE <<Frame("text", added)>>]
    [] chunk.kind = "usage" -> [relay |-> [r EXCEPT !.usage = TRUE], out |-> <<>>]
    [] OTHER -> [relay |-> r, out |-> <<>>]  \* done, stage, compress, answer, error, a late full text

\* finalFrames, after the frames its flush brings.
FinalFrames(r) ==
  <<Frame(r.finish, <<>>)>> \o (IF r.usage THEN <<Frame("usage", <<>>)>> ELSE <<>>)
    \o <<Frame("done", <<>>)>>

-----------------------------------------------------------------------------
(* streamRenderer.  acc is [relay, out]. *)

\* Agent mode forwards every frame; only a done marker is sent but once.
ForwardFrame(acc, frame) ==
  CASE IsComment(frame) -> [acc EXCEPT !.out = Append(@, Frame("comment", <<>>))]
    [] IsDoneFrame(frame) ->
         IF acc.relay.done THEN acc
         ELSE [relay |-> [acc.relay EXCEPT !.done = TRUE],
               out |-> Append(acc.out, Frame("done", <<>>))]
    [] ~IsComment(frame) /\ ~IsDoneFrame(frame) ->
         [acc EXCEPT !.out = Append(@, IF Cut(frame) THEN Frame("cut", <<>>)
                                       ELSE Frame("data", Sent(frame).text))]

TranslateFrame(acc, frame) ==
  LET step == TranslateChunk(acc.relay, Sent(frame))
  IN IF Parses(frame) THEN [relay |-> step.relay, out |-> acc.out \o step.out] ELSE acc

\* feed: the frames of one read.
RelayFeed(data) ==
  LET found == Push(decoder, data)
      render(acc, frame) == IF body.mode = "native" THEN TranslateFrame(acc, frame)
                            ELSE ForwardFrame(acc, frame)
  IN [decoder |-> found.rest,
      result |-> FoldLeft(render, [relay |-> relay, out |-> out], found.frames)]

\* finish: native mode flushes with a blank line of its own, agent mode hands
\* over what is left in the buffer.
FinishNative ==
  LET flushed == RelayFeed(<<LF, LF>>).result
  IN flushed.out \o FinalFrames(flushed.relay)

FinishAgent ==
  LET trailing == Trim(decoder)
      flushed == IF trailing = <<>> \/ IsDoneFrame(trailing) THEN out
                 ELSE ForwardFrame([relay |-> relay, out |-> out], trailing).out
  IN IF relay.done THEN flushed ELSE flushed \o <<Frame("done", <<>>)>>

\* hostPayload and hostStreamEmit, which pass on no comment and no done marker: the
\* host frames the payloads and ends the stream itself.
HostPayloads(frames) == SelectSeq(frames, LAMBDA f : f.type \notin {"comment", "done"})

-----------------------------------------------------------------------------
RelayInit ==
  /\ body \in Bodies
  /\ wire = Wire(body)
  /\ decoder = <<>>
  /\ relay = NewRelay
  /\ out = <<>>
  /\ over = FALSE

\* One host read, of as much as the host likes to return.
ReadBytes(n) ==
  /\ n <= Len(wire)
  /\ LET fed == RelayFeed(SubSeq(wire, 1, n))
     IN /\ decoder' = fed.decoder
        /\ relay' = fed.result.relay
        /\ out' = fed.result.out
  /\ wire' = SubSeq(wire, n + 1, Len(wire))
  /\ UNCHANGED <<body, over>>

UpstreamEnds ==
  /\ wire = <<>> /\ ~over
  /\ out' = IF body.mode = "native" THEN FinishNative ELSE FinishAgent
  /\ over' = TRUE
  /\ UNCHANGED <<body, wire, decoder, relay>>

Relayed == over /\ UNCHANGED relayVars

RelayNext == (\E n \in 1..Len(wire) : ReadBytes(n)) \/ UpstreamEnds \/ Relayed

RelaySpec == RelayInit /\ [][RelayNext]_relayVars

-----------------------------------------------------------------------------
\* The frames that reached the plugin whole.
Arrived == {k \in DOMAIN body.frames : body.tail # "cut" \/ k # Len(body.frames)}
Kinds == {body.frames[k].kind : k \in Arrived}

\* The answer the upstream gave: its pieces in order.
Answer ==
  [i \in 1..Cardinality(UNION {ToSet(body.frames[k].text) : k \in Arrived}) |-> i]

Delivered == HostPayloads(out)
Said == FlattenSeq([i \in DOMAIN Delivered |-> Delivered[i].text])
Count(type, frames) == Cardinality({i \in DOMAIN frames : frames[i].type = type})

\* native.go:158-173 and 285-303, executor.go:548-600, native_test.go:112-114:
\* however the host cuts the bytes, whatever line ends, repeated full texts,
\* heartbeats and markers the upstream mixes in, and wherever it breaks off, the
\* host is given every piece of the answer once and in order, calls and usage with
\* the finish reason that goes with them, and nothing after that; the renderer
\* makes one done marker, its last frame, which hostPayload keeps from the host.
RelayedWhole ==
  /\ IsPrefix(Said, Answer)
  /\ over => /\ Said = Answer
             /\ Count("done", out) = 1 /\ Last(out).type = "done"
             /\ body.mode = "native" =>
                  /\ Count("usage", Delivered) = (IF "usage" \in Kinds THEN 1 ELSE 0)
                  /\ Count("tool_calls", Delivered) = (IF "calls" \in Kinds THEN 1 ELSE 0)
                  /\ Count("stop", Delivered) = 1 - Count("tool_calls", Delivered)
                  /\ Last(Delivered).type \in {"stop", "tool_calls", "usage"}

=============================================================================
