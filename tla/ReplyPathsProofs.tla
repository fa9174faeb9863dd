-------------------------- MODULE ReplyPathsProofs --------------------------
(***************************************************************************)
(* What a client of the Messages path reads, for every upstream, every     *)
(* chunk and streams of any length, that it is the same streamed and       *)
(* buffered, and that a buffered body is read whole.                       *)
(*                                                                         *)
(* The renderer works ahead of the client: it renders all events of a call *)
(* of feed or finish, and they are emitted one by one.  So what relates    *)
(* the two is where the waiting events take the client to (Leads): every   *)
(* one of them is legal when its turn comes, and the client they lead to   *)
(* agrees with the renderer (Agrees) on the open block, the next index,    *)
(* the tool calls and the state of the message.  Reaches says so together  *)
(* with what that client has been told; a lemma for each helper says that  *)
(* the helper keeps it and what else it changes; the loops of feed and     *)
(* finish keep it by induction; StreamInv states it of the whole system,   *)
(* with what an orderly upstream adds.  The properties follow.  Twins adds *)
(* the aggregator: it keeps the calls the renderer keeps (SameCalls) and   *)
(* the finish reason the renderer's was made of (SameReason), over every   *)
(* fragment, choice and chunk, so that the two answers agree at the end.   *)
(***************************************************************************)
EXTENDS ReplyPaths, FiniteSetTheorems, NaturalsInduction, SequenceTheorems,
        WellFoundedInduction, TLAPS

-----------------------------------------------------------------------------
(* Events on their way to the client. *)

StopReasons == {"end_turn", "max_tokens", "tool_use"}
Details == {"none", "thinking", "text", "tool_use", "input_json", "end_turn", "max_tokens"}
BlockEvents == {"content_block_start", "content_block_delta", "content_block_stop"}
EventTypes == BlockEvents \cup {"message_start", "message_delta", "message_stop", "error"}
EventSet == [type : EventTypes, index : Int, detail : Details]

MessageStates == {"none", "open", "closing", "stopped"}
ReadReasons == StopReasons \cup {"none"}
Client == [msg : MessageStates, block : Int, next : Nat, deltas : Nat,
           thinking : Nat, text : Nat, tools : Nat, reason : ReadReasons]

\* What a client that has read as much as c may be sent next: by MessageEvents
\* where the whole grammar is meant, and as far as blocks go in any case.
Legal(strict, c, e) ==
  /\ e.type = "content_block_start" => c.block = -1 /\ e.index = c.next
  /\ e.type \in {"content_block_delta", "content_block_stop"} =>
       c.block # -1 /\ e.index = c.block
  /\ e.type \in {"message_start", "message_delta", "message_stop"} => c.block = -1
  /\ e.type = "message_delta" => /\ c.reason = "none" /\ e.detail \in StopReasons
                                 /\ e.detail = "tool_use" => c.tools > 0
  /\ strict => /\ e.type = "message_start" => c.msg = "none"
               /\ e.type \in BlockEvents \cup {"message_delta"} => c.msg = "open"
               /\ e.type = "message_stop" => c.msg = "closing"

\* Reading the events q one after the other takes a client from c to d.
Leads(strict, c, q, d) ==
  \E st \in [0..Len(q) -> Client] :
    /\ st[0] = c /\ st[Len(q)] = d
    /\ \A i \in 1..Len(q) : Legal(strict, st[i - 1], q[i]) /\ st[i] = ClientAfter(st[i - 1], q[i])

LEMMA EventTyped ==
  ASSUME NEW type \in EventTypes, NEW index \in Int, NEW detail \in Details
  PROVE  Event(type, index, detail) \in EventSet
  BY DEF Event, EventSet

LEMMA TypedWords ==
  /\ "message_start" \in EventTypes /\ "message_delta" \in EventTypes
  /\ "message_stop" \in EventTypes /\ "error" \in EventTypes
  /\ "content_block_start" \in EventTypes /\ "content_block_delta" \in EventTypes
  /\ "content_block_stop" \in EventTypes
  /\ "none" \in Details /\ "thinking" \in Details /\ "text" \in Details /\ "tool_use" \in Details
  /\ "input_json" \in Details
  /\ StopReasons \subseteq Details
  /\ -1 \in Int
<1>1. /\ "content_block_start" \in BlockEvents /\ "content_block_delta" \in BlockEvents
      /\ "content_block_stop" \in BlockEvents
  BY DEF BlockEvents
<1>2. -1 \in Int
  OBVIOUS
<1>3. StopReasons \subseteq Details
  BY DEF StopReasons, Details
<1>4. /\ "none" \in Details /\ "thinking" \in Details /\ "text" \in Details
      /\ "tool_use" \in Details /\ "input_json" \in Details
  BY DEF Details
<1>5. /\ "message_start" \in EventTypes /\ "message_delta" \in EventTypes
      /\ "message_stop" \in EventTypes /\ "error" \in EventTypes
  BY DEF EventTypes
<1>6. BlockEvents \subseteq EventTypes
  BY DEF EventTypes
<1> QED
  BY <1>1, <1>2, <1>3, <1>4, <1>5, <1>6

LEMMA ClientAfterTyped ==
  ASSUME NEW c \in Client, NEW e \in EventSet, NEW strict, Legal(strict, c, e)
  PROVE  ClientAfter(c, e) \in Client
<1>1. e.type = "content_block_start" => e.index \in Nat
  BY DEF Legal, Client
<1>2. c.tools + 1 \in Nat /\ c.tools + 0 \in Nat /\ c.thinking + 1 \in Nat
      /\ c.thinking + 0 \in Nat /\ c.text + 1 \in Nat /\ c.text + 0 \in Nat /\ c.deltas + 1 \in Nat
  <2>1. c.tools \in Nat /\ c.thinking \in Nat /\ c.text \in Nat /\ c.deltas \in Nat
    BY DEF Client
  <2> QED
    BY <2>1
<1>3. e.index \in Int /\ (e.index \in Nat => e.index + 1 \in Nat) /\ -1 \in Int
  BY DEF EventSet
<1>4. CASE e.type = "content_block_start"
  BY <1>1, <1>2, <1>3, <1>4 DEF ClientAfter, Client, EventSet
<1>5. CASE e.type = "content_block_delta"
  BY <1>2, <1>3, <1>5 DEF ClientAfter, Client, EventSet
<1>6. CASE e.type \in {"content_block_stop", "error"}
  BY <1>3, <1>6 DEF ClientAfter, Client
<1>7. CASE e.type \in {"message_start", "message_stop"}
  <2>1. "open" \in MessageStates /\ "stopped" \in MessageStates
    BY DEF MessageStates
  <2> QED
    BY <1>7, <2>1 DEF ClientAfter, Client
<1>8. CASE e.type = "message_delta"
  <2>1. "closing" \in MessageStates
    BY DEF MessageStates
  <2>2. e.detail \in ReadReasons
    BY <1>8 DEF Legal, ReadReasons
  <2> QED
    BY <1>8, <2>1, <2>2 DEF ClientAfter, Client
<1>9. e.type \in EventTypes
  BY DEF EventSet
<1> QED
  BY <1>4, <1>5, <1>6, <1>7, <1>8, <1>9 DEF EventTypes, BlockEvents

LEMMA LeadsNowhere ==
  ASSUME NEW c \in Client, NEW strict
  PROVE  Leads(strict, c, <<>>, c)
<1> DEFINE st == [i \in 0..0 |-> c]
<1>1. Len(<<>>) = 0 /\ st \in [0..0 -> Client] /\ st[0] = c /\ 1..0 = {}
  OBVIOUS
<1> QED
  BY <1>1 DEF Leads

LEMMA LeadsOn ==
  ASSUME NEW strict, NEW c, NEW q \in Seq(EventSet), NEW d \in Client, NEW e \in EventSet,
         Leads(strict, c, q, d), Legal(strict, d, e)
  PROVE  /\ Leads(strict, c, Append(q, e), ClientAfter(d, e))
         /\ Append(q, e) \in Seq(EventSet)
         /\ ClientAfter(d, e) \in Client
<1>1. PICK st \in [0..Len(q) -> Client] :
        /\ st[0] = c /\ st[Len(q)] = d
        /\ \A i \in 1..Len(q) : /\ Legal(strict, st[i - 1], q[i])
                                /\ st[i] = ClientAfter(st[i - 1], q[i])
  BY DEF Leads
<1> DEFINE n == Len(q)
           p == Append(q, e)
           f == ClientAfter(d, e)
           ts == [i \in 0..(n + 1) |-> IF i = n + 1 THEN f ELSE st[i]]
<1>2. n \in Nat /\ p \in Seq(EventSet) /\ Len(p) = n + 1 /\ p[n + 1] = e
      /\ \A i \in 1..n : p[i] = q[i]
  OBVIOUS
<1>3. f \in Client
  BY ClientAfterTyped
<1> HIDE DEF n, p, f
<1>4. /\ ts \in [0..(n + 1) -> Client] /\ ts[n + 1] = f
      /\ \A i \in 0..n : ts[i] = st[i]
  BY <1>1, <1>2, <1>3 DEF n
<1> HIDE DEF ts
<1>5. ASSUME NEW i \in 1..(n + 1)
      PROVE  Legal(strict, ts[i - 1], p[i]) /\ ts[i] = ClientAfter(ts[i - 1], p[i])
  <2>1. CASE i \in 1..n
    <3>1. i \in 0..n /\ i - 1 \in 0..n
      BY <1>2, <2>1
    <3>2. ts[i] = st[i] /\ ts[i - 1] = st[i - 1] /\ p[i] = q[i]
      BY <1>2, <1>4, <2>1, <3>1
    <3> QED
      BY <1>1, <2>1, <3>2 DEF n
  <2>2. CASE i = n + 1
    <3>1. i - 1 = n /\ n \in 0..n
      BY <1>2, <2>2
    <3>2. ts[i - 1] = d
      BY <1>1, <1>4, <3>1 DEF n
    <3> QED
      BY <1>2, <1>4, <2>2, <3>2 DEF f
  <2> QED
    BY <1>2, <2>1, <2>2
<1>6. ts[0] = c
  BY <1>1, <1>2, <1>4
<1>7. Leads(strict, c, p, f)
  BY <1>2, <1>4, <1>5, <1>6 DEF Leads
<1> QED
  BY <1>2, <1>3, <1>7 DEF p, f

\* One emit takes the first event off the queue.
LEMMA LeadsLess ==
  ASSUME NEW strict, NEW c, NEW q \in Seq(EventSet), NEW d, Leads(strict, c, q, d), q # <<>>
  PROVE  /\ Legal(strict, c, Head(q))
         /\ Leads(strict, ClientAfter(c, Head(q)), Tail(q), d)
         /\ ClientAfter(c, Head(q)) \in Client
         /\ Head(q) \in EventSet
         /\ Tail(q) \in Seq(EventSet)
<1>1. PICK st \in [0..Len(q) -> Client] :
        /\ st[0] = c /\ st[Len(q)] = d
        /\ \A i \in 1..Len(q) : /\ Legal(strict, st[i - 1], q[i])
                                /\ st[i] = ClientAfter(st[i - 1], q[i])
  BY DEF Leads
<1> DEFINE n == Len(q) - 1
           p == Tail(q)
           ts == [i \in 0..n |-> st[i + 1]]
<1>2. n \in Nat /\ Len(q) = n + 1 /\ p \in Seq(EventSet) /\ Len(p) = n
      /\ \A i \in 1..n : p[i] = q[i + 1]
  OBVIOUS
<1>3. Head(q) = q[1] /\ q[1] \in EventSet
  OBVIOUS
<1>4. 1 \in 1..Len(q) /\ 1 - 1 = 0
  BY <1>2
<1>5. Legal(strict, c, Head(q)) /\ st[1] = ClientAfter(c, Head(q))
  BY <1>1, <1>3, <1>4
<1> HIDE DEF n, p
<1>6. \A i \in 0..n : i + 1 \in 0..(n + 1)
  BY <1>2
<1>7. ts \in [0..n -> Client]
  BY <1>1, <1>2, <1>6
<1>8. \A i \in 0..n : ts[i] = st[i + 1]
  OBVIOUS
<1> HIDE DEF ts
<1>9. ts[0] = st[1] /\ ts[n] = d
  <2>1. 0 \in 0..n /\ n \in 0..n /\ 0 + 1 = 1
    BY <1>2
  <2> QED
    BY <1>1, <1>2, <1>8, <2>1
<1>10. ASSUME NEW i \in 1..n
       PROVE  Legal(strict, ts[i - 1], p[i]) /\ ts[i] = ClientAfter(ts[i - 1], p[i])
  <2>1. i \in 0..n /\ i - 1 \in 0..n /\ (i - 1) + 1 = i /\ i + 1 \in 1..(n + 1)
        /\ (i + 1) - 1 = i
    BY <1>2
  <2>2. ts[i] = st[i + 1] /\ ts[i - 1] = st[i]
    BY <1>8, <2>1
  <2>3. Legal(strict, st[i], q[i + 1]) /\ st[i + 1] = ClientAfter(st[i], q[i + 1])
    BY <1>1, <1>2, <2>1
  <2> QED
    BY <1>2, <2>2, <2>3
<1>11. Leads(strict, st[1], p, d)
  BY <1>2, <1>7, <1>9, <1>10 DEF Leads
<1>12. st[1] \in Client
  BY <1>1, <1>2
<1> QED
  BY <1>2, <1>3, <1>5, <1>11, <1>12 DEF p

LEMMA LeadsEmpty ==
  ASSUME NEW strict, NEW c, NEW d, Leads(strict, c, <<>>, d)
  PROVE  c = d
  BY DEF Leads

-----------------------------------------------------------------------------
(* The renderer in the middle of a call. *)

RendererSet ==
  [started : BOOLEAN, nextIndex : Nat, openKind : {"none", "thinking", "text", "tool_use"},
   openIndex : Int, openTool : Nat, tools : Seq(Tool), sawToolCall : BOOLEAN,
   sawContent : BOOLEAN, hasUsage : BOOLEAN, finishReason : FinishReasons,
   deltaSent : BOOLEAN, stopSent : BOOLEAN, out : Seq(EventSet)]

StartedTools(r) == {t \in 1..Len(r.tools) : r.tools[t].started}

\* At most one block is open, and it is the one the renderer remembers.
OneBlock(r) ==
  /\ r.openKind = "none" <=> r.openIndex = -1
  /\ r.openKind = "tool_use" <=> r.openTool # 0
  /\ r.openTool \in 0..Len(r.tools)
  /\ r.openTool # 0 => /\ r.tools[r.openTool].started /\ ~r.tools[r.openTool].closed
                       /\ r.tools[r.openTool].blockIndex = r.openIndex
  /\ \A t \in 1..Len(r.tools) : r.tools[t].started /\ ~r.tools[t].closed => r.openTool = t

Shape(r) ==
  /\ r \in RendererSet
  /\ OneBlock(r)
  /\ r.sawToolCall <=> StartedTools(r) # {}
  /\ r.finishReason = "tool_calls" => r.sawToolCall

MsgOf(r) == IF r.stopSent THEN "stopped" ELSE IF r.deltaSent THEN "closing"
            ELSE IF r.started THEN "open" ELSE "none"

\* c is the client once it has read all that r has rendered.
Agrees(strict, r, c) ==
  /\ c \in Client
  /\ c.block = r.openIndex /\ c.next = r.nextIndex
  /\ c.tools = Cardinality(StartedTools(r))
  /\ c.reason = "none" <=> ~r.deltaSent
  /\ strict => c.msg = MsgOf(r) /\ (r.openKind # "none" => MsgOf(r) = "open")

Rendering(strict, r, c0, c) ==
  /\ Shape(r) /\ Agrees(strict, r, c) /\ Leads(strict, c0, r.out, c)

\* What the client has been told by then: the stop reason, how many pieces of
\* reasoning and how many of text.
Hears(c) == <<c.reason, c.thinking, c.text>>

Reaches(strict, c0, r, said) ==
  \E c \in Client : Rendering(strict, r, c0, c) /\ Hears(c) = said

\* What the helpers leave alone: every field they are not said to change.
BegunFrame(r, q) == q = [r EXCEPT !.started = TRUE, !.out = q.out]

Shut(tool) == [tool EXCEPT !.closed = TRUE, !.sent = tool.arguments]
ShutTools(r) == IF r.openTool = 0 THEN r.tools
                ELSE [r.tools EXCEPT ![r.openTool] = Shut(r.tools[r.openTool])]
ClosedFrame(r, q) ==
  q = [r EXCEPT !.tools = ShutTools(r), !.openKind = "none", !.openIndex = -1, !.openTool = 0,
                !.out = q.out]

Opened(r, t) == [r.tools[t] EXCEPT !.started = TRUE, !.blockIndex = r.nextIndex]
ToolFrame(r, t, q) ==
  q = [r EXCEPT !.tools = [r.tools EXCEPT ![t] = Opened(r, t)], !.nextIndex = r.nextIndex + 1,
                !.openKind = "tool_use", !.openIndex = r.nextIndex, !.openTool = t,
                !.sawToolCall = TRUE, !.out = q.out]

BlockFrame(r, kind, q) ==
  q = [r EXCEPT !.openKind = kind, !.openIndex = r.nextIndex, !.nextIndex = r.nextIndex + 1,
                !.out = q.out]
ToldFrame(r, q) == q = [r EXCEPT !.sawContent = TRUE, !.out = q.out]
ContentFrame(r, kind, q) ==
  /\ q.tools = ShutTools(r) /\ q.started = r.started /\ q.sawToolCall = r.sawToolCall
  /\ q.hasUsage = r.hasUsage /\ q.finishReason = r.finishReason
  /\ q.deltaSent = r.deltaSent /\ q.stopSent = r.stopSent
Heard(said, kind) ==
  <<said[1], said[2] + (IF kind = "thinking" THEN 1 ELSE 0),
    said[3] + (IF kind = "text" THEN 1 ELSE 0)>>

LEMMA StartedFinite ==
  ASSUME NEW r, Shape(r)
  PROVE  /\ IsFiniteSet(StartedTools(r)) /\ Cardinality(StartedTools(r)) \in Nat
         /\ r.sawToolCall => Cardinality(StartedTools(r)) > 0
<1>1. Len(r.tools) \in Nat
  <2>1. r.tools \in Seq(Tool)
    BY DEF Shape, RendererSet
  <2> QED
    BY <2>1
<1>2. IsFiniteSet(1..Len(r.tools))
  BY <1>1, FS_Interval
<1>3. IsFiniteSet(StartedTools(r))
  BY <1>2, FS_Subset DEF StartedTools
<1>4. Cardinality(StartedTools(r)) \in Nat
  BY <1>3, FS_CardinalityType
<1>5. StartedTools(r) # {} => Cardinality(StartedTools(r)) # 0
  BY <1>3, FS_EmptySet
<1> QED
  BY <1>3, <1>4, <1>5 DEF Shape

LEMMA Emitted ==
  ASSUME NEW strict, NEW c0, NEW c \in Client, NEW r, r.out \in Seq(EventSet),
         Leads(strict, c0, r.out, c), NEW e \in EventSet, Legal(strict, c, e),
         NEW q, q.out = Append(r.out, e), NEW d, d = ClientAfter(c, e)
  PROVE  Leads(strict, c0, q.out, d) /\ q.out \in Seq(EventSet) /\ d \in Client
<1>1. /\ Leads(strict, c0, Append(r.out, e), d) /\ Append(r.out, e) \in Seq(EventSet)
      /\ d \in Client
  BY LeadsOn
<1> QED
  BY <1>1

\* claude_output.go: a block, or the message, may begin when no block is open.
LEMMA StartMessageRenders ==
  ASSUME NEW strict \in BOOLEAN, NEW r, NEW c0, NEW said, Reaches(strict, c0, r, said),
         ~r.started => r.openKind = "none" /\ (strict => MsgOf(r) = "none"),
         NEW q, q = StartMessage(r)
  PROVE  BegunFrame(r, q) /\ Reaches(strict, c0, q, said)
<1> SUFFICES ASSUME NEW c \in Client, Rendering(strict, r, c0, c), Hears(c) = said
             PROVE  BegunFrame(r, q) /\ Reaches(strict, c0, q, said)
  BY DEF Reaches
<1>1. r \in RendererSet /\ OneBlock(r) /\ c \in Client /\ Leads(strict, c0, r.out, c)
  BY DEF Rendering, Shape, Agrees
<1>2. CASE r.started
  <2>1. q = r /\ q = [r EXCEPT !.started = TRUE, !.out = q.out]
    BY <1>1, <1>2 DEF StartMessage, RendererSet
  <2> QED
    BY <2>1 DEF Reaches, BegunFrame
<1>3. CASE ~r.started
  <2> DEFINE e == Event("message_start", -1, "none")
             d == ClientAfter(c, e)
  <2>1. q = [r EXCEPT !.started = TRUE, !.out = Append(r.out, e)]
    BY <1>1, <1>3 DEF StartMessage, Emit, RendererSet
  <2>2. e \in EventSet
    BY TypedWords, EventTyped
  <2>3. Legal(strict, c, e)
    BY <1>1, <1>3 DEF Legal, Event, Rendering, Agrees, OneBlock, BlockEvents
  <2>4. d = [c EXCEPT !.msg = "open"]
    BY DEF ClientAfter, Event
  <2> HIDE DEF e, d
  <2>5. r.out \in Seq(EventSet) /\ q.out = Append(r.out, e)
    BY <1>1, <2>1 DEF RendererSet
  <2>6. Leads(strict, c0, q.out, d) /\ q.out \in Seq(EventSet) /\ d \in Client
    BY <1>1, <2>2, <2>3, <2>5, Emitted DEF d
  <2>7. Shape(q)
    BY <1>1, <2>1, <2>6 DEF Rendering, Shape, RendererSet, OneBlock, StartedTools
  <2>8. Agrees(strict, q, d)
    <3>1. StartedTools(q) = StartedTools(r) /\ q.openKind = r.openKind /\ q.deltaSent = r.deltaSent
          /\ q.openIndex = r.openIndex /\ q.nextIndex = r.nextIndex
      BY <1>1, <2>1 DEF StartedTools, RendererSet
    <3>2. strict => MsgOf(q) = "open"
      BY <1>1, <1>3, <2>1 DEF MsgOf, RendererSet
    <3> QED
      BY <1>3, <2>4, <2>6, <3>1, <3>2 DEF Rendering, Agrees, Client
  <2>9. Hears(d) = said
    BY <1>1, <2>4 DEF Hears, Client
  <2> QED
    BY <2>1, <2>5, <2>6, <2>7, <2>8, <2>9 DEF Rendering, Reaches, BegunFrame
<1> QED
  BY <1>2, <1>3

\* closeToolBlock on the open block: its arguments, if any, then its end.
LEMMA CloseToolRenders ==
  ASSUME NEW strict \in BOOLEAN, NEW r, NEW c0, NEW said, Reaches(strict, c0, r, said),
         r.openTool # 0, NEW q, q = CloseToolBlock(r, r.openTool)
  PROVE  ClosedFrame(r, q) /\ Reaches(strict, c0, q, said)
<1> SUFFICES ASSUME NEW c \in Client, Rendering(strict, r, c0, c), Hears(c) = said
             PROVE  ClosedFrame(r, q) /\ Reaches(strict, c0, q, said)
  BY DEF Reaches
<1>1. r \in RendererSet /\ OneBlock(r) /\ c \in Client /\ Leads(strict, c0, r.out, c)
  BY DEF Rendering, Shape, Agrees
<1>2. r.out \in Seq(EventSet) /\ r.tools \in Seq(Tool) /\ r.openIndex \in Int
  BY <1>1 DEF RendererSet
<1>0. PICK t : t = r.openTool
  OBVIOUS
<1>3. /\ t \in 1..Len(r.tools) /\ r.tools[t] \in Tool /\ ~r.tools[t].closed
      /\ r.tools[t].blockIndex = r.openIndex /\ r.openIndex # -1 /\ r.openKind # "none"
  BY <1>1, <1>2, <1>0 DEF OneBlock
<1> DEFINE tool == r.tools[t]
           delta == Event("content_block_delta", tool.blockIndex, "input_json")
           told == IF tool.arguments = "none" THEN r ELSE Emit(r, delta)
           stop == Event("content_block_stop", tool.blockIndex, "none")
           c1 == IF tool.arguments = "none" THEN c ELSE ClientAfter(c, delta)
           d == ClientAfter(c1, stop)
           shut == [r.tools EXCEPT ![t] = Shut(tool)]
<1>4. delta \in EventSet /\ stop \in EventSet
  BY <1>2, <1>3, TypedWords, EventTyped
<1>5. /\ c.block = r.openIndex /\ (strict => c.msg = "open")
  BY <1>3 DEF Rendering, Agrees
<1>6. told = [r EXCEPT !.out = told.out]
  BY <1>1 DEF Emit, RendererSet
<1>7. /\ Leads(strict, c0, told.out, c1) /\ told.out \in Seq(EventSet) /\ c1 \in Client
      /\ Hears(c1) = said /\ c1.block = c.block /\ c1.msg = c.msg /\ c1.next = c.next
      /\ c1.tools = c.tools
  <2>1. CASE tool.arguments = "none"
    BY <1>1, <1>2, <2>1
  <2>2. CASE tool.arguments # "none"
    <3>1. Legal(strict, c, delta)
      BY <1>3, <1>5 DEF Legal, Event, BlockEvents
    <3>2. told.out = Append(r.out, delta)
      BY <1>1, <2>2 DEF Emit, RendererSet
    <3>3. Leads(strict, c0, told.out, c1) /\ told.out \in Seq(EventSet) /\ c1 \in Client
      <4> HIDE DEF told, delta
      <4> QED
        BY <1>1, <1>2, <1>4, <2>2, <3>1, <3>2, Emitted
    <3>4. c1 = [c EXCEPT !.block = tool.blockIndex, !.deltas = @ + 1, !.thinking = @ + 0,
                         !.text = @ + 0]
      BY <2>2 DEF ClientAfter, Event
    <3>5. c.thinking \in Nat /\ c.text \in Nat
      BY <1>1 DEF Client
    <3>6. c.thinking + 0 = c.thinking /\ c.text + 0 = c.text
      BY <3>5
    <3> HIDE DEF c1, told
    <3> QED
      BY <1>1, <1>3, <1>5, <3>3, <3>4, <3>6 DEF Hears, Client
  <2> QED
    BY <2>1, <2>2
<1>8. q = [r EXCEPT !.tools = shut, !.openKind = "none", !.openIndex = -1, !.openTool = 0,
                    !.out = Append(told.out, stop)]
  <2>1. [told EXCEPT !.tools[t] = [tool EXCEPT !.closed = TRUE, !.sent = tool.arguments]]
          = [told EXCEPT !.tools = shut]
    <3>1. told.tools = r.tools
      BY <1>1, <1>6 DEF RendererSet
    <3>2. Shut(tool) = [tool EXCEPT !.closed = TRUE, !.sent = tool.arguments]
      BY DEF Shut
    <3> HIDE DEF told
    <3> QED
      BY <3>1, <3>2
  <2>2. q = [Emit([told EXCEPT !.tools = shut], stop)
               EXCEPT !.openKind = "none", !.openIndex = -1, !.openTool = 0]
    BY <1>3, <1>0, <2>1 DEF CloseToolBlock
  <2> HIDE DEF told, shut, stop
  <2> QED
    BY <1>1, <1>6, <2>2 DEF Emit, RendererSet
<1>9. Legal(strict, c1, stop)
  <2> HIDE DEF c1
  <2> QED
    BY <1>3, <1>5, <1>7 DEF Legal, Event, BlockEvents
<1>10. d = [c1 EXCEPT !.block = -1]
  <2> HIDE DEF c1
  <2> QED
    BY DEF ClientAfter, Event
<1> HIDE DEF delta, told, stop, c1, d
<1>11. q.out = Append(told.out, stop)
  BY <1>1, <1>8 DEF RendererSet
<1>12. Leads(strict, c0, q.out, d) /\ q.out \in Seq(EventSet) /\ d \in Client
  BY <1>4, <1>7, <1>9, <1>11, Emitted DEF d
<1>13. /\ shut \in Seq(Tool) /\ Len(shut) = Len(r.tools)
       /\ \A u \in 1..Len(r.tools) : shut[u] = IF u = t THEN Shut(tool) ELSE r.tools[u]
  <2>1. Shut(tool) \in Tool
    BY <1>3 DEF Shut, Tool
  <2> HIDE DEF tool
  <2> QED
    BY <1>2, <1>3, <2>1
<1>14. Shut(tool).started = r.tools[t].started /\ Shut(tool).closed
  BY <1>3 DEF Shut, Tool
<1> HIDE DEF shut, tool
<1>15. /\ q.tools = shut /\ q.openKind = "none" /\ q.openIndex = -1 /\ q.openTool = 0
       /\ q.nextIndex = r.nextIndex /\ q.sawToolCall = r.sawToolCall
       /\ q.finishReason = r.finishReason /\ q.deltaSent = r.deltaSent
       /\ q.stopSent = r.stopSent /\ q.started = r.started
  BY <1>1, <1>8 DEF RendererSet
<1>16. StartedTools(q) = StartedTools(r)
  BY <1>13, <1>14, <1>15 DEF StartedTools
<1>17. q \in RendererSet
  <2>1. Append(told.out, stop) \in Seq(EventSet)
    BY <1>11, <1>12
  <2>2. /\ "none" \in {"none", "thinking", "text", "tool_use"}
        /\ -1 \in Int /\ 0 \in Nat
    OBVIOUS
  <2> QED
    BY <1>1, <1>8, <1>13, <2>1, <2>2 DEF RendererSet
<1>18. OneBlock(q)
  BY <1>0, <1>1, <1>2, <1>13, <1>14, <1>15 DEF OneBlock
<1>19. Shape(q)
  BY <1>15, <1>16, <1>17, <1>18 DEF Shape, Rendering
<1>20. Agrees(strict, q, d)
  <2>1. d.block = -1 /\ d.next = c.next /\ d.tools = c.tools /\ d.reason = c.reason
        /\ d.msg = c.msg
    BY <1>7, <1>10 DEF Client, Hears
  <2>2. MsgOf(q) = MsgOf(r)
    BY <1>15 DEF MsgOf
  <2> QED
    BY <1>12, <1>15, <1>16, <2>1, <2>2 DEF Agrees, Rendering
<1>21. Hears(d) = said
  BY <1>7, <1>10 DEF Hears, Client
<1>22. ClosedFrame(r, q)
  BY <1>0, <1>8, <1>11 DEF ClosedFrame, ShutTools, shut, tool
<1> QED
  BY <1>12, <1>19, <1>20, <1>21, <1>22 DEF Rendering, Reaches

LEMMA CloseOpenRenders ==
  ASSUME NEW strict \in BOOLEAN, NEW r, NEW c0, NEW said, Reaches(strict, c0, r, said),
         NEW q, q = CloseOpenBlock(r)
  PROVE  ClosedFrame(r, q) /\ Reaches(strict, c0, q, said)
<1> SUFFICES ASSUME NEW c \in Client, Rendering(strict, r, c0, c), Hears(c) = said
             PROVE  ClosedFrame(r, q) /\ Reaches(strict, c0, q, said)
  BY DEF Reaches
<1>1. r \in RendererSet /\ OneBlock(r) /\ c \in Client /\ Leads(strict, c0, r.out, c)
  BY DEF Rendering, Shape, Agrees
<1>2. r.openKind \in {"none", "thinking", "text", "tool_use"}
  BY <1>1 DEF RendererSet
<1>3. CASE r.openKind = "none"
  <2>1. q = r /\ r.openTool = 0 /\ r.openIndex = -1
    BY <1>1, <1>3 DEF CloseOpenBlock, OneBlock
  <2>2. ClosedFrame(r, q)
    BY <1>1, <1>3, <2>1 DEF RendererSet, ClosedFrame, ShutTools
  <2> QED
    BY <2>1, <2>2
<1>4. CASE r.openKind = "tool_use"
  <2>1. r.openTool # 0 /\ q = CloseToolBlock(r, r.openTool)
    BY <1>1, <1>4 DEF CloseOpenBlock, OneBlock
  <2> QED
    BY <2>1, CloseToolRenders
<1>5. CASE r.openKind \in {"thinking", "text"}
  <2> DEFINE e == Event("content_block_stop", r.openIndex, "none")
             d == ClientAfter(c, e)
  <2>1. q = [r EXCEPT !.openKind = "none", !.openIndex = -1, !.out = Append(r.out, e)]
    <3>1. q = [Emit(r, e) EXCEPT !.openKind = "none", !.openIndex = -1]
      BY <1>5 DEF CloseOpenBlock
    <3> HIDE DEF e
    <3> QED
      BY <1>1, <3>1 DEF Emit, RendererSet
  <2>2. e \in EventSet
    <3>1. r.openIndex \in Int
      BY <1>1 DEF RendererSet
    <3> QED
      BY <3>1, TypedWords, EventTyped
  <2>3. Legal(strict, c, e)
    BY <1>1, <1>5 DEF Legal, Event, Rendering, Agrees, OneBlock, BlockEvents
  <2>4. d = [c EXCEPT !.block = -1]
    BY DEF ClientAfter, Event
  <2> HIDE DEF e, d
  <2>5. r.out \in Seq(EventSet) /\ q.out = Append(r.out, e)
    BY <1>1, <2>1 DEF RendererSet
  <2>6. Leads(strict, c0, q.out, d) /\ q.out \in Seq(EventSet) /\ d \in Client
    BY <1>1, <2>2, <2>3, <2>5, Emitted DEF d
  <2>7. /\ q.tools = r.tools /\ q.openKind = "none" /\ q.openIndex = -1
        /\ q.openTool = r.openTool /\ r.openTool = 0
        /\ q.nextIndex = r.nextIndex /\ q.sawToolCall = r.sawToolCall
        /\ q.finishReason = r.finishReason /\ q.deltaSent = r.deltaSent
        /\ q.stopSent = r.stopSent /\ q.started = r.started
    BY <1>1, <1>5, <2>1 DEF RendererSet, OneBlock
  <2>8. StartedTools(q) = StartedTools(r) /\ MsgOf(q) = MsgOf(r)
    BY <2>7 DEF StartedTools, MsgOf
  <2>9. q \in RendererSet
    <3>1. "none" \in {"none", "thinking", "text", "tool_use"} /\ -1 \in Int
      OBVIOUS
    <3>2. Append(r.out, e) \in Seq(EventSet)
      BY <2>5, <2>6
    <3> QED
      BY <1>1, <2>1, <3>1, <3>2 DEF RendererSet
  <2>10. OneBlock(q)
    BY <1>1, <2>7 DEF OneBlock
  <2>11. Shape(q)
    BY <2>7, <2>8, <2>9, <2>10 DEF Shape, Rendering
  <2>12. Agrees(strict, q, d)
    BY <2>4, <2>6, <2>7, <2>8 DEF Agrees, Rendering, Client
  <2>13. ClosedFrame(r, q)
    BY <1>1, <2>1, <2>5, <2>7 DEF RendererSet, ClosedFrame, ShutTools
  <2>14. Hears(d) = said
    BY <1>1, <2>4 DEF Hears, Client
  <2> QED
    BY <2>6, <2>11, <2>12, <2>13, <2>14 DEF Rendering, Reaches
<1> QED
  BY <1>2, <1>3, <1>4, <1>5

\* startToolBlock when no block is open.
LEMMA StartToolRenders ==
  ASSUME NEW strict \in BOOLEAN, NEW r, NEW c0, NEW said, Reaches(strict, c0, r, said),
         r.openKind = "none", strict => MsgOf(r) = "open",
         NEW t \in 1..Len(r.tools), ~r.tools[t].started, ~r.tools[t].closed,
         NEW q, q = StartToolBlock(r, t)
  PROVE  ToolFrame(r, t, q) /\ Reaches(strict, c0, q, said)
<1> SUFFICES ASSUME NEW c \in Client, Rendering(strict, r, c0, c), Hears(c) = said
             PROVE  ToolFrame(r, t, q) /\ Reaches(strict, c0, q, said)
  BY DEF Reaches
<1>1. r \in RendererSet /\ OneBlock(r) /\ c \in Client /\ Leads(strict, c0, r.out, c)
  BY DEF Rendering, Shape, Agrees
<1>2. /\ r.out \in Seq(EventSet) /\ r.tools \in Seq(Tool) /\ r.nextIndex \in Nat
      /\ r.tools[t] \in Tool /\ Len(r.tools) \in Nat
  <2>1. r.out \in Seq(EventSet) /\ r.tools \in Seq(Tool) /\ r.nextIndex \in Nat
    BY <1>1 DEF RendererSet
  <2> QED
    BY <2>1
<1> DEFINE tool == [r.tools[t] EXCEPT !.started = TRUE, !.blockIndex = r.nextIndex]
           begun == [r.tools EXCEPT ![t] = tool]
           e == Event("content_block_start", r.nextIndex, "tool_use")
           d == ClientAfter(c, e)
<1>3. tool \in Tool /\ tool.started /\ ~tool.closed /\ tool.blockIndex = r.nextIndex
  <2>1. r.nextIndex \in Int
    BY <1>2
  <2>2. tool \in Tool
    BY <1>2, <2>1 DEF Tool
  <2> QED
    BY <1>2, <2>2 DEF Tool
<1>4. /\ begun \in Seq(Tool) /\ Len(begun) = Len(r.tools)
      /\ \A u \in 1..Len(r.tools) : begun[u] = IF u = t THEN tool ELSE r.tools[u]
  <2> HIDE DEF tool
  <2> QED
    BY <1>2, <1>3
<1>5. q = [r EXCEPT !.tools = begun, !.nextIndex = r.nextIndex + 1, !.openKind = "tool_use",
                    !.openIndex = r.nextIndex, !.openTool = t, !.sawToolCall = TRUE,
                    !.out = Append(r.out, e)]
  <2>1. q = Emit([r EXCEPT !.tools[t] = [@ EXCEPT !.started = TRUE, !.blockIndex = r.nextIndex],
                           !.nextIndex = @ + 1, !.openKind = "tool_use",
                           !.openIndex = r.nextIndex, !.openTool = t, !.sawToolCall = TRUE], e)
    BY DEF StartToolBlock
  <2>2. [r EXCEPT !.tools[t] = [@ EXCEPT !.started = TRUE, !.blockIndex = r.nextIndex],
                  !.nextIndex = @ + 1, !.openKind = "tool_use",
                  !.openIndex = r.nextIndex, !.openTool = t, !.sawToolCall = TRUE]
          = [r EXCEPT !.tools = begun, !.nextIndex = r.nextIndex + 1, !.openKind = "tool_use",
                      !.openIndex = r.nextIndex, !.openTool = t, !.sawToolCall = TRUE]
    OBVIOUS
  <2> HIDE DEF e, begun
  <2> QED
    BY <1>1, <2>1, <2>2 DEF Emit, RendererSet
<1>6. e \in EventSet
  <2>1. r.nextIndex \in Int
    BY <1>2
  <2> QED
    BY <2>1, TypedWords, EventTyped
<1>7. Legal(strict, c, e)
  BY <1>1 DEF Legal, Event, Rendering, Agrees, OneBlock, BlockEvents
<1>8. d = [c EXCEPT !.block = r.nextIndex, !.next = r.nextIndex + 1, !.tools = c.tools + 1]
  BY DEF ClientAfter, Event
<1> HIDE DEF e, d, begun, tool
<1>9. q.out = Append(r.out, e)
  BY <1>1, <1>5 DEF RendererSet
<1>10. Leads(strict, c0, q.out, d) /\ q.out \in Seq(EventSet) /\ d \in Client
  BY <1>1, <1>2, <1>6, <1>7, <1>9, Emitted DEF d
<1>11. /\ q.tools = begun /\ q.openKind = "tool_use" /\ q.openIndex = r.nextIndex
       /\ q.openTool = t /\ q.nextIndex = r.nextIndex + 1 /\ q.sawToolCall = TRUE
       /\ q.finishReason = r.finishReason /\ q.deltaSent = r.deltaSent
       /\ q.stopSent = r.stopSent /\ q.started = r.started
  BY <1>1, <1>5 DEF RendererSet
<1>12. q \in RendererSet
  <2>1. "tool_use" \in {"none", "thinking", "text", "tool_use"} /\ r.nextIndex + 1 \in Nat
        /\ r.nextIndex \in Int /\ t \in Nat /\ TRUE \in BOOLEAN
    BY <1>2
  <2>2. Append(r.out, e) \in Seq(EventSet)
    BY <1>9, <1>10
  <2> QED
    BY <1>1, <1>4, <1>5, <2>1, <2>2 DEF RendererSet
<1>13. OneBlock(q)
  <2>1. r.nextIndex # -1 /\ t # 0 /\ t \in 0..Len(r.tools) /\ r.openTool = 0
    BY <1>1, <1>2 DEF OneBlock
  <2>2. \A u \in 1..Len(r.tools) : r.tools[u].started => r.tools[u].closed
    BY <1>1, <2>1 DEF OneBlock
  <2> QED
    BY <1>3, <1>4, <1>11, <2>1, <2>2 DEF OneBlock
<1>14. StartedTools(q) = StartedTools(r) \cup {t} /\ t \notin StartedTools(r)
  BY <1>2, <1>3, <1>4, <1>11 DEF StartedTools
<1>15. Cardinality(StartedTools(q)) = Cardinality(StartedTools(r)) + 1
  <2>1. IsFiniteSet(StartedTools(r))
    BY StartedFinite DEF Rendering
  <2> QED
    BY <1>14, <2>1, FS_AddElement
<1>16. Shape(q)
  BY <1>11, <1>12, <1>13, <1>14 DEF Shape, Rendering
<1>17. Agrees(strict, q, d)
  <2>1. d.block = r.nextIndex /\ d.next = r.nextIndex + 1 /\ d.tools = c.tools + 1
        /\ d.reason = c.reason /\ d.msg = c.msg
    BY <1>1, <1>8 DEF Client
  <2>2. MsgOf(q) = MsgOf(r)
    BY <1>11 DEF MsgOf
  <2> QED
    BY <1>10, <1>11, <1>15, <2>1, <2>2 DEF Agrees, Rendering
<1>18. Hears(d) = said
  BY <1>1, <1>8 DEF Hears, Client
<1>19. ToolFrame(r, t, q)
  BY <1>5, <1>9 DEF ToolFrame, Opened, begun, tool
<1> QED
  BY <1>10, <1>16, <1>17, <1>18, <1>19 DEF Rendering, Reaches

\* The first half of thinkingDelta and textDelta, when no block is open.
LEMMA BlockBegins ==
  ASSUME NEW strict \in BOOLEAN, NEW r, NEW c0, NEW said, Reaches(strict, c0, r, said),
         r.openKind = "none", strict => MsgOf(r) = "open", NEW kind \in {"thinking", "text"},
         NEW q, q = Emit([r EXCEPT !.openKind = kind, !.openIndex = r.nextIndex,
                                   !.nextIndex = r.nextIndex + 1],
                         Event("content_block_start", r.nextIndex, kind))
  PROVE  BlockFrame(r, kind, q) /\ Reaches(strict, c0, q, said)
<1> SUFFICES ASSUME NEW c \in Client, Rendering(strict, r, c0, c), Hears(c) = said
             PROVE  BlockFrame(r, kind, q) /\ Reaches(strict, c0, q, said)
  BY DEF Reaches
<1>1. r \in RendererSet /\ OneBlock(r) /\ c \in Client /\ Leads(strict, c0, r.out, c)
  BY DEF Rendering, Shape, Agrees
<1>2. r.out \in Seq(EventSet) /\ r.nextIndex \in Nat
  BY <1>1 DEF RendererSet
<1> DEFINE e == Event("content_block_start", r.nextIndex, kind)
           d == ClientAfter(c, e)
<1>3. e \in EventSet
  <2>1. r.nextIndex \in Int /\ kind \in Details
    BY <1>2, TypedWords
  <2> QED
    BY <2>1, TypedWords, EventTyped
<1>4. Legal(strict, c, e)
  BY <1>1 DEF Legal, Event, Rendering, Agrees, OneBlock, BlockEvents
<1>5. d = [c EXCEPT !.block = r.nextIndex, !.next = r.nextIndex + 1, !.tools = c.tools + 0]
  BY DEF ClientAfter, Event
<1> HIDE DEF e, d
<1>6. q = [r EXCEPT !.openKind = kind, !.openIndex = r.nextIndex,
                    !.nextIndex = r.nextIndex + 1, !.out = Append(r.out, e)]
  BY <1>1 DEF Emit, RendererSet, e
<1>7. q.out = Append(r.out, e)
  BY <1>1, <1>6 DEF RendererSet
<1>8. Leads(strict, c0, q.out, d) /\ q.out \in Seq(EventSet) /\ d \in Client
  BY <1>1, <1>2, <1>3, <1>4, <1>7, Emitted DEF d
<1>9. /\ q.tools = r.tools /\ q.openKind = kind /\ q.openIndex = r.nextIndex
      /\ q.openTool = r.openTool /\ r.openTool = 0
      /\ q.nextIndex = r.nextIndex + 1 /\ q.sawToolCall = r.sawToolCall
      /\ q.finishReason = r.finishReason /\ q.deltaSent = r.deltaSent
      /\ q.stopSent = r.stopSent /\ q.started = r.started
  BY <1>1, <1>6 DEF RendererSet, OneBlock
<1>10. StartedTools(q) = StartedTools(r) /\ MsgOf(q) = MsgOf(r)
  BY <1>9 DEF StartedTools, MsgOf
<1>11. q \in RendererSet
  <2>1. kind \in {"none", "thinking", "text", "tool_use"} /\ r.nextIndex + 1 \in Nat
        /\ r.nextIndex \in Int
    BY <1>2
  <2>2. Append(r.out, e) \in Seq(EventSet)
    BY <1>7, <1>8
  <2> QED
    BY <1>1, <1>6, <2>1, <2>2 DEF RendererSet
<1>12. OneBlock(q)
  <2>1. r.nextIndex # -1
    BY <1>2
  <2> QED
    BY <1>1, <1>9, <2>1 DEF OneBlock
<1>13. Shape(q)
  BY <1>9, <1>10, <1>11, <1>12 DEF Shape, Rendering
<1>14. Agrees(strict, q, d)
  <2>1. c.tools + 0 = c.tools
    <3>1. c.tools \in Nat
      BY <1>1 DEF Client
    <3> QED
      BY <3>1
  <2>2. d.block = r.nextIndex /\ d.next = r.nextIndex + 1 /\ d.tools = c.tools
        /\ d.reason = c.reason /\ d.msg = c.msg
    BY <1>1, <1>5, <2>1 DEF Client
  <2> QED
    BY <1>8, <1>9, <1>10, <2>2 DEF Agrees, Rendering
<1>15. Hears(d) = said
  BY <1>1, <1>5 DEF Hears, Client
<1>16. BlockFrame(r, kind, q)
  BY <1>6, <1>7 DEF BlockFrame
<1> QED
  BY <1>8, <1>13, <1>14, <1>15, <1>16 DEF Rendering, Reaches

\* The second half: a delta of the open block.
LEMMA BlockTold ==
  ASSUME NEW strict \in BOOLEAN, NEW r, NEW c0, NEW said, Reaches(strict, c0, r, said),
         NEW kind \in {"thinking", "text"}, r.openKind = kind,
         NEW q, q = Emit([r EXCEPT !.sawContent = TRUE],
                         Event("content_block_delta", r.openIndex, kind))
  PROVE  ToldFrame(r, q) /\ Reaches(strict, c0, q, Heard(said, kind))
<1> SUFFICES ASSUME NEW c \in Client, Rendering(strict, r, c0, c), Hears(c) = said
             PROVE  ToldFrame(r, q) /\ Reaches(strict, c0, q, Heard(said, kind))
  BY DEF Reaches
<1>1. r \in RendererSet /\ OneBlock(r) /\ c \in Client /\ Leads(strict, c0, r.out, c)
  BY DEF Rendering, Shape, Agrees
<1>2. r.out \in Seq(EventSet) /\ r.openIndex \in Int
  BY <1>1 DEF RendererSet
<1> DEFINE e == Event("content_block_delta", r.openIndex, kind)
           d == ClientAfter(c, e)
<1>3. e \in EventSet
  <2>1. kind \in Details
    BY TypedWords
  <2> QED
    BY <1>2, <2>1, TypedWords, EventTyped
<1>4. Legal(strict, c, e)
  BY <1>1 DEF Legal, Event, Rendering, Agrees, OneBlock, BlockEvents
<1>5. d = [c EXCEPT !.block = r.openIndex, !.deltas = c.deltas + 1,
                    !.thinking = c.thinking + (IF kind = "thinking" THEN 1 ELSE 0),
                    !.text = c.text + (IF kind = "text" THEN 1 ELSE 0)]
  BY DEF ClientAfter, Event
<1> HIDE DEF e, d
<1>6. q = [r EXCEPT !.sawContent = TRUE, !.out = Append(r.out, e)]
  BY <1>1 DEF Emit, RendererSet, e
<1>7. q.out = Append(r.out, e)
  BY <1>1, <1>6 DEF RendererSet
<1>8. Leads(strict, c0, q.out, d) /\ q.out \in Seq(EventSet) /\ d \in Client
  BY <1>1, <1>2, <1>3, <1>4, <1>7, Emitted DEF d
<1>9. /\ q.tools = r.tools /\ q.openKind = kind /\ q.openIndex = r.openIndex
      /\ q.openTool = r.openTool
      /\ q.nextIndex = r.nextIndex /\ q.sawToolCall = r.sawToolCall
      /\ q.finishReason = r.finishReason /\ q.deltaSent = r.deltaSent
      /\ q.stopSent = r.stopSent /\ q.started = r.started
  BY <1>1, <1>6 DEF RendererSet
<1>10. StartedTools(q) = StartedTools(r) /\ MsgOf(q) = MsgOf(r)
  BY <1>9 DEF StartedTools, MsgOf
<1>11. q \in RendererSet
  <2>1. Append(r.out, e) \in Seq(EventSet)
    BY <1>7, <1>8
  <2> QED
    BY <1>1, <1>6, <2>1 DEF RendererSet
<1>12. OneBlock(q)
  BY <1>1, <1>9 DEF OneBlock
<1>13. Shape(q)
  BY <1>9, <1>10, <1>11, <1>12 DEF Shape, Rendering
<1>14. d.block = r.openIndex /\ d.next = c.next /\ d.tools = c.tools
       /\ d.reason = c.reason /\ d.msg = c.msg
       /\ d.thinking = c.thinking + (IF kind = "thinking" THEN 1 ELSE 0)
       /\ d.text = c.text + (IF kind = "text" THEN 1 ELSE 0)
  BY <1>1, <1>5 DEF Client
<1>15. Agrees(strict, q, d)
  BY <1>8, <1>9, <1>10, <1>14 DEF Agrees, Rendering
<1>16. Hears(d) = Heard(said, kind)
  <2>1. said[1] = c.reason /\ said[2] = c.thinking /\ said[3] = c.text
    BY DEF Hears
  <2> QED
    BY <1>14, <2>1 DEF Hears, Heard
<1>17. ToldFrame(r, q)
  BY <1>6, <1>7 DEF ToldFrame
<1> QED
  BY <1>8, <1>13, <1>15, <1>16, <1>17 DEF Rendering, Reaches

\* thinkingDelta and textDelta.
LEMMA ContentDeltaRenders ==
  ASSUME NEW strict \in BOOLEAN, NEW r, NEW c0, NEW said, Reaches(strict, c0, r, said),
         strict => MsgOf(r) = "open", NEW kind \in {"thinking", "text"},
         NEW q, q = ContentDelta(r, kind)
  PROVE  ContentFrame(r, kind, q) /\ Reaches(strict, c0, q, Heard(said, kind))
<1>1. r \in RendererSet /\ OneBlock(r)
  BY DEF Reaches, Rendering, Shape
<1>2. CASE r.openKind = kind
  <2>1. q = Emit([r EXCEPT !.sawContent = TRUE],
                 Event("content_block_delta", r.openIndex, kind))
    BY <1>2 DEF ContentDelta
  <2>2. ToldFrame(r, q) /\ Reaches(strict, c0, q, Heard(said, kind))
    BY <1>2, <2>1, BlockTold
  <2>3. r.openTool = 0 /\ q.nextIndex = r.nextIndex /\ q.openIndex = r.openIndex
    BY <1>1, <1>2, <2>2 DEF OneBlock, RendererSet, ToldFrame
  <2>4. ContentFrame(r, kind, q)
    <3>1. r.tools = ShutTools(r)
      BY <2>3 DEF ShutTools
    <3> QED
      BY <1>1, <2>2, <3>1 DEF RendererSet, ContentFrame, ToldFrame
  <2> QED
    BY <2>2, <2>4
<1>3. CASE r.openKind # kind
  <2>1. PICK x : x = CloseOpenBlock(r)
    OBVIOUS
  <2>2. ClosedFrame(r, x) /\ Reaches(strict, c0, x, said)
    BY <2>1, CloseOpenRenders
  <2>3. /\ x.openKind = "none" /\ x.nextIndex = r.nextIndex
        /\ strict => MsgOf(x) = "open"
    BY <1>1, <2>2 DEF RendererSet, MsgOf, ClosedFrame
  <2>4. PICK y : y = Emit([x EXCEPT !.openKind = kind, !.openIndex = x.nextIndex,
                                    !.nextIndex = x.nextIndex + 1],
                          Event("content_block_start", x.nextIndex, kind))
    OBVIOUS
  <2>5. BlockFrame(x, kind, y) /\ Reaches(strict, c0, y, said)
    BY <2>2, <2>3, <2>4, BlockBegins
  <2>6. x \in RendererSet /\ y \in RendererSet
    BY <2>2, <2>5 DEF Reaches, Rendering, Shape
  <2>7. y.openKind = kind
    BY <2>5, <2>6 DEF RendererSet, BlockFrame
  <2>8. q = Emit([y EXCEPT !.sawContent = TRUE],
                 Event("content_block_delta", y.openIndex, kind))
    <3> DEFINE switched == [CloseOpenBlock(r) EXCEPT !.openKind = kind, !.openIndex = r.nextIndex,
                                                     !.nextIndex = @ + 1]
    <3>1. switched = [x EXCEPT !.openKind = kind, !.openIndex = x.nextIndex,
                               !.nextIndex = x.nextIndex + 1]
      BY <2>1, <2>3
    <3>2. switched.openIndex = x.nextIndex
      BY <2>6, <3>1 DEF RendererSet
    <3> HIDE DEF switched
    <3>3. y = Emit(switched, Event("content_block_start", switched.openIndex, kind))
      BY <2>4, <3>1, <3>2
    <3> QED
      BY <1>3, <3>3 DEF ContentDelta, switched
  <2>9. ToldFrame(y, q) /\ Reaches(strict, c0, q, Heard(said, kind))
    BY <2>5, <2>7, <2>8, BlockTold
  <2>10. ContentFrame(r, kind, q)
    <3>1. /\ x.tools = ShutTools(r) /\ x.started = r.started /\ x.sawToolCall = r.sawToolCall
          /\ x.hasUsage = r.hasUsage /\ x.finishReason = r.finishReason
          /\ x.deltaSent = r.deltaSent /\ x.stopSent = r.stopSent
      BY <1>1, <2>2 DEF RendererSet, ClosedFrame
    <3>2. /\ y.tools = x.tools /\ y.started = x.started /\ y.sawToolCall = x.sawToolCall
          /\ y.hasUsage = x.hasUsage /\ y.finishReason = x.finishReason
          /\ y.deltaSent = x.deltaSent /\ y.stopSent = x.stopSent
      BY <2>5, <2>6 DEF RendererSet, BlockFrame
    <3>3. /\ q.tools = y.tools /\ q.started = y.started /\ q.sawToolCall = y.sawToolCall
          /\ q.hasUsage = y.hasUsage /\ q.finishReason = y.finishReason
          /\ q.deltaSent = y.deltaSent /\ q.stopSent = y.stopSent
      BY <2>6, <2>9 DEF RendererSet, ToldFrame
    <3> QED
      BY <3>1, <3>2, <3>3 DEF ContentFrame
  <2> QED
    BY <2>9, <2>10
<1> QED
  BY <1>2, <1>3

-----------------------------------------------------------------------------
(* The tool calls a renderer keeps. *)

\* With every call an orderly upstream of tool calls makes: what was sent is what
\* was recorded when the block closed.  named: no call waits for its name.
Whole(tool) == tool.sent = IF tool.closed THEN tool.arguments ELSE "none"
ToolSound(quiet, named, K, tool) ==
  /\ tool.closed => tool.started
  /\ quiet => Whole(tool)
  /\ named => tool.started
  /\ tool.openAIIndex \in K

Sound(quiet, named, K, r) == \A t \in 1..Len(r.tools) : ToolSound(quiet, named, K, r.tools[t])

\* What every helper keeps.
Steady(r, q) ==
  /\ q.hasUsage = r.hasUsage /\ q.deltaSent = r.deltaSent /\ q.stopSent = r.stopSent
  /\ q.started = r.started

\* Calls are never forgotten.
Grown(r, q) ==
  /\ Len(r.tools) \in Nat /\ Len(q.tools) \in Nat /\ Len(r.tools) <= Len(q.tools)
  /\ \A t \in 1..Len(r.tools) : q.tools[t].openAIIndex = r.tools[t].openAIIndex

LEMMA GrownOn ==
  ASSUME NEW r, NEW x, NEW q, Grown(r, x), Grown(x, q)
  PROVE  Grown(r, q)
  BY DEF Grown

LEMMA GrownNot ==
  ASSUME NEW r \in RendererSet, NEW q, q.tools = r.tools
  PROVE  Grown(r, q)
<1>1. r.tools \in Seq(Tool)
  BY DEF RendererSet
<1>2. Len(r.tools) \in Nat
  BY <1>1
<1> QED
  BY <1>2 DEF Grown

LEMMA ShutKeeps ==
  ASSUME NEW quiet \in BOOLEAN, NEW named \in BOOLEAN, NEW K, NEW r \in RendererSet,
         OneBlock(r), Sound(quiet, named, K, r), NEW T, T = ShutTools(r)
  PROVE  /\ T \in Seq(Tool) /\ Len(T) = Len(r.tools)
         /\ \A t \in 1..Len(r.tools) :
              /\ ToolSound(quiet, named, K, T[t])
              /\ T[t].started = r.tools[t].started
              /\ T[t].arguments = r.tools[t].arguments
              /\ T[t].openAIIndex = r.tools[t].openAIIndex
              /\ t # r.openTool => T[t] = r.tools[t]
<1>1. r.tools \in Seq(Tool)
  BY DEF RendererSet
<1>2. CASE r.openTool = 0
  <2>1. T = r.tools
    BY <1>2 DEF ShutTools
  <2> QED
    BY <1>1, <2>1 DEF Sound
<1>3. CASE r.openTool # 0
  <2> DEFINE u == r.openTool
             shut == Shut(r.tools[u])
  <2>1. u \in 1..Len(r.tools) /\ r.tools[u].started /\ ~r.tools[u].closed /\ r.tools[u] \in Tool
    BY <1>1, <1>3 DEF OneBlock
  <2>2. /\ shut \in Tool /\ shut.started = r.tools[u].started /\ shut.closed
        /\ shut.arguments = r.tools[u].arguments /\ shut.sent = r.tools[u].arguments
        /\ shut.openAIIndex = r.tools[u].openAIIndex
    BY <2>1 DEF Shut, Tool
  <2>3. ToolSound(quiet, named, K, shut)
    BY <2>1, <2>2 DEF Sound, ToolSound, Whole
  <2>4. T = [r.tools EXCEPT ![u] = shut]
    BY <1>3 DEF ShutTools
  <2> HIDE DEF u, shut
  <2>5. /\ T \in Seq(Tool) /\ Len(T) = Len(r.tools)
        /\ \A t \in 1..Len(r.tools) : T[t] = IF t = u THEN shut ELSE r.tools[t]
    BY <1>1, <2>1, <2>2, <2>4
  <2> QED
    BY <2>2, <2>3, <2>5 DEF Sound, u
<1> QED
  BY <1>2, <1>3

\* Recording what a fragment carries renders nothing.
LEMMA ToolsNoted ==
  ASSUME NEW strict \in BOOLEAN, NEW r, NEW c0, NEW said, Reaches(strict, c0, r, said),
         NEW T \in Seq(Tool), Len(r.tools) <= Len(T),
         \A u \in 1..Len(T) :
           IF u <= Len(r.tools)
           THEN /\ T[u].started = r.tools[u].started
                /\ T[u].started => /\ T[u].closed = r.tools[u].closed
                                   /\ T[u].blockIndex = r.tools[u].blockIndex
           ELSE ~T[u].started,
         NEW q, q = [r EXCEPT !.tools = T]
  PROVE  Reaches(strict, c0, q, said)
<1> SUFFICES ASSUME NEW c \in Client, Rendering(strict, r, c0, c), Hears(c) = said
             PROVE  Reaches(strict, c0, q, said)
  BY DEF Reaches
<1>1. r \in RendererSet /\ OneBlock(r)
  BY DEF Rendering, Shape
<1>2. /\ q.tools = T /\ q.openKind = r.openKind /\ q.openIndex = r.openIndex
      /\ q.openTool = r.openTool /\ q.nextIndex = r.nextIndex
      /\ q.sawToolCall = r.sawToolCall /\ q.finishReason = r.finishReason
      /\ q.deltaSent = r.deltaSent /\ q.stopSent = r.stopSent /\ q.started = r.started
      /\ q.out = r.out
  BY <1>1 DEF RendererSet
<1>3. q \in RendererSet
  BY <1>1 DEF RendererSet
<1>4. r.tools \in Seq(Tool) /\ Len(r.tools) \in Nat /\ Len(T) \in Nat
  <2>1. r.tools \in Seq(Tool)
    BY <1>1 DEF RendererSet
  <2> QED
    BY <2>1
<1>5. StartedTools(q) = StartedTools(r)
  BY <1>2, <1>4 DEF StartedTools
<1>6. OneBlock(q)
  <2>1. q.openTool \in 0..Len(T)
    BY <1>1, <1>2, <1>4 DEF OneBlock
  <2>2. r.openTool # 0 => r.openTool \in 1..Len(T) /\ r.openTool <= Len(r.tools)
    BY <1>1, <1>4 DEF OneBlock
  <2>3. ASSUME NEW u \in 1..Len(T), T[u].started /\ ~T[u].closed PROVE q.openTool = u
    <3>1. u \in 1..Len(r.tools)
      BY <1>4, <2>3
    <3> QED
      BY <1>1, <1>2, <1>4, <2>3, <3>1 DEF OneBlock
  <2>4. r.openTool # 0 => /\ T[r.openTool].started /\ ~T[r.openTool].closed
                          /\ T[r.openTool].blockIndex = r.openIndex
    BY <1>1, <2>2 DEF OneBlock
  <2> QED
    BY <1>1, <1>2, <2>1, <2>3, <2>4 DEF OneBlock
<1>7. Shape(q)
  BY <1>2, <1>3, <1>5, <1>6 DEF Shape, Rendering
<1>8. MsgOf(q) = MsgOf(r)
  BY <1>2 DEF MsgOf
<1>9. Agrees(strict, q, c)
  BY <1>2, <1>5, <1>8 DEF Agrees, Rendering
<1> QED
  BY <1>2, <1>7, <1>9 DEF Rendering, Reaches

LEMMA ClosedFields ==
  ASSUME NEW r \in RendererSet, NEW q, ClosedFrame(r, q)
  PROVE  /\ q.tools = ShutTools(r) /\ q.openKind = "none"
         /\ q.finishReason = r.finishReason /\ Steady(r, q) /\ MsgOf(q) = MsgOf(r)
         /\ q.sawToolCall = r.sawToolCall
<1>1. /\ q.tools = ShutTools(r) /\ q.openKind = "none" /\ q.finishReason = r.finishReason
      /\ q.hasUsage = r.hasUsage /\ q.deltaSent = r.deltaSent /\ q.stopSent = r.stopSent
      /\ q.started = r.started /\ q.sawToolCall = r.sawToolCall
  BY DEF ClosedFrame, RendererSet
<1> QED
  BY <1>1 DEF Steady, MsgOf

\* closeOpenBlock, as its callers need it.
LEMMA CloseOpenKeeps ==
  ASSUME NEW strict \in BOOLEAN, NEW r, NEW c0, NEW said, Reaches(strict, c0, r, said),
         NEW quiet \in BOOLEAN, NEW named \in BOOLEAN, NEW K, Sound(quiet, named, K, r),
         NEW q, q = CloseOpenBlock(r)
  PROVE  /\ Reaches(strict, c0, q, said) /\ Sound(quiet, named, K, q) /\ Steady(r, q)
         /\ q.openKind = "none" /\ MsgOf(q) = MsgOf(r) /\ Len(q.tools) = Len(r.tools)
         /\ ToolArgumentsValid(r) <=> ToolArgumentsValid(q)
         /\ Grown(r, q)
<1>1. r \in RendererSet /\ OneBlock(r)
  BY DEF Reaches, Rendering, Shape
<1>2. ClosedFrame(r, q) /\ Reaches(strict, c0, q, said)
  BY CloseOpenRenders
<1>3. /\ q.tools = ShutTools(r) /\ q.openKind = "none" /\ Steady(r, q)
      /\ MsgOf(q) = MsgOf(r)
  BY <1>1, <1>2, ClosedFields
<1> DEFINE T == q.tools
<1>4. /\ T \in Seq(Tool) /\ Len(T) = Len(r.tools)
      /\ \A t \in 1..Len(r.tools) : /\ ToolSound(quiet, named, K, T[t])
                                    /\ T[t].arguments = r.tools[t].arguments
                                    /\ T[t].openAIIndex = r.tools[t].openAIIndex
  BY <1>1, <1>3, ShutKeeps
<1>5. DOMAIN T = 1..Len(r.tools) /\ DOMAIN r.tools = 1..Len(r.tools)
  <2>1. r.tools \in Seq(Tool)
    BY <1>1 DEF RendererSet
  <2> QED
    BY <1>4, <2>1
<1>6. Len(r.tools) \in Nat
  <2>1. r.tools \in Seq(Tool)
    BY <1>1 DEF RendererSet
  <2> QED
    BY <2>1
<1> QED
  BY <1>2, <1>3, <1>4, <1>5, <1>6 DEF Sound, ToolArgumentsValid, Grown

LEMMA ContentKeeps ==
  ASSUME NEW strict \in BOOLEAN, NEW r, NEW c0, NEW said, Reaches(strict, c0, r, said),
         strict => MsgOf(r) = "open", NEW kind \in {"thinking", "text"},
         NEW quiet \in BOOLEAN, NEW named \in BOOLEAN, NEW K, Sound(quiet, named, K, r),
         NEW q, q = ContentDelta(r, kind)
  PROVE  /\ Reaches(strict, c0, q, Heard(said, kind)) /\ Sound(quiet, named, K, q)
         /\ Steady(r, q) /\ MsgOf(q) = MsgOf(r) /\ Grown(r, q)
<1>1. r \in RendererSet /\ OneBlock(r)
  BY DEF Reaches, Rendering, Shape
<1>2. ContentFrame(r, kind, q) /\ Reaches(strict, c0, q, Heard(said, kind))
  BY ContentDeltaRenders
<1>3. /\ Len(q.tools) = Len(r.tools)
      /\ \A t \in 1..Len(r.tools) : /\ ToolSound(quiet, named, K, q.tools[t])
                                    /\ q.tools[t].openAIIndex = r.tools[t].openAIIndex
  <2>1. q.tools = ShutTools(r)
    BY <1>2 DEF ContentFrame
  <2> QED
    BY <1>1, <2>1, ShutKeeps
<1>4. Len(r.tools) \in Nat
  <2>1. r.tools \in Seq(Tool)
    BY <1>1 DEF RendererSet
  <2> QED
    BY <2>1
<1> QED
  BY <1>2, <1>3, <1>4 DEF Sound, Steady, ContentFrame, MsgOf, Grown

LEMMA ToolFields ==
  ASSUME NEW r \in RendererSet, NEW t \in 1..Len(r.tools), NEW q, ToolFrame(r, t, q)
  PROVE  /\ q.openKind = "tool_use" /\ q.openTool = t /\ Steady(r, q) /\ MsgOf(q) = MsgOf(r)
         /\ Opened(r, t) \in Tool /\ Opened(r, t).started
         /\ Opened(r, t).closed = r.tools[t].closed /\ Opened(r, t).sent = r.tools[t].sent
         /\ Opened(r, t).arguments = r.tools[t].arguments
         /\ Opened(r, t).openAIIndex = r.tools[t].openAIIndex
         /\ q.tools \in Seq(Tool) /\ Len(q.tools) = Len(r.tools)
         /\ \A u \in 1..Len(r.tools) :
              q.tools[u] = IF u = t THEN Opened(r, t) ELSE r.tools[u]
<1>1. r.tools \in Seq(Tool) /\ r.nextIndex \in Int
  <2>1. r.tools \in Seq(Tool) /\ r.nextIndex \in Nat
    BY DEF RendererSet
  <2> QED
    BY <2>1
<1>2. /\ q.tools = [r.tools EXCEPT ![t] = Opened(r, t)] /\ q.openKind = "tool_use"
      /\ q.openTool = t
      /\ q.hasUsage = r.hasUsage /\ q.deltaSent = r.deltaSent /\ q.stopSent = r.stopSent
      /\ q.started = r.started
  BY DEF ToolFrame, RendererSet
<1>3. r.tools[t] \in Tool
  BY <1>1
<1>4. /\ Opened(r, t) \in Tool /\ Opened(r, t).started
      /\ Opened(r, t).closed = r.tools[t].closed /\ Opened(r, t).sent = r.tools[t].sent
      /\ Opened(r, t).arguments = r.tools[t].arguments
      /\ Opened(r, t).openAIIndex = r.tools[t].openAIIndex
  BY <1>1, <1>3 DEF Opened, Tool
<1>5. /\ q.tools \in Seq(Tool) /\ Len(q.tools) = Len(r.tools)
      /\ \A u \in 1..Len(r.tools) :
           q.tools[u] = IF u = t THEN Opened(r, t) ELSE r.tools[u]
  BY <1>1, <1>2, <1>4
<1> QED
  BY <1>2, <1>4, <1>5 DEF Steady, MsgOf

\* Announcing a call under its name: the open block is closed first.
LEMMA AnnounceKeeps ==
  ASSUME NEW strict \in BOOLEAN, NEW r, NEW c0, NEW said, Reaches(strict, c0, r, said),
         strict => MsgOf(r) = "open",
         NEW t \in 1..Len(r.tools), ~r.tools[t].started, ~r.tools[t].closed,
         NEW quiet \in BOOLEAN, NEW named \in BOOLEAN, NEW K,
         NEW loose \in BOOLEAN, Sound(quiet, loose, K, r),
         named => \A u \in 1..Len(r.tools) : u # t => r.tools[u].started,
         NEW q, q = Announce(r, t)
  PROVE  /\ Reaches(strict, c0, q, said) /\ Sound(quiet, named, K, q) /\ Steady(r, q)
         /\ MsgOf(q) = MsgOf(r) /\ Grown(r, q)
<1>1. r \in RendererSet /\ OneBlock(r)
  BY DEF Reaches, Rendering, Shape
<1>2. PICK x : x = CloseOpenBlock(r)
  OBVIOUS
<1>3. ClosedFrame(r, x) /\ Reaches(strict, c0, x, said)
  BY <1>2, CloseOpenRenders
<1>4. /\ x.tools = ShutTools(r) /\ x.openKind = "none" /\ Steady(r, x)
      /\ MsgOf(x) = MsgOf(r)
  BY <1>1, <1>3, ClosedFields
<1>5. /\ x.tools \in Seq(Tool) /\ Len(x.tools) = Len(r.tools)
      /\ \A u \in 1..Len(r.tools) :
           /\ ToolSound(quiet, loose, K, x.tools[u])
           /\ x.tools[u].started = r.tools[u].started
           /\ x.tools[u].openAIIndex = r.tools[u].openAIIndex
           /\ u # r.openTool => x.tools[u] = r.tools[u]
  BY <1>1, <1>4, ShutKeeps
<1>6. t # r.openTool
  BY <1>1 DEF OneBlock
<1>7. x.tools[t] = r.tools[t]
  BY <1>5, <1>6
<1>8. q = StartToolBlock(x, t)
  BY <1>2 DEF Announce
<1>9. ToolFrame(x, t, q) /\ Reaches(strict, c0, q, said)
  BY <1>3, <1>4, <1>5, <1>7, <1>8, StartToolRenders
<1>10. x \in RendererSet
  BY <1>3 DEF Reaches, Rendering, Shape
<1>11. /\ Steady(x, q) /\ MsgOf(q) = MsgOf(x) /\ Len(q.tools) = Len(x.tools)
       /\ Opened(x, t).started
       /\ Opened(x, t).closed = x.tools[t].closed /\ Opened(x, t).sent = x.tools[t].sent
       /\ Opened(x, t).arguments = x.tools[t].arguments
       /\ Opened(x, t).openAIIndex = x.tools[t].openAIIndex
       /\ \A u \in 1..Len(x.tools) :
            q.tools[u] = IF u = t THEN Opened(x, t) ELSE x.tools[u]
  <2>1. t \in 1..Len(x.tools)
    BY <1>5
  <2>2. Steady(x, q)
    BY <1>9, <1>10, <2>1, ToolFields
  <2>3. MsgOf(q) = MsgOf(x) /\ Len(q.tools) = Len(x.tools)
    BY <1>9, <1>10, <2>1, ToolFields
  <2>4. /\ Opened(x, t).started
       /\ Opened(x, t).closed = x.tools[t].closed /\ Opened(x, t).sent = x.tools[t].sent
       /\ Opened(x, t).arguments = x.tools[t].arguments
       /\ Opened(x, t).openAIIndex = x.tools[t].openAIIndex
    BY <1>9, <1>10, <2>1, ToolFields
  <2>5. \A u \in 1..Len(x.tools) :
            q.tools[u] = IF u = t THEN Opened(x, t) ELSE x.tools[u]
    BY <1>9, <1>10, <2>1, ToolFields
  <2> QED
    BY <2>2, <2>3, <2>4, <2>5
<1>12. ASSUME NEW u \in 1..Len(q.tools) PROVE ToolSound(quiet, named, K, q.tools[u])
  <2>1. u \in 1..Len(r.tools) /\ u \in 1..Len(x.tools)
    BY <1>5, <1>11
  <2>2. ToolSound(quiet, loose, K, x.tools[u]) /\ x.tools[u].started = r.tools[u].started
    BY <1>5, <2>1
  <2>3. CASE u = t
    <3>1. q.tools[u] = Opened(x, t)
      BY <1>11, <2>1, <2>3
    <3> QED
      BY <1>11, <2>2, <2>3, <3>1 DEF ToolSound, Whole
  <2>4. CASE u # t
    <3>1. q.tools[u] = x.tools[u]
      BY <1>11, <2>1, <2>4
    <3> QED
      BY <2>1, <2>2, <2>4, <3>1 DEF ToolSound
  <2> QED
    BY <2>3, <2>4
<1>13. Sound(quiet, named, K, q)
  BY <1>12 DEF Sound
<1>14. Grown(r, q)
  <2>1. Len(r.tools) \in Nat
    <3>1. r.tools \in Seq(Tool)
      BY <1>1 DEF RendererSet
    <3> QED
      BY <3>1
  <2>2. ASSUME NEW u \in 1..Len(r.tools)
        PROVE  q.tools[u].openAIIndex = r.tools[u].openAIIndex
    <3>1. u \in 1..Len(x.tools) /\ x.tools[u].openAIIndex = r.tools[u].openAIIndex
      BY <1>5
    <3> QED
      BY <1>11, <3>1
  <2> QED
    BY <1>5, <1>11, <2>1, <2>2 DEF Grown
<1> QED
  BY <1>4, <1>9, <1>11, <1>13, <1>14 DEF Steady

\* toolCallDeltas looks a call up by its index, and takes up a new one at the end.
LEMMA ToolFound ==
  ASSUME NEW r \in RendererSet, NEW i \in Nat, NEW known, known = ToolFor(r, i),
         NEW t, t = ToolPosition(known, i)
  PROVE  /\ known = [r EXCEPT !.tools = known.tools] /\ known.tools \in Seq(Tool)
         /\ Len(r.tools) \in Nat /\ Len(r.tools) <= Len(known.tools)
         /\ t \in 1..Len(known.tools) /\ known.tools[t].openAIIndex = i
         /\ \A u \in 1..Len(known.tools) :
              IF u <= Len(r.tools) THEN known.tools[u] = r.tools[u]
              ELSE known.tools[u] = NewTool(i) /\ u = t
         /\ (\E u \in 1..Len(r.tools) : r.tools[u].openAIIndex = i) => t <= Len(r.tools)
<1>1. r.tools \in Seq(Tool) /\ Len(r.tools) \in Nat /\ DOMAIN r.tools = 1..Len(r.tools)
  <2>1. r.tools \in Seq(Tool)
    BY DEF RendererSet
  <2> QED
    BY <2>1
<1>2. CASE \E u \in DOMAIN r.tools : r.tools[u].openAIIndex = i
  <2>1. known = r
    BY <1>2 DEF ToolFor
  <2>2. t \in DOMAIN r.tools /\ r.tools[t].openAIIndex = i
    BY <1>2, <2>1 DEF ToolPosition
  <2>3. r = [r EXCEPT !.tools = r.tools]
    BY DEF RendererSet
  <2> QED
    BY <1>1, <2>1, <2>2, <2>3
<1>3. CASE ~\E u \in DOMAIN r.tools : r.tools[u].openAIIndex = i
  <2> DEFINE new == NewTool(i)
             T == Append(r.tools, new)
             n == Len(r.tools)
  <2>1. new \in Tool /\ new.openAIIndex = i
    <3>1. -1 \in Int
      OBVIOUS
    <3> QED
      BY <3>1 DEF NewTool, Tool
  <2> HIDE DEF new
  <2>2. /\ T \in Seq(Tool) /\ Len(T) = n + 1 /\ T[n + 1] = new
        /\ \A u \in 1..n : T[u] = r.tools[u]
    BY <1>1, <2>1
  <2>3. known = [r EXCEPT !.tools = T]
    BY <1>3 DEF ToolFor, new
  <2> HIDE DEF T, n
  <2>4. known.tools = T
    BY <2>3 DEF RendererSet
  <2>5. DOMAIN T = 1..(n + 1) /\ n + 1 \in 1..(n + 1) /\ n \in Nat
    BY <1>1, <2>2 DEF n
  <2>6. \A u \in 1..(n + 1) : u \in 1..n \/ u = n + 1
    BY <2>5
  <2>7. t \in DOMAIN T /\ T[t].openAIIndex = i
    <3>1. T[n + 1].openAIIndex = i
      BY <2>1, <2>2
    <3> QED
      BY <2>4, <2>5, <3>1 DEF ToolPosition
  <2>8. \A u \in 1..n : T[u].openAIIndex # i
    BY <1>1, <1>3, <2>2 DEF n
  <2>9. t = n + 1
    BY <2>5, <2>6, <2>7, <2>8
  <2>10. \A u \in 1..(n + 1) : IF u <= n THEN T[u] = r.tools[u] ELSE T[u] = new /\ u = t
    BY <2>2, <2>5, <2>9
  <2> QED
    BY <1>1, <1>3, <2>2, <2>3, <2>4, <2>5, <2>7, <2>9, <2>10 DEF n, new
<1> QED
  BY <1>2, <1>3

LEMMA ArgumentsJoined ==
  ASSUME NEW a \in {"none", "part", "end"}, NEW b \in {"none", "part", "end"}
  PROVE  JoinArguments(a, b) \in {"none", "part", "end"}
<1>1. CASE b = "none"
  BY <1>1 DEF JoinArguments
<1>2. CASE b # "none" /\ a = "end"
  BY <1>2 DEF JoinArguments
<1>3. CASE b # "none" /\ a # "end"
  BY <1>3 DEF JoinArguments
<1> QED
  BY <1>1, <1>2, <1>3

\* One call of toolCallDeltas' loop.  Where calls are not interleaved, a fragment
\* never belongs to a call whose block is closed.
LEMMA ToolCallKeeps ==
  ASSUME NEW strict \in BOOLEAN, NEW r, NEW c0, NEW said, Reaches(strict, c0, r, said),
         strict => MsgOf(r) = "open", NEW call \in CallType,
         NEW quiet \in BOOLEAN, NEW named \in BOOLEAN, NEW K, Sound(quiet, named, K, r),
         quiet => \A u \in 1..Len(r.tools) :
                    r.tools[u].openAIIndex = call.index => ~r.tools[u].closed,
         named => \/ call.id /\ call.name
                  \/ \E u \in 1..Len(r.tools) : r.tools[u].openAIIndex = call.index,
         NEW q, q = ToolCallDelta(r, call)
  PROVE  /\ Reaches(strict, c0, q, said) /\ Sound(quiet, named, K \cup {call.index}, q)
         /\ Steady(r, q) /\ MsgOf(q) = MsgOf(r) /\ Grown(r, q)
<1> DEFINE i == call.index
           L == K \cup {i}
<1>1. r \in RendererSet
  BY DEF Reaches, Rendering, Shape
<1>2. i \in Nat /\ call.id \in BOOLEAN /\ call.name \in BOOLEAN
      /\ call.args \in {"none", "part", "end"}
  BY DEF CallType
<1>3. PICK known : known = ToolFor(r, i)
  OBVIOUS
<1>4. PICK t : t = ToolPosition(known, i)
  OBVIOUS
<1>5. PICK old : old = known.tools[t]
  OBVIOUS
<1>6. PICK tool : tool = [old EXCEPT !.id = @ \/ call.id,
                                     !.name = @ \/ (~old.started /\ call.name),
                                     !.arguments = JoinArguments(@, call.args)]
  OBVIOUS
<1>7. PICK noted : noted = [known EXCEPT !.tools[t] = tool]
  OBVIOUS
<1>8. q = IF ~tool.started /\ tool.id /\ tool.name THEN Announce(noted, t) ELSE noted
  BY ZenonT(60), <1>3, <1>4, <1>5, <1>6, <1>7 DEF ToolCallDelta
<1>9. /\ known = [r EXCEPT !.tools = known.tools] /\ known.tools \in Seq(Tool)
      /\ Len(r.tools) \in Nat /\ Len(r.tools) <= Len(known.tools)
      /\ t \in 1..Len(known.tools) /\ known.tools[t].openAIIndex = i
      /\ \A u \in 1..Len(known.tools) :
           IF u <= Len(r.tools) THEN known.tools[u] = r.tools[u]
           ELSE known.tools[u] = NewTool(i) /\ u = t
      /\ (\E u \in 1..Len(r.tools) : r.tools[u].openAIIndex = i) => t <= Len(r.tools)
  BY SMTT(60), <1>1, <1>2, <1>3, <1>4, ToolFound
<1> HIDE DEF i
<1>10. old \in Tool /\ old.openAIIndex = i /\ Len(known.tools) \in Nat
  BY <1>5, <1>9
<1>11. /\ tool \in Tool /\ tool.openAIIndex = i /\ tool.started = old.started
       /\ tool.closed = old.closed /\ tool.blockIndex = old.blockIndex /\ tool.sent = old.sent
       /\ call.id => tool.id
       /\ call.name /\ ~old.started => tool.name
  <2>1. JoinArguments(old.arguments, call.args) \in {"none", "part", "end"}
    <3>1. old.arguments \in {"none", "part", "end"}
      BY <1>10 DEF Tool
    <3> QED
      BY <1>2, <3>1, ArgumentsJoined
  <2>2. old.id \in BOOLEAN /\ old.name \in BOOLEAN /\ old.started \in BOOLEAN
    BY <1>10 DEF Tool
  <2>3. (old.id \/ call.id) \in BOOLEAN
        /\ (old.name \/ (~old.started /\ call.name)) \in BOOLEAN
    OBVIOUS
  <2>4. tool \in Tool
    BY <1>6, <1>10, <2>1, <2>3 DEF Tool
  <2> QED
    BY ZenonT(60), <1>6, <1>10, <2>4 DEF Tool
<1> DEFINE T == [known.tools EXCEPT ![t] = tool]
<1>12. /\ T \in Seq(Tool) /\ Len(T) = Len(known.tools)
       /\ \A u \in 1..Len(T) : T[u] = IF u = t THEN tool ELSE known.tools[u]
  BY <1>9, <1>11
<1>13. noted = [r EXCEPT !.tools = T]
  <2>1. known.tools = known.tools /\ noted = [known EXCEPT !.tools = T]
    BY <1>7
  <2> HIDE DEF T
  <2> QED
    BY <1>1, <1>9, <2>1 DEF RendererSet
<1> HIDE DEF T
<1>14. \A u \in 1..Len(T) :
         IF u <= Len(r.tools)
         THEN /\ T[u].started = r.tools[u].started /\ T[u].closed = r.tools[u].closed
              /\ T[u].blockIndex = r.tools[u].blockIndex
         ELSE ~T[u].started
  <2> SUFFICES ASSUME NEW u \in 1..Len(T)
               PROVE  IF u <= Len(r.tools)
                      THEN /\ T[u].started = r.tools[u].started
                           /\ T[u].closed = r.tools[u].closed
                           /\ T[u].blockIndex = r.tools[u].blockIndex
                      ELSE ~T[u].started
    OBVIOUS
  <2>1. T[u].started = known.tools[u].started /\ T[u].closed = known.tools[u].closed
        /\ T[u].blockIndex = known.tools[u].blockIndex
    BY <1>5, <1>11, <1>12
  <2>2. IF u <= Len(r.tools) THEN known.tools[u] = r.tools[u]
        ELSE known.tools[u] = NewTool(i) /\ u = t
    BY <1>9, <1>12
  <2>3. ~NewTool(i).started
    BY DEF NewTool
  <2> QED
    BY <2>1, <2>2, <2>3
<1>15. Reaches(strict, c0, noted, said)
  BY <1>9, <1>12, <1>13, <1>14, ToolsNoted
<1>16. /\ noted.tools = T /\ Steady(r, noted) /\ MsgOf(noted) = MsgOf(r)
  <2>1. noted.tools = T /\ noted.hasUsage = r.hasUsage /\ noted.deltaSent = r.deltaSent
        /\ noted.stopSent = r.stopSent /\ noted.started = r.started
    BY <1>1, <1>13 DEF RendererSet
  <2> QED
    BY <2>1 DEF Steady, MsgOf
<1>17. PICK loose \in BOOLEAN : loose = FALSE
  OBVIOUS
<1>18. ASSUME NEW u \in 1..Len(T)
       PROVE  ToolSound(quiet, loose, L, T[u]) /\ (named /\ u # t => T[u].started)
  <2>0. u \in 1..Len(known.tools)
    BY <1>12
  <2>1. CASE u = t
    <3>1. T[u] = tool /\ known.tools[u] = old
      BY <1>5, <1>12, <2>1
    <3>2. CASE u <= Len(r.tools)
      <4>1. u \in 1..Len(r.tools) /\ old = r.tools[u]
        BY <1>9, <2>0, <3>1, <3>2
      <4>2. ToolSound(quiet, named, K, old)
        BY <4>1 DEF Sound
      <4>3. quiet => ~old.closed
        BY <1>10, <4>1 DEF i
      <4> QED
        BY <1>10, <1>11, <1>17, <2>1, <3>1, <4>2, <4>3 DEF ToolSound, Whole
    <3>3. CASE ~(u <= Len(r.tools))
      <4>1. old = NewTool(i)
        BY <1>9, <2>0, <3>1, <3>3
      <4>2. ~old.closed /\ old.sent = "none"
        BY <4>1 DEF NewTool
      <4> QED
        BY <1>11, <1>17, <2>1, <3>1, <4>2 DEF ToolSound, Whole
    <3> QED
      BY <3>2, <3>3
  <2>2. CASE u # t
    <3>1. u <= Len(r.tools) /\ T[u] = known.tools[u]
      BY <1>9, <1>12, <2>0, <2>2
    <3>2. u \in 1..Len(r.tools) /\ T[u] = r.tools[u]
      BY <1>9, <2>0, <3>1
    <3>3. ToolSound(quiet, named, K, T[u])
      BY <3>2 DEF Sound
    <3> QED
      BY <1>17, <3>3 DEF ToolSound
  <2> QED
    BY <2>1, <2>2
<1>19. Sound(quiet, loose, L, noted)
  BY <1>16, <1>18 DEF Sound
<1>20. T[t] = tool /\ t \in 1..Len(T)
  BY <1>9, <1>12
<1>21. Grown(r, noted)
  <2>1. ASSUME NEW u \in 1..Len(r.tools)
        PROVE  noted.tools[u].openAIIndex = r.tools[u].openAIIndex
    <3>1. u \in 1..Len(known.tools) /\ known.tools[u] = r.tools[u]
      BY <1>9, <1>10
    <3> QED
      BY <1>5, <1>10, <1>11, <1>12, <1>16, <3>1
  <2> QED
    BY <1>9, <1>10, <1>12, <1>16, <2>1 DEF Grown
<1>22. CASE ~tool.started /\ tool.id /\ tool.name
  <2>1. q = Announce(noted, t) /\ t \in 1..Len(noted.tools) /\ ~noted.tools[t].started
    BY <1>8, <1>16, <1>20, <1>22
  <2>2. ~noted.tools[t].closed
    BY <1>17, <1>18, <1>16, <1>20, <1>22 DEF ToolSound
  <2>3. named => \A u \in 1..Len(noted.tools) : u # t => noted.tools[u].started
    BY <1>16, <1>18
  <2>4. strict => MsgOf(noted) = "open"
    BY <1>16
  <2>5. /\ Reaches(strict, c0, q, said) /\ Sound(quiet, named, L, q) /\ Steady(noted, q)
        /\ MsgOf(q) = MsgOf(noted) /\ Grown(noted, q)
    <3> HIDE DEF L
    <3> QED
      BY <1>15, <1>19, <2>1, <2>2, <2>3, <2>4, AnnounceKeeps
  <2> QED
    BY <1>16, <1>21, <2>5, GrownOn DEF Steady, i
<1>23. CASE ~(~tool.started /\ tool.id /\ tool.name)
  <2>1. q = noted
    BY <1>8, <1>23
  <2>2. named => tool.started
    <3> SUFFICES ASSUME named PROVE tool.started
      OBVIOUS
    <3>1. CASE \E u \in 1..Len(r.tools) : r.tools[u].openAIIndex = i
      <4>1. t \in 1..Len(r.tools) /\ old = r.tools[t]
        BY <1>5, <1>9, <3>1
      <4> QED
        BY <1>11, <4>1 DEF Sound, ToolSound
    <3>2. CASE call.id /\ call.name
      BY <1>11, <1>23, <3>2
    <3> QED
      BY <3>1, <3>2 DEF i
  <2>3. Sound(quiet, named, L, noted)
    <3>1. ASSUME NEW u \in 1..Len(T) PROVE ToolSound(quiet, named, L, T[u])
      BY <1>17, <1>18, <1>20, <2>2 DEF ToolSound
    <3> QED
      BY <1>16, <3>1 DEF Sound
  <2> QED
    BY <1>15, <1>16, <1>21, <2>1, <2>3 DEF i
<1> QED
  BY <1>22, <1>23

\* A call finish comes by: closed already, without any signal, or still to be
\* announced.  It changes no arguments, and sends what was recorded.
FinishFrame(r, q) ==
  /\ q.openKind = "none" /\ Steady(r, q) /\ MsgOf(q) = MsgOf(r)
  /\ Len(q.tools) = Len(r.tools)
  /\ \A u \in 1..Len(r.tools) : /\ q.tools[u].arguments = r.tools[u].arguments
                                /\ r.tools[u].started => q.tools[u].started
                                /\ Whole(r.tools[u]) => Whole(q.tools[u])

LEMMA FinishToolRenders ==
  ASSUME NEW strict \in BOOLEAN, NEW r, NEW c0, NEW said, Reaches(strict, c0, r, said),
         r.openKind = "none", NEW t \in 1..Len(r.tools),
         strict => MsgOf(r) = "open" \/ r.tools[t].started,
         NEW q, q = FinishTool(r, t)
  PROVE  Reaches(strict, c0, q, said) /\ FinishFrame(r, q)
<1> DEFINE tool == r.tools[t]
           mute == ~tool.id /\ ~tool.name /\ tool.arguments = "none"
<1>1. r \in RendererSet /\ OneBlock(r)
  BY DEF Reaches, Rendering, Shape
<1>2. r.tools \in Seq(Tool) /\ tool \in Tool /\ Len(r.tools) \in Nat
  <2>1. r.tools \in Seq(Tool)
    BY <1>1 DEF RendererSet
  <2> QED
    BY <2>1
<1>3. tool.started => tool.closed
  BY <1>1 DEF OneBlock
<1>4. CASE tool.closed
  <2>1. q = r
    BY <1>4 DEF FinishTool
  <2> QED
    BY <2>1 DEF FinishFrame, Steady
<1>5. CASE ~tool.closed /\ mute
  <2> DEFINE shut == [tool EXCEPT !.closed = TRUE]
             T == [r.tools EXCEPT ![t] = shut]
  <2>1. q = [r EXCEPT !.tools = T]
    BY <1>3, <1>5 DEF FinishTool
  <2>2. /\ shut \in Tool /\ shut.started = tool.started /\ shut.arguments = tool.arguments
        /\ shut.sent = tool.sent /\ shut.closed
    BY <1>2 DEF Tool
  <2>3. Whole(tool) => Whole(shut)
    BY <1>5, <2>2 DEF Whole
  <2> HIDE DEF shut
  <2>4. /\ T \in Seq(Tool) /\ Len(T) = Len(r.tools)
        /\ \A u \in 1..Len(T) : T[u] = IF u = t THEN shut ELSE r.tools[u]
    BY <1>2, <2>2
  <2> HIDE DEF T
  <2>5. \A u \in 1..Len(T) :
          IF u <= Len(r.tools)
          THEN /\ T[u].started = r.tools[u].started
               /\ T[u].started => /\ T[u].closed = r.tools[u].closed
                                  /\ T[u].blockIndex = r.tools[u].blockIndex
          ELSE ~T[u].started
    BY <1>2, <1>3, <1>5, <2>2, <2>4
  <2>6. Reaches(strict, c0, q, said)
    BY <1>2, <2>1, <2>4, <2>5, ToolsNoted
  <2>7. /\ q.tools = T /\ q.openKind = "none" /\ q.hasUsage = r.hasUsage
        /\ q.deltaSent = r.deltaSent /\ q.stopSent = r.stopSent /\ q.started = r.started
    BY <1>1, <2>1 DEF RendererSet
  <2> HIDE DEF tool
  <2>8. FinishFrame(r, q)
    BY <2>2, <2>3, <2>4, <2>7 DEF FinishFrame, Steady, MsgOf, tool
  <2> QED
    BY <2>6, <2>8
<1>6. CASE ~tool.closed /\ ~mute
  <2> DEFINE titled == [tool EXCEPT !.name = TRUE]
             T == [r.tools EXCEPT ![t] = titled]
  <2>1. PICK n : n = [r EXCEPT !.tools[t].name = TRUE]
    OBVIOUS
  <2>2. n = [r EXCEPT !.tools = T]
    BY <2>1
  <2>3. /\ titled \in Tool /\ titled.started = tool.started /\ titled.closed = tool.closed
        /\ titled.arguments = tool.arguments /\ titled.sent = tool.sent
        /\ titled.blockIndex = tool.blockIndex
    BY <1>2 DEF Tool
  <2> HIDE DEF titled
  <2>4. /\ T \in Seq(Tool) /\ Len(T) = Len(r.tools)
        /\ \A u \in 1..Len(T) : T[u] = IF u = t THEN titled ELSE r.tools[u]
    BY <1>2, <2>3
  <2> HIDE DEF T
  <2>5. \A u \in 1..Len(T) :
          IF u <= Len(r.tools)
          THEN /\ T[u].started = r.tools[u].started
               /\ T[u].started => /\ T[u].closed = r.tools[u].closed
                                  /\ T[u].blockIndex = r.tools[u].blockIndex
          ELSE ~T[u].started
    BY <1>2, <2>3, <2>4
  <2>6. Reaches(strict, c0, n, said)
    BY <1>2, <2>2, <2>4, <2>5, ToolsNoted
  <2>7. /\ n.tools = T /\ n.openKind = "none" /\ n.hasUsage = r.hasUsage
        /\ n.deltaSent = r.deltaSent /\ n.stopSent = r.stopSent /\ n.started = r.started
    BY <1>1, <2>2 DEF RendererSet
  <2>8. MsgOf(n) = MsgOf(r) /\ Steady(r, n)
    BY <2>7 DEF MsgOf, Steady
  <2>9. PICK s : s = StartToolBlock(n, t)
    OBVIOUS
  <2>10. t \in 1..Len(n.tools) /\ n.tools[t] = titled /\ ~n.tools[t].started
         /\ ~n.tools[t].closed
    BY <1>3, <1>6, <2>3, <2>4, <2>7
  <2>11. strict => MsgOf(n) = "open"
    BY <1>3, <1>6, <2>8
  <2>12. ToolFrame(n, t, s) /\ Reaches(strict, c0, s, said)
    BY <2>6, <2>7, <2>9, <2>10, <2>11, StartToolRenders
  <2>13. n \in RendererSet /\ s \in RendererSet
    BY <2>6, <2>12 DEF Reaches, Rendering, Shape
  <2>14. /\ s.openTool = t /\ Steady(n, s) /\ MsgOf(s) = MsgOf(n)
         /\ Opened(n, t) \in Tool /\ Opened(n, t).sent = n.tools[t].sent
         /\ Opened(n, t).arguments = n.tools[t].arguments /\ Opened(n, t).started
         /\ s.tools \in Seq(Tool) /\ Len(s.tools) = Len(n.tools)
         /\ \A u \in 1..Len(n.tools) :
              s.tools[u] = IF u = t THEN Opened(n, t) ELSE n.tools[u]
    BY <2>10, <2>12, <2>13, ToolFields
  <2>15. q = CloseToolBlock(s, t)
    BY <1>3, <1>6, <2>1, <2>9 DEF FinishTool
  <2>16. ClosedFrame(s, q) /\ Reaches(strict, c0, q, said)
    <3>1. q = CloseToolBlock(s, s.openTool) /\ s.openTool # 0
      BY <2>14, <2>15
    <3> QED
      BY <2>12, <3>1, CloseToolRenders
  <2>17. /\ q.tools = ShutTools(s) /\ q.openKind = "none" /\ Steady(s, q)
         /\ MsgOf(q) = MsgOf(s)
    BY <2>13, <2>16, ClosedFields
  <2> DEFINE shut == Shut(Opened(n, t))
  <2>18. q.tools = [s.tools EXCEPT ![t] = shut]
    <3>1. s.tools[t] = Opened(n, t) /\ t # 0
      BY <2>10, <2>14
    <3> QED
      BY <2>14, <2>17, <3>1 DEF ShutTools
  <2>19. /\ shut \in Tool /\ shut.started /\ shut.closed /\ shut.sent = shut.arguments
         /\ shut.arguments = tool.arguments
    <3>1. Opened(n, t).arguments = tool.arguments
      BY <2>3, <2>10, <2>14
    <3> QED
      BY <2>14, <3>1 DEF Shut, Tool
  <2> HIDE DEF shut
  <2>20. /\ Len(q.tools) = Len(r.tools)
         /\ \A u \in 1..Len(r.tools) : q.tools[u] = IF u = t THEN shut ELSE r.tools[u]
    <3>1. /\ Len(q.tools) = Len(s.tools)
          /\ \A u \in 1..Len(s.tools) : q.tools[u] = IF u = t THEN shut ELSE s.tools[u]
      BY <2>14, <2>18, <2>19
    <3>2. Len(s.tools) = Len(r.tools) /\ Len(n.tools) = Len(r.tools)
      BY <2>4, <2>7, <2>14
    <3>3. \A u \in 1..Len(r.tools) : u # t => s.tools[u] = r.tools[u]
      BY <2>4, <2>7, <2>14
    <3> QED
      BY <3>1, <3>2, <3>3
  <2> HIDE DEF tool
  <2>21. Whole(shut)
    BY <2>19 DEF Whole
  <2>22. FinishFrame(r, q)
    BY <2>8, <2>14, <2>17, <2>19, <2>20, <2>21 DEF FinishFrame, Steady, tool
  <2> QED
    BY <2>16, <2>22
<1> QED
  BY <1>4, <1>5, <1>6

-----------------------------------------------------------------------------
(* The end of a message, and an error in its place. *)

\* What no event but a block's touches.
KeptFrame(r, q) ==
  /\ q.tools = r.tools /\ q.openKind = r.openKind /\ q.started = r.started
  /\ q.hasUsage = r.hasUsage /\ q.sawToolCall = r.sawToolCall
  /\ q.finishReason = r.finishReason

LEMMA ErrorRenders ==
  ASSUME NEW strict \in BOOLEAN, NEW r, NEW c0, NEW said, Reaches(strict, c0, r, said),
         NEW q, q = Emit(r, Event("error", -1, "none"))
  PROVE  /\ Reaches(strict, c0, q, said) /\ KeptFrame(r, q)
         /\ q.deltaSent = r.deltaSent /\ q.stopSent = r.stopSent
<1> SUFFICES ASSUME NEW c \in Client, Rendering(strict, r, c0, c), Hears(c) = said
             PROVE  /\ Reaches(strict, c0, q, said) /\ KeptFrame(r, q)
                    /\ q.deltaSent = r.deltaSent /\ q.stopSent = r.stopSent
  BY DEF Reaches
<1>1. r \in RendererSet /\ OneBlock(r) /\ c \in Client /\ Leads(strict, c0, r.out, c)
  BY DEF Rendering, Shape, Agrees
<1> DEFINE e == Event("error", -1, "none")
           d == ClientAfter(c, e)
<1>2. e \in EventSet
  BY TypedWords, EventTyped
<1>3. Legal(strict, c, e)
  BY DEF Legal, Event, BlockEvents
<1>4. d = c
  BY DEF ClientAfter, Event
<1> HIDE DEF e, d
<1>5. r.out \in Seq(EventSet)
  BY <1>1 DEF RendererSet
<1>6. q = [r EXCEPT !.out = Append(r.out, e)] /\ q.out = Append(r.out, e)
  BY <1>1 DEF Emit, RendererSet, e
<1>7. Leads(strict, c0, q.out, d) /\ q.out \in Seq(EventSet) /\ d \in Client
  BY <1>1, <1>2, <1>3, <1>5, <1>6, Emitted DEF d
<1>8. /\ q.tools = r.tools /\ q.openKind = r.openKind /\ q.openIndex = r.openIndex
      /\ q.openTool = r.openTool /\ q.nextIndex = r.nextIndex
      /\ q.sawToolCall = r.sawToolCall /\ q.finishReason = r.finishReason
      /\ q.deltaSent = r.deltaSent /\ q.stopSent = r.stopSent /\ q.started = r.started
      /\ q.hasUsage = r.hasUsage
  BY <1>1, <1>6 DEF RendererSet
<1>9. q \in RendererSet
  BY <1>1, <1>6, <1>7 DEF RendererSet
<1>10. StartedTools(q) = StartedTools(r) /\ MsgOf(q) = MsgOf(r) /\ OneBlock(q)
  BY <1>1, <1>8 DEF StartedTools, MsgOf, OneBlock
<1>11. Shape(q)
  BY <1>8, <1>9, <1>10 DEF Shape, Rendering
<1>12. Agrees(strict, q, c)
  BY <1>8, <1>10 DEF Agrees, Rendering
<1> QED
  BY <1>4, <1>7, <1>8, <1>11, <1>12 DEF Rendering, Reaches, KeptFrame

EndingReason(r) ==
  ClaudeStopReason(IF r.finishReason = "none" THEN "stop" ELSE r.finishReason,
                   r.sawToolCall, ToolArgumentsValid(r))

\* A message that stops for tool use holds a call, and no arguments are cut short.
LEMMA EndingReasonSound ==
  ASSUME NEW r, Shape(r)
  PROVE  /\ EndingReason(r) \in StopReasons
         /\ EndingReason(r) = "tool_use" => r.sawToolCall /\ ToolArgumentsValid(r)
<1> DEFINE reason == IF r.finishReason = "none" THEN "stop" ELSE r.finishReason
<1>1. r.finishReason \in FinishReasons
  BY DEF Shape, RendererSet
<1>2. CASE reason = "length"
  BY <1>2 DEF EndingReason, ClaudeStopReason, StopReasons
<1>3. CASE reason = "tool_calls"
  <2>1. r.sawToolCall
    BY <1>3 DEF Shape
  <2>2. EndingReason(r) = IF ~ToolArgumentsValid(r) THEN "max_tokens" ELSE "tool_use"
    BY <1>3, <2>1 DEF EndingReason, ClaudeStopReason
  <2> QED
    BY <2>1, <2>2 DEF StopReasons
<1>4. CASE reason \in {"stop", "content_filter"}
  BY <1>4 DEF EndingReason, ClaudeStopReason, StopReasons
<1> QED
  BY <1>1, <1>2, <1>3, <1>4 DEF FinishReasons

LEMMA MessageDeltaRenders ==
  ASSUME NEW strict \in BOOLEAN, NEW r, NEW c0, NEW said, Reaches(strict, c0, r, said),
         r.openKind = "none", strict => r.started, ~r.deltaSent, ~r.stopSent,
         NEW q, q = MessageDelta(r)
  PROVE  /\ Reaches(strict, c0, q, <<EndingReason(r), said[2], said[3]>>) /\ KeptFrame(r, q)
         /\ q.deltaSent = TRUE /\ q.stopSent = r.stopSent
<1> DEFINE told == <<EndingReason(r), said[2], said[3]>>
<1> SUFFICES ASSUME NEW c \in Client, Rendering(strict, r, c0, c), Hears(c) = said
             PROVE  /\ Reaches(strict, c0, q, told) /\ KeptFrame(r, q)
                    /\ q.deltaSent = TRUE /\ q.stopSent = r.stopSent
  BY DEF Reaches
<1>1. r \in RendererSet /\ OneBlock(r) /\ c \in Client /\ Leads(strict, c0, r.out, c)
      /\ Shape(r)
  BY DEF Rendering, Shape, Agrees
<1> DEFINE reason == EndingReason(r)
           e == Event("message_delta", -1, reason)
           d == ClientAfter(c, e)
<1>2. /\ reason \in StopReasons /\ reason # "none"
      /\ reason = "tool_use" => Cardinality(StartedTools(r)) > 0
  <2>1. reason \in StopReasons /\ (reason = "tool_use" => r.sawToolCall)
    BY <1>1, EndingReasonSound
  <2>2. r.sawToolCall => Cardinality(StartedTools(r)) > 0
    BY <1>1, StartedFinite
  <2> HIDE DEF reason
  <2> QED
    BY <2>1, <2>2 DEF StopReasons
<1>3. q = Emit([r EXCEPT !.deltaSent = TRUE], e)
  BY DEF MessageDelta, EndingReason
<1> HIDE DEF reason
<1>4. e \in EventSet
  <2>1. reason \in Details
    BY <1>2, TypedWords
  <2> QED
    BY <2>1, TypedWords, EventTyped
<1>5. Legal(strict, c, e)
  <2>1. c.block = -1 /\ c.reason = "none" /\ (reason = "tool_use" => c.tools > 0)
    BY <1>1, <1>2 DEF Rendering, Agrees, OneBlock
  <2>2. strict => c.msg = "open"
    BY DEF Rendering, Agrees, MsgOf
  <2> QED
    BY <1>2, <2>1, <2>2 DEF Legal, Event, BlockEvents
<1>6. d = [c EXCEPT !.msg = "closing", !.reason = reason]
  BY DEF ClientAfter, Event
<1> HIDE DEF e, d
<1>7. r.out \in Seq(EventSet)
  BY <1>1 DEF RendererSet
<1>8. q = [r EXCEPT !.deltaSent = TRUE, !.out = Append(r.out, e)] /\ q.out = Append(r.out, e)
  BY <1>1, <1>3 DEF Emit, RendererSet
<1>9. Leads(strict, c0, q.out, d) /\ q.out \in Seq(EventSet) /\ d \in Client
  BY <1>1, <1>4, <1>5, <1>7, <1>8, Emitted DEF d
<1>10. /\ q.tools = r.tools /\ q.openKind = r.openKind /\ q.openIndex = r.openIndex
       /\ q.openTool = r.openTool /\ q.nextIndex = r.nextIndex
       /\ q.sawToolCall = r.sawToolCall /\ q.finishReason = r.finishReason
       /\ q.deltaSent = TRUE /\ q.stopSent = r.stopSent /\ q.started = r.started
       /\ q.hasUsage = r.hasUsage
  BY <1>1, <1>8 DEF RendererSet
<1>11. q \in RendererSet
  BY <1>1, <1>8, <1>9 DEF RendererSet
<1>12. StartedTools(q) = StartedTools(r) /\ OneBlock(q) /\ MsgOf(q) = "closing"
  BY <1>1, <1>10 DEF StartedTools, MsgOf, OneBlock
<1>13. Shape(q)
  BY <1>10, <1>11, <1>12 DEF Shape, Rendering
<1>14. d.block = c.block /\ d.next = c.next /\ d.tools = c.tools /\ d.reason = reason
       /\ d.msg = "closing" /\ d.thinking = c.thinking /\ d.text = c.text
  BY <1>1, <1>6 DEF Client
<1>15. Agrees(strict, q, d)
  BY <1>2, <1>9, <1>10, <1>12, <1>14 DEF Agrees, Rendering
<1>16. Hears(d) = told
  <2>1. said[2] = c.thinking /\ said[3] = c.text
    BY DEF Hears
  <2> QED
    BY <1>14, <2>1 DEF Hears, reason
<1> QED
  BY <1>9, <1>10, <1>13, <1>15, <1>16 DEF Rendering, Reaches, KeptFrame

LEMMA MessageStopRenders ==
  ASSUME NEW strict \in BOOLEAN, NEW r, NEW c0, NEW said, Reaches(strict, c0, r, said),
         r.openKind = "none", r.deltaSent, ~r.stopSent,
         NEW q, q = MessageStop(r)
  PROVE  /\ Reaches(strict, c0, q, said) /\ KeptFrame(r, q)
         /\ q.deltaSent = r.deltaSent /\ q.stopSent = TRUE
<1> SUFFICES ASSUME NEW c \in Client, Rendering(strict, r, c0, c), Hears(c) = said
             PROVE  /\ Reaches(strict, c0, q, said) /\ KeptFrame(r, q)
                    /\ q.deltaSent = r.deltaSent /\ q.stopSent = TRUE
  BY DEF Reaches
<1>1. r \in RendererSet /\ OneBlock(r) /\ c \in Client /\ Leads(strict, c0, r.out, c)
  BY DEF Rendering, Shape, Agrees
<1> DEFINE e == Event("message_stop", -1, "none")
           d == ClientAfter(c, e)
<1>2. e \in EventSet
  BY TypedWords, EventTyped
<1>3. Legal(strict, c, e)
  <2>1. c.block = -1
    BY <1>1 DEF Rendering, Agrees, OneBlock
  <2>2. strict => c.msg = "closing"
    BY DEF Rendering, Agrees, MsgOf
  <2> QED
    BY <2>1, <2>2 DEF Legal, Event, BlockEvents
<1>4. d = [c EXCEPT !.msg = "stopped"]
  BY DEF ClientAfter, Event
<1> HIDE DEF e, d
<1>5. r.out \in Seq(EventSet)
  BY <1>1 DEF RendererSet
<1>6. q = [r EXCEPT !.stopSent = TRUE, !.out = Append(r.out, e)] /\ q.out = Append(r.out, e)
  BY <1>1 DEF Emit, RendererSet, MessageStop, e
<1>7. Leads(strict, c0, q.out, d) /\ q.out \in Seq(EventSet) /\ d \in Client
  BY <1>1, <1>2, <1>3, <1>5, <1>6, Emitted DEF d
<1>8. /\ q.tools = r.tools /\ q.openKind = r.openKind /\ q.openIndex = r.openIndex
      /\ q.openTool = r.openTool /\ q.nextIndex = r.nextIndex
      /\ q.sawToolCall = r.sawToolCall /\ q.finishReason = r.finishReason
      /\ q.deltaSent = r.deltaSent /\ q.stopSent = TRUE /\ q.started = r.started
      /\ q.hasUsage = r.hasUsage
  BY <1>1, <1>6 DEF RendererSet
<1>9. q \in RendererSet
  BY <1>1, <1>6, <1>7 DEF RendererSet
<1>10. StartedTools(q) = StartedTools(r) /\ OneBlock(q) /\ MsgOf(q) = "stopped"
  BY <1>1, <1>8 DEF StartedTools, MsgOf, OneBlock
<1>11. Shape(q)
  BY <1>8, <1>9, <1>10 DEF Shape, Rendering
<1>12. d.block = c.block /\ d.next = c.next /\ d.tools = c.tools /\ d.reason = c.reason
       /\ d.msg = "stopped" /\ Hears(d) = Hears(c)
  BY <1>1, <1>4 DEF Client, Hears
<1>13. Agrees(strict, q, d)
  BY <1>7, <1>8, <1>10, <1>12 DEF Agrees, Rendering
<1> QED
  BY <1>7, <1>8, <1>11, <1>12, <1>13 DEF Rendering, Reaches, KeptFrame

\* messageDelta and messageStop, which come together and once.
EndReason(r, said) == IF r.deltaSent THEN said[1] ELSE EndingReason(r)

EndFrame(r, q) == KeptFrame(r, q) /\ q.deltaSent = TRUE /\ q.stopSent = TRUE

LEMMA EndRenders ==
  ASSUME NEW strict \in BOOLEAN, NEW r, NEW c0, NEW said, Reaches(strict, c0, r, said),
         r.openKind = "none", strict => r.started, r.deltaSent <=> r.stopSent,
         NEW th, NEW tx, NEW ending, said = <<ending, th, tx>>,
         NEW q, q = MessageStop(MessageDelta(r))
  PROVE  Reaches(strict, c0, q, <<EndReason(r, said), th, tx>>) /\ EndFrame(r, q)
<1>0. r.deltaSent \in BOOLEAN /\ r.stopSent \in BOOLEAN
  BY DEF Reaches, Rendering, Shape, RendererSet
<1>1. CASE r.deltaSent
  <2>1. q = r
    BY <1>1 DEF MessageDelta, MessageStop
  <2>2. said[1] = ending
    OBVIOUS
  <2> QED
    BY <1>0, <1>1, <2>1, <2>2 DEF EndReason, KeptFrame, EndFrame
<1>2. CASE ~r.deltaSent
  <2>1. PICK x : x = MessageDelta(r)
    OBVIOUS
  <2>2. said[2] = th /\ said[3] = tx
    OBVIOUS
  <2> DEFINE told == <<EndingReason(r), said[2], said[3]>>
  <2>3. /\ Reaches(strict, c0, x, told) /\ KeptFrame(r, x)
        /\ x.deltaSent = TRUE /\ x.stopSent = r.stopSent
    BY ZenonT(60), <1>2, <2>1, MessageDeltaRenders
  <2>4. q = MessageStop(x) /\ x.openKind = "none"
    BY <2>1, <2>3 DEF KeptFrame
  <2> HIDE DEF told
  <2>5. /\ Reaches(strict, c0, q, told) /\ KeptFrame(x, q)
        /\ q.deltaSent = x.deltaSent /\ q.stopSent = TRUE
    BY <1>2, <2>3, <2>4, MessageStopRenders
  <2> QED
    BY <1>2, <2>2, <2>3, <2>5 DEF KeptFrame, EndFrame, EndReason, told
<1> QED
  BY <1>1, <1>2

-----------------------------------------------------------------------------
(* The loops: over the calls of a delta, the choices of a chunk and, at the *)
(* end, the tool calls kept.                                               *)

\* Induction on a set of numbers, from the least number outside it.
LEMMA Least == ASSUME NEW T \in SUBSET Nat, T # {} PROVE \E x \in T : \A y \in T : x <= y
<1> DEFINE R == OpToRel(<, Nat)
<1>1. IsWellFoundedOn(R, Nat)
  BY NatLessThanWellFounded
<1> HIDE DEF R
<1>2. PICK x \in T : \A y \in T : <<y, x>> \notin R
  BY <1>1, WFMin
<1>3. \A y \in T : ~(y < x)
  BY <1>2 DEF R, OpToRel
<1> QED
  BY <1>3

LEMMA Counting ==
  ASSUME NEW T \in SUBSET Nat, 0 \in T, \A n \in T : n + 1 \in T
  PROVE  T = Nat
<1> SUFFICES ASSUME T # Nat PROVE FALSE
  OBVIOUS
<1>1. PICK x \in Nat \ T : \A y \in Nat \ T : x <= y
  <2>1. Nat \ T \in SUBSET Nat /\ Nat \ T # {}
    OBVIOUS
  <2> QED
    BY <2>1, Least
<1>2. x - 1 \in T
  BY <1>1
<1> QED
  BY <1>1, <1>2

Step(kind, r, items, n) ==
  IF kind = "call" THEN ToolCallDelta(r, items[n])
  ELSE IF kind = "choice" THEN RenderChoice(r, items[n])
  ELSE IF kind = "merge" THEN MergeToolCall(r, items[n])
  ELSE IF kind = "add" THEN AddChoice(r, items[n])
  ELSE FinishTool(r, n)

Loop(kind, start, items, m, f) ==
  f = [n \in 0..m |-> IF n = 0 THEN start ELSE Step(kind, f[n - 1], items, n)]

LEMMA LoopExists ==
  ASSUME NEW kind, NEW start, NEW items, NEW length \in Nat
  PROVE  \E f : Loop(kind, start, items, length, f)
<1> DEFINE T == {m \in Nat : \E f : Loop(kind, start, items, m, f)}
<1>1. 0 \in T
  <2>1. Loop(kind, start, items, 0, [n \in 0..0 |-> start])
    BY DEF Loop
  <2> QED
    BY <2>1
<1>2. ASSUME NEW m \in T PROVE m + 1 \in T
  <2>1. PICK f : Loop(kind, start, items, m, f)
    OBVIOUS
  <2> DEFINE last == Step(kind, f[m], items, m + 1)
             g == [n \in 0..(m + 1) |-> IF n = m + 1 THEN last ELSE f[n]]
             then(n) == IF n = 0 THEN start ELSE Step(kind, g[n - 1], items, n)
  <2>2. (\A n \in 0..m : g[n] = f[n]) /\ g[m + 1] = last /\ g = [n \in 0..(m + 1) |-> g[n]]
    OBVIOUS
  <2>3. ASSUME NEW n \in 0..(m + 1) PROVE g[n] = then(n)
    <3>1. CASE n = m + 1
      <4>1. n - 1 = m /\ n # 0 /\ g[m] = f[m]
        BY <2>2, <3>1
      <4> QED
        BY <2>2, <3>1, <4>1
    <3>2. CASE n \in 0..m
      <4>1. n = 0 \/ n - 1 \in 0..m
        BY <3>2
      <4>2. f[n] = IF n = 0 THEN start ELSE Step(kind, f[n - 1], items, n)
        BY <2>1, <3>2 DEF Loop
      <4> HIDE DEF g
      <4> QED
        BY <2>2, <3>2, <4>1, <4>2
    <3> QED
      BY <3>1, <3>2
  <2>4. [n \in 0..(m + 1) |-> g[n]] = [n \in 0..(m + 1) |-> then(n)]
    <3> HIDE DEF g, then
    <3> QED
      BY <2>3
  <2>5. Loop(kind, start, items, m + 1, g)
    <3> HIDE DEF g
    <3> QED
      BY <2>2, <2>4 DEF Loop
  <2> HIDE DEF g
  <2> QED
    BY <2>5
<1>3. length \in T
  <2> HIDE DEF T
  <2>1. T \in SUBSET Nat
    BY DEF T
  <2> QED
    BY <1>1, <1>2, <2>1, Counting
<1> QED
  BY <1>3

Runs(kind, start, items, m, f) ==
  f[0] = start /\ \A n \in 1..m : f[n] = Step(kind, f[n - 1], items, n)

LEMMA LoopRuns ==
  ASSUME NEW kind, NEW start, NEW items, NEW m \in Nat, NEW f, Loop(kind, start, items, m, f)
  PROVE  Runs(kind, start, items, m, f)
<1>1. 0 \in 0..m
  OBVIOUS
<1>2. f[0] = start
  BY <1>1 DEF Loop
<1>3. ASSUME NEW n \in 1..m PROVE f[n] = Step(kind, f[n - 1], items, n)
  <2>1. n \in 0..m /\ n # 0
    OBVIOUS
  <2> QED
    BY <2>1 DEF Loop
<1> QED
  BY <1>2, <1>3 DEF Runs

\* What renderDelta's loop starts from.
Told(r, choice) ==
  LET begun == StartMessage(r)
      thought == IF choice.thinking THEN ContentDelta(begun, "thinking") ELSE begun
  IN IF choice.text THEN ContentDelta(thought, "text") ELSE thought

LEMMA CallsLoop ==
  ASSUME NEW r, NEW choice \in ChoiceType
  PROVE  \E f : /\ Runs("call", Told(r, choice), choice.calls, Len(choice.calls), f)
                /\ RenderDelta(r, choice) = f[Len(choice.calls)]
<1> DEFINE m == Len(choice.calls)
           f == CHOOSE g : Loop("call", Told(r, choice), choice.calls, m, g)
<1>1. m \in Nat
  BY DEF ChoiceType
<1>2. Loop("call", Told(r, choice), choice.calls, m, f)
  BY <1>1, LoopExists
<1>3. RenderDelta(r, choice) = f[m]
  BY DEF RenderDelta, Loop, Step, Told
<1> HIDE DEF m, f
<1>4. Runs("call", Told(r, choice), choice.calls, m, f)
  BY <1>1, <1>2, LoopRuns
<1> QED
  BY <1>3, <1>4 DEF m

Counted(r, chunk) == [r EXCEPT !.hasUsage = @ \/ chunk.usage]
EndOfChunk(r, chunk) ==
  IF GenerationOver(r, chunk) THEN MessageStop(MessageDelta(CloseOpenBlock(r))) ELSE r

LEMMA ChoicesLoop ==
  ASSUME NEW r, NEW chunk \in ChunkType, ~chunk.error
  PROVE  \E f : /\ Runs("choice", Counted(r, chunk), chunk.choices, Len(chunk.choices), f)
                /\ Feed(r, chunk) = EndOfChunk(f[Len(chunk.choices)], chunk)
<1> DEFINE m == Len(chunk.choices)
           f == CHOOSE g : Loop("choice", Counted(r, chunk), chunk.choices, m, g)
<1>1. m \in Nat
  BY DEF ChunkType
<1>2. Loop("choice", Counted(r, chunk), chunk.choices, m, f)
  BY <1>1, LoopExists
<1>3. Feed(r, chunk) = EndOfChunk(f[m], chunk)
  BY DEF Feed, ExtractionFault, EndOfChunk, Loop, Step, Counted
<1> HIDE DEF m, f
<1>4. Runs("choice", Counted(r, chunk), chunk.choices, m, f)
  BY <1>1, <1>2, LoopRuns
<1> QED
  BY <1>3, <1>4 DEF m

LEMMA FinishLoop ==
  ASSUME NEW r \in RendererSet
  PROVE  \E f : /\ Runs("tool", CloseOpenBlock(r), r.tools, Len(r.tools), f)
                /\ Finish(r) = MessageStop(MessageDelta(f[Len(r.tools)]))
<1> DEFINE m == Len(r.tools)
           f == CHOOSE g : Loop("tool", CloseOpenBlock(r), r.tools, m, g)
<1>1. m \in Nat
  BY DEF RendererSet
<1>2. Loop("tool", CloseOpenBlock(r), r.tools, m, f)
  BY <1>1, LoopExists
<1>3. Finish(r) = MessageStop(MessageDelta(f[m]))
  BY DEF Finish, Loop, Step
<1> HIDE DEF m, f
<1>4. Runs("tool", CloseOpenBlock(r), r.tools, m, f)
  BY <1>1, <1>2, LoopRuns
<1> QED
  BY <1>3, <1>4 DEF m

-----------------------------------------------------------------------------
(* A choice, call by call. *)

Ends(r, q) == q.hasUsage = r.hasUsage /\ q.deltaSent = r.deltaSent /\ q.stopSent = r.stopSent

Hear(said, choice) ==
  <<said[1], said[2] + (IF choice.thinking THEN 1 ELSE 0),
    said[3] + (IF choice.text THEN 1 ELSE 0)>>

LEMMA SaidNumbers ==
  ASSUME NEW strict \in BOOLEAN, NEW r, NEW c0, NEW said, Reaches(strict, c0, r, said)
  PROVE  /\ said[2] \in Nat /\ said[3] \in Nat /\ said = <<said[1], said[2], said[3]>>
<1>1. PICK c \in Client : Hears(c) = said
  BY DEF Reaches
<1>2. c.thinking \in Nat /\ c.text \in Nat
  BY DEF Client
<1> QED
  BY <1>1, <1>2 DEF Hears

\* The message begins with its first content.
Begun(strict, r, q) ==
  /\ q.tools = r.tools /\ Ends(r, q) /\ q.started = TRUE /\ (strict => MsgOf(q) = "open")
  /\ q \in RendererSet

LEMMA BegunKeeps ==
  ASSUME NEW strict \in BOOLEAN, NEW r, NEW c0, NEW said, Reaches(strict, c0, r, said),
         ~r.started => r.openKind = "none", strict => ~r.deltaSent /\ ~r.stopSent,
         NEW q, q = StartMessage(r)
  PROVE  Reaches(strict, c0, q, said) /\ Begun(strict, r, q)
<1>1. r \in RendererSet
  BY DEF Reaches, Rendering, Shape
<1>2. ~r.started => r.openKind = "none" /\ (strict => MsgOf(r) = "none")
  BY DEF MsgOf
<1>3. BegunFrame(r, q) /\ Reaches(strict, c0, q, said)
  BY <1>2, StartMessageRenders
<1>4. /\ q.tools = r.tools /\ q.started = TRUE /\ q.hasUsage = r.hasUsage
      /\ q.deltaSent = r.deltaSent /\ q.stopSent = r.stopSent
  BY <1>1, <1>3 DEF BegunFrame, RendererSet
<1>5. q \in RendererSet
  BY <1>3 DEF Reaches, Rendering, Shape
<1> QED
  BY <1>3, <1>4, <1>5 DEF Begun, Ends, MsgOf

Telling(strict, r, choice, q) ==
  /\ Ends(r, q) /\ q.started = TRUE /\ (strict => MsgOf(q) = "open") /\ Grown(r, q)
  /\ ~choice.thinking /\ ~choice.text => q.tools = r.tools

LEMMA ToldKeeps ==
  ASSUME NEW strict \in BOOLEAN, NEW r, NEW c0, NEW said, Reaches(strict, c0, r, said),
         ~r.started => r.openKind = "none", strict => ~r.deltaSent /\ ~r.stopSent,
         NEW quiet \in BOOLEAN, NEW named \in BOOLEAN, NEW K, Sound(quiet, named, K, r),
         NEW choice \in ChoiceType, NEW q, q = Told(r, choice)
  PROVE  /\ Reaches(strict, c0, q, Hear(said, choice)) /\ Sound(quiet, named, K, q)
         /\ Telling(strict, r, choice, q)
<1>1. r \in RendererSet
  BY DEF Reaches, Rendering, Shape
<1>2. PICK x : x = StartMessage(r)
  OBVIOUS
<1>3. /\ Reaches(strict, c0, x, said) /\ x.tools = r.tools /\ Ends(r, x) /\ x.started = TRUE
      /\ (strict => MsgOf(x) = "open") /\ x \in RendererSet
  <2>1. Reaches(strict, c0, x, said) /\ Begun(strict, r, x)
    BY <1>2, BegunKeeps
  <2> QED
    BY <2>1 DEF Begun
<1>4. Sound(quiet, named, K, x) /\ Grown(r, x)
  BY <1>1, <1>3, GrownNot DEF Sound
<1>5. PICK y : y = IF choice.thinking THEN ContentDelta(x, "thinking") ELSE x
  OBVIOUS
<1>6. q = IF choice.text THEN ContentDelta(y, "text") ELSE y
  BY <1>2, <1>5 DEF Told
<1>7. PICK half : half = IF choice.thinking THEN Heard(said, "thinking") ELSE said
  OBVIOUS
<1>8. PICK whole : whole = IF choice.text THEN Heard(half, "text") ELSE half
  OBVIOUS
<1>9. "thinking" \in {"thinking", "text"} /\ "text" \in {"thinking", "text"}
  OBVIOUS
<1>10. /\ Reaches(strict, c0, y, half) /\ Sound(quiet, named, K, y)
       /\ Steady(x, y) /\ MsgOf(y) = MsgOf(x) /\ Grown(r, y)
  <2>1. CASE choice.thinking
    <3>1. y = ContentDelta(x, "thinking") /\ half = Heard(said, "thinking")
      BY <1>5, <1>7, <2>1
    <3>2. /\ Reaches(strict, c0, y, Heard(said, "thinking")) /\ Sound(quiet, named, K, y)
          /\ Steady(x, y) /\ MsgOf(y) = MsgOf(x) /\ Grown(x, y)
      BY <1>3, <1>4, <1>9, <3>1, ContentKeeps
    <3> QED
      BY <1>4, <3>1, <3>2, GrownOn
  <2>2. CASE ~choice.thinking
    BY <1>3, <1>4, <1>5, <1>7, <2>2 DEF Steady
  <2> QED
    BY <2>1, <2>2
<1>11. /\ Reaches(strict, c0, q, whole) /\ Sound(quiet, named, K, q)
       /\ Steady(x, q) /\ MsgOf(q) = MsgOf(x) /\ Grown(r, q)
  <2>1. CASE choice.text
    <3>1. q = ContentDelta(y, "text") /\ whole = Heard(half, "text")
      BY <1>6, <1>8, <2>1
    <3>0. strict => MsgOf(y) = "open"
      BY <1>3, <1>10
    <3>2. /\ Reaches(strict, c0, q, Heard(half, "text")) /\ Sound(quiet, named, K, q)
          /\ Steady(y, q) /\ MsgOf(q) = MsgOf(y) /\ Grown(y, q)
      BY <1>10, <1>9, <3>0, <3>1, ContentKeeps
    <3> QED
      BY <1>10, <3>1, <3>2, GrownOn DEF Steady
  <2>2. CASE ~choice.text
    BY <1>6, <1>8, <1>10, <2>2
  <2> QED
    BY <2>1, <2>2
<1>12. whole = Hear(said, choice)
  <2>1. said[2] \in Nat /\ said[3] \in Nat /\ said = <<said[1], said[2], said[3]>>
    BY SaidNumbers
  <2>2. half = <<said[1], said[2] + (IF choice.thinking THEN 1 ELSE 0), said[3]>>
    BY <1>7, <2>1 DEF Heard
  <2>3. half[1] = said[1] /\ half[2] = said[2] + (IF choice.thinking THEN 1 ELSE 0)
        /\ half[3] = said[3]
    BY <2>2
  <2>4. half[2] \in Nat
    BY <2>1, <2>3
  <2>5. CASE choice.text
    <3>1. whole = <<half[1], half[2] + 0, half[3] + 1>>
      BY <1>8, <2>5 DEF Heard
    <3>2. half[2] + 0 = half[2]
      BY <2>4
    <3> QED
      BY <2>3, <2>5, <3>1, <3>2 DEF Hear
  <2>6. CASE ~choice.text
    <3>1. said[3] + 0 = said[3]
      BY <2>1
    <3> QED
      BY <1>8, <2>2, <2>6, <3>1 DEF Hear
  <2> QED
    BY <2>5, <2>6
<1>13. ~choice.thinking /\ ~choice.text => q.tools = r.tools
  BY <1>3, <1>5, <1>6
<1> QED
  BY <1>3, <1>11, <1>12, <1>13 DEF Steady, Ends, Telling

UpTo(calls, n) == {calls[j].index : j \in 1..n}
Holds(H, r) == \A i \in H : \E t \in 1..Len(r.tools) : r.tools[t].openAIIndex = i

\* What each fragment of a choice fits, see Admissible: a call not closed yet, or
\* a new one; when calls are to be named, one known by then or named by it.
Fits(quiet, named, K, H, r, choice) ==
  \A k \in 1..Len(choice.calls) :
    /\ quiet => \/ choice.calls[k].index \notin K \cup UpTo(choice.calls, k - 1)
                \/ /\ k = 1 /\ ~choice.thinking /\ ~choice.text
                   /\ \A t \in 1..Len(r.tools) :
                        r.tools[t].openAIIndex = choice.calls[k].index => ~r.tools[t].closed
    /\ named => \/ choice.calls[k].id /\ choice.calls[k].name
                \/ choice.calls[k].index \in H

LEMMA HoldsOn ==
  ASSUME NEW H, NEW r, NEW q, Holds(H, r), Grown(r, q)
  PROVE  Holds(H, q)
<1> SUFFICES ASSUME NEW i \in H PROVE \E t \in 1..Len(q.tools) : q.tools[t].openAIIndex = i
  BY DEF Holds
<1>1. PICK t \in 1..Len(r.tools) : r.tools[t].openAIIndex = i
  BY DEF Holds
<1>2. t \in 1..Len(q.tools) /\ q.tools[t].openAIIndex = i
  BY <1>1 DEF Grown
<1> QED
  BY <1>2

DeltaFrame(r, q) == Ends(r, q) /\ q.started = TRUE /\ Grown(r, q)

LEMMA DeltaKeeps ==
  ASSUME NEW strict \in BOOLEAN, NEW r, NEW c0, NEW said, Reaches(strict, c0, r, said),
         ~r.started => r.openKind = "none", strict => ~r.deltaSent /\ ~r.stopSent,
         NEW quiet \in BOOLEAN, NEW named \in BOOLEAN, NEW K, Sound(quiet, named, K, r),
         NEW H, Holds(H, r), NEW choice \in ChoiceType, Fits(quiet, named, K, H, r, choice),
         NEW q, q = RenderDelta(r, choice)
  PROVE  /\ Reaches(strict, c0, q, Hear(said, choice))
         /\ Sound(quiet, named, K \cup UpTo(choice.calls, Len(choice.calls)), q)
         /\ DeltaFrame(r, q)
<1> DEFINE calls == choice.calls
           m == Len(calls)
           heard == Hear(said, choice)
<1>1. calls \in Seq(CallType) /\ m \in Nat
  <2>1. calls \in Seq(CallType)
    BY DEF ChoiceType
  <2> QED
    BY <2>1
<1>2. PICK x : x = Told(r, choice)
  OBVIOUS
<1>3. PICK f : Runs("call", x, calls, m, f) /\ q = f[m]
  BY <1>2, CallsLoop
<1>4. /\ Reaches(strict, c0, x, heard) /\ Sound(quiet, named, K, x)
      /\ Ends(r, x) /\ x.started = TRUE /\ (strict => MsgOf(x) = "open") /\ Grown(r, x)
      /\ ~choice.thinking /\ ~choice.text => x.tools = r.tools
  <2>1. Reaches(strict, c0, x, heard) /\ Sound(quiet, named, K, x)
        /\ Telling(strict, r, choice, x)
    BY <1>2, ToldKeeps
  <2> HIDE DEF heard
  <2> QED
    BY <2>1 DEF Telling
<1> DEFINE P(y, n) == /\ Reaches(strict, c0, y, heard)
                      /\ Sound(quiet, named, K \cup UpTo(calls, n), y)
                      /\ Steady(x, y) /\ MsgOf(y) = MsgOf(x) /\ Grown(r, y)
           T == {n \in Nat : n <= m => P(f[n], n)}
<1> HIDE DEF heard
<1>5. 0 \in T
  <2>1. f[0] = x
    BY <1>3 DEF Runs
  <2>2. UpTo(calls, 0) = {}
    <3>1. 1..0 = {}
      OBVIOUS
    <3> QED
      BY <3>1 DEF UpTo
  <2>3. K \cup UpTo(calls, 0) = K
    BY <2>2
  <2>4. P(x, 0)
    BY <1>4, <2>3 DEF Steady
  <2> QED
    BY <2>1, <2>4
<1>6. ASSUME NEW n \in T PROVE n + 1 \in T
  <2> SUFFICES ASSUME n + 1 <= m PROVE P(f[n + 1], n + 1)
    OBVIOUS
  <2> DEFINE call == calls[n + 1]
             L == K \cup UpTo(calls, n)
  <2>1. n \in Nat /\ n + 1 \in 1..m /\ n \in 0..m /\ (n + 1) - 1 = n
    BY <1>1
  <2>2. PICK y : y = f[n]
    OBVIOUS
  <2>3. PICK z : z = f[n + 1]
    OBVIOUS
  <2>4. P(y, n)
    BY <1>1, <2>1, <2>2
  <2>5. z = ToolCallDelta(y, call)
    <3>1. f[n + 1] = Step("call", f[(n + 1) - 1], calls, n + 1)
      BY <1>3, <2>1 DEF Runs
    <3> HIDE DEF P, T, call
    <3>2. f[n + 1] = ToolCallDelta(f[(n + 1) - 1], calls[n + 1])
      BY <3>1 DEF Step
    <3> QED
      BY <2>1, <2>2, <2>3, <3>2 DEF call
  <2>6. call \in CallType
    BY <1>1, <2>1
  <2>7. Fits(quiet, named, K, H, r, choice)
    OBVIOUS
  <2>8. ASSUME quiet, NEW u \in 1..Len(y.tools), y.tools[u].openAIIndex = call.index
        PROVE  ~y.tools[u].closed
    <3>1. call.index \in L
      BY <2>4, <2>8 DEF Sound, ToolSound
    <3>2. /\ n + 1 = 1 /\ ~choice.thinking /\ ~choice.text
          /\ \A t \in 1..Len(r.tools) : r.tools[t].openAIIndex = call.index => ~r.tools[t].closed
      <4>1. UpTo(calls, (n + 1) - 1) = UpTo(calls, n)
        BY <2>1
      <4> QED
        BY <2>1, <2>7, <2>8, <3>1, <4>1 DEF Fits
    <3>3. y = x
      <4>1. n = 0
        BY <2>1, <3>2
      <4> QED
        BY <1>3, <2>2, <4>1 DEF Runs
    <3> QED
      BY <1>4, <2>8, <3>2, <3>3
  <2>9. named => \/ call.id /\ call.name
                 \/ \E u \in 1..Len(y.tools) : y.tools[u].openAIIndex = call.index
    <3>1. Holds(H, y)
      BY <2>4, HoldsOn
    <3> QED
      BY <2>1, <2>7, <3>1 DEF Fits, Holds
  <2>10. UpTo(calls, n + 1) = UpTo(calls, n) \cup {call.index}
    <3>1. 1..(n + 1) = 1..n \cup {n + 1}
      BY <2>1
    <3> QED
      BY <3>1 DEF UpTo
  <2>11. strict => MsgOf(y) = "open"
    BY <1>4, <2>4
  <2> HIDE DEF call
  <2>12. /\ Reaches(strict, c0, z, heard) /\ Sound(quiet, named, L \cup {call.index}, z)
         /\ Steady(y, z) /\ MsgOf(z) = MsgOf(y) /\ Grown(y, z)
    <3>1. quiet => \A u \in 1..Len(y.tools) :
                     y.tools[u].openAIIndex = call.index => ~y.tools[u].closed
      BY <2>8
    <3>2. Reaches(strict, c0, y, heard) /\ Sound(quiet, named, L, y)
      BY <2>4
    <3> HIDE DEF L, P
    <3> QED
      BY <2>5, <2>6, <2>9, <2>11, <3>1, <3>2, ToolCallKeeps
  <2>13. L \cup {call.index} = K \cup UpTo(calls, n + 1)
    BY <2>10
  <2>14. Grown(r, z) /\ Steady(x, z) /\ MsgOf(z) = MsgOf(x)
    BY <2>4, <2>12, GrownOn DEF Steady
  <2>15. P(z, n + 1)
    BY <2>12, <2>13, <2>14
  <2> QED
    BY <2>3, <2>15
<1>7. m \in T
  <2> HIDE DEF T
  <2>1. T \in SUBSET Nat
    BY DEF T
  <2> QED
    BY <1>1, <1>5, <1>6, <2>1, Counting
<1>8. P(f[m], m)
  <2> HIDE DEF P, m
  <2> QED
    BY <1>1, <1>7
<1> QED
  BY <1>3, <1>4, <1>8 DEF heard, Steady, Ends, DeltaFrame

\* Neither a finish reason nor a usage report is an event.
Noted(r, reason, usage, q) == q = [r EXCEPT !.finishReason = reason, !.hasUsage = usage]

LEMMA FieldNoted ==
  ASSUME NEW strict \in BOOLEAN, NEW r, NEW c0, NEW said, Reaches(strict, c0, r, said),
         NEW reason \in FinishReasons, reason = "tool_calls" => r.sawToolCall,
         NEW usage \in BOOLEAN, NEW q, Noted(r, reason, usage, q)
  PROVE  Reaches(strict, c0, q, said)
<1> SUFFICES ASSUME NEW c \in Client, Rendering(strict, r, c0, c), Hears(c) = said
             PROVE  Reaches(strict, c0, q, said)
  BY DEF Reaches
<1>1. r \in RendererSet /\ OneBlock(r)
  BY DEF Rendering, Shape
<1>2. /\ q.tools = r.tools /\ q.openKind = r.openKind /\ q.openIndex = r.openIndex
      /\ q.openTool = r.openTool /\ q.nextIndex = r.nextIndex
      /\ q.sawToolCall = r.sawToolCall /\ q.finishReason = reason
      /\ q.deltaSent = r.deltaSent /\ q.stopSent = r.stopSent /\ q.started = r.started
      /\ q.out = r.out
  BY <1>1 DEF RendererSet, Noted
<1>3. q \in RendererSet
  BY <1>1 DEF RendererSet, Noted
<1>4. StartedTools(q) = StartedTools(r) /\ MsgOf(q) = MsgOf(r) /\ OneBlock(q)
  BY <1>1, <1>2 DEF StartedTools, MsgOf, OneBlock
<1>5. Shape(q)
  BY <1>2, <1>3, <1>4 DEF Shape, Rendering
<1>6. Agrees(strict, q, c)
  BY <1>2, <1>4 DEF Agrees, Rendering
<1> QED
  BY <1>2, <1>5, <1>6 DEF Rendering, Reaches

LEMMA ReasonNoted ==
  ASSUME NEW strict \in BOOLEAN, NEW r, NEW c0, NEW said, Reaches(strict, c0, r, said),
         NEW reason \in FinishReasons, reason = "tool_calls" => r.sawToolCall,
         NEW q, q = [r EXCEPT !.finishReason = reason]
  PROVE  /\ Reaches(strict, c0, q, said) /\ q.tools = r.tools /\ Steady(r, q)
         /\ q.openKind = r.openKind
<1>1. r \in RendererSet
  BY DEF Reaches, Rendering, Shape
<1>2. r.hasUsage \in BOOLEAN
  BY <1>1 DEF RendererSet
<1>3. Noted(r, reason, r.hasUsage, q)
  BY <1>1 DEF RendererSet, Noted
<1>4. Reaches(strict, c0, q, said)
  BY <1>2, <1>3, FieldNoted
<1>5. /\ q.tools = r.tools /\ q.openKind = r.openKind /\ q.hasUsage = r.hasUsage
      /\ q.deltaSent = r.deltaSent /\ q.stopSent = r.stopSent /\ q.started = r.started
  BY <1>1 DEF RendererSet
<1> QED
  BY <1>4, <1>5 DEF Steady

LEMMA ReasonNormal ==
  ASSUME NEW reason \in FinishReasons, reason # "none", NEW saw \in BOOLEAN,
         NEW valid \in BOOLEAN, NEW normal, normal = NormalizeFinishReason(reason, saw, valid)
  PROVE  normal \in FinishReasons /\ (normal = "tool_calls" => saw) /\ normal # "none"
<1>1. CASE reason \in {"length", "content_filter"}
  BY <1>1 DEF NormalizeFinishReason, FinishReasons
<1>2. CASE reason \notin {"length", "content_filter"} /\ saw
  <2>1. normal = IF valid THEN "tool_calls" ELSE "length"
    BY <1>2 DEF NormalizeFinishReason
  <2> QED
    BY <1>2, <2>1 DEF FinishReasons
<1>3. CASE reason = "tool_calls" /\ ~saw
  <2>1. normal = "stop"
    BY <1>3 DEF NormalizeFinishReason
  <2> QED
    BY <2>1 DEF FinishReasons
<1>4. CASE reason = "stop" /\ ~saw
  <2>1. normal = "stop"
    BY <1>4 DEF NormalizeFinishReason
  <2> QED
    BY <2>1 DEF FinishReasons
<1> QED
  BY <1>1, <1>2, <1>3, <1>4 DEF FinishReasons

\* What a choice, and a chunk of them, leaves: the message has begun with the
\* first delta, and no block is open before.
ChoiceFrame(r, delta, q) ==
  /\ Ends(r, q) /\ Grown(r, q)
  /\ r.started \/ delta => q.started
  /\ ~q.started => q.openKind = "none"

LEMMA ChoiceKeeps ==
  ASSUME NEW strict \in BOOLEAN, NEW r, NEW c0, NEW said, Reaches(strict, c0, r, said),
         ~r.started => r.openKind = "none", strict => ~r.deltaSent /\ ~r.stopSent,
         NEW quiet \in BOOLEAN, NEW named \in BOOLEAN, NEW K, Sound(quiet, named, K, r),
         NEW H, Holds(H, r), NEW choice \in ChoiceType, Fits(quiet, named, K, H, r, choice),
         choice.thinking \/ choice.text \/ choice.calls # <<>> => choice.delta,
         NEW q, q = RenderChoice(r, choice)
  PROVE  /\ Reaches(strict, c0, q, Hear(said, choice))
         /\ Sound(quiet, named, K \cup UpTo(choice.calls, Len(choice.calls)), q)
         /\ ChoiceFrame(r, choice.delta, q)
<1> DEFINE heard == Hear(said, choice)
           L == K \cup UpTo(choice.calls, Len(choice.calls))
<1>1. r \in RendererSet
  BY DEF Reaches, Rendering, Shape
<1>2. PICK x : x = IF choice.delta THEN RenderDelta(r, choice) ELSE r
  OBVIOUS
<1>3. Reaches(strict, c0, x, heard) /\ Sound(quiet, named, L, x)
      /\ ChoiceFrame(r, choice.delta, x)
  <2>1. CASE choice.delta
    <3>1. x = RenderDelta(r, choice)
      BY <1>2, <2>1
    <3>2. Reaches(strict, c0, x, heard)
      BY <3>1, DeltaKeeps
    <3>3. Sound(quiet, named, L, x)
      BY <3>1, DeltaKeeps
    <3>4. DeltaFrame(r, x)
      BY <3>1, <3>2, <3>3, DeltaKeeps
    <3> HIDE DEF heard, L
    <3> QED
      BY <3>2, <3>3, <3>4 DEF ChoiceFrame, DeltaFrame
  <2>2. CASE ~choice.delta
    <3>1. x = r /\ ~choice.thinking /\ ~choice.text /\ choice.calls = <<>>
      BY <1>2, <2>2
    <3>2. UpTo(choice.calls, Len(choice.calls)) = {}
      <4>1. 1..Len(choice.calls) = {}
        BY <3>1
      <4> QED
        BY <4>1 DEF UpTo
    <3>3. heard = said
      <4>1. said[2] \in Nat /\ said[3] \in Nat /\ said = <<said[1], said[2], said[3]>>
        BY SaidNumbers
      <4>2. said[2] + 0 = said[2] /\ said[3] + 0 = said[3]
        BY <4>1
      <4>3. heard = <<said[1], said[2] + 0, said[3] + 0>>
        BY <3>1 DEF Hear
      <4> QED
        BY <4>1, <4>2, <4>3
    <3>4. L = K
      BY <3>2
    <3>5. Grown(r, x)
      BY <1>1, <3>1, GrownNot
    <3> HIDE DEF heard, L
    <3> QED
      BY <2>2, <3>1, <3>3, <3>4, <3>5 DEF ChoiceFrame, Ends
  <2> QED
    BY <2>1, <2>2
<1> HIDE DEF heard, L
<1>4. CASE choice.finish = "none"
  <2>1. q = x
    BY <1>2, <1>4 DEF RenderChoice
  <2> QED
    BY <1>3, <2>1 DEF heard, L
<1>5. CASE choice.finish # "none"
  <2>1. PICK reason : reason = NormalizeFinishReason(choice.finish, x.sawToolCall,
                                                     ToolArgumentsValid(x))
    OBVIOUS
  <2>2. PICK y : y = [x EXCEPT !.finishReason = reason]
    OBVIOUS
  <2>3. q = CloseOpenBlock(y)
    BY <1>2, <1>5, <2>1, <2>2 DEF RenderChoice
  <2>4. reason \in FinishReasons /\ (reason = "tool_calls" => x.sawToolCall)
    <3>1. choice.finish \in FinishReasons
      BY DEF ChoiceType
    <3>2. x.sawToolCall \in BOOLEAN
      BY <1>3 DEF Reaches, Rendering, Shape, RendererSet
    <3>3. ToolArgumentsValid(x) \in BOOLEAN
      BY DEF ToolArgumentsValid
    <3> QED
      BY <1>5, <2>1, <3>1, <3>2, <3>3, ReasonNormal
  <2>5. /\ Reaches(strict, c0, y, heard) /\ y.tools = x.tools /\ Steady(x, y)
        /\ y.openKind = x.openKind
    BY <1>3, <2>2, <2>4, ReasonNoted
  <2>6. Sound(quiet, named, L, y)
    BY <1>3, <2>5 DEF Sound
  <2>7. /\ Reaches(strict, c0, q, heard) /\ Sound(quiet, named, L, q) /\ Steady(y, q)
        /\ q.openKind = "none" /\ Grown(y, q)
    BY <2>3, <2>5, <2>6, CloseOpenKeeps
  <2>8. Grown(r, q)
    <3>1. x \in RendererSet
      BY <1>3 DEF Reaches, Rendering, Shape
    <3>2. Grown(x, y)
      BY <2>5, <3>1, GrownNot
    <3>3. Grown(r, y)
      BY <1>3, <3>2, GrownOn DEF ChoiceFrame
    <3> QED
      BY <2>7, <3>3, GrownOn
  <2>9. ChoiceFrame(r, choice.delta, q)
    BY <1>3, <2>5, <2>7, <2>8 DEF ChoiceFrame, Ends, Steady
  <2> QED
    BY <2>7, <2>9 DEF heard, L
<1> QED
  BY <1>4, <1>5

-----------------------------------------------------------------------------
(* A chunk, choice by choice. *)

NumChoices(chunk) == Len(chunk.choices)
Spoken(chunk, n) == {j \in 1..n : chunk.choices[j].text}
Thought(chunk, n) == {j \in 1..n : chunk.choices[j].thinking}
HearUpTo(said, chunk, n) ==
  <<said[1], said[2] + Cardinality(Thought(chunk, n)), said[3] + Cardinality(Spoken(chunk, n))>>

IndexesOf(choice) == UpTo(choice.calls, Len(choice.calls))
IndexesUpTo(chunk, n) == UNION {IndexesOf(chunk.choices[j]) : j \in 1..n}

Proper(chunk) ==
  \A c \in 1..NumChoices(chunk) :
    LET choice == chunk.choices[c]
    IN choice.thinking \/ choice.text \/ choice.calls # <<>> => choice.delta

\* Fits, for all the fragments of a chunk.
ChunkFits(quiet, named, K, H, r, chunk) ==
  \A f \in Fragments(chunk) :
    /\ quiet => \/ CallAt(chunk, f).index \notin K \cup Indexes(chunk, Before(chunk, f))
                \/ /\ f = <<1, 1>> /\ ~HasContent(chunk)
                   /\ \A t \in 1..Len(r.tools) :
                        r.tools[t].openAIIndex = CallAt(chunk, f).index => ~r.tools[t].closed
    /\ named => \/ CallAt(chunk, f).id /\ CallAt(chunk, f).name
                \/ CallAt(chunk, f).index \in H

LEMMA ChunkTyped ==
  ASSUME NEW chunk \in ChunkType
  PROVE  /\ NumChoices(chunk) \in Nat /\ DOMAIN chunk.choices = 1..NumChoices(chunk)
         /\ \A c \in 1..NumChoices(chunk) :
              /\ chunk.choices[c] \in ChoiceType
              /\ chunk.choices[c].calls \in Seq(CallType)
              /\ Len(chunk.choices[c].calls) \in Nat
              /\ DOMAIN chunk.choices[c].calls = 1..Len(chunk.choices[c].calls)
<1>1. chunk.choices \in Seq(ChoiceType)
  BY DEF ChunkType
<1>2. \A choice \in ChoiceType : choice.calls \in Seq(CallType)
  BY DEF ChoiceType
<1>3. \A calls \in Seq(CallType) : Len(calls) \in Nat /\ DOMAIN calls = 1..Len(calls)
  OBVIOUS
<1>4. NumChoices(chunk) \in Nat /\ DOMAIN chunk.choices = 1..NumChoices(chunk)
  BY <1>1 DEF NumChoices
<1>5. \A c \in 1..NumChoices(chunk) : chunk.choices[c] \in ChoiceType
  BY <1>1 DEF NumChoices
<1> QED
  BY <1>2, <1>3, <1>4, <1>5

LEMMA FitsOne ==
  ASSUME NEW quiet \in BOOLEAN, NEW named \in BOOLEAN, NEW K, NEW H, NEW r,
         NEW chunk \in ChunkType, ChunkFits(quiet, named, K, H, r, chunk),
         NEW c \in 1..NumChoices(chunk), NEW y, c = 1 => y.tools = r.tools
  PROVE  Fits(quiet, named, K \cup IndexesUpTo(chunk, c - 1), H, y, chunk.choices[c])
<1> DEFINE choice == chunk.choices[c]
           calls == choice.calls
           L == K \cup IndexesUpTo(chunk, c - 1)
<1>1. /\ NumChoices(chunk) \in Nat /\ DOMAIN chunk.choices = 1..NumChoices(chunk)
      /\ \A j \in 1..NumChoices(chunk) :
           /\ chunk.choices[j] \in ChoiceType
           /\ chunk.choices[j].calls \in Seq(CallType)
           /\ Len(chunk.choices[j].calls) \in Nat
           /\ DOMAIN chunk.choices[j].calls = 1..Len(chunk.choices[j].calls)
  BY ChunkTyped
<1> SUFFICES ASSUME NEW k \in 1..Len(calls)
             PROVE  /\ quiet => \/ calls[k].index \notin L \cup UpTo(calls, k - 1)
                                \/ /\ k = 1 /\ ~choice.thinking /\ ~choice.text
                                   /\ \A t \in 1..Len(y.tools) :
                                        y.tools[t].openAIIndex = calls[k].index
                                          => ~y.tools[t].closed
                    /\ named => (calls[k].id /\ calls[k].name) \/ calls[k].index \in H
  BY DEF Fits
<1> DEFINE f == <<c, k>>
<1>2. f \in Fragments(chunk) /\ CallAt(chunk, f) = calls[k]
  <2>1. c \in DOMAIN chunk.choices /\ k \in DOMAIN chunk.choices[c].calls
    BY <1>1
  <2>2. f[1] = c /\ f[2] = k
    OBVIOUS
  <2> QED
    BY <2>1, <2>2 DEF Fragments, CallAt
<1>3. IndexesUpTo(chunk, c - 1) \subseteq Indexes(chunk, Before(chunk, f))
  <2> SUFFICES ASSUME NEW j \in 1..(c - 1), NEW i \in IndexesOf(chunk.choices[j])
               PROVE  i \in Indexes(chunk, Before(chunk, f))
    BY DEF IndexesUpTo
  <2>1. PICK l \in 1..Len(chunk.choices[j].calls) : i = chunk.choices[j].calls[l].index
    BY DEF IndexesOf, UpTo
  <2> DEFINE g == <<j, l>>
  <2>2. j \in 1..NumChoices(chunk) /\ j < c
    BY <1>1
  <2>3. j \in DOMAIN chunk.choices /\ l \in DOMAIN chunk.choices[j].calls
    BY <1>1, <2>2
  <2>4. g[1] = j /\ g[2] = l /\ f[1] = c
    OBVIOUS
  <2>5. g \in Before(chunk, f)
    BY <2>2, <2>3, <2>4 DEF Before, Fragments
  <2>6. CallAt(chunk, g).index = i
    BY <2>1, <2>4 DEF CallAt
  <2> QED
    BY <2>5, <2>6 DEF Indexes
<1>4. UpTo(calls, k - 1) \subseteq Indexes(chunk, Before(chunk, f))
  <2> SUFFICES ASSUME NEW l \in 1..(k - 1)
               PROVE  calls[l].index \in Indexes(chunk, Before(chunk, f))
    BY DEF UpTo
  <2> DEFINE g == <<c, l>>
  <2>1. c \in DOMAIN chunk.choices /\ l \in DOMAIN chunk.choices[c].calls /\ l < k
    BY <1>1
  <2>2. g[1] = c /\ g[2] = l /\ f[1] = c /\ f[2] = k
    OBVIOUS
  <2>3. g \in Before(chunk, f)
    BY <2>1, <2>2 DEF Before, Fragments
  <2>4. CallAt(chunk, g).index = calls[l].index
    BY <2>2 DEF CallAt
  <2> QED
    BY <2>3, <2>4 DEF Indexes
<1>5. HasContent(chunk) \/ (~choice.thinking /\ ~choice.text)
  BY <1>1 DEF HasContent
<1>6. f = <<1, 1>> => c = 1 /\ k = 1
  OBVIOUS
<1> HIDE DEF f
<1>7. /\ quiet => \/ calls[k].index \notin K \cup Indexes(chunk, Before(chunk, f))
                  \/ /\ f = <<1, 1>> /\ ~HasContent(chunk)
                     /\ \A t \in 1..Len(r.tools) :
                          r.tools[t].openAIIndex = calls[k].index => ~r.tools[t].closed
      /\ named => (calls[k].id /\ calls[k].name) \/ calls[k].index \in H
  <2> HIDE DEF calls
  <2> QED
    BY <1>2 DEF ChunkFits
<1> QED
  BY <1>3, <1>4, <1>5, <1>6, <1>7

LEMMA OneMoreCounted ==
  ASSUME NEW n \in Nat, NEW Q \in SUBSET (1..n)
  PROVE  Cardinality(Q) \in Nat /\ Cardinality(Q \cup {n + 1}) = Cardinality(Q) + 1
<1>1. IsFiniteSet(Q)
  <2>1. IsFiniteSet(1..n)
    BY FS_Interval
  <2> QED
    BY <2>1, FS_Subset
<1>2. Cardinality(Q) \in Nat
  BY <1>1, FS_CardinalityType
<1>3. n + 1 \notin Q
  OBVIOUS
<1> QED
  BY <1>1, <1>2, <1>3, FS_AddElement

LEMMA HearOneMore ==
  ASSUME NEW said, NEW chunk, NEW n \in Nat, chunk.choices[n + 1] \in ChoiceType,
         said[2] \in Nat, said[3] \in Nat
  PROVE  Hear(HearUpTo(said, chunk, n), chunk.choices[n + 1]) = HearUpTo(said, chunk, n + 1)
<1> DEFINE thinking == chunk.choices[n + 1].thinking
           text == chunk.choices[n + 1].text
<1>1. thinking \in BOOLEAN /\ text \in BOOLEAN
  BY DEF ChoiceType
<1>2. 1..(n + 1) = 1..n \cup {n + 1}
  OBVIOUS
<1>3. PICK Q : Q = Thought(chunk, n)
  OBVIOUS
<1>4. PICK S : S = Spoken(chunk, n)
  OBVIOUS
<1>5. Q \in SUBSET (1..n) /\ Thought(chunk, n + 1) = IF thinking THEN Q \cup {n + 1} ELSE Q
  BY <1>2, <1>3 DEF Thought
<1>6. S \in SUBSET (1..n) /\ Spoken(chunk, n + 1) = IF text THEN S \cup {n + 1} ELSE S
  BY <1>2, <1>4 DEF Spoken
<1> HIDE DEF thinking, text
<1>7. Cardinality(Q) \in Nat /\ Cardinality(Q \cup {n + 1}) = Cardinality(Q) + 1
  BY <1>5, OneMoreCounted
<1>8. Cardinality(S) \in Nat /\ Cardinality(S \cup {n + 1}) = Cardinality(S) + 1
  BY <1>6, OneMoreCounted
<1>9. Cardinality(Thought(chunk, n + 1)) = Cardinality(Q) + (IF thinking THEN 1 ELSE 0)
  BY <1>5, <1>7
<1>10. Cardinality(Spoken(chunk, n + 1)) = Cardinality(S) + (IF text THEN 1 ELSE 0)
  BY <1>6, <1>8
<1>11. HearUpTo(said, chunk, n) = <<said[1], said[2] + Cardinality(Q), said[3] + Cardinality(S)>>
  BY <1>3, <1>4 DEF HearUpTo
<1> QED
  BY <1>7, <1>8, <1>9, <1>10, <1>11 DEF Hear, HearUpTo, thinking, text

ChunkFrame(r, chunk, q) ==
  /\ q.hasUsage = (r.hasUsage \/ chunk.usage)
  /\ q.deltaSent = r.deltaSent /\ q.stopSent = r.stopSent
  /\ r.started \/ (\E c \in 1..NumChoices(chunk) : chunk.choices[c].delta) => q.started
  /\ ~q.started => q.openKind = "none"

Conveyed(strict, c0, heard, quiet, named, q) ==
  \E K : Reaches(strict, c0, q, heard) /\ Sound(quiet, named, K, q)

LEMMA ChunkKeeps ==
  ASSUME NEW strict \in BOOLEAN, NEW r, NEW c0, NEW said, Reaches(strict, c0, r, said),
         ~r.started => r.openKind = "none", strict => ~r.deltaSent /\ ~r.stopSent,
         NEW quiet \in BOOLEAN, NEW named \in BOOLEAN, NEW K, Sound(quiet, named, K, r),
         NEW H, Holds(H, r), NEW chunk \in ChunkType, Proper(chunk),
         ChunkFits(quiet, named, K, H, r, chunk),
         NEW f, Runs("choice", Counted(r, chunk), chunk.choices, NumChoices(chunk), f),
         NEW q, q = f[NumChoices(chunk)]
  PROVE  /\ Conveyed(strict, c0, HearUpTo(said, chunk, NumChoices(chunk)), quiet, named, q)
         /\ ChunkFrame(r, chunk, q)
<1> DEFINE m == NumChoices(chunk)
           items == chunk.choices
<1>1. m \in Nat /\ \A c \in 1..m : items[c] \in ChoiceType
  BY ChunkTyped
<1>2. r \in RendererSet /\ Shape(r)
  BY DEF Reaches, Rendering, Shape
<1>3. PICK x : x = Counted(r, chunk)
  OBVIOUS
<1>4. /\ Reaches(strict, c0, x, said) /\ x.tools = r.tools /\ x.openKind = r.openKind
      /\ x.hasUsage = (r.hasUsage \/ chunk.usage)
      /\ x.deltaSent = r.deltaSent /\ x.stopSent = r.stopSent /\ x.started = r.started
  <2>1. PICK usage : usage = (r.hasUsage \/ chunk.usage)
    OBVIOUS
  <2>2. r.finishReason \in FinishReasons /\ (r.finishReason = "tool_calls" => r.sawToolCall)
        /\ usage \in BOOLEAN
    BY <1>2, <2>1 DEF Shape, RendererSet
  <2>3. Noted(r, r.finishReason, usage, x)
    BY <1>2, <1>3, <2>1 DEF Noted, Counted, RendererSet
  <2>4. Reaches(strict, c0, x, said)
    BY <2>2, <2>3, FieldNoted
  <2>5. /\ x.tools = r.tools /\ x.openKind = r.openKind /\ x.hasUsage = usage
        /\ x.deltaSent = r.deltaSent /\ x.stopSent = r.stopSent /\ x.started = r.started
    BY <1>2, <2>3 DEF Noted, RendererSet
  <2> QED
    BY <2>1, <2>4, <2>5
<1> DEFINE P(y, n) == /\ Reaches(strict, c0, y, HearUpTo(said, chunk, n))
                      /\ Sound(quiet, named, K \cup IndexesUpTo(chunk, n), y)
                      /\ Ends(x, y) /\ Grown(x, y) /\ (~y.started => y.openKind = "none")
                      /\ x.started \/ (\E c \in 1..n : items[c].delta) => y.started
           T == {n \in Nat : n <= m => P(f[n], n)}
<1>5. said[2] \in Nat /\ said[3] \in Nat /\ said = <<said[1], said[2], said[3]>>
  BY SaidNumbers
<1>6. f[0] = x
  BY <1>3 DEF Runs
<1>7. 0 \in T
  <2>1. 1..0 = {}
    OBVIOUS
  <2>2. IndexesUpTo(chunk, 0) = {} /\ Thought(chunk, 0) = {} /\ Spoken(chunk, 0) = {}
    BY <2>1 DEF IndexesUpTo, Thought, Spoken
  <2>3. HearUpTo(said, chunk, 0) = said
    <3>1. Cardinality({}) = 0
      BY FS_EmptySet
    <3>2. said[2] + 0 = said[2] /\ said[3] + 0 = said[3]
      BY <1>5
    <3> QED
      BY <1>5, <2>2, <3>1, <3>2 DEF HearUpTo
  <2>4. K \cup IndexesUpTo(chunk, 0) = K
    BY <2>2
  <2>5. Sound(quiet, named, K, x)
    BY <1>4 DEF Sound
  <2>6. Grown(x, x)
    <3>1. x \in RendererSet
      BY <1>4 DEF Reaches, Rendering, Shape
    <3> QED
      BY <3>1, GrownNot
  <2>7. P(x, 0)
    BY <1>4, <2>1, <2>3, <2>4, <2>5, <2>6 DEF Ends
  <2> HIDE DEF P
  <2> QED
    BY <1>6, <2>7
<1>8. ASSUME NEW n \in T PROVE n + 1 \in T
  <2> SUFFICES ASSUME n + 1 <= m PROVE P(f[n + 1], n + 1)
    OBVIOUS
  <2> DEFINE choice == items[n + 1]
             L == K \cup IndexesUpTo(chunk, n)
             heard == HearUpTo(said, chunk, n)
  <2>1. n \in Nat /\ n + 1 \in 1..m /\ n \in 0..m /\ (n + 1) - 1 = n /\ n <= m
    BY <1>1
  <2>2. PICK y : y = f[n]
    OBVIOUS
  <2>3. PICK z : z = f[n + 1]
    OBVIOUS
  <2>4. P(y, n)
    <3> HIDE DEF P
    <3> QED
      BY <2>1, <2>2
  <2>5. z = RenderChoice(y, choice)
    <3>1. f[n + 1] = Step("choice", f[(n + 1) - 1], items, n + 1)
      BY <2>1 DEF Runs
    <3> HIDE DEF P, T, choice, items
    <3>2. f[n + 1] = RenderChoice(f[(n + 1) - 1], items[n + 1])
      BY <3>1 DEF Step
    <3> QED
      BY <2>1, <2>2, <2>3, <3>2 DEF choice
  <2>6. choice \in ChoiceType
    BY <1>1, <2>1
  <2>7. choice.thinking \/ choice.text \/ choice.calls # <<>> => choice.delta
    BY <2>1 DEF Proper
  <2>8. Holds(H, y)
    <3>1. Holds(H, x)
      BY <1>4 DEF Holds
    <3> QED
      BY <2>4, <3>1, HoldsOn
  <2>9. Fits(quiet, named, L, H, y, choice)
    <3>1. n + 1 = 1 => y.tools = r.tools
      <4>1. n + 1 = 1 => n = 0
        BY <2>1
      <4> QED
        BY <1>4, <1>6, <2>2, <4>1
    <3>2. Fits(quiet, named, K \cup IndexesUpTo(chunk, (n + 1) - 1), H, y, chunk.choices[n + 1])
      BY <2>1, <3>1, FitsOne
    <3> QED
      BY <2>1, <3>2
  <2>10. strict => ~y.deltaSent /\ ~y.stopSent
    BY <1>4, <2>4 DEF Ends
  <2>11. Reaches(strict, c0, y, heard) /\ Sound(quiet, named, L, y)
         /\ (~y.started => y.openKind = "none")
    BY <2>4
  <2> HIDE DEF choice, L, heard
  <2>12. Reaches(strict, c0, z, Hear(heard, choice))
    BY <2>5, <2>6, <2>7, <2>8, <2>9, <2>10, <2>11, ChoiceKeeps
  <2>13. Sound(quiet, named, L \cup UpTo(choice.calls, Len(choice.calls)), z)
    BY <2>5, <2>6, <2>7, <2>8, <2>9, <2>10, <2>11, ChoiceKeeps
  <2>14. ChoiceFrame(y, choice.delta, z)
    BY <2>5, <2>6, <2>7, <2>8, <2>9, <2>10, <2>11, <2>12, <2>13, ChoiceKeeps
  <2>15. Hear(heard, choice) = HearUpTo(said, chunk, n + 1)
    BY <1>5, <2>1, <2>6, HearOneMore DEF heard, choice
  <2>16. 1..(n + 1) = 1..n \cup {n + 1}
    BY <2>1
  <2>17. L \cup UpTo(choice.calls, Len(choice.calls)) = K \cup IndexesUpTo(chunk, n + 1)
    BY <2>16 DEF L, IndexesUpTo, IndexesOf, choice
  <2>18. Ends(x, z) /\ Grown(x, z) /\ (~z.started => z.openKind = "none")
    BY <2>4, <2>14, GrownOn DEF ChoiceFrame, Ends
  <2>19. x.started \/ (\E c \in 1..(n + 1) : items[c].delta) => z.started
    BY <2>4, <2>14, <2>16 DEF ChoiceFrame, choice
  <2>20. P(z, n + 1)
    BY <2>12, <2>13, <2>15, <2>17, <2>18, <2>19
  <2> HIDE DEF P
  <2> QED
    BY <2>3, <2>20
<1>9. m \in T
  <2> HIDE DEF T
  <2>1. T \in SUBSET Nat
    BY DEF T
  <2> QED
    BY <1>1, <1>7, <1>8, <2>1, Counting
<1>10. P(f[m], m)
  <2> HIDE DEF P, m
  <2> QED
    BY <1>1, <1>9
<1>11. P(q, m)
  <2> HIDE DEF P
  <2> QED
    BY <1>10
<1> QED
  BY <1>4, <1>11 DEF Conveyed, ChunkFrame, Ends

\* What feed leaves, and what the client has been told when it has read all of it.
Fed(strict, c0, said, quiet, named, r, chunk, q) ==
  /\ \E reason : /\ Reaches(strict, c0, q, <<reason, said[2] + Thoughts(chunk),
                                            said[3] + Texts(chunk)>>)
                 /\ quiet /\ reason = "tool_use" => ToolArgumentsValid(q)
                 /\ ~r.deltaSent /\ q.deltaSent => reason = EndingReason(q)
  /\ \E K : Sound(quiet, named, K, q)
  /\ q.hasUsage = (r.hasUsage \/ chunk.usage)
  /\ q.deltaSent <=> q.stopSent
  /\ q.deltaSent => r.deltaSent \/ q.hasUsage
  /\ r.started \/ (\E c \in 1..NumChoices(chunk) : chunk.choices[c].delta) => q.started
  /\ ~q.started => q.openKind = "none"

LEMMA FeedKeeps ==
  ASSUME NEW strict \in BOOLEAN, NEW r, NEW c0, NEW said, Reaches(strict, c0, r, said),
         ~r.started => r.openKind = "none", r.deltaSent <=> r.stopSent,
         NEW quiet \in BOOLEAN, NEW named \in BOOLEAN, NEW K, Sound(quiet, named, K, r),
         NEW H, Holds(H, r), NEW chunk \in ChunkType, Proper(chunk), ~chunk.error,
         ChunkFits(quiet, named, K, H, r, chunk),
         strict => /\ ~r.deltaSent /\ ~r.hasUsage
                   /\ chunk.usage =>
                        r.started \/ \E c \in 1..NumChoices(chunk) : chunk.choices[c].delta,
         quiet => ~r.deltaSent,
         NEW q, q = Feed(r, chunk)
  PROVE  Fed(strict, c0, said, quiet, named, r, chunk, q)
<1> DEFINE heard == HearUpTo(said, chunk, NumChoices(chunk))
           th == said[2] + Thoughts(chunk)
           tx == said[3] + Texts(chunk)
<1>1. PICK f : /\ Runs("choice", Counted(r, chunk), chunk.choices, NumChoices(chunk), f)
               /\ q = EndOfChunk(f[NumChoices(chunk)], chunk)
  BY ChoicesLoop DEF NumChoices
<1>2. PICK y : y = f[NumChoices(chunk)]
  OBVIOUS
<1>3. Conveyed(strict, c0, heard, quiet, named, y)
  BY <1>1, <1>2, ChunkKeeps
<1>4. ChunkFrame(r, chunk, y)
  BY <1>1, <1>2, <1>3, ChunkKeeps
<1>5. heard = <<said[1], th, tx>>
  <2>1. DOMAIN chunk.choices = 1..NumChoices(chunk)
    BY ChunkTyped
  <2> QED
    BY <2>1 DEF HearUpTo, Thoughts, Texts, Thought, Spoken
<1> HIDE DEF heard, th, tx
<1>6. PICK L : Reaches(strict, c0, y, heard) /\ Sound(quiet, named, L, y)
  BY <1>3 DEF Conveyed
<1>7. y \in RendererSet
  BY <1>6 DEF Reaches, Rendering, Shape
<1>8. ~y.deltaSent => said[1] = "none"
  <2>1. PICK c \in Client : Rendering(strict, y, c0, c) /\ Hears(c) = heard
    BY <1>6 DEF Reaches
  <2>2. heard[1] = c.reason
    BY <2>1 DEF Hears
  <2> QED
    BY <1>5, <2>1, <2>2 DEF Rendering, Agrees
<1>9. CASE ~GenerationOver(y, chunk)
  <2>1. q = y
    BY <1>1, <1>2, <1>9 DEF EndOfChunk
  <2>2. quiet /\ said[1] = "tool_use" => ToolArgumentsValid(q)
    BY <1>4, <1>8 DEF ChunkFrame
  <2>4. q.deltaSent = r.deltaSent
    BY <1>4, <2>1 DEF ChunkFrame
  <2>3. Reaches(strict, c0, q, <<said[1], th, tx>>)
    BY <1>5, <1>6, <2>1
  <2> QED
    BY <1>4, <1>6, <2>1, <2>2, <2>3, <2>4 DEF Fed, ChunkFrame, th, tx
<1>10. CASE GenerationOver(y, chunk)
  <2>1. ~y.deltaSent /\ y.hasUsage
    BY <1>10 DEF GenerationOver
  <2>2. PICK z : z = CloseOpenBlock(y)
    OBVIOUS
  <2>3. /\ Reaches(strict, c0, z, heard) /\ Sound(quiet, named, L, z) /\ Steady(y, z)
        /\ z.openKind = "none"
    BY <1>6, <2>2, CloseOpenKeeps
  <2>4. q = MessageStop(MessageDelta(z))
    BY <1>1, <1>2, <1>10, <2>2 DEF EndOfChunk
  <2>5. ~z.deltaSent /\ ~z.stopSent /\ (strict => z.started) /\ z.hasUsage
    BY <1>4, <2>1, <2>3 DEF ChunkFrame, Steady
  <2>6. z.deltaSent \in BOOLEAN /\ z.stopSent \in BOOLEAN /\ Shape(z)
    BY <2>3 DEF Reaches, Rendering, Shape, RendererSet
  <2> DEFINE reason == EndReason(z, heard)
  <2>7. Reaches(strict, c0, q, <<reason, th, tx>>)
    BY <1>5, <2>3, <2>4, <2>5, <2>6, EndRenders
  <2>8. KeptFrame(z, q) /\ q.deltaSent = TRUE /\ q.stopSent = TRUE
    <3>1. EndFrame(z, q)
      BY <1>5, <2>3, <2>4, <2>5, <2>6, <2>7, EndRenders
    <3> QED
      BY <3>1 DEF EndFrame
  <2>9. reason = "tool_use" => ToolArgumentsValid(q)
    <3>1. reason = EndingReason(z)
      BY <2>5 DEF EndReason
    <3>2. EndingReason(z) = "tool_use" => ToolArgumentsValid(z)
      BY <2>6, EndingReasonSound
    <3>3. ToolArgumentsValid(z) => ToolArgumentsValid(q)
      BY <2>8 DEF KeptFrame, ToolArgumentsValid
    <3> QED
      BY <3>1, <3>2, <3>3
  <2>13. reason = EndingReason(q)
    <3>1. reason = EndingReason(z)
      BY <2>5 DEF EndReason
    <3>2. EndingReason(z) = EndingReason(q)
      BY <2>8 DEF KeptFrame, EndingReason, ToolArgumentsValid
    <3> QED
      BY <3>1, <3>2
  <2> HIDE DEF reason
  <2>10. Sound(quiet, named, L, q)
    BY <2>3, <2>8 DEF Sound, KeptFrame
  <2>11. q.hasUsage = (r.hasUsage \/ chunk.usage)
    BY <1>4, <2>3, <2>8 DEF ChunkFrame, Steady, KeptFrame
  <2>12. /\ r.started \/ (\E c \in 1..NumChoices(chunk) : chunk.choices[c].delta) => q.started
         /\ q.openKind = "none" /\ q.hasUsage
    BY <1>4, <2>1, <2>3, <2>8 DEF ChunkFrame, Steady, KeptFrame
  <2> QED
    BY <2>7, <2>8, <2>9, <2>10, <2>11, <2>12, <2>13 DEF Fed, th, tx
<1> QED
  BY <1>9, <1>10

-----------------------------------------------------------------------------
(* The end of the upstream. *)

LEMMA FinishFrameOn ==
  ASSUME NEW r, NEW x, NEW q, FinishFrame(r, x), FinishFrame(x, q)
  PROVE  FinishFrame(r, q)
<1>1. /\ q.openKind = "none" /\ Steady(r, q) /\ MsgOf(q) = MsgOf(r)
      /\ Len(q.tools) = Len(r.tools)
  BY DEF FinishFrame, Steady
<1>2. ASSUME NEW u \in 1..Len(r.tools)
      PROVE  /\ q.tools[u].arguments = r.tools[u].arguments
             /\ r.tools[u].started => q.tools[u].started
             /\ Whole(r.tools[u]) => Whole(q.tools[u])
  <2>1. u \in 1..Len(x.tools)
    BY DEF FinishFrame
  <2> QED
    BY <2>1 DEF FinishFrame
<1> QED
  BY <1>1, <1>2 DEF FinishFrame

Finished(strict, c0, said, quiet, r, q) ==
  /\ \E reason : /\ Reaches(strict, c0, q, <<reason, said[2], said[3]>>)
                 /\ quiet /\ reason = "tool_use" => ToolArgumentsValid(q)
                 /\ reason = IF r.deltaSent THEN said[1] ELSE EndingReason(q)
  /\ quiet => \A t \in 1..Len(q.tools) : Whole(q.tools[t])
  /\ q.deltaSent <=> q.stopSent

LEMMA FinishKeeps ==
  ASSUME NEW strict \in BOOLEAN, NEW r, NEW c0, NEW said, Reaches(strict, c0, r, said),
         NEW quiet \in BOOLEAN, NEW named \in BOOLEAN, NEW K, Sound(quiet, named, K, r),
         strict => r.started /\ (r.deltaSent => named), r.deltaSent <=> r.stopSent,
         quiet /\ said[1] = "tool_use" => ToolArgumentsValid(r),
         NEW q, q = Finish(r)
  PROVE  Finished(strict, c0, said, quiet, r, q)
<1> DEFINE m == Len(r.tools)
<1>1. r \in RendererSet
  BY DEF Reaches, Rendering, Shape
<1>2. m \in Nat /\ DOMAIN r.tools = 1..m
  <2>1. r.tools \in Seq(Tool)
    BY <1>1 DEF RendererSet
  <2> QED
    BY <2>1
<1>3. PICK x : x = CloseOpenBlock(r)
  OBVIOUS
<1>4. PICK f : Runs("tool", x, r.tools, m, f) /\ q = MessageStop(MessageDelta(f[m]))
  BY <1>1, <1>3, FinishLoop
<1>5. /\ Reaches(strict, c0, x, said) /\ Sound(quiet, named, K, x) /\ Steady(r, x)
      /\ x.openKind = "none" /\ MsgOf(x) = MsgOf(r) /\ Len(x.tools) = Len(r.tools)
      /\ ToolArgumentsValid(r) <=> ToolArgumentsValid(x)
  BY <1>3, CloseOpenKeeps
<1> DEFINE P(y) == Reaches(strict, c0, y, said) /\ FinishFrame(x, y)
           T == {n \in Nat : n <= m => P(f[n])}
<1>6. f[0] = x
  BY <1>4 DEF Runs
<1>7. 0 \in T
  <2>1. P(x)
    BY <1>5 DEF FinishFrame, Steady
  <2> HIDE DEF P
  <2> QED
    BY <1>6, <2>1
<1>8. ASSUME NEW n \in T PROVE n + 1 \in T
  <2> SUFFICES ASSUME n + 1 <= m PROVE P(f[n + 1])
    OBVIOUS
  <2>1. n \in Nat /\ n + 1 \in 1..m /\ (n + 1) - 1 = n /\ n <= m
    BY <1>2
  <2>2. PICK y : y = f[n]
    OBVIOUS
  <2>3. PICK z : z = f[n + 1]
    OBVIOUS
  <2>4. P(y)
    <3> HIDE DEF P
    <3> QED
      BY <2>1, <2>2
  <2>5. z = FinishTool(y, n + 1)
    <3>1. f[n + 1] = Step("tool", f[(n + 1) - 1], r.tools, n + 1)
      BY <1>4, <2>1 DEF Runs
    <3> HIDE DEF P, T
    <3>2. f[n + 1] = FinishTool(f[(n + 1) - 1], n + 1)
      BY <3>1 DEF Step
    <3> QED
      BY <2>1, <2>2, <2>3, <3>2
  <2>6. n + 1 \in 1..Len(y.tools) /\ n + 1 \in 1..Len(x.tools)
    BY <1>5, <2>1, <2>4 DEF FinishFrame
  <2>7. strict => MsgOf(y) = "open" \/ y.tools[n + 1].started
    <3>1. MsgOf(y) = MsgOf(r)
      BY <1>5, <2>4 DEF FinishFrame
    <3>2. named => y.tools[n + 1].started
      BY <1>5, <2>4, <2>6 DEF Sound, ToolSound, FinishFrame
    <3> QED
      BY <3>1, <3>2 DEF MsgOf
  <2>8. Reaches(strict, c0, z, said) /\ FinishFrame(y, z)
    <3>1. Reaches(strict, c0, y, said) /\ y.openKind = "none"
      BY <2>4 DEF FinishFrame
    <3> HIDE DEF P
    <3> QED
      BY <2>5, <2>6, <2>7, <3>1, FinishToolRenders
  <2>9. P(z)
    BY <2>4, <2>8, FinishFrameOn
  <2> HIDE DEF P
  <2> QED
    BY <2>3, <2>9
<1>9. m \in T
  <2> HIDE DEF T
  <2>1. T \in SUBSET Nat
    BY DEF T
  <2> QED
    BY <1>2, <1>7, <1>8, <2>1, Counting
<1>10. PICK y : y = f[m]
  OBVIOUS
<1>11. P(y)
  <2> HIDE DEF P, m
  <2> QED
    BY <1>2, <1>9, <1>10
<1>12. /\ y.openKind = "none" /\ (y.deltaSent <=> y.stopSent) /\ (strict => y.started)
       /\ (y.deltaSent <=> r.deltaSent) /\ Len(y.tools) = m
       /\ \A u \in 1..m : /\ y.tools[u].arguments = x.tools[u].arguments
                          /\ quiet => Whole(y.tools[u])
  <2>1. Steady(r, y)
    BY <1>5, <1>11 DEF Steady, FinishFrame
  <2>2. \A u \in 1..m : quiet => Whole(x.tools[u])
    BY <1>5 DEF Sound, ToolSound
  <2> QED
    BY <1>5, <1>11, <2>1, <2>2 DEF Steady, FinishFrame
<1>13. ToolArgumentsValid(y) <=> ToolArgumentsValid(x)
  <2>1. x \in RendererSet /\ y \in RendererSet
    BY <1>5, <1>11 DEF Reaches, Rendering, Shape
  <2>2. DOMAIN x.tools = 1..m /\ DOMAIN y.tools = 1..m
    <3>1. x.tools \in Seq(Tool) /\ y.tools \in Seq(Tool)
      BY <2>1 DEF RendererSet
    <3> QED
      BY <1>5, <1>12, <3>1
  <2> QED
    BY <1>12, <2>2 DEF ToolArgumentsValid
<1>14. PICK ending, th, tx : said = <<ending, th, tx>>
  BY SaidNumbers
<1>15. said[1] = ending /\ said[2] = th /\ said[3] = tx
  BY <1>14
<1> DEFINE reason == EndReason(y, said)
<1>16. Reaches(strict, c0, q, <<reason, th, tx>>)
  <2>1. Reaches(strict, c0, y, said)
    BY <1>11
  <2>2. q = MessageStop(MessageDelta(y))
    BY <1>4, <1>10
  <2> HIDE DEF P
  <2> QED
    BY <1>12, <1>14, <2>1, <2>2, EndRenders
<1>17. EndFrame(y, q)
  <2>1. Reaches(strict, c0, y, said)
    BY <1>11
  <2>2. q = MessageStop(MessageDelta(y))
    BY <1>4, <1>10
  <2> HIDE DEF P
  <2> QED
    BY <1>12, <1>14, <1>16, <2>1, <2>2, EndRenders
<1>18. quiet /\ reason = "tool_use" => ToolArgumentsValid(q)
  <2>1. ToolArgumentsValid(y) <=> ToolArgumentsValid(q)
    BY <1>17 DEF EndFrame, KeptFrame, ToolArgumentsValid
  <2>2. CASE y.deltaSent
    <3>1. reason = said[1]
      BY <2>2 DEF EndReason
    <3> HIDE DEF reason
    <3> QED
      BY <1>5, <1>13, <2>1, <3>1
  <2>3. CASE ~y.deltaSent
    <3>1. reason = EndingReason(y)
      BY <2>3 DEF EndReason
    <3>2. Shape(y)
      BY <1>11 DEF Reaches, Rendering
    <3>3. EndingReason(y) = "tool_use" => ToolArgumentsValid(y)
      BY <3>2, EndingReasonSound
    <3> HIDE DEF reason
    <3> QED
      BY <2>1, <3>1, <3>3
  <2> QED
    BY <2>2, <2>3
<1>20. reason = IF r.deltaSent THEN said[1] ELSE EndingReason(q)
  <2>1. EndingReason(q) = EndingReason(y)
    BY <1>17 DEF EndFrame, KeptFrame, EndingReason, ToolArgumentsValid
  <2> QED
    BY <1>12, <2>1 DEF EndReason
<1> HIDE DEF reason
<1>19. quiet => \A t \in 1..Len(q.tools) : Whole(q.tools[t])
  BY <1>12, <1>17 DEF EndFrame, KeptFrame
<1> QED
  BY <1>15, <1>16, <1>17, <1>18, <1>19, <1>20 DEF Finished, EndFrame

\* When every call was announced, finish only closes the open block and ends the
\* message, unless that was done.
LEMMA FinishNamed ==
  ASSUME NEW r \in RendererSet, OneBlock(r), \A t \in 1..Len(r.tools) : r.tools[t].started,
         NEW z, z = CloseOpenBlock(r), ClosedFrame(r, z), NEW q, q = Finish(r)
  PROVE  /\ q = MessageStop(MessageDelta(z))
         /\ \A t \in 1..Len(r.tools) : z.tools[t].closed
<1> DEFINE m == Len(r.tools)
<1>1. r.tools \in Seq(Tool) /\ m \in Nat
  <2>1. r.tools \in Seq(Tool)
    BY DEF RendererSet
  <2> QED
    BY <2>1
<1>2. z.tools = ShutTools(r)
  BY DEF ClosedFrame, RendererSet
<1>3. ASSUME NEW t \in 1..m PROVE z.tools[t].closed
  <2>1. CASE t = r.openTool
    <3>1. t # 0 /\ r.tools[t] \in Tool
      BY <1>1
    <3>2. z.tools = [r.tools EXCEPT ![t] = Shut(r.tools[t])]
      BY <1>2, <2>1, <3>1 DEF ShutTools
    <3>3. z.tools[t] = Shut(r.tools[t])
      BY <1>1, <3>2
    <3> QED
      BY <3>1, <3>3 DEF Shut, Tool
  <2>2. CASE t # r.openTool
    <3>1. r.tools[t].closed
      BY <2>2 DEF OneBlock
    <3>2. z.tools[t] = r.tools[t]
      BY <1>1, <1>2, <2>2 DEF ShutTools, OneBlock
    <3> QED
      BY <3>1, <3>2
  <2> QED
    BY <2>1, <2>2
<1>4. PICK f : Runs("tool", z, r.tools, m, f) /\ q = MessageStop(MessageDelta(f[m]))
  BY FinishLoop
<1> DEFINE T == {n \in Nat : n <= m => f[n] = z}
<1>5. 0 \in T
  BY <1>4 DEF Runs
<1>6. ASSUME NEW n \in T PROVE n + 1 \in T
  <2> SUFFICES ASSUME n + 1 <= m PROVE f[n + 1] = z
    OBVIOUS
  <2>1. n \in Nat /\ n + 1 \in 1..m /\ (n + 1) - 1 = n /\ n <= m
    BY <1>1
  <2>2. f[n] = z
    BY <2>1
  <2>3. f[n + 1] = Step("tool", f[(n + 1) - 1], r.tools, n + 1)
    BY <1>4, <2>1 DEF Runs
  <2> HIDE DEF T, m
  <2>4. f[n + 1] = FinishTool(z, n + 1)
    BY <2>1, <2>2, <2>3 DEF Step
  <2>5. z.tools[n + 1].closed
    BY <1>3, <2>1
  <2> QED
    BY <2>4, <2>5 DEF FinishTool
<1>7. m \in T
  <2> HIDE DEF T
  <2>1. T \in SUBSET Nat
    BY DEF T
  <2> QED
    BY <1>1, <1>5, <1>6, <2>1, Counting
<1>8. f[m] = z
  BY <1>1, <1>7
<1> QED
  BY <1>3, <1>4, <1>8

-----------------------------------------------------------------------------
(* The stream: what holds of the renderer, of what is waiting to be emitted,  *)
(* of the upstream and of the client between two steps.                       *)

Strict == Orderly /\ Mode = "agent"
Quiet == ~Allowed("interleaved") /\ ~Allowed("early-usage")

\* The renderer with the events that wait.
Pending == [renderer EXCEPT !.out = queue]

StreamTypes ==
  /\ renderer \in RendererSet /\ renderer.out = <<>>
  /\ upstream \in [phase : {"generating", "finished", "over"}, begun : BOOLEAN, thinking : Nat,
                   text : Nat, sent : 0..Bound, ended : BOOLEAN, disorder : Disorders]

\* When the client has read the events that wait it has been told all that
\* upstream generated, and a message that stops for tool use has whole calls.
ToldAll(said) ==
  /\ Reaches(Strict, client, Pending, said)
  /\ Mode = "agent" => said[2] = upstream.thinking /\ said[3] = upstream.text
  /\ Quiet /\ said[1] = "tool_use" => ToolArgumentsValid(renderer)
  /\ Strict /\ renderer.deltaSent => said[1] = EndingReason(renderer)

Settled ==
  /\ renderer.deltaSent <=> renderer.stopSent
  /\ Quiet => \A t \in 1..Len(renderer.tools) : Whole(renderer.tools[t])
  /\ client.reason = "tool_use" => client.tools > 0

\* While the upstream goes on.
GoingOn ==
  /\ Sound(Quiet, Strict /\ renderer.deltaSent, Known, renderer)
  /\ ~renderer.started => renderer.openKind = "none"
  /\ ~Allowed("early-usage") => /\ renderer.hasUsage => upstream.phase = "over"
                                /\ renderer.deltaSent => renderer.hasUsage
  /\ Strict => (upstream.begun => renderer.started)

StreamInv ==
  /\ StreamTypes
  /\ \E said : ToldAll(said)
  /\ Settled
  /\ ~upstream.ended => GoingOn

LEMMA InitStream == ASSUME Init PROVE StreamInv
<1> USE RendererAssumption DEF RendererAssumption
<1>1. PICK d \in Disorders :
        upstream = [phase |-> "generating", begun |-> FALSE, thinking |-> 0, text |-> 0,
                    sent |-> 0, ended |-> FALSE, disorder |-> d]
  BY DEF Init
<1>2. /\ renderer = NewRenderer /\ queue = <<>>
      /\ client = [msg |-> "none", block |-> -1, next |-> 0, deltas |-> 0,
                   thinking |-> 0, text |-> 0, tools |-> 0, reason |-> "none"]
  BY DEF Init
<1>3. upstream \in [phase : {"generating", "finished", "over"}, begun : BOOLEAN, thinking : Nat,
                   text : Nat, sent : 0..Bound, ended : BOOLEAN, disorder : Disorders]
  <2>1. Bound \in Nat
    BY DEF Bound
  <2>2. 0 \in 0..Bound
    BY <2>1
  <2> QED
    BY <1>1, <2>2
<1>4. Pending = renderer /\ renderer.out = <<>>
  BY <1>2 DEF Pending, NewRenderer
<1>5. renderer.tools = <<>> /\ Len(renderer.tools) = 0 /\ 1..0 = {}
  BY <1>2 DEF NewRenderer
<1>6. StartedTools(renderer) = {}
  BY <1>5 DEF StartedTools
<1>7. Shape(renderer)
  <2>1. renderer \in RendererSet
    <3>1. <<>> \in Seq(Tool) /\ <<>> \in Seq(EventSet) /\ 0 \in Nat /\ -1 \in Int
      OBVIOUS
    <3>2. "none" \in FinishReasons
      BY DEF FinishReasons
    <3> QED
      BY <1>2, <3>1, <3>2 DEF RendererSet, NewRenderer
  <2>2. OneBlock(renderer)
    BY <1>2, <1>5 DEF OneBlock, NewRenderer
  <2> QED
    BY <1>2, <1>6, <2>1, <2>2 DEF Shape, NewRenderer
<1>8. client \in Client
  <2>1. 0 \in Nat /\ -1 \in Int
    OBVIOUS
  <2>2. "none" \in MessageStates /\ "none" \in ReadReasons
    BY DEF MessageStates, ReadReasons
  <2> QED
    BY <1>2, <2>1, <2>2 DEF Client
<1>9. Strict \in BOOLEAN
  BY DEF Strict
<1>10. Agrees(Strict, renderer, client)
  <2>1. Cardinality(StartedTools(renderer)) = 0
    BY <1>6, FS_EmptySet
  <2>2. MsgOf(renderer) = "none"
    BY <1>2 DEF MsgOf, NewRenderer
  <2> HIDE DEF Strict
  <2> QED
    BY <1>2, <1>8, <2>1, <2>2 DEF Agrees, NewRenderer
<1>11. Leads(Strict, client, renderer.out, client)
  BY <1>2, <1>8, LeadsNowhere DEF NewRenderer
<1>12. Reaches(Strict, client, Pending, Hears(client))
  BY <1>4, <1>7, <1>8, <1>10, <1>11 DEF Reaches, Rendering
<1>13. ToldAll(Hears(client))
  <2>1. ToolArgumentsValid(renderer)
    BY <1>5 DEF ToolArgumentsValid
  <2>2. Hears(client)[2] = 0 /\ Hears(client)[3] = 0
    BY <1>2 DEF Hears
  <2> QED
    BY <1>1, <1>2, <1>12, <2>1, <2>2 DEF ToldAll, NewRenderer
<1>14. Settled
  BY <1>2, <1>5 DEF Settled, NewRenderer
<1>15. GoingOn
  <2>1. Sound(Quiet, Strict /\ renderer.deltaSent, Known, renderer)
    BY <1>5 DEF Sound
  <2> QED
    BY <1>1, <1>2, <2>1 DEF GoingOn, NewRenderer
<1> QED
  BY <1>3, <1>4, <1>7, <1>13, <1>14, <1>15 DEF StreamInv, StreamTypes, Shape

LEMMA LeadsTyped ==
  ASSUME NEW strict, NEW c, NEW q \in Seq(EventSet), NEW d, Leads(strict, c, q, d)
  PROVE  c \in Client
<1>1. 0 \in 0..Len(q)
  OBVIOUS
<1> QED
  BY <1>1 DEF Leads

\* Shape and Agrees do not look at the events themselves.
LEMMA OutOnly ==
  ASSUME NEW strict, NEW r, Shape(r), NEW c, Agrees(strict, r, c), NEW x \in Seq(EventSet),
         NEW p, p = [r EXCEPT !.out = x]
  PROVE  Shape(p) /\ Agrees(strict, p, c) /\ p.out = x
<1>1. r \in RendererSet
  BY DEF Shape
<1>2. /\ p \in RendererSet /\ p.out = x
      /\ p.tools = r.tools /\ p.started = r.started /\ p.nextIndex = r.nextIndex
      /\ p.openKind = r.openKind /\ p.openIndex = r.openIndex /\ p.openTool = r.openTool
      /\ p.sawToolCall = r.sawToolCall /\ p.finishReason = r.finishReason
      /\ p.deltaSent = r.deltaSent /\ p.stopSent = r.stopSent
  BY <1>1 DEF RendererSet
<1>3. StartedTools(p) = StartedTools(r)
  BY <1>2 DEF StartedTools
<1>4. OneBlock(p)
  BY <1>2 DEF Shape, OneBlock
<1>5. Shape(p)
  BY <1>2, <1>3, <1>4 DEF Shape
<1>6. MsgOf(p) = MsgOf(r)
  BY <1>2 DEF MsgOf
<1>7. Agrees(strict, p, c)
  BY <1>2, <1>3, <1>6 DEF Agrees
<1> QED
  BY <1>2, <1>5, <1>7

\* A message has one stop reason.
LEMMA ReasonStays ==
  ASSUME NEW strict, NEW c, NEW q \in Seq(EventSet), NEW d, Leads(strict, c, q, d),
         c.reason # "none"
  PROVE  d.reason = c.reason
<1>1. PICK st \in [0..Len(q) -> Client] :
        /\ st[0] = c /\ st[Len(q)] = d
        /\ \A i \in 1..Len(q) : /\ Legal(strict, st[i - 1], q[i])
                                /\ st[i] = ClientAfter(st[i - 1], q[i])
  BY DEF Leads
<1> DEFINE n == Len(q)
           T == {i \in Nat : i <= n => st[i].reason = c.reason}
<1>2. n \in Nat /\ \A i \in 1..n : q[i] \in EventSet
  OBVIOUS
<1>3. 0 \in T
  BY <1>1
<1>4. ASSUME NEW i \in T PROVE i + 1 \in T
  <2> SUFFICES ASSUME i + 1 <= n PROVE st[i + 1].reason = c.reason
    OBVIOUS
  <2>1. i \in Nat /\ i + 1 \in 1..n /\ (i + 1) - 1 = i /\ i <= n
    BY <1>2
  <2>2. st[i].reason = c.reason /\ st[i] \in Client
    BY <1>1, <2>1
  <2>3. Legal(strict, st[i], q[i + 1]) /\ st[i + 1] = ClientAfter(st[i], q[i + 1])
    BY <1>1, <2>1
  <2>4. q[i + 1].type \in EventTypes /\ q[i + 1].type # "message_delta"
    <3>1. q[i + 1] \in EventSet
      BY <1>2, <2>1
    <3> QED
      BY <2>2, <2>3, <3>1 DEF Legal, EventSet
  <2>5. ClientAfter(st[i], q[i + 1]).reason = st[i].reason
    BY <2>2, <2>4 DEF ClientAfter, EventTypes, BlockEvents, Client
  <2> QED
    BY <2>2, <2>3, <2>5
<1>5. n \in T
  <2> HIDE DEF T
  <2>1. T \in SUBSET Nat
    BY DEF T
  <2> QED
    BY <1>2, <1>3, <1>4, <2>1, Counting
<1> QED
  BY <1>1, <1>2, <1>5

LEMMA PendingOut == ASSUME StreamTypes PROVE Pending.out = queue
  BY DEF StreamTypes, Pending, RendererSet

\* What is known of the next event and of the client that reads it.
LEMMA NextEvent ==
  ASSUME StreamInv, queue # <<>>
  PROVE  /\ queue \in Seq(EventSet) /\ Head(queue) \in EventSet
         /\ Legal(Strict, client, Head(queue))
         /\ ClientAfter(client, Head(queue)) \in Client
<1>1. PICK said : ToldAll(said)
  BY DEF StreamInv
<1>2. PICK c \in Client : Rendering(Strict, Pending, client, c)
  BY <1>1 DEF ToldAll, Reaches
<1>3. Pending.out = queue
  BY PendingOut DEF StreamInv
<1>4. queue \in Seq(EventSet)
  BY <1>2, <1>3 DEF Rendering, Shape, RendererSet
<1>5. Leads(Strict, client, queue, c)
  BY <1>2, <1>3 DEF Rendering
<1> QED
  BY <1>4, <1>5, LeadsLess

LEMMA EmitStep == ASSUME StreamInv, EmitNext PROVE StreamInv'
<1> DEFINE e == Head(queue)
<1>1. /\ queue # <<>> /\ queue' = Tail(queue) /\ client' = ClientAfter(client, e)
      /\ renderer' = renderer /\ upstream' = upstream
  BY DEF EmitNext
<1>2. Strict' = Strict /\ Quiet' = Quiet /\ Bound' = Bound /\ Known' = Known
      /\ Allowed("early-usage")' = Allowed("early-usage")
  BY <1>1 DEF Strict, Quiet, Bound, Known, Orderly, Allowed
<1>3. PICK said : ToldAll(said)
  BY DEF StreamInv
<1>4. PICK c \in Client : Rendering(Strict, Pending, client, c) /\ Hears(c) = said
  BY <1>3 DEF ToldAll, Reaches
<1>5. StreamTypes /\ Pending.out = queue
  BY PendingOut DEF StreamInv
<1>6. queue \in Seq(EventSet) /\ Leads(Strict, client, queue, c)
  BY <1>4, <1>5 DEF Rendering, Shape, RendererSet
<1>7. /\ Legal(Strict, client, e) /\ e \in EventSet /\ client' \in Client
      /\ Leads(Strict, client', Tail(queue), c) /\ Tail(queue) \in Seq(EventSet)
  BY <1>1, <1>6, LeadsLess
<1> HIDE DEF e
<1>8. Pending' = [Pending EXCEPT !.out = Tail(queue)]
  BY <1>1, <1>5 DEF Pending, StreamTypes, RendererSet
<1>9. Shape(Pending') /\ Agrees(Strict, Pending', c) /\ Pending'.out = Tail(queue)
  <2>1. Shape(Pending) /\ Agrees(Strict, Pending, c)
    BY <1>4 DEF Rendering
  <2>2. PICK p : p = [Pending EXCEPT !.out = Tail(queue)]
    OBVIOUS
  <2>3. PICK strict : strict = Strict
    OBVIOUS
  <2>4. PICK x \in Seq(EventSet) : x = Tail(queue)
    BY <1>7
  <2>5. PICK r : r = Pending
    OBVIOUS
  <2>6. Shape(r) /\ Agrees(strict, r, c) /\ p = [r EXCEPT !.out = x]
    BY <2>1, <2>2, <2>3, <2>4, <2>5
  <2>7. Shape(p) /\ Agrees(strict, p, c) /\ p.out = x
    BY <2>6, OutOnly
  <2> QED
    BY <1>8, <2>2, <2>3, <2>4, <2>7
<1>10. Reaches(Strict, client', Pending', said)
  BY <1>4, <1>7, <1>9 DEF Reaches, Rendering
<1>11. ToldAll(said)'
  BY <1>1, <1>2, <1>3, <1>10 DEF ToldAll
<1>12. StreamTypes'
  BY <1>1, <1>2, <1>5 DEF StreamTypes
<1>13. client'.reason = "tool_use" => client'.tools > 0
  <2>1. queue \in Seq(EventSet)
    BY <1>6
  <2>2. client.reason = "tool_use" => client.tools > 0
    BY DEF StreamInv, Settled
  <2>3. CASE e.type = "message_delta"
    <3>1. e.detail = "tool_use" => client.tools > 0
      BY <1>7, <2>3 DEF Legal
    <3>2. client \in Client
      BY <1>6, LeadsTyped
    <3>3. client'.reason = e.detail /\ client'.tools = client.tools
      BY <1>1, <2>3, <3>2 DEF ClientAfter, Client
    <3> QED
      BY <3>1, <3>3
  <2>4. CASE e.type # "message_delta"
    <3>1. client \in Client
      BY <1>6, LeadsTyped
    <3>2. e.type \in EventTypes
      BY <1>7 DEF EventSet
    <3>3. /\ client'.reason = client.reason
          /\ client'.tools \in {client.tools, client.tools + 0, client.tools + 1}
      BY <1>1, <2>4, <3>1, <3>2 DEF ClientAfter, Client, EventTypes, BlockEvents
    <3>4. client.tools \in Nat
      BY <3>1 DEF Client
    <3> QED
      BY <2>2, <3>3, <3>4
  <2> QED
    BY <2>3, <2>4
<1>14. Settled'
  BY <1>1, <1>2, <1>13 DEF Settled, StreamInv
<1>15. ~upstream'.ended => GoingOn'
  BY <1>1, <1>2 DEF GoingOn, StreamInv
<1> QED
  BY <1>11, <1>12, <1>14, <1>15 DEF StreamInv

\* With nothing waiting the client knows all that was rendered.
LEMMA NothingWaits == ASSUME StreamTypes, queue = <<>> PROVE Pending = renderer
  BY DEF StreamTypes, Pending, RendererSet

LEMMA FlagsTyped ==
  /\ Strict \in BOOLEAN /\ Quiet \in BOOLEAN /\ (Strict => Quiet)
  BY DEF Strict, Quiet, Orderly, Allowed

\* A frame that feed cannot read is an empty chunk to it.
LEMMA DecodedTyped ==
  ASSUME NEW chunk \in Chunks
  PROVE  /\ chunk \in ChunkType /\ Decoded(chunk) \in ChunkType /\ Proper(Decoded(chunk))
         /\ Mode = "agent" => Decoded(chunk) = chunk
         /\ Decoded(chunk) # chunk => Fragments(Decoded(chunk)) = {} /\ ~Decoded(chunk).usage
<1> USE ChunksAssumption, RendererAssumption DEF RendererAssumption
<1>1. chunk \in ChunkType
  BY DEF ChunksAssumption
<1>2. Proper(chunk)
  <2>1. DOMAIN chunk.choices = 1..NumChoices(chunk)
    BY <1>1, ChunkTyped
  <2> QED
    BY <2>1 DEF ChunksAssumption, Proper
<1>3. CASE Mode = "native"
  <2> DEFINE empty == [error |-> FALSE, choices |-> <<>>, usage |-> FALSE]
  <2>1. Decoded(chunk) = empty
    BY <1>3 DEF Decoded
  <2>2. empty \in ChunkType
    <3>1. <<>> \in Seq(ChoiceType)
      OBVIOUS
    <3> QED
      BY <3>1 DEF ChunkType
  <2>3. Proper(empty)
    BY DEF Proper, NumChoices
  <2>4. Fragments(empty) = {}
    BY DEF Fragments
  <2>5. empty.usage = FALSE
    OBVIOUS
  <2> HIDE DEF empty
  <2> QED
    BY <1>1, <1>3, <2>1, <2>2, <2>3, <2>4, <2>5
<1>4. CASE Mode # "native"
  BY <1>1, <1>2, <1>4 DEF Decoded
<1> QED
  BY <1>3, <1>4

\* An admissible chunk brings each fragment to a call that is still open, or to
\* a new one, and names its calls before usage.
LEMMA AdmissibleFits ==
  ASSUME StreamTypes, NEW chunk \in ChunkType, Admissible(chunk)
  PROVE  ChunkFits(Quiet, Strict /\ chunk.usage, Known, Known, renderer, chunk)
<1>1. DOMAIN renderer.tools = 1..Len(renderer.tools)
  <2>1. renderer.tools \in Seq(Tool)
    BY DEF StreamTypes, RendererSet
  <2> QED
    BY <2>1
<1> SUFFICES ASSUME NEW f \in Fragments(chunk)
             PROVE  /\ Quiet => \/ CallAt(chunk, f).index
                                     \notin Known \cup Indexes(chunk, Before(chunk, f))
                                \/ /\ f = <<1, 1>> /\ ~HasContent(chunk)
                                   /\ \A t \in 1..Len(renderer.tools) :
                                        renderer.tools[t].openAIIndex = CallAt(chunk, f).index
                                          => ~renderer.tools[t].closed
                    /\ Strict /\ chunk.usage => \/ CallAt(chunk, f).id /\ CallAt(chunk, f).name
                                                \/ CallAt(chunk, f).index \in Known
  BY DEF ChunkFits
<1>2. ASSUME Quiet
      PROVE  \/ CallAt(chunk, f).index \notin Known \cup Indexes(chunk, Before(chunk, f))
             \/ /\ f = <<1, 1>> /\ ~HasContent(chunk)
                /\ \A t \in 1..Len(renderer.tools) :
                     renderer.tools[t].openAIIndex = CallAt(chunk, f).index
                       => ~renderer.tools[t].closed
  <2>1. /\ CallAt(chunk, f).index \notin Indexes(chunk, Before(chunk, f))
        /\ \A t \in DOMAIN renderer.tools :
             renderer.tools[t].openAIIndex = CallAt(chunk, f).index =>
               ~renderer.tools[t].closed /\ ~HasContent(chunk) /\ f = <<1, 1>>
    <3>1. ~Allowed("interleaved")
      BY <1>2 DEF Quiet
    <3> QED
      BY <3>1 DEF Admissible
  <2>2. CASE CallAt(chunk, f).index \in Known
    <3>1. PICK t \in DOMAIN renderer.tools :
            renderer.tools[t].openAIIndex = CallAt(chunk, f).index
      BY <2>2 DEF Known
    <3> QED
      BY <1>1, <2>1, <3>1
  <2> QED
    BY <2>1, <2>2
<1>3. ASSUME Strict, chunk.usage
      PROVE  \/ CallAt(chunk, f).id /\ CallAt(chunk, f).name
             \/ CallAt(chunk, f).index \in Known
  <2>1. ~Allowed("nameless")
    BY <1>3 DEF Strict, Orderly, Allowed
  <2>2. ~Nameless(chunk)
    BY <1>3, <2>1 DEF Admissible
  <2> QED
    BY <2>2 DEF Nameless
<1> QED
  BY <1>2, <1>3

LEMMA StreamFed ==
  ASSUME StreamInv, NEW chunk \in Chunks, FeedChunk(chunk), ~Decoded(chunk).error,
         NEW said, ToldAll(said)
  PROVE  Fed(Strict, client, said, Quiet, Strict /\ Decoded(chunk).usage, renderer,
             Decoded(chunk), Feed(renderer, Decoded(chunk)))
<1> DEFINE d == Decoded(chunk)
<1>1. /\ chunk \in ChunkType /\ d \in ChunkType /\ Proper(d) /\ (Mode = "agent" => d = chunk)
      /\ d # chunk => Fragments(d) = {} /\ ~d.usage
  BY DecodedTyped
<1> HIDE DEF d
<1>2. ~upstream.ended /\ queue = <<>> /\ Admissible(chunk) /\ upstream.phase # "over"
  BY DEF FeedChunk, Admissible
<1>3. StreamTypes /\ GoingOn /\ Settled
  BY <1>2 DEF StreamInv
<1>4. Pending = renderer
  BY <1>2, <1>3, NothingWaits
<1>5. d.usage \in BOOLEAN
  BY <1>1 DEF ChunkType
<1>6. DOMAIN renderer.tools = 1..Len(renderer.tools)
  <2>1. renderer.tools \in Seq(Tool)
    BY <1>3 DEF StreamTypes, RendererSet
  <2> QED
    BY <2>1
<1>7. PICK strict \in BOOLEAN : strict = Strict
  BY FlagsTyped
<1>8. PICK quiet \in BOOLEAN : quiet = Quiet
  BY FlagsTyped
<1>9. PICK named \in BOOLEAN : named = (Strict /\ d.usage)
  OBVIOUS
<1>10. Reaches(strict, client, renderer, said)
  BY <1>4, <1>7 DEF ToldAll
<1>11. /\ ~renderer.started => renderer.openKind = "none"
       /\ renderer.deltaSent <=> renderer.stopSent
  BY <1>3 DEF GoingOn, Settled
<1>12. quiet => ~renderer.deltaSent /\ ~renderer.hasUsage
  BY <1>2, <1>3, <1>8 DEF Quiet, GoingOn
<1>13. Sound(quiet, named, Known, renderer)
  <2>1. Sound(Quiet, Strict /\ renderer.deltaSent, Known, renderer)
    BY <1>3 DEF GoingOn
  <2>2. ASSUME named, NEW t \in 1..Len(renderer.tools) PROVE renderer.tools[t].started
    <3>1. Mode = "agent" /\ Orderly /\ d.usage
      BY <1>9, <2>2 DEF Strict
    <3>2. d = chunk /\ ~Allowed("nameless")
      BY <1>1, <3>1 DEF Orderly, Allowed
    <3>3. ~Nameless(chunk)
      BY <1>2, <3>1, <3>2 DEF Admissible
    <3> QED
      BY <1>6, <3>3 DEF Nameless
  <2> QED
    BY <1>8, <2>1, <2>2 DEF Sound, ToolSound
<1>14. Holds(Known, renderer)
  BY <1>6 DEF Holds, Known
<1>15. ChunkFits(quiet, named, Known, Known, renderer, d)
  <2>1. CASE d = chunk
    BY <1>1, <1>2, <1>3, <1>8, <1>9, <2>1, AdmissibleFits
  <2>2. CASE d # chunk
    BY <1>1, <2>2 DEF ChunkFits
  <2> QED
    BY <2>1, <2>2
<1>16. strict => /\ ~renderer.deltaSent /\ ~renderer.hasUsage
                 /\ d.usage => renderer.started \/ \E c \in 1..NumChoices(d) : d.choices[c].delta
  <2> SUFFICES ASSUME strict
               PROVE  /\ ~renderer.deltaSent /\ ~renderer.hasUsage
                      /\ d.usage => \/ renderer.started
                                    \/ \E c \in 1..NumChoices(d) : d.choices[c].delta
    OBVIOUS
  <2>1. Quiet /\ Mode = "agent" /\ d = chunk
    BY <1>1, <1>7, FlagsTyped DEF Strict
  <2>2. ASSUME d.usage, ~renderer.started PROVE \E c \in 1..NumChoices(d) : d.choices[c].delta
    <3>1. ~upstream.begun
      BY <1>3, <1>7, <2>2 DEF GoingOn
    <3>2. Generates(d)
      BY <1>2, <2>1, <2>2, <3>1 DEF Admissible
    <3>3. DOMAIN d.choices = 1..NumChoices(d)
      BY <1>1, ChunkTyped
    <3>4. CASE HasContent(d)
      BY <1>1, <3>3, <3>4 DEF HasContent, Proper
    <3>5. CASE Fragments(d) # {}
      <4>1. PICK c \in DOMAIN d.choices : \E k \in DOMAIN d.choices[c].calls : TRUE
        BY <3>5 DEF Fragments
      <4>2. d.choices[c].calls # <<>>
        BY <4>1
      <4> QED
        BY <1>1, <3>3, <4>2 DEF Proper
    <3> QED
      BY <3>2, <3>4, <3>5 DEF Generates
  <2> QED
    BY <1>8, <1>12, <2>1, <2>2
<1>17. PICK q : q = Feed(renderer, d)
  OBVIOUS
<1>18. Fed(strict, client, said, quiet, named, renderer, d, q)
  <2>1. ~d.error
    BY DEF d
  <2>2. quiet => ~renderer.deltaSent
    BY <1>12
  <2> QED
    BY <1>1, <1>10, <1>11, <1>13, <1>14, <1>15, <1>16, <1>17, <2>1, <2>2, FeedKeeps
<1> QED
  BY <1>7, <1>8, <1>9, <1>17, <1>18 DEF d

\* What was rendered goes to the queue: the renderer is as before, and pending.
LEMMA RenderedPends ==
  ASSUME NEW q \in RendererSet, Rendered(q)
  PROVE  /\ renderer' \in RendererSet /\ renderer'.out = <<>> /\ Pending' = q
         /\ renderer'.tools = q.tools /\ renderer'.started = q.started
         /\ renderer'.openKind = q.openKind /\ renderer'.hasUsage = q.hasUsage
         /\ renderer'.deltaSent = q.deltaSent /\ renderer'.stopSent = q.stopSent
         /\ renderer'.sawToolCall = q.sawToolCall /\ renderer'.finishReason = q.finishReason
<1>1. renderer' = [q EXCEPT !.out = <<>>] /\ queue' = q.out
  BY DEF Rendered
<1>2. <<>> \in Seq(EventSet)
  OBVIOUS
<1>3. renderer' \in RendererSet
  BY <1>1, <1>2 DEF RendererSet
<1>4. Pending' = [[q EXCEPT !.out = <<>>] EXCEPT !.out = q.out]
  BY <1>1 DEF Pending
<1>5. [[q EXCEPT !.out = <<>>] EXCEPT !.out = q.out] = q
  BY DEF RendererSet
<1> QED
  BY <1>1, <1>3, <1>4, <1>5 DEF RendererSet

LEMMA ReachedTyped ==
  ASSUME NEW strict, NEW c0, NEW r, NEW said, Reaches(strict, c0, r, said)
  PROVE  r \in RendererSet
  BY DEF Reaches, Rendering, Shape

\* A step that renders keeps the disorder of the upstream, so what is claimed of
\* it stays the same.
LEMMA SameClaims ==
  ASSUME upstream'.disorder = upstream.disorder
  PROVE  /\ Strict' = Strict /\ Quiet' = Quiet /\ Bound' = Bound
         /\ Allowed("early-usage")' = Allowed("early-usage")
  BY DEF Strict, Quiet, Bound, Orderly, Allowed

LEMMA UpstreamTyped ==
  ASSUME StreamTypes, NEW chunk \in Chunks, FeedChunk(chunk)
  PROVE  /\ upstream' \in [phase : {"generating", "finished", "over"}, begun : BOOLEAN,
                           thinking : Nat, text : Nat, sent : 0..Bound, ended : BOOLEAN,
                           disorder : Disorders]
         /\ upstream'.disorder = upstream.disorder /\ upstream'.ended = upstream.ended
         /\ upstream'.begun = (upstream.begun \/ Begins(chunk))
         /\ upstream'.thinking = upstream.thinking + Thoughts(chunk)
         /\ upstream'.text = upstream.text + Texts(chunk)
         /\ chunk.error \/ (chunk.usage /\ ~Allowed("early-usage")) => upstream'.phase = "over"
<1> USE RendererAssumption DEF RendererAssumption
<1>1. Thoughts(chunk) \in Nat /\ Texts(chunk) \in Nat
  <2>1. chunk \in ChunkType
    BY DecodedTyped
  <2>2. DOMAIN chunk.choices = 1..NumChoices(chunk) /\ NumChoices(chunk) \in Nat
    BY <2>1, ChunkTyped
  <2>3. IsFiniteSet(DOMAIN chunk.choices)
    BY <2>2, FS_Interval
  <2> DEFINE A == {c \in DOMAIN chunk.choices : chunk.choices[c].thinking}
             B == {c \in DOMAIN chunk.choices : chunk.choices[c].text}
  <2>4. A \subseteq DOMAIN chunk.choices /\ B \subseteq DOMAIN chunk.choices
    OBVIOUS
  <2> HIDE DEF A, B
  <2>5. IsFiniteSet(A) /\ IsFiniteSet(B)
    BY <2>3, <2>4, FS_Subset
  <2>6. Cardinality(A) \in Nat /\ Cardinality(B) \in Nat
    BY <2>5, FS_CardinalityType
  <2> QED
    BY <2>6 DEF Thoughts, Texts, A, B
<1>2. Bound \in Nat /\ upstream.sent < Bound /\ upstream.sent \in Nat
  BY DEF Bound, FeedChunk, StreamTypes
<1>3. upstream.sent + 1 \in 0..Bound
  BY <1>2
<1>4. upstream.thinking + Thoughts(chunk) \in Nat /\ upstream.text + Texts(chunk) \in Nat
  <2>1. upstream.thinking \in Nat /\ upstream.text \in Nat
    BY DEF StreamTypes
  <2> QED
    BY <1>1, <2>1
<1>5. (upstream.begun \/ Begins(chunk)) \in BOOLEAN
  OBVIOUS
<1>6. upstream' = [upstream EXCEPT
         !.sent = @ + 1,
         !.begun = @ \/ Begins(chunk),
         !.thinking = @ + Thoughts(chunk), !.text = @ + Texts(chunk),
         !.phase = IF chunk.error \/ (chunk.usage /\ ~Allowed("early-usage")) THEN "over"
                   ELSE IF Finishes(chunk) THEN "finished" ELSE @]
  BY DEF FeedChunk
<1> QED
  BY <1>3, <1>4, <1>5, <1>6 DEF StreamTypes

\* An error object: the client is told of it and nothing else changes.
LEMMA ErrorStep ==
  ASSUME StreamInv, NEW chunk \in Chunks, FeedChunk(chunk), Decoded(chunk).error
  PROVE  StreamInv'
<1> DEFINE q == Emit(renderer, Event("error", -1, "none"))
<1>1. Mode = "agent" /\ Decoded(chunk) = chunk /\ chunk.error /\ chunk \in ChunkType
  <2>1. Mode \in {"agent", "native"}
    BY RendererAssumption DEF RendererAssumption
  <2>2. Mode # "native"
    BY DEF Decoded
  <2> QED
    BY <2>1, <2>2, DecodedTyped
<1>2. Rendered(q) /\ client' = client
  BY <1>1 DEF FeedChunk, Feed, ExtractionFault
<1>3. ~upstream.ended /\ queue = <<>> /\ Admissible(chunk)
  BY DEF FeedChunk
<1>4. StreamTypes /\ GoingOn /\ Settled
  BY <1>3 DEF StreamInv
<1>5. PICK said : ToldAll(said)
  BY DEF StreamInv
<1>6. Reaches(Strict, client, renderer, said)
  <2>1. Pending = renderer
    BY <1>3, <1>4, NothingWaits
  <2> QED
    BY <1>5, <2>1 DEF ToldAll
<1>7. PICK strict \in BOOLEAN : strict = Strict
  BY FlagsTyped
<1>8. PICK x : x = q
  OBVIOUS
<1>9. /\ Reaches(strict, client, x, said) /\ KeptFrame(renderer, x)
      /\ x.deltaSent = renderer.deltaSent /\ x.stopSent = renderer.stopSent
  BY <1>6, <1>7, <1>8, ErrorRenders
<1> HIDE DEF q
<1>10. x \in RendererSet
  BY <1>9, ReachedTyped
<1>11. /\ renderer' \in RendererSet /\ renderer'.out = <<>> /\ Pending' = x
       /\ renderer'.tools = renderer.tools /\ renderer'.started = renderer.started
       /\ renderer'.openKind = renderer.openKind /\ renderer'.hasUsage = renderer.hasUsage
       /\ renderer'.deltaSent = renderer.deltaSent /\ renderer'.stopSent = renderer.stopSent
       /\ renderer'.sawToolCall = renderer.sawToolCall
       /\ renderer'.finishReason = renderer.finishReason
  BY <1>2, <1>8, <1>9, <1>10, RenderedPends DEF KeptFrame
<1>12. /\ StreamTypes'
       /\ upstream'.disorder = upstream.disorder /\ upstream'.ended = upstream.ended
       /\ upstream'.begun = (upstream.begun \/ Begins(chunk))
       /\ upstream'.thinking = upstream.thinking + Thoughts(chunk)
       /\ upstream'.text = upstream.text + Texts(chunk)
       /\ upstream'.phase = "over"
  <2>1. /\ upstream' \in [phase : {"generating", "finished", "over"}, begun : BOOLEAN,
                           thinking : Nat, text : Nat, sent : 0..Bound, ended : BOOLEAN,
                           disorder : Disorders]
        /\ upstream'.disorder = upstream.disorder /\ upstream'.ended = upstream.ended
        /\ upstream'.begun = (upstream.begun \/ Begins(chunk))
        /\ upstream'.thinking = upstream.thinking + Thoughts(chunk)
        /\ upstream'.text = upstream.text + Texts(chunk)
        /\ upstream'.phase = "over"
    BY <1>1, <1>4, UpstreamTyped
  <2>2. Bound' = Bound
    BY <2>1, SameClaims
  <2> QED
    BY <1>11, <2>1, <2>2 DEF StreamTypes
<1>13. /\ Strict' = Strict /\ Quiet' = Quiet
       /\ Allowed("early-usage")' = Allowed("early-usage") /\ Known' = Known
  BY <1>11, <1>12, SameClaims DEF Known
<1>14. Thoughts(chunk) = 0 /\ Texts(chunk) = 0
  <2>1. chunk.choices = <<>>
    BY <1>1, ChunksAssumption DEF ChunksAssumption
  <2>2. /\ {c \in DOMAIN chunk.choices : chunk.choices[c].thinking} = {}
        /\ {c \in DOMAIN chunk.choices : chunk.choices[c].text} = {}
    BY <2>1
  <2> QED
    BY <2>2, FS_EmptySet DEF Thoughts, Texts
<1>15. ToldAll(said)'
  <2>1. upstream'.thinking = upstream.thinking /\ upstream'.text = upstream.text
    <3>1. upstream.thinking \in Nat /\ upstream.text \in Nat
      BY <1>4 DEF StreamTypes
    <3> QED
      BY <1>12, <1>14, <3>1
  <2>2. Reaches(Strict, client, Pending, said)'
    BY <1>2, <1>7, <1>9, <1>11, <1>13
  <2>3. ToolArgumentsValid(renderer)' <=> ToolArgumentsValid(renderer)
    BY <1>11 DEF ToolArgumentsValid
  <2>4. EndingReason(renderer)' = EndingReason(renderer)
    BY <1>11 DEF EndingReason, ToolArgumentsValid
  <2> QED
    BY <1>5, <1>11, <1>13, <2>1, <2>2, <2>3, <2>4 DEF ToldAll
<1>16. Settled'
  BY <1>2, <1>4, <1>11, <1>13 DEF Settled
<1>17. GoingOn'
  <2>1. Sound(Quiet, Strict /\ renderer.deltaSent, Known, renderer)'
    BY <1>4, <1>11, <1>13 DEF GoingOn, Sound
  <2>2. Strict => upstream.begun
    BY <1>1, <1>3 DEF Admissible, Strict, Orderly, Allowed
  <2> QED
    BY <1>4, <1>11, <1>12, <1>13, <2>1, <2>2 DEF GoingOn
<1> QED
  BY <1>12, <1>15, <1>16, <1>17 DEF StreamInv

LEMMA FeedStep ==
  ASSUME StreamInv, NEW chunk \in Chunks, FeedChunk(chunk), ~Decoded(chunk).error
  PROVE  StreamInv'
<1>1. PICK said : ToldAll(said)
  BY DEF StreamInv
<1>2. PICK d \in ChunkType : d = Decoded(chunk)
  BY DecodedTyped
<1>3. /\ chunk \in ChunkType /\ (Mode = "agent" => d = chunk)
      /\ d # chunk => Fragments(d) = {} /\ ~d.usage
  BY <1>2, DecodedTyped
<1>4. PICK q : q = Feed(renderer, d)
  OBVIOUS
<1>5. Fed(Strict, client, said, Quiet, Strict /\ d.usage, renderer, d, q)
  BY <1>1, <1>2, <1>4, StreamFed
<1>6. Rendered(q) /\ client' = client /\ ~upstream.ended /\ Admissible(chunk)
      /\ upstream.phase # "over"
  BY <1>2, <1>4 DEF FeedChunk, Admissible
<1>7. StreamTypes /\ GoingOn /\ Settled
  BY <1>6 DEF StreamInv
<1>8. PICK reason :
        /\ Reaches(Strict, client, q, <<reason, said[2] + Thoughts(d), said[3] + Texts(d)>>)
        /\ Quiet /\ reason = "tool_use" => ToolArgumentsValid(q)
        /\ ~renderer.deltaSent /\ q.deltaSent => reason = EndingReason(q)
  BY <1>5 DEF Fed
<1>9. PICK K : Sound(Quiet, Strict /\ d.usage, K, q)
  BY <1>5 DEF Fed
<1>10. /\ q.hasUsage = (renderer.hasUsage \/ d.usage)
       /\ q.deltaSent <=> q.stopSent
       /\ q.deltaSent => renderer.deltaSent \/ q.hasUsage
       /\ renderer.started \/ (\E c \in 1..NumChoices(d) : d.choices[c].delta) => q.started
       /\ ~q.started => q.openKind = "none"
  BY <1>5 DEF Fed
<1>11. q \in RendererSet
  BY <1>8, ReachedTyped
<1>12. /\ renderer' \in RendererSet /\ renderer'.out = <<>> /\ Pending' = q
       /\ renderer'.tools = q.tools /\ renderer'.started = q.started
       /\ renderer'.openKind = q.openKind /\ renderer'.hasUsage = q.hasUsage
       /\ renderer'.deltaSent = q.deltaSent /\ renderer'.stopSent = q.stopSent
       /\ renderer'.sawToolCall = q.sawToolCall /\ renderer'.finishReason = q.finishReason
  BY <1>6, <1>11, RenderedPends
<1>13. /\ upstream' \in [phase : {"generating", "finished", "over"}, begun : BOOLEAN,
                          thinking : Nat, text : Nat, sent : 0..Bound, ended : BOOLEAN,
                          disorder : Disorders]
       /\ upstream'.disorder = upstream.disorder /\ upstream'.ended = upstream.ended
       /\ upstream'.begun = (upstream.begun \/ Begins(chunk))
       /\ upstream'.thinking = upstream.thinking + Thoughts(chunk)
       /\ upstream'.text = upstream.text + Texts(chunk)
       /\ chunk.error \/ (chunk.usage /\ ~Allowed("early-usage")) => upstream'.phase = "over"
  BY <1>7, UpstreamTyped
<1>14. /\ Strict' = Strict /\ Quiet' = Quiet /\ Bound' = Bound
       /\ Allowed("early-usage")' = Allowed("early-usage")
  BY <1>13, SameClaims
<1>15. StreamTypes'
  BY <1>12, <1>13, <1>14 DEF StreamTypes
<1>16. ToldAll(<<reason, said[2] + Thoughts(d), said[3] + Texts(d)>>)'
  <2> DEFINE now == <<reason, said[2] + Thoughts(d), said[3] + Texts(d)>>
  <2>1. Reaches(Strict', client', Pending', now)
    BY <1>6, <1>8, <1>12, <1>14
  <2>2. Mode = "agent" => now[2] = upstream'.thinking /\ now[3] = upstream'.text
    BY <1>1, <1>3, <1>13 DEF ToldAll
  <2>3. Quiet' /\ now[1] = "tool_use" => ToolArgumentsValid(renderer')
    BY <1>8, <1>12, <1>14 DEF ToolArgumentsValid
  <2>6. Strict' /\ renderer'.deltaSent => now[1] = EndingReason(renderer')
    <3>1. Strict => ~renderer.deltaSent
      BY <1>6, <1>7 DEF GoingOn, Strict, Orderly, Allowed
    <3>2. EndingReason(renderer') = EndingReason(q)
      BY <1>12 DEF EndingReason, ToolArgumentsValid
    <3> QED
      BY <1>8, <1>12, <1>14, <3>1, <3>2
  <2> HIDE DEF now
  <2>4. PICK z : z = now
    OBVIOUS
  <2>5. ToldAll(z)'
    BY <2>1, <2>2, <2>3, <2>4, <2>6 DEF ToldAll
  <2> QED
    BY <2>4, <2>5 DEF now
<1>17. Settled'
  <2>1. \A t \in 1..Len(q.tools) : Quiet => Whole(q.tools[t])
    BY <1>9 DEF Sound, ToolSound
  <2>2. client.reason = "tool_use" => client.tools > 0
    BY <1>7 DEF Settled
  <2> QED
    BY <1>6, <1>10, <1>12, <1>14, <2>1, <2>2 DEF Settled
<1>18. GoingOn'
  <2>1. ~Allowed("early-usage") => ~renderer.hasUsage /\ ~renderer.deltaSent
    BY <1>6, <1>7 DEF GoingOn
  <2>2. Strict => ~Allowed("early-usage") /\ Mode = "agent" /\ ~Allowed("empty")
    BY DEF Strict, Orderly, Allowed
  <2>3. Sound(Quiet, Strict /\ renderer.deltaSent, Known, renderer)'
    <3> SUFFICES ASSUME NEW t \in 1..Len(q.tools)
                 PROVE  ToolSound(Quiet, Strict /\ q.deltaSent, Known', q.tools[t])
      BY <1>12, <1>14 DEF Sound
    <3>1. ToolSound(Quiet, Strict /\ d.usage, K, q.tools[t])
      BY <1>9 DEF Sound
    <3>2. Strict /\ q.deltaSent => d.usage
      BY <1>10, <2>1, <2>2
    <3>3. q.tools[t].openAIIndex \in Known'
      <4>1. q.tools \in Seq(Tool)
        BY <1>11 DEF RendererSet
      <4>2. DOMAIN q.tools = 1..Len(q.tools)
        BY <4>1
      <4> QED
        BY <1>12, <4>2 DEF Known
    <3> QED
      BY <3>1, <3>2, <3>3 DEF ToolSound
  <2>4. ~renderer'.started => renderer'.openKind = "none"
    BY <1>10, <1>12
  <2>5. ~Allowed("early-usage") => /\ renderer'.hasUsage => upstream'.phase = "over"
                                   /\ renderer'.deltaSent => renderer'.hasUsage
    BY <1>3, <1>10, <1>12, <1>13, <2>1
  <2>6. Strict => (upstream'.begun => renderer'.started)
    <3> SUFFICES ASSUME Strict, upstream.begun \/ Begins(chunk) PROVE q.started
      BY <1>12, <1>13
    <3>1. CASE upstream.begun
      BY <1>7, <1>10, <3>1 DEF GoingOn
    <3>2. CASE \E c \in DOMAIN chunk.choices : chunk.choices[c].delta
      <4>1. d = chunk /\ DOMAIN d.choices = 1..NumChoices(d)
        BY <1>3, <2>2, ChunkTyped
      <4> QED
        BY <1>10, <3>2, <4>1
    <3>3. CASE chunk.error
      BY <1>6, <1>7, <1>10, <2>2, <3>3 DEF Admissible, GoingOn
    <3> QED
      BY <3>1, <3>2, <3>3 DEF Begins
  <2> QED
    BY <1>14, <2>3, <2>4, <2>5, <2>6 DEF GoingOn
<1> QED
  BY <1>15, <1>16, <1>17, <1>18 DEF StreamInv

\* finish finds the message of an orderly upstream ended, or ends it.
LEMMA EndedBefore ==
  ASSUME StreamInv, queue = <<>>, ~upstream.ended, Strict, renderer.deltaSent,
         NEW q, q = Finish(renderer)
  PROVE  EndingReason(q) = EndingReason(renderer)
<1>1. StreamTypes /\ GoingOn /\ Settled
  BY DEF StreamInv
<1>2. PICK said : ToldAll(said)
  BY DEF StreamInv
<1>3. PICK strict \in BOOLEAN : strict = Strict
  BY FlagsTyped
<1>4. PICK r : r = renderer
  OBVIOUS
<1>0. PICK c0 : c0 = client
  OBVIOUS
<1>5. Reaches(strict, c0, r, said)
  <2>1. Pending = renderer
    BY <1>1, NothingWaits
  <2> QED
    BY <1>0, <1>2, <1>3, <1>4, <2>1 DEF ToldAll
<1>6. r \in RendererSet /\ OneBlock(r)
  BY <1>5 DEF Reaches, Rendering, Shape
<1>7. \A t \in 1..Len(r.tools) : r.tools[t].started
  BY <1>1, <1>4 DEF GoingOn, Sound, ToolSound
<1>8. PICK z : z = CloseOpenBlock(r)
  OBVIOUS
<1>9. ClosedFrame(r, z)
  BY <1>5, <1>8, CloseOpenRenders
<1>10. q = MessageStop(MessageDelta(z))
  BY <1>4, <1>6, <1>7, <1>8, <1>9, FinishNamed
<1>11. /\ z.finishReason = r.finishReason /\ z.sawToolCall = r.sawToolCall
       /\ z.deltaSent = r.deltaSent /\ z.stopSent = r.stopSent
  BY <1>6, <1>9, ClosedFields DEF Steady
<1>12. q = z
  BY <1>1, <1>4, <1>10, <1>11 DEF Settled, MessageDelta, MessageStop
<1>13. ToolArgumentsValid(r) = ToolArgumentsValid(z)
  <2>1. PICK quiet \in BOOLEAN : quiet = Quiet
    BY FlagsTyped
  <2>2. PICK named \in BOOLEAN : named = (Strict /\ renderer.deltaSent)
    OBVIOUS
  <2>3. PICK K : K = Known
    OBVIOUS
  <2>4. Sound(quiet, named, K, r)
    BY <1>1, <1>4, <2>1, <2>2, <2>3 DEF GoingOn
  <2>5. /\ Reaches(strict, c0, z, said) /\ Sound(quiet, named, K, z) /\ Steady(r, z)
        /\ z.openKind = "none" /\ MsgOf(z) = MsgOf(r) /\ Len(z.tools) = Len(r.tools)
        /\ ToolArgumentsValid(r) <=> ToolArgumentsValid(z)
    BY <1>5, <1>8, <2>4, CloseOpenKeeps
  <2> QED
    BY <2>5 DEF ToolArgumentsValid
<1> QED
  BY <1>4, <1>11, <1>12, <1>13 DEF EndingReason

LEMMA EndStep == ASSUME StreamInv, UpstreamEnd PROVE StreamInv'
<1>1. PICK said : ToldAll(said)
  BY DEF StreamInv
<1>2. PICK q : q = Finish(renderer)
  OBVIOUS
<1>3. /\ Rendered(q) /\ client' = client /\ ~upstream.ended /\ queue = <<>>
      /\ upstream.begun \/ Allowed("empty")
      /\ upstream' = [upstream EXCEPT !.ended = TRUE]
  BY <1>2 DEF UpstreamEnd
<1>4. StreamTypes /\ GoingOn /\ Settled
  BY <1>3 DEF StreamInv
<1>5. PICK strict \in BOOLEAN : strict = Strict
  BY FlagsTyped
<1>6. PICK quiet \in BOOLEAN : quiet = Quiet
  BY FlagsTyped
<1>7. PICK named \in BOOLEAN : named = (Strict /\ renderer.deltaSent)
  OBVIOUS
<1>8. Finished(strict, client, said, quiet, renderer, q)
  <2>1. Reaches(strict, client, renderer, said)
    <3>1. Pending = renderer
      BY <1>3, <1>4, NothingWaits
    <3> QED
      BY <1>1, <1>5, <3>1 DEF ToldAll
  <2>2. Sound(quiet, named, Known, renderer)
    BY <1>4, <1>6, <1>7 DEF GoingOn
  <2>3. strict => renderer.started /\ (renderer.deltaSent => named)
    <3>1. Strict => ~Allowed("empty")
      BY DEF Strict, Orderly, Allowed
    <3> QED
      BY <1>3, <1>4, <1>5, <1>7, <3>1 DEF GoingOn
  <2>4. renderer.deltaSent <=> renderer.stopSent
    BY <1>4 DEF Settled
  <2>5. quiet /\ said[1] = "tool_use" => ToolArgumentsValid(renderer)
    BY <1>1, <1>6 DEF ToldAll
  <2> QED
    BY <1>2, <2>1, <2>2, <2>3, <2>4, <2>5, FinishKeeps
<1>9. PICK reason : /\ Reaches(strict, client, q, <<reason, said[2], said[3]>>)
                    /\ quiet /\ reason = "tool_use" => ToolArgumentsValid(q)
                    /\ reason = IF renderer.deltaSent THEN said[1] ELSE EndingReason(q)
  BY <1>8 DEF Finished
<1>10. q \in RendererSet
  BY <1>9, ReachedTyped
<1>11. /\ renderer' \in RendererSet /\ renderer'.out = <<>> /\ Pending' = q
       /\ renderer'.tools = q.tools
       /\ renderer'.deltaSent = q.deltaSent /\ renderer'.stopSent = q.stopSent
       /\ renderer'.sawToolCall = q.sawToolCall /\ renderer'.finishReason = q.finishReason
  BY <1>3, <1>10, RenderedPends
<1>12. /\ upstream'.disorder = upstream.disorder /\ upstream'.ended
       /\ upstream'.thinking = upstream.thinking /\ upstream'.text = upstream.text
       /\ upstream' \in [phase : {"generating", "finished", "over"}, begun : BOOLEAN,
                          thinking : Nat, text : Nat, sent : 0..Bound, ended : BOOLEAN,
                          disorder : Disorders]
  BY <1>3, <1>4 DEF StreamTypes
<1>13. Strict' = Strict /\ Quiet' = Quiet /\ Bound' = Bound
  BY <1>12, SameClaims
<1>14. StreamTypes'
  BY <1>11, <1>12, <1>13 DEF StreamTypes
<1>15. ToldAll(<<reason, said[2], said[3]>>)'
  <2> DEFINE now == <<reason, said[2], said[3]>>
  <2>1. Reaches(Strict', client', Pending', now)
    BY <1>3, <1>5, <1>9, <1>11, <1>13
  <2>2. Mode = "agent" => now[2] = upstream'.thinking /\ now[3] = upstream'.text
    BY <1>1, <1>12 DEF ToldAll
  <2>3. Quiet' /\ now[1] = "tool_use" => ToolArgumentsValid(renderer')
    BY <1>6, <1>9, <1>11, <1>13 DEF ToolArgumentsValid
  <2>6. Strict' => now[1] = EndingReason(renderer')
    <3>1. EndingReason(renderer') = EndingReason(q)
      BY <1>11 DEF EndingReason, ToolArgumentsValid
    <3>2. CASE ~renderer.deltaSent
      BY <1>9, <3>1, <3>2
    <3>3. ASSUME Strict, renderer.deltaSent PROVE reason = EndingReason(q)
      <4>1. reason = EndingReason(renderer)
        BY <1>1, <1>9, <3>3 DEF ToldAll
      <4>2. EndingReason(q) = EndingReason(renderer)
        BY <1>2, <1>3, <3>3, EndedBefore
      <4> QED
        BY <4>1, <4>2
    <3> QED
      BY <1>13, <3>1, <3>2, <3>3
  <2> HIDE DEF now
  <2>4. PICK z : z = now
    OBVIOUS
  <2>5. ToldAll(z)'
    BY <2>1, <2>2, <2>3, <2>4, <2>6 DEF ToldAll
  <2> QED
    BY <2>4, <2>5 DEF now
<1>16. Settled'
  <2>1. client.reason = "tool_use" => client.tools > 0
    BY <1>4 DEF Settled
  <2> QED
    BY <1>3, <1>6, <1>8, <1>11, <1>13, <2>1 DEF Settled, Finished
<1> QED
  BY <1>12, <1>14, <1>15, <1>16 DEF StreamInv

LEMMA StreamStep == StreamInv /\ [Next]_vars => StreamInv'
<1> SUFFICES ASSUME StreamInv, [Next]_vars PROVE StreamInv'
  OBVIOUS
<1>1. ASSUME NEW chunk \in Chunks, FeedChunk(chunk) PROVE StreamInv'
  BY <1>1, ErrorStep, FeedStep
<1>2. CASE UpstreamEnd
  BY <1>2, EndStep
<1>3. CASE EmitNext
  BY <1>3, EmitStep
<1>4. CASE UNCHANGED vars
  BY <1>4 DEF vars, StreamInv, StreamTypes, ToldAll, Settled, GoingOn, Pending, Strict, Quiet,
              Orderly, Allowed, Bound, Known
<1> QED
  BY <1>1, <1>2, <1>3, <1>4 DEF Next, Idle

-----------------------------------------------------------------------------
(* The buffered read.  The invariant says what is known as long as the        *)
(* deadline has not expired: nobody has closed the stream, so every read was  *)
(* upstream's own and what was read is what upstream sent.  The verdict tests *)
(* the deadline after the read, which is why that is enough.                  *)

Reads == [pieces : {0, 1}, done : BOOLEAN, failed : BOOLEAN]

StateTypes ==
  /\ reader \in [pc : {"open", "reading", "read", "leaving", "returned"},
                 body : 0..MaxBody, read : Reads,
                 result : {"none", "unreachable", "refused", "timeout", "failed",
                           "too large", "whole"}]
  /\ deadline \in {"none", "armed", "expired", "cancelled"}
  /\ closer \in {"none", "running", "done"}
  /\ stream \in [opened : BOOLEAN, sent : Nat, ended : BOOLEAN, closes : Nat]

\* Who has closed the stream.
ClosesCounted ==
  /\ closer # "none" => deadline = "expired"
  /\ reader.pc = "open" => deadline = "none" /\ stream.closes = 0
  /\ reader.pc # "returned" => /\ deadline # "cancelled"
                               /\ closer # "done" => stream.closes = 0
                               /\ closer = "done" => stream.closes = 1
  /\ closer # "done" => stream.closes \in {0, 1}
  /\ stream.closes \in {0, 1, 2}

ReadSoFar ==
  LET unexpired == deadline # "expired"
  IN /\ reader.pc = "open" => reader.body = stream.sent /\ ~stream.ended
     /\ reader.pc = "reading" /\ unexpired => reader.body = stream.sent /\ ~stream.ended
     /\ reader.pc = "read" /\ unexpired => /\ reader.body + reader.read.pieces = stream.sent
                                           /\ reader.read.done = stream.ended
     /\ reader.pc \in {"open", "reading", "read"} => reader.result = "none"
     /\ WholeOrError

ReadInv == StateTypes /\ ClosesCounted /\ ReadSoFar

LEMMA OneMore == \A n \in {0, 1} : n + 1 \in {1, 2} /\ n + 1 \in Nat /\ (n = 0 => n + 1 = 1)
  OBVIOUS

LEMMA Added == \A m \in Nat, p \in {0, 1} : m + p \in Nat
  OBVIOUS

LEMMA InitRead == ReadInit => ReadInv
<1> SUFFICES ASSUME ReadInit PROVE ReadInv
  OBVIOUS
<1> USE ReadAssumption DEF ReadAssumption, ReadInit, Nothing
<1>1. StateTypes
  BY DEF StateTypes, Reads
<1>2. ClosesCounted
  BY DEF ClosesCounted
<1>3. ReadSoFar
  BY DEF ReadSoFar, WholeOrError
<1> QED
  BY <1>1, <1>2, <1>3 DEF ReadInv

\* executor.go:700-714: which test of the loop decides.
LEMMA VerdictCases ==
  ASSUME StateTypes
  PROVE  /\ Verdict \in {"timeout", "failed", "too large", "whole", "more"}
         /\ Verdict \in {"whole", "more"} =>
              /\ deadline # "expired"
              /\ reader.body + reader.read.pieces <= MaxBody
              /\ Verdict = "whole" <=> reader.read.done
<1> USE ReadAssumption DEF ReadAssumption
<1>1. reader.read.done \in BOOLEAN /\ reader.body \in Nat /\ reader.read.pieces \in Nat
  <2>1. reader.read \in Reads /\ reader.body \in 0..MaxBody
    BY DEF StateTypes
  <2> QED
    BY <2>1 DEF Reads
<1>2. CASE deadline = "expired"
  BY <1>2 DEF Verdict
<1>3. CASE deadline # "expired" /\ reader.read.failed
  BY <1>3 DEF Verdict
<1>4. CASE /\ deadline # "expired" /\ ~reader.read.failed
           /\ reader.body + reader.read.pieces > MaxBody
  BY <1>4 DEF Verdict
<1>5. CASE /\ deadline # "expired" /\ ~reader.read.failed
           /\ ~(reader.body + reader.read.pieces > MaxBody)
  <2>1. Verdict = IF reader.read.done THEN "whole" ELSE "more"
    BY <1>5 DEF Verdict
  <2> QED
    BY <1>1, <1>5, <2>1
<1> QED
  BY <1>2, <1>3, <1>4, <1>5

LEMMA JudgeStep == ASSUME ReadInv, Judge PROVE ReadInv'
<1> USE ReadAssumption DEF ReadAssumption
<1> USE DEF ReadInv, Judge, Nothing
<1>1. /\ Verdict \in {"timeout", "failed", "too large", "whole", "more"}
      /\ Verdict \in {"whole", "more"} =>
           /\ deadline # "expired"
           /\ reader.body + reader.read.pieces <= MaxBody
           /\ Verdict = "whole" <=> reader.read.done
  BY VerdictCases
<1>2. StateTypes'
  <2>1. /\ reader.read \in Reads /\ reader.body \in 0..MaxBody
        /\ reader.read.pieces \in {0, 1}
    BY DEF StateTypes, Reads
  <2>2. (IF Verdict \in {"more", "whole"} THEN reader.body + reader.read.pieces
         ELSE reader.body) \in 0..MaxBody
    <3>1. \A b \in 0..MaxBody, p \in {0, 1} : b + p <= MaxBody => b + p \in 0..MaxBody
      OBVIOUS
    <3> QED
      BY <1>1, <2>1, <3>1
  <2>3. Nothing \in Reads
    BY DEF Reads
  <2> QED
    BY <1>1, <2>2, <2>3 DEF StateTypes
<1>3. ClosesCounted'
  BY <1>1 DEF ClosesCounted, StateTypes
<1>4. ReadSoFar'
  <2>1. CASE Verdict = "more"
    BY <1>1, <2>1 DEF ReadSoFar, WholeOrError, StateTypes, Reads
  <2>2. CASE Verdict = "whole"
    BY <1>1, <2>2 DEF ReadSoFar, WholeOrError, StateTypes, Reads
  <2>3. CASE Verdict \in {"timeout", "failed", "too large"}
    BY <1>1, <2>3 DEF ReadSoFar, WholeOrError, StateTypes, Reads
  <2> QED
    BY <1>1, <2>1, <2>2, <2>3
<1> QED
  BY <1>2, <1>3, <1>4

\* A read of a closed stream is past the deadline, whatever it returns.
LEMMA ClosedIsLate ==
  ASSUME ReadInv, NEW read \in ClosedReads, ClosedAnswers(read)
  PROVE  read \in Reads /\ deadline = "expired" /\ ReadInv'
<1>1. read \in Reads
  <2>1. Nothing \in Reads /\ [Nothing EXCEPT !.done = TRUE] \in Reads
    BY DEF Nothing, Reads
  <2>2. CASE read \in [pieces : {0}, done : BOOLEAN, failed : {TRUE}]
    BY <2>2 DEF Reads
  <2>3. CASE read \in {Nothing, [Nothing EXCEPT !.done = TRUE]}
    BY <2>1, <2>3
  <2> QED
    BY <2>2, <2>3 DEF ClosedReads
<1>2. deadline = "expired"
  <2>1. reader.pc = "reading" /\ stream.closes > 0
    BY DEF ClosedAnswers
  <2>2. stream.closes # 0
    BY <2>1
  <2> QED
    BY <2>1, <2>2 DEF ReadInv, ClosesCounted
<1>3. ReadInv'
  BY <1>1, <1>2 DEF ReadInv, StateTypes, ClosesCounted, ReadSoFar, WholeOrError, ClosedAnswers
<1> QED
  BY <1>1, <1>2, <1>3

LEMMA ReadStep == ReadInv /\ [ReadNext]_readVars => ReadInv'
<1> SUFFICES ASSUME ReadInv, [ReadNext]_readVars PROVE ReadInv'
  OBVIOUS
<1> USE ReadAssumption DEF ReadAssumption
<1> USE DEF ReadInv, StateTypes, ClosesCounted, ReadSoFar, WholeOrError, Nothing, Reads
<1>1. CASE OpenFails
  BY <1>1 DEF OpenFails
<1>2. CASE OpenRefused
  BY <1>2 DEF OpenRefused
<1>3. CASE OpenSucceeds
  BY <1>3 DEF OpenSucceeds
<1>4. ASSUME NEW read \in Answers, UpstreamAnswers(read) PROVE ReadInv'
  <2>1. StateTypes'
    <3>1. read \in Reads /\ stream.sent + read.pieces \in Nat
      <4>1. read \in Reads /\ read.pieces \in {0, 1}
        BY DEF Answers
      <4>2. stream.sent \in Nat
        OBVIOUS
      <4> QED
        BY <4>1, <4>2, Added
    <3>2. stream' \in [opened : BOOLEAN, sent : Nat, ended : BOOLEAN, closes : Nat]
      BY <1>4, <3>1 DEF UpstreamAnswers
    <3> QED
      BY <1>4, <3>1, <3>2 DEF UpstreamAnswers
  <2>2. ClosesCounted'
    BY <1>4 DEF UpstreamAnswers, Answers
  <2>3. ReadSoFar'
    BY <1>4 DEF UpstreamAnswers, Answers
  <2> QED
    BY <2>1, <2>2, <2>3
<1>5. ASSUME NEW read \in ClosedReads, ClosedAnswers(read) PROVE ReadInv'
  BY <1>5, ClosedIsLate
<1>6. CASE Judge
  BY <1>6, JudgeStep
<1>7. CASE Return
  <2>1. /\ stream'.closes = stream.closes + 1
        /\ reader.pc = "leaving" /\ reader'.pc = "returned" /\ closer' = closer
        /\ deadline' = IF deadline = "armed" THEN "cancelled" ELSE deadline
    BY <1>7 DEF Return
  <2>2. stream.closes \in {0, 1} /\ (closer # "done" => stream.closes = 0)
    BY <2>1
  <2>3. /\ stream.closes + 1 \in {1, 2} /\ stream.closes + 1 \in Nat
        /\ closer # "done" => stream.closes + 1 = 1
    BY <2>2, OneMore
  <2>4. StateTypes'
    <3>1. stream' \in [opened : BOOLEAN, sent : Nat, ended : BOOLEAN, closes : Nat]
      BY <1>7, <2>3 DEF Return
    <3> QED
      BY <1>7, <3>1 DEF Return
  <2>5. ClosesCounted'
    BY <2>1, <2>3
  <2>6. ReadSoFar'
    BY <1>7 DEF Return
  <2> QED
    BY <2>4, <2>5, <2>6
<1>8. CASE Expire
  BY ZenonT(60), <1>8 DEF Expire
<1>9. CASE CloserCloses
  <2>1. /\ stream'.closes = stream.closes + 1 /\ closer = "running" /\ closer' = "done"
        /\ reader' = reader /\ deadline' = deadline
    BY <1>9 DEF CloserCloses, ClosesAtDeadline
  <2>2. stream.closes \in {0, 1} /\ (reader.pc # "returned" => stream.closes = 0)
    BY <2>1
  <2>3. /\ stream.closes + 1 \in {1, 2} /\ stream.closes + 1 \in Nat
        /\ reader.pc # "returned" => stream.closes + 1 = 1
    BY <2>2, OneMore
  <2>4. StateTypes'
    <3>1. stream' \in [opened : BOOLEAN, sent : Nat, ended : BOOLEAN, closes : Nat]
      BY <1>9, <2>3 DEF CloserCloses, ClosesAtDeadline
    <3> QED
      BY <1>9, <3>1 DEF CloserCloses
  <2>5. ClosesCounted'
    BY <2>1, <2>3
  <2>6. ReadSoFar'
    BY <1>9 DEF CloserCloses, ClosesAtDeadline
  <2> QED
    BY <2>4, <2>5, <2>6
<1>10. CASE CallOver \/ UNCHANGED readVars
  BY ZenonT(60), <1>10 DEF CallOver, readVars
<1> QED
  BY <1>1, <1>2, <1>3, <1>4, <1>5, <1>6, <1>7, <1>8, <1>9, <1>10 DEF ReadNext

\* WholeOrError (executor.go:697-714), for every size limit and any number of pieces.
THEOREM ReadWhole == ReadSpec => []WholeOrError
<1>1. ReadInv => WholeOrError
  BY DEF ReadInv, ReadSoFar
<1> QED
  BY <1>1, InitRead, ReadStep, PTL DEF ReadSpec

LEMMA ReadIsTyped == ReadInv => ReadTypeOK
<1> SUFFICES ASSUME ReadInv PROVE ReadTypeOK
  OBVIOUS
<1>1. stream.closes \in {0, 1, 2}
  BY DEF ReadInv, ClosesCounted
<1>2. \A n \in {0, 1, 2} : n \in 0..2
  OBVIOUS
<1>3. stream.closes \in 0..2
  BY <1>1, <1>2
<1> QED
  BY <1>3 DEF ReadInv, StateTypes, ReadTypeOK, Reads

\* ReadTypeOK (executor.go:686-716), the limit on the body and at most two closes
\* of the stream among it.
THEOREM ReadTyped == ReadSpec => []ReadTypeOK
  BY ReadIsTyped, InitRead, ReadStep, PTL DEF ReadSpec

-----------------------------------------------------------------------------
(* What the invariant says of the client. *)

\* The paths of a request do not mix: each keeps the others' state.
LEMMA ReplyStep ==
  ASSUME [ReplyNext]_replyVars
  PROVE  [Next]_vars /\ [ReadNext]_readVars
<1>1. CASE Messages
  BY <1>1 DEF Messages, BufferedNext, FrameArrives, StreamProceeds, Next
<1>2. CASE Chat
  BY <1>2 DEF Chat, bufferedVars
<1>3. CASE Read
  BY <1>3 DEF Read, bufferedVars
<1>4. CASE UNCHANGED replyVars
  BY <1>4 DEF replyVars, bufferedVars
<1> QED
  BY <1>1, <1>2, <1>3, <1>4 DEF ReplyNext

LEMMA ReplyInvariant == ReplySpec => [](StreamInv /\ ReadInv)
<1>1. ReplyInit => StreamInv /\ ReadInv
  BY InitStream, InitRead DEF ReplyInit, BufferedInit
<1>2. StreamInv /\ ReadInv /\ [ReplyNext]_replyVars => StreamInv' /\ ReadInv'
  BY ReplyStep, StreamStep, ReadStep
<1> QED
  BY <1>1, <1>2, PTL DEF ReplySpec

LEMMA ClientTyped == ASSUME StreamInv PROVE client \in Client
<1>1. PICK c \in Client : Rendering(Strict, Pending, client, c)
  BY DEF StreamInv, ToldAll, Reaches
<1>2. Pending.out \in Seq(EventSet) /\ Leads(Strict, client, Pending.out, c)
  BY <1>1 DEF Rendering, Shape, RendererSet
<1> QED
  BY <1>2, LeadsTyped

\* What an event changes of the client.
LEMMA EventRead ==
  ASSUME NEW strict \in BOOLEAN, NEW c \in Client, NEW e \in EventSet, Legal(strict, c, e),
         NEW d, d = ClientAfter(c, e)
  PROVE  /\ d.block # c.block => d.block = -1 \/ (c.block = -1 /\ d.block = c.next
                                                   /\ d.next = c.next + 1)
         /\ d.deltas # c.deltas => d.block = c.block /\ c.block # -1
         /\ d.msg # c.msg => c.block = -1
<1>1. CASE e.type = "content_block_start"
  BY <1>1 DEF ClientAfter, Legal, Client
<1>2. CASE e.type = "content_block_delta"
  BY <1>2 DEF ClientAfter, Legal, Client
<1>3. CASE e.type = "content_block_stop"
  BY <1>3 DEF ClientAfter, Client
<1>4. CASE e.type \in {"message_start", "message_delta", "message_stop"}
  BY <1>4 DEF ClientAfter, Legal, Client
<1>5. CASE e.type = "error"
  BY <1>5 DEF ClientAfter
<1>6. e.type \in EventTypes
  BY DEF EventSet
<1> QED
  BY <1>1, <1>2, <1>3, <1>4, <1>5, <1>6 DEF EventTypes, BlockEvents

\* BlocksSequential (claude_output.go:394-395), for any upstream, in both modes and
\* without a bound: blocks follow one another under consecutive indexes, a delta
\* goes to the open block, and no message is begun or ended over one.
THEOREM BlocksFollow == ReplySpec => BlocksSequential
<1>1. ASSUME StreamInv, [Next]_vars
      PROVE  [/\ client'.block # client.block =>
                   \/ client'.block = -1
                   \/ /\ client.block = -1 /\ client'.block = client.next
                      /\ client'.next = client.next + 1
              /\ client'.deltas # client.deltas =>
                   client'.block = client.block /\ client.block # -1
              /\ client'.msg # client.msg => client.block = -1]_client
  <2>1. CASE EmitNext
    <3>1. queue # <<>> /\ client' = ClientAfter(client, Head(queue))
      BY <2>1 DEF EmitNext
    <3>2. /\ Head(queue) \in EventSet /\ Legal(Strict, client, Head(queue))
      BY <1>1, <3>1, NextEvent
    <3>3. client \in Client
      BY <1>1, ClientTyped
    <3> QED
      BY <3>1, <3>2, <3>3, EventRead, FlagsTyped
  <2>2. CASE UNCHANGED client
    BY <2>2
  <2> QED
    BY <1>1, <2>1, <2>2 DEF Next, vars, FeedChunk, UpstreamEnd, Idle
<1>2. StreamInv /\ [ReplyNext]_replyVars
        => [/\ client'.block # client.block =>
                 \/ client'.block = -1
                 \/ /\ client.block = -1 /\ client'.block = client.next
                    /\ client'.next = client.next + 1
            /\ client'.deltas # client.deltas =>
                 client'.block = client.block /\ client.block # -1
            /\ client'.msg # client.msg => client.block = -1]_client
  BY <1>1, ReplyStep
<1> QED
  BY <1>2, ReplyInvariant, PTL DEF ReplySpec, BlocksSequential

\* ReplyTypeOK: the renderer remembers the open block that it announced, the body
\* read stays within the limit and the stream is closed twice at most, whatever
\* the upstream sends and however long it is.
THEOREM ReplyTyped == ReplySpec => []ReplyTypeOK
<1>1. ASSUME StreamInv PROVE TypeOK
  <2>1. PICK c \in Client : Rendering(Strict, Pending, client, c)
    BY <1>1 DEF StreamInv, ToldAll, Reaches
  <2>2. Shape(Pending)
    BY <2>1 DEF Rendering
  <2>3. /\ Pending.openKind = renderer.openKind /\ Pending.openIndex = renderer.openIndex
        /\ Pending.openTool = renderer.openTool /\ Pending.tools = renderer.tools
    BY DEF Pending
  <2>4. renderer.tools \in Seq(Tool) /\ renderer.openKind \in {"none", "thinking", "text",
                                                               "tool_use"}
    BY <1>1 DEF StreamInv, StreamTypes, RendererSet
  <2>5. \A t \in DOMAIN renderer.tools : renderer.tools[t] \in Tool
    BY <2>4
  <2>6. client.msg \in {"none", "open", "closing", "stopped"}
    BY <1>1, ClientTyped DEF Client, MessageStates
  <2>7. upstream.sent \in 0..Bound
    BY <1>1 DEF StreamInv, StreamTypes
  <2> QED
    BY <2>2, <2>3, <2>4, <2>5, <2>6, <2>7 DEF TypeOK, Shape, OneBlock
<1>2. StreamInv /\ ReadInv => ReplyTypeOK
  BY <1>1, ReadIsTyped DEF ReplyTypeOK
<1> QED
  BY <1>2, ReplyInvariant, PTL

\* CompletedToolsAreWhole (claude_output.go:476-477), however many calls a message
\* holds: when it stops for tool use it has a call, and the client got the whole
\* input of each.
THEOREM ToolsComplete == ReplySpec => []CompletedToolsAreWhole
<1>1. ASSUME StreamInv, client.reason = "tool_use", Quiet
      PROVE  /\ client.tools > 0
             /\ \A t \in DOMAIN renderer.tools :
                  renderer.tools[t].started => renderer.tools[t].sent \in {"none", "end"}
  <2>1. PICK said : ToldAll(said)
    BY <1>1 DEF StreamInv
  <2>2. PICK c \in Client : Rendering(Strict, Pending, client, c) /\ Hears(c) = said
    BY <2>1 DEF ToldAll, Reaches
  <2>3. Pending.out \in Seq(EventSet) /\ Leads(Strict, client, Pending.out, c)
    BY <2>2 DEF Rendering, Shape, RendererSet
  <2>4. c.reason = "tool_use"
    BY <1>1, <2>3, ReasonStays
  <2>5. said[1] = "tool_use"
    BY <2>2, <2>4 DEF Hears
  <2>6. ToolArgumentsValid(renderer)
    BY <1>1, <2>1, <2>5 DEF ToldAll
  <2>7. client.tools > 0 /\ \A t \in 1..Len(renderer.tools) : Whole(renderer.tools[t])
    BY <1>1 DEF StreamInv, Settled
  <2>8. DOMAIN renderer.tools = 1..Len(renderer.tools)
    <3>1. renderer.tools \in Seq(Tool)
      BY <1>1 DEF StreamInv, StreamTypes, RendererSet
    <3> QED
      BY <3>1
  <2> QED
    BY <2>6, <2>7, <2>8 DEF Whole, ToolArgumentsValid
<1>2. StreamInv => CompletedToolsAreWhole
  BY <1>1 DEF CompletedToolsAreWhole, Quiet
<1> QED
  BY <1>2, ReplyInvariant, PTL

\* ContentDelivered (README.md:95), in agent mode and however long the stream is:
\* every piece of reasoning and of text is read by the client as what it is, once.
THEOREM AgentDelivers == ASSUME Mode = "agent" PROVE ReplySpec => []ContentDelivered
<1>1. ASSUME StreamInv, queue = <<>>
      PROVE  client.thinking = upstream.thinking /\ client.text = upstream.text
  <2>1. PICK said : ToldAll(said)
    BY <1>1 DEF StreamInv
  <2>2. PICK c \in Client : Rendering(Strict, Pending, client, c) /\ Hears(c) = said
    BY <2>1 DEF ToldAll, Reaches
  <2>3. Pending.out = <<>>
    BY <1>1, PendingOut DEF StreamInv
  <2>4. client = c
    BY <2>2, <2>3, LeadsEmpty DEF Rendering
  <2>5. said[2] = c.thinking /\ said[3] = c.text
    BY <2>2 DEF Hears
  <2> QED
    BY <2>1, <2>4, <2>5 DEF ToldAll
<1>2. StreamInv => ContentDelivered
  BY <1>1 DEF ContentDelivered, Over
<1> QED
  BY <1>2, ReplyInvariant, PTL

\* FollowsGrammar (claude_output.go:394-395): in agent mode the stream refines
\* MessageEvents, event by event, for an orderly upstream of any length.
THEOREM AgentFollowsGrammar == ASSUME Mode = "agent" PROVE ReplySpec => FollowsGrammar
<1>1. ReplyInit => Grammar!Init
  BY DEF ReplyInit, BufferedInit, Init, Grammar!Init
<1>2. ASSUME StreamInv, [Next]_vars PROVE [Grammar!Next]_(Grammar!vars)
  <2>1. CASE EmitNext /\ Orderly
    <3> DEFINE e == Head(queue)
    <3>1. queue # <<>> /\ client' = ClientAfter(client, e) /\ Orderly'
      BY <2>1 DEF EmitNext, Orderly
    <3>2. e \in EventSet /\ Legal(Strict, client, e) /\ Strict
      BY <1>2, <2>1, <3>1, NextEvent DEF Strict
    <3>3. client \in Client
      BY <1>2, ClientTyped
    <3> HIDE DEF e
    <3>4. CASE e.type = "message_start"
      <4>1. /\ client.msg = "none" /\ client'.msg = "open" /\ client'.block = client.block
            /\ client'.next = client.next /\ client'.deltas = client.deltas
        BY <3>1, <3>2, <3>3, <3>4 DEF Legal, ClientAfter, Client
      <4> QED
        BY <2>1, <3>1, <4>1 DEF Grammar!Next, Grammar!MessageStart
    <3>5. CASE e.type = "content_block_start"
      <4>1. /\ client.msg = "open" /\ client.block = -1 /\ client'.block = client.next
            /\ client'.next = client.next + 1 /\ client'.msg = client.msg
            /\ client'.deltas = client.deltas
        BY <3>1, <3>2, <3>3, <3>5 DEF Legal, ClientAfter, Client, BlockEvents
      <4> QED
        BY <2>1, <3>1, <4>1 DEF Grammar!Next, Grammar!BlockStart
    <3>6. CASE e.type = "content_block_delta"
      <4>1. /\ client.msg = "open" /\ client.block # -1 /\ client'.deltas = client.deltas + 1
            /\ client'.msg = client.msg /\ client'.block = client.block
            /\ client'.next = client.next
        BY <3>1, <3>2, <3>3, <3>6 DEF Legal, ClientAfter, Client, BlockEvents
      <4> QED
        BY <2>1, <3>1, <4>1 DEF Grammar!Next, Grammar!BlockDelta
    <3>7. CASE e.type = "content_block_stop"
      <4>1. /\ client.msg = "open" /\ client.block # -1 /\ client'.block = -1
            /\ client'.msg = client.msg /\ client'.next = client.next
            /\ client'.deltas = client.deltas
        BY <3>1, <3>2, <3>3, <3>7 DEF Legal, ClientAfter, Client, BlockEvents
      <4> QED
        BY <2>1, <3>1, <4>1 DEF Grammar!Next, Grammar!BlockStop
    <3>8. CASE e.type = "message_delta"
      <4>1. /\ client.msg = "open" /\ client.block = -1 /\ client'.msg = "closing"
            /\ client'.block = client.block /\ client'.next = client.next
            /\ client'.deltas = client.deltas
        BY <3>1, <3>2, <3>3, <3>8 DEF Legal, ClientAfter, Client, BlockEvents
      <4> QED
        BY <2>1, <3>1, <4>1 DEF Grammar!Next, Grammar!MessageDelta
    <3>9. CASE e.type = "message_stop"
      <4>1. /\ client.msg = "closing" /\ client'.msg = "stopped"
            /\ client'.block = client.block /\ client'.next = client.next
            /\ client'.deltas = client.deltas
        BY <3>1, <3>2, <3>3, <3>9 DEF Legal, ClientAfter, Client
      <4> QED
        BY <2>1, <3>1, <4>1 DEF Grammar!Next, Grammar!MessageStop
    <3>10. CASE e.type = "error"
      <4>1. client' = client
        BY <3>1, <3>10 DEF ClientAfter
      <4> QED
        BY <2>1, <3>1, <4>1 DEF Grammar!vars
    <3>11. e.type \in EventTypes
      BY <3>2 DEF EventSet
    <3> QED
      BY <3>4, <3>5, <3>6, <3>7, <3>8, <3>9, <3>10, <3>11 DEF EventTypes, BlockEvents
  <2>2. CASE EmitNext /\ ~Orderly
    <3>1. ~Orderly'
      BY <2>2 DEF EmitNext, Orderly
    <3> QED
      BY <2>2, <3>1 DEF Grammar!vars
  <2>3. CASE UNCHANGED client /\ (Orderly' <=> Orderly)
    BY <2>3 DEF Grammar!vars
  <2>4. \/ EmitNext
        \/ UNCHANGED client /\ (Orderly' <=> Orderly)
    <3>1. ASSUME NEW chunk \in Chunks, FeedChunk(chunk)
          PROVE  UNCHANGED client /\ (Orderly' <=> Orderly)
      BY <1>2, <3>1, UpstreamTyped DEF StreamInv, FeedChunk, Orderly
    <3>2. ASSUME UpstreamEnd PROVE UNCHANGED client /\ (Orderly' <=> Orderly)
      BY <1>2, <3>2 DEF UpstreamEnd, Orderly, StreamInv, StreamTypes
    <3> QED
      BY <1>2, <3>1, <3>2 DEF Next, Idle, vars, Orderly
  <2> QED
    BY <2>1, <2>2, <2>3, <2>4
<1>3. StreamInv /\ [ReplyNext]_replyVars => [Grammar!Next]_(Grammar!vars)
  BY <1>2, ReplyStep
<1> QED
  BY <1>1, <1>3, ReplyInvariant, PTL DEF ReplySpec, FollowsGrammar, Grammar!Spec

-----------------------------------------------------------------------------
(* The buffered answer beside the streamed one: the aggregator keeps the     *)
(* same calls as the renderer, and the finish reason as it came.             *)

CallRecord == [id : BOOLEAN, name : BOOLEAN, arguments : {"none", "part", "end"}]
View(tool) == [id |-> tool.id, name |-> tool.name, arguments |-> tool.arguments]

\* The calls of an orderly upstream come under the indexes 0, 1, 2, ...; one is
\* announced as soon as it has an id and a name.
SameCall(tool, call, t) ==
  /\ tool.openAIIndex = t - 1 /\ call = View(tool)
  /\ tool.started <=> tool.id /\ tool.name
SameCalls(tools, calls) ==
  /\ calls \in Seq(CallRecord) /\ Len(calls) = Len(tools)
  /\ \A t \in 1..Len(tools) : SameCall(tools[t], calls[t], t)

\* The reason the renderer made of the one that came.
SameReason(r, reason) ==
  r.finishReason = IF reason = "none" THEN "none"
                   ELSE NormalizeFinishReason(reason, r.sawToolCall, ToolArgumentsValid(r))

\* What neither a block's beginning or end nor the message's changes.
KeepsCalls(r, q) ==
  /\ Len(q.tools) = Len(r.tools)
  /\ \A t \in 1..Len(r.tools) : /\ q.tools[t].openAIIndex = r.tools[t].openAIIndex
                                /\ View(q.tools[t]) = View(r.tools[t])
                                /\ q.tools[t].started = r.tools[t].started
  /\ q.sawToolCall = r.sawToolCall /\ q.finishReason = r.finishReason

LEMMA KeepsOn ==
  ASSUME NEW r, NEW x, NEW q, KeepsCalls(r, x), KeepsCalls(x, q)
  PROVE  KeepsCalls(r, q)
  BY DEF KeepsCalls

LEMMA KeepsTools ==
  ASSUME NEW r, NEW q, q.tools = r.tools, q.sawToolCall = r.sawToolCall,
         q.finishReason = r.finishReason
  PROVE  KeepsCalls(r, q)
  BY DEF KeepsCalls

LEMMA SameValid ==
  ASSUME NEW r \in RendererSet, NEW q \in RendererSet, KeepsCalls(r, q)
  PROVE  ToolArgumentsValid(q) = ToolArgumentsValid(r)
<1>1. r.tools \in Seq(Tool) /\ q.tools \in Seq(Tool)
  BY DEF RendererSet
<1>2. DOMAIN r.tools = 1..Len(r.tools) /\ DOMAIN q.tools = 1..Len(r.tools)
  BY <1>1 DEF KeepsCalls
<1>3. \A t \in 1..Len(r.tools) : q.tools[t].arguments = r.tools[t].arguments
  BY DEF KeepsCalls, View
<1> QED
  BY <1>2, <1>3 DEF ToolArgumentsValid

LEMMA SameOn ==
  ASSUME NEW r \in RendererSet, NEW q \in RendererSet, KeepsCalls(r, q)
  PROVE  /\ \A calls : SameCalls(r.tools, calls) => SameCalls(q.tools, calls)
         /\ \A reason : SameReason(r, reason) => SameReason(q, reason)
<1>1. ASSUME NEW calls, SameCalls(r.tools, calls) PROVE SameCalls(q.tools, calls)
  <2>1. ASSUME NEW t \in 1..Len(r.tools) PROVE SameCall(q.tools[t], calls[t], t)
    <3>1. SameCall(r.tools[t], calls[t], t)
      BY <1>1 DEF SameCalls
    <3>2. /\ q.tools[t].openAIIndex = r.tools[t].openAIIndex
          /\ View(q.tools[t]) = View(r.tools[t])
          /\ q.tools[t].started = r.tools[t].started
      BY DEF KeepsCalls
    <3>3. q.tools[t].id = r.tools[t].id /\ q.tools[t].name = r.tools[t].name
      BY <3>2 DEF View
    <3> QED
      BY <3>1, <3>2, <3>3 DEF SameCall
  <2> QED
    BY <1>1, <2>1 DEF SameCalls, KeepsCalls
<1>2. ASSUME NEW reason, SameReason(r, reason) PROVE SameReason(q, reason)
  BY <1>2, SameValid DEF SameReason, KeepsCalls
<1> QED
  BY <1>1, <1>2

LEMMA ShutKeepsCalls ==
  ASSUME NEW r \in RendererSet, OneBlock(r), NEW q, q.tools = ShutTools(r),
         q.sawToolCall = r.sawToolCall, q.finishReason = r.finishReason
  PROVE  KeepsCalls(r, q)
<1>1. r.tools \in Seq(Tool)
  BY DEF RendererSet
<1>2. CASE r.openTool = 0
  BY <1>2, KeepsTools DEF ShutTools
<1>3. CASE r.openTool # 0
  <2> DEFINE u == r.openTool
             shut == Shut(r.tools[u])
  <2>1. u \in 1..Len(r.tools) /\ r.tools[u] \in Tool
    BY <1>1, <1>3 DEF OneBlock
  <2>2. /\ shut.openAIIndex = r.tools[u].openAIIndex /\ View(shut) = View(r.tools[u])
        /\ shut.started = r.tools[u].started
    BY <2>1 DEF Shut, Tool, View
  <2>3. q.tools = [r.tools EXCEPT ![u] = shut]
    BY <1>3 DEF ShutTools
  <2> HIDE DEF u, shut
  <2>4. /\ Len(q.tools) = Len(r.tools)
        /\ \A t \in 1..Len(r.tools) : q.tools[t] = IF t = u THEN shut ELSE r.tools[t]
    BY <1>1, <2>1, <2>3
  <2> QED
    BY <2>2, <2>4 DEF KeepsCalls, u
<1> QED
  BY <1>2, <1>3

-----------------------------------------------------------------------------
(* The renderer as far as its helpers need it, for any upstream.             *)

Working(r) ==
  /\ \E c0, said : Reaches(FALSE, c0, r, said)
  /\ Sound(FALSE, FALSE, Nat, r)

LEMMA WorkingTyped ==
  ASSUME NEW r, Working(r)
  PROVE  r \in RendererSet /\ OneBlock(r) /\ r.tools \in Seq(Tool) /\ Len(r.tools) \in Nat
<1>1. r \in RendererSet /\ OneBlock(r)
  BY DEF Working, Reaches, Rendering, Shape
<1>2. r.tools \in Seq(Tool)
  BY <1>1 DEF RendererSet
<1> QED
  BY <1>1, <1>2

\* Less is asked of the events of a disorderly upstream.
LEMMA ReachesLess ==
  ASSUME NEW strict, NEW c0, NEW r, NEW said, Reaches(strict, c0, r, said)
  PROVE  Reaches(FALSE, c0, r, said)
<1>1. PICK c \in Client : Rendering(strict, r, c0, c) /\ Hears(c) = said
  BY DEF Reaches
<1>2. PICK st \in [0..Len(r.out) -> Client] :
        /\ st[0] = c0 /\ st[Len(r.out)] = c
        /\ \A i \in 1..Len(r.out) : /\ Legal(strict, st[i - 1], r.out[i])
                                    /\ st[i] = ClientAfter(st[i - 1], r.out[i])
  BY <1>1 DEF Rendering, Leads
<1>3. \A d, e : Legal(strict, d, e) => Legal(FALSE, d, e)
  BY DEF Legal
<1>4. Leads(FALSE, c0, r.out, c)
  BY <1>2, <1>3 DEF Leads
<1>5. Agrees(FALSE, r, c)
  BY <1>1 DEF Rendering, Agrees
<1> QED
  BY <1>1, <1>4, <1>5 DEF Rendering, Reaches

LEMMA SoundLess ==
  ASSUME NEW quiet, NEW named, NEW K, NEW r \in RendererSet, Sound(quiet, named, K, r)
  PROVE  Sound(FALSE, FALSE, Nat, r)
<1>1. r.tools \in Seq(Tool)
  BY DEF RendererSet
<1>2. ASSUME NEW t \in 1..Len(r.tools)
      PROVE  (r.tools[t].closed => r.tools[t].started) /\ r.tools[t].openAIIndex \in Nat
  <2>1. r.tools[t] \in Tool
    BY <1>1
  <2> QED
    BY <2>1 DEF Tool, Sound, ToolSound
<1> QED
  BY <1>2 DEF Sound, ToolSound

LEMMA CloseKeepsCalls ==
  ASSUME NEW r, Working(r), NEW q, q = CloseOpenBlock(r)
  PROVE  Working(q) /\ KeepsCalls(r, q) /\ q.openKind = "none"
<1>1. PICK c0, said : Reaches(FALSE, c0, r, said)
  BY DEF Working
<1>2. r \in RendererSet /\ OneBlock(r) /\ Sound(FALSE, FALSE, Nat, r) /\ FALSE \in BOOLEAN
  BY WorkingTyped DEF Working
<1>3. ClosedFrame(r, q)
  BY <1>1, <1>2, CloseOpenRenders
<1>4. /\ Reaches(FALSE, c0, q, said) /\ Sound(FALSE, FALSE, Nat, q)
      /\ q.openKind = "none"
  <2>1. ASSUME NEW strict \in BOOLEAN, NEW quiet \in BOOLEAN, NEW named \in BOOLEAN, NEW K,
               Reaches(strict, c0, r, said), Sound(quiet, named, K, r)
        PROVE  /\ Reaches(strict, c0, q, said) /\ Sound(quiet, named, K, q)
               /\ q.openKind = "none"
    BY <2>1, CloseOpenKeeps
  <2> QED
    BY <1>1, <1>2, <2>1
<1>5. /\ q.tools = ShutTools(r) /\ q.sawToolCall = r.sawToolCall
      /\ q.finishReason = r.finishReason
  BY <1>2, <1>3, ClosedFields
<1>6. KeepsCalls(r, q)
  BY <1>2, <1>5, ShutKeepsCalls
<1> QED
  BY <1>4, <1>6 DEF Working

LEMMA ContentKeepsCalls ==
  ASSUME NEW r, Working(r), NEW kind \in {"thinking", "text"}, NEW q, q = ContentDelta(r, kind)
  PROVE  Working(q) /\ KeepsCalls(r, q)
<1>1. PICK c0, said : Reaches(FALSE, c0, r, said)
  BY DEF Working
<1>2. r \in RendererSet /\ OneBlock(r) /\ Sound(FALSE, FALSE, Nat, r) /\ FALSE \in BOOLEAN
  BY WorkingTyped DEF Working
<1>3. ContentFrame(r, kind, q) /\ Reaches(FALSE, c0, q, Heard(said, kind))
  BY <1>1, <1>2, ContentDeltaRenders
<1>4. q.tools = ShutTools(r)
  BY <1>3 DEF ContentFrame
<1>5. ASSUME NEW quiet \in BOOLEAN, NEW named \in BOOLEAN, NEW K, Sound(quiet, named, K, r)
      PROVE  Sound(quiet, named, K, q)
  <2>1. \A t \in 1..Len(r.tools) : ToolSound(quiet, named, K, q.tools[t])
    BY <1>2, <1>4, <1>5, ShutKeeps
  <2>2. Len(q.tools) = Len(r.tools)
    BY <1>2, <1>4, <1>5, ShutKeeps
  <2> QED
    BY <2>1, <2>2 DEF Sound
<1>6. Sound(FALSE, FALSE, Nat, q)
  BY <1>2, <1>5
<1>7. KeepsCalls(r, q)
  BY <1>2, <1>3, ShutKeepsCalls DEF ContentFrame
<1> QED
  BY <1>3, <1>6, <1>7 DEF Working

LEMMA ToldKeepsCalls ==
  ASSUME NEW r, Working(r), ~r.started => r.openKind = "none", NEW choice \in ChoiceType,
         NEW q, q = Told(r, choice)
  PROVE  Working(q) /\ KeepsCalls(r, q)
<1>1. PICK c0, said : Reaches(FALSE, c0, r, said)
  BY DEF Working
<1>2. r \in RendererSet /\ OneBlock(r) /\ Sound(FALSE, FALSE, Nat, r) /\ FALSE \in BOOLEAN
  BY WorkingTyped DEF Working
<1>3. PICK x : x = StartMessage(r)
  OBVIOUS
<1>4. BegunFrame(r, x) /\ Reaches(FALSE, c0, x, said)
  BY <1>1, <1>2, <1>3, StartMessageRenders
<1>5. x.tools = r.tools /\ x.sawToolCall = r.sawToolCall /\ x.finishReason = r.finishReason
  BY <1>2, <1>4 DEF BegunFrame, RendererSet
<1>6. Working(x) /\ KeepsCalls(r, x)
  <2>1. Sound(FALSE, FALSE, Nat, x)
    BY <1>2, <1>5 DEF Sound
  <2> QED
    BY <1>4, <1>5, <2>1, KeepsTools DEF Working
<1>7. "thinking" \in {"thinking", "text"} /\ "text" \in {"thinking", "text"}
  OBVIOUS
<1>8. PICK y : y = IF choice.thinking THEN ContentDelta(x, "thinking") ELSE x
  OBVIOUS
<1>9. Working(y) /\ KeepsCalls(r, y)
  <2>1. CASE choice.thinking
    <3>1. Working(y) /\ KeepsCalls(x, y)
      BY <1>6, <1>7, <1>8, <2>1, ContentKeepsCalls
    <3> QED
      BY <1>6, <3>1, KeepsOn
  <2>2. CASE ~choice.thinking
    BY <1>6, <1>8, <2>2
  <2> QED
    BY <2>1, <2>2
<1>10. q = IF choice.text THEN ContentDelta(y, "text") ELSE y
  BY <1>3, <1>8 DEF Told
<1>11. CASE choice.text
  <2>1. Working(q) /\ KeepsCalls(y, q)
    BY <1>7, <1>9, <1>10, <1>11, ContentKeepsCalls
  <2> QED
    BY <1>9, <2>1, KeepsOn
<1>12. CASE ~choice.text
  BY <1>9, <1>10, <1>12
<1> QED
  BY <1>11, <1>12

-----------------------------------------------------------------------------
(* A call that a fragment belongs to, in both. *)

\* What one call of toolCallDeltas' loop does before it announces: the call that
\* the fragment belongs to, as it was and as it is.
Taken(strict, c0, said, r, call, q, known, t, tool, noted) ==
  /\ q = IF ~tool.started /\ tool.id /\ tool.name THEN Announce(noted, t) ELSE noted
  /\ known.tools \in Seq(Tool) /\ Len(r.tools) \in Nat /\ Len(r.tools) <= Len(known.tools)
  /\ t \in 1..Len(known.tools) /\ known.tools[t].openAIIndex = call.index
  /\ \A u \in 1..Len(known.tools) :
       IF u <= Len(r.tools) THEN known.tools[u] = r.tools[u]
       ELSE known.tools[u] = NewTool(call.index) /\ u = t
  /\ (\E u \in 1..Len(r.tools) : r.tools[u].openAIIndex = call.index) => t <= Len(r.tools)
  /\ tool = [known.tools[t] EXCEPT
               !.id = @ \/ call.id,
               !.name = @ \/ (~known.tools[t].started /\ call.name),
               !.arguments = JoinArguments(@, call.args)]
  /\ tool \in Tool
  /\ noted.tools \in Seq(Tool) /\ Len(noted.tools) = Len(known.tools)
  /\ \A u \in 1..Len(known.tools) :
       noted.tools[u] = IF u = t THEN tool ELSE known.tools[u]
  /\ noted = [r EXCEPT !.tools = noted.tools]
  /\ Reaches(strict, c0, noted, said)

LEMMA CallTaken ==
  ASSUME NEW strict \in BOOLEAN, NEW r, NEW c0, NEW said, Reaches(strict, c0, r, said),
         NEW call \in CallType, NEW q, q = ToolCallDelta(r, call)
  PROVE  \E known, t, tool, noted :
           Taken(strict, c0, said, r, call, q, known, t, tool, noted)
<1> DEFINE i == call.index
<1>1. r \in RendererSet
  BY DEF Reaches, Rendering, Shape
<1>2. i \in Nat /\ call.id \in BOOLEAN /\ call.name \in BOOLEAN
      /\ call.args \in {"none", "part", "end"}
  BY DEF CallType
<1>3. PICK known : known = ToolFor(r, i)
  OBVIOUS
<1>4. PICK t : t = ToolPosition(known, i)
  OBVIOUS
<1>5. PICK old : old = known.tools[t]
  OBVIOUS
<1>6. PICK tool : tool = [old EXCEPT !.id = @ \/ call.id,
                                     !.name = @ \/ (~old.started /\ call.name),
                                     !.arguments = JoinArguments(@, call.args)]
  OBVIOUS
<1>7. PICK noted : noted = [known EXCEPT !.tools[t] = tool]
  OBVIOUS
<1>8. q = IF ~tool.started /\ tool.id /\ tool.name THEN Announce(noted, t) ELSE noted
  BY ZenonT(60), <1>3, <1>4, <1>5, <1>6, <1>7 DEF ToolCallDelta
<1>9. /\ known = [r EXCEPT !.tools = known.tools] /\ known.tools \in Seq(Tool)
      /\ Len(r.tools) \in Nat /\ Len(r.tools) <= Len(known.tools)
      /\ t \in 1..Len(known.tools) /\ known.tools[t].openAIIndex = i
      /\ \A u \in 1..Len(known.tools) :
           IF u <= Len(r.tools) THEN known.tools[u] = r.tools[u]
           ELSE known.tools[u] = NewTool(i) /\ u = t
      /\ (\E u \in 1..Len(r.tools) : r.tools[u].openAIIndex = i) => t <= Len(r.tools)
  BY SMTT(60), <1>1, <1>2, <1>3, <1>4, ToolFound
<1> HIDE DEF i
<1>10. old \in Tool /\ old.openAIIndex = i /\ Len(known.tools) \in Nat
  BY <1>5, <1>9
<1>11. tool \in Tool
  <2>1. JoinArguments(old.arguments, call.args) \in {"none", "part", "end"}
    <3>1. old.arguments \in {"none", "part", "end"}
      BY <1>10 DEF Tool
    <3> QED
      BY <1>2, <3>1, ArgumentsJoined
  <2>2. (old.id \/ call.id) \in BOOLEAN
        /\ (old.name \/ (~old.started /\ call.name)) \in BOOLEAN
    OBVIOUS
  <2> QED
    BY <1>6, <1>10, <2>1, <2>2 DEF Tool
<1>12. /\ tool.started = old.started /\ tool.closed = old.closed
       /\ tool.blockIndex = old.blockIndex
  BY <1>6, <1>10 DEF Tool
<1> DEFINE T == [known.tools EXCEPT ![t] = tool]
<1>13. /\ T \in Seq(Tool) /\ Len(T) = Len(known.tools)
       /\ \A u \in 1..Len(known.tools) : T[u] = IF u = t THEN tool ELSE known.tools[u]
  BY <1>9, <1>11
<1>14. noted = [known EXCEPT !.tools = T]
  BY <1>7
<1> HIDE DEF T
<1>15. noted = [r EXCEPT !.tools = T]
  BY <1>1, <1>9, <1>14 DEF RendererSet
<1>16. noted.tools = T
  BY <1>1, <1>15 DEF RendererSet
<1>17. ASSUME NEW u \in 1..Len(T)
       PROVE  IF u <= Len(r.tools)
              THEN /\ T[u].started = r.tools[u].started
                   /\ T[u].closed = r.tools[u].closed
                   /\ T[u].blockIndex = r.tools[u].blockIndex
              ELSE ~T[u].started
  <2>1. T[u].started = known.tools[u].started /\ T[u].closed = known.tools[u].closed
        /\ T[u].blockIndex = known.tools[u].blockIndex
    BY <1>5, <1>12, <1>13
  <2>2. IF u <= Len(r.tools) THEN known.tools[u] = r.tools[u]
        ELSE known.tools[u] = NewTool(i) /\ u = t
    BY <1>9, <1>13
  <2>3. ~NewTool(i).started
    BY DEF NewTool
  <2> QED
    BY <2>1, <2>2, <2>3
<1>18. Reaches(strict, c0, noted, said)
  BY <1>9, <1>13, <1>15, <1>17, ToolsNoted
<1>19. Taken(strict, c0, said, r, call, q, known, t, tool, noted)
  BY <1>5, <1>6, <1>8, <1>9, <1>11, <1>13, <1>15, <1>16, <1>18 DEF Taken, i
<1> QED
  BY <1>19

\* A call announced keeps what is recorded of it, and the others all.
Announced(r, t, q) ==
  /\ Len(q.tools) = Len(r.tools) /\ q.finishReason = r.finishReason
  /\ \A u \in 1..Len(r.tools) : /\ q.tools[u].openAIIndex = r.tools[u].openAIIndex
                                /\ View(q.tools[u]) = View(r.tools[u])
                                /\ q.tools[u].started = (u = t \/ r.tools[u].started)

LEMMA AnnouncedTools ==
  ASSUME NEW strict \in BOOLEAN, NEW r, NEW c0, NEW said, Reaches(strict, c0, r, said), ~strict,
         NEW t \in 1..Len(r.tools), ~r.tools[t].started, ~r.tools[t].closed,
         NEW q, q = Announce(r, t)
  PROVE  Announced(r, t, q)
<1>1. r \in RendererSet /\ OneBlock(r)
  BY DEF Reaches, Rendering, Shape
<1>2. PICK x : x = CloseOpenBlock(r)
  OBVIOUS
<1>3. ClosedFrame(r, x) /\ Reaches(strict, c0, x, said)
  BY <1>2, CloseOpenRenders
<1>4. /\ x.tools = ShutTools(r) /\ x.openKind = "none" /\ x.finishReason = r.finishReason
      /\ x.sawToolCall = r.sawToolCall
  BY <1>1, <1>3, ClosedFields
<1>5. KeepsCalls(r, x)
  BY <1>1, <1>4, ShutKeepsCalls
<1>6. /\ Len(x.tools) = Len(r.tools)
      /\ \A u \in 1..Len(r.tools) : /\ x.tools[u].openAIIndex = r.tools[u].openAIIndex
                                    /\ View(x.tools[u]) = View(r.tools[u])
                                    /\ x.tools[u].started = r.tools[u].started
  BY <1>5 DEF KeepsCalls
<1>7. x.tools[t] = r.tools[t]
  <2>1. r.tools \in Seq(Tool) /\ t # r.openTool
    BY <1>1 DEF RendererSet, OneBlock
  <2> QED
    BY <1>1, <1>4, <2>1 DEF ShutTools, OneBlock
<1>8. q = StartToolBlock(x, t)
  BY <1>2 DEF Announce
<1>9. ToolFrame(x, t, q)
  BY <1>3, <1>4, <1>6, <1>7, <1>8, StartToolRenders
<1>10. x \in RendererSet /\ t \in 1..Len(x.tools) /\ x.tools[t] \in Tool
  <2>1. x \in RendererSet /\ t \in 1..Len(x.tools)
    BY <1>3, <1>6 DEF Reaches, Rendering, Shape
  <2>2. x.tools \in Seq(Tool)
    BY <2>1 DEF RendererSet
  <2> QED
    BY <2>1, <2>2
<1>11. q.finishReason = x.finishReason
  BY <1>9, <1>10 DEF ToolFrame, RendererSet
<1>12. /\ Len(q.tools) = Len(x.tools)
       /\ \A u \in 1..Len(x.tools) : q.tools[u] = IF u = t THEN Opened(x, t) ELSE x.tools[u]
  <2>1. Len(q.tools) = Len(x.tools)
    BY <1>9, <1>10, ToolFields
  <2>2. \A u \in 1..Len(x.tools) : q.tools[u] = IF u = t THEN Opened(x, t) ELSE x.tools[u]
    BY <1>9, <1>10, ToolFields
  <2> QED
    BY <2>1, <2>2
<1>13. /\ Opened(x, t).openAIIndex = x.tools[t].openAIIndex
       /\ View(Opened(x, t)) = View(x.tools[t]) /\ Opened(x, t).started = TRUE
  BY <1>10 DEF Opened, View, Tool
<1>14. \A u \in 1..Len(r.tools) : r.tools[u].started \in BOOLEAN
  <2>1. r.tools \in Seq(Tool)
    BY <1>1 DEF RendererSet
  <2>2. \A u \in 1..Len(r.tools) : r.tools[u] \in Tool
    BY <2>1
  <2> QED
    BY <2>2 DEF Tool
<1>15. ASSUME NEW u \in 1..Len(r.tools)
       PROVE  /\ q.tools[u].openAIIndex = r.tools[u].openAIIndex
              /\ View(q.tools[u]) = View(r.tools[u])
              /\ q.tools[u].started = (u = t \/ r.tools[u].started)
  <2>1. q.tools[u] = IF u = t THEN Opened(x, t) ELSE x.tools[u]
    BY <1>6, <1>12
  <2>2. /\ x.tools[u].openAIIndex = r.tools[u].openAIIndex
        /\ View(x.tools[u]) = View(r.tools[u])
        /\ x.tools[u].started = r.tools[u].started
    BY <1>6
  <2>3. CASE u = t
    BY <1>13, <2>1, <2>2, <2>3
  <2>4. CASE u # t
    BY <1>14, <2>1, <2>2, <2>4
  <2> QED
    BY <2>3, <2>4
<1> QED
  BY <1>4, <1>6, <1>11, <1>12, <1>15 DEF Announced

LEMMA RoomMade ==
  ASSUME NEW calls \in Seq(CallRecord), NEW i \in Nat, i <= Len(calls),
         NEW room, room = RoomFor(calls, i)
  PROVE  /\ room \in Seq(CallRecord) /\ i + 1 \in 1..Len(room)
         /\ Len(room) = IF i < Len(calls) THEN Len(calls) ELSE i + 1
         /\ \A u \in 1..Len(room) : room[u] = IF u <= Len(calls) THEN calls[u] ELSE EmptyCall
<1>1. EmptyCall \in CallRecord /\ Len(calls) \in Nat
  BY DEF EmptyCall, CallRecord
<1>2. PICK m \in Nat : m = IF i < Len(calls) THEN 0 ELSE 1
  OBVIOUS
<1>3. 1..(i + 1 - Len(calls)) = 1..m
  BY <1>1, <1>2
<1>4. PICK pad : pad = [j \in 1..m |-> EmptyCall]
  OBVIOUS
<1>5. pad \in Seq(CallRecord) /\ Len(pad) = m /\ \A j \in 1..m : pad[j] = EmptyCall
  BY <1>1, <1>4
<1>6. room = calls \o pad
  BY <1>3, <1>4 DEF RoomFor
<1>7. /\ room \in Seq(CallRecord) /\ Len(room) = Len(calls) + m
      /\ \A u \in 1..(Len(calls) + m) :
           room[u] = IF u <= Len(calls) THEN calls[u] ELSE pad[u - Len(calls)]
  <2>1. pad \in Seq(CallRecord) /\ Len(pad) = m
    BY <1>5
  <2>2. /\ calls \o pad \in Seq(CallRecord) /\ Len(calls \o pad) = Len(calls) + Len(pad)
        /\ \A u \in 1..(Len(calls) + Len(pad)) :
             (calls \o pad)[u] = IF u <= Len(calls) THEN calls[u] ELSE pad[u - Len(calls)]
    BY <2>1, ConcatProperties
  <2> QED
    BY <1>6, <2>1, <2>2
<1>8. \A u \in 1..Len(room) : u <= Len(calls) \/ u - Len(calls) \in 1..m
  BY <1>1, <1>7
<1> QED
  BY <1>1, <1>2, <1>5, <1>7, <1>8

\* Twins after a fragment of a call that is known or the next one: what the
\* aggregator merges is what the renderer records, and a call is announced as
\* soon as it has both its id and its name.
LEMMA CallTwin ==
  ASSUME NEW r, Working(r), NEW calls, SameCalls(r.tools, calls), NEW call \in CallType,
         call.index <= Len(r.tools), NEW q, q = ToolCallDelta(r, call),
         NEW merged, merged = MergeToolCall(calls, call)
  PROVE  /\ Working(q) /\ SameCalls(q.tools, merged) /\ q.finishReason = r.finishReason
         /\ call.index < Len(q.tools) /\ Len(r.tools) <= Len(q.tools)
<1> DEFINE i == call.index
           n == Len(r.tools)
<1>1. PICK c0, said : Reaches(FALSE, c0, r, said)
  BY DEF Working
<1>2. /\ r \in RendererSet /\ OneBlock(r) /\ r.tools \in Seq(Tool) /\ n \in Nat
      /\ Sound(FALSE, FALSE, Nat, r)
  BY WorkingTyped DEF Working
<1>3. i \in Nat /\ call.id \in BOOLEAN /\ call.name \in BOOLEAN
      /\ call.args \in {"none", "part", "end"}
  BY DEF CallType
<1>4. PICK no \in BOOLEAN : no = FALSE
  OBVIOUS
<1>5. Reaches(no, c0, r, said)
  BY <1>1, <1>4
<1>6. PICK known, t, tool, noted : Taken(no, c0, said, r, call, q, known, t, tool, noted)
  BY <1>5, CallTaken
<1>7. /\ q = IF ~tool.started /\ tool.id /\ tool.name THEN Announce(noted, t) ELSE noted
      /\ known.tools \in Seq(Tool) /\ n <= Len(known.tools)
      /\ t \in 1..Len(known.tools) /\ known.tools[t].openAIIndex = i
      /\ \A u \in 1..Len(known.tools) :
           IF u <= n THEN known.tools[u] = r.tools[u]
           ELSE known.tools[u] = NewTool(i) /\ u = t
      /\ (\E u \in 1..n : r.tools[u].openAIIndex = i) => t <= n
      /\ tool = [known.tools[t] EXCEPT
                   !.id = @ \/ call.id,
                   !.name = @ \/ (~known.tools[t].started /\ call.name),
                   !.arguments = JoinArguments(@, call.args)]
      /\ tool \in Tool
      /\ noted.tools \in Seq(Tool) /\ Len(noted.tools) = Len(known.tools)
      /\ \A u \in 1..Len(known.tools) :
           noted.tools[u] = IF u = t THEN tool ELSE known.tools[u]
      /\ noted = [r EXCEPT !.tools = noted.tools]
      /\ Reaches(no, c0, noted, said)
  BY <1>6 DEF Taken
<1>8. Working(q)
  <2>1. ASSUME NEW strict \in BOOLEAN, NEW quiet \in BOOLEAN, NEW named \in BOOLEAN, NEW K,
               ~strict, ~quiet, ~named, Reaches(strict, c0, r, said), Sound(quiet, named, K, r)
        PROVE  Reaches(strict, c0, q, said) /\ Sound(quiet, named, K \cup {i}, q)
    <3>1. strict => MsgOf(r) = "open"
      BY <2>1
    <3>2. quiet => \A u \in 1..Len(r.tools) :
                     r.tools[u].openAIIndex = call.index => ~r.tools[u].closed
      BY <2>1
    <3>3. named => \/ call.id /\ call.name
                   \/ \E u \in 1..Len(r.tools) : r.tools[u].openAIIndex = call.index
      BY <2>1
    <3>4. Reaches(strict, c0, r, said) /\ Sound(quiet, named, K, r)
      BY <2>1
    <3>5. /\ Reaches(strict, c0, q, said) /\ Sound(quiet, named, K \cup {call.index}, q)
          /\ Steady(r, q) /\ MsgOf(q) = MsgOf(r) /\ Grown(r, q)
      BY <2>1, <3>1, <3>2, <3>3, <3>4, ToolCallKeeps
    <3> QED
      BY <3>5
  <2> HIDE DEF i
  <2>2. Reaches(FALSE, c0, q, said) /\ Sound(FALSE, FALSE, Nat \cup {i}, q)
    BY <1>1, <1>2, <2>1
  <2>3. q \in RendererSet
    BY <2>2, ReachedTyped
  <2>4. Sound(FALSE, FALSE, Nat, q)
    BY <2>2, <2>3, SoundLess
  <2> QED
    BY <2>2, <2>4 DEF Working
<1> HIDE DEF i, n
<1>9. /\ calls \in Seq(CallRecord) /\ Len(calls) = n
      /\ \A u \in 1..n : SameCall(r.tools[u], calls[u], u)
  BY DEF SameCalls, n
<1>10. Len(known.tools) \in Nat /\ i <= n
  BY <1>7 DEF i, n
<1>11. t = i + 1 /\ Len(known.tools) = IF i < n THEN n ELSE i + 1
  <2>1. CASE i < n
    <3>1. i + 1 \in 1..n /\ r.tools[i + 1].openAIIndex = i
      <4>1. i + 1 \in 1..n
        BY <1>2, <1>3, <2>1
      <4>2. r.tools[i + 1].openAIIndex = (i + 1) - 1
        BY <1>9, <4>1 DEF SameCall
      <4> QED
        BY <1>3, <4>1, <4>2
    <3>2. t \in 1..n /\ known.tools[t] = r.tools[t]
      BY <1>2, <1>7, <1>10, <3>1
    <3>3. r.tools[t].openAIIndex = t - 1
      BY <1>9, <3>2 DEF SameCall
    <3>4. t = i + 1
      BY <1>2, <1>3, <1>7, <3>2, <3>3
    <3>5. ASSUME n < Len(known.tools) PROVE FALSE
      <4>1. n + 1 \in 1..Len(known.tools) /\ ~(n + 1 <= n)
        BY <1>2, <1>10, <3>5
      <4> QED
        BY <1>2, <1>7, <3>2, <4>1
    <3> QED
      BY <1>2, <1>7, <1>10, <2>1, <3>4, <3>5
  <2>2. CASE ~(i < n)
    <3>1. i = n
      BY <1>2, <1>3, <1>10, <2>2
    <3>2. ~(t <= n)
      <4> SUFFICES ASSUME t <= n PROVE FALSE
        OBVIOUS
      <4>1. t \in 1..n /\ known.tools[t] = r.tools[t]
        BY <1>2, <1>7, <1>10
      <4>2. r.tools[t].openAIIndex = t - 1
        BY <1>9, <4>1 DEF SameCall
      <4> QED
        BY <1>2, <1>7, <3>1, <4>1, <4>2
    <3>3. \A u \in 1..Len(known.tools) : n < u => u = t
      BY <1>2, <1>7, <1>10
    <3>4. n + 1 \in 1..Len(known.tools)
      BY <1>2, <1>7, <1>10, <3>2
    <3>5. t = n + 1
      BY <1>2, <3>3, <3>4
    <3>6. ASSUME n + 1 < Len(known.tools) PROVE FALSE
      <4>1. n + 2 \in 1..Len(known.tools)
        BY <1>2, <1>10, <3>6
      <4> QED
        BY <1>2, <3>3, <3>5, <4>1
    <3> QED
      BY <1>2, <1>10, <2>2, <3>1, <3>4, <3>5, <3>6
  <2> QED
    BY <2>1, <2>2
<1>12. PICK m \in Nat : m = Len(known.tools)
  BY <1>10
<1>13. PICK room : room = RoomFor(calls, i)
  OBVIOUS
<1>14. /\ room \in Seq(CallRecord) /\ Len(room) = m
       /\ \A u \in 1..m : room[u] = IF u <= n THEN calls[u] ELSE EmptyCall
  <2>1. /\ room \in Seq(CallRecord) /\ i + 1 \in 1..Len(room)
        /\ Len(room) = IF i < Len(calls) THEN Len(calls) ELSE i + 1
        /\ \A u \in 1..Len(room) : room[u] = IF u <= Len(calls) THEN calls[u] ELSE EmptyCall
    BY <1>3, <1>9, <1>10, <1>13, RoomMade
  <2> QED
    BY <1>9, <1>11, <1>12, <2>1
\* the call found, in both
<1>15. ASSUME NEW u \in 1..m PROVE SameCall(known.tools[u], room[u], u)
  <2>1. CASE u <= n
    BY <1>2, <1>7, <1>9, <1>12, <1>14, <2>1
  <2>2. CASE ~(u <= n)
    <3>1. known.tools[u] = NewTool(i) /\ u = t /\ room[u] = EmptyCall
      BY <1>7, <1>12, <1>14, <2>2
    <3>2. u - 1 = i
      BY <1>3, <1>11, <3>1
    <3> QED
      BY <3>1, <3>2 DEF SameCall, View, NewTool, EmptyCall
  <2> QED
    BY <2>1, <2>2
<1>16. PICK old : old = known.tools[t]
  OBVIOUS
<1>17. t \in 1..m /\ old \in Tool /\ SameCall(old, room[t], t)
  <2>1. t \in 1..m /\ old \in Tool
    BY <1>7, <1>12, <1>16
  <2> QED
    BY <1>15, <1>16, <2>1
<1>18. /\ tool.id = (old.id \/ call.id)
       /\ tool.name = (old.name \/ (~old.started /\ call.name))
       /\ tool.arguments = JoinArguments(old.arguments, call.args)
       /\ tool.started = old.started /\ tool.closed = old.closed
       /\ tool.openAIIndex = old.openAIIndex
  <2>1. tool = [old EXCEPT !.id = @ \/ call.id,
                           !.name = @ \/ (~old.started /\ call.name),
                           !.arguments = JoinArguments(@, call.args)]
    BY <1>7, <1>16
  <2>2. old \in Tool
    BY <1>17
  <2> QED
    BY <2>1, <2>2 DEF Tool
<1>19. /\ old.id \in BOOLEAN /\ old.name \in BOOLEAN /\ old.started \in BOOLEAN
       /\ old.started <=> old.id /\ old.name
       /\ old.openAIIndex = t - 1 /\ room[t] = View(old)
  BY <1>17 DEF SameCall, Tool
<1>20. PICK rec : rec = [id |-> room[t].id \/ call.id, name |-> room[t].name \/ call.name,
                         arguments |-> JoinArguments(room[t].arguments, call.args)]
  OBVIOUS
<1>21. rec = View(tool)
  <2>1. room[t].id = old.id /\ room[t].name = old.name /\ room[t].arguments = old.arguments
    BY <1>19 DEF View
  <2>2. (old.name \/ (~old.started /\ call.name)) = (old.name \/ call.name)
    BY <1>3, <1>19
  <2> QED
    BY <1>18, <1>20, <2>1, <2>2 DEF View
<1>22. rec \in CallRecord
  BY <1>7, <1>21 DEF View, CallRecord, Tool
<1>23. merged = [room EXCEPT ![t] = rec]
  BY <1>11, <1>13, <1>20 DEF MergeToolCall, i
<1>24. /\ merged \in Seq(CallRecord) /\ Len(merged) = m
       /\ \A u \in 1..m : merged[u] = IF u = t THEN rec ELSE room[u]
  BY <1>14, <1>17, <1>22, <1>23
<1>25. /\ noted.tools \in Seq(Tool) /\ Len(noted.tools) = m
       /\ \A u \in 1..m : noted.tools[u] = IF u = t THEN tool ELSE known.tools[u]
  BY <1>7, <1>12
<1>26. ASSUME NEW u \in 1..m
       PROVE  /\ noted.tools[u].openAIIndex = u - 1 /\ merged[u] = View(noted.tools[u])
              /\ u # t => SameCall(noted.tools[u], merged[u], u)
  <2>1. CASE u = t
    BY <1>18, <1>19, <1>21, <1>24, <1>25, <2>1
  <2>2. CASE u # t
    <3>1. noted.tools[u] = known.tools[u] /\ merged[u] = room[u]
      BY <1>24, <1>25, <2>2
    <3> QED
      BY <1>15, <2>2, <3>1 DEF SameCall
  <2> QED
    BY <2>1, <2>2
<1>27. noted.tools[t] = tool /\ noted.finishReason = r.finishReason
  <2>1. noted.finishReason = r.finishReason
    BY <1>2, <1>7 DEF RendererSet
  <2> QED
    BY <1>17, <1>25, <2>1
<1>28. call.index < m /\ n <= m
  <2>1. i < m
    BY <1>3, <1>11, <1>17
  <2>2. n <= m
    BY <1>7, <1>12
  <2> QED
    BY <2>1, <2>2 DEF i
<1>29. CASE ~tool.started /\ tool.id /\ tool.name
  <2>1. q = Announce(noted, t) /\ t \in 1..Len(noted.tools) /\ ~noted.tools[t].started
    BY <1>7, <1>17, <1>25, <1>27, <1>29
  <2>2. ~noted.tools[t].closed
    <3>1. CASE t <= n
      <4>1. t \in 1..n /\ old = r.tools[t]
        BY <1>2, <1>7, <1>16, <1>17, <3>1
      <4>2. ToolSound(FALSE, FALSE, Nat, old)
        BY <1>2, <4>1 DEF Sound, n
      <4> QED
        BY <1>18, <1>27, <1>29, <4>2 DEF ToolSound
    <3>2. CASE ~(t <= n)
      <4>1. old = NewTool(i)
        BY <1>7, <1>16, <3>2
      <4> QED
        BY <1>18, <1>27, <4>1 DEF NewTool
    <3> QED
      BY <3>1, <3>2
  <2>3. Reaches(no, c0, noted, said) /\ ~no
    BY <1>4, <1>7
  <2>4. Announced(noted, t, q)
    BY <1>4, <2>1, <2>2, <2>3, AnnouncedTools
  <2>5. /\ Len(q.tools) = m /\ q.finishReason = r.finishReason
        /\ \A u \in 1..m : /\ q.tools[u].openAIIndex = noted.tools[u].openAIIndex
                           /\ View(q.tools[u]) = View(noted.tools[u])
                           /\ q.tools[u].started = (u = t \/ noted.tools[u].started)
    BY <1>25, <1>27, <2>4 DEF Announced
  <2>6. ASSUME NEW u \in 1..m PROVE SameCall(q.tools[u], merged[u], u)
    <3>1. /\ q.tools[u].openAIIndex = u - 1 /\ merged[u] = View(q.tools[u])
          /\ q.tools[u].id = noted.tools[u].id /\ q.tools[u].name = noted.tools[u].name
          /\ q.tools[u].started = (u = t \/ noted.tools[u].started)
      <4>1. /\ q.tools[u].openAIIndex = noted.tools[u].openAIIndex
            /\ View(q.tools[u]) = View(noted.tools[u])
            /\ q.tools[u].started = (u = t \/ noted.tools[u].started)
        BY <2>5
      <4>2. q.tools[u].id = noted.tools[u].id /\ q.tools[u].name = noted.tools[u].name
        BY <4>1 DEF View
      <4> QED
        BY <1>26, <4>1, <4>2
    <3>2. noted.tools[u].started \in BOOLEAN
      <4>1. noted.tools[u] \in Tool
        BY <1>25
      <4> QED
        BY <4>1 DEF Tool
    <3>3. CASE u = t
      BY <1>27, <1>29, <3>1, <3>3 DEF SameCall
    <3>4. CASE u # t
      BY <1>26, <3>1, <3>2, <3>4 DEF SameCall
    <3> QED
      BY <3>3, <3>4
  <2>7. SameCalls(q.tools, merged)
    BY <1>24, <2>5, <2>6 DEF SameCalls
  <2> QED
    BY <1>8, <1>28, <2>5, <2>7 DEF n
<1>30. CASE ~(~tool.started /\ tool.id /\ tool.name)
  <2>1. q = noted
    BY <1>7, <1>30
  <2>2. tool.started <=> tool.id /\ tool.name
    BY <1>3, <1>18, <1>19, <1>30
  <2>3. ASSUME NEW u \in 1..m PROVE SameCall(noted.tools[u], merged[u], u)
    BY <1>26, <1>27, <2>2 DEF SameCall
  <2>4. SameCalls(q.tools, merged)
    BY <1>24, <1>25, <2>1, <2>3 DEF SameCalls
  <2> QED
    BY <1>8, <1>25, <1>27, <1>28, <2>1, <2>4 DEF n
<1> QED
  BY <1>29, <1>30

-----------------------------------------------------------------------------
(* The loops of both. *)

LEMMA MergeLoop ==
  ASSUME NEW calls, NEW incoming \in Seq(CallType)
  PROVE  \E g : /\ Runs("merge", calls, incoming, Len(incoming), g)
                /\ MergeToolCalls(calls, incoming) = g[Len(incoming)]
<1> DEFINE m == Len(incoming)
           g == CHOOSE h : Loop("merge", calls, incoming, m, h)
<1>1. m \in Nat
  OBVIOUS
<1>2. Loop("merge", calls, incoming, m, g)
  BY <1>1, LoopExists
<1>3. MergeToolCalls(calls, incoming) = g[m]
  BY DEF MergeToolCalls, Loop, Step
<1> HIDE DEF m, g
<1>4. Runs("merge", calls, incoming, m, g)
  BY <1>1, <1>2, LoopRuns
<1> QED
  BY <1>3, <1>4 DEF m

UsageKept(a, chunk) == [a EXCEPT !.usage = @ \/ chunk.usage]

LEMMA AddLoop ==
  ASSUME NEW a, ~a.fault, NEW chunk \in ChunkType, ~chunk.error
  PROVE  \E g : /\ Runs("add", UsageKept(a, chunk), chunk.choices, NumChoices(chunk), g)
                /\ AddFrame(a, chunk) = g[NumChoices(chunk)]
<1> DEFINE m == Len(chunk.choices)
           g == CHOOSE h : Loop("add", UsageKept(a, chunk), chunk.choices, m, h)
<1>1. m \in Nat
  BY DEF ChunkType
<1>2. Loop("add", UsageKept(a, chunk), chunk.choices, m, g)
  BY <1>1, LoopExists
<1>3. AddFrame(a, chunk) = g[m]
  BY DEF AddFrame, ExtractionFault, Loop, Step, UsageKept
<1> HIDE DEF m, g
<1>4. Runs("add", UsageKept(a, chunk), chunk.choices, m, g)
  BY <1>1, <1>2, LoopRuns
<1> QED
  BY <1>3, <1>4 DEF m, NumChoices

\* Each call of a choice is one of X, one that came before in the choice, or the
\* next one.
Dense(X, choice) ==
  \A k \in 1..Len(choice.calls) :
    0..(choice.calls[k].index - 1) \subseteq X \cup UpTo(choice.calls, k - 1)

\* What a delta leaves of the renderer, and which calls it has taken up then.
TakenUp(X, r, choice, q) ==
  /\ q.finishReason = r.finishReason
  /\ X \cup IndexesOf(choice) \subseteq 0..(Len(q.tools) - 1)
  /\ choice.calls = <<>> => KeepsCalls(r, q)

LEMMA DeltaTwin ==
  ASSUME NEW r, Working(r), ~r.started => r.openKind = "none", NEW choice \in ChoiceType,
         NEW calls, SameCalls(r.tools, calls), NEW X, X \subseteq 0..(Len(r.tools) - 1),
         Dense(X, choice), NEW q, q = RenderDelta(r, choice),
         NEW merged, merged = MergeToolCalls(calls, choice.calls)
  PROVE  Working(q) /\ SameCalls(q.tools, merged) /\ TakenUp(X, r, choice, q)
<1> DEFINE items == choice.calls
           m == Len(items)
<1>1. items \in Seq(CallType) /\ m \in Nat
  <2>1. items \in Seq(CallType)
    BY DEF ChoiceType
  <2> QED
    BY <2>1
<1>2. PICK x : x = Told(r, choice)
  OBVIOUS
<1>3. PICK f : Runs("call", x, items, m, f) /\ q = f[m]
  BY <1>2, CallsLoop
<1>4. PICK g : Runs("merge", calls, items, m, g) /\ merged = g[m]
  BY <1>1, MergeLoop
<1>5. Working(x) /\ KeepsCalls(r, x)
  BY <1>2, ToldKeepsCalls
<1>6. f[0] = x /\ g[0] = calls
  BY <1>3, <1>4 DEF Runs
<1>7. SameCalls(x.tools, calls) /\ x.finishReason = r.finishReason
      /\ Len(x.tools) = Len(r.tools)
  <2>1. r \in RendererSet /\ x \in RendererSet
    BY <1>5, WorkingTyped
  <2> QED
    BY <1>5, <2>1, SameOn DEF KeepsCalls
<1> DEFINE P(y, b, n) == /\ Working(y) /\ SameCalls(y.tools, b)
                         /\ y.finishReason = r.finishReason
                         /\ X \cup UpTo(items, n) \subseteq 0..(Len(y.tools) - 1)
           T == {n \in Nat : n <= m => P(f[n], g[n], n)}
<1>8. 0 \in T
  <2>1. UpTo(items, 0) = {}
    <3>1. 1..0 = {}
      OBVIOUS
    <3> QED
      BY <3>1 DEF UpTo
  <2>2. X \cup UpTo(items, 0) \subseteq 0..(Len(x.tools) - 1)
    BY <1>7, <2>1
  <2>3. P(x, calls, 0)
    BY <1>5, <1>7, <2>2
  <2> HIDE DEF P
  <2> QED
    BY <1>6, <2>3
<1>9. ASSUME NEW n \in T PROVE n + 1 \in T
  <2> SUFFICES ASSUME n + 1 <= m PROVE P(f[n + 1], g[n + 1], n + 1)
    OBVIOUS
  <2> DEFINE call == items[n + 1]
  <2>1. n \in Nat /\ n + 1 \in 1..m /\ (n + 1) - 1 = n /\ n <= m
    BY <1>1
  <2>2. PICK y, b : y = f[n] /\ b = g[n]
    OBVIOUS
  <2>3. PICK z, d : z = f[n + 1] /\ d = g[n + 1]
    OBVIOUS
  <2>4. P(y, b, n)
    <3> HIDE DEF P
    <3> QED
      BY <2>1, <2>2
  <2>5. z = ToolCallDelta(y, call) /\ d = MergeToolCall(b, call)
    <3>1. /\ f[n + 1] = Step("call", f[(n + 1) - 1], items, n + 1)
          /\ g[n + 1] = Step("merge", g[(n + 1) - 1], items, n + 1)
      BY <1>3, <1>4, <2>1 DEF Runs
    <3> HIDE DEF P, T, call, items
    <3>2. /\ f[n + 1] = ToolCallDelta(f[(n + 1) - 1], items[n + 1])
          /\ g[n + 1] = MergeToolCall(g[(n + 1) - 1], items[n + 1])
      BY <3>1 DEF Step
    <3> QED
      BY <2>1, <2>2, <2>3, <3>2 DEF call
  <2>6. call \in CallType /\ call.index \in Nat
    <3>1. call \in CallType
      BY <1>1, <2>1
    <3> QED
      BY <3>1 DEF CallType
  <2>7. Len(y.tools) \in Nat
    BY <2>4, WorkingTyped
  <2>8. 0..(call.index - 1) \subseteq 0..(Len(y.tools) - 1)
    <3>1. 0..(call.index - 1) \subseteq X \cup UpTo(items, (n + 1) - 1)
      BY <2>1 DEF Dense
    <3> QED
      BY <2>1, <2>4, <3>1
  <2> HIDE DEF call
  <2>9. call.index <= Len(y.tools)
    <3>1. CASE call.index = 0
      BY <2>7, <3>1
    <3>2. CASE call.index # 0
      <4>1. call.index - 1 \in 0..(call.index - 1)
        BY <2>6, <3>2
      <4>2. call.index - 1 \in 0..(Len(y.tools) - 1)
        BY <2>8, <4>1
      <4> QED
        BY <2>6, <2>7, <4>2
    <3> QED
      BY <3>1, <3>2
  <2>10. /\ Working(z) /\ SameCalls(z.tools, d) /\ z.finishReason = y.finishReason
         /\ call.index < Len(z.tools) /\ Len(y.tools) <= Len(z.tools)
    <3>1. Working(y) /\ SameCalls(y.tools, b)
      BY <2>4
    <3> HIDE DEF P
    <3> QED
      BY <2>5, <2>6, <2>9, <3>1, CallTwin
  <2>11. UpTo(items, n + 1) = UpTo(items, n) \cup {call.index}
    <3>1. 1..(n + 1) = 1..n \cup {n + 1}
      BY <2>1
    <3> QED
      BY <3>1 DEF UpTo, call
  <2>12. Len(z.tools) \in Nat
    BY <2>10, WorkingTyped
  <2>13. X \cup UpTo(items, n + 1) \subseteq 0..(Len(z.tools) - 1)
    <3>1. 0..(Len(y.tools) - 1) \subseteq 0..(Len(z.tools) - 1)
      BY <2>7, <2>10, <2>12
    <3>2. call.index \in 0..(Len(z.tools) - 1)
      BY <2>6, <2>10, <2>12
    <3> QED
      BY <2>4, <2>11, <3>1, <3>2
  <2>14. P(z, d, n + 1)
    BY <2>4, <2>10, <2>13
  <2> HIDE DEF P
  <2> QED
    BY <2>3, <2>14
<1>10. m \in T
  <2> HIDE DEF T
  <2>1. T \in SUBSET Nat
    BY DEF T
  <2> QED
    BY <1>1, <1>8, <1>9, <2>1, Counting
<1>11. P(q, merged, m)
  <2> HIDE DEF P, m
  <2> QED
    BY <1>1, <1>3, <1>4, <1>10
<1>12. choice.calls = <<>> => q = x
  BY <1>3, <1>6
<1> QED
  BY <1>5, <1>11, <1>12 DEF IndexesOf, TakenUp

\* The renderer and the aggregator side by side: alike, and with the calls of X.
AggregateSet ==
  [thinking : Nat, reasoned : BOOLEAN, text : Nat, toolCalls : Seq(CallRecord),
   usage : BOOLEAN, finishReason : FinishReasons, fault : BOOLEAN]
Alike(r, a) == SameCalls(r.tools, a.toolCalls) /\ SameReason(r, a.finishReason)
Beside(X, r, a) ==
  /\ Working(r) /\ (~r.started => r.openKind = "none")
  /\ a \in AggregateSet /\ Alike(r, a)
  /\ X \subseteq 0..(Len(r.tools) - 1)

\* What a choice adds to the aggregate, its calls aside.
Gained(a, choice, b) ==
  /\ b.thinking = a.thinking + (IF choice.thinking THEN 1 ELSE 0)
  /\ b.text = a.text + (IF choice.text THEN 1 ELSE 0)
  /\ b.finishReason = IF choice.finish # "none" THEN choice.finish ELSE a.finishReason
  /\ b.fault = a.fault

LEMMA AddedTyped ==
  ASSUME NEW a \in AggregateSet, NEW choice \in ChoiceType, NEW b, b = AddChoice(a, choice),
         MergeToolCalls(a.toolCalls, choice.calls) \in Seq(CallRecord)
  PROVE  /\ b \in AggregateSet /\ Gained(a, choice, b)
         /\ b.toolCalls = MergeToolCalls(a.toolCalls, choice.calls)
<1>1. PICK merged \in Seq(CallRecord) : merged = MergeToolCalls(a.toolCalls, choice.calls)
  OBVIOUS
<1>2. PICK th \in Nat : th = a.thinking + (IF choice.thinking THEN 1 ELSE 0)
  BY DEF AggregateSet
<1>3. PICK tx \in Nat : tx = a.text + (IF choice.text THEN 1 ELSE 0)
  BY DEF AggregateSet
<1>4. PICK reason \in FinishReasons :
        reason = IF choice.finish # "none" THEN choice.finish ELSE a.finishReason
  BY DEF AggregateSet, ChoiceType
<1>5. PICK more \in BOOLEAN : more = (a.reasoned \/ (choice.thinking /\ ~choice.blank))
  OBVIOUS
<1>6. b = [a EXCEPT !.text = tx, !.thinking = th, !.reasoned = more, !.toolCalls = merged,
                    !.finishReason = reason]
  BY <1>1, <1>2, <1>3, <1>4, <1>5 DEF AddChoice, AggregateSet
<1>7. b \in AggregateSet
  BY <1>1, <1>2, <1>3, <1>4, <1>5, <1>6 DEF AggregateSet
<1>8. b.text = tx /\ b.thinking = th /\ b.toolCalls = merged /\ b.finishReason = reason
      /\ b.fault = a.fault
  BY <1>6 DEF AggregateSet
<1> QED
  BY <1>1, <1>2, <1>3, <1>4, <1>7, <1>8 DEF Gained

LEMMA ChoiceTwin ==
  ASSUME NEW X, NEW r, NEW a, Beside(X, r, a), NEW choice \in ChoiceType, Dense(X, choice),
         choice.thinking \/ choice.text \/ choice.calls # <<>> => choice.delta,
         choice.calls # <<>> \/ choice.finish # "none" => a.finishReason = "none",
         NEW q, q = RenderChoice(r, choice), NEW b, b = AddChoice(a, choice)
  PROVE  Beside(X \cup IndexesOf(choice), q, b) /\ Gained(a, choice, b)
<1>1. /\ Working(r) /\ (~r.started => r.openKind = "none") /\ a \in AggregateSet
      /\ SameCalls(r.tools, a.toolCalls) /\ SameReason(r, a.finishReason)
      /\ X \subseteq 0..(Len(r.tools) - 1)
  BY DEF Beside, Alike
<1>2. PICK x : x = IF choice.delta THEN RenderDelta(r, choice) ELSE r
  OBVIOUS
<1>3. PICK merged : merged = MergeToolCalls(a.toolCalls, choice.calls)
  OBVIOUS
<1>4. /\ Working(x) /\ SameCalls(x.tools, merged) /\ x.finishReason = r.finishReason
      /\ X \cup IndexesOf(choice) \subseteq 0..(Len(x.tools) - 1)
      /\ choice.calls = <<>> => KeepsCalls(r, x)
  <2>1. CASE choice.delta
    <3>1. x = RenderDelta(r, choice)
      BY <1>2, <2>1
    <3>2. PICK calls : calls = a.toolCalls
      OBVIOUS
    <3>3. SameCalls(r.tools, calls) /\ merged = MergeToolCalls(calls, choice.calls)
      BY <1>1, <1>3, <3>2
    <3>4. /\ Working(r) /\ (~r.started => r.openKind = "none") /\ Dense(X, choice)
          /\ X \subseteq 0..(Len(r.tools) - 1)
      BY <1>1
    <3>5. Working(x) /\ SameCalls(x.tools, merged) /\ TakenUp(X, r, choice, x)
      BY <3>1, <3>3, <3>4, DeltaTwin
    <3> QED
      BY <3>5 DEF TakenUp
  <2>2. CASE ~choice.delta
    <3>1. x = r /\ choice.calls = <<>>
      BY <1>2, <2>2
    <3>2. merged = a.toolCalls
      <4>1. choice.calls \in Seq(CallType) /\ Len(choice.calls) = 0
        BY <3>1 DEF ChoiceType
      <4>2. PICK g : /\ Runs("merge", a.toolCalls, choice.calls, Len(choice.calls), g)
                     /\ merged = g[Len(choice.calls)]
        BY <1>3, <4>1, MergeLoop
      <4> QED
        BY <4>1, <4>2 DEF Runs
    <3>3. IndexesOf(choice) = {}
      <4>1. 1..Len(choice.calls) = {}
        BY <3>1
      <4> QED
        BY <4>1 DEF IndexesOf, UpTo
    <3>4. KeepsCalls(r, x)
      BY <3>1, KeepsTools
    <3>5. X \cup IndexesOf(choice) = X
      BY <3>3
    <3> QED
      BY <1>1, <3>1, <3>2, <3>4, <3>5
  <2> QED
    BY <2>1, <2>2
<1>5. SameReason(x, a.finishReason)
  <2>1. CASE choice.calls = <<>>
    <3>1. r \in RendererSet /\ x \in RendererSet
      BY <1>1, <1>4, WorkingTyped
    <3> QED
      BY <1>1, <1>4, <2>1, <3>1, SameOn
  <2>2. CASE choice.calls # <<>>
    BY <1>1, <1>4, <2>2 DEF SameReason
  <2> QED
    BY <2>1, <2>2
<1>6. b \in AggregateSet /\ Gained(a, choice, b) /\ b.toolCalls = merged
  <2>1. merged \in Seq(CallRecord)
    BY <1>4 DEF SameCalls
  <2> QED
    BY <1>1, <1>3, <2>1, AddedTyped
<1>7. ~q.started => q.openKind = "none"
  <2>1. PICK c0, said : Reaches(FALSE, c0, r, said) /\ Sound(FALSE, FALSE, Nat, r)
    BY <1>1 DEF Working
  <2>2. ASSUME NEW strict \in BOOLEAN, NEW quiet \in BOOLEAN, NEW named \in BOOLEAN, NEW K,
               NEW H, ~strict, ~quiet, ~named, Reaches(strict, c0, r, said),
               Sound(quiet, named, K, r), Holds(H, r)
        PROVE  ChoiceFrame(r, choice.delta, q)
    <3>1. strict => ~r.deltaSent /\ ~r.stopSent
      BY <2>2
    <3>2. Fits(quiet, named, K, H, r, choice)
      BY <2>2 DEF Fits
    <3>3. ~r.started => r.openKind = "none"
      BY <1>1
    <3>4. Reaches(strict, c0, q, Hear(said, choice))
      BY <2>2, <3>1, <3>2, <3>3, ChoiceKeeps
    <3>5. Sound(quiet, named, K \cup UpTo(choice.calls, Len(choice.calls)), q)
      BY <2>2, <3>1, <3>2, <3>3, ChoiceKeeps
    <3> QED
      BY <2>2, <3>1, <3>2, <3>3, <3>4, <3>5, ChoiceKeeps
  <2>3. Holds({}, r)
    BY DEF Holds
  <2>4. ChoiceFrame(r, choice.delta, q)
    BY <2>1, <2>2, <2>3
  <2> QED
    BY <2>4 DEF ChoiceFrame
<1>8. CASE choice.finish = "none"
  <2>1. q = x
    BY <1>2, <1>8 DEF RenderChoice
  <2>2. b.finishReason = a.finishReason
    BY <1>6, <1>8 DEF Gained
  <2> QED
    BY <1>4, <1>5, <1>6, <1>7, <2>1, <2>2 DEF Beside, Alike
<1>9. CASE choice.finish # "none"
  <2>1. PICK reason : reason = NormalizeFinishReason(choice.finish, x.sawToolCall,
                                                     ToolArgumentsValid(x))
    OBVIOUS
  <2>2. PICK y : y = [x EXCEPT !.finishReason = reason]
    OBVIOUS
  <2>3. q = CloseOpenBlock(y)
    BY <1>2, <1>9, <2>1, <2>2 DEF RenderChoice
  <2>4. x \in RendererSet
    BY <1>4, WorkingTyped
  <2>5. reason \in FinishReasons /\ (reason = "tool_calls" => x.sawToolCall)
    <3>1. choice.finish \in FinishReasons
      BY DEF ChoiceType
    <3>2. x.sawToolCall \in BOOLEAN
      BY <2>4 DEF RendererSet
    <3>3. ToolArgumentsValid(x) \in BOOLEAN
      BY DEF ToolArgumentsValid
    <3> QED
      BY <1>9, <2>1, <3>1, <3>2, <3>3, ReasonNormal
  <2>6. Working(y)
    <3>1. PICK c0, said : Reaches(FALSE, c0, x, said) /\ Sound(FALSE, FALSE, Nat, x)
      BY <1>4 DEF Working
    <3>2. ASSUME NEW strict \in BOOLEAN, Reaches(strict, c0, x, said)
          PROVE  Reaches(strict, c0, y, said)
      <4>1. /\ Reaches(strict, c0, y, said) /\ y.tools = x.tools /\ Steady(x, y)
            /\ y.openKind = x.openKind
        BY <2>2, <2>5, <3>2, ReasonNoted
      <4> QED
        BY <4>1
    <3>3. Reaches(FALSE, c0, y, said) /\ y.tools = x.tools
      BY <2>2, <2>4, <3>1, <3>2 DEF RendererSet
    <3> QED
      BY <3>1, <3>3 DEF Working, Sound
  <2>7. y.tools = x.tools /\ y.sawToolCall = x.sawToolCall /\ y.finishReason = reason
    BY <2>2, <2>4 DEF RendererSet
  <2>8. SameCalls(y.tools, merged) /\ SameReason(y, choice.finish)
    <3>1. ToolArgumentsValid(y) = ToolArgumentsValid(x)
      BY <2>7 DEF ToolArgumentsValid
    <3> QED
      BY <1>4, <1>9, <2>1, <2>7, <3>1 DEF SameReason
  <2>9. Working(q) /\ KeepsCalls(y, q)
    BY <2>3, <2>6, CloseKeepsCalls
  <2>10. /\ SameCalls(q.tools, merged) /\ SameReason(q, choice.finish)
         /\ Len(q.tools) = Len(x.tools)
    <3>1. y \in RendererSet /\ q \in RendererSet
      BY <2>6, <2>9, WorkingTyped
    <3> QED
      BY <2>7, <2>8, <2>9, <3>1, SameOn DEF KeepsCalls
  <2>11. b.finishReason = choice.finish
    BY <1>6, <1>9 DEF Gained
  <2> QED
    BY <1>4, <1>6, <1>7, <2>9, <2>10, <2>11 DEF Beside, Alike
<1> QED
  BY <1>8, <1>9

\* Each choice of a chunk finds the calls of X and of the choices before it, and
\* a finish reason comes with the last one.
Spread(X, chunk) ==
  \A c \in 1..NumChoices(chunk) :
    /\ Dense(X \cup IndexesUpTo(chunk, c - 1), chunk.choices[c])
    /\ chunk.choices[c].finish # "none" => c = NumChoices(chunk)

\* What the first n choices of a chunk add to the aggregate.
GainedUpTo(a, chunk, n, b) ==
  /\ <<0, b.thinking, b.text>> = HearUpTo(<<0, a.thinking, a.text>>, chunk, n)
  /\ (\A j \in 1..n : chunk.choices[j].finish = "none") => b.finishReason = a.finishReason
  /\ b.fault = a.fault

LEMMA CountedTwin ==
  ASSUME NEW X, NEW r, NEW a, Beside(X, r, a), NEW chunk \in ChunkType,
         NEW x, x = Counted(r, chunk), NEW b, b = UsageKept(a, chunk)
  PROVE  Beside(X, x, b) /\ GainedUpTo(a, chunk, 0, b)
<1>1. /\ Working(r) /\ (~r.started => r.openKind = "none") /\ a \in AggregateSet
      /\ SameCalls(r.tools, a.toolCalls) /\ SameReason(r, a.finishReason)
      /\ X \subseteq 0..(Len(r.tools) - 1)
  BY DEF Beside, Alike
<1>2. r \in RendererSet /\ chunk.usage \in BOOLEAN
  BY <1>1, WorkingTyped DEF ChunkType
<1>3. PICK c0, said : Reaches(FALSE, c0, r, said) /\ Sound(FALSE, FALSE, Nat, r)
  BY <1>1 DEF Working
<1>4. PICK usage \in BOOLEAN : usage = (r.hasUsage \/ chunk.usage)
  OBVIOUS
<1>5. Noted(r, r.finishReason, usage, x)
  BY <1>2, <1>4 DEF Noted, Counted, RendererSet
<1>6. /\ x.tools = r.tools /\ x.openKind = r.openKind /\ x.started = r.started
      /\ x.sawToolCall = r.sawToolCall /\ x.finishReason = r.finishReason
  BY <1>2, <1>5 DEF Noted, RendererSet
<1>7. Working(x)
  <2>1. ASSUME NEW strict \in BOOLEAN, Reaches(strict, c0, r, said)
        PROVE  Reaches(strict, c0, x, said)
    <3>1. r.finishReason \in FinishReasons /\ (r.finishReason = "tool_calls" => r.sawToolCall)
      BY <2>1 DEF Reaches, Rendering, Shape, RendererSet
    <3> QED
      BY <1>4, <1>5, <2>1, <3>1, FieldNoted
  <2>2. Reaches(FALSE, c0, x, said)
    BY <1>3, <2>1
  <2> QED
    BY <1>3, <1>6, <2>2 DEF Working, Sound
<1>8. SameCalls(x.tools, a.toolCalls) /\ SameReason(x, a.finishReason)
  <2>1. x \in RendererSet /\ KeepsCalls(r, x)
    BY <1>6, <1>7, KeepsTools, WorkingTyped
  <2> QED
    BY <1>1, <1>2, <2>1, SameOn
<1>9. /\ b \in AggregateSet /\ b.toolCalls = a.toolCalls /\ b.finishReason = a.finishReason
      /\ b.thinking = a.thinking /\ b.text = a.text /\ b.fault = a.fault
  <2>1. PICK used \in BOOLEAN : used = (a.usage \/ chunk.usage)
    OBVIOUS
  <2>2. b = [a EXCEPT !.usage = used]
    BY <1>1, <2>1 DEF UsageKept, AggregateSet
  <2> QED
    BY <1>1, <2>2 DEF AggregateSet
<1>10. a.thinking \in Nat /\ a.text \in Nat
  BY <1>1 DEF AggregateSet
<1>11. GainedUpTo(a, chunk, 0, b)
  <2>1. 1..0 = {}
    OBVIOUS
  <2>2. Thought(chunk, 0) = {} /\ Spoken(chunk, 0) = {}
    BY <2>1 DEF Thought, Spoken
  <2>3. Cardinality({}) = 0
    BY FS_EmptySet
  <2>4. a.thinking + 0 = a.thinking /\ a.text + 0 = a.text
    BY <1>10
  <2>5. HearUpTo(<<0, a.thinking, a.text>>, chunk, 0) = <<0, a.thinking, a.text>>
    BY <2>2, <2>3, <2>4 DEF HearUpTo
  <2> QED
    BY <1>9, <2>5 DEF GainedUpTo
<1> QED
  BY <1>1, <1>6, <1>7, <1>8, <1>9, <1>11 DEF Beside, Alike

LEMMA ChunkTwin ==
  ASSUME NEW X, NEW r, NEW a, Beside(X, r, a), NEW chunk \in ChunkType, Proper(chunk),
         Spread(X, chunk),
         NEW f, Runs("choice", Counted(r, chunk), chunk.choices, NumChoices(chunk), f),
         NEW g, Runs("add", UsageKept(a, chunk), chunk.choices, NumChoices(chunk), g),
         \A c \in 1..NumChoices(chunk) :
           chunk.choices[c].calls # <<>> \/ chunk.choices[c].finish # "none"
             => a.finishReason = "none",
         NEW q, q = f[NumChoices(chunk)], NEW b, b = g[NumChoices(chunk)]
  PROVE  /\ Beside(X \cup IndexesUpTo(chunk, NumChoices(chunk)), q, b)
         /\ GainedUpTo(a, chunk, NumChoices(chunk), b)
<1> DEFINE m == NumChoices(chunk)
           items == chunk.choices
           P(y, d, n) == Beside(X \cup IndexesUpTo(chunk, n), y, d) /\ GainedUpTo(a, chunk, n, d)
           T == {n \in Nat : n <= m => P(f[n], g[n], n)}
<1>1. m \in Nat /\ \A c \in 1..m : items[c] \in ChoiceType
  BY ChunkTyped
<1>2. 0 \in T
  <2>1. PICK y, d : y = Counted(r, chunk) /\ d = UsageKept(a, chunk)
    OBVIOUS
  <2>2. Beside(X, y, d) /\ GainedUpTo(a, chunk, 0, d)
    BY <2>1, CountedTwin
  <2>3. f[0] = y /\ g[0] = d
    BY <2>1 DEF Runs
  <2>4. X \cup IndexesUpTo(chunk, 0) = X
    <3>1. 1..0 = {}
      OBVIOUS
    <3> QED
      BY <3>1 DEF IndexesUpTo
  <2> QED
    BY <2>2, <2>3, <2>4
<1>3. ASSUME NEW n \in T PROVE n + 1 \in T
  <2> SUFFICES ASSUME n + 1 <= m PROVE P(f[n + 1], g[n + 1], n + 1)
    OBVIOUS
  <2> DEFINE choice == items[n + 1]
             L == X \cup IndexesUpTo(chunk, n)
  <2>1. n \in Nat /\ n + 1 \in 1..m /\ (n + 1) - 1 = n /\ n <= m /\ n < m
    BY <1>1
  <2>2. PICK y, d : y = f[n] /\ d = g[n]
    OBVIOUS
  <2>3. PICK z, e : z = f[n + 1] /\ e = g[n + 1]
    OBVIOUS
  <2>4. Beside(L, y, d) /\ GainedUpTo(a, chunk, n, d)
    <3> HIDE DEF L
    <3> QED
      BY <2>1, <2>2 DEF L
  <2>5. z = RenderChoice(y, choice) /\ e = AddChoice(d, choice)
    <3>1. /\ f[n + 1] = Step("choice", f[(n + 1) - 1], items, n + 1)
          /\ g[n + 1] = Step("add", g[(n + 1) - 1], items, n + 1)
      BY <2>1 DEF Runs
    <3> HIDE DEF P, T, choice, items
    <3>2. /\ f[n + 1] = RenderChoice(f[(n + 1) - 1], items[n + 1])
          /\ g[n + 1] = AddChoice(g[(n + 1) - 1], items[n + 1])
      BY <3>1 DEF Step
    <3> QED
      BY <2>1, <2>2, <2>3, <3>2 DEF choice
  <2>6. choice \in ChoiceType
    BY <1>1, <2>1
  <2>7. choice.thinking \/ choice.text \/ choice.calls # <<>> => choice.delta
    BY <2>1 DEF Proper
  <2>8. Dense(L, choice)
    <3>1. Dense(X \cup IndexesUpTo(chunk, (n + 1) - 1), chunk.choices[n + 1])
      BY <2>1 DEF Spread
    <3> QED
      BY <2>1, <3>1
  <2>9. \A j \in 1..n : items[j].finish = "none"
    <3> SUFFICES ASSUME NEW j \in 1..n, items[j].finish # "none" PROVE FALSE
      OBVIOUS
    <3>1. j \in 1..m /\ j # m
      BY <1>1, <2>1
    <3> QED
      BY <3>1 DEF Spread
  <2>10. d.finishReason = a.finishReason
    BY <2>4, <2>9 DEF GainedUpTo
  <2>11. choice.calls # <<>> \/ choice.finish # "none" => d.finishReason = "none"
    BY <2>1, <2>10
  <2> HIDE DEF choice, L
  <2>12. Beside(L \cup IndexesOf(choice), z, e)
    BY <2>4, <2>5, <2>6, <2>7, <2>8, <2>11, ChoiceTwin
  <2>13. Gained(d, choice, e)
    BY <2>4, <2>5, <2>6, <2>7, <2>8, <2>11, <2>12, ChoiceTwin
  <2>14. L \cup IndexesOf(choice) = X \cup IndexesUpTo(chunk, n + 1)
    <3>1. 1..(n + 1) = 1..n \cup {n + 1}
      BY <2>1
    <3> QED
      BY <3>1 DEF L, IndexesUpTo, choice
  <2>15. GainedUpTo(a, chunk, n + 1, e)
    <3> DEFINE said == <<0, a.thinking, a.text>>
               heard == HearUpTo(said, chunk, n)
    <3>1. said[2] \in Nat /\ said[3] \in Nat
      BY DEF Beside, AggregateSet
    <3>2. Hear(heard, choice) = HearUpTo(said, chunk, n + 1)
      <4>1. chunk.choices[n + 1] \in ChoiceType
        BY <2>6 DEF choice
      <4> HIDE DEF said
      <4> QED
        BY <2>1, <3>1, <4>1, HearOneMore DEF choice
    <3>3. heard = <<0, d.thinking, d.text>>
      BY <2>4 DEF GainedUpTo
    <3>4. Hear(heard, choice) = <<0, e.thinking, e.text>>
      <4>1. heard[1] = 0 /\ heard[2] = d.thinking /\ heard[3] = d.text
        BY <3>3
      <4> HIDE DEF heard
      <4> QED
        BY <2>13, <4>1 DEF Hear, Gained
    <3>5. (\A j \in 1..(n + 1) : chunk.choices[j].finish = "none")
            => e.finishReason = a.finishReason
      <4> SUFFICES ASSUME \A j \in 1..(n + 1) : chunk.choices[j].finish = "none"
                   PROVE  e.finishReason = a.finishReason
        OBVIOUS
      <4>1. choice.finish = "none"
        BY <2>1 DEF choice
      <4> QED
        BY <2>10, <2>13, <4>1 DEF Gained
    <3>6. e.fault = a.fault
      BY <2>4, <2>13 DEF GainedUpTo, Gained
    <3> QED
      BY <3>2, <3>4, <3>5, <3>6 DEF GainedUpTo
  <2> QED
    BY <2>3, <2>12, <2>14, <2>15
<1>4. m \in T
  <2> HIDE DEF T
  <2>1. T \in SUBSET Nat
    BY DEF T
  <2> QED
    BY <1>1, <1>2, <1>3, <2>1, Counting
<1>5. P(f[m], g[m], m)
  <2> HIDE DEF P, m
  <2> QED
    BY <1>1, <1>4
<1> QED
  BY <1>5

\* The end of the message keeps the calls too.
LEMMA EndKeepsCalls ==
  ASSUME NEW z \in RendererSet, NEW q, q = MessageStop(MessageDelta(z))
  PROVE  /\ q.tools = z.tools /\ q.sawToolCall = z.sawToolCall
         /\ q.finishReason = z.finishReason /\ q.deltaSent = TRUE
<1>1. PICK x : x = MessageDelta(z)
  OBVIOUS
<1>2. /\ x.tools = z.tools /\ x.sawToolCall = z.sawToolCall
      /\ x.finishReason = z.finishReason /\ x.deltaSent = TRUE
      /\ DOMAIN x = DOMAIN z
  <2>1. CASE z.deltaSent
    BY <1>1, <2>1 DEF MessageDelta, RendererSet
  <2>2. CASE ~z.deltaSent
    <3> DEFINE e == Event("message_delta", -1,
                      ClaudeStopReason(IF z.finishReason = "none" THEN "stop" ELSE z.finishReason,
                                       z.sawToolCall, ToolArgumentsValid(z)))
    <3>1. x = Emit([z EXCEPT !.deltaSent = TRUE], e)
      BY <1>1, <2>2 DEF MessageDelta
    <3> HIDE DEF e
    <3> QED
      BY <3>1 DEF Emit, RendererSet
  <2> QED
    BY <2>1, <2>2
<1>3. q = MessageStop(x)
  BY <1>1
<1>4. CASE x.stopSent
  BY <1>2, <1>3, <1>4 DEF MessageStop
<1>5. CASE ~x.stopSent
  <2> DEFINE e == Event("message_stop", -1, "none")
  <2>1. q = Emit([x EXCEPT !.stopSent = TRUE], e)
    BY <1>3, <1>5 DEF MessageStop
  <2> HIDE DEF e
  <2>2. q.tools = x.tools /\ q.sawToolCall = x.sawToolCall /\ q.finishReason = x.finishReason
        /\ q.deltaSent = x.deltaSent
    BY <1>2, <2>1 DEF Emit, RendererSet
  <2> QED
    BY <1>2, <2>2
<1> QED
  BY <1>4, <1>5

LEMMA AlikeOn ==
  ASSUME NEW r, NEW a, Alike(r, a), NEW q, q.tools = r.tools, q.sawToolCall = r.sawToolCall,
         q.finishReason = r.finishReason
  PROVE  Alike(q, a)
  BY DEF Alike, SameReason, ToolArgumentsValid

\* One frame, streamed and buffered.
LEMMA FeedTwin ==
  ASSUME NEW X, NEW r, NEW a, Beside(X, r, a), ~a.fault,
         NEW chunk \in ChunkType, ~chunk.error, Proper(chunk), Spread(X, chunk),
         \A c \in 1..NumChoices(chunk) :
           chunk.choices[c].calls # <<>> \/ chunk.choices[c].finish # "none"
             => a.finishReason = "none",
         NEW q, q = Feed(r, chunk), NEW b, b = AddFrame(a, chunk)
  PROVE  /\ b \in AggregateSet /\ Alike(q, b)
         /\ GainedUpTo(a, chunk, NumChoices(chunk), b)
<1>1. PICK f : /\ Runs("choice", Counted(r, chunk), chunk.choices, NumChoices(chunk), f)
               /\ q = EndOfChunk(f[NumChoices(chunk)], chunk)
  BY ChoicesLoop DEF NumChoices
<1>2. PICK g : /\ Runs("add", UsageKept(a, chunk), chunk.choices, NumChoices(chunk), g)
               /\ b = g[NumChoices(chunk)]
  BY AddLoop
<1>3. PICK y : y = f[NumChoices(chunk)]
  OBVIOUS
<1>4. /\ Beside(X \cup IndexesUpTo(chunk, NumChoices(chunk)), y, b)
      /\ GainedUpTo(a, chunk, NumChoices(chunk), b)
  BY <1>1, <1>2, <1>3, ChunkTwin
<1>5. Working(y) /\ Alike(y, b) /\ b \in AggregateSet
  BY <1>4 DEF Beside
<1>6. CASE GenerationOver(y, chunk)
  <2>1. PICK z : z = CloseOpenBlock(y)
    OBVIOUS
  <2>2. Working(z) /\ KeepsCalls(y, z)
    BY <1>5, <2>1, CloseKeepsCalls
  <2>3. y \in RendererSet /\ z \in RendererSet
    BY <1>5, <2>2, WorkingTyped
  <2>4. Alike(z, b)
    BY <1>5, <2>2, <2>3, SameOn DEF Alike
  <2>5. q = MessageStop(MessageDelta(z))
    BY <1>1, <1>3, <1>6, <2>1 DEF EndOfChunk
  <2>6. /\ q.tools = z.tools /\ q.sawToolCall = z.sawToolCall
        /\ q.finishReason = z.finishReason
    BY <2>3, <2>5, EndKeepsCalls
  <2>7. Alike(q, b)
    BY <2>4, <2>6, AlikeOn
  <2> QED
    BY <1>4, <1>5, <2>7
<1>7. CASE ~GenerationOver(y, chunk)
  BY <1>1, <1>3, <1>4, <1>5, <1>7 DEF EndOfChunk
<1> QED
  BY <1>6, <1>7

-----------------------------------------------------------------------------
(* The two answers to one upstream. *)

\* An admissible chunk of an upstream that skips no index.
LEMMA AdmissibleSpread ==
  ASSUME NEW chunk \in ChunkType, Admissible(chunk), ~Allowed("sparse"),
         ~Allowed("early-usage")
  PROVE  Spread(Known, chunk)
<1>1. /\ NumChoices(chunk) \in Nat /\ DOMAIN chunk.choices = 1..NumChoices(chunk)
      /\ \A j \in 1..NumChoices(chunk) :
           /\ chunk.choices[j] \in ChoiceType
           /\ chunk.choices[j].calls \in Seq(CallType)
           /\ Len(chunk.choices[j].calls) \in Nat
           /\ DOMAIN chunk.choices[j].calls = 1..Len(chunk.choices[j].calls)
  BY ChunkTyped
<1>2. \A c \in 1..NumChoices(chunk) : chunk.choices[c].finish # "none" => c = NumChoices(chunk)
  BY <1>1 DEF Admissible, NumChoices
<1>3. ASSUME NEW c \in 1..NumChoices(chunk), NEW k \in 1..Len(chunk.choices[c].calls)
      PROVE  0..(chunk.choices[c].calls[k].index - 1)
               \subseteq Known \cup IndexesUpTo(chunk, c - 1)
                           \cup UpTo(chunk.choices[c].calls, k - 1)
  <2> DEFINE f == <<c, k>>
  <2>1. f \in Fragments(chunk) /\ CallAt(chunk, f) = chunk.choices[c].calls[k]
        /\ f[1] = c /\ f[2] = k
    <3>1. c \in DOMAIN chunk.choices /\ k \in DOMAIN chunk.choices[c].calls
      BY <1>1
    <3>2. f[1] = c /\ f[2] = k
      OBVIOUS
    <3> QED
      BY <3>1, <3>2 DEF Fragments, CallAt
  <2> HIDE DEF f
  <2>2. 0..(CallAt(chunk, f).index - 1) \subseteq Known \cup Indexes(chunk, Before(chunk, f))
    BY <2>1 DEF Admissible
  <2>3. Indexes(chunk, Before(chunk, f))
          \subseteq IndexesUpTo(chunk, c - 1) \cup UpTo(chunk.choices[c].calls, k - 1)
    <3> SUFFICES ASSUME NEW g \in Before(chunk, f)
                 PROVE  CallAt(chunk, g).index
                          \in IndexesUpTo(chunk, c - 1) \cup UpTo(chunk.choices[c].calls, k - 1)
      BY DEF Indexes
    <3>1. g \in Fragments(chunk) /\ (g[1] < c \/ (g[1] = c /\ g[2] < k))
      BY <2>1 DEF Before
    <3>2. PICK j \in DOMAIN chunk.choices : \E l \in DOMAIN chunk.choices[j].calls : g = <<j, l>>
      BY <3>1 DEF Fragments
    <3>3. PICK l \in DOMAIN chunk.choices[j].calls : g = <<j, l>>
      BY <3>2
    <3>4. j \in 1..NumChoices(chunk) /\ l \in 1..Len(chunk.choices[j].calls)
          /\ g[1] = j /\ g[2] = l /\ CallAt(chunk, g).index = chunk.choices[j].calls[l].index
      BY <1>1, <3>3 DEF CallAt
    <3>5. CASE j < c
      <4>1. j \in 1..(c - 1)
        BY <1>1, <3>4, <3>5
      <4>2. CallAt(chunk, g).index \in IndexesOf(chunk.choices[j])
        BY <3>4 DEF IndexesOf, UpTo
      <4> QED
        BY <4>1, <4>2 DEF IndexesUpTo
    <3>6. CASE j = c /\ l < k
      <4>1. l \in 1..(k - 1)
        BY <1>1, <3>4, <3>6
      <4> QED
        BY <3>4, <3>6, <4>1 DEF UpTo
    <3> QED
      BY <3>1, <3>4, <3>5, <3>6
  <2> QED
    BY <2>1, <2>2, <2>3
<1> QED
  BY <1>2, <1>3 DEF Spread, Dense

\* As long as upstream goes on the two keep the same; a call without a name is
\* announced under a placeholder at the end, and only named ones are compared
\* then.
NamedCalls ==
  \A t \in 1..Len(aggregate.toolCalls) : aggregate.toolCalls[t].id /\ aggregate.toolCalls[t].name

Abreast ==
  /\ Alike(renderer, aggregate)
  /\ upstream.phase = "generating" => aggregate.finishReason = "none"

Done ==
  /\ Alike(renderer, aggregate) /\ renderer.deltaSent
  /\ \A t \in 1..Len(renderer.tools) : renderer.tools[t].closed

Twins ==
  Strict /\ ~aggregate.fault =>
    /\ aggregate \in AggregateSet
    /\ aggregate.thinking = upstream.thinking /\ aggregate.text = upstream.text
    /\ ~upstream.ended => Abreast
    /\ upstream.ended /\ NamedCalls => Done

LEMMA InitTwins == ASSUME BufferedInit PROVE Twins
<1>1. /\ renderer = NewRenderer /\ aggregate = NewAggregator
      /\ upstream.thinking = 0 /\ upstream.text = 0 /\ upstream.ended = FALSE
  BY DEF BufferedInit, Init
<1>2. aggregate \in AggregateSet
  <2>1. <<>> \in Seq(CallRecord) /\ 0 \in Nat
    OBVIOUS
  <2>2. "none" \in FinishReasons
    BY DEF FinishReasons
  <2> QED
    BY <1>1, <2>1, <2>2 DEF AggregateSet, NewAggregator
<1>3. /\ renderer.tools = <<>> /\ renderer.finishReason = "none"
      /\ aggregate.toolCalls = <<>> /\ aggregate.finishReason = "none"
      /\ aggregate.thinking = 0 /\ aggregate.text = 0
  BY <1>1 DEF NewRenderer, NewAggregator
<1>4. Alike(renderer, aggregate)
  <2>1. SameCalls(renderer.tools, aggregate.toolCalls)
    <3>1. <<>> \in Seq(CallRecord) /\ Len(<<>>) = 0 /\ 1..0 = {}
      OBVIOUS
    <3> QED
      BY <1>3, <3>1 DEF SameCalls
  <2> QED
    BY <1>3, <2>1 DEF Alike, SameReason
<1> QED
  BY <1>1, <1>2, <1>3, <1>4 DEF Twins, Abreast

\* Calls and finish reasons come while upstream generates.
LEMMA GeneratesFirst ==
  ASSUME NEW chunk \in ChunkType, Admissible(chunk), ~Allowed("early-usage"),
         NEW c \in 1..NumChoices(chunk),
         chunk.choices[c].calls # <<>> \/ chunk.choices[c].finish # "none"
  PROVE  upstream.phase = "generating"
<1>1. /\ DOMAIN chunk.choices = 1..NumChoices(chunk)
      /\ chunk.choices[c].calls \in Seq(CallType)
      /\ Len(chunk.choices[c].calls) \in Nat
      /\ DOMAIN chunk.choices[c].calls = 1..Len(chunk.choices[c].calls)
  BY ChunkTyped
<1>2. CASE chunk.choices[c].finish # "none"
  <2>1. Finishes(chunk)
    BY <1>1, <1>2 DEF Finishes
  <2> QED
    BY <2>1 DEF Admissible
<1>3. CASE chunk.choices[c].calls # <<>>
  <2>1. 1 \in DOMAIN chunk.choices[c].calls
    BY <1>1, <1>3
  <2>2. <<c, 1>> \in Fragments(chunk)
    BY <1>1, <2>1 DEF Fragments
  <2>3. Generates(chunk)
    BY <2>2 DEF Generates
  <2> QED
    BY <2>3 DEF Admissible
<1> QED
  BY <1>2, <1>3

LEMMA FaultStays ==
  ASSUME NEW a, NEW chunk, NEW b, b = AddFrame(a, chunk), ~b.fault
  PROVE  ~a.fault /\ (a \in AggregateSet => ~chunk.error)
<1>1. ~a.fault
  BY DEF AddFrame
<1>2. ASSUME a \in AggregateSet, chunk.error PROVE FALSE
  <2>1. b = [a EXCEPT !.fault = TRUE]
    BY <1>1, <1>2 DEF AddFrame, ExtractionFault
  <2>2. b.fault = TRUE
    BY <1>2, <2>1 DEF AggregateSet
  <2> QED
    BY <2>2
<1> QED
  BY <1>1, <1>2

\* What an orderly upstream's renderer is, between two steps.
LEMMA WorkingNow ==
  ASSUME StreamInv, queue = <<>>, ~upstream.ended
  PROVE  Working(renderer) /\ (~renderer.started => renderer.openKind = "none")
<1>1. StreamTypes /\ GoingOn
  BY DEF StreamInv
<1>2. PICK said : ToldAll(said)
  BY DEF StreamInv
<1>3. Pending = renderer
  BY <1>1, NothingWaits
<1>4. Reaches(Strict, client, renderer, said)
  BY <1>2, <1>3 DEF ToldAll
<1>5. Reaches(FALSE, client, renderer, said)
  BY <1>4, ReachesLess
<1>6. Sound(Quiet, Strict /\ renderer.deltaSent, Known, renderer)
  BY <1>1 DEF GoingOn
<1>7. renderer \in RendererSet
  BY <1>1 DEF StreamTypes
<1>8. Sound(FALSE, FALSE, Nat, renderer)
  BY <1>6, <1>7, SoundLess
<1> QED
  BY <1>1, <1>5, <1>8 DEF Working, GoingOn

LEMMA KnownDense ==
  ASSUME renderer \in RendererSet, NEW calls, SameCalls(renderer.tools, calls)
  PROVE  Known \subseteq 0..(Len(renderer.tools) - 1)
<1>1. renderer.tools \in Seq(Tool)
  BY DEF RendererSet
<1>2. Len(renderer.tools) \in Nat /\ DOMAIN renderer.tools = 1..Len(renderer.tools)
  BY <1>1
<1>3. ASSUME NEW t \in 1..Len(renderer.tools)
      PROVE  renderer.tools[t].openAIIndex \in 0..(Len(renderer.tools) - 1)
  <2>1. renderer.tools[t].openAIIndex = t - 1
    BY DEF SameCalls, SameCall
  <2> QED
    BY <1>2, <2>1
<1> QED
  BY <1>2, <1>3 DEF Known

LEMMA FeedTwins ==
  ASSUME StreamInv, Twins, NEW chunk \in Chunks, FrameArrives(chunk)
  PROVE  Twins'
<1>1. /\ FeedChunk(chunk) /\ aggregate' = AddFrame(aggregate, chunk)
      /\ queue = <<>> /\ ~upstream.ended /\ Admissible(chunk)
  BY DEF FrameArrives, FeedChunk
<1>2. StreamTypes
  BY DEF StreamInv
<1>3. /\ upstream'.disorder = upstream.disorder /\ upstream'.ended = upstream.ended
      /\ upstream'.thinking = upstream.thinking + Thoughts(chunk)
      /\ upstream'.text = upstream.text + Texts(chunk)
  BY <1>1, <1>2, UpstreamTyped
<1> SUFFICES ASSUME Strict, ~aggregate'.fault
             PROVE  /\ aggregate' \in AggregateSet
                    /\ aggregate'.thinking = upstream'.thinking
                    /\ aggregate'.text = upstream'.text
                    /\ Abreast'
  BY <1>1, <1>3, SameClaims DEF Twins
<1>4. Mode = "agent" /\ ~Allowed("sparse") /\ ~Allowed("early-usage")
  BY DEF Strict, Orderly, Allowed
<1>5. chunk \in ChunkType /\ Proper(chunk) /\ Decoded(chunk) = chunk
  BY <1>4, DecodedTyped
<1>6. PICK a : a = aggregate
  OBVIOUS
<1>7. PICK b : b = AddFrame(a, chunk)
  OBVIOUS
<1>8. aggregate' = b
  BY <1>1, <1>6, <1>7
<1>9. ~a.fault
  BY <1>7, <1>8, FaultStays
<1>10. /\ a \in AggregateSet /\ Alike(renderer, a)
       /\ a.thinking = upstream.thinking /\ a.text = upstream.text
       /\ upstream.phase = "generating" => a.finishReason = "none"
  BY <1>1, <1>6, <1>9 DEF Twins, Abreast
<1>11. ~chunk.error
  BY <1>7, <1>8, <1>10, FaultStays
<1>12. PICK X : X = Known
  OBVIOUS
<1>13. PICK r : r = renderer
  OBVIOUS
<1>14. Beside(X, r, a)
  <2>1. Working(renderer) /\ (~renderer.started => renderer.openKind = "none")
    BY <1>1, WorkingNow
  <2>2. Known \subseteq 0..(Len(renderer.tools) - 1)
    BY <1>2, <1>10, KnownDense DEF Alike, StreamTypes
  <2> QED
    BY <1>10, <1>12, <1>13, <2>1, <2>2 DEF Beside
<1>15. Spread(X, chunk)
  BY <1>1, <1>4, <1>5, <1>12, AdmissibleSpread
<1>16. \A c \in 1..NumChoices(chunk) :
         chunk.choices[c].calls # <<>> \/ chunk.choices[c].finish # "none"
           => a.finishReason = "none"
  BY <1>1, <1>4, <1>5, <1>10, GeneratesFirst
<1>17. PICK q : q = Feed(r, chunk)
  OBVIOUS
<1>18. b \in AggregateSet /\ Alike(q, b) /\ GainedUpTo(a, chunk, NumChoices(chunk), b)
  BY <1>5, <1>7, <1>9, <1>11, <1>14, <1>15, <1>16, <1>17, FeedTwin
<1>19. q \in RendererSet
  <2>1. PICK said : ToldAll(said)
    BY DEF StreamInv
  <2>2. Fed(Strict, client, said, Quiet, Strict /\ Decoded(chunk).usage, renderer,
             Decoded(chunk), Feed(renderer, Decoded(chunk)))
    BY <1>1, <1>5, <1>11, <2>1, StreamFed
  <2>3. Fed(Strict, client, said, Quiet, Strict /\ chunk.usage, renderer, chunk, q)
    BY <1>5, <1>13, <1>17, <2>2
  <2>4. \E reason : Reaches(Strict, client, q, <<reason, said[2] + Thoughts(chunk),
                                                 said[3] + Texts(chunk)>>)
    BY <2>3 DEF Fed
  <2> QED
    BY <2>4, ReachedTyped
<1>20. Rendered(q)
  BY <1>1, <1>5, <1>13, <1>17 DEF FeedChunk
<1>21. Alike(renderer', b)
  <2>1. /\ renderer'.tools = q.tools /\ renderer'.sawToolCall = q.sawToolCall
        /\ renderer'.finishReason = q.finishReason
    BY <1>19, <1>20, RenderedPends
  <2> QED
    BY <1>18, <2>1, AlikeOn
<1>22. DOMAIN chunk.choices = 1..NumChoices(chunk)
  BY <1>5, ChunkTyped
<1>23. b.thinking = upstream'.thinking /\ b.text = upstream'.text
  <2>1. /\ Thoughts(chunk) = Cardinality(Thought(chunk, NumChoices(chunk)))
        /\ Texts(chunk) = Cardinality(Spoken(chunk, NumChoices(chunk)))
    BY <1>22 DEF Thoughts, Texts, Thought, Spoken
  <2>2. <<0, b.thinking, b.text>>
          = HearUpTo(<<0, a.thinking, a.text>>, chunk, NumChoices(chunk))
    BY <1>18 DEF GainedUpTo
  <2>3. b.thinking = a.thinking + Thoughts(chunk) /\ b.text = a.text + Texts(chunk)
    BY <2>1, <2>2 DEF HearUpTo
  <2> QED
    BY <1>3, <1>10, <2>3
<1>24. upstream'.phase = "generating" => b.finishReason = "none"
  <2> SUFFICES ASSUME upstream'.phase = "generating" PROVE b.finishReason = "none"
    OBVIOUS
  <2>1. ~Finishes(chunk) /\ upstream.phase = "generating"
    <3>1. upstream' = [upstream EXCEPT
         !.sent = @ + 1,
         !.begun = @ \/ Begins(chunk),
         !.thinking = @ + Thoughts(chunk), !.text = @ + Texts(chunk),
         !.phase = IF chunk.error \/ (chunk.usage /\ ~Allowed("early-usage")) THEN "over"
                   ELSE IF Finishes(chunk) THEN "finished" ELSE @]
      BY <1>1 DEF FeedChunk
    <3> QED
      BY <1>2, <3>1 DEF StreamTypes
  <2>2. \A j \in 1..NumChoices(chunk) : chunk.choices[j].finish = "none"
    BY <1>22, <2>1 DEF Finishes
  <2> QED
    BY <1>10, <1>18, <2>1, <2>2 DEF GainedUpTo
<1> QED
  BY <1>8, <1>18, <1>21, <1>23, <1>24 DEF Abreast

LEMMA EndTwins ==
  ASSUME StreamInv, Twins, UpstreamEnd, UNCHANGED aggregate
  PROVE  Twins'
<1>1. /\ Rendered(Finish(renderer)) /\ queue = <<>> /\ ~upstream.ended
      /\ upstream' = [upstream EXCEPT !.ended = TRUE]
  BY DEF UpstreamEnd
<1>2. StreamTypes /\ GoingOn
  BY <1>1 DEF StreamInv
<1>3. /\ upstream'.disorder = upstream.disorder /\ upstream'.ended = TRUE
      /\ upstream'.thinking = upstream.thinking /\ upstream'.text = upstream.text
  BY <1>1, <1>2 DEF StreamTypes
<1>4. NamedCalls' = NamedCalls /\ Strict' = Strict
  BY <1>3, SameClaims DEF NamedCalls
<1> SUFFICES ASSUME Strict, ~aggregate.fault, NamedCalls PROVE Done'
  BY <1>1, <1>3, <1>4 DEF Twins
<1>5. Alike(renderer, aggregate)
  BY <1>1 DEF Twins, Abreast
<1>6. PICK r : r = renderer
  OBVIOUS
<1>7. PICK z : z = CloseOpenBlock(r)
  OBVIOUS
<1>8. PICK q : q = Finish(r)
  OBVIOUS
<1>9. Working(r)
  BY <1>1, <1>6, WorkingNow
<1>10. Working(z) /\ KeepsCalls(r, z)
  BY <1>7, <1>9, CloseKeepsCalls
<1>11. r \in RendererSet /\ z \in RendererSet /\ OneBlock(r)
  BY <1>9, <1>10, WorkingTyped
<1>12. Alike(z, aggregate)
  BY <1>5, <1>6, <1>10, <1>11, SameOn DEF Alike
<1>13. \A t \in 1..Len(r.tools) : r.tools[t].started
  <2> SUFFICES ASSUME NEW t \in 1..Len(r.tools) PROVE r.tools[t].started
    OBVIOUS
  <2>1. SameCall(r.tools[t], aggregate.toolCalls[t], t) /\ Len(aggregate.toolCalls) = Len(r.tools)
    BY <1>5, <1>6 DEF Alike, SameCalls
  <2>2. aggregate.toolCalls[t].id /\ aggregate.toolCalls[t].name
    BY <2>1 DEF NamedCalls
  <2> QED
    BY <2>1, <2>2 DEF SameCall, View
<1>14. ClosedFrame(r, z)
  <2>1. PICK c0, said : Reaches(FALSE, c0, r, said)
    BY <1>9 DEF Working
  <2>2. ASSUME NEW strict \in BOOLEAN, Reaches(strict, c0, r, said)
        PROVE  ClosedFrame(r, z)
    BY <1>7, <2>2, CloseOpenRenders
  <2> QED
    BY <2>1, <2>2
<1>15. /\ q = MessageStop(MessageDelta(z))
       /\ \A t \in 1..Len(r.tools) : z.tools[t].closed
  BY <1>7, <1>8, <1>11, <1>13, <1>14, FinishNamed
<1>16. /\ q.tools = z.tools /\ q.sawToolCall = z.sawToolCall
       /\ q.finishReason = z.finishReason /\ q.deltaSent = TRUE
  BY <1>11, <1>15, EndKeepsCalls
<1>17. /\ renderer'.tools = q.tools /\ renderer'.sawToolCall = q.sawToolCall
       /\ renderer'.finishReason = q.finishReason /\ renderer'.deltaSent = q.deltaSent
  <2>1. renderer' \in RendererSet
    BY EndStep DEF StreamInv, StreamTypes
  <2>2. renderer' = [q EXCEPT !.out = <<>>]
    BY <1>1, <1>6, <1>8 DEF Rendered
  <2> QED
    BY <2>1, <2>2 DEF RendererSet
<1>18. Alike(renderer', aggregate')
  <2>1. Alike(renderer', aggregate)
    BY <1>12, <1>16, <1>17, AlikeOn
  <2> QED
    BY <2>1
<1>19. \A t \in 1..Len(renderer'.tools) : renderer'.tools[t].closed
  BY <1>10, <1>15, <1>16, <1>17 DEF KeepsCalls
<1> QED
  BY <1>16, <1>17, <1>18, <1>19 DEF Done

LEMMA TwinStep == ASSUME StreamInv, Twins, [ReplyNext]_replyVars PROVE Twins'
<1>1. ASSUME NEW chunk \in Chunks, FrameArrives(chunk) PROVE Twins'
  BY <1>1, FeedTwins
<1>2. CASE UpstreamEnd /\ UNCHANGED aggregate
  BY <1>2, EndTwins
<1>3. CASE UNCHANGED <<renderer, upstream, aggregate>>
  BY <1>3 DEF Twins, Abreast, Done, NamedCalls, Strict, Orderly
<1>4. CASE Messages
  <2>1. BufferedNext
    BY <1>4 DEF Messages
  <2> QED
    BY <1>1, <1>2, <1>3, <2>1 DEF BufferedNext, StreamProceeds, EmitNext, Idle, vars
<1>5. CASE Chat \/ Read \/ UNCHANGED replyVars
  BY <1>3, <1>5 DEF Chat, Read, replyVars, bufferedVars, vars
<1> QED
  BY <1>4, <1>5 DEF ReplyNext

LEMMA TwinsInvariant == ReplySpec => [](StreamInv /\ Twins)
<1>1. ReplyInit => StreamInv /\ Twins
  BY InitStream, InitTwins DEF ReplyInit, BufferedInit
<1>2. StreamInv /\ Twins /\ [ReplyNext]_replyVars => StreamInv' /\ Twins'
  BY ReplyStep, StreamStep, TwinStep
<1> QED
  BY <1>1, <1>2, PTL DEF ReplySpec

\* The stop reason streamed and the one of the buffered message, of the same
\* finish reason and the same calls.
LEMMA ReasonsAgree ==
  ASSUME NEW reason \in FinishReasons, NEW saw \in BOOLEAN, NEW valid \in BOOLEAN,
         reason = "length" \/ (reason = "tool_calls" <=> saw),
         NEW kept, kept = IF reason = "none" THEN "none"
                          ELSE NormalizeFinishReason(reason, saw, valid),
         NEW completion,
         completion = IF reason # "none" THEN reason ELSE IF saw THEN "tool_calls" ELSE "stop"
  PROVE  ClaudeStopReason(IF kept = "none" THEN "stop" ELSE kept, saw, valid)
           = ClaudeStopReason(completion, saw, valid)
<1>1. CASE reason = "none"
  BY <1>1
<1>2. CASE reason = "length"
  BY <1>2 DEF NormalizeFinishReason
<1>3. CASE reason = "tool_calls"
  <2>1. CASE valid
    BY <1>3, <2>1 DEF NormalizeFinishReason
  <2>2. CASE ~valid
    <3>1. kept = "length" /\ completion = "tool_calls" /\ saw
      BY <1>3, <2>2 DEF NormalizeFinishReason
    <3> QED
      BY <2>2, <3>1 DEF ClaudeStopReason
  <2> QED
    BY <2>1, <2>2
<1>4. CASE reason \in {"stop", "content_filter"}
  BY <1>4 DEF NormalizeFinishReason
<1> QED
  BY <1>1, <1>2, <1>3, <1>4 DEF FinishReasons

\* What the client has read when nothing waits.
LEMMA AllRead ==
  ASSUME StreamInv, queue = <<>>, Strict
  PROVE  /\ client.thinking = upstream.thinking /\ client.text = upstream.text
         /\ client.tools = Cardinality(StartedTools(renderer))
         /\ renderer.sawToolCall <=> StartedTools(renderer) # {}
         /\ renderer.deltaSent => client.reason = EndingReason(renderer)
<1>1. PICK said : ToldAll(said)
  BY DEF StreamInv
<1>2. StreamTypes
  BY DEF StreamInv
<1>3. Pending = renderer
  BY <1>2, NothingWaits
<1>4. PICK c \in Client : Rendering(Strict, renderer, client, c) /\ Hears(c) = said
  <2>1. Reaches(Strict, client, Pending, said)
    BY <1>1 DEF ToldAll
  <2>2. Reaches(Strict, client, renderer, said)
    BY <1>3, <2>1
  <2> QED
    BY <2>2 DEF Reaches
<1>5. client = c
  <2>1. Leads(Strict, client, renderer.out, c) /\ renderer.out = <<>>
    BY <1>2, <1>4 DEF Rendering, StreamTypes
  <2>2. Leads(Strict, client, <<>>, c)
    BY <2>1
  <2> QED
    BY <2>2, LeadsEmpty
<1>6. said[1] = c.reason /\ said[2] = c.thinking /\ said[3] = c.text
  BY <1>4 DEF Hears
<1>7. Mode = "agent"
  BY DEF Strict
<1>8. said[2] = upstream.thinking /\ said[3] = upstream.text
      /\ (renderer.deltaSent => said[1] = EndingReason(renderer))
  BY <1>1, <1>7 DEF ToldAll
<1>9. /\ c.tools = Cardinality(StartedTools(renderer))
      /\ renderer.sawToolCall <=> StartedTools(renderer) # {}
  BY <1>4 DEF Rendering, Agrees, Shape
<1> QED
  BY <1>5, <1>6, <1>8, <1>9

\* StreamedEqualsBuffered (executor.go:81-86, claude_output.go:568-571), in agent
\* mode, however long the answer is and however many calls it holds: the client
\* gets the same message whether it asked for a stream or not.
THEOREM AgentAnswersAgree ==
  ASSUME Mode = "agent" PROVE ReplySpec => []StreamedEqualsBuffered
<1>1. ASSUME StreamInv, Twins PROVE StreamedEqualsBuffered
  <2> SUFFICES ASSUME Over, Regular, ~Failed
               PROVE  /\ client.thinking = Reply.thinking /\ client.text = Reply.text
                      /\ client.tools = Len(Reply.toolUse)
                      /\ \A t \in DOMAIN Reply.toolUse :
                           IF renderer.tools[t].sent = "part"
                           THEN Reply.stopReason # "tool_use"
                           ELSE Reply.toolUse[t] = renderer.tools[t].sent
                      /\ client.reason = Reply.stopReason
    BY DEF StreamedEqualsBuffered
  <2> DEFINE a == aggregate
             r == renderer
             n == Len(renderer.tools)
             saw == a.toolCalls # <<>>
             valid == \A t \in DOMAIN a.toolCalls : a.toolCalls[t].arguments # "part"
  <2>1. Strict /\ Quiet /\ ~a.fault /\ upstream.ended /\ queue = <<>>
    <3>1. Strict
      BY DEF Regular, Strict
    <3> QED
      BY <3>1, FlagsTyped DEF Over, Failed
  <2>2. /\ a \in AggregateSet
        /\ a.thinking = upstream.thinking /\ a.text = upstream.text
        /\ NamedCalls => Done
    BY <1>1, <2>1 DEF Twins
  <2>3. a.toolCalls \in Seq(CallRecord) /\ DOMAIN a.toolCalls = 1..Len(a.toolCalls)
    <3>1. a.toolCalls \in Seq(CallRecord)
      BY <2>2 DEF AggregateSet
    <3> QED
      BY <3>1
  <2>4. Alike(r, a) /\ r.deltaSent /\ \A t \in 1..n : r.tools[t].closed
    <3>1. NamedCalls
      BY <2>3 DEF Regular, NamedCalls
    <3> QED
      BY <2>2, <3>1 DEF Done
  <2>5. SameCalls(r.tools, a.toolCalls) /\ SameReason(r, a.finishReason)
    BY <2>4 DEF Alike
  <2>6. r.tools \in Seq(Tool) /\ n \in Nat /\ DOMAIN r.tools = 1..n
    <3>1. r.tools \in Seq(Tool)
      BY <1>1 DEF StreamInv, StreamTypes, RendererSet
    <3> QED
      BY <3>1
  <2>7. Len(a.toolCalls) = n /\ DOMAIN a.toolCalls = 1..n
    BY <2>3, <2>5 DEF SameCalls
  <2>8. ASSUME NEW t \in 1..n
        PROVE  /\ r.tools[t].started /\ r.tools[t].sent = r.tools[t].arguments
               /\ a.toolCalls[t].arguments = r.tools[t].arguments
               /\ r.tools[t].arguments \in {"none", "part", "end"}
    <3>1. SameCall(r.tools[t], a.toolCalls[t], t)
      BY <2>5 DEF SameCalls
    <3>2. a.toolCalls[t].id /\ a.toolCalls[t].name
      BY <2>7 DEF Regular
    <3>3. Whole(r.tools[t])
      BY <1>1, <2>1 DEF StreamInv, Settled
    <3>4. r.tools[t] \in Tool /\ r.tools[t].closed
      BY <2>4, <2>6
    <3>5. r.tools[t].arguments \in {"none", "part", "end"}
      BY <3>4 DEF Tool
    <3> QED
      BY <3>1, <3>2, <3>3, <3>4, <3>5 DEF SameCall, View, Whole
  <2>9. /\ client.thinking = upstream.thinking /\ client.text = upstream.text
        /\ client.tools = Cardinality(StartedTools(renderer))
        /\ r.sawToolCall <=> StartedTools(renderer) # {}
        /\ client.reason = EndingReason(renderer)
    BY <1>1, <2>1, <2>4, AllRead
  <2>10. StartedTools(renderer) = 1..n
    BY <2>8 DEF StartedTools
  <2>11. ToolArgumentsValid(r) <=> valid
    BY <2>6, <2>7, <2>8 DEF ToolArgumentsValid
  <2>12. r.sawToolCall <=> saw
    <3>1. saw <=> n # 0
      BY <2>3, <2>7
    <3>2. 1..n # {} <=> n # 0
      <4>1. CASE n = 0
        BY <4>1
      <4>2. CASE n # 0
        <5>1. 1 \in 1..n
          BY <2>6, <4>2
        <5> QED
          BY <4>2, <5>1
      <4> QED
        BY <4>1, <4>2
    <3> QED
      BY <2>9, <2>10, <3>1, <3>2
  <2>13. Reply = [thinking |-> IF a.reasoned THEN a.thinking ELSE 0, text |-> a.text,
                  toolUse |-> [t \in 1..n |-> Input(a.toolCalls[t])],
                  stopReason |-> ClaudeStopReason(CompletionReason(a), saw, valid)]
    BY <2>7 DEF Reply, AnthropicMessage
  <2>14. Len(Reply.toolUse) = n /\ DOMAIN Reply.toolUse = 1..n
    <3>1. Reply.toolUse = [t \in 1..n |-> Input(a.toolCalls[t])]
      BY <2>13
    <3>2. \A t \in 1..n : Input(a.toolCalls[t]) \in {"end", "none"}
      BY DEF Input
    <3>3. Reply.toolUse \in Seq({"end", "none"})
      BY <2>6, <3>1, <3>2
    <3> QED
      BY <2>6, <3>1, <3>3
  <2>15. client.tools = n
    <3>1. Cardinality(1..n) = n
      BY <2>6, FS_Interval
    <3> QED
      BY <2>9, <2>10, <3>1
  <2>16. Reply.stopReason = ClaudeStopReason(CompletionReason(a), saw, valid)
    BY <2>13
  <2>17. ASSUME NEW t \in 1..n
         PROVE  IF r.tools[t].sent = "part"
                THEN Reply.stopReason # "tool_use" ELSE Reply.toolUse[t] = r.tools[t].sent
    <3>1. CASE r.tools[t].sent = "part"
      <4>1. ~valid /\ saw
        BY <2>3, <2>7, <2>8, <3>1
      <4> HIDE DEF valid, saw
      <4>2. ClaudeStopReason(CompletionReason(a), saw, valid) # "tool_use"
        BY <4>1 DEF ClaudeStopReason
      <4> QED
        BY <2>16, <3>1, <4>2
    <3>2. CASE r.tools[t].sent # "part"
      <4>1. Reply.toolUse[t] = Input(a.toolCalls[t])
        BY <2>13
      <4> QED
        BY <2>8, <3>2, <4>1 DEF Input
    <3> QED
      BY <3>1, <3>2
  <2>18. client.reason = Reply.stopReason
    <3>1. PICK reason \in FinishReasons : reason = a.finishReason
      BY <2>2 DEF AggregateSet
    <3>2. PICK s \in BOOLEAN : s = saw
      OBVIOUS
    <3>3. PICK v \in BOOLEAN : v = valid
      OBVIOUS
    <3>4. reason = "length" \/ (reason = "tool_calls" <=> s)
      BY <3>1, <3>2 DEF Regular
    <3>5. PICK kept : kept = r.finishReason
      OBVIOUS
    <3>6. PICK completion : completion = CompletionReason(a)
      OBVIOUS
    <3>7. r.sawToolCall = s /\ ToolArgumentsValid(r) = v
      <4>1. r.sawToolCall \in BOOLEAN
        BY <1>1 DEF StreamInv, StreamTypes, RendererSet
      <4> QED
        BY <2>11, <2>12, <3>2, <3>3, <4>1 DEF ToolArgumentsValid
    <3>8. kept = IF reason = "none" THEN "none" ELSE NormalizeFinishReason(reason, s, v)
      BY <2>5, <3>1, <3>5, <3>7 DEF SameReason
    <3>9. completion = IF reason # "none" THEN reason
                       ELSE IF s THEN "tool_calls" ELSE "stop"
      BY <3>1, <3>2, <3>6 DEF CompletionReason
    <3>10. ClaudeStopReason(IF kept = "none" THEN "stop" ELSE kept, s, v)
             = ClaudeStopReason(completion, s, v)
      BY <3>4, <3>8, <3>9, ReasonsAgree
    <3> QED
      BY <2>9, <2>16, <3>2, <3>3, <3>5, <3>6, <3>7, <3>10 DEF EndingReason
  <2>19. Reply.thinking = a.thinking /\ Reply.text = a.text
    <3>1. a.thinking \in Nat /\ (a.thinking > 0 => a.reasoned)
      BY <2>2 DEF Regular, AggregateSet
    <3>2. Reply.thinking = IF a.reasoned THEN a.thinking ELSE 0
      BY <2>13
    <3> QED
      BY <2>13, <3>1, <3>2
  <2> QED
    BY <2>2, <2>9, <2>14, <2>15, <2>17, <2>18, <2>19
<1> QED
  BY <1>1, TwinsInvariant, PTL

=============================================================================
