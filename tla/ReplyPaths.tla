----------------------------- MODULE ReplyPaths -----------------------------
(***************************************************************************)
(* The ways an answer takes from upstream to a client, as executorExecute  *)
(* and executorExecuteStream (executor.go) choose them by the client's     *)
(* protocol and by whether it streams: "messages", the Anthropic answer,   *)
(* streamed and buffered side by side; "chat", the OpenAI stream in agent  *)
(* or native mode; "read", the buffering of an upstream stream.  A request *)
(* takes one of them, so their states do not mix.                          *)
(***************************************************************************)
EXTENDS BufferedReply, SseRelay, BufferedRead

VARIABLE path

replyVars == <<bufferedVars, relayVars, readVars, path>>

RelayUnused ==
  /\ body = CHOOSE b \in Bodies : TRUE
  /\ wire = <<>> /\ decoder = <<>> /\ relay = NewRelay /\ out = <<>> /\ over = FALSE

ReplyInit ==
  /\ path \in {"messages", "chat", "read"}
  /\ BufferedInit /\ (path # "messages" => Orderly)
  /\ IF path = "chat" THEN RelayInit ELSE RelayUnused
  /\ ReadInit

Messages == path = "messages" /\ BufferedNext /\ UNCHANGED <<relayVars, readVars, path>>
Chat     == path = "chat" /\ RelayNext /\ UNCHANGED <<bufferedVars, readVars, path>>
Read     == path = "read" /\ ReadNext /\ UNCHANGED <<bufferedVars, relayVars, path>>

ReplyNext == Messages \/ Chat \/ Read

\* What the pump goroutine rendered it emits; the buffered read is fair as
\* BufferedRead says.
ReplySpec == ReplyInit /\ [][ReplyNext]_replyVars /\ WF_vars(EmitNext) /\ ReadFairness

\* Types of all three.
ReplyTypeOK == TypeOK /\ ReadTypeOK

=============================================================================
