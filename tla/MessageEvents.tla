---------------------------- MODULE MessageEvents ----------------------------
(***************************************************************************)
(* The event grammar of an Anthropic Messages stream, as a client reads    *)
(* it: message_start, content blocks one after the other with increasing   *)
(* indices, message_delta, message_stop, nothing more.                     *)
(***************************************************************************)
EXTENDS Integers

VARIABLES msg,    \* "none", "open", "closing" (message_delta read), "stopped"
          block,  \* index of the open content block, -1 when none is
          next,   \* index the next block must carry
          deltas  \* content_block_delta events read

vars == <<msg, block, next, deltas>>

Init == msg = "none" /\ block = -1 /\ next = 0 /\ deltas = 0

MessageStart ==
  /\ msg = "none"
  /\ msg' = "open"
  /\ UNCHANGED <<block, next, deltas>>

BlockStart ==
  /\ msg = "open" /\ block = -1
  /\ block' = next
  /\ next' = next + 1
  /\ UNCHANGED <<msg, deltas>>

BlockDelta ==
  /\ msg = "open" /\ block # -1
  /\ deltas' = deltas + 1
  /\ UNCHANGED <<msg, block, next>>

BlockStop ==
  /\ msg = "open" /\ block # -1
  /\ block' = -1
  /\ UNCHANGED <<msg, next, deltas>>

MessageDelta ==
  /\ msg = "open" /\ block = -1
  /\ msg' = "closing"
  /\ UNCHANGED <<block, next, deltas>>

MessageStop ==
  /\ msg = "closing"
  /\ msg' = "stopped"
  /\ UNCHANGED <<block, next, deltas>>

Next == MessageStart \/ BlockStart \/ BlockDelta \/ BlockStop \/ MessageDelta \/ MessageStop

Spec == Init /\ [][Next]_vars

=============================================================================
