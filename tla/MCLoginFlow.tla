----------------------------- MODULE MCLoginFlow -----------------------------
(***************************************************************************)
(* Small instances of LoginFlow: the login timeouts a configuration sets,  *)
(* and the ways a callback may come, for one flow or for both.             *)
(***************************************************************************)
EXTENDS LoginFlow

CONSTANTS f1, f2

OneFlow == {f1}
TwoFlows == {f1, f2}
FirstByPanelAndFile == [f \in Flows |-> IF f = f1 THEN {"panel", "file"} ELSE {}]
FirstByLoopbackAndFile == [f \in Flows |-> IF f = f1 THEN {"loopback", "file"} ELSE {}]
ShortTimeout == {1}
TwoTimeouts == {1, 2}

=============================================================================
