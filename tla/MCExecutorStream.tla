-------------------------- MODULE MCExecutorStream --------------------------
(***************************************************************************)
(* Small instances of ExecutorStream: two requests, on two stream ids or   *)
(* on the same one.                                                        *)
(***************************************************************************)
EXTENDS ExecutorStream

CONSTANTS r1, r2, i1, i2

MCRequests == {r1, r2}
MCStreamIDs == {i1, i2}
MCOneID == {i1}

DistinctIDs == [r \in Requests |-> IF r = r1 THEN i1 ELSE i2]
SharedID == [r \in Requests |-> i1]

=============================================================================
