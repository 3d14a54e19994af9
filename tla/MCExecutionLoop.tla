-------------------------- MODULE MCExecutionLoop --------------------------
(***************************************************************************)
(* Instances of ExecutionLoop for TLC: a query, two or three active tasks. *)
(***************************************************************************)
EXTENDS ExecutionLoop

CONSTANTS q, a1, a2, a3

TwoActive   == {q, a1, a2}
ThreeActive == {q, a1, a2, a3}
Queries     == {q}
Failing     == {a1}
=============================================================================
