---------------------------- MODULE MCBatchStage ----------------------------
(* BatchStage with the constants of its runs.                              *)
EXTENDS BatchStage

\* No record is longer than limits.context_overflow_char_threshold.
OneRequest == [r \in Records |-> 1]

First  == {1}
Second == {2}
=============================================================================
