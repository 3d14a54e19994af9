----------------------------- MODULE MCService -----------------------------
(***************************************************************************)
(* Instances of Service for TLC: one scheduled run and one slash command,  *)
(* which may be any of the three.                                          *)
(***************************************************************************)
EXTENDS Service

CONSTANTS k, c

AllTasks      == {k, c}
ScheduledRuns == {k}

QueryOpens    == <<"client", "store">>
PipelineOpens == <<"client", "store">>
=============================================================================
