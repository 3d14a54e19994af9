----------------------------- MODULE MCWorkflow -----------------------------
(* Workflow with the constants of its runs.                                *)
EXTENDS Workflow

\* Two of the three tasks have the same slug.
MCTasks == {"t1", "t2", "t3"}
MCBranchOf == [t \in MCTasks |-> IF t = "t3" THEN "b2" ELSE "b1"]

\* A code that ruff leaves alone, one that it turns into this one, one that it
\* cannot mend, and the bare symbol.
MCCodes  == {"clean", "fixable", "faulty", "bare"}
MCFaulty == {"faulty"}
MCFix    == [c \in MCCodes |-> IF c = "fixable" THEN "clean" ELSE c]
=============================================================================
