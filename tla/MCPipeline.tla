----------------------------- MODULE MCPipeline -----------------------------
(***************************************************************************)
(* Instances of Pipeline for TLC: two functions, so that a batch of one    *)
(* can be the last thing a run wrote; two versions of each.                *)
(***************************************************************************)
EXTENDS Pipeline, TLC

CONSTANTS f1, f2, v1, v2, v3

TwoFunctions == {f1, f2}
OneFunction  == {f1}
TwoVersions  == {v1, v2}
\* v3 is a version with too few lines
WithShort    == {v1, v2, v3}
OnlyShort    == {v3}

Symmetry == Permutations(TwoVersions)

\* Orphans are looked at beside later runs, and those over one source: what a
\* checkpoint has and what it loses does not depend on the versions.
Sources ==
    ({node[f].hash : f \in Nodes} \cup {seen[f] : f \in Functions}
     \cup UNION {{o.seen[f] : f \in Functions} : o \in orphans}) \ {None}
Focus ==
    /\ orphans # {} \/ overwritten => Cardinality(Sources) <= 1 /\ ~dry
    /\ \A o \in orphans : o.run < MaxRuns
=============================================================================
