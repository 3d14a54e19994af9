------------------------------- MODULE MCReport -------------------------------
(***************************************************************************)
(* The instance of Report for TLC: two files that share a function name,   *)
(* one of which is defined twice, a test and an anonymous function.        *)
(* Either the graph is explored, with one report, or the archive of        *)
(* reports is.                                                             *)
(***************************************************************************)
EXTENDS Report

CONSTANTS d1, d2, d3, d4, d5, d6, x, q

SixDefinitions == {d1, d2, d3, d4, d5, d6}
OneForeign     == {x}
OneQuery       == {q}
OneFlaky       == {d4}

Files     == [d \in SixDefinitions |->
                 CASE d \in {d1, d2} -> "a" [] d \in {d3, d4, d6} -> "b" [] d = d5 -> "t"]
Called    == [d \in SixDefinitions |->
                 CASE d \in {d1, d2, d3} -> "f" [] d = d4 -> "g" [] d = d5 -> "h"
                   [] d = d6 -> "anonymous"]
Places    == [d \in SixDefinitions |-> IF d = d1 THEN 1 ELSE 2]
Kinds     == [d \in SixDefinitions |-> IF d = d6 THEN "unresolved" ELSE "named"]
Tests     == {"t"}
Ranks     == [i \in Ids |-> CASE i = Id(d3) -> 1 [] i = Id(d1) -> 2 [] i = Id(d5) -> 3
                              [] i = Id(d4) -> 4 [] i = Id(d6) -> 5]

Vecs == SixDefinitions \cup OneForeign \cup OneQuery

Symmetric(table, rest) ==
    [p \in Vecs \X Vecs |->
        IF p[1] = p[2] THEN 10
        ELSE IF \E e \in table : e[1] = {p[1], p[2]}
             THEN (CHOOSE e \in table : e[1] = {p[1], p[2]})[2] ELSE rest]

Code == Symmetric({<<{d1, d3}, 10>>, <<{d1, d4}, 9>>, <<{d3, d4}, 9>>, <<{d2, d4}, 8>>,
                   <<{d4, d5}, 9>>, <<{d4, d6}, 9>>, <<{d3, x}, 9>>,
                   <<{q, d1}, 9>>, <<{q, d2}, 9>>,
                   <<{q, d3}, 8>>, <<{q, x}, 5>>}, 3)
Desc == Symmetric({<<{d1, d4}, 10>>, <<{d3, d4}, 7>>, <<{d2, d5}, 9>>, <<{q, d4}, 9>>,
                   <<{q, d3}, 10>>, <<{q, x}, 5>>}, 4)

SomeSources == {{d1, d3, d4}, {d1, d2, d4, d5}, {d4, d6}}

\* The archive is explored on the empty graph; on any other, a report is made
\* but not written, and searches are made before it.
Focus ==
    /\ nodes # {} => begun <= 1 /\ clock = 0 /\ pc # "open"
    /\ begun > 0 => query = NoQuery
=============================================================================
