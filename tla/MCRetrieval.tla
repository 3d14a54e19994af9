----------------------------- MODULE MCRetrieval -----------------------------
(***************************************************************************)
(* Instances of Retrieval for TLC: two processes that share the store, on  *)
(* a repository with one commit that has code and one that has none; or    *)
(* one process, and any of the requests over four files.                   *)
(***************************************************************************)
EXTENDS Retrieval

CONSTANTS p, q, a, b, e, f1, f2, f3, x, n1, n2, n3, n4

TwoProcs   == {p, q}
TwoCommits == {a, b}
OneEdit    == {e}
NoCode     == {b}

ThreeFiles == {f1, f2, f3}
Spellings  == {x}
RealFiles  == [y \in {f1, f2, f3, x} |-> IF y = x THEN f1 ELSE y]
Order      == <<f1, f2, f3, x>>
FourNodes  == {n1, n2, n3, n4}
Sources    == [n \in FourNodes |-> CASE n = n1 -> f1 [] n = n2 -> f2
                                     [] n = n3 -> f3 [] n = n4 -> NoFile]
TheLinks   == {<<n1, n2>>, <<n3, n4>>}
NodesOf    == [t \in {a, b, e} |-> IF t = e THEN <<n1, n2>> ELSE <<n1, n2, n3, n4>>]
OneBinary  == {f3}

Targets   == {NoFile, f1, x}
Labels    == [FourNodes -> 0 .. MaxHits]
Standings == {[y \in {f1, f2, f3, x} |-> CASE y = f1 -> s1 [] y = f2 -> s2
                                           [] OTHER -> 1] :
                 s1 \in 0 .. MaxHits, s2 \in 0 .. MaxHits}
Costs     == {[y \in {f1, f2, f3, x} |-> CASE y = f1 -> c1 [] y = f2 -> c2
                                           [] y = f3 -> 1 [] y = x -> c1] :
                 c1 \in {1, 4}, c2 \in 1 .. 2}

\* A task without words hits nothing; with 30, a neighbour outranks a match.
AllRequests ==
    {r \in [target: Targets, words: {0, 2, 30}, hits: Labels, standing: Standings,
            tokens: Costs, snapshot: {ThreeFiles, {f2, f3}},
            behavior: {"warn", "fail"}] :
        r.words = 0 => \A n \in FourNodes : r.hits[n] = 0}

PlainRequest ==
    [target |-> f1, words |-> 2, hits |-> [n \in FourNodes |-> 1],
     standing |-> [y \in {f1, f2, f3, x} |-> 1],
     tokens |-> [y \in {f1, f2, f3, x} |-> 1], snapshot |-> ThreeFiles,
     behavior |-> "warn"]

\* Two processes work on the plain request only.
MCInit ==
    /\ Init
    /\ \/ request = PlainRequest
       \/ config = [mode |-> "hybrid", auto_update |-> TRUE]
          /\ graph[LocalDir] = "none" /\ head = a

\* With any other request there is one process, and the user leaves the
\* repository alone.
OneProcess == request # PlainRequest => pc[q] = "idle" /\ head = a /\ tree = a

MCSpec == MCInit /\ [][Next]_vars
=============================================================================
