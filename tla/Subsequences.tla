----------------------------- MODULE Subsequences -----------------------------
(***************************************************************************)
(* Operators on sequences, as recursive functions.                         *)
(***************************************************************************)
EXTENDS Integers, Sequences

\* The elements of s that are in T, in their order.
Only(s, T) ==
    LET kept[i \in 0 .. Len(s)] ==
            IF i = 0 THEN <<>>
            ELSE IF s[i] \in T THEN Append(kept[i - 1], s[i]) ELSE kept[i - 1]
    IN  kept[Len(s)]

\* The elements of s that are in T and have a rank from low to high, those of a
\* higher rank first, those of one rank in their order.
ByRank(s, T, rank, low, high) ==
    LET best[h \in 0 .. high - low + 1] ==
            IF h = 0 THEN <<>>
            ELSE Only(s, {x \in T : rank[x] = low + h - 1}) \o best[h - 1]
    IN  best[high - low + 1]

\* The sum of what the elements of s cost.
Total(cost, s) ==
    LET sum[i \in 0 .. Len(s)] == IF i = 0 THEN 0 ELSE sum[i - 1] + cost[s[i]]
    IN  sum[Len(s)]
=============================================================================
