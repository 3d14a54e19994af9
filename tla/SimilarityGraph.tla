--------------------------- MODULE SimilarityGraph ---------------------------
(***************************************************************************)
(* What the pipeline makes of the functions of a repository and what is    *)
(* read from it, as operators: the extraction (pipeline/extraction), the   *)
(* search of neighbours (pipeline/graph/similarity.py, store.py, query.py) *)
(* and the numbers and clusters of the report (pipeline/reporting).        *)
(*                                                                         *)
(* A definition is a function with its source: two of one file and one     *)
(* qualified name have one id.  A vector is known by the definition it was *)
(* made from, and similarities are whole numbers.                          *)
(***************************************************************************)
EXTENDS Subsequences, FiniteSets, FiniteSetsExt, SequencesExt

CONSTANTS
    Definitions,     \* all that a source may hold
    Foreign,         \* the vectors of other repositories
    Queries,         \* the vectors of the queries of users
    File, Name,      \* file_path and qualified_name of each definition
    Position,        \* its place in the file
    Kind,            \* "named", "callback" (name@L42) or "unresolved"
    TestFiles,       \* the files that match test_patterns
    IgnoreCallbacks, \* ignore_anonymous_callbacks
    IdRank,          \* the order of ids, which are hashes
    CodeScore, DescScore,    \* similarity of vectors
    CodeWeight, DescWeight,  \* in tenths
    TopN,            \* similarity.top_n
    SearchTop,       \* top_n of a search
    Threshold, ClusterThreshold,
    BinHigh, BinMid, BinLow, \* sim_dist_bin_high, ...; scores are in tenths
    None

Id(d) == <<File[d], Name[d]>>
Ids == {Id(d) : d \in Definitions}
AllVectors == Definitions \cup Foreign \cup Queries

ASSUME GraphAssumption ==
    /\ IsFiniteSet(Definitions) /\ IsFiniteSet(Foreign)
    /\ None \notin AllVectors /\ None \notin Ids
    /\ \A d \in Definitions : Kind[d] \in {"named", "callback", "unresolved"}
    /\ IdRank \in [Ids -> Int]
    /\ \A i, j \in Ids : IdRank[i] = IdRank[j] => i = j
    /\ CodeScore \in [AllVectors \X AllVectors -> 0 .. 10]
    /\ DescScore \in [AllVectors \X AllVectors -> 0 .. 10]
    /\ CodeWeight \in Nat /\ DescWeight \in Nat /\ CodeWeight + DescWeight = 10
    /\ TopN \in Nat \ {0} /\ SearchTop \in Nat \ {0}
    /\ BinLow \in Int /\ BinMid \in Int /\ BinHigh \in Int
    /\ BinLow <= BinMid /\ BinMid <= BinHigh

\* One element of each set V[x], in every way.
Selections(V) ==
    {c \in [DOMAIN V -> UNION {V[x] : x \in DOMAIN V}] : \A x \in DOMAIN V : c[x] \in V[x]}

-----------------------------------------------------------------------------
(* Extraction.                                                             *)

\* _extract_from_file for every file of the source.
Extracted(src) == {d \in src : IgnoreCallbacks => Kind[d] = "named"}

AllOf(src) == Extracted(src)      \* mutant: the upsert creates instead of merging

\* The upsert merges by id: the last definition of an id is what is stored.
Stored(src) ==
    LET found == Extracted(src)
    IN  {d \in found : \A e \in found : Id(e) = Id(d) => Position[e] <= Position[d]}

IsTest(i) == i[1] \in TestFiles

\* Callbacks are named by their line; only what cannot be named is anonymous.
IsAnonymous(d) == Kind[d] = "unresolved"

-----------------------------------------------------------------------------
(* Neighbours.  A node is a record: its definition, and its two vectors.   *)

IdOf(n) == Id(n.def)

\* The filter of get_all_embeddings and of the two queries of neighbours.
Visible(n, tests) == ~IsAnonymous(n.def) /\ (tests \/ ~IsTest(IdOf(n)))

Index(nodes, kind) == ({n[kind] : n \in nodes} \ {None}) \cup Foreign

ScoreBy(kind) == IF kind = "code" THEN CodeScore ELSE DescScore

\* db.index.vector.queryNodes: the nearest of the whole index, ties in any order.
Nearest(nodes, kind, v, top) ==
    LET index == Index(nodes, kind)
        near(x) == ScoreBy(kind)[<<v, x>>]
        size == IF Cardinality(index) < top THEN Cardinality(index) ELSE top
    IN  {s \in kSubset(size, index) : \A x \in s, y \in index \ s : near(x) >= near(y)}

\* query_code_neighbors, query_desc_neighbors: what the index returned is
\* filtered afterwards.
Neighbours(nodes, kind, v, source, top, tests) ==
    IF v = None THEN {{}}
    ELSE {{n \in nodes : n[kind] \in s /\ IdOf(n) # source /\ Visible(n, tests)} :
             s \in Nearest(nodes, kind, v, top)}

\* The score of an edge, in tenths: of both indexes, or of the one that found it.
Combined(n, m, byCode, byDesc) ==
    LET code == CodeScore[<<n.code, m.code>>]
        desc == DescScore[<<n.desc, m.desc>>]
    IN  CASE byCode /\ byDesc  -> CodeWeight * code + DescWeight * desc
          [] byCode /\ ~byDesc -> 10 * code
          [] ~byCode           -> 10 * desc

EdgesTo(n, near, byCode, byDesc) ==
    {e \in {[from |-> IdOf(n), to |-> IdOf(m),
             score |-> Combined(n, m, m \in byCode, m \in byDesc)] : m \in near} :
        e.score >= Threshold}

BothDirections(n, byCode, byDesc) ==   \* mutant: no deduplication
    EdgesTo(n, byCode \cup byDesc, byCode, byDesc)

\* _query_one: the smaller id makes the edge.
EdgesFrom(n, byCode, byDesc) ==
    EdgesTo(n, {m \in byCode \cup byDesc : IdRank[IdOf(n)] < IdRank[IdOf(m)]},
            byCode, byDesc)

Embedded(nodes, tests) ==
    {n \in nodes : Visible(n, tests) /\ (n.code # None \/ n.desc # None)}

\* compute_similarity_edges: the sets of edges it may return.
EdgeSets(nodes, tests) ==
    LET returned == [n \in Embedded(nodes, tests) |->
            {EdgesFrom(n, c, d) :
                c \in Neighbours(nodes, "code", n.code, IdOf(n), TopN, tests),
                d \in Neighbours(nodes, "desc", n.desc, IdOf(n), TopN, tests)}]
    IN  {UNION Range(c) : c \in Selections(returned)}

-----------------------------------------------------------------------------
(* The report.                                                             *)

Counted(nodes, tests) == {n \in nodes : tests \/ ~IsTest(IdOf(n))}

\* _Q_STATS counts every edge, whatever include_tests says.
Stats(nodes, edges, tests) ==
    [functions |-> Cardinality(Counted(nodes, tests)), edges |-> Cardinality(edges)]

\* The other queries look at the test flag of the source of an edge.
Reported(edges, tests) == {e \in edges : tests \/ ~IsTest(e.from)}

\* _Q_INTRA_INTER_EDGES, _Q_SIMILARITY_DISTRIBUTION, _Q_NO_EDGES.
Breakdown(nodes, edges, tests) ==
    LET shown == Reported(edges, tests)
    IN  [intra |-> Cardinality({e \in shown : e.from[1] = e.to[1]}),
         inter |-> Cardinality({e \in shown : e.from[1] # e.to[1]}),
         bins  |-> <<Cardinality({e \in shown : e.score > BinHigh}),
                     Cardinality({e \in shown : e.score > BinMid /\ e.score <= BinHigh}),
                     Cardinality({e \in shown : e.score > BinLow /\ e.score <= BinMid}),
                     Cardinality({e \in shown : e.score <= BinLow})>>,
         isolated |-> {n \in Counted(nodes, tests) : ~IsAnonymous(n.def)
                          /\ \A e \in edges : IdOf(n) \notin {e.from, e.to}}]

\* _Q_CLUSTER_EDGES.
ClusterEdges(edges, tests) ==
    {e \in Reported(edges, tests) : e.score >= ClusterThreshold}

Names(links) == {e.from[2] : e \in links} \cup {e.to[2] : e \in links}

\* _compute_clusters: the breadth-first search goes by qualified name, so that
\* functions of one name are one.
Component(links, x) ==
    LET all == Names(links)
        Grow(s) == s \cup {y \in all : \E e \in links :
                              \/ e.from[2] \in s /\ e.to[2] = y
                              \/ e.to[2] \in s /\ e.from[2] = y}
        reach[k \in 0 .. Cardinality(all)] == IF k = 0 THEN {x} ELSE Grow(reach[k - 1])
    IN  reach[Cardinality(all)]

\* node_file: a file that has the name, the last one read.
NodeFiles(links) ==
    {f \in [Names(links) -> {File[d] : d \in Definitions}] :
        \A x \in Names(links) : \E e \in links : <<f[x], x>> \in {e.from, e.to}}

Clusters(links, nodeFile) ==
    {[names |-> c, files |-> {nodeFile[x] : x \in c}] :
        c \in {s \in {Component(links, x) : x \in Names(links)} : Cardinality(s) >= 2}}

-----------------------------------------------------------------------------
(* The search of a user (pipeline/query.py).                               *)

ScoreOfCode(v, byCode, byDesc) ==   \* mutant: the code index wins
    [i \in {IdOf(n) : n \in byCode \cup byDesc} |->
        IF i \in {IdOf(n) : n \in byCode}
        THEN Max({CodeScore[<<v, n.code>>] : n \in {m \in byCode : IdOf(m) = i}})
        ELSE Max({DescScore[<<v, n.desc>>] : n \in {m \in byDesc : IdOf(m) = i}})]

\* The best of two indexes for each function found.
Scores(v, byCode, byDesc) ==
    [i \in {IdOf(n) : n \in byCode \cup byDesc} |->
        Max({CodeScore[<<v, n.code>>] : n \in {m \in byCode : IdOf(m) = i}}
            \cup {DescScore[<<v, n.desc>>] : n \in {m \in byDesc : IdOf(m) = i}})]

\* The first SearchTop ids by score, ties in the order of the hits: any.
Rankings(scores) ==
    {SubSeq(s, 1, IF Len(s) < SearchTop THEN Len(s) ELSE SearchTop) :
        s \in {t \in SetToSeqs(DOMAIN scores) :
                  \A i, j \in DOMAIN t : i < j => scores[t[i]] >= scores[t[j]]}}
=============================================================================
