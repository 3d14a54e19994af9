-------------------------------- MODULE Report --------------------------------
(***************************************************************************)
(* Runs of the pipeline, the reports that follow them or are asked for,    *)
(* and the searches of users, on the graph of one repository:              *)
(* pipeline/pipeline.py from the upsert on, pipeline/reporting/reporter.py *)
(* and pipeline/query.py.                                                  *)
(*                                                                         *)
(* Runs and reports hold the mutation lock of the scheduler, so that one   *)
(* program counter stands for both; a search does not, and reads the two   *)
(* indexes and the rows at three different moments.  A run or a report     *)
(* may end anywhere.  Reports are kept in files named by the local time,   *)
(* in seconds.                                                             *)
(*                                                                         *)
(* The upsert is one step here, and the filter on lines of code is left    *)
(* out: module Pipeline has both, with the checkpoints.                    *)
(***************************************************************************)
EXTENDS SimilarityGraph

CONSTANTS
    Sources,        \* what the repository may hold
    Flaky,          \* the definitions whose embedding may fail
    MaxReports,     \* bound: reports begun
    MaxClock,       \* bound: the last second
    Torn            \* a file that was opened and not written

\* Two definitions of one id have different places in their file.
ASSUME ReportAssumption ==
    /\ \A src \in Sources :
         /\ src \subseteq Definitions
         /\ \A d \in src : Position[d] \in Nat
         /\ \A d, e \in src : Id(d) = Id(e) /\ Position[d] = Position[e] => d = e
    /\ MaxReports \in Nat /\ MaxClock \in Nat
    /\ Torn # None /\ {Torn, None} \cap Nat = {}

VARIABLES
    nodes, edges,   \* the graph
    tests,          \* include_tests_in_graph
    pc, todo,       \* where the active task is, and what it holds
    archive,        \* the report file of each second: none, torn, or whose
    clock, stamp,   \* local time; the time in the name of the current report
    begun, prev,    \* reports begun; what the current one is compared with
    setBack,        \* history: the clock was set back
    builtWith,      \* history: tests, when the edges were last rebuilt
    whole,          \* history: the edges are those of the stored functions
    query,          \* the search under way
    returned        \* what the last step returned, if it did

graphVars == <<nodes, edges, builtWith, whole>>
archiveVars == <<archive, stamp, begun, prev>>
clockVars == <<clock, setBack>>
vars == <<graphVars, tests, pc, todo, archiveVars, clockVars, query, returned>>

NoQuery == [text |-> None, code |-> None, desc |-> None, quiet |-> TRUE]

Init ==
    /\ nodes = {} /\ edges = {} /\ tests \in BOOLEAN
    /\ pc = "idle" /\ todo = {}
    /\ archive = [t \in 0 .. MaxClock |-> None]
    /\ clock = 0 /\ stamp = 0 /\ begun = 0 /\ prev = 0
    /\ setBack = FALSE /\ builtWith = tests /\ whole = TRUE
    /\ query = NoQuery /\ returned = None

-----------------------------------------------------------------------------
(* A run of the pipeline.                                                  *)

StoredAt(i) == {n \in nodes : IdOf(n) = i}

\* The definitions of an id are upserted in the order of the file: one whose
\* hash is not the stored one brings a vector of its source, if the embedding
\* succeeds; any other leaves the vector that is there, be it of an earlier
\* definition of the same id.
Vectors(src, i, kind) ==
    LET new == {d \in Extracted(src) : Id(d) = i /\ \A n \in StoredAt(i) : n.def # d}
        old == IF StoredAt(i) = {} THEN {None} ELSE {n[kind] : n \in StoredAt(i)}
    IN  {d \in new : \A e \in new : Position[e] > Position[d] => e \in Flaky}
            \cup (IF new \subseteq Flaky THEN old ELSE {})

\* The sets of nodes a source may be stored as.
Upserts(src) ==
    LET versions == [d \in Stored(src) |->
            [def: {d}, code: Vectors(src, Id(d), "code"), desc: Vectors(src, Id(d), "desc")]]
    IN  {Range(c) : c \in Selections(versions)}

\* Whether a search reads a store that changes under it.
Disturbed == [query EXCEPT !.quiet = @ /\ nodes' = nodes]

\* extract_all and upsert_functions_batch; an empty extraction ends the run.
StoreFunctions(src) ==
    /\ pc = "idle" /\ Extracted(src) # {}
    /\ \E new \in Upserts(src) :
         nodes' = new \cup {n \in nodes : \A m \in new : IdOf(m) # IdOf(n)}
    /\ todo' = src
    /\ pc' = "stored"
    /\ whole' = (whole /\ nodes' = nodes)
    /\ query' = Disturbed
    /\ UNCHANGED <<edges, tests, builtWith, archiveVars, clockVars>>

\* delete_missing, and the early returns before the edges are rebuilt.
DeleteMissing ==
    /\ pc = "stored"
    /\ LET seen == {Id(d) : d \in Stored(todo)}
       IN  /\ nodes' = {n \in nodes : IdOf(n) \in seen}
           /\ edges' = {e \in edges : e.from \in seen /\ e.to \in seen}
    /\ pc' = IF Cardinality(Extracted(todo)) < 2 \/ Cardinality(Embedded(nodes', tests)) < 2
             THEN "idle" ELSE "deleted"
    /\ todo' = {}
    /\ whole' = (whole /\ nodes' = nodes)
    /\ query' = Disturbed
    /\ UNCHANGED <<tests, builtWith, archiveVars, clockVars>>

\* compute_similarity_edges, then delete_similarity_edges.
ClearEdges ==
    /\ pc = "deleted"
    /\ todo' \in EdgeSets(nodes, tests)
    /\ edges' = {} /\ builtWith' = tests /\ whole' = FALSE
    /\ pc' = "cleared"
    /\ UNCHANGED <<nodes, tests, archiveVars, clockVars, query>>

\* upsert_similarity_edges_batch.
InsertEdges ==
    /\ pc = "cleared"
    /\ edges' = todo /\ whole' = TRUE
    /\ todo' = {} /\ pc' = "idle"
    /\ UNCHANGED <<nodes, tests, builtWith, archiveVars, clockVars, query>>

\* The active task raises, is cancelled, or the process ends and starts again,
\* perhaps with another configuration.  Edges are inserted in batches.
End(t) ==
    /\ pc # "idle" \/ t # tests
    /\ IF pc = "cleared" THEN edges' \in SUBSET todo ELSE UNCHANGED edges
    /\ tests' = t
    /\ pc' = "idle" /\ todo' = {}
    /\ query' = IF t # tests THEN NoQuery ELSE query
    /\ UNCHANGED <<nodes, builtWith, whole, archiveVars, clockVars>>

-----------------------------------------------------------------------------
(* A report.                                                               *)

Readable == {t \in 0 .. MaxClock : archive[t] \notin {None, Torn}}
Present == {t \in 0 .. MaxClock : archive[t] # None}

NewestOnly ==             \* mutant: a report that cannot be read is no report
    IF Present = {} \/ Max(Present) \notin Readable THEN 0 ELSE archive[Max(Present)]

\* _find_previous_report: by file name, and what cannot be read is skipped.
FindPreviousReport == IF Readable = {} THEN 0 ELSE archive[Max(Readable)]

BeginReport ==
    /\ pc = "idle" /\ begun < MaxReports
    /\ stamp' = clock /\ begun' = begun + 1 /\ prev' = FindPreviousReport
    /\ pc' = "found"
    /\ UNCHANGED <<graphVars, tests, todo, archive, clockVars, query>>

\* _build_report; nobody writes the graph meanwhile.
MakeReport ==
    /\ pc = "found"
    /\ LET links == ClusterEdges(edges, tests)
       IN  \E f \in NodeFiles(links) :
             returned' = [kind |-> "report", stats |-> Stats(nodes, edges, tests),
                          breakdown |-> Breakdown(nodes, edges, tests),
                          links |-> links, clusters |-> Clusters(links, f)]
    /\ pc' = "made"
    /\ UNCHANGED <<graphVars, tests, todo, archiveVars, clockVars, query>>

\* write_text opens the JSON file, which truncates it ...
OpenReport ==
    /\ pc = "made"
    /\ archive' = [archive EXCEPT ![stamp] = Torn]
    /\ pc' = "open"
    /\ UNCHANGED <<graphVars, tests, todo, stamp, begun, prev, clockVars, query>>

\* ... and writes it.
WriteReport ==
    /\ pc = "open"
    /\ archive' = [archive EXCEPT ![stamp] = begun]
    /\ pc' = "idle"
    /\ UNCHANGED <<graphVars, tests, todo, stamp, begun, prev, clockVars, query>>

Tick ==
    /\ clock < MaxClock
    /\ clock' = clock + 1
    /\ UNCHANGED <<graphVars, tests, pc, todo, archiveVars, setBack, query>>

\* The end of summer time, or a correction.
SetClockBack ==
    /\ clock > 0 /\ ~setBack
    /\ clock' = clock - 1 /\ setBack' = TRUE
    /\ UNCHANGED <<graphVars, tests, pc, todo, archiveVars, query>>

-----------------------------------------------------------------------------
(* A search.                                                               *)

BeginSearch(q) ==
    /\ query = NoQuery
    /\ query' = [NoQuery EXCEPT !.text = q]
    /\ UNCHANGED <<graphVars, tests, pc, todo, archiveVars, clockVars>>

\* The two indexes are read in any order.
AskIndex(kind) ==
    /\ query.text # None /\ query[kind] = None
    /\ \E hits \in Neighbours(nodes, kind, query.text, None, SearchTop, FALSE) :
         query' = [query EXCEPT ![kind] = hits]
    /\ UNCHANGED <<graphVars, tests, pc, todo, archiveVars, clockVars>>

\* get_functions_by_ids: what was deleted in between is left out.
FetchRows ==
    /\ query.code # None /\ query.desc # None
    /\ LET scores == Scores(query.text, query.code, query.desc)
       IN  \E ids \in Rankings(scores) :
             returned' = [kind |-> "matches", text |-> query.text, quiet |-> query.quiet,
                          ids |-> Only(ids, {IdOf(n) : n \in nodes})]
    /\ query' = NoQuery
    /\ UNCHANGED <<graphVars, tests, pc, todo, archiveVars, clockVars>>

Next ==
    \/ MakeReport \/ FetchRows
    \/ /\ \/ \E src \in Sources : StoreFunctions(src)
          \/ DeleteMissing \/ ClearEdges \/ InsertEdges
          \/ \E t \in BOOLEAN : End(t)
          \/ BeginReport \/ OpenReport \/ WriteReport \/ Tick \/ SetClockBack
          \/ \E q \in Queries : BeginSearch(q)
          \/ \E kind \in {"code", "desc"} : AskIndex(kind)
       /\ returned' = None

Spec == Init /\ [][Next]_vars

-----------------------------------------------------------------------------
(* Properties.                                                             *)

TypeOK ==
    /\ \A n \in nodes : /\ n.def \in Definitions
                        /\ n.code = None \/ Id(n.code) = IdOf(n)
                        /\ n.desc = None \/ Id(n.desc) = IdOf(n)
    /\ \A n, m \in nodes : IdOf(n) = IdOf(m) => n = m
    /\ edges \subseteq [from: Ids, to: Ids, score: 0 .. 100]
    /\ tests \in BOOLEAN /\ builtWith \in BOOLEAN /\ whole \in BOOLEAN
    /\ pc \in {"idle", "stored", "deleted", "cleared", "found", "made", "open"}
    /\ clock \in 0 .. MaxClock /\ stamp \in 0 .. MaxClock /\ setBack \in BOOLEAN
    /\ begun \in 0 .. MaxReports /\ prev \in 0 .. begun
    /\ \A t \in Readable : archive[t] \in 1 .. begun

\* A report is compared with the latest of those that were written whole, past
\* any that a crash left torn and any written in the same second, as long as
\* the local time does not go back (docs/PIPELINE.md: "the most recent prior").
ComparedWithLatest ==
    pc \in {"found", "made"} /\ ~setBack =>
        prev = Max({0} \cup {archive[t] : t \in Readable})

\* A vector is of the source that is stored with it, unless an embedding failed
\* or two definitions share an id, as the code makes it, without the start line:
\* then every other run stores the vector of the first with the source of the
\* last (VectorOfItsSource).
VectorsAreOfSource ==
    \A n \in nodes, v \in Definitions :
        v \in {n.code, n.desc} /\ v # n.def =>
            \/ n.def \in Flaky
            \/ \E src \in Sources : {n.def, v} \subseteq Extracted(src)

\* Every function has a node and a vector of its own, unless its embedding
\* failed: docs/PIPELINE.md puts the start line into the id.  It does not hold:
\* _record_id leaves the line out, so that two definitions of one name are one
\* node, and the vector beside the source of the one may be of the other.
VectorOfItsSource ==
    \A n \in nodes : n.def \notin Flaky => {n.code, n.desc} \subseteq {None, n.def}

\* Two functions are joined by one edge at most, and by none if one is gone or
\* anonymous.
EdgesAreSimple ==
    \A e \in edges :
        /\ e.from # e.to
        /\ \A f \in edges : {f.from, f.to} = {e.from, e.to} => f = e
        /\ \E n, m \in nodes : IdOf(n) = e.from /\ IdOf(m) = e.to

\* The two breakdowns of the edges sum up to their number, unless tests have
\* been excluded since the edges were built.
SumsAgree(r) ==
    LET b == r.breakdown.bins
    IN  tests \/ ~builtWith =>
            /\ r.breakdown.intra + r.breakdown.inter = r.stats.edges
            /\ b[1] + b[2] + b[3] + b[4] = r.stats.edges

\* The clusters are the components of the links between functions of different
\* names: disjoint, joined from within, each link in one of them; with names of
\* their own, functions of two files show as such.
ClustersAreComponents(r) ==
    LET sets == {c.names : c \in r.clusters}
        Ends(e) == {e.from[2], e.to[2]}
        named == {i \in Ids : \E e \in r.links : i \in {e.from, e.to}}
    IN  /\ \A c, d \in sets : c = d \/ c \cap d = {}
        /\ \A e \in r.links : e.from[2] # e.to[2] => \E c \in sets : Ends(e) \subseteq c
        /\ \A c \in sets, s \in SUBSET UNION sets :
               s \subseteq c /\ s # {} /\ s # c =>
                   \E e \in r.links : Ends(e) \cap s # {} /\ Ends(e) \cap (c \ s) # {}
        /\ (\A i, j \in named : i[2] = j[2] => i = j) =>
               \A c \in r.clusters : Cardinality(c.files) > 1 <=>
                   \E e \in r.links : e.from[2] \in c.names /\ e.from[1] # e.to[1]

\* Too many vectors are as near: the index may have left this one out.
Crowded(kind, v, x, top) ==
    Cardinality({y \in Index(nodes, kind) \ {x} :
                    ScoreBy(kind)[<<v, y>>] >= ScoreBy(kind)[<<v, x>>]}) >= top

\* Functions that are similar are joined, whichever has the smaller id, unless
\* that one's neighbourhood is crowded.
NoneIsMissed ==
    \A n, m \in Embedded(nodes, builtWith) :
        LET Both(kind) == n[kind] # None /\ m[kind] # None
        IN  /\ IdRank[IdOf(n)] < IdRank[IdOf(m)]
            /\ Both("code") \/ Both("desc")
            /\ Combined(n, m, Both("code"), Both("desc")) >= Threshold
            /\ \A kind \in {"code", "desc"} :
                   Both(kind) => ~Crowded(kind, n[kind], m[kind], TopN)
            => \E e \in edges : e.from = IdOf(n) /\ e.to = IdOf(m)

\* What a report says of the graph adds up, whatever runs were interrupted; the
\* exceptions are those of its parts, two definitions of one id among them.
GraphAddsUp ==
    returned # None /\ returned.kind = "report" =>
        /\ VectorsAreOfSource /\ EdgesAreSimple
        /\ SumsAgree(returned) /\ ClustersAreComponents(returned)
        /\ whole => NoneIsMissed

\* A search shows functions that are still stored, none of them twice, no test,
\* best first; and what it leaves out was crowded out in each index, or by as
\* good a match, unless the store changed while it was read.
SearchIsSound ==
    returned # None /\ returned.kind = "matches" =>
        LET ids == returned.ids
            Best(n) == Max({IF n.code = None THEN 0 ELSE CodeScore[<<returned.text, n.code>>],
                            IF n.desc = None THEN 0 ELSE DescScore[<<returned.text, n.desc>>]})
        IN  /\ Len(ids) <= SearchTop
            /\ \A i, j \in DOMAIN ids : i # j => ids[i] # ids[j]
            /\ \A i \in DOMAIN ids : ~IsTest(ids[i]) /\ \E n \in nodes : IdOf(n) = ids[i]
            /\ returned.quiet =>
                 \A n \in Embedded(nodes, FALSE) :
                    \/ IdOf(n) \in Range(ids)
                    \/ \E kind \in {"code", "desc"} :
                          n[kind] # None /\ Crowded(kind, returned.text, n[kind], SearchTop)
                    \/ Len(ids) = SearchTop /\ \A i \in DOMAIN ids, m \in nodes :
                          IdOf(m) = ids[i] => Best(m) >= Best(n)
=============================================================================
