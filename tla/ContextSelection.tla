--------------------------- MODULE ContextSelection ---------------------------
(***************************************************************************)
(* How retrieval_node (graph/nodes/retrieval_node.py) selects the files of *)
(* a task, as operators: the candidates of the graph                       *)
(* (retrieval/graph/graph_query.py, retrieval/ranking/graph_ranker.py) or  *)
(* of the snapshot (heuristic_ranker.py), the budget                       *)
(* (retrieval/budgeting/context_budget.py), the payload                    *)
(* (retrieval/contracts/context_contract.py).                              *)
(*                                                                         *)
(* A request r is what they are given: the target as the user spells it,   *)
(* the number of words of the task, how many of them each node's label     *)
(* has, the standing of each file for the heuristics, and what each file   *)
(* costs in tokens.                                                        *)
(***************************************************************************)
EXTENDS Subsequences, SequencesExt

CONSTANTS
    Files,         \* resolved paths
    OtherPaths,    \* other spellings of a path: through a link, with ".."
    FileAt,        \* the file at each path
    PathOrder,     \* the paths, in the order of their strings
    NoFile,        \* no target; a node without a source_file
    Nodes,         \* nodes of knowledge graphs
    NodeFile,      \* their source_file
    Links,         \* the links between them
    MaxHits,       \* the most words of a task that a label has (bound)
    MaxSeeds,      \* top_k of query_by_keywords
    MaxRanked,     \* max_files of the rankers
    MaxFiles,      \* retrieval.max_context_files
    MaxTokens,     \* retrieval.max_context_tokens
    MaxRelated     \* _MAX_RELATED_FILES

Paths == Files \cup OtherPaths

ASSUME SelectionAssumption ==
    /\ Files \cap OtherPaths = {} /\ NoFile \notin Paths
    /\ FileAt \in [Paths -> Files]
    /\ \A f \in Files : FileAt[f] = f
    /\ PathOrder \in Seq(Paths)
    /\ \A i, j \in DOMAIN PathOrder : PathOrder[i] = PathOrder[j] => i = j
    /\ NodeFile \in [Nodes -> Files \cup {NoFile}]
    /\ MaxHits \in Nat /\ MaxSeeds \in Nat /\ MaxRanked \in Nat
    /\ MaxFiles \in Nat \ {0} /\ MaxTokens \in Nat \ {0} /\ MaxRelated \in Nat

\* s[:n]
Cut(s, n) == IF Len(s) > n THEN SubSeq(s, 1, n) ELSE s

WithTarget(r, s) == IF r.target = NoFile THEN s ELSE <<r.target>> \o s

-----------------------------------------------------------------------------
(* Candidates of the graph; g is the sequence of its nodes.                *)

\* Nodes with a hit, best first; nodes of one score in the graph's order.
QueryByKeywords(r, g) == Cut(ByRank(g, Nodes, r.hits, 1, MaxHits), MaxSeeds)

\* One hop of breadth-first search: links run both ways.
Expand(g, seeds) ==
    seeds \cup {n \in Range(g) : \E m \in seeds : <<m, n>> \in Links
                                                    \/ <<n, m>> \in Links}

\* A seed has hits / words, a node that was only reached has 1/10: both are
\* multiplied by 10 * words.
Score(r, seeds, n) == IF n \in seeds THEN 10 * r.hits[n] ELSE r.words

\* The best score of a file's nodes.
FileScore(r, g, seeds, f) ==
    Max({Score(r, seeds, n) : n \in {m \in Expand(g, seeds) : NodeFile[m] = f}})

\* files_for_scored_nodes, without the target; one in another spelling is not
\* taken out.
FilesFound(r, g) ==
    {NodeFile[n] : n \in Expand(g, Range(QueryByKeywords(r, g)))} \ {NoFile, r.target}

\* GraphRanker.rank_candidates.  Files of one score come in the order their
\* nodes were discovered, which depends on the iteration of a set of strings:
\* any order.  What is found beyond MaxRanked is cut off without a word.
RankByGraph(r, g) ==
    LET seeds == Range(QueryByKeywords(r, g))
        found == FilesFound(r, g)
        Descending(s) == \A i, j \in DOMAIN s :
            i < j => FileScore(r, g, seeds, s[i]) >= FileScore(r, g, seeds, s[j])
    IN  IF r.words = 0 THEN {WithTarget(r, <<>>)}
        ELSE {Cut(WithTarget(r, s), MaxRanked) :
                 s \in {t \in SetToSeqs(found) : Descending(t)}}

-----------------------------------------------------------------------------
(* Candidates without a graph.                                             *)

\* HeuristicRanker.rank_candidates: the tuple of its six features is a number
\* here, r.standing; ties by path.  The snapshot has the target only in the
\* spelling of the directory walk.
RankByHeuristics(r) ==
    Cut((IF r.target \in r.snapshot THEN <<r.target>> ELSE <<>>)
            \o ByRank(PathOrder, r.snapshot \ {r.target}, r.standing, 0, MaxHits),
        MaxRanked)

-----------------------------------------------------------------------------
(* The budget.                                                             *)

Candidates(r, ranked) ==
    WithTarget(r, Only(ranked, Paths \ {r.target}))

NothingAllocated ==
    [selected |-> <<>>, tokens |-> 0, dropped |-> 0, hit |-> FALSE, full |-> FALSE]

TargetIsFree(r, total, a, p) ==       \* mutant: the target's tokens are not counted
    CASE a.full -> a
      [] p = r.target -> [a EXCEPT !.selected = Append(@, p)]
      [] p # r.target /\ ~a.full /\ a.tokens + r.tokens[p] <= MaxTokens
                                 /\ Len(a.selected) < MaxFiles ->
           [a EXCEPT !.selected = Append(@, p), !.tokens = @ + r.tokens[p]]
      [] OTHER -> [a EXCEPT !.dropped = @ + 1, !.hit = TRUE]

\* One turn of the loop of allocate().  The count is a reason to stop, the
\* tokens to skip this file.  The limit on characters, MaxFiles times that of a
\* file, is never what binds.
Consider(r, total, a, p) ==
    CASE a.full -> a
      [] ~a.full /\ p # r.target /\ Len(a.selected) >= MaxFiles ->
           [a EXCEPT !.dropped = @ + (total - Len(a.selected)),
                     !.hit = TRUE, !.full = TRUE]
      [] ~a.full /\ (p = r.target \/ Len(a.selected) < MaxFiles) ->
           IF p = r.target \/ a.tokens + r.tokens[p] <= MaxTokens
           THEN [a EXCEPT !.selected = Append(@, p), !.tokens = @ + r.tokens[p]]
           ELSE [a EXCEPT !.dropped = @ + 1, !.hit = TRUE]

Allocate(r, ranked) ==
    LET ordered == Candidates(r, ranked)
        turn[i \in 0 .. Len(ordered)] ==
            IF i = 0 THEN NothingAllocated
            ELSE Consider(r, Len(ordered), turn[i - 1], ordered[i])
    IN  turn[Len(ordered)]

-----------------------------------------------------------------------------
(* What is handed on.                                                      *)

\* _target_first, without the duplicates.
TargetFirst(r, s) ==
    LET once == Only(s, Paths \ {r.target})
    IN  IF r.target \in Range(s) THEN <<r.target>> \o once ELSE once

\* ContextAssembler.build and build_repository_context_payload, as far as files
\* go; a spelling is normalised without looking at the disk.
Payload(r, selected) ==
    [primary_file   |-> r.target,
     selected_files |-> TargetFirst(r, selected),
     related_files  |-> TargetFirst(r, Cut(selected, MaxFiles))]

\* validate_repository_context_payload: without it the coder is told "invalid".
IsValidPayload(x) ==
    x.primary_file # NoFile /\ x.selected_files # <<>>
        => x.selected_files[1] = x.primary_file

\* _read_related_files: those whose contents the coder sees.
RelatedFiles(r, selected) ==
    Cut(Only(selected, Paths \ {r.target}), MaxRelated)
=============================================================================
