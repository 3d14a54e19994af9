------------------------------ MODULE Retrieval ------------------------------
(***************************************************************************)
(* Processes that run the workflow up to its retrieval: the resolver       *)
(* (module GraphResolver) gives a directory, and retrieval_node            *)
(* (graph/nodes/retrieval_node.py) reads the graph there, selects the      *)
(* files of the request (module ContextSelection) and hands on the bounded *)
(* context.  A graph that cannot be read is not an error: the heuristics   *)
(* take its place.                                                         *)
(***************************************************************************)
EXTENDS GraphResolver, ContextSelection

CONSTANTS Requests,      \* what may be asked
          GraphNodes,    \* the nodes of the graph of each tree, in its order
          Binary,        \* the files that are not UTF-8
          NoResult

ASSUME RetrievalAssumption ==
    /\ GraphNodes \in [Trees -> Seq(Nodes)]
    /\ Binary \subseteq Files
    /\ Requests \subseteq
         [target: Paths \cup {NoFile}, words: Nat, hits: [Nodes -> 0 .. MaxHits],
          standing: [Paths -> 0 .. MaxHits], snapshot: SUBSET Files, tokens: [Paths -> Nat],
          behavior: {"warn", "fail"}]

VARIABLES
    request,     \* what the processes work on
    returned     \* what the last step returned from retrieval_node, if it did

vars == <<resolverVars, request, returned>>

Init ==
    /\ ResolverInit
    /\ request \in Requests
    /\ returned = NoResult

-----------------------------------------------------------------------------

\* GraphQuery.from_path reads what is there, whole or torn; the snapshot is
\* that of the metadata or, if they cannot be read, of the run.
UsesGraph(p) == graph[dir[p]] \in Trees

Snapshot(p) == IF meta[dir[p]] \in Commits THEN meta[dir[p]] ELSE sha[p]

Ranked(p) ==
    IF UsesGraph(p) THEN RankByGraph(request, GraphNodes[graph[dir[p]]])
    ELSE {RankByHeuristics(request)}

\* What retrieval_node returns for a ranking.
Outcome(p, ranked) ==
    LET r == request
        got == Allocate(r, ranked)
        related == RelatedFiles(r, got.selected)
    IN  [raised     |-> \/ got.hit /\ r.behavior = "fail"
                        \/ \E f \in Range(related) : FileAt[f] \in Binary,
         candidates |-> Candidates(r, ranked),
         allocation |-> got,
         payload    |-> Payload(r, got.selected),
         related    |-> related,
         built      |-> graph[dir[p]],
         place      |-> dir[p],
         expected   |-> sha[p],
         snapshot   |-> IF UsesGraph(p) THEN Snapshot(p) ELSE "none"]

Retrieve(p) ==
    /\ pc[p] = "resolved"
    /\ \E ranked \in Ranked(p) : returned' = Outcome(p, ranked)
    /\ Forget(p)
    /\ UNCHANGED <<head, tree, config, storeVars, request>>

Next ==
    \/ \E p \in Procs : Retrieve(p)
    \/ /\ (\E p \in Procs : ResolverStep(p)) \/ UserStep
       /\ returned' = NoResult /\ UNCHANGED request

Spec == Init /\ [][Next]_vars

-----------------------------------------------------------------------------
(* Properties.                                                             *)

TypeOK ==
    /\ head \in Commits /\ tree \in Trees
    /\ config \in [mode: {"repo_local", "system", "hybrid"}, auto_update: BOOLEAN]
    /\ graph \in [Dirs -> Trees \cup {"none", "torn"}]
    /\ meta \in [Dirs -> Commits \cup {"none", "torn"}]
    /\ pc \in [Procs -> {"idle", "build", "write", "writing", "meta",
                         "metaWriting", "resolved"}]
    /\ sha \in [Procs -> Commits \cup {"none"}]
    /\ dir \in [Procs -> Dirs \cup {"none"}]
    /\ parsed \in [Procs -> Trees \cup {"none"}]
    /\ suspect \subseteq Dirs
    /\ request \in Requests
    /\ returned # NoResult =>
         /\ returned.allocation.selected \in Seq(Paths)
         /\ returned.related \in Seq(Paths)
         /\ returned.snapshot \in Commits \cup {"none"}

\* A directory that is found valid holds the whole graph of its commit, through
\* crashes at any point and rebuilds; and what a retrieval calls the snapshot of
\* its graph is the commit of the run and the one the graph was built from.  The
\* exceptions, all of them of the build and never of a crash: two builds of one
\* commit that overlapped, and a build that read a tree that was not the commit,
\* since the user had edited it or checked out another.  _is_valid accepts what
\* they leave as the graph of the commit.
GraphIsTrusted ==
    /\ \A c \in Commits :
         SystemDir(c) \notin suspect /\ IsValid(SystemDir(c), c)
         => graph[SystemDir(c)] = c
    /\ returned # NoResult =>
         \/ returned.snapshot = "none" \/ returned.place \in suspect
         \/ returned.snapshot = returned.expected /\ returned.built = returned.expected

\* The target, and it alone, has a right to a place: it comes first, and the
\* payload passes the validator.
TargetLeads(r, x) ==
    /\ IsValidPayload(x.payload)
    /\ r.target # NoFile => x.allocation.selected[1] = r.target

TokensOf(r, s) == Total(r.tokens, s)

\* The caps are hard, except that the target may exceed the tokens by itself.
WithinBudget(r, x) ==
    LET s == x.allocation.selected
    IN  /\ Len(s) <= MaxFiles
        /\ TokensOf(r, s) <= MaxTokens \/ s = <<r.target>>

\* Of the ranking it is given the budget leaves out nothing in silence, and
\* nothing without need: what it left out did not fit beside the better files
\* that were taken.  What the ranker had cut off before is not in the ranking, and
\* nobody reports it: with max_context_files at its default of 20, as many as the
\* rankers pass on, the limit on files never comes to bear.
LimitIsReported(r, x) ==
    LET c == x.candidates
        s == x.allocation.selected
        Better(i) == Only(SubSeq(c, 1, i - 1), Range(s))
    IN  /\ x.allocation.hit <=> Len(s) < Len(c)
        /\ x.allocation.hit /\ r.behavior = "fail" => x.raised
        /\ \A i \in DOMAIN c : c[i] \notin Range(s) =>
             \/ Len(Better(i)) >= MaxFiles
             \/ TokensOf(r, Better(i)) + r.tokens[c[i]] > MaxTokens

\* No file is listed twice, unless the target was given in another spelling:
\* then the file may come once more as the graph or the directory walk spells it.
ListedOnce(r, x) ==
    LET s == x.payload.selected_files
    IN  \A i, j \in DOMAIN s :
            i # j /\ FileAt[s[i]] = FileAt[s[j]] => r.target \in OtherPaths

\* What the task names comes before what is only linked to it, unless the task
\* has ten words or more: one hit of ten scores no better than a link.
Named(r, x) == {NodeFile[n] : n \in Range(QueryByKeywords(r, GraphNodes[x.built]))}

MatchesFirst(r, x) ==
    x.snapshot # "none" /\ r.words < 10 =>
        LET c == x.candidates
            named == Named(r, x)
        IN  \A i, j \in DOMAIN c :
                i < j /\ c[i] # r.target /\ c[j] \in named => c[i] \in named

\* The context of a request is sound, whatever became of the graph, as far as
\* the ranking goes that the budget is given.
ContextIsSound ==
    returned # NoResult =>
        /\ TargetLeads(request, returned)
        /\ WithinBudget(request, returned)
        /\ LimitIsReported(request, returned)
        /\ ListedOnce(request, returned)
        /\ MatchesFirst(request, returned)
=============================================================================
