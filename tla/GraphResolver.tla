---------------------------- MODULE GraphResolver ----------------------------
(***************************************************************************)
(* The store of knowledge graphs (graph/nodes/graph_resolver.py,           *)
(* graph/nodes/graphify_indexer.py).  A directory holds graph.json and     *)
(* graph_meta.json, which are written one after the other, neither of them *)
(* atomically.  The repository's own directory, .graphify, is only read;   *)
(* the system store has a directory for each commit, which every process   *)
(* that runs the workflow shares.                                          *)
(*                                                                         *)
(* A process may end at any step, and the user may commit, check out or    *)
(* edit at any time.  What a process does with the graph it was given is   *)
(* the module Retrieval.                                                   *)
(***************************************************************************)
EXTENDS Naturals, FiniteSets

CONSTANTS Procs,      \* processes running the workflow on one repository
          Commits,    \* the commits HEAD may be
          Edits,      \* what the working tree may hold that no commit does
          Codeless,   \* the trees without any code file
          LocalDir    \* .graphify in the repository

Trees == Commits \cup Edits

ASSUME ResolverAssumption ==
    /\ Codeless \subseteq Trees
    /\ {"none", "torn"} \cap Trees = {}
    /\ LocalDir \notin Trees \cup {"none", "torn"}

VARIABLES
    head,      \* the commit of HEAD
    tree,      \* what the working tree holds
    config,    \* graph.mode and graph.auto_update
    graph,     \* graph.json of each directory: what it was built from
    meta,      \* graph_meta.json of each directory: the commit it names
    pc,        \* where each process is
    sha,       \* repo_sha of its run
    dir,       \* the directory it was given or builds in
    parsed,    \* what it has extracted
    suspect    \* history: the directories where two builds overlapped, or one
               \* read a tree that was not the commit

storeVars == <<graph, meta, suspect>>
runVars == <<pc, sha, dir, parsed>>
resolverVars == <<head, tree, config, storeVars, runVars>>

\* _system_graph_dir: one for each commit, which names it here.
SystemDir(c) == c

Dirs == {LocalDir} \cup {SystemDir(c) : c \in Commits}

\* _is_valid: the file exists, whatever it holds, and the metadata match.
IsValid(d, s) == graph[d] # "none" /\ meta[d] = s

\* What a user's own indexing of some commit may have left in .graphify.
ResolverInit ==
    /\ head \in Commits /\ tree = head
    /\ config \in [mode: {"repo_local", "system", "hybrid"}, auto_update: BOOLEAN]
    /\ \E c \in Commits \cup {"none"} :
         /\ graph = [d \in Dirs |-> IF d = LocalDir THEN c ELSE "none"]
         /\ meta = [d \in Dirs |-> IF d = LocalDir THEN c ELSE "none"]
    /\ pc = [p \in Procs |-> "idle"]
    /\ sha = [p \in Procs |-> "none"]
    /\ dir = [p \in Procs |-> "none"]
    /\ parsed = [p \in Procs |-> "none"]
    /\ suspect = {}

-----------------------------------------------------------------------------
(* Resolving.                                                              *)

Building(p) == pc[p] \in {"build", "write", "writing", "meta", "metaWriting"}

Others(p) == {q \in Procs \ {p} : Building(q) /\ dir[q] = dir'[p]}

\* The directories _resolve_graph_handle looks into, first to last.
Consulted(c) ==
    CASE config.mode = "repo_local" -> <<LocalDir>>
      [] config.mode = "system"     -> <<SystemDir(c)>>
      [] config.mode = "hybrid"     -> <<LocalDir, SystemDir(c)>>

MayBuild == config.mode # "repo_local" /\ config.auto_update

Found(c) == {i \in DOMAIN Consulted(c) : IsValid(Consulted(c)[i], c)}

\* _get_head_sha and the checks: the first valid directory is used; without
\* one, the graph is built in the system store, if that is allowed.
Resolve(p) ==
    /\ pc[p] = "idle"
    /\ sha' = [sha EXCEPT ![p] = head]
    /\ LET found == Found(head)
       IN  \/ /\ found # {}
              /\ dir' = [dir EXCEPT ![p] =
                     Consulted(head)[CHOOSE i \in found : \A j \in found : i <= j]]
              /\ pc' = [pc EXCEPT ![p] = "resolved"]
              /\ UNCHANGED suspect
           \/ /\ found = {} /\ MayBuild
              /\ dir' = [dir EXCEPT ![p] = SystemDir(head)]
              /\ pc' = [pc EXCEPT ![p] = "build"]
              /\ suspect' = IF Others(p) = {} THEN suspect
                            ELSE suspect \cup {SystemDir(head)}
    /\ UNCHANGED <<head, tree, config, graph, meta, parsed>>

MetaFirst(p) ==           \* mutant: the metadata are written before the graph
    /\ pc[p] = "build"
    /\ parsed' = [parsed EXCEPT ![p] = tree]
    /\ pc' = [pc EXCEPT ![p] = IF tree \in Codeless THEN "meta" ELSE "write"]
    /\ meta' = [meta EXCEPT ![dir[p]] = sha[p]]
    /\ suspect' = IF tree = sha[p] THEN suspect ELSE suspect \cup {dir[p]}
    /\ UNCHANGED <<head, tree, config, graph, sha, dir>>

\* build_ast_graph: without code, or without nodes, it writes nothing.
Extract(p) ==
    /\ pc[p] = "build"
    /\ parsed' = [parsed EXCEPT ![p] = tree]
    /\ pc' = [pc EXCEPT ![p] = IF tree \in Codeless THEN "meta" ELSE "write"]
    /\ suspect' = IF tree = sha[p] THEN suspect ELSE suspect \cup {dir[p]}
    /\ UNCHANGED <<head, tree, config, graph, meta, sha, dir>>

\* to_json opens graph.json for writing ...
OpenGraph(p) ==
    /\ pc[p] = "write"
    /\ graph' = [graph EXCEPT ![dir[p]] = "torn"]
    /\ pc' = [pc EXCEPT ![p] = "writing"]
    /\ UNCHANGED <<head, tree, config, meta, suspect, sha, dir, parsed>>

\* ... and is done; a file that two processes write at a time may hold anything.
WriteGraph(p) ==
    /\ pc[p] = "writing"
    /\ \E g \in {parsed[p]} \cup
              (IF \E q \in Procs \ {p} : pc[q] = "writing" /\ dir[q] = dir[p]
               THEN {"torn"} ELSE {}) :
         graph' = [graph EXCEPT ![dir[p]] = g]
    /\ pc' = [pc EXCEPT ![p] = "meta"]
    /\ UNCHANGED <<head, tree, config, meta, suspect, sha, dir, parsed>>

\* _write_meta: write_text truncates ...
OpenMeta(p) ==
    /\ pc[p] = "meta"
    /\ meta' = [meta EXCEPT ![dir[p]] = "torn"]
    /\ pc' = [pc EXCEPT ![p] = "metaWriting"]
    /\ UNCHANGED <<head, tree, config, graph, suspect, sha, dir, parsed>>

MetaOfParsed(p) ==        \* mutant: the metadata name what was read
    /\ pc[p] = "metaWriting"
    /\ meta' = [meta EXCEPT ![dir[p]] = parsed[p]]
    /\ pc' = [pc EXCEPT ![p] = "resolved"]
    /\ UNCHANGED <<head, tree, config, graph, suspect, sha, dir, parsed>>

\* ... and writes.
WriteMeta(p) ==
    /\ pc[p] = "metaWriting"
    /\ meta' = [meta EXCEPT ![dir[p]] = sha[p]]
    /\ pc' = [pc EXCEPT ![p] = "resolved"]
    /\ UNCHANGED <<head, tree, config, graph, suspect, sha, dir, parsed>>

\* The run of a process is over.
Forget(p) ==
    /\ pc' = [pc EXCEPT ![p] = "idle"]
    /\ sha' = [sha EXCEPT ![p] = "none"]
    /\ dir' = [dir EXCEPT ![p] = "none"]
    /\ parsed' = [parsed EXCEPT ![p] = "none"]

\* The process ends, or the build raises, in the middle of anything.
Crash(p) ==
    /\ pc[p] # "idle"
    /\ Forget(p)
    /\ UNCHANGED <<head, tree, config, storeVars>>

-----------------------------------------------------------------------------
(* The user.                                                               *)

CheckOut(c) ==
    /\ head # c
    /\ head' = c /\ tree' = c
    /\ UNCHANGED <<config, storeVars, runVars>>

Edit(e) ==
    /\ tree = head
    /\ tree' = e
    /\ UNCHANGED <<head, config, storeVars, runVars>>

ResolverStep(p) ==
    \/ Resolve(p) \/ Extract(p) \/ OpenGraph(p) \/ WriteGraph(p)
    \/ OpenMeta(p) \/ WriteMeta(p) \/ Crash(p)

UserStep == (\E c \in Commits : CheckOut(c)) \/ (\E e \in Edits : Edit(e))
=============================================================================
