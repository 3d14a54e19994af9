--------------------------- MODULE RetrievalProofs ---------------------------
(***************************************************************************)
(* Theorems about Retrieval, for every value of its constants: a graph     *)
(* that is found valid is that of its commit, if every build had its       *)
(* directory to itself and read the tree of the commit, and the context    *)
(* selected for a request keeps to its limits and says what the budget     *)
(* leaves out.                                                             *)
(***************************************************************************)
EXTENDS Retrieval, DataProofs

-----------------------------------------------------------------------------
(* The inductive invariant                                                 *)

Contents == Trees \cup {"none", "torn"}
Phases == {"idle", "build", "write", "writing", "meta", "metaWriting", "resolved"}

ResolverType ==
    /\ head \in Commits
    /\ config.mode \in {"repo_local", "system", "hybrid"}
    /\ graph \in [Dirs -> Contents]
    /\ meta \in [Dirs -> Contents]
    /\ pc \in [Procs -> Phases]
    /\ sha \in [Procs -> Commits \cup {"none"}]
    /\ dir \in [Procs -> Dirs \cup {"none"}]
    /\ parsed \in [Procs -> Trees \cup {"none"}]

\* A process that is not idle is in the directory of its commit, or was given
\* .graphify, which nobody writes and which was indexed as a whole.
PlaceInv ==
    /\ graph[LocalDir] = meta[LocalDir]
    /\ \A p \in Procs :
        /\ pc[p] = "idle" => dir[p] = "none"
        /\ pc[p] # "idle" => dir[p] \in {LocalDir, sha[p]} /\ sha[p] \in Commits
        /\ Building(p) => dir[p] # LocalDir
        /\ dir[p] = LocalDir => graph[LocalDir] = sha[p]

Trusted == Commits \ suspect

\* In a directory that is not suspect one process builds at a time.
AloneInv ==
    \A p, q \in Procs :
        Building(p) /\ Building(q) /\ dir[p] = dir[q] /\ dir[p] \in Trusted => p = q

\* The metadata of a commit with code are those of its graph, and a build
\* begins when they do not match.
StoreInv ==
    \A c \in Trusted :
        /\ c \in Codeless => graph[c] = "none"
        /\ c \notin Codeless => (meta[c] = c => graph[c] = c)

\* What a build in such a directory has done, step by step.
BuildInv ==
    \A p \in Procs : dir[p] \in Trusted =>
        /\ pc[p] \in {"write", "writing"} => dir[p] \notin Codeless /\ parsed[p] = dir[p]
        /\ dir[p] \notin Codeless =>
            /\ Building(p) => meta[dir[p]] # dir[p]
            /\ pc[p] \in {"meta", "metaWriting"} => graph[dir[p]] = dir[p]
            /\ pc[p] = "resolved" => graph[dir[p]] = dir[p] /\ meta[dir[p]] = dir[p]

IInv == ResolverType /\ PlaceInv /\ AloneInv /\ StoreInv /\ BuildInv

Inv == IInv /\ GraphIsTrusted

-----------------------------------------------------------------------------
(* Facts about directories                                                 *)

LEMMA DirFacts ==
  /\ Dirs = Commits \cup {LocalDir}
  /\ LocalDir \notin Trees
  /\ "none" \notin Dirs
  /\ Commits \subseteq Trees
  /\ "none" \notin Trees /\ "torn" \notin Trees
  BY ResolverAssumption DEF Dirs, SystemDir, Trees

LEMMA InitInv == Init => IInv
<1> SUFFICES ASSUME Init PROVE IInv
  OBVIOUS
<1> USE DEF Init, ResolverInit
<1>1. PICK c \in Commits \cup {"none"} :
        /\ graph = [d \in Dirs |-> IF d = LocalDir THEN c ELSE "none"]
        /\ meta = [d \in Dirs |-> IF d = LocalDir THEN c ELSE "none"]
  OBVIOUS
<1>2. ResolverType
  BY <1>1, DirFacts DEF ResolverType, Contents, Phases
<1>3. PlaceInv
  BY <1>1, DirFacts DEF PlaceInv, Building
<1>4. AloneInv
  BY DEF AloneInv, Building
<1>5. StoreInv
  BY <1>1, DirFacts DEF StoreInv, Trusted
<1>6. BuildInv
  BY DirFacts DEF BuildInv, Trusted
<1> QED
  BY <1>2, <1>3, <1>4, <1>5, <1>6 DEF IInv
-----------------------------------------------------------------------------
(* The steps                                                               *)

\* What the first valid directory is.
LEMMA FoundDirectory ==
  ASSUME ResolverType, Found(head) # {}
  PROVE  LET d == Consulted(head)[CHOOSE i \in Found(head) : \A j \in Found(head) : i <= j]
         IN  d \in {LocalDir, head} /\ IsValid(d, head)
<1>1. Found(head) \subseteq {1, 2} /\ \A i \in Found(head) : i \in DOMAIN Consulted(head)
  BY DEF Found, Consulted, SystemDir, ResolverType
<1>2. \E i \in Found(head) : \A j \in Found(head) : i <= j
  BY <1>1
<1>3. PICK i \in Found(head) :
        i = CHOOSE k \in Found(head) : \A j \in Found(head) : k <= j
  BY <1>2, Zenon
<1>4. Consulted(head)[i] \in {LocalDir, head}
  BY <1>1 DEF Consulted, SystemDir, ResolverType
<1>5. IsValid(Consulted(head)[i], head)
  BY DEF Found
<1> QED
  BY <1>3, <1>4, <1>5

LEMMA ResolveInv ==
  ASSUME IInv, NEW p \in Procs, Resolve(p)
  PROVE  IInv'
<1> USE DEF IInv
<1>0. /\ pc[p] = "idle" /\ sha' = [sha EXCEPT ![p] = head]
      /\ UNCHANGED <<head, tree, config, graph, meta, parsed>>
  BY DEF Resolve
<1>1. CASE Found(head) # {}
  <2>1. PICK d \in {LocalDir, head} :
          /\ IsValid(d, head)
          /\ dir' = [dir EXCEPT ![p] = d] /\ pc' = [pc EXCEPT ![p] = "resolved"]
          /\ suspect' = suspect
    BY <1>1, FoundDirectory DEF Resolve
  <2>2. ResolverType'
    BY <1>0, <2>1, DirFacts DEF ResolverType, Phases
  <2>3. PlaceInv'
    BY <1>0, <2>1, DirFacts DEF ResolverType, PlaceInv, Building, IsValid
  <2>4. AloneInv'
    BY <1>0, <2>1, DirFacts DEF ResolverType, AloneInv, Building, Trusted
  <2>5. StoreInv'
    BY <1>0, <2>1 DEF StoreInv, Trusted
  <2>6. d \in Trusted => d \notin Codeless /\ graph[d] = d /\ meta[d] = d
    BY <2>1, DirFacts DEF StoreInv, IsValid, Trusted
  <2>7. BuildInv'
    BY <1>0, <2>1, <2>6, DirFacts DEF ResolverType, BuildInv, Building, Trusted
  <2> QED
    BY <2>2, <2>3, <2>4, <2>5, <2>7
<1>2. CASE Found(head) = {}
  <2>1. /\ MayBuild
        /\ dir' = [dir EXCEPT ![p] = head] /\ pc' = [pc EXCEPT ![p] = "build"]
        /\ suspect' = IF Others(p) = {} THEN suspect ELSE suspect \cup {head}
    BY <1>2 DEF Resolve, SystemDir
  <2>2. ResolverType'
    BY <1>0, <2>1, DirFacts DEF ResolverType, Phases
  <2>3. PlaceInv'
    BY <1>0, <2>1, DirFacts DEF ResolverType, PlaceInv, Building
  <2>4. Trusted' \subseteq Trusted /\ (head \in Trusted' => Others(p) = {})
    BY <2>1 DEF Trusted
  <2>5. AloneInv'
    BY <1>0, <2>1, <2>4, DirFacts DEF ResolverType, AloneInv, Building, Others
  <2>6. StoreInv'
    BY <1>0, <2>4 DEF StoreInv
  <2>7. ~IsValid(head, head)
    BY <1>2, <2>1 DEF Found, Consulted, MayBuild, SystemDir, ResolverType
  <2>8. head \in Trusted /\ head \notin Codeless => meta[head] # head
    BY <2>7, DirFacts DEF StoreInv, IsValid, Trusted
  <2>9. BuildInv'
    BY <1>0, <2>1, <2>4, <2>8, DirFacts DEF ResolverType, BuildInv, Building
  <2> QED
    BY <2>2, <2>3, <2>5, <2>6, <2>9
<1> QED
  BY <1>1, <1>2

LEMMA ExtractInv ==
  ASSUME IInv, tree \in Trees, NEW p \in Procs, Extract(p)
  PROVE  IInv'
<1> USE DEF IInv
<1>1. /\ pc[p] = "build"
      /\ parsed' = [parsed EXCEPT ![p] = tree]
      /\ pc' = [pc EXCEPT ![p] = IF tree \in Codeless THEN "meta" ELSE "write"]
      /\ suspect' = IF tree = sha[p] THEN suspect ELSE suspect \cup {dir[p]}
      /\ UNCHANGED <<head, config, graph, meta, sha, dir>>
  BY DEF Extract
<1>2. dir[p] = sha[p]
  BY <1>1 DEF PlaceInv, Building
<1>3. Trusted' \subseteq Trusted /\ (dir[p] \in Trusted' => tree = dir[p])
  BY <1>1, <1>2 DEF Trusted
<1>4. ResolverType'
  BY <1>1 DEF ResolverType, Phases
<1>5. \A q \in Procs : Building(q)' <=> Building(q)
  BY <1>1 DEF Building, ResolverType
<1>6. PlaceInv'
  BY <1>1, <1>5 DEF PlaceInv, ResolverType, Building
<1>7. AloneInv'
  BY <1>1, <1>3, <1>5 DEF AloneInv
<1>8. StoreInv'
  BY <1>1, <1>3 DEF StoreInv
<1>9. BuildInv'
  <2> SUFFICES ASSUME NEW q \in Procs, dir[q] \in Trusted'
               PROVE  /\ pc'[q] \in {"write", "writing"} =>
                            dir[q] \notin Codeless /\ parsed'[q] = dir[q]
                      /\ dir[q] \notin Codeless =>
                          /\ Building(q)' => meta[dir[q]] # dir[q]
                          /\ pc'[q] \in {"meta", "metaWriting"} => graph[dir[q]] = dir[q]
                          /\ pc'[q] = "resolved" => graph[dir[q]] = dir[q] /\ meta[dir[q]] = dir[q]
    BY <1>1 DEF BuildInv
  <2>1. CASE q = p
    BY <1>1, <1>3, <1>5, <2>1 DEF BuildInv, ResolverType, Building
  <2>2. CASE q # p
    BY <1>1, <1>3, <1>5, <2>2 DEF BuildInv, ResolverType
  <2> QED
    BY <2>1, <2>2
<1> QED
  BY <1>4, <1>6, <1>7, <1>8, <1>9

\* A write to the directory of a build touches no other build of a trusted one.
LEMMA OneBuilder ==
  ASSUME IInv, NEW p \in Procs, Building(p)
  PROVE  /\ dir[p] \in Commits /\ dir[p] # LocalDir /\ dir[p] = sha[p]
         /\ \A q \in Procs \ {p} :
              dir[q] = dir[p] /\ dir[p] \in Trusted \ Codeless => pc[q] = "idle"
<1> USE DEF IInv
<1>1. dir[p] \in Commits /\ dir[p] # LocalDir /\ dir[p] = sha[p]
  BY DirFacts DEF PlaceInv, Building
<1>2. ASSUME NEW q \in Procs \ {p}, dir[q] = dir[p], dir[p] \in Trusted \ Codeless
      PROVE  pc[q] = "idle"
  <2>1. ~Building(q)
    BY <1>2 DEF AloneInv
  <2>2. pc[q] # "resolved"
    BY <1>2 DEF BuildInv
  <2> QED
    BY <2>1, <2>2 DEF Building, ResolverType, Phases
<1> QED
  BY <1>1, <1>2

LEMMA OpenGraphInv ==
  ASSUME IInv, NEW p \in Procs, OpenGraph(p)
  PROVE  IInv'
<1> USE DEF IInv
<1>1. /\ pc[p] = "write"
      /\ graph' = [graph EXCEPT ![dir[p]] = "torn"]
      /\ pc' = [pc EXCEPT ![p] = "writing"]
      /\ UNCHANGED <<head, config, meta, suspect, sha, dir, parsed>>
  BY DEF OpenGraph
<1>2. /\ dir[p] \in Commits /\ dir[p] # LocalDir
      /\ \A q \in Procs \ {p} :
           dir[q] = dir[p] /\ dir[p] \in Trusted \ Codeless => pc[q] = "idle"
  BY <1>1, OneBuilder DEF Building
<1>3. \A q \in Procs : Building(q)' <=> Building(q)
  BY <1>1 DEF Building, ResolverType
<1>4. ResolverType'
  BY <1>1 DEF ResolverType, Phases, Contents
<1>5. PlaceInv'
  BY <1>1, <1>2, <1>3, DirFacts DEF PlaceInv, ResolverType, Building
<1>6. AloneInv'
  BY <1>1, <1>3 DEF AloneInv, Trusted
<1>7. dir[p] \in Trusted => dir[p] \notin Codeless /\ meta[dir[p]] # dir[p]
  BY <1>1 DEF BuildInv, Building
<1>8. StoreInv'
  <2> SUFFICES ASSUME NEW c \in Trusted
               PROVE  /\ c \in Codeless => graph'[c] = "none"
                      /\ c \notin Codeless => (meta[c] = c => graph'[c] = c)
    BY <1>1 DEF StoreInv, Trusted
  <2>1. CASE c = dir[p]
    BY <1>7, <2>1
  <2>2. CASE c # dir[p]
    BY <1>1, <2>2, DirFacts DEF StoreInv, ResolverType, Trusted
  <2> QED
    BY <2>1, <2>2
<1>9. BuildInv'
  <2> SUFFICES ASSUME NEW q \in Procs, dir[q] \in Trusted
               PROVE  /\ pc'[q] \in {"write", "writing"} =>
                            dir[q] \notin Codeless /\ parsed[q] = dir[q]
                      /\ dir[q] \notin Codeless =>
                          /\ Building(q)' => meta[dir[q]] # dir[q]
                          /\ pc'[q] \in {"meta", "metaWriting"} => graph'[dir[q]] = dir[q]
                          /\ pc'[q] = "resolved" =>
                                graph'[dir[q]] = dir[q] /\ meta[dir[q]] = dir[q]
    BY <1>1 DEF BuildInv, Trusted
  <2>1. CASE q = p
    BY <1>1, <1>3, <2>1 DEF BuildInv, ResolverType
  <2>2. CASE q # p /\ dir[q] = dir[p]
    BY <1>1, <1>2, <1>3, <1>7, <2>2 DEF BuildInv, ResolverType, Building
  <2>3. CASE q # p /\ dir[q] # dir[p]
    <3>1. pc'[q] = pc[q] /\ graph'[dir[q]] = graph[dir[q]]
      BY <1>1, <2>3, DirFacts DEF ResolverType, Trusted
    <3> QED
      BY <1>3, <3>1 DEF BuildInv
  <2> QED
    BY <2>1, <2>2, <2>3
<1> QED
  BY <1>4, <1>5, <1>6, <1>8, <1>9

LEMMA WriteGraphInv ==
  ASSUME IInv, NEW p \in Procs, WriteGraph(p)
  PROVE  IInv'
<1> USE DEF IInv
<1>1. PICK g \in {parsed[p]} \cup
            (IF \E q \in Procs \ {p} : pc[q] = "writing" /\ dir[q] = dir[p]
             THEN {"torn"} ELSE {}) :
        graph' = [graph EXCEPT ![dir[p]] = g]
  BY DEF WriteGraph
<1>2. /\ pc[p] = "writing"
      /\ pc' = [pc EXCEPT ![p] = "meta"]
      /\ UNCHANGED <<head, config, meta, suspect, sha, dir, parsed>>
  BY DEF WriteGraph
<1>3. /\ dir[p] \in Commits /\ dir[p] # LocalDir
      /\ \A q \in Procs \ {p} :
           dir[q] = dir[p] /\ dir[p] \in Trusted \ Codeless => pc[q] = "idle"
  BY <1>2, OneBuilder DEF Building
<1>4. \A q \in Procs : Building(q)' <=> Building(q)
  BY <1>2 DEF Building, ResolverType
<1>5. dir[p] \in Trusted => dir[p] \notin Codeless /\ meta[dir[p]] # dir[p] /\ g = dir[p]
  BY <1>1, <1>2, <1>3 DEF BuildInv, Building
<1>6. ResolverType'
  <2>1. parsed[p] \in Contents
    BY DEF ResolverType, Contents
  <2>2. g \in Contents
    BY <1>1, <2>1 DEF Contents
  <2> QED
    BY <1>1, <1>2, <2>2 DEF ResolverType, Phases
<1>7. PlaceInv'
  BY <1>1, <1>2, <1>3, <1>4, DirFacts DEF PlaceInv, ResolverType, Building
<1>8. AloneInv'
  BY <1>2, <1>4 DEF AloneInv, Trusted
<1>9. StoreInv'
  <2> SUFFICES ASSUME NEW c \in Trusted
               PROVE  /\ c \in Codeless => graph'[c] = "none"
                      /\ c \notin Codeless => (meta[c] = c => graph'[c] = c)
    BY <1>2 DEF StoreInv, Trusted
  <2>1. CASE c = dir[p]
    BY <1>5, <2>1
  <2>2. CASE c # dir[p]
    BY <1>1, <2>2, DirFacts DEF StoreInv, ResolverType, Trusted
  <2> QED
    BY <2>1, <2>2
<1>10. BuildInv'
  <2> SUFFICES ASSUME NEW q \in Procs, dir[q] \in Trusted
               PROVE  /\ pc'[q] \in {"write", "writing"} =>
                            dir[q] \notin Codeless /\ parsed[q] = dir[q]
                      /\ dir[q] \notin Codeless =>
                          /\ Building(q)' => meta[dir[q]] # dir[q]
                          /\ pc'[q] \in {"meta", "metaWriting"} => graph'[dir[q]] = dir[q]
                          /\ pc'[q] = "resolved" =>
                                graph'[dir[q]] = dir[q] /\ meta[dir[q]] = dir[q]
    BY <1>2 DEF BuildInv, Trusted
  <2>1. CASE q = p
    <3>1. pc'[q] = "meta" /\ graph'[dir[q]] = dir[q] /\ meta[dir[q]] # dir[q]
      BY <1>1, <1>2, <1>5, <2>1, DirFacts DEF ResolverType, Trusted
    <3> QED
      BY <3>1
  <2>2. CASE q # p /\ dir[q] = dir[p]
    BY <1>2, <1>3, <1>4, <1>5, <2>2 DEF BuildInv, ResolverType, Building
  <2>3. CASE q # p /\ dir[q] # dir[p]
    <3>1. pc'[q] = pc[q] /\ graph'[dir[q]] = graph[dir[q]]
      BY <1>1, <1>2, <2>3, DirFacts DEF ResolverType, Trusted
    <3> QED
      BY <1>4, <3>1 DEF BuildInv
  <2> QED
    BY <2>1, <2>2, <2>3
<1> QED
  BY <1>6, <1>7, <1>8, <1>9, <1>10

LEMMA OpenMetaInv ==
  ASSUME IInv, NEW p \in Procs, OpenMeta(p)
  PROVE  IInv'
<1> USE DEF IInv
<1>1. /\ pc[p] = "meta"
      /\ meta' = [meta EXCEPT ![dir[p]] = "torn"]
      /\ pc' = [pc EXCEPT ![p] = "metaWriting"]
      /\ UNCHANGED <<head, config, graph, suspect, sha, dir, parsed>>
  BY DEF OpenMeta
<1>2. /\ dir[p] \in Commits /\ dir[p] # LocalDir /\ dir[p] = sha[p]
      /\ \A q \in Procs \ {p} :
           dir[q] = dir[p] /\ dir[p] \in Trusted \ Codeless => pc[q] = "idle"
  BY <1>1, OneBuilder DEF Building
<1>3. \A q \in Procs : Building(q)' <=> Building(q)
  BY <1>1 DEF Building, ResolverType
<1>4. ResolverType'
  BY <1>1, DirFacts DEF ResolverType, Phases, Contents
<1>5. PlaceInv'
  BY <1>1, <1>2, <1>3, DirFacts DEF PlaceInv, ResolverType, Building
<1>6. AloneInv'
  BY <1>1, <1>3 DEF AloneInv, Trusted
<1>7. dir[p] \in Trusted \ Codeless => graph[dir[p]] = dir[p]
  BY <1>1 DEF BuildInv
<1>8. StoreInv'
  <2> SUFFICES ASSUME NEW c \in Trusted
               PROVE  /\ c \in Codeless => graph[c] = "none"
                      /\ c \notin Codeless => (meta'[c] = c => graph[c] = c)
    BY <1>1 DEF StoreInv, Trusted
  <2>1. CASE c = dir[p]
    BY <1>7, <2>1 DEF StoreInv
  <2>2. CASE c # dir[p]
    BY <1>1, <2>2, DirFacts DEF StoreInv, ResolverType, Trusted
  <2> QED
    BY <2>1, <2>2
<1>9. BuildInv'
  <2> SUFFICES ASSUME NEW q \in Procs, dir[q] \in Trusted
               PROVE  /\ pc'[q] \in {"write", "writing"} =>
                            dir[q] \notin Codeless /\ parsed[q] = dir[q]
                      /\ dir[q] \notin Codeless =>
                          /\ Building(q)' => meta'[dir[q]] # dir[q]
                          /\ pc'[q] \in {"meta", "metaWriting"} => graph[dir[q]] = dir[q]
                          /\ pc'[q] = "resolved" =>
                                graph[dir[q]] = dir[q] /\ meta'[dir[q]] = dir[q]
    BY <1>1 DEF BuildInv, Trusted
  <2>1. CASE q = p
    <3>1. pc'[q] = "metaWriting" /\ meta'[dir[q]] = "torn"
      BY <1>1, <1>2, <2>1, DirFacts DEF ResolverType
    <3> QED
      BY <1>7, <2>1, <3>1, DirFacts DEF Building, Trusted
  <2>2. CASE q # p /\ dir[q] = dir[p]
    BY <1>1, <1>2, <1>3, <2>2 DEF BuildInv, ResolverType, Building
  <2>3. CASE q # p /\ dir[q] # dir[p]
    <3>1. pc'[q] = pc[q] /\ meta'[dir[q]] = meta[dir[q]]
      BY <1>1, <2>3, DirFacts DEF ResolverType, Trusted
    <3> QED
      BY <1>3, <3>1 DEF BuildInv
  <2> QED
    BY <2>1, <2>2, <2>3
<1> QED
  BY <1>4, <1>5, <1>6, <1>8, <1>9

LEMMA WriteMetaInv ==
  ASSUME IInv, NEW p \in Procs, WriteMeta(p)
  PROVE  IInv'
<1> USE DEF IInv
<1>1. /\ pc[p] = "metaWriting"
      /\ meta' = [meta EXCEPT ![dir[p]] = sha[p]]
      /\ pc' = [pc EXCEPT ![p] = "resolved"]
      /\ UNCHANGED <<head, config, graph, suspect, sha, dir, parsed>>
  BY DEF WriteMeta
<1>2. /\ dir[p] \in Commits /\ dir[p] # LocalDir /\ dir[p] = sha[p]
      /\ \A q \in Procs \ {p} :
           dir[q] = dir[p] /\ dir[p] \in Trusted \ Codeless => pc[q] = "idle"
  BY <1>1, OneBuilder DEF Building
<1>3. \A q \in Procs : Building(q)' <=> Building(q) /\ q # p
  BY <1>1 DEF Building, ResolverType
<1>4. ResolverType'
  BY <1>1, DirFacts DEF ResolverType, Phases, Contents
<1>5. PlaceInv'
  BY <1>1, <1>2, <1>3, DirFacts DEF PlaceInv, ResolverType, Building
<1>6. AloneInv'
  BY <1>1, <1>3 DEF AloneInv, Trusted
<1>7. dir[p] \in Trusted \ Codeless => graph[dir[p]] = dir[p]
  BY <1>1 DEF BuildInv
<1>8. StoreInv'
  <2> SUFFICES ASSUME NEW c \in Trusted
               PROVE  /\ c \in Codeless => graph[c] = "none"
                      /\ c \notin Codeless => (meta'[c] = c => graph[c] = c)
    BY <1>1 DEF StoreInv, Trusted
  <2>1. CASE c = dir[p]
    BY <1>7, <2>1 DEF StoreInv
  <2>2. CASE c # dir[p]
    BY <1>1, <2>2, DirFacts DEF StoreInv, ResolverType, Trusted
  <2> QED
    BY <2>1, <2>2
<1>9. BuildInv'
  <2> SUFFICES ASSUME NEW q \in Procs, dir[q] \in Trusted
               PROVE  /\ pc'[q] \in {"write", "writing"} =>
                            dir[q] \notin Codeless /\ parsed[q] = dir[q]
                      /\ dir[q] \notin Codeless =>
                          /\ Building(q)' => meta'[dir[q]] # dir[q]
                          /\ pc'[q] \in {"meta", "metaWriting"} => graph[dir[q]] = dir[q]
                          /\ pc'[q] = "resolved" =>
                                graph[dir[q]] = dir[q] /\ meta'[dir[q]] = dir[q]
    BY <1>1 DEF BuildInv, Trusted
  <2>1. CASE q = p
    <3>1. pc'[q] = "resolved" /\ meta'[dir[q]] = sha[p]
      BY <1>1, <1>2, <2>1, DirFacts DEF ResolverType
    <3> QED
      BY <1>2, <1>3, <1>7, <2>1, <3>1, DirFacts DEF Building, Trusted
  <2>2. CASE q # p /\ dir[q] = dir[p]
    BY <1>1, <1>2, <1>3, <2>2 DEF BuildInv, ResolverType, Building
  <2>3. CASE q # p /\ dir[q] # dir[p]
    <3>1. pc'[q] = pc[q] /\ meta'[dir[q]] = meta[dir[q]]
      BY <1>1, <2>3, DirFacts DEF ResolverType, Trusted
    <3> QED
      BY <1>3, <3>1 DEF BuildInv
  <2> QED
    BY <2>1, <2>2, <2>3
<1> QED
  BY <1>4, <1>5, <1>6, <1>8, <1>9

\* A crash and the end of a retrieval forget the run and leave the store alone.
LEMMA ForgetInv ==
  ASSUME IInv, NEW p \in Procs, Forget(p), UNCHANGED <<head, config, storeVars>>
  PROVE  IInv'
<1> USE DEF IInv
<1>1. /\ pc' = [pc EXCEPT ![p] = "idle"] /\ sha' = [sha EXCEPT ![p] = "none"]
      /\ dir' = [dir EXCEPT ![p] = "none"] /\ parsed' = [parsed EXCEPT ![p] = "none"]
      /\ UNCHANGED <<head, config, graph, meta, suspect>>
  BY DEF Forget, storeVars
<1>2. ResolverType'
  BY <1>1 DEF ResolverType, Phases
<1>3. PlaceInv'
  BY <1>1, DirFacts DEF PlaceInv, ResolverType, Building
<1>4. AloneInv'
  BY <1>1 DEF AloneInv, ResolverType, Building, Trusted
<1>5. StoreInv'
  BY <1>1 DEF StoreInv, Trusted
<1>6. BuildInv'
  BY <1>1, DirFacts DEF BuildInv, ResolverType, Building, Trusted
<1> QED
  BY <1>2, <1>3, <1>4, <1>5, <1>6

LEMMA UserInv ==
  ASSUME IInv, head' \in Commits, UNCHANGED <<config, storeVars, runVars>>
  PROVE  IInv'
  BY DEF IInv, ResolverType, PlaceInv, AloneInv, StoreInv, BuildInv, Building,
         Trusted, storeVars, runVars

-----------------------------------------------------------------------------
(* What is ranked                                                          *)

LEMMA RequestFacts ==
  ASSUME NEW r \in Requests
  PROVE  /\ r.target \in Paths \cup {NoFile} /\ r.words \in Nat
         /\ r.hits \in [Nodes -> 0 .. MaxHits] /\ r.standing \in [Paths -> 0 .. MaxHits]
         /\ r.snapshot \subseteq Files /\ r.tokens \in [Paths -> Nat]
         /\ r.behavior \in {"warn", "fail"}
  BY RetrievalAssumption

LEMMA CutFacts ==
  ASSUME NEW S, NEW s \in Seq(S), NEW n \in Nat
  PROVE  /\ Cut(s, n) \in Seq(S)
         /\ Len(Cut(s, n)) <= Len(s) /\ Len(Cut(s, n)) <= n
         /\ \A i \in DOMAIN Cut(s, n) : i \in DOMAIN s /\ Cut(s, n)[i] = s[i]
<1>1. CASE Len(s) > n
  <2>1. Cut(s, n) = SubSeq(s, 1, n) /\ n <= Len(s)
    BY <1>1 DEF Cut
  <2>2. SubSeq(s, 1, n) \in Seq(S) /\ Len(SubSeq(s, 1, n)) = n
        /\ \A i \in 1 .. n : SubSeq(s, 1, n)[i] = s[i]
    BY <2>1
  <2> QED
    BY <2>1, <2>2
<1>2. CASE ~(Len(s) > n)
  BY <1>2 DEF Cut
<1> QED
  BY <1>1, <1>2

Distinct(s) == \A i, j \in DOMAIN s : s[i] = s[j] => i = j

\* A ranking names files, each once; the target may have another spelling.
IsRanking(r, s) ==
    /\ s \in Seq(Paths)
    /\ Distinct(s)
    /\ \A i \in DOMAIN s : s[i] \in Files \/ s[i] = r.target

\* The target in front of other files.
LEMMA WithTargetFacts ==
  ASSUME NEW r \in Requests, NEW s \in Seq(Paths), Distinct(s),
         \A i \in DOMAIN s : s[i] # r.target
  PROVE  /\ WithTarget(r, s) \in Seq(Paths)
         /\ Distinct(WithTarget(r, s))
         /\ \A i \in DOMAIN WithTarget(r, s) :
              \/ i = 1 /\ WithTarget(r, s)[i] = r.target
              \/ \E j \in DOMAIN s : /\ WithTarget(r, s)[i] = s[j]
                                     /\ i = IF r.target = NoFile THEN j ELSE j + 1
         /\ r.target # NoFile => /\ Len(WithTarget(r, s)) = Len(s) + 1
                                 /\ WithTarget(r, s)[1] = r.target
         /\ r.target = NoFile => WithTarget(r, s) = s
<1>1. CASE r.target = NoFile
  BY <1>1 DEF WithTarget
<1>2. CASE r.target # NoFile
  <2> DEFINE x == r.target
             t == <<x>> \o s
  <2>1. x \in Paths /\ WithTarget(r, s) = t
    BY <1>2, RequestFacts DEF WithTarget
  <2>2. /\ t \in Seq(Paths) /\ Len(t) = Len(s) + 1 /\ t[1] = x /\ Len(s) \in Nat
        /\ \A i \in 2 .. Len(s) + 1 : t[i] = s[i - 1]
    BY <2>1
  <2> HIDE DEF t
  <2>3. \A i \in DOMAIN t : \/ i = 1 /\ t[i] = x
                            \/ i # 1 /\ i - 1 \in DOMAIN s /\ t[i] = s[i - 1]
    BY <2>2
  <2>4. ASSUME NEW i \in DOMAIN t, NEW j \in DOMAIN t, t[i] = t[j] PROVE i = j
    <3>1. i \in Nat /\ j \in Nat
      BY <2>2
    <3>2. CASE i = 1
      BY <2>3, <2>4, <3>2
    <3>3. CASE i # 1
      <4>1. j # 1
        BY <2>3, <2>4, <3>3
      <4>2. i - 1 = j - 1
        BY <2>3, <2>4, <3>3, <4>1 DEF Distinct
      <4> QED
        BY <3>1, <4>2
    <3> QED
      BY <3>2, <3>3
  <2>5. \A i \in DOMAIN t : (i = 1 /\ t[i] = x) \/ \E j \in DOMAIN s : t[i] = s[j] /\ i = j + 1
    <3>1. \A i \in DOMAIN t : i \in Nat /\ i = (i - 1) + 1
      BY <2>2
    <3> QED
      BY <2>3, <3>1
  <2> QED
    BY <1>2, <2>1, <2>2, <2>4, <2>5 DEF Distinct
<1> QED
  BY <1>1, <1>2

\* What a cut leaves of a ranking is one.
LEMMA CutRanking ==
  ASSUME NEW r, NEW s, IsRanking(r, s), NEW n \in Nat
  PROVE  IsRanking(r, Cut(s, n))
<1>1. s \in Seq(Paths)
  BY DEF IsRanking
<1>2. Cut(s, n) \in Seq(Paths)
      /\ \A i \in DOMAIN Cut(s, n) : i \in DOMAIN s /\ Cut(s, n)[i] = s[i]
  BY <1>1, CutFacts
<1> QED
  BY <1>2 DEF IsRanking, Distinct

\* The seeds are nodes of the graph with a hit.
LEMMA SeedFacts ==
  ASSUME NEW r \in Requests, NEW g \in Seq(Nodes)
  PROVE  \A n \in Range(QueryByKeywords(r, g)) : n \in Range(g) /\ r.hits[n] \in 1 .. MaxHits
<1> DEFINE b == ByRank(g, Nodes, r.hits, 1, MaxHits)
<1>1. r.hits \in [Nodes -> 0 .. MaxHits] /\ MaxHits \in Nat /\ MaxSeeds \in Nat
  BY RequestFacts, SelectionAssumption
<1>2. b \in Seq(Nodes) /\ \A j \in DOMAIN b : /\ r.hits[b[j]] \in 1 .. MaxHits
                                              /\ \E i \in DOMAIN g : g[i] = b[j]
  <2>1. \A n \in Nodes : r.hits[n] \in Int
    BY <1>1
  <2>2. 1 \in Nat /\ 1 <= MaxHits + 1
    BY <1>1
  <2>3. b \in Seq(Nodes) /\ \A j \in DOMAIN b : /\ b[j] \in Nodes
                                                /\ r.hits[b[j]] \in 1 .. MaxHits
                                               /\ \E i \in DOMAIN g : g[i] = b[j]
    BY <1>1, <2>1, <2>2, ByRankElements
  <2> QED
    BY <2>3
<1> HIDE DEF b
<1>3. \A i \in DOMAIN Cut(b, MaxSeeds) : i \in DOMAIN b /\ Cut(b, MaxSeeds)[i] = b[i]
  BY <1>1, <1>2, CutFacts
<1>4. QueryByKeywords(r, g) = Cut(b, MaxSeeds)
  BY DEF QueryByKeywords, b
<1> QED
  BY <1>2, <1>3, <1>4 DEF Range

LEMMA HeuristicRanking ==
  ASSUME NEW r \in Requests
  PROVE  IsRanking(r, RankByHeuristics(r))
<1> DEFINE T == r.snapshot \ {r.target}
           b == ByRank(PathOrder, T, r.standing, 0, MaxHits)
           t == (IF r.target \in r.snapshot THEN <<r.target>> ELSE <<>>) \o b
<1>1. /\ r.standing \in [Paths -> 0 .. MaxHits] /\ MaxHits \in Nat /\ MaxRanked \in Nat
      /\ T \subseteq Files /\ Files \subseteq Paths /\ PathOrder \in Seq(Paths)
      /\ r.snapshot \subseteq Files /\ NoFile \notin Paths
      /\ \A i, j \in DOMAIN PathOrder : PathOrder[i] = PathOrder[j] => i = j
  BY RequestFacts, SelectionAssumption DEF Paths
<1>2. /\ b \in Seq(Paths) /\ \A j \in DOMAIN b : b[j] \in T
      /\ Distinct(b)
  <2>1. \A x \in T : r.standing[x] \in Int
    BY <1>1
  <2>2. 0 \in Nat /\ 0 <= MaxHits + 1
    BY <1>1
  <2> HIDE DEF T
  <2> QED
    BY <1>1, <2>1, <2>2, ByRankElements DEF Distinct
<1> HIDE DEF b
<1>3. IsRanking(r, t)
  <2>1. CASE r.target \in r.snapshot
    <3>1. r.target # NoFile
      BY <1>1, <2>1
    <3>2. t = WithTarget(r, b)
      BY <2>1, <3>1 DEF WithTarget
    <3>3. \A j \in DOMAIN b : b[j] # r.target /\ b[j] \in Files
      BY <1>1, <1>2
    <3> HIDE DEF T, t
    <3> QED
      BY <1>2, <3>2, <3>3, WithTargetFacts DEF IsRanking
  <2>2. CASE r.target \notin r.snapshot
    BY <1>1, <1>2, <2>2 DEF IsRanking
  <2> QED
    BY <2>1, <2>2
<1>4. RankByHeuristics(r) = Cut(t, MaxRanked)
  BY DEF RankByHeuristics, b
<1> QED
  BY <1>1, <1>3, <1>4, CutRanking

\* What the graph finds is finite, so that its scores have a largest one.
LEMMA FoundIsFinite ==
  ASSUME NEW r \in Requests, NEW g \in Seq(Nodes)
  PROVE  LET seeds == Range(QueryByKeywords(r, g))
         IN  /\ Expand(g, seeds) \subseteq Nodes
             /\ IsFiniteSet(Expand(g, seeds))
             /\ IsFiniteSet({NodeFile[n] : n \in Expand(g, seeds)} \ {NoFile, r.target})
             /\ \A f \in {NodeFile[n] : n \in Expand(g, seeds)} \ {NoFile, r.target} :
                   /\ f \in Files
                   /\ FileScore(r, g, seeds, f) \in
                        {Score(r, seeds, n) : n \in {m \in Expand(g, seeds) : NodeFile[m] = f}}
                   /\ \A n \in Expand(g, seeds) : NodeFile[n] = f =>
                         FileScore(r, g, seeds, f) >= Score(r, seeds, n)
<1> DEFINE seeds == Range(QueryByKeywords(r, g))
           all == Expand(g, seeds)
           files == {NodeFile[n] : n \in all}
<1>1. /\ r.hits \in [Nodes -> 0 .. MaxHits] /\ r.words \in Nat
      /\ NodeFile \in [Nodes -> Files \cup {NoFile}] /\ MaxHits \in Nat
  BY RequestFacts, SelectionAssumption
<1>2. Range(g) \subseteq Nodes /\ IsFiniteSet(Range(g))
  <2>1. DOMAIN g = 1 .. Len(g) /\ Len(g) \in Nat /\ \A i \in DOMAIN g : g[i] \in Nodes
    OBVIOUS
  <2>2. IsFiniteSet(DOMAIN g)
    BY <2>1, FS_Interval
  <2>3. IsFiniteSet({g[i] : i \in DOMAIN g})
    BY <2>2, ImageIsFinite
  <2> QED
    BY <2>1, <2>3 DEF Range
<1>3. seeds \subseteq Range(g)
  BY SeedFacts
<1> HIDE DEF seeds
<1>4. all \subseteq Range(g)
  BY <1>3 DEF Expand
<1>5. all \subseteq Nodes /\ IsFiniteSet(all)
  BY <1>2, <1>4, FS_Subset
<1> HIDE DEF all
<1>6. IsFiniteSet(files)
  <2> DEFINE h == [n \in all |-> NodeFile[n]]
  <2>1. IsFiniteSet({h[n] : n \in all})
    <3>1. all = DOMAIN h
      OBVIOUS
    <3> HIDE DEF h
    <3> QED
      BY <1>5, <3>1, ImageIsFinite
  <2>2. files = {h[n] : n \in all}
    OBVIOUS
  <2> QED
    BY <2>1, <2>2
<1>7. IsFiniteSet(files \ {NoFile, r.target}) /\ files \ {NoFile, r.target} \subseteq Files
  BY <1>1, <1>5, <1>6, FS_Subset
<1>8. ASSUME NEW f \in files \ {NoFile, r.target}
      PROVE  LET V == {Score(r, seeds, n) : n \in {m \in all : NodeFile[m] = f}}
             IN  Max(V) \in V /\ \A y \in V : Max(V) >= y
  <2> DEFINE M == {m \in all : NodeFile[m] = f}
             h == [n \in M |-> Score(r, seeds, n)]
             V == {Score(r, seeds, n) : n \in M}
  <2>1. M # {} /\ M \subseteq all
    OBVIOUS
  <2>2. IsFiniteSet(M)
    BY <1>5, <2>1, FS_Subset
  <2>3. IsFiniteSet({h[n] : n \in M})
    <3>1. M = DOMAIN h
      OBVIOUS
    <3> HIDE DEF h, M
    <3> QED
      BY <2>2, <3>1, ImageIsFinite
  <2>4. V = {h[n] : n \in M}
    OBVIOUS
  <2>5. \A n \in M : Score(r, seeds, n) \in Int
    BY <1>1, <1>5, <2>1 DEF Score
  <2>6. V \subseteq Int /\ V # {} /\ IsFiniteSet(V)
    BY <2>1, <2>3, <2>4, <2>5
  <2> HIDE DEF V
  <2>7. Max(V) \in V /\ \A y \in V : Max(V) >= y
    BY <2>6, MaxOfFinite
  <2> QED
    BY <2>7 DEF V
<1>9. \A f : FileScore(r, g, seeds, f) =
               Max({Score(r, seeds, n) : n \in {m \in all : NodeFile[m] = f}})
  BY DEF FileScore, all
<1>10. ASSUME NEW f \in files \ {NoFile, r.target}
       PROVE  /\ FileScore(r, g, seeds, f) \in
                   {Score(r, seeds, n) : n \in {m \in all : NodeFile[m] = f}}
              /\ \A n \in all : NodeFile[n] = f =>
                    FileScore(r, g, seeds, f) >= Score(r, seeds, n)
  BY <1>8, <1>9
<1> QED
  BY <1>5, <1>7, <1>10 DEF all, seeds

\* A ranking of the graph is in the order of the scores of its files, but for
\* the target.
IsByScore(r, g, s) ==
    LET seeds == Range(QueryByKeywords(r, g))
        found == FilesFound(r, g)
    IN  \A i, j \in DOMAIN s :
            i < j /\ s[i] # r.target /\ s[j] # r.target =>
                /\ s[i] \in found /\ s[j] \in found
                /\ FileScore(r, g, seeds, s[i]) >= FileScore(r, g, seeds, s[j])

LEMMA GraphRanking ==
  ASSUME NEW r \in Requests, NEW g \in Seq(Nodes), NEW ranked \in RankByGraph(r, g)
  PROVE  IsRanking(r, ranked) /\ IsByScore(r, g, ranked)
<1> DEFINE seeds == Range(QueryByKeywords(r, g))
           found == FilesFound(r, g)
           Descending(s) == \A i, j \in DOMAIN s :
             i < j => FileScore(r, g, seeds, s[i]) >= FileScore(r, g, seeds, s[j])
<1>1. IsFiniteSet(found) /\ found \subseteq Files /\ r.target \notin found
  BY FoundIsFinite DEF FilesFound
<1>2. Files \subseteq Paths /\ MaxRanked \in Nat
  BY SelectionAssumption DEF Paths
<1>3. \/ ranked = WithTarget(r, <<>>)
      \/ \E s \in SetToSeqs(found) : Descending(s) /\ ranked = Cut(WithTarget(r, s), MaxRanked)
  BY DEF RankByGraph
<1> HIDE DEF found, Descending
<1>4. CASE ranked = WithTarget(r, <<>>)
  <2> DEFINE e == <<>>
  <2>1. e \in Seq(Paths) /\ DOMAIN e = {}
    OBVIOUS
  <2> HIDE DEF e
  <2>2. Distinct(e) /\ \A i \in DOMAIN e : e[i] # r.target
    BY <2>1 DEF Distinct
  <2>3. ranked = WithTarget(r, e)
    BY <1>4 DEF e
  <2>4. /\ ranked \in Seq(Paths) /\ Distinct(ranked)
        /\ \A i \in DOMAIN ranked : ranked[i] = r.target
    BY <2>1, <2>2, <2>3, WithTargetFacts
  <2> QED
    BY <2>4 DEF IsRanking, IsByScore
<1>5. ASSUME NEW s \in SetToSeqs(found), Descending(s),
             ranked = Cut(WithTarget(r, s), MaxRanked)
      PROVE  IsRanking(r, ranked) /\ IsByScore(r, g, ranked)
  <2> DEFINE t == WithTarget(r, s)
             k == Cardinality(found)
  <2>1. k \in Nat
    BY <1>1, FS_CardinalityType
  <2>2. s \in [1 .. k -> found] /\ \A i, j \in 1 .. k : i # j => s[i] # s[j]
    BY DEF SetToSeqs
  <2> HIDE DEF k
  <2>3. s \in Seq(Paths) /\ Distinct(s)
    BY <1>1, <1>2, <2>1, <2>2 DEF Distinct
  <2>4. \A i \in DOMAIN s : s[i] # r.target /\ s[i] \in found
    BY <1>1, <2>2
  <2>5. /\ t \in Seq(Paths) /\ Distinct(t)
        /\ \A i \in DOMAIN t :
              \/ i = 1 /\ t[i] = r.target
              \/ \E j \in DOMAIN s : /\ t[i] = s[j]
                                     /\ i = IF r.target = NoFile THEN j ELSE j + 1
    BY <2>3, <2>4, WithTargetFacts
  <2> HIDE DEF t
  <2>6. IsRanking(r, t)
    BY <1>1, <2>4, <2>5 DEF IsRanking
  <2>7. IsByScore(r, g, t)
    <3> SUFFICES ASSUME NEW i \in DOMAIN t, NEW j \in DOMAIN t, i < j,
                        t[i] # r.target, t[j] # r.target
                 PROVE  /\ t[i] \in found /\ t[j] \in found
                        /\ FileScore(r, g, seeds, t[i]) >= FileScore(r, g, seeds, t[j])
      BY DEF IsByScore, found
    <3>1. PICK a \in DOMAIN s : t[i] = s[a] /\ i = IF r.target = NoFile THEN a ELSE a + 1
      BY <2>5
    <3>2. PICK b \in DOMAIN s : t[j] = s[b] /\ j = IF r.target = NoFile THEN b ELSE b + 1
      BY <2>5
    <3>3. a < b
      <4>1. a \in Int /\ b \in Int
        BY <2>1, <2>2
      <4> QED
        BY <3>1, <3>2, <4>1
    <3>4. FileScore(r, g, seeds, s[a]) >= FileScore(r, g, seeds, s[b])
      BY <1>5, <3>3 DEF Descending
    <3> QED
      BY <2>4, <3>1, <3>2, <3>4
  <2>8. ranked = Cut(t, MaxRanked)
    BY <1>5 DEF t
  <2>9. \A i \in DOMAIN ranked : i \in DOMAIN t /\ ranked[i] = t[i]
    BY <1>2, <2>5, <2>8, CutFacts
  <2>10. IsByScore(r, g, ranked)
    BY <2>7, <2>9 DEF IsByScore
  <2> QED
    BY <1>2, <2>6, <2>8, <2>10, CutRanking
<1> QED
  BY <1>3, <1>4, <1>5

\* The candidates of a ranking: the target, then the others in their order.
LEMMA CandidateFacts ==
  ASSUME NEW r \in Requests, NEW ranked, IsRanking(r, ranked)
  PROVE  LET c == Candidates(r, ranked)
         IN  /\ IsRanking(r, c)
             /\ r.target # NoFile => Len(c) >= 1 /\ c[1] = r.target
             /\ \A i, j \in DOMAIN c :
                  i < j /\ c[i] # r.target /\ c[j] # r.target =>
                    \E k, l \in DOMAIN ranked : k < l /\ ranked[k] = c[i] /\ ranked[l] = c[j]
<1> DEFINE T == Paths \ {r.target}
           o == Only(ranked, T)
           c == WithTarget(r, o)
<1>1. ranked \in Seq(Paths) /\ Distinct(ranked)
      /\ \A i \in DOMAIN ranked : ranked[i] \in Files \/ ranked[i] = r.target
  BY DEF IsRanking
<1>2. PICK m \in [1 .. Len(o) -> 1 .. Len(ranked)] :
        /\ \A j \in 1 .. Len(o) : o[j] = ranked[m[j]] /\ ranked[m[j]] \in T
        /\ \A j, k \in 1 .. Len(o) : j < k => m[j] < m[k]
  BY <1>1, OnlySelects
<1>3. o \in Seq(Paths) /\ Distinct(o)
  <2>1. \A i, j \in DOMAIN ranked : ranked[i] = ranked[j] => i = j
    BY <1>1 DEF Distinct
  <2> HIDE DEF T
  <2>2. o \in Seq(Paths) /\ \A i, j \in DOMAIN o : o[i] = o[j] => i = j
    BY <1>1, <2>1, OnlyElements
  <2> QED
    BY <2>2 DEF Distinct
<1> HIDE DEF o
<1>4. DOMAIN o = 1 .. Len(o) /\ DOMAIN ranked = 1 .. Len(ranked) /\ Len(o) \in Nat
  BY <1>1, <1>3
<1>5. \A j \in DOMAIN o : o[j] # r.target /\ o[j] \in Files
  BY <1>1, <1>2, <1>4
<1>6. /\ c \in Seq(Paths) /\ Distinct(c)
      /\ \A i \in DOMAIN c :
              \/ i = 1 /\ c[i] = r.target
              \/ \E j \in DOMAIN o : /\ c[i] = o[j]
                                     /\ i = IF r.target = NoFile THEN j ELSE j + 1
      /\ r.target # NoFile => Len(c) = Len(o) + 1 /\ c[1] = r.target
  BY <1>3, <1>5, WithTargetFacts
<1>7. Candidates(r, ranked) = c
  BY DEF Candidates, o
<1> HIDE DEF c
<1>8. IsRanking(r, c)
  BY <1>5, <1>6 DEF IsRanking
<1>9. r.target # NoFile => Len(c) >= 1 /\ c[1] = r.target
  BY <1>4, <1>6
<1>10. ASSUME NEW i \in DOMAIN c, NEW j \in DOMAIN c, i < j,
              c[i] # r.target, c[j] # r.target
       PROVE  \E k, l \in DOMAIN ranked : k < l /\ ranked[k] = c[i] /\ ranked[l] = c[j]
  <2>1. PICK a \in DOMAIN o : c[i] = o[a] /\ i = IF r.target = NoFile THEN a ELSE a + 1
    BY <1>6, <1>10
  <2>2. PICK b \in DOMAIN o : c[j] = o[b] /\ j = IF r.target = NoFile THEN b ELSE b + 1
    BY <1>6, <1>10
  <2>3. a < b
    BY <1>4, <1>10, <2>1, <2>2
  <2>4. /\ m[a] < m[b] /\ m[a] \in DOMAIN ranked /\ m[b] \in DOMAIN ranked
        /\ ranked[m[a]] = c[i] /\ ranked[m[b]] = c[j]
    BY <1>2, <1>4, <2>1, <2>2, <2>3
  <2> QED
    BY <2>4
<1> QED
  BY <1>7, <1>8, <1>9, <1>10

\* What the task names comes first among the candidates of the graph.
LEMMA NamedFirst ==
  ASSUME NEW r \in Requests, NEW g \in Seq(Nodes), NEW ranked \in RankByGraph(r, g),
         r.words < 10
  PROVE  LET c == Candidates(r, ranked)
             named == {NodeFile[n] : n \in Range(QueryByKeywords(r, g))}
         IN  \A i, j \in DOMAIN c :
               i < j /\ c[i] # r.target /\ c[j] \in named => c[i] \in named
<1> DEFINE c == Candidates(r, ranked)
           seeds == Range(QueryByKeywords(r, g))
           all == Expand(g, seeds)
           found == {NodeFile[n] : n \in all} \ {NoFile, r.target}
<1> SUFFICES ASSUME NEW i \in DOMAIN c, NEW j \in DOMAIN c, i < j, c[i] # r.target,
                    NEW n \in seeds, c[j] = NodeFile[n]
             PROVE  \E m \in seeds : c[i] = NodeFile[m]
  OBVIOUS
<1>1. IsRanking(r, ranked) /\ IsByScore(r, g, ranked)
  BY GraphRanking
<1>2. /\ c \in Seq(Paths) /\ Distinct(c)
      /\ r.target # NoFile => Len(c) >= 1 /\ c[1] = r.target
      /\ \A k, l \in DOMAIN c : k < l /\ c[k] # r.target /\ c[l] # r.target =>
           \E a, b \in DOMAIN ranked : a < b /\ ranked[a] = c[k] /\ ranked[b] = c[l]
  BY <1>1, CandidateFacts DEF IsRanking
<1> HIDE DEF c
<1>3. c[j] # r.target
  <2>1. r.target = NoFile => c[j] # r.target
    BY <1>2, SelectionAssumption
  <2>2. ASSUME r.target # NoFile, c[j] = r.target PROVE FALSE
    <3>1. DOMAIN c = 1 .. Len(c) /\ Len(c) \in Nat
      BY <1>2
    <3>2. 1 \in DOMAIN c /\ c[1] = c[j]
      BY <1>2, <2>2, <3>1
    <3>3. j = 1
      BY <1>2, <3>2 DEF Distinct
    <3> QED
      BY <3>1, <3>3
  <2> QED
    BY <2>1, <2>2
<1>4. PICK a, b \in DOMAIN ranked : a < b /\ ranked[a] = c[i] /\ ranked[b] = c[j]
  BY <1>2, <1>3
<1>5. /\ c[i] \in found /\ c[j] \in found
      /\ FileScore(r, g, seeds, c[i]) >= FileScore(r, g, seeds, c[j])
  BY <1>1, <1>3, <1>4 DEF IsByScore, FilesFound
<1>6. n \in all /\ r.hits[n] \in 1 .. MaxHits
  BY SeedFacts DEF Expand
<1>7. FileScore(r, g, seeds, c[j]) >= 10 * r.hits[n]
  <2>1. FileScore(r, g, seeds, c[j]) >= Score(r, seeds, n)
    BY <1>5, <1>6, FoundIsFinite
  <2> QED
    BY <2>1 DEF Score
<1>8. PICK m \in all : NodeFile[m] = c[i] /\ FileScore(r, g, seeds, c[i]) = Score(r, seeds, m)
  <2>1. FileScore(r, g, seeds, c[i]) \in
          {Score(r, seeds, k) : k \in {m \in all : NodeFile[m] = c[i]}}
    BY <1>5, FoundIsFinite
  <2> HIDE DEF all, seeds
  <2> QED
    BY <2>1
<1>9. m \in seeds
  <2>1. /\ r.words \in Nat /\ r.hits \in [Nodes -> 0 .. MaxHits] /\ MaxHits \in Nat
        /\ m \in Nodes /\ n \in Nodes
    BY <1>6, FoundIsFinite, RequestFacts, SelectionAssumption
  <2>2. ASSUME m \notin seeds PROVE FALSE
    <3>1. FileScore(r, g, seeds, c[i]) = r.words
      BY <1>8, <2>2 DEF Score
    <3>2. PICK k \in all : FileScore(r, g, seeds, c[j]) = Score(r, seeds, k)
      <4>1. FileScore(r, g, seeds, c[j]) \in
              {Score(r, seeds, k) : k \in {l \in all : NodeFile[l] = c[j]}}
        BY <1>5, FoundIsFinite
      <4> HIDE DEF all, seeds
      <4> QED
        BY <4>1
    <3>3. k \in Nodes
      BY <3>2, FoundIsFinite
    <3>4. Score(r, seeds, k) \in Int
      BY <2>1, <3>3 DEF Score
    <3> HIDE DEF seeds, all, found
    <3> QED
      BY <1>5, <1>6, <1>7, <2>1, <3>1, <3>2, <3>4
  <2> QED
    BY <2>2
<1> QED
  BY <1>8, <1>9

-----------------------------------------------------------------------------
(* The budget                                                              *)

Allocations ==
    [selected : Seq(Paths), tokens : Nat, dropped : Int, hit : BOOLEAN, full : BOOLEAN]

\* One turn takes the path or leaves it, and says why.
LEMMA Turn ==
  ASSUME NEW r \in Requests, NEW total \in Nat, NEW a \in Allocations, NEW p \in Paths
  PROVE  LET b == Consider(r, total, a, p)
         IN  /\ b \in Allocations
             /\ \/ /\ ~a.full /\ b.selected = Append(a.selected, p)
                   /\ b.tokens = a.tokens + r.tokens[p]
                   /\ b.hit = a.hit /\ ~b.full
                   /\ p # r.target => /\ Len(a.selected) < MaxFiles
                                      /\ b.tokens <= MaxTokens
                \/ /\ b.selected = a.selected /\ b.tokens = a.tokens /\ b.hit
                   /\ ~a.full /\ p # r.target
                   /\ \/ b.full /\ Len(a.selected) >= MaxFiles
                      \/ ~b.full /\ a.tokens + r.tokens[p] > MaxTokens
                \/ a.full /\ b = a
<1> DEFINE b == Consider(r, total, a, p)
<1>1. /\ a.selected \in Seq(Paths) /\ a.tokens \in Nat /\ a.dropped \in Int
      /\ a.hit \in BOOLEAN /\ a.full \in BOOLEAN
      /\ r.tokens[p] \in Nat /\ MaxFiles \in Nat /\ MaxTokens \in Nat
      /\ Len(a.selected) \in Nat
  BY RequestFacts, SelectionAssumption DEF Allocations
<1>2. CASE a.full
  <2>1. b = a
    BY <1>2 DEF Consider
  <2> QED
    BY <1>2, <2>1
<1>3. CASE ~a.full /\ p # r.target /\ Len(a.selected) >= MaxFiles
  <2>1. b = [a EXCEPT !.dropped = @ + (total - Len(a.selected)),
                      !.hit = TRUE, !.full = TRUE]
    <3>1. ~(~a.full /\ (p = r.target \/ Len(a.selected) < MaxFiles))
      BY <1>1, <1>3
    <3> QED
      BY <1>3, <3>1 DEF Consider
  <2>2. a.dropped + (total - Len(a.selected)) \in Int
    BY <1>1
  <2>3. b \in Allocations
    BY <1>1, <2>1, <2>2 DEF Allocations
  <2>4. b.selected = a.selected /\ b.tokens = a.tokens /\ b.hit /\ b.full
    BY <2>1 DEF Allocations
  <2> QED
    BY <1>3, <2>3, <2>4
<1>4. CASE ~a.full /\ (p = r.target \/ Len(a.selected) < MaxFiles)
  <2>1. b = IF p = r.target \/ a.tokens + r.tokens[p] <= MaxTokens
            THEN [a EXCEPT !.selected = Append(@, p), !.tokens = @ + r.tokens[p]]
            ELSE [a EXCEPT !.dropped = @ + 1, !.hit = TRUE]
    <3>1. ~(~a.full /\ p # r.target /\ Len(a.selected) >= MaxFiles)
      BY <1>1, <1>4
    <3> QED
      BY <1>4, <3>1 DEF Consider
  <2>2. CASE p = r.target \/ a.tokens + r.tokens[p] <= MaxTokens
    <3>1. b = [a EXCEPT !.selected = Append(@, p), !.tokens = @ + r.tokens[p]]
      BY <2>1, <2>2
    <3>2. Append(a.selected, p) \in Seq(Paths) /\ a.tokens + r.tokens[p] \in Nat
      BY <1>1
    <3>3. b \in Allocations
      BY <1>1, <3>1, <3>2 DEF Allocations
    <3>4. /\ b.selected = Append(a.selected, p) /\ b.tokens = a.tokens + r.tokens[p]
          /\ b.hit = a.hit /\ b.full = a.full
      BY <3>1 DEF Allocations
    <3> QED
      BY <1>1, <1>4, <2>2, <3>3, <3>4
  <2>3. CASE ~(p = r.target \/ a.tokens + r.tokens[p] <= MaxTokens)
    <3>1. b = [a EXCEPT !.dropped = @ + 1, !.hit = TRUE]
      BY <2>1, <2>3
    <3>2. a.dropped + 1 \in Int
      BY <1>1
    <3>3. b \in Allocations
      BY <1>1, <3>1, <3>2 DEF Allocations
    <3>4. b.selected = a.selected /\ b.tokens = a.tokens /\ b.hit /\ b.full = a.full
      BY <3>1 DEF Allocations
    <3>5. p # r.target /\ a.tokens + r.tokens[p] > MaxTokens
      BY <1>1, <2>3
    <3>6. ~a.full /\ ~b.full /\ b.hit
      BY <1>4, <3>4
    <3> QED
      BY <3>3, <3>4, <3>5, <3>6
  <2> QED
    BY <2>2, <2>3
<1> QED
  BY <1>1, <1>2, <1>3, <1>4

Takes(r, a, b, p) ==
    /\ ~a.full /\ b.selected = Append(a.selected, p)
    /\ b.tokens = a.tokens + r.tokens[p]
    /\ b.hit = a.hit /\ ~b.full
    /\ p # r.target => Len(a.selected) < MaxFiles /\ b.tokens <= MaxTokens

Leaves(r, a, b, p) ==
    /\ b.selected = a.selected /\ b.tokens = a.tokens /\ b.hit
    /\ p # r.target /\ (b.full => Len(a.selected) >= MaxFiles)

\* The three ways a turn goes.
LEMMA TurnCases ==
  ASSUME NEW r \in Requests, NEW total \in Nat, NEW a \in Allocations, NEW p \in Paths,
         NEW b, b = Consider(r, total, a, p)
  PROVE  Takes(r, a, b, p) \/ Leaves(r, a, b, p) \/ (a.full /\ b = a)
<1>1. \/ /\ ~a.full /\ b.selected = Append(a.selected, p)
         /\ b.tokens = a.tokens + r.tokens[p]
         /\ b.hit = a.hit /\ ~b.full
         /\ p # r.target => /\ Len(a.selected) < MaxFiles
                            /\ b.tokens <= MaxTokens
      \/ /\ b.selected = a.selected /\ b.tokens = a.tokens /\ b.hit
         /\ ~a.full /\ p # r.target
         /\ \/ b.full /\ Len(a.selected) >= MaxFiles
            \/ ~b.full /\ a.tokens + r.tokens[p] > MaxTokens
      \/ a.full /\ b = a
  BY Turn
<1> QED
  BY ONLY <1>1 DEF Takes, Leaves

Turns(r, c, f) ==
    /\ f \in [0 .. Len(c) -> Allocations]
    /\ f[0] = NothingAllocated
    /\ \A i \in 1 .. Len(c) : f[i] = Consider(r, Len(c), f[i - 1], c[i])

\* The loop of allocate() is a function on its turns.
LEMMA AllocateUnfolds ==
  ASSUME NEW r \in Requests, NEW ranked, Candidates(r, ranked) \in Seq(Paths)
  PROVE  \E f : /\ Turns(r, Candidates(r, ranked), f)
                /\ Allocate(r, ranked) = f[Len(Candidates(r, ranked))]
<1> DEFINE c == Candidates(r, ranked)
           n == Len(c)
           step == [x \in (1 .. n) \X Allocations |-> Consider(r, n, x[2], c[x[1]])]
           Solves(k) == k = [i \in 0 .. n |->
                              IF i = 0 THEN NothingAllocated
                              ELSE Consider(r, n, k[i - 1], c[i])]
           turn == CHOOSE k : Solves(k)
<1>1. n \in Nat /\ \A i \in 1 .. n : c[i] \in Paths
  OBVIOUS
<1>2. NothingAllocated \in Allocations
  BY DEF NothingAllocated, Allocations
<1>3. Allocate(r, ranked) = turn[n]
  BY DEF Allocate
<1> HIDE DEF n, c
<1>4. step \in [(1 .. n) \X Allocations -> Allocations]
  <2>1. \A i \in 1 .. n, a \in Allocations : Consider(r, n, a, c[i]) \in Allocations
    BY <1>1, Turn
  <2> QED
    BY <2>1
<1>5. \A i \in 1 .. n, a \in Allocations : step[<<i, a>>] = Consider(r, n, a, c[i])
  OBVIOUS
<1> HIDE DEF step
<1>6. PICK f : Iterates(n, Allocations, NothingAllocated, step, f)
  BY <1>1, <1>2, <1>4, RecursionExists
<1>7. /\ f \in [0 .. n -> Allocations] /\ f[0] = NothingAllocated
      /\ \A i \in 1 .. n : f[i] = Consider(r, n, f[i - 1], c[i])
  <2>1. \A i \in 1 .. n : f[i - 1] \in Allocations
    <3>1. \A i \in 1 .. n : i - 1 \in 0 .. n
      BY <1>1
    <3> QED
      BY <1>6, <3>1 DEF Iterates
  <2> QED
    BY <1>5, <1>6, <2>1 DEF Iterates
<1>8. Solves(f)
  <2>1. f = [i \in 0 .. n |-> f[i]]
    BY <1>7
  <2>2. \A i \in 0 .. n : f[i] = IF i = 0 THEN NothingAllocated
                                 ELSE Consider(r, n, f[i - 1], c[i])
    <3>1. \A i \in 0 .. n : i = 0 \/ i \in 1 .. n
      BY <1>1
    <3>2. 0 \notin 1 .. n
      OBVIOUS
    <3> QED
      BY <1>7, <3>1, <3>2
  <2> QED
    BY <2>1, <2>2
<1> HIDE DEF Solves
<1>9. Solves(turn)
  BY <1>8, Zenon
<1> HIDE DEF turn
<1>10. /\ turn[0] = NothingAllocated
       /\ \A i \in 1 .. n : turn[i] = Consider(r, n, turn[i - 1], c[i])
  <2>1. \A i \in 0 .. n : turn[i] = IF i = 0 THEN NothingAllocated
                                    ELSE Consider(r, n, turn[i - 1], c[i])
    BY <1>9 DEF Solves
  <2>2. 0 \in 0 .. n /\ \A i \in 1 .. n : i \in 0 .. n /\ i # 0
    BY <1>1
  <2> QED
    BY <2>1, <2>2, Zenon
<1>11. Obeys(n, Allocations, NothingAllocated, step, turn)
  BY <1>5, <1>10 DEF Obeys
<1>12. \A i \in 0 .. n : turn[i] = f[i]
  BY <1>1, <1>6, <1>11, RecursionUnique
<1>13. n \in 0 .. n
  BY <1>1
<1>14. Turns(r, c, f)
  BY <1>7 DEF Turns, n
<1> QED
  BY <1>3, <1>12, <1>13, <1>14 DEF n, c

\* What holds after i turns.
AfterTurn(r, c, a, i) ==
    /\ Len(a.selected) <= i /\ (a.hit <=> Len(a.selected) < i)
    /\ a.tokens = Total(r.tokens, a.selected)
    /\ Len(a.selected) <= MaxFiles
    /\ a.full => Len(a.selected) >= MaxFiles /\ a.hit
    /\ a.tokens <= MaxTokens \/ a.selected = <<r.target>>
    /\ r.target # NoFile /\ i >= 1 => Len(a.selected) >= 1 /\ a.selected[1] = r.target

LEMMA EveryTurn ==
  ASSUME NEW r \in Requests, NEW c, IsRanking(r, c), NEW f, Turns(r, c, f),
         r.target # NoFile => Len(c) >= 1 /\ c[1] = r.target
  PROVE  \A i \in 0 .. Len(c) : AfterTurn(r, c, f[i], i)
<1> DEFINE n == Len(c)
           H == {i \in 0 .. n : AfterTurn(r, c, f[i], i)}
<1>1. /\ n \in Nat /\ c \in Seq(Paths) /\ Distinct(c) /\ DOMAIN c = 1 .. n
      /\ MaxFiles \in Nat \ {0} /\ MaxTokens \in Nat \ {0}
      /\ r.tokens \in [Paths -> Nat] /\ NoFile \notin Paths
  BY RequestFacts, SelectionAssumption DEF IsRanking
<1>2. 0 \in H
  <2>1. f[0] = NothingAllocated /\ 0 \in 0 .. n
    BY <1>1 DEF Turns
  <2>2. Total(r.tokens, <<>>) = 0
    BY <1>1, TotalOfEmpty
  <2> QED
    BY <1>1, <2>1, <2>2 DEF AfterTurn, NothingAllocated
<1>3. ASSUME NEW i \in 1 .. n, i - 1 \in H PROVE i \in H
  <2> DEFINE a == f[i - 1]
             b == f[i]
             p == c[i]
  <2>1. /\ a \in Allocations /\ b \in Allocations /\ p \in Paths /\ i \in Nat
        /\ b = Consider(r, n, a, p)
    <3>1. i - 1 \in 0 .. n /\ i \in 0 .. n /\ i \in Nat
      BY <1>1
    <3>2. f[i - 1] \in Allocations /\ f[i] \in Allocations
      BY <3>1 DEF Turns
    <3>3. f[i] = Consider(r, n, f[i - 1], c[i])
      BY DEF Turns
    <3> QED
      BY <1>1, <3>1, <3>2, <3>3
  <2>2. AfterTurn(r, c, a, i - 1)
    BY <1>3
  <2>3. p = r.target => i = 1
    <3>1. ASSUME p = r.target PROVE 1 \in 1 .. n /\ c[1] = c[i]
      BY <1>1, <2>1, <3>1
    <3> QED
      BY <1>1, <3>1 DEF Distinct
  <2>4. r.target # NoFile /\ i = 1 => p = r.target
    OBVIOUS
  <2> HIDE DEF a, b, p
  <2>5. /\ a.selected \in Seq(Paths) /\ Len(a.selected) \in Nat
        /\ a.tokens \in Nat /\ r.tokens[p] \in Nat
        /\ a.hit \in BOOLEAN /\ a.full \in BOOLEAN /\ b.hit \in BOOLEAN /\ b.full \in BOOLEAN
    BY <1>1, <2>1 DEF Allocations
  <2>6. ASSUME Takes(r, a, b, p) PROVE i \in H
    <3> USE <2>6 DEF Takes
    <3>1. /\ Len(b.selected) = Len(a.selected) + 1
          /\ Len(a.selected) >= 1 => b.selected[1] = a.selected[1]
          /\ Len(a.selected) = 0 => b.selected[1] = p
      BY <2>1, <2>5, <2>6
    <3>2. Total(r.tokens, b.selected) = b.tokens
      BY <1>1, <2>1, <2>2, <2>5, <2>6, TotalOfAppend DEF AfterTurn
    <3>3. p = r.target => Len(a.selected) = 0 /\ b.selected = <<r.target>>
      <4>1. p = r.target => Len(a.selected) = 0
        BY <2>2, <2>3, <2>5 DEF AfterTurn
      <4>2. Len(a.selected) = 0 => b.selected = <<p>>
        <5>1. Len(a.selected) = 0 => a.selected = <<>>
          BY <2>5, EmptySeq
        <5>2. Append(<<>>, p) = <<p>>
          OBVIOUS
        <5> QED
          BY <2>6, <5>1, <5>2
      <4> QED
        BY <4>1, <4>2
    <3>4. Len(b.selected) <= MaxFiles
      BY <1>1, <2>5, <2>6, <3>1, <3>3
    <3>5. b.tokens <= MaxTokens \/ b.selected = <<r.target>>
      BY <2>6, <3>3
    <3>6. r.target # NoFile => Len(b.selected) >= 1 /\ b.selected[1] = r.target
      <4>1. CASE i = 1
        BY <2>2, <2>4, <2>5, <3>1, <4>1 DEF AfterTurn
      <4>2. CASE i # 1
        BY <2>1, <2>2, <2>5, <3>1, <4>2 DEF AfterTurn
      <4> QED
        BY <4>1, <4>2
    <3>7. /\ Len(b.selected) <= i
          /\ b.hit <=> Len(b.selected) < i
      BY <2>1, <2>2, <2>5, <2>6, <3>1 DEF AfterTurn
    <3>8. AfterTurn(r, c, b, i)
      BY <2>6, <3>2, <3>4, <3>5, <3>6, <3>7 DEF AfterTurn
    <3> QED
      BY <1>1, <3>8 DEF b
  <2>7. ASSUME Leaves(r, a, b, p) PROVE i \in H
    <3> USE <2>7 DEF Leaves
    <3>1. r.target # NoFile => i # 1
      BY <2>4, <2>7
    <3>2. AfterTurn(r, c, b, i)
      BY <2>1, <2>2, <2>5, <2>7, <3>1 DEF AfterTurn
    <3> QED
      BY <1>1, <3>2 DEF b
  <2>8. CASE a.full /\ b = a
    <3>1. i # 1
      BY <1>1, <2>2, <2>5, <2>8 DEF AfterTurn
    <3>2. AfterTurn(r, c, b, i)
      BY <1>1, <2>1, <2>2, <2>5, <2>8, <3>1 DEF AfterTurn
    <3> QED
      BY <1>1, <3>2 DEF b
  <2>9. Takes(r, a, b, p) \/ Leaves(r, a, b, p) \/ (a.full /\ b = a)
    <3> HIDE DEF n
    <3>1. n \in Nat
      BY <1>1
    <3> QED
      BY <2>1, <3>1, TurnCases
  <2> QED
    BY <2>6, <2>7, <2>8, <2>9
<1>4. 0 .. n \subseteq H
  <2> HIDE DEF H
  <2> QED
    BY <1>1, <1>2, <1>3, IntervalInduction
<1> QED
  BY <1>4

\* What is selected, turn by turn, is a part of the candidates: those that were
\* taken in the end.
LEMMA SelectedIsPart ==
  ASSUME NEW r \in Requests, NEW c, IsRanking(r, c), NEW f, Turns(r, c, f)
  PROVE  LET T == Range(f[Len(c)].selected)
         IN  Selects(Paths, c, T, [i \in 0 .. Len(c) |-> f[i].selected])
<1> DEFINE n == Len(c)
           T == Range(f[n].selected)
           Taken(i) == f[i].selected = Append(f[i - 1].selected, c[i])
           H == {i \in 0 .. n : \A x : x \in Range(f[i].selected) <=>
                                        \E j \in 1 .. i : Taken(j) /\ x = c[j]}
           h == [i \in 0 .. n |-> f[i].selected]
<1>1. /\ n \in Nat /\ c \in Seq(Paths) /\ DOMAIN c = 1 .. n /\ Distinct(c)
      /\ \A i \in 1 .. n : c[i] \in Paths
  BY DEF IsRanking
<1> HIDE DEF n
<1>2. /\ f \in [0 .. n -> Allocations] /\ f[0] = NothingAllocated
      /\ \A i \in 1 .. n : f[i] = Consider(r, n, f[i - 1], c[i])
  BY DEF Turns, n
<1>3. \A i \in 0 .. n : f[i].selected \in Seq(Paths)
  BY <1>2 DEF Allocations
<1>4. ASSUME NEW i \in 1 .. n
      PROVE  Taken(i) \/ f[i].selected = f[i - 1].selected
  <2>1. i - 1 \in 0 .. n
    BY <1>1
  <2>2. f[i - 1] \in Allocations /\ f[i] = Consider(r, n, f[i - 1], c[i]) /\ c[i] \in Paths
    BY <1>1, <1>2, <2>1
  <2> HIDE DEF Taken
  <2>3. \/ Consider(r, n, f[i - 1], c[i]).selected = Append(f[i - 1].selected, c[i])
        \/ Consider(r, n, f[i - 1], c[i]).selected = f[i - 1].selected
    BY <1>1, <2>2, Turn
  <2> QED
    BY <2>2, <2>3 DEF Taken
<1>5. 0 \in H
  <2>1. f[0].selected = <<>>
    BY <1>2 DEF NothingAllocated
  <2>2. Range(f[0].selected) = {}
    BY <2>1 DEF Range
  <2> QED
    BY <1>1, <2>2
<1>6. ASSUME NEW i \in 1 .. n, i - 1 \in H PROVE i \in H
  <2> DEFINE a == f[i - 1].selected
             b == f[i].selected
  <2>1. i - 1 \in 0 .. n /\ i \in 0 .. n /\ i \in Nat
    BY <1>1
  <2>2. a \in Seq(Paths) /\ b \in Seq(Paths)
    BY <1>3, <2>1
  <2>3. \A x : x \in Range(a) <=> \E j \in 1 .. i - 1 : Taken(j) /\ x = c[j]
    BY <1>6
  <2>4. \A x : x \in Range(b) <=> x \in Range(a) \/ (Taken(i) /\ x = c[i])
    <3>1. CASE Taken(i)
      <4>1. b = Append(a, c[i])
        BY <3>1
      <4> HIDE DEF a, b, Taken
      <4>2. /\ DOMAIN a = 1 .. Len(a) /\ DOMAIN b = 1 .. Len(a) + 1 /\ Len(a) \in Nat
            /\ b[Len(a) + 1] = c[i] /\ \A k \in 1 .. Len(a) : b[k] = a[k]
        BY <1>1, <2>2, <4>1
      <4>3. \A k \in 1 .. Len(a) + 1 : k \in 1 .. Len(a) \/ k = Len(a) + 1
        BY <4>2
      <4>4. Len(a) + 1 \in 1 .. Len(a) + 1 /\ \A k \in 1 .. Len(a) : k \in 1 .. Len(a) + 1
        BY <4>2
      <4> QED
        BY <3>1, <4>2, <4>3, <4>4 DEF Range
    <3>2. CASE ~Taken(i)
      <4>1. b = a
        BY <1>4, <3>2
      <4> QED
        BY <3>2, <4>1
    <3> QED
      BY <3>1, <3>2
  <2> HIDE DEF a, Taken
  <2>5. \A x : x \in Range(b) <=> \E j \in 1 .. i : Taken(j) /\ x = c[j]
    <3>1. \A j : j \in 1 .. i <=> j \in 1 .. i - 1 \/ j = i
      BY <2>1
    <3> QED
      BY <2>3, <2>4, <3>1
  <2> QED
    BY <2>1, <2>5 DEF b
<1>7. 0 .. n \subseteq H
  <2> HIDE DEF H
  <2> QED
    BY <1>1, <1>5, <1>6, IntervalInduction
<1>8. \A x : x \in T <=> \E j \in 1 .. n : Taken(j) /\ x = c[j]
  <2>1. n \in H
    <3>1. n \in 0 .. n
      BY <1>1
    <3> HIDE DEF H
    <3> QED
      BY <1>7, <3>1
  <2> QED
    BY <2>1
<1> HIDE DEF T
<1>9. \A i \in 1 .. n : Taken(i) <=> c[i] \in T
  <2> SUFFICES ASSUME NEW i \in 1 .. n, c[i] \in T PROVE Taken(i)
    BY <1>8
  <2>1. PICK j \in 1 .. n : Taken(j) /\ c[i] = c[j]
    BY <1>8
  <2> HIDE DEF Taken
  <2>2. i = j
    BY <1>1, <2>1 DEF Distinct
  <2> QED
    BY <2>1, <2>2
<1>10. \A i \in 1 .. n : f[i].selected = IF c[i] \in T THEN Append(f[i - 1].selected, c[i])
                                         ELSE f[i - 1].selected
  BY <1>4, <1>9
<1>11. h \in [0 .. n -> Seq(Paths)]
  BY <1>3
<1>12. \A i \in 1 .. n : h[i] = IF c[i] \in T THEN Append(h[i - 1], c[i]) ELSE h[i - 1]
  <2>1. \A i \in 1 .. n : i \in 0 .. n /\ i - 1 \in 0 .. n
    BY <1>1
  <2>2. \A i \in 0 .. n : h[i] = f[i].selected
    OBVIOUS
  <2> HIDE DEF h
  <2> QED
    BY <1>10, <2>1, <2>2
<1>13. h[0] = <<>>
  BY <1>1, <1>2 DEF NothingAllocated
<1>14. Selects(Paths, c, T, h)
  <2> HIDE DEF h
  <2> QED
    BY <1>11, <1>12, <1>13 DEF Selects, n
<1> QED
  BY <1>14 DEF T, n

\* The allocation of a ranking: the caps, and that nothing is left out without
\* need.
LEMMA AllocationFacts ==
  ASSUME NEW r \in Requests, NEW ranked, IsRanking(r, ranked)
  PROVE  LET c == Candidates(r, ranked)
             x == Allocate(r, ranked)
             Better(i) == Only(SubSeq(c, 1, i - 1), Range(x.selected))
         IN  /\ x \in Allocations
             /\ AfterTurn(r, c, x, Len(c))
             /\ IsRanking(r, x.selected)
             /\ \A i \in DOMAIN c : c[i] \notin Range(x.selected) =>
                  \/ Len(Better(i)) >= MaxFiles
                  \/ Total(r.tokens, Better(i)) + r.tokens[c[i]] > MaxTokens
<1> DEFINE c == Candidates(r, ranked)
           n == Len(c)
           x == Allocate(r, ranked)
           T == Range(x.selected)
           Better(i) == Only(SubSeq(c, 1, i - 1), T)
<1>1. IsRanking(r, c) /\ (r.target # NoFile => Len(c) >= 1 /\ c[1] = r.target)
  BY CandidateFacts
<1>2. c \in Seq(Paths) /\ n \in Nat /\ DOMAIN c = 1 .. n /\ \A i \in 1 .. n : c[i] \in Paths
  BY <1>1 DEF IsRanking
<1>3. PICK f : Turns(r, c, f) /\ x = f[n]
  BY <1>2, AllocateUnfolds
<1> HIDE DEF c, x, T
<1>4. \A i \in 0 .. n : AfterTurn(r, c, f[i], i)
  BY <1>1, <1>3, EveryTurn
<1> DEFINE h == [i \in 0 .. n |-> f[i].selected]
<1>5. Selects(Paths, c, T, h)
  BY <1>1, <1>3, SelectedIsPart DEF T
<1>6. /\ f \in [0 .. n -> Allocations] /\ f[0] = NothingAllocated
      /\ \A i \in 1 .. n : f[i] = Consider(r, n, f[i - 1], c[i])
  BY <1>3 DEF Turns
<1>7. \A i \in 0 .. n : Only(SubSeq(c, 1, i), T) = f[i].selected
  <2> HIDE DEF h
  <2>1. \A i \in 0 .. n : Only(SubSeq(c, 1, i), T) = h[i]
    BY <1>2, <1>5, OnlyOfPrefix
  <2> QED
    BY <2>1 DEF h
<1> HIDE DEF n
<1>8. x \in Allocations /\ AfterTurn(r, c, x, n)
  <2>1. n \in 0 .. n
    BY <1>2
  <2> QED
    BY <1>3, <1>4, <1>6, <2>1
<1>9. IsRanking(r, x.selected)
  <2> DEFINE t == SubSeq(c, 1, n)
  <2>1. t = c
    BY <1>2, SubSeqFull DEF n
  <2>2. x.selected = Only(c, T)
    <3>1. n \in 0 .. n
      BY <1>2
    <3> QED
      BY <1>3, <1>7, <2>1, <3>1
  <2>3. \A i, j \in DOMAIN c : c[i] = c[j] => i = j
    BY <1>1 DEF IsRanking, Distinct
  <2> HIDE DEF t, h, Better
  <2>4. /\ Only(c, T) \in Seq(Paths)
        /\ \A j \in DOMAIN Only(c, T) : \E i \in DOMAIN c : c[i] = Only(c, T)[j]
        /\ \A i, j \in DOMAIN Only(c, T) : Only(c, T)[i] = Only(c, T)[j] => i = j
    <3>1. c \in Seq(Paths)
      BY <1>2
    <3> QED
      BY <2>3, <3>1, OnlyElements
  <2> QED
    BY <1>1, <2>2, <2>4 DEF IsRanking, Distinct
<1>10. ASSUME NEW i \in 1 .. n, c[i] \notin T
       PROVE  \/ Len(Better(i)) >= MaxFiles
              \/ Total(r.tokens, Better(i)) + r.tokens[c[i]] > MaxTokens
  <2> DEFINE a == f[i - 1]
  <2>1. i - 1 \in 0 .. n /\ i \in 0 .. n /\ i \in Nat
    BY <1>2
  <2>2. Better(i) = a.selected /\ a \in Allocations /\ AfterTurn(r, c, a, i - 1)
    BY <1>4, <1>6, <1>7, <2>1
  <2>3. f[i] = Consider(r, n, a, c[i]) /\ c[i] \in Paths
    BY <1>2, <1>6
  <2>4. f[i].selected = a.selected
    <3>1. \A k \in 1 .. n : h[k] = IF c[k] \in T THEN Append(h[k - 1], c[k]) ELSE h[k - 1]
      BY <1>5 DEF Selects, n
    <3>2. h[i] = h[i - 1] /\ h[i] = f[i].selected /\ h[i - 1] = a.selected
      BY <1>10, <2>1, <3>1
    <3> QED
      BY <3>2
  <2> HIDE DEF a, h, Better
  <2>5. a.selected \in Seq(Paths) /\ Len(a.selected) \in Nat
    BY <2>2 DEF Allocations
  <2>6. a.selected # Append(a.selected, c[i])
    <3>1. Len(Append(a.selected, c[i])) = Len(a.selected) + 1
      BY <2>3, <2>5
    <3> QED
      BY <2>5, <3>1
  <2>7. \/ Consider(r, n, a, c[i]).selected = Append(a.selected, c[i])
        \/ Len(a.selected) >= MaxFiles
        \/ a.tokens + r.tokens[c[i]] > MaxTokens
        \/ a.full
    BY <1>2, <2>2, <2>3, Turn
  <2>8. Len(a.selected) >= MaxFiles \/ a.tokens + r.tokens[c[i]] > MaxTokens
    BY <2>2, <2>3, <2>4, <2>6, <2>7 DEF AfterTurn
  <2> QED
    BY <2>2, <2>8 DEF AfterTurn
<1> QED
  BY <1>2, <1>8, <1>9, <1>10 DEF c, x, T, n

-----------------------------------------------------------------------------
(* The context                                                             *)

\* Everything but the order by score, which is about the graph.
LEMMA OutcomeIsSound ==
  ASSUME NEW p \in Procs, request \in Requests, NEW ranked, IsRanking(request, ranked)
  PROVE  LET x == Outcome(p, ranked)
         IN  /\ x.allocation.selected \in Seq(Paths) /\ x.related \in Seq(Paths)
             /\ TargetLeads(request, x) /\ WithinBudget(request, x)
             /\ LimitIsReported(request, x) /\ ListedOnce(request, x)
<1> DEFINE r == request
           x == Outcome(p, ranked)
           c == Candidates(r, ranked)
           a == Allocate(r, ranked)
           s == a.selected
           o == Only(s, Paths \ {r.target})
           t == TargetFirst(r, s)
<1>1. /\ x.allocation = a /\ x.candidates = c /\ x.payload = Payload(r, s)
      /\ x.related = RelatedFiles(r, s)
      /\ (a.hit /\ r.behavior = "fail" => x.raised)
  BY DEF Outcome
<1> HIDE DEF x
<1>2. /\ x.payload.selected_files = t /\ x.payload.primary_file = r.target
  BY <1>1 DEF Payload
<1>3. /\ a \in Allocations /\ AfterTurn(r, c, a, Len(c)) /\ IsRanking(r, s)
      /\ \A i \in DOMAIN c : c[i] \notin Range(s) =>
            \/ Len(Only(SubSeq(c, 1, i - 1), Range(s))) >= MaxFiles
            \/ Total(r.tokens, Only(SubSeq(c, 1, i - 1), Range(s))) + r.tokens[c[i]] > MaxTokens
  BY AllocationFacts
<1>4. IsRanking(r, c) /\ (r.target # NoFile => Len(c) >= 1 /\ c[1] = r.target)
  BY CandidateFacts
<1>5. s \in Seq(Paths) /\ Len(c) \in Nat /\ Len(s) \in Nat /\ DOMAIN s = 1 .. Len(s)
      /\ MaxRelated \in Nat
  BY <1>3, <1>4, SelectionAssumption DEF IsRanking
<1> HIDE DEF a, c
<1>6. /\ o \in Seq(Paths) /\ Distinct(o)
      /\ \A i \in DOMAIN o : o[i] # r.target /\ (o[i] \in Files \/ o[i] = r.target)
  <2>1. \A i, j \in DOMAIN s : s[i] = s[j] => i = j
    BY <1>3 DEF IsRanking, Distinct
  <2> DEFINE T == Paths \ {r.target}
  <2> HIDE DEF T, s
  <2>2. /\ Only(s, T) \in Seq(Paths)
        /\ \A j \in DOMAIN Only(s, T) : Only(s, T)[j] \in T
                                        /\ \E i \in DOMAIN s : s[i] = Only(s, T)[j]
        /\ \A i, j \in DOMAIN Only(s, T) : Only(s, T)[i] = Only(s, T)[j] => i = j
    BY <1>5, <2>1, OnlyElements
  <2>3. Only(s, T) = o
    BY DEF T
  <2> HIDE DEF o
  <2>4. \A j \in DOMAIN o : \E i \in DOMAIN s : s[i] = o[j]
    BY <2>2, <2>3
  <2>5. \A i \in DOMAIN s : s[i] \in Files \/ s[i] = r.target
    BY <1>3 DEF IsRanking
  <2>6. \A j \in DOMAIN o : o[j] # r.target
    BY <2>2, <2>3 DEF T
  <2> QED
    BY <2>2, <2>3, <2>4, <2>5, <2>6 DEF Distinct
<1>7. x.related \in Seq(Paths)
  BY <1>1, <1>5, <1>6, CutFacts DEF RelatedFiles
<1> HIDE DEF o
<1>8. r.target # NoFile => Len(s) >= 1 /\ s[1] = r.target /\ r.target \in Range(s)
  <2> SUFFICES ASSUME r.target # NoFile
               PROVE  Len(s) >= 1 /\ s[1] = r.target /\ r.target \in Range(s)
    OBVIOUS
  <2>1. Len(s) >= 1 /\ s[1] = r.target
    BY <1>3, <1>4 DEF AfterTurn
  <2>2. 1 \in DOMAIN s
    BY <1>5, <2>1
  <2> QED
    BY <2>1, <2>2 DEF Range
<1>9. t = IF r.target \in Range(s) THEN <<r.target>> \o o ELSE o
  BY DEF TargetFirst, o
<1> HIDE DEF s, t
<1>10. TargetLeads(r, x)
  <2>1. r.target # NoFile => t[1] = r.target
    BY <1>5, <1>6, <1>8, <1>9
  <2> QED
    BY <1>1, <1>2, <1>8, <2>1 DEF TargetLeads, IsValidPayload, s
<1>11. WithinBudget(r, x)
  BY <1>1, <1>3 DEF WithinBudget, AfterTurn, TokensOf, s
<1>12. LimitIsReported(r, x)
  BY <1>1, <1>3 DEF LimitIsReported, AfterTurn, TokensOf, s
<1>13. \A i \in DOMAIN t : t[i] \in Files \/ (t[i] = r.target /\ r.target \in Range(s))
  <2>1. CASE r.target \in Range(s)
    <3>1. r.target \in Paths
      BY <1>5, <2>1 DEF Range
    <3> QED
      BY <1>6, <1>9, <2>1, <3>1
  <2>2. CASE r.target \notin Range(s)
    <3>1. t = o
      BY <1>9, <2>2
    <3>2. \A i \in DOMAIN o : o[i] \in Files
      BY <1>6
    <3> QED
      BY <3>1, <3>2
  <2> QED
    BY <2>1, <2>2
<1>14. Distinct(t)
  <2>1. CASE r.target \in Range(s)
    <3>1. r.target \in Paths
      BY <1>5, <2>1 DEF Range
    <3>2. r.target # NoFile
      BY <3>1, SelectionAssumption
    <3>3. t = WithTarget(r, o)
      BY <1>9, <2>1, <3>2 DEF WithTarget
    <3> QED
      BY <1>6, <3>3, WithTargetFacts
  <2>2. CASE r.target \notin Range(s)
    <3>1. t = o
      BY <1>9, <2>2
    <3> QED
      BY <1>6, <3>1 DEF Distinct
  <2> QED
    BY <2>1, <2>2
<1>15. ListedOnce(r, x)
  <2> SUFFICES ASSUME NEW i \in DOMAIN t, NEW j \in DOMAIN t, i # j,
                      FileAt[t[i]] = FileAt[t[j]], r.target \notin OtherPaths
               PROVE  FALSE
    BY <1>2 DEF ListedOnce
  <2>1. Range(s) \subseteq Paths
    BY <1>5 DEF Range
  <2>2. t[i] \in Files /\ t[j] \in Files
    BY <1>13, <2>1 DEF Paths
  <2>3. t[i] = t[j]
    BY <2>2, SelectionAssumption
  <2> QED
    BY <1>14, <2>3 DEF Distinct
<1>16. s \in Seq(Paths)
  BY <1>5
<1> QED
  BY <1>1, <1>7, <1>10, <1>11, <1>12, <1>15, <1>16 DEF s, x

-----------------------------------------------------------------------------
(* The theorems                                                            *)

\* The tree, which the type of the resolver leaves out.
TreeInv == tree \in Trees

LEMMA NextInv ==
  ASSUME IInv, TreeInv, [Next]_vars
  PROVE  IInv' /\ TreeInv'
<1>1. CASE UNCHANGED vars
  BY <1>1, UserInv DEF vars, resolverVars, TreeInv, IInv, ResolverType
<1>2. ASSUME NEW p \in Procs, Retrieve(p) PROVE IInv' /\ TreeInv'
  BY <1>2, ForgetInv DEF Retrieve, TreeInv
<1>3. ASSUME NEW p \in Procs, Resolve(p) PROVE IInv' /\ TreeInv'
  BY <1>3, ResolveInv DEF Resolve, TreeInv
<1>4. ASSUME NEW p \in Procs, Extract(p) PROVE IInv' /\ TreeInv'
  BY <1>4, ExtractInv DEF Extract, TreeInv
<1>5. ASSUME NEW p \in Procs, OpenGraph(p) PROVE IInv' /\ TreeInv'
  BY <1>5, OpenGraphInv DEF OpenGraph, TreeInv
<1>6. ASSUME NEW p \in Procs, WriteGraph(p) PROVE IInv' /\ TreeInv'
  BY <1>6, WriteGraphInv DEF WriteGraph, TreeInv
<1>7. ASSUME NEW p \in Procs, OpenMeta(p) PROVE IInv' /\ TreeInv'
  BY <1>7, OpenMetaInv DEF OpenMeta, TreeInv
<1>8. ASSUME NEW p \in Procs, WriteMeta(p) PROVE IInv' /\ TreeInv'
  BY <1>8, WriteMetaInv DEF WriteMeta, TreeInv
<1>9. ASSUME NEW p \in Procs, Crash(p) PROVE IInv' /\ TreeInv'
  BY <1>9, ForgetInv DEF Crash, TreeInv
<1>10. ASSUME NEW c \in Commits, CheckOut(c) PROVE IInv' /\ TreeInv'
  BY <1>10, UserInv, DirFacts DEF CheckOut, TreeInv
<1>11. ASSUME NEW e \in Edits, Edit(e) PROVE IInv' /\ TreeInv'
  BY <1>11, UserInv DEF Edit, TreeInv, Trees, IInv, ResolverType
<1> QED
  BY <1>1, <1>2, <1>3, <1>4, <1>5, <1>6, <1>7, <1>8, <1>9, <1>10, <1>11
     DEF Next, ResolverStep, UserStep

\* What is found valid is whole and of its commit.
LEMMA ValidIsTrusted ==
  ASSUME IInv, NEW c \in Trusted, IsValid(c, c)
  PROVE  graph[c] = c
  BY DEF IInv, StoreInv, IsValid

\* What a retrieval reads and what it says of it.
LEMMA RetrievedIsTrusted ==
  ASSUME IInv, NEW p \in Procs, Retrieve(p)
  PROVE  \/ returned'.snapshot = "none" \/ returned'.place \in suspect
         \/ returned'.snapshot = returned'.expected
            /\ returned'.built = returned'.expected
<1> USE DEF IInv
<1>1. PICK ranked \in Ranked(p) : returned' = Outcome(p, ranked)
  BY DEF Retrieve
<1>2. /\ returned'.place = dir[p] /\ returned'.expected = sha[p]
      /\ returned'.built = graph[dir[p]]
      /\ returned'.snapshot = IF UsesGraph(p) THEN Snapshot(p) ELSE "none"
  BY <1>1 DEF Outcome
<1>3. pc[p] = "resolved" /\ dir[p] \in {LocalDir, sha[p]} /\ sha[p] \in Commits
  BY DEF Retrieve, PlaceInv
<1>4. SUFFICES ASSUME UsesGraph(p), dir[p] \notin suspect
               PROVE  Snapshot(p) = sha[p] /\ graph[dir[p]] = sha[p]
  BY <1>2
<1>5. CASE dir[p] = LocalDir
  BY <1>3, <1>5 DEF PlaceInv, Snapshot
<1>6. CASE dir[p] = sha[p]
  <2>1. dir[p] \in Trusted
    BY <1>3, <1>4, <1>6 DEF Trusted
  <2>2. dir[p] \notin Codeless
    BY <1>4, <2>1, DirFacts DEF StoreInv, UsesGraph
  <2>3. graph[dir[p]] = dir[p] /\ meta[dir[p]] = dir[p]
    BY <1>3, <2>1, <2>2 DEF BuildInv
  <2> QED
    BY <1>3, <1>6, <2>3 DEF Snapshot
<1> QED
  BY <1>3, <1>5, <1>6

\* The inductive invariant of the store of graphs.
THEOREM Invariance == Spec => [](IInv /\ TreeInv)
<1>1. Init => IInv /\ TreeInv
  BY InitInv, DirFacts DEF Init, ResolverInit, TreeInv
<1> QED
  BY <1>1, NextInv, PTL DEF Spec

\* A directory that is found valid holds the graph of its commit, whatever
\* crashed, and a retrieval says of which commit its graph is, unless builds of
\* the directory overlapped or one read a tree that was not the commit, after an
\* edit or a checkout (graph_resolver.py, _is_valid and _build_graph).
THEOREM ValidGraphsAreTrusted == Spec => []GraphIsTrusted
<1> DEFINE Told == returned # NoResult =>
         \/ returned.snapshot = "none" \/ returned.place \in suspect
         \/ returned.snapshot = returned.expected /\ returned.built = returned.expected
<1>1. Init => Told
  BY DEF Init
<1>2. IInv /\ TreeInv /\ Told /\ [Next]_vars => Told'
  <2> SUFFICES ASSUME IInv, Told, [Next]_vars PROVE Told'
    OBVIOUS
  <2>1. CASE UNCHANGED vars
    BY <2>1 DEF vars, resolverVars, storeVars
  <2>2. ASSUME NEW p \in Procs, Retrieve(p) PROVE Told'
    <3>1. suspect' = suspect
      BY <2>2 DEF Retrieve, storeVars
    <3> QED
      BY <2>2, <3>1, RetrievedIsTrusted
  <2>3. CASE returned' = NoResult
    BY <2>3
  <2> QED
    BY <2>1, <2>2, <2>3 DEF Next
<1>3. IInv /\ Told => GraphIsTrusted
  BY ValidIsTrusted DEF GraphIsTrusted, Trusted, SystemDir
<1> QED
  BY <1>1, <1>2, <1>3, Invariance, PTL DEF Spec

-----------------------------------------------------------------------------
(* The type, and the context                                               *)

\* What the inductive invariant above leaves out of the type.
TypeInv ==
    /\ config \in [mode: {"repo_local", "system", "hybrid"}, auto_update: BOOLEAN]
    /\ meta \in [Dirs -> Commits \cup {"none", "torn"}]
    /\ suspect \subseteq Dirs
    /\ request \in Requests

LEMMA TypeInvInit == Init => TypeInv
  BY DirFacts DEF Init, ResolverInit, TypeInv

LEMMA TypeInvNext ==
  ASSUME IInv, TypeInv, [Next]_vars
  PROVE  TypeInv'
<1> USE DEF IInv, TypeInv
<1>1. \A p \in Procs : Building(p) => dir[p] \in Dirs /\ sha[p] \in Commits
  BY DirFacts DEF PlaceInv, Building
<1>2. CASE UNCHANGED vars
  BY <1>2 DEF vars, resolverVars, storeVars
<1>3. ASSUME NEW p \in Procs, Retrieve(p) PROVE TypeInv'
  BY <1>3 DEF Retrieve, storeVars
<1>4. ASSUME NEW p \in Procs, ResolverStep(p), UNCHANGED request PROVE TypeInv'
  <2>1. CASE Resolve(p)
    BY <1>4, <2>1, DirFacts DEF Resolve, ResolverType, SystemDir
  <2>2. CASE Extract(p)
    <3>1. dir[p] \in Dirs
      BY <1>1, <2>2 DEF Extract, Building
    <3> QED
      BY <1>4, <2>2, <3>1 DEF Extract
  <2>3. CASE OpenGraph(p) \/ WriteGraph(p)
    BY <1>4, <2>3 DEF OpenGraph, WriteGraph
  <2>4. CASE OpenMeta(p)
    BY <1>4, <2>4 DEF OpenMeta
  <2>5. CASE WriteMeta(p)
    <3>1. sha[p] \in Commits
      BY <1>1, <2>5 DEF WriteMeta, Building
    <3> QED
      BY <1>4, <2>5, <3>1 DEF WriteMeta
  <2>6. CASE Crash(p)
    BY <1>4, <2>6 DEF Crash, storeVars
  <2> QED
    BY <1>4, <2>1, <2>2, <2>3, <2>4, <2>5, <2>6 DEF ResolverStep
<1>5. CASE UserStep /\ UNCHANGED request
  BY <1>5 DEF UserStep, CheckOut, Edit, storeVars
<1> QED
  BY <1>2, <1>3, <1>4, <1>5 DEF Next

\* Whatever a retrieval returns has its type and is sound.
ReturnedIsSound ==
    returned # NoResult =>
        /\ returned.allocation.selected \in Seq(Paths)
        /\ returned.related \in Seq(Paths)
        /\ returned.snapshot \in Commits \cup {"none"}
        /\ TargetLeads(request, returned) /\ WithinBudget(request, returned)
        /\ LimitIsReported(request, returned) /\ ListedOnce(request, returned)
        /\ MatchesFirst(request, returned)

LEMMA RetrieveIsSound ==
  ASSUME IInv, TypeInv, NEW p \in Procs, Retrieve(p)
  PROVE  ReturnedIsSound'
<1> USE DEF IInv, TypeInv
<1>1. PICK ranked \in Ranked(p) : returned' = Outcome(p, ranked)
  BY DEF Retrieve
<1>2. request' = request /\ request \in Requests /\ UNCHANGED <<graph, meta>>
  BY DEF Retrieve, storeVars
<1>3. pc[p] = "resolved" /\ sha[p] \in Commits
  BY DEF Retrieve, PlaceInv
<1>4. UsesGraph(p) => GraphNodes[graph[dir[p]]] \in Seq(Nodes)
  BY RetrievalAssumption DEF UsesGraph
<1>5. IsRanking(request, ranked)
  BY <1>2, <1>4, GraphRanking, HeuristicRanking DEF Ranked
<1> DEFINE x == Outcome(p, ranked)
<1>6. /\ x.allocation.selected \in Seq(Paths) /\ x.related \in Seq(Paths)
      /\ TargetLeads(request, x) /\ WithinBudget(request, x)
      /\ LimitIsReported(request, x) /\ ListedOnce(request, x)
  BY <1>2, <1>5, OutcomeIsSound
<1>7. /\ x.candidates = Candidates(request, ranked) /\ x.built = graph[dir[p]]
      /\ x.snapshot = IF UsesGraph(p) THEN Snapshot(p) ELSE "none"
  BY DEF Outcome
<1> HIDE DEF x
<1>8. x.snapshot \in Commits \cup {"none"}
  BY <1>3, <1>7 DEF Snapshot
<1>9. MatchesFirst(request, x)
  <2> SUFFICES ASSUME x.snapshot # "none", request.words < 10
               PROVE  \A i, j \in DOMAIN x.candidates :
                        i < j /\ x.candidates[i] # request.target
                              /\ x.candidates[j] \in Named(request, x)
                        => x.candidates[i] \in Named(request, x)
    BY DEF MatchesFirst
  <2>1. UsesGraph(p)
    BY <1>7
  <2> DEFINE g == GraphNodes[graph[dir[p]]]
  <2>2. g \in Seq(Nodes) /\ ranked \in RankByGraph(request, g)
    BY <1>1, <1>4, <2>1 DEF Ranked
  <2>3. Named(request, x) = {NodeFile[n] : n \in Range(QueryByKeywords(request, g))}
    BY <1>7 DEF Named
  <2> HIDE DEF g
  <2> QED
    BY <1>2, <1>7, <2>2, <2>3, NamedFirst
<1>10. returned' = x
  BY <1>1 DEF x
<1>11. /\ TargetLeads(request', returned') /\ WithinBudget(request', returned')
       /\ LimitIsReported(request', returned') /\ ListedOnce(request', returned')
       /\ MatchesFirst(request', returned')
  BY <1>2, <1>6, <1>9, <1>10
<1> QED
  BY <1>6, <1>8, <1>10, <1>11 DEF ReturnedIsSound

LEMMA Soundness == Spec => [](TypeInv /\ ReturnedIsSound)
<1>1. Init => TypeInv /\ ReturnedIsSound
  BY TypeInvInit DEF Init, ReturnedIsSound
<1>2. IInv /\ TypeInv /\ ReturnedIsSound /\ [Next]_vars => TypeInv' /\ ReturnedIsSound'
  <2> SUFFICES ASSUME IInv, TypeInv, ReturnedIsSound, [Next]_vars
               PROVE  ReturnedIsSound'
    BY TypeInvNext
  <2>1. CASE UNCHANGED vars
    BY <2>1 DEF vars, ReturnedIsSound
  <2>2. ASSUME NEW p \in Procs, Retrieve(p) PROVE ReturnedIsSound'
    BY <2>2, RetrieveIsSound
  <2>3. CASE returned' = NoResult
    BY <2>3 DEF ReturnedIsSound
  <2> QED
    BY <2>1, <2>2, <2>3 DEF Next
<1> QED
  BY <1>1, <1>2, Invariance, PTL DEF Spec

\* Every value is of its kind: the metadata name a commit or are torn, and only
\* directories of the store are suspect.
THEOREM TypeCorrect == Spec => []TypeOK
<1>1. IInv /\ TreeInv /\ TypeInv /\ ReturnedIsSound => TypeOK
  BY DEF IInv, ResolverType, TreeInv, TypeInv, ReturnedIsSound, TypeOK, Contents, Phases
<1> QED
  BY <1>1, Invariance, Soundness, PTL

\* Whatever the graph, the request and the ranker's cut, the context keeps to
\* the caps on files and tokens but for the target, which comes first; what the
\* budget leaves out of the ranking is reported and did not fit; no file is
\* listed twice, unless the target has another spelling; and in a task of fewer
\* than ten words what it names comes before what is only linked to it.  Of the
\* files that the ranker cut off it says nothing (retrieval_node.py,
\* context_budget.py, context_contract.py).
THEOREM ContextSound == Spec => []ContextIsSound
<1>1. ReturnedIsSound => ContextIsSound
  BY DEF ReturnedIsSound, ContextIsSound
<1> QED
  BY <1>1, Soundness, PTL
=============================================================================
