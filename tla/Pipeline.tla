------------------------------ MODULE Pipeline ------------------------------
(***************************************************************************)
(* The embedding pipeline of one repository: EmbeddingPipeline             *)
(* (pipeline.py) with the two stores it writes one after the other,        *)
(* Neo4jStore (graph/store.py) and CheckpointManager (checkpoint.py).      *)
(*                                                                         *)
(* Only one run at a time: the scheduler runs PipelineTasks under its      *)
(* mutation lock (ExecutionLoop.tla).  A run may end anywhere by an        *)
(* exception, a cancellation or a crash, and then what was written to the  *)
(* database and to the checkpoint files remains.  If what failed was one   *)
(* of the coroutines that describe the functions, the others remain too:   *)
(* gather() does not cancel them.  They outlive the run as orphans and     *)
(* still save its checkpoint.                                              *)
(*                                                                         *)
(* The source of a function is a version of it.  An embedding, a           *)
(* description or a description's embedding is the version it was made     *)
(* from.                                                                   *)
(***************************************************************************)
EXTENDS Naturals, FiniteSets

CONSTANTS Functions,           \* the ids that may be extracted
          Versions,            \* the source code a function may have
          Short,               \* the versions below limits.min_loc_threshold
          None,                \* Python's None, Cypher's NULL; also: no node
          FunctionBatchSize,   \* batch_sizes.function_upsert
          EdgeBatchSize,       \* batch_sizes.edge_upsert
          Interval,            \* checkpoint.interval
          CheckpointEnabled,   \* checkpoint.enabled
          Flaky,               \* the functions for which model calls may fail
          MayRaise,            \* may a describing coroutine or its callback raise
          MaxRuns              \* bound: how many runs are started

ASSUME PipelineAssumption ==
    /\ IsFiniteSet(Functions)
    /\ Short \subseteq Versions
    /\ None \notin Versions \cup {"ok", "error", "skipped"}
    /\ FunctionBatchSize \in Nat \ {0}
    /\ EdgeBatchSize \in Nat \ {0}
    /\ Interval \in Nat \ {0}
    /\ CheckpointEnabled \in BOOLEAN
    /\ Flaky \subseteq Functions
    /\ MayRaise \in BOOLEAN
    /\ MaxRuns \in Nat

VARIABLES
    node,         \* the Function nodes, None where there is none
    edges,        \* the SIMILAR_TO relationships
    checkpoint,   \* the checkpoint file of each run key
    pc,           \* the stage of the run
    dry,          \* EmbeddingPipeline._dry_run
    noDesc,       \* EmbeddingPipeline._skip_descriptions
    seen,         \* all_records: the version extracted, or None
    total,        \* result.total_extracted, counted before the LOC filter
    changed,      \* the ids of the changed records
    rec,          \* the fields of the changed records
    todo,         \* the records the stage has not handled yet
    done,         \* describe_batch's `completed`
    savesDue,     \* progress callbacks about to save the checkpoint
    found,        \* the edges computed and not yet written
    orphans,      \* what coroutines of failed runs hold and have yet to do
    overwritten,  \* history: an orphan saved the file this run has restored
    runs          \* history: the number of runs started

stored  == <<node, edges, checkpoint>>
options == <<dry, noDesc>>
scan    == <<seen, total>>
work    == <<noDesc, changed, rec, todo, done, savesDue, found, overwritten>>
vars    == <<stored, pc, dry, scan, work, orphans, runs>>

Maybe(S) == S \cup {None}

\* _SAVED_FIELDS: what a run computes for a record, checkpoints and upserts.
Fields == [code       : Maybe(Versions),
           codeStatus : Maybe({"ok", "error"}),
           desc       : Maybe(Versions),
           descStatus : Maybe({"ok", "error", "skipped"}),
           descEmb    : Maybe(Versions)]

ASSUME NoneAssumption == None \notin [hash : Versions, data : Fields]

Blank == [code |-> None, codeStatus |-> None, desc |-> None, descStatus |-> None,
          descEmb |-> None]

Pick(new, old) == IF new # None THEN new ELSE old

\* mutant: COALESCE(f.x, rec.x) for the statuses
KeepOldStatus(new, old) ==
    [code       |-> Pick(new.code, old.code),
     codeStatus |-> Pick(old.codeStatus, new.codeStatus),
     desc       |-> Pick(new.desc, old.desc),
     descStatus |-> Pick(old.descStatus, new.descStatus),
     descEmb    |-> Pick(new.descEmb, old.descEmb)]

\* CASE WHEN rec.x IS NOT NULL THEN rec.x ELSE f.x END, for every field.
KeepOld(new, old) ==
    [code       |-> Pick(new.code, old.code),
     codeStatus |-> Pick(new.codeStatus, old.codeStatus),
     desc       |-> Pick(new.desc, old.desc),
     descStatus |-> Pick(new.descStatus, old.descStatus),
     descEmb    |-> Pick(new.descEmb, old.descEmb)]

Nodes == {f \in Functions : node[f] # None}
Seen  == {f \in Functions : seen[f] # None}
Pairs == {p \in SUBSET Functions : Cardinality(p) = 2}

Embedded == {f \in Nodes : node[f].data.code # None \/ node[f].data.descEmb # None}

\* What the similarity of two functions is computed from.
Vectors(p) == [f \in p |-> <<node[f].data.code, node[f].data.descEmb>>]

Init ==
    /\ node = [f \in Functions |-> None]
    /\ edges = {}
    /\ checkpoint = [k \in SUBSET Functions |-> None]
    /\ pc = "idle"
    /\ dry = FALSE /\ noDesc = FALSE
    /\ seen = [f \in Functions |-> None]
    /\ total = 0
    /\ changed = {} /\ todo = {} /\ found = {}
    /\ rec = [f \in Functions |-> Blank]
    /\ done = 0 /\ savesDue = 0
    /\ orphans = {} /\ overwritten = FALSE
    /\ runs = 0

-----------------------------------------------------------------------------
(* CheckpointManager.  The key of a file stands for a set of ids.          *)

Saved(key, fields) ==
    IF CheckpointEnabled THEN [checkpoint EXCEPT ![key] = fields] ELSE checkpoint

LoadedBlindly(key) ==     \* mutant: the file is not tested for existence
    IF CheckpointEnabled /\ key # {} THEN checkpoint[key] ELSE [f \in Functions |-> Blank]

NeverLoaded(key) ==       \* mutant: every run starts from scratch
    [f \in Functions |-> Blank]

Loaded(key) ==
    IF CheckpointEnabled /\ key # {} /\ checkpoint[key] # None
    THEN checkpoint[key] ELSE [f \in Functions |-> Blank]

Cleared(key) ==
    IF CheckpointEnabled /\ key # {} THEN [checkpoint EXCEPT ![key] = None] ELSE checkpoint

-----------------------------------------------------------------------------
(* A run                                                                   *)

\* What the run kept in memory is gone.
Forget ==
    /\ changed' = {} /\ todo' = {} /\ found' = {}
    /\ rec' = [f \in Functions |-> Blank]
    /\ done' = 0 /\ savesDue' = 0
    /\ noDesc' = FALSE /\ overwritten' = FALSE

Finish == pc' = "done" /\ Forget

StartRun ==
    /\ pc \in {"idle", "done"}
    /\ runs < MaxRuns /\ runs' = runs + 1
    /\ pc' = "extract"
    /\ dry' \in BOOLEAN /\ noDesc' \in BOOLEAN
    /\ seen' = [f \in Functions |-> None] /\ total' = 0
    /\ UNCHANGED <<stored, changed, rec, todo, done, savesDue, found, overwritten, orphans>>

\* Between two runs the repository may have become anything.  An empty
\* extraction ends the run.
Extract ==
    /\ pc = "extract"
    /\ \E source \in [Functions -> Maybe(Versions)] :
          /\ seen' = [f \in Functions |-> IF source[f] \in Short THEN None ELSE source[f]]
          /\ total' = Cardinality({f \in Functions : source[f] # None})
    /\ IF \A f \in Functions : seen'[f] = None THEN Finish
       ELSE pc' = "plan" /\ UNCHANGED work
    /\ UNCHANGED <<stored, dry, orphans, runs>>

IsChanged(f) == seen[f] # None /\ (node[f] = None \/ node[f].hash # seen[f])

PlanForReal ==            \* mutant: the dry run goes on
    /\ pc = "plan"
    /\ UNCHANGED <<stored, dry, scan, orphans, runs>>
    /\ changed' = {f \in Functions : IsChanged(f)}
    /\ rec' = Loaded(changed')
    /\ IF changed' = {} THEN pc' = "upsert" /\ todo' = Seen
       ELSE pc' = "embed" /\ todo' = {}
    /\ UNCHANGED <<noDesc, done, savesDue, found, overwritten>>

\* Compare with the stored hashes, then restore what an earlier run saved.
Plan ==
    /\ pc = "plan"
    /\ UNCHANGED <<stored, dry, scan, orphans, runs>>
    /\ IF dry THEN Finish
       ELSE /\ changed' = {f \in Functions : IsChanged(f)}
            /\ rec' = Loaded(changed')
            /\ IF changed' = {} THEN pc' = "upsert" /\ todo' = Seen
               ELSE pc' = "embed" /\ todo' = {}
            /\ UNCHANGED <<noDesc, done, savesDue, found, overwritten>>

\* What is left to describe after the checkpoint was restored.
DescribeAll == changed    \* mutant: the restored status is not looked at

NeedsDescription == {f \in changed : rec'[f].descStatus # "ok"}

\* embed_code_batch() catches every failure of a record and goes on.
EmbedCode ==
    /\ pc = "embed"
    /\ LET needs == {f \in changed : rec[f].codeStatus # "ok"}
       IN  \E failed \in SUBSET (needs \cap Flaky) :
              rec' = [f \in Functions |->
                         IF f \in failed THEN [rec[f] EXCEPT !.codeStatus = "error"]
                         ELSE IF f \in needs
                              THEN [rec[f] EXCEPT !.code = seen[f], !.codeStatus = "ok"]
                              ELSE rec[f]]
    /\ checkpoint' = Saved(changed, rec')
    /\ IF noDesc THEN pc' = "skip" /\ todo' = {}
       ELSE /\ pc' = "describe"
            /\ todo' = NeedsDescription
    /\ UNCHANGED <<node, edges, options, scan, changed, done, savesDue, found, overwritten,
                   orphans, runs>>

SkipDescriptions ==
    /\ pc = "skip"
    /\ rec' = [f \in Functions |-> IF f \in changed
                                   THEN [rec[f] EXCEPT !.descStatus = "skipped"]
                                   ELSE rec[f]]
    /\ pc' = "upsert" /\ todo' = Seen
    /\ UNCHANGED <<stored, options, scan, changed, done, savesDue, found, overwritten,
                   orphans, runs>>

\* Descriptions are generated concurrently and end in any order.
Describe(f) ==
    /\ pc = "describe" /\ f \in todo
    /\ \/ rec' = [rec EXCEPT ![f].desc = seen[f], ![f].descStatus = "ok"]
       \/ f \in Flaky /\ rec' = [rec EXCEPT ![f].desc = None, ![f].descStatus = "error"]
    /\ todo' = todo \ {f}
    /\ done' = done + 1
    /\ savesDue' = IF done' % Interval = 0 THEN savesDue + 1 ELSE savesDue
    /\ UNCHANGED <<stored, pc, options, scan, changed, found, overwritten, orphans, runs>>

\* The callback saves after it has awaited the notifier: other descriptions
\* may have ended meanwhile.
SaveProgress ==
    /\ pc = "describe" /\ savesDue > 0
    /\ checkpoint' = Saved(changed, rec)
    /\ savesDue' = savesDue - 1
    /\ UNCHANGED <<node, edges, pc, options, scan, changed, rec, todo, done, found,
                   overwritten, orphans, runs>>

\* The descriptions to embed: every one there is, the restored ones included.
ToEmbed == {f \in changed : rec[f].desc # None}

\* embed_description() leaves the older embedding of a record that it fails for.
EmbedDescriptions ==
    /\ pc = "describe" /\ todo = {} /\ savesDue = 0
    /\ IF ToEmbed = {} THEN UNCHANGED <<rec, checkpoint>>
       ELSE /\ \E failed \in SUBSET (ToEmbed \cap Flaky) :
                  rec' = [f \in Functions |-> IF f \in ToEmbed \ failed
                                              THEN [rec[f] EXCEPT !.descEmb = rec[f].desc]
                                              ELSE rec[f]]
            /\ checkpoint' = Saved(changed, rec')
    /\ pc' = "upsert" /\ todo' = Seen
    /\ UNCHANGED <<node, edges, options, scan, changed, done, savesDue, found, overwritten,
                   orphans, runs>>

\* UNWIND $records: one batch of _UPSERT_FUNCTION.
Batch(S, limit) == {b \in SUBSET S : Cardinality(b) = IF Cardinality(S) < limit
                                                      THEN Cardinality(S) ELSE limit}

Upserted(f) ==
    [hash |-> seen[f],
     data |-> KeepOld(rec[f], IF node[f] = None THEN Blank ELSE node[f].data)]

UpsertBatch ==
    /\ pc = "upsert"
    /\ \E b \in Batch(todo, FunctionBatchSize) :
          /\ node' = [f \in Functions |-> IF f \in b THEN Upserted(f) ELSE node[f]]
          /\ todo' = todo \ b
    /\ pc' = IF todo' = {} THEN "clear" ELSE "upsert"
    /\ UNCHANGED <<edges, checkpoint, options, scan, changed, rec, done, savesDue, found,
                   overwritten, orphans, runs>>

ClearCheckpoint ==
    /\ pc = "clear"
    /\ checkpoint' = Cleared(changed)
    /\ pc' = "delete"
    /\ UNCHANGED <<node, edges, dry, scan, work, orphans, runs>>

\* DETACH DELETE takes the relationships of a node with it.
DeleteMissing ==
    /\ pc = "delete"
    /\ node' = [f \in Functions |-> IF seen[f] = None THEN None ELSE node[f]]
    /\ edges' = {e \in edges : e.ends \subseteq Seen}
    /\ IF total < 2 THEN Finish ELSE pc' = "similarity" /\ UNCHANGED work
    /\ UNCHANGED <<checkpoint, dry, scan, orphans, runs>>

\* How similar two vectors are is left open: any of the pairs may be close.
ComputeEdges ==
    /\ pc = "similarity"
    /\ UNCHANGED <<stored, dry, scan, orphans, runs>>
    /\ IF Cardinality(Embedded) < 2 THEN Finish
       ELSE /\ \E close \in SUBSET {p \in Pairs : p \subseteq Embedded} :
                  found' = {[ends |-> p, from |-> Vectors(p)] : p \in close}
            /\ pc' = "deleteEdges"
            /\ UNCHANGED <<noDesc, changed, rec, todo, done, savesDue, overwritten>>

DeleteNoEdges ==          \* mutant: new edges are merged with the old ones
    /\ pc = "deleteEdges"
    /\ IF found = {} THEN Finish ELSE pc' = "writeEdges" /\ UNCHANGED work
    /\ UNCHANGED <<stored, dry, scan, orphans, runs>>

DeleteEdges ==
    /\ pc = "deleteEdges"
    /\ edges' = {}
    /\ IF found = {} THEN Finish ELSE pc' = "writeEdges" /\ UNCHANGED work
    /\ UNCHANGED <<node, checkpoint, dry, scan, orphans, runs>>

\* One batch of _UPSERT_EDGE: MATCH both ends, MERGE the relationship.
WriteEdges ==
    /\ pc = "writeEdges"
    /\ \E b \in Batch(found, EdgeBatchSize) :
          /\ edges' = {e \in edges : \A n \in b : n.ends # e.ends}
                      \cup {n \in b : n.ends \subseteq Nodes}
          /\ IF b = found THEN Finish
             ELSE /\ found' = found \ b
                  /\ UNCHANGED <<pc, noDesc, changed, rec, todo, done, savesDue, overwritten>>
    /\ UNCHANGED <<node, checkpoint, dry, scan, orphans, runs>>

\* The run ends and nothing of it is left but what it has written.
Stop ==
    /\ pc' = "idle" /\ Forget
    /\ seen' = [f \in Functions |-> None] /\ total' = 0
    /\ dry' = FALSE
    /\ UNCHANGED <<stored, runs>>

\* An exception (run() swallows it), a cancellation (gather() passes it on to its
\* coroutines), a crash of the process (which ends the orphans as well).
Abort ==
    /\ pc \notin {"idle", "done"}
    /\ Stop
    /\ orphans' \in {orphans, {}}

-----------------------------------------------------------------------------
(* Coroutines of a run that failed while they described                    *)

\* An orphan lasts while it has something to describe or to save.
Keep(others, o) == IF o.todo = {} /\ o.due = 0 THEN others ELSE others \cup {o}

Orphan(left, due) == [run |-> runs, key |-> changed, seen |-> seen, rec |-> rec,
                      todo |-> left, done |-> done, due |-> due]

\* A coroutine raises, or the callback that it awaits does: gather() passes the
\* exception on to the run and leaves the other coroutines alone.
Fail ==
    /\ MayRaise /\ pc = "describe"
    /\ \/ \E f \in todo : orphans' = Keep(orphans, Orphan(todo \ {f}, savesDue))
       \/ savesDue > 0 /\ orphans' = Keep(orphans, Orphan(todo, savesDue - 1))
    /\ Stop

\* The clients of the run may be closed by now, so any call may fail; what
\* raises here is noticed by nobody.
OrphanDescribes(o, f) ==
    /\ f \in o.todo
    /\ LET left    == [o EXCEPT !.todo = @ \ {f}]
           ended   == [left EXCEPT !.done = @ + 1,
                                   !.due = IF (o.done + 1) % Interval = 0 THEN @ + 1 ELSE @]
           made    == [ended EXCEPT !.rec[f].desc = o.seen[f], !.rec[f].descStatus = "ok"]
           failing == [ended EXCEPT !.rec[f].desc = None, !.rec[f].descStatus = "error"]
       IN  \E o2 \in {made, failing, left} : orphans' = Keep(orphans \ {o}, o2)
    /\ UNCHANGED <<stored, pc, dry, scan, work, runs>>

\* The callback of the failed run still saves that run's records, under its key.
OrphanSaves(o) ==
    /\ o.due > 0
    /\ checkpoint' = Saved(o.key, o.rec)
    /\ overwritten' = (overwritten \/ o.key = changed)
    /\ orphans' = Keep(orphans \ {o}, [o EXCEPT !.due = @ - 1])
    /\ UNCHANGED <<node, edges, pc, options, scan, changed, rec, todo, done, savesDue, found,
                   runs>>

OrphanStep == \E o \in orphans : OrphanSaves(o) \/ \E f \in o.todo : OrphanDescribes(o, f)

Next ==
    \/ StartRun \/ Extract \/ Plan \/ EmbedCode \/ SkipDescriptions
    \/ \E f \in Functions : Describe(f)
    \/ SaveProgress \/ EmbedDescriptions \/ UpsertBatch \/ ClearCheckpoint
    \/ DeleteMissing \/ ComputeEdges \/ DeleteEdges \/ WriteEdges \/ Abort \/ Fail
    \/ OrphanStep

Spec == Init /\ [][Next]_vars

-----------------------------------------------------------------------------
(* Properties                                                              *)

NodeType       == Maybe([hash : Versions, data : Fields])
CheckpointType == [SUBSET Functions -> Maybe([Functions -> Fields])]
OrphanType ==
    [run : Nat, key : SUBSET Functions, seen : [Functions -> Maybe(Versions)],
     rec : [Functions -> Fields], todo : SUBSET Functions, done : Nat, due : Nat]
EdgeType ==
    [ends : Pairs, from : UNION {[p -> Maybe(Versions) \X Maybe(Versions)] : p \in Pairs}]

TypeOK ==
    /\ node \in [Functions -> NodeType]
    /\ edges \subseteq EdgeType
    /\ checkpoint \in CheckpointType
    /\ pc \in {"idle", "extract", "plan", "embed", "skip", "describe", "upsert", "clear",
               "delete", "similarity", "deleteEdges", "writeEdges", "done"}
    /\ dry \in BOOLEAN /\ noDesc \in BOOLEAN
    /\ seen \in [Functions -> Maybe(Versions \ Short)]
    /\ total \in Nat
    /\ changed \subseteq Functions /\ todo \subseteq Functions
    /\ rec \in [Functions -> Fields]
    /\ done \in Nat /\ savesDue \in Nat /\ runs \in Nat
    /\ found \subseteq EdgeType
    /\ orphans \subseteq OrphanType /\ overwritten \in BOOLEAN

\* Whatever earlier runs left half done, a run that completes leaves exactly the
\* extracted functions, at the extracted source, and only similarity edges that
\* were computed from the embeddings now stored ("Similarity edges are always
\* recomputed from scratch").  A dry run and an empty extraction write nothing.
CompleteRun ==
    pc = "done" /\ ~dry /\ Seen # {} =>
        /\ Nodes = Seen
        /\ \A f \in Seen : node[f].hash = seen[f]
        /\ \A e \in edges : e.ends \subseteq Nodes /\ e.from = Vectors(e.ends)

\* The code embedding and the description of a node each have a status, and
\* where one of them was not made from the stored source its status says so.
\* (Without checkpoints; with them see EmbeddingsFollowSource.  The embedding of
\* the description has no status: when it fails, that of an older description
\* stays beside the new one, whose status is ok.)
StaleIsMarked ==
    \A f \in Nodes :
        LET d == node[f].data IN
        /\ d.code # node[f].hash => d.codeStatus = "error"
        /\ d.desc # node[f].hash => d.descStatus \in {"error", "skipped"}

\* A description that the checkpoint of this run's key holds is not generated
\* again ("already-completed records skip the embedding and description
\* stages"), unless an orphan has written that checkpoint since the run
\* restored it.  Its embedding is made again, whatever the checkpoint holds.
FinishedWorkIsKept ==
    [][\A f \in Functions :
          Describe(f) /\ CheckpointEnabled /\ checkpoint[changed] # None /\ ~overwritten
             => checkpoint[changed][f].descStatus # "ok"]_vars

\* While a checkpoint file exists, no run takes a description out of it, whatever
\* fails in that run.  Only the orphans of a failed run do, and a run whose file
\* they have overwritten.
CheckpointOnlyGrows ==
    [][\A k \in SUBSET Functions :
          checkpoint[k] # None /\ checkpoint'[k] # None /\ ~overwritten /\ ~OrphanStep =>
             \A f \in k : checkpoint[k][f].descStatus = "ok" =>
                             checkpoint'[k][f].descStatus = "ok"]_vars

\* A dry run leaves the database and the checkpoints alone ("skip all Ollama
\* calls, Neo4j writes"); orphans of an earlier run may still write meanwhile.
DryRunWritesNothing == [][dry => OrphanStep \/ UNCHANGED stored]_vars

\* After a complete run, what is stored with a function was made from the stored
\* source or is null: "functions that are new or changed are fully
\* re-processed", a checkpoint is ignored "if the changed-record set shifts
\* (e.g. new commits)", a failed embedding is null.
EmbeddingsFollowSource ==
    pc = "done" /\ ~dry =>
        \A f \in Seen : LET d == node[f].data IN
            {d.code, d.desc, d.descEmb} \subseteq {node[f].hash, None}

-----------------------------------------------------------------------------
(***************************************************************************)
(* The inductive invariants (proved in PipelineProofs.tla).  The upsert    *)
(* never removes an embedding, so an edge always ends in functions that    *)
(* have one: that is why a run which finds fewer than two embedded         *)
(* functions may leave the edges as they are - there are none.  Orphans    *)
(* touch the checkpoint files only.                                        *)
(***************************************************************************)
TodoInv == pc = "upsert" => todo \subseteq Seen

UpToDate(f) == node[f] # None /\ node[f].hash = seen[f]

EdgeInv == \A e \in edges : e.ends \subseteq Embedded

RunInv ==
    /\ Cardinality(Seen) <= total
    /\ dry => pc \in {"idle", "extract", "plan", "done"}

StageInv ==
    /\ pc = "upsert" => \A f \in Seen \ todo : UpToDate(f)
    /\ pc \in {"clear", "delete", "similarity", "deleteEdges", "writeEdges"} =>
          \A f \in Seen : UpToDate(f)
    /\ pc \in {"similarity", "deleteEdges", "writeEdges"} => Nodes = Seen
    /\ pc \in {"deleteEdges", "writeEdges"} =>
          \A n \in found : n.ends \subseteq Embedded /\ n.from = Vectors(n.ends)
    /\ pc = "writeEdges" => \A e \in edges : e.from = Vectors(e.ends)

IInv == TodoInv /\ EdgeInv /\ RunInv /\ StageInv /\ CompleteRun

\* What a run without checkpoints holds in its records.
CodeMade(f) == \/ rec[f].code = seen[f]
               \/ rec[f].code = None /\ rec[f].codeStatus = "error"
DescMade(f) == \/ rec[f].desc = seen[f]
               \/ rec[f].desc = None /\ rec[f].descStatus \in {"error", "skipped"}

RecordInv ==
    /\ pc \in {"embed", "skip", "describe", "upsert"} =>
          /\ changed \subseteq Seen
          /\ \A f \in Functions \ changed : rec[f] = Blank
          /\ \A f \in Seen \ changed : UpToDate(f)
    /\ pc = "embed" => \A f \in Functions : rec[f] = Blank
    /\ pc = "skip" => \A f \in changed : rec[f].desc = None
    /\ pc \in {"skip", "describe", "upsert"} => \A f \in changed : CodeMade(f)
    /\ pc = "describe" => todo \subseteq changed /\ \A f \in changed \ todo : DescMade(f)
    /\ pc = "upsert" => \A f \in changed : DescMade(f)

\* The run's records are never behind its checkpoint, except one that an orphan
\* has written meanwhile, and the records that are still to be described have no
\* description.
SavedInv ==
    /\ ~CheckpointEnabled => \A k \in SUBSET Functions : checkpoint[k] = None
    /\ pc \in {"embed", "describe"} /\ checkpoint[changed] # None /\ ~overwritten =>
          \A f \in changed : checkpoint[changed][f].descStatus = "ok" =>
                                 rec[f].descStatus = "ok"
    /\ pc = "describe" =>
          todo \subseteq changed /\ \A f \in todo : rec[f].descStatus # "ok"
=============================================================================
