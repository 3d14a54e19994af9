--------------------------- MODULE PipelineProofs ---------------------------
(***************************************************************************)
(* Theorems about Pipeline, for every value of its constants.              *)
(***************************************************************************)
EXTENDS Pipeline, FiniteSetTheorems, TLAPS

-----------------------------------------------------------------------------
(* Types                                                                   *)

\* A record without results is a record.
LEMMA BlankFields == Blank \in Fields
  BY DEF Blank, Fields, Maybe

\* The upsert of a record over a node's data makes such data again.
LEMMA KeepOldFields ==
  ASSUME NEW new \in Fields, NEW old \in Fields
  PROVE  KeepOld(new, old) \in Fields
  BY DEF KeepOld, Pick, Fields, Maybe

\* The edge computed for a pair of nodes is an edge.
LEMMA EdgeOfPair ==
  ASSUME TypeOK, NEW p \in Pairs, p \subseteq Nodes
  PROVE  [ends |-> p, from |-> Vectors(p)] \in EdgeType
<1>1. \A f \in p : <<node[f].data.code, node[f].data.descEmb>>
                      \in Maybe(Versions) \X Maybe(Versions)
  BY DEF TypeOK, NodeType, Nodes, Maybe, Fields
<1>2. Vectors(p) \in [p -> Maybe(Versions) \X Maybe(Versions)]
  BY <1>1 DEF Vectors
<1> QED
  BY <1>2 DEF EdgeType

\* The number of some functions is a number.
LEMMA CountIsNat ==
  ASSUME NEW S \in SUBSET Functions
  PROVE  IsFiniteSet(S) /\ Cardinality(S) \in Nat
  BY PipelineAssumption, FS_Subset, FS_CardinalityType

\* What a checkpoint restores is a record for every function.
LEMMA LoadedType ==
  ASSUME TypeOK, NEW key \in SUBSET Functions
  PROVE  Loaded(key) \in [Functions -> Fields]
  BY BlankFields DEF TypeOK, CheckpointType, Loaded, Maybe

\* Saving leaves a checkpoint file or nothing under every key.
LEMMA SavedType ==
  ASSUME TypeOK, NEW key \in SUBSET Functions, NEW fields \in [Functions -> Fields]
  PROVE  Saved(key, fields) \in CheckpointType
  BY DEF TypeOK, CheckpointType, Saved, Maybe

\* Setting results of a record keeps it one.
LEMMA SetCode ==
  ASSUME NEW r \in Fields, NEW v \in Maybe(Versions)
  PROVE  /\ [r EXCEPT !.code = v, !.codeStatus = "ok"] \in Fields
         /\ [r EXCEPT !.codeStatus = "error"] \in Fields
  BY DEF Fields, Maybe

\* Describing a record, failing to, skipping it or embedding its description keeps
\* it one.
LEMMA SetDescription ==
  ASSUME NEW r \in Fields, NEW v \in Maybe(Versions)
  PROVE  /\ [r EXCEPT !.desc = v, !.descStatus = "ok"] \in Fields
         /\ [r EXCEPT !.desc = None, !.descStatus = "error"] \in Fields
         /\ [r EXCEPT !.descStatus = "skipped"] \in Fields
         /\ [r EXCEPT !.descEmb = r.desc] \in Fields
  BY DEF Fields, Maybe

\* The initial state is well typed.
LEMMA InitType == Init => TypeOK
<1>1. Init => pc = "idle" /\ dry \in BOOLEAN /\ noDesc \in BOOLEAN /\ edges = {} /\ found = {}
              /\ changed = {} /\ todo = {} /\ total = 0 /\ done = 0 /\ savesDue = 0
              /\ runs = 0 /\ orphans = {} /\ overwritten \in BOOLEAN
  BY DEF Init
<1>2. Init => /\ node \in [Functions -> NodeType]
              /\ seen \in [Functions -> Maybe(Versions \ Short)]
              /\ checkpoint \in CheckpointType
  BY DEF Init, NodeType, CheckpointType, Maybe
<1>3. Init => rec \in [Functions -> Fields]
  BY BlankFields DEF Init
<1> QED
  BY <1>1, <1>2, <1>3 DEF TypeOK

\* What the run keeps in memory, apart from its stage.
MemoryOK ==
    /\ noDesc \in BOOLEAN
    /\ changed \subseteq Functions /\ todo \subseteq Functions
    /\ rec \in [Functions -> Fields]
    /\ done \in Nat /\ savesDue \in Nat
    /\ found \subseteq EdgeType
    /\ overwritten \in BOOLEAN

\* Ending a run leaves nothing of it in memory.
LEMMA ForgetType == Forget => MemoryOK'
<1>1. Forget => noDesc' \in BOOLEAN /\ overwritten' \in BOOLEAN
  BY Zenon DEF Forget
<1>2. Forget => rec' \in [Functions -> Fields]
  BY BlankFields DEF Forget
<1>3. Forget => /\ changed' = {} /\ todo' = {} /\ found' = {}
                /\ done' = 0 /\ savesDue' = 0
  BY DEF Forget
<1> QED
  BY <1>1, <1>2, <1>3 DEF MemoryOK

\* A run that stops leaves a well-typed state, if its orphans are.
LEMMA StopType ==
  ASSUME TypeOK, Stop, orphans' \subseteq OrphanType
  PROVE  TypeOK'
<1>1. dry' \in BOOLEAN /\ pc' = "idle" /\ Forget /\ UNCHANGED <<stored, runs>> /\ total' = 0
  BY DEF Stop
<1>2. seen' \in [Functions -> Maybe(Versions \ Short)]
  BY DEF Stop, Maybe
<1> QED
  BY <1>1, <1>2, ForgetType DEF TypeOK, MemoryOK, stored

\* What a failed run leaves behind is an orphan.
LEMMA OrphanIsOne ==
  ASSUME TypeOK, NEW left \in SUBSET Functions, NEW due \in Nat
  PROVE  Orphan(left, due) \in OrphanType
<1>1. seen \in [Functions -> Maybe(Versions)]
  BY DEF TypeOK, Maybe
<1> QED
  BY <1>1 DEF TypeOK, Orphan, OrphanType

\* A failure leaves orphans only.
LEMMA FailType == TypeOK /\ Fail => TypeOK'
<1> SUFFICES ASSUME TypeOK, Fail PROVE orphans' \subseteq OrphanType
  BY StopType DEF Fail
<1>1. CASE \E f \in todo : orphans' = Keep(orphans, Orphan(todo \ {f}, savesDue))
  <2>1. PICK f \in todo : orphans' = Keep(orphans, Orphan(todo \ {f}, savesDue))
    BY <1>1
  <2>2. Orphan(todo \ {f}, savesDue) \in OrphanType
    BY OrphanIsOne DEF TypeOK
  <2> QED
    BY <2>1, <2>2 DEF Keep, TypeOK
<1>2. CASE savesDue > 0 /\ orphans' = Keep(orphans, Orphan(todo, savesDue - 1))
  <2>1. savesDue - 1 \in Nat
    BY <1>2 DEF TypeOK
  <2>2. Orphan(todo, savesDue - 1) \in OrphanType
    BY <2>1, OrphanIsOne DEF TypeOK
  <2> QED
    BY <1>2, <2>2 DEF Keep, TypeOK
<1> QED
  BY <1>1, <1>2 DEF Fail

\* What an orphan leaves alone: the database, and everything of the run but the
\* history variable.
LEMMA OrphanStepKeeps ==
  ASSUME OrphanStep
  PROVE  UNCHANGED <<node, edges, pc, dry, noDesc, seen, total, changed, rec, todo, done,
                     savesDue, found, runs>>
<1>1. PICK o \in orphans : OrphanSaves(o) \/ \E f \in o.todo : OrphanDescribes(o, f)
  BY DEF OrphanStep
<1>2. CASE OrphanSaves(o)
  BY <1>2 DEF OrphanSaves, options, scan
<1>3. CASE \E f \in o.todo : OrphanDescribes(o, f)
  BY <1>3 DEF OrphanDescribes, stored, scan, work
<1> QED
  BY <1>1, <1>2, <1>3

\* An orphan stays one, and it saves well-typed records.
LEMMA OrphanStepType ==
  ASSUME TypeOK, OrphanStep
  PROVE  TypeOK'
<1>1. PICK o \in orphans : OrphanSaves(o) \/ \E f \in o.todo : OrphanDescribes(o, f)
  BY DEF OrphanStep
<1>2. o \in OrphanType
  BY DEF TypeOK
<1>3. /\ checkpoint' \in CheckpointType
      /\ orphans' \subseteq OrphanType
      /\ overwritten' \in BOOLEAN
  <2>1. CASE OrphanSaves(o)
    <3>1. [o EXCEPT !.due = @ - 1] \in OrphanType
      BY <1>2, <2>1 DEF OrphanSaves, OrphanType
    <3>2. checkpoint' \in CheckpointType
      BY <1>2, <2>1, SavedType DEF OrphanSaves, OrphanType
    <3>3. orphans' \subseteq OrphanType
      BY <2>1, <3>1 DEF OrphanSaves, Keep, TypeOK
    <3>4. overwritten' \in BOOLEAN
      BY <2>1, Zenon DEF OrphanSaves
    <3> QED
      BY <3>2, <3>3, <3>4
  <2>2. ASSUME NEW f \in o.todo, OrphanDescribes(o, f)
        PROVE  /\ checkpoint' \in CheckpointType
               /\ orphans' \subseteq OrphanType
               /\ overwritten' \in BOOLEAN
    <3> DEFINE left    == [o EXCEPT !.todo = @ \ {f}]
               ended   == [left EXCEPT !.done = @ + 1,
                              !.due = IF (o.done + 1) % Interval = 0 THEN @ + 1 ELSE @]
               made    == [ended EXCEPT !.rec[f].desc = o.seen[f],
                                        !.rec[f].descStatus = "ok"]
               failing == [ended EXCEPT !.rec[f].desc = None, !.rec[f].descStatus = "error"]
    <3>1. left \in OrphanType /\ left.due = o.due /\ left.done = o.done
      BY <1>2 DEF OrphanType
    <3>2. ended \in OrphanType /\ ended.rec = o.rec
      <4>1. o.done + 1 \in Nat /\ o.due + 1 \in Nat /\ left.rec = o.rec
        BY <1>2 DEF OrphanType
      <4>2. PICK due \in Nat : ended = [left EXCEPT !.done = o.done + 1, !.due = due]
        <5>1. ended = [left EXCEPT !.done = o.done + 1,
                          !.due = IF (o.done + 1) % Interval = 0 THEN o.due + 1 ELSE o.due]
          BY <1>2, <3>1 DEF OrphanType
        <5> QED
          BY <1>2, <4>1, <5>1 DEF OrphanType
      <4> QED
        BY <3>1, <4>1, <4>2 DEF OrphanType
    <3>3. f \in Functions /\ o.rec[f] \in Fields /\ o.seen[f] \in Maybe(Versions)
      BY <1>2 DEF OrphanType
    <3>4. made \in OrphanType
      <4> HIDE DEF ended
      <4>1. made = [ended EXCEPT !.rec = [ended.rec EXCEPT
                       ![f] = [ended.rec[f] EXCEPT !.desc = o.seen[f], !.descStatus = "ok"]]]
        BY <3>2, <3>3 DEF OrphanType, Fields
      <4>2. [ended.rec[f] EXCEPT !.desc = o.seen[f], !.descStatus = "ok"] \in Fields
        BY <3>2, <3>3, SetDescription
      <4> QED
        BY <3>2, <4>1, <4>2 DEF OrphanType
    <3>5. failing \in OrphanType
      <4> HIDE DEF ended
      <4>1. failing = [ended EXCEPT !.rec = [ended.rec EXCEPT
                       ![f] = [ended.rec[f] EXCEPT !.desc = None, !.descStatus = "error"]]]
        BY <3>2, <3>3 DEF OrphanType, Fields
      <4>2. [ended.rec[f] EXCEPT !.desc = None, !.descStatus = "error"] \in Fields
        BY <3>2, <3>3, SetDescription
      <4> QED
        BY <3>2, <4>1, <4>2 DEF OrphanType
    <3>6. \E o2 \in {made, failing, left} : orphans' = Keep(orphans \ {o}, o2)
      BY <2>2 DEF OrphanDescribes
    <3>7. orphans' \subseteq OrphanType
      <4> HIDE DEF left, made, failing
      <4> QED
        BY <3>1, <3>4, <3>5, <3>6 DEF Keep, TypeOK
    <3> QED
      BY <2>2, <3>7 DEF OrphanDescribes, stored, work, TypeOK
  <2> QED
    BY <1>1, <2>1, <2>2
<1> QED
  BY <1>3, OrphanStepKeeps DEF TypeOK

\* Every step preserves the types.
LEMMA NextType == TypeOK /\ TodoInv /\ [Next]_vars => TypeOK'
<1> SUFFICES ASSUME TypeOK, TodoInv, [Next]_vars PROVE TypeOK'
  OBVIOUS
<1> USE DEF TypeOK, MemoryOK
<1>1. CASE StartRun
  BY <1>1 DEF StartRun, stored, Maybe
<1>2. CASE Extract
  <2>1. PICK source \in [Functions -> Maybe(Versions)] :
           /\ seen' = [f \in Functions |-> IF source[f] \in Short THEN None ELSE source[f]]
           /\ total' = Cardinality({f \in Functions : source[f] # None})
    BY <1>2 DEF Extract
  <2>2. seen' \in [Functions -> Maybe(Versions \ Short)]
    BY <2>1 DEF Maybe
  <2>3. total' \in Nat
    BY <2>1, CountIsNat
  <2>4. CASE Finish
    BY <1>2, <2>2, <2>3, <2>4, ForgetType DEF Extract, Finish, stored
  <2>5. CASE pc' = "plan" /\ UNCHANGED work
    BY <1>2, <2>2, <2>3, <2>5 DEF Extract, work, stored
  <2> QED
    BY <1>2, <2>4, <2>5 DEF Extract
<1>3. CASE Plan
  <2>1. CASE dry
    BY <1>3, <2>1, ForgetType DEF Plan, Finish, stored, scan
  <2>2. CASE ~dry
    <3>1. changed' \subseteq Functions
      BY <1>3, <2>2 DEF Plan
    <3>2. rec' = Loaded(changed')
      BY <1>3, <2>2 DEF Plan
    <3>3. rec' \in [Functions -> Fields]
      BY <3>1, <3>2, LoadedType
    <3> QED
      BY <1>3, <2>2, <3>1, <3>3 DEF Plan, stored, scan, Seen
  <2> QED
    BY <2>1, <2>2
<1>4. CASE EmbedCode
  <2>1. PICK failed \in SUBSET (Functions) :
           rec' = [f \in Functions |->
                     IF f \in failed THEN [rec[f] EXCEPT !.codeStatus = "error"]
                     ELSE IF f \in {g \in changed : rec[g].codeStatus # "ok"}
                          THEN [rec[f] EXCEPT !.code = seen[f], !.codeStatus = "ok"]
                          ELSE rec[f]]
    BY <1>4 DEF EmbedCode
  <2>2. rec' \in [Functions -> Fields]
    BY <2>1, SetCode DEF Maybe
  <2>3. checkpoint' \in CheckpointType
    BY <1>4, <2>2, SavedType DEF EmbedCode
  <2>4. todo' \subseteq Functions /\ pc' \in {"skip", "describe"}
    BY <1>4 DEF EmbedCode, NeedsDescription
  <2> QED
    BY <1>4, <2>2, <2>3, <2>4 DEF EmbedCode, options, scan
<1>5. CASE SkipDescriptions
  <2>1. rec' \in [Functions -> Fields]
    BY <1>5, SetDescription DEF SkipDescriptions, Maybe
  <2> QED
    BY <1>5, <2>1 DEF SkipDescriptions, stored, options, scan, Seen
<1>6. ASSUME NEW g \in Functions, Describe(g) PROVE TypeOK'
  <2>1. rec' \in [Functions -> Fields]
    <3>1. PICK r \in Fields : rec' = [rec EXCEPT ![g] = r]
      <4>1. seen[g] \in Maybe(Versions) /\ rec[g] \in Fields
        BY DEF Maybe
      <4>2. \/ rec' = [rec EXCEPT ![g] = [rec[g] EXCEPT !.desc = seen[g], !.descStatus = "ok"]]
            \/ rec' = [rec EXCEPT ![g] = [rec[g] EXCEPT !.desc = None, !.descStatus = "error"]]
        BY <1>6 DEF Describe
      <4> QED
        BY <4>1, <4>2, SetDescription
    <3> QED
      BY <3>1
  <2>2. done' \in Nat /\ savesDue' \in Nat
    <3>1. done' = done + 1 /\ savesDue' \in {savesDue, savesDue + 1}
      BY <1>6 DEF Describe
    <3> QED
      BY <3>1
  <2> QED
    BY <1>6, <2>1, <2>2 DEF Describe, stored, options, scan
<1>7. CASE SaveProgress
  <2>1. checkpoint' \in CheckpointType
    BY <1>7, SavedType DEF SaveProgress
  <2> QED
    BY <1>7, <2>1 DEF SaveProgress, options, scan
<1>8. CASE EmbedDescriptions
  <2>1. rec' \in [Functions -> Fields] /\ checkpoint' \in {checkpoint, Saved(changed, rec')}
    <3>1. CASE ToEmbed = {}
      BY <1>8, <3>1 DEF EmbedDescriptions
    <3>2. CASE ToEmbed # {}
      <4>1. PICK failed \in SUBSET Functions :
               rec' = [f \in Functions |-> IF f \in ToEmbed \ failed
                                           THEN [rec[f] EXCEPT !.descEmb = rec[f].desc]
                                           ELSE rec[f]]
        BY <1>8, <3>2 DEF EmbedDescriptions, ToEmbed
      <4>2. rec' \in [Functions -> Fields]
        BY <4>1, SetDescription DEF Maybe
      <4> QED
        BY <1>8, <3>2, <4>2 DEF EmbedDescriptions
    <3> QED
      BY <3>1, <3>2
  <2>2. checkpoint' \in CheckpointType
    BY <2>1, SavedType
  <2> QED
    BY <1>8, <2>1, <2>2 DEF EmbedDescriptions, options, scan, Seen
<1>9. CASE UpsertBatch
  <2>1. PICK b \in SUBSET todo :
           /\ node' = [f \in Functions |-> IF f \in b THEN Upserted(f) ELSE node[f]]
           /\ todo' = todo \ b
    BY <1>9 DEF UpsertBatch, Batch
  <2>2. node' \in [Functions -> NodeType]
    <3> SUFFICES ASSUME NEW f \in b PROVE Upserted(f) \in NodeType
      BY <2>1 DEF NodeType, Maybe
    <3>1. PICK old \in Fields :
             Upserted(f) = [hash |-> seen[f], data |-> KeepOld(rec[f], old)]
      BY BlankFields DEF Upserted, NodeType, Maybe
    <3>2. seen[f] \in Versions
      BY <1>9, <2>1 DEF UpsertBatch, TodoInv, Seen, Maybe
    <3> QED
      BY <3>1, <3>2, KeepOldFields DEF NodeType, Maybe
  <2> QED
    BY <1>9, <2>1, <2>2 DEF UpsertBatch, options, scan
<1>10. CASE ClearCheckpoint
  <2>1. checkpoint' \in CheckpointType
    BY <1>10 DEF ClearCheckpoint, Cleared, CheckpointType, Maybe
  <2> QED
    BY <1>10, <2>1 DEF ClearCheckpoint, scan, work
<1>11. CASE DeleteMissing
  <2>1. node' \in [Functions -> NodeType]
    BY <1>11 DEF DeleteMissing, NodeType, Maybe
  <2>2. edges' \subseteq EdgeType
    BY <1>11 DEF DeleteMissing
  <2>3. CASE Finish
    BY <1>11, <2>1, <2>2, <2>3, ForgetType DEF DeleteMissing, Finish, scan
  <2>4. CASE pc' = "similarity" /\ UNCHANGED work
    BY <1>11, <2>1, <2>2, <2>4 DEF DeleteMissing, scan, work
  <2> QED
    BY <1>11, <2>3, <2>4 DEF DeleteMissing
<1>12. CASE ComputeEdges
  <2>1. CASE Finish
    BY <1>12, <2>1, ForgetType DEF ComputeEdges, Finish, stored, scan
  <2>2. CASE ~ Finish
    <3>1. PICK close \in SUBSET {p \in Pairs : p \subseteq Embedded} :
             found' = {[ends |-> p, from |-> Vectors(p)] : p \in close}
      BY <1>12, <2>2 DEF ComputeEdges
    <3>2. found' \subseteq EdgeType
      BY <3>1, EdgeOfPair DEF Embedded
    <3> QED
      BY <1>12, <2>2, <3>2 DEF ComputeEdges, stored, scan
  <2> QED
    BY <2>1, <2>2
<1>13. CASE DeleteEdges
  <2>1. CASE Finish
    BY <1>13, <2>1, ForgetType DEF DeleteEdges, Finish, scan
  <2>2. CASE ~ Finish
    BY <1>13, <2>2 DEF DeleteEdges, scan, work
  <2> QED
    BY <2>1, <2>2
<1>14. CASE WriteEdges
  <2>1. edges' \subseteq EdgeType
    BY <1>14 DEF WriteEdges, Batch
  <2>2. CASE Finish
    BY <1>14, <2>1, <2>2, ForgetType DEF WriteEdges, Finish, scan
  <2>3. CASE ~ Finish
    BY <1>14, <2>1, <2>3 DEF WriteEdges, scan
  <2> QED
    BY <2>2, <2>3
<1>15. CASE Abort
  <2>1. orphans' \subseteq OrphanType
    BY <1>15 DEF Abort
  <2> QED
    BY <1>15, <2>1, StopType DEF Abort
<1>16. CASE Fail
  BY <1>16, FailType
<1>17. CASE OrphanStep
  BY <1>17, OrphanStepType
<1>18. CASE UNCHANGED vars
  BY <1>18 DEF vars, stored, scan, work
<1> QED
  BY <1>1, <1>2, <1>3, <1>4, <1>5, <1>6, <1>7, <1>8, <1>9, <1>10, <1>11, <1>12, <1>13,
     <1>14, <1>15, <1>16, <1>17, <1>18 DEF Next

\* The records to upsert are those of the extraction.
LEMMA NextTodo == TypeOK /\ TodoInv /\ [Next]_vars => TodoInv'
<1> SUFFICES ASSUME TypeOK, TodoInv, [Next]_vars, pc' = "upsert" PROVE todo' \subseteq Seen'
  BY DEF TodoInv
<1> USE DEF TodoInv, Seen, scan
<1>1. CASE Plan
  BY <1>1 DEF Plan, Finish
<1>2. CASE SkipDescriptions
  BY <1>2 DEF SkipDescriptions
<1>3. CASE EmbedDescriptions
  BY <1>3 DEF EmbedDescriptions
<1>4. CASE UpsertBatch
  BY <1>4 DEF UpsertBatch
<1>5. CASE StartRun \/ Extract \/ EmbedCode \/ ClearCheckpoint \/ DeleteMissing
           \/ ComputeEdges \/ DeleteEdges \/ Abort
  BY <1>5 DEF StartRun, Extract, EmbedCode, ClearCheckpoint, DeleteMissing, ComputeEdges,
              DeleteEdges, Abort, Stop, Finish
<1>6. CASE SaveProgress \/ \E f \in Functions : Describe(f)
  BY <1>6 DEF SaveProgress, Describe
<1>7. CASE WriteEdges
  BY <1>7 DEF WriteEdges, Finish
<1>8. CASE Fail
  BY <1>8 DEF Fail, Stop
<1>9. CASE OrphanStep
  BY <1>9, OrphanStepKeeps
<1>10. CASE UNCHANGED vars
  BY <1>10 DEF vars, work
<1> QED
  BY <1>1, <1>2, <1>3, <1>4, <1>5, <1>6, <1>7, <1>8, <1>9, <1>10 DEF Next

\* Every reachable state of the pipeline is well typed: in particular a restored
\* checkpoint always holds a record for every function.
THEOREM TypeCorrect == Spec => []TypeOK
<1>1. Init => TypeOK /\ TodoInv
  BY InitType DEF Init, TodoInv
<1>2. TypeOK /\ TodoInv /\ [Next]_vars => TypeOK' /\ TodoInv'
  BY NextType, NextTodo
<1> QED
  BY <1>1, <1>2, PTL DEF Spec

-----------------------------------------------------------------------------
(* The inductive invariant                                                 *)

\* There is no edge among fewer than two functions.
LEMMA NoPair ==
  ASSUME TypeOK, NEW S \in SUBSET Functions, Cardinality(S) < 2,
         NEW e \in edges, e.ends \subseteq S
  PROVE  FALSE
<1>1. IsFiniteSet(S)
  BY CountIsNat
<1>2. e.ends \in SUBSET Functions /\ Cardinality(e.ends) = 2
  BY DEF TypeOK, EdgeType, Pairs
<1>3. Cardinality(e.ends) <= Cardinality(S)
  BY <1>1, FS_Subset
<1> QED
  BY <1>2, <1>3, CountIsNat

\* The initial state satisfies the invariant.
LEMMA InitIInv == Init => IInv
<1> SUFFICES ASSUME Init PROVE IInv
  OBVIOUS
<1>1. pc = "idle" /\ edges = {} /\ total = 0 /\ Seen = {}
  BY DEF Init, Seen
<1>2. Cardinality(Seen) <= total
  BY <1>1, FS_EmptySet
<1> QED
  BY <1>1, <1>2 DEF IInv, TodoInv, EdgeInv, RunInv, StageInv, CompleteRun

\* Steps that leave the database and the extraction alone preserve what the
\* invariant says of them.
LEMMA QuietStep ==
  ASSUME IInv, UNCHANGED <<node, edges, seen, total, dry>>,
         pc' \in {"plan", "embed", "skip", "describe", "upsert"},
         pc' = "upsert" => todo' = Seen,
         dry => pc' = "plan"
  PROVE  IInv'
<1>1. Nodes' = Nodes /\ Seen' = Seen
  BY DEF Nodes, Seen
<1>2. Embedded' = Embedded
  BY <1>1 DEF Embedded
<1>3. EdgeInv'
  BY <1>2 DEF IInv, EdgeInv
<1>4. RunInv'
  BY <1>1 DEF IInv, RunInv
<1>5. StageInv' /\ TodoInv' /\ CompleteRun'
  BY <1>1 DEF StageInv, TodoInv, CompleteRun
<1> QED
  BY <1>3, <1>4, <1>5 DEF IInv

\* A run that starts or is aborted has extracted nothing.
LEMMA FreshStep ==
  ASSUME TypeOK, IInv, UNCHANGED <<node, edges>>,
         seen' = [f \in Functions |-> None], total' = 0,
         pc' \in {"idle", "extract"}
  PROVE  IInv'
<1>1. Nodes' = Nodes /\ Seen' = {}
  BY DEF Nodes, Seen
<1>2. Embedded' = Embedded
  BY <1>1 DEF Embedded
<1>3. Cardinality(Seen') = 0
  BY <1>1, FS_EmptySet
<1> QED
  BY <1>1, <1>2, <1>3 DEF IInv, TodoInv, EdgeInv, RunInv, StageInv, CompleteRun

\* The LOC filter only shrinks the extraction, and an empty one ends the run.
LEMMA ExtractIInv == TypeOK /\ IInv /\ Extract => IInv'
<1> SUFFICES ASSUME TypeOK, IInv, Extract PROVE IInv'
  OBVIOUS
<1>1. PICK source \in [Functions -> Maybe(Versions)] :
         /\ seen' = [f \in Functions |-> IF source[f] \in Short THEN None ELSE source[f]]
         /\ total' = Cardinality({f \in Functions : source[f] # None})
  BY DEF Extract
<1>2. Nodes' = Nodes /\ node' = node /\ edges' = edges
  BY DEF Extract, stored, Nodes
<1>3. Embedded' = Embedded
  BY <1>2 DEF Embedded
<1>4. EdgeInv'
  BY <1>2, <1>3 DEF IInv, EdgeInv
<1>5. Cardinality(Seen') <= total'
  <2>1. Seen' \subseteq {f \in Functions : source[f] # None}
    BY <1>1 DEF Seen
  <2> QED
    BY <1>1, <2>1, CountIsNat, FS_Subset
<1>6. pc' \in {"plan", "done"} /\ (pc' = "done" => Seen' = {})
  BY DEF Extract, Finish, Seen
<1> QED
  BY <1>4, <1>5, <1>6 DEF IInv, TodoInv, RunInv, StageInv, CompleteRun

\* With nothing changed the run goes straight to the upsert; a dry run ends.
LEMMA PlanIInv == TypeOK /\ IInv /\ Plan => IInv'
<1> SUFFICES ASSUME TypeOK, IInv, Plan PROVE IInv'
  OBVIOUS
<1> USE DEF Plan, stored, scan
<1>1. CASE ~ dry
  BY <1>1, QuietStep
<1>2. CASE dry
  <2>1. Nodes' = Nodes /\ Seen' = Seen /\ pc' = "done" /\ dry'
    BY <1>2 DEF Nodes, Seen, Finish
  <2>2. Embedded' = Embedded
    BY <2>1 DEF Embedded
  <2> QED
    BY <2>1, <2>2 DEF IInv, TodoInv, EdgeInv, RunInv, StageInv, CompleteRun
<1> QED
  BY <1>1, <1>2

\* An upserted function has a node, with the hash of the extracted source.
LEMMA UpsertedNode ==
  ASSUME TypeOK, NEW f \in Seen
  PROVE  /\ Upserted(f) \in [hash : Versions, data : Fields]
         /\ Upserted(f) # None
         /\ Upserted(f).hash = seen[f]
<1>1. PICK old \in Fields : Upserted(f) = [hash |-> seen[f], data |-> KeepOld(rec[f], old)]
  BY BlankFields DEF Upserted, TypeOK, NodeType, Maybe, Seen
<1>2. seen[f] \in Versions /\ rec[f] \in Fields
  BY DEF TypeOK, Seen, Maybe
<1>3. KeepOld(rec[f], old) \in Fields
  BY <1>2, KeepOldFields
<1> QED
  BY <1>1, <1>2, <1>3, NoneAssumption

\* An upsert brings its functions up to date and takes no embedding away, so the
\* edges still end in embedded functions.
LEMMA UpsertIInv == TypeOK /\ IInv /\ UpsertBatch => IInv'
<1> SUFFICES ASSUME TypeOK, IInv, UpsertBatch PROVE IInv'
  OBVIOUS
<1>1. PICK b \in SUBSET todo :
         /\ node' = [f \in Functions |-> IF f \in b THEN Upserted(f) ELSE node[f]]
         /\ todo' = todo \ b
  BY DEF UpsertBatch, Batch
<1>2. Seen' = Seen /\ edges' = edges /\ total' = total /\ dry' = dry /\ todo \subseteq Seen
  BY DEF UpsertBatch, scan, options, Seen, IInv, TodoInv
<1>3. \A f \in Embedded : f \in Embedded'
  <2> SUFFICES ASSUME NEW f \in Embedded PROVE f \in Embedded'
    OBVIOUS
  <2>1. f \in Functions /\ node[f] # None
    BY DEF Embedded, Nodes
  <2>2. CASE f \notin b
    BY <1>1, <2>1, <2>2 DEF Embedded, Nodes
  <2>3. CASE f \in b
    <3>1. node'[f] = [hash |-> seen[f], data |-> KeepOld(rec[f], node[f].data)]
      BY <1>1, <2>1, <2>3 DEF Upserted
    <3>2. node'[f].data.code # None \/ node'[f].data.descEmb # None
      BY <3>1 DEF Embedded, KeepOld, Pick
    <3>3. node'[f] # None
      BY <1>1, <1>2, <2>1, <2>3, UpsertedNode
    <3> QED
      BY <2>1, <3>2, <3>3 DEF Embedded, Nodes
  <2> QED
    BY <2>2, <2>3
<1>4. \A f \in Seen \ todo' : UpToDate(f)'
  <2> SUFFICES ASSUME NEW f \in Seen \ todo' PROVE UpToDate(f)'
    OBVIOUS
  <2>1. CASE f \in b
    BY <1>1, <1>2, <2>1, UpsertedNode DEF UpToDate, Seen, UpsertBatch, scan
  <2>2. CASE f \notin b
    <3>1. UpToDate(f) /\ node'[f] = node[f] /\ seen' = seen
      BY <1>1, <2>2 DEF UpsertBatch, scan, IInv, StageInv, Seen
    <3> QED
      BY <3>1 DEF UpToDate
  <2> QED
    BY <2>1, <2>2
<1>5. pc' = "upsert" \/ (pc' = "clear" /\ todo' = {})
  BY DEF UpsertBatch
<1>6. EdgeInv'
  BY <1>2, <1>3 DEF IInv, EdgeInv
<1>7. RunInv'
  BY <1>2, <1>5 DEF IInv, RunInv, UpsertBatch
<1> QED
  BY <1>1, <1>2, <1>4, <1>5, <1>6, <1>7 DEF IInv, TodoInv, StageInv, CompleteRun

\* The checkpoint files are not part of the invariant.
LEMMA ClearIInv == TypeOK /\ IInv /\ ClearCheckpoint => IInv'
<1> SUFFICES ASSUME TypeOK, IInv, ClearCheckpoint PROVE IInv'
  OBVIOUS
<1>1. Nodes' = Nodes /\ Seen' = Seen /\ pc' = "delete"
  BY DEF ClearCheckpoint, Nodes, Seen, scan
<1>2. Embedded' = Embedded
  BY <1>1 DEF Embedded, ClearCheckpoint
<1>3. \A f \in Seen : UpToDate(f)'
  BY DEF ClearCheckpoint, scan, IInv, StageInv, UpToDate
<1> QED
  BY <1>1, <1>2, <1>3
     DEF IInv, TodoInv, EdgeInv, RunInv, StageInv, CompleteRun, ClearCheckpoint, scan

\* What remains is the extraction; with fewer than two functions extracted no edge
\* survives the deletion.
LEMMA DeleteMissingIInv == TypeOK /\ IInv /\ DeleteMissing => IInv'
<1> SUFFICES ASSUME TypeOK, IInv, DeleteMissing PROVE IInv'
  OBVIOUS
<1>1. /\ Seen' = Seen /\ seen' = seen /\ total' = total /\ dry' = dry /\ ~dry
      /\ node' = [f \in Functions |-> IF seen[f] = None THEN None ELSE node[f]]
      /\ edges' = {e \in edges : e.ends \subseteq Seen}
  BY DEF DeleteMissing, scan, Seen, IInv, RunInv
<1>2. \A f \in Seen : UpToDate(f) /\ node'[f] = node[f]
  BY <1>1 DEF DeleteMissing, IInv, StageInv, Seen
<1>3. Nodes' = Seen /\ \A f \in Seen : UpToDate(f)'
  BY <1>1, <1>2 DEF Nodes, Seen, UpToDate
<1>4. EdgeInv'
  <2> SUFFICES ASSUME NEW e \in edges', NEW f \in e.ends PROVE f \in Embedded'
    BY DEF EdgeInv
  <2>1. f \in Seen /\ f \in Embedded
    BY <1>1 DEF IInv, EdgeInv
  <2> QED
    BY <1>2, <1>3, <2>1 DEF Embedded
<1>5. CASE total < 2
  <2>1. pc' = "done"
    BY <1>5 DEF DeleteMissing, Finish
  <2>2. edges' = {}
    <3> SUFFICES ASSUME NEW e \in edges' PROVE FALSE
      OBVIOUS
    <3>1. e \in edges /\ e.ends \subseteq Seen
      BY <1>1
    <3>2. Cardinality(Seen) < 2
      BY <1>5, CountIsNat DEF Seen, IInv, RunInv, TypeOK
    <3> QED
      BY <3>1, <3>2, NoPair DEF Seen
  <2> QED
    BY <1>1, <1>3, <1>4, <2>1, <2>2
       DEF IInv, TodoInv, RunInv, StageInv, CompleteRun, UpToDate
<1>6. CASE ~ (total < 2)
  <2>1. pc' = "similarity"
    BY <1>6 DEF DeleteMissing
  <2> QED
    BY <1>1, <1>3, <1>4, <2>1 DEF IInv, TodoInv, RunInv, StageInv, CompleteRun
<1> QED
  BY <1>5, <1>6

\* With fewer than two embedded functions there was no edge; otherwise the edges
\* found are those of the stored embeddings.
LEMMA ComputeEdgesIInv == TypeOK /\ IInv /\ ComputeEdges => IInv'
<1> SUFFICES ASSUME TypeOK, IInv, ComputeEdges PROVE IInv'
  OBVIOUS
<1>1. /\ Seen' = Seen /\ Nodes' = Nodes /\ Nodes = Seen
      /\ UNCHANGED <<node, edges, seen, total, dry>> /\ ~dry
  BY DEF ComputeEdges, stored, scan, Seen, Nodes, IInv, RunInv, StageInv
<1>2. Embedded' = Embedded /\ EdgeInv'
  BY <1>1 DEF Embedded, EdgeInv, IInv
<1>3. \A f \in Seen : UpToDate(f)'
  BY <1>1 DEF ComputeEdges, IInv, StageInv, UpToDate
<1>4. CASE Cardinality(Embedded) < 2
  <2>1. pc' = "done"
    BY <1>4 DEF ComputeEdges, Finish
  <2>2. edges = {}
    <3> SUFFICES ASSUME NEW e \in edges PROVE FALSE
      OBVIOUS
    <3>1. e.ends \subseteq Embedded
      BY DEF IInv, EdgeInv
    <3> QED
      BY <1>4, <3>1, NoPair DEF Embedded, Nodes
  <2> QED
    BY <1>1, <1>2, <1>3, <2>1, <2>2
       DEF IInv, TodoInv, RunInv, StageInv, CompleteRun, UpToDate
<1>5. CASE ~ (Cardinality(Embedded) < 2)
  <2>1. PICK close \in SUBSET {p \in Pairs : p \subseteq Embedded} :
           /\ found' = {[ends |-> p, from |-> Vectors(p)] : p \in close}
           /\ pc' = "deleteEdges"
    BY <1>5 DEF ComputeEdges
  <2>2. \A n \in found' : n.ends \subseteq Embedded /\ n.from = Vectors(n.ends)'
    BY <1>1, <2>1 DEF Vectors
  <2> QED
    BY <1>1, <1>2, <1>3, <2>1, <2>2 DEF IInv, TodoInv, RunInv, StageInv, CompleteRun
<1> QED
  BY <1>4, <1>5

\* No older edge survives the deletion of the edges.
LEMMA DeleteEdgesIInv == TypeOK /\ IInv /\ DeleteEdges => IInv'
<1> SUFFICES ASSUME TypeOK, IInv, DeleteEdges PROVE IInv'
  OBVIOUS
<1>1. /\ Seen' = Seen /\ Nodes' = Nodes /\ Nodes = Seen
      /\ UNCHANGED <<node, seen, total, dry>> /\ ~dry /\ edges' = {}
  BY DEF DeleteEdges, scan, Seen, Nodes, IInv, RunInv, StageInv
<1>2. Embedded' = Embedded
  BY <1>1 DEF Embedded
<1>3. \A f \in Seen : UpToDate(f) /\ UpToDate(f)'
  BY <1>1 DEF DeleteEdges, IInv, StageInv, UpToDate
<1>4. CASE found = {}
  <2>1. pc' = "done"
    BY <1>4 DEF DeleteEdges, Finish
  <2> QED
    BY <1>1, <1>3, <2>1 DEF IInv, TodoInv, EdgeInv, RunInv, StageInv, CompleteRun, UpToDate
<1>5. CASE found # {}
  <2>1. pc' = "writeEdges" /\ found' = found
    BY <1>5 DEF DeleteEdges, work
  <2>2. \A n \in found : n.ends \subseteq Embedded /\ n.from = Vectors(n.ends)'
    BY <1>1 DEF DeleteEdges, IInv, StageInv, Vectors
  <2> QED
    BY <1>1, <1>2, <1>3, <2>1, <2>2 DEF IInv, TodoInv, EdgeInv, RunInv, StageInv, CompleteRun
<1> QED
  BY <1>4, <1>5

\* The embeddings do not change while the edges are written.
LEMMA WriteEdgesIInv == TypeOK /\ IInv /\ WriteEdges => IInv'
<1> SUFFICES ASSUME TypeOK, IInv, WriteEdges PROVE IInv'
  OBVIOUS
<1>1. /\ Seen' = Seen /\ Nodes' = Nodes /\ Nodes = Seen
      /\ UNCHANGED <<node, seen, total, dry>> /\ ~dry
  BY DEF WriteEdges, scan, Seen, Nodes, IInv, RunInv, StageInv
<1>2. Embedded' = Embedded
  BY <1>1 DEF Embedded
<1>3. \A f \in Seen : UpToDate(f) /\ UpToDate(f)'
  BY <1>1 DEF WriteEdges, IInv, StageInv, UpToDate
<1>4. \A n \in found \cup edges : n.ends \subseteq Embedded /\ n.from = Vectors(n.ends)'
  BY <1>1 DEF WriteEdges, IInv, EdgeInv, StageInv, Vectors
<1>5. edges' \subseteq found \cup edges
  BY DEF WriteEdges, Batch
<1>6. EdgeInv' /\ \A e \in edges' : e.from = Vectors(e.ends)'
  BY <1>2, <1>4, <1>5 DEF EdgeInv
<1>7. CASE Finish
  <2>1. \A e \in edges' : e.ends \subseteq Nodes'
    BY <1>6 DEF EdgeInv, Embedded
  <2> QED
    BY <1>1, <1>3, <1>6, <1>7, <2>1
       DEF Finish, IInv, TodoInv, RunInv, StageInv, CompleteRun, UpToDate
<1>8. CASE ~ Finish
  <2>1. pc' = "writeEdges" /\ found' \subseteq found
    BY <1>8 DEF WriteEdges
  <2> QED
    BY <1>1, <1>2, <1>3, <1>4, <1>6, <2>1
       DEF IInv, TodoInv, RunInv, StageInv, CompleteRun
<1> QED
  BY <1>7, <1>8

\* Every step preserves the invariant.
LEMMA NextIInv == TypeOK /\ IInv /\ [Next]_vars => IInv'
<1> SUFFICES ASSUME TypeOK, IInv, [Next]_vars PROVE IInv'
  OBVIOUS
<1>1. CASE StartRun
  BY <1>1, FreshStep DEF StartRun, stored
<1>2. CASE Extract
  BY <1>2, ExtractIInv
<1>3. CASE Plan
  BY <1>3, PlanIInv
<1>4. CASE EmbedCode
  BY <1>4, QuietStep DEF EmbedCode, options, scan, IInv, RunInv
<1>5. CASE SkipDescriptions
  BY <1>5, QuietStep DEF SkipDescriptions, stored, options, scan, IInv, RunInv
<1>6. ASSUME NEW f \in Functions, Describe(f) PROVE IInv'
  BY <1>6, QuietStep DEF Describe, stored, options, scan, IInv, RunInv
<1>7. CASE SaveProgress
  BY <1>7, QuietStep DEF SaveProgress, options, scan, IInv, RunInv
<1>8. CASE EmbedDescriptions
  BY <1>8, QuietStep DEF EmbedDescriptions, options, scan, IInv, RunInv
<1>9. CASE UpsertBatch
  BY <1>9, UpsertIInv
<1>10. CASE ClearCheckpoint
  BY <1>10, ClearIInv
<1>11. CASE DeleteMissing
  BY <1>11, DeleteMissingIInv
<1>12. CASE ComputeEdges
  BY <1>12, ComputeEdgesIInv
<1>13. CASE DeleteEdges
  BY <1>13, DeleteEdgesIInv
<1>14. CASE WriteEdges
  BY <1>14, WriteEdgesIInv
<1>15. CASE Abort \/ Fail
  BY <1>15, FreshStep DEF Abort, Fail, Stop, stored
<1>16. CASE OrphanStep \/ UNCHANGED vars
  <2>1. UNCHANGED <<node, edges, seen, total, dry, pc, todo, found>>
    BY <1>16, OrphanStepKeeps DEF vars, stored, scan, work
  <2>2. Nodes' = Nodes /\ Seen' = Seen
    BY <2>1 DEF Nodes, Seen
  <2>3. Embedded' = Embedded
    BY <2>1, <2>2 DEF Embedded
  <2> QED
    BY <2>1, <2>2, <2>3
       DEF IInv, TodoInv, EdgeInv, RunInv, StageInv, CompleteRun, UpToDate, Vectors
<1> QED
  BY <1>1, <1>2, <1>3, <1>4, <1>5, <1>6, <1>7, <1>8, <1>9, <1>10, <1>11, <1>12, <1>13,
     <1>14, <1>15, <1>16 DEF Next

\* The inductive invariant of the pipeline, for any functions and batch sizes,
\* whatever fails and wherever a run ends.
THEOREM Invariance == Spec => [](TypeOK /\ IInv)
<1>1. Init => TypeOK /\ IInv
  BY InitType, InitIInv
<1>2. TypeOK /\ IInv /\ [Next]_vars => TypeOK' /\ IInv'
  BY NextType, NextIInv DEF IInv
<1> QED
  BY <1>1, <1>2, PTL DEF Spec

\* A run that completes leaves exactly the extracted functions, at their source,
\* and no edge of older embeddings, whatever earlier runs left behind
\* (pipeline.py, stages 8 to 12).
THEOREM CompleteRunRepairs == Spec => []CompleteRun
<1>1. IInv => CompleteRun
  BY DEF IInv
<1> QED
  BY <1>1, Invariance, PTL

\* A dry run itself writes neither the database nor a checkpoint (pipeline.py: the
\* tests of _dry_run before each stage that writes).
THEOREM DryRunsAreDry == Spec => DryRunWritesNothing
<1>1. IInv /\ [Next]_vars => [dry => OrphanStep \/ UNCHANGED stored]_vars
  <2> SUFFICES ASSUME IInv, [Next]_vars, dry, ~OrphanStep PROVE UNCHANGED stored
    OBVIOUS
  <2>1. pc \in {"idle", "extract", "plan", "done"}
    BY DEF IInv, RunInv
  <2>2. CASE StartRun \/ Extract \/ Plan \/ Abort
    BY <2>2 DEF StartRun, Extract, Plan, Abort, Stop
  <2>3. CASE UNCHANGED vars
    BY <2>3 DEF vars
  <2> QED
    BY <2>1, <2>2, <2>3
       DEF Next, EmbedCode, SkipDescriptions, Describe, SaveProgress, EmbedDescriptions,
           UpsertBatch, ClearCheckpoint, DeleteMissing, ComputeEdges, DeleteEdges, WriteEdges,
           Fail
<1> QED
  BY <1>1, Invariance, PTL DEF Spec, DryRunWritesNothing

-----------------------------------------------------------------------------
(* Without checkpoints, what is stale is marked                            *)

\* Steps that leave the records alone, or end the work on them.
LEMMA IdleRecords ==
  ASSUME pc' \notin {"embed", "skip", "describe", "upsert"}
  PROVE  RecordInv'
  BY DEF RecordInv

\* Without checkpoints, a run starts from blank records for the changed functions.
LEMMA PlanRecords ==
  ASSUME ~CheckpointEnabled, TypeOK, Plan
  PROVE  RecordInv'
<1>1. CASE dry
  BY <1>1, IdleRecords DEF Plan, Finish
<1>2. CASE ~dry
  <2>1. /\ changed' = {f \in Functions : IsChanged(f)}
        /\ rec' = [f \in Functions |-> Blank]
        /\ UNCHANGED <<node, seen>>
        /\ pc' = "embed" \/ (pc' = "upsert" /\ changed' = {})
    BY <1>2 DEF Plan, Loaded, stored, scan
  <2>2. changed' \subseteq Seen' /\ \A f \in Seen' \ changed' : UpToDate(f)'
    BY <2>1 DEF Seen, IsChanged, UpToDate
  <2> QED
    BY <2>1, <2>2 DEF RecordInv
<1> QED
  BY <1>1, <1>2

\* Every changed record is embedded or marked.
LEMMA EmbedCodeRecords ==
  ASSUME ~CheckpointEnabled, TypeOK, RecordInv, EmbedCode
  PROVE  RecordInv'
<1>1. PICK failed \in SUBSET {f \in changed : rec[f].codeStatus # "ok"} :
         rec' = [f \in Functions |->
                   IF f \in failed THEN [rec[f] EXCEPT !.codeStatus = "error"]
                   ELSE IF f \in {g \in changed : rec[g].codeStatus # "ok"}
                        THEN [rec[f] EXCEPT !.code = seen[f], !.codeStatus = "ok"]
                        ELSE rec[f]]
  BY DEF EmbedCode
<1>2. /\ UNCHANGED <<node, seen, changed>> /\ Seen' = Seen
      /\ pc = "embed" /\ changed \subseteq Functions
      /\ pc' = "skip" \/ (pc' = "describe" /\ todo' \subseteq changed)
  BY DEF EmbedCode, scan, Seen, TypeOK, NeedsDescription
<1>3. \A f \in Functions : rec[f] = Blank
  BY <1>2 DEF RecordInv
<1>4. \A f \in changed : rec[f].codeStatus # "ok"
  BY <1>2, <1>3, PipelineAssumption DEF Blank
<1>5. \A f \in changed : /\ rec'[f] = [Blank EXCEPT !.codeStatus = "error"]
                             \/ rec'[f] = [Blank EXCEPT !.code = seen[f], !.codeStatus = "ok"]
  BY <1>1, <1>2, <1>3, <1>4
<1>6. \A f \in changed : CodeMade(f)' /\ rec'[f].desc = None /\ rec'[f].descStatus = None
  BY <1>2, <1>5 DEF CodeMade, Blank
<1>7. pc' = "describe" => todo' = changed
  <2> SUFFICES ASSUME pc' = "describe" PROVE todo' = changed
    OBVIOUS
  <2>1. todo' = {f \in changed : rec'[f].descStatus # "ok"}
    BY <1>2 DEF EmbedCode, NeedsDescription
  <2> QED
    BY <1>6, <2>1, PipelineAssumption
<1>8. \A f \in Functions \ changed : rec'[f] = Blank
  BY <1>1, <1>3
<1>9. changed \subseteq Seen /\ \A f \in Seen \ changed : UpToDate(f)'
  BY <1>2 DEF RecordInv, UpToDate
<1> QED
  BY <1>2, <1>6, <1>7, <1>8, <1>9 DEF RecordInv

\* With --no-descriptions every changed record is marked as skipped.
LEMMA SkipRecords ==
  ASSUME TypeOK, RecordInv, SkipDescriptions
  PROVE  RecordInv'
<1>1. /\ UNCHANGED <<node, seen, changed>> /\ Seen' = Seen
      /\ pc = "skip" /\ pc' = "upsert" /\ changed \subseteq Functions
      /\ rec' = [f \in Functions |-> IF f \in changed
                                     THEN [rec[f] EXCEPT !.descStatus = "skipped"]
                                     ELSE rec[f]]
  BY DEF SkipDescriptions, stored, scan, Seen, TypeOK
<1>2. \A f \in changed : rec[f] \in Fields
  BY <1>1 DEF TypeOK
<1>3. \A f \in changed : CodeMade(f)' /\ DescMade(f)'
  BY <1>1, <1>2 DEF RecordInv, CodeMade, DescMade, Fields
<1>4. \A f \in Functions \ changed : rec'[f] = Blank
  BY <1>1 DEF RecordInv
<1>5. changed \subseteq Seen /\ \A f \in Seen \ changed : UpToDate(f)'
  BY <1>1 DEF RecordInv, UpToDate
<1> QED
  BY <1>1, <1>3, <1>4, <1>5 DEF RecordInv

\* Each description is made from the extracted source, or marked as failed.
LEMMA DescribeRecords ==
  ASSUME TypeOK, RecordInv, NEW g \in Functions, Describe(g)
  PROVE  RecordInv'
<1>1. /\ UNCHANGED <<node, seen, changed>> /\ Seen' = Seen
      /\ pc = "describe" /\ pc' = "describe" /\ changed \subseteq Functions
      /\ todo' = todo \ {g} /\ g \in todo
  BY DEF Describe, stored, scan, Seen, TypeOK
<1>2. g \in changed
  BY <1>1 DEF RecordInv
<1>3. \/ rec' = [rec EXCEPT ![g] = [rec[g] EXCEPT !.desc = seen[g], !.descStatus = "ok"]]
      \/ rec' = [rec EXCEPT ![g] = [rec[g] EXCEPT !.desc = None, !.descStatus = "error"]]
  BY DEF Describe
<1>4. rec \in [Functions -> Fields] /\ rec[g] \in Fields
  BY DEF TypeOK
<1>5. \A f \in Functions \ {g} : rec'[f] = rec[f]
  BY <1>3, <1>4
<1>6. /\ rec'[g].code = rec[g].code /\ rec'[g].codeStatus = rec[g].codeStatus
      /\ rec'[g].desc = seen[g] \/ (rec'[g].desc = None /\ rec'[g].descStatus = "error")
  BY <1>3, <1>4 DEF Fields
<1>7. \A f \in changed : CodeMade(f)'
  BY <1>1, <1>5, <1>6 DEF RecordInv, CodeMade
<1>8. \A f \in changed \ todo' : DescMade(f)'
  BY <1>1, <1>5, <1>6 DEF RecordInv, DescMade
<1>9. \A f \in Functions \ changed : rec'[f] = Blank
  BY <1>1, <1>2, <1>5 DEF RecordInv
<1>10. changed \subseteq Seen /\ \A f \in Seen \ changed : UpToDate(f)'
  BY <1>1 DEF RecordInv, UpToDate
<1> QED
  BY <1>1, <1>7, <1>8, <1>9, <1>10 DEF RecordInv

\* The batch of description embeddings changes nothing else in the records.
LEMMA EmbedDescriptionsKeeps ==
  ASSUME TypeOK, EmbedDescriptions, NEW f \in Functions
  PROVE  /\ rec'[f].code = rec[f].code
         /\ rec'[f].codeStatus = rec[f].codeStatus
         /\ rec'[f].desc = rec[f].desc
         /\ rec'[f].descStatus = rec[f].descStatus
         /\ f \notin changed => rec'[f] = rec[f]
<1>1. CASE ToEmbed = {}
  BY <1>1 DEF EmbedDescriptions
<1>2. CASE ToEmbed # {}
  <2>1. PICK failed \in SUBSET Functions :
           rec' = [h \in Functions |-> IF h \in ToEmbed \ failed
                                       THEN [rec[h] EXCEPT !.descEmb = rec[h].desc]
                                       ELSE rec[h]]
    BY <1>2 DEF EmbedDescriptions, ToEmbed, TypeOK
  <2>2. rec[f] \in Fields
    BY DEF TypeOK
  <2> QED
    BY <2>1, <2>2 DEF Fields, ToEmbed
<1> QED
  BY <1>1, <1>2

\* When the descriptions are embedded, every changed record has been described.
LEMMA EmbedDescriptionsRecords ==
  ASSUME TypeOK, RecordInv, EmbedDescriptions
  PROVE  RecordInv'
<1>1. /\ UNCHANGED <<node, seen, changed>> /\ Seen' = Seen
      /\ pc = "describe" /\ pc' = "upsert" /\ todo = {} /\ changed \subseteq Functions
  BY DEF EmbedDescriptions, scan, Seen, TypeOK
<1>2. \A f \in Functions : /\ rec'[f].code = rec[f].code
                           /\ rec'[f].codeStatus = rec[f].codeStatus
                           /\ rec'[f].desc = rec[f].desc
                           /\ rec'[f].descStatus = rec[f].descStatus
                           /\ f \notin changed => rec'[f] = rec[f]
  BY EmbedDescriptionsKeeps
<1>3. \A f \in changed : CodeMade(f)' /\ DescMade(f)'
  BY <1>1, <1>2 DEF RecordInv, CodeMade, DescMade
<1>4. \A f \in Functions \ changed : rec'[f] = Blank
  BY <1>1, <1>2 DEF RecordInv
<1>5. changed \subseteq Seen /\ \A f \in Seen \ changed : UpToDate(f)'
  BY <1>1 DEF RecordInv, UpToDate
<1> QED
  BY <1>1, <1>3, <1>4, <1>5 DEF RecordInv

\* Between two batches the records are as they were.
LEMMA UpsertRecords ==
  ASSUME TypeOK, TodoInv, RecordInv, UpsertBatch
  PROVE  RecordInv'
<1>1. /\ UNCHANGED <<seen, changed, rec>> /\ Seen' = Seen /\ pc = "upsert"
  BY DEF UpsertBatch, scan, Seen
<1>2. PICK b \in SUBSET todo :
         node' = [f \in Functions |-> IF f \in b THEN Upserted(f) ELSE node[f]]
  BY DEF UpsertBatch, Batch
<1>3. \A f \in changed : CodeMade(f)' /\ DescMade(f)'
  BY <1>1 DEF RecordInv, CodeMade, DescMade
<1>4. \A f \in Seen \ changed : UpToDate(f)'
  <2> SUFFICES ASSUME NEW f \in Seen \ changed PROVE UpToDate(f)'
    OBVIOUS
  <2>1. CASE f \in b
    BY <1>1, <1>2, <2>1, UpsertedNode DEF UpToDate, Seen
  <2>2. CASE f \notin b
    BY <1>1, <1>2, <2>2 DEF RecordInv, UpToDate, Seen
  <2> QED
    BY <2>1, <2>2
<1>5. pc' \in {"upsert", "clear"}
  BY DEF UpsertBatch
<1> QED
  BY <1>1, <1>3, <1>4, <1>5 DEF RecordInv

\* What a run without checkpoints keeps of its records is preserved by every step.
LEMMA NextRecords ==
  ASSUME ~CheckpointEnabled, TypeOK, TodoInv, RecordInv, [Next]_vars
  PROVE  RecordInv'
<1>1. CASE Plan
  BY <1>1, PlanRecords
<1>2. CASE EmbedCode
  BY <1>2, EmbedCodeRecords
<1>3. CASE SkipDescriptions
  BY <1>3, SkipRecords
<1>4. ASSUME NEW f \in Functions, Describe(f) PROVE RecordInv'
  BY <1>4, DescribeRecords
<1>5. CASE SaveProgress \/ OrphanStep \/ UNCHANGED vars
  <2>1. UNCHANGED <<node, seen, changed, rec, todo, pc>>
    BY <1>5, OrphanStepKeeps DEF SaveProgress, vars, stored, scan, work
  <2> QED
    BY <2>1 DEF RecordInv, Seen, UpToDate, CodeMade, DescMade
<1>6. CASE EmbedDescriptions
  BY <1>6, EmbedDescriptionsRecords
<1>7. CASE UpsertBatch
  BY <1>7, UpsertRecords
<1>8. CASE StartRun \/ Extract \/ ClearCheckpoint \/ DeleteMissing \/ ComputeEdges
           \/ DeleteEdges \/ WriteEdges \/ Abort \/ Fail
  BY <1>8, IdleRecords DEF StartRun, Extract, ClearCheckpoint, DeleteMissing, ComputeEdges,
                           DeleteEdges, WriteEdges, Abort, Fail, Stop, Finish
<1> QED
  BY <1>1, <1>2, <1>3, <1>4, <1>5, <1>6, <1>7, <1>8 DEF Next

\* An upsert marks what it leaves stale.
LEMMA UpsertMarks ==
  ASSUME TypeOK, TodoInv, RecordInv, StaleIsMarked, UpsertBatch
  PROVE  StaleIsMarked'
<1>1. /\ pc = "upsert" /\ todo \subseteq Seen
      /\ \A f \in changed : CodeMade(f) /\ DescMade(f)
      /\ \A f \in Functions \ changed : rec[f] = Blank
      /\ \A f \in Seen \ changed : UpToDate(f)
  BY DEF UpsertBatch, TodoInv, RecordInv
<1>2. PICK b \in SUBSET todo :
         node' = [f \in Functions |-> IF f \in b THEN Upserted(f) ELSE node[f]]
  BY DEF UpsertBatch, Batch
<1> SUFFICES ASSUME NEW f \in Nodes'
             PROVE  LET d == node'[f].data IN
                    /\ d.code # node'[f].hash => d.codeStatus = "error"
                    /\ d.desc # node'[f].hash => d.descStatus \in {"error", "skipped"}
  BY DEF StaleIsMarked
<1>3. f \in Functions
  BY DEF Nodes
<1>4. CASE f \notin b
  BY <1>2, <1>3, <1>4 DEF StaleIsMarked, Nodes
<1>5. CASE f \in b /\ f \notin changed
  <2>1. node[f] # None /\ node[f].hash = seen[f] /\ rec[f] = Blank
    BY <1>1, <1>3, <1>5 DEF UpToDate
  <2>2. node[f].data \in Fields
    BY <1>3, <2>1 DEF TypeOK, NodeType, Maybe
  <2>3. KeepOld(Blank, node[f].data) = node[f].data
    BY <2>2 DEF KeepOld, Pick, Blank, Fields
  <2>4. node'[f].hash = node[f].hash /\ node'[f].data = node[f].data
    BY <1>2, <1>3, <1>5, <2>1, <2>3 DEF Upserted
  <2> QED
    BY <1>3, <2>1, <2>4 DEF StaleIsMarked, Nodes
<1>6. CASE f \in b /\ f \in changed
  <2>1. PICK old \in Fields : node'[f] = [hash |-> seen[f], data |-> KeepOld(rec[f], old)]
    BY <1>2, <1>3, <1>6, BlankFields DEF Upserted, TypeOK, NodeType, Maybe
  <2>2. CodeMade(f) /\ DescMade(f) /\ seen[f] # None
    BY <1>1, <1>6 DEF Seen
  <2>3. node'[f].data.code # seen[f] => rec[f].codeStatus = "error"
    BY <2>1, <2>2 DEF KeepOld, Pick, CodeMade
  <2>4. node'[f].data.desc # seen[f] => rec[f].descStatus \in {"error", "skipped"}
    BY <2>1, <2>2 DEF KeepOld, Pick, DescMade
  <2>5. None \notin {"error", "skipped"}
    BY PipelineAssumption
  <2> QED
    BY <2>1, <2>3, <2>4, <2>5 DEF KeepOld, Pick
<1> QED
  BY <1>4, <1>5, <1>6

\* Only the upsert can leave a stale value.
LEMMA NextMarks ==
  ASSUME TypeOK, TodoInv, RecordInv, StaleIsMarked, [Next]_vars
  PROVE  StaleIsMarked'
<1>1. CASE UpsertBatch
  BY <1>1, UpsertMarks
<1>2. CASE DeleteMissing
  <2>1. \A f \in Nodes' : f \in Nodes /\ node'[f] = node[f]
    BY <1>2 DEF DeleteMissing, Nodes
  <2> QED
    BY <2>1 DEF StaleIsMarked
<1>3. CASE node' = node
  BY <1>3 DEF StaleIsMarked, Nodes
<1>4. [Next]_vars => UpsertBatch \/ DeleteMissing \/ node' = node
  BY OrphanStepKeeps
     DEF Next, vars, stored, StartRun, Extract, Plan, EmbedCode, SkipDescriptions, Describe,
         SaveProgress, EmbedDescriptions, ClearCheckpoint, ComputeEdges, DeleteEdges,
         WriteEdges, Abort, Fail, Stop
<1> QED
  BY <1>1, <1>2, <1>3, <1>4

\* Without checkpoints, a stored code embedding or description that was not made
\* from the stored source carries a status that says so (store.py: the CASE of the
\* upsert keeps the old value, but not the old status).  The embedding of the
\* description has no status to say it.
THEOREM NothingStalePassesForOk ==
  ASSUME ~CheckpointEnabled
  PROVE  Spec => []StaleIsMarked
<1>1. Init => TypeOK /\ TodoInv /\ RecordInv /\ StaleIsMarked
  BY InitType DEF Init, TodoInv, RecordInv, StaleIsMarked, Nodes
<1>2. TypeOK /\ TodoInv /\ RecordInv /\ StaleIsMarked /\ [Next]_vars
         => TypeOK' /\ TodoInv' /\ RecordInv' /\ StaleIsMarked'
  BY NextType, NextTodo, NextRecords, NextMarks
<1> QED
  BY <1>1, <1>2, PTL DEF Spec

-----------------------------------------------------------------------------
(* Checkpoints                                                             *)

\* Without checkpoints there are no files.
LEMMA NoFiles ==
  ASSUME TypeOK, SavedInv, [Next]_vars, ~CheckpointEnabled, NEW k \in SUBSET Functions
  PROVE  checkpoint'[k] = None
<1>1. checkpoint[k] = None
  BY DEF SavedInv
<1>2. CASE OrphanStep
  <2>1. PICK o \in orphans : OrphanSaves(o) \/ \E f \in o.todo : OrphanDescribes(o, f)
    BY <1>2 DEF OrphanStep
  <2>2. CASE OrphanSaves(o)
    BY <1>1, <2>2 DEF OrphanSaves, Saved
  <2>3. CASE \E f \in o.todo : OrphanDescribes(o, f)
    BY <1>1, <2>3 DEF OrphanDescribes, stored
  <2> QED
    BY <2>1, <2>2, <2>3
<1>3. CASE Fail \/ Abort
  BY <1>1, <1>3 DEF Fail, Abort, Stop, stored
<1>4. CASE ~OrphanStep /\ ~Fail /\ ~Abort
  <2>1. checkpoint' = checkpoint
    BY <1>4 DEF Next, vars, stored, StartRun, Extract, Plan, EmbedCode, SkipDescriptions,
                Describe, SaveProgress, EmbedDescriptions, UpsertBatch, ClearCheckpoint,
                DeleteMissing, ComputeEdges, DeleteEdges, WriteEdges, Saved, Cleared
  <2> QED
    BY <1>1, <2>1
<1> QED
  BY <1>2, <1>3, <1>4

\* A step outside the stages that describe.
LEMMA IdleSaved ==
  ASSUME TypeOK, SavedInv, [Next]_vars, pc' \notin {"embed", "describe"}
  PROVE  SavedInv'
  BY NoFiles DEF SavedInv

\* Restoring a checkpoint brings the records up to it.
LEMMA PlanSaved ==
  ASSUME TypeOK, SavedInv, Plan
  PROVE  SavedInv'
<1>0. [Next]_vars
  BY DEF Next
<1>1. CASE dry \/ pc' = "upsert"
  BY <1>0, <1>1, IdleSaved DEF Plan, Finish
<1>2. CASE ~dry /\ pc' # "upsert"
  <2>1. /\ changed' # {} /\ changed' \in SUBSET Functions
        /\ rec' = Loaded(changed') /\ checkpoint' = checkpoint /\ pc' = "embed"
    BY <1>2 DEF Plan, stored
  <2>2. checkpoint[changed'] # None => rec' = checkpoint[changed']
    BY <2>1 DEF Loaded, SavedInv
  <2> QED
    BY <1>0, <2>1, <2>2, NoFiles DEF SavedInv
<1> QED
  BY <1>1, <1>2

\* The code embeddings are saved with whatever was restored.
LEMMA EmbedCodeSaved ==
  ASSUME TypeOK, SavedInv, EmbedCode
  PROVE  /\ SavedInv'
         /\ \A f \in Functions : rec'[f].descStatus = rec[f].descStatus
<1>0. [Next]_vars
  BY DEF Next
<1>1. PICK failed \in SUBSET Functions :
         rec' = [f \in Functions |->
                   IF f \in failed THEN [rec[f] EXCEPT !.codeStatus = "error"]
                   ELSE IF f \in {g \in changed : rec[g].codeStatus # "ok"}
                        THEN [rec[f] EXCEPT !.code = seen[f], !.codeStatus = "ok"]
                        ELSE rec[f]]
  BY DEF EmbedCode, TypeOK
<1>2. \A f \in Functions : rec[f] \in Fields
  BY DEF TypeOK
<1>3. \A f \in Functions : rec'[f].descStatus = rec[f].descStatus
  BY <1>1, <1>2 DEF Fields
<1>4. CheckpointEnabled => checkpoint'[changed'] = rec'
  BY DEF EmbedCode, Saved, TypeOK, CheckpointType
<1>5. pc' = "describe" => /\ todo' \subseteq changed'
                          /\ \A f \in todo' : rec'[f].descStatus # "ok"
  BY DEF EmbedCode, NeedsDescription
<1>6. changed' \in SUBSET Functions
  BY DEF EmbedCode, TypeOK
<1> QED
  BY <1>0, <1>3, <1>4, <1>5, <1>6, NoFiles DEF SavedInv

\* A record is described only if no description was restored for it.
LEMMA DescribeSaved ==
  ASSUME TypeOK, SavedInv, NEW g \in Functions, Describe(g)
  PROVE  /\ SavedInv'
         /\ rec[g].descStatus # "ok"
         /\ \A f \in Functions : rec[f].descStatus = "ok" => rec'[f].descStatus = "ok"
<1>0. [Next]_vars
  BY DEF Next
<1>1. /\ UNCHANGED <<changed, checkpoint, overwritten>> /\ pc = "describe" /\ pc' = "describe"
      /\ todo' = todo \ {g} /\ g \in todo /\ changed \in SUBSET Functions
  BY DEF Describe, stored, TypeOK
<1>2. rec[g].descStatus # "ok"
  BY <1>1 DEF SavedInv
<1>3. PICK r : rec' = [rec EXCEPT ![g] = r]
  <2>1. \/ rec' = [rec EXCEPT ![g] = [rec[g] EXCEPT !.desc = seen[g], !.descStatus = "ok"]]
        \/ rec' = [rec EXCEPT ![g] = [rec[g] EXCEPT !.desc = None, !.descStatus = "error"]]
    BY DEF Describe
  <2> QED
    BY <2>1
<1>4. \A f \in Functions \ {g} : rec'[f] = rec[f]
  BY <1>3 DEF TypeOK
<1> QED
  BY <1>0, <1>1, <1>2, <1>4, NoFiles DEF SavedInv

\* A save in the middle of the batch makes the checkpoint equal to the records.
LEMMA SaveProgressSaved ==
  ASSUME TypeOK, SavedInv, SaveProgress
  PROVE  SavedInv'
<1>0. [Next]_vars
  BY DEF Next
<1>1. UNCHANGED <<changed, rec, pc, todo>> /\ changed \in SUBSET Functions
  BY DEF SaveProgress, TypeOK
<1>2. CheckpointEnabled => checkpoint'[changed] = rec
  BY <1>1 DEF SaveProgress, Saved, TypeOK, CheckpointType
<1> QED
  BY <1>0, <1>1, <1>2, NoFiles DEF SavedInv

\* A save by an orphan under this run's key is remembered; one under another key
\* does not concern the run.
LEMMA OrphanStepSaved ==
  ASSUME TypeOK, SavedInv, OrphanStep
  PROVE  SavedInv'
<1>0. [Next]_vars
  BY DEF Next
<1>1. UNCHANGED <<pc, changed, rec, todo>> /\ changed \in SUBSET Functions
  BY OrphanStepKeeps DEF TypeOK
<1>2. ~overwritten' => ~overwritten /\ checkpoint'[changed] = checkpoint[changed]
  <2>1. PICK o \in orphans : OrphanSaves(o) \/ \E f \in o.todo : OrphanDescribes(o, f)
    BY DEF OrphanStep
  <2>2. CASE OrphanSaves(o)
    <3>1. overwritten' = (overwritten \/ o.key = changed)
      BY <2>2 DEF OrphanSaves
    <3>2. checkpoint' = checkpoint \/ checkpoint' = [checkpoint EXCEPT ![o.key] = o.rec]
      BY <2>2 DEF OrphanSaves, Saved
    <3> QED
      BY <1>1, <3>1, <3>2 DEF TypeOK, CheckpointType
  <2>3. CASE \E f \in o.todo : OrphanDescribes(o, f)
    BY <2>3 DEF OrphanDescribes, stored, work
  <2> QED
    BY <2>1, <2>2, <2>3
<1> QED
  BY <1>0, <1>1, <1>2, NoFiles DEF SavedInv

\* The records of a run are never behind its checkpoint.
LEMMA NextSaved ==
  ASSUME TypeOK, SavedInv, [Next]_vars
  PROVE  SavedInv'
<1>1. CASE Plan
  BY <1>1, PlanSaved
<1>2. CASE EmbedCode
  BY <1>2, EmbedCodeSaved
<1>3. ASSUME NEW f \in Functions, Describe(f) PROVE SavedInv'
  BY <1>3, DescribeSaved
<1>4. CASE SaveProgress
  BY <1>4, SaveProgressSaved
<1>5. CASE UNCHANGED vars
  BY <1>5 DEF vars, stored, work, SavedInv
<1>6. CASE OrphanStep
  BY <1>6, OrphanStepSaved
<1>7. CASE StartRun \/ Extract \/ SkipDescriptions \/ EmbedDescriptions \/ UpsertBatch
           \/ ClearCheckpoint \/ DeleteMissing \/ ComputeEdges \/ DeleteEdges
           \/ WriteEdges \/ Abort \/ Fail
  BY <1>7, IdleSaved
     DEF StartRun, Extract, SkipDescriptions, EmbedDescriptions, UpsertBatch,
         ClearCheckpoint, DeleteMissing, ComputeEdges, DeleteEdges, WriteEdges, Abort, Fail,
         Stop, Finish
<1> QED
  BY <1>1, <1>2, <1>3, <1>4, <1>5, <1>6, <1>7 DEF Next

\* In every reachable state the run's records are not behind its checkpoint.
LEMMA SavedInvariance == Spec => [](TypeOK /\ SavedInv)
<1>1. Init => TypeOK /\ TodoInv /\ SavedInv
  BY InitType DEF Init, TodoInv, SavedInv
<1>2. TypeOK /\ TodoInv /\ SavedInv /\ [Next]_vars => TypeOK' /\ TodoInv' /\ SavedInv'
  BY NextType, NextTodo, NextSaved
<1> QED
  BY <1>1, <1>2, PTL DEF Spec

\* A description that is in the checkpoint of the run's changed set is never
\* generated again (pipeline.py: needs_description), as long as no orphan of a failed
\* run has written that checkpoint meanwhile.
THEOREM DescribedOnce == Spec => FinishedWorkIsKept
<1>1. TypeOK /\ SavedInv /\ [Next]_vars =>
        [\A f \in Functions :
            Describe(f) /\ CheckpointEnabled /\ checkpoint[changed] # None /\ ~overwritten
               => checkpoint[changed][f].descStatus # "ok"]_vars
  <2> SUFFICES ASSUME TypeOK, SavedInv, NEW f \in Functions, Describe(f),
                      checkpoint[changed] # None, ~overwritten
               PROVE  checkpoint[changed][f].descStatus # "ok"
    OBVIOUS
  <2>1. pc = "describe" /\ f \in todo
    BY DEF Describe
  <2> QED
    BY <2>1 DEF SavedInv
<1> QED
  BY <1>1, SavedInvariance, PTL DEF Spec, FinishedWorkIsKept

\* No save of a run, though it overwrites the whole file, takes a finished
\* description out of it (checkpoint.py: save); the orphans of a failed run may, and
\* so may a run whose file they have overwritten since it was restored.
THEOREM SavesLoseNothing == Spec => CheckpointOnlyGrows
<1>1. TypeOK /\ SavedInv /\ [Next]_vars =>
        [\A k \in SUBSET Functions :
            checkpoint[k] # None /\ checkpoint'[k] # None /\ ~overwritten /\ ~OrphanStep =>
               \A f \in k : checkpoint[k][f].descStatus = "ok" =>
                               checkpoint'[k][f].descStatus = "ok"]_vars
  <2> SUFFICES ASSUME TypeOK, SavedInv, [Next]_vars, ~overwritten, ~OrphanStep,
                      NEW k \in SUBSET Functions, checkpoint[k] # None, checkpoint'[k] # None,
                      NEW f \in k, checkpoint[k][f].descStatus = "ok"
               PROVE  checkpoint'[k][f].descStatus = "ok"
    OBVIOUS
  <2>1. CASE checkpoint' = checkpoint
    BY <2>1
  <2>2. CASE SaveProgress
    <3>1. pc = "describe" /\ (checkpoint' = checkpoint
                               \/ checkpoint' = [checkpoint EXCEPT ![changed] = rec])
      BY <2>2 DEF SaveProgress, Saved
    <3> QED
      BY <3>1 DEF SavedInv, TypeOK, CheckpointType
  <2>3. CASE EmbedCode
    <3>1. pc = "embed" /\ (checkpoint' = checkpoint
                            \/ checkpoint' = [checkpoint EXCEPT ![changed] = rec'])
      BY <2>3 DEF EmbedCode, Saved
    <3>2. rec'[f].descStatus = rec[f].descStatus
      BY <2>3, EmbedCodeSaved
    <3> QED
      BY <3>1, <3>2 DEF SavedInv, TypeOK, CheckpointType
  <2>4. CASE EmbedDescriptions
    <3>1. pc = "describe" /\ (checkpoint' = checkpoint
                               \/ checkpoint' = [checkpoint EXCEPT ![changed] = rec'])
      BY <2>4 DEF EmbedDescriptions, Saved
    <3>2. rec'[f].descStatus = rec[f].descStatus
      BY <2>4, EmbedDescriptionsKeeps
    <3> QED
      BY <3>1, <3>2 DEF SavedInv, TypeOK, CheckpointType
  <2>5. CASE ClearCheckpoint
    BY <2>5 DEF ClearCheckpoint, Cleared, TypeOK, CheckpointType
  <2> QED
    BY <2>1, <2>2, <2>3, <2>4, <2>5
       DEF Next, vars, stored, StartRun, Extract, Plan, SkipDescriptions, Describe,
           UpsertBatch, DeleteMissing, ComputeEdges, DeleteEdges, WriteEdges, Abort, Fail,
           Stop
<1> QED
  BY <1>1, SavedInvariance, PTL DEF Spec, CheckpointOnlyGrows
=============================================================================
