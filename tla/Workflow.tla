------------------------------ MODULE Workflow ------------------------------
(***************************************************************************)
(* The edit workflow: the LangGraph state machine of graph/workflow.py,    *)
(* its nodes, and what they do to the working tree of the target           *)
(* repository (git/branch_manager.py, tools/files.py).  Tasks run one      *)
(* after the other; a run may end by an exception or a crash at any node;  *)
(* the user shares the working tree.                                       *)
(*                                                                         *)
(* One file is edited.  A value of Codes is a whole content of it; which   *)
(* code the model answers with, and what the judge says of it, is open.    *)
(***************************************************************************)
EXTENDS Naturals, FiniteSets

CONSTANTS Tasks,
          Base,        \* base_branch, as it is on origin
          BranchOf,    \* build_branch_name(): tasks with one slug share a branch
          Codes,       \* what the coder may produce
          Faulty,      \* the codes with a syntax error or an issue ruff cannot fix
          Fix,         \* ruff check --fix: a function on the codes
          Bare,        \* the target symbol alone, less than 80% of the file
          Original,    \* the file on the base branch
          None,
          MaxCycles,   \* max_workflow_revision_cycles
          Meddling,    \* whether the user may switch branches during a run
          MaxRuns      \* bound: how many runs are started

Branches == {BranchOf[t] : t \in Tasks} \cup {Base}
Contents == Codes \cup {Original}
Short(code, original) == code = Bare /\ original # Bare

ASSUME WorkflowAssumption ==
    /\ BranchOf \in [Tasks -> STRING]
    /\ Base \notin {BranchOf[t] : t \in Tasks}
    /\ Faulty \subseteq Codes /\ Bare \in Codes /\ Original # Bare
    /\ Fix \in [Codes -> Codes]
    /\ \A c \in Codes \ Faulty : Fix[c] \notin Faulty /\ Fix[Fix[c]] = Fix[c]
    /\ None \notin Contents
    /\ MaxCycles \in Nat \ {0} /\ MaxRuns \in Nat
    /\ Meddling \in BOOLEAN

VARIABLES
    head,       \* the file as committed on each local branch, None if there is none
    active,     \* the branch that is checked out
    index,      \* the file as it is staged
    tree,       \* the file in the working tree
    pc,         \* the node that runs next
    task,       \* the task of the run
    state,      \* GraphState
    runs,       \* history: how many runs were started
    complaint,  \* history: what the validators held against the last code
    passed,     \* history: the code that both validators have passed, if any
    judged,     \* history: the change the judge was last shown
    landed,     \* history: the commits of the workflow
    endedAt     \* history: where the last run ended that had got its branch

repo == <<head, active, index, tree>>
log  == <<complaint, passed, judged>>
vars == <<repo, pc, task, state, runs, log, landed, endedAt>>

-----------------------------------------------------------------------------
(* GraphState and the graph runtime                                        *)

DeclaredWithDiff ==        \* mutant: generated_diff is declared
    {"original_code", "generated_code", "updated_code", "iteration", "review_passed",
     "syntax_ok", "review_errors", "semantic_passed", "semantic_feedback",
     "missing_requirements", "incorrect_behaviors", "branch_name", "commit_sha",
     "generated_diff"}

\* The keys of GraphState that matter here.  generated_diff is not one.
Declared ==
    {"original_code", "generated_code", "updated_code", "iteration", "review_passed",
     "syntax_ok", "review_errors", "semantic_passed", "semantic_feedback",
     "missing_requirements", "incorrect_behaviors", "branch_name", "commit_sha"}

\* The lists of the judge's verdict that the coder's prompt prints, and the
\* lists and strings of the state of which only the emptiness matters.
Lists == {"missing_requirements", "incorrect_behaviors"}
Texts == Lists \cup {"review_errors", "semantic_feedback"}

\* state.get(key)
Get(key) == IF key \in Declared THEN state[key] ELSE None

\* A node's update is merged; the runtime drops the keys that are not declared.
Merge(update) ==
    state' = [key \in Declared |-> IF key \in DOMAIN update THEN update[key] ELSE state[key]]

\* What GraphStateFactory leaves out, get() reads with these defaults.
Fresh == [key \in Declared |->
             CASE key = "iteration" -> 0
               [] key = "syntax_ok" -> TRUE
               [] key \in Texts \cup {"review_passed", "semantic_passed"} -> FALSE
               [] OTHER -> None]

Init ==
    /\ head = [b \in Branches |-> IF b = Base THEN Original ELSE None]
    /\ active = Base
    /\ index = Original /\ tree = Original
    /\ pc = "idle" /\ task = None
    /\ state = Fresh
    /\ runs = 0
    /\ complaint = {} /\ passed = None /\ judged = None
    /\ landed = {} /\ endedAt = "end"

\* repo.is_dirty(untracked_files=False)
Dirty == index # head[active] \/ tree # index

StartRun ==
    /\ pc = "idle" /\ runs < MaxRuns
    /\ runs' = runs + 1
    /\ task' \in Tasks
    /\ state' = Fresh
    /\ pc' = "branch_creator"
    /\ complaint' = {} /\ passed' = None /\ judged' = None
    /\ UNCHANGED <<repo, landed, endedAt>>

End ==
    /\ pc' = "idle"
    /\ endedAt' = "end"

-----------------------------------------------------------------------------
(* The nodes                                                               *)

CheckoutForced ==          \* mutant: create_task_branch() does not ask whether the tree is clean
    /\ pc = "branch_creator"
    /\ LET b == BranchOf[task]
       IN  /\ head' = [head EXCEPT ![b] = IF @ = None THEN head[Base] ELSE @]
           /\ active' = b
           /\ index' = head'[b]
           /\ tree' = IF Dirty THEN tree ELSE head'[b]
           /\ Merge([branch_name |-> b])
    /\ pc' = "planner"
    /\ UNCHANGED <<task, runs, log, landed, endedAt>>

\* An existing branch is checked out as it is, a new one made from the base.
BranchCreator ==
    /\ pc = "branch_creator" /\ ~Dirty
    /\ LET b == BranchOf[task]
       IN  /\ head' = [head EXCEPT ![b] = IF @ = None THEN head[Base] ELSE @]
           /\ active' = b
           /\ index' = head'[b] /\ tree' = head'[b]
           /\ Merge([branch_name |-> b])
    /\ pc' = "planner"
    /\ UNCHANGED <<task, runs, log, landed, endedAt>>

\* It raises if there are uncommitted changes.
BranchRefused ==
    /\ pc = "branch_creator" /\ Dirty
    /\ pc' = "idle"
    /\ UNCHANGED <<repo, task, state, runs, log, landed, endedAt>>

\* Resolver, retrieval and planner: the planner finds a file, or the run ends.
Planner ==
    /\ pc = "planner"
    /\ \/ pc' = "file_reader" /\ UNCHANGED endedAt
       \/ End
    /\ UNCHANGED <<repo, task, state, runs, log, landed>>

FileReader ==
    /\ pc = "file_reader"
    /\ Merge([original_code |-> tree])
    /\ pc' = "coder"
    /\ UNCHANGED <<repo, task, runs, log, landed, endedAt>>

CoderForgetful ==          \* mutant: the lists are not cleared
    /\ pc = "coder"
    /\ \E code \in Codes :
          Merge([generated_code |-> code, iteration |-> state.iteration + 1,
                 review_passed |-> FALSE, semantic_passed |-> FALSE,
                 semantic_feedback |-> FALSE])
    /\ pc' = "diff_generator"
    /\ UNCHANGED <<repo, task, runs, log, landed, endedAt>>

CoderUncounted ==          \* mutant: the attempt is not counted
    /\ pc = "coder"
    /\ \E code \in Codes :
          Merge([generated_code |-> code, review_passed |-> FALSE,
                 semantic_passed |-> FALSE, semantic_feedback |-> FALSE,
                 missing_requirements |-> FALSE, incorrect_behaviors |-> FALSE])
    /\ pc' = "diff_generator"
    /\ UNCHANGED <<repo, task, runs, log, landed, endedAt>>

\* In symbol mode a symbol that cannot be stitched in, or comes back as it
\* was, is passed on alone: Bare.
Coder ==
    /\ pc = "coder"
    /\ \E code \in Codes :
          Merge([generated_code |-> code, iteration |-> state.iteration + 1,
                 review_passed |-> FALSE, semantic_passed |-> FALSE,
                 semantic_feedback |-> FALSE, missing_requirements |-> FALSE,
                 incorrect_behaviors |-> FALSE])
    /\ pc' = "diff_generator"
    /\ UNCHANGED <<repo, task, runs, log, landed, endedAt>>

Change(original, code) == <<original, code>>

DiffGenerator ==
    /\ pc = "diff_generator"
    /\ Merge([generated_diff |-> Change(state.original_code, state.generated_code)])
    /\ pc' = "reviewer"
    /\ UNCHANGED <<repo, task, runs, log, landed, endedAt>>

OneMoreCycle == state'.iteration > MaxCycles   \* mutant: the limit is compared with >

LimitReached == state'.iteration >= MaxCycles

\* route_after_review and route_after_semantic
Route(ok, next) ==
    IF ok THEN pc' = next /\ UNCHANGED endedAt
    ELSE IF LimitReached THEN End
    ELSE pc' = "coder" /\ UNCHANGED endedAt

Acceptable(code) == code \notin Faulty /\ ~Short(Fix[code], state.original_code)

\* Syntax, ruff --fix, ruff, length.  What ruff has fixed becomes the code.
StaticValidator ==
    /\ pc = "reviewer"
    /\ LET code == state.generated_code
       IN  IF Acceptable(code)
           THEN /\ Merge([review_passed |-> TRUE, syntax_ok |-> TRUE,
                          review_errors |-> FALSE, generated_code |-> Fix[code]])
                /\ complaint' = {}
           ELSE /\ \E syntax \in IF code \in Faulty THEN BOOLEAN ELSE {TRUE} :
                      Merge([review_passed |-> FALSE, syntax_ok |-> syntax,
                             review_errors |-> TRUE])
                /\ complaint' = {"static"}
    /\ Route(state'.review_passed, "semantic_validator")
    /\ UNCHANGED <<repo, task, runs, passed, judged, landed>>

\* A score and the lists that are not empty.  The summary is written for a
\* rejection only; it also holds the score, the risk and the unnecessary changes.
Verdict(ok, lists) ==
    [semantic_passed      |-> ok,
     semantic_feedback    |-> ~ok,
     missing_requirements |-> "missing_requirements" \in lists,
     incorrect_behaviors  |-> "incorrect_behaviors" \in lists]

\* The judge is shown the diff in the state, and says anything; what it says that
\* is no JSON is a rejection without lists.
SemanticValidator ==
    /\ pc = "semantic_validator"
    /\ judged' = Get("generated_diff")
    /\ \E lists \in SUBSET Lists :
          \/ /\ Merge(Verdict(TRUE, lists))
             /\ complaint' = {} /\ passed' = state.generated_code
          \/ /\ Merge(Verdict(FALSE, lists))
             /\ complaint' = {"semantic"} \cup lists /\ passed' = None
    /\ Route(state'.semantic_passed, "file_writer")
    /\ UNCHANGED <<repo, task, runs, landed>>

\* The diff is applied if there is one; otherwise, or if it does not apply,
\* the whole file is written.
Written ==
    IF Get("generated_diff") = None THEN {state.generated_code}
    ELSE {state.generated_code, Get("generated_diff")[2]}

\* A failure to write is noted in the state, and the run goes on.
FileWriter ==
    /\ pc = "file_writer"
    /\ \/ tree' \in Written /\ Merge([updated_code |-> state.generated_code])
       \/ UNCHANGED <<tree, state>>
    /\ pc' = "git_committer"
    /\ UNCHANGED <<head, active, index, task, runs, log, landed, endedAt>>

CommitAnywhere ==          \* mutant: the active branch is not compared
    /\ pc = "git_committer"
    /\ IF Dirty
       THEN /\ index' = tree
            /\ head' = [head EXCEPT ![active] = tree]
            /\ landed' = landed \cup {[task |-> task, branch |-> active, code |-> tree,
                                       passed |-> passed]}
            /\ Merge([commit_sha |-> TRUE])
       ELSE Merge([commit_sha |-> FALSE]) /\ UNCHANGED <<head, index, landed>>
    /\ End
    /\ UNCHANGED <<active, tree, task, runs, log>>

\* commit_file(): nothing is committed if the file is as it was.
GitCommitter ==
    /\ pc = "git_committer" /\ active = state.branch_name
    /\ IF Dirty
       THEN /\ index' = tree
            /\ head' = [head EXCEPT ![active] = tree]
            /\ landed' = landed \cup {[task |-> task, branch |-> active, code |-> tree,
                                       passed |-> passed]}
            /\ Merge([commit_sha |-> TRUE])
       ELSE Merge([commit_sha |-> FALSE]) /\ UNCHANGED <<head, index, landed>>
    /\ End
    /\ UNCHANGED <<active, tree, task, runs, log>>

\* The file is staged, and the commit fails (a hook refuses it, the process ends).
CommitFails ==
    /\ pc = "git_committer" /\ active = state.branch_name /\ Dirty
    /\ index' = tree
    /\ pc' = "idle" /\ endedAt' = pc
    /\ UNCHANGED <<head, active, tree, task, state, runs, log, landed>>

\* An exception of the node that is to run (git_committer raises on another
\* branch), or the end of the process.  Nothing is rolled back.
Abort ==
    /\ pc # "idle"
    /\ pc' = "idle"
    /\ endedAt' = IF pc = "branch_creator" THEN endedAt ELSE pc
    /\ UNCHANGED <<repo, task, state, runs, log, landed>>

-----------------------------------------------------------------------------
(* The user                                                                *)

\* git checkout: takes uncommitted changes along, or refuses.
Switch(b) ==
    /\ pc = "idle" \/ Meddling
    /\ b # active /\ head[b] # None
    /\ Dirty => head[b] \in {head[active], index}
    /\ active' = b
    /\ IF Dirty THEN UNCHANGED <<index, tree>> ELSE index' = head[b] /\ tree' = head[b]
    /\ UNCHANGED <<head, pc, task, state, runs, log, landed, endedAt>>

\* "Run `git checkout -- .` in the repository to discard the changes": those
\* that are not staged.
Discard ==
    /\ pc = "idle" /\ tree # index
    /\ tree' = index
    /\ UNCHANGED <<head, active, index, pc, task, state, runs, log, landed, endedAt>>

Node ==
    \/ BranchCreator \/ BranchRefused \/ Planner \/ FileReader \/ Coder \/ DiffGenerator
    \/ StaticValidator \/ SemanticValidator \/ FileWriter \/ GitCommitter
    \/ CommitFails \/ Abort

Next == StartRun \/ Node \/ Discard \/ \E b \in Branches : Switch(b)

\* A node ends, if only by the timeout of its model call.
Spec == Init /\ [][Next]_vars /\ WF_vars(Node)

-----------------------------------------------------------------------------
(* Properties                                                              *)

RepoType ==
    /\ head \in [Branches -> Contents \cup {None}]
    /\ active \in Branches /\ head[active] # None
    /\ {index, tree} \subseteq Contents

StateType ==
    /\ state.iteration \in 0..MaxCycles
    /\ \A key \in {"original_code", "generated_code", "updated_code"} :
          state[key] \in Contents \cup {None}

RunType ==
    /\ pc \in {"idle", "branch_creator", "planner", "file_reader", "coder", "diff_generator",
               "reviewer", "semantic_validator", "file_writer", "git_committer"}
    /\ task \in Tasks \cup {None} /\ (pc # "idle" => task \in Tasks)
    /\ pc \in {"reviewer", "semantic_validator", "file_writer"} => state.generated_code \in Codes
    /\ complaint \subseteq {"static", "semantic"} \cup Lists
    /\ runs \in 0..MaxRuns

\* Variables have their types, and the attempts are within the limit.
TypeOK == RepoType /\ StateType /\ RunType

\* git_committer.py:47: whatever the user checks out meanwhile, what the
\* workflow commits for a task lands on the branch of that task.
CommitsLandOnTaskBranch == \A c \in landed : c.branch = BranchOf[c.task]

\* What is committed is the very code that both validators have passed, in the
\* same run and the same attempt - also when ruff has changed it in between.  A
\* model that answers with the bare symbol does not get the rest of the file
\* deleted (static_validator.py:96).
CommitsAreValidated ==
    \A c \in landed : c.code = c.passed /\ c.code \notin Faulty \cup {Bare}

\* branch_manager.py:181: uncommitted changes mean that the last run that got
\* its branch was interrupted between writing the file and committing it.
DirtyMeansInterrupted == pc = "idle" /\ Dirty => endedAt = "git_committer"

\* What failure_parts of the coder's prompt say: the errors of the static
\* validator and the two lists.  The summary itself is not printed; that there is
\* one gives the part its headline.
Shown ==
    {v \in Lists \cup {"static"} :
        IF v = "static" THEN ~state.syntax_ok \/ state.review_errors ELSE state[v]}
Headline == state.semantic_feedback \/ \E v \in Lists : state[v]

\* The coder is shown what the validators have said of the code it produced last,
\* as far as its prompt has a place for it, and nothing of an older code: neither
\* a list nor a headline is left over from an earlier attempt.
FeedbackIsCurrent ==
    pc = "coder" => /\ Shown = complaint \ {"semantic"}
                    /\ Headline <=> "semantic" \in complaint

\* A run ends: the retries of the two validators share one limit.
RunEnds == pc # "idle" ~> pc = "idle"

\* semantic_validator.py:67: the judge evaluates the unified diff of the
\* change that is written.
JudgeSawTheChange ==
    pc = "file_writer" => judged = Change(state.original_code, state.generated_code)
=============================================================================
