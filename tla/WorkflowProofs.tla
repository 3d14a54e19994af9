--------------------------- MODULE WorkflowProofs ---------------------------
(***************************************************************************)
(* Theorems about Workflow, for every value of its constants.              *)
(***************************************************************************)
EXTENDS Workflow, TLAPS

-----------------------------------------------------------------------------
(* The inductive invariant                                                 *)

Starting == {"branch_creator", "planner", "file_reader"}
Unwritten == {"planner", "file_reader", "coder", "diff_generator", "reviewer",
              "semantic_validator", "file_writer"}

\* A code that may be committed.
Good(code) == code \in Codes \ Faulty /\ code # Bare

\* The flags of the state are Booleans; the runtime reads them as such.
FlagInv ==
    \A key \in Texts \cup {"review_passed", "syntax_ok", "semantic_passed"} :
        state[key] \in BOOLEAN

\* The coder runs only while the limit is not reached.
IterationInv ==
    /\ pc \in Starting => state.iteration = 0
    /\ pc = "coder" => state.iteration < MaxCycles

\* Between checking out the branch and writing the file the tree is clean, and
\* nothing but the validated code makes it dirty.
TreeInv ==
    /\ pc \in Unwritten => ~Dirty
    /\ pc = "git_committer" /\ Dirty => tree = state.generated_code
    /\ pc \in {"idle", "branch_creator"} /\ Dirty => endedAt = "git_committer"

\* The base branch stays, and a run is on the branch of its task.
BranchInv ==
    /\ head[Base] # None
    /\ pc \notin {"idle", "branch_creator"} => state.branch_name = BranchOf[task]

\* The bare symbol is nowhere in the repository, so the length check can tell.
BareInv == /\ Bare \notin {index, tree, state.original_code}
           /\ \A b \in Branches : head[b] # Bare

\* What each validator has established of the code.
CodeInv ==
    /\ pc \in {"diff_generator", "reviewer"} => state.generated_code \in Codes
    /\ pc = "semantic_validator" => Good(state.generated_code)
    /\ pc \in {"file_writer", "git_committer"} =>
          Good(state.generated_code) /\ passed = state.generated_code

\* The complaints in the state, node by node.
FeedbackInv ==
    /\ pc \in Starting => Shown = {} /\ ~Headline /\ complaint = {}
    /\ pc = "coder" => /\ Shown = complaint \ {"semantic"}
                       /\ Headline <=> "semantic" \in complaint
    /\ pc \in {"diff_generator", "reviewer", "semantic_validator"} => ~Headline
    /\ pc = "semantic_validator" => state.syntax_ok /\ ~state.review_errors

LandedInv ==
    \A c \in landed : c.branch = BranchOf[c.task] /\ c.code = c.passed /\ Good(c.code)

IInv == FlagInv /\ IterationInv /\ TreeInv /\ BranchInv /\ BareInv /\ CodeInv
        /\ FeedbackInv /\ LandedInv

Inv == TypeOK /\ IInv

-----------------------------------------------------------------------------
(* The state                                                               *)

\* A node's update replaces its keys and leaves the other declared ones.
LEMMA MergedKey ==
  ASSUME NEW update, Merge(update), NEW key \in Declared
  PROVE  state'[key] = IF key \in DOMAIN update THEN update[key] ELSE state[key]
  BY DEF Merge

\* The defaults of a new run.
LEMMA FreshState ==
  /\ Fresh.iteration = 0
  /\ Fresh.syntax_ok = TRUE
  /\ \A key \in Texts \cup {"review_passed", "semantic_passed"} : Fresh[key] = FALSE
  /\ \A key \in {"original_code", "generated_code", "updated_code", "branch_name",
                 "commit_sha"} : Fresh[key] = None
  BY DEF Fresh, Declared, Texts, Lists

\* Undeclared keys are never there.
LEMMA NoDiff == Get("generated_diff") = None
  BY DEF Get, Declared

\* What a verdict puts into the state.
LEMMA MergedVerdict ==
  ASSUME NEW ok \in BOOLEAN, NEW lists \in SUBSET Lists, Merge(Verdict(ok, lists))
  PROVE  /\ state'.semantic_passed = ok /\ state'.semantic_feedback = ~ok
         /\ \A l \in Lists : state'[l] = (l \in lists)
         /\ \A key \in Declared \ (Lists \cup {"semantic_passed", "semantic_feedback"}) :
               state'[key] = state[key]
<1>1. DOMAIN Verdict(ok, lists) = Lists \cup {"semantic_passed", "semantic_feedback"}
  BY DEF Verdict, Lists
<1>2. \A key \in Declared : state'[key] = IF key \in DOMAIN Verdict(ok, lists)
                                          THEN Verdict(ok, lists)[key] ELSE state[key]
  BY MergedKey
<1>3. /\ Verdict(ok, lists)["semantic_passed"] = ok
      /\ Verdict(ok, lists)["semantic_feedback"] = ~ok
      /\ Verdict(ok, lists)["missing_requirements"] = ("missing_requirements" \in lists)
      /\ Verdict(ok, lists)["incorrect_behaviors"] = ("incorrect_behaviors" \in lists)
  BY DEF Verdict
<1>4. Lists \cup {"semantic_passed", "semantic_feedback"} \subseteq Declared
  BY DEF Lists, Declared
<1>5. \A key \in Lists \cup {"semantic_passed", "semantic_feedback"} :
         state'[key] = Verdict(ok, lists)[key]
  BY <1>1, <1>2, <1>4
<1>6. \A l \in Lists : state'[l] = (l \in lists)
  BY <1>3, <1>5, Zenon DEF Lists
<1>7. state'["semantic_passed"] = ok /\ state'["semantic_feedback"] = ~ok
  BY <1>3, <1>5, Zenon
<1> QED
  BY <1>1, <1>2, <1>6, <1>7

-----------------------------------------------------------------------------
(* The steps                                                               *)

\* A repository at rest satisfies the invariant.
LEMMA InitInv == Init => Inv
<1> SUFFICES ASSUME Init PROVE Inv
  OBVIOUS
<1>1. TypeOK
  BY FreshState, WorkflowAssumption
     DEF Init, TypeOK, RepoType, StateType, RunType, Branches, Contents
<1>2. FlagInv /\ IterationInv /\ BranchInv /\ CodeInv /\ LandedInv
  BY FreshState, WorkflowAssumption
     DEF Init, FlagInv, IterationInv, BranchInv, CodeInv, LandedInv, Starting, Branches,
         Contents
<1>3. TreeInv
  BY DEF Init, TreeInv, Dirty, Unwritten, Branches
<1>4. BareInv
  BY FreshState, WorkflowAssumption DEF Init, BareInv, Contents
<1>5. FeedbackInv
  BY DEF Init, FeedbackInv, Starting
<1> QED
  BY <1>1, <1>2, <1>3, <1>4, <1>5 DEF Inv, IInv

\* A new run starts from a fresh state.
LEMMA StartRunInv == Inv /\ StartRun => Inv'
<1> SUFFICES ASSUME Inv, StartRun PROVE Inv'
  OBVIOUS
<1> USE DEF StartRun, repo, Inv, IInv
<1>1. TypeOK'
  BY FreshState, WorkflowAssumption DEF TypeOK, RepoType, StateType, RunType, Contents
<1>2. (FlagInv /\ IterationInv /\ BranchInv /\ CodeInv /\ LandedInv)'
  BY FreshState DEF FlagInv, IterationInv, BranchInv, CodeInv, LandedInv, Starting
<1>3. TreeInv'
  BY DEF TreeInv, Dirty, Unwritten
<1>4. BareInv'
  BY FreshState, WorkflowAssumption DEF BareInv, Contents
<1>5. FeedbackInv'
  BY FreshState DEF FeedbackInv, Starting, Shown, Headline, Texts, Lists
<1> QED
  BY <1>1, <1>2, <1>3, <1>4, <1>5

\* Checking out the branch of the task leaves the tree clean.
LEMMA BranchCreatorInv == Inv /\ BranchCreator => Inv'
<1> SUFFICES ASSUME Inv, BranchCreator PROVE Inv'
  OBVIOUS
<1> USE DEF Inv, IInv
<1>1. \E b \in Branches, h \in [Branches -> Contents \cup {None}] :
          /\ b = BranchOf[task] /\ head' = h /\ active' = b /\ index' = h[b] /\ tree' = h[b]
          /\ h[b] \in Contents \ {Bare} /\ h[Base] # None
          /\ \A c \in Branches : h[c] # Bare
          /\ Merge([branch_name |-> b])
  <2> DEFINE b == BranchOf[task]
             h == [head EXCEPT ![b] = IF head[b] = None THEN head[Base] ELSE head[b]]
  <2>1. b \in Branches /\ Base \in Branches
    BY DEF BranchCreator, TypeOK, RunType, Branches
  <2>2. head \in [Branches -> Contents \cup {None}] /\ head[Base] # None
    BY DEF TypeOK, RepoType, BranchInv
  <2>3. /\ h \in [Branches -> Contents \cup {None}]
        /\ h[b] \in Contents \ {Bare} /\ h[Base] # None
        /\ \A c \in Branches : h[c] # Bare
    BY <2>1, <2>2 DEF BareInv
  <2>4. head' = h /\ active' = b /\ index' = h[b] /\ tree' = h[b] /\ Merge([branch_name |-> b])
    BY DEF BranchCreator
  <2> QED
    BY <2>1, <2>3, <2>4
<1>2. RepoType'
  BY <1>1 DEF RepoType, Branches, TypeOK, RunType, BranchCreator
<1>3. StateType'
  BY <1>1, MergedKey DEF TypeOK, StateType, Declared
<1>4. RunType'
  BY DEF BranchCreator, TypeOK, RunType, log
<1>5. (FlagInv /\ IterationInv /\ CodeInv /\ LandedInv)'
  BY <1>1, MergedKey
     DEF BranchCreator, FlagInv, IterationInv, CodeInv, LandedInv, Texts, Lists, Declared,
         Starting, log
<1>6. TreeInv'
  BY <1>1 DEF BranchCreator, TreeInv, Dirty
<1>7. BranchInv'
  BY <1>1, MergedKey DEF BranchCreator, BranchInv, Declared
<1>8. BareInv'
  BY <1>1, MergedKey DEF BranchCreator, BareInv, Declared
<1>9. FeedbackInv'
  BY <1>1, MergedKey
     DEF BranchCreator, FeedbackInv, Shown, Headline, Texts, Lists, Declared, Starting, log
<1> QED
  BY <1>2, <1>3, <1>4, <1>5, <1>6, <1>7, <1>8, <1>9 DEF TypeOK

\* A run that is refused its branch changes nothing.
LEMMA BranchRefusedInv == Inv /\ BranchRefused => Inv'
  BY WorkflowAssumption
     DEF BranchRefused, Inv, IInv, TypeOK, RepoType, StateType, RunType, FlagInv,
         IterationInv, TreeInv, BranchInv, BareInv, CodeInv, FeedbackInv, LandedInv, Dirty,
         Shown, Headline, Texts, Lists, Starting, Unwritten, repo, log

\* Planning changes nothing but where the run is.
LEMMA PlannerInv == Inv /\ Planner => Inv'
  BY WorkflowAssumption
     DEF Planner, Inv, IInv, TypeOK, RepoType, StateType, RunType, FlagInv, IterationInv,
         TreeInv, BranchInv, BareInv, CodeInv, FeedbackInv, LandedInv, Dirty, Shown,
         Headline, Texts, Lists, Starting, Unwritten, repo, log, End

\* What is read is what is committed on the branch.
LEMMA FileReaderInv == Inv /\ FileReader => Inv'
<1> SUFFICES ASSUME Inv, FileReader PROVE Inv'
  OBVIOUS
<1> USE DEF Inv, IInv
<1>1. Merge([original_code |-> tree])
  BY DEF FileReader
<1>2. (RepoType /\ RunType)'
  BY DEF FileReader, TypeOK, RepoType, RunType, log, repo
<1>3. StateType'
  BY <1>1, MergedKey DEF TypeOK, RepoType, StateType, Declared
<1>4. (FlagInv /\ IterationInv /\ BranchInv /\ CodeInv /\ LandedInv)'
  BY <1>1, MergedKey, WorkflowAssumption
     DEF FileReader, FlagInv, IterationInv, BranchInv, CodeInv, LandedInv, Texts, Lists,
         Declared, Starting, log, repo
<1>5. TreeInv'
  BY DEF FileReader, TreeInv, Dirty, Unwritten, repo
<1>6. BareInv'
  BY <1>1, MergedKey DEF FileReader, BareInv, Declared, repo
<1>7. FeedbackInv'
  BY <1>1, MergedKey
     DEF FileReader, FeedbackInv, Shown, Headline, Texts, Lists, Declared, Starting, log
<1> QED
  BY <1>2, <1>3, <1>4, <1>5, <1>6, <1>7 DEF TypeOK

\* The coder counts the attempt and clears the feedback.
LEMMA CoderInv == Inv /\ Coder => Inv'
<1> SUFFICES ASSUME Inv, Coder PROVE Inv'
  OBVIOUS
<1> USE DEF Inv, IInv
<1>1. \E code \in Codes :
          Merge([generated_code |-> code, iteration |-> state.iteration + 1,
                 review_passed |-> FALSE, semantic_passed |-> FALSE,
                 semantic_feedback |-> FALSE, missing_requirements |-> FALSE,
                 incorrect_behaviors |-> FALSE])
  BY DEF Coder
<1>2. (RepoType /\ RunType)'
  BY DEF Coder, TypeOK, RepoType, RunType, log, repo
<1>3. StateType'
  <2>1. state'.iteration = state.iteration + 1 /\ state.iteration < MaxCycles
    BY <1>1, MergedKey DEF Coder, IterationInv, Declared
  <2>2. state'.iteration \in 0..MaxCycles
    BY <2>1, WorkflowAssumption DEF TypeOK, StateType
  <2>3. \A key \in {"original_code", "generated_code", "updated_code"} :
           state'[key] \in Contents \cup {None}
    BY <1>1, MergedKey DEF TypeOK, StateType, Declared, Contents
  <2> QED
    BY <2>2, <2>3 DEF StateType
<1>4. FlagInv'
  <2>1. /\ state'.review_passed = FALSE /\ state'.semantic_passed = FALSE
        /\ state'.semantic_feedback = FALSE
        /\ state'.missing_requirements = FALSE /\ state'.incorrect_behaviors = FALSE
    BY <1>1, MergedKey DEF Declared
  <2>2. state'.syntax_ok = state.syntax_ok /\ state'.review_errors = state.review_errors
    BY <1>1, MergedKey DEF Declared
  <2> QED
    BY <2>1, <2>2, Zenon DEF FlagInv, Texts, Lists
<1>5. CodeInv'
  BY <1>1, MergedKey DEF Coder, CodeInv, Declared
<1>6. LandedInv'
  BY DEF Coder, LandedInv
<1>7. (IterationInv /\ BranchInv)'
  BY <1>1, MergedKey DEF Coder, IterationInv, BranchInv, Starting, Declared, repo
<1>8. TreeInv'
  BY DEF Coder, TreeInv, Dirty, Unwritten, repo
<1>9. BareInv'
  BY <1>1, MergedKey DEF Coder, BareInv, Declared, repo
<1>10. FeedbackInv'
  BY <1>1, MergedKey
     DEF Coder, FeedbackInv, Shown, Headline, Texts, Lists, Declared, Starting, log
<1> QED
  BY <1>2, <1>3, <1>4, <1>5, <1>6, <1>7, <1>8, <1>9, <1>10 DEF TypeOK

\* The diff is dropped.
LEMMA DiffGeneratorInv == Inv /\ DiffGenerator => Inv'
<1> SUFFICES ASSUME Inv, DiffGenerator PROVE Inv'
  OBVIOUS
<1> USE DEF Inv, IInv
<1>1. \A key \in Declared : state'[key] = state[key]
  BY MergedKey DEF DiffGenerator, Declared
<1>2. (RepoType /\ RunType)'
  BY <1>1 DEF DiffGenerator, TypeOK, RepoType, RunType, CodeInv, Declared, log, repo
<1>3. StateType'
  BY <1>1 DEF TypeOK, StateType, Declared
<1>4. (FlagInv /\ IterationInv /\ BranchInv /\ CodeInv /\ LandedInv)'
  BY <1>1
     DEF DiffGenerator, FlagInv, IterationInv, BranchInv, CodeInv, LandedInv, Texts, Lists,
         Declared, Starting, log, repo
<1>5. TreeInv'
  BY DEF DiffGenerator, TreeInv, Dirty, Unwritten, repo
<1>6. BareInv'
  BY <1>1 DEF DiffGenerator, BareInv, Declared, repo
<1>7. FeedbackInv'
  BY <1>1
     DEF DiffGenerator, FeedbackInv, Shown, Headline, Texts, Lists, Declared, Starting, log
<1> QED
  BY <1>2, <1>3, <1>4, <1>5, <1>6, <1>7 DEF TypeOK

\* A code the static validator passes is free of faults and no bare symbol; a code it
\* rejects goes back with its complaint, unless the limit is reached.
LEMMA StaticValidatorInv == Inv /\ StaticValidator => Inv'
<1> SUFFICES ASSUME Inv, StaticValidator PROVE Inv'
  OBVIOUS
<1> USE DEF Inv, IInv
<1>1. /\ state.generated_code \in Codes /\ pc = "reviewer"
      /\ \A key \in {"iteration", "original_code", "updated_code", "semantic_passed",
                       "semantic_feedback", "missing_requirements", "incorrect_behaviors",
                       "branch_name"} : state'[key] = state[key]
      /\ \/ /\ Acceptable(state.generated_code)
            /\ state'.review_passed = TRUE /\ state'.review_errors = FALSE
            /\ state'.syntax_ok = TRUE /\ complaint' = {}
            /\ state'.generated_code = Fix[state.generated_code]
         \/ /\ ~Acceptable(state.generated_code)
            /\ state'.review_passed = FALSE /\ state'.review_errors = TRUE
            /\ state'.syntax_ok \in BOOLEAN /\ complaint' = {"static"}
            /\ state'.generated_code = state.generated_code
  <2>1. state.generated_code \in Codes /\ pc = "reviewer"
    BY DEF StaticValidator, TypeOK, RunType
  <2>2. CASE Acceptable(state.generated_code)
    <3>1. Merge([review_passed |-> TRUE, syntax_ok |-> TRUE, review_errors |-> FALSE,
                 generated_code |-> Fix[state.generated_code]])
          /\ complaint' = {}
      BY <2>2 DEF StaticValidator
    <3> QED
      BY <2>1, <2>2, <3>1, MergedKey DEF Declared
  <2>3. CASE ~Acceptable(state.generated_code)
    <3>1. PICK syntax \in BOOLEAN :
             Merge([review_passed |-> FALSE, syntax_ok |-> syntax, review_errors |-> TRUE])
      BY <2>3, Zenon DEF StaticValidator
    <3>2. complaint' = {"static"}
      BY <2>3 DEF StaticValidator
    <3>3. /\ \A key \in {"iteration", "original_code", "updated_code", "semantic_passed",
                           "semantic_feedback", "missing_requirements",
                           "incorrect_behaviors", "branch_name", "generated_code"} :
                state'[key] = state[key]
          /\ state'.review_passed = FALSE /\ state'.review_errors = TRUE
          /\ state'.syntax_ok = syntax
      BY <3>1, MergedKey DEF Declared
    <3> QED
      BY <2>1, <2>3, <3>2, <3>3, Zenon
  <2> QED
    BY <2>2, <2>3
<1>2. RepoType'
  BY DEF StaticValidator, TypeOK, RepoType, repo
<1>3. StateType'
  <2>1. Fix[state.generated_code] \in Codes
    BY <1>1, WorkflowAssumption
  <2> QED
    BY <1>1, <2>1 DEF TypeOK, StateType, Contents
<1>4. RunType'
  BY <1>1, WorkflowAssumption DEF StaticValidator, Route, End, TypeOK, RunType, Acceptable
<1>5. FlagInv'
  BY <1>1, Zenon DEF FlagInv, Texts, Lists
<1>6. IterationInv'
  BY <1>1, WorkflowAssumption
     DEF StaticValidator, Route, End, LimitReached, IterationInv, TypeOK, StateType,
         Starting
<1>7. TreeInv'
  BY <1>1 DEF StaticValidator, Route, End, TreeInv, Dirty, Unwritten, repo
<1>8. (BranchInv /\ BareInv)'
  BY <1>1 DEF StaticValidator, Route, End, BranchInv, BareInv, repo
<1>9. CodeInv'
  BY <1>1, WorkflowAssumption
     DEF StaticValidator, Route, End, CodeInv, Good, Acceptable, Short, BareInv
<1>10. FeedbackInv'
  BY <1>1
     DEF StaticValidator, Route, End, FeedbackInv, Shown, Headline, Texts, Lists, Starting
<1>11. LandedInv'
  BY DEF StaticValidator, LandedInv
<1> QED
  BY <1>2, <1>3, <1>4, <1>5, <1>6, <1>7, <1>8, <1>9, <1>10, <1>11 DEF TypeOK

\* What the judge passes is what it was asked about.
LEMMA SemanticValidatorInv == Inv /\ SemanticValidator => Inv'
<1> SUFFICES ASSUME Inv, SemanticValidator PROVE Inv'
  OBVIOUS
<1> USE DEF Inv, IInv
<1>1. /\ \A key \in {"iteration", "original_code", "generated_code", "updated_code",
                       "review_passed", "syntax_ok", "review_errors", "branch_name"} :
            state'[key] = state[key]
      /\ \E lists \in SUBSET Lists :
            /\ \A l \in Lists : state'[l] = (l \in lists)
            /\ \/ /\ state'.semantic_passed = TRUE /\ state'.semantic_feedback = FALSE
                  /\ complaint' = {} /\ passed' = state.generated_code
               \/ /\ state'.semantic_passed = FALSE /\ state'.semantic_feedback = TRUE
                  /\ complaint' = {"semantic"} \cup lists /\ passed' = None
  <2>1. PICK lists \in SUBSET Lists :
           \/ /\ Merge(Verdict(TRUE, lists))
              /\ complaint' = {} /\ passed' = state.generated_code
           \/ /\ Merge(Verdict(FALSE, lists))
              /\ complaint' = {"semantic"} \cup lists /\ passed' = None
    BY DEF SemanticValidator
  <2>2. CASE /\ Merge(Verdict(TRUE, lists))
             /\ complaint' = {} /\ passed' = state.generated_code
    BY <2>2, MergedVerdict DEF Declared, Lists
  <2>3. CASE /\ Merge(Verdict(FALSE, lists))
             /\ complaint' = {"semantic"} \cup lists /\ passed' = None
    BY <2>3, MergedVerdict DEF Declared, Lists
  <2> QED
    BY <2>1, <2>2, <2>3
<1>2. RepoType'
  BY DEF SemanticValidator, TypeOK, RepoType, repo
<1>3. StateType'
  BY <1>1 DEF TypeOK, StateType
<1>4. RunType'
  BY <1>1 DEF SemanticValidator, Route, End, TypeOK, RunType
<1>5. FlagInv'
  <2>1. /\ state'.semantic_passed \in BOOLEAN /\ state'.semantic_feedback \in BOOLEAN
        /\ \A l \in Lists : state'[l] \in BOOLEAN
    <3>1. PICK lists \in SUBSET Lists :
             /\ \A l \in Lists : state'[l] = (l \in lists)
             /\ \/ state'.semantic_passed = TRUE /\ state'.semantic_feedback = FALSE
                \/ state'.semantic_passed = FALSE /\ state'.semantic_feedback = TRUE
      BY <1>1, Zenon
    <3>2. \A l \in Lists : (l \in lists) \in BOOLEAN
      OBVIOUS
    <3>3. \A l \in Lists : state'[l] \in BOOLEAN
      BY <3>1, <3>2
    <3> QED
      BY <3>1, <3>3, Zenon
  <2>2. \A key \in {"review_passed", "syntax_ok", "review_errors"} : state'[key] = state[key]
    BY <1>1
  <2> QED
    BY <2>1, <2>2, Zenon DEF FlagInv, Texts
<1>6. IterationInv'
  BY <1>1, WorkflowAssumption
     DEF SemanticValidator, Route, End, LimitReached, IterationInv, TypeOK, StateType,
         Starting
<1>7. TreeInv'
  BY <1>1 DEF SemanticValidator, Route, End, TreeInv, Dirty, Unwritten, repo
<1>8. (BranchInv /\ BareInv)'
  BY <1>1 DEF SemanticValidator, Route, End, BranchInv, BareInv, repo
<1>9. CodeInv'
  BY <1>1 DEF SemanticValidator, Route, End, CodeInv
<1>10. FeedbackInv'
  BY <1>1
     DEF SemanticValidator, Route, End, FeedbackInv, Shown, Headline, Texts, Lists, Starting
<1>11. LandedInv'
  BY DEF SemanticValidator, LandedInv
<1> QED
  BY <1>2, <1>3, <1>4, <1>5, <1>6, <1>7, <1>8, <1>9, <1>10, <1>11 DEF TypeOK

\* The file is written whole, or not at all.
LEMMA FileWriterInv == Inv /\ FileWriter => Inv'
<1> SUFFICES ASSUME Inv, FileWriter PROVE Inv'
  OBVIOUS
<1> USE DEF Inv, IInv
<1>1. /\ \/ tree' = state.generated_code
         \/ tree' = tree
      /\ \A key \in Declared \ {"updated_code"} : state'[key] = state[key]
      /\ state'.updated_code \in {state.updated_code, state.generated_code}
  BY MergedKey, NoDiff DEF FileWriter, Written, Declared
<1>2. (RepoType /\ RunType)'
  BY <1>1 DEF FileWriter, TypeOK, RepoType, RunType, Contents, log
<1>3. StateType'
  BY <1>1 DEF FileWriter, TypeOK, StateType, RunType, Contents, Declared
<1>4. FlagInv'
  BY <1>1, Zenon DEF FlagInv, Texts, Lists, Declared
<1>5. (IterationInv /\ BranchInv /\ BareInv)'
  BY <1>1
     DEF FileWriter, IterationInv, BranchInv, BareInv, CodeInv, Good, Starting, Declared
<1>6. TreeInv'
  BY <1>1 DEF FileWriter, TreeInv, Dirty, Unwritten, Declared
<1>7. CodeInv'
  BY <1>1 DEF FileWriter, CodeInv, Declared, log
<1>8. FeedbackInv'
  BY DEF FileWriter, FeedbackInv, Starting
<1>9. LandedInv'
  BY DEF FileWriter, LandedInv
<1> QED
  BY <1>2, <1>3, <1>4, <1>5, <1>6, <1>7, <1>8, <1>9 DEF TypeOK

\* What is committed is on the branch of the task, and it is the code that passed.
LEMMA GitCommitterInv == Inv /\ GitCommitter => Inv'
<1> SUFFICES ASSUME Inv, GitCommitter PROVE Inv'
  OBVIOUS
<1> USE DEF Inv, IInv
<1>1. /\ pc = "git_committer" /\ pc' = "idle" /\ active = BranchOf[task]
      /\ \A key \in Declared \ {"commit_sha"} : state'[key] = state[key]
  BY MergedKey DEF GitCommitter, End, BranchInv, Declared
<1>2. RepoType'
  BY WorkflowAssumption DEF GitCommitter, TypeOK, RepoType
<1>3. (StateType /\ RunType)'
  BY <1>1 DEF GitCommitter, TypeOK, StateType, RunType, Declared, log
<1>4. FlagInv'
  BY <1>1, Zenon DEF FlagInv, Texts, Lists, Declared
<1>5. (IterationInv /\ CodeInv /\ FeedbackInv)'
  BY <1>1 DEF IterationInv, CodeInv, FeedbackInv, Starting
<1>6. TreeInv'
  BY <1>1 DEF GitCommitter, End, TreeInv, Dirty, Unwritten, TypeOK, RepoType
<1>7. (BranchInv /\ BareInv)'
  BY <1>1, WorkflowAssumption
     DEF GitCommitter, BranchInv, BareInv, TypeOK, RepoType, Branches, Contents, Declared
<1>8. LandedInv'
  BY <1>1 DEF GitCommitter, LandedInv, TreeInv, CodeInv
<1> QED
  BY <1>2, <1>3, <1>4, <1>5, <1>6, <1>7, <1>8 DEF TypeOK

\* A commit that fails leaves the file staged.
LEMMA CommitFailsInv == Inv /\ CommitFails => Inv'
  BY WorkflowAssumption
     DEF CommitFails, Inv, IInv, TypeOK, RepoType, StateType, RunType, FlagInv,
         IterationInv, TreeInv, BranchInv, BareInv, CodeInv, FeedbackInv, LandedInv, Dirty,
         Shown, Headline, Texts, Lists, Starting, Unwritten, repo, log

\* A run may end anywhere.
LEMMA AbortInv == Inv /\ Abort => Inv'
  BY WorkflowAssumption
     DEF Abort, Inv, IInv, TypeOK, RepoType, StateType, RunType, FlagInv, IterationInv,
         TreeInv, BranchInv, BareInv, CodeInv, FeedbackInv, LandedInv, Dirty, Shown,
         Headline, Texts, Lists, Starting, Unwritten, repo, log

\* A checkout takes uncommitted changes along or finds none.
LEMMA SwitchInv == ASSUME NEW b \in Branches PROVE Inv /\ Switch(b) => Inv'
  BY DEF Switch, Inv, IInv, TypeOK, RepoType, StateType, RunType, FlagInv, IterationInv,
         TreeInv, BranchInv, BareInv, CodeInv, FeedbackInv, LandedInv, Dirty, Shown,
         Headline, Texts, Lists, Starting, Unwritten, log

\* What is discarded was not staged.
LEMMA DiscardInv == Inv /\ Discard => Inv'
  BY WorkflowAssumption
     DEF Discard, Inv, IInv, TypeOK, RepoType, StateType, RunType, FlagInv, IterationInv,
         TreeInv, BranchInv, BareInv, CodeInv, FeedbackInv, LandedInv, Dirty, Shown,
         Headline, Texts, Lists, Starting, Unwritten, repo, log

\* The invariant is a predicate of the variables alone.
LEMMA StutterInv == Inv /\ UNCHANGED vars => Inv'
  BY DEF vars, Inv, IInv, TypeOK, RepoType, StateType, RunType, FlagInv, IterationInv,
         TreeInv, BranchInv, BareInv, CodeInv, FeedbackInv, LandedInv, Dirty, Shown,
         Headline, Texts, Lists, repo, log

-----------------------------------------------------------------------------
(* The theorems                                                            *)

\* The inductive invariant, for any tasks, codes, faults and limits, with and
\* without a user who switches branches during a run.
THEOREM Invariance == Spec => []Inv
<1>1. Inv /\ [Next]_vars => Inv'
  BY StartRunInv, BranchCreatorInv, BranchRefusedInv, PlannerInv, FileReaderInv, CoderInv,
     DiffGeneratorInv, StaticValidatorInv, SemanticValidatorInv, FileWriterInv,
     GitCommitterInv, CommitFailsInv, AbortInv, SwitchInv, DiscardInv, StutterInv
     DEF Next, Node
<1> QED
  BY InitInv, <1>1, PTL DEF Spec

\* Variables have their types, and no run makes more attempts than the limit.
THEOREM TypeCorrect == Spec => []TypeOK
  BY Invariance, PTL DEF Inv

\* git_committer.py:47: a commit for a task lands on the branch of that task.
THEOREM RightBranch == Spec => []CommitsLandOnTaskBranch
<1>1. Inv => CommitsLandOnTaskBranch
  BY DEF Inv, IInv, LandedInv, CommitsLandOnTaskBranch
<1> QED
  BY Invariance, <1>1, PTL

\* What is committed is the code that both validators have passed, and never the
\* bare symbol in place of the file (static_validator.py:96).
THEOREM OnlyValidated == Spec => []CommitsAreValidated
<1>1. Inv => CommitsAreValidated
  BY DEF Inv, IInv, LandedInv, Good, CommitsAreValidated
<1> QED
  BY Invariance, <1>1, PTL

\* branch_manager.py:181: only a run that was interrupted between writing and
\* committing leaves uncommitted changes.
THEOREM OnlyInterruptedDirty == Spec => []DirtyMeansInterrupted
<1>1. Inv => DirtyMeansInterrupted
  BY DEF Inv, IInv, TreeInv, DirtyMeansInterrupted
<1> QED
  BY Invariance, <1>1, PTL

\* What the coder's prompt shows of a verdict is of its last code: the errors of the
\* static validator, or a headline with the judge's two lists (coder.py:167-195).
THEOREM FeedbackIsOfLastCode == Spec => []FeedbackIsCurrent
<1>1. Inv => FeedbackIsCurrent
  BY DEF Inv, IInv, FeedbackInv, FeedbackIsCurrent
<1> QED
  BY Invariance, <1>1, PTL

=============================================================================
