# A verification project for Locally-driven-LLM

The program is an asyncio service. Slack commands and a cron schedule put tasks
into a queue; a scheduler executes them; the task that matters most is the
*embedding pipeline*, which extracts every function of a repository, embeds and
describes it with local models, and keeps one node per function and the
similarity edges between them in Neo4j. Queries and reports read that graph. An
older LangGraph *edit workflow* (retrieve, plan, write code, validate, commit) is
kept beside it.

Paths below are relative to the repository, with its Python package at `src/`.

## Inventory

| part | code | state | operations | what must hold | module |
|---|---|---|---|---|---|
| execution loop, queue | `src/scheduler/{loop,queue,task}.py` | FIFO queue, `_started`, `_consumer_task`, mutation lock, background tasks | `start`, `submit_task`, `stop`, `run`, `enqueue`, `_consume` | one active task at a time, in order; no task lost or run twice; an orderly shutdown; the queue is served | `ExecutionLoop`, `TaskService` |
| dispatcher | `src/scheduler/dispatcher.py` | what a task has open | `execute`: query, pipeline, report | resources closed; failures reported | `Dispatcher` |
| Slack notifier | `api/slack_notifier.py` | the thread and the channel message of the run | post, update, reply, upload | the thread of a run tells its outcome, and no other run's | `Dispatcher` |
| process lifecycle | `main.py`, `cron_trigger.py`, `api/slack_socket.py` | the loop, the cron task, the socket | start, serve, shut down | everything is stopped, whatever fails; commands and scheduled runs are executed | `Service` |
| embedding pipeline | `src/pipeline/{pipeline,checkpoint}.py`, `graph/store.py` | Function nodes, SIMILAR_TO edges, checkpoint files; the records of the run | 12 stages; save, load, clear; upsert, delete | the store follows the repository; a crash costs no finished work and leaves nothing wrong | `Pipeline` |
| model services | `embeddings/service.py`, `descriptions/service.py` | fields of the records | batches of concurrent model calls | a failing record does not stop the batch; the load is bounded | `BatchStage` |
| extraction, similarity | `extraction/*.py`, `graph/similarity.py`, `graph/store.py` | none | ids; neighbours, threshold, deduplication | ids identify; one edge per similar pair | `SimilarityGraph`, `Report` |
| semantic query | `query.py` | reads the graph, without the lock | `search` | nothing near is missed, nothing gone is shown | `SimilarityGraph`, `Report` |
| reports | `reporting/*` | the report files | report | the numbers add up; compared with the right predecessor | `SimilarityGraph`, `Report` |
| edit workflow | `src/graph/*`, `scheduler/executor.py` | the workflow state, the working tree | 10 nodes, 3 routes | what is committed was validated; retries end | `Workflow` |
| git | `src/git/*` | branches, working tree, index | sync, branch, commit, push | a crash leaves a tree the next task can use | `Workflow` |
| graph resolver | `graph/nodes/graph_resolver.py`, `graphify_indexer.py` | graph file and metadata file | validate, rebuild, fall back | a graph is used only with its own metadata | `GraphResolver` |
| retrieval, budget | `graph/nodes/retrieval_node.py`, `src/retrieval/*` | none | query, rank, trim | the context fits the budget, and says what it leaves out | `ContextSelection`, `Retrieval` |
| patches, files, config, logging, scripts | `src/tools`, `src/core`, `src/observability`, `scripts` | files | apply, write | | |

How they interact: Slack's handlers and the cron trigger call `enqueue` of the
queue; the loop's consumer takes a task and awaits the dispatcher, under the lock
when the task writes; the dispatcher opens a pipeline or a query service, drives a
notifier, and closes everything; the pipeline writes checkpoint files and the
database, which queries and reports read. The edit workflow shares with these
only the configuration, and with other processes the store of knowledge graphs.

What is hard: coroutines interleave at every `await`; cancellation reaches a
consumer while it waits for the lock or executes; `stop()` and `start()` may
overlap; a pipeline run may end anywhere and its two stores, the database and
the checkpoint files, are not written together; model calls fail one by one;
descriptions end in any order while the progress is being saved; a call to Slack
may take effect and its answer be lost; a search reads while a run writes; two
processes build the same graph. The list of hazards, each at its line, with the
properties that answer it, is in `PROJECT.json`.

## The scheduler

**`ExecutionLoop.tla`** models `loop.py` and `queue.py`. A step is what one
coroutine does between two points of suspension. Each variable is named after
the attribute it stands for; `pc` says where a `_consume()` coroutine is
suspended: `get` (in `queue.dequeue()`), `lock` (waiting for the mutation lock),
`execute` (in `executor.execute()`), or how it ended. `stopPc` does the same for
the calls of `stop()`. The asyncio lock is modelled as the library behaves: a
FIFO of waiters, and a fast path when it is free and only cancelled waiters are
ahead. `main.py`, the Slack handlers and the cron trigger are the callers:
`Start`, `Enqueue`, `SubmitTask`, `Stop`. `run()` is `start()` followed by
`stop()`. Passive tasks always end by the done callback, so whether they failed
makes no difference.

Two details carry most of the difficulty. `stop()` is split at its two awaits,
so that anything may happen between `_started = False` and
`_consumer_task = None`. And `cancel()` only marks a consumer: it unwinds its
execution, under the lock, at its own pace.

**`TaskService.tla`** is what the scheduler promises: tasks are submitted; an
active one may begin only when none runs and no older active one still waits
(`before` is the order of submission among the pending tasks); each ends once.
`ExecutionLoop` implements it by the refinement mapping `taskStatus`, `submitted`,
`waitOrder`. The mapping is not immediate: a task whose consumer was cancelled
while it waited for the lock is lost from the moment of the cancellation
(`GivenUp`), not from the later one in which the consumer unwinds, since a task
behind it may begin in between. The process of `main.py` (`Service`, below)
implements it too, with its own queue and with real executions in place of the
loop's.

The history variable `overlapped` notes that somebody has started the loop while a
`stop()` was suspended. `main.py` never does; the class does not forbid it, and then
`stop()` forgets the consumer that was started meanwhile. `OneConsumer`,
`NothingDropped` and `OrderlyShutdown` hold until it happens, everything else
holds after it too.

| run | shows |
|---|---|
| `LoopGeneral` | a failing task, 3 active and 1 passive tasks, 3 consumers, 2 stops: exclusion, conservation, the refinement, and liveness; without an overlap one consumer, nothing dropped, orderly shutdown |
| `LoopFailure` | finding: an active task that raises ends the consumer for good |

Bounds: three consumers are enough for one that unwinds, one that waits for the
lock and one that still dequeues; two stops for a stop that overlaps another or
follows one; three active tasks for one running, one waiting and one queued.
The system may stop when the bounds are used up, so deadlock is not checked.

Fairness: weak fairness of each consumer, background task and suspended
`stop()`, because the event loop runs every ready coroutine and every model call
has a timeout. No fairness on callers. Weak fairness of `Consume` makes an
execution end somehow; it does not oblige it to succeed.

## The process

**`Dispatcher.tla`** is `execute()` of one task, await by await: the kinds of task
(`query`, `pipeline`, `quiet` for a pipeline without report, `report`), what each
opens and the order in which it is closed, the constructors before the try block,
one of which may raise after another, the errors that are swallowed and those that
are not, and the notifier of the run: its channel message (`root`), its
thread, its replies. Every call to Slack has three outcomes: it answers, it is
refused, or it takes effect and its answer is lost. A cancellation is delivered at
the await where the coroutine is suspended, and runs the handlers from there.

**`Service.tla`** EXTENDS it and is the process of `main.py`: start-up, the cron
loop with its notice, the handlers of the socket up to their enqueue, the one
consumer that `main()` gives the loop, the shutdown step by step, and the
cancellation by `asyncio.run` of whatever is left. There are two ways through it.
Without Slack's tokens `start_socket_mode` returns, `serve()` runs until the
process is asked to stop, and the `finally` block of `main()` stops the cron task,
the consumer and the queries in this order. With tokens `main()` awaits slack_bolt's
`start_async()`, which connects and does not return: commands are served from
there, and an interrupt cancels `main()` before its try block (`Interrupt`), so
that everything is left to `asyncio.run`. `ExecutionLoop` models the
loop in more detail and by itself; here it is one consumer (`OwnerInvariance`
below is why that is enough).

| run | shows |
|---|---|
| `ServiceGeneral` | one scheduled run and one slash command of any kind: the process is a `TaskService` (`ImplementsTaskService`), everything opened is closed unless a constructor or a close failed (`ReleasedWhenDone`), Slack's account of a run is true (`SlackTellsTheRun`), an announced run is enqueued (`NoticeBringsRun`), nothing is left running after an orderly shutdown (`NothingLeftRunning`), the process ends however `main()` does (`ProcessEnds`), and an acknowledged command is executed (`AcksHonoured`) |

What the model shows beside the run: with both tokens the server of `main.py:42`
is never started, since `main()` does not get past the connection of the socket
(`slack_socket.py:108`); only an interrupt leaves `Connect`. docs/guides/slack.md:122
shows the log line that follows the connection, and services.md:47-53 the health
check of the server; neither comes.

Bounds: one scheduled run and one command are two tasks that meet in every order,
as query beside a run, as run behind a run, and as report; two resources each
are a close that succeeds before or after one that fails, and a constructor that
raises after another.

Fairness: weak, of `main()`, the cron loop, the consumer and each execution, as
every awaited call has a time limit. None of commands, the clock, an interrupt, or the
end of `serve()`.

The properties name their exceptions, and these are facts of the code: `stop()`
raises what the cron task or the consumer had died of and skips the rest of the
shutdown (`loop.py:51`, `cron_trigger.py`); a constructor that raises leaves open
what those before it opened (`dispatcher.py:61-66`); a command acknowledged before
an interrupt need not be executed, nor one enqueued after it; a failed pull leaves
the old source, is announced, and the run goes on. A sync that skips a dirty tree
is announced as an update. Not modelled: a kill, after which nothing of the
process remains, and a restart, which begins as `Init` does, the queue being
memory; uvicorn, which raises the signal it caught again after `serve()`, may end
the process before the `finally` of `main()`. `faults` is the record of what went
wrong, by which the properties tell a failing Slack from a failing close.

## The pipeline

**`Pipeline.tla`** models a sequence of runs of `EmbeddingPipeline` over one
repository. `node`, `edges` and `checkpoint` survive a run; everything else is
the memory of the process. The stages are actions: `Extract` (2), `Plan` (3-4
and the restoring of a checkpoint), `EmbedCode` (5), `Describe`, `SaveProgress`
(6), `EmbedDescriptions` (7), `UpsertBatch` (8), `ClearCheckpoint`,
`DeleteMissing` (9), `ComputeEdges` (10-11), `DeleteEdges`, `WriteEdges` (12).
Between two runs the repository may become anything. `Abort` stands for an
exception, a cancellation and a crash, at every point between two actions.

A run that fails in the middle of its descriptions leaves coroutines behind:
`gather()` passes on the first exception and does not cancel the others. With
`MayRaise`, `Fail` is such an exception, of a description or of a progress
callback, and `orphans` is what is left: the records of the failed run, those it
has yet to describe, the saves that are due. `OrphanDescribes` and `OrphanSaves`
go on beside later runs, and the save goes to the file of the failed run's key,
which may be that of a later run; the history variable `overwritten` notes that an
orphan has written the file of the current run since it was restored. A crash may
end the orphans. `BatchStage` (below) looks at the same coroutines with slots,
requests and clients.

A function's source is a version of it, and an embedding or description is the
version it was made from; so "made from the stored source" is equality. `KeepOld`
is the `CASE WHEN rec.x IS NOT NULL` of the upsert. A checkpoint file is found
by the set of changed ids, which is what `make_run_key` hashes. `Batch` is one
`UNWIND` statement. A status is `ok` (also standing for `chunked`), `error` (any
failure) or `skipped`. Which pairs are similar is left open.

Left out: the vector indexes and their dimension check (it aborts a run, which
`Abort` covers), test and anonymous functions (ids determine both, under an
unchanged configuration) and two functions with one id (the subject of
`Report.tla`). An empty extraction ends a run before the deletion
(`pipeline.py:139`), so a repository that becomes empty keeps its nodes, although
docs/PIPELINE.md:113 says that missing functions are deleted; `CompleteRun`
excludes it.

| run | shows |
|---|---|
| `PipelineGeneral` | checkpoints on, one function whose model calls may fail, runs that leave coroutines behind: a complete run repairs anything earlier runs left half done (`CompleteRun`); unless an orphan has written the file, a finished description is not made again (`FinishedWorkIsKept`) and no save takes one out of it (`CheckpointOnlyGrows`) |
| `PipelinePlain` | checkpoints off, a LOC filter: no stale code embedding and no stale description passes for `ok` (`StaleIsMarked`) |
| `PipelineStale` | finding: a checkpoint restored for newer source |

Bounds: two functions and batches of one make every stage end between two
writes; two versions, which are interchangeable (symmetry), tell current from
stale; three runs (`MaxRuns`) are one to write, one to fail halfway and one to
complete, and one more function version than that cannot be distinguished. The
constraint `Focus` looks at orphans only beside later runs (the orphans of the last
run meet nobody), and at those over one source, since what a file has and loses
does not depend on the version. The budget of runs is why deadlock is not checked.

What the exceptions stand for. Three things of a node are made by a model.

* An embedding of the code that fails leaves the older one beside the new hash
  (`graph/store.py:73`), and as the next run finds the hash unchanged, it is not
  computed again until the source changes; its status says so (`StaleIsMarked`).
* The embedding of a description has no status. When it fails for a new description,
  the vector of the older one stays beside it under `ok` (`graph/store.py:75`),
  although docs/PIPELINE.md:152 says that it is null then. `StaleIsMarked` says
  nothing of it.
* The same embedding is made again for every description, the restored ones
  included (`ToEmbed`, `pipeline.py:208-217`), although docs/PIPELINE.md:123 says
  that restored records skip the embedding stages and docs/CONFIG.md:307 that
  checkpoints save the embeddings of descriptions. What is finished and not done
  again is the code embedding and the description.

And what a checkpoint holds is safe from runs, not from the coroutines of a run
that failed: an orphan's save writes its own records over those of a later run of
the same key, and takes out of the file what that run has described
(`overwritten`), although docs/PIPELINE.md:119 says that completed work is not
redone.

There is no liveness to state: a run is a straight line, and nothing obliges
anyone to start one.

## The model services

**`BatchStage.tla`** looks into one stage of the pipeline: `N` coroutines under
`asyncio.gather`, a semaphore of `C` slots, a request (or, for a long function,
one request per chunk) per coroutine, and the progress callback that saves the
checkpoint every `Interval` records. A coroutine is waiting, at work, in its
callback, or done; a step is what it does between two awaits. `gather()` does
not cancel the siblings when one raises: the run ends, the queue may start the
next run, and the coroutines of the first (`Unheeded`) still hold slots, send
requests and save. The service objects of two runs are distinct, and so are
their semaphores; `Close` shuts the client that the orphans use, after which
every request fails.

| run | shows |
|---|---|
| `BatchDescribe` | two runs with failing requests, a coroutine that raises and a cancellation: no more than `C` requests of a run are open, a crash in the first run costs at most `C` intervals of finished records, nothing still saves when a stage has ended in order, and everything started ends |

What the model shows beside the run: the chunks of one long function are all sent
from one slot, so that requests exceed the concurrency (docs/CONFIG.md:233 and
:239 call it a limit on requests); hence `RequestsBounded` is checked where a
record is one request. And an orphan whose save comes after a later run
has deleted the checkpoint creates the file again (docs/PIPELINE.md:123 has it
deleted by a successful run); `QuietWhenDone` says that only an orphan does.

Bounds: three records and two slots are one that waits and two at work; two
runs, one that fails and one that meets its orphans. Fairness: weak, of every
coroutine, as a request ends by its timeout at the latest.

## Similarity, reports and search

**`SimilarityGraph.tla`** has the pure part as operators: the ids of definitions
and which definition a node ends up with when two share an id; the index's
neighbours, filtered after the search for the `TopN` nearest, which is what
`store.py` asks the database; the weighted score, the threshold, the one edge of a
pair; the numbers, breakdowns and clusters of a report; the search's merge and
cut. A vector is known by the definition it was made from, the scores are tables.

**`Report.tla`** puts them in time: a run upserts, deletes, clears edges and
inserts them, a report looks for its predecessor, is made, and its file is opened
(which truncates it) and written; both hold the lock, so that one `pc` stands for
them, and either may end anywhere. A search takes no lock and reads the two
indexes and the rows at three moments. The local clock, which names the files, may
be set back.

| run | shows |
|---|---|
| `ReportGeneral` | a report is compared with the latest readable one unless the clock was set back; vectors are of their source, edges simple, breakdowns and clusters consistent with the edges, and no similar pair missed without a reason, whatever runs ended halfway, but for embeddings that failed and definitions that share an id (`GraphAddsUp`); a search misses nothing its indexes had room for (`SearchIsSound`) |
| `ReportSharedId` | finding: two definitions that share an id, and the vector of one is stored beside the source of the other |

Bounds: six definitions, of which two share an id and two a name across files,
with a test and an anonymous one; neighbourhoods of three among five, so that they
can be crowded; three sources. Four reports and four seconds are one torn, one
readable, one of the same second and one that looks back. The constraint `Focus`
explores graph and archive apart: reports on the empty graph as many as the bound
allows, on any other one report in its first second. Neither part reads the other.

The properties name what the code does not give: a report counts all edges, while
its breakdowns leave tests out, and the edges of the last run remain when the
configuration excludes tests later (`tests \/ ~builtWith`). Clusters are keyed by
qualified name, so that functions of one name are one member and a pair of
duplicates with one name is in no cluster (docs/PIPELINE.md:222 speaks of
connected components). The neighbourhood is cut before it is filtered, so tests
and other repositories use up places (`Crowded`). Two definitions of one name in one
file share an id, although docs/PIPELINE.md:139 says that the start line is part of
it (`extractor.py:38-40` leaves it out) and :135 that each function has a node;
they are stored, every other run, with the vector of the first and the source of
the last (`ReportSharedId`). A callback named `name@L42` takes part in the edges when
`ignore_anonymous_callbacks` is false. Reports of one second overwrite each other.
Left out: a second process on the same database (`scripts/run_pipeline.py`), the
17 queries of a report as separate transactions, the cohesion of files, tables that
only list what a query returns, and all layout.

## The edit workflow

**`Workflow.tla`** is the LangGraph state machine of `graph/workflow.py`: an
action per node, with `pc` the node that runs next. `state` is GraphState; `Merge`
is what the runtime does with the dictionary a node returns, and drops the keys
that GraphState does not declare. The git repository is one file seen four times:
`head` (committed, per branch), `active`, `index` and `tree`. Resolver, retrieval
and planner, which only read, are one step. A code is one of a set: clean,
fixable by ruff, beyond repair, or the target symbol alone (`Bare`), which the
coder passes on when it cannot stitch the symbol in. `Abort` is an exception of
any node and a crash; nothing is rolled back. The user may check out another
branch while a model call runs (`Meddling`), and between runs may follow the
advice of the error message (`Discard`). The graph and the executor do not run
two tasks at once, so neither does the model. Two tasks may have the same slug,
and so the same branch.

Left out: clone, fetch, push and pull requests, the edits of a user who does not
use git, and the thresholds of the judge (it says anything).

| run | shows |
|---|---|
| `WorkflowGeneral` | what is committed was passed by both validators as it is, on the branch of its task; the bare symbol is never committed; a dirty tree means an interrupted run; the lists and the headline in the coder's prompt are of the verdict on its last code (`FeedbackIsCurrent`); a run ends |
| `WorkflowUnseen` | finding: the judge is never shown the diff, since the state does not carry `generated_diff` |

A verdict of the judge has a summary, `semantic_feedback`, and two lists
(`Lists`). The coder prints the lists; the summary only switches the headline on
(`coder.py:186-195`), so that what else the judge held against the code (a risk of
regression, unnecessary changes, a low score, an answer that is no JSON) is never
shown, although `state.py:108` calls the summary "forwarded to coder_node".
`Shown` and `Headline` are what the prompt holds.

That the diff is dropped also protects the commit: were it declared, the diff of
the code before `ruff --fix` would be written after the fixed code was validated
(the mutant of `CommitsAreValidated`).

Bounds: three tasks, two of them with one branch; three runs, of which one may
leave a dirty tree, one is refused, and one continues on a branch; three
attempts, so that each validator can reject and a third attempt still be made.
Fairness: weak, of the nodes together, because each model call has a timeout; the
user is not obliged to anything. The budget of runs is why deadlock is not
checked.

`CommitFails` is a commit that fails after the file was staged (a pre-commit
hook, for instance). The error message that later runs then raise advises `git
checkout -- .`, which restores the staged content: the tree stays dirty.

## Graphs and retrieval

**`GraphResolver.tla`** is the store of knowledge graphs: `.graphify` in the
repository, which is only read, and a directory per commit, which every process
shares. A directory is valid when the graph file exists, whatever it holds, and
the metadata name the commit. A build extracts, truncates, writes, truncates the
metadata, writes them, and may end after any of these; the user may check out
another commit or edit at any time.

**`ContextSelection.tla`** has the pure part: the keyword query with its seeds and
neighbours, the graph ranker and the heuristic ranker, `allocate()`, the payload
and its validator. **`Retrieval.tla`** composes the two: a process that holds a
graph handle retrieves for a request. **`Subsequences.tla`** has the operators on
lists that these and the reports share: a sublist, a list by descending rank, a sum.

| run | shows |
|---|---|
| `RetrievalGeneral` | a graph found valid is the whole graph of its commit, whatever crashed, unless builds overlapped or read another tree (`GraphIsTrusted`); the context keeps its budget, begins with the target, and of the ranking it was given reports what it left out and left out nothing that fitted (`ContextIsSound`) |

Bounds (`MCSpec`, `OneProcess`): two processes, two commits of which one has no
code, and one edit, on one plain request; or one process on the first commit, and
every request over three files and one more spelling of the first, with and
without target and words, four sizes and orders. The ranker's cut is three files
and the budget's limit two (`MaxRanked`, `MaxFiles`), so that the budget has
something to leave out. As shipped both are 20 (`retrieval_node.py:93`, `:172`,
`config_loader.py:228`), and then the limit on files never comes to bear: what the
ranker has cut off is neither warned of nor raised, although docs/CONFIG.md:141
and :143 say that files are added until the cap and that a limit that is hit warns
or aborts. `ContextIsSound` is about the ranking that the budget is given. Two
processes are what a build that overlaps another needs; the request does not
influence the store, nor the store more than which nodes there are.

What the properties exclude is what happens: of two builds of one commit that
overlap, one may end after the other has truncated the file, and the metadata then
vouch for a torn graph for good (`suspect`); a build reads the working tree, which
may not be the commit, after a checkout or an edit (`suspect` again), so that what
is shown of such a tree is only that a crash adds nothing to it. A file the ranker
cut off is nobody's concern. Further facts: `allocate()` goes on after a file that
does not fit although its docstring says that iteration stops, and it counts a
file twice in `files_dropped` when the count limit ends the loop after earlier
drops (`context_budget.py:33`); the limit in characters never binds; a related
file that is not UTF-8 makes the node raise; a target in another spelling appears
twice; with ten words or more in a task a neighbour may outrank a match; a commit
without code is never valid and is built again each run; the order of ties is that
of a Python set, and is left open.

## Proofs

`ExecutionLoopProofs` proves, for any sets of
tasks and stops, and any number of consumers:

* `TypeCorrect`: `Spec => []TypeOK`;
* `Invariance`: `Spec => [](TypeOK /\ IInv)`;
* `OneMutationAtATime`: `Spec => []MutualExclusion`;
* `NoTaskLostOrDuplicated`: `Spec => []Conservation`;
* `Refinement`: `Spec => ImplementsTaskService`;
* `OwnerInvariance`, and from it `ConsumerIsReachable` (`OneConsumer`),
  `NoTaskGivenUp` (`NothingDropped`) and `StopLeavesNothing` (`OrderlyShutdown`),
  each until an overlap is noted.

All assume `ConstantsAssumption`. `MutualExclusion` alone is
not inductive: that the lock is free says nothing of who executes. `IInv` adds
that an executing consumer is the owner (`LockInv`), that waiters and `pc` agree,
that a consumer holds a live task exactly while it waits or executes
(`HoldInv`), and an order: tickets increase along the queue (`QueueInv`), held
and background tasks are older than whatever is queued, and tickets increase
along the line of waiters. The last part is what makes `Begin` of the abstract
service possible in submission order. `PlaceInv` gives the other half of
`Conservation`. Until an overlap at most one `stop()` is suspended and it awaits
the only consumer (`StopInv`), which is therefore alone with the lock: it never
waits for it (`OwnerInv`), so that a cancellation reaches it only in `dequeue()`
or in the execution, and no task is ever held by a coroutine that gives up.

`PipelineProofs` proves, for any finite set of functions, any versions, batch
sizes, interval, flaky functions and number of runs:

* `TypeCorrect`: `Spec => []TypeOK`;
* `Invariance`: `Spec => [](TypeOK /\ IInv)`;
* `CompleteRunRepairs`: `Spec => []CompleteRun`;
* `DryRunsAreDry`: `Spec => DryRunWritesNothing`;
* `NothingStalePassesForOk`: `Spec => []StaleIsMarked`, assuming
  `~CheckpointEnabled` (it is false with checkpoints: `PipelineStale`), of code
  embeddings and descriptions, not of the embeddings of descriptions;
* `DescribedOnce`: `Spec => FinishedWorkIsKept`, and
  `SavesLoseNothing`: `Spec => CheckpointOnlyGrows`, with any number of orphans
  beside the run, as long as none has written its file.

They hold with and without `MayRaise`, and assume `PipelineAssumption` and
`NoneAssumption` (NULL is not a value).
`IInv` says stage by stage which functions are up to date (`StageInv`). Its one
surprising part is `EdgeInv`: every edge ends in functions that have an
embedding. A run that finds fewer than two embedded functions returns before it
deletes the old edges (`pipeline.py:259`), and so does one that extracted fewer
than two (`:251`); the runs are right only because there can be no old edge
then, and that rests on `KeepOld` never taking an embedding away and on
`DETACH DELETE`. `RecordInv` follows the records through the stages without
checkpoints; `SavedInv` says that they are never behind the checkpoint, unless
an orphan has written it (`overwritten`).

`WorkflowProofs` proves, for any tasks, branches, codes, effects of `ruff --fix`,
limit and number of runs, with and without a meddling user:

* `TypeCorrect`: `Spec => []TypeOK`, with the limit on attempts;
* `Invariance`: `Spec => []Inv`;
* `RightBranch` (`CommitsLandOnTaskBranch`), `OnlyValidated`
  (`CommitsAreValidated`), `OnlyInterruptedDirty` (`DirtyMeansInterrupted`) and
  `FeedbackIsOfLastCode` (`FeedbackIsCurrent`).

They assume `WorkflowAssumption`: what ruff has fixed is stable and free of
faults, and the file is more than the symbol. The invariant follows the code and
the tree from node to node. That a commit is validated rests on `TreeInv`: from
the checkout of the branch to the writing of the file the tree is clean, so that
whatever is dirty at the commit is the validated code, even if the user went to
another branch and came back.

`BatchStageProofs` proves, for any numbers of records, runs, chunks, attempts and
slots, any interval and any flaky or broken records:

* `Invariance` and `TypeCorrect`;
* `RequestsAreBounded` (`RequestsBounded`) and `NothingGoesOn` (`QuietWhenDone`),
  assuming that a record is one request;
* `LossIsBounded` (`UnsavedBounded`), without that assumption.

They assume `BatchAssumption`. The argument counts: records at work or in their
callback are at most the slots taken (`SlotInv`), every open request belongs to
one of them (`RequestInv`), and requests inject into slots. For the loss,
`UnsavedInv` states that the records completed are those of the saves done, those
of the saves that are due, and a rest; each due save holds a slot, so at most
`Concurrency` are due, and the rest is less than an interval; if every slot waits
in a due save then the rest is 0.

`ReportProofs` proves, for any definitions, sources, scores, limits, thresholds and
bounds:

* `Invariance` and `LatestIsFound` (`ComparedWithLatest`), of the archive;
* `Soundness`: `Spec => []Sound`, the invariant of the graph and of the search;
* `TypeCorrect` (`TypeOK`), `ReportsAddUp` (`GraphAddsUp`, which excepts the
  vectors of failed embeddings and of shared ids) and `SearchesSound`
  (`SearchIsSound`).

They assume `GraphAssumption` (scores from 0 to 1 and weights that add up to one,
in tenths, as in the configuration the program ships with; bins in order; an order
of ids without ties) and `ReportAssumption` (two definitions of one id have
different places in their file).

* *The archive.* While the clock has not been set back, a report begun later
  stands in a later second or has overwritten the earlier one (`OrderInv`), so the
  largest readable second, which exists because the seconds are finite, holds the
  latest report.
* *The store.* `StoreInv`: one node per id, a vector is of its own id, and of the
  stored source unless an embedding failed or two definitions share the id.
  `UpsertKeepsStore` shows it of every choice of the upsert.
* *The edges.* `Simple` says it of the edges that are stored and of those computed
  and not inserted yet. `Complete`: if the stored functions are those the edges
  were made from (`whole`), every pair that `MustJoin` is an edge or waits to be
  inserted. Its lemma `LeftOutIsCrowded` counts: what is not among the nearest `k`
  has `k` others at least as near, so a pair without an edge has an end that is
  crowded.
* *The clusters.* `Component` grows a set as often as there are names. A round
  that adds nothing is the last, and each other round adds a name, so the set it
  ends with is closed (`SearchStops`); it is contained in every closed set that
  holds its start (`ComponentFacts`), hence components are disjoint or equal.
* *The search.* `HitsInv` says of one under way that, while the store has been
  quiet, its hits are the nearest of each index; `RankingFacts` that the ranking
  is a permutation in descending order, so that the first `SearchTop` have the best
  scores.

`RetrievalProofs` proves, for any processes, commits, edits, graphs and requests:

* `Invariance` and `TypeCorrect` (`TypeOK`);
* `ValidGraphsAreTrusted` (`GraphIsTrusted`): `AloneInv` says that in a directory
  which is not `suspect` one process builds at most, `BuildInv` what the files hold
  at each point of its build, `StoreInv` what they hold otherwise; excepted are
  overlapping builds and builds of a tree that was not the commit;
* `ContextSound` (`ContextIsSound`), for any cut of the ranker and any limit; what
  the ranker cut off is outside the statement, a target in another spelling and a
  task of ten words or more are its exceptions.

They assume `ResolverAssumption`, `SelectionAssumption` and `RetrievalAssumption`,
which say what a request and a graph consist of. `ContextIsSound` is no invariant
of a state that changes: it is about what one call returns. Its proof follows the
lists through the node. A stage keeps a list duplicate-free and takes its elements
from the one before; the loop of `allocate()` has an invariant over the files
considered so far (what is selected fits, what is dropped did not fit or came after
the limit of files, and each file considered is one or the other); and the order of
a ranked list is that of its ranks, so a match precedes a neighbour as long as the
task has fewer than ten words.

`DataProofs` has what both rest on. `Subsequences.tla` writes the operators that
run along a sequence (`Only`, `ByRank`, `Total`) as recursive functions on an
interval. The induction theorems of the library have an operator as a parameter,
which the provers do not take; `DataProofs` states induction for a *set* of
numbers (`IntervalInduction`, from `LeastExists`) and the existence and uniqueness
of a recursive function for a step that is a *function* (`RecursionExists`,
`RecursionUnique`). From these follow what `Only` and `ByRank` return, the sums of
`Total`, and the finiteness of an image, on which `Max` rests. The same two lemmas
unfold `allocate()` and `Component`.

`ServiceProofs` proves, for any scheduled runs, commands and resources:

* `Invariance` and `TypeCorrect`;
* `NothingIsLeaked` (`ReleasedWhenDone`), `SlackIsTold` (`SlackTellsTheRun`),
  `ShutdownIsComplete` (`NothingLeftRunning`) and `NoticesAreHonoured`
  (`NoticeBringsRun`);
* `ServedInOrder`: `Spec => ImplementsTaskService`.

They assume `DispatcherAssumption` and `ServiceAssumption`. The proof is in two
layers. `StepSound` says of any step of any execution that it keeps the invariant
of its own task (`TaskInv`) and touches nothing of another (`Confined`): that is
what lets any number of executions interleave. `TaskInv` ties the label to what is
open, to the verdict, and to the thread: as long as no call of the notifier has
failed it has the message of its own run. Around it, `QueueInv` (the queue holds,
once each, the tasks that were enqueued and have not begun), `ConsumerInv` (what
writes and runs is what the consumer executes), `CronInv` and `MainInv`, which says
what each step of the shutdown finds stopped; who has ended does not begin again
(`MainKept`). The refinement rests on the first two: `TakeRefines` is a `Begin`
because nothing that writes runs while the consumer waits for the queue, and nothing
is older than its head; an execution that ends by an error, a cancellation or a
failed close is an `End` like any other (`ExecuteRefines`); and no step of the
cron loop before its enqueue, of the start or of the shutdown is seen by the
abstract scheduler (`StillRefines`).

Every invariant and every action property that a passing run checks is stated by a
theorem.
Only model-checked: liveness (`QueueIsServed`, `StopEnds`, `EveryTaskEnds`,
`RunEnds`, `AcksHonoured`, `ProcessEnds`), which is out of the prover's reach, and
the properties that are expected to fail (`QueueIsServedDespiteFailures`,
`EmbeddingsFollowSource`, `JudgeSawTheChange`, `VectorOfItsSource`).

## Plan

Done: the scheduler and the process, both shown to implement `TaskService`; the
pipeline; the batches; the edit workflow; reports and search; the graph store and
retrieval; a proof of every safety property. Next, in this order:

1. that `Pipeline`'s description stage abstracts `BatchStage`;
2. the time stamps that `config_loader.py` writes back into `config.yaml`, beside
   the readers of that file.

## Not modelled

* Clone, fetch, push and pull requests: what matters there is the remote.
* The rewriting of `config.yaml` (`core/config_loader.py:469-493`): one write by
  one writer. Its docstring says "atomically"; `write_text` truncates first, so a
  crash loses the configuration.
* Parsing: tree-sitter's names and the scan of directories are inputs here.
* The slicer (`retrieval/slicing`), which `retrieval_node` does not call; the
  sandbox and the text of patches; `api/app.py`, which has no state.
* Logging, wording and layout, and the developers' scripts.
