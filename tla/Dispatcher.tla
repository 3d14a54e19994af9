----------------------------- MODULE Dispatcher -----------------------------
(***************************************************************************)
(* What TaskDispatcher (scheduler/dispatcher.py) does with one task, await *)
(* by await, together with the two objects it drives: EmbeddingPipeline as *)
(* far as run() and close() show it (pipeline.py), and the SlackNotifier   *)
(* of the run (api/slack_notifier.py).                                     *)
(*                                                                         *)
(* One step is what the coroutine does between two awaits.  Every call to  *)
(* Slack has three outcomes: it answers, it is refused, or it takes effect *)
(* and its answer is lost, which the caller sees as an exception.  A call  *)
(* of cancel() is delivered at the await where the coroutine is suspended. *)
(* The caller of execute(), a consumer or a background task, is the        *)
(* module Service.                                                         *)
(***************************************************************************)
EXTENDS Naturals, Sequences, FiniteSets

CONSTANTS Tasks,              \* every task anyone may submit
          NoTask,             \* no task, no message
          QueryResources,     \* what _handle_query opens, in closing order
          PipelineResources   \* what EmbeddingPipeline opens, in closing order

Resources == {QueryResources[i] : i \in DOMAIN QueryResources}
               \cup {PipelineResources[i] : i \in DOMAIN PipelineResources}

ASSUME DispatcherAssumption ==
    /\ NoTask \notin Tasks
    /\ QueryResources \in Seq(Resources) \ {<<>>}
    /\ PipelineResources \in Seq(Resources) \ {<<>>}

VARIABLES
    slack,       \* "off": no token or channel; "reports": pipeline.slack.enabled
                 \* is false; "on"
    kind,        \* what each task is; "quiet": a pipeline with no report
    pc,          \* where the execution of each task is suspended
    cancel,      \* cancel() was called on it and has not been delivered
    open,        \* the resources it has still to close, in order
    verdict,     \* how _run_stages() of a pipeline ended
    outcome,     \* how the execution ended
    tree,        \* the source a run reads: "old" if the pull failed,
                 \* "oldTold" once its thread says so
    notified,    \* the message whose ts the notifier of a task stores
    root,        \* the channel message of a run, named by its task
    strayed,     \* history: the tasks with a message in another's thread
    faults       \* history: what failed other than the stages

taskVars == <<kind, pc, cancel, open, verdict, outcome, tree>>
slackVars == <<notified, root, strayed>>
dispatchVars == <<slack, taskVars, slackVars, faults>>

DispatcherInit ==
    /\ slack \in {"off", "reports", "on"}
    /\ kind = [t \in Tasks |-> "none"]
    /\ pc = [t \in Tasks |-> "none"]
    /\ cancel = [t \in Tasks |-> FALSE]
    /\ open = [t \in Tasks |-> <<>>]
    /\ verdict = [t \in Tasks |-> "none"]
    /\ outcome = [t \in Tasks |-> "none"]
    /\ tree = [t \in Tasks |-> "current"]
    /\ notified = [t \in Tasks |-> NoTask]
    /\ root = [t \in Tasks |-> "none"]
    /\ strayed = {}
    /\ faults = [t \in Tasks |-> {}]

-----------------------------------------------------------------------------
(* Calls to Slack.                                                         *)

Answers == {"ok", "lost", "refused"}
Took(o) == o # "refused"

OneNotifier(t) == CHOOSE u \in Tasks : TRUE   \* mutant: one for the process

\* _handle_pipeline and _handle_report make a notifier for each task.
NotifierOf(t) == t

Fault(t, what) == faults' = [faults EXCEPT ![t] = @ \cup {what}]

NoteFault(t, o) == IF o = "ok" THEN UNCHANGED faults ELSE Fault(t, "slack")

At(t, label) == pc[t] = label /\ ~cancel[t]
Goto(t, label) == pc' = [pc EXCEPT ![t] = label]

Finish(t, how) ==
    /\ Goto(t, "done")
    /\ outcome' = [outcome EXCEPT ![t] = how]

\* _reply and _reply_blocks: into the thread, if one was started, otherwise to
\* the channel.
Reply(t, o) ==
    strayed' = IF Took(o) /\ notified[NotifierOf(t)] \notin {t, NoTask}
               THEN strayed \cup {t} ELSE strayed

\* chat_update of the channel message.
Show(t, o, status) ==
    root' = IF Took(o) THEN [root EXCEPT ![notified[NotifierOf(t)]] = status]
            ELSE root

HasRoot(t) == notified[NotifierOf(t)] # NoTask

-----------------------------------------------------------------------------
(* A pipeline task.                                                        *)

BeginPipeline(t) ==
    /\ Goto(t, "build")
    /\ UNCHANGED <<slack, kind, cancel, open, verdict, outcome, tree, slackVars,
                   faults>>

\* The constructors, in the order in which close() goes through what they open.
\* They stand before the try block: when one raises, nothing closes the others.
Build(t, resources, label) ==
    /\ At(t, "build")
    /\ \/ /\ open' = [open EXCEPT ![t] = resources]
          /\ Goto(t, label)
          /\ UNCHANGED <<outcome, faults>>
       \/ /\ \E n \in 0..Len(resources) :
                open' = [open EXCEPT ![t] = SubSeq(resources, 1, n)]
          /\ Finish(t, "raised") /\ Fault(t, "build")
    /\ UNCHANGED <<slack, kind, cancel, verdict, tree, slackVars>>

BuildPipeline(t) ==
    /\ kind[t] \in {"pipeline", "quiet"}
    /\ Build(t, PipelineResources, IF slack = "on" THEN "start" ELSE "sync")

StartUnguarded(t) ==          \* mutant: pipeline_start lets the error through
    /\ At(t, "start")
    /\ \E o \in Answers :
         /\ root' = IF Took(o) THEN [root EXCEPT ![t] = "starting"] ELSE root
         /\ notified' = IF o = "ok" THEN [notified EXCEPT ![NotifierOf(t)] = t]
                        ELSE notified
         /\ NoteFault(t, o)
         /\ IF o = "ok" THEN Goto(t, "sync") /\ UNCHANGED outcome
            ELSE Goto(t, "close") /\ outcome' = [outcome EXCEPT ![t] = "raised"]
    /\ UNCHANGED <<slack, kind, cancel, open, verdict, tree, strayed>>

\* pipeline_start: the ts is stored only if the answer arrives.
PipelineStart(t) ==
    /\ At(t, "start")
    /\ \E o \in Answers :
         /\ root' = IF Took(o) THEN [root EXCEPT ![t] = "starting"] ELSE root
         /\ notified' = IF o = "ok" THEN [notified EXCEPT ![NotifierOf(t)] = t]
                        ELSE notified
         /\ NoteFault(t, o)
    /\ Goto(t, "sync")
    /\ UNCHANGED <<slack, kind, cancel, open, verdict, outcome, tree, strayed>>

\* The stages are over: the closing notice if there is one to give, otherwise
\* straight to pipeline.close().
Closing(t, v) ==
    LET notice == CASE v = "ok" -> "complete" [] v = "error" -> "failed"
                    [] v = "cancelled" -> "cancelled"
    IN  /\ verdict' = [verdict EXCEPT ![t] = v]
        /\ outcome' = IF v = "cancelled"
                      THEN [outcome EXCEPT ![t] = "cancelled"] ELSE outcome
        /\ Goto(t, IF slack = "on" THEN notice ELSE "close")

\* ensure_repo_synced: without a repo_url nothing is done; it clones, or pulls
\* (or leaves a dirty tree alone).  A failed pull is only reported.
SyncRepo(t) ==
    /\ At(t, "sync")
    /\ \/ Goto(t, "stages") /\ UNCHANGED <<verdict, outcome, tree>>
       \/ /\ \E left \in {"current", "old"} : tree' = [tree EXCEPT ![t] = left]
          /\ Goto(t, IF slack = "on" THEN "syncNotice" ELSE "stages")
          /\ UNCHANGED <<verdict, outcome>>
       \/ Closing(t, "error") /\ UNCHANGED tree   \* the clone, or Repo(), raised
    /\ UNCHANGED <<slack, kind, cancel, open, slackVars, faults>>

\* sync_complete: one reply, a failure notice if the pull failed.
SyncNotice(t) ==
    /\ At(t, "syncNotice")
    /\ \E o \in Answers :
         /\ Reply(t, o)
         /\ tree' = IF tree[t] = "old" /\ Took(o)
                    THEN [tree EXCEPT ![t] = "oldTold"] ELSE tree
         /\ NoteFault(t, o)
    /\ Goto(t, "stages")
    /\ UNCHANGED <<slack, kind, cancel, open, verdict, outcome, notified, root>>

\* The rest of _run_stages.
RunStages(t) ==
    /\ At(t, "stages")
    /\ Closing(t, "ok") \/ Closing(t, "error")
    /\ UNCHANGED <<slack, kind, cancel, open, tree, slackVars, faults>>

\* progress() and the stage summaries: during the stages and, when a stage
\* failed, later: gather() raises and the other coroutines of the stage live on.
Progress(t) ==
    /\ slack = "on"
    /\ At(t, "stages") \/ verdict[t] = "error"
    /\ \E o \in Answers : Reply(t, o)
    /\ UNCHANGED <<slack, taskVars, notified, root, faults>>

\* pipeline_complete: the update and the summary share one try block.
CompleteUpdate(t) ==
    /\ At(t, "complete")
    /\ IF HasRoot(t)
       THEN \E o \in Answers :
              /\ Show(t, o, "complete")
              /\ Goto(t, IF o = "ok" THEN "summary" ELSE "close")
              /\ NoteFault(t, o)
       ELSE Goto(t, "summary") /\ UNCHANGED <<root, faults>>
    /\ UNCHANGED <<slack, kind, cancel, open, verdict, outcome, tree, notified,
                   strayed>>

\* pipeline_failed: the reply is posted whatever became of the update.
FailedUpdate(t) ==
    /\ At(t, "failed")
    /\ IF HasRoot(t)
       THEN \E o \in Answers : Show(t, o, "failed") /\ NoteFault(t, o)
       ELSE UNCHANGED <<root, faults>>
    /\ Goto(t, "summary")
    /\ UNCHANGED <<slack, kind, cancel, open, verdict, outcome, tree, notified,
                   strayed>>

\* pipeline_cancelled, shielded from the cancellation it reports.
CancelledUpdate(t) ==
    /\ At(t, "cancelled")
    /\ IF HasRoot(t)
       THEN \E o \in Answers :
              /\ Show(t, o, "cancelled")
              /\ Goto(t, IF o = "ok" THEN "summary" ELSE "close")
              /\ NoteFault(t, o)
       ELSE Goto(t, "summary") /\ UNCHANGED <<root, faults>>
    /\ UNCHANGED <<slack, kind, cancel, open, verdict, outcome, tree, notified,
                   strayed>>

\* The reply that ends each of the three notices.
Summary(t) ==
    /\ At(t, "summary")
    /\ \E o \in Answers : Reply(t, o) /\ NoteFault(t, o)
    /\ Goto(t, "close")
    /\ UNCHANGED <<slack, kind, cancel, open, verdict, outcome, tree, notified,
                   root>>

-----------------------------------------------------------------------------
(* The finally blocks, the report, the query.                              *)

\* What follows the last close(): what was being unwound, or the next step.
AfterClose(t) ==
    IF outcome[t] # "none" THEN Goto(t, "done") /\ UNCHANGED outcome
    ELSE CASE kind[t] = "query"    -> Goto(t, "respond") /\ UNCHANGED outcome
           [] kind[t] = "pipeline" -> Goto(t, "report") /\ UNCHANGED outcome
           [] kind[t] = "quiet"    -> Finish(t, "returned")

\* One close(); one that raises skips the others.
Close(t) ==
    /\ At(t, "close")
    /\ \/ /\ open' = [open EXCEPT ![t] = Tail(@)]
          /\ IF Len(open[t]) > 1 THEN UNCHANGED <<pc, outcome>> ELSE AfterClose(t)
          /\ UNCHANGED faults
       \/ Finish(t, "raised") /\ Fault(t, "close") /\ UNCHANGED open
    /\ UNCHANGED <<slack, kind, cancel, verdict, tree, slackVars>>

\* generate_report.
MakeReport(t) ==
    /\ At(t, "report")
    /\ \/ /\ IF slack = "off" THEN Finish(t, "returned")
             ELSE Goto(t, "post") /\ UNCHANGED outcome
          /\ UNCHANGED faults
       \/ /\ IF slack = "off" THEN Finish(t, "raised")
             ELSE Goto(t, "reportFailed") /\ UNCHANGED outcome
          /\ Fault(t, "report")
    /\ UNCHANGED <<slack, kind, cancel, open, verdict, tree, slackVars>>

\* report_complete(True): a message to the channel, then the PDF, then, if that
\* fails, the Markdown file; any other error ends it.
PostReport(t) ==
    /\ At(t, "post")
    /\ \E o \in Answers :
         /\ IF o = "ok" THEN Goto(t, "upload") /\ UNCHANGED <<outcome, faults>>
            ELSE Finish(t, "returned") /\ Fault(t, "slack")
    /\ UNCHANGED <<slack, kind, cancel, open, verdict, tree, slackVars>>

Upload(t) ==
    /\ \/ /\ At(t, "upload")
          /\ \/ Finish(t, "returned") /\ UNCHANGED faults
             \/ Goto(t, "uploadMd") /\ Fault(t, "slack") /\ UNCHANGED outcome
       \/ /\ At(t, "uploadMd")
          /\ Finish(t, "returned")
          /\ UNCHANGED faults
    /\ UNCHANGED <<slack, kind, cancel, open, verdict, tree, slackVars>>

\* report_complete(False) posts through _reply; then the error is raised again.
ReportFailed(t) ==
    /\ At(t, "reportFailed")
    /\ \E o \in Answers :
         /\ Reply(t, o)
         /\ NoteFault(t, o)
    /\ Finish(t, "raised")
    /\ UNCHANGED <<slack, kind, cancel, open, verdict, tree, notified, root>>

BeginReport(t) ==
    /\ Goto(t, "report")
    /\ UNCHANGED <<slack, kind, cancel, open, verdict, outcome, tree, slackVars,
                   faults>>

BeginQuery(t) ==
    /\ Goto(t, "build")
    /\ UNCHANGED <<slack, kind, cancel, open, verdict, outcome, tree, slackVars,
                   faults>>

BuildQuery(t) == kind[t] = "query" /\ Build(t, QueryResources, "search")

\* search(): what it raises becomes the payload.
Search(t) ==
    /\ At(t, "search")
    /\ Goto(t, "close")
    /\ UNCHANGED <<slack, kind, cancel, open, verdict, outcome, tree, slackVars,
                   faults>>

\* http.post to the response_url, outside every try.
Respond(t) ==
    /\ At(t, "respond")
    /\ \/ Finish(t, "returned") /\ UNCHANGED faults
       \/ Finish(t, "raised") /\ Fault(t, "respond")
    /\ UNCHANGED <<slack, kind, cancel, open, verdict, tree, slackVars>>

-----------------------------------------------------------------------------
(* CancelledError, by the await where it is delivered.                     *)

Delivered(t) == cancel[t] /\ cancel' = [cancel EXCEPT ![t] = FALSE]

\* Before the try block of run(): no notice, though the message may be out.
CancelStart(t) ==
    /\ pc[t] = "start" /\ Delivered(t)
    /\ \E o \in {"lost", "refused"} :
         root' = IF Took(o) THEN [root EXCEPT ![t] = "starting"] ELSE root
    /\ Goto(t, "close")
    /\ outcome' = [outcome EXCEPT ![t] = "cancelled"]
    /\ Fault(t, "slack")
    /\ UNCHANGED <<slack, kind, open, verdict, tree, notified, strayed>>

CancelUnclosed(t) ==          \* mutant: close() is not in a finally block
    /\ pc[t] \in {"sync", "syncNotice", "stages"} /\ Delivered(t)
    /\ verdict' = [verdict EXCEPT ![t] = "cancelled"]
    /\ Finish(t, "cancelled")
    /\ UNCHANGED <<slack, kind, open, tree, slackVars, faults>>

CancelCaught(t) ==        \* mutant: the handler of the cancellation does not raise it again
    /\ pc[t] \in {"sync", "syncNotice", "stages"} /\ Delivered(t)
    /\ Closing(t, "error")
    /\ UNCHANGED <<slack, kind, open, tree, slackVars, faults>>

\* In the stages: gather() cancels its coroutines with it.
CancelStages(t) ==
    /\ pc[t] \in {"sync", "syncNotice", "stages"} /\ Delivered(t)
    /\ Closing(t, "cancelled")
    /\ UNCHANGED <<slack, kind, open, tree, slackVars, faults>>

\* In a closing notice, which it ends: the update or the reply may be out.
CancelNotice(t) ==
    /\ pc[t] \in {"complete", "failed", "summary"} /\ Delivered(t)
    /\ \E o \in {"lost", "refused"} :
         IF pc[t] # "summary" /\ HasRoot(t) THEN Show(t, o, pc[t]) /\ UNCHANGED strayed
         ELSE Reply(t, o) /\ UNCHANGED root
    /\ Goto(t, "close")
    /\ outcome' = [outcome EXCEPT ![t] = "cancelled"]
    /\ Fault(t, "slack")
    /\ UNCHANGED <<slack, kind, open, verdict, tree, notified>>

\* In search(): its finally block runs.
CancelSearch(t) ==
    /\ pc[t] = "search" /\ Delivered(t)
    /\ Goto(t, "close")
    /\ outcome' = [outcome EXCEPT ![t] = "cancelled"]
    /\ UNCHANGED <<slack, kind, open, verdict, tree, slackVars, faults>>

\* In a close(): the ones after it are skipped.
CancelClose(t) ==
    /\ pc[t] = "close" /\ Delivered(t)
    /\ Finish(t, "cancelled")
    /\ Fault(t, "close")
    /\ UNCHANGED <<slack, kind, open, verdict, tree, slackVars>>

\* Elsewhere; a query may be cancelled before it has begun.
CancelElsewhere(t) ==
    /\ pc[t] \in {"build", "report", "post", "upload", "uploadMd", "reportFailed",
                  "respond"}
    /\ Delivered(t)
    /\ Finish(t, "cancelled")
    /\ UNCHANGED <<slack, kind, open, verdict, tree, slackVars, faults>>

Step(t) ==
    \/ BuildPipeline(t) \/ BuildQuery(t)
    \/ PipelineStart(t) \/ SyncRepo(t) \/ SyncNotice(t) \/ RunStages(t)
    \/ CompleteUpdate(t) \/ FailedUpdate(t) \/ CancelledUpdate(t) \/ Summary(t)
    \/ Close(t) \/ MakeReport(t) \/ PostReport(t) \/ Upload(t)
    \/ ReportFailed(t) \/ Search(t) \/ Respond(t)
    \/ CancelStart(t) \/ CancelStages(t) \/ CancelNotice(t) \/ CancelSearch(t)
    \/ CancelClose(t) \/ CancelElsewhere(t)

-----------------------------------------------------------------------------
(* Properties of one execution.                                            *)

Labels == {"none", "build", "start", "sync", "syncNotice", "stages", "complete", "failed",
           "cancelled", "summary", "close", "report", "post", "upload",
           "uploadMd", "reportFailed", "search", "respond", "done"}

DispatcherTypeOK ==
    /\ slack \in {"off", "reports", "on"}
    /\ kind \in [Tasks -> {"none", "query", "pipeline", "quiet", "report"}]
    /\ pc \in [Tasks -> Labels]
    /\ cancel \in [Tasks -> BOOLEAN]
    /\ open \in [Tasks -> Seq(Resources)]
    /\ verdict \in [Tasks -> {"none", "ok", "error", "cancelled"}]
    /\ outcome \in [Tasks -> {"none", "returned", "raised", "cancelled"}]
    /\ tree \in [Tasks -> {"current", "old", "oldTold"}]
    /\ notified \in [Tasks -> Tasks \cup {NoTask}]
    /\ root \in [Tasks -> {"none", "starting", "complete", "failed",
                           "cancelled"}]
    /\ strayed \subseteq Tasks
    /\ faults \in [Tasks -> SUBSET {"build", "slack", "close", "report", "respond"}]

\* An execution that ended has closed everything it opened, however it ended:
\* only a constructor that raised after another, or a close() that raised or was
\* cancelled, leaves resources open.
ReleasedWhenDone ==
    \A t \in Tasks :
        pc[t] = "done" /\ faults[t] \cap {"build", "close"} = {} => open[t] = <<>>

\* The channel message of a finished run shows how it ended.
RootTellsTheOutcome(t) ==
    /\ verdict[t] = "ok" => root[t] = "complete"
    /\ verdict[t] = "error" => root[t] = "failed"
    /\ verdict[t] = "cancelled" => root[t] = "cancelled"

\* Slack tells the story of each run.  When no call of its notifier failed, the
\* channel message of a finished run shows how the run ended, and a run that
\* completed on source it could not pull has said so in its thread.  Replies go
\* to the run's own thread (or the channel, if it has no known thread), those its
\* failed stages still send while a later run goes on included.
SlackTellsTheRun ==
    /\ strayed = {}
    /\ \A t \in Tasks :
         /\ slack = "on" /\ kind[t] \in {"pipeline", "quiet"}
         /\ pc[t] \in {"report", "post", "done"} /\ "slack" \notin faults[t]
         => RootTellsTheOutcome(t) /\ (verdict[t] = "ok" => tree[t] # "old")

\* "All methods are fire-and-forget": no execution fails because of Slack.
RaisedByItself(t) ==
    outcome[t] = "raised" /\ faults[t] \cap {"build", "close", "report", "respond"} # {}

-----------------------------------------------------------------------------
(***************************************************************************)
(* The inductive invariant of one execution, proved in ServiceProofs.tla.  *)
(***************************************************************************)
Stages == {"start", "sync", "syncNotice", "stages", "complete", "failed",
           "cancelled", "summary"}

KindInv(t) ==
    /\ kind[t] = "none" => pc[t] = "none"
    /\ pc[t] \in Stages => kind[t] \in {"pipeline", "quiet"}
    /\ pc[t] \in {"build", "search", "close"} => kind[t] \in {"query", "pipeline", "quiet"}

OpenInv(t) ==
    IF pc[t] \in Stages \cup {"search", "close"} THEN open[t] # <<>>
    ELSE open[t] = <<>> \/ (pc[t] = "done" /\ faults[t] \cap {"build", "close"} # {})

VerdictInv(t) ==
    /\ pc[t] \in {"none", "build", "start", "sync", "syncNotice", "stages"} => verdict[t] = "none"
    /\ pc[t] = "complete" => verdict[t] = "ok"
    /\ pc[t] = "failed" => verdict[t] = "error"
    /\ pc[t] = "cancelled" => verdict[t] = "cancelled"
    /\ pc[t] = "done" => outcome[t] # "none"

\* Until a call of it fails, the notifier has the message of its run, and the
\* run's closing notice leaves the verdict there.
ThreadInv(t) ==
    /\ notified[t] \in {t, NoTask}
    /\ pc[t] \in {"none", "build", "start", "sync"} => tree[t] = "current"
    /\ slack = "on" /\ "slack" \notin faults[t] =>
         /\ pc[t] \in Stages \ {"start"} => notified[t] = t
         /\ pc[t] \notin {"complete", "failed", "cancelled"} => RootTellsTheOutcome(t)
         /\ pc[t] = "stages" \/ verdict[t] = "ok" => tree[t] # "old"

TaskInv(t) == KindInv(t) /\ OpenInv(t) /\ VerdictInv(t) /\ ThreadInv(t)
=============================================================================
