------------------------------- MODULE Service -------------------------------
(***************************************************************************)
(* The process of main.py: start-up, the cron trigger                      *)
(* (scheduler/cron_trigger.py), the slash commands of the Slack socket     *)
(* (api/slack_socket.py), the consumer of the execution loop               *)
(* (scheduler/loop.py) executing the tasks of module Dispatcher, and the   *)
(* shutdown.  Module ExecutionLoop models the loop by itself, in more      *)
(* detail; here it has the one consumer that main() gives it.              *)
(*                                                                         *)
(* With Slack's tokens main() never gets past start_socket_mode: the       *)
(* commands are served from there, and only an interrupt ends it.  Without *)
(* them uvicorn's serve() returns when the process is asked to stop, and   *)
(* the finally block of main() runs.  What asyncio.run does when main() is *)
(* over, cancelling the tasks that are left and waiting for them, is the   *)
(* last part of either end.                                                *)
(***************************************************************************)
EXTENDS Dispatcher

CONSTANT CronTasks     \* the runs the cron trigger makes (bound: its fires); the
                       \* other tasks are those of slash commands

ASSUME ServiceAssumption == CronTasks \subseteq Tasks

Commands == Tasks \ CronTasks

VARIABLES
    main,        \* where main() is suspended
    cron,        \* where CronTrigger._run() is suspended
    notice,      \* the run whose notice it is posting
    noticed,     \* history: the scheduled runs that were announced
    queue,       \* TaskQueue._queue
    consumer,    \* where ExecutionLoop._consume() is suspended
    current,     \* the active task it executes
    interrupted, \* the tasks of asyncio, other than those of Dispatcher, whose
                 \* cancel() was called: "cron", "consumer"
    socket       \* the Socket Mode connection

serviceVars == <<main, cron, notice, noticed, queue, consumer, current,
                 interrupted, socket>>
vars == <<dispatchVars, serviceVars>>

Init ==
    /\ DispatcherInit
    /\ main = "boot"
    /\ cron = "none"
    /\ notice = NoTask
    /\ noticed = {}
    /\ queue = <<>>
    /\ consumer = "none"
    /\ current = NoTask
    /\ interrupted = {}
    /\ socket = "none"

Up == main # "exit"

-----------------------------------------------------------------------------
(* Start-up.                                                               *)

\* No await of main() suspends before start_socket_mode: a configuration that
\* cannot be loaded ends it before anything runs, an invalid cron expression
\* when the loop already does.
Boot ==
    /\ main = "boot"
    /\ \/ main' = "exit" /\ UNCHANGED <<consumer, cron>>
       \/ main' = "unwound" /\ consumer' = "get" /\ UNCHANGED cron
       \/ main' = "connect" /\ consumer' = "get" /\ cron' = "begin"
    /\ UNCHANGED <<dispatchVars, notice, noticed, queue, current, interrupted,
                   socket>>

\* start_socket_mode: without tokens it returns None.  With them it awaits
\* start_async(), which connects and then sleeps for good: main() stays here.  An
\* error of the connection leaves main() before its try block.
Connect ==
    /\ main = "connect" /\ socket = "none"
    /\ \/ main' = "serve" /\ UNCHANGED socket
       \/ socket' = "open" /\ UNCHANGED main
       \/ main' = "unwound" /\ UNCHANGED socket
    /\ UNCHANGED <<dispatchVars, cron, notice, noticed, queue, consumer, current,
                   interrupted>>

\* asyncio.run cancels main() on an interrupt, where it sleeps: before its try
\* block, so that nothing is stopped in order.
Interrupt ==
    /\ main = "connect" /\ socket = "open"
    /\ main' = "unwound"
    /\ UNCHANGED <<dispatchVars, cron, notice, noticed, queue, consumer, current,
                   interrupted, socket>>

-----------------------------------------------------------------------------
(* CronTrigger._run().                                                     *)

\* An expression that is valid but has no next date ends the loop with an
\* exception nobody sees until stop().
CronPlan ==
    /\ cron = "begin" /\ "cron" \notin interrupted
    /\ cron' \in {"sleep", "died"}
    /\ UNCHANGED <<dispatchVars, main, notice, noticed, queue, consumer, current,
                   interrupted, socket>>

Fired == {t \in CronTasks : t = notice \/ t \in noticed}

CronFire ==
    /\ cron = "sleep" /\ "cron" \notin interrupted
    /\ \E t \in CronTasks \ Fired : notice' = t
    /\ cron' = "notice"
    /\ UNCHANGED <<dispatchVars, main, noticed, queue, consumer, current,
                   interrupted, socket>>

EnqueueIfPosted ==        \* mutant: an error of Slack ends the cron loop
    /\ cron = "notice" /\ "cron" \notin interrupted
    /\ \E o \in Answers :
         /\ noticed' = IF Took(o) THEN noticed \cup {notice} ELSE noticed
         /\ IF o = "ok"
            THEN /\ queue' = Append(queue, notice)
                 /\ kind' = [kind EXCEPT ![notice] = "pipeline"]
                 /\ cron' = "begin"
            ELSE cron' = "died" /\ UNCHANGED <<queue, kind>>
    /\ notice' = NoTask
    /\ UNCHANGED <<slack, pc, cancel, open, verdict, outcome, tree, slackVars,
                   faults, main, consumer, current, interrupted, socket>>

EnqueueCleared ==         \* mutant: the run is forgotten before it is enqueued
    /\ cron = "notice" /\ "cron" \notin interrupted
    /\ noticed' = noticed \cup {notice}
    /\ notice' = NoTask
    /\ queue' = Append(queue, notice')
    /\ kind' = [kind EXCEPT ![notice] = "pipeline"]
    /\ cron' = "begin"
    /\ UNCHANGED <<slack, pc, cancel, open, verdict, outcome, tree, slackVars,
                   faults, main, consumer, current, interrupted, socket>>

\* scheduled_run_queued swallows every error; then the run is enqueued.
CronEnqueue ==
    /\ cron = "notice" /\ "cron" \notin interrupted
    /\ noticed' = noticed \cup {notice}
    /\ queue' = Append(queue, notice)
    /\ kind' = [kind EXCEPT ![notice] = "pipeline"]
    /\ cron' = "begin"
    /\ notice' = NoTask
    /\ UNCHANGED <<slack, pc, cancel, open, verdict, outcome, tree, slackVars,
                   faults, main, consumer, current, interrupted, socket>>

\* Cancelled while it posts the notice, which may be out without its run.
CronCancelled ==
    /\ "cron" \in interrupted /\ cron \in {"begin", "sleep", "notice"}
    /\ cron' = "ended"
    /\ \/ cron = "notice" /\ noticed' = noticed \cup {notice}
       \/ UNCHANGED noticed
    /\ notice' = NoTask
    /\ UNCHANGED <<dispatchVars, main, queue, consumer, current, interrupted,
                   socket>>

-----------------------------------------------------------------------------
(* The handlers of /query, /pipeline and /report.  Up to its respond() a      *)
(* handler does not suspend: ack() and put() on the unbounded queue return at *)
(* once.  A usage error, and the respond() itself, change nothing here.       *)

Command(t) ==
    /\ socket = "open" /\ kind[t] = "none"
    /\ \E k \in {"query", "pipeline", "quiet", "report"} :
         kind' = [kind EXCEPT ![t] = k]
    /\ queue' = Append(queue, t)
    /\ UNCHANGED <<slack, pc, cancel, open, verdict, outcome, tree, slackVars,
                   faults, main, cron, notice, noticed, consumer, current,
                   interrupted, socket>>

-----------------------------------------------------------------------------
(* ExecutionLoop._consume().                                               *)

Begin(t) ==
    CASE kind[t] = "query"                 -> BeginQuery(t)
      [] kind[t] \in {"pipeline", "quiet"} -> BeginPipeline(t)
      [] kind[t] = "report"                -> BeginReport(t)

TakeInBackground ==       \* mutant: every task is executed in the background
    /\ Up /\ consumer = "get" /\ "consumer" \notin interrupted
    /\ queue # <<>>
    /\ queue' = Tail(queue)
    /\ Begin(Head(queue))
    /\ UNCHANGED <<consumer, current>>
    /\ UNCHANGED <<main, cron, notice, noticed, interrupted, socket>>

Take ==
    /\ Up /\ consumer = "get" /\ "consumer" \notin interrupted
    /\ queue # <<>>
    /\ queue' = Tail(queue)
    /\ Begin(Head(queue))
    /\ IF kind[Head(queue)] = "query" THEN UNCHANGED <<consumer, current>>
       ELSE consumer' = "run" /\ current' = Head(queue)
    /\ UNCHANGED <<main, cron, notice, noticed, interrupted, socket>>

\* The execution is over: so is the consumer, unless it returned.
Executed ==
    /\ consumer = "run" /\ pc[current] = "done"
    /\ consumer' = CASE outcome[current] = "returned"  -> "get"
                     [] outcome[current] = "raised"    -> "died"
                     [] outcome[current] = "cancelled" -> "ended"
    /\ current' = NoTask
    /\ UNCHANGED <<dispatchVars, main, cron, notice, noticed, queue, interrupted,
                   socket>>

ConsumerCancelled ==
    /\ consumer = "get" /\ "consumer" \in interrupted
    /\ consumer' = "ended"
    /\ UNCHANGED <<dispatchVars, main, cron, notice, noticed, queue, current,
                   interrupted, socket>>

Running(t) == pc[t] \notin {"none", "done"}

Execute(t) ==
    /\ Up
    /\ Step(t) \/ Progress(t)
    /\ UNCHANGED serviceVars

-----------------------------------------------------------------------------
(* Shutdown.                                                               *)

Background == {t \in Tasks : kind[t] = "query" /\ Running(t)}

\* The consumer opens what a task needs in the step that takes the task, and
\* returns from execute() in the step that ends the execution.
Settled == consumer = "run" => pc[current] \notin {"build", "done"}

\* Task.cancel() on the consumer: what it executes is where it is delivered.
Idle == IF consumer = "get" THEN {"consumer"} ELSE {}

InterruptConsumer ==
    /\ interrupted' = interrupted \cup Idle
    /\ cancel' = IF consumer = "run" THEN [cancel EXCEPT ![current] = TRUE]
                 ELSE cancel

\* serve() is over; cron_trigger.stop() cancels the cron task.
StopServing ==
    /\ main = "serve"
    /\ main' = "cronStop"
    /\ interrupted' = interrupted \cup {"cron"}
    /\ UNCHANGED <<dispatchVars, cron, notice, noticed, queue, consumer, current,
                   socket>>

\* cron_trigger.stop() raises what its task died of, and main() ends there;
\* otherwise loop.stop() cancels the consumer.
CronStopped ==
    /\ main = "cronStop" /\ cron \in {"ended", "died"} /\ Settled
    /\ IF cron = "died" THEN main' = "unwound" /\ UNCHANGED <<interrupted, cancel>>
       ELSE main' = "join" /\ InterruptConsumer
    /\ UNCHANGED <<slack, kind, pc, open, verdict, outcome, tree, slackVars,
                   faults, cron, notice, noticed, queue, consumer, current, socket>>

JoinNone ==               \* mutant: the cancelled consumer is not awaited
    /\ main = "join"
    /\ main' = "gather"
    /\ UNCHANGED <<dispatchVars, cron, notice, noticed, queue, consumer, current,
                   interrupted, socket>>

\* loop.stop() raises what the consumer died of; otherwise it gathers the
\* background tasks.
Joined ==
    /\ main = "join" /\ consumer \in {"ended", "died"}
    /\ main' = IF consumer = "died" THEN "unwound" ELSE "gather"
    /\ UNCHANGED <<dispatchVars, cron, notice, noticed, queue, consumer, current,
                   interrupted, socket>>

\* The end of main(): its close_async() is for a handler that it never has here.
Gathered ==
    /\ main = "gather" /\ Background = {}
    /\ main' = "unwound"
    /\ UNCHANGED <<dispatchVars, cron, notice, noticed, queue, consumer, current,
                   interrupted, socket>>

\* asyncio.run: whatever is left is cancelled ...
CancelAll ==
    /\ main = "unwound" /\ Settled
    /\ main' = "cleanup"
    /\ interrupted' = interrupted \cup {"cron"} \cup Idle
    /\ cancel' = [t \in Tasks |-> cancel[t] \/ Running(t)]
    /\ socket' = IF socket = "open" THEN "closed" ELSE socket
    /\ UNCHANGED <<slack, kind, pc, open, verdict, outcome, tree, slackVars,
                   faults, cron, notice, noticed, queue, consumer, current>>

\* ... and awaited, before the process ends.
Exit ==
    /\ main = "cleanup"
    /\ cron \in {"none", "ended", "died"}
    /\ consumer \in {"ended", "died"}
    /\ \A t \in Tasks : ~Running(t)
    /\ main' = "exit"
    /\ UNCHANGED <<dispatchVars, cron, notice, noticed, queue, consumer, current,
                   interrupted, socket>>

-----------------------------------------------------------------------------

CronStep     == CronPlan \/ CronEnqueue \/ CronCancelled
ConsumerStep == Take \/ Executed \/ ConsumerCancelled
MainStep     == Boot \/ Connect \/ CronStopped \/ Joined \/ Gathered
                  \/ CancelAll \/ Exit

Next ==
    \/ Boot \/ Connect \/ Interrupt \/ StopServing \/ CronStopped \/ Joined
    \/ Gathered \/ CancelAll \/ Exit
    \/ Up /\ (CronPlan \/ CronFire \/ CronEnqueue \/ CronCancelled)
    \/ Up /\ (Take \/ Executed \/ ConsumerCancelled)
    \/ \E t \in Commands : Command(t)
    \/ \E t \in Tasks : Execute(t)

Spec == Init /\ [][Next]_vars

\* Every coroutine that can run is scheduled, and every call that is awaited
\* returns or raises: Slack, Ollama and Neo4j calls have time limits.  Commands,
\* the clock, an interrupt, the end of serve() and a kill are the environment's.
Fairness ==
    /\ WF_vars(MainStep)
    /\ WF_vars(Up /\ CronStep)
    /\ WF_vars(Up /\ ConsumerStep)
    /\ \A t \in Tasks : WF_vars(Up /\ Step(t) /\ UNCHANGED serviceVars)

FairSpec == Spec /\ Fairness

-----------------------------------------------------------------------------
(* Properties.                                                             *)

TypeOK ==
    /\ DispatcherTypeOK
    /\ main \in {"boot", "connect", "serve", "cronStop", "join", "gather", "unwound",
                 "cleanup", "exit"}
    /\ cron \in {"none", "begin", "sleep", "notice", "ended", "died"}
    /\ notice \in CronTasks \cup {NoTask}
    /\ noticed \subseteq CronTasks
    /\ queue \in Seq(Tasks)
    /\ consumer \in {"none", "get", "run", "ended", "died"}
    /\ current \in Tasks \cup {NoTask}
    /\ interrupted \subseteq {"cron", "consumer"}
    /\ socket \in {"none", "open", "closed"}

\* After an orderly shutdown - serve() has returned, which it only does without
\* Socket Mode - nothing that main() started is left for asyncio.run to cancel: no
\* cron task, no consumer still unwinding its run, no query.  The exception is an
\* exception that the cron task or the consumer had died of, which stop() raises
\* out of the finally block.
NothingLeftRunning ==
    /\ main = "unwound" /\ "cron" \in interrupted
    /\ cron # "died" /\ consumer # "died"
    => /\ cron = "ended" /\ consumer = "ended"
       /\ Background = {} /\ socket = "none"

\* However main() ends - serve() is over, an interrupt while it sleeps in
\* start_async(), an exception of the start-up or of a stop() - the process ends:
\* everything that was cancelled, the run with its closing notices and a query
\* included, comes to an end, and no cancellation is swallowed on its way.
ProcessEnds == main \notin {"boot", "connect", "serve"} ~> main = "exit"

\* A scheduled run that was announced is in the queue, unless the cron task was
\* cancelled between the notice and the enqueue: at shutdown, and only for the
\* last notice.  An outage of Slack neither ends the schedule nor drops a run.
NoticeBringsRun ==
    /\ noticed # {} => {t \in noticed : kind[t] = "none"} = {} \/ cron = "ended"
    /\ Cardinality({t \in noticed : kind[t] = "none"}) <= 1

\* A command that was acknowledged and enqueued is executed to its end, unless
\* main() is interrupted or an earlier task raised and took the consumer down with
\* it, which no outage of Slack alone can do.
AcksHonoured ==
    \A t \in Commands :
        kind[t] # "none" ~> \/ pc[t] = "done"
                            \/ \E u \in Tasks : RaisedByItself(u)
                            \/ main # "connect"

\* The process keeps the promise of its scheduler (TaskService.tla), whatever
\* fails in an execution, is cancelled or ends late: one task that writes at a
\* time, in the order in which the handlers and the cron trigger enqueued them,
\* and none executed twice.
StatusOf(t) ==
    IF kind[t] = "none" THEN "new"
    ELSE IF pc[t] = "none" THEN "pending" ELSE IF pc[t] = "done" THEN "over" ELSE "running"

taskStatus == [t \in Tasks |-> StatusOf(t)]
writing    == {t \in Tasks : kind[t] \notin {"none", "query"}}
queueOrder == {p \in Tasks \X Tasks : \E i, j \in 1..Len(queue) :
                                          i < j /\ p = <<queue[i], queue[j]>>}

Scheduler == INSTANCE TaskService
               WITH status <- taskStatus, active <- writing, before <- queueOrder

ImplementsTaskService == Scheduler!Spec

-----------------------------------------------------------------------------
(***************************************************************************)
(* The inductive invariant of the process, proved in ServiceProofs.tla.    *)
(***************************************************************************)
\* The queue holds exactly the tasks that were enqueued and have not begun,
\* each of them once.
QueueInv ==
    /\ \A i \in 1..Len(queue) : kind[queue[i]] # "none" /\ pc[queue[i]] = "none"
    /\ \A i, j \in 1..Len(queue) : queue[i] = queue[j] => i = j
    /\ \A t \in Tasks : kind[t] # "none" /\ pc[t] = "none" =>
                            \E i \in 1..Len(queue) : queue[i] = t

\* What writes and runs is what the consumer executes.
ConsumerInv ==
    /\ consumer = "run" => current \in Tasks /\ pc[current] # "none"
    /\ \A t \in Tasks : kind[t] # "query" /\ Running(t) => consumer = "run" /\ current = t

\* At most one notice is without its run: the one that was being posted when
\* the cron task was cancelled.
CronInv ==
    /\ cron = "notice" => notice \in CronTasks /\ kind[notice] = "none"
    /\ \A t \in CronTasks : kind[t] # "none" => t \in noticed
    /\ cron # "ended" => \A t \in noticed : kind[t] # "none"
    /\ \E last \in CronTasks \cup {NoTask} :
          \A t \in noticed : kind[t] = "none" => t = last

\* What each step of the shutdown finds stopped by those before it.
MainInv ==
    /\ main = "boot" => cron = "none" /\ consumer = "none"
    /\ main \in {"boot", "connect", "serve"} => interrupted = {}
    /\ main \in {"boot", "serve", "cronStop", "join", "gather"} => socket = "none"
    /\ main \in {"join", "gather"} => cron = "ended"
    /\ main = "gather" => consumer = "ended"
    /\ NothingLeftRunning

IInv ==
    /\ \A t \in Tasks : TaskInv(t)
    /\ strayed = {}
    /\ QueueInv /\ ConsumerInv /\ CronInv /\ MainInv
=============================================================================
