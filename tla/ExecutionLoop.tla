--------------------------- MODULE ExecutionLoop ---------------------------
(***************************************************************************)
(* The asyncio scheduler of src/scheduler: TaskQueue (queue.py),           *)
(* ExecutionLoop (loop.py) and what the loop sees of a task's execution by *)
(* TaskDispatcher (dispatcher.py): it returns, it raises, or it unwinds    *)
(* after a cancellation.                                                   *)
(*                                                                         *)
(* One step is what a coroutine does between two points where it may be    *)
(* suspended.  A consumer that finds its next task already queued does not *)
(* suspend; here it may be interleaved there too, which only adds          *)
(* behaviours.                                                             *)
(***************************************************************************)
EXTENDS Naturals, Sequences, SequencesExt

CONSTANTS Tasks,         \* every task anyone may submit
          Passive,       \* the QueryTasks; the others hold the mutation lock
          NoTask,        \* what a consumer holds between two active tasks
          MayRaise,      \* the active tasks whose execution may raise
          MaxConsumers,  \* bound: how many times start() creates a consumer
          Stops          \* the calls of stop() that are made

ASSUME ConstantsAssumption ==
    /\ Passive \subseteq Tasks
    /\ NoTask \notin Tasks
    /\ MayRaise \subseteq Tasks \ Passive
    /\ MaxConsumers \in Nat \ {0}

Active    == Tasks \ Passive
Consumers == 1..MaxConsumers
None      == 0                \* Python's None, where a consumer is expected

VARIABLES
    queue,         \* TaskQueue._queue
    started,       \* ExecutionLoop._started
    consumerTask,  \* ExecutionLoop._consumer_task
    created,       \* consumers created so far
    pc,            \* where each _consume() coroutine is suspended
    cancelled,     \* consumers whose cancel() was called
    holds,         \* the active task a consumer has dequeued
    lockOwner,     \* the consumer inside `async with self._mutation_lock`
    lockWaiters,   \* asyncio.Lock._waiters
    background,    \* ExecutionLoop._background_tasks
    stopPc,        \* where each stop() call is suspended
    joins,         \* the consumer each stop() call awaits
    gathers,       \* the background tasks each stop() call awaits
    ended,         \* history: how the execution of each task ended
    ticket,        \* history: the position of each task in submission order
    issued,        \* history: the number of tasks submitted
    overlapped     \* history: the loop was started while a stop() was suspended

loopVars == <<started, consumerTask, created, overlapped>>
consVars == <<pc, cancelled, holds, lockOwner, lockWaiters>>
stopVars == <<stopPc, joins, gathers>>
histVars == <<ended, ticket, issued>>
vars == <<queue, loopVars, consVars, background, stopVars, histVars>>

Init ==
    /\ queue = <<>>
    /\ started = FALSE
    /\ consumerTask = None
    /\ created = 0
    /\ overlapped = FALSE
    /\ pc = [c \in Consumers |-> "none"]
    /\ cancelled = [c \in Consumers |-> FALSE]
    /\ holds = [c \in Consumers |-> NoTask]
    /\ lockOwner = None
    /\ lockWaiters = <<>>
    /\ background = {}
    /\ stopPc = [s \in Stops |-> "idle"]
    /\ joins = [s \in Stops |-> None]
    /\ gathers = [s \in Stops |-> {}]
    /\ ended = [t \in Tasks |-> "no"]
    /\ ticket = [t \in Tasks |-> 0]
    /\ issued = 0

-----------------------------------------------------------------------------
(* Callers: main.py, the Slack handlers, the cron trigger, the tests.      *)

Stopping == \E s \in Stops : stopPc[s] \in {"join", "gather"}

\* start(): create a consumer unless one was started.  Nothing forbids it while a
\* stop() is suspended; main.py never does it.
LaunchConsumer ==
    /\ created < MaxConsumers
    /\ overlapped' = (overlapped \/ Stopping)
    /\ started' = TRUE
    /\ created' = created + 1
    /\ consumerTask' = created + 1
    /\ pc' = [pc EXCEPT ![created + 1] = "get"]
    /\ UNCHANGED <<cancelled, holds, lockOwner, lockWaiters>>

StartAgain ==             \* mutant: start() does not test _started
    /\ LaunchConsumer
    /\ UNCHANGED <<queue, background, stopVars, histVars>>

Start ==
    /\ ~started
    /\ LaunchConsumer
    /\ UNCHANGED <<queue, background, stopVars, histVars>>

PutInFront(t) ==          \* mutant: a stack in place of the FIFO queue
    /\ ticket[t] = 0
    /\ queue' = <<t>> \o queue
    /\ issued' = issued + 1
    /\ ticket' = [ticket EXCEPT ![t] = issued + 1]
    /\ UNCHANGED ended

\* queue.enqueue(): the queue is unbounded, so put() never suspends.
Put(t) ==
    /\ ticket[t] = 0
    /\ queue' = Append(queue, t)
    /\ issued' = issued + 1
    /\ ticket' = [ticket EXCEPT ![t] = issued + 1]
    /\ UNCHANGED ended

\* The Slack handlers and the cron trigger enqueue without looking at the loop.
Enqueue(t) ==
    /\ Put(t)
    /\ UNCHANGED <<loopVars, consVars, background, stopVars>>

SubmitTask(t) ==
    /\ Put(t)
    /\ IF started THEN UNCHANGED <<loopVars, consVars>> ELSE LaunchConsumer
    /\ UNCHANGED <<background, stopVars>>

-----------------------------------------------------------------------------
(* _consume()                                                              *)

\* Lock.acquire() returns at once when the lock is free and no live waiter is
\* ahead of the caller.
LockIsFree ==
    /\ lockOwner = None
    /\ \A i \in DOMAIN lockWaiters : cancelled[lockWaiters[i]]

DispatchAny(c) ==         \* mutant: the task's type is not tested
    /\ pc[c] = "get" /\ ~cancelled[c]
    /\ queue # <<>>
    /\ queue' = Tail(queue)
    /\ background' = background \cup {Head(queue)}
    /\ UNCHANGED <<loopVars, consVars, stopVars, histVars>>

ForgetPassive(c) ==       \* mutant: the background task is not tracked
    /\ pc[c] = "get" /\ ~cancelled[c]
    /\ queue # <<>> /\ Head(queue) \in Passive
    /\ queue' = Tail(queue)
    /\ UNCHANGED <<loopVars, consVars, background, stopVars, histVars>>

DispatchPassive(c) ==
    /\ pc[c] = "get" /\ ~cancelled[c]
    /\ queue # <<>> /\ Head(queue) \in Passive
    /\ queue' = Tail(queue)
    /\ background' = background \cup {Head(queue)}
    /\ UNCHANGED <<loopVars, consVars, stopVars, histVars>>

TakeUnlocked(c) ==        \* mutant: `async with self._mutation_lock` is missing
    /\ pc[c] = "get" /\ ~cancelled[c]
    /\ queue # <<>> /\ Head(queue) \in Active
    /\ queue' = Tail(queue)
    /\ holds' = [holds EXCEPT ![c] = Head(queue)]
    /\ pc' = [pc EXCEPT ![c] = "execute"]
    /\ UNCHANGED <<loopVars, cancelled, lockOwner, lockWaiters, background, stopVars, histVars>>

TakeActive(c) ==
    /\ pc[c] = "get" /\ ~cancelled[c]
    /\ queue # <<>> /\ Head(queue) \in Active
    /\ queue' = Tail(queue)
    /\ holds' = [holds EXCEPT ![c] = Head(queue)]
    /\ \/ /\ LockIsFree
          /\ lockOwner' = c
          /\ pc' = [pc EXCEPT ![c] = "execute"]
          /\ UNCHANGED lockWaiters
       \/ /\ ~LockIsFree
          /\ lockWaiters' = Append(lockWaiters, c)
          /\ pc' = [pc EXCEPT ![c] = "lock"]
          /\ UNCHANGED lockOwner
    /\ UNCHANGED <<loopVars, cancelled, background, stopVars, histVars>>

AcquireLock(c) ==
    /\ pc[c] = "lock" /\ ~cancelled[c]
    /\ lockOwner = None
    /\ lockWaiters # <<>> /\ Head(lockWaiters) = c
    /\ lockOwner' = c
    /\ lockWaiters' = Tail(lockWaiters)
    /\ pc' = [pc EXCEPT ![c] = "execute"]
    /\ UNCHANGED <<queue, loopVars, cancelled, holds, background, stopVars, histVars>>

LeaveLocked(c, how, next) ==   \* mutant: the lock is not released
    /\ pc[c] = "execute"
    /\ holds' = [holds EXCEPT ![c] = NoTask]
    /\ ended' = [ended EXCEPT ![holds[c]] = how]
    /\ pc' = [pc EXCEPT ![c] = next]
    /\ UNCHANGED <<queue, loopVars, cancelled, lockOwner, lockWaiters, background,
                   stopVars, ticket, issued>>

\* execute() is left, one way or another: `async with` releases the lock.
Leave(c, how, next) ==
    /\ pc[c] = "execute"
    /\ lockOwner' = None
    /\ holds' = [holds EXCEPT ![c] = NoTask]
    /\ ended' = [ended EXCEPT ![holds[c]] = how]
    /\ pc' = [pc EXCEPT ![c] = next]
    /\ UNCHANGED <<queue, loopVars, cancelled, lockWaiters, background, stopVars,
                   ticket, issued>>

FinishActive(c) == ~cancelled[c] /\ Leave(c, "finished", "get")

\* Nothing in _consume() catches an exception: the consumer ends with it.  A
\* task may also raise while it unwinds from a cancellation.
ActiveRaises(c) == holds[c] \in MayRaise /\ Leave(c, "raised", "failed")

UnwindActive(c) == cancelled[c] /\ Leave(c, "cancelled", "cancelled")

CancelInGet(c) ==
    /\ pc[c] = "get" /\ cancelled[c]
    /\ pc' = [pc EXCEPT ![c] = "cancelled"]
    /\ UNCHANGED <<queue, loopVars, cancelled, holds, lockOwner, lockWaiters,
                   background, stopVars, histVars>>

CancelRetriesLock(c) ==   \* mutant: the wait for the lock swallows CancelledError
    /\ pc[c] = "lock" /\ cancelled[c]
    /\ UNCHANGED vars

\* A consumer cancelled while it waits for the lock takes its task with it.
CancelInLock(c) ==
    /\ pc[c] = "lock" /\ cancelled[c]
    /\ pc' = [pc EXCEPT ![c] = "cancelled"]
    /\ \E i \in DOMAIN lockWaiters :
          /\ lockWaiters[i] = c
          /\ lockWaiters' = RemoveAt(lockWaiters, i)
    /\ holds' = [holds EXCEPT ![c] = NoTask]
    /\ ended' = [ended EXCEPT ![holds[c]] = "dropped"]
    /\ UNCHANGED <<queue, loopVars, cancelled, lockOwner, background, stopVars,
                   ticket, issued>>

Consume(c) ==
    \/ DispatchPassive(c) \/ TakeActive(c) \/ AcquireLock(c)
    \/ FinishActive(c) \/ ActiveRaises(c) \/ UnwindActive(c)
    \/ CancelInGet(c) \/ CancelInLock(c)

\* The done callback discards a background task, however it ended.
FinishPassive(t) ==
    /\ t \in background
    /\ background' = background \ {t}
    /\ ended' = [ended EXCEPT ![t] = "finished"]
    /\ UNCHANGED <<queue, loopVars, consVars, stopVars, ticket, issued>>

-----------------------------------------------------------------------------
(* stop()                                                                  *)

ReturnAtOnce(s) ==        \* mutant: stop() does not gather
    /\ gathers' = [gathers EXCEPT ![s] = background]
    /\ stopPc' = [stopPc EXCEPT ![s] = "returned"]

\* The last part of stop(): gather the background tasks of this moment.
GatherOrReturn(s) ==
    /\ gathers' = [gathers EXCEPT ![s] = background]
    /\ stopPc' = [stopPc EXCEPT ![s] = IF background = {} THEN "returned" ELSE "gather"]

StopNotStarted(s) ==
    /\ stopPc[s] = "idle" /\ ~started
    /\ stopPc' = [stopPc EXCEPT ![s] = "returned"]
    /\ UNCHANGED <<queue, loopVars, consVars, background, joins, gathers, histVars>>

StopCancels(s) ==
    /\ stopPc[s] = "idle" /\ started
    /\ started' = FALSE
    /\ \/ /\ consumerTask # None
          /\ cancelled' = [cancelled EXCEPT ![consumerTask] = TRUE]
          /\ joins' = [joins EXCEPT ![s] = consumerTask]
          /\ stopPc' = [stopPc EXCEPT ![s] = "join"]
          /\ UNCHANGED gathers
       \/ /\ consumerTask = None
          /\ GatherOrReturn(s)
          /\ UNCHANGED <<cancelled, joins>>
    /\ UNCHANGED <<queue, consumerTask, created, overlapped, pc, holds, lockOwner,
                   lockWaiters, background, histVars>>

\* `await self._consumer_task` ends with the consumer's CancelledError, which
\* is swallowed ...
StopJoins(s) ==
    /\ stopPc[s] = "join" /\ pc[joins[s]] = "cancelled"
    /\ consumerTask' = None
    /\ GatherOrReturn(s)
    /\ UNCHANGED <<queue, started, created, overlapped, consVars, background, joins,
                   histVars>>

\* ... or with the exception that killed the consumer, which is not.
StopRaises(s) ==
    /\ stopPc[s] = "join" /\ pc[joins[s]] = "failed"
    /\ stopPc' = [stopPc EXCEPT ![s] = "raised"]
    /\ UNCHANGED <<queue, loopVars, consVars, background, joins, gathers, histVars>>

StopGathers(s) ==
    /\ stopPc[s] = "gather" /\ gathers[s] \cap background = {}
    /\ stopPc' = [stopPc EXCEPT ![s] = "returned"]
    /\ UNCHANGED <<queue, loopVars, consVars, background, joins, gathers, histVars>>

Stop(s) == StopNotStarted(s) \/ StopCancels(s)
StopProceeds(s) == StopJoins(s) \/ StopRaises(s) \/ StopGathers(s)

Next ==
    \/ Start
    \/ \E t \in Tasks : Enqueue(t) \/ SubmitTask(t) \/ FinishPassive(t)
    \/ \E c \in Consumers : Consume(c)
    \/ \E s \in Stops : Stop(s) \/ StopProceeds(s)

Spec == Init /\ [][Next]_vars

(***************************************************************************)
(* The event loop runs every ready coroutine, and an execution ends: every *)
(* model call has a timeout.  Nobody is obliged to call anything.          *)
(***************************************************************************)
FairSpec ==
    /\ Spec
    /\ \A c \in Consumers : WF_vars(Consume(c))
    /\ \A t \in Tasks : WF_vars(FinishPassive(t))
    /\ \A s \in Stops : WF_vars(StopProceeds(s))

-----------------------------------------------------------------------------
(* Properties                                                              *)

TypeOK ==
    /\ queue \in Seq(Tasks)
    /\ started \in BOOLEAN
    /\ consumerTask \in {None} \cup Consumers
    /\ created \in 0..MaxConsumers
    /\ overlapped \in BOOLEAN
    /\ pc \in [Consumers -> {"none", "get", "lock", "execute", "cancelled", "failed"}]
    /\ cancelled \in [Consumers -> BOOLEAN]
    /\ holds \in [Consumers -> Active \cup {NoTask}]
    /\ lockOwner \in {None} \cup Consumers
    /\ lockWaiters \in Seq(Consumers)
    /\ background \subseteq Passive
    /\ stopPc \in [Stops -> {"idle", "join", "gather", "returned", "raised"}]
    /\ joins \in [Stops -> {None} \cup Consumers]
    /\ gathers \in [Stops -> SUBSET Passive]
    /\ ended \in [Tasks -> {"no", "finished", "raised", "cancelled", "dropped"}]
    /\ ticket \in [Tasks -> Nat]
    /\ issued \in Nat

Queued(t)    == \E i \in DOMAIN queue : queue[i] = t
Holding(c)   == pc[c] \in {"lock", "execute"}
Executing(t) == \/ t \in background
                \/ \E c \in Consumers : pc[c] = "execute" /\ holds[c] = t
Live(c)      == pc[c] \in {"get", "lock", "execute"}

\* At most one active task is being executed, even while a cancelled consumer
\* still unwinds and its successor already consumes (_mutation_lock; "mutation
\* exclusivity never exceeds one active task").
MutualExclusion ==
    \A c, d \in Consumers : pc[c] = "execute" /\ pc[d] = "execute" => c = d

\* A submitted task is in one place until it has ended: at one position of the
\* queue, held by one consumer, or in the background ("do not drop or duplicate
\* tasks").
Conservation ==
    \A t \in Tasks :
        /\ \A i, j \in DOMAIN queue : queue[i] = t /\ queue[j] = t => i = j
        /\ \A c, d \in Consumers : holds[c] = t /\ holds[d] = t => c = d
        /\ (ticket[t] # 0 /\ ended[t] = "no") <=>
              \/ Queued(t) \/ t \in background
              \/ \E c \in Consumers : holds[c] = t
        /\ ~(Queued(t) /\ (t \in background \/ \E c \in Consumers : holds[c] = t))

\* The task of a consumer that stop() cancelled while it waited for the lock.
GivenUp(t) ==
    \E c \in Consumers : pc[c] = "lock" /\ cancelled[c] /\ holds[c] = t

\* The scheduler implements what TaskService.tla promises: active tasks one at
\* a time in submission order, each task executed at most once.
StatusOf(t) ==
    IF ticket[t] = 0 THEN "new"
    ELSE IF ended[t] = "dropped" \/ GivenUp(t) THEN "lost"
    ELSE IF ended[t] # "no" THEN "over"
    ELSE IF Executing(t) THEN "running" ELSE "pending"

taskStatus == [t \in Tasks |-> StatusOf(t)]
submitted  == {t \in Active : ticket[t] # 0}
waitOrder  ==
    {p \in Tasks \X Tasks : /\ StatusOf(p[1]) = "pending" /\ StatusOf(p[2]) = "pending"
                            /\ ticket[p[1]] < ticket[p[2]]}

Service == INSTANCE TaskService
             WITH status <- taskStatus, active <- submitted, before <- waitOrder

ImplementsTaskService == Service!Spec

StoppedCleanly ==
    (/\ ~started /\ ~Stopping
     /\ \A s \in Stops : stopPc[s] # "raised")
        => background = {} /\ \A c \in Consumers : ~Live(c)

Reachable == \A c \in Consumers : Live(c) => consumerTask = c

NoneGivenUp == \A t \in Tasks : ended[t] # "dropped"

\* As long as nobody has started the loop while a stop() was suspended: once stop()
\* has returned and nobody has started the loop again, no consumer is left to take
\* tasks and no background task is still running ("Track background tasks to ensure
\* orderly shutdown").
OrderlyShutdown == ~overlapped => StoppedCleanly

\* Under the same condition the loop never has two consumers, and stop() can always
\* reach the one it has (_consumer_task).
OneConsumer == ~overlapped => Reachable

\* Under the same condition no dequeued active task is given up before it was
\* executed.
NothingDropped == ~overlapped => NoneGivenUp

\* While the loop is started every queued task is eventually dequeued, whatever
\* came before it in the queue - unless an active task raised.
QueueIsServed ==
    \A t \in Tasks :
        Queued(t) /\ started
            ~> ~Queued(t) \/ ~started \/ \E c \in Consumers : pc[c] = "failed"

\* The same, for a scheduler that survives a failing task ("Loop continues").
QueueIsServedDespiteFailures ==
    \A t \in Tasks : Queued(t) /\ started ~> ~Queued(t) \/ ~started

\* Every call of stop() ends: the consumer it cancels is never stuck behind the
\* lock, and background tasks end.
StopEnds ==
    \A s \in Stops : stopPc[s] \in {"join", "gather"} ~> stopPc[s] \in {"returned", "raised"}

-----------------------------------------------------------------------------
(***************************************************************************)
(* The inductive invariant behind MutualExclusion, Conservation and        *)
(* ImplementsTaskService (proved in ExecutionLoopProofs.tla).  Tickets     *)
(* tell the order of submission: the queue is sorted, whatever has left    *)
(* the queue is older than whatever is still in it, and so is the line of  *)
(* waiters at the lock.                                                    *)
(***************************************************************************)
FreshInv == \A c \in Consumers : c > created => pc[c] = "none"

LockInv ==
    /\ \A c \in Consumers : pc[c] = "execute" => lockOwner = c
    /\ \A c \in Consumers :
          pc[c] = "lock" <=> \E i \in DOMAIN lockWaiters : lockWaiters[i] = c
    /\ \A i, j \in DOMAIN lockWaiters :
          i < j => ticket[holds[lockWaiters[i]]] < ticket[holds[lockWaiters[j]]]

HoldInv ==
    /\ \A c \in Consumers :
          Holding(c) => /\ holds[c] \in Active
                        /\ ticket[holds[c]] # 0
                        /\ ended[holds[c]] = "no"
                        /\ \A i \in DOMAIN queue : ticket[holds[c]] < ticket[queue[i]]
    /\ \A c \in Consumers : ~Holding(c) => holds[c] = NoTask
    /\ \A c, d \in Consumers :
          Holding(c) /\ Holding(d) /\ holds[c] = holds[d] => c = d

QueueInv ==
    /\ \A t \in Tasks : ticket[t] <= issued /\ (ticket[t] = 0 => ended[t] = "no")
    /\ \A i \in DOMAIN queue : ticket[queue[i]] # 0 /\ ended[queue[i]] = "no"
    /\ \A i, j \in DOMAIN queue : i < j => ticket[queue[i]] < ticket[queue[j]]
    /\ \A t \in background :
          /\ ticket[t] # 0 /\ ended[t] = "no"
          /\ \A i \in DOMAIN queue : ticket[t] < ticket[queue[i]]

PlaceInv ==
    \A t \in Tasks :
        ticket[t] # 0 /\ ended[t] = "no" =>
            \/ Queued(t) \/ t \in background
            \/ \E c \in Consumers : Holding(c) /\ holds[c] = t

IInv == FreshInv /\ LockInv /\ HoldInv /\ QueueInv /\ PlaceInv

(***************************************************************************)
(* What holds as long as nobody has started the loop while a stop() was    *)
(* suspended (~overlapped): one stop() at a time is suspended, it awaits   *)
(* the only consumer there is, and so nobody ever waits for the lock.      *)
(***************************************************************************)
Joining == \E s \in Stops : stopPc[s] = "join"

StopInv ==
    /\ started => ~Stopping /\ consumerTask # None
    /\ \A s \in Stops : stopPc[s] = "join" => consumerTask # None /\ joins[s] = consumerTask
    /\ \A s \in Stops :
          stopPc[s] = "gather" => consumerTask = None /\ background \subseteq gathers[s]
    /\ \A s, z \in Stops :
          {stopPc[s], stopPc[z]} \subseteq {"join", "gather"} => s = z
    /\ background # {} => started \/ Stopping \/ \E s \in Stops : stopPc[s] = "raised"

OwnerInv ==
    /\ Reachable
    /\ consumerTask # None => started \/ Joining \/ pc[consumerTask] = "failed"
    /\ lockOwner # None => pc[lockOwner] = "execute"
    /\ \A c \in Consumers : pc[c] # "lock"
    /\ NoneGivenUp
=============================================================================
