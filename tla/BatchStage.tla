----------------------------- MODULE BatchStage -----------------------------
(***************************************************************************)
(* One stage of a pipeline run that calls a model for every record:        *)
(* DescriptionService.describe_batch and EmbeddingService.embed_code_batch *)
(* and embed_description_batch.  The three have one shape: gather() over a *)
(* coroutine per record, a semaphore, and a progress callback awaited      *)
(* inside it, which saves the checkpoint in the description stage.         *)
(*                                                                         *)
(* Pipeline.tla takes such a stage for granted.  This module looks inside, *)
(* and in particular at what gather() leaves behind: when one coroutine    *)
(* raises, the run fails at once but the other coroutines go on, while     *)
(* the consumer of the queue starts the next run.  EmbeddingPipeline.run   *)
(* swallows the exception, so the queue is still served.                   *)
(*                                                                         *)
(* All runs are taken to have the same changed records, in the order of    *)
(* the list; so they share one checkpoint file.                            *)
(***************************************************************************)
EXTENDS Naturals, FiniteSets

CONSTANTS N,            \* how many records the runs have
          Chunks,       \* how many requests the service sends at once for a record
          Attempts,     \* how often it tries: 2 to describe, 1 to embed
          Concurrency,  \* concurrency.describe, .embed_code, .embed_description
          Saves,        \* whether on_progress saves the checkpoint
          Interval,     \* checkpoint.interval
          Flaky,        \* the records whose requests may fail
          Broken,       \* the records whose coroutine may raise
          None,
          MaxRuns       \* bound: how many runs are started

Records == 1..N
Runs    == 1..MaxRuns

ASSUME BatchAssumption ==
    /\ N \in Nat /\ MaxRuns \in Nat
    /\ Chunks \in [Records -> Nat \ {0}]
    /\ Attempts \in {1, 2}
    /\ Attempts = 2 => \A r \in Records : Chunks[r] = 1
    /\ Concurrency \in Nat \ {0} /\ Interval \in Nat \ {0}
    /\ Saves \in BOOLEAN
    /\ Flaky \subseteq Records /\ Broken \subseteq Records
    /\ None \notin {"ok", "error"} /\ \A S \in SUBSET Records : None # S

VARIABLES
    run,        \* the number of the latest run
    stage,      \* where its pipeline is
    task,       \* where the coroutine of a record is, for each run
    status,     \* description_status or code_embedding_status
    tries,      \* the attempt under way, 0 if none is
    completed,  \* the counter of a batch
    number,     \* the value of the counter that on_progress was given, 0 outside it
    flight,     \* the requests at the model server: <<run, record, chunk>>
    closed,     \* the runs whose OllamaClient has been closed
    file        \* the records whose results are in the checkpoint, or None

vars == <<run, stage, task, status, tries, completed, number, flight, closed, file>>

Alive == {"waiting", "working", "reporting"}
HeldToWork(g) ==           \* mutant: the progress is reported after the semaphore is left
    {r \in Records : task[g][r] = "working"}

\* Who is inside the semaphore.
Held(g) == {r \in Records : task[g][r] \in {"working", "reporting"}}
OkOf(g) == {r \in Records : status[g][r] = "ok"}
Saved == IF file = None THEN {} ELSE file
Sent(g, r) == {<<g, r, k>> : k \in 1..Chunks[r]}

Init ==
    /\ run = 0 /\ stage = "idle"
    /\ task = [g \in Runs |-> [r \in Records |-> "none"]]
    /\ status = [g \in Runs |-> [r \in Records |-> None]]
    /\ tries = [g \in Runs |-> [r \in Records |-> 0]]
    /\ completed = [g \in Runs |-> 0]
    /\ number = [g \in Runs |-> [r \in Records |-> 0]]
    /\ flight = {} /\ closed = {} /\ file = None

-----------------------------------------------------------------------------
(* The coroutines of a batch                                               *)

AcquireUnbounded(g, r) ==   \* mutant: no semaphore
    /\ task[g][r] = "waiting"
    /\ task' = [task EXCEPT ![g][r] = "working"]
    /\ tries' = [tries EXCEPT ![g][r] = 1]
    /\ flight' = flight \cup Sent(g, r)
    /\ UNCHANGED <<run, stage, status, completed, number, closed, file>>

\* async with sem: the waiters are served in the order of the list.
Acquire(g, r) ==
    /\ task[g][r] = "waiting"
    /\ \A s \in 1..(r - 1) : task[g][s] # "waiting"
    /\ Cardinality(Held(g)) < Concurrency
    /\ task' = [task EXCEPT ![g][r] = "working"]
    /\ tries' = [tries EXCEPT ![g][r] = 1]
    /\ flight' = flight \cup Sent(g, r)
    /\ UNCHANGED <<run, stage, status, completed, number, closed, file>>

\* The service has returned: count, and enter on_progress.
Finish(g, r, outcome) ==
    /\ status' = [status EXCEPT ![g][r] = outcome]
    /\ completed' = [completed EXCEPT ![g] = @ + 1]
    /\ number' = [number EXCEPT ![g][r] = completed'[g]]
    /\ task' = [task EXCEPT ![g][r] = "reporting"]
    /\ tries' = [tries EXCEPT ![g][r] = 0]

\* A chunk whose record has failed meanwhile is nobody's.
Unheeded == UNCHANGED <<task, status, tries, completed, number>>

Answer(g, r, k) ==
    /\ <<g, r, k>> \in flight /\ g \notin closed
    /\ flight' = flight \ {<<g, r, k>>}
    /\ IF task[g][r] = "working" /\ Sent(g, r) \cap flight' = {}
       THEN Finish(g, r, "ok")
       ELSE Unheeded
    /\ UNCHANGED <<run, stage, closed, file>>

FailEndlessly(g, r, k) ==   \* mutant: the attempts are not limited
    /\ <<g, r, k>> \in flight /\ (r \in Flaky \/ g \in closed)
    /\ tries' = [tries EXCEPT ![g][r] = @ + 1]
    /\ UNCHANGED <<run, stage, task, status, completed, number, flight, closed, file>>

\* An error, a timeout or an answer that is no JSON; a closed client fails
\* every request.  The gather() of the chunks raises at the first failure.
Fail(g, r, k) ==
    /\ <<g, r, k>> \in flight /\ (r \in Flaky \/ g \in closed)
    /\ IF task[g][r] = "working" /\ tries[g][r] < Attempts
       THEN /\ tries' = [tries EXCEPT ![g][r] = @ + 1]
            /\ UNCHANGED <<flight, task, status, completed, number>>
       ELSE /\ flight' = flight \ {<<g, r, k>>}
            /\ IF task[g][r] = "working" THEN Finish(g, r, "error") ELSE Unheeded
    /\ UNCHANGED <<run, stage, closed, file>>

AfterReport(g, r) ==
    IF Saves /\ number[g][r] % Interval = 0 THEN OkOf(g) ELSE file

\* on_progress comes back from the notifier, saves, and leaves the semaphore.
Report(g, r) ==
    /\ task[g][r] = "reporting"
    /\ file' = AfterReport(g, r)
    /\ task' = [task EXCEPT ![g][r] = "ended"]
    /\ number' = [number EXCEPT ![g][r] = 0]
    /\ UNCHANGED <<run, stage, status, tries, completed, flight, closed>>

RaiseInside(g, r) ==        \* mutant: a coroutine that raises keeps its slot
    /\ r \in Broken /\ task[g][r] \in {"working", "reporting"}
    /\ flight' = flight \ Sent(g, r)
    /\ stage' = IF g = run /\ stage = "batch" THEN "failed" ELSE stage
    /\ UNCHANGED <<run, task, status, tries, completed, number, closed, file>>

\* Something the service does not catch, or a checkpoint that cannot be
\* written.  The first exception ends gather(); the others are dropped.
Raise(g, r) ==
    /\ r \in Broken /\ task[g][r] \in {"working", "reporting"}
    /\ task' = [task EXCEPT ![g][r] = "raised"]
    /\ tries' = [tries EXCEPT ![g][r] = 0]
    /\ number' = [number EXCEPT ![g][r] = 0]
    /\ flight' = flight \ Sent(g, r)
    /\ stage' = IF g = run /\ stage = "batch" THEN "failed" ELSE stage
    /\ UNCHANGED <<run, status, completed, closed, file>>

-----------------------------------------------------------------------------
(* The run around it                                                       *)

\* The records that the checkpoint holds are not done again.
StartRun ==
    /\ run = 0 \/ run \in closed
    /\ stage # "cancelled"
    /\ run < MaxRuns /\ run' = run + 1
    /\ stage' = "batch"
    /\ status' = [status EXCEPT ![run'] = [r \in Records |->
                                              IF r \in Saved THEN "ok" ELSE None]]
    /\ task' = [task EXCEPT ![run'] = [r \in Records |->
                                          IF r \in Saved THEN "none" ELSE "waiting"]]
    /\ UNCHANGED <<tries, completed, number, flight, closed, file>>

EndEarly ==                 \* mutant: gather() does not wait for the progress callbacks
    /\ stage = "batch" /\ \A r \in Records : task[run][r] # "waiting"
    /\ stage' = "upsert"
    /\ file' = IF OkOf(run) = {} THEN file ELSE OkOf(run)
    /\ UNCHANGED <<run, task, status, tries, completed, number, flight, closed>>

\* gather() returns.  The results are saved once more before the upsert.
EndBatch ==
    /\ stage = "batch" /\ \A r \in Records : task[run][r] \notin Alive
    /\ stage' = "upsert"
    /\ file' = IF OkOf(run) = {} THEN file ELSE OkOf(run)
    /\ UNCHANGED <<run, task, status, tries, completed, number, flight, closed>>

\* The upsert has succeeded; the checkpoint is deleted.
Clear ==
    /\ stage = "upsert"
    /\ stage' = "complete"
    /\ file' = None
    /\ UNCHANGED <<run, task, status, tries, completed, number, flight, closed>>

\* The dispatcher's finally: pipeline.close().
Close ==
    /\ stage \in {"failed", "complete", "cancelled"} /\ run \notin closed
    /\ closed' = closed \cup {run}
    /\ UNCHANGED <<run, stage, task, status, tries, completed, number, flight, file>>

\* stop() cancels the consumer: a cancelled gather() cancels what it waits for.
Cancel ==
    /\ stage = "batch"
    /\ stage' = "cancelled"
    /\ task' = [task EXCEPT ![run] = [r \in Records |-> IF task[run][r] \in Alive
                                                        THEN "cancelled"
                                                        ELSE task[run][r]]]
    /\ tries' = [tries EXCEPT ![run] = [r \in Records |-> 0]]
    /\ number' = [number EXCEPT ![run] = [r \in Records |-> 0]]
    /\ flight' = {q \in flight : q[1] = run => task[run][q[2]] # "working"}
    /\ UNCHANGED <<run, status, completed, closed, file>>

Coroutine(g, r) ==
    \/ Acquire(g, r) \/ Report(g, r) \/ Raise(g, r)
    \/ \E k \in 1..Chunks[r] : Answer(g, r, k) \/ Fail(g, r, k)

Pipeline == EndBatch \/ Clear \/ Close

Next == StartRun \/ Cancel \/ Pipeline \/ \E g \in Runs, r \in Records : Coroutine(g, r)

\* The event loop runs whatever is ready, and a request ends, if only by its
\* timeout.  Nobody is obliged to start a run or to cancel one.
Fairness ==
    /\ WF_vars(Pipeline)
    /\ \A g \in Runs, r \in Records : WF_vars(Coroutine(g, r))

Spec == Init /\ [][Next]_vars /\ Fairness

-----------------------------------------------------------------------------
(* Properties                                                              *)

\* Variables have their types.
TypeOK ==
    /\ run \in 0..MaxRuns
    /\ stage \in {"idle", "batch", "upsert", "complete", "failed", "cancelled"}
    /\ task \in [Runs -> [Records -> Alive \cup {"none", "ended", "raised", "cancelled"}]]
    /\ status \in [Runs -> [Records -> {None, "ok", "error"}]]
    /\ tries \in [Runs -> [Records -> 0..Attempts]]
    /\ completed \in [Runs -> 0..N]
    /\ number \in [Runs -> [Records -> 0..N]]
    /\ flight \subseteq {q \in Runs \X Records \X Nat : q[3] \in 1..Chunks[q[2]]}
    /\ closed \subseteq Runs
    /\ file = None \/ file \subseteq Records

\* docs/CONFIG.md:233: `concurrency` is the maximum number of simultaneous
\* requests of a stage.  It counts every request at the server, those of the
\* coroutines a failed run has left behind included, until their client is
\* closed.  It holds where a record is one request; the chunks of a long
\* function are all sent from one slot, and exceed it.
RequestsBounded == Cardinality({q \in flight : q[1] \notin closed}) <= Concurrency

\* How much a crash can cost: a save waits for the notifier while the other
\* slots go on, but each save that is due keeps a slot, so at most Concurrency
\* intervals of finished work are not in the file.  (The first run: for the
\* later ones, see QuietWhenDone.)
UnsavedBounded ==
    Saves /\ run = 1 /\ stage = "batch" =>
        Cardinality(OkOf(1) \ Saved) <= Concurrency * Interval

\* Once gather() has returned nothing of the batch is under way: every record
\* has its outcome, no request is open and no callback may save again.  The
\* checkpoint that was deleted stays deleted, unless a coroutine that outlived
\* its failed run still saves it.
QuietWhenDone ==
    /\ stage \in {"upsert", "complete"} =>
         /\ \A r \in Records : status[run][r] # None /\ task[run][r] \in {"none", "ended"}
         /\ \A q \in flight : q[1] # run
    /\ stage = "complete" /\ file # None =>
         \E g \in 1..(run - 1), r \in Records : task[g][r] = "raised"

\* A coroutine that was started ends, also one whose run has failed long ago.
EveryTaskEnds ==
    \A g \in Runs, r \in Records : task[g][r] = "waiting" ~> task[g][r] \notin Alive

-----------------------------------------------------------------------------
(***************************************************************************)
(* The inductive invariant behind the safety properties, proved in         *)
(* BatchStageProofs.tla.                                                   *)
(***************************************************************************)
OneRequestEach == \A r \in Records : Chunks[r] = 1

\* Runs that were not started have nothing; the earlier ones are closed.
RunInv ==
    /\ \A g \in Runs, r \in Records : g > run => task[g][r] = "none" /\ completed[g] = 0
    /\ \A q \in flight : q[1] <= run
    /\ \A g \in Runs : g < run => g \in closed
    /\ \A g \in closed : g <= run
    /\ run \in closed => stage \in {"failed", "complete", "cancelled"}
    /\ run = 0 <=> stage = "idle"

Finished(g) ==
    {r \in Records : task[g][r] \in {"reporting", "ended", "raised", "cancelled"}}
CountInv == \A g \in Runs : completed[g] <= Cardinality(Finished(g))
SlotInv  == \A g \in Runs : Cardinality(Held(g)) <= Concurrency

\* With one request per record the open ones are those of coroutines at work.
RequestInv == OneRequestEach => \A q \in flight : task[q[1]][q[2]] = "working"

\* Only a failed run leaves coroutines behind, and it has one that raised.
OrphanInv ==
    \A g \in Runs : (g < run \/ stage = "failed") /\ (\E r \in Records : task[g][r] \in Alive)
                        => \E r \in Records : task[g][r] = "raised"

StageInv ==
    /\ \A g \in Runs, r \in Records :
          task[g][r] \in {"reporting", "ended"} => status[g][r] # None
    /\ stage = "batch" => \A r \in Records : task[run][r] \notin {"raised", "cancelled"}
    /\ stage \in {"upsert", "complete"} =>
          \A r \in Records : task[run][r] \in {"none", "ended"}
    /\ stage \in {"batch", "upsert", "complete"} =>
          \A r \in Records : task[run][r] = "none" => status[run][r] # None
    /\ stage = "cancelled" => \A r \in Records : task[run][r] \notin Alive

\* The file a complete run has deleted is back only if an orphan saved it.
FileInv ==
    stage = "complete" /\ file # None =>
        \E g \in 1..(run - 1), r \in Records : task[g][r] = "raised"

\* A save is due at every multiple of the interval, and until it was made its
\* record keeps a slot.  `last` is the count at the last save, or below it.
Due(last) ==
    {r \in Records : /\ task[1][r] = "reporting"
                     /\ number[1][r] > last /\ number[1][r] % Interval = 0}
UnsavedInv ==
    Saves /\ run = 1 /\ stage = "batch" =>
        \E last, saves, due \in 0..completed[1], rest \in 0..(Interval - 1) :
            /\ Cardinality(OkOf(1) \ Saved) <= completed[1] - last
            /\ saves * Interval <= last
            /\ completed[1] = (saves + due) * Interval + rest
            /\ due <= Cardinality(Due(last))
            /\ due = Concurrency => rest = 0

IInv ==
    /\ RunInv /\ CountInv /\ SlotInv /\ RequestInv /\ OrphanInv /\ StageInv
    /\ FileInv /\ UnsavedInv
=============================================================================
