---------------------------- MODULE TaskService ----------------------------
(***************************************************************************)
(* What the scheduler promises about tasks, with no mention of consumers,  *)
(* locks or asyncio: docs/PROJECT_PLAN.md (Phase 3) asks for one mutation  *)
(* at a time, FIFO order, and no dropped or duplicated task, and           *)
(* tests/test_execution_coordinator.py tests each of these on the real     *)
(* ExecutionLoop.  ExecutionLoop.tla is shown to implement this module,    *)
(* and so is the process that is built around the loop, Service.tla.       *)
(***************************************************************************)

CONSTANT Tasks       \* every task anyone may submit

VARIABLES status,    \* where each task is in its life
          active,    \* the submitted tasks that mutate files; the others are queries
          before     \* <<u, t>>: both are pending, u was submitted first

vars == <<status, active, before>>

\* "lost": submitted, never executed, and given up by a shutdown.
Status == {"new", "pending", "running", "over", "lost"}

Pending == {t \in Tasks : status[t] = "pending"}

Init ==
    /\ status = [t \in Tasks |-> "new"]
    /\ active = {}
    /\ before = {}

Submit(t) ==
    /\ status[t] = "new"
    /\ status' = [status EXCEPT ![t] = "pending"]
    /\ active' \in {active, active \cup {t}}
    /\ before' = before \cup (Pending \X {t})

\* t is pending no longer.
Leave(t) == before' = {p \in before : p[1] # t /\ p[2] # t}

\* An active task begins only when no other active task runs and every active
\* task submitted before it has left the pending state.
Begin(t) ==
    /\ status[t] = "pending"
    /\ t \in active => \A u \in active : status[u] # "running" /\ <<u, t>> \notin before
    /\ status' = [status EXCEPT ![t] = "running"]
    /\ Leave(t)
    /\ UNCHANGED active

End(t) ==
    /\ status[t] = "running"
    /\ status' = [status EXCEPT ![t] = "over"]
    /\ UNCHANGED <<active, before>>

Lose(t) ==
    /\ status[t] = "pending"
    /\ status' = [status EXCEPT ![t] = "lost"]
    /\ Leave(t)
    /\ UNCHANGED active

Next == \E t \in Tasks : Submit(t) \/ Begin(t) \/ End(t) \/ Lose(t)

Spec == Init /\ [][Next]_vars
=============================================================================
