------------------------------ MODULE TaskTable ------------------------------
(***************************************************************************)
(* The rows of the tasks table (src/tasks/store.ts) and what each store    *)
(* operation makes of a row or of the whole table.  Everything here is a   *)
(* function from a table to a table, so that a handler which calls several *)
(* store operations without an await is one composed step.                 *)
(*                                                                         *)
(* A row keeps the columns the engine decides on:                          *)
(*   status   the status column, "absent" before the INSERT                *)
(*   run      run_id, NoRun for NULL                                       *)
(*   retries  retry_count (max_retries never changes: MaxRetries[t])       *)
(*   deps     the task's rows in task_dependencies                         *)
(*   delayed  scheduled_at lies in the future                              *)
(*   overdue  started_at lies more than taskTimeoutMs in the past          *)
(* Titles, results, reports, steps and the audit log are data that no      *)
(* guard reads and are left out.                                           *)
(***************************************************************************)
EXTENDS Naturals, FiniteSets

CONSTANTS
  Tasks,       \* task ids (UUIDs)
  MaxRetries,  \* the max_retries column of each task
  NoRun        \* run_id IS NULL

ASSUME TasksFinite == IsFiniteSet(Tasks)
ASSUME MaxRetriesType == MaxRetries \in [Tasks -> Nat]

Status == {"absent", "pending", "scheduled", "ready", "running", "waiting",
           "completed", "failed", "cancelled"}

\* A claim stores a UUID of the dispatcher's own, a spawn answers with the
\* subagent's run id: two kinds of name, never equal, fresh each time.
RunIds == {"claim", "spawn"} \X Tasks \X Nat

ASSUME NoRunIsNoRunId == NoRun \notin RunIds

Row == [status : Status, run : RunIds \cup {NoRun}, retries : Nat,
        deps : SUBSET Tasks, delayed : BOOLEAN, overdue : BOOLEAN]

Absent == [status |-> "absent", run |-> NoRun, retries |-> 0, deps |-> {},
           delayed |-> FALSE, overdue |-> FALSE]

LegalTransitions(s) ==
  CASE s = "pending"   -> {"ready", "scheduled", "cancelled"}
    [] s = "scheduled" -> {"ready", "cancelled"}
    [] s = "ready"     -> {"running", "cancelled"}
    [] s = "running"   -> {"completed", "failed", "waiting"}
    [] s = "waiting"   -> {"running", "failed", "cancelled"}
    [] s = "failed"    -> {"pending"}
    [] OTHER           -> {}

-----------------------------------------------------------------------------
(* Queries *)

WithStatus(tbl, S) == {t \in Tasks : tbl[t].status \in S}

AllDepsCompleted(tbl, t) == \A d \in tbl[t].deps : tbl[d].status = "completed"

\* Mutant: promotion forgets the dependencies.
EligibleWithoutDeps(tbl, t) ==
  tbl[t].status \in {"pending", "scheduled"} /\ ~tbl[t].delayed

Eligible(tbl, t) ==
  /\ tbl[t].status \in {"pending", "scheduled"}
  /\ ~tbl[t].delayed
  /\ AllDepsCompleted(tbl, t)

-----------------------------------------------------------------------------
(* Updates of one row *)

CanMove(row, s) == s \in LegalTransitions(row.status)

\* updateTaskStatus changes the status column only: run_id and started_at keep
\* the values of the attempt that set them.
Move(row, s) == [row EXCEPT !.status = s]

\* A row is inserted as "scheduled" only when scheduled_at lies in the future.
Created(deps, delayed) ==
  [Absent EXCEPT !.status = IF delayed THEN "scheduled" ELSE "pending",
                 !.deps = deps, !.delayed = delayed]

Claimed(row, run) ==
  [row EXCEPT !.status = "running", !.run = run, !.overdue = FALSE]

\* WHERE status = 'running' AND run_id = old
Owned(row, run) == row.status = "running" /\ row.run = run

RunUpdated(row, old, new) ==
  IF Owned(row, old) THEN [row EXCEPT !.run = new] ELSE row

CompleteTask(row, run, outcome) ==
  IF Owned(row, run) THEN [row EXCEPT !.status = outcome] ELSE row

\* Mutant: the retry leaves run_id behind.
RetriedWithRun(row) ==
  [row EXCEPT !.status = "pending", !.retries = @ + 1, !.delayed = TRUE, !.overdue = FALSE]

\* The retry delay is at least the row's retryAfterMs, 5 s by default, so the
\* new scheduled_at lies in the future (0 is possible: then it is due at once).
Retried(row) ==
  [row EXCEPT !.status = "pending", !.retries = @ + 1, !.delayed = TRUE,
              !.run = NoRun, !.overdue = FALSE]

-----------------------------------------------------------------------------
(* Updates of the table *)

\* promoteEligibleTasks: one UPDATE over every eligible row.
Promoted(tbl) ==
  [t \in Tasks |-> IF Eligible(tbl, t) THEN Move(tbl[t], "ready") ELSE tbl[t]]

\* resolveDependents: the same test for the dependents of one task.
ResolveDependents(tbl, t) ==
  [d \in Tasks |-> IF t \in tbl[d].deps /\ Eligible(tbl, d)
                   THEN Move(tbl[d], "ready") ELSE tbl[d]]

\* Mutant: running tasks are cancelled too.
CancelledWithRunning(tbl) ==
  [t \in Tasks |-> IF tbl[t].status \in {"pending", "scheduled", "ready", "running", "waiting"}
                   THEN Move(tbl[t], "cancelled") ELSE tbl[t]]

\* Mutant: everything is cancelled, what is completed included.
CancelledWithCompleted(tbl) ==
  [t \in Tasks |-> IF tbl[t].status \in {"pending", "scheduled", "ready", "waiting", "completed"}
                   THEN Move(tbl[t], "cancelled") ELSE tbl[t]]

\* cancelObjective: a running task is left to its worker.
Cancelled(tbl) ==
  [t \in Tasks |-> IF tbl[t].status \in {"pending", "scheduled", "ready", "waiting"}
                   THEN Move(tbl[t], "cancelled") ELSE tbl[t]]

\* recoverOrphanedTasks: a running row without run_id would be left alone.
Recovered(tbl) ==
  [t \in Tasks |-> IF tbl[t].status = "running" /\ tbl[t].run # NoRun
                   THEN Move(tbl[t], "failed") ELSE tbl[t]]

\* Mutant: one retry too many.
HandledWithExtraRetry(tbl, t) ==
  CASE tbl[t].status = "failed" /\ tbl[t].retries <= MaxRetries[t] ->
         [tbl EXCEPT ![t] = Retried(@)]
    [] tbl[t].status = "completed" -> ResolveDependents(tbl, t)
    [] OTHER -> tbl

\* handleTaskCompletion up to its first await: a failed task with retries left
\* is retried, a completed one releases its dependents, and any other status
\* (the call does not check) changes no row.
CompletionHandled(tbl, t) ==
  CASE tbl[t].status = "failed" /\ tbl[t].retries < MaxRetries[t] ->
         [tbl EXCEPT ![t] = Retried(@)]
    [] tbl[t].status = "completed" -> ResolveDependents(tbl, t)
    [] OTHER -> tbl
=============================================================================
