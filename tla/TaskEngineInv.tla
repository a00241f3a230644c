---------------------------- MODULE TaskEngineInv ----------------------------
(***************************************************************************)
(* The inductive invariant behind the safety theorems of TaskEngine: what  *)
(* has to be known of a state so that no step of the engine can break      *)
(* DepsGate, AttemptBudget, RunRecorded, OneDispatchPerTask or the plan.   *)
(***************************************************************************)
EXTENDS TaskEngine

\* A row that was never claimed, or was reset by retryTask, names no run; a row
\* in the hands of a worker names one.
RunHygiene(tbl) ==
  \A t \in Tasks :
    /\ tbl[t].status \in {"absent", "pending", "scheduled", "ready"} => tbl[t].run = NoRun
    /\ tbl[t].status \in {"running", "waiting"} => tbl[t].run # NoRun

\* The claims of a task are its retries, and one more once it has been claimed
\* since the last retry.  Cancelling forgets which of the two it was.
ClaimsCounted(tbl, sq) ==
  \A t \in Tasks :
    /\ tbl[t].retries <= MaxRetries[t]
    /\ tbl[t].status = "absent" => tbl[t].retries = 0
    /\ tbl[t].status \in {"absent", "pending", "scheduled", "ready"}
         => sq[t].claims = tbl[t].retries
    /\ tbl[t].status \in {"running", "waiting", "completed", "failed"}
         => sq[t].claims = tbl[t].retries + 1
    /\ sq[t].claims <= tbl[t].retries + 1

TableInv(tbl, sq) ==
  /\ tbl \in [Tasks -> Row]
  /\ RunHygiene(tbl)
  /\ ClaimsCounted(tbl, sq)
  /\ DepsGateIn(tbl)

\* Only the CLI adds dependencies after a task was created.
LinkingByCli == \A t \in Tasks \ CliTasks : linking[t] = {}

\* A spawn of the tick is pending only while the tick awaits it.
TickOwnsSpawns == tick # "spawning" => \A p \in inflight : p.by # "tick"

IInv ==
  /\ TypeOK
  /\ TableInv(task, seq)
  /\ LinkingByCli
  /\ TickOwnsSpawns
  /\ OneDispatchPerTask
  /\ NoLostWakeup
=============================================================================
