# A verification project for PiperClaw's task engine and its schedulers

PiperClaw is a fork of the OpenClaw assistant that adds *Piper*, a workflow engine:
objectives made of tasks, a dispatcher that starts a worker subagent for each task
that is ready, events a task can wait for, approval by a human, retries and recovery.
This directory models in TLA+ that engine, the statements of its event bus, the loop
of its dispatcher with the wakes of the manager, the registry of the subagents it
starts, the in-process queue every agent run goes through, and the cron service beside
it. TLC checks the models on small instances; TLAPS proves the safety properties of
all six of them for every value of the constants. Paths below are relative to the
repository's `src/` directory.

## 1. The system

### 1.1 Who runs where

```
 gateway process (one JavaScript thread)                     other processes
 ┌──────────────────────────────────────────────────────┐   ┌─────────────────┐
 │ dispatcher tick ── claims ──► spawn (awaits "agent")  │   │ openclaw tasks  │
 │   ▲ timer, nudge                    │                 │   │  create approve │
 │   │                                 ▼                 │   │  reject cancel  │
 │ handleTaskCompletion ◄── subagent_ended ◄── worker    │   └───────┬─────────┘
 │   ▲                                  │ wait_for_event │           │
 │ sweeps, resumeTask ◄── notify, approve, RPC methods   │           │
 └───────────────────────────┬──────────────────────────┘           │
                             ▼                                       ▼
                    SQLite store (tasks, task_dependencies, task_events,
                    task_wait_conditions, objectives, reports, steps, audit)
```

The gateway is one thread, so the code between two `await`s is atomic with
respect to everything else in the gateway; better-sqlite calls are synchronous.
A CLI command is another process on the same database: only single statements
and explicit transactions are atomic against it. Workers are subagents; they act
through tools that run in the gateway, and their end is reported to
`notifyTaskCompletionFromSubagent`.

### 1.2 Components

| component | state | operations | interacts through | what makes it correct |
|---|---|---|---|---|
| Task store (`tasks/store.ts`, `types.ts`) | rows of tasks, dependencies, waits, events | create, claim, complete, retry, promote, cancel, move, consume, find | SQL statements guarded by `status` and `run_id` | statuses move along `LEGAL_TRANSITIONS`; the guarded UPDATEs make stale completions harmless |
| Dispatcher (`tasks/dispatcher.ts`, `deps.ts`) | `tickInProgress`, `nudgePending`, `tickCount`, wake and dispatch times | tick: three sweeps, promote, claim, spawn; `handleTaskCompletion` | store; awaits spawns and manager wakes | a task starts only after its dependencies, once per attempt, at most `maxRetries`+1 times, within the limit; everything overdue or orphaned is swept |
| Task service (`tasks/service.ts`) | the singleton | start, stop, recovery, resume, completion callback | store, dispatcher, subagent spawn | a suspended task is resumed exactly by its event; a crash leaves no row in limbo |
| Event bus, approvals (`tasks/events.ts`, `hitl.ts`, `wait-event-tool.ts`, `notify-tool.ts`) | rows of events and waits | emit, register a wait, notify, approve, reject | store, `resumeTask` | no wakeup is lost |
| RPC methods, tasks tool, tasks CLI | – | create, cancel, approve, reject, emit | store and service | clients in other processes do not break the promises above |
| Manager callback (`tasks/manager-callback.ts`) | wake times per objective, kept by the dispatcher | `shouldWakeManager` | completion handling | a decision that is needed wakes the manager, once |
| Subagent registry (`agents/subagent-registry*.ts`, `subagent-announce.ts`, `subagent-control.ts`) | run records in memory and on disk, `resumedRuns`, hooks in flight, error timers | register, listener events, `agent.wait`, hook, announce, retry, kill, steer, wake, archive, restore | gateway calls, lifecycle events, the `subagent_ended` hook that the task service listens to | each end reported once, announced at most once, never forgotten |
| Cron service (`cron/service/*.ts`) | jobs in memory and in a file, the timer, `running` | start with catch-up, tick, manual run, add, update, remove, list | a lock per store path; runs lie outside it | a job runs once at a time, no marker or slot is lost, the timer never dies |
| Command queue (`process/command-queue.ts`), routes (`pi-embedded-runner/run.ts`, `lanes.ts`), restart (`cli/gateway-cli/run-loop.ts`) | per lane: waiting entries, active tasks, limit, generation; `gatewayDraining` | enqueue, pump, complete, clear, set the limit, drain, reset | every agent run goes through a session's lane and, inside it, a global one | one run per session, a cap per lane, no lane idle with work waiting, every accepted command settles |
| steps, reports, notifications, hooks, dashboard, import | texts and rows no guard reads | – | – | – |
| inherited assistant (channels, agents, apps) | – | – | – | outside this project |

### 1.3 What is hard here

* A completion can arrive from four callers (worker end, spawn failure, sweeps,
  the tick's error handler) in any order relative to the tick.
* `resumeTask` and the tick both suspend at an `await` with a row in an
  intermediate state: the row still names a run that is no longer the one meant.
* The sweeps loop over a snapshot and await inside the loop.
* A spawn can fail with its subagent alive (timeout of the "agent" call).
* The gateway can die at any step; the CLI acts on the store behind its back.
* `emitEvent` and `registerWaitCondition` are four statements each, with no
  transaction; two processes interleave them.
* The end of a subagent is heard from four sides, its hook is awaited in several
  places, and its announcement is resumed by timers, descendants, steers and restarts.
* A nudge during a tick is one flag; a wake of the manager is awaited by the tick or
  by a worker's end, and the next one within ten seconds is dropped.
* A cron tick, a manual run and an edit alternate under one lock, while the runs they
  speak of go on outside it and the store is read again from its file.
* A command holds its slot in one lane while it waits in the next; clears, limits
  that change and a restart inside the process hit it in any of these places.

`PROJECT.json` lists each of these at its line under "hazards", with the
properties that cover it.

## 2. The modules

| module | what it is |
|---|---|
| `TaskTable` | the tasks table as a function, and each store operation as a function from a table to a table. Stateless, used by everything else. |
| `TaskEngine` | the engine: variables, one action per handler or per stretch of code between two awaits, specification, fairness, properties. |
| `TaskPlan` | the abstract specification: each task is *open*, *active*, *done*, *failed* or *dropped*; a gated task starts only when what it needs is done; attempts are bounded; done and dropped are final. |
| `TaskEngineInv` | the inductive invariant `IInv`. |
| `TaskEngineInv_proofs` | lemmas about the table: what each store operation preserves. |
| `TaskEngine_proofs` | the step lemmas and the theorems, the refinement of `TaskPlan` among them. |
| `EventBus` | `emitEvent` and `registerWaitCondition` statement by statement, in gateways and command lines that may be killed. |
| `EventBus_proofs` | its inductive invariant `BusInv` and theorems. |
| `CommandLanes` | the command queue with the lanes a run enters one inside the other, and the restart inside the process. |
| `CommandLanes_proofs` | its inductive invariant `LanesInv` and theorems. |
| `ManagerWake` | the dispatcher's loop: timer, nudges and their flag, sweeps and spawns as far as they await, the handling of a task's end, and the wakes it leads to. |
| `ManagerWake_proofs` | its inductive invariant `IInv` and theorems. |
| `SubagentRegistry` | run records from registration to clean-up, in memory and on disk. |
| `SubagentRegistry_proofs` | its inductive invariant `IInv`, run by run, and theorems. |
| `CronService` | the cron service: its locked sections and the runs between them. |
| `CronService_proofs` | its inductive invariants `CronInv`, `OneRun` and `Scheduled`, and the theorems about its states. |
| `CronSteps_proofs` | its inductive invariants `Agree` and `Spent`, and the theorems about its steps. |
| `MCTaskEngine`, `MCEventBus`, `MCCommandLanes`, `MCManagerWake`, `MCSubagentRegistry`, `MCCronService` | constants for TLC. |

`TaskEngine` extends `TaskTable` and instantiates `TaskPlan`. `EventBus` looks
inside steps that `TaskEngine` takes as one. `CommandLanes` lies below both: an
"agent" call of the engine ends up as an entry of the `subagent` lane; the two share
no state, so they are not composed. `ManagerWake` takes the same code as `TaskEngine`
from the other side: rows are reduced to what slots and decisions depend on, and the
wake, which `TaskEngine` knows only as an await, is worked out. `SubagentRegistry`
supplies what `TaskEngine` assumes of a worker, that its end is reported at most
once (`HookOnce`). `CronService` shares nothing with the engine but the queue.

### 2.1 State of `TaskEngine`

| variable | code |
|---|---|
| `task[t]` | the row of `tasks` and its rows in `task_dependencies`. `delayed` stands for "scheduled_at is in the future", `overdue` for "started_at is older than taskTimeoutMs". |
| `linking[t]` | the dependencies a `tasks create --depends-on` process has not inserted yet |
| `waits`, `events` | `task_wait_conditions`; the unconsumed rows of `task_events` |
| `workers` | subagents alive, by run id (they survive a restart of the gateway) |
| `inflight` | awaits of a spawn, by the tick or by `resumeTask` |
| `tick`, `todo`, `ticks` | where the tick is suspended, the snapshot of a suspended sweep, `tickCount` modulo `stuckSweepEveryNTicks` |
| `seq` | freshness of run ids, and a count of claims per task |
| `emitted`, `crashes` | bounds |

A run id is a fresh name: `<<"claim", t, n>>` for the UUID the dispatcher claims
with, `<<"spawn", t, n>>` for the one a spawn answers with.

### 2.2 Actions of `TaskEngine`

| action | code |
|---|---|
| `CreateTask`, `CliCreateTask`, `CliAddDependency` | `tasks.create` in the tool is one step; in the CLI the INSERT and each dependency are steps of their own |
| `CancelTask`, `CancelObjective` | tool and CLI cancels |
| `TickStart` … `TickEnd` | `scheduleTick`/`tick`: a phase for each place the tick can be suspended. `SweepStuckTasks`, `SweepExpiredWaits`, `SweepOrphanedWaiting` take one turn of their loop per step, because each turn may await the manager wake; `Dispatch` is `getReadyTasks` with its promotion, the claims and the start of all spawns |
| `WorkerStarts`, `SpawnAccepted`, `SpawnFails` | the "agent" call: the subagent starts, the call answers, the call fails or times out (also after the start) |
| `WorkerEnds` | `notifyTaskCompletionFromSubagent` and `handleTaskCompletion` up to its await |
| `WaitForEvent` | the `wait_for_event` tool |
| `EmitSignal`, `ApproveTask`, `CliApproveTask`, `RejectTask` | `notify`, `tasks.events.emit`, approvals and rejections, followed by `resumeTask` up to its await |
| `ScheduleDue`, `BecomesOverdue` | time passes |
| `Restart` | crash, or stop and start, with the constructor's recovery |

### 2.3 `EventBus`

| variable | code |
|---|---|
| `event[e]`, `wait[w]` | rows of `task_events` (unconsumed or consumed) and of `task_wait_conditions` |
| `proc[p]` | which statement of its call a process executes next, and with which rows |
| `killed` | processes that have died, at any statement |
| `answered` | history: the calls that returned a match, with its rows |

`InsertEvent`, `FindMatchingWait`, `ConsumeEvent`, `RemoveWaitCondition` are the
statements of `emitEvent`; `InsertWaitCondition`, `FindUnconsumedEvent` and the same
last two those of `registerWaitCondition`. Any process emits (`openclaw tasks approve`
does), only the gateway registers. One gateway is at work at a time and another
starts when it has died. Names and filters are a relation `Fits`; "the oldest that
fits" is any that fits, because `created_at` counts milliseconds.

### 2.4 `CommandLanes`

| variable | code |
|---|---|
| `queue[l]`, `active[l]`, `limit[l]` | `LaneState.queue`, `activeTaskIds`, `maxConcurrent` |
| `due` | the lanes whose `pump` is on the call stack. While there is one, nothing else runs; they are taken in any order, which covers the order of the code |
| `at[c]`, `phase[c]` | where on its route a command is and what it does there |
| `restart`, `snapshot`, `cutShort` | `gatewayDraining` and the stage of the run loop, the ids `waitForActiveTasks` waits for, history: a drain has run into its timeout |

| action | code |
|---|---|
| `Enqueue` | `enqueueCommandInLane` into the first lane of the route, or its rejection while draining |
| `Start`, `PumpEnds` | a turn of the loop in `drainLane`'s `pump`; the task of an outer lane enqueues into the next lane in the same step |
| `EnterSession` | the run of a manual cron job reaches its session's lane |
| `Leave` | the entry's `then` or `catch`: `completeTask`, `pump`, and `resolve`, which the lane around it awaits |
| `Clear`, `SetConcurrency` | `clearCommandLane` on a session's lane, `setCommandLaneConcurrency` |
| `DrainBegins`, `DrainEnds`, `ResetAllLanes` | `markGatewayDraining` and `waitForActiveTasks`, its return or timeout, `resetAllLanes` after the restart |

A task's generation is not a variable. It decides one thing, whether a completion
still counts, and a completion of an older generation is exactly one whose command
is no longer in `active[l]`. A restart with a fresh process leaves nothing of the
queue, so only the restart inside the process is modelled. The wait for embedded
runs, which runs beside the drain, is left out: whether a drain ends by completion
or by timeout is a choice of `DrainEnds`.

### 2.5 `ManagerWake`

| variable | code |
|---|---|
| `row[t]` | the row; *pending* stands for pending, scheduled and ready, and `due` says that schedule and dependencies let the next tick take it |
| `tick`, `nudged`, `snapshot`, `spawning` | where the tick is, `nudgePending`, the rows a sweep has still to go through, the spawns the tick awaits |
| `resuming` | spawns that `resumeTask` awaits |
| `waking` | handlers that await `onManagerWake`: the task, and whether a worker's end, a sweep or a failed spawn called |
| `window` | the objectives whose entry in `lastManagerWakeByObjective` is less than ten seconds old |
| `silent`, `news`, `asked`, `outlived` | history, see the properties; `outlived`: tasks that the manager was asked about, and whose spawn had not answered when the window of that question closed |

`Timer`, `Sweep`, `OrphanTurn`, `Look`, `SpawnAccepted`, `SpawnFails`, `TickEnd` are the
tick from await to await; `WorkerEnds`, `Handle`, `WakeSettles` the completion
handling; `CreateTask`, `CancelTask`, `CancelObjective`, `Resume`, `ResumeAccepted`,
`ResumeFails`, `RejectTask`, `WaitForEvent` the clients as far as they nudge or do not.
Dependencies are inside `due`, which any step that nudges may set. A window closes at
any moment, whatever is pending. It lasts ten seconds, as each of the gateway calls of a
spawn may; and a spawn makes up to two `sessions.patch` calls and an update of the
session store before the "agent" call, and may delete the session after it
(`subagent-spawn.ts:490`, `:499`, `:631`, `:657`, `:718`), so it can outlive the window.

### 2.6 `SubagentRegistry`

| variable | code |
|---|---|
| `reg.runs[r]` | the run's record: why it is in the registry or not, clean-up mode, end, hook emitted, tries, clean-up begun and done, back-off, expiry, suppression by a steer or a kill |
| `reg.marks` | `resumedRuns` |
| `reg.timers` | the grace timer of an error, the retry timer, the back-off timer |
| `reg.calls` | what is awaited for a run: "agent.wait", the reading of the result (the two awaits of `completeSubagentRun` are one stage), the hook, the announcement's own reads, its wake, its delivery, a steer; and which handler goes on after it |
| `disk` | `runs.json`, as the last `persistSubagentRuns` left it |
| `alive`, `sessions` | the runs that are being executed, the entries of the session store |
| `emitted`, `told`, `cut`, `crashed` | history: hooks that ran, announcements that arrived, runs whose clean-up was cut off by a crash, or by a kill that ended two records of their session with one hook |

Each action is a handler up to its next await: `RegisterRun`, the three lifecycle
events, `GraceEnds`, the answers of "agent.wait" and of the hook, `AnnounceWaits` (a
live or pending descendant), `AnnounceSkips` (nothing to say, or nobody to tell),
`AnnounceDelivers` and `DeliveryAnswers` (with the deletion of the session in its
`finally`), `WakeAccepted` and `WakeAnswers`, `TimerFires`, `MarkTerminated`,
`MarkForSteer` with its two outcomes, `Reactivate` (a message to an ended session),
`RecoverOrphan`, `Archive`, `Restart`. A kill ends every live record of the session and
emits one hook (`KilledWith`): which of two live records it is emitted for depends on
the order of the map, and is left open. `Tidy` resets fields of records that are gone and
that nothing reads any more; it only merges equal states.

### 2.7 `CronService`

| variable | code |
|---|---|
| `disk`, `mem` | the store file and `state.store`; a job is its `enabled`, `deleteAfterRun`, the time of a one-shot, `nextRunAtMs`, `runningAtMs`, `lastStatus`, `consecutiveErrors` |
| `phase`, `skipped`, `deferred` | how far `start()` is, the jobs it found interrupted, the missed ones it puts off |
| `tick`, `timer` | `state.running`, `state.timer` |
| `runs` | executions: checked, queued, in progress, or waiting to be applied; `held` says that the run's job is still the object in memory |
| `freed`, `succeeded`, `lost` | history: jobs whose marker was cleared under a run; one-shots that have succeeded since they were edited or run by hand; those of them whose result died with the gateway before it was applied |

`locked.ts` chains every operation on a store, so a locked section is one step and the
runs lie between sections. A manual run has three (`ManualRun` checks,
`ManualReserves` checks again and marks, `ManualFinishes` applies), a tick two
(`TimerFires`, `TickApplies`), `start()` four (`Restart`, `CatchUp`, `CatchUpApplies`,
`StartEnds`). A time is in the future or past; `TimeComes` moves it for the copy in
memory and the one in the file. A result is known when its run ends (`RunEnds`) and
applied by a section that, for a tick, waits for all its runs; `Restart` in between
loses it, with the one-shot still enabled and due. The lock lets in between two
sections only what was already queued; the model lets in anything.

### 2.8 What is abstracted in `TaskEngine`

* Time: a schedule becomes due, a task overdue and a timed wait expired at any
  moment. A retry's new `scheduled_at` lies in the future, then becomes due.
* Priorities: a dispatch may choose any ready tasks that fill the slots.
* Rate limits and inter-task delays of objectives: with `Paced`, a dispatch may
  leave any ready task for later. Their windows are not modelled.
* The manager wake is only the await it is: other steps may run before the sweep
  goes on. Whether it is due is worked out in `ManagerWake`.
* Event data: a filter `{taskId: own id}` or none. `cleanupStaleEvents` deletes
  only consumed events, because `emitEvent` sets no expiry; it changes nothing here.
* One emission, registration or approval is one step. Inside the gateway that is
  exact; for the command line, `EventBus` takes the statements one by one.
* Titles, results, reports, steps, audit rows and objective rows.

## 3. What TLC checks

| run | bounds | shows |
|---|---|---|
| `liveness` | `TaskEngine`: 2 tasks (`t2` created by the CLI), 1 slot, approvals by the CLI | `TypeOK`, `DepsGate`, `AttemptBudget`, `OneDispatchPerTask`, `ClaimsWithinLimit`, that the engine implements `TaskPlan`; `OverdueIsSwept`, `OrphanIsSwept`, `EligibleIsTried` |
| `events` | `TaskEngine`: 1 task, 2 events, both kinds of wait, all clients, pacing, sweeps every 2nd tick, 1 crash | `IInv`, `RunRecorded`, `NoLostWakeup`, `LegalMoves` |
| `gateway` | options as `server.impl.ts` passes them | **violated**: without `taskTimeoutMs` overdue tasks are never swept |
| `suspend` | 1 task, 1 event | **violated**: the end of the session that suspended itself completes the resumed task |
| `interleaved` | `EventBus`: 2 waits, 3 events of which some fit both, 2 gateways, 2 command lines, any of them killed | `TypeOK`, `NoLostWakeup`, `ConsumedIsAnswered`, `GatewayMatchesOnce` |
| `lanes` | `CommandLanes`: 3 runs of 3 sessions, 1 manual cron run in the session of the first; limits 0 (taken as 1) or 2; 1 restart, 1 reload | `TypeOK`, `NoIdleLane`, `OneRunPerSession`, `ParallelismCapped`, `AcceptedSettles` |
| `registry` | `SubagentRegistry`: one session and the run that continues it, 2 tries, 2 incidents, both clean-up modes | `TypeOK`, `HookOnce`, `ToldOnce`, `InMotion`, `SettledAfterHook` |
| `nested` | a run, its child, and a wake; 1 try, no incident | `ToldOnce`, `EndedSettles` |
| `delete` | one delete-mode run | **violated**: the retry of its announcement finds an orphan |
| `manager` | `ManagerWake`: 2 tasks of one group and objective, one with a retry, one to be reviewed; 1 slot, 1 crash | `TypeOK`, `NudgesSuffice`, `FinishedIsTold`, `AskedOnce` |
| `cron` | `CronService`: a one-shot and a cron job, 1 at a time, 1 retry, 1 missed job per restart, 2 incidents | `TypeOK`, `NeverTwice`, `MarkerMeansRun`, `TimerArmed`, `OneShotOnce`, `SlotsKept`, `DueRuns` |
| `startup` | a one-shot and a cron job, 1 incident | **violated**: a slot that comes up during the catch-up is given up |

**Bounds.** `MaxEvents` (events emitted) and `MaxCrashes` (restarts) in `TaskEngine` and
`ManagerWake`; the sets of rows and processes in `EventBus`, where a dead process stays
dead; the commands, `MaxRestarts` and `MaxReloads` in `CommandLanes`; `MaxIncidents` in
`SubagentRegistry` (errors, kills, steers, messages, lost waits and restarts together)
and in `CronService` (edits, manual runs, restarts and the passing of two hours
together). Claims and spawns need no bound: attempts are bounded by the retries, and
that is a property.

Two tasks are enough for a dependency, for a competition for one slot, and for one
task's event to meet another task's wait; one retry is enough for every path on which
an attempt is repeated. Two emitters and one registration already reach every order of
the eight statements on one row; the second wait and the third event are there for
calls that take another row. Three sessions against a limit of two make the global
lane itself the bottleneck, so that a broken cap shows at the highest limit and not
only at one; the cron run adds the third level of nesting and is the second run of a
session. The hazards of the registry take at most two incidents to arise (a kill that
meets an error, a steer cut by a restart), and those of descendants none, so the two
are in runs of their own. Two missed jobs with a limit of one make the catch-up put
one off; two manual runs, or a manual run and an edit, meet one tick. Larger instances
were tried once and held: `cron` with three incidents, `lanes` with a second run of a
session, `registry` with three runs of a session and three incidents up to 19 steps
(where a kill meets two live records).

Deadlock is not checked: all six systems may come to rest, with every task finished,
every row used, every command settled, every record gone or every job disabled.
Every property of a passing run has a mutant in `PROJECT.json`: an operator written
next to the one it replaces, that TLC finds to break the property.

**What the properties of the newer modules excuse.** `NudgesSuffice` speaks of rest
without `silent` changes: a schedule that comes up, a task that starts to wait and so
frees its slot, a task failed without the handler, a task of the command line have no
nudge and wait for the timer. `FinishedIsTold` excuses news that was dropped in the
ten-second window, and objectives whose last task was cancelled, rejected, failed by
recovery or by a failed resume: nothing is sent then. `AskedOnce` lets the manager be
asked a second time about a task whose spawn has outlived the window of the first
question (`outlived`). `ConsumedIsAnswered` excuses what a killed process had
consumed. `HookOnce` does not count a hook that a crash cut off, and `InMotion`,
`SettledAfterHook` and `EndedSettles` leave out runs whose clean-up was cut off, by a
crash or by a kill of two live records at once, and runs without
`expectsCompletionMessage`, which get no retry timer. `NeverTwice` and `OneShotOnce`
excuse jobs whose marker was cleared under a run (`freed`): by disabling them, by a
repair of a disabled job, after two hours. `OneShotOnce` also excuses one-shots that
had succeeded when the gateway died before their result was applied (`lost`): the code
executes them again (3.2). `SlotsKept` excuses `start()` and `add()`, which recompute
everything; `startup` shows the first of them.

### 3.1 Fairness

`Spec` assumes, and the code justifies:

* weak fairness of `Tick`: `setInterval` and the nudges start ticks, and a tick
  that is not waiting for a spawn runs on;
* weak fairness of the answer of a spawn: each gateway call it makes has a timeout of
  ten seconds (`subagent-spawn.ts`);
* weak fairness of `ScheduleDue` and `BecomesOverdue`: time passes.

Nothing makes a worker end, a human answer or an event arrive: the sweeps are what
the liveness properties rest on. In the `gateway` run the same fairness does not
help.

For `CommandLanes`, `AcceptedSettles` assumes weak fairness of the pump, which is
synchronous code, and of each command's `EnterSession` and `Leave`: a run has a
timeout (`timeoutMs`), and a promise that settles wakes the lane that awaits it.
Nothing forces a drain to end or the lanes to be reset; the property does not need
it. `EventBus` and `ManagerWake` have no fairness: their properties are about safety.

For `SubagentRegistry`, `EndedSettles` assumes that what a run awaits is answered (every
gateway call has a timeout, a hook is a promise), that its timers fire, and that its
back-off and its expiry pass. The first is weak fairness of the set of these steps,
written as `[]<>~Due(r) \/ []<><<Served(r)>>_vars`, because TLC spends most of its time on
ENABLED of them otherwise. Nothing makes a run end or a delivery succeed.

For `CronService`, `DueRuns` assumes weak fairness of the timer and of each section of a
tick and of `start()`, and of each job's runs: an execution has a timeout
(`executeJobCoreWithTimeout`), and the sections wait only for the lock. An agent turn
whose `timeoutSeconds` is zero or negative has none (`timeout-policy.ts:24`); for such
jobs `DueRuns` assumes that the run ends by itself.

### 3.2 Where code and texts disagree

The four violation runs each refute a sentence of the repository; the quotes and the
traces' stories are in `PROJECT.json` "findings".

The models show more of this kind, without a run of its own:

* An approval on the command line consumes the wait condition in a process without a
  task service: nobody resumes the task, and the orphan sweep fails it
  (`CliApproveTask`; `README.md:22` says that the task resumes).
* `openclaw tasks create --depends-on` inserts the task before its dependencies, in
  transactions of their own: a tick in between claims it (`tasks-cli.ts:290`, `:310`).
* Two emitters may both match one wait condition when one is the command line; the
  comment at `events.ts:8-9` speaks of one transaction, and there is none.
* `CHANGELOG.md:847` promises that interrupted one-shot jobs are not replayed on
  startup, and `service.restart-catchup.test.ts:195` tests it at the moment `start()`
  returns. `start()` clears the marker of such a job (`ops.ts:101-111`) and keeps it out
  of the catch-up, but `recomputeNextRuns` keeps the past time of a one-shot without a
  result as its next run (`jobs.ts:279-287`), and the timer it arms fires at once. The
  first tick executes the job again, also when it had succeeded in a tick whose results
  were not yet applied (`timer.ts:669-689`). `OneShotOnce` excuses it by `lost`.
* After a drain that reached its timeout the reset of the lanes frees a session's lane
  under a run that waits in the main lane: two runs of one session
  (`docs/concepts/queue.md:20`). `OneRunPerSession` excuses it by `cutShort`.
* The gateway's "agent" handler reactivates an ended record (`agent.ts:645-650`) before
  the wake's answer reaches `wakeSubagentRunAfterDescendants`, whose own replacement then
  finds no record and fails: the announcement goes out in spite of the wake
  (`subagent-announce.format.e2e.test.ts:2137` expects the wake to come first).
* An objective_completed right after a task_failed falls into the ten-second window and
  is dropped (`dispatcher.ts:322-327`); `manager-callback.ts:7-13` lists both as reasons.
* The window of ten seconds is there "to avoid duplicate wakes" (`dispatcher.ts:321`).
  When a task ends while its spawn is still awaited, and the spawn fails after the window
  has closed, its end is handled again and the manager is asked a second time. `AskedOnce`
  shows that this is the only way to a second question.
* A kill ends all live records of a session and emits `subagent_ended` for one of them
  (`subagent-registry.ts:1593`); the others are complete without a hook, and a task behind
  one is left to the sweep. Two records of a session live at once only after a steer that
  fell back to a record of its own (below).
* `resumeTask` starts a worker without looking at `maxConcurrent`: that is why
  `ClaimsWithinLimit` speaks of claims and not of running tasks.
* A kill during the await of a steer is undone by the steer's answer; a restart during
  it leaves the record suppressed for ever; a crash in the middle of an announcement is
  never taken up; records of runs still live are archived after `archiveAtMs`.
* Steering a task's worker gives it a new run id: the task service is never told of the
  end of the old one, and the sweep has to find the task.
* A steer that has found its run ended falls back to a record of its own, so a session
  may have two. Then a descendant can wake the session for one record, the answer find
  the other reactivated as the same wake run, and, when that has ended and been
  announced, be applied late: `replaceSubagentRunAfterSteer` puts a fresh record in the
  place of the ended one without asking whether `nextRunId` is in the registry
  (`subagent-registry.ts:1254`), and the run is hooked and announced again. No text of the
  repository speaks of it; `HookOnce` and `ToldOnce` hold of all other runs (4.6).
* `managerTrigger: "on_fail"` decides nothing when no retries are left, since the first
  reason, task_failed, comes before it.

## 4. What is proved

### 4.1 The engine

`TaskEngine_proofs` proves, for any finite set of tasks, any retries, any limit,
any sweep interval, any clients, and any bound on events and crashes:

| theorem | statement |
|---|---|
| `Invariance` | `SafetySpec => []IInv` |
| `TypeCorrect` | `TypeOK` |
| `DependenciesGate` | no task of the gateway is released before its dependencies are completed |
| `AttemptsBounded` | at most `maxRetries` + 1 claims per task |
| `RunsAreRecorded` | running and waiting rows name a run |
| `DispatchedOnce` | the tick never has two spawns pending for a task |
| `WakeupsAreNotLost` | no event lies beside a wait it matches |
| `MovesAreLegal` | `LegalMoves`: statuses move along `LEGAL_TRANSITIONS` |
| `ClaimsKeepTheLimit` | `ClaimsWithinLimit`: a claim does not lift the running tasks above the limit |
| `EngineImplementsPlan` | `SafetySpec => ImplementsPlan`: the engine implements `TaskPlan` |

**Argument.** None of the properties is inductive alone. `AttemptBudget` counts
claims, while the code bounds retries: `ClaimsCounted` ties the two together per
status (before a claim they are equal, after it there is one claim more). That a
claim starts from `retries` claims holds only because a retry passes through
`pending`. `RunRecorded` needs that a spawn answers with a run and that a row that
is not claimed names none (`RunHygiene`). `OneDispatchPerTask` needs that the tick
cannot reach `Dispatch` while its spawns are pending (`TickOwnsSpawns`).
`DepsGate` holds because *completed* is final and because only the CLI adds
dependencies to a row that exists (`LinkingByCli`). `NoLostWakeup` needs nothing
else.

Each store operation is shown once to keep the part of the invariant that is about
the table (`TableInv`), in `TaskEngineInv_proofs`; the step lemmas in
`TaskEngine_proofs` compose them, one step per action, and `PTL` does the rest.

**Refinement.** One relation on rows serves `MovesAreLegal` and `EngineImplementsPlan`:
`RowStep(t)` says what a step may make of the row of `t`, and `NextRows` shows it of every
action. A completion and the retry that follows it in the same step are one change of a
row, and so are a promotion and a claim; the release of dependents changes other rows,
which is why the plan lets several tasks move in a step. `PlanStep` maps each row's
change to a move of the plan or to none. It needs `IInv`: the plan bounds attempts where
the code counts retries (`ClaimsCounted`), and it wants the dependencies done before the
step that starts a task, while the code promotes and claims in one (`DepsGate` of the
promoted table). `ClaimsKeepTheLimit` counts the running rows after the only step that
claims, `Dispatch`: those before it and the slots it filled.

### 4.2 The event bus

`EventBus_proofs` proves, for any rows, any relation `Fits`, and any number of
gateways and command lines:

| theorem | statement |
|---|---|
| `BusInvariant` | `Spec => []BusInv` |
| `BusTypes` | `TypeOK` |
| `BusLosesNoWakeup` | an event lies beside a wait it fits only while a call has not finished |
| `BusAnswersWhatItConsumes` | a consumed event has been returned by a call, or one is about to |
| `GatewayMatches` | the gateway's own calls match one to one |

**Argument.** `NoLostWakeup` is a store-then-search argument: whichever of the two
rows is stored second, the search of its call comes after both. It needs only that a
process points at rows that are really stored (`Pointers`). `GatewayMatchesOnce`
needs that only one gateway is in the middle of a call (`OneGatewayWorks`), that it
consumed the event before it removes the condition (`RemovesAfterConsuming`), that
what a gateway has answered stays consumed and removed (`AnswersAreFinal`), and that
the pair a gateway is about to consume is not one answered before (`HandsAreFresh`).

### 4.3 The lanes

`CommandLanes_proofs` proves, for any finite set of commands, any sessions, any
limits, and any number of restarts and reloads:

| theorem | statement |
|---|---|
| `LanesInvariant` | `SafetySpec => []LanesInv` |
| `LanesTypes` | `TypeOK` |
| `NoLaneIdles` | no lane has both an entry waiting and a free slot outside the pump |
| `SessionsRunAlone` | one run per session, through restarts whose drain was waited for |
| `RunsAreCapped` | the runs of a global lane stay within a configured limit |

**Argument.** That a session's lane has one slot (`SessionSlots`) gives one run per
session only if whoever runs holds that slot, and a restart takes slots away. So
the invariant says where a command can be (`Places`), that a queue holds a command
once and only where it waits (`Queued`), that as long as no drain was cut short a
command that has reached its global lane holds its session's slot, and one that runs
is counted in its global lane (`Holding`), and that during a drain this session slot
is among those the drain waits for (`Drained`). So a drain that is waited for has
nothing left in a global lane, queued or running, when the lanes are reset. `Capped`
bounds the slots of a global lane by some limit that was configured, not by the
current one, because lowering a limit stops nothing that runs.

### 4.4 The cron service

`CronService_proofs` and `CronSteps_proofs` prove, for any finite set of jobs of any
kinds, any limits, and any number of edits, manual runs, restarts and long waits:

| theorem | statement |
|---|---|
| `CronInvariance` | `SafetySpec => []CronInv` |
| `CronTypes` | `TypeOK` |
| `MarkersMeanRuns` | a job that is marked as running has a run under way |
| `JobsRunOnce` | no job is executed twice at the same time, unless its marker was cleared under a run |
| `TimerStaysArmed` | between ticks a timer is set as long as a job has a next run |
| `SlotsStayKept` | no due slot of a recurring job is given up but for the causes `SlotsKept` lists |
| `OneShotsRunOnce` | a one-shot that has succeeded is not queued again until it is edited or run by hand, unless its marker was cleared under a run or its result was lost with the gateway |

**Argument.** The service has two copies of the store, and no section looks at the
runs: whatever a section decides, it decides by the markers and next runs of one
copy, and then overwrites both. So each theorem needs that what it relies on is the
same in the two copies.

* `MarkerMeansRun`: a result clears the marker only of a job that is stored in the copy it
  is applied to, so both copies must store the same jobs (`SameJobs`), and what is not
  stored must be neither marked nor enabled (`Blank`).
* `NeverTwice`: a tick asks the file, a manual run and the catch-up ask the memory.
  `OneRun` says that a job with a run under way is marked in both, and has no other run,
  unless its marker was cleared under the run.
* `TimerArmed`: list, status and manual runs repair the store without arming the timer. A
  repair gives no job its first next run, because an enabled job without one is a
  one-shot that has run (`Scheduled`).
* `SlotsKept`: an edit saves the memory over the file. A slot that is due in the file is
  due in memory as well, since the repairs that a manual run leaves in memory touch no next
  run of an enabled job (`Agree`).
* `OneShotOnce`: between its success and the section that applies the result a one-shot
  is still enabled; then only its marker keeps it from being queued again (`Spent`,
  with `OneRun`). What a disabled job has still queued was excused already
  (`LateQueued`), and a section applies one result per job (`OnePer`). A restart ends that
  state by losing the result, so all of this is said of the one-shots whose success was
  not lost (`Known`).

### 4.5 The manager's wakes

`ManagerWake_proofs` proves, for any finite set of tasks, any objectives, groups,
triggers and retries, any number of slots and restarts:

| theorem | statement |
|---|---|
| `Invariance` | `Spec => []IInv` |
| `TypeCorrect` | `TypeOK` |
| `NudgesAreEnough` | between ticks no ready task has a free slot, unless it came up without a nudge |
| `FinishedObjectivesAreTold` | no objective is finished by the handler without a wake, sent or held back by the window |
| `ManagerAskedOnce` | the manager is asked about the end of a task at most twice, and twice only if the spawn of the task has outlived the window of the first question |

**Argument.** `NudgesSuffice` says that a look at the table was enough when the tick is
at rest and nothing is awaited; `LookSufficed` extends it to the spawns that the tick
awaits after its look, as long as nobody has nudged. A sweep whose wake throws ends the
tick without any look. That is harmless, because such a tick has been through a turn of
the sweep, whose handler has nudged or is still awaited (`TurnNudged`). `FinishedIsTold`
needs that whoever finishes an objective behind the handler's back is noticed in the
same step (`NewsInv`). `AskedOnce` holds because the manager is asked about a task only
when no way leads to another status (`Dead`), with one exception: a task may be asked
about while the spawn that the tick awaits for it can still fail, and then its end is
handled a second time. `AskedInv` says that until the spawn has answered, the window
opened by the first question is open, or has been outlived; and that after a second
question no spawn is left that could lead to a third.

### 4.6 The registry

`SubagentRegistry_proofs` proves, for any finite set of runs, any sessions, requesters
and clean-up modes, any number of tries and incidents:

| theorem | statement |
|---|---|
| `Invariance` | `SafetySpec => []IInv` |
| `TameRunsAreSafe` | of every tame run: hooked at most once; told at most once, by one announcement at a time; once ended it is in somebody's hands; settled only after its hook |
| `TypeCorrect` | `TypeOK`, with the bound on `announceRetryCount` |
| `EndedHookOnce` | `HookOnce` |
| `RequesterToldOnce` | `ToldOnce` |
| `EndedRunsMove` | `InMotion` |
| `SettledHaveHooked` | `SettledAfterHook` |

The last five state the invariants of the runs for registries whose runs are all tame,
which the three configurations are.

**Tame** are all runs but the continuations by a wake in a session that also has runs of
another origin than its registration: steered, messaged, recovered. The restriction is
needed. In a session with two records the late answer of a wake overwrites the record of
a run that has been announced (3.2); TLC finds this in a registry of five runs with four
incidents. Runs that are steered, messaged or recovered are tame themselves, and
`TameRunsAreSafe` has no hypothesis: an untame run elsewhere does not disturb a tame one.

**Argument.** Every flag of a record guards something only together with the calls in
flight, so the invariant `Good` relates the two, run by run.

* `Guarded`: whoever announces a run, or has announced it, has left `cleanupHandled` set
  in its record. `TypeOK` needs this as well: that the tries stay within
  `MAX_ANNOUNCE_RETRY_COUNT` depends on nobody announcing a run that has used them up.
* `Hooked`: who still holds the record of a run whose hook has begun sees it, in
  `endedHookEmittedAt` or among the hooks in flight.
* `Moving`: a retry timer finds nothing to do while its run is in `resumedRuns`. So
  `InMotion` is strengthened to timers that will work (`Waiting`), and a record whose
  clean-up has begun and not ended is in the hands of an announcement or of the hook
  that follows it (`Handling`).
* `Stored`: what `runs.json` says of a run is enough that a restart neither hooks nor
  announces it again.
* `WakeInv`: what is known of a continuation before the wake's answer has arrived.

A step works on one run and may resume any others, through
`retryDeferredCompletedAnnounces` or a restart, in any order. Instead of following the
order, `Moved` says what a resume may do to a run, and one lemma shows that `Moved`
keeps `Good`. A kill is the one step that works on several runs: `CuttingStep` shows that
the record it emits the hook for is good, and that of those it cuts off what remains
true, that they are guarded and hooked at most once, is kept.

### 4.7 Assumptions, and what is not proved

**Assumptions** are the named `ASSUME`s of the modules: the sets of tasks, commands, runs
and jobs are finite, the constants have their types, `NoRun`, `Unset` and `None` are not
ordinary values, a session's lane is not a global lane, and a session of the registry
has one run that starts it (`subagent-spawn.ts` makes a new key for each).

**Only model-checked**: liveness, of which the prover has neither fairness nor ENABLED
(`OverdueIsSwept`, `OrphanIsSwept`, `EligibleIsTried`, `AcceptedSettles`, `EndedSettles`,
`DueRuns`), and the four violations. Every invariant and every action property that a
passing run checks is a theorem.

## 5. Not modelled

Listed with reasons in `PROJECT.json` "components". In short: texts and rows that no
guard reads; pure I/O (notifications, dashboard, hooks); the inherited assistant.

The repository has more than eight hundred thousand lines, most of them the inherited
assistant: channel adapters, provider clients, generated schemas and metadata, native
apps, user interfaces. They convert and transport data and keep no state that a model
of their control would tell apart, so the models cover a small share of the lines by
intent: the parts in which several actors share state under failures. Of these,
the following is left out:

* two cron services on one store, which a hot reload of the gateway creates while a tick
  of the old one is in progress (`gateway/server-reload-handlers.ts:82`); in the list of
  hazards without a property;
* the windows of an objective's rate limit and of the delay between tasks;
* subagent runs of spawn mode "session", the announce queue's own collecting and
  dropping, the scan for orphaned sessions;
* acyclicity in `addValidatedDependency` under two processes;
* errors of schedule expressions, failure alerts, and writes of the cron store that fail.

## 6. Plan

Done: `TaskTable`, `TaskPlan`, `TaskEngine`, `EventBus`, `CommandLanes`, `ManagerWake`
(with the tick's loop), `SubagentRegistry`, `CronService` with their runs, and proofs of
their invariants, of their action properties, and of the refinement of `TaskPlan`.

Next, in this order:

1. An abstract specification of a run's life (started, ended, told or given up) that
   `SubagentRegistry` implements for tame runs, and one of what a lane promises for
   `CommandLanes`, each with its refinement proved.
2. `Dependencies`: `addValidatedDependency` in two processes, acyclicity.
3. Two cron services on one store.
