----------------------------- MODULE TaskEngine -----------------------------
(***************************************************************************)
(* The Piper task engine: the dispatcher's tick (src/tasks/dispatcher.ts), *)
(* the task service (service.ts), the event bus (events.ts, hitl.ts), the  *)
(* worker subagents it spawns and the tools, RPC handlers and CLI commands *)
(* that act on the same SQLite store.                                      *)
(*                                                                         *)
(* The gateway is one JavaScript thread: a step is what runs between two   *)
(* awaits.  An await is a record in "inflight" (a spawn that has not       *)
(* answered) or a phase of the tick (a sweep suspended inside              *)
(* handleTaskCompletion), and any other step may run before it resumes.    *)
(* Time is abstract: a schedule becomes due, a started task becomes        *)
(* overdue and a wait with a timeout expires at any moment.                *)
(***************************************************************************)
EXTENDS TaskTable

CONSTANTS
  CliTasks,          \* the tasks created by `openclaw tasks create`
  WaitKinds,         \* what a worker may wait for: [name, own, timed]
  Signals,           \* the events notify and tasks.events.emit may send
  Clients,           \* who uses the engine: a subset of {"tool", "rpc", "cli"}
  MaxConcurrent,     \* config.maxConcurrent, or Unset
  TimeoutConfigured, \* config.taskTimeoutMs is a number
  Paced,             \* objectives have a rate limit or an inter-task delay
  SweepEvery,        \* stuckSweepEveryNTicks
  Unset,             \* undefined
  NoData,            \* an event without data
  MaxEvents,         \* bound: events emitted
  MaxCrashes         \* bound: gateway restarts

ASSUME CliTasksType == CliTasks \subseteq Tasks
ASSUME WaitKindsType ==
  WaitKinds \subseteq [name : STRING, own : BOOLEAN, timed : BOOLEAN]
ASSUME SignalsType == Signals \subseteq STRING
ASSUME MaxConcurrentType == MaxConcurrent \in Nat \cup {Unset}
ASSUME PacedType == Paced \in BOOLEAN
ASSUME SweepEveryType == SweepEvery \in Nat \ {0}
ASSUME UnsetIsNoNumber == Unset \notin Nat
ASSUME BoundsType == MaxEvents \in Nat /\ MaxCrashes \in Nat

VARIABLES
  task,     \* the tasks table
  linking,  \* dependencies a CLI process has still to add to the task it created
  waits,    \* task_wait_conditions
  events,   \* the rows of task_events nobody has consumed
  workers,  \* run ids of the subagents that are alive
  inflight, \* spawns awaited by a tick or by resumeTask
  tick,     \* phase of the tick
  todo,     \* the snapshot a suspended sweep still has to go through
  ticks,    \* tickCount modulo SweepEvery
  seq,      \* how many claims, spawns and waits each task has had
  emitted,  \* how many events were emitted
  crashes   \* how often the gateway was restarted

vars == <<task, linking, waits, events, workers, inflight, tick, todo, ticks,
          seq, emitted, crashes>>

\* The gateway's heap, lost in a crash, and what survives it.
tickVars == <<tick, todo, ticks>>
eventVars == <<waits, events, emitted>>

Phases == {"idle", "stuck", "stuckLoop", "expired", "expiredLoop",
           "orphans", "orphansLoop", "dispatch", "spawning"}

EventNames == Signals \cup {"hitl.approve", "hitl.reject"}

Wait == [task : Tasks, kind : WaitKinds, n : Nat]

\* run is NoRun until the gateway has started the subagent; old is the run id
\* the row had when the spawn began.
Spawn == [by : {"tick", "resume"}, task : Tasks, old : RunIds \cup {NoRun},
          run : RunIds \cup {NoRun}]

NothingTodo == [stuck |-> {}, expired |-> {}, orphans |-> {}]

Init ==
  /\ task = [t \in Tasks |-> Absent]
  /\ linking = [t \in Tasks |-> {}]
  /\ waits = {}
  /\ events = {}
  /\ workers = {}
  /\ inflight = {}
  /\ tick = "idle"
  /\ todo = NothingTodo
  /\ ticks = 0
  /\ seq = [t \in Tasks |-> [claims |-> 0, spawns |-> 0, waits |-> 0]]
  /\ emitted = 0
  /\ crashes = 0

Set(t, row) == task' = [task EXCEPT ![t] = row]

\* completeTask or updateTaskStatus, then handleTaskCompletion, without an
\* await in between.
SetAndHandle(t, row) == task' = CompletionHandled([task EXCEPT ![t] = row], t)

-----------------------------------------------------------------------------
(* Creating tasks *)

\* tasks.create: the INSERT and every addValidatedDependency in one step.  A
\* new task has no dependents, so no dependency it names can close a cycle.
\* A dependency that fails validation throws and leaves the task with those
\* added before it: deps is any subset of the existing tasks.
CreateTask(t) ==
  /\ t \notin CliTasks
  /\ task[t].status = "absent"
  /\ \E deps \in SUBSET {d \in Tasks : task[d].status # "absent"}, delayed \in BOOLEAN :
       Set(t, Created(deps, delayed))
  /\ UNCHANGED <<linking, eventVars, workers, inflight, tickVars, seq, crashes>>

\* The CLI command runs in a process of its own: the INSERT and each
\* addValidatedDependency commit one by one.
CliCreateTask(t) ==
  /\ "cli" \in Clients
  /\ t \in CliTasks
  /\ task[t].status = "absent"
  /\ Set(t, Created({}, FALSE))
  /\ \E deps \in SUBSET {d \in Tasks : task[d].status # "absent"} :
       linking' = [linking EXCEPT ![t] = deps]
  /\ UNCHANGED <<eventVars, workers, inflight, tickVars, seq, crashes>>

CliAddDependency(t) ==
  /\ \E d \in linking[t] :
       /\ linking' = [linking EXCEPT ![t] = @ \ {d}]
       /\ Set(t, [task[t] EXCEPT !.deps = @ \cup {d}])
  /\ UNCHANGED <<eventVars, workers, inflight, tickVars, seq, crashes>>

-----------------------------------------------------------------------------
(* Cancelling *)

CancelTask(t) ==
  /\ task[t].status \in {"pending", "scheduled", "ready"}
  /\ Set(t, Move(task[t], "cancelled"))
  /\ UNCHANGED <<linking, eventVars, workers, inflight, tickVars, seq, crashes>>

\* Wait conditions of the cancelled tasks stay in their table.
CancelObjective ==
  /\ task' = Cancelled(task)
  /\ UNCHANGED <<linking, eventVars, workers, inflight, tickVars, seq, crashes>>

-----------------------------------------------------------------------------
(* The tick *)

\* Mutant: the tick counter is never brought back.
TickStartUncounted ==
  /\ tick = "idle"
  /\ ticks' = ticks + 1
  /\ tick' = IF ticks' = 0 THEN "stuck" ELSE "dispatch"
  /\ UNCHANGED <<task, linking, eventVars, workers, inflight, todo, seq, crashes>>

\* A timer or a nudge starts a tick unless one is in progress.
TickStart ==
  /\ tick = "idle"
  /\ ticks' = (ticks + 1) % SweepEvery
  /\ tick' = IF ticks' = 0 THEN "stuck" ELSE "dispatch"
  /\ UNCHANGED <<task, linking, eventVars, workers, inflight, todo, seq, crashes>>

\* Mutant: the rows that name a run are passed over.
StuckTasksInverted ==
  {t \in WithStatus(task, {"running"}) :
     TimeoutConfigured /\ task[t].overdue /\ task[t].run = NoRun}

\* getStuckTasks; started_at <= now - NaN binds NULL and selects nothing.  A row
\* without run_id is passed over.
StuckTasks ==
  {t \in WithStatus(task, {"running"}) :
     TimeoutConfigured /\ task[t].overdue /\ task[t].run # NoRun}

\* One turn of the loop over the snapshot X, up to the await of
\* handleTaskCompletion; rows that changed since the snapshot are skipped.
StuckTurn(X) ==
  LET hit == {x \in X : Owned(task[x[1]], x[2])}
  IN  \/ /\ hit = {}
         /\ tick' = "expired"
         /\ todo' = NothingTodo
         /\ UNCHANGED task
      \/ \E x \in hit, skipped \in SUBSET (X \ hit) :
         /\ SetAndHandle(x[1], CompleteTask(task[x[1]], x[2], "failed"))
         /\ tick' = "stuckLoop"
         /\ todo' = [todo EXCEPT !.stuck = X \ ({x} \cup skipped)]

SweepStuckTasks ==
  /\ \/ tick = "stuck" /\ StuckTurn({<<t, task[t].run>> : t \in StuckTasks})
     \/ tick = "stuckLoop" /\ StuckTurn(todo.stuck)
  /\ UNCHANGED <<linking, eventVars, workers, inflight, ticks, seq, crashes>>

\* The wait condition goes first, whatever its task does now.
ExpiredTurn(X) ==
  LET hit == {w \in X : task[w.task].status = "waiting"}
  IN  \/ /\ hit = {}
         /\ waits' = waits \ X
         /\ tick' = "orphans"
         /\ todo' = NothingTodo
         /\ UNCHANGED task
      \/ \E w \in hit, skipped \in SUBSET (X \ hit) :
         /\ waits' = waits \ ({w} \cup skipped)
         /\ SetAndHandle(w.task, Move(task[w.task], "failed"))
         /\ tick' = "expiredLoop"
         /\ todo' = [todo EXCEPT !.expired = X \ ({w} \cup skipped)]

SweepExpiredWaits ==
  /\ \/ /\ tick = "expired"
        /\ \E X \in SUBSET {w \in waits : w.kind.timed} : ExpiredTurn(X)
     \/ tick = "expiredLoop" /\ ExpiredTurn(todo.expired)
  /\ UNCHANGED <<linking, events, emitted, workers, inflight, ticks, seq, crashes>>

HasWait(t) == \E w \in waits : w.task = t

\* X was read before the first await: by the time its turn comes a task may
\* have left "waiting", and an illegal move throws and ends the whole tick.
OrphanTurn(X) ==
  LET hit == {t \in X : ~HasWait(t)}
  IN  \/ /\ hit = {}
         /\ tick' = "dispatch"
         /\ todo' = NothingTodo
         /\ UNCHANGED task
      \/ \E t \in hit, skipped \in SUBSET (X \ hit) :
         IF CanMove(task[t], "failed")
         THEN /\ SetAndHandle(t, Move(task[t], "failed"))
              /\ tick' = "orphansLoop"
              /\ todo' = [todo EXCEPT !.orphans = X \ ({t} \cup skipped)]
         ELSE /\ tick' = "idle"
              /\ todo' = NothingTodo
              /\ UNCHANGED task

\* Mutant: the sweep is not wired into the tick.
SweepOrphanedSkipped ==
  /\ tick = "orphans"
  /\ tick' = "dispatch"
  /\ UNCHANGED <<task, todo, linking, eventVars, workers, inflight, ticks, seq, crashes>>

SweepOrphanedWaiting ==
  /\ \/ tick = "orphans" /\ OrphanTurn(WithStatus(task, {"waiting"}))
     \/ tick = "orphansLoop" /\ OrphanTurn(todo.orphans)
  /\ UNCHANGED <<linking, eventVars, workers, inflight, ticks, seq, crashes>>

\* Mutant: one slot too many.
SlotsPlusOne(tbl) ==
  LET running == Cardinality(WithStatus(tbl, {"running"}))
  IN  IF running > MaxConcurrent THEN 0 ELSE MaxConcurrent - running + 1

\* Mutant: one slot too few.
SlotsMinusOne(tbl) ==
  LET running == Cardinality(WithStatus(tbl, {"running"}))
  IN  IF running + 1 >= MaxConcurrent THEN 0 ELSE MaxConcurrent - running - 1

\* undefined - n is NaN and NaN <= 0 is false: without the setting every ready
\* task gets a slot.
Slots(tbl) ==
  LET running == Cardinality(WithStatus(tbl, {"running"}))
  IN  CASE MaxConcurrent = Unset    -> Cardinality(Tasks)
        [] running >= MaxConcurrent -> 0
        [] OTHER                    -> MaxConcurrent - running

\* getReadyTasks, the claims and the start of every spawn, without an await.
\* Priorities are abstract: any choice of ready tasks that fills the slots, or
\* fewer when the pacing of their objective holds some of them back.
Dispatch ==
  /\ tick = "dispatch"
  /\ LET promoted == Promoted(task)
         ready == WithStatus(promoted, {"ready"})
         id(t) == <<"claim", t, seq[t].claims + 1>>
     IN  \E S \in SUBSET ready :
           /\ Cardinality(S) <= Slots(promoted)
           /\ S # ready /\ ~Paced => Cardinality(S) = Slots(promoted)
           /\ task' = [t \in Tasks |-> IF t \in S THEN Claimed(promoted[t], id(t))
                                       ELSE promoted[t]]
           /\ inflight' = inflight \cup
                {[by |-> "tick", task |-> t, old |-> id(t), run |-> NoRun] : t \in S}
           /\ seq' = [t \in Tasks |-> IF t \in S THEN [seq[t] EXCEPT !.claims = @ + 1]
                                      ELSE seq[t]]
           /\ tick' = IF S = {} THEN "idle" ELSE "spawning"
  /\ UNCHANGED <<linking, eventVars, workers, todo, ticks, crashes>>

\* Mutant: the tick does not wait for the spawns it started.
TickEndUnawaited ==
  /\ tick = "spawning"
  /\ tick' = "idle"
  /\ UNCHANGED <<task, linking, eventVars, workers, inflight, todo, ticks, seq, crashes>>

\* await Promise.allSettled(spawnPromises)
TickEnd ==
  /\ tick = "spawning"
  /\ \A p \in inflight : p.by # "tick"
  /\ tick' = "idle"
  /\ UNCHANGED <<task, linking, eventVars, workers, inflight, todo, ticks, seq, crashes>>

-----------------------------------------------------------------------------
(* Spawning a worker: the gateway's "agent" call, awaited by the tick or by  *)
(* resumeTask.                                                               *)

\* The subagent exists before its run id has come back.
WorkerStarts(p) ==
  LET id == <<"spawn", p.task, seq[p.task].spawns + 1>>
  IN  /\ p.run = NoRun
      /\ workers' = workers \cup {id}
      /\ inflight' = (inflight \ {p}) \cup {[p EXCEPT !.run = id]}
      /\ seq' = [seq EXCEPT ![p.task].spawns = @ + 1]
      /\ UNCHANGED <<task, linking, eventVars, tickVars, crashes>>

\* Mutant: an answer without a run id is stored as it is.
SpawnAcceptedUnchecked(p) ==
  /\ inflight' = inflight \ {p}
  /\ Set(p.task, RunUpdated(task[p.task], p.old, p.run))
  /\ UNCHANGED <<linking, eventVars, workers, tickVars, seq, crashes>>

SpawnAccepted(p) ==
  /\ p.run # NoRun
  /\ inflight' = inflight \ {p}
  /\ Set(p.task, RunUpdated(task[p.task], p.old, p.run))
  /\ UNCHANGED <<linking, eventVars, workers, tickVars, seq, crashes>>

\* Rejected, or no answer in time, whether or not the subagent was started.
\* The tick's handler fails the attempt it claimed, then handles completion
\* whatever completeTask answered.  resumeTask fails the task in whatever
\* attempt it is now; an illegal move throws and changes nothing.
SpawnFails(p) ==
  /\ inflight' = inflight \ {p}
  /\ \/ /\ p.by = "tick"
        /\ SetAndHandle(p.task, CompleteTask(task[p.task], p.old, "failed"))
     \/ /\ p.by = "resume"
        /\ Set(p.task, IF CanMove(task[p.task], "failed")
                       THEN Move(task[p.task], "failed") ELSE task[p.task])
  /\ UNCHANGED <<linking, eventVars, workers, tickVars, seq, crashes>>

\* subagent_ended: the row is found by run id; a suspended task is left alone.
WorkerEnds(w) ==
  /\ workers' = workers \ {w}
  /\ \E outcome \in {"completed", "failed"} :
       \/ /\ Owned(task[w[2]], w)
          /\ SetAndHandle(w[2], CompleteTask(task[w[2]], w, outcome))
       \/ ~Owned(task[w[2]], w) /\ UNCHANGED task
  /\ UNCHANGED <<linking, eventVars, inflight, tickVars, seq, crashes>>

-----------------------------------------------------------------------------
(* Waiting for events *)

Matches(w, e) ==
  /\ w.kind.name = e.name
  /\ w.kind.own => e.data = w.task    \* filter: {taskId: <own id>}

\* wait_for_event, called by worker w for its task: whichever run the row
\* names, it has to be running.  A pending event that matches is consumed and
\* the row goes waiting -> running again; resumeTask then finds it running and
\* does nothing.
WaitForEvent(w) ==
  LET t == w[2]
  IN  /\ task[t].status = "running"
      /\ \E kind \in WaitKinds :
           LET wait == [task |-> t, kind |-> kind, n |-> seq[t].waits + 1]
               pending == {e \in events : Matches(wait, e)}
           IN  /\ seq' = [seq EXCEPT ![t].waits = @ + 1]
               /\ \/ /\ pending = {}
                     /\ waits' = waits \cup {wait}
                     /\ Set(t, Move(task[t], "waiting"))
                     /\ UNCHANGED events
                  \/ /\ \E e \in pending : events' = events \ {e}
                     /\ UNCHANGED <<task, waits>>
      /\ UNCHANGED <<linking, emitted, workers, inflight, tickVars, crashes>>

\* Mutant: the event is stored without a look at the wait conditions.
EmitUnmatched(name, data, M) ==
  /\ emitted < MaxEvents
  /\ emitted' = emitted + 1
  /\ M = {}
  /\ events' = events \cup {[name |-> name, data |-> data, n |-> emitted + 1]}
  /\ UNCHANGED waits

\* emitEvent: an event that finds a wait condition is consumed at once and
\* takes the condition with it; M is the set of tasks it matched.
Emit(name, data, M) ==
  LET e == [name |-> name, data |-> data, n |-> emitted + 1]
      matching == {w \in waits : Matches(w, e)}
  IN  /\ emitted < MaxEvents
      /\ emitted' = emitted + 1
      /\ \/ /\ matching = {}
            /\ M = {}
            /\ events' = events \cup {e}
            /\ UNCHANGED waits
         \/ \E w \in matching :
            /\ M = {w.task}
            /\ waits' = waits \ {w}
            /\ UNCHANGED events

\* resumeTask(t) up to its await, if the task is waiting.
Resume(t) ==
  IF task[t].status = "waiting"
  THEN /\ Set(t, Move(task[t], "running"))
       /\ inflight' = inflight \cup
            {[by |-> "resume", task |-> t, old |-> task[t].run, run |-> NoRun]}
  ELSE UNCHANGED <<task, inflight>>

NoResume == UNCHANGED <<task, inflight>>

\* notify and tasks.events.emit: the matched task is resumed.
EmitSignal ==
  /\ \E name \in Signals, M \in SUBSET Tasks :
       /\ Emit(name, NoData, M)
       /\ IF M = {} THEN NoResume ELSE \E t \in M : Resume(t)
  /\ UNCHANGED <<linking, workers, tickVars, seq, crashes>>

\* tasks.approve (tool, RPC): whichever task matched, the named one is resumed.
ApproveTask(t) ==
  /\ Clients \cap {"tool", "rpc"} # {}
  /\ \E M \in SUBSET Tasks :
       /\ Emit("hitl.approve", t, M)
       /\ IF M = {} THEN NoResume ELSE Resume(t)
  /\ UNCHANGED <<linking, workers, tickVars, seq, crashes>>

\* openclaw tasks approve: the CLI's process has no task service to resume in.
CliApproveTask(t) ==
  /\ "cli" \in Clients
  /\ task[t].status = "waiting"
  /\ \E M \in SUBSET Tasks : Emit("hitl.approve", t, M)
  /\ UNCHANGED <<task, inflight, linking, workers, tickVars, seq, crashes>>

\* None of the three handles the completion of the task it fails.
RejectTask(t) ==
  /\ \E M \in SUBSET Tasks :
       /\ Emit("hitl.reject", t, M)
       /\ \/ /\ "tool" \in Clients    \* throws if the move is illegal
             /\ Set(t, IF M # {} /\ CanMove(task[t], "failed")
                       THEN Move(task[t], "failed") ELSE task[t])
          \/ /\ "rpc" \in Clients
             /\ Set(t, IF task[t].status = "waiting"
                       THEN Move(task[t], "failed") ELSE task[t])
          \/ /\ "cli" \in Clients
             /\ task[t].status = "waiting"
             /\ Set(t, Move(task[t], "failed"))
  /\ UNCHANGED <<linking, workers, inflight, tickVars, seq, crashes>>

-----------------------------------------------------------------------------
(* Time and crashes *)

ScheduleDue(t) ==
  /\ task[t].status \in {"pending", "scheduled"}
  /\ task[t].delayed
  /\ Set(t, [task[t] EXCEPT !.delayed = FALSE])
  /\ UNCHANGED <<linking, eventVars, workers, inflight, tickVars, seq, crashes>>

\* started_at ages while a task waits too, and a resume does not refresh it.
BecomesOverdue(t) ==
  /\ task[t].status \in {"running", "waiting"}
  /\ ~task[t].overdue
  /\ Set(t, [task[t] EXCEPT !.overdue = TRUE])
  /\ UNCHANGED <<linking, eventVars, workers, inflight, tickVars, seq, crashes>>

\* The gateway dies and starts again; the constructor recovers before the
\* first tick.  Subagents may outlive it and report later.
Restart ==
  /\ crashes < MaxCrashes
  /\ crashes' = crashes + 1
  /\ task' = Recovered(task)
  /\ inflight' = {}
  /\ tick' = "idle"
  /\ todo' = NothingTodo
  /\ ticks' = 0
  /\ UNCHANGED <<linking, eventVars, workers, seq>>

-----------------------------------------------------------------------------

Tick ==
  \/ TickStart \/ SweepStuckTasks \/ SweepExpiredWaits \/ SweepOrphanedWaiting
  \/ Dispatch \/ TickEnd

Next ==
  \/ \E t \in Tasks :
       \/ CreateTask(t) \/ CliCreateTask(t) \/ CliAddDependency(t) \/ CancelTask(t)
       \/ ApproveTask(t) \/ CliApproveTask(t) \/ RejectTask(t)
       \/ ScheduleDue(t) \/ BecomesOverdue(t)
  \/ CancelObjective
  \/ Tick
  \/ \E p \in inflight : WorkerStarts(p) \/ SpawnAccepted(p) \/ SpawnFails(p)
  \/ \E w \in workers : WorkerEnds(w) \/ WaitForEvent(w)
  \/ EmitSignal
  \/ Restart

SafetySpec == Init /\ [][Next]_vars

\* setInterval and the nudges keep the tick going, the "agent" call answers
\* within its timeout, and time passes.  Nothing makes a worker end, a user
\* act or an event arrive.
Fairness ==
  /\ WF_vars(Tick)
  /\ \A t \in Tasks : WF_vars(ScheduleDue(t)) /\ WF_vars(BecomesOverdue(t))
  /\ WF_vars(\E p \in inflight : SpawnAccepted(p) \/ SpawnFails(p))

Spec == SafetySpec /\ Fairness

-----------------------------------------------------------------------------
(* Properties *)

\* Every variable has its type.
TypeOK ==
  /\ task \in [Tasks -> Row]
  /\ linking \in [Tasks -> SUBSET Tasks]
  /\ waits \subseteq Wait
  /\ events \subseteq [name : EventNames, data : Tasks \cup {NoData}, n : Nat]
  /\ workers \subseteq RunIds
  /\ inflight \subseteq Spawn
  /\ tick \in Phases
  /\ todo \in [stuck : SUBSET (Tasks \X RunIds), expired : SUBSET Wait,
               orphans : SUBSET Tasks]
  /\ ticks \in 0..(SweepEvery - 1)
  /\ seq \in [Tasks -> [claims : Nat, spawns : Nat, waits : Nat]]
  /\ emitted \in Nat
  /\ crashes \in Nat

\* These statuses are reached through "ready" only.
Released == {"ready", "running", "waiting", "completed", "failed"}

DepsGateIn(tbl) ==
  \A t \in Tasks \ CliTasks : tbl[t].status \in Released => AllDepsCompleted(tbl, t)

\* A task that is ready or further has had all its recorded dependencies
\* completed, whatever retries, sweeps, resumes and restarts it went through
\* (promoteEligibleTasks, resolveDependents, retryTask, recoverOrphanedTasks).
DepsGate == DepsGateIn(task)

\* A task is claimed once per try, and tried at most maxRetries + 1 times, even
\* though completions are handled by four callers that may race on one task.
AttemptBudget == \A t \in Tasks : seq[t].claims <= MaxRetries[t] + 1

\* A running or waiting row names a run: without it the stuck sweep and the
\* startup recovery pass the row by.
RunRecorded ==
  \A t \in Tasks : task[t].status \in {"running", "waiting"} => task[t].run # NoRun

\* The tick awaits every spawn it starts, so no task has two of them pending.
OneDispatchPerTask ==
  \A p, q \in inflight : p.by = "tick" /\ q.by = "tick" /\ p.task = q.task => p = q

\* An event and a wait it matches never lie side by side: emit looks for a
\* wait and wait_for_event for an event in the same step as their insert.
NoLostWakeup == ~\E w \in waits, e \in events : Matches(w, e)

\* "Max concurrent running tasks globally" (dispatcher.ts, maxConcurrent).
ConcurrencyLimit ==
  MaxConcurrent # Unset => Cardinality(WithStatus(task, {"running"})) <= MaxConcurrent

\* A claim never lifts the number of running tasks above the limit, even when
\* resumed tasks, which take no slot, have already gone beyond it.
ClaimsWithinLimit ==
  [][(\E t \in Tasks : seq'[t].claims > seq[t].claims) => ConcurrencyLimit']_vars

\* "Task voluntarily suspended itself via waitForEvent -- don't mark complete"
\* (service.ts, notifyTaskCompletionFromSubagent): while a resume waits for its
\* new run, the row still names the run that suspended itself, and that run's
\* end does not complete the task.
SuspendedRunLeavesTask ==
  [][\A p \in inflight :
       (p.by = "resume" /\ p.old = task[p.task].run /\ task[p.task].status = "running")
         => task'[p.task].status # "completed"]_vars

\* Statuses move along LEGAL_TRANSITIONS only, although most UPDATEs bypass
\* updateTaskStatus.  One step may promote and claim a task, or fail and retry it
\* (and then its retry count grows): two legal moves in a row.
LegalMoves ==
  [][\A t \in Tasks :
       LET s == task[t].status
           s1 == task'[t].status
       IN  \/ s1 \in {s} \cup LegalTransitions(s)
           \/ s = "absent" /\ s1 \in {"pending", "scheduled"}
           \/ "ready" \in LegalTransitions(s) /\ s1 = "running"
           \/ /\ "failed" \in LegalTransitions(s)
              /\ s1 = "pending"
              /\ task'[t].retries = task[t].retries + 1]_vars

\* The engine implements the plan its clients rely on.
Plan ==
  INSTANCE TaskPlan WITH
    Gated <- Tasks \ CliTasks,
    MaxAttempts <- [t \in Tasks |-> MaxRetries[t] + 1],
    phase <- [t \in Tasks |->
                CASE task[t].status = "absent" -> "absent"
                  [] task[t].status \in {"pending", "scheduled", "ready"} -> "open"
                  [] task[t].status \in {"running", "waiting"} -> "active"
                  [] task[t].status = "completed" -> "done"
                  [] task[t].status = "failed" -> "failed"
                  [] OTHER -> "dropped"],
    attempts <- [t \in Tasks |-> seq[t].claims],
    needs <- [t \in Tasks |-> task[t].deps]

ImplementsPlan == Plan!Spec

-----------------------------------------------------------------------------
(* Liveness *)

\* A task that outstays its timeout is failed or ends otherwise: the safety net
\* under every lost completion.
OverdueIsSwept ==
  \A t \in Tasks :
    (task[t].status = "running" /\ task[t].overdue)
      ~> ~(task[t].status = "running" /\ task[t].overdue)

\* A waiting task that nothing can wake any more does not wait for ever.
OrphanIsSwept ==
  \A t \in Tasks :
    (task[t].status = "waiting" /\ ~HasWait(t)) ~> ~(task[t].status = "waiting" /\ ~HasWait(t))

\* A pending task whose dependencies are completed gets its turn.
EligibleIsTried ==
  \A t \in Tasks \ CliTasks :
    Eligible(task, t) ~> task[t].status \in {"running", "waiting", "completed", "failed",
                                             "cancelled"}
=============================================================================
