---------------------------- MODULE ManagerWake ----------------------------
(***************************************************************************)
(* The tick loop of the dispatcher (src/tasks/dispatcher.ts) with its      *)
(* nudges, the handling of a task's end, and the wake of the manager it    *)
(* may start (manager-callback.ts).  TaskEngine takes a wake as an await   *)
(* it knows nothing of; here it is due or not, dropped in its window of    *)
(* ten seconds or awaited, by the tick or by the end of a worker.          *)
(*                                                                         *)
(* A step is what runs between two awaits.  "pending" stands for pending,  *)
(* scheduled and ready; due says that its schedule and its dependencies    *)
(* let the next tick take it.                                              *)
(***************************************************************************)
EXTENDS Naturals, FiniteSets

CONSTANTS
  Tasks,
  ObjectiveOf,    \* objective_id of each task
  GroupOf,        \* task_group of each task, or NoGroup
  NoGroup,
  Trigger,        \* manager_trigger of each task: "none", "on_complete", "on_fail"
  MaxRetries,     \* max_retries of each task
  MaxConcurrent,  \* config.maxConcurrent
  MaxCrashes      \* bound: restarts of the gateway

ASSUME TasksFinite == IsFiniteSet(Tasks)
ASSUME ColumnsType ==
  /\ Trigger \in [Tasks -> {"none", "on_complete", "on_fail"}]
  /\ MaxRetries \in [Tasks -> Nat]
  /\ DOMAIN ObjectiveOf = Tasks /\ DOMAIN GroupOf = Tasks
ASSUME LimitsType == MaxConcurrent \in Nat \ {0} /\ MaxCrashes \in Nat

VARIABLES
  row,      \* the tasks table
  tick,     \* where the tick is
  nudged,   \* nudgePending
  snapshot, \* the rows a sweep has still to go through
  spawning, \* tasks whose spawn the tick awaits
  resuming, \* spawns that resumeTask awaits, with the run the row named
  waking,   \* handlers that await onManagerWake: the task and who called
  window,   \* objectives whose last wake is less than ten seconds ago
  silent,   \* history: work came up or a slot came free without a nudge
  news,     \* history: what became of the news that an objective is finished
  asked,    \* history: how often the manager was woken for the same end of a task
  outlived, \* history: tasks asked about whose spawn had not answered ten seconds later
  crashes

vars == <<row, tick, nudged, snapshot, spawning, resuming, waking, window,
          silent, news, asked, outlived, crashes>>
loopVars == <<tick, nudged>>
tickVars == <<snapshot, spawning>>
wakeVars == <<waking, window, asked, outlived>>

Objectives == {ObjectiveOf[t] : t \in Tasks}
Callers == {"end", "sweep", "spawn"}
Open == {"pending", "running", "waiting"}

\* The run a row names: the dispatcher's own id from the claim until the spawn
\* has answered, then the subagent's.  n is the attempt.
Runs == [kind : {"claim", "subagent"}, n : Nat]
NoRun == [kind |-> "claim", n |-> 0]

Absent == [status |-> "absent", due |-> FALSE, retries |-> 0, run |-> NoRun]

Init ==
  /\ row = [t \in Tasks |-> Absent]
  /\ tick = "idle"
  /\ nudged = FALSE
  /\ snapshot = {}
  /\ spawning = {}
  /\ resuming = {}
  /\ waking = {}
  /\ window = {}
  /\ silent = FALSE
  /\ news = [o \in Objectives |-> "open"]
  /\ asked = [t \in Tasks |-> 0]
  /\ outlived = {}
  /\ crashes = 0

-----------------------------------------------------------------------------
(* What the tables say *)

With(S) == {t \in Tasks : row[t].status \in S}

Ready == {t \in With({"pending"}) : row[t].due}

Free == MaxConcurrent - Cardinality(With({"running"}))

\* No task of o is left to be done; and there is one.
Finished(tbl, o) ==
  /\ \E t \in Tasks : ObjectiveOf[t] = o /\ tbl[t].status # "absent"
  /\ \A t \in Tasks : ObjectiveOf[t] = o => tbl[t].status \notin Open

\* The group is looked up by its name alone, in whatever objective.
GroupDone(tbl, g) ==
  \A t \in Tasks :
    GroupOf[t] = g => tbl[t].status \in {"absent", "completed", "cancelled"}

\* Mutant: a failed task counts as not done.
ShouldWakeUnlessFailed(tbl, t) ==
  \/ tbl[t].status = "failed" /\ tbl[t].retries >= MaxRetries[t]
  \/ tbl[t].status = "completed" /\ Trigger[t] = "on_complete"
  \/ tbl[t].status = "failed" /\ Trigger[t] = "on_fail"
  \/ GroupOf[t] # NoGroup /\ GroupDone(tbl, GroupOf[t])
  \/ \A u \in Tasks : ObjectiveOf[u] = ObjectiveOf[t]
                        => tbl[u].status \notin Open \cup {"failed"}

\* shouldWakeManager: which of the reasons it names is wording.
ShouldWake(tbl, t) ==
  \/ tbl[t].status = "failed" /\ tbl[t].retries >= MaxRetries[t]
  \/ tbl[t].status = "completed" /\ Trigger[t] = "on_complete"
  \/ tbl[t].status = "failed" /\ Trigger[t] = "on_fail"
  \/ GroupOf[t] # NoGroup /\ GroupDone(tbl, GroupOf[t])
  \/ Finished(tbl, ObjectiveOf[t])

-----------------------------------------------------------------------------
(* Parts of a step *)

\* History of the objectives once row' is known: S became "told", "dropped" or
\* "quiet" in this step.  A new or retried task opens an objective again.
Note(S, what) ==
  news' = [o \in Objectives |->
             IF ~Finished(row', o) THEN "open"
             ELSE IF o \in S /\ ~(what = "dropped" /\ news[o] = "told") THEN what
             ELSE IF news[o] = "open" THEN "due" ELSE news[o]]

NothingNew == Note({}, "due")

\* A step that ends tasks behind the handler's back.
Quietly == Note({o \in Objectives : ~Finished(row, o)}, "quiet")

\* scheduleTick: one tick at a time, and one more if it was asked for meanwhile.
\* "at" is where this step leaves the tick.
NudgeAt(at) ==
  IF at = "idle" THEN tick' = "begun" /\ UNCHANGED nudged
                 ELSE tick' = at /\ nudged' = TRUE

Nudge == NudgeAt(tick)

\* Mutant: the time of the last wake is not remembered.
NeverWithinWindow(o) == FALSE

\* Date.now() - lastWake < MANAGER_WAKE_DEDUP_MS
WithinWindow(o) == o \in window

\* retryTask: scheduled_at lies in the future.
Retried(r) == [r EXCEPT !.status = "pending", !.due = FALSE, !.retries = @ + 1, !.run = NoRun]

\* handleTaskCompletion(t), called by "by" on the table tbl: a retry, or a wake
\* that is awaited, or the final nudge.  The window opens before the await.
Handle(tbl, t, by, at) ==
  LET o == ObjectiveOf[t]
      retry == tbl[t].status = "failed" /\ tbl[t].retries < MaxRetries[t]
      wake == ~retry /\ ShouldWake(tbl, t)
  IN  /\ row' = IF retry THEN [tbl EXCEPT ![t] = Retried(@)] ELSE tbl
      /\ \/ /\ wake /\ ~WithinWindow(o)
            /\ waking' = waking \cup {[task |-> t, by |-> by]}
            /\ window' = window \cup {o}
            /\ asked' = [asked EXCEPT ![t] = @ + 1]
            /\ UNCHANGED outlived
            /\ Note({o}, "told")
            /\ tick' = at /\ UNCHANGED nudged
         \/ /\ ~wake \/ WithinWindow(o)
            /\ NudgeAt(at)
            /\ Note(IF wake THEN {o} ELSE {}, "dropped")
            /\ UNCHANGED wakeVars

\* completeTask, for the run the row names; the caller handles the completion.
Ended(t, status) == [row EXCEPT ![t].status = status]

-----------------------------------------------------------------------------
(* The clients *)

\* tasks.create nudges; the command line is another process and cannot.
CreateTask(t) ==
  /\ row[t].status = "absent"
  /\ \E due \in BOOLEAN : row' = [row EXCEPT ![t].status = "pending", ![t].due = due]
  /\ \/ Nudge /\ UNCHANGED silent
     \/ UNCHANGED loopVars /\ silent' = TRUE
  /\ NothingNew
  /\ UNCHANGED <<tickVars, resuming, wakeVars, crashes>>

CancelTask(t) ==
  /\ row[t].status = "pending"
  /\ row' = Ended(t, "cancelled")
  /\ Quietly
  /\ UNCHANGED <<loopVars, tickVars, resuming, wakeVars, silent, crashes>>

\* cancelObjective: running tasks are left to their workers.
CancelObjective(o) ==
  /\ row' = [t \in Tasks |->
               IF ObjectiveOf[t] = o /\ row[t].status \in {"pending", "waiting"}
               THEN [row[t] EXCEPT !.status = "cancelled"] ELSE row[t]]
  /\ row' # row
  /\ Quietly
  /\ UNCHANGED <<loopVars, tickVars, resuming, wakeVars, silent, crashes>>

\* Time passes, or a dependency was completed.
Due(t) ==
  /\ row[t].status = "pending" /\ ~row[t].due
  /\ row' = [row EXCEPT ![t].due = TRUE]
  /\ silent' = TRUE
  /\ UNCHANGED <<loopVars, tickVars, resuming, wakeVars, news, crashes>>

\* wait_for_event frees a slot.
WaitForEvent(t) ==
  /\ row[t].status = "running"
  /\ row' = Ended(t, "waiting")
  /\ silent' = TRUE
  /\ UNCHANGED <<loopVars, tickVars, resuming, wakeVars, news, crashes>>

\* resumeTask up to its await.  tasks.approve of the tool nudges in the same
\* step, notify when the resume has answered, the RPC methods do not.
Resume(t) ==
  /\ row[t].status = "waiting"
  /\ row' = Ended(t, "running")
  /\ resuming' = resuming \cup {[task |-> t, old |-> row[t].run]}
  /\ Nudge \/ UNCHANGED loopVars
  /\ UNCHANGED <<tickVars, wakeVars, silent, news, crashes>>

\* updateRunId, where the row still runs under the old id.
RunUpdated(t, old) ==
  IF row[t].status = "running" /\ row[t].run = old
  THEN [row EXCEPT ![t].run = [old EXCEPT !.kind = "subagent"]] ELSE row

ResumeAccepted(p) ==
  /\ resuming' = resuming \ {p}
  /\ row' = RunUpdated(p.task, p.old)
  /\ Nudge \/ UNCHANGED loopVars
  /\ UNCHANGED <<tickVars, wakeVars, silent, news, crashes>>

\* A failed resume, or a rejection, fails the task and handles nothing.
FailedQuietly(t) ==
  /\ row' = Ended(t, "failed")
  /\ Quietly
  /\ silent' = TRUE
  /\ UNCHANGED <<loopVars, tickVars, wakeVars, crashes>>

ResumeFails(p) ==
  /\ resuming' = resuming \ {p}
  /\ IF row[p.task].status \in {"running", "waiting"}
     THEN FailedQuietly(p.task)
     ELSE UNCHANGED <<row, loopVars, tickVars, wakeVars, silent, news, crashes>>

RejectTask(t) ==
  /\ row[t].status \in {"waiting", "running"}
  /\ FailedQuietly(t)
  /\ UNCHANGED resuming

\* notifyTaskCompletionFromSubagent finds the row by the subagent's run id.
WorkerEnds(t) ==
  /\ row[t].status = "running" /\ row[t].run.kind = "subagent"
  /\ \E status \in {"completed", "failed"} : Handle(Ended(t, status), t, "end", tick)
  /\ UNCHANGED <<tickVars, resuming, silent, crashes>>

-----------------------------------------------------------------------------
(* The tick *)

\* setInterval
Timer ==
  /\ Nudge
  /\ UNCHANGED <<row, tickVars, resuming, wakeVars, silent, news, crashes>>

\* A turn of a sweep's loop over the rows X as they were at its beginning: one
\* that still has the status is failed and handled, those that have not are skipped.
Turn(X, status, at, next) ==
  LET hit == {t \in X : row[t].status = status}
  IN  \/ /\ hit = {}
         /\ tick' = next
         /\ snapshot' = {}
         /\ UNCHANGED <<row, nudged, wakeVars, news>>
      \/ \E t \in hit, skipped \in SUBSET (X \ hit) :
         /\ Handle(Ended(t, "failed"), t, "sweep", at)
         /\ snapshot' = X \ ({t} \cup skipped)

SweepAwaits == \E h \in waking : h.by = "sweep"

\* Every few ticks the sweeps come first: the rows that look overdue, then those
\* that wait without a condition or beyond its timeout.
Sweep ==
  /\ ~SweepAwaits
  /\ \/ tick = "begun" /\ \E X \in SUBSET With({"running"}) :
                             Turn(X, "running", "stuck", "swept")
     \/ tick = "stuck" /\ Turn(snapshot, "running", "stuck", "swept")
     \/ tick = "swept" /\ \E X \in SUBSET With({"waiting"}) :
                             Turn(X, "waiting", "waits", "look")
     \/ tick = "waits" /\ Turn(snapshot, "waiting", "waits", "look")
  /\ UNCHANGED <<spawning, resuming, silent, crashes>>

\* sweepOrphanedWaiting does not look again: it fails a row that was resumed
\* meanwhile, and one that has ended makes updateTaskStatus throw, which ends
\* the tick.
OrphanTurn(t) ==
  /\ ~SweepAwaits
  /\ tick = "waits" /\ t \in snapshot
  /\ \/ /\ row[t].status = "running"
        /\ snapshot' = snapshot \ {t}
        /\ Handle(Ended(t, "failed"), t, "sweep", tick)
     \/ /\ row[t].status \notin {"running", "waiting"}
        /\ snapshot' = {}
        /\ tick' = "spawning"
        /\ UNCHANGED <<row, nudged, wakeVars, news>>
  /\ UNCHANGED <<spawning, resuming, silent, crashes>>

\* The ready tasks that have a slot are claimed, and their spawns begin.
Look ==
  /\ tick \in {"begun", "look"}
  /\ \E S \in SUBSET Ready :
       /\ Cardinality(S) <= Free \/ S = {}
       /\ Cardinality(S) = Free \/ S = Ready \/ Free <= 0
       /\ row' = [t \in Tasks |->
                    IF t \in S THEN [row[t] EXCEPT !.status = "running",
                                        !.run = [kind |-> "claim", n |-> row[t].retries]]
                               ELSE row[t]]
       /\ spawning' = S
  /\ tick' = "spawning"
  /\ silent' = FALSE
  /\ UNCHANGED <<nudged, snapshot, resuming, wakeVars, news, crashes>>

\* While its spawn is awaited, a running row that names a claim names this one.
Claim(t) == row[t].status = "running" /\ row[t].run.kind = "claim"

SpawnAccepted(t) ==
  /\ t \in spawning
  /\ spawning' = spawning \ {t}
  /\ row' = IF Claim(t) THEN RunUpdated(t, row[t].run) ELSE row
  /\ UNCHANGED <<loopVars, snapshot, resuming, wakeVars, silent, news, crashes>>

\* Whatever completeTask answers, the completion is handled: on a row that has
\* moved on, for the second time.
SpawnFails(t) ==
  /\ t \in spawning
  /\ spawning' = spawning \ {t}
  /\ Handle(IF Claim(t) THEN Ended(t, "failed") ELSE row, t, "spawn", tick)
  /\ UNCHANGED <<snapshot, resuming, silent, crashes>>

\* Mutant: the spawns are not awaited.
TickEndUnawaited ==
  /\ tick = "spawning"
  /\ tick' = IF nudged THEN "begun" ELSE "idle"
  /\ nudged' = FALSE
  /\ UNCHANGED <<row, tickVars, resuming, wakeVars, silent, news, crashes>>

\* Mutant: the nudge is left for the timer.
TickEndUnasked ==
  /\ tick = "spawning"
  /\ spawning = {} /\ ~\E h \in waking : h.by = "spawn"
  /\ tick' = "idle"
  /\ nudged' = FALSE
  /\ UNCHANGED <<row, tickVars, resuming, wakeVars, silent, news, crashes>>

\* The finally of scheduleTick, once Promise.allSettled has seen every spawn and
\* the wake a failed one led to.
TickEnd ==
  /\ tick = "spawning"
  /\ spawning = {} /\ ~\E h \in waking : h.by = "spawn"
  /\ tick' = IF nudged THEN "begun" ELSE "idle"
  /\ nudged' = FALSE
  /\ UNCHANGED <<row, tickVars, resuming, wakeVars, silent, news, crashes>>

-----------------------------------------------------------------------------
(* The wake *)

\* onManagerWake answers or throws; the handler ends with its nudge.
WakeSettles(h) ==
  /\ waking' = waking \ {h}
  /\ Nudge
  /\ UNCHANGED <<row, tickVars, resuming, window, asked, outlived, silent, news, crashes>>

\* Ten seconds are over, whatever is pending: a spawn makes several calls to the
\* gateway that may take ten seconds each (subagent-spawn.ts).
WindowCloses(o) ==
  /\ o \in window
  /\ window' = window \ {o}
  /\ outlived' = outlived \cup {t \in spawning : ObjectiveOf[t] = o /\ asked[t] >= 1}
  /\ UNCHANGED <<row, loopVars, tickVars, resuming, waking, asked, silent, news, crashes>>

\* The gateway dies, or stops and starts: the constructor fails what was running,
\* start() begins with a tick.  A wake that had not answered may be lost.
Restart ==
  /\ crashes < MaxCrashes
  /\ crashes' = crashes + 1
  /\ row' = [t \in Tasks |-> IF row[t].status = "running" THEN [row[t] EXCEPT !.status = "failed"]
                                                         ELSE row[t]]
  /\ tick' = "begun"
  /\ nudged' = FALSE
  /\ snapshot' = {} /\ spawning' = {} /\ resuming' = {} /\ waking' = {}
  /\ window' = {}
  /\ Note({o \in Objectives : \/ ~Finished(row, o)
                               \/ \E h \in waking : ObjectiveOf[h.task] = o}, "quiet")
  /\ UNCHANGED <<silent, asked, outlived>>

-----------------------------------------------------------------------------

Next ==
  \/ \E t \in Tasks :
       \/ CreateTask(t) \/ CancelTask(t) \/ Due(t) \/ WaitForEvent(t) \/ Resume(t)
       \/ RejectTask(t) \/ WorkerEnds(t)
       \/ OrphanTurn(t) \/ SpawnAccepted(t) \/ SpawnFails(t)
  \/ \E o \in Objectives : CancelObjective(o) \/ WindowCloses(o)
  \/ \E p \in resuming : ResumeAccepted(p) \/ ResumeFails(p)
  \/ \E h \in waking : WakeSettles(h)
  \/ Timer \/ Sweep \/ Look \/ TickEnd
  \/ Restart

Spec == Init /\ [][Next]_vars

-----------------------------------------------------------------------------
(* Properties *)

\* Every variable has its type; a tick that is idle has nothing under way.
TypeOK ==
  /\ row \in [Tasks -> [status : {"absent", "completed", "failed", "cancelled"} \cup Open,
                        due : BOOLEAN, retries : Nat, run : Runs]]
  /\ tick \in {"idle", "begun", "stuck", "swept", "waits", "look", "spawning"}
  /\ nudged \in BOOLEAN /\ silent \in BOOLEAN
  /\ snapshot \subseteq Tasks /\ (snapshot # {} => tick \in {"stuck", "waits"})
  /\ spawning \subseteq Tasks /\ (spawning # {} => tick = "spawning")
  /\ resuming \subseteq [task : Tasks, old : Runs]
  /\ waking \subseteq [task : Tasks, by : Callers]
  /\ window \subseteq Objectives
  /\ news \in [Objectives -> {"open", "due", "told", "dropped", "quiet"}]
  /\ asked \in [Tasks -> Nat] /\ outlived \subseteq Tasks /\ crashes \in Nat

\* The nudges are enough: when no tick is in progress, no handler has still to
\* nudge and nothing came up without one, no task that is ready has a free slot.
\* The timer is needed for schedules, for waits that free a slot, for tasks that
\* fail behind the handler and for the command line only (scheduleTick, nudge).
NudgesSuffice ==
  (tick = "idle" /\ waking = {} /\ ~silent) => (Ready = {} \/ Free <= 0)

\* An objective whose last task ended through the handler was told to the manager,
\* unless another wake of this objective was less than ten seconds old
\* (shouldWakeManager covers every way an objective can be finished).
FinishedIsTold == \A o \in Objectives : news[o] # "due"

\* "time-windowed dedup to avoid duplicate wakes" (dispatcher.ts): the manager is
\* woken once for the same end of a task, although the failure of a spawn handles a
\* completion that may have been handled before.  Only where that spawn outlives the
\* window is the manager woken again, and never a third time: a spawn fails once.
AskedOnce ==
  \A t \in Tasks :
    /\ asked[t] <= 2
    /\ asked[t] = 2 => t \in outlived
=============================================================================
