---------------------------- MODULE CronService ----------------------------
(***************************************************************************)
(* The cron service (src/cron/service): the timer and its ticks, manual    *)
(* runs, edits, the catch-up at start, and the job store.  Every operation *)
(* is a section under the lock of the store (locked.ts), which is a step;  *)
(* the runs of the jobs lie between two sections, outside the lock.        *)
(*                                                                         *)
(* The service keeps the store in memory; a tick and the end of a manual   *)
(* run read the file again.                                                *)
(*                                                                         *)
(* Time is kept per job: a next run lies in the future or is due, a        *)
(* running marker is fresh or older than two hours.                        *)
(***************************************************************************)
EXTENDS Naturals, FiniteSets

CONSTANTS
  Jobs,
  Kind,           \* schedule.kind of each job: "at", "every", "cron"
  Concurrency,    \* cron.maxConcurrentRuns
  MaxRetries,     \* cron.retry.maxAttempts
  MaxMissed,      \* maxMissedJobsPerRestart
  MaxIncidents    \* bound: edits, manual runs, restarts and long waits together

ASSUME JobsFinite == IsFiniteSet(Jobs)
ASSUME KindType == Kind \in [Jobs -> {"at", "every", "cron"}]
ASSUME LimitsType ==
  /\ Concurrency \in Nat \ {0}
  /\ MaxRetries \in Nat /\ MaxMissed \in Nat /\ MaxIncidents \in Nat

VARIABLES
  disk,       \* the store file
  mem,        \* state.store
  phase,      \* how far start() is
  skipped,    \* the runs that start() found interrupted
  deferred,   \* the missed runs that start() puts off
  tick,       \* state.running: where the tick is
  timer,      \* whether state.timer is set
  runs,       \* executions that are queued, in progress or waiting to be applied
  incidents,
  freed,      \* history: jobs whose marker was cleared with a run under way
  succeeded,  \* history: one-shots that a run has finished since the last edit
  lost        \* history: those of them whose result died with the gateway

vars == <<disk, mem, phase, skipped, deferred, tick, timer, runs, incidents,
          freed, succeeded, lost>>
storeVars == <<disk, mem>>
bootVars == <<phase, skipped, deferred>>
outcomes == <<succeeded, lost>>
history == <<freed, outcomes>>

OneShots == {j \in Jobs : Kind[j] = "at"}

Job == [stored : BOOLEAN, enabled : BOOLEAN,
        deletes : BOOLEAN,                     \* deleteAfterRun
        at : {"future", "past", "spent"},      \* a one-shot's time; spent: it ran ok since
        next : {"none", "future", "due"},      \* nextRunAtMs
        marker : {"none", "fresh", "old"},     \* runningAtMs
        last : {"none", "ok", "error"},        \* lastStatus; "ok" also if skipped or recurring
        errors : 0..MaxRetries + 1]            \* consecutiveErrors, no further than it counts

NoJob == [stored |-> FALSE, enabled |-> FALSE, deletes |-> FALSE, at |-> "past", next |-> "none",
          marker |-> "none", last |-> "none", errors |-> 0]

Empty == [j \in Jobs |-> NoJob]

Results == {"ok", "skipped", "transient", "permanent"}
Callers == {"tick", "catchup", "manual"}

\* held: the run's job is the object that the store in memory holds.
Run == [job : Jobs, by : Callers, n : 0..MaxIncidents, held : BOOLEAN,
        stage : {"checked", "queued", "running", "done"}, result : Results \cup {"none"}]

RunsOf(by) == {e \in runs : e.by = by}

Init ==
  /\ disk = Empty /\ mem = Empty
  /\ phase = "up" /\ skipped = {} /\ deferred = {}
  /\ tick = "idle" /\ timer = FALSE
  /\ runs = {}
  /\ incidents = 0
  /\ freed = {} /\ succeeded = {} /\ lost = {}

-----------------------------------------------------------------------------
(* The schedule of a job *)

ComputeNext(j, r) ==
  CASE ~r.enabled -> "none"
    [] r.enabled /\ Kind[j] # "at" -> "future"
    [] r.enabled /\ Kind[j] = "at" /\ r.at = "spent" -> "none"
    [] r.enabled /\ Kind[j] = "at" /\ r.at = "past" -> "due"
    [] OTHER -> "future"

\* normalizeJobTickState, then ComputeNext where the next run is one of S.
Normalized(j, r, S) ==
  IF ~r.stored \/ ~r.enabled
  THEN [r EXCEPT !.next = "none", !.marker = "none"]
  ELSE [r EXCEPT !.marker = IF @ = "old" THEN "none" ELSE @,
                 !.next = IF @ \in S THEN ComputeNext(j, r) ELSE @]

\* recomputeNextRuns
Recomputed(store) == [j \in Jobs |-> Normalized(j, store[j], {"none", "due"})]

\* Mutant: the repair recomputes what is due as well.
MaintainedFully(store) == [j \in Jobs |-> Normalized(j, store[j], {"none", "due"})]

\* recomputeNextRunsForMaintenance leaves a run that is due alone: an expired slot
\* that has been executed, which it could advance, has been advanced by its result.
Maintained(store) == [j \in Jobs |-> Normalized(j, store[j], {"none"})]

\* Mutant: the job stays enabled.
OnlyUnscheduled(r) == [r EXCEPT !.next = "none"]

Disabled(r) == [r EXCEPT !.enabled = FALSE, !.next = "none"]

\* applyJobResult.  Whether a recurring job succeeded only moves the time of the next run.
ApplyJobResult(j, r, result) ==
  LET error == result \in {"transient", "permanent"}
      errors == IF ~error THEN 0 ELSE IF r.errors > MaxRetries THEN r.errors ELSE r.errors + 1
      ran == [r EXCEPT !.marker = "none", !.errors = errors,
                       !.last = IF error THEN "error" ELSE "ok",
                       !.at = IF @ = "future" THEN @ ELSE IF result = "ok" THEN "spent" ELSE "past"]
  IN  CASE ~r.stored -> r
        [] r.stored /\ Kind[j] # "at" ->
             [r EXCEPT !.marker = "none", !.last = "ok",
                       !.next = IF r.enabled THEN "future" ELSE "none"]
        [] r.stored /\ Kind[j] = "at" /\ result = "ok" /\ r.deletes -> NoJob
        [] r.stored /\ Kind[j] = "at" /\ result = "transient" /\ errors <= MaxRetries ->
             [ran EXCEPT !.next = "future"]
        [] OTHER -> Disabled(ran)

\* applyOutcomeToStoredJob for each result of E.
WithResults(store, E) ==
  [j \in Jobs |->
     IF \E e \in E : e.job = j
     THEN ApplyJobResult(j, store[j], (CHOOSE e \in E : e.job = j).result)
     ELSE store[j]]

Runnable(r) == r.enabled /\ r.marker = "none" /\ r.next = "due"

-----------------------------------------------------------------------------
(* Parts of a step *)

Marked(store, S) ==
  [j \in Jobs |-> IF j \in S THEN [store[j] EXCEPT !.marker = "fresh"] ELSE store[j]]

UnderWay(E) == {e.job : e \in {f \in E : f.stage # "checked"}}

\* The marker of a job is gone while a run of it is under way.
Note(store) ==
  freed' = UnderWay(runs') \cap
             (freed \cup {j \in UnderWay(runs) : store[j].marker = "none"})

\* persist
Write(store) == mem' = store /\ disk' = store

Persist(store) == Write(store) /\ Note(store)

\* The same, where the caller persists only what has changed.
PersistChange(store) ==
  IF store # mem THEN Persist(store) ELSE UNCHANGED storeVars /\ Note(store)

\* Mutant: a job without a next run is not left out.
ArmTimerForAll(store) ==
  timer' = /\ \E j \in Jobs : store[j].enabled
           /\ \A j \in Jobs : store[j].enabled => store[j].next # "none"

\* armTimer: no timer without a job that has a next run.
ArmTimer(store) == timer' = \E j \in Jobs : store[j].enabled /\ store[j].next # "none"

\* A forced reload replaces the objects that the runs hold.
Reloaded(E) == {[e EXCEPT !.held = FALSE] : e \in E}

Queued(by, S) ==
  {[job |-> j, by |-> by, n |-> 0, held |-> by = "tick", stage |-> "queued",
    result |-> "none"] : j \in S}

AllDone(E) == \A e \in E : e.stage = "done"

\* Whoever edits a job, or runs it by hand, means it to run again.
Forget(j) == succeeded' = succeeded \ {j} /\ lost' = lost \ {j}

Incident == incidents < MaxIncidents /\ incidents' = incidents + 1

-----------------------------------------------------------------------------
(* The operations of the gateway *)

\* The id of a job never comes back.
Fresh(j) ==
  /\ ~disk[j].stored /\ ~mem[j].stored
  /\ j \notin {e.job : e \in runs} \cup deferred

\* cron.add recomputes every job.
Add(j) ==
  /\ Fresh(j)
  /\ UNCHANGED runs
  /\ \E enabled \in BOOLEAN, deletes \in BOOLEAN, at \in {"future", "past"} :
       LET once == Kind[j] = "at"
           new == [NoJob EXCEPT !.stored = TRUE, !.enabled = enabled,
                     !.deletes = deletes /\ once, !.at = IF once THEN at ELSE "past"]
           store == Recomputed([mem EXCEPT ![j] = new])
       IN  Persist(store) /\ ArmTimer(store)
  /\ Forget(j)
  /\ UNCHANGED <<bootVars, tick, incidents>>

\* cron.update: enabled, disabled, given another time, or anything else.
Patched(j, r, patch) ==
  LET p == CASE patch = "enable" -> [r EXCEPT !.enabled = TRUE]
             [] patch = "disable" -> [r EXCEPT !.enabled = FALSE]
             [] patch = "reschedule" -> [r EXCEPT !.at = IF Kind[j] = "at" THEN "future" ELSE @]
             [] OTHER -> r
  IN  CASE ~p.enabled /\ patch # "other" -> [p EXCEPT !.next = "none", !.marker = "none"]
        [] p.enabled /\ (patch # "other" \/ p.next = "none") -> [p EXCEPT !.next = ComputeNext(j, p)]
        [] OTHER -> p

Update(j, patch) ==
  /\ Incident
  /\ mem[j].stored
  /\ UNCHANGED runs
  /\ LET store == [mem EXCEPT ![j] = Patched(j, @, patch)]
     IN  Persist(store) /\ ArmTimer(store)
  /\ Forget(j)
  /\ UNCHANGED <<bootVars, tick>>

Remove(j) ==
  /\ Incident
  /\ mem[j].stored
  /\ UNCHANGED runs
  /\ LET store == [mem EXCEPT ![j] = NoJob]
     IN  Persist(store) /\ ArmTimer(store)
  /\ Forget(j)
  /\ UNCHANGED <<bootVars, tick>>

\* cron.list and cron.status repair the store and leave the timer alone.
List ==
  /\ UNCHANGED runs
  /\ PersistChange(Maintained(mem))
  /\ UNCHANGED <<bootVars, tick, timer, incidents, outcomes>>

\* Mutant: the marker of a manual run stays in memory.
ReserveInMemory(store) == mem' = store /\ UNCHANGED disk

Reserve(store) == Write(store)

\* cron.run, under the lock: the job is checked, forced or for being due.  Repairs
\* stay in memory.
ManualRun(j) ==
  /\ Incident
  /\ mem' = Maintained(mem)
  /\ \/ /\ mem'[j].stored /\ mem'[j].marker = "none"
        /\ runs' = runs \cup {[job |-> j, by |-> "manual", n |-> incidents, held |-> FALSE,
                               stage |-> "checked", result |-> "none"]}
     \/ ~Runnable(mem'[j]) /\ UNCHANGED runs
  /\ Note(mem')
  /\ UNCHANGED <<disk, bootVars, tick, timer, outcomes>>

\* Under the lock again: the marker is checked once more and the run reserved, to be
\* executed on a copy of the job; or it is refused.
ManualReserves(e) ==
  LET j == e.job
  IN  /\ e.stage = "checked"
      /\ IF mem[j].stored /\ mem[j].marker = "none"
         THEN /\ runs' = (runs \ {e}) \cup {[e EXCEPT !.stage = "running"]}
              /\ Reserve(Marked(mem, {j}))
              /\ Note(mem')
              /\ Forget(j)
         ELSE /\ runs' = runs \ {e}
              /\ UNCHANGED <<storeVars, history>>
      /\ UNCHANGED <<bootVars, tick, timer, incidents>>

\* finishPreparedManualRun: the result is applied to the copy in memory, whose
\* state of this job is then put into the file as it has become.
ManualFinishes(e) ==
  LET done == ApplyJobResult(e.job, mem[e.job], e.result)
      store == Maintained([disk EXCEPT ![e.job] = IF @.stored \/ ~done.stored THEN done ELSE @])
  IN  /\ e.by = "manual" /\ e.stage = "done"
      /\ IF mem[e.job].stored
         THEN /\ runs' = Reloaded(runs \ {e})
              /\ Persist(store)
              /\ ArmTimer(store)
         ELSE /\ runs' = runs \ {e}
              /\ UNCHANGED <<storeVars, timer>> /\ Note(disk)
      /\ UNCHANGED <<bootVars, tick, incidents, outcomes>>

-----------------------------------------------------------------------------
(* The executions *)

\* Mutant: the smallest limit is zero.
LimitFromZero(by) == IF by = "tick" THEN Concurrency - 1 ELSE 1

\* resolveRunConcurrency; the catch-up runs one job after the other.
Limit(by) == IF by = "tick" THEN Concurrency ELSE 1

\* A worker takes the run.  The tick's marks the job again, in memory, if the
\* object is still the one of the store.
RunBegins(e) ==
  /\ e.stage = "queued"
  /\ Cardinality({f \in RunsOf(e.by) : f.stage = "running"}) < Limit(e.by)
  /\ runs' = (runs \ {e}) \cup {[e EXCEPT !.stage = "running", !.held = FALSE]}
  /\ mem' = IF e.by = "tick" /\ e.held /\ mem[e.job].stored
            THEN Marked(mem, {e.job}) ELSE mem
  /\ UNCHANGED <<disk, bootVars, tick, timer, incidents, history>>

\* executeJobCoreWithTimeout answers, throws or runs into its timeout; an agent turn whose
\* timeoutSeconds is not positive has none.
RunEnds(e) ==
  /\ e.stage = "running"
  /\ \E result \in IF e.job \in OneShots THEN Results ELSE {"ok"} :
       /\ runs' = (runs \ {e}) \cup {[e EXCEPT !.stage = "done", !.result = result]}
       /\ IF result = "ok" /\ e.job \in OneShots
          THEN succeeded' = succeeded \cup {e.job} /\ lost' = lost \ {e.job}
          ELSE UNCHANGED outcomes
  /\ UNCHANGED <<storeVars, bootVars, tick, timer, incidents, freed>>

-----------------------------------------------------------------------------
(* The tick *)

\* onTimer: the file is read again; what is due is marked and queued, or else the
\* store is repaired.  The watchdog timer stays armed; when it fires during a tick
\* it is armed again.
TimerFires ==
  /\ timer /\ tick = "idle"
  /\ LET due == {j \in Jobs : Runnable(disk[j])}
     IN  /\ runs' = Reloaded(runs) \cup Queued("tick", due)
         /\ tick' = IF due = {} THEN "ending" ELSE "running"
         /\ Persist(IF due = {} THEN Maintained(disk) ELSE Marked(disk, due))
  /\ UNCHANGED <<bootVars, timer, incidents, outcomes>>

\* Mutant: the tick does not wait for all its workers.
TickAppliesFirst ==
  LET done == {e \in RunsOf("tick") : e.stage = "done"}
  IN  /\ tick = "running" /\ done # {}
      /\ runs' = Reloaded(runs \ done)
      /\ Persist(Maintained(WithResults(disk, done)))
      /\ tick' = "ending"
      /\ UNCHANGED <<bootVars, timer, incidents, outcomes>>

\* The results of all of them are applied to the file as it has become.
TickApplies ==
  /\ tick = "running" /\ AllDone(RunsOf("tick"))
  /\ runs' = Reloaded(runs \ RunsOf("tick"))
  /\ Persist(Maintained(WithResults(disk, RunsOf("tick"))))
  /\ tick' = "ending"
  /\ UNCHANGED <<bootVars, timer, incidents, outcomes>>

\* The finally of onTimer, once the session reaper is done.
TickEnds ==
  /\ tick = "ending"
  /\ tick' = "idle"
  /\ ArmTimer(mem)
  /\ UNCHANGED <<storeVars, bootVars, runs, incidents, history>>

-----------------------------------------------------------------------------
(* start() *)

\* Mutant: markers are left to the two hours.
StillMarked == disk

\* Its first section: the file is read, and markers in it are taken for stale.
StaleMarkers == {j \in Jobs : disk[j].marker # "none"}

Unmarked == [j \in Jobs |-> [disk[j] EXCEPT !.marker = "none"]]

\* What may be taken for missed: what is due, a one-shot only if it has not run yet or
\* if this is a retry; and a slot of a cron expression without a run on record.
Missed ==
  LET C == {j \in Jobs \ skipped : mem[j].enabled /\ mem[j].marker = "none"}
      Due == {j \in C : mem[j].next = "due"}
      Sure == {j \in Due : Kind[j] # "at" \/ mem[j].last = "none"}
      Maybe == {j \in Due : Kind[j] = "at" /\ mem[j].last = "error"}
                 \cup {j \in C : Kind[j] = "cron" /\ mem[j].last # "none"}
  IN  {Sure \cup X : X \in SUBSET Maybe}

\* runMissedJobs marks and queues the first few and puts the others off.
CatchUp ==
  /\ phase = "booted"
  /\ \E S \in Missed, now \in SUBSET Jobs :
       /\ now \subseteq S
       /\ Cardinality(now) = MaxMissed \/ (now = S /\ Cardinality(S) <= MaxMissed)
       /\ runs' = runs \cup Queued("catchup", now)
       /\ deferred' = S \ now
       /\ IF S = {} THEN UNCHANGED storeVars /\ Note(mem)
                    ELSE Persist(Marked(mem, now))
       /\ phase' = IF S = {} THEN "caughtup" ELSE "catchup"
  /\ UNCHANGED <<skipped, tick, timer, incidents, outcomes>>

CatchUpApplies ==
  LET ran == WithResults(mem, RunsOf("catchup"))
      late == [j \in Jobs |-> IF j \in deferred /\ ran[j].enabled
                              THEN [ran[j] EXCEPT !.next = "future"] ELSE ran[j]]
  IN  /\ phase = "catchup" /\ AllDone(RunsOf("catchup"))
      /\ runs' = runs \ RunsOf("catchup")
      /\ Persist(Maintained(late))
      /\ phase' = "caughtup"
      /\ deferred' = {}
      /\ UNCHANGED <<skipped, tick, timer, incidents, outcomes>>

\* Its last section recomputes every job.
StartEnds ==
  /\ phase = "caughtup"
  /\ phase' = "up"
  /\ skipped' = {}
  /\ UNCHANGED runs
  /\ PersistChange(Recomputed(mem))
  /\ ArmTimer(Recomputed(mem))
  /\ UNCHANGED <<deferred, tick, incidents, outcomes>>

\* A one-shot that has succeeded stays enabled and due until its result is applied.
Unapplied ==
  {j \in succeeded : \E e \in runs : e.job = j /\ e.stage = "done" /\ e.result = "ok"}

\* The gateway dies and is started again: the first section of start().
Restart ==
  /\ Incident
  /\ Write(Unmarked)
  /\ skipped' = StaleMarkers /\ deferred' = {}
  /\ phase' = "booted" /\ tick' = "idle" /\ timer' = FALSE
  /\ runs' = {} /\ freed' = {}
  /\ UNCHANGED succeeded /\ lost' = lost \cup Unapplied

-----------------------------------------------------------------------------
(* Time *)

\* For the copy in memory and the one in the file.
TimeComes(j) ==
  LET On(r) == [r EXCEPT !.next = IF @ = "future" THEN "due" ELSE @,
                         !.at = IF @ = "future" THEN "past" ELSE @]
  IN  /\ disk' = [disk EXCEPT ![j] = On(@)]
      /\ mem' = [mem EXCEPT ![j] = On(@)]
      /\ UNCHANGED <<bootVars, tick, timer, runs, incidents, history>>

\* STUCK_RUN_MS have passed.
TwoHoursPass(j) ==
  LET On(r) == [r EXCEPT !.marker = IF @ = "fresh" THEN "old" ELSE @]
  IN  /\ Incident
      /\ disk' = [disk EXCEPT ![j] = On(@)]
      /\ mem' = [mem EXCEPT ![j] = On(@)]
      /\ storeVars' # storeVars
      /\ UNCHANGED <<bootVars, tick, timer, runs, history>>

-----------------------------------------------------------------------------

Goes(e) == ManualReserves(e) \/ RunBegins(e) \/ RunEnds(e) \/ ManualFinishes(e)

Next ==
  \/ \E j \in Jobs :
       \/ Add(j) \/ Remove(j) \/ ManualRun(j) \/ TimeComes(j) \/ TwoHoursPass(j)
       \/ \E patch \in {"enable", "disable", "reschedule", "other"} : Update(j, patch)
  \/ \E e \in runs : Goes(e)
  \/ TimerFires \/ TickApplies \/ TickEnds
  \/ CatchUp \/ CatchUpApplies \/ StartEnds
  \/ List \/ Restart

SafetySpec == Init /\ [][Next]_vars

\* A timer fires, the event loop goes on, and every run ends: by its timeout at last, or
\* by itself where it has none.
Spec ==
  /\ SafetySpec
  /\ WF_vars(TimerFires) /\ WF_vars(TickApplies) /\ WF_vars(TickEnds)
  /\ WF_vars(CatchUp) /\ WF_vars(CatchUpApplies) /\ WF_vars(StartEnds)
  /\ \A j \in Jobs :
       WF_vars(\E e \in runs : e.job = j /\ Goes(e))
-----------------------------------------------------------------------------
(* Properties *)

\* Every variable has its type; there are runs of a tick or of the catch-up only while it
\* executes them.
TypeOK ==
  /\ disk \in [Jobs -> Job] /\ mem \in [Jobs -> Job]
  /\ phase \in {"booted", "catchup", "caughtup", "up"}
  /\ skipped \subseteq Jobs /\ deferred \subseteq Jobs
  /\ tick \in {"idle", "running", "ending"} /\ timer \in BOOLEAN
  /\ runs \subseteq Run
  /\ RunsOf("tick") # {} => tick = "running"
  /\ RunsOf("catchup") # {} => phase = "catchup"
  /\ incidents \in 0..MaxIncidents
  /\ freed \subseteq Jobs /\ succeeded \subseteq OneShots /\ lost \subseteq succeeded

\* A job is not executed twice at the same time by ticks, manual runs and the catch-up,
\* unless its marker was cleared under the run: by an edit that disables it, by a repair
\* of a disabled job, or after two hours.
NeverTwice ==
  \A j \in Jobs \ freed :
    Cardinality({e \in runs : e.job = j /\ e.stage = "running"}) <= 1

\* A job that is marked as running has a run under way: no marker that was left behind
\* keeps a job from its next runs (applyJobResult, start).
MarkerMeansRun ==
  \A j \in Jobs : (disk[j].marker # "none" \/ mem[j].marker # "none") => j \in UnderWay(runs)

\* The scheduler does not die: between ticks a timer is set as long as a job has a next
\* run (armTimer is called wherever that can change).
TimerArmed ==
  (phase = "up" /\ tick = "idle" /\ \E j \in Jobs : mem[j].enabled /\ mem[j].next # "none")
    => timer

\* A one-shot job that has succeeded is not executed again by itself, until it is edited:
\* unless its marker was cleared under the run, or the gateway died before the result was
\* applied.  Then the job is still due, and is executed again.
OneShotOnce ==
  [][\A e \in runs' \ runs :
       (e.stage = "queued" /\ e.job \in succeeded) => e.job \in freed \cup lost]_vars

\* "Use maintenance-only recompute to avoid advancing past-due nextRunAtMs values without
\* execution" (onTimer): a due run of a recurring job is given up for the next one only
\* by a result or an edit of this job, by the catch-up that puts it off, by start() and
\* by the addition of a job.
SlotsKept ==
  [][\A j \in Jobs \ OneShots :
       (Runnable(disk[j]) /\ disk'[j].next = "future")
         => \/ j \in UnderWay(runs \ runs') \cup deferred
            \/ \E patch \in {"enable", "reschedule"} : Update(j, patch)
            \/ StartEnds
            \/ \E i \in Jobs : Add(i)]_vars

\* "Preserve any new past-due nextRunAtMs values that became due while startup catch-up
\* was running. They should execute on a future tick instead of being silently advanced."
\* (applyStartupCatchupOutcomes)
StartKeepsSlots ==
  [][\A j \in Jobs \ skipped : (StartEnds /\ Runnable(mem[j])) => mem'[j].next = "due"]_vars

\* A job that is due is executed, or is not due any more.
DueRuns ==
  \A j \in Jobs :
    (phase = "up" /\ disk[j].enabled /\ disk[j].next = "due")
      ~> ~(disk[j].enabled /\ disk[j].next = "due") \/ j \in UnderWay(runs)
=============================================================================
