------------------------ MODULE CronService_proofs ------------------------
(***************************************************************************)
(* The invariants of the cron service, for any jobs, limits and number of  *)
(* incidents: its types, no marker is left behind, no job is executed      *)
(* twice at the same time, and the timer is not lost.                      *)
(*                                                                         *)
(* That a marked job has a run under way is not inductive alone.  A result *)
(* is applied to the file, or to the copy in memory, and clears the marker *)
(* there: both copies must know the same jobs, and a job that is not in    *)
(* the store must be neither marked nor enabled, since a result leaves it  *)
(* as it is and the tick marks what is enabled.                            *)
(*                                                                         *)
(* A tick asks the file whether a job is marked; a manual run and the      *)
(* catch-up ask the copy in memory, and nothing asks the runs.  So a job   *)
(* whose marker was not cleared under a run must be marked in both copies  *)
(* as long as the run is under way: OneRun.                                *)
(*                                                                         *)
(* list, status and a manual run repair the store and do not arm the       *)
(* timer, so a repair must never give a job its first next run: an enabled *)
(* job has one, or is a one-shot that has run: Scheduled.                  *)
(***************************************************************************)
EXTENDS CronService, FiniteSetTheorems, TLAPS

Store == [Jobs -> Job]

SameJobs == \A j \in Jobs : mem[j].stored = disk[j].stored

\* What is not stored carries nothing.
Blank(store) ==
  \A j \in Jobs : ~store[j].stored => store[j].marker = "none" /\ ~store[j].enabled

CronInv == TypeOK /\ MarkerMeansRun /\ SameJobs /\ Blank(mem) /\ Blank(disk)

\* b is what a repair may make of a: the same jobs, and no marker that was not there.
Repairs(a, b) ==
  /\ b \in Store
  /\ \A j \in Jobs : /\ b[j].stored = a[j].stored
                     /\ b[j].enabled = a[j].enabled
                     /\ b[j].marker \in {a[j].marker, "none"}

-----------------------------------------------------------------------------
(* The operators on stores *)

LEMMA NormalizedRepairs ==
  ASSUME NEW j \in Jobs, NEW r \in Job, NEW S
  PROVE  /\ Normalized(j, r, S) \in Job
         /\ Normalized(j, r, S).stored = r.stored
         /\ Normalized(j, r, S).enabled = r.enabled
         /\ Normalized(j, r, S).marker \in {r.marker, "none"}
<1>1. ComputeNext(j, r) \in {"none", "future", "due"}
  BY DEF ComputeNext
<1> HIDE DEF ComputeNext
<1>2. CASE ~r.stored \/ ~r.enabled
  BY <1>2 DEF Normalized, Job
<1>3. CASE ~(~r.stored \/ ~r.enabled)
  BY <1>1, <1>3 DEF Normalized, Job
<1> QED BY <1>2, <1>3

LEMMA MaintainedRepairs ==
  ASSUME NEW store \in Store
  PROVE  Repairs(store, Maintained(store))
BY NormalizedRepairs DEF Repairs, Maintained, Store

LEMMA RecomputedRepairs ==
  ASSUME NEW store \in Store
  PROVE  Repairs(store, Recomputed(store))
BY NormalizedRepairs DEF Repairs, Recomputed, Store

\* A result clears the marker of a job, and leaves alone what is not stored.
LEMMA ResultClears ==
  ASSUME NEW j \in Jobs, NEW r \in Job, NEW result
  PROVE  /\ ApplyJobResult(j, r, result) \in Job
         /\ ~r.stored => ApplyJobResult(j, r, result) = r
         /\ r.stored => ApplyJobResult(j, r, result).marker = "none"
         /\ ~ApplyJobResult(j, r, result).stored /\ r.stored
              => ~ApplyJobResult(j, r, result).enabled
<1> DEFINE error == result \in {"transient", "permanent"}
           errors == IF ~error THEN 0 ELSE IF r.errors > MaxRetries THEN r.errors ELSE r.errors + 1
           ran == [r EXCEPT !.marker = "none", !.errors = errors,
                            !.last = IF error THEN "error" ELSE "ok",
                            !.at = IF @ = "future" THEN @
                                   ELSE IF result = "ok" THEN "spent" ELSE "past"]
<1>1. errors \in 0..MaxRetries + 1
  BY LimitsType DEF Job
<1> HIDE DEF errors
<1>2. ran \in Job /\ ran.marker = "none" /\ ran.stored = r.stored /\ ran.enabled = r.enabled
  BY <1>1 DEF Job
<1> HIDE DEF ran
<1>3. CASE ~r.stored
  BY <1>3 DEF ApplyJobResult
<1>4. CASE r.stored /\ Kind[j] # "at"
  <2>1. ApplyJobResult(j, r, result) =
          [r EXCEPT !.marker = "none", !.last = "ok", !.next = IF r.enabled THEN "future" ELSE "none"]
    BY <1>4 DEF ApplyJobResult
  <2> QED BY <2>1, <1>4 DEF Job
<1>5. CASE r.stored /\ Kind[j] = "at"
  <2>1. \/ ApplyJobResult(j, r, result) = NoJob
        \/ ApplyJobResult(j, r, result) = [ran EXCEPT !.next = "future"]
        \/ ApplyJobResult(j, r, result) = Disabled(ran)
    BY <1>5 DEF ApplyJobResult, ran, errors
  <2>2. NoJob \in Job /\ NoJob.marker = "none" /\ ~NoJob.enabled
    BY LimitsType DEF NoJob, Job
  <2>3. \A f \in {"none", "future"} :
          LET q == [ran EXCEPT !.next = f]
          IN  q \in Job /\ q.marker = "none" /\ q.stored = r.stored
    BY <1>2 DEF Job
  <2>4. /\ Disabled(ran) \in Job /\ Disabled(ran).marker = "none"
        /\ Disabled(ran).stored = r.stored
    BY <1>2 DEF Disabled, Job
  <2>5. CASE ApplyJobResult(j, r, result) = NoJob
    BY <2>2, <2>5, <1>5
  <2>6. CASE ApplyJobResult(j, r, result) = [ran EXCEPT !.next = "future"]
    BY <2>3, <2>6, <1>5
  <2>7. CASE ApplyJobResult(j, r, result) = Disabled(ran)
    BY <2>4, <2>7, <1>5
  <2> QED BY <2>1, <2>5, <2>6, <2>7
<1> QED BY <1>3, <1>4, <1>5

LEMMA ResultsClear ==
  ASSUME NEW store \in Store, Blank(store), NEW E
  PROVE  /\ WithResults(store, E) \in Store
         /\ Blank(WithResults(store, E))
         /\ \A j \in Jobs :
              WithResults(store, E)[j].marker # "none" =>
                store[j].marker # "none" /\ ~(\E e \in E : e.job = j)
<1> DEFINE res(j) == (CHOOSE e \in E : e.job = j).result
<1>1. \A j \in Jobs : WithResults(store, E)[j] =
        IF \E e \in E : e.job = j THEN ApplyJobResult(j, store[j], res(j)) ELSE store[j]
  BY DEF WithResults
<1>2. WithResults(store, E) = [j \in Jobs |-> WithResults(store, E)[j]]
  BY DEF WithResults
<1> HIDE DEF res
<1>3. \A j \in Jobs : store[j] \in Job
  BY DEF Store
<1>4. \A j \in Jobs :
        /\ WithResults(store, E)[j] \in Job
        /\ ~WithResults(store, E)[j].stored =>
             WithResults(store, E)[j].marker = "none" /\ ~WithResults(store, E)[j].enabled
        /\ WithResults(store, E)[j].marker # "none" =>
             store[j].marker # "none" /\ ~(\E e \in E : e.job = j)
  <2> TAKE j \in Jobs
  <2>1. CASE \E e \in E : e.job = j
    <3>1. WithResults(store, E)[j] = ApplyJobResult(j, store[j], res(j))
      BY <1>1, <2>1
    <3> QED BY <3>1, <2>1, <1>3, ResultClears DEF Blank
  <2>2. CASE ~(\E e \in E : e.job = j)
    BY <1>1, <1>3, <2>2 DEF Blank
  <2> QED BY <2>1, <2>2
<1> QED BY <1>2, <1>4 DEF Store, Blank

\* A reload changes which objects the runs hold, and nothing else about them.
LEMMA ReloadKeepsRuns ==
  ASSUME NEW E \in SUBSET Run
  PROVE  /\ Reloaded(E) \subseteq Run
         /\ UnderWay(Reloaded(E)) = UnderWay(E)
         /\ \A by : (\E e \in Reloaded(E) : e.by = by) <=> (\E e \in E : e.by = by)
<1> DEFINE h(e) == [e EXCEPT !.held = FALSE]
<1>1. \A e \in E : /\ h(e) \in Run /\ h(e).job = e.job
                   /\ h(e).by = e.by /\ h(e).stage = e.stage
  BY DEF Run
<1>2. Reloaded(E) = {h(e) : e \in E}
  BY DEF Reloaded
<1> HIDE DEF h
<1>3. Reloaded(E) \subseteq Run
  BY <1>1, <1>2
<1>4. UnderWay(Reloaded(E)) \subseteq UnderWay(E)
  BY <1>1, <1>2 DEF UnderWay
<1>5. UnderWay(E) \subseteq UnderWay(Reloaded(E))
  <2> SUFFICES ASSUME NEW e \in E, e.stage # "checked"
               PROVE  e.job \in UnderWay(Reloaded(E))
    BY DEF UnderWay
  <2>1. h(e) \in Reloaded(E) /\ h(e).stage # "checked" /\ h(e).job = e.job
    BY <1>1, <1>2
  <2> QED BY <2>1 DEF UnderWay
<1>6. \A by : (\E e \in Reloaded(E) : e.by = by) <=> (\E e \in E : e.by = by)
  <2> TAKE by
  <2>1. ASSUME NEW e \in E, e.by = by PROVE \E f \in Reloaded(E) : f.by = by
    BY <2>1, <1>1, <1>2
  <2>2. ASSUME NEW f \in Reloaded(E), f.by = by PROVE \E e \in E : e.by = by
    BY <2>2, <1>1, <1>2
  <2> QED BY <2>1, <2>2
<1> QED BY <1>3, <1>4, <1>5, <1>6

LEMMA QueuedRuns ==
  ASSUME NEW by \in {"tick", "catchup"}, NEW S \in SUBSET Jobs
  PROVE  /\ Queued(by, S) \subseteq Run
         /\ UnderWay(Queued(by, S)) = S
         /\ \A e \in Queued(by, S) : e.by = by
<1> DEFINE q(j) == [job |-> j, by |-> by, n |-> 0, held |-> by = "tick",
                    stage |-> "queued", result |-> "none"]
<1>1. \A j \in S : /\ q(j) \in Run /\ q(j).job = j
                   /\ q(j).by = by /\ q(j).stage = "queued"
  BY LimitsType DEF Run, Callers
<1>2. Queued(by, S) = {q(j) : j \in S}
  BY DEF Queued
<1> HIDE DEF q
<1>3. UnderWay(Queued(by, S)) = S
  <2>1. ASSUME NEW j \in S PROVE j \in UnderWay(Queued(by, S))
    <3>1. q(j) \in Queued(by, S) /\ q(j).stage # "checked" /\ q(j).job = j
      BY <1>1, <1>2
    <3> QED BY <3>1 DEF UnderWay
  <2>2. UnderWay(Queued(by, S)) \subseteq S
    BY <1>1, <1>2 DEF UnderWay
  <2> QED BY <2>1, <2>2
<1> QED BY <1>1, <1>2, <1>3

-----------------------------------------------------------------------------
(* The invariant *)

\* A step that writes one store to both copies keeps what they must agree on.
LEMMA WriteKeeps ==
  ASSUME NEW store \in Store, Write(store), Blank(store),
         \A j \in Jobs : store[j].marker # "none" => j \in UnderWay(runs')
  PROVE  mem' \in Store /\ disk' \in Store /\ (MarkerMeansRun /\ SameJobs /\ Blank(mem) /\ Blank(disk))'
BY DEF Write, MarkerMeansRun, SameJobs, Blank

\* A repaired store is no less blank, and has no more markers.
LEMMA RepairsKeep ==
  ASSUME NEW a \in Store, NEW b, Repairs(a, b), Blank(a)
  PROVE  Blank(b) /\ \A j \in Jobs : b[j].marker # "none" => a[j].marker # "none"
BY DEF Repairs, Blank

\* What an edit leaves of a job: typed, still stored, and no marker that was not there.
LEMMA PatchedKeeps ==
  ASSUME NEW j \in Jobs, NEW r \in Job, NEW patch
  PROVE  /\ Patched(j, r, patch) \in Job
         /\ Patched(j, r, patch).stored = r.stored
         /\ Patched(j, r, patch).marker \in {r.marker, "none"}
<1> DEFINE p == CASE patch = "enable" -> [r EXCEPT !.enabled = TRUE]
                  [] patch = "disable" -> [r EXCEPT !.enabled = FALSE]
                  [] patch = "reschedule" ->
                       [r EXCEPT !.at = IF Kind[j] = "at" THEN "future" ELSE @]
                  [] OTHER -> r
<1>1. p \in Job /\ p.stored = r.stored /\ p.marker = r.marker
  BY DEF Job
<1>2. ComputeNext(j, p) \in {"none", "future", "due"}
  BY DEF ComputeNext
<1>3. \/ Patched(j, r, patch) = [p EXCEPT !.next = "none", !.marker = "none"]
      \/ Patched(j, r, patch) = [p EXCEPT !.next = ComputeNext(j, p)]
      \/ Patched(j, r, patch) = p
  BY DEF Patched
<1> HIDE DEF p
<1>4. LET q == [p EXCEPT !.next = "none", !.marker = "none"]
      IN  q \in Job /\ q.stored = r.stored /\ q.marker = "none"
  BY <1>1 DEF Job
<1>5. LET q == [p EXCEPT !.next = ComputeNext(j, p)]
      IN  q \in Job /\ q.stored = r.stored /\ q.marker = r.marker
  BY <1>1, <1>2 DEF Job
<1> QED BY <1>1, <1>3, <1>4, <1>5

LEMMA MarkedKeeps ==
  ASSUME NEW store \in Store, NEW S \in SUBSET Jobs, Blank(store),
         \A j \in S : store[j].stored
  PROVE  /\ Marked(store, S) \in Store
         /\ Blank(Marked(store, S))
         /\ \A j \in Jobs : /\ Marked(store, S)[j].stored = store[j].stored
                            /\ Marked(store, S)[j].marker # "none" =>
                                 j \in S \/ store[j].marker # "none"
<1>1. \A j \in Jobs : LET q == [store[j] EXCEPT !.marker = "fresh"]
                      IN  q \in Job /\ q.stored = store[j].stored
  BY DEF Store, Job
<1> QED BY <1>1 DEF Marked, Store, Blank

\* The parts of the invariant about the two copies of the store, and the types of the rest.
StoresOK == mem \in Store /\ disk \in Store /\ MarkerMeansRun /\ SameJobs /\ Blank(mem) /\ Blank(disk)

RunsOK ==
  /\ runs \subseteq Run
  /\ \A e \in runs : (e.by = "tick" => tick = "running") /\ (e.by = "catchup" => phase = "catchup")

RestOK ==
  /\ phase \in {"booted", "catchup", "caughtup", "up"}
  /\ skipped \subseteq Jobs /\ deferred \subseteq Jobs
  /\ tick \in {"idle", "running", "ending"} /\ timer \in BOOLEAN
  /\ incidents \in 0..MaxIncidents
  /\ freed \subseteq Jobs /\ succeeded \subseteq OneShots /\ lost \subseteq succeeded

LEMMA InvParts == CronInv <=> StoresOK /\ RunsOK /\ RestOK
BY DEF CronInv, TypeOK, StoresOK, RunsOK, RestOK, RunsOf, Store

LEMMA InvPartsNext == CronInv' <=> StoresOK' /\ RunsOK' /\ RestOK'
BY DEF CronInv, TypeOK, StoresOK, RunsOK, RestOK, RunsOf, Store

LEMMA NoJobType == NoJob \in Job /\ NoJob.marker = "none" /\ ~NoJob.enabled /\ ~NoJob.stored
BY LimitsType DEF NoJob, Job

LEMMA InitInv == Init => CronInv
<1> SUFFICES ASSUME Init PROVE StoresOK /\ RunsOK /\ RestOK
  BY InvParts
<1>2. StoresOK
  BY NoJobType DEF Init, StoresOK, Store, MarkerMeansRun, SameJobs, Blank, Empty
<1>3. RunsOK
  BY DEF Init, RunsOK
<1>4. 0 \in 0..MaxIncidents
  BY LimitsType
<1>5. RestOK
  BY <1>4 DEF Init, RestOK
<1> QED BY <1>2, <1>3, <1>5

\* The bounds a step may move: incidents, and the histories.
LEMMA IncidentType == ASSUME RestOK, Incident PROVE incidents' \in 0..MaxIncidents
BY LimitsType DEF RestOK, Incident

LEMMA NoteType ==
  ASSUME RestOK, RunsOK, RunsOK', NEW store, Note(store)
  PROVE  freed' \subseteq Jobs
BY DEF RestOK, RunsOK, Note, UnderWay, Run

LEMMA UnchangedInv == ASSUME CronInv, UNCHANGED vars PROVE CronInv'
BY DEF CronInv, TypeOK, MarkerMeansRun, SameJobs, Blank, RunsOf, UnderWay, vars

\* Edits, lists and reads: the runs go on, and the store that is written has the markers
\* it had in memory, or fewer.
LEMMA EditInv ==
  ASSUME CronInv, NEW store \in Store, Persist(store), Blank(store), UNCHANGED <<runs, tick, phase>>,
         \A j \in Jobs : store[j].marker # "none" => mem[j].marker # "none"
  PROVE  StoresOK' /\ RunsOK' /\ freed' \subseteq Jobs
<1> USE InvParts
<1>1. StoresOK'
  BY WriteKeeps DEF Persist, StoresOK, MarkerMeansRun
<1>2. RunsOK'
  BY DEF RunsOK
<1>3. freed' \subseteq Jobs
  BY <1>2, NoteType DEF Persist
<1> QED BY <1>1, <1>2, <1>3

LEMMA WithKeeps ==
  ASSUME NEW store \in Store, Blank(store), NEW j \in Jobs, NEW new \in Job, new.stored
  PROVE  [store EXCEPT ![j] = new] \in Store /\ Blank([store EXCEPT ![j] = new])
BY DEF Store, Blank

LEMMA AddInv == ASSUME CronInv, NEW j \in Jobs, Add(j) PROVE CronInv'
<1> USE InvParts
<1>1. PICK enabled \in BOOLEAN, deletes \in BOOLEAN, at \in {"future", "past"} :
        LET once == Kind[j] = "at"
            new == [NoJob EXCEPT !.stored = TRUE, !.enabled = enabled,
                      !.deletes = deletes /\ once, !.at = IF once THEN at ELSE "past"]
            store == Recomputed([mem EXCEPT ![j] = new])
        IN  Persist(store) /\ ArmTimer(store)
  BY DEF Add
<1> DEFINE once == Kind[j] = "at"
           new == [NoJob EXCEPT !.stored = TRUE, !.enabled = enabled,
                     !.deletes = deletes /\ once, !.at = IF once THEN at ELSE "past"]
           with == [mem EXCEPT ![j] = new]
<1>2. new \in Job /\ new.stored /\ new.marker = "none"
  BY NoJobType DEF Job
<1> HIDE DEF new
<1>3. with \in Store /\ Blank(with) /\ \A i \in Jobs : with[i].marker # "none" => mem[i].marker # "none"
  <2>1. with \in Store /\ Blank(with)
    BY <1>2, WithKeeps DEF StoresOK
  <2> QED BY <1>2, <2>1 DEF StoresOK, Store
<1> HIDE DEF with
<1>4. Repairs(with, Recomputed(with))
  BY <1>3, RecomputedRepairs
<1>5. Persist(Recomputed(with)) /\ ArmTimer(Recomputed(with))
  BY <1>1 DEF with, new
<1>6. StoresOK' /\ RunsOK' /\ freed' \subseteq Jobs
  <2>1. Recomputed(with) \in Store
    BY <1>4 DEF Repairs
  <2>2. /\ Blank(Recomputed(with))
        /\ \A i \in Jobs : Recomputed(with)[i].marker # "none" => with[i].marker # "none"
    BY <1>3, <1>4, RepairsKeep
  <2> QED BY <1>3, <1>5, <2>1, <2>2, EditInv DEF Add, bootVars
<1>7. RestOK'
  BY <1>5, <1>6 DEF RestOK, Add, ArmTimer, bootVars, Forget
<1> QED BY <1>6, <1>7, InvPartsNext

LEMMA UpdateInv == ASSUME CronInv, NEW j \in Jobs, NEW patch, Update(j, patch) PROVE CronInv'
<1> USE InvParts
<1> DEFINE with == [mem EXCEPT ![j] = Patched(j, @, patch)]
<1>1. with \in Store /\ Blank(with) /\ \A i \in Jobs : with[i].marker # "none" => mem[i].marker # "none"
  <2>1. mem[j] \in Job /\ mem[j].stored
    BY DEF StoresOK, Store, Update
  <2>2. /\ Patched(j, mem[j], patch) \in Job /\ Patched(j, mem[j], patch).stored
        /\ Patched(j, mem[j], patch).marker \in {mem[j].marker, "none"}
    BY <2>1, PatchedKeeps
  <2> QED BY <2>2 DEF StoresOK, Store, Blank
<1>2. Persist(with) /\ ArmTimer(with)
  BY DEF Update
<1> HIDE DEF with
<1>3. StoresOK' /\ RunsOK' /\ freed' \subseteq Jobs
  BY <1>1, <1>2, EditInv DEF Update, bootVars
<1>4. RestOK'
  BY <1>2, <1>3, IncidentType DEF RestOK, Update, ArmTimer, bootVars, Forget
<1> QED BY <1>3, <1>4, InvPartsNext

LEMMA RemoveInv == ASSUME CronInv, NEW j \in Jobs, Remove(j) PROVE CronInv'
<1> USE InvParts
<1> DEFINE with == [mem EXCEPT ![j] = NoJob]
<1>1. with \in Store /\ Blank(with) /\ \A i \in Jobs : with[i].marker # "none" => mem[i].marker # "none"
  BY NoJobType DEF StoresOK, Store, Blank
<1>2. Persist(with) /\ ArmTimer(with)
  BY DEF Remove
<1> HIDE DEF with
<1>3. StoresOK' /\ RunsOK' /\ freed' \subseteq Jobs
  BY <1>1, <1>2, EditInv DEF Remove, bootVars
<1>4. RestOK'
  BY <1>2, <1>3, IncidentType DEF RestOK, Remove, ArmTimer, bootVars, Forget
<1> QED BY <1>3, <1>4, InvPartsNext

\* What list, status and the end of start() do: a repair that is saved if it changes anything.
LEMMA RepairInv ==
  ASSUME CronInv, NEW store, Repairs(mem, store), PersistChange(store),
         runs' = runs, RunsOK'
  PROVE  StoresOK' /\ freed' \subseteq Jobs
<1> USE InvParts
<1>1. store \in Store /\ Blank(store) /\ \A j \in Jobs : store[j].marker # "none" => mem[j].marker # "none"
  BY RepairsKeep DEF Repairs, StoresOK
<1>2. CASE store # mem
  <2>1. Write(store) /\ Note(store)
    BY <1>2 DEF PersistChange, Persist
  <2>2. StoresOK'
    BY <1>1, <2>1, WriteKeeps DEF StoresOK, MarkerMeansRun
  <2>3. freed' \subseteq Jobs
    BY <2>1, NoteType
  <2> QED BY <2>2, <2>3
<1>3. CASE store = mem
  <2>1. UNCHANGED <<mem, disk>> /\ Note(store)
    BY <1>3 DEF PersistChange, storeVars
  <2>2. StoresOK'
    BY <2>1 DEF StoresOK, MarkerMeansRun, SameJobs, Blank
  <2>3. freed' \subseteq Jobs
    BY <2>1, NoteType
  <2> QED BY <2>2, <2>3
<1> QED BY <1>2, <1>3

LEMMA ListInv == ASSUME CronInv, List PROVE CronInv'
<1> USE InvParts
<1>1. RunsOK'
  BY DEF List, RunsOK, bootVars
<1>2. StoresOK' /\ freed' \subseteq Jobs
  BY <1>1, RepairInv, MaintainedRepairs DEF List, StoresOK
<1>3. RestOK'
  BY <1>2 DEF List, RestOK, bootVars, outcomes
<1> QED BY <1>1, <1>2, <1>3, InvPartsNext

LEMMA StartEndsInv == ASSUME CronInv, StartEnds PROVE CronInv'
<1> USE InvParts
<1>1. RunsOK'
  BY DEF StartEnds, RunsOK
<1>2. StoresOK' /\ freed' \subseteq Jobs
  BY <1>1, RepairInv, RecomputedRepairs DEF StartEnds, StoresOK
<1>3. RestOK'
  BY <1>2 DEF StartEnds, RestOK, ArmTimer, outcomes
<1> QED BY <1>1, <1>2, <1>3, InvPartsNext

\* The clock moves on in both copies alike.
LEMMA TimeInv ==
  ASSUME CronInv, NEW j \in Jobs, TimeComes(j) \/ TwoHoursPass(j)
  PROVE  CronInv'
<1> USE InvParts
<1> DEFINE On(r) == [r EXCEPT !.next = IF @ = "future" THEN "due" ELSE @,
                              !.at = IF @ = "future" THEN "past" ELSE @]
           Old(r) == [r EXCEPT !.marker = IF @ = "fresh" THEN "old" ELSE @]
<1>1. \A r \in Job :
        /\ On(r) \in Job /\ On(r).stored = r.stored /\ On(r).enabled = r.enabled
        /\ On(r).marker = r.marker
  BY DEF Job
<1>7. \A r \in Job :
        /\ Old(r) \in Job /\ Old(r).stored = r.stored /\ Old(r).enabled = r.enabled
        /\ (Old(r).marker # "none" <=> r.marker # "none")
  BY DEF Job
<1>2. \/ disk' = [disk EXCEPT ![j] = On(@)] /\ mem' = [mem EXCEPT ![j] = On(@)]
      \/ disk' = [disk EXCEPT ![j] = Old(@)] /\ mem' = [mem EXCEPT ![j] = Old(@)]
  BY DEF TimeComes, TwoHoursPass
<1> HIDE DEF On, Old
<1>3. UNCHANGED <<bootVars, tick, timer, runs, history>> /\ (incidents' = incidents \/ Incident)
  BY DEF TimeComes, TwoHoursPass, history
<1>4. /\ mem' \in Store /\ disk' \in Store
      /\ \A i \in Jobs : /\ mem'[i].stored = mem[i].stored /\ disk'[i].stored = disk[i].stored
                         /\ mem'[i].enabled = mem[i].enabled /\ disk'[i].enabled = disk[i].enabled
                         /\ mem'[i].marker # "none" <=> mem[i].marker # "none"
                         /\ disk'[i].marker # "none" <=> disk[i].marker # "none"
  <2>1. CASE disk' = [disk EXCEPT ![j] = On(@)] /\ mem' = [mem EXCEPT ![j] = On(@)]
    BY <1>1, <2>1 DEF StoresOK, Store
  <2>2. CASE disk' = [disk EXCEPT ![j] = Old(@)] /\ mem' = [mem EXCEPT ![j] = Old(@)]
    BY <1>7, <2>2 DEF StoresOK, Store
  <2> QED BY <1>2, <2>1, <2>2
<1>5. StoresOK'
  BY <1>3, <1>4 DEF StoresOK, SameJobs, Blank, MarkerMeansRun
<1>6. RunsOK' /\ RestOK'
  BY <1>3, IncidentType DEF RunsOK, RestOK, bootVars, history, outcomes
<1> QED BY <1>5, <1>6, InvPartsNext

-----------------------------------------------------------------------------
(* The executions *)

LEMMA ManualRunInv == ASSUME CronInv, NEW j \in Jobs, ManualRun(j) PROVE CronInv'
<1> USE InvParts
<1> DEFINE e == [job |-> j, by |-> "manual", n |-> incidents, held |-> FALSE,
                 stage |-> "checked", result |-> "none"]
<1>1. Repairs(mem, Maintained(mem)) /\ mem' = Maintained(mem) /\ disk' = disk
  BY MaintainedRepairs DEF ManualRun, StoresOK
<1>2. e \in Run /\ e.by = "manual" /\ e.stage = "checked"
  BY DEF Run, Callers, RestOK
<1>3. runs' = runs \/ runs' = runs \cup {e}
  BY DEF ManualRun
<1> HIDE DEF e
<1>4. RunsOK'
  BY <1>2, <1>3 DEF RunsOK, ManualRun, bootVars
<1>5. UnderWay(runs') = UnderWay(runs)
  BY <1>2, <1>3 DEF UnderWay
<1>6. mem' \in Store /\ Blank(mem') /\ \A i \in Jobs : mem'[i].marker # "none" => mem[i].marker # "none"
  BY <1>1, RepairsKeep DEF Repairs, StoresOK
<1>7. StoresOK'
  BY <1>1, <1>5, <1>6 DEF StoresOK, MarkerMeansRun, SameJobs, Blank, Repairs
<1>8. freed' \subseteq Jobs
  BY <1>4, NoteType DEF ManualRun
<1>9. RestOK'
  BY <1>8, IncidentType DEF ManualRun, RestOK, bootVars, outcomes
<1> QED BY <1>4, <1>7, <1>9, InvPartsNext

\* A run that goes on to another stage, other than that of a check, keeps what is under way.
LEMMA StageKeeps ==
  ASSUME NEW E \in SUBSET Run, NEW e \in E, NEW f, f.job = e.job, f.stage # "checked"
  PROVE  UnderWay(E) \cup {e.job} \subseteq UnderWay((E \ {e}) \cup {f})
<1> SUFFICES ASSUME NEW j, j = e.job \/ (\E g \in E : g.stage # "checked" /\ g.job = j)
             PROVE  \E h \in (E \ {e}) \cup {f} : h.stage # "checked" /\ h.job = j
  BY DEF UnderWay
<1>1. CASE j = e.job
  BY <1>1
<1>2. CASE j # e.job
  BY <1>2
<1> QED BY <1>1, <1>2

LEMMA ManualReservesInv == ASSUME CronInv, NEW e \in runs, ManualReserves(e) PROVE CronInv'
<1> USE InvParts
<1> DEFINE j == e.job
           f == [e EXCEPT !.stage = "running"]
<1>1. e \in Run /\ j \in Jobs /\ e.stage = "checked"
  BY DEF RunsOK, Run, ManualReserves
<1>2. f \in Run /\ f.job = j /\ f.by = e.by /\ f.stage = "running"
  BY <1>1 DEF Run
<1>3. CASE mem[j].stored /\ mem[j].marker = "none"
  <2>1. /\ runs' = (runs \ {e}) \cup {f} /\ Write(Marked(mem, {j})) /\ Note(mem')
        /\ Forget(j)
        /\ UNCHANGED <<phase, skipped, deferred, tick, timer, incidents>>
    BY <1>3 DEF ManualReserves, Reserve, bootVars
  <2> HIDE DEF f, j
  <2>2. RunsOK'
    BY <1>1, <1>2, <2>1 DEF RunsOK
  <2>3. UnderWay(runs) \cup {j} \subseteq UnderWay(runs')
    BY <1>1, <1>2, <2>1, StageKeeps DEF RunsOK, j
  <2>4. StoresOK'
    <3>1. /\ Marked(mem, {j}) \in Store /\ Blank(Marked(mem, {j}))
          /\ \A i \in Jobs : Marked(mem, {j})[i].marker # "none" => i = j \/ mem[i].marker # "none"
      BY <1>1, <1>3, MarkedKeeps DEF StoresOK
    <3> QED BY <2>1, <2>3, <3>1, WriteKeeps DEF StoresOK, MarkerMeansRun
  <2>5. freed' \subseteq Jobs
    BY <2>1, <2>2, NoteType
  <2>6. RestOK'
    BY <2>1, <2>5 DEF RestOK, Forget
  <2> QED BY <2>2, <2>4, <2>6, InvPartsNext
<1>4. CASE ~(mem[j].stored /\ mem[j].marker = "none")
  <2>1. runs' = runs \ {e} /\ UNCHANGED <<disk, mem, freed, outcomes, phase, skipped, deferred, tick, timer, incidents>>
    BY <1>4 DEF ManualReserves, storeVars, history, bootVars
  <2>2. UnderWay(runs') = UnderWay(runs)
    BY <1>1, <2>1 DEF UnderWay
  <2>3. StoresOK'
    BY <2>1, <2>2 DEF StoresOK, SameJobs, Blank, MarkerMeansRun
  <2>4. RunsOK' /\ RestOK'
    BY <2>1 DEF RunsOK, RestOK, outcomes
  <2> QED BY <2>3, <2>4, InvPartsNext
<1> QED BY <1>3, <1>4

LEMMA RunBeginsInv == ASSUME CronInv, NEW e \in runs, RunBegins(e) PROVE CronInv'
<1> USE InvParts
<1> DEFINE j == e.job
           f == [e EXCEPT !.stage = "running", !.held = FALSE]
<1>1. e \in Run /\ j \in Jobs
  BY DEF RunsOK, Run
<1>2. f \in Run /\ f.job = j /\ f.by = e.by /\ f.stage = "running"
  BY <1>1 DEF Run
<1>3. /\ runs' = (runs \ {e}) \cup {f}
      /\ mem' = IF e.by = "tick" /\ e.held /\ mem[j].stored THEN Marked(mem, {j}) ELSE mem
      /\ UNCHANGED <<disk, phase, skipped, deferred, tick, timer, incidents, freed, outcomes>>
  BY DEF RunBegins, bootVars, history
<1> HIDE DEF f, j
<1>4. RunsOK' /\ RestOK'
  BY <1>1, <1>2, <1>3 DEF RunsOK, RestOK, outcomes
<1>5. UnderWay(runs) \cup {j} \subseteq UnderWay(runs')
  BY <1>1, <1>2, <1>3, StageKeeps DEF RunsOK, j
<1>6. /\ mem' \in Store /\ Blank(mem')
      /\ \A i \in Jobs : /\ mem'[i].stored = mem[i].stored
                         /\ mem'[i].marker # "none" => i = j \/ mem[i].marker # "none"
  <2>1. CASE mem' = mem
    BY <2>1 DEF StoresOK
  <2>2. CASE mem[j].stored /\ mem' = Marked(mem, {j})
    BY <1>1, <2>2, MarkedKeeps DEF StoresOK
  <2> QED BY <1>3, <2>1, <2>2
<1>7. StoresOK'
  BY <1>3, <1>5, <1>6 DEF StoresOK, SameJobs, Blank, MarkerMeansRun
<1> QED BY <1>4, <1>7, InvPartsNext

LEMMA RunEndsInv == ASSUME CronInv, NEW e \in runs, RunEnds(e) PROVE CronInv'
<1> USE InvParts
<1>1. PICK result \in IF e.job \in OneShots THEN Results ELSE {"ok"} :
        /\ runs' = (runs \ {e}) \cup {[e EXCEPT !.stage = "done", !.result = result]}
        /\ IF result = "ok" /\ e.job \in OneShots
           THEN succeeded' = succeeded \cup {e.job} /\ lost' = lost \ {e.job}
           ELSE UNCHANGED outcomes
  BY DEF RunEnds
<1> DEFINE f == [e EXCEPT !.stage = "done", !.result = result]
<1>2. result \in Results
  BY DEF Results
<1>3. f \in Run /\ f.job = e.job /\ f.by = e.by /\ f.stage = "done"
  BY <1>2 DEF RunsOK, Run
<1>4. runs' = (runs \ {e}) \cup {f}
  BY <1>1
<1> HIDE DEF f
<1>5. UNCHANGED <<disk, mem, phase, skipped, deferred, tick, timer, incidents, freed>>
  BY DEF RunEnds, storeVars, bootVars
<1>6. UnderWay(runs) \subseteq UnderWay(runs')
  BY <1>3, <1>4, StageKeeps DEF RunsOK
<1>7. StoresOK'
  BY <1>5, <1>6 DEF StoresOK, SameJobs, Blank, MarkerMeansRun
<1>8. RunsOK'
  BY <1>3, <1>4, <1>5 DEF RunsOK
<1>9. RestOK'
  BY <1>1, <1>5 DEF RestOK, outcomes
<1> QED BY <1>7, <1>8, <1>9, InvPartsNext

\* Without the runs of E, whatever had another run still has it.
LEMMA OthersKeep ==
  ASSUME NEW E, NEW R, NEW j \in UnderWay(R), ~(\E e \in E : e.job = j)
  PROVE  j \in UnderWay(R \ E)
BY DEF UnderWay

\* The result of a manual run, put into the file.
LEMMA FinishedKeeps ==
  ASSUME CronInv, NEW e \in runs, mem[e.job].stored
  PROVE  LET done == ApplyJobResult(e.job, mem[e.job], e.result)
             with == [disk EXCEPT ![e.job] = IF @.stored \/ ~done.stored THEN done ELSE @]
         IN  /\ with \in Store /\ Blank(with)
             /\ \A i \in Jobs : with[i].marker # "none" => i # e.job /\ disk[i].marker # "none"
<1> USE InvParts
<1> DEFINE j == e.job
           done == ApplyJobResult(j, mem[j], e.result)
           with == [disk EXCEPT ![j] = IF @.stored \/ ~done.stored THEN done ELSE @]
<1>1. j \in Jobs /\ mem[j] \in Job /\ disk[j] \in Job /\ disk[j].stored
  BY DEF RunsOK, Run, StoresOK, Store, SameJobs
<1>2. done \in Job /\ done.marker = "none" /\ (~done.stored => ~done.enabled)
  BY <1>1, ResultClears
<1> HIDE DEF done
<1>3. with = [disk EXCEPT ![j] = done]
  BY <1>1
<1>4. with \in Store /\ Blank(with)
      /\ \A i \in Jobs : with[i].marker # "none" => i # j /\ disk[i].marker # "none"
  BY <1>1, <1>2, <1>3 DEF StoresOK, Store, Blank
<1> QED BY <1>4 DEF done

LEMMA ManualFinishesInv == ASSUME CronInv, NEW e \in runs, ManualFinishes(e) PROVE CronInv'
<1> USE InvParts
<1> DEFINE j == e.job
           done == ApplyJobResult(j, mem[j], e.result)
           with == [disk EXCEPT ![j] = IF @.stored \/ ~done.stored THEN done ELSE @]
<1>1. e \in Run /\ j \in Jobs /\ mem[j] \in Job /\ disk[j] \in Job /\ mem[j].stored = disk[j].stored
  BY DEF RunsOK, Run, StoresOK, Store, SameJobs
<1>2. UNCHANGED <<phase, skipped, deferred, tick, incidents, outcomes>>
  BY DEF ManualFinishes, bootVars
<1>3. runs \ {e} \in SUBSET Run
  BY DEF RunsOK
<1>4. \A i \in UnderWay(runs) : i # j => i \in UnderWay(runs \ {e})
  BY OthersKeep
<1>5. CASE mem[j].stored
  <2>1. /\ runs' = Reloaded(runs \ {e})
        /\ Write(Maintained(with)) /\ Note(Maintained(with)) /\ ArmTimer(Maintained(with))
    BY <1>5 DEF ManualFinishes, Persist
  <2>2. with \in Store /\ Blank(with)
        /\ \A i \in Jobs : with[i].marker # "none" => i # j /\ disk[i].marker # "none"
    BY <1>5, FinishedKeeps
  <2> HIDE DEF with, j
  <2>3. /\ Maintained(with) \in Store /\ Blank(Maintained(with))
        /\ \A i \in Jobs : Maintained(with)[i].marker # "none" => with[i].marker # "none"
    BY <2>2, MaintainedRepairs, RepairsKeep DEF Repairs
  <2>4. UnderWay(runs') = UnderWay(runs \ {e})
    BY <1>3, <2>1, ReloadKeepsRuns
  <2>5. StoresOK'
    BY <1>4, <2>1, <2>2, <2>3, <2>4, WriteKeeps DEF StoresOK, MarkerMeansRun
  <2>6. RunsOK'
    <3>1. runs' \subseteq Run /\ \A by : (\E f \in runs' : f.by = by) => \E f \in runs \ {e} : f.by = by
      BY <1>3, <2>1, ReloadKeepsRuns
    <3> QED BY <1>2, <3>1 DEF RunsOK
  <2>7. freed' \subseteq Jobs
    BY <2>1, <2>6, NoteType
  <2>8. RestOK'
    BY <1>2, <2>1, <2>7 DEF RestOK, ArmTimer, outcomes
  <2> QED BY <2>5, <2>6, <2>8, InvPartsNext
<1>6. CASE ~mem[j].stored
  <2>1. runs' = runs \ {e} /\ UNCHANGED <<disk, mem, timer>> /\ Note(disk)
    BY <1>6 DEF ManualFinishes, storeVars
  <2>2. mem[j].marker = "none" /\ disk[j].marker = "none"
    BY <1>1, <1>6 DEF StoresOK, Blank
  <2> HIDE DEF j
  <2>3. StoresOK'
    BY <1>4, <2>1, <2>2 DEF StoresOK, SameJobs, Blank, MarkerMeansRun
  <2>4. RunsOK'
    BY <1>2, <2>1 DEF RunsOK
  <2>5. freed' \subseteq Jobs
    BY <2>1, <2>4, NoteType
  <2>6. RestOK'
    BY <1>2, <2>1, <2>5 DEF RestOK, outcomes
  <2> QED BY <2>3, <2>4, <2>6, InvPartsNext
<1> QED BY <1>5, <1>6

-----------------------------------------------------------------------------
(* The tick *)

LEMMA TimerFiresInv == ASSUME CronInv, TimerFires PROVE CronInv'
<1> USE InvParts
<1> DEFINE due == {j \in Jobs : Runnable(disk[j])}
           store == IF due = {} THEN Maintained(disk) ELSE Marked(disk, due)
<1>1. /\ runs' = Reloaded(runs) \cup Queued("tick", due)
      /\ tick = "idle" /\ tick' = IF due = {} THEN "ending" ELSE "running"
      /\ Write(store) /\ Note(store)
      /\ UNCHANGED <<phase, skipped, deferred, timer, incidents, outcomes>>
  BY DEF TimerFires, Persist, bootVars
<1>2. \A j \in due : disk[j].stored
  BY DEF Runnable, StoresOK, Blank
<1>3. due \in SUBSET Jobs
  OBVIOUS
<1> HIDE DEF due
<1>4. /\ store \in Store /\ Blank(store)
      /\ \A j \in Jobs : store[j].marker # "none" => j \in due \/ disk[j].marker # "none"
  <2>1. CASE due = {}
    <3>1. Repairs(disk, Maintained(disk))
      BY MaintainedRepairs DEF StoresOK
    <3>2. /\ Maintained(disk) \in Store /\ Blank(Maintained(disk))
          /\ \A j \in Jobs : Maintained(disk)[j].marker # "none" => disk[j].marker # "none"
      BY <3>1, RepairsKeep DEF Repairs, StoresOK
    <3> QED BY <2>1, <3>2
  <2>2. CASE due # {}
    <3>1. /\ Marked(disk, due) \in Store /\ Blank(Marked(disk, due))
          /\ \A j \in Jobs : Marked(disk, due)[j].marker # "none" =>
                               j \in due \/ disk[j].marker # "none"
      BY <1>2, <1>3, MarkedKeeps DEF StoresOK
    <3> QED BY <2>2, <3>1
  <2> QED BY <2>1, <2>2
<1> HIDE DEF store
<1>5. /\ Reloaded(runs) \subseteq Run /\ UnderWay(Reloaded(runs)) = UnderWay(runs)
      /\ \A by : (\E e \in Reloaded(runs) : e.by = by) <=> (\E e \in runs : e.by = by)
  BY ReloadKeepsRuns DEF RunsOK
<1>6. /\ Queued("tick", due) \subseteq Run /\ UnderWay(Queued("tick", due)) = due
      /\ \A e \in Queued("tick", due) : e.by = "tick"
  BY <1>3, QueuedRuns
<1>7. UnderWay(runs') = UnderWay(runs) \cup due
  <2>1. UnderWay(runs') = UnderWay(Reloaded(runs)) \cup UnderWay(Queued("tick", due))
    BY <1>1 DEF UnderWay
  <2> QED BY <2>1, <1>5, <1>6
<1>8. StoresOK'
  BY <1>1, <1>4, <1>7, WriteKeeps DEF StoresOK, MarkerMeansRun
<1>9. RunsOK'
  <2>1. \A e \in runs : e.by # "tick"
    BY <1>1 DEF RunsOK
  <2>2. \A e \in Reloaded(runs) : e.by # "tick" /\ (e.by = "catchup" => phase = "catchup")
    BY <1>5, <2>1 DEF RunsOK
  <2>3. Queued("tick", {}) = {}
    BY DEF Queued
  <2>4. \A e \in runs' : e \in Reloaded(runs) \/ (e.by = "tick" /\ due # {})
    BY <1>1, <1>6, <2>3
  <2> QED BY <1>1, <1>5, <1>6, <2>2, <2>4 DEF RunsOK
<1>10. freed' \subseteq Jobs
  BY <1>1, <1>9, NoteType
<1>11. RestOK'
  BY <1>1, <1>10 DEF RestOK, outcomes
<1> QED BY <1>8, <1>9, <1>11, InvPartsNext

\* What the results of one caller do to the invariant; R is what is left, up to a reload.
LEMMA AppliesInv ==
  ASSUME CronInv, NEW store \in Store, Blank(store), NEW by, Write(store),
         \A j \in Jobs : store[j].marker # "none" =>
           j \in UnderWay(runs) /\ ~(\E e \in RunsOf(by) : e.job = j),
         UnderWay(runs') = UnderWay(runs \ RunsOf(by))
  PROVE  StoresOK'
<1>1. \A j \in Jobs : store[j].marker # "none" => j \in UnderWay(runs')
  BY OthersKeep
<1> QED BY <1>1, WriteKeeps DEF StoresOK

LEMMA TickAppliesInv == ASSUME CronInv, TickApplies PROVE CronInv'
<1> USE InvParts
<1> DEFINE E == RunsOf("tick")
           with == WithResults(disk, E)
<1>1. /\ runs' = Reloaded(runs \ E) /\ Write(Maintained(with)) /\ Note(Maintained(with))
      /\ tick' = "ending"
      /\ UNCHANGED <<phase, skipped, deferred, timer, incidents, outcomes>>
  BY DEF TickApplies, Persist, bootVars
<1>2. /\ with \in Store /\ Blank(with)
      /\ \A j \in Jobs : with[j].marker # "none" =>
                           disk[j].marker # "none" /\ ~(\E e \in E : e.job = j)
  BY ResultsClear DEF StoresOK
<1> HIDE DEF with
<1>3. /\ Maintained(with) \in Store /\ Blank(Maintained(with))
      /\ \A j \in Jobs : Maintained(with)[j].marker # "none" => with[j].marker # "none"
  BY <1>2, MaintainedRepairs, RepairsKeep DEF Repairs
<1>4. /\ runs' \subseteq Run /\ UnderWay(runs') = UnderWay(runs \ E)
      /\ \A by : (\E e \in runs' : e.by = by) => \E e \in runs \ E : e.by = by
  BY <1>1, ReloadKeepsRuns DEF RunsOK
<1>5. StoresOK'
  BY <1>1, <1>2, <1>3, <1>4, AppliesInv DEF StoresOK, MarkerMeansRun
<1>6. RunsOK'
  BY <1>1, <1>4 DEF RunsOK, RunsOf
<1>7. freed' \subseteq Jobs
  BY <1>1, <1>6, NoteType
<1>8. RestOK'
  BY <1>1, <1>7 DEF RestOK, outcomes
<1> QED BY <1>5, <1>6, <1>8, InvPartsNext

LEMMA TickEndsInv == ASSUME CronInv, TickEnds PROVE CronInv'
<1> USE InvParts
<1>1. /\ UNCHANGED <<disk, mem, phase, skipped, deferred, runs, incidents, freed, outcomes>>
      /\ tick = "ending" /\ tick' = "idle" /\ ArmTimer(mem)
  BY DEF TickEnds, storeVars, bootVars, history
<1>2. StoresOK'
  BY <1>1 DEF StoresOK, SameJobs, Blank, MarkerMeansRun
<1>3. RunsOK' /\ RestOK'
  BY <1>1 DEF RunsOK, RestOK, ArmTimer, outcomes
<1> QED BY <1>2, <1>3, InvPartsNext

-----------------------------------------------------------------------------
(* start() *)

LEMMA CatchUpInv == ASSUME CronInv, CatchUp PROVE CronInv'
<1> USE InvParts
<1>1. PICK S \in Missed, now \in SUBSET Jobs :
        /\ now \subseteq S
        /\ runs' = runs \cup Queued("catchup", now)
        /\ deferred' = S \ now
        /\ IF S = {} THEN UNCHANGED storeVars /\ Note(mem) ELSE Persist(Marked(mem, now))
        /\ phase' = IF S = {} THEN "caughtup" ELSE "catchup"
  BY DEF CatchUp
<1>2. phase = "booted" /\ UNCHANGED <<skipped, tick, timer, incidents, outcomes>>
  BY DEF CatchUp
<1>3. S \subseteq Jobs /\ \A j \in S : mem[j].enabled
  BY DEF Missed
<1>4. \A j \in now : mem[j].stored
  BY <1>1, <1>3 DEF StoresOK, Blank
<1>5. /\ Queued("catchup", now) \subseteq Run /\ UnderWay(Queued("catchup", now)) = now
      /\ \A e \in Queued("catchup", now) : e.by = "catchup"
  BY QueuedRuns
<1>6. UnderWay(runs') = UnderWay(runs) \cup now
  <2>1. UnderWay(runs') = UnderWay(runs) \cup UnderWay(Queued("catchup", now))
    BY <1>1 DEF UnderWay
  <2> QED BY <2>1, <1>5
<1>7. RunsOK'
  <2>1. Queued("catchup", {}) = {}
    BY DEF Queued
  <2>2. \A e \in runs : e.by # "catchup"
    BY <1>2 DEF RunsOK
  <2>3. \A e \in runs' : e \in runs \/ (e.by = "catchup" /\ S # {})
    BY <1>1, <1>5, <2>1
  <2> QED BY <1>1, <1>2, <1>5, <2>2, <2>3 DEF RunsOK
<1>8. StoresOK' /\ freed' \subseteq Jobs
  <2>1. CASE S = {}
    <3>1. UNCHANGED <<disk, mem>> /\ Note(mem)
      BY <1>1, <2>1 DEF storeVars
    <3>2. StoresOK'
      BY <1>6, <3>1 DEF StoresOK, SameJobs, Blank, MarkerMeansRun
    <3> QED BY <1>7, <3>1, <3>2, NoteType
  <2>2. CASE S # {}
    <3>1. Write(Marked(mem, now)) /\ Note(Marked(mem, now))
      BY <1>1, <2>2 DEF Persist
    <3>2. /\ Marked(mem, now) \in Store /\ Blank(Marked(mem, now))
          /\ \A j \in Jobs : Marked(mem, now)[j].marker # "none" =>
                               j \in now \/ mem[j].marker # "none"
      BY <1>4, MarkedKeeps DEF StoresOK
    <3>3. StoresOK'
      BY <1>6, <3>1, <3>2, WriteKeeps DEF StoresOK, MarkerMeansRun
    <3> QED BY <1>7, <3>1, <3>3, NoteType
  <2> QED BY <2>1, <2>2
<1>9. RestOK'
  BY <1>1, <1>2, <1>3, <1>8 DEF RestOK, outcomes
<1> QED BY <1>7, <1>8, <1>9, InvPartsNext

\* The results of the catch-up, with the missed runs that it put off.
LEMMA LateKeeps ==
  ASSUME NEW ran \in Store, Blank(ran)
  PROVE  LET late == [j \in Jobs |-> IF j \in deferred /\ ran[j].enabled
                                     THEN [ran[j] EXCEPT !.next = "future"] ELSE ran[j]]
         IN  late \in Store /\ Blank(late) /\ \A j \in Jobs : late[j].marker = ran[j].marker
<1>1. \A j \in Jobs :
        LET q == [ran[j] EXCEPT !.next = "future"]
        IN  q \in Job /\ q.stored = ran[j].stored /\ q.enabled = ran[j].enabled
            /\ q.marker = ran[j].marker
  BY DEF Store, Job
<1> QED BY <1>1 DEF Store, Blank

LEMMA CatchUpAppliesInv == ASSUME CronInv, CatchUpApplies PROVE CronInv'
<1> USE InvParts
<1> DEFINE E == RunsOf("catchup")
           ran == WithResults(mem, E)
           late == [j \in Jobs |-> IF j \in deferred /\ ran[j].enabled
                                   THEN [ran[j] EXCEPT !.next = "future"] ELSE ran[j]]
<1>1. /\ runs' = runs \ E /\ Write(Maintained(late)) /\ Note(Maintained(late))
      /\ phase' = "caughtup" /\ deferred' = {}
      /\ UNCHANGED <<skipped, tick, timer, incidents, outcomes>>
  BY DEF CatchUpApplies, Persist
<1>2. /\ ran \in Store /\ Blank(ran)
      /\ \A j \in Jobs : ran[j].marker # "none" =>
                           mem[j].marker # "none" /\ ~(\E e \in E : e.job = j)
  BY ResultsClear DEF StoresOK
<1> HIDE DEF ran
<1>3. late \in Store /\ Blank(late) /\ \A j \in Jobs : late[j].marker = ran[j].marker
  BY <1>2, LateKeeps
<1> HIDE DEF late
<1>4. /\ Maintained(late) \in Store /\ Blank(Maintained(late))
      /\ \A j \in Jobs : Maintained(late)[j].marker # "none" => late[j].marker # "none"
  BY <1>3, MaintainedRepairs, RepairsKeep DEF Repairs
<1>5. StoresOK'
  BY <1>1, <1>2, <1>3, <1>4, AppliesInv DEF StoresOK, MarkerMeansRun
<1>6. RunsOK'
  BY <1>1 DEF RunsOK, RunsOf
<1>7. freed' \subseteq Jobs
  BY <1>1, <1>6, NoteType
<1>8. RestOK'
  BY <1>1, <1>7 DEF RestOK, outcomes
<1> QED BY <1>5, <1>6, <1>8, InvPartsNext

\* A restart leaves no run and no marker.
LEMMA RestartInv == ASSUME CronInv, Restart PROVE CronInv'
<1> USE InvParts
<1>1. \A j \in Jobs : LET q == [disk[j] EXCEPT !.marker = "none"]
                      IN  q \in Job /\ q.marker = "none" /\ q.enabled = disk[j].enabled
                          /\ q.stored = disk[j].stored
  BY DEF StoresOK, Store, Job
<1>2. Unmarked \in Store /\ Blank(Unmarked) /\ \A j \in Jobs : Unmarked[j].marker = "none"
  BY <1>1 DEF Unmarked, Store, Blank, StoresOK
<1>3. Write(Unmarked) /\ runs' = {} /\ freed' = {} /\ Incident
  BY DEF Restart
<1>4. StoresOK'
  BY <1>2, <1>3, WriteKeeps DEF StoresOK
<1>5. RunsOK'
  BY <1>3 DEF RunsOK
<1>6. RestOK'
  BY <1>3, IncidentType DEF Restart, RestOK, StaleMarkers, Unapplied
<1> QED BY <1>4, <1>5, <1>6, InvPartsNext

-----------------------------------------------------------------------------
(* The theorems *)

LEMMA NextInv == CronInv /\ [Next]_vars => CronInv'
<1> SUFFICES ASSUME CronInv, [Next]_vars PROVE CronInv'
  OBVIOUS
<1>1. ASSUME NEW j \in Jobs,
             Add(j) \/ Remove(j) \/ ManualRun(j) \/ TimeComes(j) \/ TwoHoursPass(j)
      PROVE  CronInv'
  BY <1>1, AddInv, RemoveInv, ManualRunInv, TimeInv
<1>2. ASSUME NEW j \in Jobs, NEW patch, Update(j, patch) PROVE CronInv'
  BY <1>2, UpdateInv
<1>3. ASSUME NEW e \in runs, Goes(e) PROVE CronInv'
  BY <1>3, ManualReservesInv, RunBeginsInv, RunEndsInv, ManualFinishesInv DEF Goes
<1>4. CASE TimerFires \/ TickApplies \/ TickEnds
  BY <1>4, TimerFiresInv, TickAppliesInv, TickEndsInv
<1>5. CASE CatchUp \/ CatchUpApplies \/ StartEnds
  BY <1>5, CatchUpInv, CatchUpAppliesInv, StartEndsInv
<1>6. CASE List \/ Restart
  BY <1>6, ListInv, RestartInv
<1>7. CASE UNCHANGED vars
  BY <1>7, UnchangedInv
<1> QED BY <1>1, <1>2, <1>3, <1>4, <1>5, <1>6, <1>7 DEF Next

\* The invariant holds in every reachable state.
THEOREM CronInvariance == SafetySpec => []CronInv
<1>1. Init => CronInv
  BY InitInv
<1>2. CronInv /\ [Next]_vars => CronInv'
  BY NextInv
<1> QED BY <1>1, <1>2, PTL DEF SafetySpec

\* Every variable has its type, and there are runs of a tick or of the catch-up only
\* while it executes them (onTimer, runMissedJobs).
THEOREM CronTypes == SafetySpec => []TypeOK
<1>1. CronInv => TypeOK
  BY DEF CronInv
<1> QED BY <1>1, CronInvariance, PTL

\* No marker is left behind: a job that is marked as running, in memory or in the file,
\* has a run that is queued, in progress or waiting to be applied (applyJobResult, start).
THEOREM MarkersMeanRuns == SafetySpec => []MarkerMeansRun
<1>1. CronInv => MarkerMeansRun
  BY DEF CronInv
<1> QED BY <1>1, CronInvariance, PTL

-----------------------------------------------------------------------------
(* One run at a time *)

\* No two runs of the job are queued, in progress or waiting to be applied.
Single(E, j) ==
  \A e, f \in E :
    (e.stage # "checked" /\ f.stage # "checked" /\ e.job = j /\ f.job = j) => e = f

OneRun ==
  \A j \in UnderWay(runs) \ freed :
    mem[j].marker # "none" /\ disk[j].marker # "none" /\ Single(runs, j)

\* What has a run before and after a step, and was not freed, is marked in the store the
\* step has looked at.
LEMMA NoteTells ==
  ASSUME OneRun, NEW store, Note(store), NEW j \in UnderWay(runs') \ freed',
         j \in UnderWay(runs)
  PROVE  /\ store[j].marker # "none"
         /\ mem[j].marker # "none" /\ disk[j].marker # "none" /\ Single(runs, j)
BY DEF OneRun, Note

LEMMA UnderWayJobs == ASSUME CronInv PROVE UnderWay(runs) \subseteq Jobs
BY DEF CronInv, TypeOK, UnderWay, Run

\* The edits: the runs are those of before.
LEMMA SameRuns ==
  ASSUME OneRun, NEW store, Note(store), runs' = runs,
         Write(store) \/ (UNCHANGED storeVars)
  PROVE  OneRun'
<1> SUFFICES ASSUME NEW j \in UnderWay(runs') \ freed'
             PROVE  mem'[j].marker # "none" /\ disk'[j].marker # "none" /\ Single(runs', j)
  BY DEF OneRun
<1>1. /\ store[j].marker # "none"
      /\ mem[j].marker # "none" /\ disk[j].marker # "none" /\ Single(runs, j)
  BY NoteTells
<1> QED BY <1>1 DEF Write, storeVars

\* The results: some of the runs are gone, and the others keep their marker.
LEMMA FewerRuns ==
  ASSUME CronInv, OneRun, NEW store, Note(store), NEW E \in SUBSET runs,
         runs' = E \/ runs' = Reloaded(E),
         Write(store) \/ (UNCHANGED storeVars)
  PROVE  OneRun'
<1>1. \A j : Single(runs, j) => Single(E, j)
  BY DEF Single
<1>2. \A e \in E : e \in Run
  BY DEF CronInv, TypeOK
<1>3. \A j : Single(E, j) => Single(Reloaded(E), j)
  <2> DEFINE h(e) == [e EXCEPT !.held = FALSE]
  <2>1. \A e \in E : h(e).job = e.job /\ h(e).stage = e.stage
    BY <1>2 DEF Run
  <2>2. Reloaded(E) = {h(e) : e \in E}
    BY DEF Reloaded
  <2> HIDE DEF h
  <2> QED BY <2>1, <2>2 DEF Single
<1>4. UnderWay(runs') \subseteq UnderWay(runs)
  <2>1. UnderWay(E) \subseteq UnderWay(runs)
    BY DEF UnderWay
  <2>2. UnderWay(Reloaded(E)) = UnderWay(E)
    BY ReloadKeepsRuns DEF CronInv, TypeOK
  <2> QED BY <2>1, <2>2
<1> SUFFICES ASSUME NEW j \in UnderWay(runs') \ freed'
             PROVE  mem'[j].marker # "none" /\ disk'[j].marker # "none" /\ Single(runs', j)
  BY DEF OneRun
<1>5. /\ store[j].marker # "none"
      /\ mem[j].marker # "none" /\ disk[j].marker # "none" /\ Single(runs, j)
  BY <1>4, NoteTells
<1>6. Single(runs', j)
  BY <1>1, <1>3, <1>5
<1> QED BY <1>5, <1>6 DEF Write, storeVars

\* What is queued was not marked in the store that was asked: it has no run, or is freed.
LEMMA MoreRuns ==
  ASSUME CronInv, OneRun, NEW by \in {"tick", "catchup"}, NEW S \in SUBSET Jobs,
         NEW asked, asked = mem \/ asked = disk,
         \A j \in S : asked[j].marker = "none",
         Write(Marked(asked, S)), Note(Marked(asked, S)),
         NEW E, E = runs \/ E = Reloaded(runs), runs' = E \cup Queued(by, S)
  PROVE  OneRun'
<1>1. /\ UnderWay(E) = UnderWay(runs)
      /\ \A j : Single(runs, j) => Single(E, j)
  <2> DEFINE h(e) == [e EXCEPT !.held = FALSE]
  <2>1. \A e \in runs : h(e).job = e.job /\ h(e).stage = e.stage
    BY DEF Run, CronInv, TypeOK
  <2>2. Reloaded(runs) = {h(e) : e \in runs}
    BY DEF Reloaded
  <2> HIDE DEF h
  <2>3. \A j : Single(runs, j) => Single(Reloaded(runs), j)
    BY <2>1, <2>2 DEF Single
  <2>4. UnderWay(Reloaded(runs)) = UnderWay(runs)
    BY ReloadKeepsRuns DEF CronInv, TypeOK
  <2> QED BY <2>3, <2>4
<1> DEFINE q(j) == [job |-> j, by |-> by, n |-> 0, held |-> by = "tick",
                    stage |-> "queued", result |-> "none"]
<1>2. Queued(by, S) = {q(j) : j \in S} /\ \A j \in S : q(j).job = j
  BY DEF Queued
<1> HIDE DEF q
<1>3. UnderWay(Queued(by, S)) = S
  BY QueuedRuns
<1>4. UnderWay(runs') = UnderWay(runs) \cup S
  <2>1. UnderWay(runs') = UnderWay(E) \cup UnderWay(Queued(by, S))
    BY DEF UnderWay
  <2> QED BY <2>1, <1>1, <1>3
<1> SUFFICES ASSUME NEW j \in UnderWay(runs') \ freed'
             PROVE  mem'[j].marker # "none" /\ disk'[j].marker # "none" /\ Single(runs', j)
  BY DEF OneRun
<1>5. j \in Jobs
  BY <1>4, UnderWayJobs
<1>6. CASE j \in S
  <2>1. j \notin freed
    BY DEF Note
  <2>2. j \notin UnderWay(E)
    BY <1>1, <1>6, <2>1 DEF OneRun
  <2>3. Single(runs', j)
    <3> SUFFICES ASSUME NEW e \in runs', NEW f \in runs', e.stage # "checked",
                        f.stage # "checked", e.job = j, f.job = j
                 PROVE  e = f
      BY DEF Single
    <3>1. e \notin E /\ f \notin E
      BY <2>2 DEF UnderWay
    <3>2. e \in Queued(by, S) /\ f \in Queued(by, S)
      BY <3>1
    <3> QED BY <1>2, <3>2
  <2>4. Marked(asked, S)[j].marker = "fresh"
    <3>1. asked[j] \in Job
      BY <1>5 DEF CronInv, TypeOK
    <3> QED BY <1>5, <1>6, <3>1 DEF Marked, Job
  <2> QED BY <2>3, <2>4 DEF Write
<1>7. CASE j \notin S
  <2>1. j \in UnderWay(runs)
    BY <1>4, <1>7
  <2>2. Marked(asked, S)[j].marker # "none" /\ Single(E, j)
    BY <1>1, <2>1, NoteTells
  <2>3. Single(runs', j)
    <3> SUFFICES ASSUME NEW e \in runs', NEW f \in runs', e.stage # "checked",
                        f.stage # "checked", e.job = j, f.job = j
                 PROVE  e = f
      BY DEF Single
    <3>1. e \in E /\ f \in E
      BY <1>2, <1>7
    <3> QED BY <2>2, <3>1 DEF Single
  <2> QED BY <2>2, <2>3 DEF Write
<1> QED BY <1>6, <1>7

LEMMA ManualReservesOne ==
  ASSUME CronInv, OneRun, NEW e \in runs, ManualReserves(e) PROVE OneRun'
<1> DEFINE j == e.job
           f == [e EXCEPT !.stage = "running"]
<1>1. e \in Run /\ e.stage = "checked" /\ j \in Jobs
  BY DEF CronInv, TypeOK, Run, ManualReserves
<1>2. f.job = j /\ f.stage = "running"
  BY <1>1 DEF Run
<1>3. CASE mem[j].stored /\ mem[j].marker = "none"
  <2>1. runs' = (runs \ {e}) \cup {f} /\ Write(Marked(mem, {j})) /\ Note(mem')
    BY <1>3 DEF ManualReserves, Reserve
  <2> HIDE DEF f, j
  <2>2. UnderWay(runs') = UnderWay(runs) \cup {j}
    <3>1. UnderWay(runs') \subseteq UnderWay(runs) \cup {j}
      BY <1>2, <2>1 DEF UnderWay
    <3>2. UnderWay(runs) \cup {j} \subseteq UnderWay(runs')
      BY <1>1, <1>2, <2>1, StageKeeps DEF CronInv, TypeOK, j
    <3> QED BY <3>1, <3>2
  <2>3. ASSUME NEW i \in UnderWay(runs') \ freed'
        PROVE  mem'[i].marker # "none" /\ disk'[i].marker # "none" /\ Single(runs', i)
    <3>1. CASE i = j
      <4>1. j \notin UnderWay(runs)
        <5>1. j \notin freed
          BY <2>1, <2>3, <3>1 DEF Note
        <5> QED BY <1>3, <5>1 DEF OneRun
      <4>2. Single(runs', i)
        BY <1>2, <2>1, <3>1, <4>1 DEF Single, UnderWay
      <4>3. Marked(mem, {j})[j].marker = "fresh"
        <5>1. mem[j] \in Job
          BY <1>1 DEF CronInv, TypeOK
        <5> QED BY <1>1, <5>1 DEF Marked, Job
      <4> QED BY <2>1, <3>1, <4>2, <4>3 DEF Write
    <3>2. CASE i # j
      <4>1. mem'[i].marker # "none" /\ Single(runs, i)
        BY <2>1, <2>2, <2>3, <3>2, NoteTells
      <4>2. Single(runs', i)
        BY <1>2, <2>1, <3>2, <4>1 DEF Single
      <4> QED BY <2>1, <4>1, <4>2 DEF Write
    <3> QED BY <3>1, <3>2
  <2> QED BY <2>3 DEF OneRun
<1>4. CASE ~(mem[j].stored /\ mem[j].marker = "none")
  <2>1. runs' = runs \ {e} /\ UNCHANGED <<disk, mem, freed>>
    BY <1>4 DEF ManualReserves, storeVars, history
  <2>2. UnderWay(runs') = UnderWay(runs)
    BY <1>1, <2>1 DEF UnderWay
  <2> QED BY <2>1, <2>2 DEF OneRun, Single
<1> QED BY <1>3, <1>4

\* A run that goes on is still the only one.
LEMMA StageOne ==
  ASSUME CronInv, OneRun, NEW e \in runs, e.stage # "checked", NEW f, f.job = e.job,
         f.stage # "checked", runs' = (runs \ {e}) \cup {f}, UNCHANGED <<disk, freed>>,
         \A j \in Jobs : mem[j].marker # "none" => mem'[j].marker # "none"
  PROVE  OneRun'
<1>1. UnderWay(runs') \subseteq UnderWay(runs)
  BY DEF UnderWay
<1>2. \A j : Single(runs, j) => Single(runs', j)
  BY DEF Single
<1> QED BY <1>1, <1>2, UnderWayJobs DEF OneRun

LEMMA RunBeginsOne == ASSUME CronInv, OneRun, NEW e \in runs, RunBegins(e) PROVE OneRun'
<1> DEFINE f == [e EXCEPT !.stage = "running", !.held = FALSE]
<1>1. e \in Run
  BY DEF CronInv, TypeOK
<1>2. f.job = e.job /\ f.stage = "running" /\ e.stage = "queued"
  BY <1>1 DEF Run, RunBegins
<1>3. /\ runs' = (runs \ {e}) \cup {f} /\ UNCHANGED <<disk, freed>>
      /\ mem' = Marked(mem, {e.job}) \/ mem' = mem
  BY DEF RunBegins, history
<1> HIDE DEF f
<1>4. \A j \in Jobs : mem[j].marker # "none" => mem'[j].marker # "none"
  <2>1. \A j \in Jobs : [mem[j] EXCEPT !.marker = "fresh"].marker = "fresh"
    BY DEF CronInv, TypeOK, Job
  <2> QED BY <1>3, <2>1 DEF Marked
<1> QED BY <1>2, <1>3, <1>4, StageOne

LEMMA RunEndsOne == ASSUME CronInv, OneRun, NEW e \in runs, RunEnds(e) PROVE OneRun'
<1>1. e \in Run /\ e.stage = "running"
  BY DEF CronInv, TypeOK, RunEnds
<1>2. PICK result : runs' = (runs \ {e}) \cup {[e EXCEPT !.stage = "done", !.result = result]}
  BY DEF RunEnds
<1> DEFINE f == [e EXCEPT !.stage = "done", !.result = result]
<1>3. f.job = e.job /\ f.stage = "done"
  BY <1>1 DEF Run
<1>4. runs' = (runs \ {e}) \cup {f} /\ UNCHANGED <<disk, mem, freed>>
  BY <1>2 DEF RunEnds, storeVars
<1> HIDE DEF f
<1> QED BY <1>1, <1>3, <1>4, StageOne

LEMMA ManualRunOne == ASSUME CronInv, OneRun, NEW j \in Jobs, ManualRun(j) PROVE OneRun'
<1> DEFINE e == [job |-> j, by |-> "manual", n |-> incidents, held |-> FALSE,
                 stage |-> "checked", result |-> "none"]
<1>1. (runs' = runs \/ runs' = runs \cup {e}) /\ e.stage = "checked"
      /\ Note(mem') /\ disk' = disk
  BY DEF ManualRun
<1> HIDE DEF e
<1>2. UnderWay(runs') = UnderWay(runs) /\ \A i : Single(runs, i) => Single(runs', i)
  BY <1>1 DEF UnderWay, Single
<1> SUFFICES ASSUME NEW i \in UnderWay(runs') \ freed'
             PROVE  mem'[i].marker # "none" /\ disk'[i].marker # "none" /\ Single(runs', i)
  BY DEF OneRun
<1> QED BY <1>1, <1>2, NoteTells

LEMMA ManualFinishesOne ==
  ASSUME CronInv, OneRun, NEW e \in runs, ManualFinishes(e) PROVE OneRun'
<1> DEFINE done == ApplyJobResult(e.job, mem[e.job], e.result)
           store == Maintained([disk EXCEPT ![e.job] = IF @.stored \/ ~done.stored THEN done ELSE @])
<1>1. CASE mem[e.job].stored
  <2>1. runs' = Reloaded(runs \ {e}) /\ Write(store) /\ Note(store)
    BY <1>1 DEF ManualFinishes, Persist
  <2> HIDE DEF store
  <2> QED BY <2>1, FewerRuns
<1>2. CASE ~mem[e.job].stored
  <2>1. runs' = runs \ {e} /\ UNCHANGED storeVars /\ Note(disk)
    BY <1>2 DEF ManualFinishes
  <2> QED BY <2>1, FewerRuns
<1> QED BY <1>1, <1>2

LEMMA TimerFiresOne == ASSUME CronInv, OneRun, TimerFires PROVE OneRun'
<1> DEFINE due == {j \in Jobs : Runnable(disk[j])}
<1>1. /\ runs' = Reloaded(runs) \cup Queued("tick", due)
      /\ Persist(IF due = {} THEN Maintained(disk) ELSE Marked(disk, due))
  BY DEF TimerFires
<1>2. due \in SUBSET Jobs /\ \A j \in due : disk[j].marker = "none"
  BY DEF Runnable
<1> HIDE DEF due
<1>3. CASE due = {}
  <2>1. Queued("tick", {}) = {}
    BY DEF Queued
  <2>2. runs' = Reloaded(runs) /\ Write(Maintained(disk)) /\ Note(Maintained(disk))
    BY <1>1, <1>3, <2>1 DEF Persist
  <2> QED BY <2>2, FewerRuns
<1>4. CASE due # {}
  <2>1. Write(Marked(disk, due)) /\ Note(Marked(disk, due))
    BY <1>1, <1>4 DEF Persist
  <2> QED BY <1>1, <1>2, <2>1, MoreRuns
<1> QED BY <1>3, <1>4

LEMMA CatchUpOne == ASSUME CronInv, OneRun, CatchUp PROVE OneRun'
<1>1. PICK S \in Missed, now \in SUBSET Jobs :
        /\ now \subseteq S
        /\ runs' = runs \cup Queued("catchup", now)
        /\ IF S = {} THEN UNCHANGED storeVars /\ Note(mem) ELSE Persist(Marked(mem, now))
  BY DEF CatchUp
<1>2. \A j \in now : mem[j].marker = "none"
  BY <1>1 DEF Missed
<1>3. CASE S = {}
  <2>1. Queued("catchup", {}) = {}
    BY DEF Queued
  <2>2. runs' = runs /\ UNCHANGED storeVars /\ Note(mem)
    BY <1>1, <1>3, <2>1
  <2> QED BY <2>2, SameRuns
<1>4. CASE S # {}
  <2>1. Write(Marked(mem, now)) /\ Note(Marked(mem, now))
    BY <1>1, <1>4 DEF Persist
  <2> QED BY <1>1, <1>2, <2>1, MoreRuns
<1> QED BY <1>3, <1>4

LEMMA PersistOne ==
  ASSUME OneRun, NEW store, Persist(store) \/ PersistChange(store), runs' = runs
  PROVE  OneRun'
<1>1. Note(store) /\ (Write(store) \/ UNCHANGED storeVars)
  BY DEF Persist, PersistChange
<1> QED BY <1>1, SameRuns

LEMMA EditsOne ==
  ASSUME CronInv, OneRun, NEW j \in Jobs, NEW patch,
         Add(j) \/ Remove(j) \/ Update(j, patch)
  PROVE  OneRun'
<1>1. CASE Add(j)
  <2>1. runs' = runs /\ \E store : Persist(store)
    BY <1>1 DEF Add
  <2> QED BY <2>1, PersistOne
<1>2. CASE Remove(j) \/ Update(j, patch)
  <2>1. runs' = runs /\ \E store : Persist(store)
    BY <1>2 DEF Remove, Update
  <2> QED BY <2>1, PersistOne
<1> QED BY <1>1, <1>2

LEMMA AppliesOne == ASSUME CronInv, OneRun, TickApplies \/ CatchUpApplies PROVE OneRun'
<1>1. \E by : \E store : /\ runs' = runs \ RunsOf(by) \/ runs' = Reloaded(runs \ RunsOf(by))
                         /\ Write(store) /\ Note(store)
  <2>1. CASE TickApplies
    BY <2>1 DEF TickApplies, Persist
  <2>2. CASE CatchUpApplies
    BY <2>2 DEF CatchUpApplies, Persist
  <2> QED BY <2>1, <2>2
<1> QED BY <1>1, FewerRuns

\* The clock moves a marker from fresh to old, and in no other way.
LEMMA TimeOne ==
  ASSUME CronInv, OneRun, NEW j \in Jobs, TimeComes(j) \/ TwoHoursPass(j) PROVE OneRun'
<1> DEFINE On(r) == [r EXCEPT !.next = IF @ = "future" THEN "due" ELSE @,
                              !.at = IF @ = "future" THEN "past" ELSE @]
           Old(r) == [r EXCEPT !.marker = IF @ = "fresh" THEN "old" ELSE @]
<1>1. \A r \in Job : On(r).marker = r.marker /\ (Old(r).marker # "none" <=> r.marker # "none")
  BY DEF Job
<1>2. /\ UNCHANGED <<runs, freed>>
      /\ \/ disk' = [disk EXCEPT ![j] = On(@)] /\ mem' = [mem EXCEPT ![j] = On(@)]
         \/ disk' = [disk EXCEPT ![j] = Old(@)] /\ mem' = [mem EXCEPT ![j] = Old(@)]
  BY DEF TimeComes, TwoHoursPass, history
<1> HIDE DEF On, Old
<1>3. \A i \in Jobs : /\ mem'[i].marker # "none" <=> mem[i].marker # "none"
                      /\ disk'[i].marker # "none" <=> disk[i].marker # "none"
  BY <1>1, <1>2 DEF CronInv, TypeOK
<1> QED BY <1>2, <1>3, UnderWayJobs DEF OneRun

LEMMA OneRunNext == ASSUME CronInv, OneRun, [Next]_vars PROVE OneRun'
<1>1. ASSUME NEW j \in Jobs, Add(j) \/ Remove(j) PROVE OneRun'
  BY <1>1, EditsOne
<1>2. ASSUME NEW j \in Jobs, NEW patch, Update(j, patch) PROVE OneRun'
  BY <1>2, EditsOne
<1>3. ASSUME NEW j \in Jobs, ManualRun(j) \/ TimeComes(j) \/ TwoHoursPass(j) PROVE OneRun'
  BY <1>3, ManualRunOne, TimeOne
<1>4. ASSUME NEW e \in runs, Goes(e) PROVE OneRun'
  BY <1>4, ManualReservesOne, RunBeginsOne, RunEndsOne, ManualFinishesOne DEF Goes
<1>5. CASE List \/ StartEnds
  <2>1. \E store : PersistChange(store) /\ runs' = runs
    BY <1>5 DEF List, StartEnds
  <2> QED BY <2>1, PersistOne
<1>6. CASE TimerFires \/ TickApplies \/ CatchUp \/ CatchUpApplies
  BY <1>6, TimerFiresOne, CatchUpOne, AppliesOne
<1>7. CASE TickEnds \/ UNCHANGED vars
  BY <1>7 DEF TickEnds, storeVars, history, vars, OneRun, Single
<1>8. CASE Restart
  BY <1>8 DEF Restart, OneRun, UnderWay
<1> QED BY <1>1, <1>2, <1>3, <1>4, <1>5, <1>6, <1>7, <1>8 DEF Next

\* The markers in the two copies tell of every run that is under way and was not freed.
THEOREM OneRunInvariance == SafetySpec => []OneRun
<1>1. Init => OneRun
  BY DEF Init, OneRun, UnderWay
<1>2. CronInv /\ OneRun /\ [Next]_vars => OneRun'
  BY OneRunNext
<1> QED BY <1>1, <1>2, CronInvariance, PTL DEF SafetySpec

\* A job is not executed twice at the same time by ticks, manual runs and the catch-up,
\* unless its marker was cleared under the run (collectRunnableJobs, prepareManualRun).
THEOREM JobsRunOnce == SafetySpec => []NeverTwice
<1>1. OneRun => NeverTwice
  <2> SUFFICES ASSUME OneRun, NEW j \in Jobs \ freed
               PROVE  Cardinality({e \in runs : e.job = j /\ e.stage = "running"}) <= 1
    BY DEF NeverTwice
  <2> DEFINE R == {e \in runs : e.job = j /\ e.stage = "running"}
  <2>1. CASE R = {}
    <3>1. Cardinality(R) = 0
      BY <2>1, FS_EmptySet
    <3> QED BY <3>1
  <2>2. CASE R # {}
    <3>1. PICK e \in R : TRUE
      BY <2>2
    <3>2. Single(runs, j)
      BY <3>1 DEF OneRun, UnderWay
    <3>3. R = {e}
      BY <3>1, <3>2 DEF Single
    <3>4. Cardinality(R) = 1
      BY <3>3, FS_Singleton
    <3> QED BY <3>4
  <2> QED BY <2>1, <2>2
<1> QED BY <1>1, OneRunInvariance, PTL
-----------------------------------------------------------------------------
(* The timer *)

\* An enabled job has a next run, or is a one-shot that has run.
Planned(store) ==
  \A j \in Jobs : (store[j].enabled /\ store[j].next = "none") =>
                    Kind[j] = "at" /\ store[j].at = "spent"

\* A store from which a job can be taken up: armTimer finds it.
HasNext(store) == \E j \in Jobs : store[j].enabled /\ store[j].next # "none"

Scheduled == Planned(mem) /\ Planned(disk)

LEMMA NextComputed ==
  ASSUME NEW j \in Jobs, NEW r \in Job, r.enabled
  PROVE  ComputeNext(j, r) = "none" <=> (Kind[j] = "at" /\ r.at = "spent")
BY KindType DEF ComputeNext, Job

\* A repair leaves a planned store planned, and finds no first next run in it.
LEMMA NormalizedPlans ==
  ASSUME NEW j \in Jobs, NEW r \in Job, NEW S
  PROVE  LET q == Normalized(j, r, S)
         IN  /\ q.enabled = r.enabled /\ q.at = r.at
             /\ (r.stored \/ ~r.enabled) /\ r.enabled /\ "none" \in S =>
                  (q.next = "none" => Kind[j] = "at" /\ r.at = "spent")
             /\ q.enabled /\ q.next # "none" =>
                  r.next # "none" \/ ~(Kind[j] = "at" /\ r.at = "spent")
<1> DEFINE m == IF r.marker = "old" THEN "none" ELSE r.marker
           n == IF r.next \in S THEN ComputeNext(j, r) ELSE r.next
<1>1. CASE ~r.stored \/ ~r.enabled
  <2>1. Normalized(j, r, S) = [r EXCEPT !.next = "none", !.marker = "none"]
    BY <1>1 DEF Normalized
  <2> QED BY <1>1, <2>1 DEF Job
<1>2. CASE r.stored /\ r.enabled
  <2>1. Normalized(j, r, S) = [r EXCEPT !.marker = m, !.next = n]
    BY <1>2 DEF Normalized
  <2> HIDE DEF m
  <2>2. Normalized(j, r, S).enabled = r.enabled /\ Normalized(j, r, S).at = r.at
        /\ Normalized(j, r, S).next = n
    BY <2>1 DEF Job
  <2> QED BY <1>2, <2>2, NextComputed
<1> QED BY <1>1, <1>2

LEMMA RepairsPlan ==
  ASSUME NEW store \in Store, Blank(store)
  PROVE  /\ Planned(Maintained(store)) /\ Planned(Recomputed(store))
         /\ Planned(store) /\ HasNext(Maintained(store)) => HasNext(store)
<1>1. \A j \in Jobs : store[j] \in Job /\ (store[j].stored \/ ~store[j].enabled)
  BY DEF Store, Blank
<1>2. \A j \in Jobs :
        /\ Maintained(store)[j] = Normalized(j, store[j], {"none"})
        /\ Recomputed(store)[j] = Normalized(j, store[j], {"none", "due"})
  BY DEF Maintained, Recomputed
<1>3. Planned(Maintained(store))
  BY <1>1, <1>2, NormalizedPlans DEF Planned
<1>4. Planned(Recomputed(store))
  BY <1>1, <1>2, NormalizedPlans DEF Planned
<1>5. ASSUME Planned(store), HasNext(Maintained(store)) PROVE HasNext(store)
  <2>1. PICK j \in Jobs : Maintained(store)[j].enabled /\ Maintained(store)[j].next # "none"
    BY <1>5 DEF HasNext
  <2>2. store[j].enabled /\ (store[j].next # "none" \/ ~(Kind[j] = "at" /\ store[j].at = "spent"))
    BY <1>1, <1>2, <2>1, NormalizedPlans
  <2> QED BY <1>5, <2>2 DEF Planned, HasNext
<1> QED BY <1>3, <1>4, <1>5

LEMMA MarkedPlans ==
  ASSUME NEW store \in Store, NEW S
  PROVE  /\ Planned(store) => Planned(Marked(store, S))
         /\ HasNext(Marked(store, S)) => HasNext(store)
<1>1. \A j \in Jobs : LET q == [store[j] EXCEPT !.marker = "fresh"]
                      IN  q.enabled = store[j].enabled /\ q.next = store[j].next
                          /\ q.at = store[j].at
  BY DEF Store, Job
<1>2. \A j \in Jobs : /\ Marked(store, S)[j].enabled = store[j].enabled
                      /\ Marked(store, S)[j].next = store[j].next
                      /\ Marked(store, S)[j].at = store[j].at
  BY <1>1 DEF Marked
<1> QED BY <1>2 DEF Planned, HasNext

\* A job that has another run after an edit, or none because it has run.
LEMMA PatchedPlans ==
  ASSUME NEW j \in Jobs, NEW r \in Job, NEW patch \in {"enable", "disable", "reschedule", "other"}
  PROVE  LET q == Patched(j, r, patch)
         IN  q.enabled /\ q.next = "none" => Kind[j] = "at" /\ q.at = "spent"
<1> DEFINE p == CASE patch = "enable" -> [r EXCEPT !.enabled = TRUE]
                  [] patch = "disable" -> [r EXCEPT !.enabled = FALSE]
                  [] patch = "reschedule" ->
                       [r EXCEPT !.at = IF Kind[j] = "at" THEN "future" ELSE @]
                  [] OTHER -> r
           q == Patched(j, r, patch)
<1>1. p \in Job
  BY DEF Job
<1>2. q = CASE ~p.enabled /\ patch # "other" -> [p EXCEPT !.next = "none", !.marker = "none"]
            [] p.enabled /\ (patch # "other" \/ p.next = "none") ->
                 [p EXCEPT !.next = ComputeNext(j, p)]
            [] OTHER -> p
  BY DEF Patched
<1> HIDE DEF p, q
<1>3. \/ ~p.enabled /\ q = [p EXCEPT !.next = "none", !.marker = "none"]
      \/ p.enabled /\ q = [p EXCEPT !.next = ComputeNext(j, p)]
      \/ ~(p.enabled /\ p.next = "none") /\ q = p
  BY <1>2
<1>4. CASE ~p.enabled /\ q = [p EXCEPT !.next = "none", !.marker = "none"]
  BY <1>1, <1>4 DEF Job, q
<1>5. CASE p.enabled /\ q = [p EXCEPT !.next = ComputeNext(j, p)]
  <2>1. q.next = ComputeNext(j, p) /\ q.at = p.at
    BY <1>1, <1>5 DEF Job
  <2>2. ComputeNext(j, p) = "none" => Kind[j] = "at" /\ p.at = "spent"
    <3>1. p.enabled
      BY <1>5
    <3> QED BY <1>1, <3>1, NextComputed
  <2>3. q.next = "none" => Kind[j] = "at" /\ q.at = "spent"
    BY <2>1, <2>2
  <2> QED BY <2>3 DEF q
<1>6. CASE ~(p.enabled /\ p.next = "none") /\ q = p
  BY <1>6 DEF q
<1> QED BY <1>3, <1>4, <1>5, <1>6

\* A step that saves a planned store and arms the timer for it.
LEMMA ArmedStep ==
  ASSUME NEW store, Write(store), Planned(store), ArmTimer(store)
  PROVE  Scheduled' /\ TimerArmed'
BY DEF Write, Planned, ArmTimer, Scheduled, TimerArmed

\* A step that leaves the timer alone, and gives no job its first next run.
LEMMA KeptStep ==
  ASSUME TimerArmed, UNCHANGED <<phase, tick, timer>>, HasNext(mem') => HasNext(mem)
  PROVE  TimerArmed'
BY DEF TimerArmed, HasNext

\* A step after which the service is starting, or in a tick, which ends by arming the timer.
LEMMA AwayStep == ASSUME phase' # "up" \/ tick' # "idle" PROVE TimerArmed'
BY DEF TimerArmed

LEMMA AddTimer == ASSUME CronInv, NEW j \in Jobs, Add(j) PROVE Scheduled' /\ TimerArmed'
<1>1. PICK enabled \in BOOLEAN, deletes \in BOOLEAN, at \in {"future", "past"} :
        LET once == Kind[j] = "at"
            new == [NoJob EXCEPT !.stored = TRUE, !.enabled = enabled,
                      !.deletes = deletes /\ once, !.at = IF once THEN at ELSE "past"]
            store == Recomputed([mem EXCEPT ![j] = new])
        IN  Persist(store) /\ ArmTimer(store)
  BY DEF Add
<1> DEFINE once == Kind[j] = "at"
           new == [NoJob EXCEPT !.stored = TRUE, !.enabled = enabled,
                     !.deletes = deletes /\ once, !.at = IF once THEN at ELSE "past"]
           with == [mem EXCEPT ![j] = new]
<1>2. new \in Job /\ new.stored
  BY NoJobType DEF Job
<1>3. Write(Recomputed(with)) /\ ArmTimer(Recomputed(with))
  BY <1>1 DEF Persist
<1> HIDE DEF new
<1>4. with \in Store /\ Blank(with)
  BY <1>2, WithKeeps, InvParts DEF StoresOK
<1> HIDE DEF with
<1> QED BY <1>3, <1>4, RepairsPlan, ArmedStep

LEMMA UpdateTimer ==
  ASSUME CronInv, Scheduled, NEW j \in Jobs,
         NEW patch \in {"enable", "disable", "reschedule", "other"}, Update(j, patch)
  PROVE  Scheduled' /\ TimerArmed'
<1> DEFINE with == [mem EXCEPT ![j] = Patched(j, @, patch)]
<1>1. Write(with) /\ ArmTimer(with)
  BY DEF Update, Persist
<1>2. mem \in Store /\ mem[j] \in Job
  BY InvParts DEF StoresOK, Store
<1>3. Planned(with)
  <2>1. Patched(j, mem[j], patch).enabled /\ Patched(j, mem[j], patch).next = "none" =>
          Kind[j] = "at" /\ Patched(j, mem[j], patch).at = "spent"
    BY <1>2, PatchedPlans
  <2> QED BY <1>2, <2>1 DEF Planned, Scheduled, Store
<1> HIDE DEF with
<1> QED BY <1>1, <1>3, ArmedStep

LEMMA RemoveTimer ==
  ASSUME CronInv, Scheduled, NEW j \in Jobs, Remove(j) PROVE Scheduled' /\ TimerArmed'
<1> DEFINE with == [mem EXCEPT ![j] = NoJob]
<1>1. Write(with) /\ ArmTimer(with)
  BY DEF Remove, Persist
<1>2. Planned(with)
  BY NoJobType, InvParts DEF Planned, Scheduled, StoresOK, Store
<1> HIDE DEF with
<1> QED BY <1>1, <1>2, ArmedStep

\* Whether a repair is saved or changes nothing, the copy in memory is the repaired one.
LEMMA RepairTimer ==
  ASSUME Scheduled, NEW store, PersistChange(store), Planned(store)
  PROVE  Scheduled' /\ mem' = store
<1>1. CASE store # mem
  BY <1>1 DEF PersistChange, Persist, Write, Scheduled, Planned
<1>2. CASE store = mem
  BY <1>2 DEF PersistChange, storeVars, Scheduled, Planned
<1> QED BY <1>1, <1>2

LEMMA ListTimer ==
  ASSUME CronInv, Scheduled, TimerArmed, List \/ StartEnds PROVE Scheduled' /\ TimerArmed'
<1>1. mem \in Store /\ Blank(mem) /\ Planned(mem)
  BY InvParts DEF StoresOK, Scheduled
<1>2. CASE List
  <2>1. PersistChange(Maintained(mem)) /\ UNCHANGED <<phase, tick, timer>>
    BY <1>2 DEF List, bootVars
  <2>2. Scheduled' /\ mem' = Maintained(mem)
    BY <1>1, <2>1, RepairsPlan, RepairTimer
  <2>3. HasNext(mem') => HasNext(mem)
    BY <1>1, <2>2, RepairsPlan
  <2> QED BY <2>1, <2>2, <2>3, KeptStep
<1>3. CASE StartEnds
  <2>1. PersistChange(Recomputed(mem)) /\ ArmTimer(Recomputed(mem))
    BY <1>3 DEF StartEnds
  <2>2. Scheduled' /\ mem' = Recomputed(mem)
    BY <1>1, <2>1, RepairsPlan, RepairTimer
  <2> QED BY <2>1, <2>2 DEF ArmTimer, TimerArmed
<1> QED BY <1>2, <1>3

LEMMA ManualTimer ==
  ASSUME CronInv, Scheduled, TimerArmed, NEW j \in Jobs, ManualRun(j)
  PROVE  Scheduled' /\ TimerArmed'
<1>1. mem' = Maintained(mem) /\ UNCHANGED <<disk, phase, tick, timer>>
  BY DEF ManualRun, bootVars
<1>2. Planned(mem') /\ (HasNext(mem') => HasNext(mem))
  BY <1>1, RepairsPlan, InvParts DEF StoresOK, Scheduled
<1>3. Scheduled'
  BY <1>1, <1>2 DEF Scheduled, Planned
<1> QED BY <1>1, <1>2, <1>3, KeptStep

LEMMA GoesTimer ==
  ASSUME CronInv, Scheduled, TimerArmed, NEW e \in runs, Goes(e)
  PROVE  Scheduled' /\ TimerArmed'
<1> USE InvParts
<1>1. CASE ManualReserves(e) \/ RunBegins(e) \/ RunEnds(e)
  <2>1. UNCHANGED <<phase, tick, timer>> /\ disk' \in {disk, mem'}
        /\ mem' \in {mem, Marked(mem, {e.job})}
    BY <1>1 DEF ManualReserves, RunBegins, RunEnds, Reserve, Write, storeVars, bootVars
  <2>2. Planned(mem') /\ (HasNext(mem') => HasNext(mem))
    BY <2>1, MarkedPlans DEF StoresOK, Scheduled
  <2>3. Scheduled'
    BY <2>1, <2>2 DEF Scheduled, Planned
  <2> QED BY <2>1, <2>2, <2>3, KeptStep
<1>2. CASE ManualFinishes(e) /\ mem[e.job].stored
  <2> DEFINE done == ApplyJobResult(e.job, mem[e.job], e.result)
             with == [disk EXCEPT ![e.job] = IF @.stored \/ ~done.stored THEN done ELSE @]
  <2>1. Write(Maintained(with)) /\ ArmTimer(Maintained(with))
    BY <1>2 DEF ManualFinishes, Persist
  <2>2. with \in Store /\ Blank(with)
    BY <1>2, FinishedKeeps
  <2> HIDE DEF with
  <2> QED BY <2>1, <2>2, RepairsPlan, ArmedStep
<1>3. CASE ManualFinishes(e) /\ ~mem[e.job].stored
  <2>1. UNCHANGED <<disk, mem, timer, phase, tick>>
    BY <1>3 DEF ManualFinishes, storeVars, bootVars
  <2> QED BY <2>1 DEF Scheduled, Planned, TimerArmed
<1> QED BY <1>1, <1>2, <1>3 DEF Goes

LEMMA TickTimer ==
  ASSUME CronInv, Scheduled, TimerFires \/ TickApplies \/ TickEnds
  PROVE  Scheduled' /\ TimerArmed'
<1>1. disk \in Store /\ Blank(disk) /\ Planned(disk)
  BY InvParts DEF StoresOK, Scheduled
<1>2. CASE TimerFires
  <2> DEFINE due == {j \in Jobs : Runnable(disk[j])}
  <2>1. \/ Write(Maintained(disk))
        \/ Write(Marked(disk, due))
    BY <1>2 DEF TimerFires, Persist
  <2> HIDE DEF due
  <2>2. Scheduled'
    BY <1>1, <2>1, RepairsPlan, MarkedPlans DEF Write, Scheduled, Planned
  <2>3. tick' # "idle"
    BY <1>2 DEF TimerFires
  <2> QED BY <2>2, <2>3, AwayStep
<1>3. CASE TickApplies
  <2> DEFINE with == WithResults(disk, RunsOf("tick"))
  <2>1. Write(Maintained(with)) /\ tick' # "idle"
    BY <1>3 DEF TickApplies, Persist
  <2>2. with \in Store /\ Blank(with)
    BY <1>1, ResultsClear
  <2> HIDE DEF with
  <2>3. Scheduled'
    BY <2>1, <2>2, RepairsPlan DEF Write, Scheduled, Planned
  <2> QED BY <2>1, <2>3, AwayStep
<1>4. CASE TickEnds
  BY <1>4 DEF TickEnds, storeVars, ArmTimer, Scheduled, Planned, TimerArmed
<1> QED BY <1>2, <1>3, <1>4

LEMMA StartTimer ==
  ASSUME CronInv, Scheduled, CatchUp \/ CatchUpApplies \/ Restart
  PROVE  Scheduled' /\ TimerArmed'
<1>1. /\ disk \in Store /\ Blank(disk) /\ Planned(disk)
      /\ mem \in Store /\ Blank(mem) /\ Planned(mem)
  BY InvParts DEF StoresOK, Scheduled
<1>2. CASE CatchUp
  <2>1. PICK now : UNCHANGED storeVars \/ Write(Marked(mem, now))
    BY <1>2 DEF CatchUp, Persist
  <2>2. Scheduled'
    BY <1>1, <2>1, MarkedPlans DEF Write, storeVars, Scheduled, Planned
  <2>3. phase' # "up"
    BY <1>2 DEF CatchUp
  <2> QED BY <2>2, <2>3, AwayStep
<1>3. CASE CatchUpApplies
  <2> DEFINE ran == WithResults(mem, RunsOf("catchup"))
             late == [j \in Jobs |-> IF j \in deferred /\ ran[j].enabled
                                     THEN [ran[j] EXCEPT !.next = "future"] ELSE ran[j]]
  <2>1. Write(Maintained(late)) /\ phase' # "up"
    BY <1>3 DEF CatchUpApplies, Persist
  <2>2. ran \in Store /\ Blank(ran)
    BY <1>1, ResultsClear
  <2> HIDE DEF ran
  <2>3. late \in Store /\ Blank(late)
    BY <2>2, LateKeeps
  <2> HIDE DEF late
  <2>4. Scheduled'
    BY <2>1, <2>3, RepairsPlan DEF Write, Scheduled, Planned
  <2> QED BY <2>1, <2>4, AwayStep
<1>4. CASE Restart
  <2>1. \A j \in Jobs : LET q == [disk[j] EXCEPT !.marker = "none"]
                        IN  q.enabled = disk[j].enabled /\ q.next = disk[j].next
                            /\ q.at = disk[j].at
    BY <1>1 DEF Store, Job
  <2>2. Planned(Unmarked)
    <3>1. \A j \in Jobs : /\ Unmarked[j].enabled = disk[j].enabled
                          /\ Unmarked[j].next = disk[j].next /\ Unmarked[j].at = disk[j].at
      BY <2>1 DEF Unmarked
    <3>2. Planned(disk)
      BY <1>1
    <3> HIDE DEF Unmarked
    <3> QED BY <3>1, <3>2 DEF Planned
  <2>3. Scheduled' /\ phase' # "up"
    BY <1>4, <2>2 DEF Restart, Write, Scheduled, Planned
  <2> QED BY <2>3, AwayStep
<1> QED BY <1>2, <1>3, <1>4

\* The clock gives no job its first next run, and takes none away.
LEMMA TimeTimer ==
  ASSUME CronInv, Scheduled, TimerArmed, NEW j \in Jobs, TimeComes(j) \/ TwoHoursPass(j)
  PROVE  Scheduled' /\ TimerArmed'
<1> DEFINE On(r) == [r EXCEPT !.next = IF @ = "future" THEN "due" ELSE @,
                              !.at = IF @ = "future" THEN "past" ELSE @]
           Old(r) == [r EXCEPT !.marker = IF @ = "fresh" THEN "old" ELSE @]
<1>1. \A r \in Job : /\ On(r).enabled = r.enabled /\ (On(r).next = "none" <=> r.next = "none")
                     /\ r.at = "spent" => On(r).at = "spent"
                     /\ Old(r).enabled = r.enabled /\ Old(r).next = r.next /\ Old(r).at = r.at
  BY DEF Job
<1>2. /\ UNCHANGED <<phase, tick, timer>>
      /\ \/ disk' = [disk EXCEPT ![j] = On(@)] /\ mem' = [mem EXCEPT ![j] = On(@)]
         \/ disk' = [disk EXCEPT ![j] = Old(@)] /\ mem' = [mem EXCEPT ![j] = Old(@)]
  BY DEF TimeComes, TwoHoursPass, bootVars
<1> HIDE DEF On, Old
<1>3. \A i \in Jobs :
        /\ mem'[i].enabled = mem[i].enabled /\ (mem'[i].next = "none" <=> mem[i].next = "none")
        /\ mem[i].at = "spent" => mem'[i].at = "spent"
        /\ disk'[i].enabled = disk[i].enabled /\ (disk'[i].next = "none" <=> disk[i].next = "none")
        /\ disk[i].at = "spent" => disk'[i].at = "spent"
  BY <1>1, <1>2 DEF CronInv, TypeOK
<1>4. Scheduled'
  BY <1>3 DEF Scheduled, Planned
<1>5. HasNext(mem') => HasNext(mem)
  BY <1>3 DEF HasNext
<1> QED BY <1>2, <1>4, <1>5, KeptStep

LEMMA TimerNext ==
  ASSUME CronInv, Scheduled, TimerArmed, [Next]_vars PROVE Scheduled' /\ TimerArmed'
<1>1. ASSUME NEW j \in Jobs,
             Add(j) \/ Remove(j) \/ ManualRun(j) \/ TimeComes(j) \/ TwoHoursPass(j)
      PROVE  Scheduled' /\ TimerArmed'
  BY <1>1, AddTimer, RemoveTimer, ManualTimer, TimeTimer
<1>2. ASSUME NEW j \in Jobs, NEW patch \in {"enable", "disable", "reschedule", "other"},
             Update(j, patch)
      PROVE  Scheduled' /\ TimerArmed'
  BY <1>2, UpdateTimer
<1>3. ASSUME NEW e \in runs, Goes(e) PROVE Scheduled' /\ TimerArmed'
  BY <1>3, GoesTimer
<1>4. CASE TimerFires \/ TickApplies \/ TickEnds
  BY <1>4, TickTimer
<1>5. CASE CatchUp \/ CatchUpApplies \/ Restart
  BY <1>5, StartTimer
<1>6. CASE List \/ StartEnds
  BY <1>6, ListTimer
<1>7. CASE UNCHANGED vars
  BY <1>7 DEF vars, Scheduled, Planned, TimerArmed
<1> QED BY <1>1, <1>2, <1>3, <1>4, <1>5, <1>6, <1>7 DEF Next

\* The plans hold, and the timer is set, in every reachable state.
THEOREM ScheduledInvariance == SafetySpec => [](Scheduled /\ TimerArmed)
<1>1. Init => Scheduled /\ TimerArmed
  BY NoJobType DEF Init, Empty, Scheduled, Planned, TimerArmed
<1>2. CronInv /\ (Scheduled /\ TimerArmed) /\ [Next]_vars => (Scheduled /\ TimerArmed)'
  BY TimerNext
<1> QED BY <1>1, <1>2, CronInvariance, PTL DEF SafetySpec

\* The scheduler does not die: once start() is done and no tick is under way, a timer is
\* set as long as a job has a next run (armTimer).
THEOREM TimerStaysArmed == SafetySpec => []TimerArmed
BY ScheduledInvariance, PTL
=============================================================================
