------------------------- MODULE CronSteps_proofs --------------------------
(***************************************************************************)
(* What a step of the cron service never does, for any jobs, limits and    *)
(* number of incidents.                                                    *)
(*                                                                         *)
(* SlotsKept.  An edit, a list or a manual run saves the copy in memory    *)
(* over the file.  A slot that is due in the file is safe from this only   *)
(* because it is due in memory as well: the repairs that a manual run      *)
(* leaves in memory do not touch the next runs of enabled jobs (Agree).    *)
(*                                                                         *)
(* OneShotOnce.  A one-shot that has succeeded is disabled only when its   *)
(* result is applied; until then it is marked, or its marker was cleared   *)
(* under the run (Spent).  A restart that comes first loses the success,   *)
(* and what it loses is not among Known.  A reload makes new objects of    *)
(* the runs that are still queued, so these need the same excuse as the    *)
(* runs that are not (LateQueued).                                         *)
(***************************************************************************)
EXTENDS CronService_proofs

\* The two copies have the same jobs enabled, with the same next runs.
Agree ==
  \A j \in Jobs : /\ mem[j].enabled = disk[j].enabled
                  /\ mem[j].enabled => mem[j].next = disk[j].next

\* Only the runs of a tick hold the object of the store.
Held == \A e \in runs : e.held => e.by = "tick"

SlotInv == CronInv /\ Scheduled /\ Agree /\ Held

\* The job was due, and is now waiting for its next slot.
Lost(j) == Runnable(disk[j]) /\ disk'[j].next = "future"

\* What may cost a job its slot.
Cause(j) ==
  \/ j \in UnderWay(runs \ runs') \cup deferred
  \/ \E patch \in {"enable", "reschedule"} : Update(j, patch)
  \/ StartEnds
  \/ \E i \in Jobs : Add(i)

SlotStep == \A j \in Jobs \ OneShots : Lost(j) => Cause(j)

-----------------------------------------------------------------------------
(* What is due in a store and in what is made of it *)

\* Whatever is due in a is due in b.
DueStays(a, b) == \A j \in Jobs : (a[j].enabled /\ a[j].next = "due") => b[j].next = "due"

LEMMA DueSides ==
  ASSUME SlotInv, NEW j \in Jobs, Runnable(disk[j])
  PROVE  /\ mem[j].enabled /\ mem[j].next = "due" /\ mem[j].stored
         /\ disk[j].enabled /\ disk[j].next = "due" /\ disk[j].stored
BY DEF SlotInv, Agree, Runnable, CronInv, Blank

LEMMA MaintainedDue ==
  ASSUME NEW store \in Store, Blank(store) PROVE DueStays(store, Maintained(store))
<1> SUFFICES ASSUME NEW j \in Jobs, store[j].enabled, store[j].next = "due"
             PROVE  Maintained(store)[j].next = "due"
  BY DEF DueStays
<1>1. store[j] \in Job /\ store[j].stored
  BY DEF Store, Blank
<1>2. Maintained(store)[j] = Normalized(j, store[j], {"none"})
  BY DEF Maintained
<1> QED BY <1>1, <1>2 DEF Normalized, Job

LEMMA MarkedDue ==
  ASSUME NEW store \in Store, NEW S PROVE DueStays(store, Marked(store, S))
<1>1. \A j \in Jobs : [store[j] EXCEPT !.marker = "fresh"].next = store[j].next
  BY DEF Store, Job
<1> QED BY <1>1 DEF DueStays, Marked

\* What is due in the copy that a step saves stays due, but for the jobs of S: only those
\* lose a slot.
LEMMA SavedSlots ==
  ASSUME SlotInv, NEW S, NEW store \in {mem, disk},
         \A j \in Jobs \ S : (store[j].enabled /\ store[j].next = "due") => disk'[j].next = "due"
  PROVE  \A j \in Jobs \ S : ~Lost(j)
BY DueSides DEF Lost

\* Two copies that are written alike agree.
LEMMA WriteAgrees == ASSUME NEW store, Write(store) PROVE Agree'
BY DEF Write, Agree

LEMMA HeldKeeps ==
  ASSUME CronInv, Held,
         \/ runs' \subseteq runs
         \/ \E E \in SUBSET runs : runs' = Reloaded(E)
  PROVE  Held'
<1>1. CASE runs' \subseteq runs
  BY <1>1 DEF Held
<1>2. ASSUME NEW E \in SUBSET runs, runs' = Reloaded(E) PROVE Held'
  <2>1. \A e \in E : [e EXCEPT !.held = FALSE].held = FALSE
    BY DEF CronInv, TypeOK, Run
  <2> QED BY <1>2, <2>1 DEF Held, Reloaded
<1> QED BY <1>1, <1>2

LEMMA QueuedHeld ==
  ASSUME NEW by \in {"tick", "catchup"}, NEW S PROVE \A e \in Queued(by, S) : e.held => e.by = "tick"
<1>1. CASE by = "tick"
  BY <1>1 DEF Queued
<1>2. CASE by # "tick"
  <2>1. Queued(by, S) = {[job |-> j, by |-> by, n |-> 0, held |-> FALSE, stage |-> "queued",
                          result |-> "none"] : j \in S}
    BY <1>2, Zenon DEF Queued
  <2> QED BY <2>1
<1> QED BY <1>1, <1>2

-----------------------------------------------------------------------------
(* The actions *)

LEMMA AddSlots == ASSUME SlotInv, NEW j \in Jobs, Add(j) PROVE Agree' /\ Held' /\ SlotStep
<1>1. runs' = runs /\ \E store : Write(store)
  BY DEF Add, Persist
<1> QED BY <1>1, WriteAgrees, HeldKeeps DEF SlotInv, SlotStep, Cause

LEMMA UpdateSlots ==
  ASSUME SlotInv, NEW j \in Jobs,
         NEW patch \in {"enable", "disable", "reschedule", "other"}, Update(j, patch)
  PROVE  Agree' /\ Held' /\ SlotStep
<1>1. runs' = runs /\ Write([mem EXCEPT ![j] = Patched(j, @, patch)])
  BY DEF Update, Persist
<1>2. Agree' /\ Held'
  BY <1>1, WriteAgrees, HeldKeeps DEF SlotInv
<1>3. ASSUME NEW i \in Jobs \ OneShots, Lost(i) PROVE Cause(i)
  <2>1. mem \in Store /\ mem[i] \in Job /\ mem[i].next = "due" /\ mem[i].enabled
    BY <1>3, DueSides, InvParts DEF SlotInv, Lost, StoresOK, Store
  <2>2. CASE i # j
    BY <1>1, <1>3, <2>1, <2>2 DEF Write, Lost, Store
  <2>3. CASE i = j /\ patch \in {"enable", "reschedule"}
    BY <2>3 DEF Cause
  <2>4. CASE i = j /\ patch = "other"
    <3>1. Patched(j, mem[j], patch) = mem[j]
      BY <2>1, <2>4 DEF Patched
    <3> QED BY <1>1, <1>3, <2>1, <2>4, <3>1 DEF Write, Lost, Store
  <2>5. CASE i = j /\ patch = "disable"
    <3> DEFINE p == [mem[j] EXCEPT !.enabled = FALSE]
    <3>1. p.enabled = FALSE /\ p \in Job
      BY <2>1, <2>5 DEF Job
    <3>2. Patched(j, mem[j], patch) = [p EXCEPT !.next = "none", !.marker = "none"]
      BY <2>5, <3>1 DEF Patched
    <3> HIDE DEF p
    <3>3. Patched(j, mem[j], patch).next = "none"
      BY <3>1, <3>2 DEF Job
    <3> QED BY <1>1, <1>3, <2>1, <2>5, <3>3 DEF Write, Lost, Store
  <2> QED BY <2>2, <2>3, <2>4, <2>5
<1> QED BY <1>2, <1>3 DEF SlotStep

LEMMA RemoveSlots ==
  ASSUME SlotInv, NEW j \in Jobs, Remove(j) PROVE Agree' /\ Held' /\ SlotStep
<1>1. runs' = runs /\ Write([mem EXCEPT ![j] = NoJob])
  BY DEF Remove, Persist
<1>2. Agree' /\ Held'
  BY <1>1, WriteAgrees, HeldKeeps DEF SlotInv
<1>3. ASSUME NEW i \in Jobs, Lost(i) PROVE FALSE
  <2>1. mem \in Store /\ mem[i].next = "due"
    BY <1>3, DueSides, InvParts DEF SlotInv, Lost, StoresOK
  <2>2. NoJob.next = "none"
    BY DEF NoJob
  <2> QED BY <1>1, <1>3, <2>1, <2>2 DEF Write, Lost, Store
<1> QED BY <1>2, <1>3 DEF SlotStep

LEMMA ListSlots == ASSUME SlotInv, List \/ StartEnds PROVE Agree' /\ Held' /\ SlotStep
<1>1. runs' = runs /\ \E store : PersistChange(store)
  BY DEF List, StartEnds
<1>2. Held'
  BY <1>1, HeldKeeps DEF SlotInv
<1>3. Agree'
  BY <1>1, WriteAgrees DEF PersistChange, Persist, storeVars, Agree, SlotInv
<1>4. CASE List
  <2>1. mem \in Store /\ Blank(mem)
    BY InvParts DEF SlotInv, StoresOK
  <2>2. DueStays(mem, Maintained(mem))
    BY <2>1, MaintainedDue
  <2>3. disk' = Maintained(mem) \/ (Maintained(mem) = mem /\ disk' = disk)
    BY <1>4 DEF List, PersistChange, Persist, Write, storeVars
  <2>4. ASSUME NEW i \in Jobs, Lost(i) PROVE FALSE
    BY <2>2, <2>3, <2>4, DueSides DEF Lost, DueStays
  <2> QED BY <1>2, <1>3, <2>4 DEF SlotStep
<1>5. CASE StartEnds
  BY <1>2, <1>3, <1>5 DEF SlotStep, Cause
<1> QED BY <1>4, <1>5

\* The repairs of a manual run stay in memory.
LEMMA ManualRunSlots ==
  ASSUME SlotInv, NEW j \in Jobs, ManualRun(j) PROVE Agree' /\ Held' /\ SlotStep
<1> DEFINE e == [job |-> j, by |-> "manual", n |-> incidents, held |-> FALSE,
                 stage |-> "checked", result |-> "none"]
<1>1. (runs' = runs \/ runs' = runs \cup {e}) /\ ~e.held
      /\ mem' = Maintained(mem) /\ disk' = disk
  BY DEF ManualRun
<1> HIDE DEF e
<1>2. Held'
  BY <1>1 DEF Held, SlotInv
<1>3. \A i \in Jobs : /\ mem'[i].enabled = mem[i].enabled
                      /\ mem[i].enabled => mem'[i].next = mem[i].next
  <2> TAKE i \in Jobs
  <2>1. mem[i] \in Job /\ (mem[i].enabled => mem[i].stored)
    BY InvParts DEF SlotInv, StoresOK, Store, Blank
  <2>2. mem'[i] = Normalized(i, mem[i], {"none"})
    BY <1>1 DEF Maintained
  <2>3. CASE ~mem[i].stored \/ ~mem[i].enabled
    <3>1. mem'[i] = [mem[i] EXCEPT !.next = "none", !.marker = "none"]
      BY <2>2, <2>3 DEF Normalized
    <3> QED BY <2>1, <2>3, <3>1 DEF Job
  <2>4. CASE mem[i].stored /\ mem[i].enabled
    <3> DEFINE m == IF mem[i].marker = "old" THEN "none" ELSE mem[i].marker
               n == IF mem[i].next \in {"none"} THEN ComputeNext(i, mem[i]) ELSE mem[i].next
    <3>1. mem'[i] = [mem[i] EXCEPT !.marker = m, !.next = n]
      BY <2>2, <2>4 DEF Normalized
    <3>2. n = mem[i].next
      <4>1. CASE mem[i].next = "none"
        <5>1. Kind[i] = "at" /\ mem[i].at = "spent"
          BY <2>4, <4>1 DEF SlotInv, Scheduled, Planned
        <5>2. ComputeNext(i, mem[i]) = "none"
          BY <2>1, <2>4, <5>1, NextComputed
        <5> QED BY <4>1, <5>2
      <4>2. CASE mem[i].next # "none"
        BY <4>2
      <4> QED BY <4>1, <4>2
    <3> HIDE DEF m, n
    <3> QED BY <2>1, <3>1, <3>2 DEF Job
  <2> QED BY <2>3, <2>4
<1>4. Agree'
  BY <1>1, <1>3 DEF SlotInv, Agree
<1>5. SlotStep
  BY <1>1, DueSides DEF SlotStep, Lost
<1> QED BY <1>2, <1>4, <1>5

LEMMA GoesSlots ==
  ASSUME SlotInv, NEW e \in runs, Goes(e) PROVE Agree' /\ Held' /\ SlotStep
<1>1. mem \in Store /\ disk \in Store /\ Blank(disk) /\ e \in Run
  BY InvParts DEF SlotInv, StoresOK, RunsOK
<1>2. CASE ManualReserves(e) \/ RunBegins(e) \/ RunEnds(e)
  <2>1. Held'
    <3>1. CASE ManualReserves(e)
      <4>1. [e EXCEPT !.stage = "running"].held = e.held /\ [e EXCEPT !.stage = "running"].by = e.by
        BY <1>1 DEF Run
      <4> QED BY <3>1, <4>1 DEF ManualReserves, Held, SlotInv
    <3>2. CASE RunBegins(e)
      <4>1. [e EXCEPT !.stage = "running", !.held = FALSE].held = FALSE
        BY <1>1 DEF Run
      <4> QED BY <3>2, <4>1 DEF RunBegins, Held, SlotInv
    <3>3. CASE RunEnds(e)
      <4>1. PICK result :
              runs' = (runs \ {e}) \cup {[e EXCEPT !.stage = "done", !.result = result]}
        BY <3>3 DEF RunEnds
      <4> DEFINE f == [e EXCEPT !.stage = "done", !.result = result]
      <4>2. f.held = e.held /\ f.by = e.by
        BY <1>1 DEF Run
      <4>3. runs' = (runs \ {e}) \cup {f}
        BY <4>1
      <4> HIDE DEF f
      <4> QED BY <4>2, <4>3 DEF Held, SlotInv
    <3> QED BY <1>2, <3>1, <3>2, <3>3
  <2>2. mem' \in {mem, Marked(mem, {e.job})} /\ disk' \in {disk, mem'}
    BY <1>2 DEF ManualReserves, RunBegins, RunEnds, Reserve, Write, storeVars
  <2>3. \A j \in Jobs : mem'[j].enabled = mem[j].enabled /\ mem'[j].next = mem[j].next
    <3>1. \A j \in Jobs : LET q == [mem[j] EXCEPT !.marker = "fresh"]
                          IN  q.enabled = mem[j].enabled /\ q.next = mem[j].next
      BY <1>1 DEF Store, Job
    <3> QED BY <2>2, <3>1 DEF Marked
  <2>4. Agree'
    BY <2>2, <2>3 DEF Agree, SlotInv
  <2>5. SlotStep
    <3>1. \A j \in Jobs : ~Lost(j)
      BY <2>2, <2>3, DueSides DEF Lost
    <3> QED BY <3>1 DEF SlotStep
  <2> QED BY <2>1, <2>4, <2>5
<1>3. CASE ManualFinishes(e) /\ mem[e.job].stored
  <2> DEFINE done == ApplyJobResult(e.job, mem[e.job], e.result)
             with == [disk EXCEPT ![e.job] = IF @.stored \/ ~done.stored THEN done ELSE @]
  <2>1. Write(Maintained(with)) /\ runs' = Reloaded(runs \ {e}) /\ e.by = "manual" /\ e.stage = "done"
    BY <1>3 DEF ManualFinishes, Persist
  <2>2. with \in Store /\ Blank(with)
    BY <1>3, FinishedKeeps DEF SlotInv
  <2>3. \A j \in Jobs : j # e.job => with[j] = disk[j]
    BY <1>1 DEF Store
  <2> HIDE DEF with
  <2>4. Agree' /\ Held'
    BY <2>1, WriteAgrees, HeldKeeps DEF SlotInv
  <2>5. \A j \in Jobs \ {e.job} : ~Lost(j)
    BY <2>1, <2>2, <2>3, MaintainedDue, SavedSlots DEF DueStays, Write
  <2>6. e \notin runs'
    <3>1. ~e.held
      BY <2>1 DEF SlotInv, Held
    <3>2. ASSUME NEW f \in runs, f # e, e = [f EXCEPT !.held = FALSE] PROVE FALSE
      <4>1. f \in Run /\ f.by = e.by
        BY <3>2 DEF SlotInv, CronInv, TypeOK, Run
      <4>2. f.held = FALSE
        BY <2>1, <4>1 DEF SlotInv, Held, Run
      <4>3. f = [f EXCEPT !.held = FALSE]
        BY <4>1, <4>2 DEF Run
      <4> QED BY <3>2, <4>3
    <3> QED BY <2>1, <3>2 DEF Reloaded
  <2>7. e.job \in UnderWay(runs \ runs')
    BY <2>1, <2>6 DEF UnderWay
  <2> QED BY <2>4, <2>5, <2>7 DEF SlotStep, Cause
<1>4. CASE ManualFinishes(e) /\ ~mem[e.job].stored
  <2>1. runs' \subseteq runs /\ UNCHANGED <<mem, disk>>
    BY <1>4 DEF ManualFinishes, storeVars
  <2>2. Held' /\ Agree'
    BY <2>1, HeldKeeps DEF SlotInv, Agree
  <2>3. \A j \in Jobs : ~Lost(j)
    BY <2>1, DueSides DEF Lost
  <2> QED BY <2>2, <2>3 DEF SlotStep
<1> QED BY <1>2, <1>3, <1>4 DEF Goes

LEMMA TickSlots ==
  ASSUME SlotInv, TimerFires \/ TickApplies \/ TickEnds PROVE Agree' /\ Held' /\ SlotStep
<1>1. disk \in Store /\ Blank(disk)
  BY InvParts DEF SlotInv, StoresOK
<1>2. CASE TimerFires
  <2> DEFINE due == {j \in Jobs : Runnable(disk[j])}
  <2>1. /\ Write(Maintained(disk)) \/ Write(Marked(disk, due))
        /\ runs' = Reloaded(runs) \cup Queued("tick", due)
    BY <1>2 DEF TimerFires, Persist
  <2> HIDE DEF due
  <2>2. Agree'
    BY <2>1, WriteAgrees
  <2>3. Held'
    <3>1. \A f \in Reloaded(runs) : ~f.held
      <4>1. \A f \in runs : [f EXCEPT !.held = FALSE].held = FALSE
        BY DEF SlotInv, CronInv, TypeOK, Run
      <4> QED BY <4>1 DEF Reloaded
    <3> QED BY <2>1, <3>1, QueuedHeld DEF Held
  <2>4. \A j \in Jobs : ~Lost(j)
    <3>1. DueStays(disk, disk')
      BY <1>1, <2>1, MaintainedDue, MarkedDue DEF Write
    <3> QED BY <3>1, DueSides DEF Lost, DueStays
  <2> QED BY <2>2, <2>3, <2>4 DEF SlotStep
<1>3. CASE TickApplies
  <2> DEFINE E == RunsOf("tick")
             with == WithResults(disk, E)
  <2>1. Write(Maintained(with)) /\ runs' = Reloaded(runs \ E) /\ AllDone(E)
    BY <1>3 DEF TickApplies, Persist
  <2>2. with \in Store /\ Blank(with)
    BY <1>1, ResultsClear
  <2> DEFINE S == {e.job : e \in E}
  <2>3. \A j \in Jobs : j \notin S => with[j] = disk[j]
    BY DEF WithResults
  <2> HIDE DEF with
  <2>4. Agree' /\ Held'
    BY <2>1, WriteAgrees, HeldKeeps DEF SlotInv
  <2>5. \A j \in Jobs \ S : ~Lost(j)
    BY <2>1, <2>2, <2>3, MaintainedDue, SavedSlots DEF DueStays, Write
  <2>6. S \subseteq UnderWay(runs \ runs')
    <3>1. ASSUME NEW e \in E PROVE e \in runs /\ e \notin runs' /\ e.stage # "checked"
      <4>1. e \in runs /\ e.by = "tick" /\ e.stage = "done"
        BY <2>1 DEF RunsOf, AllDone
      <4>2. \A f \in runs \ E : f.by # "tick" /\ [f EXCEPT !.held = FALSE].by = f.by
        BY DEF RunsOf, SlotInv, CronInv, TypeOK, Run
      <4> QED BY <2>1, <4>1, <4>2 DEF Reloaded
    <3> QED BY <3>1 DEF UnderWay
  <2> QED BY <2>4, <2>5, <2>6 DEF SlotStep, Cause
<1>4. CASE TickEnds
  <2>1. UNCHANGED <<mem, disk, runs>>
    BY <1>4 DEF TickEnds, storeVars
  <2>2. \A j \in Jobs : ~Lost(j)
    BY <2>1, DueSides DEF Lost
  <2> QED BY <2>1, <2>2 DEF SlotInv, Agree, Held, SlotStep
<1> QED BY <1>2, <1>3, <1>4

LEMMA StartSlots ==
  ASSUME SlotInv, CatchUp \/ CatchUpApplies \/ Restart PROVE Agree' /\ Held' /\ SlotStep
<1>1. mem \in Store /\ Blank(mem) /\ disk \in Store
  BY InvParts DEF SlotInv, StoresOK
<1>2. CASE CatchUp
  <2>1. PICK now : /\ (UNCHANGED storeVars) \/ Write(Marked(mem, now))
                   /\ runs' = runs \cup Queued("catchup", now)
    BY <1>2 DEF CatchUp, Persist
  <2>2. Agree'
    BY <2>1, WriteAgrees DEF storeVars, Agree, SlotInv
  <2>3. Held'
    BY <2>1, QueuedHeld DEF Held, SlotInv
  <2>4. \A j \in Jobs : ~Lost(j)
    <3>1. disk' = disk \/ DueStays(mem, disk')
      BY <1>1, <2>1, MarkedDue DEF Write, storeVars
    <3> QED BY <3>1, DueSides DEF Lost, DueStays
  <2> QED BY <2>2, <2>3, <2>4 DEF SlotStep
<1>3. CASE CatchUpApplies
  <2> DEFINE E == RunsOf("catchup")
             ran == WithResults(mem, E)
             late == [j \in Jobs |-> IF j \in deferred /\ ran[j].enabled
                                     THEN [ran[j] EXCEPT !.next = "future"] ELSE ran[j]]
             S == {e.job : e \in E} \cup deferred
  <2>1. Write(Maintained(late)) /\ runs' = runs \ E /\ AllDone(E)
    BY <1>3 DEF CatchUpApplies, Persist
  <2>2. ran \in Store /\ Blank(ran)
    BY <1>1, ResultsClear
  <2>3. \A j \in Jobs : j \notin S => late[j] = mem[j]
    BY DEF WithResults
  <2> HIDE DEF ran
  <2>4. late \in Store /\ Blank(late)
    BY <2>2, LateKeeps
  <2> HIDE DEF late
  <2>5. Agree' /\ Held'
    BY <2>1, WriteAgrees, HeldKeeps DEF SlotInv
  <2>6. \A j \in Jobs \ S : ~Lost(j)
    <3>1. DueStays(late, disk')
      BY <2>1, <2>4, MaintainedDue DEF Write
    <3>2. \A j \in Jobs \ S : (mem[j].enabled /\ mem[j].next = "due") => disk'[j].next = "due"
      BY <2>3, <3>1 DEF DueStays
    <3> QED BY <3>2, SavedSlots
  <2>7. S \subseteq UnderWay(runs \ runs') \cup deferred
    BY <2>1 DEF UnderWay, AllDone, RunsOf
  <2> QED BY <2>5, <2>6, <2>7 DEF SlotStep, Cause
<1>4. CASE Restart
  <2>1. Write(Unmarked) /\ runs' = {}
    BY <1>4 DEF Restart
  <2>2. \A j \in Jobs : [disk[j] EXCEPT !.marker = "none"].next = disk[j].next
    BY <1>1 DEF Store, Job
  <2>3. \A j \in Jobs : ~Lost(j)
    BY <2>1, <2>2, DueSides DEF Lost, Unmarked, Write
  <2>4. Agree' /\ Held'
    BY <2>1, WriteAgrees DEF Held
  <2> QED BY <2>3, <2>4 DEF SlotStep
<1> QED BY <1>2, <1>3, <1>4

LEMMA TimeSlots ==
  ASSUME SlotInv, NEW j \in Jobs, TimeComes(j) \/ TwoHoursPass(j)
  PROVE  Agree' /\ Held' /\ SlotStep
<1> DEFINE On(r) == [r EXCEPT !.next = IF @ = "future" THEN "due" ELSE @,
                              !.at = IF @ = "future" THEN "past" ELSE @]
           Old(r) == [r EXCEPT !.marker = IF @ = "fresh" THEN "old" ELSE @]
           due(n) == IF n = "future" THEN "due" ELSE n
<1>1. \A r \in Job : /\ On(r).enabled = r.enabled /\ On(r).next = due(r.next)
                     /\ Old(r).enabled = r.enabled /\ Old(r).next = r.next
  BY DEF Job
<1>2. /\ runs' = runs
      /\ \/ disk' = [disk EXCEPT ![j] = On(@)] /\ mem' = [mem EXCEPT ![j] = On(@)]
         \/ disk' = [disk EXCEPT ![j] = Old(@)] /\ mem' = [mem EXCEPT ![j] = Old(@)]
  BY DEF TimeComes, TwoHoursPass
<1> HIDE DEF On, Old
<1>3. \A i \in Jobs :
        /\ mem'[i].enabled = mem[i].enabled /\ disk'[i].enabled = disk[i].enabled
        /\ \/ mem'[i].next = mem[i].next /\ disk'[i].next = disk[i].next
           \/ mem'[i].next = due(mem[i].next) /\ disk'[i].next = due(disk[i].next)
  BY <1>1, <1>2 DEF SlotInv, CronInv, TypeOK
<1>4. Agree' /\ Held'
  BY <1>2, <1>3 DEF SlotInv, Agree, Held
<1>5. \A i \in Jobs : ~Lost(i)
  BY <1>3, DueSides DEF Lost
<1> QED BY <1>4, <1>5 DEF SlotStep

LEMMA SlotNext ==
  ASSUME SlotInv, [Next]_vars PROVE Agree' /\ Held' /\ SlotStep
<1>1. ASSUME NEW j \in Jobs,
             Add(j) \/ Remove(j) \/ ManualRun(j) \/ TimeComes(j) \/ TwoHoursPass(j)
      PROVE  Agree' /\ Held' /\ SlotStep
  BY <1>1, AddSlots, RemoveSlots, ManualRunSlots, TimeSlots
<1>2. ASSUME NEW j \in Jobs, NEW patch \in {"enable", "disable", "reschedule", "other"},
             Update(j, patch)
      PROVE  Agree' /\ Held' /\ SlotStep
  BY <1>2, UpdateSlots
<1>3. ASSUME NEW e \in runs, Goes(e) PROVE Agree' /\ Held' /\ SlotStep
  BY <1>3, GoesSlots
<1>4. CASE TimerFires \/ TickApplies \/ TickEnds
  BY <1>4, TickSlots
<1>5. CASE CatchUp \/ CatchUpApplies \/ Restart
  BY <1>5, StartSlots
<1>6. CASE List \/ StartEnds
  BY <1>6, ListSlots
<1>7. CASE UNCHANGED vars
  <2>1. \A i \in Jobs : ~Lost(i)
    BY <1>7, DueSides DEF Lost, vars
  <2> QED BY <1>7, <2>1 DEF vars, SlotInv, Agree, Held, SlotStep
<1> QED BY <1>1, <1>2, <1>3, <1>4, <1>5, <1>6, <1>7 DEF Next

-----------------------------------------------------------------------------

\* The two copies agree on what is enabled and when it runs next, in every reachable state.
THEOREM Agreement == SafetySpec => []SlotInv
<1>1. Init => Agree /\ Held
  BY DEF Init, Agree, Held
<1>2. SlotInv /\ [Next]_vars => (Agree /\ Held)'
  BY SlotNext
<1>3. CronInv /\ (Scheduled /\ TimerArmed) /\ (Agree /\ Held) => SlotInv
  BY DEF SlotInv
<1> QED BY <1>1, <1>2, <1>3, CronInvariance, ScheduledInvariance, PTL DEF SafetySpec

\* A due run of a recurring job is given up for the next one only by a result or an edit
\* of this job, by the catch-up that puts it off, by start() and by the addition of a job
\* (recomputeNextRunsForMaintenance, onTimer).
THEOREM SlotsStayKept == SafetySpec => SlotsKept
<1>1. SlotInv /\ [Next]_vars => [\A j \in Jobs \ OneShots :
        (Runnable(disk[j]) /\ disk'[j].next = "future")
          => \/ j \in UnderWay(runs \ runs') \cup deferred
             \/ \E patch \in {"enable", "reschedule"} : Update(j, patch)
             \/ StartEnds
             \/ \E i \in Jobs : Add(i)]_vars
  BY SlotNext DEF SlotStep, Lost, Cause
<1> QED BY <1>1, Agreement, PTL DEF SafetySpec, SlotsKept
-----------------------------------------------------------------------------
(* One-shots *)

\* The one-shots that have succeeded, and whose success the store may have learned of.
Known == succeeded \ lost

\* Such a job is disabled, or the result is still to be applied.
Spent ==
  \A j \in Known :
    ~mem[j].enabled \/ \E e \in runs : e.job = j /\ e.stage = "done" /\ e.result = "ok"

\* Where a run of such a job is still queued, its marker was cleared under a run.
LateQueued == \A e \in runs : (e.stage = "queued" /\ e.job \in Known) => e.job \in freed

\* The tick, and the catch-up, have at most one run of a job.
OnePer ==
  \A e, f \in runs : (e.by = f.by /\ e.by # "manual" /\ e.job = f.job) => e = f

OnceInv == SlotInv /\ OneRun /\ Spent /\ LateQueued /\ OnePer

OnceStep ==
  \A e \in runs' \ runs : (e.stage = "queued" /\ e.job \in Known) => e.job \in freed

OnceNext == Spent' /\ LateQueued' /\ OnePer' /\ OnceStep

LEMMA KnownJobs == ASSUME OnceInv PROVE Known \subseteq OneShots /\ OneShots \subseteq Jobs
BY DEF Known, OnceInv, SlotInv, CronInv, TypeOK, OneShots

\* A job that was disabled stays so, and a success disables a one-shot.
LEMMA ResultDisables ==
  ASSUME NEW j \in Jobs, NEW r \in Job, NEW result,
         ~r.enabled \/ (j \in OneShots /\ result = "ok"), r.stored \/ ~r.enabled
  PROVE  ~ApplyJobResult(j, r, result).enabled
<1> DEFINE error == result \in {"transient", "permanent"}
           errors == IF ~error THEN 0 ELSE IF r.errors > MaxRetries THEN r.errors ELSE r.errors + 1
           ran == [r EXCEPT !.marker = "none", !.errors = errors,
                            !.last = IF error THEN "error" ELSE "ok",
                            !.at = IF @ = "future" THEN @
                                   ELSE IF result = "ok" THEN "spent" ELSE "past"]
           q == ApplyJobResult(j, r, result)
<1>1. CASE ~r.stored
  BY <1>1 DEF ApplyJobResult
<1>2. CASE r.stored /\ Kind[j] # "at"
  <2>1. q = [r EXCEPT !.marker = "none", !.last = "ok",
                      !.next = IF r.enabled THEN "future" ELSE "none"]
    BY <1>2 DEF ApplyJobResult
  <2>2. ~r.enabled
    BY <1>2 DEF OneShots
  <2> QED BY <2>1, <2>2 DEF Job
<1>3. CASE r.stored /\ Kind[j] = "at"
  <2>1. q = NoJob \/ (result # "ok" /\ q = [ran EXCEPT !.next = "future"]) \/ q = Disabled(ran)
    BY <1>3 DEF ApplyJobResult
  <2>2. [ran EXCEPT !.next = "future"].enabled = r.enabled /\ Disabled(ran).enabled = FALSE
    <3>1. ran.enabled = r.enabled /\ "enabled" \in DOMAIN ran
      BY DEF Job
    <3> HIDE DEF ran
    <3> QED BY <3>1 DEF Disabled
  <2> HIDE DEF ran, q
  <2>3. ~q.enabled
    BY <2>1, <2>2, NoJobType
  <2> QED BY <2>3 DEF q
<1> QED BY <1>1, <1>2, <1>3

\* So with the results of a caller that has at most one run of a job.
LEMMA ResultsDisable ==
  ASSUME NEW store \in Store, Blank(store), NEW E, NEW j \in Jobs,
         \A e, f \in E : (e.job = j /\ f.job = j) => e = f,
         \/ ~store[j].enabled
         \/ j \in OneShots /\ \E e \in E : e.job = j /\ e.result = "ok"
  PROVE  ~WithResults(store, E)[j].enabled
<1>1. store[j] \in Job /\ (store[j].stored \/ ~store[j].enabled)
  BY DEF Store, Blank
<1>2. CASE \E e \in E : e.job = j
  <2> DEFINE c == CHOOSE e \in E : e.job = j
  <2>1. c \in E /\ c.job = j
    BY <1>2
  <2>2. WithResults(store, E)[j] = ApplyJobResult(j, store[j], c.result)
    BY <1>2 DEF WithResults
  <2>3. ~store[j].enabled \/ (j \in OneShots /\ c.result = "ok")
    BY <2>1
  <2> HIDE DEF c
  <2> QED BY <1>1, <2>2, <2>3, ResultDisables
<1>3. CASE ~(\E e \in E : e.job = j)
  BY <1>3 DEF WithResults
<1> QED BY <1>2, <1>3

\* Steps without new runs: edits, lists, and what passes no result on.
LEMMA SameOnce ==
  ASSUME OnceInv, runs' = runs, Known' \subseteq Known,
         \A j \in UnderWay(runs) : j \in freed => j \in freed',
         \A j \in Known' : mem'[j].enabled => mem[j].enabled
  PROVE  OnceNext
<1>1. LateQueued'
  <2> SUFFICES ASSUME NEW e \in runs, e.stage = "queued", e.job \in Known'
               PROVE  e.job \in freed'
    BY DEF LateQueued
  <2>1. e.job \in freed /\ e.job \in UnderWay(runs)
    BY DEF OnceInv, LateQueued, UnderWay
  <2> QED BY <2>1
<1> QED BY <1>1 DEF OnceInv, Spent, OnePer, OnceStep, OnceNext

LEMMA NoteFrees ==
  ASSUME NEW store, Note(store), NEW j \in UnderWay(runs'), j \in freed PROVE j \in freed'
BY DEF Note

LEMMA EditsOnce ==
  ASSUME OnceInv, NEW j \in Jobs, NEW patch, Add(j) \/ Remove(j) \/ Update(j, patch)
  PROVE  OnceNext
<1>1. /\ runs' = runs /\ Known' = Known \ {j}
      /\ \E store : Note(store)
  BY DEF Add, Remove, Update, Persist, Forget, Known
<1>2. \A i \in Jobs \ {j} : mem'[i].enabled => mem[i].enabled
  <2>0. mem \in Store
    BY InvParts DEF OnceInv, SlotInv, StoresOK
  <2>1. CASE Add(j)
    <3>1. PICK new \in Job : mem' = Recomputed([mem EXCEPT ![j] = new])
      <4>1. PICK enabled \in BOOLEAN, deletes \in BOOLEAN, at \in {"future", "past"} :
              LET once == Kind[j] = "at"
                  new == [NoJob EXCEPT !.stored = TRUE, !.enabled = enabled,
                            !.deletes = deletes /\ once, !.at = IF once THEN at ELSE "past"]
                  store == Recomputed([mem EXCEPT ![j] = new])
              IN  Persist(store) /\ ArmTimer(store)
        BY <2>1 DEF Add
      <4> DEFINE once == Kind[j] = "at"
                 new == [NoJob EXCEPT !.stored = TRUE, !.enabled = enabled,
                           !.deletes = deletes /\ once, !.at = IF once THEN at ELSE "past"]
      <4>2. new \in Job
        BY NoJobType DEF Job
      <4>3. mem' = Recomputed([mem EXCEPT ![j] = new])
        BY <4>1 DEF Persist, Write
      <4> HIDE DEF new
      <4> QED BY <4>2, <4>3
    <3>2. [mem EXCEPT ![j] = new] \in Store
      BY <2>0 DEF Store
    <3>3. Repairs([mem EXCEPT ![j] = new], mem')
      BY <3>1, <3>2, RecomputedRepairs
    <3> QED BY <2>0, <3>3 DEF Repairs, Store
  <2>2. CASE Remove(j) \/ Update(j, patch)
    <3>1. PICK new : mem' = [mem EXCEPT ![j] = new]
      BY <2>2 DEF Remove, Update, Persist, Write
    <3> QED BY <2>0, <3>1 DEF Store
  <2> QED BY <2>1, <2>2
<1>3. \A i \in UnderWay(runs) : i \in freed => i \in freed'
  BY <1>1, NoteFrees
<1>4. Known \subseteq Jobs
  BY KnownJobs
<1> QED BY <1>1, <1>2, <1>3, <1>4, SameOnce

LEMMA ListOnce == ASSUME OnceInv, List \/ StartEnds PROVE OnceNext
<1>1. mem \in Store
  BY InvParts DEF OnceInv, SlotInv, StoresOK
<1>2. runs' = runs /\ Known' = Known /\ \E store : Note(store)
  BY DEF List, StartEnds, PersistChange, Persist, Known, outcomes
<1>3. Repairs(mem, mem')
  <2>1. mem' = Maintained(mem) \/ mem' = Recomputed(mem)
    BY DEF List, StartEnds, PersistChange, Persist, Write, storeVars
  <2> QED BY <1>1, <2>1, MaintainedRepairs, RecomputedRepairs
<1>4. \A i \in UnderWay(runs) : i \in freed => i \in freed'
  BY <1>2, NoteFrees
<1>5. \A i \in Known : mem'[i].enabled = mem[i].enabled
  BY <1>3, KnownJobs DEF Repairs
<1> QED BY <1>2, <1>4, <1>5, SameOnce

\* The clock, the end of a tick, and a step that changes nothing.
LEMMA QuietOnce ==
  ASSUME OnceInv, UNCHANGED <<runs, freed, Known>>,
         \A j \in Jobs : mem'[j].enabled = mem[j].enabled
  PROVE  OnceNext
BY SameOnce, KnownJobs

LEMMA TimeOnce ==
  ASSUME OnceInv, NEW j \in Jobs, TimeComes(j) \/ TwoHoursPass(j) PROVE OnceNext
<1> DEFINE On(r) == [r EXCEPT !.next = IF @ = "future" THEN "due" ELSE @,
                              !.at = IF @ = "future" THEN "past" ELSE @]
           Old(r) == [r EXCEPT !.marker = IF @ = "fresh" THEN "old" ELSE @]
<1>1. \A r \in Job : On(r).enabled = r.enabled /\ Old(r).enabled = r.enabled
  BY DEF Job
<1>2. UNCHANGED <<runs, freed, Known>>
      /\ (mem' = [mem EXCEPT ![j] = On(@)] \/ mem' = [mem EXCEPT ![j] = Old(@)])
  BY DEF TimeComes, TwoHoursPass, history, outcomes, Known
<1> HIDE DEF On, Old
<1>3. \A i \in Jobs : mem'[i].enabled = mem[i].enabled
  BY <1>1, <1>2 DEF OnceInv, SlotInv, CronInv, TypeOK
<1> QED BY <1>2, <1>3, QuietOnce

LEMMA ManualRunOnce == ASSUME OnceInv, NEW j \in Jobs, ManualRun(j) PROVE OnceNext
<1> DEFINE e == [job |-> j, by |-> "manual", n |-> incidents, held |-> FALSE,
                 stage |-> "checked", result |-> "none"]
<1>1. /\ runs' = runs \/ runs' = runs \cup {e}
      /\ e.stage = "checked" /\ e.by = "manual"
      /\ mem' = Maintained(mem) /\ Note(mem') /\ Known' = Known
  BY DEF ManualRun, outcomes, Known
<1> HIDE DEF e
<1>2. \A i \in Known : mem'[i].enabled = mem[i].enabled
  <2>1. Repairs(mem, mem')
    BY <1>1, MaintainedRepairs, InvParts DEF OnceInv, SlotInv, StoresOK
  <2> QED BY <2>1, KnownJobs DEF Repairs
<1>3. Spent' /\ OnePer' /\ OnceStep
  BY <1>1, <1>2 DEF OnceInv, Spent, OnePer, OnceStep
<1>4. LateQueued'
  <2> SUFFICES ASSUME NEW f \in runs', f.stage = "queued", f.job \in Known'
               PROVE  f.job \in freed'
    BY DEF LateQueued
  <2>1. f.job \in freed /\ f.job \in UnderWay(runs')
    BY <1>1 DEF OnceInv, LateQueued, UnderWay
  <2> QED BY <1>1, <2>1, NoteFrees
<1> QED BY <1>3, <1>4 DEF OnceNext

\* A run goes on to a stage that is neither queued nor the end of it, or ends.
LEMMA StageOnce ==
  ASSUME OnceInv, NEW e \in runs, NEW f, f.job = e.job, f.by = e.by, f.stage # "queued",
         runs' = (runs \ {e}) \cup {f},
         e.stage # "done",
         \A j \in UnderWay(runs) : j \in freed => j \in freed',
         \A j \in Jobs : mem'[j].enabled = mem[j].enabled,
         \/ Known' \subseteq Known
         \/ f.stage = "done" /\ f.result = "ok" /\ Known' = Known \cup {e.job}
            /\ freed' = freed /\ e.stage # "checked"
  PROVE  OnceNext
<1>1. Known \subseteq Jobs /\ e.job \in Jobs
  BY KnownJobs DEF OnceInv, SlotInv, CronInv, TypeOK, OneShots, Run
<1>2. Spent'
  <2> SUFFICES ASSUME NEW j \in Known'
               PROVE  ~mem'[j].enabled \/ \E g \in runs' : g.job = j /\ g.stage = "done" /\ g.result = "ok"
    BY DEF Spent
  <2>1. CASE j \in Known
    BY <1>1, <2>1 DEF OnceInv, Spent
  <2>2. CASE j \notin Known
    BY <2>2
  <2> QED BY <2>1, <2>2
<1>3. OnePer'
  BY DEF OnceInv, OnePer
<1>4. OnceStep
  BY DEF OnceStep
<1>5. LateQueued'
  <2> SUFFICES ASSUME NEW g \in runs, g # e, g.stage = "queued", g.job \in Known'
               PROVE  g.job \in freed'
    BY DEF LateQueued
  <2>1. g.job \in UnderWay(runs)
    BY DEF UnderWay
  <2>2. CASE g.job \in Known
    BY <2>1, <2>2 DEF OnceInv, LateQueued
  <2>3. CASE g.job \notin Known
    <3>1. g.job = e.job /\ e.stage # "checked" /\ freed' = freed
      BY <2>3
    <3>2. ~Single(runs, g.job)
      BY <3>1 DEF Single
    <3> QED BY <2>1, <3>1, <3>2 DEF OnceInv, OneRun
  <2> QED BY <2>2, <2>3
<1> QED BY <1>2, <1>3, <1>4, <1>5 DEF OnceNext

\* The results of the runs of E are applied, or have nothing to be applied to.
LEMMA AppliedOnce ==
  ASSUME OnceInv, NEW E \in SUBSET runs, runs' = runs \ E \/ runs' = Reloaded(runs \ E),
         NEW store, Note(store), Known' = Known,
         \A j \in OneShots : (~mem[j].enabled \/ \E e \in E : e.job = j /\ e.result = "ok")
                                => ~mem'[j].enabled
  PROVE  OnceNext
<1> DEFINE h(e) == [e EXCEPT !.held = FALSE]
<1>1. \A e \in runs : /\ h(e).job = e.job /\ h(e).stage = e.stage
                      /\ h(e).by = e.by /\ h(e).result = e.result
  BY DEF OnceInv, SlotInv, CronInv, TypeOK, Run
<1>2. runs' = runs \ E \/ runs' = {h(e) : e \in runs \ E}
  BY DEF Reloaded
<1> HIDE DEF h
<1>3. \A f \in runs' : \E e \in runs \ E :
        f.job = e.job /\ f.stage = e.stage /\ f.by = e.by /\ f.result = e.result
  BY <1>1, <1>2
<1>4. \A e \in runs \ E : \E f \in runs' :
        f.job = e.job /\ f.stage = e.stage /\ f.by = e.by /\ f.result = e.result
  BY <1>1, <1>2
<1>5. Spent'
  <2> SUFFICES ASSUME NEW j \in Known, mem'[j].enabled
               PROVE  \E g \in runs' : g.job = j /\ g.stage = "done" /\ g.result = "ok"
    BY DEF Spent
  <2>1. j \in OneShots
    BY KnownJobs
  <2>2. PICK e \in runs : e.job = j /\ e.stage = "done" /\ e.result = "ok"
    BY <2>1 DEF OnceInv, Spent
  <2>3. e \notin E
    BY <2>1, <2>2
  <2> QED BY <1>4, <2>2, <2>3
<1>6. OnePer'
  <2>1. CASE runs' = runs \ E
    BY <2>1 DEF OnceInv, OnePer
  <2>2. CASE runs' = {h(e) : e \in runs \ E}
    BY <1>1, <2>2 DEF OnceInv, OnePer
  <2> QED BY <1>2, <2>1, <2>2
<1>7. LateQueued' /\ OnceStep
  <2>1. ASSUME NEW f \in runs', f.stage = "queued", f.job \in Known
        PROVE  f.job \in freed /\ f.job \in UnderWay(runs')
    BY <1>3, <2>1 DEF OnceInv, LateQueued, UnderWay
  <2> QED BY <2>1, NoteFrees DEF LateQueued, OnceStep
<1> QED BY <1>5, <1>6, <1>7 DEF OnceNext

\* What a tick or the catch-up queues was enabled and not marked: it is not Known,
\* or was freed.
LEMMA QueuedOnce ==
  ASSUME OnceInv, NEW by \in {"tick", "catchup"}, NEW S \in SUBSET Jobs,
         \A e \in runs : e.by # by,
         \A j \in S : mem[j].enabled /\ (mem[j].marker = "none" \/ disk[j].marker = "none"),
         runs' = runs \cup Queued(by, S) \/ runs' = Reloaded(runs) \cup Queued(by, S),
         NEW store, Note(store), Known' = Known,
         \A j \in Jobs : mem'[j].enabled = mem[j].enabled
  PROVE  OnceNext
<1> DEFINE h(e) == [e EXCEPT !.held = FALSE]
           q(j) == [job |-> j, by |-> by, n |-> 0, held |-> by = "tick",
                    stage |-> "queued", result |-> "none"]
<1>1. \A e \in runs : /\ h(e).job = e.job /\ h(e).stage = e.stage
                      /\ h(e).by = e.by /\ h(e).result = e.result
  BY DEF OnceInv, SlotInv, CronInv, TypeOK, Run
<1>2. \A j : q(j).job = j /\ q(j).by = by /\ q(j).stage = "queued"
  OBVIOUS
<1>3. \/ runs' = runs \cup {q(j) : j \in S}
      \/ runs' = {h(e) : e \in runs} \cup {q(j) : j \in S}
  BY DEF Reloaded, Queued
<1> HIDE DEF h, q
<1>4. \A f \in runs' :
        \/ \E j \in S : f = q(j)
        \/ \E e \in runs : f.job = e.job /\ f.stage = e.stage /\ f.by = e.by
  BY <1>1, <1>3
<1>5. \A e \in runs : \E f \in runs' : f.job = e.job /\ f.stage = e.stage /\ f.result = e.result
  BY <1>1, <1>3
<1>6. Spent'
  <2>1. Known \subseteq Jobs
    BY KnownJobs
  <2> SUFFICES ASSUME NEW j \in Known, mem[j].enabled
               PROVE  \E g \in runs' : g.job = j /\ g.stage = "done" /\ g.result = "ok"
    BY <2>1 DEF Spent
  <2> QED BY <1>5 DEF OnceInv, Spent
<1>7. OnePer'
  <2>1. CASE runs' = runs \cup {q(j) : j \in S}
    BY <1>2, <2>1 DEF OnceInv, OnePer
  <2>2. CASE runs' = {h(e) : e \in runs} \cup {q(j) : j \in S}
    BY <1>1, <1>2, <2>2 DEF OnceInv, OnePer
  <2> QED BY <1>3, <2>1, <2>2
<1>8. ASSUME NEW f \in runs', f.stage = "queued", f.job \in Known
      PROVE  f.job \in freed /\ f.job \in UnderWay(runs')
  <2>1. f.job \in UnderWay(runs')
    BY <1>8 DEF UnderWay
  <2>2. CASE \E e \in runs : f.job = e.job /\ f.stage = e.stage
    BY <1>8, <2>1, <2>2 DEF OnceInv, LateQueued
  <2>3. CASE \E j \in S : f = q(j)
    <3>1. f.job \in S
      BY <1>2, <2>3
    <3>2. PICK e \in runs : e.job = f.job /\ e.stage = "done"
      BY <1>8, <3>1 DEF OnceInv, Spent
    <3>3. f.job \in UnderWay(runs)
      BY <3>2 DEF UnderWay
    <3> QED BY <2>1, <3>1, <3>3 DEF OnceInv, OneRun
  <2> QED BY <1>4, <2>2, <2>3
<1>9. LateQueued' /\ OnceStep
  BY <1>8, NoteFrees DEF LateQueued, OnceStep
<1> QED BY <1>6, <1>7, <1>9 DEF OnceNext

LEMMA GoesOnce == ASSUME OnceInv, NEW e \in runs, Goes(e) PROVE OnceNext
<1>1. mem \in Store /\ disk \in Store /\ Blank(mem) /\ Blank(disk) /\ e \in Run /\ e.job \in Jobs
  BY InvParts DEF OnceInv, SlotInv, StoresOK, RunsOK, Run
<1>2. \A j \in Jobs : Marked(mem, {e.job})[j].enabled = mem[j].enabled
  <2>1. \A j \in Jobs : [mem[j] EXCEPT !.marker = "fresh"].enabled = mem[j].enabled
    BY <1>1 DEF Store, Job
  <2> QED BY <2>1 DEF Marked
<1>3. CASE ManualReserves(e) /\ mem[e.job].stored /\ mem[e.job].marker = "none"
  <2> DEFINE f == [e EXCEPT !.stage = "running"]
  <2>1. /\ runs' = (runs \ {e}) \cup {f} /\ e.stage = "checked"
        /\ mem' = Marked(mem, {e.job}) /\ Note(mem') /\ Known' = Known \ {e.job}
    BY <1>3 DEF ManualReserves, Reserve, Write, Forget, Known
  <2>2. f.job = e.job /\ f.by = e.by /\ f.stage = "running"
    BY <1>1 DEF Run
  <2> HIDE DEF f
  <2>3. UnderWay(runs) \subseteq UnderWay(runs')
    BY <2>1, <2>2, StageKeeps DEF OnceInv, SlotInv, CronInv, TypeOK
  <2>4. \A j \in UnderWay(runs) : j \in freed => j \in freed'
    BY <2>1, <2>3, NoteFrees
  <2> QED BY <1>2, <2>1, <2>2, <2>4, StageOnce
<1>4. CASE ManualReserves(e) /\ ~(mem[e.job].stored /\ mem[e.job].marker = "none")
  <2>1. runs' = runs \ {e} /\ UNCHANGED <<mem, freed, Known>> /\ e.stage = "checked"
    BY <1>4 DEF ManualReserves, storeVars, history, outcomes, Known
  <2> QED BY <2>1 DEF OnceInv, OnceNext, Spent, LateQueued, OnePer, OnceStep
<1>5. CASE RunBegins(e)
  <2> DEFINE f == [e EXCEPT !.stage = "running", !.held = FALSE]
  <2>1. /\ runs' = (runs \ {e}) \cup {f} /\ e.stage = "queued"
        /\ mem' \in {mem, Marked(mem, {e.job})} /\ UNCHANGED <<freed, Known>>
    BY <1>5 DEF RunBegins, history, outcomes, Known
  <2>2. f.job = e.job /\ f.by = e.by /\ f.stage = "running"
    BY <1>1 DEF Run
  <2> HIDE DEF f
  <2> QED BY <1>2, <2>1, <2>2, StageOnce
<1>6. CASE RunEnds(e)
  <2>1. PICK result :
          /\ runs' = (runs \ {e}) \cup {[e EXCEPT !.stage = "done", !.result = result]}
          /\ Known' = IF result = "ok" /\ e.job \in OneShots
                          THEN Known \cup {e.job} ELSE Known
    BY <1>6 DEF RunEnds, outcomes, Known
  <2> DEFINE f == [e EXCEPT !.stage = "done", !.result = result]
  <2>2. f.job = e.job /\ f.by = e.by /\ f.stage = "done" /\ f.result = result
    BY <1>1 DEF Run
  <2>3. runs' = (runs \ {e}) \cup {f} /\ e.stage = "running" /\ UNCHANGED <<mem, freed>>
    BY <1>6, <2>1 DEF RunEnds, storeVars
  <2> HIDE DEF f
  <2> QED BY <2>1, <2>2, <2>3, StageOnce
<1>7. CASE ManualFinishes(e) /\ mem[e.job].stored
  <2> DEFINE done == ApplyJobResult(e.job, mem[e.job], e.result)
             with == [disk EXCEPT ![e.job] = IF @.stored \/ ~done.stored THEN done ELSE @]
  <2>1. /\ runs' = Reloaded(runs \ {e}) /\ mem' = Maintained(with)
        /\ Note(Maintained(with)) /\ Known' = Known
    BY <1>7 DEF ManualFinishes, Persist, Write, outcomes, Known
  <2>2. with \in Store /\ Blank(with)
    BY <1>7, FinishedKeeps DEF OnceInv, SlotInv
  <2>3. ASSUME NEW j \in OneShots, ~mem[j].enabled \/ (e.job = j /\ e.result = "ok")
        PROVE  ~with[j].enabled
    <3>1. j \in Jobs /\ mem[j] \in Job /\ mem[j].enabled = disk[j].enabled
      BY <1>1 DEF OneShots, Store, OnceInv, SlotInv, Agree
    <3>2. CASE j # e.job
      BY <1>1, <2>3, <3>1, <3>2 DEF Store
    <3>3. CASE j = e.job
      <4>1. ~done.enabled
        BY <1>7, <2>3, <3>1, <3>3, ResultDisables
      <4>2. disk[j].stored
        BY <1>7, <3>1, <3>3 DEF OnceInv, SlotInv, CronInv, SameJobs
      <4> HIDE DEF done
      <4> QED BY <1>1, <3>1, <3>3, <4>1, <4>2 DEF Store
    <3> QED BY <3>2, <3>3
  <2> HIDE DEF with
  <2>4. \A j \in Jobs : mem'[j].enabled = with[j].enabled
    BY <2>1, <2>2, MaintainedRepairs DEF Repairs
  <2>5. \A j \in OneShots :
          (~mem[j].enabled \/ \E g \in {e} : g.job = j /\ g.result = "ok") => ~mem'[j].enabled
    BY <2>3, <2>4 DEF OneShots
  <2>6. {e} \in SUBSET runs
    OBVIOUS
  <2> DEFINE E == {e}
             store == Maintained(with)
  <2>7. runs' = Reloaded(runs \ E) /\ Note(store) /\ E \in SUBSET runs /\ Known' = Known
    BY <2>1, <2>6
  <2>8. \A j \in OneShots :
          (~mem[j].enabled \/ \E g \in E : g.job = j /\ g.result = "ok") => ~mem'[j].enabled
    BY <2>5
  <2> HIDE DEF E, store
  <2> QED BY <2>7, <2>8, AppliedOnce
<1>8. CASE ManualFinishes(e) /\ ~mem[e.job].stored
  <2>1. runs' = runs \ {e} /\ mem' = mem /\ Note(disk) /\ Known' = Known
    BY <1>8 DEF ManualFinishes, storeVars, outcomes, Known
  <2>2. ~mem[e.job].enabled
    BY <1>1, <1>8 DEF Blank
  <2> DEFINE E == {e}
  <2>3. runs' = runs \ E /\ E \in SUBSET runs
    BY <2>1
  <2>4. \A j \in OneShots :
          (~mem[j].enabled \/ \E g \in E : g.job = j /\ g.result = "ok") => ~mem'[j].enabled
    BY <2>1, <2>2
  <2> HIDE DEF E
  <2> QED BY <2>1, <2>3, <2>4, AppliedOnce
<1> QED BY <1>3, <1>4, <1>5, <1>6, <1>7, <1>8 DEF Goes

\* The results of a tick, or of the catch-up, which had one run of each job.
LEMMA AppliesOnce == ASSUME OnceInv, TickApplies \/ CatchUpApplies PROVE OnceNext
<1>1. /\ mem \in Store /\ Blank(mem) /\ disk \in Store /\ Blank(disk)
      /\ \A j \in Jobs : mem[j].enabled = disk[j].enabled
  BY InvParts DEF OnceInv, SlotInv, StoresOK, Agree
<1>2. CASE TickApplies
  <2> DEFINE E == RunsOf("tick")
             with == WithResults(disk, E)
  <2>1. /\ runs' = Reloaded(runs \ E) /\ mem' = Maintained(with)
        /\ Note(Maintained(with)) /\ Known' = Known
    BY <1>2 DEF TickApplies, Persist, Write, outcomes, Known
  <2>2. with \in Store /\ Blank(with)
    BY <1>1, ResultsClear
  <2>3. E \in SUBSET runs /\ \A e, f \in E : e.job = f.job => e = f
    BY DEF RunsOf, OnceInv, OnePer
  <2> HIDE DEF E
  <2>4. ASSUME NEW j \in OneShots, ~mem[j].enabled \/ \E e \in E : e.job = j /\ e.result = "ok"
        PROVE  ~with[j].enabled
    <3>1. j \in Jobs
      BY DEF OneShots
    <3> QED BY <1>1, <2>3, <2>4, <3>1, ResultsDisable
  <2> HIDE DEF with
  <2>5. \A j \in Jobs : mem'[j].enabled = with[j].enabled
    BY <2>1, <2>2, MaintainedRepairs DEF Repairs
  <2>6. \A j \in OneShots :
          (~mem[j].enabled \/ \E e \in E : e.job = j /\ e.result = "ok") => ~mem'[j].enabled
    BY <2>4, <2>5 DEF OneShots
  <2> QED BY <2>1, <2>3, <2>6, AppliedOnce
<1>3. CASE CatchUpApplies
  <2> DEFINE E == RunsOf("catchup")
             ran == WithResults(mem, E)
             late == [j \in Jobs |-> IF j \in deferred /\ ran[j].enabled
                                     THEN [ran[j] EXCEPT !.next = "future"] ELSE ran[j]]
  <2>1. /\ runs' = runs \ E /\ mem' = Maintained(late)
        /\ Note(Maintained(late)) /\ Known' = Known
    BY <1>3 DEF CatchUpApplies, Persist, Write, outcomes, Known
  <2>2. ran \in Store /\ Blank(ran)
    BY <1>1, ResultsClear
  <2>3. E \in SUBSET runs /\ \A e, f \in E : e.job = f.job => e = f
    BY DEF RunsOf, OnceInv, OnePer
  <2> HIDE DEF E
  <2>4. ASSUME NEW j \in OneShots, ~mem[j].enabled \/ \E e \in E : e.job = j /\ e.result = "ok"
        PROVE  ~ran[j].enabled
    <3>1. j \in Jobs
      BY DEF OneShots
    <3> QED BY <1>1, <2>3, <2>4, <3>1, ResultsDisable
  <2> HIDE DEF ran
  <2>5. late \in Store /\ \A j \in Jobs : late[j].enabled = ran[j].enabled
    <3>1. \A j \in Jobs : [ran[j] EXCEPT !.next = "future"].enabled = ran[j].enabled
      BY <2>2 DEF Store, Job
    <3> QED BY <2>2, <3>1, LateKeeps
  <2> HIDE DEF late
  <2>6. \A j \in Jobs : mem'[j].enabled = late[j].enabled
    BY <2>1, <2>5, MaintainedRepairs DEF Repairs
  <2>7. \A j \in OneShots :
          (~mem[j].enabled \/ \E e \in E : e.job = j /\ e.result = "ok") => ~mem'[j].enabled
    BY <2>4, <2>5, <2>6 DEF OneShots
  <2> QED BY <2>1, <2>3, <2>7, AppliedOnce
<1> QED BY <1>2, <1>3

LEMMA MarkedEnabled ==
  ASSUME NEW store \in Store, NEW S
  PROVE  \A j \in Jobs : Marked(store, S)[j].enabled = store[j].enabled
<1>1. \A j \in Jobs : [store[j] EXCEPT !.marker = "fresh"].enabled = store[j].enabled
  BY DEF Store, Job
<1> QED BY <1>1 DEF Marked

LEMMA TimerFiresOnce == ASSUME OnceInv, TimerFires PROVE OnceNext
<1> DEFINE due == {j \in Jobs : Runnable(disk[j])}
           store == IF due = {} THEN Maintained(disk) ELSE Marked(disk, due)
<1>1. /\ runs' = Reloaded(runs) \cup Queued("tick", due) /\ tick = "idle"
      /\ mem' = store /\ Note(store) /\ Known' = Known
  BY DEF TimerFires, Persist, Write, outcomes, Known
<1>2. disk \in Store /\ \A j \in Jobs : mem[j].enabled = disk[j].enabled
  BY InvParts DEF OnceInv, SlotInv, StoresOK, Agree
<1>3. due \in SUBSET Jobs /\ \A j \in due : mem[j].enabled /\ disk[j].marker = "none"
  BY <1>2 DEF Runnable
<1>4. \A e \in runs : e.by # "tick"
  BY <1>1, InvParts DEF OnceInv, SlotInv, RunsOK
<1> HIDE DEF due
<1>5. \A j \in Jobs : store[j].enabled = mem[j].enabled
  BY <1>2, MaintainedRepairs, MarkedEnabled DEF Repairs
<1> HIDE DEF store
<1> QED BY <1>1, <1>3, <1>4, <1>5, QueuedOnce

LEMMA CatchUpOnce == ASSUME OnceInv, CatchUp PROVE OnceNext
<1>1. PICK S \in Missed, now \in SUBSET Jobs :
        /\ now \subseteq S
        /\ runs' = runs \cup Queued("catchup", now)
        /\ IF S = {} THEN UNCHANGED storeVars /\ Note(mem) ELSE Persist(Marked(mem, now))
  BY DEF CatchUp
<1>2. phase = "booted" /\ Known' = Known
  BY DEF CatchUp, outcomes, Known
<1>3. \A j \in now : mem[j].enabled /\ mem[j].marker = "none"
  BY <1>1 DEF Missed
<1>4. \A e \in runs : e.by # "catchup"
  BY <1>2, InvParts DEF OnceInv, SlotInv, RunsOK
<1>5. mem' \in {mem, Marked(mem, now)} /\ \E store : Note(store)
  BY <1>1 DEF storeVars, Persist, Write
<1>6. \A j \in Jobs : mem'[j].enabled = mem[j].enabled
  BY <1>5, MarkedEnabled, InvParts DEF OnceInv, SlotInv, StoresOK
<1> QED BY <1>1, <1>2, <1>3, <1>4, <1>5, <1>6, QueuedOnce

LEMMA RestartOnce == ASSUME OnceInv, Restart PROVE OnceNext
<1>1. mem' = Unmarked /\ runs' = {} /\ Known' = Known \ Unapplied
  BY DEF Restart, Write, Known
<1>2. \A j \in Jobs : mem'[j].enabled = mem[j].enabled
  <2>1. \A j \in Jobs : [disk[j] EXCEPT !.marker = "none"].enabled = disk[j].enabled
    BY InvParts DEF OnceInv, SlotInv, StoresOK, Store, Job
  <2> QED BY <1>1, <2>1 DEF Unmarked, OnceInv, SlotInv, Agree
<1>3. Known \subseteq Jobs
  BY KnownJobs
<1>4. Spent'
  BY <1>1, <1>2, <1>3 DEF OnceInv, Spent, Unapplied, Known
<1> QED BY <1>1, <1>4 DEF OnceNext, LateQueued, OnePer, OnceStep

LEMMA OnceStepInv == ASSUME OnceInv, [Next]_vars PROVE OnceNext
<1>1. ASSUME NEW j \in Jobs,
             Add(j) \/ Remove(j) \/ ManualRun(j) \/ TimeComes(j) \/ TwoHoursPass(j)
      PROVE  OnceNext
  BY <1>1, EditsOnce, ManualRunOnce, TimeOnce
<1>2. ASSUME NEW j \in Jobs, NEW patch, Update(j, patch) PROVE OnceNext
  BY <1>2, EditsOnce
<1>3. ASSUME NEW e \in runs, Goes(e) PROVE OnceNext
  BY <1>3, GoesOnce
<1>4. CASE TimerFires \/ TickApplies
  BY <1>4, TimerFiresOnce, AppliesOnce
<1>5. CASE CatchUp \/ CatchUpApplies \/ Restart
  BY <1>5, CatchUpOnce, AppliesOnce, RestartOnce
<1>6. CASE List \/ StartEnds
  BY <1>6, ListOnce
<1>7. CASE TickEnds \/ UNCHANGED vars
  BY <1>7, QuietOnce DEF TickEnds, vars, storeVars, history, outcomes, Known
<1> QED BY <1>1, <1>2, <1>3, <1>4, <1>5, <1>6, <1>7 DEF Next

\* A one-shot that has succeeded is not executed again by itself, until it is edited,
\* unless its marker was cleared under the run or its result was lost in a restart
\* (applyJobResult, collectRunnableJobs, collectMissedJobs, start).
THEOREM OneShotsRunOnce == SafetySpec => OneShotOnce
<1>1. Init => Spent /\ LateQueued /\ OnePer
  BY DEF Init, Spent, LateQueued, OnePer, Known
<1>2. SlotInv /\ OneRun /\ (Spent /\ LateQueued /\ OnePer) /\ [Next]_vars
        => (Spent /\ LateQueued /\ OnePer)'
  BY OnceStepInv DEF OnceInv, OnceNext
<1>3. SlotInv /\ OneRun /\ (Spent /\ LateQueued /\ OnePer) /\ [Next]_vars
        => [\A e \in runs' \ runs :
              (e.stage = "queued" /\ e.job \in succeeded) => e.job \in freed \cup lost]_vars
  BY OnceStepInv DEF OnceInv, OnceNext, OnceStep, Known
<1> QED BY <1>1, <1>2, <1>3, Agreement, OneRunInvariance, PTL DEF SafetySpec, OneShotOnce
=============================================================================
