-------------------------- MODULE TaskEngine_proofs --------------------------
(***************************************************************************)
(* Safety of the task engine for any tasks, clients, limits and bounds:    *)
(* IInv is inductive, the safety properties follow from it, and with it    *)
(* every step maps to a step of TaskPlan.                                  *)
(***************************************************************************)
EXTENDS TaskEngineInv_proofs, FiniteSetTheorems

-----------------------------------------------------------------------------
(* The table.  seq' # seq only where claims, spawns or waits are counted.  *)

LEMMA TypedSeq == TypeOK => seq \in SeqType
BY DEF TypeOK, SeqType

\* completeTask or an updateTaskStatus, followed by handleTaskCompletion.
LEMMA SetAndHandleKeepsTable ==
  ASSUME seq \in SeqType, NEW t \in Tasks, NEW row,
         TableInv([task EXCEPT ![t] = row], seq), SetAndHandle(t, row)
  PROVE  TableInv(task', seq)
BY HandlingKeepsTable DEF SetAndHandle

LEMMA CanFail ==
  ASSUME NEW row, CanMove(row, "failed")
  PROVE  PlainMove(row, "failed") /\ "failed" \in Status
BY DEF PlainMove, Status

LEMMA CreationKeepsTable ==
  ASSUME IInv, NEW t \in Tasks,
         CreateTask(t) \/ CliCreateTask(t) \/ CliAddDependency(t)
  PROVE  TableInv(task', seq')
<1>0. seq \in SeqType /\ TableInv(task, seq)
  BY TypedSeq DEF IInv
<1>1. CASE CreateTask(t)
  <2>1. PICK deps \in SUBSET {d \in Tasks : task[d].status # "absent"}, delayed \in BOOLEAN :
          task' = [task EXCEPT ![t] = Created(deps, delayed)]
    BY <1>1 DEF CreateTask, Set
  <2>2. seq' = seq /\ task[t].status = "absent" /\ deps \in SUBSET Tasks
    BY <1>1 DEF CreateTask
  <2> QED BY <1>0, <2>1, <2>2, CreatedKeepsTable
<1>2. CASE CliCreateTask(t)
  <2>1. /\ task' = [task EXCEPT ![t] = Created({}, FALSE)]
        /\ seq' = seq
        /\ task[t].status = "absent"
    BY <1>2 DEF CliCreateTask, Set
  <2> QED BY <1>0, <2>1, CreatedKeepsTable
<1>3. CASE CliAddDependency(t)
  <2>1. PICK d \in linking[t] : task' = [task EXCEPT ![t] = [task[t] EXCEPT !.deps = @ \cup {d}]]
    BY <1>3 DEF CliAddDependency, Set
  <2>2. seq' = seq /\ t \in CliTasks /\ d \in Tasks
    BY <1>3 DEF CliAddDependency, IInv, LinkingByCli, TypeOK
  <2> QED BY <1>0, <2>1, <2>2, LateDependencyKeepsTable
<1> QED BY <1>1, <1>2, <1>3

LEMMA CancelKeepsTable ==
  ASSUME IInv, CancelObjective \/ \E t \in Tasks : CancelTask(t)
  PROVE  TableInv(task', seq')
<1>0. seq \in SeqType /\ TableInv(task, seq)
  BY TypedSeq DEF IInv
<1>1. CASE CancelObjective
  BY <1>0, <1>1, CancelledKeepsTable DEF CancelObjective
<1>2. ASSUME NEW t \in Tasks, CancelTask(t)
      PROVE  TableInv(task', seq')
  <2>1. /\ task' = [task EXCEPT ![t] = Move(task[t], "cancelled")]
        /\ seq' = seq
    BY <1>2 DEF CancelTask, Set
  <2>2. PlainMove(task[t], "cancelled") /\ "cancelled" \in Status
    BY <1>2 DEF CancelTask, PlainMove, CanMove, LegalTransitions, Status
  <2> QED BY <1>0, <2>1, <2>2, PlainMoveKeepsTable
<1> QED BY <1>1, <1>2

LEMMA ClocksKeepTable ==
  ASSUME IInv, NEW t \in Tasks, ScheduleDue(t) \/ BecomesOverdue(t)
  PROVE  TableInv(task', seq')
<1>0. seq \in SeqType /\ TableInv(task, seq) /\ seq' = seq
  BY TypedSeq DEF IInv, ScheduleDue, BecomesOverdue
<1>1. CASE ScheduleDue(t)
  <2>1. task' = [task EXCEPT ![t] = [task[t] EXCEPT !.delayed = FALSE]]
    BY <1>1 DEF ScheduleDue, Set
  <2>2. TableInv([task EXCEPT ![t] = [task[t] EXCEPT !.delayed = FALSE]], seq)
    BY <1>0, ClockKeepsTable
  <2> QED BY <1>0, <2>1, <2>2
<1>2. CASE BecomesOverdue(t)
  <2>1. task' = [task EXCEPT ![t] = [task[t] EXCEPT !.overdue = TRUE]]
    BY <1>2 DEF BecomesOverdue, Set
  <2>2. TableInv([task EXCEPT ![t] = [task[t] EXCEPT !.overdue = TRUE]], seq)
    BY <1>0, ClockKeepsTable
  <2> QED BY <1>0, <2>1, <2>2
<1> QED BY <1>1, <1>2

LEMMA SweepsKeepTable ==
  ASSUME IInv, SweepStuckTasks \/ SweepExpiredWaits \/ SweepOrphanedWaiting
  PROVE  TableInv(task', seq')
<1>0. seq \in SeqType /\ TableInv(task, seq)
  BY TypedSeq DEF IInv
<1>1. CASE SweepStuckTasks
  <2>0. seq' = seq
    BY <1>1 DEF SweepStuckTasks
  <2>1. ASSUME NEW X, X \subseteq Tasks \X RunIds, StuckTurn(X)
        PROVE  TableInv(task', seq)
    <3>1. CASE task' = task
      BY <1>0, <3>1
    <3>2. ASSUME NEW x \in X,
                 SetAndHandle(x[1], CompleteTask(task[x[1]], x[2], "failed"))
          PROVE  TableInv(task', seq)
      <4>1. x[1] \in Tasks
        BY <2>1
      <4>2. TableInv([task EXCEPT ![x[1]] = CompleteTask(task[x[1]], x[2], "failed")], seq)
        BY <1>0, <4>1, CompleteTaskKeepsTable
      <4> QED BY <1>0, <3>2, <4>1, <4>2, SetAndHandleKeepsTable
    <3> QED BY <2>1, <3>1, <3>2 DEF StuckTurn
  <2>2. {<<t, task[t].run>> : t \in StuckTasks} \subseteq Tasks \X RunIds
    BY <1>0 DEF StuckTasks, WithStatus, TableInv, Row
  <2>3. todo.stuck \subseteq Tasks \X RunIds
    BY DEF IInv, TypeOK
  <2> QED BY <1>1, <2>0, <2>1, <2>2, <2>3 DEF SweepStuckTasks
<1>2. CASE SweepExpiredWaits
  <2>0. seq' = seq
    BY <1>2 DEF SweepExpiredWaits
  <2>1. ASSUME NEW X \in SUBSET Wait, ExpiredTurn(X)
        PROVE  TableInv(task', seq)
    <3>1. CASE task' = task
      BY <1>0, <3>1
    <3>2. ASSUME NEW w \in X, task[w.task].status = "waiting",
                 SetAndHandle(w.task, Move(task[w.task], "failed"))
          PROVE  TableInv(task', seq)
      <4>1. w.task \in Tasks
        BY DEF Wait
      <4>2. PlainMove(task[w.task], "failed") /\ "failed" \in Status
        BY <3>2, CanFail DEF CanMove, LegalTransitions
      <4>3. TableInv([task EXCEPT ![w.task] = Move(task[w.task], "failed")], seq)
        BY <1>0, <4>1, <4>2, PlainMoveKeepsTable
      <4> QED BY <1>0, <3>2, <4>1, <4>3, SetAndHandleKeepsTable
    <3> QED BY <2>1, <3>1, <3>2 DEF ExpiredTurn
  <2>2. \A X \in SUBSET {w \in waits : w.kind.timed} : X \in SUBSET Wait
    BY DEF IInv, TypeOK
  <2>3. todo.expired \in SUBSET Wait
    BY DEF IInv, TypeOK
  <2> QED BY <1>2, <2>0, <2>1, <2>2, <2>3 DEF SweepExpiredWaits
<1>3. CASE SweepOrphanedWaiting
  <2>0. seq' = seq
    BY <1>3 DEF SweepOrphanedWaiting
  <2>1. ASSUME NEW X \in SUBSET Tasks, OrphanTurn(X)
        PROVE  TableInv(task', seq)
    <3>1. CASE task' = task
      BY <1>0, <3>1
    <3>2. ASSUME NEW t \in X, CanMove(task[t], "failed"),
                 SetAndHandle(t, Move(task[t], "failed"))
          PROVE  TableInv(task', seq)
      <4>1. t \in Tasks
        OBVIOUS
      <4>2. TableInv([task EXCEPT ![t] = Move(task[t], "failed")], seq)
        BY <1>0, <3>2, <4>1, CanFail, PlainMoveKeepsTable
      <4> QED BY <1>0, <3>2, <4>1, <4>2, SetAndHandleKeepsTable
    <3> QED BY <2>1, <3>1, <3>2 DEF OrphanTurn
  <2>2. WithStatus(task, {"waiting"}) \in SUBSET Tasks
    BY DEF WithStatus
  <2>3. todo.orphans \in SUBSET Tasks
    BY DEF IInv, TypeOK
  <2> QED BY <1>3, <2>0, <2>1, <2>2, <2>3 DEF SweepOrphanedWaiting
<1> QED BY <1>1, <1>2, <1>3

LEMMA DispatchKeepsTable ==
  ASSUME IInv, Dispatch
  PROVE  TableInv(task', seq')
<1> DEFINE promoted == Promoted(task)
           id == [t \in Tasks |-> <<"claim", t, seq[t].claims + 1>>]
<1>0. seq \in SeqType /\ TableInv(promoted, seq)
  BY TypedSeq, PromotedKeepsTable DEF IInv
<1>1. id \in [Tasks -> RunIds]
  BY <1>0 DEF RunIds, SeqType
<1>2. PICK S \in SUBSET WithStatus(promoted, {"ready"}) :
        /\ task' = [t \in Tasks |-> IF t \in S THEN Claimed(promoted[t], id[t]) ELSE promoted[t]]
        /\ seq' = [t \in Tasks |-> IF t \in S THEN [seq[t] EXCEPT !.claims = @ + 1] ELSE seq[t]]
  BY DEF Dispatch
<1> HIDE DEF promoted
<1>3. task' \in [Tasks -> Row]
  <2>1. \A t \in Tasks : Claimed(promoted[t], id[t]) \in Row
    BY <1>0, <1>1, ClaimedRow DEF TableInv
  <2> QED BY <1>0, <1>2, <2>1 DEF TableInv
<1> HIDE DEF id
<1>4. \A t \in S : t \in Tasks
  BY DEF WithStatus
<1>5. \A t \in S : /\ \E run \in RunIds : task'[t] = Claimed(promoted[t], run)
                  /\ seq'[t].claims = seq[t].claims + 1
  BY <1>0, <1>1, <1>2, <1>4 DEF SeqType
<1>6. \A t \in Tasks \ S : task'[t] = promoted[t] /\ seq'[t] = seq[t]
  BY <1>2
<1>7. ClaimStep(promoted, seq, S, task', seq')
  BY <1>3, <1>5, <1>6 DEF ClaimStep
<1> QED BY <1>0, <1>7, ClaimsKeepTable

LEMMA SpawningKeepsTable ==
  ASSUME IInv, NEW p \in inflight, WorkerStarts(p) \/ SpawnAccepted(p) \/ SpawnFails(p)
  PROVE  TableInv(task', seq')
<1>0. /\ seq \in SeqType
      /\ TableInv(task, seq)
      /\ p \in Spawn
  BY TypedSeq DEF IInv, TypeOK
<1>1. p.task \in Tasks
  BY <1>0 DEF Spawn
<1>2. CASE WorkerStarts(p)
  <2>1. task' = task /\ \A t \in Tasks : seq'[t].claims = seq[t].claims
    BY <1>0, <1>1, <1>2 DEF WorkerStarts, SeqType
  <2> QED BY <1>0, <2>1, OtherCountersKeepTable
<1>3. CASE SpawnAccepted(p)
  <2>1. /\ p.run \in RunIds
        /\ task' = [task EXCEPT ![p.task] = RunUpdated(task[p.task], p.old, p.run)]
        /\ seq' = seq
    BY <1>0, <1>3 DEF SpawnAccepted, Set, Spawn
  <2> QED BY <1>0, <1>1, <2>1, RunUpdatedKeepsTable
<1>4. CASE SpawnFails(p)
  <2>0. seq' = seq
    BY <1>4 DEF SpawnFails
  <2>1. CASE SetAndHandle(p.task, CompleteTask(task[p.task], p.old, "failed"))
    <3>1. TableInv([task EXCEPT ![p.task] = CompleteTask(task[p.task], p.old, "failed")], seq)
      BY <1>0, <1>1, CompleteTaskKeepsTable
    <3> QED BY <1>0, <1>1, <2>0, <2>1, <3>1, SetAndHandleKeepsTable
  <2>2. CASE /\ CanMove(task[p.task], "failed")
             /\ task' = [task EXCEPT ![p.task] = Move(task[p.task], "failed")]
    BY <1>0, <1>1, <2>0, <2>2, CanFail, PlainMoveKeepsTable
  <2>3. CASE task' = [task EXCEPT ![p.task] = task[p.task]]
    BY <1>0, <2>0, <2>3 DEF TableInv
  <2> QED BY <1>4, <2>1, <2>2, <2>3 DEF SpawnFails, Set
<1> QED BY <1>2, <1>3, <1>4

LEMMA WorkersKeepTable ==
  ASSUME IInv, NEW w \in workers, WorkerEnds(w) \/ WaitForEvent(w)
  PROVE  TableInv(task', seq')
<1>0. /\ seq \in SeqType
      /\ TableInv(task, seq)
      /\ w \in RunIds
  BY TypedSeq DEF IInv, TypeOK
<1>1. w[2] \in Tasks
  BY <1>0 DEF RunIds
<1>2. CASE WorkerEnds(w)
  <2>0. seq' = seq
    BY <1>2 DEF WorkerEnds
  <2>1. CASE task' = task
    BY <1>0, <2>0, <2>1
  <2>2. ASSUME NEW outcome \in {"completed", "failed"},
               SetAndHandle(w[2], CompleteTask(task[w[2]], w, outcome))
        PROVE  TableInv(task', seq')
    <3>1. TableInv([task EXCEPT ![w[2]] = CompleteTask(task[w[2]], w, outcome)], seq)
      BY <1>0, <1>1, CompleteTaskKeepsTable
    <3> QED BY <1>0, <1>1, <2>0, <2>2, <3>1, SetAndHandleKeepsTable
  <2> QED BY <1>2, <2>1, <2>2 DEF WorkerEnds
<1>3. CASE WaitForEvent(w)
  <2>1. \A t \in Tasks : seq'[t].claims = seq[t].claims
    BY <1>0, <1>1, <1>3 DEF WaitForEvent, SeqType
  <2>2. TableInv(task, seq')
    BY <1>0, <2>1, OtherCountersKeepTable
  <2>3. CASE task' = task
    BY <2>2, <2>3
  <2>4. CASE task' = [task EXCEPT ![w[2]] = Move(task[w[2]], "waiting")]
    <3>1. PlainMove(task[w[2]], "waiting") /\ "waiting" \in Status
      BY <1>3 DEF WaitForEvent, PlainMove, CanMove, LegalTransitions, Status
    <3>2. TableInv(task', seq)
      BY <1>0, <1>1, <2>4, <3>1, PlainMoveKeepsTable
    <3> QED BY <1>0, <2>1, <3>2, OtherCountersKeepTable
  <2> QED BY <1>3, <2>3, <2>4 DEF WaitForEvent, Set
<1> QED BY <1>2, <1>3

LEMMA ResumeKeepsTable ==
  ASSUME IInv, NEW t \in Tasks, Resume(t)
  PROVE  TableInv(task', seq)
<1>0. seq \in SeqType /\ TableInv(task, seq)
  BY TypedSeq DEF IInv
<1>1. CASE task[t].status = "waiting"
  <2>1. task' = [task EXCEPT ![t] = Move(task[t], "running")]
    BY <1>1 DEF Resume, Set
  <2>2. PlainMove(task[t], "running") /\ "running" \in Status
    BY <1>1 DEF PlainMove, CanMove, LegalTransitions, Status
  <2> QED BY <1>0, <2>1, <2>2, PlainMoveKeepsTable
<1>2. CASE task[t].status # "waiting"
  BY <1>0, <1>2 DEF Resume
<1> QED BY <1>1, <1>2

LEMMA EmittersKeepTable ==
  ASSUME IInv,
         EmitSignal \/ \E t \in Tasks : ApproveTask(t) \/ CliApproveTask(t) \/ RejectTask(t)
  PROVE  TableInv(task', seq')
<1>0. seq \in SeqType /\ TableInv(task, seq)
  BY TypedSeq DEF IInv
<1>1. CASE EmitSignal
  <2>1. seq' = seq /\ (task' = task \/ \E t \in Tasks : Resume(t))
    BY <1>1 DEF EmitSignal, NoResume
  <2> QED BY <1>0, <2>1, ResumeKeepsTable
<1>2. ASSUME NEW t \in Tasks, ApproveTask(t)
      PROVE  TableInv(task', seq')
  <2>1. seq' = seq /\ (task' = task \/ Resume(t))
    BY <1>2 DEF ApproveTask, NoResume
  <2> QED BY <1>0, <2>1, ResumeKeepsTable
<1>3. ASSUME NEW t \in Tasks, CliApproveTask(t)
      PROVE  TableInv(task', seq')
  BY <1>0, <1>3 DEF CliApproveTask
<1>4. ASSUME NEW t \in Tasks, RejectTask(t)
      PROVE  TableInv(task', seq')
  <2>1. /\ seq' = seq
        /\ \/ task' = [task EXCEPT ![t] = task[t]]
           \/ /\ CanMove(task[t], "failed")
              /\ task' = [task EXCEPT ![t] = Move(task[t], "failed")]
    BY <1>4 DEF RejectTask, Set, CanMove, LegalTransitions
  <2>2. CASE task' = [task EXCEPT ![t] = task[t]]
    BY <1>0, <2>1, <2>2 DEF TableInv
  <2>3. CASE /\ CanMove(task[t], "failed")
             /\ task' = [task EXCEPT ![t] = Move(task[t], "failed")]
    BY <1>0, <2>1, <2>3, CanFail, PlainMoveKeepsTable
  <2> QED BY <2>1, <2>2, <2>3
<1> QED BY <1>1, <1>2, <1>3, <1>4

\* Every step of the engine leaves a sound table.
LEMMA NextKeepsTable ==
  ASSUME IInv, [Next]_vars
  PROVE  TableInv(task', seq')
<1>1. CASE Tick
  <2>1. CASE TickStart \/ TickEnd
    BY <2>1 DEF TickStart, TickEnd, IInv
  <2> QED BY <1>1, <2>1, SweepsKeepTable, DispatchKeepsTable DEF Tick
<1>2. CASE Restart
  <2>1. seq \in SeqType /\ TableInv(task, seq)
    BY TypedSeq DEF IInv
  <2> QED BY <1>2, <2>1, RecoveredKeepsTable DEF Restart
<1>3. CASE UNCHANGED vars
  BY <1>3 DEF vars, IInv
<1> QED
  BY <1>1, <1>2, <1>3, CreationKeepsTable, CancelKeepsTable, ClocksKeepTable,
     SpawningKeepsTable, WorkersKeepTable, EmittersKeepTable DEF Next

-----------------------------------------------------------------------------
(* The types of the other variables. *)

EventRows == [name : EventNames, data : Tasks \cup {NoData}, n : Nat]

LEMMA EmitTypes ==
  ASSUME TypeOK, NEW name \in EventNames, NEW data \in Tasks \cup {NoData}, NEW M,
         Emit(name, data, M)
  PROVE  waits' \subseteq Wait /\ events' \subseteq EventRows /\ emitted' \in Nat
<1>1. waits' \subseteq waits /\ emitted' = emitted + 1
  BY DEF Emit
<1>2. events' \subseteq events \cup {[name |-> name, data |-> data, n |-> emitted + 1]}
  BY DEF Emit
<1>3. [name |-> name, data |-> data, n |-> emitted + 1] \in EventRows
  BY DEF TypeOK, EventRows
<1> QED BY <1>1, <1>2, <1>3 DEF TypeOK, EventRows

LEMMA ResumeTypes ==
  ASSUME TypeOK, NEW t \in Tasks, Resume(t) \/ NoResume
  PROVE  inflight' \subseteq Spawn
<1>1. inflight' \subseteq inflight \cup
        {[by |-> "resume", task |-> t, old |-> task[t].run, run |-> NoRun]}
  BY DEF Resume, NoResume
<1>2. [by |-> "resume", task |-> t, old |-> task[t].run, run |-> NoRun] \in Spawn
  BY DEF TypeOK, Row, Spawn
<1> QED BY <1>1, <1>2 DEF TypeOK

LEMMA TickTypes ==
  ASSUME TypeOK, task' \in [Tasks -> Row], Tick
  PROVE  TypeOK'
<1> USE DEF TypeOK, eventVars, tickVars, Phases, NothingTodo
<1>1. CASE TickStart
  BY <1>1, SweepEveryType DEF TickStart
<1>2. CASE SweepStuckTasks
  <2>1. ASSUME NEW X, X \subseteq Tasks \X RunIds, StuckTurn(X)
        PROVE  tick' \in Phases /\ todo' \in [stuck : SUBSET (Tasks \X RunIds),
                                              expired : SUBSET Wait, orphans : SUBSET Tasks]
    BY <2>1 DEF StuckTurn
  <2>2. {<<t, task[t].run>> : t \in StuckTasks} \subseteq Tasks \X RunIds
    BY DEF StuckTasks, WithStatus, Row
  <2>3. todo.stuck \subseteq Tasks \X RunIds
    OBVIOUS
  <2> QED BY <1>2, <2>1, <2>2, <2>3 DEF SweepStuckTasks
<1>3. CASE SweepExpiredWaits
  <2>1. ASSUME NEW X, X \subseteq Wait, ExpiredTurn(X)
        PROVE  /\ waits' \subseteq Wait
               /\ tick' \in Phases
               /\ todo' \in [stuck : SUBSET (Tasks \X RunIds),
                             expired : SUBSET Wait, orphans : SUBSET Tasks]
    BY <2>1 DEF ExpiredTurn
  <2>2. \A X \in SUBSET {w \in waits : w.kind.timed} : X \subseteq Wait
    OBVIOUS
  <2>3. todo.expired \subseteq Wait
    OBVIOUS
  <2> QED BY <1>3, <2>1, <2>2, <2>3 DEF SweepExpiredWaits
<1>4. CASE SweepOrphanedWaiting
  <2>1. ASSUME NEW X, X \subseteq Tasks, OrphanTurn(X)
        PROVE  tick' \in Phases /\ todo' \in [stuck : SUBSET (Tasks \X RunIds),
                                              expired : SUBSET Wait, orphans : SUBSET Tasks]
    BY <2>1 DEF OrphanTurn
  <2>2. WithStatus(task, {"waiting"}) \subseteq Tasks
    BY DEF WithStatus
  <2>3. todo.orphans \subseteq Tasks
    OBVIOUS
  <2> QED BY <1>4, <2>1, <2>2, <2>3 DEF SweepOrphanedWaiting
<1>5. CASE Dispatch
  <2>1. seq' \in SeqType
    BY <1>5 DEF Dispatch, SeqType
  <2>2. \A t \in Tasks : [by |-> "tick", task |-> t, old |-> <<"claim", t, seq[t].claims + 1>>,
                          run |-> NoRun] \in Spawn
    BY DEF Spawn, RunIds
  <2>3. inflight' \subseteq Spawn
    BY <1>5, <2>2 DEF Dispatch, WithStatus
  <2> QED BY <1>5, <2>1, <2>3 DEF Dispatch, SeqType
<1>6. CASE TickEnd
  BY <1>6 DEF TickEnd
<1> QED BY <1>1, <1>2, <1>3, <1>4, <1>5, <1>6 DEF Tick

LEMMA UserTypes ==
  ASSUME TypeOK, task' \in [Tasks -> Row], NEW t \in Tasks,
         \/ CreateTask(t) \/ CliCreateTask(t) \/ CliAddDependency(t) \/ CancelTask(t)
         \/ ApproveTask(t) \/ CliApproveTask(t) \/ RejectTask(t)
         \/ ScheduleDue(t) \/ BecomesOverdue(t)
  PROVE  TypeOK'
<1> USE DEF eventVars, tickVars
<1>1. CASE CreateTask(t) \/ CancelTask(t) \/ ScheduleDue(t) \/ BecomesOverdue(t)
  BY <1>1 DEF CreateTask, CancelTask, ScheduleDue, BecomesOverdue, TypeOK
<1>2. CASE CliCreateTask(t)
  BY <1>2 DEF CliCreateTask, TypeOK
<1>3. CASE CliAddDependency(t)
  BY <1>3 DEF CliAddDependency, TypeOK
<1>4. CASE ApproveTask(t)
  <2>1. inflight' \subseteq Spawn
    BY <1>4, ResumeTypes DEF ApproveTask
  <2>2. waits' \subseteq Wait /\ events' \subseteq EventRows /\ emitted' \in Nat
    <3>1. PICK M \in SUBSET Tasks : Emit("hitl.approve", t, M)
      BY <1>4 DEF ApproveTask
    <3>2. "hitl.approve" \in EventNames /\ t \in Tasks \cup {NoData}
      BY DEF EventNames
    <3> QED BY <3>1, <3>2, EmitTypes
  <2> QED BY <1>4, <2>1, <2>2 DEF ApproveTask, TypeOK, EventRows
<1>5. CASE CliApproveTask(t)
  <2>1. waits' \subseteq Wait /\ events' \subseteq EventRows /\ emitted' \in Nat
    <3>1. PICK M \in SUBSET Tasks : Emit("hitl.approve", t, M)
      BY <1>5 DEF CliApproveTask
    <3>2. "hitl.approve" \in EventNames /\ t \in Tasks \cup {NoData}
      BY DEF EventNames
    <3> QED BY <3>1, <3>2, EmitTypes
  <2> QED BY <1>5, <2>1 DEF CliApproveTask, TypeOK, EventRows
<1>6. CASE RejectTask(t)
  <2>1. waits' \subseteq Wait /\ events' \subseteq EventRows /\ emitted' \in Nat
    <3>1. PICK M \in SUBSET Tasks : Emit("hitl.reject", t, M)
      BY <1>6 DEF RejectTask
    <3>2. "hitl.reject" \in EventNames /\ t \in Tasks \cup {NoData}
      BY DEF EventNames
    <3> QED BY <3>1, <3>2, EmitTypes
  <2> QED BY <1>6, <2>1 DEF RejectTask, TypeOK, EventRows
<1> QED BY <1>1, <1>2, <1>3, <1>4, <1>5, <1>6

LEMMA WorkerTypes ==
  ASSUME TypeOK, task' \in [Tasks -> Row],
         \/ \E p \in inflight : WorkerStarts(p) \/ SpawnAccepted(p) \/ SpawnFails(p)
         \/ \E w \in workers : WorkerEnds(w) \/ WaitForEvent(w)
  PROVE  TypeOK'
<1> USE DEF eventVars, tickVars
<1>1. ASSUME NEW p \in inflight, WorkerStarts(p)
      PROVE  TypeOK'
  <2> DEFINE id == <<"spawn", p.task, seq[p.task].spawns + 1>>
  <2>0. p \in Spawn /\ p.task \in Tasks
    BY DEF TypeOK, Spawn
  <2>1. id \in RunIds
    BY <2>0 DEF TypeOK, RunIds
  <2>2. [p EXCEPT !.run = id] \in Spawn
    BY <2>0, <2>1 DEF Spawn
  <2>3. seq' \in SeqType
    BY <1>1, <2>0 DEF WorkerStarts, TypeOK, SeqType
  <2>4. workers' \subseteq RunIds /\ inflight' \subseteq Spawn
    BY <1>1, <2>1, <2>2 DEF WorkerStarts, TypeOK
  <2> QED BY <1>1, <2>3, <2>4 DEF WorkerStarts, TypeOK, SeqType
<1>2. ASSUME NEW p \in inflight, SpawnAccepted(p) \/ SpawnFails(p)
      PROVE  TypeOK'
  BY <1>2 DEF SpawnAccepted, SpawnFails, TypeOK
<1>3. ASSUME NEW w \in workers, WorkerEnds(w)
      PROVE  TypeOK'
  BY <1>3 DEF WorkerEnds, TypeOK
<1>4. ASSUME NEW w \in workers, WaitForEvent(w)
      PROVE  TypeOK'
  <2>0. w[2] \in Tasks
    BY DEF TypeOK, RunIds
  <2>1. seq' \in SeqType
    BY <1>4, <2>0 DEF WaitForEvent, TypeOK, SeqType
  <2>2. waits' \subseteq Wait
    <3>1. \A kind \in WaitKinds : [task |-> w[2], kind |-> kind, n |-> seq[w[2]].waits + 1] \in Wait
      BY <2>0 DEF TypeOK, Wait
    <3> QED BY <1>4, <3>1 DEF WaitForEvent, TypeOK
  <2>3. events' \subseteq events
    BY <1>4 DEF WaitForEvent
  <2> QED BY <1>4, <2>1, <2>2, <2>3 DEF WaitForEvent, TypeOK, SeqType
<1> QED BY <1>1, <1>2, <1>3, <1>4

LEMMA NextKeepsTypes ==
  ASSUME IInv, [Next]_vars
  PROVE  TypeOK'
<1>0. TypeOK /\ task' \in [Tasks -> Row]
  BY NextKeepsTable DEF IInv, TableInv
<1>1. CASE CancelObjective
  BY <1>0, <1>1 DEF CancelObjective, TypeOK, eventVars, tickVars
<1>2. CASE EmitSignal
  <2>1. inflight' \subseteq Spawn
    BY <1>0, <1>2, ResumeTypes DEF EmitSignal, NoResume, TypeOK
  <2>2. waits' \subseteq Wait /\ events' \subseteq EventRows /\ emitted' \in Nat
    BY <1>0, <1>2, EmitTypes DEF EmitSignal, EventNames
  <2> QED BY <1>0, <1>2, <2>1, <2>2 DEF EmitSignal, TypeOK, EventRows, tickVars
<1>3. CASE Restart
  BY <1>0, <1>3, SweepEveryType DEF Restart, TypeOK, eventVars, Phases, NothingTodo
<1>4. CASE UNCHANGED vars
  BY <1>0, <1>4 DEF vars, TypeOK
<1> QED
  BY <1>0, <1>1, <1>2, <1>3, <1>4, TickTypes, UserTypes, WorkerTypes DEF Next

-----------------------------------------------------------------------------
(* The tick owns the spawns it starts, one for each task it claims. *)

SpawnsInv == TickOwnsSpawns /\ OneDispatchPerTask

\* No new spawn of the tick, and the tick does not move on.
LEMMA SpawnsStay ==
  ASSUME SpawnsInv, tick' = tick, \A p \in inflight' : p \in inflight \/ p.by = "resume"
  PROVE  SpawnsInv'
BY DEF SpawnsInv, TickOwnsSpawns, OneDispatchPerTask

LEMMA NextKeepsSpawns ==
  ASSUME IInv, [Next]_vars
  PROVE  SpawnsInv'
<1>0. SpawnsInv /\ inflight \subseteq Spawn
  BY DEF IInv, SpawnsInv, TypeOK
<1>1. CASE Dispatch
  <2>1. PICK S \in SUBSET Tasks :
          /\ inflight' = inflight \cup
               {[by |-> "tick", task |-> t, old |-> <<"claim", t, seq[t].claims + 1>>,
                 run |-> NoRun] : t \in S}
          /\ tick' = IF S = {} THEN "idle" ELSE "spawning"
    BY <1>1 DEF Dispatch, WithStatus
  <2>2. \A p \in inflight : p.by # "tick"
    BY <1>0, <1>1 DEF Dispatch, SpawnsInv, TickOwnsSpawns
  <2>3. \A p \in inflight' : p.by = "tick" =>
          p = [by |-> "tick", task |-> p.task,
               old |-> <<"claim", p.task, seq[p.task].claims + 1>>, run |-> NoRun]
    BY <2>1, <2>2
  <2>4. OneDispatchPerTask'
    <3>1. SUFFICES ASSUME NEW p \in inflight', NEW q \in inflight',
                          p.by = "tick", q.by = "tick", p.task = q.task
                   PROVE  p = q
      BY DEF OneDispatchPerTask
    <3> QED BY <2>3, <3>1
  <2>5. TickOwnsSpawns'
    BY <2>1, <2>2 DEF TickOwnsSpawns
  <2> QED BY <2>4, <2>5 DEF SpawnsInv
<1>2. CASE TickEnd
  BY <1>0, <1>2 DEF TickEnd, SpawnsInv, TickOwnsSpawns, OneDispatchPerTask
<1>3. CASE TickStart \/ SweepStuckTasks \/ SweepExpiredWaits \/ SweepOrphanedWaiting
  <2>1. inflight' = inflight /\ tick # "spawning"
    BY <1>3 DEF TickStart, SweepStuckTasks, SweepExpiredWaits, SweepOrphanedWaiting
  <2> QED BY <1>0, <2>1 DEF SpawnsInv, TickOwnsSpawns, OneDispatchPerTask
<1>4. ASSUME NEW p \in inflight, WorkerStarts(p)
      PROVE  SpawnsInv'
  <2> DEFINE new == [p EXCEPT !.run = <<"spawn", p.task, seq[p.task].spawns + 1>>]
  <2>1. inflight' = (inflight \ {p}) \cup {new} /\ tick' = tick
    BY <1>4 DEF WorkerStarts, tickVars
  <2>2. new.by = p.by /\ new.task = p.task
    BY <1>0 DEF Spawn
  <2> HIDE DEF new
  <2> QED BY <1>0, <2>1, <2>2 DEF SpawnsInv, TickOwnsSpawns, OneDispatchPerTask
<1>5. CASE \E p \in inflight : SpawnAccepted(p) \/ SpawnFails(p)
  <2>1. tick' = tick /\ inflight' \subseteq inflight
    BY <1>5 DEF SpawnAccepted, SpawnFails, tickVars
  <2> QED BY <1>0, <2>1, SpawnsStay
<1>6. CASE EmitSignal \/ \E t \in Tasks : ApproveTask(t)
  <2>1. tick' = tick /\ (NoResume \/ \E t \in Tasks : Resume(t))
    BY <1>6 DEF EmitSignal, ApproveTask, tickVars
  <2>2. \A p \in inflight' : p \in inflight \/ p.by = "resume"
    BY <2>1 DEF Resume, NoResume
  <2> QED BY <1>0, <2>1, <2>2, SpawnsStay
<1>7. CASE Restart
  BY <1>7 DEF Restart, SpawnsInv, TickOwnsSpawns, OneDispatchPerTask
<1>8. CASE \/ \E t \in Tasks :
                \/ CreateTask(t) \/ CliCreateTask(t) \/ CliAddDependency(t) \/ CancelTask(t)
                \/ CliApproveTask(t) \/ RejectTask(t) \/ ScheduleDue(t) \/ BecomesOverdue(t)
           \/ CancelObjective
           \/ \E w \in workers : WorkerEnds(w) \/ WaitForEvent(w)
           \/ UNCHANGED vars
  <2>1. tick' = tick /\ inflight' = inflight
    BY <1>8 DEF CreateTask, CliCreateTask, CliAddDependency, CancelTask, CliApproveTask,
                RejectTask, ScheduleDue, BecomesOverdue, CancelObjective, WorkerEnds,
                WaitForEvent, vars, tickVars
  <2> QED BY <1>0, <2>1, SpawnsStay
<1> QED BY <1>1, <1>2, <1>3, <1>4, <1>5, <1>6, <1>7, <1>8 DEF Next, Tick

-----------------------------------------------------------------------------
(* No event is left beside a wait that matches it. *)

LEMMA FewerWaitsAndEvents ==
  ASSUME NoLostWakeup, waits' \subseteq waits, events' \subseteq events
  PROVE  NoLostWakeup'
BY DEF NoLostWakeup, Matches

LEMMA EmitKeepsWakeups ==
  ASSUME NoLostWakeup, NEW name, NEW data, NEW M, Emit(name, data, M)
  PROVE  NoLostWakeup'
<1> DEFINE e == [name |-> name, data |-> data, n |-> emitted + 1]
<1>1. CASE events' = events
  BY <1>1, FewerWaitsAndEvents DEF Emit
<1>2. CASE /\ waits' = waits
           /\ events' = events \cup {e}
           /\ \A w \in waits : ~Matches(w, e)
  BY <1>2 DEF NoLostWakeup, Matches
<1> QED BY <1>1, <1>2 DEF Emit

LEMMA NextKeepsWakeups ==
  ASSUME IInv, [Next]_vars
  PROVE  NoLostWakeup'
<1>0. NoLostWakeup
  BY DEF IInv
<1>1. CASE SweepExpiredWaits
  <2>1. waits' \subseteq waits /\ events' = events
    BY <1>1 DEF SweepExpiredWaits, ExpiredTurn
  <2> QED BY <1>0, <2>1, FewerWaitsAndEvents
<1>2. ASSUME NEW w \in workers, WaitForEvent(w)
      PROVE  NoLostWakeup'
  <2>1. PICK kind \in WaitKinds :
          LET wait == [task |-> w[2], kind |-> kind, n |-> seq[w[2]].waits + 1]
          IN  \/ /\ {e \in events : Matches(wait, e)} = {}
                 /\ waits' = waits \cup {wait}
                 /\ events' = events
              \/ waits' = waits /\ events' \subseteq events
    BY <1>2 DEF WaitForEvent
  <2> QED BY <1>0, <2>1 DEF NoLostWakeup, Matches
<1>3. CASE EmitSignal \/ \E t \in Tasks : ApproveTask(t) \/ CliApproveTask(t) \/ RejectTask(t)
  BY <1>0, <1>3, EmitKeepsWakeups DEF EmitSignal, ApproveTask, CliApproveTask, RejectTask
<1>4. CASE \/ \E t \in Tasks :
                \/ CreateTask(t) \/ CliCreateTask(t) \/ CliAddDependency(t) \/ CancelTask(t)
                \/ ScheduleDue(t) \/ BecomesOverdue(t)
           \/ CancelObjective
           \/ TickStart \/ SweepStuckTasks \/ SweepOrphanedWaiting \/ Dispatch \/ TickEnd
           \/ \E p \in inflight : WorkerStarts(p) \/ SpawnAccepted(p) \/ SpawnFails(p)
           \/ \E w \in workers : WorkerEnds(w)
           \/ Restart
           \/ UNCHANGED vars
  <2>1. waits' = waits /\ events' = events
    BY <1>4 DEF CreateTask, CliCreateTask, CliAddDependency, CancelTask, ScheduleDue,
                BecomesOverdue, CancelObjective, TickStart, SweepStuckTasks,
                SweepOrphanedWaiting, Dispatch, TickEnd, WorkerStarts, SpawnAccepted,
                SpawnFails, WorkerEnds, Restart, vars, eventVars
  <2> QED BY <1>0, <2>1, FewerWaitsAndEvents
<1> QED BY <1>1, <1>2, <1>3, <1>4 DEF Next, Tick

-----------------------------------------------------------------------------
(* The theorems. *)

LEMMA NextKeepsLinking ==
  ASSUME IInv, [Next]_vars
  PROVE  LinkingByCli'
<1>0. LinkingByCli /\ linking \in [Tasks -> SUBSET Tasks]
  BY DEF IInv, TypeOK
<1>1. ASSUME NEW t \in Tasks, CliCreateTask(t)
      PROVE  LinkingByCli'
  BY <1>0, <1>1 DEF CliCreateTask, LinkingByCli
<1>2. ASSUME NEW t \in Tasks, CliAddDependency(t)
      PROVE  LinkingByCli'
  BY <1>0, <1>2 DEF CliAddDependency, LinkingByCli
<1>3. CASE linking' = linking
  BY <1>0, <1>3 DEF LinkingByCli
<1>4. \/ \E t \in Tasks : CliCreateTask(t) \/ CliAddDependency(t)
      \/ linking' = linking
  BY DEF Next, Tick, CreateTask, CancelTask, ScheduleDue, BecomesOverdue, ApproveTask,
         CliApproveTask, RejectTask, CancelObjective, TickStart, SweepStuckTasks,
         SweepExpiredWaits, SweepOrphanedWaiting, Dispatch, TickEnd, WorkerStarts,
         SpawnAccepted, SpawnFails, WorkerEnds, WaitForEvent, EmitSignal, Restart, vars
<1> QED BY <1>1, <1>2, <1>3, <1>4

LEMMA InitIInv == Init => IInv
<1> SUFFICES ASSUME Init PROVE IInv
  OBVIOUS
<1> USE DEF Init, Absent
<1>1. TypeOK
  BY SweepEveryType DEF TypeOK, Row, Status, Phases, NothingTodo
<1>2. TableInv(task, seq)
  BY MaxRetriesType DEF TableInv, RunHygiene, ClaimsCounted, DepsGateIn, Row, Status, Released
<1>3. LinkingByCli /\ TickOwnsSpawns /\ OneDispatchPerTask /\ NoLostWakeup
  BY DEF LinkingByCli, TickOwnsSpawns, OneDispatchPerTask, NoLostWakeup
<1> QED BY <1>1, <1>2, <1>3 DEF IInv

LEMMA NextKeepsIInv == IInv /\ [Next]_vars => IInv'
BY NextKeepsTable, NextKeepsTypes, NextKeepsLinking, NextKeepsSpawns, NextKeepsWakeups
   DEF IInv, SpawnsInv

\* The inductive invariant: rows name a run exactly while a worker has them,
\* claims count the attempts, and the tick owns the spawns it started.
THEOREM Invariance == SafetySpec => []IInv
BY InitIInv, NextKeepsIInv, PTL DEF SafetySpec

\* Every variable keeps its type.
THEOREM TypeCorrect == SafetySpec => []TypeOK
<1>1. IInv => TypeOK
  BY DEF IInv
<1> QED BY <1>1, Invariance, PTL

\* A task that was released has all its dependencies completed, through any
\* interleaving of ticks, completions, retries, resumes and restarts.
THEOREM DependenciesGate == SafetySpec => []DepsGate
<1>1. IInv => DepsGate
  BY DEF IInv, TableInv, DepsGate
<1> QED BY <1>1, Invariance, PTL

\* No task is claimed more than maxRetries + 1 times.
THEOREM AttemptsBounded == SafetySpec => []AttemptBudget
<1>1. IInv => AttemptBudget
  BY MaxRetriesType DEF IInv, TypeOK, TableInv, ClaimsCounted, AttemptBudget, Row
<1> QED BY <1>1, Invariance, PTL

\* A running or waiting row always names a run, so that the stuck sweep and the
\* startup recovery can reach it.
THEOREM RunsAreRecorded == SafetySpec => []RunRecorded
<1>1. IInv => RunRecorded
  BY DEF IInv, TableInv, RunHygiene, RunRecorded
<1> QED BY <1>1, Invariance, PTL

\* The tick never has two spawns pending for one task.
THEOREM DispatchedOnce == SafetySpec => []OneDispatchPerTask
<1>1. IInv => OneDispatchPerTask
  BY DEF IInv
<1> QED BY <1>1, Invariance, PTL

\* No event ever lies unconsumed beside a wait it matches.
THEOREM WakeupsAreNotLost == SafetySpec => []NoLostWakeup
<1>1. IInv => NoLostWakeup
  BY DEF IInv
<1> QED BY <1>1, Invariance, PTL

-----------------------------------------------------------------------------
(* What a step may make of a row: the argument for the action properties   *)
(* and for the plan.                                                       *)

\* What becomes of a row r in a step that does not claim it: the row s.
Progress(t, r, s) ==
  \/ s.status = r.status /\ (s.deps = r.deps \/ t \in CliTasks)
  \/ r.status = "absent" /\ s.status \in {"pending", "scheduled"}
  \/ /\ s.deps = r.deps
     /\ \/ r.status \in {"pending", "scheduled"} /\ s.status = "ready"
        \/ r.status = "running" /\ s.status \in {"waiting", "completed", "failed"}
        \/ r.status = "waiting" /\ s.status \in {"running", "failed"}
        \/ r.status \in {"pending", "scheduled", "ready", "waiting"} /\ s.status = "cancelled"
        \/ /\ r.status \in {"running", "waiting", "failed"} /\ s.status = "pending"
           /\ r.retries < MaxRetries[t] /\ s.retries = r.retries + 1

Advance(old, new) == \A t \in Tasks : Progress(t, old[t], new[t])

SameClaims == \A t \in Tasks : seq'[t].claims = seq[t].claims

\* A claim, with the promotion before it.
Started(t) ==
  /\ task[t].status \in {"pending", "scheduled", "ready"}
  /\ task'[t].status = "running"
  /\ task'[t].deps = task[t].deps
  /\ seq'[t].claims = seq[t].claims + 1
  /\ t \notin CliTasks => AllDepsCompleted(task, t)

RowStep(t) ==
  \/ Progress(t, task[t], task'[t]) /\ seq'[t].claims = seq[t].claims
  \/ Started(t)

\* A row that is set to itself, or to the outcome of an attempt.
Outcome(r, s) ==
  /\ s.deps = r.deps /\ s.retries = r.retries
  /\ \/ s.status = r.status
     \/ r.status = "running" /\ s.status = "completed"
     \/ r.status \in {"running", "waiting"} /\ s.status = "failed"

\* updateTaskStatus where it is not a promotion or a claim.
LEMMA PlainMoveAdvances ==
  ASSUME NEW tbl \in [Tasks -> Row], NEW t \in Tasks, NEW s \in Status, PlainMove(tbl[t], s)
  PROVE  Advance(tbl, [tbl EXCEPT ![t] = Move(tbl[t], s)])
<1> DEFINE new == [tbl EXCEPT ![t] = Move(tbl[t], s)]
<1>1. /\ new[t].status = s /\ new[t].deps = tbl[t].deps
      /\ \A u \in Tasks \ {t} : new[u] = tbl[u]
  BY DEF Move, Row
<1> HIDE DEF new
<1>2. Progress(t, tbl[t], new[t])
  BY <1>1 DEF Progress, PlainMove, CanMove, LegalTransitions
<1>3. \A u \in Tasks \ {t} : Progress(u, tbl[u], new[u])
  BY <1>1 DEF Progress
<1> QED BY <1>2, <1>3 DEF Advance, new

\* promoteEligibleTasks and resolveDependents.
LEMMA PromotionAdvances ==
  ASSUME NEW tbl \in [Tasks -> Row], NEW S \in SUBSET Tasks
  PROVE  Advance(tbl, [t \in Tasks |-> IF t \in S /\ Eligible(tbl, t)
                                       THEN Move(tbl[t], "ready") ELSE tbl[t]])
<1> DEFINE new == [t \in Tasks |-> IF t \in S /\ Eligible(tbl, t)
                                   THEN Move(tbl[t], "ready") ELSE tbl[t]]
<1>1. \A t \in Tasks :
        \/ new[t] = tbl[t]
        \/ /\ tbl[t].status \in {"pending", "scheduled"}
           /\ new[t].status = "ready" /\ new[t].deps = tbl[t].deps
  BY DEF Move, Row, Eligible
<1> HIDE DEF new
<1>2. Advance(tbl, new)
  BY <1>1 DEF Advance, Progress
<1> QED BY <1>2 DEF new

\* An outcome, the retry or the release of dependents that handleTaskCompletion adds
\* to it, seen from the table before both.
LEMMA HandlingAdvances ==
  ASSUME TypeOK, NEW t \in Tasks, NEW row \in Row, Outcome(task[t], row), SetAndHandle(t, row)
  PROVE  Advance(task, task')
<1> DEFINE tbl == [task EXCEPT ![t] = row]
<1>0. /\ tbl \in [Tasks -> Row] /\ tbl[t] = row
      /\ \A u \in Tasks \ {t} : tbl[u] = task[u]
      /\ task' = CompletionHandled(tbl, t)
  BY DEF TypeOK, SetAndHandle
<1> HIDE DEF tbl
<1>1. CASE tbl[t].status = "failed" /\ tbl[t].retries < MaxRetries[t]
  <2>1. task' = [tbl EXCEPT ![t] = Retried(tbl[t])]
    BY <1>0, <1>1 DEF CompletionHandled
  <2>2. /\ task'[t].status = "pending"
        /\ task'[t].retries = task[t].retries + 1
        /\ task'[t].deps = task[t].deps
        /\ \A u \in Tasks \ {t} : task'[u] = task[u]
    BY <1>0, <2>1, RetriedRow DEF Outcome
  <2> QED BY <1>0, <1>1, <2>2 DEF Advance, Progress, Outcome
<1>2. CASE tbl[t].status = "completed"
  <2> DEFINE S == {d \in Tasks : t \in tbl[d].deps}
  <2>1. task' = [d \in Tasks |-> IF d \in S /\ Eligible(tbl, d)
                                 THEN Move(tbl[d], "ready") ELSE tbl[d]]
    BY <1>0, <1>2 DEF CompletionHandled, ResolveDependents
  <2> HIDE DEF S
  <2>2. \A d \in Tasks \ {t} : Progress(d, tbl[d], task'[d])
    <3>1. S \in SUBSET Tasks
      BY DEF S
    <3> QED BY <1>0, <2>1, <3>1, PromotionAdvances DEF Advance
  <2>3. task'[t] = row
    BY <1>0, <1>2, <2>1 DEF Eligible
  <2>4. Progress(t, task[t], row)
    BY <1>0, <1>2 DEF Progress, Outcome
  <2> QED BY <1>0, <2>2, <2>3, <2>4 DEF Advance
<1>3. CASE task' = tbl
  BY <1>0, <1>3 DEF Advance, Progress, Outcome
<1> QED BY <1>0, <1>1, <1>2, <1>3 DEF CompletionHandled

\* completeTask leaves the row alone or ends its attempt.
LEMMA CompletionOutcome ==
  ASSUME NEW r \in Row, NEW run, NEW outcome \in {"completed", "failed"}
  PROVE  CompleteTask(r, run, outcome) \in Row /\ Outcome(r, CompleteTask(r, run, outcome))
BY DEF CompleteTask, Owned, Outcome, Row, Status

\* A row that may fail is one in the hands of a worker.
LEMMA FailureOutcome ==
  ASSUME NEW r \in Row, CanMove(r, "failed")
  PROVE  Move(r, "failed") \in Row /\ Outcome(r, Move(r, "failed"))
<1>1. r.status \in {"running", "waiting"}
  BY DEF CanMove, LegalTransitions, Row, Status
<1> QED BY <1>1 DEF Move, Outcome, Row, Status

\* An untouched table, and one in which a row is set to itself.
LEMMA QuietAdvances ==
  ASSUME TypeOK, task' = task \/ \E t \in Tasks : task' = [task EXCEPT ![t] = task[t]]
  PROVE  Advance(task, task')
BY DEF Advance, Progress, TypeOK

\* Creating, linking and cancelling a task, and time passing for it.
LEMMA ClientsAdvance ==
  ASSUME IInv, NEW t \in Tasks,
         CreateTask(t) \/ CliCreateTask(t) \/ CliAddDependency(t) \/ CancelTask(t)
           \/ ScheduleDue(t) \/ BecomesOverdue(t)
  PROVE  Advance(task, task') /\ SameClaims
<1>0. task \in [Tasks -> Row] /\ SameClaims
  BY DEF IInv, TypeOK, SameClaims, CreateTask, CliCreateTask, CliAddDependency, CancelTask,
         ScheduleDue, BecomesOverdue
<1>1. CASE CreateTask(t) \/ CliCreateTask(t)
  <2>1. \E deps \in SUBSET Tasks, delayed \in BOOLEAN :
          task' = [task EXCEPT ![t] = Created(deps, delayed)]
    <3>1. CASE CreateTask(t)
      <4>1. \E deps \in SUBSET {d \in Tasks : task[d].status # "absent"}, delayed \in BOOLEAN :
              task' = [task EXCEPT ![t] = Created(deps, delayed)]
        BY <3>1 DEF CreateTask, Set
      <4> QED BY <4>1
    <3>2. CASE CliCreateTask(t)
      BY <3>2 DEF CliCreateTask, Set
    <3> QED BY <1>1, <3>1, <3>2
  <2>2. task[t].status = "absent"
    BY <1>1 DEF CreateTask, CliCreateTask
  <2>3. /\ task'[t].status \in {"pending", "scheduled"}
        /\ \A u \in Tasks \ {t} : task'[u] = task[u]
    BY <1>0, <2>1 DEF Created, Absent
  <2> QED BY <1>0, <2>2, <2>3 DEF Advance, Progress
<1>2. CASE CliAddDependency(t)
  <2>1. PICK d \in linking[t] : task' = [task EXCEPT ![t] = [task[t] EXCEPT !.deps = @ \cup {d}]]
    BY <1>2 DEF CliAddDependency, Set
  <2>2. t \in CliTasks
    BY <1>2 DEF CliAddDependency, IInv, LinkingByCli
  <2>3. task'[t].status = task[t].status /\ \A u \in Tasks \ {t} : task'[u] = task[u]
    BY <1>0, <2>1 DEF Row
  <2> QED BY <1>0, <2>2, <2>3 DEF Advance, Progress
<1>3. CASE CancelTask(t)
  <2>1. task' = [task EXCEPT ![t] = Move(task[t], "cancelled")]
    BY <1>3 DEF CancelTask, Set
  <2>2. PlainMove(task[t], "cancelled") /\ "cancelled" \in Status
    BY <1>3 DEF CancelTask, PlainMove, CanMove, LegalTransitions, Status
  <2> QED BY <1>0, <2>1, <2>2, PlainMoveAdvances
<1>4. CASE ScheduleDue(t)
  <2>1. task' = [task EXCEPT ![t] = [task[t] EXCEPT !.delayed = FALSE]]
    BY <1>4 DEF ScheduleDue, Set
  <2>2. \A u \in Tasks : task'[u].status = task[u].status /\ task'[u].deps = task[u].deps
    BY <1>0, <2>1 DEF Row
  <2> QED BY <1>0, <2>2 DEF Advance, Progress
<1>5. CASE BecomesOverdue(t)
  <2>1. task' = [task EXCEPT ![t] = [task[t] EXCEPT !.overdue = TRUE]]
    BY <1>5 DEF BecomesOverdue, Set
  <2>2. \A u \in Tasks : task'[u].status = task[u].status /\ task'[u].deps = task[u].deps
    BY <1>0, <2>1 DEF Row
  <2> QED BY <1>0, <2>2 DEF Advance, Progress
<1> QED BY <1>1, <1>2, <1>3, <1>4, <1>5

\* The turns of the three sweeps.
LEMMA SweepsAdvance ==
  ASSUME IInv, SweepStuckTasks \/ SweepExpiredWaits \/ SweepOrphanedWaiting
  PROVE  Advance(task, task') /\ SameClaims
<1>0. task \in [Tasks -> Row] /\ TypeOK /\ SameClaims
  BY DEF IInv, TypeOK, SameClaims, SweepStuckTasks, SweepExpiredWaits, SweepOrphanedWaiting
<1>1. ASSUME NEW t \in Tasks, NEW run,
             SetAndHandle(t, CompleteTask(task[t], run, "failed"))
      PROVE  Advance(task, task')
  BY <1>0, <1>1, CompletionOutcome, HandlingAdvances
<1>2. ASSUME NEW t \in Tasks, CanMove(task[t], "failed"),
             SetAndHandle(t, Move(task[t], "failed"))
      PROVE  Advance(task, task')
  BY <1>0, <1>2, FailureOutcome, HandlingAdvances
<1>3. CASE task' = task
  BY <1>0, <1>3, QuietAdvances
<1>4. CASE SweepStuckTasks
  <2>1. ASSUME NEW X, X \subseteq Tasks \X RunIds, StuckTurn(X)
        PROVE  Advance(task, task')
    BY <1>1, <1>3, <2>1 DEF StuckTurn
  <2>2. {<<t, task[t].run>> : t \in StuckTasks} \subseteq Tasks \X RunIds
    BY <1>0 DEF StuckTasks, WithStatus, Row
  <2>3. todo.stuck \subseteq Tasks \X RunIds
    BY <1>0 DEF TypeOK
  <2> QED BY <1>0, <1>4, <2>1, <2>2, <2>3 DEF SweepStuckTasks
<1>5. CASE SweepExpiredWaits
  <2>1. ASSUME NEW X \in SUBSET Wait, ExpiredTurn(X)
        PROVE  Advance(task, task')
    <3>1. ASSUME NEW w \in X, task[w.task].status = "waiting",
                 SetAndHandle(w.task, Move(task[w.task], "failed"))
          PROVE  Advance(task, task')
      <4>1. w.task \in Tasks /\ CanMove(task[w.task], "failed")
        BY <3>1 DEF Wait, CanMove, LegalTransitions
      <4> QED BY <1>2, <3>1, <4>1
    <3> QED BY <1>3, <2>1, <3>1 DEF ExpiredTurn
  <2>2. \A X \in SUBSET {w \in waits : w.kind.timed} : X \in SUBSET Wait
    BY <1>0 DEF TypeOK
  <2>3. todo.expired \in SUBSET Wait
    BY <1>0 DEF TypeOK
  <2> QED BY <1>0, <1>5, <2>1, <2>2, <2>3 DEF SweepExpiredWaits
<1>6. CASE SweepOrphanedWaiting
  <2>1. ASSUME NEW X \in SUBSET Tasks, OrphanTurn(X)
        PROVE  Advance(task, task')
    BY <1>2, <1>3, <2>1 DEF OrphanTurn
  <2>2. WithStatus(task, {"waiting"}) \in SUBSET Tasks /\ todo.orphans \in SUBSET Tasks
    BY <1>0 DEF WithStatus, TypeOK
  <2> QED BY <1>0, <1>6, <2>1, <2>2 DEF SweepOrphanedWaiting
<1> QED BY <1>4, <1>5, <1>6

\* The answers of the "agent" call.
LEMMA SpawnsAdvance ==
  ASSUME IInv, NEW p \in inflight, WorkerStarts(p) \/ SpawnAccepted(p) \/ SpawnFails(p)
  PROVE  Advance(task, task') /\ SameClaims
<1>0. /\ task \in [Tasks -> Row] /\ TypeOK /\ p.task \in Tasks
      /\ seq \in SeqType
  BY TypedSeq DEF IInv, TypeOK, Spawn
<1>1. CASE WorkerStarts(p)
  <2>1. task' = task /\ SameClaims
    BY <1>0, <1>1 DEF WorkerStarts, SeqType, SameClaims
  <2> QED BY <1>0, <2>1, QuietAdvances
<1>2. CASE SpawnAccepted(p)
  <2>1. task' = [task EXCEPT ![p.task] = RunUpdated(task[p.task], p.old, p.run)] /\ SameClaims
    BY <1>2 DEF SpawnAccepted, Set, SameClaims
  <2>2. \A u \in Tasks : task'[u].status = task[u].status /\ task'[u].deps = task[u].deps
    BY <1>0, <2>1 DEF RunUpdated, Row
  <2> QED BY <2>1, <2>2 DEF Advance, Progress
<1>3. CASE SpawnFails(p)
  <2>0. SameClaims
    BY <1>3 DEF SpawnFails, SameClaims
  <2>1. CASE SetAndHandle(p.task, CompleteTask(task[p.task], p.old, "failed"))
    BY <1>0, <2>0, <2>1, CompletionOutcome, HandlingAdvances
  <2>2. CASE /\ CanMove(task[p.task], "failed")
             /\ task' = [task EXCEPT ![p.task] = Move(task[p.task], "failed")]
    BY <1>0, <2>0, <2>2, CanFail, PlainMoveAdvances
  <2>3. CASE task' = [task EXCEPT ![p.task] = task[p.task]]
    BY <1>0, <2>0, <2>3, QuietAdvances
  <2> QED BY <1>3, <2>1, <2>2, <2>3 DEF SpawnFails, Set
<1> QED BY <1>1, <1>2, <1>3

\* The end of a worker, and its wait for an event.
LEMMA WorkersAdvance ==
  ASSUME IInv, NEW w \in workers, WorkerEnds(w) \/ WaitForEvent(w)
  PROVE  Advance(task, task') /\ SameClaims
<1>0. /\ task \in [Tasks -> Row] /\ TypeOK /\ w[2] \in Tasks
      /\ seq \in SeqType
  BY TypedSeq DEF IInv, TypeOK, RunIds
<1>1. task' = task => Advance(task, task')
  BY <1>0, QuietAdvances
<1>2. CASE WorkerEnds(w)
  <2>1. SameClaims
    BY <1>2 DEF WorkerEnds, SameClaims
  <2>2. ASSUME NEW outcome \in {"completed", "failed"},
               SetAndHandle(w[2], CompleteTask(task[w[2]], w, outcome))
        PROVE  Advance(task, task')
    BY <1>0, <2>2, CompletionOutcome, HandlingAdvances
  <2> QED BY <1>1, <1>2, <2>1, <2>2 DEF WorkerEnds
<1>3. CASE WaitForEvent(w)
  <2>1. SameClaims
    BY <1>0, <1>3 DEF WaitForEvent, SeqType, SameClaims
  <2>2. ASSUME task' = [task EXCEPT ![w[2]] = Move(task[w[2]], "waiting")]
        PROVE  Advance(task, task')
    <3>1. PlainMove(task[w[2]], "waiting") /\ "waiting" \in Status
      BY <1>3 DEF WaitForEvent, PlainMove, CanMove, LegalTransitions, Status
    <3> QED BY <1>0, <2>2, <3>1, PlainMoveAdvances
  <2> QED BY <1>1, <1>3, <2>1, <2>2 DEF WaitForEvent, Set
<1> QED BY <1>2, <1>3

\* Events, approvals and rejections, with the resume they lead to.
LEMMA EmittersAdvance ==
  ASSUME IInv,
         EmitSignal \/ \E t \in Tasks : ApproveTask(t) \/ CliApproveTask(t) \/ RejectTask(t)
  PROVE  Advance(task, task') /\ SameClaims
<1>0. task \in [Tasks -> Row] /\ TypeOK
  BY DEF IInv, TypeOK
<1>1. SameClaims
  BY DEF SameClaims, EmitSignal, ApproveTask, CliApproveTask, RejectTask
<1>2. task' = task => Advance(task, task')
  BY <1>0, QuietAdvances
<1>3. ASSUME NEW t \in Tasks, Resume(t)
      PROVE  Advance(task, task')
  <2>1. CASE task[t].status = "waiting"
    <3>1. task' = [task EXCEPT ![t] = Move(task[t], "running")]
      BY <1>3, <2>1 DEF Resume, Set
    <3>2. PlainMove(task[t], "running") /\ "running" \in Status
      BY <2>1 DEF PlainMove, CanMove, LegalTransitions, Status
    <3> QED BY <1>0, <3>1, <3>2, PlainMoveAdvances
  <2>2. CASE task[t].status # "waiting"
    BY <1>2, <1>3, <2>2 DEF Resume
  <2> QED BY <2>1, <2>2
<1>4. CASE EmitSignal
  <2>1. task' = task \/ \E t \in Tasks : Resume(t)
    BY <1>4 DEF EmitSignal, NoResume
  <2> QED BY <1>1, <1>2, <1>3, <2>1
<1>5. ASSUME NEW t \in Tasks, ApproveTask(t) \/ CliApproveTask(t)
      PROVE  Advance(task, task')
  <2>1. task' = task \/ Resume(t)
    BY <1>5 DEF ApproveTask, CliApproveTask, NoResume
  <2> QED BY <1>2, <1>3, <2>1
<1>6. ASSUME NEW t \in Tasks, RejectTask(t)
      PROVE  Advance(task, task')
  <2>1. \/ task' = [task EXCEPT ![t] = task[t]]
        \/ /\ CanMove(task[t], "failed")
           /\ task' = [task EXCEPT ![t] = Move(task[t], "failed")]
    BY <1>6 DEF RejectTask, Set, CanMove, LegalTransitions
  <2> QED BY <1>0, <2>1, CanFail, PlainMoveAdvances, QuietAdvances
<1> QED BY <1>1, <1>4, <1>5, <1>6

\* cancelObjective, the recovery at the start, and steps that touch no row.
LEMMA TablesAdvance ==
  ASSUME IInv, CancelObjective \/ Restart \/ TickStart \/ TickEnd \/ UNCHANGED vars
  PROVE  Advance(task, task') /\ SameClaims
<1>0. task \in [Tasks -> Row] /\ TypeOK /\ SameClaims
  BY DEF IInv, TypeOK, SameClaims, CancelObjective, Restart, TickStart, TickEnd, vars
<1>1. CASE CancelObjective
  <2>1. \A t \in Tasks :
          \/ task'[t] = task[t]
          \/ /\ task[t].status \in {"pending", "scheduled", "ready", "waiting"}
             /\ task'[t].status = "cancelled" /\ task'[t].deps = task[t].deps
    BY <1>0, <1>1 DEF CancelObjective, Cancelled, Move, Row
  <2> QED BY <1>0, <2>1 DEF Advance, Progress
<1>2. CASE Restart
  <2>1. \A t \in Tasks :
          \/ task'[t] = task[t]
          \/ /\ task[t].status = "running"
             /\ task'[t].status = "failed" /\ task'[t].deps = task[t].deps
    BY <1>0, <1>2 DEF Restart, Recovered, Move, Row
  <2> QED BY <1>0, <2>1 DEF Advance, Progress
<1>3. CASE task' = task
  BY <1>0, <1>3, QuietAdvances
<1> QED BY <1>1, <1>2, <1>3 DEF TickStart, TickEnd, vars

\* The dispatch is the only step that claims: it claims rows that are ready in the
\* promoted table, and their dependencies were completed before the step.
LEMMA DispatchRows ==
  ASSUME IInv, Dispatch, NEW t \in Tasks
  PROVE  RowStep(t)
<1> DEFINE promoted == Promoted(task)
           id == [u \in Tasks |-> <<"claim", u, seq[u].claims + 1>>]
<1>0. task \in [Tasks -> Row] /\ seq \in SeqType /\ TableInv(promoted, seq)
  BY TypedSeq, PromotedKeepsTable DEF IInv, TypeOK
<1>1. /\ promoted[t].deps = task[t].deps
      /\ \A d \in Tasks : promoted[d].status = "completed" => task[d].status = "completed"
      /\ promoted[t].status = "ready" => task[t].status \in {"pending", "scheduled", "ready"}
  BY <1>0 DEF Promoted, Move, Row, Eligible
<1>2. Progress(t, task[t], promoted[t])
  <2>1. promoted = [u \in Tasks |-> IF u \in Tasks /\ Eligible(task, u)
                                    THEN Move(task[u], "ready") ELSE task[u]]
    BY DEF Promoted
  <2> QED BY <1>0, <2>1, PromotionAdvances DEF Advance
<1>3. PICK S \in SUBSET WithStatus(promoted, {"ready"}) :
        /\ task' = [u \in Tasks |-> IF u \in S THEN Claimed(promoted[u], id[u]) ELSE promoted[u]]
        /\ seq' = [u \in Tasks |-> IF u \in S THEN [seq[u] EXCEPT !.claims = @ + 1] ELSE seq[u]]
  BY DEF Dispatch
<1>4. id[t] \in RunIds
  BY <1>0 DEF RunIds, SeqType
<1> HIDE DEF promoted, id
<1>5. CASE t \in S
  <2>1. promoted[t].status = "ready" /\ promoted[t] \in Row
    BY <1>0, <1>5 DEF WithStatus, TableInv
  <2>2. task'[t].status = "running" /\ task'[t].deps = task[t].deps
    BY <1>1, <1>3, <1>4, <1>5, <2>1, ClaimedRow
  <2>3. seq'[t].claims = seq[t].claims + 1
    BY <1>0, <1>3, <1>5 DEF SeqType
  <2>4. t \notin CliTasks => AllDepsCompleted(task, t)
    BY <1>0, <1>1, <2>1 DEF TableInv, DepsGateIn, Released, AllDepsCompleted, Row
  <2> QED BY <1>1, <2>1, <2>2, <2>3, <2>4 DEF RowStep, Started
<1>6. CASE t \notin S
  BY <1>2, <1>3, <1>6 DEF RowStep
<1> QED BY <1>5, <1>6

\* What any step makes of any row.
LEMMA NextRows ==
  ASSUME IInv, [Next]_vars, NEW t \in Tasks
  PROVE  RowStep(t)
<1>1. CASE Advance(task, task') /\ SameClaims
  BY <1>1 DEF Advance, SameClaims, RowStep
<1>2. CASE Dispatch
  BY <1>2, DispatchRows
<1> QED
  BY <1>1, <1>2, ClientsAdvance, SweepsAdvance, SpawnsAdvance, WorkersAdvance,
     EmittersAdvance, TablesAdvance DEF Next, Tick

\* Statuses move along LEGAL_TRANSITIONS, though completeTask, retryTask, the promotions,
\* the recovery and cancelObjective write the column without asking updateTaskStatus.
THEOREM MovesAreLegal == SafetySpec => LegalMoves
<1> DEFINE Legal(t) ==
      LET s == task[t].status
          s1 == task'[t].status
      IN  \/ s1 \in {s} \cup LegalTransitions(s)
          \/ s = "absent" /\ s1 \in {"pending", "scheduled"}
          \/ "ready" \in LegalTransitions(s) /\ s1 = "running"
          \/ /\ "failed" \in LegalTransitions(s)
             /\ s1 = "pending"
             /\ task'[t].retries = task[t].retries + 1
<1>1. ASSUME IInv, [Next]_vars, NEW t \in Tasks
      PROVE  Legal(t)
  BY <1>1, NextRows DEF RowStep, Progress, Started, LegalTransitions
<1>2. IInv /\ [Next]_vars => [\A t \in Tasks : Legal(t)]_vars
  BY <1>1
<1> QED BY <1>2, Invariance, PTL DEF SafetySpec, LegalMoves

-----------------------------------------------------------------------------
(* The limit                                                               *)

\* The sets that Slots counts are finite.
LEMMA WithStatusFinite ==
  ASSUME NEW tbl, NEW S
  PROVE  IsFiniteSet(WithStatus(tbl, S)) /\ Cardinality(WithStatus(tbl, S)) \in Nat
<1>1. WithStatus(tbl, S) \in SUBSET Tasks
  BY DEF WithStatus
<1>2. IsFiniteSet(WithStatus(tbl, S))
  BY <1>1, TasksFinite, FS_Subset
<1> QED BY <1>2, FS_CardinalityType

\* The running rows after a dispatch are those before it and those it claims.
LEMMA DispatchWithinLimit ==
  ASSUME IInv, Dispatch, MaxConcurrent # Unset,
         NEW c \in Tasks, seq'[c].claims > seq[c].claims
  PROVE  Cardinality(WithStatus(task, {"running"}))' <= MaxConcurrent
<1> DEFINE promoted == Promoted(task)
           running == WithStatus(promoted, {"running"})
           id == [u \in Tasks |-> <<"claim", u, seq[u].claims + 1>>]
<1>0. seq \in SeqType /\ promoted \in [Tasks -> Row] /\ MaxConcurrent \in Nat
  BY TypedSeq, PromotedKeepsTable, MaxConcurrentType DEF IInv, TableInv
<1>1. PICK S \in SUBSET WithStatus(promoted, {"ready"}) :
        /\ Cardinality(S) <= Slots(promoted)
        /\ task' = [u \in Tasks |-> IF u \in S THEN Claimed(promoted[u], id[u]) ELSE promoted[u]]
        /\ seq' = [u \in Tasks |-> IF u \in S THEN [seq[u] EXCEPT !.claims = @ + 1] ELSE seq[u]]
  BY DEF Dispatch
<1>2. Slots(promoted) = IF Cardinality(running) >= MaxConcurrent THEN 0
                        ELSE MaxConcurrent - Cardinality(running)
  BY DEF Slots
<1> HIDE DEF promoted, id
<1>3. IsFiniteSet(S) /\ Cardinality(S) \in Nat /\ (Cardinality(S) = 0 => S = {})
  <2>1. IsFiniteSet(S)
    BY <1>1, WithStatusFinite, FS_Subset
  <2> QED BY <2>1, FS_CardinalityType, FS_EmptySet
<1>4. IsFiniteSet(running) /\ Cardinality(running) \in Nat
  BY WithStatusFinite
<1>5. S # {}
  <2>1. S = {} => seq'[c] = seq[c]
    BY <1>1
  <2>2. seq[c].claims \in Nat
    BY <1>0 DEF SeqType
  <2> QED BY <2>1, <2>2
<1> HIDE DEF running
<1>6. Cardinality(S) + Cardinality(running) <= MaxConcurrent
  BY <1>0, <1>1, <1>2, <1>3, <1>4, <1>5
<1>7. WithStatus(task', {"running"}) \subseteq S \cup running
  BY <1>1 DEF running, WithStatus
<1>8. /\ IsFiniteSet(S \cup running)
      /\ Cardinality(S \cup running) <= Cardinality(S) + Cardinality(running)
      /\ Cardinality(S \cup running) \in Nat
  <2>1. /\ IsFiniteSet(S \cup running)
        /\ Cardinality(S \cup running)
             = Cardinality(S) + Cardinality(running) - Cardinality(S \cap running)
    BY <1>3, <1>4, FS_Union
  <2>2. Cardinality(S \cap running) \in Nat
    <3>1. S \cap running \in SUBSET S
      OBVIOUS
    <3> QED BY <1>3, <3>1, FS_Subset, FS_CardinalityType
  <2>3. Cardinality(S \cup running) \in Nat
    BY <2>1, FS_CardinalityType
  <2> QED BY <1>3, <1>4, <2>1, <2>2, <2>3
<1>9. Cardinality(WithStatus(task', {"running"})) <= Cardinality(S \cup running)
  BY <1>7, <1>8, FS_Subset
<1>10. Cardinality(WithStatus(task', {"running"})) \in Nat
  BY WithStatusFinite
<1> QED BY <1>0, <1>3, <1>4, <1>6, <1>8, <1>9, <1>10

\* A claim does not lift the number of running tasks above maxConcurrent, whatever was
\* resumed while the tick was suspended: it counts and claims without an await.
THEOREM ClaimsKeepTheLimit == SafetySpec => ClaimsWithinLimit
<1>1. ASSUME IInv, [Next]_vars, NEW t \in Tasks, seq'[t].claims > seq[t].claims
      PROVE  Dispatch
  <2>1. SameClaims \/ Dispatch
    BY <1>1, ClientsAdvance, SweepsAdvance, SpawnsAdvance, WorkersAdvance,
       EmittersAdvance, TablesAdvance DEF Next, Tick
  <2>2. seq[t].claims \in Nat
    BY <1>1 DEF IInv, TypeOK
  <2> QED BY <1>1, <2>1, <2>2 DEF SameClaims
<1>2. IInv /\ [Next]_vars
        => [(\E t \in Tasks : seq'[t].claims > seq[t].claims) => ConcurrencyLimit']_vars
  BY <1>1, DispatchWithinLimit DEF ConcurrencyLimit
<1> QED BY <1>2, Invariance, PTL DEF SafetySpec, ClaimsWithinLimit

-----------------------------------------------------------------------------
(* The plan                                                                *)

\* Initial states map to the plan's initial state.
LEMMA PlanInit == ASSUME Init PROVE Plan!Init
BY DEF Init, Absent, Plan!Init

\* The attempts that are left, and the claims made.
LEMMA AttemptsLeft ==
  ASSUME IInv, NEW t \in Tasks
  PROVE  /\ seq[t].claims \in Nat /\ task[t].retries \in Nat /\ MaxRetries[t] \in Nat
         /\ task[t].status \in Status
         /\ task[t].status \in {"pending", "scheduled", "ready"}
              => seq[t].claims < MaxRetries[t] + 1
         /\ task[t].retries < MaxRetries[t] => seq[t].claims < MaxRetries[t] + 1
BY MaxRetriesType DEF IInv, TypeOK, TableInv, ClaimsCounted, Row

\* Every step maps, task by task, to a move of the plan or to none.
LEMMA PlanStep ==
  ASSUME IInv, [Next]_vars, NEW t \in Tasks
  PROVE  \/ Plan!Create(t) \/ Plan!Learn(t) \/ Plan!Start(t) \/ Plan!End(t)
         \/ Plan!Retry(t) \/ Plan!Drop(t) \/ Plan!Stay(t)
<1> USE DEF Plan!Moves, Plan!KeepsAttempts, Plan!KeepsNeeds
<1>0. RowStep(t)
  BY NextRows
<1>1. CASE Started(t)
  BY <1>1, AttemptsLeft DEF Started, Plan!Start, AllDepsCompleted, IInv, TypeOK, Row
<1>2. ASSUME Progress(t, task[t], task'[t]), seq'[t].claims = seq[t].claims
      PROVE  \/ Plan!Create(t) \/ Plan!Learn(t) \/ Plan!End(t)
             \/ Plan!Retry(t) \/ Plan!Drop(t) \/ Plan!Stay(t)
  BY <1>2, AttemptsLeft DEF Progress, Plan!Create, Plan!Learn, Plan!End, Plan!Retry,
     Plan!Drop, Plan!Stay
<1> QED BY <1>0, <1>1, <1>2 DEF RowStep

\* The engine implements TaskPlan: dependencies before starts, bounded attempts, done and
\* dropped for good, whatever dispatcher, clients, workers and restarts do.
THEOREM EngineImplementsPlan == SafetySpec => ImplementsPlan
<1>1. IInv /\ [Next]_vars => [Plan!Next]_(Plan!vars)
  BY PlanStep DEF Plan!Next
<1> QED BY <1>1, PlanInit, Invariance, PTL DEF SafetySpec, ImplementsPlan, Plan!Spec
=============================================================================
