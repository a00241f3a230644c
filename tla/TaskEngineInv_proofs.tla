------------------------- MODULE TaskEngineInv_proofs -------------------------
(***************************************************************************)
(* What the store operations (src/tasks/store.ts) make of a table that     *)
(* satisfies TableInv: one lemma per operation, cited by the step proofs   *)
(* of TaskEngine_proofs.                                                   *)
(***************************************************************************)
EXTENDS TaskEngineInv, TLAPS

SeqType == [Tasks -> [claims : Nat, spawns : Nat, waits : Nat]]

\* A move that needs no promotion and no claim: every one of updateTaskStatus
\* outside the dispatcher, completeTask, and the resume of a waiting task.
PlainMove(row, s) ==
  /\ CanMove(row, s)
  /\ s \in {"waiting", "completed", "failed", "cancelled"} \/ row.status = "waiting"

LEMMA PlainMoveKeepsTable ==
  ASSUME NEW tbl, NEW sq \in SeqType, TableInv(tbl, sq), NEW t \in Tasks,
         NEW s \in Status, PlainMove(tbl[t], s)
  PROVE  TableInv([tbl EXCEPT ![t] = Move(tbl[t], s)], sq)
<1> DEFINE new == [tbl EXCEPT ![t] = Move(tbl[t], s)]
<1> USE DEF TableInv, Row
<1>1. /\ new \in [Tasks -> Row]
      /\ new[t] = [tbl[t] EXCEPT !.status = s]
      /\ \A u \in Tasks \ {t} : new[u] = tbl[u]
  BY DEF Move
<1>2. RunHygiene(new)
  BY <1>1 DEF RunHygiene, PlainMove, CanMove, LegalTransitions
<1>3. ClaimsCounted(new, sq)
  BY <1>1 DEF ClaimsCounted, PlainMove, CanMove, LegalTransitions, SeqType
<1>4. DepsGateIn(new)
  BY <1>1 DEF DepsGateIn, AllDepsCompleted, Released, PlainMove, CanMove, LegalTransitions
<1> QED BY <1>1, <1>2, <1>3, <1>4

LEMMA CompleteTaskKeepsTable ==
  ASSUME NEW tbl, NEW sq \in SeqType, TableInv(tbl, sq), NEW t \in Tasks,
         NEW run, NEW outcome \in {"completed", "failed"}
  PROVE  TableInv([tbl EXCEPT ![t] = CompleteTask(tbl[t], run, outcome)], sq)
<1>1. CASE Owned(tbl[t], run)
  <2>1. PlainMove(tbl[t], outcome)
    BY <1>1 DEF Owned, PlainMove, CanMove, LegalTransitions
  <2>2. outcome \in Status
    BY DEF Status
  <2> QED BY <1>1, <2>1, <2>2, PlainMoveKeepsTable DEF CompleteTask, Move
<1>2. CASE ~Owned(tbl[t], run)
  BY <1>2 DEF CompleteTask, TableInv
<1> QED BY <1>1, <1>2

\* Columns that none of the conjuncts of TableInv looks at.
LEMMA ClockKeepsTable ==
  ASSUME NEW tbl, NEW sq \in SeqType, TableInv(tbl, sq), NEW t \in Tasks, NEW b \in BOOLEAN
  PROVE  /\ TableInv([tbl EXCEPT ![t] = [tbl[t] EXCEPT !.delayed = b]], sq)
         /\ TableInv([tbl EXCEPT ![t] = [tbl[t] EXCEPT !.overdue = b]], sq)
<1> USE DEF TableInv, Row
<1>1. ASSUME NEW new, new \in [Tasks -> Row],
             \A u \in Tasks : /\ new[u].status = tbl[u].status
                              /\ new[u].run = tbl[u].run
                              /\ new[u].retries = tbl[u].retries
                              /\ new[u].deps = tbl[u].deps
      PROVE  TableInv(new, sq)
  BY <1>1 DEF RunHygiene, ClaimsCounted, DepsGateIn, AllDepsCompleted
<1> DEFINE new1 == [tbl EXCEPT ![t] = [tbl[t] EXCEPT !.delayed = b]]
           new2 == [tbl EXCEPT ![t] = [tbl[t] EXCEPT !.overdue = b]]
<1>2. /\ new1 \in [Tasks -> Row]
      /\ \A u \in Tasks : /\ new1[u].status = tbl[u].status
                          /\ new1[u].run = tbl[u].run
                          /\ new1[u].retries = tbl[u].retries
                          /\ new1[u].deps = tbl[u].deps
  OBVIOUS
<1>3. /\ new2 \in [Tasks -> Row]
      /\ \A u \in Tasks : /\ new2[u].status = tbl[u].status
                          /\ new2[u].run = tbl[u].run
                          /\ new2[u].retries = tbl[u].retries
                          /\ new2[u].deps = tbl[u].deps
  OBVIOUS
<1> HIDE DEF new1, new2
<1>4. TableInv(new1, sq) /\ TableInv(new2, sq)
  BY <1>1, <1>2, <1>3
<1> QED BY <1>4 DEF new1, new2

LEMMA RunUpdatedKeepsTable ==
  ASSUME NEW tbl, NEW sq \in SeqType, TableInv(tbl, sq), NEW t \in Tasks,
         NEW old, NEW new \in RunIds
  PROVE  TableInv([tbl EXCEPT ![t] = RunUpdated(tbl[t], old, new)], sq)
<1> DEFINE tbl2 == [tbl EXCEPT ![t] = RunUpdated(tbl[t], old, new)]
<1>1. CASE Owned(tbl[t], old)
  <2>1. /\ tbl2 \in [Tasks -> Row]
        /\ tbl2[t] = [tbl[t] EXCEPT !.run = new]
        /\ \A u \in Tasks \ {t} : tbl2[u] = tbl[u]
    BY <1>1 DEF TableInv, Row, RunUpdated
  <2>2. /\ tbl[t].status = "running"
        /\ tbl2[t].run = new
        /\ \A u \in Tasks : /\ tbl2[u].status = tbl[u].status
                            /\ tbl2[u].retries = tbl[u].retries
                            /\ tbl2[u].deps = tbl[u].deps
    BY <1>1, <2>1 DEF Owned, TableInv, Row
  <2> HIDE DEF tbl2
  <2>3. RunHygiene(tbl2)
    BY <2>1, <2>2, NoRunIsNoRunId DEF RunHygiene, TableInv
  <2>4. ClaimsCounted(tbl2, sq) /\ DepsGateIn(tbl2)
    BY <2>2 DEF ClaimsCounted, DepsGateIn, AllDepsCompleted, TableInv, Row
  <2> QED BY <2>1, <2>3, <2>4 DEF TableInv, tbl2
<1>2. CASE ~Owned(tbl[t], old)
  BY <1>2 DEF RunUpdated, TableInv
<1> QED BY <1>1, <1>2

LEMMA PromotionKeepsTable ==
  ASSUME NEW tbl, NEW sq \in SeqType, TableInv(tbl, sq), NEW S \in SUBSET Tasks
  PROVE  TableInv([t \in Tasks |-> IF t \in S /\ Eligible(tbl, t)
                                   THEN Move(tbl[t], "ready") ELSE tbl[t]], sq)
<1> DEFINE new == [t \in Tasks |-> IF t \in S /\ Eligible(tbl, t)
                                   THEN Move(tbl[t], "ready") ELSE tbl[t]]
<1>1. /\ new \in [Tasks -> Row]
      /\ \A t \in Tasks :
           /\ \/ new[t].status = tbl[t].status
              \/ Eligible(tbl, t) /\ new[t].status = "ready"
           /\ new[t].run = tbl[t].run
           /\ new[t].retries = tbl[t].retries
           /\ new[t].deps = tbl[t].deps
  BY DEF TableInv, Row, Status, Move
<1> HIDE DEF new
<1>2. RunHygiene(new)
  BY <1>1 DEF RunHygiene, Eligible, TableInv
<1>3. ClaimsCounted(new, sq)
  BY <1>1 DEF ClaimsCounted, Eligible, TableInv, Row, SeqType
<1>4. DepsGateIn(new)
  <2>1. \A t \in Tasks : AllDepsCompleted(tbl, t) => AllDepsCompleted(new, t)
    BY <1>1 DEF AllDepsCompleted, Eligible, TableInv, Row
  <2> QED BY <1>1, <2>1 DEF DepsGateIn, Eligible, TableInv
<1> QED BY <1>1, <1>2, <1>3, <1>4 DEF TableInv, new

LEMMA PromotedKeepsTable ==
  ASSUME NEW tbl, NEW sq \in SeqType, TableInv(tbl, sq)
  PROVE  TableInv(Promoted(tbl), sq)
<1>1. Promoted(tbl) = [t \in Tasks |-> IF t \in Tasks /\ Eligible(tbl, t)
                                       THEN Move(tbl[t], "ready") ELSE tbl[t]]
  BY DEF Promoted
<1> QED BY <1>1, PromotionKeepsTable

LEMMA ResolveKeepsTable ==
  ASSUME NEW tbl, NEW sq \in SeqType, TableInv(tbl, sq), NEW t \in Tasks
  PROVE  TableInv(ResolveDependents(tbl, t), sq)
<1> DEFINE S == {d \in Tasks : t \in tbl[d].deps}
<1>1. ResolveDependents(tbl, t) =
        [d \in Tasks |-> IF d \in S /\ Eligible(tbl, d) THEN Move(tbl[d], "ready") ELSE tbl[d]]
  BY DEF ResolveDependents
<1>2. S \in SUBSET Tasks
  OBVIOUS
<1> HIDE DEF S
<1> QED BY <1>1, <1>2, PromotionKeepsTable

LEMMA RetriedRow ==
  ASSUME NEW row \in Row
  PROVE  /\ Retried(row) \in Row
         /\ Retried(row).status = "pending"
         /\ Retried(row).run = NoRun
         /\ Retried(row).retries = row.retries + 1
         /\ Retried(row).deps = row.deps
<1> DEFINE row1 == [row EXCEPT !.status = "pending"]
           row2 == [row1 EXCEPT !.retries = row.retries + 1]
           row3 == [row2 EXCEPT !.delayed = TRUE]
           row4 == [row3 EXCEPT !.run = NoRun]
<1>1. row1 \in Row /\ row1.status = "pending" /\ row1.deps = row.deps
  BY DEF Row, Status
<1> HIDE DEF row1
<1>2. /\ row2 \in Row /\ row2.status = "pending" /\ row2.deps = row.deps
      /\ row2.retries = row.retries + 1
  BY <1>1 DEF Row
<1> HIDE DEF row2
<1>3. /\ row3 \in Row /\ row3.status = "pending" /\ row3.deps = row.deps
      /\ row3.retries = row.retries + 1
  BY <1>2 DEF Row
<1> HIDE DEF row3
<1>4. /\ row4 \in Row /\ row4.status = "pending" /\ row4.deps = row.deps
      /\ row4.retries = row.retries + 1 /\ row4.run = NoRun
  BY <1>3 DEF Row
<1> HIDE DEF row4
<1>5. Retried(row) = [row4 EXCEPT !.overdue = FALSE]
  BY DEF Retried, row1, row2, row3, row4
<1> QED BY <1>4, <1>5 DEF Row

\* handleTaskCompletion keeps the table sound whatever the status of its task.
LEMMA HandlingKeepsTable ==
  ASSUME NEW tbl, NEW sq \in SeqType, TableInv(tbl, sq), NEW t \in Tasks
  PROVE  TableInv(CompletionHandled(tbl, t), sq)
<1>1. CASE tbl[t].status = "failed" /\ tbl[t].retries < MaxRetries[t]
  <2> DEFINE new == [tbl EXCEPT ![t] = Retried(tbl[t])]
  <2>0. CompletionHandled(tbl, t) = new
    BY <1>1 DEF CompletionHandled
  <2>1. /\ new \in [Tasks -> Row]
        /\ new[t].status = "pending"
        /\ new[t].run = NoRun
        /\ new[t].retries = tbl[t].retries + 1
        /\ \A u \in Tasks \ {t} : new[u] = tbl[u]
        /\ \A u \in Tasks : new[u].deps = tbl[u].deps
    BY RetriedRow DEF TableInv
  <2> HIDE DEF new
  <2>2. RunHygiene(new)
    BY <2>1 DEF RunHygiene, TableInv
  <2>3. ClaimsCounted(new, sq)
    BY <1>1, <2>1, MaxRetriesType DEF ClaimsCounted, TableInv, Row, SeqType
  <2>4. DepsGateIn(new)
    BY <1>1, <2>1 DEF DepsGateIn, AllDepsCompleted, Released, TableInv, Row
  <2> QED BY <2>0, <2>1, <2>2, <2>3, <2>4 DEF TableInv
<1>2. CASE tbl[t].status = "completed"
  BY <1>2, ResolveKeepsTable DEF CompletionHandled
<1>3. CASE /\ ~(tbl[t].status = "failed" /\ tbl[t].retries < MaxRetries[t])
           /\ tbl[t].status # "completed"
  BY <1>3 DEF CompletionHandled
<1> QED BY <1>1, <1>2, <1>3

LEMMA ClaimedRow ==
  ASSUME NEW row \in Row, NEW run \in RunIds
  PROVE  /\ Claimed(row, run) \in Row
         /\ Claimed(row, run).status = "running"
         /\ Claimed(row, run).run \in RunIds
         /\ Claimed(row, run).retries = row.retries
         /\ Claimed(row, run).deps = row.deps
<1> DEFINE row1 == [row EXCEPT !.status = "running"]
           row2 == [row1 EXCEPT !.run = run]
<1>1. /\ row1 \in Row /\ row1.status = "running"
      /\ row1.deps = row.deps /\ row1.retries = row.retries
  BY DEF Row, Status
<1> HIDE DEF row1
<1>2. /\ row2 \in Row /\ row2.status = "running" /\ row2.run = run
      /\ row2.deps = row.deps /\ row2.retries = row.retries
  BY <1>1 DEF Row
<1> HIDE DEF row2
<1>3. Claimed(row, run) = [row2 EXCEPT !.overdue = FALSE]
  BY DEF Claimed, row1, row2
<1> QED BY <1>2, <1>3 DEF Row

\* The ready tasks in S are claimed and counted, no other task is touched.
ClaimStep(tbl, sq, S, new, sq2) ==
  /\ S \subseteq WithStatus(tbl, {"ready"})
  /\ new \in [Tasks -> Row]
  /\ \A t \in S : /\ \E run \in RunIds : new[t] = Claimed(tbl[t], run)
                  /\ sq2[t].claims = sq[t].claims + 1
  /\ \A t \in Tasks \ S : new[t] = tbl[t] /\ sq2[t] = sq[t]

LEMMA ClaimsKeepTable ==
  ASSUME NEW tbl, NEW sq \in SeqType, TableInv(tbl, sq),
         NEW S, NEW new, NEW sq2, ClaimStep(tbl, sq, S, new, sq2)
  PROVE  TableInv(new, sq2)
<1> USE DEF ClaimStep
<1>1. \A t \in S : t \in Tasks /\ tbl[t].status = "ready"
  BY DEF WithStatus
<1>2. \A t \in S : /\ new[t].status = "running"
                  /\ new[t].run \in RunIds
                  /\ new[t].retries = tbl[t].retries
                  /\ new[t].deps = tbl[t].deps
  <2> TAKE t \in S
  <2>1. PICK run \in RunIds : new[t] = Claimed(tbl[t], run)
    OBVIOUS
  <2> QED BY <1>1, <2>1, ClaimedRow DEF TableInv
<1>3. \A t \in Tasks : new[t].deps = tbl[t].deps /\ new[t].retries = tbl[t].retries
  BY <1>2
<1>4. RunHygiene(new)
  BY <1>1, <1>2, NoRunIsNoRunId DEF RunHygiene, TableInv
<1>5. ClaimsCounted(new, sq2)
  BY <1>1, <1>2, <1>3 DEF ClaimsCounted, TableInv, Row, SeqType
<1>6. DepsGateIn(new)
  <2>1. \A t \in Tasks : tbl[t].status = "completed" => new[t].status = "completed"
    BY <1>1
  <2> QED BY <1>1, <1>3, <2>1 DEF DepsGateIn, AllDepsCompleted, Released, TableInv, Row
<1> QED BY <1>4, <1>5, <1>6 DEF TableInv

LEMMA CreatedKeepsTable ==
  ASSUME NEW tbl, NEW sq \in SeqType, TableInv(tbl, sq), NEW t \in Tasks,
         tbl[t].status = "absent", NEW deps \in SUBSET Tasks, NEW delayed \in BOOLEAN
  PROVE  TableInv([tbl EXCEPT ![t] = Created(deps, delayed)], sq)
<1> DEFINE new == [tbl EXCEPT ![t] = Created(deps, delayed)]
<1>1. /\ new \in [Tasks -> Row]
      /\ new[t].status \in {"pending", "scheduled"}
      /\ new[t].run = NoRun
      /\ new[t].retries = 0
      /\ \A u \in Tasks \ {t} : new[u] = tbl[u]
  BY DEF TableInv, Row, Status, Created, Absent
<1> HIDE DEF new
<1>2. RunHygiene(new)
  BY <1>1 DEF RunHygiene, TableInv
<1>3. ClaimsCounted(new, sq)
  BY <1>1, MaxRetriesType DEF ClaimsCounted, TableInv, Row, SeqType
<1>4. DepsGateIn(new)
  BY <1>1 DEF DepsGateIn, AllDepsCompleted, Released, TableInv, Row
<1> QED BY <1>1, <1>2, <1>3, <1>4 DEF TableInv, new

\* A late dependency concerns tasks of the CLI only, which DepsGate exempts.
LEMMA LateDependencyKeepsTable ==
  ASSUME NEW tbl, NEW sq \in SeqType, TableInv(tbl, sq), NEW t \in CliTasks, NEW d \in Tasks
  PROVE  TableInv([tbl EXCEPT ![t] = [tbl[t] EXCEPT !.deps = @ \cup {d}]], sq)
<1> DEFINE new == [tbl EXCEPT ![t] = [tbl[t] EXCEPT !.deps = @ \cup {d}]]
<1>1. /\ new \in [Tasks -> Row]
      /\ \A u \in Tasks : /\ new[u].status = tbl[u].status
                          /\ new[u].run = tbl[u].run
                          /\ new[u].retries = tbl[u].retries
      /\ \A u \in Tasks \ CliTasks : new[u].deps = tbl[u].deps
  BY CliTasksType DEF TableInv, Row
<1> HIDE DEF new
<1>2. RunHygiene(new) /\ ClaimsCounted(new, sq)
  BY <1>1 DEF RunHygiene, ClaimsCounted, TableInv
<1>3. DepsGateIn(new)
  BY <1>1 DEF DepsGateIn, AllDepsCompleted, TableInv, Row
<1> QED BY <1>1, <1>2, <1>3 DEF TableInv, new

LEMMA CancelledKeepsTable ==
  ASSUME NEW tbl, NEW sq \in SeqType, TableInv(tbl, sq)
  PROVE  TableInv(Cancelled(tbl), sq)
<1>1. /\ Cancelled(tbl) \in [Tasks -> Row]
      /\ \A t \in Tasks :
           /\ \/ Cancelled(tbl)[t] = tbl[t]
              \/ /\ tbl[t].status \in {"pending", "scheduled", "ready", "waiting"}
                 /\ Cancelled(tbl)[t].status = "cancelled"
           /\ Cancelled(tbl)[t].run = tbl[t].run
           /\ Cancelled(tbl)[t].retries = tbl[t].retries
           /\ Cancelled(tbl)[t].deps = tbl[t].deps
  BY DEF TableInv, Row, Status, Cancelled, Move
<1>2. RunHygiene(Cancelled(tbl))
  BY <1>1 DEF RunHygiene, TableInv
<1>3. ClaimsCounted(Cancelled(tbl), sq)
  BY <1>1 DEF ClaimsCounted, TableInv, Row, SeqType
<1>4. DepsGateIn(Cancelled(tbl))
  BY <1>1 DEF DepsGateIn, AllDepsCompleted, Released, TableInv, Row
<1> QED BY <1>1, <1>2, <1>3, <1>4 DEF TableInv

LEMMA RecoveredKeepsTable ==
  ASSUME NEW tbl, NEW sq \in SeqType, TableInv(tbl, sq)
  PROVE  TableInv(Recovered(tbl), sq)
<1>1. /\ Recovered(tbl) \in [Tasks -> Row]
      /\ \A t \in Tasks :
           /\ \/ Recovered(tbl)[t] = tbl[t]
              \/ tbl[t].status = "running" /\ Recovered(tbl)[t].status = "failed"
           /\ Recovered(tbl)[t].run = tbl[t].run
           /\ Recovered(tbl)[t].retries = tbl[t].retries
           /\ Recovered(tbl)[t].deps = tbl[t].deps
  BY DEF TableInv, Row, Status, Recovered, Move
<1>2. RunHygiene(Recovered(tbl))
  BY <1>1 DEF RunHygiene, TableInv
<1>3. ClaimsCounted(Recovered(tbl), sq)
  BY <1>1 DEF ClaimsCounted, TableInv, Row, SeqType
<1>4. DepsGateIn(Recovered(tbl))
  BY <1>1 DEF DepsGateIn, AllDepsCompleted, Released, TableInv, Row
<1> QED BY <1>1, <1>2, <1>3, <1>4 DEF TableInv

\* Of the counters only the claims matter.
LEMMA OtherCountersKeepTable ==
  ASSUME NEW tbl, NEW sq \in SeqType, TableInv(tbl, sq),
         NEW sq2, \A t \in Tasks : sq2[t].claims = sq[t].claims
  PROVE  TableInv(tbl, sq2)
BY DEF TableInv, ClaimsCounted

=============================================================================
