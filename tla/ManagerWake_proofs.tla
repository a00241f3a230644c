------------------------- MODULE ManagerWake_proofs -------------------------
(***************************************************************************)
(* Proofs about ManagerWake, for any tasks, objectives, groups, triggers,  *)
(* retries, number of slots and number of restarts.                        *)
(***************************************************************************)
EXTENDS ManagerWake, FiniteSetTheorems, TLAPS

Row == [status : {"absent", "completed", "failed", "cancelled"} \cup Open,
        due : BOOLEAN, retries : Nat, run : Runs]

Table == [Tasks -> Row]

Ticks == {"idle", "begun", "stuck", "swept", "waits", "look", "spawning"}

-----------------------------------------------------------------------------
(* The inductive invariant *)

\* A sweep that threw has been under way for a turn: the handler of that turn
\* nudged, or its wake is still awaited.
TurnNudged == tick = "waits" => (nudged \/ SweepAwaits)

\* The look of this tick has left nothing to do, and what came up since was
\* followed by a nudge.
LookSufficed ==
  ((tick = "idle" \/ (tick = "spawning" /\ ~nudged)) /\ waking = {} /\ ~silent)
    => (Ready = {} \/ Free <= 0)

NudgeInv == TurnNudged /\ LookSufficed

\* A finished objective is one the history has noticed, through the handler or
\* behind it.
NewsInv ==
  \A o \in Objectives : news[o] # "due" /\ (Finished(row, o) => news[o] # "open")

\* No retry is left: the row keeps its status for good.
Dead(tbl, t) ==
  \/ tbl[t].status \in {"completed", "cancelled"}
  \/ tbl[t].status = "failed" /\ tbl[t].retries >= MaxRetries[t]

\* A task the manager was asked about is dead.  As long as its spawn can still fail,
\* and the completion be handled again, the window is open, or the spawn has outlived
\* it; what was asked about twice has no spawn left that could fail.
AskedInv ==
  \A t \in Tasks :
    /\ asked[t] <= 2
    /\ asked[t] = 2 => t \in outlived /\ t \notin spawning
    /\ asked[t] >= 1 => Dead(row, t)
    /\ (asked[t] >= 1 /\ t \in spawning) => (ObjectiveOf[t] \in window \/ t \in outlived)
    /\ t \in spawning => row[t].status # "absent"

IInv == TypeOK /\ NudgeInv /\ NewsInv /\ AskedInv

-----------------------------------------------------------------------------
(* Rows and tables *)

LEMMA ObjectiveType ==
  ASSUME NEW t \in Tasks
  PROVE  ObjectiveOf[t] \in Objectives
BY DEF Objectives

LEMMA TypeFacts ==
  ASSUME TypeOK
  PROVE  row \in Table /\ tick \in Ticks /\ spawning \subseteq Tasks
BY DEF TypeOK, Table, Row, Ticks

\* What completeTask and updateTaskStatus make of the table.
LEMMA EndedFacts ==
  ASSUME TypeOK, NEW t \in Tasks,
         NEW s \in {"absent", "completed", "failed", "cancelled"} \cup Open
  PROVE  /\ Ended(t, s) \in Table
         /\ Ended(t, s)[t].status = s
         /\ Ended(t, s)[t].retries = row[t].retries
         /\ Ended(t, s)[t].run = row[t].run
         /\ Ended(t, s)[t].due = row[t].due
         /\ \A u \in Tasks \ {t} : Ended(t, s)[u] = row[u]
BY TypeFacts DEF Ended, Table, Row

LEMMA RetriedFacts ==
  ASSUME NEW r \in Row
  PROVE  /\ Retried(r) \in Row
         /\ Retried(r).status = "pending"
         /\ Retried(r).due = FALSE
<1> DEFINE n == r.retries + 1
<1>1. n \in Nat /\ NoRun \in Runs
  BY DEF Row, NoRun, Runs
<1> HIDE DEF n
<1>2. [r EXCEPT !.status = "pending", !.due = FALSE, !.retries = n, !.run = NoRun] \in Row
  BY <1>1 DEF Row, Open
<1>3. Retried(r) \in Row
  BY <1>2 DEF Retried, n
<1>4. Retried(r).status = "pending" /\ Retried(r).due = FALSE
  BY DEF Retried, Row
<1> QED BY <1>3, <1>4

LEMMA RunUpdatedFacts ==
  ASSUME TypeOK, NEW t \in Tasks, NEW old \in Runs
  PROVE  /\ RunUpdated(t, old) \in Table
         /\ \A u \in Tasks : /\ RunUpdated(t, old)[u].status = row[u].status
                             /\ RunUpdated(t, old)[u].retries = row[u].retries
                             /\ RunUpdated(t, old)[u].due = row[u].due
BY TypeFacts DEF RunUpdated, Table, Row, Runs

\* What is said of the objectives and of dead rows depends on statuses only.
LEMMA StaysUnfinished ==
  ASSUME NEW a, NEW b,
         \A t \in Tasks : a[t].status \in Open => b[t].status \in Open,
         \A t \in Tasks : a[t].status = "absent" => b[t].status \in {"absent"} \cup Open,
         NEW o, Finished(b, o)
  PROVE  Finished(a, o)
BY DEF Finished

-----------------------------------------------------------------------------
(* The parts of a step *)

LEMMA NudgeFacts ==
  ASSUME TypeOK, NEW at \in Ticks, NudgeAt(at)
  PROVE  /\ tick' \in Ticks /\ nudged' \in BOOLEAN
         /\ at = "idle" => tick' = "begun"
         /\ at # "idle" => tick' = at /\ nudged'
BY DEF NudgeAt, TypeOK, Ticks

LEMMA NoteType ==
  ASSUME TypeOK, NEW S, NEW what \in {"due", "told", "dropped", "quiet"}, Note(S, what)
  PROVE  news' \in [Objectives -> {"open", "due", "told", "dropped", "quiet"}]
BY DEF Note, TypeOK

\* The history misses no objective when S holds all that this step finishes.
LEMMA NoteNews ==
  ASSUME TypeOK, NewsInv, NEW S, NEW what \in {"due", "told", "dropped", "quiet"},
         Note(S, what), what = "due" => S = {},
         \A o \in Objectives : Finished(row', o) => (o \in S \/ Finished(row, o))
  PROVE  NewsInv'
<1> SUFFICES ASSUME NEW o \in Objectives
             PROVE  news'[o] # "due" /\ (Finished(row', o) => news'[o] # "open")
  BY DEF NewsInv, Finished
<1>1. CASE ~Finished(row', o)
  BY <1>1 DEF Note, NewsInv
<1>2. CASE Finished(row', o) /\ o \in S
  BY <1>2 DEF Note, NewsInv
<1>3. CASE Finished(row', o) /\ o \notin S
  <2>1. news[o] # "open" /\ news[o] # "due"
    BY <1>3 DEF NewsInv
  <2> QED BY <1>3, <2>1 DEF Note
<1> QED BY <1>1, <1>2, <1>3

LEMMA UnchangedNews ==
  ASSUME NewsInv, UNCHANGED news,
         \A o \in Objectives : Finished(row', o) => Finished(row, o)
  PROVE  NewsInv'
BY DEF NewsInv

-----------------------------------------------------------------------------
(* The handler *)

\* Of the reasons to wake, the last two say something of t itself.
LEMMA GroupDoneStatus ==
  ASSUME NEW tbl, NEW t \in Tasks, GroupDone(tbl, GroupOf[t])
  PROVE  tbl[t].status \in {"absent", "completed", "cancelled"}
BY DEF GroupDone

LEMMA FinishedStatus ==
  ASSUME NEW tbl, NEW t \in Tasks, Finished(tbl, ObjectiveOf[t])
  PROVE  tbl[t].status \notin Open
BY DEF Finished

LEMMA HandleType ==
  ASSUME TypeOK, NEW t \in Tasks, NEW tbl \in Table, NEW by \in Callers, NEW at \in Ticks,
         Handle(tbl, t, by, at)
  PROVE  /\ row' \in Table
         /\ tick' \in Ticks /\ (at # "idle" => tick' = at)
         /\ nudged' \in BOOLEAN
         /\ waking' \subseteq [task : Tasks, by : Callers]
         /\ window' \subseteq Objectives /\ outlived' \subseteq Tasks
         /\ news' \in [Objectives -> {"open", "due", "told", "dropped", "quiet"}]
         /\ asked' \in [Tasks -> Nat]
<1> DEFINE o == ObjectiveOf[t]
           retry == tbl[t].status = "failed" /\ tbl[t].retries < MaxRetries[t]
           wake == ~retry /\ ShouldWake(tbl, t)
<1>1. row' \in Table
  <2>1. [tbl EXCEPT ![t] = Retried(tbl[t])] \in Table
    BY RetriedFacts DEF Table
  <2> QED BY <2>1 DEF Handle
<1>2. CASE /\ waking' = waking \cup {[task |-> t, by |-> by]}
           /\ window' = window \cup {o}
           /\ asked' = [asked EXCEPT ![t] = @ + 1]
           /\ UNCHANGED outlived
           /\ Note({o}, "told")
           /\ tick' = at /\ UNCHANGED nudged
  <2>1. asked' \in [Tasks -> Nat]
    BY <1>2 DEF TypeOK
  <2> QED BY <1>1, <1>2, <2>1, NoteType, ObjectiveType DEF TypeOK
<1>3. CASE /\ NudgeAt(at)
           /\ Note(IF wake THEN {o} ELSE {}, "dropped")
           /\ UNCHANGED wakeVars
  BY <1>1, <1>3, NudgeFacts, NoteType DEF TypeOK, wakeVars
<1> QED BY <1>2, <1>3 DEF Handle

\* The handler ends with a nudge or with a wake that ends with one.
LEMMA HandleNudges ==
  ASSUME TypeOK, NEW t \in Tasks, NEW tbl, NEW by \in Callers, NEW at \in Ticks,
         Handle(tbl, t, by, at)
  PROVE  \/ /\ tick' = at /\ UNCHANGED nudged
            /\ \E h \in waking' : h.by = by
         \/ /\ NudgeAt(at) /\ UNCHANGED waking
<1> DEFINE h == [task |-> t, by |-> by]
<1>1. h.by = by
  OBVIOUS
<1> HIDE DEF h
<1>2. \/ waking' = waking \cup {h} /\ tick' = at /\ UNCHANGED nudged
      \/ NudgeAt(at) /\ UNCHANGED waking
  BY DEF Handle, wakeVars, h
<1> QED BY <1>1, <1>2

\* Whatever the handler does with t, an objective it finishes is one it wakes the
\* manager for, or drops in the window: Finished is among the reasons to wake.
LEMMA HandleNews ==
  ASSUME TypeOK, NewsInv, NEW t \in Tasks, NEW tbl \in Table, NEW by \in Callers,
         NEW at \in Ticks, Handle(tbl, t, by, at),
         \A u \in Tasks \ {t} : tbl[u] = row[u],
         tbl # row => row[t].status \in Open
  PROVE  NewsInv'
<1> DEFINE o == ObjectiveOf[t]
           retry == tbl[t].status = "failed" /\ tbl[t].retries < MaxRetries[t]
           wake == ~retry /\ ShouldWake(tbl, t)
           S == IF wake THEN {o} ELSE {}
<1>1. CASE retry
  <2>1. row' = [tbl EXCEPT ![t] = Retried(tbl[t])]
    BY <1>1 DEF Handle
  <2>2. \A u \in Tasks \ {t} : row'[u] = row[u]
    BY <2>1 DEF Table
  <2>3. row'[t].status = "pending"
    BY <2>1, RetriedFacts DEF Table
  <2>4. \A p \in Objectives : Finished(row', p) => Finished(row, p)
    BY <2>2, <2>3, StaysUnfinished DEF Open
  <2>5. Note({}, "dropped")
    BY <1>1 DEF Handle
  <2> QED BY <2>4, <2>5, NoteNews
<1>2. CASE ~retry
  <2>1. row' = tbl
    BY <1>2 DEF Handle
  <2>2. ASSUME NEW p \in Objectives, Finished(row', p), ~Finished(row, p)
        PROVE  p \in S
    <3>1. p = o
      BY <2>1, <2>2 DEF Finished
    <3>2. ShouldWake(tbl, t)
      BY <2>1, <2>2, <3>1 DEF ShouldWake
    <3> QED BY <1>2, <3>1, <3>2
  <2>3. Note(S, "told") \/ Note(S, "dropped")
    BY <1>2 DEF Handle
  <2> QED BY <2>2, <2>3, NoteNews
<1> QED BY <1>1, <1>2

\* The manager is asked about t when nothing can bring t back, and when it was asked
\* before only by a spawn that has outlived the window and fails now.
LEMMA HandleAsks ==
  ASSUME TypeOK, AskedInv, NEW t \in Tasks, NEW tbl \in Table, NEW by \in Callers,
         NEW at \in Ticks, Handle(tbl, t, by, at),
         \A u \in Tasks \ {t} : tbl[u] = row[u],
         tbl[t].status # "absent",
         tbl # row => row[t].status \in Open,
         tbl = row => t \in spawning /\ t \notin spawning',
         spawning' \subseteq spawning
  PROVE  AskedInv'
<1> DEFINE o == ObjectiveOf[t]
           retry == tbl[t].status = "failed" /\ tbl[t].retries < MaxRetries[t]
           wake == ~retry /\ ShouldWake(tbl, t)
<1>1. \A u \in Tasks \ {t} : row'[u] = row[u]
  BY DEF Handle, Table
<1>2. row'[t].status # "absent"
  BY RetriedFacts DEF Handle, Table
<1>3. Dead(row, t) => Dead(row', t)
  <2>1. ASSUME Dead(row, t) PROVE tbl = row
    BY <2>1 DEF Dead, Open
  <2>2. ASSUME Dead(row, t) PROVE row' = row
    BY <2>1, <2>2, TypeFacts, ColumnsType DEF Handle, Dead, Table, Row
  <2> QED BY <2>2
<1>4. CASE UNCHANGED wakeVars
  BY <1>1, <1>2, <1>3, <1>4 DEF AskedInv, Dead, wakeVars
<1>5. CASE /\ wake /\ ~WithinWindow(o)
           /\ window' = window \cup {o}
           /\ asked' = [asked EXCEPT ![t] = @ + 1]
           /\ UNCHANGED outlived
  <2>1. row' = tbl
    BY <1>5 DEF Handle
  <2>2. Dead(row', t)
    <3>1. \/ tbl[t].status \in {"failed", "completed", "cancelled"}
          \/ tbl[t].status \notin Open
      BY <1>5, GroupDoneStatus, FinishedStatus DEF ShouldWake
    <3> QED BY <1>5, <2>1, <3>1, ColumnsType DEF Dead, Table, Row
  <2>3. \/ asked[t] = 0
        \/ asked[t] = 1 /\ t \in outlived /\ t \notin spawning'
    <3>1. o \notin window
      BY <1>5 DEF WithinWindow
    <3>2. CASE tbl = row
      BY <3>1, <3>2 DEF AskedInv, TypeOK
    <3>3. CASE tbl # row
      BY <3>3 DEF AskedInv, Dead, Open, TypeOK
    <3> QED BY <3>2, <3>3
  <2>4. asked'[t] = asked[t] + 1 /\ \A u \in Tasks \ {t} : asked'[u] = asked[u]
    BY <1>5 DEF TypeOK
  <2>5. window' = window \cup {o} /\ outlived' = outlived /\ asked[t] \in Nat
    BY <1>5 DEF TypeOK
  <2> HIDE DEF o
  <2>6. ASSUME NEW u \in Tasks \ {t}
        PROVE  /\ asked'[u] <= 2
               /\ asked'[u] = 2 => u \in outlived' /\ u \notin spawning'
               /\ asked'[u] >= 1 => Dead(row', u)
               /\ (asked'[u] >= 1 /\ u \in spawning')
                    => (ObjectiveOf[u] \in window' \/ u \in outlived')
               /\ u \in spawning' => row'[u].status # "absent"
    BY <1>1, <2>4, <2>5 DEF AskedInv, Dead
  <2>7. /\ asked'[t] <= 2 /\ asked'[t] >= 1
        /\ asked'[t] = 2 => t \in outlived' /\ t \notin spawning'
    BY <2>3, <2>4, <2>5
  <2>8. ObjectiveOf[t] \in window'
    BY <2>5 DEF o
  <2> QED BY <1>2, <2>2, <2>6, <2>7, <2>8 DEF AskedInv
<1> QED BY <1>4, <1>5 DEF Handle

-----------------------------------------------------------------------------
(* Types *)

LEMMA ClientTypes ==
  ASSUME TypeOK, NEW t \in Tasks,
         \/ CreateTask(t) \/ CancelTask(t) \/ Due(t) \/ WaitForEvent(t)
         \/ Resume(t) \/ RejectTask(t) \/ WorkerEnds(t)
  PROVE  TypeOK'
<1> USE DEF tickVars, loopVars, wakeVars, Table, Row
<1>1. tick \in Ticks
  BY TypeFacts
<1>2. CASE CreateTask(t)
  <2>1. row' \in Table
    <3>1. PICK due \in BOOLEAN : row' = [row EXCEPT ![t].status = "pending", ![t].due = due]
      BY <1>2 DEF CreateTask
    <3>2. \A tbl \in Table : [tbl EXCEPT ![t].status = "pending"] \in Table
      BY DEF Open
    <3>3. \A tbl \in Table : [tbl EXCEPT ![t].due = due] \in Table
      OBVIOUS
    <3> QED BY <3>1, <3>2, <3>3, TypeFacts
  <2>2. news' \in [Objectives -> {"open", "due", "told", "dropped", "quiet"}]
    BY <1>2, NoteType DEF CreateTask, NothingNew
  <2>3. /\ tick' \in Ticks /\ nudged' \in BOOLEAN /\ silent' \in BOOLEAN
        /\ (tick # "idle" => tick' = tick)
    BY <1>1, <1>2, NudgeFacts DEF CreateTask, Nudge, TypeOK
  <2> QED BY <1>2, <2>1, <2>2, <2>3 DEF CreateTask, TypeOK, Ticks
<1>3. CASE CancelTask(t)
  BY <1>3, EndedFacts, NoteType DEF CancelTask, TypeOK, Quietly
<1>4. CASE Due(t)
  BY <1>4 DEF Due, TypeOK
<1>5. CASE WaitForEvent(t)
  BY <1>5, EndedFacts DEF WaitForEvent, TypeOK, Open
<1>6. CASE Resume(t)
  <2>1. [task |-> t, old |-> row[t].run] \in [task : Tasks, old : Runs]
    BY DEF TypeOK
  <2>2. row' \in Table
    BY <1>6, EndedFacts DEF Resume, Open
  <2> QED BY <1>1, <1>6, <2>1, <2>2, NudgeFacts DEF Resume, Nudge, TypeOK, Ticks
<1>7. CASE RejectTask(t)
  BY <1>7, EndedFacts, NoteType DEF RejectTask, FailedQuietly, Quietly, TypeOK
<1>8. CASE WorkerEnds(t)
  <2>1. PICK status \in {"completed", "failed"} : Handle(Ended(t, status), t, "end", tick)
    BY <1>8 DEF WorkerEnds
  <2>2. Ended(t, status) \in Table
    BY EndedFacts
  <2> HIDE DEF Table, Row
  <2>3. /\ row' \in Table /\ tick' \in Ticks /\ (tick # "idle" => tick' = tick)
        /\ nudged' \in BOOLEAN
        /\ waking' \subseteq [task : Tasks, by : Callers]
        /\ window' \subseteq Objectives /\ outlived' \subseteq Tasks
        /\ news' \in [Objectives -> {"open", "due", "told", "dropped", "quiet"}]
        /\ asked' \in [Tasks -> Nat]
    BY <1>1, <2>1, <2>2, HandleType DEF Callers
  <2> QED BY <1>8, <2>3 DEF WorkerEnds, TypeOK, Ticks, Table, Row
<1> QED BY <1>2, <1>3, <1>4, <1>5, <1>6, <1>7, <1>8

LEMMA TurnTypes ==
  ASSUME TypeOK, NEW X \in SUBSET Tasks, NEW status \in Open,
         NEW at \in {"stuck", "waits"}, NEW next \in {"swept", "look"},
         Turn(X, status, at, next),
         UNCHANGED <<spawning, resuming, silent, crashes>>, spawning = {}
  PROVE  TypeOK'
<1> USE DEF wakeVars
<1>1. CASE tick' = next /\ snapshot' = {} /\ UNCHANGED <<row, nudged, wakeVars, news>>
  BY <1>1 DEF TypeOK
<1>2. ASSUME NEW t \in X, NEW skipped \in SUBSET X,
             Handle(Ended(t, "failed"), t, "sweep", at), snapshot' = X \ ({t} \cup skipped)
      PROVE  TypeOK'
  <2>1. Ended(t, "failed") \in Table
    BY EndedFacts
  <2>2. /\ row' \in Table /\ tick' \in Ticks /\ tick' = at
        /\ nudged' \in BOOLEAN
        /\ waking' \subseteq [task : Tasks, by : Callers]
        /\ window' \subseteq Objectives /\ outlived' \subseteq Tasks
        /\ news' \in [Objectives -> {"open", "due", "told", "dropped", "quiet"}]
        /\ asked' \in [Tasks -> Nat]
    BY <1>2, <2>1, HandleType DEF Callers, Ticks
  <2> QED BY <1>2, <2>2 DEF TypeOK, Ticks, Table, Row
<1> QED BY <1>1, <1>2 DEF Turn

LEMMA TickTypes ==
  ASSUME TypeOK, Timer \/ Sweep \/ Look \/ TickEnd
  PROVE  TypeOK'
<1> USE DEF loopVars, tickVars, wakeVars
<1>1. CASE Timer
  BY <1>1, TypeFacts, NudgeFacts DEF Timer, Nudge, TypeOK, Ticks
<1>2. CASE Sweep
  <2>1. spawning = {} /\ snapshot \subseteq Tasks
    BY <1>2 DEF Sweep, TypeOK
  <2>2. UNCHANGED <<spawning, resuming, silent, crashes>>
    BY <1>2 DEF Sweep
  <2>3. \E X \in SUBSET Tasks : \/ Turn(X, "running", "stuck", "swept")
                                \/ Turn(X, "waiting", "waits", "look")
    BY <1>2, <2>1 DEF Sweep, With
  <2> QED BY <2>1, <2>2, <2>3, TurnTypes DEF Open
<1>3. CASE Look
  <2>1. PICK S \in SUBSET Ready :
          /\ row' = [t \in Tasks |->
                       IF t \in S THEN [row[t] EXCEPT !.status = "running",
                                           !.run = [kind |-> "claim", n |-> row[t].retries]]
                                  ELSE row[t]]
          /\ spawning' = S
    BY <1>3 DEF Look
  <2>2. \A t \in Tasks : [kind |-> "claim", n |-> row[t].retries] \in Runs
    BY DEF TypeOK, Runs
  <2>3. row' \in Table
    <3>1. ASSUME NEW r \in Row, NEW run \in Runs
          PROVE  [r EXCEPT !.status = "running", !.run = run] \in Row
      BY DEF Row, Open
    <3> DEFINE run(t) == [kind |-> "claim", n |-> row[t].retries]
    <3>2. \A t \in Tasks : run(t) \in Runs
      BY <2>2
    <3>3. row' = [t \in Tasks |-> IF t \in S THEN [row[t] EXCEPT !.status = "running", !.run = run(t)]
                                             ELSE row[t]]
      BY <2>1
    <3> HIDE DEF run
    <3> QED BY <3>1, <3>2, <3>3, TypeFacts DEF Table
  <2>4. S \subseteq Tasks
    BY DEF Ready, With
  <2> QED BY <1>3, <2>1, <2>3, <2>4 DEF Look, TypeOK, Table, Row
<1>4. CASE TickEnd
  BY <1>4 DEF TickEnd, TypeOK
<1> QED BY <1>1, <1>2, <1>3, <1>4

LEMMA SpawnTypes ==
  ASSUME TypeOK, NEW t \in Tasks, OrphanTurn(t) \/ SpawnAccepted(t) \/ SpawnFails(t)
  PROVE  TypeOK'
<1> USE DEF loopVars, tickVars, wakeVars
<1>1. CASE OrphanTurn(t)
  <2>1. CASE Handle(Ended(t, "failed"), t, "sweep", tick) /\ snapshot' = snapshot \ {t}
    <3>1. Ended(t, "failed") \in Table /\ tick \in Ticks /\ tick = "waits"
      BY <1>1, EndedFacts, TypeFacts DEF OrphanTurn
    <3>2. /\ row' \in Table /\ tick' = "waits"
          /\ nudged' \in BOOLEAN
          /\ waking' \subseteq [task : Tasks, by : Callers]
          /\ window' \subseteq Objectives /\ outlived' \subseteq Tasks
          /\ news' \in [Objectives -> {"open", "due", "told", "dropped", "quiet"}]
          /\ asked' \in [Tasks -> Nat]
      BY <2>1, <3>1, HandleType DEF Callers
    <3> QED BY <1>1, <2>1, <3>1, <3>2 DEF OrphanTurn, TypeOK, Table, Row
  <2>2. CASE snapshot' = {} /\ tick' = "spawning" /\ UNCHANGED <<row, nudged, wakeVars, news>>
    BY <1>1, <2>2 DEF OrphanTurn, TypeOK
  <2> QED BY <1>1, <2>1, <2>2 DEF OrphanTurn
<1>2. CASE SpawnAccepted(t)
  <2>1. row[t].run \in Runs
    BY DEF TypeOK
  <2>2. row' \in Table
    BY <1>2, <2>1, RunUpdatedFacts, TypeFacts DEF SpawnAccepted
  <2> QED BY <1>2, <2>2 DEF SpawnAccepted, TypeOK, Table, Row
<1>3. CASE SpawnFails(t)
  <2> DEFINE tbl == IF Claim(t) THEN Ended(t, "failed") ELSE row
  <2>1. tbl \in Table /\ tick \in Ticks /\ tick = "spawning"
    BY <1>3, EndedFacts, TypeFacts DEF SpawnFails, TypeOK
  <2>2. /\ row' \in Table /\ tick' = "spawning"
        /\ nudged' \in BOOLEAN
        /\ waking' \subseteq [task : Tasks, by : Callers]
        /\ window' \subseteq Objectives /\ outlived' \subseteq Tasks
        /\ news' \in [Objectives -> {"open", "due", "told", "dropped", "quiet"}]
        /\ asked' \in [Tasks -> Nat]
    BY <1>3, <2>1, HandleType DEF SpawnFails, Callers
  <2> QED BY <1>3, <2>1, <2>2 DEF SpawnFails, TypeOK, Table, Row
<1> QED BY <1>1, <1>2, <1>3

LEMMA OtherTypes ==
  ASSUME TypeOK,
         \/ \E o \in Objectives : CancelObjective(o) \/ WindowCloses(o)
         \/ \E p \in resuming : ResumeAccepted(p) \/ ResumeFails(p)
         \/ \E h \in waking : WakeSettles(h)
         \/ Restart
  PROVE  TypeOK'
<1> USE DEF loopVars, tickVars, wakeVars
<1>1. ASSUME NEW o \in Objectives, CancelObjective(o) PROVE TypeOK'
  <2>1. row' \in Table
    BY <1>1 DEF CancelObjective, TypeOK, Table, Row
  <2> QED BY <1>1, <2>1, NoteType DEF CancelObjective, Quietly, TypeOK, Table, Row
<1>2. ASSUME NEW o \in Objectives, WindowCloses(o) PROVE TypeOK'
  BY <1>2 DEF WindowCloses, TypeOK
<1>3. ASSUME NEW p \in resuming, ResumeAccepted(p) PROVE TypeOK'
  <2>1. p.task \in Tasks /\ p.old \in Runs /\ tick \in Ticks
    BY TypeFacts DEF TypeOK
  <2>2. row' \in Table
    BY <1>3, <2>1, RunUpdatedFacts DEF ResumeAccepted
  <2> QED BY <1>3, <2>1, <2>2, NudgeFacts DEF ResumeAccepted, Nudge, TypeOK, Table, Row, Ticks
<1>4. ASSUME NEW p \in resuming, ResumeFails(p) PROVE TypeOK'
  <2>1. p.task \in Tasks
    BY DEF TypeOK
  <2>2. Ended(p.task, "failed") \in Table
    BY <2>1, EndedFacts
  <2>3. resuming' \subseteq [task : Tasks, old : Runs]
    BY <1>4 DEF ResumeFails, TypeOK
  <2>4. CASE FailedQuietly(p.task)
    BY <2>2, <2>3, <2>4, NoteType DEF FailedQuietly, Quietly, TypeOK, Table, Row
  <2>5. CASE UNCHANGED <<row, loopVars, tickVars, wakeVars, silent, news, crashes>>
    BY <2>3, <2>5 DEF TypeOK
  <2> QED BY <1>4, <2>4, <2>5 DEF ResumeFails
<1>5. ASSUME NEW h \in waking, WakeSettles(h) PROVE TypeOK'
  BY <1>5, TypeFacts, NudgeFacts DEF WakeSettles, Nudge, TypeOK, Ticks
<1>6. CASE Restart
  <2>1. row' \in Table
    BY <1>6 DEF Restart, TypeOK, Table, Row
  <2>2. news' \in [Objectives -> {"open", "due", "told", "dropped", "quiet"}]
    BY <1>6, NoteType DEF Restart
  <2>3. crashes' \in Nat
    BY <1>6 DEF Restart, TypeOK
  <2>4. window' \subseteq Objectives
    BY <1>6 DEF Restart
  <2>5. /\ tick' = "begun" /\ nudged' = FALSE /\ snapshot' = {} /\ spawning' = {}
        /\ resuming' = {} /\ waking' = {} /\ UNCHANGED <<silent, asked, outlived>>
    BY <1>6 DEF Restart
  <2> QED BY <2>1, <2>2, <2>3, <2>4, <2>5 DEF TypeOK, Table, Row
<1> QED BY <1>1, <1>2, <1>3, <1>4, <1>5, <1>6

LEMMA TypeStep ==
  ASSUME TypeOK, [Next]_vars
  PROVE  TypeOK'
<1>1. CASE UNCHANGED vars
  BY <1>1 DEF vars, TypeOK
<1> QED BY <1>1, ClientTypes, TickTypes, SpawnTypes, OtherTypes DEF Next

-----------------------------------------------------------------------------
(* What the history makes of the objectives *)

\* A step that only starts, resumes, suspends or creates tasks finishes nothing.
LEMMA OpenNews ==
  ASSUME NewsInv, UNCHANGED news,
         \A t \in Tasks : row'[t].status = row[t].status \/ row'[t].status \in Open
  PROVE  NewsInv'
<1>1. \A o \in Objectives : Finished(row', o) => Finished(row, o)
  BY StaysUnfinished
<1> QED BY <1>1, UnchangedNews

LEMMA QuietNews ==
  ASSUME TypeOK, NewsInv, Quietly
  PROVE  NewsInv'
BY NoteNews DEF Quietly

LEMMA ClientNews ==
  ASSUME TypeOK, NewsInv, NEW t \in Tasks,
         \/ CreateTask(t) \/ CancelTask(t) \/ Due(t) \/ WaitForEvent(t)
         \/ Resume(t) \/ RejectTask(t) \/ WorkerEnds(t)
  PROVE  NewsInv'
<1>1. CASE CreateTask(t)
  <2>1. /\ row'[t].status = "pending"
        /\ \A u \in Tasks \ {t} : row'[u] = row[u]
    BY <1>1, TypeFacts DEF CreateTask, Table, Row
  <2>2. \A o \in Objectives : Finished(row', o) => Finished(row, o)
    BY <2>1, StaysUnfinished DEF Open
  <2> QED BY <1>1, <2>2, NoteNews DEF CreateTask, NothingNew
<1>2. CASE CancelTask(t)
  BY <1>2, QuietNews DEF CancelTask
<1>3. CASE Due(t)
  BY <1>3, OpenNews, TypeFacts DEF Due, Table, Row
<1>4. CASE WaitForEvent(t)
  BY <1>4, OpenNews, EndedFacts DEF WaitForEvent, Open
<1>5. CASE Resume(t)
  BY <1>5, OpenNews, EndedFacts DEF Resume, Open
<1>6. CASE RejectTask(t)
  BY <1>6, QuietNews DEF RejectTask, FailedQuietly
<1>7. CASE WorkerEnds(t)
  <2>1. PICK status \in {"completed", "failed"} : Handle(Ended(t, status), t, "end", tick)
    BY <1>7 DEF WorkerEnds
  <2>2. /\ Ended(t, status) \in Table
        /\ \A u \in Tasks \ {t} : Ended(t, status)[u] = row[u]
        /\ row[t].status \in Open
    BY <1>7, EndedFacts DEF WorkerEnds, Open
  <2> QED BY <2>1, <2>2, HandleNews, TypeFacts DEF Callers
<1> QED BY <1>1, <1>2, <1>3, <1>4, <1>5, <1>6, <1>7

\* A row that a sweep fails was running or waiting.
LEMMA SweepNews ==
  ASSUME TypeOK, NewsInv, NEW t \in Tasks, NEW at \in Ticks,
         row[t].status \in Open, Handle(Ended(t, "failed"), t, "sweep", at)
  PROVE  NewsInv'
<1>1. /\ Ended(t, "failed") \in Table
      /\ \A u \in Tasks \ {t} : Ended(t, "failed")[u] = row[u]
  BY EndedFacts
<1> QED BY <1>1, HandleNews DEF Callers

LEMMA TickNews ==
  ASSUME TypeOK, NewsInv, Timer \/ Sweep \/ Look \/ TickEnd
  PROVE  NewsInv'
<1>1. CASE Timer \/ TickEnd
  BY <1>1 DEF Timer, TickEnd, NewsInv
<1>2. CASE Sweep
  <2>1. snapshot \subseteq Tasks
    BY DEF TypeOK
  <2>2. PICK X \in SUBSET Tasks : \/ Turn(X, "running", "stuck", "swept")
                                 \/ Turn(X, "waiting", "waits", "look")
    BY <1>2, <2>1 DEF Sweep, With
  <2>3. CASE UNCHANGED <<row, nudged, wakeVars, news>>
    BY <2>3 DEF NewsInv
  <2>4. ASSUME NEW t \in X, row[t].status \in Open, NEW at \in {"stuck", "waits"},
               Handle(Ended(t, "failed"), t, "sweep", at)
        PROVE  NewsInv'
    BY <2>4, SweepNews DEF Ticks
  <2> QED BY <2>2, <2>3, <2>4 DEF Turn, Open
<1>3. CASE Look
  <2>1. \A t \in Tasks : row'[t].status = row[t].status \/ row'[t].status = "running"
    BY <1>3, TypeFacts DEF Look, Table, Row
  <2> QED BY <1>3, <2>1, OpenNews DEF Look, Open
<1> QED BY <1>1, <1>2, <1>3

LEMMA SpawnNews ==
  ASSUME TypeOK, NewsInv, NEW t \in Tasks, OrphanTurn(t) \/ SpawnAccepted(t) \/ SpawnFails(t)
  PROVE  NewsInv'
<1>1. CASE OrphanTurn(t)
  BY <1>1, SweepNews, TypeFacts DEF OrphanTurn, Open, NewsInv
<1>2. CASE SpawnAccepted(t)
  <2>1. \A u \in Tasks : row'[u].status = row[u].status
    BY <1>2, RunUpdatedFacts DEF SpawnAccepted, TypeOK
  <2> QED BY <1>2, <2>1, OpenNews DEF SpawnAccepted
<1>3. CASE SpawnFails(t)
  <2>1. CASE Claim(t)
    <3>1. /\ Ended(t, "failed") \in Table
          /\ \A u \in Tasks \ {t} : Ended(t, "failed")[u] = row[u]
          /\ row[t].status \in Open
      BY <2>1, EndedFacts DEF Claim, Open
    <3> QED BY <1>3, <2>1, <3>1, HandleNews, TypeFacts DEF SpawnFails, Callers
  <2>2. CASE ~Claim(t)
    BY <1>3, <2>2, HandleNews, TypeFacts DEF SpawnFails, Callers
  <2> QED BY <2>1, <2>2
<1> QED BY <1>1, <1>2, <1>3

LEMMA OtherNews ==
  ASSUME TypeOK, NewsInv,
         \/ \E o \in Objectives : CancelObjective(o) \/ WindowCloses(o)
         \/ \E p \in resuming : ResumeAccepted(p) \/ ResumeFails(p)
         \/ \E h \in waking : WakeSettles(h)
         \/ Restart
  PROVE  NewsInv'
<1>1. ASSUME NEW o \in Objectives, CancelObjective(o) PROVE NewsInv'
  BY <1>1, QuietNews DEF CancelObjective
<1>2. ASSUME NEW o \in Objectives, WindowCloses(o) PROVE NewsInv'
  BY <1>2 DEF WindowCloses, NewsInv
<1>3. ASSUME NEW p \in resuming, ResumeAccepted(p) PROVE NewsInv'
  <2>1. \A u \in Tasks : row'[u].status = row[u].status
    BY <1>3, RunUpdatedFacts DEF ResumeAccepted, TypeOK
  <2> QED BY <1>3, <2>1, OpenNews DEF ResumeAccepted
<1>4. ASSUME NEW p \in resuming, ResumeFails(p) PROVE NewsInv'
  BY <1>4, QuietNews DEF ResumeFails, FailedQuietly, NewsInv
<1>5. ASSUME NEW h \in waking, WakeSettles(h) PROVE NewsInv'
  BY <1>5 DEF WakeSettles, NewsInv
<1>6. CASE Restart
  <2> DEFINE S == {o \in Objectives : \/ ~Finished(row, o)
                                      \/ \E h \in waking : ObjectiveOf[h.task] = o}
  <2>1. Note(S, "quiet")
    BY <1>6 DEF Restart
  <2> QED BY <2>1, NoteNews
<1> QED BY <1>1, <1>2, <1>3, <1>4, <1>5, <1>6

LEMMA NewsStep ==
  ASSUME TypeOK, NewsInv, [Next]_vars
  PROVE  NewsInv'
<1>1. CASE UNCHANGED vars
  BY <1>1 DEF vars, NewsInv
<1> QED BY <1>1, ClientNews, TickNews, SpawnNews, OtherNews DEF Next

-----------------------------------------------------------------------------
(* Nudges *)

\* Fewer tasks that are ready and no fewer that run: as little to do as before.
LEMMA LessToDo ==
  ASSUME TypeOK, Ready' \subseteq Ready, With({"running"}) \subseteq With({"running"})',
         Ready = {} \/ Free <= 0
  PROVE  (Ready = {} \/ Free <= 0)'
<1>1. CASE Ready = {}
  BY <1>1
<1>2. CASE Free <= 0
  <2>1. IsFiniteSet(With({"running"})) /\ IsFiniteSet(With({"running"})')
    BY TasksFinite, FS_Subset DEF With
  <2>2. /\ Cardinality(With({"running"})) \in Nat
        /\ Cardinality(With({"running"})') \in Nat
        /\ Cardinality(With({"running"})) <= Cardinality(With({"running"})')
    BY <2>1, FS_CardinalityType, FS_Subset
  <2>3. Cardinality(With({"running"}))' = Cardinality(With({"running"})')
    OBVIOUS
  <2> QED BY <1>2, <2>2, <2>3, LimitsType DEF Free
<1> QED BY <1>1, <1>2

\* The two ways a step keeps NudgeInv: it nudges, or begins a wake that will; or
\* it does nothing that would need it.
LEMMA NudgedStep ==
  ASSUME TypeOK, NudgeInv, NudgeAt(tick)
  PROVE  NudgeInv'
BY NudgeFacts, TypeFacts DEF NudgeInv, TurnNudged, LookSufficed, Ticks, TypeOK

LEMMA HandledStep ==
  ASSUME TypeOK, NudgeInv, NEW t \in Tasks, NEW tbl, NEW by \in Callers,
         by # "sweep" \/ tick \in {"stuck", "waits"},
         Handle(tbl, t, by, tick)
  PROVE  NudgeInv'
<1>1. CASE NudgeAt(tick)
  BY <1>1, NudgedStep
<1>2. CASE tick' = tick /\ UNCHANGED nudged /\ \E h \in waking' : h.by = by
  <2>1. waking \subseteq waking'
    BY <1>2 DEF Handle, wakeVars
  <2> QED BY <1>2, <2>1 DEF NudgeInv, TurnNudged, LookSufficed, SweepAwaits
<1> QED BY <1>1, <1>2, HandleNudges, TypeFacts

LEMMA StillStep ==
  ASSUME TypeOK, NudgeInv, UNCHANGED <<loopVars, waking>>,
         \/ silent'
         \/ /\ UNCHANGED silent
            /\ Ready' \subseteq Ready /\ With({"running"}) \subseteq With({"running"})'
  PROVE  NudgeInv'
BY LessToDo DEF NudgeInv, TurnNudged, LookSufficed, SweepAwaits, loopVars

LEMMA ClientNudges ==
  ASSUME TypeOK, NudgeInv, NEW t \in Tasks,
         \/ CreateTask(t) \/ CancelTask(t) \/ Due(t) \/ WaitForEvent(t)
         \/ Resume(t) \/ RejectTask(t) \/ WorkerEnds(t)
  PROVE  NudgeInv'
<1>1. CASE CreateTask(t)
  BY <1>1, NudgedStep, StillStep DEF CreateTask, Nudge, wakeVars
<1>2. CASE CancelTask(t)
  <2>1. Ready' \subseteq Ready /\ With({"running"}) \subseteq With({"running"})'
    BY <1>2, EndedFacts DEF CancelTask, Ready, With
  <2> QED BY <1>2, <2>1, StillStep DEF CancelTask, wakeVars
<1>3. CASE Due(t)
  BY <1>3, StillStep DEF Due, wakeVars
<1>4. CASE WaitForEvent(t)
  BY <1>4, StillStep DEF WaitForEvent, wakeVars
<1>5. CASE Resume(t)
  <2>1. Ready' \subseteq Ready /\ With({"running"}) \subseteq With({"running"})'
    BY <1>5, EndedFacts DEF Resume, Ready, With, Open
  <2> QED BY <1>5, <2>1, NudgedStep, StillStep DEF Resume, Nudge, wakeVars
<1>6. CASE RejectTask(t)
  BY <1>6, StillStep DEF RejectTask, FailedQuietly, wakeVars
<1>7. CASE WorkerEnds(t)
  BY <1>7, HandledStep DEF WorkerEnds, Callers
<1> QED BY <1>1, <1>2, <1>3, <1>4, <1>5, <1>6, <1>7

\* After the look all that is ready has a slot, or no slot is free.
LEMMA LookFills ==
  ASSUME TypeOK, Look
  PROVE  (Ready = {} \/ Free <= 0)'
<1>1. PICK S \in SUBSET Ready :
        /\ Cardinality(S) <= Free \/ S = {}
        /\ Cardinality(S) = Free \/ S = Ready \/ Free <= 0
        /\ row' = [t \in Tasks |->
                     IF t \in S THEN [row[t] EXCEPT !.status = "running",
                                         !.run = [kind |-> "claim", n |-> row[t].retries]]
                                ELSE row[t]]
  BY DEF Look
<1> DEFINE R == With({"running"})
<1>2. \A t \in Tasks : /\ t \in S => row'[t].status = "running"
                       /\ t \notin S => row'[t] = row[t]
  BY <1>1, TypeFacts DEF Table, Row
<1>3. S \subseteq Tasks /\ R \subseteq Tasks /\ R \cap S = {}
  BY DEF Ready, With
<1>4. Ready' = Ready \ S /\ With({"running"})' = R \cup S
  BY <1>2, <1>3 DEF Ready, With
<1>5. /\ IsFiniteSet(R) /\ IsFiniteSet(S) /\ Cardinality(R) \in Nat /\ Cardinality(S) \in Nat
  BY <1>3, TasksFinite, FS_Subset, FS_CardinalityType
<1>6. Cardinality(R \cup S) = Cardinality(R) + Cardinality(S)
  <2>1. Cardinality(R \cup S) = Cardinality(R) + Cardinality(S) - Cardinality(R \cap S)
    BY <1>5, FS_Union
  <2>2. Cardinality(R \cap S) = 0
    BY <1>3, FS_EmptySet
  <2> QED BY <1>5, <2>1, <2>2
<1>7. Free = MaxConcurrent - Cardinality(R) /\ Free' = MaxConcurrent - Cardinality(R \cup S)
  BY <1>4 DEF Free
<1>8. MaxConcurrent \in Nat
  BY LimitsType
<1>9. CASE S = Ready
  BY <1>4, <1>9
<1>10. CASE Cardinality(S) = Free \/ Free <= 0
  <2>1. Free' <= 0
    BY <1>5, <1>6, <1>7, <1>8, <1>10
  <2> QED BY <2>1
<1> QED BY <1>1, <1>9, <1>10

LEMMA TickNudges ==
  ASSUME TypeOK, NudgeInv, Timer \/ Sweep \/ Look \/ TickEnd
  PROVE  NudgeInv'
<1>1. CASE Timer
  BY <1>1, NudgedStep DEF Timer, Nudge
<1>2. CASE Sweep
  <2>1. \E X \in SUBSET Tasks : \/ Turn(X, "running", "stuck", "swept")
                                \/ Turn(X, "waiting", "waits", "look")
    BY <1>2 DEF Sweep, With, TypeOK
  <2>2. CASE tick' \in {"swept", "look"} /\ UNCHANGED waking
    BY <2>2 DEF NudgeInv, TurnNudged, LookSufficed
  <2>3. ASSUME NEW t \in Tasks, NEW at \in {"stuck", "waits"},
               Handle(Ended(t, "failed"), t, "sweep", at)
        PROVE  NudgeInv'
    <3>1. tick' = at /\ (nudged' \/ \E h \in waking' : h.by = "sweep")
      BY <2>3, HandleNudges, NudgeFacts DEF Callers, Ticks
    <3> QED BY <3>1 DEF NudgeInv, TurnNudged, LookSufficed, SweepAwaits
  <2> QED BY <2>1, <2>2, <2>3 DEF Turn, wakeVars
<1>3. CASE Look
  BY <1>3, LookFills DEF Look, NudgeInv, TurnNudged, LookSufficed, wakeVars
<1>4. CASE TickEnd
  <2>1. UNCHANGED <<Ready, With({"running"})>>
    BY <1>4 DEF TickEnd, Ready, With
  <2> QED BY <1>4, <2>1, LessToDo DEF TickEnd, NudgeInv, TurnNudged, LookSufficed, wakeVars
<1> QED BY <1>1, <1>2, <1>3, <1>4

\* A sweep that throws ends its tick without a look, but not without a nudge.
LEMMA SpawnNudges ==
  ASSUME TypeOK, NudgeInv, NEW t \in Tasks, OrphanTurn(t) \/ SpawnAccepted(t) \/ SpawnFails(t)
  PROVE  NudgeInv'
<1>1. CASE OrphanTurn(t)
  <2>1. CASE Handle(Ended(t, "failed"), t, "sweep", tick)
    BY <1>1, <2>1, HandledStep DEF OrphanTurn, Callers
  <2>2. CASE tick' = "spawning" /\ UNCHANGED <<row, nudged, wakeVars, news>>
    BY <1>1, <2>2 DEF OrphanTurn, NudgeInv, TurnNudged, LookSufficed
  <2> QED BY <1>1, <2>1, <2>2 DEF OrphanTurn
<1>2. CASE SpawnAccepted(t)
  <2>1. \A u \in Tasks : row'[u].status = row[u].status /\ row'[u].due = row[u].due
    BY <1>2, RunUpdatedFacts DEF SpawnAccepted, TypeOK
  <2>2. Ready' \subseteq Ready /\ With({"running"}) \subseteq With({"running"})'
    BY <2>1 DEF Ready, With
  <2> QED BY <1>2, <2>2, StillStep DEF SpawnAccepted, wakeVars
<1>3. CASE SpawnFails(t)
  BY <1>3, HandledStep DEF SpawnFails, Callers
<1> QED BY <1>1, <1>2, <1>3

LEMMA OtherNudges ==
  ASSUME TypeOK, NudgeInv,
         \/ \E o \in Objectives : CancelObjective(o) \/ WindowCloses(o)
         \/ \E p \in resuming : ResumeAccepted(p) \/ ResumeFails(p)
         \/ \E h \in waking : WakeSettles(h)
         \/ Restart
  PROVE  NudgeInv'
<1>1. ASSUME NEW o \in Objectives, CancelObjective(o) PROVE NudgeInv'
  <2>1. \A t \in Tasks : \/ row'[t] = row[t]
                         \/ row[t].status # "running" /\ row'[t].status = "cancelled"
    BY <1>1, TypeFacts DEF CancelObjective, Table, Row
  <2>2. Ready' \subseteq Ready /\ With({"running"}) \subseteq With({"running"})'
    BY <2>1 DEF Ready, With
  <2> QED BY <1>1, <2>2, StillStep DEF CancelObjective, wakeVars
<1>2. ASSUME NEW o \in Objectives, WindowCloses(o) PROVE NudgeInv'
  BY <1>2, StillStep DEF WindowCloses, Ready, With
<1>3. ASSUME NEW p \in resuming, ResumeAccepted(p) PROVE NudgeInv'
  <2>1. \A u \in Tasks : row'[u].status = row[u].status /\ row'[u].due = row[u].due
    BY <1>3, RunUpdatedFacts DEF ResumeAccepted, TypeOK
  <2>2. Ready' \subseteq Ready /\ With({"running"}) \subseteq With({"running"})'
    BY <2>1 DEF Ready, With
  <2> QED BY <1>3, <2>2, NudgedStep, StillStep DEF ResumeAccepted, Nudge, wakeVars
<1>4. ASSUME NEW p \in resuming, ResumeFails(p) PROVE NudgeInv'
  BY <1>4, StillStep DEF ResumeFails, FailedQuietly, wakeVars, Ready, With
<1>5. ASSUME NEW h \in waking, WakeSettles(h) PROVE NudgeInv'
  <2>1. /\ tick = "idle" => tick' = "begun"
        /\ tick # "idle" => tick' = tick /\ nudged'
    BY <1>5, NudgeFacts, TypeFacts DEF WakeSettles, Nudge
  <2> QED BY <2>1 DEF NudgeInv, TurnNudged, LookSufficed
<1>6. CASE Restart
  BY <1>6 DEF Restart, NudgeInv, TurnNudged, LookSufficed
<1> QED BY <1>1, <1>2, <1>3, <1>4, <1>5, <1>6

LEMMA NudgeStep ==
  ASSUME TypeOK, NudgeInv, [Next]_vars
  PROVE  NudgeInv'
<1>1. CASE UNCHANGED vars
  BY <1>1, StillStep DEF vars, Ready, With, loopVars
<1> QED BY <1>1, ClientNudges, TickNudges, SpawnNudges, OtherNudges DEF Next

-----------------------------------------------------------------------------
(* Wakes *)

\* A step that leaves dead rows alone and begins no spawn and no wake.
LEMMA UnaskedStep ==
  ASSUME TypeOK, AskedInv, UNCHANGED <<asked, window, outlived>>, spawning' \subseteq spawning,
         \A t \in Tasks :
           \/ row'[t].status = row[t].status /\ row'[t].retries = row[t].retries
           \/ row[t].status \in {"absent"} \cup Open /\ row'[t].status # "absent"
  PROVE  AskedInv'
<1>1. \A t \in Tasks : Dead(row, t) => Dead(row', t)
  BY DEF Dead, Open
<1>2. \A t \in spawning' : row'[t].status # "absent"
  BY DEF AskedInv, TypeOK
<1> QED BY <1>1, <1>2 DEF AskedInv

LEMMA ClientAsks ==
  ASSUME TypeOK, AskedInv, NEW t \in Tasks,
         \/ CreateTask(t) \/ CancelTask(t) \/ Due(t) \/ WaitForEvent(t)
         \/ Resume(t) \/ RejectTask(t) \/ WorkerEnds(t)
  PROVE  AskedInv'
<1> USE DEF wakeVars, tickVars
<1>1. CASE CreateTask(t)
  <2>1. /\ row[t].status = "absent" /\ row'[t].status = "pending"
        /\ \A u \in Tasks \ {t} : row'[u] = row[u]
    BY <1>1, TypeFacts DEF CreateTask, Table, Row
  <2> QED BY <1>1, <2>1, UnaskedStep DEF CreateTask
<1>2. CASE CancelTask(t)
  BY <1>2, EndedFacts, UnaskedStep DEF CancelTask, Open
<1>3. CASE Due(t)
  <2>1. \A u \in Tasks : row'[u].status = row[u].status /\ row'[u].retries = row[u].retries
    BY <1>3, TypeFacts DEF Due, Table, Row
  <2> QED BY <1>3, <2>1, UnaskedStep DEF Due
<1>4. CASE WaitForEvent(t)
  BY <1>4, EndedFacts, UnaskedStep DEF WaitForEvent, Open
<1>5. CASE Resume(t)
  BY <1>5, EndedFacts, UnaskedStep DEF Resume, Open
<1>6. CASE RejectTask(t)
  BY <1>6, EndedFacts, UnaskedStep DEF RejectTask, FailedQuietly, Open
<1>7. CASE WorkerEnds(t)
  <2>1. PICK status \in {"completed", "failed"} : Handle(Ended(t, status), t, "end", tick)
    BY <1>7 DEF WorkerEnds
  <2>2. /\ Ended(t, status) \in Table
        /\ Ended(t, status)[t].status = status
        /\ \A u \in Tasks \ {t} : Ended(t, status)[u] = row[u]
        /\ row[t].status = "running"
    BY <1>7, EndedFacts DEF WorkerEnds
  <2>3. Ended(t, status) # row /\ spawning' \subseteq spawning
    BY <1>7, <2>2 DEF WorkerEnds
  <2> QED BY <2>1, <2>2, <2>3, HandleAsks, TypeFacts DEF Callers, Open
<1> QED BY <1>1, <1>2, <1>3, <1>4, <1>5, <1>6, <1>7

LEMMA SweepAsks ==
  ASSUME TypeOK, AskedInv, NEW t \in Tasks, NEW at \in Ticks, UNCHANGED spawning,
         row[t].status \in Open, Handle(Ended(t, "failed"), t, "sweep", at)
  PROVE  AskedInv'
<1>1. /\ Ended(t, "failed") \in Table
      /\ Ended(t, "failed")[t].status = "failed"
      /\ \A u \in Tasks \ {t} : Ended(t, "failed")[u] = row[u]
  BY EndedFacts
<1>2. Ended(t, "failed") # row
  BY <1>1 DEF Open
<1> QED BY <1>1, <1>2, HandleAsks DEF Callers

LEMMA TickAsks ==
  ASSUME TypeOK, AskedInv, Timer \/ Sweep \/ Look \/ TickEnd
  PROVE  AskedInv'
<1> USE DEF wakeVars, tickVars
<1>1. CASE Timer \/ TickEnd
  BY <1>1, UnaskedStep DEF Timer, TickEnd
<1>2. CASE Sweep
  <2>1. snapshot \subseteq Tasks /\ UNCHANGED spawning
    BY <1>2 DEF Sweep, TypeOK
  <2>2. PICK X \in SUBSET Tasks : \/ Turn(X, "running", "stuck", "swept")
                                  \/ Turn(X, "waiting", "waits", "look")
    BY <1>2, <2>1 DEF Sweep, With
  <2>3. CASE UNCHANGED <<row, nudged, wakeVars, news>>
    BY <2>1, <2>3, UnaskedStep
  <2>4. ASSUME NEW t \in X, row[t].status \in Open, NEW at \in {"stuck", "waits"},
               Handle(Ended(t, "failed"), t, "sweep", at)
        PROVE  AskedInv'
    BY <2>1, <2>4, SweepAsks DEF Ticks
  <2> QED BY <2>2, <2>3, <2>4 DEF Turn, Open
<1>3. CASE Look
  <2>1. PICK S \in SUBSET Ready :
          /\ row' = [t \in Tasks |->
                       IF t \in S THEN [row[t] EXCEPT !.status = "running",
                                           !.run = [kind |-> "claim", n |-> row[t].retries]]
                                  ELSE row[t]]
          /\ spawning' = S
    BY <1>3 DEF Look
  <2>2. \A t \in S : t \in Tasks /\ row[t].status = "pending" /\ row'[t].status = "running"
    BY <2>1, TypeFacts DEF Ready, With, Table, Row
  <2>3. \A t \in Tasks \ S : row'[t] = row[t]
    BY <2>1
  <2>4. \A t \in Tasks : Dead(row, t) => Dead(row', t) /\ t \notin S
    BY <2>2, <2>3 DEF Dead
  <2>5. UNCHANGED <<asked, window, outlived>>
    BY <1>3 DEF Look
  <2>6. \A t \in Tasks : asked[t] \in Nat
    BY DEF TypeOK
  <2>7. \A t \in Tasks : asked[t] >= 1 => Dead(row', t) /\ t \notin spawning'
    BY <2>1, <2>4 DEF AskedInv
  <2>8. \A t \in spawning' : row'[t].status # "absent"
    BY <2>1, <2>2
  <2> QED BY <2>5, <2>6, <2>7, <2>8 DEF AskedInv
<1> QED BY <1>1, <1>2, <1>3

\* The failure of a spawn may handle a completion for the second time: then the window
\* that the first one opened is still open, or the spawn has outlived it, or the task is
\* to be retried.  There is no third time, because a spawn fails once.
LEMMA SpawnAsks ==
  ASSUME TypeOK, AskedInv, NEW t \in Tasks, OrphanTurn(t) \/ SpawnAccepted(t) \/ SpawnFails(t)
  PROVE  AskedInv'
<1> USE DEF wakeVars, tickVars
<1>1. CASE OrphanTurn(t)
  BY <1>1, SweepAsks, UnaskedStep, TypeFacts DEF OrphanTurn, Open
<1>2. CASE SpawnAccepted(t)
  <2>1. \A u \in Tasks : row'[u].status = row[u].status /\ row'[u].retries = row[u].retries
    BY <1>2, RunUpdatedFacts DEF SpawnAccepted, TypeOK
  <2> QED BY <1>2, <2>1, UnaskedStep DEF SpawnAccepted
<1>3. CASE SpawnFails(t)
  <2>1. /\ t \in spawning /\ spawning' = spawning \ {t}
        /\ spawning' \subseteq spawning /\ row[t].status # "absent"
    BY <1>3 DEF SpawnFails, AskedInv
  <2>2. CASE Claim(t)
    <3>1. /\ Ended(t, "failed") \in Table
          /\ Ended(t, "failed")[t].status = "failed"
          /\ \A u \in Tasks \ {t} : Ended(t, "failed")[u] = row[u]
          /\ row[t].status \in Open
      BY <2>2, EndedFacts DEF Claim, Open
    <3> QED BY <1>3, <2>1, <2>2, <3>1, HandleAsks, TypeFacts DEF SpawnFails, Callers
  <2>3. CASE ~Claim(t)
    BY <1>3, <2>1, <2>3, HandleAsks, TypeFacts DEF SpawnFails, Callers
  <2> QED BY <2>2, <2>3
<1> QED BY <1>1, <1>2, <1>3

LEMMA OtherAsks ==
  ASSUME TypeOK, AskedInv,
         \/ \E o \in Objectives : CancelObjective(o) \/ WindowCloses(o)
         \/ \E p \in resuming : ResumeAccepted(p) \/ ResumeFails(p)
         \/ \E h \in waking : WakeSettles(h)
         \/ Restart
  PROVE  AskedInv'
<1> USE DEF wakeVars, tickVars
<1>1. ASSUME NEW o \in Objectives, CancelObjective(o) PROVE AskedInv'
  <2>1. \A t \in Tasks : \/ row'[t] = row[t]
                         \/ row[t].status \in Open /\ row'[t].status = "cancelled"
    BY <1>1, TypeFacts DEF CancelObjective, Table, Row, Open
  <2> QED BY <1>1, <2>1, UnaskedStep DEF CancelObjective
<1>2. ASSUME NEW o \in Objectives, WindowCloses(o) PROVE AskedInv'
  <2>1. /\ UNCHANGED <<row, spawning, asked>>
        /\ window' = window \ {o} /\ outlived \subseteq outlived'
        /\ \A t \in spawning : (ObjectiveOf[t] = o /\ asked[t] >= 1) => t \in outlived'
    BY <1>2 DEF WindowCloses
  <2> QED BY <2>1 DEF AskedInv, Dead
<1>3. ASSUME NEW p \in resuming, ResumeAccepted(p) PROVE AskedInv'
  <2>1. \A u \in Tasks : row'[u].status = row[u].status /\ row'[u].retries = row[u].retries
    BY <1>3, RunUpdatedFacts DEF ResumeAccepted, TypeOK
  <2> QED BY <1>3, <2>1, UnaskedStep DEF ResumeAccepted
<1>4. ASSUME NEW p \in resuming, ResumeFails(p) PROVE AskedInv'
  <2>1. p.task \in Tasks
    BY DEF TypeOK
  <2> QED BY <1>4, <2>1, EndedFacts, UnaskedStep DEF ResumeFails, FailedQuietly, Open
<1>5. ASSUME NEW h \in waking, WakeSettles(h) PROVE AskedInv'
  BY <1>5, UnaskedStep DEF WakeSettles
<1>6. CASE Restart
  <2>1. \A t \in Tasks : \/ row'[t] = row[t]
                         \/ row[t].status = "running" /\ row'[t].status = "failed"
    BY <1>6, TypeFacts DEF Restart, Table, Row
  <2>2. \A t \in Tasks : Dead(row, t) => Dead(row', t)
    BY <2>1 DEF Dead
  <2> QED BY <1>6, <2>2 DEF Restart, AskedInv
<1> QED BY <1>1, <1>2, <1>3, <1>4, <1>5, <1>6

LEMMA AskedStep ==
  ASSUME TypeOK, AskedInv, [Next]_vars
  PROVE  AskedInv'
<1>1. CASE UNCHANGED vars
  BY <1>1, UnaskedStep DEF vars
<1> QED BY <1>1, ClientAsks, TickAsks, SpawnAsks, OtherAsks DEF Next

-----------------------------------------------------------------------------
(* The theorems *)

LEMMA InitInv == Init => IInv
<1> SUFFICES ASSUME Init PROVE IInv
  OBVIOUS
<1>1. TypeOK
  <2>1. Absent \in Row
    BY DEF Absent, Row, NoRun, Runs
  <2>2. crashes \in Nat /\ asked \in [Tasks -> Nat]
    BY DEF Init
  <2> QED BY <2>1, <2>2 DEF Init, TypeOK, Row
<1>2. NudgeInv
  BY DEF Init, NudgeInv, TurnNudged, LookSufficed, Ready, With, Absent
<1>3. NewsInv
  BY DEF Init, NewsInv, Finished, Absent
<1>4. AskedInv
  BY DEF Init, AskedInv
<1> QED BY <1>1, <1>2, <1>3, <1>4 DEF IInv

\* The invariant holds of every behaviour.
THEOREM Invariance == Spec => []IInv
<1>1. IInv /\ [Next]_vars => IInv'
  BY TypeStep, NudgeStep, NewsStep, AskedStep DEF IInv
<1> QED BY <1>1, InitInv, PTL DEF Spec

\* Every variable keeps its type; a tick that is idle has nothing under way.
THEOREM TypeCorrect == Spec => []TypeOK
BY Invariance, PTL DEF IInv

\* Between ticks no ready task has a free slot, unless it came up without a nudge:
\* scheduleTick loses no nudge, whichever await it arrives in.
THEOREM NudgesAreEnough == Spec => []NudgesSuffice
<1>1. IInv => NudgesSuffice
  BY DEF IInv, NudgeInv, LookSufficed, NudgesSuffice
<1> QED BY <1>1, Invariance, PTL

\* No objective is finished by the handler without the manager being told or the
\* window being open.
THEOREM FinishedObjectivesAreTold == Spec => []FinishedIsTold
<1>1. IInv => FinishedIsTold
  BY DEF IInv, NewsInv, FinishedIsTold
<1> QED BY <1>1, Invariance, PTL

\* The manager is asked once about the end of a task; a second time only by the failure
\* of a spawn that outlived the window of the first, and never a third time
\* (handleTaskCompletion, spawnWorkerForTask).
THEOREM ManagerAskedOnce == Spec => []AskedOnce
<1>1. IInv => AskedOnce
  BY DEF IInv, AskedInv, AskedOnce
<1> QED BY <1>1, Invariance, PTL
=============================================================================
