---------------------------- MODULE CommandLanes ----------------------------
(***************************************************************************)
(* The in-process queue every agent run goes through                       *)
(* (src/process/command-queue.ts) and the lanes a run enters one inside    *)
(* the other (src/agents/pi-embedded-runner/run.ts, lanes.ts): first its   *)
(* session's lane, then a global lane, and for a manual cron run the cron  *)
(* lane around both.  A command holds its slot in an outer lane while it   *)
(* waits in an inner one.                                                  *)
(*                                                                         *)
(* "due" are the lanes whose pump is on the call stack: the JavaScript     *)
(* thread does nothing else until it is empty.  A promise that settles     *)
(* wakes the outer lane in a later step.                                   *)
(*                                                                         *)
(* A restart (SIGUSR1, src/cli/gateway-cli/run-loop.ts) happens inside the *)
(* process: lanes are reset, commands that are still running run on, and   *)
(* their completion no longer counts.  The generation number of the code   *)
(* tells them apart; here they are the commands that have a lane to leave  *)
(* and are not in its active set.                                          *)
(***************************************************************************)
EXTENDS Naturals, Sequences, FiniteSets

CONSTANTS
  Commands,      \* agent runs
  Sessions,      \* session lanes, one per session key
  SessionOf,     \* the session of a command
  LaneOf,        \* the lane a command asks for; "cron" is a manual cron run
  Limits,        \* what maxConcurrent and maxConcurrentRuns may be set to
  MaxRestarts,   \* bound: restarts
  MaxReloads     \* bound: configuration reloads

GlobalLanes == {"main", "subagent", "cron", "nested"}

ASSUME CommandsFinite == IsFiniteSet(Commands)
ASSUME SessionsAreOwnLanes == Sessions \cap GlobalLanes = {}
ASSUME RoutesType ==
  /\ SessionOf \in [Commands -> Sessions]
  /\ LaneOf \in [Commands -> GlobalLanes]
ASSUME LimitsType == Limits \subseteq Nat
ASSUME BoundsType == MaxRestarts \in Nat /\ MaxReloads \in Nat

VARIABLES
  queue,     \* entries waiting in a lane
  active,    \* entries the lane counts as executing
  limit,     \* maxConcurrent of a lane
  due,       \* lanes being pumped
  at,        \* which lane of its route a command has to leave next
  phase,     \* what a command does
  restart,   \* how far a restart has come
  snapshot,  \* what waitForActiveTasks waits for
  cutShort,  \* a drain has reached its timeout
  restarts,
  reloads

vars == <<queue, active, limit, due, at, phase, restart, snapshot, cutShort, restarts, reloads>>

Lanes == Sessions \cup GlobalLanes

\* Mutant: a cron job's run asks for the cron lane it already holds.
ResolveGlobalLaneKept(lane) == lane

ResolveGlobalLane(lane) == IF lane = "cron" THEN "nested" ELSE lane

\* A manual cron run is queued in the cron lane and runs the agent inside.
Route(c) ==
  LET agentRun == <<SessionOf[c], ResolveGlobalLane(LaneOf[c])>>
  IN  IF LaneOf[c] = "cron" THEN <<"cron">> \o agentRun ELSE agentRun

Lane(c, k) == Route(c)[k]
Innermost(c) == Len(Route(c))

Init ==
  /\ queue = [l \in Lanes |-> <<>>]
  /\ active = [l \in Lanes |-> {}]
  /\ limit = [l \in Lanes |-> 1]
  /\ due = {}
  /\ at = [c \in Commands |-> 0]
  /\ phase = [c \in Commands |-> "new"]
  /\ restart = "no"
  /\ snapshot = {}
  /\ cutShort = FALSE
  /\ restarts = 0
  /\ reloads = 0

\* gatewayDraining
\* Mutant: the drain accepts commands.
NeverRejecting == FALSE

Rejecting == restart # "no"

AtRest == due = {}

-----------------------------------------------------------------------------
(* enqueueCommandInLane, the pump and the end of a command *)

Enqueue(c) ==
  /\ AtRest
  /\ phase[c] = "new"
  /\ \/ /\ Rejecting
        /\ phase' = [phase EXCEPT ![c] = "settled"]
        /\ UNCHANGED <<queue, at, due>>
     \/ /\ ~Rejecting
        /\ queue' = [queue EXCEPT ![Lane(c, 1)] = Append(@, c)]
        /\ at' = [at EXCEPT ![c] = 1]
        /\ phase' = [phase EXCEPT ![c] = "queued"]
        /\ due' = {Lane(c, 1)}
  /\ UNCHANGED <<active, limit, restart, snapshot, cutShort, restarts, reloads>>

\* Mutant: one slot too many in a lane that has more than one.
HasOneMore(l) ==
  \/ Cardinality(active[l]) < limit[l]
  \/ limit[l] > 1 /\ Cardinality(active[l]) = limit[l]

HasSlot(l) == Cardinality(active[l]) < limit[l]

\* The command waits in the lane around this one, whatever happens next.
Rejected(c) ==
  /\ Rejecting
  /\ phase' = [phase EXCEPT ![c] = "returning"]
  /\ UNCHANGED <<at, due>>

\* One turn of the pump's loop: the entry's task runs up to its first await.
\* The agent run starts, or a cron job prepares its run, or the command enters
\* the global lane (or is rejected there, and leaves this lane in a later step).
Start(l) ==
  LET c == Head(queue[l])
      rest == [queue EXCEPT ![l] = Tail(@)]
  IN  /\ l \in due
      /\ queue[l] # <<>>
      /\ HasSlot(l)
      /\ active' = [active EXCEPT ![l] = @ \cup {c}]
      /\ \/ /\ at[c] = Innermost(c)
            /\ phase' = [phase EXCEPT ![c] = "running"]
            /\ queue' = rest
            /\ UNCHANGED <<at, due>>
         \/ /\ l = "cron" /\ at[c] < Innermost(c)
            /\ phase' = [phase EXCEPT ![c] = "preparing"]
            /\ queue' = rest
            /\ UNCHANGED <<at, due>>
         \/ /\ l # "cron" /\ at[c] < Innermost(c)
            /\ \/ Rejected(c) /\ queue' = rest
               \/ LET inner == Lane(c, at[c] + 1)
                  IN  /\ ~Rejecting
                      /\ queue' = [rest EXCEPT ![inner] = Append(@, c)]
                      /\ at' = [at EXCEPT ![c] = @ + 1]
                      /\ due' = due \cup {inner}
                      /\ UNCHANGED phase
      /\ UNCHANGED <<limit, restart, snapshot, cutShort, restarts, reloads>>

\* The agent run of a cron job enters its session's lane.
EnterSession(c) ==
  /\ AtRest
  /\ phase[c] = "preparing"
  /\ \/ Rejected(c) /\ UNCHANGED queue
     \/ LET inner == Lane(c, at[c] + 1)
        IN  /\ ~Rejecting
            /\ queue' = [queue EXCEPT ![inner] = Append(@, c)]
            /\ phase' = [phase EXCEPT ![c] = "queued"]
            /\ at' = [at EXCEPT ![c] = @ + 1]
            /\ due' = {inner}
  /\ UNCHANGED <<active, limit, restart, snapshot, cutShort, restarts, reloads>>

PumpEnds(l) ==
  /\ l \in due
  /\ queue[l] = <<>> \/ ~HasSlot(l)
  /\ due' = due \ {l}
  /\ UNCHANGED <<queue, active, limit, at, phase, restart, snapshot, cutShort, restarts, reloads>>

\* completeTask, the pump it calls, and the promise that the lane around it
\* awaits.  Of a command that a reset left behind, only the promise settles.
Leave(c) ==
  LET l == Lane(c, at[c])
  IN  /\ AtRest
      /\ phase[c] \in {"preparing", "running", "returning"}
      /\ active' = [active EXCEPT ![l] = @ \ {c}]
      /\ due' = IF c \in active[l] THEN {l} ELSE {}
      /\ at' = [at EXCEPT ![c] = @ - 1]
      /\ phase' = [phase EXCEPT ![c] = IF at[c] = 1 THEN "settled" ELSE "returning"]
      /\ UNCHANGED <<queue, limit, restart, snapshot, cutShort, restarts, reloads>>

-----------------------------------------------------------------------------
(* clearCommandLane, setCommandLaneConcurrency, restart *)

\* Session lanes are cleared when a message interrupts or a session is reset;
\* the entries waiting there are rejected, the one executing is not touched.
WaitsIn(c, l) == phase[c] = "queued" /\ Lane(c, at[c]) = l

Clear(s) ==
  /\ AtRest
  /\ queue[s] # <<>>
  /\ queue' = [queue EXCEPT ![s] = <<>>]
  /\ phase' = [c \in Commands |->
                 IF ~WaitsIn(c, s) THEN phase[c]
                 ELSE IF at[c] = 1 THEN "settled" ELSE "returning"]
  /\ at' = [c \in Commands |-> IF WaitsIn(c, s) THEN at[c] - 1 ELSE at[c]]
  /\ UNCHANGED <<active, limit, due, restart, snapshot, cutShort, restarts, reloads>>

\* Mutant: the configured number is taken as it is.
Unclamped(n) == n

\* Math.max(1, ...)
AtLeastOne(n) == IF n < 1 THEN 1 ELSE n

SetConcurrency(l, n) ==
  /\ AtRest
  /\ reloads < MaxReloads
  /\ reloads' = reloads + 1
  /\ limit' = [limit EXCEPT ![l] = AtLeastOne(n)]
  /\ due' = {l}
  /\ UNCHANGED <<queue, active, at, phase, restart, snapshot, cutShort, restarts>>

\* markGatewayDraining and the start of waitForActiveTasks.
DrainBegins ==
  /\ AtRest
  /\ restart = "no"
  /\ restarts < MaxRestarts
  /\ restart' = "draining"
  /\ snapshot' = {x \in Lanes \X Commands : x[2] \in active[x[1]]}
  /\ UNCHANGED <<queue, active, limit, due, at, phase, cutShort, restarts, reloads>>

\* Everything that was active at the start is done, or the timeout is reached.
DrainEnds ==
  /\ AtRest
  /\ restart = "draining"
  /\ cutShort' = (cutShort \/ \E x \in snapshot : x[2] \in active[x[1]])
  /\ restart' = "closing"
  /\ snapshot' = {}
  /\ UNCHANGED <<queue, active, limit, due, at, phase, restarts, reloads>>

\* Mutant: the lanes are left to the next enqueue.
ResetWithoutPump ==
  /\ AtRest
  /\ restart = "closing"
  /\ restart' = "no"
  /\ restarts' = restarts + 1
  /\ active' = [l \in Lanes |-> {}]
  /\ UNCHANGED <<queue, limit, due, at, phase, snapshot, cutShort, reloads>>

ResetAllLanes ==
  /\ AtRest
  /\ restart = "closing"
  /\ restart' = "no"
  /\ restarts' = restarts + 1
  /\ active' = [l \in Lanes |-> {}]
  /\ due' = {l \in Lanes : queue[l] # <<>>}
  /\ UNCHANGED <<queue, limit, at, phase, snapshot, cutShort, reloads>>

-----------------------------------------------------------------------------

Pump == \E l \in Lanes : Start(l) \/ PumpEnds(l)

Next ==
  \/ \E c \in Commands : Enqueue(c) \/ EnterSession(c) \/ Leave(c)
  \/ Pump
  \/ \E s \in Sessions : Clear(s)
  \/ \E l \in {"main", "subagent", "cron"}, n \in Limits : SetConcurrency(l, n)
  \/ DrainBegins \/ DrainEnds \/ ResetAllLanes

SafetySpec == Init /\ [][Next]_vars

\* The pump is synchronous code; an agent run has a timeout, and a settled
\* promise wakes whoever awaits it.
Fairness ==
  /\ WF_vars(Pump)
  /\ \A c \in Commands : WF_vars(EnterSession(c)) /\ WF_vars(Leave(c))

Spec == SafetySpec /\ Fairness

-----------------------------------------------------------------------------
(* Properties *)

\* Every variable has its type.
TypeOK ==
  /\ cutShort \in BOOLEAN
  /\ queue \in [Lanes -> Seq(Commands)]
  /\ active \in [Lanes -> SUBSET Commands]
  /\ limit \in [Lanes -> Nat \ {0}]
  /\ due \subseteq Lanes
  /\ at \in [Commands -> 0..3]
  /\ phase \in [Commands -> {"new", "queued", "preparing", "running", "returning",
                         "settled"}]
  /\ restart \in {"no", "draining", "closing"}
  /\ snapshot \subseteq Lanes \X Commands
  /\ restarts \in Nat
  /\ reloads \in Nat

\* Outside the pump no lane has both an entry waiting and a free slot, whatever
\* completed, was cleared, reconfigured or reset: "preserved work is pumped
\* immediately rather than waiting for a future enqueueCommandInLane() call
\* (which may never come)" (command-queue.ts, resetAllLanes).
NoIdleLane ==
  \A l \in Lanes : l \in due \/ queue[l] = <<>> \/ ~HasSlot(l)

\* One run at a time per session, through restarts too as long as every drain was
\* waited for: a drained restart leaves nothing behind that could still run, in
\* whichever lane it was held up.
OneRunPerSession ==
  ~cutShort =>
    \A c, d \in Commands :
      (phase[c] = "running" /\ phase[d] = "running" /\ SessionOf[c] = SessionOf[d]) => c = d

\* "Each session run is then queued into a global lane so overall parallelism is
\* capped by agents.defaults.maxConcurrent" (docs/concepts/queue.md): no more
\* agents run than the largest limit allows, drained restarts included.
ParallelismCapped ==
  ~cutShort =>
    \A l \in GlobalLanes : \E n \in Limits \cup {1} :
      Cardinality({c \in Commands : phase[c] = "running" /\ Lane(c, Innermost(c)) = l})
        <= AtLeastOne(n)

\* Every command that was accepted settles, although it waits in one lane while
\* it holds another, and through any number of restarts.
AcceptedSettles ==
  \A c \in Commands : phase[c] = "queued" ~> phase[c] = "settled"
=============================================================================
