-------------------------- MODULE SubagentRegistry --------------------------
(***************************************************************************)
(* The registry of subagent runs: src/agents/subagent-registry.ts with     *)
(* its helpers, and the callers that kill, steer, wake and reactivate.     *)
(*                                                                         *)
(* A record is created when a run is spawned.  Its end is heard from the   *)
(* lifecycle listener and from "agent.wait", after which the               *)
(* subagent_ended hook is emitted and the result announced to the          *)
(* requester, with retries.  Each await is a point where other handlers,   *)
(* or a crash, come in between: a call in flight is a record in "calls".   *)
(* The registry is saved to disk whole, and restored after a crash.        *)
(*                                                                         *)
(* Left out: texts, attachments, the timing rows of sessions, runs of      *)
(* spawn mode "session".                                                   *)
(***************************************************************************)
EXTENDS Integers, FiniteSets

CONSTANTS
  Runs,         \* run ids
  Sessions,     \* sessions of subagents
  User,         \* the session of the user, the root of all requesters
  SessionOf,    \* the session a run id works in
  Requester,    \* the session that spawned a session's first run
  FirstRuns,    \* the ids sessions_spawn answers with; one per session
  WakeRuns,     \* the ids of wake continuations
  Completion,   \* sessions spawned with expectsCompletionMessage
  Cleanups,     \* the values of "cleanup" that runs are spawned with
  MaxTries,     \* MAX_ANNOUNCE_RETRY_COUNT
  MaxIncidents  \* bound: how often a run errs, is killed, steered or messaged,
                \* a wait is lost or the gateway restarts, taken together

ASSUME RegistryAssumption ==
  /\ IsFiniteSet(Runs) /\ FirstRuns \subseteq Runs /\ WakeRuns \subseteq Runs \ FirstRuns
  /\ User \notin Sessions
  /\ SessionOf \in [Runs -> Sessions]
  /\ \A r, q \in FirstRuns : SessionOf[r] = SessionOf[q] => r = q
  /\ Requester \in [Sessions -> Sessions \cup {User}]
  /\ Completion \subseteq Sessions
  /\ Cleanups \subseteq {"keep", "delete"}
  /\ MaxTries \in Nat \ {0} /\ MaxIncidents \in Nat

VARIABLES
  reg,       \* the memory of the gateway: records, markers, timers, calls in flight
  disk,      \* the records as saved
  alive,     \* runs that are being executed
  sessions,  \* sessions with an entry in the session store
  emitted,   \* history: subagent_ended hooks per run, without those a crash cut off
  told,      \* history: announcements that reached the requester, per run
  cut,       \* history: runs whose clean-up a crash or another record's kill has cut off
  crashed,   \* history: the gateway has restarted
  incidents  \* how many of MaxIncidents have happened

vars == <<reg, disk, alive, sessions, emitted, told, cut, crashed, incidents>>

\* Why a record is no longer in the registry, or that it is.
Fates == {"none", "here", "settled", "replaced", "archived", "pruned"}

Record ==
  [fate    : Fates,
   cleanup : {"keep", "delete"},
   ended   : {"no", "complete", "error", "killed"},  \* endedAt and endedReason
   handled : BOOLEAN,                                \* cleanupHandled
   done    : BOOLEAN,                                \* cleanupCompletedAt
   quiet   : {"no", "steer", "killed"},              \* suppressAnnounceReason
   tries   : 0..MaxTries,                            \* announceRetryCount
   hooked  : BOOLEAN,                                \* endedHookEmittedAt
   wake    : BOOLEAN,                                \* wakeOnDescendantSettle
   cooling : BOOLEAN,                                \* the back-off is running
   expired : BOOLEAN]                                \* it ended too long ago

NoRecord ==
  [fate |-> "none", cleanup |-> "keep", ended |-> "no", handled |-> FALSE, done |-> FALSE,
   quiet |-> "no", tries |-> 0, hooked |-> FALSE, wake |-> FALSE, cooling |-> FALSE, expired |-> FALSE]

NewRecord(cleanup) == [NoRecord EXCEPT !.fate = "here", !.cleanup = cleanup]

\* What is in flight: a wait for the run's end, completeSubagentRun at its awaits,
\* the hook, the announcement with the "agent" call of a wake, and a steer.
Stages == {"wait", "freeze", "hook", "announce", "woken", "deliver", "steer"}
\* On whose behalf (a completion by the grace timer counts as the listener's); for a
\* hook: what follows it.
Causes == {"wait", "listener", "kill", "cleanup", "success", "giveup", "control"}
Call == [run : Runs, at : Stages, by : Causes]
Timers == {"grace", "retry", "backoff"}

Memory ==
  [runs   : [Runs -> Record],
   marks  : SUBSET Runs,              \* resumedRuns
   timers : SUBSET (Runs \X Timers),
   calls  : SUBSET Call]

-----------------------------------------------------------------------------
(* Questions about the memory *)

Present(m, r) == m.runs[r].fate = "here"
Ended(m, r) == m.runs[r].ended # "no"
Expects(r) == SessionOf[r] \in Completion
Deletes(m, r) == m.runs[r].cleanup = "delete"

\* countPendingDescendantRuns: the walk down from a session through the records
\* that are present; a run is pending until its clean-up is complete.
PendingBelow(m, s) ==
  LET reach[n \in 0..Cardinality(Sessions)] ==
        IF n = 0 THEN {s}
        ELSE reach[n - 1] \cup {SessionOf[r] : r \in
               {q \in Runs : Present(m, q) /\ Requester[SessionOf[q]] \in reach[n - 1]}}
  IN {r \in Runs : /\ Present(m, r)
                   /\ Requester[SessionOf[r]] \in reach[Cardinality(Sessions)]
                   /\ ~(Ended(m, r) /\ m.runs[r].done)}

\* shouldIgnorePostCompletionAnnounceForSession
PostCompletion(m, s) ==
  LET here == {r \in Runs : Present(m, r) /\ SessionOf[r] = s}
  IN here # {} /\ \A r \in here : Ended(m, r) /\ m.runs[r].done

\* getSubagentRunByChildSessionKey: an un-ended record first; r is the one it
\* answers with, or one of them (the order of creation is left out).
Latest(m, r) ==
  /\ Present(m, r)
  /\ Ended(m, r) => \A q \in Runs : Present(m, q) /\ SessionOf[q] = SessionOf[r] => Ended(m, q)

HookInFlight(m, r) == \E c \in m.calls : c.run = r /\ c.at = "hook"

Unused(m, r) == m.runs[r].fate = "none"

-----------------------------------------------------------------------------
(* What the functions of the registry make of the memory *)

WithCall(m, r, at, by) == [m EXCEPT !.calls = @ \cup {[run |-> r, at |-> at, by |-> by]}]

\* startSubagentAnnounceCleanupFlow, guarded by beginSubagentCleanup.
StartCleanup(m, r) ==
  IF Present(m, r) /\ ~m.runs[r].done /\ ~m.runs[r].handled
  THEN WithCall([m EXCEPT !.runs[r].handled = TRUE], r, "announce", "cleanup")
  ELSE m

\* Mutant: an announcement is resumed without looking at cleanupHandled.
ResumeCaseUnguarded(m, r) ==
  IF r \in m.marks \/ ~Present(m, r) \/ m.runs[r].done THEN "nothing"
  ELSE IF ~Ended(m, r) THEN "wait" ELSE "announce"

\* The early returns of resumeSubagentRun, in their order.
ResumeCase(m, r) ==
  LET e == m.runs[r] IN
  IF r \in m.marks \/ ~Present(m, r) THEN "nothing"
  ELSE IF SessionOf[r] \notin sessions THEN "prune"
  ELSE IF e.done THEN "nothing"
  ELSE IF e.tries >= MaxTries \/ (~Expects(r) /\ Ended(m, r) /\ e.expired) THEN "giveup"
  ELSE IF Expects(r) /\ e.cooling THEN "backoff"
  ELSE IF ~Ended(m, r) THEN "wait"
  ELSE IF e.quiet = "steer" THEN "mark"
  ELSE IF e.handled THEN "nothing" ELSE "announce"

\* resumeSubagentRun for each run of Q; one does not depend on another.
Resume(m, Q) ==
  LET In(k) == {r \in Q : ResumeCase(m, r) = k} IN
  [runs |-> [r \in Runs |->
     IF r \in In("prune")
     THEN [m.runs[r] EXCEPT !.fate = "pruned", !.ended = "error", !.handled = TRUE, !.done = TRUE]
     ELSE IF r \in In("giveup") THEN [m.runs[r] EXCEPT !.done = TRUE]
     ELSE IF r \in In("announce") THEN [m.runs[r] EXCEPT !.handled = TRUE]
     ELSE m.runs[r]],
   marks |-> (m.marks \ In("prune")) \cup UNION {In(k) : k \in {"backoff", "wait", "mark", "announce"}},
   timers |-> m.timers \cup (In("backoff") \X {"backoff"}),
   calls |-> m.calls \cup [run : In("wait"), at : {"wait"}, by : {"wait"}]
                     \cup [run : In("announce"), at : {"announce"}, by : {"cleanup"}]]

\* retryDeferredCompletedAnnounces, when the clean-up of x has ended.
RetryDeferred(m, x) ==
  LET Q == {r \in Runs \ {x} : /\ Present(m, r) /\ Ended(m, r)
                               /\ ~m.runs[r].done /\ ~m.runs[r].handled
                               /\ m.runs[r].quiet # "steer"}
      X == {r \in Q : ~Expects(r) /\ m.runs[r].expired}
  IN Resume([m EXCEPT !.runs = [r \in Runs |-> [m.runs[r] EXCEPT !.done = @ \/ r \in X]],
                      !.marks = @ \ (Q \ X)], Q \ X)

\* completeCleanupBookkeeping
Bookkeep(m, r, delete) ==
  RetryDeferred(IF delete /\ Present(m, r)
                THEN [m EXCEPT !.runs[r].fate = "settled", !.timers = @ \ {<<r, "grace">>}]
                ELSE [m EXCEPT !.runs[r].done = TRUE], r)

\* What each caller of the hook does when it returns.
AfterHook(m, r, by) ==
  CASE by = "success" -> Bookkeep(m, r, Deletes(m, r))
    [] by = "giveup"  -> Bookkeep(m, r, FALSE)
    [] by = "kill"    -> m
    [] OTHER          -> StartCleanup(m, r)

\* Mutant: a hook in flight is not looked for.
EmitHookUnlessDone(m, r, by) ==
  IF m.runs[r].hooked THEN AfterHook(m, r, by) ELSE WithCall(m, r, "hook", by)

\* emitSubagentEndedHookOnce
EmitHookOnce(m, r, by) ==
  IF m.runs[r].hooked \/ HookInFlight(m, r) THEN AfterHook(m, r, by)
  ELSE WithCall(m, r, "hook", by)

\* completeSubagentRun up to its first await.
Complete(m, r, reason, by) ==
  LET e == m.runs[r]
      late == reason = "complete" /\ e.quiet = "killed" /\ (e.handled \/ e.done)
  IN WithCall([m EXCEPT
       !.timers = @ \ {<<r, "grace">>},
       !.runs[r] = [e EXCEPT !.ended = reason, !.expired = @ /\ by = "wait",
                             !.quiet = IF late THEN "no" ELSE @,
                             !.handled = @ /\ ~late, !.done = @ /\ ~late]],
       r, "freeze", by)

\* finalizeSubagentCleanup that gives up: the record is kept as complete.
GiveUp(m, r) ==
  LET n == [m EXCEPT !.runs[r].wake = FALSE]
  IN IF Expects(r) THEN EmitHookOnce(n, r, "giveup") ELSE Bookkeep(n, r, FALSE)

\* finalizeSubagentCleanup that tries again; only completion-mode runs get a timer.
Again(m, r) ==
  LET n == [m EXCEPT !.runs[r].handled = FALSE, !.runs[r].cooling = TRUE, !.marks = @ \ {r}]
  IN IF Expects(r) THEN [n EXCEPT !.timers = @ \cup {<<r, "retry">>}] ELSE n

\* Mutant: attempts are not limited, and not while descendants are pending.
DeferredUnlimited(m, r) ==
  IF Expects(r) /\ PendingBelow(m, SessionOf[r]) # {}
  THEN Again([m EXCEPT !.runs[r].wake = TRUE], r)
  ELSE IF m.runs[r].expired THEN GiveUp(m, r)
  ELSE Again([m EXCEPT !.runs[r].tries = @ + 1], r)

\* resolveDeferredCleanupDecision after a failed announcement, and what it leads to:
\* wait for the descendants, give up, or try again.
Deferred(m, r) ==
  LET e == m.runs[r] IN
  IF Expects(r) /\ PendingBelow(m, SessionOf[r]) # {}
  THEN IF e.expired THEN GiveUp(m, r) ELSE Again([m EXCEPT !.runs[r].wake = TRUE], r)
  ELSE IF e.tries + 1 >= MaxTries \/ e.expired
  THEN GiveUp([m EXCEPT !.runs[r].tries = @ + 1, !.runs[r].cooling = TRUE], r)
  ELSE Again([m EXCEPT !.runs[r].tries = @ + 1], r)

\* Mutant: a delivered announcement is booked without the hook.
FinalizeUnhooked(m, r, announced) ==
  IF ~Present(m, r) THEN m
  ELSE IF announced THEN Bookkeep([m EXCEPT !.runs[r].wake = FALSE], r, Deletes(m, r))
  ELSE Deferred(m, r)

\* finalizeSubagentCleanup
Finalize(m, r, announced) ==
  IF ~Present(m, r) THEN m
  ELSE IF ~announced THEN Deferred(m, r)
  ELSE LET n == [m EXCEPT !.runs[r].wake = FALSE]
       IN IF Expects(r) THEN EmitHookOnce(n, r, "success") ELSE Bookkeep(n, r, Deletes(n, r))

\* replaceSubagentRunAfterSteer
Replace(m, r, n) ==
  WithCall([m EXCEPT !.runs[r].fate = IF @ = "here" THEN "replaced" ELSE @,
                     !.runs[n] = NewRecord(m.runs[r].cleanup),
                     !.timers = @ \ {<<r, "grace">>},
                     !.marks = @ \ {r}], n, "wait", "wait")

\* reactivateCompletedSubagentSession, in the handler of every accepted "agent"
\* call: the ended record of n's session moves to the new run n.
Reactivated(m, n) ==
  LET old == {q \in Runs : Latest(m, q) /\ SessionOf[q] = SessionOf[n] /\ Ended(m, q)}
  IN IF old = {} THEN {m} ELSE {Replace(m, q, n) : q \in old}

-----------------------------------------------------------------------------
(* Steps.  Become counts the hooks that begin; Save is persistSubagentRuns, *)
(* which every handler calls that has changed a record.                     *)

Saved(m) == [r \in Runs |-> IF Present(m, r) THEN m.runs[r] ELSE NoRecord]

\* What nothing reads once a record is gone (run ids do not come back) is dropped; a
\* call that still holds the record reads its suppression, its hook and its cleanup.
Tidy(m) ==
  LET gone == {r \in Runs : ~Present(m, r)}
      held == {c.run : c \in {c \in m.calls : c.at # "wait"}}
      Rest(e, r) == IF r \in held
                    THEN [NoRecord EXCEPT !.fate = e.fate, !.tries = e.tries, !.quiet = e.quiet,
                                          !.hooked = e.hooked, !.cleanup = e.cleanup]
                    ELSE [NoRecord EXCEPT !.fate = e.fate, !.tries = e.tries]
  IN [m EXCEPT !.runs = [r \in Runs |-> IF r \in gone THEN Rest(m.runs[r], r) ELSE m.runs[r]],
               !.marks = @ \ gone,
               !.timers = @ \ (gone \X Timers),
               !.calls = @ \ [run : gone, at : {"wait"}, by : {"wait"}]]

Become(m) ==
  /\ reg' = Tidy(m)
  /\ emitted' = [r \in Runs |-> emitted[r] +
       Cardinality({c \in m.calls \ reg.calls : c.run = r /\ c.at = "hook"})]

Save(m) == disk' = IF m.runs = reg.runs THEN disk ELSE Saved(m)

Incident == incidents < MaxIncidents /\ incidents' = incidents + 1

BecomeAndSave(m) == Become(m) /\ Save(m)

Init ==
  /\ reg = [runs |-> [r \in Runs |-> NoRecord], marks |-> {}, timers |-> {}, calls |-> {}]
  /\ disk = [r \in Runs |-> NoRecord]
  /\ alive = {} /\ sessions = {} /\ cut = {} /\ crashed = FALSE /\ incidents = 0
  /\ emitted = [r \in Runs |-> 0]
  /\ told = [r \in Runs |-> 0]

\* sessions_spawn by the user's session or by a run of the requester's session:
\* the "agent" call has answered, registerSubagentRun.
RegisterRun(r) ==
  /\ r \in FirstRuns /\ Unused(reg, r)
  /\ \/ Requester[SessionOf[r]] = User
     \/ \E q \in alive : SessionOf[q] = Requester[SessionOf[r]]
  /\ \E cleanup \in Cleanups :
       BecomeAndSave(WithCall([reg EXCEPT !.runs[r] = NewRecord(cleanup)], r, "wait", "wait"))
  /\ alive' = alive \cup {r}
  /\ sessions' = sessions \cup {SessionOf[r]}
  /\ UNCHANGED <<told, cut, crashed, incidents>>

\* Phase "end" of the lifecycle listener, also when the run was aborted.
LifecycleEnd(r) ==
  /\ r \in alive
  /\ alive' = alive \ {r}
  /\ Become(IF Present(reg, r) THEN Complete(reg, r, "complete", "listener") ELSE reg)
  /\ UNCHANGED <<disk, sessions, told, cut, crashed, incidents>>

\* Phase "error": the run is over, or its provider retries.
LifecycleError(r) ==
  /\ Incident
  /\ r \in alive
  /\ alive' \in {alive, alive \ {r}}
  /\ Become([reg EXCEPT !.timers = @ \cup {<<q, "grace">> : q \in {q \in {r} : Present(reg, q)}}])
  /\ UNCHANGED <<disk, sessions, told, cut, crashed>>

\* Phase "start": the retry of the provider has begun.
LifecycleStart(r) ==
  /\ r \in alive /\ <<r, "grace">> \in reg.timers
  /\ Become([reg EXCEPT !.timers = @ \ {<<r, "grace">>}])
  /\ UNCHANGED <<disk, alive, sessions, told, cut, crashed, incidents>>

\* The timer of schedulePendingLifecycleError.
GraceEnds(r) ==
  /\ <<r, "grace">> \in reg.timers
  /\ LET m == [reg EXCEPT !.timers = @ \ {<<r, "grace">>}]
     IN Become(IF Present(m, r) /\ m.runs[r].ended # "complete"
               THEN Complete(m, r, "error", "listener") ELSE m)
  /\ UNCHANGED <<disk, alive, sessions, told, cut, crashed, incidents>>

\* waitForSubagentCompletion: "agent.wait" answers that the run is over, or has
\* reached its timeout.  The end is saved before completeSubagentRun is called.
WaitAnswers(c, reason) ==
  /\ c.at = "wait"
  /\ c.run \in alive => reason = "complete"
  /\ LET m == [reg EXCEPT !.calls = @ \ {c}] IN
       IF Present(m, c.run)
       THEN /\ Become(Complete(m, c.run, reason, "wait"))
            /\ disk' = Saved([m EXCEPT !.runs[c.run].ended = reason])
       ELSE Become(m) /\ UNCHANGED disk
  /\ UNCHANGED <<alive, sessions, told, cut, crashed, incidents>>

\* The call fails, and the failure is ignored.
WaitFails(c) ==
  /\ Incident
  /\ c.at = "wait"
  /\ Become([reg EXCEPT !.calls = @ \ {c}])
  /\ UNCHANGED <<disk, alive, sessions, told, cut, crashed>>

\* freezeRunResultAtCompletion and persistSubagentSessionTiming have returned, two
\* awaits in one: the record is saved; the hook follows now, or after the announcement
\* for completion mode; nothing does while a steer is under way.
Frozen(c) ==
  /\ c.at = "freeze"
  /\ LET m == [reg EXCEPT !.calls = @ \ {c}]
         n == IF m.runs[c.run].quiet = "steer" THEN m
              ELSE IF Expects(c.run) THEN StartCleanup(m, c.run)
              ELSE EmitHookOnce(m, c.run, c.by)
     IN Become(n) /\ disk' = Saved(n)
  /\ UNCHANGED <<alive, sessions, told, cut, crashed, incidents>>

\* The handlers of subagent_ended have returned; the task service is notified.
HookDone(c) ==
  /\ c.at = "hook"
  /\ BecomeAndSave(AfterHook([reg EXCEPT !.calls = @ \ {c}, !.runs[c.run].hooked = TRUE], c.run, c.by))
  /\ UNCHANGED <<alive, sessions, told, cut, crashed, incidents>>

\* A step of finalizeSubagentCleanup saves at its end, not before an awaited hook.
SaveFinalized(m) == IF \E c \in m.calls \ reg.calls : c.at = "hook" THEN UNCHANGED disk ELSE Save(m)

\* The child's session is still active when its settle timeout is over, its
\* descendants are pending, or nobody is left to tell: not announced, session kept.
AnnounceWaits(c) ==
  /\ c.at = "announce"
  /\ LET s == SessionOf[c.run]
     IN \/ \E q \in alive : SessionOf[q] = s
        \/ PendingBelow(reg, s) # {}
        \/ /\ Requester[s] # User /\ Requester[s] \notin sessions
           /\ \A q \in Runs : SessionOf[q] = Requester[s] => ~Present(reg, q)
  /\ LET m == Finalize([reg EXCEPT !.calls = @ \ {c}], c.run, FALSE)
     IN Become(m) /\ SaveFinalized(m)
  /\ UNCHANGED <<alive, sessions, told, cut, crashed, incidents>>

\* No delivery is due: the requester is itself complete, or the reply is silent.
AnnounceSkips(c) ==
  /\ c.at = "announce"
  /\ \A q \in alive : SessionOf[q] # SessionOf[c.run]
  /\ LET s == SessionOf[c.run] IN
       /\ \/ Requester[s] # User /\ PostCompletion(reg, Requester[s])
          \/ PendingBelow(reg, s) = {}
       /\ sessions' = IF Deletes(reg, c.run) THEN sessions \ {s} ELSE sessions
  /\ LET m == Finalize([reg EXCEPT !.calls = @ \ {c}], c.run, TRUE)
     IN Become(m) /\ SaveFinalized(m)
  /\ UNCHANGED <<alive, told, cut, crashed, incidents>>

\* All is settled, and the announcement is sent to the requester.
BeginDelivery(m, c) == [m EXCEPT !.calls = (@ \ {c}) \cup {[c EXCEPT !.at = "deliver"]}]

AnnounceDelivers(c) ==
  /\ c.at = "announce"
  /\ \A q \in alive : SessionOf[q] # SessionOf[c.run]
  /\ PendingBelow(reg, SessionOf[c.run]) = {}
  /\ ~(Requester[SessionOf[c.run]] # User /\ PostCompletion(reg, Requester[SessionOf[c.run]]))
  /\ Become(BeginDelivery(reg, c))
  /\ UNCHANGED <<disk, alive, sessions, told, cut, crashed, incidents>>

\* wakeSubagentRunAfterDescendants: the gateway accepts the "agent" call of run w,
\* and its handler reactivates the session's record when that has ended.
WakeAccepted(c, w) ==
  /\ c.at = "announce"
  /\ w \in WakeRuns /\ Unused(reg, w) /\ SessionOf[w] = SessionOf[c.run]
  /\ c.run \notin WakeRuns /\ reg.runs[c.run].wake
  /\ SessionOf[c.run] \in sessions
  /\ \A q \in alive : SessionOf[q] # SessionOf[c.run]
  /\ PendingBelow(reg, SessionOf[c.run]) = {}
  /\ \E q \in Runs : Present(reg, q) /\ Requester[SessionOf[q]] = SessionOf[c.run]
  /\ \E m \in Reactivated([reg EXCEPT !.calls = (@ \ {c}) \cup {[c EXCEPT !.at = "woken"]}], w) :
       BecomeAndSave(m)
  /\ alive' = alive \cup {w}
  /\ UNCHANGED <<sessions, told, cut, crashed, incidents>>

\* The answer to it: the record is replaced and nothing is announced; if it is
\* there no more, the wake counts as failed and the announcement goes on.
WakeAnswers(c, w) ==
  /\ c.at = "woken"
  /\ w \in WakeRuns /\ SessionOf[w] = SessionOf[c.run] /\ (~Unused(reg, w) \/ w \in alive)
  /\ IF Present(reg, c.run)
     THEN BecomeAndSave(Replace([reg EXCEPT !.calls = @ \ {c}], c.run, w))
     ELSE Become(BeginDelivery(reg, c)) /\ UNCHANGED disk
  /\ UNCHANGED <<alive, sessions, told, cut, crashed, incidents>>

\* deliverSubagentAnnouncement has returned; a session of mode "delete" is then
\* deleted, whether or not the announcement was delivered.
DeliveryAnswers(c, delivered) ==
  /\ c.at = "deliver"
  /\ told' = [told EXCEPT ![c.run] = IF delivered THEN @ + 1 ELSE @]
  /\ sessions' = IF Deletes(reg, c.run) THEN sessions \ {SessionOf[c.run]} ELSE sessions
  /\ LET m == Finalize([reg EXCEPT !.calls = @ \ {c}], c.run, delivered)
     IN Become(m) /\ SaveFinalized(m)
  /\ UNCHANGED <<alive, cut, crashed, incidents>>

\* The timers that end in resumeSubagentRun; one of them clears the marker first.
TimerFires(r, kind) ==
  /\ <<r, kind>> \in reg.timers /\ kind \in {"retry", "backoff"}
  /\ BecomeAndSave(Resume([reg EXCEPT !.timers = @ \ {<<r, kind>>},
                                      !.marks = IF kind = "backoff" THEN @ \ {r} ELSE @], {r}))
  /\ UNCHANGED <<alive, sessions, told, cut, crashed, incidents>>

\* The back-off is over; the run ended longer ago than announcements are kept.
Cool(r) ==
  /\ Present(reg, r) /\ reg.runs[r].cooling
  /\ Become([reg EXCEPT !.runs[r].cooling = FALSE])
  /\ disk' = [disk EXCEPT ![r].cooling = FALSE]
  /\ UNCHANGED <<alive, sessions, told, cut, crashed, incidents>>

Expire(r) ==
  /\ Present(reg, r) /\ Ended(reg, r) /\ ~reg.runs[r].done /\ ~reg.runs[r].expired
  /\ Become([reg EXCEPT !.runs[r].expired = TRUE])
  /\ disk' = [disk EXCEPT ![r].expired = disk[r].ended # "no"]
  /\ UNCHANGED <<alive, sessions, told, cut, crashed, incidents>>

\* The records of x's session that have not ended.
LiveBeside(x) ==
  {q \in Runs : SessionOf[q] = SessionOf[x] /\ Present(reg, q) /\ ~Ended(reg, q)}

Killed(e) == [e EXCEPT !.ended = "killed", !.handled = TRUE, !.done = TRUE, !.quiet = "killed"]

KilledWith(x) ==
  [reg EXCEPT
     !.runs = [q \in Runs |-> IF q \in LiveBeside(x) THEN Killed(@[q]) ELSE @[q]],
     !.timers = {a \in @ : a[2] # "grace" \/ SessionOf[a[1]] # SessionOf[x]}]

\* Kill: markSubagentRunTerminated ends every record of the session, and emits the hook
\* for one of them; the abort of the run is a later LifecycleEnd.
MarkTerminated(r) ==
  /\ Incident
  /\ r \in LiveBeside(r)
  /\ BecomeAndSave(EmitHookOnce(KilledWith(r), r, "kill"))
  /\ cut' = cut \cup (LiveBeside(r) \ {r})
  /\ UNCHANGED <<alive, sessions, told, crashed>>

\* steerControlledSubagentRun: the run is marked and aborted, its end awaited.
MarkForSteer(r) ==
  /\ Incident
  /\ Present(reg, r) /\ ~Ended(reg, r) /\ reg.runs[r].quiet # "steer"
  /\ BecomeAndSave(WithCall([reg EXCEPT !.runs[r].quiet = "steer"], r, "steer", "control"))
  /\ UNCHANGED <<alive, sessions, told, cut, crashed>>

\* Mutant: a run that ended during the refused steer is not resumed.
SteerFailsQuietly(c) ==
  /\ c.at = "steer"
  /\ BecomeAndSave([reg EXCEPT !.calls = @ \ {c}, !.runs[c.run].quiet = "no"])
  /\ UNCHANGED <<alive, sessions, told, cut, crashed, incidents>>

\* clearSubagentRunSteerRestart, when the "agent" call is refused.
SteerFails(c) ==
  /\ c.at = "steer"
  /\ LET m == [reg EXCEPT !.calls = @ \ {c}]
         clear == [m EXCEPT !.runs[c.run].quiet = "no", !.marks = @ \ {c.run}]
     IN BecomeAndSave(IF ~Present(m, c.run) \/ m.runs[c.run].quiet # "steer" THEN m
                      ELSE IF Ended(m, c.run) /\ ~m.runs[c.run].done THEN Resume(clear, {c.run})
                      ELSE clear)
  /\ UNCHANGED <<alive, sessions, told, cut, crashed, incidents>>

\* An id for a run that is started in a session that had one before.
Follows(r, n) ==
  Unused(reg, n) /\ n \notin FirstRuns \cup WakeRuns /\ SessionOf[n] = SessionOf[r]

\* The "agent" call of the steer is accepted: the record moves to the new run, also
\* when it is no longer in the registry (the fallback).
SteerSucceeds(c, n) ==
  /\ c.at = "steer" /\ Follows(c.run, n)
  /\ SessionOf[c.run] \in sessions
  /\ \E m \in Reactivated([reg EXCEPT !.calls = @ \ {c}], n) : BecomeAndSave(Replace(m, c.run, n))
  /\ alive' = alive \cup {n}
  /\ UNCHANGED <<sessions, told, cut, crashed, incidents>>

\* An "agent" or "sessions.send" call for a session whose run has ended, also the
\* one that delivers the announcement of a child.
Reactivate(r, n) ==
  /\ Incident
  /\ Latest(reg, r) /\ Ended(reg, r) /\ Follows(r, n)
  /\ SessionOf[r] \in sessions
  /\ \E m \in Reactivated(reg, n) : BecomeAndSave(m)
  /\ alive' = alive \cup {n}
  /\ UNCHANGED <<sessions, told, cut, crashed>>

\* resumeOrphanedSession, some time after a restart.
RecoverOrphan(r, n) ==
  /\ crashed /\ Present(reg, r) /\ ~Ended(reg, r) /\ r \notin alive /\ Follows(r, n)
  /\ SessionOf[r] \in sessions
  /\ BecomeAndSave(Replace(reg, r, n))
  /\ alive' = alive \cup {n}
  /\ UNCHANGED <<sessions, told, cut, crashed, incidents>>

\* sweepSubagentRuns: an hour after its creation a record of mode "delete" goes,
\* with its session, whatever its state.
Archive(r) ==
  /\ Present(reg, r) /\ Deletes(reg, r)
  /\ BecomeAndSave([reg EXCEPT !.runs[r].fate = "archived", !.timers = @ \ {<<r, "grace">>}])
  /\ sessions' = sessions \ {SessionOf[r]}
  /\ UNCHANGED <<alive, told, cut, crashed, incidents>>

\* The gateway dies and starts again: restoreSubagentRunsOnce.
Restart ==
  /\ Incident
  /\ LET read == [runs |-> [r \in Runs |->
                     IF disk[r].fate = "here" THEN disk[r] ELSE reg.runs[r]],
                   marks |-> {}, timers |-> {}, calls |-> {}]
         m == Resume(read, {r \in Runs : Present(read, r)})
     IN /\ reg' = Tidy(m)
        /\ disk' = Saved(m)
        /\ cut' = cut \cup {r \in Runs :
             \/ Present(m, r) /\ disk[r].handled /\ ~disk[r].done
             \/ Present(m, r) /\ disk[r].quiet = "steer"
             \/ HookInFlight(reg, r)}
  /\ emitted' = [r \in Runs |-> IF HookInFlight(reg, r) THEN emitted[r] - 1 ELSE emitted[r]]
  /\ alive' = {} /\ crashed' = TRUE
  /\ UNCHANGED <<sessions, told>>

Next ==
  \/ \E r \in Runs : RegisterRun(r) \/ LifecycleEnd(r) \/ LifecycleError(r) \/ LifecycleStart(r)
                    \/ GraceEnds(r) \/ MarkTerminated(r) \/ MarkForSteer(r) \/ Archive(r)
                    \/ Cool(r) \/ Expire(r)
  \/ \E c \in reg.calls : \/ \E reason \in {"complete", "error"} : WaitAnswers(c, reason)
                         \/ WaitFails(c) \/ Frozen(c) \/ HookDone(c)
                         \/ AnnounceWaits(c) \/ AnnounceSkips(c) \/ AnnounceDelivers(c)
                         \/ \E ok \in BOOLEAN : DeliveryAnswers(c, ok)
                         \/ SteerFails(c)
  \/ \E c \in reg.calls, n \in Runs : WakeAccepted(c, n) \/ WakeAnswers(c, n) \/ SteerSucceeds(c, n)
  \/ \E r, n \in Runs : Reactivate(r, n) \/ RecoverOrphan(r, n)
  \/ \E r \in Runs, kind \in Timers : TimerFires(r, kind)
  \/ Restart

\* What is awaited comes back, retry timers fire and time passes; that runs end, and
\* everything a user or an agent does, is left open.  Due is when a step of that kind
\* can be taken for r, and Served that one is: the first conjunct is weak fairness
\* written out, since ENABLED of these steps is costly to compute.
Due(r) ==
  \/ \E c \in reg.calls : c.run = r /\ c.at # "wait"
  \/ \E kind \in {"retry", "backoff"} : <<r, kind>> \in reg.timers

Served(r) ==
  \/ \E c \in reg.calls \ reg'.calls : c.run = r /\ c.at # "wait"
  \/ \E kind \in {"retry", "backoff"} : <<r, kind>> \in reg.timers \ reg'.timers

Fairness ==
  \A r \in Runs : /\ []<>~Due(r) \/ []<><<Served(r)>>_vars
                 /\ WF_vars(Cool(r)) /\ WF_vars(Expire(r))

SafetySpec == Init /\ [][Next]_vars
Spec == SafetySpec /\ Fairness

-----------------------------------------------------------------------------
(* Properties *)

TypeOK ==
  /\ reg \in Memory
  /\ disk \in [Runs -> Record]
  /\ alive \subseteq Runs /\ sessions \subseteq Sessions /\ cut \subseteq Runs
  /\ emitted \in [Runs -> Nat] /\ told \in [Runs -> Nat]
  /\ crashed \in BOOLEAN /\ incidents \in 0..MaxIncidents

InFlight(r, stages) == {c \in reg.calls : c.run = r /\ c.at \in stages}

\* The end of a run is heard from the listener, from agent.wait, from the grace timer
\* and from a kill, and its hook is awaited in four places: still the hook
\* (emitSubagentEndedHookOnce) runs at most once for each run, also over a restart.
HookOnce == \A r \in Runs : emitted[r] <= 1

\* cleanupHandled lets one announcement at a time through, whichever of retry timer,
\* back-off timer, settled descendant, failed steer and restart resumes it, and the
\* requester hears of a run at most once.
ToldOnce ==
  \A r \in Runs : told[r] <= 1 /\ Cardinality(InFlight(r, {"announce", "woken", "deliver"})) <= 1

\* A run that ended and is not yet cleaned up is always in the hands of something
\* that goes on: a call in flight, a timer, a steer. Plain runs get no timer
\* (resumeDelayMs is undefined) and are left out, as is what was cut off: by a crash, or
\* by a kill that ended two records of the session with one hook.
InMotion ==
  \A r \in Runs \ cut :
    Present(reg, r) /\ Ended(reg, r) /\ Expects(r) /\ ~reg.runs[r].done =>
      \/ InFlight(r, Stages \ {"wait"}) # {}
      \/ <<r, "retry">> \in reg.timers \/ <<r, "backoff">> \in reg.timers

\* A completion-mode run is not settled (record deleted, or clean-up complete) before
\* its deferred subagent_ended hook has begun: the task service would never hear.  Cut
\* off are those that a crash left half cleaned up, and the second of two live records of
\* a session that is killed, which gets no hook.
SettledAfterHook ==
  \A r \in Runs \ cut :
    Expects(r) /\ (reg.runs[r].fate = "settled" \/ (Present(reg, r) /\ reg.runs[r].done)) =>
      emitted[r] = 1

\* Every ended completion-mode run is announced or given up in the end, however often
\* the delivery fails and however long descendants are pending (the hard expiry); unless
\* it was cut off.
EndedSettles ==
  \A r \in Runs : Expects(r) =>
    (Present(reg, r) /\ disk[r].ended # "no" ~> ~Present(reg, r) \/ reg.runs[r].done \/ r \in cut)

\* The comment on the retry of finalizeSubagentCleanup: delete-mode is finalized only
\* after the announcement succeeds or is given up; the code prunes the record as an
\* orphan at the first retry, since the failed announcement has deleted the session.
AnnounceIsRetried == \A r \in Runs : reg.runs[r].fate = "pruned" => reg.runs[r].tries = 0

=============================================================================
