------------------------------ MODULE TaskPlan ------------------------------
(***************************************************************************)
(* What the task engine promises, without dispatcher, runs or events: each *)
(* task is tried a bounded number of times, a gated task is never tried    *)
(* before everything it needs is done, and done or dropped is final.       *)
(* Several tasks may move in one step (one tick starts many, one           *)
(* completion may release many), each by a move of its own.                *)
(***************************************************************************)
EXTENDS Naturals

CONSTANTS
  Tasks,
  Gated,        \* the tasks whose needs are all known when they are created
  MaxAttempts   \* how often each task may be tried

VARIABLES phase, attempts, needs

vars == <<phase, attempts, needs>>

Phase == {"absent", "open", "active", "done", "failed", "dropped"}

Init ==
  /\ phase = [t \in Tasks |-> "absent"]
  /\ attempts = [t \in Tasks |-> 0]
  /\ needs = [t \in Tasks |-> {}]

Moves(t, from, to) == phase[t] \in from /\ phase'[t] = to

KeepsAttempts(t) == attempts'[t] = attempts[t]
KeepsNeeds(t) == needs'[t] = needs[t]

Create(t) == Moves(t, {"absent"}, "open") /\ KeepsAttempts(t)

\* Only a task outside Gated learns of a need after its creation.
Learn(t) == t \notin Gated /\ phase'[t] = phase[t] /\ KeepsAttempts(t)

Start(t) ==
  /\ Moves(t, {"open"}, "active")
  /\ attempts[t] < MaxAttempts[t]
  /\ attempts'[t] = attempts[t] + 1
  /\ t \in Gated => \A d \in needs[t] : phase[d] = "done"
  /\ KeepsNeeds(t)

End(t) ==
  /\ Moves(t, {"active"}, "done") \/ Moves(t, {"active"}, "failed")
  /\ KeepsAttempts(t)
  /\ KeepsNeeds(t)

\* A failed attempt may be repeated, in the step that fails it or later.
Retry(t) ==
  /\ Moves(t, {"active", "failed"}, "open")
  /\ attempts[t] < MaxAttempts[t]
  /\ KeepsAttempts(t)
  /\ KeepsNeeds(t)

Drop(t) ==
  /\ Moves(t, {"open", "active"}, "dropped")
  /\ KeepsAttempts(t)
  /\ KeepsNeeds(t)

Stay(t) == phase'[t] = phase[t] /\ KeepsAttempts(t) /\ KeepsNeeds(t)

Next ==
  \A t \in Tasks :
    Create(t) \/ Learn(t) \/ Start(t) \/ End(t) \/ Retry(t) \/ Drop(t) \/ Stay(t)

Spec == Init /\ [][Next]_vars
=============================================================================
