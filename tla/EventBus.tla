------------------------------ MODULE EventBus ------------------------------
(***************************************************************************)
(* The event bus (src/tasks/events.ts) statement by statement.  emitEvent  *)
(* and registerWaitCondition each run four SQL statements without a        *)
(* transaction around them.  In the gateway nothing runs between the four, *)
(* but `openclaw tasks approve` and `reject` emit from processes of their  *)
(* own, so that the statements of several processes interleave in the      *)
(* database.  A command line may be killed half way.                       *)
(*                                                                         *)
(* Names, filters and data matter only in what fits what.                  *)
(***************************************************************************)
EXTENDS Naturals, FiniteSets

CONSTANTS
  Events,   \* rows of task_events
  Waits,    \* rows of task_wait_conditions
  Fits,     \* <<w, e>>: the name and the filter of w admit e
  Gateways, \* gateway processes, one after the other
  Clis,     \* command lines
  None

ASSUME FitsType == Fits \subseteq Waits \X Events
ASSUME NoneIsNoRow == None \notin Events \cup Waits

VARIABLES
  event,    \* "none", "pending" (unconsumed) or "consumed"
  wait,     \* "none", "active" or "removed"
  proc,     \* what a process is about to do, and with which rows
  killed,   \* processes that have died
  answered  \* <<p, w, e>>: p's call returned "matched" for w and e

vars == <<event, wait, proc, killed, answered>>

Procs == Gateways \cup Clis

Idle == [pc |-> "idle", wait |-> None, event |-> None]

Init ==
  /\ event = [e \in Events |-> "none"]
  /\ wait = [w \in Waits |-> "none"]
  /\ proc = [p \in Procs |-> Idle]
  /\ killed = {}
  /\ answered = {}

At(p, pc) == p \notin killed /\ proc[p].pc = pc
Goto(p, pc, w, e) == proc' = [proc EXCEPT ![p] = [pc |-> pc, wait |-> w, event |-> e]]

\* Of the gateway processes one is at work; the next starts when it has died.
MayBegin(p) ==
  /\ At(p, "idle")
  /\ p \in Gateways => \A g \in Gateways \ {p} : At(g, "idle") \/ g \in killed

\* emitEvent: insertEvent
InsertEvent(p) ==
  /\ MayBegin(p)
  /\ \E e \in Events :
       /\ event[e] = "none"
       /\ event' = [event EXCEPT ![e] = "pending"]
       /\ Goto(p, "findWait", None, e)
  /\ UNCHANGED <<wait, killed, answered>>

\* Mutant: a search without result is taken for a match.
FindMatchingWaitUnchecked(p) ==
  /\ At(p, "findWait")
  /\ LET e == proc[p].event
         fitting == {w \in Waits : wait[w] = "active" /\ <<w, e>> \in Fits}
     IN  \/ fitting = {} /\ Goto(p, "consume", None, e)
         \/ \E w \in fitting : Goto(p, "consume", w, e)
  /\ UNCHANGED <<event, wait, killed, answered>>

\* findMatchingWait: the oldest one that fits (any one here: created_at counts
\* milliseconds).
FindMatchingWait(p) ==
  /\ At(p, "findWait")
  /\ LET e == proc[p].event
         fitting == {w \in Waits : wait[w] = "active" /\ <<w, e>> \in Fits}
     IN  \/ fitting = {} /\ Goto(p, "idle", None, None)
         \/ \E w \in fitting : Goto(p, "consume", w, e)
  /\ UNCHANGED <<event, wait, killed, answered>>

\* registerWaitCondition, in the gateway only: insertWaitCondition
InsertWaitCondition(g) ==
  /\ MayBegin(g)
  /\ \E w \in Waits :
       /\ wait[w] = "none"
       /\ wait' = [wait EXCEPT ![w] = "active"]
       /\ Goto(g, "findEvent", w, None)
  /\ UNCHANGED <<event, killed, answered>>

\* Mutant: the registration does not look for an event that is there already.
FindNoEvent(g) ==
  /\ At(g, "findEvent")
  /\ Goto(g, "idle", None, None)
  /\ UNCHANGED <<event, wait, killed, answered>>

\* findUnconsumedEvent: "fixes TOCTOU race" says the code.
FindUnconsumedEvent(g) ==
  /\ At(g, "findEvent")
  /\ LET w == proc[g].wait
         fitting == {e \in Events : event[e] = "pending" /\ <<w, e>> \in Fits}
     IN  \/ fitting = {} /\ Goto(g, "idle", None, None)
         \/ \E e \in fitting : Goto(g, "consume", w, e)
  /\ UNCHANGED <<event, wait, killed, answered>>

\* UPDATE ... WHERE id = ?: consumed before or not
ConsumeEvent(p) ==
  /\ At(p, "consume")
  /\ event' = [event EXCEPT ![proc[p].event] = "consumed"]
  /\ Goto(p, "remove", proc[p].wait, proc[p].event)
  /\ UNCHANGED <<wait, killed, answered>>

\* Mutant: the condition stays.
RemoveNothing(p) ==
  /\ At(p, "remove")
  /\ Goto(p, "idle", None, None)
  /\ answered' = answered \cup {<<p, proc[p].wait, proc[p].event>>}
  /\ UNCHANGED <<event, wait, killed>>

\* Mutant: a call whose condition is gone already returns "not matched".
RemoveIfActive(p) ==
  LET w == proc[p].wait
  IN  /\ At(p, "remove")
      /\ wait' = [wait EXCEPT ![w] = "removed"]
      /\ Goto(p, "idle", None, None)
      /\ answered' = IF wait[w] = "active"
                     THEN answered \cup {<<p, w, proc[p].event>>} ELSE answered
      /\ UNCHANGED <<event, killed>>

\* DELETE ... WHERE id = ?, and the call returns.
RemoveWaitCondition(p) ==
  /\ At(p, "remove")
  /\ wait' = [wait EXCEPT ![proc[p].wait] = "removed"]
  /\ Goto(p, "idle", None, None)
  /\ answered' = answered \cup {<<p, proc[p].wait, proc[p].event>>}
  /\ UNCHANGED <<event, killed>>

\* The sweep of the dispatcher removes conditions that have expired.
ExpireWait(g) ==
  /\ MayBegin(g)
  /\ \E w \in Waits : wait[w] = "active" /\ wait' = [wait EXCEPT ![w] = "removed"]
  /\ UNCHANGED <<event, proc, killed, answered>>

Kill(p) ==
  /\ p \notin killed
  /\ proc[p].pc # "idle"
  /\ killed' = killed \cup {p}
  /\ UNCHANGED <<event, wait, proc, answered>>

Next ==
  \/ \E p \in Procs :
       \/ InsertEvent(p) \/ FindMatchingWait(p)
       \/ ConsumeEvent(p) \/ RemoveWaitCondition(p)
       \/ Kill(p)
  \/ \E g \in Gateways : InsertWaitCondition(g) \/ FindUnconsumedEvent(g) \/ ExpireWait(g)

Spec == Init /\ [][Next]_vars

-----------------------------------------------------------------------------
(* Properties *)

\* Every variable has its type.
TypeOK ==
  /\ event \in [Events -> {"none", "pending", "consumed"}]
  /\ wait \in [Waits -> {"none", "active", "removed"}]
  /\ proc \in [Procs -> [pc : {"idle", "findWait", "findEvent", "consume", "remove"},
                         wait : Waits \cup {None}, event : Events \cup {None}]]
  /\ killed \subseteq Procs
  /\ answered \subseteq Procs \X Waits \X Events

\* The call of p, at work or killed in the middle of it, has still to deal with
\* the event or with the condition.
Unfinished(p, w, e) ==
  \/ proc[p].pc \in {"findWait", "consume"} /\ proc[p].event = e
  \/ proc[p].pc \in {"findEvent", "consume", "remove"} /\ proc[p].wait = w

\* No wakeup is lost although no transaction protects it: an event lies beside a
\* condition it fits only while some call has not finished (or never will, when
\* it was killed).  Each side stores its row before it looks for the other.
NoLostWakeup ==
  \A w \in Waits, e \in Events :
    (wait[w] = "active" /\ event[e] = "pending" /\ <<w, e>> \in Fits)
      => \E p \in Procs : Unfinished(p, w, e)

\* An event is consumed for somebody: a call has returned it, or has still to.
ConsumedIsAnswered ==
  \A e \in Events :
    event[e] = "consumed" =>
      \/ \E x \in answered : x[3] = e
      \/ \E p \in Procs : proc[p].pc = "remove" /\ proc[p].event = e

\* Between themselves the calls of the gateway match one to one, whatever the
\* command lines do meanwhile: no condition is woken twice, no event used twice.
GatewayMatchesOnce ==
  \A x, y \in answered :
    (x[1] \in Gateways /\ y[1] \in Gateways /\ (x[2] = y[2] \/ x[3] = y[3])) => x = y
=============================================================================
