--------------------------- MODULE EventBus_proofs ---------------------------
(***************************************************************************)
(* Proofs about EventBus, for any number of events, conditions, gateway    *)
(* processes and command lines.                                            *)
(***************************************************************************)
EXTENDS EventBus, TLAPS

\* What a process points at while it is busy.
Pointers ==
  \A p \in Procs :
    /\ proc[p].pc \in {"findWait", "consume", "remove"} => proc[p].event \in Events
    /\ proc[p].pc \in {"findEvent", "consume", "remove"} => proc[p].wait \in Waits

LEMMA WaitSearch ==
  ASSUME TypeOK, Pointers, NEW p \in Procs, FindMatchingWait(p)
  PROVE  /\ proc[p].pc = "findWait" /\ proc[p].event \in Events
         /\ UNCHANGED <<event, wait, killed, answered>>
         /\ \/ /\ proc' = [proc EXCEPT ![p] = [pc |-> "idle", wait |-> None, event |-> None]]
               /\ \A w \in Waits : wait[w] = "active" => <<w, proc[p].event>> \notin Fits
            \/ \E w \in Waits :
                 /\ wait[w] = "active"
                 /\ proc' = [proc EXCEPT ![p] =
                              [pc |-> "consume", wait |-> w, event |-> proc[p].event]]
BY Zenon DEF FindMatchingWait, Goto, At, Pointers

LEMMA EventSearch ==
  ASSUME TypeOK, Pointers, NEW g \in Gateways, FindUnconsumedEvent(g)
  PROVE  /\ proc[g].pc = "findEvent" /\ proc[g].wait \in Waits
         /\ UNCHANGED <<event, wait, killed, answered>>
         /\ \/ /\ proc' = [proc EXCEPT ![g] = [pc |-> "idle", wait |-> None, event |-> None]]
               /\ \A e \in Events : event[e] = "pending" => <<proc[g].wait, e>> \notin Fits
            \/ \E e \in Events :
                 /\ event[e] = "pending"
                 /\ proc' = [proc EXCEPT ![g] =
                              [pc |-> "consume", wait |-> proc[g].wait, event |-> e]]
BY Zenon DEF FindUnconsumedEvent, Goto, At, Pointers, Procs

LEMMA Types ==
  ASSUME TypeOK, Pointers, [Next]_vars
  PROVE  TypeOK' /\ Pointers'
<1> USE DEF TypeOK, Pointers, Procs
<1>1. ASSUME NEW p \in Procs, InsertEvent(p) PROVE TypeOK' /\ Pointers'
  BY <1>1 DEF InsertEvent, Goto
<1>2. ASSUME NEW p \in Procs, FindMatchingWait(p) PROVE TypeOK' /\ Pointers'
  BY <1>2, WaitSearch
<1>3. ASSUME NEW p \in Procs, ConsumeEvent(p) PROVE TypeOK' /\ Pointers'
  BY <1>3 DEF ConsumeEvent, Goto, At
<1>4. ASSUME NEW p \in Procs, RemoveWaitCondition(p) PROVE TypeOK' /\ Pointers'
  BY <1>4 DEF RemoveWaitCondition, Goto, At
<1>5. ASSUME NEW p \in Procs, Kill(p) PROVE TypeOK' /\ Pointers'
  BY <1>5 DEF Kill
<1>6. ASSUME NEW g \in Gateways, InsertWaitCondition(g) PROVE TypeOK' /\ Pointers'
  BY <1>6 DEF InsertWaitCondition, Goto
<1>7. ASSUME NEW g \in Gateways, FindUnconsumedEvent(g) PROVE TypeOK' /\ Pointers'
  BY <1>7, EventSearch
<1>8. ASSUME NEW g \in Gateways, ExpireWait(g) PROVE TypeOK' /\ Pointers'
  BY <1>8 DEF ExpireWait
<1>9. CASE UNCHANGED vars
  BY <1>9 DEF vars
<1> QED BY <1>1, <1>2, <1>3, <1>4, <1>5, <1>6, <1>7, <1>8, <1>9 DEF Next

\* A row that is stored is stored before its process looks for the other side, so
\* whichever of two rows came later is seen.
LEMMA WakeupStep ==
  ASSUME TypeOK, Pointers, NoLostWakeup, [Next]_vars
  PROVE  NoLostWakeup'
<1> USE DEF TypeOK, Pointers, NoLostWakeup, Unfinished, Procs
<1>1. ASSUME NEW p \in Procs, InsertEvent(p) PROVE NoLostWakeup'
  BY <1>1 DEF InsertEvent, MayBegin, Goto, At
<1>2. ASSUME NEW p \in Procs, FindMatchingWait(p) PROVE NoLostWakeup'
  BY <1>2, WaitSearch
<1>3. ASSUME NEW p \in Procs, ConsumeEvent(p) PROVE NoLostWakeup'
  BY <1>3 DEF ConsumeEvent, Goto, At
<1>4. ASSUME NEW p \in Procs, RemoveWaitCondition(p) PROVE NoLostWakeup'
  BY <1>4 DEF RemoveWaitCondition, Goto, At
<1>5. ASSUME NEW p \in Procs, Kill(p) PROVE NoLostWakeup'
  BY <1>5 DEF Kill
<1>6. ASSUME NEW g \in Gateways, InsertWaitCondition(g) PROVE NoLostWakeup'
  BY <1>6 DEF InsertWaitCondition, MayBegin, Goto, At
<1>7. ASSUME NEW g \in Gateways, FindUnconsumedEvent(g) PROVE NoLostWakeup'
  BY <1>7, EventSearch
<1>8. ASSUME NEW g \in Gateways, ExpireWait(g) PROVE NoLostWakeup'
  BY <1>8 DEF ExpireWait
<1>9. CASE UNCHANGED vars
  BY <1>9 DEF vars
<1> QED BY <1>1, <1>2, <1>3, <1>4, <1>5, <1>6, <1>7, <1>8, <1>9 DEF Next

LEMMA ConsumedStep ==
  ASSUME TypeOK, Pointers, ConsumedIsAnswered, [Next]_vars
  PROVE  ConsumedIsAnswered'
<1> USE DEF TypeOK, Pointers, ConsumedIsAnswered, Procs
<1>1. ASSUME NEW p \in Procs, InsertEvent(p) PROVE ConsumedIsAnswered'
  BY <1>1 DEF InsertEvent, MayBegin, Goto, At
<1>2. ASSUME NEW p \in Procs, FindMatchingWait(p) PROVE ConsumedIsAnswered'
  BY <1>2, WaitSearch
<1>3. ASSUME NEW p \in Procs, ConsumeEvent(p) PROVE ConsumedIsAnswered'
  BY <1>3 DEF ConsumeEvent, Goto, At
<1>4. ASSUME NEW p \in Procs, RemoveWaitCondition(p) PROVE ConsumedIsAnswered'
  <2> SUFFICES ASSUME NEW e \in Events, event'[e] = "consumed"
               PROVE  \/ \E x \in answered' : x[3] = e
                      \/ \E q \in Procs : proc'[q].pc = "remove" /\ proc'[q].event = e
    OBVIOUS
  <2>1. event[e] = "consumed"
    BY <1>4 DEF RemoveWaitCondition
  <2>2. CASE \E x \in answered : x[3] = e
    BY <1>4, <2>2 DEF RemoveWaitCondition
  <2>3. ASSUME NEW q \in Procs, proc[q].pc = "remove", proc[q].event = e
        PROVE  \/ \E x \in answered' : x[3] = e
               \/ \E r \in Procs : proc'[r].pc = "remove" /\ proc'[r].event = e
    <3>1. CASE q = p
      <4>1. <<p, proc[p].wait, proc[p].event>> \in answered'
        BY <1>4 DEF RemoveWaitCondition
      <4> QED BY <2>3, <3>1, <4>1
    <3>2. CASE q # p
      BY <1>4, <2>3, <3>2 DEF RemoveWaitCondition, Goto
    <3> QED BY <3>1, <3>2
  <2> QED BY <2>1, <2>2, <2>3
<1>5. ASSUME NEW p \in Procs, Kill(p) PROVE ConsumedIsAnswered'
  BY <1>5 DEF Kill
<1>6. ASSUME NEW g \in Gateways, InsertWaitCondition(g) PROVE ConsumedIsAnswered'
  BY <1>6 DEF InsertWaitCondition, MayBegin, Goto, At
<1>7. ASSUME NEW g \in Gateways, FindUnconsumedEvent(g) PROVE ConsumedIsAnswered'
  BY <1>7, EventSearch
<1>8. ASSUME NEW g \in Gateways, ExpireWait(g) PROVE ConsumedIsAnswered'
  BY <1>8 DEF ExpireWait
<1>9. CASE UNCHANGED vars
  BY <1>9 DEF vars
<1> QED BY <1>1, <1>2, <1>3, <1>4, <1>5, <1>6, <1>7, <1>8, <1>9 DEF Next

-----------------------------------------------------------------------------
(* The gateway matches one to one. *)

Working(g) == g \notin killed /\ proc[g].pc # "idle"

\* Only one gateway works at a time.
OneGatewayWorks ==
  \A g, h \in Gateways : Working(g) /\ Working(h) => g = h

\* Whoever removes a condition has consumed the event.
RemovesAfterConsuming ==
  \A p \in Procs : proc[p].pc = "remove" => event[proc[p].event] = "consumed"

\* A returned condition is removed and a returned event consumed, for good.
AnswersAreFinal ==
  \A x \in answered : wait[x[2]] = "removed" /\ event[x[3]] = "consumed"

\* What a gateway has in its hands, no gateway has returned.
HandsAreFresh ==
  \A g \in Gateways : Working(g) =>
    \A x \in answered : x[1] \in Gateways =>
      /\ proc[g].pc \in {"findEvent", "consume", "remove"} => x[2] # proc[g].wait
      /\ proc[g].pc \in {"findWait", "consume", "remove"} => x[3] # proc[g].event

LEMMA OneWorksStep ==
  ASSUME TypeOK, Pointers, OneGatewayWorks, [Next]_vars
  PROVE  OneGatewayWorks'
<1> USE DEF TypeOK, OneGatewayWorks, Working, Procs
<1>1. ASSUME NEW p \in Procs, InsertEvent(p) PROVE OneGatewayWorks'
  BY <1>1 DEF InsertEvent, MayBegin, Goto, At
<1>2. ASSUME NEW p \in Procs, FindMatchingWait(p) PROVE OneGatewayWorks'
  BY <1>2, WaitSearch
<1>3. ASSUME NEW p \in Procs, ConsumeEvent(p) PROVE OneGatewayWorks'
  BY <1>3 DEF ConsumeEvent, Goto, At
<1>4. ASSUME NEW p \in Procs, RemoveWaitCondition(p) PROVE OneGatewayWorks'
  BY <1>4 DEF RemoveWaitCondition, Goto, At
<1>5. ASSUME NEW p \in Procs, Kill(p) PROVE OneGatewayWorks'
  BY <1>5 DEF Kill
<1>6. ASSUME NEW g \in Gateways, InsertWaitCondition(g) PROVE OneGatewayWorks'
  BY <1>6 DEF InsertWaitCondition, MayBegin, Goto, At
<1>7. ASSUME NEW g \in Gateways, FindUnconsumedEvent(g) PROVE OneGatewayWorks'
  BY <1>7, EventSearch
<1>8. ASSUME NEW g \in Gateways, ExpireWait(g) PROVE OneGatewayWorks'
  BY <1>8 DEF ExpireWait
<1>9. CASE UNCHANGED vars
  BY <1>9 DEF vars
<1> QED BY <1>1, <1>2, <1>3, <1>4, <1>5, <1>6, <1>7, <1>8, <1>9 DEF Next

\* Rows only move forward.
LEMMA FinalStep ==
  ASSUME TypeOK, Pointers, RemovesAfterConsuming, AnswersAreFinal, [Next]_vars
  PROVE  RemovesAfterConsuming' /\ AnswersAreFinal'
<1> DEFINE Final == RemovesAfterConsuming /\ AnswersAreFinal
<1> USE DEF TypeOK, Pointers, RemovesAfterConsuming, AnswersAreFinal, Procs
<1>1. ASSUME NEW p \in Procs, InsertEvent(p) PROVE Final'
  BY <1>1 DEF InsertEvent, MayBegin, Goto, At
<1>2. ASSUME NEW p \in Procs, FindMatchingWait(p) PROVE Final'
  BY <1>2, WaitSearch
<1>3. ASSUME NEW p \in Procs, ConsumeEvent(p) PROVE Final'
  BY <1>3 DEF ConsumeEvent, Goto, At
<1>4. ASSUME NEW p \in Procs, RemoveWaitCondition(p) PROVE Final'
  BY <1>4 DEF RemoveWaitCondition, Goto, At
<1>5. ASSUME NEW p \in Procs, Kill(p) PROVE Final'
  BY <1>5 DEF Kill
<1>6. ASSUME NEW g \in Gateways, InsertWaitCondition(g) PROVE Final'
  BY <1>6 DEF InsertWaitCondition, MayBegin, Goto, At
<1>7. ASSUME NEW g \in Gateways, FindUnconsumedEvent(g) PROVE Final'
  BY <1>7, EventSearch
<1>8. ASSUME NEW g \in Gateways, ExpireWait(g) PROVE Final'
  BY <1>8 DEF ExpireWait
<1>9. CASE UNCHANGED vars
  BY <1>9 DEF vars
<1> QED BY <1>1, <1>2, <1>3, <1>4, <1>5, <1>6, <1>7, <1>8, <1>9 DEF Next

\* A row that a gateway takes up is new, active or pending, and so it is in no
\* answer; and no other gateway gives an answer while it is busy with it.
LEMMA FreshStep ==
  ASSUME TypeOK, Pointers, OneGatewayWorks, AnswersAreFinal, HandsAreFresh,
         GatewayMatchesOnce, [Next]_vars
  PROVE  HandsAreFresh' /\ GatewayMatchesOnce'
<1> DEFINE Fresh == HandsAreFresh /\ GatewayMatchesOnce
<1> USE DEF TypeOK, Pointers, AnswersAreFinal, HandsAreFresh, GatewayMatchesOnce,
            Working, Procs
<1>1. ASSUME NEW p \in Procs, InsertEvent(p) PROVE Fresh'
  BY <1>1 DEF InsertEvent, MayBegin, Goto, At
<1>2. ASSUME NEW p \in Procs, FindMatchingWait(p) PROVE Fresh'
  <2>1. /\ proc[p].pc = "findWait" /\ proc[p].event \in Events
        /\ UNCHANGED <<event, wait, killed, answered>>
    BY <1>2, WaitSearch
  <2>2. CASE proc' = [proc EXCEPT ![p] = [pc |-> "idle", wait |-> None, event |-> None]]
    BY <2>1, <2>2
  <2>3. ASSUME NEW w \in Waits, wait[w] = "active",
               proc' = [proc EXCEPT ![p] =
                         [pc |-> "consume", wait |-> w, event |-> proc[p].event]]
        PROVE  Fresh'
    <3>1. \A x \in answered : x[2] # w
      BY <2>3
    <3> QED BY <2>1, <2>3, <3>1
  <2> QED BY <1>2, <2>2, <2>3, WaitSearch
<1>3. ASSUME NEW p \in Procs, ConsumeEvent(p) PROVE Fresh'
  BY <1>3 DEF ConsumeEvent, Goto, At
<1>4. ASSUME NEW p \in Procs, RemoveWaitCondition(p) PROVE Fresh'
  <2> DEFINE new == <<p, proc[p].wait, proc[p].event>>
  <2>1. answered' = answered \cup {new} /\ killed' = killed
    BY <1>4 DEF RemoveWaitCondition
  <2>2. proc[p].pc = "remove" /\ p \notin killed
    BY <1>4 DEF RemoveWaitCondition, At
  <2>3. proc' = [proc EXCEPT ![p] = [pc |-> "idle", wait |-> None, event |-> None]]
    BY <1>4 DEF RemoveWaitCondition, Goto
  <2>4. GatewayMatchesOnce'
    <3>1. ASSUME NEW x \in answered, x[1] \in Gateways, p \in Gateways
          PROVE  x[2] # new[2] /\ x[3] # new[3]
      BY <2>2, <3>1
    <3> QED BY <2>1, <3>1
  <2>5. HandsAreFresh'
    <3> SUFFICES ASSUME NEW g \in Gateways, Working(g)',
                        NEW x \in answered', x[1] \in Gateways
                 PROVE  /\ proc'[g].pc \in {"findEvent", "consume", "remove"} => x[2] # proc'[g].wait
                        /\ proc'[g].pc \in {"findWait", "consume", "remove"} => x[3] # proc'[g].event
      OBVIOUS
    <3>1. g # p /\ proc'[g] = proc[g] /\ Working(g)
      BY <2>1, <2>3
    <3>2. CASE x \in answered
      BY <3>1, <3>2
    <3>3. CASE x = new
      BY <2>2, <3>1, <3>3 DEF OneGatewayWorks
    <3> QED BY <2>1, <3>2, <3>3
  <2> QED BY <2>4, <2>5
<1>5. ASSUME NEW p \in Procs, Kill(p) PROVE Fresh'
  BY <1>5 DEF Kill
<1>6. ASSUME NEW g \in Gateways, InsertWaitCondition(g) PROVE Fresh'
  BY <1>6 DEF InsertWaitCondition, MayBegin, Goto, At
<1>7. ASSUME NEW g \in Gateways, FindUnconsumedEvent(g) PROVE Fresh'
  <2>1. /\ proc[g].pc = "findEvent" /\ proc[g].wait \in Waits
        /\ UNCHANGED <<event, wait, killed, answered>>
    BY <1>7, EventSearch
  <2>2. CASE proc' = [proc EXCEPT ![g] = [pc |-> "idle", wait |-> None, event |-> None]]
    BY <2>1, <2>2
  <2>3. ASSUME NEW e \in Events, event[e] = "pending",
               proc' = [proc EXCEPT ![g] =
                         [pc |-> "consume", wait |-> proc[g].wait, event |-> e]]
        PROVE  Fresh'
    <3>1. \A x \in answered : x[3] # e
      BY <2>3
    <3> QED BY <2>1, <2>3, <3>1
  <2> QED BY <1>7, <2>2, <2>3, EventSearch
<1>8. ASSUME NEW g \in Gateways, ExpireWait(g) PROVE Fresh'
  BY <1>8 DEF ExpireWait
<1>9. CASE UNCHANGED vars
  BY <1>9 DEF vars
<1> QED BY <1>1, <1>2, <1>3, <1>4, <1>5, <1>6, <1>7, <1>8, <1>9 DEF Next

-----------------------------------------------------------------------------
(* The theorems *)

BusInv ==
  /\ TypeOK /\ Pointers
  /\ NoLostWakeup /\ ConsumedIsAnswered
  /\ OneGatewayWorks /\ RemovesAfterConsuming /\ AnswersAreFinal /\ HandsAreFresh
  /\ GatewayMatchesOnce

LEMMA BusInit ==
  ASSUME Init
  PROVE  BusInv
<1> USE DEF Init, Idle, Procs
<1>1. TypeOK /\ Pointers
  BY DEF TypeOK, Pointers
<1>2. NoLostWakeup /\ ConsumedIsAnswered
  BY DEF NoLostWakeup, ConsumedIsAnswered
<1>3. OneGatewayWorks
  BY DEF OneGatewayWorks, Working
<1>4. RemovesAfterConsuming /\ AnswersAreFinal /\ HandsAreFresh /\ GatewayMatchesOnce
  BY DEF RemovesAfterConsuming, AnswersAreFinal, HandsAreFresh, GatewayMatchesOnce
<1> QED BY <1>1, <1>2, <1>3, <1>4 DEF BusInv

\* The inductive invariant: rows and processes agree after every statement.
THEOREM BusInvariant == Spec => []BusInv
<1>1. Init => BusInv
  BY BusInit
<1>2. BusInv /\ [Next]_vars => BusInv'
  BY Types, WakeupStep, ConsumedStep, OneWorksStep, FinalStep, FreshStep DEF BusInv
<1> QED BY <1>1, <1>2, PTL DEF Spec

\* Every variable of the event bus keeps its type.
THEOREM BusTypes == Spec => []TypeOK
<1>1. BusInv => TypeOK
  BY DEF BusInv
<1> QED BY <1>1, BusInvariant, PTL

\* However many processes emit and register, statement between statement and
\* without a transaction, an event and a condition that fit are never both left
\* behind by calls that have returned.
THEOREM BusLosesNoWakeup == Spec => []NoLostWakeup
<1>1. BusInv => NoLostWakeup
  BY DEF BusInv
<1> QED BY <1>1, BusInvariant, PTL

\* An event that is marked consumed has been, or is still being, returned to a
\* caller (who may have been killed before).
THEOREM BusAnswersWhatItConsumes == Spec => []ConsumedIsAnswered
<1>1. BusInv => ConsumedIsAnswered
  BY DEF BusInv
<1> QED BY <1>1, BusInvariant, PTL

\* The calls of the gateway never wake one condition twice nor use one event
\* twice, whatever command lines do to the same rows meanwhile.
THEOREM GatewayMatches == Spec => []GatewayMatchesOnce
<1>1. BusInv => GatewayMatchesOnce
  BY DEF BusInv
<1> QED BY <1>1, BusInvariant, PTL
=============================================================================
