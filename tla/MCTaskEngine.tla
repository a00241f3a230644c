---------------------------- MODULE MCTaskEngine ----------------------------
(***************************************************************************)
(* Constants for model-checking TaskEngine on one or two tasks.            *)
(***************************************************************************)
EXTENDS TaskEngineInv

CONSTANTS t1, t2

\* t1 may be retried once, any other task not at all.
MCMaxRetries == [t \in Tasks |-> IF t = t1 THEN 1 ELSE 0]

\* Human approval of the task itself, and any "data.ready" with a timeout.
Approval == [name |-> "hitl.approve", own |-> TRUE, timed |-> FALSE]
DataReady == [name |-> "data.ready", own |-> FALSE, timed |-> TRUE]

MCBothKinds == {Approval, DataReady}
MCApprovalOnly == {Approval}
=============================================================================
