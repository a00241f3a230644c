--------------------------- MODULE MCManagerWake ---------------------------
\* Two tasks of one group and objective: a may be retried, b is to be reviewed.
EXTENDS ManagerWake

MCObjectiveOf == [t \in Tasks |-> "o"]
MCGroupOf == [t \in Tasks |-> "g"]
MCTrigger == [t \in Tasks |-> IF t = "b" THEN "on_complete" ELSE "none"]
MCMaxRetries == [t \in Tasks |-> IF t = "a" THEN 1 ELSE 0]
=============================================================================
