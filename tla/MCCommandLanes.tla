--------------------------- MODULE MCCommandLanes ---------------------------
(***************************************************************************)
(* Constants for model-checking CommandLanes: three runs that ask for the  *)
(* main lane, each of a session of its own, and a manual cron run in the   *)
(* session of the first.  The sessions outnumber the largest limit: three  *)
(* runs are kept from running together by the limit of the lane alone.     *)
(***************************************************************************)
EXTENDS CommandLanes

CONSTANTS r1, r2, r3, j1, s1, s2, s3

MCSessionOf == [c \in Commands |-> CASE c = r2 -> s2 [] c = r3 -> s3 [] OTHER -> s1]
MCLaneOf == [c \in Commands |-> IF c = j1 THEN "cron" ELSE "main"]
=============================================================================
