------------------------ MODULE MCSubagentRegistry ------------------------
(* A run "p" of the user, and a run "c" that p spawns; "n" continues p's     *)
(* session after a steer, a new message or a restart, "w" after a wake.      *)
EXTENDS SubagentRegistry

MCSessionOf == [r \in Runs |-> IF r = "c" THEN "child" ELSE "parent"]
MCRequester == [s \in Sessions |-> IF s = "child" THEN "parent" ELSE User]
=============================================================================
