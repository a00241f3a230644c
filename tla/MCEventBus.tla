----------------------------- MODULE MCEventBus -----------------------------
(***************************************************************************)
(* Constants for model-checking EventBus: two conditions and three events; *)
(* the second condition has a filter that only the first event passes.     *)
(***************************************************************************)
EXTENDS EventBus

CONSTANTS w1, w2, e1

MCFits == {<<w, e>> \in Waits \X Events : w = w1 \/ e = e1}
=============================================================================
