---------------------------- MODULE MCJobDispatch ----------------------------
(* One job with one retry, as plugin-ai-chat creates them, and two requests. *)
EXTENDS JobDispatch, TLC

CONSTANTS j1, c1, c2

MCJobIDs == {j1}
MCCallers == {c1, c2}
MCErrors == {"timeout"}
MCRetryBudgets == {1}

MCSymmetry == Permutations(MCCallers)
=============================================================================
