------------------------------ MODULE MCJobQueue ------------------------------
(* Two jobs, with two retries to spend or none, small clock. *)
EXTENDS JobQueue, TLC

CONSTANTS j1, j2, c1

MCJobIDs == {j1, j2}
MCCallers == {c1}
MCErrors == {"timeout"}
MCRetryBudgets == {0, 2}

MCSymmetry == Permutations(MCJobIDs)
=============================================================================
