-------------------------- MODULE MCWorkflowRuntime --------------------------
(* One session and one run after its first; the steps of the demo workflow, *)
(* a sleep among them so that timers occur.                                 *)
EXTENDS WorkflowRuntime, TLC

CONSTANTS s1, c1, c2

MCSessions == {s1}
MCCallers == {c1, c2}
MCSteps == <<"persist", "call_job", "wait_event", "sleep", "compensate">>

MCSymmetry == Permutations(MCCallers)

\* advanceWorkflowUntilBlocked as the code has it, Advance in a loop.
RECURSIVE Drive(_, _)
Drive(steps, w) ==
    IF Completed(steps, w) \/ w.waiting # "none" THEN w
    ELSE Drive(steps, WorkflowAdvance(steps, w))

StepLists == UNION {[1..n -> StepKinds] : n \in 1..3}

ASSUME DriveIsAdvanceLoop ==
    \A steps \in StepLists :
        \A w \in Workflows(steps) :
            w.waiting = "none" => advanceWorkflowUntilBlocked(steps, w) = Drive(steps, w)
=============================================================================
