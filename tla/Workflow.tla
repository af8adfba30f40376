------------------------------ MODULE Workflow ------------------------------
(***************************************************************************)
(* packages/runtime-core/workflow.go, the values: a workflow is a list of  *)
(* steps, an index into it and what it waits for.  Advance takes one step, *)
(* the Resume operations pass the step that blocks, and                    *)
(* advanceWorkflowUntilBlocked drives a workflow to its next blocking step *)
(* or to its end.  Step names, saved values and the payload of a result    *)
(* are left out; a result is the place its job ended in.                   *)
(***************************************************************************)
EXTENDS Naturals, Sequences

StepKinds == {"step", "persist", "compensate", "wait_event", "sleep", "call_job"}

\* What a workflow waits for at each kind of blocking step.  A sleep is one of
\* a positive duration: of none, or of one that does not parse, it does not block.
WaitsFor == [wait_event |-> "event", sleep |-> "sleep", call_job |-> "job"]

Outcomes == {"finished", "dropped", "buried"}
Results == Outcomes \cup {"none"}

RequiresCompensation(result) == result \in {"dropped", "buried"}

Workflows(steps) ==
    [index: 1..Len(steps) + 1, waiting: {"none", "event", "sleep", "job"},
     result: Results, compensated: BOOLEAN]

NewWorkflow ==
    [index |-> 1, waiting |-> "none", result |-> "none", compensated |-> FALSE]

Completed(steps, w) == w.index > Len(steps)

WorkflowAdvance(steps, w) ==
    LET kind == steps[w.index]
    IN  CASE kind \in {"step", "persist"} -> [w EXCEPT !.index = @ + 1]
          [] kind = "compensate" ->
                [w EXCEPT !.index = @ + 1,
                          !.compensated = @ \/ w.result = "none" \/ RequiresCompensation(w.result)]
          [] kind = "call_job" -> [w EXCEPT !.waiting = "job", !.result = "none"]
          [] OTHER -> [w EXCEPT !.waiting = WaitsFor[kind]]

\* ResumeWithEvent and ResumeAfterSleep.
Passed(w) == [w EXCEPT !.waiting = "none", !.index = @ + 1]

ResumeWithChildJob(w, result) == [Passed(w) EXCEPT !.result = result]

Blocks(step) == step \in DOMAIN WaitsFor

\* The first blocking step from the index on, or the end.
Stop(steps, index) ==
    LET ahead == {i \in index..Len(steps) : Blocks(steps[i])}
    IN  IF ahead = {} THEN Len(steps) + 1
                      ELSE CHOOSE i \in ahead : \A j \in ahead : i <= j

advanceWorkflowUntilBlocked(steps, w) ==
    LET stop == Stop(steps, w.index)
        compensates == \E i \in w.index..(stop - 1) : steps[i] = "compensate"
        kind == IF stop <= Len(steps) THEN steps[stop] ELSE "none"
    IN  [index       |-> stop,
         waiting     |-> IF kind = "none" THEN "none" ELSE WaitsFor[kind],
         result      |-> IF kind = "call_job" THEN "none" ELSE w.result,
         compensated |-> w.compensated \/ (compensates /\ w.result # "finished")]
=============================================================================
