--------------------------- MODULE WorkflowRuntime ---------------------------
(***************************************************************************)
(* packages/runtime-core/workflow.go, the WorkflowRuntime, with those that *)
(* call it: plugin-workflow-demo, which answers each message of a session  *)
(* by starting a workflow and its child job or by resuming it; the callers *)
(* of apps/runtime/main.go that end a child job and then wake the workflow *)
(* waiting for it; and the startup that restores the instances.            *)
(*                                                                         *)
(* The job queue is taken at what it promises, the ledger of JobLedger: a  *)
(* child job has no retries, and its id is a function of its workflow's.   *)
(* A workflow waiting for a job has an end that nobody but the goroutine   *)
(* that ended the job will tell it of, so the question is what becomes of  *)
(* that one message.                                                       *)
(***************************************************************************)
EXTENDS Workflow

CONSTANTS
    Sessions,  \* the actors that talk to the plugin
    MaxRuns,   \* bound: the workflows a session starts after its first
    Callers,   \* goroutines that dispatch jobs or serve operators
    Steps,     \* the step kinds of the plugin's workflow: it waits for its one
               \* child job before it waits for anything else
    Faults     \* whether stores fail, plugin processes die and the runtime crashes

ASSUME StepsAssumption ==
    /\ Steps \in Seq(StepKinds)
    /\ Steps # <<>>
    /\ \A i, j \in DOMAIN Steps : Steps[i] = "call_job" /\ Blocks(Steps[j]) => i <= j

ASSUME MaxRunsAssumption == MaxRuns \in Nat

\* A session's first workflow has the session's id; later ones have fresh ids.
WorkflowIDs == Sessions \X (0..MaxRuns)

VARIABLES
    phase,       \* "down", "restoring" or "up"
    instances,   \* the workflow_instances table
    elapsed,     \* the sleeping workflows whose time has come
    restored,    \* the rows Restore has done
    message,     \* the message the plugin's host is serving, one at a time
    callers,     \* what each caller is doing
    place, used, budget, alarms   \* the job queue

Queue == INSTANCE JobLedger WITH JobIDs <- WorkflowIDs, Budgets <- {0}

runtime == <<phase, restored>>
rows == <<instances, elapsed>>
queue == <<place, used, budget, alarms>>
vars == <<runtime, rows, message, callers, queue>>

NoInstance == [index |-> 0, waiting |-> "none", result |-> "none", compensated |-> FALSE]
Stored == {id \in WorkflowIDs : instances[id] # NoInstance}
Instance == Workflows(Steps) \cup {NoInstance}

NoMessage == [stage |-> "idle"]
Messages ==
    [stage: {"load_workflow", "inspect_job", "cancel_job", "enqueue_job", "start"},
     session: Sessions, id: WorkflowIDs, found: BOOLEAN, replayed: BOOLEAN]
    \cup [stage: {"save"}, session: Sessions, id: WorkflowIDs, next: Workflows(Steps),
          replayed: BOOLEAN]
    \cup [stage: {"answer"}, session: Sessions, replayed: BOOLEAN]

NoCall == [stage |-> "idle"]
Calls ==
    [stage: {"dispatch", "timeout", "inspect"}, id: WorkflowIDs]
    \cup [stage: {"load"}, id: WorkflowIDs, outcome: Outcomes]
    \cup [stage: {"save"}, id: WorkflowIDs, next: Workflows(Steps)]

WorkflowTypeOK ==
    /\ phase \in {"down", "restoring", "up"}
    /\ instances \in [WorkflowIDs -> Instance]
    /\ elapsed \in SUBSET WorkflowIDs
    /\ restored \in SUBSET WorkflowIDs
    /\ message \in Messages \cup {NoMessage}
    /\ callers \in [Callers -> Calls \cup {NoCall}]
    /\ place \in [WorkflowIDs -> Queue!Places]
    /\ used \in [WorkflowIDs -> {0}]
    /\ budget \in [WorkflowIDs -> {0}]
    /\ alarms \in SUBSET WorkflowIDs

Init ==
    /\ phase = "down"
    /\ instances = [id \in WorkflowIDs |-> NoInstance]
    /\ elapsed = {}
    /\ restored = {}
    /\ message = NoMessage
    /\ callers = [c \in Callers |-> NoCall]
    /\ Queue!LedgerInit

\* SaveWorkflowInstance writes the whole row, whatever is in it by now.  A
\* deadline it holds is a new one.
SaveInstance(id, w) ==
    /\ instances' = [instances EXCEPT ![id] = w]
    /\ elapsed' = elapsed \ {id}

Driven(w) == advanceWorkflowUntilBlocked(Steps, w)

-----------------------------------------------------------------------------
(* A message: plugin-workflow-demo's OnEvent, run in the plugin's process,   *)
(* each call a callback the host serves while it holds its lock.             *)

Outside == <<runtime, callers>>

Goto(stage) == message' = [message EXCEPT !.stage = stage]

At(stage) == phase = "up" /\ message.stage = stage

MessageArrives(s) ==
    /\ At("idle")
    /\ message' = [stage |-> "load_workflow", session |-> s, id |-> <<s, 0>>,
                   found |-> FALSE, replayed |-> FALSE]
    /\ UNCHANGED <<Outside, rows, queue>>

\* inspectWorkflow: when the session's workflow is completed, the message is
\* for a new one.
FindWorkflow ==
    LET w == instances[message.id]
    IN  /\ At("load_workflow")
        /\ IF Completed(Steps, w)
           THEN \E run \in 1..MaxRuns :
                  /\ instances[<<message.session, run>>] = NoInstance
                  /\ place[<<message.session, run>>] = "absent"
                  /\ message' = [message EXCEPT !.stage = "inspect_job",
                                                !.id = <<message.session, run>>]
           ELSE message' = [message EXCEPT !.stage = "inspect_job",
                                           !.found = w # NoInstance]
        /\ UNCHANGED <<Outside, rows, queue>>

\* Mutant of FindJob: a message of a session without a workflow starts one,
\* and leaves its job to the next message.
StartThenFindJob ==
    /\ At("inspect_job")
    /\ Goto(IF message.found /\ place[message.id] = "absent" THEN "enqueue_job" ELSE "start")
    /\ UNCHANGED <<Outside, rows, queue>>

\* inspectChildJob.
FindJob ==
    LET found == place[message.id] # "absent"
    IN  /\ At("inspect_job")
        /\ Goto(IF ~found THEN "enqueue_job"
                ELSE IF message.found THEN "start" ELSE "cancel_job")
        /\ UNCHANGED <<Outside, rows, queue>>

\* A job without a workflow is left from a message that failed.
CancelStaleJob ==
    /\ At("cancel_job")
    /\ \/ Queue!Drop(message.id) /\ Goto("enqueue_job")
       \/ /\ place[message.id] # "waiting"  \* "cannot be cancelled"
          /\ Goto("start")
          /\ UNCHANGED queue
    /\ UNCHANGED <<Outside, rows>>

\* Enqueue refuses an id that was ever accepted, a cancelled one too.
EnqueueJob ==
    /\ At("enqueue_job")
    /\ \/ Queue!Accept(message.id, 0) /\ Goto("start")
       \/ /\ place[message.id] # "absent"
          /\ message' = NoMessage
          /\ UNCHANGED queue
    /\ UNCHANGED <<Outside, rows>>

Save(w) ==
    message' = [stage |-> "save", session |-> message.session, id |-> message.id,
                next |-> w, replayed |-> message.replayed]

\* StartOrResume up to its save: the plugin's own message is the event its
\* workflow waits for.
StartOrResume ==
    LET w == instances[message.id]
    IN  /\ At("start")
        /\ IF w = NoInstance \/ Completed(Steps, w) THEN Save(Driven(NewWorkflow))
           ELSE IF \/ w.waiting = "event"
                   \/ w.waiting = "sleep" /\ message.id \in elapsed
           THEN Save(Driven(Passed(w)))
           ELSE message' = NoMessage
        /\ UNCHANGED <<Outside, rows, queue>>

SaveStartOrResume ==
    /\ At("save")
    /\ SaveInstance(message.id, message.next)
    /\ message' = [stage |-> "answer", session |-> message.session, replayed |-> message.replayed]
    /\ UNCHANGED <<Outside, queue>>

Answer ==
    /\ At("answer")
    /\ message' = NoMessage
    /\ UNCHANGED <<Outside, rows, queue>>

\* A store refuses a read or a write, and the plugin returns the error.
MessageFails ==
    /\ Faults
    /\ phase = "up"
    /\ message.stage \notin {"idle", "answer"}
    /\ message' = NoMessage
    /\ UNCHANGED <<Outside, rows, queue>>

\* The plugin's process dies between two callbacks or before its answer: the
\* host starts it again and sends it the message once more.
Replay ==
    /\ Faults
    /\ phase = "up"
    /\ message.stage \notin {"idle", "save"}
    /\ ~message.replayed
    /\ message' = [stage |-> "load_workflow", session |-> message.session,
                   id |-> <<message.session, 0>>, found |-> FALSE, replayed |-> TRUE]
    /\ UNCHANGED <<Outside, rows, queue>>

MessageStep ==
    \/ \E s \in Sessions : MessageArrives(s)
    \/ FindWorkflow \/ FindJob \/ CancelStaleJob \/ EnqueueJob
    \/ StartOrResume \/ SaveStartOrResume \/ Answer
    \/ MessageFails \/ Replay

-----------------------------------------------------------------------------
(* The callers.  Each settles a job in the queue and, in a later step and    *)
(* under no lock, loads the workflow that waits for it and saves it resumed. *)

Others == <<runtime, message>>

Calling(c, stage) == phase = "up" /\ callers[c].stage = stage

SetCall(c, call) == callers' = [callers EXCEPT ![c] = call]

\* queuedRuntimeJobDispatcher.DispatchQueuedJob: the job is claimed.
DispatchJob(c, id) ==
    /\ Calling(c, "idle")
    /\ Queue!Start(id)
    /\ SetCall(c, [stage |-> "dispatch", id |-> id])
    /\ UNCHANGED <<Others, rows>>

\* The run ends: the job is done, or dead for want of retries, or the queue
\* refuses the outcome, the job being settled already or its store failing.
EndDispatch(c) ==
    LET id == callers[c].id
    IN  /\ Calling(c, "dispatch")
        /\ \/ Queue!Finish(id)
           \/ Queue!Bury(id)
           \/ (Faults \/ place[id] # "running") /\ UNCHANGED queue
        /\ SetCall(c, [stage |-> "inspect", id |-> id])
        /\ UNCHANGED <<Others, rows>>

\* Mutant of TerminalOutcome: a run that came to its end without an error counts
\* as done.
DoneOnReturn(id) == IF place[id] \in {"running", "finished"} THEN "finished"
                    ELSE IF place[id] \in Outcomes THEN place[id] ELSE "none"

TerminalOutcome(id) == IF place[id] \in Outcomes THEN place[id] ELSE "none"

\* resumeWorkflowFromChildJob: only a job that has ended wakes its workflow.
InspectOutcome(c) ==
    LET id == callers[c].id
    IN  /\ Calling(c, "inspect")
        /\ IF TerminalOutcome(id) = "none" THEN SetCall(c, NoCall)
           ELSE SetCall(c, [stage |-> "load", id |-> id, outcome |-> TerminalOutcome(id)])
        /\ UNCHANGED <<Others, rows, queue>>

\* Mutant of CancelJob: the workflow is told so whatever the queue answered.
CancelJobRegardless(c, id) ==
    /\ Calling(c, "idle")
    /\ Queue!Drop(id) \/ (place[id] \notin {"absent", "waiting"} /\ UNCHANGED queue)
    /\ SetCall(c, [stage |-> "load", id |-> id, outcome |-> "dropped"])
    /\ UNCHANGED <<Others, rows>>

\* handleJobOperator, cancel.
CancelJob(c, id) ==
    /\ Calling(c, "idle")
    /\ Queue!Drop(id)
    /\ SetCall(c, [stage |-> "load", id |-> id, outcome |-> "dropped"])
    /\ UNCHANGED <<Others, rows>>

\* handleJobOperator, pause, resume and retry: no outcome to tell.
MoveJob(id) ==
    /\ phase = "up"
    /\ Queue!Hold(id) \/ Queue!Release(id) \/ Queue!Exhume(id)
    /\ UNCHANGED <<Others, callers, rows>>

\* handleJobTimeout: a job that still waits is claimed first.
ClaimForTimeout(c, id) ==
    /\ Calling(c, "idle")
    /\ \/ Queue!Start(id)
       \/ place[id] = "running" /\ UNCHANGED queue
    /\ SetCall(c, [stage |-> "timeout", id |-> id])
    /\ UNCHANGED <<Others, rows>>

TimeoutJob(c) ==
    LET id == callers[c].id
    IN  /\ Calling(c, "timeout")
        /\ \/ /\ Queue!Bury(id)
              /\ SetCall(c, [stage |-> "load", id |-> id, outcome |-> "buried"])
           \/ /\ Faults \/ place[id] \notin {"running", "waiting"}
              /\ SetCall(c, NoCall)
              /\ UNCHANGED queue
        /\ UNCHANGED <<Others, rows>>

\* Mutant of AwaitsChild: the workflow's step is not looked at.
AwaitsAnything(w) == w # NoInstance /\ ~Completed(Steps, w)

AwaitsChild(w) == w.waiting = "job"

\* ResumeFromChildJob up to its save: a workflow that is not there, or does
\* not wait for a job, is no error to the caller's caller, and nothing is kept.
LoadForOutcome(c) ==
    LET call == callers[c]
        w == instances[call.id]
    IN  /\ Calling(c, "load")
        /\ IF AwaitsChild(w)
           THEN SetCall(c, [stage |-> "save", id |-> call.id,
                            next |-> Driven(ResumeWithChildJob(w, call.outcome))])
           ELSE SetCall(c, NoCall)
        /\ UNCHANGED <<Others, rows, queue>>

SaveResumed(c) ==
    /\ Calling(c, "save")
    /\ SaveInstance(callers[c].id, callers[c].next)
    /\ SetCall(c, NoCall)
    /\ UNCHANGED <<Others, queue>>

CallerFails(c) ==
    /\ Faults
    /\ phase = "up"
    /\ callers[c].stage \in {"load", "save"}
    /\ SetCall(c, NoCall)
    /\ UNCHANGED <<Others, rows, queue>>

CallerStep ==
    \/ \E c \in Callers :
        \/ \E id \in WorkflowIDs :
            DispatchJob(c, id) \/ CancelJob(c, id) \/ ClaimForTimeout(c, id)
        \/ EndDispatch(c) \/ InspectOutcome(c) \/ TimeoutJob(c)
        \/ LoadForOutcome(c) \/ SaveResumed(c) \/ CallerFails(c)
    \/ \E id \in WorkflowIDs : MoveJob(id)

-----------------------------------------------------------------------------
(* The process and the clock.  The queue is restored before the workflows:   *)
(* a run lost with the process is a failed one.                              *)

RecoverJob(id) ==
    /\ phase = "down"
    /\ place[id] = "running"
    /\ Queue!Bury(id)
    /\ UNCHANGED <<Outside, message, rows>>

\* The queue has settled every run that was lost.
BeginRestore ==
    /\ phase = "down"
    /\ \A id \in WorkflowIDs : place[id] # "running"
    /\ phase' = "restoring"
    /\ UNCHANGED <<restored, message, callers, rows, queue>>

\* Mutant of reconcileWaitingChildJob: a cancelled job is not taken for ended.
reconcileFinishedOrDead(id, w) ==
    IF w.waiting = "job" /\ place[id] \in {"finished", "buried"}
    THEN ResumeWithChildJob(w, place[id]) ELSE w

reconcileWaitingChildJob(id, w) ==
    IF w.waiting = "job" /\ place[id] \in Outcomes
    THEN ResumeWithChildJob(w, place[id]) ELSE w

\* restoreInstance: the row is reconciled with its job, driven on and saved.
RestoreInstance(id) ==
    LET w == reconcileWaitingChildJob(id, instances[id])
    IN  /\ phase = "restoring"
        /\ id \in Stored \ restored
        /\ IF w.waiting = "sleep" /\ id \in elapsed THEN SaveInstance(id, Driven(Passed(w)))
           ELSE IF w.waiting = "none" THEN SaveInstance(id, Driven(w))
           ELSE UNCHANGED rows
        /\ restored' = restored \cup {id}
        /\ UNCHANGED <<phase, message, callers, queue>>

EndRestore ==
    /\ phase = "restoring"
    /\ Stored \subseteq restored
    /\ phase' = "up"
    /\ restored' = {}
    /\ UNCHANGED <<message, callers, rows, queue>>

\* The process ends, killed or because a restore met a store error.
Crash ==
    /\ Faults
    /\ phase # "down"
    /\ phase' = "down"
    /\ restored' = {}
    /\ message' = NoMessage
    /\ callers' = [c \in Callers |-> NoCall]
    /\ UNCHANGED <<rows, queue>>

\* Nothing looks at a sleep that ends until a message or a restart does.
SleepEnds(id) ==
    /\ instances[id].waiting = "sleep"
    /\ elapsed' = elapsed \cup {id}
    /\ UNCHANGED <<instances, runtime, message, callers, queue>>

ProcessStep ==
    \/ \E id \in WorkflowIDs : RecoverJob(id) \/ RestoreInstance(id) \/ SleepEnds(id)
    \/ BeginRestore \/ EndRestore \/ Crash

Next == MessageStep \/ CallerStep \/ ProcessStep

Spec == Init /\ [][Next]_vars

-----------------------------------------------------------------------------
(* Safety *)

Ended(id) == place[id] \in Outcomes

WaitsInVain(id) == instances[id].waiting = "job" /\ Ended(id)

\* Whatever a message found, lost or met again, a workflow is never saved
\* waiting for a job the queue has not accepted: the plugin creates the job
\* before it starts the workflow, and a job accepted is never forgotten.
WaitsForKnownJob ==
    \A id \in WorkflowIDs : instances[id].waiting = "job" => place[id] # "absent"

Real(id, result) ==
    /\ result \in {"finished", "dropped"} => place[id] = result
    /\ result = "buried" => place[id] # "absent"

\* A result a workflow was driven on is one its job had: a job finished or
\* cancelled stays so, whichever of several late callers wrote the row, and
\* only a buried one may have been revived since.
ResultIsReal ==
    \A id \in WorkflowIDs : Real(id, instances[id].result)

\* A wait for an event ends with a message of the session and nothing else:
\* the outcome of the child job, told late or told twice, and a restart leave
\* the workflow where its user has still to confirm it.
OnlyMessagesConfirm ==
    [][\A id \in WorkflowIDs :
         instances[id].waiting = "event" /\ instances'[id].index > instances[id].index
           => message.stage = "save" /\ message.id = id]_vars

\* Restore rescues every lost wake-up: when the runtime starts to serve, no
\* workflow waits for a job that has ended.
RestoreWakesAll ==
    [][phase = "restoring" /\ phase' = "up" => \A id \in WorkflowIDs : ~WaitsInVain(id)]_vars

\* A workflow is stored where it blocks, or at its end.
AtRest(w) ==
    IF w.index \in 1..Len(Steps)
    THEN Blocks(Steps[w.index]) /\ w.waiting = WaitsFor[Steps[w.index]]
    ELSE w.waiting = "none"

\* What lets a row be written as it was computed, however late: the copies in
\* flight are as sound as the rows, and a row restored is not left behind.
Sound(id, w) ==
    /\ w # NoInstance => place[id] # "absent"
    /\ AtRest(w)
    /\ Real(id, w.result)

CopiesAreSound ==
    /\ message.stage \in {"cancel_job", "start"} => place[message.id] # "absent"
    /\ message.stage = "save" => Sound(message.id, message.next)
    /\ \A c \in Callers :
        /\ callers[c].stage = "load" => Real(callers[c].id, callers[c].outcome)
        /\ callers[c].stage = "save" => Sound(callers[c].id, callers[c].next)

WorkflowInvariant ==
    /\ WorkflowTypeOK
    /\ \A id \in WorkflowIDs : Sound(id, instances[id])
    /\ CopiesAreSound
    /\ \A id \in restored : phase = "restoring" /\ ~WaitsInVain(id)

\* What the console says of the runtime (main.go, workflow_child_job_resume_path):
\* the terminal outcome of a queued job resumes its workflow.  While the runtime
\* serves, a workflow waits for a job that has ended only as long as a call
\* that will tell it, or may have to start it, is under way.
OutcomeResumesWorkflow ==
    phase = "up" =>
        \A id \in WorkflowIDs :
            WaitsInVain(id) =>
                \/ message.stage \notin {"idle", "answer"}
                \/ \E c \in Callers : callers[c].stage # "idle" /\ callers[c].id = id
=============================================================================
