----------------------------- MODULE JobDispatch -----------------------------
(***************************************************************************)
(* Who runs the jobs.  The runtime has no worker of its own: a job runs    *)
(* inside the HTTP request that dispatches it.  An AI message, a resume or *)
(* a dead-letter retry ends in JobQueue.DispatchReady, which lists the     *)
(* ready jobs, claims them one by one and hands each to plugin-ai-chat.    *)
(* The plugin lives in a subprocess; its host serves one dispatch at a     *)
(* time (SubprocessPluginHost.mu), carries out the plugin's calls to the   *)
(* queue, the provider and the reply service, and sends the request again  *)
(* to a new subprocess when the first one dies.                            *)
(*                                                                         *)
(* A request is a goroutine, one of Callers.  Whatever it does to the      *)
(* queue is an action of JobQueue, so this module implements JobQueue and  *)
(* adds when each operation is called, by whom, and what was known then.   *)
(* Jobs of a type without a dispatcher are never listed and are left out.  *)
(***************************************************************************)
EXTENDS JobQueue, FiniteSets

CONSTANTS
    NoID,          \* a request that works on no job
    StoreErrors,   \* whether the store may refuse a write
    Disconnects,   \* whether clients may give up a request they sent
    HostFailures   \* whether the plugin's subprocess may die or stop answering

ASSUME NoIDAssumption == NoID \notin JobIDs
ASSUME CallersAssumption == IsFiniteSet(Callers)
ASSUME FailureAssumption ==
    StoreErrors \in BOOLEAN /\ Disconnects \in BOOLEAN /\ HostFailures \in BOOLEAN

VARIABLES
    req,      \* the requests under way, lost in a crash
    replies,  \* history: replies sent for each job
    replays   \* history: dispatches the host sent a second time

dispatch == <<req, replies, replays>>
dvars    == <<vars, dispatch>>

\* A plugin runs in one of these stages, with the host's lock held: reading the
\* job, claiming it itself, waiting for the provider, sending the answer,
\* completing the job, telling the user that it failed, returning to the host
\* with or without an error; or inside a Fail call made for want of a result or
\* of a delivery.
PluginStages == {"inspect", "mark", "generate", "answer", "complete", "bury", "ok", "error"}
FailStages == {"failing", "failingAnswer"}
HostStages == PluginStages \cup FailStages

\* A claimed job waits for the host, runs, or has been lost and is looked after
\* by transitionQueuedJobDispatchFailure.
DispatchStages == HostStages \cup {"waiting", "lost", "charge"}
TimeoutStages == {"timeoutClaim", "timeout"}
Stages == {"idle", "list", "next"} \cup DispatchStages \cup TimeoutStages

\* How the host came by the answer of the plugin it is waiting for: from the
\* first process, or from a second one, whose status it looks at or not.
Replays == {"none", "checked", "blind"}

Request == [stage   : Stages,
            todo    : SUBSET JobIDs,        \* ReadyJobs' snapshot, what is left of it
            id      : JobIDs \cup {NoID},   \* the job worked on
            attempt : Nat,                  \* which of its attempts was claimed
            replay  : Replays,
            gone    : BOOLEAN]              \* the client left: its context is cancelled

Idle == [stage |-> "idle", todo |-> {}, id |-> NoID, attempt |-> 0,
         replay |-> "none", gone |-> FALSE]

DispatchInit ==
    /\ Init
    /\ req = [c \in Callers |-> Idle]
    /\ replies = NoEntries
    /\ replays = NoEntries

-----------------------------------------------------------------------------
(* Parts of steps *)

At(c, stage) == req[c].stage = stage
HostFree == \A c \in Callers : req[c].stage \notin HostStages

Goto(c, stage) == req' = [req EXCEPT ![c].stage = stage]

\* Back in DispatchReady's loop, with the rest of the snapshot.
NextJob(c) == req' = [req EXCEPT ![c] = [Idle EXCEPT !.stage = "next", !.todo = req[c].todo,
                                                     !.gone = req[c].gone]]
Finish(c) == req' = [req EXCEPT ![c] = Idle]

\* A write under the request's context fails once the client has left.
Reaches(c) == ~req[c].gone
MayRefuse(c) == StoreErrors \/ req[c].gone

QueueUnchanged == UNCHANGED vars
NoReply == UNCHANGED <<replies, replays>>
Reply(id) == replies' = [replies EXCEPT ![id] = @ + 1] /\ UNCHANGED replays
\* An error of the reply service does not say whether the reply went out.
MaybeReply(id) == NoReply \/ Reply(id)

-----------------------------------------------------------------------------
(* Requests *)

\* handleAIMessage: the plugin enqueues the job, over the same host.  If the
\* session cannot be saved, the plugin's process dies or the client leaves, the
\* request fails before it dispatches anything.
Message(c, id, maxRetries) ==
    /\ At(c, "idle")
    /\ HostFree
    /\ Enqueue(id, maxRetries)
    /\ \/ Goto(c, "list")
       \/ (StoreErrors \/ HostFailures \/ Disconnects) /\ Finish(c)
    /\ NoReply

\* handleJobOperator: resume and retry dispatch afterwards.
OperatorResume(c, id) == At(c, "idle") /\ Resume(id) /\ Goto(c, "list") /\ NoReply
OperatorRetry(c, id) == At(c, "idle") /\ RetryDeadLetter(id) /\ Goto(c, "list") /\ NoReply

\* handleJobOperator: pause and cancel do not.
OperatorPause(id) == Pause(id) /\ UNCHANGED dispatch
OperatorCancel(id) == Cancel(id) /\ UNCHANGED dispatch

\* A message about a job outside the model: it dispatches the ready jobs too.
OtherMessage(c) ==
    /\ phase = "up"
    /\ At(c, "idle")
    /\ Goto(c, "list")
    /\ QueueUnchanged
    /\ NoReply

\* handleJobTimeout: a pending job is marked running first, under its own lock.
RequestTimeout(c, id) ==
    /\ At(c, "idle")
    /\ Serving(id)
    /\ req' = [req EXCEPT ![c].id = id,
                          ![c].stage = IF jobs[id].status = "pending"
                                       THEN "timeoutClaim" ELSE "timeout"]
    /\ QueueUnchanged
    /\ NoReply

TimeoutClaim(c) ==
    /\ At(c, "timeoutClaim")
    /\ \/ Reaches(c) /\ MarkRunning(req[c].id) /\ Goto(c, "timeout")
       \/ /\ MayRefuse(c) \/ ~CanTransitionTo(jobs[req[c].id], "running")
          /\ QueueUnchanged
          /\ Finish(c)
    /\ NoReply

TimeoutJob(c) ==
    /\ At(c, "timeout")
    /\ \/ Reaches(c) /\ Timeout(req[c].id)
       \/ (MayRefuse(c) \/ ~CanFail(jobs[req[c].id])) /\ QueueUnchanged
    /\ Finish(c)
    /\ NoReply

-----------------------------------------------------------------------------
(* DispatchReady *)

\* Mutant of ReadyJobs: a retry is left to whoever failed.
PendingJobs == InStatus(jobs, {"pending"})

ReadyJobs ==
    InStatus(jobs, {"pending"}) \cup
    {id \in InStatus(jobs, {"retrying"}) :
        jobs[id].nextRunAt = NoTime \/ jobs[id].nextRunAt =< now}

List(c) ==
    /\ At(c, "list")
    /\ req' = [req EXCEPT ![c].stage = "next", ![c].todo = ReadyJobs]
    /\ QueueUnchanged
    /\ NoReply

\* The snapshot may be stale: MarkRunning only asks whether the job may run.
Claim(c, id) ==
    /\ At(c, "next")
    /\ id \in req[c].todo
    /\ Reaches(c)
    /\ MarkRunning(id)
    /\ req' = [req EXCEPT ![c].stage = "waiting", ![c].todo = @ \ {id},
                          ![c].id = id, ![c].attempt = attempts'[id]]
    /\ NoReply

SkipClaim(c, id) ==
    /\ At(c, "next")
    /\ id \in req[c].todo
    /\ MayRefuse(c) \/ ~CanTransitionTo(jobs[id], "running")
    /\ req' = [req EXCEPT ![c].todo = @ \ {id}]
    /\ QueueUnchanged
    /\ NoReply

EndRequest(c) ==
    /\ At(c, "next")
    /\ req[c].todo = {}
    /\ Finish(c)
    /\ QueueUnchanged
    /\ NoReply

-----------------------------------------------------------------------------
(* The subprocess host and the supervision of a dispatch *)

EnterHost(c) ==
    /\ At(c, "waiting")
    /\ HostFree
    /\ Goto(c, "inspect")
    /\ QueueUnchanged
    /\ NoReply

\* The dispatch fails before the plugin sees it: a malformed reply handle, a
\* disabled plugin, a denied permission, a process that does not start.
Deny(c) ==
    /\ At(c, "waiting")
    /\ Goto(c, "lost")
    /\ QueueUnchanged
    /\ NoReply

\* The process dies between two calls of the plugin: the host starts another
\* one and sends it the request again, once.
Replay(c) ==
    /\ HostFailures
    /\ req[c].stage \in PluginStages
    /\ req[c].replay = "none"
    /\ Reaches(c)
    /\ \E how \in {"checked", "blind"} :
          req' = [req EXCEPT ![c].stage = "inspect", ![c].replay = how]
    /\ replays' = [replays EXCEPT ![req[c].id] = @ + 1]
    /\ QueueUnchanged
    /\ UNCHANGED replies

\* The process dies for good, does not answer in time, or is killed because the
\* client left.
Lose(c) ==
    /\ HostFailures \/ req[c].gone
    /\ req[c].stage \in PluginStages
    /\ Goto(c, "lost")
    /\ QueueUnchanged
    /\ NoReply

\* The goroutine of startQueuedJobHeartbeat, which lives as long as the dispatch
\* and renews whatever run the job is in.
Beat(c) ==
    /\ req[c].stage \in DispatchStages
    /\ Reaches(c)
    /\ Heartbeat(req[c].id)
    /\ UNCHANGED dispatch

\* Mutant of LookAfter: nobody looks after a failed dispatch.
ForgetLost(c) ==
    /\ At(c, "lost")
    /\ QueueUnchanged
    /\ NextJob(c)
    /\ NoReply

\* transitionQueuedJobDispatchFailure: only the run that was dispatched is to be
\* failed, as far as Inspect can tell.
LookAfter(c) ==
    /\ At(c, "lost")
    /\ LET id == req[c].id
           mine == jobs[id].status = "running" /\ attempts[id] = req[c].attempt
       IN  \/ mine /\ BeginDispatchFailure(c, id) /\ Goto(c, "charge")
           \/ ~mine /\ QueueUnchanged /\ NextJob(c)
    /\ NoReply

Charge(c) ==
    /\ At(c, "charge")
    /\ \/ Reaches(c) /\ \E reason \in Errors : EndFail(c, reason)
       \/ (MayRefuse(c) \/ ~CanFail(jobs[req[c].id])) /\ RefuseFail(c)
    /\ NextJob(c)
    /\ NoReply

-----------------------------------------------------------------------------
(* plugin-ai-chat, ProcessJob *)

Inspect(c) ==
    /\ At(c, "inspect")
    /\ Goto(c, IF jobs[req[c].id].status = "running" THEN "generate" ELSE "mark")
    /\ QueueUnchanged
    /\ NoReply

Mark(c) ==
    /\ At(c, "mark")
    /\ \/ Reaches(c) /\ MarkRunning(req[c].id) /\ Goto(c, "generate")
       \/ /\ MayRefuse(c) \/ ~CanTransitionTo(jobs[req[c].id], "running")
          /\ QueueUnchanged
          /\ Goto(c, "error")
    /\ NoReply

\* Mutant of Generate: the job is completed and then answered.
GenerateAndComplete(c) ==
    /\ At(c, "generate")
    /\ \/ Goto(c, "complete") /\ QueueUnchanged
       \/ Goto(c, "failing") /\ BeginFail(c, req[c].id)
    /\ NoReply

Generate(c) ==
    /\ At(c, "generate")
    /\ \/ Goto(c, "answer") /\ QueueUnchanged
       \/ Goto(c, "failing") /\ BeginFail(c, req[c].id)
    /\ NoReply

Answer(c) ==
    /\ At(c, "answer")
    /\ \/ Goto(c, "complete") /\ QueueUnchanged /\ Reply(req[c].id)
       \/ Goto(c, "failingAnswer") /\ BeginFail(c, req[c].id) /\ MaybeReply(req[c].id)

CompleteJob(c) ==
    /\ At(c, "complete")
    /\ \/ Reaches(c) /\ Complete(req[c].id) /\ Goto(c, "ok")
       \/ /\ MayRefuse(c) \/ ~CanTransitionTo(jobs[req[c].id], "done")
          /\ QueueUnchanged
          /\ Goto(c, "error")
    /\ NoReply

\* Mutant of FailJob: the death of a job is reported whatever made it fail.
FailAndBury(c) ==
    /\ req[c].stage \in FailStages
    /\ \/ /\ Reaches(c)
          /\ \E reason \in Errors : EndFail(c, reason)
          /\ Goto(c, IF jobs'[req[c].id].status = "dead" THEN "bury" ELSE "error")
       \/ /\ MayRefuse(c) \/ ~CanFail(jobs[req[c].id])
          /\ RefuseFail(c)
          /\ Goto(c, "error")
    /\ NoReply

\* The second half of Fail.  A job that died is reported to the user, unless
\* it was the answer that could not be delivered.
FailJob(c) ==
    /\ req[c].stage \in FailStages
    /\ \/ /\ Reaches(c)
          /\ \E reason \in Errors : EndFail(c, reason)
          /\ Goto(c, CASE jobs'[req[c].id].status # "dead" -> "error"
                       [] At(c, "failing") -> "bury"
                       [] OTHER -> "ok")
       \/ /\ MayRefuse(c) \/ ~CanFail(jobs[req[c].id])
          /\ RefuseFail(c)
          /\ Goto(c, "error")
    /\ NoReply

Bury(c) ==
    /\ At(c, "bury")
    /\ QueueUnchanged
    /\ \/ Reply(req[c].id) /\ Goto(c, "ok")
       \/ MaybeReply(req[c].id) /\ Goto(c, "error")

\* The plugin's error reaches DispatchQueuedJob, unless the answer comes from a
\* process started after the first one died: then the host returns no error
\* whatever the answer says.
Respond(c) ==
    /\ \/ At(c, "ok") /\ NextJob(c)
       \/ At(c, "error") /\ IF req[c].replay = "blind" THEN NextJob(c) ELSE Goto(c, "lost")
    /\ QueueUnchanged
    /\ NoReply

-----------------------------------------------------------------------------
(* The clients and the process *)

Leave(c) ==
    /\ Disconnects
    /\ ~At(c, "idle")
    /\ ~req[c].gone
    /\ req' = [req EXCEPT ![c].gone = TRUE]
    /\ QueueUnchanged
    /\ NoReply

ProcessDies == Crash /\ req' = [c \in Callers |-> Idle] /\ NoReply

Start ==
    /\ BeginRestore \/ EndRestore \/ \E id \in JobIDs, reason \in Errors : RecoverRow(id, reason)
    /\ UNCHANGED dispatch

Clock == Tick /\ UNCHANGED dispatch

\* What a request does by itself once it has been sent.
Proceed(c) ==
    \/ List(c) \/ EndRequest(c)
    \/ \E id \in JobIDs : Claim(c, id) \/ SkipClaim(c, id)
    \/ EnterHost(c) \/ Deny(c)
    \/ Inspect(c) \/ Mark(c) \/ Generate(c) \/ Answer(c) \/ CompleteJob(c)
    \/ FailJob(c) \/ Bury(c) \/ Respond(c)
    \/ LookAfter(c) \/ Charge(c)
    \/ TimeoutClaim(c) \/ TimeoutJob(c)

DispatchNext ==
    \/ \E c \in Callers :
        \/ Proceed(c) \/ Replay(c) \/ Lose(c) \/ Beat(c) \/ Leave(c) \/ OtherMessage(c)
        \/ \E id \in JobIDs :
            \/ \E m \in RetryBudgets : Message(c, id, m)
            \/ OperatorResume(c, id)
            \/ OperatorRetry(c, id)
            \/ RequestTimeout(c, id)
    \/ \E id \in JobIDs : OperatorPause(id) \/ OperatorCancel(id)
    \/ ProcessDies
    \/ Start
    \/ Clock

DispatchSpec == DispatchInit /\ [][DispatchNext]_dvars

\* A request once sent goes on; messages keep coming; a process that stopped is
\* started again and finishes Restore; time passes.
FairDispatch ==
    /\ DispatchSpec
    /\ \A c \in Callers : WF_dvars(Proceed(c)) /\ SF_dvars(OtherMessage(c))
    /\ WF_dvars(Start)
    /\ WF_dvars(Clock)

-----------------------------------------------------------------------------
(* Properties *)

\* A Fail call is open exactly while its request is in the middle of one, and
\* for that request's job; a snapshot is held only inside DispatchReady.
DispatchTypeOK ==
    /\ req \in [Callers -> Request]
    /\ replies \in [JobIDs -> Nat]
    /\ replays \in [JobIDs -> Nat]
    /\ \A c \in Callers :
        /\ (failing[c] # NoCall) <=> (req[c].stage \in FailStages \cup {"charge"})
        /\ failing[c] # NoCall => failing[c].id = req[c].id
        /\ req[c].stage \in DispatchStages \cup TimeoutStages => req[c].id # NoID
        /\ ~At(c, "idle") => phase = "up"

\* Whoever lists, claims and runs a job, and however often it is timed out and
\* claimed again meanwhile, the user gets at most one reply per attempt and one
\* more for each time the host sent a dispatch to a second process.
RepliesPaidFor == \A id \in JobIDs : replies[id] =< attempts[id] + replays[id]

\* A job is done only if the user has been answered: not by a timeout, a
\* recovery or a request that found the job run by another.
DoneIsAnswered == \A id \in InStatus(storedJobs, {"done"}) : replies[id] > 0

\* "Job is actively executing" (Job.ExplainStatus): while the process serves, a
\* running job has a request that runs it or is about to fail it.
RunningIsExecuted ==
    phase = "up" => \A id \in InStatus(jobs, {"running"}) :
        \E c \in Callers : req[c].id = id /\ req[c].stage \in DispatchStages \cup {"timeout"}

\* A job that waits or runs does not do so for ever: if the process stays up in
\* the end and no retry is put off past the last tick of the clock, it is done,
\* given up, or held by an operator.
Settled(id) == id \in InStatus(storedJobs, {"done", "dead", "cancelled", "paused"})
ClockSuffices == \A id \in Known(storedJobs) : storedJobs[id].nextRunAt =< MaxTime

JobsSettle ==
    []ClockSuffices /\ <>[](phase = "up") =>
        \A id \in JobIDs : [](storedJobs[id] # NoJob => <>Settled(id))

-----------------------------------------------------------------------------
(* The inductive invariant: beside the queue's own and the types, RepliesPaidFor *)
(* strengthened by the replies that requests under way may still send.           *)

AnswerStages == {"waiting", "inspect", "mark", "generate", "answer", "failing", "bury"}
Owing(id) == {c \in Callers : req[c].id = id /\ req[c].stage \in AnswerStages}

\* Whatever a request that may still answer will send is paid for already.
RepliesCovered ==
    \A id \in JobIDs : replies[id] + Cardinality(Owing(id)) =< attempts[id] + replays[id]

=============================================================================
