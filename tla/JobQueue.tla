------------------------------- MODULE JobQueue -------------------------------
(***************************************************************************)
(* The persistent job queue, packages/runtime-core/job_queue.go, with the  *)
(* jobs and alerts tables it writes (state.go, postgres.go).               *)
(*                                                                         *)
(* Every operation runs under JobQueue.mu, writes the store first and the  *)
(* memory only when the write succeeded, so an operation is one step: one  *)
(* whose write fails changes nothing, and a process that dies between the  *)
(* two writes is one that dies just after the step.  Two operations are    *)
(* not one critical section and are split here as they are there: Fail,    *)
(* which picks its reason code under a lock it then releases, and Restore, *)
(* which commits one recovered row at a time and can die between rows.     *)
(***************************************************************************)
EXTENDS JobLifecycle

CONSTANTS
    JobIDs,        \* the identities clients may use for jobs
    NoJob,         \* an absent row
    Callers,       \* goroutines that may be inside a Fail call
    NoCall,        \* a goroutine that is not
    RetryBudgets,  \* the MaxRetries values jobs are created with
    MaxTime,       \* bound: the last tick of the clock
    MaxRevivals    \* bound: RetryDeadLetter calls explored per job

ASSUME SentinelAssumption == NoJob \notin Job
Calls == [id : JobIDs, reasonCode : ReasonCodes]
ASSUME CallAssumption == NoCall \notin Calls
ASSUME TextAssumption == "timeout" \in Errors
ASSUME BoundAssumption ==
    RetryBudgets \subseteq Nat /\ MaxTime \in Nat /\ MaxRevivals \in Nat

VARIABLES
    phase,         \* the process: "down", "restoring" (in Restore) or "up"
    now,           \* the clock
    \* Memory of the process, lost in a crash
    jobs,          \* JobQueue.jobs
    dead,          \* JobQueue.dead: how many entries each job has in the list
    failing,       \* Fail calls that have picked a reason code: who fails what
    unread,        \* Restore: the listed rows it has not looked at yet
    restored,      \* Restore: the map it builds
    restoredDead,  \* Restore: the dead-letter list it builds
    restoreAt,     \* Restore: the time it works with
    \* The store
    storedJobs,    \* table jobs
    alerts,        \* table alerts: the jobs with a dead-letter alert
    \* History, for the properties only
    attempts,      \* how often each job was handed to an executor
    revivals       \* how often an operator revived it from the dead letters

memory  == <<jobs, dead, failing>>
restore == <<unread, restored, restoredDead, restoreAt>>
store   == <<storedJobs, alerts>>
history == <<attempts, revivals>>
vars    == <<phase, now, memory, restore, store, history>>

Rows  == [JobIDs -> Job \cup {NoJob}]
NoRows == [id \in JobIDs |-> NoJob]
NoEntries == [id \in JobIDs |-> 0]

Known(rows) == {id \in JobIDs : rows[id] # NoJob}
InStatus(rows, statuses) == {id \in Known(rows) : rows[id].status \in statuses}

TypeOK ==
    /\ phase \in {"down", "restoring", "up"}
    /\ now \in Nat
    /\ jobs \in Rows
    /\ dead \in [JobIDs -> Nat]
    /\ failing \in [Callers -> Calls \cup {NoCall}]
    /\ unread \in SUBSET JobIDs
    /\ restored \in Rows
    /\ restoredDead \in [JobIDs -> Nat]
    /\ restoreAt \in Nat
    /\ storedJobs \in Rows
    /\ alerts \in SUBSET JobIDs
    /\ attempts \in [JobIDs -> Nat]
    /\ revivals \in [JobIDs -> Nat]

Init ==
    /\ phase = "down"
    /\ now = 0
    /\ jobs = NoRows
    /\ dead = NoEntries
    /\ failing = [c \in Callers |-> NoCall]
    /\ unread = {}
    /\ restored = NoRows
    /\ restoredDead = NoEntries
    /\ restoreAt = 0
    /\ storedJobs = NoRows
    /\ alerts = {}
    /\ attempts = NoEntries
    /\ revivals = NoEntries

-----------------------------------------------------------------------------
(* Writes.  persistJob: the row, then the memory.  persistDeadLetter and     *)
(* persistDeadLetterRetry: the row and its alert in one transaction, then    *)
(* the memory and the in-memory dead-letter list.                            *)

\* Mutant of persistJob: an error of the store is not looked at.
persistJobIfStoreWorks(id, job) ==
    /\ storedJobs' \in {storedJobs, [storedJobs EXCEPT ![id] = job]}
    /\ jobs' = [jobs EXCEPT ![id] = job]
    /\ UNCHANGED <<alerts, dead>>

persistJob(id, job) ==
    /\ storedJobs' = [storedJobs EXCEPT ![id] = job]
    /\ jobs' = [jobs EXCEPT ![id] = job]
    /\ UNCHANGED <<alerts, dead>>

persistDeadLetter(id, job) ==
    /\ storedJobs' = [storedJobs EXCEPT ![id] = job]
    /\ alerts' = alerts \cup {id}
    /\ jobs' = [jobs EXCEPT ![id] = job]
    /\ dead' = [dead EXCEPT ![id] = @ + 1]

\* Mutant of persistDeadLetterRetry: the alert is not resolved.
persistDeadLetterRetryOnly(id, job) ==
    /\ storedJobs' = [storedJobs EXCEPT ![id] = job]
    /\ jobs' = [jobs EXCEPT ![id] = job]
    /\ dead' = [dead EXCEPT ![id] = IF @ > 0 THEN @ - 1 ELSE 0]
    /\ UNCHANGED alerts

persistDeadLetterRetry(id, job) ==
    /\ storedJobs' = [storedJobs EXCEPT ![id] = job]
    /\ alerts' = alerts \ {id}
    /\ jobs' = [jobs EXCEPT ![id] = job]
    /\ dead' = [dead EXCEPT ![id] = IF @ > 0 THEN @ - 1 ELSE 0]

Serving(id) == phase = "up" /\ jobs[id] # NoJob

Outside == <<phase, now, restore>>

-----------------------------------------------------------------------------
(* Operations *)

Enqueue(id, maxRetries) ==
    /\ phase = "up"
    /\ jobs[id] = NoJob
    /\ persistJob(id, NewJob(maxRetries))
    /\ UNCHANGED <<Outside, failing, history>>

Heartbeat(id) ==
    /\ Serving(id)
    /\ jobs[id].status = "running"
    /\ persistJob(id, renewLease(jobs[id], now))
    /\ UNCHANGED <<Outside, failing, history>>

\* MarkRunning: DispatchReady, a plugin or the timeout handler claims the job.
\* Nothing here looks at NextRunAt; ReadyJobs does, earlier.
MarkRunning(id) ==
    /\ Serving(id)
    /\ CanTransitionTo(jobs[id], "running")
    /\ persistJob(id, stampRunningOwnership(Transition(jobs[id], "running", now, ""), now))
    /\ attempts' = [attempts EXCEPT ![id] = @ + 1]
    /\ UNCHANGED <<Outside, failing, revivals>>

\* Retry writes what MarkRunning writes and logs another message.
Retry(id) == MarkRunning(id)

Complete(id) ==
    /\ Serving(id)
    /\ CanTransitionTo(jobs[id], "done")
    /\ persistJob(id, clearJobOwnership(Transition(jobs[id], "done", now, "")))
    /\ UNCHANGED <<Outside, failing, history>>

failWithReasonCode(id, reason, reasonCode) ==
    LET job == jobs[id]
        failed == FailedJob(job, now, reason, reasonCode)
    IN  /\ Serving(id)
        /\ CanFail(job)
        /\ IF RetriesLeft(job) THEN persistJob(id, failed)
                               ELSE persistDeadLetter(id, failed)
        /\ UNCHANGED <<Outside, history>>

Timeout(id) ==
    /\ failWithReasonCode(id, "timeout", "timeout")
    /\ UNCHANGED failing

\* Fail, first half: read the job, choose the reason code, release the lock.
BeginFail(c, id) ==
    /\ Serving(id)
    /\ failing[c] = NoCall
    /\ failing' = [failing EXCEPT ![c] =
                     [id |-> id, reasonCode |-> executionReasonCode(jobs[id])]]
    /\ UNCHANGED <<Outside, jobs, dead, store, history>>

\* transitionQueuedJobDispatchFailure does the same with dispatchReasonCode,
\* for a job its Inspect saw running.
BeginDispatchFailure(c, id) ==
    /\ Serving(id)
    /\ jobs[id].status = "running"
    /\ failing[c] = NoCall
    /\ failing' = [failing EXCEPT ![c] =
                     [id |-> id, reasonCode |-> dispatchReasonCode(jobs[id])]]
    /\ UNCHANGED <<Outside, jobs, dead, store, history>>

\* Fail, second half, on whatever the job has become meanwhile.
EndFail(c, reason) ==
    /\ failing[c] # NoCall
    /\ failWithReasonCode(failing[c].id, reason, failing[c].reasonCode)
    /\ failing' = [failing EXCEPT ![c] = NoCall]

\* The second half returns an error: the job cannot fail any more, or the store
\* refused the write.
RefuseFail(c) ==
    /\ phase = "up"
    /\ failing[c] # NoCall
    /\ failing' = [failing EXCEPT ![c] = NoCall]
    /\ UNCHANGED <<Outside, jobs, dead, store, history>>

RetryDeadLetter(id) ==
    /\ Serving(id)
    /\ jobs[id].status = "dead"
    /\ jobs[id].deadLetter
    /\ revivals[id] < MaxRevivals
    /\ persistDeadLetterRetry(id, reviveDeadLetterJob(jobs[id]))
    /\ revivals' = [revivals EXCEPT ![id] = @ + 1]
    /\ UNCHANGED <<Outside, failing, attempts>>

Pause(id) ==
    /\ Serving(id)
    /\ jobs[id].status \in {"pending", "retrying"}
    /\ persistJob(id, clearJobOwnership(Transition(jobs[id], "paused", now, "")))
    /\ UNCHANGED <<Outside, failing, history>>

Resumed(job, at) ==
    LET next == IF job.nextRunAt = NoTime THEN "pending" ELSE "retrying"
        resumed == clearJobOwnership(Transition(job, next, at, ""))
    IN  IF next = "pending" THEN [resumed EXCEPT !.reasonCode = ""] ELSE resumed

Resume(id) ==
    /\ Serving(id)
    /\ jobs[id].status = "paused"
    /\ persistJob(id, Resumed(jobs[id], now))
    /\ UNCHANGED <<Outside, failing, history>>

Cancel(id) ==
    /\ Serving(id)
    /\ jobs[id].status \in {"pending", "retrying"}
    /\ persistJob(id, clearJobOwnership(Transition(jobs[id], "cancelled", now, "")))
    /\ UNCHANGED <<Outside, failing, history>>

-----------------------------------------------------------------------------
(* The process *)

\* Restore: list the rows and fix the time of the recovery.
BeginRestore ==
    /\ phase = "down"
    /\ phase' = "restoring"
    /\ unread' = Known(storedJobs)
    /\ restoreAt' = now
    /\ restored' = NoRows
    /\ restoredDead' = NoEntries
    /\ UNCHANGED <<now, memory, store, history>>

\* One row: a running job is a failed attempt, written back before the next
\* row is looked at.
RecoverRow(id, reason) ==
    LET job == recoverJob(storedJobs[id], restoreAt, reason)
        died == job.status = "dead"
    IN  /\ phase = "restoring"
        /\ id \in unread
        /\ unread' = unread \ {id}
        /\ storedJobs' = [storedJobs EXCEPT ![id] = job]
        /\ alerts' = IF died /\ storedJobs[id].status # "dead"
                     THEN alerts \cup {id} ELSE alerts
        /\ restored' = [restored EXCEPT ![id] = job]
        /\ restoredDead' = IF died THEN [restoredDead EXCEPT ![id] = @ + 1]
                                   ELSE restoredDead
        /\ UNCHANGED <<phase, now, restoreAt, memory, history>>

\* The maps built are published; the runtime goes on to serve requests.
EndRestore ==
    /\ phase = "restoring"
    /\ unread = {}
    /\ phase' = "up"
    /\ jobs' = restored
    /\ dead' = restoredDead
    /\ restored' = NoRows
    /\ restoredDead' = NoEntries
    /\ UNCHANGED <<now, unread, restoreAt, failing, store, history>>

\* The process ends: killed at any point, or because Restore met a store error.
Crash ==
    /\ phase # "down"
    /\ phase' = "down"
    /\ jobs' = NoRows
    /\ dead' = NoEntries
    /\ failing' = [c \in Callers |-> NoCall]
    /\ unread' = {}
    /\ restored' = NoRows
    /\ restoredDead' = NoEntries
    /\ UNCHANGED <<now, restoreAt, store, history>>

Tick ==
    /\ now < MaxTime
    /\ now' = now + 1
    /\ UNCHANGED <<phase, memory, restore, store, history>>

Next ==
    \/ \E id \in JobIDs, m \in RetryBudgets : Enqueue(id, m)
    \/ \E id \in JobIDs :
        \/ Heartbeat(id)
        \/ MarkRunning(id)
        \/ Retry(id)
        \/ Complete(id)
        \/ Timeout(id)
        \/ RetryDeadLetter(id)
        \/ Pause(id)
        \/ Resume(id)
        \/ Cancel(id)
    \/ \E c \in Callers, id \in JobIDs : BeginFail(c, id) \/ BeginDispatchFailure(c, id)
    \/ \E c \in Callers, reason \in Errors : EndFail(c, reason)
    \/ \E c \in Callers : RefuseFail(c)
    \/ BeginRestore
    \/ \E id \in JobIDs, reason \in Errors : RecoverRow(id, reason)
    \/ EndRestore
    \/ Crash
    \/ Tick

Spec == Init /\ [][Next]_vars

-----------------------------------------------------------------------------
(* Safety *)

\* While the process serves, its map of jobs is the jobs table: persist-first
\* writes never leave the two apart, and Restore rebuilds the map in full.
MemoryMatchesStore ==
    phase = "up" => jobs = storedJobs

\* The dead letters have one meaning in four places: the status, the DeadLetter
\* flag, the alert row and, once in the process's list, JobQueue.dead.  Crashes
\* between rows of Restore, revivals and second deaths never split them.
DeadLettersAgree ==
    LET buried == InStatus(storedJobs, {"dead"})
    IN  /\ alerts = buried
        /\ buried = {id \in Known(storedJobs) : storedJobs[id].deadLetter}
        /\ phase = "up" => \A id \in JobIDs : dead[id] = IF id \in buried THEN 1 ELSE 0

\* Executors get a job at most once per retry it has been charged, once more for
\* its first run and once per operator revival, however often the process dies
\* while it runs; and no retry is charged for a run that never happened.
AttemptsWithinBudget ==
    \A id \in Known(storedJobs) :
        LET job == storedJobs[id]
        IN  /\ job.retryCount =< job.maxRetries
            /\ job.retryCount =< attempts[id]
            /\ attempts[id] =< job.retryCount + 1 + revivals[id]

\* The reason code tells the truth about the outcome although Fail picks it
\* before it takes the lock: a retrying job never says "dead", a dead job never
\* says "retry", and neither is left without a reason and an error text.
ReasonMatchesOutcome ==
    \A id \in Known(storedJobs) :
        LET job == storedJobs[id]
        IN  /\ job.status = "retrying" =>
                  job.reasonCode \notin {"", "execution_dead", "dispatch_dead"}
            /\ job.status = "dead" =>
                  job.reasonCode \notin {"", "execution_retry", "dispatch_retry"}
            /\ job.status \in {"retrying", "dead"} => job.lastError # ""

\* A job has an owner and a lease exactly while it runs, so a lease read by
\* Restore or shown by the console always belongs to the current run.
OwnedIffRunning ==
    \A id \in Known(storedJobs) :
        LET job == storedJobs[id]
        IN  /\ (job.status = "running") <=> (job.workerID # "")
            /\ (job.status = "running") <=> (job.leaseExpiresAt # NoTime)

\* ReadyJobs and Resume tell a fresh job from a retry by NextRunAt: a pending
\* job has none, a retrying one always has one, and a paused one has it exactly
\* when a failure's reason code is still to be kept.
RetryIsScheduled ==
    \A id \in Known(storedJobs) :
        LET job == storedJobs[id]
        IN  /\ job.status = "pending" => job.nextRunAt = NoTime /\ job.reasonCode = ""
            /\ job.status = "retrying" => job.nextRunAt # NoTime
            /\ job.status = "paused" => ((job.nextRunAt = NoTime) <=> (job.reasonCode = ""))

-----------------------------------------------------------------------------
(* What a step may never do *)

\* No run survives a restart: when the process starts to serve, no job is
\* running, so every running job has been claimed by this very process.
NothingRunsAfterRestore ==
    [][phase = "restoring" /\ phase' = "up" => InStatus(jobs', {"running"}) = {}]_vars

\* Done and cancelled are final, and dead is left only by an operator's
\* RetryDeadLetter: not by a late Complete, Fail or Timeout, nor by Restore.
TerminalIsFinal ==
    [][\A id \in Known(storedJobs) :
         /\ storedJobs[id].status \in {"done", "cancelled"} =>
               storedJobs'[id] = storedJobs[id]
         /\ storedJobs[id].status = "dead" /\ storedJobs'[id] # storedJobs[id] =>
               revivals'[id] = revivals[id] + 1]_vars

\* The time of a scheduled retry survives pause, resume, crash, recovery and a
\* failure reported for the paused job: it changes only when the job runs, is
\* cancelled, dies or is revived.
RetryTimeKept ==
    [][\A id \in InStatus(storedJobs, {"retrying", "paused"}) :
         /\ storedJobs[id].nextRunAt # NoTime
         /\ storedJobs'[id].status \in {"retrying", "paused"}
         => storedJobs'[id].nextRunAt = storedJobs[id].nextRunAt]_vars

\* A paused job waits for the operator: it leaves paused only by Resume.  (It
\* does not hold: Job.CanTransitionTo lets a failure take a paused job to
\* retrying, and neither Timeout nor a late Fail checks for the pause.)
PauseHolds ==
    [][\A id \in InStatus(storedJobs, {"paused"}) :
         storedJobs'[id].status # "paused" => Resume(id)]_vars

-----------------------------------------------------------------------------
(* The inductive invariant: the safety properties above, strengthened by     *)
(* what a paused job must still carry, by how an attempt is paid for in each *)
(* status, by the invariant of Restore's loop and by what is still true of   *)
(* the code a Fail call picked when it takes the lock again.                 *)

RetryReasons == ReasonCodes \ {"", "execution_dead", "dispatch_dead"}
DeadReasons  == ReasonCodes \ {"", "execution_retry", "dispatch_retry"}

\* An attempt is still unpaid while it runs and after it ended the job.
Unpaid(job) == IF job.status \in {"running", "done", "dead"} THEN 1 ELSE 0

\* A run under way may still be charged as a retry.
UnderWay(job) == IF job.status = "running" THEN 1 ELSE 0

SoundCounts(job, attempted, revived) ==
    /\ job.retryCount =< job.maxRetries
    /\ job.retryCount + UnderWay(job) =< attempted
    /\ attempted =< job.retryCount + revived + Unpaid(job)

SoundLabels(job) ==
    /\ job.status # "failed"
    /\ job.deadLetter <=> job.status = "dead"
    /\ (job.status = "running") <=> (job.workerID # "")
    /\ (job.status = "running") <=> (job.leaseExpiresAt # NoTime)
    /\ job.status = "pending" => job.nextRunAt = NoTime /\ job.reasonCode = ""
    /\ job.status = "retrying" => job.nextRunAt # NoTime
    /\ job.status = "paused" /\ job.nextRunAt = NoTime => job.reasonCode = ""
    /\ \/ job.status = "retrying"
       \/ job.status = "paused" /\ job.nextRunAt # NoTime
       => job.reasonCode \in RetryReasons /\ job.lastError # ""
    /\ job.status = "dead" => job.reasonCode \in DeadReasons /\ job.lastError # ""

RowsSound ==
    \A id \in Known(storedJobs) :
        /\ SoundCounts(storedJobs[id], attempts[id], revivals[id])
        /\ SoundLabels(storedJobs[id])

HistoryStartsEmpty ==
    \A id \in JobIDs : storedJobs[id] = NoJob => attempts[id] = 0 /\ revivals[id] = 0

DeadEntry(job) == IF job # NoJob /\ job.status = "dead" THEN 1 ELSE 0

\* The rows Restore has passed are as it will publish them and none runs.
RestoreSound ==
    phase = "restoring" =>
        /\ unread \subseteq Known(storedJobs)
        /\ \A id \in JobIDs \ unread :
              /\ restored[id] = storedJobs[id]
              /\ restoredDead[id] = DeadEntry(storedJobs[id])
              /\ restored[id] # NoJob => restored[id].status # "running"
        /\ \A id \in unread : restoredDead[id] = 0

ServingSound ==
    phase = "up" => /\ jobs = storedJobs
                    /\ \A id \in JobIDs : dead[id] = DeadEntry(storedJobs[id])

CallsSound ==
    \A c \in Callers : failing[c] # NoCall =>
        /\ phase = "up"
        /\ jobs[failing[c].id] # NoJob
        /\ failing[c].reasonCode \in {"execution_retry", "execution_dead",
                                      "dispatch_retry", "dispatch_dead"}
        /\ failing[c].reasonCode \in {"execution_dead", "dispatch_dead"} =>
              ~RetriesLeft(jobs[failing[c].id])

QueueInvariant ==
    /\ TypeOK
    /\ RowsSound
    /\ HistoryStartsEmpty
    /\ alerts = InStatus(storedJobs, {"dead"})
    /\ RestoreSound
    /\ ServingSound
    /\ CallsSound

-----------------------------------------------------------------------------
(* The ledger the jobs and alerts tables keep *)

PlaceOf(row) ==
    IF row = NoJob THEN "absent"
    ELSE CASE row.status \in {"pending", "retrying"} -> "waiting"
           [] row.status = "running" -> "running"
           [] row.status = "paused" -> "held"
           [] row.status = "done" -> "finished"
           [] row.status \in {"cancelled", "failed"} -> "dropped"
           [] row.status = "dead" -> "buried"

UsedOf(row) == IF row = NoJob THEN 0 ELSE row.retryCount
BudgetOf(row) == IF row = NoJob THEN 0 ELSE row.maxRetries

Ledger == INSTANCE JobLedger WITH
    Budgets <- RetryBudgets,
    place   <- [id \in JobIDs |-> PlaceOf(storedJobs[id])],
    used    <- [id \in JobIDs |-> UsedOf(storedJobs[id])],
    budget  <- [id \in JobIDs |-> BudgetOf(storedJobs[id])],
    alarms  <- alerts

\* Seen through its tables, the queue does what the ledger does: crashes,
\* restarts, recovery, the clock and racing Fail calls add no step of their own.
ImplementsLedger == Ledger!LedgerSpec

=============================================================================
