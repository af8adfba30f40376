----------------------------- MODULE JobLifecycle -----------------------------
(***************************************************************************)
(* The life cycle of one job: the Job value of packages/plugin-sdk and the *)
(* pure functions of packages/runtime-core/job_queue.go that compute a new *)
(* Job from an old one.  A job's identity, type, payload and trace fields  *)
(* never change and are left out.  A time is a tick of a logical clock.    *)
(* StartedAt and FinishedAt are only displayed; HeartbeatAt is always      *)
(* LeaseExpiresAt minus the lease TTL and LeaseAcquiredAt is set and       *)
(* cleared with LeaseExpiresAt, so one field stands for the lease.         *)
(***************************************************************************)
EXTENDS Integers

CONSTANTS
    LeaseTTL,   \* JobQueue.leaseTTL, in ticks
    WorkerID,   \* JobQueue.workerID, the identity stamped on running jobs
    Errors      \* the texts a failed execution can leave in LastError

ASSUME LeaseAssumption == LeaseTTL \in Nat \ {0}
ASSUME IdentityAssumption == WorkerID # "" /\ Errors # {} /\ "" \notin Errors

Statuses == {"pending", "running", "retrying", "paused",
             "cancelled", "failed", "dead", "done"}

ReasonCodes == {"", "runtime_restart", "worker_abandoned", "timeout",
                "dispatch_retry", "dispatch_dead",
                "execution_retry", "execution_dead"}

\* The nil *time.Time.
NoTime == -1

Job == [status         : Statuses,
        retryCount     : Nat,
        maxRetries     : Nat,
        lastError      : Errors \cup {""},
        reasonCode     : ReasonCodes,
        nextRunAt      : Nat \cup {NoTime},
        workerID       : {"", WorkerID},
        leaseExpiresAt : Nat \cup {NoTime},
        deadLetter     : BOOLEAN]

NewJob(maxRetries) ==
    [status |-> "pending", retryCount |-> 0, maxRetries |-> maxRetries,
     lastError |-> "", reasonCode |-> "", nextRunAt |-> NoTime,
     workerID |-> "", leaseExpiresAt |-> NoTime, deadLetter |-> FALSE]

-----------------------------------------------------------------------------
(* Job.CanTransitionTo and Job.Transition *)

CanTransitionTo(job, next) ==
    \/ job.status = "pending"  /\ next \in {"running", "paused", "cancelled", "dead"}
    \/ job.status = "running"  /\ next \in {"retrying", "failed", "dead", "done"}
    \/ job.status = "retrying" /\ next \in {"running", "paused", "cancelled", "dead"}
    \/ job.status = "paused"   /\ next \in {"pending", "retrying"}
    \/ job.status = "failed"   /\ next \in {"retrying", "dead"}

\* Mutant of CarriesRetry: a lost run is carried along instead of charged.
CarriesAnyRetry(job, next) ==
    job.status # "pending" /\ next \in {"paused", "retrying"}

\* A pause of a retrying job and the resume that undoes it carry the pending
\* retry along instead of scheduling a new one.
CarriesRetry(job, next) ==
    \/ job.status = "retrying" /\ next = "paused"
    \/ job.status = "paused" /\ next = "retrying"

\* Mutant of NextRunAfter: a resume moves the retry's time.
NextRunAfterReschedules(job, next, at) ==
    CASE next \in {"pending", "running", "cancelled"} -> NoTime
      [] next = "retrying" -> at
      [] OTHER -> job.nextRunAt

NextRunAfter(job, next, at) ==
    CASE next \in {"pending", "running", "cancelled"} -> NoTime
      [] next = "paused" -> IF CarriesRetry(job, next) THEN job.nextRunAt ELSE NoTime
      [] next = "retrying" -> IF CarriesRetry(job, next) /\ job.nextRunAt # NoTime
                              THEN job.nextRunAt ELSE at
      [] OTHER -> job.nextRunAt

Transition(job, next, at, lastError) ==
    [job EXCEPT
        !.status = next,
        !.lastError = IF CarriesRetry(job, next) /\ lastError = "" THEN @ ELSE lastError,
        !.retryCount = IF next = "retrying" /\ ~CarriesRetry(job, next) THEN @ + 1 ELSE @,
        !.nextRunAt = NextRunAfter(job, next, at),
        !.deadLetter = @ \/ next = "dead"]

-----------------------------------------------------------------------------
(* Ownership of a running job *)

stampRunningOwnership(job, at) ==
    [job EXCEPT !.lastError = "", !.reasonCode = "",
                !.workerID = WorkerID, !.leaseExpiresAt = at + LeaseTTL]

renewLease(job, at) ==
    [job EXCEPT !.workerID = IF @ = "" THEN WorkerID ELSE @,
                !.leaseExpiresAt = at + LeaseTTL]

clearJobOwnership(job) ==
    [job EXCEPT !.workerID = "", !.leaseExpiresAt = NoTime]

applyFailureMetadata(job, reasonCode) ==
    clearJobOwnership([job EXCEPT !.reasonCode = reasonCode])

leaseExpired(job, at) ==
    job.leaseExpiresAt # NoTime /\ job.leaseExpiresAt =< at

-----------------------------------------------------------------------------
(* Failure, revival and recovery *)

\* Mutant of RetriesLeft: off by one.
RetriesLeftInclusive(job) == job.retryCount =< job.maxRetries

RetriesLeft(job) == job.retryCount < job.maxRetries

simpleBackoff(retryCount) == IF retryCount < 1 THEN 1 ELSE retryCount

\* Mutant of executionReasonCode: the retry about to be charged counts already.
executionReasonCodeAhead(job) ==
    IF job.retryCount + 1 < job.maxRetries THEN "execution_retry" ELSE "execution_dead"

executionReasonCode(job) ==
    IF RetriesLeft(job) THEN "execution_retry" ELSE "execution_dead"

dispatchReasonCode(job) ==
    IF RetriesLeft(job) THEN "dispatch_retry" ELSE "dispatch_dead"

\* Mutant of deadReasonCode: the code picked before the lock is trusted.
pickedReasonCode(reasonCode) == reasonCode

deadReasonCode(reasonCode) ==
    CASE reasonCode = "dispatch_retry" -> "dispatch_dead"
      [] reasonCode = "execution_retry" -> "execution_dead"
      [] OTHER -> reasonCode

\* A failure goes to retrying while the job has retries left, to dead otherwise.
AfterFailure(job) == IF RetriesLeft(job) THEN "retrying" ELSE "dead"

\* Mutant of CanFail: only done is treated as final.
CanFailUnlessDone(job) == job.status # "done"

CanFail(job) == CanTransitionTo(job, AfterFailure(job))

FailedJob(job, at, reason, reasonCode) ==
    IF RetriesLeft(job)
    THEN applyFailureMetadata(
            Transition(job, "retrying", at + simpleBackoff(job.retryCount + 1), reason),
            reasonCode)
    ELSE applyFailureMetadata(
            Transition(job, "dead", at, reason), deadReasonCode(reasonCode))

reviveDeadLetterJob(job) ==
    clearJobOwnership([job EXCEPT !.status = "pending", !.lastError = "",
                                  !.reasonCode = "", !.nextRunAt = NoTime,
                                  !.deadLetter = FALSE])

\* Mutant of recoverJob: a run whose lease has not expired is left alone.
recoverAbandonedJob(job, at, reason) ==
    IF job.status # "running" \/ ~leaseExpired(job, at)
    THEN job
    ELSE applyFailureMetadata(Transition(job, AfterFailure(job), at, reason), "worker_abandoned")

\* What Restore makes of a stored job: only a running one changes, and its
\* retry is due at once.
recoverJob(job, at, reason) ==
    IF job.status # "running"
    THEN job
    ELSE applyFailureMetadata(
            Transition(job, AfterFailure(job), at, reason),
            IF leaseExpired(job, at) THEN "worker_abandoned" ELSE "runtime_restart")
=============================================================================
