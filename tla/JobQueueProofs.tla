---------------------------- MODULE JobQueueProofs ----------------------------
(***************************************************************************)
(* Proofs about JobQueue: its typing and safety invariants for every set   *)
(* of jobs and callers, every retry budget, lease and clock bound.         *)
(*                                                                         *)
(* The argument: each function that computes a new row from an old one     *)
(* keeps a row sound (the lemmas that follow); every step writes at most   *)
(* one row, with one of those functions; so QueueInvariant is inductive,   *)
(* and it implies the properties.                                          *)
(***************************************************************************)
EXTENDS JobQueue, TLAPS

-----------------------------------------------------------------------------
(* Rows *)

\* The fields of a job have their types.
LEMMA JobFields ==
    ASSUME NEW job \in Job
    PROVE  /\ job.retryCount \in Nat /\ job.maxRetries \in Nat
           /\ job.nextRunAt \in Nat \cup {NoTime}
           /\ job.leaseExpiresAt \in Nat \cup {NoTime}
           /\ job.deadLetter \in BOOLEAN
           /\ job.status \in Statuses /\ job.reasonCode \in ReasonCodes
  BY DEF Job

\* A time is not the absent time.
LEMMA TimeIsNotNoTime ==
    ASSUME NEW at \in Nat PROVE at # NoTime
  BY DEF NoTime

\* A new job is a sound row of a job nobody ran or revived.
LEMMA NewRow ==
    ASSUME NEW maxRetries \in Nat
    PROVE  /\ NewJob(maxRetries) \in Job
           /\ SoundCounts(NewJob(maxRetries), 0, 0)
           /\ SoundLabels(NewJob(maxRetries))
  BY DEF NewJob, Job, Statuses, ReasonCodes, NoTime, SoundCounts, SoundLabels, Unpaid, UnderWay

\* What becomes of a claimed job.
Run(job, at) == stampRunningOwnership(Transition(job, "running", at, ""), at)

\* A claim makes a sound running row and pays for it with an attempt.
LEMMA RunningRow ==
    ASSUME NEW job \in Job, NEW at \in Nat, CanTransitionTo(job, "running")
    PROVE  /\ Run(job, at) \in Job
           /\ Run(job, at).status = "running"
           /\ Run(job, at).retryCount = job.retryCount
           /\ Run(job, at).maxRetries = job.maxRetries
           /\ SoundLabels(job) => SoundLabels(Run(job, at))
           /\ \A a, r \in Nat : SoundCounts(job, a, r) => SoundCounts(Run(job, at), a + 1, r)
<1> DEFINE run == Run(job, at)
<1>1. run = [job EXCEPT !.status = "running", !.lastError = "", !.reasonCode = "",
                        !.nextRunAt = NoTime, !.workerID = WorkerID,
                        !.leaseExpiresAt = at + LeaseTTL]
  BY DEF Run, Job, Transition, CarriesRetry, NextRunAfter, stampRunningOwnership
<1> HIDE DEF run
<1>2. at + LeaseTTL \in Nat /\ at + LeaseTTL # NoTime
  BY LeaseAssumption, TimeIsNotNoTime DEF LeaseAssumption
<1>3. run \in Job
  <2>1. "running" \in Statuses /\ "" \in ReasonCodes
    BY DEF Statuses, ReasonCodes
  <2> QED
    BY <1>1, <1>2, <2>1 DEF Job
<1>4. /\ run.status = "running"
      /\ run.retryCount = job.retryCount
      /\ run.maxRetries = job.maxRetries
      /\ run.workerID = WorkerID
      /\ run.leaseExpiresAt = at + LeaseTTL
      /\ run.deadLetter = job.deadLetter
  BY <1>1 DEF Job
<1>5. SoundLabels(job) => SoundLabels(run)
  BY <1>2, <1>4, JobFields, IdentityAssumption
     DEF IdentityAssumption, SoundLabels, CanTransitionTo
<1>6. ASSUME NEW a \in Nat, NEW r \in Nat, SoundCounts(job, a, r)
      PROVE  SoundCounts(run, a + 1, r)
  <2>1. /\ Unpaid(job) = 0 /\ Unpaid(run) = 1
        /\ UnderWay(job) = 0 /\ UnderWay(run) = 1
    BY <1>4 DEF CanTransitionTo, Unpaid, UnderWay
  <2> QED
    BY <1>4, <1>6, <2>1, JobFields DEF SoundCounts
<1> QED
  BY <1>3, <1>4, <1>5, <1>6 DEF run

\* A heartbeat keeps a running row sound.
LEMMA RenewedRow ==
    ASSUME NEW job \in Job, NEW at \in Nat, job.status = "running"
    PROVE  /\ renewLease(job, at) \in Job
           /\ renewLease(job, at).status = "running"
           /\ renewLease(job, at).retryCount = job.retryCount
           /\ renewLease(job, at).maxRetries = job.maxRetries
           /\ SoundLabels(job) => SoundLabels(renewLease(job, at))
           /\ \A a, r \in Nat : SoundCounts(job, a, r) => SoundCounts(renewLease(job, at), a, r)
<1> DEFINE renewed == renewLease(job, at)
<1>1. at + LeaseTTL \in Nat /\ at + LeaseTTL # NoTime
  BY LeaseAssumption, TimeIsNotNoTime DEF LeaseAssumption
<1>2. /\ renewed \in Job
      /\ renewed.status = "running"
      /\ renewed.retryCount = job.retryCount
      /\ renewed.maxRetries = job.maxRetries
      /\ renewed.workerID = IF job.workerID = "" THEN WorkerID ELSE job.workerID
      /\ renewed.leaseExpiresAt = at + LeaseTTL
      /\ renewed.deadLetter = job.deadLetter
  BY <1>1 DEF renewLease, Job
<1> HIDE DEF renewed
<1>3. SoundLabels(job) => SoundLabels(renewed)
  BY <1>1, <1>2, IdentityAssumption DEF IdentityAssumption, SoundLabels
<1>4. ASSUME NEW a \in Nat, NEW r \in Nat, SoundCounts(job, a, r)
      PROVE  SoundCounts(renewed, a, r)
  BY <1>2, <1>4 DEF SoundCounts, Unpaid, UnderWay
<1> QED
  BY <1>2, <1>3, <1>4 DEF renewed

\* The row of a job that is completed, cancelled or paused.
Put(job, status, at) == clearJobOwnership(Transition(job, status, at, ""))

\* The fields of such a row.
LEMMA PutFields ==
    ASSUME NEW job \in Job, NEW at \in Nat,
           NEW status \in {"done", "cancelled", "paused"}
    PROVE  /\ Put(job, status, at) \in Job
           /\ Put(job, status, at).status = status
           /\ Put(job, status, at).retryCount = job.retryCount
           /\ Put(job, status, at).maxRetries = job.maxRetries
           /\ Put(job, status, at).workerID = ""
           /\ Put(job, status, at).leaseExpiresAt = NoTime
           /\ Put(job, status, at).deadLetter = job.deadLetter
           /\ Put(job, status, at).reasonCode = job.reasonCode
<1>1. "" \in Errors \cup {""} /\ status \in Statuses /\ NoTime \in Nat \cup {NoTime}
  BY DEF Statuses
<1>2. NextRunAfter(job, status, at) \in Nat \cup {NoTime}
  BY JobFields DEF NextRunAfter
<1> QED
  BY <1>1, <1>2 DEF Put, Job, Transition, CarriesRetry, clearJobOwnership

\* Completing a running job settles the attempt that is under way.
LEMMA DoneRow ==
    ASSUME NEW job \in Job, NEW at \in Nat, CanTransitionTo(job, "done")
    PROVE  /\ SoundLabels(job) => SoundLabels(Put(job, "done", at))
           /\ \A a, r \in Nat : SoundCounts(job, a, r) => SoundCounts(Put(job, "done", at), a, r)
<1>1. job.status = "running"
  BY DEF CanTransitionTo
<1>2. SoundLabels(job) => SoundLabels(Put(job, "done", at))
  BY <1>1, PutFields DEF SoundLabels
<1>3. ASSUME NEW a \in Nat, NEW r \in Nat, SoundCounts(job, a, r)
      PROVE  SoundCounts(Put(job, "done", at), a, r)
  <2>1. job.retryCount \in Nat
    BY JobFields
  <2>2. job.retryCount + 1 =< a
    BY <1>1, <1>3 DEF SoundCounts, UnderWay
  <2>3. job.retryCount + 0 =< a
    BY <2>1, <2>2
  <2> QED
    BY <1>1, <1>3, <2>3, PutFields DEF SoundCounts, Unpaid, UnderWay
<1> QED
  BY <1>2, <1>3

\* Cancelling a waiting job keeps its row sound.
LEMMA CancelledRow ==
    ASSUME NEW job \in Job, NEW at \in Nat, job.status \in {"pending", "retrying"}
    PROVE  /\ SoundLabels(job) => SoundLabels(Put(job, "cancelled", at))
           /\ \A a, r \in Nat : SoundCounts(job, a, r) => SoundCounts(Put(job, "cancelled", at), a, r)
<1>1. SoundLabels(job) => SoundLabels(Put(job, "cancelled", at))
  BY PutFields DEF SoundLabels
<1>2. ASSUME NEW a \in Nat, NEW r \in Nat, SoundCounts(job, a, r)
      PROVE  SoundCounts(Put(job, "cancelled", at), a, r)
  BY <1>2, PutFields DEF SoundCounts, Unpaid, UnderWay
<1> QED
  BY <1>1, <1>2

\* Pausing keeps the schedule, reason and error of a pending retry.
LEMMA PausedRow ==
    ASSUME NEW job \in Job, NEW at \in Nat, job.status \in {"pending", "retrying"}
    PROVE  /\ SoundLabels(job) => SoundLabels(Put(job, "paused", at))
           /\ \A a, r \in Nat : SoundCounts(job, a, r) => SoundCounts(Put(job, "paused", at), a, r)
<1>1. /\ job.status = "pending" => Put(job, "paused", at).nextRunAt = NoTime
      /\ job.status = "retrying" => /\ Put(job, "paused", at).nextRunAt = job.nextRunAt
                                     /\ Put(job, "paused", at).lastError = job.lastError
  BY DEF Put, Job, Transition, CarriesRetry, NextRunAfter, clearJobOwnership
<1>2. SoundLabels(job) => SoundLabels(Put(job, "paused", at))
  BY <1>1, PutFields DEF SoundLabels
<1>3. ASSUME NEW a \in Nat, NEW r \in Nat, SoundCounts(job, a, r)
      PROVE  SoundCounts(Put(job, "paused", at), a, r)
  BY <1>3, PutFields DEF SoundCounts, Unpaid, UnderWay
<1> QED
  BY <1>2, <1>3

\* Resume gives a paused retry back its schedule and its reason.
LEMMA ResumedRow ==
    ASSUME NEW job \in Job, NEW at \in Nat, job.status = "paused"
    PROVE  /\ Resumed(job, at) \in Job
           /\ Resumed(job, at).status \in {"pending", "retrying"}
           /\ Resumed(job, at).retryCount = job.retryCount
           /\ Resumed(job, at).maxRetries = job.maxRetries
           /\ SoundLabels(job) => SoundLabels(Resumed(job, at))
           /\ \A a, r \in Nat : SoundCounts(job, a, r) => SoundCounts(Resumed(job, at), a, r)
<1> DEFINE resumed == Resumed(job, at)
<1>1. CASE job.nextRunAt = NoTime
  <2>1. resumed = [job EXCEPT !.status = "pending", !.lastError = "", !.reasonCode = "",
                              !.nextRunAt = NoTime, !.workerID = "",
                              !.leaseExpiresAt = NoTime]
    BY <1>1 DEF Resumed, Job, Transition, CarriesRetry, NextRunAfter, clearJobOwnership
  <2> HIDE DEF resumed
  <2>2. /\ "pending" \in Statuses /\ "" \in ReasonCodes
        /\ NoTime \in Nat \cup {NoTime} /\ "" \in Errors \cup {""}
    BY DEF Statuses, ReasonCodes
  <2>3. /\ resumed \in Job
        /\ resumed.status = "pending"
        /\ resumed.reasonCode = ""
        /\ resumed.nextRunAt = NoTime
        /\ resumed.retryCount = job.retryCount
        /\ resumed.maxRetries = job.maxRetries
        /\ resumed.workerID = ""
        /\ resumed.leaseExpiresAt = NoTime
        /\ resumed.deadLetter = job.deadLetter
    BY <2>1, <2>2 DEF Job
  <2>4. SoundLabels(job) => SoundLabels(resumed)
    BY <2>3 DEF SoundLabels
  <2>5. ASSUME NEW a \in Nat, NEW r \in Nat, SoundCounts(job, a, r)
        PROVE  SoundCounts(resumed, a, r)
    BY <2>3, <2>5 DEF SoundCounts, Unpaid, UnderWay
  <2> QED
    BY <2>3, <2>4, <2>5 DEF resumed
<1>2. CASE job.nextRunAt # NoTime
  <2>1. resumed = [job EXCEPT !.status = "retrying", !.workerID = "",
                              !.leaseExpiresAt = NoTime]
    BY <1>2 DEF Resumed, Job, Transition, CarriesRetry, NextRunAfter, clearJobOwnership
  <2> HIDE DEF resumed
  <2>2. "retrying" \in Statuses
    BY DEF Statuses
  <2>3. /\ resumed \in Job
        /\ resumed.status = "retrying"
        /\ resumed.reasonCode = job.reasonCode
        /\ resumed.lastError = job.lastError
        /\ resumed.nextRunAt = job.nextRunAt
        /\ resumed.retryCount = job.retryCount
        /\ resumed.maxRetries = job.maxRetries
        /\ resumed.workerID = ""
        /\ resumed.leaseExpiresAt = NoTime
        /\ resumed.deadLetter = job.deadLetter
    BY <2>1, <2>2 DEF Job
  <2>4. SoundLabels(job) => SoundLabels(resumed)
    BY <1>2, <2>3 DEF SoundLabels
  <2>5. ASSUME NEW a \in Nat, NEW r \in Nat, SoundCounts(job, a, r)
        PROVE  SoundCounts(resumed, a, r)
    BY <2>3, <2>5 DEF SoundCounts, Unpaid, UnderWay
  <2> QED
    BY <2>3, <2>4, <2>5 DEF resumed
<1> QED
  BY <1>1, <1>2

\* A revived job is as good as new, except that its retries stay spent: the run
\* that buried it becomes payable by the revival.
LEMMA RevivedRow ==
    ASSUME NEW job \in Job, job.status = "dead"
    PROVE  /\ reviveDeadLetterJob(job) \in Job
           /\ reviveDeadLetterJob(job).status = "pending"
           /\ reviveDeadLetterJob(job).retryCount = job.retryCount
           /\ reviveDeadLetterJob(job).maxRetries = job.maxRetries
           /\ SoundLabels(job) => SoundLabels(reviveDeadLetterJob(job))
           /\ \A a, r \in Nat : SoundCounts(job, a, r) =>
                                 SoundCounts(reviveDeadLetterJob(job), a, r + 1)
<1> DEFINE revived == reviveDeadLetterJob(job)
<1>1. "pending" \in Statuses /\ "" \in ReasonCodes
  BY DEF Statuses, ReasonCodes
<1>2. /\ revived \in Job
      /\ revived.status = "pending"
      /\ revived.reasonCode = ""
      /\ revived.nextRunAt = NoTime
      /\ revived.retryCount = job.retryCount
      /\ revived.maxRetries = job.maxRetries
      /\ revived.workerID = ""
      /\ revived.leaseExpiresAt = NoTime
      /\ revived.deadLetter = FALSE
  BY <1>1 DEF reviveDeadLetterJob, clearJobOwnership, Job
<1> HIDE DEF revived
<1>3. SoundLabels(job) => SoundLabels(revived)
  BY <1>2 DEF SoundLabels
<1>4. ASSUME NEW a \in Nat, NEW r \in Nat, SoundCounts(job, a, r)
      PROVE  SoundCounts(revived, a, r + 1)
  <2>1. /\ Unpaid(job) = 1 /\ Unpaid(revived) = 0
        /\ UnderWay(job) = 0 /\ UnderWay(revived) = 0
    BY <1>2 DEF Unpaid, UnderWay
  <2>2. /\ job.retryCount \in Nat
        /\ job.retryCount =< a
        /\ a =< job.retryCount + r + 1
        /\ job.retryCount =< job.maxRetries
    BY <1>4, <2>1, JobFields DEF SoundCounts
  <2>3. a =< job.retryCount + (r + 1) + 0 /\ job.retryCount + 0 =< a
    BY <2>2
  <2> QED
    BY <1>2, <2>1, <2>2, <2>3 DEF SoundCounts
<1> QED
  BY <1>2, <1>3, <1>4 DEF revived

\* A failure that leaves the job a retry.
LEMMA RetryingRow ==
    ASSUME NEW job \in Job, NEW at \in Nat, NEW reason \in Errors,
           NEW code \in RetryReasons,
           CanFail(job), RetriesLeft(job), job.status # "failed"
    PROVE  LET new == applyFailureMetadata(Transition(job, "retrying", at, reason), code)
           IN  /\ new \in Job
               /\ new.status = "retrying"
               /\ new.maxRetries = job.maxRetries
               /\ new.retryCount \in {job.retryCount, job.retryCount + 1}
               /\ job.status = "running" => new.retryCount = job.retryCount + 1
               /\ job.status # "running" => job.status = "paused" /\ new.retryCount = job.retryCount
               /\ SoundLabels(job) => SoundLabels(new)
               /\ \A a, r \in Nat : SoundCounts(job, a, r) => SoundCounts(new, a, r)
<1> DEFINE new == applyFailureMetadata(Transition(job, "retrying", at, reason), code)
           due == IF job.status = "paused" /\ job.nextRunAt # NoTime THEN job.nextRunAt ELSE at
           count == IF job.status = "paused" THEN job.retryCount ELSE job.retryCount + 1
<1>1. job.status \in {"running", "paused"}
  BY DEF CanFail, AfterFailure, CanTransitionTo
<1>2. reason # ""
  BY IdentityAssumption DEF IdentityAssumption
<1>3. new = [job EXCEPT !.status = "retrying", !.lastError = reason, !.reasonCode = code,
                        !.retryCount = count, !.nextRunAt = due,
                        !.workerID = "", !.leaseExpiresAt = NoTime]
  BY <1>1, <1>2 DEF Job, Transition, CarriesRetry, NextRunAfter, applyFailureMetadata,
                    clearJobOwnership
<1> HIDE DEF new
<1>4. /\ "retrying" \in Statuses /\ code \in ReasonCodes
      /\ NoTime \in Nat \cup {NoTime} /\ reason \in Errors \cup {""}
  BY DEF Statuses, RetryReasons
<1>5. count \in Nat /\ due \in Nat /\ due # NoTime
  BY JobFields, TimeIsNotNoTime
<1> HIDE DEF due, count
<1>6. /\ new \in Job
      /\ new.status = "retrying"
      /\ new.lastError = reason
      /\ new.reasonCode = code
      /\ new.retryCount = count
      /\ new.maxRetries = job.maxRetries
      /\ new.nextRunAt = due
      /\ new.workerID = ""
      /\ new.leaseExpiresAt = NoTime
      /\ new.deadLetter = job.deadLetter
  BY <1>3, <1>4, <1>5 DEF Job
<1>7. SoundLabels(job) => SoundLabels(new)
  BY <1>1, <1>2, <1>5, <1>6 DEF SoundLabels
<1>8. ASSUME NEW a \in Nat, NEW r \in Nat, SoundCounts(job, a, r)
      PROVE  SoundCounts(new, a, r)
  <2>1. /\ job.retryCount \in Nat /\ job.maxRetries \in Nat
        /\ job.retryCount < job.maxRetries
        /\ Unpaid(new) = 0 /\ UnderWay(new) = 0
    BY <1>6, JobFields DEF RetriesLeft, Unpaid, UnderWay
  <2>2. CASE job.status = "running"
    <3>1. count = job.retryCount + 1 /\ Unpaid(job) = 1 /\ UnderWay(job) = 1
      BY <2>2 DEF count, Unpaid, UnderWay
    <3>2. job.retryCount + 1 =< a /\ a =< job.retryCount + r + 1
      BY <1>8, <3>1 DEF SoundCounts
    <3>3. a =< (job.retryCount + 1) + r + 0 /\ (job.retryCount + 1) + 0 =< a
      BY <2>1, <3>2
    <3>4. job.retryCount + 1 =< job.maxRetries
      BY <2>1
    <3> QED
      BY <1>6, <2>1, <3>1, <3>3, <3>4 DEF SoundCounts
  <2>3. CASE job.status = "paused"
    <3>1. count = job.retryCount /\ Unpaid(job) = 0 /\ UnderWay(job) = 0
      BY <2>3 DEF count, Unpaid, UnderWay
    <3> QED
      BY <1>6, <1>8, <2>1, <3>1 DEF SoundCounts
  <2> QED
    BY <1>1, <2>2, <2>3
<1>9. /\ count \in {job.retryCount, job.retryCount + 1}
      /\ job.status = "running" => count = job.retryCount + 1
      /\ job.status # "running" => job.status = "paused" /\ count = job.retryCount
  BY <1>1 DEF count
<1> QED
  BY <1>6, <1>7, <1>8, <1>9 DEF new

\* A failure that buries the job.
LEMMA DeadRow ==
    ASSUME NEW job \in Job, NEW at \in Nat, NEW reason \in Errors,
           NEW code \in DeadReasons,
           CanFail(job), ~RetriesLeft(job), job.status # "failed"
    PROVE  LET new == applyFailureMetadata(Transition(job, "dead", at, reason), code)
           IN  /\ new \in Job
               /\ new.status = "dead"
               /\ job.status \in {"pending", "running", "retrying"}
               /\ new.maxRetries = job.maxRetries
               /\ new.retryCount = job.retryCount
               /\ SoundLabels(job) => SoundLabels(new)
               /\ \A a, r \in Nat : SoundCounts(job, a, r) => SoundCounts(new, a, r)
<1> DEFINE new == applyFailureMetadata(Transition(job, "dead", at, reason), code)
<1>1. job.status \in {"pending", "running", "retrying"}
  BY DEF CanFail, AfterFailure, CanTransitionTo
<1>2. reason # ""
  BY IdentityAssumption DEF IdentityAssumption
<1>3. new = [job EXCEPT !.status = "dead", !.lastError = reason, !.reasonCode = code,
                        !.workerID = "", !.leaseExpiresAt = NoTime, !.deadLetter = TRUE]
  BY <1>1, <1>2 DEF Job, Transition, CarriesRetry, NextRunAfter, applyFailureMetadata,
                    clearJobOwnership
<1> HIDE DEF new
<1>4. /\ "dead" \in Statuses /\ code \in ReasonCodes
      /\ NoTime \in Nat \cup {NoTime} /\ reason \in Errors \cup {""}
  BY DEF Statuses, DeadReasons
<1>5. /\ new \in Job
      /\ new.status = "dead"
      /\ new.lastError = reason
      /\ new.reasonCode = code
      /\ new.retryCount = job.retryCount
      /\ new.maxRetries = job.maxRetries
      /\ new.workerID = ""
      /\ new.leaseExpiresAt = NoTime
      /\ new.deadLetter = TRUE
  BY <1>3, <1>4 DEF Job
<1>6. SoundLabels(job) => SoundLabels(new)
  BY <1>1, <1>2, <1>5 DEF SoundLabels
<1>7. ASSUME NEW a \in Nat, NEW r \in Nat, SoundCounts(job, a, r)
      PROVE  SoundCounts(new, a, r)
  <2>1. /\ job.retryCount \in Nat
        /\ Unpaid(new) = 1 /\ UnderWay(new) = 0
        /\ Unpaid(job) \in {0, 1} /\ UnderWay(job) \in {0, 1}
    BY <1>5, JobFields DEF Unpaid, UnderWay
  <2>2. /\ job.retryCount + UnderWay(job) =< a
        /\ a =< job.retryCount + r + Unpaid(job)
        /\ job.retryCount =< job.maxRetries
    BY <1>7 DEF SoundCounts
  <2>3. job.retryCount + 0 =< a /\ a =< job.retryCount + r + 1
    BY <2>1, <2>2
  <2> QED
    BY <1>5, <2>1, <2>2, <2>3 DEF SoundCounts
<1> QED
  BY <1>1, <1>5, <1>6, <1>7 DEF new

-----------------------------------------------------------------------------
(* Steps *)

\* Every operation of a serving queue is a write of one sound row.
Writes(id, new) ==
    /\ phase = "up" /\ phase' = "up" /\ now' = now /\ UNCHANGED restore
    /\ storedJobs' = [storedJobs EXCEPT ![id] = new]
    /\ jobs' = [jobs EXCEPT ![id] = new]
    /\ alerts' = IF new.status = "dead" THEN alerts \cup {id} ELSE alerts \ {id}
    /\ dead' = [dead EXCEPT ![id] = DeadEntry(new)]
    /\ \E a \in Nat : attempts' = [attempts EXCEPT ![id] = a]
    /\ \E r \in Nat : revivals' = [revivals EXCEPT ![id] = r]
    /\ \A c \in Callers : failing'[c] \in {failing[c], NoCall}
    /\ failing' \in [Callers -> Calls \cup {NoCall}]

Successor(old, new) ==
    old # NoJob => /\ new.retryCount >= old.retryCount
                   /\ new.maxRetries = old.maxRetries

\* Such a write keeps the invariant.
LEMMA WritesKeepInvariant ==
    ASSUME QueueInvariant, NEW id \in JobIDs, NEW new \in Job,
           Writes(id, new), Successor(jobs[id], new),
           SoundLabels(new), SoundCounts(new, attempts'[id], revivals'[id])
    PROVE  QueueInvariant'
<1>1. new # NoJob /\ new \in Job \cup {NoJob}
  BY SentinelAssumption DEF SentinelAssumption
<1>2. TypeOK'
  <2>1. alerts' \in SUBSET JobIDs
    BY DEF QueueInvariant, TypeOK, Writes
  <2>2. dead' \in [JobIDs -> Nat]
    BY DEF QueueInvariant, TypeOK, Writes, DeadEntry
  <2>3. storedJobs' \in Rows /\ jobs' \in Rows
    BY <1>1 DEF QueueInvariant, TypeOK, Writes, Rows
  <2> QED
    BY <2>1, <2>2, <2>3 DEF QueueInvariant, TypeOK, Writes, restore
<1>3. RowsSound'
  <2>1. storedJobs'[id] = new
    BY DEF QueueInvariant, TypeOK, Writes, Rows
  <2>2. ASSUME NEW k \in JobIDs, k # id
        PROVE  /\ storedJobs'[k] = storedJobs[k]
               /\ attempts'[k] = attempts[k]
               /\ revivals'[k] = revivals[k]
    BY <2>2 DEF QueueInvariant, TypeOK, Writes, Rows
  <2> QED
    BY <2>1, <2>2 DEF QueueInvariant, RowsSound, Known
<1>4. (alerts = InStatus(storedJobs, {"dead"}))'
  <2>1. \A k \in JobIDs : storedJobs'[k] = IF k = id THEN new ELSE storedJobs[k]
    BY DEF QueueInvariant, TypeOK, Writes, Rows
  <2>2. alerts = {k \in JobIDs : storedJobs[k] # NoJob /\ storedJobs[k].status = "dead"}
    BY DEF QueueInvariant, InStatus, Known
  <2>3. alerts' = {k \in JobIDs : storedJobs'[k] # NoJob /\ storedJobs'[k].status = "dead"}
    BY <1>1, <2>1, <2>2 DEF Writes
  <2> QED
    BY <2>3 DEF InStatus, Known
<1>5. RestoreSound'
  BY DEF Writes, RestoreSound
<1>6. ServingSound'
  <2>1. jobs' = storedJobs'
    BY DEF QueueInvariant, ServingSound, Writes
  <2>2. \A k \in JobIDs : dead'[k] = DeadEntry(storedJobs'[k])
    BY DEF QueueInvariant, ServingSound, TypeOK, Rows, Writes
  <2> QED
    BY <2>1, <2>2 DEF ServingSound
<1>7. CallsSound'
  <2> SUFFICES ASSUME NEW c \in Callers, failing'[c] # NoCall
               PROVE  /\ phase' = "up"
                      /\ jobs'[failing'[c].id] # NoJob
                      /\ failing'[c].reasonCode \in {"execution_retry", "execution_dead",
                                                     "dispatch_retry", "dispatch_dead"}
                      /\ failing'[c].reasonCode \in {"execution_dead", "dispatch_dead"} =>
                            ~RetriesLeft(jobs'[failing'[c].id])
    BY DEF CallsSound, RetriesLeft
  <2> DEFINE k == failing[c].id
  <2>1. failing'[c] = failing[c] /\ failing[c] # NoCall
    BY DEF Writes
  <2>2. k \in JobIDs
    BY <2>1 DEF QueueInvariant, TypeOK, Calls
  <2>3. jobs'[k] = IF k = id THEN new ELSE jobs[k]
    BY <2>2 DEF QueueInvariant, TypeOK, Rows, Writes
  <2>4. /\ jobs[k] # NoJob
        /\ failing[c].reasonCode \in {"execution_retry", "execution_dead",
                                      "dispatch_retry", "dispatch_dead"}
        /\ failing[c].reasonCode \in {"execution_dead", "dispatch_dead"} =>
              ~RetriesLeft(jobs[k])
    BY <2>1 DEF QueueInvariant, CallsSound
  <2>5. jobs[k] \in Job
    BY <2>2, <2>4 DEF QueueInvariant, TypeOK, Rows
  <2>6. ~RetriesLeft(jobs[k]) => ~RetriesLeft(jobs'[k])
    <3>1. CASE k = id
      <4>1. /\ new.retryCount \in Nat /\ new.maxRetries \in Nat
            /\ jobs[k].retryCount \in Nat /\ jobs[k].maxRetries \in Nat
        BY <2>5, JobFields
      <4>2. new.retryCount >= jobs[k].retryCount /\ new.maxRetries = jobs[k].maxRetries
        BY <2>4, <3>1 DEF Successor
      <4> QED
        BY <2>3, <3>1, <4>1, <4>2 DEF RetriesLeft
    <3>2. CASE k # id
      BY <2>3, <3>2
    <3> QED
      BY <3>1, <3>2
  <2> QED
    BY <1>1, <2>1, <2>3, <2>4, <2>6 DEF Writes
<1>8. HistoryStartsEmpty'
  BY <1>1 DEF QueueInvariant, TypeOK, Rows, Writes, HistoryStartsEmpty
<1> QED
  BY <1>2, <1>3, <1>4, <1>5, <1>6, <1>7, <1>8 DEF QueueInvariant

\* What an operation knows of the job it finds in memory.
LEMMA ServedJob ==
    ASSUME QueueInvariant, NEW id \in JobIDs, Serving(id)
    PROVE  /\ jobs[id] \in Job /\ jobs[id] # NoJob
           /\ attempts[id] \in Nat /\ revivals[id] \in Nat /\ now \in Nat
           /\ SoundLabels(jobs[id])
           /\ SoundCounts(jobs[id], attempts[id], revivals[id])
           /\ jobs[id].retryCount \in Nat
           /\ dead[id] = DeadEntry(jobs[id])
           /\ id \in alerts <=> jobs[id].status = "dead"
<1>1. jobs = storedJobs /\ id \in Known(storedJobs) /\ jobs[id] \in Job
  BY DEF QueueInvariant, ServingSound, TypeOK, Rows, Known, Serving
<1>2. jobs[id].retryCount \in Nat
  BY <1>1, JobFields
<1> QED
  BY <1>1, <1>2 DEF QueueInvariant, RowsSound, ServingSound, TypeOK, InStatus, Known, Serving

\* Histories of a step that neither hands out nor revives the job.
LEMMA SameHistory ==
    ASSUME QueueInvariant, NEW id \in JobIDs, UNCHANGED history
    PROVE  /\ \E a \in Nat : attempts' = [attempts EXCEPT ![id] = a]
           /\ \E r \in Nat : revivals' = [revivals EXCEPT ![id] = r]
           /\ attempts'[id] = attempts[id] /\ revivals'[id] = revivals[id]
<1>1. /\ attempts[id] \in Nat /\ attempts' = [attempts EXCEPT ![id] = attempts[id]]
      /\ revivals[id] \in Nat /\ revivals' = [revivals EXCEPT ![id] = revivals[id]]
  BY DEF QueueInvariant, TypeOK, history
<1> QED
  BY <1>1 DEF history

\* No operation but the two halves of Fail touches the calls.
LEMMA SameCalls ==
    ASSUME QueueInvariant, UNCHANGED failing
    PROVE  /\ \A c \in Callers : failing'[c] \in {failing[c], NoCall}
           /\ failing' \in [Callers -> Calls \cup {NoCall}]
  BY DEF QueueInvariant, TypeOK

\* A persistJob that neither buries nor unburies is such a write.
LEMMA PersistIsWrite ==
    ASSUME QueueInvariant, NEW id \in JobIDs, NEW new \in Job,
           phase = "up", UNCHANGED Outside, persistJob(id, new), new.status # "dead",
           jobs[id] # NoJob => jobs[id].status # "dead",
           \E a \in Nat : attempts' = [attempts EXCEPT ![id] = a],
           \E r \in Nat : revivals' = [revivals EXCEPT ![id] = r],
           \A c \in Callers : failing'[c] \in {failing[c], NoCall},
           failing' \in [Callers -> Calls \cup {NoCall}]
    PROVE  Writes(id, new)
<1>1. jobs = storedJobs /\ id \notin alerts
  BY DEF QueueInvariant, ServingSound, InStatus, Known
<1>2. alerts' = alerts \ {id}
  BY <1>1 DEF persistJob
<1>3. dead[id] = 0 /\ DeadEntry(new) = 0
  BY <1>1 DEF QueueInvariant, ServingSound, DeadEntry
<1>4. dead' = [dead EXCEPT ![id] = DeadEntry(new)]
  BY <1>3 DEF persistJob, QueueInvariant, TypeOK
<1> QED
  BY <1>2, <1>4 DEF Writes, persistJob, Outside

\* Enqueue writes a sound row where there was none.
LEMMA EnqueueStep ==
    ASSUME QueueInvariant, NEW id \in JobIDs, NEW m \in RetryBudgets, Enqueue(id, m)
    PROVE  QueueInvariant'
<1> DEFINE new == NewJob(m)
<1>1. /\ m \in Nat /\ new \in Job /\ new.status = "pending"
      /\ SoundLabels(new) /\ SoundCounts(new, 0, 0)
      /\ new.retryCount = 0 /\ Unpaid(new) = 0 /\ UnderWay(new) = 0
      /\ new.maxRetries = m
  BY NewRow, BoundAssumption DEF BoundAssumption, NewJob, Unpaid, UnderWay
<1>2. UNCHANGED history /\ UNCHANGED failing /\ jobs[id] = NoJob /\ phase = "up"
  BY DEF Enqueue
<1> HIDE DEF new
<1>3. Writes(id, new)
  BY <1>1, <1>2, PersistIsWrite, SameHistory, SameCalls DEF Enqueue, new
<1>4. attempts[id] = 0 /\ revivals[id] = 0
  BY <1>2 DEF QueueInvariant, HistoryStartsEmpty, ServingSound
<1>5. SoundCounts(new, attempts'[id], revivals'[id])
  BY <1>1, <1>2, <1>4, SameHistory
<1> QED
  BY <1>1, <1>2, <1>3, <1>5, WritesKeepInvariant DEF Successor

\* Heartbeat writes the renewed row of a running job.
LEMMA HeartbeatStep ==
    ASSUME QueueInvariant, NEW id \in JobIDs, Heartbeat(id)
    PROVE  QueueInvariant'
<1> DEFINE job == jobs[id]
           new == renewLease(job, now)
<1>1. /\ Serving(id) /\ job.status = "running"
      /\ persistJob(id, new)
      /\ UNCHANGED Outside /\ UNCHANGED failing /\ UNCHANGED history
  BY DEF Heartbeat
<1>2. /\ job \in Job /\ job # NoJob /\ now \in Nat
      /\ attempts[id] \in Nat /\ revivals[id] \in Nat
      /\ SoundLabels(job) /\ SoundCounts(job, attempts[id], revivals[id])
      /\ job.retryCount \in Nat
  BY <1>1, ServedJob
<1>3. /\ new \in Job /\ new.status # "dead"
      /\ new.retryCount = job.retryCount /\ new.maxRetries = job.maxRetries
      /\ SoundLabels(new) /\ SoundCounts(new, attempts[id], revivals[id])
  BY <1>1, <1>2, RenewedRow
<1> HIDE DEF new, job
<1>4. Writes(id, new)
  BY <1>1, <1>3, PersistIsWrite, SameHistory, SameCalls DEF Serving, job
<1>5. Successor(jobs[id], new)
  BY <1>2, <1>3 DEF Successor, job
<1> QED
  BY <1>1, <1>3, <1>4, <1>5, SameHistory, WritesKeepInvariant

\* Complete settles the run.
LEMMA CompleteStep ==
    ASSUME QueueInvariant, NEW id \in JobIDs, Complete(id)
    PROVE  QueueInvariant'
<1> DEFINE job == jobs[id]
           new == Put(job, "done", now)
<1>1. /\ Serving(id) /\ job.status = "running"
      /\ persistJob(id, new)
      /\ UNCHANGED Outside /\ UNCHANGED failing /\ UNCHANGED history
  BY DEF Complete, Put, CanTransitionTo
<1>2. /\ job \in Job /\ job # NoJob /\ now \in Nat
      /\ attempts[id] \in Nat /\ revivals[id] \in Nat
      /\ SoundLabels(job) /\ SoundCounts(job, attempts[id], revivals[id])
      /\ job.retryCount \in Nat
  BY <1>1, ServedJob
<1>3. /\ new \in Job /\ new.status # "dead"
      /\ new.retryCount = job.retryCount /\ new.maxRetries = job.maxRetries
      /\ SoundLabels(new) /\ SoundCounts(new, attempts[id], revivals[id])
  BY <1>1, <1>2, PutFields, DoneRow DEF CanTransitionTo
<1> HIDE DEF new, job
<1>4. Writes(id, new)
  BY <1>1, <1>3, PersistIsWrite, SameHistory, SameCalls DEF Serving, job
<1>5. Successor(jobs[id], new)
  BY <1>2, <1>3 DEF Successor, job
<1> QED
  BY <1>1, <1>3, <1>4, <1>5, SameHistory, WritesKeepInvariant

\* Pause writes a held row.
LEMMA PauseStep ==
    ASSUME QueueInvariant, NEW id \in JobIDs, Pause(id)
    PROVE  QueueInvariant'
<1> DEFINE job == jobs[id]
           new == Put(job, "paused", now)
<1>1. /\ Serving(id) /\ job.status \in {"pending", "retrying"}
      /\ persistJob(id, new)
      /\ UNCHANGED Outside /\ UNCHANGED failing /\ UNCHANGED history
  BY DEF Pause, Put
<1>2. /\ job \in Job /\ job # NoJob /\ now \in Nat
      /\ attempts[id] \in Nat /\ revivals[id] \in Nat
      /\ SoundLabels(job) /\ SoundCounts(job, attempts[id], revivals[id])
      /\ job.retryCount \in Nat
  BY <1>1, ServedJob
<1>3. /\ new \in Job /\ new.status # "dead"
      /\ new.retryCount = job.retryCount /\ new.maxRetries = job.maxRetries
      /\ SoundLabels(new) /\ SoundCounts(new, attempts[id], revivals[id])
  BY <1>1, <1>2, PutFields, PausedRow
<1> HIDE DEF new, job
<1>4. Writes(id, new)
  BY <1>1, <1>3, PersistIsWrite, SameHistory, SameCalls DEF Serving, job
<1>5. Successor(jobs[id], new)
  BY <1>2, <1>3 DEF Successor, job
<1> QED
  BY <1>1, <1>3, <1>4, <1>5, SameHistory, WritesKeepInvariant

\* Cancel writes a closed row.
LEMMA CancelStep ==
    ASSUME QueueInvariant, NEW id \in JobIDs, Cancel(id)
    PROVE  QueueInvariant'
<1> DEFINE job == jobs[id]
           new == Put(job, "cancelled", now)
<1>1. /\ Serving(id) /\ job.status \in {"pending", "retrying"}
      /\ persistJob(id, new)
      /\ UNCHANGED Outside /\ UNCHANGED failing /\ UNCHANGED history
  BY DEF Cancel, Put
<1>2. /\ job \in Job /\ job # NoJob /\ now \in Nat
      /\ attempts[id] \in Nat /\ revivals[id] \in Nat
      /\ SoundLabels(job) /\ SoundCounts(job, attempts[id], revivals[id])
      /\ job.retryCount \in Nat
  BY <1>1, ServedJob
<1>3. /\ new \in Job /\ new.status # "dead"
      /\ new.retryCount = job.retryCount /\ new.maxRetries = job.maxRetries
      /\ SoundLabels(new) /\ SoundCounts(new, attempts[id], revivals[id])
  BY <1>1, <1>2, PutFields, CancelledRow
<1> HIDE DEF new, job
<1>4. Writes(id, new)
  BY <1>1, <1>3, PersistIsWrite, SameHistory, SameCalls DEF Serving, job
<1>5. Successor(jobs[id], new)
  BY <1>2, <1>3 DEF Successor, job
<1> QED
  BY <1>1, <1>3, <1>4, <1>5, SameHistory, WritesKeepInvariant

\* Resume writes a waiting row with the schedule it had.
LEMMA ResumeStep ==
    ASSUME QueueInvariant, NEW id \in JobIDs, Resume(id)
    PROVE  QueueInvariant'
<1> DEFINE job == jobs[id]
           new == Resumed(job, now)
<1>1. /\ Serving(id) /\ job.status = "paused"
      /\ persistJob(id, new)
      /\ UNCHANGED Outside /\ UNCHANGED failing /\ UNCHANGED history
  BY DEF Resume
<1>2. /\ job \in Job /\ job # NoJob /\ now \in Nat
      /\ attempts[id] \in Nat /\ revivals[id] \in Nat
      /\ SoundLabels(job) /\ SoundCounts(job, attempts[id], revivals[id])
      /\ job.retryCount \in Nat
  BY <1>1, ServedJob
<1>3. /\ new \in Job /\ new.status # "dead"
      /\ new.retryCount = job.retryCount /\ new.maxRetries = job.maxRetries
      /\ SoundLabels(new) /\ SoundCounts(new, attempts[id], revivals[id])
  BY <1>1, <1>2, ResumedRow
<1> HIDE DEF new, job
<1>4. Writes(id, new)
  BY <1>1, <1>3, PersistIsWrite, SameHistory, SameCalls DEF Serving, job
<1>5. Successor(jobs[id], new)
  BY <1>2, <1>3 DEF Successor, job
<1> QED
  BY <1>1, <1>3, <1>4, <1>5, SameHistory, WritesKeepInvariant

\* A claim raises the count of attempts with the status.
LEMMA MarkRunningStep ==
    ASSUME QueueInvariant, NEW id \in JobIDs, MarkRunning(id)
    PROVE  QueueInvariant'
<1> DEFINE job == jobs[id]
           new == Run(job, now)
<1>1. /\ Serving(id) /\ CanTransitionTo(job, "running")
      /\ persistJob(id, new)
      /\ attempts' = [attempts EXCEPT ![id] = @ + 1]
      /\ UNCHANGED Outside /\ UNCHANGED failing /\ UNCHANGED revivals
  BY DEF MarkRunning, Run
<1>2. /\ job \in Job /\ job # NoJob /\ now \in Nat
      /\ attempts[id] \in Nat /\ revivals[id] \in Nat
      /\ SoundLabels(job) /\ SoundCounts(job, attempts[id], revivals[id])
      /\ job.retryCount \in Nat
  BY <1>1, ServedJob
<1>3. /\ new \in Job /\ new.status = "running"
      /\ new.retryCount = job.retryCount /\ new.maxRetries = job.maxRetries
      /\ SoundLabels(new) /\ SoundCounts(new, attempts[id] + 1, revivals[id])
  BY <1>1, <1>2, RunningRow
<1>4. job.status # "dead"
  BY <1>1 DEF CanTransitionTo
<1> HIDE DEF new, job
<1>5. /\ attempts'[id] = attempts[id] + 1 /\ revivals'[id] = revivals[id]
      /\ \E a \in Nat : attempts' = [attempts EXCEPT ![id] = a]
      /\ \E r \in Nat : revivals' = [revivals EXCEPT ![id] = r]
  <2>1. attempts[id] + 1 \in Nat /\ attempts' = [attempts EXCEPT ![id] = attempts[id] + 1]
    BY <1>1, <1>2
  <2>2. revivals' = [revivals EXCEPT ![id] = revivals[id]]
    BY <1>1 DEF QueueInvariant, TypeOK
  <2>3. attempts'[id] = attempts[id] + 1
    BY <2>1 DEF QueueInvariant, TypeOK
  <2> QED
    BY <1>1, <1>2, <2>1, <2>2, <2>3
<1>6. Writes(id, new)
  BY <1>1, <1>3, <1>4, <1>5, PersistIsWrite, SameCalls DEF Serving, job
<1>7. Successor(jobs[id], new)
  BY <1>2, <1>3 DEF Successor, job
<1> QED
  BY <1>3, <1>5, <1>6, <1>7, WritesKeepInvariant

\* A revival takes the alert, the list entry and the flag away together.
LEMMA RetryDeadLetterStep ==
    ASSUME QueueInvariant, NEW id \in JobIDs, RetryDeadLetter(id)
    PROVE  QueueInvariant'
<1> DEFINE job == jobs[id]
           new == reviveDeadLetterJob(job)
<1>1. /\ Serving(id) /\ job.status = "dead"
      /\ persistDeadLetterRetry(id, new)
      /\ revivals' = [revivals EXCEPT ![id] = @ + 1]
      /\ UNCHANGED Outside /\ UNCHANGED failing /\ UNCHANGED attempts
  BY DEF RetryDeadLetter
<1>2. /\ job \in Job /\ job # NoJob /\ now \in Nat
      /\ attempts[id] \in Nat /\ revivals[id] \in Nat
      /\ SoundLabels(job) /\ SoundCounts(job, attempts[id], revivals[id])
      /\ job.retryCount \in Nat
      /\ dead[id] = 1
  BY <1>1, ServedJob DEF DeadEntry
<1>3. /\ new \in Job /\ new.status = "pending"
      /\ new.retryCount = job.retryCount /\ new.maxRetries = job.maxRetries
      /\ SoundLabels(new) /\ SoundCounts(new, attempts[id], revivals[id] + 1)
  BY <1>1, <1>2, RevivedRow
<1> HIDE DEF new, job
<1>4. /\ revivals'[id] = revivals[id] + 1 /\ attempts'[id] = attempts[id]
      /\ \E a \in Nat : attempts' = [attempts EXCEPT ![id] = a]
      /\ \E r \in Nat : revivals' = [revivals EXCEPT ![id] = r]
  <2>1. revivals[id] + 1 \in Nat /\ revivals' = [revivals EXCEPT ![id] = revivals[id] + 1]
    BY <1>1, <1>2
  <2>2. attempts' = [attempts EXCEPT ![id] = attempts[id]]
    BY <1>1 DEF QueueInvariant, TypeOK
  <2>3. revivals'[id] = revivals[id] + 1
    BY <2>1 DEF QueueInvariant, TypeOK
  <2> QED
    BY <1>1, <1>2, <2>1, <2>2, <2>3
<1>5. Writes(id, new)
  <2>1. dead' = [dead EXCEPT ![id] = DeadEntry(new)]
    BY <1>1, <1>2, <1>3 DEF persistDeadLetterRetry, DeadEntry
  <2>2. alerts' = alerts \ {id}
    BY <1>1 DEF persistDeadLetterRetry
  <2> QED
    BY <1>1, <1>3, <1>4, <2>1, <2>2, SameCalls
       DEF Writes, persistDeadLetterRetry, Outside, Serving
<1>6. Successor(jobs[id], new)
  BY <1>2, <1>3 DEF Successor, job
<1> QED
  BY <1>3, <1>4, <1>5, <1>6, WritesKeepInvariant

\* A failure, whatever the calls do: its code is a failure's code, and a code that
\* says "dead" was picked when no retry was left.
LEMMA FailureStep ==
    ASSUME QueueInvariant, NEW id \in JobIDs, NEW reason \in Errors,
           NEW code \in RetryReasons \cup DeadReasons,
           code \in {"execution_dead", "dispatch_dead"} => ~RetriesLeft(jobs[id]),
           failWithReasonCode(id, reason, code),
           \A c \in Callers : failing'[c] \in {failing[c], NoCall},
           failing' \in [Callers -> Calls \cup {NoCall}]
    PROVE  QueueInvariant'
<1> DEFINE job == jobs[id]
           new == FailedJob(job, now, reason, code)
<1>1. /\ Serving(id) /\ CanFail(job)
      /\ RetriesLeft(job) => persistJob(id, new)
      /\ ~RetriesLeft(job) => persistDeadLetter(id, new)
      /\ UNCHANGED Outside /\ UNCHANGED history
  BY DEF failWithReasonCode
<1>2. /\ job \in Job /\ job # NoJob /\ now \in Nat
      /\ attempts[id] \in Nat /\ revivals[id] \in Nat
      /\ SoundLabels(job) /\ SoundCounts(job, attempts[id], revivals[id])
      /\ job.retryCount \in Nat
  BY <1>1, ServedJob
<1>3. job.status \notin {"failed", "dead"}
  BY <1>1, <1>2 DEF SoundLabels, CanFail, AfterFailure, CanTransitionTo
<1> HIDE DEF job
<1>4. CASE RetriesLeft(job)
  <2> DEFINE at == now + simpleBackoff(job.retryCount + 1)
  <2>1. new = applyFailureMetadata(Transition(job, "retrying", at, reason), code)
    BY <1>4 DEF FailedJob
  <2>2. at \in Nat
    <3>1. simpleBackoff(job.retryCount + 1) \in Nat
      BY <1>2 DEF simpleBackoff
    <3> QED
      BY <1>2, <3>1
  <2>3. code \in RetryReasons
    BY <1>4 DEF RetryReasons, DeadReasons, job
  <2> HIDE DEF at, new
  <2>4. /\ new \in Job /\ new.status = "retrying"
        /\ new.retryCount \in {job.retryCount, job.retryCount + 1}
        /\ new.maxRetries = job.maxRetries
        /\ SoundLabels(new) /\ SoundCounts(new, attempts[id], revivals[id])
    BY <1>1, <1>2, <1>3, <1>4, <2>1, <2>2, <2>3, RetryingRow
  <2>5. Writes(id, new)
    BY <1>1, <1>3, <1>4, <2>4, PersistIsWrite, SameHistory DEF Serving, job
  <2>6. Successor(jobs[id], new)
    BY <1>2, <2>4 DEF Successor, job
  <2> QED
    BY <1>1, <2>4, <2>5, <2>6, SameHistory, WritesKeepInvariant
<1>5. CASE ~RetriesLeft(job)
  <2>1. new = applyFailureMetadata(Transition(job, "dead", now, reason), deadReasonCode(code))
    BY <1>5 DEF FailedJob
  <2>2. deadReasonCode(code) \in DeadReasons
    BY DEF deadReasonCode, RetryReasons, DeadReasons, ReasonCodes
  <2> HIDE DEF new
  <2>3. /\ new \in Job /\ new.status = "dead"
        /\ new.retryCount = job.retryCount
        /\ new.maxRetries = job.maxRetries
        /\ SoundLabels(new) /\ SoundCounts(new, attempts[id], revivals[id])
    BY <1>1, <1>2, <1>3, <1>5, <2>1, <2>2, DeadRow
  <2>4. new # NoJob
    BY <2>3, SentinelAssumption DEF SentinelAssumption
  <2>5. dead' = [dead EXCEPT ![id] = DeadEntry(new)]
    <3>1. dead[id] = 0
      BY <1>1, <1>3, ServedJob DEF DeadEntry, job
    <3>2. DeadEntry(new) = 1
      BY <2>3, <2>4 DEF DeadEntry
    <3> QED
      BY <1>1, <1>5, <3>1, <3>2 DEF persistDeadLetter
  <2>6. Writes(id, new)
    BY <1>1, <1>5, <2>3, <2>5, SameHistory DEF Writes, persistDeadLetter, Outside, Serving
  <2>7. Successor(jobs[id], new)
    BY <1>2, <2>3 DEF Successor, job
  <2> QED
    BY <1>1, <2>3, <2>6, <2>7, SameHistory, WritesKeepInvariant
<1> QED
  BY <1>4, <1>5

\* Timeout is a failure with a code that fits either outcome.
LEMMA TimeoutStep ==
    ASSUME QueueInvariant, NEW id \in JobIDs, Timeout(id)
    PROVE  QueueInvariant'
<1>1. "timeout" \in RetryReasons \cup DeadReasons /\ "timeout" \in Errors
  BY TextAssumption DEF TextAssumption, RetryReasons, DeadReasons, ReasonCodes
<1>2. failWithReasonCode(id, "timeout", "timeout") /\ UNCHANGED failing
  BY DEF Timeout
<1> QED
  BY <1>1, <1>2, FailureStep, SameCalls

\* The code a Fail call picked earlier still fits: budgets do not grow and
\* retries are not given back, so a job out of retries stays out of them.
LEMMA EndFailStep ==
    ASSUME QueueInvariant, NEW c \in Callers, NEW reason \in Errors, EndFail(c, reason)
    PROVE  QueueInvariant'
<1> DEFINE id == failing[c].id
           code == failing[c].reasonCode
<1>1. failing[c] # NoCall /\ failWithReasonCode(id, reason, code)
  BY DEF EndFail
<1>2. id \in JobIDs
  BY <1>1 DEF QueueInvariant, TypeOK, Calls
<1>3. /\ code \in {"execution_retry", "execution_dead", "dispatch_retry", "dispatch_dead"}
      /\ code \in {"execution_dead", "dispatch_dead"} => ~RetriesLeft(jobs[id])
  BY <1>1 DEF QueueInvariant, CallsSound
<1>4. code \in RetryReasons \cup DeadReasons
  BY <1>3 DEF RetryReasons, DeadReasons, ReasonCodes
<1>5. /\ \A d \in Callers : failing'[d] \in {failing[d], NoCall}
      /\ failing' \in [Callers -> Calls \cup {NoCall}]
  BY DEF EndFail, QueueInvariant, TypeOK
<1> QED
  BY <1>1, <1>2, <1>3, <1>4, <1>5, FailureStep

\* A call that begins holds a code that is right for the job as it is.
LEMMA CallBegins ==
    ASSUME QueueInvariant, NEW c \in Callers, NEW id \in JobIDs, Serving(id),
           NEW code \in {"execution_retry", "execution_dead", "dispatch_retry", "dispatch_dead"},
           code \in {"execution_dead", "dispatch_dead"} => ~RetriesLeft(jobs[id]),
           failing' = [failing EXCEPT ![c] = [id |-> id, reasonCode |-> code]],
           UNCHANGED <<Outside, jobs, dead, store, history>>
    PROVE  QueueInvariant'
<1> DEFINE call == [id |-> id, reasonCode |-> code]
<1>1. call \in Calls /\ call # NoCall
  <2>1. code \in ReasonCodes
    BY DEF ReasonCodes
  <2>2. call \in Calls
    BY <2>1 DEF Calls
  <2> QED
    BY <2>2, CallAssumption DEF CallAssumption
<1>2. TypeOK'
  BY <1>1 DEF QueueInvariant, TypeOK, Outside, restore, store, history
<1>3. CallsSound'
  <2> SUFFICES ASSUME NEW d \in Callers, failing'[d] # NoCall
               PROVE  /\ phase = "up"
                      /\ jobs[failing'[d].id] # NoJob
                      /\ failing'[d].reasonCode \in {"execution_retry", "execution_dead",
                                                     "dispatch_retry", "dispatch_dead"}
                      /\ failing'[d].reasonCode \in {"execution_dead", "dispatch_dead"} =>
                            ~RetriesLeft(jobs[failing'[d].id])
    BY DEF CallsSound, Outside, RetriesLeft
  <2>1. CASE d = c
    <3>1. failing'[d].id = id /\ failing'[d].reasonCode = code
      BY <2>1 DEF QueueInvariant, TypeOK
    <3> QED
      BY <3>1 DEF Serving
  <2>2. CASE d # c
    <3>1. failing'[d] = failing[d]
      BY <2>2 DEF QueueInvariant, TypeOK
    <3> QED
      BY <3>1 DEF QueueInvariant, CallsSound
  <2> QED
    BY <2>1, <2>2
<1> QED
  BY <1>2, <1>3 DEF QueueInvariant, RowsSound, HistoryStartsEmpty, RestoreSound, ServingSound,
                    InStatus, Known, Outside, restore, store, history

\* Both ways to begin a failure pick a code that fits the job as it is.
LEMMA BeginFailStep ==
    ASSUME QueueInvariant, NEW c \in Callers, NEW id \in JobIDs,
           BeginFail(c, id) \/ BeginDispatchFailure(c, id)
    PROVE  QueueInvariant'
<1>1. CASE BeginFail(c, id)
  <2>1. /\ executionReasonCode(jobs[id]) \in {"execution_retry", "execution_dead",
                                              "dispatch_retry", "dispatch_dead"}
        /\ executionReasonCode(jobs[id]) \in {"execution_dead", "dispatch_dead"} =>
              ~RetriesLeft(jobs[id])
    BY DEF executionReasonCode
  <2> QED
    BY <1>1, <2>1, CallBegins DEF BeginFail
<1>2. CASE BeginDispatchFailure(c, id)
  <2>1. /\ dispatchReasonCode(jobs[id]) \in {"execution_retry", "execution_dead",
                                             "dispatch_retry", "dispatch_dead"}
        /\ dispatchReasonCode(jobs[id]) \in {"execution_dead", "dispatch_dead"} =>
              ~RetriesLeft(jobs[id])
    BY DEF dispatchReasonCode
  <2> QED
    BY <1>2, <2>1, CallBegins DEF BeginDispatchFailure
<1> QED
  BY <1>1, <1>2

\* A refused failure writes nothing.
LEMMA RefuseFailStep ==
    ASSUME QueueInvariant, NEW c \in Callers, RefuseFail(c)
    PROVE  QueueInvariant'
<1>1. \A d \in Callers : failing'[d] \in {failing[d], NoCall}
  BY DEF RefuseFail, QueueInvariant, TypeOK
<1>2. TypeOK'
  BY DEF RefuseFail, QueueInvariant, TypeOK, Outside, restore, store, history
<1>3. CallsSound'
  <2> SUFFICES ASSUME NEW d \in Callers, failing'[d] # NoCall
               PROVE  /\ failing'[d] = failing[d]
                      /\ jobs' = jobs /\ phase' = phase
    BY DEF CallsSound, QueueInvariant, RetriesLeft
  <2> QED
    BY <1>1 DEF RefuseFail, Outside
<1> QED
  BY <1>2, <1>3 DEF RefuseFail, QueueInvariant, RowsSound, HistoryStartsEmpty, RestoreSound,
                    ServingSound, InStatus, Known, Outside, restore, store, history

\* Restore starts with every row unread and an empty list.
LEMMA BeginRestoreStep ==
    ASSUME QueueInvariant, BeginRestore
    PROVE  QueueInvariant'
<1>1. TypeOK'
  BY DEF BeginRestore, QueueInvariant, TypeOK, Rows, NoRows, NoEntries, Known,
         memory, store, history
<1>2. RestoreSound'
  BY DEF BeginRestore, QueueInvariant, RestoreSound, NoRows, NoEntries, Known, DeadEntry,
         memory, store, history
<1> QED
  BY <1>1, <1>2 DEF BeginRestore, QueueInvariant, RowsSound, HistoryStartsEmpty, ServingSound,
                    CallsSound, InStatus, Known, memory, store, history

\* A crash empties the memory and leaves the rows sound.
LEMMA CrashStep ==
    ASSUME QueueInvariant, Crash
    PROVE  QueueInvariant'
<1>1. TypeOK'
  BY DEF Crash, QueueInvariant, TypeOK, Rows, NoRows, NoEntries, store, history
<1>2. CallsSound'
  BY DEF Crash, CallsSound
<1> QED
  BY <1>1, <1>2 DEF Crash, QueueInvariant, RowsSound, HistoryStartsEmpty, ServingSound,
                    RestoreSound, InStatus, Known, store, history

\* The clock is in no part of the invariant but its type.
LEMMA TickStep ==
    ASSUME QueueInvariant, Tick
    PROVE  QueueInvariant'
<1>1. TypeOK'
  BY DEF Tick, QueueInvariant, TypeOK, Rows, memory, restore, store, history
<1> QED
  BY <1>1 DEF Tick, QueueInvariant, RowsSound, HistoryStartsEmpty, ServingSound, RestoreSound,
              CallsSound, InStatus, Known, memory, restore, store, history

\* With no row unread, what Restore publishes is the jobs table.
LEMMA EndRestoreStep ==
    ASSUME QueueInvariant, EndRestore
    PROVE  QueueInvariant'
<1>1. TypeOK'
  BY DEF EndRestore, QueueInvariant, TypeOK, Rows, NoRows, NoEntries, store, history
<1>2. ServingSound'
  <2>1. \A id \in JobIDs : restored[id] = storedJobs[id]
                          /\ restoredDead[id] = DeadEntry(storedJobs[id])
    BY DEF EndRestore, QueueInvariant, RestoreSound
  <2>2. restored = storedJobs
    BY <2>1 DEF QueueInvariant, TypeOK, Rows
  <2> QED
    BY <2>1, <2>2 DEF EndRestore, ServingSound, store
<1>3. CallsSound'
  BY DEF EndRestore, QueueInvariant, CallsSound
<1> QED
  BY <1>1, <1>2, <1>3 DEF EndRestore, QueueInvariant, RowsSound, HistoryStartsEmpty,
                          RestoreSound, InStatus, Known, store, history

\* Recovery keeps a row sound and leaves it not running.
LEMMA RecoveredRow ==
    ASSUME NEW job \in Job, NEW at \in Nat, NEW reason \in Errors, job.status # "failed"
    PROVE  /\ recoverJob(job, at, reason) \in Job
           /\ recoverJob(job, at, reason).status # "running"
           /\ job.status # "running" => recoverJob(job, at, reason) = job
           /\ job.status = "running" => recoverJob(job, at, reason).status = AfterFailure(job)
           /\ SoundLabels(job) => SoundLabels(recoverJob(job, at, reason))
           /\ \A a, r \in Nat : SoundCounts(job, a, r) =>
                                 SoundCounts(recoverJob(job, at, reason), a, r)
<1> DEFINE code == IF leaseExpired(job, at) THEN "worker_abandoned" ELSE "runtime_restart"
<1>1. CASE job.status # "running"
  BY <1>1 DEF recoverJob
<1>2. CASE job.status = "running"
  <2>1. code \in RetryReasons /\ code \in DeadReasons
    BY DEF RetryReasons, DeadReasons, ReasonCodes
  <2>2. CanFail(job)
    BY <1>2 DEF CanFail, AfterFailure, CanTransitionTo
  <2>3. recoverJob(job, at, reason) =
          applyFailureMetadata(Transition(job, AfterFailure(job), at, reason), code)
    BY <1>2 DEF recoverJob
  <2> HIDE DEF code
  <2>4. CASE RetriesLeft(job)
    BY <1>2, <2>1, <2>2, <2>3, <2>4, RetryingRow DEF AfterFailure
  <2>5. CASE ~RetriesLeft(job)
    BY <1>2, <2>1, <2>2, <2>3, <2>5, DeadRow DEF AfterFailure
  <2> QED
    BY <2>4, <2>5
<1> QED
  BY <1>1, <1>2

\* One recovered row: written, remembered, its alert raised if it died.
LEMMA RecoverRowStep ==
    ASSUME QueueInvariant, NEW id \in JobIDs, NEW reason \in Errors, RecoverRow(id, reason)
    PROVE  QueueInvariant'
<1> DEFINE old == storedJobs[id]
           new == recoverJob(old, restoreAt, reason)
<1>1. /\ phase = "restoring" /\ phase' = "restoring" /\ id \in unread
      /\ unread' = unread \ {id}
      /\ storedJobs' = [storedJobs EXCEPT ![id] = new]
      /\ restored' = [restored EXCEPT ![id] = new]
      /\ UNCHANGED <<now, restoreAt, memory, history>>
  BY DEF RecoverRow
<1>2. old \in Job /\ old # NoJob /\ restoreAt \in Nat
  BY <1>1 DEF QueueInvariant, RestoreSound, TypeOK, Rows, Known
<1>3. /\ SoundLabels(old) /\ SoundCounts(old, attempts[id], revivals[id])
      /\ attempts[id] \in Nat /\ revivals[id] \in Nat
  BY <1>1 DEF QueueInvariant, RestoreSound, RowsSound, TypeOK, Known
<1>4. old.status # "failed"
  BY <1>3 DEF SoundLabels
<1>5. /\ new \in Job /\ new.status # "running"
      /\ old.status = "dead" => new = old
      /\ SoundLabels(new) /\ SoundCounts(new, attempts[id], revivals[id])
  BY <1>2, <1>3, <1>4, RecoveredRow
<1>6. new # NoJob /\ new \in Job \cup {NoJob}
  BY <1>5, SentinelAssumption DEF SentinelAssumption
<1>7. /\ alerts' = IF new.status = "dead" /\ old.status # "dead" THEN alerts \cup {id} ELSE alerts
      /\ restoredDead' = IF new.status = "dead"
                         THEN [restoredDead EXCEPT ![id] = @ + 1] ELSE restoredDead
  BY DEF RecoverRow
<1> HIDE DEF new, old
<1>8. \A k \in JobIDs : storedJobs'[k] = IF k = id THEN new ELSE storedJobs[k]
  BY <1>1 DEF QueueInvariant, TypeOK, Rows
<1>9. TypeOK'
  <2>1. storedJobs' \in Rows /\ restored' \in Rows
    BY <1>1, <1>6 DEF QueueInvariant, TypeOK, Rows
  <2>2. alerts' \in SUBSET JobIDs /\ unread' \in SUBSET JobIDs
    BY <1>1, <1>7 DEF QueueInvariant, TypeOK
  <2>3. restoredDead' \in [JobIDs -> Nat]
    BY <1>7 DEF QueueInvariant, TypeOK
  <2> QED
    BY <1>1, <2>1, <2>2, <2>3 DEF QueueInvariant, TypeOK, memory, history
<1>10. RowsSound'
  BY <1>1, <1>5, <1>8 DEF QueueInvariant, RowsSound, Known, history
<1>11. HistoryStartsEmpty'
  BY <1>1, <1>6, <1>8 DEF QueueInvariant, HistoryStartsEmpty, history
<1>12. (alerts = InStatus(storedJobs, {"dead"}))'
  <2>1. alerts = {k \in JobIDs : storedJobs[k] # NoJob /\ storedJobs[k].status = "dead"}
    BY DEF QueueInvariant, InStatus, Known
  <2>2. alerts' = {k \in JobIDs : storedJobs'[k] # NoJob /\ storedJobs'[k].status = "dead"}
    <3>1. CASE old.status = "dead"
      BY <1>5, <1>7, <1>8, <2>1, <3>1 DEF old
    <3>2. CASE old.status # "dead" /\ new.status = "dead"
      BY <1>6, <1>7, <1>8, <2>1, <3>2 DEF old
    <3>3. CASE old.status # "dead" /\ new.status # "dead"
      BY <1>7, <1>8, <2>1, <3>3 DEF old
    <3> QED
      BY <3>1, <3>2, <3>3
  <2> QED
    BY <2>2 DEF InStatus, Known
<1>13. RestoreSound'
  <2>1. unread' \subseteq Known(storedJobs)'
    BY <1>1, <1>6, <1>8 DEF QueueInvariant, RestoreSound, Known
  <2>2. ASSUME NEW k \in JobIDs \ unread'
        PROVE  /\ restored'[k] = storedJobs'[k]
               /\ restoredDead'[k] = DeadEntry(storedJobs'[k])
               /\ restored'[k] # NoJob => restored'[k].status # "running"
    <3>1. CASE k = id
      <4>1. restored'[id] = new /\ storedJobs'[id] = new
        BY <1>1, <1>8 DEF QueueInvariant, TypeOK, Rows
      <4>2. restoredDead[id] = 0
        BY <1>1 DEF QueueInvariant, RestoreSound
      <4>3. restoredDead'[id] = IF new.status = "dead" THEN 1 ELSE 0
        BY <1>7, <4>2 DEF QueueInvariant, TypeOK
      <4> QED
        BY <1>5, <1>6, <3>1, <4>1, <4>3 DEF DeadEntry
    <3>2. CASE k # id
      <4>1. /\ k \in JobIDs \ unread
            /\ storedJobs'[k] = storedJobs[k] /\ restored'[k] = restored[k]
            /\ restoredDead'[k] = restoredDead[k]
        BY <1>1, <1>7, <3>2 DEF QueueInvariant, TypeOK, Rows
      <4> QED
        BY <1>1, <4>1 DEF QueueInvariant, RestoreSound
    <3> QED
      BY <3>1, <3>2
  <2>3. \A k \in unread' : restoredDead'[k] = 0
    BY <1>1, <1>7 DEF QueueInvariant, TypeOK, RestoreSound
  <2> QED
    BY <2>1, <2>2, <2>3 DEF RestoreSound
<1>14. ServingSound' /\ CallsSound'
  BY <1>1 DEF QueueInvariant, ServingSound, CallsSound, memory
<1> QED
  BY <1>9, <1>10, <1>11, <1>12, <1>13, <1>14 DEF QueueInvariant

-----------------------------------------------------------------------------
(* The invariant *)

\* The empty queue is sound.
LEMMA InitInvariant == Init => QueueInvariant
<1> SUFFICES ASSUME Init PROVE QueueInvariant
  OBVIOUS
<1>1. TypeOK
  BY DEF Init, TypeOK, Rows, NoRows, NoEntries
<1> QED
  BY <1>1 DEF Init, QueueInvariant, RowsSound, HistoryStartsEmpty, RestoreSound, ServingSound,
              CallsSound, InStatus, Known, NoRows, NoEntries

\* One case per action.
LEMMA NextInvariant == QueueInvariant /\ [Next]_vars => QueueInvariant'
<1> SUFFICES ASSUME QueueInvariant, [Next]_vars PROVE QueueInvariant'
  OBVIOUS
<1>1. ASSUME NEW id \in JobIDs, NEW m \in RetryBudgets, Enqueue(id, m) PROVE QueueInvariant'
  BY <1>1, EnqueueStep
<1>2. ASSUME NEW id \in JobIDs,
             \/ Heartbeat(id) \/ MarkRunning(id) \/ Retry(id) \/ Complete(id) \/ Timeout(id)
             \/ RetryDeadLetter(id) \/ Pause(id) \/ Resume(id) \/ Cancel(id)
      PROVE  QueueInvariant'
  BY <1>2, HeartbeatStep, MarkRunningStep, CompleteStep, TimeoutStep, RetryDeadLetterStep,
     PauseStep, ResumeStep, CancelStep DEF Retry
<1>3. ASSUME NEW c \in Callers, NEW id \in JobIDs, BeginFail(c, id) \/ BeginDispatchFailure(c, id)
      PROVE  QueueInvariant'
  BY <1>3, BeginFailStep
<1>4. ASSUME NEW c \in Callers, NEW reason \in Errors, EndFail(c, reason) PROVE QueueInvariant'
  BY <1>4, EndFailStep
<1>5. ASSUME NEW c \in Callers, RefuseFail(c) PROVE QueueInvariant'
  BY <1>5, RefuseFailStep
<1>6. ASSUME NEW id \in JobIDs, NEW reason \in Errors, RecoverRow(id, reason) PROVE QueueInvariant'
  BY <1>6, RecoverRowStep
<1>7. CASE BeginRestore \/ EndRestore \/ Crash \/ Tick
  BY <1>7, BeginRestoreStep, EndRestoreStep, CrashStep, TickStep
<1>8. CASE UNCHANGED vars
  <2>1. TypeOK'
    BY <1>8 DEF QueueInvariant, TypeOK, Rows, vars, memory, restore, store, history
  <2> QED
    BY <1>8, <2>1 DEF QueueInvariant, RowsSound, HistoryStartsEmpty, RestoreSound, ServingSound,
                      CallsSound, InStatus, Known, vars, memory, restore, store, history
<1> QED
  BY <1>1, <1>2, <1>3, <1>4, <1>5, <1>6, <1>7, <1>8 DEF Next

\* QueueInvariant holds of every run of the queue.
THEOREM InvariantHolds == Spec => []QueueInvariant
  BY InitInvariant, NextInvariant, PTL DEF Spec

-----------------------------------------------------------------------------
(* Safety *)

\* The variables always have their types.
THEOREM TypeCorrect == Spec => []TypeOK
  BY InvariantHolds, PTL DEF QueueInvariant

\* While it serves, the process's jobs are the jobs table.
THEOREM MemoryAgrees == Spec => []MemoryMatchesStore
<1>1. QueueInvariant => MemoryMatchesStore
  BY DEF QueueInvariant, ServingSound, MemoryMatchesStore
<1> QED
  BY <1>1, InvariantHolds, PTL

\* Status, flag, alert and dead-letter list agree on which jobs are dead.
THEOREM DeadLetterAgreement == Spec => []DeadLettersAgree
<1>1. QueueInvariant => DeadLettersAgree
  <2> SUFFICES ASSUME QueueInvariant PROVE DeadLettersAgree
    OBVIOUS
  <2> DEFINE buried == InStatus(storedJobs, {"dead"})
  <2>1. buried = {id \in Known(storedJobs) : storedJobs[id].deadLetter}
    <3>1. ASSUME NEW id \in Known(storedJobs)
          PROVE  storedJobs[id].status = "dead" <=> storedJobs[id].deadLetter
      <4>1. storedJobs[id] \in Job
        BY <3>1 DEF QueueInvariant, TypeOK, Rows, Known
      <4>2. storedJobs[id].deadLetter <=> storedJobs[id].status = "dead"
        BY <3>1 DEF QueueInvariant, RowsSound, SoundLabels
      <4> QED
        BY <4>1, <4>2
    <3> QED
      BY <3>1 DEF InStatus
  <2>2. ASSUME phase = "up", NEW id \in JobIDs
        PROVE  dead[id] = IF id \in buried THEN 1 ELSE 0
    BY <2>2 DEF QueueInvariant, ServingSound, DeadEntry, InStatus, Known
  <2> QED
    BY <2>1, <2>2 DEF QueueInvariant, DeadLettersAgree
<1> QED
  BY <1>1, InvariantHolds, PTL

\* However often the process crashes, a job is run at most once per retry it is
\* charged, once more, and once per revival, and is never charged without a run.
THEOREM BudgetBoundsAttempts == Spec => []AttemptsWithinBudget
<1>1. ASSUME QueueInvariant PROVE AttemptsWithinBudget
  <2> SUFFICES ASSUME NEW id \in Known(storedJobs)
               PROVE  /\ storedJobs[id].retryCount =< storedJobs[id].maxRetries
                      /\ storedJobs[id].retryCount =< attempts[id]
                      /\ attempts[id] =< storedJobs[id].retryCount + 1 + revivals[id]
    BY DEF AttemptsWithinBudget
  <2> DEFINE job == storedJobs[id]
  <2>1. job \in Job /\ attempts[id] \in Nat /\ revivals[id] \in Nat
    BY <1>1 DEF QueueInvariant, TypeOK, Rows, Known
  <2>2. SoundCounts(job, attempts[id], revivals[id])
    BY <1>1 DEF QueueInvariant, RowsSound
  <2> HIDE DEF job
  <2>3. job.retryCount \in Nat
    BY <2>1, JobFields
  <2>4. UnderWay(job) \in {0, 1} /\ Unpaid(job) \in {0, 1}
    BY DEF UnderWay, Unpaid
  <2>5. /\ job.retryCount =< job.maxRetries
        /\ job.retryCount =< attempts[id]
        /\ attempts[id] =< job.retryCount + 1 + revivals[id]
    BY <2>1, <2>2, <2>3, <2>4 DEF SoundCounts
  <2> QED
    BY <2>5 DEF job
<1> QED
  BY <1>1, InvariantHolds, PTL

\* The reason code agrees with the outcome in spite of the race in Fail.
THEOREM ReasonsAreHonest == Spec => []ReasonMatchesOutcome
<1>1. QueueInvariant => ReasonMatchesOutcome
  BY DEF QueueInvariant, RowsSound, SoundLabels, ReasonMatchesOutcome, RetryReasons, DeadReasons
<1> QED
  BY <1>1, InvariantHolds, PTL

\* Owner and lease belong to running jobs and to no others.
THEOREM OwnershipFollowsStatus == Spec => []OwnedIffRunning
<1>1. QueueInvariant => OwnedIffRunning
  BY DEF QueueInvariant, RowsSound, SoundLabels, OwnedIffRunning
<1> QED
  BY <1>1, InvariantHolds, PTL

\* NextRunAt tells a retry from a fresh job, through pauses too.
THEOREM RetriesAreScheduled == Spec => []RetryIsScheduled
<1>1. QueueInvariant => RetryIsScheduled
  BY DEF QueueInvariant, RowsSound, SoundLabels, RetryIsScheduled, RetryReasons
<1> QED
  BY <1>1, InvariantHolds, PTL

\* When the process starts to serve, no job is running.
THEOREM RestoreLeavesNothingRunning == Spec => NothingRunsAfterRestore
<1>1. QueueInvariant /\ [Next]_vars =>
        [phase = "restoring" /\ phase' = "up" => InStatus(jobs', {"running"}) = {}]_vars
  <2> SUFFICES ASSUME QueueInvariant, Next, phase = "restoring", phase' = "up"
               PROVE  InStatus(jobs', {"running"}) = {}
    OBVIOUS
  <2>1. EndRestore
    BY DEF Next, Enqueue, Heartbeat, MarkRunning, Retry, Complete, Timeout, failWithReasonCode,
           RetryDeadLetter, Pause, Resume, Cancel, Serving, BeginFail, BeginDispatchFailure,
           EndFail, RefuseFail, BeginRestore, RecoverRow, Crash, Tick
  <2>2. \A id \in JobIDs : restored[id] # NoJob => restored[id].status # "running"
    BY <2>1 DEF EndRestore, QueueInvariant, RestoreSound
  <2> QED
    BY <2>1, <2>2 DEF EndRestore, InStatus, Known
<1> QED
  BY <1>1, InvariantHolds, PTL DEF Spec, NothingRunsAfterRestore

-----------------------------------------------------------------------------
(* What a step may never do to a row.  A step writes at most one row, so each *)
(* action owes a fact about the one row it computes.                         *)

\* The time a waiting job is due is carried into another waiting row.
KeepsTime(old, new) ==
    /\ old.status \in {"retrying", "paused"} /\ old.nextRunAt # NoTime
    /\ new.status \in {"retrying", "paused"}
    => new.nextRunAt = old.nextRunAt

\* A row may change only if it is not settled, and if buried only by a revival.
MayBecome(old, new, id) ==
    /\ old.status \notin {"done", "cancelled"}
    /\ old.status = "dead" => revivals'[id] = revivals[id] + 1
    /\ KeepsTime(old, new)

RowsLawful ==
    \A id \in Known(storedJobs) :
        \/ storedJobs'[id] = storedJobs[id]
        \/ MayBecome(storedJobs[id], storedJobs'[id], id)

\* It is enough to look at the row that is written.
LEMMA LawfulWrite ==
    ASSUME QueueInvariant, NEW id \in JobIDs, NEW new,
           storedJobs' = [storedJobs EXCEPT ![id] = new],
           storedJobs[id] # NoJob => MayBecome(storedJobs[id], new, id)
    PROVE  RowsLawful
<1> SUFFICES ASSUME NEW k \in Known(storedJobs), storedJobs'[k] # storedJobs[k]
             PROVE  MayBecome(storedJobs[k], storedJobs'[k], k)
  BY DEF RowsLawful
<1>1. k \in JobIDs /\ storedJobs[k] # NoJob
  BY DEF Known
<1>2. storedJobs \in [JobIDs -> Job \cup {NoJob}]
  BY DEF QueueInvariant, TypeOK, Rows
<1>3. k = id /\ storedJobs'[k] = new
  BY <1>1, <1>2
<1> QED
  BY <1>1, <1>3

\* A step that writes no row is lawful.
LEMMA LawfulSilence ==
    ASSUME UNCHANGED storedJobs PROVE RowsLawful
  BY DEF RowsLawful

\* A serving process computes the row it writes from the one in memory.
LEMMA LawfulPersist ==
    ASSUME QueueInvariant, NEW id \in JobIDs, NEW new, phase = "up",
           storedJobs' = [storedJobs EXCEPT ![id] = new],
           jobs[id] # NoJob => MayBecome(jobs[id], new, id)
    PROVE  RowsLawful
<1>1. jobs = storedJobs
  BY DEF QueueInvariant, ServingSound
<1> QED
  BY <1>1, LawfulWrite

\* Leaving the waiting statuses, or coming from another one, breaks no schedule.
LEMMA OtherStatusKeepsTime ==
    ASSUME NEW old, NEW new,
           \/ old.status \notin {"retrying", "paused"}
           \/ new.status \notin {"retrying", "paused"}
    PROVE  KeepsTime(old, new)
  BY DEF KeepsTime

\* Claims, heartbeats, completions and cancellations write rows that wait for
\* nothing, over rows that are not settled.
LEMMA LawfulRuns ==
    ASSUME QueueInvariant, NEW id \in JobIDs,
           \/ Heartbeat(id) \/ MarkRunning(id) \/ Complete(id) \/ Cancel(id)
    PROVE  RowsLawful
<1>1. CASE Heartbeat(id)
  <2>1. Serving(id) /\ jobs[id].status = "running" /\ persistJob(id, renewLease(jobs[id], now))
    BY <1>1 DEF Heartbeat
  <2>2. MayBecome(jobs[id], renewLease(jobs[id], now), id)
    BY <2>1 DEF MayBecome, KeepsTime
  <2> QED
    BY <2>1, <2>2, LawfulPersist DEF Serving, persistJob
<1>2. CASE MarkRunning(id)
  <2> DEFINE new == Run(jobs[id], now)
  <2>1. Serving(id) /\ CanTransitionTo(jobs[id], "running") /\ persistJob(id, new)
    BY <1>2 DEF MarkRunning, Run
  <2>2. jobs[id] \in Job /\ now \in Nat
    BY <2>1, ServedJob
  <2>3. new.status = "running"
    BY <2>1, <2>2, RunningRow
  <2>4. jobs[id].status \in {"pending", "retrying"}
    BY <2>1 DEF CanTransitionTo
  <2> HIDE DEF new
  <2>5. MayBecome(jobs[id], new, id)
    BY <2>3, <2>4 DEF MayBecome, KeepsTime
  <2> QED
    BY <2>1, <2>5, LawfulPersist DEF Serving, persistJob
<1>3. CASE Complete(id)
  <2> DEFINE new == Put(jobs[id], "done", now)
  <2>1. Serving(id) /\ jobs[id].status = "running" /\ persistJob(id, new)
    BY <1>3 DEF Complete, CanTransitionTo, Put
  <2> HIDE DEF new
  <2>2. MayBecome(jobs[id], new, id)
    BY <2>1 DEF MayBecome, KeepsTime
  <2> QED
    BY <2>1, <2>2, LawfulPersist DEF Serving, persistJob
<1>4. CASE Cancel(id)
  <2> DEFINE new == Put(jobs[id], "cancelled", now)
  <2>1. /\ Serving(id) /\ jobs[id].status \in {"pending", "retrying"}
        /\ persistJob(id, new)
    BY <1>4 DEF Cancel, Put
  <2>2. jobs[id] \in Job /\ now \in Nat
    BY <2>1, ServedJob
  <2>3. new.status = "cancelled"
    BY <2>1, <2>2, PutFields
  <2> HIDE DEF new
  <2>4. MayBecome(jobs[id], new, id)
    BY <2>1, <2>3 DEF MayBecome, KeepsTime
  <2> QED
    BY <2>1, <2>4, LawfulPersist DEF Serving, persistJob
<1> QED
  BY <1>1, <1>2, <1>3, <1>4

\* Pause and Resume carry a retry's time to and fro.
LEMMA LawfulPauses ==
    ASSUME QueueInvariant, NEW id \in JobIDs, Pause(id) \/ Resume(id)
    PROVE  RowsLawful
<1>1. CASE Pause(id)
  <2> DEFINE new == Put(jobs[id], "paused", now)
  <2>1. /\ Serving(id) /\ jobs[id].status \in {"pending", "retrying"}
        /\ persistJob(id, new)
    BY <1>1 DEF Pause, Put
  <2>2. jobs[id] \in Job
    BY <2>1, ServedJob
  <2>3. jobs[id].status = "retrying" => new.nextRunAt = jobs[id].nextRunAt
    BY <2>2 DEF Put, Job, Transition, CarriesRetry, NextRunAfter, clearJobOwnership
  <2> HIDE DEF new
  <2>4. MayBecome(jobs[id], new, id)
    BY <2>1, <2>3 DEF MayBecome, KeepsTime
  <2> QED
    BY <2>1, <2>4, LawfulPersist DEF Serving, persistJob
<1>2. CASE Resume(id)
  <2> DEFINE new == Resumed(jobs[id], now)
  <2>1. Serving(id) /\ jobs[id].status = "paused" /\ persistJob(id, new)
    BY <1>2 DEF Resume
  <2>2. jobs[id] \in Job
    BY <2>1, ServedJob
  <2>3. jobs[id].nextRunAt # NoTime => new.nextRunAt = jobs[id].nextRunAt
    BY <2>1, <2>2 DEF Resumed, Job, Transition, CarriesRetry, NextRunAfter, clearJobOwnership
  <2> HIDE DEF new
  <2>4. MayBecome(jobs[id], new, id)
    BY <2>1, <2>3 DEF MayBecome, KeepsTime
  <2> QED
    BY <2>1, <2>4, LawfulPersist DEF Serving, persistJob
<1> QED
  BY <1>1, <1>2

\* A revival is counted.
LEMMA LawfulRevival ==
    ASSUME QueueInvariant, NEW id \in JobIDs, RetryDeadLetter(id)
    PROVE  RowsLawful
<1> DEFINE new == reviveDeadLetterJob(jobs[id])
<1>1. /\ Serving(id) /\ jobs[id].status = "dead"
      /\ storedJobs' = [storedJobs EXCEPT ![id] = new]
      /\ revivals' = [revivals EXCEPT ![id] = @ + 1]
  BY DEF RetryDeadLetter, persistDeadLetterRetry
<1> HIDE DEF new
<1>2. revivals'[id] = revivals[id] + 1
  BY <1>1 DEF QueueInvariant, TypeOK
<1>3. MayBecome(jobs[id], new, id)
  BY <1>1, <1>2 DEF MayBecome, KeepsTime
<1> QED
  BY <1>1, <1>3, LawfulPersist DEF Serving

\* A failure reported for a paused retry carries its time, and no failure is
\* accepted for a settled or buried job.
LEMMA LawfulFailure ==
    ASSUME QueueInvariant, NEW id \in JobIDs, NEW reason, NEW code,
           failWithReasonCode(id, reason, code)
    PROVE  RowsLawful
<1> DEFINE job == jobs[id]
           new == FailedJob(job, now, reason, code)
<1>1. /\ Serving(id) /\ CanFail(job)
      /\ storedJobs' = [storedJobs EXCEPT ![id] = new]
  BY DEF failWithReasonCode, persistJob, persistDeadLetter
<1>2. job \in Job /\ SoundLabels(job)
  BY <1>1, ServedJob
<1>3. job.status \notin {"done", "cancelled", "failed", "dead"}
  BY <1>1, <1>2 DEF SoundLabels, CanFail, AfterFailure, CanTransitionTo
<1>4. KeepsTime(job, new)
  <2>1. CASE RetriesLeft(job)
    <3>1. job.status \in {"running", "paused"}
      BY <1>1, <1>3, <2>1 DEF CanFail, AfterFailure, CanTransitionTo
    <3>2. job.status = "paused" /\ job.nextRunAt # NoTime => new.nextRunAt = job.nextRunAt
      BY <1>2, <2>1 DEF FailedJob, Job, Transition, CarriesRetry, NextRunAfter,
                        applyFailureMetadata, clearJobOwnership
    <3> QED
      BY <3>1, <3>2 DEF KeepsTime
  <2>2. CASE ~RetriesLeft(job)
    <3>1. new.status = "dead"
      BY <1>2, <2>2 DEF FailedJob, Job, Transition, applyFailureMetadata, clearJobOwnership
    <3> QED
      BY <3>1 DEF KeepsTime
  <2> QED
    BY <2>1, <2>2
<1> HIDE DEF new
<1>5. MayBecome(jobs[id], new, id)
  BY <1>3, <1>4 DEF MayBecome
<1> QED
  BY <1>1, <1>5, LawfulPersist DEF Serving

\* Recovery changes only rows that were running.
LEMMA LawfulRecovery ==
    ASSUME QueueInvariant, NEW id \in JobIDs, NEW reason, RecoverRow(id, reason)
    PROVE  RowsLawful
<1> DEFINE old == storedJobs[id]
           new == recoverJob(old, restoreAt, reason)
<1>1. storedJobs' = [storedJobs EXCEPT ![id] = new]
  BY DEF RecoverRow
<1>2. CASE old.status = "running"
  <2> HIDE DEF new
  <2>1. MayBecome(old, new, id)
    BY <1>2 DEF MayBecome, KeepsTime
  <2> QED
    BY <1>1, <2>1, LawfulWrite
<1>3. CASE old.status # "running"
  <2>1. new = old
    BY <1>3 DEF recoverJob
  <2>2. UNCHANGED storedJobs
    BY <1>1, <2>1 DEF QueueInvariant, TypeOK, Rows
  <2> QED
    BY <2>2, LawfulSilence
<1> QED
  BY <1>2, <1>3

\* One case per action.
LEMMA NextLawful ==
    ASSUME QueueInvariant, [Next]_vars PROVE RowsLawful
<1>1. ASSUME NEW id \in JobIDs, NEW m \in RetryBudgets, Enqueue(id, m) PROVE RowsLawful
  <2>1. phase = "up" /\ jobs[id] = NoJob /\ persistJob(id, NewJob(m))
    BY <1>1 DEF Enqueue
  <2> QED
    BY <2>1, LawfulPersist DEF persistJob
<1>2. ASSUME NEW id \in JobIDs,
             \/ Heartbeat(id) \/ MarkRunning(id) \/ Retry(id) \/ Complete(id) \/ Timeout(id)
             \/ RetryDeadLetter(id) \/ Pause(id) \/ Resume(id) \/ Cancel(id)
      PROVE  RowsLawful
  <2>1. CASE Timeout(id)
    BY <2>1, LawfulFailure DEF Timeout
  <2> QED
    BY <1>2, <2>1, LawfulRuns, LawfulPauses, LawfulRevival DEF Retry
<1>3. ASSUME NEW c \in Callers, NEW id \in JobIDs, BeginFail(c, id) \/ BeginDispatchFailure(c, id)
      PROVE  RowsLawful
  BY <1>3, LawfulSilence DEF BeginFail, BeginDispatchFailure, store
<1>4. ASSUME NEW c \in Callers, NEW reason \in Errors, EndFail(c, reason) PROVE RowsLawful
  <2>1. failing[c].id \in JobIDs
    BY <1>4 DEF EndFail, QueueInvariant, TypeOK, Calls
  <2> QED
    BY <1>4, <2>1, LawfulFailure DEF EndFail
<1>5. ASSUME NEW c \in Callers, RefuseFail(c) PROVE RowsLawful
  BY <1>5, LawfulSilence DEF RefuseFail, store
<1>6. ASSUME NEW id \in JobIDs, NEW reason \in Errors, RecoverRow(id, reason) PROVE RowsLawful
  BY <1>6, LawfulRecovery
<1>7. CASE BeginRestore \/ EndRestore \/ Crash \/ Tick
  BY <1>7, LawfulSilence DEF BeginRestore, EndRestore, Crash, Tick, store
<1>8. CASE UNCHANGED vars
  BY <1>8, LawfulSilence DEF vars, store
<1> QED
  BY <1>1, <1>2, <1>3, <1>4, <1>5, <1>6, <1>7, <1>8 DEF Next

\* A done or cancelled job never changes again, and a dead one only by an
\* operator's revival, whatever late calls, crashes and recoveries do.
THEOREM SettledJobsStay == Spec => TerminalIsFinal
<1>1. QueueInvariant /\ [Next]_vars =>
        [\A id \in Known(storedJobs) :
           /\ storedJobs[id].status \in {"done", "cancelled"} =>
                 storedJobs'[id] = storedJobs[id]
           /\ storedJobs[id].status = "dead" /\ storedJobs'[id] # storedJobs[id] =>
                 revivals'[id] = revivals[id] + 1]_vars
  BY NextLawful DEF RowsLawful, MayBecome
<1> QED
  BY <1>1, InvariantHolds, PTL DEF Spec, TerminalIsFinal

\* The time of a scheduled retry survives every step after which the job still
\* waits for it.
THEOREM RetriesKeepTheirTime == Spec => RetryTimeKept
<1>1. QueueInvariant /\ [Next]_vars =>
        [\A id \in InStatus(storedJobs, {"retrying", "paused"}) :
           /\ storedJobs[id].nextRunAt # NoTime
           /\ storedJobs'[id].status \in {"retrying", "paused"}
           => storedJobs'[id].nextRunAt = storedJobs[id].nextRunAt]_vars
  BY NextLawful DEF RowsLawful, MayBecome, KeepsTime, InStatus
<1> QED
  BY <1>1, InvariantHolds, PTL DEF Spec, RetryTimeKept

-----------------------------------------------------------------------------
(* What ends a pause.  PauseHolds is too much to ask of the code; this is what *)
(* it does: nothing but the operator's Resume and a failure reported for the   *)
(* paused job, by Timeout or by a Fail that began earlier.                     *)

FailsPaused(id) ==
    \/ Timeout(id)
    \/ \E c \in Callers, reason \in Errors : failing[c].id = id /\ EndFail(c, reason)

PauseEndsAsTold ==
    [][\A id \in InStatus(storedJobs, {"paused"}) :
         storedJobs'[id].status # "paused"
           => /\ Resume(id) \/ FailsPaused(id)
              /\ storedJobs'[id].status \in {"pending", "retrying"}]_vars

\* A write is of one job.
LEMMA OtherRowsStay ==
    ASSUME TypeOK, NEW id \in JobIDs, NEW other \in JobIDs, NEW job,
           \/ persistJob(other, job) \/ persistDeadLetter(other, job)
           \/ persistDeadLetterRetry(other, job),
           other # id
    PROVE  storedJobs'[id] = storedJobs[id]
BY DEF TypeOK, Rows, persistJob, persistDeadLetter, persistDeadLetterRetry

\* What a failure makes of a paused job: a retry, if it is let through at all.
LEMMA FailureEndsPause ==
    ASSUME QueueInvariant, NEW id \in JobIDs, NEW reason, NEW reasonCode,
           storedJobs[id] # NoJob, storedJobs[id].status = "paused",
           failWithReasonCode(id, reason, reasonCode)
    PROVE  storedJobs'[id].status = "retrying"
<1> PICK job : job = jobs[id]
  OBVIOUS
<1>1. job = storedJobs[id] /\ job \in Job /\ storedJobs \in [JobIDs -> Job \cup {NoJob}]
  BY ServedJob DEF QueueInvariant, ServingSound, TypeOK, Rows, failWithReasonCode, Serving
<1>2. RetriesLeft(job) /\ job.status = "paused"
  BY <1>1 DEF failWithReasonCode, CanFail, AfterFailure, CanTransitionTo
<1>3. FailedJob(job, now, reason, reasonCode).status = "retrying"
  BY <1>1, <1>2 DEF FailedJob, applyFailureMetadata, clearJobOwnership, Transition, Job
<1>4. storedJobs' = [storedJobs EXCEPT ![id] = FailedJob(job, now, reason, reasonCode)]
  BY <1>1, <1>2 DEF failWithReasonCode, persistJob
<1> QED
  BY <1>1, <1>3, <1>4

LEMMA ResumeEndsPause ==
    ASSUME QueueInvariant, NEW id \in JobIDs, Resume(id)
    PROVE  storedJobs'[id].status \in {"pending", "retrying"}
<1> PICK job : job = jobs[id]
  OBVIOUS
<1>1. job \in Job /\ storedJobs \in [JobIDs -> Job \cup {NoJob}]
  BY ServedJob DEF QueueInvariant, TypeOK, Rows, Resume
<1>2. Resumed(job, now).status \in {"pending", "retrying"}
  BY <1>1 DEF Resumed, clearJobOwnership, Transition, Job
<1>3. storedJobs' = [storedJobs EXCEPT ![id] = Resumed(job, now)]
  BY DEF Resume, persistJob
<1> QED
  BY <1>1, <1>2, <1>3

\* The operations that would write another job than a paused one.
LEMMA OthersLeavePause ==
    ASSUME QueueInvariant, NEW id \in JobIDs, storedJobs[id] # NoJob,
           storedJobs[id].status = "paused", NEW other \in JobIDs,
           \/ \E m : Enqueue(other, m)
           \/ Heartbeat(other) \/ MarkRunning(other) \/ Complete(other)
           \/ RetryDeadLetter(other) \/ Pause(other) \/ Cancel(other)
    PROVE  storedJobs'[id] = storedJobs[id]
<1>1. phase = "up" /\ jobs = storedJobs /\ TypeOK
  BY DEF QueueInvariant, ServingSound, Enqueue, Heartbeat, MarkRunning, Complete, RetryDeadLetter,
    Pause, Cancel, Serving
<1>2. other # id
  BY <1>1 DEF Enqueue, Heartbeat, MarkRunning, Complete, RetryDeadLetter, Pause, Cancel,
    CanTransitionTo
<1>3. \E job : persistJob(other, job) \/ persistDeadLetterRetry(other, job)
  BY DEF Enqueue, Heartbeat, MarkRunning, Complete, RetryDeadLetter, Pause, Cancel
<1> QED
  BY <1>1, <1>2, <1>3, OtherRowsStay

\* A pause outlives crashes, recoveries, claims, completions and cancellations.
\* What ends it is the operator's Resume, or a failure that Timeout or an earlier
\* Fail reports for the paused job, and the job then waits to be run.
THEOREM PausesEndAsTold == Spec => PauseEndsAsTold
<1>1. ASSUME QueueInvariant, Next, NEW id \in InStatus(storedJobs, {"paused"}),
             storedJobs'[id].status # "paused"
      PROVE  /\ Resume(id) \/ FailsPaused(id)
             /\ storedJobs'[id].status \in {"pending", "retrying"}
  <2>1. id \in JobIDs /\ storedJobs[id] # NoJob /\ storedJobs[id].status = "paused"
    BY DEF InStatus, Known
  <2>2. storedJobs'[id] # storedJobs[id]
    BY <1>1, <2>1
  <2>3. CASE \E other \in JobIDs :
               \/ \E m : Enqueue(other, m)
               \/ Heartbeat(other) \/ MarkRunning(other) \/ Retry(other) \/ Complete(other)
               \/ RetryDeadLetter(other) \/ Pause(other) \/ Cancel(other)
    BY <1>1, <2>1, <2>2, <2>3, OthersLeavePause DEF Retry
  <2>4. ASSUME NEW other \in JobIDs, NEW reason, NEW reasonCode, other # id,
               failWithReasonCode(other, reason, reasonCode)
        PROVE  FALSE
    BY <1>1, <2>1, <2>2, <2>4, OtherRowsStay DEF QueueInvariant, failWithReasonCode
  <2>5. CASE \E other \in JobIDs : Resume(other)
    <3>1. PICK other \in JobIDs : Resume(other)
      BY <2>5
    <3>2. other = id
      BY <1>1, <2>1, <2>2, <3>1, OtherRowsStay DEF QueueInvariant, Resume
    <3> QED
      BY <1>1, <3>1, <3>2, ResumeEndsPause
  <2>6. CASE \E other \in JobIDs : Timeout(other)
    <3>1. PICK other \in JobIDs : Timeout(other)
      BY <2>6
    <3>2. other = id
      BY <2>4, <3>1 DEF Timeout
    <3> QED
      BY <1>1, <2>1, <3>1, <3>2, FailureEndsPause DEF Timeout, FailsPaused
  <2>7. CASE \E c \in Callers, reason \in Errors : EndFail(c, reason)
    <3>1. PICK c \in Callers, reason \in Errors : EndFail(c, reason)
      BY <2>7
    <3>2. failing[c].id \in JobIDs
      BY <1>1, <3>1 DEF EndFail, QueueInvariant, TypeOK, Calls
    <3>3. failing[c].id = id
      BY <2>4, <3>1, <3>2 DEF EndFail
    <3> QED
      BY <1>1, <2>1, <3>1, <3>3, FailureEndsPause DEF EndFail, FailsPaused
  <2>8. CASE \E other \in JobIDs, reason \in Errors : RecoverRow(other, reason)
    <3>1. PICK other \in JobIDs, reason \in Errors : RecoverRow(other, reason)
      BY <2>8
    <3>2. storedJobs' = [storedJobs EXCEPT ![other] = recoverJob(storedJobs[other], restoreAt, reason)]
      BY <3>1 DEF RecoverRow
    <3>3. storedJobs \in [JobIDs -> Job \cup {NoJob}]
      BY <1>1 DEF QueueInvariant, TypeOK, Rows
    <3>4. storedJobs'[id] = storedJobs[id]
      BY <2>1, <3>2, <3>3 DEF recoverJob
    <3> QED
      BY <2>2, <3>4
  <2>9. CASE UNCHANGED storedJobs
    BY <2>2, <2>9
  <2> QED
    BY <1>1, <2>3, <2>5, <2>6, <2>7, <2>8, <2>9 DEF Next, BeginFail, BeginDispatchFailure,
      RefuseFail, BeginRestore, EndRestore, Crash, Tick, store
<1>2. QueueInvariant /\ [Next]_vars =>
        [\A id \in InStatus(storedJobs, {"paused"}) :
           storedJobs'[id].status # "paused"
             => /\ Resume(id) \/ FailsPaused(id)
                /\ storedJobs'[id].status \in {"pending", "retrying"}]_vars
  BY <1>1
<1> QED
  BY <1>2, InvariantHolds, PTL DEF Spec, PauseEndsAsTold
=============================================================================
