-------------------------- MODULE JobLedgerProofs --------------------------
(***************************************************************************)
(* JobQueue implements JobLedger, for every set of jobs and callers and    *)
(* every retry budget.  Seen from the ledger a step moves at most one job  *)
(* (RowMoves); a row move is a step of the ledger; and each action of the  *)
(* queue is a row move or leaves the two tables alone.                     *)
(***************************************************************************)
EXTENDS JobQueueProofs

\* The ways a step may move one row, seen from the ledger.
RowMoves(id, new) ==
    LET old == storedJobs[id]
        from == PlaceOf(old)
        to == PlaceOf(new)
        sameCounts == UsedOf(new) = UsedOf(old) /\ BudgetOf(new) = BudgetOf(old)
    IN  /\ storedJobs' = [storedJobs EXCEPT ![id] = new]
        /\ \/ from = to /\ sameCounts /\ alerts' = alerts
           \/ /\ \/ from = "waiting" /\ to \in {"running", "held", "dropped"}
                 \/ from = "running" /\ to = "finished"
                 \/ from = "held" /\ to = "waiting"
              /\ sameCounts /\ alerts' = alerts
           \/ /\ from = "absent" /\ to = "waiting"
              /\ UsedOf(new) = UsedOf(old) /\ BudgetOf(new) \in RetryBudgets
              /\ alerts' = alerts
           \/ /\ from = "running" /\ to = "waiting"
              /\ UsedOf(old) < BudgetOf(old)
              /\ UsedOf(new) = UsedOf(old) + 1 /\ BudgetOf(new) = BudgetOf(old)
              /\ alerts' = alerts
           \/ /\ from \in {"running", "waiting"} /\ to = "buried"
              /\ UsedOf(old) = BudgetOf(old)
              /\ sameCounts /\ alerts' = alerts \cup {id}
           \/ /\ from = "buried" /\ to = "waiting"
              /\ sameCounts /\ alerts' = alerts \ {id}

\* Each of them is a step of the ledger.
LEMMA RowMovesAreLedgerSteps ==
    ASSUME QueueInvariant, NEW id \in JobIDs, NEW new, RowMoves(id, new)
    PROVE  [Ledger!LedgerNext]_(Ledger!ledger)
<1> DEFINE place == [k \in JobIDs |-> PlaceOf(storedJobs[k])]
           used == [k \in JobIDs |-> UsedOf(storedJobs[k])]
           budget == [k \in JobIDs |-> BudgetOf(storedJobs[k])]
           placeN == [k \in JobIDs |-> PlaceOf(storedJobs'[k])]
           usedN == [k \in JobIDs |-> UsedOf(storedJobs'[k])]
           budgetN == [k \in JobIDs |-> BudgetOf(storedJobs'[k])]
           from == PlaceOf(storedJobs[id])
           to == PlaceOf(new)
           used0 == UsedOf(storedJobs[id])
           used1 == UsedOf(new)
           budget0 == BudgetOf(storedJobs[id])
           budget1 == BudgetOf(new)
<1>1. \A k \in JobIDs : storedJobs'[k] = IF k = id THEN new ELSE storedJobs[k]
  BY DEF RowMoves, QueueInvariant, TypeOK, Rows
<1>2. /\ placeN = [place EXCEPT ![id] = to]
      /\ usedN = [used EXCEPT ![id] = used1]
      /\ budgetN = [budget EXCEPT ![id] = budget1]
  BY <1>1
<1>3. /\ place[id] = from /\ used[id] = used0 /\ budget[id] = budget0
      /\ place = [place EXCEPT ![id] = from]
      /\ used = [used EXCEPT ![id] = used0]
      /\ budget = [budget EXCEPT ![id] = budget0]
  OBVIOUS
<1>4. \/ from = to /\ used1 = used0 /\ budget1 = budget0 /\ alerts' = alerts
      \/ /\ \/ from = "waiting" /\ to \in {"running", "held", "dropped"}
            \/ from = "running" /\ to = "finished"
            \/ from = "held" /\ to = "waiting"
         /\ used1 = used0 /\ budget1 = budget0 /\ alerts' = alerts
      \/ /\ from = "absent" /\ to = "waiting"
         /\ used1 = used0 /\ budget1 \in RetryBudgets /\ alerts' = alerts
      \/ /\ from = "running" /\ to = "waiting" /\ used0 < budget0
         /\ used1 = used0 + 1 /\ budget1 = budget0 /\ alerts' = alerts
      \/ /\ from \in {"running", "waiting"} /\ to = "buried" /\ used0 = budget0
         /\ used1 = used0 /\ budget1 = budget0 /\ alerts' = alerts \cup {id}
      \/ /\ from = "buried" /\ to = "waiting"
         /\ used1 = used0 /\ budget1 = budget0 /\ alerts' = alerts \ {id}
  BY DEF RowMoves
<1> HIDE DEF place, used, budget, placeN, usedN, budgetN, from, to, used0, used1, budget0, budget1
<1>5. CASE from = to /\ used1 = used0 /\ budget1 = budget0 /\ alerts' = alerts
  <2>1. <<placeN, usedN, budgetN, alerts'>> = <<place, used, budget, alerts>>
    BY <1>2, <1>3, <1>5
  <2> QED
    BY <2>1 DEF Ledger!ledger, place, used, budget, placeN, usedN, budgetN
<1>6. CASE /\ \/ from = "waiting" /\ to \in {"running", "held", "dropped"}
              \/ from = "running" /\ to = "finished"
              \/ from = "held" /\ to = "waiting"
           /\ used1 = used0 /\ budget1 = budget0 /\ alerts' = alerts
  <2>1. <<usedN, budgetN, alerts'>> = <<used, budget, alerts>>
    BY <1>2, <1>3, <1>6
  <2>2. /\ from = "waiting" /\ to = "running" => Ledger!Start(id)
        /\ from = "waiting" /\ to = "held" => Ledger!Hold(id)
        /\ from = "held" /\ to = "waiting" => Ledger!Release(id)
        /\ from = "running" /\ to = "finished" => Ledger!Finish(id)
        /\ from = "waiting" /\ to = "dropped" => Ledger!Drop(id)
    BY <1>2, <1>3, <2>1 DEF Ledger!Start, Ledger!Hold, Ledger!Release, Ledger!Finish,
       Ledger!Drop, Ledger!Move, place, used, budget, placeN, usedN, budgetN
  <2> QED
    BY <1>6, <2>2 DEF Ledger!LedgerNext
<1>7. CASE /\ from = "absent" /\ to = "waiting"
           /\ used1 = used0 /\ budget1 \in RetryBudgets /\ alerts' = alerts
  <2>1. usedN = used
    BY <1>2, <1>3, <1>7
  <2>2. Ledger!Accept(id, budget1)
    BY <1>2, <1>3, <1>7, <2>1 DEF Ledger!Accept, Ledger!Move, place, used, budget, placeN, usedN, budgetN
  <2> QED
    BY <1>7, <2>2 DEF Ledger!LedgerNext
<1>8. CASE /\ from = "running" /\ to = "waiting" /\ used0 < budget0
           /\ used1 = used0 + 1 /\ budget1 = budget0 /\ alerts' = alerts
  <2>1. budgetN = budget
    BY <1>2, <1>3, <1>8
  <2>2. usedN = [used EXCEPT ![id] = used[id] + 1]
    BY <1>2, <1>3, <1>8
  <2>3. Ledger!Requeue(id)
    BY <1>2, <1>3, <1>8, <2>1, <2>2
       DEF Ledger!Requeue, Ledger!Move, place, used, budget, placeN, usedN, budgetN
  <2> QED
    BY <2>3 DEF Ledger!LedgerNext
<1>9. CASE /\ from \in {"running", "waiting"} /\ to = "buried" /\ used0 = budget0
           /\ used1 = used0 /\ budget1 = budget0 /\ alerts' = alerts \cup {id}
  <2>1. <<usedN, budgetN>> = <<used, budget>>
    BY <1>2, <1>3, <1>9
  <2>2. Ledger!Bury(id)
    BY <1>2, <1>3, <1>9, <2>1 DEF Ledger!Bury, Ledger!Move, place, used, budget, placeN, usedN, budgetN
  <2> QED
    BY <2>2 DEF Ledger!LedgerNext
<1>10. CASE /\ from = "buried" /\ to = "waiting"
            /\ used1 = used0 /\ budget1 = budget0 /\ alerts' = alerts \ {id}
  <2>1. <<usedN, budgetN>> = <<used, budget>>
    BY <1>2, <1>3, <1>10
  <2>2. Ledger!Exhume(id)
    BY <1>2, <1>3, <1>10, <2>1 DEF Ledger!Exhume, Ledger!Move, place, used, budget, placeN, usedN, budgetN
  <2> QED
    BY <2>2 DEF Ledger!LedgerNext
<1> QED
  BY <1>4, <1>5, <1>6, <1>7, <1>8, <1>9, <1>10

-----------------------------------------------------------------------------
(* Actions as row moves *)

\* The place of a row that is there.
LEMMA Places ==
    ASSUME NEW job \in Job
    PROVE  /\ UsedOf(job) = job.retryCount /\ BudgetOf(job) = job.maxRetries
           /\ job.status \in {"pending", "retrying"} => PlaceOf(job) = "waiting"
           /\ job.status = "running" => PlaceOf(job) = "running"
           /\ job.status = "paused" => PlaceOf(job) = "held"
           /\ job.status = "done" => PlaceOf(job) = "finished"
           /\ job.status = "cancelled" => PlaceOf(job) = "dropped"
           /\ job.status = "dead" => PlaceOf(job) = "buried"
  BY SentinelAssumption DEF SentinelAssumption, PlaceOf, UsedOf, BudgetOf

\* What the operations of a serving queue find in the tables.
LEMMA ServedRow ==
    ASSUME QueueInvariant, NEW id \in JobIDs, Serving(id)
    PROVE  jobs[id] \in Job /\ storedJobs[id] = jobs[id] /\ now \in Nat
  BY ServedJob DEF QueueInvariant, ServingSound, Serving

\* A write that charges nothing and rings no alarm is a row move if the places
\* are next to each other.
LEMMA QuietMove ==
    ASSUME QueueInvariant, NEW id \in JobIDs, Serving(id), NEW new \in Job,
           persistJob(id, new),
           new.retryCount = jobs[id].retryCount, new.maxRetries = jobs[id].maxRetries,
           LET from == PlaceOf(jobs[id])
               to == PlaceOf(new)
           IN  \/ from = to
               \/ from = "waiting" /\ to \in {"running", "held", "dropped"}
               \/ from = "running" /\ to = "finished"
               \/ from = "held" /\ to = "waiting"
    PROVE  RowMoves(id, new)
<1>1. storedJobs[id] = jobs[id] /\ jobs[id] \in Job
  BY ServedRow
<1>2. UsedOf(new) = UsedOf(storedJobs[id]) /\ BudgetOf(new) = BudgetOf(storedJobs[id])
  BY <1>1, Places
<1> QED
  BY <1>1, <1>2 DEF RowMoves, persistJob

\* Enqueue is Accept.
LEMMA EnqueueMoves ==
    ASSUME QueueInvariant, NEW id \in JobIDs, NEW m \in RetryBudgets, Enqueue(id, m)
    PROVE  RowMoves(id, NewJob(m))
<1>1. NewJob(m) \in Job
  BY NewRow, BoundAssumption DEF BoundAssumption
<1>2. PlaceOf(NewJob(m)) = "waiting" /\ UsedOf(NewJob(m)) = 0 /\ BudgetOf(NewJob(m)) = m
  BY <1>1, Places DEF NewJob
<1>3. PlaceOf(storedJobs[id]) = "absent" /\ UsedOf(storedJobs[id]) = 0
  BY DEF Enqueue, QueueInvariant, ServingSound, PlaceOf, UsedOf
<1> QED
  BY <1>2, <1>3 DEF Enqueue, persistJob, RowMoves

\* The operations that move a job without charging it.
LEMMA OperationMoves ==
    ASSUME QueueInvariant, NEW id \in JobIDs,
           \/ Heartbeat(id) \/ MarkRunning(id) \/ Complete(id)
           \/ Pause(id) \/ Resume(id) \/ Cancel(id)
    PROVE  \E new : RowMoves(id, new)
<1> DEFINE job == jobs[id]
<1>1. Serving(id)
  BY DEF Heartbeat, MarkRunning, Complete, Pause, Resume, Cancel
<1>2. job \in Job /\ now \in Nat
  BY <1>1, ServedRow
<1>3. CASE Heartbeat(id)
  <2> DEFINE new == renewLease(job, now)
  <2>1. /\ new \in Job /\ new.status = "running" /\ job.status = "running"
        /\ new.retryCount = job.retryCount /\ new.maxRetries = job.maxRetries
        /\ persistJob(id, new)
    BY <1>2, <1>3, RenewedRow DEF Heartbeat
  <2> HIDE DEF new
  <2>2. PlaceOf(job) = "running" /\ PlaceOf(new) = "running"
    BY <1>2, <2>1, Places
  <2> QED
    BY <1>1, <2>1, <2>2, QuietMove
<1>4. CASE MarkRunning(id)
  <2> DEFINE new == Run(job, now)
  <2>1. CanTransitionTo(job, "running") /\ persistJob(id, new)
    BY <1>4 DEF MarkRunning, Run
  <2>2. /\ new \in Job /\ new.status = "running"
        /\ new.retryCount = job.retryCount /\ new.maxRetries = job.maxRetries
    BY <1>2, <2>1, RunningRow
  <2>3. job.status \in {"pending", "retrying"}
    BY <2>1 DEF CanTransitionTo
  <2> HIDE DEF new
  <2>4. PlaceOf(job) = "waiting" /\ PlaceOf(new) = "running"
    BY <1>2, <2>2, <2>3, Places
  <2> QED
    BY <1>1, <2>1, <2>2, <2>4, QuietMove
<1>5. ASSUME NEW status \in {"done", "cancelled", "paused"},
             persistJob(id, Put(job, status, now)),
             \/ status = "done" /\ job.status = "running"
             \/ status \in {"cancelled", "paused"} /\ job.status \in {"pending", "retrying"}
      PROVE  \E new : RowMoves(id, new)
  <2> DEFINE new == Put(job, status, now)
  <2>1. /\ new \in Job /\ new.status = status /\ persistJob(id, new)
        /\ new.retryCount = job.retryCount /\ new.maxRetries = job.maxRetries
    BY <1>2, <1>5, PutFields
  <2> HIDE DEF new
  <2>2. \/ PlaceOf(job) = "running" /\ PlaceOf(new) = "finished"
        \/ PlaceOf(job) = "waiting" /\ PlaceOf(new) \in {"held", "dropped"}
    BY <1>2, <1>5, <2>1, Places
  <2> QED
    BY <1>1, <2>1, <2>2, QuietMove
<1>6. CASE Complete(id)
  <2>1. job.status = "running"
    BY <1>6 DEF Complete, CanTransitionTo
  <2> QED
    BY <1>5, <1>6, <2>1 DEF Complete, Put
<1>7. CASE Pause(id) \/ Cancel(id)
  BY <1>5, <1>7 DEF Pause, Cancel, Put
<1>8. CASE Resume(id)
  <2> DEFINE new == Resumed(job, now)
  <2>1. job.status = "paused" /\ persistJob(id, new)
    BY <1>8 DEF Resume
  <2>2. /\ new \in Job /\ new.status \in {"pending", "retrying"}
        /\ new.retryCount = job.retryCount /\ new.maxRetries = job.maxRetries
    BY <1>2, <2>1, ResumedRow
  <2> HIDE DEF new
  <2>3. PlaceOf(job) = "held" /\ PlaceOf(new) = "waiting"
    BY <1>2, <2>1, <2>2, Places
  <2> QED
    BY <1>1, <2>1, <2>2, <2>3, QuietMove
<1> QED
  BY <1>3, <1>4, <1>6, <1>7, <1>8

\* RetryDeadLetter is Exhume.
LEMMA RetryDeadLetterMoves ==
    ASSUME QueueInvariant, NEW id \in JobIDs, RetryDeadLetter(id)
    PROVE  \E new : RowMoves(id, new)
<1> DEFINE job == jobs[id]
           new == reviveDeadLetterJob(job)
<1>1. Serving(id) /\ job.status = "dead" /\ persistDeadLetterRetry(id, new)
  BY DEF RetryDeadLetter
<1>2. job \in Job /\ storedJobs[id] = job
  BY <1>1, ServedRow
<1>3. /\ new \in Job /\ new.status = "pending"
      /\ new.retryCount = job.retryCount /\ new.maxRetries = job.maxRetries
  BY <1>1, <1>2, RevivedRow
<1> HIDE DEF new, job
<1>4. /\ PlaceOf(job) = "buried" /\ PlaceOf(new) = "waiting"
      /\ UsedOf(new) = UsedOf(job) /\ BudgetOf(new) = BudgetOf(job)
  BY <1>1, <1>2, <1>3, Places
<1>5. storedJobs' = [storedJobs EXCEPT ![id] = new] /\ alerts' = alerts \ {id}
  BY <1>1 DEF persistDeadLetterRetry
<1> QED
  BY <1>2, <1>4, <1>5 DEF RowMoves

\* A failed job is requeued and charged, released from a pause, or buried.
LEMMA FailureMove ==
    ASSUME NEW id \in JobIDs, NEW job \in Job, NEW new, NEW at \in Nat, NEW reason \in Errors,
           storedJobs[id] = job, storedJobs' = [storedJobs EXCEPT ![id] = new],
           SoundLabels(job), job.retryCount =< job.maxRetries, CanFail(job),
           RetriesLeft(job) =>
              /\ \E code \in RetryReasons :
                    new = applyFailureMetadata(Transition(job, "retrying", at, reason), code)
              /\ alerts' = alerts,
           ~RetriesLeft(job) =>
              /\ \E code \in DeadReasons :
                    new = applyFailureMetadata(Transition(job, "dead", at, reason), code)
              /\ alerts' = alerts \cup {id}
    PROVE  RowMoves(id, new)
<1>1. job.retryCount \in Nat /\ job.maxRetries \in Nat /\ job.status # "failed"
  BY JobFields DEF SoundLabels
<1>2. CASE RetriesLeft(job)
  <2>1. PICK code \in RetryReasons :
           new = applyFailureMetadata(Transition(job, "retrying", at, reason), code)
    BY <1>2
  <2>2. /\ new \in Job /\ new.status = "retrying" /\ new.maxRetries = job.maxRetries
        /\ job.status = "running" => new.retryCount = job.retryCount + 1
        /\ job.status # "running" => job.status = "paused" /\ new.retryCount = job.retryCount
    BY <1>1, <1>2, <2>1, RetryingRow
  <2>3. /\ PlaceOf(new) = "waiting" /\ BudgetOf(new) = BudgetOf(job)
        /\ UsedOf(new) = new.retryCount /\ UsedOf(job) = job.retryCount
    BY <2>2, Places
  <2>4. CASE job.status = "running"
    <3>1. PlaceOf(job) = "running" /\ UsedOf(new) = UsedOf(job) + 1 /\ UsedOf(job) < BudgetOf(job)
      BY <1>2, <2>2, <2>3, <2>4, Places DEF RetriesLeft
    <3> QED
      BY <1>2, <2>3, <3>1 DEF RowMoves
  <2>5. CASE job.status # "running"
    <3>1. PlaceOf(job) = "held" /\ UsedOf(new) = UsedOf(job)
      BY <2>2, <2>3, <2>5, Places
    <3> QED
      BY <1>2, <2>3, <3>1 DEF RowMoves
  <2> QED
    BY <2>4, <2>5
<1>3. CASE ~RetriesLeft(job)
  <2>1. PICK code \in DeadReasons :
           new = applyFailureMetadata(Transition(job, "dead", at, reason), code)
    BY <1>3
  <2>2. /\ new \in Job /\ new.status = "dead" /\ new.maxRetries = job.maxRetries
        /\ new.retryCount = job.retryCount
        /\ job.status \in {"pending", "running", "retrying"}
    BY <1>1, <1>3, <2>1, DeadRow
  <2>3. job.retryCount = job.maxRetries
    BY <1>1, <1>3 DEF RetriesLeft
  <2>4. /\ PlaceOf(new) = "buried" /\ PlaceOf(job) \in {"running", "waiting"}
        /\ UsedOf(new) = UsedOf(job) /\ BudgetOf(new) = BudgetOf(job)
        /\ UsedOf(job) = BudgetOf(job)
    BY <2>2, <2>3, Places
  <2> QED
    BY <1>3, <2>4 DEF RowMoves
<1> QED
  BY <1>2, <1>3

\* A failure under way moves its row.
LEMMA FailMoves ==
    ASSUME QueueInvariant, NEW id \in JobIDs, NEW reason \in Errors,
           NEW code \in RetryReasons \cup DeadReasons,
           code \in {"execution_dead", "dispatch_dead"} => ~RetriesLeft(jobs[id]),
           failWithReasonCode(id, reason, code)
    PROVE  \E new : RowMoves(id, new)
<1> DEFINE job == jobs[id]
           new == FailedJob(job, now, reason, code)
           at == IF RetriesLeft(job) THEN now + simpleBackoff(job.retryCount + 1) ELSE now
<1>1. /\ Serving(id) /\ CanFail(job)
      /\ RetriesLeft(job) => persistJob(id, new)
      /\ ~RetriesLeft(job) => persistDeadLetter(id, new)
  BY DEF failWithReasonCode
<1>2. /\ job \in Job /\ storedJobs[id] = job /\ now \in Nat
      /\ SoundLabels(job) /\ job.retryCount =< job.maxRetries
      /\ job.retryCount \in Nat
  BY <1>1, ServedJob, ServedRow DEF SoundCounts
<1>3. at \in Nat
  <2>1. simpleBackoff(job.retryCount + 1) \in Nat
    BY <1>2 DEF simpleBackoff
  <2> QED
    BY <1>2, <2>1
<1>4. RetriesLeft(job) => code \in RetryReasons
  BY DEF RetryReasons, DeadReasons
<1>5. deadReasonCode(code) \in DeadReasons
  BY DEF deadReasonCode, RetryReasons, DeadReasons, ReasonCodes
<1>6. /\ RetriesLeft(job) =>
            new = applyFailureMetadata(Transition(job, "retrying", at, reason), code)
      /\ ~RetriesLeft(job) =>
            new = applyFailureMetadata(Transition(job, "dead", at, reason), deadReasonCode(code))
  BY DEF FailedJob
<1> HIDE DEF new, job, at
<1>7. /\ storedJobs' = [storedJobs EXCEPT ![id] = new]
      /\ RetriesLeft(job) => alerts' = alerts
      /\ ~RetriesLeft(job) => alerts' = alerts \cup {id}
  BY <1>1 DEF persistJob, persistDeadLetter
<1> QED
  BY <1>1, <1>2, <1>3, <1>4, <1>5, <1>6, <1>7, FailureMove

\* Recovery of a row is a failure of the run lost, or nothing.
LEMMA RecoverRowMoves ==
    ASSUME QueueInvariant, NEW id \in JobIDs, NEW reason \in Errors, RecoverRow(id, reason)
    PROVE  \E new : RowMoves(id, new)
<1> DEFINE job == storedJobs[id]
           new == recoverJob(job, restoreAt, reason)
           code == IF leaseExpired(job, restoreAt) THEN "worker_abandoned" ELSE "runtime_restart"
<1>1. /\ phase = "restoring" /\ id \in unread
      /\ storedJobs' = [storedJobs EXCEPT ![id] = new]
      /\ alerts' = IF new.status = "dead" /\ job.status # "dead" THEN alerts \cup {id} ELSE alerts
  BY DEF RecoverRow
<1>2. job \in Job /\ job # NoJob /\ restoreAt \in Nat
  BY <1>1 DEF QueueInvariant, RestoreSound, TypeOK, Rows, Known
<1>3. SoundLabels(job) /\ job.retryCount =< job.maxRetries
  BY <1>1 DEF QueueInvariant, RestoreSound, RowsSound, SoundCounts, Known
<1>4. CASE job.status # "running"
  <2>1. new = job
    BY <1>4 DEF recoverJob
  <2>2. alerts' = alerts
    BY <1>1, <2>1
  <2> QED
    BY <1>1, <2>1, <2>2 DEF RowMoves
<1>5. CASE job.status = "running"
  <2>1. code \in RetryReasons /\ code \in DeadReasons
    BY DEF RetryReasons, DeadReasons, ReasonCodes
  <2>2. CanFail(job)
    BY <1>5 DEF CanFail, AfterFailure, CanTransitionTo
  <2>3. new = applyFailureMetadata(Transition(job, AfterFailure(job), restoreAt, reason), code)
    BY <1>5 DEF recoverJob
  <2> HIDE DEF job, code
  <2>4. new.status = AfterFailure(job)
    <3>1. job.status # "failed"
      BY <1>5
    <3> QED
      BY <1>2, <1>5, <3>1, RecoveredRow
  <2> HIDE DEF new
  <2>5. /\ RetriesLeft(job) =>
             /\ new = applyFailureMetadata(Transition(job, "retrying", restoreAt, reason), code)
             /\ alerts' = alerts
        /\ ~RetriesLeft(job) =>
             /\ new = applyFailureMetadata(Transition(job, "dead", restoreAt, reason), code)
             /\ alerts' = alerts \cup {id}
    BY <1>1, <1>5, <2>3, <2>4 DEF AfterFailure
  <2>6. storedJobs[id] = job
    BY DEF job
  <2>7. RowMoves(id, new)
    BY <1>1, <1>2, <1>3, <2>1, <2>2, <2>5, <2>6, FailureMove
  <2> QED
    BY <2>7
<1> QED
  BY <1>4, <1>5

-----------------------------------------------------------------------------
(* The refinement *)

\* The empty queue is the empty ledger.
LEMMA LedgerStarts == Init => Ledger!LedgerInit
  BY DEF Init, NoRows, Ledger!LedgerInit, PlaceOf, UsedOf, BudgetOf

\* A step that leaves the tables alone is no step of the ledger.
LEMMA StoreStutters ==
    ASSUME UNCHANGED store PROVE UNCHANGED Ledger!ledger
  BY DEF store, Ledger!ledger

\* Every step of the queue is a step of the ledger or none.
LEMMA LedgerSteps ==
    QueueInvariant /\ [Next]_vars => [Ledger!LedgerNext]_(Ledger!ledger)
<1> SUFFICES ASSUME QueueInvariant, [Next]_vars PROVE [Ledger!LedgerNext]_(Ledger!ledger)
  OBVIOUS
<1>1. ASSUME NEW id \in JobIDs, \E new : RowMoves(id, new)
      PROVE  [Ledger!LedgerNext]_(Ledger!ledger)
  BY <1>1, RowMovesAreLedgerSteps
<1>2. ASSUME NEW id \in JobIDs, NEW m \in RetryBudgets, Enqueue(id, m)
      PROVE  [Ledger!LedgerNext]_(Ledger!ledger)
  BY <1>1, <1>2, EnqueueMoves
<1>3. ASSUME NEW id \in JobIDs,
             \/ Heartbeat(id) \/ MarkRunning(id) \/ Retry(id) \/ Complete(id)
             \/ RetryDeadLetter(id) \/ Pause(id) \/ Resume(id) \/ Cancel(id)
      PROVE  [Ledger!LedgerNext]_(Ledger!ledger)
  BY <1>1, <1>3, OperationMoves, RetryDeadLetterMoves DEF Retry
<1>4. ASSUME NEW id \in JobIDs, Timeout(id)
      PROVE  [Ledger!LedgerNext]_(Ledger!ledger)
  <2>1. "timeout" \in RetryReasons \cup DeadReasons /\ "timeout" \in Errors
    BY TextAssumption DEF TextAssumption, RetryReasons, DeadReasons, ReasonCodes
  <2>2. failWithReasonCode(id, "timeout", "timeout")
    BY <1>4 DEF Timeout
  <2> QED
    BY <1>1, <2>1, <2>2, FailMoves
<1>5. ASSUME NEW c \in Callers, NEW reason \in Errors, EndFail(c, reason)
      PROVE  [Ledger!LedgerNext]_(Ledger!ledger)
  <2> DEFINE id == failing[c].id
             code == failing[c].reasonCode
  <2>1. failing[c] # NoCall /\ failWithReasonCode(id, reason, code)
    BY <1>5 DEF EndFail
  <2>2. id \in JobIDs
    BY <2>1 DEF QueueInvariant, TypeOK, Calls
  <2>3. /\ code \in {"execution_retry", "execution_dead", "dispatch_retry", "dispatch_dead"}
        /\ code \in {"execution_dead", "dispatch_dead"} => ~RetriesLeft(jobs[id])
    BY <2>1 DEF QueueInvariant, CallsSound
  <2>4. code \in RetryReasons \cup DeadReasons
    BY <2>3 DEF RetryReasons, DeadReasons, ReasonCodes
  <2> QED
    BY <1>1, <2>1, <2>2, <2>3, <2>4, FailMoves
<1>6. ASSUME NEW id \in JobIDs, NEW reason \in Errors, RecoverRow(id, reason)
      PROVE  [Ledger!LedgerNext]_(Ledger!ledger)
  BY <1>1, <1>6, RecoverRowMoves
<1>7. ASSUME NEW c \in Callers, NEW id \in JobIDs, BeginFail(c, id) \/ BeginDispatchFailure(c, id)
      PROVE  UNCHANGED store
  BY <1>7 DEF BeginFail, BeginDispatchFailure
<1>8. ASSUME NEW c \in Callers, RefuseFail(c) PROVE UNCHANGED store
  BY <1>8 DEF RefuseFail
<1>9. CASE BeginRestore \/ EndRestore \/ Crash \/ Tick \/ UNCHANGED vars
  <2>1. UNCHANGED store
    BY <1>9 DEF BeginRestore, EndRestore, Crash, Tick, vars
  <2> QED
    BY <2>1, StoreStutters
<1> QED
  BY <1>2, <1>3, <1>4, <1>5, <1>6, <1>7, <1>8, <1>9, StoreStutters DEF Next

\* The queue implements the ledger: crashes, recovery, racing failures and the
\* clock change the tables only as the ledger allows.
THEOREM LedgerImplemented == Spec => ImplementsLedger
  BY LedgerStarts, LedgerSteps, InvariantHolds, PTL DEF Spec, ImplementsLedger, Ledger!LedgerSpec
=============================================================================
