-------------------------- MODULE JobDispatchProofs --------------------------
(***************************************************************************)
(* Proofs about JobDispatch, for every set of jobs and callers and, but    *)
(* for the last theorem, whatever fails.                                   *)
(*                                                                         *)
(* A step of a request replaces one value of req and does                  *)
(* one operation of the queue or none; so JobDispatch implements JobQueue, *)
(* inherits its invariant, and what it adds is proved request by request.  *)
(***************************************************************************)
EXTENDS JobDispatch, JobLedgerProofs, FiniteSetTheorems

\* What DispatchTypeOK says of one request and its Fail call.
Coherent(r, call) ==
    /\ (call # NoCall) <=> (r.stage \in FailStages \cup {"charge"})
    /\ call # NoCall => call.id = r.id
    /\ r.stage \in DispatchStages \cup TimeoutStages => r.id # NoID
    /\ r.stage # "idle" => phase' = "up"

\* A step of a request, as far as the others can see.
RequestStep(c, r) ==
    /\ r \in Request
    /\ req' = [req EXCEPT ![c] = r]
    /\ phase' = phase
    /\ failing' = [failing EXCEPT ![c] = failing'[c]]
    /\ Coherent(r, failing'[c])

DispatchInvariant == QueueInvariant /\ DispatchTypeOK

-----------------------------------------------------------------------------
(* The operations of the queue leave the process and the Fail calls alone,   *)
(* but for the halves of Fail.                                               *)

QuietOperation(id) ==
    \/ \E m \in RetryBudgets : Enqueue(id, m)
    \/ Heartbeat(id) \/ MarkRunning(id) \/ Complete(id) \/ Timeout(id)
    \/ RetryDeadLetter(id) \/ Pause(id) \/ Resume(id) \/ Cancel(id)

\* They run only while the process serves.
LEMMA QuietOperations ==
    ASSUME NEW id \in JobIDs, QuietOperation(id)
    PROVE  phase = "up" /\ phase' = phase /\ failing' = failing
BY DEF QuietOperation, Enqueue, Heartbeat, MarkRunning, Complete, Timeout, failWithReasonCode,
       RetryDeadLetter, Pause, Resume, Cancel, Serving, Outside

\* A quiet operation is a step of the queue.
LEMMA QuietSteps ==
    ASSUME NEW id \in JobIDs, QuietOperation(id)
    PROVE  Next
BY DEF QuietOperation, Next

\* Fail calls begin and end for one caller.
LEMMA CallSteps ==
    ASSUME DispatchInvariant, NEW c \in Callers
    PROVE  /\ \A id \in JobIDs : BeginFail(c, id) \/ BeginDispatchFailure(c, id) =>
                 /\ phase = "up" /\ phase' = phase
                 /\ failing' = [failing EXCEPT ![c] = failing'[c]]
                 /\ failing'[c] # NoCall /\ failing'[c].id = id
           /\ \A reason \in Errors : EndFail(c, reason) \/ RefuseFail(c) =>
                 /\ phase = "up" /\ phase' = phase
                 /\ failing' = [failing EXCEPT ![c] = failing'[c]]
                 /\ failing'[c] = NoCall
<1>1. failing \in [Callers -> Calls \cup {NoCall}]
  BY DEF DispatchInvariant, QueueInvariant, TypeOK
<1>2. \A job : executionReasonCode(job) \in ReasonCodes /\ dispatchReasonCode(job) \in ReasonCodes
  BY DEF executionReasonCode, dispatchReasonCode, ReasonCodes
<1>3. ASSUME NEW id \in JobIDs, BeginFail(c, id) \/ BeginDispatchFailure(c, id)
      PROVE  /\ phase = "up" /\ phase' = phase
             /\ failing' = [failing EXCEPT ![c] = failing'[c]]
             /\ failing'[c] # NoCall /\ failing'[c].id = id
  <2>1. PICK code \in ReasonCodes : failing' = [failing EXCEPT ![c] = [id |-> id, reasonCode |-> code]]
    BY <1>2, <1>3 DEF BeginFail, BeginDispatchFailure
  <2>2. [id |-> id, reasonCode |-> code] \in Calls
    BY <1>3 DEF Calls
  <2> QED
    BY <1>1, <1>3, <2>1, <2>2, CallAssumption DEF BeginFail, BeginDispatchFailure, Serving, Outside
<1>4. ASSUME NEW reason \in Errors, EndFail(c, reason) \/ RefuseFail(c)
      PROVE  /\ phase = "up" /\ phase' = phase
             /\ failing' = [failing EXCEPT ![c] = failing'[c]]
             /\ failing'[c] = NoCall
  BY <1>1, <1>4 DEF EndFail, RefuseFail, failWithReasonCode, Serving, Outside
<1> QED
  BY <1>3, <1>4

\* If one request steps and the counters keep their types, the types are kept.
LEMMA RequestStepKeepsTypes ==
    ASSUME DispatchInvariant, NEW c \in Callers, NEW r, RequestStep(c, r),
           replies' \in [JobIDs -> Nat], replays' \in [JobIDs -> Nat]
    PROVE  DispatchTypeOK'
<1>1. req \in [Callers -> Request] /\ failing \in [Callers -> Calls \cup {NoCall}]
  BY DEF DispatchInvariant, DispatchTypeOK, QueueInvariant, TypeOK
<1>2. req' \in [Callers -> Request]
  BY <1>1 DEF RequestStep
<1>3. \A k \in Callers : /\ req'[k] = IF k = c THEN r ELSE req[k]
                         /\ k # c => failing'[k] = failing[k]
  BY <1>1 DEF RequestStep
<1>4. \A k \in Callers :
        /\ (failing'[k] # NoCall) <=> (req'[k].stage \in FailStages \cup {"charge"})
        /\ failing'[k] # NoCall => failing'[k].id = req'[k].id
        /\ req'[k].stage \in DispatchStages \cup TimeoutStages => req'[k].id # NoID
        /\ req'[k].stage # "idle" => phase' = "up"
  BY <1>3 DEF RequestStep, Coherent, DispatchInvariant, DispatchTypeOK, At
<1> QED
  BY <1>2, <1>4 DEF DispatchTypeOK, At

-----------------------------------------------------------------------------
(* The replies a request may still send *)

Debt(r, id) == IF r.id = id /\ r.stage \in AnswerStages THEN 1 ELSE 0

\* No step sends, or promises, a reply that no attempt and no replay pays for.
Pays(c, r) ==
    /\ replies' \in [JobIDs -> Nat]
    /\ replays' \in [JobIDs -> Nat]
    /\ \A id \in JobIDs :
          replies'[id] + Debt(r, id) + attempts[id] + replays[id]
            =< replies[id] + Debt(req[c], id) + attempts'[id] + replays'[id]

\* What is to be shown of every step of a request.
Fine(c, r) == RequestStep(c, r) /\ Pays(c, r) /\ [Next]_vars

\* Attempts are only added to.
LEMMA AttemptsGrow ==
    ASSUME DispatchInvariant
    PROVE  /\ attempts \in [JobIDs -> Nat]
           /\ UNCHANGED vars => attempts' = attempts
           /\ \A id \in JobIDs : QuietOperation(id) =>
                 /\ attempts' \in [JobIDs -> Nat]
                 /\ \A k \in JobIDs : attempts[k] =< attempts'[k]
           /\ \A id \in JobIDs : MarkRunning(id) => attempts'[id] = attempts[id] + 1
           /\ \A c \in Callers, id \in JobIDs :
                 BeginFail(c, id) \/ BeginDispatchFailure(c, id) => attempts' = attempts
           /\ \A c \in Callers, reason \in Errors :
                 EndFail(c, reason) \/ RefuseFail(c) => attempts' = attempts
<1>1. attempts \in [JobIDs -> Nat]
  BY DEF DispatchInvariant, QueueInvariant, TypeOK
<1>2. ASSUME NEW id \in JobIDs, QuietOperation(id)
      PROVE  attempts' = attempts \/ attempts' = [attempts EXCEPT ![id] = attempts[id] + 1]
  BY <1>2 DEF QuietOperation, Enqueue, Heartbeat, MarkRunning, Complete, Timeout,
     failWithReasonCode, RetryDeadLetter, Pause, Resume, Cancel, history
<1>3. ASSUME NEW id \in JobIDs, QuietOperation(id)
      PROVE  /\ attempts' \in [JobIDs -> Nat]
             /\ \A k \in JobIDs : attempts[k] =< attempts'[k]
  BY <1>1, <1>2, <1>3
<1>4. ASSUME NEW id \in JobIDs, MarkRunning(id)
      PROVE  attempts'[id] = attempts[id] + 1
  BY <1>1, <1>4 DEF MarkRunning
<1>5. UNCHANGED vars => attempts' = attempts
  BY DEF vars, history
<1>6. \A c \in Callers, id \in JobIDs :
        BeginFail(c, id) \/ BeginDispatchFailure(c, id) => attempts' = attempts
  BY DEF BeginFail, BeginDispatchFailure, history
<1>7. \A c \in Callers, reason \in Errors :
        EndFail(c, reason) \/ RefuseFail(c) => attempts' = attempts
  BY DEF EndFail, failWithReasonCode, RefuseFail, history
<1> QED
  BY <1>1, <1>3, <1>4, <1>5, <1>6, <1>7

\* A step that sends nothing and takes on no debt pays.
LEMMA SilentStepPays ==
    ASSUME DispatchInvariant, NEW c \in Callers, NEW r, NoReply,
           attempts' \in [JobIDs -> Nat],
           \A k \in JobIDs : attempts[k] =< attempts'[k],
           r.stage \in AnswerStages => req[c].stage \in AnswerStages /\ r.id = req[c].id
    PROVE  Pays(c, r)
<1>1. replies \in [JobIDs -> Nat] /\ replays \in [JobIDs -> Nat] /\ attempts \in [JobIDs -> Nat]
  BY DEF DispatchInvariant, DispatchTypeOK, QueueInvariant, TypeOK
<1>2. \A id \in JobIDs : Debt(r, id) \in {0, 1} /\ Debt(req[c], id) \in {0, 1}
                        /\ Debt(r, id) =< Debt(req[c], id)
  BY DEF Debt
<1>3. replies' = replies /\ replays' = replays
  BY DEF NoReply
<1> HIDE DEF Debt
<1> QED
  BY <1>1, <1>2, <1>3 DEF Pays

\* The values a request steps to.
LEMMA RequestValues ==
    ASSUME DispatchInvariant, NEW c \in Callers
    PROVE  /\ req \in [Callers -> Request] /\ req[c] \in Request /\ Idle \in Request
           /\ \A stage \in Stages :
                 /\ [req[c] EXCEPT !.stage = stage] \in Request
                 /\ Goto(c, stage) => req' = [req EXCEPT ![c] = [req[c] EXCEPT !.stage = stage]]
           /\ [Idle EXCEPT !.stage = "next", !.todo = req[c].todo, !.gone = req[c].gone] \in Request
           /\ req[c].stage \in DispatchStages \cup TimeoutStages => req[c].id \in JobIDs
           /\ req[c].stage # "idle" => phase = "up"
<1>1. req \in [Callers -> Request] /\ req[c] \in Request
  BY DEF DispatchInvariant, DispatchTypeOK
<1>2. Idle \in Request
  BY DEF Idle, Request, Stages, Replays
<1>3. [Idle EXCEPT !.stage = "next", !.todo = req[c].todo, !.gone = req[c].gone] \in Request
  BY <1>1 DEF Idle, Request, Stages, Replays
<1>4. \A stage \in Stages : [req[c] EXCEPT !.stage = stage] \in Request
  BY <1>1 DEF Request
<1>5. \A stage \in Stages : Goto(c, stage) => req' = [req EXCEPT ![c] = [req[c] EXCEPT !.stage = stage]]
  BY <1>1 DEF Goto
<1>6. req[c].id \in JobIDs \cup {NoID}
  BY <1>1 DEF Request
<1>7. /\ req[c].stage \in DispatchStages \cup TimeoutStages => req[c].id \in JobIDs
      /\ req[c].stage # "idle" => phase = "up"
  BY <1>6 DEF DispatchInvariant, DispatchTypeOK, At
<1> QED
  BY <1>1, <1>2, <1>3, <1>4, <1>5, <1>7

\* A request that moves on and neither begins nor ends a Fail call, doing a quiet
\* operation of the queue or none.
LEMMA QuietStep ==
    ASSUME DispatchInvariant, NEW c \in Callers, NEW r \in Request,
           req' = [req EXCEPT ![c] = r],
           \/ UNCHANGED vars /\ phase = "up"
           \/ \E id \in JobIDs : QuietOperation(id),
           r.stage \in FailStages \cup {"charge"} <=> req[c].stage \in FailStages \cup {"charge"},
           r.stage \in FailStages \cup {"charge"} => r.id = req[c].id,
           r.stage \in DispatchStages \cup TimeoutStages => r.id # NoID
    PROVE  RequestStep(c, r) /\ [Next]_vars
<1>1. phase = "up" /\ phase' = phase /\ failing' = failing /\ [Next]_vars
  BY QuietOperations, QuietSteps DEF vars, memory
<1>2. failing \in [Callers -> Calls \cup {NoCall}]
  BY DEF DispatchInvariant, QueueInvariant, TypeOK
<1>3. /\ (failing[c] # NoCall) <=> (req[c].stage \in FailStages \cup {"charge"})
      /\ failing[c] # NoCall => failing[c].id = req[c].id
  BY DEF DispatchInvariant, DispatchTypeOK
<1> QED
  BY <1>1, <1>2, <1>3 DEF RequestStep, Coherent

\* Such a step is fine if it sends nothing and takes on no debt.
LEMMA SilentQuietStep ==
    ASSUME DispatchInvariant, NEW c \in Callers, NEW r \in Request,
           req' = [req EXCEPT ![c] = r], NoReply,
           \/ UNCHANGED vars /\ phase = "up"
           \/ \E id \in JobIDs : QuietOperation(id),
           r.stage \in FailStages \cup {"charge"} <=> req[c].stage \in FailStages \cup {"charge"},
           r.stage \in FailStages \cup {"charge"} => r.id = req[c].id,
           r.stage \in DispatchStages \cup TimeoutStages => r.id # NoID,
           r.stage \in AnswerStages => req[c].stage \in AnswerStages /\ r.id = req[c].id
    PROVE  Fine(c, r)
<1>1. /\ attempts' \in [JobIDs -> Nat]
      /\ \A k \in JobIDs : attempts[k] =< attempts'[k]
  BY AttemptsGrow
<1>2. Pays(c, r)
  BY <1>1, SilentStepPays
<1>3. RequestStep(c, r) /\ [Next]_vars
  BY QuietStep
<1> QED
  BY <1>2, <1>3 DEF Fine

Calling == FailStages \cup {"charge"}

\* The steps that only go from stage to stage, or leave the job or the request.
LEMMA SilentMove ==
    ASSUME DispatchInvariant, NEW c \in Callers, NoReply,
           \/ UNCHANGED vars /\ phase = "up"
           \/ \E id \in JobIDs : QuietOperation(id),
           req[c].stage \notin Calling,
           \/ NextJob(c)
           \/ Finish(c)
           \/ \E stage \in Stages \ Calling :
                 /\ Goto(c, stage)
                 /\ stage \in DispatchStages \cup TimeoutStages =>
                       req[c].stage \in DispatchStages \cup TimeoutStages
                 /\ stage \in AnswerStages => req[c].stage \in AnswerStages
    PROVE  \E r : Fine(c, r)
<1> DEFINE looping == [Idle EXCEPT !.stage = "next", !.todo = req[c].todo, !.gone = req[c].gone]
<1>1. ASSUME NextJob(c) \/ Finish(c)
      PROVE  \E r : Fine(c, r)
  <2>1. PICK r \in {looping, Idle} : req' = [req EXCEPT ![c] = r]
    BY <1>1 DEF NextJob, Finish
  <2>2. /\ r \in Request
        /\ r.stage \notin Calling \cup DispatchStages \cup TimeoutStages \cup AnswerStages
    <3>1. Idle.stage = "idle" /\ looping.stage = "next"
      BY DEF Idle
    <3>2. r \in Request
      BY RequestValues
    <3> HIDE DEF looping
    <3> QED
      BY <3>1, <3>2 DEF Calling, FailStages, DispatchStages, HostStages, PluginStages,
         TimeoutStages, AnswerStages
  <2>3. Fine(c, r)
    BY <2>1, <2>2, SilentQuietStep DEF Calling
  <2> QED
    BY <2>3
<1>2. ASSUME NEW stage \in Stages \ Calling, Goto(c, stage),
             stage \in DispatchStages \cup TimeoutStages =>
                req[c].stage \in DispatchStages \cup TimeoutStages,
             stage \in AnswerStages => req[c].stage \in AnswerStages
      PROVE  \E r : Fine(c, r)
  <2> DEFINE r == [req[c] EXCEPT !.stage = stage]
  <2>1. r \in Request /\ req' = [req EXCEPT ![c] = r]
    BY <1>2, RequestValues
  <2>2. r.stage = stage /\ r.id = req[c].id
    BY RequestValues DEF Request
  <2>3. req[c].stage \in DispatchStages \cup TimeoutStages => req[c].id # NoID
    BY RequestValues, NoIDAssumption DEF NoIDAssumption
  <2> HIDE DEF r
  <2>4. Fine(c, r)
    BY <1>2, <2>1, <2>2, <2>3, SilentQuietStep DEF Calling
  <2> QED
    BY <2>4
<1> QED
  BY <1>1, <1>2

-----------------------------------------------------------------------------
(* One lemma per kind of step: first, those that leave the Fail calls alone. *)

\* A request that arrives, whatever it does to the queue first.
LEMMA Arrivals ==
    ASSUME DispatchInvariant, NEW c \in Callers,
           \/ \E id \in JobIDs, m \in RetryBudgets : Message(c, id, m)
           \/ \E id \in JobIDs : OperatorResume(c, id) \/ OperatorRetry(c, id)
           \/ OtherMessage(c)
    PROVE  \E r : Fine(c, r)
<1>1. At(c, "idle") /\ NoReply
  BY DEF Message, OperatorResume, OperatorRetry, OtherMessage
<1>2. \/ UNCHANGED vars /\ phase = "up"
      \/ \E id \in JobIDs : QuietOperation(id)
  BY DEF Message, OperatorResume, OperatorRetry, OtherMessage, QueueUnchanged, QuietOperation
<1>3. Goto(c, "list") \/ Finish(c)
  BY DEF Message, OperatorResume, OperatorRetry, OtherMessage
<1>4. "list" \in Stages \ (Calling \cup DispatchStages \cup TimeoutStages \cup AnswerStages)
  BY DEF Stages, Calling, FailStages, DispatchStages, HostStages, PluginStages,
     TimeoutStages, AnswerStages
<1> QED
  BY <1>1, <1>2, <1>3, <1>4, SilentMove DEF At, Calling, FailStages

\* The timeout endpoint.
LEMMA TimeoutSteps ==
    ASSUME DispatchInvariant, NEW c \in Callers, TimeoutClaim(c) \/ TimeoutJob(c)
    PROVE  \E r : Fine(c, r)
<1>1. req[c].stage \in TimeoutStages /\ NoReply
  BY DEF TimeoutClaim, TimeoutJob, At, TimeoutStages
<1>2. req[c].id \in JobIDs /\ phase = "up"
  BY <1>1, RequestValues DEF TimeoutStages
<1>3. UNCHANGED vars \/ \E id \in JobIDs : QuietOperation(id)
  BY <1>2 DEF TimeoutClaim, TimeoutJob, QueueUnchanged, QuietOperation
<1>4. Goto(c, "timeout") \/ Finish(c)
  BY DEF TimeoutClaim, TimeoutJob
<1>5. "timeout" \in Stages \ (Calling \cup AnswerStages)
  BY DEF Stages, TimeoutStages, Calling, FailStages, AnswerStages
<1>6. req[c].stage \notin Calling
  BY <1>1 DEF TimeoutStages, Calling, FailStages
<1> QED
  BY <1>1, <1>2, <1>3, <1>4, <1>5, <1>6, SilentMove

\* The end of the loop, the way to the host, the loss of the subprocess, Inspect.
LEMMA HostSteps ==
    ASSUME DispatchInvariant, NEW c \in Callers,
           EndRequest(c) \/ EnterHost(c) \/ Deny(c) \/ Lose(c) \/ Inspect(c)
    PROVE  \E r : Fine(c, r)
<1>1. UNCHANGED vars /\ NoReply
  BY DEF EndRequest, EnterHost, Deny, Lose, Inspect, QueueUnchanged
<1>2. \/ req[c].stage = "next" /\ Finish(c)
      \/ /\ req[c].stage \in {"waiting", "inspect"}
         /\ \E stage \in {"inspect", "generate", "mark", "lost"} : Goto(c, stage)
      \/ req[c].stage \in PluginStages /\ Goto(c, "lost")
  BY DEF EndRequest, EnterHost, Deny, Lose, Inspect, At
<1>3. req[c].stage # "idle" /\ req[c].stage \notin Calling
  BY <1>2 DEF PluginStages, Calling, FailStages
<1>4. phase = "up"
  BY <1>3, RequestValues
<1>5. \A stage \in {"inspect", "generate", "mark", "lost"} : stage \in Stages \ Calling
  BY DEF Stages, DispatchStages, HostStages, PluginStages, Calling, FailStages
<1>6. /\ "lost" \notin AnswerStages
      /\ {"waiting", "inspect"} \subseteq AnswerStages \cap DispatchStages
      /\ PluginStages \subseteq DispatchStages
  BY DEF AnswerStages, DispatchStages, HostStages, PluginStages
<1> QED
  BY <1>1, <1>2, <1>3, <1>4, <1>5, <1>6, SilentMove

\* The plugin claims or completes the job, or returns to the host.
LEMMA PluginSteps ==
    ASSUME DispatchInvariant, NEW c \in Callers, Mark(c) \/ CompleteJob(c) \/ Respond(c)
    PROVE  \E r : Fine(c, r)
<1>1. NoReply /\ req[c].stage \in {"mark", "complete", "ok", "error"}
  BY DEF Mark, CompleteJob, Respond, At
<1>2. req[c].stage \in DispatchStages /\ req[c].stage \notin Calling
  BY <1>1 DEF DispatchStages, HostStages, PluginStages, Calling, FailStages
<1>3. req[c].id \in JobIDs /\ phase = "up"
  BY <1>1, <1>2, RequestValues
<1>4. UNCHANGED vars \/ \E id \in JobIDs : QuietOperation(id)
  BY <1>3 DEF Mark, CompleteJob, Respond, QueueUnchanged, QuietOperation
<1>5. \/ req[c].stage = "mark" /\ Goto(c, "generate")
      \/ NextJob(c)
      \/ \E stage \in {"lost", "ok", "error"} : Goto(c, stage)
  BY DEF Mark, CompleteJob, Respond, At
<1>6. /\ "mark" \in AnswerStages /\ {"lost", "ok", "error"} \cap AnswerStages = {}
      /\ {"generate", "lost", "ok", "error"} \subseteq Stages \ Calling
  BY DEF AnswerStages, Stages, DispatchStages, HostStages, PluginStages, Calling, FailStages
<1> QED
  BY <1>1, <1>2, <1>3, <1>4, <1>5, <1>6, SilentMove

\* The snapshot, and a timeout request for a known job.
LEMMA ListingSteps ==
    ASSUME DispatchInvariant, NEW c \in Callers,
           List(c) \/ \E id \in JobIDs : SkipClaim(c, id) \/ RequestTimeout(c, id)
    PROVE  \E r : Fine(c, r)
<1>1. UNCHANGED vars /\ NoReply
  BY DEF List, SkipClaim, RequestTimeout, QueueUnchanged
<1>2. phase = "up"
  <2>1. CASE List(c) \/ \E id \in JobIDs : SkipClaim(c, id)
    BY <2>1, RequestValues DEF List, SkipClaim, At
  <2>2. CASE \E id \in JobIDs : RequestTimeout(c, id)
    BY <2>2 DEF RequestTimeout, Serving
  <2> QED
    BY <2>1, <2>2
<1>3. \E r \in Request :
        /\ req' = [req EXCEPT ![c] = r]
        /\ r.stage \in {"next"} \cup TimeoutStages
        /\ r.id \in JobIDs \/ r.stage = "next"
  <2>1. req[c] \in Request
    BY RequestValues
  <2>2. CASE List(c)
    <3>1. ReadyJobs \in SUBSET JobIDs /\ "next" \in Stages
      BY DEF ReadyJobs, InStatus, Known, Stages
    <3>2. [req[c] EXCEPT !.stage = "next", !.todo = ReadyJobs] \in Request
      BY <2>1, <3>1 DEF Request
    <3>3. [req[c] EXCEPT !.stage = "next", !.todo = ReadyJobs].stage = "next"
      BY <2>1 DEF Request
    <3>4. req' = [req EXCEPT ![c] = [req[c] EXCEPT !.stage = "next", !.todo = ReadyJobs]]
      BY <2>2 DEF List
    <3> QED
      BY <3>2, <3>3, <3>4
  <2>3. ASSUME NEW id \in JobIDs, SkipClaim(c, id)
        PROVE  \E r \in Request : req' = [req EXCEPT ![c] = r] /\ r.stage = "next"
    <3>1. [req[c] EXCEPT !.todo = req[c].todo \ {id}] \in Request
      BY <2>1 DEF Request
    <3>2. [req[c] EXCEPT !.todo = req[c].todo \ {id}].stage = "next"
      BY <2>1, <2>3 DEF Request, SkipClaim, At
    <3>3. req' = [req EXCEPT ![c] = [req[c] EXCEPT !.todo = req[c].todo \ {id}]]
      BY <2>3 DEF SkipClaim
    <3> QED
      BY <3>1, <3>2, <3>3
  <2>4. ASSUME NEW id \in JobIDs, RequestTimeout(c, id)
        PROVE  \E r \in Request : /\ req' = [req EXCEPT ![c] = r]
                                  /\ r.stage \in TimeoutStages /\ r.id = id
    <3>1. PICK stage \in TimeoutStages :
              req' = [req EXCEPT ![c] = [req[c] EXCEPT !.id = id, !.stage = stage]]
      BY <2>4 DEF RequestTimeout, TimeoutStages
    <3>2. [req[c] EXCEPT !.id = id, !.stage = stage] \in Request
      BY <2>1, <3>1 DEF Request, Stages
    <3>3. /\ [req[c] EXCEPT !.id = id, !.stage = stage].stage = stage
          /\ [req[c] EXCEPT !.id = id, !.stage = stage].id = id
      BY <2>1 DEF Request
    <3> QED
      BY <3>1, <3>2, <3>3
  <2> QED
    BY <2>2, <2>3, <2>4
<1>4. PICK r \in Request :
        /\ req' = [req EXCEPT ![c] = r]
        /\ r.stage \in {"next"} \cup TimeoutStages
        /\ r.id \in JobIDs \/ r.stage = "next"
  BY <1>3
<1>5. /\ req[c].stage \notin Calling /\ r.stage \notin Calling /\ r.stage \notin AnswerStages
      /\ r.stage \in DispatchStages \cup TimeoutStages => r.id # NoID
  <2>1. req[c].stage \in {"list", "next", "idle"}
    BY DEF List, SkipClaim, RequestTimeout, At
  <2> QED
    BY <1>4, <2>1, NoIDAssumption DEF NoIDAssumption, Calling, FailStages, DispatchStages,
       HostStages, PluginStages, TimeoutStages, AnswerStages
<1>6. Fine(c, r)
  BY <1>1, <1>2, <1>4, <1>5, SilentQuietStep DEF Calling
<1> QED
  BY <1>6

\* A client that leaves changes nothing but its context.
LEMMA LeaveStep ==
    ASSUME DispatchInvariant, NEW c \in Callers, Leave(c)
    PROVE  \E r : Fine(c, r)
<1> DEFINE r == [req[c] EXCEPT !.gone = TRUE]
<1>1. req[c] \in Request
  BY RequestValues
<1>2. r \in Request /\ r.stage = req[c].stage /\ r.id = req[c].id
  BY <1>1 DEF Request
<1>3. UNCHANGED vars /\ NoReply /\ req' = [req EXCEPT ![c] = r]
  BY DEF Leave, QueueUnchanged
<1>4. phase = "up"
  BY RequestValues DEF Leave, At
<1>5. r.stage \in DispatchStages \cup TimeoutStages => r.id # NoID
  BY <1>2, RequestValues, NoIDAssumption DEF NoIDAssumption
<1> HIDE DEF r
<1>6. Fine(c, r)
  BY <1>2, <1>3, <1>4, <1>5, SilentQuietStep
<1> QED
  BY <1>6

-----------------------------------------------------------------------------
(* The steps that take on, or pay, a reply.                                  *)

\* What a request may owe is 0 or 1.
LEMMA DebtValues ==
    ASSUME NEW r, NEW id
    PROVE  /\ Debt(r, id) \in {0, 1}
           /\ r.stage \notin AnswerStages => Debt(r, id) = 0
           /\ r.id # id => Debt(r, id) = 0
           /\ r.stage \in AnswerStages /\ r.id = id => Debt(r, id) = 1
BY DEF Debt

\* A claim pays for the reply with the attempt it adds.
LEMMA ClaimStep ==
    ASSUME DispatchInvariant, NEW c \in Callers, NEW id \in JobIDs, Claim(c, id)
    PROVE  \E r : Fine(c, r)
<1> DEFINE r == [req[c] EXCEPT !.stage = "waiting", !.todo = req[c].todo \ {id},
                               !.id = id, !.attempt = attempts'[id]]
<1>1. QuietOperation(id) /\ MarkRunning(id) /\ NoReply /\ req[c].stage = "next"
  BY DEF Claim, QuietOperation, At
<1>2. /\ attempts \in [JobIDs -> Nat] /\ attempts' \in [JobIDs -> Nat]
      /\ \A k \in JobIDs : attempts[k] =< attempts'[k]
      /\ attempts'[id] = attempts[id] + 1
  BY <1>1, AttemptsGrow
<1>3. req[c] \in Request /\ "waiting" \in Stages
  BY RequestValues DEF Stages, DispatchStages
<1>4. r \in Request /\ r.stage = "waiting" /\ r.id = id
  BY <1>2, <1>3 DEF Request
<1>5. req' = [req EXCEPT ![c] = r]
  BY DEF Claim
<1> HIDE DEF r
<1>6. req[c].stage \notin Calling /\ r.stage \notin Calling /\ r.id # NoID
  BY <1>1, <1>4, NoIDAssumption DEF NoIDAssumption, Calling, FailStages
<1>7. RequestStep(c, r) /\ [Next]_vars
  BY <1>1, <1>4, <1>5, <1>6, QuietStep DEF Calling
<1>8. Pays(c, r)
  <2>1. /\ replies \in [JobIDs -> Nat] /\ replays \in [JobIDs -> Nat]
        /\ replies' = replies /\ replays' = replays
    BY <1>1 DEF NoReply, DispatchInvariant, DispatchTypeOK
  <2>2. \A k \in JobIDs : Debt(r, k) \in {0, 1} /\ Debt(req[c], k) \in {0, 1}
    BY DebtValues
  <2>3. \A k \in JobIDs : k # id => Debt(r, k) = 0
    BY <1>4, DebtValues
  <2>4. ASSUME NEW k \in JobIDs
        PROVE  Debt(r, k) + attempts[k] =< Debt(req[c], k) + attempts'[k]
    <3>1. /\ attempts[k] \in Nat /\ attempts'[k] \in Nat /\ attempts[k] =< attempts'[k]
          /\ Debt(r, k) \in {0, 1} /\ Debt(req[c], k) \in {0, 1}
      BY <1>2, <2>2
    <3>2. CASE k = id
      BY <1>2, <3>1, <3>2
    <3>3. CASE k # id
      BY <2>3, <3>1, <3>3
    <3> QED
      BY <3>2, <3>3
  <2>5. ASSUME NEW k \in JobIDs
        PROVE  replies'[k] + Debt(r, k) + attempts[k] + replays[k]
                 =< replies[k] + Debt(req[c], k) + attempts'[k] + replays'[k]
    BY <1>2, <2>1, <2>2, <2>4
  <2> QED
    BY <2>1, <2>5 DEF Pays
<1> QED
  BY <1>7, <1>8 DEF Fine

\* A replay is paid for by itself.
LEMMA ReplayStep ==
    ASSUME DispatchInvariant, NEW c \in Callers, Replay(c)
    PROVE  \E r : Fine(c, r)
<1> DEFINE id == req[c].id
<1>1. PICK how \in {"checked", "blind"} :
        req' = [req EXCEPT ![c] = [req[c] EXCEPT !.stage = "inspect", !.replay = how]]
  BY DEF Replay
<1> DEFINE r == [req[c] EXCEPT !.stage = "inspect", !.replay = how]
<1>2. req[c] \in Request /\ "inspect" \in Stages
  BY RequestValues DEF Stages, DispatchStages, HostStages, PluginStages
<1>3. r \in Request /\ r.stage = "inspect" /\ r.id = id
  BY <1>2 DEF Request, Replays
<1>4. req[c].stage \in DispatchStages /\ req[c].stage \notin Calling
  BY DEF Replay, DispatchStages, HostStages, PluginStages, Calling, FailStages
<1>5. id \in JobIDs /\ phase = "up"
  <2>1. req[c].stage # "idle"
    BY DEF Replay, PluginStages
  <2> QED
    BY <1>4, <2>1, RequestValues
<1>6. /\ UNCHANGED vars /\ replies' = replies
      /\ replays' = [replays EXCEPT ![id] = replays[id] + 1]
  BY DEF Replay, QueueUnchanged
<1> HIDE DEF r, id
<1>7. r.stage \notin Calling /\ r.id # NoID
  BY <1>3, <1>5, NoIDAssumption DEF NoIDAssumption, Calling, FailStages
<1>8. RequestStep(c, r) /\ [Next]_vars
  BY <1>1, <1>3, <1>4, <1>5, <1>6, <1>7, QuietStep DEF Calling, r
<1>9. Pays(c, r)
  <2>1. /\ replies \in [JobIDs -> Nat] /\ replays \in [JobIDs -> Nat]
        /\ attempts \in [JobIDs -> Nat] /\ attempts' = attempts
    BY <1>6, AttemptsGrow DEF DispatchInvariant, DispatchTypeOK
  <2>2. replays' \in [JobIDs -> Nat]
    BY <1>5, <1>6, <2>1
  <2>3. ASSUME NEW k \in JobIDs
        PROVE  replies'[k] + Debt(r, k) + attempts[k] + replays[k]
                 =< replies[k] + Debt(req[c], k) + attempts'[k] + replays'[k]
    <3>1. /\ Debt(r, k) \in {0, 1} /\ Debt(req[c], k) \in {0, 1}
          /\ k # id => Debt(r, k) = 0
      BY <1>3, DebtValues
    <3>2. /\ replies[k] \in Nat /\ replays[k] \in Nat /\ attempts[k] \in Nat
          /\ replays'[k] = IF k = id THEN replays[k] + 1 ELSE replays[k]
      BY <1>6, <2>1
    <3> QED
      BY <1>6, <2>1, <3>1, <3>2
  <2> QED
    BY <1>6, <2>1, <2>2, <2>3 DEF Pays
<1> QED
  BY <1>8, <1>9 DEF Fine

\* A reply is paid for by the stage it is sent from.
LEMMA ReplyPays ==
    ASSUME DispatchInvariant, NEW c \in Callers, NEW r,
           req[c].stage \in {"answer", "bury"}, req[c].id \in JobIDs,
           r.stage \notin AnswerStages,
           attempts' = attempts, replays' = replays,
           \/ replies' = replies
           \/ replies' = [replies EXCEPT ![req[c].id] = replies[req[c].id] + 1]
    PROVE  Pays(c, r)
<1> DEFINE id == req[c].id
<1>1. /\ replies \in [JobIDs -> Nat] /\ replays \in [JobIDs -> Nat]
      /\ attempts \in [JobIDs -> Nat]
  BY AttemptsGrow DEF DispatchInvariant, DispatchTypeOK
<1>2. replies' \in [JobIDs -> Nat]
  BY <1>1
<1>3. req[c].stage \in AnswerStages
  BY DEF AnswerStages
<1>4. ASSUME NEW k \in JobIDs
      PROVE  replies'[k] + Debt(r, k) =< replies[k] + Debt(req[c], k) /\ replies'[k] \in Nat
  <2>1. /\ Debt(r, k) = 0 /\ Debt(req[c], k) \in {0, 1}
        /\ k = id => Debt(req[c], k) = 1
    BY <1>3, DebtValues
  <2>2. /\ replies[k] \in Nat
        /\ replies'[k] = replies[k] \/ (k = id /\ replies'[k] = replies[k] + 1)
    BY <1>1
  <2> QED
    BY <2>1, <2>2
<1>5. \A k \in JobIDs : Debt(r, k) \in {0, 1} /\ Debt(req[c], k) \in {0, 1}
  BY DebtValues
<1> HIDE DEF id
<1> QED
  BY <1>1, <1>2, <1>4, <1>5 DEF Pays

\* The values of the steps that only go to another stage.
LEMMA StageValues ==
    ASSUME DispatchInvariant, NEW c \in Callers, NEW stage \in PluginStages, Goto(c, stage)
    PROVE  \E r \in Request :
              /\ req' = [req EXCEPT ![c] = r]
              /\ r.stage = stage /\ r.id = req[c].id
<1>1. stage \in Stages
  BY DEF Stages, DispatchStages, HostStages
<1>2. [req[c] EXCEPT !.stage = stage].stage = stage /\ [req[c] EXCEPT !.stage = stage].id = req[c].id
  BY RequestValues DEF Request
<1> QED
  BY <1>1, <1>2, RequestValues

\* Bury reports the death of the job.
LEMMA BuryStep ==
    ASSUME DispatchInvariant, NEW c \in Callers, Bury(c)
    PROVE  \E r : Fine(c, r)
<1> DEFINE id == req[c].id
<1>1. req[c].stage = "bury" /\ UNCHANGED vars
  BY DEF Bury, At, QueueUnchanged
<1>2. req[c].stage \in DispatchStages /\ req[c].stage \notin Calling
  BY <1>1 DEF DispatchStages, HostStages, PluginStages, Calling, FailStages
<1>3. id \in JobIDs /\ phase = "up"
  BY <1>1, <1>2, RequestValues
<1>4. \/ NoReply
      \/ replies' = [replies EXCEPT ![id] = replies[id] + 1] /\ replays' = replays
  BY DEF Bury, MaybeReply, Reply
<1>5. PICK stage \in {"ok", "error"} : Goto(c, stage)
  BY DEF Bury
<1>6. PICK r \in Request :
        /\ req' = [req EXCEPT ![c] = r]
        /\ r.stage \in {"ok", "error"} /\ r.id = id
  <2>1. stage \in PluginStages
    BY <1>5 DEF PluginStages
  <2> QED
    BY <1>5, <2>1, StageValues
<1> HIDE DEF id
<1>7. r.stage \notin Calling /\ r.stage \notin AnswerStages
  BY <1>6 DEF Calling, FailStages, AnswerStages
<1>8. r.id # NoID
  BY <1>3, <1>6, NoIDAssumption DEF NoIDAssumption
<1>9. RequestStep(c, r) /\ [Next]_vars
  BY <1>1, <1>2, <1>3, <1>6, <1>7, <1>8, QuietStep DEF Calling
<1>10. Pays(c, r)
  <2>1. attempts' = attempts
    BY <1>1, AttemptsGrow
  <2> QED
    BY <1>1, <1>3, <1>4, <1>7, <2>1, ReplyPays DEF id, NoReply
<1> QED
  BY <1>9, <1>10 DEF Fine

-----------------------------------------------------------------------------
(* The steps that begin or end a Fail call.                                  *)

\* Generate and Answer may begin one, LookAfter too.
LEMMA BeginningStep ==
    ASSUME DispatchInvariant, NEW c \in Callers, NEW stage \in Calling,
           req[c].stage \in DispatchStages,
           Goto(c, stage),
           BeginFail(c, req[c].id) \/ BeginDispatchFailure(c, req[c].id)
    PROVE  /\ RequestStep(c, [req[c] EXCEPT !.stage = stage]) /\ [Next]_vars
           /\ attempts' = attempts
<1>1. req[c].id \in JobIDs /\ req[c] \in Request
  BY RequestValues
<1>2. stage \in Stages
  BY DEF Calling, Stages, DispatchStages, HostStages
<1> DEFINE r == [req[c] EXCEPT !.stage = stage]
<1>3. r \in Request /\ req' = [req EXCEPT ![c] = r]
  BY <1>2, RequestValues
<1>4. r.stage = stage /\ r.id = req[c].id
  BY <1>1 DEF Request
<1>5. /\ phase = "up" /\ phase' = phase
      /\ failing' = [failing EXCEPT ![c] = failing'[c]]
      /\ failing'[c] # NoCall /\ failing'[c].id = req[c].id
  BY <1>1, CallSteps
<1>6. [Next]_vars
  BY <1>1 DEF Next
<1>7. r.id # NoID
  BY <1>1, <1>4, NoIDAssumption DEF NoIDAssumption
<1>8. attempts' = attempts
  BY <1>1, AttemptsGrow
<1> HIDE DEF r
<1>9. RequestStep(c, r)
  BY <1>3, <1>4, <1>5, <1>7 DEF RequestStep, Coherent, Calling
<1> QED
  BY <1>6, <1>8, <1>9 DEF r

\* FailJob and Charge end one.
LEMMA EndingStep ==
    ASSUME DispatchInvariant, NEW c \in Callers, NEW r \in Request,
           req' = [req EXCEPT ![c] = r],
           \/ \E reason \in Errors : EndFail(c, reason)
           \/ RefuseFail(c),
           r.stage \notin Calling,
           r.stage \in DispatchStages \cup TimeoutStages => r.id # NoID
    PROVE  /\ RequestStep(c, r) /\ [Next]_vars
           /\ attempts' = attempts
<1>1. \E reason \in Errors : EndFail(c, reason) \/ RefuseFail(c)
  BY IdentityAssumption DEF IdentityAssumption
<1>2. /\ phase = "up" /\ phase' = phase
      /\ failing' = [failing EXCEPT ![c] = failing'[c]]
      /\ failing'[c] = NoCall
  BY <1>1, CallSteps
<1>3. attempts' = attempts
  BY <1>1, AttemptsGrow
<1>4. [Next]_vars
  BY DEF Next
<1>5. RequestStep(c, r)
  BY <1>2 DEF RequestStep, Coherent, Calling
<1> QED
  BY <1>3, <1>4, <1>5

\* The plugin has asked the provider.
LEMMA GenerateStep ==
    ASSUME DispatchInvariant, NEW c \in Callers, Generate(c)
    PROVE  \E r : Fine(c, r)
<1>1. req[c].stage = "generate" /\ NoReply
  BY DEF Generate, At
<1>2. req[c].stage \in DispatchStages /\ req[c].stage \in AnswerStages /\ req[c].stage \notin Calling
  BY <1>1 DEF DispatchStages, HostStages, PluginStages, AnswerStages, Calling, FailStages
<1>3. CASE Goto(c, "answer") /\ UNCHANGED vars
  <2>1. "answer" \in Stages \ Calling /\ phase = "up"
    BY <1>1, RequestValues DEF Stages, DispatchStages, HostStages, PluginStages, Calling, FailStages
  <2> QED
    BY <1>1, <1>2, <1>3, <2>1, SilentMove
<1>4. CASE Goto(c, "failing") /\ BeginFail(c, req[c].id)
  <2>1. "failing" \in Calling
    BY DEF Calling, FailStages
  <2> DEFINE r == [req[c] EXCEPT !.stage = "failing"]
  <2>2. RequestStep(c, r) /\ [Next]_vars /\ attempts' = attempts
    BY <1>2, <1>4, <2>1, BeginningStep
  <2>3. r.id = req[c].id
    BY RequestValues DEF Request
  <2>4. attempts \in [JobIDs -> Nat]
    BY AttemptsGrow
  <2> HIDE DEF r
  <2>5. Pays(c, r)
    BY <1>1, <1>2, <2>2, <2>3, <2>4, SilentStepPays
  <2> QED
    BY <2>2, <2>5 DEF Fine
<1> QED
  BY <1>3, <1>4 DEF Generate, QueueUnchanged

\* The plugin has sent its answer.
LEMMA AnswerStep ==
    ASSUME DispatchInvariant, NEW c \in Callers, Answer(c)
    PROVE  \E r : Fine(c, r)
<1>1. /\ req[c].stage = "answer"
      /\ replays' = replays
      /\ \/ replies' = replies
         \/ replies' = [replies EXCEPT ![req[c].id] = replies[req[c].id] + 1]
  BY DEF Answer, At, Reply, MaybeReply, NoReply
<1>2. req[c].stage \in DispatchStages /\ req[c].stage \notin Calling
  BY <1>1 DEF DispatchStages, HostStages, PluginStages, Calling, FailStages
<1>3. req[c].id \in JobIDs /\ req[c] \in Request /\ phase = "up"
  BY <1>1, <1>2, RequestValues
<1>4. req[c].id # NoID
  BY <1>3, NoIDAssumption DEF NoIDAssumption
<1>5. CASE Goto(c, "complete") /\ UNCHANGED vars
  <2> DEFINE r == [req[c] EXCEPT !.stage = "complete"]
  <2>1. "complete" \in Stages \ (Calling \cup AnswerStages)
    BY DEF Stages, DispatchStages, HostStages, PluginStages, Calling, FailStages, AnswerStages
  <2>2. r \in Request /\ req' = [req EXCEPT ![c] = r]
    BY <1>5, <2>1, RequestValues
  <2>3. r.stage = "complete" /\ r.id = req[c].id
    BY <1>3 DEF Request
  <2>4. attempts' = attempts
    BY <1>5, AttemptsGrow
  <2> HIDE DEF r
  <2>5. Pays(c, r)
    BY <1>1, <1>3, <2>1, <2>3, <2>4, ReplyPays
  <2>6. RequestStep(c, r) /\ [Next]_vars
    BY <1>2, <1>3, <1>4, <1>5, <2>1, <2>2, <2>3, QuietStep DEF Calling
  <2> QED
    BY <2>5, <2>6 DEF Fine
<1>6. CASE Goto(c, "failingAnswer") /\ BeginFail(c, req[c].id)
  <2>1. "failingAnswer" \in Calling /\ "failingAnswer" \notin AnswerStages
    BY DEF Calling, FailStages, AnswerStages
  <2> DEFINE r == [req[c] EXCEPT !.stage = "failingAnswer"]
  <2>2. RequestStep(c, r) /\ [Next]_vars /\ attempts' = attempts
    BY <1>2, <1>6, <2>1, BeginningStep
  <2>3. r.stage = "failingAnswer"
    BY <1>3 DEF Request
  <2> HIDE DEF r
  <2>4. Pays(c, r)
    BY <1>1, <1>3, <2>1, <2>2, <2>3, ReplyPays
  <2> QED
    BY <2>2, <2>4 DEF Fine
<1> QED
  BY <1>5, <1>6 DEF Answer, QueueUnchanged

\* The dispatcher looks after a lost run.
LEMMA LookAfterStep ==
    ASSUME DispatchInvariant, NEW c \in Callers, LookAfter(c)
    PROVE  \E r : Fine(c, r)
<1>1. req[c].stage = "lost" /\ NoReply
  BY DEF LookAfter, At
<1>2. req[c].stage \in DispatchStages /\ req[c].stage \notin Calling
  BY <1>1 DEF DispatchStages, Calling, FailStages
<1>3. CASE NextJob(c) /\ UNCHANGED vars
  BY <1>1, <1>2, <1>3, RequestValues, SilentMove
<1>4. CASE Goto(c, "charge") /\ BeginDispatchFailure(c, req[c].id)
  <2>1. "charge" \in Calling /\ "charge" \notin AnswerStages
    BY DEF Calling, AnswerStages
  <2> DEFINE r == [req[c] EXCEPT !.stage = "charge"]
  <2>2. RequestStep(c, r) /\ [Next]_vars /\ attempts' = attempts
    BY <1>2, <1>4, <2>1, BeginningStep
  <2>3. r.stage = "charge"
    BY RequestValues DEF Request
  <2>4. attempts \in [JobIDs -> Nat]
    BY AttemptsGrow
  <2> HIDE DEF r
  <2>5. Pays(c, r)
    BY <1>1, <2>1, <2>2, <2>3, <2>4, SilentStepPays
  <2> QED
    BY <2>2, <2>5 DEF Fine
<1> QED
  BY <1>3, <1>4 DEF LookAfter, QueueUnchanged

\* A Fail call ends, of the dispatcher or of the plugin.
LEMMA FailSteps ==
    ASSUME DispatchInvariant, NEW c \in Callers, Charge(c) \/ FailJob(c)
    PROVE  \E r : Fine(c, r)
<1>1. req[c].stage \in Calling /\ NoReply
  BY DEF Charge, FailJob, At, Calling
<1>2. req[c].id \in JobIDs /\ req[c].id # NoID
  BY <1>1, RequestValues, NoIDAssumption DEF NoIDAssumption, Calling, DispatchStages, HostStages
<1>3. (\E reason \in Errors : EndFail(c, reason)) \/ RefuseFail(c)
  BY DEF Charge, FailJob
<1>4. PICK r \in Request :
        /\ req' = [req EXCEPT ![c] = r]
        /\ \/ r.stage = "next"
           \/ r.stage \in {"ok", "error"} /\ r.id = req[c].id
           \/ r.stage = "bury" /\ r.id = req[c].id /\ req[c].stage = "failing"
  <2>1. CASE Charge(c)
    <3>1. [Idle EXCEPT !.stage = "next", !.todo = req[c].todo, !.gone = req[c].gone].stage = "next"
      BY DEF Idle
    <3> QED
      BY <2>1, <3>1, RequestValues DEF Charge, NextJob
  <2>2. CASE FailJob(c)
    <3>1. PICK stage \in {"ok", "error", "bury"} :
             Goto(c, stage) /\ (stage = "bury" => req[c].stage = "failing")
      BY <2>2 DEF FailJob, At
    <3>2. stage \in PluginStages
      BY <3>1 DEF PluginStages
    <3> QED
      BY <3>1, <3>2, StageValues
  <2> QED
    BY <2>1, <2>2
<1>5. /\ r.stage \notin Calling
      /\ r.stage \in AnswerStages => req[c].stage \in AnswerStages /\ r.id = req[c].id
  BY <1>4 DEF Calling, FailStages, AnswerStages
<1>6. r.stage \in DispatchStages \cup TimeoutStages => r.id # NoID
  BY <1>2, <1>4 DEF DispatchStages, HostStages, PluginStages, FailStages, TimeoutStages
<1>7. RequestStep(c, r) /\ [Next]_vars /\ attempts' = attempts
  BY <1>3, <1>4, <1>5, <1>6, EndingStep
<1>8. attempts \in [JobIDs -> Nat]
  BY AttemptsGrow
<1>9. Pays(c, r)
  BY <1>1, <1>5, <1>7, <1>8, SilentStepPays
<1> QED
  BY <1>7, <1>9 DEF Fine

-----------------------------------------------------------------------------
(* Every step *)

\* What the other steps do: a heartbeat, an operator, the process, the clock.
OtherSteps ==
    \/ \E c \in Callers : Beat(c)
    \/ \E id \in JobIDs : OperatorPause(id) \/ OperatorCancel(id)
    \/ ProcessDies \/ Start \/ Clock

\* A step is one of a request, or one of those.
LEMMA StepsOfDispatch ==
    ASSUME DispatchInvariant, DispatchNext
    PROVE  (\E c \in Callers : \E r : Fine(c, r)) \/ OtherSteps
<1>1. ASSUME NEW c \in Callers, Proceed(c)
      PROVE  \E r : Fine(c, r)
  BY <1>1, ListingSteps, HostSteps, ClaimStep, PluginSteps, GenerateStep, AnswerStep, FailSteps,
     BuryStep, LookAfterStep, TimeoutSteps DEF Proceed
<1>2. ASSUME NEW c \in Callers,
             \/ Replay(c) \/ Lose(c) \/ Leave(c) \/ OtherMessage(c)
             \/ \E id \in JobIDs :
                 \/ \E m \in RetryBudgets : Message(c, id, m)
                 \/ OperatorResume(c, id)
                 \/ OperatorRetry(c, id)
                 \/ RequestTimeout(c, id)
      PROVE  \E r : Fine(c, r)
  BY <1>2, ReplayStep, HostSteps, LeaveStep, Arrivals, ListingSteps
<1> QED
  BY <1>1, <1>2 DEF DispatchNext, OtherSteps

\* Those are steps of the queue that leave the requests alone, or end them all.
LEMMA OtherStepsOfQueue ==
    ASSUME DispatchInvariant, OtherSteps
    PROVE  /\ Next
           /\ replies' = replies /\ replays' = replays
           /\ \A k \in JobIDs : attempts'[k] >= attempts[k]
           /\ \/ req' = [c \in Callers |-> Idle] /\ failing' = [c \in Callers |-> NoCall]
              \/ /\ req' = req /\ failing' = failing
                 /\ phase = "up" => phase' = "up"
<1>1. attempts \in [JobIDs -> Nat]
  BY AttemptsGrow
<1>2. ASSUME NEW c \in Callers, Beat(c)
      PROVE  \E id \in JobIDs : QuietOperation(id) /\ UNCHANGED dispatch
  BY <1>2, RequestValues DEF Beat, QuietOperation
<1>3. CASE \E id \in JobIDs : QuietOperation(id) /\ UNCHANGED dispatch
  BY <1>3, QuietOperations, QuietSteps, AttemptsGrow DEF dispatch
<1>4. CASE ProcessDies
  BY <1>1, <1>4 DEF ProcessDies, Crash, Next, NoReply, history
<1>5. CASE Start
  BY <1>1, <1>5 DEF Start, BeginRestore, EndRestore, RecoverRow, Next, dispatch, memory, history
<1>6. CASE Clock
  BY <1>1, <1>6 DEF Clock, Tick, Next, dispatch, memory, history
<1> QED
  BY <1>2, <1>3, <1>4, <1>5, <1>6 DEF OtherSteps, OperatorPause, OperatorCancel, QuietOperation

\* A step of a request keeps the invariant of the queue and the types.
LEMMA FineStepKeeps ==
    ASSUME DispatchInvariant, NEW c \in Callers, NEW r, Fine(c, r)
    PROVE  DispatchInvariant' /\ [Next]_vars
<1>1. RequestStep(c, r) /\ Pays(c, r) /\ [Next]_vars
  BY DEF Fine
<1>2. DispatchTypeOK'
  BY <1>1, RequestStepKeepsTypes DEF Pays
<1>3. QueueInvariant'
  BY <1>1, NextInvariant DEF DispatchInvariant
<1> QED
  BY <1>1, <1>2, <1>3 DEF DispatchInvariant

\* So does every step.
LEMMA InvariantKept ==
    ASSUME DispatchInvariant, [DispatchNext]_dvars
    PROVE  DispatchInvariant' /\ [Next]_vars
<1>1. CASE OtherSteps
  <2>1. Next /\ QueueInvariant'
    BY <1>1, OtherStepsOfQueue, NextInvariant DEF DispatchInvariant
  <2>2. DispatchTypeOK'
    <3>1. DispatchTypeOK
      BY DEF DispatchInvariant
    <3>2. CASE req' = [c \in Callers |-> Idle] /\ failing' = [c \in Callers |-> NoCall]
      <4>1. Idle \in Request /\ Idle.stage = "idle"
        BY DEF Idle, Request, Stages, Replays
      <4>2. Idle.stage \notin Calling \cup DispatchStages \cup TimeoutStages
        BY <4>1 DEF Calling, FailStages, DispatchStages, HostStages, PluginStages, TimeoutStages
      <4>3. /\ req' \in [Callers -> Request]
            /\ \A c \in Callers : req'[c] = Idle /\ failing'[c] = NoCall
        BY <3>2, <4>1
      <4> QED
        BY <1>1, <3>1, <4>1, <4>2, <4>3, OtherStepsOfQueue DEF DispatchTypeOK, At, Calling
    <3>3. CASE req' = req /\ failing' = failing /\ (phase = "up" => phase' = "up")
      BY <1>1, <3>1, <3>3, OtherStepsOfQueue DEF DispatchTypeOK, At
    <3> QED
      BY <1>1, <3>2, <3>3, OtherStepsOfQueue
  <2> QED
    BY <2>1, <2>2 DEF DispatchInvariant
<1>2. CASE UNCHANGED dvars
  <2>1. UNCHANGED vars /\ UNCHANGED dispatch
    BY <1>2 DEF dvars
  <2>2. QueueInvariant'
    BY <2>1, NextInvariant DEF DispatchInvariant
  <2>3. DispatchTypeOK'
    BY <2>1 DEF DispatchInvariant, DispatchTypeOK, At, dispatch, vars, memory
  <2> QED
    BY <2>1, <2>2, <2>3 DEF DispatchInvariant
<1> QED
  BY <1>1, <1>2, FineStepKeeps, StepsOfDispatch

\* The first state is a first state of the queue, with no request under way.
LEMMA InvariantStarts ==
    DispatchInit => DispatchInvariant /\ Init
<1> SUFFICES ASSUME DispatchInit PROVE DispatchInvariant /\ Init
  OBVIOUS
<1>1. Init /\ QueueInvariant
  BY InitInvariant DEF DispatchInit
<1>2. Idle \in Request /\ Idle.stage = "idle"
  BY DEF Idle, Request, Stages, Replays
<1>3. Idle.stage \notin Calling \cup DispatchStages \cup TimeoutStages
  BY <1>2 DEF Calling, FailStages, DispatchStages, HostStages, PluginStages, TimeoutStages
<1>4. \A c \in Callers : req[c] = Idle /\ failing[c] = NoCall
  BY DEF DispatchInit, Init
<1>5. DispatchTypeOK
  BY <1>2, <1>3, <1>4 DEF DispatchInit, NoEntries, DispatchTypeOK, At, Calling
<1> QED
  BY <1>1, <1>5 DEF DispatchInvariant

\* The types of the requests, the invariant of the queue and the queue's own
\* steps: dispatching stays within what the queue does.
THEOREM DispatchKeepsInvariant == DispatchSpec => []DispatchInvariant
<1>1. DispatchInvariant /\ [DispatchNext]_dvars => DispatchInvariant'
  BY InvariantKept
<1> QED
  BY <1>1, InvariantStarts, PTL DEF DispatchSpec

\* A Fail call is open exactly while its request is in the middle of one.
THEOREM DispatchTypeCorrect == DispatchSpec => []DispatchTypeOK
  BY DispatchKeepsInvariant, PTL DEF DispatchInvariant

\* Dispatching is built from the queue's own actions, so all that is proved of
\* JobQueue holds here.
LEMMA DispatchesByTheQueue == DispatchSpec => Spec
<1>1. DispatchInvariant /\ [DispatchNext]_dvars => [Next]_vars
  BY InvariantKept
<1>2. DispatchInit => Init
  BY InvariantStarts
<1> QED
  BY <1>1, <1>2, DispatchKeepsInvariant, PTL DEF DispatchSpec, Spec

\* The whole chain: requests of clients, the plugin, its subprocess and the
\* process together change the tables only as the ledger allows.
THEOREM DispatchImplementsLedger == DispatchSpec => ImplementsLedger
BY DispatchesByTheQueue, LedgerImplemented, PTL

-----------------------------------------------------------------------------
(* Replies *)

\* The requests that owe a reply, one of them set apart.
LEMMA OwingSplit ==
    ASSUME NEW c \in Callers, NEW owing \in SUBSET Callers
    PROVE  /\ Cardinality(owing) \in Nat /\ Cardinality(owing \ {c}) \in Nat
           /\ Cardinality(owing) = Cardinality(owing \ {c}) + (IF c \in owing THEN 1 ELSE 0)
<1>1. IsFiniteSet(owing)
  BY FS_Subset, CallersAssumption DEF CallersAssumption
<1>2. IsFiniteSet(owing \ {c})
  BY <1>1, FS_RemoveElement
<1>3. Cardinality(owing) \in Nat /\ Cardinality(owing \ {c}) \in Nat
  BY <1>1, <1>2, FS_CardinalityType
<1>4. Cardinality(owing \ {c}) = IF c \in owing THEN Cardinality(owing) - 1 ELSE Cardinality(owing)
  BY <1>1, FS_RemoveElement
<1> QED
  BY <1>3, <1>4

\* A step of a request that pays keeps replies covered.
LEMMA CoverKeptByRequests ==
    ASSUME DispatchInvariant, RepliesCovered, NEW c \in Callers, NEW r, Fine(c, r)
    PROVE  RepliesCovered'
<1>1. req \in [Callers -> Request] /\ req' = [req EXCEPT ![c] = r] /\ Pays(c, r)
  BY DEF Fine, RequestStep, DispatchInvariant, DispatchTypeOK
<1>2. /\ replies \in [JobIDs -> Nat] /\ replays \in [JobIDs -> Nat] /\ attempts \in [JobIDs -> Nat]
      /\ replies' \in [JobIDs -> Nat] /\ replays' \in [JobIDs -> Nat] /\ attempts' \in [JobIDs -> Nat]
  <2>1. DispatchInvariant'
    BY FineStepKeeps
  <2> QED
    BY <1>1, <2>1, AttemptsGrow DEF DispatchInvariant, DispatchTypeOK, QueueInvariant, TypeOK
<1> SUFFICES ASSUME NEW id \in JobIDs
             PROVE  replies'[id] + Cardinality(Owing(id)') =< attempts'[id] + replays'[id]
  BY DEF RepliesCovered
<1> DEFINE before == Owing(id)
           after  == Owing(id)'
           others == before \ {c}
<1>3. before \in SUBSET Callers /\ after \in SUBSET Callers
  BY DEF Owing
<1>4. after \ {c} = others
  BY <1>1 DEF Owing
<1>5. /\ (IF c \in before THEN 1 ELSE 0) = Debt(req[c], id)
      /\ (IF c \in after THEN 1 ELSE 0) = Debt(r, id)
  BY <1>1 DEF Owing, Debt
<1>6. replies[id] + Cardinality(before) =< attempts[id] + replays[id]
  BY DEF RepliesCovered
<1>7. replies'[id] + Debt(r, id) + attempts[id] + replays[id]
        =< replies[id] + Debt(req[c], id) + attempts'[id] + replays'[id]
  BY <1>1 DEF Pays
<1> HIDE DEF before, after, others
<1>8. /\ Cardinality(others) \in Nat
      /\ Cardinality(before) = Cardinality(others) + Debt(req[c], id)
      /\ Cardinality(after) = Cardinality(others) + Debt(r, id)
  BY <1>3, <1>4, <1>5, OwingSplit DEF others
<1>9. Debt(r, id) \in {0, 1} /\ Debt(req[c], id) \in {0, 1}
  BY DebtValues
<1>10. replies'[id] + Cardinality(after) =< attempts'[id] + replays'[id]
  BY <1>2, <1>6, <1>7, <1>8, <1>9
<1> QED
  BY <1>10 DEF after

\* The other steps send nothing, and at most end requests.
LEMMA CoverKeptByOthers ==
    ASSUME DispatchInvariant, RepliesCovered, OtherSteps
    PROVE  RepliesCovered'
<1>1. /\ replies' = replies /\ replays' = replays
      /\ \A k \in JobIDs : attempts'[k] >= attempts[k]
      /\ req' = [c \in Callers |-> Idle] \/ req' = req
      /\ Next
  BY OtherStepsOfQueue
<1>2. /\ replies \in [JobIDs -> Nat] /\ replays \in [JobIDs -> Nat] /\ attempts \in [JobIDs -> Nat]
      /\ attempts' \in [JobIDs -> Nat]
  <2>1. QueueInvariant'
    BY <1>1, NextInvariant DEF DispatchInvariant
  <2> QED
    BY <2>1 DEF DispatchInvariant, DispatchTypeOK, QueueInvariant, TypeOK
<1> SUFFICES ASSUME NEW id \in JobIDs
             PROVE  replies'[id] + Cardinality(Owing(id)') =< attempts'[id] + replays'[id]
  BY DEF RepliesCovered
<1>3. replies[id] + Cardinality(Owing(id)) =< attempts[id] + replays[id]
  BY DEF RepliesCovered
<1>4. Owing(id)' = Owing(id) \/ Owing(id)' = {}
  <2>1. Idle.stage \notin AnswerStages
    BY DEF Idle, AnswerStages
  <2> QED
    BY <1>1, <2>1 DEF Owing
<1>5. Cardinality(Owing(id)) \in Nat /\ Cardinality({}) = 0
  <2>1. IsFiniteSet(Owing(id))
    BY FS_Subset, CallersAssumption DEF CallersAssumption, Owing
  <2> QED
    BY <2>1, FS_CardinalityType, FS_EmptySet
<1>6. Cardinality(Owing(id)') \in Nat /\ Cardinality(Owing(id)') =< Cardinality(Owing(id))
  BY <1>4, <1>5
<1> QED
  BY <1>1, <1>2, <1>3, <1>5, <1>6

\* No reply is sent, and none can still be sent, that no attempt and no replay
\* pays for.
THEOREM RepliesStayCovered == DispatchSpec => []RepliesCovered
<1>1. DispatchInit => RepliesCovered
  <2> SUFFICES ASSUME DispatchInit, NEW id \in JobIDs
               PROVE  replies[id] + Cardinality(Owing(id)) =< attempts[id] + replays[id]
    BY DEF RepliesCovered
  <2>1. replies[id] = 0 /\ replays[id] = 0 /\ attempts[id] = 0
    BY DEF DispatchInit, Init, NoEntries
  <2>2. Idle.stage \notin AnswerStages
    BY DEF Idle, AnswerStages
  <2>3. Owing(id) = {}
    BY <2>2 DEF DispatchInit, Owing
  <2> QED
    BY <2>1, <2>3, FS_EmptySet
<1>2. DispatchInvariant /\ RepliesCovered /\ [DispatchNext]_dvars => RepliesCovered'
  <2> SUFFICES ASSUME DispatchInvariant, RepliesCovered, [DispatchNext]_dvars
               PROVE  RepliesCovered'
    OBVIOUS
  <2>1. CASE UNCHANGED dvars
    BY <2>1 DEF RepliesCovered, Owing, dvars, dispatch, vars, history
  <2> QED
    BY <2>1, StepsOfDispatch, CoverKeptByRequests, CoverKeptByOthers
<1> QED
  BY <1>1, <1>2, DispatchKeepsInvariant, PTL DEF DispatchSpec

\* However a job is claimed, lost, timed out and claimed again, the user gets at
\* most one reply per attempt and one more per replay.
THEOREM RepliesArePaidFor == DispatchSpec => []RepliesPaidFor
<1>1. DispatchInvariant /\ RepliesCovered => RepliesPaidFor
  <2> SUFFICES ASSUME DispatchInvariant, RepliesCovered, NEW id \in JobIDs
               PROVE  replies[id] =< attempts[id] + replays[id]
    BY DEF RepliesPaidFor
  <2>1. replies[id] + Cardinality(Owing(id)) =< attempts[id] + replays[id]
    BY DEF RepliesCovered
  <2>2. Cardinality(Owing(id)) \in Nat
    <3>1. IsFiniteSet(Owing(id))
      BY FS_Subset, CallersAssumption DEF CallersAssumption, Owing
    <3> QED
      BY <3>1, FS_CardinalityType
  <2>3. replies[id] \in Nat /\ attempts[id] \in Nat /\ replays[id] \in Nat
    BY DEF DispatchInvariant, DispatchTypeOK, QueueInvariant, TypeOK
  <2> QED
    BY <2>1, <2>2, <2>3
<1> QED
  BY <1>1, DispatchKeepsInvariant, RepliesStayCovered, PTL

-----------------------------------------------------------------------------
(* Answers.  Only Complete makes a job done, only a request in stage          *)
(* "complete" calls it, and a request gets there only by sending an answer.   *)

IsDone(row) == row # NoJob /\ row.status = "done"

NothingNewDone == \A k \in JobIDs : IsDone(storedJobs'[k]) => IsDone(storedJobs[k])

\* It is enough to look at the row that is written.
LEMMA UnfinishedWrite ==
    ASSUME QueueInvariant, NEW id \in JobIDs, NEW new,
           storedJobs' = [storedJobs EXCEPT ![id] = new], new.status # "done"
    PROVE  NothingNewDone
<1>1. storedJobs \in [JobIDs -> Job \cup {NoJob}]
  BY DEF QueueInvariant, TypeOK, Rows
<1>2. \A k \in JobIDs : storedJobs'[k] = IF k = id THEN new ELSE storedJobs[k]
  BY <1>1
<1> QED
  BY <1>2 DEF NothingNewDone, IsDone

\* A step that writes no row finishes none.
LEMMA UnwrittenRows ==
    ASSUME UNCHANGED storedJobs PROVE NothingNewDone
  BY DEF NothingNewDone

UnfinishedOperation(id) ==
    \/ \E m \in RetryBudgets : Enqueue(id, m)
    \/ Heartbeat(id) \/ MarkRunning(id) \/ Timeout(id)
    \/ RetryDeadLetter(id) \/ Pause(id) \/ Resume(id) \/ Cancel(id)

\* A failed job retries or dies.
LEMMA UnfinishedFailure ==
    ASSUME QueueInvariant, NEW id \in JobIDs, NEW reason, NEW code,
           failWithReasonCode(id, reason, code)
    PROVE  NothingNewDone
<1> DEFINE new == FailedJob(jobs[id], now, reason, code)
<1>1. Serving(id) /\ storedJobs' = [storedJobs EXCEPT ![id] = new]
  BY DEF failWithReasonCode, persistJob, persistDeadLetter
<1>2. jobs[id] \in Job
  BY <1>1, ServedJob
<1>3. new.status \in {"retrying", "dead"}
  BY <1>2 DEF FailedJob, Job, Transition, applyFailureMetadata, clearJobOwnership
<1> HIDE DEF new
<1> QED
  BY <1>1, <1>3, UnfinishedWrite

\* No operation but Complete makes a job done.
LEMMA UnfinishedOperations ==
    ASSUME QueueInvariant, NEW id \in JobIDs, UnfinishedOperation(id)
    PROVE  NothingNewDone
<1>1. ASSUME NEW m \in RetryBudgets, Enqueue(id, m) PROVE NothingNewDone
  <2>1. storedJobs' = [storedJobs EXCEPT ![id] = NewJob(m)] /\ NewJob(m).status = "pending"
    BY <1>1 DEF Enqueue, persistJob, NewJob
  <2> QED
    BY <2>1, UnfinishedWrite
<1>2. ASSUME Serving(id) PROVE jobs[id] \in Job /\ now \in Nat
  BY <1>2, ServedJob
<1>3. CASE Heartbeat(id)
  <2> DEFINE new == renewLease(jobs[id], now)
  <2>1. /\ Serving(id) /\ jobs[id].status = "running"
        /\ storedJobs' = [storedJobs EXCEPT ![id] = new]
    BY <1>3 DEF Heartbeat, persistJob
  <2>2. new.status = "running"
    BY <1>2, <2>1 DEF renewLease, Job
  <2> HIDE DEF new
  <2> QED
    BY <2>1, <2>2, UnfinishedWrite
<1>4. CASE MarkRunning(id)
  <2> DEFINE new == Run(jobs[id], now)
  <2>1. /\ Serving(id) /\ CanTransitionTo(jobs[id], "running")
        /\ storedJobs' = [storedJobs EXCEPT ![id] = new]
    BY <1>4 DEF MarkRunning, persistJob, Run
  <2>2. new.status = "running"
    BY <1>2, <2>1, RunningRow
  <2> HIDE DEF new
  <2> QED
    BY <2>1, <2>2, UnfinishedWrite
<1>5. CASE Timeout(id)
  BY <1>5, UnfinishedFailure DEF Timeout
<1>6. CASE RetryDeadLetter(id)
  <2> DEFINE new == reviveDeadLetterJob(jobs[id])
  <2>1. /\ Serving(id) /\ jobs[id].status = "dead"
        /\ storedJobs' = [storedJobs EXCEPT ![id] = new]
    BY <1>6 DEF RetryDeadLetter, persistDeadLetterRetry
  <2>2. new.status = "pending"
    BY <1>2, <2>1, RevivedRow
  <2> HIDE DEF new
  <2> QED
    BY <2>1, <2>2, UnfinishedWrite
<1>7. ASSUME NEW status \in {"paused", "cancelled"}, Serving(id),
             storedJobs' = [storedJobs EXCEPT ![id] = Put(jobs[id], status, now)]
      PROVE  NothingNewDone
  <2> DEFINE new == Put(jobs[id], status, now)
  <2>1. new.status # "done"
    BY <1>2, <1>7, PutFields
  <2> HIDE DEF new
  <2> QED
    BY <1>7, <2>1, UnfinishedWrite DEF new
<1>9. CASE Pause(id)
  BY <1>7, <1>9 DEF Pause, persistJob, Put
<1>10. CASE Cancel(id)
  BY <1>7, <1>10 DEF Cancel, persistJob, Put
<1>8. CASE Resume(id)
  <2> DEFINE new == Resumed(jobs[id], now)
  <2>1. /\ Serving(id) /\ jobs[id].status = "paused"
        /\ storedJobs' = [storedJobs EXCEPT ![id] = new]
    BY <1>8 DEF Resume, persistJob
  <2>2. new.status \in {"pending", "retrying"}
    BY <1>2, <2>1, ResumedRow
  <2> HIDE DEF new
  <2> QED
    BY <2>1, <2>2, UnfinishedWrite
<1> QED
  BY <1>1, <1>3, <1>4, <1>5, <1>6, <1>8, <1>9, <1>10 DEF UnfinishedOperation

\* Neither do the two halves of Fail, nor the process and the clock.
LEMMA UnfinishedSteps ==
    ASSUME DispatchInvariant
    PROVE  /\ \A c \in Callers, id \in JobIDs :
                 BeginFail(c, id) \/ BeginDispatchFailure(c, id) => NothingNewDone
           /\ \A c \in Callers, reason \in Errors :
                 EndFail(c, reason) \/ RefuseFail(c) => NothingNewDone
           /\ ProcessDies \/ Start \/ Clock => NothingNewDone
           /\ UNCHANGED vars => NothingNewDone
<1>0. QueueInvariant
  BY DEF DispatchInvariant
<1>1. ASSUME NEW c \in Callers, NEW id \in JobIDs, BeginFail(c, id) \/ BeginDispatchFailure(c, id)
      PROVE  NothingNewDone
  BY <1>1, UnwrittenRows DEF BeginFail, BeginDispatchFailure, store
<1>2. ASSUME NEW c \in Callers, NEW reason \in Errors, EndFail(c, reason) \/ RefuseFail(c)
      PROVE  NothingNewDone
  <2>1. CASE EndFail(c, reason)
    <3>1. failing[c].id \in JobIDs
      BY <1>0, <2>1 DEF EndFail, QueueInvariant, TypeOK, Calls
    <3> QED
      BY <1>0, <2>1, <3>1, UnfinishedFailure DEF EndFail
  <2>2. CASE RefuseFail(c)
    BY <2>2, UnwrittenRows DEF RefuseFail, store
  <2> QED
    BY <1>2, <2>1, <2>2
<1>3. ASSUME NEW id \in JobIDs, NEW reason \in Errors, RecoverRow(id, reason)
      PROVE  NothingNewDone
  <2> DEFINE old == storedJobs[id]
             new == recoverJob(old, restoreAt, reason)
  <2>1. storedJobs' = [storedJobs EXCEPT ![id] = new] /\ id \in Known(storedJobs)
    BY <1>0, <1>3 DEF RecoverRow, QueueInvariant, RestoreSound
  <2>2. old \in Job /\ restoreAt \in Nat /\ old.status # "failed"
    BY <1>0, <2>1 DEF QueueInvariant, RowsSound, SoundLabels, TypeOK, Rows, Known
  <2>3. new = old \/ new.status \in {"retrying", "dead"}
    BY <2>2, RecoveredRow DEF AfterFailure
  <2> HIDE DEF new
  <2>4. CASE new = old
    <3>1. UNCHANGED storedJobs
      BY <1>0, <2>1, <2>4 DEF QueueInvariant, TypeOK, Rows
    <3> QED
      BY <3>1, UnwrittenRows
  <2>5. CASE new.status \in {"retrying", "dead"}
    BY <1>0, <2>1, <2>5, UnfinishedWrite
  <2> QED
    BY <2>3, <2>4, <2>5
<1>4. CASE Start
  BY <1>3, <1>4, UnwrittenRows DEF Start, BeginRestore, EndRestore, store
<1>5. CASE ProcessDies
  BY <1>5, UnwrittenRows DEF ProcessDies, Crash, store
<1>6. CASE Clock
  BY <1>6, UnwrittenRows DEF Clock, Tick, store
<1>7. CASE UNCHANGED vars
  BY <1>7, UnwrittenRows DEF vars, store
<1> QED
  BY <1>1, <1>2, <1>4, <1>5, <1>6, <1>7

\* A job that is done has been answered, and so has one about to be done.
AnswersComeFirst ==
    /\ \A id \in JobIDs : IsDone(storedJobs[id]) => replies[id] > 0
    /\ \A c \in Callers : req[c].stage = "complete" => replies[req[c].id] > 0

\* Replies are only added to.
RepliesGrow ==
    replies' \in [JobIDs -> Nat] /\ \A k \in JobIDs : replies'[k] >= replies[k]

\* Whether or not an answer goes out, and one that does is counted.
LEMMA SendingGrows ==
    ASSUME DispatchInvariant
    PROVE  /\ NoReply => RepliesGrow
           /\ \A id \in JobIDs : Reply(id) => RepliesGrow /\ replies'[id] > 0
           /\ \A id \in JobIDs : MaybeReply(id) => RepliesGrow
<1>1. replies \in [JobIDs -> Nat]
  BY DEF DispatchInvariant, DispatchTypeOK
<1>2. NoReply => RepliesGrow
  BY <1>1 DEF NoReply, RepliesGrow
<1>3. ASSUME NEW id \in JobIDs, Reply(id) PROVE RepliesGrow /\ replies'[id] > 0
  <2>1. \A k \in JobIDs : replies'[k] = IF k = id THEN replies[k] + 1 ELSE replies[k]
    BY <1>1, <1>3 DEF Reply
  <2>2. replies' \in [JobIDs -> Nat]
    BY <1>1, <1>3 DEF Reply
  <2>3. \A k \in JobIDs : replies'[k] >= replies[k]
    BY <1>1, <2>1
  <2>4. replies'[id] > 0
    BY <1>1, <2>1
  <2> QED
    BY <2>2, <2>3, <2>4 DEF RepliesGrow
<1> QED
  BY <1>2, <1>3 DEF MaybeReply

\* A request may come to completing a job only with the answer it sends.
Deserves(c, r) ==
    /\ req' = [req EXCEPT ![c] = r]
    /\ r.stage = "complete" =>
          \/ req[c].stage = "complete" /\ r.id = req[c].id
          \/ replies'[r.id] > 0

\* A step of a request that finishes nothing but what it has answered.
LEMMA DeservingStep ==
    ASSUME DispatchInvariant, AnswersComeFirst, NEW c \in Callers, NEW r,
           Deserves(c, r), RepliesGrow,
           \/ NothingNewDone
           \/ \E id \in JobIDs : Complete(id) /\ replies[id] > 0
    PROVE  AnswersComeFirst'
<1>1. req \in [Callers -> Request] /\ storedJobs \in [JobIDs -> Job \cup {NoJob}]
      /\ replies \in [JobIDs -> Nat]
  BY DEF DispatchInvariant, DispatchTypeOK, QueueInvariant, TypeOK, Rows
<1>2. ASSUME NEW id \in JobIDs, IsDone(storedJobs'[id])
      PROVE  replies'[id] > 0
  <2>1. CASE IsDone(storedJobs[id])
    BY <1>1, <2>1 DEF AnswersComeFirst, RepliesGrow
  <2>2. CASE ~IsDone(storedJobs[id])
    <3>1. PICK k \in JobIDs : Complete(k) /\ replies[k] > 0
      BY <1>2, <2>2 DEF NothingNewDone
    <3>2. storedJobs' = [storedJobs EXCEPT ![k] = storedJobs'[k]]
      BY <1>1, <3>1 DEF Complete, persistJob
    <3>3. id = k
      BY <1>1, <1>2, <2>2, <3>2
    <3> QED
      BY <1>1, <3>1, <3>3 DEF RepliesGrow
  <2> QED
    BY <2>1, <2>2
<1>3. ASSUME NEW d \in Callers, req'[d].stage = "complete"
      PROVE  replies'[req'[d].id] > 0
  <2>1. ASSUME req[d].stage = "complete", req'[d].id = req[d].id
        PROVE  replies'[req'[d].id] > 0
    <3>1. req[d].id \in JobIDs
      BY <2>1, RequestValues DEF DispatchStages, HostStages, PluginStages
    <3>2. replies[req[d].id] > 0
      BY <2>1 DEF AnswersComeFirst
    <3> QED
      BY <1>1, <2>1, <3>1, <3>2 DEF RepliesGrow
  <2>2. CASE d = c
    <3>1. req'[d] = r
      BY <1>1, <2>2 DEF Deserves
    <3> QED
      BY <1>3, <2>1, <2>2, <3>1 DEF Deserves
  <2>3. CASE d # c
    BY <1>1, <1>3, <2>1, <2>3 DEF Deserves
  <2> QED
    BY <2>2, <2>3
<1> QED
  BY <1>2, <1>3 DEF AnswersComeFirst

\* Going to any stage but "complete", leaving the job or leaving the request.
LEMMA DeservingMoves ==
    ASSUME DispatchInvariant, NEW c \in Callers,
           \/ NextJob(c) \/ Finish(c)
           \/ \E stage \in Stages \ {"complete"} : Goto(c, stage)
    PROVE  \E r : Deserves(c, r)
<1>1. ASSUME NEW stage \in Stages \ {"complete"}, Goto(c, stage) PROVE \E r : Deserves(c, r)
  <2> DEFINE r == [req[c] EXCEPT !.stage = stage]
  <2>1. req' = [req EXCEPT ![c] = r] /\ r.stage = stage
    BY <1>1, RequestValues DEF Request
  <2> HIDE DEF r
  <2> QED
    BY <1>1, <2>1 DEF Deserves
<1>2. ASSUME NextJob(c) PROVE \E r : Deserves(c, r)
  <2> DEFINE r == [Idle EXCEPT !.stage = "next", !.todo = req[c].todo, !.gone = req[c].gone]
  <2>1. req' = [req EXCEPT ![c] = r] /\ r.stage = "next"
    BY <1>2 DEF NextJob, Idle
  <2> HIDE DEF r
  <2> QED
    BY <2>1 DEF Deserves
<1>3. ASSUME Finish(c) PROVE \E r : Deserves(c, r)
  <2>1. req' = [req EXCEPT ![c] = Idle] /\ Idle.stage = "idle"
    BY <1>3 DEF Finish, Idle
  <2> QED
    BY <2>1 DEF Deserves
<1> QED
  BY <1>1, <1>2, <1>3

\* The steps of a request that go neither to "complete" nor from it.
PlainStep(c) ==
    \/ List(c) \/ EndRequest(c) \/ EnterHost(c) \/ Deny(c) \/ Inspect(c) \/ Mark(c)
    \/ Generate(c) \/ FailJob(c) \/ Bury(c) \/ Respond(c) \/ LookAfter(c) \/ Charge(c)
    \/ TimeoutClaim(c) \/ TimeoutJob(c) \/ Replay(c) \/ Lose(c) \/ OtherMessage(c)
    \/ \E id \in JobIDs :
        \/ Claim(c, id) \/ SkipClaim(c, id) \/ RequestTimeout(c, id)
        \/ OperatorResume(c, id) \/ OperatorRetry(c, id)
        \/ \E m \in RetryBudgets : Message(c, id, m)

\* They do no Complete.
LEMMA PlainStepsUnfinished ==
    ASSUME DispatchInvariant, NEW c \in Callers, PlainStep(c)
    PROVE  NothingNewDone
<1>1. CASE \/ List(c) \/ EndRequest(c) \/ EnterHost(c) \/ Deny(c) \/ Inspect(c) \/ Bury(c)
           \/ Respond(c) \/ Replay(c) \/ Lose(c) \/ OtherMessage(c)
           \/ \E id \in JobIDs : SkipClaim(c, id) \/ RequestTimeout(c, id)
  <2>1. UNCHANGED vars
    BY <1>1 DEF List, EndRequest, EnterHost, Deny, Inspect, Bury, Respond, Replay, Lose,
       OtherMessage, SkipClaim, RequestTimeout, QueueUnchanged
  <2> QED
    BY <2>1, UnfinishedSteps
<1>2. CASE \/ \E id \in JobIDs : \/ Claim(c, id) \/ OperatorResume(c, id) \/ OperatorRetry(c, id)
                                 \/ \E m \in RetryBudgets : Message(c, id, m)
  <2>1. \E id \in JobIDs : UnfinishedOperation(id)
    BY <1>2 DEF Claim, OperatorResume, OperatorRetry, Message, UnfinishedOperation
  <2> QED
    BY <2>1, UnfinishedOperations DEF DispatchInvariant
<1>3. CASE Mark(c) \/ TimeoutClaim(c) \/ TimeoutJob(c)
  <2>1. req[c].id \in JobIDs
    BY <1>3, RequestValues DEF Mark, TimeoutClaim, TimeoutJob, At, DispatchStages, HostStages,
       PluginStages, TimeoutStages
  <2>2. UNCHANGED vars \/ UnfinishedOperation(req[c].id)
    BY <1>3 DEF Mark, TimeoutClaim, TimeoutJob, QueueUnchanged, UnfinishedOperation
  <2> QED
    BY <2>1, <2>2, UnfinishedSteps, UnfinishedOperations DEF DispatchInvariant
<1>4. CASE Generate(c) \/ LookAfter(c)
  <2>1. req[c].id \in JobIDs
    BY <1>4, RequestValues DEF Generate, LookAfter, At, DispatchStages, HostStages, PluginStages
  <2>2. UNCHANGED vars \/ BeginFail(c, req[c].id) \/ BeginDispatchFailure(c, req[c].id)
    BY <1>4 DEF Generate, LookAfter, QueueUnchanged
  <2> QED
    BY <2>1, <2>2, UnfinishedSteps
<1>5. CASE FailJob(c) \/ Charge(c)
  <2>1. \E reason \in Errors : EndFail(c, reason) \/ RefuseFail(c)
    BY <1>5, IdentityAssumption DEF FailJob, Charge, IdentityAssumption
  <2> QED
    BY <2>1, UnfinishedSteps
<1> QED
  BY <1>1, <1>2, <1>3, <1>4, <1>5 DEF PlainStep

\* They go to other stages.
LEMMA PlainStepsDeserve ==
    ASSUME DispatchInvariant, NEW c \in Callers, PlainStep(c)
    PROVE  \E r : Deserves(c, r)
<1>0. req \in [Callers -> Request] /\ req[c] \in Request
  BY RequestValues
<1>1. CASE \E id \in JobIDs : Claim(c, id)
  <2>1. PICK id \in JobIDs : Claim(c, id)
    BY <1>1
  <2> DEFINE r == [req[c] EXCEPT !.stage = "waiting", !.todo = req[c].todo \ {id},
                                 !.id = id, !.attempt = attempts'[id]]
  <2>2. req' = [req EXCEPT ![c] = r] /\ r.stage = "waiting"
    BY <1>0, <2>1 DEF Claim, Request
  <2> HIDE DEF r
  <2> QED
    BY <2>2 DEF Deserves
<1>2. CASE \E id \in JobIDs : SkipClaim(c, id)
  <2>1. PICK id \in JobIDs : SkipClaim(c, id)
    BY <1>2
  <2> DEFINE r == [req[c] EXCEPT !.todo = req[c].todo \ {id}]
  <2>2. req' = [req EXCEPT ![c] = r] /\ r.stage = "next"
    BY <1>0, <2>1 DEF SkipClaim, Request, At
  <2> HIDE DEF r
  <2> QED
    BY <2>2 DEF Deserves
<1>3. CASE \E id \in JobIDs : RequestTimeout(c, id)
  <2>1. PICK id \in JobIDs : RequestTimeout(c, id)
    BY <1>3
  <2>2. PICK stage \in TimeoutStages :
          req' = [req EXCEPT ![c] = [req[c] EXCEPT !.id = id, !.stage = stage]]
    BY <2>1 DEF RequestTimeout, TimeoutStages
  <2> DEFINE r == [req[c] EXCEPT !.id = id, !.stage = stage]
  <2>3. r.stage # "complete"
    BY <1>0, <2>2 DEF Request, TimeoutStages
  <2> HIDE DEF r
  <2> QED
    BY <2>2, <2>3 DEF Deserves, r
<1>4. CASE Replay(c)
  <2>1. PICK how \in {"checked", "blind"} :
          req' = [req EXCEPT ![c] = [req[c] EXCEPT !.stage = "inspect", !.replay = how]]
    BY <1>4 DEF Replay
  <2> DEFINE r == [req[c] EXCEPT !.stage = "inspect", !.replay = how]
  <2>2. r.stage = "inspect"
    BY <1>0 DEF Request
  <2> HIDE DEF r
  <2> QED
    BY <2>1, <2>2 DEF Deserves, r
<1>5. CASE List(c)
  <2> DEFINE r == [req[c] EXCEPT !.stage = "next", !.todo = ReadyJobs]
  <2>1. req' = [req EXCEPT ![c] = r] /\ r.stage = "next"
    BY <1>0, <1>5 DEF List, Request
  <2> HIDE DEF r
  <2> QED
    BY <2>1 DEF Deserves
<1>6. CASE \/ EndRequest(c) \/ EnterHost(c) \/ Deny(c) \/ Inspect(c) \/ Mark(c)
           \/ Generate(c) \/ FailJob(c) \/ Bury(c) \/ Respond(c) \/ LookAfter(c) \/ Charge(c)
           \/ TimeoutClaim(c) \/ TimeoutJob(c) \/ Lose(c) \/ OtherMessage(c)
           \/ \E id \in JobIDs :
               \/ OperatorResume(c, id) \/ OperatorRetry(c, id)
               \/ \E m \in RetryBudgets : Message(c, id, m)
  <2> DEFINE others == {"list", "lost", "charge", "timeout", "inspect", "mark", "generate",
                        "answer", "bury", "ok", "error", "failing"}
  <2>1. others \subseteq Stages \ {"complete"}
    BY DEF Stages, DispatchStages, HostStages, PluginStages, FailStages, TimeoutStages
  <2>2. NextJob(c) \/ Finish(c) \/ \E stage \in others : Goto(c, stage)
    BY <1>6 DEF EndRequest, EnterHost, Deny, Inspect, Mark, Generate, FailJob, Bury, Respond,
       LookAfter, Charge, TimeoutClaim, TimeoutJob, Lose, OtherMessage, OperatorResume,
       OperatorRetry, Message
  <2> QED
    BY <2>1, <2>2, DeservingMoves
<1> QED
  BY <1>1, <1>2, <1>3, <1>4, <1>5, <1>6 DEF PlainStep

\* They send replies or none, and take none back.
LEMMA PlainStepsGrow ==
    ASSUME DispatchInvariant, NEW c \in Callers, PlainStep(c)
    PROVE  RepliesGrow
<1>1. CASE Bury(c)
  <2>1. req[c].id \in JobIDs
    BY <1>1, RequestValues DEF Bury, At, DispatchStages, HostStages, PluginStages
  <2> QED
    BY <1>1, <2>1, SendingGrows DEF Bury
<1>2. CASE Replay(c)
  BY <1>2 DEF Replay, RepliesGrow, DispatchInvariant, DispatchTypeOK
<1>3. CASE ~Bury(c) /\ ~Replay(c)
  <2>1. NoReply
    BY <1>3 DEF PlainStep, List, EndRequest, EnterHost, Deny, Inspect, Mark, Generate, FailJob,
       Respond, LookAfter, Charge, TimeoutClaim, TimeoutJob, Lose, OtherMessage, Claim,
       SkipClaim, RequestTimeout, OperatorResume, OperatorRetry, Message
  <2> QED
    BY <2>1, SendingGrows
<1> QED
  BY <1>1, <1>2, <1>3

\* The steps to, at and from "complete".
LEMMA AnsweringSteps ==
    ASSUME DispatchInvariant, AnswersComeFirst, NEW c \in Callers,
           Answer(c) \/ CompleteJob(c) \/ Leave(c)
    PROVE  AnswersComeFirst'
<1>0. /\ req \in [Callers -> Request] /\ req[c] \in Request
      /\ Answer(c) \/ CompleteJob(c) => req[c].id \in JobIDs
  BY RequestValues DEF Answer, CompleteJob, At, DispatchStages, HostStages, PluginStages
<1>1. CASE Answer(c)
  <2>1. CASE Goto(c, "complete") /\ QueueUnchanged /\ Reply(req[c].id)
    <3> DEFINE r == [req[c] EXCEPT !.stage = "complete"]
    <3>1. req' = [req EXCEPT ![c] = r] /\ r.id = req[c].id
      BY <1>0, <2>1 DEF Goto, Request
    <3>2. RepliesGrow /\ replies'[req[c].id] > 0
      BY <1>0, <1>1, <2>1, SendingGrows
    <3>3. NothingNewDone
      BY <2>1, UnfinishedSteps DEF QueueUnchanged
    <3> HIDE DEF r
    <3>4. Deserves(c, r)
      BY <3>1, <3>2 DEF Deserves
    <3> QED
      BY <3>2, <3>3, <3>4, DeservingStep
  <2>2. CASE Goto(c, "failingAnswer") /\ BeginFail(c, req[c].id) /\ MaybeReply(req[c].id)
    <3>1. RepliesGrow
      BY <1>0, <1>1, <2>2, SendingGrows
    <3>2. NothingNewDone
      BY <1>0, <1>1, <2>2, UnfinishedSteps
    <3>3. "failingAnswer" \in Stages \ {"complete"}
      BY DEF Stages, DispatchStages, HostStages, FailStages
    <3>4. \E r : Deserves(c, r)
      BY <2>2, <3>3, DeservingMoves
    <3> QED
      BY <3>1, <3>2, <3>4, DeservingStep
  <2> QED
    BY <1>1, <2>1, <2>2 DEF Answer
<1>2. CASE CompleteJob(c)
  <2>1. RepliesGrow
    BY <1>2, SendingGrows DEF CompleteJob
  <2>2. NothingNewDone \/ Complete(req[c].id)
    BY <1>2, UnfinishedSteps DEF CompleteJob, QueueUnchanged
  <2>3. replies[req[c].id] > 0
    BY <1>2 DEF AnswersComeFirst, CompleteJob, At
  <2>4. {"ok", "error"} \subseteq Stages \ {"complete"}
    BY DEF Stages, DispatchStages, HostStages, PluginStages
  <2>5. Goto(c, "ok") \/ Goto(c, "error")
    BY <1>2 DEF CompleteJob
  <2>6. \E r : Deserves(c, r)
    BY <2>4, <2>5, DeservingMoves
  <2> QED
    BY <1>0, <1>2, <2>1, <2>2, <2>3, <2>6, DeservingStep
<1>3. CASE Leave(c)
  <2> DEFINE r == [req[c] EXCEPT !.gone = TRUE]
  <2>1. req' = [req EXCEPT ![c] = r] /\ r.id = req[c].id /\ r.stage = req[c].stage
    BY <1>0, <1>3 DEF Leave, Request
  <2>2. RepliesGrow /\ NothingNewDone
    BY <1>3, SendingGrows, UnfinishedSteps DEF Leave, QueueUnchanged
  <2> HIDE DEF r
  <2>3. Deserves(c, r)
    BY <2>1 DEF Deserves
  <2> QED
    BY <2>2, <2>3, DeservingStep
<1> QED
  BY <1>1, <1>2, <1>3

\* Heartbeats, operators, the process and the clock answer nothing and finish
\* nothing.
LEMMA OthersAnswerNothing ==
    ASSUME DispatchInvariant, AnswersComeFirst, OtherSteps
    PROVE  AnswersComeFirst'
<1>1. NothingNewDone
  <2>1. ASSUME NEW c \in Callers, Beat(c) PROVE NothingNewDone
    <3>1. req[c].id \in JobIDs /\ UnfinishedOperation(req[c].id)
      BY <2>1, RequestValues DEF Beat, UnfinishedOperation
    <3> QED
      BY <3>1, UnfinishedOperations DEF DispatchInvariant
  <2>2. ASSUME NEW id \in JobIDs, OperatorPause(id) \/ OperatorCancel(id) PROVE NothingNewDone
    <3>1. UnfinishedOperation(id)
      BY <2>2 DEF OperatorPause, OperatorCancel, UnfinishedOperation
    <3> QED
      BY <3>1, UnfinishedOperations DEF DispatchInvariant
  <2> QED
    BY <2>1, <2>2, UnfinishedSteps DEF OtherSteps
<1>2. replies' = replies /\ (req' = [c \in Callers |-> Idle] \/ req' = req)
  BY OtherStepsOfQueue
<1>3. Idle.stage = "idle"
  BY DEF Idle
<1> QED
  BY <1>1, <1>2, <1>3 DEF AnswersComeFirst, NothingNewDone

\* A job that is done has been answered, whatever was lost, timed out or run
\* twice on the way.
THEOREM DoneJobsAreAnswered == DispatchSpec => []DoneIsAnswered
<1>1. DispatchInit => AnswersComeFirst
  <2>1. Idle.stage = "idle"
    BY DEF Idle
  <2> QED
    BY <2>1 DEF DispatchInit, Init, NoRows, AnswersComeFirst, IsDone
<1>2. DispatchInvariant /\ AnswersComeFirst /\ [DispatchNext]_dvars => AnswersComeFirst'
  <2> SUFFICES ASSUME DispatchInvariant, AnswersComeFirst, [DispatchNext]_dvars
               PROVE  AnswersComeFirst'
    OBVIOUS
  <2>1. ASSUME NEW c \in Callers, PlainStep(c) PROVE AnswersComeFirst'
    BY <2>1, PlainStepsUnfinished, PlainStepsDeserve, PlainStepsGrow, DeservingStep
  <2>2. ASSUME NEW c \in Callers, Answer(c) \/ CompleteJob(c) \/ Leave(c) PROVE AnswersComeFirst'
    BY <2>2, AnsweringSteps
  <2>3. CASE OtherSteps
    BY <2>3, OthersAnswerNothing
  <2>4. CASE UNCHANGED dvars
    BY <2>4 DEF AnswersComeFirst, dvars, vars, store, dispatch
  <2>5. DispatchNext => OtherSteps \/ \E c \in Callers :
                          PlainStep(c) \/ Answer(c) \/ CompleteJob(c) \/ Leave(c)
    BY DEF DispatchNext, Proceed, OtherSteps, PlainStep
  <2> QED
    BY <2>1, <2>2, <2>3, <2>4, <2>5
<1>3. AnswersComeFirst => DoneIsAnswered
  BY DEF AnswersComeFirst, DoneIsAnswered, InStatus, Known, IsDone
<1> QED
  BY <1>1, <1>2, <1>3, DispatchKeepsInvariant, PTL DEF DispatchSpec

-----------------------------------------------------------------------------
(* Execution, while nothing fails.  Among the requests that work on a running *)
(* job there is one that will not leave it running: it waits for its result   *)
(* or is about to fail it, or it is the one that claimed this very attempt.   *)

Reliable == ~StoreErrors /\ ~Disconnects
Healthy == Reliable /\ ~HostFailures

SureStages == {"inspect", "generate", "answer", "complete", "failing", "failingAnswer", "charge", "timeout"}
ClaimStages == {"waiting", "lost"}

Holds(r, id, attempt) ==
    /\ r.id = id
    /\ r.stage \in SureStages \/ (r.stage \in ClaimStages /\ r.attempt = attempt)

IsRunning(row) == row # NoJob /\ row.status = "running"

AllExecuted ==
    /\ \A c \in Callers : req[c].gone = FALSE
    /\ phase = "up" => \A id \in JobIDs : IsRunning(jobs[id]) =>
          \E c \in Callers : Holds(req[c], id, attempts[id])

\* After a step of one request, a running job is held by that request, or was
\* held before by another.
LEMMA HoldersKept ==
    ASSUME DispatchInvariant, AllExecuted, phase = "up",
           NEW c \in Callers, NEW r, req' = [req EXCEPT ![c] = r], r.gone = FALSE,
           \A id \in JobIDs : IsRunning(jobs'[id]) =>
              \/ Holds(r, id, attempts'[id])
              \/ /\ IsRunning(jobs[id]) /\ attempts'[id] = attempts[id]
                 /\ ~Holds(req[c], id, attempts[id])
    PROVE  AllExecuted'
<1>1. req \in [Callers -> Request]
  BY RequestValues
<1>2. \A d \in Callers : req'[d] = IF d = c THEN r ELSE req[d]
  BY <1>1
<1>3. \A d \in Callers : req'[d].gone = FALSE
  BY <1>2 DEF AllExecuted
<1>4. ASSUME NEW id \in JobIDs, IsRunning(jobs'[id])
      PROVE  \E d \in Callers : Holds(req'[d], id, attempts'[id])
  <2>1. CASE Holds(r, id, attempts'[id])
    BY <1>2, <2>1
  <2>2. CASE /\ IsRunning(jobs[id]) /\ attempts'[id] = attempts[id]
             /\ ~Holds(req[c], id, attempts[id])
    <3>1. PICK d \in Callers : Holds(req[d], id, attempts[id])
      BY <2>2 DEF AllExecuted
    <3>2. d # c
      BY <2>2, <3>1
    <3> QED
      BY <1>2, <2>2, <3>1, <3>2
  <2> QED
    BY <1>4, <2>1, <2>2
<1>5. \A id \in JobIDs : IsRunning(jobs'[id]) =>
        \E d \in Callers : Holds(req'[d], id, attempts'[id])
  BY <1>4
<1> QED
  BY <1>3, <1>5 DEF AllExecuted, Holds, IsRunning

\* A step that gives no job to an executor.
NothingNewRuns ==
    \A k \in JobIDs : IsRunning(jobs'[k]) => IsRunning(jobs[k]) /\ attempts'[k] = attempts[k]

LEMMA RestedWrite ==
    ASSUME QueueInvariant, NEW id \in JobIDs, NEW new, UNCHANGED history,
           jobs' = [jobs EXCEPT ![id] = new],
           new.status # "running" \/ IsRunning(jobs[id])
    PROVE  NothingNewRuns
<1>1. jobs \in [JobIDs -> Job \cup {NoJob}]
  BY DEF QueueInvariant, TypeOK, Rows
<1>2. \A k \in JobIDs : jobs'[k] = IF k = id THEN new ELSE jobs[k]
  BY <1>1
<1> QED
  BY <1>2 DEF NothingNewRuns, IsRunning, history

\* A job whose failure is written runs no more.
LEMMA FailureRests ==
    ASSUME QueueInvariant, NEW id \in JobIDs, NEW reason, NEW code,
           failWithReasonCode(id, reason, code)
    PROVE  NothingNewRuns /\ ~IsRunning(jobs'[id])
<1> DEFINE new == FailedJob(jobs[id], now, reason, code)
<1>1. Serving(id) /\ jobs' = [jobs EXCEPT ![id] = new] /\ UNCHANGED history
  BY DEF failWithReasonCode, persistJob, persistDeadLetter
<1>2. jobs[id] \in Job
  BY <1>1, ServedJob
<1>3. new.status \in {"retrying", "dead"}
  BY <1>2 DEF FailedJob, Job, Transition, applyFailureMetadata, clearJobOwnership
<1> HIDE DEF new
<1>4. jobs'[id] = new
  BY <1>1 DEF QueueInvariant, TypeOK, Rows
<1> QED
  BY <1>1, <1>3, <1>4, RestedWrite DEF IsRunning

RestingOperation(id) ==
    \/ \E m \in RetryBudgets : Enqueue(id, m)
    \/ Heartbeat(id) \/ Complete(id)
    \/ RetryDeadLetter(id) \/ Pause(id) \/ Resume(id) \/ Cancel(id)

\* No operation but MarkRunning gives a job to an executor.
LEMMA RestingOperations ==
    ASSUME QueueInvariant, NEW id \in JobIDs, RestingOperation(id)
    PROVE  NothingNewRuns /\ (Complete(id) => ~IsRunning(jobs'[id]))
<1>1. ASSUME NEW m \in RetryBudgets, Enqueue(id, m) PROVE NothingNewRuns
  <2> DEFINE new == NewJob(m)
  <2>1. jobs' = [jobs EXCEPT ![id] = new] /\ UNCHANGED history
    BY <1>1 DEF Enqueue, persistJob
  <2>2. new.status # "running"
    BY DEF NewJob
  <2> HIDE DEF new
  <2> QED
    BY <2>1, <2>2, RestedWrite
<1>2. ASSUME Serving(id) PROVE jobs[id] \in Job /\ now \in Nat
  BY <1>2, ServedJob
<1>3. ASSUME Heartbeat(id) PROVE NothingNewRuns
  <2> DEFINE new == renewLease(jobs[id], now)
  <2>1. IsRunning(jobs[id]) /\ jobs' = [jobs EXCEPT ![id] = new] /\ UNCHANGED history
    BY <1>3 DEF Heartbeat, persistJob, Serving, IsRunning
  <2> HIDE DEF new
  <2>2. new.status # "running" \/ IsRunning(jobs[id])
    BY <2>1
  <2>3. jobs' = [jobs EXCEPT ![id] = new] /\ UNCHANGED history
    BY <2>1
  <2> QED
    BY <2>2, <2>3, RestedWrite
<1>4. ASSUME NEW status \in {"paused", "cancelled", "done"}, Serving(id), UNCHANGED history,
             jobs' = [jobs EXCEPT ![id] = Put(jobs[id], status, now)]
      PROVE  NothingNewRuns /\ ~IsRunning(jobs'[id])
  <2> DEFINE new == Put(jobs[id], status, now)
  <2>1. new.status # "running"
    BY <1>2, <1>4, PutFields
  <2>2. jobs'[id] = new
    BY <1>4 DEF QueueInvariant, TypeOK, Rows
  <2>3. jobs' = [jobs EXCEPT ![id] = new]
    BY <1>4
  <2> HIDE DEF new
  <2> QED
    BY <1>4, <2>1, <2>2, <2>3, RestedWrite DEF IsRunning
<1>5. ASSUME Complete(id) PROVE NothingNewRuns /\ ~IsRunning(jobs'[id])
  BY <1>4, <1>5 DEF Complete, persistJob, Put
<1>6. ASSUME Pause(id) PROVE NothingNewRuns
  BY <1>4, <1>6 DEF Pause, persistJob, Put
<1>7. ASSUME Cancel(id) PROVE NothingNewRuns
  BY <1>4, <1>7 DEF Cancel, persistJob, Put
<1>8. ASSUME RetryDeadLetter(id) PROVE NothingNewRuns
  <2> DEFINE new == reviveDeadLetterJob(jobs[id])
  <2>1. /\ Serving(id) /\ jobs[id].status = "dead"
        /\ jobs' = [jobs EXCEPT ![id] = new] /\ attempts' = attempts
    BY <1>8 DEF RetryDeadLetter, persistDeadLetterRetry
  <2>2. new.status = "pending"
    BY <1>2, <2>1, RevivedRow
  <2> HIDE DEF new
  <2>3. \A k \in JobIDs : jobs'[k] = IF k = id THEN new ELSE jobs[k]
    BY <2>1 DEF QueueInvariant, TypeOK, Rows
  <2> QED
    BY <2>1, <2>2, <2>3 DEF NothingNewRuns, IsRunning
<1>9. ASSUME Resume(id) PROVE NothingNewRuns
  <2> DEFINE new == Resumed(jobs[id], now)
  <2>1. /\ Serving(id) /\ jobs[id].status = "paused"
        /\ jobs' = [jobs EXCEPT ![id] = new] /\ UNCHANGED history
    BY <1>9 DEF Resume, persistJob
  <2>2. new.status # "running" \/ IsRunning(jobs[id])
    BY <1>2, <2>1, ResumedRow
  <2> HIDE DEF new
  <2>3. jobs' = [jobs EXCEPT ![id] = new] /\ UNCHANGED history
    BY <2>1
  <2> QED
    BY <2>2, <2>3, RestedWrite
<1> QED
  BY <1>1, <1>3, <1>5, <1>6, <1>7, <1>8, <1>9 DEF RestingOperation

\* A claim runs one job that did not run.
LEMMA ClaimedRow ==
    ASSUME QueueInvariant, NEW id \in JobIDs, MarkRunning(id)
    PROVE  \A k \in JobIDs : k # id =>
              /\ jobs'[k] = jobs[k]
              /\ attempts'[k] = attempts[k]
<1>1. jobs \in [JobIDs -> Job \cup {NoJob}] /\ attempts \in [JobIDs -> Nat]
  BY DEF QueueInvariant, TypeOK, Rows
<1> QED
  BY <1>1 DEF MarkRunning, persistJob

\* Steps that write no row in memory.
LEMMA SameRows ==
    ASSUME UNCHANGED jobs, UNCHANGED attempts PROVE NothingNewRuns
  BY DEF NothingNewRuns

\* The two halves of Fail.
LEMMA CallsRest ==
    ASSUME DispatchInvariant, NEW c \in Callers
    PROVE  /\ UNCHANGED vars => NothingNewRuns
           /\ \A id \in JobIDs :
                 BeginFail(c, id) \/ BeginDispatchFailure(c, id) => NothingNewRuns
           /\ RefuseFail(c) => NothingNewRuns /\ jobs' = jobs
           /\ \A reason \in Errors : EndFail(c, reason) =>
                 NothingNewRuns /\ ~IsRunning(jobs'[req[c].id])
<1>1. ASSUME NEW reason \in Errors, EndFail(c, reason)
      PROVE  NothingNewRuns /\ ~IsRunning(jobs'[req[c].id])
  <2>1. failing[c] # NoCall /\ failWithReasonCode(failing[c].id, reason, failing[c].reasonCode)
    BY <1>1 DEF EndFail
  <2>2. failing[c].id \in JobIDs /\ failing[c].id = req[c].id
    BY <2>1 DEF DispatchInvariant, DispatchTypeOK, QueueInvariant, TypeOK, Calls
  <2> QED
    BY <2>1, <2>2, FailureRests DEF DispatchInvariant
<1>2. UNCHANGED vars => NothingNewRuns
  BY SameRows DEF vars, memory, history
<1>3. \A id \in JobIDs : BeginFail(c, id) \/ BeginDispatchFailure(c, id) => NothingNewRuns
  BY SameRows DEF BeginFail, BeginDispatchFailure, history
<1>4. RefuseFail(c) => NothingNewRuns /\ jobs' = jobs
  BY SameRows DEF RefuseFail, history
<1> QED
  BY <1>1, <1>2, <1>3, <1>4

\* The request stays a holder if it was one of a job that still runs.
Continues(c, r) ==
    req[c].id \in JobIDs /\ IsRunning(jobs'[req[c].id])
        /\ Holds(req[c], req[c].id, attempts[req[c].id])
      => Holds(r, req[c].id, attempts[req[c].id])

LEMMA ContinuingStep ==
    ASSUME DispatchInvariant, AllExecuted, phase = "up", NothingNewRuns,
           NEW c \in Callers, NEW r, req' = [req EXCEPT ![c] = r], r.gone = FALSE,
           Continues(c, r)
    PROVE  AllExecuted'
<1>1. ASSUME NEW id \in JobIDs, IsRunning(jobs'[id]), Holds(req[c], id, attempts[id])
      PROVE  Holds(r, id, attempts'[id])
  <2>1. req[c].id = id
    BY <1>1 DEF Holds
  <2> QED
    BY <1>1, <2>1 DEF Continues, NothingNewRuns
<1> QED
  BY <1>1, HoldersKept DEF NothingNewRuns

\* A request that holds nothing holds on to nothing.
LEMMA NothingHeld ==
    ASSUME NEW c \in Callers, NEW r, req[c].stage \notin SureStages \cup ClaimStages
    PROVE  Continues(c, r)
  BY DEF Continues, Holds

\* Going to another stage, leaving the job or leaving the request.
LEMMA ContinuingMoves ==
    ASSUME DispatchInvariant, AllExecuted, NEW c \in Callers, phase = "up", NothingNewRuns,
           \/ NextJob(c) \/ Finish(c)
           \/ \E stage \in Stages : Goto(c, stage),
           \/ req[c].stage \notin SureStages \cup ClaimStages
           \/ ~IsRunning(jobs'[req[c].id])
           \/ req[c].stage = "lost" /\ req[c].attempt # attempts[req[c].id]
           \/ \E stage \in Stages : /\ Goto(c, stage)
                                    /\ \/ stage \in SureStages
                                       \/ stage \in ClaimStages /\ req[c].stage \in ClaimStages
    PROVE  AllExecuted'
<1>0. req[c] \in Request /\ req[c].gone = FALSE
  BY RequestValues DEF AllExecuted
<1>1. ASSUME \/ req[c].stage \notin SureStages \cup ClaimStages
             \/ ~IsRunning(jobs'[req[c].id])
             \/ req[c].stage = "lost" /\ req[c].attempt # attempts[req[c].id],
             NEW r
      PROVE  Continues(c, r)
  BY <1>1 DEF Continues, Holds, SureStages
<1>2. ASSUME NEW stage \in Stages, Goto(c, stage)
      PROVE  AllExecuted'
  <2> DEFINE r == [req[c] EXCEPT !.stage = stage]
  <2>1. /\ req' = [req EXCEPT ![c] = r] /\ r.stage = stage
        /\ r.id = req[c].id /\ r.attempt = req[c].attempt /\ r.gone = FALSE
    BY <1>0, <1>2, RequestValues DEF Request
  <2> HIDE DEF r
  <2>2. ASSUME NEW other \in Stages, Goto(c, other)
        PROVE  other = stage
    <3>1. req' = [req EXCEPT ![c] = [req[c] EXCEPT !.stage = other]]
      BY <2>2, RequestValues
    <3>2. [req[c] EXCEPT !.stage = other].stage = other
      BY <1>0 DEF Request
    <3>3. req'[c] = r /\ req'[c] = [req[c] EXCEPT !.stage = other]
      BY <2>1, <3>1, RequestValues
    <3> QED
      BY <2>1, <3>2, <3>3
  <2>3. CASE stage \in SureStages \/ (stage \in ClaimStages /\ req[c].stage \in ClaimStages)
    <3>1. Continues(c, r)
      BY <2>1, <2>3 DEF Continues, Holds, SureStages, ClaimStages
    <3> QED
      BY <2>1, <3>1, ContinuingStep
  <2>4. CASE ~(stage \in SureStages \/ (stage \in ClaimStages /\ req[c].stage \in ClaimStages))
    <3>1. Continues(c, r)
      BY <1>1, <2>2, <2>4
    <3> QED
      BY <2>1, <3>1, ContinuingStep
  <2> QED
    BY <2>3, <2>4
<1>3. ASSUME NextJob(c) \/ Finish(c), ~\E stage \in Stages : Goto(c, stage)
      PROVE  AllExecuted'
  <2> DEFINE looping == [Idle EXCEPT !.stage = "next", !.todo = req[c].todo, !.gone = req[c].gone]
  <2>0. looping.gone = FALSE /\ Idle.gone = FALSE
    BY <1>0 DEF Idle
  <2>1. PICK r \in {looping, Idle} : req' = [req EXCEPT ![c] = r]
    BY <1>3 DEF NextJob, Finish
  <2> HIDE DEF looping
  <2>2. r.gone = FALSE
    BY <2>0, <2>1
  <2>3. Continues(c, r)
    BY <1>1, <1>3
  <2> QED
    BY <2>1, <2>2, <2>3, ContinuingStep
<1> QED
  BY <1>2, <1>3

\* Every write reaches the store and nobody leaves; without host failures, no
\* process dies.
LEMMA ReliableRequests ==
    ASSUME Reliable, AllExecuted, NEW c \in Callers
    PROVE  /\ Reaches(c) /\ ~MayRefuse(c) /\ ~Leave(c)
           /\ ~HostFailures => ~Lose(c)
<1>1. req[c].gone = FALSE
  BY DEF AllExecuted
<1> QED
  BY <1>1 DEF Reliable, Reaches, MayRefuse, Lose, Leave

\* The plugin works on a run that is not the one its dispatch claimed.
AtForeignRun(c) ==
    /\ IsRunning(jobs[req[c].id]) /\ req[c].attempt # attempts[req[c].id]
    /\ req[c].stage \in {"inspect", "generate", "answer", "complete"}

\* The process may die and stop answering, but not while it works on such a run.
LossesAreOwn == \A c \in Callers : AtForeignRun(c) => ~Lose(c)

\* Whoever claims a job holds it.
LEMMA ClaimedStep ==
    ASSUME DispatchInvariant, AllExecuted, NEW c \in Callers, NEW id \in JobIDs,
           MarkRunning(id), NEW r, req' = [req EXCEPT ![c] = r], r.gone = FALSE,
           Holds(r, id, attempts'[id]), req[c].stage \notin SureStages \cup ClaimStages
    PROVE  AllExecuted'
<1>1. phase = "up"
  BY DEF MarkRunning, Serving
<1>2. ASSUME NEW k \in JobIDs, IsRunning(jobs'[k])
      PROVE  \/ Holds(r, k, attempts'[k])
             \/ /\ IsRunning(jobs[k]) /\ attempts'[k] = attempts[k]
                /\ ~Holds(req[c], k, attempts[k])
  <2>1. k # id => jobs'[k] = jobs[k] /\ attempts'[k] = attempts[k]
    BY ClaimedRow DEF DispatchInvariant
  <2>2. ~Holds(req[c], k, attempts[k])
    BY DEF Holds
  <2> QED
    BY <1>2, <2>1, <2>2
<1> QED
  BY <1>1, <1>2, HoldersKept

LEMMA ClaimingSteps ==
    ASSUME DispatchInvariant, Reliable, AllExecuted, NEW c \in Callers,
           \/ \E id \in JobIDs : Claim(c, id)
           \/ Mark(c) \/ TimeoutClaim(c)
    PROVE  AllExecuted'
<1>0. /\ req \in [Callers -> Request] /\ req[c] \in Request /\ req[c].gone = FALSE
      /\ ~MayRefuse(c)
  BY RequestValues, ReliableRequests DEF AllExecuted
<1>1. ASSUME NEW id \in JobIDs, Claim(c, id) PROVE AllExecuted'
  <2> DEFINE r == [req[c] EXCEPT !.stage = "waiting", !.todo = @ \ {id},
                                 !.id = id, !.attempt = attempts'[id]]
  <2>1. /\ req' = [req EXCEPT ![c] = r] /\ r.gone = FALSE /\ r.stage = "waiting"
        /\ r.id = id /\ r.attempt = attempts'[id]
    BY <1>0, <1>1 DEF Claim, Request
  <2>2. MarkRunning(id) /\ req[c].stage \notin SureStages \cup ClaimStages
    BY <1>1 DEF Claim, At, SureStages, ClaimStages
  <2> HIDE DEF r
  <2>3. Holds(r, id, attempts'[id])
    BY <2>1 DEF Holds, ClaimStages
  <2> QED
    BY <2>1, <2>2, <2>3, ClaimedStep
<1>2. CASE Mark(c) \/ TimeoutClaim(c)
  <2>1. /\ req[c].id \in JobIDs /\ phase = "up"
        /\ req[c].stage \notin SureStages \cup ClaimStages
    BY <1>2, RequestValues DEF Mark, TimeoutClaim, At, DispatchStages, HostStages, PluginStages,
       TimeoutStages, SureStages, ClaimStages
  <2>2. {"generate", "timeout", "error"} \subseteq Stages
    BY DEF Stages, DispatchStages, HostStages, PluginStages, TimeoutStages
  <2>3. \/ /\ MarkRunning(req[c].id)
           /\ \E stage \in {"generate", "timeout"} : Goto(c, stage)
        \/ UNCHANGED vars /\ (Goto(c, "error") \/ Finish(c))
    BY <1>2 DEF Mark, TimeoutClaim, QueueUnchanged
  <2>4. ASSUME NEW stage \in {"generate", "timeout"}, MarkRunning(req[c].id), Goto(c, stage)
        PROVE  AllExecuted'
    <3> DEFINE r == [req[c] EXCEPT !.stage = stage]
    <3>1. /\ req' = [req EXCEPT ![c] = r] /\ r.gone = FALSE /\ r.stage = stage
          /\ r.id = req[c].id
      BY <1>0, <2>2, <2>4, RequestValues DEF Request
    <3> HIDE DEF r
    <3>2. \A n : Holds(r, req[c].id, n)
      BY <3>1 DEF Holds, SureStages
    <3> QED
      BY <2>1, <2>4, <3>1, <3>2, ClaimedStep
  <2>5. ASSUME UNCHANGED vars, Goto(c, "error") \/ Finish(c)
        PROVE  AllExecuted'
    <3>1. NothingNewRuns
      BY <2>5, CallsRest
    <3> QED
      BY <2>1, <2>2, <2>5, <3>1, ContinuingMoves
  <2> QED
    BY <2>3, <2>4, <2>5
<1> QED
  BY <1>1, <1>2

\* A request that works on no job takes one up, or a list of them.
LEMMA ListsAndTimeouts ==
    ASSUME DispatchInvariant, AllExecuted, NEW c \in Callers,
           List(c) \/ \E id \in JobIDs : SkipClaim(c, id) \/ RequestTimeout(c, id)
    PROVE  AllExecuted'
<1>0. /\ req \in [Callers -> Request] /\ req[c] \in Request /\ req[c].gone = FALSE
      /\ req[c].stage # "idle" => phase = "up"
  BY RequestValues DEF AllExecuted
<1>1. /\ UNCHANGED vars /\ phase = "up"
      /\ req[c].stage \notin SureStages \cup ClaimStages
  BY <1>0 DEF List, SkipClaim, RequestTimeout, QueueUnchanged, Serving, At, SureStages, ClaimStages
<1>2. \E r : req' = [req EXCEPT ![c] = r] /\ r.gone = FALSE
  <2>1. CASE List(c)
    <3> DEFINE r == [req[c] EXCEPT !.stage = "next", !.todo = ReadyJobs]
    <3>1. req' = [req EXCEPT ![c] = r] /\ r.gone = FALSE
      BY <1>0, <2>1 DEF List, Request
    <3> HIDE DEF r
    <3> QED
      BY <3>1
  <2>2. ASSUME NEW id \in JobIDs, SkipClaim(c, id)
        PROVE  \E r : req' = [req EXCEPT ![c] = r] /\ r.gone = FALSE
    <3> DEFINE r == [req[c] EXCEPT !.todo = @ \ {id}]
    <3>1. req' = [req EXCEPT ![c] = r] /\ r.gone = FALSE
      BY <1>0, <2>2 DEF SkipClaim, Request
    <3> HIDE DEF r
    <3> QED
      BY <3>1
  <2>3. ASSUME NEW id \in JobIDs, RequestTimeout(c, id)
        PROVE  \E r : req' = [req EXCEPT ![c] = r] /\ r.gone = FALSE
    <3> DEFINE stage == IF jobs[id].status = "pending" THEN "timeoutClaim" ELSE "timeout"
               r == [req[c] EXCEPT !.id = id, !.stage = stage]
    <3>1. req' = [req EXCEPT ![c] = r] /\ r.gone = FALSE
      BY <1>0, <2>3 DEF RequestTimeout, Request
    <3> HIDE DEF r
    <3> QED
      BY <3>1
  <2> QED
    BY <2>1, <2>2, <2>3
<1>3. NothingNewRuns
  BY <1>1, CallsRest
<1>4. PICK r : req' = [req EXCEPT ![c] = r] /\ r.gone = FALSE
  BY <1>2
<1>5. Continues(c, r)
  BY <1>1, NothingHeld
<1> QED
  BY <1>1, <1>3, <1>4, <1>5, ContinuingStep

\* A request that holds no job goes on.
LEMMA IdleMoves ==
    ASSUME DispatchInvariant, AllExecuted, NEW c \in Callers,
           \/ EndRequest(c) \/ Bury(c) \/ Respond(c) \/ OtherMessage(c)
           \/ \E id \in JobIDs :
               \/ OperatorResume(c, id) \/ OperatorRetry(c, id)
               \/ \E m \in RetryBudgets : Message(c, id, m)
    PROVE  AllExecuted'
<1>1. req[c].stage \notin SureStages \cup ClaimStages
  BY DEF EndRequest, Bury, Respond, OtherMessage, OperatorResume, OperatorRetry, Message, At,
     SureStages, ClaimStages
<1>2. phase = "up"
  BY RequestValues DEF EndRequest, Bury, Respond, OtherMessage, OperatorResume, OperatorRetry,
     Message, At, Resume, RetryDeadLetter, Enqueue, Serving
<1>3. UNCHANGED vars \/ \E id \in JobIDs : RestingOperation(id)
  BY DEF EndRequest, Bury, Respond, OtherMessage, OperatorResume, OperatorRetry, Message,
     QueueUnchanged, RestingOperation
<1>4. NothingNewRuns
  BY <1>3, CallsRest, RestingOperations DEF DispatchInvariant
<1>5. {"list", "ok", "error", "lost"} \subseteq Stages
  BY DEF Stages, DispatchStages, HostStages, PluginStages
<1>6. NextJob(c) \/ Finish(c) \/ \E stage \in Stages : Goto(c, stage)
  BY <1>5 DEF EndRequest, Bury, Respond, OtherMessage, OperatorResume, OperatorRetry, Message
<1> QED
  BY <1>1, <1>2, <1>4, <1>6, ContinuingMoves

\* A claimed job goes to the host, to the plugin and to whoever looks after it.
LEMMA HoldingMoves ==
    ASSUME DispatchInvariant, AllExecuted, NEW c \in Callers,
           \/ EnterHost(c) \/ Deny(c) \/ Inspect(c) \/ Generate(c) \/ Answer(c) \/ LookAfter(c)
    PROVE  AllExecuted'
<1>0. req[c].id \in JobIDs /\ phase = "up"
  BY RequestValues DEF EnterHost, Deny, Inspect, Generate, Answer, LookAfter, At,
     DispatchStages, HostStages, PluginStages
<1>1. /\ {"lost", "mark"} \cup SureStages \subseteq Stages
      /\ "lost" \in ClaimStages
      /\ {"inspect", "generate", "answer", "complete", "failing", "failingAnswer", "charge"} \subseteq SureStages
  BY DEF Stages, DispatchStages, HostStages, PluginStages, FailStages, TimeoutStages,
     SureStages, ClaimStages
<1>2. \/ UNCHANGED vars \/ BeginFail(c, req[c].id) \/ BeginDispatchFailure(c, req[c].id)
  BY DEF EnterHost, Deny, Inspect, Generate, Answer, LookAfter, QueueUnchanged
<1>3. NothingNewRuns
  BY <1>0, <1>2, CallsRest
<1>4. CASE EnterHost(c) \/ Deny(c)
  <2>1. req[c].stage \in ClaimStages /\ (Goto(c, "inspect") \/ Goto(c, "lost"))
    BY <1>4 DEF EnterHost, Deny, At, ClaimStages
  <2> QED
    BY <1>0, <1>1, <1>3, <2>1, ContinuingMoves
<1>5. CASE Inspect(c)
  <2>1. UNCHANGED vars
    BY <1>5 DEF Inspect, QueueUnchanged
  <2>2. \/ Goto(c, "generate")
        \/ Goto(c, "mark") /\ ~IsRunning(jobs'[req[c].id])
    BY <1>5, <2>1 DEF Inspect, IsRunning, vars, memory
  <2> QED
    BY <1>0, <1>1, <1>3, <2>2, ContinuingMoves
<1>6. CASE Generate(c) \/ Answer(c)
  <2>1. \E stage \in SureStages : Goto(c, stage)
    BY <1>1, <1>6 DEF Generate, Answer
  <2> QED
    BY <1>0, <1>1, <1>3, <2>1, ContinuingMoves
<1>7. CASE LookAfter(c)
  <2>1. CASE Goto(c, "charge")
    BY <1>0, <1>1, <1>3, <2>1, ContinuingMoves
  <2>2. CASE /\ ~(jobs[req[c].id].status = "running" /\ attempts[req[c].id] = req[c].attempt)
             /\ QueueUnchanged /\ NextJob(c)
    <3>1. ~IsRunning(jobs'[req[c].id]) \/ req[c].attempt # attempts[req[c].id]
      BY <2>2 DEF IsRunning, QueueUnchanged, vars, memory
    <3>2. req[c].stage = "lost"
      BY <1>7 DEF LookAfter, At
    <3> QED
      BY <1>0, <1>3, <2>2, <3>1, <3>2, ContinuingMoves
  <2> QED
    BY <1>7, <2>1, <2>2 DEF LookAfter
<1> QED
  BY <1>4, <1>5, <1>6, <1>7

\* Whoever settles a running job is not refused.
LEMMA SettlingMoves ==
    ASSUME DispatchInvariant, Reliable, AllExecuted, NEW c \in Callers,
           CompleteJob(c) \/ TimeoutJob(c) \/ FailJob(c) \/ Charge(c)
    PROVE  AllExecuted'
<1>0. /\ req[c].id \in JobIDs /\ phase = "up" /\ ~MayRefuse(c) /\ QueueInvariant
  BY RequestValues, ReliableRequests DEF CompleteJob, TimeoutJob, FailJob, Charge, At,
     DispatchStages, HostStages, PluginStages, FailStages, TimeoutStages, DispatchInvariant
<1>1. /\ ~CanTransitionTo(jobs[req[c].id], "done") => ~IsRunning(jobs[req[c].id])
      /\ ~CanFail(jobs[req[c].id]) => ~IsRunning(jobs[req[c].id])
  BY DEF CanTransitionTo, CanFail, AfterFailure, IsRunning
<1>2. NothingNewRuns /\ ~IsRunning(jobs'[req[c].id])
  <2>1. CASE CompleteJob(c)
    <3>1. \/ Complete(req[c].id)
          \/ UNCHANGED vars /\ ~IsRunning(jobs[req[c].id])
      BY <1>0, <1>1, <2>1 DEF CompleteJob, QueueUnchanged
    <3>2. CASE Complete(req[c].id)
      BY <1>0, <3>2, RestingOperations DEF RestingOperation
    <3>3. CASE UNCHANGED vars /\ ~IsRunning(jobs[req[c].id])
      <4>1. jobs' = jobs
        BY <3>3 DEF vars, memory
      <4> QED
        BY <3>3, <4>1, CallsRest
    <3> QED
      BY <3>1, <3>2, <3>3
  <2>2. CASE TimeoutJob(c)
    <3>1. \/ Timeout(req[c].id)
          \/ UNCHANGED vars /\ ~IsRunning(jobs[req[c].id])
      BY <1>0, <1>1, <2>2 DEF TimeoutJob, QueueUnchanged
    <3>2. CASE Timeout(req[c].id)
      BY <1>0, <3>2, FailureRests DEF Timeout
    <3>3. CASE UNCHANGED vars /\ ~IsRunning(jobs[req[c].id])
      <4>1. jobs' = jobs
        BY <3>3 DEF vars, memory
      <4> QED
        BY <3>3, <4>1, CallsRest
    <3> QED
      BY <3>1, <3>2, <3>3
  <2>3. CASE FailJob(c) \/ Charge(c)
    <3>1. \/ \E reason \in Errors : EndFail(c, reason)
          \/ RefuseFail(c) /\ ~IsRunning(jobs[req[c].id])
      BY <1>0, <1>1, <2>3 DEF FailJob, Charge
    <3>2. CASE \E reason \in Errors : EndFail(c, reason)
      BY <3>2, CallsRest
    <3>3. CASE RefuseFail(c) /\ ~IsRunning(jobs[req[c].id])
      <4>1. NothingNewRuns /\ jobs' = jobs
        BY <3>3, CallsRest
      <4> QED
        BY <3>3, <4>1
    <3> QED
      BY <3>1, <3>2, <3>3
  <2> QED
    BY <2>1, <2>2, <2>3
<1>3. {"ok", "error", "bury"} \subseteq Stages
  BY DEF Stages, DispatchStages, HostStages, PluginStages
<1>4. NextJob(c) \/ Finish(c) \/ \E stage \in Stages : Goto(c, stage)
  BY <1>3 DEF CompleteJob, TimeoutJob, FailJob, Charge
<1> QED
  BY <1>0, <1>2, <1>4, ContinuingMoves

\* Heartbeats, operators and the clock run nothing; a process that dies forgets
\* what runs, and one that has restored its jobs runs none.
LEMMA OthersRunNothing ==
    ASSUME DispatchInvariant, AllExecuted, OtherSteps
    PROVE  AllExecuted'
<1>0. QueueInvariant
  BY DEF DispatchInvariant
<1>1. ASSUME NothingNewRuns, req' = req, phase = "up"
      PROVE  AllExecuted'
  <2>1. \A c \in Callers : req'[c].gone = FALSE
    BY <1>1 DEF AllExecuted
  <2>2. ASSUME NEW id \in JobIDs, IsRunning(jobs'[id])
        PROVE  \E c \in Callers : Holds(req'[c], id, attempts'[id])
    <3>1. IsRunning(jobs[id]) /\ attempts'[id] = attempts[id]
      BY <1>1, <2>2 DEF NothingNewRuns
    <3>2. PICK c \in Callers : Holds(req[c], id, attempts[id])
      BY <1>1, <3>1 DEF AllExecuted
    <3> QED
      BY <1>1, <3>1, <3>2
  <2>3. \A id \in JobIDs : IsRunning(jobs'[id]) =>
          \E c \in Callers : Holds(req'[c], id, attempts'[id])
    BY <2>2
  <2> QED
    BY <2>1, <2>3 DEF AllExecuted, Holds, IsRunning
<1>2. ASSUME \A c \in Callers : req'[c].gone = FALSE,
             phase' # "up" \/ \A id \in JobIDs : ~IsRunning(jobs'[id])
      PROVE  AllExecuted'
  BY <1>2 DEF AllExecuted, IsRunning
<1>3. ASSUME NEW c \in Callers, Beat(c) PROVE AllExecuted'
  <2>1. req[c].id \in JobIDs /\ RestingOperation(req[c].id)
    BY <1>3, RequestValues DEF Beat, RestingOperation
  <2>2. phase = "up" /\ req' = req
    BY <1>3 DEF Beat, Heartbeat, Serving, dispatch
  <2> QED
    BY <1>0, <1>1, <2>1, <2>2, RestingOperations
<1>4. ASSUME NEW id \in JobIDs, OperatorPause(id) \/ OperatorCancel(id) PROVE AllExecuted'
  <2>1. RestingOperation(id)
    BY <1>4 DEF OperatorPause, OperatorCancel, RestingOperation
  <2>2. phase = "up" /\ req' = req
    BY <1>4 DEF OperatorPause, OperatorCancel, Pause, Cancel, Serving, dispatch
  <2> QED
    BY <1>0, <1>1, <2>1, <2>2, RestingOperations
<1>5. CASE ProcessDies
  <2>1. \A c \in Callers : req'[c].gone = FALSE
    BY <1>5 DEF ProcessDies, Idle
  <2> QED
    BY <1>2, <1>5, <2>1 DEF ProcessDies, Crash
<1>6. CASE Start
  <2>1. \A c \in Callers : req'[c].gone = FALSE
    BY <1>6 DEF Start, dispatch, AllExecuted
  <2>2. CASE EndRestore
    <3>1. \A id \in JobIDs : ~IsRunning(jobs'[id])
      BY <1>0, <2>2 DEF EndRestore, QueueInvariant, RestoreSound, IsRunning
    <3> QED
      BY <1>2, <2>1, <3>1
  <2>3. CASE ~EndRestore
    <3>1. phase' # "up"
      BY <1>6, <2>3 DEF Start, BeginRestore, RecoverRow
    <3> QED
      BY <1>2, <2>1, <3>1
  <2> QED
    BY <2>2, <2>3
<1>7. CASE Clock
  <2>1. req' = req /\ NothingNewRuns /\ phase' = phase
    BY <1>7, SameRows DEF Clock, Tick, dispatch, memory, history
  <2>2. CASE phase = "up"
    BY <1>1, <2>1, <2>2
  <2>3. CASE phase # "up"
    <3>1. \A c \in Callers : req'[c].gone = FALSE
      BY <2>1 DEF AllExecuted
    <3> QED
      BY <1>2, <2>1, <2>3, <3>1
  <2> QED
    BY <2>2, <2>3
<1> QED
  BY <1>3, <1>4, <1>5, <1>6, <1>7 DEF OtherSteps

\* A process that is lost leaves its request holding what it claimed itself; one
\* that is replaced is told to look at the job again.
LEMMA Losses ==
    ASSUME DispatchInvariant, Reliable, AllExecuted, LossesAreOwn, NEW c \in Callers,
           Lose(c) \/ Replay(c)
    PROVE  AllExecuted'
<1>0. req[c] \in Request /\ req[c].gone = FALSE /\ req \in [Callers -> Request]
  BY RequestValues DEF AllExecuted
<1>1. /\ phase = "up" /\ UNCHANGED vars /\ req[c].stage \in PluginStages
  BY RequestValues DEF Lose, Replay, QueueUnchanged, PluginStages
<1>2. NothingNewRuns /\ jobs' = jobs
  BY <1>1, CallsRest DEF vars, memory
<1>3. CASE Lose(c)
  <2> DEFINE r == [req[c] EXCEPT !.stage = "lost"]
  <2>1. /\ req' = [req EXCEPT ![c] = r] /\ r.gone = FALSE /\ r.stage = "lost"
        /\ r.id = req[c].id /\ r.attempt = req[c].attempt
    BY <1>0, <1>3 DEF Lose, Goto, Request
  <2> HIDE DEF r
  <2>2. ASSUME req[c].id \in JobIDs, IsRunning(jobs[req[c].id]),
               Holds(req[c], req[c].id, attempts[req[c].id])
        PROVE  req[c].attempt = attempts[req[c].id]
    <3>1. req[c].stage \in {"inspect", "generate", "answer", "complete"}
      BY <1>1, <2>2 DEF Holds, SureStages, ClaimStages, PluginStages
    <3>2. ~AtForeignRun(c)
      BY <1>3 DEF LossesAreOwn
    <3> QED
      BY <2>2, <3>1, <3>2 DEF AtForeignRun
  <2>3. Continues(c, r)
    BY <1>2, <2>1, <2>2 DEF Continues, Holds, ClaimStages
  <2> QED
    BY <1>1, <1>2, <2>1, <2>3, ContinuingStep
<1>4. CASE Replay(c)
  <2>1. PICK how \in {"checked", "blind"} :
          req' = [req EXCEPT ![c] = [req[c] EXCEPT !.stage = "inspect", !.replay = how]]
    BY <1>0, <1>4 DEF Replay
  <2> DEFINE r == [req[c] EXCEPT !.stage = "inspect", !.replay = how]
  <2>2. /\ req' = [req EXCEPT ![c] = r] /\ r.gone = FALSE /\ r.stage = "inspect"
        /\ r.id = req[c].id
    BY <1>0, <2>1 DEF Request
  <2> HIDE DEF r
  <2>3. Continues(c, r)
    BY <2>2 DEF Continues, Holds, SureStages
  <2> QED
    BY <1>1, <1>2, <2>2, <2>3, ContinuingStep
<1> QED
  BY <1>3, <1>4

LEMMA ExecutedStarts ==
    ASSUME DispatchInit PROVE AllExecuted
<1>1. Idle.gone = FALSE
  BY DEF Idle
<1> QED
  BY <1>1 DEF DispatchInit, Init, AllExecuted

LEMMA ExecutedKeeps ==
    ASSUME Reliable, DispatchInvariant, AllExecuted, [DispatchNext /\ LossesAreOwn]_dvars
    PROVE  AllExecuted'
<1>1. ASSUME NEW c \in Callers, LossesAreOwn,
             PlainStep(c) \/ Answer(c) \/ CompleteJob(c) \/ Leave(c)
      PROVE  AllExecuted'
  BY <1>1, ReliableRequests, ClaimingSteps, ListsAndTimeouts, IdleMoves, HoldingMoves,
     SettlingMoves, Losses DEF PlainStep
<1>2. CASE OtherSteps
  BY <1>2, OthersRunNothing
<1>3. CASE UNCHANGED dvars
  BY <1>3 DEF AllExecuted, Holds, IsRunning, dvars, vars, memory, history, dispatch
<1>4. DispatchNext => OtherSteps \/ \E c \in Callers :
                        PlainStep(c) \/ Answer(c) \/ CompleteJob(c) \/ Leave(c)
  BY DEF DispatchNext, Proceed, OtherSteps, PlainStep
<1> QED
  BY <1>1, <1>2, <1>3, <1>4

LEMMA ExecutedSuffices ==
    ASSUME AllExecuted PROVE RunningIsExecuted
<1>1. SureStages \cup ClaimStages \subseteq DispatchStages \cup {"timeout"}
  BY DEF SureStages, ClaimStages, DispatchStages, HostStages, PluginStages, FailStages
<1> QED
  BY <1>1 DEF AllExecuted, RunningIsExecuted, InStatus, Known, IsRunning, Holds

\* A running job is being executed, as long as the store, the clients and the
\* plugin's process do not fail: however requests interleave, and across
\* restarts of the runtime.
THEOREM RunningJobsAreExecuted ==
    ASSUME Healthy PROVE DispatchSpec => []RunningIsExecuted
<1>1. DispatchInit => AllExecuted
  BY ExecutedStarts
<1>2. DispatchInvariant /\ AllExecuted /\ [DispatchNext]_dvars => AllExecuted'
  <2> SUFFICES ASSUME DispatchInvariant, AllExecuted, [DispatchNext]_dvars
               PROVE  AllExecuted'
    OBVIOUS
  <2>1. LossesAreOwn
    BY ReliableRequests DEF Healthy, LossesAreOwn
  <2> QED
    BY <2>1, ExecutedKeeps DEF Healthy
<1>3. AllExecuted => RunningIsExecuted
  BY ExecutedSuffices
<1> QED
  BY <1>1, <1>2, <1>3, DispatchKeepsInvariant, PTL DEF DispatchSpec

\* The dispatches in which a process, when it is lost, was at the run its
\* dispatch had claimed, or at none.
OwnLossesSpec == DispatchInit /\ [][DispatchNext /\ LossesAreOwn]_dvars

\* The process may die, hang and be replaced at any time, but for the moments
\* in which the plugin works on a run that its dispatch did not claim: a running
\* job is being executed still.  Only such a loss leaves a run to nobody.
THEOREM OnlyForeignRunsAreOrphaned ==
    ASSUME Reliable PROVE OwnLossesSpec => []RunningIsExecuted
<1>1. DispatchInit => AllExecuted
  BY ExecutedStarts
<1>2. DispatchInvariant /\ AllExecuted /\ [DispatchNext /\ LossesAreOwn]_dvars => AllExecuted'
  BY ExecutedKeeps
<1>3. AllExecuted => RunningIsExecuted
  BY ExecutedSuffices
<1>4. OwnLossesSpec => DispatchSpec
  <2>1. [DispatchNext /\ LossesAreOwn]_dvars => [DispatchNext]_dvars
    OBVIOUS
  <2> QED
    BY <2>1, PTL DEF OwnLossesSpec, DispatchSpec
<1> QED
  BY <1>1, <1>2, <1>3, <1>4, DispatchKeepsInvariant, PTL DEF OwnLossesSpec
=============================================================================
