------------------------ MODULE WorkflowRuntimeProofs ------------------------
(* Proofs about the workflow runtime: types, and the invariant that ties the *)
(* workflows, the calls in flight and the job queue together.                *)
EXTENDS WorkflowRuntime, WellFoundedInduction, TLAPS

-----------------------------------------------------------------------------
(* Workflows *)

LEMMA LeastOf ==
    ASSUME NEW S \in SUBSET Nat, S # {}
    PROVE  \E i \in S : \A j \in S : i <= j
<1> DEFINE less == OpToRel(<, Nat)
<1>1. PICK i \in S : \A j \in S : <<j, i>> \notin less
  BY WFMin, NatLessThanWellFounded, Zenon
<1>2. less = {ss \in Nat \X Nat : ss[1] < ss[2]}
  BY Zenon DEF OpToRel
<1> HIDE DEF less
<1>3. \A j \in S : <<j, i>> \in less <=> j < i
  BY <1>2
<1>4. \A j \in S : j \in Nat /\ i \in Nat
  OBVIOUS
<1>5. \A j \in S : ~(j < i)
  BY <1>1, <1>3
<1>6. \A j \in S : i <= j
  BY <1>4, <1>5
<1> QED BY <1>6

\* Driving stops at the first blocking step from the index on, or at the end.
LEMMA StopsAt ==
    ASSUME NEW index \in 1 .. Len(Steps) + 1
    PROVE  /\ Stop(Steps, index) \in index .. Len(Steps) + 1
           /\ Stop(Steps, index) <= Len(Steps) =>
                 /\ Steps[Stop(Steps, index)] \in StepKinds
                 /\ Blocks(Steps[Stop(Steps, index)])
<1> DEFINE ahead == {i \in index .. Len(Steps) : Blocks(Steps[i])}
<1>1. Len(Steps) \in Nat /\ \A i \in 1 .. Len(Steps) : Steps[i] \in StepKinds
  BY StepsAssumption DEF StepsAssumption
<1>2. Stop(Steps, index) = IF ahead = {} THEN Len(Steps) + 1
                           ELSE CHOOSE i \in ahead : \A j \in ahead : i <= j
  BY DEF Stop
<1>3. ahead \subseteq index .. Len(Steps) /\ ahead \subseteq Nat
      /\ \A i \in ahead : Blocks(Steps[i])
  BY <1>1
<1> HIDE DEF ahead
<1>4. ASSUME ahead # {}
      PROVE  Stop(Steps, index) \in ahead
  <2>1. PICK least \in ahead : \A j \in ahead : least <= j
    BY <1>3, <1>4, LeastOf
  <2>2. (CHOOSE i \in ahead : \A j \in ahead : i <= j) \in ahead
    BY <2>1, Zenon
  <2> QED BY <1>2, <1>4, <2>2
<1>5. ahead = {} \/ Stop(Steps, index) \in ahead
  BY <1>4
<1>6. CASE ahead = {}
  <2>1. Stop(Steps, index) = Len(Steps) + 1
    BY <1>2, <1>6
  <2> QED BY <1>1, <2>1
<1>7. CASE Stop(Steps, index) \in ahead
  <2> DEFINE stop == Stop(Steps, index)
  <2>1. stop \in index .. Len(Steps) /\ Blocks(Steps[stop])
    BY <1>3, <1>7
  <2> HIDE DEF stop
  <2>2. stop \in 1 .. Len(Steps) /\ stop \in index .. Len(Steps) + 1
    BY <1>1, <2>1
  <2> QED BY <1>1, <2>1, <2>2 DEF stop
<1> QED BY <1>5, <1>6, <1>7

LEMMA DrivenWorkflow ==
    ASSUME NEW w \in Workflows(Steps)
    PROVE  /\ Driven(w) \in Workflows(Steps)
           /\ Driven(w).index \in w.index .. Len(Steps) + 1
           /\ Driven(w).result \in {w.result, "none"}
           /\ AtRest(Driven(w))
<1> DEFINE stop == Stop(Steps, w.index)
           kind == IF stop <= Len(Steps) THEN Steps[stop] ELSE "none"
           waiting == IF kind = "none" THEN "none" ELSE WaitsFor[kind]
           result == IF kind = "call_job" THEN "none" ELSE w.result
           compensates == \E i \in w.index .. (stop - 1) : Steps[i] = "compensate"
           compensated == w.compensated \/ (compensates /\ w.result # "finished")
<1>1. /\ w.index \in 1 .. Len(Steps) + 1
      /\ w.result \in Results
      /\ Len(Steps) \in Nat
  BY StepsAssumption DEF StepsAssumption, Workflows
<1>2. /\ stop \in w.index .. Len(Steps) + 1
      /\ stop <= Len(Steps) => Steps[stop] \in StepKinds /\ Blocks(Steps[stop])
  BY <1>1, StopsAt
<1>3. kind \in {"none", "wait_event", "sleep", "call_job"}
  BY <1>2 DEF Blocks, WaitsFor
<1>4. waiting \in {"none", "event", "sleep", "job"}
  BY <1>3 DEF WaitsFor
<1>5. result \in Results /\ result \in {w.result, "none"}
  BY <1>1 DEF Results
<1>6. compensated \in BOOLEAN
  OBVIOUS
<1>7. Driven(w) = [index |-> stop, waiting |-> waiting, result |-> result,
                   compensated |-> compensated]
  BY DEF Driven, advanceWorkflowUntilBlocked
<1>8. IF stop \in 1 .. Len(Steps)
      THEN Blocks(Steps[stop]) /\ waiting = WaitsFor[Steps[stop]]
      ELSE waiting = "none"
  <2>1. CASE stop \in 1 .. Len(Steps)
    <3>1. stop <= Len(Steps) /\ Blocks(Steps[stop])
      BY <1>1, <1>2, <2>1
    <3>2. kind = Steps[stop] /\ kind # "none"
      BY <3>1 DEF Blocks, WaitsFor
    <3> QED BY <2>1, <3>1, <3>2
  <2>2. CASE stop \notin 1 .. Len(Steps)
    <3>1. ~(stop <= Len(Steps))
      BY <1>1, <1>2, <2>2
    <3> QED BY <2>2, <3>1
  <2> QED BY <2>1, <2>2
<1> HIDE DEF kind, waiting, result, compensated, stop
<1>9. Driven(w) \in Workflows(Steps)
  BY <1>1, <1>2, <1>4, <1>5, <1>6, <1>7 DEF Workflows
<1> QED BY <1>2, <1>5, <1>7, <1>8, <1>9 DEF AtRest

\* Past a step that blocks there is no child job to wait for.
LEMMA NoJobAhead ==
    ASSUME NEW w \in Workflows(Steps), AtRest(w), w.index \in 1 .. Len(Steps),
           NEW v \in Workflows(Steps), v.index > w.index
    PROVE  Driven(v).waiting # "job"
<1> SUFFICES ASSUME Driven(v).waiting = "job"
             PROVE  FALSE
  OBVIOUS
<1> PICK j : j = Driven(v).index
  OBVIOUS
<1>1. Len(Steps) \in Nat /\ DOMAIN Steps = 1 .. Len(Steps)
  BY StepsAssumption DEF StepsAssumption
<1>2. j \in v.index .. Len(Steps) + 1 /\ AtRest(Driven(v))
  BY DrivenWorkflow
<1>3. j \in 1 .. Len(Steps) /\ Steps[j] = "call_job"
  BY <1>2 DEF AtRest, Blocks, WaitsFor
<1>4. Blocks(Steps[w.index])
  BY DEF AtRest
<1>5. j <= w.index
  BY <1>1, <1>3, <1>4, StepsAssumption DEF StepsAssumption
<1> QED BY <1>1, <1>2, <1>3, <1>5 DEF Workflows

-----------------------------------------------------------------------------
(* The queue only moves on *)

QueueStep ==
    \/ UNCHANGED queue
    \/ \E id \in WorkflowIDs :
        \/ Queue!Accept(id, 0)
        \/ Queue!Start(id) \/ Queue!Hold(id) \/ Queue!Release(id)
        \/ Queue!Finish(id) \/ Queue!Drop(id)
        \/ Queue!Bury(id) \/ Queue!Exhume(id)

QueueTypeOK ==
    /\ place \in [WorkflowIDs -> Queue!Places]
    /\ used \in [WorkflowIDs -> {0}]
    /\ budget \in [WorkflowIDs -> {0}]
    /\ alarms \in SUBSET WorkflowIDs

PlacesKept ==
    \A id \in WorkflowIDs :
        /\ place[id] # "absent" => place'[id] # "absent"
        /\ place[id] \in {"finished", "dropped"} => place'[id] = place[id]

LEMMA QueueMovesOn ==
    ASSUME QueueTypeOK, QueueStep
    PROVE  QueueTypeOK' /\ PlacesKept
<1>1. CASE UNCHANGED queue
  BY <1>1 DEF queue, QueueTypeOK, PlacesKept
<1>2. ASSUME NEW id \in WorkflowIDs, NEW from, NEW to \in Queue!Places,
             Queue!Move(id, from, to), to # "absent",
             from \cap {"finished", "dropped"} = {}
      PROVE  place' \in [WorkflowIDs -> Queue!Places] /\ PlacesKept
  <2>1. place[id] \notin {"finished", "dropped"}
    BY <1>2 DEF Queue!Move
  <2>2. place' = [place EXCEPT ![id] = to]
    BY <1>2 DEF Queue!Move
  <2> QED BY <1>2, <2>1, <2>2 DEF QueueTypeOK, PlacesKept
<1>3. ASSUME NEW id \in WorkflowIDs, Queue!Accept(id, 0)
      PROVE  QueueTypeOK' /\ PlacesKept
  <2>1. Queue!Move(id, {"absent"}, "waiting")
    BY <1>3 DEF Queue!Accept
  <2>2. place' \in [WorkflowIDs -> Queue!Places] /\ PlacesKept
    BY <1>2, <2>1 DEF Queue!Places
  <2> QED BY <1>3, <2>2 DEF Queue!Accept, QueueTypeOK
<1>4. ASSUME NEW id \in WorkflowIDs, Queue!Start(id) \/ Queue!Drop(id) \/ Queue!Hold(id)
      PROVE  QueueTypeOK' /\ PlacesKept
  <2>1. \E to \in {"running", "dropped", "held"} : Queue!Move(id, {"waiting"}, to)
    BY <1>4 DEF Queue!Start, Queue!Drop, Queue!Hold
  <2>2. place' \in [WorkflowIDs -> Queue!Places] /\ PlacesKept
    BY <1>2, <2>1 DEF Queue!Places
  <2> QED BY <1>4, <2>2 DEF Queue!Start, Queue!Drop, Queue!Hold, QueueTypeOK
<1>5. ASSUME NEW id \in WorkflowIDs, Queue!Release(id) \/ Queue!Finish(id)
      PROVE  QueueTypeOK' /\ PlacesKept
  <2>1. \/ Queue!Move(id, {"held"}, "waiting")
        \/ Queue!Move(id, {"running"}, "finished")
    BY <1>5 DEF Queue!Release, Queue!Finish
  <2>2. place' \in [WorkflowIDs -> Queue!Places] /\ PlacesKept
    BY <1>2, <2>1 DEF Queue!Places
  <2> QED BY <1>5, <2>2 DEF Queue!Release, Queue!Finish, QueueTypeOK
<1>6. ASSUME NEW id \in WorkflowIDs, Queue!Bury(id) \/ Queue!Exhume(id)
      PROVE  QueueTypeOK' /\ PlacesKept
  <2>1. \/ Queue!Move(id, {"running", "waiting"}, "buried")
        \/ Queue!Move(id, {"buried"}, "waiting")
    BY <1>6 DEF Queue!Bury, Queue!Exhume
  <2>2. place' \in [WorkflowIDs -> Queue!Places] /\ PlacesKept
    BY <1>2, <2>1 DEF Queue!Places
  <2> QED BY <1>6, <2>2 DEF Queue!Bury, Queue!Exhume, QueueTypeOK
<1> QED BY <1>1, <1>3, <1>4, <1>5, <1>6 DEF QueueStep

\* What is sound stays sound.
LEMMA SoundnessKept ==
    ASSUME PlacesKept, NEW id \in WorkflowIDs
    PROVE  /\ \A result \in Results : Real(id, result) => Real(id, result)'
           /\ \A w \in Instance : Sound(id, w) => Sound(id, w)'
<1>1. \A result : Real(id, result) => Real(id, result)'
  BY DEF PlacesKept, Real
<1> QED BY <1>1 DEF PlacesKept, Sound

-----------------------------------------------------------------------------
(* Sound workflows *)

LEMMA NewIsSound ==
    ASSUME NEW id \in WorkflowIDs, place[id] # "absent"
    PROVE  /\ Driven(NewWorkflow) \in Workflows(Steps)
           /\ Sound(id, Driven(NewWorkflow))
<1>1. NewWorkflow \in Workflows(Steps) /\ NewWorkflow.result = "none"
  BY StepsAssumption DEF StepsAssumption, NewWorkflow, Workflows, Results
<1> QED BY <1>1, DrivenWorkflow DEF Sound, Real

LEMMA DrivenIsSound ==
    ASSUME NEW id \in WorkflowIDs, place[id] # "absent",
           NEW w \in Workflows(Steps), Real(id, w.result)
    PROVE  Driven(w) \in Workflows(Steps) /\ Sound(id, Driven(w))
BY DrivenWorkflow DEF Sound, Real
-----------------------------------------------------------------------------
(* The invariant in parts, one for each variable that steps write apart *)

RowsOK ==
    /\ instances \in [WorkflowIDs -> Instance]
    /\ elapsed \in SUBSET WorkflowIDs
    /\ \A id \in WorkflowIDs : Sound(id, instances[id])

MessageOK ==
    /\ message \in Messages \cup {NoMessage}
    /\ message.stage \in {"cancel_job", "start"} => place[message.id] # "absent"
    /\ message.stage = "save" => Sound(message.id, message.next)

CallOK(call) ==
    /\ call \in Calls \cup {NoCall}
    /\ call.stage = "load" => Real(call.id, call.outcome)
    /\ call.stage = "save" => Sound(call.id, call.next)

CallersOK ==
    /\ callers \in [Callers -> Calls \cup {NoCall}]
    /\ \A c \in Callers : CallOK(callers[c])

RestoreOK ==
    /\ phase \in {"down", "restoring", "up"}
    /\ restored \in SUBSET WorkflowIDs
    /\ \A id \in restored : phase = "restoring" /\ ~WaitsInVain(id)

LEMMA InvariantParts ==
    WorkflowInvariant <=> RowsOK /\ MessageOK /\ CallersOK /\ RestoreOK /\ QueueTypeOK
BY DEF WorkflowInvariant, WorkflowTypeOK, CopiesAreSound, RowsOK, MessageOK, CallersOK,
       CallOK, RestoreOK, QueueTypeOK

LEMMA PartsNext ==
    ASSUME RowsOK', MessageOK', CallersOK', RestoreOK', QueueTypeOK'
    PROVE  WorkflowInvariant'
BY DEF WorkflowInvariant, WorkflowTypeOK, CopiesAreSound, RowsOK, MessageOK, CallersOK,
       CallOK, RestoreOK, QueueTypeOK

LEMMA RowsKept ==
    ASSUME RowsOK, PlacesKept, UNCHANGED rows
    PROVE  RowsOK'
<1>1. instances' = instances /\ elapsed' = elapsed
  BY DEF rows
<1>2. \A id \in WorkflowIDs : Sound(id, instances[id])'
  BY <1>1, SoundnessKept DEF RowsOK
<1> QED BY <1>1, <1>2 DEF RowsOK

LEMMA RowSaved ==
    ASSUME RowsOK, PlacesKept, NEW id \in WorkflowIDs, NEW w \in Workflows(Steps),
           Sound(id, w), SaveInstance(id, w)
    PROVE  RowsOK'
<1>1. /\ instances' = [instances EXCEPT ![id] = w]
      /\ instances' \in [WorkflowIDs -> Instance]
      /\ elapsed' \in SUBSET WorkflowIDs
  BY DEF SaveInstance, RowsOK, Instance
<1>2. w \in Instance /\ \A other \in WorkflowIDs : instances[other] \in Instance
  BY DEF RowsOK, Instance
<1>3. ASSUME NEW other \in WorkflowIDs
      PROVE  Sound(other, instances[other])'
  <2>1. Sound(other, instances'[other])
    BY <1>1 DEF RowsOK
  <2> QED BY <1>1, <1>2, <2>1, SoundnessKept
<1> QED BY <1>1, <1>3 DEF RowsOK

LEMMA MessageKept ==
    ASSUME MessageOK, PlacesKept, UNCHANGED message
    PROVE  MessageOK'
<1>1. CASE message.stage \in {"cancel_job", "start", "save"}
  <2>1. message.id \in WorkflowIDs /\ (message.stage = "save" => message.next \in Instance)
    BY <1>1 DEF MessageOK, Messages, NoMessage, Instance
  <2> QED BY <2>1, SoundnessKept DEF MessageOK, PlacesKept
<1>2. CASE message.stage \notin {"cancel_job", "start", "save"}
  BY <1>2 DEF MessageOK
<1> QED BY <1>1, <1>2

LEMMA CallKept ==
    ASSUME PlacesKept, NEW call, CallOK(call)
    PROVE  CallOK(call)'
<1>1. CASE call.stage \in {"load", "save"}
  <2>1. /\ call.id \in WorkflowIDs
        /\ call.stage = "load" => call.outcome \in Results
        /\ call.stage = "save" => call.next \in Instance
    BY <1>1 DEF CallOK, Calls, NoCall, Instance, Results
  <2> QED BY <2>1, SoundnessKept DEF CallOK
<1>2. CASE call.stage \notin {"load", "save"}
  BY <1>2 DEF CallOK
<1> QED BY <1>1, <1>2

LEMMA CallersKept ==
    ASSUME CallersOK, PlacesKept, UNCHANGED callers
    PROVE  CallersOK'
BY CallKept DEF CallersOK

LEMMA CallSet ==
    ASSUME CallersOK, PlacesKept, NEW c \in Callers, NEW call, CallOK(call)', SetCall(c, call)
    PROVE  CallersOK'
<1>1. call \in Calls \cup {NoCall} /\ callers' = [callers EXCEPT ![c] = call]
  BY DEF CallOK, SetCall
<1>2. callers' \in [Callers -> Calls \cup {NoCall}]
  BY <1>1 DEF CallersOK
<1>3. ASSUME NEW d \in Callers
      PROVE  CallOK(callers[d])'
  BY <1>1, CallKept DEF CallersOK
<1> QED BY <1>2, <1>3 DEF CallersOK

\* While the runtime serves or is down, nothing is being restored.
LEMMA NotRestoring ==
    ASSUME RestoreOK, phase # "restoring", UNCHANGED runtime
    PROVE  RestoreOK'
BY DEF RestoreOK, runtime

LEMMA NoMessageOK ==
    ASSUME message' = NoMessage
    PROVE  MessageOK'
BY DEF MessageOK, NoMessage

LEMMA NoCallOK == CallOK(NoCall)'
BY DEF CallOK, NoCall
-----------------------------------------------------------------------------
(* The steps of a message *)

\* What a message leaves alone.
LEMMA MessageOnly ==
    ASSUME WorkflowInvariant, phase = "up", UNCHANGED Outside, UNCHANGED rows,
           QueueStep, PlacesKept => MessageOK'
    PROVE  WorkflowInvariant'
<1>1. UNCHANGED runtime /\ UNCHANGED callers
  BY DEF Outside
<1>2. QueueTypeOK' /\ PlacesKept
  BY InvariantParts, QueueMovesOn
<1> QED BY <1>1, <1>2, InvariantParts, PartsNext, RowsKept, CallersKept, NotRestoring

LEMMA MessageAt ==
    ASSUME MessageOK, message.stage # "idle"
    PROVE  /\ message \in Messages
           /\ message.session \in Sessions
           /\ message.replayed \in BOOLEAN
           /\ message.stage # "answer" => message.id \in WorkflowIDs
           /\ message.stage \in {"load_workflow", "inspect_job", "cancel_job", "enqueue_job", "start"}
                => message.found \in BOOLEAN
BY DEF MessageOK, Messages, NoMessage

LEMMA IDsOfRuns ==
    ASSUME NEW s \in Sessions, NEW run \in 0 .. MaxRuns
    PROVE  <<s, run>> \in WorkflowIDs
BY DEF WorkflowIDs

\* A message moved to another of its stages before the workflow is loaded.
LEMMA MessageMoved ==
    ASSUME MessageOK, PlacesKept,
           message.stage \in {"load_workflow", "inspect_job", "cancel_job", "enqueue_job", "start"},
           NEW stage \in {"load_workflow", "inspect_job", "cancel_job", "enqueue_job", "start"},
           NEW id \in WorkflowIDs, NEW found \in BOOLEAN,
           message' = [message EXCEPT !.stage = stage, !.id = id, !.found = found],
           stage \in {"cancel_job", "start"} => place'[id] # "absent"
    PROVE  MessageOK'
<1>1. message \in [stage: {"load_workflow", "inspect_job", "cancel_job", "enqueue_job", "start"},
                   session: Sessions, id: WorkflowIDs, found: BOOLEAN, replayed: BOOLEAN]
  BY DEF MessageOK, Messages, NoMessage
<1>2. /\ message' \in [stage: {"load_workflow", "inspect_job", "cancel_job", "enqueue_job", "start"},
                   session: Sessions, id: WorkflowIDs, found: BOOLEAN, replayed: BOOLEAN]
      /\ message'.stage = stage /\ message'.id = id
  BY <1>1
<1> QED BY <1>2 DEF MessageOK, Messages

LEMMA MessageArrivesKeeps ==
    ASSUME WorkflowInvariant, NEW s \in Sessions, MessageArrives(s)
    PROVE  WorkflowInvariant'
<1>1. <<s, 0>> \in WorkflowIDs
  BY IDsOfRuns, MaxRunsAssumption DEF MaxRunsAssumption
<1>2. message' \in Messages /\ message'.stage = "load_workflow"
  BY <1>1 DEF MessageArrives, Messages
<1>3. MessageOK'
  BY <1>2 DEF MessageOK
<1> QED BY <1>3, MessageOnly DEF MessageArrives, At, QueueStep

LEMMA FindWorkflowKeeps ==
    ASSUME WorkflowInvariant, FindWorkflow
    PROVE  WorkflowInvariant'
<1>1. MessageOK /\ message.stage = "load_workflow" /\ phase = "up"
  BY InvariantParts DEF FindWorkflow, At
<1>2. message \in [stage: {"load_workflow", "inspect_job", "cancel_job", "enqueue_job", "start"},
                   session: Sessions, id: WorkflowIDs, found: BOOLEAN, replayed: BOOLEAN]
  BY <1>1 DEF MessageOK, Messages, NoMessage
<1>3. ASSUME PlacesKept
      PROVE  MessageOK'
  <2>1. CASE Completed(Steps, instances[message.id])
    <3>1. PICK run \in 1 .. MaxRuns :
            message' = [message EXCEPT !.stage = "inspect_job", !.id = <<message.session, run>>]
      BY <2>1 DEF FindWorkflow
    <3>2. <<message.session, run>> \in WorkflowIDs
      BY <1>2, IDsOfRuns, MaxRunsAssumption DEF MaxRunsAssumption
    <3>3. message' = [message EXCEPT !.stage = "inspect_job", !.id = <<message.session, run>>,
                                     !.found = message.found]
      BY <1>2, <3>1
    <3> QED BY <1>1, <1>2, <1>3, <3>2, <3>3, MessageMoved
  <2>2. CASE ~Completed(Steps, instances[message.id])
    <3>1. message' = [message EXCEPT !.stage = "inspect_job",
                                     !.found = instances[message.id] # NoInstance]
      BY <2>2 DEF FindWorkflow
    <3>2. message' = [message EXCEPT !.stage = "inspect_job", !.id = message.id,
                                     !.found = instances[message.id] # NoInstance]
      BY <1>2, <3>1
    <3> QED BY <1>1, <1>2, <1>3, <3>2, MessageMoved
  <2> QED BY <2>1, <2>2
<1> QED BY <1>1, <1>3, MessageOnly DEF FindWorkflow, QueueStep

\* Goto leaves the workflow and what was found of it.
LEMMA Moved ==
    ASSUME MessageOK, PlacesKept,
           message.stage \in {"load_workflow", "inspect_job", "cancel_job", "enqueue_job", "start"},
           NEW stage \in {"enqueue_job", "cancel_job", "start"}, Goto(stage),
           stage \in {"cancel_job", "start"} => place'[message.id] # "absent"
    PROVE  MessageOK'
<1>1. message \in [stage: {"load_workflow", "inspect_job", "cancel_job", "enqueue_job", "start"},
                   session: Sessions, id: WorkflowIDs, found: BOOLEAN, replayed: BOOLEAN]
  BY DEF MessageOK, Messages, NoMessage
<1>2. message' = [message EXCEPT !.stage = stage, !.id = message.id, !.found = message.found]
  BY <1>1 DEF Goto
<1> QED BY <1>1, <1>2, MessageMoved

LEMMA FindJobKeeps ==
    ASSUME WorkflowInvariant, FindJob
    PROVE  WorkflowInvariant'
<1>1. MessageOK /\ message.stage = "inspect_job" /\ phase = "up" /\ message.id \in WorkflowIDs
  BY InvariantParts, MessageAt DEF FindJob, At
<1>2. ASSUME PlacesKept
      PROVE  MessageOK'
  <2>1. CASE place[message.id] = "absent"
    <3>1. Goto("enqueue_job")
      BY <2>1 DEF FindJob
    <3> QED BY <1>1, <1>2, <3>1, Moved
  <2>2. CASE place[message.id] # "absent"
    <3>1. place'[message.id] # "absent"
      BY <1>1, <1>2, <2>2 DEF PlacesKept
    <3>2. Goto("start") \/ Goto("cancel_job")
      BY <2>2 DEF FindJob
    <3> QED BY <1>1, <1>2, <3>1, <3>2, Moved
  <2> QED BY <2>1, <2>2
<1> QED BY <1>1, <1>2, MessageOnly DEF FindJob, QueueStep

\* After Accept and Drop the job is known.
LEMMA CancelStaleJobKeeps ==
    ASSUME WorkflowInvariant, CancelStaleJob
    PROVE  WorkflowInvariant'
<1>1. MessageOK /\ message.stage = "cancel_job" /\ phase = "up" /\ message.id \in WorkflowIDs
  BY InvariantParts, MessageAt DEF CancelStaleJob, At
<1>2. QueueStep
  BY <1>1 DEF CancelStaleJob, QueueStep
<1>3. ASSUME PlacesKept
      PROVE  MessageOK'
  <2>1. CASE Goto("enqueue_job")
    BY <1>1, <1>3, <2>1, Moved
  <2>2. CASE Goto("start")
    <3>1. place'[message.id] # "absent"
      BY <1>1, <1>3 DEF PlacesKept, MessageOK
    <3> QED BY <1>1, <1>3, <2>2, <3>1, Moved
  <2> QED BY <2>1, <2>2 DEF CancelStaleJob
<1> QED BY <1>1, <1>2, <1>3, MessageOnly DEF CancelStaleJob

LEMMA EnqueueJobKeeps ==
    ASSUME WorkflowInvariant, EnqueueJob
    PROVE  WorkflowInvariant'
<1>1. MessageOK /\ message.stage = "enqueue_job" /\ phase = "up" /\ message.id \in WorkflowIDs
  BY InvariantParts, MessageAt DEF EnqueueJob, At
<1>2. QueueStep
  BY <1>1 DEF EnqueueJob, QueueStep
<1>3. ASSUME PlacesKept
      PROVE  MessageOK'
  <2>1. CASE Queue!Accept(message.id, 0) /\ Goto("start")
    <3>1. place' = [place EXCEPT ![message.id] = "waiting"]
      BY <2>1 DEF Queue!Accept, Queue!Move
    <3>2. place'[message.id] # "absent"
      BY <1>1, <3>1, InvariantParts DEF QueueTypeOK
    <3> QED BY <1>1, <1>3, <2>1, <3>2, Moved
  <2>2. CASE message' = NoMessage
    BY <2>2, NoMessageOK
  <2> QED BY <2>1, <2>2 DEF EnqueueJob
<1> QED BY <1>1, <1>2, <1>3, MessageOnly DEF EnqueueJob

LEMMA PassedWorkflow ==
    ASSUME NEW id \in WorkflowIDs, NEW w \in Instance, Sound(id, w), w.waiting # "none"
    PROVE  /\ w \in Workflows(Steps)
           /\ Passed(w) \in Workflows(Steps)
           /\ Passed(w).result = w.result
           /\ Passed(w).index = w.index + 1
           /\ w.index \in 1 .. Len(Steps)
           /\ \A result \in Results :
                /\ ResumeWithChildJob(w, result) \in Workflows(Steps)
                /\ ResumeWithChildJob(w, result).result = result
                /\ ResumeWithChildJob(w, result).index = w.index + 1
                /\ ResumeWithChildJob(w, result).waiting = "none"
<1>1. w \in Workflows(Steps)
  BY DEF Instance, NoInstance
<1>2. w.index \in 1 .. Len(Steps)
  BY DEF Sound, AtRest
<1>3. w.index + 1 \in 1 .. Len(Steps) + 1
  BY <1>2, StepsAssumption DEF StepsAssumption
<1> QED BY <1>1, <1>2, <1>3 DEF Passed, ResumeWithChildJob, Workflows

\* A workflow computed for a message is saved as it was computed.
LEMMA MessageSaves ==
    ASSUME MessageOK, PlacesKept, message.stage = "start",
           NEW id \in WorkflowIDs, id = message.id,
           NEW next \in Workflows(Steps), Sound(id, next), Save(next)
    PROVE  MessageOK'
<1>1. message.session \in Sessions /\ message.replayed \in BOOLEAN
  BY MessageAt
<1>2. /\ message' \in Messages /\ message'.stage = "save"
      /\ message'.id = id /\ message'.next = next
  BY <1>1 DEF Save, Messages
<1>3. Sound(id, next)'
  BY SoundnessKept DEF Instance
<1> QED BY <1>2, <1>3 DEF MessageOK

LEMMA StartOrResumeKeeps ==
    ASSUME WorkflowInvariant, StartOrResume
    PROVE  WorkflowInvariant'
<1> PICK id : id = message.id
  OBVIOUS
<1> DEFINE w == instances[id]
<1>1. /\ MessageOK /\ RowsOK /\ message.stage = "start" /\ phase = "up"
      /\ id \in WorkflowIDs
  BY InvariantParts, MessageAt DEF StartOrResume, At
<1>2. place[id] # "absent" /\ w \in Instance /\ Sound(id, w)
  BY <1>1 DEF MessageOK, RowsOK
<1>3. ASSUME PlacesKept, Save(Driven(NewWorkflow))
      PROVE  MessageOK'
  BY <1>1, <1>2, <1>3, NewIsSound, MessageSaves
<1>4. ASSUME PlacesKept, w.waiting # "none", Save(Driven(Passed(w)))
      PROVE  MessageOK'
  <2>1. Passed(w) \in Workflows(Steps) /\ Real(id, Passed(w).result)
    BY <1>1, <1>2, <1>4, PassedWorkflow DEF Sound
  <2> QED BY <1>1, <1>2, <1>4, <2>1, DrivenIsSound, MessageSaves
<1>5. ASSUME PlacesKept
      PROVE  MessageOK'
  <2>1. \/ Save(Driven(NewWorkflow))
        \/ w.waiting # "none" /\ Save(Driven(Passed(w)))
        \/ message' = NoMessage
    BY DEF StartOrResume
  <2> QED BY <1>3, <1>4, <1>5, <2>1, NoMessageOK
<1> QED BY <1>1, <1>5, MessageOnly DEF StartOrResume, QueueStep

LEMMA SaveStartOrResumeKeeps ==
    ASSUME WorkflowInvariant, SaveStartOrResume
    PROVE  WorkflowInvariant'
<1>1. /\ RowsOK /\ CallersOK /\ RestoreOK /\ QueueTypeOK /\ MessageOK
      /\ message.stage = "save" /\ phase = "up"
  BY InvariantParts DEF SaveStartOrResume, At
<1>2. /\ message.id \in WorkflowIDs /\ message.next \in Workflows(Steps)
      /\ message.session \in Sessions /\ message.replayed \in BOOLEAN
      /\ Sound(message.id, message.next)
  BY <1>1 DEF MessageOK, Messages, NoMessage
<1>3. QueueTypeOK' /\ PlacesKept /\ UNCHANGED runtime /\ UNCHANGED callers
  BY <1>1, QueueMovesOn DEF SaveStartOrResume, Outside, QueueStep
<1>4. RowsOK'
  BY <1>1, <1>2, <1>3, RowSaved DEF SaveStartOrResume
<1>5. message' \in Messages /\ message'.stage = "answer"
  BY <1>2 DEF SaveStartOrResume, Messages
<1>6. MessageOK'
  BY <1>5 DEF MessageOK
<1> QED BY <1>1, <1>3, <1>4, <1>6, PartsNext, CallersKept, NotRestoring

LEMMA MessageEndsKeeps ==
    ASSUME WorkflowInvariant, Answer \/ MessageFails
    PROVE  WorkflowInvariant'
BY NoMessageOK, MessageOnly DEF Answer, MessageFails, At, QueueStep

LEMMA ReplayKeeps ==
    ASSUME WorkflowInvariant, Replay
    PROVE  WorkflowInvariant'
<1>1. message.session \in Sessions
  BY InvariantParts, MessageAt DEF Replay
<1>2. <<message.session, 0>> \in WorkflowIDs
  BY <1>1, IDsOfRuns, MaxRunsAssumption DEF MaxRunsAssumption
<1>3. message' \in Messages /\ message'.stage = "load_workflow"
  BY <1>1, <1>2 DEF Replay, Messages
<1>4. MessageOK'
  BY <1>3 DEF MessageOK
<1> QED BY <1>4, MessageOnly DEF Replay, QueueStep

LEMMA MessageStepKeeps ==
    ASSUME WorkflowInvariant, MessageStep
    PROVE  WorkflowInvariant'
BY MessageArrivesKeeps, FindWorkflowKeeps, FindJobKeeps, CancelStaleJobKeeps,
   EnqueueJobKeeps, StartOrResumeKeeps, SaveStartOrResumeKeeps, MessageEndsKeeps,
   ReplayKeeps DEF MessageStep

-----------------------------------------------------------------------------
(* The steps of the callers *)

LEMMA CallerOnly ==
    ASSUME WorkflowInvariant, phase = "up", UNCHANGED Others, UNCHANGED rows,
           QueueStep, QueueTypeOK' /\ PlacesKept => CallersOK'
    PROVE  WorkflowInvariant'
<1>1. UNCHANGED runtime /\ UNCHANGED message
  BY DEF Others
<1>2. QueueTypeOK' /\ PlacesKept
  BY InvariantParts, QueueMovesOn
<1> QED BY <1>1, <1>2, InvariantParts, PartsNext, RowsKept, MessageKept, NotRestoring

\* Calls that hold no workflow and no outcome.
LEMMA PlainCall ==
    ASSUME NEW id \in WorkflowIDs, NEW stage \in {"dispatch", "timeout", "inspect"}
    PROVE  CallOK([stage |-> stage, id |-> id])'
BY DEF CallOK, Calls

LEMMA LoadCall ==
    ASSUME NEW id \in WorkflowIDs, NEW outcome \in Outcomes, Real(id, outcome)'
    PROVE  CallOK([stage |-> "load", id |-> id, outcome |-> outcome])'
BY DEF CallOK, Calls

LEMMA CallerAt ==
    ASSUME WorkflowInvariant, NEW c \in Callers, callers[c].stage # "idle"
    PROVE  /\ callers[c] \in Calls
           /\ callers[c].id \in WorkflowIDs
           /\ CallOK(callers[c])
BY InvariantParts DEF CallersOK, CallOK, Calls, NoCall

LEMMA DispatchJobKeeps ==
    ASSUME WorkflowInvariant, NEW c \in Callers, NEW id \in WorkflowIDs,
           DispatchJob(c, id) \/ ClaimForTimeout(c, id)
    PROVE  WorkflowInvariant'
<1>1. QueueStep
  BY DEF DispatchJob, ClaimForTimeout, QueueStep
<1>2. ASSUME PlacesKept
      PROVE  CallersOK'
  <2>1. \E stage \in {"dispatch", "timeout", "inspect"} : SetCall(c, [stage |-> stage, id |-> id])
    BY DEF DispatchJob, ClaimForTimeout
  <2> QED BY <1>2, <2>1, PlainCall, CallSet, InvariantParts
<1> QED BY <1>1, <1>2, CallerOnly DEF DispatchJob, ClaimForTimeout, Calling

LEMMA EndDispatchKeeps ==
    ASSUME WorkflowInvariant, NEW c \in Callers, EndDispatch(c)
    PROVE  WorkflowInvariant'
<1> PICK id : id = callers[c].id
  OBVIOUS
<1>1. id \in WorkflowIDs
  BY CallerAt DEF EndDispatch, Calling
<1>2. QueueStep
  BY <1>1 DEF EndDispatch, QueueStep
<1>3. ASSUME PlacesKept
      PROVE  CallersOK'
  <2>1. SetCall(c, [stage |-> "inspect", id |-> id])
    BY DEF EndDispatch
  <2> QED BY <1>1, <1>3, <2>1, PlainCall, CallSet, InvariantParts
<1> QED BY <1>2, <1>3, CallerOnly DEF EndDispatch, Calling

LEMMA InspectOutcomeKeeps ==
    ASSUME WorkflowInvariant, NEW c \in Callers, InspectOutcome(c)
    PROVE  WorkflowInvariant'
<1> PICK id : id = callers[c].id
  OBVIOUS
<1>1. id \in WorkflowIDs
  BY CallerAt DEF InspectOutcome, Calling
<1>2. UNCHANGED queue /\ place' = place
  BY DEF InspectOutcome, queue
<1>3. ASSUME PlacesKept
      PROVE  CallersOK'
  <2>1. CASE place[id] \in Outcomes
    <3>1. PICK outcome \in Outcomes : outcome = place[id]
      BY <2>1
    <3>2. SetCall(c, [stage |-> "load", id |-> id, outcome |-> outcome])
      BY <3>1 DEF InspectOutcome, TerminalOutcome, Outcomes
    <3>3. Real(id, outcome)'
      BY <1>2, <3>1 DEF Real
    <3> QED BY <1>1, <1>3, <3>2, <3>3, LoadCall, CallSet, InvariantParts
  <2>2. CASE place[id] \notin Outcomes
    <3>1. SetCall(c, NoCall)
      BY <2>2 DEF InspectOutcome, TerminalOutcome
    <3> QED BY <1>3, <3>1, NoCallOK, CallSet, InvariantParts
  <2> QED BY <2>1, <2>2
<1> QED BY <1>2, <1>3, CallerOnly DEF InspectOutcome, Calling, QueueStep

LEMMA CancelJobKeeps ==
    ASSUME WorkflowInvariant, NEW c \in Callers, NEW id \in WorkflowIDs, CancelJob(c, id)
    PROVE  WorkflowInvariant'
<1>1. QueueStep
  BY DEF CancelJob, QueueStep
<1>2. Real(id, "dropped")'
  <2>1. place' = [place EXCEPT ![id] = "dropped"]
    BY DEF CancelJob, Queue!Drop, Queue!Move
  <2>2. place'[id] = "dropped"
    BY <2>1, InvariantParts DEF QueueTypeOK
  <2> QED BY <2>2 DEF Real
<1>3. ASSUME PlacesKept
      PROVE  CallersOK'
  <2>1. SetCall(c, [stage |-> "load", id |-> id, outcome |-> "dropped"])
    BY DEF CancelJob
  <2>2. "dropped" \in Outcomes
    BY DEF Outcomes
  <2> QED BY <1>2, <1>3, <2>1, <2>2, LoadCall, CallSet, InvariantParts
<1> QED BY <1>1, <1>3, CallerOnly DEF CancelJob, Calling

LEMMA MoveJobKeeps ==
    ASSUME WorkflowInvariant, NEW id \in WorkflowIDs, MoveJob(id)
    PROVE  WorkflowInvariant'
<1>1. QueueStep
  BY DEF MoveJob, QueueStep
<1> QED BY <1>1, CallerOnly, CallersKept, InvariantParts DEF MoveJob

LEMMA TimeoutJobKeeps ==
    ASSUME WorkflowInvariant, NEW c \in Callers, TimeoutJob(c)
    PROVE  WorkflowInvariant'
<1> PICK id : id = callers[c].id
  OBVIOUS
<1>1. id \in WorkflowIDs
  BY CallerAt DEF TimeoutJob, Calling
<1>2. QueueStep
  BY <1>1 DEF TimeoutJob, QueueStep
<1>3. ASSUME PlacesKept
      PROVE  CallersOK'
  <2>1. CASE Queue!Bury(id) /\ SetCall(c, [stage |-> "load", id |-> id, outcome |-> "buried"])
    <3>1. place' = [place EXCEPT ![id] = "buried"]
      BY <2>1 DEF Queue!Bury, Queue!Move
    <3>2. place'[id] = "buried"
      BY <1>1, <3>1, InvariantParts DEF QueueTypeOK
    <3>3. Real(id, "buried")' /\ "buried" \in Outcomes
      BY <3>2 DEF Real, Outcomes
    <3> QED BY <1>1, <1>3, <2>1, <3>3, LoadCall, CallSet, InvariantParts
  <2>2. CASE SetCall(c, NoCall)
    BY <1>3, <2>2, NoCallOK, CallSet, InvariantParts
  <2> QED BY <2>1, <2>2 DEF TimeoutJob
<1> QED BY <1>2, <1>3, CallerOnly DEF TimeoutJob, Calling

LEMMA LoadForOutcomeKeeps ==
    ASSUME WorkflowInvariant, NEW c \in Callers, LoadForOutcome(c)
    PROVE  WorkflowInvariant'
<1> PICK id, outcome : id = callers[c].id /\ outcome = callers[c].outcome
  OBVIOUS
<1> DEFINE w == instances[id]
           next == Driven(ResumeWithChildJob(w, outcome))
<1>1. id \in WorkflowIDs /\ outcome \in Results /\ Real(id, outcome)
  BY CallerAt DEF LoadForOutcome, Calling, CallOK, Calls, Results
<1>2. w \in Instance /\ Sound(id, w)
  BY <1>1, InvariantParts DEF RowsOK
<1>3. ASSUME PlacesKept, w.waiting = "job",
             SetCall(c, [stage |-> "save", id |-> id, next |-> next])
      PROVE  CallersOK'
  <2>1. ResumeWithChildJob(w, outcome) \in Workflows(Steps)
        /\ ResumeWithChildJob(w, outcome).result = outcome
    BY <1>1, <1>2, <1>3, PassedWorkflow
  <2>2. place[id] # "absent"
    BY <1>2, <1>3 DEF Sound, NoInstance
  <2>3. next \in Workflows(Steps) /\ Sound(id, next)
    BY <1>1, <2>1, <2>2, DrivenIsSound
  <2> HIDE DEF next
  <2>4. PICK saved \in Workflows(Steps) : saved = next
    BY <2>3
  <2>5. Sound(id, saved)'
    BY <1>1, <1>3, <2>3, <2>4, SoundnessKept DEF Instance
  <2>6. CallOK([stage |-> "save", id |-> id, next |-> saved])'
    BY <1>1, <2>5 DEF CallOK, Calls
  <2> QED BY <1>3, <2>4, <2>6, CallSet, InvariantParts
<1>4. ASSUME PlacesKept
      PROVE  CallersOK'
  <2>1. \/ w.waiting = "job" /\ SetCall(c, [stage |-> "save", id |-> id, next |-> next])
        \/ SetCall(c, NoCall)
    BY DEF LoadForOutcome, AwaitsChild
  <2> QED BY <1>3, <1>4, <2>1, NoCallOK, CallSet, InvariantParts
<1> QED BY <1>4, CallerOnly DEF LoadForOutcome, Calling, QueueStep

LEMMA SaveResumedKeeps ==
    ASSUME WorkflowInvariant, NEW c \in Callers, SaveResumed(c)
    PROVE  WorkflowInvariant'
<1>1. /\ callers[c].id \in WorkflowIDs
      /\ callers[c].next \in Workflows(Steps)
      /\ Sound(callers[c].id, callers[c].next)
  BY CallerAt DEF SaveResumed, Calling, CallOK, Calls
<1>2. QueueTypeOK' /\ PlacesKept /\ UNCHANGED runtime /\ UNCHANGED message
  BY InvariantParts, QueueMovesOn DEF SaveResumed, Others, QueueStep
<1>3. RowsOK'
  BY <1>1, <1>2, RowSaved, InvariantParts DEF SaveResumed
<1>4. CallersOK'
  BY <1>2, NoCallOK, CallSet, InvariantParts DEF SaveResumed
<1>5. phase = "up"
  BY DEF SaveResumed, Calling
<1> QED BY <1>2, <1>3, <1>4, <1>5, PartsNext, MessageKept, NotRestoring, InvariantParts

LEMMA CallerFailsKeeps ==
    ASSUME WorkflowInvariant, NEW c \in Callers, CallerFails(c)
    PROVE  WorkflowInvariant'
<1>1. PlacesKept => CallersOK'
  BY NoCallOK, CallSet, InvariantParts DEF CallerFails
<1> QED BY <1>1, CallerOnly DEF CallerFails, QueueStep

LEMMA CallerStepKeeps ==
    ASSUME WorkflowInvariant, CallerStep
    PROVE  WorkflowInvariant'
BY DispatchJobKeeps, EndDispatchKeeps, InspectOutcomeKeeps, CancelJobKeeps, MoveJobKeeps,
   TimeoutJobKeeps, LoadForOutcomeKeeps, SaveResumedKeeps, CallerFailsKeeps DEF CallerStep

-----------------------------------------------------------------------------
(* The process and the clock *)

LEMMA RecoverJobKeeps ==
    ASSUME WorkflowInvariant, NEW id \in WorkflowIDs, RecoverJob(id)
    PROVE  WorkflowInvariant'
<1>1. QueueTypeOK' /\ PlacesKept
  BY InvariantParts, QueueMovesOn DEF RecoverJob, QueueStep
<1>2. /\ UNCHANGED runtime /\ UNCHANGED callers /\ UNCHANGED message /\ UNCHANGED rows
      /\ phase = "down"
  BY DEF RecoverJob, Outside
<1> QED BY <1>1, <1>2, InvariantParts, PartsNext, RowsKept, MessageKept, CallersKept, NotRestoring

\* What a step leaves that touches neither messages nor calls nor the queue.
LEMMA RestOK ==
    ASSUME WorkflowInvariant, UNCHANGED <<message, callers, queue>>, RowsOK', RestoreOK'
    PROVE  WorkflowInvariant'
<1>1. QueueTypeOK' /\ PlacesKept
  BY InvariantParts, QueueMovesOn DEF QueueStep
<1> QED BY <1>1, InvariantParts, PartsNext, MessageKept, CallersKept

LEMMA PlacesAsBefore ==
    ASSUME UNCHANGED queue
    PROVE  place' = place /\ PlacesKept
BY DEF queue, PlacesKept

LEMMA PhaseKeeps ==
    ASSUME WorkflowInvariant, BeginRestore \/ EndRestore
    PROVE  WorkflowInvariant'
<1>1. UNCHANGED <<message, callers, rows, queue>>
  BY DEF BeginRestore, EndRestore
<1>2. RowsOK'
  BY <1>1, PlacesAsBefore, RowsKept, InvariantParts
<1>3. restored' = {} /\ phase' \in {"restoring", "up"}
  BY InvariantParts DEF BeginRestore, EndRestore, RestoreOK
<1>4. RestoreOK'
  BY <1>3 DEF RestoreOK
<1> QED BY <1>1, <1>2, <1>4, RestOK

\* A row restored is saved driven on from past its blocking step, or left.
LEMMA RowRestored ==
    ASSUME RowsOK, RestoreOK, phase = "restoring", phase' = phase,
           NEW id \in WorkflowIDs, restored' = restored \cup {id},
           UNCHANGED <<message, callers, queue>>,
           instances[id] \in Workflows(Steps),
           NEW w \in Workflows(Steps), w.waiting # "job", Sound(id, w), SaveInstance(id, w)
    PROVE  RowsOK' /\ RestoreOK'
<1>1. place' = place /\ PlacesKept
  BY PlacesAsBefore
<1>2. instances' = [instances EXCEPT ![id] = w]
  BY DEF SaveInstance
<1>3. RowsOK'
  BY <1>1, RowSaved
<1> QED BY <1>1, <1>2, <1>3 DEF RestoreOK, RowsOK, WaitsInVain, Ended

LEMMA RestoreInstanceKeeps ==
    ASSUME WorkflowInvariant, NEW id \in WorkflowIDs, RestoreInstance(id)
    PROVE  WorkflowInvariant'
<1> DEFINE row == instances[id]
           w == reconcileWaitingChildJob(id, row)
<1>1. /\ RowsOK /\ RestoreOK /\ phase = "restoring" /\ phase' = phase
      /\ restored' = restored \cup {id}
      /\ UNCHANGED <<message, callers, queue>>
      /\ row \in Instance /\ row # NoInstance /\ Sound(id, row)
  BY InvariantParts DEF RestoreInstance, RowsOK, Stored
<1>2. row \in Workflows(Steps)
  BY <1>1 DEF Instance
<1>3. place[id] # "absent" /\ Real(id, row.result) /\ AtRest(row)
  BY <1>1 DEF Sound
<1>4. ASSUME NEW v \in Workflows(Steps), v.index > row.index, row.index \in 1 .. Len(Steps),
             Real(id, v.result), SaveInstance(id, Driven(v))
      PROVE  RowsOK' /\ RestoreOK'
  <2>1. Driven(v) \in Workflows(Steps) /\ Sound(id, Driven(v)) /\ Driven(v).waiting # "job"
    BY <1>2, <1>3, <1>4, DrivenIsSound, NoJobAhead
  <2> QED BY <1>1, <1>2, <1>4, <2>1, RowRestored
<1>5. CASE row.waiting = "job" /\ place[id] \in Outcomes
  <2>1. PICK outcome \in Outcomes : outcome = place[id]
    BY <1>5
  <2>2. outcome \in Results /\ Real(id, outcome)
    BY <2>1 DEF Outcomes, Results, Real
  <2>3. w = ResumeWithChildJob(row, outcome)
    BY <1>5, <2>1 DEF reconcileWaitingChildJob
  <2>4. /\ w \in Workflows(Steps) /\ w.result = outcome
        /\ w.waiting = "none" /\ w.index = row.index + 1
        /\ row.index \in 1 .. Len(Steps)
    BY <1>1, <1>5, <2>2, <2>3, PassedWorkflow
  <2>5. SaveInstance(id, Driven(w))
    BY <2>4 DEF RestoreInstance
  <2> HIDE DEF w
  <2>6. w.index > row.index
    BY <2>4
  <2> QED BY <1>1, <1>4, <2>2, <2>4, <2>5, <2>6, RestOK
<1>6. CASE w = row /\ row.waiting = "sleep" /\ id \in elapsed
  <2>1. SaveInstance(id, Driven(Passed(row)))
    BY <1>6 DEF RestoreInstance
  <2>2. /\ Passed(row) \in Workflows(Steps) /\ Passed(row).result = row.result
        /\ Passed(row).index = row.index + 1 /\ row.index \in 1 .. Len(Steps)
    BY <1>1, <1>6, PassedWorkflow
  <2>3. Passed(row).index > row.index
    BY <2>2
  <2> QED BY <1>1, <1>3, <1>4, <2>1, <2>2, <2>3, RestOK
<1>7. CASE w = row /\ row.waiting = "none"
  <2>1. SaveInstance(id, Driven(row))
    BY <1>7 DEF RestoreInstance
  <2>2. row.index \notin 1 .. Len(Steps)
    BY <1>3, <1>7 DEF AtRest, Blocks, WaitsFor
  <2>3. Driven(row).index \notin 1 .. Len(Steps)
    BY <1>2, <2>2, DrivenWorkflow, StepsAssumption DEF StepsAssumption, Workflows
  <2>4. Driven(row) \in Workflows(Steps) /\ Sound(id, Driven(row))
    BY <1>2, <1>3, DrivenIsSound
  <2>5. Driven(row).waiting # "job"
    BY <2>3, <2>4 DEF Sound, AtRest
  <2> QED BY <1>1, <1>2, <2>1, <2>4, <2>5, RowRestored, RestOK
<1>8. CASE w = row /\ ~(row.waiting = "sleep" /\ id \in elapsed) /\ row.waiting # "none"
           /\ ~WaitsInVain(id)
  <2>1. UNCHANGED rows
    BY <1>8 DEF RestoreInstance
  <2>2. place' = place /\ instances' = instances
    BY <1>1, <2>1 DEF queue, rows
  <2>3. RowsOK'
    BY <1>1, <2>1, PlacesAsBefore, RowsKept
  <2>4. RestoreOK'
    BY <1>1, <1>8, <2>2 DEF RestoreOK, WaitsInVain, Ended
  <2> QED BY <1>1, <2>3, <2>4, RestOK
<1>9. CASE ~(row.waiting = "job" /\ place[id] \in Outcomes)
  <2>1. w = row /\ ~WaitsInVain(id)
    BY <1>9 DEF reconcileWaitingChildJob, WaitsInVain, Ended
  <2> HIDE DEF w, row
  <2> QED BY <1>6, <1>7, <1>8, <2>1
<1> QED BY <1>5, <1>9

LEMMA CrashKeeps ==
    ASSUME WorkflowInvariant, Crash
    PROVE  WorkflowInvariant'
<1>1. UNCHANGED rows /\ UNCHANGED queue
  BY DEF Crash
<1>2. QueueTypeOK' /\ PlacesKept /\ RowsOK'
  BY <1>1, InvariantParts, QueueMovesOn, RowsKept DEF QueueStep
<1>3. MessageOK'
  BY NoMessageOK DEF Crash
<1>4. callers' = [c \in Callers |-> NoCall]
  BY DEF Crash
<1>5. CallersOK'
  BY <1>4, NoCallOK DEF CallersOK
<1>6. RestoreOK'
  BY DEF Crash, RestoreOK
<1> QED BY <1>2, <1>3, <1>5, <1>6, PartsNext

LEMMA SleepEndsKeeps ==
    ASSUME WorkflowInvariant, NEW id \in WorkflowIDs, SleepEnds(id)
    PROVE  WorkflowInvariant'
<1>1. instances' = instances /\ UNCHANGED runtime /\ UNCHANGED <<message, callers, queue>>
  BY DEF SleepEnds
<1>2. place' = place
  BY <1>1 DEF queue
<1>3. \A other \in WorkflowIDs : Sound(other, instances[other])'
  BY <1>1, <1>2, InvariantParts DEF RowsOK, Sound, Real
<1>4. RowsOK'
  BY <1>1, <1>3, InvariantParts DEF RowsOK, SleepEnds
<1>5. RestoreOK'
  BY <1>1, <1>2, InvariantParts DEF RestoreOK, runtime, WaitsInVain, Ended
<1> QED BY <1>1, <1>4, <1>5, RestOK

-----------------------------------------------------------------------------
(* The theorems *)

LEMMA InitHolds ==
    ASSUME Init
    PROVE  WorkflowInvariant
<1>1. QueueTypeOK
  BY DEF Init, Queue!LedgerInit, Queue!Places, QueueTypeOK
<1>2. instances = [id \in WorkflowIDs |-> NoInstance] /\ elapsed = {}
  BY DEF Init
<1>3. AtRest(NoInstance) /\ \A id \in WorkflowIDs : Real(id, NoInstance.result)
  BY StepsAssumption DEF StepsAssumption, AtRest, NoInstance, Real
<1>4. RowsOK
  BY <1>2, <1>3 DEF RowsOK, Sound, Instance
<1>5. MessageOK
  BY DEF Init, MessageOK, NoMessage
<1>6. CallersOK
  BY DEF Init, CallersOK, CallOK, NoCall
<1>7. RestoreOK
  BY DEF Init, RestoreOK
<1> QED BY <1>1, <1>4, <1>5, <1>6, <1>7, InvariantParts

LEMMA NextKeeps ==
    ASSUME WorkflowInvariant, [Next]_vars
    PROVE  WorkflowInvariant'
<1>1. CASE MessageStep
  BY <1>1, MessageStepKeeps
<1>2. CASE CallerStep
  BY <1>2, CallerStepKeeps
<1>3. CASE ProcessStep
  BY <1>3, RecoverJobKeeps, RestoreInstanceKeeps, SleepEndsKeeps, PhaseKeeps, CrashKeeps
  DEF ProcessStep
<1>4. CASE UNCHANGED vars
  <2>1. UNCHANGED <<message, callers, queue>> /\ UNCHANGED rows /\ UNCHANGED runtime
    BY <1>4 DEF vars
  <2>2. RowsOK'
    BY <2>1, PlacesAsBefore, RowsKept, InvariantParts
  <2>3. place' = place /\ instances' = instances
    BY <2>1 DEF queue, rows
  <2>4. RestoreOK'
    BY <2>1, <2>3, InvariantParts DEF RestoreOK, runtime, WaitsInVain, Ended
  <2> QED BY <2>1, <2>2, <2>4, RestOK
<1> QED BY <1>1, <1>2, <1>3, <1>4 DEF Next

\* The workflows, the calls in flight and the queue agree, whatever messages
\* and callers do at the same time, and however often the runtime crashes.
THEOREM WorkflowInvariantHolds == Spec => []WorkflowInvariant
<1>1. Init => WorkflowInvariant
  BY InitHolds
<1>2. WorkflowInvariant /\ [Next]_vars => WorkflowInvariant'
  BY NextKeeps
<1> QED BY <1>1, <1>2, PTL DEF Spec

\* The variables of the workflow runtime keep their types.
THEOREM WorkflowTypeCorrect == Spec => []WorkflowTypeOK
<1>1. WorkflowInvariant => WorkflowTypeOK
  BY DEF WorkflowInvariant
<1> QED BY <1>1, WorkflowInvariantHolds, PTL

\* No workflow waits for a job the queue has not accepted (OnEvent creates the
\* job first).
THEOREM ChildrenAreKnown == Spec => []WaitsForKnownJob
<1>1. WorkflowInvariant => WaitsForKnownJob
  BY DEF WorkflowInvariant, WaitsForKnownJob, Sound, NoInstance
<1> QED BY <1>1, WorkflowInvariantHolds, PTL

\* No workflow goes on with a result its job did not have, though callers read
\* the job, load the workflow and save it in three steps under no lock.
THEOREM ResultsAreReal == Spec => []ResultIsReal
<1>1. WorkflowInvariant => ResultIsReal
  BY DEF WorkflowInvariant, ResultIsReal, Sound
<1> QED BY <1>1, WorkflowInvariantHolds, PTL

\* When Restore is through, no workflow waits for a job that has ended.
THEOREM RestoreMissesNone == Spec => RestoreWakesAll
<1>1. ASSUME WorkflowInvariant, [Next]_vars, phase = "restoring", phase' = "up",
             NEW id \in WorkflowIDs
      PROVE  ~WaitsInVain(id)
  <2>1. EndRestore
    BY <1>1 DEF Next, vars, runtime, MessageStep, CallerStep, ProcessStep, MessageArrives,
      FindWorkflow, FindJob, CancelStaleJob, EnqueueJob, StartOrResume, SaveStartOrResume,
      Answer, MessageFails, Replay, At, DispatchJob, CancelJob, ClaimForTimeout, EndDispatch,
      InspectOutcome, TimeoutJob, LoadForOutcome, SaveResumed, CallerFails, MoveJob, Calling,
      RecoverJob, RestoreInstance, SleepEnds, BeginRestore, Crash
  <2>2. CASE id \in Stored
    BY <1>1, <2>1, <2>2, InvariantParts DEF EndRestore, RestoreOK
  <2>3. CASE id \notin Stored
    BY <2>3 DEF Stored, NoInstance, WaitsInVain
  <2> QED BY <2>2, <2>3
<1>2. WorkflowInvariant /\ [Next]_vars
        => [phase = "restoring" /\ phase' = "up" => \A id \in WorkflowIDs : ~WaitsInVain(id)]_vars
  BY <1>1
<1> QED BY <1>2, WorkflowInvariantHolds, PTL DEF Spec, RestoreWakesAll

-----------------------------------------------------------------------------
(* Confirmation.  A caller drives a workflow on from its child job, which is   *)
(* its first blocking step, so to a point no later than any wait for an event: *)
(* saved late, over a workflow that waits for one, it does not confirm it.     *)

EarlyCall(call) ==
    call.stage = "save" =>
        \A k \in 1 .. Len(Steps) : Steps[k] = "wait_event" => call.next.index <= k

EarlyCalls == \A c \in Callers : EarlyCall(callers[c])

\* The stop is not beyond any step that blocks.
LEMMA StopIsFirst ==
    ASSUME NEW index \in Nat, NEW k \in index .. Len(Steps), Blocks(Steps[k])
    PROVE  Stop(Steps, index) <= k
<1> DEFINE ahead == {i \in index .. Len(Steps) : Blocks(Steps[i])}
<1>1. Len(Steps) \in Nat
  BY StepsAssumption DEF StepsAssumption
<1>2. k \in ahead /\ ahead \subseteq Nat
  BY <1>1
<1>3. Stop(Steps, index) = IF ahead = {} THEN Len(Steps) + 1
                           ELSE CHOOSE i \in ahead : \A j \in ahead : i <= j
  BY DEF Stop
<1> HIDE DEF ahead
<1>4. PICK least \in ahead : \A j \in ahead : least <= j
  BY <1>2, LeastOf
<1>5. \A j \in ahead : (CHOOSE i \in ahead : \A j2 \in ahead : i <= j2) <= j
  BY <1>4, Zenon
<1>6. Stop(Steps, index) = CHOOSE i \in ahead : \A j \in ahead : i <= j
  BY <1>2, <1>3
<1> QED BY <1>2, <1>5, <1>6

\* It is enough to look at the call that is set.
LEMMA EarlyCallSet ==
    ASSUME WorkflowInvariant, EarlyCalls, NEW c \in Callers, NEW call, SetCall(c, call),
           EarlyCall(call)
    PROVE  EarlyCalls'
<1>1. callers \in [Callers -> Calls \cup {NoCall}]
  BY InvariantParts DEF CallersOK
<1>2. \A d \in Callers : callers'[d] = IF d = c THEN call ELSE callers[d]
  BY <1>1 DEF SetCall
<1>3. \A d \in Callers : EarlyCall(callers'[d])
  BY <1>2 DEF EarlyCalls
<1> QED BY <1>3 DEF EarlyCalls, EarlyCall

\* What a child job's outcome makes of its workflow is early.
LEMMA LoadIsEarly ==
    ASSUME WorkflowInvariant, EarlyCalls, NEW c \in Callers, LoadForOutcome(c)
    PROVE  EarlyCalls'
<1> PICK id, outcome : id = callers[c].id /\ outcome = callers[c].outcome
  OBVIOUS
<1> DEFINE w == instances[id]
           resumed == ResumeWithChildJob(w, outcome)
<1>1. id \in WorkflowIDs /\ outcome \in Results
  BY CallerAt DEF LoadForOutcome, Calling, CallOK, Calls, Results
<1>2. w \in Instance /\ Sound(id, w)
  BY <1>1, InvariantParts DEF RowsOK
<1>3. CASE w.waiting = "job"
  <2> DEFINE call == [stage |-> "save", id |-> id, next |-> Driven(resumed)]
  <2>1. SetCall(c, call)
    BY <1>3 DEF LoadForOutcome, AwaitsChild
  <2>2. /\ w.index \in 1 .. Len(Steps)
        /\ resumed \in Workflows(Steps) /\ resumed.index = w.index + 1
    BY <1>1, <1>2, <1>3, PassedWorkflow
  <2>3. Steps[w.index] = "call_job"
    BY <1>2, <1>3, <2>2 DEF Sound, AtRest, Blocks, WaitsFor
  <2>4. Driven(resumed).index = Stop(Steps, w.index + 1)
    BY <2>2 DEF Driven, advanceWorkflowUntilBlocked
  <2>5. ASSUME NEW k \in 1 .. Len(Steps), Steps[k] = "wait_event"
        PROVE  Stop(Steps, w.index + 1) <= k
    <3> PICK j : j = w.index
      OBVIOUS
    <3>1. Len(Steps) \in Nat /\ DOMAIN Steps = 1 .. Len(Steps)
      BY StepsAssumption DEF StepsAssumption
    <3>2. Blocks(Steps[k])
      BY <2>5 DEF Blocks, WaitsFor
    <3>3. j <= k /\ j # k
      BY <2>2, <2>3, <2>5, <3>1, <3>2, StepsAssumption DEF StepsAssumption
    <3>4. k \in j + 1 .. Len(Steps) /\ j + 1 \in Nat
      BY <2>2, <3>1, <3>3
    <3> QED BY <3>2, <3>4, StopIsFirst
  <2>6. call.next.index = Stop(Steps, w.index + 1)
    BY <2>4
  <2> HIDE DEF w, resumed
  <2>7. EarlyCall(call)
    BY <2>5, <2>6 DEF EarlyCall
  <2> HIDE DEF call
  <2> QED BY <2>1, <2>7, EarlyCallSet
<1>4. CASE w.waiting # "job"
  <2>1. SetCall(c, NoCall) /\ EarlyCall(NoCall)
    BY <1>4 DEF LoadForOutcome, AwaitsChild, EarlyCall, NoCall
  <2> QED BY <2>1, EarlyCallSet
<1> QED BY <1>3, <1>4

\* No other step gives a call a workflow to save.
LEMMA CallsStayEarly ==
    ASSUME WorkflowInvariant, EarlyCalls, [Next]_vars
    PROVE  EarlyCalls'
<1>1. ASSUME UNCHANGED callers
      PROVE  EarlyCalls'
  BY <1>1 DEF EarlyCalls, EarlyCall
<1>2. CASE MessageStep
  BY <1>1, <1>2 DEF MessageStep, MessageArrives, FindWorkflow, FindJob, CancelStaleJob, EnqueueJob,
     StartOrResume, SaveStartOrResume, Answer, MessageFails, Replay, Outside
<1>3. ASSUME NEW c \in Callers,
             \/ \E id \in WorkflowIDs :
                 DispatchJob(c, id) \/ CancelJob(c, id) \/ ClaimForTimeout(c, id)
             \/ EndDispatch(c) \/ InspectOutcome(c) \/ TimeoutJob(c)
             \/ SaveResumed(c) \/ CallerFails(c)
      PROVE  EarlyCalls'
  <2>1. \E call : SetCall(c, call) /\ call.stage # "save"
    <3>1. ASSUME NEW id, NEW stage \in {"dispatch", "timeout", "inspect"}
          PROVE  [stage |-> stage, id |-> id].stage # "save"
      OBVIOUS
    <3>2. \A id, outcome : [stage |-> "load", id |-> id, outcome |-> outcome].stage # "save"
      OBVIOUS
    <3>3. NoCall.stage # "save"
      BY DEF NoCall
    <3> QED BY <1>3, <3>1, <3>2, <3>3 DEF DispatchJob, CancelJob, ClaimForTimeout, EndDispatch,
          InspectOutcome, TimeoutJob, SaveResumed, CallerFails
  <2> QED BY <2>1, EarlyCallSet DEF EarlyCall
<1>4. ASSUME NEW c \in Callers, LoadForOutcome(c)
      PROVE  EarlyCalls'
  BY <1>4, LoadIsEarly
<1>5. ASSUME NEW id \in WorkflowIDs, MoveJob(id)
      PROVE  EarlyCalls'
  BY <1>1, <1>5 DEF MoveJob
<1>6. CASE Crash
  <2>1. \A c \in Callers : callers'[c].stage # "save"
    BY <1>6 DEF Crash, NoCall
  <2> QED BY <2>1 DEF EarlyCalls, EarlyCall
<1>7. CASE ProcessStep /\ ~Crash
  BY <1>1, <1>7 DEF ProcessStep, RecoverJob, BeginRestore, RestoreInstance, EndRestore, SleepEnds,
     Outside
<1>8. CASE UNCHANGED vars
  BY <1>1, <1>8 DEF vars
<1> QED BY <1>2, <1>3, <1>4, <1>5, <1>6, <1>7, <1>8 DEF Next, CallerStep

\* A wait for an event is passed by saving a message of the workflow's session.
LEMMA ConfirmedByMessage ==
    ASSUME WorkflowInvariant, EarlyCalls, [Next]_vars,
           NEW id \in WorkflowIDs, instances[id].waiting = "event",
           ~(message.stage = "save" /\ message.id = id)
    PROVE  ~(instances'[id].index > instances[id].index)
<1> PICK k : k = instances[id].index
  OBVIOUS
<1>1. /\ instances \in [WorkflowIDs -> Instance]
      /\ AtRest(instances[id]) /\ instances[id] \in Instance
  BY InvariantParts DEF RowsOK, Sound
<1>2. k \in 1 .. Len(Steps) /\ Steps[k] = "wait_event" /\ k \in Nat
  BY <1>1, StepsAssumption DEF StepsAssumption, AtRest, Blocks, WaitsFor
<1>3. ASSUME instances'[id] = instances[id]
      PROVE  ~(instances'[id].index > instances[id].index)
  BY <1>2, <1>3
<1>4. CASE SaveStartOrResume
  <2>1. instances' = [instances EXCEPT ![message.id] = message.next] /\ message.id # id
    BY <1>4 DEF SaveStartOrResume, SaveInstance, At
  <2>2. instances'[id] = instances[id]
    BY <1>1, <2>1
  <2> QED BY <1>3, <2>2
<1>5. ASSUME NEW c \in Callers, SaveResumed(c)
      PROVE  ~(instances'[id].index > instances[id].index)
  <2> PICK other, w : other = callers[c].id /\ w = callers[c].next
    OBVIOUS
  <2>1. /\ instances' = [instances EXCEPT ![other] = w]
        /\ callers[c].stage = "save" /\ w.index \in Nat
    <3>1. callers[c].next \in Workflows(Steps)
      BY <1>5, CallerAt DEF SaveResumed, Calling, CallOK, Calls
    <3> QED BY <1>5, <3>1, StepsAssumption DEF StepsAssumption, SaveResumed, SaveInstance, Calling,
          Workflows
  <2>2. w.index <= k
    BY <1>2, <2>1 DEF EarlyCalls, EarlyCall
  <2>3. CASE other = id
    <3>1. instances'[id] = w
      BY <1>1, <2>1, <2>3
    <3> QED BY <1>2, <2>1, <2>2, <3>1
  <2>4. CASE other # id
    <3>1. instances'[id] = instances[id]
      BY <1>1, <2>1, <2>4
    <3> QED BY <1>3, <3>1
  <2> QED BY <2>3, <2>4
<1>6. ASSUME NEW other \in WorkflowIDs, RestoreInstance(other)
      PROVE  ~(instances'[id].index > instances[id].index)
  <2>1. CASE other = id
    <3>1. reconcileWaitingChildJob(id, instances[id]) = instances[id]
      BY DEF reconcileWaitingChildJob
    <3>2. UNCHANGED rows
      BY <1>6, <2>1, <3>1 DEF RestoreInstance
    <3> QED BY <1>3, <3>2 DEF rows
  <2>2. CASE other # id
    <3>1. UNCHANGED rows \/ \E w : SaveInstance(other, w)
      BY <1>6 DEF RestoreInstance
    <3>2. instances'[id] = instances[id]
      BY <1>1, <2>2, <3>1 DEF SaveInstance, rows
    <3> QED BY <1>3, <3>2
  <2> QED BY <2>1, <2>2
<1>7. CASE UNCHANGED instances
  BY <1>3, <1>7
<1>8. CASE MessageStep /\ ~SaveStartOrResume
  BY <1>7, <1>8 DEF MessageStep, MessageArrives, FindWorkflow, FindJob, CancelStaleJob, EnqueueJob,
     StartOrResume, Answer, MessageFails, Replay, rows
<1>9. CASE CallerStep /\ ~\E c \in Callers : SaveResumed(c)
  BY <1>7, <1>9 DEF CallerStep, DispatchJob, CancelJob, ClaimForTimeout, EndDispatch,
     InspectOutcome, TimeoutJob, LoadForOutcome, CallerFails, MoveJob, rows
<1>10. CASE ProcessStep /\ ~\E other \in WorkflowIDs : RestoreInstance(other)
  BY <1>7, <1>10 DEF ProcessStep, RecoverJob, BeginRestore, EndRestore, Crash, SleepEnds, rows
<1>11. CASE UNCHANGED vars
  BY <1>7, <1>11 DEF vars, rows
<1> QED BY <1>4, <1>5, <1>6, <1>8, <1>9, <1>10, <1>11 DEF Next

\* Neither a job's outcome, told late or twice, nor a restart passes a wait for
\* an event: only a message of the session does.
THEOREM MessagesConfirm == Spec => OnlyMessagesConfirm
<1>1. Init => EarlyCalls
  BY DEF Init, EarlyCalls, EarlyCall, NoCall
<1>2. WorkflowInvariant /\ EarlyCalls /\ [Next]_vars => EarlyCalls'
  BY CallsStayEarly
<1>3. WorkflowInvariant /\ EarlyCalls /\ [Next]_vars
        => [\A id \in WorkflowIDs :
              instances[id].waiting = "event" /\ instances'[id].index > instances[id].index
                => message.stage = "save" /\ message.id = id]_vars
  BY ConfirmedByMessage
<1> QED BY <1>1, <1>2, <1>3, WorkflowInvariantHolds, PTL DEF Spec, OnlyMessagesConfirm

-----------------------------------------------------------------------------
(* When an outcome does resume its workflow.  The console says it always does  *)
(* (OutcomeResumesWorkflow); the code keeps to it as long as nothing fails and *)
(* no call loads a workflow in the middle of the message that creates it: such *)
(* a call finds nothing to resume, and the message then saves a workflow that  *)
(* waits for a job that has ended.                                             *)

Starts(id) == message.stage \in {"start", "save"} /\ message.id = id

Calm ==
    \A c \in Callers :
        callers[c].stage = "load" /\ callers'[c] # callers[c] => ~Starts(callers[c].id)

CalmSpec == Init /\ [][Next /\ Calm]_vars

\* The child job is not the last thing the workflow waits for: it cannot be over,
\* and its session free for another, before a message has confirmed it.
WaitsForMore == \E i \in DOMAIN Steps : Steps[i] \in {"wait_event", "sleep"}

Fresh(id) == instances[id] = NoInstance

Hungry(id) == Fresh(id) \/ instances[id].waiting = "job"

Telling == {"dispatch", "inspect", "load", "save"}

TellsOf(call, id) == call.stage \in Telling /\ call.id = id

Told(id) == \E c \in Callers : TellsOf(callers[c], id)

StartupIsEmpty ==
    phase # "up" =>
        /\ \A id \in WorkflowIDs : Fresh(id) /\ place[id] = "absent"
        /\ message = NoMessage
        /\ \A c \in Callers : callers[c] = NoCall

\* A job is there without its workflow only while the message that creates both
\* is under way.
JobsBelong ==
    \A id \in WorkflowIDs : place[id] # "absent" /\ Fresh(id) => Starts(id)

\* The end of a job its workflow has not seen is on its way to it.
EndsAreTold ==
    \A id \in WorkflowIDs : Ended(id) /\ Hungry(id) => Told(id)

\* What a message has found is still so.
MessageIsCurrent ==
    /\ message.stage # "cancel_job"
    /\ message.stage = "load_workflow" => ~message.found
    /\ message.stage \in {"inspect_job", "start"} => ~Completed(Steps, instances[message.id])
    /\ message.stage = "inspect_job" => message.found = ~Fresh(message.id)
    /\ message.stage = "enqueue_job" => Fresh(message.id) /\ place[message.id] = "absent"
    /\ message.stage = "save" /\ message.next.waiting = "job" => Fresh(message.id)

\* A call that saves a workflow has passed its job, and not its end.
PastJob(call) ==
    call.stage = "save" =>
        /\ ~Fresh(call.id)
        /\ call.next.waiting # "job"
        /\ ~Completed(Steps, call.next)

CallsPastJob == \A c \in Callers : PastJob(callers[c])

CalmInvariant ==
    /\ StartupIsEmpty
    /\ JobsBelong
    /\ EndsAreTold
    /\ MessageIsCurrent
    /\ CallsPastJob

\* A caller's step, with what becomes of its job.
LEMMA CallerStaysCalm ==
    ASSUME WorkflowInvariant, CalmInvariant, phase = "up", UNCHANGED Others, UNCHANGED rows,
           NEW c \in Callers, NEW id \in WorkflowIDs, NEW call, SetCall(c, call),
           \A i \in WorkflowIDs : (place[i] = "absent") = (place'[i] = "absent"),
           \A i \in WorkflowIDs : i # id /\ Ended(i)' => Ended(i),
           \A i \in WorkflowIDs : TellsOf(callers[c], i) => i = id,
           Ended(id)' /\ Hungry(id)
             => TellsOf(call, id) \/ (Ended(id) /\ ~TellsOf(callers[c], id)),
           PastJob(call)
    PROVE  CalmInvariant'
<1>1. /\ phase' = "up" /\ message' = message /\ instances' = instances
      /\ callers \in [Callers -> Calls \cup {NoCall}]
  BY InvariantParts DEF Others, rows, runtime, CallersOK
<1>2. \A d \in Callers : callers'[d] = IF d = c THEN call ELSE callers[d]
  BY <1>1 DEF SetCall
<1>3. StartupIsEmpty'
  BY <1>1 DEF StartupIsEmpty
<1>4. JobsBelong'
  BY <1>1 DEF CalmInvariant, JobsBelong, Fresh, Starts
<1>5. EndsAreTold'
  <2> SUFFICES ASSUME NEW i \in WorkflowIDs, Ended(i)', Hungry(i)
               PROVE  \E d \in Callers : TellsOf(callers'[d], i)
    BY <1>1 DEF EndsAreTold, Hungry, Fresh, Told, TellsOf
  <2>1. ASSUME NEW d \in Callers, TellsOf(callers[d], i), d # c
        PROVE  \E e \in Callers : TellsOf(callers'[e], i)
    BY <1>2, <2>1
  <2>2. Ended(i) => \E d \in Callers : TellsOf(callers[d], i)
    BY DEF CalmInvariant, EndsAreTold, Told
  <2>3. CASE i # id
    BY <2>1, <2>2, <2>3
  <2>4. CASE i = id
    <3>1. CASE TellsOf(call, id)
      BY <1>2, <2>4, <3>1
    <3>2. CASE Ended(id) /\ ~TellsOf(callers[c], id)
      BY <2>1, <2>2, <2>4, <3>2
    <3> QED BY <2>4, <3>1, <3>2
  <2> QED BY <2>3, <2>4
<1>6. MessageIsCurrent'
  <2>1. message.stage = "enqueue_job" => message.id \in WorkflowIDs
    BY InvariantParts, MessageAt
  <2> QED BY <1>1, <2>1 DEF CalmInvariant, MessageIsCurrent, Fresh
<1>7. CallsPastJob'
  BY <1>1, <1>2 DEF CalmInvariant, CallsPastJob, PastJob, Fresh
<1> QED BY <1>3, <1>4, <1>5, <1>6, <1>7 DEF CalmInvariant

\* What the queue's operations do to a job.
LEMMA PlaceMoved ==
    ASSUME QueueTypeOK, NEW id \in WorkflowIDs, NEW from, NEW to, Queue!Move(id, from, to)
    PROVE  /\ place[id] \in from
           /\ \A i \in WorkflowIDs : place'[i] = IF i = id THEN to ELSE place[i]
BY DEF QueueTypeOK, Queue!Move

\* A caller is idle, or busy with one job.
LEMMA BusyWithOne ==
    ASSUME NEW call, NEW id, call.stage \in {"idle", "timeout"} \/ call.id = id
    PROVE  \A i : TellsOf(call, i) => i = id
BY DEF TellsOf, Telling

LEMMA BeginningStaysCalm ==
    ASSUME WorkflowInvariant, CalmInvariant, NEW c \in Callers, NEW id \in WorkflowIDs,
           DispatchJob(c, id) \/ CancelJob(c, id) \/ ClaimForTimeout(c, id)
    PROVE  CalmInvariant'
<1> PICK busy : busy = callers[c]
  OBVIOUS
<1>1. /\ phase = "up" /\ busy.stage = "idle" /\ UNCHANGED Others /\ UNCHANGED rows
      /\ \A i \in WorkflowIDs : TellsOf(busy, i) => i = id
  BY BusyWithOne DEF DispatchJob, CancelJob, ClaimForTimeout, Calling
<1>2. CASE DispatchJob(c, id)
  <2> DEFINE call == [stage |-> "dispatch", id |-> id]
  <2>1. TellsOf(call, id) /\ PastJob(call) /\ SetCall(c, call)
    BY <1>2 DEF TellsOf, Telling, PastJob, DispatchJob
  <2>2. /\ place[id] \in {"waiting"}
        /\ \A i \in WorkflowIDs : place'[i] = IF i = id THEN "running" ELSE place[i]
    BY <1>2, PlaceMoved, InvariantParts DEF DispatchJob, Queue!Start
  <2> HIDE DEF call
  <2> QED BY <1>1, <2>1, <2>2, CallerStaysCalm DEF Ended, Outcomes
<1>3. CASE CancelJob(c, id)
  <2> DEFINE call == [stage |-> "load", id |-> id, outcome |-> "dropped"]
  <2>1. TellsOf(call, id) /\ PastJob(call) /\ SetCall(c, call)
    BY <1>3 DEF TellsOf, Telling, PastJob, CancelJob
  <2>2. /\ place[id] \in {"waiting"}
        /\ \A i \in WorkflowIDs : place'[i] = IF i = id THEN "dropped" ELSE place[i]
    BY <1>3, PlaceMoved, InvariantParts DEF CancelJob, Queue!Drop
  <2> HIDE DEF call
  <2> QED BY <1>1, <2>1, <2>2, CallerStaysCalm DEF Ended, Outcomes
<1>4. CASE ClaimForTimeout(c, id)
  <2> DEFINE call == [stage |-> "timeout", id |-> id]
  <2>1. PastJob(call) /\ SetCall(c, call)
    BY <1>4 DEF PastJob, ClaimForTimeout
  <2>2. /\ place[id] # "absent" /\ place'[id] = "running"
        /\ \A i \in WorkflowIDs : i # id => place'[i] = place[i]
    <3>1. CASE Queue!Start(id)
      BY <3>1, PlaceMoved, InvariantParts DEF Queue!Start
    <3>2. CASE place[id] = "running" /\ UNCHANGED queue
      BY <3>2 DEF queue
    <3> QED BY <1>4, <3>1, <3>2 DEF ClaimForTimeout
  <2> HIDE DEF call
  <2> QED BY <1>1, <2>1, <2>2, CallerStaysCalm DEF Ended, Outcomes
<1> QED BY <1>2, <1>3, <1>4

LEMMA EndDispatchStaysCalm ==
    ASSUME WorkflowInvariant, CalmInvariant, NEW c \in Callers, EndDispatch(c)
    PROVE  CalmInvariant'
<1> PICK id : id = callers[c].id
  OBVIOUS
<1> DEFINE call == [stage |-> "inspect", id |-> id]
<1>1. /\ id \in WorkflowIDs /\ phase = "up" /\ UNCHANGED Others /\ UNCHANGED rows
      /\ \A i \in WorkflowIDs : TellsOf(callers[c], i) => i = id
  BY CallerAt, BusyWithOne DEF EndDispatch, Calling
<1>2. TellsOf(call, id) /\ PastJob(call) /\ SetCall(c, call)
  BY DEF TellsOf, Telling, PastJob, EndDispatch
<1>3. /\ (place[id] = "absent") = (place'[id] = "absent")
      /\ \A i \in WorkflowIDs : i # id => place'[i] = place[i]
  <2>1. CASE Queue!Finish(id)
    BY <1>1, <2>1, PlaceMoved, InvariantParts DEF Queue!Finish
  <2>2. CASE Queue!Bury(id)
    BY <1>1, <2>2, PlaceMoved, InvariantParts DEF Queue!Bury
  <2>3. CASE UNCHANGED queue
    BY <2>3 DEF queue
  <2> QED BY <2>1, <2>2, <2>3 DEF EndDispatch
<1> HIDE DEF call
<1> QED BY <1>1, <1>2, <1>3, CallerStaysCalm DEF Ended

LEMMA InspectOutcomeStaysCalm ==
    ASSUME WorkflowInvariant, CalmInvariant, NEW c \in Callers, InspectOutcome(c)
    PROVE  CalmInvariant'
<1> PICK id : id = callers[c].id
  OBVIOUS
<1>1. /\ id \in WorkflowIDs /\ phase = "up" /\ UNCHANGED Others /\ UNCHANGED rows
      /\ place' = place
      /\ \A i \in WorkflowIDs : TellsOf(callers[c], i) => i = id
  BY CallerAt, BusyWithOne DEF InspectOutcome, Calling, queue
<1>2. PICK call : SetCall(c, call) /\ (Ended(id) => TellsOf(call, id)) /\ PastJob(call)
  <2> DEFINE told == [stage |-> "load", id |-> id, outcome |-> place[id]]
  <2>1. TellsOf(told, id) /\ PastJob(told) /\ PastJob(NoCall)
    BY DEF TellsOf, Telling, PastJob, NoCall
  <2>2. IF Ended(id) THEN SetCall(c, told) ELSE SetCall(c, NoCall)
    BY DEF InspectOutcome, TerminalOutcome, Ended, Outcomes
  <2> HIDE DEF told
  <2> QED BY <2>1, <2>2
<1> QED BY <1>1, <1>2, CallerStaysCalm DEF Ended

LEMMA TimeoutJobStaysCalm ==
    ASSUME ~Faults, WorkflowInvariant, CalmInvariant, NEW c \in Callers, TimeoutJob(c)
    PROVE  CalmInvariant'
<1> PICK id : id = callers[c].id
  OBVIOUS
<1>1. /\ id \in WorkflowIDs /\ phase = "up" /\ UNCHANGED Others /\ UNCHANGED rows
      /\ \A i \in WorkflowIDs : TellsOf(callers[c], i) => i = id
      /\ ~TellsOf(callers[c], id)
  BY CallerAt, BusyWithOne DEF TimeoutJob, Calling, TellsOf, Telling
<1>2. CASE Queue!Bury(id) /\ SetCall(c, [stage |-> "load", id |-> id, outcome |-> "buried"])
  <2> DEFINE call == [stage |-> "load", id |-> id, outcome |-> "buried"]
  <2>1. TellsOf(call, id) /\ PastJob(call) /\ SetCall(c, call)
    BY <1>2 DEF TellsOf, Telling, PastJob
  <2>2. /\ place[id] \in {"running", "waiting"}
        /\ \A i \in WorkflowIDs : place'[i] = IF i = id THEN "buried" ELSE place[i]
    BY <1>1, <1>2, PlaceMoved, InvariantParts DEF Queue!Bury
  <2> HIDE DEF call
  <2> QED BY <1>1, <2>1, <2>2, CallerStaysCalm DEF Ended
<1>3. CASE SetCall(c, NoCall) /\ UNCHANGED queue
  <2>1. PastJob(NoCall) /\ place' = place
    BY <1>3 DEF PastJob, NoCall, queue
  <2> QED BY <1>1, <1>3, <2>1, CallerStaysCalm DEF Ended
<1> QED BY <1>2, <1>3 DEF TimeoutJob

\* Past its job a workflow that waits for more is not at its end.
LEMMA JobIsNotTheEnd ==
    ASSUME WaitsForMore, NEW w \in Workflows(Steps), AtRest(w), w.waiting = "job",
           NEW v \in Workflows(Steps), v.index = w.index + 1
    PROVE  ~Completed(Steps, Driven(v))
<1> PICK k : k = w.index
  OBVIOUS
<1>1. Len(Steps) \in Nat /\ DOMAIN Steps = 1 .. Len(Steps)
  BY StepsAssumption DEF StepsAssumption
<1>2. k \in 1 .. Len(Steps) /\ Steps[k] = "call_job"
  BY DEF AtRest, Blocks, WaitsFor
<1>3. PICK j \in 1 .. Len(Steps) : Steps[j] \in {"wait_event", "sleep"}
  BY <1>1 DEF WaitsForMore
<1>4. Blocks(Steps[j])
  BY <1>3 DEF Blocks, WaitsFor
<1>5. k <= j /\ k # j
  BY <1>1, <1>2, <1>3, <1>4, StepsAssumption DEF StepsAssumption
<1>6. j \in k + 1 .. Len(Steps) /\ k + 1 \in Nat
  BY <1>1, <1>2, <1>5
<1>7. Stop(Steps, k + 1) <= j
  BY <1>4, <1>6, StopIsFirst
<1>8. Driven(v).index = Stop(Steps, k + 1)
  BY DEF Driven, advanceWorkflowUntilBlocked
<1>9. PICK stop : stop = Driven(v).index /\ stop \in Nat
  BY <1>1, DrivenWorkflow DEF Workflows
<1> QED BY <1>1, <1>7, <1>8, <1>9 DEF Completed

LEMMA LoadForOutcomeStaysCalm ==
    ASSUME WaitsForMore, WorkflowInvariant, CalmInvariant, Calm,
           NEW c \in Callers, LoadForOutcome(c)
    PROVE  CalmInvariant'
<1> PICK id, outcome : id = callers[c].id /\ outcome = callers[c].outcome
  OBVIOUS
<1> DEFINE w == instances[id]
           resumed == ResumeWithChildJob(w, outcome)
<1>1. /\ id \in WorkflowIDs /\ outcome \in Results /\ phase = "up"
      /\ UNCHANGED Others /\ UNCHANGED rows /\ place' = place
      /\ callers[c].stage = "load"
      /\ \A i \in WorkflowIDs : TellsOf(callers[c], i) => i = id
  BY CallerAt, BusyWithOne DEF LoadForOutcome, Calling, CallOK, Calls, Results, queue
<1>2. w \in Instance /\ Sound(id, w)
  BY <1>1, InvariantParts DEF RowsOK
<1>3. CASE w.waiting = "job"
  <2> DEFINE call == [stage |-> "save", id |-> id, next |-> Driven(resumed)]
  <2>1. SetCall(c, call)
    BY <1>3 DEF LoadForOutcome, AwaitsChild
  <2>2. /\ w \in Workflows(Steps) /\ AtRest(w) /\ w.index \in 1 .. Len(Steps)
        /\ resumed \in Workflows(Steps) /\ resumed.index = w.index + 1
    BY <1>1, <1>2, <1>3, PassedWorkflow DEF Sound
  <2>3. ~Completed(Steps, Driven(resumed))
    BY <1>3, <2>2, JobIsNotTheEnd
  <2>4. Driven(resumed).waiting # "job"
    <3>1. resumed.index > w.index
      BY <2>2, StepsAssumption DEF StepsAssumption
    <3> QED BY <2>2, <3>1, NoJobAhead
  <2>5. ~Fresh(id)
    BY <1>3 DEF Fresh, NoInstance
  <2>6. call.stage = "save" /\ call.id = id /\ call.next = Driven(resumed)
    OBVIOUS
  <2> HIDE DEF call, resumed, w
  <2>7. TellsOf(call, id) /\ PastJob(call)
    BY <2>3, <2>4, <2>5, <2>6 DEF TellsOf, Telling, PastJob
  <2> QED BY <1>1, <2>1, <2>7, CallerStaysCalm DEF Ended
<1>4. CASE w.waiting # "job"
  <2>1. SetCall(c, NoCall) /\ PastJob(NoCall)
    BY <1>4 DEF LoadForOutcome, AwaitsChild, PastJob, NoCall
  <2>2. callers'[c] # callers[c]
    BY <1>1, <2>1, InvariantParts DEF CallersOK, SetCall, NoCall
  <2>3. ~Starts(id)
    BY <1>1, <2>2 DEF Calm
  <2>4. ~(Ended(id) /\ Hungry(id))
    BY <1>1, <1>4, <2>3 DEF CalmInvariant, JobsBelong, Hungry, Ended, Outcomes
  <2> QED BY <1>1, <2>1, <2>4, CallerStaysCalm DEF Ended
<1> QED BY <1>3, <1>4

\* A row saved that is no longer waiting for its job, or is the first of its
\* workflow.
LEMMA SavedRow ==
    ASSUME WorkflowInvariant, NEW id \in WorkflowIDs, NEW w \in Workflows(Steps),
           SaveInstance(id, w)
    PROVE  /\ \A i \in WorkflowIDs : i # id => instances'[i] = instances[i]
           /\ instances'[id] = w /\ w # NoInstance
<1>1. instances \in [WorkflowIDs -> Instance]
  BY InvariantParts DEF RowsOK
<1>2. w # NoInstance
  <2>1. w.index # 0
    BY StepsAssumption DEF StepsAssumption, Workflows
  <2> QED BY <2>1 DEF NoInstance
<1> QED BY <1>1, <1>2 DEF SaveInstance

LEMMA SaveResumedStaysCalm ==
    ASSUME WorkflowInvariant, CalmInvariant, NEW c \in Callers, SaveResumed(c)
    PROVE  CalmInvariant'
<1> PICK id, w : id = callers[c].id /\ w = callers[c].next
  OBVIOUS
<1>1. /\ id \in WorkflowIDs /\ w \in Workflows(Steps)
      /\ callers[c].stage = "save"
      /\ phase = "up" /\ phase' = phase /\ message' = message /\ place' = place
  BY CallerAt DEF SaveResumed, Calling, CallOK, Calls, Others, runtime, queue
<1>2. /\ \A i \in WorkflowIDs : i # id => instances'[i] = instances[i]
      /\ instances'[id] = w /\ w # NoInstance
  BY <1>1, SavedRow DEF SaveResumed
<1>3. \A d \in Callers : callers'[d] = IF d = c THEN NoCall ELSE callers[d]
  BY InvariantParts DEF SaveResumed, SetCall, CallersOK
<1>4. ~Fresh(id) /\ w.waiting # "job" /\ ~Completed(Steps, w)
  BY <1>1 DEF CalmInvariant, CallsPastJob, PastJob
<1>5. \A i \in WorkflowIDs : Fresh(i)' = Fresh(i)
  BY <1>2, <1>4 DEF Fresh
<1>6. StartupIsEmpty'
  BY <1>1 DEF StartupIsEmpty
<1>7. JobsBelong'
  BY <1>1, <1>5 DEF CalmInvariant, JobsBelong, Starts
<1>8. EndsAreTold'
  <2> SUFFICES ASSUME NEW i \in WorkflowIDs, Ended(i), Hungry(i)'
               PROVE  \E d \in Callers : TellsOf(callers'[d], i)
    BY <1>1 DEF EndsAreTold, Ended, Told, TellsOf
  <2>1. i # id /\ Hungry(i)
    BY <1>2, <1>4 DEF Hungry, Fresh
  <2>2. PICK d \in Callers : TellsOf(callers[d], i)
    BY <2>1 DEF CalmInvariant, EndsAreTold, Told
  <2>3. d # c
    BY <2>1, <2>2 DEF TellsOf
  <2> QED BY <1>3, <2>2, <2>3
<1>9. MessageIsCurrent'
  <2>1. message.stage \in {"inspect_job", "start", "enqueue_job", "save"}
          => message.id \in WorkflowIDs
    BY InvariantParts, MessageAt
  <2>2. message.stage \in {"inspect_job", "start"} => ~Completed(Steps, instances'[message.id])
    BY <1>2, <1>4, <2>1 DEF CalmInvariant, MessageIsCurrent
  <2> QED BY <1>1, <1>5, <2>1, <2>2 DEF CalmInvariant, MessageIsCurrent, Fresh
<1>10. CallsPastJob'
  <2> SUFFICES ASSUME NEW d \in Callers, callers'[d].stage = "save"
               PROVE  /\ instances'[callers'[d].id] # NoInstance
                      /\ callers'[d].next.waiting # "job"
                      /\ ~Completed(Steps, callers'[d].next)
    BY DEF CallsPastJob, PastJob, Fresh
  <2>1. d # c /\ callers'[d] = callers[d] /\ PastJob(callers[d])
    BY <1>3 DEF CalmInvariant, CallsPastJob, NoCall
  <2>2. callers[d].id \in WorkflowIDs
    BY <2>1, CallerAt
  <2> QED BY <1>5, <2>1, <2>2 DEF PastJob, Fresh
<1> QED BY <1>6, <1>7, <1>8, <1>9, <1>10 DEF CalmInvariant

LEMMA MoveJobStaysCalm ==
    ASSUME WorkflowInvariant, CalmInvariant, NEW id \in WorkflowIDs, MoveJob(id)
    PROVE  CalmInvariant'
<1>1. /\ phase' = phase /\ message' = message /\ instances' = instances /\ callers' = callers
      /\ phase = "up"
  BY DEF MoveJob, Others, rows, runtime
<1>2. /\ \A i \in WorkflowIDs : i # id => place'[i] = place[i]
      /\ place[id] # "absent" /\ place'[id] \in {"held", "waiting"}
  <2>1. CASE Queue!Hold(id)
    BY <2>1, PlaceMoved, InvariantParts DEF Queue!Hold
  <2>2. CASE Queue!Release(id)
    BY <2>2, PlaceMoved, InvariantParts DEF Queue!Release
  <2>3. CASE Queue!Exhume(id)
    BY <2>3, PlaceMoved, InvariantParts DEF Queue!Exhume
  <2> QED BY <2>1, <2>2, <2>3 DEF MoveJob
<1>3. /\ \A i \in WorkflowIDs : (place[i] = "absent") = (place'[i] = "absent")
      /\ \A i \in WorkflowIDs : Ended(i)' => Ended(i)
  BY <1>2 DEF Ended, Outcomes
<1>4. StartupIsEmpty' /\ CallsPastJob'
  BY <1>1 DEF CalmInvariant, StartupIsEmpty, CallsPastJob, PastJob, Fresh
<1>5. JobsBelong'
  BY <1>1, <1>3 DEF CalmInvariant, JobsBelong, Fresh, Starts
<1>6. EndsAreTold'
  BY <1>1, <1>3 DEF CalmInvariant, EndsAreTold, Hungry, Fresh, Told, TellsOf
<1>7. MessageIsCurrent'
  <2>1. message.stage = "enqueue_job" => message.id \in WorkflowIDs
    BY InvariantParts, MessageAt
  <2> QED BY <1>1, <1>3, <2>1 DEF CalmInvariant, MessageIsCurrent, Fresh
<1> QED BY <1>4, <1>5, <1>6, <1>7 DEF CalmInvariant

\* A message's step that leaves the jobs and the rows alone, and does not give up
\* a workflow it was to create.
LEMMA MessageStaysCalm ==
    ASSUME CalmInvariant, phase = "up", UNCHANGED Outside, UNCHANGED rows, place' = place,
           \A id \in WorkflowIDs : Starts(id) /\ Fresh(id) => Starts(id)',
           MessageIsCurrent'
    PROVE  CalmInvariant'
<1>1. phase' = "up" /\ callers' = callers /\ instances' = instances
  BY DEF Outside, rows, runtime
<1>2. StartupIsEmpty' /\ CallsPastJob'
  BY <1>1 DEF CalmInvariant, StartupIsEmpty, CallsPastJob, PastJob, Fresh
<1>3. JobsBelong'
  <2> SUFFICES ASSUME NEW id \in WorkflowIDs, place[id] # "absent", Fresh(id)
               PROVE  Starts(id)'
    BY <1>1 DEF JobsBelong, Fresh
  <2> QED BY DEF CalmInvariant, JobsBelong
<1>4. EndsAreTold'
  BY <1>1 DEF CalmInvariant, EndsAreTold, Ended, Hungry, Fresh, Told, TellsOf
<1> QED BY <1>2, <1>3, <1>4 DEF CalmInvariant

LEMMA NoMessageIsCurrent ==
    ASSUME message' = NoMessage
    PROVE  MessageIsCurrent'
BY DEF MessageIsCurrent, NoMessage

LEMMA MessageArrivesStaysCalm ==
    ASSUME CalmInvariant, NEW s \in Sessions, MessageArrives(s)
    PROVE  CalmInvariant'
<1>1. message'.stage = "load_workflow" /\ message'.found = FALSE
  BY DEF MessageArrives
<1>2. MessageIsCurrent'
  BY <1>1 DEF MessageIsCurrent
<1> QED BY <1>2, MessageStaysCalm DEF MessageArrives, At, Starts, queue

\* A workflow that is not there is not at its end.
LEMMA NoneIsNotCompleted == ~Completed(Steps, NoInstance)
BY StepsAssumption DEF StepsAssumption, Completed, NoInstance

LEMMA FindWorkflowStaysCalm ==
    ASSUME WorkflowInvariant, CalmInvariant, FindWorkflow
    PROVE  CalmInvariant'
<1>1. /\ phase = "up" /\ message.stage = "load_workflow" /\ message \in Messages
      /\ ~message.found
      /\ message.id \in WorkflowIDs /\ place' = place /\ instances' = instances
  BY InvariantParts, MessageAt DEF FindWorkflow, At, queue, rows, CalmInvariant, MessageIsCurrent
<1>2. message.found = FALSE
  BY <1>1 DEF Messages
<1>3. PICK id, found : /\ message'.stage = "inspect_job" /\ message'.id = id
                       /\ message'.found = found
                       /\ ~Completed(Steps, instances[id]) /\ found = ~Fresh(id)
  <2>1. CASE Completed(Steps, instances[message.id])
    <3>1. PICK run \in 1 .. MaxRuns :
            /\ instances[<<message.session, run>>] = NoInstance
            /\ message' = [message EXCEPT !.stage = "inspect_job", !.id = <<message.session, run>>]
      BY <2>1 DEF FindWorkflow
    <3> DEFINE id == <<message.session, run>>
    <3>2. /\ message'.stage = "inspect_job" /\ message'.id = id /\ message'.found = FALSE
      BY <1>1, <1>2, <3>1 DEF Messages
    <3>3. ~Completed(Steps, instances[id]) /\ FALSE = ~Fresh(id)
      BY <3>1, NoneIsNotCompleted DEF Fresh
    <3> QED BY <3>2, <3>3
  <2>2. CASE ~Completed(Steps, instances[message.id])
    <3>1. message' = [message EXCEPT !.stage = "inspect_job",
                                     !.found = instances[message.id] # NoInstance]
      BY <2>2 DEF FindWorkflow
    <3>2. /\ message'.stage = "inspect_job" /\ message'.id = message.id
          /\ message'.found = (instances[message.id] # NoInstance)
      BY <1>1, <3>1 DEF Messages
    <3> QED BY <2>2, <3>2 DEF Fresh
  <2> QED BY <2>1, <2>2
<1>4. MessageIsCurrent'
  BY <1>1, <1>3 DEF MessageIsCurrent, Fresh
<1> QED BY <1>1, <1>4, MessageStaysCalm DEF FindWorkflow, Starts

\* A job that is there has its workflow, so it is never taken for a stale one.
LEMMA FindJobStaysCalm ==
    ASSUME WorkflowInvariant, CalmInvariant, FindJob
    PROVE  CalmInvariant'
<1> PICK id : id = message.id
  OBVIOUS
<1>1. /\ phase = "up" /\ message.stage = "inspect_job" /\ message \in Messages
      /\ id \in WorkflowIDs /\ place' = place /\ instances' = instances
  BY InvariantParts, MessageAt DEF FindJob, At, queue, rows
<1>2. ~Completed(Steps, instances[id]) /\ message.found = ~Fresh(id)
  BY <1>1 DEF CalmInvariant, MessageIsCurrent
<1>3. place[id] # "absent" => ~Fresh(id)
  BY <1>1 DEF CalmInvariant, JobsBelong, Starts
<1>4. place[id] = "absent" => Fresh(id)
  BY <1>1, InvariantParts DEF RowsOK, Sound, Fresh
<1>5. \A stage : Goto(stage) => message'.stage = stage /\ message'.id = id
  BY <1>1 DEF Goto, Messages
<1>6. \/ message'.stage = "enqueue_job" /\ message'.id = id /\ place[id] = "absent"
      \/ message'.stage = "start" /\ message'.id = id
  <2>1. CASE place[id] = "absent"
    <3>1. Goto("enqueue_job")
      BY <2>1 DEF FindJob
    <3> QED BY <1>5, <2>1, <3>1
  <2>2. CASE place[id] # "absent"
    <3>1. message.found
      BY <1>2, <1>3, <2>2
    <3>2. Goto("start")
      BY <2>2, <3>1 DEF FindJob
    <3> QED BY <1>5, <3>2
  <2> QED BY <2>1, <2>2
<1>7. MessageIsCurrent'
  BY <1>1, <1>2, <1>4, <1>6 DEF MessageIsCurrent, Fresh
<1> QED BY <1>1, <1>7, MessageStaysCalm DEF FindJob, Starts

LEMMA EnqueueJobStaysCalm ==
    ASSUME WorkflowInvariant, CalmInvariant, EnqueueJob
    PROVE  CalmInvariant'
<1> PICK id : id = message.id
  OBVIOUS
<1>1. /\ phase = "up" /\ message.stage = "enqueue_job" /\ message \in Messages
      /\ id \in WorkflowIDs /\ phase' = "up" /\ callers' = callers /\ instances' = instances
  BY InvariantParts, MessageAt DEF EnqueueJob, At, Outside, rows, runtime
<1>2. Fresh(id) /\ place[id] = "absent"
  BY <1>1 DEF CalmInvariant, MessageIsCurrent
<1>3. Queue!Accept(id, 0) /\ Goto("start")
  BY <1>2 DEF EnqueueJob
<1>4. message'.stage = "start" /\ message'.id = id
  BY <1>1, <1>3 DEF Goto, Messages
<1>5. \A i \in WorkflowIDs : place'[i] = IF i = id THEN "waiting" ELSE place[i]
  BY <1>1, <1>3, PlaceMoved, InvariantParts DEF Queue!Accept
<1>6. StartupIsEmpty' /\ CallsPastJob'
  BY <1>1 DEF CalmInvariant, StartupIsEmpty, CallsPastJob, PastJob, Fresh
<1>7. JobsBelong'
  <2> SUFFICES ASSUME NEW i \in WorkflowIDs, place'[i] # "absent", Fresh(i), i # id
               PROVE  FALSE
    BY <1>1, <1>4 DEF JobsBelong, Fresh, Starts
  <2> QED BY <1>1, <1>5 DEF CalmInvariant, JobsBelong, Starts
<1>8. EndsAreTold'
  <2>1. \A i \in WorkflowIDs : Ended(i)' => Ended(i)
    BY <1>5 DEF Ended, Outcomes
  <2> QED BY <1>1, <2>1 DEF CalmInvariant, EndsAreTold, Hungry, Fresh, Told, TellsOf
<1>9. MessageIsCurrent'
  <2>1. ~Completed(Steps, instances[id])
    BY <1>2, NoneIsNotCompleted DEF Fresh
  <2> QED BY <1>1, <1>4, <2>1 DEF MessageIsCurrent
<1> QED BY <1>6, <1>7, <1>8, <1>9 DEF CalmInvariant

LEMMA StartOrResumeStaysCalm ==
    ASSUME WorkflowInvariant, CalmInvariant, StartOrResume
    PROVE  CalmInvariant'
<1> PICK id : id = message.id
  OBVIOUS
<1> DEFINE w == instances[id]
<1>1. /\ phase = "up" /\ message.stage = "start"
      /\ id \in WorkflowIDs /\ place' = place /\ instances' = instances
  BY InvariantParts, MessageAt DEF StartOrResume, At, queue, rows
<1>2. w \in Instance /\ Sound(id, w)
  BY <1>1, InvariantParts DEF RowsOK
<1>3. ~Completed(Steps, w)
  BY <1>1 DEF CalmInvariant, MessageIsCurrent
<1>4. ASSUME NEW next, Save(next), next.waiting = "job" => Fresh(id)
      PROVE  CalmInvariant'
  <2>1. message'.stage = "save" /\ message'.id = id /\ message'.next = next
    BY <1>4 DEF Save
  <2>2. MessageIsCurrent'
    BY <1>1, <1>4, <2>1 DEF MessageIsCurrent, Fresh
  <2>3. \A i : Starts(i) => Starts(i)'
    BY <2>1 DEF Starts
  <2> QED BY <1>1, <2>2, <2>3, MessageStaysCalm DEF StartOrResume
<1>5. CASE w = NoInstance
  <2>1. Save(Driven(NewWorkflow)) /\ Fresh(id)
    BY <1>5 DEF StartOrResume, Fresh
  <2> QED BY <1>4, <2>1
<1>6. CASE w # NoInstance /\ Save(Driven(Passed(w))) /\ w.waiting \in {"event", "sleep"}
  <2>1. /\ w \in Workflows(Steps) /\ Passed(w) \in Workflows(Steps)
        /\ Passed(w).index = w.index + 1 /\ w.index \in 1 .. Len(Steps) /\ AtRest(w)
    BY <1>1, <1>2, <1>6, PassedWorkflow DEF Sound
  <2>2. Passed(w).index > w.index
    BY <2>1, StepsAssumption DEF StepsAssumption
  <2>3. Driven(Passed(w)).waiting # "job"
    BY <2>1, <2>2, NoJobAhead
  <2> QED BY <1>4, <1>6, <2>3
<1>7. CASE w # NoInstance /\ message' = NoMessage
  <2>1. \A i \in WorkflowIDs : ~(Starts(i) /\ Fresh(i))
    BY <1>7 DEF Starts, Fresh
  <2> QED BY <1>1, <1>7, <2>1, NoMessageIsCurrent, MessageStaysCalm DEF StartOrResume
<1> QED BY <1>3, <1>5, <1>6, <1>7 DEF StartOrResume

\* The workflow that waits for the job is saved while its end, if it has one, is
\* still to be told.
LEMMA SaveStartOrResumeStaysCalm ==
    ASSUME WorkflowInvariant, CalmInvariant, SaveStartOrResume
    PROVE  CalmInvariant'
<1> PICK id, w : id = message.id /\ w = message.next
  OBVIOUS
<1>1. /\ message.stage = "save" /\ w \in Workflows(Steps) /\ id \in WorkflowIDs
      /\ phase = "up" /\ phase' = phase /\ callers' = callers /\ place' = place
  BY InvariantParts DEF SaveStartOrResume, At, Outside, runtime, queue, MessageOK, Messages,
     NoMessage
<1>2. /\ \A i \in WorkflowIDs : i # id => instances'[i] = instances[i]
      /\ instances'[id] = w /\ w # NoInstance
  BY <1>1, SavedRow DEF SaveStartOrResume
<1>3. message'.stage = "answer"
  BY DEF SaveStartOrResume
<1>4. w.waiting = "job" => Fresh(id)
  BY <1>1 DEF CalmInvariant, MessageIsCurrent
<1>5. \A i \in WorkflowIDs : i # id => (Fresh(i)' <=> Fresh(i))
  BY <1>2 DEF Fresh
<1>6. ~Fresh(id)'
  BY <1>2 DEF Fresh
<1>7. StartupIsEmpty'
  BY <1>1 DEF StartupIsEmpty
<1>8. JobsBelong'
  <2> SUFFICES ASSUME NEW i \in WorkflowIDs, place[i] # "absent", Fresh(i)'
               PROVE  FALSE
    BY <1>1 DEF JobsBelong
  <2> QED BY <1>1, <1>5, <1>6 DEF CalmInvariant, JobsBelong, Starts
<1>9. EndsAreTold'
  <2> SUFFICES ASSUME NEW i \in WorkflowIDs, Ended(i), Hungry(i)'
               PROVE  Hungry(i)
    BY <1>1 DEF CalmInvariant, EndsAreTold, Ended, Told, TellsOf
  <2>1. CASE i = id
    BY <1>2, <1>4, <2>1 DEF Hungry, Fresh
  <2>2. CASE i # id
    BY <1>2, <2>2 DEF Hungry, Fresh
  <2> QED BY <2>1, <2>2
<1>10. MessageIsCurrent'
  BY <1>3 DEF MessageIsCurrent
<1>11. CallsPastJob'
  <2> SUFFICES ASSUME NEW d \in Callers, callers[d].stage = "save"
               PROVE  /\ ~Fresh(callers[d].id)'
                      /\ callers[d].next.waiting # "job"
                      /\ ~Completed(Steps, callers[d].next)
    BY <1>1 DEF CallsPastJob, PastJob, Fresh
  <2>1. PastJob(callers[d])
    BY DEF CalmInvariant, CallsPastJob
  <2>2. callers[d].id \in WorkflowIDs
    BY CallerAt
  <2>3. ~Fresh(callers[d].id)'
    BY <1>1, <1>2, <2>1, <2>2 DEF PastJob, Fresh
  <2> QED BY <2>1, <2>3 DEF PastJob
<1> QED BY <1>7, <1>8, <1>9, <1>10, <1>11 DEF CalmInvariant

\* While nothing fails, the process starts once, with nothing to restore.
LEMMA ProcessStaysCalm ==
    ASSUME ~Faults, WorkflowInvariant, CalmInvariant, ProcessStep
    PROVE  CalmInvariant'
<1>1. ~\E id \in WorkflowIDs : RecoverJob(id)
  BY DEF CalmInvariant, StartupIsEmpty, RecoverJob
<1>2. ~\E id \in WorkflowIDs : RestoreInstance(id)
  BY DEF CalmInvariant, StartupIsEmpty, RestoreInstance, Stored, Fresh
<1>3. /\ message' = message /\ callers' = callers /\ instances' = instances /\ place' = place
      /\ phase = "up" => phase' = "up"
  BY <1>1, <1>2 DEF ProcessStep, BeginRestore, EndRestore, Crash, SleepEnds, rows, queue, runtime
<1>4. StartupIsEmpty' /\ JobsBelong'
  BY <1>3 DEF CalmInvariant, StartupIsEmpty, JobsBelong, Fresh, Starts
<1>5. EndsAreTold'
  BY <1>3 DEF CalmInvariant, EndsAreTold, Ended, Hungry, Fresh, Told, TellsOf
<1>6. MessageIsCurrent' /\ CallsPastJob'
  BY <1>3 DEF CalmInvariant, MessageIsCurrent, CallsPastJob, PastJob, Fresh
<1> QED BY <1>4, <1>5, <1>6 DEF CalmInvariant

LEMMA NextStaysCalm ==
    ASSUME ~Faults, WaitsForMore, WorkflowInvariant, CalmInvariant, [Next /\ Calm]_vars
    PROVE  CalmInvariant'
<1>1. CASE MessageStep
  <2>1. ~CancelStaleJob /\ ~MessageFails /\ ~Replay
    BY DEF CancelStaleJob, MessageFails, Replay, At, CalmInvariant, MessageIsCurrent
  <2>2. CASE Answer
    <3>1. \A id : ~Starts(id)
      BY <2>2 DEF Answer, At, Starts
    <3> QED BY <2>2, <3>1, NoMessageIsCurrent, MessageStaysCalm DEF Answer, At, queue
  <2> QED BY <1>1, <2>1, <2>2, MessageArrivesStaysCalm, FindWorkflowStaysCalm, FindJobStaysCalm,
        EnqueueJobStaysCalm, StartOrResumeStaysCalm, SaveStartOrResumeStaysCalm DEF MessageStep
<1>2. CASE CallerStep /\ Calm
  BY <1>2, BeginningStaysCalm, EndDispatchStaysCalm, InspectOutcomeStaysCalm, TimeoutJobStaysCalm,
     LoadForOutcomeStaysCalm, SaveResumedStaysCalm, MoveJobStaysCalm DEF CallerStep, CallerFails
<1>3. CASE ProcessStep
  BY <1>3, ProcessStaysCalm
<1>4. CASE UNCHANGED vars
  <2>1. /\ message' = message /\ callers' = callers /\ instances' = instances
        /\ place' = place /\ phase' = phase
    BY <1>4 DEF vars, rows, queue, runtime
  <2>2. StartupIsEmpty' /\ JobsBelong'
    BY <2>1 DEF CalmInvariant, StartupIsEmpty, JobsBelong, Fresh, Starts
  <2>3. EndsAreTold'
    BY <2>1 DEF CalmInvariant, EndsAreTold, Ended, Hungry, Fresh, Told, TellsOf
  <2>4. MessageIsCurrent' /\ CallsPastJob'
    BY <2>1 DEF CalmInvariant, MessageIsCurrent, CallsPastJob, PastJob, Fresh
  <2> QED BY <2>2, <2>3, <2>4 DEF CalmInvariant
<1> QED BY <1>1, <1>2, <1>3, <1>4 DEF Next

\* What the console says holds, for every list of steps whose job is not the last
\* thing waited for and however messages, calls and operators interleave, as long
\* as nothing fails and no call loads a workflow that is being created.
THEOREM CalmOutcomesResume ==
    ASSUME ~Faults, WaitsForMore
    PROVE  CalmSpec => []OutcomeResumesWorkflow
<1>1. Init => CalmInvariant
  <2> SUFFICES ASSUME Init
               PROVE  CalmInvariant
    OBVIOUS
  <2>1. \A id \in WorkflowIDs : Fresh(id) /\ place[id] = "absent" /\ ~Ended(id)
    BY DEF Init, Queue!LedgerInit, Fresh, Ended, Outcomes
  <2>2. message = NoMessage /\ \A c \in Callers : callers[c] = NoCall
    BY DEF Init
  <2> QED BY <2>1, <2>2 DEF CalmInvariant, StartupIsEmpty, JobsBelong, EndsAreTold,
        MessageIsCurrent, CallsPastJob, PastJob, NoMessage, NoCall
<1>2. Init => WorkflowInvariant
  BY InitHolds
<1>3. WorkflowInvariant /\ [Next /\ Calm]_vars => WorkflowInvariant'
  BY NextKeeps
<1>4. WorkflowInvariant /\ CalmInvariant /\ [Next /\ Calm]_vars => CalmInvariant'
  BY NextStaysCalm
<1>5. CalmInvariant => OutcomeResumesWorkflow
  BY DEF CalmInvariant, EndsAreTold, OutcomeResumesWorkflow, WaitsInVain, Hungry, Told, TellsOf,
     Telling
<1> QED BY <1>1, <1>2, <1>3, <1>4, <1>5, PTL DEF CalmSpec
=============================================================================
