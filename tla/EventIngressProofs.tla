-------------------------- MODULE EventIngressProofs --------------------------
(***************************************************************************)
(* What EventIngress promises, for any plugins, messages, RBAC snapshots,  *)
(* requests at a time and bounds.                                          *)
(*                                                                         *)
(* The invariant says what is true of a request at each stage: what its    *)
(* delivery rests on, which decisions it was taken through, what it has    *)
(* seen.  Nothing a request relies on is taken back by others: the tables  *)
(* and the handled events only grow, and what operators change is added to *)
(* what the requests under way have seen.                                  *)
(***************************************************************************)
EXTENDS EventIngress, FiniteSetTheorems, TLAPS

Early == {"look", "load", "gate"}
Working == {"next", "authorize", "invoke", "store"}

\* Which requests can be where.
Placed(call) ==
    /\ call.stage = "idle" => call = Idle
    /\ call.stage # "idle" => call.serial \in 1..requests
    /\ call.stage \in {"look", "journal", "key"} => call.kind = "event"
    /\ call.stage \in {"load", "report"} => call.kind = "replay"
    /\ call.stage \in {"authorize", "invoke", "store"} => call.index \in DOMAIN Order

\* A delivered event was handled, and so far nothing else under its number.
Earned(call) ==
    /\ call.stage \in Early => ~call.delivered
    /\ call.delivered => \E p \in Plugins : <<call.event, call.serial, p>> \in handled
    /\ call.stage # "idle" /\ ~call.delivered => \A done \in handled : done[2] # call.serial
    /\ call.stage \in {"journal", "key"} => call.delivered
    /\ call.stage = "key" => call.event \in journal

\* A OneBot message is known by its key, and was not answered before.
Unsettled(call) ==
    /\ call.settled \subseteq answered
    /\ call.message # NoID => call.event.key = call.message /\ call.kind = "event"
    /\ call.stage \notin {"idle", "look"} => call.message \notin call.settled

\* What a request has seen, and what it was let through by.
Allowed(call) ==
    /\ call.stage \in Early \cup Working =>
          /\ Plugins \ disabled \subseteq call.enabled
          /\ Grants(call.kind, rbac) \subseteq call.granted
    /\ call.stage \in Working /\ call.kind = "command" /\ call.event.restricted =>
          call.target \in call.granted
    /\ call.stage \in {"authorize", "invoke"} =>
          /\ ShouldDispatch(call, Order[call.index])
          /\ Order[call.index] \in call.enabled \/ call.unread
    /\ call.stage = "invoke" /\ call.event.restricted /\ call.kind # "command" =>
          Order[call.index] \in call.granted

\* A replay repeats what is in the journal and is no replay.
Repeats(call) ==
    call.kind = "replay" /\ call.stage # "load" =>
        /\ call.event.tagged
        /\ \E event \in journal : event.id = call.source /\ ~event.tagged

CallOK(call) ==
    Placed(call) /\ Earned(call) /\ Unsettled(call) /\ Allowed(call) /\ Repeats(call)

\* Requests are told apart by their numbers, those of the past included.
Numbered ==
    /\ \A c, d \in Callers :
          c # d /\ calls[c].stage # "idle" /\ calls[d].stage # "idle"
              => calls[c].serial # calls[d].serial
    /\ \A replay \in replays :
          /\ replay.serial <= requests
          /\ \A c \in Callers : calls[c].stage # "idle" => calls[c].serial # replay.serial
    /\ \A done \in handled : done[2] <= requests

AnsweredAreKnown == \A m \in answered : KeyKnown(m)

\* The inductive invariant.
IngressInvariant ==
    /\ IngressTypeOK /\ Numbered /\ AnsweredAreKnown
    /\ KeysAreEarned /\ ReplaysAreTrue
    /\ \A c \in Callers : CallOK(calls[c])

-----------------------------------------------------------------------------
(* Steps of one request *)

LEMMA IdleSound ==
    /\ Idle \in Call /\ Idle.stage = "idle"
    /\ CallOK(Idle)
<1>1. NoEvent \in Event
  BY DEF NoEvent, Event, Adapters, Identities
<1>2. Idle \in Call
  <2>1. 0 \in Identities /\ 0 \in Nat
    BY DEF Identities
  <2>2. "idle" \in Stages /\ "event" \in Kinds \cup {"replay"}
    BY DEF Stages, Kinds
  <2>3. NoPlugin \in Plugins \cup {NoPlugin} /\ NoSnapshot \in Snapshot \cup {NoSnapshot}
        /\ NoID \in MessageIDs \cup {NoID}
    OBVIOUS
  <2>4. {} \in SUBSET MessageIDs /\ {} \in SUBSET Plugins
    OBVIOUS
  <2> QED
    BY <1>1, <2>1, <2>2, <2>3, <2>4 DEF Idle, Call
<1>3. CallOK(Idle)
  BY DEF Idle, CallOK, Placed, Earned, Unsettled, Allowed, Repeats, Early, Working
<1> QED
  BY <1>2, <1>3 DEF Idle

\* The store and the history only grow, and what is handled belongs to the request.
Grows(c) ==
    /\ keys \subseteq keys' /\ journal \subseteq journal' /\ answered \subseteq answered'
    /\ handled \subseteq handled'
    /\ \A done \in handled' : done \in handled \/ done[2] = calls[c].serial
    /\ UNCHANGED <<rbac, disabled, requests>>

LEMMA OthersKeep ==
    ASSUME IngressInvariant, NEW c \in Callers, calls[c].stage # "idle", Grows(c),
           NEW k \in Callers, k # c, calls'[k] = calls[k]
    PROVE  CallOK(calls[k])'
<1>1. CallOK(calls[k])
  BY DEF IngressInvariant
<1>2. Placed(calls[k])'
  BY <1>1 DEF CallOK, Placed, Grows
<1>3. Earned(calls[k])'
  <2>1. calls[k].stage # "idle" => calls[k].serial # calls[c].serial
    BY DEF IngressInvariant, Numbered
  <2> QED
    BY <1>1, <2>1 DEF CallOK, Earned, Grows
<1>4. Unsettled(calls[k])'
  BY <1>1 DEF CallOK, Unsettled, Grows
<1>5. Allowed(calls[k])'
  <2>1. disabled' = disabled /\ rbac' = rbac
    BY DEF Grows
  <2> QED
    BY <1>1, <2>1 DEF CallOK, Allowed, Grants, ShouldDispatch
<1>6. Repeats(calls[k])'
  BY <1>1 DEF CallOK, Repeats, Grows
<1> QED
  BY <1>2, <1>3, <1>4, <1>5, <1>6 DEF CallOK

LEMMA StepKeeps ==
    ASSUME IngressInvariant, NEW c \in Callers, calls[c].stage # "idle", NEW d \in Call,
           calls' = [calls EXCEPT ![c] = d],
           d = Idle \/ (d.stage # "idle" /\ d.serial = calls[c].serial),
           Grows(c), IngressTypeOK', CallOK(d)',
           AnsweredAreKnown', KeysAreEarned', ReplaysAreTrue',
           \A replay \in replays' :
              replay \in replays \/ (replay.serial = calls[c].serial /\ d = Idle)
    PROVE  IngressInvariant'
<1>1. \A k \in Callers : calls'[k] = IF k = c THEN d ELSE calls[k]
  BY DEF IngressInvariant, IngressTypeOK
<1>2. ASSUME NEW k \in Callers PROVE CallOK(calls[k])'
  <2>1. CASE k = c
    <3>1. calls'[k] = d
      BY <1>1, <2>1
    <3>2. (Placed(calls[k]) /\ Earned(calls[k]) /\ Unsettled(calls[k]))'
      BY <3>1 DEF CallOK, Placed, Earned, Unsettled
    <3>3. (Allowed(calls[k]) /\ Repeats(calls[k]))'
      BY <3>1 DEF CallOK, Allowed, Repeats, ShouldDispatch
    <3> QED
      BY <3>2, <3>3 DEF CallOK
  <2>2. CASE k # c
    BY <1>1, <2>2, OthersKeep
  <2> QED
    BY <2>1, <2>2
<1>3. calls[c].serial \in 1..requests /\ requests \in Nat
  BY DEF IngressInvariant, CallOK, Placed, IngressTypeOK
<1>4. Numbered'
  <2>1. ASSUME NEW k \in Callers, NEW l \in Callers, k # l,
               calls'[k].stage # "idle", calls'[l].stage # "idle"
        PROVE  calls'[k].serial # calls'[l].serial
    BY <1>1, <2>1, IdleSound DEF IngressInvariant, Numbered
  <2>2. \A replay \in replays' : replay.serial <= requests'
    BY <1>3 DEF IngressInvariant, Numbered, Grows
  <2>3. ASSUME NEW replay \in replays', NEW k \in Callers, calls'[k].stage # "idle"
        PROVE  calls'[k].serial # replay.serial
    BY <1>1, <2>3, IdleSound DEF IngressInvariant, Numbered
  <2>4. \A done \in handled' : done[2] <= requests'
    BY <1>3 DEF IngressInvariant, Numbered, Grows
  <2> QED
    BY <2>1, <2>2, <2>3, <2>4 DEF Numbered
<1> QED
  BY <1>2, <1>4 DEF IngressInvariant

\* A step that changes nothing but its request, and perhaps status rows.
LEMMA QuietStepKeeps ==
    ASSUME IngressInvariant, NEW c \in Callers, calls[c].stage # "idle", NEW d \in Call,
           calls' = [calls EXCEPT ![c] = d],
           d = Idle \/ (d.stage # "idle" /\ d.serial = calls[c].serial),
           UNCHANGED <<rbac, disabled, journal, keys, replays, handled, answered, requests, changes>>,
           snapshots' \in [Plugins -> Snapshot \cup {NoSnapshot}],
           results' \in [Plugins -> Seq(BOOLEAN)], torn' \in SUBSET Plugins, faults' \in Nat,
           CallOK(d)
    PROVE  IngressInvariant'
<1>1. Grows(c)
  BY DEF Grows
<1>2. calls' \in [Callers -> Call]
  BY DEF IngressInvariant, IngressTypeOK
<1>3. IngressTypeOK'
  BY <1>2 DEF IngressInvariant, IngressTypeOK
<1>4. CallOK(d)'
  <2>1. (Placed(d) /\ Earned(d) /\ Unsettled(d))'
    BY DEF CallOK, Placed, Earned, Unsettled
  <2>2. (Allowed(d) /\ Repeats(d))'
    BY DEF CallOK, Allowed, Repeats, Grants, ShouldDispatch
  <2> QED
    BY <2>1, <2>2 DEF CallOK
<1>5. AnsweredAreKnown'
  BY DEF IngressInvariant, AnsweredAreKnown, KeyKnown
<1>6. KeysAreEarned'
  BY DEF IngressInvariant, KeysAreEarned
<1>7. ReplaysAreTrue'
  BY DEF IngressInvariant, ReplaysAreTrue
<1> QED
  BY <1>1, <1>3, <1>4, <1>5, <1>6, <1>7, StepKeeps

LEMMA GrantsType ==
    ASSUME NEW kind, NEW snapshot \in (SUBSET Plugins) \cup {NoSnapshot}
    PROVE  Grants(kind, snapshot) \in SUBSET Plugins
<1>1. CASE snapshot = NoSnapshot
  <2>1. Grants(kind, snapshot) = {} \/ Grants(kind, snapshot) = Plugins
    BY <1>1 DEF Grants
  <2> QED
    BY <2>1
<1>2. CASE snapshot # NoSnapshot
  <2>1. Grants(kind, snapshot) = snapshot
    BY <1>2 DEF Grants
  <2> QED
    BY <1>2, <2>1
<1> QED
  BY <1>1, <1>2

LEMMA ArrivesKeeps ==
    ASSUME IngressInvariant, NEW c \in Callers, NEW call \in Call, Arrives(c, call),
           call.stage \in Early, ~call.delivered,
           call.stage = "look" => call.kind = "event",
           (call.stage = "load") = (call.kind = "replay"),
           call.message # NoID => call.event.key = call.message /\ call.stage = "look"
    PROVE  IngressInvariant'
<1> DEFINE d == [call EXCEPT !.serial = requests + 1, !.settled = answered,
                             !.enabled = Plugins \ disabled,
                             !.granted = Grants(call.kind, rbac)]
<1>1. /\ calls' = [calls EXCEPT ![c] = d] /\ requests' = requests + 1 /\ calls[c] = Idle
      /\ UNCHANGED <<rbac, disabled, journal, keys, snapshots, replays, handled, answered,
                     results, torn, changes, faults>>
  BY DEF Arrives, store, history
<1>2. /\ rbac \in (SUBSET Plugins) \cup {NoSnapshot} /\ disabled \in SUBSET Plugins
      /\ answered \in SUBSET MessageIDs /\ requests \in Nat /\ calls \in [Callers -> Call]
  BY DEF IngressInvariant, IngressTypeOK
<1>3. /\ d \in Call /\ d.stage = call.stage /\ d.kind = call.kind /\ d.event = call.event
      /\ d.delivered = call.delivered /\ d.message = call.message
      /\ d.serial = requests + 1 /\ d.settled = answered /\ d.enabled = Plugins \ disabled
      /\ d.granted = Grants(call.kind, rbac) /\ d.target = call.target
  <2>1. Grants(call.kind, rbac) \in SUBSET Plugins
    BY <1>2, GrantsType
  <2>2. requests + 1 \in Nat
    BY <1>2
  <2> HIDE DEF Early
  <2> QED
    BY <1>2, <2>1, <2>2 DEF Call
<1>4. \A k \in Callers : calls'[k] = IF k = c THEN d ELSE calls[k]
  BY <1>1, <1>2
<1> HIDE DEF d
<1>5. call.stage \in {"look", "load", "gate"}
  BY DEF Early
<1>6. ASSUME NEW k \in Callers PROVE CallOK(calls[k])'
  <2>1. CASE k = c
    <3>1. calls'[k] = d
      BY <1>4, <2>1
    <3>2. Placed(calls[k])'
      BY <1>1, <1>2, <1>3, <1>5, <3>1 DEF Placed
    <3>3. Earned(calls[k])'
      <4>1. \A done \in handled' : done[2] # requests + 1
        BY <1>1, <1>2 DEF IngressInvariant, Numbered, IngressTypeOK
      <4> QED
        BY <1>3, <1>5, <3>1, <4>1 DEF Earned
    <3>4. Unsettled(calls[k])'
      <4>1. d.stage \notin {"idle", "look"} => d.message = NoID
        BY <1>3, <1>5
      <4>2. NoID \notin d.settled
        BY <1>2, <1>3, NamesAssumption
      <4> QED
        BY <1>1, <1>3, <1>5, <3>1, <4>1, <4>2 DEF Unsettled
    <3>5. Allowed(calls[k])'
      BY <1>1, <1>3, <1>5, <3>1 DEF Allowed, Working, Grants
    <3>6. Repeats(calls[k])'
      BY <1>3, <1>5, <3>1 DEF Repeats
    <3> QED
      BY <3>2, <3>3, <3>4, <3>5, <3>6 DEF CallOK
  <2>2. CASE k # c
    <3>1. calls'[k] = calls[k] /\ CallOK(calls[k])
      BY <1>4, <2>2 DEF IngressInvariant
    <3>2. Placed(calls[k])'
      BY <1>1, <1>2, <3>1 DEF CallOK, Placed
    <3>3. Earned(calls[k])' /\ Unsettled(calls[k])' /\ Repeats(calls[k])'
      BY <1>1, <3>1 DEF CallOK, Earned, Unsettled, Repeats
    <3>4. Allowed(calls[k])'
      BY <1>1, <3>1 DEF CallOK, Allowed, Grants, ShouldDispatch
    <3> QED
      BY <3>2, <3>3, <3>4 DEF CallOK
  <2> QED
    BY <2>1, <2>2
<1>7. Numbered'
  <2>1. ASSUME NEW k \in Callers, calls'[k].stage # "idle", k # c
        PROVE  calls'[k].serial # requests + 1 /\ calls'[k] = calls[k]
    <3>1. calls'[k] = calls[k] /\ Placed(calls[k])
      BY <1>4, <2>1 DEF IngressInvariant, CallOK
    <3> QED
      BY <1>2, <2>1, <3>1 DEF Placed
  <2>2. ASSUME NEW k \in Callers, NEW l \in Callers, k # l,
               calls'[k].stage # "idle", calls'[l].stage # "idle"
        PROVE  calls'[k].serial # calls'[l].serial
    BY <1>3, <1>4, <2>1, <2>2 DEF IngressInvariant, Numbered
  <2>3. \A replay \in replays' : replay.serial <= requests /\ replay.serial \in Nat
    BY <1>1 DEF IngressInvariant, Numbered, IngressTypeOK, Dispatch
  <2>4. ASSUME NEW replay \in replays', NEW k \in Callers, calls'[k].stage # "idle"
        PROVE  calls'[k].serial # replay.serial
    <3>1. CASE k = c
      BY <1>2, <1>3, <1>4, <2>3, <3>1
    <3>2. CASE k # c
      BY <1>1, <2>1, <2>4, <3>2 DEF IngressInvariant, Numbered
    <3> QED
      BY <3>1, <3>2
  <2>5. \A done \in handled' : done[2] <= requests'
    <3>1. \A done \in handled : done[2] \in Nat /\ done[2] <= requests
      BY DEF IngressInvariant, Numbered, IngressTypeOK
    <3> QED
      BY <1>1, <1>2, <3>1
  <2>6. \A replay \in replays' : replay.serial <= requests'
    BY <1>1, <1>2, <2>3
  <2> QED
    BY <2>2, <2>4, <2>5, <2>6 DEF Numbered
<1>8. IngressTypeOK'
  <2>1. calls' \in [Callers -> Call] /\ requests' \in Nat
    BY <1>1, <1>2, <1>3
  <2> QED
    BY <1>1, <2>1 DEF IngressInvariant, IngressTypeOK
<1>9. AnsweredAreKnown' /\ KeysAreEarned'
  BY <1>1 DEF IngressInvariant, AnsweredAreKnown, KeyKnown, KeysAreEarned
<1>10. ReplaysAreTrue'
  BY <1>1 DEF IngressInvariant, ReplaysAreTrue
<1> QED
  BY <1>6, <1>7, <1>8, <1>9, <1>10 DEF IngressInvariant

-----------------------------------------------------------------------------
(* The requests *)

LEMMA EventArrives ==
    ASSUME IngressInvariant, NEW c \in Callers, NEW event \in Event,
           NEW id \in MessageIDs \cup {NoID}, id # NoID => event.key = id,
           persistRuntimeEvent(c, event, id)
    PROVE  IngressInvariant'
<1> DEFINE call == [Idle EXCEPT !.stage = "look", !.event = event, !.message = id]
<1>1. Idle \in Call
  BY IdleSound
<1>2. call \in Call
  BY <1>1 DEF Call, Stages
<1>3. /\ call.stage = "look" /\ call.kind = "event" /\ ~call.delivered
      /\ call.event = event /\ call.message = id
  BY DEF Idle
<1>4. Arrives(c, call)
  BY DEF persistRuntimeEvent
<1> HIDE DEF call
<1> QED
  BY <1>2, <1>3, <1>4, ArrivesKeeps DEF Early

LEMMA ReplayArrives ==
    ASSUME IngressInvariant, NEW c \in Callers, NEW event \in journal, ReplayEvent(c, event)
    PROVE  IngressInvariant'
<1> DEFINE call == [Idle EXCEPT !.stage = "load", !.kind = "replay", !.source = event.id]
<1>1. Idle \in Call
  BY IdleSound
<1>2. event.id \in Identities
  BY DEF IngressInvariant, IngressTypeOK, Event
<1>3. call \in Call
  BY <1>1, <1>2 DEF Call, Stages
<1>4. call.stage = "load" /\ call.kind = "replay" /\ ~call.delivered /\ call.message = NoID
  BY DEF Idle
<1>5. Arrives(c, call)
  BY DEF ReplayEvent
<1> HIDE DEF call
<1> QED
  BY <1>3, <1>4, <1>5, ArrivesKeeps DEF Early

LEMMA DirectArrives ==
    ASSUME IngressInvariant, NEW c \in Callers, NEW direct \in Direct, BeginDispatch(c, direct)
    PROVE  IngressInvariant'
<1> DEFINE call == [Idle EXCEPT !.stage = "gate", !.kind = direct.kind, !.target = direct.target,
                            !.event = [NoEvent EXCEPT !.restricted = direct.restricted]]
<1>1. Idle \in Call /\ NoEvent \in Event
  BY IdleSound DEF Idle, Call
<1>2. /\ direct.kind \in Kinds \ {"event"} /\ direct.target \in Plugins \cup {NoPlugin}
      /\ direct.restricted \in BOOLEAN
  BY DirectAssumption
<1>3. [NoEvent EXCEPT !.restricted = direct.restricted] \in Event
  BY <1>1, <1>2 DEF Event
<1>4. call \in Call
  BY <1>1, <1>2, <1>3 DEF Call, Stages
<1>5. call.stage = "gate" /\ call.kind # "replay" /\ ~call.delivered /\ call.message = NoID
  BY <1>2 DEF Idle, Kinds
<1>6. Arrives(c, call)
  BY DEF BeginDispatch
<1> HIDE DEF call
<1> QED
  BY <1>4, <1>5, <1>6, ArrivesKeeps DEF Early

LEMMA RequestKeeps ==
    ASSUME IngressInvariant, NEW c \in Callers, NEW message \in Messages,
           \/ handleOneBotMessage(c, message) \/ HandleWebhook(c, message)
           \/ handleDemoMessage(c, message) \/ dispatchScheduledEvent(c, message)
    PROVE  IngressInvariant'
<1>1. /\ message.adapter \in Adapters /\ message.id \in MessageIDs \cup {NoID}
      /\ message.restricted \in BOOLEAN /\ message.tagged \in BOOLEAN
      /\ (message.id = NoID) = (message.adapter \in {"webhook", "demo"})
  BY MessagesAssumption
<1>2. requests + 1 \in Identities /\ MessageIDs \subseteq Identities
  BY DEF IngressInvariant, IngressTypeOK, Identities
<1>3. NoID \in MessageIDs \cup {NoID}
  OBVIOUS
<1>4. CASE handleOneBotMessage(c, message)
  <2>1. message.id \in MessageIDs
    BY <1>1, <1>4 DEF handleOneBotMessage
  <2>2. /\ ConvertMessageEvent(message, requests + 1) \in Event
        /\ ConvertMessageEvent(message, requests + 1).key = message.id
    BY <1>1, <1>2, <2>1 DEF ConvertMessageEvent, Event, Adapters
  <2> QED
    BY <1>4, <2>1, <2>2, EventArrives DEF handleOneBotMessage
<1>5. CASE HandleWebhook(c, message)
  <2>1. MapPayload(message, requests + 1) \in Event
    BY <1>1, <1>2 DEF MapPayload, Event, Adapters
  <2> QED
    BY <1>3, <1>5, <2>1, EventArrives DEF HandleWebhook
<1>6. CASE handleDemoMessage(c, message)
  <2>1. demoEvent(requests + 1) \in Event
    BY <1>2 DEF demoEvent, NoEvent, Event, Adapters
  <2> QED
    BY <1>3, <1>6, <2>1, EventArrives DEF handleDemoMessage
<1>7. CASE dispatchScheduledEvent(c, message)
  <2>1. message.id \in MessageIDs
    BY <1>1, <1>7 DEF dispatchScheduledEvent
  <2>2. eventForPlan(message, requests + 1) \in Event
    BY <1>1, <1>2, <2>1 DEF eventForPlan, Event, Adapters
  <2> QED
    BY <1>3, <1>7, <2>2, EventArrives DEF dispatchScheduledEvent
<1> QED
  BY <1>4, <1>5, <1>6, <1>7

-----------------------------------------------------------------------------
(* The steps of a request *)

\* What the invariant says of a request under way.
LEMMA UnderWay ==
    ASSUME IngressInvariant, NEW c \in Callers
    PROVE  /\ calls[c] \in Call /\ CallOK(calls[c]) /\ calls \in [Callers -> Call]
           /\ faults \in Nat /\ torn \in SUBSET Plugins
           /\ results \in [Plugins -> Seq(BOOLEAN)]
           /\ snapshots \in [Plugins -> Snapshot \cup {NoSnapshot}]
           /\ rbac \in (SUBSET Plugins) \cup {NoSnapshot}
BY DEF IngressInvariant, IngressTypeOK

LEMMA FaultType == IngressInvariant /\ (Fault \/ NoFault) => faults' \in Nat
BY DEF IngressInvariant, IngressTypeOK, Fault, NoFault

LEMMA LookKeeps ==
    ASSUME IngressInvariant, NEW c \in Callers, HasIdempotencyKey(c)
    PROVE  IngressInvariant'
<1>1. /\ calls[c].stage = "look" /\ faults' \in Nat
      /\ UNCHANGED <<rbac, disabled, journal, keys, snapshots, replays, handled, answered,
                     results, torn, requests, changes>>
  BY FaultType DEF HasIdempotencyKey, At, store, history
<1>2. calls[c] \in Call /\ CallOK(calls[c]) /\ calls \in [Callers -> Call]
  BY UnderWay
<1>3. CASE calls' = [calls EXCEPT ![c] = Idle]
  BY <1>1, <1>3, UnderWay, IdleSound, QuietStepKeeps
<1>4. CASE ~KeyKnown(calls[c].event.key) /\ Goto(c, "gate")
  <2> DEFINE d == [calls[c] EXCEPT !.stage = "gate"]
  <2>1. d \in Call
    BY <1>2 DEF Call, Stages
  <2>2. /\ d.stage = "gate" /\ d.kind = calls[c].kind /\ d.serial = calls[c].serial
        /\ d.event = calls[c].event /\ d.delivered = calls[c].delivered
        /\ d.message = calls[c].message /\ d.settled = calls[c].settled
        /\ d.enabled = calls[c].enabled /\ d.granted = calls[c].granted
    BY <1>2 DEF Call
  <2>3. calls' = [calls EXCEPT ![c] = d]
    BY <1>2, <1>4 DEF Goto
  <2> HIDE DEF d
  <2>4. calls[c].message \notin calls[c].settled
    <3>1. calls[c].settled \subseteq MessageIDs
      BY <1>2 DEF Call
    <3>2. CASE calls[c].message = NoID
      BY <3>1, <3>2, NamesAssumption
    <3>3. CASE calls[c].message # NoID
      BY <1>2, <1>4, <3>3 DEF CallOK, Unsettled, IngressInvariant, AnsweredAreKnown
    <3> QED
      BY <3>2, <3>3
  <2>5. CallOK(d)
    <3>1. calls[c].kind = "event"
      BY <1>1, <1>2 DEF CallOK, Placed
    <3>2. Placed(d) /\ Repeats(d)
      BY <1>1, <1>2, <2>2, <3>1 DEF CallOK, Placed, Repeats
    <3>3. Earned(d)
      BY <1>1, <1>2, <2>2 DEF CallOK, Earned, Early
    <3>4. Unsettled(d)
      BY <1>2, <2>2, <2>4 DEF CallOK, Unsettled
    <3>5. Allowed(d)
      BY <1>1, <1>2, <2>2 DEF CallOK, Allowed, Early, Working
    <3> QED
      BY <3>2, <3>3, <3>4, <3>5 DEF CallOK
  <2> QED
    BY <1>1, <2>1, <2>2, <2>3, <2>5, UnderWay, QuietStepKeeps
<1> QED
  BY <1>3, <1>4 DEF HasIdempotencyKey, End

LEMMA LoadKeeps ==
    ASSUME IngressInvariant, NEW c \in Callers, LoadEvent(c)
    PROVE  IngressInvariant'
<1>1. /\ calls[c].stage = "load" /\ faults' \in Nat
      /\ UNCHANGED <<rbac, disabled, journal, keys, snapshots, replays, handled, answered,
                     results, torn, requests, changes>>
  BY FaultType DEF LoadEvent, At, store, history
<1>2. calls[c] \in Call /\ CallOK(calls[c]) /\ calls \in [Callers -> Call]
  BY UnderWay
<1>3. CASE calls' = [calls EXCEPT ![c] = Idle]
  BY <1>1, <1>3, UnderWay, IdleSound, QuietStepKeeps
<1>4. ASSUME NEW event \in journal, event.id = calls[c].source, ~event.tagged,
             calls' = [calls EXCEPT ![c].stage = "gate",
                                    ![c].event = Replayed(event, calls[c].serial)]
      PROVE  IngressInvariant'
  <2> DEFINE again == Replayed(event, calls[c].serial)
             d == [calls[c] EXCEPT !.stage = "gate", !.event = again]
  <2>1. again \in Event /\ again.tagged
    <3>1. event \in Event /\ calls[c].serial \in Identities
      BY <1>2 DEF IngressInvariant, IngressTypeOK, Call, Identities
    <3> QED
      BY <3>1 DEF Replayed, Event
  <2> HIDE DEF again
  <2>2. d \in Call
    BY <1>2, <2>1 DEF Call, Stages
  <2>3. /\ d.stage = "gate" /\ d.kind = calls[c].kind /\ d.serial = calls[c].serial
        /\ d.event = again /\ d.delivered = calls[c].delivered /\ d.source = calls[c].source
        /\ d.message = calls[c].message /\ d.settled = calls[c].settled
        /\ d.enabled = calls[c].enabled /\ d.granted = calls[c].granted
    BY <1>2 DEF Call
  <2>4. calls' = [calls EXCEPT ![c] = d]
    BY <1>2, <1>4 DEF again
  <2> HIDE DEF d
  <2>5. calls[c].kind = "replay"
    BY <1>1, <1>2 DEF CallOK, Placed
  <2>6. CallOK(d)
    <3>1. Placed(d)
      BY <1>1, <1>2, <2>3, <2>5 DEF CallOK, Placed
    <3>2. Earned(d)
      BY <1>1, <1>2, <2>3 DEF CallOK, Earned, Early
    <3>3. Unsettled(d)
      BY <1>1, <1>2, <2>3, <2>5 DEF CallOK, Unsettled
    <3>4. Allowed(d)
      BY <1>1, <1>2, <2>3 DEF CallOK, Allowed, Early, Working
    <3>5. Repeats(d)
      BY <1>4, <2>1, <2>3 DEF Repeats
    <3> QED
      BY <3>1, <3>2, <3>3, <3>4, <3>5 DEF CallOK
  <2> QED
    BY <1>1, <2>2, <2>3, <2>4, <2>6, UnderWay, QuietStepKeeps
<1> QED
  BY <1>3, <1>4 DEF LoadEvent, End, isReplayTagged

\* A request whose dispatch is over, and that is reported or kept.
LEMMA LeaveKeeps ==
    ASSUME IngressInvariant, NEW c \in Callers, calls[c].stage \in {"gate", "next"},
           NEW stage \in {"journal", "report"}, Leave(c, stage),
           IF stage = "report" THEN calls[c].kind = "replay"
                               ELSE calls[c].kind = "event" /\ calls[c].delivered,
           UNCHANGED <<rbac, store, history, requests, changes, faults>>
    PROVE  IngressInvariant'
<1> DEFINE d == [calls[c] EXCEPT !.stage = stage, !.index = 0, !.enabled = {}, !.granted = {}]
<1>1. UNCHANGED <<rbac, disabled, journal, keys, snapshots, replays, handled, answered,
                  results, torn, requests, changes, faults>>
  BY DEF store, history
<1>2. calls[c] \in Call /\ CallOK(calls[c]) /\ calls \in [Callers -> Call] /\ faults' \in Nat
  BY <1>1, UnderWay
<1>3. d \in Call
  BY <1>2 DEF Call, Stages
<1>4. /\ d.stage = stage /\ d.kind = calls[c].kind /\ d.serial = calls[c].serial
      /\ d.event = calls[c].event /\ d.delivered = calls[c].delivered
      /\ d.source = calls[c].source /\ d.message = calls[c].message
      /\ d.settled = calls[c].settled
  BY <1>2 DEF Call
<1>5. calls' = [calls EXCEPT ![c] = d]
  BY <1>2 DEF Leave
<1> HIDE DEF d
<1>6. CallOK(d)
  <2>1. Placed(d)
    BY <1>2, <1>4 DEF CallOK, Placed
  <2>2. Earned(d)
    BY <1>2, <1>4 DEF CallOK, Earned, Early
  <2>3. Unsettled(d) /\ Repeats(d)
    BY <1>2, <1>4 DEF CallOK, Unsettled, Repeats
  <2>4. Allowed(d)
    BY <1>4 DEF Allowed, Early, Working
  <2> QED
    BY <2>1, <2>2, <2>3, <2>4 DEF CallOK
<1> QED
  BY <1>1, <1>2, <1>3, <1>4, <1>5, <1>6, UnderWay, QuietStepKeeps

LEMMA GateKeeps ==
    ASSUME IngressInvariant, NEW c \in Callers, Gate(c)
    PROVE  IngressInvariant'
<1>1. /\ calls[c].stage = "gate"
      /\ UNCHANGED <<rbac, disabled, journal, keys, snapshots, replays, handled, answered,
                     results, torn, requests, changes, faults>>
      /\ UNCHANGED <<rbac, store, history, requests, changes, faults>>
  BY DEF Gate, At, store, history
<1>2. calls[c] \in Call /\ CallOK(calls[c]) /\ calls \in [Callers -> Call] /\ faults' \in Nat
  BY <1>1, UnderWay
<1>3. CASE calls' = [calls EXCEPT ![c] = Idle]
  BY <1>1, <1>2, <1>3, UnderWay, IdleSound, QuietStepKeeps
<1>4. CASE calls[c].kind = "replay" /\ Leave(c, "report")
  BY <1>1, <1>4, LeaveKeeps
<1>5. CASE /\ calls' = [calls EXCEPT ![c].stage = "next", ![c].index = 1]
           /\ calls[c].kind = "command" => CommandAuthorized(calls[c])
  <2> DEFINE d == [calls[c] EXCEPT !.stage = "next", !.index = 1]
  <2>1. d \in Call
    BY <1>2 DEF Call, Stages
  <2>2. /\ d.stage = "next" /\ d.kind = calls[c].kind /\ d.serial = calls[c].serial
        /\ d.event = calls[c].event /\ d.delivered = calls[c].delivered
        /\ d.source = calls[c].source /\ d.target = calls[c].target
        /\ d.message = calls[c].message /\ d.settled = calls[c].settled
        /\ d.enabled = calls[c].enabled /\ d.granted = calls[c].granted
    BY <1>2 DEF Call
  <2>3. calls' = [calls EXCEPT ![c] = d]
    BY <1>2, <1>5
  <2> HIDE DEF d
  <2>4. /\ Plugins \ disabled \subseteq calls[c].enabled
        /\ Grants(calls[c].kind, rbac) \subseteq calls[c].granted
    BY <1>1, <1>2 DEF CallOK, Allowed, Early
  <2>5. CallOK(d)
    <3>1. Placed(d)
      BY <1>1, <1>2, <2>2 DEF CallOK, Placed
    <3>2. Earned(d)
      BY <1>1, <1>2, <2>2 DEF CallOK, Earned, Early
    <3>3. Unsettled(d) /\ Repeats(d)
      BY <1>1, <1>2, <2>2 DEF CallOK, Unsettled, Repeats
    <3>4. Allowed(d)
      <4>1. calls[c].kind = "command" /\ calls[c].event.restricted =>
                calls[c].target \in calls[c].granted
        BY <1>5, <2>4 DEF CommandAuthorized, Grants
      <4> QED
        BY <2>2, <2>4, <4>1 DEF Allowed
    <3> QED
      BY <3>1, <3>2, <3>3, <3>4 DEF CallOK
  <2> QED
    BY <1>1, <1>2, <2>1, <2>2, <2>3, <2>5, UnderWay, QuietStepKeeps
<1> QED
  BY <1>3, <1>4, <1>5 DEF Gate, End

LEMMA NextPluginKeeps ==
    ASSUME IngressInvariant, NEW c \in Callers, NextPlugin(c)
    PROVE  IngressInvariant'
<1> DEFINE p == Order[calls[c].index]
<1>1. /\ calls[c].stage = "next" /\ calls[c].index \in DOMAIN Order
      /\ UNCHANGED <<rbac, disabled, journal, keys, snapshots, replays, handled, answered,
                     results, torn, requests, changes>>
  BY DEF NextPlugin, At, store, history
<1>2. calls[c] \in Call /\ CallOK(calls[c]) /\ calls \in [Callers -> Call]
  BY UnderWay
<1>3. p \in Plugins
  BY <1>1 DEF Plugins
<1>4. /\ Plugins \ disabled \subseteq calls[c].enabled
      /\ Grants(calls[c].kind, rbac) \subseteq calls[c].granted
      /\ calls[c].kind = "command" /\ calls[c].event.restricted =>
             calls[c].target \in calls[c].granted
  BY <1>1, <1>2 DEF CallOK, Allowed, Working
<1>5. ASSUME PluginEnabled(c, p), ShouldDispatch(calls[c], p),
             calls' = [calls EXCEPT ![c].stage = "authorize", ![c].unread = (faults' # faults)]
      PROVE  IngressInvariant'
  <2>1. PICK unread \in BOOLEAN :
            /\ calls' = [calls EXCEPT ![c].stage = "authorize", ![c].unread = unread]
            /\ faults' # faults => unread
    <3>1. CASE faults' = faults
      <4>1. (faults' # faults) = FALSE
        BY <3>1
      <4> QED
        BY <1>5, <3>1, <4>1
    <3>2. CASE faults' # faults
      <4>1. (faults' # faults) = TRUE
        BY <3>2
      <4> QED
        BY <1>5, <4>1
    <3> QED
      BY <3>1, <3>2
  <2> DEFINE d == [calls[c] EXCEPT !.stage = "authorize", !.unread = unread]
  <2>2. p \in calls[c].enabled \/ unread
    <3>1. faults \in Nat
      BY UnderWay
    <3>2. CASE p \notin disabled
      BY <1>3, <1>4, <3>2
    <3>3. CASE Fault
      BY <2>1, <3>1, <3>3 DEF Fault
    <3> QED
      BY <1>5, <3>2, <3>3 DEF PluginEnabled
  <2>3. faults' \in Nat
    BY <1>5, FaultType DEF PluginEnabled
  <2>4. calls' = [calls EXCEPT ![c] = d]
    BY <1>2, <2>1
  <2>5. d \in Call
    BY <1>2, <2>1 DEF Call, Stages
  <2>6. /\ d.stage = "authorize" /\ d.kind = calls[c].kind /\ d.serial = calls[c].serial
        /\ d.event = calls[c].event /\ d.delivered = calls[c].delivered
        /\ d.source = calls[c].source /\ d.target = calls[c].target
        /\ d.message = calls[c].message /\ d.settled = calls[c].settled
        /\ d.enabled = calls[c].enabled /\ d.granted = calls[c].granted
        /\ d.index = calls[c].index /\ d.unread = unread
    BY <1>2 DEF Call
  <2> HIDE DEF d
  <2>7. CallOK(d)
    <3>1. Placed(d)
      BY <1>1, <1>2, <2>6 DEF CallOK, Placed
    <3>2. Earned(d)
      BY <1>1, <1>2, <2>6 DEF CallOK, Earned, Early
    <3>3. Unsettled(d) /\ Repeats(d)
      BY <1>1, <1>2, <2>6 DEF CallOK, Unsettled, Repeats
    <3>4. ShouldDispatch(d, p)
      BY <1>5, <2>6 DEF ShouldDispatch
    <3>5. Allowed(d)
      BY <1>4, <2>2, <2>6, <3>4 DEF Allowed
    <3> QED
      BY <3>1, <3>2, <3>3, <3>5 DEF CallOK
  <2> QED
    BY <1>1, <2>3, <2>4, <2>5, <2>6, <2>7, UnderWay, QuietStepKeeps
<1>6. ASSUME calls' = [calls EXCEPT ![c].index = @ + 1], NoFault
      PROVE  IngressInvariant'
  <2> DEFINE d == [calls[c] EXCEPT !.index = @ + 1]
  <2>1. d \in Call
    <3>1. calls[c].index + 1 \in Nat
      BY <1>2 DEF Call
    <3> QED
      BY <1>2, <3>1 DEF Call
  <2>2. /\ d.stage = "next" /\ d.kind = calls[c].kind /\ d.serial = calls[c].serial
        /\ d.event = calls[c].event /\ d.delivered = calls[c].delivered
        /\ d.source = calls[c].source /\ d.target = calls[c].target
        /\ d.message = calls[c].message /\ d.settled = calls[c].settled
        /\ d.enabled = calls[c].enabled /\ d.granted = calls[c].granted
    BY <1>1, <1>2 DEF Call
  <2>3. calls' = [calls EXCEPT ![c] = d]
    BY <1>2, <1>6
  <2> HIDE DEF d
  <2>4. CallOK(d)
    <3>1. Placed(d) /\ Unsettled(d) /\ Repeats(d)
      BY <1>1, <1>2, <2>2 DEF CallOK, Placed, Unsettled, Repeats
    <3>2. Earned(d)
      BY <1>1, <1>2, <2>2 DEF CallOK, Earned, Early
    <3>3. Allowed(d)
      BY <1>4, <2>2 DEF Allowed
    <3> QED
      BY <3>1, <3>2, <3>3 DEF CallOK
  <2>5. faults' \in Nat
    BY <1>6, FaultType
  <2> QED
    BY <1>1, <2>1, <2>2, <2>3, <2>4, <2>5, UnderWay, QuietStepKeeps
<1> QED
  BY <1>5, <1>6 DEF NextPlugin, Current

\* recordDispatch leaves a request as it is but for what its plugin made of it.
LEMMA RecordedRequest ==
    ASSUME IngressInvariant, NEW c \in Callers, NEW ok \in BOOLEAN,
           calls[c].stage \in {"authorize", "invoke"}, recordDispatch(c, ok)
    PROVE  \E d \in Call :
              /\ calls' = [calls EXCEPT ![c] = d]
              /\ d.stage = "store" /\ d.kind = calls[c].kind /\ d.serial = calls[c].serial
              /\ d.event = calls[c].event /\ d.delivered = (calls[c].delivered \/ ok)
              /\ d.source = calls[c].source /\ d.target = calls[c].target
              /\ d.index = calls[c].index /\ d.index \in DOMAIN Order
              /\ d.message = calls[c].message /\ d.settled = calls[c].settled
              /\ d.enabled = calls[c].enabled /\ d.granted = calls[c].granted
              /\ Order[calls[c].index] \in Plugins
              /\ results' \in [Plugins -> Seq(BOOLEAN)] /\ torn' \in SUBSET Plugins
<1> DEFINE p == Order[calls[c].index]
           d == [calls[c] EXCEPT !.stage = "store", !.ok = ok,
                                 !.delivered = @ \/ ok, !.loaded = snapshots[p]]
<1>1. /\ calls[c] \in Call /\ CallOK(calls[c]) /\ calls \in [Callers -> Call]
      /\ snapshots \in [Plugins -> Snapshot \cup {NoSnapshot}]
      /\ results \in [Plugins -> Seq(BOOLEAN)] /\ torn \in SUBSET Plugins
  BY UnderWay
<1>2. calls[c].index \in DOMAIN Order
  BY <1>1 DEF CallOK, Placed
<1>3. p \in Plugins
  BY <1>2 DEF Plugins
<1>4. /\ calls' = [calls EXCEPT ![c] = d]
      /\ results' = [results EXCEPT ![p] = Append(@, ok)]
      /\ torn' = torn \/ torn' = torn \cup {p}
  BY <1>1 DEF recordDispatch, Current
<1>5. results' \in [Plugins -> Seq(BOOLEAN)] /\ torn' \in SUBSET Plugins
  BY <1>1, <1>3, <1>4
<1>6. d \in Call
  <2>1. snapshots[p] \in Snapshot \cup {NoSnapshot}
    BY <1>1, <1>3
  <2>2. (calls[c].delivered \/ ok) \in BOOLEAN
    OBVIOUS
  <2> QED
    BY <1>1, <2>1, <2>2 DEF Call, Stages
<1>7. /\ d.stage = "store" /\ d.kind = calls[c].kind /\ d.serial = calls[c].serial
      /\ d.event = calls[c].event /\ d.delivered = (calls[c].delivered \/ ok)
      /\ d.source = calls[c].source /\ d.target = calls[c].target
      /\ d.index = calls[c].index
      /\ d.message = calls[c].message /\ d.settled = calls[c].settled
      /\ d.enabled = calls[c].enabled /\ d.granted = calls[c].granted
  BY <1>1 DEF Call
<1> QED
  BY <1>2, <1>3, <1>4, <1>5, <1>6, <1>7

\* What a recorded dispatch leaves of the invariant, its delivery aside.
LEMMA RecordedSound ==
    ASSUME NEW call \in Call, NEW d \in Call, CallOK(call),
           call.stage \in {"authorize", "invoke"},
           /\ d.stage = "store" /\ d.kind = call.kind /\ d.serial = call.serial
           /\ d.event = call.event
           /\ d.source = call.source /\ d.target = call.target
           /\ d.index = call.index /\ d.index \in DOMAIN Order
           /\ d.message = call.message /\ d.settled = call.settled
           /\ d.enabled = call.enabled /\ d.granted = call.granted
    PROVE  Placed(d) /\ Unsettled(d) /\ Allowed(d) /\ Repeats(d)
<1>1. Placed(d)
  BY DEF CallOK, Placed
<1>2. Unsettled(d) /\ Repeats(d)
  BY DEF CallOK, Unsettled, Repeats
<1>3. Allowed(d)
  BY DEF CallOK, Allowed, Working, Early
<1> QED
  BY <1>1, <1>2, <1>3

LEMMA RefusedKeeps ==
    ASSUME IngressInvariant, NEW c \in Callers, calls[c].stage \in {"authorize", "invoke"},
           recordDispatch(c, FALSE),
           UNCHANGED <<rbac, store, handled, answered, requests, changes, faults>>
    PROVE  IngressInvariant'
<1>1. PICK d \in Call :
              /\ calls' = [calls EXCEPT ![c] = d]
              /\ d.stage = "store" /\ d.kind = calls[c].kind /\ d.serial = calls[c].serial
              /\ d.event = calls[c].event /\ d.delivered = (calls[c].delivered \/ FALSE)
              /\ d.source = calls[c].source /\ d.target = calls[c].target
              /\ d.index = calls[c].index /\ d.index \in DOMAIN Order
              /\ d.message = calls[c].message /\ d.settled = calls[c].settled
              /\ d.enabled = calls[c].enabled /\ d.granted = calls[c].granted
              /\ Order[calls[c].index] \in Plugins
              /\ results' \in [Plugins -> Seq(BOOLEAN)] /\ torn' \in SUBSET Plugins
  BY RecordedRequest
<1>2. calls[c] \in Call /\ CallOK(calls[c]) /\ calls[c].delivered \in BOOLEAN
  BY UnderWay DEF Call
<1>3. Placed(d) /\ Unsettled(d) /\ Allowed(d) /\ Repeats(d)
  BY <1>1, <1>2, RecordedSound
<1>4. Earned(d)
  BY <1>1, <1>2 DEF CallOK, Earned, Early
<1>5. CallOK(d)
  BY <1>3, <1>4 DEF CallOK
<1>6. /\ UNCHANGED <<rbac, disabled, journal, keys, replays, handled, answered, requests, changes>>
      /\ snapshots' = snapshots /\ faults' = faults
  BY DEF store
<1> QED
  BY <1>1, <1>5, <1>6, UnderWay, QuietStepKeeps

LEMMA AuthorizeKeeps ==
    ASSUME IngressInvariant, NEW c \in Callers, Authorize(c)
    PROVE  IngressInvariant'
<1> DEFINE p == Order[calls[c].index]
<1>1. /\ calls[c].stage = "authorize"
      /\ UNCHANGED <<rbac, store, handled, answered, requests, changes, faults>>
      /\ UNCHANGED <<rbac, disabled, journal, keys, snapshots, replays, handled, answered,
                     requests, changes, faults>>
  BY DEF Authorize, At, store
<1>2. CASE recordDispatch(c, FALSE)
  BY <1>1, <1>2, RefusedKeeps
<1>3. ASSUME AuthorizedFor(calls[c], p), Goto(c, "invoke"), UNCHANGED <<results, torn>>
      PROVE  IngressInvariant'
  <2> DEFINE d == [calls[c] EXCEPT !.stage = "invoke"]
  <2>1. calls[c] \in Call /\ CallOK(calls[c]) /\ calls \in [Callers -> Call] /\ faults' \in Nat
    BY <1>1, UnderWay
  <2>2. d \in Call
    BY <2>1 DEF Call, Stages
  <2>3. /\ d.stage = "invoke" /\ d.kind = calls[c].kind /\ d.serial = calls[c].serial
        /\ d.event = calls[c].event /\ d.delivered = calls[c].delivered
        /\ d.source = calls[c].source /\ d.target = calls[c].target
        /\ d.message = calls[c].message /\ d.settled = calls[c].settled
        /\ d.enabled = calls[c].enabled /\ d.granted = calls[c].granted
        /\ d.index = calls[c].index /\ d.unread = calls[c].unread
    BY <2>1 DEF Call
  <2>4. calls' = [calls EXCEPT ![c] = d]
    BY <1>3, <2>1 DEF Goto
  <2> HIDE DEF d
  <2>5. calls[c].index \in DOMAIN Order
    BY <1>1, <2>1 DEF CallOK, Placed
  <2>6. /\ Plugins \ disabled \subseteq calls[c].enabled
        /\ Grants(calls[c].kind, rbac) \subseteq calls[c].granted
        /\ calls[c].kind = "command" /\ calls[c].event.restricted =>
               calls[c].target \in calls[c].granted
        /\ ShouldDispatch(calls[c], p)
        /\ p \in calls[c].enabled \/ calls[c].unread
    BY <1>1, <2>1 DEF CallOK, Allowed, Working
  <2>7. Placed(d) /\ Unsettled(d) /\ Repeats(d)
    BY <1>1, <2>1, <2>3, <2>5 DEF CallOK, Placed, Unsettled, Repeats
  <2>8. Earned(d)
    BY <1>1, <2>1, <2>3 DEF CallOK, Earned, Early
  <2>9. Allowed(d)
    <3>1. ShouldDispatch(d, p)
      BY <2>3, <2>6 DEF ShouldDispatch
    <3>2. calls[c].event.restricted /\ calls[c].kind # "command" => p \in calls[c].granted
      <4>1. p \in Plugins
        BY <2>5 DEF Plugins
      <4> QED
        BY <1>3, <2>6, <4>1 DEF AuthorizedFor, Grants
    <3> QED
      BY <2>3, <2>6, <3>1, <3>2 DEF Allowed
  <2>10. CallOK(d)
    BY <2>7, <2>8, <2>9 DEF CallOK
  <2>11. results' \in [Plugins -> Seq(BOOLEAN)] /\ torn' \in SUBSET Plugins
         /\ snapshots' \in [Plugins -> Snapshot \cup {NoSnapshot}]
    BY <1>1, <1>3, UnderWay
  <2> QED
    BY <1>1, <2>1, <2>2, <2>3, <2>4, <2>10, <2>11, QuietStepKeeps
<1> QED
  BY <1>2, <1>3 DEF Authorize, Current

\* The handler succeeds: what it handled is the request's, under its number.
LEMMA HandledKeeps ==
    ASSUME IngressInvariant, NEW c \in Callers, calls[c].stage = "invoke",
           recordDispatch(c, TRUE),
           handled' = handled \cup {<<calls[c].event, calls[c].serial, Order[calls[c].index]>>},
           UNCHANGED <<rbac, store, answered, requests, changes, faults>>
    PROVE  IngressInvariant'
<1>1. PICK d \in Call :
              /\ calls' = [calls EXCEPT ![c] = d]
              /\ d.stage = "store" /\ d.kind = calls[c].kind /\ d.serial = calls[c].serial
              /\ d.event = calls[c].event /\ d.delivered = (calls[c].delivered \/ TRUE)
              /\ d.source = calls[c].source /\ d.target = calls[c].target
              /\ d.index = calls[c].index /\ d.index \in DOMAIN Order
              /\ d.message = calls[c].message /\ d.settled = calls[c].settled
              /\ d.enabled = calls[c].enabled /\ d.granted = calls[c].granted
              /\ Order[calls[c].index] \in Plugins
              /\ results' \in [Plugins -> Seq(BOOLEAN)] /\ torn' \in SUBSET Plugins
  BY RecordedRequest
<1> DEFINE done == <<calls[c].event, calls[c].serial, Order[calls[c].index]>>
<1>2. /\ calls[c] \in Call /\ CallOK(calls[c])
      /\ calls[c].event \in Event /\ calls[c].serial \in Nat
  BY UnderWay DEF Call
<1>3. done \in Event \X Nat \X Plugins /\ done[2] = calls[c].serial
  BY <1>1, <1>2
<1>4. UNCHANGED <<rbac, disabled, journal, keys, snapshots, replays, answered, requests,
                  changes, faults>>
  BY DEF store
<1>5. handled' = handled \cup {done}
  OBVIOUS
<1> HIDE DEF done
<1>6. Grows(c)
  BY <1>3, <1>4, <1>5 DEF Grows
<1>7. IngressTypeOK'
  <2>1. calls' \in [Callers -> Call]
    BY <1>1, UnderWay
  <2>2. handled' \in SUBSET (Event \X Nat \X Plugins)
    BY <1>3, <1>5 DEF IngressInvariant, IngressTypeOK
  <2> QED
    BY <1>1, <1>4, <2>1, <2>2 DEF IngressInvariant, IngressTypeOK
<1>8. CallOK(d)'
  <2>1. Placed(d) /\ Unsettled(d) /\ Allowed(d) /\ Repeats(d)
    BY <1>1, <1>2, RecordedSound
  <2>2. Placed(d)' /\ Unsettled(d)' /\ Repeats(d)'
    BY <1>4, <2>1 DEF Placed, Unsettled, Repeats
  <2>3. Allowed(d)'
    BY <1>4, <2>1 DEF Allowed, Grants, ShouldDispatch
  <2>4. Earned(d)'
    BY <1>1, <1>5 DEF Earned, Early, done
  <2> QED
    BY <2>2, <2>3, <2>4 DEF CallOK
<1>9. AnsweredAreKnown'
  BY <1>4 DEF IngressInvariant, AnsweredAreKnown, KeyKnown
<1>10. KeysAreEarned'
  BY <1>4, <1>5 DEF IngressInvariant, KeysAreEarned
<1>11. ReplaysAreTrue'
  <2>1. \A replay \in replays : replay.serial # calls[c].serial
    BY DEF IngressInvariant, Numbered
  <2> QED
    BY <1>3, <1>4, <1>5, <2>1 DEF IngressInvariant, ReplaysAreTrue
<1> QED
  BY <1>1, <1>4, <1>6, <1>7, <1>8, <1>9, <1>10, <1>11, StepKeeps

LEMMA InvokeKeeps ==
    ASSUME IngressInvariant, NEW c \in Callers, InvokePlugin(c)
    PROVE  IngressInvariant'
<1>1. /\ calls[c].stage = "invoke"
      /\ UNCHANGED <<rbac, store, answered, requests, changes, faults>>
  BY DEF InvokePlugin, At
<1>2. CASE recordDispatch(c, FALSE) /\ handled' = handled
  BY <1>1, <1>2, RefusedKeeps
<1>3. CASE /\ recordDispatch(c, TRUE)
           /\ handled' = handled \cup {<<calls[c].event, calls[c].serial, Current(c)>>}
  BY <1>1, <1>3, HandledKeeps DEF Current
<1>4. \E ok \in BOOLEAN :
          /\ recordDispatch(c, ok)
          /\ handled' = IF ok THEN handled \cup {<<calls[c].event, calls[c].serial, Current(c)>>}
                              ELSE handled
  BY DEF InvokePlugin
<1>5. PICK ok \in BOOLEAN :
          /\ recordDispatch(c, ok)
          /\ handled' = IF ok THEN handled \cup {<<calls[c].event, calls[c].serial, Current(c)>>}
                              ELSE handled
  BY <1>4
<1>6. CASE ok = TRUE
  BY <1>3, <1>5, <1>6
<1>7. CASE ok = FALSE
  BY <1>2, <1>5, <1>7
<1> QED
  BY <1>6, <1>7

LEMMA SnapshotRowType ==
    ASSUME NEW row \in Snapshot \cup {NoSnapshot}, NEW ok \in BOOLEAN
    PROVE  nextPluginStatusSnapshot(row, ok) \in Snapshot
<1> DEFINE before == IF row = NoSnapshot THEN [ok |-> TRUE, streak |-> 0, recovered |-> 0] ELSE row
<1>1. before \in Snapshot
  BY DEF Snapshot
<1> HIDE DEF before
<1>2. CASE ok
  <2>1. (IF before.streak > 0 THEN before.streak ELSE before.recovered) \in Nat
    BY <1>1 DEF Snapshot
  <2> QED
    BY <1>2, <2>1 DEF nextPluginStatusSnapshot, Snapshot, before
<1>3. CASE ~ok
  <2>1. (IF before.ok THEN 1 ELSE before.streak + 1) \in Nat
    BY <1>1 DEF Snapshot
  <2>2. nextPluginStatusSnapshot(row, ok) =
            [before EXCEPT !.ok = FALSE, !.streak = IF before.ok THEN 1 ELSE before.streak + 1]
    BY <1>3 DEF nextPluginStatusSnapshot, before
  <2> QED
    BY <1>1, <2>1, <2>2 DEF Snapshot
<1> QED
  BY <1>2, <1>3

LEMMA SnapshotKeeps ==
    ASSUME IngressInvariant, NEW c \in Callers, SavePluginStatusSnapshot(c)
    PROVE  IngressInvariant'
<1> DEFINE p == Order[calls[c].index]
           d == [calls[c] EXCEPT !.stage = "next", !.index = @ + 1, !.ok = FALSE,
                                 !.loaded = NoSnapshot, !.unread = FALSE]
<1>1. /\ calls[c].stage = "store" /\ faults' \in Nat
      /\ UNCHANGED <<rbac, disabled, journal, keys, replays, handled, answered, results,
                     requests, changes>>
  BY FaultType DEF SavePluginStatusSnapshot, At
<1>2. calls[c] \in Call /\ CallOK(calls[c]) /\ calls \in [Callers -> Call]
  BY UnderWay
<1>3. calls[c].index \in DOMAIN Order /\ p \in Plugins
  BY <1>1, <1>2 DEF CallOK, Placed, Plugins
<1>4. d \in Call
  <2>1. calls[c].index + 1 \in Nat
    BY <1>2 DEF Call
  <2> QED
    BY <1>2, <2>1 DEF Call, Stages
<1>5. /\ d.stage = "next" /\ d.kind = calls[c].kind /\ d.serial = calls[c].serial
      /\ d.event = calls[c].event /\ d.delivered = calls[c].delivered
      /\ d.source = calls[c].source /\ d.target = calls[c].target
      /\ d.message = calls[c].message /\ d.settled = calls[c].settled
      /\ d.enabled = calls[c].enabled /\ d.granted = calls[c].granted
  BY <1>2 DEF Call
<1>6. calls' = [calls EXCEPT ![c] = d]
  BY <1>2 DEF SavePluginStatusSnapshot
<1> HIDE DEF d
<1>7. CallOK(d)
  <2>1. Placed(d) /\ Unsettled(d) /\ Repeats(d)
    BY <1>1, <1>2, <1>5 DEF CallOK, Placed, Unsettled, Repeats
  <2>2. Earned(d)
    BY <1>1, <1>2, <1>5 DEF CallOK, Earned, Early
  <2>3. Allowed(d)
    BY <1>1, <1>2, <1>5 DEF CallOK, Allowed, Working
  <2> QED
    BY <2>1, <2>2, <2>3 DEF CallOK
<1>8. /\ snapshots' \in [Plugins -> Snapshot \cup {NoSnapshot}]
      /\ torn' \in SUBSET Plugins /\ results' \in [Plugins -> Seq(BOOLEAN)]
  <2>1. nextPluginStatusSnapshot(calls[c].loaded, calls[c].ok) \in Snapshot
    BY <1>2, SnapshotRowType DEF Call
  <2>2. \/ snapshots' = [snapshots EXCEPT ![p] =
                            nextPluginStatusSnapshot(calls[c].loaded, calls[c].ok)]
        \/ snapshots' = snapshots
    BY DEF SavePluginStatusSnapshot, Current
  <2>3. torn' = torn \/ torn' = torn \cup {p}
    BY DEF SavePluginStatusSnapshot, Current
  <2> QED
    BY <1>1, <1>3, <2>1, <2>2, <2>3, UnderWay
<1> QED
  BY <1>1, <1>4, <1>5, <1>6, <1>7, <1>8, QuietStepKeeps

LEMMA EndKeeps ==
    ASSUME IngressInvariant, NEW c \in Callers, EndDispatch(c)
    PROVE  IngressInvariant'
<1>1. /\ calls[c].stage = "next"
      /\ UNCHANGED <<rbac, store, history, requests, changes, faults>>
      /\ UNCHANGED <<rbac, disabled, journal, keys, snapshots, replays, handled, answered,
                     results, torn, requests, changes, faults>>
  BY DEF EndDispatch, At, store, history
<1>2. CASE calls[c].kind = "replay" /\ Leave(c, "report")
  BY <1>1, <1>2, LeaveKeeps
<1>3. CASE calls[c].kind = "event" /\ calls[c].delivered /\ Leave(c, "journal")
  BY <1>1, <1>3, LeaveKeeps
<1>4. CASE calls' = [calls EXCEPT ![c] = Idle]
  <2>1. faults' \in Nat /\ torn' \in SUBSET Plugins /\ results' \in [Plugins -> Seq(BOOLEAN)]
        /\ snapshots' \in [Plugins -> Snapshot \cup {NoSnapshot}]
    BY <1>1, UnderWay
  <2> QED
    BY <1>1, <1>4, <2>1, IdleSound, QuietStepKeeps
<1> QED
  BY <1>2, <1>3, <1>4 DEF EndDispatch, Settle, End

LEMMA RecordKeeps ==
    ASSUME IngressInvariant, NEW c \in Callers, RecordEvent(c)
    PROVE  IngressInvariant'
<1>1. /\ calls[c].stage = "journal" /\ faults' \in Nat
      /\ UNCHANGED <<rbac, disabled, keys, snapshots, replays, handled, answered,
                     results, torn, requests, changes>>
  BY FaultType DEF RecordEvent, At, history
<1>2. calls[c] \in Call /\ CallOK(calls[c]) /\ calls \in [Callers -> Call]
  BY UnderWay
<1>3. CASE calls' = [calls EXCEPT ![c] = Idle] /\ journal' = journal
  BY <1>1, <1>3, UnderWay, IdleSound, QuietStepKeeps
<1>4. CASE journal' = journal \cup {calls[c].event} /\ Goto(c, "key")
  <2>1. PICK d \in Call :
            /\ calls' = [calls EXCEPT ![c] = d]
            /\ d.stage = "key" /\ d.kind = calls[c].kind /\ d.serial = calls[c].serial
            /\ d.event = calls[c].event /\ d.delivered = calls[c].delivered
            /\ d.message = calls[c].message /\ d.settled = calls[c].settled
    <3> DEFINE e == [calls[c] EXCEPT !.stage = "key"]
    <3>1. e \in Call
      BY <1>2 DEF Call, Stages
    <3>2. /\ e.stage = "key" /\ e.kind = calls[c].kind /\ e.serial = calls[c].serial
          /\ e.event = calls[c].event /\ e.delivered = calls[c].delivered
          /\ e.message = calls[c].message /\ e.settled = calls[c].settled
      BY <1>2 DEF Call
    <3>3. calls' = [calls EXCEPT ![c] = e]
      BY <1>2, <1>4 DEF Goto
    <3> QED
      BY <3>1, <3>2, <3>3
  <2>2. Grows(c)
    BY <1>1, <1>4 DEF Grows
  <2>3. IngressTypeOK'
    <3>1. calls' \in [Callers -> Call]
      BY <1>2, <2>1
    <3>2. journal' \in SUBSET Event
      BY <1>2, <1>4 DEF IngressInvariant, IngressTypeOK, Call
    <3> QED
      BY <1>1, <3>1, <3>2 DEF IngressInvariant, IngressTypeOK
  <2>4. CallOK(d)'
    <3>1. calls[c].kind = "event" /\ calls[c].delivered
      BY <1>1, <1>2 DEF CallOK, Placed, Earned
    <3>2. Placed(d)' /\ Repeats(d)'
      BY <1>1, <1>2, <2>1, <3>1 DEF CallOK, Placed, Repeats
    <3>3. Earned(d)'
      BY <1>1, <1>2, <1>4, <2>1, <3>1 DEF CallOK, Earned, Early
    <3>4. Unsettled(d)'
      BY <1>1, <1>2, <2>1 DEF CallOK, Unsettled
    <3>5. Allowed(d)'
      BY <2>1 DEF Allowed, Early, Working
    <3> QED
      BY <3>2, <3>3, <3>4, <3>5 DEF CallOK
  <2>5. AnsweredAreKnown'
    BY <1>1 DEF IngressInvariant, AnsweredAreKnown, KeyKnown
  <2>6. KeysAreEarned'
    BY <1>1, <1>4 DEF IngressInvariant, KeysAreEarned
  <2>7. ReplaysAreTrue'
    BY <1>1, <1>4 DEF IngressInvariant, ReplaysAreTrue
  <2> QED
    BY <1>1, <2>1, <2>2, <2>3, <2>4, <2>5, <2>6, <2>7, StepKeeps
<1> QED
  BY <1>3, <1>4 DEF RecordEvent, End

LEMMA SaveKeyKeeps ==
    ASSUME IngressInvariant, NEW c \in Callers, SaveIdempotencyKey(c)
    PROVE  IngressInvariant'
<1> DEFINE event == calls[c].event
           entry == [key |-> event.key, id |-> event.id]
<1>1. /\ calls[c].stage = "key" /\ faults' \in Nat /\ calls' = [calls EXCEPT ![c] = Idle]
      /\ UNCHANGED <<rbac, disabled, journal, snapshots, replays, handled,
                     results, torn, requests, changes>>
  BY FaultType DEF SaveIdempotencyKey, At, End
<1>2. /\ calls[c] \in Call /\ CallOK(calls[c]) /\ calls \in [Callers -> Call]
      /\ event \in Event /\ calls[c].message \in MessageIDs \cup {NoID}
  BY UnderWay DEF Call
<1>3. CASE UNCHANGED <<keys, answered>>
  BY <1>1, <1>3, UnderWay, IdleSound, QuietStepKeeps
<1>4. CASE /\ keys' = IF KeyKnown(event.key) THEN keys ELSE keys \cup {entry}
           /\ answered' = answered \cup ({calls[c].message} \ {NoID})
  <2>1. entry \in [key : Identities, id : Identities]
    BY <1>2 DEF Event
  <2>2. keys' = keys \/ keys' = keys \cup {entry}
    BY <1>4
  <2>3. Grows(c)
    BY <1>1, <1>4, <2>2 DEF Grows
  <2>4. IngressTypeOK'
    <3>1. calls' \in [Callers -> Call]
      BY <1>1, <1>2, IdleSound
    <3>2. keys' \in SUBSET [key : Identities, id : Identities]
      BY <2>1, <2>2 DEF IngressInvariant, IngressTypeOK
    <3>3. answered' \in SUBSET MessageIDs
      BY <1>2, <1>4 DEF IngressInvariant, IngressTypeOK
    <3> QED
      BY <1>1, <3>1, <3>2, <3>3 DEF IngressInvariant, IngressTypeOK
  <2>5. AnsweredAreKnown'
    <3>1. ASSUME NEW m \in answered' PROVE KeyKnown(m)'
      <4>1. CASE m \in answered
        BY <2>2, <4>1 DEF IngressInvariant, AnsweredAreKnown, KeyKnown
      <4>2. CASE m = calls[c].message /\ m # NoID
        <5>1. m = event.key
          BY <1>2, <4>2 DEF CallOK, Unsettled
        <5>2. entry.key = event.key
          OBVIOUS
        <5> QED
          BY <1>4, <5>1, <5>2 DEF KeyKnown
      <4> QED
        BY <1>4, <4>1, <4>2
    <3> QED
      BY <3>1 DEF AnsweredAreKnown
  <2>6. KeysAreEarned'
    <3>1. \E done \in handled :
              done[1] \in journal /\ done[1].key = entry.key /\ done[1].id = entry.id
      <4>1. /\ \E p \in Plugins : <<event, calls[c].serial, p>> \in handled
            /\ event \in journal
        BY <1>1, <1>2 DEF CallOK, Earned
      <4> QED
        BY <4>1
    <3> QED
      BY <1>1, <2>2, <3>1 DEF IngressInvariant, KeysAreEarned
  <2>7. ReplaysAreTrue'
    BY <1>1 DEF IngressInvariant, ReplaysAreTrue
  <2>8. CallOK(Idle)'
    BY DEF Idle, CallOK, Placed, Earned, Unsettled, Allowed, Repeats, Early, Working
  <2> QED
    BY <1>1, <2>3, <2>4, <2>5, <2>6, <2>7, <2>8, IdleSound, StepKeeps
<1> QED
  BY <1>3, <1>4 DEF SaveIdempotencyKey

LEMMA ReportKeeps ==
    ASSUME IngressInvariant, NEW c \in Callers, SaveReplayOperationRecord(c)
    PROVE  IngressInvariant'
<1> DEFINE record == [status |-> ReplayStatus(calls[c]), source |-> calls[c].source,
                      serial |-> calls[c].serial]
<1>1. /\ calls[c].stage = "report" /\ faults' \in Nat /\ calls' = [calls EXCEPT ![c] = Idle]
      /\ UNCHANGED <<rbac, disabled, journal, keys, snapshots, handled, answered,
                     results, torn, requests, changes>>
  BY FaultType DEF SaveReplayOperationRecord, At, End, history
<1>2. calls[c] \in Call /\ CallOK(calls[c]) /\ calls \in [Callers -> Call]
  BY UnderWay
<1>3. CASE replays' = replays
  BY <1>1, <1>3, UnderWay, IdleSound, QuietStepKeeps
<1>4. CASE replays' = replays \cup {record}
  <2>1. record \in Dispatch
    BY <1>2 DEF Dispatch, ReplayStatus, Call
  <2>2. Grows(c)
    BY <1>1 DEF Grows
  <2>3. IngressTypeOK'
    <3>1. calls' \in [Callers -> Call]
      BY <1>1, <1>2, IdleSound
    <3>2. replays' \in SUBSET Dispatch
      BY <1>4, <2>1 DEF IngressInvariant, IngressTypeOK
    <3> QED
      BY <1>1, <3>1, <3>2 DEF IngressInvariant, IngressTypeOK
  <2>4. AnsweredAreKnown'
    BY <1>1 DEF IngressInvariant, AnsweredAreKnown, KeyKnown
  <2>5. KeysAreEarned'
    BY <1>1 DEF IngressInvariant, KeysAreEarned
  <2>6. ReplaysAreTrue'
    <3>1. calls[c].kind = "replay"
      BY <1>1, <1>2 DEF CallOK, Placed
    <3>2. calls[c].event.tagged /\ \E event \in journal :
              event.id = calls[c].source /\ ~event.tagged
      BY <1>1, <1>2, <3>1 DEF CallOK, Repeats
    <3>3. calls[c].delivered = (\E done \in handled : done[2] = calls[c].serial /\ done[1].tagged)
      <4>1. CASE calls[c].delivered
        <5>1. PICK p \in Plugins : <<calls[c].event, calls[c].serial, p>> \in handled
          BY <1>2, <4>1 DEF CallOK, Earned
        <5> QED
          BY <3>2, <4>1, <5>1
      <4>2. CASE ~calls[c].delivered
        <5>1. \A done \in handled : done[2] # calls[c].serial
          BY <1>1, <1>2, <4>2 DEF CallOK, Earned
        <5> QED
          BY <1>2, <4>2, <5>1 DEF Call
      <4>3. calls[c].delivered \in BOOLEAN
        BY <1>2 DEF Call
      <4> QED
        BY <4>1, <4>2
    <3>4. (record.status = "succeeded") = calls[c].delivered
      BY <1>2 DEF ReplayStatus, Call
    <3>5. record.source = calls[c].source /\ record.serial = calls[c].serial
      OBVIOUS
    <3> HIDE DEF record
    <3> QED
      BY <1>1, <1>4, <3>2, <3>3, <3>4, <3>5 DEF IngressInvariant, ReplaysAreTrue
  <2>7. CallOK(Idle)'
    BY DEF Idle, CallOK, Placed, Earned, Unsettled, Allowed, Repeats, Early, Working
  <2>8. \A replay \in replays' : replay \in replays \/ replay.serial = calls[c].serial
    BY <1>4
  <2> HIDE DEF record
  <2> QED
    BY <1>1, <2>2, <2>3, <2>4, <2>5, <2>6, <2>7, <2>8, IdleSound, StepKeeps
<1> QED
  BY <1>3, <1>4 DEF SaveReplayOperationRecord

-----------------------------------------------------------------------------
(* Operators and crashes *)

\* What an operator changes is added to what the requests under way have seen.
LEMMA ChangeKeeps ==
    ASSUME IngressInvariant, NEW on \in SUBSET Plugins,
           rbac' \in (SUBSET Plugins) \cup {NoSnapshot}, disabled' \in SUBSET Plugins,
           Plugins \ disabled' \subseteq (Plugins \ disabled) \cup on,
           NEW snapshot, rbac' = snapshot, Seen(on, snapshot), changes' \in Nat,
           UNCHANGED <<journal, keys, snapshots, replays, history, requests, faults>>
    PROVE  IngressInvariant'
<1>1. UNCHANGED <<journal, keys, snapshots, replays, handled, answered, results, torn,
                  requests, faults>>
  BY DEF history
<1>2. ASSUME NEW c \in Callers
      PROVE  /\ calls'[c] \in Call /\ CallOK(calls[c])'
             /\ calls'[c].stage = calls[c].stage /\ calls'[c].serial = calls[c].serial
  <2>1. calls[c] \in Call /\ CallOK(calls[c])
    BY UnderWay
  <2>2. CASE calls[c].stage \in {"idle", "journal", "key", "report"}
    <3>1. calls'[c] = calls[c]
      BY <2>2 DEF Seen
    <3>2. PICK call \in Call : call = calls[c]
      BY <2>1
    <3>3. CallOK(call)'
      <4>1. Placed(call)' /\ Unsettled(call)' /\ Repeats(call)'
        BY <1>1, <2>1, <3>2 DEF CallOK, Placed, Unsettled, Repeats
      <4>2. Earned(call)'
        BY <1>1, <2>1, <3>2 DEF CallOK, Earned
      <4>3. Allowed(call)'
        BY <2>2, <3>2 DEF Allowed, Early, Working
      <4> QED
        BY <4>1, <4>2, <4>3 DEF CallOK
    <3>4. CallOK(calls[c])'
      BY <3>1, <3>2, <3>3
         DEF CallOK, Placed, Earned, Unsettled, Allowed, Repeats, ShouldDispatch
    <3> QED
      BY <2>1, <3>1, <3>4
  <2>3. CASE calls[c].stage \notin {"idle", "journal", "key", "report"}
    <3>1. calls'[c] = [calls[c] EXCEPT !.enabled = @ \cup on,
                                       !.granted = @ \cup Grants(calls[c].kind, snapshot)]
      BY <2>3 DEF Seen
    <3>2. Grants(calls[c].kind, snapshot) \in SUBSET Plugins
      BY GrantsType
    <3>3. calls'[c] \in Call
      BY <2>1, <3>1, <3>2 DEF Call
    <3>4. PICK call \in Call : call = calls'[c]
      BY <3>3
    <3>5. /\ call.stage = calls[c].stage /\ call.kind = calls[c].kind
          /\ call.serial = calls[c].serial /\ call.event = calls[c].event
          /\ call.source = calls[c].source /\ call.target = calls[c].target
          /\ call.index = calls[c].index /\ call.delivered = calls[c].delivered
          /\ call.message = calls[c].message /\ call.settled = calls[c].settled
          /\ call.enabled = calls[c].enabled \cup on /\ call.unread = calls[c].unread
          /\ call.granted = calls[c].granted \cup Grants(calls[c].kind, snapshot)
      BY <2>1, <3>1, <3>4 DEF Call
    <3>6. CallOK(call)'
      <4>1. Placed(call)'
        BY <1>1, <2>1, <2>3, <3>5 DEF CallOK, Placed
      <4>2. Earned(call)'
        BY <1>1, <2>1, <3>5 DEF CallOK, Earned
      <4>3. Unsettled(call)' /\ Repeats(call)'
        BY <1>1, <2>1, <3>5 DEF CallOK, Unsettled, Repeats
      <4>4. Allowed(call)'
        <5>1. ShouldDispatch(calls[c], Order[calls[c].index])
                  => ShouldDispatch(call, Order[call.index])
          BY <3>5 DEF ShouldDispatch
        <5>2. call.stage \in Early \cup Working =>
                 /\ Plugins \ disabled' \subseteq call.enabled
                 /\ Grants(call.kind, rbac') \subseteq call.granted
          BY <2>1, <3>5 DEF CallOK, Allowed
        <5>3. (call.stage \in Early \cup Working =>
                 /\ Plugins \ disabled \subseteq call.enabled
                 /\ Grants(call.kind, rbac) \subseteq call.granted)'
          BY <5>2 DEF Grants
        <5> QED
          BY <2>1, <3>5, <5>1, <5>3 DEF CallOK, Allowed, ShouldDispatch
      <4> QED
        BY <4>1, <4>2, <4>3, <4>4 DEF CallOK
    <3>7. CallOK(calls[c])'
      BY <3>4, <3>6
         DEF CallOK, Placed, Earned, Unsettled, Allowed, Repeats, ShouldDispatch
    <3> QED
      BY <3>3, <3>4, <3>5, <3>7
  <2> QED
    BY <2>2, <2>3
<1>3. calls' \in [Callers -> Call]
  BY <1>2 DEF Seen
<1>4. IngressTypeOK'
  BY <1>1, <1>3 DEF IngressInvariant, IngressTypeOK
<1>5. Numbered'
  BY <1>1, <1>2 DEF IngressInvariant, Numbered
<1>6. AnsweredAreKnown' /\ KeysAreEarned'
  BY <1>1 DEF IngressInvariant, AnsweredAreKnown, KeyKnown, KeysAreEarned
<1>7. ReplaysAreTrue'
  BY <1>1 DEF IngressInvariant, ReplaysAreTrue
<1>8. \A c \in Callers : CallOK(calls[c])'
  BY <1>2
<1> QED
  BY <1>4, <1>5, <1>6, <1>7, <1>8 DEF IngressInvariant

LEMMA OperatorKeeps ==
    ASSUME IngressInvariant,
           \/ \E p \in Plugins, enabled \in BOOLEAN : setEnabled(p, enabled)
           \/ \E snapshot \in Grantings : SetSnapshot(snapshot)
    PROVE  IngressInvariant'
<1>1. changes \in Nat /\ rbac \in (SUBSET Plugins) \cup {NoSnapshot} /\ disabled \in SUBSET Plugins
  BY DEF IngressInvariant, IngressTypeOK
<1>2. ASSUME NEW p \in Plugins, NEW enabled \in BOOLEAN, setEnabled(p, enabled)
      PROVE  IngressInvariant'
  <2> DEFINE on == IF enabled THEN {p} ELSE {}
  <2>1. /\ rbac' = rbac /\ changes' \in Nat /\ Seen(on, rbac)
        /\ UNCHANGED <<journal, keys, snapshots, replays, history, requests, faults>>
    BY <1>1, <1>2 DEF setEnabled, Change
  <2>2. /\ on \in SUBSET Plugins /\ disabled' \in SUBSET Plugins
        /\ Plugins \ disabled' \subseteq (Plugins \ disabled) \cup on
    BY <1>1, <1>2 DEF setEnabled
  <2> QED
    BY <1>1, <2>1, <2>2, ChangeKeeps
<1>3. ASSUME NEW snapshot \in Grantings, SetSnapshot(snapshot)
      PROVE  IngressInvariant'
  <2>1. /\ rbac' = snapshot /\ changes' \in Nat /\ Seen({}, snapshot) /\ disabled' = disabled
        /\ UNCHANGED <<journal, keys, snapshots, replays, history, requests, faults>>
    BY <1>1, <1>3 DEF SetSnapshot, Change, store
  <2>2. snapshot \in (SUBSET Plugins) \cup {NoSnapshot}
    BY GrantingsAssumption
  <2> QED
    BY <1>1, <2>1, <2>2, ChangeKeeps
<1> QED
  BY <1>2, <1>3

LEMMA CrashKeeps ==
    ASSUME IngressInvariant, Crash
    PROVE  IngressInvariant'
<1>1. /\ calls' = [c \in Callers |-> Idle] /\ faults' \in Nat
      /\ UNCHANGED <<rbac, disabled, journal, keys, snapshots, replays, handled, answered,
                     results, requests, changes>>
  BY FaultType DEF Crash, store
<1>2. IngressTypeOK'
  <2>1. calls' \in [Callers -> Call]
    BY <1>1, IdleSound
  <2>2. torn' \in SUBSET Plugins
    <3>1. {p \in Plugins : Recording(p) # {}} \subseteq Plugins
      OBVIOUS
    <3>2. torn' = torn \cup {p \in Plugins : Recording(p) # {}}
      BY DEF Crash
    <3>3. torn \in SUBSET Plugins
      BY DEF IngressInvariant, IngressTypeOK
    <3> HIDE DEF Recording
    <3> QED
      BY <3>1, <3>2, <3>3
  <2> QED
    BY <1>1, <2>1, <2>2 DEF IngressInvariant, IngressTypeOK
<1>3. Numbered'
  BY <1>1, IdleSound DEF IngressInvariant, Numbered
<1>4. AnsweredAreKnown' /\ KeysAreEarned'
  BY <1>1 DEF IngressInvariant, AnsweredAreKnown, KeyKnown, KeysAreEarned
<1>5. ReplaysAreTrue'
  BY <1>1 DEF IngressInvariant, ReplaysAreTrue
<1>6. ASSUME NEW c \in Callers PROVE CallOK(calls[c])'
  <2>1. calls'[c] = Idle
    BY <1>1
  <2>2. CallOK(calls[c])' <=> CallOK(Idle)'
    BY <2>1 DEF CallOK, Placed, Earned, Unsettled, Allowed, Repeats, ShouldDispatch
  <2>3. CallOK(Idle)'
    BY DEF Idle, CallOK, Placed, Earned, Unsettled, Allowed, Repeats, Early, Working
  <2> QED
    BY <2>2, <2>3
<1> QED
  BY <1>2, <1>3, <1>4, <1>5, <1>6 DEF IngressInvariant

-----------------------------------------------------------------------------
(* The theorems *)

LEMMA InitHolds == IngressInit => IngressInvariant
<1> SUFFICES ASSUME IngressInit PROVE IngressInvariant
  OBVIOUS
<1>1. IngressTypeOK
  BY IdleSound, GrantingsAssumption DEF IngressInit, IngressTypeOK
<1>2. Numbered /\ AnsweredAreKnown /\ KeysAreEarned
  BY IdleSound DEF IngressInit, Numbered, AnsweredAreKnown, KeysAreEarned
<1>3. ReplaysAreTrue
  BY DEF IngressInit, ReplaysAreTrue
<1>4. \A c \in Callers : calls[c] = Idle
  BY DEF IngressInit
<1>5. \A c \in Callers : CallOK(calls[c])
  BY <1>4, IdleSound
<1> QED
  BY <1>1, <1>2, <1>3, <1>5 DEF IngressInvariant

LEMMA NextKeeps == IngressInvariant /\ [IngressNext]_vars => IngressInvariant'
<1> SUFFICES ASSUME IngressInvariant, [IngressNext]_vars PROVE IngressInvariant'
  OBVIOUS
<1>1. ASSUME NEW c \in Callers, IngressStep(c) PROVE IngressInvariant'
  BY <1>1, LookKeeps, LoadKeeps, GateKeeps, NextPluginKeeps, AuthorizeKeeps, InvokeKeeps,
     SnapshotKeeps, EndKeeps, RecordKeeps, SaveKeyKeeps, ReportKeeps DEF IngressStep
<1>2. ASSUME NEW c \in Callers, NEW message \in Messages,
             \/ handleOneBotMessage(c, message) \/ HandleWebhook(c, message)
             \/ handleDemoMessage(c, message) \/ dispatchScheduledEvent(c, message)
      PROVE  IngressInvariant'
  BY <1>2, RequestKeeps
<1>3. ASSUME NEW c \in Callers, NEW event \in journal, ReplayEvent(c, event)
      PROVE  IngressInvariant'
  BY <1>3, ReplayArrives
<1>4. ASSUME NEW c \in Callers, NEW direct \in Direct,
             \/ DispatchCommand(c, direct) \/ DispatchJob(c, direct)
             \/ DispatchSchedule(c, direct)
      PROVE  IngressInvariant'
  BY <1>4, DirectArrives DEF DispatchCommand, DispatchJob, DispatchSchedule
<1>5. CASE \/ \E p \in Plugins, enabled \in BOOLEAN : setEnabled(p, enabled)
           \/ \E snapshot \in Grantings : SetSnapshot(snapshot)
  BY <1>5, OperatorKeeps
<1>6. CASE Crash
  BY <1>6, CrashKeeps
<1>7. CASE UNCHANGED vars
  <2>1. UNCHANGED <<calls, rbac, disabled, journal, keys, snapshots, replays, handled,
                    answered, results, torn, requests, changes, faults>>
    BY <1>7 DEF vars, store, history
  <2>2. IngressTypeOK' /\ Numbered' /\ AnsweredAreKnown'
    BY <2>1 DEF IngressInvariant, IngressTypeOK, Numbered, AnsweredAreKnown, KeyKnown
  <2>3. KeysAreEarned'
    BY <2>1 DEF IngressInvariant, KeysAreEarned
  <2>4. ReplaysAreTrue'
    BY <2>1 DEF IngressInvariant, ReplaysAreTrue
  <2>5. ASSUME NEW c \in Callers PROVE CallOK(calls[c])'
    <3>1. (Placed(calls[c]) /\ Earned(calls[c]) /\ Unsettled(calls[c]))'
      BY <2>1 DEF IngressInvariant, CallOK, Placed, Earned, Unsettled
    <3>2. (Allowed(calls[c]) /\ Repeats(calls[c]))'
      BY <2>1 DEF IngressInvariant, CallOK, Allowed, Repeats, Grants, ShouldDispatch
    <3> QED
      BY <3>1, <3>2 DEF CallOK
  <2> QED
    BY <2>2, <2>3, <2>4, <2>5 DEF IngressInvariant
<1> QED
  BY <1>1, <1>2, <1>3, <1>4, <1>5, <1>6, <1>7 DEF IngressNext

\* The inductive invariant holds.
THEOREM IngressInvariantHolds == Ingress => []IngressInvariant
  BY InitHolds, NextKeeps, PTL DEF Ingress

\* Types: the requests, the tables and the history are what they are declared.
THEOREM IngressTypeCorrect == Ingress => []IngressTypeOK
<1>1. IngressInvariant => IngressTypeOK
  BY DEF IngressInvariant
<1> QED
  BY <1>1, IngressInvariantHolds, PTL

\* A key stands for an event that was handled and is in the journal
\* (persistRuntimeEvent dispatches and records before it saves the key).
THEOREM KeysStayEarned == Ingress => []KeysAreEarned
<1>1. IngressInvariant => KeysAreEarned
  BY DEF IngressInvariant
<1> QED
  BY <1>1, IngressInvariantHolds, PTL

\* A OneBot message whose delivery was answered is not dispatched again: the
\* key that persistRuntimeEvent looks up is the one the answered delivery saved.
THEOREM AnsweredStaysFinal == Ingress => []AnsweredIsFinal
<1>1. IngressInvariant => AnsweredIsFinal
  BY DEF IngressInvariant, CallOK, Unsettled, AnsweredIsFinal
<1> QED
  BY <1>1, IngressInvariantHolds, PTL

\* A plugin is called only for what it handles and declares, enabled and
\* granted at some moment since the request came, or with an overlay that the
\* store did not give when asked for it (the four dispatch loops).
THEOREM CallsStayAllowed == Ingress => []CalledWhileAllowed
<1>1. IngressInvariant => CalledWhileAllowed
  <2> SUFFICES ASSUME IngressInvariant, NEW c \in Callers, calls[c].stage = "invoke"
               PROVE  LET call == calls[c]
                          p == Current(c)
                      IN  /\ HandlerKind(call.kind) \in Handles[p]
                          /\ call.kind = "job" => call.target \in {NoPlugin, p}
                          /\ p \in call.enabled \/ call.unread
                          /\ call.event.restricted =>
                                 /\ Declares[p]
                                 /\ (IF call.kind = "command" THEN call.target ELSE p)
                                        \in call.granted
    BY DEF CalledWhileAllowed
  <2>1. Allowed(calls[c])
    BY DEF IngressInvariant, CallOK
  <2> QED
    BY <2>1 DEF Allowed, ShouldDispatch, Working, Current
<1> QED
  BY <1>1, IngressInvariantHolds, PTL

\* What the table says of a replay is what happened (ReplayEvent): the event it
\* names is in the journal and no replay, and it succeeded if one was handled.
THEOREM ReplaysStayTrue == Ingress => []ReplaysAreTrue
<1>1. IngressInvariant => ReplaysAreTrue
  BY DEF IngressInvariant
<1> QED
  BY <1>1, IngressInvariantHolds, PTL

-----------------------------------------------------------------------------
(* The status rows: a row is read when an outcome is recorded and written   *)
(* later, so the invariant speaks of the row that is about to be written.   *)

Failed(outcomes) == {i \in DOMAIN outcomes : ~outcomes[i]}

SoundRow(row, outcomes) ==
    /\ row.ok = (row.streak = 0)
    /\ row.streak <= Cardinality(Failed(outcomes))
    /\ row.ok => \E i \in DOMAIN outcomes : outcomes[i]

ExactRow(row, outcomes) ==
    IF row = NoSnapshot THEN outcomes = <<>> ELSE Failures(outcomes, row.streak)

Pending(call) == nextPluginStatusSnapshot(call.loaded, call.ok)

RowsInvariant ==
    /\ \A p \in Plugins : snapshots[p] # NoSnapshot => SoundRow(snapshots[p], results[p])
    /\ \A c \in Callers :
          calls[c].stage = "store" => SoundRow(Pending(calls[c]), results[Current(c)])
    /\ \A p \in Plugins : p \notin torn =>
          /\ \A c, d \in Recording(p) : c = d
          /\ \A c \in Recording(p) : ExactRow(Pending(calls[c]), results[p])
          /\ Recording(p) = {} => ExactRow(snapshots[p], results[p])

\* One more outcome is at most one more failure.
LEMMA FailedGrows ==
    ASSUME NEW outcomes \in Seq(BOOLEAN), NEW ok \in BOOLEAN
    PROVE  /\ Cardinality(Failed(outcomes)) \in Nat
           /\ Cardinality(Failed(Append(outcomes, ok))) =
                  Cardinality(Failed(outcomes)) + (IF ok THEN 0 ELSE 1)
<1> DEFINE n == Len(outcomes) + 1
<1>1. /\ Len(outcomes) \in Nat /\ DOMAIN outcomes = 1 .. Len(outcomes)
      /\ DOMAIN Append(outcomes, ok) = 1 .. n
      /\ Append(outcomes, ok)[n] = ok
      /\ \A i \in 1 .. Len(outcomes) : Append(outcomes, ok)[i] = outcomes[i]
  OBVIOUS
<1>2. IsFiniteSet(Failed(outcomes))
  <2>1. IsFiniteSet(1 .. Len(outcomes))
    BY <1>1, FS_Interval
  <2> QED
    BY <1>1, <2>1, FS_Subset DEF Failed
<1>3. Cardinality(Failed(outcomes)) \in Nat
  BY <1>2, FS_CardinalityType
<1>4. CASE ok
  <2>1. Failed(Append(outcomes, ok)) = Failed(outcomes)
    BY <1>1, <1>4 DEF Failed
  <2>2. (IF ok THEN 0 ELSE 1) = 0
    BY <1>4
  <2>3. Cardinality(Failed(Append(outcomes, ok))) = Cardinality(Failed(outcomes))
    BY <2>1
  <2> QED
    BY <1>3, <2>2, <2>3
<1>5. CASE ~ok
  <2>1. Failed(Append(outcomes, ok)) = Failed(outcomes) \cup {n} /\ n \notin Failed(outcomes)
    BY <1>1, <1>5 DEF Failed
  <2>2. Cardinality(Failed(outcomes) \cup {n}) = Cardinality(Failed(outcomes)) + 1
    BY <1>2, <2>1, FS_AddElement
  <2> QED
    BY <1>3, <1>5, <2>1, <2>2
<1> QED
  BY <1>4, <1>5

LEMMA AppendSound ==
    ASSUME NEW outcomes \in Seq(BOOLEAN), NEW ok \in BOOLEAN, NEW row \in Snapshot,
           SoundRow(row, outcomes)
    PROVE  SoundRow(row, Append(outcomes, ok))
<1>1. /\ Cardinality(Failed(outcomes)) \in Nat
      /\ Cardinality(Failed(Append(outcomes, ok))) =
             Cardinality(Failed(outcomes)) + (IF ok THEN 0 ELSE 1)
  BY FailedGrows
<1>2. row.streak <= Cardinality(Failed(Append(outcomes, ok)))
  BY <1>1 DEF SoundRow, Snapshot
<1>3. row.ok => \E i \in DOMAIN Append(outcomes, ok) : Append(outcomes, ok)[i]
  BY DEF SoundRow
<1> QED
  BY <1>2, <1>3 DEF SoundRow

LEMMA NextRow ==
    ASSUME NEW row \in Snapshot \cup {NoSnapshot}, NEW ok \in BOOLEAN
    PROVE  /\ nextPluginStatusSnapshot(row, ok) \in Snapshot
           /\ nextPluginStatusSnapshot(row, ok) # NoSnapshot
           /\ nextPluginStatusSnapshot(row, ok).ok = ok
           /\ ok => nextPluginStatusSnapshot(row, ok).streak = 0
           /\ ~ok => nextPluginStatusSnapshot(row, ok).streak =
                        IF row = NoSnapshot \/ row.ok THEN 1 ELSE row.streak + 1
<1> DEFINE before == IF row = NoSnapshot THEN [ok |-> TRUE, streak |-> 0, recovered |-> 0] ELSE row
<1>1. nextPluginStatusSnapshot(row, ok) \in Snapshot
  BY SnapshotRowType
<1>2. nextPluginStatusSnapshot(row, ok) # NoSnapshot
  BY <1>1, SnapshotAssumption
<1>3. before \in Snapshot /\ before.ok = (row = NoSnapshot \/ row.ok)
      /\ (row # NoSnapshot => before.streak = row.streak)
  BY DEF Snapshot
<1> HIDE DEF before
<1>4. CASE ok
  BY <1>1, <1>2, <1>4 DEF nextPluginStatusSnapshot
<1>5. CASE ~ok
  <2>1. nextPluginStatusSnapshot(row, ok) =
            [before EXCEPT !.ok = FALSE, !.streak = IF before.ok THEN 1 ELSE before.streak + 1]
    BY <1>5 DEF nextPluginStatusSnapshot, before
  <2>2. /\ nextPluginStatusSnapshot(row, ok).ok = FALSE
        /\ nextPluginStatusSnapshot(row, ok).streak =
               IF before.ok THEN 1 ELSE before.streak + 1
    BY <1>3, <2>1 DEF Snapshot
  <2> QED
    BY <1>1, <1>2, <1>3, <1>5, <2>2
<1> QED
  BY <1>4, <1>5

LEMMA NextSound ==
    ASSUME NEW outcomes \in Seq(BOOLEAN), NEW ok \in BOOLEAN,
           NEW row \in Snapshot \cup {NoSnapshot}, row # NoSnapshot => SoundRow(row, outcomes)
    PROVE  SoundRow(nextPluginStatusSnapshot(row, ok), Append(outcomes, ok))
<1> DEFINE next == nextPluginStatusSnapshot(row, ok)
<1>1. /\ Cardinality(Failed(outcomes)) \in Nat
      /\ Cardinality(Failed(Append(outcomes, ok))) =
             Cardinality(Failed(outcomes)) + (IF ok THEN 0 ELSE 1)
  BY FailedGrows
<1>2. /\ next.ok = ok /\ next \in Snapshot
      /\ ok => next.streak = 0
      /\ ~ok => next.streak = IF row = NoSnapshot \/ row.ok THEN 1 ELSE row.streak + 1
  BY NextRow
<1> HIDE DEF next
<1>3. ~ok => next.streak # 0 /\ next.streak <= Cardinality(Failed(outcomes)) + 1
  <2>1. CASE row = NoSnapshot
    BY <1>1, <1>2, <2>1
  <2>2. CASE row # NoSnapshot
    <3>1. row \in Snapshot
      BY <2>2
    <3>2. row.streak \in Nat /\ row.streak <= Cardinality(Failed(outcomes))
      BY <2>2, <3>1 DEF SoundRow, Snapshot
    <3> QED
      BY <1>1, <1>2, <3>2
  <2> QED
    BY <2>1, <2>2
<1>4. next.ok = (next.streak = 0)
  BY <1>2, <1>3
<1>5. next.streak <= Cardinality(Failed(Append(outcomes, ok)))
  BY <1>1, <1>2, <1>3
<1>6. next.ok => \E i \in DOMAIN Append(outcomes, ok) : Append(outcomes, ok)[i]
  <2>1. /\ Len(outcomes) + 1 \in DOMAIN Append(outcomes, ok)
        /\ Append(outcomes, ok)[Len(outcomes) + 1] = ok
    OBVIOUS
  <2> QED
    BY <1>2, <2>1
<1> QED
  BY <1>4, <1>5, <1>6 DEF SoundRow, next

LEMMA NextExact ==
    ASSUME NEW outcomes \in Seq(BOOLEAN), NEW ok \in BOOLEAN,
           NEW row \in Snapshot \cup {NoSnapshot}, row # NoSnapshot => SoundRow(row, outcomes),
           ExactRow(row, outcomes)
    PROVE  ExactRow(nextPluginStatusSnapshot(row, ok), Append(outcomes, ok))
<1> DEFINE next == nextPluginStatusSnapshot(row, ok)
           longer == Append(outcomes, ok)
           n == Len(outcomes)
<1>1. /\ next # NoSnapshot /\ next.streak \in Nat
      /\ ok => next.streak = 0
      /\ ~ok => next.streak = IF row = NoSnapshot \/ row.ok THEN 1 ELSE row.streak + 1
  BY NextRow DEF Snapshot
<1>2. /\ n \in Nat /\ Len(longer) = n + 1 /\ longer[n + 1] = ok
      /\ \A i \in 1 .. n : longer[i] = outcomes[i]
  OBVIOUS
<1> HIDE DEF next, longer, n
<1>3. CASE ok
  <2>1. next.streak = 0 /\ longer[n + 1]
    BY <1>1, <1>2, <1>3
  <2>2. Failures(longer, 0)
    BY <1>2, <2>1 DEF Failures
  <2> QED
    BY <1>1, <2>1, <2>2 DEF ExactRow, next, longer
<1>4. CASE ~ok /\ row = NoSnapshot
  <2>1. n = 0
    BY <1>4 DEF ExactRow, n
  <2>2. next.streak = 1
    BY <1>1, <1>4
  <2>3. Failures(longer, 1)
    BY <1>2, <1>4, <2>1 DEF Failures
  <2> QED
    BY <1>1, <2>2, <2>3 DEF ExactRow, next, longer
<1>5. CASE ~ok /\ row # NoSnapshot
  <2>1. /\ row.streak \in Nat /\ next.streak = row.streak + 1
        /\ Failures(outcomes, row.streak)
    BY <1>1, <1>5 DEF ExactRow, SoundRow, Snapshot
  <2> DEFINE k == row.streak
  <2>2. /\ k \in Nat /\ k <= n
        /\ \A i \in n - k + 1 .. n : ~outcomes[i]
        /\ k < n => outcomes[n - k]
    BY <2>1 DEF Failures, n
  <2> HIDE DEF k
  <2>3. ASSUME NEW i \in (n + 1) - (k + 1) + 1 .. n + 1 PROVE ~longer[i]
    <3>1. i \in Int /\ i >= n - k + 1 /\ i <= n + 1
      BY <1>2, <2>2
    <3>2. CASE i = n + 1
      BY <1>2, <1>5, <3>2
    <3>3. CASE i # n + 1
      BY <1>2, <2>2, <3>1, <3>3
    <3> QED
      BY <3>2, <3>3
  <2>4. k + 1 < n + 1 => longer[(n + 1) - (k + 1)]
    BY <1>2, <2>2
  <2>5. Failures(longer, k + 1)
    BY <1>2, <2>2, <2>3, <2>4 DEF Failures
  <2> QED
    BY <1>1, <2>1, <2>5 DEF ExactRow, next, longer, k
<1> QED
  BY <1>3, <1>4, <1>5 DEF next, longer

\* A step that neither records an outcome nor writes a row.
LEMMA RowsFrame ==
    ASSUME IngressInvariant, RowsInvariant, UNCHANGED <<snapshots, results, torn>>,
           \A c \in Callers :
              IF calls[c].stage = "store"
              THEN /\ calls'[c].stage = "store" /\ calls'[c].index = calls[c].index
                   /\ calls'[c].loaded = calls[c].loaded /\ calls'[c].ok = calls[c].ok
              ELSE calls'[c].stage # "store"
    PROVE  RowsInvariant'
<1>1. ASSUME NEW c \in Callers, calls'[c].stage = "store"
      PROVE  /\ calls[c].stage = "store" /\ Current(c)' = Current(c)
             /\ Pending(calls[c])' = Pending(calls[c])
  BY <1>1 DEF Current, Pending, nextPluginStatusSnapshot
<1>2. ASSUME NEW p PROVE Recording(p)' = Recording(p)
  BY DEF Recording, Current
<1>3. \A p \in Plugins : (snapshots[p] # NoSnapshot => SoundRow(snapshots[p], results[p]))'
  BY DEF RowsInvariant, SoundRow
<1>4. ASSUME NEW c \in Callers, calls'[c].stage = "store"
      PROVE  SoundRow(Pending(calls[c]), results[Current(c)])'
  BY <1>1, <1>4 DEF RowsInvariant, SoundRow
<1>5. ASSUME NEW p \in Plugins, p \notin torn'
      PROVE  /\ \A c, d \in Recording(p)' : c = d
             /\ \A c \in Recording(p)' : ExactRow(Pending(calls[c]), results[p])'
             /\ Recording(p)' = {} => ExactRow(snapshots[p], results[p])'
  <2>1. /\ \A c, d \in Recording(p) : c = d
        /\ \A c \in Recording(p) : ExactRow(Pending(calls[c]), results[p])
        /\ Recording(p) = {} => ExactRow(snapshots[p], results[p])
    BY <1>5 DEF RowsInvariant
  <2>2. ASSUME NEW c \in Recording(p)' PROVE ExactRow(Pending(calls[c]), results[p])'
    <3>1. c \in Recording(p) /\ c \in Callers /\ calls'[c].stage = "store"
      BY <1>2, <2>2 DEF Recording
    <3>2. Pending(calls[c])' = Pending(calls[c])
      BY <1>1, <3>1
    <3> QED
      BY <2>1, <3>1, <3>2 DEF ExactRow, Failures
  <2>3. Recording(p)' = {} => ExactRow(snapshots[p], results[p])'
    BY <1>2, <2>1 DEF ExactRow, Failures
  <2> QED
    BY <1>2, <2>1, <2>2, <2>3
<1> QED
  BY <1>3, <1>4, <1>5 DEF RowsInvariant

\* recordDispatch reads the row it will write from.
LEMMA RecordedRows ==
    ASSUME IngressInvariant, RowsInvariant, NEW c \in Callers, NEW ok \in BOOLEAN,
           calls[c].stage \in {"authorize", "invoke"}, recordDispatch(c, ok),
           snapshots' = snapshots
    PROVE  RowsInvariant'
<1>1. PICK p \in Plugins : p = Order[calls[c].index]
  <2>1. calls[c].index \in DOMAIN Order
    BY DEF IngressInvariant, CallOK, Placed
  <2> QED
    BY <2>1 DEF Plugins
<1>2. /\ calls \in [Callers -> Call] /\ results \in [Plugins -> Seq(BOOLEAN)]
      /\ snapshots \in [Plugins -> Snapshot \cup {NoSnapshot}] /\ torn \in SUBSET Plugins
  BY UnderWay
<1>3. /\ calls' = [calls EXCEPT ![c].stage = "store", ![c].ok = ok,
                                ![c].delivered = @ \/ ok, ![c].loaded = snapshots[p]]
      /\ results' = [results EXCEPT ![p] = Append(@, ok)]
      /\ torn' = IF Recording(p) = {} THEN torn ELSE torn \cup {p}
  BY <1>1 DEF recordDispatch, Current
<1>4. /\ calls'[c].stage = "store" /\ calls'[c].ok = ok /\ calls'[c].loaded = snapshots[p]
      /\ calls'[c].index = calls[c].index
  BY <1>2, <1>3 DEF Call
<1>5. \A k \in Callers : k # c => calls'[k] = calls[k]
  BY <1>2, <1>3
<1>6. /\ results'[p] = Append(results[p], ok) /\ results[p] \in Seq(BOOLEAN)
      /\ \A q \in Plugins : q # p => results'[q] = results[q]
  BY <1>2, <1>3
<1>7. /\ snapshots[p] \in Snapshot \cup {NoSnapshot}
      /\ snapshots[p] # NoSnapshot => SoundRow(snapshots[p], results[p])
  BY <1>2 DEF RowsInvariant
<1>8. ASSUME NEW q \in Plugins, NEW row \in Snapshot, SoundRow(row, results[q])
      PROVE  SoundRow(row, results'[q])
  BY <1>6, <1>8, AppendSound
<1>9. Pending(calls[c])' = nextPluginStatusSnapshot(snapshots[p], ok) /\ Current(c)' = p
  BY <1>1, <1>4 DEF Pending, nextPluginStatusSnapshot, Current
<1>10. ASSUME NEW q \in Plugins, snapshots'[q] # NoSnapshot
       PROVE  SoundRow(snapshots[q], results[q])'
  <2>1. snapshots[q] \in Snapshot /\ SoundRow(snapshots[q], results[q])
    BY <1>2, <1>10 DEF RowsInvariant
  <2>2. SoundRow(snapshots[q], results'[q])
    BY <1>8, <2>1
  <2> QED
    BY <2>2 DEF SoundRow
<1>11. ASSUME NEW k \in Callers, calls'[k].stage = "store"
       PROVE  SoundRow(Pending(calls[k]), results[Current(k)])'
  <2>1. CASE k = c
    <3>1. SoundRow(nextPluginStatusSnapshot(snapshots[p], ok), Append(results[p], ok))
      BY <1>6, <1>7, NextSound
    <3> QED
      BY <1>6, <1>9, <2>1, <3>1 DEF SoundRow
  <2>2. CASE k # c
    <3>1. calls'[k] = calls[k] /\ calls[k].stage = "store"
      BY <1>5, <1>11, <2>2
    <3>2. /\ Pending(calls[k])' = Pending(calls[k]) /\ Current(k)' = Current(k)
          /\ Pending(calls[k]) \in Snapshot /\ Current(k) \in Plugins
      <4>1. /\ calls[k].loaded \in Snapshot \cup {NoSnapshot} /\ calls[k].ok \in BOOLEAN
            /\ calls[k].index \in DOMAIN Order
        BY <3>1, UnderWay DEF Call, CallOK, Placed
      <4>2. Pending(calls[k])' = Pending(calls[k]) /\ Current(k)' = Current(k)
        BY <3>1 DEF Pending, nextPluginStatusSnapshot, Current
      <4>3. Pending(calls[k]) \in Snapshot
        BY <4>1, SnapshotRowType DEF Pending
      <4>4. Current(k) \in Plugins
        BY <4>1 DEF Current, Plugins
      <4> QED
        BY <4>2, <4>3, <4>4
    <3>3. SoundRow(Pending(calls[k]), results'[Current(k)])
      BY <1>8, <3>1, <3>2 DEF RowsInvariant
    <3> QED
      BY <3>2, <3>3 DEF SoundRow
  <2> QED
    BY <2>1, <2>2
<1>12. ASSUME NEW q \in Plugins, q \notin torn'
       PROVE  /\ \A k, l \in Recording(q)' : k = l
              /\ \A k \in Recording(q)' : ExactRow(Pending(calls[k]), results[q])'
              /\ Recording(q)' = {} => ExactRow(snapshots[q], results[q])'
  <2>1. /\ q \notin torn
        /\ \A k, l \in Recording(q) : k = l
        /\ \A k \in Recording(q) : ExactRow(Pending(calls[k]), results[q])
        /\ Recording(q) = {} => ExactRow(snapshots[q], results[q])
    BY <1>3, <1>12 DEF RowsInvariant
  <2>2. CASE q = p
    <3>1. Recording(p) = {}
      BY <1>3, <1>12, <2>2
    <3>2. Recording(p)' = {c}
      <4>1. \A k \in Callers : k # c => ~(calls'[k].stage = "store" /\ Current(k)' = p)
        BY <1>5, <3>1 DEF Recording, Current
      <4> QED
        BY <1>4, <1>9, <4>1 DEF Recording
    <3>3. ExactRow(nextPluginStatusSnapshot(snapshots[p], ok), Append(results[p], ok))
      BY <1>6, <1>7, <2>1, <2>2, <3>1, NextExact
    <3>4. ExactRow(Pending(calls[c]), results[p])'
      BY <1>6, <1>9, <3>3 DEF ExactRow, Failures
    <3> QED
      BY <2>2, <3>2, <3>4
  <2>3. CASE q # p
    <3>1. Recording(q)' = Recording(q)
      BY <1>1, <1>4, <1>5, <1>9, <2>3 DEF Recording, Current
    <3>2. ASSUME NEW k \in Recording(q) PROVE ExactRow(Pending(calls[k]), results[q])'
      <4>1. k \in Callers /\ k # c
        BY <3>2 DEF Recording
      <4>2. Pending(calls[k])' = Pending(calls[k])
        BY <1>5, <4>1 DEF Pending, nextPluginStatusSnapshot
      <4> QED
        BY <1>6, <2>1, <2>3, <4>2 DEF ExactRow, Failures
    <3>3. Recording(q)' = {} => ExactRow(snapshots[q], results[q])'
      BY <1>6, <2>1, <2>3, <3>1 DEF ExactRow, Failures
    <3> QED
      BY <2>1, <3>1, <3>2, <3>3
  <2> QED
    BY <2>2, <2>3
<1> QED
  BY <1>10, <1>11, <1>12 DEF RowsInvariant

LEMMA SavedRows ==
    ASSUME IngressInvariant, RowsInvariant, NEW c \in Callers, SavePluginStatusSnapshot(c)
    PROVE  RowsInvariant'
<1>1. PICK p \in Plugins : p = Order[calls[c].index] /\ p = Current(c)
  <2>1. calls[c].index \in DOMAIN Order
    BY DEF IngressInvariant, CallOK, Placed, SavePluginStatusSnapshot, At
  <2> QED
    BY <2>1 DEF Plugins, Current
<1>2. /\ calls \in [Callers -> Call] /\ torn \in SUBSET Plugins
      /\ snapshots \in [Plugins -> Snapshot \cup {NoSnapshot}]
  BY UnderWay
<1>3. /\ calls[c].stage = "store" /\ results' = results
      /\ calls' = [calls EXCEPT ![c].stage = "next", ![c].index = @ + 1,
                                ![c].ok = FALSE, ![c].loaded = NoSnapshot, ![c].unread = FALSE]
      /\ \/ snapshots' = [snapshots EXCEPT ![p] = Pending(calls[c])] /\ torn' = torn
         \/ snapshots' = snapshots /\ torn' = torn \cup {p}
  BY <1>1 DEF SavePluginStatusSnapshot, At, Pending
<1>4. calls'[c].stage # "store" /\ \A k \in Callers : k # c => calls'[k] = calls[k]
  BY <1>2, <1>3 DEF Call
<1>5. \A q \in Plugins : q # p => snapshots'[q] = snapshots[q]
  BY <1>2, <1>3
<1>6. snapshots'[p] = Pending(calls[c]) \/ (snapshots'[p] = snapshots[p] /\ p \in torn')
  BY <1>2, <1>3
<1>7. torn \subseteq torn'
  BY <1>3
<1>8. ASSUME NEW q \in Plugins, snapshots'[q] # NoSnapshot
      PROVE  SoundRow(snapshots[q], results[q])'
  <2>1. SoundRow(Pending(calls[c]), results[p])
    BY <1>1, <1>3 DEF RowsInvariant
  <2>2. SoundRow(snapshots'[q], results[q])
    BY <1>5, <1>6, <1>8, <2>1 DEF RowsInvariant
  <2> QED
    BY <1>3, <2>2 DEF SoundRow
<1>9. ASSUME NEW k \in Callers, calls'[k].stage = "store"
      PROVE  SoundRow(Pending(calls[k]), results[Current(k)])'
  <2>1. calls'[k] = calls[k] /\ calls[k].stage = "store"
    BY <1>4, <1>9
  <2>2. Pending(calls[k])' = Pending(calls[k]) /\ Current(k)' = Current(k)
    BY <2>1 DEF Pending, nextPluginStatusSnapshot, Current
  <2>3. SoundRow(Pending(calls[k]), results[Current(k)])
    BY <2>1 DEF RowsInvariant
  <2> QED
    BY <1>3, <2>2, <2>3 DEF SoundRow
<1>10. ASSUME NEW q \in Plugins, q \notin torn'
       PROVE  /\ \A k, l \in Recording(q)' : k = l
              /\ \A k \in Recording(q)' : ExactRow(Pending(calls[k]), results[q])'
              /\ Recording(q)' = {} => ExactRow(snapshots[q], results[q])'
  <2>1. /\ \A k, l \in Recording(q) : k = l
        /\ \A k \in Recording(q) : ExactRow(Pending(calls[k]), results[q])
        /\ Recording(q) = {} => ExactRow(snapshots[q], results[q])
    BY <1>7, <1>10 DEF RowsInvariant
  <2>2. Recording(q)' = Recording(q) \ {c}
    BY <1>4 DEF Recording, Current
  <2>3. ASSUME NEW k \in Recording(q)' PROVE ExactRow(Pending(calls[k]), results[q])'
    <3>1. k \in Recording(q) /\ calls'[k] = calls[k]
      BY <1>4, <2>2, <2>3 DEF Recording
    <3>2. Pending(calls[k])' = Pending(calls[k])
      BY <3>1 DEF Pending, nextPluginStatusSnapshot
    <3> QED
      BY <1>3, <2>1, <3>1, <3>2 DEF ExactRow, Failures
  <2>4. Recording(q)' = {} => ExactRow(snapshots[q], results[q])'
    <3>1. CASE q = p
      <4>1. c \in Recording(p)
        BY <1>1, <1>3 DEF Recording
      <4>2. ExactRow(Pending(calls[c]), results[q]) /\ snapshots'[q] = Pending(calls[c])
        BY <1>6, <1>10, <2>1, <3>1, <4>1
      <4> QED
        BY <1>3, <4>2 DEF ExactRow, Failures
    <3>2. CASE q # p
      <4>1. c \notin Recording(q)
        BY <1>1, <3>2 DEF Recording
      <4>2. Recording(q)' = Recording(q)
        BY <2>2, <4>1
      <4>3. snapshots'[q] = snapshots[q]
        BY <1>5, <3>2
      <4> QED
        BY <1>3, <2>1, <4>2, <4>3 DEF ExactRow, Failures
    <3> QED
      BY <3>1, <3>2
  <2> QED
    BY <2>1, <2>2, <2>3, <2>4
<1> QED
  BY <1>8, <1>9, <1>10 DEF RowsInvariant

LEMMA CrashRows ==
    ASSUME IngressInvariant, RowsInvariant, Crash
    PROVE  RowsInvariant'
<1>1. /\ \A c \in Callers : calls'[c].stage # "store"
      /\ torn' = torn \cup {p \in Plugins : Recording(p) # {}}
      /\ UNCHANGED <<snapshots, results>>
  BY IdleSound DEF Crash, store
<1>2. \A p \in Plugins : (snapshots[p] # NoSnapshot => SoundRow(snapshots[p], results[p]))'
  BY <1>1 DEF RowsInvariant, SoundRow
<1>3. \A p : Recording(p)' = {}
  BY <1>1 DEF Recording
<1>4. ASSUME NEW p \in Plugins, p \notin torn' PROVE ExactRow(snapshots[p], results[p])'
  <2>1. p \notin torn /\ Recording(p) = {}
    BY <1>1, <1>4
  <2>2. ExactRow(snapshots[p], results[p])
    BY <2>1 DEF RowsInvariant
  <2> QED
    BY <1>1, <2>2 DEF ExactRow, Failures
<1> QED
  BY <1>1, <1>2, <1>3, <1>4 DEF RowsInvariant

\* A step of a request that is not at work on a row stays out of the rows.
LEMMA StepRows ==
    ASSUME IngressInvariant, RowsInvariant, NEW c \in Callers, calls[c].stage # "store",
           NEW d, d.stage # "store", calls' = [calls EXCEPT ![c] = d],
           UNCHANGED <<snapshots, results, torn>>
    PROVE  RowsInvariant'
<1>1. calls \in [Callers -> Call]
  BY UnderWay
<1>2. calls'[c] = d /\ \A k \in Callers : k # c => calls'[k] = calls[k]
  BY <1>1
<1>3. \A k \in Callers :
          IF calls[k].stage = "store"
          THEN /\ calls'[k].stage = "store" /\ calls'[k].index = calls[k].index
               /\ calls'[k].loaded = calls[k].loaded /\ calls'[k].ok = calls[k].ok
          ELSE calls'[k].stage # "store"
  BY <1>2
<1> QED
  BY <1>3, RowsFrame

\* The same of a step that leaves the request in another stage, or ends it.
LEMMA MovesRows ==
    ASSUME IngressInvariant, RowsInvariant, NEW c \in Callers, calls[c].stage # "store",
           UNCHANGED <<snapshots, results, torn>>,
           \/ End(c)
           \/ \E stage \in Stages \ {"store"} : Goto(c, stage) \/ Leave(c, stage)
    PROVE  RowsInvariant'
<1>1. calls[c] \in Call /\ calls \in [Callers -> Call]
  BY UnderWay
<1>2. CASE End(c)
  BY <1>2, IdleSound, StepRows DEF End
<1>3. ASSUME NEW stage \in Stages \ {"store"}, Goto(c, stage)
      PROVE  RowsInvariant'
  <2> DEFINE d == [calls[c] EXCEPT !.stage = stage]
  <2>1. calls' = [calls EXCEPT ![c] = d] /\ d.stage # "store"
    BY <1>1, <1>3 DEF Goto, Call
  <2> HIDE DEF d
  <2> QED
    BY <2>1, StepRows
<1>4. ASSUME NEW stage \in Stages \ {"store"}, Leave(c, stage)
      PROVE  RowsInvariant'
  <2> DEFINE d == [calls[c] EXCEPT !.stage = stage, !.index = 0, !.enabled = {}, !.granted = {}]
  <2>1. calls' = [calls EXCEPT ![c] = d] /\ d.stage # "store"
    BY <1>1, <1>4 DEF Leave, Call
  <2> HIDE DEF d
  <2> QED
    BY <2>1, StepRows
<1> QED
  BY <1>2, <1>3, <1>4

LEMMA RequestRows ==
    ASSUME IngressInvariant, RowsInvariant, NEW c \in Callers,
           \/ \E message \in Messages :
                 \/ handleOneBotMessage(c, message) \/ HandleWebhook(c, message)
                 \/ handleDemoMessage(c, message) \/ dispatchScheduledEvent(c, message)
           \/ \E event \in journal : ReplayEvent(c, event)
           \/ \E direct \in Direct :
                 \/ DispatchCommand(c, direct) \/ DispatchJob(c, direct)
                 \/ DispatchSchedule(c, direct)
    PROVE  RowsInvariant'
<1> DEFINE Received(call) ==
             [call EXCEPT !.serial = requests + 1, !.settled = answered,
                          !.enabled = Plugins \ disabled, !.granted = Grants(call.kind, rbac)]
<1>1. ASSUME NEW call, Arrives(c, call), Received(call).stage # "store"
      PROVE  RowsInvariant'
  <2>1. /\ calls' = [calls EXCEPT ![c] = Received(call)] /\ calls[c].stage # "store"
        /\ UNCHANGED <<snapshots, results, torn>>
    BY <1>1, IdleSound DEF Arrives, store, history
  <2> HIDE DEF Received
  <2> QED
    BY <1>1, <2>1, StepRows
<1>2. ASSUME NEW event, NEW id, persistRuntimeEvent(c, event, id)
      PROVE  RowsInvariant'
  <2> DEFINE call == [Idle EXCEPT !.stage = "look", !.event = event, !.message = id]
  <2>1. Arrives(c, call) /\ Received(call).stage # "store"
    BY <1>2 DEF persistRuntimeEvent, Idle
  <2> HIDE DEF call, Received
  <2> QED
    BY <1>1, <2>1
<1>3. ASSUME NEW event, ReplayEvent(c, event)
      PROVE  RowsInvariant'
  <2> DEFINE call == [Idle EXCEPT !.stage = "load", !.kind = "replay", !.source = event.id]
  <2>1. Arrives(c, call) /\ Received(call).stage # "store"
    BY <1>3 DEF ReplayEvent, Idle
  <2> HIDE DEF call, Received
  <2> QED
    BY <1>1, <2>1
<1>4. ASSUME NEW direct, BeginDispatch(c, direct)
      PROVE  RowsInvariant'
  <2> DEFINE call == [Idle EXCEPT !.stage = "gate", !.kind = direct.kind,
                              !.target = direct.target,
                              !.event = [NoEvent EXCEPT !.restricted = direct.restricted]]
  <2>1. Arrives(c, call) /\ Received(call).stage # "store"
    BY <1>4 DEF BeginDispatch, Idle
  <2> HIDE DEF call, Received
  <2> QED
    BY <1>1, <2>1
<1> HIDE DEF Received
<1> QED
  BY <1>2, <1>3, <1>4
     DEF handleOneBotMessage, HandleWebhook, handleDemoMessage, dispatchScheduledEvent,
         DispatchCommand, DispatchJob, DispatchSchedule

LEMMA IngressStepRows ==
    ASSUME IngressInvariant, RowsInvariant, NEW c \in Callers, IngressStep(c)
    PROVE  RowsInvariant'
<1>1. {"gate", "invoke", "journal", "key", "report"} \subseteq Stages \ {"store"}
  BY DEF Stages
<1>2. calls[c] \in Call /\ calls \in [Callers -> Call]
  BY UnderWay
<1>3. CASE HasIdempotencyKey(c)
  <2>1. /\ calls[c].stage # "store" /\ UNCHANGED <<snapshots, results, torn>>
        /\ End(c) \/ Goto(c, "gate")
    BY <1>3 DEF HasIdempotencyKey, At, store, history
  <2> QED
    BY <1>1, <2>1, MovesRows
<1>4. CASE LoadEvent(c)
  <2>1. calls[c].stage # "store" /\ UNCHANGED <<snapshots, results, torn>>
    BY <1>4 DEF LoadEvent, At, store, history
  <2>2. CASE End(c)
    BY <2>1, <2>2, MovesRows
  <2>3. ASSUME NEW event, calls' = [calls EXCEPT ![c].stage = "gate", ![c].event = event]
        PROVE  RowsInvariant'
    <3> DEFINE d == [calls[c] EXCEPT !.stage = "gate", !.event = event]
    <3>1. calls' = [calls EXCEPT ![c] = d] /\ d.stage # "store"
      BY <1>2, <2>3 DEF Call
    <3> HIDE DEF d
    <3> QED
      BY <2>1, <3>1, StepRows
  <2> QED
    BY <1>4, <2>2, <2>3 DEF LoadEvent
<1>5. CASE Gate(c)
  <2>1. calls[c].stage # "store" /\ UNCHANGED <<snapshots, results, torn>>
    BY <1>5 DEF Gate, At, store, history
  <2>2. CASE End(c) \/ Leave(c, "report")
    BY <1>1, <2>1, <2>2, MovesRows
  <2>3. CASE calls' = [calls EXCEPT ![c].stage = "next", ![c].index = 1]
    <3> DEFINE d == [calls[c] EXCEPT !.stage = "next", !.index = 1]
    <3>1. calls' = [calls EXCEPT ![c] = d] /\ d.stage # "store"
      BY <1>2, <2>3 DEF Call
    <3> HIDE DEF d
    <3> QED
      BY <2>1, <3>1, StepRows
  <2> QED
    BY <1>5, <2>2, <2>3 DEF Gate
<1>6. CASE NextPlugin(c)
  <2>1. calls[c].stage = "next" /\ UNCHANGED <<snapshots, results, torn>>
    BY <1>6 DEF NextPlugin, At, store, history
  <2>2. ASSUME NEW unread,
               calls' = [calls EXCEPT ![c].stage = "authorize", ![c].unread = unread]
        PROVE  RowsInvariant'
    <3> DEFINE d == [calls[c] EXCEPT !.stage = "authorize", !.unread = unread]
    <3>1. calls' = [calls EXCEPT ![c] = d] /\ d.stage # "store"
      BY <1>2, <2>2 DEF Call
    <3> HIDE DEF d
    <3> QED
      BY <2>1, <3>1, StepRows
  <2>3. CASE calls' = [calls EXCEPT ![c].index = @ + 1]
    <3> DEFINE d == [calls[c] EXCEPT !.index = @ + 1]
    <3>1. calls' = [calls EXCEPT ![c] = d] /\ d.stage # "store"
      BY <1>2, <2>1, <2>3 DEF Call
    <3> HIDE DEF d
    <3> QED
      BY <2>1, <3>1, StepRows
  <2>4. \/ calls' = [calls EXCEPT ![c].index = @ + 1]
        \/ \E unread : calls' = [calls EXCEPT ![c].stage = "authorize", ![c].unread = unread]
    BY <1>6 DEF NextPlugin
  <2> QED
    BY <2>2, <2>3, <2>4
<1>7. CASE Authorize(c)
  <2>1. calls[c].stage = "authorize" /\ snapshots' = snapshots
    BY <1>7 DEF Authorize, At, store
  <2>2. CASE Goto(c, "invoke") /\ UNCHANGED <<results, torn>>
    BY <1>1, <2>1, <2>2, MovesRows
  <2>3. CASE recordDispatch(c, FALSE)
    BY <2>1, <2>3, RecordedRows
  <2> QED
    BY <1>7, <2>2, <2>3 DEF Authorize
<1>8. CASE InvokePlugin(c)
  <2>1. /\ calls[c].stage = "invoke" /\ snapshots' = snapshots
        /\ \E ok \in BOOLEAN : recordDispatch(c, ok)
    BY <1>8 DEF InvokePlugin, At, store
  <2> QED
    BY <2>1, RecordedRows
<1>9. CASE SavePluginStatusSnapshot(c)
  BY <1>9, SavedRows
<1>10. CASE EndDispatch(c)
  <2>1. /\ calls[c].stage # "store" /\ UNCHANGED <<snapshots, results, torn>>
        /\ End(c) \/ Leave(c, "report") \/ Leave(c, "journal")
    BY <1>10 DEF EndDispatch, Settle, At, store, history
  <2> QED
    BY <1>1, <2>1, MovesRows
<1>11. CASE RecordEvent(c)
  <2>1. /\ calls[c].stage # "store" /\ UNCHANGED <<snapshots, results, torn>>
        /\ End(c) \/ Goto(c, "key")
    BY <1>11 DEF RecordEvent, At, history
  <2> QED
    BY <1>1, <2>1, MovesRows
<1>12. CASE SaveIdempotencyKey(c) \/ SaveReplayOperationRecord(c)
  <2>1. calls[c].stage # "store" /\ UNCHANGED <<snapshots, results, torn>> /\ End(c)
    BY <1>12 DEF SaveIdempotencyKey, SaveReplayOperationRecord, At, history
  <2> QED
    BY <2>1, MovesRows
<1> QED
  BY <1>3, <1>4, <1>5, <1>6, <1>7, <1>8, <1>9, <1>10, <1>11, <1>12 DEF IngressStep

LEMMA OperatorRows ==
    ASSUME IngressInvariant, RowsInvariant, NEW on, NEW snapshot, Seen(on, snapshot),
           UNCHANGED <<snapshots, history>>
    PROVE  RowsInvariant'
<1>1. UNCHANGED <<snapshots, results, torn>>
  BY DEF history
<1>2. ASSUME NEW c \in Callers
      PROVE  /\ calls'[c].stage = calls[c].stage /\ calls'[c].index = calls[c].index
             /\ calls'[c].loaded = calls[c].loaded /\ calls'[c].ok = calls[c].ok
  <2>1. calls[c] \in Call
    BY UnderWay
  <2>2. \/ calls'[c] = calls[c]
        \/ calls'[c] = [calls[c] EXCEPT !.enabled = @ \cup on,
                                        !.granted = @ \cup Grants(calls[c].kind, snapshot)]
    BY DEF Seen
  <2> QED
    BY <2>1, <2>2 DEF Call
<1> QED
  BY <1>1, <1>2, RowsFrame

LEMMA RowsKeep == IngressInvariant /\ RowsInvariant /\ [IngressNext]_vars => RowsInvariant'
<1> SUFFICES ASSUME IngressInvariant, RowsInvariant, [IngressNext]_vars PROVE RowsInvariant'
  OBVIOUS
<1>1. CASE \E c \in Callers : IngressStep(c)
  BY <1>1, IngressStepRows
<1>2. CASE \E c \in Callers :
              \/ \E message \in Messages :
                    \/ handleOneBotMessage(c, message) \/ HandleWebhook(c, message)
                    \/ handleDemoMessage(c, message) \/ dispatchScheduledEvent(c, message)
              \/ \E event \in journal : ReplayEvent(c, event)
              \/ \E direct \in Direct :
                    \/ DispatchCommand(c, direct) \/ DispatchJob(c, direct)
                    \/ DispatchSchedule(c, direct)
  BY <1>2, RequestRows
<1>3. ASSUME NEW p \in Plugins, NEW enabled \in BOOLEAN, setEnabled(p, enabled)
      PROVE  RowsInvariant'
  <2>1. \E on : Seen(on, rbac)
    BY <1>3 DEF setEnabled
  <2>2. UNCHANGED <<snapshots, history>>
    BY <1>3 DEF setEnabled
  <2> QED
    BY <2>1, <2>2, OperatorRows
<1>4. ASSUME NEW snapshot \in Grantings, SetSnapshot(snapshot)
      PROVE  RowsInvariant'
  <2>1. Seen({}, snapshot) /\ UNCHANGED <<snapshots, history>>
    BY <1>4 DEF SetSnapshot, store
  <2> QED
    BY <2>1, OperatorRows
<1>5. CASE Crash
  BY <1>5, CrashRows
<1>6. CASE UNCHANGED vars
  <2>1. UNCHANGED <<calls, snapshots, results, torn>>
    BY <1>6 DEF vars, store, history
  <2> QED
    BY <2>1, RowsFrame
<1> QED
  BY <1>1, <1>2, <1>3, <1>4, <1>5, <1>6 DEF IngressNext

LEMMA RowsInit == IngressInit => RowsInvariant
<1> SUFFICES ASSUME IngressInit PROVE RowsInvariant
  OBVIOUS
<1>1. \A c \in Callers : calls[c].stage # "store"
  BY IdleSound DEF IngressInit
<1>2. \A p \in Plugins : snapshots[p] = NoSnapshot /\ results[p] = <<>>
  BY DEF IngressInit
<1>3. \A p : Recording(p) = {}
  BY <1>1 DEF Recording
<1> QED
  BY <1>1, <1>2, <1>3 DEF RowsInvariant, ExactRow

\* The status row of a plugin, read and written in two steps by concurrent
\* dispatches: sound whatever they overwrite, exact where none overlapped
\* (Runtime.recordDispatch, SavePluginStatusSnapshot).
THEOREM SnapshotsStaySound == Ingress => []SnapshotsAreSound
<1>1. RowsInvariant => SnapshotsAreSound
  BY DEF RowsInvariant, SnapshotsAreSound, SoundRow, ExactRow, Failed
<1>2. Ingress => []RowsInvariant
  BY RowsInit, RowsKeep, IngressInvariantHolds, PTL DEF Ingress
<1> QED
  BY <1>1, <1>2, PTL
=============================================================================
