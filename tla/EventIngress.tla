---------------------------- MODULE EventIngress ----------------------------
(***************************************************************************)
(* How an event reaches the plugins, and what is kept of it.  Adapters     *)
(* turn a request into an event (adapter-onebot, adapter-webhook, the demo *)
(* handlers and the scheduler's callback of apps/runtime/main.go);         *)
(* persistRuntimeEvent looks its idempotency key up, dispatches it,        *)
(* records it in the journal and saves the key; the runtime                *)
(* (packages/runtime-core/runtime.go) hands it to the enabled plugins one  *)
(* after the other and records how each did.  Replays, commands, jobs and  *)
(* schedule triggers share the dispatch.                                   *)
(*                                                                         *)
(* Each request runs in a goroutine of its own and no lock is held over a  *)
(* step of it: every look at the store, every call of a handler and every  *)
(* write is one step, and requests, operators and crashes come between.    *)
(***************************************************************************)
EXTENDS Integers, Sequences, FiniteSets

CONSTANTS
    Callers,        \* the goroutines that serve requests
    Order,          \* the registered plugins, in the order of Registry.List
    Handles,        \* plugin -> the kinds of dispatch it has a handler for
    Declares,       \* plugin -> whether its manifest declares the permission
    Scopes,         \* plugin -> the sources of events that reach its handler
    MessageIDs,     \* what identifies a OneBot message, or a schedule plan
    NoID,           \* a request without such an identity
    NoPlugin,       \* a job or a command without a target
    NoSnapshot,     \* an absent row, or no RBAC snapshot
    Messages,       \* what clients and the scheduler send
    Direct,         \* the commands, jobs and triggers dispatched
    Grantings,      \* the RBAC snapshots that may be current
    MaxRequests,    \* bound: requests explored
    MaxChanges,     \* bound: operator changes explored
    MaxFaults       \* bound: crashes and refused store operations explored

Kinds == {"event", "command", "job", "schedule"}
Plugins == {Order[i] : i \in DOMAIN Order}

\* Who sends events through persistRuntimeEvent.
Adapters == {"onebot", "webhook", "demo", "schedule"}

ASSUME OrderAssumption ==
    /\ Order \in Seq(Plugins)
    /\ \A i, j \in DOMAIN Order : Order[i] = Order[j] => i = j
ASSUME ManifestAssumption ==
    /\ Handles \in [Plugins -> SUBSET Kinds]
    /\ Declares \in [Plugins -> BOOLEAN]
    /\ Scopes \in [Plugins -> SUBSET Adapters]
ASSUME NamesAssumption == NoPlugin \notin Plugins /\ NoID \notin MessageIDs \cup Nat
ASSUME IDsAssumption == MessageIDs \cap Nat = {}
\* Only OneBot messages and schedules identify themselves; only webhooks and
\* schedules carry a permission, and only webhooks any other metadata.
ASSUME MessagesAssumption ==
    \A m \in Messages :
        /\ m \in [adapter : Adapters, id : MessageIDs \cup {NoID},
                   restricted : BOOLEAN, tagged : BOOLEAN]
        /\ (m.id = NoID) = (m.adapter \in {"webhook", "demo"})
        /\ m.adapter \in {"onebot", "demo"} => ~m.restricted
        /\ m.adapter # "webhook" => ~m.tagged
ASSUME DirectAssumption ==
    \A d \in Direct :
        /\ d \in [kind : Kinds \ {"event"}, target : Plugins \cup {NoPlugin},
                   restricted : BOOLEAN]
        /\ d.kind = "schedule" => d.target = NoPlugin
        /\ d.kind = "command" => d.target # NoPlugin
ASSUME GrantingsAssumption == Grantings \subseteq (SUBSET Plugins) \cup {NoSnapshot}
ASSUME BoundsAssumption == MaxRequests \in Nat /\ MaxChanges \in Nat /\ MaxFaults \in Nat

Identities == MessageIDs \cup Nat

\* tagged: the metadata, or the identity, says that the event is a replay.
Event == [from : Adapters, id : Identities, key : Identities,
          restricted : BOOLEAN, tagged : BOOLEAN]
Dispatch == [status : {"succeeded", "failed"}, source : Identities, serial : Nat]
Snapshot == [ok : BOOLEAN, streak : Nat, recovered : Nat]

Stages == {"idle", "look", "load", "gate", "next", "authorize", "invoke",
           "store", "journal", "key", "report"}
Call == [stage      : Stages,
         kind       : Kinds \cup {"replay"},
         serial     : Nat,                      \* the number of the request
         event      : Event,
         source     : Identities,               \* the event a replay repeats
         target     : Plugins \cup {NoPlugin},
         index      : Nat,                      \* the plugin worked on
         delivered  : BOOLEAN,
         ok         : BOOLEAN,                  \* what the last plugin made of it
         loaded     : Snapshot \cup {NoSnapshot},
         unread     : BOOLEAN,                  \* history: its overlay could not be read
         \* history: what this request could have seen since it began
         message    : MessageIDs \cup {NoID},   \* the OneBot message delivered
         settled    : SUBSET MessageIDs,
         enabled    : SUBSET Plugins,
         granted    : SUBSET Plugins]

ASSUME SnapshotAssumption == NoSnapshot \notin Snapshot

VARIABLES
    calls,        \* the requests being served, lost in a crash
    rbac,         \* CurrentRBACAuthorizerProvider: plugins the actor has the permission on
    \* The store
    disabled,     \* table plugin_enabled_overlays: the plugins switched off
    journal,      \* table event_journal
    keys,         \* table idempotency_keys
    snapshots,    \* table plugin_status_snapshots
    replays,      \* table replay_operation_records
    \* History and bounds
    requests,     \* requests so far
    handled,      \* what the host reported done: <<event, serial, plugin>>
    answered,     \* the OneBot messages of which a delivery was answered as new
    results,      \* plugin -> the outcomes of its dispatches
    torn,         \* plugins for which recordings overlapped or were lost
    changes, faults

store == <<disabled, journal, keys, snapshots, replays>>
history == <<handled, answered, results, torn>>
vars == <<calls, rbac, store, history, requests, changes, faults>>

NoEvent == [from |-> "demo", id |-> 0, key |-> 0, restricted |-> FALSE, tagged |-> FALSE]
Idle == [stage |-> "idle", kind |-> "event", serial |-> 0, event |-> NoEvent, source |-> 0,
         target |-> NoPlugin, index |-> 0, delivered |-> FALSE, ok |-> FALSE,
         loaded |-> NoSnapshot, unread |-> FALSE, message |-> NoID, settled |-> {},
         enabled |-> {}, granted |-> {}]

IngressTypeOK ==
    /\ calls \in [Callers -> Call]
    /\ rbac \in (SUBSET Plugins) \cup {NoSnapshot}
    /\ disabled \in SUBSET Plugins
    /\ journal \in SUBSET Event
    /\ keys \in SUBSET [key : Identities, id : Identities]
    /\ snapshots \in [Plugins -> Snapshot \cup {NoSnapshot}]
    /\ replays \in SUBSET Dispatch
    /\ requests \in Nat
    /\ handled \in SUBSET (Event \X Nat \X Plugins)
    /\ answered \in SUBSET MessageIDs
    /\ results \in [Plugins -> Seq(BOOLEAN)]
    /\ torn \in SUBSET Plugins
    /\ changes \in Nat
    /\ faults \in Nat

IngressInit ==
    /\ calls = [c \in Callers |-> Idle]
    /\ rbac \in Grantings
    /\ disabled = {}
    /\ journal = {}
    /\ keys = {}
    /\ snapshots = [p \in Plugins |-> NoSnapshot]
    /\ replays = {}
    /\ requests = 0
    /\ handled = {}
    /\ answered = {}
    /\ results = [p \in Plugins |-> <<>>]
    /\ torn = {}
    /\ changes = 0
    /\ faults = 0

-----------------------------------------------------------------------------
(* Who gets a dispatch *)

HandlerKind(kind) == IF kind = "replay" THEN "event" ELSE kind

\* anyEventHandlerDeclaresPermission and its three siblings: the gate of a
\* dispatch that needs a permission.
AnyHandlerDeclares(kind) ==
    \E p \in Plugins : HandlerKind(kind) \in Handles[p] /\ Declares[p]

\* The filter of each kind: a handler, the target of a job, the permission.
ShouldDispatch(call, p) ==
    /\ HandlerKind(call.kind) \in Handles[p]
    /\ call.kind = "job" => call.target \in {NoPlugin, p}
    /\ call.event.restricted => Declares[p]

\* MetadataEventAuthorizer and its siblings allow when no snapshot is loaded.
AuthorizedFor(call, p) ==
    (call.kind # "command" /\ call.event.restricted /\ rbac # NoSnapshot) => p \in rbac

\* An event from another source than those of a plugin's scope does not reach
\* it, and counts as done; a plugin without a scope takes all.
eventAllowed(call, p) ==
    call.kind \notin {"event", "replay"} \/ Scopes[p] = {} \/ call.event.from \in Scopes[p]

\* AdminCommandAuthorizer denies when no snapshot is loaded.
CommandAuthorized(call) ==
    call.event.restricted => rbac # NoSnapshot /\ call.target \in rbac

-----------------------------------------------------------------------------
(* The identity of an event *)

\* The key of a OneBot message is the message's own.
ConvertMessageEvent(message, serial) ==
    [from |-> "onebot", id |-> serial, key |-> message.id, restricted |-> FALSE,
     tagged |-> FALSE]

\* A webhook's key holds its random event id; the metadata are the client's.
MapPayload(message, serial) ==
    [from |-> "webhook", id |-> serial, key |-> serial, restricted |-> message.restricted,
     tagged |-> message.tagged]

\* aiEvent and workflowDemoEvent.
demoEvent(serial) == [NoEvent EXCEPT !.id = serial, !.key = serial]

\* eventForPlan: the id is the plan's, the key holds the time.
eventForPlan(message, serial) ==
    [from |-> "schedule", id |-> message.id, key |-> serial, restricted |-> message.restricted,
     tagged |-> FALSE]

\* ReplayEvent: a new identity, marked as a replay.
Replayed(event, serial) == [event EXCEPT !.id = serial, !.key = serial, !.tagged = TRUE]

isReplayTagged(event) == event.tagged

-----------------------------------------------------------------------------
(* Parts of steps *)

Fault == faults < MaxFaults /\ faults' = faults + 1
NoFault == UNCHANGED faults

Current(c) == Order[calls[c].index]
At(c, stage) == calls[c].stage = stage
Goto(c, stage) == calls' = [calls EXCEPT ![c].stage = stage]
End(c) == calls' = [calls EXCEPT ![c] = Idle]

Recording(p) == {c \in Callers : calls[c].stage = "store" /\ Current(c) = p}

\* recordDispatch and the read with which SavePluginStatusSnapshot begins.
recordDispatch(c, ok) ==
    LET p == Current(c)
    IN  /\ calls' = [calls EXCEPT ![c].stage = "store", ![c].ok = ok,
                                  ![c].delivered = @ \/ ok, ![c].loaded = snapshots[p]]
        /\ results' = [results EXCEPT ![p] = Append(@, ok)]
        /\ torn' = IF Recording(p) = {} THEN torn ELSE torn \cup {p}

\* The loop is over: what it decided with is forgotten.
Leave(c, stage) ==
    calls' = [calls EXCEPT ![c].stage = stage, ![c].index = 0, ![c].enabled = {},
                           ![c].granted = {}]

\* Mutant of Settle: a dispatch that no plugin took counts as delivered.
SettleAlways(c) ==
    IF calls[c].kind = "replay" THEN Leave(c, "report")
    ELSE IF calls[c].kind = "event" THEN Leave(c, "journal") ELSE End(c)

\* The end of a dispatch: an error when no plugin succeeded.
Settle(c) ==
    IF calls[c].kind = "replay" THEN Leave(c, "report")
    ELSE IF calls[c].kind = "event" /\ calls[c].delivered THEN Leave(c, "journal")
    ELSE End(c)

\* The lookups in the tables.
KeyKnown(key) == \E entry \in keys : entry.key = key
Journaled(id) == \E recorded \in journal : recorded.id = id

-----------------------------------------------------------------------------
(* Requests *)

\* History: the plugins that an RBAC snapshot lets a dispatch of the kind have.
Grants(kind, snapshot) ==
    IF snapshot = NoSnapshot THEN IF kind = "command" THEN {} ELSE Plugins ELSE snapshot

Arrives(c, call) ==
    /\ calls[c] = Idle
    /\ requests < MaxRequests
    /\ requests' = requests + 1
    /\ calls' = [calls EXCEPT ![c] =
           [call EXCEPT !.serial = requests + 1, !.settled = answered,
                        !.enabled = Plugins \ disabled, !.granted = Grants(call.kind, rbac)]]
    /\ UNCHANGED <<rbac, store, history, changes, faults>>

persistRuntimeEvent(c, event, message) ==
    Arrives(c, [Idle EXCEPT !.stage = "look", !.event = event, !.message = message])

handleOneBotMessage(c, message) ==
    /\ message.adapter = "onebot"
    /\ persistRuntimeEvent(c, ConvertMessageEvent(message, requests + 1), message.id)

HandleWebhook(c, message) ==
    /\ message.adapter = "webhook"
    /\ persistRuntimeEvent(c, MapPayload(message, requests + 1), NoID)

\* handleAIMessage and handleWorkflowMessage.
handleDemoMessage(c, message) ==
    /\ message.adapter = "demo"
    /\ persistRuntimeEvent(c, demoEvent(requests + 1), NoID)

dispatchScheduledEvent(c, message) ==
    /\ message.adapter = "schedule"
    /\ persistRuntimeEvent(c, eventForPlan(message, requests + 1), NoID)

\* /admin replay <event-id>, for an event the operator picks from the journal.
ReplayEvent(c, event) ==
    Arrives(c, [Idle EXCEPT !.stage = "load", !.kind = "replay", !.source = event.id])

BeginDispatch(c, direct) ==
    Arrives(c, [Idle EXCEPT !.stage = "gate", !.kind = direct.kind, !.target = direct.target,
                            !.event = [NoEvent EXCEPT !.restricted = direct.restricted]])

DispatchCommand(c, direct) == direct.kind = "command" /\ BeginDispatch(c, direct)
DispatchJob(c, direct) == direct.kind = "job" /\ BeginDispatch(c, direct)
DispatchSchedule(c, direct) == direct.kind = "schedule" /\ BeginDispatch(c, direct)

\* Mutant of HasIdempotencyKey: the answer is not used.
KeyIgnored(c) ==
    /\ At(c, "look")
    /\ Goto(c, "gate")
    /\ NoFault
    /\ UNCHANGED <<rbac, store, history, requests, changes>>

HasIdempotencyKey(c) ==
    /\ At(c, "look")
    /\ \/ KeyKnown(calls[c].event.key) /\ NoFault /\ End(c)
       \/ ~KeyKnown(calls[c].event.key) /\ NoFault /\ Goto(c, "gate")
       \/ Fault /\ End(c)
    /\ UNCHANGED <<rbac, store, history, requests, changes>>

\* ReplayEvent reads the journal and refuses what is a replay itself.
LoadEvent(c) ==
    /\ At(c, "load")
    /\ \/ \E event \in journal :
            /\ event.id = calls[c].source
            /\ IF isReplayTagged(event) THEN End(c)
               ELSE calls' = [calls EXCEPT ![c].stage = "gate",
                                           ![c].event = Replayed(event, calls[c].serial)]
            /\ NoFault
       \/ Fault /\ End(c)
    /\ UNCHANGED <<rbac, store, history, requests, changes>>

-----------------------------------------------------------------------------
(* The dispatch *)

\* The manifest gate, after the authorizer when it is a command.
Gate(c) ==
    LET call == calls[c]
        open == /\ call.kind = "command" => CommandAuthorized(call)
                /\ call.event.restricted => AnyHandlerDeclares(call.kind)
    IN  /\ At(c, "gate")
        /\ IF open
             THEN calls' = [calls EXCEPT ![c].stage = "next", ![c].index = 1]
             ELSE IF call.kind = "replay" THEN Leave(c, "report") ELSE End(c)
        /\ UNCHANGED <<rbac, store, history, requests, changes, faults>>

\* Mutant of PluginEnabled: the overlays are not looked at.
AlwaysEnabled(c, p) == NoFault

\* The plugin's overlay; a store that fails leaves the plugin enabled.
PluginEnabled(c, p) == (p \notin disabled /\ NoFault) \/ Fault

\* The head of the loop: the plugin at hand is considered, or passed over.
NextPlugin(c) ==
    LET call == calls[c]
        p == Current(c)
    IN  /\ At(c, "next")
        /\ call.index \in DOMAIN Order
        /\ \/ /\ PluginEnabled(c, p)
              /\ ShouldDispatch(call, p)
              /\ calls' = [calls EXCEPT ![c].stage = "authorize",
                                           ![c].unread = (faults' # faults)]
           \/ /\ p \in disabled \/ ~ShouldDispatch(call, p)
              /\ calls' = [calls EXCEPT ![c].index = @ + 1]
              /\ NoFault
        /\ UNCHANGED <<rbac, store, history, requests, changes>>

Authorize(c) ==
    /\ At(c, "authorize")
    /\ \/ /\ AuthorizedFor(calls[c], Current(c))
          /\ Goto(c, "invoke")
          /\ UNCHANGED <<results, torn>>
       \/ /\ ~AuthorizedFor(calls[c], Current(c))
          /\ recordDispatch(c, FALSE)
    /\ UNCHANGED <<rbac, store, handled, answered, requests, changes, faults>>

\* The plugin host calls the handler, which may fail or succeed, or passes over it.
InvokePlugin(c) ==
    /\ At(c, "invoke")
    /\ \E ok \in BOOLEAN :
          /\ ok \/ eventAllowed(calls[c], Current(c))
          /\ recordDispatch(c, ok)
          /\ handled' = IF ok THEN handled \cup {<<calls[c].event, calls[c].serial, Current(c)>>}
                              ELSE handled
    /\ UNCHANGED <<rbac, store, answered, requests, changes, faults>>

\* Mutant of nextPluginStatusSnapshot: a success does not end the streak.
StreakNotReset(row, ok) ==
    LET before == IF row = NoSnapshot THEN [ok |-> TRUE, streak |-> 0, recovered |-> 0] ELSE row
    IN  [before EXCEPT !.ok = ok, !.streak = IF ok THEN @ ELSE @ + 1]

nextPluginStatusSnapshot(row, ok) ==
    LET before == IF row = NoSnapshot THEN [ok |-> TRUE, streak |-> 0, recovered |-> 0] ELSE row
    IN  IF ok
        THEN [ok |-> TRUE, streak |-> 0,
              recovered |-> IF before.streak > 0 THEN before.streak ELSE before.recovered]
        ELSE [before EXCEPT !.ok = FALSE, !.streak = IF before.ok THEN 1 ELSE @ + 1]

\* The row computed from what was read is written over whatever is there; a
\* store that fails, at the read or at the write, loses the outcome.
SavePluginStatusSnapshot(c) ==
    LET call == calls[c]
        p == Current(c)
    IN  /\ At(c, "store")
        /\ \/ /\ snapshots' = [snapshots EXCEPT ![p] =
                                  nextPluginStatusSnapshot(call.loaded, call.ok)]
              /\ NoFault
              /\ UNCHANGED torn
           \/ Fault /\ torn' = torn \cup {p} /\ UNCHANGED snapshots
        /\ calls' = [calls EXCEPT ![c].stage = "next", ![c].index = @ + 1,
                                  ![c].ok = FALSE, ![c].loaded = NoSnapshot,
                                  ![c].unread = FALSE]
        /\ UNCHANGED <<rbac, disabled, journal, keys, replays, handled, answered, results,
                       requests, changes>>

EndDispatch(c) ==
    /\ At(c, "next")
    /\ calls[c].index \notin DOMAIN Order
    /\ Settle(c)
    /\ UNCHANGED <<rbac, store, history, requests, changes, faults>>

-----------------------------------------------------------------------------
(* What is kept *)

\* An event whose id is in the journal cannot be recorded again.
RecordEvent(c) ==
    LET event == calls[c].event
    IN  /\ At(c, "journal")
        /\ \/ ~Journaled(event.id) /\ NoFault /\ journal' = journal \cup {event} /\ Goto(c, "key")
           \/ Journaled(event.id) /\ NoFault /\ UNCHANGED journal /\ End(c)
           \/ Fault /\ UNCHANGED journal /\ End(c)
        /\ UNCHANGED <<rbac, disabled, keys, snapshots, replays, history, requests, changes>>

\* INSERT OR IGNORE, ON CONFLICT DO NOTHING: the first event keeps the key.
SaveIdempotencyKey(c) ==
    LET event == calls[c].event
    IN  /\ At(c, "key")
        /\ \/ /\ keys' = IF KeyKnown(event.key) THEN keys
                         ELSE keys \cup {[key |-> event.key, id |-> event.id]}
              /\ answered' = answered \cup ({calls[c].message} \ {NoID})
              /\ NoFault
           \/ Fault /\ UNCHANGED <<keys, answered>>
        /\ End(c)
        /\ UNCHANGED <<rbac, disabled, journal, snapshots, replays, handled, results, torn,
                       requests, changes>>

\* Mutant of ReplayStatus: the record does not look at the dispatch.
AlwaysSucceeded(call) == "succeeded"

ReplayStatus(call) == IF call.delivered THEN "succeeded" ELSE "failed"

\* recordReplayResult: an error of the store is dropped.
SaveReplayOperationRecord(c) ==
    LET call == calls[c]
    IN  /\ At(c, "report")
        /\ \/ /\ replays' = replays \cup {[status |-> ReplayStatus(call),
                                           source |-> call.source, serial |-> call.serial]}
              /\ NoFault
           \/ Fault /\ UNCHANGED replays
        /\ End(c)
        /\ UNCHANGED <<rbac, disabled, journal, keys, snapshots, history, requests, changes>>

-----------------------------------------------------------------------------
(* Operators and crashes; a change to what is there already is no step. *)

Change == changes < MaxChanges /\ changes' = changes + 1

\* History: what every request under way, whose dispatch is not over, now sees.
Seen(on, snapshot) ==
    calls' = [c \in Callers |->
        IF calls[c].stage \in {"idle", "journal", "key", "report"} THEN calls[c]
        ELSE [calls[c] EXCEPT !.enabled = @ \cup on,
                              !.granted = @ \cup Grants(calls[c].kind, snapshot)]]

setEnabled(p, enabled) ==
    /\ Change
    /\ enabled = (p \in disabled)
    /\ disabled' = IF enabled THEN disabled \ {p} ELSE disabled \cup {p}
    /\ Seen(IF enabled THEN {p} ELSE {}, rbac)
    /\ UNCHANGED <<rbac, journal, keys, snapshots, replays, history, requests, faults>>

SetSnapshot(snapshot) ==
    /\ Change
    /\ snapshot # rbac
    /\ rbac' = snapshot
    /\ Seen({}, snapshot)
    /\ UNCHANGED <<store, history, requests, faults>>

\* The process dies: the requests are gone, the store stays.
Crash ==
    /\ Fault
    /\ calls' = [c \in Callers |-> Idle]
    /\ torn' = torn \cup {p \in Plugins : Recording(p) # {}}
    /\ UNCHANGED <<rbac, store, handled, answered, results, requests, changes>>

-----------------------------------------------------------------------------
IngressStep(c) ==
    \/ HasIdempotencyKey(c)
    \/ LoadEvent(c)
    \/ Gate(c)
    \/ NextPlugin(c)
    \/ Authorize(c)
    \/ InvokePlugin(c)
    \/ SavePluginStatusSnapshot(c)
    \/ EndDispatch(c)
    \/ RecordEvent(c)
    \/ SaveIdempotencyKey(c)
    \/ SaveReplayOperationRecord(c)

IngressNext ==
    \/ \E c \in Callers :
          \/ IngressStep(c)
          \/ \E message \in Messages :
                \/ handleOneBotMessage(c, message)
                \/ HandleWebhook(c, message)
                \/ handleDemoMessage(c, message)
                \/ dispatchScheduledEvent(c, message)
          \/ \E event \in journal : ReplayEvent(c, event)
          \/ \E direct \in Direct :
                \/ DispatchCommand(c, direct)
                \/ DispatchJob(c, direct)
                \/ DispatchSchedule(c, direct)
    \/ \E p \in Plugins, enabled \in BOOLEAN : setEnabled(p, enabled)
    \/ \E snapshot \in Grantings : SetSnapshot(snapshot)
    \/ Crash

Ingress == IngressInit /\ [][IngressNext]_vars

-----------------------------------------------------------------------------
(* Properties *)

\* A key is in the table only for an event that is in the journal and that the
\* host has reported done for some plugin: no redelivery is turned away for an
\* event that failed everywhere, was lost in a crash or was never recorded.
\* A plugin whose scope the event is out of counts (persistRuntimeEvent,
\* main.go:2511; routedPluginHost.DispatchEvent, plugin_host_routed.go:105).
KeysAreEarned ==
    \A entry \in keys :
        \E done \in handled :
            /\ done[1] \in journal
            /\ done[1].key = entry.key
            /\ done[1].id = entry.id

\* A OneBot message delivered again after a delivery of it was answered is not
\* dispatched again, whatever failed and crashed in between; deliveries that
\* overlap may all be dispatched (persistRuntimeEvent, main.go:2515).
AnsweredIsFinal ==
    \A c \in Callers :
        calls[c].stage \notin {"idle", "look"} => calls[c].message \notin calls[c].settled

\* A plugin is called only for a kind it handles, with the permission the
\* dispatch needs declared in its manifest, as its target if a job has one,
\* and only if at some moment since the request came it was enabled and the
\* permission was granted: a decision is never older than the request.  The
\* switch fails open: a plugin whose overlay the store does not give counts as
\* enabled, so one that was disabled all along is called then, for this one
\* dispatch and with the same permission (PluginEnabled, plugin_state.go:32-52).
CalledWhileAllowed ==
    \A c \in Callers :
        LET call == calls[c]
            p == Current(c)
        IN  call.stage = "invoke" =>
                /\ HandlerKind(call.kind) \in Handles[p]
                /\ call.kind = "job" => call.target \in {NoPlugin, p}
                /\ p \in call.enabled \/ call.unread
                /\ call.event.restricted =>
                       /\ Declares[p]
                       /\ (IF call.kind = "command" THEN call.target ELSE p) \in call.granted

Failures(outcomes, n) ==
    /\ n =< Len(outcomes)
    /\ \A i \in Len(outcomes) - n + 1 .. Len(outcomes) : ~outcomes[i]
    /\ n < Len(outcomes) => outcomes[Len(outcomes) - n]

\* The status row of a plugin: a success and a streak of failures exclude each
\* other and no streak is longer than the failures there were; and as long as
\* no two dispatches of the plugin were recorded at once and none was lost,
\* the row counts exactly the failures since the last success.  Recordings
\* that overlap may lose one another (SavePluginStatusSnapshot, state.go:843).
SnapshotsAreSound ==
    \A p \in Plugins :
        LET row == snapshots[p]
            outcomes == results[p]
        IN  /\ row # NoSnapshot =>
                   /\ row.ok = (row.streak = 0)
                   /\ row.streak =< Cardinality({i \in DOMAIN outcomes : ~outcomes[i]})
                   /\ row.ok => \E i \in DOMAIN outcomes : outcomes[i]
            /\ p \notin torn /\ Recording(p) = {} =>
                   IF row = NoSnapshot THEN outcomes = <<>> ELSE Failures(outcomes, row.streak)

\* What the table says of a replay is what happened: it succeeded exactly if a
\* plugin handled the event again, under a new identity, and what it repeated
\* is in the journal and is no replay itself (ReplayEvent, replay.go:75).
ReplaysAreTrue ==
    \A replay \in replays :
        /\ \E event \in journal : event.id = replay.source /\ ~event.tagged
        /\ (replay.status = "succeeded") =
               (\E done \in handled : done[2] = replay.serial /\ done[1].tagged)
=============================================================================
