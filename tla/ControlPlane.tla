---------------------------- MODULE ControlPlane ----------------------------
(***************************************************************************)
(* What operators do to a running runtime, and under which permission: the *)
(* operator requests of apps/runtime/main.go, the current RBAC snapshot    *)
(* (packages/runtime-core/command_authorizer.go), the commands that        *)
(* plugins/plugin-admin carries out through callbacks, one command at a    *)
(* time because its host's mutex is held over a command, the lifecycle     *)
(* service (plugin_state.go), the rollout manager (rollout.go) and the     *)
(* audit log.                                                              *)
(*                                                                         *)
(* A request over HTTP reads the RBAC rows of the store again, in two      *)
(* reads, before it is authorised.  Of a command each operation on the     *)
(* store is a step of its own, but for a look whether a plugin is          *)
(* registered, which it is for good: a callback of the rollout manager     *)
(* reads the manifest and decides, then saves its operation record, then   *)
(* the head, which it keeps in memory from then on.  A start is one step,  *)
(* as nothing is served in it.  The plugin's process may die between two   *)
(* callbacks, and its host then gives the command to a new process from    *)
(* the start; the runtime may stop anywhere and start again, possibly as   *)
(* another build with another configuration; another runtime may start on  *)
(* the same store at any moment, and saves its manifests and its RBAC      *)
(* configuration there.                                                    *)
(***************************************************************************)
EXTENDS Rollout, Sequences, FiniteSets

CONSTANTS
    Calls,          \* the goroutines that serve requests
    Plugins,
    Admin,          \* plugin-admin
    Candidates,     \* the plugins the rollout manager has a candidate of
    Resources,      \* jobs, schedules and plugin configs
    Actors,
    Roles,
    Configurations, \* RBAC configurations: the roles of actors, the policies of roles
    Requests,       \* [action, actor, target]: what operators ask for
    Releases,       \* what is deployed: pairs of a build and a configuration
    MaxRequests,    \* bound: requests explored
    MaxEvents       \* bound: requests, starts, deaths and refused store operations explored

Rollouts == {"prepare", "canary", "activate", "rollback"}
Commands == Rollouts \cup {"enable", "disable"}
Actions == Commands \cup {"operate"}
Permissions == {"plugin:enable", "plugin:disable", "plugin:rollout", "operate"}
Targets == Plugins \cup Resources

ASSUME CallsAssumption == None \notin Calls
ASSUME PluginsAssumption == Admin \in Plugins /\ Candidates \subseteq Plugins
ASSUME ConfigurationsAssumption ==
    \A c \in Configurations :
        c \in [roles : [Actors -> SUBSET Roles],
               policies : [Roles -> [permissions : SUBSET Permissions,
                                     scope : SUBSET Targets]]]
ASSUME RequestsAssumption ==
    /\ Requests \subseteq [action : Actions, actor : Actors, target : Targets]
    /\ \A q \in Requests : (q.target \in Resources) = (q.action = "operate")
ASSUME ReleasesAssumption == Releases \subseteq Builds \X Configurations
ASSUME ControlBoundsAssumption == MaxRequests \in Nat /\ MaxEvents \in Nat

\* Where a request is.  "policies" to "publish" is the reload, "gate" and
\* "dispatch" the runtime's dispatch, "queued" the wait for the host, the
\* stages of Served the command in the plugin, "respond" the HTTP answer;
\* "permit" to "note" are a request that changes a resource.  In "record" and
\* "head" the rollout manager has what it decided still to save.
Saving == {"record", "head"}
Permitted == {"act", "can_activate", "enable_first", "mark", "can_rollback", "unmark"}
                 \cup Saving
Served == Permitted \cup {"authorize", "audit", "reply"}
Stages == {"policies", "identities", "publish", "gate", "dispatch", "queued",
           "respond", "permit", "change", "note", "answered"} \cup Served
Outcomes == {"none", "done", "failed", "denied"}

\* policies and identities: the configurations last read, or last authorised
\* under.  floor: no read of an older one was under way when the request came.
\* again: its plugin died under it.  audited: what the audit log says of it.
Call == [action : Actions, actor : Actors, target : Targets, stage : Stages,
         policies : Nat, identities : Nat, floor : Nat, again : BOOLEAN,
         outcome : Outcomes, audited : Outcomes,
         status : {"none", "ok", "denied", "error"}]

ASSUME NoCallAssumption == None \notin Call

VARIABLES
    build,         \* this runtime's
    heads,         \* the rollout manager's, in memory
    saving,        \* what a request has yet to save of a rollout: a record, and a head or None
    lock,          \* the request that holds the host of plugin-admin
    provider,      \* the current snapshot: the configurations it was read from
    calls,
    overlay,       \* store: plugin -> enabled
    manifest,      \* store: the build whose manifests were saved last
    storedHeads,   \* store
    lastOperation, \* store: the newest operation record of each plugin
    installed,     \* store: the RBAC configurations there were, the current one last
    since,         \* history: the builds in "manifest" since a plugin was enabled first
    requests, starts, faults

store == <<overlay, manifest, installed>>
rollouts == <<heads, saving, storedHeads, lastOperation, since>>
vars == <<build, heads, saving, lock, provider, calls, overlay, manifest, storedHeads,
          lastOperation, installed, since, requests, starts, faults>>

-----------------------------------------------------------------------------
(* Helpers. *)

At(c, stage) == calls[c] # None /\ calls[c].stage = stage

To(c, stage) == calls' = [calls EXCEPT ![c].stage = stage]

Finish(c, outcome) ==
    calls' = [calls EXCEPT ![c].stage = "audit", ![c].outcome = outcome]

Answer(c, status) ==
    calls' = [calls EXCEPT ![c].stage = "answered", ![c].status = status]

Events == requests + starts + faults

Fault == Events < MaxEvents /\ faults' = faults + 1

\* The answer, with an audit whose error nobody looks at.
AuditAndAnswer(c, outcome, status) ==
    \/ /\ calls' = [calls EXCEPT ![c].stage = "answered", ![c].status = status,
                                ![c].audited = outcome]
       /\ UNCHANGED faults
    \/ Fault /\ Answer(c, status)

permissionForAction(action) ==
    CASE action = "enable" -> "plugin:enable"
      [] action = "disable" -> "plugin:disable"
      [] action \in Rollouts -> "plugin:rollout"
      [] OTHER -> "operate"

\* The actions the runtime's dispatch knows a permission of.
adminPermissionForAction == {"enable", "disable", "prepare", "activate"}

AuthorizeTarget(roles, policies, actor, permission, target) ==
    \E role \in roles[actor] :
        permission \in policies[role].permissions /\ target \in policies[role].scope

Granted(policies, identities, call) ==
    AuthorizeTarget(installed[identities].roles, installed[policies].policies,
                    call.actor, permissionForAction(call.action), call.target)

AllowedNow(c) == Granted(provider.policies, provider.identities, calls[c])

\* A decision and the snapshot it was made under.
Authorized(c, stage) ==
    calls' = [calls EXCEPT ![c].stage = stage,
                           ![c].policies = provider.policies,
                           ![c].identities = provider.identities]

OverHTTP(action) == action \notin Rollouts

EnteringHost(action) ==
    CASE action = "activate" -> "can_activate"
      [] action = "rollback" -> "can_rollback"
      [] OTHER -> "act"

-----------------------------------------------------------------------------
(* The rollout manager.  What it cannot save it keeps in memory. *)

NothingToSave == [record |-> NoRecord, head |-> None]

\* A call of the manager has its outcome; what it decided is to be saved.
Save(c, record, head, outcome) ==
    /\ calls' = [calls EXCEPT ![c].stage = "record", ![c].outcome = outcome]
    /\ saving' = [saving EXCEPT ![c] = [record |-> record, head |-> head]]
    /\ UNCHANGED <<storedHeads, lastOperation, since>>

SaveHead(c, head, outcome) == Save(c, rolloutRecordFromHead(head), head, outcome)

\* The call returns to the plugin.
Saved(c) ==
    /\ To(c, "audit")
    /\ saving' = [saving EXCEPT ![c] = NothingToSave]
    /\ since' = {}

Fresh == evaluate(manifest, build)

\* Only the phase is looked at, not what drifted since.
preparedOnce(p) == heads[p] # None /\ IsPrepared(heads[p]) /\ p \in Candidates

validatePreparedState(p) ==
    /\ heads[p] # None
    /\ IsPrepared(heads[p])
    /\ p \in Candidates
    /\ ~Drifted(heads[p], Fresh)

\* A plugin that has no head, is not prepared or whose manifest is not read
\* is refused; one that drifted gets the head of the new preflight.
RefuseRollout(c) ==
    LET p == calls[c].target IN
    \/ /\ heads[p] = None
       /\ Save(c, NoRecord, None, "failed")
       /\ UNCHANGED <<heads, faults>>
    \/ /\ heads[p] # None
       /\ ~IsPrepared(heads[p]) \/ p \notin Candidates
       /\ Save(c, rolloutRecordFromHead(heads[p]), None, "failed")
       /\ UNCHANGED <<heads, faults>>
    \/ /\ heads[p] # None
       /\ IsPrepared(heads[p])
       /\ Fault
       /\ Save(c, rolloutRecordFromHead(heads[p]), None, "failed")
       /\ UNCHANGED heads
    \/ /\ heads[p] # None
       /\ IsPrepared(heads[p])
       /\ p \in Candidates
       /\ Drifted(heads[p], Fresh)
       /\ heads' = [heads EXCEPT ![p] = Fresh]
       /\ SaveHead(c, Fresh, "failed")
       /\ UNCHANGED faults

\* A missing head is recorded; one that cannot go back is only refused.
RefuseRollback(c) ==
    LET p == calls[c].target IN
    \/ /\ heads[p] = None
       /\ Save(c, NoRecord, None, "failed")
       /\ UNCHANGED <<heads, faults>>
    \/ /\ heads[p] # None /\ ~rolloutHeadCanRollback(heads[p])
       /\ Finish(c, "failed")
       /\ UNCHANGED <<rollouts, faults>>

restorePersistedRecords(listed) ==
    IF listed /\ \E p \in Plugins : storedHeads[p] # None
    THEN storedHeads
    ELSE [p \in Plugins |->
             IF lastOperation[p] = None THEN None
             ELSE rolloutHeadFromOperationRecord(lastOperation[p])]

-----------------------------------------------------------------------------
Init ==
    /\ \E release \in Releases : build = release[1] /\ installed = <<release[2]>>
    /\ manifest = build
    /\ heads = [p \in Plugins |-> None]
    /\ storedHeads = [p \in Plugins |-> None]
    /\ lastOperation = [p \in Plugins |-> None]
    /\ saving = [c \in Calls |-> NothingToSave]
    /\ since = {}
    /\ lock = None
    /\ provider = [policies |-> 1, identities |-> 1]
    /\ calls = [c \in Calls |-> None]
    /\ overlay = [p \in Plugins |-> TRUE]
    /\ requests = 0 /\ starts = 0 /\ faults = 0

\* The configurations a reload still under way may publish, and the current one.
Publishable ==
    {calls[d].policies : d \in {e \in Calls : At(e, "identities") \/ At(e, "publish")}}
        \cup {Len(installed)}

\* A request over HTTP comes in, or a command is given to the runtime.
Arrive(c, request) ==
    /\ calls[c] = None
    /\ requests < MaxRequests /\ Events < MaxEvents /\ requests' = requests + 1
    /\ \E oldest \in Publishable :
           /\ \A n \in Publishable : oldest <= n
           /\ calls' = [calls EXCEPT ![c] =
                  [action |-> request.action, actor |-> request.actor,
                   target |-> request.target,
                   stage |-> IF OverHTTP(request.action) THEN "policies" ELSE "gate",
                   policies |-> 0, identities |-> 0,
                   floor |-> IF OverHTTP(request.action) THEN oldest ELSE 0,
                   again |-> FALSE, outcome |-> "none", audited |-> "none",
                   status |-> "none"]]
    /\ UNCHANGED <<build, rollouts, lock, provider, store, starts, faults>>

\* ReloadFromStore reads the policies,
ReadPolicies(c) ==
    /\ At(c, "policies")
    /\ calls' = [calls EXCEPT ![c].stage = "identities", ![c].policies = Len(installed)]
    /\ UNCHANGED <<build, rollouts, lock, provider, store, requests, starts, faults>>

\* then the identities,
ReadIdentities(c) ==
    /\ At(c, "identities")
    /\ calls' = [calls EXCEPT ![c].stage = "publish", ![c].identities = Len(installed)]
    /\ UNCHANGED <<build, rollouts, lock, provider, store, requests, starts, faults>>

\* The snapshot is read at startup and kept.
KeepSnapshot(c) ==
    /\ At(c, "publish")
    /\ To(c, IF calls[c].action = "operate" THEN "permit" ELSE "gate")
    /\ UNCHANGED <<build, rollouts, lock, provider, store, requests, starts, faults>>

\* and puts what it read in the place of what another request put there.
SetSnapshot(c) ==
    /\ At(c, "publish")
    /\ provider' = [policies |-> calls[c].policies, identities |-> calls[c].identities]
    /\ To(c, IF calls[c].action = "operate" THEN "permit" ELSE "gate")
    /\ UNCHANGED <<build, rollouts, lock, store, requests, starts, faults>>

\* The session, the RBAC rows or the state to answer with are not to be had.
StoreFails(c) ==
    /\ At(c, "policies") \/ At(c, "identities") \/ At(c, "respond")
    /\ Fault
    /\ Answer(c, "error")
    /\ UNCHANGED <<build, rollouts, lock, provider, store, requests, starts>>

\* The gate of the dispatch; canary and rollback pass it unlooked at.
DispatchCommand(c) ==
    /\ At(c, "gate")
    /\ \/ /\ calls[c].action \notin adminPermissionForAction \/ AllowedNow(c)
          /\ To(c, "dispatch")
          /\ UNCHANGED faults
       \/ /\ calls[c].action \in adminPermissionForAction /\ ~AllowedNow(c)
          /\ AuditAndAnswer(c, "denied", "denied")
    /\ UNCHANGED <<build, rollouts, lock, provider, store, requests, starts>>

\* Only plugin-admin handles commands: while it is disabled nobody does.
dispatchToPlugins(c) ==
    /\ At(c, "dispatch")
    /\ \/ overlay[Admin] /\ To(c, "queued")
       \/ ~overlay[Admin] /\ Answer(c, "error")
    /\ UNCHANGED <<build, rollouts, lock, provider, store, requests, starts, faults>>

\* A host that serves commands as they come.
AcquireAlways(c) ==
    /\ At(c, "queued")
    /\ lock' = c
    /\ To(c, "authorize")
    /\ UNCHANGED <<build, rollouts, provider, store, requests, starts, faults>>

AcquireHost(c) ==
    /\ At(c, "queued")
    /\ lock = None
    /\ lock' = c
    /\ To(c, "authorize")
    /\ UNCHANGED <<build, rollouts, provider, store, requests, starts, faults>>

\* The plugin asks again whether the actor may.
PluginAuthorizes(c) ==
    /\ At(c, "authorize")
    /\ \/ AllowedNow(c) /\ Authorized(c, EnteringHost(calls[c].action))
       \/ ~AllowedNow(c) /\ Finish(c, "denied")
    /\ UNCHANGED <<build, rollouts, lock, provider, store, requests, starts, faults>>

\* enable and disable.
SetEnabled(c) ==
    /\ At(c, "act") /\ calls[c].action \in {"enable", "disable"}
    /\ \/ /\ overlay' = [overlay EXCEPT ![calls[c].target] = (calls[c].action = "enable")]
          /\ Finish(c, "done")
          /\ UNCHANGED faults
       \/ Fault /\ Finish(c, "failed") /\ UNCHANGED overlay
    /\ UNCHANGED <<build, rollouts, lock, provider, manifest, installed, requests, starts>>

Prepare(c) ==
    LET p == calls[c].target IN
    /\ At(c, "act") /\ calls[c].action = "prepare"
    /\ \/ /\ p \in Candidates
          /\ SaveHead(c, Fresh, IF Fresh.status = "rejected" THEN "failed" ELSE "done")
          /\ UNCHANGED faults
       \/ /\ p \notin Candidates
          /\ Save(c, NoRecord, None, "failed")
          /\ UNCHANGED faults
       \/ Fault /\ Save(c, NoRecord, None, "failed")
    /\ UNCHANGED <<build, heads, lock, provider, store, requests, starts>>

Canary(c) ==
    LET p == calls[c].target IN
    /\ At(c, "act") /\ calls[c].action = "canary"
    /\ \/ /\ validatePreparedState(p)
          /\ heads[p].phase = "candidate"
          /\ SaveHead(c, canaried(heads[p]), "done")
          /\ UNCHANGED <<heads, faults>>
       \/ /\ validatePreparedState(p)
          /\ heads[p].phase # "candidate"
          /\ Finish(c, "failed")
          /\ UNCHANGED <<rollouts, faults>>
       \/ RefuseRollout(c)
    /\ UNCHANGED <<build, lock, provider, store, requests, starts>>

\* activate asks first, enables the plugin, and asks again before it marks it.
CanActivate(c) ==
    LET p == calls[c].target IN
    /\ At(c, "can_activate")
    /\ \/ validatePreparedState(p) /\ To(c, "enable_first") /\ UNCHANGED <<rollouts, faults>>
       \/ RefuseRollout(c)
    /\ UNCHANGED <<build, lock, provider, store, requests, starts>>

EnableFirst(c) ==
    /\ At(c, "enable_first")
    /\ \/ /\ overlay' = [overlay EXCEPT ![calls[c].target] = TRUE]
          /\ since' = {manifest}
          /\ To(c, "mark")
          /\ UNCHANGED faults
       \/ Fault /\ Finish(c, "failed") /\ UNCHANGED <<overlay, since>>
    /\ UNCHANGED <<build, heads, saving, storedHeads, lastOperation, lock, provider,
                   manifest, installed, requests, starts>>

\* The second check reads the manifest; the mark is made when it is saved.
Activate(c) ==
    LET p == calls[c].target IN
    /\ At(c, "mark")
    /\ \/ /\ validatePreparedState(p)
          /\ SaveHead(c, activated(heads[p]), "done")
          /\ UNCHANGED <<heads, faults>>
       \/ RefuseRollout(c)
    /\ UNCHANGED <<build, lock, provider, store, requests, starts>>

CanRollback(c) ==
    LET p == calls[c].target IN
    /\ At(c, "can_rollback")
    /\ \/ /\ heads[p] # None /\ rolloutHeadCanRollback(heads[p])
          /\ To(c, "unmark") /\ UNCHANGED <<rollouts, faults>>
       \/ RefuseRollback(c)
    /\ UNCHANGED <<build, lock, provider, store, requests, starts>>

Rollback(c) ==
    LET p == calls[c].target IN
    /\ At(c, "unmark")
    /\ \/ /\ heads[p] # None /\ rolloutHeadCanRollback(heads[p])
          /\ SaveHead(c, rolledBack(heads[p]), "done")
          /\ UNCHANGED <<heads, faults>>
       \/ RefuseRollback(c)
    /\ UNCHANGED <<build, lock, provider, store, requests, starts>>

\* The operation record is saved, or nobody hears that it was not.
persistOperationResult(c) ==
    /\ At(c, "record")
    /\ \/ /\ lastOperation' = [lastOperation EXCEPT ![calls[c].target] = saving[c].record]
          /\ UNCHANGED faults
       \/ Fault /\ UNCHANGED lastOperation
    /\ \/ saving[c].head = None /\ Saved(c)
       \/ saving[c].head # None /\ To(c, "head") /\ UNCHANGED <<saving, since>>
    /\ UNCHANGED <<build, heads, storedHeads, lock, provider, store, requests, starts>>

\* The head is saved, or not, and is the one in memory either way.
persistHead(c) ==
    /\ At(c, "head")
    /\ \/ /\ storedHeads' = [storedHeads EXCEPT ![calls[c].target] = saving[c].head]
          /\ UNCHANGED faults
       \/ Fault /\ UNCHANGED storedHeads
    /\ heads' = [heads EXCEPT ![calls[c].target] = saving[c].head]
    /\ Saved(c)
    /\ UNCHANGED <<build, lastOperation, lock, provider, store, requests, starts>>

\* A command that was carried out and cannot be audited has failed.
recordAndJoin(c) ==
    /\ At(c, "audit")
    /\ \/ /\ calls' = [calls EXCEPT ![c].stage = "reply", ![c].audited = calls[c].outcome]
          /\ UNCHANGED faults
       \/ /\ Fault
          /\ calls' = [calls EXCEPT ![c].stage = "reply",
                           ![c].outcome = IF @ = "denied" THEN "denied" ELSE "failed"]
    /\ UNCHANGED <<build, rollouts, lock, provider, store, requests, starts>>

StatusOf(outcome) ==
    CASE outcome = "done" -> "ok" [] outcome = "denied" -> "denied" [] OTHER -> "error"

\* The host reads the answer.  One that a second process gives may count as a
\* success whatever it says.
Reply(c) ==
    /\ At(c, "reply")
    /\ lock' = None
    /\ \E status \in {StatusOf(calls[c].outcome)} \cup (IF calls[c].again THEN {"ok"} ELSE {}) :
           IF status = "ok" /\ OverHTTP(calls[c].action)
           THEN To(c, "respond")
           ELSE Answer(c, status)
    /\ UNCHANGED <<build, rollouts, provider, store, requests, starts, faults>>

\* The process dies under a command: a new one gets it from the start, once.  The
\* host hears of it only when no callback is under way.
PluginDies(c) ==
    /\ lock = c /\ calls[c].stage \notin Saving
    /\ Fault
    /\ \/ /\ ~calls[c].again
          /\ calls' = [calls EXCEPT ![c].stage = "authorize", ![c].again = TRUE,
                                    ![c].outcome = "none"]
          /\ UNCHANGED lock
       \/ lock' = None /\ Answer(c, "error")
    /\ UNCHANGED <<build, rollouts, provider, store, requests, starts>>

\* The answer of enable and disable is what the store says by now.
Respond(c) ==
    /\ At(c, "respond")
    /\ Answer(c, "ok")
    /\ UNCHANGED <<build, rollouts, lock, provider, store, requests, starts, faults>>

\* Job, schedule and config operators: permission, change, audit, answer.
PermitOperator(c) ==
    /\ At(c, "permit")
    /\ \/ AllowedNow(c) /\ Authorized(c, "change") /\ UNCHANGED faults
       \/ ~AllowedNow(c) /\ AuditAndAnswer(c, "denied", "denied")
    /\ UNCHANGED <<build, rollouts, lock, provider, store, requests, starts>>

ChangeResource(c) ==
    /\ At(c, "change")
    /\ \/ calls' = [calls EXCEPT ![c].stage = "note", ![c].outcome = "done"]
       \/ Answer(c, "error")
    /\ UNCHANGED <<build, rollouts, lock, provider, store, requests, starts, faults>>

\* What follows the audit, the dispatch of a resumed job for one, may fail.
recordOperatorSuccessAudit(c) ==
    /\ At(c, "note")
    /\ \E status \in {"ok", "error"} : AuditAndAnswer(c, "done", status)
    /\ UNCHANGED <<build, rollouts, lock, provider, store, requests, starts>>

\* The answer is with the client.
Close(c) ==
    /\ At(c, "answered")
    /\ calls' = [calls EXCEPT ![c] = None]
    /\ UNCHANGED <<build, rollouts, lock, provider, store, requests, starts, faults>>

ReplaceCurrentRBACState(configuration) == installed' = Append(installed, configuration)

\* Another runtime starts on the same store, whatever this one is doing.
StartAnother(release) ==
    /\ Events < MaxEvents /\ starts' = starts + 1
    /\ ReplaceCurrentRBACState(release[2])
    /\ manifest' = release[1]
    /\ since' = IF since = {} THEN {} ELSE since \cup {release[1]}
    /\ UNCHANGED <<build, heads, saving, storedHeads, lastOperation, lock, provider, calls,
                   overlay, requests, faults>>

\* This runtime stops where it is and starts again.
Restart(release) ==
    /\ Events < MaxEvents /\ starts' = starts + 1
    /\ ReplaceCurrentRBACState(release[2])
    /\ provider' = [policies |-> Len(installed) + 1, identities |-> Len(installed) + 1]
    /\ build' = release[1] /\ manifest' = release[1]
    /\ \/ heads' = restorePersistedRecords(TRUE) /\ UNCHANGED faults
       \/ Fault /\ heads' = restorePersistedRecords(FALSE)
    /\ calls' = [c \in Calls |-> None]
    /\ lock' = None
    /\ saving' = [c \in Calls |-> NothingToSave] /\ since' = {}
    /\ UNCHANGED <<overlay, storedHeads, lastOperation, requests>>

Serve(c) ==
    \/ ReadPolicies(c) \/ ReadIdentities(c) \/ SetSnapshot(c) \/ StoreFails(c)
    \/ DispatchCommand(c) \/ dispatchToPlugins(c) \/ AcquireHost(c) \/ Respond(c)
    \/ PermitOperator(c) \/ ChangeResource(c) \/ recordOperatorSuccessAudit(c) \/ Close(c)

InPlugin(c) ==
    \/ PluginAuthorizes(c) \/ SetEnabled(c) \/ Prepare(c) \/ Canary(c)
    \/ CanActivate(c) \/ EnableFirst(c) \/ Activate(c)
    \/ CanRollback(c) \/ Rollback(c)
    \/ persistOperationResult(c) \/ persistHead(c)
    \/ recordAndJoin(c) \/ Reply(c) \/ PluginDies(c)

Next ==
    \/ \E c \in Calls : (\E request \in Requests : Arrive(c, request)) \/ Serve(c) \/ InPlugin(c)
    \/ \E release \in Releases : StartAnother(release) \/ Restart(release)

Control == Init /\ [][Next]_vars

-----------------------------------------------------------------------------
(* Properties. *)

ControlTypeOK ==
    /\ build \in Builds /\ manifest \in Builds
    /\ heads \in [Plugins -> RolloutHead \cup {None}]
    /\ storedHeads \in [Plugins -> RolloutHead \cup {None}]
    /\ lastOperation \in [Plugins -> Record \cup {None}]
    /\ saving \in [Calls -> [record : Record, head : RolloutHead \cup {None}]]
    /\ since \in SUBSET Builds
    /\ lock \in Calls \cup {None}
    /\ provider \in [policies : Nat, identities : Nat]
    /\ calls \in [Calls -> Call \cup {None}]
    /\ overlay \in [Plugins -> BOOLEAN]
    /\ installed \in Seq(Configurations)
    /\ requests \in Nat /\ starts \in Nat /\ faults \in Nat

\* A head made again from an operation record.
Rebuilt(head) == head.stable.contract = None

HeadSound(head) ==
    /\ head.phase # "canary" => head.active = head.stable
    /\ head.phase = "canary" => head.candidate # None /\ head.active = head.candidate
    /\ head.phase = "candidate" => head.candidate # None
    /\ (IsPrepared(head) /\ ~Rebuilt(head))
           => /\ head.candidate.version # head.stable.version
              /\ head.candidate.contract = head.stable.contract
    /\ head.status = "activated" => head.candidate = None

\* Whatever operators, drift, refused writes and restarts did to a rollout, what
\* is active is the stable snapshot except in a canary, where it is a compatible
\* candidate of another version and the stable snapshot is still there to go
\* back to (rollout.go:147-200); only a head made again from an operation record
\* has lost it (rollout.go:501-528).  In memory and in the store.
RolloutsAreSound ==
    \A p \in Plugins : \A head \in {heads[p], storedHeads[p]} : head # None => HeadSound(head)

\* A plugin is marked activated only while it is enabled, only with the candidate
\* its head named when the mark was made, and only if the manifest that candidate
\* was prepared against was in the store at some moment since the plugin was
\* enabled for it: no disable and no second command gets between the enable, the
\* second check, its two writes and the mark, and a build deployed before the
\* enable is noticed (plugin.go:172-185, rollout.go:88-96, 203-233).  One
\* deployed after it may be missed: nothing keeps another runtime from saving its
\* manifests between the check and the mark.
ActivatedAsPrepared ==
    [][starts' = starts =>
          \A p \in Plugins :
              (heads'[p] # heads[p] /\ heads'[p].status = "activated")
                  => /\ heads[p] # None /\ IsPrepared(heads[p])
                     /\ heads'[p].stable = heads[p].candidate
                     /\ \E b \in since :
                            heads[p].stable.version = rolloutSnapshotStateFromManifest(b).version
                     /\ overlay[p]]_vars

\* What a command that was carried out has left.
Effect(call) ==
    CASE call.action = "enable" -> overlay[call.target]
      [] call.action = "disable" -> ~overlay[call.target]
      [] call.action = "activate" -> /\ heads[call.target].status = "activated"
                                     /\ overlay[call.target]
      [] call.action = "prepare" -> heads[call.target].status = "prepared"
      [] call.action = "canary" -> heads[call.target].status = "canarying"
      [] call.action = "rollback" -> heads[call.target].status = "rolled_back"

\* The audit of a command is true when it is written: what it says was done is
\* there, although nothing but the host's mutex keeps other commands away
\* between the change and the audit.  And a command answered as successful is in
\* the audit log, whatever failed on the way, unless its plugin died under it
\* (plugin.go:199-208, plugin_host_subprocess.go:1136-1144).
AuditsAreTrue ==
    \A c \in Calls :
        calls[c] # None =>
            /\ (calls[c].stage \in {"audit", "reply"} /\ calls[c].outcome = "done")
                   => Effect(calls[c])
            /\ (calls[c].status = "ok" /\ ~calls[c].again)
                   => /\ calls[c].outcome = "done"
                      /\ calls[c].action \in Commands => calls[c].audited = "done"

\* What changes something was granted, and to an operator's request over HTTP by
\* policies and roles none of which had been replaced before the oldest reload
\* that was still under way when it came: a permission taken away is gone for
\* the requests that come after the ones then served (command_authorizer.go:
\* 432-453, main.go:1464-1475).
RevocationsHold ==
    \A c \in Calls :
        (calls[c] # None /\ calls[c].stage \in Permitted \cup {"change"})
            => /\ Granted(calls[c].policies, calls[c].identities, calls[c])
               /\ calls[c].policies >= calls[c].floor
               /\ calls[c].identities >= calls[c].floor
=============================================================================
