# A verification of the Elysia-Bot runtime

Elysia-Bot (Go, `src/`) is a bot runtime: events come in over adapters, are
dispatched to plugins, some of which live in subprocesses; long work becomes
jobs in a persistent queue, plans fire events later, workflows wait for their
child jobs, and operators intervene over HTTP.  Everything that must survive a
restart is in a SQLite or PostgreSQL store.

This directory holds TLA+ models of the parts where state, concurrency and
failure meet, TLC runs over small instances, and TLAPS proofs of the safety
properties for every instance.  Abbreviations below: **JQ** is
`packages/runtime-core/job_queue.go`, **RT** `packages/runtime-core/runtime.go`,
**SCH** `packages/runtime-core/scheduler.go`, **HOST**
`packages/runtime-core/plugin_host_subprocess.go`, **MAIN**
`apps/runtime/main.go`, **CHAT** `plugins/plugin-ai-chat/plugin.go`, **ST**
`packages/runtime-core/state.go`, **WF** `packages/runtime-core/workflow.go`,
**DEMO** `plugins/plugin-workflow-demo/plugin.go`, **ROLL**
`packages/runtime-core/rollout.go`, **CA**
`packages/runtime-core/command_authorizer.go`, **ADM**
`plugins/plugin-admin/plugin.go`, **RH** `apps/runtime/plugin_host_routed.go`.

To run: `tlc -config X.cfg M` for a run, `tlapm M.tla` for a proof module.

## 1. Inventory

### Parts, state and operations

| part | state | operations | status |
|---|---|---|---|
| job life cycle (`plugin-sdk/plugin.go`, JQ) | one `Job` row | `CanTransitionTo`, `Transition`, lease, retry, recovery and reason-code functions | modelled |
| job queue (JQ) | map `jobs`, list `dead`, tables `jobs` and `alerts` | `Enqueue`, `MarkRunning`, `Heartbeat`, `Complete`, `Fail`, `Timeout`, `Retry`, `RetryDeadLetter`, `Pause`, `Resume`, `Cancel`, `Restore` | modelled |
| queued-job dispatch (RT, MAIN) | HTTP goroutines, snapshots of ready jobs, heartbeats | `DispatchReady`, `DispatchQueuedJob`, failure transition, job endpoints | modelled |
| plugin-ai-chat (CHAT) | none of its own; sessions table | `OnEvent`, `ProcessJob` | stages of a dispatch |
| scheduler (SCH, MAIN) | maps `plans`, `dueAt`, runner goroutine, table `schedule_plans`, `event_journal` | `Register`, `Cancel`, `Start`, `Restore`, `runDuePlans`, `claimDuePlan`, dispatch, settle | modelled |
| workflow runtime (WF), plugin-workflow-demo (DEMO) | table `workflow_instances` | `StartOrResume`, `ResumeFromChildJob`, `Restore`; `OnEvent` | modelled |
| event ingress (MAIN, the two adapters) | tables `event_journal`, `idempotency_keys` | convert, look the key up, dispatch, record, save the key | modelled |
| event dispatch (RT) | plugin registry, `plugin_status_snapshots` | `DispatchEvent` and its three siblings: gate, enabled flag, filter, authorizer, host, recorder | modelled |
| replay (`replay.go`) | `event_journal`, `replay_operation_records` | dispatch a stored event again, record how it went | modelled |
| subprocess plugin host (HOST), routed host (RH) | processes, their pipes, one lock per host, restart failures, readers left behind | preflight, start, handshake, write, read, callback, restart, close | modelled |
| manifests and configs (HOST, `runtime_version.go`) | none | version ranges, config schemas, instance configs, defaults | modelled |
| plugin lifecycle (`plugin_state.go`) | table `plugin_enabled_overlays` | enable, disable, the dispatch's look at it | modelled |
| rollout (ROLL) | heads in memory, tables of heads and of operation records | prepare, canary, activate, roll back, restore | modelled |
| operator authorisation (CA, MAIN) | the current RBAC snapshot, tables of identities and policies | reload, publish, decide | modelled |
| plugin-admin (ADM) | none of its own; the audit log | `OnCommand`: permission, rollout, lifecycle, audit | modelled |
| state stores (ST, `postgres.go`) | tables | one statement or one transaction per call | modelled with their clients |
| HTTP API (MAIN) | none | endpoints | those that change state, with the part they change |
| console, web UI, adapters' HTTP clients, AI provider, files and secrets, logs, metrics, traces, tools | | | not modelled (section 8) |

### How they interact

* A message enters over HTTP, `plugin-ai-chat` (in its subprocess, by callback)
  enqueues a job, and the *same request* then calls `DispatchReady`.  There is
  no background worker: retries and restored jobs wait for the next request.
* `DispatchReady` claims with `MarkRunning` and calls the host, which holds one
  lock for the dispatch and for every callback of the plugin to the queue, the
  provider and the reply service.
* The scheduler's goroutine hands due events to `persistRuntimeEvent`, the
  function the ingress uses as well: key check, dispatch, journal, key.
* `plugin-workflow-demo` (in a subprocess of its own) enqueues a child job and
  starts a workflow that waits for it.  Whoever ends that job (the dispatcher,
  or the timeout or cancel endpoint) then resumes the workflow, once, under no
  lock; a restart restores the queue first and reconciles the workflows with it.
* An operator's request over HTTP reads the RBAC rows of the store again, puts
  them in the place of the current snapshot, and is then dispatched as a command
  to `plugin-admin`, which asks for the permission once more, changes a rollout
  or an enabled flag and writes the audit log, each by a callback under the one
  lock of its host.  Jobs, schedules and plugin configs are changed by their
  endpoints directly.
* A replay command of `plugin-admin` dispatches a stored event while the
  command is being served: a dispatch within a dispatch, to another host.
* The stores are shared, by several runtimes if they are configured so; each
  client owns its tables.  Components keep a map
  in memory beside the table and write the table first.

### What is hard

A key looked up before the dispatch and saved after it; decisions taken plugin by
plugin while operators change what they are taken from; rows read, computed and
written back by several goroutines; readers of pipes that outlive their process;
processes that live as long as the request that happened to start them; an
activation in three callbacks; an audit written after the change; permissions
read in two parts.  Claims made from stale snapshots; operations split over two critical sections
(`Fail`, `transitionQueuedJobDispatchFailure`); executors that outlive the run
they were started for; a subprocess that dies after it answered, and is
replayed; a process killed between two rows of a recovery; a runner that works
without the lock through a list of plans that clients change; a notice of an
ended job that arrives before the one who waits for it; one of several
writes failing; and recovery that has to clean up without losing or repeating
work.  `PROJECT.json` lists each of these as a hazard at its line, with the
properties that watch it, or with the reason why none does yet.

### What makes each part correct

* *Queue*: memory and tables never disagree; the four places that say "dead"
  agree; a job runs at most as often as it is charged and allowed, across
  crashes; leases and owners belong to the run under way; terminal is final;
  a paused job stays paused.
* *Dispatch*: at most one reply per attempt and replay; a done job was
  answered; a running job has somebody who will end it; jobs settle.
* *Scheduler*: a plan fires at most once per due time and life of the process;
  a cancelled plan never fires; no claim blocks a plan after a restart; a plan
  disappears only when it fired or was cancelled; due plans are taken up.
* *Ingress*: a key is earned by a dispatch that was recorded; a OneBot message
  answered once is not dispatched again; no decision is older than the request it
  is taken for; what is recorded of plugins and replays is what they did.
* *Workflow*: a workflow waits only for jobs that exist; a result is one its job
  had; a step that waits for the user is passed by the user only; a workflow
  whose job has ended is resumed, at the latest by a restart.
* *Rollout, lifecycle*: what is active is stable, or a canary with a way back;
  only what is enabled, and was prepared against a manifest the store had since it was
  enabled, is marked activated.
* *Operators*: a revoked permission is gone for requests to come; audits are true.
* *Host*: bounded restarts; a response is taken for the request it answers; a
  request is handled twice at the most; every dispatch returns, unless the plugin
  stops reading or calls back for ever; a config that reaches a plugin fits its schema
  as far as that is enforced.

## 2. Plan

| step | modules | composition | state |
|---|---|---|---|
| 1 | `JobLifecycle` | pure functions on a row | done |
| 2 | `JobQueue`, `MCJobQueue` | EXTENDS `JobLifecycle` | done |
| 3 | `JobLedger` | abstract specification; `JobQueue` implements it | done |
| 4 | `JobQueueProofs`, `JobLedgerProofs` | theorems | done |
| 5 | `JobDispatch`, `MCJobDispatch`, `JobDispatchProofs` | EXTENDS `JobQueue`, out of whose actions its own are built | done |
| 6 | `Agenda` | abstract specification; `Scheduler` implements it | done |
| | `Scheduler`, `MCScheduler`, `SchedulerProofs` | with the journal | done |
| 7 | `EventIngress`, `MCEventIngress`, `EventIngressProofs` | with the dispatch to plugins and replays | done |
| 8 | `Workflow`, `WorkflowRuntime`, `MCWorkflowRuntime`, `WorkflowRuntimeProofs` | over the job queue's abstract specification: `INSTANCE JobLedger` | done |
| 9 | `PluginCompatibility`, `SubprocessHost`, `MCSubprocessHost`, `SubprocessHostProofs` | EXTENDS `PluginCompatibility`: pure operators with a reference | done |
| 10 | `Rollout`, `ControlPlane`, `MCControlPlane`, `ControlPlaneProofs` | EXTENDS `Rollout` | done |

Section 7 says what is proved, and what is left to the model checker.

## 3. Modules and their correspondence with the code

**JobLifecycle.**  `Job` is the row without identity, payload and display times
(StartedAt, FinishedAt, HeartbeatAt, LeaseAcquiredAt; the decisions read
none of them).  `CanTransitionTo` and `Transition` are `plugin-sdk/plugin.go`;
`stampRunningOwnership`, `renewLease`, `clearJobOwnership`, `recoverJob`,
`FailedJob`, `reviveDeadLetterJob` and the two reason-code functions compute a
new row from an old one as in JQ.  Times are ticks; one `WorkerID` stands for
the one the runtime sets.

**JobQueue.**  An operation is *one* step because it holds `q.mu` from its
first read to its last write and writes the store before the memory: when the
store refuses, nothing has changed; when the process dies between the two
writes, the memory is lost anyway, so that is a crash just after the step.  Two
operations are split where the code releases the lock or commits separately:
`Fail` (`BeginFail`, `EndFail`, `RefuseFail`) and `Restore` (`BeginRestore`,
`RecoverRow` for each row, `EndRestore`).  `dead` counts a job's entries in the
in-memory list, so duplicates would be seen.  `attempts` and `revivals` are
history.  The fallback of JQ 719-725 and 736-743 for an alert sink without
transactions is left out: both stores of the repository have them and the
runtime passes the same store for jobs and alerts (MAIN 1110-1111).

**JobLedger.**  What the queue promises its clients, without memory, crashes,
clock or codes: a job stands in one place, is charged per failed run, and is
buried with an alarm when its budget is spent.

**Agenda.**  What the scheduler promises to those who plan with it, without memory,
rows, snapshots, restores or refused writes: one agenda, in which a plan stands with
the time it is due.  It is as loose as the code where finding 3 is: a delivery is for an
id and a time and may be that of an earlier registration, and what it settles is
whatever plan has the id.

**JobDispatch.**  Extends the queue with the goroutines that call it: `req`
gives each request its stage, its snapshot (`todo`), its job, which attempt it
claimed, how the host came by the plugin's answer, and whether its client has
left (the context of store writes is then cancelled).  `HostFree` is the host's
lock.  Each stage of `DispatchReady`, of the host and of `ProcessJob` is an
action; the heartbeat goroutine is `Beat`.  The claim's identity, in the code
owner, lease and start time, is the number of the attempt.  Left out: the order
of the snapshot, a heartbeat already under way when its dispatch ends, and the pending
branch of `transitionQueuedJobDispatchFailure`, which `DispatchReady` cannot
reach because it passes the row it has just marked running.

**Scheduler.**  `Register`, `Cancel` and the update after a firing hold `mu`
and are one step.  The runner is a stage machine (`waiting`, `next`,
`dispatch`, `record`, `settle`) because `runDuePlans` holds no lock between
them: `runDuePlans` takes the snapshot, `claimDuePlan`/`SkipPlan` do the
conditional UPDATE, `Dispatch`/`DispatchFails` and `RecordEvent` are
`persistRuntimeEvent`, `SettlePlan` the end of the loop's body.  The snapshot's
order is any.  `Restore` goes row by row (`BeginRestore`, `RecoverRow`,
`EndRestore`).  A registration number tells two plans with one id apart; the
code has none and no guard reads it.  The idempotency key of a scheduled event
contains the time in nanoseconds and is new each time; the journal's key is the
event id `evt-schedule-<id>`, the same for every firing of an id.  Rows without
a due time occur only at the beginning, as a release before that column left
them.  The runtime always sets a store; without one there is neither claim nor
recovery.  Invalid rows, evidence texts, statistics and reads are left out, and
the clock does not go back.

**Workflow.**  A workflow is its index into the steps, what it waits for, the
result of its child job and whether it was compensated.  `WorkflowAdvance`,
`Passed`, `ResumeWithChildJob` are `Advance` and the `Resume` methods;
`advanceWorkflowUntilBlocked` gives the state the loop of `Advance` stops in,
which is the next blocking step or the end.

**WorkflowRuntime.**  Three kinds of actors.  The plugin's `message` (one at a
time: the host's lock) goes through `OnEvent`, one action per callback:
`FindWorkflow`, `FindJob`, `CancelStaleJob`, `EnqueueJob`, `StartOrResume`,
`SaveStartOrResume`, `Answer`; it may fail at each, and its process may die and
be sent the message again (`Replay`).  The `callers` dispatch, time out, cancel
and move jobs, and tell the workflow: `LoadForOutcome` and `SaveResumed` are two
steps because `ResumeFromChildJob` loads and saves under no lock.  The process
crashes, recovers the queue's runs (`RecoverJob`) and restores the rows one by
one (`RestoreInstance`).  The queue is `INSTANCE JobLedger`: what
`JobQueueProofs` shows of the code's queue is what is used here.  A child job is
created with no retries, so its budget is 0.  `load` reads the table, so the map
in memory decides nothing and is left out, and a save is one write.  Left out too:
trace fields, the owning plugin, the values steps save, the reply's text, and a
response that times out while the old plugin process goes on.

**EventIngress.**  A request is a stage machine, because no lock is held over any
two of its steps: `look`, `gate`, `next`, `authorize`, `invoke`, `store`, `journal`,
`key`.  `ConvertMessageEvent`, `MapPayload`, `demoEvent` and `eventForPlan` reduce an
event to what decides: its source, its id, its idempotency key, whether it names a
permission and whether it says it is a replay.  A OneBot key is the message's id
alone: neither the user nor the group is part of it.  A webhook's key holds an id
drawn at random, so a webhook delivered again is never recognised; a schedule's
holds the time.  `NextPlugin`, `Authorize` and `InvokePlugin` are the body of the
loop of `DispatchEvent` and its siblings (a plugin whose overlay cannot be read counts as
enabled, `plugin_state.go:40-50`: `unread` notes such a dispatch), `SavePluginStatusSnapshot` the second half
of the recorder: it writes back what it computed from a row read before.  An event
that is out of a plugin's scope counts as delivered (RH:106).  RBAC may be
configured or not (`NoSnapshot`); then events, jobs and schedules are allowed and
commands are not.  What the handler does is left to the other modules.

**PluginCompatibility.**  Pure operators.  A schema and a config are functions on
paths; what each level of the code enforces, which differs from level to level
(HOST:915-1060), is `Reached`, `InstanceConfigMissing`, `InstanceConfigMistyped`,
`InstanceConfigOutOfEnum`, `Made` and `Filled`.  `TypeDeclared`, `EnumDeclared` and
`RequiredPresent` are the reference: what the schema says, on every level.
(`docs/topics/plugin-development-conventions.md:25` has every config refused that
breaks a declared type or a required property, on whatever level; on the second level
the code asks for neither an object nor a required property.  `ConfigsSound` states
where it does.  Of an enum it asks less than the schema says twice: an empty one admits
everything (HOST:800), and one on an object is looked at on no level (HOST:973).)

**SubprocessHost.**  Three kinds of actors: goroutines that dispatch (`frames`, a
stack, because a replay is a dispatch within a callback), processes (`Greet`,
`Take`, `AskBack`, `TakeResult`, `Answer`, `Noise`, `StopReading`, `ReadAgain`, `Die`), and
what surrounds them
(clients that leave, the failure window, readers left behind).  A line is what it
is for and whom it answers; the pipes are queues of lines.  `Lock` to `Return` is
`dispatchRequest` under `mu`, `phase` tells how often the request was sent.  A
process nobody has waited for looks alive (`Reuse`) until a write to it fails.
A timeout is per line (HOST:1471-1487), so callbacks prolong a request, as many as the
plugin likes; a write has none at all (HOST:1462-1469, 1707-1737), so to a process that
has stopped reading (`deaf`) it may wait, the host's mutex held, until the process reads
again or dies (`Blocked`), or still find room in the pipe.  Lines that the code passes
over (`callback_result`, 1478) are left out; to read one is to wait for the next.  A reader given up at a timeout looks its process up in
`h.processes` later and without the lock (`LateReader`): it may panic, or take
lines of the process started since (`Steal`).  `HealthCheck` is called by nobody and
left out.

**Rollout.**  Heads, the preflight, the transitions and the head rebuilt from an
operation record, as operators; a build of the runtime stands for the manifests it
declares, and a candidate is the build's own manifest under another version.

**ControlPlane.**  A request of an operator is a stage machine.  Over HTTP it
begins with `ReadPolicies`, `ReadIdentities`, `SetSnapshot`
(`ReloadFromStore`, CA:432-453: two reads and one publication, with no lock over
them); rollout commands reach the runtime through `DispatchCommand` only, the HTTP
API has no endpoint for them.  Then `DispatchCommand` (the gate, which knows the
permission of four of the six commands), `dispatchToPlugins`, `AcquireHost`, and one
action per callback of `plugin-admin`: `PluginAuthorizes`, `SetEnabled`, `Prepare`,
`Canary`, `CanActivate`, `EnableFirst`, `Activate`, `CanRollback`, `Rollback`,
`recordAndJoin`.  Of a callback of the rollout manager each operation on the store is a
step: it reads the manifest and decides, and `saving` holds what it then saves with
`persistOperationResult` and `persistHead`.  `Reply` ends the command.  `PermitOperator`, `ChangeResource` and
`recordOperatorSuccessAudit` are the endpoints that change a job, a schedule or a
config.  `PluginDies` gives the command to a new process from the start, once: its
answer then counts as a success whatever it says (HOST:1136-1144).  Either write may
fail, and nobody looks: `persistHead` puts the head into memory in any case.
`StartAnother` is a second runtime on the same store: it replaces the RBAC rows
and saves its manifests, between any two of these steps; `Restart` is this one, with whatever build and
configuration, in one step because nothing is served before it is over.
`policies`, `identities` and `floor` number the configurations a request read, was
decided under, and may not be decided below; the code keeps the snapshot itself.
The model is of a runtime with RBAC configured.  Left out: requests without a
session (refused before anything is read), the console's read permission, and the
host's timeouts, which `SubprocessHost` has.

## 4. Runs

| run | cfg | instance | distinct states | shows |
|---|---|---|---|---|
| `job_queue` | `MCJobQueue` | 2 jobs, budgets 0 and 2, 1 racing `Fail`, 1 revival, 2 ticks | 208 639 | all queue invariants, the inductive one included, action properties, refinement of `JobLedger` |
| `job_queue_pause` | `MCJobQueuePause` | same | violation | finding 1 |
| `job_dispatch` | `MCJobDispatch` | 1 job with 1 retry, 2 requests, all failures | 841 956 | replies are paid for, done is answered |
| `job_dispatch_settle` | `MCJobDispatchSettle` | same, without host or store failures or disconnects | 38 790 | a running job is being executed; jobs settle under fairness |
| `job_dispatch_orphan` | `MCJobDispatchOrphan` | host failures only | violation | finding 2 |
| `scheduler` | `MCScheduler` | 1 id, 3 kinds of plans, 2 registrations, 2 faults, 3 ticks | 103 313 | invariants, once per life, refinement of `Agenda`; due plans are taken |
| `scheduler_lost` | `MCSchedulerLost` | same, no faults and no handler errors | violation | finding 3 |
| `workflow` | `MCWorkflowRuntime` | 1 session, 2 workflows, 2 callers, all faults | 233 339 | invariants, the inductive one included; only messages confirm; restarts wake all |
| `workflow_outcome` | `MCWorkflowRuntimeOutcome` | same, no faults | violation | finding 4 |
| `ingress` | `MCEventIngress` | 2 requests, 2 plugins, 4 senders, 3 other dispatches, 1 operator change, 1 fault | 1 649 627 | keys are earned, answered is final, decisions are current, rows and replay records are true |
| `host` | `MCSubprocessHost` | 2 goroutines, 2 plugins on 2 hosts, 2 requests, 1 fault; every config of a schema of up to 4 levels | 221 144 | answers match, twice at most, budget, configs; every dispatch returns whose plugins read and do not call back for ever |
| `control` | `MCControlPlane` | 2 goroutines, 3 requests, 3 releases, 4 events | 2 560 743 | rollouts, audits, revocations, activations |

**Bounds, and why they are enough.**
*Job queue*: two jobs let the recovery die between rows; a budget of 0 is the
boundary where a first failure kills, 2 leaves a retry that is not the last; one
caller inside `Fail` races with every other operation, which need no caller
(two `Fail` calls race only through what either does to the row, and `Timeout`,
`EndFail` and `RefuseFail` interleave with the open one); one revival gives a
second death of the same job; two ticks make "later" different from "now" and
let a lease or retry time pass.
*Dispatch*: two requests and one job is the smallest instance with a stale
snapshot, a second claim and an old executor; one retry is what
`plugin-ai-chat` creates jobs with.
*Scheduler*: one id registered twice gives the identity problems; its snapshot
is stale from `runDuePlans` to the claim and from the claim to the settling, so
a second plan adds no staleness of a new kind.  Three ticks give a slot
missed and a slot to come; two faults give a crash in the recovery from a crash.
*Workflow*: sessions share nothing but the plugin's host, so one is enough; its
first workflow and a later one are the two ways an id is made; two callers are
a dispatcher and the operator who is quicker, or slower.  The steps are the
demo's with a sleep before the last, so that timers occur.
*Ingress*: two requests are two deliveries of one message, a delivery and its
replay, or two dispatches that record the same plugin's outcome; one of the plugins
declares the permission and the other does not, one has a scope and the other none.
*Host*: two requests on one host, on two hosts, or one within the other; one fault is
a death, a line of noise, a plugin that stops reading, a client that leaves or a reader
left behind; callbacks are not bounded, and the host adds timeouts and restarts of its own.  With a definition other than the plain one
a single request is explored, because nothing the definition decides depends on
other requests; the definitions are all schemas of one property on the levels one
to four with every config that goes as far, which is where enforcement differs.
*Control plane*: two goroutines are two reloads that overtake each other, or a
command that waits for the host while another holds it; three requests are a
prepare, a canary and an activation, or a disable between two of them; of the three
releases two have the same contract and differ in what an operator may do, the
third has another contract.  `MaxEvents` bounds requests, starts, deaths and refused
writes together, so that runs of one kind of trouble are as long as mixed ones.
The theorems have no bounds.
`MCWorkflowRuntime` also compares `advanceWorkflowUntilBlocked` with the loop
of `Advance`, for every list of up to three steps (`DriveIsAdvanceLoop`).
What of this is also proved without bounds is in section 7.

**Deadlock** is checked except in the scheduler runs, in `workflow_outcome`,
which has no restarts and comes to rest when the session's runs (`MaxRuns`) are
used up, and in `ingress`, `host` and `control`, which rest when the requests they
explore are answered (`host` also when the runtime has panicked).  In the scheduler runs the system rests
when no plan is left, the clock is at its last tick, and the registrations and
faults are used up.

**Mutants.**  Each property of a passing run is shown to depend on the code by
a mutant in the module (`\* Mutant of ...`): a forgotten guard, a
non-transactional write, a swapped order; TLC finds the property violated with
it.

## 5. Fairness

* `JobQueue`, `DispatchSpec`, `SchedulerSpec` and the `Spec` of
  `WorkflowRuntime` assume none: safety only.
* `FairDispatch`: weak fairness of a request's own steps (a goroutine that can
  run does), of `Start` (the process is restarted by whoever runs it) and of
  the clock; strong fairness of `OtherMessage`, which assumes that messages
  keep arriving: with no background worker nothing else would ever take up a
  retry, and `JobsSettle` is false without it.  The run has no store or host
  failures: with them a job can be orphaned (finding 2).  `JobsSettle` is
  conditional: the process stays up in the end, and no retry is put off past
  the last tick of the clock.
* `Ingress` and `Control` assume none.
* `HostFairness`: weak fairness of what a goroutine does once it has its host, unless it
  is in a write that may be blocked, and strong fairness of `Lock`, because Go's mutex
  hands itself to a waiter that has waited long.  Nothing is assumed of the plugins.
  Where the code has no timeout, `Returns` has a premise instead (`Cooperates`): the
  plugins that a host waits for, its own and, for `plugin-admin`'s, those that replays go
  to, do not stop reading for ever nor call back for ever.  That they answer, live or
  speak the protocol is no premise: that the dispatch returns then must follow from the
  timeouts.
* `FairScheduler`: weak fairness of the runner (its ticker keeps firing), of
  the restart and of the clock; faults are finitely many (`MaxFaults`), handler
  errors are not bounded.

## 6. Findings

1. **A pause does not hold** (`job_queue_pause`, JQ:289).  A failure checks only
   the transition table, which lists paused -> retrying for `Resume`; a timeout
   or a late `Fail` takes a paused job to retrying and it runs again.
2. **An orphaned run** (`job_dispatch_orphan`, RT:665).  A job timed out between
   the claim and the plugin's look at it is claimed again by the plugin; if the
   subprocess is then lost, the failure transition finds a run that is not its
   own and leaves it, running, to nobody.
3. **A plan removed without having fired** (`scheduler_lost`, SCH:490).  The
   runner settles whatever plan has the id of the one it dispatched; a plan
   cancelled and registered anew in between is removed in its place.

4. **An outcome told too early** (`workflow_outcome`, DEMO:105).  The child job is
   enqueued before its workflow is saved; when it ends in between, its one notice
   finds no workflow, and the workflow saved next waits for an ended job,
   refusing every message, until a restart.  `RestoreWakesAll` shows that the
   restart always helps.

Noted while modelling, not claimed: every firing of one schedule id has the
same journal id, so a second firing of a cron plan is dispatched but cannot be
recorded, its claim stays, and the plan waits for a restart.  The model has
this behaviour (`RecordEvent`); no document says what should happen.  And of
workflows: a message replayed after it confirmed a workflow starts another run;
a later run is found by no message, so nobody can confirm it; an outcome told by
two goroutines may reopen a workflow confirmed between their saves.  `PROJECT.json`
lists them as hazards without properties.

Of the ingress: redelivered webhooks are always dispatched, as their key is drawn
at random; overlapping deliveries of a OneBot message may all be dispatched.  Of the
host: a reader left behind by a timeout can end the runtime (`panicked`), an error
answered by the second process counts as a success, and a plugin that does not read its
stdin, or that calls back without end, holds its host, and whoever waits for it, for as
long as it likes; a client that leaves gets its host out of a read, and out of a write only
if the process was started for that client's request and is killed with it.  Of the lifecycle: a
store that does not give a plugin's flag leaves it enabled for that dispatch, whether it
was disabled or not.

Of the control plane: canary and rollback pass the gate of the dispatch without a
look at the permission, and only `plugin-admin` asks; disabling `plugin-admin` locks
out every later command, the enable that would undo it included; a rollback after an
activation restores nothing, as the head no longer knows what was stable before
(ROLL:147-200); a head made again from a canary's record has lost the stable version;
an activation that fails is recorded with the head's status; a head that drifted is
left prepared for the new version and the next activation takes it; another runtime may
save its manifests between the check of an activation and its mark, which then is of the
version prepared and not of the one deployed; an audit that
cannot be written fails a command that was carried out, and a plugin that dies
between the two leaves a change unaudited; a slow reload may publish older RBAC
rows over newer ones until the next one, or the roles of one configuration with
the policies of another; a config changed by an operator is applied at the next
start.  The comment at ROLL:61 says the manager has no staged rollout and no
rollback; it has both.

## 7. Proofs

Proved by TLAPS for every set of jobs, callers, ids, plans, sessions, plugins, hosts, routes,
manifests, config schemas and configs, actors, configurations, builds and releases, every
budget, lease, clock bound, cron library whose slots advance, and workflow whose
one child job comes before its other blocking steps:

| theorem | module | property |
|---|---|---|
| `InvariantHolds` | `JobQueueProofs` | `QueueInvariant`, inductive |
| `TypeCorrect`, `MemoryAgrees`, `DeadLetterAgreement`, `BudgetBoundsAttempts`, `ReasonsAreHonest`, `OwnershipFollowsStatus`, `RetriesAreScheduled` | `JobQueueProofs` | the queue's safety invariants |
| `RestoreLeavesNothingRunning` | `JobQueueProofs` | `NothingRunsAfterRestore` |
| `SettledJobsStay`, `RetriesKeepTheirTime` | `JobQueueProofs` | `TerminalIsFinal`, `RetryTimeKept` |
| `LedgerImplemented` | `JobLedgerProofs` | `ImplementsLedger` |
| `PausesEndAsTold` | `JobQueueProofs` | what does end a pause (finding 1): `PauseEndsAsTold` |
| `DispatchTypeCorrect`, `RepliesStayCovered`, `RepliesArePaidFor` | `JobDispatchProofs` | types, `RepliesCovered`, `RepliesPaidFor` |
| `DoneJobsAreAnswered` | `JobDispatchProofs` | `DoneIsAnswered` |
| `RunningJobsAreExecuted` | `JobDispatchProofs` | `RunningIsExecuted`, without store failures, disconnects and host failures |
| `OnlyForeignRunsAreOrphaned` | `JobDispatchProofs` | `RunningIsExecuted` with host failures, but for those of finding 2 |
| `SchedulerInvariantHolds`, `SchedulerTypeCorrect`, `PlansAgree`, `ClaimsStayLive`, `CancelledStaysCancelled`, `TakenOncePerLife` | `SchedulerProofs` | the scheduler's safety properties |
| `SchedulerImplementsAgenda` | `SchedulerProofs` | `ImplementsAgenda` |
| `PatientPlansAreServed` | `SchedulerProofs` | `RemovedOnlyAfterDispatch`, while no id that the runner holds is registered anew (finding 3) |
| `ControlInvariantHolds`, `ControlTypeCorrect`, `RolloutsStaySound`, `AuditsStayTrue`, `RevocationsStayHeld`, `ActivationsAsPrepared` | `ControlPlaneProofs` | `ControlInvariant`, inductive, and the properties of `control` |
| `IngressInvariantHolds`, `IngressTypeCorrect`, `KeysStayEarned`, `AnsweredStaysFinal`, `CallsStayAllowed`, `ReplaysStayTrue` | `EventIngressProofs` | `IngressInvariant`, inductive, and the properties of `ingress` |
| `SnapshotsStaySound` | `EventIngressProofs` | `SnapshotsAreSound`, by `RowsInvariant` over it |
| `HostInvariantHolds`, `HostTypeCorrect`, `BudgetIsKept` | `SubprocessHostProofs` | `HostInvariant`, inductive: types, mutex, `BudgetHolds` |
| `TalkInvariantHolds`, `AnswersAreOwn` | `SubprocessHostProofs` | `TalkInvariant`, inductive with `HostInvariant`, and `AnswersMatch` |
| `SendInvariantHolds`, `RequestsHandledTwice` | `SubprocessHostProofs` | `SendInvariant`, and `HandledAtMostTwice` |
| `ConfigsAreSound` | `SubprocessHostProofs` | `ConfigsSound`, for every schema and config |
| `NoHostsInACircle` | `SubprocessHostProofs` | `NoCircle`: no dispatches wait for each other's hosts |
| `RangesAreConvex` | `SubprocessHostProofs` | a range of runtime versions has no holes |
| `WorkflowInvariantHolds`, `WorkflowTypeCorrect`, `ChildrenAreKnown`, `ResultsAreReal`, `RestoreMissesNone` | `WorkflowRuntimeProofs` | `WorkflowInvariant`, inductive, and what follows from it |
| `MessagesConfirm` | `WorkflowRuntimeProofs` | `OnlyMessagesConfirm` |
| `CalmOutcomesResume` | `WorkflowRuntimeProofs` | `OutcomeResumesWorkflow`, without failures and races with a creation (finding 4) |

**Assumptions.**  The named `ASSUME`s of the modules: sentinels are not values
of the type they stand beside, budgets and bounds are naturals, `Callers` is
finite (its cardinality is used), cron slots lie after the time asked, a
workflow waits for its child job first, a manifest has at most one config schema, and
`plugin-admin`, which alone replays events, has a host of its own (MAIN 1167), on which
only `NoHostsInACircle` rests.  That of the workflow is the shape of DEMO:130-139;
without it a restored workflow could come to wait for a job already over.  TLC
evaluates each of them in the runs.

**The queue.**  `AttemptsWithinBudget` is not inductive: whether an attempt is
already paid for depends on the status, so `QueueInvariant` counts the run under
way (`SoundCounts`).  `ReasonMatchesOutcome` needs to know what is still true of
a code picked under an earlier lock: the retries it found used up stay used up
(`CallsSound`), because a job's retry count never falls.  Crashes need the loop
invariant of `Restore` (`RestoreSound`).  Lemmas state what each row function
keeps; each action is then one step of the induction.  For the two action properties
every step writes at most one row, so that an action owes no more than that the row
it computes is lawful after the one it read (`RowsLawful`).

**The ledger.**  Under `QueueInvariant` every step of the queue changes at most
one row, and each kind of row change is one ledger step or none.

**Dispatch.**  Every step of a request replaces one value of `req`, is one step
of the queue or none, and pays for the replies it may still cause: a claim adds
one attempt and one debt, a replay one replay and at most one debt, an answer
turns a debt into a reply (`RepliesCovered`, the inductive invariant).  As its actions are
built from the queue's, every theorem about the queue holds of the dispatching system
(`DispatchesByTheQueue`, and with it `DispatchImplementsLedger`); that is so by the way the
module is written, and says nothing new of the code.  `AnswersComeFirst`
adds to `DoneIsAnswered` that a request about to call Complete has sent its answer:
only that call makes a job done, and only a sent answer leads to it.
`RunningJobsAreExecuted` assumes `Healthy`, as finding 2 shows it must.  A request that
works on a running job may walk away from it; `AllExecuted` says of each running job
that one request will not: it waits for a result or is about to fail the job, or it
claimed the very attempt that runs, so that it is not put off by another's.
The same induction carries `OnlyForeignRunsAreOrphaned`.  There processes die, hang and
are replaced as they like, except while the plugin works on a run that its dispatch did
not claim (`LossesAreOwn`): everything else that may happen to a host leaves somebody
who fails the run or sees it through.

**The scheduler.**  `SchedulerInvariant` adds to the properties: a claimed row
is due, so recovery finds it abandoned whenever it comes (`ClaimsAreDue`); the
invariant of the restore loop; the runner's items were due at its snapshot;
taken and withdrawn firings never come back, because registration numbers
grow and a cron plan's next slot lies after the snapshot.

**The agenda.**  The refinement maps the agenda to the rows, without their claims, and
what was delivered to what the runner handed out; restores, refused writes and the
journal are stutters.  It needs beside `SchedulerInvariant` what the runner's work rests
on (`WorkSound`): an item it settles was claimed by it and handed out, and while
the process serves, memory and table hold the same registration.

**What ends what.**  Four documented claims fail (section 6).  For each there is a theorem
that says what the code does keep, under the schedule the finding breaks and not
under less: a pause ends by Resume or by a failure that Timeout or an earlier Fail
reports, and by nothing else (`PausesEndAsTold`, of every behaviour); a run is orphaned
only as above; a plan leaves the table undelivered and uncancelled only if its id was
registered anew while the runner held it (`PatientPlansAreServed`); a notice comes too early
only if something failed or its caller looked the workflow up in the middle of the
message that creates it (`CalmOutcomesResume`, for the lists of steps in which the job is
not the last thing waited for, so that no workflow is over, and its session free for the
next, before a message has confirmed it).  Each uses an invariant about that schedule: of the items the runner holds
(`PatienceSound`), of the ended jobs whose callers still have to tell it (`EndsAreTold`).

**Workflows.**  Nothing locks a row between load and save, so what must be
inductive is that every *copy* in flight is as sound as the rows
(`CopiesAreSound`): it stands where a workflow blocks or ends (`AtRest`), its job
is known, and its result is one the job had.  Soundness survives whatever the
queue does meanwhile, because a ledger step never forgets a job and never leaves
`finished` or `dropped` (`PlacesKept`).  A row restored does not wait in vain:
while the restore lasts the queue stands still.  `EarlyCalls`: who drives a workflow
on from its child job stands at its first blocking step, before any wait for an event,
and drives it no further than that wait.

**The control plane.**  `ControlInvariant` says which stages a request of each kind
can be in, that the request inside the plugin is the one that holds the host
(`LockOK`), and, of the others, that no reload under way has read, and the current
snapshot does not hold, what is older than the floor of a request that is there
(`FloorsOK`, `IndexOK`).  The audits follow from the lock: what a command has done
stays as it is until the command has left the plugin, because every other change of
heads and flags is made by the holder.  The rollouts follow from lemmas on each
transition of a head and each record, and need one thing more: a record of a rollout
under way names its candidate, or the head made from it would be prepared without
one.  Between the decision of a callback and its last write stands `SavingOK`: what is to be
saved is what the decision made of the head in memory, which is still that, the plugin is
still enabled, and the manifest it was prepared against is among those the store had since
the enable.  `since` is needed: with the manifest now in the store in its place
`ActivatedAsPrepared` fails, because `StartAnother` may come between check and mark.  Steps of one request are treated alike: `MovesKeep`, `HoldingKeeps` and
`OutsideKeeps` say what a step of the lock's holder, of a waiting request and of a
reloading one leaves intact, and each action is an instance of one of them.

**Events.**  `IngressInvariant` is a conjunction about each request alone (`CallOK`:
which kinds can be at which stage, that a delivered event was handled under the
request's number, what it has seen and was let through by: a plugin about to be called was
seen enabled, or its flag could not be read), and the little that
relates requests: their numbers differ, from each other's and from those of the
replays on record (`Numbered`), and an answered message has a key
(`AnsweredAreKnown`).  It survives the steps of others because tables and history
only grow, and what grows carries the number of the request that made it (`Grows`);
what an operator changes is added to what every dispatch under way has seen.  The
status rows need an invariant of their own, `RowsInvariant`, proved on top of it: the
row a request *will* write is as sound as the one in the table, and exact while it is
the only one, although others are written in between.

**The subprocess host.**  Three invariants, each over the one before.
`HostInvariant`: past the lock of a host there is one dispatch, of whatever goroutine,
a nested one included, so what it does to its process nobody else does (`Apart`);
that replays find another host is not assumed, it follows, because one that asked for
its own host would wait at the lock for ever (`Returns` excludes it for the route map
of the run).  `TalkInvariant`: the conversation, line by line.  For each stage of a dispatch
it lists where the process can be (`Greeting`, `Reading`, `Called`, `AtRest`), as long as
the plugin writes no other lines; a late reader may take a line, it adds none, and a
process that is dead reads and works no more.  The stages and the places keep step
because a process that breaks off is killed before its host speaks to another:
`TimeoutWithoutKill`, the mutant, leaves an answer behind for the next request.
`SendInvariant`: what is begun of a request and what of it lies unread come to no more
than its dispatch may have sent (`Allowed`, by stage and phase); a restart takes the
unread one with it.  This one needs no assumption on what plugins write.

A fourth, `NestInvariant`, says that a dispatch within a dispatch is an event's, within
one of `plugin-admin`, and that a mutex is held by a goroutine with a dispatch past it: so
who holds a host and waits for another holds `plugin-admin`'s, and who holds the other
waits for none (`NoHostsInACircle`).

**Configs.**  `ConfigInvariant` says that whatever is dispatched goes to a plugin whose
definition passed the preflight.  The rest of `ConfigsAreSound` is about the pure operators of
`PluginCompatibility`, for any schema: a lemma per level, that what the code looks at there
(`Reached`) covers what the reference asks there, that what a default fills in fits,
and that nothing that was given is lost.

**Model-checked only.**  `JobsSettle`, `PlansAreTaken` and `Returns`, which are liveness
properties, out of this prover's reach like everything that needs ENABLED.
Of `Returns` the half that is safety is proved, `NoHostsInACircle`.  Out of reach, too, is
induction over data, and with it RECURSIVE operators: that `advanceWorkflowUntilBlocked` is the loop of `Advance` is checked
for lists of up to three steps.  The modules proved about use no recursion.

## 8. Not modelled

Read-only views (console API, web console), HTTP clients (reply adapter, AI
provider), parsing (request bodies, configuration files, environment, secrets, the
webhook's token and operators' bearer tokens), observability (logs, metrics, traces),
plugins without state of their own (echo, smoke, scheduler), opening, schemas and SQL
of the stores, and the development tool keep no state that a step of another part
depends on.  Nothing in the repository wakes a workflow whose sleep is over before the
next message of its session or a restart, so no action does.  `PROJECT.json` names for
each component what its model leaves out.
