------------------------------ MODULE Scheduler ------------------------------
(***************************************************************************)
(* The scheduler, packages/runtime-core/scheduler.go, with its table of    *)
(* plans (schedule_plans, state.go and postgres.go) and the way the        *)
(* runtime dispatches what is due (dispatchScheduledEvent and              *)
(* persistRuntimeEvent in apps/runtime/main.go).                           *)
(*                                                                         *)
(* Register, Cancel and the update after a firing hold Scheduler.mu from   *)
(* their first look at memory to their last write, and write the table     *)
(* first: each is one step, or none when the table refuses.  The one       *)
(* runner goroutine works through a snapshot of the due plans and holds no *)
(* lock while it claims a row, dispatches the event and records it, so     *)
(* each of these is a step of its own and clients come between.  A plan is *)
(* known by its schedule id; the number of its registration is history,    *)
(* kept to tell two plans with one id apart.                               *)
(***************************************************************************)
EXTENDS Integers

CONSTANTS
    ScheduleIDs,       \* the identities clients may use for plans
    NoPlan,            \* an absent row or entry
    NoItem,            \* the runner works on no plan
    Plans,             \* the plans clients may register
    CronNext(_, _),    \* the cron library: first slot of an expression after a time
    HandlerErrors,     \* whether the handlers of an event may fail
    MaxTime,           \* bound: the last tick of the clock
    MaxRegistrations,  \* bound: registrations explored per id
    MaxFaults          \* bound: crashes and refused writes explored

Missing == -1   \* a row whose due_at is NULL
Kinds == {"cron", "delay", "one-shot"}

\* at: the cron expression, the delay or the time of a one-shot plan.
Plan  == [kind : Kinds, at : Nat]
Entry == [plan : Plans, reg : Nat, dueAt : Nat]
Row   == [plan : Plans, reg : Nat, dueAt : Nat \cup {Missing}, claimed : BOOLEAN]
Key   == ScheduleIDs \X Nat \X (Nat \cup {Missing})
Item  == [id : ScheduleIDs, reg : Nat, dueAt : Nat]

Stages == {"waiting", "next", "dispatch", "record", "settle"}
Runner == [stage : Stages,
           due   : SUBSET Item,             \* the snapshot, what is left of it
           item  : Item \cup {NoItem},      \* the plan worked on
           runAt : Nat]                     \* the time of the snapshot

ASSUME SentinelsAssumption == NoPlan \notin Entry \cup Row /\ NoItem \notin Item
ASSUME PlansAssumption == Plans \subseteq Plan
ASSUME LimitsAssumption ==
    /\ MaxTime \in Nat /\ MaxRegistrations \in Nat /\ MaxFaults \in Nat
    /\ HandlerErrors \in BOOLEAN
ASSUME CronAssumption ==
    \A plan \in Plans, t \in 0 .. MaxTime :
        plan.kind = "cron" => CronNext(plan.at, t) \in Nat /\ CronNext(plan.at, t) > t

VARIABLES
    phase,          \* the process: "down", "restoring" (in Restore) or "up"
    now,            \* the clock
    \* Memory of the process, lost in a crash
    plans,          \* Scheduler.plans and Scheduler.dueAt
    runner,         \* the goroutine that runs due plans
    unread,         \* Restore: the listed rows it has not looked at yet
    restored,       \* Restore: the maps it builds
    restoreAt,      \* Restore: the time it works with
    \* The store
    table,          \* table schedule_plans
    journal,        \* table event_journal: the ids whose event has been recorded
    \* History, for the properties only
    registrations,  \* how often each id was registered
    taken,          \* the firings claimed by this life of the process
    handed,         \* the firings ever handed to the handlers
    withdrawn,      \* the firings cancelled before they were due
    accounted,      \* the registrations whose plan was cancelled or dispatched
    faults          \* crashes and refused writes so far

memory  == <<plans, runner>>
restore == <<unread, restored, restoreAt>>
store   == <<table, journal>>
history == <<registrations, taken, handed, withdrawn, accounted>>
vars    == <<phase, now, memory, restore, store, history, faults>>

Nothing == [id \in ScheduleIDs |-> NoPlan]
Resting == [stage |-> "waiting", due |-> {}, item |-> NoItem, runAt |-> 0]

Listed(map) == {id \in ScheduleIDs : map[id] # NoPlan}
KeyOf(id, entry) == <<id, entry.reg, entry.dueAt>>
RowKeys == {KeyOf(id, table[id]) : id \in Listed(table)}
EntryOf(row) == [plan |-> row.plan, reg |-> row.reg, dueAt |-> row.dueAt]
RowOf(entry) == [plan |-> entry.plan, reg |-> entry.reg, dueAt |-> entry.dueAt,
                 claimed |-> FALSE]

SchedulerTypeOK ==
    /\ phase \in {"down", "restoring", "up"}
    /\ now \in 0 .. MaxTime
    /\ plans \in [ScheduleIDs -> Entry \cup {NoPlan}]
    /\ runner \in Runner
    /\ unread \in SUBSET ScheduleIDs
    /\ restored \in [ScheduleIDs -> Entry \cup {NoPlan}]
    /\ restoreAt \in 0 .. MaxTime
    /\ table \in [ScheduleIDs -> Row \cup {NoPlan}]
    /\ journal \in SUBSET ScheduleIDs
    /\ registrations \in [ScheduleIDs -> Nat]
    /\ taken \in SUBSET Key
    /\ handed \in SUBSET Key
    /\ withdrawn \in SUBSET Key
    /\ accounted \in SUBSET (ScheduleIDs \X Nat)
    /\ faults \in 0 .. MaxFaults

-----------------------------------------------------------------------------
(* When a plan is due *)

\* The first slot after both times: the slots between them are skipped.
nextCronDue(expr, after, notBefore) ==
    CronNext(expr, IF after > notBefore THEN after ELSE notBefore)

dueAtForPlan(plan) ==
    CASE plan.kind = "cron" -> nextCronDue(plan.at, now, now)
      [] plan.kind = "delay" -> now + plan.at
      [] plan.kind = "one-shot" -> plan.at

\* What Restore makes of a row without a time, created at the first tick.
restoredScheduleDueAt(plan) ==
    IF plan.kind = "cron" THEN nextCronDue(plan.at, 0, 0) ELSE plan.at

\* Mutant of scheduleClaimIsAbandoned: due earlier than the recovery.
ClaimIsOverdue(row, at) == row.claimed /\ row.dueAt # Missing /\ row.dueAt < at

scheduleClaimIsAbandoned(row, at) == row.claimed /\ row.dueAt # Missing /\ row.dueAt =< at

\* The table as an earlier release may have left it: rows without a due time.
SchedulerInit ==
    /\ phase = "down"
    /\ now = 0
    /\ plans = Nothing
    /\ runner = Resting
    /\ unread = {}
    /\ restored = Nothing
    /\ restoreAt = 0
    /\ table \in [ScheduleIDs -> [plan : Plans, reg : {0}, dueAt : {Missing}, claimed : {FALSE}]
                                     \cup {NoPlan}]
    /\ journal = {}
    /\ registrations = [id \in ScheduleIDs |-> 0]
    /\ taken = {}
    /\ handed = {}
    /\ withdrawn = {}
    /\ accounted = {}
    /\ faults = 0

-----------------------------------------------------------------------------
(* Parts of steps *)

\* The store refuses a write or the process dies.
Fault == faults < MaxFaults /\ faults' = faults + 1
NoFault == UNCHANGED faults

\* savePlanLocked and deletePlanLocked: the row, unclaimed, then the memory.
savePlan(id, entry) ==
    /\ table' = [table EXCEPT ![id] = RowOf(entry)]
    /\ plans' = [plans EXCEPT ![id] = entry]

\* Mutant of deletePlan: the row stays.
forgetPlan(id) == plans' = [plans EXCEPT ![id] = NoPlan] /\ UNCHANGED table

deletePlan(id) ==
    /\ table' = [table EXCEPT ![id] = NoPlan]
    /\ plans' = [plans EXCEPT ![id] = NoPlan]

At(stage) == phase = "up" /\ runner.stage = stage
Goto(stage) == runner' = [runner EXCEPT !.stage = stage]
NextItem == runner' = [runner EXCEPT !.stage = "next", !.item = NoItem]

-----------------------------------------------------------------------------
(* Clients *)

Register(id, plan) ==
    LET entry == [plan |-> plan, reg |-> registrations[id] + 1, dueAt |-> dueAtForPlan(plan)]
    IN  /\ phase = "up"
        /\ registrations[id] < MaxRegistrations
        /\ plans[id] = NoPlan
        /\ table[id] = NoPlan
        /\ savePlan(id, entry)
        /\ registrations' = [registrations EXCEPT ![id] = @ + 1]
        /\ UNCHANGED <<phase, now, runner, restore, journal, taken, handed, withdrawn,
                       accounted, faults>>

Cancel(id) ==
    /\ phase = "up"
    /\ table[id] # NoPlan
    /\ deletePlan(id)
    /\ accounted' = accounted \cup {<<id, table[id].reg>>}
    /\ withdrawn' = IF now < table[id].dueAt THEN withdrawn \cup {KeyOf(id, table[id])}
                                             ELSE withdrawn
    /\ UNCHANGED <<phase, now, runner, restore, journal, registrations, taken, handed, faults>>

-----------------------------------------------------------------------------
(* The runner *)

\* Mutant of DuePlans: the due times are not looked at.
AllPlans ==
    {[id |-> id, reg |-> plans[id].reg, dueAt |-> plans[id].dueAt] : id \in Listed(plans)}

DuePlans ==
    {[id |-> id, reg |-> plans[id].reg, dueAt |-> plans[id].dueAt] :
        id \in {i \in Listed(plans) : plans[i].dueAt =< now}}

\* runDuePlans: the snapshot of what is due.
runDuePlans ==
    /\ At("waiting")
    /\ DuePlans # {}
    /\ runner' = [Resting EXCEPT !.stage = "next", !.due = DuePlans, !.runAt = now]
    /\ UNCHANGED <<phase, now, plans, restore, store, history, faults>>

EndRun ==
    /\ At("next")
    /\ runner.due = {}
    /\ runner' = Resting
    /\ UNCHANGED <<phase, now, plans, restore, store, history, faults>>

\* Mutants of Claimable: whatever the row's due time, or its claim.
ClaimableByID(item) == table[item.id] # NoPlan /\ ~table[item.id].claimed
ClaimableAgain(item) == table[item.id] # NoPlan /\ table[item.id].dueAt = item.dueAt

\* ClaimSchedulePlan: one conditional UPDATE.
Claimable(item) ==
    /\ table[item.id] # NoPlan
    /\ table[item.id].dueAt = item.dueAt
    /\ ~table[item.id].claimed

claimDuePlan(item) ==
    /\ At("next")
    /\ item \in runner.due
    /\ Claimable(item)
    /\ table' = [table EXCEPT ![item.id].claimed = TRUE]
    /\ taken' = taken \cup {KeyOf(item.id, table[item.id])}
    /\ runner' = [runner EXCEPT !.stage = "dispatch", !.item = item, !.due = @ \ {item}]
    /\ UNCHANGED <<phase, now, plans, restore, journal, registrations, handed, withdrawn,
                   accounted, faults>>

\* The row is gone, is due at another time or is claimed; or the store fails.
SkipPlan(item) ==
    /\ At("next")
    /\ item \in runner.due
    /\ \/ ~Claimable(item) /\ NoFault
       \/ Fault
    /\ runner' = [runner EXCEPT !.due = @ \ {item}]
    /\ UNCHANGED <<phase, now, plans, restore, store, history>>

\* persistRuntimeEvent: the event goes to the handlers.  Its idempotency key
\* holds the time in nanoseconds and is always new.
Dispatch ==
    /\ At("dispatch")
    /\ handed' = handed \cup {KeyOf(runner.item.id, runner.item)}
    /\ accounted' = accounted \cup {<<runner.item.id, runner.item.reg>>}
    /\ Goto("record")
    /\ UNCHANGED <<phase, now, plans, restore, store, registrations, taken, withdrawn, faults>>

\* The handlers fail, all of them or some, or the store when asked for the key.
DispatchFails ==
    /\ At("dispatch")
    /\ \/ HandlerErrors /\ NoFault /\ handed' = handed \cup {KeyOf(runner.item.id, runner.item)}
       \/ Fault /\ UNCHANGED handed
    /\ NextItem
    /\ UNCHANGED <<phase, now, plans, restore, store, registrations, taken, withdrawn, accounted>>

\* RecordEvent inserts the event under an id that every firing of a schedule id
\* shares; SaveIdempotencyKey, after it, can only fail with the store.
RecordEvent ==
    LET id == runner.item.id
    IN  /\ At("record")
        /\ \/ id \notin journal /\ NoFault /\ journal' = journal \cup {id} /\ Goto("settle")
           \/ id \in journal /\ NoFault /\ UNCHANGED journal /\ NextItem
           \/ Fault /\ journal' \in {journal, journal \cup {id}} /\ NextItem
        /\ UNCHANGED <<phase, now, plans, restore, table, history>>

\* The plan that now has the id moves to its next slot, or is removed.
SettlePlan ==
    LET id == runner.item.id
        plan == plans[id].plan
    IN  /\ At("settle")
        /\ NextItem
        /\ \/ plans[id] = NoPlan /\ UNCHANGED <<plans, table, faults>>
           \/ /\ plans[id] # NoPlan
              /\ plan.kind = "cron"
              /\ savePlan(id, [plans[id] EXCEPT
                       !.dueAt = nextCronDue(plan.at, runner.item.dueAt, runner.runAt)])
              /\ NoFault
           \/ /\ plans[id] # NoPlan
              /\ plan.kind # "cron"
              /\ table[id] # NoPlan
              /\ deletePlan(id)
              /\ NoFault
           \/ plans[id] # NoPlan /\ Fault /\ UNCHANGED <<plans, table>>
        /\ UNCHANGED <<phase, now, restore, journal, history>>

-----------------------------------------------------------------------------
(* The process *)

\* Start calls Restore: the rows are listed and the time of recovery is fixed.
BeginRestore ==
    /\ phase = "down"
    /\ phase' = "restoring"
    /\ unread' = Listed(table)
    /\ restored' = Nothing
    /\ restoreAt' = now
    /\ UNCHANGED <<now, memory, store, history, faults>>

\* Mutant of Recovered: only the due time is put right.
RecoveredDueTime(row) ==
    [row EXCEPT !.dueAt = IF @ = Missing THEN restoredScheduleDueAt(row.plan) ELSE @]

\* One row: an abandoned claim is cleared, a missing due time is worked out.
Recovered(row) ==
    [row EXCEPT !.claimed = @ /\ row.dueAt # Missing /\ ~scheduleClaimIsAbandoned(row, restoreAt),
                !.dueAt = IF @ = Missing THEN restoredScheduleDueAt(row.plan) ELSE @]

RecoverRow(id) ==
    /\ phase = "restoring"
    /\ id \in unread
    /\ unread' = unread \ {id}
    /\ table' = [table EXCEPT ![id] = Recovered(table[id])]
    /\ restored' = [restored EXCEPT ![id] = EntryOf(Recovered(table[id]))]
    /\ UNCHANGED <<phase, now, restoreAt, memory, journal, history, faults>>

\* The maps are published and the runner is started.
EndRestore ==
    /\ phase = "restoring"
    /\ unread = {}
    /\ phase' = "up"
    /\ plans' = restored
    /\ restored' = Nothing
    /\ UNCHANGED <<now, runner, unread, restoreAt, store, history, faults>>

\* The process ends: killed at any point, stopped, or Restore met a store error.
Crash ==
    /\ phase # "down"
    /\ Fault
    /\ phase' = "down"
    /\ plans' = Nothing
    /\ runner' = Resting
    /\ unread' = {}
    /\ restored' = Nothing
    /\ taken' = {}
    /\ UNCHANGED <<now, restoreAt, store, registrations, handed, withdrawn, accounted>>

Tick ==
    /\ now < MaxTime
    /\ now' = now + 1
    /\ UNCHANGED <<phase, memory, restore, store, history, faults>>

RunnerStep ==
    \/ runDuePlans
    \/ \E item \in runner.due : claimDuePlan(item) \/ SkipPlan(item)
    \/ Dispatch
    \/ DispatchFails
    \/ RecordEvent
    \/ SettlePlan
    \/ EndRun

Restart ==
    \/ BeginRestore
    \/ \E id \in ScheduleIDs : RecoverRow(id)
    \/ EndRestore

SchedulerNext ==
    \/ \E id \in ScheduleIDs, plan \in Plans : Register(id, plan)
    \/ \E id \in ScheduleIDs : Cancel(id)
    \/ RunnerStep
    \/ Restart
    \/ Crash
    \/ Tick

SchedulerSpec == SchedulerInit /\ [][SchedulerNext]_vars

\* The runner's ticker keeps firing, a dead process is started again, time goes on.
FairScheduler ==
    /\ SchedulerSpec
    /\ WF_vars(RunnerStep)
    /\ WF_vars(Restart)
    /\ WF_vars(Tick)

-----------------------------------------------------------------------------
(* Properties *)

\* While the process serves, the plans and due times in memory are those of the
\* table, whatever Register, Cancel, the runner and Restore did in which order.
PlansMatchTable ==
    phase = "up" =>
        \A id \in ScheduleIDs :
            plans[id] = IF table[id] = NoPlan THEN NoPlan ELSE EntryOf(table[id])

\* A claim in the table is one this life of the process made: Restore leaves no
\* claim of a dead process behind, for which no runner would ever come back.
ClaimsAreLive ==
    phase = "up" =>
        \A id \in Listed(table) : table[id].claimed => KeyOf(id, table[id]) \in taken

\* One life of the process fires a plan at most once for one due time, although
\* a failed dispatch leaves the plan in memory, due, for every later run to see.
OncePerLife ==
    [][At("next") /\ runner'.stage = "dispatch"
       => KeyOf(runner'.item.id, table[runner'.item.id]) \notin taken]_vars

\* A plan that is cancelled before it is due is never dispatched for that time,
\* not by a runner with an old snapshot nor by a restarted process.
CancelledInTime == handed \cap withdrawn = {}

\* Every plan due within the bound is taken up by the current life of the process
\* or leaves its row: neither an abandoned claim nor a missing due time, a refused
\* write or a full run keeps it waiting.
PlansAreTaken ==
    \A id \in ScheduleIDs, reg \in 0 .. MaxRegistrations, t \in {Missing} \cup 0 .. MaxTime :
        <<id, reg, t>> \in RowKeys ~> (<<id, reg, t>> \notin RowKeys \/ <<id, reg, t>> \in taken)

\* A plan is removed only after it was dispatched or cancelled.  (It does not
\* hold: the runner settles whatever plan has the id of the one it dispatched.)
RemovedOnlyAfterDispatch ==
    \A id \in ScheduleIDs : \A reg \in 1 .. registrations[id] :
        \/ <<id, reg>> \in accounted
        \/ table[id] # NoPlan /\ table[id].reg = reg

\* The scheduler implements the agenda its clients count on.  A row without a
\* due time stands for the time Restore will work out for it; claims on rows,
\* the plans in memory, the runner's snapshot and Restore are details.
Standing(row) ==
    IF row = NoPlan THEN NoPlan
    ELSE [plan |-> row.plan, reg |-> row.reg,
          dueAt |-> IF row.dueAt = Missing THEN restoredScheduleDueAt(row.plan) ELSE row.dueAt]

Standings == [id \in ScheduleIDs |-> Standing(table[id])]

Promise == INSTANCE Agenda WITH
    agenda    <- Standings,
    Unplanned <- NoPlan,
    clock     <- now,
    claims    <- taken,
    delivered <- handed,
    entered   <- registrations

ImplementsAgenda == Promise!AgendaSpec

-----------------------------------------------------------------------------
(* The inductive invariant: what a claim, a snapshot and a key in the        *)
(* histories say about the row of the same id, however old they are.         *)

\* A claimed row is due, so the next recovery finds its claim abandoned.
ClaimsAreDue ==
    \A id \in Listed(table) :
        table[id].claimed =>
            /\ table[id].dueAt # Missing
            /\ table[id].dueAt =< now
            /\ phase = "restoring" => table[id].dueAt =< restoreAt

\* The rows Restore has passed are as it will publish them and none is claimed.
RestoredMatchesTable ==
    phase = "restoring" =>
        /\ unread \subseteq Listed(table)
        /\ \A id \in ScheduleIDs \ unread :
              /\ table[id] = NoPlan => restored[id] = NoPlan
              /\ table[id] # NoPlan =>
                    /\ table[id].dueAt # Missing
                    /\ ~table[id].claimed
                    /\ restored[id] = EntryOf(table[id])

\* A process that serves knows when each plan is due.
DueTimesKnown ==
    phase = "up" => \A id \in Listed(table) : table[id].dueAt # Missing

\* The runner exists only while the process serves, works on items of its
\* snapshot and finds them due at the time of the snapshot.
RunnerSound ==
    /\ phase # "up" => runner = Resting /\ taken = {}
    /\ runner.stage = "waiting" => runner = Resting
    /\ runner.stage \in {"dispatch", "record", "settle"} => runner.item # NoItem
    /\ runner.runAt =< now
    /\ \A item \in runner.due : item.dueAt =< runner.runAt
    /\ runner.item # NoItem => runner.item.dueAt =< runner.runAt

\* No row is of a registration still to come; a firing that was taken was due
\* when its run began, and its row stays claimed while it is this firing's.
TakenSound ==
    /\ \A id \in Listed(table) : table[id].reg =< registrations[id]
    /\ \A key \in taken :
          /\ key[2] =< registrations[key[1]]
          /\ key[3] =< now
          /\ runner.stage # "waiting" => key[3] =< runner.runAt
          /\ key \in RowKeys => table[key[1]].claimed

\* A withdrawn firing belongs to a plan whose row is gone for good, and neither
\* the runner nor the past knows it.
WithdrawnSound ==
    /\ \A key \in handed : key[3] =< now
    /\ \A key \in withdrawn :
          /\ key[2] =< registrations[key[1]]
          /\ table[key[1]] # NoPlan => table[key[1]].reg # key[2]
    /\ \A item \in runner.due : KeyOf(item.id, item) \notin withdrawn
    /\ runner.item # NoItem => KeyOf(runner.item.id, runner.item) \notin withdrawn

SchedulerInvariant ==
    /\ SchedulerTypeOK
    /\ PlansMatchTable
    /\ ClaimsAreDue
    /\ ClaimsAreLive
    /\ RestoredMatchesTable
    /\ DueTimesKnown
    /\ RunnerSound
    /\ TakenSound
    /\ WithdrawnSound
    /\ CancelledInTime

=============================================================================
