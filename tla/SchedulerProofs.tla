--------------------------- MODULE SchedulerProofs ---------------------------
(* Proofs about the scheduler: SchedulerInvariant is inductive, and the       *)
(* safety properties of Scheduler follow from it.                             *)
EXTENDS Scheduler, TLAPS

-----------------------------------------------------------------------------
(* Rows, entries and due times *)

\* A plan saved under the lock is a row without a claim that reads back as it.
LEMMA SavedRow ==
    ASSUME NEW entry \in Entry
    PROVE  /\ RowOf(entry) \in Row
           /\ RowOf(entry) # NoPlan
           /\ entry # NoPlan
           /\ EntryOf(RowOf(entry)) = entry
           /\ ~RowOf(entry).claimed
           /\ RowOf(entry).reg = entry.reg
           /\ RowOf(entry).dueAt = entry.dueAt
<1>1. RowOf(entry) \in Row
  BY DEF RowOf, Entry, Row
<1>2. RowOf(entry) # NoPlan /\ entry # NoPlan
  BY <1>1, SentinelsAssumption DEF SentinelsAssumption
<1>3. EntryOf(RowOf(entry)) = entry
  BY DEF RowOf, EntryOf, Entry
<1> QED BY <1>1, <1>2, <1>3 DEF RowOf

\* A row with a due time is an entry of the maps in memory.
LEMMA ReadRow ==
    ASSUME NEW row \in Row, row.dueAt # Missing
    PROVE  /\ EntryOf(row) \in Entry
           /\ EntryOf(row) # NoPlan
           /\ row.dueAt \in Nat
           /\ EntryOf(row).reg = row.reg
           /\ EntryOf(row).dueAt = row.dueAt
BY SentinelsAssumption DEF SentinelsAssumption, EntryOf, Entry, Row

LEMMA NextSlot ==
    ASSUME NEW plan \in Plans, plan.kind = "cron",
           NEW after \in 0 .. MaxTime, NEW notBefore \in 0 .. MaxTime
    PROVE  /\ nextCronDue(plan.at, after, notBefore) \in Nat
           /\ nextCronDue(plan.at, after, notBefore) > after
           /\ nextCronDue(plan.at, after, notBefore) > notBefore
<1>1. CASE after > notBefore
  BY <1>1, CronAssumption DEF CronAssumption, nextCronDue
<1>2. CASE ~(after > notBefore)
  BY <1>2, CronAssumption DEF CronAssumption, nextCronDue
<1> QED BY <1>1, <1>2

LEMMA DueTimes ==
    ASSUME NEW plan \in Plans, now \in 0 .. MaxTime
    PROVE  dueAtForPlan(plan) \in Nat /\ restoredScheduleDueAt(plan) \in Nat
<1>1. plan \in Plan
  BY PlansAssumption DEF PlansAssumption
<1>2. MaxTime \in Nat
  BY LimitsAssumption DEF LimitsAssumption
<1>3. CASE plan.kind = "cron"
  BY <1>2, <1>3, NextSlot DEF dueAtForPlan, restoredScheduleDueAt
<1>4. CASE plan.kind # "cron"
  BY <1>1, <1>2, <1>4 DEF dueAtForPlan, restoredScheduleDueAt, Plan, Kinds
<1> QED BY <1>3, <1>4

LEMMA RecoveredRow ==
    ASSUME NEW row \in Row, now \in 0 .. MaxTime,
           row.claimed => row.dueAt # Missing /\ row.dueAt =< restoreAt
    PROVE  /\ Recovered(row) \in Row
           /\ ~Recovered(row).claimed
           /\ Recovered(row).dueAt # Missing
           /\ Recovered(row).reg = row.reg
<1>1. restoredScheduleDueAt(row.plan) \in Nat
  BY DueTimes DEF Row
<1>2. /\ Recovered(row).claimed => row.claimed /\ ~scheduleClaimIsAbandoned(row, restoreAt)
      /\ Recovered(row).dueAt = IF row.dueAt = Missing THEN restoredScheduleDueAt(row.plan)
                                                       ELSE row.dueAt
      /\ Recovered(row).reg = row.reg
      /\ Recovered(row) \in Row
  BY <1>1 DEF Recovered, Row, Missing, scheduleClaimIsAbandoned
<1> QED BY <1>1, <1>2 DEF scheduleClaimIsAbandoned, Missing, Row

-----------------------------------------------------------------------------
(* The invariant, action by action *)

\* What the invariant says of the state a client or the runner acts on.
LEMMA Serving ==
    ASSUME SchedulerInvariant, phase = "up", NEW id \in ScheduleIDs
    PROVE  /\ plans[id] # NoPlan => plans[id] \in Entry
           /\ table[id] # NoPlan =>
                 /\ table[id] \in Row
                 /\ plans[id] = EntryOf(table[id])
                 /\ plans[id] \in Entry
                 /\ table[id].dueAt \in Nat
                 /\ plans[id].reg = table[id].reg
                 /\ plans[id].dueAt = table[id].dueAt
           /\ plans[id] # NoPlan <=> table[id] # NoPlan
<1>1. plans[id] # NoPlan => plans[id] \in Entry
  BY DEF SchedulerInvariant, SchedulerTypeOK
<1>2. ASSUME table[id] # NoPlan
      PROVE  table[id] \in Row /\ plans[id] = EntryOf(table[id]) /\ table[id].dueAt # Missing
  BY <1>2 DEF SchedulerInvariant, SchedulerTypeOK, PlansMatchTable, DueTimesKnown, Listed
<1>3. table[id] = NoPlan => plans[id] = NoPlan
  BY DEF SchedulerInvariant, PlansMatchTable
<1> QED BY <1>1, <1>2, <1>3, ReadRow

LEMMA RegisterKeeps ==
    ASSUME SchedulerInvariant, NEW id \in ScheduleIDs, NEW plan \in Plans, Register(id, plan)
    PROVE  SchedulerInvariant'
<1> DEFINE entry == [plan |-> plan, reg |-> registrations[id] + 1, dueAt |-> dueAtForPlan(plan)]
<1>t. SchedulerTypeOK
  BY DEF SchedulerInvariant
<1>1. /\ phase = "up" /\ phase' = phase /\ now' = now /\ runner' = runner
      /\ plans[id] = NoPlan /\ table[id] = NoPlan
      /\ table' = [table EXCEPT ![id] = RowOf(entry)]
      /\ plans' = [plans EXCEPT ![id] = entry]
      /\ registrations' = [registrations EXCEPT ![id] = @ + 1]
      /\ restore' = restore /\ journal' = journal /\ taken' = taken
      /\ handed' = handed /\ withdrawn' = withdrawn /\ accounted' = accounted
      /\ faults' = faults
  BY DEF Register, savePlan, restore
<1>2. entry \in Entry
  BY <1>t, DueTimes DEF Entry, SchedulerTypeOK
<1>3. entry.reg = registrations[id] + 1
  OBVIOUS
<1> HIDE DEF entry
<1>4. /\ RowOf(entry) \in Row /\ RowOf(entry) # NoPlan /\ entry # NoPlan
      /\ EntryOf(RowOf(entry)) = entry /\ ~RowOf(entry).claimed
      /\ RowOf(entry).reg = registrations[id] + 1
      /\ RowOf(entry).dueAt \in Nat /\ RowOf(entry).dueAt # Missing
  BY <1>2, <1>3, SavedRow DEF Entry, Missing
<1>5. SchedulerTypeOK'
  BY <1>t, <1>1, <1>2, <1>4 DEF SchedulerTypeOK, restore
<1>6. PlansMatchTable'
  BY <1>t, <1>1, <1>4 DEF SchedulerInvariant, SchedulerTypeOK, PlansMatchTable
<1>7. ClaimsAreDue'
  BY <1>t, <1>1, <1>4 DEF SchedulerInvariant, SchedulerTypeOK, ClaimsAreDue, Listed
<1>8. ClaimsAreLive'
  BY <1>t, <1>1, <1>4 DEF SchedulerInvariant, SchedulerTypeOK, ClaimsAreLive, Listed, KeyOf
<1>9. RestoredMatchesTable' /\ DueTimesKnown'
  BY <1>t, <1>1, <1>4 DEF SchedulerInvariant, SchedulerTypeOK, RestoredMatchesTable,
                         DueTimesKnown, Listed
<1>10. RunnerSound'
  BY <1>1 DEF SchedulerInvariant, RunnerSound
<1>11. TakenSound'
  BY <1>t, <1>1, <1>4 DEF SchedulerInvariant, SchedulerTypeOK, TakenSound, Listed, RowKeys,
                         KeyOf, Key
<1>12. WithdrawnSound'
  BY <1>t, <1>1, <1>4 DEF SchedulerInvariant, SchedulerTypeOK, WithdrawnSound, KeyOf, Key
<1>13. CancelledInTime'
  BY <1>1 DEF SchedulerInvariant, CancelledInTime
<1> QED BY <1>5, <1>6, <1>7, <1>8, <1>9, <1>10, <1>11, <1>12, <1>13 DEF SchedulerInvariant

LEMMA CancelKeeps ==
    ASSUME SchedulerInvariant, NEW id \in ScheduleIDs, Cancel(id)
    PROVE  SchedulerInvariant'
<1>t. SchedulerTypeOK
  BY DEF SchedulerInvariant
<1>1. /\ phase = "up" /\ phase' = phase /\ now' = now /\ runner' = runner
      /\ table[id] # NoPlan
      /\ table' = [table EXCEPT ![id] = NoPlan]
      /\ plans' = [plans EXCEPT ![id] = NoPlan]
      /\ restore' = restore /\ journal' = journal /\ taken' = taken
      /\ handed' = handed /\ registrations' = registrations /\ faults' = faults
      /\ accounted' = accounted \cup {<<id, table[id].reg>>}
  BY DEF Cancel, deletePlan, restore
<1>2. /\ table[id] \in Row /\ table[id].reg \in Nat /\ table[id].dueAt \in Nat
      /\ KeyOf(id, table[id]) = <<id, table[id].reg, table[id].dueAt>>
      /\ KeyOf(id, table[id]) \in Key
  BY <1>1, Serving DEF Row, Key, KeyOf
<1>3. \/ withdrawn' = withdrawn
      \/ withdrawn' = withdrawn \cup {KeyOf(id, table[id])} /\ now < table[id].dueAt
  BY DEF Cancel
<1>4. SchedulerTypeOK'
  BY <1>t, <1>1, <1>2, <1>3 DEF SchedulerTypeOK, restore
<1>5. PlansMatchTable'
  BY <1>t, <1>1 DEF SchedulerInvariant, SchedulerTypeOK, PlansMatchTable
<1>6. ClaimsAreDue' /\ ClaimsAreLive'
  BY <1>t, <1>1 DEF SchedulerInvariant, SchedulerTypeOK, ClaimsAreDue, ClaimsAreLive, Listed, KeyOf
<1>7. RestoredMatchesTable' /\ DueTimesKnown' /\ RunnerSound'
  BY <1>t, <1>1 DEF SchedulerInvariant, SchedulerTypeOK, RestoredMatchesTable, DueTimesKnown,
                    RunnerSound, Listed
<1>8. TakenSound'
  BY <1>t, <1>1 DEF SchedulerInvariant, SchedulerTypeOK, TakenSound, Listed, RowKeys, KeyOf, Key
<1>9. WithdrawnSound'
  <2>1. table[id].reg =< registrations[id]
    BY <1>1 DEF SchedulerInvariant, TakenSound, Listed
  <2>2. \A key \in withdrawn' : /\ key[2] =< registrations'[key[1]]
                                /\ table'[key[1]] # NoPlan => table'[key[1]].reg # key[2]
    BY <1>t, <1>1, <1>2, <1>3, <2>1 DEF SchedulerInvariant, SchedulerTypeOK, WithdrawnSound, Key
  <2>3. \A item \in Item : item.dueAt =< runner.runAt /\ now < table[id].dueAt
                          => KeyOf(item.id, item) # KeyOf(id, table[id])
    BY <1>t, <1>2 DEF SchedulerInvariant, SchedulerTypeOK, RunnerSound, KeyOf, Item, Runner
  <2>4. \A item \in runner.due : KeyOf(item.id, item) \notin withdrawn'
    BY <1>t, <1>3, <2>3 DEF SchedulerInvariant, SchedulerTypeOK, RunnerSound, WithdrawnSound, Runner
  <2>5. runner.item # NoItem => KeyOf(runner.item.id, runner.item) \notin withdrawn'
    BY <1>t, <1>3, <2>3 DEF SchedulerInvariant, SchedulerTypeOK, RunnerSound, WithdrawnSound, Runner
  <2> QED BY <1>1, <2>2, <2>4, <2>5 DEF SchedulerInvariant, WithdrawnSound
<1>10. CancelledInTime'
  <2>1. now < table[id].dueAt => KeyOf(id, table[id]) \notin handed
    BY <1>t, <1>2 DEF SchedulerInvariant, SchedulerTypeOK, WithdrawnSound
  <2> QED BY <1>1, <1>3, <2>1 DEF SchedulerInvariant, CancelledInTime
<1> QED BY <1>4, <1>5, <1>6, <1>7, <1>8, <1>9, <1>10 DEF SchedulerInvariant

\* Steps of the runner that do not write the plans: what is left to show of each
\* is that the runner stays sound and works on items it had or finds due.
LEMMA SamePlans ==
    ASSUME SchedulerInvariant, phase = "up",
           UNCHANGED <<phase, now, plans, restore, table, registrations, taken, withdrawn>>,
           journal' \in SUBSET ScheduleIDs, accounted' \in SUBSET (ScheduleIDs \X Nat),
           faults' \in 0 .. MaxFaults, runner' \in Runner, RunnerSound',
           \/ handed' = handed
           \/ /\ runner.item # NoItem
              /\ handed' = handed \cup {KeyOf(runner.item.id, runner.item)},
           runner'.due \subseteq runner.due \cup DuePlans,
           runner'.item \in runner.due \cup {runner.item, NoItem},
           runner'.stage # "waiting" =>
               runner'.runAt = now \/ (runner.stage # "waiting" /\ runner'.runAt = runner.runAt)
    PROVE  SchedulerInvariant'
<1>t. SchedulerTypeOK
  BY DEF SchedulerInvariant
<1>1. /\ phase' = phase /\ now' = now /\ plans' = plans /\ restore' = restore
      /\ table' = table /\ registrations' = registrations
      /\ taken' = taken /\ withdrawn' = withdrawn
  OBVIOUS
<1>h. runner.item # NoItem =>
         /\ runner.item \in Item
         /\ KeyOf(runner.item.id, runner.item)
              = <<runner.item.id, runner.item.reg, runner.item.dueAt>>
         /\ KeyOf(runner.item.id, runner.item) \in Key
         /\ runner.item.dueAt =< now
         /\ KeyOf(runner.item.id, runner.item) \notin withdrawn
  BY <1>t DEF SchedulerInvariant, SchedulerTypeOK, RunnerSound, WithdrawnSound, Runner, Item,
              Key, KeyOf
<1>2. SchedulerTypeOK'
  BY <1>t, <1>1, <1>h DEF SchedulerTypeOK, restore
<1>3. PlansMatchTable' /\ ClaimsAreDue' /\ ClaimsAreLive' /\ DueTimesKnown'
  BY <1>1 DEF SchedulerInvariant, PlansMatchTable, ClaimsAreDue, ClaimsAreLive, DueTimesKnown,
              Listed, KeyOf
<1>4. RestoredMatchesTable' /\ CancelledInTime'
  BY <1>1, <1>h DEF SchedulerInvariant, RestoredMatchesTable, CancelledInTime
<1>5. TakenSound'
  BY <1>t, <1>1 DEF SchedulerInvariant, SchedulerTypeOK, TakenSound, Listed, RowKeys, KeyOf
<1>6. WithdrawnSound'
  <2>1. \A item \in DuePlans : KeyOf(item.id, item) \notin withdrawn
    <3> SUFFICES ASSUME NEW id \in Listed(plans)
                 PROVE  <<id, plans[id].reg, plans[id].dueAt>> \notin withdrawn
      BY DEF DuePlans, KeyOf
    <3>1. table[id] # NoPlan /\ plans[id].reg = table[id].reg
      BY Serving DEF Listed
    <3> QED BY <1>t, <3>1 DEF SchedulerInvariant, SchedulerTypeOK, WithdrawnSound, Key
  <2>2. \A item \in runner'.due : KeyOf(item.id, item) \notin withdrawn'
    BY <1>1, <2>1 DEF SchedulerInvariant, WithdrawnSound
  <2>3. runner'.item # NoItem => KeyOf(runner'.item.id, runner'.item) \notin withdrawn'
    BY <1>1 DEF SchedulerInvariant, WithdrawnSound
  <2>4. \A key \in handed' : key[3] =< now'
    BY <1>1, <1>h DEF SchedulerInvariant, WithdrawnSound
  <2> QED BY <1>1, <2>2, <2>3, <2>4 DEF SchedulerInvariant, WithdrawnSound
<1> QED BY <1>2, <1>3, <1>4, <1>5, <1>6 DEF SchedulerInvariant

\* The runner while it serves, field by field.
LEMMA RunnerFields ==
    ASSUME SchedulerInvariant
    PROVE  /\ runner \in Runner /\ Resting \in Runner
           /\ runner.stage \in Stages /\ runner.due \in SUBSET Item
           /\ runner.item \in Item \cup {NoItem} /\ runner.runAt \in Nat
           /\ now \in Nat /\ now \in 0 .. MaxTime /\ runner.runAt =< now
           /\ faults \in 0 .. MaxFaults /\ MaxFaults \in Nat
  BY LimitsAssumption DEF LimitsAssumption, SchedulerInvariant, SchedulerTypeOK, RunnerSound,
                          Runner, Resting, Stages

\* A fault keeps within the bound.
LEMMA FaultCounted ==
    ASSUME SchedulerInvariant, Fault \/ NoFault
    PROVE  faults' \in 0 .. MaxFaults
  BY RunnerFields DEF Fault, NoFault

LEMMA RunDuePlansKeeps ==
    ASSUME SchedulerInvariant, runDuePlans
    PROVE  SchedulerInvariant'
<1>1. runner' = [stage |-> "next", due |-> DuePlans, item |-> NoItem, runAt |-> now]
  BY DEF runDuePlans, Resting
<1>2. phase = "up"
  BY DEF runDuePlans, At
<1>3. \A item \in DuePlans : item \in Item /\ item.dueAt =< now
  <2> SUFFICES ASSUME NEW id \in Listed(plans), plans[id].dueAt =< now
               PROVE  plans[id].reg \in Nat /\ plans[id].dueAt \in Nat
    BY DEF DuePlans, Item, Listed
  <2> QED BY <1>2, Serving DEF Listed, Entry
<1>4. runner' \in Runner
  BY <1>1, <1>3, RunnerFields DEF Runner, Stages
<1>5. phase' = phase /\ now' = now /\ taken' = taken
  BY DEF runDuePlans, history
<1>6. RunnerSound'
  BY <1>1, <1>2, <1>3, <1>5, RunnerFields DEF RunnerSound
<1>7. /\ UNCHANGED <<phase, now, plans, restore, table, registrations, taken, withdrawn>>
      /\ journal' = journal /\ accounted' = accounted /\ faults' = faults /\ handed' = handed
  BY DEF runDuePlans, store, history
<1>8. /\ journal \in SUBSET ScheduleIDs /\ accounted \in SUBSET (ScheduleIDs \X Nat)
      /\ faults \in 0 .. MaxFaults
  BY DEF SchedulerInvariant, SchedulerTypeOK
<1>9. runner'.due = DuePlans /\ runner'.item = NoItem /\ runner'.runAt = now
  BY <1>1
<1> HIDE DEF DuePlans
<1> QED
  BY <1>2, <1>4, <1>6, <1>7, <1>8, <1>9, SamePlans

LEMMA EndRunKeeps ==
    ASSUME SchedulerInvariant, EndRun
    PROVE  SchedulerInvariant'
<1>1. runner' = Resting /\ phase = "up" /\ phase' = phase /\ now' = now
  BY DEF EndRun, At
<1>2. RunnerSound'
  BY <1>1, RunnerFields DEF RunnerSound, Resting
<1> QED
  BY <1>1, <1>2, RunnerFields, SamePlans
     DEF EndRun, Resting, store, history, SchedulerInvariant, SchedulerTypeOK

LEMMA SkipPlanKeeps ==
    ASSUME SchedulerInvariant, NEW item \in runner.due, SkipPlan(item)
    PROVE  SchedulerInvariant'
<1>1. /\ runner.stage = "next" /\ phase = "up" /\ phase' = phase /\ now' = now
      /\ taken' = taken
      /\ runner' = [runner EXCEPT !.due = @ \ {item}]
  BY DEF SkipPlan, At, history
<1>2. /\ runner' \in Runner /\ runner'.stage = runner.stage /\ runner'.item = runner.item
      /\ runner'.runAt = runner.runAt /\ runner'.due = runner.due \ {item}
  BY <1>1, RunnerFields DEF Runner
<1>3. RunnerSound'
  BY <1>1, <1>2 DEF SchedulerInvariant, RunnerSound
<1>4. faults' \in 0 .. MaxFaults
  BY FaultCounted DEF SkipPlan
<1> QED
  BY <1>1, <1>2, <1>3, <1>4, SamePlans
     DEF SkipPlan, store, history, SchedulerInvariant, SchedulerTypeOK

\* A step of the runner away from the plan it works on, or to a later stage of it.
LEMMA RunnerMoves ==
    ASSUME SchedulerInvariant, phase = "up", UNCHANGED <<phase, now>>,
           runner.stage \in {"dispatch", "record", "settle"},
           NextItem \/ Goto("record") \/ Goto("settle")
    PROVE  /\ runner' \in Runner /\ RunnerSound'
           /\ runner.item \in Item /\ runner.item # NoItem
           /\ runner'.due = runner.due /\ runner'.item \in {runner.item, NoItem}
           /\ runner'.runAt = runner.runAt /\ runner'.stage # "waiting"
<1>1. runner.item # NoItem
  BY DEF SchedulerInvariant, RunnerSound
<1>2. /\ runner' \in Runner
      /\ runner'.due = runner.due /\ runner'.item \in {runner.item, NoItem}
      /\ runner'.runAt = runner.runAt
      /\ \/ runner'.stage = "next"
         \/ runner'.stage \in {"record", "settle"} /\ runner'.item = runner.item
  BY RunnerFields DEF NextItem, Goto, Runner, Stages
<1>3. RunnerSound'
  BY <1>1, <1>2 DEF SchedulerInvariant, RunnerSound
<1> QED BY <1>1, <1>2, <1>3, RunnerFields

LEMMA DispatchKeeps ==
    ASSUME SchedulerInvariant, Dispatch \/ DispatchFails
    PROVE  SchedulerInvariant'
<1>1. /\ runner.stage = "dispatch" /\ phase = "up" /\ UNCHANGED <<phase, now>>
      /\ NextItem \/ Goto("record")
      /\ UNCHANGED <<plans, restore, table, journal, registrations, taken, withdrawn>>
      /\ faults' = faults \/ Fault
  BY DEF Dispatch, DispatchFails, At, store, NoFault
<1>2. /\ runner' \in Runner /\ RunnerSound' /\ runner.item \in Item /\ runner.item # NoItem
      /\ runner'.due = runner.due /\ runner'.item \in {runner.item, NoItem}
      /\ runner'.runAt = runner.runAt
  BY <1>1, RunnerMoves
<1>3. handed' = handed \/ handed' = handed \cup {KeyOf(runner.item.id, runner.item)}
  BY DEF Dispatch, DispatchFails
<1>4. accounted' \in SUBSET (ScheduleIDs \X Nat)
  BY <1>2 DEF Dispatch, DispatchFails, Item, SchedulerInvariant, SchedulerTypeOK
<1>5. faults' \in 0 .. MaxFaults
  BY <1>1, FaultCounted DEF NoFault
<1> QED
  BY <1>1, <1>2, <1>3, <1>4, <1>5, SamePlans DEF SchedulerInvariant, SchedulerTypeOK

LEMMA RecordEventKeeps ==
    ASSUME SchedulerInvariant, RecordEvent
    PROVE  SchedulerInvariant'
<1>1. /\ runner.stage = "record" /\ phase = "up" /\ UNCHANGED <<phase, now>>
      /\ NextItem \/ Goto("settle")
      /\ UNCHANGED <<plans, restore, table, history>>
      /\ faults' = faults \/ Fault
      /\ journal' \in {journal, journal \cup {runner.item.id}}
  BY DEF RecordEvent, At, NoFault
<1>2. /\ runner' \in Runner /\ RunnerSound' /\ runner.item \in Item /\ runner.item # NoItem
      /\ runner'.due = runner.due /\ runner'.item \in {runner.item, NoItem}
      /\ runner'.runAt = runner.runAt
  BY <1>1, RunnerMoves
<1>3. journal' \in SUBSET ScheduleIDs
  BY <1>1, <1>2 DEF Item, SchedulerInvariant, SchedulerTypeOK
<1>4. faults' \in 0 .. MaxFaults
  BY <1>1, FaultCounted DEF NoFault
<1> QED
  BY <1>1, <1>2, <1>3, <1>4, SamePlans DEF history, SchedulerInvariant, SchedulerTypeOK


LEMMA ClaimKeeps ==
    ASSUME SchedulerInvariant, NEW item \in runner.due, claimDuePlan(item)
    PROVE  SchedulerInvariant'
<1> DEFINE id == item.id
           row == table[id]
           taking == KeyOf(id, row)
<1>t. SchedulerTypeOK
  BY DEF SchedulerInvariant
<1>1. /\ phase = "up" /\ phase' = phase /\ now' = now /\ plans' = plans
      /\ restore' = restore /\ journal' = journal /\ registrations' = registrations
      /\ handed' = handed /\ withdrawn' = withdrawn /\ accounted' = accounted
      /\ faults' = faults
      /\ runner.stage = "next" /\ row # NoPlan /\ row.dueAt = item.dueAt /\ ~row.claimed
      /\ taken' = taken \cup {taking}
  BY DEF claimDuePlan, Claimable, At
<1>2. item \in Item /\ item # NoItem /\ id \in ScheduleIDs /\ item.dueAt \in Nat
  BY RunnerFields, SentinelsAssumption DEF SentinelsAssumption, Item
<1>3. table' = [table EXCEPT ![id] = [row EXCEPT !.claimed = TRUE]]
  BY DEF claimDuePlan
<1>4. runner' = [runner EXCEPT !.stage = "dispatch", !.item = item, !.due = @ \ {item}]
  BY DEF claimDuePlan
<1>5. /\ row \in Row /\ row.dueAt \in Nat /\ row.reg \in Nat /\ row.dueAt # Missing
      /\ row.dueAt =< runner.runAt /\ row.dueAt =< now
  BY <1>1, <1>2, RunnerFields, Serving DEF SchedulerInvariant, RunnerSound, Row, Missing
<1>6. /\ taking = <<id, row.reg, row.dueAt>> /\ taking \in Key
      /\ row.reg =< registrations[id]
  BY <1>1, <1>2, <1>5 DEF KeyOf, Key, SchedulerInvariant, TakenSound, Listed
<1>7. LET claimed == [row EXCEPT !.claimed = TRUE]
      IN  /\ claimed \in Row /\ claimed # NoPlan /\ claimed.claimed
          /\ claimed.reg = row.reg /\ claimed.dueAt = row.dueAt /\ claimed.plan = row.plan
          /\ EntryOf(claimed) = EntryOf(row) /\ KeyOf(id, claimed) = taking
  <2>1. [row EXCEPT !.claimed = TRUE] \in Row
    BY <1>5 DEF Row
  <2>2. [row EXCEPT !.claimed = TRUE] # NoPlan
    BY <2>1, SentinelsAssumption DEF SentinelsAssumption
  <2> QED BY <1>5, <2>1, <2>2 DEF Row, EntryOf, KeyOf
<1>8. /\ runner' \in Runner /\ runner'.stage = "dispatch" /\ runner'.item = item
      /\ runner'.due = runner.due \ {item} /\ runner'.runAt = runner.runAt
  BY <1>2, <1>4, RunnerFields DEF Runner, Stages
<1> DEFINE after == [row EXCEPT !.claimed = TRUE]
<1>9. /\ after \in Row /\ after # NoPlan /\ after.claimed
      /\ after.reg = row.reg /\ after.dueAt = row.dueAt
      /\ EntryOf(after) = EntryOf(row) /\ KeyOf(id, after) = taking
      /\ table' = [table EXCEPT ![id] = after]
  BY <1>3, <1>7
<1> HIDE DEF after, taking, row, id
<1>10. SchedulerTypeOK'
  BY <1>t, <1>1, <1>2, <1>6, <1>8, <1>9 DEF SchedulerTypeOK, restore
<1>11. PlansMatchTable'
  BY <1>t, <1>1, <1>2, <1>9 DEF row, SchedulerInvariant, SchedulerTypeOK, PlansMatchTable
<1>12. ClaimsAreDue'
  BY <1>t, <1>1, <1>5, <1>9 DEF SchedulerInvariant, SchedulerTypeOK, ClaimsAreDue, Listed
<1>13. ClaimsAreLive'
  BY <1>t, <1>1, <1>9 DEF SchedulerInvariant, SchedulerTypeOK, ClaimsAreLive, Listed
<1>14. RestoredMatchesTable' /\ DueTimesKnown'
  BY <1>t, <1>1, <1>5, <1>9 DEF SchedulerInvariant, SchedulerTypeOK, RestoredMatchesTable,
                               DueTimesKnown, Listed
<1>15. RunnerSound'
  BY <1>1, <1>2, <1>8 DEF SchedulerInvariant, RunnerSound
<1>16. TakenSound'
  <2>1. \A i \in Listed(table') : table'[i].reg =< registrations'[i]
    BY <1>t, <1>1, <1>6, <1>9 DEF SchedulerInvariant, SchedulerTypeOK, TakenSound, Listed
  <2>2. \A key \in taken' : /\ key[2] =< registrations'[key[1]]
                            /\ key[3] =< now' /\ key[3] =< runner'.runAt
    BY <1>1, <1>5, <1>6, <1>8 DEF SchedulerInvariant, TakenSound
  <2>3. \A key \in taken' : key \in RowKeys' => table'[key[1]].claimed
    BY <1>t, <1>1, <1>2, <1>6, <1>9
       DEF row, SchedulerInvariant, SchedulerTypeOK, TakenSound, RowKeys, Listed, KeyOf
  <2> QED BY <2>1, <2>2, <2>3 DEF TakenSound
<1>17. WithdrawnSound'
  BY <1>t, <1>1, <1>2, <1>8, <1>9
     DEF row, SchedulerInvariant, SchedulerTypeOK, WithdrawnSound
<1>18. CancelledInTime'
  BY <1>1 DEF SchedulerInvariant, CancelledInTime
<1> QED BY <1>10, <1>11, <1>12, <1>13, <1>14, <1>15, <1>16, <1>17, <1>18 DEF SchedulerInvariant

\* The plan settled has gone meanwhile, or the table refuses: only the runner moves.
LEMMA SettleNothingKeeps ==
    ASSUME SchedulerInvariant, At("settle"), NextItem, Fault \/ NoFault,
           UNCHANGED <<phase, now, restore, journal, history, plans, table>>
    PROVE  SchedulerInvariant'
<1>1. /\ runner.stage = "settle" /\ phase = "up" /\ UNCHANGED <<phase, now>>
      /\ UNCHANGED <<phase, now, plans, restore, table, registrations, taken, withdrawn>>
      /\ handed' = handed /\ journal' = journal /\ accounted' = accounted
  BY DEF At, history
<1>2. /\ runner' \in Runner /\ RunnerSound'
      /\ runner'.due = runner.due /\ runner'.item \in {runner.item, NoItem}
      /\ runner'.runAt = runner.runAt
  BY <1>1, RunnerMoves
<1>3. faults' \in 0 .. MaxFaults
  BY FaultCounted
<1> QED
  BY <1>1, <1>2, <1>3, SamePlans DEF SchedulerInvariant, SchedulerTypeOK

\* A delay or one-shot plan is removed.
LEMMA SettleRemovalKeeps ==
    ASSUME SchedulerInvariant, At("settle"), NextItem, NoFault, deletePlan(runner.item.id),
           UNCHANGED <<phase, now, restore, journal, history>>
    PROVE  SchedulerInvariant'
<1> DEFINE id == runner.item.id
<1>t. SchedulerTypeOK
  BY DEF SchedulerInvariant
<1>1. /\ runner.stage = "settle" /\ phase = "up" /\ phase' = phase /\ now' = now
      /\ restore' = restore /\ journal' = journal /\ taken' = taken
      /\ handed' = handed /\ withdrawn' = withdrawn /\ accounted' = accounted
      /\ registrations' = registrations /\ faults' = faults
      /\ table' = [table EXCEPT ![id] = NoPlan]
      /\ plans' = [plans EXCEPT ![id] = NoPlan]
  BY DEF At, history, NoFault, deletePlan
<1>2. /\ runner' \in Runner /\ RunnerSound' /\ runner.item \in Item /\ runner.item # NoItem
      /\ runner'.due = runner.due /\ runner'.item \in {runner.item, NoItem}
      /\ runner'.runAt = runner.runAt
  BY <1>1, RunnerMoves
<1>3. id \in ScheduleIDs
  BY <1>2 DEF Item
<1> HIDE DEF id
<1>4. SchedulerTypeOK'
  BY <1>t, <1>1, <1>2 DEF SchedulerTypeOK, restore
<1>5. PlansMatchTable'
  BY <1>t, <1>1 DEF SchedulerInvariant, SchedulerTypeOK, PlansMatchTable
<1>6. ClaimsAreDue' /\ ClaimsAreLive'
  BY <1>t, <1>1 DEF SchedulerInvariant, SchedulerTypeOK, ClaimsAreDue, ClaimsAreLive, Listed, KeyOf
<1>7. RestoredMatchesTable' /\ DueTimesKnown' /\ CancelledInTime'
  BY <1>t, <1>1 DEF SchedulerInvariant, SchedulerTypeOK, RestoredMatchesTable, DueTimesKnown,
                    CancelledInTime, Listed
<1>8. TakenSound'
  BY <1>t, <1>1, <1>2 DEF SchedulerInvariant, SchedulerTypeOK, TakenSound, Listed, RowKeys, KeyOf, Key
<1>9. WithdrawnSound'
  BY <1>t, <1>1, <1>2 DEF SchedulerInvariant, SchedulerTypeOK, WithdrawnSound, Key
<1> QED BY <1>2, <1>4, <1>5, <1>6, <1>7, <1>8, <1>9 DEF SchedulerInvariant

\* A cron plan moves to a slot after the run, which no firing of it was taken for.
LEMMA SettleCronKeeps ==
    ASSUME SchedulerInvariant, At("settle"), NextItem, NoFault,
           plans[runner.item.id] # NoPlan, plans[runner.item.id].plan.kind = "cron",
           savePlan(runner.item.id, [plans[runner.item.id] EXCEPT
               !.dueAt = nextCronDue(plans[runner.item.id].plan.at, runner.item.dueAt,
                                     runner.runAt)]),
           UNCHANGED <<phase, now, restore, journal, history>>
    PROVE  SchedulerInvariant'
<1> DEFINE id == runner.item.id
           next == nextCronDue(plans[id].plan.at, runner.item.dueAt, runner.runAt)
           entry == [plans[id] EXCEPT !.dueAt = next]
<1>t. SchedulerTypeOK
  BY DEF SchedulerInvariant
<1>1. /\ runner.stage = "settle" /\ phase = "up" /\ phase' = phase /\ now' = now
      /\ restore' = restore /\ journal' = journal /\ taken' = taken
      /\ handed' = handed /\ withdrawn' = withdrawn /\ accounted' = accounted
      /\ registrations' = registrations /\ faults' = faults
      /\ plans[id] # NoPlan /\ plans[id].plan.kind = "cron"
  BY DEF At, history, NoFault
<1>2. /\ runner' \in Runner /\ RunnerSound' /\ runner.item \in Item /\ runner.item # NoItem
      /\ runner'.due = runner.due /\ runner'.item \in {runner.item, NoItem}
      /\ runner'.runAt = runner.runAt /\ runner'.stage # "waiting"
  BY <1>1, RunnerMoves
<1>3. id \in ScheduleIDs /\ runner.item.dueAt \in Nat /\ runner.item.dueAt =< runner.runAt
  BY <1>1, <1>2 DEF Item, SchedulerInvariant, RunnerSound
<1>4. /\ plans[id] \in Entry /\ table[id] # NoPlan /\ table[id] \in Row
      /\ plans[id].reg = table[id].reg
  BY <1>1, <1>3, Serving
<1>5. next \in Nat /\ next > runner.runAt
  <2>1. runner.item.dueAt \in 0 .. MaxTime /\ runner.runAt \in 0 .. MaxTime
    BY <1>3, RunnerFields, LimitsAssumption DEF LimitsAssumption
  <2>2. plans[id].plan \in Plans
    BY <1>4 DEF Entry
  <2> QED BY <1>1, <2>1, <2>2, NextSlot
<1> HIDE DEF next
<1>6. entry \in Entry /\ entry.reg = table[id].reg /\ entry.dueAt = next
  BY <1>4, <1>5 DEF Entry
<1>7. table' = [table EXCEPT ![id] = RowOf(entry)] /\ plans' = [plans EXCEPT ![id] = entry]
  BY DEF savePlan, next
<1> HIDE DEF entry
<1>8. /\ RowOf(entry) \in Row /\ RowOf(entry) # NoPlan /\ entry # NoPlan
      /\ EntryOf(RowOf(entry)) = entry /\ ~RowOf(entry).claimed
      /\ RowOf(entry).reg = table[id].reg
      /\ RowOf(entry).dueAt = next /\ RowOf(entry).dueAt # Missing
      /\ table[id].reg \in Nat /\ table[id].reg =< registrations[id]
  BY <1>3, <1>4, <1>5, <1>6, SavedRow
     DEF Missing, Row, SchedulerInvariant, TakenSound, Listed
<1> HIDE DEF id
<1>9. SchedulerTypeOK'
  BY <1>t, <1>1, <1>2, <1>6, <1>7, <1>8 DEF SchedulerTypeOK, restore
<1>10. PlansMatchTable'
  BY <1>t, <1>1, <1>7, <1>8 DEF SchedulerInvariant, SchedulerTypeOK, PlansMatchTable
<1>11. ClaimsAreDue' /\ ClaimsAreLive'
  BY <1>t, <1>1, <1>7, <1>8
     DEF SchedulerInvariant, SchedulerTypeOK, ClaimsAreDue, ClaimsAreLive, Listed, KeyOf
<1>12. RestoredMatchesTable' /\ DueTimesKnown' /\ CancelledInTime'
  BY <1>t, <1>1, <1>7, <1>8
     DEF SchedulerInvariant, SchedulerTypeOK, RestoredMatchesTable, DueTimesKnown,
         CancelledInTime, Listed
<1>13. TakenSound'
  <2>1. \A i \in Listed(table') : table'[i].reg =< registrations'[i]
    BY <1>t, <1>1, <1>7, <1>8 DEF SchedulerInvariant, SchedulerTypeOK, TakenSound, Listed
  <2>2. \A key \in taken' : /\ key[2] =< registrations'[key[1]]
                            /\ key[3] =< now' /\ key[3] =< runner'.runAt
    BY <1>1, <1>2 DEF SchedulerInvariant, TakenSound
  <2>3. \A key \in taken' : key \in RowKeys' => table'[key[1]].claimed
    <3> SUFFICES ASSUME NEW key \in taken, NEW i \in Listed(table'), key = KeyOf(i, table'[i])
                 PROVE  table'[key[1]].claimed
      BY <1>1 DEF RowKeys
    <3>1. key[1] = i /\ key[3] = table'[i].dueAt /\ key[3] \in Nat \cup {Missing}
      BY <1>t DEF KeyOf, SchedulerTypeOK, Key
    <3>2. i # id
      <4> SUFFICES ASSUME i = id PROVE FALSE
        OBVIOUS
      <4>1. table'[id] = RowOf(entry)
        BY <1>t, <1>3, <1>7 DEF SchedulerTypeOK, id
      <4>2. key[3] = next
        BY <1>8, <3>1, <4>1
      <4>3. key[3] =< runner.runAt
        BY <1>1, <1>2, <2>2
      <4>4. runner.runAt \in Nat
        BY RunnerFields
      <4> QED BY <1>5, <4>2, <4>3, <4>4
    <3>3. table'[i] = table[i] /\ i \in Listed(table)
      BY <1>t, <1>7, <3>2 DEF SchedulerTypeOK, Listed
    <3> QED BY <3>1, <3>3 DEF SchedulerInvariant, TakenSound, RowKeys
  <2> QED BY <2>1, <2>2, <2>3 DEF TakenSound
<1>14. WithdrawnSound'
  BY <1>t, <1>1, <1>2, <1>4, <1>7, <1>8
     DEF SchedulerInvariant, SchedulerTypeOK, WithdrawnSound, Key
<1> QED BY <1>2, <1>9, <1>10, <1>11, <1>12, <1>13, <1>14 DEF SchedulerInvariant

LEMMA SettlePlanKeeps ==
    ASSUME SchedulerInvariant, SettlePlan
    PROVE  SchedulerInvariant'
<1> USE DEF SettlePlan
<1>1. CASE UNCHANGED <<plans, table, faults>>
  BY <1>1, SettleNothingKeeps DEF NoFault
<1>2. CASE Fault /\ UNCHANGED <<plans, table>>
  BY <1>2, SettleNothingKeeps
<1>3. CASE deletePlan(runner.item.id) /\ NoFault
  BY <1>3, SettleRemovalKeeps
<1>4. CASE /\ plans[runner.item.id] # NoPlan /\ plans[runner.item.id].plan.kind = "cron"
           /\ savePlan(runner.item.id, [plans[runner.item.id] EXCEPT
                  !.dueAt = nextCronDue(plans[runner.item.id].plan.at, runner.item.dueAt,
                                        runner.runAt)])
           /\ NoFault
  BY <1>4, SettleCronKeeps
<1> QED BY <1>1, <1>2, <1>3, <1>4

LEMMA BeginRestoreKeeps ==
    ASSUME SchedulerInvariant, BeginRestore
    PROVE  SchedulerInvariant'
<1>t. SchedulerTypeOK
  BY DEF SchedulerInvariant
<1>1. /\ phase = "down" /\ phase' = "restoring" /\ now' = now
      /\ unread' = Listed(table) /\ restored' = Nothing /\ restoreAt' = now
      /\ plans' = plans /\ runner' = runner /\ table' = table /\ journal' = journal
      /\ registrations' = registrations /\ taken' = taken /\ handed' = handed
      /\ withdrawn' = withdrawn /\ accounted' = accounted /\ faults' = faults
  BY DEF BeginRestore, memory, store, history
<1>2. SchedulerTypeOK'
  BY <1>t, <1>1 DEF SchedulerTypeOK, Listed, Nothing
<1>3. PlansMatchTable' /\ ClaimsAreLive' /\ DueTimesKnown'
  BY <1>1 DEF PlansMatchTable, ClaimsAreLive, DueTimesKnown
<1>4. ClaimsAreDue'
  BY <1>1 DEF SchedulerInvariant, ClaimsAreDue, Listed
<1>5. RestoredMatchesTable'
  BY <1>1 DEF RestoredMatchesTable, Listed, Nothing
<1>6. RunnerSound' /\ CancelledInTime'
  BY <1>1 DEF SchedulerInvariant, RunnerSound, CancelledInTime
<1>7. TakenSound' /\ WithdrawnSound'
  BY <1>1 DEF SchedulerInvariant, TakenSound, WithdrawnSound, Listed, RowKeys, KeyOf
<1> QED BY <1>2, <1>3, <1>4, <1>5, <1>6, <1>7 DEF SchedulerInvariant

LEMMA RecoverRowKeeps ==
    ASSUME SchedulerInvariant, NEW id \in ScheduleIDs, RecoverRow(id)
    PROVE  SchedulerInvariant'
<1> DEFINE row == Recovered(table[id])
<1>t. SchedulerTypeOK
  BY DEF SchedulerInvariant
<1>1. /\ phase = "restoring" /\ phase' = phase /\ now' = now /\ id \in unread
      /\ unread' = unread \ {id} /\ restoreAt' = restoreAt
      /\ table' = [table EXCEPT ![id] = row]
      /\ restored' = [restored EXCEPT ![id] = EntryOf(row)]
      /\ plans' = plans /\ runner' = runner /\ journal' = journal
      /\ registrations' = registrations /\ taken' = taken /\ handed' = handed
      /\ withdrawn' = withdrawn /\ accounted' = accounted /\ faults' = faults
  BY DEF RecoverRow, memory, history
<1>2. table[id] # NoPlan /\ table[id] \in Row
  BY <1>t, <1>1 DEF SchedulerInvariant, SchedulerTypeOK, RestoredMatchesTable, Listed
<1>3. table[id].claimed => table[id].dueAt # Missing /\ table[id].dueAt =< restoreAt
  BY <1>1, <1>2 DEF SchedulerInvariant, ClaimsAreDue, Listed
<1>4. /\ row \in Row /\ ~row.claimed /\ row.dueAt # Missing /\ row.reg = table[id].reg
  BY <1>t, <1>2, <1>3, RecoveredRow DEF SchedulerTypeOK
<1> HIDE DEF row
<1>5. row # NoPlan /\ EntryOf(row) \in Entry /\ EntryOf(row) # NoPlan
  BY <1>4, ReadRow, SentinelsAssumption DEF SentinelsAssumption
<1>6. SchedulerTypeOK'
  BY <1>t, <1>1, <1>4, <1>5 DEF SchedulerTypeOK
<1>7. PlansMatchTable' /\ ClaimsAreLive' /\ DueTimesKnown'
  BY <1>1 DEF PlansMatchTable, ClaimsAreLive, DueTimesKnown
<1>8. ClaimsAreDue'
  BY <1>t, <1>1, <1>4, <1>5 DEF SchedulerInvariant, SchedulerTypeOK, ClaimsAreDue, Listed
<1>9. RestoredMatchesTable'
  BY <1>t, <1>1, <1>4, <1>5 DEF SchedulerInvariant, SchedulerTypeOK, RestoredMatchesTable, Listed
<1>10. RunnerSound' /\ CancelledInTime'
  BY <1>1 DEF SchedulerInvariant, RunnerSound, CancelledInTime
<1>11. taken' = {}
  BY <1>1 DEF SchedulerInvariant, RunnerSound
<1>12. TakenSound'
  BY <1>t, <1>1, <1>2, <1>4, <1>11 DEF SchedulerInvariant, SchedulerTypeOK, TakenSound, Listed
<1>13. WithdrawnSound'
  BY <1>t, <1>1, <1>2, <1>4 DEF SchedulerInvariant, SchedulerTypeOK, WithdrawnSound
<1> QED BY <1>6, <1>7, <1>8, <1>9, <1>10, <1>12, <1>13 DEF SchedulerInvariant

LEMMA EndRestoreKeeps ==
    ASSUME SchedulerInvariant, EndRestore
    PROVE  SchedulerInvariant'
<1>t. SchedulerTypeOK
  BY DEF SchedulerInvariant
<1>1. /\ phase = "restoring" /\ phase' = "up" /\ now' = now /\ unread = {}
      /\ unread' = unread /\ restoreAt' = restoreAt /\ restored' = Nothing
      /\ plans' = restored /\ runner' = runner /\ table' = table /\ journal' = journal
      /\ registrations' = registrations /\ taken' = taken /\ handed' = handed
      /\ withdrawn' = withdrawn /\ accounted' = accounted /\ faults' = faults
  BY DEF EndRestore, store, history
<1>2. \A id \in ScheduleIDs :
         /\ table[id] = NoPlan => restored[id] = NoPlan
         /\ table[id] # NoPlan => /\ table[id].dueAt # Missing /\ ~table[id].claimed
                                  /\ restored[id] = EntryOf(table[id])
  BY <1>1 DEF SchedulerInvariant, RestoredMatchesTable
<1>3. SchedulerTypeOK'
  BY <1>t, <1>1 DEF SchedulerTypeOK, Nothing
<1>4. PlansMatchTable' /\ ClaimsAreDue' /\ ClaimsAreLive' /\ DueTimesKnown'
  BY <1>1, <1>2 DEF PlansMatchTable, ClaimsAreDue, ClaimsAreLive, DueTimesKnown, Listed
<1>5. RestoredMatchesTable'
  BY <1>1 DEF RestoredMatchesTable
<1>6. RunnerSound' /\ CancelledInTime'
  BY <1>1 DEF SchedulerInvariant, RunnerSound, CancelledInTime
<1>7. TakenSound' /\ WithdrawnSound'
  BY <1>1 DEF SchedulerInvariant, TakenSound, WithdrawnSound, Listed, RowKeys, KeyOf
<1> QED BY <1>3, <1>4, <1>5, <1>6, <1>7 DEF SchedulerInvariant

LEMMA CrashKeeps ==
    ASSUME SchedulerInvariant, Crash
    PROVE  SchedulerInvariant'
<1>t. SchedulerTypeOK
  BY DEF SchedulerInvariant
<1>1. /\ phase' = "down" /\ now' = now /\ plans' = Nothing /\ runner' = Resting
      /\ unread' = {} /\ restored' = Nothing /\ restoreAt' = restoreAt /\ taken' = {}
      /\ table' = table /\ journal' = journal /\ registrations' = registrations
      /\ handed' = handed /\ withdrawn' = withdrawn /\ accounted' = accounted
      /\ faults' \in 0 .. MaxFaults
  BY FaultCounted DEF Crash, store
<1>2. SchedulerTypeOK'
  BY <1>t, <1>1, RunnerFields DEF SchedulerTypeOK, Nothing
<1>3. PlansMatchTable' /\ ClaimsAreLive' /\ DueTimesKnown' /\ RestoredMatchesTable'
  BY <1>1 DEF PlansMatchTable, ClaimsAreLive, DueTimesKnown, RestoredMatchesTable
<1>4. ClaimsAreDue' /\ CancelledInTime'
  BY <1>1 DEF SchedulerInvariant, ClaimsAreDue, CancelledInTime, Listed
<1>5. RunnerSound'
  BY <1>1, RunnerFields DEF RunnerSound, Resting
<1>6. TakenSound' /\ WithdrawnSound'
  BY <1>1 DEF SchedulerInvariant, TakenSound, WithdrawnSound, Listed, Resting
<1> QED BY <1>2, <1>3, <1>4, <1>5, <1>6 DEF SchedulerInvariant

LEMMA TickKeeps ==
    ASSUME SchedulerInvariant, Tick
    PROVE  SchedulerInvariant'
<1>t. SchedulerTypeOK
  BY DEF SchedulerInvariant
<1>1. /\ phase' = phase /\ now' = now + 1 /\ now' \in 0 .. MaxTime
      /\ plans' = plans /\ runner' = runner
      /\ unread' = unread /\ restored' = restored /\ restoreAt' = restoreAt
      /\ table' = table /\ journal' = journal /\ registrations' = registrations
      /\ taken' = taken /\ handed' = handed /\ withdrawn' = withdrawn
      /\ accounted' = accounted /\ faults' = faults /\ now \in Nat
  BY <1>t, LimitsAssumption
     DEF Tick, memory, restore, store, history, SchedulerTypeOK, LimitsAssumption
<1>2. SchedulerTypeOK'
  BY <1>t, <1>1 DEF SchedulerTypeOK
<1>3. PlansMatchTable' /\ ClaimsAreLive' /\ DueTimesKnown' /\ RestoredMatchesTable'
  BY <1>1 DEF SchedulerInvariant, PlansMatchTable, ClaimsAreLive, DueTimesKnown,
              RestoredMatchesTable, Listed, KeyOf
<1>4. ClaimsAreDue'
  BY <1>t, <1>1 DEF SchedulerInvariant, SchedulerTypeOK, ClaimsAreDue, Listed, Row, Missing
<1>5. RunnerSound' /\ CancelledInTime'
  BY <1>1, RunnerFields DEF SchedulerInvariant, RunnerSound, CancelledInTime
<1>6. TakenSound'
  BY <1>t, <1>1 DEF SchedulerInvariant, SchedulerTypeOK, TakenSound, Listed, RowKeys, KeyOf,
                    Key, Missing
<1>7. WithdrawnSound'
  BY <1>t, <1>1 DEF SchedulerInvariant, SchedulerTypeOK, WithdrawnSound, Key, Missing
<1> QED BY <1>2, <1>3, <1>4, <1>5, <1>6, <1>7 DEF SchedulerInvariant

-----------------------------------------------------------------------------
(* The theorems *)

LEMMA SchedulerStarts == SchedulerInit => SchedulerInvariant
<1> SUFFICES ASSUME SchedulerInit PROVE SchedulerInvariant
  OBVIOUS
<1>1. \A id \in Listed(table) : /\ table[id].dueAt = Missing /\ ~table[id].claimed
                               /\ table[id].reg = 0
  BY DEF SchedulerInit, Listed
<1>2. SchedulerTypeOK
  <2>1. table \in [ScheduleIDs -> Row \cup {NoPlan}]
    <3>1. ASSUME NEW row \in [plan : Plans, reg : {0}, dueAt : {Missing}, claimed : {FALSE}]
          PROVE  row \in Row
      <4>1. row = [plan |-> row.plan, reg |-> row.reg, dueAt |-> row.dueAt,
                   claimed |-> row.claimed]
        OBVIOUS
      <4>2. row.plan \in Plans /\ row.reg \in {0} /\ row.dueAt \in {Missing}
        OBVIOUS
      <4>3. row.claimed \in {FALSE}
        OBVIOUS
      <4>4. row.claimed \in BOOLEAN
        BY <4>3, Zenon
      <4>5. row.reg \in Nat /\ row.dueAt \in Nat \cup {Missing}
        BY <4>2
      <4> QED BY <4>1, <4>2, <4>4, <4>5 DEF Row
    <3> QED BY <3>1 DEF SchedulerInit
  <2>2. runner \in Runner
    BY DEF SchedulerInit, Resting, Runner, Stages
  <2> QED
    BY <2>1, <2>2, LimitsAssumption
       DEF LimitsAssumption, SchedulerInit, SchedulerTypeOK, Nothing
<1>3. /\ PlansMatchTable /\ ClaimsAreLive /\ DueTimesKnown /\ RestoredMatchesTable
      /\ CancelledInTime
  BY DEF SchedulerInit, PlansMatchTable, ClaimsAreLive, DueTimesKnown, RestoredMatchesTable,
         CancelledInTime
<1>4. ClaimsAreDue
  BY <1>1 DEF ClaimsAreDue
<1>5. RunnerSound
  BY DEF SchedulerInit, RunnerSound, Resting
<1>6. TakenSound /\ WithdrawnSound
  BY <1>1 DEF SchedulerInit, TakenSound, WithdrawnSound, Resting, Listed
<1> QED BY <1>2, <1>3, <1>4, <1>5, <1>6 DEF SchedulerInvariant

LEMMA SchedulerKeeps ==
    ASSUME SchedulerInvariant, [SchedulerNext]_vars
    PROVE  SchedulerInvariant'
<1>1. CASE UNCHANGED vars
  BY <1>1 DEF vars, memory, restore, store, history, SchedulerInvariant, SchedulerTypeOK,
              PlansMatchTable, ClaimsAreDue, ClaimsAreLive, RestoredMatchesTable, DueTimesKnown,
              RunnerSound, TakenSound, WithdrawnSound, CancelledInTime, Listed, RowKeys, KeyOf
<1>2. CASE \E id \in ScheduleIDs, plan \in Plans : Register(id, plan)
  BY <1>2, RegisterKeeps
<1>3. CASE \E id \in ScheduleIDs : Cancel(id)
  BY <1>3, CancelKeeps
<1>4. CASE RunnerStep
  BY <1>4, RunDuePlansKeeps, EndRunKeeps, SkipPlanKeeps, ClaimKeeps, DispatchKeeps,
     RecordEventKeeps, SettlePlanKeeps DEF RunnerStep
<1>5. CASE Restart
  BY <1>5, BeginRestoreKeeps, RecoverRowKeeps, EndRestoreKeeps DEF Restart
<1>6. CASE Crash \/ Tick
  BY <1>6, CrashKeeps, TickKeeps
<1> QED BY <1>1, <1>2, <1>3, <1>4, <1>5, <1>6 DEF SchedulerNext

\* The invariant holds for every set of ids and plans, every cron library whose
\* slots advance, and however many faults, registrations and ticks there are.
THEOREM SchedulerInvariantHolds == SchedulerSpec => []SchedulerInvariant
<1>1. SchedulerInvariant /\ [SchedulerNext]_vars => SchedulerInvariant'
  BY SchedulerKeeps
<1> QED BY SchedulerStarts, <1>1, PTL DEF SchedulerSpec

\* The variables of the scheduler keep their types.
THEOREM SchedulerTypeCorrect == SchedulerSpec => []SchedulerTypeOK
<1>1. SchedulerInvariant => SchedulerTypeOK
  BY DEF SchedulerInvariant
<1> QED BY <1>1, SchedulerInvariantHolds, PTL

\* While the process serves, its plans and due times are those of the table.
THEOREM PlansAgree == SchedulerSpec => []PlansMatchTable
<1>1. SchedulerInvariant => PlansMatchTable
  BY DEF SchedulerInvariant
<1> QED BY <1>1, SchedulerInvariantHolds, PTL

\* No claim of a dead process survives a restart.
THEOREM ClaimsStayLive == SchedulerSpec => []ClaimsAreLive
<1>1. SchedulerInvariant => ClaimsAreLive
  BY DEF SchedulerInvariant
<1> QED BY <1>1, SchedulerInvariantHolds, PTL

\* What is cancelled before it is due is never dispatched for that time.
THEOREM CancelledStaysCancelled == SchedulerSpec => []CancelledInTime
<1>1. SchedulerInvariant => CancelledInTime
  BY DEF SchedulerInvariant
<1> QED BY <1>1, SchedulerInvariantHolds, PTL

\* In one life of the process a plan is taken once for one due time: what was
\* taken is still claimed, and a claimed row is not claimable.
THEOREM TakenOncePerLife == SchedulerSpec => OncePerLife
<1> DEFINE Once == At("next") /\ runner'.stage = "dispatch"
                   => KeyOf(runner'.item.id, table[runner'.item.id]) \notin taken
<1>1. SchedulerInvariant /\ [SchedulerNext]_vars => [Once]_vars
  <2> SUFFICES ASSUME SchedulerInvariant, SchedulerNext, At("next"), runner'.stage = "dispatch"
               PROVE  KeyOf(runner'.item.id, table[runner'.item.id]) \notin taken
    OBVIOUS
  <2>1. runner \in Runner /\ runner.stage = "next"
    BY RunnerFields DEF At
  <2>2. PICK item \in runner.due : claimDuePlan(item)
    <3>1. runner' # runner
      BY <2>1
    <3>2. ~(\E id \in ScheduleIDs, plan \in Plans : Register(id, plan))
      BY <3>1 DEF Register
    <3>3. ~(\E id \in ScheduleIDs : Cancel(id))
      BY <3>1 DEF Cancel
    <3>4. ~Restart /\ ~Tick
      BY <3>1 DEF Restart, BeginRestore, RecoverRow, EndRestore, Tick, memory
    <3>5. ~Crash /\ ~EndRun
      BY DEF Crash, EndRun, Resting
    <3>6. ~runDuePlans /\ ~Dispatch /\ ~DispatchFails /\ ~RecordEvent /\ ~SettlePlan
      BY <2>1 DEF runDuePlans, Dispatch, DispatchFails, RecordEvent, SettlePlan, At
    <3>7. ~(\E item \in runner.due : SkipPlan(item))
      BY <2>1 DEF SkipPlan, Runner
    <3> QED BY <3>2, <3>3, <3>4, <3>5, <3>6, <3>7 DEF SchedulerNext, RunnerStep
  <2>3. runner'.item = item /\ Claimable(item)
    BY <2>1, <2>2 DEF claimDuePlan, Runner
  <2>4. item.id \in Listed(table) /\ ~table[item.id].claimed
    BY <2>1, <2>3 DEF Claimable, Listed, Runner, Item
  <2>5. KeyOf(item.id, table[item.id]) \in RowKeys
    BY <2>4 DEF RowKeys
  <2>6. KeyOf(item.id, table[item.id])[1] = item.id
    BY DEF KeyOf
  <2> QED BY <2>3, <2>4, <2>5, <2>6 DEF SchedulerInvariant, TakenSound
<1> QED BY <1>1, SchedulerInvariantHolds, PTL DEF SchedulerSpec, OncePerLife

-----------------------------------------------------------------------------
(* The agenda: what the runner works on                                      *)
(*                                                                           *)
(* A step of the runner acts under the id and the time of an item it read    *)
(* long before.  What justifies it is a claim of this life of the process    *)
(* for that id and time, for a registration no older than the item's, and,   *)
(* once the event went out, the delivery itself.                             *)

Covers(claim, item) ==
    claim[1] = item.id /\ claim[3] = item.dueAt /\ item.reg =< claim[2]

WorkSound ==
    /\ \A id \in Listed(table) : table[id].reg = registrations[id]
    /\ \A item \in runner.due : item.reg =< registrations[item.id]
    /\ runner.stage \in {"dispatch", "record", "settle"} =>
          \E claim \in taken : Covers(claim, runner.item)
    /\ runner.stage \in {"record", "settle"} => KeyOf(runner.item.id, runner.item) \in handed

\* Steps that leave the runner alone and its claims and deliveries in place.
LEMMA RunnerRests ==
    ASSUME SchedulerInvariant, WorkSound, runner' = runner, taken' = taken, handed' = handed,
           \A id \in Listed(table') : table'[id].reg = registrations'[id],
           \A id \in ScheduleIDs : registrations'[id] >= registrations[id],
           SchedulerTypeOK'
    PROVE  WorkSound'
<1>1. \A item \in runner.due : item.reg =< registrations'[item.id]
  <2> SUFFICES ASSUME NEW item \in runner.due PROVE item.reg =< registrations'[item.id]
    OBVIOUS
  <2>1. item.id \in ScheduleIDs /\ item.reg \in Nat
    BY RunnerFields DEF Item
  <2>2. registrations[item.id] \in Nat /\ registrations'[item.id] \in Nat
    BY <2>1 DEF SchedulerTypeOK, SchedulerInvariant
  <2>3. item.reg =< registrations[item.id]
    BY DEF WorkSound
  <2> QED BY <2>1, <2>2, <2>3
<1> QED BY <1>1 DEF WorkSound, Covers, KeyOf

\* Steps of the runner that end its work on an item.
LEMMA RunnerIdles ==
    ASSUME SchedulerInvariant, WorkSound, runner'.stage \in {"waiting", "next"},
           runner'.due \subseteq runner.due,
           registrations' = registrations,
           \A id \in Listed(table') : table'[id].reg = registrations[id]
    PROVE  WorkSound'
BY DEF WorkSound

\* The rows keep their registrations where the table is not written.
LEMMA SameTable ==
    ASSUME WorkSound, table' = table, registrations' = registrations
    PROVE  \A id \in Listed(table') : table'[id].reg = registrations[id]
BY DEF WorkSound, Listed

LEMMA RegisterWork ==
    ASSUME SchedulerInvariant, WorkSound, SchedulerInvariant',
           NEW id \in ScheduleIDs, NEW plan \in Plans, Register(id, plan)
    PROVE  WorkSound'
<1> DEFINE entry == [plan |-> plan, reg |-> registrations[id] + 1, dueAt |-> dueAtForPlan(plan)]
<1>t. SchedulerTypeOK /\ SchedulerTypeOK'
  BY DEF SchedulerInvariant
<1>1. /\ runner' = runner /\ taken' = taken /\ handed' = handed
      /\ table' = [table EXCEPT ![id] = RowOf(entry)]
      /\ registrations' = [registrations EXCEPT ![id] = @ + 1]
  BY DEF Register, savePlan
<1>2. RowOf(entry).reg = registrations[id] + 1
  BY DEF RowOf
<1> HIDE DEF entry
<1>3. \A i \in Listed(table') : table'[i].reg = registrations'[i]
  BY <1>t, <1>1, <1>2 DEF WorkSound, Listed, SchedulerTypeOK
<1>4. \A i \in ScheduleIDs : registrations'[i] >= registrations[i]
  BY <1>t, <1>1 DEF SchedulerTypeOK
<1> QED BY <1>t, <1>1, <1>3, <1>4, RunnerRests

LEMMA CancelWork ==
    ASSUME SchedulerInvariant, WorkSound, SchedulerInvariant',
           NEW id \in ScheduleIDs, Cancel(id)
    PROVE  WorkSound'
<1>t. SchedulerTypeOK /\ SchedulerTypeOK'
  BY DEF SchedulerInvariant
<1>1. /\ runner' = runner /\ taken' = taken /\ handed' = handed
      /\ table' = [table EXCEPT ![id] = NoPlan]
      /\ registrations' = registrations
  BY DEF Cancel, deletePlan
<1>2. \A i \in Listed(table') : table'[i].reg = registrations'[i]
  BY <1>t, <1>1 DEF WorkSound, Listed, SchedulerTypeOK
<1>3. \A i \in ScheduleIDs : registrations'[i] >= registrations[i]
  BY <1>t, <1>1 DEF SchedulerTypeOK
<1> QED BY <1>t, <1>1, <1>2, <1>3, RunnerRests

LEMMA RunDuePlansWork ==
    ASSUME SchedulerInvariant, WorkSound, runDuePlans
    PROVE  WorkSound'
<1>1. /\ runner' = [stage |-> "next", due |-> DuePlans, item |-> NoItem, runAt |-> now]
      /\ phase = "up" /\ table' = table /\ registrations' = registrations
  BY DEF runDuePlans, Resting, At, store, history
<1>2. \A item \in DuePlans : item.reg =< registrations[item.id]
  <2> SUFFICES ASSUME NEW id \in Listed(plans) PROVE plans[id].reg =< registrations[id]
    BY DEF DuePlans, Listed
  <2>1. id \in ScheduleIDs /\ id \in Listed(table) /\ plans[id].reg = table[id].reg
    BY <1>1, Serving DEF Listed
  <2> QED BY <2>1 DEF WorkSound, SchedulerInvariant, SchedulerTypeOK
<1>3. runner'.stage = "next" /\ runner'.due = DuePlans
  BY <1>1
<1> QED BY <1>1, <1>2, <1>3, SameTable DEF WorkSound

LEMMA ClaimWork ==
    ASSUME SchedulerInvariant, WorkSound, NEW item \in runner.due, claimDuePlan(item)
    PROVE  WorkSound'
<1>t. SchedulerTypeOK
  BY DEF SchedulerInvariant
<1>1. /\ table[item.id] # NoPlan /\ table[item.id].dueAt = item.dueAt
      /\ table' = [table EXCEPT ![item.id] = [table[item.id] EXCEPT !.claimed = TRUE]]
      /\ taken' = taken \cup {KeyOf(item.id, table[item.id])}
      /\ runner' = [runner EXCEPT !.stage = "dispatch", !.item = item, !.due = @ \ {item}]
      /\ registrations' = registrations
  BY DEF claimDuePlan, Claimable
<1>2. /\ item \in Item /\ item.id \in ScheduleIDs /\ item.id \in Listed(table)
      /\ table[item.id] \in Row
  BY <1>t, <1>1, RunnerFields DEF Item, Listed, SchedulerTypeOK
<1>3. /\ runner'.stage = "dispatch" /\ runner'.item = item /\ runner'.due = runner.due \ {item}
  BY <1>1, RunnerFields DEF Runner
<1>4. KeyOf(item.id, table[item.id]) \in taken' /\ Covers(KeyOf(item.id, table[item.id]), item)
  BY <1>1, <1>2 DEF Covers, KeyOf, WorkSound
<1>5. [table[item.id] EXCEPT !.claimed = TRUE].reg = table[item.id].reg
  BY <1>2 DEF Row
<1>6. \A i \in Listed(table') : table'[i].reg = registrations'[i]
  BY <1>t, <1>1, <1>2, <1>5 DEF WorkSound, Listed, SchedulerTypeOK
<1>7. \A i \in runner'.due : i.reg =< registrations'[i.id]
  BY <1>1, <1>3 DEF WorkSound
<1> QED BY <1>3, <1>4, <1>6, <1>7 DEF WorkSound

LEMMA SkipWork ==
    ASSUME SchedulerInvariant, WorkSound, NEW item \in runner.due, SkipPlan(item)
    PROVE  WorkSound'
<1>1. /\ runner.stage = "next" /\ table' = table /\ registrations' = registrations
      /\ runner' = [runner EXCEPT !.due = @ \ {item}]
  BY DEF SkipPlan, At, store, history
<1>2. runner'.stage = "next" /\ runner'.due \subseteq runner.due
  BY <1>1, RunnerFields DEF Runner
<1> QED BY <1>1, <1>2, SameTable, RunnerIdles

LEMMA DispatchWork ==
    ASSUME SchedulerInvariant, WorkSound, Dispatch \/ DispatchFails \/ RecordEvent
    PROVE  WorkSound'
<1>1. /\ runner.stage \in {"dispatch", "record"} /\ phase = "up"
      /\ table' = table /\ registrations' = registrations /\ taken' = taken
      /\ NextItem \/ Goto("record") \/ Goto("settle")
      /\ UNCHANGED <<phase, now>>
  BY DEF Dispatch, DispatchFails, RecordEvent, At, store, history
<1>2. runner'.due = runner.due
  BY <1>1, RunnerMoves
<1>3. \A id \in Listed(table') : table'[id].reg = registrations[id]
  BY <1>1, SameTable
<1>4. CASE NextItem
  <2>1. runner'.stage = "next"
    BY <1>4, RunnerFields DEF NextItem, Runner
  <2> QED BY <1>1, <1>2, <1>3, <2>1, RunnerIdles
<1>5. CASE ~NextItem
  <2>1. Goto("record") \/ Goto("settle")
    BY <1>1, <1>5
  <2>2. runner'.item = runner.item /\ runner'.stage \in {"record", "settle"}
    BY <2>1, RunnerFields DEF Goto, Runner
  <2>3. KeyOf(runner.item.id, runner.item) \in handed'
    <3>1. CASE Dispatch
      BY <3>1 DEF Dispatch
    <3>2. CASE DispatchFails
      BY <1>5, <3>2 DEF DispatchFails
    <3>3. CASE RecordEvent
      BY <3>3 DEF RecordEvent, At, history, WorkSound
    <3> QED BY <3>1, <3>2, <3>3
  <2>4. PICK claim \in taken : Covers(claim, runner.item)
    BY <1>1 DEF WorkSound
  <2>5. \E c \in taken' : Covers(c, runner'.item)
    BY <1>1, <2>2, <2>4
  <2> QED BY <1>1, <1>2, <1>3, <2>2, <2>3, <2>5 DEF WorkSound
<1> QED BY <1>4, <1>5

LEMMA SettleWork ==
    ASSUME SchedulerInvariant, WorkSound, SettlePlan
    PROVE  WorkSound'
<1> DEFINE id == runner.item.id
<1>t. SchedulerTypeOK
  BY DEF SchedulerInvariant
<1>1. /\ runner.stage = "settle" /\ phase = "up" /\ registrations' = registrations
      /\ NextItem /\ UNCHANGED <<phase, now>>
  BY DEF SettlePlan, At, history
<1>2. runner'.due = runner.due /\ runner.item \in Item
  BY <1>1, RunnerMoves
<1>3. runner'.stage = "next"
  BY <1>1, RunnerFields DEF NextItem, Runner
<1>4. id \in ScheduleIDs
  BY <1>2 DEF Item
<1>5. \A i \in Listed(table') : table'[i].reg = registrations[i]
  <2>1. CASE table' = table
    BY <1>1, <2>1, SameTable
  <2>2. CASE table' = [table EXCEPT ![id] = NoPlan]
    BY <1>t, <1>4, <2>2 DEF WorkSound, Listed, SchedulerTypeOK
  <2>3. ASSUME NEW t, plans[id] # NoPlan,
               table' = [table EXCEPT ![id] = RowOf([plans[id] EXCEPT !.dueAt = t])]
        PROVE  \A i \in Listed(table') : table'[i].reg = registrations[i]
    <3>1. plans[id] \in Entry /\ plans[id].reg = table[id].reg /\ id \in Listed(table)
      BY <1>1, <1>4, <2>3, Serving DEF Listed
    <3>2. RowOf([plans[id] EXCEPT !.dueAt = t]).reg = registrations[id]
      BY <3>1 DEF RowOf, Entry, WorkSound
    <3> QED BY <1>t, <1>4, <2>3, <3>2 DEF WorkSound, Listed, SchedulerTypeOK
  <2> QED BY <2>1, <2>2, <2>3 DEF SettlePlan, savePlan, deletePlan
<1> QED BY <1>1, <1>2, <1>3, <1>5, RunnerIdles

LEMMA RecoverRowWork ==
    ASSUME SchedulerInvariant, WorkSound, SchedulerInvariant',
           NEW id \in ScheduleIDs, RecoverRow(id)
    PROVE  WorkSound'
<1>t. SchedulerTypeOK /\ SchedulerTypeOK'
  BY DEF SchedulerInvariant
<1>1. /\ runner' = runner /\ taken' = taken /\ handed' = handed
      /\ registrations' = registrations
      /\ table' = [table EXCEPT ![id] = Recovered(table[id])]
      /\ id \in unread /\ phase = "restoring"
  BY DEF RecoverRow, memory, history
<1>2. id \in Listed(table) /\ table[id] \in Row
  BY <1>t, <1>1 DEF SchedulerInvariant, SchedulerTypeOK, RestoredMatchesTable, Listed
<1>3. Recovered(table[id]).reg = table[id].reg
  BY <1>2 DEF Recovered, Row
<1>4. \A i \in Listed(table') : table'[i].reg = registrations'[i]
  BY <1>t, <1>1, <1>2, <1>3 DEF WorkSound, Listed, SchedulerTypeOK
<1>5. \A i \in ScheduleIDs : registrations'[i] >= registrations[i]
  BY <1>t, <1>1 DEF SchedulerTypeOK
<1> QED BY <1>t, <1>1, <1>4, <1>5, RunnerRests

LEMMA WorkKeeps ==
    ASSUME SchedulerInvariant, WorkSound, [SchedulerNext]_vars
    PROVE  WorkSound'
<1>i. SchedulerInvariant'
  BY SchedulerKeeps
<1>t. SchedulerTypeOK
  BY DEF SchedulerInvariant
<1>1. CASE \E id \in ScheduleIDs, plan \in Plans : Register(id, plan)
  BY <1>i, <1>1, RegisterWork
<1>2. CASE \E id \in ScheduleIDs : Cancel(id)
  BY <1>i, <1>2, CancelWork
<1>3. CASE runDuePlans \/ Dispatch \/ DispatchFails \/ RecordEvent \/ SettlePlan
  BY <1>3, RunDuePlansWork, DispatchWork, SettleWork
<1>4. CASE \E item \in runner.due : claimDuePlan(item) \/ SkipPlan(item)
  BY <1>4, ClaimWork, SkipWork
<1>5. CASE EndRun \/ Crash
  <2>1. runner' = Resting /\ table' = table /\ registrations' = registrations
    BY <1>5 DEF EndRun, Crash, store, history
  <2>2. runner'.stage = "waiting" /\ runner'.due = {}
    BY <2>1 DEF Resting
  <2> QED BY <2>1, <2>2, SameTable, RunnerIdles
<1>6. CASE \E id \in ScheduleIDs : RecoverRow(id)
  BY <1>i, <1>6, RecoverRowWork
<1>7. CASE BeginRestore \/ EndRestore \/ Tick \/ UNCHANGED vars
  <2>1. /\ runner' = runner /\ taken' = taken /\ handed' = handed
        /\ table' = table /\ registrations' = registrations
    BY <1>7 DEF BeginRestore, EndRestore, Tick, vars, memory, store, history
  <2> QED BY <2>1 DEF WorkSound, Listed, Covers, KeyOf
<1> QED BY <1>1, <1>2, <1>3, <1>4, <1>5, <1>6, <1>7 DEF SchedulerNext, RunnerStep, Restart

LEMMA WorkStarts == SchedulerInit => WorkSound
<1> SUFFICES ASSUME SchedulerInit PROVE WorkSound
  OBVIOUS
<1>1. runner.stage = "waiting" /\ runner.due = {}
  BY DEF SchedulerInit, Resting
<1>2. \A id \in Listed(table) : table[id].reg = registrations[id]
  BY DEF SchedulerInit, Listed
<1> QED BY <1>1, <1>2 DEF WorkSound

-----------------------------------------------------------------------------
(* The agenda: every step of the scheduler is one of its steps, or none *)

\* Work, hidden behind a row, that the agenda does not see.
LEMMA SameStandings ==
    ASSUME table' = table
    PROVE  Standings' = Standings
BY DEF Standings, Standing

LEMMA StandingsChange ==
    ASSUME SchedulerTypeOK, NEW id \in ScheduleIDs, NEW row,
           table' = [table EXCEPT ![id] = row]
    PROVE  Standings' = [Standings EXCEPT ![id] = Standing(row)]
BY DEF Standings, SchedulerTypeOK, Standing, restoredScheduleDueAt, nextCronDue

\* A row stands as what it says, and a row without a time as Restore reads it.
LEMMA StandingRow ==
    ASSUME SchedulerTypeOK, NEW row \in Row
    PROVE  /\ Standing(row) \in Entry /\ Standing(row) # NoPlan
           /\ Standing(row).plan = row.plan /\ Standing(row).reg = row.reg
           /\ row.dueAt # Missing => Standing(row).dueAt = row.dueAt
<1>1. row # NoPlan
  BY SentinelsAssumption DEF SentinelsAssumption
<1>2. restoredScheduleDueAt(row.plan) \in Nat
  BY DueTimes DEF Row, SchedulerTypeOK
<1>3. Standing(row) \in Entry
  BY <1>1, <1>2 DEF Standing, Entry, Row
<1>4. Standing(row) # NoPlan
  BY <1>3, SentinelsAssumption DEF SentinelsAssumption
<1> QED BY <1>1, <1>3, <1>4 DEF Standing

\* The agenda of a process that serves is the table, field by field.
LEMMA StandingPlan ==
    ASSUME SchedulerInvariant, phase = "up", NEW id \in ScheduleIDs
    PROVE  /\ table[id] # NoPlan =>
                 /\ Standings[id] # NoPlan
                 /\ Standings[id].plan = table[id].plan
                 /\ Standings[id].reg = table[id].reg
                 /\ Standings[id].dueAt = table[id].dueAt
           /\ table[id] = NoPlan => Standings[id] = NoPlan
<1>1. CASE table[id] # NoPlan
  <2>1. table[id] \in Row /\ table[id].dueAt \in Nat
    BY <1>1, Serving
  <2>2. table[id].dueAt # Missing
    BY <2>1 DEF Missing
  <2> QED BY <1>1, <2>1, <2>2, StandingRow DEF Standings, SchedulerInvariant
<1>2. CASE table[id] = NoPlan
  BY <1>2 DEF Standings, Standing
<1> QED BY <1>1, <1>2

LEMMA RegisterEnters ==
    ASSUME SchedulerInvariant, NEW id \in ScheduleIDs, NEW plan \in Plans, Register(id, plan)
    PROVE  Promise!Enter(id, plan)
<1> DEFINE entry == [plan |-> plan, reg |-> registrations[id] + 1, dueAt |-> dueAtForPlan(plan)]
<1>t. SchedulerTypeOK
  BY DEF SchedulerInvariant
<1>1. /\ phase = "up" /\ now' = now /\ table[id] = NoPlan
      /\ table' = [table EXCEPT ![id] = RowOf(entry)]
      /\ registrations' = [registrations EXCEPT ![id] = @ + 1]
      /\ taken' = taken /\ handed' = handed /\ withdrawn' = withdrawn
  BY DEF Register, savePlan
<1>2. entry \in Entry
  BY <1>t, DueTimes DEF Entry, SchedulerTypeOK
<1>3. RowOf(entry) \in Row /\ RowOf(entry) # NoPlan /\ RowOf(entry).dueAt # Missing
  BY <1>2, SavedRow DEF Entry, Missing
<1>4. Standing(RowOf(entry)) = entry
  BY <1>2, <1>3 DEF Standing, RowOf, Entry
<1>5. entry = Promise!Entered(plan, registrations[id] + 1, now)
  BY DEF Promise!Entered, Promise!DueAt, dueAtForPlan, nextCronDue
<1>6. Standings' = [Standings EXCEPT ![id] = Standing(RowOf(entry))]
  BY <1>t, <1>1, StandingsChange
<1>7. id \notin Promise!Planned
  BY <1>1, StandingPlan DEF Promise!Planned
<1> HIDE DEF entry
<1> QED BY <1>1, <1>4, <1>5, <1>6, <1>7 DEF Promise!Enter

LEMMA CancelWithdraws ==
    ASSUME SchedulerInvariant, NEW id \in ScheduleIDs, Cancel(id)
    PROVE  Promise!Withdraw(id)
<1>t. SchedulerTypeOK
  BY DEF SchedulerInvariant
<1>1. /\ phase = "up" /\ now' = now /\ table[id] # NoPlan
      /\ table' = [table EXCEPT ![id] = NoPlan]
      /\ registrations' = registrations /\ taken' = taken /\ handed' = handed
      /\ withdrawn' = IF now < table[id].dueAt THEN withdrawn \cup {KeyOf(id, table[id])}
                                               ELSE withdrawn
  BY DEF Cancel, deletePlan
<1>2. /\ Standings[id] # NoPlan /\ Standings[id].reg = table[id].reg
      /\ Standings[id].dueAt = table[id].dueAt
  BY <1>1, StandingPlan
<1>3. Standings' = [Standings EXCEPT ![id] = NoPlan]
  BY <1>t, <1>1, StandingsChange DEF Standing
<1>4. Promise!Firing(id) = KeyOf(id, table[id])
  BY <1>2 DEF Promise!Firing, KeyOf
<1> QED BY <1>1, <1>2, <1>3, <1>4 DEF Promise!Withdraw, Promise!Planned

\* A claim is for a row that is due and that nobody claimed in this life.
LEMMA ClaimClaims ==
    ASSUME SchedulerInvariant, NEW item \in runner.due, claimDuePlan(item)
    PROVE  item.id \in ScheduleIDs /\ Promise!Claim(item.id)
<1> DEFINE id == item.id
<1>t. SchedulerTypeOK
  BY DEF SchedulerInvariant
<1>1. /\ phase = "up" /\ now' = now /\ table[id] # NoPlan /\ table[id].dueAt = item.dueAt
      /\ ~table[id].claimed
      /\ table' = [table EXCEPT ![id] = [table[id] EXCEPT !.claimed = TRUE]]
      /\ taken' = taken \cup {KeyOf(id, table[id])}
      /\ registrations' = registrations /\ handed' = handed /\ withdrawn' = withdrawn
  BY DEF claimDuePlan, Claimable, At
<1>2. /\ item \in Item /\ id \in ScheduleIDs /\ item.dueAt \in Nat /\ item.dueAt =< now
      /\ runner.runAt \in Nat /\ now \in Nat
  BY RunnerFields DEF Item, SchedulerInvariant, RunnerSound
<1> HIDE DEF id
<1>3. /\ Standings[id] # NoPlan /\ Standings[id].reg = table[id].reg
      /\ Standings[id].dueAt = table[id].dueAt /\ table[id] \in Row
  BY <1>1, <1>2, StandingPlan, Serving
<1>4. Promise!Firing(id) = KeyOf(id, table[id])
  BY <1>3 DEF Promise!Firing, KeyOf
<1>5. Promise!Firing(id) \notin taken
  <2>1. id \in Listed(table)
    BY <1>1, <1>2 DEF Listed
  <2>2. KeyOf(id, table[id]) \in RowKeys /\ KeyOf(id, table[id])[1] = id
    BY <2>1 DEF RowKeys, KeyOf
  <2> QED BY <1>1, <1>4, <2>2 DEF SchedulerInvariant, TakenSound
<1>6. Standings' = Standings
  <2> DEFINE row == [table[id] EXCEPT !.claimed = TRUE]
  <2>1. row # NoPlan /\ Standing(row) = Standing(table[id])
    <3>1. row \in Row /\ row.plan = table[id].plan /\ row.reg = table[id].reg
          /\ row.dueAt = table[id].dueAt
      BY <1>3 DEF Row
    <3>2. row # NoPlan
      BY <3>1, SentinelsAssumption DEF SentinelsAssumption
    <3> HIDE DEF row
    <3> QED BY <1>1, <3>1, <3>2 DEF Standing
  <2>2. Standings' = [Standings EXCEPT ![id] = Standing(row)]
    BY <1>t, <1>1, <1>2, StandingsChange
  <2> HIDE DEF row
  <2>3. Standings[id] = Standing(table[id])
    BY <1>2 DEF Standings
  <2>4. Standings = [Standings EXCEPT ![id] = Standings[id]]
    BY DEF Standings
  <2> QED BY <2>1, <2>2, <2>3, <2>4
<1> QED BY <1>1, <1>2, <1>3, <1>4, <1>5, <1>6 DEF Promise!Claim, Promise!Planned, id

\* What the runner hands out stands behind a claim of this life, for the same id
\* and time, and was not withdrawn.
LEMMA DispatchDelivers ==
    ASSUME SchedulerInvariant, WorkSound, Dispatch \/ DispatchFails
    PROVE  [\E claim \in taken : Promise!Deliver(claim)]_Promise!book
<1>1. /\ runner.stage = "dispatch" /\ phase = "up" /\ now' = now /\ table' = table
      /\ registrations' = registrations /\ taken' = taken /\ withdrawn' = withdrawn
      /\ \/ handed' = handed
         \/ handed' = handed \cup {KeyOf(runner.item.id, runner.item)}
  BY DEF Dispatch, DispatchFails, At, store
<1>2. Standings' = Standings
  BY <1>1, SameStandings
<1>3. runner.item \in Item /\ KeyOf(runner.item.id, runner.item) \notin withdrawn
  BY <1>1, RunnerFields DEF SchedulerInvariant, RunnerSound, WithdrawnSound
<1>4. PICK claim \in taken : Covers(claim, runner.item)
  BY <1>1 DEF WorkSound
<1>5. KeyOf(runner.item.id, runner.item) \in Promise!StandsFor(claim)
  <2>1. claim \in Key
    BY <1>4 DEF SchedulerInvariant, SchedulerTypeOK
  <2>2. runner.item.reg \in 0 .. claim[2]
    BY <1>3, <1>4, <2>1 DEF Covers, Item, Key
  <2> QED BY <1>4, <2>2 DEF Covers, KeyOf, Promise!StandsFor
<1>6. CASE handed' = handed
  BY <1>1, <1>2, <1>6 DEF Promise!book
<1>7. CASE handed' = handed \cup {KeyOf(runner.item.id, runner.item)}
  BY <1>1, <1>2, <1>3, <1>4, <1>5, <1>7 DEF Promise!Deliver
<1> QED BY <1>1, <1>6, <1>7

LEMMA SettleSettles ==
    ASSUME SchedulerInvariant, WorkSound, SettlePlan
    PROVE  [\E claim \in taken : Promise!Settle(claim)]_Promise!book
<1> DEFINE id == runner.item.id
           plan == plans[id].plan
<1>t. SchedulerTypeOK
  BY DEF SchedulerInvariant
<1>1. /\ runner.stage = "settle" /\ phase = "up" /\ now' = now
      /\ registrations' = registrations /\ taken' = taken /\ handed' = handed
      /\ withdrawn' = withdrawn /\ NextItem
  BY DEF SettlePlan, At, history
<1>2. runner.item \in Item /\ id \in ScheduleIDs /\ runner.item.dueAt =< runner.runAt
  BY <1>1, RunnerFields DEF SchedulerInvariant, RunnerSound, Item
<1>3. PICK claim \in taken : Covers(claim, runner.item)
  BY <1>1 DEF WorkSound
<1>4. claim \in Key /\ claim[1] = id /\ claim[3] = runner.item.dueAt
  BY <1>3 DEF SchedulerInvariant, SchedulerTypeOK, Covers
<1>5. Promise!StandsFor(claim) \cap handed # {}
  <2>1. runner.item.reg \in 0 .. claim[2]
    BY <1>2, <1>3, <1>4 DEF Covers, Item, Key
  <2>2. KeyOf(id, runner.item) \in Promise!StandsFor(claim)
    BY <1>4, <2>1 DEF KeyOf, Promise!StandsFor
  <2> QED BY <1>1, <2>2 DEF WorkSound
<1>6. CASE table' = table
  BY <1>1, <1>6, SameStandings DEF Promise!book
<1>7. ASSUME plans[id] # NoPlan, plan.kind # "cron", table' = [table EXCEPT ![id] = NoPlan]
      PROVE  Promise!Settle(claim)
  <2>1. table[id] # NoPlan /\ plan = table[id].plan
    <3>1. table[id] # NoPlan /\ plans[id] = EntryOf(table[id])
      BY <1>1, <1>2, <1>7, Serving
    <3> QED BY <3>1 DEF EntryOf
  <2>2. Standings[id] # NoPlan /\ Standings[id].plan = plan
    BY <1>1, <1>2, <2>1, StandingPlan
  <2>3. Standings' = [Standings EXCEPT ![id] = NoPlan]
    BY <1>t, <1>2, <1>7, StandingsChange DEF Standing
  <2> QED BY <1>1, <1>2, <1>4, <1>5, <1>7, <2>2, <2>3 DEF Promise!Settle, Promise!Planned
<1>8. ASSUME plans[id] # NoPlan, plan.kind = "cron",
             savePlan(id, [plans[id] EXCEPT
                 !.dueAt = nextCronDue(plan.at, runner.item.dueAt, runner.runAt)])
      PROVE  Promise!Settle(claim)
  <2> DEFINE next == nextCronDue(plan.at, runner.item.dueAt, runner.runAt)
             entry == [plans[id] EXCEPT !.dueAt = next]
  <2>1. /\ table[id] # NoPlan /\ table[id] \in Row /\ plans[id] = EntryOf(table[id])
        /\ plans[id] \in Entry /\ plan = table[id].plan
    BY <1>1, <1>2, <1>8, Serving DEF EntryOf
  <2>2. /\ Standings[id] # NoPlan /\ Standings[id].plan = plan
        /\ Standings[id] = Standing(table[id])
    BY <1>1, <1>2, <2>1, StandingPlan DEF Standings
  <2>3. PICK t \in runner.item.dueAt .. now : next = CronNext(plan.at, t)
    <3>1. runner.item.dueAt \in Nat /\ runner.runAt \in Nat /\ now \in Nat
          /\ runner.runAt =< now
      BY <1>2, RunnerFields DEF Item
    <3>2. CASE runner.item.dueAt > runner.runAt
      BY <1>2, <3>1, <3>2
    <3>3. CASE ~(runner.item.dueAt > runner.runAt)
      BY <1>2, <3>1, <3>3 DEF nextCronDue
    <3> QED BY <3>2, <3>3
  <2>4. next \in Nat
    BY <1>2, <1>8, <2>1, RunnerFields, NextSlot, LimitsAssumption
       DEF LimitsAssumption, Item, Entry
  <2> HIDE DEF next
  <2>5. entry \in Entry /\ entry.dueAt = next /\ entry.plan = plan /\ entry.reg = plans[id].reg
    BY <2>1, <2>4 DEF Entry
  <2>6. table' = [table EXCEPT ![id] = RowOf(entry)]
    BY <1>8 DEF savePlan, next
  <2> HIDE DEF entry
  <2>7. RowOf(entry) \in Row /\ RowOf(entry) # NoPlan /\ RowOf(entry).dueAt # Missing
    BY <2>4, <2>5, SavedRow DEF Entry, Missing
  <2>8. Standings' = [Standings EXCEPT ![id] = Standing(RowOf(entry))]
    BY <1>t, <1>2, <2>6, StandingsChange
  <2>9. Standing(RowOf(entry)) = [Standings[id] EXCEPT !.dueAt = next]
    <3>1. Standing(RowOf(entry)) = [plan |-> plan, reg |-> plans[id].reg, dueAt |-> next]
      BY <2>5, <2>7 DEF Standing, RowOf
    <3>2. table[id].dueAt # Missing /\ plans[id].reg = table[id].reg
      BY <1>1, <1>2, <2>1, Serving DEF Missing
    <3>3. Standings[id] = [plan |-> plan, reg |-> plans[id].reg, dueAt |-> table[id].dueAt]
      BY <2>1, <2>2, <3>2 DEF Standing
    <3> QED BY <3>1, <3>3
  <2>10. Standings' = [Standings EXCEPT ![id].dueAt = CronNext(plan.at, t)]
    BY <2>3, <2>8, <2>9
  <2> QED BY <1>1, <1>2, <1>4, <1>5, <1>8, <2>2, <2>3, <2>10
          DEF Promise!Settle, Promise!Planned
<1> QED BY <1>3, <1>6, <1>7, <1>8 DEF SettlePlan, deletePlan

\* Restore writes a row as the agenda already reads it.
LEMMA RecoverRowHidden ==
    ASSUME SchedulerInvariant, NEW id \in ScheduleIDs, RecoverRow(id)
    PROVE  UNCHANGED Promise!book
<1> DEFINE row == Recovered(table[id])
<1>t. SchedulerTypeOK
  BY DEF SchedulerInvariant
<1>1. /\ phase = "restoring" /\ id \in unread /\ now' = now
      /\ table' = [table EXCEPT ![id] = row]
      /\ registrations' = registrations /\ taken' = taken /\ handed' = handed
      /\ withdrawn' = withdrawn
  BY DEF RecoverRow, memory, history
<1>2. table[id] # NoPlan /\ table[id] \in Row
  BY <1>t, <1>1 DEF SchedulerInvariant, SchedulerTypeOK, RestoredMatchesTable, Listed
<1>3. table[id].claimed => table[id].dueAt # Missing /\ table[id].dueAt =< restoreAt
  BY <1>1, <1>2 DEF SchedulerInvariant, ClaimsAreDue, Listed
<1>4. row \in Row /\ row.dueAt # Missing
  BY <1>t, <1>2, <1>3, RecoveredRow DEF SchedulerTypeOK
<1>5. /\ row.plan = table[id].plan /\ row.reg = table[id].reg
      /\ row.dueAt = IF table[id].dueAt = Missing THEN restoredScheduleDueAt(table[id].plan)
                                                  ELSE table[id].dueAt
  BY <1>2 DEF Recovered, Row
<1> HIDE DEF row
<1>6. Standing(row) = Standing(table[id])
  <2>1. row # NoPlan
    BY <1>4, SentinelsAssumption DEF SentinelsAssumption
  <2> QED BY <1>2, <1>4, <1>5, <2>1 DEF Standing
<1>7. Standings' = [Standings EXCEPT ![id] = Standing(row)]
  BY <1>t, <1>1, StandingsChange
<1>8. Standings = [Standings EXCEPT ![id] = Standing(table[id])]
  BY DEF Standings
<1> QED BY <1>1, <1>6, <1>7, <1>8 DEF Promise!book

LEMMA StepImplemented ==
    ASSUME SchedulerInvariant, WorkSound, [SchedulerNext]_vars
    PROVE  [Promise!AgendaNext]_Promise!book
<1>1. CASE \E id \in ScheduleIDs, plan \in Plans : Register(id, plan)
  BY <1>1, RegisterEnters DEF Promise!AgendaNext
<1>2. CASE \E id \in ScheduleIDs : Cancel(id)
  BY <1>2, CancelWithdraws DEF Promise!AgendaNext
<1>3. CASE \E item \in runner.due : claimDuePlan(item)
  BY <1>3, ClaimClaims DEF Promise!AgendaNext
<1>4. CASE Dispatch \/ DispatchFails
  BY <1>4, DispatchDelivers DEF Promise!AgendaNext
<1>5. CASE SettlePlan
  BY <1>5, SettleSettles DEF Promise!AgendaNext
<1>6. CASE \E id \in ScheduleIDs : RecoverRow(id)
  BY <1>6, RecoverRowHidden
<1>7. CASE Crash
  <2>1. Standings' = Standings
    BY <1>7, SameStandings DEF Crash, store
  <2> QED BY <1>7, <2>1 DEF Crash, store, Promise!AgendaNext, Promise!Forget
<1>8. CASE Tick
  <2>1. Standings' = Standings
    BY <1>8, SameStandings DEF Tick, store
  <2> QED BY <1>8, <2>1 DEF Tick, history, Promise!AgendaNext, Promise!Pass
<1>9. CASE \/ runDuePlans \/ EndRun \/ RecordEvent \/ BeginRestore \/ EndRestore
           \/ UNCHANGED vars \/ \E item \in runner.due : SkipPlan(item)
  <2>1. /\ table' = table /\ now' = now /\ registrations' = registrations /\ taken' = taken
        /\ handed' = handed /\ withdrawn' = withdrawn
    BY <1>9 DEF runDuePlans, EndRun, RecordEvent, BeginRestore, EndRestore, SkipPlan, vars,
                store, history
  <2> QED BY <2>1, SameStandings DEF Promise!book
<1> QED BY <1>1, <1>2, <1>3, <1>4, <1>5, <1>6, <1>7, <1>8, <1>9
        DEF SchedulerNext, RunnerStep, Restart

\* A table an earlier release left reads as plans entered when time began.
LEMMA AgendaStarts == SchedulerInit => Promise!AgendaInit
<1> SUFFICES ASSUME SchedulerInit PROVE Promise!AgendaInit
  OBVIOUS
<1>1. ASSUME NEW id \in ScheduleIDs, table[id] # NoPlan
      PROVE  \E plan \in Plans : Standing(table[id]) = Promise!Entered(plan, 0, 0)
  <2>1. /\ table[id].plan \in Plans /\ table[id].reg = 0 /\ table[id].dueAt = Missing
    BY <1>1 DEF SchedulerInit
  <2>2. Standing(table[id])
          = [plan |-> table[id].plan, reg |-> 0,
             dueAt |-> restoredScheduleDueAt(table[id].plan)]
    BY <1>1, <2>1 DEF Standing
  <2>3. table[id].plan.kind \in Kinds /\ table[id].plan.at \in Nat
    BY <2>1, PlansAssumption DEF PlansAssumption, Plan
  <2>4. restoredScheduleDueAt(table[id].plan) = Promise!DueAt(table[id].plan, 0)
    BY <2>3 DEF restoredScheduleDueAt, nextCronDue, Promise!DueAt, Kinds
  <2> QED BY <2>1, <2>2, <2>4 DEF Promise!Entered
<1>2. Standings \in [ScheduleIDs ->
                        {Promise!Entered(plan, 0, 0) : plan \in Plans} \cup {NoPlan}]
  BY <1>1 DEF Standings, Standing
<1> QED BY <1>2 DEF SchedulerInit, Promise!AgendaInit

\* The scheduler implements the agenda: whatever the clients, the runner with
\* its old snapshots, refused writes and restarts do, a plan keeps its place and
\* time until it is withdrawn or a delivery of its id settles it, only what is
\* due is claimed and only what is claimed is delivered.
THEOREM SchedulerImplementsAgenda == SchedulerSpec => ImplementsAgenda
<1>1. SchedulerInit => SchedulerInvariant /\ WorkSound
  BY SchedulerStarts, WorkStarts
<1>2. SchedulerInvariant /\ WorkSound /\ [SchedulerNext]_vars => (SchedulerInvariant /\ WorkSound)'
  BY SchedulerKeeps, WorkKeeps
<1>3. SchedulerInvariant /\ WorkSound /\ [SchedulerNext]_vars => [Promise!AgendaNext]_Promise!book
  BY StepImplemented
<1> QED BY <1>1, <1>2, <1>3, AgendaStarts, PTL
        DEF SchedulerSpec, ImplementsAgenda, Promise!AgendaSpec

-----------------------------------------------------------------------------
(* Why a plan can be lost                                                    *)
(*                                                                           *)
(* RemovedOnlyAfterDispatch does not hold: the runner settles whatever plan  *)
(* has the id it dispatched.  That is all there is to it: as long as nobody  *)
(* registers a plan under an id the runner holds, no plan is ever removed    *)
(* that was neither dispatched nor cancelled, whatever fails.                *)

Held(id) ==
    \/ \E item \in runner.due : item.id = id
    \/ runner.item # NoItem /\ runner.item.id = id

Patient == \A id \in ScheduleIDs : registrations'[id] # registrations[id] => ~Held(id)

PatientNext == SchedulerNext /\ Patient

\* The scheduler with clients that register no id the runner holds.
PatientSpec == SchedulerInit /\ [][PatientNext]_vars

PatienceSound ==
    /\ \A item \in runner.due : item.reg = registrations[item.id]
    /\ runner.item # NoItem => runner.item.reg = registrations[runner.item.id]
    /\ runner.stage \in {"record", "settle"} =>
          <<runner.item.id, runner.item.reg>> \in accounted

\* Steps that give no id a new plan and hand the runner nothing new.
LEMMA PatienceKept ==
    ASSUME SchedulerInvariant, PatienceSound, registrations' = registrations,
           runner'.due \subseteq runner.due,
           runner'.item \in {runner.item, NoItem},
           accounted \subseteq accounted',
           runner'.stage \in {"record", "settle"} =>
              /\ runner'.item = runner.item
              /\ <<runner.item.id, runner.item.reg>> \in accounted'
    PROVE  PatienceSound'
BY DEF PatienceSound

LEMMA PatienceKeeps ==
    ASSUME SchedulerInvariant, WorkSound, PatienceSound, [PatientNext]_vars
    PROVE  PatienceSound'
<1>t. SchedulerTypeOK
  BY DEF SchedulerInvariant
<1>1. CASE \E id \in ScheduleIDs, plan \in Plans : Register(id, plan)
  <2>1. PICK id \in ScheduleIDs, plan \in Plans : Register(id, plan)
    BY <1>1
  <2>2. /\ runner' = runner /\ accounted' = accounted
        /\ registrations' = [registrations EXCEPT ![id] = @ + 1]
    BY <2>1 DEF Register
  <2>3. registrations'[id] # registrations[id]
    BY <1>t, <2>2 DEF SchedulerTypeOK
  <2>4. ~Held(id)
    <3>1. Patient
      BY <2>2, <2>3 DEF PatientNext, vars, history
    <3> QED BY <2>3, <3>1 DEF Patient
  <2>5. \A i \in ScheduleIDs : i # id => registrations'[i] = registrations[i]
    BY <1>t, <2>2 DEF SchedulerTypeOK
  <2>6. \A item \in runner.due : item.id \in ScheduleIDs /\ item.id # id
    BY <2>4, RunnerFields DEF Held, Item
  <2>7. runner.item # NoItem => runner.item.id \in ScheduleIDs /\ runner.item.id # id
    BY <2>4, RunnerFields DEF Held, Item
  <2> QED BY <2>2, <2>5, <2>6, <2>7 DEF PatienceSound
<1>2. CASE \E id \in ScheduleIDs : Cancel(id)
  <2>1. runner' = runner /\ registrations' = registrations /\ accounted \subseteq accounted'
    BY <1>2 DEF Cancel
  <2> QED BY <2>1, PatienceKept DEF PatienceSound
<1>3. CASE runDuePlans
  <2>1. /\ runner' = [stage |-> "next", due |-> DuePlans, item |-> NoItem, runAt |-> now]
        /\ phase = "up" /\ registrations' = registrations
    BY <1>3 DEF runDuePlans, Resting, At, history
  <2>2. \A item \in DuePlans : item.reg = registrations[item.id]
    <3> SUFFICES ASSUME NEW id \in Listed(plans) PROVE plans[id].reg = registrations[id]
      BY DEF DuePlans, Listed
    <3>1. id \in Listed(table) /\ plans[id].reg = table[id].reg
      BY <2>1, Serving DEF Listed
    <3> QED BY <3>1 DEF WorkSound
  <2>3. runner'.due = DuePlans /\ runner'.item = NoItem /\ runner'.stage = "next"
    BY <2>1
  <2> QED BY <2>1, <2>2, <2>3 DEF PatienceSound
<1>4. CASE \E item \in runner.due : claimDuePlan(item)
  <2>1. PICK item \in runner.due : claimDuePlan(item)
    BY <1>4
  <2>2. /\ runner' = [runner EXCEPT !.stage = "dispatch", !.item = item, !.due = @ \ {item}]
        /\ registrations' = registrations
    BY <2>1 DEF claimDuePlan
  <2>3. runner'.stage = "dispatch" /\ runner'.item = item /\ runner'.due \subseteq runner.due
    BY <2>2, RunnerFields DEF Runner
  <2> QED BY <2>2, <2>3 DEF PatienceSound
<1>5. CASE \E item \in runner.due : SkipPlan(item)
  <2>1. PICK item \in runner.due : SkipPlan(item)
    BY <1>5
  <2>2. /\ runner' = [runner EXCEPT !.due = @ \ {item}] /\ registrations' = registrations
        /\ accounted' = accounted /\ runner.stage = "next"
    BY <2>1 DEF SkipPlan, history, At
  <2>3. /\ runner'.stage = "next" /\ runner'.item = runner.item
        /\ runner'.due \subseteq runner.due
    BY <2>2, RunnerFields DEF Runner
  <2> QED BY <2>2, <2>3, PatienceKept
<1>6. CASE Dispatch \/ DispatchFails \/ RecordEvent \/ SettlePlan
  <2>1. /\ runner.stage \in {"dispatch", "record", "settle"}
        /\ NextItem \/ Goto("record") \/ Goto("settle")
        /\ registrations' = registrations /\ accounted \subseteq accounted'
    BY <1>6 DEF Dispatch, DispatchFails, RecordEvent, SettlePlan, At, history
  <2>2. CASE NextItem
    <3>1. runner'.stage = "next" /\ runner'.item = NoItem /\ runner'.due = runner.due
      BY <2>2, RunnerFields DEF NextItem, Runner
    <3> QED BY <2>1, <3>1, PatienceKept
  <2>3. CASE ~NextItem
    <3>1. /\ runner'.item = runner.item /\ runner'.due = runner.due
      BY <2>1, <2>3, RunnerFields DEF Goto, Runner
    <3>2. <<runner.item.id, runner.item.reg>> \in accounted'
      <4>1. CASE Dispatch
        BY <4>1 DEF Dispatch
      <4>2. CASE RecordEvent
        BY <4>2 DEF RecordEvent, At, history, PatienceSound
      <4> QED BY <1>6, <2>3, <4>1, <4>2 DEF DispatchFails, SettlePlan
    <3> QED BY <2>1, <3>1, <3>2, PatienceKept
  <2> QED BY <2>2, <2>3
<1>7. CASE EndRun \/ Crash
  <2>1. runner' = Resting /\ registrations' = registrations /\ accounted' = accounted
    BY <1>7 DEF EndRun, Crash, history
  <2>2. runner'.stage = "waiting" /\ runner'.due = {} /\ runner'.item = NoItem
    BY <2>1 DEF Resting
  <2> QED BY <2>1, <2>2, PatienceKept
<1>8. CASE Restart \/ Tick \/ UNCHANGED vars
  <2>1. runner' = runner /\ registrations' = registrations /\ accounted' = accounted
    BY <1>8 DEF Restart, BeginRestore, RecoverRow, EndRestore, Tick, vars, memory, history
  <2> QED BY <2>1 DEF PatienceSound
<1> QED BY <1>1, <1>2, <1>3, <1>4, <1>5, <1>6, <1>7, <1>8
        DEF PatientNext, SchedulerNext, RunnerStep

\* No row is removed and no registration added: nothing can be lost.
LEMMA NothingRemoved ==
    ASSUME RemovedOnlyAfterDispatch, registrations' = registrations,
           accounted \subseteq accounted',
           \A id \in ScheduleIDs : table[id] # NoPlan =>
              table'[id] # NoPlan /\ table'[id].reg = table[id].reg
    PROVE  RemovedOnlyAfterDispatch'
BY DEF RemovedOnlyAfterDispatch

\* The row of one id is removed, and its registration is accounted for.
LEMMA RemovedRightly ==
    ASSUME SchedulerTypeOK, RemovedOnlyAfterDispatch, registrations' = registrations,
           accounted \subseteq accounted',
           NEW id \in ScheduleIDs, table[id] # NoPlan,
           table' = [table EXCEPT ![id] = NoPlan],
           <<id, table[id].reg>> \in accounted'
    PROVE  RemovedOnlyAfterDispatch'
BY DEF RemovedOnlyAfterDispatch, SchedulerTypeOK

LEMMA LossKeeps ==
    ASSUME SchedulerInvariant, WorkSound, PatienceSound, RemovedOnlyAfterDispatch,
           [SchedulerNext]_vars
    PROVE  RemovedOnlyAfterDispatch'
<1>t. SchedulerTypeOK
  BY DEF SchedulerInvariant
<1>1. ASSUME NEW id \in ScheduleIDs, NEW plan \in Plans, Register(id, plan)
      PROVE  RemovedOnlyAfterDispatch'
  <2> DEFINE entry == [plan |-> plan, reg |-> registrations[id] + 1,
                       dueAt |-> dueAtForPlan(plan)]
  <2>1. /\ table[id] = NoPlan /\ table' = [table EXCEPT ![id] = RowOf(entry)]
        /\ registrations' = [registrations EXCEPT ![id] = @ + 1]
        /\ accounted' = accounted
    BY <1>1 DEF Register, savePlan
  <2>2. RowOf(entry).reg = registrations[id] + 1 /\ RowOf(entry) # NoPlan
    <3>1. entry \in Entry
      BY <1>t, DueTimes DEF Entry, SchedulerTypeOK
    <3> QED BY <3>1, SavedRow
  <2> HIDE DEF entry
  <2>3. ASSUME NEW reg \in 1 .. registrations'[id]
        PROVE  <<id, reg>> \in accounted' \/ (table'[id] # NoPlan /\ table'[id].reg = reg)
    <3>1. registrations[id] \in Nat /\ registrations'[id] = registrations[id] + 1
      BY <1>t, <2>1 DEF SchedulerTypeOK
    <3>2. CASE reg = registrations[id] + 1
      BY <1>t, <2>1, <2>2, <3>2 DEF SchedulerTypeOK
    <3>3. CASE reg \in 1 .. registrations[id]
      BY <2>1, <3>3 DEF RemovedOnlyAfterDispatch
    <3> QED BY <2>3, <3>1, <3>2, <3>3
  <2>4. ASSUME NEW i \in ScheduleIDs, i # id
        PROVE  registrations'[i] = registrations[i] /\ table'[i] = table[i]
    BY <1>t, <2>1, <2>4 DEF SchedulerTypeOK
  <2>5. ASSUME NEW i \in ScheduleIDs, i # id, NEW reg \in 1 .. registrations'[i]
        PROVE  <<i, reg>> \in accounted' \/ (table'[i] # NoPlan /\ table'[i].reg = reg)
    BY <2>1, <2>4, <2>5 DEF RemovedOnlyAfterDispatch
  <2>6. \A i \in ScheduleIDs : \A reg \in 1 .. registrations'[i] :
           <<i, reg>> \in accounted' \/ (table'[i] # NoPlan /\ table'[i].reg = reg)
    BY <2>3, <2>5
  <2> QED BY <2>6 DEF RemovedOnlyAfterDispatch
<1>2. ASSUME NEW id \in ScheduleIDs, Cancel(id)
      PROVE  RemovedOnlyAfterDispatch'
  BY <1>t, <1>2, RemovedRightly DEF Cancel, deletePlan
<1>3. CASE \E item \in runner.due : claimDuePlan(item)
  <2>1. PICK item \in runner.due : claimDuePlan(item)
    BY <1>3
  <2>2. /\ table[item.id] # NoPlan
        /\ table' = [table EXCEPT ![item.id] = [table[item.id] EXCEPT !.claimed = TRUE]]
        /\ registrations' = registrations /\ accounted' = accounted
    BY <2>1 DEF claimDuePlan, Claimable
  <2>3. item.id \in ScheduleIDs
    BY RunnerFields DEF Item
  <2>4. [table[item.id] EXCEPT !.claimed = TRUE] \in Row
        /\ [table[item.id] EXCEPT !.claimed = TRUE].reg = table[item.id].reg
    BY <1>t, <2>2, <2>3 DEF SchedulerTypeOK, Row
  <2>5. [table[item.id] EXCEPT !.claimed = TRUE] # NoPlan
    BY <2>4, SentinelsAssumption DEF SentinelsAssumption
  <2>6. \A id \in ScheduleIDs : table[id] # NoPlan =>
           table'[id] # NoPlan /\ table'[id].reg = table[id].reg
    BY <1>t, <2>2, <2>3, <2>4, <2>5 DEF SchedulerTypeOK
  <2> QED BY <2>2, <2>6, NothingRemoved
<1>4. CASE SettlePlan
  <2> DEFINE id == runner.item.id
  <2>1. /\ runner.stage = "settle" /\ phase = "up" /\ registrations' = registrations
        /\ accounted' = accounted
    BY <1>4 DEF SettlePlan, At, history
  <2>2. runner.item # NoItem /\ runner.item \in Item /\ id \in ScheduleIDs
    BY <2>1, RunnerFields DEF SchedulerInvariant, RunnerSound, Item
  <2>3. CASE table' = table
    BY <2>1, <2>3, NothingRemoved
  <2>4. ASSUME table[id] # NoPlan, table' = [table EXCEPT ![id] = NoPlan]
        PROVE  RemovedOnlyAfterDispatch'
    <3>1. runner.item.reg = registrations[id] /\ table[id].reg = registrations[id]
      BY <2>2, <2>4 DEF PatienceSound, WorkSound, Listed
    <3>2. <<id, table[id].reg>> \in accounted
      BY <2>1, <3>1 DEF PatienceSound
    <3> QED BY <1>t, <2>1, <2>2, <2>4, <3>2, RemovedRightly
  <2>5. ASSUME NEW t, plans[id] # NoPlan, plans[id].plan.kind = "cron",
               t = nextCronDue(plans[id].plan.at, runner.item.dueAt, runner.runAt),
               table' = [table EXCEPT ![id] = RowOf([plans[id] EXCEPT !.dueAt = t])]
        PROVE  RemovedOnlyAfterDispatch'
    <3>1. plans[id] \in Entry /\ plans[id].reg = table[id].reg
      BY <2>1, <2>2, <2>5, Serving
    <3>2. t \in Nat
      <4>1. runner.item.dueAt \in 0 .. MaxTime /\ runner.runAt \in 0 .. MaxTime
        BY <2>2, RunnerFields, LimitsAssumption
           DEF LimitsAssumption, Item, SchedulerInvariant, RunnerSound
      <4>2. plans[id].plan \in Plans
        BY <3>1 DEF Entry
      <4> QED BY <2>5, <4>1, <4>2, NextSlot
    <3>3. [plans[id] EXCEPT !.dueAt = t] \in Entry
          /\ [plans[id] EXCEPT !.dueAt = t].reg = table[id].reg
      BY <3>1, <3>2 DEF Entry
    <3>4. /\ RowOf([plans[id] EXCEPT !.dueAt = t]) # NoPlan
          /\ RowOf([plans[id] EXCEPT !.dueAt = t]).reg = table[id].reg
      BY <3>3, SavedRow
    <3>5. \A i \in ScheduleIDs : table[i] # NoPlan =>
             table'[i] # NoPlan /\ table'[i].reg = table[i].reg
      BY <1>t, <2>2, <2>5, <3>4 DEF SchedulerTypeOK
    <3> QED BY <2>1, <3>5, NothingRemoved
  <2> QED BY <1>4, <2>3, <2>4, <2>5 DEF SettlePlan, savePlan, deletePlan
<1>5. ASSUME NEW id \in ScheduleIDs, RecoverRow(id)
      PROVE  RemovedOnlyAfterDispatch'
  <2>1. /\ phase = "restoring" /\ id \in unread
        /\ table' = [table EXCEPT ![id] = Recovered(table[id])]
        /\ registrations' = registrations /\ accounted' = accounted
    BY <1>5 DEF RecoverRow, history
  <2>2. table[id] # NoPlan /\ table[id] \in Row
    BY <1>t, <2>1 DEF SchedulerInvariant, SchedulerTypeOK, RestoredMatchesTable, Listed
  <2>3. table[id].claimed => table[id].dueAt # Missing /\ table[id].dueAt =< restoreAt
    BY <2>1, <2>2 DEF SchedulerInvariant, ClaimsAreDue, Listed
  <2>4. Recovered(table[id]) \in Row /\ Recovered(table[id]).reg = table[id].reg
    BY <1>t, <2>2, <2>3, RecoveredRow DEF SchedulerTypeOK
  <2>5. Recovered(table[id]) # NoPlan
    BY <2>4, SentinelsAssumption DEF SentinelsAssumption
  <2>6. \A i \in ScheduleIDs : table[i] # NoPlan =>
           table'[i] # NoPlan /\ table'[i].reg = table[i].reg
    BY <1>t, <2>1, <2>4, <2>5 DEF SchedulerTypeOK
  <2> QED BY <2>1, <2>6, NothingRemoved
<1>6. CASE \/ runDuePlans \/ EndRun \/ Dispatch \/ DispatchFails \/ RecordEvent
           \/ BeginRestore \/ EndRestore \/ Crash \/ Tick \/ UNCHANGED vars
           \/ \E item \in runner.due : SkipPlan(item)
  <2>1. table' = table /\ registrations' = registrations /\ accounted \subseteq accounted'
    BY <1>6 DEF runDuePlans, EndRun, Dispatch, DispatchFails, RecordEvent, BeginRestore,
                EndRestore, Crash, Tick, SkipPlan, vars, store, history
  <2> QED BY <2>1, NothingRemoved
<1> QED BY <1>1, <1>2, <1>3, <1>4, <1>5, <1>6 DEF SchedulerNext, RunnerStep, Restart

\* While no client registers a plan under an id the runner holds, every plan
\* that has left the table was dispatched or cancelled.
THEOREM PatientPlansAreServed == PatientSpec => []RemovedOnlyAfterDispatch
<1> DEFINE Inv == SchedulerInvariant /\ WorkSound /\ PatienceSound /\ RemovedOnlyAfterDispatch
<1>1. SchedulerInit => Inv
  <2> SUFFICES ASSUME SchedulerInit PROVE PatienceSound /\ RemovedOnlyAfterDispatch
    BY SchedulerStarts, WorkStarts
  <2>1. runner.stage = "waiting" /\ runner.due = {} /\ runner.item = NoItem
    BY DEF SchedulerInit, Resting
  <2> QED BY <2>1 DEF SchedulerInit, PatienceSound, RemovedOnlyAfterDispatch
<1>2. Inv /\ [PatientNext]_vars => Inv'
  <2> SUFFICES ASSUME Inv, [PatientNext]_vars PROVE Inv'
    OBVIOUS
  <2>1. [SchedulerNext]_vars
    BY DEF PatientNext
  <2> QED BY <2>1, SchedulerKeeps, WorkKeeps, PatienceKeeps, LossKeeps
<1>3. Inv => RemovedOnlyAfterDispatch
  OBVIOUS
<1> QED BY <1>1, <1>2, <1>3, PTL DEF PatientSpec

=============================================================================
