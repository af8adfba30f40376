-------------------------------- MODULE Agenda --------------------------------
(***************************************************************************)
(* What the scheduler promises to those who plan with it, without memory,  *)
(* rows, snapshots, restores or refused writes: one agenda in which every  *)
(* plan stands with the time it is due until it is withdrawn or settled.   *)
(* Only what is due is claimed, once in a life of the process; only what   *)
(* is claimed is delivered, and never what was withdrawn in time; only     *)
(* what was delivered settles the plan of its id; a plan keeps its time    *)
(* until then, and a crash takes nothing but the claims.                   *)
(*                                                                         *)
(* A claim and a delivery are for an id and a time.  The scheduler may     *)
(* deliver an earlier registration than the one it claims, and settle a    *)
(* later one: what the agenda says of registrations is no more than that.  *)
(***************************************************************************)
EXTENDS Integers

CONSTANTS
    ScheduleIDs,     \* the identities of plans
    Plans,           \* the plans that may be entered
    Unplanned,       \* no plan stands under an id
    CronNext(_, _)   \* the first slot of an expression after a time

VARIABLES
    agenda,      \* id -> its plan, its registration and when it is due
    clock,
    claims,      \* the firings claimed in this life of the process
    delivered,   \* the firings ever handed out
    withdrawn,   \* the firings withdrawn before they were due
    entered      \* how often each id was entered

book == <<agenda, clock, claims, delivered, withdrawn, entered>>

Planned == {id \in ScheduleIDs : agenda[id] # Unplanned}

\* A firing: the id, the registration and the time.
Firing(id) == <<id, agenda[id].reg, agenda[id].dueAt>>

\* When a plan entered at a time is due first.
DueAt(plan, t) ==
    CASE plan.kind = "cron" -> CronNext(plan.at, t)
      [] plan.kind = "delay" -> t + plan.at
      [] plan.kind = "one-shot" -> plan.at

Entered(plan, reg, t) == [plan |-> plan, reg |-> reg, dueAt |-> DueAt(plan, t)]

AgendaInit ==
    /\ agenda \in [ScheduleIDs -> {Entered(plan, 0, 0) : plan \in Plans} \cup {Unplanned}]
    /\ clock = 0
    /\ claims = {}
    /\ delivered = {}
    /\ withdrawn = {}
    /\ entered = [id \in ScheduleIDs |-> 0]

Enter(id, plan) ==
    /\ id \notin Planned
    /\ entered' = [entered EXCEPT ![id] = @ + 1]
    /\ agenda' = [agenda EXCEPT ![id] = Entered(plan, entered[id] + 1, clock)]
    /\ UNCHANGED <<clock, claims, delivered, withdrawn>>

Withdraw(id) ==
    /\ id \in Planned
    /\ agenda' = [agenda EXCEPT ![id] = Unplanned]
    /\ withdrawn' = IF clock < agenda[id].dueAt THEN withdrawn \cup {Firing(id)} ELSE withdrawn
    /\ UNCHANGED <<clock, claims, delivered, entered>>

Claim(id) ==
    /\ id \in Planned
    /\ agenda[id].dueAt =< clock
    /\ Firing(id) \notin claims
    /\ claims' = claims \cup {Firing(id)}
    /\ UNCHANGED <<agenda, clock, delivered, withdrawn, entered>>

\* The firings a claim may stand for: its own, or one of the same id and time
\* whose plan was replaced under the claimant's hands.
StandsFor(claim) == {<<claim[1], reg, claim[3]>> : reg \in 0 .. claim[2]}

Deliver(claim) ==
    /\ \E firing \in StandsFor(claim) \ withdrawn : delivered' = delivered \cup {firing}
    /\ UNCHANGED <<agenda, clock, claims, withdrawn, entered>>

\* The plan that has the id is over, or waits for a slot after what was delivered.
Settle(claim) ==
    LET id == claim[1]
        plan == agenda[id].plan
    IN  /\ StandsFor(claim) \cap delivered # {}
        /\ id \in Planned
        /\ \/ /\ plan.kind = "cron"
              /\ \E t \in claim[3] .. clock :
                    agenda' = [agenda EXCEPT ![id].dueAt = CronNext(plan.at, t)]
           \/ /\ plan.kind # "cron"
              /\ agenda' = [agenda EXCEPT ![id] = Unplanned]
        /\ UNCHANGED <<clock, claims, delivered, withdrawn, entered>>

Forget == claims' = {} /\ UNCHANGED <<agenda, clock, delivered, withdrawn, entered>>

Pass == clock' = clock + 1 /\ UNCHANGED <<agenda, claims, delivered, withdrawn, entered>>

AgendaNext ==
    \/ \E id \in ScheduleIDs, plan \in Plans : Enter(id, plan)
    \/ \E id \in ScheduleIDs : Withdraw(id) \/ Claim(id)
    \/ \E claim \in claims : Deliver(claim) \/ Settle(claim)
    \/ Forget
    \/ Pass

AgendaSpec == AgendaInit /\ [][AgendaNext]_book
=============================================================================
