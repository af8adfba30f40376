------------------------------ MODULE JobLedger ------------------------------
(***************************************************************************)
(* What the job queue promises to its clients, without memory, store,      *)
(* clock, leases, reason codes or the process: every accepted job stands   *)
(* in one durable place, is charged for the retries it uses and never for  *)
(* more than its budget, and is buried, with an alarm, only when the       *)
(* budget is spent.  JobQueue implements this ledger.                      *)
(***************************************************************************)
EXTENDS Naturals

CONSTANTS
    JobIDs,   \* the identities of jobs
    Budgets   \* the retry budgets a job may be accepted with

VARIABLES
    place,    \* where each job stands
    used,     \* the retries it has been charged
    budget,   \* the retries it may be charged
    alarms    \* the buried jobs an operator is told about

ledger == <<place, used, budget, alarms>>

Places == {"absent", "waiting", "running", "held", "finished", "dropped",
           "buried"}

LedgerInit ==
    /\ place = [id \in JobIDs |-> "absent"]
    /\ used = [id \in JobIDs |-> 0]
    /\ budget = [id \in JobIDs |-> 0]
    /\ alarms = {}

Move(id, from, to) ==
    /\ place[id] \in from
    /\ place' = [place EXCEPT ![id] = to]

Accept(id, b) ==
    /\ Move(id, {"absent"}, "waiting")
    /\ budget' = [budget EXCEPT ![id] = b]
    /\ UNCHANGED <<used, alarms>>

Start(id) == Move(id, {"waiting"}, "running") /\ UNCHANGED <<used, budget, alarms>>

Hold(id) == Move(id, {"waiting"}, "held") /\ UNCHANGED <<used, budget, alarms>>

Release(id) == Move(id, {"held"}, "waiting") /\ UNCHANGED <<used, budget, alarms>>

Finish(id) == Move(id, {"running"}, "finished") /\ UNCHANGED <<used, budget, alarms>>

\* A job given up before it ran.
Drop(id) == Move(id, {"waiting"}, "dropped") /\ UNCHANGED <<used, budget, alarms>>

\* A run that failed, or was lost with the process, is charged.
Requeue(id) ==
    /\ used[id] < budget[id]
    /\ Move(id, {"running"}, "waiting")
    /\ used' = [used EXCEPT ![id] = @ + 1]
    /\ UNCHANGED <<budget, alarms>>

Bury(id) ==
    /\ used[id] = budget[id]
    /\ Move(id, {"running", "waiting"}, "buried")
    /\ alarms' = alarms \cup {id}
    /\ UNCHANGED <<used, budget>>

Exhume(id) ==
    /\ Move(id, {"buried"}, "waiting")
    /\ alarms' = alarms \ {id}
    /\ UNCHANGED <<used, budget>>

LedgerNext ==
    \E id \in JobIDs :
        \/ \E b \in Budgets : Accept(id, b)
        \/ Start(id) \/ Hold(id) \/ Release(id)
        \/ Finish(id) \/ Drop(id)
        \/ Requeue(id) \/ Bury(id) \/ Exhume(id)

LedgerSpec == LedgerInit /\ [][LedgerNext]_ledger
=============================================================================
