----------------------------- MODULE MCScheduler -----------------------------
(* Plans of every kind, due within a few ticks. *)
EXTENDS Scheduler, TLC

CONSTANTS s1, s2

MCScheduleIDs == {s1, s2}
MCOneID == {s1}
MCPlans == {[kind |-> "cron", at |-> 1], [kind |-> "delay", at |-> 1],
            [kind |-> "one-shot", at |-> 1]}
MCOnePlan == {[kind |-> "one-shot", at |-> 1]}

\* A cron expression with a slot every `at` ticks.
MCCronNext(at, t) == ((t \div at) + 1) * at
=============================================================================
