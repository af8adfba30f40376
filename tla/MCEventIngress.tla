---------------------------- MODULE MCEventIngress ----------------------------
(* Two plugins, one of which declares the permission, and two requests at a time. *)
EXTENDS EventIngress, TLC

CONSTANTS p1, p2, m1, c1, c2

MCOrder == <<p1, p2>>
MCHandles == (p1 :> {"event", "job"}) @@ (p2 :> {"event", "command", "schedule"})
MCDeclares == (p1 :> FALSE) @@ (p2 :> TRUE)
MCScopes == (p1 :> {"onebot", "webhook"}) @@ (p2 :> {})
MCMessageIDs == {m1}

MCMessages == {[adapter |-> "onebot", id |-> m1, restricted |-> FALSE, tagged |-> FALSE],
               [adapter |-> "schedule", id |-> m1, restricted |-> FALSE, tagged |-> FALSE],
               [adapter |-> "webhook", id |-> NoID, restricted |-> TRUE, tagged |-> TRUE],
               [adapter |-> "demo", id |-> NoID, restricted |-> FALSE, tagged |-> FALSE]}
MCDirect == {[kind |-> "job", target |-> p1, restricted |-> FALSE],
             [kind |-> "command", target |-> p1, restricted |-> TRUE],
             [kind |-> "schedule", target |-> NoPlugin, restricted |-> FALSE]}
MCGrantings == {NoSnapshot, {p1}}

MCCallerSymmetry == Permutations(Callers)
=============================================================================
