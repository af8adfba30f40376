---------------------------- MODULE MCControlPlane ----------------------------
(* A plugin and plugin-admin, three builds of which two agree, an operator who *)
(* may do everything under one configuration and rollouts under the other.       *)
EXTENDS ControlPlane, TLC

CONSTANTS echo, admin, job, op, keeper, b1, b2, b3, v0, v1, c1, c2

MCContract == (b1 :> v0) @@ (b2 :> v0) @@ (b3 :> v1)

MCGrants(permissions) ==
    [roles |-> (op :> {keeper}),
     policies |-> (keeper :> [permissions |-> permissions, scope |-> {echo, admin, job}])]
MCConfigurations == {MCGrants(Permissions), MCGrants({"plugin:rollout"})}
MCReleases == {<<b1, MCGrants(Permissions)>>, <<b2, MCGrants({"plugin:rollout"})>>,
               <<b3, MCGrants(Permissions)>>}

MCRequest(action, target) == [action |-> action, actor |-> op, target |-> target]
\* activate enables as enable does.
MCRequests == {MCRequest(a, echo) : a \in Commands \ {"enable"}}
                  \cup {MCRequest("disable", admin), MCRequest("operate", job)}

MCSymmetry == Permutations(Calls)
=============================================================================
