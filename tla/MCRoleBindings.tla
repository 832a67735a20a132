--------------------------- MODULE MCRoleBindings ---------------------------
(***************************************************************************)
(* Small instances of RoleBindings for TLC: one organization with one      *)
(* project and one environment, and of each system role (defaultRoles) the *)
(* permissions that matter to the guards.                                  *)
(***************************************************************************)
EXTENDS RoleBindings, TLC

CONSTANTS c1, c2, w1, w2, w3, w4, ann, bob, cid

TwoCalls == {c1, c2}
ThreeRows == {w1, w2, w3}
FourRows == {w1, w2, w3, w4}
ThreeUsers == {ann, bob, cid}

P(resource, action) == [resource |-> resource, action |-> action]

\* "env_deleter" and "role_keeper" stand for roles made with CreateRole: an
\* environment administrator covers the actions of the first only.
MCRolePermissions ==
  [platform_admin    |-> {P("org", "update"), P("env", "delete"),
                          P("folder", "delete"), P("rbac", "role:manage"),
                          P("rbac", "binding:manage")},
   org_owner         |-> {P("org", "update"), P("env", "delete"),
                          P("folder", "delete"), P("rbac", "role:manage"),
                          P("rbac", "binding:manage")},
   project_admin     |-> {P("project", "update"), P("env", "delete"),
                          P("rbac", "role:manage"),
                          P("rbac", "binding:manage")},
   environment_admin |-> {P("env", "update"), P("folder", "delete"),
                          P("rbac", "binding:manage")},
   env_deleter       |-> {P("env", "delete"), P("env", "read")},
   role_keeper       |-> {P("rbac", "role:manage"), P("env", "read")}]

MCRoleScope ==
  [platform_admin |-> "global", org_owner |-> "organization",
   project_admin |-> "project", environment_admin |-> "environment",
   env_deleter |-> "environment", role_keeper |-> "environment"]

MCScopeType == [all |-> "global", org |-> "organization",
                proj |-> "project", env |-> "environment"]
MCChain == [all |-> {"all"}, org |-> {"org", "all"},
            proj |-> {"proj", "org", "all"},
            env |-> {"env", "proj", "org", "all"}]

OwnerRoles == {"platform_admin", "org_owner"}
OwnerPermissions == [r \in OwnerRoles |-> MCRolePermissions[r]]
OwnerScopes == {"all", "org"}
OwnerRoleScope == [r \in OwnerRoles |-> MCRoleScope[r]]
OwnerScopeType == [s \in OwnerScopes |-> MCScopeType[s]]
OwnerChain == [s \in OwnerScopes |-> MCChain[s]]
EnvRoles == {"environment_admin", "role_keeper"}
EnvPermissions == [r \in EnvRoles |-> MCRolePermissions[r]]
EnvScopes == {"proj", "env"}
EnvRoleScope == [r \in EnvRoles |-> MCRoleScope[r]]
EnvScopeType == [s \in EnvScopes |-> MCScopeType[s]]
EnvChain == [s \in EnvScopes |-> MCChain[s] \cap EnvScopes]

Bind(u, role, s) == [live |-> TRUE, user |-> u, role |-> role, scope |-> s,
                     until |-> "forever"]

\* Two owners of the organization and a platform administrator.
TwoOwners == [w \in Rows |-> CASE w = w1 -> Bind(ann, "org_owner", "org")
                               [] w = w2 -> Bind(bob, "org_owner", "org")
                               [] w = w3 -> Bind(cid, "platform_admin", "all")
                               [] OTHER  -> NoRow]

\* The administrator of one environment, and nobody above.
OneEnvAdmin == [w \in Rows |->
                  IF w = w1 THEN Bind(ann, "environment_admin", "env")
                            ELSE NoRow]

\* Every instance treats its handlers alike, and the rows still unused.
Symmetry == Permutations(Calls) \cup Permutations(Rows \ {w1, w2, w3})

\* OneEnvAdmin tells only ann and w1 apart from the others.
OneAdminSymmetry ==
  Permutations(Calls) \cup Permutations(Rows \ {w1})
                      \cup Permutations(Users \ {ann})
=============================================================================
