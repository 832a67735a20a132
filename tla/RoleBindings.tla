---------------------------- MODULE RoleBindings ----------------------------
(***************************************************************************)
(* Granting and revoking roles.  A handler reads the bindings several      *)
(* times (is the caller platform_admin, may it manage bindings here, does  *)
(* it cover the role, how many owners are left) and then writes in a       *)
(* transaction of its own; nothing ties the reads to the write, so         *)
(* handlers interleave at every read.                                      *)
(*                                                                         *)
(* Modelled: GrantRole / RevokeRole and their guards in                    *)
(* internal/service/rbac_service.go, Allow of internal/auth/rbac.go, and   *)
(* the binding queries of internal/store/postgres/rbac.go.  Roles and the  *)
(* resource tree are constants: what a role contains, and the chain of     *)
(* scopes above a scope.                                                   *)
(***************************************************************************)
EXTENDS Integers, FiniteSets

CONSTANTS Users,
          Calls,           \* handlers that may run at once
          Rows,            \* bound: ids of rows of user_role_bindings
          Roles,
          RolePermissions, \* role -> set of [resource, action]
          RoleScope,       \* role -> the type of scope it may be bound to
          Scopes,          \* global, organizations, projects ...
          ScopeType,       \* scope -> its type
          Chain,           \* scope -> the scope and all scopes above it
          InitialRows,     \* the bindings of the start
          MayExpire        \* whether grants carry an expires_at

Resources == {"org", "project", "env", "folder", "secret", "env_template",
              "audit", "rbac"}
Actions == {"create", "read", "update", "delete", "force_delete", "list",
            "search", "reveal", "template:read", "role:read", "role:manage",
            "binding:read", "binding:manage"}
Permission == [resource : Resources, action : Actions]
Types == {"global", "organization", "project", "environment", "folder"}

\* A row is live until it is soft-deleted; a temporary binding expires.
NoRow == [live |-> FALSE]
Binding == [live : BOOLEAN, user : Users, role : Roles, scope : Scopes,
            until : {"forever", "later", "expired"}]

ASSUME RoleBindingsAssumption ==
         /\ RolePermissions \in [Roles -> SUBSET Permission]
         /\ RoleScope \in [Roles -> Types]
         /\ ScopeType \in [Scopes -> Types]
         /\ Chain \in [Scopes -> SUBSET Scopes]
         /\ \A s \in Scopes : s \in Chain[s]
         /\ \A s \in Scopes : \A t \in Chain[s] : Chain[t] \subseteq Chain[s]
         /\ InitialRows \in [Rows -> Binding \cup {NoRow}]
         /\ MayExpire \in BOOLEAN

\* The rows of the start satisfy the unique index.
ASSUME InitialRowsUnique ==
         \A q, r \in Rows :
           /\ InitialRows[q].live /\ InitialRows[r].live /\ q # r
           /\ InitialRows[q].scope = InitialRows[r].scope
           /\ ScopeType[InitialRows[q].scope] # "global"
           => \/ InitialRows[q].user # InitialRows[r].user
              \/ InitialRows[q].role # InitialRows[r].role

VARIABLES rows, \* the table user_role_bindings
          call  \* the handlers

vars == <<rows, call>>

Idle == [pc |-> "idle"]
Steps == {"global", "allow", "role", "coverage", "owners", "find", "insert",
          "delete"}
Call == [pc : Steps, op : {"grant", "revoke"}, caller : Users, user : Users,
         role : Roles, scope : Scopes,
         row : SUBSET Rows,     \* the row RevokeRole has found
         counted : SUBSET Rows] \* auxiliary: the owners it has counted

TypeOK ==
  /\ rows \in [Rows -> Binding \cup {NoRow}]
  /\ call \in [Calls -> Call \cup {Idle}]

Init ==
  /\ rows = InitialRows
  /\ call = [c \in Calls |-> Idle]

-----------------------------------------------------------------------------
(* The queries *)

Live(r) == rows[r].live
Effective(r) == Live(r) /\ rows[r].until # "expired"

UserPermissions(u, s) ==
  UNION {RolePermissions[rows[r].role] :
           r \in {x \in Rows : /\ Effective(x)
                               /\ rows[x].user = u
                               /\ rows[x].scope \in Chain[s]}}

Manage == [resource |-> "rbac", action |-> "binding:manage"]
Allow(u, s) == Manage \in UserPermissions(u, s)

\* ListUserGrants shows every live row, expired or not.
isPlatformAdmin(u) ==
  \E r \in Rows : /\ Live(r) /\ rows[r].user = u
                  /\ rows[r].role = "platform_admin"
                  /\ ScopeType[rows[r].scope] = "global"

\* activeBindingIdTx and the select of RevokeRole: live rows, expired or not.
Matching(u, role, s) ==
  {r \in Rows : /\ Live(r) /\ rows[r].user = u
                /\ rows[r].role = role /\ rows[r].scope = s}

Owners(s) ==
  {r \in Rows : Live(r) /\ rows[r].role = "org_owner" /\ rows[r].scope = s}

-----------------------------------------------------------------------------
(* Coverage is a matter of actions: the resource of a permission is ignored. *)

Implied(action) ==
  CASE action = "update"         -> {"read"}
    [] action = "role:manage"    -> {"role:read"}
    [] action = "binding:manage" -> {"binding:read"}
    [] OTHER                     -> {}

ActionsOf(permissions) == {p.action : p \in permissions}

\* expandCoveredCodes
Expand(actions) == actions \cup UNION {Implied(a) : a \in actions}

\* checkCallerParentCoverage: one level of the chain covers the whole role.
AnyCoverage(u, role, s) == TRUE
Coverage(u, role, s) ==
  \E t \in Chain[s] :
    ActionsOf(RolePermissions[role]) \subseteq
      Expand(ActionsOf(UserPermissions(u, t)))

-----------------------------------------------------------------------------
At(c, step) == call[c].pc = step
Goto(c, step) == call' = [call EXCEPT ![c].pc = step]
Finish(c) == call' = [call EXCEPT ![c] = Idle]

\* A guard lets the handler go on or ends it with an error.
Guard(c, from, condition, to) ==
  /\ At(c, from)
  /\ IF condition THEN Goto(c, to) ELSE Finish(c)
  /\ UNCHANGED rows

\* rejectSelfGrant comes first and reads nothing.
Request(c, op, u, v, role, s) ==
  /\ At(c, "idle")
  /\ u # v
  /\ call' = [call EXCEPT ![c] =
                [pc |-> "global", op |-> op, caller |-> u, user |-> v,
                 role |-> role, scope |-> s, row |-> {}, counted |-> {}]]
  /\ UNCHANGED rows

CheckGlobal(c) ==
  Guard(c, "global",
        ScopeType[call[c].scope] = "global" => isPlatformAdmin(call[c].caller),
        "allow")

CheckAllow(c) ==
  Guard(c, "allow", Allow(call[c].caller, call[c].scope), "role")

\* Only platform_admin may grant platform_admin; a role fits its scope type.
CheckRole(c) ==
  Guard(c, "role",
        /\ call[c].op = "grant" /\ call[c].role = "platform_admin"
             => isPlatformAdmin(call[c].caller)
        /\ RoleScope[call[c].role] = ScopeType[call[c].scope],
        "coverage")

CheckCoverage(c) ==
  Guard(c, "coverage", Coverage(call[c].caller, call[c].role, call[c].scope),
        IF call[c].op = "grant" THEN "find" ELSE "owners")

\* The owners that would be left after the revocation.
LastOwnerOffByOne(n) == n < 0
LastOwner(n) == n < 1

CheckLastOwner(c) ==
  /\ At(c, "owners")
  /\ IF call[c].role = "org_owner" /\ ScopeType[call[c].scope] = "organization"
          => ~ LastOwner(Cardinality(Owners(call[c].scope)) - 1)
       THEN call' = [call EXCEPT ![c].pc = "find", ![c].counted = Owners(call[c].scope)]
       ELSE Finish(c)
  /\ UNCHANGED rows

-----------------------------------------------------------------------------
(* The transactions of the store *)

Target(c) == Matching(call[c].user, call[c].role, call[c].scope)

\* An existing binding is returned as it is, even when it has expired.
FindForGrant(c) ==
  /\ At(c, "find") /\ call[c].op = "grant"
  /\ Guard(c, "find", Target(c) = {}, "insert")

\* The unique index over (user, role, scope type, scope id) of live rows does
\* not hold between global rows, whose scope id is NULL.
NeverTaken(c) == FALSE
Taken(c) == ScopeType[call[c].scope] # "global" /\ Target(c) # {}

\* A grant without expires_at lasts; one given may even lie in the past.
EmptyUntil == {"", "later"}
Until == IF MayExpire THEN {"forever", "later", "expired"} ELSE {"forever"}

Insert(c) ==
  /\ At(c, "insert")
  /\ \/ /\ Taken(c)
        /\ UNCHANGED rows
     \/ /\ ~ Taken(c)
        /\ \E r \in Rows, until \in Until :
             /\ rows[r] = NoRow
             /\ rows' = [rows EXCEPT ![r] =
                           [live |-> TRUE, user |-> call[c].user,
                            role |-> call[c].role, scope |-> call[c].scope,
                            until |-> until]]
  /\ Finish(c)

FindForRevoke(c) ==
  /\ At(c, "find") /\ call[c].op = "revoke"
  /\ \/ /\ Target(c) = {}
        /\ Finish(c)
     \/ \E r \in Target(c) :
          call' = [call EXCEPT ![c].pc = "delete", ![c].row = {r}]
  /\ UNCHANGED rows

SoftDelete(c) ==
  /\ At(c, "delete")
  /\ \E r \in call[c].row : rows' = [rows EXCEPT ![r].live = FALSE]
  /\ Finish(c)

\* A failing query or a cancelled request ends the handler, writing nothing.
Fail(c) ==
  /\ ~ At(c, "idle")
  /\ Finish(c)
  /\ UNCHANGED rows

Expire(r) ==
  /\ Live(r) /\ rows[r].until = "later"
  /\ rows' = [rows EXCEPT ![r].until = "expired"]
  /\ UNCHANGED call

-----------------------------------------------------------------------------
Next ==
  \/ \E c \in Calls, op \in {"grant", "revoke"}, u, v \in Users,
        role \in Roles, s \in Scopes : Request(c, op, u, v, role, s)
  \/ \E c \in Calls : \/ CheckGlobal(c) \/ CheckAllow(c) \/ CheckRole(c)
                      \/ CheckCoverage(c) \/ CheckLastOwner(c)
                      \/ FindForGrant(c) \/ Insert(c)
                      \/ FindForRevoke(c) \/ SoftDelete(c) \/ Fail(c)
  \/ \E r \in Rows : Expire(r)

Spec == Init /\ [][Next]_vars

-----------------------------------------------------------------------------
(* Properties *)

\* The actions someone was trusted with at the start, at s or above.
Trusted(s) ==
  Expand(ActionsOf(UNION {RolePermissions[InitialRows[r].role] :
                            r \in {x \in Rows : /\ InitialRows[x].live
                                                /\ InitialRows[x].scope \in Chain[s]}}))

\* However grants, revocations and expiries of many callers chain and race,
\* nobody comes to exercise in a scope an action that nobody held there or
\* above at the start: GrantRole's coverage check creates no authority.
AuthorityIsClosed ==
  \A u \in Users, s \in Scopes :
    ActionsOf(UserPermissions(u, s)) \subseteq Trusted(s)

\* Two live rows never bind one user to one role in one scope, so one
\* revocation is enough (GrantRole's find and insert, raced by another grant).
UniqueBelowGlobal ==
  \A q, r \in Rows :
    /\ Live(q) /\ Live(r) /\ q # r
    /\ rows[q].scope = rows[r].scope /\ ScopeType[rows[q].scope] # "global"
    => rows[q].user # rows[r].user \/ rows[q].role # rows[r].role

\* The step takes an organization's last owner only as a deletion that had
\* counted another owner, who has been revoked since.
OvertakenAtLast ==
  \A s \in Scopes :
    Owners(s) # {} /\ Owners(s)' = {} =>
      \E c \in Calls : /\ At(c, "delete") /\ At(c, "idle")'
                       /\ \E r \in call[c].counted \ call[c].row :
                            rows[r].scope = s /\ ~ Live(r)

\* However many handlers run, the last owner goes only in a race: RevokeRole
\* counts outside of its transaction, and what it lets through is nothing but
\* the last of several revocations that overtake each other.
LastOwnerLostInRace == [][OvertakenAtLast]_vars

-----------------------------------------------------------------------------
(* What a document says and the code does not keep                         *)

\* "The last org_owner may not be revoked" (rbac_degisn.md): an organization
\* that had an owner keeps a row that makes somebody its owner.
KeepsOwner ==
  \A s \in Scopes :
    (\E r \in Rows : InitialRows[r].live /\ InitialRows[r].scope = s
                     /\ InitialRows[r].role = "org_owner") => Owners(s) # {}
=============================================================================
