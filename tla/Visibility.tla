----------------------------- MODULE Visibility -----------------------------
(***************************************************************************)
(* Which resources somebody gets to see: the tree of resources, the        *)
(* permissions somebody holds at nodes of it, the decision on one resource *)
(* (Allow), and the conditions that the listing queries have in SQL        *)
(* instead of it: the narrowing of folders and secrets by the scopes of a  *)
(* permission, and the navigation of the upper levels, where a permission  *)
(* on something below shows the way to it.                                 *)
(*                                                                         *)
(* A level 2 folder is a folder whose parent is a folder.  "live" is the   *)
(* set of rows with is_deleted = false, "held" the permissions of somebody *)
(* whose bindings and roles are active.                                    *)
(***************************************************************************)
EXTENDS Integers, Sequences, FiniteSets

CONSTANTS Nodes,  \* resources
          Kind,   \* what each of them is
          Up      \* its parent; an organization is its own

Kinds == <<"org", "project", "env", "folder", "secret">>
Depth(kind) == CHOOSE d \in 1 .. Len(Kinds) : Kinds[d] = kind
Global == "global"
AtOrBelow(d) == {Kinds[k] : k \in d .. Len(Kinds)}

\* A permission: what it is about, the action, and where it is held.
Permission == [resource : AtOrBelow(1), action : {"read", "list", "search", "reveal"},
               scope : Nodes \cup {Global}]

\* A resource with all above it: five levels, or six with a level 2 folder.
Chain(n) == {n, Up[n], Up[Up[n]], Up[Up[Up[n]]], Up[Up[Up[Up[n]]]],
             Up[Up[Up[Up[Up[n]]]]]}
OfKind(kind) == {n \in Nodes : Kind[n] = kind}
Level2(n) == Kind[n] = "folder" /\ Kind[Up[n]] = "folder"

\* The rows a query joins on its way up: a folder has its environment's id, so
\* the parent of a level 2 folder is not among them.
Joined(n) == {m \in Chain(n) : ~ \E k \in Chain(n) : Level2(k) /\ m = Up[k]}

ASSUME VisibilityAssumption ==
         /\ Kind \in [Nodes -> AtOrBelow(1)]
         /\ Up \in [Nodes -> Nodes]
         /\ \A n \in Nodes :
              /\ Up[n] = n <=> Kind[n] = "org"
              /\ Kind[n] # "org" =>
                   \/ Depth(Kind[Up[n]]) = Depth(Kind[n]) - 1
                   \/ Level2(n) /\ ~ Level2(Up[n])

-----------------------------------------------------------------------------
(* The decision on one resource *)

\* Its own scopes; a permission at a secret counts for nothing.
ResourceScopes(n) == {Global} \cup {m \in Chain(n) : Kind[m] # "secret"}

UserPermissions(held, scopes, resource, action) ==
  \E p \in held : p.resource = resource /\ p.action = action /\ p.scope \in scopes

\* A resource that is gone, or is in one that is, has no scopes.
Allow(live, held, n, action) ==
  /\ Joined(n) \subseteq live
  /\ UserPermissions(held, ResourceScopes(n), Kind[n], action)

-----------------------------------------------------------------------------
(* The listing queries *)

\* A mutation: only the rows that are joined anyway.
NarrowedByJoins(held, n, action) ==
  UserPermissions(held, {Global} \cup Joined(n), Kind[n], action)
\* user_read_scopes with narrowingPredicate.
Narrowed(held, n, action) ==
  UserPermissions(held, {Global} \cup Chain(n), Kind[n], action)

\* Folders are listed without a look at the organization, secrets with one.
ListsFolder(live, held, n) ==
  Joined(n) \ OfKind("org") \subseteq live /\ Narrowed(held, n, "read")
ListsSecret(live, held, n, action) ==
  Joined(n) \subseteq live /\ Narrowed(held, n, action)

\* user_navigation_scopes: a permission shows the resources above and below
\* its scope, as far down as the resource it is about, if the rows between
\* the two are live.
Between(n, scope) == (Joined(scope) \cup Chain(n)) \ (Joined(scope) \cap Chain(n))
\* A mutation: a permission leads only to resources of the kind it is about.
LeadsToItsKind(live, p, n) ==
  /\ p.resource = Kind[n]
  /\ p.scope = Global \/ n \in Chain(p.scope) \/ p.scope \in Chain(n)
Leads(live, p, n) ==
  IF p.scope = Global
    THEN p.resource \in AtOrBelow(Depth(Kind[n]))
    ELSE /\ n \in Chain(p.scope) \/ p.scope \in Chain(n)
         /\ Between(n, p.scope) \subseteq live
         /\ p.resource \in AtOrBelow(Depth(Kind[n])) \cap AtOrBelow(Depth(Kind[p.scope]))
Navigable(live, held, n) == n \in live /\ \E p \in held : Leads(live, p, n)

ListsOrganization(live, held, n) == Navigable(live, held, n)
ListsProject(live, held, n) == Navigable(live, held, n)
ListsEnvironment(live, held, n) == Up[n] \in live /\ Navigable(live, held, n)

\* What the lists of all levels show: the lists of secrets have actions of
\* their own.
Lists(live, held, n) ==
  CASE Kind[n] = "org" -> ListsOrganization(live, held, n)
    [] Kind[n] = "project" -> ListsProject(live, held, n)
    [] Kind[n] = "env" -> ListsEnvironment(live, held, n)
    [] Kind[n] = "folder" -> ListsFolder(live, held, n)
    [] Kind[n] = "secret" -> ListsSecret(live, held, n, "list")
=============================================================================
