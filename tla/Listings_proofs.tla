--------------------------- MODULE Listings_proofs ---------------------------
(***************************************************************************)
(* What the lists, searches and batch reveals promise, for any tree, any   *)
(* permissions, any queries and any number of changes beside a request.    *)
(***************************************************************************)
EXTENDS Listings, FiniteSetTheorems, SequenceTheorems, WellFoundedInduction,
        TLAPS

-----------------------------------------------------------------------------
(* The tree *)

LEMMA Depths ==
  /\ Depth("org") = 1 /\ Depth("project") = 2 /\ Depth("env") = 3
  /\ Depth("folder") = 4 /\ Depth("secret") = 5
<1>1. /\ Len(Kinds) = 5 /\ Kinds[1] = "org" /\ Kinds[2] = "project" /\ Kinds[3] = "env"
      /\ Kinds[4] = "folder" /\ Kinds[5] = "secret"
  BY DEF Kinds
<1>2. 1 .. 5 = {1, 2, 3, 4, 5}
  OBVIOUS
<1>3. \A kind : Depth(kind) = CHOOSE d \in {1, 2, 3, 4, 5} : Kinds[d] = kind
  BY <1>1, <1>2 DEF Depth
<1>4. Depth("org") = 1
  BY <1>1, <1>3
<1>5. Depth("project") = 2
  BY <1>1, <1>3
<1>6. Depth("env") = 3
  BY <1>1, <1>3
<1>7. Depth("folder") = 4
  BY <1>1, <1>3
<1>8. Depth("secret") = 5
  BY <1>1, <1>3
<1> QED BY <1>4, <1>5, <1>6, <1>7, <1>8

LEMMA Levels ==
  /\ AtOrBelow(1) = {"org", "project", "env", "folder", "secret"}
  /\ AtOrBelow(2) = {"project", "env", "folder", "secret"}
  /\ AtOrBelow(3) = {"env", "folder", "secret"}
  /\ AtOrBelow(4) = {"folder", "secret"}
  /\ AtOrBelow(5) = {"secret"}
<1>1. /\ Len(Kinds) = 5 /\ Kinds[1] = "org" /\ Kinds[2] = "project" /\ Kinds[3] = "env"
      /\ Kinds[4] = "folder" /\ Kinds[5] = "secret"
  BY DEF Kinds
<1>2. /\ 1 .. 5 = {1, 2, 3, 4, 5} /\ 2 .. 5 = {2, 3, 4, 5} /\ 3 .. 5 = {3, 4, 5}
      /\ 4 .. 5 = {4, 5} /\ 5 .. 5 = {5}
  OBVIOUS
<1>3. /\ AtOrBelow(1) = {Kinds[k] : k \in {1, 2, 3, 4, 5}}
      /\ AtOrBelow(2) = {Kinds[k] : k \in {2, 3, 4, 5}}
      /\ AtOrBelow(3) = {Kinds[k] : k \in {3, 4, 5}}
      /\ AtOrBelow(4) = {Kinds[k] : k \in {4, 5}}
      /\ AtOrBelow(5) = {Kinds[k] : k \in {5}}
  BY <1>1, <1>2 DEF AtOrBelow
<1> QED BY <1>1, <1>3

\* What a node can be, and its parent.
LEMMA Parent ==
  ASSUME NEW n \in Nodes
  PROVE  /\ Up[n] \in Nodes
         /\ Kind[n] \in {"org", "project", "env", "folder", "secret"}
         /\ Kind[n] = "org" => Up[n] = n
         /\ Kind[n] = "project" => Kind[Up[n]] = "org"
         /\ Kind[n] = "env" => Kind[Up[n]] = "project"
         /\ Kind[n] = "folder" => \/ Kind[Up[n]] = "env"
                                  \/ Kind[Up[n]] = "folder" /\ Kind[Up[Up[n]]] = "env"
         /\ Kind[n] = "secret" => Kind[Up[n]] = "folder"
<1> DEFINE Names == {"org", "project", "env", "folder", "secret"}
<1>1. \A m \in Nodes : Up[m] \in Nodes /\ Kind[m] \in Names
  BY VisibilityAssumption, Levels
<1>2. \A m \in Nodes : Kind[m] # "org" =>
        \/ Depth(Kind[Up[m]]) = Depth(Kind[m]) - 1
        \/ Kind[m] = "folder" /\ Kind[Up[m]] = "folder"
           /\ ~ (Kind[Up[m]] = "folder" /\ Kind[Up[Up[m]]] = "folder")
  BY VisibilityAssumption DEF Level2
<1>3. \A k \in Names : /\ Depth(k) = 1 => k = "org"
                       /\ Depth(k) = 2 => k = "project"
                       /\ Depth(k) = 3 => k = "env"
                       /\ Depth(k) = 4 => k = "folder"
  BY Depths
<1> HIDE DEF Names
<1>4. \A m \in Nodes : /\ Kind[m] = "project" => Kind[Up[m]] = "org"
                       /\ Kind[m] = "env" => Kind[Up[m]] = "project"
                       /\ Kind[m] = "secret" => Kind[Up[m]] = "folder"
                       /\ Kind[m] = "folder" /\ Kind[Up[m]] # "folder" => Kind[Up[m]] = "env"
  <2> TAKE m \in Nodes
  <2>1. Kind[Up[m]] \in Names
    BY <1>1
  <2>2. CASE Kind[m] = "project"
    BY <2>1, <2>2, <1>2, <1>3, Depths
  <2>3. CASE Kind[m] = "env"
    BY <2>1, <2>3, <1>2, <1>3, Depths
  <2>4. CASE Kind[m] = "secret"
    BY <2>1, <2>4, <1>2, <1>3, Depths
  <2>5. CASE Kind[m] = "folder"
    BY <2>1, <2>5, <1>2, <1>3, Depths
  <2> QED BY <2>2, <2>3, <2>4, <2>5
<1>5. Kind[n] = "folder" /\ Kind[Up[n]] = "folder" => Kind[Up[Up[n]]] # "folder"
  BY <1>2, Depths
<1>6. Kind[n] = "org" => Up[n] = n
  BY VisibilityAssumption
<1>7. Kind[n] \in {"org", "project", "env", "folder", "secret"}
  BY <1>1 DEF Names
<1> QED BY <1>1, <1>4, <1>5, <1>6, <1>7

\* The way up, for each kind.
LEMMA Chains ==
  ASSUME NEW n \in Nodes
  PROVE  /\ Kind[n] = "org" => Chain(n) = {n}
         /\ Kind[n] = "project" => Chain(n) = {n, Up[n]}
         /\ Kind[n] = "env" => Chain(n) = {n, Up[n], Up[Up[n]]}
         /\ Kind[n] = "folder" /\ ~ Level2(n) =>
              Chain(n) = {n, Up[n], Up[Up[n]], Up[Up[Up[n]]]}
         /\ Level2(n) => Chain(n) = {n, Up[n], Up[Up[n]], Up[Up[Up[n]]], Up[Up[Up[Up[n]]]]}
<1> DEFINE u1 == Up[n]  u2 == Up[u1]  u3 == Up[u2]  u4 == Up[u3]  u5 == Up[u4]
<1>1. /\ u1 \in Nodes /\ u2 \in Nodes /\ u3 \in Nodes /\ u4 \in Nodes /\ u5 \in Nodes
  BY Parent
<1>2. Chain(n) = {n, u1, u2, u3, u4, u5}
  BY DEF Chain
<1> HIDE DEF u1, u2, u3, u4, u5
<1>3. Kind[n] = "org" => u1 = n /\ u2 = n /\ u3 = n /\ u4 = n /\ u5 = n
  BY <1>1, Parent DEF u1, u2, u3, u4, u5
<1>4. Kind[u1] = "org" => u2 = u1 /\ u3 = u1 /\ u4 = u1 /\ u5 = u1
  BY <1>1, Parent DEF u2, u3, u4, u5
<1>5. Kind[u2] = "org" => u3 = u2 /\ u4 = u2 /\ u5 = u2
  BY <1>1, Parent DEF u3, u4, u5
<1>6. Kind[u3] = "org" => u4 = u3 /\ u5 = u3
  BY <1>1, Parent DEF u4, u5
<1>7. Kind[u4] = "org" => u5 = u4
  BY <1>1, Parent DEF u5
<1>8. CASE Kind[n] = "org"
  BY <1>2, <1>3, <1>8 DEF Level2
<1>9. CASE Kind[n] = "project"
  <2>1. Kind[u1] = "org"
    BY <1>9, Parent DEF u1
  <2> QED BY <2>1, <1>2, <1>4, <1>9 DEF Level2, u1
<1>10. CASE Kind[n] = "env"
  <2>1. Kind[u1] = "project"
    BY <1>10, Parent DEF u1
  <2>2. Kind[u2] = "org"
    BY <1>1, <2>1, Parent DEF u2
  <2> QED BY <2>2, <1>2, <1>5, <1>10 DEF Level2, u1, u2
<1>11. CASE Kind[n] = "folder" /\ ~ Level2(n)
  <2>1. Kind[u1] = "env"
    BY <1>11, Parent DEF u1, Level2
  <2>2. Kind[u2] = "project"
    BY <1>1, <2>1, Parent DEF u2
  <2>3. Kind[u3] = "org"
    BY <1>1, <2>2, Parent DEF u3
  <2> QED BY <2>3, <1>2, <1>6, <1>11 DEF u1, u2, u3
<1>12. CASE Level2(n)
  <2>1. Kind[u2] = "env"
    BY <1>12, Parent DEF u1, u2, Level2
  <2>2. Kind[u3] = "project"
    BY <1>1, <2>1, Parent DEF u3
  <2>3. Kind[u4] = "org"
    BY <1>1, <2>2, Parent DEF u4
  <2> QED BY <2>3, <1>2, <1>7, <1>12 DEF u1, u2, u3, u4, Level2
<1>13. CASE Kind[n] = "secret"
  BY <1>13 DEF Level2
<1> QED BY <1>8, <1>9, <1>10, <1>11, <1>12, <1>13, Parent

\* Six steps up there is nothing but the organization.
LEMMA Root ==
  ASSUME NEW n \in Nodes
  PROVE  LET u5 == Up[Up[Up[Up[Up[n]]]]]
         IN  Kind[u5] = "org" /\ Up[u5] = u5
<1> DEFINE u1 == Up[n]  u2 == Up[u1]  u3 == Up[u2]  u4 == Up[u3]  u5 == Up[u4]
<1>1. /\ u1 \in Nodes /\ u2 \in Nodes /\ u3 \in Nodes /\ u4 \in Nodes /\ u5 \in Nodes
  BY Parent
<1>2. \A m \in Nodes : Kind[m] = "org" => Kind[Up[m]] = "org"
  BY Parent
<1>3. \A m \in Nodes : Kind[m] = "project" => Kind[Up[m]] = "org"
  BY Parent
<1>4. \A m \in Nodes : Kind[m] = "env" => Kind[Up[m]] = "project"
  BY Parent
<1>5. \A m \in Nodes : Kind[m] = "folder" =>
        Kind[Up[m]] = "env" \/ (Kind[Up[m]] = "folder" /\ Kind[Up[Up[m]]] = "env")
  BY Parent
<1>6. \A m \in Nodes : Kind[m] = "secret" => Kind[Up[m]] = "folder"
  BY Parent
<1>7. Kind[n] \in {"org", "project", "env", "folder", "secret"}
  BY Parent
<1> HIDE DEF u5
<1>8. u5 = Up[u4]
  BY DEF u5
<1> HIDE DEF u4
<1>9. u4 = Up[u3]
  BY DEF u4
<1> HIDE DEF u3
<1>10. u3 = Up[u2]
  BY DEF u3
<1> HIDE DEF u2
<1>11. u2 = Up[u1]
  BY DEF u2
<1> HIDE DEF u1
<1>12. u1 = Up[n]
  BY DEF u1
<1>13. Kind[u4] \in {"org"} \/ Kind[u4] = "project"
  BY <1>1, <1>2, <1>3, <1>4, <1>5, <1>6, <1>7, <1>9, <1>10, <1>11, <1>12
<1>14. Kind[u5] = "org"
  BY <1>1, <1>2, <1>3, <1>8, <1>13
<1>15. Up[u5] = u5
  BY <1>1, <1>14, Parent
<1> QED BY <1>14, <1>15 DEF u1, u2, u3, u4, u5

LEMMA ChainOfParent ==
  ASSUME NEW n \in Nodes
  PROVE  Chain(n) = {n} \cup Chain(Up[n])
BY Root DEF Chain

LEMMA ChainIn ==
  ASSUME NEW n \in Nodes
  PROVE  Chain(n) \subseteq Nodes /\ n \in Chain(n)
BY Parent DEF Chain

\* What is above something above is above.
LEMMA ChainTransitive ==
  ASSUME NEW n \in Nodes, NEW m \in Chain(n)
  PROVE  Chain(m) \subseteq Chain(n)
<1>1. \A k \in Nodes : Chain(Up[k]) \subseteq Chain(k) /\ Up[k] \in Nodes
  BY ChainOfParent, Parent
<1> DEFINE u1 == Up[n]  u2 == Up[u1]  u3 == Up[u2]  u4 == Up[u3]  u5 == Up[u4]
<1>2. m \in {n, u1, u2, u3, u4, u5}
  BY DEF Chain
<1> HIDE DEF u5
<1>3. u4 \in Nodes => Chain(u5) \subseteq Chain(u4)
  BY <1>1 DEF u5
<1> HIDE DEF u4
<1>4. u3 \in Nodes => Chain(u4) \subseteq Chain(u3) /\ u4 \in Nodes
  BY <1>1 DEF u4
<1> HIDE DEF u3
<1>5. u2 \in Nodes => Chain(u3) \subseteq Chain(u2) /\ u3 \in Nodes
  BY <1>1 DEF u3
<1> HIDE DEF u2
<1>6. u1 \in Nodes => Chain(u2) \subseteq Chain(u1) /\ u2 \in Nodes
  BY <1>1 DEF u2
<1> HIDE DEF u1
<1>7. Chain(u1) \subseteq Chain(n) /\ u1 \in Nodes
  BY <1>1 DEF u1
<1> QED BY <1>2, <1>3, <1>4, <1>5, <1>6, <1>7

\* Of two nodes on a way up, one is above the other.
LEMMA ChainLinear ==
  ASSUME NEW n \in Nodes, NEW a \in Chain(n), NEW b \in Chain(n)
  PROVE  a \in Chain(b) \/ b \in Chain(a)
BY DEF Chain

LEMMA DepthUp ==
  ASSUME NEW n \in Nodes, NEW m \in Chain(n)
  PROVE  /\ Depth(Kind[m]) \in 1 .. 5 /\ Depth(Kind[n]) \in 1 .. 5
         /\ Depth(Kind[m]) <= Depth(Kind[n])
<1>1. \A k \in Nodes : /\ Up[k] \in Nodes /\ Depth(Kind[k]) \in 1 .. 5
                       /\ Depth(Kind[Up[k]]) <= Depth(Kind[k])
  <2> TAKE k \in Nodes
  <2>1. /\ Up[k] \in Nodes
        /\ Kind[k] \in {"org", "project", "env", "folder", "secret"}
    BY Parent
  <2>2. CASE Kind[k] = "org"
    <3>1. Up[k] = k
      BY <2>2, Parent
    <3> QED BY <2>1, <2>2, <3>1, Depths
  <2>3. CASE Kind[k] = "project"
    <3>1. Kind[Up[k]] = "org"
      BY <2>3, Parent
    <3> QED BY <2>1, <2>3, <3>1, Depths
  <2>4. CASE Kind[k] = "env"
    <3>1. Kind[Up[k]] = "project"
      BY <2>4, Parent
    <3> QED BY <2>1, <2>4, <3>1, Depths
  <2>5. CASE Kind[k] = "folder"
    <3>1. Kind[Up[k]] \in {"env", "folder"}
      BY <2>5, Parent
    <3> QED BY <2>1, <2>5, <3>1, Depths
  <2>6. CASE Kind[k] = "secret"
    <3>1. Kind[Up[k]] = "folder"
      BY <2>6, Parent
    <3> QED BY <2>1, <2>6, <3>1, Depths
  <2> QED BY <2>1, <2>2, <2>3, <2>4, <2>5, <2>6
<1> DEFINE u1 == Up[n]  u2 == Up[u1]  u3 == Up[u2]  u4 == Up[u3]  u5 == Up[u4]
<1> DEFINE D(k) == Depth(Kind[k])
<1>2. /\ u1 \in Nodes /\ u2 \in Nodes /\ u3 \in Nodes /\ u4 \in Nodes /\ u5 \in Nodes
  BY <1>1
<1>0. \A k \in Nodes : D(k) \in Int /\ D(Up[k]) <= D(k)
  BY <1>1
<1> HIDE DEF D
<1>3. /\ D(n) \in Int /\ D(u1) \in Int /\ D(u2) \in Int /\ D(u3) \in Int /\ D(u4) \in Int
      /\ D(u5) \in Int
      /\ D(u1) <= D(n) /\ D(u2) <= D(u1) /\ D(u3) <= D(u2) /\ D(u4) <= D(u3) /\ D(u5) <= D(u4)
  BY <1>0, <1>2
<1>4. m \in {n, u1, u2, u3, u4, u5}
  BY DEF Chain
<1> HIDE DEF u1, u2, u3, u4, u5
<1>5. D(m) <= D(n)
  BY <1>3, <1>4
<1>6. m \in Nodes
  BY <1>2, <1>4
<1> QED BY <1>1, <1>5, <1>6 DEF D

LEMMA LevelsUp ==
  ASSUME NEW n \in Nodes, NEW m \in Chain(n)
  PROVE  AtOrBelow(Depth(Kind[n])) \subseteq AtOrBelow(Depth(Kind[m]))
<1>1. /\ Depth(Kind[m]) \in 1 .. 5 /\ Depth(Kind[n]) \in 1 .. 5
      /\ Depth(Kind[m]) <= Depth(Kind[n])
  BY DepthUp
<1> QED BY <1>1 DEF AtOrBelow

\* Everything above but a folder's parent is joined.
LEMMA JoinedIsChain ==
  ASSUME NEW n \in Nodes
  PROVE  /\ Joined(n) \subseteq Chain(n) /\ n \in Nodes
         /\ Chain(n) \ Folders \subseteq Joined(n)
<1>1. Chain(n) \subseteq Nodes
  BY ChainIn
<1>2. \A m \in Chain(n) : Level2(m) => Up[m] \in Folders
  BY <1>1, Parent DEF Level2, Folders, OfKind
<1> QED BY <1>2 DEF Joined

-----------------------------------------------------------------------------
(* Lists and the authorizer *)

\* Nothing is below a secret.
LEMMA SecretsAreLeaves ==
  ASSUME NEW n \in Nodes, NEW m \in Chain(n), Kind[m] = "secret"
  PROVE  m = n
<1>1. \A k \in Nodes : Up[k] \in Nodes /\ Kind[Up[k]] # "secret"
  BY Parent DEF Level2
<1>2. /\ Up[n] \in Nodes /\ Up[Up[n]] \in Nodes /\ Up[Up[Up[n]]] \in Nodes
      /\ Up[Up[Up[Up[n]]]] \in Nodes
  BY Parent
<1> QED BY <1>1, <1>2 DEF Chain

\* The narrowed lists and the decision on one resource agree, unless a role is
\* held on the resource itself and that is a secret.
LEMMA Narrowing ==
  ASSUME NEW L, NEW H \in SUBSET Permission, NEW n \in Nodes,
         Chain(n) \cap OfKind("org") \subseteq L
  PROVE  /\ Kind[n] = "folder" => (ListsFolder(L, H, n) <=> Allow(L, H, n, "read"))
         /\ Kind[n] = "secret" /\ (\A p \in H : p.scope # n) =>
              \A a : ListsSecret(L, H, n, a) <=> Allow(L, H, n, a)
<1>1. ASSUME Kind[n] # "secret" \/ \A p \in H : p.scope # n
      PROVE  \A a : Narrowed(H, n, a) <=> UserPermissions(H, ResourceScopes(n), Kind[n], a)
  <2>1. \A p \in H : p.scope \in Chain(n) => Kind[p.scope] # "secret"
    BY <1>1, SecretsAreLeaves
  <2> QED BY <2>1 DEF Narrowed, UserPermissions, ResourceScopes
<1>2. Joined(n) \ OfKind("org") \subseteq L <=> Joined(n) \subseteq L
  BY JoinedIsChain
<1> QED BY <1>1, <1>2 DEF ListsFolder, ListsSecret, Allow

\* A permission held on the way up or below leads to what is above, if what is
\* between is live.
LEMMA Leading ==
  ASSUME NEW L, NEW p, NEW m \in Nodes,
         p.scope = Global \/ (/\ m \in Chain(p.scope) \/ p.scope \in Chain(m)
                              /\ Joined(p.scope) \ Chain(m) \subseteq L
                              /\ p.resource \in AtOrBelow(Depth(Kind[p.scope]))),
         Chain(m) \subseteq L,
         p.resource \in AtOrBelow(Depth(Kind[m]))
  PROVE  Leads(L, p, m)
BY DEF Leads, Between

LEMMA ListsUpper ==
  ASSUME NEW L, NEW H, NEW m \in Nodes, Chain(m) \subseteq L,
         Kind[m] \in {"org", "project", "env"}, NEW p \in H, Leads(L, p, m)
  PROVE  Lists(L, H, m)
<1>1. m \in L /\ Up[m] \in L
  BY DEF Chain
<1>2. Navigable(L, H, m)
  BY <1>1 DEF Navigable
<1> QED BY <1>1, <1>2 DEF Lists, ListsOrganization, ListsProject, ListsEnvironment

\* Between an upper level and another above it there is at most one.
LEMMA UpperGap ==
  ASSUME NEW n \in Nodes, Kind[n] \in {"org", "project", "env"}, NEW m \in Chain(n)
  PROVE  Chain(n) \ Chain(m) \subseteq {n} \cup (IF Kind[n] = "env" THEN {Up[n]} ELSE {})
<1>1. Up[n] \in Nodes /\ Up[Up[n]] \in Nodes
  BY Parent
<1>2. CASE Kind[n] = "org"
  <2>1. Chain(n) = {n}
    BY <1>2, Chains
  <2> QED BY <2>1
<1>3. CASE Kind[n] = "project"
  <2>1. Chain(n) = {n, Up[n]}
    BY <1>3, Chains
  <2>2. Up[n] \in Chain(m)
    BY <2>1 DEF Chain
  <2> QED BY <2>1, <2>2
<1>4. CASE Kind[n] = "env"
  <2>1. Chain(n) = {n, Up[n], Up[Up[n]]}
    BY <1>4, Chains
  <2>2. Up[Up[n]] \in Chain(m)
    BY <2>1 DEF Chain
  <2> QED BY <1>4, <2>1, <2>2
<1> QED BY <1>2, <1>3, <1>4

LEMMA WayFromUpper ==
  ASSUME NEW L, NEW H \in SUBSET Permission, NEW n \in Nodes, Lists(L, H, n),
         Kind[n] \in {"org", "project", "env"},
         NEW m \in Chain(n), Chain(m) \subseteq L, Kind[m] \in {"org", "project", "env"}
  PROVE  Lists(L, H, m)
<1>1. Navigable(L, H, n) /\ (Kind[n] = "env" => Up[n] \in L)
  BY DEF Lists, ListsOrganization, ListsProject, ListsEnvironment
<1>2. PICK p \in H : Leads(L, p, n)
  BY <1>1 DEF Navigable
<1>3. n \in L /\ m \in Nodes
  BY <1>1, ChainIn DEF Navigable
<1>4. p.resource \in AtOrBelow(Depth(Kind[n]))
  BY <1>2 DEF Leads
<1>5. p.resource \in AtOrBelow(Depth(Kind[m]))
  BY <1>4, LevelsUp
<1>6. CASE p.scope = Global
  BY <1>2, <1>3, <1>5, <1>6, Leading, ListsUpper
<1>7. CASE p.scope # Global
  <2>1. p.scope \in Nodes
    BY <1>7 DEF Permission
  <2>2. /\ n \in Chain(p.scope) \/ p.scope \in Chain(n)
        /\ Between(n, p.scope) \subseteq L
        /\ p.resource \in AtOrBelow(Depth(Kind[p.scope]))
    BY <1>2, <1>7 DEF Leads
  <2>3. m \in Chain(p.scope) \/ p.scope \in Chain(m)
    BY <2>1, <2>2, ChainTransitive, ChainLinear
  <2>4. Joined(p.scope) \ Chain(m) \subseteq L
    <3>1. Chain(n) \ Chain(m) \subseteq L
      BY <1>1, <1>3, UpperGap
    <3>2. Joined(p.scope) \ Chain(n) \subseteq L
      BY <2>2 DEF Between
    <3> QED BY <3>1, <3>2
  <2> QED BY <1>2, <1>3, <1>5, <2>2, <2>3, <2>4, Leading, ListsUpper
<1> QED BY <1>6, <1>7

LEMMA WayFromLower ==
  ASSUME NEW L, NEW H \in SUBSET Permission, NEW n \in Nodes, Lists(L, H, n),
         Kind[n] \in {"folder", "secret"}, Chain(n) \cap Folders \subseteq L,
         NEW m \in Chain(n), Chain(m) \subseteq L, Kind[m] \in {"org", "project", "env"}
  PROVE  Lists(L, H, m)
<1> DEFINE action == IF Kind[n] = "folder" THEN "read" ELSE "list"
<1>1. Joined(n) \ OfKind("org") \subseteq L /\ Narrowed(H, n, action)
  BY DEF Lists, ListsFolder, ListsSecret
<1>2. PICK p \in H : p.resource = Kind[n] /\ p.scope \in {Global} \cup Chain(n)
  BY <1>1 DEF Narrowed, UserPermissions
<1>3. m \in Nodes /\ Chain(n) \subseteq Nodes
  BY ChainIn
<1>4. Kind[n] \in AtOrBelow(Depth(Kind[n]))
  BY Depths, Levels
<1>5. p.resource \in AtOrBelow(Depth(Kind[m]))
  BY <1>2, <1>4, LevelsUp
<1>6. CASE p.scope = Global
  BY <1>2, <1>3, <1>5, <1>6, Leading, ListsUpper
<1>7. CASE p.scope \in Chain(n)
  <2>1. p.scope \in Nodes
    BY <1>3, <1>7
  <2>2. m \in Chain(p.scope) \/ p.scope \in Chain(m)
    BY <1>7, ChainLinear
  <2>3. p.resource \in AtOrBelow(Depth(Kind[p.scope]))
    BY <1>2, <1>4, <1>7, LevelsUp
  <2>4. Joined(p.scope) \subseteq Chain(n)
    BY <1>7, <2>1, JoinedIsChain, ChainTransitive
  <2>5. Chain(n) \ Chain(m) \subseteq L
    <3> SUFFICES ASSUME NEW x \in Chain(n), x \notin Chain(m)
                 PROVE  x \in L
      OBVIOUS
    <3>1. CASE x \in Folders
      BY <3>1
    <3>2. CASE Kind[x] = "org"
      <4>1. Chain(x) = {x}
        BY <1>3, <3>2, Chains
      <4>2. m = x
        BY <4>1, ChainLinear
      <4> QED BY <1>3, <4>2, ChainIn
    <3>3. CASE x \notin Folders /\ Kind[x] # "org"
      BY <1>1, <3>3, JoinedIsChain DEF OfKind
    <3> QED BY <3>1, <3>2, <3>3
  <2> QED BY <1>2, <1>3, <1>5, <2>2, <2>3, <2>4, <2>5, Leading, ListsUpper
<1> QED BY <1>2, <1>6, <1>7

\* A way leads to everything listed whose folders are live.
LEMMA WayLeads ==
  ASSUME NEW L, NEW H \in SUBSET Permission, NEW n \in Nodes, Lists(L, H, n),
         Chain(n) \cap Folders \subseteq L,
         NEW m \in Chain(n), Chain(m) \subseteq L, Kind[m] \in {"org", "project", "env"}
  PROVE  Lists(L, H, m)
<1>1. Kind[n] \in {"org", "project", "env", "folder", "secret"}
  BY Parent
<1> QED BY <1>1, WayFromUpper, WayFromLower

-----------------------------------------------------------------------------
(* Results and pages *)

Matches(q) == Matching(live, held, q)

LEMMA QueryTyped ==
  ASSUME NEW q \in Queries
  PROVE  /\ q.op \in Ops /\ q.folder \in Folders \cup {NoNode}
         /\ q.project \in Nodes /\ q.code \in Int /\ q.size \in Int
BY ListingsAssumption DEF OfKind

\* What a query can match at any time.
Fetchable(q, n) ==
  /\ n \in IF q.op = "folders" THEN Folders ELSE Secrets
  /\ q.op # "code"
  /\ q.op = "path" => /\ EnvOf(n) = q.env /\ Code[Up[n]] = q.code
                      /\ q.keys = {} \/ Key[n] \in q.keys
  /\ q.op = "across" => /\ q.project \in Chain(n)
                        /\ q.keys # {} => Code[Up[n]] = q.code /\ Key[n] \in q.keys

LEMMA MatchingFetchable ==
  ASSUME NEW L, NEW H, NEW q \in Queries, NEW n \in Matching(L, H, q)
  PROVE  Fetchable(q, n) /\ n \in Nodes
<1>1. Folders \subseteq Nodes /\ Secrets \subseteq Nodes
  BY DEF Folders, Secrets, OfKind
<1>2. CASE q.op = "list"
  BY <1>1, <1>2 DEF Matching, Fetchable, ListSecrets
<1>3. CASE q.op \in {"search", "group"}
  BY <1>1, <1>3 DEF Matching, Fetchable, ListSecretsWithCiphertext
<1>4. CASE q.op = "path"
  BY <1>1, <1>4 DEF Matching, Fetchable, BatchRevealSecretsByPath
<1>5. CASE q.op = "code"
  BY <1>1, <1>5 DEF Matching, Fetchable, ByNullKeys
<1>6. CASE q.op = "across"
  BY <1>1, <1>6 DEF Matching, Fetchable, ListSecretsInProjectByEnvs, ListSecretsByProjectFolderKey
<1>7. CASE q.op = "folders"
  BY <1>1, <1>7 DEF Matching, Fetchable, ListFoldersInProject
<1> QED BY <1>2, <1>3, <1>4, <1>5, <1>6, <1>7, QueryTyped DEF Ops

\* Rows that match are live.
LEMMA MatchingLive ==
  ASSUME NEW L, NEW H, NEW q \in Queries, q.op # "folders"
  PROVE  Matching(L, H, q) \subseteq L
<1>1. ASSUME NEW n \in Secrets, NEW a, ListsSecret(L, H, n, a)
      PROVE  n \in L
  <2>1. n \in Nodes /\ n \notin Folders
    BY DEF Secrets, Folders, OfKind
  <2>2. n \in Joined(n)
    BY <2>1, ChainIn, JoinedIsChain
  <2> QED BY <1>1, <2>2 DEF ListsSecret
<1>2. CASE q.op = "list"
  BY <1>1, <1>2 DEF Matching, ListSecrets
<1>3. CASE q.op \in {"search", "group"}
  BY <1>1, <1>3 DEF Matching, ListSecretsWithCiphertext
<1>4. CASE q.op = "path"
  BY <1>1, <1>4 DEF Matching, BatchRevealSecretsByPath
<1>5. CASE q.op = "code"
  BY <1>5 DEF Matching, ByNullKeys
<1>6. CASE q.op = "across"
  BY <1>1, <1>6 DEF Matching, ListSecretsInProjectByEnvs, ListSecretsByProjectFolderKey
<1> QED BY <1>2, <1>3, <1>4, <1>5, <1>6, QueryTyped DEF Ops

\* All elements of a finite set, each once: as many places as elements.
LEMMA Arranged ==
  ASSUME NEW S, IsFiniteSet(S), NEW s \in SetToSeqs(S)
  PROVE  /\ s \in Seq(S) /\ ToSet(s) = S
         /\ \A i, j \in DOMAIN s : i # j => s[i] # s[j]
<1> DEFINE D == 1 .. Cardinality(S)
<1>1. Cardinality(S) \in Nat
  BY FS_CardinalityType
<1>2. s \in [D -> S] /\ \A i, j \in D : i # j => s[i] # s[j]
  BY DEF SetToSeqs
<1>3. s \in Injection(D, S)
  BY <1>2 DEF Injection, IsInjective
<1>4. Cardinality(D) = Cardinality(S)
  BY <1>1, FS_Interval
<1>5. s \in Surjection(D, S)
  BY <1>3, <1>4, FS_Injection
<1>6. \A x \in S : \E i \in D : s[i] = x
  BY <1>5 DEF Surjection
<1>7. s \in Seq(S)
  BY <1>1, <1>2
<1> QED BY <1>2, <1>6, <1>7 DEF ToSet

LEMMA ResultsAre ==
  ASSUME NEW q \in Queries, NEW s \in Results(q)
  PROVE  /\ s \in Seq(Nodes) /\ ToSet(s) = Matches(q)
         /\ \A i, j \in DOMAIN s : i # j => s[i] # s[j]
         /\ \A i, j \in DOMAIN s : i < j => ~ Before(q, s[j], s[i])
<1>1. Matches(q) \in SUBSET Nodes
  BY MatchingFetchable DEF Matches
<1>2. IsFiniteSet(Matches(q))
  BY <1>1, ListingsAssumption, FS_Subset
<1>3. s \in SetToSeqs(Matches(q)) /\ \A i, j \in DOMAIN s : i < j => ~ Before(q, s[j], s[i])
  BY DEF Results, Matches
<1>4. Seq(Matches(q)) \subseteq Seq(Nodes)
  BY <1>1
<1> QED BY <1>2, <1>3, <1>4, Arranged

LEMMA Sizes ==
  ASSUME NEW q \in Queries, NEW page \in Nat \ {0}
  PROVE  /\ Limit(q, page) \in Nat \ {0} /\ Offset(q, page) \in Nat
         /\ Offset(q, page + 1) = Offset(q, page) + Limit(q, page)
         /\ Limit(q, page + 1) = Limit(q, page)
<1> DEFINE size == IF q.size <= 0 THEN DefaultPageSize
                   ELSE IF q.size > MaxPageSize THEN MaxPageSize ELSE q.size
<1>1. size \in Nat \ {0}
  BY QueryTyped, ListingsAssumption
<1>2. /\ Limit(q, page) = size /\ Limit(q, page + 1) = size
      /\ Offset(q, page) = (page - 1) * size /\ Offset(q, page + 1) = page * size
  BY DEF Limit, Offset, Normalize
<1> HIDE DEF size
<1>3. /\ (page - 1) * size \in Nat
      /\ page * size = (page - 1) * size + size
  BY <1>1
<1> QED BY <1>1, <1>2, <1>3

LEMMA FirstOffset ==
  ASSUME NEW q \in Queries
  PROVE  Offset(q, 1) = 0
<1> DEFINE size == IF q.size <= 0 THEN DefaultPageSize
                   ELSE IF q.size > MaxPageSize THEN MaxPageSize ELSE q.size
<1>1. size \in Nat
  BY QueryTyped, ListingsAssumption
<1>2. Offset(q, 1) = (1 - 1) * size
  BY DEF Offset, Normalize
<1> QED BY <1>1, <1>2

LEMMA PageIs ==
  ASSUME NEW q \in Queries, NEW page \in Nat \ {0}, NEW s \in Seq(Nodes)
  PROVE  LET p == Page(s, q, page)
         IN  /\ p \in Seq(Nodes) /\ ToSet(p) \subseteq ToSet(s)
             /\ Len(p) <= Limit(q, page)
             /\ \A i \in DOMAIN s : Offset(q, page) < i /\ i <= Offset(q, page) + Limit(q, page)
                                      => s[i] \in ToSet(p)
             /\ Len(p) < Limit(q, page) => Len(s) < Offset(q, page) + Limit(q, page)
<1> DEFINE o == Offset(q, page)  l == Limit(q, page)  p == Page(s, q, page)
           end == IF Len(s) <= o + l THEN Len(s) ELSE o + l
<1>0. Len(s) \in Nat
  OBVIOUS
<1>1. o \in Nat /\ l \in Nat \ {0} /\ Len(s) \in Nat
  BY <1>0, Sizes
<1> HIDE DEF o, l
<1>2. Min({Len(s), o + l}) = end
  <2>1. end \in {Len(s), o + l} /\ \A y \in {Len(s), o + l} : end =< y
    BY <1>1
  <2>2. \A x \in {Len(s), o + l} : (\A y \in {Len(s), o + l} : x =< y) => x = end
    BY <1>1
  <2> QED BY <2>1, <2>2 DEF Min
<1>3. p = SubSeq(s, o + 1, end)
  BY <1>2 DEF o, l, Page
<1> HIDE DEF p
<1>4. end \in Nat /\ end <= Len(s) /\ end <= o + l
  BY <1>1
<1>5. CASE o + 1 <= end
  <2>1. /\ p \in Seq(Nodes) /\ Len(p) = end - o
        /\ \A i \in 1 .. Len(p) : p[i] = s[o + i]
    <3> DEFINE low == o + 1
    <3>1. low \in 1 .. Len(s) /\ end \in low .. Len(s) /\ p = SubSeq(s, low, end)
      BY <1>1, <1>3, <1>4, <1>5
    <3>2. low \in Nat /\ o = low - 1
      BY <1>1
    <3> HIDE DEF low, end
    <3>3. /\ SubSeq(s, low, end) \in Seq(Nodes) /\ Len(SubSeq(s, low, end)) = end - low + 1
          /\ \A i \in 1 .. end - low + 1 : SubSeq(s, low, end)[i] = s[low + i - 1]
      BY <3>1, SubSeqProperties
    <3>4. p \in Seq(Nodes) /\ Len(p) = end - low + 1
      BY <3>1, <3>3
    <3>5. end - low + 1 = end - o /\ \A i \in 1 .. end - low + 1 : low + i - 1 = o + i
      BY <1>4, <3>2
    <3> QED BY <3>1, <3>3, <3>4, <3>5
  <2>2. \A i \in 1 .. Len(p) : p[i] \in ToSet(s)
    <3> TAKE i \in 1 .. Len(p)
    <3>1. o + i \in 1 .. Len(s)
      BY <1>1, <1>4, <2>1
    <3> QED BY <2>1, <3>1 DEF ToSet
  <2>3. \A i \in DOMAIN s : o < i /\ i <= o + l => s[i] \in ToSet(p)
    <3> SUFFICES ASSUME NEW i \in DOMAIN s, o < i, i <= o + l
                 PROVE  s[i] \in ToSet(p)
      OBVIOUS
    <3>1. i - o \in 1 .. Len(p) /\ o + (i - o) = i
      BY <1>1, <1>4, <2>1
    <3>2. p[i - o] = s[i] /\ i - o \in DOMAIN p
      BY <2>1, <3>1
    <3> QED BY <3>2 DEF ToSet
  <2>4. ToSet(p) \subseteq ToSet(s)
    BY <2>1, <2>2 DEF ToSet
  <2> QED BY <1>1, <1>4, <2>1, <2>3, <2>4 DEF p, o, l
<1>6. CASE ~ (o + 1 <= end)
  <2>1. p = << >> /\ p \in Seq(Nodes) /\ Len(p) = 0 /\ ToSet(p) = {}
    BY <1>1, <1>3, <1>4, <1>6 DEF ToSet
  <2>2. \A i \in DOMAIN s : ~ (o < i /\ i <= o + l)
    BY <1>1, <1>6
  <2>3. Len(s) < o + l
    BY <1>1, <1>6
  <2> QED BY <1>1, <2>1, <2>2, <2>3 DEF p, o, l
<1> QED BY <1>5, <1>6

-----------------------------------------------------------------------------
(* Types *)

Pcs == {"idle", "query", "reveal", "audit", "allow", "done", "failed"}
Client == [pc : Pcs, query : Queries, page : Nat \ {0}, rows : Seq(Nodes), todo : Seq(Nodes),
           answer : SUBSET Nodes, steady : SUBSET Nodes, ever : SUBSET Nodes,
           always : SUBSET Nodes, lost : BOOLEAN]

TypeOK ==
  /\ live \in SUBSET Nodes /\ unborn \in SUBSET Nodes /\ held \in SUBSET Permission
  /\ changes \in Nat
  /\ client \in Client

-----------------------------------------------------------------------------
(* What the steps do *)

\* The request moves on: where to, and with what.
Goes(pc, page, rows, todo, answer) ==
  /\ client' \in Client
  /\ client'.pc = pc /\ client'.page = page /\ client'.rows = rows
  /\ client'.todo = todo /\ client'.answer = answer
  /\ client'.query = client.query /\ client'.steady = client.steady
  /\ client'.ever = client.ever /\ client'.always = client.always
  /\ client'.lost = client.lost
  /\ UNCHANGED <<live, unborn, held, changes>>

Changing ==
  /\ live' \in SUBSET Nodes /\ unborn' \in SUBSET Nodes /\ held' \in SUBSET Permission
  /\ changes' \in Nat /\ audits' = audits
  /\ KeysUnique(live) => KeysUnique(live')
  /\ client' \in Client
  /\ client'.pc = client.pc /\ client'.page = client.page /\ client'.rows = client.rows
  /\ client'.todo = client.todo /\ client'.answer = client.answer
  /\ client'.query = client.query
  /\ client'.steady = client.steady \cap Readable(live', held', client.query)
  /\ client'.ever = client.ever \cup Revealable(live', held')
  /\ client'.always = client.always \cap Revealable(live', held')
  /\ ~ client'.lost =>
       ~ client.lost /\ Matching(live, held, client.query) \subseteq Matching(live', held', client.query)

Asking ==
  /\ client.pc = "idle" /\ client' \in Client
  /\ client'.pc = "query" /\ client'.page = 1 /\ client'.rows = << >> /\ client'.todo = << >>
  /\ client'.answer = {}
  /\ client'.steady = Readable(live, held, client'.query)
  /\ client'.ever = Revealable(live, held) /\ client'.always = Revealable(live, held)
  /\ UNCHANGED <<live, unborn, held, changes, audits>>

Listing ==
  /\ At("query", "list") /\ audits' = audits
  /\ \E s \in Results(client.query) :
       LET p == Page(s, client.query, client.page)
       IN  IF Len(p) < Limit(client.query, client.page)
             THEN Goes("done", client.page, << >>, << >>, client.answer \cup ToSet(p))
             ELSE Goes("query", client.page + 1, client.rows, client.todo,
                       client.answer \cup ToSet(p))

Searching ==
  /\ At("query", "search") /\ audits' = audits
  /\ \E s \in Results(client.query) :
       Goes("reveal", client.page, Page(s, client.query, 1), Page(s, client.query, 1), client.answer)

Revealing ==
  /\ At("reveal", "search") /\ client.todo # << >> /\ audits' = audits
  /\ \/ Goes("reveal", client.page, client.rows, Tail(client.todo),
             IF MayReveal(Head(client.todo)) THEN client.answer \cup {Head(client.todo)}
                                             ELSE client.answer)
     \/ Goes("failed", client.page, client.rows, << >>, {})

Filling ==
  /\ At("reveal", "search") /\ client.todo = << >> /\ audits' = audits
  /\ Goes("done", client.page, client.rows, << >>, client.answer)

Grouping ==
  /\ At("query", "group") /\ audits' = audits
  /\ \E s \in Results(client.query) :
       LET p == Page(s, client.query, 1)
       IN  Goes("done", client.page, p, << >>,
                client.answer \cup aggregateSecretsByProject(p, client.query, 1))

Batching ==
  /\ client.pc = "query" /\ client.query.op \in {"path", "code", "across"} /\ audits' = audits
  /\ \E s \in Results(client.query) :
       Goes("audit", client.page, s, client.todo, client.answer)

Auditing ==
  /\ client.pc = "audit"
  /\ audits' = IF client.rows = << >> THEN audits
                                      ELSE audits \cup {AuditRow(client.query, client.rows)}
  /\ Goes("done", client.page, client.rows, << >>,
          client.answer \cup BatchValues(client.query, client.rows))

Failing ==
  /\ client.pc = "audit" /\ audits' = audits
  /\ Goes("failed", client.page, client.rows, client.todo, {})

Opening ==
  /\ At("query", "folders") /\ audits' = audits
  /\ \E s \in Results(client.query) : Goes("allow", client.page, client.rows, s, client.answer)

Allowing ==
  /\ At("allow", "folders") /\ client.todo # << >> /\ audits' = audits
  /\ Goes("allow", client.page,
          IF Allow(live, held, Head(client.todo), "read")
            THEN Append(client.rows, Head(client.todo)) ELSE client.rows,
          Tail(client.todo), client.answer)

Shown(rows) == {n \in ToSet(rows) : InGroup(n, {m \in ToSet(rows) : ~ Level2(m)})}
Assembling ==
  /\ At("allow", "folders") /\ client.todo = << >> /\ audits' = audits
  /\ Goes("done", client.page, << >>, << >>, client.answer \cup Shown(client.rows))

LEMMA ToSetIn ==
  ASSUME NEW s \in Seq(Nodes)
  PROVE  ToSet(s) \subseteq Nodes
BY DEF ToSet

LEMMA Answered ==
  ASSUME TypeOK, NEW S \in SUBSET Nodes, client' = Answer(S),
         UNCHANGED <<live, unborn, held, changes>>
  PROVE  Goes("done", client.page, << >>, << >>, client.answer \cup S)
<1> DEFINE a == client.answer \cup S
<1>1. client \in Client /\ << >> \in Seq(Nodes)
  BY DEF TypeOK
<1>2. a \in SUBSET Nodes
  BY <1>1 DEF Client
<1>3. client' = [client EXCEPT !.pc = "done", !.answer = a, !.rows = << >>, !.todo = << >>]
  BY DEF Answer
<1> HIDE DEF a
<1>4. client' \in Client
  BY <1>1, <1>2, <1>3 DEF Client, Pcs
<1>5. Goes("done", client.page, << >>, << >>, a)
  BY <1>1, <1>3, <1>4 DEF Goes, Client
<1> QED BY <1>5 DEF a

LEMMA ListStep ==
  ASSUME TypeOK, List
  PROVE  Listing
<1>1. At("query", "list") /\ client \in Client /\ client.query \in Queries
      /\ client.page \in Nat \ {0}
  BY DEF List, Fetch, At, TypeOK, Client
<1>2. PICK s \in Results(client.query) :
        client' = IF Len(Page(s, client.query, client.page)) < Limit(client.query, client.page)
          THEN Answer(ToSet(Page(s, client.query, client.page)))
          ELSE [client EXCEPT !.answer = @ \cup ToSet(Page(s, client.query, client.page)),
                              !.page = @ + 1]
  BY DEF List, Fetch
<1>3. s \in Seq(Nodes)
  BY <1>1, ResultsAre
<1> DEFINE p == Page(s, client.query, client.page)
<1>4. p \in Seq(Nodes) /\ ToSet(p) \in SUBSET Nodes
  BY <1>1, <1>3, PageIs, ToSetIn
<1>5. UNCHANGED <<live, unborn, held, changes, audits>>
  BY DEF List, Fetch
<1> HIDE DEF p
<1>6. CASE Len(p) < Limit(client.query, client.page)
  <2>1. client' = Answer(ToSet(p))
    BY <1>2, <1>6 DEF p
  <2>2. Goes("done", client.page, << >>, << >>, client.answer \cup ToSet(p))
    BY <1>4, <1>5, <2>1, Answered
  <2> QED BY <1>1, <1>5, <1>6, <2>2 DEF Listing, p
<1>7. CASE ~ (Len(p) < Limit(client.query, client.page))
  <2>1. client' = [client EXCEPT !.answer = @ \cup ToSet(p), !.page = @ + 1]
    BY <1>2, <1>7 DEF p
  <2>2. client.pc = "query" /\ client.page + 1 \in Nat \ {0}
    BY <1>1 DEF At
  <2>3. Goes("query", client.page + 1, client.rows, client.todo, client.answer \cup ToSet(p))
    BY <1>1, <1>4, <1>5, <2>1, <2>2 DEF Goes, Client, Pcs
  <2> QED BY <1>1, <1>5, <1>7, <2>3 DEF Listing, p
<1> QED BY <1>6, <1>7

LEMMA SearchStep ==
  ASSUME TypeOK, Search
  PROVE  Searching
<1>1. At("query", "search") /\ client \in Client /\ client.query \in Queries
  BY DEF Search, Fetch, At, TypeOK, Client
<1>2. PICK s \in Results(client.query) :
        client' = [client EXCEPT !.pc = "reveal", !.todo = Page(s, client.query, 1),
                                 !.rows = Page(s, client.query, 1)]
  BY DEF Search, Fetch
<1>3. Page(s, client.query, 1) \in Seq(Nodes)
  BY <1>1, ResultsAre, PageIs
<1>4. UNCHANGED <<live, unborn, held, changes, audits>>
  BY DEF Search, Fetch
<1> DEFINE p == Page(s, client.query, 1)
<1> HIDE DEF p
<1>5. Goes("reveal", client.page, p, p, client.answer)
  BY <1>1, <1>2, <1>3, <1>4 DEF Goes, Client, Pcs, p
<1> QED BY <1>1, <1>4, <1>5 DEF Searching, p

LEMMA RevealStep ==
  ASSUME TypeOK, revealIfPermitted
  PROVE  Revealing
<1> DEFINE n == Head(client.todo)  rest == Tail(client.todo)
           a == IF MayReveal(n) THEN client.answer \cup {n} ELSE client.answer
<1>1. At("reveal", "search") /\ client.todo # << >> /\ client \in Client
      /\ UNCHANGED <<live, unborn, held, changes, audits>>
  BY DEF revealIfPermitted, TypeOK
<1>2. client.todo \in Seq(Nodes) /\ client.answer \in SUBSET Nodes
  BY <1>1 DEF Client
<1>3. n \in Nodes /\ rest \in Seq(Nodes) /\ << >> \in Seq(Nodes)
  BY <1>1, <1>2
<1>4. a \in SUBSET Nodes
  BY <1>2, <1>3
<1>5. \/ client' = [client EXCEPT !.todo = rest, !.answer = a]
      \/ client' = [client EXCEPT !.pc = "failed", !.answer = {}, !.todo = << >>]
  BY DEF revealIfPermitted
<1> HIDE DEF n, rest, a
<1>6. CASE client' = [client EXCEPT !.todo = rest, !.answer = a]
  <2>1. Goes("reveal", client.page, client.rows, rest, a)
    BY <1>1, <1>3, <1>4, <1>6 DEF Goes, Client, Pcs, At
  <2> QED BY <1>1, <2>1 DEF Revealing, n, rest, a
<1>7. CASE client' = [client EXCEPT !.pc = "failed", !.answer = {}, !.todo = << >>]
  <2>1. Goes("failed", client.page, client.rows, << >>, {})
    BY <1>1, <1>3, <1>7 DEF Goes, Client, Pcs
  <2> QED BY <1>1, <2>1 DEF Revealing
<1> QED BY <1>5, <1>6, <1>7

LEMMA FillStep ==
  ASSUME TypeOK, fillValuesPerSecret
  PROVE  Filling
<1>1. /\ At("reveal", "search") /\ client.todo = << >> /\ client \in Client
      /\ UNCHANGED <<live, unborn, held, changes, audits>>
      /\ client' = [client EXCEPT !.pc = "done"]
  BY DEF fillValuesPerSecret, TypeOK
<1>2. Goes("done", client.page, client.rows, << >>, client.answer)
  BY <1>1 DEF Goes, Client, Pcs
<1> QED BY <1>1, <1>2 DEF Filling

LEMMA PlacedIn ==
  ASSUME NEW s \in Seq(Nodes)
  PROVE  Placed(s) \subseteq ToSet(s)
BY DEF Placed, ToSet

LEMMA GroupStep ==
  ASSUME TypeOK, SearchProject
  PROVE  Grouping
<1>1. At("query", "group") /\ client \in Client /\ client.query \in Queries
  BY DEF SearchProject, Fetch, At, TypeOK, Client
<1>2. PICK s \in Results(client.query) :
        client' = [Answer(aggregateSecretsByProject(Page(s, client.query, 1), client.query, 1))
                     EXCEPT !.rows = Page(s, client.query, 1)]
  BY DEF SearchProject, Fetch
<1>3. Page(s, client.query, 1) \in Seq(Nodes)
  BY <1>1, ResultsAre, PageIs
<1>4. UNCHANGED <<live, unborn, held, changes, audits>>
  BY DEF SearchProject, Fetch
<1> DEFINE p == Page(s, client.query, 1)
           A == aggregateSecretsByProject(p, client.query, 1)
           a == client.answer \cup A
<1>5. A \subseteq Placed(p)
  BY DEF aggregateSecretsByProject
<1>6. a \in SUBSET Nodes /\ p \in Seq(Nodes) /\ << >> \in Seq(Nodes)
  BY <1>1, <1>3, <1>5, PlacedIn, ToSetIn DEF Client
<1>7. client' = [client EXCEPT !.pc = "done", !.answer = a, !.rows = p, !.todo = << >>]
  BY <1>1, <1>2 DEF Answer, Client
<1> HIDE DEF p, A, a
<1>8. client' \in Client
  BY <1>1, <1>6, <1>7 DEF Client, Pcs
<1>9. Goes("done", client.page, p, << >>, a)
  BY <1>1, <1>4, <1>7, <1>8 DEF Goes, Client
<1> QED BY <1>1, <1>4, <1>9 DEF Grouping, p, A, a

LEMMA BatchStep ==
  ASSUME TypeOK, BatchRevealByPath \/ BatchRevealByCode \/ ListAcrossEnvs
  PROVE  Batching
<1>1. client.pc = "query" /\ client.query.op \in {"path", "code", "across"}
  BY DEF BatchRevealByPath, BatchRevealByCode, ListAcrossEnvs, Fetch
<1>2. PICK s \in Results(client.query) : client' = [client EXCEPT !.pc = "audit", !.rows = s]
  BY DEF BatchRevealByPath, BatchRevealByCode, ListAcrossEnvs, Fetch
<1>3. UNCHANGED <<live, unborn, held, changes, audits>>
  BY DEF BatchRevealByPath, BatchRevealByCode, ListAcrossEnvs, Fetch
<1>4. client \in Client /\ client.query \in Queries
  BY DEF TypeOK, Client
<1>5. s \in Seq(Nodes)
  BY <1>4, ResultsAre
<1>6. Goes("audit", client.page, s, client.todo, client.answer)
  BY <1>2, <1>3, <1>4, <1>5 DEF Goes, Client, Pcs
<1> QED BY <1>1, <1>3, <1>6 DEF Batching

LEMMA AuditStep ==
  ASSUME TypeOK, RecordAudit
  PROVE  Auditing
<1> DEFINE B == BatchValues(client.query, client.rows)  a == client.answer \cup B
<1>1. /\ client.pc = "audit"
      /\ audits' = IF client.rows = << >> THEN audits
                                          ELSE audits \cup {AuditRow(client.query, client.rows)}
      /\ client' = [Answer(B) EXCEPT !.rows = client.rows]
      /\ UNCHANGED <<live, unborn, held, changes>>
  BY DEF RecordAudit
<1>2. client \in Client
  BY DEF TypeOK
<1>3. client.rows \in Seq(Nodes) /\ << >> \in Seq(Nodes)
  BY <1>2 DEF Client
<1>4. B \subseteq ToSet(client.rows)
  BY <1>3, PlacedIn DEF BatchValues
<1>5. a \in SUBSET Nodes
  BY <1>2, <1>3, <1>4, ToSetIn DEF Client
<1>6. client' = [client EXCEPT !.pc = "done", !.answer = a, !.todo = << >>]
  BY <1>1, <1>2 DEF Answer, Client
<1> HIDE DEF B, a
<1>7. client' \in Client
  BY <1>2, <1>3, <1>5, <1>6 DEF Client, Pcs
<1>8. Goes("done", client.page, client.rows, << >>, a)
  BY <1>1, <1>2, <1>6, <1>7 DEF Goes, Client
<1> QED BY <1>1, <1>8 DEF Auditing, B, a

LEMMA FailStep ==
  ASSUME TypeOK, AuditFails
  PROVE  Failing
<1>1. /\ client.pc = "audit" /\ client \in Client
      /\ client' = [client EXCEPT !.pc = "failed", !.answer = {}]
      /\ UNCHANGED <<live, unborn, held, changes, audits>>
  BY DEF AuditFails, AnsweredUnaudited, TypeOK
<1>2. Goes("failed", client.page, client.rows, client.todo, {})
  BY <1>1 DEF Goes, Client, Pcs
<1> QED BY <1>1, <1>2 DEF Failing

LEMMA OpenStep ==
  ASSUME TypeOK, GetProjectFolderTree
  PROVE  Opening
<1>1. At("query", "folders") /\ client \in Client /\ client.query \in Queries
  BY DEF GetProjectFolderTree, Fetch, At, TypeOK, Client
<1>2. PICK s \in Results(client.query) : client' = [client EXCEPT !.pc = "allow", !.todo = s]
  BY DEF GetProjectFolderTree, Fetch
<1>3. UNCHANGED <<live, unborn, held, changes, audits>>
  BY DEF GetProjectFolderTree, Fetch
<1>4. s \in Seq(Nodes)
  BY <1>1, ResultsAre
<1>5. Goes("allow", client.page, client.rows, s, client.answer)
  BY <1>1, <1>2, <1>3, <1>4 DEF Goes, Client, Pcs
<1> QED BY <1>1, <1>3, <1>5 DEF Opening

LEMMA AllowStep ==
  ASSUME TypeOK, allowFolder
  PROVE  Allowing
<1> DEFINE n == Head(client.todo)  rest == Tail(client.todo)
           r == IF Allow(live, held, n, "read") THEN Append(client.rows, n) ELSE client.rows
<1>1. At("allow", "folders") /\ client.todo # << >> /\ client \in Client
      /\ UNCHANGED <<live, unborn, held, changes, audits>>
  BY DEF allowFolder, TypeOK
<1>2. client.todo \in Seq(Nodes) /\ client.rows \in Seq(Nodes)
  BY <1>1 DEF Client
<1>3. n \in Nodes /\ rest \in Seq(Nodes)
  BY <1>1, <1>2
<1>4. r \in Seq(Nodes)
  BY <1>2, <1>3
<1>5. client' = [client EXCEPT !.todo = rest, !.rows = r]
  BY DEF allowFolder
<1> HIDE DEF n, rest, r
<1>6. Goes("allow", client.page, r, rest, client.answer)
  BY <1>1, <1>3, <1>4, <1>5 DEF Goes, Client, Pcs, At
<1> QED BY <1>1, <1>6 DEF Allowing, n, rest, r

LEMMA AssembleStep ==
  ASSUME TypeOK, groupFolders
  PROVE  Assembling
<1>1. At("allow", "folders") /\ client.todo = << >>
      /\ UNCHANGED <<live, unborn, held, changes, audits>>
      /\ client' = Answer(Shown(client.rows))
  BY DEF groupFolders, Shown
<1>2. client.rows \in Seq(Nodes)
  BY DEF TypeOK, Client
<1>3. Shown(client.rows) \in SUBSET Nodes
  BY <1>2, ToSetIn DEF Shown
<1>4. Goes("done", client.page, << >>, << >>, client.answer \cup Shown(client.rows))
  BY <1>1, <1>3, Answered
<1> QED BY <1>1, <1>4 DEF Assembling

LEMMA ReadableIn ==
  ASSUME NEW L, NEW H, NEW q \in Queries
  PROVE  Readable(L, H, q) \subseteq Matching(L, H, q) /\ Readable(L, H, q) \subseteq Nodes
         /\ Revealable(L, H) \subseteq Nodes
BY MatchingFetchable DEF Readable, Revealable, Secrets, OfKind

LEMMA ChangeFields ==
  ASSUME TypeOK, NEW L \in SUBSET Nodes, NEW H \in SUBSET Permission, Change(L, H),
         unborn' \in SUBSET Nodes, KeysUnique(live) => KeysUnique(L)
  PROVE  Changing
<1> DEFINE q == client.query
           st == client.steady \cap Readable(L, H, q)
           ev == client.ever \cup Revealable(L, H)
           al == client.always \cap Revealable(L, H)
           lo == client.lost \/ ~ Matching(live, held, q) \subseteq Matching(L, H, q)
<1>1. client \in Client /\ q \in Queries
  BY DEF TypeOK, Client
<1>2. st \in SUBSET Nodes /\ ev \in SUBSET Nodes /\ al \in SUBSET Nodes /\ lo \in BOOLEAN
  BY <1>1, ReadableIn DEF Client
<1>3. live' = L /\ held' = H /\ changes' = changes + 1 /\ audits' = audits
      /\ client' = [client EXCEPT !.steady = st, !.ever = ev, !.always = al, !.lost = lo]
  BY DEF Change
<1>4. lo = FALSE => client.lost = FALSE /\ Matching(live, held, q) \subseteq Matching(L, H, q)
  BY <1>1 DEF Client
<1> HIDE DEF q, st, ev, al, lo
<1>5. client' \in Client /\ client'.pc = client.pc /\ client'.page = client.page
      /\ client'.rows = client.rows /\ client'.todo = client.todo
      /\ client'.answer = client.answer /\ client'.query = client.query
      /\ client'.steady = st /\ client'.ever = ev /\ client'.always = al /\ client'.lost = lo
  BY <1>1, <1>2, <1>3 DEF Client
<1>6. changes' \in Nat
  BY <1>3 DEF TypeOK
<1>7. ~ lo => ~ client.lost /\ Matching(live, held, q) \subseteq Matching(L, H, q)
  BY <1>2, <1>4
<1> QED BY <1>3, <1>5, <1>6, <1>7 DEF Changing, q, st, ev, al

LEMMA ChangeStep ==
  ASSUME TypeOK,
         \/ \E n \in Nodes : Create(n) \/ Delete(n)
         \/ \E p \in Grants : Grant(p) \/ Revoke(p)
  PROVE  Changing
<1>1. live \in SUBSET Nodes /\ held \in SUBSET Permission /\ unborn \in SUBSET Nodes
  BY DEF TypeOK
<1>2. ASSUME NEW n \in Nodes, Create(n)
      PROVE  Changing
  <2>1. Change(live \cup {n}, held) /\ KeysUnique(live \cup {n}) /\ unborn' = unborn \ {n}
    BY <1>2 DEF Create
  <2> QED BY <1>1, <2>1, ChangeFields
<1>3. ASSUME NEW n \in Nodes, Delete(n)
      PROVE  Changing
  <2> DEFINE L == live \ {m \in live : n \in Joined(m)}
  <2>1. Change(L, held) /\ unborn' = unborn
    BY <1>3 DEF Delete
  <2>2. L \in SUBSET Nodes /\ (KeysUnique(live) => KeysUnique(L))
    BY <1>1 DEF KeysUnique
  <2> QED BY <1>1, <2>1, <2>2, ChangeFields
<1>4. ASSUME NEW p \in Grants, Grant(p)
      PROVE  Changing
  <2>1. Change(live, held \cup {p}) /\ unborn' = unborn /\ p \in Permission
    BY <1>4, ListingsAssumption DEF Grant
  <2>2. held \cup {p} \in SUBSET Permission
    BY <1>1, <2>1
  <2> QED BY <1>1, <2>1, <2>2, ChangeFields
<1>5. ASSUME NEW p \in Grants, Revoke(p)
      PROVE  Changing
  <2>1. Change(live, held \ {p}) /\ unborn' = unborn
    BY <1>5 DEF Revoke
  <2>2. held \ {p} \in SUBSET Permission
    BY <1>1
  <2> QED BY <1>1, <2>1, <2>2, ChangeFields
<1> QED BY <1>2, <1>3, <1>4, <1>5

LEMMA IdleTyped == Idle \in Client /\ Idle.pc = "idle" /\ Idle.rows = << >> /\ Idle.todo = << >>
                   /\ Idle.answer = {} /\ Idle.page = 1
<1>1. (CHOOSE q \in Queries : TRUE) \in Queries
  BY ListingsAssumption
<1>2. << >> \in Seq(Nodes)
  OBVIOUS
<1> QED BY <1>1, <1>2 DEF Idle, Client, Pcs

LEMMA AskStep ==
  ASSUME TypeOK, NEW q \in Queries, Ask(q)
  PROVE  Asking
<1> DEFINE r == Readable(live, held, q)  v == Revealable(live, held)
<1>1. client.pc = "idle" /\ UNCHANGED <<live, unborn, held, changes, audits>>
      /\ client' = [Idle EXCEPT !.pc = "query", !.query = q, !.steady = r, !.ever = v,
                                !.always = v]
  BY DEF Ask
<1>2. r \in SUBSET Nodes /\ v \in SUBSET Nodes
  BY ReadableIn
<1> HIDE DEF r, v
<1>3. client' \in Client /\ client'.pc = "query" /\ client'.page = 1 /\ client'.rows = << >>
      /\ client'.todo = << >> /\ client'.answer = {} /\ client'.query = q
      /\ client'.steady = r /\ client'.ever = v /\ client'.always = v
  BY <1>1, <1>2, IdleTyped DEF Client, Pcs
<1> QED BY <1>1, <1>3 DEF Asking, r, v

\* Every step is one of these.
LEMMA Steps ==
  ASSUME TypeOK, [Next]_vars
  PROVE  \/ vars' = vars
         \/ Changing \/ Asking
         \/ Listing \/ Searching \/ Revealing \/ Filling \/ Grouping
         \/ Batching \/ Auditing \/ Failing
         \/ Opening \/ Allowing \/ Assembling
<1>1. CASE vars' = vars
  BY <1>1
<1>2. CASE Next
  <2>1. CASE \/ \E n \in Nodes : Create(n) \/ Delete(n)
             \/ \E p \in Grants : Grant(p) \/ Revoke(p)
    BY <2>1, ChangeStep
  <2>2. CASE \E q \in Queries : Ask(q)
    BY <2>2, AskStep
  <2>3. CASE List
    BY <2>3, ListStep
  <2>4. CASE Search \/ revealIfPermitted \/ fillValuesPerSecret
    BY <2>4, SearchStep, RevealStep, FillStep
  <2>5. CASE SearchProject
    BY <2>5, GroupStep
  <2>6. CASE BatchRevealByPath \/ BatchRevealByCode \/ ListAcrossEnvs
    BY <2>6, BatchStep
  <2>7. CASE RecordAudit \/ AuditFails
    BY <2>7, AuditStep, FailStep
  <2>8. CASE GetProjectFolderTree \/ allowFolder \/ groupFolders
    BY <2>8, OpenStep, AllowStep, AssembleStep
  <2> QED BY <1>2, <2>1, <2>2, <2>3, <2>4, <2>5, <2>6, <2>7, <2>8 DEF Next
<1> QED BY <1>1, <1>2

LEMMA TypeInit ==
  ASSUME Init
  PROVE  TypeOK
<1>1. /\ live = InitialLive /\ unborn = Unborn /\ held = InitialHeld /\ changes = 0
      /\ client = Idle
  BY DEF Init
<1>2. InitialLive \subseteq Nodes /\ Unborn \subseteq Nodes /\ InitialHeld \subseteq Permission
  BY ListingsAssumption
<1> QED BY <1>1, <1>2, IdleTyped DEF TypeOK

LEMMA TypeStep ==
  ASSUME TypeOK, [Next]_vars
  PROVE  TypeOK'
<1>1. CASE vars' = vars
  BY <1>1 DEF TypeOK, vars
<1>2. CASE Changing
  BY <1>2 DEF Changing, TypeOK
<1>3. CASE Asking
  BY <1>3 DEF Asking, TypeOK
<1>4. CASE Listing
  BY <1>4 DEF Listing, Goes, TypeOK
<1>5. CASE Searching \/ Grouping \/ Batching \/ Opening
  BY <1>5 DEF Searching, Grouping, Batching, Opening, Goes, TypeOK
<1>6. CASE Revealing \/ Filling \/ Auditing \/ Failing \/ Allowing \/ Assembling
  BY <1>6 DEF Revealing, Filling, Auditing, Failing, Allowing, Assembling, Goes, TypeOK
<1> QED BY <1>1, <1>2, <1>3, <1>4, <1>5, <1>6, Steps

-----------------------------------------------------------------------------
(* What the invariant says *)

\* Rows at work are what the query can match, and in no folder two with one
\* key; until there is something to answer the answer is empty.
RowsFit ==
  /\ KeysUnique(live)
  /\ \A n \in ToSet(client.rows) \cup ToSet(client.todo) : Fetchable(client.query, n)
  /\ client.query.op # "folders" => KeysUnique(ToSet(client.rows))
  /\ client.pc \in {"idle", "query"} =>
       /\ client.rows = << >> /\ client.todo = << >>
       /\ client.query.op # "list" => client.answer = {}
  /\ client.pc \in {"audit", "allow"} => client.answer = {}
  /\ client.pc = "audit" => client.query.op \in {"path", "code", "across"}

\* The histories enclose what is true now.
HistoriesEnclose ==
  client.pc # "idle" =>
    /\ client.always \subseteq Revealable(live, held)
    /\ Revealable(live, held) \subseteq client.ever
    /\ client.steady \subseteq Readable(live, held, client.query)

\* What could be revealed all the time is answered, or still to be.
ValuesComing ==
  client.query.op = "search" =>
    /\ client.pc \in {"reveal", "done"} => client.answer \subseteq client.ever
    /\ client.pc = "reveal" =>
         ToSet(client.rows) \cap client.always \subseteq client.answer \cup ToSet(client.todo)
    /\ client.pc = "done" => ToSet(client.rows) \cap client.always \subseteq client.answer

\* Groups and lists across environments keep the last row of every place.
PlacesKept ==
  client.pc = "done" /\ client.query.op \in {"group", "across"} =>
    client.answer = Placed(client.rows)

\* What is readable all the time has passed the authorizer, or will be asked.
FoldersComing ==
  client.query.op = "folders" =>
    /\ client.pc = "allow" => client.steady \subseteq ToSet(client.rows) \cup ToSet(client.todo)
    /\ client.pc = "done" => \A n \in client.steady \ client.answer :
                               Level2(n) /\ Up[n] \notin client.answer

\* What has not been seen on earlier pages comes on later ones: enough rows
\* are before it.
Preceding(L, H, q, n) == {m \in Matching(L, H, q) : Key[m] < Key[n]}
PagesComing ==
  client.query.op = "list" /\ client.query.folder # NoNode /\ ~ client.lost =>
    /\ client.pc = "query" => \A n \in client.steady \ client.answer :
         Cardinality(Preceding(live, held, client.query, n)) >= Offset(client.query, client.page)
    /\ client.pc = "done" => client.steady \subseteq client.answer

Inv == /\ TypeOK /\ RowsFit /\ HistoriesEnclose
       /\ ValuesComing /\ BatchesAudited /\ PlacesKept /\ FoldersComing /\ PagesComing

-----------------------------------------------------------------------------
(* Rows and histories *)

LEMMA ToSetOf ==
  /\ ToSet(<< >>) = {}
  /\ \A s \in Seq(Nodes) : s # << >> => ToSet(s) = {Head(s)} \cup ToSet(Tail(s))
  /\ \A s \in Seq(Nodes), n \in Nodes : ToSet(Append(s, n)) = ToSet(s) \cup {n}
<1>1. ToSet(<< >>) = {}
  BY DEF ToSet
<1>2. ASSUME NEW s \in Seq(Nodes), s # << >>
      PROVE  ToSet(s) = {Head(s)} \cup ToSet(Tail(s))
  <2>1. /\ Len(s) \in Nat \ {0} /\ Tail(s) \in Seq(Nodes) /\ Len(Tail(s)) = Len(s) - 1
        /\ Head(s) = s[1] /\ \A i \in 1 .. Len(s) - 1 : Tail(s)[i] = s[i + 1]
    BY <1>2
  <2>2. \A i \in DOMAIN s : i = 1 \/ (i - 1 \in 1 .. Len(s) - 1 /\ (i - 1) + 1 = i)
    BY <2>1
  <2>3. ToSet(s) \subseteq {Head(s)} \cup ToSet(Tail(s))
    <3> SUFFICES ASSUME NEW i \in DOMAIN s
                 PROVE  s[i] \in {Head(s)} \cup ToSet(Tail(s))
      BY DEF ToSet
    <3>1. CASE i = 1
      BY <2>1, <3>1
    <3>2. CASE i - 1 \in 1 .. Len(s) - 1 /\ (i - 1) + 1 = i
      <4>1. i - 1 \in DOMAIN Tail(s) /\ Tail(s)[i - 1] = s[i]
        BY <2>1, <3>2
      <4> QED BY <4>1 DEF ToSet
    <3> QED BY <2>2, <3>1, <3>2
  <2>4. ToSet(Tail(s)) \subseteq ToSet(s)
    <3> SUFFICES ASSUME NEW i \in DOMAIN Tail(s)
                 PROVE  Tail(s)[i] \in ToSet(s)
      BY DEF ToSet
    <3>1. i + 1 \in DOMAIN s /\ Tail(s)[i] = s[i + 1]
      BY <2>1
    <3> QED BY <3>1 DEF ToSet
  <2>5. Head(s) \in ToSet(s)
    BY <2>1 DEF ToSet
  <2> QED BY <2>3, <2>4, <2>5
<1>3. ASSUME NEW s \in Seq(Nodes), NEW n \in Nodes
      PROVE  ToSet(Append(s, n)) = ToSet(s) \cup {n}
  <2>1. /\ Len(s) \in Nat /\ Append(s, n) \in Seq(Nodes) /\ Len(Append(s, n)) = Len(s) + 1
        /\ Append(s, n)[Len(s) + 1] = n /\ \A i \in 1 .. Len(s) : Append(s, n)[i] = s[i]
    OBVIOUS
  <2>2. \A i \in 1 .. Len(s) + 1 : i \in 1 .. Len(s) \/ i = Len(s) + 1
    BY <2>1
  <2> QED BY <2>1, <2>2 DEF ToSet
<1> QED BY <1>1, <1>2, <1>3

LEMMA KeysUniqueBelow ==
  ASSUME NEW S, NEW T, T \subseteq S, KeysUnique(S)
  PROVE  KeysUnique(T)
BY DEF KeysUnique

\* What a query of secrets returns fits, and so does a page of it.
LEMMA ResultsFit ==
  ASSUME TypeOK, KeysUnique(live), NEW s \in Results(client.query),
         NEW t \in Seq(Nodes), ToSet(t) \subseteq ToSet(s)
  PROVE  /\ \A n \in ToSet(t) : Fetchable(client.query, n)
         /\ client.query.op # "folders" => KeysUnique(ToSet(t))
<1>1. client.query \in Queries
  BY DEF TypeOK, Client
<1>2. ToSet(t) \subseteq Matching(live, held, client.query)
  BY <1>1, ResultsAre DEF Matches
<1>3. client.query.op # "folders" => ToSet(t) \subseteq live
  BY <1>1, <1>2, MatchingLive
<1> QED BY <1>1, <1>2, <1>3, MatchingFetchable, KeysUniqueBelow

LEMMA RowsFitInit ==
  ASSUME Init
  PROVE  RowsFit
<1>1. client = Idle /\ live = InitialLive
  BY DEF Init
<1>2. client.rows = << >> /\ client.todo = << >> /\ client.pc = "idle" /\ client.answer = {}
  BY <1>1, IdleTyped
<1>3. KeysUnique(live) /\ KeysUnique({})
  BY <1>1, ListingsAssumption DEF KeysUnique
<1> QED BY <1>2, <1>3, ToSetOf DEF RowsFit

LEMMA RowsFitStep ==
  ASSUME TypeOK, RowsFit, [Next]_vars
  PROVE  RowsFit'
<1>0. /\ client \in Client /\ client.query \in Queries /\ KeysUnique(live)
      /\ client.rows \in Seq(Nodes) /\ client.todo \in Seq(Nodes)
      /\ KeysUnique({})
  BY DEF TypeOK, Client, RowsFit, KeysUnique
<1>1. CASE vars' = vars
  BY <1>1 DEF RowsFit, vars
<1>2. CASE Changing
  BY <1>2 DEF Changing, RowsFit
<1>3. CASE Asking
  BY <1>0, <1>3, ToSetOf DEF Asking, RowsFit
<1>4. CASE Listing
  <2>1. client'.query = client.query /\ live' = live
        /\ client'.rows = << >> /\ client'.todo = << >> /\ client'.pc \in {"done", "query"}
        /\ client.query.op = "list"
    BY <1>4 DEF Listing, Goes, At, RowsFit
  <2> QED BY <1>0, <2>1, ToSetOf DEF RowsFit
<1>5. CASE Searching
  <2>1. PICK s \in Results(client.query) :
          Goes("reveal", client.page, Page(s, client.query, 1), Page(s, client.query, 1),
               client.answer)
    BY <1>5 DEF Searching
  <2> DEFINE p == Page(s, client.query, 1)
  <2>2. p \in Seq(Nodes) /\ ToSet(p) \subseteq ToSet(s)
    BY <1>0, ResultsAre, PageIs
  <2> HIDE DEF p
  <2>3. client'.query = client.query /\ live' = live /\ client'.rows = p /\ client'.todo = p
        /\ client'.pc = "reveal"
    BY <2>1 DEF Goes, p
  <2> QED BY <1>0, <2>2, <2>3, ResultsFit DEF RowsFit
<1>6. CASE Revealing
  <2>1. /\ client'.query = client.query /\ live' = live /\ client'.rows = client.rows
        /\ client'.todo = Tail(client.todo) \/ client'.todo = << >>
        /\ client'.pc \in {"reveal", "failed"} /\ client.todo # << >>
    BY <1>6 DEF Revealing, Goes
  <2>2. ToSet(client'.todo) \subseteq ToSet(client.todo)
    BY <1>0, <2>1, ToSetOf
  <2> QED BY <2>1, <2>2 DEF RowsFit
<1>7. CASE Filling
  <2>1. /\ client'.query = client.query /\ live' = live /\ client'.rows = client.rows
        /\ client'.todo = << >> /\ client'.pc = "done"
    BY <1>7 DEF Filling, Goes
  <2> QED BY <2>1, ToSetOf DEF RowsFit
<1>8. CASE Grouping
  <2>1. PICK s \in Results(client.query) :
          Goes("done", client.page, Page(s, client.query, 1), << >>,
               client.answer \cup aggregateSecretsByProject(Page(s, client.query, 1), client.query, 1))
    BY <1>8 DEF Grouping
  <2> DEFINE p == Page(s, client.query, 1)
  <2>2. p \in Seq(Nodes) /\ ToSet(p) \subseteq ToSet(s)
    BY <1>0, ResultsAre, PageIs
  <2> HIDE DEF p
  <2>3. client'.query = client.query /\ live' = live /\ client'.rows = p /\ client'.todo = << >>
        /\ client'.pc = "done"
    BY <2>1 DEF Goes, p
  <2> QED BY <1>0, <2>2, <2>3, ResultsFit, ToSetOf DEF RowsFit
<1>9. CASE Batching
  <2>1. PICK s \in Results(client.query) :
          Goes("audit", client.page, s, client.todo, client.answer)
    BY <1>9 DEF Batching
  <2>2. s \in Seq(Nodes)
    BY <1>0, ResultsAre
  <2>3. client'.query = client.query /\ live' = live /\ client'.rows = s
        /\ client'.todo = << >> /\ client'.pc = "audit" /\ client'.answer = {}
        /\ client.query.op \in {"path", "code", "across"}
    BY <1>9, <2>1 DEF Goes, Batching, RowsFit
  <2> QED BY <1>0, <2>2, <2>3, ResultsFit, ToSetOf DEF RowsFit
<1>10. CASE Auditing
  <2>1. client'.query = client.query /\ live' = live /\ client'.rows = client.rows
        /\ client'.todo = << >> /\ client'.pc = "done"
    BY <1>10 DEF Auditing, Goes
  <2> QED BY <2>1, ToSetOf DEF RowsFit
<1>11. CASE Failing
  <2>1. client'.query = client.query /\ live' = live /\ client'.rows = client.rows
        /\ client'.todo = client.todo /\ client'.pc = "failed"
    BY <1>11 DEF Failing, Goes
  <2> QED BY <2>1 DEF RowsFit
<1>12. CASE Opening
  <2>1. PICK s \in Results(client.query) :
          Goes("allow", client.page, client.rows, s, client.answer)
    BY <1>12 DEF Opening
  <2>2. s \in Seq(Nodes)
    BY <1>0, ResultsAre
  <2>3. client'.query = client.query /\ live' = live /\ client'.todo = s
        /\ client'.rows = << >> /\ client'.pc = "allow" /\ client'.answer = {}
    BY <1>12, <2>1 DEF Goes, Opening, RowsFit, At
  <2> QED BY <1>0, <2>2, <2>3, ResultsFit, ToSetOf DEF RowsFit
<1>13. CASE Allowing
  <2> DEFINE n == Head(client.todo)
  <2>1. /\ client.todo # << >> /\ client'.query = client.query /\ live' = live
        /\ client'.rows = client.rows \/ client'.rows = Append(client.rows, n)
        /\ client'.todo = Tail(client.todo) /\ client'.pc = "allow"
        /\ client'.answer = client.answer /\ client.pc = "allow"
        /\ client.query.op = "folders"
    BY <1>13 DEF Allowing, Goes, At
  <2>2. n \in Nodes
    BY <1>0, <2>1
  <2>3. ToSet(client'.rows) \cup ToSet(client'.todo) \subseteq ToSet(client.rows) \cup ToSet(client.todo)
    <3>1. ToSet(client.todo) = {n} \cup ToSet(client'.todo)
      BY <1>0, <2>1, ToSetOf
    <3>2. ToSet(client'.rows) \subseteq ToSet(client.rows) \cup {n}
      BY <1>0, <2>1, <2>2, ToSetOf
    <3> QED BY <3>1, <3>2
  <2> QED BY <2>1, <2>3 DEF RowsFit
<1>14. CASE Assembling
  <2>1. client'.query = client.query /\ live' = live /\ client'.rows = << >>
        /\ client'.todo = << >> /\ client'.pc = "done"
    BY <1>14 DEF Assembling, Goes
  <2> QED BY <1>0, <2>1, ToSetOf DEF RowsFit
<1> QED BY <1>1, <1>2, <1>3, <1>4, <1>5, <1>6, <1>7, <1>8, <1>9, <1>10, <1>11, <1>12, <1>13,
           <1>14, Steps

Working == \/ Listing \/ Searching \/ Revealing \/ Filling \/ Grouping
           \/ Batching \/ Auditing \/ Failing
           \/ Opening \/ Allowing \/ Assembling

LEMMA WorkingKeeps ==
  ASSUME Working
  PROVE  /\ live' = live /\ held' = held /\ client'.query = client.query
         /\ client'.steady = client.steady /\ client'.ever = client.ever
         /\ client'.always = client.always /\ client'.lost = client.lost
         /\ client.pc # "idle" /\ client'.pc # "idle"
<1>1. CASE Listing
  BY <1>1 DEF Listing, Goes, At
<1>2. CASE Searching \/ Revealing \/ Filling
  BY <1>2 DEF Searching, Revealing, Filling, Goes, At
<1>3. CASE Grouping \/ Batching \/ Auditing \/ Failing
  BY <1>3 DEF Grouping, Batching, Auditing, Failing, Goes, At
<1>4. CASE Opening \/ Allowing \/ Assembling
  BY <1>4 DEF Opening, Allowing, Assembling, Goes, At
<1> QED BY <1>1, <1>2, <1>3, <1>4 DEF Working

LEMMA StepKinds ==
  ASSUME TypeOK, [Next]_vars
  PROVE  vars' = vars \/ Changing \/ Asking \/ Working
BY Steps DEF Working

LEMMA HistoriesInit ==
  ASSUME Init
  PROVE  HistoriesEnclose
BY IdleTyped DEF Init, HistoriesEnclose

LEMMA HistoriesStep ==
  ASSUME TypeOK, HistoriesEnclose, [Next]_vars
  PROVE  HistoriesEnclose'
<1>1. CASE vars' = vars
  BY <1>1 DEF HistoriesEnclose, vars
<1>2. CASE Changing
  BY <1>2 DEF Changing, HistoriesEnclose
<1>3. CASE Asking
  BY <1>3 DEF Asking, HistoriesEnclose
<1>4. CASE Working
  BY <1>4, WorkingKeeps DEF HistoriesEnclose
<1> QED BY <1>1, <1>2, <1>3, <1>4, StepKinds

-----------------------------------------------------------------------------
(* Values *)

LEMMA ValuesInit ==
  ASSUME Init
  PROVE  ValuesComing
BY IdleTyped DEF Init, ValuesComing

LEMMA ValuesStep ==
  ASSUME TypeOK, RowsFit, HistoriesEnclose, ValuesComing, [Next]_vars
  PROVE  ValuesComing'
<1>1. CASE vars' = vars
  BY <1>1 DEF ValuesComing, vars
<1>2. CASE Changing
  BY <1>2 DEF Changing, ValuesComing
<1>3. CASE Asking
  BY <1>3 DEF Asking, ValuesComing
<1>4. CASE Searching
  <2>1. PICK s \in Results(client.query) :
          Goes("reveal", client.page, Page(s, client.query, 1), Page(s, client.query, 1),
               client.answer)
    BY <1>4 DEF Searching
  <2>2. client.answer = {}
    BY <1>4 DEF RowsFit, Searching, At
  <2>3. client'.rows = client'.todo /\ client'.pc = "reveal" /\ client'.answer = {}
    BY <2>1, <2>2 DEF Goes
  <2> QED BY <2>3 DEF ValuesComing
<1>5. CASE Revealing
  <2> DEFINE n == Head(client.todo)
  <2>1. client.todo # << >> /\ client.pc = "reveal" /\ client.query.op = "search"
    BY <1>5 DEF Revealing, At
  <2>2. client.todo \in Seq(Nodes)
    BY DEF TypeOK, Client
  <2>3. ToSet(client.todo) = {n} \cup ToSet(Tail(client.todo))
    BY <2>1, <2>2, ToSetOf
  <2>4. n \in Secrets
    BY <2>1, <2>3 DEF RowsFit, Fetchable
  <2>5. MayReveal(n) <=> n \in Revealable(live, held)
    BY <2>4 DEF MayReveal, Revealable
  <2>6. CASE client'.pc = "failed"
    BY <2>6 DEF ValuesComing
  <2>7. CASE Goes("reveal", client.page, client.rows, Tail(client.todo),
                  IF MayReveal(n) THEN client.answer \cup {n} ELSE client.answer)
    <3>1. /\ client'.pc = "reveal" /\ client'.rows = client.rows
          /\ client'.todo = Tail(client.todo)
          /\ client'.ever = client.ever /\ client'.always = client.always
          /\ client'.answer = IF MayReveal(n) THEN client.answer \cup {n} ELSE client.answer
      BY <2>7 DEF Goes
    <3>2. client'.answer = client.answer \/ (n \in client.ever /\ client'.answer = client.answer \cup {n})
      BY <2>1, <2>5, <3>1 DEF HistoriesEnclose
    <3>3. n \in client.always => n \in client'.answer
      BY <2>1, <2>5, <3>1 DEF HistoriesEnclose
    <3>4. client'.answer \subseteq client'.ever
      BY <2>1, <3>1, <3>2 DEF ValuesComing
    <3>5. ToSet(client.rows) \cap client.always \subseteq client'.answer \cup ToSet(Tail(client.todo))
      BY <2>1, <2>3, <3>1, <3>2, <3>3 DEF ValuesComing
    <3> QED BY <3>1, <3>4, <3>5 DEF ValuesComing
  <2> QED BY <1>5, <2>6, <2>7 DEF Revealing, Goes
<1>6. CASE Filling
  <2>1. /\ client.query.op = "search" /\ client.pc = "reveal" /\ client.todo = << >>
        /\ client'.pc = "done" /\ client'.rows = client.rows /\ client'.answer = client.answer
        /\ client'.ever = client.ever /\ client'.always = client.always
    BY <1>6 DEF Filling, Goes, At
  <2> QED BY <2>1, ToSetOf DEF ValuesComing
<1>7. CASE Listing \/ Grouping \/ Batching \/ Auditing \/ Failing \/ Opening \/ Allowing \/ Assembling
  <2>1. client'.query = client.query
    BY <1>7, WorkingKeeps DEF Working
  <2>2. client.query.op # "search"
    BY <1>7 DEF RowsFit, Listing, Grouping, Batching, Auditing, Failing, Opening, Allowing,
                Assembling, At
  <2> QED BY <2>1, <2>2 DEF ValuesComing
<1> QED BY <1>1, <1>2, <1>3, <1>4, <1>5, <1>6, <1>7, Steps

-----------------------------------------------------------------------------
(* Batches and groups *)

\* An audit row names what it is written for.
LEMMA RowAudits ==
  ASSUME NEW q \in Queries, q.op \in {"path", "across"}, NEW s \in Seq(Nodes), s # << >>,
         \A n \in ToSet(s) : Fetchable(q, n), NEW n \in ToSet(s)
  PROVE  LET a == AuditRow(q, s)
         IN  /\ GroupOf(n) \in a.keys
             /\ \/ a.resource \in Chain(n)
                \/ a.resource \in Folders /\ Code[a.resource] = Code[Up[n]]
                   /\ EnvOf(a.resource) = EnvOf(n)
<1> DEFINE a == AuditRow(q, s)
<1>1. Fetchable(q, n) /\ GroupOf(n) = <<Code[Up[n]], Key[n]>>
  BY DEF GroupOf
<1>2. GroupOf(n) \in a.keys
  <2>1. a.keys = IF q.keys = {} THEN {GroupOf(m) : m \in ToSet(s)} ELSE {q.code} \X q.keys
    BY DEF AuditRow
  <2>2. CASE q.keys = {}
    BY <2>1, <2>2
  <2>3. CASE q.keys # {}
    <3>1. Code[Up[n]] = q.code /\ Key[n] \in q.keys
      BY <1>1, <2>3 DEF Fetchable
    <3> QED BY <1>1, <2>1, <2>3, <3>1
  <2> QED BY <2>2, <2>3
<1>3. CASE q.op = "across"
  <2>1. a.resource = q.project
    BY <1>3 DEF AuditRow
  <2> QED BY <1>1, <1>2, <1>3, <2>1 DEF Fetchable
<1>4. CASE q.op = "path"
  <2>1. a.resource = Up[s[1]] /\ s[1] \in ToSet(s)
    BY <1>4 DEF AuditRow, ToSet
  <2>2. Fetchable(q, s[1])
    BY <2>1
  <2>3. s[1] \in Nodes /\ Kind[s[1]] = "secret"
    BY <1>4, <2>2 DEF Fetchable, Secrets, OfKind
  <2>4. Up[s[1]] \in Folders /\ EnvOf(Up[s[1]]) = EnvOf(s[1])
    <3>1. Up[s[1]] \in Nodes /\ Kind[Up[s[1]]] = "folder"
      BY <2>3, Parent
    <3>2. Chain(s[1]) = {s[1]} \cup Chain(Up[s[1]])
      BY <2>3, ChainOfParent
    <3>3. \A m : (m \in Chain(s[1]) /\ Kind[m] = "env") <=> (m \in Chain(Up[s[1]]) /\ Kind[m] = "env")
      BY <2>3, <3>2
    <3> QED BY <3>1, <3>3, SMT DEF Folders, OfKind, EnvOf
  <2>5. Code[Up[s[1]]] = Code[Up[n]] /\ EnvOf(s[1]) = EnvOf(n)
    BY <1>1, <1>4, <2>2 DEF Fetchable
  <2> QED BY <1>2, <2>1, <2>4, <2>5
<1> QED BY <1>3, <1>4

LEMMA BatchesInit ==
  ASSUME Init
  PROVE  BatchesAudited
BY IdleTyped DEF Init, BatchesAudited

\* No answer of a batch is without its row, and rows stay.
LEMMA BatchesKept ==
  ASSUME BatchesAudited, client'.query = client.query, client'.answer = client.answer,
         audits' = audits
  PROVE  BatchesAudited'
BY DEF BatchesAudited

LEMMA BatchesStep ==
  ASSUME TypeOK, RowsFit, BatchesAudited, [Next]_vars
  PROVE  BatchesAudited'
<1>0. client.query \in Queries /\ client.rows \in Seq(Nodes)
  BY DEF TypeOK, Client
<1>1. CASE vars' = vars
  BY <1>1 DEF BatchesAudited, vars
<1>2. CASE Changing
  BY <1>2, BatchesKept DEF Changing
<1>3. CASE Asking
  BY <1>3 DEF Asking, BatchesAudited
<1>4. CASE Batching
  BY <1>4, BatchesKept DEF Batching, Goes
<1>5. CASE Failing
  BY <1>5 DEF Failing, Goes, BatchesAudited
<1>6. CASE Auditing
  <2>1. /\ client.pc = "audit" /\ client.query.op \in {"path", "code", "across"}
        /\ client.answer = {} /\ client'.query = client.query
        /\ client'.answer = client.answer \cup BatchValues(client.query, client.rows)
    BY <1>6 DEF Auditing, Goes, RowsFit
  <2>2. client'.answer \subseteq ToSet(client.rows)
    BY <1>0, <2>1, PlacedIn DEF BatchValues
  <2>3. \A n \in ToSet(client.rows) : Fetchable(client.query, n)
    BY DEF RowsFit
  <2>4. CASE client.rows = << >>
    <3>1. client'.answer = {}
      BY <2>2, <2>4, ToSetOf
    <3> QED BY <3>1 DEF BatchesAudited
  <2>5. CASE client.rows # << >>
    <3>1. AuditRow(client.query, client.rows) \in audits'
      BY <1>6, <2>5 DEF Auditing
    <3>2. client.query.op # "code"
      <4>1. Head(client.rows) \in ToSet(client.rows)
        BY <1>0, <2>5, ToSetOf
      <4> QED BY <2>3, <4>1 DEF Fetchable
    <3>3. client.query.op \in {"path", "across"}
      BY <2>1, <3>2
    <3> DEFINE a == AuditRow(client.query, client.rows)
    <3>4. \A n \in client'.answer :
            /\ GroupOf(n) \in a.keys
            /\ \/ a.resource \in Chain(n)
               \/ a.resource \in Folders /\ Code[a.resource] = Code[Up[n]]
                  /\ EnvOf(a.resource) = EnvOf(n)
      BY <1>0, <2>2, <2>3, <2>5, <3>3, RowAudits
    <3> HIDE DEF a
    <3>5. a \in audits'
      BY <3>1 DEF a
    <3> QED BY <3>4, <3>5 DEF BatchesAudited
  <2> QED BY <2>4, <2>5
<1>7. CASE Listing \/ Searching \/ Revealing \/ Filling \/ Grouping \/ Opening \/ Allowing \/ Assembling
  <2>1. client'.query = client.query
    BY <1>7, WorkingKeeps DEF Working
  <2>2. client.query.op \notin {"path", "code", "across"}
    BY <1>7 DEF Listing, Searching, Revealing, Filling, Grouping, Opening, Allowing, Assembling, At
  <2> QED BY <2>1, <2>2 DEF BatchesAudited
<1> QED BY <1>1, <1>2, <1>3, <1>4, <1>5, <1>6, <1>7, Steps

\* Of some numbers one is the least, and of bounded ones one the greatest.
LEMMA Least ==
  ASSUME NEW S \in SUBSET Nat, S # {}
  PROVE  \E n \in S : \A m \in S : n <= m
<1> DEFINE R == {pair \in Nat \X Nat : pair[1] < pair[2]}
<1>1. R = OpToRel(<, Nat)
  BY DEF OpToRel
<1>2. IsWellFoundedOn(R, Nat)
  BY <1>1, NatLessThanWellFounded
<1> HIDE DEF R
<1>3. PICK n \in S : \A m \in S : ~ (<<m, n>> \in R)
  BY <1>2, WFMin
<1>4. ASSUME NEW m \in S
      PROVE  n <= m
  <2>1. <<m, n>> \in Nat \X Nat /\ m \in Nat /\ n \in Nat
    OBVIOUS
  <2>2. m < n => <<m, n>> \in R
    BY <2>1 DEF R
  <2> QED BY <1>3, <2>1, <2>2
<1> QED BY <1>4

LEMMA Greatest ==
  ASSUME NEW S \in SUBSET Nat, S # {}, NEW N \in Nat, \A m \in S : m <= N
  PROVE  \E n \in S : \A m \in S : m <= n
<1> DEFINE T == {N - m : m \in S}
<1>0. \A m \in S : N - m \in Nat
  OBVIOUS
<1>1. T \in SUBSET Nat /\ T # {}
  BY <1>0
<1>2. PICK t \in T : \A u \in T : t <= u
  BY <1>1, Least
<1>3. PICK n \in S : t = N - n
  BY <1>2
<1>4. \A m \in S : N - n <= N - m
  BY <1>2, <1>3
<1> QED BY <1>4

\* Every place that a row has is kept by some row.
LEMMA PlaceKept ==
  ASSUME NEW s \in Seq(Nodes), NEW n \in ToSet(s)
  PROVE  \E m \in Placed(s) : PlaceOf(m) = PlaceOf(n)
<1> DEFINE S == {k \in DOMAIN s : PlaceOf(s[k]) = PlaceOf(n)}
<1>1. S \in SUBSET Nat /\ S # {} /\ Len(s) \in Nat /\ \A k \in S : k <= Len(s)
  BY DEF ToSet
<1>2. PICK k \in S : \A j \in S : j <= k
  BY <1>1, Greatest
<1>3. \A j \in DOMAIN s : j > k => PlaceOf(s[j]) # PlaceOf(s[k])
  BY <1>2
<1>4. s[k] \in Placed(s)
  BY <1>2, <1>3 DEF Placed
<1> QED BY <1>2, <1>4

\* On a first page that takes all rows, grouping loses none that has kept its
\* place.
LEMMA GroupsKeepPlaces ==
  ASSUME NEW q \in Queries, NEW s \in Seq(Nodes), Len(s) <= Limit(q, 1)
  PROVE  aggregateSecretsByProject(s, q, 1) = Placed(s)
<1> DEFINE first == {i \in DOMAIN s : \A j \in DOMAIN s : j < i => GroupOf(s[j]) # GroupOf(s[i])}
           rank(i) == Cardinality({j \in first : j <= i})
           cut == {i \in first : rank(i) > Offset(q, 1) /\ rank(i) <= Offset(q, 1) + Limit(q, 1)}
<1>1. Len(s) \in Nat /\ Offset(q, 1) = 0 /\ Limit(q, 1) \in Nat
  BY Sizes, FirstOffset
<1>2. ASSUME NEW i \in first
      PROVE  i \in cut
  <2> DEFINE F == {j \in first : j <= i}
  <2>0. DOMAIN s = 1 .. Len(s) /\ i <= i
    BY <1>2
  <2>1. F \in SUBSET (1 .. Len(s)) /\ i \in F
    BY <1>2, <2>0
  <2>2. IsFiniteSet(1 .. Len(s)) /\ Cardinality(1 .. Len(s)) = Len(s)
    <3> DEFINE N == Len(s)
    <3>1. 1 \in Int /\ N \in Int /\ N \in Nat
      BY <1>1
    <3> HIDE DEF N
    <3>2. IsFiniteSet(1 .. N) /\ Cardinality(1 .. N) = IF 1 > N THEN 0 ELSE N - 1 + 1
      BY <3>1, FS_Interval
    <3>3. (IF 1 > N THEN 0 ELSE N - 1 + 1) = N
      BY <3>1
    <3> QED BY <3>2, <3>3 DEF N
  <2>3. IsFiniteSet(F) /\ Cardinality(F) <= Len(s)
    BY <2>1, <2>2, FS_Subset
  <2>4. Cardinality(F) \in Nat /\ Cardinality(F) # 0
    BY <2>1, <2>3, FS_CardinalityType, FS_EmptySet
  <2>5. rank(i) = Cardinality(F)
    OBVIOUS
  <2> HIDE DEF F, first, rank
  <2>6. rank(i) > 0 /\ rank(i) <= Limit(q, 1)
    BY <1>1, <2>3, <2>4, <2>5
  <2> QED BY <1>1, <1>2, <2>6
<1>3. ASSUME NEW n \in Placed(s)
      PROVE  \E i \in cut : GroupOf(n) = GroupOf(s[i])
  <2> DEFINE S == {k \in DOMAIN s : GroupOf(s[k]) = GroupOf(n)}
  <2>1. S \in SUBSET Nat /\ S # {}
    BY <1>1 DEF Placed
  <2>2. PICK k \in S : \A j \in S : k <= j
    BY <2>1, Least
  <2>3. k \in first
    BY <2>1, <2>2
  <2> QED BY <1>2, <2>2, <2>3
<1>4. aggregateSecretsByProject(s, q, 1) = {n \in Placed(s) : \E i \in cut : GroupOf(n) = GroupOf(s[i])}
  BY DEF aggregateSecretsByProject
<1> HIDE DEF cut
<1> QED BY <1>3, <1>4

LEMMA PlacesInit ==
  ASSUME Init
  PROVE  PlacesKept
BY IdleTyped DEF Init, PlacesKept

LEMMA PlacesStep ==
  ASSUME TypeOK, RowsFit, PlacesKept, [Next]_vars
  PROVE  PlacesKept'
<1>0. client.query \in Queries
  BY DEF TypeOK, Client
<1>1. CASE vars' = vars
  BY <1>1 DEF PlacesKept, vars
<1>2. CASE Changing
  BY <1>2 DEF Changing, PlacesKept
<1>3. CASE Asking
  BY <1>3 DEF Asking, PlacesKept
<1>4. CASE Grouping
  <2>1. PICK s \in Results(client.query) :
          Goes("done", client.page, Page(s, client.query, 1), << >>,
               client.answer \cup aggregateSecretsByProject(Page(s, client.query, 1), client.query, 1))
    BY <1>4 DEF Grouping
  <2> DEFINE p == Page(s, client.query, 1)
  <2>2. p \in Seq(Nodes) /\ Len(p) <= Limit(client.query, 1)
    BY <1>0, ResultsAre, PageIs
  <2>3. aggregateSecretsByProject(p, client.query, 1) = Placed(p)
    BY <1>0, <2>2, GroupsKeepPlaces
  <2>4. client.answer = {}
    BY <1>4 DEF Grouping, At, RowsFit
  <2> HIDE DEF p
  <2>5. client'.rows = p /\ client'.answer = Placed(p)
    BY <2>1, <2>3, <2>4 DEF Goes, p
  <2> QED BY <2>5 DEF PlacesKept
<1>5. CASE Auditing
  <2>1. /\ client'.query = client.query /\ client'.rows = client.rows
        /\ client'.answer = client.answer \cup BatchValues(client.query, client.rows)
        /\ client.answer = {} /\ client.query.op # "group"
    BY <1>5 DEF Auditing, Goes, RowsFit
  <2> QED BY <2>1 DEF PlacesKept, BatchValues
<1>6. CASE Batching \/ Failing \/ Searching \/ Opening
  <2>1. client'.pc # "done"
    BY <1>6 DEF Batching, Failing, Searching, Opening, Goes
  <2> QED BY <2>1 DEF PlacesKept
<1>7. CASE Listing \/ Revealing \/ Filling \/ Allowing \/ Assembling
  <2>1. client'.query = client.query
    BY <1>7, WorkingKeeps DEF Working
  <2>2. client.query.op \notin {"group", "across"}
    BY <1>7 DEF Listing, Revealing, Filling, Allowing, Assembling, At
  <2> QED BY <2>1, <2>2 DEF PlacesKept
<1> QED BY <1>1, <1>2, <1>3, <1>4, <1>5, <1>6, <1>7, Steps

\* A row without its place gave it to one in another folder.
LEMMA FilledPlaces ==
  ASSUME TypeOK, RowsFit, PlacesKept
  PROVE  PlacesFilled
<1> SUFFICES ASSUME Done({"group", "across"}), NEW n \in ToSet(client.rows) \ client.answer
             PROVE  \E m \in client.answer : PlaceOf(m) = PlaceOf(n) /\ Up[m] # Up[n]
  BY DEF PlacesFilled
<1>1. client.answer = Placed(client.rows) /\ client.rows \in Seq(Nodes)
      /\ client.query.op # "folders"
  BY DEF Done, PlacesKept, TypeOK, Client
<1>2. PICK m \in client.answer : PlaceOf(m) = PlaceOf(n)
  BY <1>1, PlaceKept
<1>3. m \in ToSet(client.rows) /\ m # n
  BY <1>1, <1>2, PlacedIn
<1>4. m \in Secrets /\ n \in Secrets
  BY <1>1, <1>3 DEF RowsFit, Fetchable
<1>5. Key[m] = Key[n]
  BY <1>2 DEF PlaceOf, GroupOf
<1>6. Up[m] # Up[n]
  BY <1>1, <1>3, <1>4, <1>5 DEF RowsFit, KeysUnique
<1> QED BY <1>2, <1>6

-----------------------------------------------------------------------------
(* Folders *)

LEMMA FoldersInit ==
  ASSUME Init
  PROVE  FoldersComing
BY IdleTyped DEF Init, FoldersComing

LEMMA FoldersStep ==
  ASSUME TypeOK, RowsFit, HistoriesEnclose, FoldersComing, [Next]_vars
  PROVE  FoldersComing'
<1>0. /\ client.query \in Queries /\ client.rows \in Seq(Nodes) /\ client.todo \in Seq(Nodes)
  BY DEF TypeOK, Client
<1>1. CASE vars' = vars
  BY <1>1 DEF FoldersComing, vars
<1>2. CASE Changing
  BY <1>2 DEF Changing, FoldersComing
<1>3. CASE Asking
  BY <1>3 DEF Asking, FoldersComing
<1>4. CASE Opening
  <2>1. PICK s \in Results(client.query) :
          Goes("allow", client.page, client.rows, s, client.answer)
    BY <1>4 DEF Opening
  <2>2. ToSet(s) = Matching(live, held, client.query)
    BY <1>0, ResultsAre DEF Matches
  <2>3. client.steady \subseteq ToSet(s)
    BY <1>0, <1>4, <2>2, ReadableIn DEF HistoriesEnclose, Opening, At
  <2>4. client'.pc = "allow" /\ client'.todo = s /\ client'.steady = client.steady
    BY <2>1 DEF Goes
  <2> QED BY <2>3, <2>4 DEF FoldersComing
<1>5. CASE Allowing
  <2> DEFINE n == Head(client.todo)
  <2>1. /\ client.todo # << >> /\ client.pc = "allow" /\ client.query.op = "folders"
        /\ client'.pc = "allow" /\ client'.todo = Tail(client.todo)
        /\ client'.steady = client.steady
        /\ client'.rows = IF Allow(live, held, n, "read") THEN Append(client.rows, n) ELSE client.rows
    BY <1>5 DEF Allowing, Goes, At
  <2>2. n \in Nodes /\ ToSet(client.todo) = {n} \cup ToSet(client'.todo)
    BY <1>0, <2>1, ToSetOf
  <2>3. n \in client.steady => Allow(live, held, n, "read")
    BY <2>1 DEF HistoriesEnclose, Readable
  <2>4. /\ ToSet(client.rows) \subseteq ToSet(client'.rows)
        /\ n \in client.steady => n \in ToSet(client'.rows)
    BY <1>0, <2>1, <2>2, <2>3, ToSetOf
  <2>5. client.steady \subseteq ToSet(client.rows) \cup ToSet(client.todo)
    BY <2>1 DEF FoldersComing
  <2> QED BY <2>1, <2>2, <2>4, <2>5 DEF FoldersComing
<1>6. CASE Assembling
  <2> DEFINE R == ToSet(client.rows)
  <2>1. /\ client.todo = << >> /\ client.pc = "allow" /\ client.query.op = "folders"
        /\ client'.pc = "done" /\ client'.steady = client.steady
        /\ client'.answer = client.answer \cup Shown(client.rows) /\ client.answer = {}
    BY <1>6 DEF Assembling, Goes, At, RowsFit
  <2>2. client.steady \subseteq R
    BY <2>1, ToSetOf DEF FoldersComing
  <2>3. client'.answer = {n \in R : ~ Level2(n) \/ Up[n] \in {m \in R : ~ Level2(m)}}
    BY <2>1 DEF Shown, InGroup
  <2>4. \A n \in R : Level2(n) => ~ Level2(Up[n])
    <3>1. R \subseteq Nodes
      BY <1>0, ToSetIn
    <3> QED BY <3>1, Parent DEF Level2
  <2> HIDE DEF R
  <2>5. \A n \in client.steady \ client'.answer : Level2(n) /\ Up[n] \notin client'.answer
    BY <2>2, <2>3, <2>4
  <2> QED BY <2>1, <2>5 DEF FoldersComing
<1>7. CASE Listing \/ Searching \/ Revealing \/ Filling \/ Grouping \/ Batching \/ Auditing \/ Failing
  <2>1. client'.query = client.query
    BY <1>7, WorkingKeeps DEF Working
  <2>2. client'.pc = "failed" \/ client.query.op # "folders"
    BY <1>7 DEF Listing, Searching, Revealing, Filling, Grouping, Batching, Auditing, Failing,
                At, Goes, RowsFit
  <2> QED BY <2>1, <2>2 DEF FoldersComing
<1> QED BY <1>1, <1>2, <1>3, <1>4, <1>5, <1>6, <1>7, Steps

-----------------------------------------------------------------------------
(* Pages *)

\* The secrets listed of a folder are those right in it.
LEMMA InOneFolder ==
  ASSUME NEW L, NEW H, NEW q \in Queries, q.op = "list", q.folder # NoNode,
         NEW n \in Matching(L, H, q)
  PROVE  n \in Secrets /\ Up[n] = q.folder
<1> DEFINE u1 == Up[n]  u2 == Up[u1]
<1>1. n \in Secrets /\ q.folder \in Joined(n)
  BY DEF Matching, ListSecrets, InScope, narrowSecretSearchScope
<1>2. n \in Nodes /\ Kind[n] = "secret"
  BY <1>1 DEF Secrets, OfKind
<1>3. q.folder \in Nodes /\ Kind[q.folder] = "folder"
  BY QueryTyped DEF Folders, OfKind
<1>4. u1 \in Nodes /\ Kind[u1] = "folder"
  BY <1>2, Parent
<1>5. u2 \in Nodes
  BY <1>4, Parent
<1>6. Chain(n) = {n, u1} \cup Chain(u2)
  BY <1>2, <1>4, ChainOfParent
<1>7. q.folder \in Chain(n) /\ \A k \in Chain(n) : Level2(k) => q.folder # Up[k]
  BY <1>1 DEF Joined
<1> HIDE DEF u2
<1>8. CASE Kind[u2] = "env"
  <2>1. Chain(u2) = {u2, Up[u2], Up[Up[u2]]}
    BY <1>5, <1>8, Chains
  <2>2. Kind[Up[u2]] = "project" /\ Kind[Up[Up[u2]]] = "org"
    BY <1>5, <1>8, Parent
  <2> QED BY <1>1, <1>2, <1>3, <1>6, <1>7, <1>8, <2>1, <2>2
<1>9. CASE Kind[u2] = "folder"
  <2>1. Level2(u1)
    BY <1>4, <1>9 DEF Level2, u2
  <2>2. q.folder # u2
    BY <1>6, <1>7, <2>1 DEF u2
  <2>3. Kind[Up[u2]] = "env"
    BY <1>4, <1>9, Parent DEF u2
  <2>4. Up[u2] \in Nodes
    BY <1>5, Parent
  <2>5. Chain(u2) = {u2} \cup {Up[u2], Up[Up[u2]], Up[Up[Up[u2]]]}
    BY <1>5, <2>3, <2>4, Chains, ChainOfParent
  <2>6. Kind[Up[Up[u2]]] = "project" /\ Kind[Up[Up[Up[u2]]]] = "org"
    BY <2>3, <2>4, Parent
  <2> QED BY <1>1, <1>2, <1>3, <1>6, <1>7, <2>2, <2>3, <2>5, <2>6
<1>10. Kind[u2] = "env" \/ Kind[u2] = "folder"
  BY <1>4, Parent DEF u2
<1> QED BY <1>8, <1>9, <1>10

LEMMA PrecedingFinite ==
  ASSUME NEW L, NEW H, NEW q \in Queries, NEW n
  PROVE  /\ IsFiniteSet(Matching(L, H, q)) /\ IsFiniteSet(Preceding(L, H, q, n))
         /\ Cardinality(Preceding(L, H, q, n)) \in Nat
<1>1. Matching(L, H, q) \in SUBSET Nodes
  BY MatchingFetchable
<1>2. IsFiniteSet(Matching(L, H, q))
  BY <1>1, ListingsAssumption, FS_Subset
<1>3. Preceding(L, H, q, n) \in SUBSET Matching(L, H, q)
  BY DEF Preceding
<1> QED BY <1>2, <1>3, FS_Subset, FS_CardinalityType

\* More matching rows, more of them before another.
LEMMA PrecedingGrows ==
  ASSUME NEW L, NEW H, NEW M, NEW I, NEW q \in Queries, NEW n,
         Matching(L, H, q) \subseteq Matching(M, I, q)
  PROVE  Cardinality(Preceding(L, H, q, n)) <= Cardinality(Preceding(M, I, q, n))
<1>1. Preceding(L, H, q, n) \in SUBSET Preceding(M, I, q, n)
  BY DEF Preceding
<1> QED BY <1>1, PrecedingFinite, FS_Subset

\* In a sorted list of distinct keys, as many rows are before one as its place
\* says.
LEMMA PlaceInOrder ==
  ASSUME TypeOK, KeysUnique(live), NEW q \in Queries, q.op = "list", q.folder # NoNode,
         NEW s \in Results(q), NEW i \in DOMAIN s
  PROVE  Cardinality(Preceding(live, held, q, s[i])) = i - 1
<1> DEFINE M == Matching(live, held, q)  P == Preceding(live, held, q, s[i])  D == 1 .. i - 1
<1>1. /\ s \in Seq(Nodes) /\ ToSet(s) = M
      /\ \A j, k \in DOMAIN s : j # k => s[j] # s[k]
      /\ \A j, k \in DOMAIN s : j < k => ~ Before(q, s[k], s[j])
  BY ResultsAre DEF Matches
<1>2. /\ DOMAIN s = 1 .. Len(s) /\ Len(s) \in Nat /\ i \in 1 .. Len(s)
      /\ D \subseteq DOMAIN s /\ \A j \in DOMAIN s : j \in D <=> j < i
  BY <1>1
<1>3. \A m \in M : m \in Secrets /\ Up[m] = q.folder /\ m \in live /\ Key[m] \in Int
  BY InOneFolder, MatchingLive, ListingsAssumption
<1>4. \A m, n \in M : Key[m] = Key[n] => m = n
  BY <1>3 DEF KeysUnique
<1>5. \A j \in DOMAIN s : s[j] \in M
  BY <1>1 DEF ToSet
<1> HIDE DEF M
<1>6. \A j, k \in DOMAIN s : j < k => Key[s[j]] < Key[s[k]]
  <2> SUFFICES ASSUME NEW j \in DOMAIN s, NEW k \in DOMAIN s, j < k
               PROVE  Key[s[j]] < Key[s[k]]
    OBVIOUS
  <2>1. j # k
    BY <1>2
  <2>2. ~ (Key[s[k]] < Key[s[j]])
    BY <1>1 DEF Before
  <2>3. Key[s[j]] # Key[s[k]]
    BY <1>1, <1>4, <1>5, <2>1
  <2>4. Key[s[j]] \in Int /\ Key[s[k]] \in Int
    BY <1>3, <1>5
  <2> QED BY <2>2, <2>3, <2>4
<1>7. \A j \in DOMAIN s : s[j] \in P <=> j < i
  <2> TAKE j \in DOMAIN s
  <2>1. s[j] \in P <=> Key[s[j]] < Key[s[i]]
    BY <1>5 DEF Preceding, M
  <2>2. Key[s[j]] \in Int /\ Key[s[i]] \in Int
    BY <1>3, <1>5
  <2>3. j < i \/ j = i \/ i < j
    BY <1>2
  <2> QED BY <1>2, <1>6, <2>1, <2>2, <2>3
<1>8. P \subseteq M
  BY DEF Preceding, M
<1> DEFINE f == [j \in D |-> s[j]]
<1> HIDE DEF P
<1>9. f \in Bijection(D, P)
  <2>1. \A j \in D : s[j] \in P
    BY <1>2, <1>7
  <2>2. f \in [D -> P]
    BY <2>1
  <2>3. \A j, k \in D : f[j] = f[k] => j = k
    BY <1>1, <1>2
  <2>4. \A p \in P : \E j \in D : f[j] = p
    <3> TAKE p \in P
    <3>1. PICK j \in DOMAIN s : s[j] = p
      BY <1>1, <1>8 DEF ToSet
    <3>2. j \in D
      BY <1>2, <1>7, <3>1
    <3> QED BY <3>1, <3>2
  <2>5. f \in Injection(D, P)
    BY <2>2, <2>3 DEF Injection, IsInjective
  <2>6. f \in Surjection(D, P)
    BY <2>2, <2>4 DEF Surjection
  <2> QED BY <2>5, <2>6 DEF Bijection
<1>10. IsFiniteSet(D) /\ Cardinality(D) = i - 1
  <2> DEFINE N == i - 1
  <2>1. 1 \in Int /\ N \in Int /\ N \in Nat
    BY <1>2
  <2> HIDE DEF N
  <2>2. IsFiniteSet(1 .. N) /\ Cardinality(1 .. N) = IF 1 > N THEN 0 ELSE N - 1 + 1
    BY <2>1, FS_Interval
  <2>3. (IF 1 > N THEN 0 ELSE N - 1 + 1) = N
    BY <2>1
  <2> QED BY <2>2, <2>3 DEF N
<1> HIDE DEF f, D
<1>11. ExistsBijection(D, P)
  BY <1>9 DEF ExistsBijection
<1>12. Cardinality(P) = Cardinality(D)
  BY <1>10, <1>11, FS_Bijection
<1> QED BY <1>10, <1>12 DEF P

LEMMA PagesInit ==
  ASSUME Init
  PROVE  PagesComing
BY IdleTyped DEF Init, PagesComing

LEMMA PagesStep ==
  ASSUME TypeOK, RowsFit, HistoriesEnclose, PagesComing, [Next]_vars
  PROVE  PagesComing'
<1> DEFINE q == client.query
<1>0. q \in Queries /\ client.page \in Nat \ {0}
  BY DEF TypeOK, Client
<1>1. CASE vars' = vars
  BY <1>1 DEF PagesComing, Preceding, vars
<1>2. CASE Changing
  <2> SUFFICES ASSUME q.op = "list", q.folder # NoNode, ~ client'.lost
               PROVE  PagesComing'
    BY <1>2 DEF Changing, PagesComing
  <2>1. /\ client'.query = q /\ client'.pc = client.pc /\ client'.page = client.page
        /\ client'.answer = client.answer /\ client'.steady \subseteq client.steady
        /\ ~ client.lost /\ Matching(live, held, q) \subseteq Matching(live', held', q)
    BY <1>2 DEF Changing
  <2>2. client.pc = "query" => \A n \in client'.steady \ client'.answer :
          Cardinality(Preceding(live', held', q, n)) >= Offset(q, client.page)
    <3> SUFFICES ASSUME client.pc = "query", NEW n \in client'.steady \ client'.answer
                 PROVE  Cardinality(Preceding(live', held', q, n)) >= Offset(q, client.page)
      OBVIOUS
    <3>1. Cardinality(Preceding(live, held, q, n)) >= Offset(q, client.page)
      BY <2>1 DEF PagesComing
    <3>2. Cardinality(Preceding(live, held, q, n)) <= Cardinality(Preceding(live', held', q, n))
      BY <1>0, <2>1, PrecedingGrows
    <3>3. Cardinality(Preceding(live, held, q, n)) \in Nat /\ Offset(q, client.page) \in Nat
          /\ Cardinality(Preceding(live', held', q, n)) \in Nat
      BY <1>0, PrecedingFinite, Sizes
    <3> QED BY <3>1, <3>2, <3>3
  <2>3. client.pc = "done" => client'.steady \subseteq client'.answer
    BY <2>1 DEF PagesComing
  <2> HIDE DEF q
  <2> QED BY <2>1, <2>2, <2>3 DEF PagesComing, Preceding
<1>3. CASE Asking
  <2>1. client'.pc = "query" /\ client'.page = 1 /\ client'.query \in Queries
    BY <1>3 DEF Asking, Client
  <2>2. PICK r \in Queries : client'.query = r
    BY <2>1
  <2>3. Offset(r, 1) = 0
    BY FirstOffset
  <2>4. \A n : Cardinality(Preceding(live', held', r, n)) \in Nat
    BY PrecedingFinite
  <2>5. \A n : Cardinality(Preceding(live', held', r, n)) >= Offset(r, 1)
    BY <2>3, <2>4
  <2> QED BY <2>1, <2>2, <2>5 DEF PagesComing, Preceding
<1>4. CASE Listing
  <2> SUFFICES ASSUME q.folder # NoNode, ~ client.lost
               PROVE  PagesComing'
    BY <1>4 DEF Listing, Goes, PagesComing
  <2>1. q.op = "list" /\ client.pc = "query"
    BY <1>4 DEF Listing, At
  <2>2. PICK s \in Results(q) :
          LET p == Page(s, q, client.page)
          IN  IF Len(p) < Limit(q, client.page)
                THEN Goes("done", client.page, << >>, << >>, client.answer \cup ToSet(p))
                ELSE Goes("query", client.page + 1, client.rows, client.todo,
                          client.answer \cup ToSet(p))
    BY <1>4 DEF Listing
  <2> DEFINE p == Page(s, q, client.page)  o == Offset(q, client.page)  l == Limit(q, client.page)
  <2>3. s \in Seq(Nodes) /\ ToSet(s) = Matching(live, held, q)
    BY <1>0, ResultsAre DEF Matches
  <2>0. Len(s) \in Nat
    BY <2>3
  <2>4. o \in Nat /\ l \in Nat /\ Offset(q, client.page + 1) = o + l /\ Len(s) \in Nat
    BY <1>0, <2>0, Sizes
  <2>5. /\ \A i \in DOMAIN s : o < i /\ i <= o + l => s[i] \in ToSet(p)
        /\ Len(p) < l => Len(s) < o + l
    BY <1>0, <2>3, PageIs
  <2>6. live' = live /\ held' = held /\ client'.query = q /\ client'.steady = client.steady
        /\ client'.answer = client.answer \cup ToSet(p)
        /\ \/ Len(p) < l /\ client'.pc = "done"
           \/ client'.pc = "query" /\ client'.page = client.page + 1
    BY <2>2 DEF Goes
  <2> HIDE DEF p, o, l
  <2>7. ASSUME NEW n \in client.steady \ (client.answer \cup ToSet(p))
        PROVE  /\ Cardinality(Preceding(live, held, q, n)) >= o + l
               /\ ~ (Len(p) < l)
    <3>1. n \in Matching(live, held, q)
      BY <1>0, <2>1, ReadableIn DEF HistoriesEnclose
    <3>2. PICK i \in DOMAIN s : s[i] = n
      BY <2>3, <3>1 DEF ToSet
    <3>3. Cardinality(Preceding(live, held, q, n)) = i - 1
      BY <1>0, <2>1, <3>2, PlaceInOrder DEF RowsFit
    <3>4. Cardinality(Preceding(live, held, q, n)) >= o
      BY <2>1 DEF PagesComing, o
    <3>5. i \in 1 .. Len(s)
      BY <2>3, <3>2
    <3>6. o < i
      BY <2>4, <3>3, <3>4, <3>5
    <3>7. i > o + l
      BY <2>4, <2>5, <2>7, <3>2, <3>5, <3>6
    <3> QED BY <2>4, <2>5, <3>3, <3>5, <3>7
  <2>8. CASE Len(p) < l /\ client'.pc = "done"
    BY <2>6, <2>7, <2>8 DEF PagesComing
  <2>9. CASE client'.pc = "query" /\ client'.page = client.page + 1
    <3>1. \A n \in client'.steady \ client'.answer :
            Cardinality(Preceding(live', held', q, n)) >= Offset(q, client.page + 1)
      BY <2>4, <2>6, <2>7
    <3> HIDE DEF q
    <3> QED BY <2>6, <2>9, <3>1 DEF PagesComing, Preceding
  <2> QED BY <2>6, <2>8, <2>9
<1>5. CASE Searching \/ Revealing \/ Filling \/ Grouping \/ Batching \/ Auditing \/ Failing
           \/ Opening \/ Allowing \/ Assembling
  <2>1. client'.query = client.query
    BY <1>5, WorkingKeeps DEF Working
  <2>2. client.query.op # "list"
    BY <1>5 DEF Searching, Revealing, Filling, Grouping, Batching, Auditing, Failing, Opening,
                Allowing, Assembling, At, RowsFit
  <2> QED BY <2>1, <2>2 DEF PagesComing
<1> QED BY <1>1, <1>2, <1>3, <1>4, <1>5, Steps

-----------------------------------------------------------------------------
(* The theorems *)

LEMMA InvInit ==
  ASSUME Init
  PROVE  Inv
BY TypeInit, RowsFitInit, HistoriesInit, ValuesInit, BatchesInit, PlacesInit, FoldersInit,
   PagesInit DEF Inv

LEMMA InvStep ==
  ASSUME Inv, [Next]_vars
  PROVE  Inv'
BY TypeStep, RowsFitStep, HistoriesStep, ValuesStep, BatchesStep, PlacesStep, FoldersStep,
   PagesStep DEF Inv

LEMMA Invariant == Spec => []Inv
<1> QED BY InvInit, InvStep, PTL DEF Spec

\* The type invariant: rows, permissions and the request are well formed.
THEOREM TypeCorrect == Spec => []TypeOK
<1>1. Inv => TypeOK
  BY DEF Inv
<1> QED BY <1>1, Invariant, PTL

\* In any tree and for any permissions, the narrowed lists of folders and
\* secrets have exactly what the authorizer allows one by one
\* (scopeNarrowingWhere, ResourceScopes).
THEOREM ListsAgreeWithAllow == Spec => []NarrowingIsAllow
<1>1. Inv => NarrowingIsAllow
  <2> SUFFICES ASSUME TypeOK, NEW n \in Nodes, Chain(n) \cap OfKind("org") \subseteq live
               PROVE  /\ Kind[n] = "folder" => (ListsFolder(live, held, n) <=> Allow(live, held, n, "read"))
                      /\ Kind[n] = "secret" /\ (\A p \in held : p.scope # n) =>
                           \A a \in {"read", "list", "search", "reveal"} :
                             ListsSecret(live, held, n, a) <=> Allow(live, held, n, a)
    BY DEF Inv, NarrowingIsAllow
  <2>1. held \in SUBSET Permission
    BY DEF TypeOK
  <2> QED BY <2>1, Narrowing
<1> QED BY <1>1, Invariant, PTL

\* In any tree, a way leads to everything that is listed and whose folders are
\* live (organizationNavigationCTE and its like, narrowingPredicate).
THEOREM WaysLead == Spec => []NavigationClosed
<1>1. Inv => NavigationClosed
  <2> SUFFICES ASSUME TypeOK, NEW n \in Nodes, Lists(live, held, n),
                      Chain(n) \cap Folders \subseteq live, NEW m \in Chain(n) \cap live,
                      Kind[m] \in {"org", "project", "env"}, Chain(m) \subseteq live
               PROVE  Lists(live, held, m)
    BY DEF Inv, NavigationClosed
  <2>1. held \in SUBSET Permission
    BY DEF TypeOK
  <2> QED BY <2>1, WayLeads
<1> QED BY <1>1, Invariant, PTL

\* However creations interleave with a walk through the pages of a folder, no
\* secret that was there all the time is missed (Offset, ListSecrets).
THEOREM WalksMissNothing == Spec => []PagesMissNothing
<1>1. Inv => PagesMissNothing
  BY DEF Inv, PagesComing, PagesMissNothing, Done
<1> QED BY <1>1, Invariant, PTL

\* However permissions change between the query of a search and its values,
\* it shows what could be revealed all the time and nothing that never could
\* (revealIfPermitted).
THEOREM ValuesFollowPermissions == Spec => []ValuesAsPermitted
<1>1. Inv => ValuesAsPermitted
  BY DEF Inv, ValuesComing, ValuesAsPermitted, Done
<1> QED BY <1>1, Invariant, PTL

\* In any tree, groups and lists across environments drop only what has lost
\* its place to the same key in another folder (aggregateSecretsByProject,
\* ListAcrossEnvs).
THEOREM NoPlaceIsLost == Spec => []PlacesFilled
<1>1. Inv => PlacesFilled
  BY FilledPlaces DEF Inv
<1> QED BY <1>1, Invariant, PTL

\* Whatever a batch answers, its audit row was written before
\* (BatchRevealByPath, ListAcrossEnvs).
THEOREM NoBatchUnaudited == Spec => []BatchesAudited
<1>1. Inv => BatchesAudited
  BY DEF Inv
<1> QED BY <1>1, Invariant, PTL

\* The folders of a project are complete but for those whose parent is not
\* shown, whatever changes while the authorizer is asked
\* (GetProjectFolderTree).
THEOREM FolderTreeComplete == Spec => []FoldersFollowParents
<1>1. Inv => FoldersFollowParents
  BY DEF Inv, FoldersComing, FoldersFollowParents, Done
<1> QED BY <1>1, Invariant, PTL
=============================================================================
