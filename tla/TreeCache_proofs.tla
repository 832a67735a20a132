-------------------------- MODULE TreeCache_proofs --------------------------
(***************************************************************************)
(* Theorems about TreeCache and TreeAssembly, for every tree of resources, *)
(* every set of requests and scenarios, and any number of handlers and of  *)
(* requests for the tree.  The lemmas about the tree of resources are      *)
(* those of Listings_proofs; its theorems are not used.                    *)
(***************************************************************************)
EXTENDS TreeCache, Listings_proofs

-----------------------------------------------------------------------------
(* Functions over the places of a sequence                                 *)

\* What holds at the beginning and passes from each place to the next holds
\* at all places.
LEMMA PlaceInduction ==
  ASSUME NEW N \in Nat, NEW Good, 0 \in Good,
         \A k \in 1 .. N : k - 1 \in Good => k \in Good
  PROVE  \A k \in 0 .. N : k \in Good
<1> DEFINE Bad == {k \in 0 .. N : k \notin Good}
<1>1. SUFFICES ASSUME Bad # {}
               PROVE  FALSE
  OBVIOUS
<1>2. Bad \in SUBSET Nat
  OBVIOUS
<1>3. PICK k \in Bad : \A m \in Bad : k <= m
  BY <1>1, <1>2, Least
<1>4. k \in 1 .. N /\ k - 1 \in 0 .. N /\ ~ (k <= k - 1)
  BY <1>3
<1>5. k - 1 \in Good
  BY <1>3, <1>4
<1> QED BY <1>3, <1>4, <1>5

\* A function whose value at each place up to N is made of the one before.
Made(N, X, base, Step, f) ==
  /\ f \in [0 .. N -> X]
  /\ f[0] = base
  /\ \A k \in 1 .. N : f[k] = Step[k][f[k - 1]]

LEMMA MadeNext ==
  ASSUME NEW X, NEW base \in X, NEW N \in Nat \ {0}, NEW Step,
         \A x \in X, m \in 1 .. N : Step[m][x] \in X,
         NEW f, Made(N - 1, X, base, Step, f)
  PROVE  \E g : Made(N, X, base, Step, g)
<1> DEFINE g == [m \in 0 .. N |-> IF m = N THEN Step[N][f[N - 1]] ELSE f[m]]
<1>1. \A m \in 0 .. N - 1 : f[m] \in X
  BY DEF Made
<1>2. Step[N][f[N - 1]] \in X
  BY <1>1
<1>3. g \in [0 .. N -> X]
  BY <1>1, <1>2
<1>4. g[N] = Step[N][f[N - 1]] /\ \A m \in 0 .. N - 1 : g[m] = f[m]
  OBVIOUS
<1> HIDE DEF g
<1>5. g[0] = base
  BY <1>4 DEF Made
<1>6. \A m \in 1 .. N - 1 : g[m] = Step[m][g[m - 1]]
  BY <1>4 DEF Made
<1>7. g[N] = Step[N][g[N - 1]]
  BY <1>4
<1>8. \A m \in 1 .. N : g[m] = Step[m][g[m - 1]]
  BY <1>6, <1>7
<1>9. Made(N, X, base, Step, g)
  BY <1>3, <1>5, <1>8 DEF Made
<1> QED BY <1>9

LEMMA MadeExists ==
  ASSUME NEW X, NEW base \in X, NEW N \in Nat, NEW Step,
         \A x \in X, m \in 1 .. N : Step[m][x] \in X
  PROVE  \E f : Made(N, X, base, Step, f)
<1> DEFINE Good == {k \in 0 .. N : \E f : Made(k, X, base, Step, f)}
<1>1. 0 \in Good
  <2>1. Made(0, X, base, Step, [m \in 0 .. 0 |-> base])
    BY DEF Made
  <2> QED BY <2>1
<1>2. ASSUME NEW k \in 1 .. N, k - 1 \in Good
      PROVE  k \in Good
  <2>1. PICK f : Made(k - 1, X, base, Step, f)
    BY <1>2
  <2>2. k \in Nat \ {0} /\ \A x \in X, m \in 1 .. k : Step[m][x] \in X
    OBVIOUS
  <2>3. \E g : Made(k, X, base, Step, g)
    BY <2>1, <2>2, MadeNext
  <2> QED BY <2>3
<1>3. N \in Good
  <2> HIDE DEF Good
  <2>1. \A k \in 0 .. N : k \in Good
    BY <1>1, <1>2, PlaceInduction
  <2> QED BY <2>1
<1> QED BY <1>3

\* Concat is such a function: what is true of some sequences and stays true
\* when two of them are joined is true of all of them joined.
LEMMA ConcatIn ==
  ASSUME NEW W, << >> \in W, \A a, b \in W : a \o b \in W, NEW seqs \in Seq(W)
  PROVE  Concat(seqs) \in W
<1> DEFINE N == Len(seqs)
           Value(f) == [k \in 0 .. N |-> IF k = 0 THEN << >> ELSE f[k - 1] \o seqs[k]]
           Step == [k \in 1 .. N |-> [x \in W |-> x \o seqs[k]]]
           all == CHOOSE f : f = Value(f)
<1>1. N \in Nat /\ \A k \in 1 .. N : seqs[k] \in W
  OBVIOUS
<1>2. \A x \in W, k \in 1 .. N : Step[k][x] = x \o seqs[k]
  OBVIOUS
<1>3. \A x \in W, k \in 1 .. N : Step[k][x] \in W
  BY <1>1, <1>2
<1>4. Concat(seqs) = all[N]
  BY DEF Concat
<1> HIDE DEF N, Step
<1>5. PICK f : Made(N, W, << >>, Step, f)
  BY <1>1, <1>3, MadeExists
<1>6. f = Value(f)
  <2>1. \A k \in 1 .. N : f[k - 1] \in W /\ f[k] = Step[k][f[k - 1]]
    BY <1>1, <1>5 DEF Made
  <2>2. \A k \in 1 .. N : f[k] = f[k - 1] \o seqs[k]
    BY <1>2, <2>1
  <2>3. f[0] = << >> /\ DOMAIN f = 0 .. N
    BY <1>5 DEF Made
  <2>4. \A k \in 0 .. N : k # 0 => k \in 1 .. N
    BY <1>1
  <2>5. \A k \in 0 .. N : f[k] = IF k = 0 THEN << >> ELSE f[k - 1] \o seqs[k]
    BY <2>2, <2>3, <2>4
  <2> QED BY <1>5, <2>5 DEF Made
<1>7. all = Value(all)
  <2> HIDE DEF Value
  <2> QED BY <1>6
<1> HIDE DEF all
<1>8. all[0] \in W
  BY <1>1, <1>7
<1>9. \A k \in 1 .. N : all[k] = all[k - 1] \o seqs[k]
  <2>1. \A k \in 0 .. N : all[k] = IF k = 0 THEN << >> ELSE all[k - 1] \o seqs[k]
    BY <1>7
  <2>2. \A k \in 1 .. N : k # 0 /\ k \in 0 .. N
    BY <1>1
  <2> QED BY <2>1, <2>2
<1>10. \A k \in 1 .. N : all[k - 1] \in W => all[k] \in W
  BY <1>1, <1>9
<1> DEFINE Good == {k \in 0 .. N : all[k] \in W}
<1>11. 0 \in Good /\ \A k \in 1 .. N : k - 1 \in Good => k \in Good
  BY <1>1, <1>8, <1>10
<1>12. \A k \in 0 .. N : k \in Good
  <2> HIDE DEF Good
  <2> QED BY <1>1, <1>11, PlaceInduction
<1>13. N \in 0 .. N
  BY <1>1
<1> QED BY <1>4, <1>12, <1>13
-----------------------------------------------------------------------------
(* The tree that is assembled                                              *)

\* All elements of a finite set in some order.
LEMMA SequenceOf ==
  ASSUME NEW S, IsFiniteSet(S)
  PROVE  SetToSeq(S) \in Seq(S) /\ ToSet(SetToSeq(S)) = S
<1> DEFINE D == 1 .. Cardinality(S)
<1>1. Cardinality(S) \in Nat
  BY FS_CardinalityType
<1>2. IsFiniteSet(D) /\ Cardinality(D) = Cardinality(S)
  BY <1>1, FS_Interval
<1>3. PICK f : f \in Bijection(D, S)
  BY <1>2, FS_SameCardinalityBij DEF ExistsBijection
<1>4. f \in [D -> S] /\ IsInjective(f)
  BY <1>3 DEF Bijection, Injection
<1>5. SetToSeq(S) \in [D -> S] /\ IsInjective(SetToSeq(S))
  <2> DEFINE Good(s) == s \in [D -> S] /\ IsInjective(s)
  <2>1. SetToSeq(S) = CHOOSE s \in [D -> S] : IsInjective(s)
    BY DEF SetToSeq
  <2> QED BY <1>4, <2>1
<1>6. SetToSeq(S) \in SetToSeqs(S)
  BY <1>5 DEF SetToSeqs, IsInjective
<1> QED BY <1>6, Arranged

\* The resources in the order in which they are copied to their parents: the
\* folders, the environments, the projects.
LEMMA InOrder ==
  ASSUME NEW V \in SUBSET Nodes, NEW names, NEW sorted,
         NEW folders \in Listed(VisibleOf(V, "folder"), names, sorted)
  PROVE  LET s == ByLevel(V, folders)
         IN  /\ s \in Seq(V)
             /\ \E a, b \in 0 .. Len(s) :
                  /\ a <= b
                  /\ \A n \in VisibleOf(V, "folder") : \E k \in 1 .. a : s[k] = n
                  /\ \A n \in VisibleOf(V, "env") : \E k \in a + 1 .. b : s[k] = n
                  /\ \A n \in VisibleOf(V, "project") : \E k \in b + 1 .. Len(s) : s[k] = n
<1> DEFINE F == VisibleOf(V, "folder")  E == VisibleOf(V, "env")  P == VisibleOf(V, "project")
           envs == SetToSeq(E)  projects == SetToSeq(P)
           s == ByLevel(V, folders)
           a == Len(folders)  b == Len(folders) + Len(envs)
<1>1. F \subseteq V /\ E \subseteq V /\ P \subseteq V
  BY DEF VisibleOf
<1>2. IsFiniteSet(F) /\ IsFiniteSet(E) /\ IsFiniteSet(P)
  BY <1>1, TreeCacheAssumption, FS_Subset
<1>3. folders \in Seq(F) /\ ToSet(folders) = F
  <2>1. folders \in SetToSeqs(F)
    BY DEF Listed
  <2> HIDE DEF F
  <2> QED BY <1>2, <2>1, Arranged
<1>4. envs \in Seq(E) /\ ToSet(envs) = E /\ projects \in Seq(P) /\ ToSet(projects) = P
  BY <1>2, SequenceOf
<1>5. s = (folders \o envs) \o projects
  BY DEF ByLevel
<1> HIDE DEF F, E, P, envs, projects, s
<1>6. folders \in Seq(V) /\ envs \in Seq(V) /\ projects \in Seq(V)
  BY <1>1, <1>3, <1>4
<1>7. s \in Seq(V) /\ Len(s) = Len(folders) + Len(envs) + Len(projects)
  BY <1>5, <1>6
<1>8. /\ \A k \in 1 .. Len(folders) : s[k] = folders[k]
      /\ \A k \in 1 .. Len(envs) : s[a + k] = envs[k]
      /\ \A k \in 1 .. Len(projects) : s[b + k] = projects[k]
  BY <1>5, <1>6
<1>9. /\ a \in 0 .. Len(s) /\ b \in 0 .. Len(s) /\ a <= b
  BY <1>6, <1>7
<1>10. /\ \A n \in F : \E k \in 1 .. Len(folders) : folders[k] = n
       /\ \A n \in E : \E k \in 1 .. Len(envs) : envs[k] = n
       /\ \A n \in P : \E k \in 1 .. Len(projects) : projects[k] = n
  BY <1>3, <1>4 DEF ToSet
<1>11. \A n \in F : \E k \in 1 .. a : s[k] = n
  BY <1>8, <1>10
<1>12. \A n \in E : \E k \in a + 1 .. b : s[k] = n
  <2> TAKE n \in E
  <2>1. PICK k \in 1 .. Len(envs) : envs[k] = n
    BY <1>10
  <2>2. a + k \in a + 1 .. b /\ s[a + k] = n
    BY <1>6, <1>8, <2>1
  <2> QED BY <2>2
<1>13. \A n \in P : \E k \in b + 1 .. Len(s) : s[k] = n
  <2> TAKE n \in P
  <2>1. PICK k \in 1 .. Len(projects) : projects[k] = n
    BY <1>10
  <2>2. b + k \in b + 1 .. Len(s) /\ s[b + k] = n
    BY <1>6, <1>7, <1>8, <2>1
  <2> QED BY <2>2
<1>14. \E x, y \in 0 .. Len(s) :
         /\ x <= y
         /\ \A n \in F : \E k \in 1 .. x : s[k] = n
         /\ \A n \in E : \E k \in x + 1 .. y : s[k] = n
         /\ \A n \in P : \E k \in y + 1 .. Len(s) : s[k] = n
  BY <1>9, <1>11, <1>12, <1>13
<1> QED BY <1>7, <1>14 DEF F, E, P, s
\* What each node has gathered after each step.
LEMMA Attached ==
  ASSUME NEW V, NEW sub \in [V -> SUBSET V], NEW n \in V
  PROVE  /\ Attach(sub, n) \in [V -> SUBSET V]
         /\ \A m \in V : sub[m] \subseteq Attach(sub, n)[m]
         /\ parentIdForNode(n) \in V => sub[n] \subseteq Attach(sub, n)[parentIdForNode(n)]
<1> DEFINE u == parentIdForNode(n)
<1>1. CASE u \in V
  <2>1. Attach(sub, n) = [sub EXCEPT ![u] = @ \cup sub[n]]
    BY <1>1 DEF Attach
  <2> QED BY <1>1, <2>1
<1>2. CASE u \notin V
  <2>1. Attach(sub, n) = sub
    BY <1>2 DEF Attach
  <2> QED BY <1>2, <2>1
<1> QED BY <1>1, <1>2

Gathers(f, V, s) ==
  /\ f \in [0 .. Len(s) -> [V -> SUBSET V]]
  /\ \A k \in 1 .. Len(s) : f[k] = Attach(f[k - 1], s[k])

LEMMA AssembledGathers ==
  ASSUME NEW V, NEW sub \in [V -> SUBSET V], NEW s \in Seq(V)
  PROVE  \E f : Gathers(f, V, s) /\ f[0] = sub /\ Assembled(sub, s) = f[Len(s)]
<1> DEFINE N == Len(s)  X == [V -> SUBSET V]
           Value(f) == [k \in 0 .. N |-> IF k = 0 THEN sub ELSE Attach(f[k - 1], s[k])]
           Step == [k \in 1 .. N |-> [x \in X |-> Attach(x, s[k])]]
           all == CHOOSE f : f = Value(f)
<1>1. N \in Nat /\ \A k \in 1 .. N : s[k] \in V
  OBVIOUS
<1>2. \A x \in X, k \in 1 .. N : Step[k][x] = Attach(x, s[k])
  OBVIOUS
<1>3. \A x \in X, k \in 1 .. N : Attach(x, s[k]) \in X
  BY <1>1, Attached
<1>4. Assembled(sub, s) = all[N]
  BY DEF Assembled
<1>0. sub \in X
  OBVIOUS
<1> HIDE DEF N, Step, X
<1>5. \A x \in X, k \in 1 .. N : Step[k][x] \in X
  BY <1>2, <1>3
<1>6. PICK f : Made(N, X, sub, Step, f)
  BY <1>0, <1>1, <1>5, MadeExists
<1>7. f = Value(f)
  <2>1. \A k \in 1 .. N : f[k - 1] \in X /\ f[k] = Step[k][f[k - 1]]
    BY <1>1, <1>6 DEF Made
  <2>2. \A k \in 1 .. N : f[k] = Attach(f[k - 1], s[k])
    BY <1>2, <2>1
  <2>3. f[0] = sub /\ DOMAIN f = 0 .. N
    BY <1>6 DEF Made
  <2>4. \A k \in 0 .. N : k # 0 => k \in 1 .. N
    BY <1>1
  <2>5. \A k \in 0 .. N : f[k] = IF k = 0 THEN sub ELSE Attach(f[k - 1], s[k])
    BY <2>2, <2>3, <2>4
  <2> QED BY <1>6, <2>5 DEF Made
<1>8. all = Value(all)
  <2> HIDE DEF Value
  <2> QED BY <1>7
<1> HIDE DEF all
<1>9. all[0] = sub /\ 0 \in 0 .. N
  BY <1>1, <1>8
<1>10. \A k \in 1 .. N : all[k] = Attach(all[k - 1], s[k])
  <2>1. \A k \in 0 .. N : all[k] = IF k = 0 THEN sub ELSE Attach(all[k - 1], s[k])
    BY <1>8
  <2>2. \A k \in 1 .. N : k # 0 /\ k \in 0 .. N
    BY <1>1
  <2> QED BY <2>1, <2>2
<1> DEFINE Good == {k \in 0 .. N : all[k] \in X}
<1>11. \A k \in 1 .. N : all[k - 1] \in X => all[k] \in X
  BY <1>3, <1>10
<1>12. 0 \in Good /\ \A k \in 1 .. N : k - 1 \in Good => k \in Good
  BY <1>0, <1>1, <1>9, <1>11
<1>13. \A k \in 0 .. N : k \in Good
  <2> HIDE DEF Good
  <2> QED BY <1>1, <1>12, PlaceInduction
<1>14. all \in [0 .. N -> X]
  <2> DEFINE g == [k \in 0 .. N |-> IF k = 0 THEN sub ELSE Attach(all[k - 1], s[k])]
  <2>1. all = g
    BY <1>8
  <2>2. DOMAIN g = 0 .. N /\ g = [k \in 0 .. N |-> g[k]]
    OBVIOUS
  <2> HIDE DEF g
  <2> QED BY <1>13, <2>1, <2>2
<1>15. Gathers(all, V, s)
  BY <1>10, <1>14 DEF Gathers, N, X
<1> QED BY <1>4, <1>9, <1>15 DEF N

\* What a node has gathered it keeps.
LEMMA GatheredStays ==
  ASSUME NEW V, NEW s \in Seq(V), NEW f, Gathers(f, V, s),
         NEW i \in 0 .. Len(s), NEW j \in 0 .. Len(s), i <= j, NEW m \in V
  PROVE  f[i][m] \subseteq f[j][m]
<1> DEFINE N == Len(s)
           Good == {k \in 0 .. N : i <= k => f[i][m] \subseteq f[k][m]}
<1>1. N \in Nat /\ \A k \in 1 .. N : s[k] \in V
  OBVIOUS
<1>2. \A k \in 1 .. N : f[k - 1] \in [V -> SUBSET V] /\ f[k] = Attach(f[k - 1], s[k])
  <2>1. f \in [0 .. N -> [V -> SUBSET V]] /\ \A k \in 1 .. N : f[k] = Attach(f[k - 1], s[k])
    BY DEF Gathers
  <2>2. \A k \in 1 .. N : k - 1 \in 0 .. N
    BY <1>1
  <2> HIDE DEF N
  <2> QED BY <2>1, <2>2
<1>3. \A k \in 1 .. N : f[k - 1][m] \subseteq f[k][m]
  <2> TAKE k \in 1 .. N
  <2>1. s[k] \in V /\ f[k - 1] \in [V -> SUBSET V] /\ f[k] = Attach(f[k - 1], s[k])
    BY <1>1, <1>2
  <2> QED BY <2>1, Attached
<1> HIDE DEF N
<1>4. 0 \in Good
  BY <1>1
<1>5. ASSUME NEW k \in 1 .. N, k - 1 \in Good
      PROVE  k \in Good
  <2>1. CASE i <= k - 1
    BY <1>3, <1>5, <2>1
  <2>2. CASE ~ (i <= k - 1)
    <3>1. i <= k => i = k
      BY <1>1, <2>2
    <3> QED BY <1>1, <3>1
  <2> QED BY <2>1, <2>2
<1>6. \A k \in 0 .. N : k \in Good
  <2> HIDE DEF Good
  <2> QED BY <1>1, <1>4, <1>5, PlaceInduction
<1>7. j \in Good
  BY <1>6 DEF N
<1> QED BY <1>7

\* What a node has when it is copied, its parent has from then on.
LEMMA GatheredAbove ==
  ASSUME NEW V, NEW s \in Seq(V), NEW f, Gathers(f, V, s),
         NEW k \in 1 .. Len(s), NEW i \in 0 .. k - 1, NEW j \in k .. Len(s),
         parentIdForNode(s[k]) \in V
  PROVE  f[i][s[k]] \subseteq f[j][parentIdForNode(s[k])]
<1> DEFINE n == s[k]  u == parentIdForNode(n)
<1>1. n \in V /\ Len(s) \in Nat
  OBVIOUS
<1>2. f[k - 1] \in [V -> SUBSET V] /\ f[k] = Attach(f[k - 1], n)
  BY DEF Gathers
<1>3. f[k - 1][n] \subseteq f[k][u]
  BY <1>1, <1>2, Attached
<1>4. f[i][n] \subseteq f[k - 1][n]
  BY <1>1, GatheredStays
<1>5. f[k][u] \subseteq f[j][u]
  BY <1>1, GatheredStays
<1> QED BY <1>3, <1>4, <1>5
\* No tree has more than what passed the filters.
LEMMA TreeWithin ==
  ASSUME NEW V \in SUBSET Nodes, NEW names, NEW sorted,
         NEW folders \in Listed(VisibleOf(V, "folder"), names, sorted),
         NEW orphans, NEW depth
  PROVE  Tree(V, folders, orphans, depth) \subseteq V
<1> DEFINE s == ByLevel(V, folders)  sub == [n \in V |-> {n}]
<1>1. s \in Seq(V)
  BY InOrder
<1>2. sub \in [V -> SUBSET V]
  OBVIOUS
<1> HIDE DEF s, sub
<1>3. PICK f : Gathers(f, V, s) /\ f[0] = sub /\ Assembled(sub, s) = f[Len(s)]
  BY <1>1, <1>2, AssembledGathers
<1>4. Len(s) \in 0 .. Len(s)
  BY <1>1
<1>5. f[Len(s)] \in [V -> SUBSET V]
  BY <1>3, <1>4 DEF Gathers
<1>6. buildTree(V, folders) = f[Len(s)]
  BY <1>3 DEF buildTree, s, sub
<1> DEFINE g == buildTree(V, folders)
<1>7. \A n \in V : g[n] \subseteq V
  BY <1>5, <1>6
<1> HIDE DEF g
<1>8. VisibleOf(V, "org") \subseteq V
  BY DEF VisibleOf
<1>9. (UNION {g[n] : n \in VisibleOf(V, "org")}) \subseteq V
  BY <1>7, <1>8
<1>10. derefOrphans(V, g) \subseteq V
  BY <1>7 DEF derefOrphans
<1>11. Roots(V, g, orphans) \subseteq V
  BY <1>9, <1>10 DEF Roots
<1> QED BY <1>11 DEF Tree, applyMaxDepth, truncateChildren, g

\* The folders are copied before the environments, these before the projects:
\* with the orphans and in full depth the tree has everything that passed the
\* filters, but for folders in folders, which may be copied after their parent.
LEMMA TreeComplete ==
  ASSUME NEW V \in SUBSET Nodes, NEW names, NEW sorted,
         NEW folders \in Listed(VisibleOf(V, "folder"), names, sorted),
         NEW depth, MaxDepth(depth) = 4,
         NEW n \in V, Kind[n] \in TreeKinds, ~ (Level2(n) /\ Up[n] \in V)
  PROVE  n \in Tree(V, folders, TRUE, depth)
<1> DEFINE s == ByLevel(V, folders)  sub == [m \in V |-> {m}]  N == Len(s)
<1>1. s \in Seq(V)
  BY InOrder
<1>2. PICK a, b \in 0 .. N :
        /\ a <= b
        /\ \A m \in VisibleOf(V, "folder") : \E k \in 1 .. a : s[k] = m
        /\ \A m \in VisibleOf(V, "env") : \E k \in a + 1 .. b : s[k] = m
        /\ \A m \in VisibleOf(V, "project") : \E k \in b + 1 .. N : s[k] = m
  BY InOrder
<1>3. sub \in [V -> SUBSET V] /\ \A m \in V : sub[m] = {m}
  OBVIOUS
<1>4. Assembled(sub, s) = buildTree(V, folders)
  BY DEF buildTree
<1> HIDE DEF s, sub
<1>5. PICK f : Gathers(f, V, s) /\ f[0] = sub /\ buildTree(V, folders) = f[N]
  BY <1>1, <1>3, <1>4, AssembledGathers
<1>6. N \in Nat /\ a \in Nat /\ b \in Nat /\ a <= b /\ b <= N
  BY <1>1, <1>2
<1> HIDE DEF N
<1>7. \A m \in V : \A i \in 0 .. N : m \in f[i][m]
  <2> TAKE m \in V
  <2> TAKE i \in 0 .. N
  <2>1. f[0][m] \subseteq f[i][m]
    BY <1>1, <1>5, <1>6, GatheredStays DEF N
  <2> QED BY <1>3, <1>5, <2>1
\* level by level
<1>8. ASSUME NEW m \in V, Kind[m] = "folder", Up[m] \in V
      PROVE  m \in f[a][Up[m]]
  <2>1. m \in VisibleOf(V, "folder")
    BY <1>8 DEF VisibleOf, OfKind
  <2>2. PICK k \in 1 .. a : s[k] = m
    BY <1>2, <2>1
  <2>3. k \in 1 .. N /\ 0 \in 0 .. k - 1 /\ a \in k .. N
    BY <1>6
  <2>4. f[0][m] \subseteq f[a][Up[m]]
    BY <1>1, <1>5, <1>8, <2>2, <2>3, GatheredAbove DEF N, parentIdForNode
  <2> QED BY <1>6, <1>7, <2>4
<1>9. ASSUME NEW m \in V, Kind[m] = "env", Up[m] \in V
      PROVE  f[a][m] \subseteq f[b][Up[m]]
  <2>1. m \in VisibleOf(V, "env")
    BY <1>9 DEF VisibleOf, OfKind
  <2>2. PICK k \in a + 1 .. b : s[k] = m
    BY <1>2, <2>1
  <2>3. k \in 1 .. N /\ a \in 0 .. k - 1 /\ b \in k .. N
    BY <1>6
  <2> QED BY <1>1, <1>5, <1>9, <2>2, <2>3, GatheredAbove DEF N, parentIdForNode
<1>10. ASSUME NEW m \in V, Kind[m] = "project", Up[m] \in V
       PROVE  f[b][m] \subseteq f[N][Up[m]]
  <2>1. m \in VisibleOf(V, "project")
    BY <1>10 DEF VisibleOf, OfKind
  <2>2. PICK k \in b + 1 .. N : s[k] = m
    BY <1>2, <2>1
  <2>3. k \in 1 .. N /\ b \in 0 .. k - 1 /\ N \in k .. N
    BY <1>6
  <2> QED BY <1>1, <1>5, <1>10, <2>2, <2>3, GatheredAbove DEF N, parentIdForNode
<1>11. \A m \in V : f[a][m] \subseteq f[N][m] /\ f[b][m] \subseteq f[N][m]
  BY <1>1, <1>5, <1>6, GatheredStays DEF N
\* the roots
<1>12. \A m \in V : Kind[m] = "org" \/ Up[m] \notin V =>
         f[N][m] \subseteq Roots(V, buildTree(V, folders), TRUE)
  <2> TAKE m \in V
  <2>1. CASE Kind[m] = "org"
    BY <1>5, <2>1 DEF Roots, VisibleOf, OfKind
  <2>2. CASE Kind[m] # "org" /\ Up[m] \notin V
    <3>1. m \in {k \in V : Orphan(V, k)}
      BY <2>2 DEF Orphan, parentIdForNode
    <3>2. f[N][m] \subseteq derefOrphans(V, buildTree(V, folders))
      BY <1>5, <3>1 DEF derefOrphans
    <3> QED BY <3>2 DEF Roots
  <2> QED BY <2>1, <2>2
<1> DEFINE R == Roots(V, buildTree(V, folders), TRUE)
<1> HIDE DEF R
<1>13. \A m \in V : Kind[m] = "org" => f[N][m] \subseteq R
  BY <1>12 DEF R
<1>14. \A m \in V : Kind[m] = "project" => f[b][m] \subseteq R
  <2> SUFFICES ASSUME NEW m \in V, Kind[m] = "project"
               PROVE  f[b][m] \subseteq R
    OBVIOUS
  <2>1. CASE Up[m] \in V
    <3>1. Kind[Up[m]] = "org"
      BY Parent
    <3> QED BY <1>10, <1>13, <2>1, <3>1
  <2>2. CASE Up[m] \notin V
    BY <1>11, <1>12, <2>2 DEF R
  <2> QED BY <2>1, <2>2
<1>15. \A m \in V : Kind[m] = "env" => f[a][m] \subseteq R
  <2> SUFFICES ASSUME NEW m \in V, Kind[m] = "env"
               PROVE  f[a][m] \subseteq R
    OBVIOUS
  <2>1. CASE Up[m] \in V
    <3>1. Kind[Up[m]] = "project"
      BY Parent
    <3> QED BY <1>9, <1>14, <2>1, <3>1
  <2>2. CASE Up[m] \notin V
    BY <1>11, <1>12, <2>2 DEF R
  <2> QED BY <2>1, <2>2
<1>16. n \in R
  <2>1. CASE Kind[n] = "org"
    BY <1>6, <1>7, <1>13, <2>1
  <2>2. CASE Kind[n] = "project"
    BY <1>6, <1>7, <1>14, <2>2
  <2>3. CASE Kind[n] = "env"
    BY <1>6, <1>7, <1>15, <2>3
  <2>4. CASE Kind[n] = "folder" /\ Up[n] \in V
    <3>1. Kind[Up[n]] = "env"
      BY <2>4, Parent DEF Level2
    <3> QED BY <1>8, <1>15, <2>4, <3>1
  <2>5. CASE Up[n] \notin V
    <3>1. f[N][n] \subseteq R
      BY <1>12, <2>5 DEF R
    <3>2. N \in 0 .. N
      BY <1>6
    <3> QED BY <1>7, <3>1, <3>2
  <2> QED BY <2>1, <2>2, <2>3, <2>4, <2>5 DEF TreeKinds
<1>17. applyMaxDepth(V, R, MaxDepth(depth)) = R
  BY DEF applyMaxDepth
<1> QED BY <1>16, <1>17 DEF Tree, R
-----------------------------------------------------------------------------
(* Types                                                                   *)

Commands == {"context", "hset", "sadd", "del", "srem", "update"}
Command == [cmd : Commands, node : Nodes, name : Names \cup {NoName}]
ReaderState ==
  [pc : {"new", "scan", "list", "filter", "done"}, ask : TreeRequest,
   asked : SUBSET TreeKinds, read : SUBSET TreeKinds,
   names : [Nodes -> Names \cup {NoName}], found : SUBSET Nodes,
   source : {"cache", "database"}, visible : SUBSET Nodes, answer : SUBSET Nodes,
   gone : SUBSET Nodes, steady : SUBSET Nodes]

TreeTypeOK ==
  /\ rows \in [Nodes -> Row]
  /\ hash \in [Nodes -> Names \cup {NoName}]
  /\ index \subseteq Nodes
  /\ pending \subseteq Request
  /\ left \in Nat /\ faults \in Nat
  /\ prog \in [Procs -> Seq(Command)]
  /\ reader \in [Readers -> ReaderState]
  /\ alone \in [Procs -> SUBSET Nodes]
  /\ fresh \subseteq Nodes

\* Pieces of programs whose commands are in E: a hash before its id, and
\* nothing that begins in the middle.
Ordered(s) ==
  \A k \in 1 .. Len(s) :
    /\ s[k].cmd = "context" => k + 1 <= Len(s) /\ s[k + 1].cmd = "hset"
    /\ s[k].cmd = "hset" =>
         k + 1 <= Len(s) /\ s[k + 1].cmd = "sadd" /\ s[k + 1].node = s[k].node
    /\ s[k].cmd = "del" =>
         k + 1 <= Len(s) /\ s[k + 1].cmd = "srem" /\ s[k + 1].node = s[k].node
    /\ s[k].cmd = "sadd" /\ k # 1 => s[k - 1].cmd = "hset"
    /\ s[k].cmd = "srem" /\ k # 1 => s[k - 1].cmd = "del"
Pieces(E) ==
  {s \in Seq(E) : Ordered(s) /\ (s # << >> => s[1].cmd \notin {"sadd", "srem"})}

Upserts(S, names) ==
  {x \in Command : x.cmd \in {"context", "hset", "sadd"} /\ x.node \in S
                   /\ x.name = names[x.node]}
Removals(S) == {x \in Command : x.cmd \in {"del", "srem"} /\ x.node \in S}

LEMMA PiecesJoin ==
  ASSUME NEW E, NEW a \in Pieces(E), NEW b \in Pieces(E)
  PROVE  a \o b \in Pieces(E)
<1> DEFINE s == a \o b
<1>1. /\ a \in Seq(E) /\ b \in Seq(E) /\ Ordered(a) /\ Ordered(b)
      /\ a # << >> => a[1].cmd \notin {"sadd", "srem"}
      /\ b # << >> => b[1].cmd \notin {"sadd", "srem"}
  BY DEF Pieces
<1>2. /\ s \in Seq(E) /\ Len(s) = Len(a) + Len(b) /\ Len(a) \in Nat /\ Len(b) \in Nat
      /\ \A k \in 1 .. Len(a) : s[k] = a[k]
      /\ \A k \in 1 .. Len(b) : s[Len(a) + k] = b[k]
  BY <1>1
<1>3. \A k \in 1 .. Len(s) : k \in 1 .. Len(a) \/ \E j \in 1 .. Len(b) : k = Len(a) + j
  <2> TAKE k \in 1 .. Len(s)
  <2>1. k \in 1 .. Len(a) \/ (k - Len(a) \in 1 .. Len(b) /\ k = Len(a) + (k - Len(a)))
    BY <1>2
  <2> QED BY <2>1
<1> HIDE DEF s
<1>4. s # << >> => s[1].cmd \notin {"sadd", "srem"}
  <2>1. CASE a # << >>
    <3>1. s[1] = a[1]
      BY <1>1, <1>2, <2>1
    <3> QED BY <1>1, <2>1, <3>1
  <2>2. CASE a = << >> /\ b # << >>
    <3>1. s[1] = b[1]
      BY <1>1, <1>2, <2>2
    <3> QED BY <1>1, <2>2, <3>1
  <2>3. CASE a = << >> /\ b = << >>
    BY <2>3 DEF s
  <2> QED BY <2>1, <2>2, <2>3
<1>5. Ordered(s)
  <2> SUFFICES ASSUME NEW k \in 1 .. Len(s)
               PROVE  /\ s[k].cmd = "context" => k + 1 <= Len(s) /\ s[k + 1].cmd = "hset"
                      /\ s[k].cmd = "hset" =>
                           k + 1 <= Len(s) /\ s[k + 1].cmd = "sadd" /\ s[k + 1].node = s[k].node
                      /\ s[k].cmd = "del" =>
                           k + 1 <= Len(s) /\ s[k + 1].cmd = "srem" /\ s[k + 1].node = s[k].node
                      /\ s[k].cmd = "sadd" /\ k # 1 => s[k - 1].cmd = "hset"
                      /\ s[k].cmd = "srem" /\ k # 1 => s[k - 1].cmd = "del"
    BY DEF Ordered
  <2>1. CASE k \in 1 .. Len(a)
    <3>1. s[k] = a[k] /\ (k + 1 <= Len(a) => k + 1 <= Len(s) /\ s[k + 1] = a[k + 1])
          /\ (k # 1 => s[k - 1] = a[k - 1])
      BY <1>2, <2>1
    <3> QED BY <1>1, <2>1, <3>1 DEF Ordered
  <2>2. CASE \E j \in 1 .. Len(b) : k = Len(a) + j
    <3>1. PICK j \in 1 .. Len(b) : k = Len(a) + j
      BY <2>2
    <3>2. s[k] = b[j] /\ (j + 1 <= Len(b) => k + 1 <= Len(s) /\ s[k + 1] = b[j + 1])
          /\ (j # 1 => s[k - 1] = b[j - 1])
      <4>1. s[k] = b[j]
        BY <1>2, <3>1
      <4>2. j + 1 <= Len(b) => k + 1 = Len(a) + (j + 1) /\ j + 1 \in 1 .. Len(b) /\ k + 1 <= Len(s)
        BY <1>2, <3>1
      <4>3. j # 1 => k - 1 = Len(a) + (j - 1) /\ j - 1 \in 1 .. Len(b)
        BY <1>2, <3>1
      <4>4. j + 1 <= Len(b) => k + 1 <= Len(s) /\ s[k + 1] = b[j + 1]
        BY <1>2, <4>2
      <4>5. j # 1 => s[k - 1] = b[j - 1]
        BY <1>2, <4>3
      <4> QED BY <4>1, <4>4, <4>5
    <3>3. j = 1 => b[j].cmd \notin {"sadd", "srem"}
      BY <1>1, <3>1
    <3>4. /\ b[j].cmd = "context" => j + 1 <= Len(b) /\ b[j + 1].cmd = "hset"
          /\ b[j].cmd = "hset" =>
               j + 1 <= Len(b) /\ b[j + 1].cmd = "sadd" /\ b[j + 1].node = b[j].node
          /\ b[j].cmd = "del" =>
               j + 1 <= Len(b) /\ b[j + 1].cmd = "srem" /\ b[j + 1].node = b[j].node
          /\ b[j].cmd = "sadd" /\ j # 1 => b[j - 1].cmd = "hset"
          /\ b[j].cmd = "srem" /\ j # 1 => b[j - 1].cmd = "del"
      BY <1>1, <3>1 DEF Ordered
    <3>5. CASE j = 1
      BY <3>2, <3>3, <3>4, <3>5
    <3>6. CASE j # 1
      BY <3>2, <3>4, <3>6
    <3> QED BY <3>5, <3>6
  <2> QED BY <1>3, <2>1, <2>2
<1> QED BY <1>2, <1>4, <1>5 DEF Pieces, s

LEMMA EmptyPiece == \A E : << >> \in Pieces(E)
BY DEF Pieces, Ordered

\* The commands of one resource.
LEMMA UpsertPiece ==
  ASSUME NEW S \in SUBSET Nodes, NEW names \in [Nodes -> Names \cup {NoName}], NEW n \in S
  PROVE  /\ upsertResource(n, names[n]) \in Pieces(Upserts(S, names))
         /\ UpsertFolder(n, names[n]) \in Pieces(Upserts(S, names))
         /\ cacheUpsert(n, names[n]) \in Pieces(Upserts(S, names))
<1> DEFINE x(cmd) == Do(cmd, n, names[n])  E == Upserts(S, names)
<1>1. \A cmd \in {"context", "hset", "sadd"} :
        x(cmd) \in E /\ x(cmd).cmd = cmd /\ x(cmd).node = n
  BY DEF Do, Upserts, Command, Commands
<1>2. upsertResource(n, names[n]) = <<x("hset"), x("sadd")>>
  BY DEF upsertResource
<1>3. UpsertFolder(n, names[n]) = <<x("context")>> \o <<x("hset"), x("sadd")>>
  BY <1>2 DEF UpsertFolder
<1> HIDE DEF x, E
<1>4. <<x("hset"), x("sadd")>> \in Pieces(E)
  BY <1>1 DEF Pieces, Ordered
<1>5. UpsertFolder(n, names[n]) \in Pieces(E)
  <2> DEFINE s == UpsertFolder(n, names[n])
  <2>1. \A a, b, c \in E : LET w == <<a>> \o <<b, c>>
                         IN  w \in Seq(E) /\ Len(w) = 3 /\ w[1] = a /\ w[2] = b /\ w[3] = c
    OBVIOUS
  <2>2. /\ s \in Seq(E) /\ Len(s) = 3
        /\ s[1] = x("context") /\ s[2] = x("hset") /\ s[3] = x("sadd")
    BY <1>1, <1>3, <2>1
  <2> HIDE DEF s
  <2>3. Ordered(s)
    BY <1>1, <2>2 DEF Ordered
  <2> QED BY <1>1, <2>2, <2>3 DEF Pieces, s
<1> QED BY <1>2, <1>4, <1>5 DEF cacheUpsert, E

LEMMA RemovalPiece ==
  ASSUME NEW S \in SUBSET Nodes, NEW n \in S
  PROVE  deleteResource(n) \in Pieces(Removals(S))
<1> DEFINE x(cmd) == Do(cmd, n, NoName)  E == Removals(S)
<1>1. \A cmd \in {"del", "srem"} : x(cmd) \in E /\ x(cmd).cmd = cmd /\ x(cmd).node = n
  BY DEF Do, Removals, Command, Commands
<1>2. deleteResource(n) = <<x("del"), x("srem")>>
  BY DEF deleteResource
<1> HIDE DEF x, E
<1>3. <<x("del"), x("srem")>> \in Pieces(E)
  BY <1>1 DEF Pieces, Ordered
<1> QED BY <1>2, <1>3 DEF E

\* Pieces one after the other.
LEMMA PiecesConcat ==
  ASSUME NEW E, NEW seqs \in Seq(Pieces(E))
  PROVE  Concat(seqs) \in Pieces(E)
BY PiecesJoin, EmptyPiece, ConcatIn

\* The commands for a sequence of resources.
LEMMA UpsertsOf ==
  ASSUME NEW S \in SUBSET Nodes, NEW names \in [Nodes -> Names \cup {NoName}],
         NEW s \in Seq(S)
  PROVE  /\ Concat([k \in DOMAIN s |-> upsertResource(s[k], names[s[k]])])
              \in Pieces(Upserts(S, names))
         /\ Concat([k \in DOMAIN s |-> UpsertFolder(s[k], names[s[k]])])
              \in Pieces(Upserts(S, names))
         /\ Concat([k \in DOMAIN s |-> cacheUpsert(s[k], names[s[k]])])
              \in Pieces(Upserts(S, names))
<1> DEFINE W == Pieces(Upserts(S, names))
<1>1. DOMAIN s = 1 .. Len(s) /\ Len(s) \in Nat /\ \A k \in DOMAIN s : s[k] \in S
  OBVIOUS
<1>2. \A k \in DOMAIN s : /\ upsertResource(s[k], names[s[k]]) \in W
                          /\ UpsertFolder(s[k], names[s[k]]) \in W
                          /\ cacheUpsert(s[k], names[s[k]]) \in W
  BY <1>1, UpsertPiece
<1> HIDE DEF W
<1>3. /\ [k \in DOMAIN s |-> upsertResource(s[k], names[s[k]])] \in [1 .. Len(s) -> W]
      /\ [k \in DOMAIN s |-> UpsertFolder(s[k], names[s[k]])] \in [1 .. Len(s) -> W]
      /\ [k \in DOMAIN s |-> cacheUpsert(s[k], names[s[k]])] \in [1 .. Len(s) -> W]
  BY <1>1, <1>2
<1>4. [1 .. Len(s) -> W] \subseteq Seq(W)
  BY <1>1
<1> QED BY <1>3, <1>4, PiecesConcat DEF W

LEMMA RemovalsOf ==
  ASSUME NEW S \in SUBSET Nodes
  PROVE  cacheInvalidateCascade(S) \in Pieces(Removals(S))
<1> DEFINE s == TopDown(S)  W == Pieces(Removals(S))
<1>1. \A kind : VisibleOf(S, kind) \subseteq S /\ IsFiniteSet(VisibleOf(S, kind))
  BY TreeCacheAssumption, FS_Subset DEF VisibleOf
<1>2. \A kind : SetToSeq(VisibleOf(S, kind)) \in Seq(S)
  BY <1>1, SequenceOf
<1>3. s \in Seq(S)
  BY <1>2 DEF TopDown
<1>4. cacheInvalidateCascade(S) = Concat([k \in DOMAIN s |-> deleteResource(s[k])])
  BY DEF cacheInvalidateCascade
<1> HIDE DEF s
<1>5. DOMAIN s = 1 .. Len(s) /\ Len(s) \in Nat /\ \A k \in DOMAIN s : s[k] \in S
  BY <1>3
<1>6. \A k \in DOMAIN s : deleteResource(s[k]) \in W
  BY <1>5, RemovalPiece
<1> HIDE DEF W
<1>7. [k \in DOMAIN s |-> deleteResource(s[k])] \in [1 .. Len(s) -> W]
  BY <1>5, <1>6
<1>8. [1 .. Len(s) -> W] \subseteq Seq(W)
  BY <1>5
<1> QED BY <1>4, <1>7, <1>8, PiecesConcat DEF W
-----------------------------------------------------------------------------
(* What holds of programs and of requests for the tree                     *)

\* An update of a batch is in no program that deletes, and the hashes that go
\* to Redis after it have its name.
OneName(s) ==
  \A j, k \in 1 .. Len(s) : s[j].cmd = "update" =>
    /\ s[k].cmd \notin {"del", "srem"}
    /\ s[k].cmd = "hset" => s[k].name = s[j].name

\* What a program is going to write about the resources in S is what the table
\* has, or what an update before it will put there; the hash of the id that it
\* writes next has been written.
Fits(s, S, table, written) ==
  /\ \A k \in 1 .. Len(s) : s[k].node \in S =>
       /\ s[k].cmd = "hset" =>
            \/ table[s[k].node].state = "live" /\ table[s[k].node].name = s[k].name
            \/ \E j \in 1 .. k - 1 : s[j].cmd = "update" /\ s[j].node = s[k].node
       /\ s[k].cmd \in {"del", "srem"} => table[s[k].node].state # "live"
  /\ s # << >> /\ s[1].cmd = "sadd" /\ s[1].node \in S =>
       /\ table[s[1].node].state = "live"
       /\ written[s[1].node] = table[s[1].node].name

Programs == \A p \in Procs : Ordered(prog[p]) /\ OneName(prog[p])
ProgramsFit == \A p \in Procs : Fits(prog[p], alone[p], rows, hash)

\* A request for the tree: nothing is visible before the filters, nobody
\* deleted becomes live again, and what the caller could read all along is
\* listed, then kept by the filters.
Unpermitted(user) ==
  {n \in Nodes : ~ UserPermissions(Held[user], ResourceScopes(n), Kind[n], "read")}
Sound(rd, table) ==
  /\ rd.pc \in {"new", "scan"} => rd.source = "cache"
  /\ rd.pc \in {"new", "scan", "list"} => rd.visible = {}
  /\ rd.pc # "done" => rd.answer = {}
  /\ \A n \in rd.gone : table[n].state = "deleted"
  /\ rd.visible \cap (rd.gone \cup Unpermitted(rd.ask.user)) = {}
  /\ rd.answer \subseteq rd.visible
  /\ rd.steady \subseteq ReadableBy(table, rd.ask.user)
  /\ rd.pc = "list" => \A kind \in rd.read : rd.steady \cap OfKind(kind) \subseteq rd.found
  /\ rd.pc = "filter" /\ rd.source = "database" => rd.steady \subseteq rd.found \cup rd.visible
  /\ (/\ rd.pc = "done" /\ rd.source = "database"
      /\ rd.ask.orphans /\ MaxDepth(rd.ask.depth) = 4) =>
       \A n \in rd.steady \ rd.answer : Level2(n) /\ Up[n] \in rd.visible
ReaderSound(r) == Sound(reader[r], rows)

\* Its goroutines have no program before the lists are complete, and what is
\* still as it was listed has the name that was read.
WarmersWait(r) ==
  \A kind \in TreeKinds :
    /\ reader[r].pc \in {"new", "scan", "list"} => prog[<<r, kind>>] = << >>
    /\ reader[r].pc \in {"new", "scan"} => alone[<<r, kind>>] = {}
    /\ reader[r].pc = "list" =>
         \A n \in alone[<<r, kind>>] : n \in Live /\ reader[r].names[n] = rows[n].name

TreeInv ==
  /\ TreeTypeOK /\ Programs /\ ProgramsFit /\ LoneWritersLeaveTheTruth
  /\ \A r \in Readers : ReaderSound(r) /\ WarmersWait(r)
\* What is left of a program.
Rest(s, d) == SubSeq(s, d + 1, Len(s))

LEMMA RestIs ==
  ASSUME NEW s \in Seq(Command), NEW d \in 0 .. Len(s)
  PROVE  /\ Rest(s, d) \in Seq(Command) /\ Len(Rest(s, d)) = Len(s) - d /\ Len(s) \in Nat
         /\ \A k \in 1 .. Len(Rest(s, d)) : Rest(s, d)[k] = s[k + d] /\ k + d \in 1 .. Len(s)
<1> DEFINE t == Rest(s, d)
<1>1. /\ t \in Seq(Command) /\ Len(t) = Len(s) - d /\ Len(s) \in Nat
      /\ \A k \in 1 .. Len(s) - d : t[k] = s[k + d] /\ k + d \in 1 .. Len(s)
  BY DEF Rest
<1> HIDE DEF t
<1>2. \A k \in 1 .. Len(t) : t[k] = s[k + d] /\ k + d \in 1 .. Len(s)
  BY <1>1
<1> QED BY <1>1, <1>2 DEF t

LEMMA RestOrdered ==
  ASSUME NEW s \in Seq(Command), NEW d \in 0 .. Len(s), Ordered(s), OneName(s)
  PROVE  Ordered(Rest(s, d)) /\ OneName(Rest(s, d))
<1> DEFINE t == Rest(s, d)
<1>1. /\ Len(t) = Len(s) - d /\ Len(s) \in Nat
      /\ \A k \in 1 .. Len(t) : t[k] = s[k + d] /\ k + d \in 1 .. Len(s)
  BY RestIs
<1> HIDE DEF t
<1>2. OneName(t)
  <2> SUFFICES ASSUME NEW j \in 1 .. Len(t), NEW k \in 1 .. Len(t), t[j].cmd = "update"
               PROVE  /\ t[k].cmd \notin {"del", "srem"}
                      /\ t[k].cmd = "hset" => t[k].name = t[j].name
    BY DEF OneName
  <2>1. /\ t[j] = s[j + d] /\ j + d \in 1 .. Len(s)
        /\ t[k] = s[k + d] /\ k + d \in 1 .. Len(s)
    BY <1>1
  <2> QED BY <2>1 DEF OneName
<1>3. ASSUME NEW k \in 1 .. Len(t)
      PROVE  /\ k + d \in 1 .. Len(s) /\ t[k] = s[k + d]
             /\ (k + d) + 1 <= Len(s) =>
                  k + 1 <= Len(t) /\ t[k + 1] = s[(k + d) + 1]
             /\ k # 1 => k + d # 1 /\ t[k - 1] = s[(k + d) - 1]
  <2>1. (k + d) + 1 <= Len(s) => k + 1 \in 1 .. Len(t) /\ (k + 1) + d = (k + d) + 1
    BY <1>1
  <2>2. k # 1 => k - 1 \in 1 .. Len(t) /\ (k - 1) + d = (k + d) - 1 /\ k + d # 1
    BY <1>1
  <2> QED BY <1>1, <2>1, <2>2
<1>4. Ordered(t)
  <2> SUFFICES ASSUME NEW k \in 1 .. Len(t)
               PROVE  /\ t[k].cmd = "context" => k + 1 <= Len(t) /\ t[k + 1].cmd = "hset"
                      /\ t[k].cmd = "hset" =>
                           k + 1 <= Len(t) /\ t[k + 1].cmd = "sadd" /\ t[k + 1].node = t[k].node
                      /\ t[k].cmd = "del" =>
                           k + 1 <= Len(t) /\ t[k + 1].cmd = "srem" /\ t[k + 1].node = t[k].node
                      /\ t[k].cmd = "sadd" /\ k # 1 => t[k - 1].cmd = "hset"
                      /\ t[k].cmd = "srem" /\ k # 1 => t[k - 1].cmd = "del"
    BY DEF Ordered
  <2>1. PICK i \in 1 .. Len(s) :
          /\ t[k] = s[i]
          /\ i + 1 <= Len(s) => k + 1 <= Len(t) /\ t[k + 1] = s[i + 1]
          /\ k # 1 => i # 1 /\ t[k - 1] = s[i - 1]
    BY <1>3
  <2> QED BY <2>1 DEF Ordered
<1> QED BY <1>2, <1>4 DEF t

\* Commands are run, others touch resources: the program still fits what it
\* is alone with.
LEMMA RestFits ==
  ASSUME NEW s \in Seq(Command), NEW d \in 0 .. Len(s), NEW A, NEW B \in SUBSET A,
         NEW table, NEW table2, NEW h, NEW h2,
         Fits(s, A, table, h), \A n \in B : table2[n] = table[n],
         \A j \in 1 .. d : s[j].cmd # "update",
         d + 1 <= Len(s) /\ s[d + 1].cmd = "sadd" /\ s[d + 1].node \in B =>
           /\ table2[s[d + 1].node].state = "live"
           /\ h2[s[d + 1].node] = table2[s[d + 1].node].name
  PROVE  Fits(Rest(s, d), B, table2, h2)
<1> DEFINE t == Rest(s, d)
<1>1. /\ Len(t) = Len(s) - d /\ Len(s) \in Nat /\ t \in Seq(Command)
      /\ \A k \in 1 .. Len(t) : t[k] = s[k + d] /\ k + d \in 1 .. Len(s)
  BY RestIs
<1> HIDE DEF t
<1>2. ASSUME NEW k \in 1 .. Len(t), t[k].node \in B
      PROVE  /\ t[k].cmd = "hset" =>
                  \/ table2[t[k].node].state = "live" /\ table2[t[k].node].name = t[k].name
                  \/ \E j \in 1 .. k - 1 : t[j].cmd = "update" /\ t[j].node = t[k].node
             /\ t[k].cmd \in {"del", "srem"} => table2[t[k].node].state # "live"
  <2>1. k + d \in 1 .. Len(s) /\ t[k] = s[k + d] /\ s[k + d].node \in A
        /\ table2[s[k + d].node] = table[s[k + d].node]
    BY <1>1, <1>2
  <2>2. ASSUME NEW j \in 1 .. (k + d) - 1, s[j].cmd = "update", s[j].node = s[k + d].node
        PROVE  \E i \in 1 .. k - 1 : t[i].cmd = "update" /\ t[i].node = t[k].node
    <3>1. j > d
      BY <1>1, <2>2
    <3> DEFINE i == j - d
    <3>2. i \in 1 .. k - 1 /\ i \in 1 .. Len(t) /\ i + d = j
      <4>1. j \in Nat /\ d \in Nat /\ k \in Nat /\ Len(t) \in Nat /\ k <= Len(t)
        BY <1>1, <1>2, <2>2
      <4>2. j <= (k + d) - 1
        BY <1>1, <2>2
      <4> QED BY <3>1, <4>1, <4>2
    <3> HIDE DEF i
    <3>3. t[i] = s[j]
      BY <1>1, <3>2
    <3> QED BY <2>1, <2>2, <3>2, <3>3
  <2> QED BY <2>1, <2>2 DEF Fits
<1>3. t # << >> => d + 1 <= Len(s) /\ t[1] = s[d + 1]
  BY <1>1
<1> QED BY <1>2, <1>3 DEF Fits, t

LEMMA FitsFewer ==
  ASSUME NEW s, NEW A, NEW B \in SUBSET A, NEW table, NEW table2, NEW h, NEW h2,
         Fits(s, A, table, h), \A n \in B : table2[n] = table[n] /\ h2[n] = h[n]
  PROVE  Fits(s, B, table2, h2)
<1>1. s # << >> /\ s[1].cmd = "sadd" /\ s[1].node \in B =>
        /\ table2[s[1].node].state = "live"
        /\ h2[s[1].node] = table2[s[1].node].name
  BY DEF Fits
<1>2. ASSUME NEW k \in 1 .. Len(s), s[k].node \in B
      PROVE  /\ s[k].cmd = "hset" =>
                  \/ table2[s[k].node].state = "live" /\ table2[s[k].node].name = s[k].name
                  \/ \E j \in 1 .. k - 1 : s[j].cmd = "update" /\ s[j].node = s[k].node
             /\ s[k].cmd \in {"del", "srem"} => table2[s[k].node].state # "live"
  BY <1>2 DEF Fits
<1> QED BY <1>1, <1>2 DEF Fits

LEMMA EmptyFits ==
  ASSUME NEW A, NEW table, NEW h
  PROVE  Ordered(<< >>) /\ OneName(<< >>) /\ Fits(<< >>, A, table, h)
BY DEF Ordered, OneName, Fits

\* The programs of a handler or a goroutine that has only Redis to write to.
LEMMA UpsertsFit ==
  ASSUME NEW S \in SUBSET Nodes, NEW names \in [Nodes -> Names \cup {NoName}],
         NEW s \in Pieces(Upserts(S, names)), NEW A, NEW table, NEW h,
         \A n \in S \cap A : table[n].state = "live" /\ table[n].name = names[n]
  PROVE  s \in Seq(Command) /\ Ordered(s) /\ OneName(s) /\ Fits(s, A, table, h)
<1>1. s \in Seq(Upserts(S, names)) /\ Ordered(s) /\ (s # << >> => s[1].cmd # "sadd")
  BY DEF Pieces
<1>2. \A k \in 1 .. Len(s) : s[k] \in Upserts(S, names)
  BY <1>1
<1>3. Upserts(S, names) \subseteq Command
  BY DEF Upserts
<1>4. s \in Seq(Command)
  BY <1>1, <1>3
<1>5. \A k \in 1 .. Len(s) : /\ s[k].cmd \notin {"update", "del", "srem"}
                             /\ s[k].node \in S /\ s[k].name = names[s[k].node]
  BY <1>2 DEF Upserts
<1>6. OneName(s)
  BY <1>5 DEF OneName
<1>7. Fits(s, A, table, h)
  BY <1>1, <1>5 DEF Fits
<1> QED BY <1>1, <1>4, <1>6, <1>7

LEMMA RemovalsFit ==
  ASSUME NEW S \in SUBSET Nodes, NEW s \in Pieces(Removals(S)), NEW A, NEW table, NEW h,
         \A n \in S \cap A : table[n].state # "live"
  PROVE  s \in Seq(Command) /\ Ordered(s) /\ OneName(s) /\ Fits(s, A, table, h)
<1>1. s \in Seq(Removals(S)) /\ Ordered(s)
  BY DEF Pieces
<1>2. \A k \in 1 .. Len(s) : s[k] \in Removals(S)
  BY <1>1
<1>3. Removals(S) \subseteq Command
  BY DEF Removals
<1>4. s \in Seq(Command)
  BY <1>1, <1>3
<1>5. \A k \in 1 .. Len(s) : s[k].cmd \in {"del", "srem"} /\ s[k].node \in S
  BY <1>2 DEF Removals
<1>6. OneName(s)
  BY <1>5 DEF OneName
<1>7. Fits(s, A, table, h)
  <2>1. s # << >> => s[1].cmd # "sadd"
    BY <1>1, <1>5
  <2> QED BY <1>5, <2>1 DEF Fits
<1> QED BY <1>1, <1>4, <1>6, <1>7
-----------------------------------------------------------------------------
(* Kinds of steps                                                          *)

\* p commits the table, which differs from the rows in S only, and goes on
\* with s.
Commits(p, table, S, s) ==
  /\ \A n \in Nodes \ S : table[n] = rows[n]
  /\ \A n \in Nodes : rows[n].state = "deleted" => table[n].state = "deleted"
  /\ Ordered(s) /\ OneName(s) /\ Fits(s, alone[p] \cup S, table, hash)
  /\ Commit(p, table, S)
  /\ prog' = [prog EXCEPT ![p] = s]
  /\ pending' \subseteq pending /\ left' \in Nat
Committing ==
  \E p \in Calls, table \in [Nodes -> Row], S \in SUBSET Nodes, s \in Seq(Command) :
    Commits(p, table, S, s)

\* p goes on with another program.
Replaces(p, s) ==
  /\ Ordered(s) /\ OneName(s) /\ Fits(s, alone[p], rows, hash)
  /\ prog' = [prog EXCEPT ![p] = s]
  /\ pending' \subseteq pending /\ left' \in Nat
  /\ UNCHANGED <<rows, hash, index, faults, reader, alone, fresh>>
Replacing == \E p \in Calls, s \in Seq(Command) : Replaces(p, s)

\* One resource of the request, or all of them.
LEMMA RequestFields ==
  ASSUME TreeTypeOK, NEW c \in Calls, NEW r \in pending, Submit(c, r)
  PROVE  /\ r \in Request /\ pending' \subseteq pending /\ left' \in Nat
         /\ r.op \in {"create", "batch"} =>
              r.nodes \in Seq(Nodes) /\ r.nodes # << >> /\ r.name \in Names
         /\ r.op = "update" => r.node \in Nodes /\ r.name \in Names
         /\ r.op = "delete" => r.node \in Nodes
<1>1. r \in Request /\ pending' \subseteq pending /\ left' \in Nat
  BY DEF TreeTypeOK, Submit
<1> QED BY <1>1 DEF Request

LEMMA CreateCommits ==
  ASSUME TreeTypeOK, NEW c \in Calls, NEW r \in pending, r.op = "create",
         NEW cached, cached = r.nodes \/ cached = <<Head(r.nodes)>>,
         CreateEntities(c, r, cached)
  PROVE  Committing
<1> DEFINE S == {r.nodes[k] : k \in DOMAIN r.nodes}
           table == [n \in Nodes |-> IF n \in S THEN [state |-> "live", name |-> r.name]
                                                ELSE rows[n]]
           names == [n \in Nodes |-> r.name]
           s == Concat([k \in DOMAIN cached |-> cacheUpsert(cached[k], r.name)])
<1>1. /\ Submit(c, r) /\ Commit(c, table, S) /\ prog' = [prog EXCEPT ![c] = s]
      /\ \A n \in S : rows[n] = Absent
  BY DEF CreateEntities
<1>2. /\ pending' \subseteq pending /\ left' \in Nat
      /\ r.nodes \in Seq(Nodes) /\ r.nodes # << >> /\ r.name \in Names
  BY <1>1, RequestFields
<1>3. S \subseteq Nodes /\ r.nodes \in Seq(S)
  BY <1>2
<1>4. cached \in Seq(S)
  <2>1. Head(r.nodes) \in S
    BY <1>2
  <2> HIDE DEF S
  <2>2. <<Head(r.nodes)>> \in Seq(S)
    BY <2>1
  <2> QED BY <1>3, <2>2
<1> HIDE DEF S
<1>5. names \in [Nodes -> Names \cup {NoName}] /\ \A n \in Nodes : names[n] = r.name
  BY <1>2
<1>6. table \in [Nodes -> Row] /\ \A n \in Nodes \ S : table[n] = rows[n]
  BY <1>2 DEF TreeTypeOK, Row
<1>7. \A n \in S : table[n].state = "live" /\ table[n].name = names[n]
  BY <1>3
<1> HIDE DEF table, names
<1>8. s = Concat([k \in DOMAIN cached |-> cacheUpsert(cached[k], names[cached[k]])])
  <2>1. \A k \in DOMAIN cached : cached[k] \in Nodes
    BY <1>3, <1>4
  <2>2. [k \in DOMAIN cached |-> cacheUpsert(cached[k], r.name)]
          = [k \in DOMAIN cached |-> cacheUpsert(cached[k], names[cached[k]])]
    BY <1>5, <2>1
  <2> QED BY <2>2
<1>9. s \in Pieces(Upserts(S, names))
  BY <1>3, <1>4, <1>5, <1>8, UpsertsOf
<1> HIDE DEF s
<1>10. /\ s \in Seq(Command) /\ Ordered(s) /\ OneName(s)
       /\ Fits(s, alone[c] \cup S, table, hash)
  BY <1>3, <1>5, <1>7, <1>9, UpsertsFit
<1>11. \A n \in Nodes : rows[n].state = "deleted" => table[n].state = "deleted"
  BY <1>1, <1>6 DEF Absent
<1>12. Commits(c, table, S, s)
  BY <1>1, <1>2, <1>6, <1>10, <1>11 DEF Commits
<1> QED BY <1>3, <1>6, <1>10, <1>12 DEF Committing

LEMMA UpdateCommits ==
  ASSUME TreeTypeOK, NEW c \in Calls, NEW r \in pending, r.op = "update",
         UpdateEntity(c, r)
  PROVE  Committing
<1> DEFINE S == {r.node}  s == cacheUpsert(r.node, r.name)
           table == [rows EXCEPT ![r.node].name = r.name]
           names == [n \in Nodes |-> r.name]
<1>1. /\ Submit(c, r) /\ Commit(c, table, S) /\ prog' = [prog EXCEPT ![c] = s]
      /\ r.node \in Live
  BY DEF UpdateEntity
<1>2. /\ pending' \subseteq pending /\ left' \in Nat
      /\ r.node \in Nodes /\ r.name \in Names
  BY <1>1, RequestFields
<1>3. names \in [Nodes -> Names \cup {NoName}] /\ names[r.node] = r.name
  BY <1>2
<1>4. table \in [Nodes -> Row] /\ \A n \in Nodes \ S : table[n] = rows[n]
  BY <1>2 DEF TreeTypeOK, Row
<1>5. /\ table[r.node].state = "live" /\ table[r.node].name = r.name
      /\ \A n \in Nodes : table[n].state = rows[n].state
  BY <1>1, <1>2 DEF TreeTypeOK, Row, Live, LiveIn
<1> HIDE DEF table, names
<1>6. s \in Pieces(Upserts(S, names))
  BY <1>2, <1>3, UpsertPiece
<1> HIDE DEF s
<1>7. /\ s \in Seq(Command) /\ Ordered(s) /\ OneName(s)
      /\ Fits(s, alone[c] \cup S, table, hash)
  BY <1>2, <1>3, <1>5, <1>6, UpsertsFit
<1>8. Commits(c, table, S, s)
  BY <1>1, <1>2, <1>4, <1>5, <1>7 DEF Commits
<1> QED BY <1>2, <1>4, <1>7, <1>8 DEF Committing

LEMMA DeleteCommits ==
  ASSUME TreeTypeOK, NEW c \in Calls, NEW r \in pending, NEW S \in SUBSET Nodes,
         DeleteCascade(c, r, S)
  PROVE  Committing
<1> DEFINE s == cacheInvalidateCascade(S)
           table == [n \in Nodes |-> IF n \in S THEN SoftDeleted(rows[n]) ELSE rows[n]]
<1>1. Submit(c, r) /\ Commit(c, table, S) /\ prog' = [prog EXCEPT ![c] = s]
  BY DEF DeleteCascade
<1>2. pending' \subseteq pending /\ left' \in Nat
  BY <1>1, RequestFields
<1>3. /\ table \in [Nodes -> Row] /\ \A n \in Nodes \ S : table[n] = rows[n]
      /\ \A n \in S : table[n].state = "deleted"
  BY DEF TreeTypeOK, Row, SoftDeleted
<1> HIDE DEF table
<1>4. s \in Pieces(Removals(S))
  BY RemovalsOf
<1> HIDE DEF s
<1>5. /\ s \in Seq(Command) /\ Ordered(s) /\ OneName(s)
      /\ Fits(s, alone[c] \cup S, table, hash)
  BY <1>3, <1>4, RemovalsFit
<1>6. Commits(c, table, S, s)
  BY <1>1, <1>2, <1>3, <1>5 DEF Commits
<1> QED BY <1>3, <1>5, <1>6 DEF Committing
\* An update of a batch commits, or ends the request.
LEMMA BatchGoesOn ==
  ASSUME TreeTypeOK, Programs, ProgramsFit, NEW c \in Calls, updateEntity(c)
  PROVE  Committing \/ Replacing
<1> DEFINE s == prog[c]  now == Head(s)  n == now.node
           table == [rows EXCEPT ![n].name = now.name]
<1>1. c \in Procs
  BY DEF Procs
<1>2. s \in Seq(Command) /\ Ordered(s) /\ OneName(s) /\ Fits(s, alone[c], rows, hash)
  BY <1>1 DEF TreeTypeOK, Programs, ProgramsFit
<1>3. s # << >> /\ now = s[1] /\ now.cmd = "update" /\ 1 \in 1 .. Len(s) /\ 1 \in 0 .. Len(s)
  BY <1>2 DEF updateEntity
<1>4. now \in Command
  BY <1>2, <1>3
<1>5. n \in Nodes /\ now.name \in Names \cup {NoName}
  BY <1>4 DEF Command
<1>6. pending' \subseteq pending /\ left' \in Nat
  BY DEF updateEntity, TreeTypeOK
<1>7. CASE n \in Live
  <2>1. Commit(c, table, {n}) /\ prog' = [prog EXCEPT ![c] = Tail(s)]
    BY <1>7 DEF updateEntity
  <2>2. Tail(s) = Rest(s, 1)
    BY <1>2, <1>3 DEF Rest
  <2>3. Tail(s) \in Seq(Command) /\ Ordered(Tail(s)) /\ OneName(Tail(s))
    BY <1>2, <1>3, <2>2, RestIs, RestOrdered
  <2>4. table \in [Nodes -> Row] /\ \A m \in Nodes \ {n} : table[m] = rows[m]
    BY <1>5 DEF TreeTypeOK, Row
  <2>5. /\ table[n].state = "live" /\ table[n].name = now.name
        /\ \A m \in Nodes : table[m].state = rows[m].state
    BY <1>5, <1>7 DEF TreeTypeOK, Row, Live, LiveIn
  <2> HIDE DEF table, n, now, s
  <2> DEFINE t == Rest(s, 1)  A == alone[c] \cup {n}
  <2>6. /\ t \in Seq(Command) /\ Len(t) = Len(s) - 1 /\ Len(s) \in Nat
        /\ \A k \in 1 .. Len(t) : t[k] = s[k + 1] /\ k + 1 \in 1 .. Len(s)
    BY <1>2, <1>3, RestIs
  <2> HIDE DEF t
  <2>7. ASSUME NEW k \in 1 .. Len(t), t[k].node \in A
        PROVE  /\ t[k].cmd = "hset" =>
                    \/ table[t[k].node].state = "live" /\ table[t[k].node].name = t[k].name
                    \/ \E j \in 1 .. k - 1 : t[j].cmd = "update" /\ t[j].node = t[k].node
               /\ t[k].cmd \in {"del", "srem"} => table[t[k].node].state # "live"
    <3>1. t[k] = s[k + 1] /\ k + 1 \in 1 .. Len(s) /\ t[k] \in Command
      BY <2>6
    <3>2. t[k].cmd \notin {"del", "srem"} /\ (t[k].cmd = "hset" => t[k].name = now.name)
      BY <1>2, <1>3, <3>1 DEF OneName
    <3>3. CASE t[k].node = n
      BY <2>5, <3>2, <3>3
    <3>4. CASE t[k].node # n
      <4>1. /\ t[k].node \in alone[c] /\ t[k].node \in Nodes
            /\ table[t[k].node] = rows[t[k].node]
        BY <2>4, <2>7, <3>1, <3>4 DEF Command
      <4>2. ASSUME NEW j \in 1 .. (k + 1) - 1, s[j].cmd = "update", s[j].node = s[k + 1].node
            PROVE  \E i \in 1 .. k - 1 : t[i].cmd = "update" /\ t[i].node = t[k].node
        <5>1. j # 1
          BY <1>3, <3>1, <3>4, <4>2 DEF n
        <5>2. j - 1 \in 1 .. k - 1 /\ j - 1 \in 1 .. Len(t) /\ (j - 1) + 1 = j
          BY <2>6, <5>1
        <5> QED BY <2>6, <3>1, <4>2, <5>2
      <4> QED BY <1>2, <3>1, <3>2, <4>1, <4>2 DEF Fits
    <3> QED BY <3>3, <3>4
  <2>8. t # << >> => t[1].cmd # "sadd"
    <3>1. SUFFICES ASSUME t # << >>
                   PROVE  t[1].cmd # "sadd"
      OBVIOUS
    <3>2. t[1] = s[2] /\ 2 \in 1 .. Len(s)
      BY <2>6, <3>1
    <3>3. s[2].cmd = "sadd" => s[1].cmd = "hset"
      BY <1>2, <3>2 DEF Ordered
    <3> QED BY <1>3, <3>2, <3>3
  <2>9. Fits(t, A, table, hash)
    BY <2>7, <2>8 DEF Fits
  <2>10. Commits(c, table, {n}, Tail(s))
    BY <1>6, <2>1, <2>2, <2>3, <2>4, <2>5, <2>9 DEF Commits, t
  <2> QED BY <1>5, <2>3, <2>4, <2>10 DEF Committing, n
<1>8. CASE n \notin Live
  <2>1. /\ prog' = [prog EXCEPT ![c] = << >>]
        /\ UNCHANGED <<rows, hash, index, faults, reader, alone, fresh>>
    BY <1>8 DEF updateEntity
  <2>2. Replaces(c, << >>)
    BY <1>6, <2>1, EmptyFits DEF Replaces
  <2>3. << >> \in Seq(Command)
    OBVIOUS
  <2> QED BY <2>2, <2>3 DEF Replacing
<1> QED BY <1>7, <1>8
\* The updates of a batch come before its commands for Redis.
LEMMA BatchBegins ==
  ASSUME TreeTypeOK, NEW c \in Calls, NEW r \in pending, BatchUpdateFolders(c, r)
  PROVE  Replacing
<1> DEFINE S == {r.nodes[k] : k \in DOMAIN r.nodes}
           names == [n \in Nodes |-> r.name]
           U == [k \in DOMAIN r.nodes |-> Do("update", r.nodes[k], r.name)]
           C == Concat([k \in DOMAIN r.nodes |-> UpsertFolder(r.nodes[k], r.name)])
           s == U \o C
           Updating == {x \in Command : x.cmd = "update" /\ x.node \in S /\ x.name = r.name}
           E == Updating \cup Upserts(S, names)
<1>1. /\ Submit(c, r) /\ prog' = [prog EXCEPT ![c] = s] /\ r.op = "batch"
      /\ UNCHANGED <<rows, hash, index, faults, reader, alone, fresh>>
  BY DEF BatchUpdateFolders
<1>2. /\ pending' \subseteq pending /\ left' \in Nat
      /\ r.nodes \in Seq(Nodes) /\ r.name \in Names
  BY <1>1, RequestFields
<1>3. /\ S \subseteq Nodes /\ r.nodes \in Seq(S)
      /\ DOMAIN r.nodes = 1 .. Len(r.nodes) /\ Len(r.nodes) \in Nat
      /\ \A n \in S : \E j \in 1 .. Len(r.nodes) : r.nodes[j] = n
  BY <1>2
<1>4. \A k \in 1 .. Len(r.nodes) : r.nodes[k] \in S /\ r.nodes[k] \in Nodes
  BY <1>3
<1> HIDE DEF S
<1>5. names \in [Nodes -> Names \cup {NoName}] /\ \A n \in Nodes : names[n] = r.name
  BY <1>2
<1> HIDE DEF names
<1>6. \A k \in 1 .. Len(r.nodes) : /\ Do("update", r.nodes[k], r.name) \in Updating
                                   /\ Do("update", r.nodes[k], r.name).cmd = "update"
                                   /\ Do("update", r.nodes[k], r.name).node = r.nodes[k]
  BY <1>2, <1>4 DEF Do, Command, Commands
<1>7. U \in Seq(Updating) /\ Len(U) = Len(r.nodes)
  <2> DEFINE N == Len(r.nodes)  do(k) == Do("update", r.nodes[k], r.name)
  <2>1. N \in Nat /\ U = [k \in 1 .. N |-> do(k)]
    BY <1>3
  <2>2. \A k \in 1 .. N : do(k) \in Updating
    BY <1>6
  <2> HIDE DEF N, do, Updating, U
  <2>3. U \in [1 .. N -> Updating]
    BY <2>1, <2>2
  <2>4. U \in Seq(Updating) /\ Len(U) = N
    BY <2>1, <2>3
  <2> QED BY <2>4 DEF N
<1>8. \A k \in 1 .. Len(U) : /\ U[k].cmd = "update" /\ U[k].node = r.nodes[k]
                             /\ U[k].name = r.name
  BY <1>3, <1>6, <1>7 DEF Do
<1>9. C \in Pieces(Upserts(S, names))
  <2>1. C = Concat([k \in DOMAIN r.nodes |-> UpsertFolder(r.nodes[k], names[r.nodes[k]])])
    <3>1. [k \in DOMAIN r.nodes |-> UpsertFolder(r.nodes[k], r.name)]
            = [k \in DOMAIN r.nodes |-> UpsertFolder(r.nodes[k], names[r.nodes[k]])]
      BY <1>3, <1>4, <1>5
    <3> QED BY <3>1
  <2> QED BY <1>3, <1>5, <2>1, UpsertsOf
<1> HIDE DEF U, C, Updating
<1>10. C \in Seq(Upserts(S, names)) /\ Ordered(C) /\ (C # << >> => C[1].cmd \notin {"sadd", "srem"})
  BY <1>9 DEF Pieces
<1>11. U \in Pieces(E) /\ C \in Pieces(E)
  <2>1. U \in Seq(E) /\ C \in Seq(E)
    BY <1>7, <1>10
  <2>2. Ordered(U)
    BY <1>8 DEF Ordered
  <2>3. U # << >> => U[1].cmd \notin {"sadd", "srem"}
    BY <1>7, <1>8
  <2> QED BY <1>10, <2>1, <2>2, <2>3 DEF Pieces
<1> HIDE DEF E
<1>12. s \in Seq(E) /\ Ordered(s) /\ (s # << >> => s[1].cmd # "sadd")
  BY <1>11, PiecesJoin DEF Pieces
<1>13. \A k \in 1 .. Len(s) : s[k] \in E
  BY <1>12
<1>14. \A x \in E : /\ x \in Command /\ x.node \in S /\ x.name = r.name
                    /\ x.cmd \in {"update", "context", "hset", "sadd"}
  BY <1>3, <1>5 DEF E, Updating, Upserts
<1>15. s \in Seq(Command)
  BY <1>12, <1>14
<1>16. OneName(s)
  BY <1>13, <1>14 DEF OneName
<1>17. ASSUME NEW k \in 1 .. Len(s), s[k].cmd = "hset"
       PROVE  \E j \in 1 .. k - 1 : s[j].cmd = "update" /\ s[j].node = s[k].node
  <2>1. /\ Len(s) = Len(U) + Len(C) /\ Len(U) \in Nat /\ Len(C) \in Nat
        /\ \A j \in 1 .. Len(U) : s[j] = U[j]
    BY <1>7, <1>10
  <2> HIDE DEF s
  <2>2. k \notin 1 .. Len(U)
    BY <1>8, <1>17, <2>1
  <2>3. PICK j \in 1 .. Len(r.nodes) : r.nodes[j] = s[k].node
    BY <1>3, <1>13, <1>14
  <2>4. j \in 1 .. Len(U) /\ j \in 1 .. k - 1
    BY <1>3, <1>7, <2>1, <2>2
  <2> QED BY <1>8, <2>1, <2>3, <2>4
<1> HIDE DEF s
<1>18. Fits(s, alone[c], rows, hash)
  <2>1. \A k \in 1 .. Len(s) : s[k].cmd \notin {"del", "srem"}
    BY <1>13, <1>14
  <2> QED BY <1>12, <1>17, <2>1 DEF Fits
<1>19. Replaces(c, s)
  BY <1>1, <1>2, <1>12, <1>16, <1>18 DEF Replaces
<1> QED BY <1>15, <1>19 DEF Replacing

\* A folder's place is found, or the folder is passed over.
LEMMA ContextGoesOn ==
  ASSUME TreeTypeOK, Programs, ProgramsFit, NEW c \in Calls, GetFolderContext(c)
  PROVE  Replacing
<1> DEFINE s == prog[c]  d == IF Now(c) \in Live THEN 1 ELSE 3
<1>1. c \in Procs
  BY DEF Procs
<1>2. s \in Seq(Command) /\ Ordered(s) /\ OneName(s) /\ Fits(s, alone[c], rows, hash)
  BY <1>1 DEF TreeTypeOK, Programs, ProgramsFit
<1>3. s # << >> /\ s[1].cmd = "context" /\ Len(s) \in Nat /\ 1 \in 1 .. Len(s)
  BY <1>2 DEF GetFolderContext, Due
<1>4. 2 \in 1 .. Len(s) /\ s[2].cmd = "hset"
  BY <1>2, <1>3 DEF Ordered
<1>5. 3 \in 1 .. Len(s) /\ s[3].cmd = "sadd"
  BY <1>2, <1>4 DEF Ordered
<1>6. 4 \in 1 .. Len(s) => s[4].cmd # "sadd"
  BY <1>2, <1>3, <1>5 DEF Ordered
<1>7. /\ prog' = [prog EXCEPT ![c] = Rest(s, d)]
      /\ UNCHANGED <<rows, hash, index, pending, left, faults, reader, alone, fresh>>
  BY <1>1 DEF GetFolderContext, Advance, Rest, TreeTypeOK
<1>8. d \in 0 .. Len(s) /\ d \in {1, 3}
  BY <1>3, <1>5
<1> HIDE DEF d
<1>9. Rest(s, d) \in Seq(Command) /\ Ordered(Rest(s, d)) /\ OneName(Rest(s, d))
  BY <1>2, <1>8, RestIs, RestOrdered
<1>10. \A j \in 1 .. d : s[j].cmd # "update"
  <2>1. \A j \in 1 .. d : j = 1 \/ j = 2 \/ j = 3
    BY <1>8
  <2> QED BY <1>3, <1>4, <1>5, <2>1
<1>11. ~ (d + 1 <= Len(s) /\ s[d + 1].cmd = "sadd")
  BY <1>3, <1>4, <1>6, <1>8
<1> HIDE DEF s
<1>12. Fits(Rest(s, d), alone[c], rows, hash)
  BY <1>2, <1>8, <1>10, <1>11, RestFits
<1>13. Replaces(c, Rest(s, d))
  BY <1>7, <1>9, <1>12 DEF Replaces, TreeTypeOK
<1> QED BY <1>9, <1>13 DEF Replacing
\* Redis is written to, or fails.
Writing == \E p \in Procs : HSet(p) \/ SAdd(p) \/ Del(p) \/ SRem(p) \/ RedisFails(p)
\* A request for the tree goes on, and nobody but itself is concerned.
Looks(r) ==
  \/ GetTree(r) \/ ListAllMeta(r) \/ ScanFails(r) \/ AnswerTree(r)
  \/ \E kind \in TreeKinds : SMembers(r, kind) \/ scanType(r, kind)
  \/ \E n \in Nodes, kind \in TreeKinds : filterByAllow(r, n, kind)

LEMMA Requested ==
  ASSUME TreeTypeOK, NEW c \in Calls, NEW r \in pending,
         \/ CreateOrganization(c, r) \/ CreateProject(c, r)
         \/ CreateEnvironment(c, r) \/ createFolderBatch(c, r)
         \/ UpdateOrganization(c, r) \/ UpdateProject(c, r)
         \/ UpdateEnvironment(c, r) \/ UpdateFolder(c, r) \/ BatchUpdateFolders(c, r)
         \/ DeleteOrganization(c, r) \/ DeleteProject(c, r)
         \/ DeleteEnvironment(c, r) \/ DeleteFolder(c, r)
  PROVE  Committing \/ Replacing
<1>1. CASE CreateOrganization(c, r) \/ CreateEnvironment(c, r) \/ createFolderBatch(c, r)
  <2>1. r.op = "create" /\ CreateEntities(c, r, r.nodes)
    BY <1>1 DEF CreateOrganization, CreateEnvironment, createFolderBatch, Creates
  <2> QED BY <2>1, CreateCommits
<1>2. CASE CreateProject(c, r)
  <2>1. r.op = "create" /\ CreateEntities(c, r, <<Head(r.nodes)>>)
    BY <1>2 DEF CreateProject, Creates
  <2> QED BY <2>1, CreateCommits
<1>3. CASE \/ UpdateOrganization(c, r) \/ UpdateProject(c, r)
           \/ UpdateEnvironment(c, r) \/ UpdateFolder(c, r)
  <2>1. r.op = "update" /\ UpdateEntity(c, r)
    BY <1>3 DEF UpdateOrganization, UpdateProject, UpdateEnvironment, UpdateFolder, Updates
  <2> QED BY <2>1, UpdateCommits
<1>4. CASE BatchUpdateFolders(c, r)
  BY <1>4, BatchBegins
<1>5. CASE \/ DeleteOrganization(c, r) \/ DeleteProject(c, r)
           \/ DeleteEnvironment(c, r) \/ DeleteFolder(c, r)
  <2>1. PICK S : DeleteCascade(c, r, S) /\ (S = {r.node} \/ S = Below(r.node) \cap Live)
    BY <1>5 DEF DeleteOrganization, DeleteProject, DeleteEnvironment, DeleteFolder
  <2>2. Submit(c, r) /\ r.node \in Live
    BY <2>1 DEF DeleteCascade
  <2>3. S \in SUBSET Nodes
    BY <2>1, <2>2 DEF Live, LiveIn
  <2> QED BY <2>1, <2>3, DeleteCommits
<1> QED BY <1>1, <1>2, <1>3, <1>4, <1>5

LEMMA TreeStepKinds ==
  ASSUME TreeTypeOK, Programs, ProgramsFit, TreeNext
  PROVE  \/ Committing \/ Replacing \/ Writing
         \/ \E r \in Readers : \/ Looks(r) \/ WarmTree(r)
                               \/ \E kind \in TreeKinds : ListAllForTree(r, kind)
<1>1. CASE \E c \in Calls, r \in pending :
             \/ CreateOrganization(c, r) \/ CreateProject(c, r)
             \/ CreateEnvironment(c, r) \/ createFolderBatch(c, r)
             \/ UpdateOrganization(c, r) \/ UpdateProject(c, r)
             \/ UpdateEnvironment(c, r) \/ UpdateFolder(c, r) \/ BatchUpdateFolders(c, r)
             \/ DeleteOrganization(c, r) \/ DeleteProject(c, r)
             \/ DeleteEnvironment(c, r) \/ DeleteFolder(c, r)
  BY <1>1, Requested
<1>2. CASE \E c \in Calls : updateEntity(c) \/ GetFolderContext(c)
  BY <1>2, BatchGoesOn, ContextGoesOn
<1>3. CASE \E p \in Procs : HSet(p) \/ SAdd(p) \/ Del(p) \/ SRem(p) \/ RedisFails(p)
  BY <1>3 DEF Writing
<1>4. CASE \E r \in Readers :
             \/ GetTree(r) \/ ListAllMeta(r) \/ ScanFails(r) \/ WarmTree(r) \/ AnswerTree(r)
             \/ \E kind \in TreeKinds : SMembers(r, kind) \/ scanType(r, kind)
  BY <1>4 DEF Looks
<1>5. CASE \E r \in Readers :
             \/ ListAllOrganizationsForTree(r) \/ ListAllProjectsForTree(r)
             \/ ListAllEnvironmentsForTree(r) \/ ListAllFoldersForTree(r)
  BY <1>5 DEF ListAllOrganizationsForTree, ListAllProjectsForTree,
              ListAllEnvironmentsForTree, ListAllFoldersForTree, TreeKinds
<1>6. CASE \E r \in Readers : \E n \in Nodes :
             \/ filterOrgsByAllow(r, n) \/ filterProjectsByAllow(r, n)
             \/ filterEnvsByAllow(r, n) \/ filterFoldersByAllow(r, n)
  BY <1>6 DEF filterOrgsByAllow, filterProjectsByAllow, filterEnvsByAllow,
              filterFoldersByAllow, TreeKinds, Looks
<1> QED BY <1>1, <1>2, <1>3, <1>4, <1>5, <1>6 DEF TreeNext

-----------------------------------------------------------------------------
(* Types                                                                   *)

LEMMA ListedIn ==
  ASSUME NEW S \in SUBSET Nodes, NEW names, NEW sorted, NEW s \in Listed(S, names, sorted)
  PROVE  s \in Seq(S)
<1>1. Cardinality(S) \in Nat
  BY TreeCacheAssumption, FS_Subset, FS_CardinalityType
<1>2. s \in [1 .. Cardinality(S) -> S]
  BY DEF Listed, SetToSeqs
<1> QED BY <1>1, <1>2

\* The program of a goroutine of the warm-up.
WarmUp(s, names) == Concat([k \in DOMAIN s |-> upsertResource(s[k], names[s[k]])])

LEMMA WarmUps ==
  ASSUME TreeTypeOK, NEW r \in Readers, WarmTree(r)
  PROVE  /\ reader[r].pc = "list" /\ reader[r].read = TreeKinds
         /\ reader' = [reader EXCEPT ![r].pc = "filter"]
         /\ UNCHANGED <<rows, hash, index, pending, left, faults, alone, fresh>>
         /\ \E order : /\ \A kind \in TreeKinds : order[kind] \in Seq(reader[r].found \cap OfKind(kind))
                       /\ prog' = [p \in Procs |-> IF p \in Warmers /\ p[1] = r
                                     THEN WarmUp(order[p[2]], reader[r].names) ELSE prog[p]]
<1> DEFINE listed(k) == Listed(reader[r].found \cap OfKind(k), reader[r].names, TRUE)
<1>1. PICK orgs \in listed("org"), projects \in listed("project"), envs \in listed("env"),
           folders \in listed("folder") :
        LET order == [org |-> orgs, project |-> projects, env |-> envs, folder |-> folders]
        IN  prog' = [p \in Procs |->
              IF p \in Warmers /\ p[1] = r
                THEN Concat([k \in DOMAIN order[p[2]] |->
                       upsertResource(order[p[2]][k], reader[r].names[order[p[2]][k]])])
                ELSE prog[p]]
  BY DEF WarmTree
<1> DEFINE order == [org |-> orgs, project |-> projects, env |-> envs, folder |-> folders]
<1>2. prog' = [p \in Procs |-> IF p \in Warmers /\ p[1] = r
                 THEN WarmUp(order[p[2]], reader[r].names) ELSE prog[p]]
  BY <1>1 DEF WarmUp
<1>3. /\ order["org"] = orgs /\ order["project"] = projects
      /\ order["env"] = envs /\ order["folder"] = folders
  OBVIOUS
<1> HIDE DEF order
<1>4. \A kind \in TreeKinds : reader[r].found \cap OfKind(kind) \in SUBSET Nodes
  BY DEF OfKind
<1>5. \A kind \in TreeKinds :
        \A s \in listed(kind) : s \in Seq(reader[r].found \cap OfKind(kind))
  BY <1>4, ListedIn
<1> HIDE DEF listed
<1>6. \A kind \in TreeKinds : order[kind] \in Seq(reader[r].found \cap OfKind(kind))
  BY <1>3, <1>5 DEF TreeKinds
<1> QED BY <1>2, <1>6 DEF WarmTree
LEMMA TreeTypeInit == TreeInit => TreeTypeOK
<1> SUFFICES ASSUME TreeInit
             PROVE  TreeTypeOK
  OBVIOUS
<1>1. PICK s \in Scenarios :
        /\ rows = Initial
        /\ index = IF s.filled THEN Live ELSE {}
        /\ hash = [n \in Nodes |-> IF n \in index THEN rows[n].name ELSE NoName]
        /\ pending = s.requests /\ left = s.count /\ faults = s.faults
        /\ prog = [p \in Procs |-> << >>]
        /\ reader = [r \in Readers |-> NewReader(s)]
        /\ alone = [p \in Procs |-> {}]
        /\ fresh = IF s.filled THEN Nodes ELSE {}
  BY DEF TreeInit
<1>2. /\ rows \in [Nodes -> Row] /\ pending \subseteq Request /\ left \in Nat /\ faults \in Nat
      /\ s.ask \in TreeRequest /\ fresh \subseteq Nodes
  BY <1>1, TreeCacheAssumption
<1>3. index \subseteq Nodes
  BY <1>1 DEF Live, LiveIn
<1>4. hash \in [Nodes -> Names \cup {NoName}]
  BY <1>1, <1>2 DEF Row
<1>5. NewReader(s) \in ReaderState
  BY <1>2 DEF NewReader, ReaderState, NoNames
<1>6. << >> \in Seq(Command)
  OBVIOUS
<1> QED BY <1>1, <1>2, <1>3, <1>4, <1>5, <1>6 DEF TreeTypeOK

LEMMA ReaderFields ==
  ASSUME TreeTypeOK, NEW r \in Readers
  PROVE  /\ reader[r] \in ReaderState
         /\ reader[r].ask \in TreeRequest /\ reader[r].ask.user \in DOMAIN Held
         /\ Held[reader[r].ask.user] \in SUBSET Permission
         /\ reader[r].found \subseteq Nodes /\ reader[r].visible \subseteq Nodes
         /\ reader[r].answer \subseteq Nodes /\ reader[r].gone \subseteq Nodes
         /\ reader[r].steady \subseteq Nodes /\ reader[r].read \subseteq TreeKinds
         /\ reader[r].names \in [Nodes -> Names \cup {NoName}]
<1>1. reader[r] \in ReaderState
  BY DEF TreeTypeOK
<1>2. reader[r].ask \in TreeRequest
  BY <1>1 DEF ReaderState
<1>3. reader[r].ask.user \in DOMAIN Held
  BY <1>2 DEF TreeRequest
<1>4. Held[reader[r].ask.user] \in SUBSET Permission
  BY <1>3, TreeCacheAssumption
<1> QED BY <1>1, <1>2, <1>3, <1>4 DEF ReaderState

LEMMA CommitTyped ==
  ASSUME TreeTypeOK, Committing
  PROVE  TreeTypeOK'
<1>1. PICK p \in Calls, table \in [Nodes -> Row], S \in SUBSET Nodes, s \in Seq(Command) :
        Commits(p, table, S, s)
  BY DEF Committing
<1>2. /\ rows' = table /\ fresh' = fresh \ S /\ UNCHANGED <<hash, index, faults>>
      /\ alone' = [q \in Procs |-> IF q = p THEN alone[q] \cup S ELSE alone[q] \ S]
      /\ reader' = [r \in Readers |->
           [reader[r] EXCEPT !.steady = @ \cap ReadableBy(table, reader[r].ask.user)]]
      /\ prog' = [prog EXCEPT ![p] = s] /\ pending' \subseteq pending /\ left' \in Nat
  BY <1>1 DEF Commits, Commit
<1>3. \A r \in Readers :
        [reader[r] EXCEPT !.steady = @ \cap ReadableBy(table, reader[r].ask.user)] \in ReaderState
  <2>1. \A rd \in ReaderState, X \in SUBSET Nodes :
          rd.steady \in SUBSET Nodes /\ [rd EXCEPT !.steady = X] \in ReaderState
    BY DEF ReaderState
  <2> QED BY <2>1 DEF TreeTypeOK
<1>4. reader' \in [Readers -> ReaderState]
  BY <1>2, <1>3
<1>5. alone' \in [Procs -> SUBSET Nodes] /\ prog' \in [Procs -> Seq(Command)]
  BY <1>2 DEF TreeTypeOK
<1> QED BY <1>2, <1>4, <1>5 DEF TreeTypeOK

LEMMA ReplaceTyped ==
  ASSUME TreeTypeOK, Replacing
  PROVE  TreeTypeOK'
BY DEF TreeTypeOK, Replacing, Replaces

\* What a command does to Redis, to the programs and to the histories.
LEMMA Writes ==
  ASSUME TreeTypeOK, NEW p \in Procs, HSet(p) \/ SAdd(p) \/ Del(p) \/ SRem(p)
  PROVE  /\ prog[p] \in Seq(Command) /\ prog[p] # << >>
         /\ prog[p][1] \in Command /\ Now(p) = prog[p][1].node /\ Now(p) \in Nodes
         /\ prog' = [prog EXCEPT ![p] = Rest(prog[p], 1)]
         /\ UNCHANGED <<rows, pending, left, faults, reader>>
         /\ HSet(p) => prog[p][1].cmd = "hset"
         /\ Del(p) => prog[p][1].cmd = "del"
         /\ SAdd(p) => prog[p][1].cmd = "sadd"
         /\ SRem(p) => prog[p][1].cmd = "srem"
         /\ HSet(p) => hash' = [hash EXCEPT ![Now(p)] = prog[p][1].name]
         /\ Del(p) => hash' = [hash EXCEPT ![Now(p)] = NoName]
         /\ HSet(p) \/ Del(p) =>
              index' = index /\ fresh' = fresh \ {Now(p)}
              /\ alone' = [q \in Procs |-> IF q = p THEN alone[q] ELSE alone[q] \ {Now(p)}]
         /\ SAdd(p) => index' = index \cup {Now(p)}
         /\ SRem(p) => index' = index \ {Now(p)}
         /\ SAdd(p) \/ SRem(p) =>
              hash' = hash /\ fresh' = (fresh \ {Now(p)}) \cup ({Now(p)} \cap alone[p])
              /\ alone' = [q \in Procs |-> alone[q] \ {Now(p)}]
<1>1. prog[p] \in Seq(Command)
  BY DEF TreeTypeOK
<1>2. prog[p] # << >> /\ Head(prog[p]) = prog[p][1]
  BY <1>1 DEF HSet, SAdd, Del, SRem, Due
<1>3. prog[p][1] \in Command
  BY <1>1, <1>2
<1>4. Now(p) = prog[p][1].node /\ Now(p) \in Nodes
  BY <1>2, <1>3 DEF Now, Command
<1>5. prog' = [prog EXCEPT ![p] = Rest(prog[p], 1)]
  BY DEF HSet, SAdd, Del, SRem, Advance, Rest, TreeTypeOK
<1> QED BY <1>1, <1>2, <1>3, <1>4, <1>5 DEF HSet, SAdd, Del, SRem, Due, Touch, Settle, Indexed

\* A failure.
LEMMA Fails ==
  ASSUME TreeTypeOK, NEW p \in Procs, Ordered(prog[p]), RedisFails(p)
  PROVE  /\ prog[p] \in Seq(Command) /\ prog[p] # << >>
         /\ prog[p][1] \in Command /\ Now(p) = prog[p][1].node
         /\ UNCHANGED <<rows, hash, index, pending, left, reader, fresh>> /\ faults' \in Nat
         /\ \E d \in 1 .. Len(prog[p]) :
              /\ prog' = [prog EXCEPT ![p] = Rest(prog[p], d)]
              /\ \A j \in 1 .. d : prog[p][j].cmd # "update" \/ d = Len(prog[p])
              /\ ~ (d + 1 <= Len(prog[p]) /\ prog[p][d + 1].cmd = "sadd")
         /\ \E A \in SUBSET alone[p] : alone' = [alone EXCEPT ![p] = A]
<1> DEFINE s == prog[p]
           d == IF p \in Warmers THEN Len(prog[p])
                ELSE IF Due(p, "hset") \/ Due(p, "del") THEN 2 ELSE 1
<1>1. s \in Seq(Command) /\ s # << >> /\ Head(s) = s[1] /\ Len(s) \in Nat /\ 1 \in 1 .. Len(s)
  BY DEF TreeTypeOK, RedisFails, Due
<1>2. s[1] \in Command /\ Now(p) = s[1].node
  BY <1>1 DEF Now
<1>3. s[1].cmd \in {"hset", "sadd", "del", "srem"}
  BY <1>1 DEF RedisFails, Due
<1>4. /\ UNCHANGED <<rows, hash, index, pending, left, reader, fresh>> /\ faults' \in Nat
      /\ prog' = [prog EXCEPT ![p] = Rest(prog[p], d)]
  BY DEF RedisFails, Advance, Rest, TreeTypeOK
<1>5. \E A \in SUBSET alone[p] : alone' = [alone EXCEPT ![p] = A]
  <2>1. \A A \in {{}, alone[p] \ {Now(p)}} : A \in SUBSET alone[p]
    OBVIOUS
  <2>2. alone' = [alone EXCEPT ![p] = IF p \in Warmers THEN {} ELSE alone[p] \ {Now(p)}]
    BY DEF RedisFails, TreeTypeOK
  <2> QED BY <2>1, <2>2
<1>6. CASE p \in Warmers
  <2>1. d = Len(s)
    BY <1>6
  <2> HIDE DEF d, s
  <2>2. d \in 1 .. Len(s) /\ ~ (d + 1 <= Len(s))
    BY <1>1, <2>1
  <2> QED BY <1>1, <1>2, <1>4, <1>5, <2>1, <2>2 DEF s
<1>7. CASE p \notin Warmers /\ s[1].cmd \in {"hset", "del"}
  <2>1. d = 2
    BY <1>1, <1>7 DEF Due
  <2>2. 2 \in 1 .. Len(s) /\ s[2].cmd \in {"sadd", "srem"}
    BY <1>1, <1>7 DEF Ordered
  <2>3. 3 \in 1 .. Len(s) => s[3].cmd # "sadd"
    BY <1>1, <2>2 DEF Ordered
  <2>4. \A j \in 1 .. 2 : s[j].cmd # "update"
    <3>1. \A j \in 1 .. 2 : j = 1 \/ j = 2
      OBVIOUS
    <3> QED BY <1>7, <2>2, <3>1
  <2>5. ~ (2 + 1 <= Len(s) /\ s[2 + 1].cmd = "sadd")
    BY <1>1, <2>3
  <2> HIDE DEF d
  <2> QED BY <1>1, <1>2, <1>4, <1>5, <2>1, <2>2, <2>4, <2>5
<1>8. CASE p \notin Warmers /\ s[1].cmd \in {"sadd", "srem"}
  <2>1. d = 1
    BY <1>1, <1>8 DEF Due
  <2>2. 2 \in 1 .. Len(s) => s[2].cmd # "sadd"
    BY <1>1, <1>8 DEF Ordered
  <2>3. \A j \in 1 .. 1 : s[j].cmd # "update"
    <3>1. \A j \in 1 .. 1 : j = 1
      OBVIOUS
    <3> QED BY <1>8, <3>1
  <2>4. ~ (1 + 1 <= Len(s) /\ s[1 + 1].cmd = "sadd")
    BY <1>1, <2>2
  <2> HIDE DEF d
  <2> QED BY <1>1, <1>2, <1>4, <1>5, <2>1, <2>3, <2>4
<1> QED BY <1>3, <1>6, <1>7, <1>8
LEMMA WriteTyped ==
  ASSUME TreeTypeOK, Programs, Writing
  PROVE  TreeTypeOK'
<1>1. PICK p \in Procs : HSet(p) \/ SAdd(p) \/ Del(p) \/ SRem(p) \/ RedisFails(p)
  BY DEF Writing
<1>2. CASE HSet(p) \/ SAdd(p) \/ Del(p) \/ SRem(p)
  <2>1. /\ prog[p] \in Seq(Command) /\ prog[p] # << >>
        /\ prog[p][1] \in Command /\ Now(p) \in Nodes
        /\ prog' = [prog EXCEPT ![p] = Rest(prog[p], 1)]
        /\ UNCHANGED <<rows, pending, left, faults, reader>>
    BY <1>2, Writes
  <2>2. 1 \in 0 .. Len(prog[p])
    BY <2>1
  <2>3. prog' \in [Procs -> Seq(Command)]
    BY <2>1, <2>2, RestIs DEF TreeTypeOK
  <2>4. prog[p][1].name \in Names \cup {NoName} /\ NoName \in Names \cup {NoName}
    BY <2>1 DEF Command
  <2>5. CASE HSet(p) \/ Del(p)
    <3>1. /\ index' = index /\ fresh' = fresh \ {Now(p)}
          /\ alone' = [q \in Procs |-> IF q = p THEN alone[q] ELSE alone[q] \ {Now(p)}]
      BY <2>5, Writes
    <3>2. hash' \in [Nodes -> Names \cup {NoName}]
      <4>1. \/ hash' = [hash EXCEPT ![Now(p)] = prog[p][1].name]
            \/ hash' = [hash EXCEPT ![Now(p)] = NoName]
        BY <2>5, Writes
      <4> QED BY <2>4, <4>1 DEF TreeTypeOK
    <3>3. alone' \in [Procs -> SUBSET Nodes]
      BY <3>1 DEF TreeTypeOK
    <3> QED BY <2>1, <2>3, <3>1, <3>2, <3>3 DEF TreeTypeOK
  <2>6. CASE SAdd(p) \/ SRem(p)
    <3>1. /\ hash' = hash /\ fresh' = (fresh \ {Now(p)}) \cup ({Now(p)} \cap alone[p])
          /\ alone' = [q \in Procs |-> alone[q] \ {Now(p)}]
          /\ index' = index \cup {Now(p)} \/ index' = index \ {Now(p)}
      BY <2>6, Writes
    <3>2. alone' \in [Procs -> SUBSET Nodes]
      BY <3>1 DEF TreeTypeOK
    <3> QED BY <2>1, <2>3, <3>1, <3>2 DEF TreeTypeOK
  <2> QED BY <1>2, <2>5, <2>6
<1>3. CASE RedisFails(p)
  <2>1. Ordered(prog[p])
    BY DEF Programs
  <2>2. /\ prog[p] \in Seq(Command) /\ faults' \in Nat
        /\ UNCHANGED <<rows, hash, index, pending, left, reader, fresh>>
    BY <1>3, <2>1, Fails
  <2>3. PICK d \in 1 .. Len(prog[p]) : prog' = [prog EXCEPT ![p] = Rest(prog[p], d)]
    BY <1>3, <2>1, Fails
  <2>4. PICK A \in SUBSET alone[p] : alone' = [alone EXCEPT ![p] = A]
    BY <1>3, <2>1, Fails
  <2>5. d \in 0 .. Len(prog[p])
    BY <2>2
  <2>6. Rest(prog[p], d) \in Seq(Command)
    BY <2>2, <2>5, RestIs
  <2> QED BY <2>2, <2>3, <2>4, <2>6 DEF TreeTypeOK
<1> QED BY <1>1, <1>2, <1>3

\* A request for the tree has new fields, and the others have not.
Turns(r, rd) ==
  /\ reader' = [reader EXCEPT ![r] = rd]
  /\ UNCHANGED <<rows, hash, index, pending, left, prog, fresh>> /\ faults' \in Nat

LEMMA TurnTyped ==
  ASSUME TreeTypeOK, NEW r \in Readers, NEW rd \in ReaderState, Turns(r, rd),
         alone' \in [Procs -> SUBSET Nodes]
  PROVE  TreeTypeOK' /\ \A q \in Readers : reader'[q] = IF q = r THEN rd ELSE reader[q]
BY DEF TreeTypeOK, Turns

\* y is x but for its field f.
Others(x, y, f) ==
  /\ f # "pc" => y.pc = x.pc
  /\ f # "asked" => y.asked = x.asked
  /\ f # "read" => y.read = x.read
  /\ f # "names" => y.names = x.names
  /\ f # "found" => y.found = x.found
  /\ f # "source" => y.source = x.source
  /\ f # "visible" => y.visible = x.visible
  /\ f # "answer" => y.answer = x.answer
  /\ f # "gone" => y.gone = x.gone
  /\ f # "steady" => y.steady = x.steady
  /\ y.ask = x.ask

LEMMA Setting ==
  ASSUME NEW x \in ReaderState
  PROVE  /\ \A v \in {"new", "scan", "list", "filter", "done"} :
              LET y == [x EXCEPT !.pc = v]
              IN  y \in ReaderState /\ y.pc = v /\ Others(x, y, "pc")
         /\ \A v \in SUBSET TreeKinds :
              LET y == [x EXCEPT !.asked = v]
              IN  y \in ReaderState /\ y.asked = v /\ Others(x, y, "asked")
         /\ \A v \in SUBSET TreeKinds :
              LET y == [x EXCEPT !.read = v]
              IN  y \in ReaderState /\ y.read = v /\ Others(x, y, "read")
         /\ \A v \in [Nodes -> Names \cup {NoName}] :
              LET y == [x EXCEPT !.names = v]
              IN  y \in ReaderState /\ y.names = v /\ Others(x, y, "names")
         /\ \A v \in SUBSET Nodes :
              LET y == [x EXCEPT !.found = v]
              IN  y \in ReaderState /\ y.found = v /\ Others(x, y, "found")
         /\ \A v \in {"cache", "database"} :
              LET y == [x EXCEPT !.source = v]
              IN  y \in ReaderState /\ y.source = v /\ Others(x, y, "source")
         /\ \A v \in SUBSET Nodes :
              LET y == [x EXCEPT !.visible = v]
              IN  y \in ReaderState /\ y.visible = v /\ Others(x, y, "visible")
         /\ \A v \in SUBSET Nodes :
              LET y == [x EXCEPT !.answer = v]
              IN  y \in ReaderState /\ y.answer = v /\ Others(x, y, "answer")
         /\ \A v \in SUBSET Nodes :
              LET y == [x EXCEPT !.gone = v]
              IN  y \in ReaderState /\ y.gone = v /\ Others(x, y, "gone")
         /\ \A v \in SUBSET Nodes :
              LET y == [x EXCEPT !.steady = v]
              IN  y \in ReaderState /\ y.steady = v /\ Others(x, y, "steady")
<1>1. \A v \in {"new", "scan", "list", "filter", "done"} :
        LET y == [x EXCEPT !.pc = v]
        IN  y \in ReaderState /\ y.pc = v /\ Others(x, y, "pc")
  BY DEF ReaderState, Others
<1>2. \A v \in SUBSET TreeKinds :
        LET y == [x EXCEPT !.asked = v]
        IN  y \in ReaderState /\ y.asked = v /\ Others(x, y, "asked")
  BY DEF ReaderState, Others
<1>3. \A v \in SUBSET TreeKinds :
        LET y == [x EXCEPT !.read = v]
        IN  y \in ReaderState /\ y.read = v /\ Others(x, y, "read")
  BY DEF ReaderState, Others
<1>4. \A v \in [Nodes -> Names \cup {NoName}] :
        LET y == [x EXCEPT !.names = v]
        IN  y \in ReaderState /\ y.names = v /\ Others(x, y, "names")
  BY DEF ReaderState, Others
<1>5. \A v \in SUBSET Nodes :
        LET y == [x EXCEPT !.found = v]
        IN  y \in ReaderState /\ y.found = v /\ Others(x, y, "found")
  BY DEF ReaderState, Others
<1>6. \A v \in {"cache", "database"} :
        LET y == [x EXCEPT !.source = v]
        IN  y \in ReaderState /\ y.source = v /\ Others(x, y, "source")
  BY DEF ReaderState, Others
<1>7. \A v \in SUBSET Nodes :
        LET y == [x EXCEPT !.visible = v]
        IN  y \in ReaderState /\ y.visible = v /\ Others(x, y, "visible")
  BY DEF ReaderState, Others
<1>8. \A v \in SUBSET Nodes :
        LET y == [x EXCEPT !.answer = v]
        IN  y \in ReaderState /\ y.answer = v /\ Others(x, y, "answer")
  BY DEF ReaderState, Others
<1>9. \A v \in SUBSET Nodes :
        LET y == [x EXCEPT !.gone = v]
        IN  y \in ReaderState /\ y.gone = v /\ Others(x, y, "gone")
  BY DEF ReaderState, Others
<1>10. \A v \in SUBSET Nodes :
         LET y == [x EXCEPT !.steady = v]
         IN  y \in ReaderState /\ y.steady = v /\ Others(x, y, "steady")
  BY DEF ReaderState, Others
<1> QED BY <1>1, <1>2, <1>3, <1>4, <1>5, <1>6, <1>7, <1>8, <1>9, <1>10

LEMMA SettingSteady ==
  ASSUME NEW x \in ReaderState, NEW v \in SUBSET Nodes
  PROVE  LET y == [x EXCEPT !.steady = v]
         IN  y.steady = v /\ Others(x, y, "steady")
BY DEF ReaderState, Others

LEMMA GetTreeTurns ==
  ASSUME TreeTypeOK, NEW r \in Readers, GetTree(r)
  PROVE  /\ reader[r].pc = "new" /\ alone' = alone
         /\ \E rd \in ReaderState :
              /\ Turns(r, rd) /\ rd.pc = "scan"
              /\ rd.gone = {n \in Nodes : rows[n].state = "deleted"}
              /\ rd.steady = ReadableBy(rows, rd.ask.user)
              /\ rd.ask = reader[r].ask /\ rd.source = reader[r].source
              /\ rd.visible = reader[r].visible /\ rd.answer = reader[r].answer
<1> DEFINE gone == {n \in Nodes : rows[n].state = "deleted"}
           steady == ReadableBy(rows, reader[r].ask.user)
           a == [reader[r] EXCEPT !.pc = "scan"]
           b == [a EXCEPT !.gone = gone]
           rd == [b EXCEPT !.steady = steady]
<1>1. gone \in SUBSET Nodes /\ steady \in SUBSET Nodes /\ reader[r] \in ReaderState
  BY DEF ReadableBy, TreeTypeOK
<1>2. Turns(r, rd) /\ reader[r].pc = "new" /\ alone' = alone
  BY DEF GetTree, Turns, TreeTypeOK
<1> HIDE DEF gone, steady
<1>3. a \in ReaderState /\ a.pc = "scan" /\ Others(reader[r], a, "pc")
  BY <1>1, Setting
<1> HIDE DEF a
<1>4. b \in ReaderState /\ b.gone = gone /\ Others(a, b, "gone")
  BY <1>1, <1>3, Setting
<1> HIDE DEF b
<1>5. rd \in ReaderState /\ rd.steady = steady /\ Others(b, rd, "steady")
  BY <1>1, <1>4, Setting
<1> HIDE DEF rd
<1>6. /\ rd.pc = "scan" /\ rd.gone = gone /\ rd.ask = reader[r].ask
      /\ rd.source = reader[r].source /\ rd.visible = reader[r].visible
      /\ rd.answer = reader[r].answer
  BY <1>3, <1>4, <1>5 DEF Others
<1> QED BY <1>2, <1>5, <1>6 DEF steady, gone
\* What the search in Redis does not touch.
Kept(x, y) ==
  /\ y.ask = x.ask /\ y.source = x.source /\ y.visible = x.visible
  /\ y.answer = x.answer /\ y.gone = x.gone /\ y.steady = x.steady

LEMMA ScanTurns ==
  ASSUME TreeTypeOK, NEW r \in Readers,
         \/ ListAllMeta(r) \/ ScanFails(r)
         \/ \E kind \in TreeKinds : SMembers(r, kind) \/ scanType(r, kind)
  PROVE  /\ reader[r].pc = "scan" /\ alone' = alone
         /\ \E rd \in ReaderState :
              /\ Turns(r, rd) /\ rd.pc \in {"scan", "list", "filter"}
              /\ rd.pc = "list" => rd.read = {}
              /\ Kept(reader[r], rd)
<1>1. /\ reader[r] \in ReaderState /\ reader[r].found \in SUBSET Nodes
      /\ reader[r].asked \in SUBSET TreeKinds /\ reader[r].read \in SUBSET TreeKinds
      /\ reader[r].names \in [Nodes -> Names \cup {NoName}]
      /\ hash \in [Nodes -> Names \cup {NoName}] /\ index \in SUBSET Nodes
  BY DEF TreeTypeOK, ReaderState
<1>2. CASE \E kind \in TreeKinds : SMembers(r, kind)
  <2>1. PICK kind \in TreeKinds : SMembers(r, kind)
    BY <1>2
  <2> DEFINE asked == reader[r].asked \cup {kind}
             found == reader[r].found \cup (index \cap OfKind(kind))
             a == [reader[r] EXCEPT !.asked = asked]
             rd == [a EXCEPT !.found = found]
  <2>2. asked \in SUBSET TreeKinds /\ found \in SUBSET Nodes
    BY <1>1
  <2>3. Turns(r, rd) /\ reader[r].pc = "scan" /\ alone' = alone
    <3>1. reader' = [reader EXCEPT ![r] = rd]
      BY <2>1 DEF SMembers
    <3> HIDE DEF rd
    <3> QED BY <2>1, <3>1 DEF SMembers, Turns, TreeTypeOK
  <2> HIDE DEF asked, found
  <2>4. a \in ReaderState /\ Others(reader[r], a, "asked")
    BY <1>1, <2>2, Setting
  <2> HIDE DEF a
  <2>5. rd \in ReaderState /\ Others(a, rd, "found")
    BY <2>2, <2>4, Setting
  <2> HIDE DEF rd
  <2>6. rd.pc = "scan" /\ Kept(reader[r], rd)
    BY <2>3, <2>4, <2>5 DEF Others, Kept
  <2> QED BY <2>3, <2>5, <2>6
<1>3. CASE \E kind \in TreeKinds : scanType(r, kind)
  <2>1. PICK kind \in TreeKinds : scanType(r, kind)
    BY <1>3
  <2> DEFINE S == {n \in reader[r].found \cap OfKind(kind) : hash[n] # NoName}
             read == reader[r].read \cup {kind}
             found == (reader[r].found \ OfKind(kind)) \cup S
             names == [n \in Nodes |-> IF n \in S THEN hash[n] ELSE reader[r].names[n]]
             a == [reader[r] EXCEPT !.read = read]
             b == [a EXCEPT !.found = found]
             rd == [b EXCEPT !.names = names]
  <2>2. /\ read \in SUBSET TreeKinds /\ found \in SUBSET Nodes
        /\ names \in [Nodes -> Names \cup {NoName}]
    BY <1>1
  <2>3. Turns(r, rd) /\ reader[r].pc = "scan" /\ alone' = alone
    <3>1. reader' = [reader EXCEPT ![r] = rd]
      BY <2>1 DEF scanType
    <3> HIDE DEF rd
    <3> QED BY <2>1, <3>1 DEF scanType, Turns, TreeTypeOK
  <2> HIDE DEF read, found, names
  <2>4. a \in ReaderState /\ Others(reader[r], a, "read")
    BY <1>1, <2>2, Setting
  <2> HIDE DEF a
  <2>5. b \in ReaderState /\ Others(a, b, "found")
    BY <2>2, <2>4, Setting
  <2> HIDE DEF b
  <2>6. rd \in ReaderState /\ Others(b, rd, "names")
    BY <2>2, <2>5, Setting
  <2> HIDE DEF rd
  <2>7. rd.pc = "scan" /\ Kept(reader[r], rd)
    BY <2>3, <2>4, <2>5, <2>6 DEF Others, Kept
  <2> QED BY <2>3, <2>6, <2>7
<1>4. CASE ListAllMeta(r)
  <2> DEFINE pc == IF Empty(r) THEN "list" ELSE "filter"
             a == [reader[r] EXCEPT !.pc = pc]
             b == [a EXCEPT !.asked = {}]
             rd == [b EXCEPT !.read = {}]
  <2>1. Turns(r, rd) /\ reader[r].pc = "scan" /\ alone' = alone
    <3>1. reader' = [reader EXCEPT ![r] = rd]
      BY <1>4 DEF ListAllMeta
    <3> HIDE DEF rd
    <3> QED BY <1>4, <3>1 DEF ListAllMeta, Turns, TreeTypeOK
  <2>2. /\ pc \in {"list", "filter"} /\ pc \in {"new", "scan", "list", "filter", "done"}
        /\ {} \in SUBSET TreeKinds
    OBVIOUS
  <2> HIDE DEF pc
  <2>3. a \in ReaderState /\ a.pc = pc /\ Others(reader[r], a, "pc")
    <3>1. \A v \in {"new", "scan", "list", "filter", "done"} :
            LET y == [reader[r] EXCEPT !.pc = v]
            IN  y \in ReaderState /\ y.pc = v /\ Others(reader[r], y, "pc")
      BY <1>1, Setting
    <3> QED BY <2>2, <3>1
  <2> HIDE DEF a
  <2>4. b \in ReaderState /\ Others(a, b, "asked")
    BY <2>2, <2>3, Setting
  <2> HIDE DEF b
  <2>5. rd \in ReaderState /\ rd.read = {} /\ Others(b, rd, "read")
    BY <2>2, <2>4, Setting
  <2> HIDE DEF rd
  <2>6. rd.pc = pc /\ Kept(reader[r], rd)
    BY <2>3, <2>4, <2>5 DEF Others, Kept
  <2> QED BY <2>1, <2>2, <2>5, <2>6
<1>5. CASE ScanFails(r)
  <2> DEFINE a == [reader[r] EXCEPT !.pc = "list"]
             b == [a EXCEPT !.found = {}]
             c == [b EXCEPT !.asked = {}]
             d == [c EXCEPT !.read = {}]
             rd == [d EXCEPT !.names = NoNames]
  <2>1. Turns(r, rd) /\ reader[r].pc = "scan" /\ alone' = alone
    <3>1. reader' = [reader EXCEPT ![r] = rd]
      BY <1>5 DEF ScanFails
    <3>2. faults' \in Nat
      BY <1>5 DEF ScanFails, TreeTypeOK
    <3> HIDE DEF rd
    <3> QED BY <1>5, <3>1, <3>2 DEF ScanFails, Turns
  <2>2. /\ {} \in SUBSET Nodes /\ {} \in SUBSET TreeKinds
        /\ NoNames \in [Nodes -> Names \cup {NoName}]
    BY DEF NoNames
  <2>3. a \in ReaderState /\ a.pc = "list" /\ Others(reader[r], a, "pc")
    BY <1>1, Setting
  <2> HIDE DEF a
  <2>4. b \in ReaderState /\ Others(a, b, "found")
    BY <2>2, <2>3, Setting
  <2> HIDE DEF b
  <2>5. c \in ReaderState /\ Others(b, c, "asked")
    BY <2>2, <2>4, Setting
  <2> HIDE DEF c
  <2>6. d \in ReaderState /\ d.read = {} /\ Others(c, d, "read")
    BY <2>2, <2>5, Setting
  <2> HIDE DEF d
  <2>7. rd \in ReaderState /\ Others(d, rd, "names")
    BY <2>2, <2>6, Setting
  <2> HIDE DEF rd
  <2>8. rd.pc = "list" /\ rd.read = {} /\ Kept(reader[r], rd)
    BY <2>3, <2>4, <2>5, <2>6, <2>7 DEF Others, Kept
  <2> QED BY <2>1, <2>7, <2>8
<1> QED BY <1>2, <1>3, <1>4, <1>5

LEMMA ListTurns ==
  ASSUME TreeTypeOK, NEW r \in Readers, NEW kind \in TreeKinds, ListAllForTree(r, kind)
  PROVE  LET S == {n \in OfKind(kind) : Lists(Live, Held[reader[r].ask.user], n)}
         IN  /\ reader[r].pc = "list" /\ S \in SUBSET Nodes
             /\ alone' = [alone EXCEPT ![<<r, kind>>] = S]
             /\ \E rd \in ReaderState :
                  /\ Turns(r, rd) /\ rd.pc = "list"
                  /\ rd.read = reader[r].read \cup {kind}
                  /\ rd.found = reader[r].found \cup S
                  /\ \A n \in Nodes :
                       rd.names[n] = IF n \in S THEN rows[n].name ELSE reader[r].names[n]
                  /\ rd.ask = reader[r].ask /\ rd.visible = reader[r].visible
                  /\ rd.answer = reader[r].answer /\ rd.gone = reader[r].gone
                  /\ rd.steady = reader[r].steady
<1> DEFINE S == {n \in OfKind(kind) : Lists(Live, Held[reader[r].ask.user], n)}
           read == reader[r].read \cup {kind}
           found == reader[r].found \cup S
           names == [n \in Nodes |-> IF n \in S THEN rows[n].name ELSE reader[r].names[n]]
           a == [reader[r] EXCEPT !.source = "database"]
           b == [a EXCEPT !.read = read]
           c == [b EXCEPT !.found = found]
           rd == [c EXCEPT !.names = names]
<1>1. /\ reader[r] \in ReaderState /\ reader[r].found \in SUBSET Nodes
      /\ reader[r].read \in SUBSET TreeKinds
      /\ reader[r].names \in [Nodes -> Names \cup {NoName}]
      /\ \A n \in Nodes : rows[n].name \in Names \cup {NoName}
  BY DEF TreeTypeOK, ReaderState, Row
<1>2. S \in SUBSET Nodes
  BY DEF OfKind
<1>3. /\ reader' = [reader EXCEPT ![r] = rd] /\ alone' = [alone EXCEPT ![<<r, kind>>] = S]
      /\ UNCHANGED <<rows, hash, index, pending, left, faults, prog, fresh>>
      /\ reader[r].pc = "list"
  BY DEF ListAllForTree
<1> HIDE DEF S
<1>4. read \in SUBSET TreeKinds /\ found \in SUBSET Nodes
  BY <1>1, <1>2
<1>5. /\ names \in [Nodes -> Names \cup {NoName}]
      /\ \A n \in Nodes : names[n] = IF n \in S THEN rows[n].name ELSE reader[r].names[n]
  BY <1>1
<1> HIDE DEF read, found, names
<1>6. a \in ReaderState /\ Others(reader[r], a, "source")
  BY <1>1, Setting
<1> HIDE DEF a
<1>7. b \in ReaderState /\ b.read = read /\ Others(a, b, "read")
  BY <1>4, <1>6, Setting
<1> HIDE DEF b
<1>8. c \in ReaderState /\ c.found = found /\ Others(b, c, "found")
  BY <1>4, <1>7, Setting
<1> HIDE DEF c
<1>9. rd \in ReaderState /\ rd.names = names /\ Others(c, rd, "names")
  BY <1>5, <1>8, Setting
<1> HIDE DEF rd
<1>10. Turns(r, rd)
  BY <1>3 DEF Turns, TreeTypeOK
<1>11. /\ rd.pc = "list" /\ rd.read = read /\ rd.found = found
       /\ rd.ask = reader[r].ask /\ rd.visible = reader[r].visible
       /\ rd.answer = reader[r].answer /\ rd.gone = reader[r].gone
       /\ rd.steady = reader[r].steady
  BY <1>3, <1>6, <1>7, <1>8, <1>9 DEF Others
<1> QED BY <1>2, <1>3, <1>5, <1>9, <1>10, <1>11 DEF S, read, found

LEMMA FilterTurns ==
  ASSUME TreeTypeOK, NEW r \in Readers, NEW n \in Nodes, NEW kind \in TreeKinds,
         filterByAllow(r, n, kind)
  PROVE  /\ reader[r].pc = "filter" /\ alone' = alone
         /\ \E rd \in ReaderState :
              /\ Turns(r, rd) /\ rd.pc = "filter"
              /\ rd.found = reader[r].found \ {n}
              /\ rd.visible = reader[r].visible \cup (IF AllowNode(r, n) THEN {n} ELSE {})
              /\ rd.ask = reader[r].ask /\ rd.source = reader[r].source
              /\ rd.answer = reader[r].answer /\ rd.gone = reader[r].gone
              /\ rd.steady = reader[r].steady
<1> DEFINE found == reader[r].found \ {n}
           visible == reader[r].visible \cup (IF AllowNode(r, n) THEN {n} ELSE {})
           a == [reader[r] EXCEPT !.found = found]
           rd == [a EXCEPT !.visible = visible]
<1>1. /\ reader[r] \in ReaderState /\ reader[r].found \in SUBSET Nodes
      /\ reader[r].visible \in SUBSET Nodes
  BY DEF TreeTypeOK, ReaderState
<1>2. /\ reader' = [reader EXCEPT ![r] = rd]
      /\ UNCHANGED <<rows, hash, index, pending, left, faults, prog, alone, fresh>>
      /\ reader[r].pc = "filter"
  BY DEF filterByAllow
<1>3. found \in SUBSET Nodes /\ visible \in SUBSET Nodes
  BY <1>1
<1> HIDE DEF found, visible
<1>4. a \in ReaderState /\ a.found = found /\ Others(reader[r], a, "found")
  BY <1>1, <1>3, Setting
<1> HIDE DEF a
<1>5. rd \in ReaderState /\ rd.visible = visible /\ Others(a, rd, "visible")
  BY <1>3, <1>4, Setting
<1> HIDE DEF rd
<1>6. Turns(r, rd)
  BY <1>2 DEF Turns, TreeTypeOK
<1>7. /\ rd.pc = "filter" /\ rd.found = found /\ rd.ask = reader[r].ask
      /\ rd.source = reader[r].source /\ rd.answer = reader[r].answer
      /\ rd.gone = reader[r].gone /\ rd.steady = reader[r].steady
  BY <1>2, <1>4, <1>5 DEF Others
<1> QED BY <1>2, <1>5, <1>6, <1>7 DEF found, visible

LEMMA AnswerTurns ==
  ASSUME TreeTypeOK, NEW r \in Readers, AnswerTree(r)
  PROVE  /\ reader[r].pc = "filter" /\ reader[r].found = {} /\ alone' = alone
         /\ \E rd \in ReaderState,
               folders \in Listed(VisibleOf(reader[r].visible, "folder"), reader[r].names,
                                  reader[r].source = "database") :
              /\ Turns(r, rd) /\ rd.pc = "done"
              /\ rd.answer = Tree(reader[r].visible, folders, reader[r].ask.orphans,
                                  reader[r].ask.depth)
              /\ rd.ask = reader[r].ask /\ rd.source = reader[r].source
              /\ rd.visible = reader[r].visible /\ rd.gone = reader[r].gone
              /\ rd.steady = reader[r].steady
<1>1. PICK folders \in Listed(VisibleOf(reader[r].visible, "folder"), reader[r].names,
                              reader[r].source = "database") :
        reader' = [reader EXCEPT ![r] = [@ EXCEPT !.pc = "done", !.names = NoNames,
          !.answer = Tree(reader[r].visible, folders, reader[r].ask.orphans,
                          reader[r].ask.depth)]]
  BY DEF AnswerTree
<1> DEFINE answer == Tree(reader[r].visible, folders, reader[r].ask.orphans,
                          reader[r].ask.depth)
           a == [reader[r] EXCEPT !.pc = "done"]
           b == [a EXCEPT !.names = NoNames]
           rd == [b EXCEPT !.answer = answer]
<1>2. reader[r] \in ReaderState /\ reader[r].visible \in SUBSET Nodes
  BY DEF TreeTypeOK, ReaderState
<1>3. /\ reader[r].pc = "filter" /\ reader[r].found = {}
      /\ UNCHANGED <<rows, hash, index, pending, left, faults, prog, alone, fresh>>
  BY DEF AnswerTree
<1>4. reader' = [reader EXCEPT ![r] = rd]
  BY <1>1
<1>5. answer \in SUBSET Nodes
  BY <1>2, TreeWithin
<1>6. NoNames \in [Nodes -> Names \cup {NoName}]
  BY DEF NoNames
<1> HIDE DEF answer
<1>7. a \in ReaderState /\ a.pc = "done" /\ Others(reader[r], a, "pc")
  BY <1>2, Setting
<1> HIDE DEF a
<1>8. b \in ReaderState /\ Others(a, b, "names")
  BY <1>6, <1>7, Setting
<1> HIDE DEF b
<1>9. rd \in ReaderState /\ rd.answer = answer /\ Others(b, rd, "answer")
  BY <1>5, <1>8, Setting
<1> HIDE DEF rd
<1>10. Turns(r, rd)
  BY <1>3, <1>4 DEF Turns, TreeTypeOK
<1>11. /\ rd.pc = "done" /\ rd.answer = answer
       /\ rd.ask = reader[r].ask /\ rd.source = reader[r].source
       /\ rd.visible = reader[r].visible /\ rd.gone = reader[r].gone
       /\ rd.steady = reader[r].steady
  BY <1>7, <1>8, <1>9 DEF Others
<1> QED BY <1>3, <1>9, <1>10, <1>11 DEF answer

LEMMA WarmTurns ==
  ASSUME TreeTypeOK, NEW r \in Readers, WarmTree(r)
  PROVE  /\ reader[r].pc = "list" /\ reader[r].read = TreeKinds
         /\ \E rd \in ReaderState :
              /\ reader' = [reader EXCEPT ![r] = rd] /\ rd.pc = "filter"
              /\ Others(reader[r], rd, "pc")
<1> DEFINE rd == [reader[r] EXCEPT !.pc = "filter"]
<1>1. reader[r] \in ReaderState
  BY DEF TreeTypeOK
<1>2. /\ reader[r].pc = "list" /\ reader[r].read = TreeKinds
      /\ reader' = [reader EXCEPT ![r].pc = "filter"]
  BY WarmUps
<1>3. reader' = [reader EXCEPT ![r] = rd]
  BY <1>2
<1> HIDE DEF rd
<1>4. rd \in ReaderState /\ rd.pc = "filter" /\ Others(reader[r], rd, "pc")
  BY <1>1, Setting DEF rd
<1> QED BY <1>2, <1>3, <1>4
\* The goroutines of the warm-up write what was read.
LEMMA WarmPrograms ==
  ASSUME TreeTypeOK, NEW r \in Readers, WarmTree(r)
  PROVE  /\ prog' \in [Procs -> Seq(Command)]
         /\ \A p \in Procs : (p \in Warmers /\ p[1] = r) \/ prog'[p] = prog[p]
         /\ \A p \in Procs : p \in Warmers /\ p[1] = r =>
              /\ Ordered(prog'[p]) /\ OneName(prog'[p])
              /\ (\A n \in alone[p] : n \in Live /\ reader[r].names[n] = rows[n].name) =>
                   Fits(prog'[p], alone[p], rows, hash)
<1> DEFINE names == reader[r].names
<1>1. PICK order :
        /\ \A kind \in TreeKinds : order[kind] \in Seq(reader[r].found \cap OfKind(kind))
        /\ prog' = [p \in Procs |-> IF p \in Warmers /\ p[1] = r
                                      THEN WarmUp(order[p[2]], names) ELSE prog[p]]
  BY WarmUps
<1>2. names \in [Nodes -> Names \cup {NoName}] /\ prog \in [Procs -> Seq(Command)]
  BY ReaderFields DEF TreeTypeOK
<1> HIDE DEF names
<1>3. ASSUME NEW kind \in TreeKinds, NEW A
      PROVE  /\ WarmUp(order[kind], names) \in Seq(Command)
             /\ Ordered(WarmUp(order[kind], names)) /\ OneName(WarmUp(order[kind], names))
             /\ (\A n \in A : n \in Live /\ names[n] = rows[n].name) =>
                  Fits(WarmUp(order[kind], names), A, rows, hash)
  <2> DEFINE S == reader[r].found \cap OfKind(kind)
  <2>1. S \in SUBSET Nodes /\ order[kind] \in Seq(S)
    BY <1>1 DEF OfKind
  <2> HIDE DEF S
  <2>2. WarmUp(order[kind], names) \in Pieces(Upserts(S, names))
    BY <1>2, <2>1, UpsertsOf DEF WarmUp
  <2> DEFINE s == WarmUp(order[kind], names)
  <2> HIDE DEF s
  <2>3. s \in Seq(Command) /\ Ordered(s) /\ OneName(s)
    <3>1. \A n \in S \cap {} : rows[n].state = "live" /\ rows[n].name = names[n]
      OBVIOUS
    <3>2. s \in Seq(Command) /\ Ordered(s) /\ OneName(s) /\ Fits(s, {}, rows, hash)
      BY <1>2, <2>1, <2>2, <3>1, UpsertsFit DEF s
    <3> QED BY <3>2
  <2>4. ASSUME \A n \in A : n \in Live /\ names[n] = rows[n].name
        PROVE  Fits(s, A, rows, hash)
    <3>1. \A n \in S \cap A : rows[n].state = "live" /\ rows[n].name = names[n]
      BY <2>4 DEF Live, LiveIn
    <3> QED BY <1>2, <2>1, <2>2, <3>1, UpsertsFit DEF s
  <2> QED BY <2>3, <2>4 DEF s
<1>4. \A p \in Warmers : p[2] \in TreeKinds
  BY DEF Warmers
<1>5. \A p \in Procs : p \in Warmers /\ p[1] = r => prog'[p] = WarmUp(order[p[2]], names)
  BY <1>1
<1>6. prog' \in [Procs -> Seq(Command)]
  BY <1>1, <1>2, <1>3, <1>4
<1>7. \A p \in Procs : (p \in Warmers /\ p[1] = r) \/ prog'[p] = prog[p]
  BY <1>1
<1> QED BY <1>3, <1>4, <1>5, <1>6, <1>7 DEF names

LEMMA TreeTypeStep ==
  ASSUME TreeTypeOK, Programs, ProgramsFit, [TreeNext]_treeVars
  PROVE  TreeTypeOK'
<1>1. CASE UNCHANGED treeVars
  BY <1>1 DEF treeVars, TreeTypeOK
<1>2. CASE Committing
  BY <1>2, CommitTyped
<1>3. CASE Replacing
  BY <1>3, ReplaceTyped
<1>4. CASE Writing
  BY <1>4, WriteTyped
<1>5. ASSUME NEW r \in Readers, Looks(r)
      PROVE  TreeTypeOK'
  <2>1. PICK rd \in ReaderState : Turns(r, rd) /\ alone' = alone
    BY <1>5, GetTreeTurns, ScanTurns, FilterTurns, AnswerTurns DEF Looks
  <2>2. alone' \in [Procs -> SUBSET Nodes]
    BY <2>1 DEF TreeTypeOK
  <2> QED BY <2>1, <2>2, TurnTyped
<1>6. ASSUME NEW r \in Readers, NEW kind \in TreeKinds, ListAllForTree(r, kind)
      PROVE  TreeTypeOK'
  <2> DEFINE S == {n \in OfKind(kind) : Lists(Live, Held[reader[r].ask.user], n)}
  <2>1. PICK rd \in ReaderState : Turns(r, rd)
    BY <1>6, ListTurns
  <2>2. S \in SUBSET Nodes /\ alone' = [alone EXCEPT ![<<r, kind>>] = S]
    BY <1>6, ListTurns
  <2> HIDE DEF S
  <2>3. alone' \in [Procs -> SUBSET Nodes]
    BY <2>2 DEF TreeTypeOK
  <2> QED BY <2>1, <2>3, TurnTyped
<1>7. ASSUME NEW r \in Readers, WarmTree(r)
      PROVE  TreeTypeOK'
  <2>1. prog' \in [Procs -> Seq(Command)]
    BY <1>7, WarmPrograms
  <2>2. PICK rd \in ReaderState : reader' = [reader EXCEPT ![r] = rd]
    BY <1>7, WarmTurns
  <2>3. UNCHANGED <<rows, hash, index, pending, left, faults, alone, fresh>>
    BY <1>7, WarmUps
  <2> QED BY <2>1, <2>2, <2>3 DEF TreeTypeOK
<1> QED BY <1>1, <1>2, <1>3, <1>4, <1>5, <1>6, <1>7, TreeStepKinds

-----------------------------------------------------------------------------
(* Programs fit the tables and Redis                                       *)

LEMMA ProgramsInit == TreeInit => Programs /\ ProgramsFit
<1> SUFFICES ASSUME TreeInit
             PROVE  Programs /\ ProgramsFit
  OBVIOUS
<1>1. prog = [p \in Procs |-> << >>]
  BY DEF TreeInit
<1>2. \A p \in Procs : prog[p] = << >>
  BY <1>1
<1> QED BY <1>2, EmptyFits DEF Programs, ProgramsFit

LEMMA CommitKeepsPrograms ==
  ASSUME TreeTypeOK, Programs, ProgramsFit, Committing
  PROVE  Programs' /\ ProgramsFit'
<1>1. PICK p \in Calls, table \in [Nodes -> Row], S \in SUBSET Nodes, s \in Seq(Command) :
        Commits(p, table, S, s)
  BY DEF Committing
<1>2. /\ rows' = table /\ hash' = hash /\ prog' = [prog EXCEPT ![p] = s]
      /\ alone' = [q \in Procs |-> IF q = p THEN alone[q] \cup S ELSE alone[q] \ S]
      /\ Ordered(s) /\ OneName(s) /\ Fits(s, alone[p] \cup S, table, hash)
      /\ \A n \in Nodes \ S : table[n] = rows[n]
  BY <1>1 DEF Commits, Commit
<1>3. ASSUME NEW q \in Procs
      PROVE  Ordered(prog'[q]) /\ OneName(prog'[q]) /\ Fits(prog'[q], alone'[q], rows', hash')
  <2>1. CASE q = p
    BY <1>2, <2>1 DEF TreeTypeOK
  <2>2. CASE q # p
    <3>1. prog'[q] = prog[q] /\ alone'[q] = alone[q] \ S /\ alone[q] \subseteq Nodes
      BY <1>2, <2>2 DEF TreeTypeOK
    <3>2. Ordered(prog[q]) /\ OneName(prog[q]) /\ Fits(prog[q], alone[q], rows, hash)
      BY DEF Programs, ProgramsFit
    <3>3. \A n \in alone[q] \ S : table[n] = rows[n] /\ hash[n] = hash[n]
      BY <1>2, <3>1
    <3>4. Fits(prog[q], alone[q] \ S, table, hash)
      BY <3>2, <3>3, FitsFewer
    <3> QED BY <1>2, <3>1, <3>2, <3>4
  <2> QED BY <2>1, <2>2
<1> QED BY <1>3 DEF Programs, ProgramsFit

LEMMA ReplaceKeepsPrograms ==
  ASSUME TreeTypeOK, Programs, ProgramsFit, Replacing
  PROVE  Programs' /\ ProgramsFit'
<1>1. PICK p \in Calls, s \in Seq(Command) : Replaces(p, s)
  BY DEF Replacing
<1>2. /\ rows' = rows /\ hash' = hash /\ alone' = alone /\ prog' = [prog EXCEPT ![p] = s]
      /\ Ordered(s) /\ OneName(s) /\ Fits(s, alone[p], rows, hash)
  BY <1>1 DEF Replaces
<1>3. ASSUME NEW q \in Procs
      PROVE  Ordered(prog'[q]) /\ OneName(prog'[q]) /\ Fits(prog'[q], alone'[q], rows', hash')
  <2>1. Ordered(prog[q]) /\ OneName(prog[q]) /\ Fits(prog[q], alone[q], rows, hash)
    BY DEF Programs, ProgramsFit
  <2>2. prog'[q] = IF q = p THEN s ELSE prog[q]
    BY <1>2 DEF TreeTypeOK
  <2> QED BY <1>2, <2>1, <2>2
<1> QED BY <1>3 DEF Programs, ProgramsFit

\* A command leaves the others alone with what it does not touch.
LEMMA WriteKeepsPrograms ==
  ASSUME TreeTypeOK, Programs, ProgramsFit, Writing
  PROVE  Programs' /\ ProgramsFit'
<1>1. PICK p \in Procs : HSet(p) \/ SAdd(p) \/ Del(p) \/ SRem(p) \/ RedisFails(p)
  BY DEF Writing
<1>2. \A q \in Procs : /\ prog[q] \in Seq(Command) /\ alone[q] \subseteq Nodes
                       /\ Ordered(prog[q]) /\ OneName(prog[q])
                       /\ Fits(prog[q], alone[q], rows, hash)
  BY DEF TreeTypeOK, Programs, ProgramsFit
<1> DEFINE s == prog[p]  n == Now(p)
<1>3. CASE HSet(p) \/ SAdd(p) \/ Del(p) \/ SRem(p)
  <2>1. /\ s # << >> /\ s[1] \in Command /\ n = s[1].node /\ n \in Nodes
        /\ prog' = [prog EXCEPT ![p] = Rest(s, 1)] /\ rows' = rows
        /\ s[1].cmd \in {"hset", "sadd", "del", "srem"}
    BY <1>3, Writes
  <2>2. \A q \in Procs : q # p => alone'[q] = alone[q] \ {n}
    BY <1>3, Writes
  <2>3. alone'[p] \subseteq alone[p]
    BY <1>3, Writes
  <2>4. \A m \in Nodes \ {n} : hash'[m] = hash[m]
    BY <1>3, <2>1, Writes DEF TreeTypeOK
  <2>5. HSet(p) => hash'[n] = s[1].name
    BY <1>3, <2>1, Writes DEF TreeTypeOK
  <2>6. Len(s) \in Nat /\ 1 \in 1 .. Len(s) /\ 1 \in 0 .. Len(s)
    BY <1>2, <2>1
  <2> HIDE DEF n
  <2>7. ASSUME NEW q \in Procs, q # p
        PROVE  Ordered(prog'[q]) /\ OneName(prog'[q]) /\ Fits(prog'[q], alone'[q], rows', hash')
    <3>1. prog'[q] = prog[q]
      BY <2>1, <2>7 DEF TreeTypeOK
    <3>2. \A m \in alone[q] \ {n} : rows[m] = rows[m] /\ hash'[m] = hash[m]
      BY <1>2, <2>4
    <3>3. Fits(prog[q], alone[q] \ {n}, rows, hash')
      BY <1>2, <3>2, FitsFewer
    <3> QED BY <1>2, <2>1, <2>2, <2>7, <3>1, <3>3
  <2>8. Ordered(Rest(s, 1)) /\ OneName(Rest(s, 1))
    BY <1>2, <2>6, RestOrdered
  <2>9. 1 + 1 <= Len(s) /\ s[1 + 1].cmd = "sadd" /\ s[1 + 1].node \in alone'[p] =>
          /\ rows[s[1 + 1].node].state = "live"
          /\ hash'[s[1 + 1].node] = rows[s[1 + 1].node].name
    <3>1. SUFFICES ASSUME 2 <= Len(s), s[2].cmd = "sadd", s[2].node \in alone'[p]
                   PROVE  /\ rows[s[2].node].state = "live"
                          /\ hash'[s[2].node] = rows[s[2].node].name
      OBVIOUS
    <3>2. 2 \in 1 .. Len(s) /\ 2 - 1 = 1
      BY <2>6, <3>1
    <3>3. s[1].cmd = "hset"
      BY <1>2, <3>1, <3>2 DEF Ordered
    <3>4. s[2].node = s[1].node
      BY <1>2, <2>6, <3>3 DEF Ordered
    <3>5. HSet(p)
      BY <1>3, <3>3, Writes
    <3>6. hash'[s[2].node] = s[1].name
      BY <2>1, <2>5, <3>4, <3>5
    <3>7. s[1].node \in alone[p]
      BY <2>3, <3>1, <3>4
    <3>8. rows[s[1].node].state = "live" /\ rows[s[1].node].name = s[1].name
      <4>1. ~ \E j \in 1 .. 1 - 1 : s[j].cmd = "update" /\ s[j].node = s[1].node
        OBVIOUS
      <4> QED BY <1>2, <2>6, <3>3, <3>7, <4>1 DEF Fits
    <3> QED BY <3>4, <3>6, <3>8
  <2>10. \A j \in 1 .. 1 : s[j].cmd # "update"
    <3>1. \A j \in 1 .. 1 : j = 1
      OBVIOUS
    <3> QED BY <2>1, <3>1
  <2>11. Fits(Rest(s, 1), alone'[p], rows, hash')
    <3>1. \A m \in alone'[p] : rows[m] = rows[m]
      OBVIOUS
    <3> HIDE DEF s
    <3> DEFINE B == alone'[p]  A == alone[p]  h == hash'
    <3>2. s \in Seq(Command) /\ Fits(s, A, rows, hash)
      BY <1>2 DEF s
    <3> HIDE DEF B, A, h
    <3>3. B \in SUBSET A
      BY <2>3 DEF A, B
    <3>4. Fits(Rest(s, 1), B, rows, h)
      BY <2>6, <2>9, <2>10, <3>1, <3>2, <3>3, RestFits DEF B, h
    <3> QED BY <3>4 DEF B, h
  <2>12. prog'[p] = Rest(s, 1)
    BY <2>1 DEF TreeTypeOK
  <2> QED BY <2>1, <2>7, <2>8, <2>11, <2>12 DEF Programs, ProgramsFit
<1>4. CASE RedisFails(p)
  <2>1. UNCHANGED <<rows, hash>>
    BY <1>2, <1>4, Fails
  <2>2. PICK d \in 1 .. Len(s) :
          /\ prog' = [prog EXCEPT ![p] = Rest(s, d)]
          /\ \A j \in 1 .. d : s[j].cmd # "update" \/ d = Len(s)
          /\ ~ (d + 1 <= Len(s) /\ s[d + 1].cmd = "sadd")
    BY <1>2, <1>4, Fails
  <2>3. PICK A \in SUBSET alone[p] : alone' = [alone EXCEPT ![p] = A]
    BY <1>2, <1>4, Fails
  <2>4. s \in Seq(Command) /\ Len(s) \in Nat /\ d \in 0 .. Len(s)
    BY <1>2
  <2>5. prog'[p] = Rest(s, d) /\ alone'[p] = A
        /\ \A q \in Procs : q # p => prog'[q] = prog[q] /\ alone'[q] = alone[q]
    BY <2>2, <2>3 DEF TreeTypeOK
  <2>6. Ordered(Rest(s, d)) /\ OneName(Rest(s, d))
    BY <1>2, <2>4, RestOrdered
  <2>7. Fits(Rest(s, d), A, rows, hash)
    <3>1. CASE d = Len(s)
      <4>1. Rest(s, d) \in Seq(Command) /\ Len(Rest(s, d)) = 0
        BY <2>4, <3>1, RestIs
      <4>2. Rest(s, d) = << >>
        BY <4>1
      <4> QED BY <4>2, EmptyFits
    <3>2. CASE d # Len(s)
      <4>1. \A m \in A : rows[m] = rows[m]
        OBVIOUS
      <4>2. \A j \in 1 .. d : s[j].cmd # "update"
        BY <2>2, <3>2
      <4> HIDE DEF s
      <4>3. Fits(s, alone[p], rows, hash)
        BY <1>2 DEF s
      <4> QED BY <2>2, <2>4, <4>1, <4>2, <4>3, RestFits
    <3> QED BY <3>1, <3>2
  <2> QED BY <1>2, <2>1, <2>5, <2>6, <2>7 DEF Programs, ProgramsFit
<1> QED BY <1>1, <1>3, <1>4
-----------------------------------------------------------------------------
(* Redis after a lone writer                                               *)

LEMMA TruthInit == TreeInit => LoneWritersLeaveTheTruth
<1> SUFFICES ASSUME TreeInit
             PROVE  LoneWritersLeaveTheTruth
  OBVIOUS
<1>1. PICK s \in Scenarios :
        /\ index = IF s.filled THEN Live ELSE {}
        /\ hash = [n \in Nodes |-> IF n \in index THEN rows[n].name ELSE NoName]
        /\ fresh = IF s.filled THEN Nodes ELSE {}
  BY DEF TreeInit
<1>2. CASE fresh = {}
  BY <1>2 DEF LoneWritersLeaveTheTruth
<1>3. CASE fresh = Nodes /\ index = Live
  BY <1>1, <1>3 DEF LoneWritersLeaveTheTruth
<1> QED BY <1>1, <1>2, <1>3

LEMMA TruthStep ==
  ASSUME TreeTypeOK, Programs, ProgramsFit, LoneWritersLeaveTheTruth, [TreeNext]_treeVars
  PROVE  LoneWritersLeaveTheTruth'
<1>1. ASSUME UNCHANGED <<rows, hash, index, fresh>>
      PROVE  LoneWritersLeaveTheTruth'
  BY <1>1 DEF LoneWritersLeaveTheTruth, Live, LiveIn
<1>2. CASE UNCHANGED treeVars
  BY <1>1, <1>2 DEF treeVars
<1>3. CASE Committing
  <2>1. PICK p \in Calls, table \in [Nodes -> Row], S \in SUBSET Nodes, s \in Seq(Command) :
          Commits(p, table, S, s)
    BY <1>3 DEF Committing
  <2>2. /\ rows' = table /\ hash' = hash /\ index' = index /\ fresh' = fresh \ S
        /\ \A n \in Nodes \ S : table[n] = rows[n]
    BY <2>1 DEF Commits, Commit
  <2>3. \A n \in fresh' : n \in fresh /\ n \in Nodes /\ rows'[n] = rows[n]
    BY <2>2 DEF TreeTypeOK
  <2>4. \A n \in fresh' : n \in Live' <=> n \in Live
    BY <2>3 DEF Live, LiveIn
  <2> QED BY <2>2, <2>3, <2>4 DEF LoneWritersLeaveTheTruth
<1>4. CASE Replacing
  BY <1>1, <1>4 DEF Replacing, Replaces
<1>5. CASE Writing
  <2>1. PICK p \in Procs : HSet(p) \/ SAdd(p) \/ Del(p) \/ SRem(p) \/ RedisFails(p)
    BY <1>5 DEF Writing
  <2> DEFINE s == prog[p]  n == Now(p)
  <2>2. s \in Seq(Command) /\ Ordered(s) /\ Fits(s, alone[p], rows, hash)
    BY DEF TreeTypeOK, Programs, ProgramsFit
  <2>3. CASE RedisFails(p)
    BY <1>1, <2>2, <2>3, Fails
  <2>4. ASSUME HSet(p) \/ SAdd(p) \/ Del(p) \/ SRem(p)
        PROVE  /\ s # << >> /\ n = s[1].node /\ n \in Nodes /\ rows' = rows /\ Live' = Live
               /\ 1 \in 1 .. Len(s)
    <3>1. s # << >> /\ n = s[1].node /\ n \in Nodes /\ rows' = rows
      BY <2>4, Writes
    <3> QED BY <2>2, <3>1 DEF Live, LiveIn
  <2>5. CASE HSet(p) \/ Del(p)
    <3>1. index' = index /\ fresh' = fresh \ {n}
      BY <2>5, Writes
    <3>2. \A m \in Nodes \ {n} : hash'[m] = hash[m]
      BY <2>5, Writes DEF TreeTypeOK
    <3>3. fresh \subseteq Nodes
      BY DEF TreeTypeOK
    <3> HIDE DEF n
    <3> QED BY <2>4, <2>5, <3>1, <3>2, <3>3 DEF LoneWritersLeaveTheTruth
  <2>6. CASE SAdd(p)
    <3>1. /\ index' = index \cup {n} /\ hash' = hash /\ s[1].cmd = "sadd"
          /\ fresh' = (fresh \ {n}) \cup ({n} \cap alone[p])
      BY <2>6, Writes
    <3>2. n \in alone[p] => n \in Live /\ hash[n] = rows[n].name
      BY <2>2, <2>4, <2>6, <3>1 DEF Fits, Live, LiveIn
    <3> HIDE DEF n
    <3> QED BY <2>4, <2>6, <3>1, <3>2 DEF LoneWritersLeaveTheTruth
  <2>7. CASE SRem(p)
    <3>1. /\ index' = index \ {n} /\ hash' = hash /\ s[1].cmd = "srem"
          /\ fresh' = (fresh \ {n}) \cup ({n} \cap alone[p])
      BY <2>7, Writes
    <3>2. n \in alone[p] => n \notin Live
      BY <2>2, <2>4, <2>7, <3>1 DEF Fits, Live, LiveIn
    <3> HIDE DEF n
    <3> QED BY <2>4, <2>7, <3>1, <3>2 DEF LoneWritersLeaveTheTruth
  <2> QED BY <2>1, <2>3, <2>5, <2>6, <2>7
<1>6. ASSUME NEW r \in Readers, Looks(r)
      PROVE  LoneWritersLeaveTheTruth'
  <2>1. UNCHANGED <<rows, hash, index, fresh>>
    BY <1>6, GetTreeTurns, ScanTurns, FilterTurns, AnswerTurns DEF Looks, Turns
  <2> QED BY <1>1, <2>1
<1>7. ASSUME NEW r \in Readers, NEW kind \in TreeKinds, ListAllForTree(r, kind)
      PROVE  LoneWritersLeaveTheTruth'
  BY <1>1, <1>7 DEF ListAllForTree
<1>8. ASSUME NEW r \in Readers, WarmTree(r)
      PROVE  LoneWritersLeaveTheTruth'
  BY <1>1, <1>8, WarmUps
<1> QED BY <1>2, <1>3, <1>4, <1>5, <1>6, <1>7, <1>8, TreeStepKinds
-----------------------------------------------------------------------------
(* What a caller may read is listed                                        *)

LEMMA ReadableLists ==
  ASSUME NEW L, NEW H \in SUBSET Permission, NEW n \in Nodes, Kind[n] \in TreeKinds,
         Allow(L, H, n, "read")
  PROVE  Lists(L, H, n)
<1>1. Joined(n) \subseteq L /\ UserPermissions(H, ResourceScopes(n), Kind[n], "read")
  BY DEF Allow
<1>2. Joined(n) \subseteq Chain(n) /\ Chain(n) \ Folders \subseteq Joined(n)
  BY JoinedIsChain
<1>3. CASE Kind[n] = "folder"
  <2>1. Narrowed(H, n, "read")
    BY <1>1 DEF Narrowed, UserPermissions, ResourceScopes
  <2> QED BY <1>1, <1>3, <2>1 DEF Lists, ListsFolder
<1>4. CASE Kind[n] \in {"org", "project", "env"}
  <2>1. Chain(n) \cap Folders = {}
    BY <1>4, Chains, Parent DEF Folders, OfKind
  <2>2. Chain(n) \subseteq L
    BY <1>1, <1>2, <2>1
  <2>3. PICK p \in H : p.resource = Kind[n] /\ p.scope \in ResourceScopes(n)
    BY <1>1 DEF UserPermissions
  <2>4. Kind[n] \in AtOrBelow(Depth(Kind[n]))
    BY <1>4, Depths, Levels
  <2>5. CASE p.scope = Global
    <3>1. Leads(L, p, n)
      BY <2>2, <2>3, <2>4, <2>5, Leading
    <3> QED BY <1>4, <2>2, <3>1, ListsUpper
  <2>6. CASE p.scope \in Chain(n)
    <3>1. p.scope \in Nodes
      BY <2>6, ChainIn
    <3>2. Joined(p.scope) \ Chain(n) = {}
      BY <2>6, <3>1, JoinedIsChain, ChainTransitive
    <3>3. p.resource \in AtOrBelow(Depth(Kind[p.scope]))
      BY <2>3, <2>4, <2>6, LevelsUp
    <3>4. Leads(L, p, n)
      BY <2>2, <2>3, <2>4, <2>6, <3>2, <3>3, Leading
    <3> QED BY <1>4, <2>2, <3>4, ListsUpper
  <2> QED BY <2>3, <2>5, <2>6 DEF ResourceScopes
<1> QED BY <1>3, <1>4 DEF TreeKinds

\* Every resource is among the rows that are joined for it.
LEMMA JoinsItself ==
  ASSUME NEW n \in Nodes
  PROVE  n \in Joined(n)
<1>1. n \in Chain(n) /\ Kind[n] \in {"org", "project", "env", "folder", "secret"}
  BY ChainIn, Parent
<1>2. SUFFICES ASSUME NEW k \in Chain(n), Level2(k), n = Up[k]
               PROVE  FALSE
  BY <1>1 DEF Joined
<1>3. k \in Nodes
  BY <1>2, ChainIn
<1>4. Kind[k] = "folder" /\ Kind[n] = "folder" /\ Kind[Up[n]] = "env"
  BY <1>2, <1>3, Parent DEF Level2
<1>5. k \in {n, Up[n], Up[Up[n]], Up[Up[Up[n]]]}
  BY <1>2, <1>4, Chains DEF Level2
<1>6. Kind[Up[Up[n]]] = "project" /\ Kind[Up[Up[Up[n]]]] = "org"
  BY <1>4, Parent
<1> QED BY <1>2, <1>4, <1>5, <1>6

\* What a caller may read is live and permitted.
LEMMA ReadableIs ==
  ASSUME NEW L, NEW H, NEW n \in Nodes, Allow(L, H, n, "read")
  PROVE  n \in L /\ UserPermissions(H, ResourceScopes(n), Kind[n], "read")
BY JoinsItself DEF Allow

\* What is listed is live.
LEMMA ListedLive ==
  ASSUME NEW L, NEW H, NEW n \in Nodes, Kind[n] \in TreeKinds, Lists(L, H, n)
  PROVE  n \in L
<1>1. CASE Kind[n] \in {"org", "project", "env"}
  BY <1>1 DEF Lists, ListsOrganization, ListsProject, ListsEnvironment, Navigable
<1>2. CASE Kind[n] = "folder"
  BY <1>2, JoinsItself DEF Lists, ListsFolder, OfKind
<1> QED BY <1>1, <1>2 DEF TreeKinds
-----------------------------------------------------------------------------
(* Programs at every step                                                  *)

\* A request for the tree that does no more than look leaves the programs alone.
LEMMA LooksLeave ==
  ASSUME TreeTypeOK, NEW r \in Readers, Looks(r)
  PROVE  /\ UNCHANGED <<rows, hash, prog, alone>>
         /\ \A q \in Readers : q # r => reader'[q] = reader[q]
<1>1. PICK rd \in ReaderState : Turns(r, rd) /\ alone' = alone
  BY GetTreeTurns, ScanTurns, FilterTurns, AnswerTurns DEF Looks
<1> QED BY <1>1 DEF Turns, TreeTypeOK

LEMMA ProgramsStep ==
  ASSUME TreeTypeOK, Programs, ProgramsFit, \A r \in Readers : WarmersWait(r),
         [TreeNext]_treeVars
  PROVE  Programs' /\ ProgramsFit'
<1>1. ASSUME UNCHANGED <<rows, hash, prog, alone>>
      PROVE  Programs' /\ ProgramsFit'
  BY <1>1 DEF Programs, ProgramsFit
<1>2. CASE UNCHANGED treeVars
  BY <1>1, <1>2 DEF treeVars
<1>3. CASE Committing
  BY <1>3, CommitKeepsPrograms
<1>4. CASE Replacing
  BY <1>4, ReplaceKeepsPrograms
<1>5. CASE Writing
  BY <1>5, WriteKeepsPrograms
<1>6. ASSUME NEW r \in Readers, Looks(r)
      PROVE  Programs' /\ ProgramsFit'
  BY <1>1, <1>6, LooksLeave
<1>7. ASSUME NEW r \in Readers, NEW kind \in TreeKinds, ListAllForTree(r, kind)
      PROVE  Programs' /\ ProgramsFit'
  <2>1. UNCHANGED <<rows, hash, prog>> /\ reader[r].pc = "list"
    BY <1>7 DEF ListAllForTree
  <2>2. \A p \in Procs : p # <<r, kind>> => alone'[p] = alone[p]
    <3> DEFINE S == {n \in OfKind(kind) : Lists(Live, Held[reader[r].ask.user], n)}
    <3>1. alone' = [alone EXCEPT ![<<r, kind>>] = S]
      BY <1>7, ListTurns
    <3> HIDE DEF S
    <3> QED BY <3>1 DEF TreeTypeOK
  <2>3. prog[<<r, kind>>] = << >>
    BY <2>1 DEF WarmersWait
  <2>4. ASSUME NEW p \in Procs
        PROVE  Ordered(prog'[p]) /\ OneName(prog'[p]) /\ Fits(prog'[p], alone'[p], rows', hash')
    <3>1. CASE p = <<r, kind>>
      <4>1. prog'[p] = << >>
        BY <2>1, <2>3, <3>1
      <4> QED BY <4>1, EmptyFits
    <3>2. CASE p # <<r, kind>>
      BY <2>1, <2>2, <3>2 DEF Programs, ProgramsFit
    <3> QED BY <3>1, <3>2
  <2> QED BY <2>4 DEF Programs, ProgramsFit
<1>8. ASSUME NEW r \in Readers, WarmTree(r)
      PROVE  Programs' /\ ProgramsFit'
  <2>1. UNCHANGED <<rows, hash, alone>> /\ reader[r].pc = "list"
    BY <1>8, WarmUps
  <2>2. ASSUME NEW p \in Procs
        PROVE  Ordered(prog'[p]) /\ OneName(prog'[p]) /\ Fits(prog'[p], alone[p], rows, hash)
    <3>1. CASE p \in Warmers /\ p[1] = r
      <4>1. PICK kind \in TreeKinds : p = <<r, kind>>
        BY <3>1 DEF Warmers
      <4>2. \A n \in alone[p] : n \in Live /\ reader[r].names[n] = rows[n].name
        BY <2>1, <4>1 DEF WarmersWait
      <4> QED BY <1>8, <3>1, <4>2, WarmPrograms
    <3>2. CASE prog'[p] = prog[p]
      BY <3>2 DEF Programs, ProgramsFit
    <3> QED BY <1>8, <3>1, <3>2, WarmPrograms
  <2> QED BY <2>1, <2>2 DEF Programs, ProgramsFit
<1> QED BY <1>2, <1>3, <1>4, <1>5, <1>6, <1>7, <1>8, TreeStepKinds
-----------------------------------------------------------------------------
(* Requests for the tree                                                   *)

LEMMA ReadersInit ==
  ASSUME TreeInit, NEW r \in Readers
  PROVE  ReaderSound(r) /\ WarmersWait(r)
<1>1. PICK s \in Scenarios : /\ prog = [p \in Procs |-> << >>]
                             /\ reader = [q \in Readers |-> NewReader(s)]
                             /\ alone = [p \in Procs |-> {}]
  BY DEF TreeInit
<1>2. reader[r] = NewReader(s)
  BY <1>1
<1>3. /\ reader[r].pc \in {"new", "done"} /\ reader[r].source = "cache"
      /\ reader[r].visible = {} /\ reader[r].answer = {} /\ reader[r].gone = {}
      /\ reader[r].steady = {}
  BY <1>2 DEF NewReader
<1>4. ReaderSound(r)
  BY <1>3 DEF ReaderSound, Sound
<1>5. \A kind \in TreeKinds : <<r, kind>> \in Procs
  BY DEF Procs, Warmers
<1>6. WarmersWait(r)
  BY <1>1, <1>3, <1>5 DEF WarmersWait
<1> QED BY <1>4, <1>6

\* A request stays sound when rows change, as long as nobody deleted comes back
\* and it loses what its caller may not read any more.
LEMMA SoundStays ==
  ASSUME NEW x, NEW y, NEW table, NEW table2, Sound(x, table), Others(x, y, "steady"),
         y.steady = x.steady \cap ReadableBy(table2, x.ask.user),
         \A n \in x.gone : table[n].state = "deleted" => table2[n].state = "deleted"
  PROVE  Sound(y, table2)
<1>1. /\ y.pc = x.pc /\ y.source = x.source /\ y.visible = x.visible /\ y.answer = x.answer
      /\ y.gone = x.gone /\ y.ask = x.ask /\ y.found = x.found /\ y.read = x.read
      /\ y.steady \subseteq x.steady
  BY DEF Others
<1> QED BY <1>1 DEF Sound

\* The goroutines of r still wait if the request is where it was, has the same
\* names, and they have no more than before that is as it was.
LEMMA WaitStays ==
  ASSUME TreeTypeOK, NEW r \in Readers, WarmersWait(r),
         reader'[r].pc = reader[r].pc, reader'[r].names = reader[r].names,
         \A kind \in TreeKinds :
           /\ prog[<<r, kind>>] = << >> => prog'[<<r, kind>>] = << >>
           /\ alone'[<<r, kind>>] \subseteq alone[<<r, kind>>]
           /\ \A n \in alone'[<<r, kind>>] : rows'[n] = rows[n]
  PROVE  WarmersWait(r)'
<1>1. \A kind \in TreeKinds : alone[<<r, kind>>] \subseteq Nodes
  BY DEF TreeTypeOK, Procs, Warmers
<1>2. \A kind \in TreeKinds : \A n \in alone'[<<r, kind>>] :
        /\ n \in Nodes /\ n \in alone[<<r, kind>>] /\ rows'[n] = rows[n]
        /\ n \in Live => n \in Live'
  BY <1>1 DEF Live, LiveIn
<1> QED BY <1>2 DEF WarmersWait

LEMMA NotAWarmer ==
  ASSUME NEW p \in Calls, NEW r \in Readers, NEW kind \in TreeKinds
  PROVE  <<r, kind>> # p /\ <<r, kind>> \in Procs
BY TreeCacheAssumption DEF Procs, Warmers

\* Somebody commits, goes on with another program, or writes to Redis.
LEMMA CommitKeepsReaders ==
  ASSUME TreeTypeOK, Committing, NEW r \in Readers, ReaderSound(r), WarmersWait(r)
  PROVE  ReaderSound(r)' /\ WarmersWait(r)'
<1>1. PICK p \in Calls, table \in [Nodes -> Row], S \in SUBSET Nodes, s \in Seq(Command) :
        Commits(p, table, S, s)
  BY DEF Committing
<1>2. /\ rows' = table /\ prog' = [prog EXCEPT ![p] = s]
      /\ alone' = [q \in Procs |-> IF q = p THEN alone[q] \cup S ELSE alone[q] \ S]
      /\ reader' = [q \in Readers |->
           [reader[q] EXCEPT !.steady = @ \cap ReadableBy(table, reader[q].ask.user)]]
      /\ \A n \in Nodes \ S : table[n] = rows[n]
      /\ \A n \in Nodes : rows[n].state = "deleted" => table[n].state = "deleted"
  BY <1>1 DEF Commits, Commit
<1> DEFINE steady == reader[r].steady \cap ReadableBy(table, reader[r].ask.user)
           rd == [reader[r] EXCEPT !.steady = steady]
<1>3. reader[r].gone \subseteq Nodes
  BY ReaderFields
<1>4. reader'[r] = rd
  BY <1>2
<1>5. rd.steady = steady /\ Others(reader[r], rd, "steady")
  <2>1. reader[r] \in ReaderState /\ steady \in SUBSET Nodes
    BY ReaderFields
  <2> HIDE DEF steady
  <2> QED BY <2>1, SettingSteady
<1> HIDE DEF steady, rd
<1>6. Sound(rd, table)
  BY <1>2, <1>3, <1>5, SoundStays DEF ReaderSound, steady
<1>7. rd.pc = reader[r].pc /\ rd.names = reader[r].names
  BY <1>5 DEF Others
<1>8. ASSUME NEW kind \in TreeKinds
      PROVE  /\ prog'[<<r, kind>>] = prog[<<r, kind>>]
             /\ alone'[<<r, kind>>] \subseteq alone[<<r, kind>>]
             /\ \A n \in alone'[<<r, kind>>] : rows'[n] = rows[n]
  <2>1. <<r, kind>> # p /\ <<r, kind>> \in Procs
    BY NotAWarmer
  <2>2. alone'[<<r, kind>>] = alone[<<r, kind>>] \ S /\ alone[<<r, kind>>] \subseteq Nodes
    BY <1>2, <2>1 DEF TreeTypeOK
  <2> QED BY <1>2, <2>1, <2>2 DEF TreeTypeOK
<1>9. WarmersWait(r)'
  BY <1>4, <1>7, <1>8, WaitStays
<1> QED BY <1>2, <1>4, <1>6, <1>9 DEF ReaderSound

LEMMA RedisKeepsReaders ==
  ASSUME TreeTypeOK, Programs, Replacing \/ Writing,
         NEW r \in Readers, ReaderSound(r), WarmersWait(r)
  PROVE  ReaderSound(r)' /\ WarmersWait(r)'
<1>1. ASSUME UNCHANGED <<rows, reader>>,
             \A kind \in TreeKinds :
               /\ prog[<<r, kind>>] = << >> => prog'[<<r, kind>>] = << >>
               /\ alone'[<<r, kind>>] \subseteq alone[<<r, kind>>]
      PROVE  ReaderSound(r)' /\ WarmersWait(r)'
  BY <1>1, WaitStays DEF ReaderSound
<1>2. CASE Replacing
  <2>1. PICK p \in Calls, s \in Seq(Command) : Replaces(p, s)
    BY <1>2 DEF Replacing
  <2>2. UNCHANGED <<rows, reader, alone>> /\ prog' = [prog EXCEPT ![p] = s]
    BY <2>1 DEF Replaces
  <2>3. \A kind \in TreeKinds : prog'[<<r, kind>>] = prog[<<r, kind>>]
    BY <2>2, NotAWarmer DEF TreeTypeOK
  <2> QED BY <1>1, <2>2, <2>3
<1>3. CASE Writing
  <2>1. PICK p \in Procs : HSet(p) \/ SAdd(p) \/ Del(p) \/ SRem(p) \/ RedisFails(p)
    BY <1>3 DEF Writing
  <2>2. Ordered(prog[p])
    BY DEF Programs
  <2>3. /\ UNCHANGED <<rows, reader>> /\ prog[p] # << >>
        /\ \E s : prog' = [prog EXCEPT ![p] = s]
        /\ \A q \in Procs : alone'[q] \subseteq alone[q]
    <3>1. CASE HSet(p) \/ SAdd(p) \/ Del(p) \/ SRem(p)
      <4>1. UNCHANGED <<rows, reader>> /\ prog[p] # << >> /\ \E s : prog' = [prog EXCEPT ![p] = s]
        BY <3>1, Writes
      <4>2. \A q \in Procs : alone'[q] \subseteq alone[q]
        BY <3>1, Writes
      <4> QED BY <4>1, <4>2
    <3>2. CASE RedisFails(p)
      BY <2>2, <3>2, Fails DEF TreeTypeOK
    <3> QED BY <2>1, <3>1, <3>2
  <2>4. \A kind \in TreeKinds : <<r, kind>> \in Procs
    BY DEF Procs, Warmers
  <2>5. \A q \in Procs : prog[q] = << >> => prog'[q] = prog[q]
    BY <2>3 DEF TreeTypeOK
  <2> QED BY <1>1, <2>3, <2>4, <2>5
<1> QED BY <1>2, <1>3
\* The steps of a request itself.
LEMMA GetTreeSound ==
  ASSUME TreeTypeOK, NEW r \in Readers, ReaderSound(r), GetTree(r)
  PROVE  ReaderSound(r)'
<1>1. reader[r].pc = "new"
  BY GetTreeTurns
<1>2. PICK rd \in ReaderState :
        /\ Turns(r, rd) /\ rd.pc = "scan"
        /\ rd.gone = {n \in Nodes : rows[n].state = "deleted"}
        /\ rd.steady = ReadableBy(rows, rd.ask.user)
        /\ rd.source = reader[r].source
        /\ rd.visible = reader[r].visible /\ rd.answer = reader[r].answer
  BY GetTreeTurns
<1>3. rd.source = "cache" /\ rd.visible = {} /\ rd.answer = {}
  BY <1>1, <1>2 DEF ReaderSound, Sound
<1>4. Sound(rd, rows)
  BY <1>2, <1>3 DEF Sound
<1> QED BY <1>2, <1>4 DEF ReaderSound, Turns, TreeTypeOK

\* The search in Redis ends with the filters, or with nothing listed yet.
LEMMA ScanSound ==
  ASSUME TreeTypeOK, NEW r \in Readers, ReaderSound(r),
         \/ ListAllMeta(r) \/ ScanFails(r)
         \/ \E kind \in TreeKinds : SMembers(r, kind) \/ scanType(r, kind)
  PROVE  ReaderSound(r)'
<1>1. reader[r].pc = "scan"
  BY ScanTurns
<1>2. PICK rd \in ReaderState :
        /\ Turns(r, rd) /\ rd.pc \in {"scan", "list", "filter"}
        /\ rd.pc = "list" => rd.read = {}
        /\ Kept(reader[r], rd)
  BY ScanTurns
<1>3. rd.source = "cache" /\ rd.visible = {} /\ rd.answer = {}
  BY <1>1, <1>2 DEF ReaderSound, Sound, Kept
<1>4. /\ \A n \in rd.gone : rows[n].state = "deleted"
      /\ rd.steady \subseteq ReadableBy(rows, rd.ask.user)
  BY <1>2 DEF ReaderSound, Sound, Kept
<1>5. Sound(rd, rows)
  BY <1>2, <1>3, <1>4 DEF Sound
<1> QED BY <1>2, <1>5 DEF ReaderSound, Turns, TreeTypeOK

\* A list of the database has what the caller may read at its moment.
LEMMA ListSound ==
  ASSUME TreeTypeOK, NEW r \in Readers, NEW kind \in TreeKinds, ReaderSound(r),
         ListAllForTree(r, kind)
  PROVE  ReaderSound(r)'
<1> DEFINE S == {n \in OfKind(kind) : Lists(Live, Held[reader[r].ask.user], n)}
<1>1. reader[r].pc = "list"
  BY ListTurns
<1>2. PICK rd \in ReaderState :
        /\ Turns(r, rd) /\ rd.pc = "list"
        /\ rd.read = reader[r].read \cup {kind}
        /\ rd.found = reader[r].found \cup S
        /\ \A n \in Nodes :
             rd.names[n] = IF n \in S THEN rows[n].name ELSE reader[r].names[n]
        /\ rd.ask = reader[r].ask /\ rd.visible = reader[r].visible
        /\ rd.answer = reader[r].answer /\ rd.gone = reader[r].gone
        /\ rd.steady = reader[r].steady
  BY ListTurns
<1>3. rd.steady \cap OfKind(kind) \subseteq S
  <2>1. SUFFICES ASSUME NEW n \in rd.steady, n \in OfKind(kind)
                 PROVE  Lists(Live, Held[reader[r].ask.user], n)
    OBVIOUS
  <2>2. n \in ReadableBy(rows, reader[r].ask.user)
    BY <1>2, <2>1 DEF ReaderSound, Sound
  <2>3. /\ n \in Nodes /\ Kind[n] \in TreeKinds
        /\ Allow(Live, Held[reader[r].ask.user], n, "read")
    BY <2>2 DEF ReadableBy, Live
  <2>4. Held[reader[r].ask.user] \in SUBSET Permission
    BY ReaderFields
  <2> QED BY <2>3, <2>4, ReadableLists
<1> HIDE DEF S
<1>4. /\ rd.visible = {} /\ rd.answer = {}
      /\ \A n \in rd.gone : rows[n].state = "deleted"
      /\ rd.steady \subseteq ReadableBy(rows, rd.ask.user)
      /\ \A k \in reader[r].read : rd.steady \cap OfKind(k) \subseteq reader[r].found
  BY <1>1, <1>2 DEF ReaderSound, Sound
<1>5. \A k \in rd.read : rd.steady \cap OfKind(k) \subseteq rd.found
  BY <1>2, <1>3, <1>4
<1>6. Sound(rd, rows)
  BY <1>2, <1>4, <1>5 DEF Sound
<1> QED BY <1>2, <1>6 DEF ReaderSound, Turns, TreeTypeOK

\* The four lists together have all that the caller may read.
LEMMA WarmSound ==
  ASSUME TreeTypeOK, NEW r \in Readers, ReaderSound(r), WarmTree(r)
  PROVE  ReaderSound(r)'
<1>1. reader[r].pc = "list" /\ reader[r].read = TreeKinds
  BY WarmTurns
<1>2. PICK rd \in ReaderState : /\ reader' = [reader EXCEPT ![r] = rd] /\ rd.pc = "filter"
                                /\ Others(reader[r], rd, "pc")
  BY WarmTurns
<1>3. rows' = rows
  BY WarmUps
<1>4. /\ rd.found = reader[r].found /\ rd.visible = reader[r].visible
      /\ rd.answer = reader[r].answer /\ rd.gone = reader[r].gone
      /\ rd.steady = reader[r].steady /\ rd.ask = reader[r].ask
  BY <1>2 DEF Others
<1>5. /\ rd.visible = {} /\ rd.answer = {}
      /\ \A n \in rd.gone : rows[n].state = "deleted"
      /\ rd.steady \subseteq ReadableBy(rows, rd.ask.user)
      /\ \A kind \in TreeKinds : rd.steady \cap OfKind(kind) \subseteq rd.found
  BY <1>1, <1>4 DEF ReaderSound, Sound
<1>6. rd.steady \subseteq rd.found
  BY <1>5 DEF ReadableBy, OfKind
<1>7. Sound(rd, rows)
  BY <1>2, <1>5, <1>6 DEF Sound
<1> QED BY <1>2, <1>3, <1>7 DEF ReaderSound, TreeTypeOK

\* The authorizer lets through what is live and permitted, and all of that.
LEMMA FilterSound ==
  ASSUME TreeTypeOK, NEW r \in Readers, NEW n \in Nodes, NEW kind \in TreeKinds,
         ReaderSound(r), filterByAllow(r, n, kind)
  PROVE  ReaderSound(r)'
<1>1. reader[r].pc = "filter"
  BY FilterTurns
<1>2. PICK rd \in ReaderState :
        /\ Turns(r, rd) /\ rd.pc = "filter"
        /\ rd.found = reader[r].found \ {n}
        /\ rd.visible = reader[r].visible \cup (IF AllowNode(r, n) THEN {n} ELSE {})
        /\ rd.ask = reader[r].ask /\ rd.source = reader[r].source
        /\ rd.answer = reader[r].answer /\ rd.gone = reader[r].gone
        /\ rd.steady = reader[r].steady
  BY FilterTurns
<1>3. /\ \A m \in rd.gone : rows[m].state = "deleted"
      /\ rd.answer = {}
      /\ reader[r].visible \cap (rd.gone \cup Unpermitted(rd.ask.user)) = {}
      /\ rd.steady \subseteq ReadableBy(rows, rd.ask.user)
      /\ rd.source = "database" => rd.steady \subseteq reader[r].found \cup reader[r].visible
  BY <1>1, <1>2 DEF ReaderSound, Sound
<1>4. AllowNode(r, n) => n \notin rd.gone \cup Unpermitted(rd.ask.user)
  <2>1. SUFFICES ASSUME AllowNode(r, n)
                 PROVE  n \notin rd.gone \cup Unpermitted(rd.ask.user)
    OBVIOUS
  <2>2. Allow(Live, Held[rd.ask.user], n, "read")
    BY <1>2, <2>1 DEF AllowNode
  <2>3. n \in Live /\ UserPermissions(Held[rd.ask.user], ResourceScopes(n), Kind[n], "read")
    BY <2>2, ReadableIs
  <2> QED BY <1>3, <2>3 DEF Live, LiveIn, Unpermitted
<1>5. n \in rd.steady => AllowNode(r, n)
  BY <1>2, <1>3 DEF ReadableBy, AllowNode, Live
<1>6. rd.visible \cap (rd.gone \cup Unpermitted(rd.ask.user)) = {}
  BY <1>2, <1>3, <1>4
<1>7. rd.source = "database" => rd.steady \subseteq rd.found \cup rd.visible
  BY <1>2, <1>3, <1>5
<1>8. Sound(rd, rows)
  BY <1>2, <1>3, <1>6, <1>7 DEF Sound
<1> QED BY <1>2, <1>8 DEF ReaderSound, Turns, TreeTypeOK

\* The tree is made of what was let through, and loses only folders in folders.
LEMMA AnswerSound ==
  ASSUME TreeTypeOK, NEW r \in Readers, ReaderSound(r), AnswerTree(r)
  PROVE  ReaderSound(r)'
<1>1. reader[r].pc = "filter" /\ reader[r].found = {}
  BY AnswerTurns
<1>2. PICK rd \in ReaderState,
           folders \in Listed(VisibleOf(reader[r].visible, "folder"), reader[r].names,
                              reader[r].source = "database") :
        /\ Turns(r, rd) /\ rd.pc = "done"
        /\ rd.answer = Tree(reader[r].visible, folders, reader[r].ask.orphans,
                            reader[r].ask.depth)
        /\ rd.ask = reader[r].ask /\ rd.source = reader[r].source
        /\ rd.visible = reader[r].visible /\ rd.gone = reader[r].gone
        /\ rd.steady = reader[r].steady
  BY AnswerTurns
<1>3. reader[r].visible \in SUBSET Nodes
  BY ReaderFields
<1>4. rd.answer \subseteq rd.visible
  BY <1>2, <1>3, TreeWithin
<1>5. /\ \A n \in rd.gone : rows[n].state = "deleted"
      /\ rd.visible \cap (rd.gone \cup Unpermitted(rd.ask.user)) = {}
      /\ rd.steady \subseteq ReadableBy(rows, rd.ask.user)
      /\ rd.source = "database" => rd.steady \subseteq rd.visible
  BY <1>1, <1>2 DEF ReaderSound, Sound
<1>6. ASSUME rd.source = "database", rd.ask.orphans, MaxDepth(rd.ask.depth) = 4,
             NEW n \in rd.steady \ rd.answer
      PROVE  Level2(n) /\ Up[n] \in rd.visible
  <2>1. n \in reader[r].visible /\ Kind[n] \in TreeKinds
    BY <1>2, <1>5, <1>6 DEF ReadableBy
  <2>2. reader[r].ask.orphans = TRUE
    <3>1. reader[r].ask.orphans \in BOOLEAN
      BY ReaderFields DEF TreeRequest
    <3> QED BY <1>2, <1>6, <3>1
  <2>3. n \notin Tree(reader[r].visible, folders, TRUE, reader[r].ask.depth)
    BY <1>2, <1>6, <2>2
  <2>4. MaxDepth(reader[r].ask.depth) = 4
    BY <1>2, <1>6
  <2>5. Level2(n) /\ Up[n] \in reader[r].visible
    BY <1>3, <2>1, <2>3, <2>4, TreeComplete
  <2> QED BY <1>2, <2>5
<1>7. Sound(rd, rows)
  BY <1>2, <1>4, <1>5, <1>6 DEF Sound
<1> QED BY <1>2, <1>7 DEF ReaderSound, Turns, TreeTypeOK
\* The goroutines of a warm-up, at the steps of their request and of others.
LEMMA WaitTurns ==
  ASSUME TreeTypeOK, NEW r \in Readers, WarmersWait(r),
         \/ Looks(r) \/ WarmTree(r) \/ \E kind \in TreeKinds : ListAllForTree(r, kind)
  PROVE  WarmersWait(r)'
<1>1. ASSUME reader'[r].pc \in {"filter", "done"}
      PROVE  WarmersWait(r)'
  BY <1>1 DEF WarmersWait
<1>2. CASE GetTree(r)
  <2>1. reader[r].pc = "new" /\ alone' = alone
    BY <1>2, GetTreeTurns
  <2>2. PICK rd \in ReaderState : Turns(r, rd) /\ rd.pc = "scan"
    BY <1>2, GetTreeTurns
  <2>3. reader'[r].pc = "scan" /\ prog' = prog
    BY <2>2 DEF Turns, TreeTypeOK
  <2> QED BY <2>1, <2>3 DEF WarmersWait
<1>3. CASE \/ ListAllMeta(r) \/ ScanFails(r)
           \/ \E kind \in TreeKinds : SMembers(r, kind) \/ scanType(r, kind)
  <2>1. reader[r].pc = "scan" /\ alone' = alone
    BY <1>3, ScanTurns
  <2>2. PICK rd \in ReaderState : Turns(r, rd) /\ rd.pc \in {"scan", "list", "filter"}
    BY <1>3, ScanTurns
  <2>3. reader'[r].pc \in {"scan", "list", "filter"} /\ prog' = prog
    BY <2>2 DEF Turns, TreeTypeOK
  <2>4. \A kind \in TreeKinds : alone[<<r, kind>>] = {} /\ prog[<<r, kind>>] = << >>
    BY <2>1 DEF WarmersWait
  <2> QED BY <2>1, <2>3, <2>4 DEF WarmersWait
<1>4. CASE \E n \in Nodes, kind \in TreeKinds : filterByAllow(r, n, kind)
  <2>1. PICK rd \in ReaderState : Turns(r, rd) /\ rd.pc = "filter"
    BY <1>4, FilterTurns
  <2>2. reader'[r].pc = "filter"
    BY <2>1 DEF Turns, TreeTypeOK
  <2> QED BY <1>1, <2>2
<1>5. CASE AnswerTree(r)
  <2>1. PICK rd \in ReaderState : Turns(r, rd) /\ rd.pc = "done"
    BY <1>5, AnswerTurns
  <2>2. reader'[r].pc = "done"
    BY <2>1 DEF Turns, TreeTypeOK
  <2> QED BY <1>1, <2>2
<1>6. CASE WarmTree(r)
  <2>1. reader'[r].pc = "filter"
    BY <1>6, WarmTurns DEF TreeTypeOK
  <2> QED BY <1>1, <2>1
<1>7. ASSUME NEW kind \in TreeKinds, ListAllForTree(r, kind)
      PROVE  WarmersWait(r)'
  <2> DEFINE S == {n \in OfKind(kind) : Lists(Live, Held[reader[r].ask.user], n)}
  <2>1. reader[r].pc = "list" /\ S \in SUBSET Nodes
        /\ alone' = [alone EXCEPT ![<<r, kind>>] = S]
    BY <1>7, ListTurns
  <2>2. PICK rd \in ReaderState :
          /\ Turns(r, rd) /\ rd.pc = "list"
          /\ rd.read = reader[r].read \cup {kind}
          /\ rd.found = reader[r].found \cup S
          /\ \A n \in Nodes :
               rd.names[n] = IF n \in S THEN rows[n].name ELSE reader[r].names[n]
          /\ rd.ask = reader[r].ask /\ rd.visible = reader[r].visible
          /\ rd.answer = reader[r].answer /\ rd.gone = reader[r].gone
          /\ rd.steady = reader[r].steady
    BY <1>7, ListTurns
  <2>3. \A n \in S : n \in Live
    BY ListedLive DEF OfKind
  <2> HIDE DEF S
  <2>4. reader'[r] = rd /\ prog' = prog /\ rows' = rows /\ Live' = Live
    BY <2>2 DEF Turns, TreeTypeOK, Live, LiveIn
  <2>5. ASSUME NEW k \in TreeKinds
        PROVE  /\ prog[<<r, k>>] = << >>
               /\ \A n \in alone'[<<r, k>>] : n \in Live /\ rd.names[n] = rows[n].name
    <3>1. <<r, k>> \in Procs /\ alone[<<r, k>>] \subseteq Nodes
      BY DEF TreeTypeOK, Procs, Warmers
    <3>2. alone'[<<r, k>>] = IF k = kind THEN S ELSE alone[<<r, k>>]
      BY <2>1, <3>1 DEF TreeTypeOK
    <3>3. /\ prog[<<r, k>>] = << >>
          /\ \A n \in alone[<<r, k>>] : n \in Live /\ reader[r].names[n] = rows[n].name
      BY <2>1 DEF WarmersWait
    <3> QED BY <2>1, <2>2, <2>3, <3>1, <3>2, <3>3
  <2> QED BY <2>2, <2>4, <2>5 DEF WarmersWait
<1> QED BY <1>2, <1>3, <1>4, <1>5, <1>6, <1>7 DEF Looks

LEMMA OthersWait ==
  ASSUME TreeTypeOK, NEW r \in Readers, NEW q \in Readers, q # r,
         ReaderSound(q), WarmersWait(q),
         \/ Looks(r) \/ WarmTree(r) \/ \E kind \in TreeKinds : ListAllForTree(r, kind)
  PROVE  ReaderSound(q)' /\ WarmersWait(q)'
<1>1. \A kind \in TreeKinds : <<q, kind>> \in Procs /\ <<q, kind>> \in Warmers
  BY DEF Procs, Warmers
<1>2. ASSUME reader'[q] = reader[q], rows' = rows,
             \A kind \in TreeKinds : /\ prog'[<<q, kind>>] = prog[<<q, kind>>]
                                     /\ alone'[<<q, kind>>] = alone[<<q, kind>>]
      PROVE  ReaderSound(q)' /\ WarmersWait(q)'
  BY <1>2, WaitStays DEF ReaderSound
<1>3. CASE Looks(r)
  BY <1>2, <1>3, LooksLeave
<1>4. CASE WarmTree(r)
  <2>1. rows' = rows /\ alone' = alone /\ reader' = [reader EXCEPT ![r].pc = "filter"]
    BY <1>4, WarmUps
  <2>2. reader'[q] = reader[q]
    BY <2>1 DEF TreeTypeOK
  <2>3. \A kind \in TreeKinds : prog'[<<q, kind>>] = prog[<<q, kind>>]
    BY <1>1, <1>4, WarmPrograms
  <2> QED BY <1>2, <2>1, <2>2, <2>3
<1>5. ASSUME NEW kind \in TreeKinds, ListAllForTree(r, kind)
      PROVE  ReaderSound(q)' /\ WarmersWait(q)'
  <2> DEFINE S == {n \in OfKind(kind) : Lists(Live, Held[reader[r].ask.user], n)}
  <2>1. alone' = [alone EXCEPT ![<<r, kind>>] = S]
    BY <1>5, ListTurns
  <2>2. PICK rd \in ReaderState : Turns(r, rd)
    BY <1>5, ListTurns
  <2> HIDE DEF S
  <2>3. \A k \in TreeKinds : alone'[<<q, k>>] = alone[<<q, k>>]
    BY <1>1, <2>1 DEF TreeTypeOK
  <2>4. rows' = rows /\ prog' = prog /\ reader'[q] = reader[q]
    BY <2>2 DEF Turns, TreeTypeOK
  <2> QED BY <1>2, <2>3, <2>4
<1> QED BY <1>3, <1>4, <1>5

LEMMA ReadersStep ==
  ASSUME TreeInv, [TreeNext]_treeVars, NEW q \in Readers
  PROVE  ReaderSound(q)' /\ WarmersWait(q)'
<1>1. /\ TreeTypeOK /\ Programs /\ ProgramsFit
      /\ \A r \in Readers : ReaderSound(r) /\ WarmersWait(r)
  BY DEF TreeInv
<1>2. CASE UNCHANGED treeVars
  <2>1. UNCHANGED <<rows, prog, reader, alone>>
    BY <1>2 DEF treeVars
  <2> QED BY <1>1, <2>1, WaitStays DEF ReaderSound
<1>3. CASE Committing
  BY <1>1, <1>3, CommitKeepsReaders
<1>4. CASE Replacing \/ Writing
  BY <1>1, <1>4, RedisKeepsReaders
<1>5. ASSUME NEW r \in Readers,
             \/ Looks(r) \/ WarmTree(r) \/ \E kind \in TreeKinds : ListAllForTree(r, kind)
      PROVE  ReaderSound(q)' /\ WarmersWait(q)'
  <2>1. CASE q # r
    BY <1>1, <1>5, <2>1, OthersWait
  <2>2. CASE q = r
    <3>1. WarmersWait(r)'
      BY <1>1, <1>5, WaitTurns
    <3>2. ReaderSound(r)'
      BY <1>1, <1>5, GetTreeSound, ScanSound, ListSound, WarmSound, FilterSound, AnswerSound
         DEF Looks
    <3> QED BY <2>2, <3>1, <3>2
  <2> QED BY <2>1, <2>2
<1> QED BY <1>1, <1>2, <1>3, <1>4, <1>5, TreeStepKinds
-----------------------------------------------------------------------------
(* Theorems                                                                *)

LEMMA TreeInvInit == TreeInit => TreeInv
BY TreeTypeInit, ProgramsInit, TruthInit, ReadersInit DEF TreeInv

LEMMA TreeInvStep == TreeInv /\ [TreeNext]_treeVars => TreeInv'
<1> SUFFICES ASSUME TreeInv, [TreeNext]_treeVars
             PROVE  TreeInv'
  OBVIOUS
<1>1. /\ TreeTypeOK /\ Programs /\ ProgramsFit /\ LoneWritersLeaveTheTruth
      /\ \A r \in Readers : WarmersWait(r)
  BY DEF TreeInv
<1>2. TreeTypeOK'
  BY <1>1, TreeTypeStep
<1>3. Programs' /\ ProgramsFit'
  BY <1>1, ProgramsStep
<1>4. LoneWritersLeaveTheTruth'
  BY <1>1, TruthStep
<1>5. \A q \in Readers : ReaderSound(q)' /\ WarmersWait(q)'
  BY ReadersStep
<1> QED BY <1>2, <1>3, <1>4, <1>5 DEF TreeInv

\* The tree service, the handlers and the warm-ups keep to the types; what the
\* programs have still to write fits the tables and Redis, and what the requests
\* for the tree have gathered fits what their callers may see.
THEOREM TreeInvariant == TreeSpec => []TreeInv
<1> QED BY TreeInvInit, TreeInvStep, PTL DEF TreeSpec

\* No tree shows a resource that was gone before its request began, or that the
\* caller has no permission for, whatever the sets and hashes of Redis say (the
\* filters of GetTree).
THEOREM TreesShowReadable == TreeSpec => []TreeShowsReadableOnly
<1>1. TreeInv => TreeShowsReadableOnly
  <2> SUFFICES ASSUME TreeInv, NEW r \in Readers
               PROVE  reader[r].answer \cap
                        (reader[r].gone \cup Unpermitted(reader[r].ask.user)) = {}
    BY DEF TreeShowsReadableOnly, Unpermitted
  <2> QED BY DEF TreeInv, ReaderSound, Sound
<1> QED BY <1>1, TreeInvariant, PTL

\* A whole tree from the database has all that the caller could read all along,
\* but for folders in visible folders: the lists have everything the authorizer
\* lets through (ListAllXxxForTree), and buildTree loses nothing else.
THEOREM DatabaseTreesComplete == TreeSpec => []DatabaseTreeComplete
<1>1. TreeInv => DatabaseTreeComplete
  BY DEF TreeInv, ReaderSound, Sound, DatabaseTreeComplete, Whole
<1> QED BY <1>1, TreeInvariant, PTL

\* Who alone has touched a resource since its commit, or its list, leaves Redis
\* as the tables are (cacheUpsert, cacheInvalidateCascade, WarmTree).
THEOREM LoneTreeWritersAreRight == TreeSpec => []LoneWritersLeaveTheTruth
<1>1. TreeInv => LoneWritersLeaveTheTruth
  BY DEF TreeInv
<1> QED BY <1>1, TreeInvariant, PTL
=============================================================================
