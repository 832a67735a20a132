---------------------------- MODULE TreeAssembly ----------------------------
(***************************************************************************)
(* The tree of resources that TreeService answers with, as an operator on  *)
(* the visible resources.  The code keeps a node per resource and appends  *)
(* a COPY of it to its parent's children: what a node has at that moment   *)
(* is in the tree, what it gets later is not.  Here sub[n] is the set of   *)
(* resources in the subtree that node n has so far.                        *)
(***************************************************************************)
EXTENDS Visibility, SequencesExt

TreeKinds == {"org", "project", "env", "folder"}
VisibleOf(visible, kind) == visible \cap OfKind(kind)

\* A request: a depth from 1 to 4; anything else means 4.
MaxDepth(d) == IF d <= 0 \/ d > 4 THEN 4 ELSE d

\* A folder has its environment's id, and its parent's on level 2.
parentIdForNode(n) == Up[n]
Orphan(visible, n) == Kind[n] # "org" /\ parentIdForNode(n) \notin visible

Attach(sub, n) ==
  IF parentIdForNode(n) \in DOMAIN sub
    THEN [sub EXCEPT ![parentIdForNode(n)] = @ \cup sub[n]] ELSE sub

\* Folders in the order of their list, then environments, then projects.
Downwards(visible, folders) ==
  SetToSeq(VisibleOf(visible, "project")) \o SetToSeq(VisibleOf(visible, "env")) \o folders
ByLevel(visible, folders) ==
  folders \o SetToSeq(VisibleOf(visible, "env")) \o SetToSeq(VisibleOf(visible, "project"))

\* One node after the other is copied to its parent.
Assembled(sub, nodes) ==
  LET upTo[k \in 0 .. Len(nodes)] ==
        IF k = 0 THEN sub ELSE Attach(upTo[k - 1], nodes[k])
  IN  upTo[Len(nodes)]
buildTree(visible, folders) ==
  Assembled([n \in visible |-> {n}], ByLevel(visible, folders))

\* The organizations are the roots; the orphans hang from one more, if wanted.
derefOrphans(visible, sub) == UNION {sub[n] : n \in {m \in visible : Orphan(visible, m)}}
Roots(visible, sub, includeOrphans) ==
  (UNION {sub[n] : n \in VisibleOf(visible, "org")})
    \cup (IF includeOrphans THEN derefOrphans(visible, sub) ELSE {})

\* How deep a resource is: its way up as far as it is visible, below the
\* orphans' root if that does not end at an organization.
Way(visible, n) == {m \in Chain(n) : (Chain(n) \ Chain(m)) \cup {m} \subseteq visible}
TreeDepth(visible, n) ==
  Cardinality(Way(visible, n)) + (IF Way(visible, n) \cap OfKind("org") = {} THEN 1 ELSE 0)
truncateChildren(visible, nodes, maxDepth) ==
  {n \in nodes : TreeDepth(visible, n) <= maxDepth}
applyMaxDepth(visible, nodes, maxDepth) ==
  IF maxDepth >= 4 THEN nodes ELSE truncateChildren(visible, nodes, maxDepth)

\* The resources in the answer.
Tree(visible, folders, includeOrphans, maxDepth) ==
  applyMaxDepth(visible, Roots(visible, buildTree(visible, folders), includeOrphans),
                MaxDepth(maxDepth))

\* Resources of every level, the upper levels first.
TopDown(S) ==
  SetToSeq(VisibleOf(S, "org")) \o SetToSeq(VisibleOf(S, "project"))
    \o SetToSeq(VisibleOf(S, "env")) \o SetToSeq(VisibleOf(S, "folder"))

\* The lists from the database are sorted by name, the ones from Redis are not.
Listed(S, names, sorted) ==
  {s \in SetToSeqs(S) :
     sorted => \A i, j \in DOMAIN s : i < j => names[s[i]] <= names[s[j]]}
=============================================================================
