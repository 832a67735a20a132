----------------------------- MODULE MCTreeCache -----------------------------
\* One organization with a project of one environment, a folder in it and a
\* folder in that, called before it; another organization, a second project
\* with its environment, another environment and a folder may be created.
EXTENDS TreeCache

MCNodes == {"o1", "p1", "e1", "f1", "f2", "o2", "p2", "e2", "e3", "f3"}
MCKind == [n \in MCNodes |->
  CASE n \in {"o1", "o2"} -> "org" [] n \in {"p1", "p2"} -> "project"
    [] n \in {"e1", "e2", "e3"} -> "env" [] OTHER -> "folder"]
MCUp == [o1 |-> "o1", p1 |-> "o1", e1 |-> "p1", f1 |-> "e1", f2 |-> "f1",
         o2 |-> "o2", p2 |-> "o1", e2 |-> "p2", e3 |-> "p1", f3 |-> "e1"]

\* Somebody who reads everything; somebody who reads environments and folders
\* of the project; somebody who reads one folder.
At1(kinds, scope) ==
  [resource : kinds, action : {"read"}, scope : {scope}]
MCHeld == [all |-> At1(TreeKinds, Global), dev |-> At1({"env", "folder"}, "p1"),
           one |-> At1({"folder"}, "f1")]
Ask(u, d, o) == [user |-> u, depth |-> d, orphans |-> o]
L(name) == [state |-> "live", name |-> name]
MCInitial == [n \in MCNodes |->
  CASE n \in {"o1", "p1", "e1", "f2"} -> L(1) [] n = "f1" -> L(2) [] OTHER -> Absent]

Create(nodes) == [op |-> "create", nodes |-> nodes, name |-> 1]
Update(n) == [op |-> "update", node |-> n, name |-> 2]
Delete(n, force) == [op |-> "delete", node |-> n, force |-> force]
MCRequests ==
  {Create(<<"o2">>), Create(<<"p2", "e2">>), Create(<<"e3">>), Create(<<"f3">>),
   Update("o1"), Update("p1"), Update("e1"), Update("f2"),
   [op |-> "batch", nodes |-> <<"f1", "f2">>, name |-> 1],
   Delete("o1", TRUE), Delete("o1", FALSE), Delete("p1", FALSE), Delete("e1", FALSE), Delete("f1", FALSE)}
Scenario(requests, count, ask, filled, failing) ==
  [requests |-> requests, count |-> count, asked |-> ask.user # "nobody",
   ask |-> IF ask.user = "nobody" THEN Ask("all", 0, TRUE) ELSE ask,
   filled |-> filled, faults |-> failing]

\* Any two requests; any one with a tree from Redis; some with one from the
\* database.
MCScenarios ==
  {Scenario(MCRequests, 2, Ask("nobody", 0, FALSE), filled, 1) : filled \in BOOLEAN}
    \cup {Scenario(MCRequests, 1, ask, TRUE, 0) :
            ask \in {Ask("all", 0, TRUE), Ask("dev", 3, FALSE)}}
    \cup {Scenario({Update("f2")}, 1, Ask("dev", 4, TRUE), TRUE, 1),
          Scenario({Delete("f1", FALSE)}, 1, Ask("all", 0, TRUE), FALSE, 0),
          Scenario({Update("f2")}, 1, Ask("one", 5, TRUE), FALSE, 0),
          Scenario({Create(<<"p2", "e2">>)}, 1, Ask("dev", 2, TRUE), FALSE, 0),
          Scenario({Delete("e1", FALSE)}, 1, Ask("dev", 4, TRUE), FALSE, 0)}
Renamed == {Scenario({Update("f2")}, 1, Ask("all", 0, TRUE), FALSE, 0)}
=============================================================================
