----------------------------- MODULE MCListings -----------------------------
\* A project with two environments; a folder of code 1 in each, and below the
\* first one another folder of code 1.  Secrets with the same keys in all of
\* them, and one that comes before the others.
EXTENDS Listings

MCUp == [o |-> "o", p |-> "o", e1 |-> "p", e2 |-> "p", f |-> "e1", g |-> "e2",
         ff |-> "f", s1 |-> "f", s2 |-> "f", s0 |-> "f", t1 |-> "ff", u1 |-> "g"]
MCNodes == DOMAIN MCUp
MCKind == [n \in MCNodes |->
  CASE n = "o" -> "org" [] n = "p" -> "project" [] n \in {"e1", "e2"} -> "env"
    [] n \in {"f", "g", "ff"} -> "folder" [] OTHER -> "secret"]
MCCode == [e1 |-> 1, e2 |-> 2, f |-> 1, g |-> 1, ff |-> 1]
MCKey == [s0 |-> 1, s1 |-> 2, s2 |-> 3, t1 |-> 2, u1 |-> 2]

P(resource, action, scope) == [resource |-> resource, action |-> action, scope |-> scope]
MCHeld == {P("secret", "list", "p"), P("secret", "search", "f"), P("secret", "reveal", "f"),
           P("secret", "read", "f"), P("secret", "read", "u1"), P("secret", "search", "u1"),
           P("folder", "read", "f"), P("folder", "read", "e2")}
MCGrants == {P("secret", "list", "p"), P("secret", "search", "u1"), P("secret", "reveal", "f"),
             P("secret", "read", Global), P("folder", "read", "f"), P("folder", "read", "ff"),
             P("folder", "read", "e2"), P("project", "read", "p")}

Q(op, folder, env, keys, code, size) ==
  [op |-> op, folder |-> folder, env |-> env, project |-> "p", envs |-> {"e1", "e2"},
   keys |-> keys, code |-> code, size |-> size]
MCQueries ==
  {Q("list", "f", NoNode, {}, NoCode, 1), Q("list", "f", "e2", {}, NoCode, 2),
   Q("list", NoNode, "e1", {}, NoCode, 0),
   Q("search", "f", NoNode, {}, NoCode, 5), Q("search", NoNode, "e1", {}, NoCode, 2),
   Q("group", NoNode, NoNode, {}, NoCode, 9),
   Q("path", NoNode, "e1", {2, 3}, 1, 0), Q("path", NoNode, "e1", {}, 1, 0),
   Q("code", NoNode, "e1", {}, 1, 0),
   Q("across", NoNode, NoNode, {}, NoCode, 0), Q("across", NoNode, NoNode, {2}, 1, 0),
   Q("folders", NoNode, NoNode, {}, NoCode, 0)}
=============================================================================
