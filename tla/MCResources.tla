---------------------------- MODULE MCResources ----------------------------
(***************************************************************************)
(* Small trees for Resources.  A tree is given by the parent of each node; *)
(* an organization has itself.                                             *)
(***************************************************************************)
EXTENDS Resources, TLC

CONSTANTS c1, c2

OneCall == {c1}
TwoCalls == {c1, c2}

\* One branch, all six kinds.
Up == [org |-> "org", proj |-> "org", dev |-> "proj", top |-> "dev",
       sub |-> "top", key |-> "top"]
TreeKind == [org |-> "org", proj |-> "project", dev |-> "env",
             top |-> "folder", sub |-> "subfolder", key |-> "secret"]

Branch == DOMAIN Up
BranchKind == TreeKind
BranchChain ==
  [n \in Branch |-> {n, Up[n], Up[Up[n]], Up[Up[Up[n]]], Up[Up[Up[Up[n]]]]}]

\* Requests make it grow from the organization, or it is there up to the secret.
OrgRows == {"org"}
OrgBatches == {{"proj", "dev"}, {"top"}, {"sub"}, {"key"}}
FolderRows == Branch \ {"key"}
SecretBatches == {{"key"}}

Symmetry == Permutations(Calls)
=============================================================================
