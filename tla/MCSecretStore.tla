---------------------------- MODULE MCSecretStore ----------------------------
(***************************************************************************)
(* Two folders.  In the first, two secrets and one to come whose key they  *)
(* may take; in the second, one with the key of the first.                 *)
(***************************************************************************)
EXTENDS SecretStore, TLC

CONSTANTS c1, c2

TwoCalls == {c1, c2}

MCIds == {"a", "b", "x", "y", "z", "w"}
MCFolders == {"F", "G"}
MCFolderOf == [a |-> "F", b |-> "F", x |-> "F", y |-> "G",
               z |-> "F", w |-> "G"]
MCKeys == {"K1", "K2", "K3"}
MCValues == {"old", "new"}
MCComments == {"", "note"}

Old(key) == [state |-> "live", key |-> key, value |-> "old", comment |-> "",
             version |-> 1]
MCInitial == [a |-> Old("K1"), b |-> Old("K2"), x |-> Absent, y |-> Old("K1"),
              z |-> Absent, w |-> Absent]

Set(i, key) == [id |-> i, key |-> key, value |-> "new", comment |-> ""]

\* Batches that lock the same secrets in either order, exchange keys, and
\* repeat a secret.
MCRequests ==
  {[op |-> "create", items |-> <<Set("x", "K3")>>],
   [op |-> "createBatch", items |-> <<Set("z", "K3"), Set("w", "K2")>>],
   [op |-> "createBatch", items |-> << >>],
   [op |-> "update", items |-> <<Set("b", "K3")>>],
   [op |-> "updateBatch", items |-> << >>],
   [op |-> "updateBatch", items |-> <<Set("a", "K3"), Set("b", "K1")>>],
   [op |-> "updateBatch", items |-> <<Set("b", "K2"), Set("a", "K1"), Set("b", "K3")>>],
   [op |-> "updateByIds", items |-> <<Set("y", "K3"), Set("a", "K3")>>],
   [op |-> "updateByIds", items |-> <<Set("a", "K3"), Set("a", "K1")>>],
   [op |-> "comment", key |-> "K1", comment |-> "note"],
   [op |-> "delete", id |-> "a"],
   [op |-> "deleteFolder", folder |-> "F"],
   [op |-> "reveal", id |-> "a"],
   [op |-> "revealByPath", folder |-> "F", key |-> "K1"]}
=============================================================================
