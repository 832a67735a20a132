---------------------------- MODULE MCSecretCache ----------------------------
(***************************************************************************)
(* Two secrets in one folder, one of them not created yet, and requests    *)
(* that create, rename, comment and delete them, one of them twice in a    *)
(* batch.                                                                  *)
(***************************************************************************)
EXTENDS SecretCache, TLC

CONSTANTS c1, c2, w1, s1

TwoCalls == {c1, c2}
OneWarmer == {w1}
OneSearch == {s1}

MCIds == {"a", "x"}
MCFolders == {"F"}
MCFolderOf == [a |-> "F", x |-> "F"]
MCKeys == {"K1", "K2"}
MCValues == {"old", "new"}
MCComments == {"", "note"}

MCInitial == [a |-> [state |-> "live", key |-> "K1", value |-> "old",
                     comment |-> "", version |-> 1],
              x |-> Absent]

Set(i, key, value) == [id |-> i, key |-> key, value |-> value, comment |-> ""]
MCRequests ==
  {[op |-> "create", items |-> <<Set("x", "K2", "new")>>],
   [op |-> "update", items |-> <<Set("a", "K1", "old")>>],
   [op |-> "updateBatch", items |-> <<Set("a", "K1", "old"), Set("a", "K2", "new")>>],
   [op |-> "comment", key |-> "K1", comment |-> "note"],
   [op |-> "delete", id |-> "a"],
   [op |-> "deleteFolder", folder |-> "F"]}
OnlyA == {"a"}
=============================================================================
