----------------------------- MODULE SecretData -----------------------------
(***************************************************************************)
(* The table of secrets and the requests that change it: the data that the *)
(* modules about secrets share.  A value is a model value: what is stored  *)
(* is its ciphertext, and decryption is the inverse of encryption.         *)
(***************************************************************************)
EXTENDS Integers, Sequences, FiniteSets

CONSTANTS Ids,      \* ids of secrets
          Folders,  \* folders they may be in
          FolderOf, \* the folder of each secret
          Keys, Values, Comments,
          Initial,  \* the rows at the start
          Requests  \* the requests there are

Absent == [state |-> "absent"]
Secret == [state : {"live", "deleted"}, key : Keys, value : Values,
           comment : Comments, version : Nat]
Tables == [Ids -> Secret \cup {Absent}]

Live(table, i) == table[i].state = "live"
Erased(row) == [row EXCEPT !.state = "absent"]
Deleted(row) == [row EXCEPT !.state = "deleted"]
Siblings(i, j) == i # j /\ FolderOf[i] = FolderOf[j]

\* The unique index on (folder_id, key) where is_deleted = false.
Unique(table) ==
  \A i, j \in Ids :
    Siblings(i, j) /\ Live(table, i) /\ Live(table, j) => table[i].key # table[j].key

Item == [id : Ids, key : Keys, value : Values, comment : Comments]
Request ==
  [op : {"create", "createBatch", "update", "updateBatch", "updateByIds"},
   items : Seq(Item)]
    \cup [op : {"comment"}, key : Keys, comment : Comments]
    \cup [op : {"delete", "reveal"}, id : Ids]
    \cup [op : {"revealByPath"}, folder : Folders, key : Keys]
    \cup [op : {"deleteFolder"}, folder : Folders]

IdsOf(items) == {items[n].id : n \in 1 .. Len(items)}
Creates(r) == r.op \in {"create", "createBatch"}
Updates(r) == r.op \in {"update", "updateBatch", "updateByIds"}

\* The row an item of a request makes.
RowOf(item, version) ==
  [state |-> "live", key |-> item.key, value |-> item.value,
   comment |-> item.comment, version |-> version]

\* The rows of a statement in the order it meets them, whichever that is.
Orders(S) ==
  {order \in [1 .. Cardinality(S) -> S] : \A i \in S : \E n \in DOMAIN order : order[n] = i}

ASSUME SecretDataAssumption ==
         /\ IsFiniteSet(Ids)
         /\ FolderOf \in [Ids -> Folders]
         /\ Initial \in Tables
         /\ Unique(Initial)
         /\ \A i \in Ids : Initial[i] # Absent => Initial[i].version = 1
         /\ Requests \subseteq Request
         /\ \A r \in Requests : r.op \in {"create", "update"} => Len(r.items) = 1
         /\ \A r \in Requests : Creates(r) => \* new ids are fresh UUIDs
              /\ \A m, n \in 1 .. Len(r.items) :
                   r.items[m].id = r.items[n].id => m = n
              /\ \A i \in IdsOf(r.items) :
                   /\ Initial[i] = Absent
                   /\ \A q \in Requests \ {r} : Creates(q) => i \notin IdsOf(q.items)
=============================================================================
