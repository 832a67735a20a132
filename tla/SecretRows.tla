----------------------------- MODULE SecretRows -----------------------------
(***************************************************************************)
(* What the table of secrets promises to the rest of the program, whatever *)
(* requests run at once: it changes by whole requests, one at a time, no   *)
(* two active secrets of a folder have the same key, and a deleted secret  *)
(* never changes again.                                                    *)
(*                                                                         *)
(* SecretStore, which has transactions, locks and failures, implements     *)
(* this module; SecretCache, which has Redis beside the table, commits     *)
(* whole requests as this module lets it.                                  *)
(***************************************************************************)
EXTENDS SecretData

VARIABLE rows

Others(S) == \A i \in Ids \ S : rows'[i] = rows[i]

Create(r) ==
  /\ Creates(r)
  /\ \A n \in 1 .. Len(r.items) : /\ rows[r.items[n].id] = Absent
                                  /\ rows'[r.items[n].id] = RowOf(r.items[n], 1)
  /\ Others(IdsOf(r.items))

\* Of the items for one secret the last one stands.
Update(r) ==
  /\ Updates(r)
  /\ \A i \in IdsOf(r.items) :
       /\ Live(rows, i)
       /\ rows'[i].version > rows[i].version
       /\ \E n \in 1 .. Len(r.items) :
            /\ r.items[n].id = i
            /\ \A m \in n + 1 .. Len(r.items) : r.items[m].id # i
            /\ rows'[i] = RowOf(r.items[n], rows'[i].version)
  /\ Others(IdsOf(r.items))

\* The secrets that had the key when the request looked for them.
Comment(r) ==
  /\ r.op = "comment"
  /\ \E S \in SUBSET Ids :
       /\ \A i \in S : Live(rows, i) /\ rows'[i] = [rows[i] EXCEPT !.comment = r.comment]
       /\ Others(S)

Delete(S) ==
  /\ \A i \in S : Live(rows, i) /\ rows'[i] = Deleted(rows[i])
  /\ Others(S)
DeleteOne(r) == r.op = "delete" /\ Delete({r.id})
\* The secrets that were in the folder when the request looked for them.
DeleteFolder(r) ==
  /\ r.op = "deleteFolder"
  /\ \E S \in SUBSET {i \in Ids : FolderOf[i] = r.folder} : Delete(S)

Init == rows = Initial

Next ==
  /\ rows' \in Tables /\ Unique(rows')
  /\ \E r \in Requests : Create(r) \/ Update(r) \/ Comment(r) \/ DeleteOne(r) \/ DeleteFolder(r)

Spec == Init /\ [][Next]_rows
=============================================================================
