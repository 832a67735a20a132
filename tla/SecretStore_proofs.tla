------------------------- MODULE SecretStore_proofs -------------------------
(***************************************************************************)
(* Proofs about SecretStore, for any secrets, folders, requests and number *)
(* of handlers: the types, the unique keys, the versions, the snapshots,   *)
(* the audited reveals, and that the table changes as SecretRows says.     *)
(***************************************************************************)
EXTENDS SecretStore, FiniteSetTheorems, TLAPS

-----------------------------------------------------------------------------
(* The inductive invariant *)

Items(c) == req[c].items
HasItems(r) == Creates(r) \/ Updates(r)
Writes(r) == HasItems(r) \/ r.op \in {"comment", "delete", "deleteFolder"}

\* How many items of its request c's transaction has written.
Done(c) == Len(Items(c)) - Len(todo[c])

\* What is still to do is the rest of what was asked for.
Progress(c) ==
  HasItems(req[c]) =>
    /\ Len(todo[c]) <= Len(Items(c))
    /\ \A n \in 1 .. Len(todo[c]) : todo[c][n] = Items(c)[n + Done(c)]
    /\ pc[c] \in {"check", "row", "key"} => todo[c] # << >>
    /\ pc[c] = "commit" => todo[c] = << >>

\* Where each kind of request can be, and what it has to do there.
Shape(c) ==
  /\ pc[c] = "idle" => req[c] = NoRequest
  /\ pc[c] \in {"row", "commit"} => Writes(req[c])
  /\ pc[c] = "audit" => req[c].op = "reveal"
  /\ Creates(req[c]) => pc[c] \in {"key", "commit"}
  /\ pc[c] = "key" => Creates(req[c]) \/ (Updates(req[c]) /\ Target(c) \in held[c])
  /\ pc[c] = "row" => todo[c] # << >>
  /\ Writes(req[c]) => req[c] \in Requests
  /\ req[c].op \in {"delete", "reveal"} /\ pc[c] \in {"check", "find", "row"} =>
       todo[c] = <<[id |-> req[c].id]>>
  /\ req[c].op = "deleteFolder" =>
       \A n \in 1 .. Len(todo[c]) : FolderOf[todo[c][n].id] = req[c].folder
  /\ pc[c] \notin {"row", "key", "commit"} => held[c] = {}
  /\ \A i \in held[c] : draft[c][i] \in Secret

\* The ids of a creation that is to come or at work belong to it alone.
Reserved(r) ==
  \A i \in IdsOf(r.items) :
    rows[i] = Absent /\ \A d \in Calls : i \in held[d] => req[d] = r
Fresh ==
  /\ \A r \in pending : Creates(r) => Reserved(r)
  /\ \A c \in Calls : Creates(req[c]) =>
       /\ Reserved(req[c])
       /\ req[c] \notin pending
       /\ \A d \in Calls : req[d] = req[c] => d = c

Exclusive == \A c, d \in Calls : \A i \in held[c] : i \in held[d] => c = d

\* A row that a transaction holds is not there yet, if it creates it, or is
\* active; its version counts the audit rows, this transaction's included.
HeldSound(c) ==
  /\ \A i \in held[c] :
       /\ draft[c][i].version = 1 + updates[i] + logged[c][i]
       /\ IF Creates(req[c]) THEN i \in IdsOf(Items(c)) /\ rows[i] = Absent
                             ELSE Live(rows, i)
  /\ \A i \in Ids \ held[c] : logged[c][i] = 0
  /\ Creates(req[c]) => \A i \in Ids : logged[c][i] = 0

\* A row that is not there has no updates.
Counted ==
  \A i \in Ids : IF rows[i] = Absent THEN updates[i] = 0
                                     ELSE rows[i].version = 1 + updates[i]

\* No transaction sees a key twice, and no two give one key to two rows.
Apart(c, d) ==
  \A i \in held[c], j \in held[d] :
    Siblings(i, j) /\ Live(draft[c], i) /\ Live(draft[d], j) =>
      draft[c][i].key # draft[d][j].key
KeysApart ==
  /\ Unique(rows)
  /\ \A c \in Calls : Unique(View(c))
  /\ \A c, d \in Calls : c # d => Apart(c, d)

\* The snapshot a deletion has read is of a version the secret has had.
SeenSound(c) ==
  req[c].op = "delete" /\ pc[c] \in {"row", "commit"} =>
    /\ rows[req[c].id] # Absent
    /\ seen[c] <= rows[req[c].id].version
    /\ held[c] \subseteq {req[c].id}
    /\ pc[c] = "commit" => held[c] = {req[c].id}
    /\ \A i \in held[c] : draft[c][i].state = "deleted"

\* The rows c's transaction has written are those the request asks for.
CreatesWritten(c) ==
  Creates(req[c]) =>
    \A m \in 1 .. Done(c) : /\ Items(c)[m].id \in held[c]
                            /\ draft[c][Items(c)[m].id] = RowOf(Items(c)[m], 1)
LastUpTo(items, n, last) ==
  \A m \in n + 1 .. last : items[m].id # items[n].id
UpdatesWritten(c) ==
  Updates(req[c]) =>
    /\ held[c] \subseteq IdsOf(Items(c))
    /\ \A m \in 1 .. Done(c) :
         /\ Items(c)[m].id \in held[c]
         /\ logged[c][Items(c)[m].id] > 0
         /\ \E n \in 1 .. Done(c) :
              /\ Items(c)[n].id = Items(c)[m].id
              /\ LastUpTo(Items(c), n, Done(c))
              /\ draft[c][Items(c)[m].id] =
                   RowOf(Items(c)[n], draft[c][Items(c)[m].id].version)
OthersWritten(c) ==
  \A i \in held[c] :
    /\ req[c].op = "comment" => draft[c][i] = [rows[i] EXCEPT !.comment = req[c].comment]
    /\ req[c].op \in {"delete", "deleteFolder"} => draft[c][i] = Deleted(rows[i])
    /\ req[c].op = "deleteFolder" => FolderOf[i] = req[c].folder

Structured == TypeOK /\ \A c \in Calls : Progress(c) /\ Shape(c)
Owned ==
  /\ Structured
  /\ Fresh
  /\ Exclusive
  /\ Counted
  /\ \A c \in Calls : HeldSound(c)

-----------------------------------------------------------------------------
(* Type correctness *)

\* The fields of each kind of request.
LEMMA RequestFields ==
  ASSUME NEW r \in Request
  PROVE  /\ HasItems(r) => r.items \in Seq(Item)
         /\ r.op \in {"delete", "reveal"} => r.id \in Ids
         /\ r.op = "comment" => r.comment \in Comments
  BY DEF Request, HasItems, Creates, Updates

\* A request is one, or there is none and it has no operation.
LEMMA ReqTyped ==
  ASSUME TypeOK, NEW c \in Calls, req[c].op # "none"
  PROVE  req[c] \in Request
  BY DEF TypeOK, NoRequest

\* The statements to come name secrets.
LEMMA TodoIds ==
  ASSUME TypeOK, NEW c \in Calls
  PROVE  /\ \A n \in 1 .. Len(todo[c]) : todo[c][n].id \in Ids
         /\ todo[c] # << >> => Target(c) \in Ids
<1>1. todo[c] \in Seq(Item \cup [id : Ids])
  BY DEF TypeOK
<1>2. \A x \in Item \cup [id : Ids] : x.id \in Ids
  BY DEF Item
<1>3. \A n \in 1 .. Len(todo[c]) : todo[c][n].id \in Ids
  BY <1>1, <1>2
<1>4. ASSUME todo[c] # << >>
      PROVE  Target(c) \in Ids
  BY <1>1, <1>2, <1>4 DEF Target
<1> QED BY <1>3, <1>4

\* The table as a transaction sees it is a table.
LEMMA ViewTyped ==
  ASSUME TypeOK, NEW c \in Calls
  PROVE  View(c) \in Tables
  BY DEF TypeOK, View, Tables

\* A row an item makes is a secret.
LEMMA RowTyped ==
  ASSUME NEW item \in Item, NEW version \in Nat
  PROVE  /\ RowOf(item, version) \in Secret
         /\ RowOf(item, version).state = "live"
         /\ RowOf(item, version).key = item.key
         /\ RowOf(item, version).version = version
  BY DEF RowOf, Item, Secret

\* A live row, changed or deleted, is a secret.
LEMMA LiveRow ==
  ASSUME NEW table \in Tables, NEW i \in Ids, Live(table, i)
  PROVE  /\ table[i] \in Secret
         /\ Deleted(table[i]) \in Secret
         /\ Deleted(table[i]).version = table[i].version
         /\ Deleted(table[i]).state = "deleted"
         /\ \A text \in Comments : [table[i] EXCEPT !.comment = text] \in Secret
<1>1. table[i] \in Secret
  BY DEF Tables, Live, Absent
<1> QED BY <1>1 DEF Secret, Deleted

\* A handler that ends keeps the types.
LEMMA FinishTyped ==
  ASSUME TypeOK, NEW c \in Calls, Finish(c)
  PROVE  /\ pc' \in [Calls -> Pcs]
         /\ req' \in [Calls -> Request \cup {NoRequest}]
         /\ todo' \in [Calls -> Seq(Item \cup [id : Ids])]
         /\ held' \in [Calls -> SUBSET Ids]
         /\ draft' \in [Calls -> Tables]
         /\ logged' \in [Calls -> [Ids -> Nat]]
         /\ seen' \in [Calls -> Nat]
         /\ pending' \subseteq Requests
<1>1. << >> \in Seq(Item \cup [id : Ids])
  OBVIOUS
<1>2. Zero \in [Ids -> Nat]
  BY DEF Zero
<1>3. Initial \in Tables
  BY SecretDataAssumption
<1> QED BY <1>1, <1>2, <1>3 DEF TypeOK, Finish, Pcs

\* A rollback keeps the types.
LEMMA RollbackTyped ==
  ASSUME TypeOK, NEW c \in Calls, Rollback(c)
  PROVE  TypeOK'
<1>1. Finish(c) /\ UNCHANGED <<tables, errors>>
  BY DEF Rollback
<1> QED BY <1>1, FinishTyped DEF TypeOK, tables

\* A request that begins keeps the types.
LEMMA BeginTyped ==
  ASSUME TypeOK, NEW c \in Calls, NEW r \in pending, NEW at \in Pcs,
         NEW items \in Seq(Item \cup [id : Ids]), Begin(c, r, at, items)
  PROVE  TypeOK'
<1>1. r \in Request
  BY SecretDataAssumption DEF TypeOK
<1> QED BY <1>1 DEF Begin, Submit, TypeOK, tables

\* A row that is written keeps the types.
LEMMA WriteTyped ==
  ASSUME TypeOK, NEW c \in Calls, NEW i \in Ids, NEW row \in Secret, Write(c, i, row)
  PROVE  /\ held' \in [Calls -> SUBSET Ids]
         /\ draft' \in [Calls -> Tables]
<1>1. held' \in [Calls -> SUBSET Ids]
  BY DEF Write, TypeOK
<1>2. draft[c] \in Tables
  BY DEF TypeOK
<1>3. [draft[c] EXCEPT ![i] = row] \in Tables
  BY <1>2 DEF Tables
<1>4. draft' = [draft EXCEPT ![c] = [draft[c] EXCEPT ![i] = row]]
  BY DEF Write, TypeOK
<1>5. draft' \in [Calls -> Tables]
  BY <1>3, <1>4 DEF TypeOK
<1> QED BY <1>1, <1>5

\* After a statement the rest of the transaction is still one.
LEMMA StepTyped ==
  ASSUME TypeOK, NEW c \in Calls, todo[c] # << >>, Step(c)
  PROVE  /\ todo' \in [Calls -> Seq(Item \cup [id : Ids])]
         /\ pc' \in [Calls -> Pcs]
         /\ UNCHANGED <<rows, updates, trash, reveals, answered, pending, errors, req>>
<1>1. todo[c] \in Seq(Item \cup [id : Ids])
  BY DEF TypeOK
<1>2. Tail(todo[c]) \in Seq(Item \cup [id : Ids])
  BY <1>1
<1>3. todo' = [todo EXCEPT ![c] = Tail(todo[c])]
  BY DEF Step, TypeOK
<1>4. todo' \in [Calls -> Seq(Item \cup [id : Ids])]
  BY <1>2, <1>3 DEF TypeOK
<1>5. pc' \in [Calls -> Pcs]
  BY DEF Step, TypeOK, Pcs
<1> QED BY <1>4, <1>5 DEF Step, tables

\* The statements for the rows of S, in any order, name them and no others.
LEMMA OrderTyped ==
  ASSUME NEW S \in SUBSET Ids, NEW order \in Orders(S)
  PROVE  LET plan == [n \in DOMAIN order |-> [id |-> order[n]]]
         IN  /\ plan \in Seq(Item \cup [id : Ids])
             /\ Len(plan) = Cardinality(S) /\ Cardinality(S) \in Nat
             /\ \A n \in 1 .. Len(plan) : plan[n].id \in S
             /\ S # {} => plan # << >>
<1> DEFINE plan == [n \in DOMAIN order |-> [id |-> order[n]]]
<1>1. Cardinality(S) \in Nat
  BY SecretDataAssumption, FS_Subset, FS_CardinalityType
<1>2. order \in [1 .. Cardinality(S) -> S] /\ \A i \in S : \E n \in DOMAIN order : order[n] = i
  BY DEF Orders
<1>3. \A n \in 1 .. Cardinality(S) : [id |-> order[n]] \in Item \cup [id : Ids]
  BY <1>2
<1>4. plan = [n \in 1 .. Cardinality(S) |-> [id |-> order[n]]]
  BY <1>2
<1>5. plan \in [1 .. Cardinality(S) -> Item \cup [id : Ids]]
  BY <1>3, <1>4
<1>6. plan \in Seq(Item \cup [id : Ids])
  BY <1>1, <1>5
<1>7. Len(plan) = Cardinality(S)
  BY <1>1, <1>5, <1>6
<1>8. \A n \in 1 .. Len(plan) : plan[n].id \in S
  BY <1>2, <1>4, <1>7
<1>9. S # {} => Cardinality(S) # 0
  BY <1>2
<1>10. S # {} => plan # << >>
  BY <1>7, <1>9
<1> QED BY <1>1, <1>6, <1>7, <1>8, <1>10

\* A plan keeps the types.
LEMMA PlanTyped ==
  ASSUME TypeOK, NEW c \in Calls, NEW S \in SUBSET Ids, NEW to \in Pcs, Plan(c, S, to)
  PROVE  TypeOK'
<1>1. PICK order \in Orders(S) :
        todo' = [todo EXCEPT ![c] = [n \in DOMAIN order |-> [id |-> order[n]]]]
  BY DEF Plan
<1> DEFINE plan == [n \in DOMAIN order |-> [id |-> order[n]]]
<1>2. plan \in Seq(Item \cup [id : Ids])
  BY OrderTyped
<1> HIDE DEF plan
<1>3. todo' \in [Calls -> Seq(Item \cup [id : Ids])]
  BY <1>1, <1>2 DEF TypeOK, plan
<1> QED BY <1>3 DEF Plan, TypeOK, tables

\* At an item's turn the statement is that item.
LEMMA HeadItem ==
  ASSUME Structured, NEW c \in Calls, HasItems(req[c]), todo[c] # << >>
  PROVE  /\ Items(c) \in Seq(Item)
         /\ Done(c) \in Nat
         /\ Done(c) + 1 \in 1 .. Len(Items(c))
         /\ Head(todo[c]) = Items(c)[Done(c) + 1]
         /\ Head(todo[c]) \in Item
<1>1. req[c].op # "none"
  BY DEF HasItems, Creates, Updates
<1>2. Items(c) \in Seq(Item)
  BY <1>1, ReqTyped, RequestFields DEF Structured, Items
<1>3. todo[c] \in Seq(Item \cup [id : Ids])
  BY DEF Structured, TypeOK
<1>4. Progress(c)
  BY DEF Structured
<1>5. Len(Items(c)) \in Nat /\ Len(todo[c]) \in Nat /\ Len(todo[c]) > 0
  BY <1>2, <1>3
<1>6. Len(todo[c]) <= Len(Items(c))
  BY <1>4 DEF Progress
<1>7. Done(c) \in Nat /\ Done(c) + 1 \in 1 .. Len(Items(c))
  BY <1>5, <1>6 DEF Done
<1>8. todo[c][1] = Items(c)[1 + Done(c)]
  BY <1>4, <1>5 DEF Progress
<1>9. Head(todo[c]) = todo[c][1]
  BY <1>3, <1>5
<1>10. Items(c)[Done(c) + 1] \in Item
  BY <1>2, <1>7
<1> QED BY <1>2, <1>7, <1>8, <1>9, <1>10

\* The audit row of an update keeps the type of the counts.
LEMMA LogTyped ==
  ASSUME TypeOK, NEW c \in Calls, NEW i \in Ids,
         logged' = [logged EXCEPT ![c][i] = @ + 1]
  PROVE  logged' \in [Calls -> [Ids -> Nat]]
<1>1. logged[c] \in [Ids -> Nat] /\ logged[c][i] + 1 \in Nat
  BY DEF TypeOK
<1>2. [logged[c] EXCEPT ![i] = logged[c][i] + 1] \in [Ids -> Nat]
  BY <1>1
<1>3. logged' = [logged EXCEPT ![c] = [logged[c] EXCEPT ![i] = logged[c][i] + 1]]
  BY DEF TypeOK
<1> QED BY <1>2, <1>3 DEF TypeOK

\* The start of each request keeps the types.
LEMMA StartTyped ==
  ASSUME TypeOK, NEW c \in Calls, NEW r \in pending, Start(c, r)
  PROVE  TypeOK'
<1>1. r \in Request
  BY SecretDataAssumption DEF TypeOK
<1>2. CASE Refuse(c, r)
  BY <1>2 DEF Refuse, Submit, TypeOK, tables
<1>3. ASSUME HasItems(r), NEW at \in {"key", "check"}, Begin(c, r, at, r.items)
      PROVE  TypeOK'
  <2>1. r.items \in Seq(Item)
    BY <1>1, <1>3, RequestFields
  <2>2. r.items \in Seq(Item \cup [id : Ids])
    BY <2>1
  <2> QED BY <1>3, <2>2, BeginTyped DEF Pcs
<1>4. ASSUME r.op \in {"delete", "reveal"}, Begin(c, r, "check", <<[id |-> r.id]>>)
      PROVE  TypeOK'
  <2>1. r.id \in Ids
    BY <1>1, <1>4, RequestFields
  <2>2. <<[id |-> r.id]>> \in Seq(Item \cup [id : Ids])
    BY <2>1
  <2> QED BY <1>4, <2>2, BeginTyped DEF Pcs
<1>5. ASSUME NEW at \in {"check", "find"}, Begin(c, r, at, << >>)
      PROVE  TypeOK'
  <2>1. << >> \in Seq(Item \cup [id : Ids])
    OBVIOUS
  <2> QED BY <1>5, <2>1, BeginTyped DEF Pcs
<1> QED
  BY <1>2, <1>3, <1>4, <1>5
     DEF Start, Create, BatchCreate, Update, BatchUpdate, BatchUpdateByIDs,
         CommentByKey, Delete, DeleteFolder, Reveal, RevealByPath,
         HasItems, Creates, Updates

\* A read that lets the handler go on or ends it keeps the types.
LEMMA CheckTyped ==
  ASSUME TypeOK, NEW c \in Calls, NEW condition, NEW to \in Pcs,
         Check(c, condition, to)
  PROVE  TypeOK'
<1>1. CASE condition
  BY <1>1 DEF Check, TypeOK, tables
<1>2. CASE ~ condition
  BY <1>2, RollbackTyped DEF Check
<1> QED BY <1>1, <1>2

\* A statement that writes a row and goes on keeps the types.
LEMMA WriteStepTyped ==
  ASSUME TypeOK, NEW c \in Calls, NEW i \in Ids, NEW row \in Secret,
         todo[c] # << >>, Write(c, i, row), Step(c),
         logged' \in [Calls -> [Ids -> Nat]], UNCHANGED seen
  PROVE  TypeOK'
<1>1. held' \in [Calls -> SUBSET Ids] /\ draft' \in [Calls -> Tables]
  BY WriteTyped
<1>2. /\ todo' \in [Calls -> Seq(Item \cup [id : Ids])]
      /\ pc' \in [Calls -> Pcs]
      /\ UNCHANGED <<rows, updates, trash, reveals, answered, pending, errors, req>>
  BY StepTyped
<1> QED BY <1>1, <1>2 DEF TypeOK

\* The reads before the transaction keep the types.
LEMMA ReadTyped ==
  ASSUME Structured, NEW c \in Calls,
         \/ Allow(c) \/ GetSecretsKeys(c) \/ GetSecretIdsByKey(c) \/ GetSecretByPath(c)
         \/ snapshotTx(c) \/ FindInFolder(c) \/ GetSecretCiphertext(c)
  PROVE  TypeOK'
<1> USE DEF Structured
<1>1. CASE Allow(c)
  BY <1>1, CheckTyped DEF Allow, Pcs
<1>2. CASE GetSecretsKeys(c)
  BY <1>2, CheckTyped DEF GetSecretsKeys, Pcs
<1>3. CASE GetSecretIdsByKey(c)
  BY <1>3, RollbackTyped, PlanTyped DEF GetSecretIdsByKey, Pcs
<1>4. CASE GetSecretByPath(c)
  <2>1. CASE Rollback(c)
    BY <2>1, RollbackTyped
  <2>2. CASE ~ Rollback(c)
    <3>1. PICK i \in Ids : /\ req' = [req EXCEPT ![c] = [op |-> "reveal", id |-> i]]
                           /\ todo' = [todo EXCEPT ![c] = <<[id |-> i]>>]
      BY <1>4, <2>2 DEF GetSecretByPath
    <3>2. [op |-> "reveal", id |-> i] \in Request
      BY DEF Request
    <3>3. <<[id |-> i]>> \in Seq(Item \cup [id : Ids])
      OBVIOUS
    <3>4. UNCHANGED <<tables, pending, errors, pc, held, draft, logged, seen>>
      BY <1>4, <2>2 DEF GetSecretByPath
    <3>5. req' \in [Calls -> Request \cup {NoRequest}]
      BY <3>1, <3>2 DEF TypeOK
    <3>6. todo' \in [Calls -> Seq(Item \cup [id : Ids])]
      BY <3>1, <3>3 DEF TypeOK
    <3> QED BY <3>4, <3>5, <3>6 DEF TypeOK, tables
  <2> QED BY <2>1, <2>2
<1>5. CASE FindInFolder(c)
  BY <1>5, PlanTyped DEF FindInFolder, Pcs
<1>6. CASE snapshotTx(c) \/ GetSecretCiphertext(c)
  <2>1. CASE Rollback(c)
    BY <2>1, RollbackTyped
  <2>2. CASE ~ Rollback(c)
    <3>1. /\ Live(rows, req[c].id)
          /\ seen' = [seen EXCEPT ![c] = rows[req[c].id].version]
          /\ \E to \in Pcs : pc' = [pc EXCEPT ![c] = to]
          /\ UNCHANGED <<tables, pending, errors, req, todo, held, draft, logged>>
          /\ req[c].op \in {"delete", "reveal"}
      BY <1>6, <2>2 DEF snapshotTx, GetSecretCiphertext, Pcs
    <3>2. req[c].id \in Ids
      BY <3>1, ReqTyped, RequestFields
    <3>3. rows[req[c].id].version \in Nat
      BY <3>1, <3>2, LiveRow DEF TypeOK, Secret
    <3> QED BY <3>1, <3>3 DEF TypeOK, tables
  <2> QED BY <2>1, <2>2
<1> QED BY <1>1, <1>2, <1>3, <1>4, <1>5, <1>6

\* The writing statements keep the types.
LEMMA StatementTyped ==
  ASSUME Structured, NEW c \in Calls,
         \/ InsertRow(c) /\ Creates(req[c])
         \/ UpdateRow(c) /\ Updates(req[c])
         \/ LockRow(c) \/ BatchUpdateCommentByIds(c) \/ DeleteRow(c) \/ DeleteInFolder(c)
  PROVE  TypeOK'
<1>0. TypeOK /\ Progress(c) /\ Shape(c)
  BY DEF Structured
<1>1. CASE Rollback(c)
  BY <1>0, <1>1, RollbackTyped
<1>2. pc[c] \in {"row", "key"} /\ todo[c] # << >>
  BY <1>0 DEF InsertRow, LockRow, UpdateRow, BatchUpdateCommentByIds, DeleteRow,
              DeleteInFolder, Progress, Shape, HasItems
<1>3. Target(c) \in Ids /\ View(c) \in Tables
  BY <1>0, <1>2, TodoIds, ViewTyped
<1>4. CASE InsertRow(c) /\ Creates(req[c]) /\ ~ Rollback(c)
  <2>1. RowOf(Head(todo[c]), 1) \in Secret
    BY <1>2, <1>4, HeadItem, RowTyped DEF HasItems
  <2> QED BY <1>0, <1>2, <1>3, <1>4, <2>1, WriteStepTyped DEF InsertRow, TypeOK
<1>5. CASE LockRow(c) /\ ~ Rollback(c)
  <2>1. View(c)[Target(c)] \in Secret
    BY <1>3, <1>5, LiveRow DEF LockRow
  <2>2. /\ Write(c, Target(c), View(c)[Target(c)])
        /\ pc' = [pc EXCEPT ![c] = "key"]
        /\ UNCHANGED <<tables, pending, errors, req, todo, logged, seen>>
    BY <1>5 DEF LockRow
  <2>3. held' \in [Calls -> SUBSET Ids] /\ draft' \in [Calls -> Tables]
    BY <1>0, <1>3, <2>1, <2>2, WriteTyped
  <2> QED BY <1>0, <2>2, <2>3 DEF TypeOK, tables, Pcs
<1>6. CASE UpdateRow(c) /\ Updates(req[c]) /\ ~ Rollback(c)
  <2>1. pc[c] = "key" /\ Target(c) \in held[c]
    BY <1>0, <1>6 DEF UpdateRow, Shape, Creates, Updates
  <2>2. NewVersion(c) \in Nat
    BY <1>0, <2>1 DEF Shape, Secret, NewVersion
  <2>3. RowOf(Head(todo[c]), NewVersion(c)) \in Secret
    BY <1>2, <1>6, <2>2, HeadItem, RowTyped DEF HasItems
  <2>4. logged' \in [Calls -> [Ids -> Nat]]
    BY <1>0, <1>3, <1>6, LogTyped DEF UpdateRow
  <2> QED BY <1>0, <1>2, <1>3, <1>6, <2>3, <2>4, WriteStepTyped DEF UpdateRow
<1>7. CASE BatchUpdateCommentByIds(c) /\ ~ Rollback(c)
  <2>1. req[c].comment \in Comments
    BY <1>0, <1>7, ReqTyped, RequestFields DEF BatchUpdateCommentByIds
  <2>2. [View(c)[Target(c)] EXCEPT !.comment = req[c].comment] \in Secret
    BY <1>3, <1>7, <2>1, LiveRow DEF BatchUpdateCommentByIds
  <2> QED BY <1>0, <1>2, <1>3, <1>7, <2>2, WriteStepTyped
          DEF BatchUpdateCommentByIds, TypeOK
<1>8. CASE DeleteRow(c) /\ ~ Rollback(c)
  <2>1. Deleted(View(c)[Target(c)]) \in Secret
    BY <1>3, <1>8, LiveRow DEF DeleteRow
  <2> QED BY <1>0, <1>2, <1>3, <1>8, <2>1, WriteStepTyped DEF DeleteRow, TypeOK
<1>9. CASE DeleteInFolder(c)
  <2>1. CASE Live(View(c), Target(c))
    <3>1. Deleted(View(c)[Target(c)]) \in Secret
      BY <1>3, <2>1, LiveRow
    <3> QED BY <1>0, <1>2, <1>3, <1>9, <2>1, <3>1, WriteStepTyped
            DEF DeleteInFolder, TypeOK
  <2>2. CASE ~ Live(View(c), Target(c))
    BY <1>0, <1>2, <1>9, <2>2, StepTyped DEF DeleteInFolder, TypeOK
  <2> QED BY <2>1, <2>2
<1> QED BY <1>1, <1>4, <1>5, <1>6, <1>7, <1>8, <1>9

\* One more in a count per secret.
LEMMA OneMoreTyped ==
  ASSUME NEW f \in [Ids -> Nat], NEW x \in Ids
  PROVE  [f EXCEPT ![x] = @ + 1] \in [Ids -> Nat]
  OBVIOUS

\* The commit and the ends of a handler keep the types.
LEMMA EndTyped ==
  ASSUME Structured, NEW c \in Calls,
         Commit(c) \/ RecordAudit(c) \/ BreakDeadlock(c) \/ Fail(c)
  PROVE  TypeOK'
<1>0. TypeOK
  BY DEF Structured
<1>1. CASE Commit(c)
  <2>1. Finish(c) /\ rows' = View(c) /\ UNCHANGED <<reveals, answered, errors>>
    BY <1>1 DEF Commit
  <2>2. updates' \in [Ids -> Nat]
    <3>1. updates \in [Ids -> Nat] /\ logged[c] \in [Ids -> Nat]
      BY <1>0 DEF TypeOK
    <3>2. updates' = [i \in Ids |-> updates[i] + logged[c][i]]
      BY <1>1 DEF Commit
    <3> QED BY <3>1, <3>2
  <2>3. trash' \in [Ids -> Nat]
    <3>1. trash \in [Ids -> Nat] /\ seen[c] \in Nat
      BY <1>0 DEF TypeOK
    <3>2. \/ trash' = [trash EXCEPT ![req[c].id] = seen[c]]
          \/ trash' = trash
      BY <1>1 DEF Commit
    <3> QED BY <3>1, <3>2
  <2> QED BY <1>0, <2>1, <2>2, <2>3, FinishTyped, ViewTyped DEF TypeOK
<1>2. CASE RecordAudit(c)
  <2>1. Finish(c) /\ UNCHANGED <<rows, updates, trash>>
    BY <1>2 DEF RecordAudit
  <2>2. PICK written \in BOOLEAN :
          /\ written \/ errors < MaxErrors
          /\ errors' = IF written THEN errors ELSE errors + 1
          /\ reveals' = IF written THEN [reveals EXCEPT ![req[c].id] = @ + 1] ELSE reveals
          /\ answered' = IF Answered(written) THEN [answered EXCEPT ![req[c].id] = @ + 1]
                                              ELSE answered
    BY <1>2 DEF RecordAudit
  <2>3. errors' \in 0 .. MaxErrors
    BY <1>0, <2>2, SecretStoreAssumption DEF TypeOK
  <2>4. /\ reveals' = reveals \/ reveals' = [reveals EXCEPT ![req[c].id] = @ + 1]
        /\ answered' = answered \/ answered' = [answered EXCEPT ![req[c].id] = @ + 1]
    BY <2>2
  <2>5. req[c].id \in Ids
    BY <1>0, <1>2, ReqTyped, RequestFields DEF RecordAudit, Structured, Shape
  <2>6. reveals \in [Ids -> Nat] /\ answered \in [Ids -> Nat]
    BY <1>0 DEF TypeOK
  <2>7. /\ [reveals EXCEPT ![req[c].id] = @ + 1] \in [Ids -> Nat]
        /\ [answered EXCEPT ![req[c].id] = @ + 1] \in [Ids -> Nat]
    BY <2>5, <2>6, OneMoreTyped
  <2>8. reveals' \in [Ids -> Nat] /\ answered' \in [Ids -> Nat]
    BY <2>4, <2>6, <2>7
  <2> QED BY <1>0, <2>1, <2>3, <2>8, FinishTyped DEF TypeOK
<1>3. CASE BreakDeadlock(c)
  BY <1>0, <1>3, RollbackTyped DEF BreakDeadlock
<1>4. CASE Fail(c)
  <2>1. Finish(c) /\ UNCHANGED tables /\ errors' = errors + 1 /\ errors < MaxErrors
    BY <1>4 DEF Fail
  <2> QED BY <1>0, <2>1, FinishTyped, SecretStoreAssumption DEF TypeOK, tables
<1> QED BY <1>1, <1>2, <1>3, <1>4

\* Every step keeps the types.
LEMMA TypeStep ==
  ASSUME Structured, Next
  PROVE  TypeOK'
<1>1. PICK c \in Calls :
        (\E r \in pending : Start(c, r)) \/ Continue(c) \/ BreakDeadlock(c) \/ Fail(c)
  BY DEF Next
<1>2. CASE \E r \in pending : Start(c, r)
  BY <1>2, StartTyped DEF Structured
<1>3. CASE Continue(c)
  BY <1>3, ReadTyped, StatementTyped, EndTyped
     DEF Continue, CreateSecret, BatchCreateSecrets, UpdateSecret, BatchUpdateSecrets,
         Creates, Updates
<1> QED BY <1>1, <1>2, <1>3, EndTyped

-----------------------------------------------------------------------------
(* The kinds of steps, by what they do to the handler that takes them.      *)

OthersSame(c) ==
  \A d \in Calls \ {c} :
    /\ pc'[d] = pc[d] /\ req'[d] = req[d] /\ todo'[d] = todo[d] /\ held'[d] = held[d]
    /\ draft'[d] = draft[d] /\ logged'[d] = logged[d] /\ seen'[d] = seen[d]
SameTables == UNCHANGED <<rows, updates, trash>>

\* The request was refused, or begins with what its kind has to do.
Refused(c, r) ==
  /\ pending' = pending \ {r}
  /\ SameTables /\ UNCHANGED <<pc, req, todo, held, draft, logged, seen>>
Begun(c, r) ==
  /\ OthersSame(c) /\ SameTables
  /\ pc[c] = "idle" /\ pending' = pending \ {r} /\ req'[c] = r
  /\ held'[c] = held[c] /\ draft'[c] = draft[c] /\ logged'[c] = logged[c]
  /\ HasItems(r) => todo'[c] = r.items /\ r.items # << >>
  /\ r.op \in {"delete", "reveal"} => todo'[c] = <<[id |-> r.id]>>
  /\ ~ HasItems(r) /\ r.op \notin {"delete", "reveal"} => todo'[c] = << >>
  /\ pc'[c] = IF Creates(r) THEN "key" ELSE IF r.op = "deleteFolder" THEN "find"
              ELSE "check"

\* The handler is at its end, and has committed or not.
Ended(c) ==
  /\ OthersSame(c) /\ pending' = pending
  /\ pc'[c] = "idle" /\ req'[c] = NoRequest /\ todo'[c] = << >>
  /\ held'[c] = {} /\ logged'[c] = Zero
Committed(c) ==
  /\ pc[c] = "commit" /\ Ended(c)
  /\ rows' = View(c)
  /\ updates' = [i \in Ids |-> updates[i] + logged[c][i]]
  /\ trash' = IF req[c].op = "delete" THEN [trash EXCEPT ![req[c].id] = seen[c]]
                                      ELSE trash

\* The handler goes on without a row written.
Moved(c) ==
  /\ OthersSame(c) /\ SameTables /\ pending' = pending
  /\ held'[c] = held[c] /\ draft'[c] = draft[c] /\ logged'[c] = logged[c]
  /\ req'[c] = req[c] \/ (~ Writes(req[c]) /\ ~ Writes(req'[c]))
  /\ HasItems(req[c]) => todo'[c] = todo[c]
  /\ req[c].op = "delete" /\ pc'[c] \in {"row", "commit"} =>
       /\ Live(rows, req[c].id) /\ seen'[c] = rows[req[c].id].version
       /\ pc[c] = "find" /\ pc'[c] = "row"

\* The transaction has written row i, and goes on.
Wrote(c, i, row) ==
  /\ OthersSame(c) /\ SameTables /\ pending' = pending
  /\ req'[c] = req[c] /\ seen'[c] = seen[c]
  /\ held'[c] = held[c] \cup {i}
  /\ draft'[c] = [draft[c] EXCEPT ![i] = row]
Stepped(c) ==
  /\ todo[c] # << >> /\ todo'[c] = Tail(todo[c])
  /\ pc'[c] = IF Len(todo[c]) = 1 THEN "commit"
              ELSE IF Creates(req[c]) THEN "key" ELSE "row"
Inserted(c) ==
  /\ Creates(req[c]) /\ pc[c] = "key" /\ KeyBlockers(c) = {} /\ ~ Taken(c)
  /\ Wrote(c, Target(c), RowOf(Head(todo[c]), 1)) /\ logged'[c] = logged[c]
  /\ Stepped(c)
Locked(c) ==
  /\ Updates(req[c]) /\ pc[c] = "row" /\ RowBlockers(c) = {} /\ Live(View(c), Target(c))
  /\ Wrote(c, Target(c), View(c)[Target(c)]) /\ logged'[c] = logged[c]
  /\ todo[c] # << >> /\ todo'[c] = todo[c] /\ pc'[c] = "key"
Updated(c) ==
  /\ Updates(req[c]) /\ pc[c] = "key" /\ KeyBlockers(c) = {} /\ ~ Taken(c)
  /\ Wrote(c, Target(c), RowOf(Head(todo[c]), NewVersion(c)))
  /\ logged'[c] = [logged[c] EXCEPT ![Target(c)] = @ + 1]
  /\ Stepped(c)
Commented(c) ==
  /\ req[c].op = "comment" /\ pc[c] = "row" /\ RowBlockers(c) = {} /\ Live(View(c), Target(c))
  /\ Wrote(c, Target(c), [View(c)[Target(c)] EXCEPT !.comment = req[c].comment])
  /\ logged'[c] = logged[c] /\ Stepped(c)
Removed(c) ==
  /\ req[c].op \in {"delete", "deleteFolder"} /\ pc[c] = "row"
  /\ RowBlockers(c) = {} /\ Live(View(c), Target(c))
  /\ Wrote(c, Target(c), Deleted(View(c)[Target(c)]))
  /\ logged'[c] = logged[c] /\ Stepped(c)
Skipped(c) ==
  /\ req[c].op = "deleteFolder" /\ pc[c] = "row" /\ Moved(c) /\ req'[c] = req[c]
  /\ Stepped(c)
Writing(c) == Inserted(c) \/ Locked(c) \/ Updated(c) \/ Commented(c) \/ Removed(c)
Quiet(c) == Ended(c) /\ SameTables

\* Every end of a handler is one.
LEMMA FinishEnds ==
  ASSUME TypeOK, NEW c \in Calls, Finish(c)
  PROVE  Ended(c)
  BY DEF TypeOK, Finish, Ended, OthersSame

\* A rollback ends the handler and leaves the tables.
LEMMA RollbackEnds ==
  ASSUME TypeOK, NEW c \in Calls, Rollback(c)
  PROVE  Quiet(c)
  BY FinishEnds DEF Rollback, Quiet, SameTables, tables

\* A request begins as its kind does, or is refused.
LEMMA StartKinds ==
  ASSUME TypeOK, NEW c \in Calls, NEW r \in pending, Start(c, r)
  PROVE  Refused(c, r) \/ Begun(c, r)
<1>1. CASE Refuse(c, r)
  BY <1>1 DEF Refuse, Refused, Submit, SameTables, tables
<1>2. r \in Request /\ (r.op \in {"create", "update"} => Len(r.items) = 1)
  BY SecretDataAssumption DEF TypeOK
<1>3. ASSUME NEW at, NEW items, Begin(c, r, at, items)
      PROVE  /\ OthersSame(c) /\ SameTables
             /\ pc[c] = "idle" /\ pending' = pending \ {r} /\ req'[c] = r
             /\ held'[c] = held[c] /\ draft'[c] = draft[c] /\ logged'[c] = logged[c]
             /\ todo'[c] = items /\ pc'[c] = at
  <2>1. /\ pc' = [pc EXCEPT ![c] = at] /\ req' = [req EXCEPT ![c] = r]
        /\ todo' = [todo EXCEPT ![c] = items]
        /\ pc[c] = "idle" /\ pending' = pending \ {r}
        /\ UNCHANGED <<rows, updates, trash, held, draft, logged, seen>>
    BY <1>3 DEF Begin, Submit, tables
  <2>2. pc'[c] = at /\ req'[c] = r /\ todo'[c] = items
    BY <2>1 DEF TypeOK
  <2>3. OthersSame(c)
    BY <2>1 DEF TypeOK, OthersSame
  <2> QED BY <2>1, <2>2, <2>3 DEF SameTables
<1>4. ASSUME HasItems(r), r.items # << >>,
             Begin(c, r, IF Creates(r) THEN "key" ELSE "check", r.items)
      PROVE  Begun(c, r)
  BY <1>3, <1>4 DEF Begun, HasItems, Creates, Updates
<1>5. HasItems(r) => r.items \in Seq(Item)
  BY <1>2, RequestFields
<1>6. CASE HasItems(r) /\ ~ Refuse(c, r)
  <2>0. r.items = << >> => Len(r.items) = 0
    OBVIOUS
  <2>1. r.items # << >>
    <3>1. CASE r.op \in {"create", "update"}
      <4>1. Len(r.items) = 1
        BY <1>2, <3>1
      <4> QED BY <2>0, <4>1
    <3>2. CASE r.op \in {"createBatch", "updateBatch"}
      BY <1>6, <3>2
         DEF Start, Create, BatchCreate, Update, BatchUpdate, BatchUpdateByIDs,
             CommentByKey, Delete, DeleteFolder, Reveal, RevealByPath
    <3>3. CASE r.op = "updateByIds"
      <4>1. BatchUpdateByIDs(c, r)
        BY <3>3
           DEF Start, Create, BatchCreate, Update, BatchUpdate,
               CommentByKey, Delete, DeleteFolder, Reveal, RevealByPath
      <4>2. Len(r.items) \in 1 .. MaxValues
        BY <1>6, <4>1 DEF BatchUpdateByIDs, ByIdsAcceptable
      <4> QED BY <2>0, <4>2, SecretStoreAssumption
    <3> QED BY <1>6, <3>1, <3>2, <3>3 DEF HasItems, Creates, Updates
  <2>2. Begin(c, r, IF Creates(r) THEN "key" ELSE "check", r.items)
    BY <1>6
       DEF Start, Create, BatchCreate, Update, BatchUpdate, BatchUpdateByIDs,
           CommentByKey, Delete, DeleteFolder, Reveal, RevealByPath,
           HasItems, Creates, Updates
  <2> QED BY <1>4, <1>6, <2>1, <2>2
<1>7. CASE ~ HasItems(r)
  <2>1. CASE r.op \in {"delete", "reveal"}
    <3>1. Begin(c, r, "check", <<[id |-> r.id]>>)
      BY <2>1
         DEF Start, Create, BatchCreate, Update, BatchUpdate, BatchUpdateByIDs,
             CommentByKey, Delete, DeleteFolder, Reveal, RevealByPath
    <3> QED BY <1>3, <1>7, <2>1, <3>1 DEF Begun, HasItems
  <2>2. CASE r.op \notin {"delete", "reveal"}
    <3>1. Begin(c, r, IF r.op = "deleteFolder" THEN "find" ELSE "check", << >>)
      BY <1>7, <2>2
         DEF Start, Create, BatchCreate, Update, BatchUpdate, BatchUpdateByIDs,
             CommentByKey, Delete, DeleteFolder, Reveal, RevealByPath,
             HasItems, Creates, Updates
    <3> QED BY <1>3, <1>7, <2>2, <3>1 DEF Begun, HasItems
  <2> QED BY <2>1, <2>2
<1> QED BY <1>1, <1>6, <1>7

\* A read before the transaction, or its first one, moves the handler or ends it.
LEMMA ReadKinds ==
  ASSUME Structured, NEW c \in Calls,
         \/ Allow(c) \/ GetSecretsKeys(c) \/ GetSecretIdsByKey(c) \/ GetSecretByPath(c)
         \/ snapshotTx(c) \/ FindInFolder(c) \/ GetSecretCiphertext(c)
  PROVE  Quiet(c) \/ Moved(c)
<1>0. TypeOK
  BY DEF Structured
<1>1. CASE Rollback(c)
  BY <1>0, <1>1, RollbackEnds
<1>2. ASSUME NEW to, pc' = [pc EXCEPT ![c] = to],
             req[c].op = "delete" => to \notin {"row", "commit"},
             UNCHANGED <<tables, pending, errors, req, todo, held, draft, logged, seen>>
      PROVE  Moved(c)
  BY <1>0, <1>2 DEF Moved, OthersSame, SameTables, tables, TypeOK
<1>3. CASE (Allow(c) \/ GetSecretsKeys(c)) /\ ~ Rollback(c)
  BY <1>2, <1>3 DEF Allow, GetSecretsKeys, Check
<1>4. ASSUME NEW S, NEW to, Plan(c, S, to), req[c].op \in {"comment", "deleteFolder"}
      PROVE  Moved(c)
  <2>1. PICK plan : todo' = [todo EXCEPT ![c] = plan]
    BY <1>4 DEF Plan
  <2>2. /\ pc' = [pc EXCEPT ![c] = to]
        /\ UNCHANGED <<tables, pending, errors, req, held, draft, logged, seen>>
    BY <1>4 DEF Plan
  <2>3. OthersSame(c) /\ SameTables
    BY <1>0, <2>1, <2>2 DEF OthersSame, SameTables, tables, TypeOK
  <2> QED BY <1>4, <2>2, <2>3 DEF Moved, HasItems, Creates, Updates
<1>5. CASE (GetSecretIdsByKey(c) \/ FindInFolder(c)) /\ ~ Rollback(c)
  BY <1>4, <1>5 DEF GetSecretIdsByKey, FindInFolder
<1>6. CASE GetSecretByPath(c) /\ ~ Rollback(c)
  <2>1. PICK i : /\ req' = [req EXCEPT ![c] = [op |-> "reveal", id |-> i]]
                 /\ todo' = [todo EXCEPT ![c] = <<[id |-> i]>>]
    BY <1>6 DEF GetSecretByPath
  <2>2. /\ req[c].op = "revealByPath"
        /\ UNCHANGED <<tables, pending, errors, pc, held, draft, logged, seen>>
    BY <1>6 DEF GetSecretByPath
  <2>3. OthersSame(c) /\ SameTables /\ req'[c].op = "reveal"
    BY <1>0, <2>1, <2>2 DEF OthersSame, SameTables, tables, TypeOK
  <2> QED BY <2>2, <2>3 DEF Moved, Writes, HasItems, Creates, Updates
<1>7. CASE (snapshotTx(c) \/ GetSecretCiphertext(c)) /\ ~ Rollback(c)
  <2>1. PICK to \in {"row", "audit"} :
          /\ pc[c] = "find" /\ Live(rows, req[c].id)
          /\ seen' = [seen EXCEPT ![c] = rows[req[c].id].version]
          /\ pc' = [pc EXCEPT ![c] = to]
          /\ UNCHANGED <<tables, pending, errors, req, todo, held, draft, logged>>
    BY <1>7 DEF snapshotTx, GetSecretCiphertext
  <2>2. OthersSame(c) /\ SameTables /\ seen'[c] = rows[req[c].id].version /\ pc'[c] = to
    BY <1>0, <2>1 DEF OthersSame, SameTables, tables, TypeOK
  <2> QED BY <2>1, <2>2 DEF Moved
<1> QED BY <1>1, <1>3, <1>5, <1>6, <1>7

\* A statement that goes on takes the next one.
LEMMA StepKinds ==
  ASSUME TypeOK, NEW c \in Calls, todo[c] # << >>, Step(c)
  PROVE  /\ Stepped(c)
         /\ SameTables /\ pending' = pending /\ req' = req
         /\ \A d \in Calls \ {c} : todo'[d] = todo[d] /\ pc'[d] = pc[d]
  BY DEF Step, Stepped, TypeOK, SameTables, tables

\* A row that is written is written by one handler.
LEMMA WriteKinds ==
  ASSUME TypeOK, NEW c \in Calls, NEW i, NEW row, Write(c, i, row)
  PROVE  /\ held'[c] = held[c] \cup {i}
         /\ draft'[c] = [draft[c] EXCEPT ![i] = row]
         /\ \A d \in Calls \ {c} : held'[d] = held[d] /\ draft'[d] = draft[d]
  BY DEF Write, TypeOK

\* The writing statements end the handler, skip a row or write one.
LEMMA StatementKinds ==
  ASSUME Structured, NEW c \in Calls,
         \/ InsertRow(c) /\ Creates(req[c])
         \/ UpdateRow(c) /\ Updates(req[c])
         \/ LockRow(c) \/ BatchUpdateCommentByIds(c) \/ DeleteRow(c) \/ DeleteInFolder(c)
  PROVE  Quiet(c) \/ Writing(c) \/ Skipped(c)
<1>0. TypeOK /\ Progress(c) /\ Shape(c)
  BY DEF Structured
<1>1. CASE Rollback(c)
  BY <1>0, <1>1, RollbackEnds
<1>2. pc[c] \in {"row", "key"} /\ todo[c] # << >>
  BY <1>0 DEF InsertRow, LockRow, UpdateRow, BatchUpdateCommentByIds, DeleteRow,
              DeleteInFolder, Progress, Shape, HasItems
<1>3. ASSUME NEW i, NEW row, Write(c, i, row), Step(c), UNCHANGED <<logged, seen>>
      PROVE  Wrote(c, i, row) /\ Stepped(c) /\ logged'[c] = logged[c]
  <2>1. /\ held'[c] = held[c] \cup {i}
        /\ draft'[c] = [draft[c] EXCEPT ![i] = row]
        /\ \A d \in Calls \ {c} : held'[d] = held[d] /\ draft'[d] = draft[d]
    BY <1>0, <1>3, WriteKinds
  <2>2. /\ Stepped(c)
        /\ SameTables /\ pending' = pending /\ req' = req
        /\ \A d \in Calls \ {c} : todo'[d] = todo[d] /\ pc'[d] = pc[d]
    BY <1>0, <1>2, <1>3, StepKinds
  <2>3. OthersSame(c)
    BY <1>3, <2>1, <2>2 DEF OthersSame
  <2> QED BY <1>3, <2>1, <2>2, <2>3 DEF Wrote
<1>4. CASE InsertRow(c) /\ Creates(req[c]) /\ ~ Rollback(c)
  BY <1>3, <1>4 DEF InsertRow, Inserted, Writing
<1>5. CASE LockRow(c) /\ ~ Rollback(c)
  <2>1. /\ Write(c, Target(c), View(c)[Target(c)])
        /\ pc' = [pc EXCEPT ![c] = "key"]
        /\ UNCHANGED <<tables, pending, errors, req, todo, logged, seen>>
    BY <1>5 DEF LockRow
  <2>2. /\ \A d \in Calls \ {c} : pc'[d] = pc[d]
        /\ pc'[c] = "key"
    BY <1>0, <2>1 DEF TypeOK
  <2>3. /\ held'[c] = held[c] \cup {Target(c)}
        /\ draft'[c] = [draft[c] EXCEPT ![Target(c)] = View(c)[Target(c)]]
        /\ \A d \in Calls \ {c} : held'[d] = held[d] /\ draft'[d] = draft[d]
    BY <1>0, <2>1, WriteKinds
  <2>4. OthersSame(c) /\ SameTables
    BY <2>1, <2>2, <2>3 DEF OthersSame, SameTables, tables
  <2>5. Wrote(c, Target(c), View(c)[Target(c)])
    BY <2>1, <2>3, <2>4 DEF Wrote
  <2> QED BY <1>2, <1>5, <2>1, <2>2, <2>5 DEF LockRow, Locked, Writing
<1>6. CASE UpdateRow(c) /\ Updates(req[c]) /\ ~ Rollback(c)
  <2>1. /\ Write(c, Target(c), RowOf(Head(todo[c]), NewVersion(c)))
        /\ logged' = [logged EXCEPT ![c][Target(c)] = @ + 1]
        /\ Step(c) /\ UNCHANGED seen
    BY <1>6 DEF UpdateRow
  <2>2. /\ logged'[c] = [logged[c] EXCEPT ![Target(c)] = @ + 1]
        /\ \A d \in Calls \ {c} : logged'[d] = logged[d]
    BY <1>0, <2>1 DEF TypeOK
  <2>3. /\ held'[c] = held[c] \cup {Target(c)}
        /\ draft'[c] = [draft[c] EXCEPT ![Target(c)] =
                          RowOf(Head(todo[c]), NewVersion(c))]
        /\ \A d \in Calls \ {c} : held'[d] = held[d] /\ draft'[d] = draft[d]
    BY <1>0, <2>1, WriteKinds
  <2>4. /\ Stepped(c)
        /\ SameTables /\ pending' = pending /\ req' = req
        /\ \A d \in Calls \ {c} : todo'[d] = todo[d] /\ pc'[d] = pc[d]
    BY <1>0, <1>2, <2>1, StepKinds
  <2>5. OthersSame(c)
    BY <2>1, <2>2, <2>3, <2>4 DEF OthersSame
  <2>6. Wrote(c, Target(c), RowOf(Head(todo[c]), NewVersion(c)))
    BY <2>1, <2>3, <2>4, <2>5 DEF Wrote
  <2> QED BY <1>6, <2>2, <2>4, <2>6 DEF UpdateRow, Updated, Writing
<1>7. CASE BatchUpdateCommentByIds(c) /\ ~ Rollback(c)
  BY <1>3, <1>7 DEF BatchUpdateCommentByIds, Commented, Writing
<1>8. CASE DeleteRow(c) /\ ~ Rollback(c)
  BY <1>3, <1>8 DEF DeleteRow, Removed, Writing
<1>9. CASE DeleteInFolder(c) /\ Live(View(c), Target(c))
  BY <1>3, <1>9 DEF DeleteInFolder, Removed, Writing
<1>10. CASE DeleteInFolder(c) /\ ~ Live(View(c), Target(c))
  <2>1. Step(c) /\ UNCHANGED <<held, draft, logged, seen>>
    BY <1>10 DEF DeleteInFolder
  <2>2. Stepped(c) /\ OthersSame(c) /\ SameTables /\ pending' = pending /\ req' = req
    BY <1>0, <1>2, <2>1, StepKinds DEF OthersSame
  <2>3. req[c].op = "deleteFolder" /\ pc[c] = "row"
    BY <1>10 DEF DeleteInFolder
  <2>4. Moved(c)
    BY <2>1, <2>2, <2>3 DEF Moved, HasItems, Creates, Updates
  <2> QED BY <2>2, <2>3, <2>4 DEF Skipped
<1> QED BY <1>1, <1>4, <1>5, <1>6, <1>7, <1>8, <1>9, <1>10

\* A commit, and an end without one.
LEMMA EndKinds ==
  ASSUME TypeOK, NEW c \in Calls,
         Commit(c) \/ RecordAudit(c) \/ BreakDeadlock(c) \/ Fail(c)
  PROVE  Quiet(c) \/ Committed(c)
<1>1. CASE Commit(c)
  <2>1. Finish(c)
    BY <1>1 DEF Commit
  <2> QED BY <1>1, <2>1, FinishEnds DEF Commit, Committed
<1>2. CASE RecordAudit(c)
  <2>1. Finish(c) /\ UNCHANGED <<rows, updates, trash>>
    BY <1>2 DEF RecordAudit
  <2> QED BY <2>1, FinishEnds DEF Quiet, SameTables
<1>3. CASE BreakDeadlock(c)
  BY <1>3, RollbackEnds DEF BreakDeadlock
<1>4. CASE Fail(c)
  BY <1>4, FinishEnds DEF Fail, Quiet, SameTables, tables
<1> QED BY <1>1, <1>2, <1>3, <1>4

\* Every step is of one of the kinds.
LEMMA Kinds ==
  ASSUME Structured, Next
  PROVE  \E c \in Calls :
           \/ \E r \in pending : Refused(c, r) \/ Begun(c, r)
           \/ Quiet(c) \/ Committed(c) \/ Moved(c) \/ Writing(c)
<1>1. PICK c \in Calls :
        (\E r \in pending : Start(c, r)) \/ Continue(c) \/ BreakDeadlock(c) \/ Fail(c)
  BY DEF Next
<1>2. CASE \E r \in pending : Start(c, r)
  BY <1>2, StartKinds DEF Structured
<1>3. CASE Continue(c)
  BY <1>3, ReadKinds, StatementKinds, EndKinds
     DEF Continue, CreateSecret, BatchCreateSecrets, UpdateSecret, BatchUpdateSecrets,
         Creates, Updates, Skipped, Structured
<1> QED BY <1>1, <1>2, <1>3, EndKinds DEF Structured

-----------------------------------------------------------------------------
(* Every handler is where its kind of request can be. *)

\* A step leaves the structure of the other handlers as it is.
LEMMA OthersStructured ==
  ASSUME Structured, NEW c \in Calls, OthersSame(c), NEW d \in Calls \ {c}
  PROVE  Progress(d)' /\ Shape(d)'
<1>1. Progress(d) /\ Shape(d)
  BY DEF Structured
<1>2. /\ pc'[d] = pc[d] /\ req'[d] = req[d] /\ todo'[d] = todo[d]
      /\ held'[d] = held[d] /\ draft'[d] = draft[d]
  BY DEF OthersSame
<1>3. Progress(d)'
  BY <1>1, <1>2 DEF Progress, Done, Items
<1>4. Shape(d)'
  BY <1>1, <1>2 DEF Shape, Target
<1> QED BY <1>3, <1>4

\* A request that begins has all of it to do.
LEMMA BegunStructured ==
  ASSUME Structured, NEW c \in Calls, NEW r \in pending, Begun(c, r)
  PROVE  Progress(c)' /\ Shape(c)'
<1>1. r \in Requests /\ r \in Request
  BY SecretDataAssumption DEF Structured, TypeOK
<1>2. held[c] = {}
  BY DEF Begun, Structured, Shape
<1>3. HasItems(r) => r.items \in Seq(Item)
  BY <1>1, RequestFields
<1>4. Progress(c)'
  BY <1>3 DEF Begun, Progress, Done, Items, HasItems, Creates, Updates
<1>5. r.op = "deleteFolder" => Len(todo'[c]) = 0
  BY DEF Begun, HasItems, Creates, Updates
<1>6. Shape(c)'
  BY <1>1, <1>2, <1>5 DEF Begun, Shape, Creates, Updates, Writes, HasItems
<1> QED BY <1>4, <1>6

\* A handler that has ended has nothing to do.
LEMMA EndedStructured ==
  ASSUME NEW c \in Calls, Ended(c)
  PROVE  Progress(c)' /\ Shape(c)'
  BY DEF Ended, Progress, Shape, NoRequest, HasItems, Writes, Creates, Updates

\* A sequence is empty when it has no length.
LEMMA EmptySequence ==
  ASSUME NEW S, NEW s \in Seq(S)
  PROVE  s = << >> <=> Len(s) = 0
  OBVIOUS

\* After a statement there is less to do.
LEMMA SteppedProgress ==
  ASSUME Structured, NEW c \in Calls, Stepped(c), req'[c] = req[c]
  PROVE  /\ Progress(c)'
         /\ HasItems(req[c]) => Done(c)' = Done(c) + 1
         /\ \A n \in 1 .. Len(todo'[c]) :
              n + 1 \in 1 .. Len(todo[c]) /\ todo'[c][n] = todo[c][n + 1]
         /\ todo'[c] = << >> <=> pc'[c] = "commit"
         /\ pc'[c] # "commit" => pc'[c] = IF Creates(req[c]) THEN "key" ELSE "row"
<1>1. todo[c] \in Seq(Item \cup [id : Ids]) /\ todo[c] # << >>
  BY DEF Structured, TypeOK, Stepped
<1>2. /\ todo'[c] = Tail(todo[c]) /\ todo'[c] \in Seq(Item \cup [id : Ids])
      /\ Len(todo[c]) \in Nat \ {0} /\ Len(todo'[c]) = Len(todo[c]) - 1
      /\ \A n \in 1 .. Len(todo'[c]) : todo'[c][n] = todo[c][n + 1]
  BY <1>1 DEF Stepped
<1>3. \A n \in 1 .. Len(todo'[c]) : n + 1 \in 1 .. Len(todo[c])
  BY <1>2
<1>4. todo'[c] = << >> <=> Len(todo[c]) = 1
  <2>1. todo'[c] = << >> <=> Len(todo'[c]) = 0
    BY <1>2, EmptySequence
  <2> QED BY <1>2, <2>1
<1>5. /\ pc'[c] = "commit" <=> Len(todo[c]) = 1
      /\ pc'[c] # "commit" => pc'[c] = IF Creates(req[c]) THEN "key" ELSE "row"
  BY DEF Stepped
<1>6. ASSUME HasItems(req[c])
      PROVE  Done(c)' = Done(c) + 1 /\ Progress(c)'
  <2>1. Items(c) \in Seq(Item) /\ Done(c) \in Nat /\ Items(c)' = Items(c)
    BY <1>1, <1>6, HeadItem DEF Items
  <2>2. Len(Items(c)) \in Nat
    BY <2>1
  <2>3. Done(c)' = Done(c) + 1
    <3>1. Done(c)' = Len(Items(c)) - Len(todo'[c])
      BY <2>1 DEF Done
    <3>2. Done(c) = Len(Items(c)) - Len(todo[c])
      BY DEF Done
    <3> QED BY <1>2, <2>2, <3>1, <3>2
  <2>4. Progress(c)
    BY DEF Structured
  <2>5. Len(todo'[c]) <= Len(Items(c))
    BY <1>2, <1>6, <2>2, <2>4 DEF Progress
  <2>6. ASSUME NEW n \in 1 .. Len(todo'[c])
        PROVE  todo'[c][n] = Items(c)[n + (Done(c) + 1)]
    <3>1. n + 1 \in 1 .. Len(todo[c]) /\ n \in Nat
      BY <1>2, <1>3
    <3>2. todo[c][n + 1] = Items(c)[(n + 1) + Done(c)]
      BY <1>6, <2>4, <3>1 DEF Progress
    <3>3. (n + 1) + Done(c) = n + (Done(c) + 1)
      BY <2>1, <3>1
    <3> QED BY <1>2, <3>2, <3>3
  <2>7. Progress(c)'
    BY <1>4, <1>5, <2>1, <2>3, <2>5, <2>6 DEF Progress
  <2> QED BY <2>3, <2>7
<1>7. ~ HasItems(req[c]) => Progress(c)'
  BY DEF Progress
<1> QED BY <1>2, <1>3, <1>4, <1>5, <1>6, <1>7

\* A handler that writes a row has a secret for it, which is asked for next.
LEMMA WritingRow ==
  ASSUME Structured, NEW c \in Calls, Writing(c)
  PROVE  \E row \in Secret :
           /\ Target(c) \in Ids /\ todo[c] # << >>
           /\ Wrote(c, Target(c), row)
           /\ \A i \in held'[c] : draft'[c][i] = IF i = Target(c) THEN row ELSE draft[c][i]
<1>0. TypeOK /\ Progress(c) /\ Shape(c)
  BY DEF Structured
<1>1. todo[c] # << >>
  BY DEF Writing, Inserted, Locked, Updated, Commented, Removed, Stepped
<1>2. Target(c) \in Ids /\ View(c) \in Tables
  BY <1>0, <1>1, TodoIds, ViewTyped
<1>3. ASSUME NEW row, Wrote(c, Target(c), row)
      PROVE  \A i \in held'[c] : draft'[c][i] = IF i = Target(c) THEN row ELSE draft[c][i]
  <2>1. held'[c] \subseteq Ids
    BY <1>0, <1>2, <1>3 DEF Wrote, TypeOK
  <2>2. draft[c] \in [Ids -> Secret \cup {Absent}]
    BY <1>0 DEF TypeOK, Tables
  <2> QED BY <1>3, <2>1, <2>2 DEF Wrote
<1>4. \E row \in Secret : Wrote(c, Target(c), row)
  <2>1. CASE Inserted(c)
    <3>1. RowOf(Head(todo[c]), 1) \in Secret
      BY <1>1, <2>1, HeadItem, RowTyped DEF Inserted, HasItems
    <3> QED BY <2>1, <3>1 DEF Inserted
  <2>2. CASE Locked(c)
    <3>1. View(c)[Target(c)] \in Secret
      BY <1>2, <2>2, LiveRow DEF Locked
    <3> QED BY <2>2, <3>1 DEF Locked
  <2>3. CASE Updated(c)
    <3>1. Target(c) \in held[c]
      BY <1>0, <2>3 DEF Updated, Shape, Creates, Updates
    <3>2. NewVersion(c) \in Nat
      BY <1>0, <3>1 DEF Shape, Secret, NewVersion
    <3>3. RowOf(Head(todo[c]), NewVersion(c)) \in Secret
      BY <1>1, <2>3, <3>2, HeadItem, RowTyped DEF Updated, HasItems
    <3> QED BY <2>3, <3>3 DEF Updated
  <2>4. CASE Commented(c)
    <3>1. req[c].comment \in Comments
      BY <1>0, <2>4, ReqTyped, RequestFields DEF Commented
    <3>2. [View(c)[Target(c)] EXCEPT !.comment = req[c].comment] \in Secret
      BY <1>2, <2>4, <3>1, LiveRow DEF Commented
    <3> QED BY <2>4, <3>2 DEF Commented
  <2>5. CASE Removed(c)
    <3>1. Deleted(View(c)[Target(c)]) \in Secret
      BY <1>2, <2>5, LiveRow DEF Removed
    <3> QED BY <2>5, <3>1 DEF Removed
  <2> QED BY <2>1, <2>2, <2>3, <2>4, <2>5 DEF Writing
<1> QED BY <1>1, <1>2, <1>3, <1>4

\* A handler that has written or skipped a row is where its request can be.
LEMMA WritingStructured ==
  ASSUME Structured, NEW c \in Calls, Writing(c) \/ Skipped(c)
  PROVE  Progress(c)' /\ Shape(c)'
<1>0. TypeOK /\ Progress(c) /\ Shape(c)
  BY DEF Structured
<1>1. req'[c] = req[c] /\ Writes(req[c])
  BY DEF Writing, Skipped, Inserted, Locked, Updated, Commented, Removed, Wrote,
         Writes, HasItems
<1>2. \A i \in held'[c] : draft'[c][i] \in Secret
  <2>1. CASE Writing(c)
    <3>1. PICK row \in Secret :
            /\ Wrote(c, Target(c), row)
            /\ \A i \in held'[c] : draft'[c][i] = IF i = Target(c) THEN row ELSE draft[c][i]
      BY <2>1, WritingRow
    <3>2. \A i \in held'[c] : i = Target(c) \/ i \in held[c]
      BY <3>1 DEF Wrote
    <3> QED BY <1>0, <3>1, <3>2 DEF Shape
  <2>2. CASE Skipped(c)
    BY <1>0, <2>2 DEF Skipped, Moved, Shape
  <2> QED BY <2>1, <2>2
<1>3. req[c] \in Requests
  BY <1>0, <1>1 DEF Shape
<1>4. CASE Locked(c)
  <2>1. todo'[c] = todo[c] /\ pc'[c] = "key" /\ todo[c] # << >> /\ Updates(req[c])
    BY <1>4 DEF Locked
  <2>2. Progress(c)'
    BY <1>0, <1>1, <1>4, <2>1 DEF Progress, Done, Items, Locked
  <2>3. Target(c)' = Target(c) /\ Target(c) \in held'[c]
    BY <1>4, <2>1 DEF Target, Locked, Wrote
  <2>4. Shape(c)'
    BY <1>1, <1>2, <1>3, <2>1, <2>3 DEF Shape, Updates, Creates, Writes, HasItems
  <2> QED BY <2>2, <2>4
<1>5. CASE Stepped(c)
  <2>1. Progress(c)'
    BY <1>1, <1>5, SteppedProgress
  <2>2. /\ \A n \in 1 .. Len(todo'[c]) :
             n + 1 \in 1 .. Len(todo[c]) /\ todo'[c][n] = todo[c][n + 1]
        /\ pc'[c] = "commit" \/ (pc'[c] = (IF Creates(req[c]) THEN "key" ELSE "row")
                                   /\ todo'[c] # << >>)
    BY <1>1, <1>5, SteppedProgress
  <2>3. req[c].op = "deleteFolder" =>
          \A n \in 1 .. Len(todo'[c]) : FolderOf[todo'[c][n].id] = req[c].folder
    BY <1>0, <2>2 DEF Shape
  <2>4. req[c].op = "delete" => pc'[c] = "commit"
    <3>1. ASSUME req[c].op = "delete"
          PROVE  Len(todo[c]) = 1
      <4>1. pc[c] = "row"
        BY <1>4, <3>1 DEF Writing, Skipped, Inserted, Locked, Updated, Commented,
                          Removed, Creates, Updates
      <4>2. todo[c] = <<[id |-> req[c].id]>>
        BY <1>0, <3>1, <4>1 DEF Shape
      <4> QED BY <4>2
    <3> QED BY <1>5, <3>1 DEF Stepped
  <2>5. Shape(c)'
    BY <1>1, <1>2, <1>3, <2>2, <2>3, <2>4 DEF Shape, Updates, Creates, Writes, HasItems
  <2> QED BY <2>1, <2>5
<1> QED BY <1>4, <1>5 DEF Writing, Skipped, Inserted, Updated, Commented, Removed

\* A read leaves the handler where its request can be.
LEMMA ReadStructured ==
  ASSUME Structured, NEW c \in Calls, ~ Rollback(c),
         \/ Allow(c) \/ GetSecretsKeys(c) \/ GetSecretIdsByKey(c) \/ GetSecretByPath(c)
         \/ snapshotTx(c) \/ FindInFolder(c) \/ GetSecretCiphertext(c)
  PROVE  Progress(c)' /\ Shape(c)'
<1>0. TypeOK /\ Progress(c) /\ Shape(c)
  BY DEF Structured
<1> USE DEF Creates, Updates, HasItems, Writes
<1>1. pc[c] \in {"check", "find"} /\ held[c] = {}
  BY <1>0 DEF Allow, GetSecretsKeys, GetSecretIdsByKey, GetSecretByPath, snapshotTx,
              FindInFolder, GetSecretCiphertext, Shape
<1>2. ASSUME NEW to \in {"row", "find", "audit"}, pc'[c] = to,
             req'[c] = req[c], todo'[c] = todo[c], held'[c] = held[c],
             to = "row" => Writes(req[c]) /\ todo[c] # << >>,
             to = "audit" => req[c].op = "reveal",
             ~ Creates(req[c])
      PROVE  Progress(c)' /\ Shape(c)'
  <2>1. Progress(c)'
    BY <1>0, <1>1, <1>2 DEF Progress, Done, Items
  <2>2. Shape(c)'
    BY <1>0, <1>1, <1>2 DEF Shape
  <2> QED BY <2>1, <2>2
<1>3. CASE Allow(c) \/ GetSecretsKeys(c)
  <2>1. PICK to \in {"row", "find"} :
          /\ pc' = [pc EXCEPT ![c] = to]
          /\ UNCHANGED <<req, todo, held>>
          /\ to = "row" => req[c].op \in {"update", "updateBatch", "updateByIds"}
          /\ pc[c] = "check"
          /\ req[c].op \in {"update", "updateBatch", "updateByIds", "delete", "reveal"}
    BY <1>3 DEF Allow, GetSecretsKeys, Check
  <2>2. to = "row" => todo[c] # << >>
    BY <1>0, <2>1 DEF Progress
  <2>3. pc'[c] = to
    BY <1>0, <2>1 DEF TypeOK
  <2> QED BY <1>2, <2>1, <2>2, <2>3
<1>4. CASE GetSecretIdsByKey(c)
  <2> DEFINE found == {i \in Ids : Live(rows, i) /\ rows[i].key = req[c].key}
  <2>1. Plan(c, found, "row") /\ found # {} /\ req[c].op = "comment"
    BY <1>4 DEF GetSecretIdsByKey
  <2>2. found \in SUBSET Ids
    OBVIOUS
  <2> HIDE DEF found
  <2>3. PICK order \in Orders(found) :
          todo' = [todo EXCEPT ![c] = [n \in DOMAIN order |-> [id |-> order[n]]]]
    BY <2>1 DEF Plan
  <2>4. [n \in DOMAIN order |-> [id |-> order[n]]] # << >>
    BY <2>1, <2>2, <2>3, OrderTyped
  <2>5. todo'[c] # << >>
    BY <1>0, <2>3, <2>4 DEF TypeOK
  <2>6. pc'[c] = "row" /\ req'[c] = req[c] /\ held'[c] = held[c]
    BY <1>0, <2>1 DEF Plan, TypeOK
  <2>7. Progress(c)'
    BY <2>1, <2>6 DEF Progress
  <2>8. Shape(c)'
    BY <1>0, <1>1, <2>1, <2>5, <2>6 DEF Shape
  <2> QED BY <2>7, <2>8
<1>5. CASE FindInFolder(c)
  <2> DEFINE found == {i \in Ids : FolderOf[i] = req[c].folder /\ Live(rows, i)}
  <2>1. /\ Plan(c, found, IF found = {} THEN "commit" ELSE "row")
        /\ req[c].op = "deleteFolder"
    BY <1>5 DEF FindInFolder
  <2>2. found \in SUBSET Ids /\ \A i \in found : FolderOf[i] = req[c].folder
    OBVIOUS
  <2> HIDE DEF found
  <2>3. PICK order \in Orders(found) :
          todo' = [todo EXCEPT ![c] = [n \in DOMAIN order |-> [id |-> order[n]]]]
    BY <2>1 DEF Plan
  <2> DEFINE plan == [n \in DOMAIN order |-> [id |-> order[n]]]
  <2>4. /\ found # {} => plan # << >>
        /\ \A n \in 1 .. Len(plan) : plan[n].id \in found
    BY <2>2, <2>3, OrderTyped
  <2>5. todo'[c] = plan
    BY <1>0, <2>3 DEF TypeOK
  <2> HIDE DEF plan
  <2>6. /\ pc'[c] = IF found = {} THEN "commit" ELSE "row"
        /\ req'[c] = req[c] /\ held'[c] = held[c]
    BY <1>0, <2>1 DEF Plan, TypeOK
  <2>7. Progress(c)'
    BY <2>1, <2>6 DEF Progress
  <2>8. \A n \in 1 .. Len(todo'[c]) : FolderOf[todo'[c][n].id] = req[c].folder
    BY <2>2, <2>4, <2>5
  <2>9. Shape(c)'
    BY <1>0, <1>1, <2>1, <2>4, <2>5, <2>6, <2>8 DEF Shape
  <2> QED BY <2>7, <2>9
<1>6. CASE GetSecretByPath(c)
  <2>1. PICK i : /\ req' = [req EXCEPT ![c] = [op |-> "reveal", id |-> i]]
                 /\ todo' = [todo EXCEPT ![c] = <<[id |-> i]>>]
    BY <1>6 DEF GetSecretByPath
  <2>2. pc[c] = "check" /\ UNCHANGED <<pc, held>>
    BY <1>6 DEF GetSecretByPath
  <2>3. req'[c] = [op |-> "reveal", id |-> i] /\ todo'[c] = <<[id |-> i]>>
    BY <1>0, <2>1 DEF TypeOK
  <2> QED BY <1>1, <2>2, <2>3 DEF Progress, Shape
<1>7. CASE snapshotTx(c) \/ GetSecretCiphertext(c)
  <2>1. PICK to \in {"row", "audit"} :
          /\ pc' = [pc EXCEPT ![c] = to]
          /\ UNCHANGED <<req, todo, held>>
          /\ to = "row" => req[c].op = "delete"
          /\ to = "audit" => req[c].op = "reveal"
          /\ req[c].op \in {"delete", "reveal"}
    BY <1>7 DEF snapshotTx, GetSecretCiphertext
  <2>2. todo[c] = <<[id |-> req[c].id]>>
    BY <1>0, <1>1, <2>1 DEF Shape
  <2>3. todo[c] # << >>
    BY <2>2
  <2>4. pc'[c] = to
    BY <1>0, <2>1 DEF TypeOK
  <2> QED BY <1>2, <2>1, <2>3, <2>4
<1> QED BY <1>3, <1>4, <1>5, <1>6, <1>7

\* Every step of a handler leaves it where its request can be.
LEMMA StructuredStep ==
  ASSUME Structured, Next
  PROVE  Structured'
<1>1. TypeOK'
  BY TypeStep
<1>2. TypeOK
  BY DEF Structured
<1>3. ASSUME NEW c \in Calls, Quiet(c) \/ Committed(c)
      PROVE  Structured'
  <2>1. Ended(c) /\ OthersSame(c)
    BY <1>3 DEF Quiet, Committed, Ended
  <2> QED BY <1>1, <2>1, EndedStructured, OthersStructured DEF Structured
<1>4. ASSUME NEW c \in Calls, Writing(c) \/ Skipped(c)
      PROVE  Structured'
  <2>1. OthersSame(c)
    BY <1>4 DEF Writing, Inserted, Locked, Updated, Commented, Removed, Wrote, Skipped,
                Moved
  <2> QED BY <1>1, <1>4, <2>1, WritingStructured, OthersStructured DEF Structured
<1>5. ASSUME NEW c \in Calls, NEW r \in pending, Refused(c, r) \/ Begun(c, r)
      PROVE  Structured'
  <2>1. CASE Refused(c, r)
    <3>1. UNCHANGED <<pc, req, todo, held, draft>>
      BY <2>1 DEF Refused
    <3>2. ASSUME NEW d \in Calls
          PROVE  Progress(d)'
      BY <3>1, <3>2 DEF Structured, Progress, Done, Items
    <3>3. ASSUME NEW d \in Calls
          PROVE  Shape(d)'
      BY <3>1, <3>3 DEF Structured, Shape, Target
    <3> QED BY <1>1, <3>2, <3>3 DEF Structured
  <2>2. CASE Begun(c, r)
    BY <1>1, <2>2, BegunStructured, OthersStructured DEF Structured, Begun
  <2> QED BY <1>5, <2>1, <2>2
<1>6. ASSUME NEW c \in Calls,
             \/ Allow(c) \/ GetSecretsKeys(c) \/ GetSecretIdsByKey(c) \/ GetSecretByPath(c)
             \/ snapshotTx(c) \/ FindInFolder(c) \/ GetSecretCiphertext(c)
      PROVE  Structured'
  <2>1. CASE Quiet(c)
    BY <1>3, <2>1
  <2>2. CASE ~ Quiet(c)
    <3>1. Moved(c) /\ ~ Rollback(c)
      BY <1>2, <1>6, <2>2, ReadKinds, RollbackEnds
    <3>2. OthersSame(c)
      BY <3>1 DEF Moved
    <3> QED BY <1>1, <1>6, <3>1, <3>2, ReadStructured, OthersStructured DEF Structured
  <2> QED BY <2>1, <2>2
<1>7. PICK c \in Calls :
        (\E r \in pending : Start(c, r)) \/ Continue(c) \/ BreakDeadlock(c) \/ Fail(c)
  BY DEF Next
<1>8. CASE \E r \in pending : Start(c, r)
  BY <1>2, <1>5, <1>8, StartKinds
<1>9. CASE Continue(c)
  BY <1>2, <1>3, <1>4, <1>6, <1>9, StatementKinds, EndKinds
     DEF Continue, CreateSecret, BatchCreateSecrets, UpdateSecret, BatchUpdateSecrets,
         Creates, Updates
<1> QED BY <1>2, <1>3, <1>7, <1>8, <1>9, EndKinds

\* At the start there is nothing to do.
LEMMA StructuredInit ==
  ASSUME Init
  PROVE  Structured
<1>1. << >> \in Seq(Item \cup [id : Ids])
  OBVIOUS
<1>2. Zero \in [Ids -> Nat]
  BY DEF Zero
<1>3. TypeOK
  BY <1>1, <1>2, SecretDataAssumption, SecretStoreAssumption DEF Init, TypeOK, Pcs
<1>4. \A c \in Calls : Progress(c) /\ Shape(c)
  BY DEF Init, Progress, Shape, NoRequest, HasItems, Writes, Creates, Updates
<1> QED BY <1>3, <1>4 DEF Structured

\* A step that changes nothing leaves every handler where it is.
LEMMA StructuredStutter ==
  ASSUME Structured, UNCHANGED vars
  PROVE  Structured'
<1>1. TypeOK'
  BY DEF Structured, TypeOK, vars
<1>2. ASSUME NEW c \in Calls
      PROVE  Progress(c)'
  BY <1>2 DEF Structured, Progress, Done, Items, vars
<1>3. ASSUME NEW c \in Calls
      PROVE  Shape(c)'
  BY <1>3 DEF Structured, Shape, Target, vars
<1> QED BY <1>1, <1>2, <1>3 DEF Structured

\* Every handler is always where its kind of request can be.
THEOREM StructureKept == Spec => []Structured
<1>1. Structured /\ [Next]_vars => Structured'
  BY StructuredStep, StructuredStutter
<1> QED BY <1>1, StructuredInit, PTL DEF Spec

\* The tables and the handlers keep their types, for any secrets, requests and
\* number of handlers.
THEOREM TypeCorrect == Spec => []TypeOK
<1>1. Structured => TypeOK
  BY DEF Structured
<1> QED BY <1>1, StructureKept, PTL

-----------------------------------------------------------------------------
(* Who holds a row, and what its version counts. *)

\* The new ids of two creations are different.
LEMMA FreshIds ==
  ASSUME NEW r \in Requests, NEW q \in Requests, Creates(r), Creates(q),
         NEW i \in IdsOf(r.items), i \in IdsOf(q.items)
  PROVE  r = q
  BY SecretDataAssumption

\* A secret is there.
LEMMA SecretThere ==
  ASSUME NEW row \in Secret
  PROVE  row # Absent /\ row.state # "absent" /\ row.version \in Nat
<1>1. row.state \in {"live", "deleted"} /\ row.version \in Nat
  BY DEF Secret
<1> QED BY <1>1 DEF Absent

\* A row of the table is a secret or is not there.
LEMMA RowThere ==
  ASSUME TypeOK, NEW i \in Ids, rows[i] # Absent
  PROVE  rows[i] \in Secret
  BY DEF TypeOK, Tables

\* A row that is active as a transaction sees it is active in the table too,
\* and its version counts the transaction's own updates.
LEMMA ViewSound ==
  ASSUME Owned, NEW c \in Calls, ~ Creates(req[c]), NEW i \in Ids, Live(View(c), i)
  PROVE  /\ Live(rows, i)
         /\ View(c)[i].version = 1 + updates[i] + logged[c][i]
<1>0. TypeOK /\ HeldSound(c) /\ Counted
  BY DEF Owned, Structured
<1>1. CASE i \in held[c]
  BY <1>0, <1>1 DEF HeldSound, View
<1>2. CASE i \notin held[c]
  <2>1. View(c)[i] = rows[i] /\ logged[c][i] = 0
    BY <1>0, <1>2 DEF HeldSound, View
  <2>2. Live(rows, i)
    BY <2>1 DEF Live
  <2>3. rows[i] # Absent
    BY <2>2 DEF Live, Absent
  <2>4. rows[i].version = 1 + updates[i] /\ updates[i] \in Nat
    BY <1>0, <2>3 DEF Counted, TypeOK
  <2> QED BY <2>1, <2>2, <2>4
<1> QED BY <1>1, <1>2

\* What every write has in common.
Put(c, i, row) ==
  /\ i \in Ids /\ row \in Secret /\ Wrote(c, i, row)
  /\ \A j \in held'[c] : draft'[c][j] = IF j = i THEN row ELSE draft[c][j]
  /\ \A d \in Calls : i \in held[d] => d = c
  /\ IF Creates(req[c]) THEN i \in IdsOf(Items(c)) /\ rows[i] = Absent
                        ELSE Live(rows, i)
  /\ row.version = 1 + updates[i] + logged'[c][i]
  /\ \A j \in Ids \ {i} : logged'[c][j] = logged[c][j]
  /\ Creates(req[c]) => logged'[c] = logged[c]

\* The item of a creation has an id that is free.
LEMMA InsertedFree ==
  ASSUME Owned, NEW c \in Calls, Inserted(c)
  PROVE  /\ Target(c) \in IdsOf(Items(c)) /\ rows[Target(c)] = Absent
         /\ \A d \in Calls : Target(c) \in held[d] => d = c
         /\ updates[Target(c)] = 0 /\ logged[c][Target(c)] = 0
<1>0. TypeOK /\ HeldSound(c) /\ Counted /\ Fresh /\ Structured
  BY DEF Owned, Structured
<1>1. Creates(req[c]) /\ HasItems(req[c]) /\ todo[c] # << >>
  BY DEF Inserted, Stepped, HasItems
<1>2. Done(c) + 1 \in 1 .. Len(Items(c)) /\ Head(todo[c]) = Items(c)[Done(c) + 1]
  BY <1>0, <1>1, HeadItem
<1>3. Target(c) \in IdsOf(Items(c))
  BY <1>2 DEF Target, IdsOf
<1>4. Target(c) \in Ids
  BY <1>0, <1>1, TodoIds
<1>5. Reserved(req[c]) /\ \A d \in Calls : req[d] = req[c] => d = c
  BY <1>0, <1>1 DEF Fresh
<1>6. rows[Target(c)] = Absent /\ \A d \in Calls : Target(c) \in held[d] => req[d] = req[c]
  BY <1>3, <1>5 DEF Reserved, Items
<1>7. updates[Target(c)] = 0 /\ logged[c][Target(c)] = 0
  BY <1>0, <1>1, <1>4, <1>6 DEF Counted, HeldSound
<1> QED BY <1>3, <1>5, <1>6, <1>7

\* Every write is of a row that nobody else holds, active or new, and hands
\* on its version.
LEMMA WritingPuts ==
  ASSUME Owned, NEW c \in Calls, Writing(c)
  PROVE  \E row \in Secret : Put(c, Target(c), row)
<1>0. TypeOK /\ Structured /\ HeldSound(c) /\ Shape(c) /\ Exclusive
  BY DEF Owned, Structured
<1>1. PICK row \in Secret :
        /\ Target(c) \in Ids /\ todo[c] # << >>
        /\ Wrote(c, Target(c), row)
        /\ \A i \in held'[c] : draft'[c][i] = IF i = Target(c) THEN row ELSE draft[c][i]
  BY <1>0, WritingRow
<1>2. updates[Target(c)] \in Nat /\ logged[c] \in [Ids -> Nat] /\ logged[c][Target(c)] \in Nat
  BY <1>0, <1>1 DEF TypeOK
<1>3. Target(c) \in held'[c] /\ draft'[c][Target(c)] = row
  BY <1>1 DEF Wrote
<1>4. \A r : Wrote(c, Target(c), r) => draft'[c][Target(c)] = r
  BY <1>0, <1>1 DEF Wrote, TypeOK, Tables
<1>5. CASE Inserted(c)
  <2>1. row = RowOf(Head(todo[c]), 1) /\ Creates(req[c]) /\ logged'[c] = logged[c]
    BY <1>3, <1>4, <1>5 DEF Inserted
  <2>2. row.version = 1
    BY <2>1 DEF RowOf
  <2> QED BY <1>1, <1>5, <2>1, <2>2, InsertedFree DEF Put
<1>6. ASSUME RowBlockers(c) = {}
      PROVE  \A d \in Calls : Target(c) \in held[d] => d = c
  BY <1>6 DEF RowBlockers
<1>7. ASSUME ~ Creates(req[c]), RowBlockers(c) = {}, Live(View(c), Target(c)),
             logged'[c] = logged[c], row.version = View(c)[Target(c)].version
      PROVE  Put(c, Target(c), row)
  <2>1. /\ Live(rows, Target(c))
        /\ View(c)[Target(c)].version = 1 + updates[Target(c)] + logged[c][Target(c)]
    BY <1>1, <1>7, ViewSound
  <2> QED BY <1>1, <1>6, <1>7, <2>1 DEF Put
<1>8. View(c) \in Tables
  BY <1>0, ViewTyped
<1>9. CASE Locked(c)
  <2>1. row = View(c)[Target(c)]
    BY <1>3, <1>4, <1>9 DEF Locked
  <2> QED BY <1>7, <1>9, <2>1 DEF Locked, Creates, Updates
<1>10. CASE Commented(c)
  <2>1. row = [View(c)[Target(c)] EXCEPT !.comment = req[c].comment]
    BY <1>3, <1>4, <1>10 DEF Commented
  <2>2. View(c)[Target(c)] \in Secret
    BY <1>1, <1>8, <1>10, LiveRow DEF Commented
  <2>3. row.version = View(c)[Target(c)].version
    BY <2>1, <2>2 DEF Secret
  <2> QED BY <1>7, <1>10, <2>3 DEF Commented, Creates
<1>11. CASE Removed(c)
  <2>1. row = Deleted(View(c)[Target(c)])
    BY <1>3, <1>4, <1>11 DEF Removed
  <2>2. row.version = View(c)[Target(c)].version
    BY <1>1, <1>8, <1>11, <2>1, LiveRow DEF Removed
  <2> QED BY <1>7, <1>11, <2>2 DEF Removed, Creates
<1>12. CASE Updated(c)
  <2>1. /\ Updates(req[c]) /\ ~ Creates(req[c]) /\ Target(c) \in held[c]
        /\ logged'[c] = [logged[c] EXCEPT ![Target(c)] = @ + 1]
    BY <1>0, <1>12 DEF Updated, Shape, Creates, Updates
  <2>2. row = RowOf(Head(todo[c]), NewVersion(c))
    BY <1>3, <1>4, <1>12 DEF Updated
  <2>3. row.version = draft[c][Target(c)].version + 1
    BY <2>2 DEF RowOf, NewVersion
  <2>4. /\ draft[c][Target(c)].version = 1 + updates[Target(c)] + logged[c][Target(c)]
        /\ Live(rows, Target(c))
    BY <1>0, <2>1 DEF HeldSound
  <2>5. /\ logged'[c][Target(c)] = logged[c][Target(c)] + 1
        /\ \A j \in Ids \ {Target(c)} : logged'[c][j] = logged[c][j]
    BY <1>1, <1>2, <2>1
  <2>6. row.version = 1 + updates[Target(c)] + logged'[c][Target(c)]
    BY <1>2, <2>3, <2>4, <2>5
  <2>7. \A d \in Calls : Target(c) \in held[d] => d = c
    BY <1>0, <2>1 DEF Exclusive
  <2> QED BY <1>1, <2>1, <2>4, <2>5, <2>6, <2>7 DEF Put
<1> QED BY <1>5, <1>9, <1>10, <1>11, <1>12 DEF Writing

\* A write leaves every reservation as it is.
LEMMA PutReserved ==
  ASSUME Owned, NEW c \in Calls, NEW i, NEW row, Put(c, i, row),
         NEW r \in Requests, Creates(r), Reserved(r)
  PROVE  Reserved(r)'
<1>0. Structured /\ Shape(c)
  BY DEF Owned, Structured
<1>1. /\ rows' = rows /\ req'[c] = req[c] /\ held'[c] = held[c] \cup {i}
      /\ \A d \in Calls \ {c} : held'[d] = held[d] /\ req'[d] = req[d]
  BY DEF Put, Wrote, SameTables, OthersSame
<1>2. ASSUME i \in IdsOf(r.items)
      PROVE  req[c] = r
  <2>1. rows[i] = Absent
    BY <1>2 DEF Reserved
  <2>2. Creates(req[c]) /\ i \in IdsOf(Items(c))
    BY <2>1 DEF Put, Live, Absent
  <2>3. req[c] \in Requests
    BY <1>0, <2>2 DEF Shape, Writes, HasItems
  <2> QED BY <1>2, <2>2, <2>3, FreshIds DEF Items
<1> QED BY <1>1, <1>2 DEF Reserved

\* A write keeps rows apart and versions counted.
LEMMA PutOwned ==
  ASSUME Owned, NEW c \in Calls, NEW i, NEW row, Put(c, i, row), Structured'
  PROVE  Owned'
<1>0. Structured /\ TypeOK /\ Fresh /\ Exclusive /\ Counted
  BY DEF Owned, Structured
<1>1. /\ SameTables /\ pending' = pending /\ req'[c] = req[c]
      /\ held'[c] = held[c] \cup {i} /\ i \in Ids /\ row \in Secret
      /\ \A d \in Calls \ {c} : /\ held'[d] = held[d] /\ req'[d] = req[d]
                                /\ draft'[d] = draft[d] /\ logged'[d] = logged[d]
  BY DEF Put, Wrote, OthersSame
<1>2. \A d \in Calls : req'[d] = req[d]
  BY <1>1
<1>3. ASSUME NEW d \in Calls, Creates(req[d])
      PROVE  req[d] \in Requests
  BY <1>0, <1>3 DEF Structured, Shape, Writes, HasItems
<1>4. Fresh'
  <2>1. ASSUME NEW r \in pending', Creates(r)
        PROVE  Reserved(r)'
    BY <1>0, <1>1, <2>1, PutReserved DEF Fresh, TypeOK
  <2>2. ASSUME NEW d \in Calls, Creates(req'[d])
        PROVE  /\ Reserved(req[d])'
               /\ req'[d] \notin pending'
               /\ \A e \in Calls : req'[e] = req'[d] => e = d
    <3>1. PICK r : r = req[d] /\ r = req'[d]
      BY <1>2
    <3>2. /\ r \in Requests /\ Creates(r) /\ Reserved(r) /\ r \notin pending
          /\ \A e \in Calls : req[e] = r => e = d
      BY <1>0, <1>3, <2>2, <3>1 DEF Fresh
    <3>3. Reserved(r)'
      BY <3>2, PutReserved
    <3>4. Reserved(req[d])'
      BY <3>1, <3>3 DEF Reserved
    <3> QED BY <1>1, <1>2, <3>1, <3>2, <3>4
  <2> QED BY <2>1, <2>2 DEF Fresh
<1>5. Exclusive'
  <2>1. \A d \in Calls : i \in held[d] => d = c
    BY DEF Put
  <2> QED BY <1>0, <1>1, <2>1 DEF Exclusive
<1>6. Counted'
  BY <1>0, <1>1 DEF Counted, SameTables
<1>7. ASSUME NEW d \in Calls \ {c}
      PROVE  HeldSound(d)'
  <2>1. HeldSound(d)
    BY DEF Owned
  <2> QED BY <1>1, <1>7, <2>1 DEF HeldSound, Live, Items, SameTables
<1>8. HeldSound(c)'
  <2>1. HeldSound(c) /\ rows' = rows /\ updates' = updates /\ held[c] \subseteq Ids
    BY <1>0, <1>1 DEF Owned, SameTables, TypeOK
  <2>2. ASSUME NEW j \in held'[c]
        PROVE  /\ draft'[c][j].version = 1 + updates[j] + logged'[c][j]
               /\ IF Creates(req[c]) THEN j \in IdsOf(Items(c)) /\ rows[j] = Absent
                                     ELSE Live(rows, j)
    <3>1. CASE j = i
      BY <2>2, <3>1 DEF Put
    <3>2. CASE j # i
      <4>1. j \in held[c] /\ j \in Ids \ {i}
        BY <1>1, <2>1, <2>2, <3>2
      <4>2. draft'[c][j] = draft[c][j] /\ logged'[c][j] = logged[c][j]
        BY <2>2, <3>2, <4>1 DEF Put
      <4> QED BY <2>1, <4>1, <4>2 DEF HeldSound
    <3> QED BY <3>1, <3>2
  <2>3. ASSUME NEW j \in Ids \ held'[c]
        PROVE  logged'[c][j] = 0
    <3>1. j \in Ids \ held[c] /\ j \in Ids \ {i}
      BY <1>1, <2>3
    <3>2. logged'[c][j] = logged[c][j]
      BY <3>1 DEF Put
    <3> QED BY <2>1, <3>1, <3>2 DEF HeldSound
  <2>4. Creates(req[c]) => \A j \in Ids : logged'[c][j] = 0
    BY <2>1 DEF HeldSound, Put
  <2> QED BY <1>1, <2>1, <2>2, <2>3, <2>4 DEF HeldSound, Live, Items
<1> QED BY <1>4, <1>5, <1>6, <1>7, <1>8 DEF Owned

\* The rows a commit leaves alone, and those it writes.
LEMMA CommittedRows ==
  ASSUME Owned, NEW c \in Calls, Committed(c), NEW i \in Ids
  PROVE  /\ i \in held[c] => /\ rows'[i] = draft[c][i] /\ rows'[i] \in Secret
                             /\ rows'[i].version = 1 + updates'[i]
         /\ i \notin held[c] => rows'[i] = rows[i] /\ updates'[i] = updates[i]
<1>0. TypeOK /\ HeldSound(c) /\ Shape(c)
  BY DEF Owned, Structured
<1>1. rows'[i] = IF i \in held[c] THEN draft[c][i] ELSE rows[i]
  BY DEF Committed, View
<1>2. /\ updates'[i] = updates[i] + logged[c][i]
      /\ updates[i] \in Nat /\ logged[c][i] \in Nat
  BY <1>0 DEF Committed, TypeOK
<1>3. CASE i \in held[c]
  <2>1. /\ draft[c][i] \in Secret
        /\ draft[c][i].version = 1 + updates[i] + logged[c][i]
    BY <1>0, <1>3 DEF Shape, HeldSound
  <2>2. draft[c][i].version = 1 + updates'[i]
    BY <1>2, <2>1
  <2> QED BY <1>1, <1>3, <2>1, <2>2
<1>4. CASE i \notin held[c]
  <2>1. logged[c][i] = 0
    BY <1>0, <1>4 DEF HeldSound
  <2> QED BY <1>1, <1>2, <1>4, <2>1
<1> QED BY <1>3, <1>4

\* The rows other transactions hold are not the ones a commit writes.
LEMMA OthersRows ==
  ASSUME Owned, NEW c \in Calls, Committed(c), NEW d \in Calls \ {c}, NEW i \in held[d]
  PROVE  rows'[i] = rows[i] /\ updates'[i] = updates[i] /\ i \in Ids
<1>1. i \in Ids /\ i \notin held[c]
  BY DEF Owned, Structured, TypeOK, Exclusive
<1> QED BY <1>1, CommittedRows

\* A reservation of another request outlives a commit.
LEMMA CommittedReserved ==
  ASSUME Owned, NEW c \in Calls, Committed(c),
         NEW r \in Requests, Creates(r), Reserved(r), r # req[c]
  PROVE  Reserved(r)'
<1>1. r.items \in Seq(Item)
  BY SecretDataAssumption, RequestFields DEF HasItems
<1>2. IdsOf(r.items) \subseteq Ids
  <2>1. \A n \in 1 .. Len(r.items) : r.items[n] \in Item
    BY <1>1
  <2>2. \A x \in Item : x.id \in Ids
    BY DEF Item
  <2> QED BY <2>1, <2>2 DEF IdsOf
<1>3. ASSUME NEW i \in IdsOf(r.items)
      PROVE  rows'[i] = Absent
  <2>1. i \notin held[c] /\ rows[i] = Absent
    BY DEF Reserved
  <2> QED BY <1>2, <2>1, CommittedRows
<1>4. /\ held'[c] = {}
      /\ \A d \in Calls \ {c} : held'[d] = held[d] /\ req'[d] = req[d]
  BY DEF Committed, Ended, OthersSame
<1> QED BY <1>3, <1>4 DEF Reserved

\* A commit keeps rows apart and versions counted.
LEMMA CommittedOwned ==
  ASSUME Owned, NEW c \in Calls, Committed(c), Structured'
  PROVE  Owned'
<1>0. Structured /\ TypeOK /\ Fresh /\ Exclusive /\ Counted
  BY DEF Owned, Structured
<1>1. /\ pending' = pending /\ req'[c] = NoRequest /\ held'[c] = {} /\ logged'[c] = Zero
      /\ \A d \in Calls \ {c} : /\ held'[d] = held[d] /\ req'[d] = req[d]
                                /\ draft'[d] = draft[d] /\ logged'[d] = logged[d]
  BY DEF Committed, Ended, OthersSame
<1>2. ~ Creates(NoRequest)
  BY DEF Creates, NoRequest
<1>3. ASSUME NEW d \in Calls, Creates(req[d])
      PROVE  req[d] \in Requests
  BY <1>0, <1>3 DEF Structured, Shape, Writes, HasItems
<1>4. Fresh'
  <2>1. ASSUME NEW r \in pending', Creates(r)
        PROVE  Reserved(r)'
    <3>1. r # req[c] /\ r \in Requests /\ Reserved(r)
      BY <1>0, <1>1, <2>1 DEF Fresh, TypeOK
    <3> QED BY <2>1, <3>1, CommittedReserved
  <2>2. ASSUME NEW d \in Calls, Creates(req'[d])
        PROVE  /\ Reserved(req[d])'
               /\ req'[d] \notin pending'
               /\ \A e \in Calls : req'[e] = req'[d] => e = d
    <3>1. d # c /\ req'[d] = req[d] /\ Creates(req[d])
      BY <1>1, <1>2, <2>2
    <3>2. PICK r : r = req[d] /\ r = req'[d]
      BY <3>1
    <3>3. /\ r \in Requests /\ Creates(r) /\ Reserved(r) /\ r \notin pending /\ r # req[c]
          /\ \A e \in Calls : req[e] = r => e = d
      BY <1>0, <1>3, <3>1, <3>2 DEF Fresh
    <3>4. Reserved(r)'
      BY <3>3, CommittedReserved
    <3>5. Reserved(req[d])'
      BY <3>2, <3>4 DEF Reserved
    <3>6. \A e \in Calls : req'[e] = r => e = d
      BY <1>1, <1>2, <2>2, <3>2, <3>3
    <3> QED BY <1>1, <3>2, <3>3, <3>5, <3>6
  <2> QED BY <2>1, <2>2 DEF Fresh
<1>5. Exclusive'
  BY <1>0, <1>1 DEF Exclusive
<1>6. Counted'
  <2>1. ASSUME NEW i \in Ids
        PROVE  IF rows'[i] = Absent THEN updates'[i] = 0
                                    ELSE rows'[i].version = 1 + updates'[i]
    <3>1. CASE i \in held[c]
      BY <3>1, CommittedRows, SecretThere
    <3>2. CASE i \notin held[c]
      BY <1>0, <3>2, CommittedRows DEF Counted
    <3> QED BY <3>1, <3>2
  <2> QED BY <2>1 DEF Counted
<1>7. ASSUME NEW d \in Calls \ {c}
      PROVE  HeldSound(d)'
  <2>1. HeldSound(d)
    BY DEF Owned
  <2>2. \A i \in held[d] : rows'[i] = rows[i] /\ updates'[i] = updates[i]
    BY OthersRows
  <2> QED BY <1>1, <1>7, <2>1, <2>2 DEF HeldSound, Live, Items
<1>8. HeldSound(c)'
  BY <1>1, <1>2 DEF HeldSound, Zero
<1> QED BY <1>4, <1>5, <1>6, <1>7, <1>8 DEF Owned


\* A handler that has left holds nothing.
LEMMA QuietOwned ==
  ASSUME Owned, NEW c \in Calls, Quiet(c), Structured'
  PROVE  Owned'
<1>0. Structured /\ TypeOK /\ Fresh /\ Exclusive /\ Counted
  BY DEF Owned, Structured
<1>1. /\ rows' = rows /\ updates' = updates
      /\ pending' = pending /\ req'[c] = NoRequest /\ held'[c] = {} /\ logged'[c] = Zero
      /\ \A d \in Calls \ {c} : /\ held'[d] = held[d] /\ req'[d] = req[d]
                                /\ draft'[d] = draft[d] /\ logged'[d] = logged[d]
  BY DEF Quiet, Ended, OthersSame, SameTables
<1>2. ~ Creates(NoRequest)
  BY DEF Creates, NoRequest
<1>3. ASSUME NEW r, Reserved(r)
      PROVE  Reserved(r)'
  BY <1>1, <1>3 DEF Reserved
<1>4. Fresh'
  <2>1. ASSUME NEW r \in pending', Creates(r)
        PROVE  Reserved(r)'
    BY <1>0, <1>1, <1>3, <2>1 DEF Fresh
  <2>2. ASSUME NEW d \in Calls, Creates(req'[d])
        PROVE  /\ Reserved(req[d])'
               /\ req'[d] \notin pending'
               /\ \A e \in Calls : req'[e] = req'[d] => e = d
    <3>1. d # c /\ req'[d] = req[d]
      BY <1>1, <1>2, <2>2
    <3>2. PICK r : r = req[d] /\ r = req'[d]
      BY <3>1
    <3>3. /\ Reserved(r) /\ r \notin pending
          /\ \A e \in Calls : req[e] = r => e = d
      BY <1>0, <2>2, <3>2 DEF Fresh
    <3>4. Reserved(req[d])'
      BY <1>3, <3>2, <3>3 DEF Reserved
    <3>5. \A e \in Calls : req'[e] = r => e = d
      BY <1>1, <1>2, <2>2, <3>2, <3>3
    <3> QED BY <1>1, <3>2, <3>3, <3>4, <3>5
  <2> QED BY <2>1, <2>2 DEF Fresh
<1>5. Exclusive' /\ Counted'
  BY <1>0, <1>1 DEF Exclusive, Counted
<1>6. ASSUME NEW d \in Calls \ {c}
      PROVE  HeldSound(d)'
  <2>1. HeldSound(d)
    BY DEF Owned
  <2> QED BY <1>1, <1>6, <2>1 DEF HeldSound, Live, Items
<1>7. HeldSound(c)'
  BY <1>1, <1>2 DEF HeldSound, Zero
<1> QED BY <1>4, <1>5, <1>6, <1>7 DEF Owned

\* A handler that moves on holds what it held; its request stays or writes
\* nothing.
LEMMA MovedOwned ==
  ASSUME Owned, NEW c \in Calls, Moved(c), Structured'
  PROVE  Owned'
<1>0. Structured /\ TypeOK /\ Fresh /\ Exclusive /\ Counted
  BY DEF Owned, Structured
<1>1. /\ rows' = rows /\ updates' = updates /\ pending' = pending
      /\ \A d \in Calls : held'[d] = held[d] /\ draft'[d] = draft[d] /\ logged'[d] = logged[d]
      /\ \A d \in Calls \ {c} : req'[d] = req[d]
      /\ req'[c] = req[c] \/ (~ Creates(req[c]) /\ ~ Creates(req'[c]))
  BY DEF Moved, OthersSame, SameTables, Writes, HasItems
<1>2. \A d \in Calls : Creates(req'[d]) \/ Creates(req[d]) => req'[d] = req[d]
  BY <1>1
<1>3. ASSUME NEW r, Creates(r), Reserved(r)
      PROVE  Reserved(r)'
  BY <1>1, <1>3 DEF Reserved
<1>4. Fresh'
  <2>1. ASSUME NEW r \in pending', Creates(r)
        PROVE  Reserved(r)'
    BY <1>0, <1>1, <1>3, <2>1 DEF Fresh
  <2>2. ASSUME NEW d \in Calls, Creates(req'[d])
        PROVE  /\ Reserved(req[d])'
               /\ req'[d] \notin pending'
               /\ \A e \in Calls : req'[e] = req'[d] => e = d
    <3>1. PICK r : r = req[d] /\ r = req'[d]
      BY <1>2, <2>2
    <3>2. /\ Creates(r) /\ Reserved(r) /\ r \notin pending
          /\ \A e \in Calls : req[e] = r => e = d
      BY <1>0, <2>2, <3>1 DEF Fresh
    <3>3. Reserved(r)'
      BY <1>3, <3>2
    <3>4. Reserved(req[d])'
      BY <3>1, <3>3 DEF Reserved
    <3>5. \A e \in Calls : req'[e] = r => e = d
      BY <1>2, <2>2, <3>1, <3>2
    <3> QED BY <1>1, <3>1, <3>2, <3>4, <3>5
  <2> QED BY <2>1, <2>2 DEF Fresh
<1>5. Exclusive' /\ Counted'
  BY <1>0, <1>1 DEF Exclusive, Counted
<1>6. ASSUME NEW d \in Calls
      PROVE  HeldSound(d)'
  <2>1. HeldSound(d) /\ (Creates(req'[d]) <=> Creates(req[d]))
    BY <1>2 DEF Owned
  <2> QED BY <1>1, <2>1 DEF HeldSound, Live, Items
<1> QED BY <1>4, <1>5, <1>6 DEF Owned

\* A request that is refused or begins holds nothing.
LEMMA StartedOwned ==
  ASSUME Owned, NEW c \in Calls, NEW r \in pending, Begun(c, r) \/ Refused(c, r),
         Structured'
  PROVE  Owned'
<1>0. Structured /\ TypeOK /\ Fresh /\ Exclusive /\ Counted /\ Shape(c)
  BY DEF Owned, Structured
<1>1. /\ rows' = rows /\ updates' = updates /\ pending' = pending \ {r}
      /\ \A d \in Calls : held'[d] = held[d] /\ draft'[d] = draft[d] /\ logged'[d] = logged[d]
      /\ \A d \in Calls \ {c} : req'[d] = req[d]
      /\ req'[c] = req[c] \/ (req'[c] = r /\ req[c] = NoRequest /\ held[c] = {})
  BY <1>0 DEF Begun, Refused, OthersSame, SameTables, Shape
<1>2. ~ Creates(NoRequest)
  BY DEF Creates, NoRequest
<1>3. ASSUME NEW q, Creates(q), Reserved(q)
      PROVE  Reserved(q)'
  BY <1>1, <1>3 DEF Reserved
<1>4. Fresh'
  <2>1. ASSUME NEW q \in pending', Creates(q)
        PROVE  Reserved(q)'
    BY <1>0, <1>1, <1>3, <2>1 DEF Fresh
  <2>2. ASSUME NEW d \in Calls, Creates(req'[d])
        PROVE  /\ Reserved(req[d])'
               /\ req'[d] \notin pending'
               /\ \A e \in Calls : req'[e] = req'[d] => e = d
    <3>1. PICK q : q = req'[d]
      OBVIOUS
    <3>2. CASE q = req[d]
      <4>1. /\ Creates(q) /\ Reserved(q) /\ q \notin pending
            /\ \A e \in Calls : req[e] = q => e = d
        BY <1>0, <2>2, <3>1, <3>2 DEF Fresh
      <4>2. Reserved(q)'
        BY <1>3, <4>1
      <4>3. \A e \in Calls : req'[e] = q => e = d
        BY <1>1, <4>1
      <4> QED BY <1>1, <3>1, <4>1, <4>2, <4>3 DEF Reserved
    <3>3. CASE q # req[d]
      <4>1. d = c /\ q = r
        BY <1>1, <3>1, <3>3
      <4>2. Reserved(q)'
        BY <1>0, <1>3, <2>2, <3>1, <4>1 DEF Fresh
      <4>3. \A e \in Calls : req[e] # q
        BY <1>0, <2>2, <3>1, <4>1 DEF Fresh
      <4>4. \A e \in Calls : req'[e] = q => e = d
        BY <1>1, <4>1, <4>3
      <4> QED BY <1>1, <3>1, <4>1, <4>2, <4>4 DEF Reserved
    <3> QED BY <3>2, <3>3
  <2> QED BY <2>1, <2>2 DEF Fresh
<1>5. Exclusive' /\ Counted'
  BY <1>0, <1>1 DEF Exclusive, Counted
<1>6. ASSUME NEW d \in Calls
      PROVE  HeldSound(d)'
  <2>1. HeldSound(d)
    BY DEF Owned
  <2>2. CASE req'[d] = req[d]
    BY <1>1, <2>1, <2>2 DEF HeldSound, Live, Items
  <2>3. CASE req'[d] # req[d]
    <3>1. held[d] = {} /\ held'[d] = {} /\ logged'[d] = logged[d]
      BY <1>1, <2>3
    <3> QED BY <2>1, <3>1 DEF HeldSound
  <2> QED BY <2>2, <2>3
<1> QED BY <1>4, <1>5, <1>6 DEF Owned

\* Every step keeps rows apart and versions counted.
LEMMA OwnedStep ==
  ASSUME Owned, [Next]_vars
  PROVE  Owned'
<1>0. Structured
  BY DEF Owned
<1>1. CASE UNCHANGED vars
  BY <1>1, StructuredStutter DEF vars, Owned, Fresh, Reserved, Exclusive, Counted, HeldSound,
     Live, Items
<1>2. CASE Next
  <2>1. Structured'
    BY <1>0, <1>2, StructuredStep
  <2>2. PICK c \in Calls :
          \/ \E r \in pending : Refused(c, r) \/ Begun(c, r)
          \/ Quiet(c) \/ Committed(c) \/ Moved(c) \/ Writing(c)
    BY <1>0, <1>2, Kinds
  <2> QED BY <2>1, <2>2, WritingPuts, PutOwned, CommittedOwned, QuietOwned, MovedOwned,
             StartedOwned
<1> QED BY <1>1, <1>2

\* At the start no row is held, and every version is 1.
LEMMA OwnedInit ==
  ASSUME Init
  PROVE  Owned
<1>1. Structured
  BY StructuredInit
<1>2. \A c \in Calls : req[c] = NoRequest /\ held[c] = {} /\ logged[c] = Zero
  BY DEF Init
<1>3. ~ Creates(NoRequest)
  BY DEF Creates, NoRequest
<1>4. ASSUME NEW r \in Requests, Creates(r)
      PROVE  Reserved(r)
  BY <1>2, <1>4, SecretDataAssumption DEF Init, Reserved
<1>5. Fresh
  BY <1>2, <1>3, <1>4 DEF Init, Fresh
<1>6. Exclusive
  BY <1>2 DEF Exclusive
<1>7. Counted
  BY SecretDataAssumption DEF Init, Counted, Zero
<1>8. \A c \in Calls : HeldSound(c)
  BY <1>2, <1>3 DEF HeldSound, Zero
<1> QED BY <1>1, <1>5, <1>6, <1>7, <1>8 DEF Owned

\* A row is held by one transaction at most, and its version counts the audit
\* rows of its updates.
THEOREM OwnershipKept == Spec => []Owned
BY OwnedInit, OwnedStep, PTL DEF Spec

\* No update is lost: however batches overlap, repeat a secret or are rolled
\* back, a version says how many updates the audit trail has (version =
\* version + 1 and recordAuditTx in one transaction).
THEOREM NoUpdateLost == Spec => []VersionsCountUpdates
<1>1. Owned => VersionsCountUpdates
  BY DEF Owned, Counted, VersionsCountUpdates
<1> QED BY <1>1, OwnershipKept, PTL

-----------------------------------------------------------------------------
(* No key is given twice. *)

\* What a transaction sees, row by row.
LEMMA ViewAt ==
  ASSUME NEW c \in Calls, NEW i \in Ids
  PROVE  /\ i \in held[c] => View(c)[i] = draft[c][i]
         /\ i \notin held[c] => View(c)[i] = rows[i]
  BY DEF View

\* The same after a step.
LEMMA ViewAtNext ==
  ASSUME NEW c \in Calls, NEW i \in Ids
  PROVE  /\ i \in held'[c] => View(c)'[i] = draft'[c][i]
         /\ i \notin held'[c] => View(c)'[i] = rows'[i]
  BY DEF View

\* A folder has its secrets the other way round too.
LEMMA SiblingsBack ==
  ASSUME NEW i, NEW j, Siblings(i, j)
  PROVE  Siblings(j, i)
  BY DEF Siblings

\* An active row has a key that no other row of its folder has, here or in
\* another transaction.
KeyFree(c, i, row) ==
  row.state = "live" =>
    /\ \A j \in Ids : Siblings(i, j) /\ Live(View(c), j) => View(c)[j].key # row.key
    /\ \A d \in Calls \ {c} : \A j \in held[d] :
         Siblings(i, j) /\ Live(draft[d], j) => draft[d][j].key # row.key

\* A row written as it was, or with its key, has a free key.
LEMMA SameKeyFree ==
  ASSUME Owned, KeysApart, NEW c \in Calls, NEW i \in Ids, NEW row,
         Live(View(c), i), row.key = View(c)[i].key,
         \A d \in Calls : i \in held[d] => d = c
  PROVE  KeyFree(c, i, row)
<1>0. Unique(View(c)) /\ \A d \in Calls : held[d] \subseteq Ids
  BY DEF KeysApart, Owned, Structured, TypeOK
<1>1. \A j \in Ids : Siblings(i, j) /\ Live(View(c), j) => View(c)[j].key # row.key
  BY <1>0 DEF Unique
<1>2. ASSUME NEW d \in Calls \ {c}, NEW j \in held[d], Siblings(i, j), Live(draft[d], j)
      PROVE  draft[d][j].key # row.key
  <2>1. j \in Ids /\ Unique(View(d)) /\ Apart(c, d) /\ i \notin held[d]
    BY <1>0, <1>2 DEF KeysApart
  <2>2. View(d)[j] = draft[d][j] /\ View(d)[i] = rows[i]
    BY <1>2, <2>1, ViewAt
  <2>3. CASE i \in held[c]
    <3>1. View(c)[i] = draft[c][i]
      BY <2>3, ViewAt
    <3>2. Live(draft[c], i)
      BY <3>1 DEF Live
    <3> QED BY <1>2, <2>1, <2>3, <3>1, <3>2 DEF Apart
  <2>4. CASE i \notin held[c]
    <3>1. View(c)[i] = rows[i]
      BY <2>4, ViewAt
    <3>2. Live(View(d), i) /\ Live(View(d), j)
      BY <1>2, <2>2, <3>1 DEF Live
    <3>3. View(d)[i].key # View(d)[j].key
      BY <1>2, <2>1, <3>2 DEF Unique
    <3> QED BY <2>2, <3>1, <3>3
  <2> QED BY <2>3, <2>4
<1> QED BY <1>1, <1>2 DEF KeyFree

\* A key that is neither taken nor given away at the moment is free.
LEMMA NewKeyFree ==
  ASSUME TypeOK, NEW c \in Calls, KeyBlockers(c) = {}, ~ Taken(c), NEW row,
         row.key = Head(todo[c]).key
  PROVE  KeyFree(c, Target(c), row)
<1>1. ASSUME NEW j \in Ids, Siblings(Target(c), j), Live(View(c), j)
      PROVE  View(c)[j].key # row.key
  BY <1>1, SiblingsBack DEF Taken
<1>2. ASSUME NEW d \in Calls \ {c}, NEW j \in held[d], Siblings(Target(c), j),
             Live(draft[d], j)
      PROVE  draft[d][j].key # row.key
  <2>1. draft[d][j].key \in KeysHeld(d, j)
    BY <1>2 DEF KeysHeld
  <2>2. Head(todo[c]).key \notin KeysHeld(d, j)
    BY <1>2, SiblingsBack DEF KeyBlockers
  <2> QED BY <2>1, <2>2
<1> QED BY <1>1, <1>2 DEF KeyFree

\* Every write is of a row with a free key.
LEMMA WritingKeys ==
  ASSUME Owned, KeysApart, NEW c \in Calls, Writing(c)
  PROVE  \E row : Put(c, Target(c), row) /\ KeyFree(c, Target(c), row)
<1>0. TypeOK /\ Structured
  BY DEF Owned, Structured
<1>1. PICK row \in Secret : Put(c, Target(c), row)
  BY WritingPuts
<1>2. /\ Target(c) \in Ids /\ Wrote(c, Target(c), row)
      /\ \A d \in Calls : Target(c) \in held[d] => d = c
  BY <1>1 DEF Put
<1>3. \A r : Wrote(c, Target(c), r) => r = row
  <2>1. draft[c] \in [Ids -> Secret \cup {Absent}]
    BY <1>0 DEF TypeOK, Tables
  <2>2. \A r : Wrote(c, Target(c), r) => draft'[c][Target(c)] = r
    BY <1>2, <2>1 DEF Wrote
  <2> QED BY <1>2, <2>2
<1>4. View(c) \in Tables
  BY <1>0, ViewTyped
<1>5. CASE Inserted(c)
  <2>1. row = RowOf(Head(todo[c]), 1)
    BY <1>3, <1>5 DEF Inserted
  <2> QED BY <1>0, <1>1, <1>5, <2>1, NewKeyFree DEF Inserted, RowOf
<1>6. CASE Updated(c)
  <2>1. row = RowOf(Head(todo[c]), NewVersion(c))
    BY <1>3, <1>6 DEF Updated
  <2> QED BY <1>0, <1>1, <1>6, <2>1, NewKeyFree DEF Updated, RowOf
<1>7. CASE Locked(c)
  <2>1. row = View(c)[Target(c)] /\ Live(View(c), Target(c))
    BY <1>3, <1>7 DEF Locked
  <2> QED BY <1>1, <1>2, <2>1, SameKeyFree
<1>8. CASE Commented(c)
  <2>1. /\ row = [View(c)[Target(c)] EXCEPT !.comment = req[c].comment]
        /\ Live(View(c), Target(c))
    BY <1>3, <1>8 DEF Commented
  <2>2. View(c)[Target(c)] \in Secret
    BY <1>2, <1>4, <2>1, LiveRow
  <2>3. row.key = View(c)[Target(c)].key
    BY <2>1, <2>2 DEF Secret
  <2> QED BY <1>1, <1>2, <2>1, <2>3, SameKeyFree
<1>9. CASE Removed(c)
  <2>1. row = Deleted(View(c)[Target(c)]) /\ Live(View(c), Target(c))
    BY <1>3, <1>9 DEF Removed
  <2>2. row.state # "live"
    BY <1>2, <1>4, <2>1, LiveRow
  <2> QED BY <1>1, <2>2 DEF KeyFree
<1> QED BY <1>5, <1>6, <1>7, <1>8, <1>9 DEF Writing

\* A row with a free key leaves the keys apart.
LEMMA PutKeys ==
  ASSUME Owned, KeysApart, NEW c \in Calls, NEW i, NEW row, Put(c, i, row),
         KeyFree(c, i, row)
  PROVE  KeysApart'
<1>0. Unique(rows) /\ \A d \in Calls : held[d] \subseteq Ids
  BY DEF KeysApart, Owned, Structured, TypeOK
<1>1. /\ rows' = rows /\ held'[c] = held[c] \cup {i} /\ i \in Ids
      /\ \A j \in held'[c] : draft'[c][j] = IF j = i THEN row ELSE draft[c][j]
      /\ \A d \in Calls \ {c} : held'[d] = held[d] /\ draft'[d] = draft[d]
  BY DEF Put, Wrote, OthersSame, SameTables
<1>2. ASSUME NEW d \in Calls \ {c}
      PROVE  Unique(View(d))'
  <2>1. Unique(View(d))
    BY DEF KeysApart
  <2>2. View(d)' = View(d)
    BY <1>1 DEF View
  <2> QED BY <2>1, <2>2 DEF Unique, Live
<1>3. Unique(View(c))'
  <2>1. Unique(View(c))
    BY DEF KeysApart
  <2>2. ASSUME NEW j \in Ids
        PROVE  View(c)'[j] = IF j = i THEN row ELSE View(c)[j]
    BY <1>1, <2>2, ViewAt, ViewAtNext
  <2>3. ASSUME NEW j \in Ids, NEW k \in Ids, Siblings(j, k),
               View(c)'[j].state = "live", View(c)'[k].state = "live"
        PROVE  View(c)'[j].key # View(c)'[k].key
    <3>1. j # k
      BY <2>3 DEF Siblings
    <3>2. CASE j = i
      BY <2>2, <2>3, <3>1, <3>2 DEF KeyFree, Live
    <3>3. CASE k = i
      BY <2>2, <2>3, <3>1, <3>3, SiblingsBack DEF KeyFree, Live
    <3>4. CASE j # i /\ k # i
      BY <2>1, <2>2, <2>3, <3>4 DEF Unique, Live
    <3> QED BY <3>2, <3>3, <3>4
  <2> QED BY <2>3 DEF Unique, Live
<1>4. ASSUME NEW d \in Calls \ {c}, NEW j \in held'[c], NEW k \in held[d], Siblings(j, k),
             draft'[c][j].state = "live", draft[d][k].state = "live"
      PROVE  draft'[c][j].key # draft[d][k].key
  <2>1. CASE j = i
    BY <1>1, <1>4, <2>1 DEF KeyFree, Live
  <2>2. CASE j # i
    <3>1. j \in held[c] /\ draft'[c][j] = draft[c][j] /\ Apart(c, d)
      BY <1>1, <1>4, <2>2 DEF KeysApart
    <3> QED BY <1>4, <3>1 DEF Apart, Live
  <2> QED BY <2>1, <2>2
<1>5. ASSUME NEW d \in Calls, NEW e \in Calls, d # e
      PROVE  Apart(d, e)'
  <2>1. CASE d = c
    BY <1>1, <1>4, <1>5, <2>1 DEF Apart, Live
  <2>2. CASE e = c
    BY <1>1, <1>4, <1>5, <2>2, SiblingsBack DEF Apart, Live
  <2>3. CASE d # c /\ e # c
    BY <1>1, <1>5, <2>3 DEF KeysApart, Apart, Live
  <2> QED BY <2>1, <2>2, <2>3
<1>6. Unique(rows)'
  BY <1>0, <1>1 DEF Unique, Live
<1> QED BY <1>2, <1>3, <1>5, <1>6 DEF KeysApart

\* A commit leaves the keys apart.
LEMMA CommittedKeys ==
  ASSUME Owned, KeysApart, NEW c \in Calls, Committed(c)
  PROVE  KeysApart'
<1>0. Unique(View(c)) /\ \A d \in Calls : held[d] \subseteq Ids
  BY DEF KeysApart, Owned, Structured, TypeOK
<1>1. /\ rows' = View(c) /\ held'[c] = {}
      /\ \A d \in Calls \ {c} : held'[d] = held[d] /\ draft'[d] = draft[d]
  BY DEF Committed, Ended, OthersSame
<1>2. Unique(rows)'
  BY <1>0, <1>1 DEF Unique, Live
<1>3. Unique(View(c))'
  <2>1. \A i \in Ids : View(c)'[i] = rows'[i]
    BY <1>1, ViewAtNext
  <2> QED BY <1>2, <2>1 DEF Unique, Live
<1>4. ASSUME NEW d \in Calls \ {c}
      PROVE  Unique(View(d))'
  <2>1. Unique(View(d)) /\ Apart(d, c)
    BY DEF KeysApart
  <2>2. ASSUME NEW i \in Ids
        PROVE  /\ i \in held[d] => View(d)'[i] = draft[d][i] /\ View(d)[i] = draft[d][i]
               /\ i \notin held[d] => View(d)'[i] = View(c)[i] /\ View(d)[i] = rows[i]
    BY <1>1, <2>2, ViewAt, ViewAtNext
  <2>3. ASSUME NEW i \in held[d], NEW j \in Ids \ held[d], Siblings(i, j),
               View(d)'[i].state = "live", View(d)'[j].state = "live"
        PROVE  View(d)'[i].key # View(d)'[j].key
    <3>0. i \in Ids
      BY <1>0
    <3>1. CASE j \in held[c]
      BY <2>1, <2>2, <2>3, <3>0, <3>1, ViewAt DEF Apart, Live
    <3>2. CASE j \notin held[c]
      <4>1. View(d)'[j] = View(d)[j] /\ View(d)'[i] = View(d)[i]
        BY <2>2, <3>0, <3>2, ViewAt
      <4> QED BY <2>1, <2>3, <3>0, <4>1 DEF Unique, Live
    <3> QED BY <3>1, <3>2
  <2>4. ASSUME NEW i \in Ids, NEW j \in Ids, Siblings(i, j),
               View(d)'[i].state = "live", View(d)'[j].state = "live"
        PROVE  View(d)'[i].key # View(d)'[j].key
    <3>1. CASE i \in held[d] /\ j \in held[d]
      BY <2>1, <2>2, <2>4, <3>1 DEF Unique, Live
    <3>2. CASE i \notin held[d] /\ j \notin held[d]
      BY <1>0, <2>2, <2>4, <3>2 DEF Unique, Live
    <3>3. CASE i \in held[d] /\ j \notin held[d]
      BY <2>3, <2>4, <3>3
    <3>4. CASE i \notin held[d] /\ j \in held[d]
      BY <2>3, <2>4, <3>4, SiblingsBack
    <3> QED BY <3>1, <3>2, <3>3, <3>4
  <2> QED BY <2>4 DEF Unique, Live
<1>5. ASSUME NEW d \in Calls, NEW e \in Calls, d # e
      PROVE  Apart(d, e)'
  BY <1>1, <1>5 DEF KeysApart, Apart, Live
<1> QED BY <1>2, <1>3, <1>4, <1>5 DEF KeysApart

\* A step without a write leaves the keys apart.
LEMMA UnwrittenKeys ==
  ASSUME Owned, KeysApart, NEW c \in Calls, rows' = rows,
         \A d \in Calls \ {c} : held'[d] = held[d] /\ draft'[d] = draft[d],
         held'[c] = {} \/ (held'[c] = held[c] /\ draft'[c] = draft[c])
  PROVE  KeysApart'
<1>1. ASSUME NEW d \in Calls
      PROVE  Unique(View(d))'
  <2>1. CASE held'[d] = held[d] /\ draft'[d] = draft[d]
    <3>1. View(d)' = View(d)
      BY <2>1 DEF View
    <3> QED BY <3>1 DEF KeysApart, Unique, Live
  <2>2. CASE held'[d] = {}
    <3>1. \A i \in Ids : View(d)'[i] = rows[i]
      BY <2>2, ViewAtNext
    <3> QED BY <3>1 DEF KeysApart, Unique, Live
  <2> QED BY <2>1, <2>2
<1>2. ASSUME NEW d \in Calls, NEW e \in Calls, d # e
      PROVE  Apart(d, e)'
  BY <1>2 DEF KeysApart, Apart, Live
<1>3. Unique(rows)'
  BY DEF KeysApart, Unique, Live
<1> QED BY <1>1, <1>2, <1>3 DEF KeysApart

\* Every step leaves the keys apart.
LEMMA KeysStep ==
  ASSUME Owned, KeysApart, [Next]_vars
  PROVE  KeysApart'
<1>1. CASE UNCHANGED vars
  BY <1>1 DEF vars, KeysApart, Unique, Apart, Live, View
<1>2. CASE Next
  <2>1. PICK c \in Calls :
          \/ \E r \in pending : Refused(c, r) \/ Begun(c, r)
          \/ Quiet(c) \/ Committed(c) \/ Moved(c) \/ Writing(c)
    BY <1>2, Kinds DEF Owned
  <2>2. CASE \/ \E r \in pending : Refused(c, r) \/ Begun(c, r)
             \/ Quiet(c) \/ Moved(c)
    BY <2>2, UnwrittenKeys
       DEF Refused, Begun, Quiet, Moved, Ended, OthersSame, SameTables
  <2> QED BY <2>1, <2>2, WritingKeys, PutKeys, CommittedKeys
<1> QED BY <1>1, <1>2

\* However creations, renamings and deletions overlap, no two active secrets
\* of a folder have the same key (the unique index on (folder_id, key), as the
\* statements of repository.go meet it).
THEOREM PathsNameOneSecret == Spec => []KeysUnique
<1>1. Init => KeysApart
  BY SecretDataAssumption DEF Init, KeysApart, Unique, Live, View, Apart
<1>2. KeysApart => KeysUnique
  BY DEF KeysApart, KeysUnique
<1> QED BY <1>1, <1>2, KeysStep, OwnershipKept, PTL DEF Spec

-----------------------------------------------------------------------------
(* The records of deleted secrets. *)

SnapshotsSound == SnapshotsAreGenuine /\ \A c \in Calls : SeenSound(c)

\* A commit takes no version back.
LEMMA VersionsGrow ==
  ASSUME Owned, NEW c \in Calls, Committed(c), NEW i \in Ids, rows[i] # Absent
  PROVE  rows'[i] # Absent /\ rows[i].version <= rows'[i].version
<1>0. TypeOK /\ Counted
  BY DEF Owned, Structured
<1>1. /\ updates[i] \in Nat /\ logged[c][i] \in Nat
      /\ updates'[i] = updates[i] + logged[c][i]
  BY <1>0 DEF TypeOK, Committed
<1>2. rows[i].version = 1 + updates[i]
  BY <1>0 DEF Counted
<1>3. CASE i \in held[c]
  <2>1. rows'[i] \in Secret /\ rows'[i].version = 1 + updates'[i]
    BY <1>3, CommittedRows
  <2>2. rows'[i] # Absent
    BY <2>1, SecretThere
  <2> QED BY <1>1, <1>2, <2>1, <2>2
<1>4. CASE i \notin held[c]
  BY <1>1, <1>2, <1>4, CommittedRows
<1> QED BY <1>3, <1>4

\* The deletion of one secret writes that secret and no other.
LEMMA DeletesOne ==
  ASSUME Structured, NEW c \in Calls, Writing(c), req[c].op = "delete"
  PROVE  Removed(c) /\ Target(c) = req[c].id /\ pc'[c] = "commit"
<1>1. Removed(c)
  BY DEF Writing, Inserted, Locked, Updated, Commented, Creates, Updates
<1>2. todo[c] = <<[id |-> req[c].id]>>
  BY <1>1 DEF Structured, Shape, Removed
<1>3. Target(c) = req[c].id /\ Len(todo[c]) = 1
  BY <1>2 DEF Target
<1> QED BY <1>1, <1>3 DEF Removed, Stepped

\* The handler of a step has read a snapshot that stays genuine.
LEMMA WritingSeen ==
  ASSUME Owned, NEW c \in Calls, SeenSound(c), Writing(c)
  PROVE  SeenSound(c)'
<1>1. PICK row \in Secret : Put(c, Target(c), row)
  BY WritingPuts
<1>2. /\ rows' = rows /\ req'[c] = req[c] /\ seen'[c] = seen[c]
      /\ held'[c] = held[c] \cup {Target(c)}
      /\ \A j \in held'[c] : draft'[c][j] = IF j = Target(c) THEN row ELSE draft[c][j]
  BY <1>1 DEF Put, Wrote, SameTables
<1>3. CASE req[c].op = "delete"
  <2>1. Removed(c) /\ Target(c) = req[c].id /\ pc'[c] = "commit"
    BY <1>3, DeletesOne DEF Owned
  <2>2. /\ rows[req[c].id] # Absent /\ seen[c] <= rows[req[c].id].version
        /\ held[c] \subseteq {req[c].id}
    BY <1>3, <2>1 DEF SeenSound, Removed
  <2>3. row = Deleted(View(c)[Target(c)])
    <3>1. draft[c] \in [Ids -> Secret \cup {Absent}] /\ Target(c) \in Ids
      BY <1>1 DEF Owned, Structured, TypeOK, Tables, Put
    <3>2. draft'[c] = [draft[c] EXCEPT ![Target(c)] = Deleted(View(c)[Target(c)])]
      BY <2>1 DEF Removed, Wrote
    <3> QED BY <1>2, <3>1, <3>2
  <2>4. row.state = "deleted"
    <3>1. View(c) \in Tables /\ Target(c) \in Ids /\ Live(View(c), Target(c))
      BY <1>1, <2>1, ViewTyped DEF Owned, Structured, Put, Removed
    <3> QED BY <2>3, <3>1, LiveRow
  <2>5. held'[c] = {req[c].id}
    BY <1>2, <2>1, <2>2
  <2>6. \A i \in held'[c] : draft'[c][i].state = "deleted"
    BY <1>2, <2>1, <2>4, <2>5
  <2> QED BY <1>2, <2>2, <2>5, <2>6 DEF SeenSound
<1>4. CASE req[c].op # "delete"
  BY <1>2, <1>4 DEF SeenSound
<1> QED BY <1>3, <1>4

\* A step without a write keeps the snapshots genuine.
LEMMA UnwrittenSnapshots ==
  ASSUME Owned, SnapshotsSound, NEW c \in Calls,
         Quiet(c) \/ Moved(c) \/ \E r \in pending : Refused(c, r) \/ Begun(c, r)
  PROVE  SnapshotsSound'
<1>1. rows' = rows /\ trash' = trash
  BY DEF Quiet, Moved, Refused, Begun, SameTables
<1>2. SnapshotsAreGenuine'
  BY <1>1 DEF SnapshotsSound, SnapshotsAreGenuine
<1>3. ASSUME NEW d \in Calls, pc'[d] = pc[d], req'[d] = req[d], held'[d] = held[d],
             draft'[d] = draft[d], seen'[d] = seen[d]
      PROVE  SeenSound(d)'
  BY <1>1, <1>3 DEF SnapshotsSound, SeenSound
<1>4. CASE \E r \in pending : Refused(c, r)
  BY <1>2, <1>3, <1>4 DEF Refused, SnapshotsSound
<1>5. ASSUME OthersSame(c)
      PROVE  \A d \in Calls \ {c} : SeenSound(d)'
  BY <1>3, <1>5 DEF OthersSame
<1>6. CASE Quiet(c)
  <2>1. OthersSame(c) /\ req'[c].op # "delete"
    BY <1>6 DEF Quiet, Ended, NoRequest
  <2> QED BY <1>2, <1>5, <2>1 DEF SnapshotsSound, SeenSound
<1>7. CASE \E r \in pending : Begun(c, r)
  <2>1. OthersSame(c) /\ pc'[c] \notin {"row", "commit"}
    BY <1>7 DEF Begun
  <2> QED BY <1>2, <1>5, <2>1 DEF SnapshotsSound, SeenSound
<1>8. CASE Moved(c)
  <2>1. OthersSame(c)
    BY <1>8 DEF Moved
  <2>2. ASSUME req'[c].op = "delete", pc'[c] \in {"row", "commit"}
        PROVE  SeenSound(c)'
    <3>1. req'[c] = req[c]
      BY <1>8, <2>2 DEF Moved, Writes
    <3>2. /\ Live(rows, req[c].id) /\ seen'[c] = rows[req[c].id].version
          /\ pc[c] = "find" /\ pc'[c] = "row" /\ held'[c] = held[c]
      BY <1>8, <2>2, <3>1 DEF Moved
    <3>3. held[c] = {} /\ TypeOK
      BY <3>2 DEF Owned, Structured, Shape
    <3>4. req[c].id \in Ids
      BY <2>2, <3>1, <3>3, ReqTyped, RequestFields
    <3>5. rows[req[c].id] # Absent /\ rows[req[c].id].version \in Nat
      BY <3>2, <3>3, <3>4, LiveRow, SecretThere DEF TypeOK
    <3> QED BY <1>1, <3>1, <3>2, <3>3, <3>5 DEF SeenSound
  <2>3. SeenSound(c)'
    BY <2>2 DEF SeenSound
  <2> QED BY <1>2, <1>5, <2>1, <2>3 DEF SnapshotsSound
<1> QED BY <1>4, <1>6, <1>7, <1>8

\* A commit writes a genuine snapshot, and leaves deleted secrets alone.
LEMMA CommittedSnapshots ==
  ASSUME Owned, SnapshotsSound, NEW c \in Calls, Committed(c)
  PROVE  SnapshotsSound'
<1>0. TypeOK /\ HeldSound(c) /\ SeenSound(c)
  BY DEF Owned, Structured, SnapshotsSound
<1>1. ASSUME NEW d \in Calls
      PROVE  SeenSound(d)'
  <2>1. CASE d = c
    BY <2>1 DEF Committed, Ended, NoRequest, SeenSound
  <2>2. CASE d # c
    <3>1. /\ pc'[d] = pc[d] /\ req'[d] = req[d] /\ held'[d] = held[d]
          /\ draft'[d] = draft[d] /\ seen'[d] = seen[d] /\ SeenSound(d)
      BY <2>2 DEF Committed, Ended, OthersSame, SnapshotsSound
    <3>2. ASSUME req[d].op = "delete", pc[d] \in {"row", "commit"}
          PROVE  rows'[req[d].id] # Absent /\ seen[d] <= rows'[req[d].id].version
      <4>1. req[d].id \in Ids /\ seen[d] \in Nat
        BY <1>0, <3>2, ReqTyped, RequestFields DEF TypeOK
      <4>2. rows[req[d].id] # Absent /\ seen[d] <= rows[req[d].id].version
        BY <3>1, <3>2 DEF SeenSound
      <4>3. /\ rows'[req[d].id] # Absent
            /\ rows[req[d].id].version <= rows'[req[d].id].version
        BY <4>1, <4>2, VersionsGrow
      <4>4. rows[req[d].id].version \in Nat
        BY <1>0, <4>1, <4>2, RowThere, SecretThere
      <4>5. rows'[req[d].id].version \in Nat
        <5>1. rows' \in Tables
          BY <1>0, ViewTyped DEF Committed
        <5> QED BY <4>1, <4>3, <5>1, SecretThere DEF Tables
      <4> QED BY <4>1, <4>2, <4>3, <4>4, <4>5
    <3> QED BY <3>1, <3>2 DEF SeenSound
  <2> QED BY <2>1, <2>2
<1>2. ASSUME NEW i \in Ids, trash'[i] > 0
      PROVE  rows'[i].state = "deleted" /\ trash'[i] <= rows'[i].version
  <2>1. CASE req[c].op = "delete" /\ i = req[c].id
    <3>1. /\ rows[i] # Absent /\ seen[c] <= rows[i].version
          /\ i \in held[c] /\ draft[c][i].state = "deleted"
      BY <1>0, <2>1 DEF SeenSound, Committed
    <3>2. trash'[i] = seen[c] /\ seen[c] \in Nat
      BY <1>0, <2>1 DEF Committed, TypeOK
    <3>3. rows'[i] = draft[c][i] /\ rows'[i] \in Secret
      BY <3>1, CommittedRows
    <3>4. rows[i].version \in Nat /\ rows'[i].version \in Nat
      BY <1>0, <3>1, <3>3, RowThere, SecretThere
    <3>5. rows[i].version <= rows'[i].version
      BY <3>1, VersionsGrow
    <3> QED BY <3>1, <3>2, <3>3, <3>4, <3>5
  <2>2. CASE ~ (req[c].op = "delete" /\ i = req[c].id)
    <3>1. trash'[i] = trash[i]
      BY <1>0, <2>2 DEF Committed, TypeOK
    <3>2. rows[i].state = "deleted" /\ trash[i] <= rows[i].version
      BY <1>2, <3>1 DEF SnapshotsSound, SnapshotsAreGenuine
    <3>3. i \notin held[c]
      BY <1>0, <3>2 DEF HeldSound, Live, Absent
    <3> QED BY <3>1, <3>2, <3>3, CommittedRows
  <2> QED BY <2>1, <2>2
<1> QED BY <1>1, <1>2 DEF SnapshotsSound, SnapshotsAreGenuine

\* Every step keeps the snapshots genuine.
LEMMA SnapshotsStep ==
  ASSUME Owned, SnapshotsSound, [Next]_vars
  PROVE  SnapshotsSound'
<1>1. CASE UNCHANGED vars
  BY <1>1 DEF vars, SnapshotsSound, SnapshotsAreGenuine, SeenSound
<1>2. CASE Next
  <2>1. PICK c \in Calls :
          \/ \E r \in pending : Refused(c, r) \/ Begun(c, r)
          \/ Quiet(c) \/ Committed(c) \/ Moved(c) \/ Writing(c)
    BY <1>2, Kinds DEF Owned
  <2>2. CASE Writing(c)
    <3>1. SeenSound(c)'
      BY <2>2, WritingSeen DEF SnapshotsSound
    <3>2. OthersSame(c) /\ SameTables
      BY <2>2 DEF Writing, Inserted, Locked, Updated, Commented, Removed, Wrote
    <3>3. SnapshotsAreGenuine'
      BY <3>2 DEF SnapshotsSound, SnapshotsAreGenuine, SameTables
    <3>4. \A d \in Calls \ {c} : SeenSound(d)'
      BY <3>2 DEF SnapshotsSound, SeenSound, OthersSame, SameTables
    <3> QED BY <3>1, <3>3, <3>4 DEF SnapshotsSound
  <2> QED BY <2>1, <2>2, UnwrittenSnapshots, CommittedSnapshots
<1> QED BY <1>1, <1>2

\* A secret with a record in deleted_records is and stays deleted, and the
\* record is of a version it had (snapshotAndSoftDeleteTx).
THEOREM RecordsAreGenuine == Spec => []SnapshotsAreGenuine
<1>1. Init => SnapshotsSound
  BY DEF Init, SnapshotsSound, SnapshotsAreGenuine, SeenSound, Zero
<1>2. SnapshotsSound => SnapshotsAreGenuine
  BY DEF SnapshotsSound
<1> QED BY <1>1, <1>2, SnapshotsStep, OwnershipKept, PTL DEF Spec

-----------------------------------------------------------------------------
(* The audit trail of reveals. *)

\* Only RecordAudit writes an audit row of a reveal or hands out a value.
LEMMA OnlyAuditReveals ==
  ASSUME NEW c \in Calls, NEW r,
         Start(c, r) \/ Continue(c) \/ BreakDeadlock(c) \/ Fail(c), ~ RecordAudit(c)
  PROVE  reveals' = reveals /\ answered' = answered
<1>1. ASSUME Rollback(c) \/ Refuse(c, r) \/ \E at, items : Begin(c, r, at, items)
      PROVE  UNCHANGED tables
  BY <1>1 DEF Rollback, Refuse, Begin
<1>2. CASE Start(c, r)
  BY <1>1, <1>2
     DEF Start, Create, BatchCreate, Update, BatchUpdate, BatchUpdateByIDs,
         CommentByKey, Delete, DeleteFolder, Reveal, RevealByPath, tables
<1>3. CASE Allow(c) \/ GetSecretsKeys(c) \/ GetSecretIdsByKey(c) \/ GetSecretByPath(c)
           \/ snapshotTx(c) \/ FindInFolder(c) \/ GetSecretCiphertext(c)
  BY <1>1, <1>3
     DEF Allow, GetSecretsKeys, GetSecretIdsByKey, GetSecretByPath, snapshotTx,
         FindInFolder, GetSecretCiphertext, Check, Plan, tables
<1>4. CASE CreateSecret(c) \/ BatchCreateSecrets(c) \/ LockRow(c) \/ UpdateSecret(c)
           \/ BatchUpdateSecrets(c)
  BY <1>1, <1>4
     DEF CreateSecret, BatchCreateSecrets, InsertRow, LockRow, UpdateSecret,
         BatchUpdateSecrets, UpdateRow, Step, tables
<1>5. CASE BatchUpdateCommentByIds(c) \/ DeleteRow(c) \/ DeleteInFolder(c)
  BY <1>1, <1>5 DEF BatchUpdateCommentByIds, DeleteRow, DeleteInFolder, Step, tables
<1>6. CASE Commit(c) \/ BreakDeadlock(c) \/ Fail(c)
  BY <1>1, <1>6 DEF Commit, BreakDeadlock, Fail, tables
<1> QED BY <1>2, <1>3, <1>4, <1>5, <1>6 DEF Continue

\* A value handed out has its audit row.
LEMMA AuditReveals ==
  ASSUME TypeOK, RevealsAudited, NEW c \in Calls, RecordAudit(c)
  PROVE  RevealsAudited'
<1>1. PICK written \in BOOLEAN :
        /\ reveals' = IF written THEN [reveals EXCEPT ![req[c].id] = @ + 1] ELSE reveals
        /\ answered' = IF Answered(written) THEN [answered EXCEPT ![req[c].id] = @ + 1]
                                            ELSE answered
  BY DEF RecordAudit
<1>2. \/ reveals' = reveals /\ answered' = answered
      \/ /\ reveals' = [reveals EXCEPT ![req[c].id] = @ + 1]
         /\ answered' = [answered EXCEPT ![req[c].id] = @ + 1]
  BY <1>1 DEF Answered
<1>3. CASE reveals' = reveals /\ answered' = answered
  BY <1>3 DEF RevealsAudited
<1>4. CASE /\ reveals' = [reveals EXCEPT ![req[c].id] = @ + 1]
           /\ answered' = [answered EXCEPT ![req[c].id] = @ + 1]
  BY <1>4 DEF RevealsAudited, TypeOK
<1> QED BY <1>2, <1>3, <1>4

\* Nobody gets a value that the audit trail does not know of, also when the
\* audit row cannot be written (Reveal).
THEOREM NoSilentReveal == Spec => []RevealsAudited
<1>1. Init => RevealsAudited
  BY DEF Init, RevealsAudited, Zero
<1>2. ASSUME TypeOK, RevealsAudited, [Next]_vars
      PROVE  RevealsAudited'
  <2>1. CASE UNCHANGED vars
    BY <1>2, <2>1 DEF vars, RevealsAudited
  <2>2. CASE Next
    <3>1. PICK c \in Calls :
            (\E r \in pending : Start(c, r)) \/ Continue(c) \/ BreakDeadlock(c) \/ Fail(c)
      BY <2>2 DEF Next
    <3>2. CASE RecordAudit(c)
      BY <1>2, <3>2, AuditReveals
    <3>3. CASE ~ RecordAudit(c)
      <4>1. reveals' = reveals /\ answered' = answered
        BY <3>1, <3>3, OnlyAuditReveals
      <4> QED BY <1>2, <4>1 DEF RevealsAudited
    <3> QED BY <3>2, <3>3
  <2> QED BY <1>2, <2>1, <2>2
<1> QED BY <1>1, <1>2, TypeCorrect, PTL DEF Spec

-----------------------------------------------------------------------------
(* The table changes by whole requests. *)

WrittenSound(c) == CreatesWritten(c) /\ UpdatesWritten(c) /\ OthersWritten(c)

\* What a transaction has written stays what its request asks for while the
\* others work.
LEMMA OthersWrittenSound ==
  ASSUME Structured, NEW c \in Calls, OthersSame(c), NEW d \in Calls \ {c},
         \A i \in held[d] : rows'[i] = rows[i], WrittenSound(d)
  PROVE  WrittenSound(d)'
<1>1. /\ req'[d] = req[d] /\ todo'[d] = todo[d] /\ held'[d] = held[d]
      /\ draft'[d] = draft[d] /\ logged'[d] = logged[d]
  BY DEF OthersSame
<1>2. Items(d)' = Items(d) /\ Done(d)' = Done(d)
  BY <1>1 DEF Items, Done
<1>3. CreatesWritten(d)'
  BY <1>1, <1>2 DEF WrittenSound, CreatesWritten
<1>4. UpdatesWritten(d)'
  BY <1>1, <1>2 DEF WrittenSound, UpdatesWritten, LastUpTo
<1>5. OthersWritten(d)'
  BY <1>1 DEF WrittenSound, OthersWritten
<1> QED BY <1>3, <1>4, <1>5 DEF WrittenSound

\* A handler that has ended has written nothing.
LEMMA EndedWritten ==
  ASSUME NEW c \in Calls, Ended(c)
  PROVE  WrittenSound(c)'
  BY DEF Ended, NoRequest, WrittenSound, CreatesWritten, UpdatesWritten, OthersWritten,
         Creates, Updates

\* Nor has one that begins.
LEMMA BegunWritten ==
  ASSUME Structured, NEW c \in Calls, NEW r \in pending, Begun(c, r)
  PROVE  WrittenSound(c)'
<1>1. req'[c] = r /\ held'[c] = {}
  BY DEF Begun, Structured, Shape
<1>2. r \in Request
  BY SecretDataAssumption DEF Structured, TypeOK
<1>3. HasItems(r) => Done(c)' = 0
  <2>1. ASSUME HasItems(r)
        PROVE  todo'[c] = r.items /\ Len(r.items) \in Nat
    BY <1>2, <2>1, RequestFields DEF Begun
  <2> QED BY <1>1, <2>1 DEF Done, Items
<1>4. CreatesWritten(c)'
  BY <1>1, <1>3 DEF CreatesWritten, HasItems
<1>5. UpdatesWritten(c)'
  BY <1>1, <1>3 DEF UpdatesWritten, HasItems
<1>6. OthersWritten(c)'
  BY <1>1 DEF OthersWritten
<1> QED BY <1>4, <1>5, <1>6 DEF WrittenSound

\* A handler that moves on has written what it had.
LEMMA MovedWritten ==
  ASSUME Structured, NEW c \in Calls, Moved(c), WrittenSound(c)
  PROVE  WrittenSound(c)'
<1>1. /\ rows' = rows /\ held'[c] = held[c] /\ draft'[c] = draft[c] /\ logged'[c] = logged[c]
      /\ req'[c] = req[c] \/ (~ Writes(req[c]) /\ ~ Writes(req'[c]))
      /\ HasItems(req[c]) => todo'[c] = todo[c]
  BY DEF Moved, SameTables
<1>2. CASE req'[c] = req[c]
  <2>1. HasItems(req[c]) => Items(c)' = Items(c) /\ Done(c)' = Done(c)
    BY <1>1, <1>2 DEF Items, Done
  <2>2. CreatesWritten(c)'
    BY <1>1, <1>2, <2>1 DEF WrittenSound, CreatesWritten, HasItems
  <2>3. UpdatesWritten(c)'
    BY <1>1, <1>2, <2>1 DEF WrittenSound, UpdatesWritten, LastUpTo, HasItems
  <2>4. OthersWritten(c)'
    BY <1>1, <1>2 DEF WrittenSound, OthersWritten
  <2> QED BY <2>2, <2>3, <2>4 DEF WrittenSound
<1>3. CASE ~ Writes(req'[c])
  BY <1>3 DEF WrittenSound, CreatesWritten, UpdatesWritten, OthersWritten, Writes, HasItems
<1> QED BY <1>1, <1>2, <1>3

\* The rows after a write: the one written, and the others as they were.
LEMMA WrittenRows ==
  ASSUME Owned, NEW c \in Calls, NEW row, Writing(c), Wrote(c, Target(c), row)
  PROVE  /\ rows' = rows /\ req'[c] = req[c] /\ Items(c)' = Items(c)
         /\ held'[c] = held[c] \cup {Target(c)} /\ Target(c) \in Ids
         /\ draft'[c][Target(c)] = row
         /\ \A i \in held[c] : i # Target(c) => draft'[c][i] = draft[c][i]
<1>1. /\ rows' = rows /\ req'[c] = req[c]
      /\ held'[c] = held[c] \cup {Target(c)}
      /\ draft'[c] = [draft[c] EXCEPT ![Target(c)] = row]
  BY DEF Wrote, SameTables
<1>2. draft[c] \in [Ids -> Secret \cup {Absent}] /\ held[c] \subseteq Ids
  BY DEF Owned, Structured, TypeOK, Tables
<1>3. Target(c) \in Ids
  BY WritingPuts DEF Put
<1> QED BY <1>1, <1>2, <1>3 DEF Items

\* An insert has written the rows of the items so far.
LEMMA InsertedWritten ==
  ASSUME Owned, NEW c \in Calls, Inserted(c), WrittenSound(c)
  PROVE  WrittenSound(c)'
<1>0. Structured /\ Creates(req[c]) /\ HasItems(req[c]) /\ todo[c] # << >> /\ Writing(c)
  BY DEF Owned, Inserted, Stepped, HasItems, Writing
<1>1. /\ Done(c) \in Nat /\ Done(c) + 1 \in 1 .. Len(Items(c))
      /\ Head(todo[c]) = Items(c)[Done(c) + 1]
  BY <1>0, HeadItem
<1> DEFINE row == RowOf(Head(todo[c]), 1)
<1>2. Wrote(c, Target(c), row)
  BY DEF Inserted
<1> HIDE DEF row
<1>3. /\ rows' = rows /\ req'[c] = req[c] /\ Items(c)' = Items(c)
      /\ held'[c] = held[c] \cup {Target(c)} /\ draft'[c][Target(c)] = row
      /\ \A i \in held[c] : i # Target(c) => draft'[c][i] = draft[c][i]
  BY <1>0, <1>2, WrittenRows
<1>4. Done(c)' = Done(c) + 1
  BY <1>0, <1>3, SteppedProgress DEF Inserted
<1>5. req[c] \in Requests
  BY <1>0 DEF Structured, Shape, Writes
<1>6. \A m, n \in 1 .. Len(Items(c)) : Items(c)[m].id = Items(c)[n].id => m = n
  BY <1>0, <1>5, SecretDataAssumption DEF Items
<1>7. ASSUME NEW m \in 1 .. Done(c) + 1
      PROVE  /\ Items(c)[m].id \in held'[c]
             /\ draft'[c][Items(c)[m].id] = RowOf(Items(c)[m], 1)
  <2>1. CASE m = Done(c) + 1
    BY <1>1, <1>3, <2>1 DEF Target, row
  <2>2. CASE m # Done(c) + 1
    <3>1. m \in 1 .. Done(c) /\ m \in 1 .. Len(Items(c))
      BY <1>1, <1>7, <2>2
    <3>2. Items(c)[m].id \in held[c] /\ draft[c][Items(c)[m].id] = RowOf(Items(c)[m], 1)
      BY <1>0, <3>1 DEF WrittenSound, CreatesWritten
    <3>3. Items(c)[m].id # Target(c)
      BY <1>1, <1>6, <2>2, <3>1 DEF Target
    <3> QED BY <1>3, <3>2, <3>3
  <2> QED BY <2>1, <2>2
<1>8. CreatesWritten(c)'
  BY <1>3, <1>4, <1>7 DEF CreatesWritten
<1>9. UpdatesWritten(c)' /\ OthersWritten(c)'
  BY <1>0, <1>3 DEF UpdatesWritten, OthersWritten, Creates, Updates
<1> QED BY <1>8, <1>9 DEF WrittenSound

\* A lock has written nothing new.
LEMMA LockedWritten ==
  ASSUME Owned, NEW c \in Calls, Locked(c), WrittenSound(c)
  PROVE  WrittenSound(c)'
<1>0. Structured /\ Updates(req[c]) /\ HasItems(req[c]) /\ todo[c] # << >> /\ Writing(c)
  BY DEF Owned, Locked, HasItems, Writing
<1>1. /\ Done(c) + 1 \in 1 .. Len(Items(c))
      /\ Head(todo[c]) = Items(c)[Done(c) + 1]
  BY <1>0, HeadItem
<1> DEFINE row == View(c)[Target(c)]
<1>2. Wrote(c, Target(c), row)
  BY DEF Locked
<1> HIDE DEF row
<1>3. /\ rows' = rows /\ req'[c] = req[c] /\ Items(c)' = Items(c) /\ Target(c) \in Ids
      /\ held'[c] = held[c] \cup {Target(c)} /\ draft'[c][Target(c)] = row
      /\ \A i \in held[c] : i # Target(c) => draft'[c][i] = draft[c][i]
  BY <1>0, <1>2, WrittenRows
<1>4. Done(c)' = Done(c) /\ logged'[c] = logged[c]
  BY <1>3 DEF Done, Locked
<1>5. \A i \in held[c] : draft'[c][i] = draft[c][i]
  BY <1>3, ViewAt DEF row
<1>6. Target(c) \in IdsOf(Items(c))
  BY <1>1 DEF Target, IdsOf
<1>7. UpdatesWritten(c)'
  BY <1>0, <1>3, <1>4, <1>5, <1>6 DEF WrittenSound, UpdatesWritten, LastUpTo
<1>8. CreatesWritten(c)' /\ OthersWritten(c)'
  BY <1>0, <1>3 DEF CreatesWritten, OthersWritten, Creates, Updates
<1> QED BY <1>7, <1>8 DEF WrittenSound

\* An update has written the last item of each secret so far.
LEMMA UpdatedWritten ==
  ASSUME Owned, NEW c \in Calls, Updated(c), WrittenSound(c)
  PROVE  WrittenSound(c)'
<1>0. Structured /\ Updates(req[c]) /\ HasItems(req[c]) /\ todo[c] # << >> /\ Writing(c)
  BY DEF Owned, Updated, HasItems, Writing, Stepped
<1>1. /\ Done(c) \in Nat /\ Done(c) + 1 \in 1 .. Len(Items(c))
      /\ Head(todo[c]) = Items(c)[Done(c) + 1]
  BY <1>0, HeadItem
<1> DEFINE row == RowOf(Head(todo[c]), NewVersion(c))
<1>2. Wrote(c, Target(c), row)
  BY DEF Updated
<1>3. row = RowOf(Items(c)[Done(c) + 1], row.version)
  BY <1>1 DEF RowOf
<1> HIDE DEF row
<1>4. /\ rows' = rows /\ req'[c] = req[c] /\ Items(c)' = Items(c) /\ Target(c) \in Ids
      /\ held'[c] = held[c] \cup {Target(c)} /\ draft'[c][Target(c)] = row
      /\ \A i \in held[c] : i # Target(c) => draft'[c][i] = draft[c][i]
  BY <1>0, <1>2, WrittenRows
<1>5. Done(c)' = Done(c) + 1
  BY <1>0, <1>4, SteppedProgress DEF Updated
<1>6. logged[c] \in [Ids -> Nat] /\ logged'[c] = [logged[c] EXCEPT ![Target(c)] = @ + 1]
  BY <1>0 DEF Structured, TypeOK, Updated
<1>7. held[c] \subseteq Ids
  BY <1>0 DEF Structured, TypeOK
<1>8. Target(c) = Items(c)[Done(c) + 1].id
  BY <1>1 DEF Target
<1>9. ASSUME NEW m \in 1 .. Done(c) + 1
      PROVE  /\ Items(c)[m].id \in held'[c]
             /\ logged'[c][Items(c)[m].id] > 0
             /\ \E n \in 1 .. Done(c) + 1 :
                  /\ Items(c)[n].id = Items(c)[m].id
                  /\ LastUpTo(Items(c), n, Done(c) + 1)
                  /\ draft'[c][Items(c)[m].id] =
                       RowOf(Items(c)[n], draft'[c][Items(c)[m].id].version)
  <2>1. CASE Items(c)[m].id = Target(c)
    <3>1. logged'[c][Target(c)] > 0
      BY <1>4, <1>6
    <3>2. Done(c) + 1 \in 1 .. Done(c) + 1 /\ LastUpTo(Items(c), Done(c) + 1, Done(c) + 1)
      BY <1>1 DEF LastUpTo
    <3>3. draft'[c][Items(c)[m].id] =
            RowOf(Items(c)[Done(c) + 1], draft'[c][Items(c)[m].id].version)
      BY <1>3, <1>4, <2>1
    <3> QED BY <1>4, <1>8, <2>1, <3>1, <3>2, <3>3
  <2>2. CASE Items(c)[m].id # Target(c)
    <3>1. m \in 1 .. Done(c)
      BY <1>1, <1>8, <1>9, <2>2
    <3>2. PICK n \in 1 .. Done(c) :
            /\ Items(c)[m].id \in held[c] /\ logged[c][Items(c)[m].id] > 0
            /\ Items(c)[n].id = Items(c)[m].id
            /\ LastUpTo(Items(c), n, Done(c))
            /\ draft[c][Items(c)[m].id] =
                 RowOf(Items(c)[n], draft[c][Items(c)[m].id].version)
      BY <1>0, <3>1 DEF WrittenSound, UpdatesWritten
    <3>3. n \in 1 .. Done(c) + 1 /\ LastUpTo(Items(c), n, Done(c) + 1)
      BY <1>1, <1>8, <2>2, <3>2 DEF LastUpTo
    <3>4. draft'[c][Items(c)[m].id] = draft[c][Items(c)[m].id]
      BY <1>4, <2>2, <3>2
    <3>5. logged'[c][Items(c)[m].id] = logged[c][Items(c)[m].id]
      BY <1>6, <1>7, <2>2, <3>2
    <3> QED BY <1>4, <3>2, <3>3, <3>4, <3>5
  <2> QED BY <2>1, <2>2
<1>10. Target(c) \in IdsOf(Items(c))
  BY <1>1, <1>8 DEF IdsOf
<1>11. held'[c] \subseteq IdsOf(Items(c))
  BY <1>0, <1>4, <1>10 DEF WrittenSound, UpdatesWritten
<1>12. UpdatesWritten(c)'
  BY <1>4, <1>5, <1>9, <1>11 DEF UpdatesWritten, LastUpTo
<1>13. CreatesWritten(c)' /\ OthersWritten(c)'
  BY <1>0, <1>4 DEF CreatesWritten, OthersWritten, Creates, Updates
<1> QED BY <1>12, <1>13 DEF WrittenSound

\* An update of comments has changed the comment of each row it holds.
LEMMA CommentedWritten ==
  ASSUME Owned, NEW c \in Calls, Commented(c), WrittenSound(c)
  PROVE  WrittenSound(c)'
<1>0. Structured /\ TypeOK /\ req[c].op = "comment" /\ Writing(c) /\ Live(View(c), Target(c))
  BY DEF Owned, Structured, Commented, Writing
<1> DEFINE row == [View(c)[Target(c)] EXCEPT !.comment = req[c].comment]
<1>1. Wrote(c, Target(c), row)
  BY DEF Commented
<1> HIDE DEF row
<1>2. /\ rows' = rows /\ req'[c] = req[c] /\ Target(c) \in Ids
      /\ held'[c] = held[c] \cup {Target(c)} /\ draft'[c][Target(c)] = row
      /\ \A i \in held[c] : i # Target(c) => draft'[c][i] = draft[c][i]
  BY <1>0, <1>1, WrittenRows
<1>3. rows[Target(c)] \in Secret
  <2>1. Live(rows, Target(c))
    BY <1>0, <1>2, ViewSound DEF Creates
  <2> QED BY <1>0, <1>2, <2>1, LiveRow DEF TypeOK
<1>4. row = [rows[Target(c)] EXCEPT !.comment = req[c].comment]
  <2>1. CASE Target(c) \in held[c]
    <3>1. View(c)[Target(c)] = [rows[Target(c)] EXCEPT !.comment = req[c].comment]
      BY <1>0, <1>2, <2>1, ViewAt DEF WrittenSound, OthersWritten
    <3> QED BY <1>3, <3>1 DEF row, Secret
  <2>2. CASE Target(c) \notin held[c]
    BY <1>2, <2>2, ViewAt DEF row
  <2> QED BY <2>1, <2>2
<1>5. ASSUME NEW i \in held'[c]
      PROVE  draft'[c][i] = [rows[i] EXCEPT !.comment = req[c].comment]
  <2>1. CASE i = Target(c)
    BY <1>2, <1>4, <2>1
  <2>2. CASE i # Target(c)
    <3>1. i \in held[c] /\ draft'[c][i] = draft[c][i]
      BY <1>2, <1>5, <2>2
    <3> QED BY <1>0, <3>1 DEF WrittenSound, OthersWritten
  <2> QED BY <2>1, <2>2
<1>6. OthersWritten(c)'
  BY <1>0, <1>2, <1>5 DEF OthersWritten
<1>7. CreatesWritten(c)' /\ UpdatesWritten(c)'
  BY <1>0, <1>2 DEF CreatesWritten, UpdatesWritten, Creates, Updates
<1> QED BY <1>6, <1>7 DEF WrittenSound

\* A deletion has deleted each row it holds, and a folder's those of the folder.
LEMMA RemovedWritten ==
  ASSUME Owned, NEW c \in Calls, Removed(c), WrittenSound(c)
  PROVE  WrittenSound(c)'
<1>0. /\ Structured /\ TypeOK /\ req[c].op \in {"delete", "deleteFolder"} /\ Writing(c)
      /\ Live(View(c), Target(c)) /\ todo[c] # << >> /\ Shape(c)
  BY DEF Owned, Structured, Removed, Writing, Stepped
<1> DEFINE row == Deleted(View(c)[Target(c)])
<1>1. Wrote(c, Target(c), row)
  BY DEF Removed
<1> HIDE DEF row
<1>2. /\ rows' = rows /\ req'[c] = req[c] /\ Target(c) \in Ids
      /\ held'[c] = held[c] \cup {Target(c)} /\ draft'[c][Target(c)] = row
      /\ \A i \in held[c] : i # Target(c) => draft'[c][i] = draft[c][i]
  BY <1>0, <1>1, WrittenRows
<1>3. Live(rows, Target(c))
  BY <1>0, <1>2, ViewSound DEF Creates
<1>4. Target(c) \notin held[c]
  <2>1. ASSUME Target(c) \in held[c]
        PROVE  FALSE
    <3>1. View(c)[Target(c)] = Deleted(rows[Target(c)])
      BY <1>0, <1>2, <2>1, ViewAt DEF WrittenSound, OthersWritten
    <3>2. Deleted(rows[Target(c)]).state = "deleted"
      BY <1>0, <1>2, <1>3, LiveRow DEF TypeOK
    <3> QED BY <1>0, <3>1, <3>2 DEF Live
  <2> QED BY <2>1
<1>5. row = Deleted(rows[Target(c)])
  BY <1>2, <1>4, ViewAt DEF row
<1>6. req[c].op = "deleteFolder" => FolderOf[Target(c)] = req[c].folder
  <2>1. todo[c] \in Seq(Item \cup [id : Ids])
    BY <1>0 DEF TypeOK
  <2>2. 1 \in 1 .. Len(todo[c]) /\ Head(todo[c]) = todo[c][1]
    BY <1>0, <2>1
  <2> QED BY <1>0, <2>2 DEF Shape, Target
<1>7. ASSUME NEW i \in held'[c]
      PROVE  /\ draft'[c][i] = Deleted(rows[i])
             /\ req[c].op = "deleteFolder" => FolderOf[i] = req[c].folder
  <2>1. CASE i = Target(c)
    BY <1>2, <1>5, <1>6, <2>1
  <2>2. CASE i # Target(c)
    <3>1. i \in held[c] /\ draft'[c][i] = draft[c][i]
      BY <1>2, <1>7, <2>2
    <3> QED BY <1>0, <3>1 DEF WrittenSound, OthersWritten
  <2> QED BY <2>1, <2>2
<1>8. OthersWritten(c)'
  BY <1>0, <1>2, <1>7 DEF OthersWritten
<1>9. CreatesWritten(c)' /\ UpdatesWritten(c)'
  BY <1>0, <1>2 DEF CreatesWritten, UpdatesWritten, Creates, Updates
<1> QED BY <1>8, <1>9 DEF WrittenSound

AllWritten == \A c \in Calls : WrittenSound(c)

\* Nothing is written where no transaction changes.
LEMMA WrittenStutter ==
  ASSUME AllWritten, UNCHANGED <<rows, req, todo, held, draft, logged>>
  PROVE  AllWritten'
<1>1. ASSUME NEW c \in Calls
      PROVE  WrittenSound(c)'
  <2>1. Items(c)' = Items(c) /\ Done(c)' = Done(c)
    BY DEF Items, Done
  <2>2. WrittenSound(c)
    BY DEF AllWritten
  <2>3. CreatesWritten(c)'
    BY <2>1, <2>2 DEF WrittenSound, CreatesWritten
  <2>4. UpdatesWritten(c)'
    BY <2>1, <2>2 DEF WrittenSound, UpdatesWritten, LastUpTo
  <2>5. OthersWritten(c)'
    BY <2>2 DEF WrittenSound, OthersWritten
  <2> QED BY <2>3, <2>4, <2>5 DEF WrittenSound
<1> QED BY <1>1 DEF AllWritten

\* Every step keeps what transactions have written what was asked for.
LEMMA WrittenStep ==
  ASSUME Owned, AllWritten, [Next]_vars
  PROVE  AllWritten'
<1>0. Structured
  BY DEF Owned
<1>1. ASSUME NEW c \in Calls, OthersSame(c), rows' = rows \/ Committed(c)
      PROVE  \A d \in Calls \ {c} : WrittenSound(d)'
  <2>1. ASSUME NEW d \in Calls \ {c}
        PROVE  WrittenSound(d)'
    <3>1. \A i \in held[d] : rows'[i] = rows[i]
      BY <1>1, OthersRows
    <3> QED BY <1>0, <1>1, <3>1, OthersWrittenSound DEF AllWritten
  <2> QED BY <2>1
<1>2. ASSUME NEW c \in Calls, OthersSame(c), rows' = rows \/ Committed(c), WrittenSound(c)'
      PROVE  AllWritten'
  BY <1>1, <1>2 DEF AllWritten
<1>3. CASE UNCHANGED vars
  BY <1>3, WrittenStutter DEF vars
<1>4. CASE Next
  <2>1. PICK c \in Calls :
          \/ \E r \in pending : Refused(c, r) \/ Begun(c, r)
          \/ Quiet(c) \/ Committed(c) \/ Moved(c) \/ Writing(c)
    BY <1>0, <1>4, Kinds
  <2>2. CASE \E r \in pending : Refused(c, r)
    BY <2>2, WrittenStutter DEF Refused, SameTables
  <2>3. CASE \E r \in pending : Begun(c, r)
    BY <1>0, <1>2, <2>3, BegunWritten DEF Begun, SameTables
  <2>4. CASE Quiet(c) \/ Committed(c)
    BY <1>2, <2>4, EndedWritten DEF Quiet, Committed, Ended, SameTables
  <2>5. CASE Moved(c)
    BY <1>0, <1>2, <2>5, MovedWritten DEF Moved, SameTables, AllWritten
  <2>6. CASE Writing(c)
    <3>1. OthersSame(c) /\ rows' = rows
      BY <2>6 DEF Writing, Inserted, Locked, Updated, Commented, Removed, Wrote, SameTables
    <3>2. WrittenSound(c)'
      BY <2>6, InsertedWritten, LockedWritten, UpdatedWritten, CommentedWritten,
         RemovedWritten DEF Writing, AllWritten
    <3> QED BY <1>2, <3>1, <3>2
  <2> QED BY <2>1, <2>2, <2>3, <2>4, <2>5, <2>6
<1> QED BY <1>3, <1>4

\* The data of the two specifications are the same.
LEMMA SameData ==
  /\ Table!Tables = Tables
  /\ \A t : Table!Unique(t) <=> Unique(t)
  /\ \A r : (Table!Creates(r) <=> Creates(r)) /\ (Table!Updates(r) <=> Updates(r))
  /\ \A items : Table!IdsOf(items) = IdsOf(items)
  /\ \A item, version : Table!RowOf(item, version) = RowOf(item, version)
  /\ \A row : Table!Deleted(row) = Deleted(row)
  /\ \A t, i : Table!Live(t, i) <=> Live(t, i)
  /\ Table!Absent = Absent
  BY DEF Table!Tables, Tables, Table!Secret, Secret, Table!Absent, Absent,
         Table!Unique, Unique, Table!Siblings, Siblings, Table!Live, Live,
         Table!Creates, Creates, Table!Updates, Updates, Table!IdsOf, IdsOf,
         Table!RowOf, RowOf, Table!Deleted, Deleted

\* At a commit every item has been written.
LEMMA AllDone ==
  ASSUME Structured, NEW c \in Calls, pc[c] = "commit", HasItems(req[c])
  PROVE  Done(c) = Len(Items(c)) /\ Len(Items(c)) \in Nat
<1>1. req[c].op # "none"
  BY DEF HasItems, Creates, Updates
<1>2. Items(c) \in Seq(Item)
  BY <1>1, ReqTyped, RequestFields DEF Structured, Items
<1>3. todo[c] = << >>
  BY DEF Structured, Progress
<1> QED BY <1>2, <1>3 DEF Done

\* A commit is one step of the table.
LEMMA CommittedTable ==
  ASSUME Owned, KeysApart, SnapshotsSound, AllWritten, NEW c \in Calls, Committed(c)
  PROVE  Table!Next
<1>0. /\ Structured /\ TypeOK /\ Shape(c) /\ HeldSound(c) /\ WrittenSound(c) /\ SeenSound(c)
      /\ pc[c] = "commit" /\ held[c] \subseteq Ids
  BY DEF Owned, Structured, TypeOK, SnapshotsSound, AllWritten, Committed
<1>1. rows' \in Table!Tables /\ Table!Unique(rows')
  <2>1. rows' = View(c) /\ View(c) \in Tables /\ Unique(View(c))
    BY <1>0, ViewTyped DEF Committed, KeysApart
  <2> QED BY <2>1, SameData
<1>2. Writes(req[c]) /\ req[c] \in Requests
  BY <1>0 DEF Shape
<1>3. \A i \in Ids : i \in held[c] => rows'[i] = draft[c][i]
  BY CommittedRows
<1>4. ASSUME NEW S, held[c] \subseteq S
      PROVE  Table!Others(S)
  BY <1>4, CommittedRows DEF Table!Others
<1>5. CASE Creates(req[c])
  <2>1. Done(c) = Len(Items(c)) /\ Reserved(req[c])
    BY <1>0, <1>5, AllDone DEF HasItems, Owned, Fresh
  <2>2. held[c] \subseteq IdsOf(req[c].items)
    BY <1>0, <1>5 DEF HeldSound, Items
  <2>3. ASSUME NEW n \in 1 .. Len(req[c].items)
        PROVE  /\ rows[req[c].items[n].id] = Absent
               /\ rows'[req[c].items[n].id] = RowOf(req[c].items[n], 1)
    <3>1. /\ req[c].items[n].id \in held[c]
          /\ draft[c][req[c].items[n].id] = RowOf(req[c].items[n], 1)
      BY <1>0, <1>5, <2>1 DEF WrittenSound, CreatesWritten, Items
    <3>2. rows[req[c].items[n].id] = Absent
      BY <1>0, <1>5, <3>1 DEF HeldSound
    <3> QED BY <1>0, <1>3, <3>1, <3>2
  <2>4. Table!Create(req[c])
    BY <1>4, <1>5, <2>2, <2>3, SameData DEF Table!Create
  <2> QED BY <1>1, <1>2, <2>4 DEF Table!Next
<1>6. CASE Updates(req[c])
  <2>1. Done(c) = Len(Items(c)) /\ ~ Creates(req[c])
    BY <1>0, <1>6, AllDone DEF HasItems, Creates, Updates
  <2>2. held[c] \subseteq IdsOf(req[c].items)
    BY <1>0, <1>6 DEF WrittenSound, UpdatesWritten, Items
  <2>3. ASSUME NEW i \in IdsOf(req[c].items)
        PROVE  /\ Live(rows, i)
               /\ rows'[i].version > rows[i].version
               /\ \E n \in 1 .. Len(req[c].items) :
                    /\ req[c].items[n].id = i
                    /\ \A m \in n + 1 .. Len(req[c].items) : req[c].items[m].id # i
                    /\ rows'[i] = RowOf(req[c].items[n], rows'[i].version)
    <3>1. PICK m \in 1 .. Len(Items(c)) : i = Items(c)[m].id
      BY <2>3 DEF IdsOf, Items
    <3>2. PICK n \in 1 .. Done(c) :
            /\ i \in held[c] /\ logged[c][i] > 0
            /\ Items(c)[n].id = i
            /\ LastUpTo(Items(c), n, Done(c))
            /\ draft[c][i] = RowOf(Items(c)[n], draft[c][i].version)
      BY <1>0, <1>6, <2>1, <3>1 DEF WrittenSound, UpdatesWritten
    <3>3. i \in Ids /\ rows'[i] = draft[c][i]
      BY <1>0, <1>3, <3>2
    <3>4. Live(rows, i) /\ draft[c][i].version = 1 + updates[i] + logged[c][i]
      BY <1>0, <2>1, <3>2 DEF HeldSound
    <3>5. rows[i].version = 1 + updates[i]
      BY <3>3, <3>4 DEF Owned, Counted, Live, Absent
    <3>6. updates[i] \in Nat /\ logged[c][i] \in Nat
      BY <1>0, <3>3 DEF TypeOK
    <3>7. rows'[i].version > rows[i].version
      BY <3>2, <3>3, <3>4, <3>5, <3>6
    <3> QED BY <2>1, <3>2, <3>3, <3>4, <3>7 DEF LastUpTo, Items
  <2>4. Table!Update(req[c])
    BY <1>4, <1>6, <2>2, <2>3, SameData DEF Table!Update
  <2> QED BY <1>1, <1>2, <2>4 DEF Table!Next
<1>7. ASSUME ~ HasItems(req[c]), NEW i \in held[c]
      PROVE  Live(rows, i) /\ rows'[i] = draft[c][i]
  BY <1>0, <1>3, <1>7 DEF HeldSound, HasItems
<1>8. CASE req[c].op = "comment"
  <2>1. ~ HasItems(req[c])
    BY <1>8 DEF HasItems, Creates, Updates
  <2>2. \A i \in held[c] :
          Live(rows, i) /\ rows'[i] = [rows[i] EXCEPT !.comment = req[c].comment]
    BY <1>0, <1>7, <1>8, <2>1 DEF WrittenSound, OthersWritten
  <2>3. Table!Comment(req[c])
    BY <1>0, <1>4, <1>8, <2>2, SameData DEF Table!Comment
  <2> QED BY <1>1, <1>2, <2>3 DEF Table!Next
<1>9. CASE req[c].op \in {"delete", "deleteFolder"}
  <2>1. ~ HasItems(req[c])
    BY <1>9 DEF HasItems, Creates, Updates
  <2>2. \A i \in held[c] : Live(rows, i) /\ rows'[i] = Deleted(rows[i])
    BY <1>0, <1>7, <1>9, <2>1 DEF WrittenSound, OthersWritten
  <2>3. Table!Delete(held[c])
    BY <1>4, <2>2, SameData DEF Table!Delete
  <2>4. CASE req[c].op = "delete"
    <3>1. held[c] = {req[c].id}
      BY <1>0, <2>4 DEF SeenSound
    <3>2. Table!DeleteOne(req[c])
      BY <2>3, <2>4, <3>1 DEF Table!DeleteOne
    <3> QED BY <1>1, <1>2, <3>2 DEF Table!Next
  <2>5. CASE req[c].op = "deleteFolder"
    <3>1. held[c] \subseteq {i \in Ids : FolderOf[i] = req[c].folder}
      BY <1>0, <2>5 DEF WrittenSound, OthersWritten
    <3>2. Table!DeleteFolder(req[c])
      BY <2>3, <2>5, <3>1 DEF Table!DeleteFolder
    <3> QED BY <1>1, <1>2, <3>2 DEF Table!Next
  <2> QED BY <1>9, <2>4, <2>5
<1> QED BY <1>2, <1>5, <1>6, <1>8, <1>9 DEF Writes, HasItems

\* What happens to the table of secrets, whatever transactions, locks,
\* rollbacks and deadlocks there are, is that whole requests change it one at a
\* time, as SecretRows says: SecretStore implements SecretRows.
THEOREM StoreImplementsTable == Spec => ImplementsTable
<1> DEFINE All == Owned /\ KeysApart /\ SnapshotsSound /\ AllWritten
<1>1. Init => All
  <2>1. ASSUME Init
        PROVE  AllWritten
    BY <2>1 DEF Init, AllWritten, WrittenSound, CreatesWritten, UpdatesWritten,
                OthersWritten, NoRequest, Creates, Updates
  <2>2. Init => KeysApart
    BY SecretDataAssumption DEF Init, KeysApart, Unique, Live, View, Apart
  <2>3. Init => SnapshotsSound
    BY DEF Init, SnapshotsSound, SnapshotsAreGenuine, SeenSound, Zero
  <2> QED BY <2>1, <2>2, <2>3, OwnedInit
<1>2. All /\ [Next]_vars => All'
  BY OwnedStep, KeysStep, SnapshotsStep, WrittenStep
<1>3. Init => Table!Init
  BY DEF Init, Table!Init
<1>4. All /\ [Next]_vars => [Table!Next]_rows
  <2>1. ASSUME All, [Next]_vars
        PROVE  [Table!Next]_rows
    <3>1. CASE UNCHANGED vars
      BY <3>1 DEF vars
    <3>2. CASE Next
      <4>1. PICK c \in Calls :
              \/ \E r \in pending : Refused(c, r) \/ Begun(c, r)
              \/ Quiet(c) \/ Committed(c) \/ Moved(c) \/ Writing(c)
        BY <2>1, <3>2, Kinds DEF Owned
      <4>2. Committed(c) \/ rows' = rows
        BY <4>1 DEF Refused, Begun, Quiet, Moved, Writing, Inserted, Locked, Updated,
                    Commented, Removed, Wrote, SameTables
      <4> QED BY <2>1, <4>2, CommittedTable
    <3> QED BY <2>1, <3>1, <3>2
  <2> QED BY <2>1
<1> HIDE DEF All
<1> QED BY <1>1, <1>2, <1>3, <1>4, PTL DEF Spec, ImplementsTable, Table!Spec
=============================================================================
