---------------------------- MODULE SecretStore ----------------------------
(***************************************************************************)
(* The requests that write secrets, as PostgreSQL runs them: each checks   *)
(* what it must outside of any transaction, then changes its rows one      *)
(* statement at a time in a transaction at READ COMMITTED and commits.  An *)
(* update locks its row, and then may wait for the unique index on         *)
(* (folder_id, key); an insert waits for the index only.  A secret is      *)
(* revealed by reading it and recording that in the audit trail.           *)
(*                                                                         *)
(* Modelled: the secret operations of internal/store/postgres/             *)
(* repository.go and those of internal/service/secret_service.go that      *)
(* call them.  Who may do what is RoleBindings' subject and whether the    *)
(* folder is there is Resources'; Redis is SecretCache's.  Locks, the      *)
(* unique index and the deadlock detector are PostgreSQL's, modelled by    *)
(* what the statements here meet.                                          *)
(***************************************************************************)
EXTENDS SecretData

CONSTANTS Calls,       \* handlers that may run at once
          MaxRequests, \* bound: how many requests are made, each once
          MaxValues,   \* most secrets that BatchUpdateByIDs takes
          MaxErrors    \* bound: handlers that fail

ASSUME SecretStoreAssumption ==
         MaxRequests \in Nat /\ MaxValues \in Nat /\ MaxErrors \in Nat

VARIABLES rows,     \* the committed rows
          updates,  \* committed audit rows with action "update", per secret
          trash,    \* deleted_records: the version snapshot, 0 without one
          reveals,  \* audit rows with action "reveal", per secret
          answered, \* values handed out by a reveal, per secret
          pending,  \* requests not made yet
          errors,   \* handlers that have failed
          pc,       \* where each handler is
          req,      \* its request
          todo,     \* the statements of its transaction still to come
          held,     \* the rows its transaction has locked or inserted
          draft,    \* those rows as the transaction has them
          logged,   \* the audit rows "update" it has inserted
          seen      \* the version a snapshot or a reveal has read

vars == <<rows, updates, trash, reveals, answered, pending, errors, pc, req,
          todo, held, draft, logged, seen>>
tables == <<rows, updates, trash, reveals, answered>>

NoRequest == [op |-> "none"]
Pcs == {"idle", "check", "find", "row", "key", "commit", "audit"}

TypeOK ==
  /\ rows \in Tables
  /\ updates \in [Ids -> Nat]
  /\ trash \in [Ids -> Nat]
  /\ reveals \in [Ids -> Nat]
  /\ answered \in [Ids -> Nat]
  /\ pending \subseteq Requests
  /\ errors \in 0 .. MaxErrors
  /\ pc \in [Calls -> Pcs]
  /\ req \in [Calls -> Request \cup {NoRequest}]
  /\ todo \in [Calls -> Seq(Item \cup [id : Ids])]
  /\ held \in [Calls -> SUBSET Ids]
  /\ draft \in [Calls -> Tables]
  /\ logged \in [Calls -> [Ids -> Nat]]
  /\ seen \in [Calls -> Nat]

Zero == [i \in Ids |-> 0]

Init ==
  /\ rows = Initial
  /\ updates = Zero /\ trash = Zero /\ reveals = Zero /\ answered = Zero
  /\ pending = Requests
  /\ errors = 0
  /\ pc = [c \in Calls |-> "idle"]
  /\ req = [c \in Calls |-> NoRequest]
  /\ todo = [c \in Calls |-> << >>]
  /\ held = [c \in Calls |-> {}]
  /\ draft = [c \in Calls |-> Initial]
  /\ logged = [c \in Calls |-> Zero]
  /\ seen = [c \in Calls |-> 0]


\* The table as c's transaction sees it.
View(c) == [i \in Ids |-> IF i \in held[c] THEN draft[c][i] ELSE rows[i]]

\* The handler ends; what its transaction has not committed is gone.
Finish(c) ==
  /\ pc' = [pc EXCEPT ![c] = "idle"]
  /\ req' = [req EXCEPT ![c] = NoRequest]
  /\ todo' = [todo EXCEPT ![c] = << >>]
  /\ held' = [held EXCEPT ![c] = {}]
  /\ draft' = [draft EXCEPT ![c] = Initial]
  /\ logged' = [logged EXCEPT ![c] = Zero]
  /\ seen' = [seen EXCEPT ![c] = 0]
  /\ UNCHANGED pending
LeaveOpen(c) ==
  /\ pc' = [pc EXCEPT ![c] = "idle"]
  /\ UNCHANGED <<tables, pending, errors, req, todo, held, draft, logged, seen>>
KeepWritten(c) ==
  /\ rows' = View(c)
  /\ Finish(c) /\ UNCHANGED <<updates, trash, reveals, answered, errors>>
Rollback(c) == Finish(c) /\ UNCHANGED <<tables, errors>>

-----------------------------------------------------------------------------
(* Before the transaction *)

Submit(c, r) ==
  /\ pc[c] = "idle" /\ r \in pending
  /\ Cardinality(Requests \ pending) < MaxRequests
  /\ pending' = pending \ {r}

Begin(c, r, at, items) ==
  /\ Submit(c, r)
  /\ req' = [req EXCEPT ![c] = r]
  /\ pc' = [pc EXCEPT ![c] = at]
  /\ todo' = [todo EXCEPT ![c] = items]
  /\ UNCHANGED <<tables, errors, held, draft, logged, seen>>

\* A request refused as it stands.
Refuse(c, r) ==
  /\ Submit(c, r)
  /\ UNCHANGED <<tables, errors, pc, req, todo, held, draft, logged, seen>>

\* A read lets the handler go on or ends it.
Check(c, condition, to) ==
  IF condition
    THEN /\ pc' = [pc EXCEPT ![c] = to]
         /\ UNCHANGED <<tables, pending, errors, req, todo, held, draft, logged, seen>>
    ELSE Rollback(c)

Create(c, r) == r.op = "create" /\ Begin(c, r, "key", r.items)

BatchCreate(c, r) ==
  /\ r.op = "createBatch"
  /\ IF r.items = << >> THEN Refuse(c, r) ELSE Begin(c, r, "key", r.items)

Update(c, r) == r.op = "update" /\ Begin(c, r, "check", r.items)

BatchUpdate(c, r) ==
  /\ r.op = "updateBatch"
  /\ IF r.items = << >> THEN Refuse(c, r) ELSE Begin(c, r, "check", r.items)

\* At most MaxValues secrets, none twice.
ByIdsAcceptable(r) ==
  /\ Len(r.items) \in 1 .. MaxValues
  /\ Cardinality(IdsOf(r.items)) = Len(r.items)
BatchUpdateByIDs(c, r) ==
  /\ r.op = "updateByIds"
  /\ IF ByIdsAcceptable(r) THEN Begin(c, r, "check", r.items) ELSE Refuse(c, r)

CommentByKey(c, r) == r.op = "comment" /\ Begin(c, r, "check", << >>)
Delete(c, r) == r.op = "delete" /\ Begin(c, r, "check", <<[id |-> r.id]>>)
DeleteFolder(c, r) == r.op = "deleteFolder" /\ Begin(c, r, "find", << >>)
Reveal(c, r) == r.op = "reveal" /\ Begin(c, r, "check", <<[id |-> r.id]>>)
RevealByPath(c, r) == r.op = "revealByPath" /\ Begin(c, r, "check", << >>)

AllLive(S) == \A i \in S : Live(rows, i)

\* A resource that is gone has no scopes, so nobody is allowed anything on it.
Allow(c) ==
  /\ pc[c] = "check" /\ req[c].op \in {"update", "updateBatch", "delete", "reveal"}
  /\ Check(c, AllLive(IdsOf(todo[c])),
           IF req[c].op \in {"delete", "reveal"} THEN "find" ELSE "row")

\* The secrets must all be there and have one key among them.
GetSecretsKeys(c) ==
  /\ pc[c] = "check" /\ req[c].op = "updateByIds"
  /\ Check(c, /\ AllLive(IdsOf(todo[c]))
              /\ \A i, j \in IdsOf(todo[c]) : rows[i].key = rows[j].key, "row")

Plan(c, S, to) ==
  /\ \E order \in Orders(S) :
       todo' = [todo EXCEPT ![c] = [n \in DOMAIN order |-> [id |-> order[n]]]]
  /\ pc' = [pc EXCEPT ![c] = to]
  /\ UNCHANGED <<tables, pending, errors, req, held, draft, logged, seen>>

GetSecretIdsByKey(c) ==
  /\ pc[c] = "check" /\ req[c].op = "comment"
  /\ LET found == {i \in Ids : Live(rows, i) /\ rows[i].key = req[c].key}
     IN  IF found = {} THEN Rollback(c) ELSE Plan(c, found, "row")

\* RevealByPath asks Allow, then Reveal does once more.  Nothing is done in
\* between, and a secret that is gone does not come back: whom the second lets
\* through the first has let through, so one is enough here.
GetSecretByPath(c) ==
  /\ pc[c] = "check" /\ req[c].op = "revealByPath"
  /\ LET found == {i \in Ids : /\ FolderOf[i] = req[c].folder
                               /\ Live(rows, i) /\ rows[i].key = req[c].key}
     IN  IF found = {}
           THEN Rollback(c)
           ELSE /\ \E i \in found :
                     /\ req' = [req EXCEPT ![c] = [op |-> "reveal", id |-> i]]
                     /\ todo' = [todo EXCEPT ![c] = <<[id |-> i]>>]
                /\ UNCHANGED <<tables, pending, errors, pc, held, draft, logged, seen>>

-----------------------------------------------------------------------------
(* The transaction *)

Target(c) == Head(todo[c]).id

\* Other transactions that hold the row c wants, or that give a row of its
\* folder the key it wants or take it from one.
OldKeysHeld(d, j) == IF Live(rows, j) THEN {rows[j].key} ELSE {}
KeysHeld(d, j) == {table[j].key : table \in {t \in {rows, draft[d]} : Live(t, j)}}
KeyBlockers(c) ==
  {d \in Calls \ {c} : \E j \in held[d] : /\ Siblings(j, Target(c))
                                          /\ Head(todo[c]).key \in KeysHeld(d, j)}
RowBlockers(c) == {d \in Calls \ {c} : Target(c) \in held[d]}
Blockers(c) == CASE pc[c] = "row" -> RowBlockers(c)
                 [] pc[c] = "key" -> KeyBlockers(c)
                 [] OTHER -> {}

Taken(c) ==
  \E j \in Ids : /\ Siblings(j, Target(c)) /\ Live(View(c), j)
                 /\ View(c)[j].key = Head(todo[c]).key

\* After a statement comes the next one, or the commit.
Step(c) ==
  /\ todo' = [todo EXCEPT ![c] = Tail(@)]
  /\ pc' = [pc EXCEPT ![c] = IF Len(todo[c]) = 1 THEN "commit"
                             ELSE IF Creates(req[c]) THEN "key" ELSE "row"]
  /\ UNCHANGED <<tables, pending, errors, req>>

\* The transaction has row i as given.
Write(c, i, row) ==
  /\ held' = [held EXCEPT ![c] = @ \cup {i}]
  /\ draft' = [draft EXCEPT ![c][i] = row]

\* An insert: a key that is taken is a conflict.
InsertRow(c) ==
  /\ pc[c] = "key" /\ KeyBlockers(c) = {}
  /\ IF Taken(c)
       THEN Rollback(c)
       ELSE /\ Write(c, Target(c), RowOf(Head(todo[c]), 1))
            /\ Step(c)
            /\ UNCHANGED <<logged, seen>>
CreateSecret(c) == req[c].op = "create" /\ InsertRow(c)
BatchCreateSecrets(c) == req[c].op = "createBatch" /\ InsertRow(c)

\* An update locks the row first.  One that is gone ends the batch.
LockRow(c) ==
  /\ pc[c] = "row" /\ Updates(req[c]) /\ RowBlockers(c) = {}
  /\ IF Live(View(c), Target(c))
       THEN /\ Write(c, Target(c), View(c)[Target(c)])
            /\ pc' = [pc EXCEPT ![c] = "key"]
            /\ UNCHANGED <<tables, pending, errors, req, todo, logged, seen>>
       ELSE Rollback(c)

CommittedVersion(c) == rows[Target(c)].version + 1
NewVersion(c) == draft[c][Target(c)].version + 1

\* Then it writes, and with it an audit row.
UpdateRow(c) ==
  /\ pc[c] = "key" /\ KeyBlockers(c) = {}
  /\ IF Taken(c)
       THEN Rollback(c)
       ELSE /\ Write(c, Target(c), RowOf(Head(todo[c]), NewVersion(c)))
            /\ logged' = [logged EXCEPT ![c][Target(c)] = @ + 1]
            /\ Step(c)
            /\ UNCHANGED seen
UpdateSecret(c) == req[c].op = "update" /\ UpdateRow(c)
BatchUpdateSecrets(c) == req[c].op \in {"updateBatch", "updateByIds"} /\ UpdateRow(c)

BatchUpdateCommentByIds(c) ==
  /\ pc[c] = "row" /\ req[c].op = "comment" /\ RowBlockers(c) = {}
  /\ IF Live(View(c), Target(c))
       THEN /\ Write(c, Target(c),
                     [View(c)[Target(c)] EXCEPT !.comment = req[c].comment])
            /\ Step(c)
            /\ UNCHANGED <<logged, seen>>
       ELSE Rollback(c)

\* A deletion reads its snapshot, and updates the row later.
snapshotTx(c) ==
  /\ pc[c] = "find" /\ req[c].op = "delete"
  /\ IF Live(rows, req[c].id)
       THEN /\ seen' = [seen EXCEPT ![c] = rows[req[c].id].version]
            /\ pc' = [pc EXCEPT ![c] = "row"]
            /\ UNCHANGED <<tables, pending, errors, req, todo, held, draft, logged>>
       ELSE Rollback(c)

DeleteUnlocked(c) ==
  /\ pc[c] = "row" /\ req[c].op = "delete"
  /\ Write(c, Target(c), Deleted(View(c)[Target(c)]))
  /\ Step(c)
  /\ UNCHANGED <<logged, seen>>
DeleteRow(c) ==
  /\ pc[c] = "row" /\ req[c].op = "delete" /\ RowBlockers(c) = {}
  /\ IF Live(View(c), Target(c))
       THEN /\ Write(c, Target(c), Deleted(View(c)[Target(c)]))
            /\ Step(c)
            /\ UNCHANGED <<logged, seen>>
       ELSE Rollback(c)

\* The cascade of a folder: one statement over the secrets that are live when
\* it begins, which skips those that are gone when it gets to them.
FindInFolder(c) ==
  /\ pc[c] = "find" /\ req[c].op = "deleteFolder"
  /\ LET found == {i \in Ids : FolderOf[i] = req[c].folder /\ Live(rows, i)}
     IN  Plan(c, found, IF found = {} THEN "commit" ELSE "row")

DeleteInFolder(c) ==
  /\ pc[c] = "row" /\ req[c].op = "deleteFolder" /\ RowBlockers(c) = {}
  /\ IF Live(View(c), Target(c))
       THEN Write(c, Target(c), Deleted(View(c)[Target(c)]))
       ELSE UNCHANGED <<held, draft>>
  /\ Step(c)
  /\ UNCHANGED <<logged, seen>>

Commit(c) ==
  /\ pc[c] = "commit"
  /\ rows' = View(c)
  /\ updates' = [i \in Ids |-> updates[i] + logged[c][i]]
  /\ trash' = IF req[c].op = "delete" THEN [trash EXCEPT ![req[c].id] = seen[c]]
                                      ELSE trash
  /\ UNCHANGED <<reveals, answered, errors>>
  /\ Finish(c)

-----------------------------------------------------------------------------
(* Revealing *)

GetSecretCiphertext(c) ==
  /\ pc[c] = "find" /\ req[c].op = "reveal"
  /\ IF Live(rows, req[c].id)
       THEN /\ seen' = [seen EXCEPT ![c] = rows[req[c].id].version]
            /\ pc' = [pc EXCEPT ![c] = "audit"]
            /\ UNCHANGED <<tables, pending, errors, req, todo, held, draft, logged>>
       ELSE Rollback(c)

\* The value is handed out once the audit row is written, and not without it.
AlwaysAnswered(written) == TRUE
Answered(written) == written

RecordAudit(c) ==
  /\ pc[c] = "audit"
  /\ \E written \in BOOLEAN :
       /\ written \/ errors < MaxErrors
       /\ errors' = IF written THEN errors ELSE errors + 1
       /\ reveals' = IF written THEN [reveals EXCEPT ![req[c].id] = @ + 1] ELSE reveals
       /\ answered' = IF Answered(written) THEN [answered EXCEPT ![req[c].id] = @ + 1]
                                           ELSE answered
  /\ UNCHANGED <<rows, updates, trash>>
  /\ Finish(c)

-----------------------------------------------------------------------------
(* What goes wrong *)

\* A query fails, the request is cancelled, the value cannot be encrypted or
\* decrypted, or the process stops.
Fail(c) ==
  /\ pc[c] # "idle" /\ errors < MaxErrors
  /\ errors' = errors + 1
  /\ Finish(c) /\ UNCHANGED tables

\* Transactions that wait for each other: PostgreSQL ends one of them.
Circle(D) == D # {} /\ \A d \in D : Blockers(d) \cap D # {}
BreakDeadlock(c) ==
  /\ \E D \in SUBSET Calls : /\ c \in D /\ Circle(D)
                             /\ \A E \in SUBSET D : Circle(E) => E = D
  /\ Rollback(c)

-----------------------------------------------------------------------------
Start(c, r) ==
  \/ Create(c, r) \/ BatchCreate(c, r)
  \/ Update(c, r) \/ BatchUpdate(c, r) \/ BatchUpdateByIDs(c, r)
  \/ CommentByKey(c, r) \/ Delete(c, r) \/ DeleteFolder(c, r)
  \/ Reveal(c, r) \/ RevealByPath(c, r)

Continue(c) ==
  \/ Allow(c) \/ GetSecretsKeys(c) \/ GetSecretIdsByKey(c) \/ GetSecretByPath(c)
  \/ CreateSecret(c) \/ BatchCreateSecrets(c)
  \/ LockRow(c) \/ UpdateSecret(c) \/ BatchUpdateSecrets(c)
  \/ BatchUpdateCommentByIds(c)
  \/ snapshotTx(c) \/ DeleteRow(c) \/ FindInFolder(c) \/ DeleteInFolder(c)
  \/ Commit(c)
  \/ GetSecretCiphertext(c) \/ RecordAudit(c)

Next ==
  \E c \in Calls :
    (\E r \in pending : Start(c, r)) \/ Continue(c) \/ BreakDeadlock(c) \/ Fail(c)

Spec == Init /\ [][Next]_vars

\* The database runs every statement whose locks are free, and looks for
\* deadlocks.
FairSpec ==
  /\ Spec
  /\ \A c \in Calls : WF_vars(Continue(c))
  /\ WF_vars(\E c \in Calls : BreakDeadlock(c))

-----------------------------------------------------------------------------
(* Properties *)

\* However creations, renamings and deletions overlap, no two active secrets
\* of a folder ever have the same key, so a path names one secret
\* (GetSecretByPath and the folder's map of keys rely on it).
KeysUnique == Unique(rows)

\* No update is lost: a secret's version says how many updates the audit
\* trail has of it, although batches overlap, repeat a secret or are rolled
\* back (version = version + 1 and recordAuditTx in one transaction).
VersionsCountUpdates ==
  \A i \in Ids : rows[i] # Absent => rows[i].version = 1 + updates[i]

\* A secret with a record in deleted_records is and stays deleted, and the
\* record is of a version it had, if not always of its last one
\* (snapshotAndSoftDeleteTx).
SnapshotsAreGenuine ==
  \A i \in Ids : trash[i] > 0 => /\ rows[i].state = "deleted"
                                 /\ trash[i] <= rows[i].version

\* Nobody gets a value that the audit trail does not know of (Reveal fails
\* when its audit row cannot be written).
RevealsAudited == \A i \in Ids : answered[i] <= reveals[i]

\* Every request changes the table in one step or not at all, and in no other
\* way than SecretRows allows.
Table == INSTANCE SecretRows WITH rows <- rows
ImplementsTable == Table!Spec

\* Every handler ends: who waits for a row or a key gets it once the other
\* transaction is over, and transactions that wait for each other are parted.
HandlersEnd == \A c \in Calls : pc[c] # "idle" ~> pc[c] = "idle"
=============================================================================
