---------------------------- MODULE SecretCache ----------------------------
(***************************************************************************)
(* The copy of the secrets that Redis keeps for the search across all      *)
(* resources: one hash per secret, one key per path, and the set of ids a  *)
(* search starts from.  A request that has committed reads its secrets     *)
(* again and then writes them to Redis, one command at a time; the warm-up *)
(* of a starting instance lists the table and replaces everything.  A      *)
(* search reads the ids, then the hashes, and then asks the database for   *)
(* every hit whether the caller may see it.                                *)
(*                                                                         *)
(* Modelled: the secrets' part of internal/store/redis/cache.go with its   *)
(* callers, cacheUpsert in internal/service/secret_service.go,             *)
(* warmupSecretCache in internal/app/app.go and GlobalSearch in            *)
(* internal/http/controller/search.go.  Redis runs one command at a time.  *)
(*                                                                         *)
(* The requests commit in one step.  What the step may do is what          *)
(* SecretStore, which has the transactions, is shown to promise in         *)
(* SecretRows: a comment or the deletion of a folder reaches those secrets *)
(* it had found that are live when their rows are written, any of them.    *)
(***************************************************************************)
EXTENDS SecretData

CONSTANTS Calls,       \* handlers that may write secrets at once
          Warmers,     \* instances that start, each warming up once
          Searches,    \* searches, each made once
          Keyword,     \* what they look for: a value or a comment
          Limit,       \* most hits of a search
          Readable,    \* the secrets that who searches may read
          MaxRequests, \* bound: how many requests are made, each once
          MaxErrors    \* bound: Redis commands that fail

ASSUME SecretCacheAssumption ==
         /\ Calls \cap Warmers = {}
         /\ Keyword \in Values \cup Comments
         /\ Limit \in Nat \ {0}
         /\ Readable \subseteq Ids
         /\ MaxRequests \in Nat /\ MaxErrors \in Nat

VARIABLES rows,    \* the table
          hash,    \* the hash of each secret
          paths,   \* the path keys
          index,   \* the set of ids
          pending, \* requests not made yet
          errors,  \* Redis commands that have failed
          proc,    \* handlers and warm-ups
          search,  \* searches
          alone,   \* history: per process, the secrets that nobody else has
                   \* touched, in the table or in Redis, since it read them
          fresh    \* history: the secrets that somebody alone wrote last

vars == <<rows, hash, paths, index, pending, errors, proc, search, alone, fresh>>
redis == <<hash, paths, index>>

Procs == Calls \cup Warmers
None == [value |-> "none"]
Paths == Folders \X Keys
NoId == ""
PathOf(i, key) == <<FolderOf[i], key>>

Idle == [pc |-> "idle", read |-> << >>, todo |-> << >>, found |-> {}]
NoSearch == [pc |-> "new", hits |-> {}, answer |-> {}, bodies |-> 0, gone |-> {}]

EntryOf(row) == [key |-> row.key, value |-> row.value, comment |-> row.comment,
                 version |-> row.version]
RecordOf(i, row) == [id |-> i, key |-> row.key, value |-> row.value,
                     comment |-> row.comment, version |-> row.version]

\* At the start Redis has what a complete warm-up leaves.
Init ==
  /\ rows = Initial
  /\ hash = [i \in Ids |-> IF Live(Initial, i) THEN EntryOf(Initial[i]) ELSE None]
  /\ paths = [p \in Paths |->
                IF \E i \in Ids : Live(Initial, i) /\ p = PathOf(i, Initial[i].key)
                  THEN CHOOSE i \in Ids : Live(Initial, i) /\ p = PathOf(i, Initial[i].key)
                  ELSE NoId]
  /\ index = {i \in Ids : Live(Initial, i)}
  /\ pending = Requests
  /\ errors = 0
  /\ proc = [p \in Procs |-> IF p \in Warmers THEN [Idle EXCEPT !.pc = "list"] ELSE Idle]
  /\ search = [s \in Searches |-> NoSearch]
  /\ alone = [p \in Procs |-> {}]
  /\ fresh = Ids

At(p, pc) == proc[p].pc = pc
Goto(p, pc) == proc' = [proc EXCEPT ![p].pc = pc]
Now(p) == Head(proc[p].todo)

\* p has changed secrets S, in the table or in Redis.
Touch(p, S) ==
  /\ alone' = [q \in Procs |-> IF q = p THEN alone[q] ELSE alone[q] \ S]
  /\ fresh' = fresh \ S
\* p has committed a change of S, and is to bring it to Redis.
TouchRows(p, S) ==
  /\ alone' = [q \in Procs |-> IF q = p THEN S ELSE alone[q] \ S]
  /\ fresh' = fresh \ S
\* p has written secret i, and is done with the secrets S.
Settle(p, i, S) ==
  /\ alone' = [q \in Procs |-> IF q = p THEN alone[q] \ S ELSE alone[q] \ {i}]
  /\ fresh' = (fresh \ {i}) \cup (S \cap alone[p])

-----------------------------------------------------------------------------
(* Requests commit *)

Submit(c, r) ==
  /\ At(c, "idle") /\ r \in pending
  /\ Cardinality(Requests \ pending) < MaxRequests
  /\ pending' = pending \ {r}

\* The request commits; its secrets wait to be read again.  A request that
\* commits nothing ends there.
Commit(c, r, table, S, next) ==
  /\ Submit(c, r)
  /\ rows' = table
  /\ proc' = [proc EXCEPT ![c] = next]
  /\ TouchRows(c, S)
  /\ UNCHANGED <<redis, errors, search>>

\* Items are applied in their order.
Apply(items, version(_)) ==
  [i \in Ids |->
     LET mine == {n \in 1 .. Len(items) : items[n].id = i}
     IN  IF mine = {} THEN rows[i]
         ELSE RowOf(items[CHOOSE n \in mine : \A m \in mine : m <= n],
                    version(i) + Cardinality(mine))]
Written(items) == [Idle EXCEPT !.pc = "read", !.read = items]

Create(c, r) ==
  LET table == Apply(r.items, LAMBDA i : 0)
  IN  /\ Creates(r) /\ r.items # << >>
      /\ \A i \in IdsOf(r.items) : rows[i] = Absent
      /\ Unique(table)
      /\ Commit(c, r, table, IdsOf(r.items), Written(r.items))

Update(c, r) ==
  LET table == Apply(r.items, LAMBDA i : rows[i].version)
  IN  /\ Updates(r) /\ r.items # << >>
      /\ \A i \in IdsOf(r.items) : Live(rows, i)
      /\ Unique(table)
      /\ Commit(c, r, table, IdsOf(r.items), Written(r.items))

\* An update of comments alone never goes to Redis.  The secrets had the key
\* when the request looked for them.
Comment(c, r) ==
  /\ r.op = "comment"
  /\ \E S \in SUBSET {i \in Ids : Live(rows, i)} :
       Commit(c, r, [i \in Ids |-> IF i \in S THEN [rows[i] EXCEPT !.comment = r.comment]
                                             ELSE rows[i]], S, Idle)

Delete(c, r) ==
  /\ r.op = "delete" /\ Live(rows, r.id)
  /\ Commit(c, r, [rows EXCEPT ![r.id] = Deleted(@)], {r.id},
            [Idle EXCEPT !.pc = "hgetdel", !.todo = <<[id |-> r.id]>>])

\* Nor do the secrets that go with their folder: those it had when the
\* request listed them.
DeleteFolder(c, r) ==
  /\ r.op = "deleteFolder"
  /\ \E S \in SUBSET {i \in Ids : FolderOf[i] = r.folder /\ Live(rows, i)} :
       Commit(c, r, [i \in Ids |-> IF i \in S THEN Deleted(rows[i]) ELSE rows[i]], S, Idle)

-----------------------------------------------------------------------------
(* Writing to Redis *)

\* Every secret of the request is read again, with the value the request
\* has written: when one is gone the request fails, and none goes to Redis.
GetSecret(c) ==
  /\ At(c, "read")
  /\ LET item == Head(proc[c].read)
         row == rows[item.id]
         rest == Tail(proc[c].read)
     IN  IF Live(rows, item.id)
           THEN proc' = [proc EXCEPT
                  ![c].read = rest,
                  ![c].todo = Append(@, [RecordOf(item.id, row) EXCEPT !.value = item.value]),
                  ![c].pc = IF rest = << >> THEN "hget" ELSE "read"]
           ELSE proc' = [proc EXCEPT ![c] = Idle]
  /\ UNCHANGED <<rows, redis, pending, errors, search, alone, fresh>>

\* UpsertSecret, command by command: the path in the hash,
PathIn(i) == IF hash[i] = None THEN {} ELSE {PathOf(i, hash[i].key)}
HGet(p) ==
  /\ At(p, "hget")
  /\ LET old == PathIn(Now(p).id) \ {PathOf(Now(p).id, Now(p).key)}
     IN  proc' = [proc EXCEPT ![p].found = old,
                              ![p].pc = IF old = {} THEN "hset" ELSE "del"]
  /\ UNCHANGED <<rows, redis, pending, errors, search, alone, fresh>>

\* its key, when the path is another one now,
DelOldPath(p) ==
  /\ At(p, "del")
  /\ paths' = [q \in Paths |-> IF q \in proc[p].found THEN NoId ELSE paths[q]]
  /\ proc' = [proc EXCEPT ![p].pc = "hset", ![p].found = {}]
  /\ UNCHANGED <<rows, hash, index, pending, errors, search, alone, fresh>>

\* the hash,
HSet(p) ==
  /\ At(p, "hset")
  /\ hash' = [hash EXCEPT ![Now(p).id] = EntryOf(Now(p))]
  /\ Goto(p, "set")
  /\ Touch(p, {Now(p).id})
  /\ UNCHANGED <<rows, paths, index, pending, errors, search>>

\* the path's key,
SetPath(p) ==
  /\ At(p, "set")
  /\ paths' = [paths EXCEPT ![PathOf(Now(p).id, Now(p).key)] = Now(p).id]
  /\ Goto(p, "sadd")
  /\ UNCHANGED <<rows, hash, index, pending, errors, search, alone, fresh>>

\* and the set of ids.
Forgotten(i) == index
Indexed(i) == index \cup {i}
NextRecord(p) ==
  proc' = [proc EXCEPT ![p].todo = Tail(@), ![p].found = {},
                       ![p].pc = IF Len(proc[p].todo) = 1 THEN "idle" ELSE "hget"]
\* A batch may name a secret twice, and then writes it twice.
Later(p) == IdsOf(Tail(proc[p].todo))
SAdd(p) ==
  /\ At(p, "sadd")
  /\ index' = Indexed(Now(p).id)
  /\ NextRecord(p)
  /\ Settle(p, Now(p).id,
            IF p \in Warmers /\ Len(proc[p].todo) = 1 THEN Ids ELSE {Now(p).id} \ Later(p))
  /\ UNCHANGED <<rows, hash, paths, pending, errors, search>>

UpsertSecret(p) == HGet(p) \/ DelOldPath(p) \/ HSet(p) \/ SetPath(p) \/ SAdd(p)

\* DeleteSecret: the path in the hash, then hash and path, then the id.
HGetPath(c) ==
  /\ At(c, "hgetdel")
  /\ proc' = [proc EXCEPT ![c].found = PathIn(Now(c).id), ![c].pc = "delhash"]
  /\ UNCHANGED <<rows, redis, pending, errors, search, alone, fresh>>
DelHash(c) ==
  /\ At(c, "delhash")
  /\ hash' = [hash EXCEPT ![Now(c).id] = None]
  /\ paths' = [q \in Paths |-> IF q \in proc[c].found THEN NoId ELSE paths[q]]
  /\ Goto(c, "srem")
  /\ Touch(c, {Now(c).id})
  /\ UNCHANGED <<rows, index, pending, errors, search>>
SRem(c) ==
  /\ At(c, "srem")
  /\ index' = index \ {Now(c).id}
  /\ proc' = [proc EXCEPT ![c] = Idle]
  /\ Settle(c, Now(c).id, {Now(c).id})
  /\ UNCHANGED <<rows, hash, paths, pending, errors, search>>

DeleteSecret(c) == HGetPath(c) \/ DelHash(c) \/ SRem(c)

\* The warm-up lists the table and then empties the index.
ListSecretCacheRecords(w) ==
  /\ At(w, "list")
  /\ \E order \in Orders({i \in Ids : Live(rows, i)}) :
       proc' = [proc EXCEPT
         ![w].todo = [n \in DOMAIN order |-> RecordOf(order[n], rows[order[n]])],
         ![w].pc = "delids"]
  /\ alone' = [alone EXCEPT ![w] = Ids]
  /\ UNCHANGED <<rows, redis, pending, errors, search, fresh>>

DelIds(w) ==
  /\ At(w, "delids")
  /\ index' = {}
  /\ Goto(w, "scan")
  /\ Touch(w, Ids)
  /\ UNCHANGED <<rows, hash, paths, pending, errors, search>>

\* The path keys there are, then their deletion: one page of the scan.
ScanPaths(w) ==
  /\ At(w, "scan")
  /\ proc' = [proc EXCEPT ![w].found = {q \in Paths : paths[q] # NoId}, ![w].pc = "delpaths"]
  /\ UNCHANGED <<rows, redis, pending, errors, search, alone, fresh>>
DelPaths(w) ==
  /\ At(w, "delpaths")
  /\ paths' = [q \in Paths |-> IF q \in proc[w].found THEN NoId ELSE paths[q]]
  /\ proc' = [proc EXCEPT ![w].found = {},
                          ![w].pc = IF proc[w].todo = << >> THEN "idle" ELSE "hget"]
  /\ IF proc[w].todo = << >>
       THEN fresh' = fresh \cup alone[w] /\ alone' = [alone EXCEPT ![w] = {}]
       ELSE UNCHANGED <<alone, fresh>>
  /\ UNCHANGED <<rows, hash, index, pending, errors, search>>

WarmSecrets(w) == DelIds(w) \/ ScanPaths(w) \/ DelPaths(w) \/ UpsertSecret(w)

\* A command fails: a handler goes on with its next secret, a warm-up stops.
RedisPcs == {"hget", "del", "hset", "set", "sadd", "hgetdel", "delhash", "srem",
             "delids", "scan", "delpaths"}
RedisFails(p) ==
  /\ proc[p].pc \in RedisPcs /\ errors < MaxErrors
  /\ errors' = errors + 1
  /\ IF p \in Warmers \/ At(p, "hgetdel") \/ At(p, "delhash") \/ At(p, "srem")
       THEN /\ proc' = [proc EXCEPT ![p] = Idle]
            /\ alone' = [alone EXCEPT ![p] = {}]
       ELSE /\ NextRecord(p)
            /\ alone' = [alone EXCEPT ![p] = @ \ {Now(p).id}]
  /\ UNCHANGED <<rows, redis, pending, search, fresh>>

-----------------------------------------------------------------------------
(* Searching *)

SMembers(s) ==
  /\ search[s].pc = "new"
  /\ search' = [search EXCEPT ![s].pc = "members", ![s].hits = index,
                              ![s].gone = {i \in Ids : rows[i].state = "deleted"}]
  /\ UNCHANGED <<rows, redis, pending, errors, proc, alone, fresh>>

\* The comment, or the decrypted value; a secret has no code and no name.
matchKeywordOnFields(entry) == Keyword \in {entry.comment, entry.value}

\* An id without a hash is passed over; the rest is cut at the limit.
searchType(s) ==
  /\ search[s].pc = "members"
  /\ LET matching == {i \in search[s].hits : hash[i] # None /\ matchKeywordOnFields(hash[i])}
     IN  \E H \in SUBSET matching :
           /\ Cardinality(H) = IF Cardinality(matching) < Limit THEN Cardinality(matching)
                                                                ELSE Limit
           /\ search' = [search EXCEPT ![s].pc = "filter", ![s].hits = H]
  /\ UNCHANGED <<rows, redis, pending, errors, proc, alone, fresh>>

\* allowScope: a secret that is gone, or that the caller may not read, is
\* left out, and allowScope answers the request with an error.
AnyHit(i) == TRUE
Allowed(i) == Live(rows, i) /\ i \in Readable
filterSecretHits(s) ==
  /\ search[s].pc = "filter"
  /\ \E i \in search[s].hits :
       search' = [search EXCEPT
         ![s].hits = @ \ {i},
         ![s].answer = IF Allowed(i) THEN @ \cup {i} ELSE @,
         ![s].bodies = IF Allowed(i) THEN @ ELSE @ + 1]
  /\ UNCHANGED <<rows, redis, pending, errors, proc, alone, fresh>>

GlobalSearch(s) ==
  /\ search[s].pc = "filter" /\ search[s].hits = {}
  /\ search' = [search EXCEPT ![s].pc = "done", ![s].bodies = @ + 1]
  /\ UNCHANGED <<rows, redis, pending, errors, proc, alone, fresh>>

-----------------------------------------------------------------------------
Next ==
  \/ \E c \in Calls : \E r \in pending :
       Create(c, r) \/ Update(c, r) \/ Comment(c, r) \/ Delete(c, r) \/ DeleteFolder(c, r)
  \/ \E c \in Calls : GetSecret(c) \/ UpsertSecret(c) \/ DeleteSecret(c)
  \/ \E w \in Warmers : ListSecretCacheRecords(w) \/ WarmSecrets(w)
  \/ \E p \in Procs : RedisFails(p)
  \/ \E s \in Searches :
       SMembers(s) \/ searchType(s) \/ filterSecretHits(s) \/ GlobalSearch(s)

Spec == Init /\ [][Next]_vars

-----------------------------------------------------------------------------
(* Properties *)

\* A request whose secret nobody else touches from its commit to its last
\* command leaves Redis with exactly the committed row, and so does a warm-up
\* from its list to its end, whatever was there before: stale entries come
\* from overlapping writers, failed commands, comments and folders, and the
\* next update of the secret repairs them (UpsertSecret, DeleteSecret,
\* WarmSecrets).
LoneWritersLeaveTheTruth ==
  \A i \in fresh : /\ i \in index <=> Live(rows, i)
                   /\ i \in index => hash[i] = EntryOf(rows[i])

\* Redis may still know a deleted secret, but no search that begins later
\* shows it, nor one that the caller may not read (filterSecretHits).
SearchShowsReadableOnly ==
  \A s \in Searches : search[s].answer \subseteq Readable \ search[s].gone

-----------------------------------------------------------------------------
(* What a document says and the code does not keep: the README has the     *)
(* behaviours that TLC finds                                               *)

\* "Hits without permission are dropped" (search.go): a search is answered
\* once.
AnsweredOnce == \A s \in Searches : search[s].bodies <= 1
=============================================================================
