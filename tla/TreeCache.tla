------------------------------ MODULE TreeCache ------------------------------
(***************************************************************************)
(* Organizations, projects, environments and folders in Redis, and the     *)
(* tree service that reads them.                                           *)
(*                                                                         *)
(* Each resource has a hash and its id in the index of its kind.  Handlers *)
(* write both after the commit, one command after the other; a tree that   *)
(* finds nothing in Redis is read from the database, as far as its caller  *)
(* may see it, and written to Redis by a goroutine per kind.  Whatever a   *)
(* tree has read, the authorizer is asked about every resource of it.      *)
(*                                                                         *)
(* A handler or goroutine is a program: the sequence of commands it has    *)
(* still to run.  A row is its state and its name, which stands for all    *)
(* that an update changes.  The requests are those that passed the checks  *)
(* before the transaction; Resources shows that a deletion is one step.    *)
(***************************************************************************)
EXTENDS TreeAssembly

CONSTANTS Calls,       \* requests at work at the same time
          Readers,     \* requests for the tree
          Held,        \* the permissions of each user
          Names,       \* what a resource may be called
          Initial,     \* the rows at the start
          Scenarios    \* what may happen: requests and how many of them, what is
                       \* asked of the tree if anything, whether Redis has been
                       \* filled, and how many of its commands fail

NoName == 0
Row == [state : {"absent", "live", "deleted"}, name : Names \cup {NoName}]
Request ==
  [op : {"create", "batch"}, nodes : Seq(Nodes) \ {<< >>}, name : Names]
    \cup [op : {"update"}, node : Nodes, name : Names]
    \cup [op : {"delete"}, node : Nodes, force : BOOLEAN]
TreeRequest == [user : DOMAIN Held, depth : Int, orphans : BOOLEAN]

ASSUME TreeCacheAssumption ==
         /\ IsFiniteSet(Nodes)
         /\ Calls \cap (Readers \X TreeKinds) = {}
         /\ Names \subseteq Nat \ {NoName}
         /\ Initial \in [Nodes -> Row]
         /\ \A u \in DOMAIN Held : Held[u] \subseteq Permission
         /\ \A s \in Scenarios : /\ s.asked \in BOOLEAN /\ s.filled \in BOOLEAN
                                 /\ s.count \in Nat /\ s.faults \in Nat
                                 /\ s.requests \subseteq Request /\ s.ask \in TreeRequest

VARIABLES rows,    \* the tables
          hash,    \* the hash of each resource: its name, or NoName
          index,   \* the ids in the indexes
          pending, \* requests not made yet
          left,    \* how many may be made
          faults,  \* Redis commands that may fail
          prog,    \* the program of each handler and goroutine
          reader,  \* requests for the tree
          alone,   \* history: per program, the resources that nobody else has
                   \* touched, in the tables or in Redis, since it read them
          fresh    \* history: the resources that somebody alone wrote last

treeVars == <<rows, hash, index, pending, left, faults, prog, reader, alone, fresh>>

Warmers == Readers \X TreeKinds
Procs == Calls \cup Warmers
NoNames == [n \in Nodes |-> NoName]
Absent == [state |-> "absent", name |-> NoName]
LiveIn(table) == {n \in Nodes : table[n].state = "live"}
Live == LiveIn(rows)
Below(n) == {m \in Nodes : n \in Chain(m)}

NewReader(s) ==
             [pc |-> IF s.asked THEN "new" ELSE "done", ask |-> s.ask, asked |-> {}, read |-> {},
              names |-> NoNames, found |-> {}, source |-> "cache",
              visible |-> {}, answer |-> {}, gone |-> {}, steady |-> {}]

\* Redis is empty, or somebody who sees everything has filled it.
TreeInit ==
  \E s \in Scenarios :
    /\ rows = Initial
    /\ index = IF s.filled THEN Live ELSE {}
    /\ hash = [n \in Nodes |-> IF n \in index THEN rows[n].name ELSE NoName]
    /\ pending = s.requests /\ left = s.count /\ faults = s.faults
    /\ prog = [p \in Procs |-> << >>]
    /\ reader = [r \in Readers |-> NewReader(s)]
    /\ alone = [p \in Procs |-> {}]
    /\ fresh = IF s.filled THEN Nodes ELSE {}

-----------------------------------------------------------------------------
(* What everybody takes part in *)

ReadableBy(table, user) ==
  {n \in Nodes : Kind[n] \in TreeKinds /\ Allow(LiveIn(table), Held[user], n, "read")}

\* p commits: others are no longer alone with S, and trees under way lose
\* what their users may not see any more.
Commit(p, table, S) ==
  /\ rows' = table
  /\ alone' = [q \in Procs |-> IF q = p THEN alone[q] \cup S ELSE alone[q] \ S]
  /\ fresh' = fresh \ S
  /\ reader' = [r \in Readers |->
       [reader[r] EXCEPT !.steady = @ \cap ReadableBy(table, reader[r].ask.user)]]
  /\ UNCHANGED <<hash, index, faults>>

Submit(c, r) ==
  /\ prog[c] = << >> /\ r \in pending
  /\ left > 0 /\ left' = left - 1
  /\ pending' = pending \ {r}

Creates(r, kind) == r.op = "create" /\ Kind[Head(r.nodes)] = kind
Updates(r, kind) == r.op = "update" /\ Kind[r.node] = kind
Deletes(r, kind) == r.op = "delete" /\ Kind[r.node] = kind

Do(cmd, n, name) == [cmd |-> cmd, node |-> n, name |-> name]
upsertResource(n, name) == <<Do("hset", n, name), Do("sadd", n, name)>>
deleteResource(n) == <<Do("del", n, NoName), Do("srem", n, NoName)>>

\* A folder's place is read again before it goes to Redis.
UpsertFolder(n, name) == <<Do("context", n, name)>> \o upsertResource(n, name)
cacheUpsert(n, name) ==
  IF Kind[n] = "folder" THEN UpsertFolder(n, name) ELSE upsertResource(n, name)

Concat(seqs) ==
  LET join[k \in 0 .. Len(seqs)] == IF k = 0 THEN << >> ELSE join[k - 1] \o seqs[k]
  IN  join[Len(seqs)]

-----------------------------------------------------------------------------
(* Creating *)

\* The resources of the request in one transaction; "cached" of them go to Redis.
CreateEntities(c, r, cached) ==
  /\ Submit(c, r)
  /\ LET S == {r.nodes[k] : k \in DOMAIN r.nodes}
     IN  /\ \A n \in S : rows[n] = Absent /\ Chain(n) \ (S \cup {n}) \subseteq Live
         /\ Commit(c, [n \in Nodes |-> IF n \in S THEN [state |-> "live", name |-> r.name]
                                                  ELSE rows[n]], S)
  /\ prog' = [prog EXCEPT ![c] =
       Concat([k \in DOMAIN cached |-> cacheUpsert(cached[k], r.name)])]

CreateOrganization(c, r) ==
  Creates(r, "org") /\ CreateEntities(c, r, r.nodes)
\* Not the environments that come with a project.
CreateProject(c, r) ==
  Creates(r, "project") /\ CreateEntities(c, r, <<Head(r.nodes)>>)
CreateEnvironment(c, r) ==
  Creates(r, "env") /\ CreateEntities(c, r, r.nodes)
\* A folder in each of several environments, on either level.
createFolderBatch(c, r) ==
  Creates(r, "folder") /\ CreateEntities(c, r, r.nodes)

-----------------------------------------------------------------------------
(* Updating *)

\* One resource is one transaction, and goes to Redis when it has committed.
UpdateEntity(c, r) ==
  /\ Submit(c, r)
  /\ r.node \in Live
  /\ Commit(c, [rows EXCEPT ![r.node].name = r.name], {r.node})
  /\ prog' = [prog EXCEPT ![c] = cacheUpsert(r.node, r.name)]
UpdateOrganization(c, r) == Updates(r, "org") /\ UpdateEntity(c, r)
UpdateProject(c, r) == Updates(r, "project") /\ UpdateEntity(c, r)
UpdateEnvironment(c, r) == Updates(r, "env") /\ UpdateEntity(c, r)
UpdateFolder(c, r) == Updates(r, "folder") /\ UpdateEntity(c, r)

\* Folders of one code, found live at first: a transaction for each, then all
\* of them to Redis.
BatchUpdateFolders(c, r) ==
  /\ r.op = "batch" /\ Submit(c, r)
  /\ \A k \in DOMAIN r.nodes : r.nodes[k] \in Live
  /\ prog' = [prog EXCEPT ![c] =
       [k \in DOMAIN r.nodes |-> Do("update", r.nodes[k], r.name)]
         \o Concat([k \in DOMAIN r.nodes |-> UpsertFolder(r.nodes[k], r.name)])]
  /\ UNCHANGED <<rows, hash, index, faults, reader, alone, fresh>>

\* A folder that is gone by now ends the request, and nothing goes to Redis.
updateEntity(c) ==
  /\ prog[c] # << >> /\ Head(prog[c]).cmd = "update"
  /\ LET now == Head(prog[c])
     IN  IF now.node \in Live
           THEN /\ Commit(c, [rows EXCEPT ![now.node].name = now.name], {now.node})
                /\ prog' = [prog EXCEPT ![c] = Tail(@)]
           ELSE /\ prog' = [prog EXCEPT ![c] = << >>]
                /\ UNCHANGED <<rows, hash, index, faults, reader, alone, fresh>>
  /\ UNCHANGED <<pending, left>>

-----------------------------------------------------------------------------
(* Deleting *)

\* What is live below goes too, and all of it leaves Redis, from the top down.
SoftDeleted(row) == [row EXCEPT !.state = "deleted"]
cacheInvalidateCascade(S) ==
  LET s == TopDown(S) IN Concat([k \in DOMAIN s |-> deleteResource(s[k])])
DeleteCascade(c, r, S) ==
  /\ Submit(c, r)
  /\ r.node \in Live
  /\ Commit(c, [n \in Nodes |-> IF n \in S THEN SoftDeleted(rows[n]) ELSE rows[n]], S)
  /\ prog' = [prog EXCEPT ![c] = cacheInvalidateCascade(S)]

DeleteOrganization(c, r) ==
  /\ Deletes(r, "org")
  /\ r.force \/ Below(r.node) \cap OfKind("project") \cap Live = {}
  /\ DeleteCascade(c, r, IF r.force THEN Below(r.node) \cap Live ELSE {r.node})
DeleteProject(c, r) ==
  Deletes(r, "project") /\ DeleteCascade(c, r, Below(r.node) \cap Live)
DeleteEnvironment(c, r) ==
  Deletes(r, "env") /\ DeleteCascade(c, r, Below(r.node) \cap Live)
\* The folders in a folder stay.
DeleteFolder(c, r) == Deletes(r, "folder") /\ DeleteCascade(c, r, {r.node})

-----------------------------------------------------------------------------
(* Redis commands *)

Due(p, cmd) == prog[p] # << >> /\ Head(prog[p]).cmd = cmd
Now(p) == Head(prog[p]).node
Advance(p, k) == prog' = [prog EXCEPT ![p] = SubSeq(@, k + 1, Len(@))]
Touch(p, n) ==
  /\ alone' = [q \in Procs |-> IF q = p THEN alone[q] ELSE alone[q] \ {n}]
  /\ fresh' = fresh \ {n}
Settle(p, n) ==
  /\ alone' = [q \in Procs |-> alone[q] \ {n}]
  /\ fresh' = (fresh \ {n}) \cup ({n} \cap alone[p])

\* The place of a folder that is gone is not found: it is passed over.
GetFolderContext(c) ==
  /\ Due(c, "context")
  /\ Advance(c, IF Now(c) \in Live THEN 1 ELSE 3)
  /\ UNCHANGED <<rows, hash, index, pending, left, faults, reader, alone, fresh>>

HSet(p) ==
  /\ Due(p, "hset")
  /\ hash' = [hash EXCEPT ![Now(p)] = Head(prog[p]).name]
  /\ Advance(p, 1) /\ Touch(p, Now(p))
  /\ UNCHANGED <<rows, index, pending, left, faults, reader>>
NotIndexed(n) == index
Indexed(n) == index \cup {n}
SAdd(p) ==
  /\ Due(p, "sadd")
  /\ index' = Indexed(Now(p))
  /\ Advance(p, 1) /\ Settle(p, Now(p))
  /\ UNCHANGED <<rows, hash, pending, left, faults, reader>>
Del(p) ==
  /\ Due(p, "del")
  /\ hash' = [hash EXCEPT ![Now(p)] = NoName]
  /\ Advance(p, 1) /\ Touch(p, Now(p))
  /\ UNCHANGED <<rows, index, pending, left, faults, reader>>
SRem(p) ==
  /\ Due(p, "srem")
  /\ index' = index \ {Now(p)}
  /\ Advance(p, 1) /\ Settle(p, Now(p))
  /\ UNCHANGED <<rows, hash, pending, left, faults, reader>>

\* A pipeline fails, in whole or after its first command: a handler goes on
\* with its next one, a goroutine of the warm-up stops.
RedisFails(p) ==
  /\ \E cmd \in {"hset", "sadd", "del", "srem"} : Due(p, cmd)
  /\ faults > 0 /\ faults' = faults - 1
  /\ Advance(p, IF p \in Warmers THEN Len(prog[p])
                ELSE IF Due(p, "hset") \/ Due(p, "del") THEN 2 ELSE 1)
  /\ alone' = [alone EXCEPT ![p] = IF p \in Warmers THEN {} ELSE @ \ {Now(p)}]
  /\ UNCHANGED <<rows, hash, index, pending, left, reader, fresh>>

-----------------------------------------------------------------------------
(* The tree *)

GetTree(r) ==
  /\ reader[r].pc = "new"
  /\ reader' = [reader EXCEPT ![r] = [@ EXCEPT !.pc = "scan",
       !.gone = {n \in Nodes : rows[n].state = "deleted"},
       !.steady = ReadableBy(rows, reader[r].ask.user)]]
  /\ UNCHANGED <<rows, hash, index, pending, left, faults, prog, alone, fresh>>

\* The four kinds are read at the same time: the index, then its hashes,
\* where an id without a hash is passed over.
SMembers(r, kind) ==
  /\ reader[r].pc = "scan" /\ kind \notin reader[r].asked
  /\ reader' = [reader EXCEPT ![r] = [@ EXCEPT
       !.asked = reader[r].asked \cup {kind},
       !.found = reader[r].found \cup (index \cap OfKind(kind))]]
  /\ UNCHANGED <<rows, hash, index, pending, left, faults, prog, alone, fresh>>
scanType(r, kind) ==
  /\ reader[r].pc = "scan" /\ kind \in reader[r].asked \ reader[r].read
  /\ LET S == {n \in reader[r].found \cap OfKind(kind) : hash[n] # NoName}
     IN  reader' = [reader EXCEPT ![r] = [@ EXCEPT
           !.read = reader[r].read \cup {kind},
           !.found = (reader[r].found \ OfKind(kind)) \cup S,
           !.names = [n \in Nodes |-> IF n \in S THEN hash[n] ELSE reader[r].names[n]]]]
  /\ UNCHANGED <<rows, hash, index, pending, left, faults, prog, alone, fresh>>

\* Something was found, or nothing.
Empty(r) == reader[r].found = {}
ListAllMeta(r) ==
  /\ reader[r].pc = "scan" /\ reader[r].read = TreeKinds
  /\ reader' = [reader EXCEPT ![r] = [@ EXCEPT !.pc = IF Empty(r) THEN "list" ELSE "filter",
                                               !.asked = {}, !.read = {}]]
  /\ UNCHANGED <<rows, hash, index, pending, left, faults, prog, alone, fresh>>
\* An error of one kind is one of all: the database is read.
ScanFails(r) ==
  /\ reader[r].pc = "scan" /\ faults > 0
  /\ faults' = faults - 1
  /\ reader' = [reader EXCEPT ![r] = [@ EXCEPT !.pc = "list", !.found = {},
                              !.asked = {}, !.read = {}, !.names = NoNames]]
  /\ UNCHANGED <<rows, hash, index, pending, left, prog, alone, fresh>>

\* The four lists of the database, one after the other.
ListAllForTree(r, kind) ==
  /\ reader[r].pc = "list" /\ Cardinality(reader[r].read) = Depth(kind) - 1
  /\ LET S == {n \in OfKind(kind) : Lists(Live, Held[reader[r].ask.user], n)}
     IN  /\ reader' = [reader EXCEPT ![r] = [@ EXCEPT !.source = "database",
              !.read = reader[r].read \cup {kind}, !.found = reader[r].found \cup S,
              !.names = [n \in Nodes |-> IF n \in S THEN rows[n].name
                                                    ELSE reader[r].names[n]]]]
         /\ alone' = [alone EXCEPT ![<<r, kind>>] = S]
  /\ UNCHANGED <<rows, hash, index, pending, left, faults, prog, fresh>>

ListAllOrganizationsForTree(r) == ListAllForTree(r, "org")
ListAllProjectsForTree(r) == ListAllForTree(r, "project")
ListAllEnvironmentsForTree(r) == ListAllForTree(r, "env")
ListAllFoldersForTree(r) == ListAllForTree(r, "folder")

\* They go to Redis, while the request goes on.
WarmTree(r) ==
  /\ reader[r].pc = "list" /\ reader[r].read = TreeKinds
  /\ reader' = [reader EXCEPT ![r].pc = "filter"]
  /\ LET listed(k) == Listed(reader[r].found \cap OfKind(k), reader[r].names, TRUE)
     IN  \E orgs \in listed("org"), projects \in listed("project"), envs \in listed("env"),
            folders \in listed("folder") :
           LET order == [org |-> orgs, project |-> projects, env |-> envs, folder |-> folders]
           IN  prog' = [p \in Procs |->
                 IF p \in Warmers /\ p[1] = r
                   THEN Concat([k \in DOMAIN order[p[2]] |->
                          upsertResource(order[p[2]][k], reader[r].names[order[p[2]][k]])])
                   ELSE prog[p]]
  /\ UNCHANGED <<rows, hash, index, pending, left, faults, alone, fresh>>

\* The authorizer on each resource, level by level: denied or gone is left out.
AllowAny(r, n) == TRUE
AllowNode(r, n) == Allow(Live, Held[reader[r].ask.user], n, "read")
filterByAllow(r, n, kind) ==
  /\ reader[r].pc = "filter" /\ n \in reader[r].found \cap OfKind(kind)
  /\ \A m \in reader[r].found : Depth(Kind[n]) <= Depth(Kind[m])
  /\ reader' = [reader EXCEPT ![r] = [@ EXCEPT !.found = reader[r].found \ {n},
       !.visible = reader[r].visible \cup (IF AllowNode(r, n) THEN {n} ELSE {})]]
  /\ UNCHANGED <<rows, hash, index, pending, left, faults, prog, alone, fresh>>

filterOrgsByAllow(r, n) == filterByAllow(r, n, "org")
filterProjectsByAllow(r, n) == filterByAllow(r, n, "project")
filterEnvsByAllow(r, n) == filterByAllow(r, n, "env")
filterFoldersByAllow(r, n) == filterByAllow(r, n, "folder")

AnswerTree(r) ==
  /\ reader[r].pc = "filter" /\ reader[r].found = {}
  /\ \E folders \in Listed(VisibleOf(reader[r].visible, "folder"), reader[r].names,
                           reader[r].source = "database") :
       reader' = [reader EXCEPT ![r] = [@ EXCEPT !.pc = "done", !.names = NoNames,
         !.answer = Tree(reader[r].visible, folders, reader[r].ask.orphans,
                         reader[r].ask.depth)]]
  /\ UNCHANGED <<rows, hash, index, pending, left, faults, prog, alone, fresh>>

-----------------------------------------------------------------------------
TreeNext ==
  \/ \E c \in Calls, r \in pending :
       \/ CreateOrganization(c, r) \/ CreateProject(c, r)
       \/ CreateEnvironment(c, r) \/ createFolderBatch(c, r)
       \/ UpdateOrganization(c, r) \/ UpdateProject(c, r)
       \/ UpdateEnvironment(c, r) \/ UpdateFolder(c, r) \/ BatchUpdateFolders(c, r)
       \/ DeleteOrganization(c, r) \/ DeleteProject(c, r)
       \/ DeleteEnvironment(c, r) \/ DeleteFolder(c, r)
  \/ \E c \in Calls : updateEntity(c) \/ GetFolderContext(c)
  \/ \E p \in Procs : HSet(p) \/ SAdd(p) \/ Del(p) \/ SRem(p) \/ RedisFails(p)
  \/ \E r \in Readers :
       \/ GetTree(r) \/ ListAllMeta(r) \/ ScanFails(r) \/ WarmTree(r) \/ AnswerTree(r)
       \/ \E kind \in TreeKinds : SMembers(r, kind) \/ scanType(r, kind)
       \/ ListAllOrganizationsForTree(r) \/ ListAllProjectsForTree(r)
       \/ ListAllEnvironmentsForTree(r) \/ ListAllFoldersForTree(r)
       \/ \E n \in Nodes : \/ filterOrgsByAllow(r, n) \/ filterProjectsByAllow(r, n)
                           \/ filterEnvsByAllow(r, n) \/ filterFoldersByAllow(r, n)

TreeSpec == TreeInit /\ [][TreeNext]_treeVars

-----------------------------------------------------------------------------
(* Properties *)

Whole(r) == reader[r].pc = "done" /\ reader[r].ask.orphans /\ MaxDepth(reader[r].ask.depth) = 4

\* Redis may know resources that were deleted, or that are not for the caller:
\* no tree shows one that was gone before its request began or one that the
\* caller has no permission for (the filters of GetTree).
TreeShowsReadableOnly ==
  \A r \in Readers :
    reader[r].answer \cap (reader[r].gone \cup
      {n \in Nodes : ~ UserPermissions(Held[reader[r].ask.user], ResourceScopes(n), Kind[n],
                                       "read")}) = {}

\* A whole tree that was read from the database has every resource that the
\* caller could read from the beginning of the request to its end, even when
\* what is above it is hidden, or is deleted meanwhile; only a folder in a
\* visible folder may be missing (ListAllXxxForTree, buildTree).
DatabaseTreeComplete ==
  \A r \in Readers : Whole(r) /\ reader[r].source = "database" =>
    \A n \in reader[r].steady \ reader[r].answer : Level2(n) /\ Up[n] \in reader[r].visible

\* A request, or a warm-up, leaves the committed row in Redis, or nothing of a
\* deleted one, if nobody else touches the resource from the moment it is
\* committed, or listed, until its id is written (cacheUpsert,
\* cacheInvalidateCascade, WarmTree).
LoneWritersLeaveTheTruth ==
  \A n \in fresh : /\ n \in index <=> n \in Live
                   /\ n \in index => hash[n] = rows[n].name

-----------------------------------------------------------------------------
(* What a document says and the code does not keep: the README has the     *)
(* behaviours that TLC finds                                               *)

\* "In-place modification throughout, so that no child is lost by copying a
\* node" (buildTree): a whole tree has every resource that passed the filters.
ChildrenKept == \A r \in Readers : Whole(r) => reader[r].visible \subseteq reader[r].answer
=============================================================================
