------------------------------- MODULE Listings -------------------------------
(***************************************************************************)
(* The requests that list, search and reveal many secrets or folders at    *)
(* once, while resources are created and deleted and permissions come and  *)
(* go.  Each query sees one state of the database; a request makes several *)
(* of them, and a client that walks through pages makes several requests.  *)
(*                                                                         *)
(* What a query returns is a sequence in the query's order, where rows     *)
(* that the order does not tell apart come in any order, each time anew.   *)
(* Values stand for their secrets; decryption is left out, it succeeds.    *)
(***************************************************************************)
EXTENDS Visibility, SequencesExt, FiniteSetsExt

CONSTANTS Code,        \* of an environment or a folder: a number, to sort by
          Key,         \* of a secret: a number
          InitialLive, Unborn,  \* resources at the start, and to be created
          InitialHeld, Grants,  \* permissions at the start, and that may change
          Queries,     \* what a client may ask
          DefaultPageSize, MaxPageSize,
          MaxChanges   \* of resources and permissions

NoNode == "none"
NoCode == 0
Secrets == OfKind("secret")
Folders == OfKind("folder")
Ops == {"list", "search", "group", "path", "code", "across", "folders"}

\* A folder has a key once (secrets_folder_key_active_uidx).
KeysUnique(L) ==
  \A m, n \in L \cap Secrets : Up[m] = Up[n] /\ Key[m] = Key[n] => m = n

ASSUME ListingsAssumption ==
         /\ InitialLive \subseteq Nodes /\ Unborn \subseteq Nodes \ InitialLive
         /\ InitialHeld \subseteq Permission /\ Grants \subseteq Permission
         /\ DefaultPageSize \in 1 .. MaxPageSize /\ MaxPageSize \in Nat
         /\ MaxChanges \in Nat
         /\ IsFiniteSet(Nodes)
         /\ Code \in [OfKind("env") \cup Folders -> Int]
         /\ Key \in [Secrets -> Int] /\ KeysUnique(InitialLive)
         /\ Queries # {}
         /\ Queries \subseteq [op : Ops, folder : Folders \cup {NoNode},
                              env : OfKind("env") \cup {NoNode}, project : OfKind("project"),
                              envs : SUBSET OfKind("env"), keys : SUBSET Int,
                              code : Int, size : Int]

VARIABLES live,    \* rows that are not deleted
          unborn,  \* resources still to be created
          held,    \* the caller's permissions
          changes, \* how many changes there were
          audits,  \* audit rows of batches: a folder or project, and folder codes
                   \* with keys
          client   \* the request at work

vars == <<live, unborn, held, changes, audits, client>>

EnvOf(n) == CHOOSE m \in Chain(n) : Kind[m] = "env"
GroupOf(n) == <<Code[Up[n]], Key[n]>>
PlaceOf(n) == <<EnvOf(n), GroupOf(n)>>
Idle == [pc |-> "idle", query |-> CHOOSE q \in Queries : TRUE, page |-> 1, rows |-> << >>,
         todo |-> << >>, answer |-> {}, steady |-> {}, ever |-> {}, always |-> {}, lost |-> FALSE]

Init ==
  /\ live = InitialLive /\ unborn = Unborn /\ held = InitialHeld /\ changes = 0
  /\ audits = {}
  /\ client = Idle

-----------------------------------------------------------------------------
(* What the queries return *)

\* The deepest of folder, environment and project; none means everywhere.  A
\* folder's secrets are those right in it.
narrowSecretSearchScope(q) ==
  IF q.folder # NoNode THEN q.folder ELSE IF q.env # NoNode THEN q.env ELSE q.project
InScope(q, n) ==
  narrowSecretSearchScope(q) = NoNode \/ narrowSecretSearchScope(q) \in Joined(n)

ListSecrets(L, H, q) ==
  {n \in Secrets : InScope(q, n) /\ ListsSecret(L, H, n, "list")}
ListSecretsWithCiphertext(L, H, q) ==
  {n \in Secrets : InScope(q, n) /\ ListsSecret(L, H, n, "search")}

\* By the codes of the path: any folder of the environment with that code, on
\* either level.  No keys means all keys.
BatchRevealSecretsByPath(L, H, q) ==
  {n \in Secrets : /\ EnvOf(n) = q.env /\ Code[Up[n]] = q.code
                   /\ q.keys = {} \/ Key[n] \in q.keys
                   /\ ListsSecret(L, H, n, "reveal")}
ListSecretsInProjectByEnvs(L, H, q) ==
  {n \in Secrets : /\ q.project \in Chain(n) /\ EnvOf(n) \in q.envs
                   /\ q.code = NoCode \/ Code[Up[n]] = q.code
                   /\ ListsSecret(L, H, n, "read")}
ListSecretsByProjectFolderKey(L, H, q) ==
  {n \in Secrets : /\ q.project \in Chain(n) /\ EnvOf(n) \in q.envs
                   /\ Code[Up[n]] = q.code /\ Key[n] \in q.keys
                   /\ ListsSecret(L, H, n, "read")}
ListFoldersInProject(L, H, q) ==
  {n \in Folders : q.project \in Chain(n) /\ ListsFolder(L, H, n)}

\* A null array has no cardinality, and no row passes.
ByNullKeys(L, H, q) == {}

Matching(L, H, q) ==
  CASE q.op = "list" -> ListSecrets(L, H, q)
    [] q.op \in {"search", "group"} -> ListSecretsWithCiphertext(L, H, q)
    [] q.op = "path" -> BatchRevealSecretsByPath(L, H, q)
    [] q.op = "code" -> ByNullKeys(L, H, q)
    [] q.op = "across" -> IF q.keys = {} THEN ListSecretsInProjectByEnvs(L, H, q)
                                         ELSE ListSecretsByProjectFolderKey(L, H, q)
    [] q.op = "folders" -> ListFoldersInProject(L, H, q)

\* Lists of secrets are sorted by key, searches then by environment, folders by
\* level.  Lists across environments are sorted by environment, folder and key;
\* when keys are asked for, the query does without the folder's code, which
\* then is the same in all rows.
Before(q, m, n) ==
  CASE q.op \in {"list", "path", "code"} -> Key[m] < Key[n]
    [] q.op \in {"search", "group"} ->
         Key[m] < Key[n] \/ (Key[m] = Key[n] /\ Code[EnvOf(m)] < Code[EnvOf(n)])
    [] q.op = "across" ->
         \/ Code[EnvOf(m)] < Code[EnvOf(n)]
         \/ /\ Code[EnvOf(m)] = Code[EnvOf(n)]
            /\ \/ Code[Up[m]] < Code[Up[n]]
               \/ Code[Up[m]] = Code[Up[n]] /\ Key[m] < Key[n]
    [] q.op = "folders" -> ~ Level2(m) /\ Level2(n)
Results(q) ==
  {s \in SetToSeqs(Matching(live, held, q)) :
     \A i, j \in DOMAIN s : i < j => ~ Before(q, s[j], s[i])}

\* Pages: what a request says, put right.
Normalize(q, page) ==
  [num |-> IF page < 1 THEN 1 ELSE page,
   size |-> IF q.size <= 0 THEN DefaultPageSize
            ELSE IF q.size > MaxPageSize THEN MaxPageSize ELSE q.size]
Limit(q, page) == Normalize(q, page).size
NextOffset(q, page) == Normalize(q, page).num * Normalize(q, page).size
Offset(q, page) == (Normalize(q, page).num - 1) * Normalize(q, page).size
Page(s, q, page) ==
  SubSeq(s, Offset(q, page) + 1, Min({Len(s), Offset(q, page) + Limit(q, page)}))

-----------------------------------------------------------------------------
(* Meanwhile *)

\* History: of the request at work, the rows it could have returned all the
\* time, those that could be revealed at some time and all the time, whether
\* any was lost.
Readable(L, H, q) ==
  IF q.op = "folders" THEN {n \in Matching(L, H, q) : Allow(L, H, n, "read")}
                      ELSE Matching(L, H, q)
Revealable(L, H) == {n \in Secrets : Allow(L, H, n, "reveal")}
Change(L, H) ==
  /\ changes < MaxChanges /\ changes' = changes + 1
  /\ live' = L /\ held' = H
  /\ client' = [client EXCEPT
       !.steady = @ \cap Readable(L, H, client.query),
       !.ever = @ \cup Revealable(L, H),
       !.always = @ \cap Revealable(L, H),
       !.lost = @ \/ ~ Matching(live, held, client.query) \subseteq Matching(L, H, client.query)]
  /\ UNCHANGED audits

Create(n) ==
  /\ n \in unborn /\ Chain(n) \ {n} \subseteq live /\ KeysUnique(live \cup {n})
  /\ unborn' = unborn \ {n}
  /\ Change(live \cup {n}, held)

\* With what is below; but the folders in a folder stay.
Delete(n) ==
  /\ n \in live
  /\ LET gone == {m \in live : n \in Joined(m)}
     IN  Change(live \ gone, held)
  /\ UNCHANGED unborn

Grant(p) == p \notin held /\ Change(live, held \cup {p}) /\ UNCHANGED unborn
Revoke(p) == p \in held /\ Change(live, held \ {p}) /\ UNCHANGED unborn

-----------------------------------------------------------------------------
(* Requests *)

Ask(q) ==
  /\ client.pc = "idle"
  /\ client' = [Idle EXCEPT !.pc = "query", !.query = q,
                            !.steady = Readable(live, held, q),
                            !.ever = Revealable(live, held),
                            !.always = Revealable(live, held)]
  /\ UNCHANGED <<live, unborn, held, changes, audits>>

\* The query of the request; "next" is what comes after it.
Fetch(op, next(_)) ==
  /\ client.pc = "query" /\ client.query.op = op
  /\ \E s \in Results(client.query) : client' = next(s)
  /\ UNCHANGED <<live, unborn, held, changes, audits>>
At(pc, op) == client.pc = pc /\ client.query.op = op
Answer(S) == [client EXCEPT !.pc = "done", !.answer = @ \cup S, !.rows = << >>, !.todo = << >>]

\* List: page after page, until one is not full.
List ==
  LET page(s) == Page(s, client.query, client.page)
  IN  Fetch("list", LAMBDA s :
        IF Len(page(s)) < Limit(client.query, client.page)
          THEN Answer(ToSet(page(s)))
          ELSE [client EXCEPT !.answer = @ \cup ToSet(page(s)), !.page = @ + 1])

\* Search in an environment or a folder: the value of each secret in turn, if
\* the caller may reveal it.
Search ==
  Fetch("search", LAMBDA s :
    [client EXCEPT !.pc = "reveal", !.todo = Page(s, client.query, 1),
                   !.rows = Page(s, client.query, 1)])
MaySearch(n) == Allow(live, held, n, "search")
MayReveal(n) == Allow(live, held, n, "reveal")
\* A secret that is gone is an error of the whole search.
revealIfPermitted ==
  /\ At("reveal", "search") /\ client.todo # << >>
  /\ LET n == Head(client.todo)
     IN  IF Joined(n) \subseteq live
           THEN client' = [client EXCEPT !.todo = Tail(@),
                             !.answer = IF MayReveal(n) THEN @ \cup {n} ELSE @]
           ELSE client' = [client EXCEPT !.pc = "failed", !.answer = {}, !.todo = << >>]
  /\ UNCHANGED <<live, unborn, held, changes, audits>>
fillValuesPerSecret ==
  /\ At("reveal", "search") /\ client.todo = << >>
  /\ client' = [client EXCEPT !.pc = "done"]
  /\ UNCHANGED <<live, unborn, held, changes, audits>>

\* A mutation: one place for all environments.
OnePlace(s) ==
  {s[i] : i \in {j \in DOMAIN s : \A k \in DOMAIN s : k > j => GroupOf(s[k]) # GroupOf(s[j])}}
\* Rows by folder code and key, a place for each environment, where the last
\* row stays.
Placed(s) ==
  {s[i] : i \in {j \in DOMAIN s : \A k \in DOMAIN s : k > j => PlaceOf(s[k]) # PlaceOf(s[j])}}
\* Search in a project: the rows of the page in groups, and of these the page
\* once more.
aggregateSecretsByProject(s, q, page) ==
  LET first == {i \in DOMAIN s : \A j \in DOMAIN s : j < i => GroupOf(s[j]) # GroupOf(s[i])}
      rank(i) == Cardinality({j \in first : j <= i})
      cut == {i \in first : rank(i) > Offset(q, page) /\ rank(i) <= Offset(q, page) + Limit(q, page)}
  IN  {n \in Placed(s) : \E i \in cut : GroupOf(n) = GroupOf(s[i])}
SearchProject ==
  Fetch("group", LAMBDA s :
    [Answer(aggregateSecretsByProject(Page(s, client.query, 1), client.query, 1))
       EXCEPT !.rows = Page(s, client.query, 1)])

\* Reveal a folder by its path: the values, an audit row for all, the answer.
BatchRevealByPath ==
  Fetch("path", LAMBDA s : [client EXCEPT !.pc = "audit", !.rows = s])
BatchRevealByCode ==
  Fetch("code", LAMBDA s : [client EXCEPT !.pc = "audit", !.rows = s])

\* A list across environments: the values in their places.
ListAcrossEnvs ==
  Fetch("across", LAMBDA s : [client EXCEPT !.pc = "audit", !.rows = s])

\* For the first folder found, or for the project, the keys that were asked
\* for, or those found if none were.
AuditRow(q, s) ==
  [resource |-> IF q.op = "across" THEN q.project ELSE Up[s[1]],
   keys |-> IF q.keys = {} THEN {GroupOf(n) : n \in ToSet(s)} ELSE {q.code} \X q.keys]
BatchValues(q, s) == IF q.op = "across" THEN Placed(s) ELSE ToSet(s)
RecordAudit ==
  /\ client.pc = "audit"
  /\ audits' = IF client.rows = << >> THEN audits
                                      ELSE audits \cup {AuditRow(client.query, client.rows)}
  /\ client' = [Answer(BatchValues(client.query, client.rows)) EXCEPT !.rows = client.rows]
  /\ UNCHANGED <<live, unborn, held, changes>>
\* A mutation: the failure is only logged.
AnsweredAnyway == BatchValues(client.query, client.rows)
\* An answer that cannot be audited is not given.
AnsweredUnaudited == {}
AuditFails ==
  /\ client.pc = "audit" /\ client.rows # << >>
  /\ client' = [client EXCEPT !.pc = "failed", !.answer = AnsweredUnaudited]
  /\ UNCHANGED <<live, unborn, held, changes, audits>>

\* The folders of a project: the authorizer on each, then those on level 2
\* below the ones on level 1.
GetProjectFolderTree ==
  Fetch("folders", LAMBDA s : [client EXCEPT !.pc = "allow", !.todo = s])
allowFolder ==
  /\ At("allow", "folders") /\ client.todo # << >>
  /\ client' = [client EXCEPT !.todo = Tail(@),
       !.rows = IF Allow(live, held, Head(client.todo), "read")
                  THEN Append(@, Head(client.todo)) ELSE @]
  /\ UNCHANGED <<live, unborn, held, changes, audits>>
InNoGroup(n, level1) == ~ Level2(n)
InGroup(n, level1) == ~ Level2(n) \/ Up[n] \in level1
groupFolders ==
  /\ At("allow", "folders") /\ client.todo = << >>
  /\ client' = Answer({n \in ToSet(client.rows) :
                         InGroup(n, {m \in ToSet(client.rows) : ~ Level2(m)})})
  /\ UNCHANGED <<live, unborn, held, changes, audits>>

-----------------------------------------------------------------------------
Next ==
  \/ \E n \in Nodes : Create(n) \/ Delete(n)
  \/ \E p \in Grants : Grant(p) \/ Revoke(p)
  \/ \E q \in Queries : Ask(q)
  \/ List \/ Search \/ revealIfPermitted \/ fillValuesPerSecret \/ SearchProject
  \/ BatchRevealByPath \/ BatchRevealByCode \/ ListAcrossEnvs \/ RecordAudit \/ AuditFails
  \/ GetProjectFolderTree \/ allowFolder \/ groupFolders

Spec == Init /\ [][Next]_vars

-----------------------------------------------------------------------------
(* Properties *)

Done(ops) == client.pc = "done" /\ client.query.op \in ops

\* A way leads to everything that is listed: with a folder or a secret its
\* environment, project and organization are in the lists of their levels,
\* and with these what is above them, unless it is deleted
\* (organizationNavigationCTE and its like, narrowingPredicate).  Not so for
\* what is in a folder whose parent is deleted: a permission held at the parent
\* still counts in the lists of folders and secrets, but leads nowhere.
NavigationClosed ==
  \A n \in Nodes : Lists(live, held, n) /\ Chain(n) \cap Folders \subseteq live =>
    \A m \in Chain(n) \cap live :
      Kind[m] \in {"org", "project", "env"} /\ Chain(m) \subseteq live => Lists(live, held, m)

\* The lists of folders and secrets, which narrow in SQL, have exactly what
\* the authorizer allows one by one, if the organization is live and, for a
\* secret, no role is held on it alone (scopeNarrowingWhere, ResourceScopes).
NarrowingIsAllow ==
  \A n \in Nodes : Chain(n) \cap OfKind("org") \subseteq live =>
    /\ Kind[n] = "folder" => (ListsFolder(live, held, n) <=> Allow(live, held, n, "read"))
    /\ Kind[n] = "secret" /\ (\A p \in held : p.scope # n) =>
         \A a \in {"read", "list", "search", "reveal"} :
           ListsSecret(live, held, n, a) <=> Allow(live, held, n, a)

\* A walk through the pages of a folder misses no secret that was there all
\* the time, although others are created meanwhile, as long as none is
\* deleted or hidden: offsets only ever move rows to later pages (Offset,
\* ListSecrets).  In an environment keys repeat, and it may.
PagesMissNothing ==
  Done({"list"}) /\ client.query.folder # NoNode /\ ~ client.lost =>
    client.steady \subseteq client.answer

\* A search shows the value of each secret on its page that could be revealed
\* all the time, and of none that never could (revealIfPermitted).
ValuesAsPermitted ==
  Done({"search"}) =>
    /\ client.answer \subseteq client.ever
    /\ ToSet(client.rows) \cap client.always \subseteq client.answer

\* A search in a project, on a first page that takes all, and a list across
\* environments show every secret they have read, but for one whose place is
\* taken by the same key in a folder with the same code: a folder in a folder
\* may have the code of one beside that (aggregateSecretsByProject,
\* ListAcrossEnvs).
PlacesFilled ==
  Done({"group", "across"}) =>
    \A n \in ToSet(client.rows) \ client.answer :
      \E m \in client.answer : PlaceOf(m) = PlaceOf(n) /\ Up[m] # Up[n]

\* No value leaves in a batch without an audit row that names its folder's
\* code and its key, at the project or at a folder of that code in the same
\* environment: with a folder of the same code inside it, that may be the
\* other one (BatchRevealByPath, ListAcrossEnvs).
BatchesAudited ==
  client.query.op \in {"path", "code", "across"} =>
    \A n \in client.answer : \E a \in audits :
      /\ GroupOf(n) \in a.keys
      /\ \/ a.resource \in Chain(n)
         \/ a.resource \in Folders /\ Code[a.resource] = Code[Up[n]]
            /\ EnvOf(a.resource) = EnvOf(n)

\* The folders of a project: everything readable all the time, but for a
\* folder whose parent is not shown (GetProjectFolderTree).
FoldersFollowParents ==
  Done({"folders"}) =>
    \A n \in client.steady \ client.answer : Level2(n) /\ Up[n] \notin client.answer

-----------------------------------------------------------------------------
(* What a comment says and the code does not keep *)

\* "keys = nil takes the branch without a limit and returns all secrets of the
\* folder": what the caller could reveal all the time in the folder with the
\* code is in the answer (BatchRevealByCode).
CodeRevealsFolder ==
  Done({"code"}) =>
    \A n \in client.always :
      EnvOf(n) = client.query.env /\ Code[Up[n]] = client.query.code => n \in client.answer
=============================================================================
