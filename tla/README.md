# EnvVault in TLA+

EnvVault is a Go service that keeps secrets in a tree of resources
(organization, project, environment, folder, secret) in PostgreSQL, with a
cache in Redis, role-based access control, password logins and forced logout.
This directory models the parts of it where several actors meet, checks the
models with TLC on small instances, and proves the most important facts for
every instance with TLAPS.

Paths below are relative to the repository. `PROJECT.json` ties every
definition to the lines it models and lists components, runs, mutants,
findings, hazards and theorems.

## The system

| Component | State | Operations | What makes it hard |
|---|---|---|---|
| session revocation (`internal/auth/tokens_cache.go`, `jwt.go`, `service/auth_service.go`, `store/postgres/auth.go`) | `users.tokens_valid_after`, a map per process | token check, Logout, ChangePassword, refresher | three writers of one map, stamps fixed at the start of a transaction, two resolutions of time, restarts |
| login rate limiter (`internal/auth/ratelimit`) | sorted set of failures and lockout key in Redis | Check, Record | logins interleave at every Redis command, expiry of keys |
| role bindings (`service/rbac_service.go`, `store/postgres/rbac.go`) | `user_role_bindings` | GrantRole, RevokeRole and their guards | many reads before one write, nothing locked; NULL in a unique index; expiring bindings; chains of grants |
| authorizer (`internal/auth/rbac.go`) | none of its own | Allow over the chain of scopes | reads before the operation it allows |
| roles and permissions (`service/rbac_service.go`) | `roles`, `role_permissions` | role CRUD | a role changes under its bindings |
| resource tree (`store/postgres/repository.go`, `http/controller/resource_*.go`) | five tables, soft deletion, `deleted_records` | Create*, Delete*, batches | cascades against creations and against each other, row locks |
| secret service (`service/secret_service.go`) | `secrets`, `audit_records` | create, update, batches, comments, delete, reveal | rows locked in the order of the request, keys that move between rows, audit rows that must not be missing |
| Redis cache (`store/redis/cache.go`) | hashes, path keys, id sets | write-through, warm-up, removal | several commands per write, no order between handlers, cascades |
| tree service (`service/tree_service.go`) | none of its own; fills Redis | GetTree, GetProjectFolderTree | one caller's view cached for all; assembly by value |
| accounts (`service/auth_service.go`, `store/postgres/auth.go`) | `users` | Register, Login, ChangePassword, EnsureJWTUser, GrantRole's upsert, the start of an instance | first-user grant, find-then-insert, read-then-verify |
| personal access tokens (`auth/pat.go`, `service/pat_service.go`) | `access_tokens` | create, delete, validate | expiry and deletion against validation |
| lists and searches (`service/secret_service.go`, `store/postgres/repository.go`, `repository_tree.go`) | none | lists, searches, groups, batch reveals | the authorizer's decision repeated in SQL, several queries per answer, paginating twice |

How they interact: a request passes the JWT middleware (session revocation),
then a handler asks the authorizer (role bindings over the chain of the tree),
then the store runs one transaction, then the handler writes Redis without
waiting for anybody. Login asks the limiter before and after the password.
Logout and ChangePassword write `users` and then the map of their own process;
the maps of other processes follow through their refreshers. Nothing but
PostgreSQL's row locks and unique indexes orders two requests.

Encryption, hashing, configuration, logging, ids, the HTTP encoding, the probes
and the seed tool keep no state that two actors share and are not modelled; the
`components` of `PROJECT.json` give the reason for each.

## The modules

### Sessions

`now` is the clock of the database, `tva` the column `tokens_valid_after`,
`cache` the map of each process, `refresh` the map its refresher has loaded but
not stored, `req` the requests in flight with the program counter of their
handler. `stamps` and `acked` are history: what was ever committed, and what a
client was told. A request goes through `Arrive` (signature and `exp`),
`GetHit` or `GetMiss`/`Load`/`LoaderStores` (the two locked sections of
`TokensCache.Get` and the query between them), `Check` (`IsRevokedBy`), and, for
Logout and ChangePassword, `BumpBegins` (PostgreSQL fixes `now()`),
`BumpCommits`, `Reread` (only ChangePassword) and `Set`. `RefreshLoads` and
`SetBatch` are the two halves of the refresher, `Restart` the death of a
process. A failing query is `LoadFails` (the request passes, nothing is cached)
or `AnswerLost`. A token's `iat` is cut to the second (`NumericDate`).

### LoginLimiter

All Redis keys belong to one address, so one address is modelled. `failures`
counts the members of the sorted set by age, `lockout` is the rest of the TTL,
`pc` the place of every login between two commands. Time is relative, which
needs no bound on a clock. `failures` is bounded not by a guard but by the
property `FailuresBounded`. At any time there are finitely many logins.

### RoleBindings

`rows` is the table, `call` the handlers. Every guard of GrantRole and
RevokeRole is a step that reads `rows` once (`CheckGlobal`, `CheckAllow`,
`CheckRole`, `CheckCoverage`, `CheckLastOwner`), then come the steps of the
store's transaction (`FindForGrant`/`Insert`, `FindForRevoke`/`SoftDelete`).
`Taken` is the unique index as PostgreSQL evaluates it: global rows have a NULL
scope id and never collide. Roles and the tree are constants, because the
handlers modelled only read them. `counted` is auxiliary: the owners that
`CheckLastOwner` has let a revocation go on with.

### Resources

`rows` is the state of every row of the five tables (absent, live, deleted),
`snapshots` counts its `deleted_records`, `call` are the handlers. A creation
reads its parents (`Read`, `ReadParents`: exactly the rows whose `is_deleted`
the queries look at) and inserts its batch in one transaction, which locks no
parent. A deletion checks (`CheckAllow`, `CheckProjects`, `TakeSnapshot`),
updates its root (`DeleteRoot`) and then one table after the other
(`DeleteLevel`), holding the rows it has marked until `Commit`. A statement
waits for rows others hold and reads again when it gets them, as READ COMMITTED
does; it is one step, enabled when no other transaction holds a row it wants.
What one request creates lies side by side, but for a project's environments,
which come with it (`BatchesAreShallow`). `late`, `known` and `older` are auxiliary:
which rows above a new one were deleted, or held by a deletion, when it was
inserted; what lived in an organization when its projects were counted; and what
lived inside a root when its deletion began.

### SecretData, SecretRows, SecretStore

`SecretData` has the table of secrets and the requests. `SecretRows` is the
abstract specification: one variable, `rows`, which changes by whole requests,
keeps keys unique in a folder and never changes a deleted secret again.

`SecretStore` is what PostgreSQL runs. `rows`, `updates` (audit rows "update"),
`trash` (`deleted_records`), `reveals` and `answered` are committed; `pc`, `req`,
`todo`, `held`, `draft`, `logged` and `seen` belong to a handler and its
transaction: what it still has to do, the rows it has locked or inserted, how
it has changed them. A handler checks outside of the transaction (`Allow`,
`GetSecretsKeys`, `GetSecretIdsByKey`, `GetSecretByPath`), then executes a statement
per row: an insert waits for the key (`InsertRow`), an update first for the row
(`LockRow`) and then for the key (`UpdateRow`), a deletion takes its snapshot
before it has the row (`snapshotTx`, `DeleteRow`). `Commit` shows everything at
once, `Fail` and `BreakDeadlock` nothing. A reveal reads, writes its audit row and
only then answers (`RecordAudit`). A reveal by path asks the authorizer twice, in the
handler and in the service; both are `Allow`, because the second reads the same
secret and lets through only whom the first has let through. The refinement mapping
onto `SecretRows` is the identity on `rows`.

### SecretCache

Secrets in Redis. Requests commit in one step, any whole request that `SecretRows`
admits, also one that takes only a part of a folder's secrets or comments only a part
of those it names; that the statements of `SecretStore` come to no more is its
`ImplementsTable`. An update adds its items to the version, as `SecretStore` does.
Then every Redis command is a step: `HGet`, `DelOldPath`, `HSet`,
`SetPath`, `SAdd` of `UpsertSecret`; `HGetPath`, `DelHash`, `SRem` of `DeleteSecret`;
`DelIds`, `ScanPaths`, `DelPaths` and the upserts of `WarmSecrets`. A request reads its
secrets again before (`GetSecret`), all of a batch before the first is written, so
that a batch that names a secret twice writes the last version twice; comments
and folder deletions write nothing.
A search takes the ids, then the hashes, then asks the authorizer. `alone` and
`fresh` are history: whose last writer nobody has interrupted.

### Visibility, TreeAssembly, TreeCache

`Visibility` is pure: `Allow` as the authorizer decides it, and the conditions the
list queries have in SQL instead (`Narrowed`, `Leads`). `TreeAssembly` is pure too:
`buildTree`, which attaches nodes by value, and the cut at a depth. `TreeCache` has
organizations to folders in Redis; a handler or a goroutine of the warm-up is a
program, the sequence of commands it still has to run, and each command is an
action. A tree is read kind by kind from Redis, or else
from the database (and then fills Redis), filtered by the authorizer, assembled
and answered.

### Listings

A client with one request at work (`client`) while resources (`live`) and
permissions (`held`) change under it: pages of a list, a search with values, a
search grouped by project, reveals of many secrets by path, by code and across
environments with their audit rows, the folders of a project. A query returns
any sequence its ORDER BY admits, each time anew. A secret appears only where its
key is free in the folder (`KeysUnique`, the index `secrets_folder_key_active_uidx`).

### Accounts

`users` with the binding to platform_admin each row may have, `pats` the access
tokens, `inst` where an instance is in `Run`, `call` the requests. A registration
inserts (`Register`), grants (`AutoGrant`), commits (`CreatePasswordUser`) and reads again
by the email (`Registered`); the uncommitted row is met through the unique indexes
(`Waits`). A login reads the row and verifies later; a password change reads,
verifies, begins its transaction and commits. `Crash` ends an instance with its
requests. `tokens`, `changes` (the old password and the new one of each change) and
`entered` are history. An account also comes, or is renamed, by `GrantRole`, whose
upsert (`Upserted`) keeps the stored email when the request has none. SyncUser ends in
the same upsert with the caller's own id and no email, so it changes nothing that is
modelled. `BootstrapId` may be the id of somebody who has registered
(`EnsureBootstrapAdmin`). What becomes of issued
tokens in the caches is `Sessions`' subject.

### The proof modules

`Auth_proofs` holds the theorems about `Sessions` and `LoginLimiter`, which share no
state but a package, `internal/auth`. `RoleBindings_proofs`, `Resources_proofs`,
`SecretStore_proofs`, `SecretCache_proofs`, `Accounts_proofs`, `Listings_proofs` and
`TreeCache_proofs` each extend the module they are named after and hold its theorems;
those of `Listings_proofs` are about `Visibility` as well, those of `TreeCache_proofs`
about `TreeAssembly`. `TreeCache_proofs` extends `Listings_proofs` too, for its lemmas
about the tree of resources; it uses none of its theorems. See "The proofs".

### MC modules

The `MC` modules give the constants small values. Requests, handlers, instances,
unused row ids and users that nothing distinguishes are symmetric; no run with a
liveness property uses symmetry.

How the modules compose: `SecretStore` refines `SecretRows`, whose requests are the
commits of `SecretCache`. `TreeCache` and `Listings` extend
`Visibility`, the one definition of who sees what. `Accounts` hands stamps to
`Sessions`; `Resources` justifies that `TreeCache` takes a deletion as one step.

## The runs

| Run | Bounds | Shows |
|---|---|---|
| `sessions` | 2 processes, 1 user, 1 request, clock to 2, 2 ticks a second, 1 failure, fairness | no stamp is invented or reported without a commit, a refusal has a later committed logout; caches settle on the database, revoked tokens stop passing |
| `limiter_safety` | 3 logins, maximum 2, window 2, lockout 3, 1 failure | the count overshoots only by the logins in flight; a lockout is never lengthened |
| `limiter_rearmed` | 2 logins, fairness | the violation below |
| `bindings_races` | 3 users, 2 handlers, 3 rows, 2 roles, 2 scopes, expiring grants | no duplicate below the global scope; no action comes into force that nobody was trusted with |
| `bindings_owners` | 2 owners and a platform administrator, 2 handlers, 4 rows | the last owner goes only when revocations overtake each other between the count and the deletion |
| `resources_cascades` | 2 handlers on a branch of 6 rows of all kinds, 1 failure, fairness | cascades are complete, one snapshot each, every handler ends |
| `resources_races` | 2 handlers, a branch of 6 rows of all kinds built from an organization, 1 failure | what is orphaned was inserted after the deletion had the row above it, or is in a level 2 folder whose parent was deleted; an unforced deletion spares what its count could see |
| `secrets_store` | 2 handlers, 14 requests on 6 secrets in 2 folders, 1 failure, fairness | unique keys, versions and audit rows that agree, genuine snapshots, audited reveals; the refinement of `SecretRows`; handlers end although batches deadlock |
| `secrets_cache` | 2 handlers, 6 requests on 2 secrets, one a batch that repeats its secret, a warm-up, a search, 1 failing command | a writer that nobody interrupts leaves the committed row; a search shows nothing it may not |
| `tree` | scenarios of 2 requests, or 1 and a tree for one of three users, 10 resources, 1 failing command | the same for resources; a tree shows only what its caller may read and is live, and from the database misses only what the copies lose |
| `listings` | 12 queries on 12 resources, 8 permissions held and 8 that come and go, 2 changes during a request | SQL and authorizer agree, a way leads to everything listed, if the folders on it are live, pages miss nothing, values follow permissions, batches are audited, groups and folder trees lose nothing but what is named |
| `accounts` | 2 processes, 2 handlers, 3 of 13 requests, 3 ids, clock to 1 | one of the first is administrator and no later one; a password that a change has replaced lets nobody in unless it was set again; who is known is let in |

Why the bounds are enough. The races are between two handlers, or a handler
and a refresher, and two suffice for each; the limiter gets three logins
because two of them must pass the count while a third reaches the maximum. The
clock of `Sessions` needs a stamp and a token within one second and one in the
next, which ticks 0, 1 and 2 at two a second give. `RoleBindings` needs a chain of
two grants, hence three users and three rows, and two owners who revoke each other
need two handlers and an administrator who may follow. `Resources` needs one row of
every kind, so that a cascade goes through every table while the other handler
creates below it or deletes above or below it. Folders that are created in several
environments at once are in no instance; the theorems are about them too.
`MaxFailures` and `MaxErrors` bound the calls that fail; one failure lets every
error path run once. `MaxTime`, `Rows`, `Nodes`, `Ids`, `Pats` and `MaxCalls` bound
what a database would let grow.
`SecretStore` needs two batches that lock the same rows in opposite orders, one
that exchanges keys, one that repeats a secret, and a deletion among them: two
requests at a time out of such a set. `SecretCache` and `TreeCache` need two writers
of one entry and a reader or warm-up beside them. `Listings` needs a folder whose
child has its code, two environments, permissions that are held at a single
folder or secret and nowhere above, and two changes so that one can undo the
other or delete a folder under its child. `Accounts` needs three requests: one to be
overtaken, one that overtakes it and one that uses the outcome.

Fairness. `Sessions`: a started handler runs to its end and a refresher's ticker
keeps firing (`tokens_cache.go`, `RunRefresher` loops until the context ends);
nothing is assumed of requests arriving. `LoginLimiter`: time passes, and a
login runs to its end; strong fairness for the clock because no tick falls
between a ZADD and its trim. `Resources`: a handler whose locks are free gets its
answer from the database. `SecretStore`: the same for statements whose locks are
free, and PostgreSQL's detector ends deadlocks; nothing is assumed of failures
or of new requests.

### What the models showed

One run keeps a claim of a comment that TLC refutes: `limiter_rearmed`.
`ratelimit.go:138` says that the lockout lifts by itself when its TTL is over;
Check refuses before anything can trim the failures, and sets the key again for
ever, even for the right password.

Eight more claims of documents and comments are kept as definitions beside the
properties that hold, under "What a document says and the code does not keep" or the
like. Each has a cfg of its own, with which TLC refutes it in seconds; these cfgs are
not among the runs of `PROJECT.json`.

| Claim | Definition and cfg | What the code does |
|---|---|---|
| `auth_service.go:202`, `DESIGN.md:2311`: a logout takes effect on this process's next request | `RefusedHereAfterLogout`, `Sessions_stale.cfg` | `tokens_cache.go:114`: a map loaded before the logout and stored after it brings the old stamp back for a cycle |
| `DESIGN.md:2286`: a logout holds here at once, everywhere in a minute | `AckedLogoutStands`, `Sessions_overlap.cfg` | `auth.go:188`: of two overlapping ones the earlier stamp may commit last and stays |
| `rbac_degisn.md:743`: the last owner may not be revoked | `KeepsOwner`, `RoleBindings_last_owner.cfg` | `rbac_service.go:510`: the owners are counted outside the transaction, so two owners who revoke each other both go |
| `DESIGN.md:869`: cascades leave no orphans | `NoOrphans`, `Resources_orphans.cfg` | `repository.go:1089`: DeleteFolder of a level 1 folder leaves its level 2 folders and their secrets, even one request at a time; and a creation commits below a parent that was deleted after it was read |
| `repository.go:161`: without force only the organization goes | `UnforcedDeletesNothingElse`, `Resources_unforced.cfg` | `repository.go:168`: the projects are counted outside the transaction, and the cascade takes one that was created since |
| `tree_service.go:237`: nodes are changed in place, so no child is lost | `ChildrenKept`, `TreeCache_children.cfg` | `tree_service.go:305` appends a copy: a level 2 folder listed after its parent is in no tree |
| `secret_service.go:438`: no list of keys means all secrets of the folder | `CodeRevealsFolder`, `Listings_codes.cfg` | BatchRevealByCode passes nil, which SQL sees as NULL (`repository.go:1668`), and reveals nothing |
| `search.go:103`: hits without permission are dropped | `AnsweredOnce`, `SecretCache_answers.cfg` | `rbac_helpers.go:158` answers the request with an error for each of them, and the search writes its own answer after that |

Where such a claim is refuted, a property of a passing run says what is left of it:
`LastOwnerLostInRace` that nothing but the race takes the last owner,
`OrphansExplained` which rows can be orphaned, `UnforcedSparesProjects` what an
unforced deletion spares whatever is created meanwhile, `CachesConverge` and
`DatabaseTreeComplete` likewise.

Other behaviours of the models that documents or comments exclude:

- `jwt.go:63` lets a token pass with `iat >= tva`; `iat` is cut to the second
  and the stamp is not, so a login in the logout's own second is refused, and
  only one in the next second passes.
- `ratelimit.go:10` counts failures within the window; ZCARD counts members
  nobody has trimmed yet. `ratelimit.go:13` lets a success clear the lockout; a
  Check that counted before the success locks out after it.
- `rbac_service.go:293` keeps an active owner; expired bindings are counted.
- `rbac_service.go:505` relies on a unique constraint; it does not hold for NULL
  scope ids, so the global scope takes duplicates.
- `rbac_degisn.md:742` says that nobody grants permissions he does not own; the
  coverage check ignores the resource of a permission.
- Every page of a project search but the first is empty: the groups are cut by
  an offset the query has applied already (`secret_service.go:1205`). The limit of
  the global search is applied before the hits are filtered.
- A level 2 folder stays when its parent is deleted (`repository.go:1089`). A
  permission held at that parent still narrows the lists to it, which compare
  `parent_id` and never look whether the parent is deleted, while the query that
  shows the way down asks for `f.is_deleted = false`: the folder is listed and no
  way leads there. `NavigationClosed` therefore asks for live folders.
- Of three overlapping password changes one may set the password again that
  another has replaced: each verified the same old row. The old password then
  lets in once more, which `CredentialsInForce` admits only if it was set again.
- A folder in a folder may have the code of one beside its parent; grouping by
  code then shows one secret for two. A batch reveal is audited at the first of
  its folders only.
- An update of comments never reaches Redis, nor do the environments that
  CreateProject makes or the secrets that go with a folder. One caller's
  narrowed lists fill the cache that all trees are read from.
- revealIfPermitted is meant never to block a search; a secret deleted after the
  page was read fails it.
- Two first registrations that overlap both become platform_admin; the audit
  row grant_role is written although nothing was granted. The re-read by email
  (`auth.go:130`) can return another user's row, when GrantRole has renamed both
  meanwhile, and its token is issued. A person with a company JWT whose email
  somebody has registered is never let in.

## The proofs

The eight proof modules hold theorems about the specifications for every value
of the constants that the named `ASSUME`s admit. Each begins with the invariance
of the types: `TypeCorrect`, in `Auth_proofs` `SessionsTyped` and `LimiterTyped`, in
`TreeCache_proofs` the first part of `TreeInvariant`. Together they state every
invariant and every action property that a passing run checks.

**Sessions** (from `SessionsAssumption`: bounds are numbers, `Absent` is none of
the values it stands beside). `StampsStayGenuine` proves `StampsAreGenuine` and
`NoSpuriousRevocation` proves `RefusedOnlyAfterLogout`. Neither is inductive
without the other's facts about requests, so both are regrouped into `Genuine`
(one conjunct per variable: column, caches, loaded maps, acknowledgements) and
`SoundRequests` (what one request holds and why it was refused). History only
grows, so a known stamp stays known; every step hands on known stamps, and
only the commit makes a new one, in the step that writes it.

**LoginLimiter** (from `LoginLimiterAssumption`: positive limits, finitely many
logins). `LockoutStays` proves `LockoutNotProlonged`: with the types known, only
`LockOut` writes a lockout other than by letting time pass, and `SetNX` keeps one
that runs. `FailuresStayBounded` proves `FailuresBounded`. It is about a sum over the
ages, so the module first proves what the sum does when one number grows, when
time moves all of them and when the old ones are cut off. These lemmas go by
the least counterexample in a well-founded order, which is stated about one set
and needs no operator as a parameter. With them the property is inductive: a login
that passes the count has found fewer failures than the maximum, at most the other
logins are past it then, and one that records its failure leaves them.

**RoleBindings** (from `RoleBindingsAssumption`: chains of scopes are reflexive
and transitive, the tables of roles have their types; and `InitialRowsUnique`:
the rows of the start satisfy the unique index). The type invariant needs
`Found`: the row that RevokeRole has found is a binding and stays one while others
work. `BindingsAreUnique` proves `UniqueBelowGlobal`, inductive with the types:
only Insert makes a row live, and there the index is asked.
`NoNewAuthority` proves `AuthorityIsClosed`. Its strengthening has two parts:
`RowsWithin`, every live row stays within what was trusted in its own scope, and
`CallsSound`, a grant past its coverage check is within it too, however stale
the rows are that the check has read. It rests on three facts about the
operators: what is implied implies nothing more (`ExpandOnce`), what is trusted
above is trusted below (`TrustedBelow`), and coverage hands that on
(`CoverageWithin`). `LastOwnerNeedsRace` proves `LastOwnerLostInRace`
for any number of handlers, from the hypotheses that the table is finite and that
`org_owner` is a role of organizations (`rbac.go:1463`). Its strengthening, `AllInformed`,
says of every revocation of an owner past its count that it has counted two rows or
more, all of them bindings of owners of that organization for good, and then what row
it has found: so it has counted another one, and if its step takes the last owner that
one is no longer live.

**Resources** (from `ResourcesAssumption`: the tree is a tree, its levels
descend, the start has no orphan, everything but an organization is in a project,
folders are created with folders only; and from `BatchesAreShallow`).
`OneRecordEach` proves `SnapshotOnce`. The strengthening `Exclusive` says that no
row is held by two transactions, that what is held is live, the root included,
and that what is still to be inserted is absent and in one batch. The root of a
commit is therefore live and has no record yet. `CascadesAreComplete` proves
`CascadeReachesOlder` from `OlderReached`: what lived inside the root is held or
deleted, or its table is still in the plan. It uses that the plan of each kind of
root names every table below it (`PlanIsComplete`), which is where the order of the levels
enters. `OrphansHaveACause` proves
`OrphansExplained` and `UnforcedTakesOrphansOnly` proves `UnforcedSparesProjects`, in any tree
and for any number of handlers. For the first, `OpenOnes` says of an open deletion that what
lives below a row it holds is held as well, or came late, or is spared by the deletion
of a folder, or its table is still in the plan, whose tables come in the order of the
levels. For the second, `JoinedThere` says that what the queries join to a row that is or was
there is or was there too, since a creation has read it (`NewAreRooted`, from
`BatchesAreShallow`); so what lives in an organization without a live project is below a
deleted one (`LivesInProject`), and `AllHold` keeps that for what the count has seen.

**SecretStore** (from `SecretDataAssumption`: finitely many ids, at the start a
table with unique keys and first versions, single creations and updates have one
item, and each creation brings ids of its own that nothing has yet, which is what
random UUIDs give; and `SecretStoreAssumption`: the bounds are numbers). The
invariants build on each other:

- `Structured`: the types, `Progress` (what is still to do is a suffix of the
  request's items) and `Shape` (where each kind of request can be, with which
  rows held). `TypeCorrect` follows.
- `Owned`: a row is held by one transaction (`Exclusive`), the ids of a creation
  are its own (`Fresh`), committed versions count the committed audit rows
  (`Counted`), and a draft's version counts its transaction's as well
  (`HeldSound`). `NoUpdateLost` follows: `VersionsCountUpdates` alone is not
  inductive, as it says nothing of what a commit will publish.
- `KeysApart`: keys are unique in every transaction's view, and no two
  transactions give one key to two rows. `PathsNameOneSecret` follows
  (`KeysUnique`): the draft that a commit publishes cannot meet a key of the table.
- `SnapshotsSound`: what a deletion has read before it had the row is of a version
  the row has had. `RecordsAreGenuine` follows (`SnapshotsAreGenuine`).
- `NoSilentReveal` (`RevealsAudited`) needs the types only.
- `AllWritten`: what a transaction has written is what its request asked for, up
  to the place it has reached, the last item winning where a secret is repeated.
  `StoreImplementsTable` follows (`ImplementsTable`): a commit is a step of
  `SecretRows`, every other step leaves `rows` alone.

Each step is first shown to be of one of a few kinds (refused, begun, only `pc`
moved, a row written, ended without a trace, committed), and each invariant is
proved for the kinds, not again for each of the actions.

**SecretCache** (from `SecretDataAssumption` and `SecretCacheAssumption`: handlers and
warm-ups are different processes, the search word is something a secret may
contain, the page is not empty). `Structured` says what each process has where in its
course, and the requests are shown to be steps of `SecretRows`, so that what is deleted
stays so. `SearchesShowReadable` proves
`SearchShowsReadableOnly`, for which a search must know that the ids it found gone
are still gone (`SearchesSound`). `LoneWritersAreRight` proves
`LoneWritersLeaveTheTruth`, which says something only of the end of a writer. Its
strengthening `Sound` follows one through its course, for the secrets nobody else has
touched since (`alone`): what it has still to read has the values it wrote
(`ReadsOwn`), what it has read is as in the table (`WritesCurrent`, of the last item
where a secret is repeated), what it removes is deleted (`RemovesGone`), the hash is
there before the path and the id (`HashWritten`), and a warm-up has every live secret
before it (`WarmsAll`).

**Accounts** (from `AccountsAssumption`: ids are numbers, requests have their types,
no password is the absent one). The invariant is one part for each property, on
top of `Served`, what a request knows at the place it is at, and that no two
registrations have one id:

- `AdminSound`: the row that a registration is about to commit with the grant has
  the grant's audit row, and everybody else came after it; one without the grant has
  found somebody. `FirstBecomesAdmin` follows (`FirstIsAdmin`).
- `PasswordsSound`: a password that was read or paid for with a token is that of
  its user still, or a later change is the one in force; and if a change had replaced
  it before, another has set it again. `PatsSound`: the same for access tokens. Both
  hold of requests before they hold of tokens, since a login verifies what it has
  read before. `CredentialsStayInForce` follows (`CredentialsInForce`).
- `NewcomersOnly`: whom a request has not found was created after it came.
  `KnownPersonsAreFound` follows (`KnownPersonsResolve`).

**Listings and Visibility** (from `VisibilityAssumption`: the parents make a tree of five
levels, a folder may be in a folder; and `ListingsAssumption`: finitely many nodes,
keys unique in each folder at the start, typed queries). Nine lemmas about the tree
come first: what the way up of each kind is, that it is closed, ordered and
descends. From these alone follow two properties, for any rows and permissions:
`ListsAgreeWithAllow` (`NarrowingIsAllow`: a permission at a secret itself is the only one
that SQL counts and the authorizer does not, as nothing is below a secret) and `WaysLead`
(`NavigationClosed`: whatever lets something be listed lets each level above it be
listed, case by case of where it is held). The other properties are about a
request among changes. Each says something of its end, and its strengthening says
what is still to come:

- `PagesComing`: a secret not seen so far that was readable all the time has at least
  as many secrets before it as pages have been skipped. This holds as deletions and
  refusals are excluded (`lost`) and insertions only add to what is before it; it needs
  that no two rows of a folder have one key (`RowsFit`), so that the place of a row
  in a page is the number of rows before it. `WalksMissNothing` follows
  (`PagesMissNothing`).
- `ValuesComing`, on `HistoriesEnclose`: what was revealable all the time is answered
  or still to be asked for. `ValuesFollowPermissions` follows (`ValuesAsPermitted`).
- `PlacesKept`: the answer has a row for each place of the rows that were read.
  `NoPlaceIsLost` follows (`PlacesFilled`).
- `FoldersComing`: a folder readable all the time is among those allowed or still to
  be asked for. `FolderTreeComplete` follows (`FoldersFollowParents`).
- `NoBatchUnaudited` (`BatchesAudited`) is inductive with these.

**TreeCache and TreeAssembly** (from `VisibilityAssumption`, and from
`TreeCacheAssumption`: finitely many nodes, handlers and the goroutines of a warm-up are
different processes, rows, permissions, scenarios and requests are typed). What
`buildTree` and the cut at a depth leave is proved first, with no state in it. Both are
recursive functions over a list, so the lemmas about them find the first place where
a statement fails and the one before it (`PlaceInduction`): the assembled tree gathers
only what is attached below a root (`AssembledGathers`), hence only what was visible
(`TreeWithin`), and in full depth and with the orphans it misses nothing visible but
folders in visible folders (`TreeComplete`). Then come programs as sequences of
commands, and `ReadableLists`: what the authorizer lets through, the narrowed list
queries name. `TreeInvariant` proves `TreeInv`, whose parts are:

- `Programs` and `ProgramsFit`: a program writes a hash before its id, and what it has
  still to write about a resource nobody else has touched (`alone`) is what the table
  has, or what an update before it in the program puts there; what it still removes
  is not live; the hash of the id it writes next has been written.
  `LoneTreeWritersAreRight` follows (`LoneWritersLeaveTheTruth`).
- `ReaderSound`: what a request found gone stays deleted, what it keeps is permitted,
  and what its caller could read all along (`steady`) is in the lists of the kinds
  read so far, then among what the filters have kept or have still to look at.
  `TreesShowReadable` (`TreeShowsReadableOnly`) and `DatabaseTreesComplete`
  (`DatabaseTreeComplete`) follow, with the lemmas about the assembly.
- `WarmersWait`: a goroutine has no program before the lists are complete, and what is
  still as it was listed has the name that was read, which is what makes the
  goroutine's program fit when it gets one.

The steps are of a few kinds (committed, program replaced, a Redis command run, a
list read, a filter applied, the warm-up started), and each part is proved for the
kinds. The proof changed the model in two places: `ReadableBy` now speaks of the kinds
a tree has (with secrets among `Nodes`, `DatabaseTreeComplete` asked for them in the
tree, and was false), and the types of the constants are assumed by name.
`TreeInv` was checked by TLC on the instance of the run `tree` before it was proved.

The library's induction theorems take an operator as a parameter, which the provers
cannot instantiate. Facts about sums, pages, programs and trees therefore go by a least
counterexample in a well-founded order, here as in `Auth_proofs` and `Listings_proofs`.

Only model-checked:

- All liveness properties (`CachesConverge`, `RevokedTokensDieOut`, `HandlersEnd`
  of both modules): liveness under fairness is not provable here.
- The refutations of claims, which are counterexamples.

## The plan

What is left, the most useful first. Each run answers a question of its own, and
one that a theorem or a larger run has made redundant makes room for the next.

1. `Roles`: CreateRole, UpdateRole and DeleteRole beside `RoleBindings`.
   `RolePermissions` becomes a variable, and `AuthorityIsClosed` has to say what an
   edit of a role may add to those who hold it already.
2. Codes in `Resources`: the unique indexes of the five tables, as `SecretStore` has
   them for keys, with the codes that a deletion frees; and the environment
   templates, which CreateProject inserts one by one in the order of the request:
   two creations in one organization with the same codes in opposite orders wait
   for each other until the database breaks the tie.
3. Abstract specifications: a token passes or not by the stamp of its user, within
   a bounded delay (for `Sessions`); the deletion of a subtree as one step (for
   `Resources`, where `OrphansExplained` says what the step may leave).

## Not modelled

- Roles and permissions (create, update, delete): see the plan, 1. Until then
  `RoleBindings` speaks of a time in which no role is edited.
- Environment templates: creations insert one per code unless the organization has
  it (`upsertEnvironmentTemplateTx`); nothing changes one later, and no other
  component decides upon them. Their locks: see the plan, 2.
- User label cache: labels to show. Nothing depends on a stale one but the text.
- Encryption of values: AES-GCM with one key from the configuration, without state.
- Signatures and password hashing: cryptography. A hash is the password it was
  made of, a signature is valid or not.
- HTTP layer, health and readiness, configuration, logging: routing, decoding,
  stateless probes, values read once, output. The checks a handler makes before it
  calls a service are in the module of that service.
- Identifiers: random UUIDs, taken as distinct where a module creates rows.
- Store interfaces and domain types: declarations; their fields are the variables.
- Shutdown and connections of `main`: a crash or restart covers what they can lose.
- Seed tool: a client that fills a development server.
