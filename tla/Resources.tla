----------------------------- MODULE Resources -----------------------------
(***************************************************************************)
(* The tree of resources in PostgreSQL: organization, project,             *)
(* environment, folder of level 1, folder of level 2 ("subfolder") and     *)
(* secret, one row each, deleted softly.  Handlers create rows and delete  *)
(* subtrees.  A creation reads that its parents are there and inserts in a *)
(* transaction that locks none of them; a deletion is one transaction of a *)
(* statement per table, at READ COMMITTED, that holds the rows it has      *)
(* marked until it commits.                                                *)
(*                                                                         *)
(* Modelled: the Create* and Delete* operations of                         *)
(* internal/store/postgres/repository.go, with the checks of their         *)
(* controllers and the scope queries of internal/store/postgres/rbac.go.   *)
(* A statement that waits for a lock reads again once it gets it, so it is *)
(* one step, taken when no other transaction holds a row it wants.         *)
(***************************************************************************)
EXTENDS Integers, Sequences, FiniteSets

CONSTANTS Nodes,        \* ids of rows, of all tables
          Kind,         \* the table, and the level, of each
          Chain,        \* node -> the node and everything above it
          InitialRows,  \* the rows there are at the start
          Batches,      \* sets of rows that one request creates
          Calls,        \* handlers that may run at once
          MaxErrors     \* bound: handlers that fail

Kinds == {"org", "project", "env", "folder", "subfolder", "secret"}
Level == [org |-> 0, project |-> 1, env |-> 2, folder |-> 3, subfolder |-> 4,
          secret |-> 5]

ASSUME ResourcesAssumption ==
         /\ Kind \in [Nodes -> Kinds]
         /\ Chain \in [Nodes -> SUBSET Nodes]
         /\ \A n \in Nodes : n \in Chain[n]
         /\ \A n \in Nodes : \A m \in Chain[n] : Chain[m] \subseteq Chain[n]
         /\ \A n \in Nodes : \A m \in Chain[n] \ {n} :
              Level[Kind[m]] < Level[Kind[n]]
         /\ \A n \in Nodes : Kind[n] # "org" =>
              \E m \in Nodes : Chain[m] = Chain[n] \ {n}
         /\ \A n \in Nodes : Kind[n] \in {"folder", "subfolder"} =>
              \E m \in Chain[n] : Kind[m] = "env"
         /\ \A n \in Nodes : Kind[n] # "org" => \E m \in Chain[n] : Kind[m] = "project"
         /\ InitialRows \subseteq Nodes
         /\ \A n \in InitialRows : Chain[n] \subseteq InitialRows
         /\ Batches \subseteq SUBSET Nodes
         /\ \A S \in Batches : \A m, n \in S : \* folders come with folders only
              Kind[m] \in {"folder", "subfolder"} => Kind[n] \in {"folder", "subfolder"}
         /\ MaxErrors \in Nat

VARIABLES rows,      \* the state of each row
          snapshots, \* how many deleted_records each row has
          call,      \* the handlers
          errors,    \* handlers that have failed
          late       \* auxiliary: for each row, those above it that a
                     \* deletion had taken before the row was inserted

vars == <<rows, snapshots, call, errors, late>>

-----------------------------------------------------------------------------
(* The tables *)

Of(kind) == {n \in Nodes : Kind[n] = kind}
Parent(n) == CHOOSE m \in Nodes : Chain[m] = Chain[n] \ {n}
EnvOf(n) == CHOOSE m \in Chain[n] : Kind[m] = "env"

\* Level 1 and level 2 are one table.
Table(n) == IF Kind[n] = "subfolder" THEN "folder" ELSE Kind[n]

\* The rows whose is_deleted the scope query of a resource looks at: the
\* folder above a level 2 folder is not among them.
Joined(n) ==
  {m \in Chain[n] : Kind[m] = "folder" => Chain[n] \cap Of("subfolder") = {}}

\* What a cascade from root reaches: all below an organization, a project or
\* an environment, but only the direct secrets of a folder.
Inside(root) ==
  {n \in Nodes \ {root} :
     /\ root \in Chain[n]
     /\ Kind[root] = "folder" => Kind[n] = "secret" /\ Parent(n) = root}

\* The tables a cascade goes through, in order.
LeavesFirst ==
  [org       |-> <<"project", "env", "folder", "secret">>,
   project   |-> <<"env", "folder", "secret">>,
   env       |-> <<"secret", "folder">>,
   folder    |-> <<"secret">>,
   subfolder |-> <<"secret">>,
   secret    |-> << >>]
WithTemplates ==
  [LeavesFirst EXCEPT !["org"] =
     <<"project", "env", "folder", "secret", "env_template">>]
NoFolders ==
  [LeavesFirst EXCEPT !["project"] = <<"env", "secret">>,
                      !["env"] = <<"secret">>]
Cascade ==
  [org       |-> <<"project", "env", "folder", "secret">>,
   project   |-> <<"env", "folder", "secret">>,
   env       |-> <<"folder", "secret">>,
   folder    |-> <<"secret">>,
   subfolder |-> <<"secret">>,
   secret    |-> << >>]

Live(n) == rows[n] = "live"
AllLive(S) == \A n \in S : Live(n)

-----------------------------------------------------------------------------
(* The handlers *)

Idle == [pc |-> "idle"]
CreateCall == [pc : {"scope", "parent"}, new : SUBSET Nodes,
               unread : SUBSET SUBSET Nodes] \* rows of the queries to come
DeleteCall == [pc : {"allow", "count", "snapshot", "root", "cascade"},
               root : Nodes, force : BOOLEAN,
               plan : Seq(Kinds),     \* the tables still to go through
               marked : SUBSET Nodes, \* rows the transaction has updated
               known : SUBSET Nodes,  \* auxiliary: Inside(root) at the count
               older : SUBSET Nodes]  \* auxiliary: Inside(root) when it began

TypeOK ==
  /\ rows \in [Nodes -> {"absent", "live", "deleted"}]
  /\ snapshots \in [Nodes -> Nat]
  /\ call \in [Calls -> CreateCall \cup DeleteCall \cup {Idle}]
  /\ errors \in 0 .. MaxErrors
  /\ late \in [Nodes -> SUBSET Nodes]

Init ==
  /\ rows = [n \in Nodes |-> IF n \in InitialRows THEN "live" ELSE "absent"]
  /\ snapshots = [n \in Nodes |-> 0]
  /\ call = [c \in Calls |-> Idle]
  /\ errors = 0
  /\ late = [n \in Nodes |-> {}]

At(c, pc) == call[c].pc = pc
Finish(c) == call' = [call EXCEPT ![c] = Idle]

\* The rows a handler's transaction holds.
Marked(c) == IF At(c, "cascade") THEN call[c].marked ELSE {}
HeldByOthers(c) == UNION {Marked(d) : d \in Calls \ {c}}

-----------------------------------------------------------------------------
(* Creation *)

\* What the first queries read: the scope of the parent; for folders, which
\* are not authorized by scope, each environment's own row.
Lead(S) == {n \in S : Chain[n] \cap S = {n}}
ScopeReads(S) ==
  IF \E n \in S : Table(n) = "folder"
    THEN {{EnvOf(n)} : n \in S}
    ELSE {Joined(Parent(n)) : n \in Lead(S) \ Of("org")}

\* Resources come side by side, or environments with their project.
ASSUME BatchesAreShallow ==
         \A S \in Batches : \A n \in S \ Lead(S) :
           Kind[n] \in {"folder", "subfolder"} \/ Parent(n) \in Lead(S)

\* Then an environment's project, and a level 2 folder's parent, once more.
ParentReads(S) ==
  {{Parent(n)} : n \in {m \in Lead(S) : Kind[m] \in {"env", "subfolder"}}}

StartCreate(c, S) ==
  /\ At(c, "idle")
  /\ \A n \in S : rows[n] = "absent"
  /\ \A d \in Calls : call[d].pc \in {"scope", "parent"} => call[d].new \cap S = {}
  /\ call' = [call EXCEPT ![c] = [pc |-> "scope", new |-> S,
                                  unread |-> ScopeReads(S)]]
  /\ UNCHANGED <<rows, snapshots, errors, late>>

Read(c) ==
  /\ call[c].pc \in {"scope", "parent"}
  /\ \E query \in call[c].unread :
       IF AllLive(query)
         THEN call' = [call EXCEPT ![c].unread = @ \ {query}]
         ELSE Finish(c)
  /\ UNCHANGED <<rows, snapshots, errors, late>>

ReadParents(c) ==
  /\ At(c, "scope") /\ call[c].unread = {}
  /\ call' = [call EXCEPT ![c].pc = "parent",
                          ![c].unread = ParentReads(call[c].new)]
  /\ UNCHANGED <<rows, snapshots, errors, late>>

Taken(m) == rows[m] = "deleted" \/ \E d \in Calls : m \in Marked(d)

\* One transaction inserts the whole batch.
Insert(c) ==
  /\ At(c, "parent") /\ call[c].unread = {}
  /\ rows' = [n \in Nodes |-> IF n \in call[c].new THEN "live" ELSE rows[n]]
  /\ late' = [n \in Nodes |-> IF n \in call[c].new THEN {m \in Chain[n] : Taken(m)}
                                                   ELSE late[n]]
  /\ Finish(c)
  /\ UNCHANGED <<snapshots, errors>>

-----------------------------------------------------------------------------
(* Deletion *)

StartDelete(c, n, force) ==
  /\ At(c, "idle")
  /\ rows[n] # "absent"
  /\ force => Kind[n] = "org"
  /\ call' = [call EXCEPT ![c] =
                [pc |-> "allow", root |-> n, force |-> force, plan |-> << >>,
                 marked |-> {}, known |-> {}, older |-> {}]]
  /\ UNCHANGED <<rows, snapshots, errors, late>>

\* A check lets the handler go on or ends it with an error.
Check(c, from, condition, to) ==
  /\ At(c, from)
  /\ IF condition THEN call' = [call EXCEPT ![c].pc = to] ELSE Finish(c)
  /\ UNCHANGED <<rows, snapshots, errors, late>>

CheckAllow(c) ==
  Check(c, "allow", AllLive(Joined(call[c].root)),
        IF Kind[call[c].root] = "org" /\ ~ call[c].force THEN "count"
                                                         ELSE "snapshot")

\* The count of active projects runs before, and outside, the transaction.
NeverAnyProject(org) == FALSE
HasProject(org) == \E n \in Of("project") : Live(n) /\ org \in Chain[n]

CheckProjects(c) ==
  /\ At(c, "count")
  /\ IF HasProject(call[c].root)
       THEN Finish(c)
       ELSE call' = [call EXCEPT ![c].pc = "snapshot",
                                 ![c].known = {n \in Inside(call[c].root) : Live(n)}]
  /\ UNCHANGED <<rows, snapshots, errors, late>>

\* The snapshot is read and recorded before the row is updated.
TakeSnapshot(c) == Check(c, "snapshot", Live(call[c].root), "root")

\* The update waits for the row; no row affected means it was deleted.
AnyAffected(c) == TRUE
Affected(c) == Live(call[c].root)

DeleteRoot(c) ==
  /\ At(c, "root")
  /\ call[c].root \notin HeldByOthers(c)
  /\ IF Affected(c)
       THEN call' = [call EXCEPT ![c].pc = "cascade",
                                 ![c].plan = Cascade[Kind[call[c].root]],
                                 ![c].marked = {call[c].root},
                                 ![c].older = {n \in Inside(call[c].root) : Live(n)}]
       ELSE Finish(c)
  /\ UNCHANGED <<rows, snapshots, errors, late>>

\* One statement: the live rows of one table inside the root.
Targets(c) ==
  {n \in Inside(call[c].root) : Live(n) /\ Table(n) = Head(call[c].plan)}

DeleteLevel(c) ==
  /\ At(c, "cascade") /\ call[c].plan # << >>
  /\ Targets(c) \cap HeldByOthers(c) = {}
  /\ call' = [call EXCEPT ![c].marked = @ \cup Targets(c),
                          ![c].plan = Tail(@)]
  /\ UNCHANGED <<rows, snapshots, errors, late>>

Commit(c) ==
  /\ At(c, "cascade") /\ call[c].plan = << >>
  /\ rows' = [n \in Nodes |-> IF n \in call[c].marked THEN "deleted" ELSE rows[n]]
  /\ snapshots' = [snapshots EXCEPT ![call[c].root] = @ + 1]
  /\ Finish(c)
  /\ UNCHANGED <<errors, late>>

-----------------------------------------------------------------------------
\* A query fails, a code is taken, the request is cancelled or the process
\* stops: the transaction rolls back.
Fail(c) ==
  /\ ~ At(c, "idle")
  /\ errors < MaxErrors
  /\ errors' = errors + 1
  /\ late' = [n \in Nodes |-> late[n] \ Marked(c)]
  /\ Finish(c)
  /\ UNCHANGED <<rows, snapshots>>

Continue(c) ==
  \/ Read(c) \/ ReadParents(c) \/ Insert(c)
  \/ CheckAllow(c) \/ CheckProjects(c) \/ TakeSnapshot(c)
  \/ DeleteRoot(c) \/ DeleteLevel(c) \/ Commit(c)

Next ==
  \E c \in Calls :
    \/ \E S \in Batches : StartCreate(c, S)
    \/ \E n \in Nodes, force \in BOOLEAN : StartDelete(c, n, force)
    \/ Continue(c) \/ Fail(c)

Spec == Init /\ [][Next]_vars

\* The database answers every query of a handler whose locks are free.
FairSpec == Spec /\ \A c \in Calls : WF_vars(Continue(c))

-----------------------------------------------------------------------------
(* Properties *)

\* However deletions of one resource and of those above it race, it gets one
\* record in deleted_records, and only when it is deleted (the count of
\* affected rows in snapshotAndSoftDeleteTx).
SnapshotOnce ==
  \A n \in Nodes : snapshots[n] <= 1 /\ (snapshots[n] > 0 => rows[n] = "deleted")

\* Whatever lived inside the root when its transaction began is deleted when
\* it commits, also when another deletion held part of it and then rolled
\* back (the Delete* cascades, table by table).
CascadeReachesOlder ==
  \A c \in Calls :
    At(c, "cascade") /\ call[c].plan = << >> =>
      \A n \in call[c].older : n \in call[c].marked \/ rows[n] = "deleted"

\* Every handler ends: the cascades lock the tables from the top down, so a
\* deletion that waits is let through once the other one commits or rolls
\* back.
HandlersEnd == \A c \in Calls : call[c].pc # "idle" ~> call[c].pc = "idle"

\* However creations and deletions race, a row lives below a deleted one in two
\* cases only.  It was inserted after the deletion had taken the one above it
\* (Create* locks no parent); or it is a level 2 folder, or in one, whose level
\* 1 folder was itself deleted (DeleteFolder).  Otherwise the cascades, from
\* the top table down, take what is created while they run.
OrphansExplained ==
  \A n \in Nodes : \A m \in Chain[n] :
    Live(n) /\ rows[m] = "deleted" =>
      \/ m \in late[n]
      \/ /\ Kind[m] = "folder" /\ snapshots[m] > 0
         /\ Chain[n] \cap Of("subfolder") # {}

\* However creations race with the count of the projects, a deletion without
\* force takes, of what lived in the organization at the count, only what
\* had already been orphaned by the deletion of its project.
UnforcedSparesProjects ==
  \A c \in Calls :
    At(c, "cascade") /\ Kind[call[c].root] = "org" /\ ~ call[c].force =>
      \A n \in call[c].marked \cap call[c].known :
        \E p \in Chain[n] : Kind[p] = "project" /\ rows[p] = "deleted"

-----------------------------------------------------------------------------
(* What the documents say and the code does not keep                       *)

\* "All deletions cascade from parent to child, so that no row is orphaned"
\* (DESIGN.md): nothing lives below what has been deleted.
NoOrphans == \A n \in Nodes : Live(n) => AllLive(Chain[n])

\* "Without force only the organization itself is deleted, and any active
\* project is a conflict" (DeleteOrganization).
UnforcedDeletesNothingElse ==
  \A c \in Calls :
    At(c, "cascade") /\ Kind[call[c].root] = "org" /\ ~ call[c].force
      => call[c].marked = {call[c].root}
=============================================================================
