-------------------------- MODULE Resources_proofs --------------------------
(***************************************************************************)
(* Theorems about Resources, for any tree, batches and number of handlers: *)
(* type correctness, one record of deletion for each resource, complete    *)
(* cascades, what may live below a deleted row, and what a deletion        *)
(* without force may take.                                                 *)
(***************************************************************************)
EXTENDS Resources, TLAPS

-----------------------------------------------------------------------------
(* What the queries look at are rows. *)

FolderKinds == {"folder", "subfolder"}

\* Every resource but an organization has a parent.
LEMMA ParentIsNode ==
  ASSUME NEW n \in Nodes, Kind[n] # "org"
  PROVE  Parent(n) \in Nodes
  BY ResourcesAssumption DEF Parent

\* Every folder is in an environment.
LEMMA EnvIsNode ==
  ASSUME NEW n \in Nodes, Kind[n] \in FolderKinds
  PROVE  EnvOf(n) \in Nodes
<1>1. EnvOf(n) \in Chain[n]
  BY ResourcesAssumption DEF EnvOf, FolderKinds
<1> QED
  BY <1>1, ResourcesAssumption

\* The first queries of a creation look at rows of the tree.
LEMMA ReadsAreRows ==
  ASSUME NEW S \in Batches
  PROVE  ScopeReads(S) \in SUBSET SUBSET Nodes
<1>1. S \subseteq Nodes
  BY ResourcesAssumption
<1>2. CASE \E n \in S : Table(n) = "folder"
  <2>1. \A n \in S : Kind[n] \in FolderKinds
    <3>1. PICK m \in S : Table(m) = "folder"
      BY <1>2
    <3>2. Kind[m] \in FolderKinds
      BY <3>1 DEF Table, FolderKinds
    <3> QED
      BY <3>2, ResourcesAssumption DEF FolderKinds
  <2>2. \A n \in S : {EnvOf(n)} \subseteq Nodes
    BY <1>1, <2>1, EnvIsNode
  <2> QED
    BY <1>2, <2>2 DEF ScopeReads
<1>3. CASE ~ \E n \in S : Table(n) = "folder"
  <2>1. \A n \in Lead(S) \ Of("org") : n \in Nodes /\ Kind[n] # "org"
    BY <1>1 DEF Lead, Of
  <2>2. \A n \in Lead(S) \ Of("org") : Joined(Parent(n)) \subseteq Nodes
    BY <2>1, ParentIsNode, ResourcesAssumption DEF Joined
  <2> QED
    BY <1>3, <2>2 DEF ScopeReads
<1> QED
  BY <1>2, <1>3

\* So do the queries for the parents.
LEMMA ParentReadsAreRows ==
  ASSUME NEW S \in SUBSET Nodes
  PROVE  ParentReads(S) \in SUBSET SUBSET Nodes
<1>1. \A n \in {m \in Lead(S) : Kind[m] \in {"env", "subfolder"}} :
        Parent(n) \in Nodes
  BY ParentIsNode DEF Lead
<1> QED
  BY <1>1 DEF ParentReads

\* The plan of every deletion is a sequence of tables.
LEMMA PlansAreSequences ==
  ASSUME NEW n \in Nodes
  PROVE  Cascade[Kind[n]] \in Seq(Kinds)
<1>1. Kind[n] \in Kinds
  BY ResourcesAssumption
<1>2. /\ <<"project", "env", "folder", "secret">> \in Seq(Kinds)
      /\ <<"env", "folder", "secret">> \in Seq(Kinds)
      /\ <<"folder", "secret">> \in Seq(Kinds)
      /\ <<"secret">> \in Seq(Kinds)
      /\ << >> \in Seq(Kinds)
  BY DEF Kinds
<1>3. /\ Cascade["org"] = <<"project", "env", "folder", "secret">>
      /\ Cascade["project"] = <<"env", "folder", "secret">>
      /\ Cascade["env"] = <<"folder", "secret">>
      /\ Cascade["folder"] = <<"secret">>
      /\ Cascade["subfolder"] = <<"secret">>
      /\ Cascade["secret"] = << >>
  BY DEF Cascade
<1> QED
  BY <1>1, <1>2, <1>3 DEF Kinds

-----------------------------------------------------------------------------
(* Type correctness *)

Creating == {"scope", "parent"}
Deleting == {"allow", "count", "snapshot", "root", "cascade"}

\* The program counter tells a creation from a deletion.
LEMMA CallTypes ==
  ASSUME TypeOK, NEW c \in Calls
  PROVE  /\ call[c].pc \in Creating => call[c] \in CreateCall
         /\ call[c].pc \in Deleting => call[c] \in DeleteCall
  BY DEF TypeOK, Creating, Deleting, CreateCall, DeleteCall, Idle

\* A step of one handler that leaves it well typed leaves all well typed.
LEMMA CallKept ==
  ASSUME TypeOK, NEW c \in Calls, NEW q \in CreateCall \cup DeleteCall \cup {Idle},
         call' = [call EXCEPT ![c] = q]
  PROVE  call' \in [Calls -> CreateCall \cup DeleteCall \cup {Idle}]
  BY DEF TypeOK

\* The transaction of a deletion begins, and goes on.
LEMMA RootKept ==
  ASSUME TypeOK, NEW c \in Calls, call[c] \in DeleteCall,
         NEW plan \in Seq(Kinds), NEW marked \in SUBSET Nodes,
         NEW older \in SUBSET Nodes,
         call' = [call EXCEPT ![c].pc = "cascade", ![c].plan = plan,
                              ![c].marked = marked, ![c].older = older]
  PROVE  call' \in [Calls -> CreateCall \cup DeleteCall \cup {Idle}]
<1>1. [call[c] EXCEPT !.pc = "cascade", !.plan = plan, !.marked = marked,
                      !.older = older] \in DeleteCall
  BY DEF DeleteCall
<1>2. call' = [call EXCEPT ![c] = [call[c] EXCEPT !.pc = "cascade",
                                     !.plan = plan, !.marked = marked,
                                     !.older = older]]
  BY DEF TypeOK
<1> QED
  BY <1>1, <1>2, CallKept

\* The same for the next statement of a cascade.
LEMMA LevelKept ==
  ASSUME TypeOK, NEW c \in Calls, call[c] \in DeleteCall,
         NEW plan \in Seq(Kinds), NEW marked \in SUBSET Nodes,
         call' = [call EXCEPT ![c].marked = marked, ![c].plan = plan]
  PROVE  call' \in [Calls -> CreateCall \cup DeleteCall \cup {Idle}]
<1>1. [call[c] EXCEPT !.marked = marked, !.plan = plan] \in DeleteCall
  BY DEF DeleteCall
<1>2. call' = [call EXCEPT ![c] = [call[c] EXCEPT !.marked = marked,
                                                  !.plan = plan]]
  BY DEF TypeOK
<1> QED
  BY <1>1, <1>2, CallKept

\* The initial state is well typed.
LEMMA InitTypeOK == Init => TypeOK
  BY ResourcesAssumption DEF Init, TypeOK

\* Every step keeps the types.
LEMMA StepTypeOK == TypeOK /\ [Next]_vars => TypeOK'
<1> SUFFICES ASSUME TypeOK, [Next]_vars
             PROVE  TypeOK'
  OBVIOUS
<1> DEFINE CallOK == call \in [Calls -> CreateCall \cup DeleteCall \cup {Idle}]
<1>0. ASSUME NEW c \in Calls, Finish(c)
      PROVE  CallOK'
  BY <1>0, CallKept DEF Finish
<1>1. ASSUME NEW c \in Calls, NEW S \in Batches, StartCreate(c, S)
      PROVE  TypeOK'
  <2>1. [pc |-> "scope", new |-> S, unread |-> ScopeReads(S)] \in CreateCall
    BY ReadsAreRows, ResourcesAssumption DEF CreateCall
  <2>2. CallOK'
    BY <1>1, <2>1, CallKept DEF StartCreate
  <2> QED
    BY <1>1, <2>2 DEF StartCreate, TypeOK
<1>2. ASSUME NEW c \in Calls, NEW n \in Nodes, NEW force \in BOOLEAN,
             StartDelete(c, n, force)
      PROVE  TypeOK'
  <2>1. [pc |-> "allow", root |-> n, force |-> force, plan |-> << >>,
         marked |-> {}, known |-> {}, older |-> {}] \in DeleteCall
    BY DEF DeleteCall
  <2>2. CallOK'
    BY <1>2, <2>1, CallKept DEF StartDelete
  <2> QED
    BY <1>2, <2>2 DEF StartDelete, TypeOK
<1>3. ASSUME NEW c \in Calls, Read(c)
      PROVE  TypeOK'
  <2>1. call[c] \in CreateCall
    BY <1>3, CallTypes DEF Read, Creating
  <2>2. \A query : [call[c] EXCEPT !.unread = @ \ {query}] \in CreateCall
    BY <2>1 DEF CreateCall
  <2>3. CASE \E query \in call[c].unread :
               call' = [call EXCEPT ![c].unread = @ \ {query}]
    <3>1. CallOK'
      BY <2>2, <2>3, CallKept
    <3> QED
      BY <1>3, <3>1 DEF Read, TypeOK
  <2> QED
    BY <1>3, <1>0, <2>3 DEF Read, TypeOK
<1>4. ASSUME NEW c \in Calls, ReadParents(c)
      PROVE  TypeOK'
  <2>1. call[c] \in CreateCall
    BY <1>4, CallTypes DEF ReadParents, At, Creating
  <2>2. ParentReads(call[c].new) \in SUBSET SUBSET Nodes
    BY <2>1, ParentReadsAreRows DEF CreateCall
  <2>3. [call[c] EXCEPT !.pc = "parent", !.unread = ParentReads(call[c].new)]
          \in CreateCall
    BY <2>1, <2>2 DEF CreateCall
  <2>4. call' = [call EXCEPT ![c] = [call[c] EXCEPT !.pc = "parent",
                                     !.unread = ParentReads(call[c].new)]]
    BY <1>4 DEF ReadParents, TypeOK
  <2>5. CallOK'
    BY <2>3, <2>4, CallKept
  <2> QED
    BY <1>4, <2>5 DEF ReadParents, TypeOK
<1>5. ASSUME NEW c \in Calls, Insert(c)
      PROVE  TypeOK'
  <2>1. \A n \in Nodes : {m \in Chain[n] : Taken(m)} \in SUBSET Nodes
    BY ResourcesAssumption
  <2>2. late' \in [Nodes -> SUBSET Nodes]
    BY <1>5, <2>1 DEF Insert, TypeOK
  <2> QED BY <1>5, <1>0, <2>2 DEF Insert, TypeOK
<1>6. ASSUME NEW c \in Calls, CheckAllow(c) \/ TakeSnapshot(c)
      PROVE  TypeOK'
  <2>1. call[c] \in DeleteCall
    BY <1>6, CallTypes DEF CheckAllow, TakeSnapshot, Check, At, Deleting
  <2>2. \A to \in Deleting : [call[c] EXCEPT !.pc = to] \in DeleteCall
    BY <2>1 DEF DeleteCall, Deleting
  <2>3. /\ UNCHANGED <<rows, snapshots, errors, late>>
        /\ Finish(c) \/ \E to \in Deleting : call' = [call EXCEPT ![c].pc = to]
    BY <1>6 DEF CheckAllow, TakeSnapshot, Check, Deleting
  <2>4. CallOK'
    BY <1>0, <2>2, <2>3, CallKept
  <2> QED
    BY <2>3, <2>4 DEF TypeOK
<1>7. ASSUME NEW c \in Calls, DeleteRoot(c)
      PROVE  TypeOK'
  <2>1. call[c] \in DeleteCall
    BY <1>7, CallTypes DEF DeleteRoot, At, Deleting
  <2>2. /\ Cascade[Kind[call[c].root]] \in Seq(Kinds)
        /\ {call[c].root} \subseteq Nodes
        /\ {n \in Inside(call[c].root) : Live(n)} \subseteq Nodes
    BY <2>1, PlansAreSequences DEF DeleteCall, Inside
  <2>3. CallOK'
    <3> DEFINE older == {n \in Inside(call[c].root) : Live(n)}
    <3>1. CASE call' = [call EXCEPT ![c].pc = "cascade",
                                    ![c].plan = Cascade[Kind[call[c].root]],
                                    ![c].marked = {call[c].root},
                                    ![c].older = older]
      <4>1. older \in SUBSET Nodes
        BY <2>2
      <4> HIDE DEF older
      <4> QED
        BY <2>1, <2>2, <3>1, <4>1, RootKept
    <3> QED
      BY <1>0, <1>7, <3>1 DEF DeleteRoot
  <2> QED
    BY <1>7, <2>3 DEF DeleteRoot, TypeOK
<1>8. ASSUME NEW c \in Calls, DeleteLevel(c)
      PROVE  TypeOK'
  <2>1. call[c] \in DeleteCall
    BY <1>8, CallTypes DEF DeleteLevel, At, Deleting
  <2>2. Targets(c) \subseteq Nodes /\ Tail(call[c].plan) \in Seq(Kinds)
    BY <1>8, <2>1 DEF DeleteLevel, Targets, Inside, DeleteCall
  <2>3. call[c].marked \cup Targets(c) \in SUBSET Nodes
    BY <2>1, <2>2 DEF DeleteCall
  <2>4. CallOK'
    BY <1>8, <2>1, <2>2, <2>3, LevelKept DEF DeleteLevel
  <2> QED
    BY <1>8, <2>4 DEF DeleteLevel, TypeOK
<1>9. ASSUME NEW c \in Calls, Commit(c)
      PROVE  TypeOK'
  <2>1. snapshots' \in [Nodes -> Nat]
    <3>1. call[c].root \in Nodes
      BY <1>9, CallTypes DEF Commit, At, Deleting, DeleteCall
    <3> QED
      BY <1>9, <3>1 DEF Commit, TypeOK
  <2>2. rows' \in [Nodes -> {"absent", "live", "deleted"}]
    BY <1>9 DEF Commit, TypeOK
  <2> QED
    BY <1>9, <1>0, <2>1, <2>2 DEF Commit, TypeOK
<1>10. ASSUME NEW c \in Calls, Fail(c)
       PROVE  TypeOK'
  <2>1. late' \in [Nodes -> SUBSET Nodes]
    BY <1>10 DEF Fail, TypeOK
  <2> QED BY <1>10, <1>0, <2>1, ResourcesAssumption DEF Fail, TypeOK
<1>11. ASSUME NEW c \in Calls, CheckProjects(c)
       PROVE  TypeOK'
  <2> DEFINE found == {n \in Inside(call[c].root) : Live(n)}
  <2>1. call[c] \in DeleteCall
    BY <1>11, CallTypes DEF CheckProjects, At, Deleting
  <2>2. found \in SUBSET Nodes
    BY DEF Inside
  <2>3. CASE call' = [call EXCEPT ![c].pc = "snapshot", ![c].known = found]
    <3> HIDE DEF found
    <3>1. [call[c] EXCEPT !.pc = "snapshot", !.known = found] \in DeleteCall
      BY <2>1, <2>2 DEF DeleteCall
    <3>2. call' = [call EXCEPT ![c] = [call[c] EXCEPT !.pc = "snapshot",
                                                       !.known = found]]
      BY <2>3 DEF TypeOK
    <3> QED BY <1>11, <3>1, <3>2, CallKept DEF CheckProjects, TypeOK
  <2>4. CASE Finish(c)
    BY <1>11, <1>0, <2>4 DEF CheckProjects, TypeOK
  <2> QED BY <1>11, <2>3, <2>4 DEF CheckProjects
<1>12. CASE UNCHANGED vars
  BY <1>12 DEF vars, TypeOK
<1> QED
  BY <1>1, <1>2, <1>3, <1>4, <1>5, <1>6, <1>7, <1>8, <1>9, <1>10, <1>11, <1>12
     DEF Next, Continue

\* The tables and the handlers always have the types of TypeOK.
THEOREM TypeCorrect == Spec => []TypeOK
  BY InitTypeOK, StepTypeOK, PTL DEF Spec

-----------------------------------------------------------------------------
(* One record of deletion.  The strengthening: no row is held by two         *)
(* transactions, what is held is live, and what is still to be inserted is   *)
(* absent and in one batch only.                                             *)

HoldsRoot == \A c \in Calls : At(c, "cascade") => call[c].root \in Marked(c)
HeldLive == \A c \in Calls : \A n \in Marked(c) : Live(n)
HeldOnce == \A c, d \in Calls : c # d => Marked(c) \cap Marked(d) = {}
NewAbsent ==
  \A c \in Calls : call[c].pc \in Creating => \A n \in call[c].new : rows[n] = "absent"
NewOnce ==
  \A c, d \in Calls :
    c # d /\ call[c].pc \in Creating /\ call[d].pc \in Creating
      => call[c].new \cap call[d].new = {}

Exclusive == HoldsRoot /\ HeldLive /\ HeldOnce /\ NewAbsent /\ NewOnce
Inv == TypeOK /\ SnapshotOnce /\ Exclusive

\* A step that touches no row and takes no lock.
Calm(c) ==
  /\ UNCHANGED <<rows, snapshots>>
  /\ \A d \in Calls \ {c} : call'[d] = call[d]
  /\ call'[c].pc # "cascade"
  /\ call'[c].pc \in Creating =>
       call[c].pc \in Creating /\ call'[c].new = call[c].new

\* A handler that ends is idle, and the others are as they were.
LEMMA FinishEffect ==
  ASSUME TypeOK, NEW c \in Calls, Finish(c)
  PROVE  /\ \A d \in Calls \ {c} : call'[d] = call[d]
         /\ call'[c].pc = "idle"
  BY DEF Finish, TypeOK, Idle

\* A deletion that begins touches nothing.
LEMMA StartDeleteCalm ==
  ASSUME TypeOK, NEW c \in Calls, NEW n, NEW force, StartDelete(c, n, force)
  PROVE  Calm(c)
  BY DEF StartDelete, Calm, TypeOK, Creating

\* The steps of a handler that read, go on or end.
Calming(c) ==
  \/ Read(c) \/ ReadParents(c) \/ CheckAllow(c) \/ CheckProjects(c)
  \/ TakeSnapshot(c) \/ (DeleteRoot(c) /\ Finish(c)) \/ Fail(c)

\* Nor does a step that reads, goes on or ends.
LEMMA CalmSteps ==
  ASSUME TypeOK, NEW c \in Calls, Calming(c)
  PROVE  Calm(c)
<1>1. CASE Finish(c) /\ UNCHANGED <<rows, snapshots>>
  BY <1>1, FinishEffect DEF Calm, Creating
<1>2. CASE Read(c)
  <2>1. call[c] \in CreateCall
    BY <1>2, CallTypes DEF Read, Creating
  <2>2. CASE \E query \in call[c].unread :
               call' = [call EXCEPT ![c].unread = @ \ {query}]
    BY <1>2, <2>1, <2>2 DEF Read, Calm, TypeOK, Creating, CreateCall
  <2> QED
    BY <1>1, <1>2, <2>2 DEF Read
<1>3. CASE ReadParents(c)
  <2>1. call[c] \in CreateCall
    BY <1>3, CallTypes DEF ReadParents, At, Creating
  <2> QED
    BY <1>3, <2>1 DEF ReadParents, At, Calm, TypeOK, Creating, CreateCall
<1>4. CASE CheckAllow(c) \/ TakeSnapshot(c)
  <2>1. call[c] \in DeleteCall
    BY <1>4, CallTypes DEF CheckAllow, TakeSnapshot, Check, At, Deleting
  <2>2. /\ UNCHANGED <<rows, snapshots>>
        /\ Finish(c) \/ \E to \in {"count", "snapshot", "root"} :
                          call' = [call EXCEPT ![c].pc = to]
    BY <1>4 DEF CheckAllow, TakeSnapshot, Check
  <2>3. ASSUME NEW to \in {"count", "snapshot", "root"},
               call' = [call EXCEPT ![c].pc = to]
        PROVE  Calm(c)
    BY <2>1, <2>2, <2>3 DEF Calm, TypeOK, Creating, DeleteCall
  <2> QED
    BY <1>1, <2>2, <2>3
<1>5. CASE DeleteRoot(c) /\ Finish(c)
  BY <1>1, <1>5 DEF DeleteRoot
<1>6. CASE Fail(c)
  BY <1>1, <1>6 DEF Fail
<1>7. CASE CheckProjects(c)
  <2>1. call[c] \in DeleteCall
    BY <1>7, CallTypes DEF CheckProjects, At, Deleting
  <2>2. CASE ~ Finish(c)
    BY <1>7, <2>1, <2>2 DEF CheckProjects, Calm, TypeOK, Creating, DeleteCall
  <2> QED BY <1>1, <1>7, <2>2 DEF CheckProjects
<1> QED
  BY <1>2, <1>3, <1>4, <1>5, <1>6, <1>7 DEF Calming

\* At the start nothing is held, inserted or recorded.
LEMMA InitInv == Init => Inv
  BY InitTypeOK DEF Init, Inv, SnapshotOnce, Exclusive, HoldsRoot, HeldLive,
     HeldOnce, NewAbsent, NewOnce, At, Marked, Idle, Creating

\* A transaction that goes on takes live rows that nobody holds.
LEMMA TakingLocks ==
  ASSUME Exclusive, SnapshotOnce, NEW c \in Calls, NEW S \in SUBSET Nodes,
         UNCHANGED <<rows, snapshots>>,
         \A n \in S : Live(n) /\ n \notin HeldByOthers(c),
         \A d \in Calls \ {c} : call'[d] = call[d],
         call'[c].pc = "cascade",
         call'[c].marked = Marked(c) \cup S,
         call'[c].root \in call'[c].marked
  PROVE  Exclusive' /\ SnapshotOnce'
<1>1. /\ \A d \in Calls \ {c} : Marked(d)' = Marked(d)
      /\ Marked(c)' = Marked(c) \cup S
  BY DEF Marked, At
<1>2. HoldsRoot'
  BY <1>1 DEF Exclusive, HoldsRoot, At, Marked
<1>3. HeldLive'
  BY <1>1 DEF Exclusive, HeldLive, Live
<1>4. HeldOnce'
  <2>1. \A d \in Calls \ {c} : S \cap Marked(d) = {}
    BY DEF HeldByOthers
  <2> QED
    BY <1>1, <2>1 DEF Exclusive, HeldOnce
<1>5. NewAbsent' /\ NewOnce'
  BY DEF Exclusive, NewAbsent, NewOnce, Creating
<1> QED
  BY <1>2, <1>3, <1>4, <1>5 DEF Exclusive, SnapshotOnce

\* Every step keeps the strengthened invariant.
LEMMA StepInv == Inv /\ [Next]_vars => Inv'
<1> SUFFICES ASSUME TypeOK, SnapshotOnce, Exclusive, [Next]_vars
             PROVE  SnapshotOnce' /\ Exclusive'
  BY StepTypeOK DEF Inv
<1>1. ASSUME NEW c \in Calls, Calm(c)
      PROVE  SnapshotOnce' /\ Exclusive'
  <2>1. /\ \A d \in Calls \ {c} : Marked(d)' = Marked(d)
        /\ Marked(c)' = {}
    BY <1>1 DEF Calm, Marked, At
  <2>2. HoldsRoot' /\ HeldLive' /\ HeldOnce'
    BY <1>1, <2>1 DEF Calm, Exclusive, HoldsRoot, HeldLive, HeldOnce, At, Live
  <2>3. NewAbsent' /\ NewOnce'
    BY <1>1 DEF Calm, Exclusive, NewAbsent, NewOnce
  <2> QED
    BY <1>1, <2>2, <2>3 DEF Calm, Exclusive, SnapshotOnce
<1>2. ASSUME NEW c \in Calls, NEW S \in Batches, StartCreate(c, S)
      PROVE  SnapshotOnce' /\ Exclusive'
  <2>1. /\ \A d \in Calls \ {c} : call'[d] = call[d]
        /\ call'[c].pc = "scope" /\ call'[c].new = S
        /\ UNCHANGED <<rows, snapshots>>
    BY <1>2 DEF StartCreate, TypeOK
  <2>2. /\ \A d \in Calls \ {c} : Marked(d)' = Marked(d)
        /\ Marked(c)' = {}
    BY <2>1 DEF Marked, At
  <2>3. HoldsRoot' /\ HeldLive' /\ HeldOnce'
    BY <2>1, <2>2 DEF Exclusive, HoldsRoot, HeldLive, HeldOnce, At, Live
  <2>4. NewAbsent' /\ NewOnce'
    BY <1>2, <2>1 DEF StartCreate, Exclusive, NewAbsent, NewOnce, Creating
  <2> QED
    BY <2>1, <2>3, <2>4 DEF Exclusive, SnapshotOnce
<1>3. ASSUME NEW c \in Calls, Insert(c)
      PROVE  SnapshotOnce' /\ Exclusive'
  <2>1. /\ \A d \in Calls \ {c} : call'[d] = call[d]
        /\ call'[c].pc = "idle"
    BY <1>3, FinishEffect DEF Insert
  <2>2. /\ call[c].pc \in Creating
        /\ \A n \in call[c].new : rows[n] = "absent"
        /\ \A n \in Nodes : rows'[n] = IF n \in call[c].new THEN "live" ELSE rows[n]
        /\ snapshots' = snapshots
    BY <1>3 DEF Insert, At, Creating, Exclusive, NewAbsent
  <2>3. /\ \A d \in Calls \ {c} : Marked(d)' = Marked(d)
        /\ Marked(c)' = {}
    BY <2>1 DEF Marked, At
  <2>4. \A d \in Calls : Marked(d) \subseteq Nodes
    BY CallTypes DEF Marked, At, Deleting, DeleteCall
  <2>5. HoldsRoot' /\ HeldLive' /\ HeldOnce'
    BY <2>1, <2>2, <2>3, <2>4 DEF Exclusive, HoldsRoot, HeldLive, HeldOnce, At, Live
  <2>6. \A d \in Calls : call[d].pc \in Creating => call[d].new \subseteq Nodes
    BY CallTypes DEF CreateCall
  <2>7. NewAbsent' /\ NewOnce'
    BY <2>1, <2>2, <2>6 DEF Exclusive, NewAbsent, NewOnce, Creating
  <2>8. SnapshotOnce'
    BY <2>2 DEF SnapshotOnce
  <2> QED
    BY <2>5, <2>7, <2>8 DEF Exclusive
<1>4. ASSUME NEW c \in Calls, DeleteRoot(c), ~ Finish(c)
      PROVE  SnapshotOnce' /\ Exclusive'
  <2>1. call[c] \in DeleteCall /\ Marked(c) = {}
    BY <1>4, CallTypes DEF DeleteRoot, At, Deleting, Marked
  <2>2. /\ \A d \in Calls \ {c} : call'[d] = call[d]
        /\ call'[c].pc = "cascade" /\ call'[c].root = call[c].root
        /\ call'[c].marked = {call[c].root}
        /\ UNCHANGED <<rows, snapshots>>
    BY <1>4, <2>1 DEF DeleteRoot, TypeOK, DeleteCall
  <2>3. /\ {call[c].root} \subseteq Nodes
        /\ Live(call[c].root) /\ call[c].root \notin HeldByOthers(c)
    BY <1>4, <2>1 DEF DeleteRoot, Affected, DeleteCall
  <2> QED
    BY <2>1, <2>2, <2>3, TakingLocks
<1>5. ASSUME NEW c \in Calls, DeleteLevel(c)
      PROVE  SnapshotOnce' /\ Exclusive'
  <2>1. call[c] \in DeleteCall /\ Marked(c) = call[c].marked
    BY <1>5, CallTypes DEF DeleteLevel, At, Deleting, Marked
  <2>2. /\ \A d \in Calls \ {c} : call'[d] = call[d]
        /\ call'[c].pc = "cascade" /\ call'[c].root = call[c].root
        /\ call'[c].marked = call[c].marked \cup Targets(c)
        /\ UNCHANGED <<rows, snapshots>>
    BY <1>5, <2>1 DEF DeleteLevel, At, TypeOK, DeleteCall
  <2>3. call[c].root \in call[c].marked
    BY <1>5, <2>1 DEF DeleteLevel, Exclusive, HoldsRoot
  <2>4. /\ Targets(c) \subseteq Nodes
        /\ \A n \in Targets(c) : Live(n) /\ n \notin HeldByOthers(c)
    BY <1>5 DEF DeleteLevel, Targets, Inside
  <2> QED
    BY <2>1, <2>2, <2>3, <2>4, TakingLocks
<1>6. ASSUME NEW c \in Calls, Commit(c)
      PROVE  SnapshotOnce' /\ Exclusive'
  <2>1. /\ \A d \in Calls \ {c} : call'[d] = call[d]
        /\ call'[c].pc = "idle"
    BY <1>6, FinishEffect DEF Commit
  <2>2. call[c] \in DeleteCall /\ Marked(c) = call[c].marked
    BY <1>6, CallTypes DEF Commit, At, Deleting, Marked
  <2>3. /\ call[c].root \in Marked(c)
        /\ Live(call[c].root)
    BY <1>6 DEF Commit, Exclusive, HoldsRoot, HeldLive
  <2>4. \A n \in Nodes : rows'[n] = IF n \in Marked(c) THEN "deleted" ELSE rows[n]
    BY <1>6, <2>2 DEF Commit
  <2>5. SnapshotOnce'
    <3>1. /\ call[c].root \in Nodes
          /\ snapshots[call[c].root] = 0
      <4>1. call[c].root \in Nodes
        BY <2>2 DEF DeleteCall
      <4>2. snapshots[call[c].root] \in Nat
        BY <4>1 DEF TypeOK
      <4>3. ~ (snapshots[call[c].root] > 0)
        BY <2>3, <4>1 DEF SnapshotOnce, Live
      <4> QED BY <4>1, <4>2, <4>3
    <3>2. /\ snapshots'[call[c].root] = 1
          /\ \A n \in Nodes \ {call[c].root} : snapshots'[n] = snapshots[n]
      BY <1>6, <3>1 DEF Commit, TypeOK
    <3> QED
      BY <2>3, <2>4, <3>1, <3>2 DEF SnapshotOnce
  <2>6. /\ \A d \in Calls \ {c} : Marked(d)' = Marked(d)
        /\ Marked(c)' = {}
    BY <2>1 DEF Marked, At
  <2>7. \A d \in Calls : Marked(d) \subseteq Nodes
    BY CallTypes DEF Marked, At, Deleting, DeleteCall
  <2>8. HoldsRoot' /\ HeldLive' /\ HeldOnce'
    BY <2>1, <2>4, <2>6, <2>7
       DEF Exclusive, HoldsRoot, HeldLive, HeldOnce, At, Live
  <2>9. \A n \in Marked(c) : rows[n] # "absent"
    BY DEF Exclusive, HeldLive, Live
  <2>10. \A d \in Calls : call[d].pc \in Creating => call[d].new \subseteq Nodes
    BY CallTypes DEF CreateCall
  <2>11. NewAbsent' /\ NewOnce'
    BY <2>1, <2>4, <2>9, <2>10 DEF Exclusive, NewAbsent, NewOnce, Creating
  <2> QED
    BY <2>5, <2>8, <2>11 DEF Exclusive
<1>7. CASE UNCHANGED vars
  BY <1>7 DEF vars, SnapshotOnce, Exclusive, HoldsRoot, HeldLive, HeldOnce,
              NewAbsent, NewOnce, Marked, At, Live
<1>8. ASSUME NEW c \in Calls, NEW n \in Nodes, NEW force \in BOOLEAN,
             StartDelete(c, n, force)
      PROVE  SnapshotOnce' /\ Exclusive'
  BY <1>1, <1>8, StartDeleteCalm
<1>9. ASSUME NEW c \in Calls, Continue(c) \/ Fail(c)
      PROVE  SnapshotOnce' /\ Exclusive'
  <2>1. CASE Insert(c) \/ DeleteLevel(c) \/ Commit(c)
    BY <1>3, <1>5, <1>6, <2>1
  <2>2. CASE DeleteRoot(c)
    BY <1>1, <1>4, <2>2, CalmSteps DEF Calming
  <2>3. CASE \/ Read(c) \/ ReadParents(c) \/ CheckAllow(c) \/ CheckProjects(c)
             \/ TakeSnapshot(c) \/ Fail(c)
    BY <1>1, <2>3, CalmSteps DEF Calming
  <2> QED
    BY <1>9, <2>1, <2>2, <2>3 DEF Continue
<1> QED
  BY <1>2, <1>7, <1>8, <1>9 DEF Next

\* However deletions of one resource and of those above it race, it gets one
\* record in deleted_records, and only when it is deleted.
THEOREM OneRecordEach == Spec => []SnapshotOnce
<1>1. Inv => SnapshotOnce
  BY DEF Inv
<1> QED
  BY <1>1, InitInv, StepInv, PTL DEF Spec

-----------------------------------------------------------------------------
(* Complete cascades.  The strengthening: what lived inside the root is held *)
(* or deleted, or its table is still in the plan.                            *)

InPlan(table, plan) == \E i \in 1 .. Len(plan) : plan[i] = table

Reached(n, q) ==
  /\ n \in Inside(q.root) /\ rows[n] # "absent"
  /\ n \in q.marked \/ rows[n] = "deleted" \/ InPlan(Table(n), q.plan)

OlderReached ==
  \A c \in Calls : At(c, "cascade") => \A n \in call[c].older : Reached(n, call[c])

\* The plan of a root names the table of everything the cascade is to reach.
LEMMA PlanIsComplete ==
  ASSUME NEW root \in Nodes, NEW n \in Inside(root)
  PROVE  InPlan(Table(n), Cascade[Kind[root]])
<1>1. /\ n \in Nodes /\ Kind[n] \in Kinds /\ Kind[root] \in Kinds
      /\ Level[Kind[root]] < Level[Kind[n]]
      /\ Kind[root] = "folder" => Kind[n] = "secret"
  BY ResourcesAssumption DEF Inside
<1>2. /\ Level["org"] = 0 /\ Level["project"] = 1 /\ Level["env"] = 2
      /\ Level["folder"] = 3 /\ Level["subfolder"] = 4 /\ Level["secret"] = 5
  BY DEF Level
<1>3. CASE Kind[root] = "org"
  <2>1. Table(n) \in {"project", "env", "folder", "secret"}
    BY <1>1, <1>2, <1>3 DEF Table, Kinds
  <2>2. Cascade[Kind[root]] = <<"project", "env", "folder", "secret">>
    BY <1>3 DEF Cascade
  <2> QED
    BY <2>1, <2>2 DEF InPlan
<1>4. CASE Kind[root] = "project"
  <2>1. Table(n) \in {"env", "folder", "secret"}
    BY <1>1, <1>2, <1>4 DEF Table, Kinds
  <2>2. Cascade[Kind[root]] = <<"env", "folder", "secret">>
    BY <1>4 DEF Cascade
  <2> QED
    BY <2>1, <2>2 DEF InPlan
<1>5. CASE Kind[root] = "env"
  <2>1. Table(n) \in {"folder", "secret"}
    BY <1>1, <1>2, <1>5 DEF Table, Kinds
  <2>2. Cascade[Kind[root]] = <<"folder", "secret">>
    BY <1>5 DEF Cascade
  <2> QED
    BY <2>1, <2>2 DEF InPlan
<1>6. CASE Kind[root] \in {"folder", "subfolder"}
  <2>1. Table(n) = "secret"
    BY <1>1, <1>2, <1>6 DEF Table, Kinds
  <2>2. Cascade[Kind[root]] = <<"secret">>
    BY <1>6 DEF Cascade
  <2> QED
    BY <2>1, <2>2 DEF InPlan
<1>7. Kind[root] # "secret"
  BY <1>1, <1>2 DEF Kinds
<1> QED
  BY <1>1, <1>3, <1>4, <1>5, <1>6, <1>7 DEF Kinds

\* What is in a plan is its next table or in the rest.
LEMMA HeadOrTail ==
  ASSUME NEW plan \in Seq(Kinds), plan # << >>, NEW table, InPlan(table, plan)
  PROVE  table = Head(plan) \/ InPlan(table, Tail(plan))
<1>1. PICK i \in 1 .. Len(plan) : plan[i] = table
  BY DEF InPlan
<1>2. CASE i = 1
  BY <1>1, <1>2
<1>3. CASE i # 1
  <2>1. i - 1 \in 1 .. Len(Tail(plan)) /\ Tail(plan)[i - 1] = plan[i]
    BY <1>3
  <2> QED
    BY <1>1, <2>1 DEF InPlan
<1> QED
  BY <1>2, <1>3

\* A row never becomes absent again, and a deleted one stays deleted.
LEMMA RowsGrow ==
  ASSUME Inv, NEW c \in Calls, Insert(c) \/ Commit(c) \/ UNCHANGED rows,
         NEW n \in Nodes
  PROVE  /\ rows[n] # "absent" => rows'[n] # "absent"
         /\ rows[n] = "deleted" => rows'[n] = "deleted"
<1>1. CASE Insert(c)
  <2>1. \A m \in call[c].new : rows[m] = "absent"
    BY <1>1 DEF Insert, At, Creating, Inv, Exclusive, NewAbsent
  <2> QED
    BY <1>1, <2>1 DEF Insert
<1>2. CASE Commit(c)
  BY <1>2 DEF Commit
<1> QED
  BY <1>1, <1>2

\* Steps that leave the cascades as they are.
LEMMA OthersReached ==
  ASSUME Inv, OlderReached, NEW c \in Calls,
         Insert(c) \/ Commit(c) \/ UNCHANGED rows,
         NEW d \in Calls, call'[d] = call[d], At(d, "cascade"),
         NEW n \in call[d].older
  PROVE  Reached(n, call[d])'
<1>1. Reached(n, call[d]) /\ n \in Nodes
  BY DEF OlderReached, Reached, Inside
<1> QED
  BY <1>1, RowsGrow DEF Reached

\* Every step keeps what the cascades have reached or plan to reach.
LEMMA StepReached == Inv /\ OlderReached /\ [Next]_vars => OlderReached'
<1> SUFFICES ASSUME Inv, OlderReached, [Next]_vars
             PROVE  OlderReached'
  OBVIOUS
<1>0. TypeOK
  BY DEF Inv
<1>1. ASSUME NEW c \in Calls, Insert(c) \/ Commit(c) \/ UNCHANGED rows,
             \A d \in Calls \ {c} : call'[d] = call[d],
             At(c, "cascade")' => \A n \in call'[c].older : Reached(n, call[c])'
      PROVE  OlderReached'
  BY <1>1, OthersReached DEF OlderReached, At
<1>2. ASSUME NEW c \in Calls, Calm(c)
      PROVE  OlderReached'
  BY <1>1, <1>2 DEF Calm, At
<1>3. ASSUME NEW c \in Calls, NEW S \in Batches, StartCreate(c, S)
      PROVE  OlderReached'
  <2>1. /\ \A d \in Calls \ {c} : call'[d] = call[d]
        /\ call'[c].pc = "scope" /\ UNCHANGED rows
    BY <1>0, <1>3 DEF StartCreate, TypeOK
  <2> QED
    BY <1>1, <2>1 DEF At
<1>4. ASSUME NEW c \in Calls, Insert(c) \/ Commit(c)
      PROVE  OlderReached'
  <2>1. /\ \A d \in Calls \ {c} : call'[d] = call[d]
        /\ call'[c].pc = "idle"
    BY <1>0, <1>4, FinishEffect DEF Insert, Commit
  <2> QED
    BY <1>1, <1>4, <2>1 DEF At
<1>5. ASSUME NEW c \in Calls, DeleteRoot(c), ~ Finish(c)
      PROVE  OlderReached'
  <2>1. call[c] \in DeleteCall
    BY <1>0, <1>5, CallTypes DEF DeleteRoot, At, Deleting
  <2>2. /\ \A d \in Calls \ {c} : call'[d] = call[d]
        /\ call'[c].root = call[c].root
        /\ call'[c].plan = Cascade[Kind[call[c].root]]
        /\ call'[c].older = {n \in Inside(call[c].root) : Live(n)}
        /\ UNCHANGED rows
    BY <1>0, <1>5, <2>1 DEF DeleteRoot, TypeOK, DeleteCall
  <2>3. \A n \in call'[c].older : Reached(n, call[c])'
    BY <2>1, <2>2, PlanIsComplete DEF Reached, Live, DeleteCall
  <2> QED
    BY <1>1, <2>2, <2>3
<1>6. ASSUME NEW c \in Calls, DeleteLevel(c)
      PROVE  OlderReached'
  <2>1. call[c] \in DeleteCall
    BY <1>0, <1>6, CallTypes DEF DeleteLevel, At, Deleting
  <2>2. /\ \A d \in Calls \ {c} : call'[d] = call[d]
        /\ call'[c].root = call[c].root
        /\ call'[c].older = call[c].older
        /\ call'[c].plan = Tail(call[c].plan)
        /\ call'[c].marked = call[c].marked \cup Targets(c)
        /\ UNCHANGED rows
    BY <1>0, <1>6, <2>1 DEF DeleteLevel, TypeOK, DeleteCall
  <2>3. ASSUME NEW n \in call[c].older
        PROVE  Reached(n, call[c])'
    <3>1. Reached(n, call[c])
      BY <1>6 DEF DeleteLevel, OlderReached
    <3>2. n \in Nodes /\ rows[n] \in {"absent", "live", "deleted"}
      BY <1>0, <3>1 DEF Reached, Inside, TypeOK
    <3>3. CASE Table(n) = Head(call[c].plan)
      <4>1. Live(n) => n \in Targets(c)
        BY <3>1, <3>3 DEF Reached, Targets
      <4> QED
        BY <2>2, <3>1, <3>2, <4>1 DEF Reached, Live
    <3>4. CASE InPlan(Table(n), Tail(call[c].plan))
      BY <2>2, <3>1, <3>4 DEF Reached
    <3>5. CASE ~ InPlan(Table(n), call[c].plan)
      BY <2>2, <3>1, <3>5 DEF Reached
    <3> QED
      BY <1>6, <2>1, <3>3, <3>4, <3>5, HeadOrTail DEF DeleteLevel, DeleteCall
  <2> QED
    BY <1>1, <2>2, <2>3
<1>7. CASE UNCHANGED vars
  BY <1>7 DEF vars, OlderReached, Reached, At
<1>8. ASSUME NEW c \in Calls, NEW n \in Nodes, NEW force \in BOOLEAN,
             StartDelete(c, n, force)
      PROVE  OlderReached'
  BY <1>0, <1>2, <1>8, StartDeleteCalm
<1>9. ASSUME NEW c \in Calls, Continue(c) \/ Fail(c)
      PROVE  OlderReached'
  <2>1. CASE Insert(c) \/ DeleteLevel(c) \/ Commit(c)
    BY <1>4, <1>6, <2>1
  <2>2. CASE DeleteRoot(c)
    BY <1>0, <1>2, <1>5, <2>2, CalmSteps DEF Calming
  <2>3. CASE \/ Read(c) \/ ReadParents(c) \/ CheckAllow(c) \/ CheckProjects(c)
             \/ TakeSnapshot(c) \/ Fail(c)
    BY <1>0, <1>2, <2>3, CalmSteps DEF Calming
  <2> QED
    BY <1>9, <2>1, <2>2, <2>3 DEF Continue
<1> QED
  BY <1>3, <1>7, <1>8, <1>9 DEF Next

\* Whatever lived inside the root of a deletion when its transaction began is
\* deleted when it commits, whichever other deletions commit or roll back.
THEOREM CascadesAreComplete == Spec => []CascadeReachesOlder
<1>1. Init => OlderReached
  BY DEF Init, OlderReached, At, Idle
<1>2. OlderReached => CascadeReachesOlder
  BY DEF OlderReached, Reached, InPlan, CascadeReachesOlder
<1> QED
  BY <1>1, <1>2, InitInv, StepInv, StepReached, PTL DEF Spec

-----------------------------------------------------------------------------
(* The order of a chain *)

\* Levels descend on the way up, and only one row of a chain is at its end.
LEMMA ChainLevels ==
  ASSUME NEW n \in Nodes, NEW m \in Chain[n]
  PROVE  /\ m \in Nodes /\ Chain[m] \subseteq Chain[n]
         /\ Level[Kind[m]] \in 0 .. 5 /\ Level[Kind[n]] \in 0 .. 5
         /\ m # n => Level[Kind[m]] < Level[Kind[n]]
<1>1. m \in Nodes /\ Kind[m] \in Kinds /\ Kind[n] \in Kinds
  BY ResourcesAssumption
<1>2. \A k \in Kinds : Level[k] \in 0 .. 5
  BY DEF Level, Kinds
<1> QED BY <1>1, <1>2, ResourcesAssumption

\* The level of each kind.
LEMMA LevelOf ==
  ASSUME NEW n \in Nodes
  PROVE  /\ Kind[n] \in Kinds
         /\ Kind[n] = "org" <=> Level[Kind[n]] = 0
         /\ Kind[n] = "project" <=> Level[Kind[n]] = 1
         /\ Kind[n] = "env" <=> Level[Kind[n]] = 2
         /\ Kind[n] = "folder" <=> Level[Kind[n]] = 3
         /\ Kind[n] = "subfolder" <=> Level[Kind[n]] = 4
         /\ Kind[n] = "secret" <=> Level[Kind[n]] = 5
<1>1. Kind[n] \in Kinds
  BY ResourcesAssumption
<1> QED BY <1>1 DEF Level, Kinds

\* The chain of a row is the row and the chain of its parent.
LEMMA ChainOfParent ==
  ASSUME NEW n \in Nodes, Kind[n] # "org"
  PROVE  /\ Parent(n) \in Nodes /\ Chain[Parent(n)] = Chain[n] \ {n}
         /\ Parent(n) \in Chain[n]
  BY ResourcesAssumption DEF Parent

\* An organization is at the top.
LEMMA ChainOfOrg ==
  ASSUME NEW n \in Nodes, Kind[n] = "org"
  PROVE  Chain[n] = {n}
<1>1. n \in Chain[n]
  BY ResourcesAssumption
<1>2. \A m \in Chain[n] : m = n
  BY ChainLevels, LevelOf
<1> QED BY <1>1, <1>2

\* Of two rows of one chain, one is in the chain of the other.
LEMMA ChainIsLinear ==
  ASSUME NEW n \in Nodes, NEW a \in Chain[n], NEW b \in Chain[n]
  PROVE  a \in Chain[b] \/ b \in Chain[a]
<1> DEFINE Linear(x) == \A y, z \in Chain[x] : y \in Chain[z] \/ z \in Chain[y]
           UpTo(k) == \A x \in Nodes : Level[Kind[x]] <= k => Linear(x)
<1>1. \A x \in Nodes : x \in Chain[x]
  BY ResourcesAssumption
<1>2. UpTo(0)
  <2> SUFFICES ASSUME NEW x \in Nodes, Level[Kind[x]] <= 0
               PROVE  Linear(x)
    OBVIOUS
  <2>1. Level[Kind[x]] \in 0 .. 5
    BY <1>1, ChainLevels
  <2>2. Kind[x] = "org"
    BY <2>1, LevelOf
  <2>3. Chain[x] = {x}
    BY <2>2, ChainOfOrg
  <2> QED BY <2>3
<1>3. ASSUME NEW k \in 0 .. 4, UpTo(k)
      PROVE  UpTo(k + 1)
  <2> SUFFICES ASSUME NEW x \in Nodes, Level[Kind[x]] <= k + 1
               PROVE  Linear(x)
    OBVIOUS
  <2>1. CASE Kind[x] = "org"
    BY <2>1, ChainOfOrg
  <2>2. CASE Kind[x] # "org"
    <3>1. /\ Parent(x) \in Nodes /\ Chain[Parent(x)] = Chain[x] \ {x}
          /\ Parent(x) \in Chain[x]
      BY <2>2, ChainOfParent
    <3>2. Parent(x) # x
      BY <1>1, <3>1
    <3>3. /\ Level[Kind[Parent(x)]] < Level[Kind[x]]
          /\ Level[Kind[Parent(x)]] \in 0 .. 5 /\ Level[Kind[x]] \in 0 .. 5
      BY <3>1, <3>2, ChainLevels
    <3>4. Level[Kind[Parent(x)]] <= k
      BY <3>3
    <3>5. Linear(Parent(x))
      BY <1>3, <3>1, <3>4
    <3> QED BY <3>1, <3>5
  <2> QED BY <2>1, <2>2
<1> HIDE DEF UpTo
<1>4. UpTo(1)
  BY <1>2, <1>3
<1>5. UpTo(2)
  BY <1>3, <1>4
<1>6. UpTo(3)
  BY <1>3, <1>5
<1>7. UpTo(4)
  BY <1>3, <1>6
<1>8. UpTo(5)
  BY <1>3, <1>7
<1>9. Level[Kind[n]] <= 5
  BY <1>1, ChainLevels
<1> QED BY <1>8, <1>9 DEF UpTo

\* The one of the lower level is above.
LEMMA LowerIsAbove ==
  ASSUME NEW n \in Nodes, NEW a \in Chain[n], NEW b \in Chain[n],
         Level[Kind[a]] <= Level[Kind[b]]
  PROVE  a \in Chain[b]
<1>1. a \in Nodes /\ b \in Nodes /\ a \in Chain[a]
  BY ResourcesAssumption
<1>2. CASE b \in Chain[a]
  <2>1. a = b
    BY <1>1, <1>2, ChainLevels
  <2> QED BY <1>1, <2>1
<1> QED BY <1>2, ChainIsLinear

-----------------------------------------------------------------------------
(* What lives below a deleted row.  The strengthening: what lives below a    *)
(* row that an open deletion holds is held as well, or late, or spared by    *)
(* the deletion of a folder, or its table is still in the plan; and a plan   *)
(* names the tables below its first one.                                     *)

Plans == {<<"project", "env", "folder", "secret">>, <<"env", "folder", "secret">>,
          <<"folder", "secret">>, <<"secret">>, << >>}

Spared(n, m) == Kind[m] = "folder" /\ Chain[n] \cap Of("subfolder") # {}

OpenExplained(q) ==
  \A n \in Nodes : \A m \in q.marked \cap Chain[n] :
    Live(n) /\ n \notin q.marked =>
      \/ m \in late[n]
      \/ m = q.root /\ Spared(n, m)
      \/ n \in Inside(q.root) /\ InPlan(Table(n), q.plan)

OpenOnes ==
  \A c \in Calls :
    At(c, "cascade") => call[c].plan \in Plans /\ OpenExplained(call[c])

\* Of the rows M above it, every row that lives after the step is late for all,
\* or for those it was late for.
StillLate(M) ==
  \A n \in Nodes :
    Live(n)' => \/ Live(n) /\ late[n] \cap M \subseteq late'[n]
                \/ Chain[n] \cap M \subseteq late'[n]

\* A step that inserts nothing and does not roll back makes nothing late.
LEMMA LateOfStep ==
  ASSUME TypeOK, [Next]_vars
  PROVE  \/ \E c \in Calls : Insert(c) \/ Fail(c)
         \/ late' = late /\ \A n \in Nodes : Live(n)' => Live(n)
<1>1. ASSUME NEW c \in Calls, Commit(c)
      PROVE  late' = late /\ \A n \in Nodes : Live(n)' => Live(n)
  BY <1>1 DEF Commit, Live
<1> QED
  BY <1>1 DEF Next, Continue, StartCreate, StartDelete, Read, ReadParents, CheckAllow,
     CheckProjects, TakeSnapshot, Check, DeleteRoot, DeleteLevel, Live, vars

\* What is taken stays so for those that it was taken from, unless the
\* transaction that holds it rolls back.
LEMMA TakenStaysLate ==
  ASSUME TypeOK, [Next]_vars, NEW M, \A m \in M : Taken(m),
         \A c \in Calls : Fail(c) => M \cap Marked(c) = {}
  PROVE  StillLate(M)
<1>1. ASSUME NEW c \in Calls, Insert(c)
      PROVE  StillLate(M)
  <2>1. \A n \in Nodes : n \in call[c].new => Chain[n] \cap M \subseteq late'[n]
    BY <1>1 DEF Insert
  <2>2. \A n \in Nodes : n \notin call[c].new =>
          late'[n] = late[n] /\ (Live(n)' => Live(n))
    BY <1>1 DEF Insert, Live
  <2> QED BY <2>1, <2>2 DEF StillLate
<1>2. ASSUME NEW c \in Calls, Fail(c)
      PROVE  StillLate(M)
  BY <1>2 DEF Fail, StillLate, Live
<1>3. CASE late' = late /\ \A n \in Nodes : Live(n)' => Live(n)
  BY <1>3 DEF StillLate
<1> QED BY <1>1, <1>2, <1>3, LateOfStep

\* A deletion that a step leaves alone stays explained.
LEMMA OthersExplained ==
  ASSUME Inv, [Next]_vars, NEW d \in Calls, At(d, "cascade"), call'[d] = call[d],
         OpenExplained(call[d])
  PROVE  OpenExplained(call[d])'
<1>0. TypeOK /\ Marked(d) = call[d].marked
  BY DEF Inv, Marked
<1>1. \A c \in Calls : Fail(c) => Marked(d) \cap Marked(c) = {}
  <2> SUFFICES ASSUME NEW c \in Calls, Fail(c)
               PROVE  Marked(d) \cap Marked(c) = {}
    OBVIOUS
  <2>1. c # d
    BY <1>0, FinishEffect DEF Fail, At
  <2> QED BY <2>1 DEF Inv, Exclusive, HeldOnce
<1>2. StillLate(call[d].marked)
  BY <1>0, <1>1, TakenStaysLate DEF Taken
<1>3. PICK q : q = call[d]
  OBVIOUS
<1>4. OpenExplained(q)'
  BY <1>2, <1>3 DEF OpenExplained, StillLate
<1> QED BY <1>3, <1>4

\* A deletion begins with a root whose plan is complete, but for level 2
\* folders and what is in them when the root is a level 1 folder.
LEMMA RootExplained ==
  ASSUME Inv, NEW c \in Calls, DeleteRoot(c), ~ Finish(c)
  PROVE  call'[c].plan \in Plans /\ OpenExplained(call[c])'
<1>0. call[c] \in DeleteCall /\ TypeOK
  BY CallTypes DEF DeleteRoot, At, Deleting, Inv
<1> DEFINE root == call[c].root
<1>1. /\ call'[c].root = root /\ call'[c].plan = Cascade[Kind[root]]
      /\ call'[c].marked = {root}
      /\ rows' = rows /\ late' = late /\ root \in Nodes
  BY <1>0 DEF DeleteRoot, TypeOK, DeleteCall
<1>2. Cascade[Kind[root]] \in Plans
  <2>1. Kind[root] \in Kinds
    BY <1>1, ResourcesAssumption
  <2> QED BY <2>1 DEF Cascade, Plans, Kinds
<1>3. ASSUME NEW n \in Nodes, root \in Chain[n], n # root
      PROVE  Spared(n, root) \/ (n \in Inside(root) /\ InPlan(Table(n), Cascade[Kind[root]]))
  <2>1. CASE n \in Inside(root)
    BY <1>1, <2>1, PlanIsComplete
  <2>2. CASE n \notin Inside(root)
    <3>1. Kind[root] = "folder" /\ ~ (Kind[n] = "secret" /\ Parent(n) = root)
      BY <1>3, <2>2 DEF Inside
    <3>2. /\ Level[Kind[root]] = 3 /\ Level[Kind[n]] \in 0 .. 5
          /\ Level[Kind[root]] < Level[Kind[n]] /\ n \in Chain[n]
      BY <1>1, <1>3, <3>1, ChainLevels, LevelOf, ResourcesAssumption
    <3>3. CASE Kind[n] = "subfolder"
      BY <3>1, <3>2, <3>3 DEF Spared, Of
    <3>4. CASE Kind[n] = "secret"
      <4>1. /\ Parent(n) \in Nodes /\ Chain[Parent(n)] = Chain[n] \ {n}
            /\ Parent(n) \in Chain[n] /\ Parent(n) \in Chain[Parent(n)]
        BY <3>4, ChainOfParent, ResourcesAssumption
      <4>2. root \in Chain[Parent(n)] /\ Parent(n) # n /\ Parent(n) # root
        BY <1>3, <3>1, <3>4, <4>1
      <4>3. /\ Level[Kind[Parent(n)]] < Level[Kind[n]] /\ 3 < Level[Kind[Parent(n)]]
            /\ Level[Kind[Parent(n)]] \in 0 .. 5 /\ Level[Kind[n]] = 5
        BY <3>2, <3>4, <4>1, <4>2, ChainLevels, LevelOf
      <4>4. Level[Kind[Parent(n)]] = 4
        BY <4>3
      <4>5. Kind[Parent(n)] = "subfolder"
        BY <4>1, <4>4, LevelOf
      <4> QED BY <3>1, <4>1, <4>5 DEF Spared, Of
    <3>5. Level[Kind[n]] = 4 \/ Level[Kind[n]] = 5
      BY <3>2
    <3> QED BY <3>3, <3>4, <3>5, LevelOf
  <2> QED BY <2>1, <2>2
<1>4. PICK q : q = call'[c]
  OBVIOUS
<1>5. OpenExplained(q)'
  BY <1>1, <1>3, <1>4 DEF OpenExplained, Live
<1> QED BY <1>1, <1>2, <1>4, <1>5

\* The plan goes down the tables: what is below a row of the next table is in
\* that table or in the rest of the plan.
LEMMA DeeperIsInPlan ==
  ASSUME NEW plan \in Plans, plan # << >>,
         NEW n \in Nodes, NEW m \in Chain[n], m # n, Table(m) = Head(plan)
  PROVE  Table(n) = Head(plan) \/ InPlan(Table(n), Tail(plan))
<1>1. /\ Kind[m] \in Kinds /\ Kind[n] \in Kinds /\ m \in Nodes
      /\ Level[Kind[m]] < Level[Kind[n]]
  BY ChainLevels, LevelOf
<1>2. /\ Level["org"] = 0 /\ Level["project"] = 1 /\ Level["env"] = 2
      /\ Level["folder"] = 3 /\ Level["subfolder"] = 4 /\ Level["secret"] = 5
  BY DEF Level
<1>3. CASE plan = <<"project", "env", "folder", "secret">>
  <2>1. /\ Head(plan) = "project" /\ Tail(plan) = <<"env", "folder", "secret">>
    BY <1>3
  <2>2. Table(n) \in {"env", "folder", "secret"}
    BY <1>1, <1>2, <2>1 DEF Table, Kinds
  <2>3. InPlan(Table(n), <<"env", "folder", "secret">>)
    BY <2>2 DEF InPlan
  <2> QED BY <2>1, <2>3
<1>4. CASE plan = <<"env", "folder", "secret">>
  <2>1. /\ Head(plan) = "env" /\ Tail(plan) = <<"folder", "secret">>
    BY <1>4
  <2>2. Table(n) \in {"folder", "secret"}
    BY <1>1, <1>2, <2>1 DEF Table, Kinds
  <2>3. InPlan(Table(n), <<"folder", "secret">>)
    BY <2>2 DEF InPlan
  <2> QED BY <2>1, <2>3
<1>5. CASE plan = <<"folder", "secret">>
  <2>1. /\ Head(plan) = "folder" /\ Tail(plan) = <<"secret">>
    BY <1>5
  <2>2. Table(n) \in {"folder", "secret"}
    BY <1>1, <1>2, <2>1 DEF Table, Kinds
  <2>3. InPlan("secret", <<"secret">>)
    BY DEF InPlan
  <2> QED BY <2>1, <2>2, <2>3
<1>6. CASE plan = <<"secret">>
  <2>1. Head(plan) = "secret"
    BY <1>6
  <2> QED BY <1>1, <1>2, <2>1 DEF Table, Kinds
<1> QED BY <1>3, <1>4, <1>5, <1>6 DEF Plans

\* What is left of a plan is one of the plans.
LEMMA TailOfPlan ==
  ASSUME NEW plan \in Plans, plan # << >>
  PROVE  Tail(plan) \in Plans
<1>1. CASE plan = <<"project", "env", "folder", "secret">>
  BY <1>1 DEF Plans
<1>2. CASE plan = <<"env", "folder", "secret">>
  BY <1>2 DEF Plans
<1>3. CASE plan = <<"folder", "secret">>
  BY <1>3 DEF Plans
<1>4. CASE plan = <<"secret">>
  BY <1>4 DEF Plans
<1> QED BY <1>1, <1>2, <1>3, <1>4 DEF Plans

\* What lives below a row that a statement takes, inside the root, is taken by
\* it as well or still to be taken.
LEMMA LevelExplained ==
  ASSUME Inv, NEW c \in Calls, DeleteLevel(c), call[c].plan \in Plans,
         OpenExplained(call[c])
  PROVE  call'[c].plan \in Plans /\ OpenExplained(call[c])'
<1>0. call[c] \in DeleteCall /\ TypeOK /\ call[c].plan # << >>
  BY CallTypes DEF DeleteLevel, At, Deleting, Inv
<1> DEFINE root == call[c].root
           plan == call[c].plan
           marked == call[c].marked
<1>1. /\ call'[c].root = root /\ call'[c].plan = Tail(plan)
      /\ call'[c].marked = marked \cup Targets(c)
      /\ rows' = rows /\ late' = late /\ root \in Nodes /\ plan \in Seq(Kinds)
  BY <1>0 DEF DeleteLevel, TypeOK, DeleteCall
<1>2. Tail(plan) \in Plans
  BY <1>0, TailOfPlan
<1>3. ASSUME NEW n \in Nodes, Live(n), n \notin marked \cup Targets(c),
             n \in Inside(root), InPlan(Table(n), plan)
      PROVE  InPlan(Table(n), Tail(plan))
  <2>1. Table(n) # Head(plan)
    BY <1>3 DEF Targets
  <2> QED BY <1>0, <1>1, <1>3, <2>1, HeadOrTail
<1>4. ASSUME NEW n \in Nodes, Live(n), n \notin marked \cup Targets(c),
             NEW m \in Targets(c), m \in Chain[n]
      PROVE  n \in Inside(root) /\ InPlan(Table(n), Tail(plan))
  <2>1. /\ m \in Inside(root) /\ Table(m) = Head(plan) /\ m # n /\ m \in Nodes
        /\ root \in Chain[m] /\ root # m
    BY <1>4 DEF Targets, Inside
  <2>2. root \in Chain[n] /\ Level[Kind[root]] < Level[Kind[m]]
        /\ Level[Kind[m]] < Level[Kind[n]]
    BY <1>1, <1>4, <2>1, ChainLevels
  <2>3. Kind[root] # "folder"
    <3>1. Level[Kind[m]] # 5
      BY <1>4, <2>1, <2>2, ChainLevels
    <3>2. Kind[m] # "secret"
      BY <2>1, <3>1, LevelOf
    <3> QED BY <2>1, <3>2 DEF Inside
  <2>4. n # root
    BY <1>1, <1>4, <2>1, <2>2, ChainLevels
  <2>5. n \in Inside(root)
    BY <2>2, <2>3, <2>4 DEF Inside
  <2>6. Table(n) = Head(plan) \/ InPlan(Table(n), Tail(plan))
    BY <1>0, <1>4, <2>1, DeeperIsInPlan
  <2>7. Table(n) # Head(plan)
    BY <1>4, <2>5 DEF Targets
  <2> QED BY <2>5, <2>6, <2>7
<1>5. PICK q : q = call'[c]
  OBVIOUS
<1>6. OpenExplained(q)'
  <2> SUFFICES ASSUME NEW n \in Nodes, NEW m \in q.marked \cap Chain[n],
                      Live(n), n \notin q.marked
               PROVE  \/ m \in late[n]
                      \/ m = q.root /\ Spared(n, m)
                      \/ n \in Inside(q.root) /\ InPlan(Table(n), q.plan)
    BY <1>1 DEF OpenExplained, Live
  <2>1. CASE m \in marked
    BY <1>1, <1>3, <1>5, <2>1 DEF OpenExplained
  <2>2. CASE m \in Targets(c)
    BY <1>1, <1>4, <1>5, <2>2
  <2> QED BY <1>1, <1>5, <2>1, <2>2
<1> QED BY <1>1, <1>2, <1>5, <1>6

\* A step of one handler leaves the others alone.
LEMMA OnlyActor ==
  ASSUME TypeOK, NEW c \in Calls,
         \/ \E S \in Batches : StartCreate(c, S)
         \/ \E n \in Nodes, force \in BOOLEAN : StartDelete(c, n, force)
         \/ Continue(c) \/ Fail(c)
  PROVE  \A d \in Calls \ {c} : call'[d] = call[d]
<1>1. ASSUME NEW S \in Batches, StartCreate(c, S)
      PROVE  \A d \in Calls \ {c} : call'[d] = call[d]
  BY <1>1 DEF StartCreate, TypeOK
<1>2. ASSUME NEW n \in Nodes, NEW force \in BOOLEAN, StartDelete(c, n, force)
      PROVE  \A d \in Calls \ {c} : call'[d] = call[d]
  BY <1>2, StartDeleteCalm DEF Calm
<1>3. CASE Insert(c) \/ Commit(c)
  BY <1>3, FinishEffect DEF Insert, Commit
<1>4. CASE Calming(c)
  BY <1>4, CalmSteps DEF Calm
<1>5. CASE DeleteRoot(c) \/ DeleteLevel(c)
  BY <1>5 DEF DeleteRoot, DeleteLevel, TypeOK, Finish
<1> QED
  BY <1>1, <1>2, <1>3, <1>4, <1>5 DEF Continue, Calming

\* A handler whose transaction is open was there before, or begins now.
LEMMA OpenBefore ==
  ASSUME TypeOK, [Next]_vars, NEW d \in Calls, At(d, "cascade")'
  PROVE  \/ At(d, "cascade") /\ call'[d] = call[d]
         \/ DeleteRoot(d) /\ ~ Finish(d)
         \/ DeleteLevel(d)
<1>1. CASE call'[d] = call[d]
  BY <1>1 DEF At
<1>2. ASSUME NEW S \in Batches, StartCreate(d, S)
      PROVE  FALSE
  BY <1>2 DEF StartCreate, TypeOK, At
<1>3. ASSUME NEW n \in Nodes, NEW force \in BOOLEAN, StartDelete(d, n, force)
      PROVE  FALSE
  BY <1>3, StartDeleteCalm DEF Calm, At
<1>4. ASSUME Calming(d)
      PROVE  FALSE
  BY <1>4, CalmSteps DEF Calm, At
<1>5. ASSUME Insert(d) \/ Commit(d)
      PROVE  FALSE
  BY <1>5, FinishEffect DEF Insert, Commit, At
<1>6. \/ call'[d] = call[d]
      \/ \E S \in Batches : StartCreate(d, S)
      \/ \E n \in Nodes, force \in BOOLEAN : StartDelete(d, n, force)
      \/ Continue(d) \/ Fail(d)
  BY OnlyActor DEF Next, vars
<1> QED
  BY <1>1, <1>2, <1>3, <1>4, <1>5, <1>6 DEF Continue, Calming

\* Every step keeps the open deletions explained.
LEMMA StepOpenOnes == Inv /\ OpenOnes /\ [Next]_vars => OpenOnes'
<1> SUFFICES ASSUME Inv, OpenOnes, [Next]_vars, NEW d \in Calls, At(d, "cascade")'
             PROVE  call'[d].plan \in Plans /\ OpenExplained(call[d])'
  BY DEF OpenOnes
<1>1. CASE At(d, "cascade") /\ call'[d] = call[d]
  BY <1>1, OthersExplained DEF OpenOnes
<1>2. CASE DeleteRoot(d) /\ ~ Finish(d)
  BY <1>2, RootExplained
<1>3. CASE DeleteLevel(d)
  BY <1>3, LevelExplained DEF OpenOnes, DeleteLevel
<1> QED BY <1>1, <1>2, <1>3, OpenBefore DEF Inv

\* What a step adds to the orphans is explained.
LEMMA StepOrphans ==
  ASSUME Inv, OpenOnes, OrphansExplained, [Next]_vars
  PROVE  OrphansExplained'
<1>0. TypeOK
  BY DEF Inv
<1> DEFINE Gone == {m \in Nodes : rows[m] = "deleted"}
<1>1. StillLate(Gone)
  <2>1. \A m \in Gone : Taken(m)
    BY DEF Taken
  <2>2. \A c \in Calls : Gone \cap Marked(c) = {}
    BY DEF Inv, Exclusive, HeldLive, Live
  <2> HIDE DEF Gone
  <2> QED BY <1>0, <2>1, <2>2, TakenStaysLate
<1>2. ASSUME NEW c \in Calls, Commit(c)
      PROVE  OrphansExplained'
  <2>1. /\ call[c] \in DeleteCall /\ call[c].root \in Nodes
        /\ call[c].plan = << >> /\ OpenExplained(call[c])
    BY <1>0, <1>2, CallTypes DEF Commit, At, Deleting, DeleteCall, OpenOnes
  <2>2. /\ \A n \in Nodes : rows'[n] = IF n \in call[c].marked THEN "deleted" ELSE rows[n]
        /\ late' = late
        /\ snapshots'[call[c].root] = snapshots[call[c].root] + 1
        /\ \A n \in Nodes \ {call[c].root} : snapshots'[n] = snapshots[n]
    BY <1>0, <1>2, <2>1 DEF Commit, TypeOK
  <2>3. \A n \in Nodes : snapshots[n] \in Nat
    BY <1>0 DEF TypeOK
  <2>4. ASSUME NEW n \in Nodes, NEW m \in Chain[n], Live(n)', rows'[m] = "deleted"
        PROVE  \/ m \in late'[n]
               \/ snapshots'[m] > 0 /\ Spared(n, m)
    <3>1. m \in Nodes /\ Live(n) /\ n \notin call[c].marked
      BY <2>2, <2>4, ResourcesAssumption DEF Live
    <3>2. CASE m \in call[c].marked
      <4>1. m \in late[n] \/ (m = call[c].root /\ Spared(n, m))
        BY <2>1, <2>4, <3>1, <3>2 DEF OpenExplained, InPlan
      <4> QED BY <2>2, <2>3, <3>1, <4>1
    <3>3. CASE m \notin call[c].marked
      <4>1. \/ m \in late[n]
            \/ snapshots[m] > 0 /\ Spared(n, m)
        BY <2>2, <2>4, <3>1, <3>3 DEF OrphansExplained, Spared
      <4> QED BY <2>1, <2>2, <2>3, <3>1, <4>1
    <3> QED BY <3>2, <3>3
  <2> QED BY <2>4 DEF OrphansExplained, Spared
<1>3. CASE snapshots' = snapshots /\ \A m \in Nodes : rows'[m] = "deleted" => rows[m] = "deleted"
  <2>1. ASSUME NEW n \in Nodes, NEW m \in Chain[n], Live(n)', rows'[m] = "deleted"
        PROVE  \/ m \in late'[n]
               \/ snapshots'[m] > 0 /\ Spared(n, m)
    <3>1. m \in Gone
      BY <1>3, <2>1, ResourcesAssumption
    <3>2. CASE Chain[n] \cap Gone \subseteq late'[n]
      BY <2>1, <3>1, <3>2
    <3>3. CASE Live(n) /\ late[n] \cap Gone \subseteq late'[n]
      <4>1. \/ m \in late[n]
            \/ snapshots[m] > 0 /\ Spared(n, m)
        BY <2>1, <3>1, <3>3 DEF OrphansExplained, Spared
      <4> QED BY <1>3, <3>1, <3>3, <4>1
    <3> QED BY <1>1, <2>1, <3>2, <3>3 DEF StillLate
  <2> QED BY <2>1 DEF OrphansExplained, Spared
<1>4. ASSUME NEW c \in Calls, Insert(c)
      PROVE  OrphansExplained'
  <2>1. snapshots' = snapshots /\ \A m \in Nodes : rows'[m] = "deleted" => rows[m] = "deleted"
    BY <1>4 DEF Insert
  <2> QED BY <1>3, <2>1
<1>5. CASE rows' = rows /\ snapshots' = snapshots
  BY <1>3, <1>5
<1>6. \/ \E c \in Calls : Commit(c) \/ Insert(c)
      \/ rows' = rows /\ snapshots' = snapshots
  BY DEF Next, Continue, StartCreate, StartDelete, Read, ReadParents,
     CheckAllow, CheckProjects, TakeSnapshot, Check, DeleteRoot, DeleteLevel, Fail, vars
<1> QED BY <1>2, <1>4, <1>5, <1>6

\* However many creations and deletions race, what lives below a deleted row was
\* inserted after the deletion had taken that row, or is a level 2 folder, or in
\* one, whose level 1 folder was deleted itself.
THEOREM OrphansHaveACause == Spec => []OrphansExplained
<1>1. Init => OpenOnes /\ OrphansExplained
  BY ResourcesAssumption DEF Init, OpenOnes, OrphansExplained, At, Idle
<1>2. Inv /\ OpenOnes /\ OrphansExplained /\ [Next]_vars => OrphansExplained'
  BY StepOrphans
<1> QED
  BY <1>1, <1>2, InitInv, StepInv, StepOpenOnes, PTL DEF Spec

-----------------------------------------------------------------------------
(* What was there when the projects were counted.  The strengthening: what   *)
(* is joined to a row that is or was there is or was there too, since the    *)
(* creations have read it, and nothing becomes absent again.                 *)

There(n) == rows[n] # "absent"
AllThere(S) == \A n \in S : There(n)
JoinedThere == \A n \in Nodes : There(n) => AllThere(Joined(n))

\* What is joined to a row is the row and what is joined to its parent.
LEMMA JoinedOfParent ==
  ASSUME NEW n \in Nodes, Kind[n] \notin FolderKinds, Kind[n] # "org"
  PROVE  Joined(n) \subseteq {n} \cup Joined(Parent(n))
<1>1. Chain[Parent(n)] = Chain[n] \ {n}
  BY ChainOfParent
<1>2. Chain[n] \cap Of("subfolder") = Chain[Parent(n)] \cap Of("subfolder")
  BY <1>1 DEF Of, FolderKinds
<1> QED BY <1>1, <1>2 DEF Joined

\* What is joined to a folder is the folder and the chain of its environment.
LEMMA JoinedOfFolder ==
  ASSUME NEW n \in Nodes, Kind[n] \in FolderKinds
  PROVE  Joined(n) \subseteq {n} \cup Joined(EnvOf(n))
<1>1. EnvOf(n) \in Chain[n] /\ EnvOf(n) \in Nodes /\ Kind[EnvOf(n)] = "env"
  BY EnvIsNode, ResourcesAssumption DEF EnvOf, FolderKinds
<1>2. ASSUME NEW m \in Joined(n), m # n
      PROVE  m \in Joined(EnvOf(n))
  <2>1. m \in Chain[n] /\ m \in Nodes /\ Level[Kind[m]] < Level[Kind[n]]
        /\ Level[Kind[m]] \in 0 .. 5
    BY <1>2, ChainLevels DEF Joined
  <2>2. Level[Kind[m]] <= 2
    <3>1. Kind[n] = "folder" => Level[Kind[m]] < 3
      BY <2>1, LevelOf
    <3>2. Kind[n] = "subfolder" => Kind[m] # "folder"
      <4>1. n \in Chain[n]
        BY ResourcesAssumption
      <4> QED BY <1>2, <4>1 DEF Joined, Of
    <3>3. Kind[n] = "subfolder" => Level[Kind[m]] < 3
      BY <2>1, <3>2, LevelOf
    <3> QED BY <2>1, <3>1, <3>3 DEF FolderKinds
  <2>3. m \in Chain[EnvOf(n)]
    BY <1>1, <2>1, <2>2, LowerIsAbove, LevelOf
  <2>4. Kind[m] # "folder"
    BY <2>1, <2>2, LevelOf
  <2> QED BY <2>3, <2>4 DEF Joined
<1> QED BY <1>2

\* The rows that a creation has found are all that is joined to the new ones.
LEMMA NewAreRooted ==
  ASSUME JoinedThere, NEW S \in Batches, \A query \in ScopeReads(S) : AllThere(query),
         NEW n \in S
  PROVE  \A m \in Joined(n) : m \in S \/ There(m)
<1>0. S \subseteq Nodes /\ n \in Nodes
  BY ResourcesAssumption
<1>1. CASE \E x \in S : Table(x) = "folder"
  <2>1. Kind[n] \in FolderKinds
    <3>1. PICK x \in S : Table(x) = "folder"
      BY <1>1
    <3>2. Kind[x] \in FolderKinds
      BY <3>1 DEF Table, FolderKinds
    <3> QED BY <3>2, ResourcesAssumption DEF FolderKinds
  <2>2. There(EnvOf(n)) /\ EnvOf(n) \in Nodes
    BY <1>0, <1>1, <2>1, EnvIsNode DEF ScopeReads, AllThere
  <2>3. AllThere(Joined(EnvOf(n)))
    BY <2>2 DEF JoinedThere
  <2> QED BY <1>0, <2>1, <2>3, JoinedOfFolder DEF AllThere
<1>2. CASE ~ \E x \in S : Table(x) = "folder"
  <2>1. \A x \in S : Kind[x] \notin FolderKinds
    BY <1>2 DEF Table, FolderKinds
  <2>2. ASSUME NEW x \in Lead(S)
        PROVE  \A m \in Joined(x) : m \in S \/ There(m)
    <3>1. x \in S /\ x \in Nodes
      BY <1>0, <2>2 DEF Lead
    <3>2. CASE Kind[x] = "org"
      BY <3>1, <3>2, ChainOfOrg DEF Joined
    <3>3. CASE Kind[x] # "org"
      <4>1. AllThere(Joined(Parent(x)))
        BY <1>2, <2>2, <3>3 DEF ScopeReads, Of
      <4> QED BY <2>1, <3>1, <3>3, <4>1, JoinedOfParent DEF AllThere
    <3> QED BY <3>2, <3>3
  <2>3. CASE n \in Lead(S)
    BY <2>2, <2>3
  <2>4. CASE n \notin Lead(S)
    <3>1. Parent(n) \in Lead(S)
      BY <2>1, <2>4, BatchesAreShallow DEF FolderKinds
    <3>2. Kind[n] # "org"
      <4>1. Kind[n] = "org" => n \in Lead(S)
        BY <1>0, ChainOfOrg DEF Lead
      <4> QED BY <2>4, <4>1
    <3> QED BY <1>0, <2>1, <2>2, <3>1, <3>2, JoinedOfParent
  <2> QED BY <2>3, <2>4
<1> QED BY <1>1, <1>2

\* What lives in an organization without a live project is orphaned.
Orphaned(n) == \E p \in Chain[n] : Kind[p] = "project" /\ rows[p] = "deleted"

LEMMA LivesInProject ==
  ASSUME TypeOK, JoinedThere, NEW org \in Nodes, Kind[org] = "org", ~ HasProject(org),
         NEW n \in Inside(org), Live(n)
  PROVE  Orphaned(n)
<1>1. n \in Nodes /\ n # org /\ org \in Chain[n]
  BY DEF Inside
<1>2. Kind[n] # "org"
  BY <1>1, ChainOfOrg
<1>3. PICK p \in Chain[n] : Kind[p] = "project"
  BY <1>1, <1>2, ResourcesAssumption
<1>4. p \in Nodes /\ Level[Kind[p]] = 1 /\ Level[Kind[org]] = 0
  BY <1>1, <1>3, ChainLevels, LevelOf
<1>5. org \in Chain[p]
  BY <1>1, <1>4, LowerIsAbove
<1>6. p \in Joined(n)
  BY <1>3 DEF Joined
<1>7. rows[p] # "absent"
  BY <1>1, <1>6 DEF JoinedThere, AllThere, There, Live
<1>8. rows[p] # "live"
  BY <1>3, <1>4, <1>5 DEF HasProject, Of, Live
<1> QED BY <1>3, <1>4, <1>7, <1>8 DEF TypeOK, Orphaned

\* What a handler has read, as far as it cannot have changed.
ReadsHold(q) ==
  /\ q.pc \in Creating => q.new \in Batches
  /\ q.pc = "scope" => \A query \in ScopeReads(q.new) \ q.unread : AllThere(query)
  /\ q.pc = "parent" => \A query \in ScopeReads(q.new) : AllThere(query)
  /\ q.pc \in {"snapshot", "root", "cascade"} /\ Kind[q.root] = "org" /\ ~ q.force
       => \A n \in q.known : Orphaned(n)

AllHold == \A c \in Calls : ReadsHold(call[c])

\* A row never becomes absent again, and a deleted one stays deleted.
LEMMA NothingVanishes ==
  ASSUME Inv, [Next]_vars, NEW n \in Nodes
  PROVE  /\ There(n) => There(n)'
         /\ rows[n] = "deleted" => rows'[n] = "deleted"
<1>1. CASE UNCHANGED rows
  BY <1>1 DEF There
<1>2. ASSUME NEW c \in Calls, Insert(c) \/ Commit(c)
      PROVE  /\ There(n) => There(n)'
             /\ rows[n] = "deleted" => rows'[n] = "deleted"
  BY <1>2, RowsGrow DEF There
<1> QED
  BY <1>1, <1>2 DEF Next, Continue, StartCreate, StartDelete, Read, ReadParents,
     CheckAllow, CheckProjects, TakeSnapshot, Check, DeleteRoot, DeleteLevel, Fail, vars

\* What a handler has read holds on.
LEMMA HoldsOn ==
  ASSUME Inv, [Next]_vars, NEW q \in CreateCall \cup DeleteCall \cup {Idle}, ReadsHold(q)
  PROVE  ReadsHold(q)'
<1>1. ASSUME NEW S \in SUBSET Nodes, AllThere(S)
      PROVE  AllThere(S)'
  BY <1>1, NothingVanishes DEF AllThere
<1>2. q.pc \in Creating =>
        /\ q.new \in Batches
        /\ \A query \in ScopeReads(q.new) : query \in SUBSET Nodes
  BY ReadsAreRows DEF ReadsHold
<1>3. \A n \in Nodes : Orphaned(n) => Orphaned(n)'
  BY NothingVanishes, ResourcesAssumption DEF Orphaned
<1>4. q.pc \in {"snapshot", "root", "cascade"} => q.known \subseteq Nodes
  BY DEF CreateCall, DeleteCall, Idle
<1>5. q.pc = "scope" => \A query \in ScopeReads(q.new) \ q.unread : AllThere(query)'
  BY <1>1, <1>2 DEF ReadsHold, Creating
<1>6. q.pc = "parent" => \A query \in ScopeReads(q.new) : AllThere(query)'
  BY <1>1, <1>2 DEF ReadsHold, Creating
<1>7. q.pc \in {"snapshot", "root", "cascade"} /\ Kind[q.root] = "org" /\ ~ q.force
        => \A n \in q.known : Orphaned(n)'
  BY <1>3, <1>4 DEF ReadsHold
<1> QED BY <1>2, <1>5, <1>6, <1>7 DEF ReadsHold

\* A query that is answered has found its rows; the count has found no project.
LEMMA ReadingHolds ==
  ASSUME TypeOK, AllHold, JoinedThere, NEW c \in Calls, Calming(c)
  PROVE  ReadsHold(call'[c])
<1>1. PICK q : q = call'[c]
  OBVIOUS
<1>2. SUFFICES ReadsHold(q)
  BY <1>1
<1>3. CASE Finish(c)
  BY <1>1, <1>3, FinishEffect DEF ReadsHold, Creating
<1>4. CASE Read(c) /\ ~ Finish(c)
  <2>1. call[c] \in CreateCall /\ ReadsHold(call[c])
    BY <1>4, CallTypes DEF Read, Creating, AllHold
  <2>2. PICK query \in call[c].unread :
          AllLive(query) /\ call' = [call EXCEPT ![c].unread = @ \ {query}]
    BY <1>4 DEF Read
  <2>3. /\ q.pc = call[c].pc /\ q.new = call[c].new
        /\ q.unread = call[c].unread \ {query} /\ q.pc \in Creating
    BY <1>1, <1>4, <2>1, <2>2 DEF TypeOK, CreateCall, Read, Creating
  <2>4. AllThere(query)
    BY <2>2 DEF AllLive, AllThere, Live, There
  <2> QED BY <2>1, <2>3, <2>4 DEF ReadsHold, Creating
<1>5. CASE ReadParents(c)
  <2>1. /\ call[c] \in CreateCall /\ ReadsHold(call[c])
        /\ call[c].pc = "scope" /\ call[c].unread = {}
    BY <1>5, CallTypes DEF ReadParents, At, Creating, AllHold
  <2>2. q.pc = "parent" /\ q.new = call[c].new
    BY <1>1, <1>5, <2>1 DEF TypeOK, CreateCall, ReadParents
  <2> QED BY <2>1, <2>2 DEF ReadsHold, Creating
<1>6. ASSUME NEW from \in Deleting, NEW condition, NEW to \in {"count", "snapshot", "root"},
             Check(c, from, condition, to), ~ Finish(c)
      PROVE  /\ q.pc = to /\ q.root = call[c].root /\ q.force = call[c].force
             /\ q.known = call[c].known /\ ReadsHold(call[c]) /\ call[c].pc = from
  <2>1. call[c] \in DeleteCall
    BY <1>6, CallTypes DEF Check, At
  <2> QED BY <1>1, <1>6, <2>1 DEF Check, At, TypeOK, DeleteCall, AllHold
<1>7. CASE CheckAllow(c) /\ ~ Finish(c)
  <2> DEFINE unforced == Kind[call[c].root] = "org" /\ ~ call[c].force
             to == IF unforced THEN "count" ELSE "snapshot"
  <2>1. q.pc = to /\ q.root = call[c].root /\ q.force = call[c].force
    BY <1>6, <1>7 DEF CheckAllow, Deleting
  <2> QED BY <2>1 DEF ReadsHold, Creating
<1>8. CASE CheckProjects(c) /\ ~ Finish(c)
  <2>1. call[c] \in DeleteCall
    BY <1>8, CallTypes DEF CheckProjects, At, Deleting
  <2>2. /\ q.pc = "snapshot" /\ q.root = call[c].root /\ ~ HasProject(call[c].root)
        /\ q.known = {n \in Inside(call[c].root) : Live(n)} /\ call[c].root \in Nodes
    BY <1>1, <1>8, <2>1 DEF CheckProjects, TypeOK, DeleteCall
  <2>3. Kind[q.root] = "org" => \A n \in q.known : Orphaned(n)
    BY <2>2, LivesInProject
  <2> QED BY <2>2, <2>3 DEF ReadsHold, Creating
<1>9. CASE TakeSnapshot(c) /\ ~ Finish(c)
  <2>1. /\ q.pc = "root" /\ q.root = call[c].root /\ q.force = call[c].force
        /\ q.known = call[c].known /\ ReadsHold(call[c]) /\ call[c].pc = "snapshot"
    BY <1>6, <1>9 DEF TakeSnapshot, Deleting
  <2> QED BY <2>1 DEF ReadsHold, Creating
<1> QED
  BY <1>3, <1>4, <1>5, <1>7, <1>8, <1>9 DEF Calming, Fail

\* Every step keeps what the handlers have read.
LEMMA StepHolds ==
  ASSUME Inv, JoinedThere, AllHold, [Next]_vars
  PROVE  AllHold'
<1>0. TypeOK
  BY DEF Inv
<1> SUFFICES ASSUME NEW d \in Calls
             PROVE  ReadsHold(call[d])'
  BY DEF AllHold
<1>1. PICK q : q = call'[d]
  OBVIOUS
<1>2. ASSUME ReadsHold(q), rows' = rows
      PROVE  ReadsHold(call[d])'
  <2>1. \A S : AllThere(S)' <=> AllThere(S)
    BY <1>2 DEF AllThere, There
  <2>2. \A n : Orphaned(n)' <=> Orphaned(n)
    BY <1>2 DEF Orphaned
  <2>3. ReadsHold(q)'
    BY <1>2, <2>1, <2>2 DEF ReadsHold
  <2> QED BY <1>1, <2>3
<1>3. CASE call'[d] = call[d]
  <2>1. q \in CreateCall \cup DeleteCall \cup {Idle} /\ ReadsHold(q)
    BY <1>0, <1>1, <1>3 DEF TypeOK, AllHold
  <2>2. ReadsHold(q)'
    BY <2>1, HoldsOn
  <2> QED BY <1>1, <2>2
<1>4. CASE call'[d].pc = "idle"
  <2>1. ReadsHold(q)'
    BY <1>1, <1>4 DEF ReadsHold, Creating
  <2> QED BY <1>1, <2>1
<1>5. ASSUME NEW S \in Batches, StartCreate(d, S)
      PROVE  ReadsHold(call[d])'
  <2>1. q.pc = "scope" /\ q.new = S /\ q.unread = ScopeReads(S) /\ rows' = rows
    BY <1>0, <1>1, <1>5 DEF StartCreate, TypeOK
  <2>2. ReadsHold(q)
    BY <2>1 DEF ReadsHold, Creating
  <2> QED BY <1>2, <2>1, <2>2
<1>6. ASSUME NEW n \in Nodes, NEW force \in BOOLEAN, StartDelete(d, n, force)
      PROVE  ReadsHold(call[d])'
  <2>1. q.pc = "allow" /\ rows' = rows
    BY <1>0, <1>1, <1>6 DEF StartDelete, TypeOK
  <2>2. ReadsHold(q)
    BY <2>1 DEF ReadsHold, Creating
  <2> QED BY <1>2, <2>1, <2>2
<1>7. CASE Calming(d)
  <2>1. rows' = rows
    BY <1>0, <1>7, CalmSteps DEF Calm
  <2>2. ReadsHold(q)
    BY <1>0, <1>1, <1>7, ReadingHolds
  <2> QED BY <1>2, <2>1, <2>2
<1>8. CASE (DeleteRoot(d) /\ ~ Finish(d)) \/ DeleteLevel(d)
  <2>1. call[d] \in DeleteCall /\ ReadsHold(call[d]) /\ call[d].pc \in {"root", "cascade"}
    BY <1>0, <1>8, CallTypes DEF DeleteRoot, DeleteLevel, At, Deleting, AllHold
  <2>2. /\ q.pc = "cascade" /\ q.root = call[d].root /\ q.force = call[d].force
        /\ q.known = call[d].known /\ rows' = rows
    BY <1>0, <1>1, <1>8, <2>1 DEF DeleteRoot, DeleteLevel, At, TypeOK, DeleteCall
  <2>3. ReadsHold(q)
    BY <2>1, <2>2 DEF ReadsHold, Creating
  <2> QED BY <1>2, <2>2, <2>3
<1>9. CASE Insert(d) \/ Commit(d)
  BY <1>0, <1>4, <1>9, FinishEffect DEF Insert, Commit
<1> QED
  <2>1. \/ call'[d] = call[d]
        \/ \E S \in Batches : StartCreate(d, S)
        \/ \E n \in Nodes, force \in BOOLEAN : StartDelete(d, n, force)
        \/ Continue(d) \/ Fail(d)
    BY <1>0, OnlyActor DEF Next, vars
  <2> QED
    BY <1>3, <1>5, <1>6, <1>7, <1>8, <1>9, <2>1 DEF Continue, Calming

\* A creation adds rows to what is there, and a deletion takes none away.
LEMMA StepJoined ==
  ASSUME Inv, JoinedThere, AllHold, [Next]_vars
  PROVE  JoinedThere'
<1>1. \A n \in Nodes : There(n) => There(n)'
  BY NothingVanishes
<1>2. \A n \in Nodes : Joined(n) \subseteq Nodes
  BY ChainLevels DEF Joined
<1>3. CASE \A n \in Nodes : There(n)' => There(n)
  BY <1>1, <1>2, <1>3 DEF JoinedThere, AllThere
<1>4. ASSUME NEW c \in Calls, Insert(c)
      PROVE  JoinedThere'
  <2>1. /\ call[c].new \in Batches
        /\ \A query \in ScopeReads(call[c].new) : AllThere(query)
    BY <1>4 DEF Insert, At, AllHold, ReadsHold, Creating
  <2>2. \A n \in Nodes : There(n)' <=> (n \in call[c].new \/ There(n))
    BY <1>4 DEF Insert, There
  <2>3. ASSUME NEW n \in Nodes, There(n)', NEW m \in Joined(n)
        PROVE  There(m)'
    <3>1. m \in Nodes
      BY <1>2, <2>3
    <3>2. CASE n \in call[c].new
      BY <2>1, <2>2, <3>1, <3>2, NewAreRooted, <2>3
    <3>3. CASE There(n)
      BY <2>2, <2>3, <3>1, <3>3 DEF JoinedThere, AllThere
    <3> QED BY <2>2, <2>3, <3>2, <3>3
  <2> QED BY <2>3 DEF JoinedThere, AllThere
<1>5. ASSUME NEW c \in Calls, Commit(c)
      PROVE  \A n \in Nodes : There(n)' => There(n)
  <2>1. \A n \in Marked(c) : Live(n)
    BY DEF Inv, Exclusive, HeldLive
  <2>2. \A n \in call[c].marked : There(n)
    BY <1>5, <2>1 DEF Commit, Marked, Live, There
  <2> QED BY <1>5, <2>2 DEF Commit, There
<1>6. CASE UNCHANGED rows
  BY <1>3, <1>6 DEF There
<1> QED
  BY <1>3, <1>4, <1>5, <1>6 DEF Next, Continue, StartCreate, StartDelete, Read, ReadParents,
     CheckAllow, CheckProjects, TakeSnapshot, Check, DeleteRoot, DeleteLevel, Fail, vars

\* However many requests race with a deletion without force, between its count
\* of the projects and its transaction, it takes nothing that lived in the
\* organization at the count but what the deletion of a project had orphaned.
THEOREM UnforcedTakesOrphansOnly == Spec => []UnforcedSparesProjects
<1>1. Init => AllHold
  BY DEF Init, AllHold, ReadsHold, Creating, Idle
<1>2. Init => JoinedThere
  BY ResourcesAssumption DEF Init, JoinedThere, AllThere, There, Joined
<1>3. Inv /\ JoinedThere /\ AllHold /\ [Next]_vars => JoinedThere' /\ AllHold'
  BY StepJoined, StepHolds
<1>4. AllHold => UnforcedSparesProjects
  BY DEF AllHold, ReadsHold, Orphaned, UnforcedSparesProjects, At
<1> QED
  BY <1>1, <1>2, <1>3, <1>4, InitInv, StepInv, PTL DEF Spec
=============================================================================
