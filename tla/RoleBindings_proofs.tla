------------------------ MODULE RoleBindings_proofs ------------------------
(***************************************************************************)
(* Theorems about RoleBindings, for any users, roles, scopes, numbers of   *)
(* handlers and of rows: type correctness, no duplicate binding below the  *)
(* global scope, that grants create no authority, and that an organization *)
(* loses its last owner only to revocations that overtake each other.      *)
(***************************************************************************)
EXTENDS RoleBindings, FiniteSetTheorems, TLAPS

-----------------------------------------------------------------------------
(* Type correctness *)

\* A handler that has begun is a call.
LEMMA InFlight ==
  ASSUME TypeOK, NEW c \in Calls, call[c].pc \in Steps
  PROVE  call[c] \in Call
  BY DEF TypeOK, Idle, Steps

\* A live row is a binding.
LEMMA LiveIsBinding ==
  ASSUME TypeOK, NEW r \in Rows, Live(r)
  PROVE  rows[r] \in Binding
<1>1. rows[r] # NoRow
  BY DEF Live, NoRow
<1> QED
  BY <1>1 DEF TypeOK

\* The steps that read the table and go on or end the handler.
Reading(c) ==
  \/ CheckGlobal(c) \/ CheckAllow(c) \/ CheckRole(c)
  \/ CheckCoverage(c) \/ FindForGrant(c)

\* They leave the table alone, and never lead into the deletion.
LEMMA ReadingStep ==
  ASSUME NEW c, Reading(c)
  PROVE  /\ call[c].pc \in Steps
         /\ UNCHANGED rows
         /\ Finish(c) \/ \E to \in Steps \ {"delete"} : Goto(c, to)
<1>1. CASE CheckGlobal(c)
  BY <1>1 DEF CheckGlobal, Guard, At, Steps
<1>2. CASE CheckAllow(c)
  BY <1>2 DEF CheckAllow, Guard, At, Steps
<1>3. CASE CheckRole(c)
  BY <1>3 DEF CheckRole, Guard, At, Steps
<1>4. CASE CheckCoverage(c)
  BY <1>4 DEF CheckCoverage, Guard, At, Steps
<1>5. CASE FindForGrant(c)
  BY <1>5 DEF FindForGrant, Guard, At, Steps
<1> QED
  BY <1>1, <1>2, <1>3, <1>4, <1>5 DEF Reading

\* A row that RevokeRole has found is a binding, and stays one.
Found ==
  \A c \in Calls :
    At(c, "delete") => \A r \in call[c].row : rows[r] \in Binding

Typed == TypeOK /\ Found

\* The initial state is well typed.
LEMMA InitTyped == Init => Typed
  BY RoleBindingsAssumption DEF Init, Typed, TypeOK, Found, At, Idle

\* Every step keeps the types and what RevokeRole has found.
LEMMA StepTyped == Typed /\ [Next]_vars => Typed'
<1> SUFFICES ASSUME TypeOK, Found, [Next]_vars
             PROVE  TypeOK' /\ Found'
  BY DEF Typed
<1>1. ASSUME NEW c \in Calls, NEW op \in {"grant", "revoke"},
             NEW u \in Users, NEW v \in Users, NEW role \in Roles,
             NEW s \in Scopes, Request(c, op, u, v, role, s)
      PROVE  TypeOK' /\ Found'
  <2>1. TypeOK'
    BY <1>1 DEF Request, TypeOK, Call, Steps
  <2> QED
    BY <1>1, <2>1 DEF Request, TypeOK, Found, At
<1>2. ASSUME NEW c \in Calls, Reading(c)
      PROVE  TypeOK' /\ Found'
  <2>1. /\ call[c].pc \in Steps /\ UNCHANGED rows
        /\ Finish(c) \/ \E to \in Steps \ {"delete"} : Goto(c, to)
    BY <1>2, ReadingStep
  <2>2. \A to \in Steps : [call[c] EXCEPT !.pc = to] \in Call
    BY <2>1, InFlight DEF Call
  <2>3. TypeOK'
    BY <2>1, <2>2 DEF Finish, Goto, TypeOK
  <2>4. /\ \A d \in Calls \ {c} : call'[d] = call[d]
        /\ call'[c].pc # "delete"
    <3>1. CASE Finish(c)
      BY <3>1 DEF Finish, TypeOK, Idle
    <3>2. CASE \E to \in Steps \ {"delete"} : Goto(c, to)
      BY <2>1, <3>2, InFlight DEF Goto, TypeOK, Call
    <3> QED
      BY <2>1, <3>1, <3>2
  <2> QED
    BY <2>1, <2>3, <2>4 DEF Found, At
<1>3. ASSUME NEW c \in Calls, Insert(c)
      PROVE  TypeOK' /\ Found'
  <2>1. call[c] \in Call
    BY <1>3, InFlight DEF Insert, At, Steps
  <2>2. \A until \in Until :
          [live |-> TRUE, user |-> call[c].user, role |-> call[c].role,
           scope |-> call[c].scope, until |-> until] \in Binding
    BY <2>1 DEF Call, Binding, Until
  <2>3. TypeOK' /\ \A r \in Rows : rows[r] \in Binding => rows'[r] \in Binding
    BY <1>3, <2>2 DEF Insert, Finish, TypeOK
  <2>4. \A d \in Calls : call'[d] = IF d = c THEN Idle ELSE call[d]
    BY <1>3 DEF Insert, Finish, TypeOK
  <2> QED
    BY <2>3, <2>4, InFlight DEF Found, At, Idle, Call, Steps
<1>4. ASSUME NEW c \in Calls, FindForRevoke(c)
      PROVE  TypeOK' /\ Found'
  <2>1. call[c] \in Call
    BY <1>4, InFlight DEF FindForRevoke, At, Steps
  <2>2. \A r \in Target(c) :
          /\ r \in Rows /\ rows[r] \in Binding
          /\ [call[c] EXCEPT !.pc = "delete", !.row = {r}] \in Call
    <3>1. Target(c) \subseteq {r \in Rows : Live(r)}
      BY DEF Target, Matching
    <3>2. \A r \in Rows : Live(r) => rows[r] \in Binding
      BY LiveIsBinding
    <3>3. \A r \in Rows : [call[c] EXCEPT !.pc = "delete", !.row = {r}] \in Call
      BY <2>1 DEF Call, Steps
    <3> QED
      BY <3>1, <3>2, <3>3
  <2>3. TypeOK'
    BY <1>4, <2>2 DEF FindForRevoke, Finish, TypeOK
  <2>4. CASE call' = [call EXCEPT ![c] = Idle]
    BY <1>4, <2>4 DEF FindForRevoke, Found, At, Idle, TypeOK
  <2>5. ASSUME NEW r \in Target(c),
               call' = [call EXCEPT ![c].pc = "delete", ![c].row = {r}]
        PROVE  Found'
    <3>1. call'[c].row = {r} /\ \A d \in Calls \ {c} : call'[d] = call[d]
      BY <2>1, <2>5 DEF TypeOK, Call
    <3> QED
      BY <1>4, <2>2, <3>1 DEF FindForRevoke, Found, At
  <2> QED
    BY <1>4, <2>3, <2>4, <2>5 DEF FindForRevoke, Finish
<1>5. ASSUME NEW c \in Calls, SoftDelete(c)
      PROVE  TypeOK' /\ Found'
  <2>1. \A r \in call[c].row : r \in Rows /\ rows[r] \in Binding
    BY <1>5, InFlight DEF SoftDelete, At, Steps, Call, Found
  <2>2. \A r \in call[c].row : [rows[r] EXCEPT !.live = FALSE] \in Binding
    BY <2>1 DEF Binding
  <2>3. TypeOK' /\ \A r \in Rows : rows[r] \in Binding => rows'[r] \in Binding
    BY <1>5, <2>1, <2>2 DEF SoftDelete, Finish, TypeOK
  <2>4. \A d \in Calls : call'[d] = IF d = c THEN Idle ELSE call[d]
    BY <1>5 DEF SoftDelete, Finish, TypeOK
  <2> QED
    BY <2>3, <2>4, InFlight DEF Found, At, Idle, Call, Steps
<1>6. ASSUME NEW c \in Calls, Fail(c)
      PROVE  TypeOK' /\ Found'
  BY <1>6 DEF Fail, Finish, TypeOK, Found, At, Idle
<1>7. ASSUME NEW r \in Rows, Expire(r)
      PROVE  TypeOK' /\ Found'
  <2>1. [rows[r] EXCEPT !.until = "expired"] \in Binding
    BY <1>7 DEF Expire, Live, TypeOK, Binding, NoRow
  <2>2. TypeOK' /\ \A x \in Rows : rows[x] \in Binding => rows'[x] \in Binding
    BY <1>7, <2>1 DEF Expire, TypeOK
  <2> QED
    BY <1>7, <2>2, InFlight DEF Expire, Found, At, Call, Steps
<1>8. ASSUME NEW c \in Calls, CheckLastOwner(c)
      PROVE  TypeOK' /\ Found'
  <2>1. call[c] \in Call /\ UNCHANGED rows
    BY <1>8, InFlight DEF CheckLastOwner, At, Steps
  <2>2. \A s : Owners(s) \in SUBSET Rows
    BY DEF Owners
  <2>3. CASE Finish(c)
    BY <2>1, <2>3 DEF Finish, TypeOK, Found, At, Idle
  <2>4. CASE call' = [call EXCEPT ![c].pc = "find",
                                  ![c].counted = Owners(call[c].scope)]
    <3>1. [call[c] EXCEPT !.pc = "find", !.counted = Owners(call[c].scope)] \in Call
      BY <2>1, <2>2 DEF Call, Steps
    <3>2. TypeOK'
      BY <2>1, <2>4, <3>1 DEF TypeOK
    <3>3. call'[c].pc = "find" /\ \A d \in Calls \ {c} : call'[d] = call[d]
      BY <2>1, <2>4 DEF TypeOK, Call
    <3> QED
      BY <2>1, <3>2, <3>3 DEF Found, At
  <2> QED
    BY <1>8, <2>3, <2>4 DEF CheckLastOwner
<1>9. CASE UNCHANGED vars
  BY <1>9 DEF vars, TypeOK, Found, At
<1> QED
  BY <1>1, <1>2, <1>3, <1>4, <1>5, <1>6, <1>7, <1>8, <1>9 DEF Next, Reading

\* Hence both hold throughout.
LEMMA TypedAlways == Spec => []Typed
  BY InitTyped, StepTyped, PTL DEF Spec

\* The table and the handlers always have the types of TypeOK.
THEOREM TypeCorrect == Spec => []TypeOK
<1>1. Typed => TypeOK
  BY DEF Typed
<1> QED
  BY <1>1, TypedAlways, PTL

-----------------------------------------------------------------------------
(* What a step does to the rows: only Insert makes one live. *)

Shrinks ==
  \A r \in Rows : Live(r)' =>
    /\ Live(r)
    /\ rows'[r].user = rows[r].user
    /\ rows'[r].role = rows[r].role
    /\ rows'[r].scope = rows[r].scope

\* Every other step leaves live rows as they were or fewer of them.
LEMMA RowsOfStep ==
  ASSUME Typed, [Next]_vars
  PROVE  Shrinks \/ \E c \in Calls : Insert(c)
<1>0. TypeOK /\ Found
  BY DEF Typed
<1>1. CASE rows' = rows
  BY <1>1 DEF Shrinks, Live
<1>2. ASSUME NEW c \in Calls, SoftDelete(c)
      PROVE  Shrinks
  <2>1. PICK r \in call[c].row : rows' = [rows EXCEPT ![r].live = FALSE]
    BY <1>2 DEF SoftDelete
  <2>2. r \in Rows /\ rows[r] \in Binding
    BY <1>0, <1>2, InFlight DEF SoftDelete, At, Steps, Call, Found
  <2>3. rows'[r].live = FALSE /\ \A x \in Rows \ {r} : rows'[x] = rows[x]
    BY <1>0, <2>1, <2>2 DEF TypeOK, Binding
  <2> QED
    BY <2>3 DEF Shrinks, Live
<1>3. ASSUME NEW r \in Rows, Expire(r)
      PROVE  Shrinks
  <2>1. rows[r] \in Binding
    BY <1>0, <1>3, LiveIsBinding DEF Expire
  <2>2. /\ rows'[r].user = rows[r].user /\ rows'[r].role = rows[r].role
        /\ rows'[r].scope = rows[r].scope
        /\ \A x \in Rows \ {r} : rows'[x] = rows[x]
    BY <1>0, <1>3, <2>1 DEF Expire, TypeOK, Binding
  <2> QED
    BY <1>3, <2>2 DEF Shrinks, Live, Expire
<1> QED
  <2>1. ASSUME NEW c \in Calls, Reading(c)
        PROVE  rows' = rows
    BY <2>1, ReadingStep
  <2> QED
    BY <1>1, <1>2, <1>3, <2>1
       DEF Next, Reading, Request, CheckLastOwner, FindForRevoke, Fail, vars

-----------------------------------------------------------------------------
(* One row for each binding *)

\* Insert meets the unique index, and the other steps add no row.
LEMMA StepUnique ==
  ASSUME Typed, UniqueBelowGlobal, [Next]_vars
  PROVE  UniqueBelowGlobal'
<1>1. CASE Shrinks
  BY <1>1 DEF Shrinks, UniqueBelowGlobal, Live
<1>2. ASSUME NEW c \in Calls, Insert(c), ~ Taken(c)
      PROVE  UniqueBelowGlobal'
  <2>1. PICK r \in Rows, until \in Until :
          /\ rows[r] = NoRow
          /\ rows' = [rows EXCEPT ![r] =
                        [live |-> TRUE, user |-> call[c].user,
                         role |-> call[c].role, scope |-> call[c].scope,
                         until |-> until]]
    BY <1>2 DEF Insert
  <2>2. /\ rows'[r].user = call[c].user /\ rows'[r].role = call[c].role
        /\ rows'[r].scope = call[c].scope
        /\ \A q \in Rows \ {r} : rows'[q] = rows[q]
    BY <2>1 DEF Typed, TypeOK
  <2>3. ScopeType[call[c].scope] # "global" =>
          \A q \in Rows \ {r} : Live(q) /\ rows[q].scope = call[c].scope
            => rows[q].user # call[c].user \/ rows[q].role # call[c].role
    BY <1>2 DEF Taken, Target, Matching
  <2> QED
    BY <2>2, <2>3 DEF UniqueBelowGlobal, Live
<1>3. ASSUME NEW c \in Calls, Insert(c), Taken(c)
      PROVE  UniqueBelowGlobal'
  BY <1>3 DEF Insert, UniqueBelowGlobal, Live
<1> QED
  BY <1>1, <1>2, <1>3, RowsOfStep

\* However two grants race between GrantRole's search for a binding and its
\* insert, no two live rows below the global scope bind one user to one role.
THEOREM BindingsAreUnique == Spec => []UniqueBelowGlobal
<1>1. Init => UniqueBelowGlobal
  BY InitialRowsUnique DEF Init, UniqueBelowGlobal, Live
<1>2. Typed /\ UniqueBelowGlobal /\ [Next]_vars => UniqueBelowGlobal'
  BY StepUnique
<1> QED
  BY <1>1, <1>2, TypedAlways, PTL DEF Spec

-----------------------------------------------------------------------------
(* Coverage.  What is implied implies nothing more, so whoever is covered by *)
(* the covered is covered.                                                   *)

\* What an action implies implies nothing itself.
LEMMA ImpliedOnce ==
  ASSUME NEW a, NEW b \in Implied(a)
  PROVE  Implied(b) = {}
<1>1. b \in {"read", "role:read", "binding:read"}
  BY DEF Implied
<1> QED
  BY <1>1 DEF Implied

\* What is covered by an expanded set expands to no more than that set.
LEMMA ExpandOnce ==
  ASSUME NEW A, NEW B, A \subseteq Expand(B)
  PROVE  Expand(A) \subseteq Expand(B)
<1> SUFFICES ASSUME NEW a \in A, NEW b \in Implied(a)
             PROVE  b \in Expand(B)
  BY DEF Expand
<1>1. CASE a \in B
  BY <1>1 DEF Expand
<1>2. CASE a \notin B
  <2>1. PICK c \in B : a \in Implied(c)
    BY <1>2 DEF Expand
  <2> QED
    BY <2>1, ImpliedOnce
<1> QED
  BY <1>1, <1>2

\* Expansion keeps inclusions.
LEMMA ExpandGrows ==
  ASSUME NEW A, NEW B, A \subseteq B
  PROVE  Expand(A) \subseteq Expand(B)
  BY DEF Expand

\* What is trusted is closed under expansion.
LEMMA TrustedClosed ==
  ASSUME NEW s, NEW A, A \subseteq Trusted(s)
  PROVE  Expand(A) \subseteq Trusted(s)
  BY ExpandOnce DEF Trusted

\* Whoever is trusted above a scope is trusted in it.
LEMMA TrustedBelow ==
  ASSUME NEW s \in Scopes, NEW t \in Chain[s]
  PROVE  Trusted(t) \subseteq Trusted(s)
<1>1. Chain[t] \subseteq Chain[s]
  BY RoleBindingsAssumption
<1> DEFINE Of(x) == UNION {RolePermissions[InitialRows[r].role] :
                             r \in {y \in Rows : /\ InitialRows[y].live
                                                 /\ InitialRows[y].scope \in Chain[x]}}
<1>2. Of(t) \subseteq Of(s)
  BY <1>1
<1>3. ActionsOf(Of(t)) \subseteq ActionsOf(Of(s))
  BY <1>2 DEF ActionsOf
<1> QED
  BY <1>3, ExpandGrows DEF Trusted

-----------------------------------------------------------------------------
(* The strengthening: every live row is within what was trusted in its own   *)
(* scope, and so is every grant whose coverage has been checked.             *)

Within(role, s) == ActionsOf(RolePermissions[role]) \subseteq Trusted(s)

RowsWithin == \A r \in Rows : Live(r) => Within(rows[r].role, rows[r].scope)

Sound(q) ==
  /\ q.pc = "owners" => q.op = "revoke"
  /\ q.pc = "insert" => q.op = "grant"
  /\ q.pc \in {"find", "insert"} /\ q.op = "grant" => Within(q.role, q.scope)

CallsSound == \A c \in Calls : Sound(call[c])

\* The rows of one level, whoever reads them, stay within what is trusted.
LEMMA PermissionsWithin ==
  ASSUME Typed, RowsWithin, NEW u, NEW s \in Scopes
  PROVE  ActionsOf(UserPermissions(u, s)) \subseteq Trusted(s)
<1> SUFFICES ASSUME NEW r \in Rows, Effective(r), rows[r].scope \in Chain[s],
                    NEW p \in RolePermissions[rows[r].role]
             PROVE  p.action \in Trusted(s)
  BY DEF ActionsOf, UserPermissions
<1>1. p.action \in Trusted(rows[r].scope)
  BY DEF RowsWithin, Within, ActionsOf, Effective
<1> QED
  BY <1>1, TrustedBelow

\* A role that passes the coverage check is within what is trusted.
LEMMA CoverageWithin ==
  ASSUME Typed, RowsWithin, NEW u, NEW role, NEW s \in Scopes,
         Coverage(u, role, s)
  PROVE  Within(role, s)
<1>1. PICK t \in Chain[s] : ActionsOf(RolePermissions[role]) \subseteq
                               Expand(ActionsOf(UserPermissions(u, t)))
  BY DEF Coverage
<1>2. t \in Scopes
  BY RoleBindingsAssumption
<1>3. Expand(ActionsOf(UserPermissions(u, t))) \subseteq Trusted(t)
  BY <1>2, PermissionsWithin, TrustedClosed
<1> QED
  BY <1>1, <1>3, TrustedBelow DEF Within

\* The initial rows are what is trusted.
LEMMA InitWithin == Init => RowsWithin /\ CallsSound
<1> SUFFICES ASSUME Init
             PROVE  RowsWithin /\ CallsSound
  OBVIOUS
<1>1. ASSUME NEW r \in Rows, Live(r)
      PROVE  Within(rows[r].role, rows[r].scope)
  <2>1. InitialRows[r].live /\ InitialRows[r] = rows[r]
    BY <1>1 DEF Init, Live
  <2>2. rows[r].scope \in Chain[rows[r].scope]
    <3>1. rows[r] \in Binding
      BY <1>1, InitTyped, LiveIsBinding DEF Typed
    <3> QED
      BY <3>1, RoleBindingsAssumption DEF Binding
  <2>3. RolePermissions[rows[r].role] \subseteq
          UNION {RolePermissions[InitialRows[x].role] :
                   x \in {y \in Rows : /\ InitialRows[y].live
                                       /\ InitialRows[y].scope \in Chain[rows[r].scope]}}
    BY <2>1, <2>2
  <2> QED
    BY <2>3 DEF Within, Trusted, Expand, ActionsOf
<1>2. CallsSound
  BY DEF Init, CallsSound, Sound, Idle
<1> QED
  BY <1>1, <1>2 DEF RowsWithin

\* Every step keeps the live rows within what is trusted.
LEMMA StepRowsWithin ==
  ASSUME Typed, RowsWithin, CallsSound, [Next]_vars
  PROVE  RowsWithin'
<1>1. CASE Shrinks
  BY <1>1 DEF Shrinks, RowsWithin
<1>2. ASSUME NEW c \in Calls, Insert(c)
      PROVE  RowsWithin'
  <2>1. Within(call[c].role, call[c].scope)
    BY <1>2 DEF Insert, At, CallsSound, Sound
  <2>2. CASE UNCHANGED rows
    BY <2>2 DEF RowsWithin, Live
  <2>3. CASE \E r \in Rows, until \in Until :
               rows' = [rows EXCEPT ![r] =
                         [live |-> TRUE, user |-> call[c].user,
                          role |-> call[c].role, scope |-> call[c].scope,
                          until |-> until]]
    <3>1. PICK r \in Rows, until \in Until :
            rows' = [rows EXCEPT ![r] =
                      [live |-> TRUE, user |-> call[c].user,
                       role |-> call[c].role, scope |-> call[c].scope,
                       until |-> until]]
      BY <2>3
    <3>2. /\ rows'[r].role = call[c].role /\ rows'[r].scope = call[c].scope
          /\ \A q \in Rows \ {r} : rows'[q] = rows[q]
      BY <3>1 DEF Typed, TypeOK
    <3> QED
      BY <2>1, <3>2 DEF RowsWithin, Live
  <2> QED
    BY <1>2, <2>2, <2>3 DEF Insert
<1> QED
  BY <1>1, <1>2, RowsOfStep

\* A step of one handler that ends it or takes it to a sound place.
LEMMA OneCall ==
  ASSUME Typed, CallsSound, NEW c \in Calls, NEW q,
         call' = [call EXCEPT ![c] = q], Sound(q)
  PROVE  CallsSound'
<1>1. \A d \in Calls : call'[d] = IF d = c THEN q ELSE call[d]
  BY DEF Typed, TypeOK
<1> QED
  BY <1>1 DEF CallsSound, Sound

\* Moving on keeps a handler sound if the next step asks no more of it.
LEMMA GotoSound ==
  ASSUME Typed, CallsSound, NEW c \in Calls, call[c].pc \in Steps,
         NEW to \in Steps, Goto(c, to),
         to = "owners" => call[c].op = "revoke",
         to = "insert" => call[c].op = "grant",
         to \in {"find", "insert"} /\ call[c].op = "grant"
           => Within(call[c].role, call[c].scope)
  PROVE  CallsSound'
<1>1. call[c] \in Call
  BY InFlight DEF Typed
<1>2. Sound([call[c] EXCEPT !.pc = to])
  BY <1>1 DEF Sound, Call
<1> QED
  BY <1>2, OneCall DEF Goto

\* A handler that ends is sound.
LEMMA FinishSound ==
  ASSUME Typed, CallsSound, NEW c \in Calls, Finish(c)
  PROVE  CallsSound'
<1>1. Sound(Idle)
  BY DEF Sound, Idle
<1> QED
  BY <1>1, OneCall DEF Finish

\* A guard that is passed establishes what the next step relies on.
LEMMA ReadingSound ==
  ASSUME Typed, RowsWithin, CallsSound, NEW c \in Calls, Reading(c)
  PROVE  CallsSound'
<1>0. call[c].pc \in Steps
  BY ReadingStep
<1>1. Sound(call[c]) /\ call[c].scope \in Scopes /\ call[c].op \in {"grant", "revoke"}
  BY <1>0, InFlight DEF CallsSound, Typed, Call
<1>2. CASE Finish(c)
  BY <1>2, FinishSound
<1>3. CASE CheckGlobal(c) /\ ~ Finish(c)
  BY <1>0, <1>3, GotoSound DEF CheckGlobal, Guard, Steps
<1>4. CASE CheckAllow(c) /\ ~ Finish(c)
  BY <1>0, <1>4, GotoSound DEF CheckAllow, Guard, Steps
<1>5. CASE CheckRole(c) /\ ~ Finish(c)
  BY <1>0, <1>5, GotoSound DEF CheckRole, Guard, Steps
<1>6. CASE CheckCoverage(c) /\ ~ Finish(c)
  <2>1. Within(call[c].role, call[c].scope)
    BY <1>1, <1>6, CoverageWithin DEF CheckCoverage, Guard
  <2>2. Goto(c, IF call[c].op = "grant" THEN "find" ELSE "owners")
    BY <1>6 DEF CheckCoverage, Guard
  <2> QED
    BY <1>0, <1>1, <2>1, <2>2, GotoSound DEF Steps
<1>7. CASE FindForGrant(c) /\ ~ Finish(c)
  <2>1. /\ call[c].op = "grant" /\ Goto(c, "insert")
        /\ Within(call[c].role, call[c].scope)
    BY <1>1, <1>7 DEF FindForGrant, Guard, At, Sound
  <2> QED
    BY <1>0, <2>1, GotoSound DEF Steps
<1> QED
  BY <1>2, <1>3, <1>4, <1>5, <1>6, <1>7 DEF Reading

\* Every step keeps the handlers sound.
LEMMA StepCallsSound ==
  ASSUME Typed, RowsWithin, CallsSound, [Next]_vars
  PROVE  CallsSound'
<1>1. ASSUME NEW c \in Calls, NEW op \in {"grant", "revoke"},
             NEW u \in Users, NEW v \in Users, NEW role \in Roles,
             NEW s \in Scopes, Request(c, op, u, v, role, s)
      PROVE  CallsSound'
  <2> DEFINE q == [pc |-> "global", op |-> op, caller |-> u, user |-> v,
                   role |-> role, scope |-> s, row |-> {}, counted |-> {}]
  <2>1. Sound(q)
    BY DEF Sound
  <2> QED
    BY <1>1, <2>1, OneCall DEF Request
<1>2. ASSUME NEW c \in Calls, Insert(c) \/ SoftDelete(c) \/ Fail(c)
      PROVE  CallsSound'
  BY <1>2, FinishSound DEF Insert, SoftDelete, Fail
<1>3. ASSUME NEW c \in Calls, FindForRevoke(c)
      PROVE  CallsSound'
  <2>1. CASE Finish(c)
    BY <2>1, FinishSound
  <2>2. ASSUME NEW r,
               call' = [call EXCEPT ![c].pc = "delete", ![c].row = {r}]
        PROVE  CallsSound'
    <3>1. call[c] \in Call
      BY <1>3, InFlight DEF Typed, FindForRevoke, At, Steps
    <3>2. Sound([call[c] EXCEPT !.pc = "delete", !.row = {r}])
      BY <3>1 DEF Sound, Call
    <3> QED
      BY <2>2, <3>2, OneCall
  <2> QED
    BY <1>3, <2>1, <2>2 DEF FindForRevoke
<1>4. CASE UNCHANGED call
  BY <1>4 DEF CallsSound, Sound
<1>5. ASSUME NEW c \in Calls, CheckLastOwner(c)
      PROVE  CallsSound'
  <2>1. CASE Finish(c)
    BY <2>1, FinishSound
  <2>2. CASE call' = [call EXCEPT ![c].pc = "find",
                                  ![c].counted = Owners(call[c].scope)]
    <3>1. call[c] \in Call /\ call[c].op = "revoke"
      BY <1>5, InFlight DEF Typed, CheckLastOwner, At, Steps, CallsSound, Sound
    <3>2. Sound([call[c] EXCEPT !.pc = "find", !.counted = Owners(call[c].scope)])
      BY <3>1 DEF Sound, Call
    <3> QED
      BY <2>2, <3>2, OneCall
  <2> QED
    BY <1>5, <2>1, <2>2 DEF CheckLastOwner
<1> QED
  BY <1>1, <1>2, <1>3, <1>4, <1>5, ReadingSound DEF Next, Reading, Expire, vars

\* However grants, revocations and expiries of any number of callers chain
\* and race, nobody exercises in a scope an action that nobody held there or
\* above at the start: GrantRole creates no authority.
THEOREM NoNewAuthority == Spec => []AuthorityIsClosed
<1>1. Init => RowsWithin /\ CallsSound
  BY InitWithin
<1>2. Typed /\ RowsWithin /\ CallsSound /\ [Next]_vars
        => RowsWithin' /\ CallsSound'
  BY StepRowsWithin, StepCallsSound
<1>3. Typed /\ RowsWithin => AuthorityIsClosed
  BY PermissionsWithin DEF AuthorityIsClosed
<1> QED
  BY <1>1, <1>2, <1>3, TypedAlways, PTL DEF Spec

-----------------------------------------------------------------------------
(* The last owner.  A revocation that deletes an owner has counted two rows  *)
(* or more of that organization; those it has counted are bindings of it for *)
(* good, live or not.                                                        *)

RevokesOwner(q) == q.op = "revoke" /\ q.role = "org_owner"

BindingOf(r, s) == rows[r] \in Binding /\ rows[r].scope = s

Informed(q) ==
  /\ q.pc \in {"coverage", "owners", "find", "delete"} /\ RevokesOwner(q)
       => ScopeType[q.scope] = "organization"
  /\ q.pc \in {"find", "delete"} /\ RevokesOwner(q)
       => /\ Cardinality(q.counted) > 1
          /\ \A r \in q.counted : BindingOf(r, q.scope) /\ rows[r].role = "org_owner"
  /\ q.pc = "delete"
       => /\ q.op = "revoke"
          /\ \E r \in Rows : /\ q.row = {r} /\ BindingOf(r, q.scope)
                             /\ rows[r].role = q.role

AllInformed == \A c \in Calls : Informed(call[c])

\* A binding keeps its role and its scope whatever becomes of it.
LEMMA BindingsStay ==
  ASSUME Typed, [Next]_vars
  PROVE  \A r \in Rows : rows[r] \in Binding =>
           /\ rows'[r] \in Binding
           /\ rows'[r].role = rows[r].role /\ rows'[r].scope = rows[r].scope
<1>0. TypeOK /\ Found
  BY DEF Typed
<1>1. CASE rows' = rows
  BY <1>1
<1>2. ASSUME NEW c \in Calls, SoftDelete(c)
      PROVE  \A r \in Rows : rows[r] \in Binding =>
               /\ rows'[r] \in Binding
               /\ rows'[r].role = rows[r].role /\ rows'[r].scope = rows[r].scope
  <2>1. PICK d \in call[c].row : rows' = [rows EXCEPT ![d].live = FALSE]
    BY <1>2 DEF SoftDelete
  <2>2. d \in Rows /\ rows[d] \in Binding
    BY <1>0, <1>2, <2>1, InFlight DEF SoftDelete, At, Steps, Call, Found
  <2> QED
    BY <1>0, <2>1, <2>2 DEF TypeOK, Binding
<1>3. ASSUME NEW d \in Rows, Expire(d)
      PROVE  \A r \in Rows : rows[r] \in Binding =>
               /\ rows'[r] \in Binding
               /\ rows'[r].role = rows[r].role /\ rows'[r].scope = rows[r].scope
  <2>1. rows[d] \in Binding
    BY <1>0, <1>3, LiveIsBinding DEF Expire
  <2> QED
    BY <1>0, <1>3, <2>1 DEF Expire, TypeOK, Binding
<1>4. ASSUME NEW c \in Calls, Insert(c)
      PROVE  \A r \in Rows : rows[r] \in Binding => rows'[r] = rows[r]
  <2>1. NoRow \notin Binding
    <3>1. \A b \in Binding : DOMAIN b # {"live"}
      BY DEF Binding
    <3>2. DOMAIN NoRow = {"live"}
      BY DEF NoRow
    <3> QED BY <3>1, <3>2
  <2> QED
    BY <1>0, <1>4, <2>1 DEF Insert, TypeOK
<1>5. ASSUME NEW c \in Calls, Reading(c)
      PROVE  rows' = rows
  BY <1>5, ReadingStep
<1> QED
  BY <1>1, <1>2, <1>3, <1>4, <1>5
     DEF Next, Reading, Request, CheckLastOwner, FindForRevoke, Fail, vars

\* So a handler that a step leaves alone stays informed.
LEMMA InformedStays ==
  ASSUME Typed, [Next]_vars, NEW q \in Call, Informed(q)
  PROVE  Informed(q)'
<1>1. q.counted \subseteq Rows
  BY DEF Call
<1>2. \A r \in Rows : \A s : BindingOf(r, s) => BindingOf(r, s)'
  BY BindingsStay DEF BindingOf
<1>3. \A r \in Rows : \A s : BindingOf(r, s) => rows'[r].role = rows[r].role
  BY BindingsStay DEF BindingOf
<1> QED
  BY <1>1, <1>2, <1>3 DEF Informed, RevokesOwner

\* A guard that is passed establishes what the next step relies on.
LEMMA ReadingInformed ==
  ASSUME Typed, CallsSound, RoleScope["org_owner"] = "organization",
         NEW c \in Calls, Reading(c), Informed(call[c])
  PROVE  Informed(call'[c])
<1>0. /\ call[c] \in Call /\ call[c].pc \in Steps
      /\ call \in [Calls -> Call \cup {Idle}]
  BY ReadingStep, InFlight DEF Typed, TypeOK
<1>1. PICK q : q = call'[c]
  OBVIOUS
<1>a. SUFFICES Informed(q)
  BY <1>1
<1>2. CASE Finish(c)
  BY <1>0, <1>1, <1>2 DEF Finish, Informed, Idle
<1>3. ASSUME NEW to, Goto(c, to)
      PROVE  /\ q.pc = to /\ q.op = call[c].op
             /\ q.role = call[c].role /\ q.scope = call[c].scope
  BY <1>0, <1>1, <1>3 DEF Goto, Call
<1>4. CASE CheckGlobal(c) /\ ~ Finish(c)
  BY <1>3, <1>4 DEF CheckGlobal, Guard, Informed
<1>5. CASE CheckAllow(c) /\ ~ Finish(c)
  BY <1>3, <1>5 DEF CheckAllow, Guard, Informed
<1>6. CASE CheckRole(c) /\ ~ Finish(c)
  <2>1. Goto(c, "coverage") /\ RoleScope[call[c].role] = ScopeType[call[c].scope]
    BY <1>6 DEF CheckRole, Guard
  <2>2. q.pc = "coverage" /\ q.role = call[c].role
        /\ q.scope = call[c].scope
    BY <1>3, <2>1
  <2> QED
    BY <2>1, <2>2 DEF Informed, RevokesOwner
<1>7. CASE CheckCoverage(c) /\ ~ Finish(c)
  <2> DEFINE to == IF call[c].op = "grant" THEN "find" ELSE "owners"
  <2>1. call[c].pc = "coverage" /\ Goto(c, to)
    BY <1>7 DEF CheckCoverage, Guard, At
  <2>2. /\ q.pc = to /\ q.op = call[c].op
        /\ q.role = call[c].role /\ q.scope = call[c].scope
    BY <1>3, <2>1
  <2> QED
    BY <1>0, <2>1, <2>2 DEF Informed, RevokesOwner
<1>8. CASE FindForGrant(c) /\ ~ Finish(c)
  BY <1>3, <1>8 DEF FindForGrant, Guard, Informed
<1> QED
  BY <1>2, <1>4, <1>5, <1>6, <1>7, <1>8 DEF Reading

\* Whoever goes on from the count has counted an owner besides the one to go.
LEMMA CountInformed ==
  ASSUME Typed, IsFiniteSet(Rows), NEW c \in Calls, CheckLastOwner(c),
         Informed(call[c])
  PROVE  Informed(call'[c])
<1>0. /\ call[c] \in Call /\ call[c].pc = "owners"
      /\ call \in [Calls -> Call \cup {Idle}]
  BY InFlight DEF CheckLastOwner, At, Steps, Typed, TypeOK
<1>1. CASE Finish(c)
  BY <1>0, <1>1 DEF Finish, Informed, Idle
<1>2. CASE ~ Finish(c)
  <2> DEFINE s == call[c].scope
  <2>1. /\ call' = [call EXCEPT ![c].pc = "find", ![c].counted = Owners(s)]
        /\ call[c].role = "org_owner" /\ ScopeType[s] = "organization"
             => ~ LastOwner(Cardinality(Owners(s)) - 1)
    BY <1>2 DEF CheckLastOwner
  <2>2. PICK q : q = call'[c]
    OBVIOUS
  <2>3. /\ q.pc = "find" /\ q.op = call[c].op /\ q.counted = Owners(s)
        /\ q.role = call[c].role /\ q.scope = s
    BY <1>0, <2>1, <2>2 DEF Call
  <2>4. Cardinality(Owners(s)) \in Nat
    <3>1. Owners(s) \subseteq Rows
      BY DEF Owners
    <3> QED BY <3>1, FS_Subset, FS_CardinalityType
  <2>5. RevokesOwner(q) => ScopeType[s] = "organization"
    BY <1>0, <2>3 DEF Informed, RevokesOwner
  <2>6. RevokesOwner(q) => Cardinality(Owners(s)) > 1
    BY <2>1, <2>3, <2>4, <2>5 DEF LastOwner, RevokesOwner
  <2>7. \A r \in Owners(s) : BindingOf(r, s) /\ rows[r].role = "org_owner"
    BY LiveIsBinding DEF Typed, Owners, BindingOf
  <2>8. Informed(q)
    BY <2>3, <2>5, <2>6, <2>7 DEF Informed
  <2> QED BY <2>2, <2>8
<1> QED BY <1>1, <1>2

\* RevokeRole finds a row of the role and the scope that it was asked for.
LEMMA FindInformed ==
  ASSUME Typed, NEW c \in Calls, FindForRevoke(c), Informed(call[c])
  PROVE  Informed(call'[c])
<1>0. /\ call[c] \in Call /\ call[c].pc = "find" /\ call[c].op = "revoke"
      /\ call \in [Calls -> Call \cup {Idle}]
  BY InFlight DEF FindForRevoke, At, Steps, Typed, TypeOK
<1>1. CASE Finish(c)
  BY <1>0, <1>1 DEF Finish, Informed, Idle
<1>2. ASSUME NEW r \in Target(c),
             call' = [call EXCEPT ![c].pc = "delete", ![c].row = {r}]
      PROVE  Informed(call'[c])
  <2>1. PICK q : q = call'[c]
    OBVIOUS
  <2>2. /\ q.pc = "delete" /\ q.row = {r} /\ q.op = "revoke"
        /\ q.role = call[c].role /\ q.scope = call[c].scope
        /\ q.counted = call[c].counted
    BY <1>0, <1>2, <2>1 DEF Call
  <2>3. /\ r \in Rows /\ Live(r)
        /\ rows[r].role = q.role /\ rows[r].scope = q.scope
    BY <2>2 DEF Target, Matching
  <2>4. BindingOf(r, q.scope)
    BY <2>3, LiveIsBinding DEF Typed, BindingOf
  <2>5. Informed(q)
    BY <1>0, <2>2, <2>3, <2>4 DEF Informed, RevokesOwner
  <2> QED BY <2>1, <2>5
<1> QED
  BY <1>1, <1>2 DEF FindForRevoke

\* Every step keeps every handler informed.
LEMMA StepInformed ==
  ASSUME IsFiniteSet(Rows), RoleScope["org_owner"] = "organization",
         Typed, CallsSound, AllInformed, [Next]_vars
  PROVE  AllInformed'
<1>0. /\ call \in [Calls -> Call \cup {Idle}] /\ Typed'
      /\ \A c \in Calls : Informed(call[c])
  BY StepTyped DEF Typed, TypeOK, AllInformed
<1>1. Informed(Idle)'
  BY DEF Informed, Idle
<1>2. \A c \in Calls : Informed(call[c])'  \/ call'[c] # call[c]
  <2> SUFFICES ASSUME NEW c \in Calls, call'[c] = call[c]
               PROVE  Informed(call[c])'
    OBVIOUS
  <2>1. PICK q : q = call[c]
    OBVIOUS
  <2>2. Informed(q)'
    BY <1>0, <1>1, <2>1, InformedStays
  <2> QED BY <2>1, <2>2
<1>3. ASSUME NEW c \in Calls, \A d \in Calls \ {c} : call'[d] = call[d],
             UNCHANGED rows, Informed(call'[c])
      PROVE  AllInformed'
  <2>1. PICK q : q = call'[c]
    OBVIOUS
  <2>2. Informed(q)'
    BY <1>3, <2>1 DEF Informed, RevokesOwner, BindingOf
  <2>3. Informed(call[c])'
    BY <2>1, <2>2
  <2> QED
    BY <1>2, <1>3, <2>3 DEF AllInformed
<1>4. ASSUME NEW c \in Calls, Finish(c)
      PROVE  AllInformed'
  <2>1. call'[c] = Idle /\ \A d \in Calls \ {c} : call'[d] = call[d]
    BY <1>0, <1>4 DEF Finish
  <2>2. Informed(call[c])'
    BY <2>1 DEF Informed, Idle
  <2> QED
    BY <1>2, <2>1, <2>2 DEF AllInformed
<1>5. ASSUME NEW c \in Calls, NEW op \in {"grant", "revoke"},
             NEW u \in Users, NEW v \in Users, NEW role \in Roles,
             NEW s \in Scopes, Request(c, op, u, v, role, s)
      PROVE  AllInformed'
  <2>1. /\ call'[c].pc = "global" /\ UNCHANGED rows
        /\ \A d \in Calls \ {c} : call'[d] = call[d]
    BY <1>0, <1>5 DEF Request
  <2>2. Informed(call'[c])
    BY <2>1 DEF Informed
  <2> QED
    BY <1>3, <2>1, <2>2
<1>6. ASSUME NEW c \in Calls, Reading(c)
      PROVE  AllInformed'
  <2>1. UNCHANGED rows /\ \A d \in Calls \ {c} : call'[d] = call[d]
    BY <1>0, <1>6, ReadingStep DEF Finish, Goto
  <2>2. Informed(call'[c])
    BY <1>0, <1>6, ReadingInformed
  <2> QED
    BY <1>3, <2>1, <2>2
<1>7. ASSUME NEW c \in Calls, CheckLastOwner(c) \/ FindForRevoke(c)
      PROVE  AllInformed'
  <2>1. UNCHANGED rows /\ \A d \in Calls \ {c} : call'[d] = call[d]
    BY <1>0, <1>7 DEF CheckLastOwner, FindForRevoke, Finish
  <2>2. Informed(call'[c])
    BY <1>0, <1>7, CountInformed, FindInformed
  <2> QED
    BY <1>3, <2>1, <2>2
<1>8. ASSUME NEW c \in Calls, Insert(c) \/ SoftDelete(c) \/ Fail(c)
      PROVE  AllInformed'
  BY <1>4, <1>8 DEF Insert, SoftDelete, Fail
<1>9. CASE UNCHANGED call
  BY <1>2, <1>9 DEF AllInformed
<1> QED
  BY <1>5, <1>6, <1>7, <1>8, <1>9 DEF Next, Reading, Expire, vars

\* A deletion that leaves no owner has counted one who has gone since.
LEMMA DeletionOvertaken ==
  ASSUME IsFiniteSet(Rows), Typed, AllInformed, NEW c \in Calls, SoftDelete(c),
         NEW s \in Scopes, Owners(s) # {}, Owners(s)' = {}
  PROVE  \E r \in call[c].counted \ call[c].row : rows[r].scope = s /\ ~ Live(r)
<1>1. /\ call[c] \in Call /\ call[c].pc = "delete" /\ Informed(call[c])
      /\ rows \in [Rows -> Binding \cup {NoRow}]
  BY InFlight DEF SoftDelete, At, Steps, AllInformed, Typed, TypeOK
<1>2. PICK d \in call[c].row : rows' = [rows EXCEPT ![d].live = FALSE]
  BY DEF SoftDelete
<1>3. /\ call[c].op = "revoke" /\ call[c].row = {d} /\ d \in Rows
      /\ rows[d].role = call[c].role /\ rows[d].scope = call[c].scope
  BY <1>1, <1>2 DEF Informed, BindingOf
<1>4. \A x \in Rows \ {d} : rows'[x] = rows[x]
  BY <1>1, <1>2
<1>5. d \in Owners(s)
  BY <1>4 DEF Owners, Live
<1>6. RevokesOwner(call[c]) /\ call[c].scope = s
  BY <1>3, <1>5 DEF RevokesOwner, Owners
<1>7. /\ Cardinality(call[c].counted) > 1
      /\ \A r \in call[c].counted : BindingOf(r, s) /\ rows[r].role = "org_owner"
  BY <1>1, <1>6 DEF Informed
<1>8. PICK r \in call[c].counted : r # d
  <2>1. Cardinality(call[c].counted) > 1
    BY <1>7
  <2>2. Cardinality({d}) = 1
    BY FS_Singleton
  <2>3. Cardinality({}) = 0
    BY FS_EmptySet
  <2>4. call[c].counted # {d}
    BY <2>1, <2>2
  <2>5. call[c].counted # {}
    BY <2>1, <2>3
  <2> QED BY <2>4, <2>5
<1>9. /\ r \in Rows /\ rows[r].scope = s /\ rows[r].role = "org_owner"
      /\ rows'[r] = rows[r]
  BY <1>1, <1>4, <1>7, <1>8 DEF Call, BindingOf
<1>10. r \notin Owners(s)' /\ r \notin call[c].row
  BY <1>3, <1>8
<1>11. ~ Live(r)
  BY <1>9, <1>10 DEF Owners, Live
<1> QED
  BY <1>8, <1>9, <1>10, <1>11

\* Every other step leaves the owners of an organization as they are, or more.
LEMMA OwnersOfStep ==
  ASSUME Typed, [Next]_vars, \A c \in Calls : ~ SoftDelete(c)
  PROVE  \A s : Owners(s) \subseteq Owners(s)'
<1>0. TypeOK
  BY DEF Typed
<1>1. CASE rows' = rows
  BY <1>1 DEF Owners, Live
<1>2. ASSUME NEW d \in Rows, Expire(d)
      PROVE  \A s : Owners(s) \subseteq Owners(s)'
  <2>1. rows[d] \in Binding
    BY <1>0, <1>2, LiveIsBinding DEF Expire
  <2>2. /\ rows'[d].live = rows[d].live /\ rows'[d].role = rows[d].role
        /\ rows'[d].scope = rows[d].scope
        /\ \A x \in Rows \ {d} : rows'[x] = rows[x]
    BY <1>0, <1>2, <2>1 DEF Expire, TypeOK, Binding
  <2> QED
    BY <2>2 DEF Owners, Live
<1>3. ASSUME NEW c \in Calls, Insert(c)
      PROVE  \A s : Owners(s) \subseteq Owners(s)'
  <2>1. \A x \in Rows : Live(x) => rows'[x] = rows[x]
    BY <1>0, <1>3 DEF Insert, Live, NoRow, TypeOK
  <2> QED
    BY <2>1 DEF Owners, Live
<1>4. ASSUME NEW c \in Calls, Reading(c)
      PROVE  rows' = rows
  BY <1>4, ReadingStep
<1> QED
  BY <1>1, <1>2, <1>3, <1>4
     DEF Next, Reading, Request, CheckLastOwner, FindForRevoke, Fail, vars

\* An organization that loses its last owner loses it to a revocation that had
\* counted an owner revoked since: RevokeRole's count outside of its transaction
\* gives way to nothing but other requests that overtake it, however many run at
\* once.  org_owner is a role of organizations (defaultRoles).
THEOREM LastOwnerNeedsRace ==
  ASSUME IsFiniteSet(Rows), RoleScope["org_owner"] = "organization"
  PROVE  Spec => LastOwnerLostInRace
<1>1. Init => RowsWithin /\ CallsSound /\ AllInformed
  BY InitWithin DEF Init, AllInformed, Informed, Idle
<1>2. Typed /\ RowsWithin /\ CallsSound /\ [Next]_vars
        => RowsWithin' /\ CallsSound'
  BY StepRowsWithin, StepCallsSound
<1>3. Typed /\ CallsSound /\ AllInformed /\ [Next]_vars => AllInformed'
  BY StepInformed
<1>4. Typed /\ AllInformed /\ [Next]_vars => [OvertakenAtLast]_vars
  <2> SUFFICES ASSUME Typed, AllInformed, [Next]_vars
               PROVE  OvertakenAtLast
    OBVIOUS
  <2>1. ASSUME NEW c \in Calls, SoftDelete(c)
        PROVE  OvertakenAtLast
    <3>1. At(c, "delete") /\ At(c, "idle")'
      BY <2>1 DEF SoftDelete, At, Finish, Idle, Typed, TypeOK
    <3> QED
      BY <2>1, <3>1, DeletionOvertaken DEF OvertakenAtLast
  <2>2. CASE \A c \in Calls : ~ SoftDelete(c)
    <3>1. \A s : Owners(s) \subseteq Owners(s)'
      BY <2>2, OwnersOfStep
    <3> QED BY <3>1 DEF OvertakenAtLast
  <2> QED BY <2>1, <2>2
<1> QED
  BY <1>1, <1>2, <1>3, <1>4, TypedAlways, PTL DEF Spec, LastOwnerLostInRace
=============================================================================
