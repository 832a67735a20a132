--------------------------- MODULE Accounts_proofs ---------------------------
(***************************************************************************)
(* Theorems about Accounts, for any number of rows, instances and requests *)
(* and any clock: who is administrator, what a password and an access      *)
(* token let in, and that whom a company JWT names is found.               *)
(***************************************************************************)
EXTENDS Accounts, WellFoundedInduction, TLAPS

-----------------------------------------------------------------------------
(* The inductive invariant *)

ExternalIds == ({"email"} \X Emails) \cup ({"staff"} \X Staff) \cup ({"id"} \X Ids)
UserRow ==
  [ext : ExternalIds, email : Emails \cup {NoEmail}, source : {"password", "jwt"},
   pw : Passwords \cup {NoPassword}, tva : Nat, admin : BOOLEAN, asked : Nat, created : Nat]
PatRow == [user : Ids, expires : Int, deleted : Nat]
Places == {"start", "failed", "grant", "commit", "reread", "verify", "begin", "update",
           "insert", "expiry"}
InFlight ==
  [pc : Places, inst : Instances, req : Requests, at : Nat, id : Ids \cup Pats \cup {0},
   draft : UserRow \cup {Absent}, read : UserRow \cup {Absent}, begun : Nat, audit : BOOLEAN]

TypeOK ==
  /\ now \in 0 .. MaxTime
  /\ sysRole \in BOOLEAN
  /\ inst \in [Instances -> {"down", "data", "ready", "up"}]
  /\ users \in [Ids -> UserRow \cup {Absent}]
  /\ audits \subseteq Ids
  /\ pats \in [Pats -> PatRow \cup {Absent}]
  /\ call \in [Calls -> InFlight \cup {Idle}]
  /\ asked \in Nat
  /\ tokens \subseteq [op : {"login", "register"}, user : Ids, pw : Passwords, at : Nat, iat : Nat]
  /\ changes \subseteq [user : Ids, old : Passwords \cup {NoPassword}, new : Passwords,
                        begun : Nat, committed : Nat]
  /\ entered \subseteq [pat : Pats, at : Nat]

\* What a request in flight knows, by the place it is at.
Serving(q) ==
  /\ sysRole /\ q.at <= now
  /\ q.pc \in {"grant", "commit", "reread"} => q.req.op = "register"
  /\ q.pc = "verify" => q.req.op = "login" /\ q.id \in Rows /\ q.read \in UserRow
  /\ q.pc \in {"begin", "update"} => q.req.op = "change" /\ q.id \in Rows
  /\ q.pc = "insert" => q.req.op = "jwt"
  /\ q.pc = "expiry" => q.req.op = "pat" /\ q.id \in Pats /\ pats[q.id] # Absent
  /\ q.pc \in {"grant", "commit"} =>
       /\ q.id \in Ids \ Rows
       /\ q.draft \in UserRow /\ q.draft.source = "password" /\ q.draft.asked = q.at

Served ==
  /\ \A i \in Instances : inst[i] # "down" => sysRole
  /\ \A c \in Calls : call[c] # Idle => Serving(call[c])
  /\ \A c, d \in Calls : c # d /\ Inserting(c) /\ Inserting(d) => call[c].id # call[d].id
  /\ \A u \in Rows : users[u].asked <= now

\* What AutoGrant has found stays so until the commit.
Granted(q) ==
  q.pc = "commit" =>
    IF q.draft.admin THEN q.audit /\ \A v \in Rows : users[v].created >= q.at ELSE Rows # {}
AdminSound ==
  /\ FirstIsAdmin
  /\ \A c \in Calls : Granted(call[c])

\* A password that was read in a request that came at a time is still that of
\* its user, or a later change is the one that counts now.
Followed(u, pw, at) ==
  \/ users[u].pw = pw
  \/ \E ch \in changes : ch.user = u /\ ch.begun = users[u].tva /\ at <= ch.committed
SetAgain(u, pw, at, by) ==
  \A ch \in changes : ch.user = u /\ ch.old = pw /\ ch.committed < at =>
    \E d \in changes : /\ d.user = u /\ d.new = pw
                       /\ ch.committed <= d.committed /\ d.committed <= by
Bought(u, pw, at, by) == u \in Rows /\ at <= by /\ by <= now /\ Followed(u, pw, at) /\ SetAgain(u, pw, at, by)

PasswordsSound ==
  /\ \A ch \in changes : ch.user \in Rows /\ ch.committed <= now
  /\ \A u \in Rows : SetAgain(u, users[u].pw, now + 1, now)
  /\ \A t \in tokens : t.op = "login" => Bought(t.user, t.pw, t.at, t.iat)
  /\ \A c \in Calls : At(c, "verify") => Bought(call[c].id, call[c].read.pw, call[c].at, now)

\* An access token that was found was not deleted when the request came.
PatsSound ==
  /\ \A c \in Calls : At(c, "expiry") => pats[call[c].id].deleted >= call[c].at
  /\ \A e \in entered : /\ pats[e.pat] # Absent /\ e.at <= now
                        /\ pats[e.pat].deleted >= e.at /\ pats[e.pat].expires >= e.at

\* Whom FindJWTUser has not found was not there when the request came.
NewcomersOnly ==
  \A c \in Calls : call[c].pc \in {"insert", "failed"} /\ Req(c).op = "jwt" =>
    \A u \in WithExternalId(<<"staff", Req(c).staff>>) : users[u].created >= call[c].at

-----------------------------------------------------------------------------
(* What requests and rows are made of *)

\* A row is not the mark of one that is missing, nor a request one that waits.
LEMMA RowsAreRows ==
  /\ \A r \in UserRow : r # Absent
  /\ \A r \in PatRow : r # Absent
  /\ \A q \in InFlight : q # Idle
<1>1. \A r \in UserRow : r # Absent
  BY DEF UserRow, Absent
<1>2. \A r \in PatRow : r # Absent
  BY DEF PatRow, Absent
<1>3. \A q \in InFlight : q # Idle
  <2>1. Idle.pc = "idle"
    BY DEF Idle
  <2>2. \A q \in InFlight : q.pc \in Places
    BY DEF InFlight
  <2> QED BY <2>1, <2>2 DEF Places
<1> QED BY <1>1, <1>2, <1>3

\* What comes with a request of each kind.
LEMMA RequestTyped ==
  ASSUME NEW r \in Requests
  PROVE  /\ r.op \in {"register", "login"} => r.email \in Emails /\ r.pw \in Passwords
         /\ r.op = "change" => r.old \in Passwords /\ r.pw \in Passwords
         /\ r.op = "jwt" => r.staff \in Staff /\ r.email \in Emails \cup {NoEmail}
         /\ r.op = "grant" => r.email \in Emails \cup {NoEmail}
         /\ r.op = "patCreate" => r.expires \in Nat
BY AccountsAssumption

\* The clock shows numbers, and the configured id is one of a row.
LEMMA ClockIsNumber ==
  ASSUME TypeOK
  PROVE  now \in Nat /\ BootstrapId \in Ids
<1>1. MaxTime \in Nat /\ BootstrapId \in Ids
  BY AccountsAssumption
<1> QED BY <1>1 DEF TypeOK

\* A new row is one, and has what it is made of.
LEMMA PasswordUserTyped ==
  ASSUME TypeOK, NEW ext \in ExternalIds, NEW email \in Emails, NEW pw \in Passwords,
         NEW since \in Nat
  PROVE  /\ User(ext, email, "password", pw, since) \in UserRow
         /\ User(ext, email, "password", pw, since).source = "password"
         /\ User(ext, email, "password", pw, since).asked = since
<1>1. now \in Nat
  BY ClockIsNumber
<1> QED BY <1>1 DEF User, UserRow

LEMMA CompanyUserTyped ==
  ASSUME TypeOK, NEW ext \in ExternalIds, NEW email \in Emails \cup {NoEmail}, NEW since \in Nat
  PROVE  /\ User(ext, email, "jwt", NoPassword, since) \in UserRow
         /\ User(ext, email, "jwt", NoPassword, since).source = "jwt"
         /\ User(ext, email, "jwt", NoPassword, since).asked = since
         /\ User(ext, email, "jwt", NoPassword, since).created = now
<1>1. now \in Nat
  BY ClockIsNumber
<1> QED BY <1>1 DEF User, UserRow

\* External identifiers are told apart by where they come from.
LEMMA ExternalTyped ==
  /\ \A e \in Emails : <<"email", e>> \in ExternalIds
  /\ \A s \in Staff : <<"staff", s>> \in ExternalIds
  /\ \A u \in Ids : <<"id", u>> \in ExternalIds
BY DEF ExternalIds

\* A request that is somewhere is in flight.
LEMMA Requested ==
  ASSUME TypeOK, NEW c \in Calls, call[c].pc # "idle"
  PROVE  call[c] \in InFlight /\ call[c].req \in Requests /\ call[c].at \in Nat
<1>1. call[c] \in InFlight
  BY DEF TypeOK, Idle
<1> QED BY <1>1 DEF InFlight

\* The least of some numbers is one of them.
Descends == {pair \in Nat \X Nat : pair[1] < pair[2]}

LEMMA LeastIn ==
  ASSUME NEW S \in SUBSET Nat, S # {}
  PROVE  Least(S) \in S
<1>1. IsWellFoundedOn(Descends, Nat)
  <2>1. Descends = OpToRel(<, Nat)
    BY DEF Descends, OpToRel
  <2> QED BY <2>1, NatLessThanWellFounded
<1>2. PICK n \in S : \A m \in S : ~ (<<m, n>> \in Descends)
  BY <1>1, WFMin
<1>3. \A m \in S : n <= m
  <2> SUFFICES ASSUME NEW m \in S
               PROVE  n <= m
    OBVIOUS
  <2>1. <<m, n>> \in Nat \X Nat
    OBVIOUS
  <2>2. m < n => <<m, n>> \in Descends
    BY <2>1 DEF Descends
  <2> QED BY <1>2, <2>2
<1> QED BY <1>3 DEF Least

\* An id that is free is that of no row, of no row to come, and not the
\* configured one.
LEMMA LeastFree ==
  ASSUME Free # {}
  PROVE  Least(Free) \in Free
<1>1. Free \in SUBSET Nat
  BY AccountsAssumption DEF Free
<1> QED BY <1>1, LeastIn

-----------------------------------------------------------------------------
(* Type correctness *)

\* A handler that goes on, or ends, leaves requests in flight.
LEMMA CallTyped ==
  ASSUME TypeOK, NEW c \in Calls, NEW q \in InFlight \cup {Idle}, call' = [call EXCEPT ![c] = q]
  PROVE  call' \in [Calls -> InFlight \cup {Idle}]
BY DEF TypeOK

LEMMA MoveTyped ==
  ASSUME TypeOK, NEW c \in Calls, call[c].pc # "idle", NEW p \in Places, Move(c, p)
  PROVE  call' \in [Calls -> InFlight \cup {Idle}]
<1>1. call[c] \in InFlight
  BY Requested
<1>2. [call[c] EXCEPT !.pc = p] \in InFlight
  BY <1>1 DEF InFlight
<1>3. call' = [call EXCEPT ![c] = [call[c] EXCEPT !.pc = p]]
  BY DEF Move
<1> QED BY <1>2, <1>3, CallTyped

LEMMA FinishTyped ==
  ASSUME TypeOK, NEW c \in Calls, Finish(c)
  PROVE  call' \in [Calls -> InFlight \cup {Idle}]
BY CallTyped DEF Finish

LEMMA FailTyped ==
  ASSUME TypeOK, NEW c \in Calls, call[c].pc # "idle", Fail(c)
  PROVE  call' \in [Calls -> InFlight \cup {Idle}]
BY MoveTyped DEF Fail, Places

\* The rows with one more, or one written anew.
LEMMA RowTyped ==
  ASSUME TypeOK, NEW u \in Ids, NEW r \in UserRow, users' = [users EXCEPT ![u] = r]
  PROVE  users' \in [Ids -> UserRow \cup {Absent}]
BY DEF TypeOK

\* A row that is put into the table is a row.
LEMMA UpsertedTyped ==
  ASSUME TypeOK, NEW u \in Ids, NEW email \in Emails \cup {NoEmail}, NEW since \in Nat
  PROVE  Upserted(u, email, since) \in UserRow
<1>1. User(<<"id", u>>, email, "jwt", NoPassword, since) \in UserRow
  <2>1. <<"id", u>> \in ExternalIds
    BY ExternalTyped
  <2> QED BY <2>1, CompanyUserTyped
<1>2. u \in Rows => users[u] \in UserRow
  BY DEF Rows, TypeOK
<1>3. u \in Rows => Upserted(u, email, since) \in UserRow
  BY <1>2 DEF Upserted, UserRow
<1> QED BY <1>1, <1>3 DEF Upserted

\* The steps of an instance keep the types.
LEMMA RunTyped ==
  ASSUME TypeOK, NEW i \in Instances,
         EnsureSystemData(i) \/ EnsureBootstrapAdmin(i) \/ ListenAndServe(i) \/ Crash(i)
  PROVE  TypeOK'
<1>1. CASE EnsureSystemData(i)
  BY <1>1 DEF EnsureSystemData, Goes, history, TypeOK
<1>2. CASE EnsureBootstrapAdmin(i)
  <2> DEFINE Old == Upserted(BootstrapId, NoEmail, now)
             New == [Old EXCEPT !.admin = TRUE]
  <2>1. Old \in UserRow
    BY ClockIsNumber, UpsertedTyped
  <2>2. New \in UserRow
    <3> HIDE DEF Old
    <3> QED BY <2>1 DEF UserRow
  <2>3. users' = users \/ users' = [users EXCEPT ![BootstrapId] = New]
    BY <1>2 DEF EnsureBootstrapAdmin
  <2>4. users' \in [Ids -> UserRow \cup {Absent}]
    <3> HIDE DEF New
    <3> QED BY <2>2, <2>3, RowTyped, ClockIsNumber DEF TypeOK
  <2> QED BY <1>2, <2>4 DEF EnsureBootstrapAdmin, Goes, history, TypeOK
<1>3. CASE ListenAndServe(i)
  BY <1>3 DEF ListenAndServe, history, TypeOK
<1>4. CASE Crash(i)
  BY <1>4 DEF Crash, history, TypeOK
<1> QED BY <1>1, <1>2, <1>3, <1>4

\* So do those of a registration.
LEMMA RegisterTyped ==
  ASSUME TypeOK, NEW c \in Calls,
         Register(c) \/ AutoGrant(c) \/ CreatePasswordUser(c) \/ Registered(c),
         call[c] # Idle => Serving(call[c])
  PROVE  TypeOK'
<1>1. call[c] \in InFlight /\ call[c].req \in Requests /\ call[c].at \in Nat
  <2>1. call[c].pc # "idle"
    BY DEF Register, AutoGrant, CreatePasswordUser, Registered, Op, At
  <2> QED BY <2>1, Requested
<1>2. Serving(call[c])
  BY <1>1, RowsAreRows
<1>3. CASE Register(c)
  <2> DEFINE row == User(<<"email", Req(c).email>>, Req(c).email, "password", Req(c).pw, call[c].at)
  <2>1. Req(c).email \in Emails /\ Req(c).pw \in Passwords
    BY <1>1, <1>3, RequestTyped DEF Register, Op, Req
  <2>2. row \in UserRow
    <3>1. <<"email", Req(c).email>> \in ExternalIds
      BY <2>1, ExternalTyped
    <3> QED BY <1>1, <2>1, <3>1, PasswordUserTyped
  <2> HIDE DEF row
  <2>3. CASE Fail(c)
    BY <1>3, <2>3, FailTyped DEF Register, Op, At, history, TypeOK
  <2>4. CASE Free # {} /\ call' = [call EXCEPT ![c].pc = "grant", ![c].id = Least(Free), ![c].draft = row]
    <3>1. Least(Free) \in Ids
      BY <2>4, LeastFree DEF Free
    <3> DEFINE q == [call[c] EXCEPT !.pc = "grant", !.id = Least(Free), !.draft = row]
    <3>2. q \in InFlight
      BY <1>1, <2>2, <3>1 DEF InFlight, Places
    <3>3. call' = [call EXCEPT ![c] = q]
      BY <2>4
    <3> HIDE DEF q
    <3>4. call' \in [Calls -> InFlight \cup {Idle}]
      BY <3>2, <3>3, CallTyped
    <3> QED BY <1>3, <3>4 DEF Register, history, TypeOK
  <2> QED BY <1>3, <2>3, <2>4 DEF Register, row
<1>4. CASE AutoGrant(c)
  <2>1. call[c].draft \in UserRow
    BY <1>2, <1>4 DEF AutoGrant, At, Serving
  <2> DEFINE d == [call[c].draft EXCEPT !.admin = sysRole /\ OnlyUser(c)]
             q == [call[c] EXCEPT !.pc = "commit", !.audit = sysRole, !.draft = d]
  <2>2. d \in UserRow
    <3>1. (sysRole /\ OnlyUser(c)) \in BOOLEAN
      OBVIOUS
    <3> QED BY <2>1, <3>1 DEF UserRow
  <2>3. q \in InFlight
    <3> HIDE DEF d
    <3> QED BY <1>1, <2>2 DEF InFlight, Places, TypeOK
  <2>4. call' = [call EXCEPT ![c] = q]
    BY <1>4 DEF AutoGrant
  <2>5. call' \in [Calls -> InFlight \cup {Idle}]
    <3> HIDE DEF q
    <3> QED BY <2>3, <2>4, CallTyped
  <2> QED BY <1>4, <2>5 DEF AutoGrant, history, TypeOK
<1>5. CASE CreatePasswordUser(c)
  <2>1. call[c].draft \in UserRow /\ call[c].id \in Ids
    BY <1>2, <1>5 DEF CreatePasswordUser, At, Serving
  <2>2. [call[c].draft EXCEPT !.created = now] \in UserRow
    BY <2>1, ClockIsNumber DEF UserRow
  <2>3. users' \in [Ids -> UserRow \cup {Absent}]
    BY <1>5, <2>1, <2>2, RowTyped DEF CreatePasswordUser
  <2>4. call' \in [Calls -> InFlight \cup {Idle}]
    BY <1>5, MoveTyped DEF CreatePasswordUser, Move, At, Places
  <2> QED BY <1>5, <2>1, <2>3, <2>4 DEF CreatePasswordUser, history, TypeOK
<1>6. CASE Registered(c)
  <2>1. Req(c).pw \in Passwords
    BY <1>1, <1>2, <1>6, RequestTyped DEF Registered, At, Serving, Req
  <2>2. call' \in [Calls -> InFlight \cup {Idle}]
    BY <1>6, FailTyped, FinishTyped DEF Registered, At
  <2>3. tokens' \subseteq [op : {"login", "register"}, user : Ids, pw : Passwords, at : Nat, iat : Nat]
    BY <1>1, <1>6, <2>1, ClockIsNumber DEF Registered, Issue, WithEmail, Rows, TypeOK
  <2> QED BY <1>6, <2>2, <2>3 DEF Registered, TypeOK
<1> QED BY <1>3, <1>4, <1>5, <1>6

\* So do those of a login and of a password change.
LEMMA PasswordTyped ==
  ASSUME TypeOK, NEW c \in Calls, call[c] # Idle => Serving(call[c]),
         \/ GetUserByEmail(c) \/ Login(c) \/ BeginUpdate(c) \/ UpdatePasswordHash(c)
         \/ \E u \in Ids : ChangePassword(c, u)
  PROVE  TypeOK'
<1>1. call[c] \in InFlight /\ call[c].req \in Requests /\ call[c].at \in Nat /\ call[c].pc # "idle"
  <2>1. call[c].pc # "idle"
    BY DEF GetUserByEmail, Login, BeginUpdate, UpdatePasswordHash, ChangePassword, Op, At
  <2> QED BY <2>1, Requested
<1>2. Serving(call[c])
  BY <1>1, RowsAreRows
<1>3. CASE GetUserByEmail(c)
  <2>1. CASE Fail(c)
    BY <1>1, <1>3, <2>1, FailTyped DEF GetUserByEmail, history, TypeOK
  <2>2. ASSUME NEW u \in WithEmail(Req(c).email),
               call' = [call EXCEPT ![c].pc = "verify", ![c].id = u, ![c].read = users[u]]
        PROVE  TypeOK'
    <3> DEFINE q == [call[c] EXCEPT !.pc = "verify", !.id = u, !.read = users[u]]
    <3>1. u \in Ids /\ users[u] \in UserRow \cup {Absent}
      BY DEF WithEmail, Rows, TypeOK
    <3>2. q \in InFlight
      BY <1>1, <3>1 DEF InFlight, Places
    <3>3. call' = [call EXCEPT ![c] = q]
      BY <2>2
    <3> HIDE DEF q
    <3>4. call' \in [Calls -> InFlight \cup {Idle}]
      BY <3>2, <3>3, CallTyped
    <3> QED BY <1>3, <3>4 DEF GetUserByEmail, history, TypeOK
  <2> QED BY <1>3, <2>1, <2>2 DEF GetUserByEmail
<1>4. CASE Login(c)
  <2>1. Req(c).pw \in Passwords
    BY <1>1, <1>4, RequestTyped DEF Login, Req
  <2>2. call' \in [Calls -> InFlight \cup {Idle}]
    BY <1>1, <1>4, FailTyped, FinishTyped DEF Login
  <2>3. call[c].id \in Ids
    BY <1>2, <1>4 DEF Login, At, Serving, Rows
  <2>4. tokens' \subseteq [op : {"login", "register"}, user : Ids, pw : Passwords, at : Nat, iat : Nat]
    BY <1>1, <1>4, <2>1, <2>3, ClockIsNumber DEF Login, Issue, TypeOK
  <2> QED BY <1>4, <2>2, <2>4 DEF Login, TypeOK
<1>5. CASE BeginUpdate(c)
  <2> DEFINE q == [call[c] EXCEPT !.pc = "update", !.begun = now]
  <2>1. q \in InFlight
    BY <1>1, ClockIsNumber DEF InFlight, Places
  <2>2. call' = [call EXCEPT ![c] = q]
    BY <1>5 DEF BeginUpdate
  <2> HIDE DEF q
  <2>3. call' \in [Calls -> InFlight \cup {Idle}]
    BY <2>1, <2>2, CallTyped
  <2> QED BY <1>5, <2>3 DEF BeginUpdate, history, TypeOK
<1>6. CASE UpdatePasswordHash(c)
  <2> DEFINE u == call[c].id
             r == [users[u] EXCEPT !.pw = Req(c).pw, !.tva = call[c].begun]
  <2>1. Req(c).pw \in Passwords
    BY <1>1, <1>2, <1>6, RequestTyped DEF UpdatePasswordHash, At, Serving, Req
  <2>2. u \in Rows
    BY <1>2, <1>6 DEF UpdatePasswordHash, At, Serving
  <2>3. u \in Ids /\ users[u] \in UserRow
    BY <2>2 DEF Rows, TypeOK
  <2>4. call[c].begun \in Nat
    BY <1>1 DEF InFlight
  <2>5. r \in UserRow
    BY <2>1, <2>3, <2>4 DEF UserRow
  <2>6. users' = [users EXCEPT ![u] = r]
    BY <1>6, <2>3 DEF UpdatePasswordHash, NewPassword
  <2>7. users' \in [Ids -> UserRow \cup {Absent}]
    <3> HIDE DEF u, r
    <3> QED BY <2>3, <2>5, <2>6, RowTyped
  <2>8. users[u].pw \in Passwords \cup {NoPassword}
    BY <2>3 DEF UserRow
  <2>9. changes' \subseteq [user : Ids, old : Passwords \cup {NoPassword}, new : Passwords,
                            begun : Nat, committed : Nat]
    BY <1>6, <2>1, <2>3, <2>4, <2>8, ClockIsNumber DEF UpdatePasswordHash, TypeOK
  <2>10. call' \in [Calls -> InFlight \cup {Idle}]
    BY <1>6, FinishTyped DEF UpdatePasswordHash
  <2> QED BY <1>6, <2>7, <2>9, <2>10 DEF UpdatePasswordHash, TypeOK
<1>7. ASSUME NEW u \in Ids, ChangePassword(c, u)
      PROVE  TypeOK'
  <2>1. CASE Fail(c)
    BY <1>1, <1>7, <2>1, FailTyped DEF ChangePassword, history, TypeOK
  <2>2. CASE call' = [call EXCEPT ![c].pc = "begin", ![c].id = u]
    <3> DEFINE q == [call[c] EXCEPT !.pc = "begin", !.id = u]
    <3>1. q \in InFlight
      BY <1>1 DEF InFlight, Places
    <3>2. call' = [call EXCEPT ![c] = q]
      BY <2>2
    <3> HIDE DEF q
    <3>3. call' \in [Calls -> InFlight \cup {Idle}]
      BY <3>1, <3>2, CallTyped
    <3> QED BY <1>7, <3>3 DEF ChangePassword, history, TypeOK
  <2> QED BY <1>7, <2>1, <2>2 DEF ChangePassword
<1> QED BY <1>3, <1>4, <1>5, <1>6, <1>7

\* So do those of company accounts.
LEMMA CompanyTyped ==
  ASSUME TypeOK, NEW c \in Calls, call[c] # Idle => Serving(call[c]),
         FindJWTUser(c) \/ EnsureJWTUser(c) \/ \E u \in Ids : GrantRole(c, u)
  PROVE  TypeOK'
<1>1. call[c] \in InFlight /\ call[c].req \in Requests /\ call[c].at \in Nat /\ call[c].pc # "idle"
  <2>1. call[c].pc # "idle"
    BY DEF FindJWTUser, EnsureJWTUser, GrantRole, Op, At
  <2> QED BY <2>1, Requested
<1>2. Serving(call[c])
  BY <1>1, RowsAreRows
<1>3. CASE FindJWTUser(c)
  BY <1>1, <1>3, MoveTyped, FinishTyped DEF FindJWTUser, Places, history, TypeOK
<1>4. CASE EnsureJWTUser(c)
  <2> DEFINE row == User(<<"staff", Req(c).staff>>, Req(c).email, "jwt", NoPassword, call[c].at)
  <2>1. Req(c).staff \in Staff /\ Req(c).email \in Emails \cup {NoEmail}
    BY <1>1, <1>2, <1>4, RequestTyped DEF EnsureJWTUser, At, Serving, Req
  <2>2. row \in UserRow
    <3>1. <<"staff", Req(c).staff>> \in ExternalIds
      BY <2>1, ExternalTyped
    <3> QED BY <1>1, <2>1, <3>1, CompanyUserTyped
  <2>3. call' \in [Calls -> InFlight \cup {Idle}]
    BY <1>1, <1>4, FailTyped, FinishTyped DEF EnsureJWTUser
  <2>4. users' = users \/ (Free # {} /\ users' = [users EXCEPT ![Least(Free)] = row])
    BY <1>4 DEF EnsureJWTUser
  <2>5. Free # {} => Least(Free) \in Ids
    BY LeastFree DEF Free
  <2> HIDE DEF row
  <2>6. users' \in [Ids -> UserRow \cup {Absent}]
    BY <2>2, <2>4, <2>5, RowTyped DEF TypeOK
  <2> QED BY <1>4, <2>3, <2>6 DEF EnsureJWTUser, history, TypeOK
<1>5. ASSUME NEW u \in Ids, GrantRole(c, u)
      PROVE  TypeOK'
  <2> DEFINE row == Upserted(u, Req(c).email, call[c].at)
  <2>1. Req(c).email \in Emails \cup {NoEmail}
    BY <1>1, <1>5, RequestTyped DEF GrantRole, Op, Req
  <2>2. row \in UserRow
    BY <1>1, <2>1, UpsertedTyped
  <2>3. call' \in [Calls -> InFlight \cup {Idle}]
    BY <1>1, <1>5, FailTyped, FinishTyped DEF GrantRole
  <2>4. users' = users \/ users' = [users EXCEPT ![u] = row]
    BY <1>5 DEF GrantRole
  <2> HIDE DEF row
  <2>5. users' \in [Ids -> UserRow \cup {Absent}]
    BY <2>2, <2>4, RowTyped DEF TypeOK
  <2> QED BY <1>5, <2>3, <2>5 DEF GrantRole, history, TypeOK
<1> QED BY <1>3, <1>4, <1>5

\* So do those of access tokens.
LEMMA PatTyped ==
  ASSUME TypeOK, NEW c \in Calls, call[c] # Idle => Serving(call[c]),
         \/ \E u \in Ids, p \in Pats : CreatePAT(c, u, p) \/ SoftDeleteToken(c, u, p)
         \/ \E p \in Pats : FindPAT(c, p)
         \/ ValidatePAT(c)
  PROVE  TypeOK'
<1>1. call[c] \in InFlight /\ call[c].req \in Requests /\ call[c].at \in Nat /\ call[c].pc # "idle"
  <2>1. call[c].pc # "idle"
    BY DEF CreatePAT, SoftDeleteToken, FindPAT, ValidatePAT, Op, At
  <2> QED BY <2>1, Requested
<1>2. ASSUME NEW u \in Ids, NEW p \in Pats, CreatePAT(c, u, p)
      PROVE  TypeOK'
  <2>1. Req(c).expires \in Nat
    BY <1>1, <1>2, RequestTyped DEF CreatePAT, Op, Req
  <2>2. Never \in Nat
    BY AccountsAssumption DEF Never
  <2>3. [user |-> u, expires |-> Req(c).expires, deleted |-> Never] \in PatRow
    BY <2>1, <2>2 DEF PatRow
  <2>4. pats' \in [Pats -> PatRow \cup {Absent}]
    BY <1>2, <2>3 DEF CreatePAT, TypeOK
  <2> QED BY <1>2, <2>4, FinishTyped DEF CreatePAT, history, TypeOK
<1>3. ASSUME NEW u \in Ids, NEW p \in Pats, SoftDeleteToken(c, u, p)
      PROVE  TypeOK'
  <2>1. pats[p] \in PatRow
    BY <1>3 DEF SoftDeleteToken, TypeOK
  <2>2. [pats[p] EXCEPT !.deleted = now] \in PatRow
    BY <2>1, ClockIsNumber DEF PatRow
  <2>3. pats' = pats \/ pats' = [pats EXCEPT ![p] = [pats[p] EXCEPT !.deleted = now]]
    BY <1>3 DEF SoftDeleteToken
  <2>4. pats' \in [Pats -> PatRow \cup {Absent}]
    BY <2>2, <2>3 DEF TypeOK
  <2>5. call' \in [Calls -> InFlight \cup {Idle}]
    BY <1>1, <1>3, FailTyped, FinishTyped DEF SoftDeleteToken
  <2> QED BY <1>3, <2>4, <2>5 DEF SoftDeleteToken, history, TypeOK
<1>4. ASSUME NEW p \in Pats, FindPAT(c, p)
      PROVE  TypeOK'
  <2>1. CASE Fail(c)
    BY <1>1, <1>4, <2>1, FailTyped DEF FindPAT, history, TypeOK
  <2>2. CASE call' = [call EXCEPT ![c].pc = "expiry", ![c].id = p]
    <3> DEFINE q == [call[c] EXCEPT !.pc = "expiry", !.id = p]
    <3>1. q \in InFlight
      BY <1>1 DEF InFlight, Places
    <3>2. call' = [call EXCEPT ![c] = q]
      BY <2>2
    <3> HIDE DEF q
    <3>3. call' \in [Calls -> InFlight \cup {Idle}]
      BY <3>1, <3>2, CallTyped
    <3> QED BY <1>4, <3>3 DEF FindPAT, history, TypeOK
  <2> QED BY <1>4, <2>1, <2>2 DEF FindPAT
<1>5. CASE ValidatePAT(c)
  <2>1. call' \in [Calls -> InFlight \cup {Idle}]
    BY <1>1, <1>5, FailTyped, FinishTyped DEF ValidatePAT
  <2>2. call[c] # Idle
    BY <1>1, RowsAreRows
  <2>3. call[c].id \in Pats
    BY <1>5, <2>2 DEF ValidatePAT, At, Serving
  <2>4. entered' \subseteq [pat : Pats, at : Nat]
    BY <1>1, <1>5, <2>3 DEF ValidatePAT, TypeOK
  <2> QED BY <1>5, <2>1, <2>4 DEF ValidatePAT, TypeOK
<1> QED BY <1>2, <1>3, <1>4, <1>5

\* And so does every step.
LEMMA TypeStep ==
  ASSUME TypeOK, Served, [Next]_vars
  PROVE  TypeOK'
<1>1. CASE UNCHANGED vars
  BY <1>1 DEF vars, TypeOK
<1>2. CASE Tick
  <2>1. MaxTime \in Nat
    BY AccountsAssumption
  <2> QED BY <1>2, <2>1 DEF Tick, history, TypeOK
<1>3. \A c \in Calls : call[c] # Idle => Serving(call[c])
  BY DEF Served
<1>4. ASSUME NEW c \in Calls, NEW i \in Instances, NEW r \in Requests, Begin(c, i, r)
      PROVE  TypeOK'
  <2> DEFINE q == [pc |-> "start", inst |-> i, req |-> r, at |-> now, id |-> 0, draft |-> Absent,
                   read |-> Absent, begun |-> 0, audit |-> FALSE]
  <2>1. q \in InFlight
    BY ClockIsNumber DEF InFlight, Places
  <2>2. call' = [call EXCEPT ![c] = q]
    BY <1>4 DEF Begin
  <2> HIDE DEF q
  <2>3. call' \in [Calls -> InFlight \cup {Idle}]
    BY <2>1, <2>2, CallTyped
  <2>4. asked' \in Nat
    BY <1>4 DEF Begin, TypeOK
  <2> QED BY <1>4, <2>3, <2>4 DEF Begin, history, TypeOK
<1>5. ASSUME NEW c \in Calls, Leave(c)
      PROVE  TypeOK'
  <2>1. call' \in [Calls -> InFlight \cup {Idle}]
    BY <1>5, CallTyped DEF Leave
  <2> QED BY <1>5, <2>1 DEF Leave, history, TypeOK
<1> QED
  BY <1>1, <1>2, <1>3, <1>4, <1>5, RunTyped, RegisterTyped, PasswordTyped, CompanyTyped, PatTyped
     DEF Next

-----------------------------------------------------------------------------
(* What a step does to the rows *)

\* A row comes with the time of now, and one with a password by a registration;
\* nobody about to commit has its id, but who commits it.
Commits(c, u, r) ==
  /\ CreatePasswordUser(c) /\ u = call[c].id
  /\ r = [call[c].draft EXCEPT !.created = now]
Adds(u, r) ==
  /\ u \in Ids \ Rows /\ r \in UserRow /\ users' = [users EXCEPT ![u] = r]
  /\ r.source = "password" => \E c \in Calls : Commits(c, u, r)
  /\ r.created = now /\ r.asked <= now
  /\ \A d \in Calls : Inserting(d) /\ call[d].id = u => ~ Inserting(d)'

\* A row that is written anew stays the row of its user.
Edits(u, r) ==
  /\ u \in Rows /\ r \in UserRow /\ users' = [users EXCEPT ![u] = r]
  /\ r.ext = users[u].ext /\ r.source = users[u].source
  /\ r.asked = users[u].asked /\ r.created = users[u].created
  /\ users[u].admin => r.admin
  /\ r.admin => users[u].admin \/ u = BootstrapId

SamePassword(u, r) == r.pw = users[u].pw /\ r.tva = users[u].tva

Writes ==
  /\ users' = users \/ \E u \in Ids, r \in UserRow : Adds(u, r) \/ Edits(u, r)
  /\ (\A c \in Calls : ~ UpdatePasswordHash(c)) =>
       users' = users \/ \E u \in Ids, r \in UserRow : Adds(u, r) \/ (Edits(u, r) /\ SamePassword(u, r))

LEMMA BootstrapWrites ==
  ASSUME TypeOK, NEW i \in Instances, EnsureBootstrapAdmin(i)
  PROVE  Writes
<1> DEFINE User0 == User(<<"id", BootstrapId>>, NoEmail, "jwt", NoPassword, now)
<1>1. BootstrapId \in Ids /\ now \in Nat
  BY ClockIsNumber
<1>2. User0 \in UserRow /\ User0.created = now /\ User0.asked = now /\ User0.source = "jwt"
  <2>1. <<"id", BootstrapId>> \in ExternalIds /\ NoEmail \in Emails \cup {NoEmail}
    BY <1>1, ExternalTyped
  <2> QED BY <1>1, <2>1, CompanyUserTyped
<1>3. CASE BootstrapId \in Rows
  <2> DEFINE r == [users[BootstrapId] EXCEPT !.admin = TRUE]
  <2>1. users[BootstrapId] \in UserRow
    BY <1>3 DEF Rows, TypeOK
  <2>2. /\ r \in UserRow /\ r.ext = users[BootstrapId].ext /\ r.source = users[BootstrapId].source
        /\ r.asked = users[BootstrapId].asked /\ r.created = users[BootstrapId].created
        /\ r.admin /\ SamePassword(BootstrapId, r)
    BY <2>1 DEF UserRow, SamePassword
  <2>3. users' = users \/ users' = [users EXCEPT ![BootstrapId] = r]
    <3>1. Upserted(BootstrapId, NoEmail, now) = users[BootstrapId]
      BY <1>3, <2>1 DEF Upserted, UserRow
    <3> QED BY <3>1 DEF EnsureBootstrapAdmin
  <2> HIDE DEF r
  <2>4. users' = users \/ (Edits(BootstrapId, r) /\ SamePassword(BootstrapId, r))
    BY <1>3, <2>2, <2>3 DEF Edits
  <2> QED BY <1>1, <2>2, <2>4 DEF Writes
<1>4. CASE BootstrapId \notin Rows
  <2> DEFINE r == [User0 EXCEPT !.admin = TRUE]
  <2>1. r \in UserRow /\ r.created = now /\ r.asked = now /\ r.source = "jwt"
    <3> HIDE DEF User0
    <3> QED BY <1>2 DEF UserRow
  <2>2. \/ users' = users
        \/ BootstrapId \in Free /\ users' = [users EXCEPT ![BootstrapId] = r]
    BY <1>1, <1>4 DEF EnsureBootstrapAdmin, Upserted
  <2> HIDE DEF r
  <2>3. users' = users \/ Adds(BootstrapId, r)
    BY <1>1, <1>4, <2>1, <2>2 DEF Adds, Free
  <2> QED BY <1>1, <2>1, <2>3 DEF Writes
<1> QED BY <1>3, <1>4

LEMMA CommitWrites ==
  ASSUME TypeOK, Served, NEW c \in Calls, CreatePasswordUser(c)
  PROVE  \E r \in UserRow : Adds(call[c].id, r)
<1> DEFINE u == call[c].id
           r == [call[c].draft EXCEPT !.created = now]
<1>1. call[c].pc = "commit" /\ call[c].pc # "idle"
  BY DEF CreatePasswordUser, At
<1>2. call[c] \in InFlight /\ call[c] # Idle /\ call[c].at \in Nat
  BY <1>1, Requested, RowsAreRows
<1>3. Serving(call[c])
  BY <1>2 DEF Served
<1>4. u \in Ids \ Rows /\ call[c].draft \in UserRow /\ call[c].draft.asked <= now
  BY <1>1, <1>3 DEF Serving
<1>5. r \in UserRow /\ r.created = now /\ r.asked = call[c].draft.asked
  BY <1>4, ClockIsNumber DEF UserRow
<1>6. users' = [users EXCEPT ![u] = r] /\ call' = [call EXCEPT ![c].pc = "reread"]
  BY DEF CreatePasswordUser
<1>7. ~ Inserting(c)'
  BY <1>2, <1>6 DEF Inserting, TypeOK, InFlight
<1>8. \A d \in Calls : Inserting(d) /\ call[d].id = u => d = c
  BY <1>1 DEF Served, Inserting
<1>9. \A d \in Calls : Inserting(d) /\ call[d].id = u => ~ Inserting(d)'
  BY <1>7, <1>8
<1>10. Commits(c, u, r)
  BY DEF Commits
<1> HIDE DEF u, r
<1>11. Adds(u, r)
  BY <1>4, <1>5, <1>6, <1>9, <1>10 DEF Adds
<1> QED BY <1>5, <1>11 DEF u

LEMMA PasswordWrites ==
  ASSUME TypeOK, Served, NEW c \in Calls, UpdatePasswordHash(c)
  PROVE  \E r \in UserRow : /\ Edits(call[c].id, r)
                            /\ r.pw = Req(c).pw /\ r.tva = call[c].begun
<1> DEFINE u == call[c].id
           r == [users[u] EXCEPT !.pw = Req(c).pw, !.tva = call[c].begun]
<1>1. call[c].pc = "update" /\ call[c].pc # "idle"
  BY DEF UpdatePasswordHash, At
<1>2. call[c] \in InFlight /\ call[c] # Idle /\ call[c].req \in Requests
  BY <1>1, Requested, RowsAreRows
<1>3. Serving(call[c])
  BY <1>2 DEF Served
<1>4. u \in Rows /\ users[u] \in UserRow /\ call[c].begun \in Nat
  BY <1>1, <1>2, <1>3 DEF Serving, Rows, TypeOK, InFlight
<1>5. Req(c).pw \in Passwords
  BY <1>1, <1>2, <1>3, RequestTyped DEF Serving, Req
<1>6. /\ r \in UserRow /\ r.ext = users[u].ext /\ r.source = users[u].source
      /\ r.asked = users[u].asked /\ r.created = users[u].created
      /\ r.admin = users[u].admin /\ r.pw = Req(c).pw /\ r.tva = call[c].begun
  BY <1>4, <1>5 DEF UserRow
<1>7. users' = [users EXCEPT ![u] = r]
  BY DEF UpdatePasswordHash, NewPassword
<1> HIDE DEF u, r
<1>8. Edits(u, r)
  BY <1>4, <1>6, <1>7 DEF Edits
<1> QED BY <1>6, <1>8 DEF u, r

LEMMA CompanyWrites ==
  ASSUME TypeOK, Served, NEW c \in Calls, EnsureJWTUser(c)
  PROVE  users' = users \/ \E u \in Ids, r \in UserRow : Adds(u, r)
<1> DEFINE row == User(<<"staff", Req(c).staff>>, Req(c).email, "jwt", NoPassword, call[c].at)
<1>1. call[c].pc = "insert" /\ call[c].pc # "idle"
  BY DEF EnsureJWTUser, At
<1>2. call[c] \in InFlight /\ call[c] # Idle /\ call[c].req \in Requests /\ call[c].at \in Nat
  BY <1>1, Requested, RowsAreRows
<1>3. Serving(call[c])
  BY <1>2 DEF Served
<1>4. Req(c).staff \in Staff /\ Req(c).email \in Emails \cup {NoEmail}
  BY <1>1, <1>2, <1>3, RequestTyped DEF Serving, Req
<1>5. row \in UserRow /\ row.created = now /\ row.asked = call[c].at /\ row.source = "jwt"
  <2>1. <<"staff", Req(c).staff>> \in ExternalIds
    BY <1>4, ExternalTyped
  <2> QED BY <1>2, <1>4, <2>1, CompanyUserTyped
<1>6. users' = users \/ (Free # {} /\ users' = [users EXCEPT ![Least(Free)] = row])
  BY DEF EnsureJWTUser
<1>7. ASSUME Free # {} /\ users' = [users EXCEPT ![Least(Free)] = row]
      PROVE  Least(Free) \in Ids /\ Adds(Least(Free), row)
  <2>1. Least(Free) \in Free
    BY <1>7, LeastFree
  <2>2. /\ Least(Free) \in Ids \ Rows
        /\ \A d \in Calls : Inserting(d) => call[d].id # Least(Free)
    BY <2>1 DEF Free
  <2> HIDE DEF row
  <2> QED BY <1>3, <1>5, <1>7, <2>2 DEF Adds, Serving
<1> HIDE DEF row
<1> QED BY <1>5, <1>6, <1>7

LEMMA GrantWrites ==
  ASSUME TypeOK, Served, NEW c \in Calls, NEW u \in Ids, GrantRole(c, u)
  PROVE  users' = users \/ \E r \in UserRow : Adds(u, r) \/ (Edits(u, r) /\ SamePassword(u, r))
<1> DEFINE new == User(<<"id", u>>, Req(c).email, "jwt", NoPassword, call[c].at)
           email == IF Req(c).email = NoEmail THEN users[u].email ELSE Req(c).email
           old == [users[u] EXCEPT !.email = email]
<1>1. call[c].pc = "start" /\ call[c].pc # "idle" /\ Req(c).op = "grant"
  BY DEF GrantRole, Op, At, Req
<1>2. call[c] \in InFlight /\ call[c] # Idle /\ call[c].req \in Requests /\ call[c].at \in Nat
  BY <1>1, Requested, RowsAreRows
<1>3. Serving(call[c])
  BY <1>2 DEF Served
<1>4. Req(c).email \in Emails \cup {NoEmail}
  BY <1>1, <1>2, RequestTyped DEF Req
<1>5. CASE u \in Rows
  <2>1. users[u] \in UserRow
    BY <1>5 DEF Rows, TypeOK
  <2>2. /\ old \in UserRow /\ old.ext = users[u].ext /\ old.source = users[u].source
        /\ old.asked = users[u].asked /\ old.created = users[u].created
        /\ old.admin = users[u].admin /\ SamePassword(u, old)
    BY <1>4, <2>1 DEF UserRow, SamePassword
  <2>3. users' = users \/ users' = [users EXCEPT ![u] = old]
    BY <1>5 DEF GrantRole, Upserted
  <2> HIDE DEF old
  <2>4. users' = users \/ Edits(u, old)
    BY <1>5, <2>2, <2>3 DEF Edits
  <2> QED BY <2>2, <2>4
<1>6. CASE u \notin Rows
  <2>1. new \in UserRow /\ new.created = now /\ new.asked = call[c].at /\ new.source = "jwt"
    <3>1. <<"id", u>> \in ExternalIds
      BY ExternalTyped
    <3> QED BY <1>2, <1>4, <3>1, CompanyUserTyped
  <2>2. users' = users \/ users' = [users EXCEPT ![u] = new]
    BY <1>6 DEF GrantRole, Upserted
  <2>3. \A d \in Calls : Inserting(d) => call[d].id # u
    BY <1>6 DEF GrantRole, Free
  <2> HIDE DEF new
  <2>4. users' = users \/ Adds(u, new)
    BY <1>3, <1>6, <2>1, <2>2, <2>3 DEF Adds, Serving
  <2> QED BY <2>1, <2>4
<1> QED BY <1>5, <1>6

\* Every step writes one row at most, and a password only as it is changed.
LEMMA StepWrites ==
  ASSUME TypeOK, Served, [Next]_vars
  PROVE  Writes
<1>1. CASE users' = users
  BY <1>1 DEF Writes
<1>2. ASSUME NEW i \in Instances, EnsureBootstrapAdmin(i)
      PROVE  Writes
  BY <1>2, BootstrapWrites
<1>3. ASSUME NEW c \in Calls, CreatePasswordUser(c)
      PROVE  Writes
  BY <1>3, CommitWrites DEF Writes, Adds
<1>4. ASSUME NEW c \in Calls, UpdatePasswordHash(c)
      PROVE  Writes
  <2>1. PICK r \in UserRow : Edits(call[c].id, r)
    BY <1>4, PasswordWrites
  <2>2. call[c].id \in Ids
    BY <2>1 DEF Edits, Rows
  <2> QED BY <1>4, <2>1, <2>2 DEF Writes
<1>5. ASSUME NEW c \in Calls, EnsureJWTUser(c)
      PROVE  Writes
  BY <1>5, CompanyWrites DEF Writes
<1>6. ASSUME NEW c \in Calls, NEW u \in Ids, GrantRole(c, u)
      PROVE  Writes
  BY <1>6, GrantWrites DEF Writes
<1>7. CASE UNCHANGED vars \/ Tick
  BY <1>1, <1>7 DEF vars, Tick
<1>8. ASSUME NEW i \in Instances, EnsureSystemData(i) \/ ListenAndServe(i) \/ Crash(i)
      PROVE  Writes
  BY <1>1, <1>8 DEF EnsureSystemData, ListenAndServe, Crash
<1>9. ASSUME NEW c \in Calls,
             \/ \E i \in Instances, r \in Requests : Begin(c, i, r)
             \/ Leave(c) \/ Register(c) \/ AutoGrant(c) \/ Registered(c)
             \/ GetUserByEmail(c) \/ Login(c) \/ BeginUpdate(c) \/ FindJWTUser(c) \/ ValidatePAT(c)
             \/ \E u \in Ids : ChangePassword(c, u)
             \/ \E u \in Ids, p \in Pats : CreatePAT(c, u, p) \/ SoftDeleteToken(c, u, p)
             \/ \E p \in Pats : FindPAT(c, p)
      PROVE  Writes
  BY <1>1, <1>9 DEF Begin, Leave, Register, AutoGrant, Registered, GetUserByEmail, Login,
     BeginUpdate, FindJWTUser, ValidatePAT, ChangePassword, CreatePAT, SoftDeleteToken, FindPAT
<1> QED BY <1>2, <1>3, <1>4, <1>5, <1>6, <1>7, <1>8, <1>9 DEF Next

\* Nobody leaves the table, or changes who he is, or stops being
\* administrator; whom a step adds it has created now.
LEMMA RowsKept ==
  ASSUME TypeOK, Writes
  PROVE  /\ \A u \in Rows : /\ u \in Rows'
                            /\ users'[u].ext = users[u].ext /\ users'[u].source = users[u].source
                            /\ users'[u].asked = users[u].asked
                            /\ users'[u].created = users[u].created
                            /\ users[u].admin => users'[u].admin
                            /\ users'[u].admin => users[u].admin \/ u = BootstrapId
         /\ \A u \in Rows' \ Rows :
              /\ users'[u].source = "password" => \E c \in Calls : Commits(c, u, users'[u])
              /\ users'[u].created = now /\ users'[u].asked <= now
              /\ \A d \in Calls : Inserting(d) /\ call[d].id = u => ~ Inserting(d)'
<1>1. CASE users' = users
  BY <1>1 DEF Rows
<1>2. ASSUME NEW u \in Ids, NEW r \in UserRow, Adds(u, r)
      PROVE  /\ \A v \in Rows : v \in Rows' /\ users'[v] = users[v]
             /\ \A v \in Rows' \ Rows : v = u /\ users'[v] = r
  BY <1>2, RowsAreRows DEF Adds, Rows, TypeOK
<1>3. ASSUME NEW u \in Ids, NEW r \in UserRow, Edits(u, r)
      PROVE  /\ \A v \in Rows : v \in Rows' /\ users'[v] = IF v = u THEN r ELSE users[v]
             /\ Rows' \ Rows = {}
  BY <1>3, RowsAreRows DEF Edits, Rows, TypeOK
<1>4. CASE \E u \in Ids, r \in UserRow : Adds(u, r)
  <2>1. PICK u \in Ids, r \in UserRow : Adds(u, r)
    BY <1>4
  <2>2. /\ \A v \in Rows : v \in Rows' /\ users'[v] = users[v]
        /\ \A v \in Rows' \ Rows : v = u /\ users'[v] = r
    BY <1>2, <2>1
  <2>3. /\ r.source = "password" => \E c \in Calls : Commits(c, u, r)
        /\ r.created = now /\ r.asked <= now
        /\ \A d \in Calls : Inserting(d) /\ call[d].id = u => ~ Inserting(d)'
    BY <2>1 DEF Adds
  <2> QED BY <2>2, <2>3
<1>5. CASE \E u \in Ids, r \in UserRow : Edits(u, r)
  <2>1. PICK u \in Ids, r \in UserRow : Edits(u, r)
    BY <1>5
  <2>2. /\ \A v \in Rows : v \in Rows' /\ users'[v] = IF v = u THEN r ELSE users[v]
        /\ Rows' \ Rows = {}
    BY <1>3, <2>1
  <2>3. /\ r.ext = users[u].ext /\ r.source = users[u].source /\ r.asked = users[u].asked
        /\ r.created = users[u].created /\ (users[u].admin => r.admin)
        /\ r.admin => users[u].admin \/ u = BootstrapId
    BY <2>1 DEF Edits
  <2> QED BY <2>2, <2>3
<1> QED BY <1>1, <1>4, <1>5 DEF Writes

\* A step that changes no password leaves all passwords, and what they revoke.
LEMMA PasswordsKept ==
  ASSUME TypeOK, Writes, \A c \in Calls : ~ UpdatePasswordHash(c)
  PROVE  \A u \in Rows : users'[u].pw = users[u].pw /\ users'[u].tva = users[u].tva
<1>1. CASE users' = users
  BY <1>1
<1>2. ASSUME NEW u \in Ids, NEW r \in UserRow, Adds(u, r) \/ (Edits(u, r) /\ SamePassword(u, r))
      PROVE  \A v \in Rows : users'[v].pw = users[v].pw /\ users'[v].tva = users[v].tva
  BY <1>2 DEF Adds, Edits, SamePassword, Rows, TypeOK
<1> QED BY <1>1, <1>2 DEF Writes

-----------------------------------------------------------------------------
(* What requests in flight know stays true *)

\* Time goes on, and neither the role nor an access token disappears.
LEMMA StepKeeps ==
  ASSUME TypeOK, [Next]_vars
  PROVE  /\ now' \in Nat /\ now <= now' /\ (sysRole => sysRole')
         /\ \A p \in Pats : pats[p] # Absent =>
              /\ pats'[p] # Absent /\ pats'[p].expires = pats[p].expires
              /\ pats'[p].deleted = pats[p].deleted \/ pats'[p].deleted = now
<1> DEFINE Stays == UNCHANGED <<now, sysRole, pats>>
<1>1. now \in Nat
  BY ClockIsNumber
<1>2. CASE Stays
  BY <1>1, <1>2
<1>3. CASE Tick
  BY <1>1, <1>3 DEF Tick
<1>4. ASSUME NEW i \in Instances, EnsureSystemData(i)
      PROVE  now' = now /\ sysRole' /\ pats' = pats
  BY <1>4 DEF EnsureSystemData
<1>5. ASSUME NEW c \in Calls, NEW u \in Ids, NEW p \in Pats, CreatePAT(c, u, p)
      PROVE  /\ now' = now /\ sysRole' = sysRole /\ pats[p] = Absent
             /\ \A q \in Pats : q # p => pats'[q] = pats[q]
  BY <1>5 DEF CreatePAT, TypeOK
<1>6. ASSUME NEW c \in Calls, NEW u \in Ids, NEW p \in Pats, SoftDeleteToken(c, u, p)
      PROVE  /\ now' = now /\ sysRole' = sysRole
             /\ \A q \in Pats : pats[q] # Absent =>
                  /\ pats'[q] # Absent /\ pats'[q].expires = pats[q].expires
                  /\ pats'[q].deleted = pats[q].deleted \/ pats'[q].deleted = now
  <2>1. now' = now /\ sysRole' = sysRole
    BY <1>6 DEF SoftDeleteToken
  <2>2. pats' = pats \/ pats' = [pats EXCEPT ![p].deleted = now]
    BY <1>6 DEF SoftDeleteToken
  <2>3. pats[p] \in PatRow
    BY <1>6 DEF SoftDeleteToken, TypeOK
  <2>4. [pats[p] EXCEPT !.deleted = now] \in PatRow
    BY <1>1, <2>3 DEF PatRow
  <2>5. /\ [pats[p] EXCEPT !.deleted = now].expires = pats[p].expires
        /\ [pats[p] EXCEPT !.deleted = now].deleted = now
    BY <2>3 DEF PatRow
  <2>6. CASE pats' = [pats EXCEPT ![p].deleted = now]
    <3>1. \A q \in Pats : pats'[q] = IF q = p THEN [pats[p] EXCEPT !.deleted = now] ELSE pats[q]
      BY <2>6 DEF TypeOK
    <3> QED BY <2>1, <2>4, <2>5, <3>1, RowsAreRows
  <2> QED BY <2>1, <2>2, <2>6
<1>7. CASE UNCHANGED vars
  BY <1>2, <1>7 DEF vars
<1>8. ASSUME NEW i \in Instances, EnsureBootstrapAdmin(i) \/ ListenAndServe(i) \/ Crash(i)
      PROVE  Stays
  BY <1>8 DEF EnsureBootstrapAdmin, ListenAndServe, Crash
<1>9. ASSUME NEW c \in Calls,
             \/ \E i \in Instances, r \in Requests : Begin(c, i, r)
             \/ Leave(c) \/ Register(c) \/ AutoGrant(c) \/ CreatePasswordUser(c) \/ Registered(c)
             \/ GetUserByEmail(c) \/ Login(c) \/ BeginUpdate(c) \/ UpdatePasswordHash(c)
             \/ FindJWTUser(c) \/ EnsureJWTUser(c) \/ ValidatePAT(c)
             \/ \E u \in Ids : ChangePassword(c, u) \/ GrantRole(c, u)
             \/ \E p \in Pats : FindPAT(c, p)
      PROVE  Stays
  BY <1>9 DEF Begin, Leave, Register, AutoGrant, CreatePasswordUser, Registered, GetUserByEmail,
     Login, BeginUpdate, UpdatePasswordHash, FindJWTUser, EnsureJWTUser, ValidatePAT,
     ChangePassword, GrantRole, FindPAT
<1> HIDE DEF Stays
<1>10. CASE Stays
  BY <1>1, <1>10 DEF Stays
<1>11. ASSUME NEW c \in Calls, NEW u \in Ids, NEW p \in Pats, CreatePAT(c, u, p)
       PROVE  \A q \in Pats : pats[q] # Absent => pats'[q] = pats[q]
  BY <1>5, <1>11
<1> QED BY <1>1, <1>3, <1>4, <1>5, <1>6, <1>7, <1>8, <1>9, <1>10, <1>11 DEF Next, Stays

\* What holds of a request in flight goes on to hold while the request waits.
LEMMA WaitingServed ==
  ASSUME TypeOK, Served, Writes, [Next]_vars,
         NEW c \in Calls, call'[c] = call[c], call[c] # Idle
  PROVE  Serving(call[c])'
<1>1. Serving(call[c]) /\ call[c] \in InFlight /\ call[c].at \in Nat
  BY DEF Served, TypeOK, InFlight
<1>2. now \in Nat /\ now' \in Nat /\ now <= now' /\ (sysRole => sysRole')
  BY ClockIsNumber, StepKeeps
<1>3. Rows \subseteq Rows'
  BY RowsKept
<1>4. call[c].id \in Pats /\ pats[call[c].id] # Absent => pats'[call[c].id] # Absent
  BY StepKeeps
<1>5. Inserting(c) => call[c].id \in Ids \ Rows'
  <2>1. Inserting(c) => call[c].id \in Ids \ Rows
    BY <1>1 DEF Serving, Inserting
  <2>2. Inserting(c) => Inserting(c)'
    BY DEF Inserting
  <2> QED BY <2>1, <2>2, RowsKept
<1> QED BY <1>1, <1>2, <1>3, <1>4, <1>5 DEF Serving, Inserting


\* A request that ends, fails, or goes on with nothing new, knows enough.
LEMMA MoveServed ==
  ASSUME TypeOK, Served, Writes, [Next]_vars, NEW c \in Calls, call[c] # Idle,
         NEW p \in Places, Move(c, p),
         \/ p \in {"start", "failed"}
         \/ p = "reread" /\ call[c].req.op = "register"
         \/ p = "insert" /\ call[c].req.op = "jwt"
  PROVE  Serving(call[c])'
<1>1. Serving(call[c]) /\ call[c] \in InFlight /\ call[c].at \in Nat
  BY DEF Served, TypeOK, InFlight
<1>2. now \in Nat /\ now' \in Nat /\ now <= now' /\ (sysRole => sysRole')
  BY ClockIsNumber, StepKeeps
<1>3. call'[c].pc = p /\ call'[c].at = call[c].at /\ call'[c].req = call[c].req
  BY <1>1 DEF Move, TypeOK, InFlight
<1> QED BY <1>1, <1>2, <1>3 DEF Serving

\* A step of one request: the others wait, and of itself it knows enough.
Serves(c) ==
  /\ \A d \in Calls : d # c => call'[d] = call[d]
  /\ call'[c] = Idle \/ Serving(call[c])'
  /\ Inserting(c)' => \/ Inserting(c) /\ call'[c].id = call[c].id
                      \/ call'[c].id \in Free

LEMMA EndServes ==
  ASSUME TypeOK, Served, Writes, [Next]_vars, NEW c \in Calls, call[c].pc # "idle",
         Finish(c) \/ Fail(c)
  PROVE  Serves(c)
<1>1. call[c] # Idle /\ call[c] \in InFlight
  BY Requested, RowsAreRows
<1>2. CASE Finish(c)
  BY <1>2 DEF Finish, Serves, Inserting, TypeOK, Idle
<1>3. CASE Fail(c)
  <2>1. Serving(call[c])'
    BY <1>1, <1>3, MoveServed DEF Fail, Places
  <2>2. call'[c].pc = "failed"
    BY <1>1, <1>3 DEF Fail, Move, TypeOK, InFlight
  <2> QED BY <1>3, <2>1, <2>2 DEF Serves, Inserting, Fail, Move, TypeOK
<1> QED BY <1>2, <1>3

LEMMA RegisterServes ==
  ASSUME TypeOK, Served, Writes, [Next]_vars, NEW c \in Calls,
         Register(c) \/ AutoGrant(c) \/ CreatePasswordUser(c) \/ Registered(c)
  PROVE  Serves(c)
<1>1. call[c].pc # "idle" /\ call[c] \in InFlight /\ call[c].req \in Requests /\ call[c].at \in Nat
  <2>1. call[c].pc # "idle"
    BY DEF Register, AutoGrant, CreatePasswordUser, Registered, Op, At
  <2> QED BY <2>1, Requested
<1>2. call[c] # Idle /\ Serving(call[c])
  BY <1>1, RowsAreRows DEF Served
<1>3. sysRole' /\ call[c].at <= now'
  BY <1>1, <1>2, ClockIsNumber, StepKeeps DEF Serving
<1>4. CASE Register(c)
  <2> DEFINE row == User(<<"email", Req(c).email>>, Req(c).email, "password", Req(c).pw, call[c].at)
  <2>1. CASE Fail(c)
    BY <1>1, <2>1, EndServes
  <2>2. CASE Free # {} /\ call' = [call EXCEPT ![c].pc = "grant", ![c].id = Least(Free), ![c].draft = row]
    <3>1. Req(c).email \in Emails /\ Req(c).pw \in Passwords /\ call[c].req.op = "register"
      BY <1>1, <1>4, RequestTyped DEF Register, Op, Req
    <3>2. row \in UserRow /\ row.source = "password" /\ row.asked = call[c].at
      <4>1. <<"email", Req(c).email>> \in ExternalIds
        BY <3>1, ExternalTyped
      <4> QED BY <1>1, <3>1, <4>1, PasswordUserTyped
    <3>3. Least(Free) \in Free
      BY <2>2, LeastFree
    <3>4. Least(Free) \in Ids \ Rows
      BY <3>3 DEF Free
    <3> HIDE DEF row
    <3>5. /\ call'[c].pc = "grant" /\ call'[c].id = Least(Free) /\ call'[c].draft = row
          /\ call'[c].at = call[c].at /\ call'[c].req = call[c].req
          /\ \A d \in Calls : d # c => call'[d] = call[d]
      BY <1>1, <2>2 DEF TypeOK, InFlight
    <3>6. Rows' = Rows
      BY <1>4 DEF Register, Rows
    <3>7. Serving(call[c])'
      BY <1>2, <1>3, <3>1, <3>2, <3>4, <3>5, <3>6 DEF Serving
    <3> QED BY <3>3, <3>5, <3>7 DEF Serves
  <2> QED BY <1>4, <2>1, <2>2 DEF Register
<1>5. CASE AutoGrant(c)
  <2>1. /\ call[c].pc = "grant" /\ call[c].draft \in UserRow /\ call[c].draft.source = "password"
        /\ call[c].draft.asked = call[c].at
    BY <1>2, <1>5 DEF AutoGrant, At, Serving
  <2> DEFINE d == [call[c].draft EXCEPT !.admin = sysRole /\ OnlyUser(c)]
  <2>2. d \in UserRow /\ d.source = "password" /\ d.asked = call[c].at
    <3>1. (sysRole /\ OnlyUser(c)) \in BOOLEAN
      OBVIOUS
    <3> QED BY <2>1, <3>1 DEF UserRow
  <2>3. call' = [call EXCEPT ![c] = [call[c] EXCEPT !.pc = "commit", !.audit = sysRole, !.draft = d]]
    BY <1>5 DEF AutoGrant
  <2> HIDE DEF d
  <2>4. /\ call'[c].pc = "commit" /\ call'[c].id = call[c].id /\ call'[c].draft = d
        /\ call'[c].at = call[c].at /\ call'[c].req = call[c].req
        /\ \A e \in Calls : e # c => call'[e] = call[e]
    BY <1>1, <2>3 DEF TypeOK, InFlight
  <2>5. Rows' = Rows
    BY <1>5 DEF AutoGrant, Rows
  <2>6. Serving(call[c])'
    BY <1>2, <1>3, <2>1, <2>2, <2>4, <2>5 DEF Serving
  <2> QED BY <2>1, <2>4, <2>6 DEF Serves, Inserting
<1>6. CASE CreatePasswordUser(c)
  <2>1. Move(c, "reread") /\ call[c].req.op = "register"
    BY <1>2, <1>6 DEF CreatePasswordUser, At, Move, Serving
  <2>2. Serving(call[c])'
    BY <1>2, <2>1, MoveServed DEF Places
  <2>3. call'[c].pc = "reread" /\ \A e \in Calls : e # c => call'[e] = call[e]
    BY <1>1, <2>1 DEF Move, TypeOK, InFlight
  <2> QED BY <2>2, <2>3 DEF Serves, Inserting
<1>7. CASE Registered(c)
  BY <1>1, <1>7, EndServes DEF Registered
<1> QED BY <1>4, <1>5, <1>6, <1>7

LEMMA PasswordServes ==
  ASSUME TypeOK, Served, Writes, [Next]_vars, NEW c \in Calls,
         \/ GetUserByEmail(c) \/ Login(c) \/ BeginUpdate(c) \/ UpdatePasswordHash(c)
         \/ \E u \in Ids : ChangePassword(c, u)
  PROVE  Serves(c)
<1>1. call[c].pc # "idle" /\ call[c] \in InFlight /\ call[c].req \in Requests /\ call[c].at \in Nat
  <2>1. call[c].pc # "idle"
    BY DEF GetUserByEmail, Login, BeginUpdate, UpdatePasswordHash, ChangePassword, Op, At
  <2> QED BY <2>1, Requested
<1>2. call[c] # Idle /\ Serving(call[c])
  BY <1>1, RowsAreRows DEF Served
<1>3. sysRole' /\ call[c].at <= now'
  BY <1>1, <1>2, ClockIsNumber, StepKeeps DEF Serving
<1>4. CASE GetUserByEmail(c)
  <2>1. CASE Fail(c)
    BY <1>1, <2>1, EndServes
  <2>2. ASSUME NEW u \in WithEmail(Req(c).email),
               call' = [call EXCEPT ![c].pc = "verify", ![c].id = u, ![c].read = users[u]]
        PROVE  Serves(c)
    <3>1. u \in Rows /\ users[u] \in UserRow /\ call[c].req.op = "login"
      BY <1>4 DEF GetUserByEmail, Op, WithEmail, Rows, TypeOK
    <3>2. Rows' = Rows
      BY <1>4 DEF GetUserByEmail, Rows
    <3>3. /\ call'[c].pc = "verify" /\ call'[c].id = u /\ call'[c].read = users[u]
          /\ call'[c].at = call[c].at /\ call'[c].req = call[c].req
          /\ \A e \in Calls : e # c => call'[e] = call[e]
      BY <1>1, <2>2 DEF TypeOK, InFlight
    <3>4. Serving(call[c])'
      BY <1>2, <1>3, <3>1, <3>2, <3>3 DEF Serving
    <3> QED BY <3>3, <3>4 DEF Serves, Inserting
  <2> QED BY <1>4, <2>1, <2>2 DEF GetUserByEmail
<1>5. CASE Login(c)
  BY <1>1, <1>5, EndServes DEF Login
<1>6. CASE BeginUpdate(c)
  <2>1. call[c].req.op = "change" /\ call[c].id \in Rows
    BY <1>2, <1>6 DEF BeginUpdate, At, Serving
  <2>2. Rows' = Rows
    BY <1>6 DEF BeginUpdate, Rows
  <2>3. /\ call'[c].pc = "update" /\ call'[c].id = call[c].id
        /\ call'[c].at = call[c].at /\ call'[c].req = call[c].req
        /\ \A e \in Calls : e # c => call'[e] = call[e]
    BY <1>1, <1>6 DEF BeginUpdate, TypeOK, InFlight
  <2>4. Serving(call[c])'
    BY <1>2, <1>3, <2>1, <2>2, <2>3 DEF Serving
  <2> QED BY <2>3, <2>4 DEF Serves, Inserting
<1>7. CASE UpdatePasswordHash(c)
  BY <1>1, <1>7, EndServes DEF UpdatePasswordHash
<1>8. ASSUME NEW u \in Ids, ChangePassword(c, u)
      PROVE  Serves(c)
  <2>1. CASE Fail(c)
    BY <1>1, <2>1, EndServes
  <2>2. CASE call' = [call EXCEPT ![c].pc = "begin", ![c].id = u]
    <3>1. u \in Rows /\ call[c].req.op = "change"
      BY <1>8 DEF ChangePassword, Op
    <3>2. Rows' = Rows
      BY <1>8 DEF ChangePassword, Rows
    <3>3. /\ call'[c].pc = "begin" /\ call'[c].id = u
          /\ call'[c].at = call[c].at /\ call'[c].req = call[c].req
          /\ \A e \in Calls : e # c => call'[e] = call[e]
      BY <1>1, <2>2 DEF TypeOK, InFlight
    <3>4. Serving(call[c])'
      BY <1>2, <1>3, <3>1, <3>2, <3>3 DEF Serving
    <3> QED BY <3>3, <3>4 DEF Serves, Inserting
  <2> QED BY <1>8, <2>1, <2>2 DEF ChangePassword
<1> QED BY <1>4, <1>5, <1>6, <1>7, <1>8

LEMMA CompanyServes ==
  ASSUME TypeOK, Served, Writes, [Next]_vars, NEW c \in Calls,
         FindJWTUser(c) \/ EnsureJWTUser(c) \/ \E u \in Ids : GrantRole(c, u)
  PROVE  Serves(c)
<1>1. call[c].pc # "idle" /\ call[c] \in InFlight /\ call[c].req \in Requests /\ call[c].at \in Nat
  <2>1. call[c].pc # "idle"
    BY DEF FindJWTUser, EnsureJWTUser, GrantRole, Op, At
  <2> QED BY <2>1, Requested
<1>2. call[c] # Idle
  BY <1>1, RowsAreRows
<1>3. CASE FindJWTUser(c)
  <2>1. CASE Finish(c)
    BY <1>1, <2>1, EndServes
  <2>2. CASE Move(c, "insert")
    <3>1. call[c].req.op = "jwt"
      BY <1>3 DEF FindJWTUser, Op
    <3>2. Serving(call[c])'
      BY <1>2, <2>2, <3>1, MoveServed DEF Places
    <3>3. call'[c].pc = "insert" /\ \A e \in Calls : e # c => call'[e] = call[e]
      BY <1>1, <2>2 DEF Move, TypeOK, InFlight
    <3> QED BY <3>2, <3>3 DEF Serves, Inserting
  <2> QED BY <1>3, <2>1, <2>2 DEF FindJWTUser
<1>4. CASE EnsureJWTUser(c)
  <2>1. Finish(c) \/ Fail(c)
    BY <1>4 DEF EnsureJWTUser
  <2> QED BY <1>1, <2>1, EndServes
<1>5. ASSUME NEW u \in Ids, GrantRole(c, u)
      PROVE  Serves(c)
  <2>1. Finish(c) \/ Fail(c)
    BY <1>5 DEF GrantRole
  <2> QED BY <1>1, <2>1, EndServes
<1> QED BY <1>3, <1>4, <1>5

LEMMA PatServes ==
  ASSUME TypeOK, Served, Writes, [Next]_vars, NEW c \in Calls,
         \/ \E u \in Ids, p \in Pats : CreatePAT(c, u, p) \/ SoftDeleteToken(c, u, p)
         \/ \E p \in Pats : FindPAT(c, p)
         \/ ValidatePAT(c)
  PROVE  Serves(c)
<1>1. call[c].pc # "idle" /\ call[c] \in InFlight /\ call[c].req \in Requests /\ call[c].at \in Nat
  <2>1. call[c].pc # "idle"
    BY DEF CreatePAT, SoftDeleteToken, FindPAT, ValidatePAT, Op, At
  <2> QED BY <2>1, Requested
<1>2. CASE Finish(c) \/ Fail(c)
  BY <1>1, <1>2, EndServes
<1>3. ASSUME NEW p \in Pats, FindPAT(c, p), call' = [call EXCEPT ![c].pc = "expiry", ![c].id = p]
      PROVE  Serves(c)
  <2>1. Serving(call[c])
    BY <1>1, RowsAreRows DEF Served
  <2>2. sysRole' /\ call[c].at <= now'
    BY <1>1, <2>1, ClockIsNumber, StepKeeps DEF Serving
  <2>3. call[c].req.op = "pat" /\ pats'[p] # Absent
    BY <1>3 DEF FindPAT, Op
  <2>4. /\ call'[c].pc = "expiry" /\ call'[c].id = p
        /\ call'[c].at = call[c].at /\ call'[c].req = call[c].req
        /\ \A e \in Calls : e # c => call'[e] = call[e]
    BY <1>1, <1>3 DEF TypeOK, InFlight
  <2>5. Serving(call[c])'
    BY <2>1, <2>2, <2>3, <2>4 DEF Serving
  <2> QED BY <2>4, <2>5 DEF Serves, Inserting
<1>4. ASSUME NEW u \in Ids, NEW p \in Pats, CreatePAT(c, u, p) \/ SoftDeleteToken(c, u, p)
      PROVE  Finish(c) \/ Fail(c)
  BY <1>4 DEF CreatePAT, SoftDeleteToken
<1>5. CASE ValidatePAT(c)
  BY <1>2, <1>5 DEF ValidatePAT
<1>6. ASSUME NEW p \in Pats, FindPAT(c, p)
      PROVE  Serves(c)
  BY <1>2, <1>3, <1>6 DEF FindPAT
<1> QED BY <1>2, <1>4, <1>5, <1>6

\* In each step one request goes on, or none does, and some may end.
Resting == \A d \in Calls : call'[d] = Idle \/ call'[d] = call[d]

LEMMA StepServes ==
  ASSUME TypeOK, Served, Writes, [Next]_vars
  PROVE  Resting \/ \E c \in Calls : Serves(c)
<1>1. CASE UNCHANGED call
  BY <1>1 DEF Resting
<1>2. ASSUME NEW i \in Instances, Crash(i)
      PROVE  Resting
  BY <1>2 DEF Crash, Resting, TypeOK
<1>3. ASSUME NEW c \in Calls, Leave(c)
      PROVE  Resting
  BY <1>3 DEF Leave, Resting, TypeOK
<1>4. ASSUME NEW c \in Calls, NEW i \in Instances, NEW r \in Requests, Begin(c, i, r)
      PROVE  Serves(c)
  <2> DEFINE q == [pc |-> "start", inst |-> i, req |-> r, at |-> now, id |-> 0, draft |-> Absent,
                   read |-> Absent, begun |-> 0, audit |-> FALSE]
  <2>1. call' = [call EXCEPT ![c] = q] /\ now' = now /\ sysRole' = sysRole /\ inst[i] = "up"
    BY <1>4 DEF Begin
  <2>2. q.pc = "start" /\ q.at = now
    OBVIOUS
  <2> HIDE DEF q
  <2>3. call'[c] = q /\ \A d \in Calls : d # c => call'[d] = call[d]
    BY <2>1 DEF TypeOK
  <2>4. sysRole' /\ call'[c].at <= now'
    BY <2>1, <2>2, <2>3, ClockIsNumber DEF Served
  <2>5. Serving(call[c])'
    BY <2>2, <2>3, <2>4 DEF Serving
  <2> QED BY <2>2, <2>3, <2>5 DEF Serves, Inserting
<1>5. CASE Tick
  BY <1>1, <1>5 DEF Tick
<1>6. ASSUME NEW i \in Instances,
             EnsureSystemData(i) \/ EnsureBootstrapAdmin(i) \/ ListenAndServe(i)
      PROVE  UNCHANGED call
  BY <1>6 DEF EnsureSystemData, EnsureBootstrapAdmin, ListenAndServe
<1>7. CASE UNCHANGED vars
  BY <1>1, <1>7 DEF vars
<1> QED BY <1>1, <1>2, <1>3, <1>4, <1>5, <1>6, <1>7, RegisterServes, PasswordServes, CompanyServes,
          PatServes DEF Next

\* So what each request in flight knows goes on to hold.
LEMMA ServedStep ==
  ASSUME TypeOK, Served, [Next]_vars
  PROVE  Served'
<1>1. Writes
  BY StepWrites
<1>2. now \in Nat /\ now' \in Nat /\ now <= now' /\ (sysRole => sysRole')
  BY ClockIsNumber, StepKeeps
<1>3. \A i \in Instances : inst'[i] # "down" => sysRole'
  <2>1. ASSUME NEW i \in Instances,
               EnsureSystemData(i) \/ EnsureBootstrapAdmin(i) \/ ListenAndServe(i) \/ Crash(i)
        PROVE  \A j \in Instances : inst'[j] # "down" => sysRole'
    BY <2>1 DEF EnsureSystemData, EnsureBootstrapAdmin, ListenAndServe, Crash, Goes, ServesAfter,
                Served, TypeOK
  <2>2. CASE UNCHANGED inst
    BY <1>2, <2>2 DEF Served
  <2>3. CASE Tick \/ UNCHANGED vars
    BY <2>2, <2>3 DEF Tick, vars
  <2>4. ASSUME NEW c \in Calls,
             \/ \E i \in Instances, r \in Requests : Begin(c, i, r)
             \/ Leave(c) \/ Register(c) \/ AutoGrant(c) \/ CreatePasswordUser(c) \/ Registered(c)
             \/ GetUserByEmail(c) \/ Login(c) \/ BeginUpdate(c) \/ UpdatePasswordHash(c)
             \/ FindJWTUser(c) \/ EnsureJWTUser(c) \/ ValidatePAT(c)
             \/ \E u \in Ids : ChangePassword(c, u) \/ GrantRole(c, u)
             \/ \E u \in Ids, p \in Pats : CreatePAT(c, u, p) \/ SoftDeleteToken(c, u, p)
             \/ \E p \in Pats : FindPAT(c, p)
      PROVE  UNCHANGED inst
    BY <2>4 DEF Begin, Leave, Register, AutoGrant, CreatePasswordUser, Registered, GetUserByEmail,
       Login, BeginUpdate, UpdatePasswordHash, FindJWTUser, EnsureJWTUser, ValidatePAT,
       ChangePassword, GrantRole, CreatePAT, SoftDeleteToken, FindPAT
  <2> QED BY <2>1, <2>2, <2>3, <2>4 DEF Next
<1>4. \A d \in Calls : call'[d] = call[d] /\ call[d] # Idle => Serving(call[d])'
  BY <1>1, WaitingServed
<1>5. \A c \in Calls : call'[c] # Idle => Serving(call[c])'
  <2>1. CASE Resting
    BY <1>4, <2>1 DEF Resting
  <2>2. ASSUME NEW c \in Calls, Serves(c)
        PROVE  \A d \in Calls : call'[d] # Idle => Serving(call[d])'
    BY <1>4, <2>2 DEF Serves
  <2> QED BY <1>1, <2>1, <2>2, StepServes
<1>6. \A c, d \in Calls : c # d /\ Inserting(c)' /\ Inserting(d)' => call'[c].id # call'[d].id
  <2>1. CASE Resting
    BY <2>1 DEF Resting, Inserting, Served, Idle
  <2>2. ASSUME NEW c \in Calls, Serves(c)
        PROVE  \A d, e \in Calls : d # e /\ Inserting(d)' /\ Inserting(e)' => call'[d].id # call'[e].id
    <3>1. \A d \in Calls : d # c => call'[d] = call[d] /\ (Inserting(d)' <=> Inserting(d))
      BY <2>2 DEF Serves, Inserting
    <3>2. ASSUME NEW d \in Calls, d # c, Inserting(d)', Inserting(c)'
          PROVE  call'[d].id # call'[c].id
      <4>1. Inserting(d) /\ call'[d].id = call[d].id
        BY <3>1, <3>2
      <4>2. CASE Inserting(c) /\ call'[c].id = call[c].id
        BY <3>2, <4>1, <4>2 DEF Served
      <4>3. CASE call'[c].id \in Free
        BY <4>1, <4>3 DEF Free
      <4> QED BY <2>2, <3>2, <4>2, <4>3 DEF Serves
    <3>3. ASSUME NEW d \in Calls, NEW e \in Calls, d # c, e # c, d # e, Inserting(d)', Inserting(e)'
          PROVE  call'[d].id # call'[e].id
      BY <3>1, <3>3 DEF Served
    <3> QED BY <3>2, <3>3
  <2> QED BY <1>1, <2>1, <2>2, StepServes
<1>7. \A u \in Rows' : users'[u].asked <= now'
  <2>1. ASSUME NEW u \in Rows
        PROVE  users'[u].asked <= now'
    <3>1. users'[u].asked = users[u].asked /\ users[u].asked <= now
      BY <1>1, RowsKept DEF Served
    <3>2. users[u].asked \in Nat
      BY DEF Rows, TypeOK, UserRow
    <3> QED BY <1>2, <3>1, <3>2
  <2>2. ASSUME NEW u \in Rows' \ Rows
        PROVE  users'[u].asked <= now'
    <3>1. users'[u].asked <= now
      BY <1>1, RowsKept
    <3>2. users'[u] \in UserRow
      <4>1. TypeOK'
        BY TypeStep
      <4> QED BY <4>1 DEF Rows, TypeOK
    <3>3. users'[u].asked \in Nat
      BY <3>2 DEF UserRow
    <3> QED BY <1>2, <3>1, <3>3
  <2> QED BY <2>1, <2>2
<1> QED BY <1>3, <1>5, <1>6, <1>7 DEF Served

\* By which step a request comes to where it is.
Arrives(c) ==
  /\ At(c, "commit")' => AutoGrant(c)
  /\ At(c, "verify")' => GetUserByEmail(c)
  /\ At(c, "expiry")' => \E p \in Pats : FindPAT(c, p)
  /\ At(c, "insert")' => FindJWTUser(c)
  /\ At(c, "failed")' /\ Req(c)'.op = "jwt" => EnsureJWTUser(c)

\* Whoever ends has come nowhere, and whoever fails only to where one fails.
LEMMA EndArrives ==
  ASSUME TypeOK, NEW c \in Calls, call[c].pc # "idle",
         Finish(c) \/ (Fail(c) /\ (call[c].req.op = "jwt" => EnsureJWTUser(c)))
  PROVE  Arrives(c)
<1>1. call[c] \in InFlight
  BY Requested
<1>2. CASE Finish(c)
  BY <1>2 DEF Finish, Arrives, At, Idle, TypeOK
<1>3. CASE Fail(c) /\ (call[c].req.op = "jwt" => EnsureJWTUser(c))
  <2>1. call'[c].pc = "failed" /\ call'[c].req = call[c].req
    BY <1>1, <1>3 DEF Fail, Move, TypeOK, InFlight
  <2> QED BY <1>3, <2>1 DEF Arrives, At, Req
<1> QED BY <1>2, <1>3

\* Whoever moves is where he moves to.
LEMMA MoveArrives ==
  ASSUME TypeOK, NEW c \in Calls, NEW p, call'[c].pc = p,
         \/ p \in {"idle", "start", "grant", "begin", "update", "reread"}
         \/ p = "commit" /\ AutoGrant(c)
         \/ p = "verify" /\ GetUserByEmail(c)
         \/ p = "expiry" /\ \E q \in Pats : FindPAT(c, q)
         \/ p = "insert" /\ FindJWTUser(c)
  PROVE  Arrives(c)
BY DEF Arrives, At

LEMMA StepArrives ==
  ASSUME TypeOK, Served, [Next]_vars, NEW c \in Calls, call'[c] # call[c]
  PROVE  Arrives(c)
<1>1. ASSUME call[c].pc # "idle"
      PROVE  call[c] \in InFlight /\ Serving(call[c])
  BY <1>1, Requested, RowsAreRows DEF Served
<1>2. ASSUME call'[c] = Idle
      PROVE  Arrives(c)
  BY <1>2 DEF Arrives, At, Idle
<1>3. ASSUME NEW i \in Instances, Crash(i)
      PROVE  Arrives(c)
  BY <1>2, <1>3 DEF Crash, TypeOK
<1>4. CASE UNCHANGED call
  BY <1>4
<1>5. ASSUME NEW i \in Instances, EnsureSystemData(i) \/ EnsureBootstrapAdmin(i) \/ ListenAndServe(i)
      PROVE  UNCHANGED call
  BY <1>5 DEF EnsureSystemData, EnsureBootstrapAdmin, ListenAndServe
<1>6. CASE Tick \/ UNCHANGED vars
  BY <1>4, <1>6 DEF Tick, vars
<1>7. ASSUME NEW d \in Calls, NEW i \in Instances, NEW r \in Requests, Begin(d, i, r)
      PROVE  Arrives(c)
  <2>1. d = c /\ call'[c].pc = "start"
    BY <1>7 DEF Begin, TypeOK
  <2> QED BY <2>1, MoveArrives
<1>8. ASSUME NEW d \in Calls, Leave(d)
      PROVE  Arrives(c)
  BY <1>2, <1>8 DEF Leave, TypeOK
<1>9. ASSUME NEW d \in Calls, Register(d)
      PROVE  Arrives(c)
  <2>1. d = c /\ call[c].pc # "idle" /\ call[c].req.op # "jwt"
    BY <1>9 DEF Register, Op, At, Fail, Move, TypeOK
  <2>2. Fail(c) \/ call'[c].pc = "grant"
    BY <1>1, <1>9, <2>1 DEF Register, TypeOK, InFlight
  <2> QED BY <2>1, <2>2, EndArrives, MoveArrives
<1>10. ASSUME NEW d \in Calls, AutoGrant(d)
       PROVE  Arrives(c)
  <2>1. d = c /\ call[c].pc # "idle"
    BY <1>10 DEF AutoGrant, At, TypeOK
  <2>2. call'[c].pc = "commit"
    BY <1>1, <1>10, <2>1 DEF AutoGrant, TypeOK, InFlight
  <2> QED BY <1>10, <2>1, <2>2, MoveArrives
<1>11. ASSUME NEW d \in Calls, CreatePasswordUser(d)
       PROVE  Arrives(c)
  <2>1. d = c /\ call[c].pc # "idle"
    BY <1>11 DEF CreatePasswordUser, At, TypeOK
  <2>2. call'[c].pc = "reread"
    BY <1>1, <1>11, <2>1 DEF CreatePasswordUser, TypeOK, InFlight
  <2> QED BY <2>1, <2>2, MoveArrives
<1>12. ASSUME NEW d \in Calls, Registered(d) \/ Login(d) \/ UpdatePasswordHash(d) \/ ValidatePAT(d)
       PROVE  Arrives(c)
  <2>0. call[d].pc # "idle" /\ (Finish(d) \/ Fail(d))
    BY <1>12 DEF Registered, Login, UpdatePasswordHash, ValidatePAT, At
  <2>1. d = c /\ call[c].pc # "idle" /\ (Finish(c) \/ Fail(c))
    BY <2>0 DEF Finish, Fail, Move, TypeOK
  <2>2. call[c].req.op # "jwt"
    BY <1>1, <1>12, <2>1 DEF Registered, Login, UpdatePasswordHash, ValidatePAT, At, Serving
  <2> QED BY <2>1, <2>2, EndArrives
<1>13. ASSUME NEW d \in Calls, GetUserByEmail(d)
       PROVE  Arrives(c)
  <2>1. d = c /\ call[c].pc # "idle" /\ call[c].req.op # "jwt"
    BY <1>13 DEF GetUserByEmail, Op, At, Fail, Move, TypeOK
  <2>2. ASSUME NEW u \in Ids,
               call' = [call EXCEPT ![c].pc = "verify", ![c].id = u, ![c].read = users[u]]
        PROVE  call'[c].pc = "verify"
    <3> DEFINE q == [call[c] EXCEPT !.pc = "verify", !.id = u, !.read = users[u]]
    <3>1. call' = [call EXCEPT ![c] = q]
      BY <2>2
    <3>2. q.pc = "verify"
      BY <1>1, <2>1 DEF InFlight
    <3> HIDE DEF q
    <3> QED BY <3>1, <3>2 DEF TypeOK
  <2>3. Fail(c) \/ call'[c].pc = "verify"
    BY <1>13, <2>1, <2>2 DEF GetUserByEmail, WithEmail, Rows
  <2> QED BY <1>13, <2>1, <2>3, EndArrives, MoveArrives
<1>14. ASSUME NEW d \in Calls, BeginUpdate(d)
       PROVE  Arrives(c)
  <2>1. d = c /\ call[c].pc # "idle"
    BY <1>14 DEF BeginUpdate, At, TypeOK
  <2>2. call'[c].pc = "update"
    BY <1>1, <1>14, <2>1 DEF BeginUpdate, TypeOK, InFlight
  <2> QED BY <2>1, <2>2, MoveArrives
<1>15. ASSUME NEW d \in Calls, FindJWTUser(d)
       PROVE  Arrives(c)
  <2>1. d = c /\ call[c].pc # "idle"
    BY <1>15 DEF FindJWTUser, Op, At, Finish, Move, TypeOK
  <2>2. Finish(c) \/ call'[c].pc = "insert"
    BY <1>1, <1>15, <2>1 DEF FindJWTUser, Move, TypeOK, InFlight
  <2> QED BY <1>15, <2>1, <2>2, EndArrives, MoveArrives
<1>16. ASSUME NEW d \in Calls, EnsureJWTUser(d)
       PROVE  Arrives(c)
  <2>1. d = c /\ call[c].pc # "idle" /\ (Finish(c) \/ Fail(c))
    BY <1>16 DEF EnsureJWTUser, At, Finish, Fail, Move, TypeOK
  <2> QED BY <1>16, <2>1, EndArrives
<1>17. ASSUME NEW d \in Calls, NEW u \in Ids, GrantRole(d, u)
       PROVE  Arrives(c)
  <2>1. d = c /\ call[c].pc # "idle" /\ call[c].req.op # "jwt" /\ (Finish(c) \/ Fail(c))
    BY <1>17 DEF GrantRole, Op, At, Finish, Fail, Move, TypeOK
  <2> QED BY <2>1, EndArrives
<1>18. ASSUME NEW d \in Calls, NEW u \in Ids, ChangePassword(d, u)
       PROVE  Arrives(c)
  <2>1. d = c /\ call[c].pc # "idle" /\ call[c].req.op # "jwt"
    BY <1>18 DEF ChangePassword, Op, At, Fail, Move, TypeOK
  <2>2. Fail(c) \/ call'[c].pc = "begin"
    BY <1>1, <1>18, <2>1 DEF ChangePassword, TypeOK, InFlight
  <2> QED BY <2>1, <2>2, EndArrives, MoveArrives
<1>19. ASSUME NEW d \in Calls, NEW u \in Ids, NEW p \in Pats, CreatePAT(d, u, p) \/ SoftDeleteToken(d, u, p)
       PROVE  Arrives(c)
  <2>1. d = c /\ call[c].pc # "idle" /\ call[c].req.op # "jwt" /\ (Finish(c) \/ Fail(c))
    BY <1>19 DEF CreatePAT, SoftDeleteToken, Op, At, Finish, Fail, Move, TypeOK
  <2> QED BY <2>1, EndArrives
<1>20. ASSUME NEW d \in Calls, NEW p \in Pats, FindPAT(d, p)
       PROVE  Arrives(c)
  <2>1. d = c /\ call[c].pc # "idle" /\ call[c].req.op # "jwt"
    BY <1>20 DEF FindPAT, Op, At, Fail, Move, TypeOK
  <2>2. Fail(c) \/ call'[c].pc = "expiry"
    BY <1>1, <1>20, <2>1 DEF FindPAT, TypeOK, InFlight
  <2> QED BY <1>20, <2>1, <2>2, EndArrives, MoveArrives
<1> QED BY <1>3, <1>4, <1>5, <1>6, <1>7, <1>8, <1>9, <1>10, <1>11, <1>12, <1>13, <1>14, <1>15, <1>16,
          <1>17, <1>18, <1>19, <1>20 DEF Next

-----------------------------------------------------------------------------
(* The first is administrator *)

\* What AutoGrant finds goes on to hold until the commit.
LEMMA GrantedStep ==
  ASSUME TypeOK, Served, AdminSound, [Next]_vars, NEW c \in Calls
  PROVE  Granted(call[c])'
<1> SUFFICES ASSUME call'[c].pc = "commit"
             PROVE  IF call'[c].draft.admin
                      THEN call'[c].audit /\ \A v \in Rows' : users'[v].created >= call'[c].at
                      ELSE Rows' # {}
  BY DEF Granted
<1>1. Writes /\ TypeOK'
  BY StepWrites, TypeStep
<1>2. now \in Nat
  BY ClockIsNumber
<1>3. CASE call'[c] = call[c]
  <2>1. call[c].pc = "commit" /\ call[c] # Idle
    BY <1>3 DEF Idle
  <2>2. Serving(call[c]) /\ call[c] \in InFlight /\ call[c].at \in Nat
    BY <2>1, Requested DEF Served
  <2>3. call[c].at <= now
    BY <2>2 DEF Serving
  <2>4. CASE call[c].draft.admin
    <3>1. call[c].audit /\ \A v \in Rows : users[v].created >= call[c].at
      BY <2>1, <2>4 DEF AdminSound, Granted
    <3>2. ASSUME NEW v \in Rows'
          PROVE  users'[v].created >= call[c].at
      <4>1. CASE v \in Rows
        BY <1>1, <3>1, <4>1, RowsKept
      <4>2. CASE v \notin Rows
        <5>1. users'[v].created = now
          BY <1>1, <4>2, RowsKept
        <5> QED BY <1>2, <2>2, <2>3, <5>1
      <4> QED BY <4>1, <4>2
    <3> QED BY <1>3, <2>4, <3>1, <3>2
  <2>5. CASE ~ call[c].draft.admin
    <3>1. Rows # {}
      BY <2>1, <2>5 DEF AdminSound, Granted
    <3> QED BY <1>1, <1>3, <2>5, <3>1, RowsKept
  <2> QED BY <2>4, <2>5
<1>4. CASE call'[c] # call[c]
  <2>1. AutoGrant(c)
    BY <1>4, StepArrives DEF Arrives, At
  <2>2. call[c].pc = "grant" /\ call[c].pc # "idle"
    BY <2>1 DEF AutoGrant, At
  <2>3. call[c] \in InFlight /\ Serving(call[c])
    BY <2>2, Requested, RowsAreRows DEF Served
  <2>4. sysRole /\ call[c].draft \in UserRow
    BY <2>2, <2>3 DEF Serving
  <2> DEFINE d == [call[c].draft EXCEPT !.admin = sysRole /\ OnlyUser(c)]
  <2>5. call' = [call EXCEPT ![c] = [call[c] EXCEPT !.pc = "commit", !.audit = sysRole, !.draft = d]]
    BY <2>1 DEF AutoGrant
  <2>6. d.admin <=> Rows = {}
    BY <2>4 DEF OnlyUser, UserRow
  <2> HIDE DEF d
  <2>7. call'[c].draft = d /\ call'[c].audit = sysRole
    BY <2>3, <2>5 DEF TypeOK, InFlight
  <2>8. Rows' = Rows
    BY <2>1 DEF AutoGrant, Rows
  <2> QED BY <2>4, <2>6, <2>7, <2>8
<1> QED BY <1>3, <1>4

\* Audit rows stay.
LEMMA AuditsKept ==
  ASSUME [Next]_vars
  PROVE  audits \subseteq audits'
<1>1. ASSUME NEW c \in Calls, CreatePasswordUser(c)
      PROVE  audits \subseteq audits'
  BY <1>1 DEF CreatePasswordUser
<1>2. CASE UNCHANGED audits
  BY <1>2
<1>3. CASE Tick \/ UNCHANGED vars
  BY <1>2, <1>3 DEF Tick, vars
<1>4. ASSUME NEW i \in Instances,
             EnsureSystemData(i) \/ EnsureBootstrapAdmin(i) \/ ListenAndServe(i) \/ Crash(i)
      PROVE  UNCHANGED audits
  BY <1>4 DEF EnsureSystemData, EnsureBootstrapAdmin, ListenAndServe, Crash
<1>5. ASSUME NEW c \in Calls,
             \/ \E i \in Instances, r \in Requests : Begin(c, i, r)
             \/ Leave(c) \/ Register(c) \/ AutoGrant(c) \/ Registered(c)
             \/ GetUserByEmail(c) \/ Login(c) \/ BeginUpdate(c) \/ UpdatePasswordHash(c)
             \/ FindJWTUser(c) \/ EnsureJWTUser(c) \/ ValidatePAT(c)
             \/ \E u \in Ids : ChangePassword(c, u) \/ GrantRole(c, u)
             \/ \E u \in Ids, p \in Pats : CreatePAT(c, u, p) \/ SoftDeleteToken(c, u, p)
             \/ \E p \in Pats : FindPAT(c, p)
      PROVE  UNCHANGED audits
  BY <1>5 DEF Begin, Leave, Register, AutoGrant, Registered, GetUserByEmail,
     Login, BeginUpdate, UpdatePasswordHash, FindJWTUser, EnsureJWTUser, ValidatePAT,
     ChangePassword, GrantRole, CreatePAT, SoftDeleteToken, FindPAT
<1> QED BY <1>1, <1>2, <1>3, <1>4, <1>5 DEF Next

\* A new row with a password is of a registration, with all it was granted.
LEMMA NewIsGranted ==
  ASSUME TypeOK, Served, AdminSound, [Next]_vars, NEW u \in Rows' \ Rows,
         users'[u].source = "password"
  PROVE  IF users'[u].admin
           THEN u \in audits' /\ \A v \in Rows : users[v].created >= users'[u].asked
           ELSE Rows # {}
<1>1. PICK c \in Calls : Commits(c, u, users'[u])
  BY StepWrites, RowsKept
<1>2. call[c].pc = "commit" /\ call[c].pc # "idle" /\ u = call[c].id
  BY <1>1 DEF Commits, CreatePasswordUser, At
<1>3. Serving(call[c]) /\ call[c].draft \in UserRow
  BY <1>2, Requested, RowsAreRows DEF Served, Serving
<1>4. users'[u].admin = call[c].draft.admin /\ users'[u].asked = call[c].draft.asked
  BY <1>1, <1>3 DEF Commits, UserRow
<1>5. call[c].draft.asked = call[c].at
  BY <1>2, <1>3 DEF Serving
<1>6. Granted(call[c])
  BY DEF AdminSound
<1>7. call[c].audit => u \in audits'
  BY <1>1, <1>2 DEF Commits, CreatePasswordUser
<1> QED BY <1>2, <1>4, <1>5, <1>6, <1>7 DEF Granted

LEMMA AdminStep ==
  ASSUME TypeOK, Served, AdminSound, [Next]_vars
  PROVE  AdminSound'
<1>1. Writes /\ TypeOK'
  BY StepWrites, TypeStep
<1>2. now \in Nat
  BY ClockIsNumber
<1>3. Rows \subseteq Rows' /\ audits \subseteq audits'
  BY <1>1, RowsKept, AuditsKept
<1>4. ASSUME NEW u \in Rows
      PROVE  /\ users'[u].source = users[u].source /\ users'[u].asked = users[u].asked
             /\ users'[u].created = users[u].created
             /\ users[u].admin => users'[u].admin
             /\ users'[u].admin => users[u].admin \/ u = BootstrapId
  BY <1>1, RowsKept
<1>5. ASSUME NEW u \in Rows' \ {BootstrapId}, users'[u].source = "password", users'[u].admin
      PROVE  u \in audits' /\ \A v \in Rows : users[v].created >= users'[u].asked
  <2>1. CASE u \in Rows
    <3>1. u \in audits /\ \A v \in Rows : ~ (users[v].created < users[u].asked)
      BY <1>4, <1>5, <2>1 DEF AdminSound, FirstIsAdmin
    <3>2. \A v \in Rows : users[v].created \in Nat /\ users[v].asked \in Nat
      BY DEF Rows, TypeOK, UserRow
    <3>3. \A v \in Rows : users[v].created >= users[u].asked
      BY <2>1, <3>1, <3>2
    <3> QED BY <1>3, <1>4, <2>1, <3>1, <3>3
  <2>2. CASE u \notin Rows
    BY <1>5, <2>2, NewIsGranted
  <2> QED BY <2>1, <2>2
<1>6. ASSUME NEW u \in Rows'
      PROVE  users'[u].asked \in Nat /\ users'[u].created \in Nat /\ users'[u].asked <= now
  <2>1. users'[u] \in UserRow
    BY <1>1 DEF Rows, TypeOK
  <2>2. users'[u].asked <= now
    BY <1>1, RowsKept DEF Served
  <2> QED BY <2>1, <2>2 DEF UserRow
<1>7. ASSUME NEW u \in Rows' \ {BootstrapId}, users'[u].source = "password", users'[u].admin, NEW v \in Rows'
      PROVE  ~ (users'[v].created < users'[u].asked)
  <2>1. CASE v \in Rows
    <3>1. users[v].created >= users'[u].asked
      BY <1>5, <1>7, <2>1
    <3>2. users'[v].created = users[v].created
      BY <1>4, <2>1
    <3> QED BY <1>6, <3>1, <3>2
  <2>2. CASE v \notin Rows
    <3>1. users'[v].created = now
      BY <1>1, <2>2, RowsKept
    <3> QED BY <1>2, <1>6, <3>1
  <2> QED BY <2>1, <2>2
<1>8. ASSUME Rows' # {}, \A u \in Rows' : users'[u].source = "password"
      PROVE  \E u \in Rows' : users'[u].admin
  <2>1. CASE Rows # {}
    <3>1. \A u \in Rows : users[u].source = "password"
      BY <1>3, <1>4, <1>8
    <3>2. PICK u \in Rows : users[u].admin
      BY <2>1, <3>1 DEF AdminSound, FirstIsAdmin
    <3> QED BY <1>3, <1>4, <3>1, <3>2
  <2>2. CASE Rows = {}
    <3>1. PICK u \in Rows' \ Rows : users'[u].source = "password"
      BY <1>8, <2>2
    <3> QED BY <2>2, <3>1, NewIsGranted
  <2> QED BY <2>1, <2>2
<1>9. FirstIsAdmin'
  BY <1>5, <1>7, <1>8 DEF FirstIsAdmin
<1>10. \A c \in Calls : Granted(call[c])'
  BY GrantedStep
<1> QED BY <1>9, <1>10 DEF AdminSound

-----------------------------------------------------------------------------
(* Passwords *)

\* A login reads a password that is in force, and was set before.
LEMMA ReadIsBought ==
  ASSUME TypeOK, Served, PasswordsSound, NEW c \in Calls, GetUserByEmail(c), At(c, "verify")'
  PROVE  Bought(call'[c].id, call'[c].read.pw, call'[c].at, now)
<1>1. call[c].pc = "start" /\ call[c].pc # "idle"
  BY DEF GetUserByEmail, Op, At
<1>2. call[c] \in InFlight /\ call[c].at \in Nat /\ call[c] # Idle
  BY <1>1, Requested, RowsAreRows
<1>3. PICK u \in Rows :
        call' = [call EXCEPT ![c].pc = "verify", ![c].id = u, ![c].read = users[u]]
  <2>1. ~ Fail(c)
    BY <1>2 DEF Fail, Move, At, TypeOK, InFlight
  <2> QED BY <2>1 DEF GetUserByEmail, WithEmail
<1> DEFINE q == [call[c] EXCEPT !.pc = "verify", !.id = u, !.read = users[u]]
<1>4. call' = [call EXCEPT ![c] = q]
  BY <1>3
<1>5. q.id = u /\ q.read = users[u] /\ q.at = call[c].at
  BY <1>2 DEF InFlight
<1> HIDE DEF q
<1>6. call'[c].id = u /\ call'[c].read = users[u] /\ call'[c].at = call[c].at
  BY <1>4, <1>5 DEF TypeOK
<1>7. now \in Nat /\ call[c].at <= now
  BY <1>2, ClockIsNumber DEF Served, Serving
<1>8. SetAgain(u, users[u].pw, call[c].at, now)
  <2>1. SetAgain(u, users[u].pw, now + 1, now)
    BY DEF PasswordsSound
  <2>2. \A ch \in changes : ch.committed \in Nat
    BY DEF TypeOK
  <2> QED BY <1>2, <1>7, <2>1, <2>2 DEF SetAgain
<1> QED BY <1>3, <1>6, <1>7, <1>8 DEF Bought, Followed

\* Only an update of a password is recorded as a change.
LEMMA ChangesBy ==
  ASSUME [Next]_vars
  PROVE  changes' = changes \/ \E c \in Calls : UpdatePasswordHash(c)
<1>1. CASE Tick \/ UNCHANGED vars
  BY <1>1 DEF Tick, vars, history
<1>2. ASSUME NEW i \in Instances,
             EnsureSystemData(i) \/ EnsureBootstrapAdmin(i) \/ ListenAndServe(i) \/ Crash(i)
      PROVE  UNCHANGED changes
  BY <1>2 DEF EnsureSystemData, EnsureBootstrapAdmin, ListenAndServe, Crash, history
<1>3. ASSUME NEW c \in Calls,
           \/ \E i \in Instances, r \in Requests : Begin(c, i, r)
           \/ Leave(c) \/ Register(c) \/ AutoGrant(c) \/ CreatePasswordUser(c) \/ Registered(c)
           \/ GetUserByEmail(c) \/ Login(c) \/ BeginUpdate(c)
           \/ FindJWTUser(c) \/ EnsureJWTUser(c) \/ ValidatePAT(c)
           \/ \E v \in Ids : ChangePassword(c, v) \/ GrantRole(c, v)
           \/ \E v \in Ids, p \in Pats : CreatePAT(c, v, p) \/ SoftDeleteToken(c, v, p)
           \/ \E p \in Pats : FindPAT(c, p)
    PROVE  UNCHANGED changes
  BY <1>3 DEF Begin, Leave, Register, AutoGrant, CreatePasswordUser, Registered, GetUserByEmail,
     Login, BeginUpdate, FindJWTUser, EnsureJWTUser, ValidatePAT,
     ChangePassword, GrantRole, CreatePAT, SoftDeleteToken, FindPAT, history
<1> QED BY <1>1, <1>2, <1>3 DEF Next

\* What was bought before a step, as it stands after it.
StillBought(u, pw, at, by) ==
  /\ u \in Rows' /\ at <= by /\ by <= now'
  /\ \/ users'[u].pw = pw
     \/ \E ch \in changes' : ch.user = u /\ ch.begun = users'[u].tva /\ at <= ch.committed
  /\ \A ch \in changes' : ch.user = u /\ ch.old = pw /\ ch.committed < at =>
       \E d \in changes' : /\ d.user = u /\ d.new = pw
                           /\ ch.committed <= d.committed /\ d.committed <= by

\* What was bought stays so: what counts of a row changes only with a change
\* of its password, and this one counts then.
LEMMA BoughtStays ==
  ASSUME TypeOK, Served, Writes, PasswordsSound, [Next]_vars,
         NEW u \in Ids, NEW pw, NEW at \in Nat, NEW by \in Nat, Bought(u, pw, at, by)
  PROVE  StillBought(u, pw, at, by)
<1>1. u \in Rows /\ at <= by /\ by <= now /\ Followed(u, pw, at) /\ SetAgain(u, pw, at, by)
  BY DEF Bought
<1>2. now \in Nat /\ now' \in Nat /\ now <= now'
  BY ClockIsNumber, StepKeeps
<1>3. u \in Rows' /\ at <= by /\ by <= now'
  BY <1>1, <1>2, RowsKept
<1>4. CASE (\A c \in Calls : ~ UpdatePasswordHash(c)) /\ changes' = changes
  <2>1. users'[u].pw = users[u].pw /\ users'[u].tva = users[u].tva
    BY <1>1, <1>4, PasswordsKept
  <2> QED BY <1>1, <1>3, <1>4, <2>1 DEF Followed, SetAgain, StillBought
<1>5. ASSUME NEW c \in Calls, UpdatePasswordHash(c)
      PROVE  /\ \/ users'[u].pw = pw
                \/ \E ch \in changes' : ch.user = u /\ ch.begun = users'[u].tva /\ at <= ch.committed
             /\ \A ch \in changes' : ch.user = u /\ ch.old = pw /\ ch.committed < at =>
                  \E d \in changes' : /\ d.user = u /\ d.new = pw
                                      /\ ch.committed <= d.committed /\ d.committed <= by
  <2> DEFINE new == [user |-> call[c].id, old |-> users[call[c].id].pw, new |-> Req(c).pw,
                     begun |-> call[c].begun, committed |-> now]
  <2>1. changes' = changes \cup {new}
    BY <1>5 DEF UpdatePasswordHash
  <2>2. new.user = call[c].id /\ new.begun = call[c].begun /\ new.committed = now
    OBVIOUS
  <2> HIDE DEF new
  <2>3. PICK r \in UserRow : Edits(call[c].id, r) /\ r.tva = call[c].begun
    BY <1>5, PasswordWrites
  <2>4. \A v \in Rows : users'[v] = IF v = call[c].id THEN r ELSE users[v]
    BY <2>3 DEF Edits, Rows, TypeOK
  <2>5. CASE call[c].id = u
    <3>1. new \in changes' /\ new.user = u /\ new.begun = users'[u].tva /\ at <= new.committed
      BY <1>1, <1>2, <2>1, <2>2, <2>3, <2>4, <2>5
    <3>2. ~ (new.committed < at)
      BY <1>1, <1>2, <2>2
    <3> QED BY <1>1, <2>1, <3>1, <3>2 DEF SetAgain
  <2>6. CASE call[c].id # u
    BY <1>1, <2>1, <2>2, <2>4, <2>6 DEF Followed, SetAgain
  <2> QED BY <2>5, <2>6
<1>6. changes' = changes \/ \E c \in Calls : UpdatePasswordHash(c)
  BY ChangesBy
<1> QED BY <1>3, <1>4, <1>5, <1>6 DEF StillBought

\* Tokens of logins are issued for what was bought.
LEMMA LoginIssues ==
  ASSUME TypeOK, Served, PasswordsSound, [Next]_vars,
         NEW t \in tokens', t \notin tokens, t.op = "login"
  PROVE  /\ t.user \in Ids /\ t.at \in Nat /\ t.iat \in Nat
         /\ Bought(t.user, t.pw, t.at, t.iat)
<1>1. CASE UNCHANGED tokens
  BY <1>1
<1>2. CASE Tick \/ UNCHANGED vars
  BY <1>1, <1>2 DEF Tick, vars, history
<1>3. ASSUME NEW i \in Instances,
             EnsureSystemData(i) \/ EnsureBootstrapAdmin(i) \/ ListenAndServe(i) \/ Crash(i)
      PROVE  UNCHANGED tokens
  BY <1>3 DEF EnsureSystemData, EnsureBootstrapAdmin, ListenAndServe, Crash, history
<1>4. ASSUME NEW c \in Calls,
             \/ \E i \in Instances, r \in Requests : Begin(c, i, r)
             \/ Leave(c) \/ Register(c) \/ AutoGrant(c) \/ CreatePasswordUser(c)
             \/ GetUserByEmail(c) \/ BeginUpdate(c) \/ UpdatePasswordHash(c)
             \/ FindJWTUser(c) \/ EnsureJWTUser(c) \/ ValidatePAT(c)
             \/ \E v \in Ids : ChangePassword(c, v) \/ GrantRole(c, v)
             \/ \E v \in Ids, p \in Pats : CreatePAT(c, v, p) \/ SoftDeleteToken(c, v, p)
             \/ \E p \in Pats : FindPAT(c, p)
      PROVE  UNCHANGED tokens
  BY <1>4 DEF Begin, Leave, Register, AutoGrant, CreatePasswordUser, GetUserByEmail, BeginUpdate,
     UpdatePasswordHash, FindJWTUser, EnsureJWTUser, ValidatePAT,
     ChangePassword, GrantRole, CreatePAT, SoftDeleteToken, FindPAT, history
<1>5. ASSUME NEW c \in Calls, Registered(c)
      PROVE  FALSE
  BY <1>5 DEF Registered, Issue
<1>6. ASSUME NEW c \in Calls, Login(c)
      PROVE  /\ t.user \in Ids /\ t.at \in Nat /\ t.iat \in Nat
             /\ Bought(t.user, t.pw, t.at, t.iat)
  <2>1. call[c].pc = "verify" /\ call[c].pc # "idle"
    BY <1>6 DEF Login, At
  <2>2. call[c].at \in Nat /\ Serving(call[c]) /\ call[c].id \in Ids
    BY <2>1, Requested, RowsAreRows DEF Served, Serving, Rows
  <2>3. /\ t = [op |-> "login", user |-> call[c].id, pw |-> Req(c).pw, at |-> call[c].at, iat |-> now]
        /\ Verify(call[c].read, Req(c).pw)
    BY <1>6 DEF Login, Issue
  <2>4. t.user = call[c].id /\ t.pw = call[c].read.pw /\ t.at = call[c].at /\ t.iat = now
    BY <2>3 DEF Verify
  <2>5. Bought(call[c].id, call[c].read.pw, call[c].at, now)
    BY <2>1 DEF PasswordsSound, At
  <2> QED BY <2>2, <2>4, <2>5, ClockIsNumber
<1> QED BY <1>1, <1>2, <1>3, <1>4, <1>5, <1>6 DEF Next

\* A change of a password is of a row; what it set is set again.
LEMMA ChangesStep ==
  ASSUME TypeOK, Served, Writes, PasswordsSound, [Next]_vars
  PROVE  /\ \A ch \in changes' : ch.user \in Rows' /\ ch.committed <= now'
         /\ \A u \in Rows' : SetAgain(u, users[u].pw, now + 1, now)'
<1>1. now \in Nat /\ now' \in Nat /\ now <= now'
  BY ClockIsNumber, StepKeeps
<1>2. \A ch \in changes : ch.user \in Rows /\ ch.user \in Rows' /\ ch.committed \in Nat /\ ch.committed <= now
  BY RowsKept DEF PasswordsSound, TypeOK
<1>3. CASE (\A c \in Calls : ~ UpdatePasswordHash(c)) /\ changes' = changes
  <2>1. ASSUME NEW u \in Rows', NEW ch \in changes', ch.user = u, ch.old = users'[u].pw
        PROVE  \E d \in changes' : /\ d.user = u /\ d.new = users'[u].pw
                                   /\ ch.committed <= d.committed /\ d.committed <= now'
    <3>1. u \in Rows /\ ch \in changes /\ ch.committed \in Nat /\ ch.committed <= now
      BY <1>2, <1>3, <2>1
    <3>2. users'[u].pw = users[u].pw
      BY <1>3, <3>1, PasswordsKept
    <3>3. PICK d \in changes : /\ d.user = u /\ d.new = users[u].pw
                               /\ ch.committed <= d.committed /\ d.committed <= now
      BY <1>1, <2>1, <3>1, <3>2 DEF PasswordsSound, SetAgain
    <3> QED BY <1>1, <1>2, <1>3, <3>2, <3>3
  <2> QED BY <1>1, <1>2, <1>3, <2>1 DEF SetAgain
<1>4. ASSUME NEW c \in Calls, UpdatePasswordHash(c)
      PROVE  /\ \A ch \in changes' : ch.user \in Rows' /\ ch.committed <= now'
             /\ \A u \in Rows' : SetAgain(u, users[u].pw, now + 1, now)'
  <2> DEFINE new == [user |-> call[c].id, old |-> users[call[c].id].pw, new |-> Req(c).pw,
                     begun |-> call[c].begun, committed |-> now]
  <2>1. changes' = changes \cup {new} /\ now' = now
    BY <1>4 DEF UpdatePasswordHash
  <2>2. new.user = call[c].id /\ new.new = Req(c).pw /\ new.committed = now
    OBVIOUS
  <2> HIDE DEF new
  <2>3. PICK r \in UserRow : Edits(call[c].id, r) /\ r.pw = Req(c).pw
    BY <1>4, PasswordWrites
  <2>4. /\ call[c].id \in Rows /\ Rows' = Rows
        /\ \A v \in Rows : users'[v] = IF v = call[c].id THEN r ELSE users[v]
    BY <2>3, RowsAreRows DEF Edits, Rows, TypeOK
  <2>5. ASSUME NEW u \in Rows', NEW ch \in changes', ch.user = u, ch.old = users'[u].pw
        PROVE  \E d \in changes' : /\ d.user = u /\ d.new = users'[u].pw
                                   /\ ch.committed <= d.committed /\ d.committed <= now'
    <3>1. CASE u = call[c].id
      <4>1. new \in changes' /\ new.user = u /\ new.new = users'[u].pw
        BY <2>1, <2>2, <2>3, <2>4, <3>1
      <4>2. ch.committed <= new.committed /\ new.committed <= now'
        BY <1>1, <1>2, <2>1, <2>2
      <4> QED BY <4>1, <4>2
    <3>2. CASE u # call[c].id
      <4>1. u \in Rows /\ ch \in changes /\ users'[u].pw = users[u].pw
        BY <2>1, <2>2, <2>4, <2>5, <3>2
      <4>2. PICK d \in changes : /\ d.user = u /\ d.new = users[u].pw
                                 /\ ch.committed <= d.committed /\ d.committed <= now
        BY <1>1, <1>2, <2>5, <4>1 DEF PasswordsSound, SetAgain
      <4> QED BY <2>1, <4>1, <4>2
    <3> QED BY <3>1, <3>2
  <2>6. \A ch \in changes' : ch.user \in Rows' /\ ch.committed <= now'
    BY <1>1, <1>2, <2>1, <2>2, <2>4
  <2> QED BY <2>5, <2>6 DEF SetAgain
<1>5. changes' = changes \/ \E c \in Calls : UpdatePasswordHash(c)
  BY ChangesBy
<1> QED BY <1>3, <1>4, <1>5

LEMMA PasswordsStep ==
  ASSUME TypeOK, Served, PasswordsSound, [Next]_vars
  PROVE  PasswordsSound'
<1>1. Writes /\ TypeOK'
  BY StepWrites, TypeStep
<1>2. now \in Nat /\ now' \in Nat /\ now <= now'
  BY ClockIsNumber, StepKeeps
<1>3. ASSUME NEW t \in tokens', t.op = "login"
      PROVE  Bought(t.user, t.pw, t.at, t.iat)'
  <2>1. t.user \in Ids /\ t.at \in Nat /\ t.iat \in Nat
    BY <1>1 DEF TypeOK
  <2>2. Bought(t.user, t.pw, t.at, t.iat)
    BY <1>3, LoginIssues DEF PasswordsSound
  <2>3. PICK u \in Ids, at \in Nat, by \in Nat : u = t.user /\ at = t.at /\ by = t.iat
    BY <2>1
  <2>4. Bought(u, t.pw, at, by)
    BY <2>2, <2>3
  <2>5. StillBought(u, t.pw, at, by)
    BY <1>1, <2>4, BoughtStays
  <2> QED BY <2>3, <2>5 DEF StillBought, Bought, Followed, SetAgain
<1>4. ASSUME NEW c \in Calls, At(c, "verify")'
      PROVE  Bought(call[c].id, call[c].read.pw, call[c].at, now)'
  <2>1. call'[c] # Idle /\ Served'
    BY <1>4, ServedStep DEF At, Idle
  <2>2. call'[c].id \in Rows' /\ call'[c].at \in Nat
    BY <1>1, <1>4, <2>1 DEF Served, Serving, At, TypeOK, InFlight
  <2>3. Bought(call'[c].id, call'[c].read.pw, call'[c].at, now)
    <3>1. CASE call'[c] = call[c]
      BY <1>4, <3>1 DEF PasswordsSound, At
    <3>2. CASE call'[c] # call[c]
      BY <1>4, <3>2, StepArrives, ReadIsBought DEF Arrives
    <3> QED BY <3>1, <3>2
  <2>4. PICK u \in Ids, at \in Nat : u = call'[c].id /\ at = call'[c].at
    BY <2>2 DEF Rows
  <2>5. call'[c].read.pw \in Passwords \cup {NoPassword}
    <3>1. call'[c].read \in UserRow
      BY <1>4, <2>1 DEF Served, Serving, At
    <3> QED BY <3>1 DEF UserRow
  <2>6. PICK pw \in Passwords \cup {NoPassword} : pw = call'[c].read.pw
    BY <2>5
  <2>7. Bought(u, pw, at, now)
    BY <2>3, <2>4, <2>6
  <2>8. PICK by \in Nat : by = now
    BY <1>2
  <2>9. Bought(u, pw, at, by)
    BY <2>7, <2>8
  <2>10. StillBought(u, pw, at, by)
    BY <1>1, <2>9, BoughtStays
  <2>11. \A d \in changes' : d.committed \in Nat
    BY <1>1 DEF TypeOK
  <2>12. /\ u \in Rows' /\ at <= now'
         /\ \A ch \in changes' : ch.user = u /\ ch.old = pw /\ ch.committed < at =>
              \E d \in changes' : /\ d.user = u /\ d.new = pw
                                  /\ ch.committed <= d.committed /\ d.committed <= now'
    BY <1>2, <2>10, <2>11 DEF StillBought
  <2> QED BY <1>2, <2>4, <2>6, <2>10, <2>12 DEF StillBought, Bought, Followed, SetAgain
<1> QED BY <1>1, <1>3, <1>4, ChangesStep DEF PasswordsSound

-----------------------------------------------------------------------------
(* Access tokens, and who comes with a company JWT *)

\* Access tokens are let in by ValidatePAT.
LEMMA EnteredBy ==
  ASSUME [Next]_vars
  PROVE  entered' = entered \/ \E c \in Calls : ValidatePAT(c)
<1>1. CASE Tick \/ UNCHANGED vars
  BY <1>1 DEF Tick, vars, history
<1>2. ASSUME NEW i \in Instances,
             EnsureSystemData(i) \/ EnsureBootstrapAdmin(i) \/ ListenAndServe(i) \/ Crash(i)
      PROVE  UNCHANGED entered
  BY <1>2 DEF EnsureSystemData, EnsureBootstrapAdmin, ListenAndServe, Crash, history
<1>3. ASSUME NEW c \in Calls,
           \/ \E i \in Instances, r \in Requests : Begin(c, i, r)
           \/ Leave(c) \/ Register(c) \/ AutoGrant(c) \/ CreatePasswordUser(c) \/ Registered(c)
           \/ GetUserByEmail(c) \/ Login(c) \/ BeginUpdate(c) \/ UpdatePasswordHash(c)
           \/ FindJWTUser(c) \/ EnsureJWTUser(c)
           \/ \E v \in Ids : ChangePassword(c, v) \/ GrantRole(c, v)
           \/ \E v \in Ids, p \in Pats : CreatePAT(c, v, p) \/ SoftDeleteToken(c, v, p)
           \/ \E p \in Pats : FindPAT(c, p)
      PROVE  UNCHANGED entered
  BY <1>3 DEF Begin, Leave, Register, AutoGrant, CreatePasswordUser, Registered, GetUserByEmail,
     Login, BeginUpdate, UpdatePasswordHash, FindJWTUser, EnsureJWTUser,
     ChangePassword, GrantRole, CreatePAT, SoftDeleteToken, FindPAT, history
<1> QED BY <1>1, <1>2, <1>3 DEF Next

\* A token that was not deleted when a request came is deleted later, if ever.
LEMMA PatStays ==
  ASSUME TypeOK, [Next]_vars, NEW p \in Pats, pats[p] # Absent,
         NEW at \in Nat, at <= now, pats[p].deleted >= at
  PROVE  /\ pats'[p] # Absent /\ pats'[p].expires = pats[p].expires
         /\ pats'[p].deleted >= at /\ at <= now'
<1>1. now \in Nat /\ now' \in Nat /\ now <= now'
  BY ClockIsNumber, StepKeeps
<1>2. /\ pats'[p] # Absent /\ pats'[p].expires = pats[p].expires
      /\ pats'[p].deleted = pats[p].deleted \/ pats'[p].deleted = now
  BY StepKeeps
<1> QED BY <1>1, <1>2

\* FindPAT finds a token that is not deleted.
LEMMA FoundStands ==
  ASSUME TypeOK, Served, NEW c \in Calls, NEW p \in Pats, FindPAT(c, p), At(c, "expiry")'
  PROVE  pats'[call'[c].id].deleted >= call'[c].at
<1>1. call[c].pc = "start" /\ call[c].pc # "idle"
  BY DEF FindPAT, Op, At
<1>2. call[c] \in InFlight /\ call[c].at \in Nat /\ call[c].at <= now
  BY <1>1, Requested, RowsAreRows DEF Served, Serving
<1>3. pats[p].deleted = Never /\ call' = [call EXCEPT ![c].pc = "expiry", ![c].id = p]
  <2>1. ~ Fail(c)
    BY <1>2 DEF Fail, Move, At, TypeOK, InFlight
  <2> QED BY <2>1 DEF FindPAT
<1>4. call'[c].id = p /\ call'[c].at = call[c].at
  BY <1>2, <1>3 DEF TypeOK, InFlight
<1>5. call[c].at <= Never
  <2>1. MaxTime \in Nat
    BY AccountsAssumption
  <2>2. now \in Nat /\ now <= MaxTime
    BY <2>1 DEF TypeOK
  <2> QED BY <1>2, <2>1, <2>2 DEF Never
<1>6. pats' = pats /\ Never \in Nat
  BY AccountsAssumption DEF FindPAT, Never
<1> QED BY <1>2, <1>3, <1>4, <1>5, <1>6

LEMMA PatsStep ==
  ASSUME TypeOK, Served, PatsSound, [Next]_vars
  PROVE  PatsSound'
<1>1. TypeOK' /\ Served'
  BY TypeStep, ServedStep
<1>2. now \in Nat /\ now' \in Nat /\ now <= now'
  BY ClockIsNumber, StepKeeps
<1>3. ASSUME NEW c \in Calls, At(c, "expiry")'
      PROVE  pats'[call'[c].id].deleted >= call'[c].at
  <2>1. CASE call'[c] # call[c]
    BY <1>3, <2>1, StepArrives, FoundStands DEF Arrives
  <2>2. CASE call'[c] = call[c]
    <3>1. At(c, "expiry") /\ call[c].pc # "idle"
      BY <1>3, <2>2 DEF At
    <3>2. call[c] \in InFlight /\ call[c].at \in Nat /\ Serving(call[c])
      BY <3>1, Requested, RowsAreRows DEF Served
    <3>3. call[c].id \in Pats /\ pats[call[c].id] # Absent /\ call[c].at <= now
      BY <3>1, <3>2 DEF Serving, At
    <3>4. pats[call[c].id].deleted >= call[c].at
      BY <3>1 DEF PatsSound
    <3>5. PICK p \in Pats, at \in Nat : p = call[c].id /\ at = call[c].at
      BY <3>2, <3>3
    <3>6. pats'[p].deleted >= at
      BY <3>3, <3>4, <3>5, PatStays
    <3> QED BY <2>2, <3>5, <3>6
  <2> QED BY <2>1, <2>2
<1>4. ASSUME NEW e \in entered'
      PROVE  /\ pats'[e.pat] # Absent /\ e.at <= now'
             /\ pats'[e.pat].deleted >= e.at /\ pats'[e.pat].expires >= e.at
  <2>1. e.pat \in Pats /\ e.at \in Nat
    BY <1>1 DEF TypeOK
  <2>2. CASE e \in entered
    <3>1. PICK p \in Pats, at \in Nat : p = e.pat /\ at = e.at
      BY <2>1
    <3>2. pats[p] # Absent /\ at <= now /\ pats[p].deleted >= at /\ pats[p].expires >= at
      BY <2>2, <3>1 DEF PatsSound
    <3>3. /\ pats'[p] # Absent /\ pats'[p].expires = pats[p].expires
          /\ pats'[p].deleted >= at /\ at <= now'
      BY <3>2, PatStays
    <3> QED BY <3>1, <3>2, <3>3
  <2>3. CASE e \notin entered
    <3>1. PICK c \in Calls : ValidatePAT(c)
      BY <2>3, EnteredBy
    <3>2. At(c, "expiry") /\ call[c].pc # "idle"
      BY <3>1 DEF ValidatePAT, At
    <3>3. call[c] \in InFlight /\ call[c].at \in Nat /\ Serving(call[c])
      BY <3>2, Requested, RowsAreRows DEF Served
    <3>4. call[c].id \in Pats /\ pats[call[c].id] # Absent /\ call[c].at <= now
      BY <3>2, <3>3 DEF Serving, At
    <3>5. pats[call[c].id].deleted >= call[c].at
      BY <3>2 DEF PatsSound
    <3>6. e = [pat |-> call[c].id, at |-> call[c].at] /\ ~ (pats[call[c].id].expires < now)
      BY <2>3, <3>1 DEF ValidatePAT
    <3>7. pats[call[c].id].expires \in Int
      BY <3>4 DEF TypeOK, PatRow
    <3>8. e.pat = call[c].id /\ e.at = call[c].at /\ pats' = pats /\ now' = now
      BY <3>1, <3>6 DEF ValidatePAT
    <3> QED BY <1>2, <3>3, <3>4, <3>5, <3>6, <3>7, <3>8
  <2> QED BY <2>2, <2>3
<1> QED BY <1>3, <1>4 DEF PatsSound

\* Whoever appears while a request looks for a person has come after it.
LEMMA NewcomersStep ==
  ASSUME TypeOK, Served, NewcomersOnly, [Next]_vars
  PROVE  NewcomersOnly'
<1> SUFFICES ASSUME NEW c \in Calls, call'[c].pc \in {"insert", "failed"}, Req(c)'.op = "jwt",
                    NEW u \in Rows', users'[u].ext = <<"staff", Req(c)'.staff>>
             PROVE  users'[u].created >= call'[c].at
  BY DEF NewcomersOnly, WithExternalId
<1>1. Writes /\ TypeOK' /\ Served'
  BY StepWrites, TypeStep, ServedStep
<1>2. now \in Nat
  BY ClockIsNumber
<1>3. call'[c] # Idle
  BY DEF Idle
<1>4. call'[c].at \in Nat
  BY <1>1, <1>3 DEF TypeOK, InFlight
<1>5. ASSUME call[c].pc # "idle", call'[c].at = call[c].at, u \notin Rows
      PROVE  users'[u].created >= call'[c].at
  <2>1. Serving(call[c])
    BY <1>5, Requested, RowsAreRows DEF Served
  <2>2. call[c].at <= now /\ users'[u].created = now
    BY <1>1, <1>5, <2>1, RowsKept DEF Serving
  <2> QED BY <1>2, <1>4, <1>5, <2>2
<1>6. ASSUME u \in Rows, call[c].pc \in {"insert", "failed"}, call'[c].at = call[c].at,
             call'[c].req = call[c].req
      PROVE  users'[u].created >= call'[c].at
  <2>1. users'[u].ext = users[u].ext /\ users'[u].created = users[u].created
    BY <1>1, <1>6, RowsKept
  <2>2. users[u].created >= call[c].at
    BY <1>6, <2>1 DEF NewcomersOnly, WithExternalId, Req
  <2> QED BY <1>6, <2>1, <2>2
<1>7. CASE call'[c] = call[c]
  BY <1>5, <1>6, <1>7
<1>8. CASE call'[c] # call[c] /\ call'[c].pc = "insert"
  <2>1. FindJWTUser(c)
    BY <1>8, StepArrives DEF Arrives, At
  <2>2. call[c].pc # "idle" /\ ~ Finish(c)
    BY <1>3, <2>1 DEF FindJWTUser, Op, At, Finish, TypeOK
  <2>3. call[c] \in InFlight /\ Move(c, "insert") /\ KnownStaff(c) = {}
    BY <2>1, <2>2, Requested DEF FindJWTUser
  <2>4. call'[c].at = call[c].at /\ call'[c].req = call[c].req
    BY <2>3 DEF Move, TypeOK, InFlight
  <2>5. u \notin Rows
    BY <1>1, <2>3, <2>4, RowsKept DEF KnownStaff, WithExternalId, Req
  <2> QED BY <1>5, <2>2, <2>4, <2>5
<1>9. CASE call'[c] # call[c] /\ call'[c].pc = "failed"
  <2>1. EnsureJWTUser(c)
    BY <1>9, StepArrives DEF Arrives, At
  <2>2. call[c].pc = "insert" /\ ~ Finish(c)
    BY <1>3, <2>1 DEF EnsureJWTUser, At, Finish, TypeOK
  <2>3. call[c] \in InFlight /\ Fail(c)
    BY <2>1, <2>2, Requested DEF EnsureJWTUser
  <2>4. call'[c].at = call[c].at /\ call'[c].req = call[c].req
    BY <2>3 DEF Fail, Move, TypeOK, InFlight
  <2> QED BY <1>5, <1>6, <2>2, <2>4
<1> QED BY <1>7, <1>8, <1>9

-----------------------------------------------------------------------------
(* The theorems *)

\* The inductive invariant.
Inv == TypeOK /\ Served /\ AdminSound /\ PasswordsSound /\ PatsSound /\ NewcomersOnly

\* Where a behaviour starts nothing is under way, and the account that may be
\* there is an administrator.
LEMMA InitTyped ==
  ASSUME Init
  PROVE  TypeOK
<1>1. 0 \in 0 .. MaxTime /\ now = 0
  BY AccountsAssumption DEF Init
<1>2. users \in [Ids -> UserRow \cup {Absent}]
  <2>1. CASE users = [u \in Ids |-> Absent]
    BY <2>1
  <2>2. ASSUME NEW s \in Standing,
               users = [u \in Ids |-> IF u = 1
                          THEN [User(<<"email", s.email>>, s.email, "password", s.pw, 0)
                                  EXCEPT !.admin = TRUE]
                          ELSE Absent]
        PROVE  users \in [Ids -> UserRow \cup {Absent}]
    <3>1. s.email \in Emails /\ s.pw \in Passwords
      BY AccountsAssumption
    <3>2. <<"email", s.email>> \in ExternalIds
      BY <3>1, ExternalTyped
    <3>3. [User(<<"email", s.email>>, s.email, "password", s.pw, 0) EXCEPT !.admin = TRUE] \in UserRow
      BY <1>1, <3>1, <3>2 DEF User, UserRow
    <3> QED BY <2>2, <3>3
  <2> QED BY <2>1, <2>2 DEF Init
<1>3. audits \subseteq Ids
  BY DEF Init
<1> QED BY <1>1, <1>2, <1>3 DEF Init, TypeOK

LEMMA InitSound == Init => Inv
<1> SUFFICES ASSUME Init
             PROVE  Inv
  OBVIOUS
<1>1. TypeOK
  BY InitTyped
<1>2. /\ now = 0 /\ \A i \in Instances : inst[i] = "down"
      /\ \A c \in Calls : call[c] = Idle
      /\ changes = {} /\ tokens = {} /\ entered = {}
      /\ audits = Rows
  BY DEF Init, Rows
<1>3. \A u \in Rows : users[u].admin /\ users[u].asked = 0 /\ users[u].created = 0
  BY DEF Init, Rows, User
<1>4. \A c \in Calls : call[c].pc = "idle"
  BY <1>2 DEF Idle
<1>5. Served
  BY <1>2, <1>3, <1>4 DEF Served, Inserting
<1>6. AdminSound
  <2>1. FirstIsAdmin
    BY <1>2, <1>3 DEF FirstIsAdmin
  <2> QED BY <1>3, <1>4, <2>1 DEF AdminSound, Granted
<1>7. PasswordsSound /\ PatsSound /\ NewcomersOnly
  BY <1>2, <1>4 DEF PasswordsSound, SetAgain, PatsSound, NewcomersOnly, At
<1> QED BY <1>1, <1>5, <1>6, <1>7 DEF Inv

LEMMA InvStep ==
  ASSUME Inv, [Next]_vars
  PROVE  Inv'
BY TypeStep, ServedStep, AdminStep, PasswordsStep, PatsStep, NewcomersStep DEF Inv

LEMMA Invariant == Spec => []Inv
<1> QED BY InitSound, InvStep, PTL DEF Spec

\* The type invariant: rows, requests, tokens and histories are well formed.
THEOREM TypeCorrect == Spec => []TypeOK
<1>1. Inv => TypeOK
  BY DEF Inv
<1> QED BY <1>1, Invariant, PTL

\* However registrations, company JWTs and starts interleave, the first
\* account is administrator, and nobody else becomes that by registering
\* (CreatePasswordUser's auto-grant, Run's order).
THEOREM FirstBecomesAdmin == Spec => []FirstIsAdmin
<1>1. Inv => FirstIsAdmin
  BY DEF Inv, AdminSound
<1> QED BY <1>1, Invariant, PTL

\* However logins, password changes and deletions of access tokens overlap, no
\* credential gets in that was out of force before the request came (Login,
\* UpdatePasswordHash, ValidatePAT).
THEOREM CredentialsStayInForce == Spec => []CredentialsInForce
<1>1. ASSUME Inv
      PROVE  CredentialsInForce
  <2>1. ASSUME NEW t \in tokens, t.op = "login"
        PROVE  Bought(t.user, t.pw, t.at, t.iat) /\ t.at \in Nat /\ t.iat \in Nat
    BY <1>1, <2>1 DEF Inv, PasswordsSound, TypeOK
  <2>2. ASSUME NEW t \in tokens, t.op = "login",
               t.iat >= users[t.user].tva, t.pw # users[t.user].pw
        PROVE  \E ch \in changes : ch.user = t.user /\ t.iat >= ch.begun /\ t.at <= ch.committed
    BY <2>1, <2>2 DEF Bought, Followed
  <2>3. ASSUME NEW t \in tokens, t.op = "login", NEW ch \in changes,
               ch.user = t.user, ch.old = t.pw, ch.committed < t.at
        PROVE  \E d \in changes : /\ d.user = t.user /\ d.new = t.pw
                                  /\ ch.committed <= d.committed /\ d.committed <= t.iat
    BY <2>1, <2>3 DEF Bought, SetAgain
  <2>4. \A e \in entered : pats[e.pat].deleted >= e.at /\ pats[e.pat].expires >= e.at
    BY <1>1 DEF Inv, PatsSound
  <2> QED BY <2>2, <2>3, <2>4 DEF CredentialsInForce
<1> QED BY <1>1, Invariant, PTL

\* Whoever has an account when a company JWT comes is found by it, whatever is
\* registered or renamed meanwhile (EnsureJWTUser).
THEOREM KnownPersonsAreFound == Spec => []KnownPersonsResolve
<1>1. Inv => KnownPersonsResolve
  BY DEF Inv, NewcomersOnly, KnownPersonsResolve, At, WithExternalId
<1> QED BY <1>1, Invariant, PTL
=============================================================================
