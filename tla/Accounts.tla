------------------------------- MODULE Accounts -------------------------------
(***************************************************************************)
(* Accounts: how they come about (registration, a company JWT of somebody  *)
(* new, the grant of a role, the bootstrap administrator of a starting     *)
(* instance), who becomes platform administrator by being the first, and   *)
(* what passwords and personal access tokens let in while they are changed *)
(* and deleted.                                                            *)
(*                                                                         *)
(* A transaction is atomic where nothing of it can be seen or met before   *)
(* its end; the row that a registration has inserted and not yet committed *)
(* can be met, through the unique indexes.  The clock only orders events;  *)
(* Sessions has the caches of tokens_valid_after, and RoleBindings what    *)
(* becomes of a role once it is granted.                                   *)
(***************************************************************************)
EXTENDS Integers, FiniteSets

CONSTANTS Ids,        \* bound: ids of users rows
          Emails, NoEmail, Staff, Passwords,
          BootstrapId, \* ENVVAULT_BOOTSTRAP_ADMIN_USER_ID, where it is set
          Pats,       \* bound: access tokens
          Instances, Calls,
          Standing,   \* the account that may be there at the start: its email, password
          Requests,   \* what clients may ask, beside what names a row
          MaxTime, MaxCalls \* bounds: clock, and requests in a behaviour

NoPassword == "none"
ASSUME AccountsAssumption ==
         /\ Ids \subseteq Nat /\ BootstrapId \in Ids /\ NoEmail \notin Emails
         /\ NoPassword \notin Passwords
         /\ Standing \subseteq [email : Emails, pw : Passwords]
         /\ MaxTime \in Nat /\ MaxCalls \in Nat
         /\ Requests \subseteq
              [op : {"register", "login"}, email : Emails, pw : Passwords]
              \cup [op : {"change"}, old : Passwords, pw : Passwords]
              \cup [op : {"jwt"}, staff : Staff, email : Emails \cup {NoEmail}]
              \cup [op : {"grant"}, email : Emails \cup {NoEmail}]
              \cup [op : {"patCreate"}, expires : Nat]
              \cup [op : {"patDelete", "pat"}]

VARIABLES now,     \* the clock
          sysRole, \* the role platform_admin is there
          inst,    \* where each instance is in Run
          users,   \* rows of users; each with its binding to platform_admin
          audits,  \* ids in the audit rows grant_role of registrations
          pats,    \* rows of access_tokens
          call,    \* requests in flight
          asked,   \* how many there were
          tokens,  \* history: tokens issued at a login or registration
          changes, \* history: password changes that have committed
          entered  \* history: access tokens let in, with when the request came

vars == <<now, sysRole, inst, users, audits, pats, call, asked, tokens, changes, entered>>
history == <<tokens, changes, entered>>

Absent == [absent |-> TRUE]
Idle == [pc |-> "idle"]
Rows == {u \in Ids : users[u] # Absent}
Never == MaxTime + 1
User(ext, email, source, pw, since) ==
  [ext |-> ext, email |-> email, source |-> source, pw |-> pw, tva |-> 0,
   admin |-> FALSE, asked |-> since, created |-> now]

Init ==
  /\ now = 0
  /\ inst = [i \in Instances |-> "down"]
  /\ sysRole \in BOOLEAN
  /\ users \in {[u \in Ids |-> Absent]} \cup
       {[u \in Ids |-> IF u = 1 THEN [User(<<"email", s.email>>, s.email, "password", s.pw, 0)
                                         EXCEPT !.admin = TRUE] ELSE Absent]
         : s \in {t \in Standing : sysRole}}
  /\ audits = {u \in Ids : users[u] # Absent} /\ tokens = {} /\ changes = {} /\ entered = {}
  /\ pats = [p \in Pats |-> Absent]
  /\ call = [c \in Calls |-> Idle]
  /\ asked = 0

Tick ==
  /\ now < MaxTime /\ now' = now + 1
  /\ UNCHANGED <<sysRole, inst, users, audits, pats, call, asked, history>>

-----------------------------------------------------------------------------
(* The users table *)

\* What an inserted or updated row runs into, by its unique indexes: rows that
\* are committed, and rows of other transactions, which it waits for.
Clash(r, s) == r.ext = s.ext \/ (r.email = s.email /\ r.email # NoEmail)
Conflict(r, but) == \E u \in Rows \ {but} : Clash(r, users[u])
Inserting(c) == call[c].pc \in {"grant", "commit"}
Waits(r) == \E c \in Calls : Inserting(c) /\ Clash(r, call[c].draft)
Free == {u \in Ids \ Rows : \A c \in Calls : Inserting(c) => call[c].id # u}
Least(S) == CHOOSE u \in S : \A v \in S : u <= v

\* upsertUserByIdTx: a row by its id, or a new one with its id for the external
\* one; without an email the row keeps the one it has.
Upserted(u, email, since) ==
  IF u \notin Rows THEN User(<<"id", u>>, email, "jwt", NoPassword, since)
  ELSE [users[u] EXCEPT !.email = IF email = NoEmail THEN @ ELSE email]

WithExternalId(ext) == {u \in Rows : users[u].ext = ext}
WithEmail(email) == {u \in Rows : users[u].email = email}

-----------------------------------------------------------------------------
(* Run: an instance serves once the system's roles are there, and the      *)
(* bootstrap administrator if there is to be one                           *)

Goes(i, from, to) == inst[i] = from /\ inst' = [inst EXCEPT ![i] = to]

EnsureSystemData(i) ==
  /\ Goes(i, "down", "data")
  /\ sysRole' = TRUE
  /\ UNCHANGED <<now, users, audits, pats, call, asked, history>>

\* The id that is set may be that of somebody who has registered.
EnsureBootstrapAdmin(i) ==
  /\ Goes(i, "data", "ready")
  /\ \/ UNCHANGED users
     \/ /\ BootstrapId \in Rows \cup Free
        /\ users' = [users EXCEPT ![BootstrapId] =
                       [Upserted(BootstrapId, NoEmail, now) EXCEPT !.admin = TRUE]]
  /\ UNCHANGED <<now, sysRole, audits, pats, call, asked, history>>

\* A mutation: the server listens at once.
ServesFrom(i) == {"down", "data", "ready"}
ServesAfter(i) == {"ready"}
ListenAndServe(i) ==
  /\ inst[i] \in ServesAfter(i)
  /\ inst' = [inst EXCEPT ![i] = "up"]
  /\ UNCHANGED <<now, sysRole, users, audits, pats, call, asked, history>>

\* A process that dies takes its requests along; the database rolls back.
Crash(i) ==
  /\ inst[i] # "down"
  /\ inst' = [inst EXCEPT ![i] = "down"]
  /\ call' = [c \in Calls |-> IF call[c].pc # "idle" /\ call[c].inst = i THEN Idle ELSE call[c]]
  /\ UNCHANGED <<now, sysRole, users, audits, pats, asked, history>>

-----------------------------------------------------------------------------
(* Requests *)

At(c, pc) == call[c].pc = pc
Op(c, op) == At(c, "start") /\ call[c].req.op = op
Req(c) == call[c].req
Move(c, pc) == call' = [call EXCEPT ![c].pc = pc]
Fail(c) == Move(c, "failed")
Finish(c) == call' = [call EXCEPT ![c] = Idle]

Begin(c, i, r) ==
  /\ At(c, "idle") /\ inst[i] = "up" /\ asked < MaxCalls
  /\ asked' = asked + 1
  /\ call' = [call EXCEPT ![c] = [pc |-> "start", inst |-> i, req |-> r, at |-> now,
                                  id |-> 0, draft |-> Absent, read |-> Absent, begun |-> 0,
                                  audit |-> FALSE]]
  /\ UNCHANGED <<now, sysRole, inst, users, audits, pats, history>>

\* A client is told of an error.
Leave(c) ==
  /\ At(c, "failed")
  /\ call' = [call EXCEPT ![c] = Idle]
  /\ UNCHANGED <<now, sysRole, inst, users, audits, pats, asked, history>>

\* insertPasswordUserTx: an email that is taken is an error.
Register(c) ==
  LET row == User(<<"email", Req(c).email>>, Req(c).email, "password", Req(c).pw, call[c].at)
  IN  /\ Op(c, "register") /\ ~ Waits(row)
      /\ IF Conflict(row, 0) THEN Fail(c)
         ELSE Free # {} /\ call' = [call EXCEPT ![c].pc = "grant", ![c].id = Least(Free),
                                                ![c].draft = row]
      /\ UNCHANGED <<now, sysRole, inst, users, audits, pats, asked, history>>

\* The role goes to the only user; the audit row is written in any case.
OnlyUser(c) == Rows = {}
AutoGrant(c) ==
  /\ At(c, "grant")
  /\ call' = [call EXCEPT ![c].pc = "commit", ![c].audit = sysRole,
                          ![c].draft.admin = sysRole /\ OnlyUser(c)]
  /\ UNCHANGED <<now, sysRole, inst, users, audits, pats, asked, history>>

CreatePasswordUser(c) ==
  /\ At(c, "commit")
  /\ users' = [users EXCEPT ![call[c].id] = [call[c].draft EXCEPT !.created = now]]
  /\ audits' = IF call[c].audit THEN audits \cup {call[c].id} ELSE audits
  /\ call' = [call EXCEPT ![c].pc = "reread"]
  /\ UNCHANGED <<now, sysRole, inst, pats, asked, history>>

\* The user is read again by the email, and gets a token: nobody's, if the
\* email was changed meanwhile, or even that of somebody who has taken it.
Issue(op, u, pw, at) ==
  tokens' = tokens \cup {[op |-> op, user |-> u, pw |-> pw, at |-> at, iat |-> now]}
Registered(c) ==
  /\ At(c, "reread")
  /\ IF WithEmail(Req(c).email) = {}
       THEN Fail(c) /\ UNCHANGED tokens
       ELSE Finish(c) /\ \E u \in WithEmail(Req(c).email) : Issue("register", u, Req(c).pw, call[c].at)
  /\ UNCHANGED <<now, sysRole, inst, users, audits, pats, asked, changes, entered>>

\* Login: the row by its email, then the password against what was read.
GetUserByEmail(c) ==
  /\ Op(c, "login")
  /\ IF WithEmail(Req(c).email) = {} THEN Fail(c)
     ELSE \E u \in WithEmail(Req(c).email) :
            call' = [call EXCEPT ![c].pc = "verify", ![c].id = u, ![c].read = users[u]]
  /\ UNCHANGED <<now, sysRole, inst, users, audits, pats, asked, history>>

Verify(row, pw) == row.source = "password" /\ row.pw = pw
Login(c) ==
  /\ At(c, "verify") /\ Req(c).op = "login"
  /\ IF Verify(call[c].read, Req(c).pw)
       THEN Finish(c) /\ Issue("login", call[c].id, Req(c).pw, call[c].at)
       ELSE Fail(c) /\ UNCHANGED tokens
  /\ UNCHANGED <<now, sysRole, inst, users, audits, pats, asked, changes, entered>>

\* ChangePassword: the row by its id, the old password against it, and a
\* transaction whose now() is its beginning.
ChangePassword(c, u) ==
  /\ Op(c, "change") /\ u \in Rows
  /\ IF users[u].pw = Req(c).old
       THEN call' = [call EXCEPT ![c].pc = "begin", ![c].id = u]
       ELSE Fail(c)
  /\ UNCHANGED <<now, sysRole, inst, users, audits, pats, asked, history>>

BeginUpdate(c) ==
  /\ At(c, "begin")
  /\ call' = [call EXCEPT ![c].pc = "update", ![c].begun = now]
  /\ UNCHANGED <<now, sysRole, inst, users, audits, pats, asked, history>>

\* A mutation: the tokens stay as they are.
KeepsTokens(row, pw, t) == [row EXCEPT !.pw = pw]
NewPassword(row, pw, t) == [row EXCEPT !.pw = pw, !.tva = t]
UpdatePasswordHash(c) ==
  LET u == call[c].id
  IN  /\ At(c, "update")
      /\ users' = [users EXCEPT ![u] = NewPassword(@, Req(c).pw, call[c].begun)]
      /\ changes' = changes \cup {[user |-> u, old |-> users[u].pw, new |-> Req(c).pw,
                                   begun |-> call[c].begun, committed |-> now]}
      /\ Finish(c)
      /\ UNCHANGED <<now, sysRole, inst, audits, pats, asked, tokens, entered>>

\* A mutation: the user by the email.
KnownEmail(c) == WithEmail(Req(c).email)
\* A company JWT: the user by the staff id, or a new one.
KnownStaff(c) == WithExternalId(<<"staff", Req(c).staff>>)
FindJWTUser(c) ==
  /\ Op(c, "jwt")
  /\ IF KnownStaff(c) # {} THEN Finish(c) ELSE Move(c, "insert")
  /\ UNCHANGED <<now, sysRole, inst, users, audits, pats, asked, history>>

EnsureJWTUser(c) ==
  LET row == User(<<"staff", Req(c).staff>>, Req(c).email, "jwt", NoPassword, call[c].at)
  IN  /\ At(c, "insert") /\ ~ Waits(row)
      /\ IF Conflict(row, 0) THEN Fail(c) /\ UNCHANGED users
         ELSE Free # {} /\ Finish(c) /\ users' = [users EXCEPT ![Least(Free)] = row]
      /\ UNCHANGED <<now, sysRole, inst, audits, pats, asked, history>>

\* The grant of a role to a user, whom it puts into the table; the email is
\* the caller's.  Of the role, see RoleBindings.  (SyncUser, too, ends in
\* upsertUserByIdTx, with the caller's own id and no email, which changes
\* nothing here.)
GrantRole(c, u) ==
  LET row == Upserted(u, Req(c).email, call[c].at)
  IN  /\ Op(c, "grant") /\ u \in Rows \cup Free /\ ~ Waits(row)
      /\ IF Conflict(row, u) THEN Fail(c) /\ UNCHANGED users
         ELSE Finish(c) /\ users' = [users EXCEPT ![u] = row]
      /\ UNCHANGED <<now, sysRole, inst, audits, pats, asked, history>>

-----------------------------------------------------------------------------
(* Personal access tokens *)

CreatePAT(c, u, p) ==
  /\ Op(c, "patCreate") /\ u \in Rows /\ pats[p] = Absent
  /\ pats' = [pats EXCEPT ![p] = [user |-> u, expires |-> Req(c).expires, deleted |-> Never]]
  /\ Finish(c)
  /\ UNCHANGED <<now, sysRole, inst, users, audits, asked, history>>

\* Of one's own tokens, and once.
SoftDeleteToken(c, u, p) ==
  /\ Op(c, "patDelete") /\ u \in Rows /\ pats[p] # Absent
  /\ IF pats[p].user = u /\ pats[p].deleted = Never
       THEN pats' = [pats EXCEPT ![p].deleted = now] /\ Finish(c)
       ELSE Fail(c) /\ UNCHANGED pats
  /\ UNCHANGED <<now, sysRole, inst, users, audits, asked, history>>

\* The row, then its expiry against the clock of the process.
FindPAT(c, p) ==
  /\ Op(c, "pat") /\ pats[p] # Absent
  /\ IF pats[p].deleted = Never
       THEN call' = [call EXCEPT ![c].pc = "expiry", ![c].id = p]
       ELSE Fail(c)
  /\ UNCHANGED <<now, sysRole, inst, users, audits, pats, asked, history>>

ValidatePAT(c) ==
  LET p == call[c].id
  IN  /\ At(c, "expiry")
      /\ IF pats[p].expires < now
           THEN Fail(c) /\ UNCHANGED entered
           ELSE Finish(c) /\ entered' = entered \cup {[pat |-> p, at |-> call[c].at]}
      /\ UNCHANGED <<now, sysRole, inst, users, audits, pats, asked, tokens, changes>>

-----------------------------------------------------------------------------
Next ==
  \/ Tick
  \/ \E i \in Instances : EnsureSystemData(i) \/ EnsureBootstrapAdmin(i) \/ ListenAndServe(i) \/ Crash(i)
  \/ \E c \in Calls :
       \/ \E i \in Instances, r \in Requests : Begin(c, i, r)
       \/ Leave(c) \/ Register(c) \/ AutoGrant(c) \/ CreatePasswordUser(c) \/ Registered(c)
       \/ GetUserByEmail(c) \/ Login(c) \/ BeginUpdate(c) \/ UpdatePasswordHash(c)
       \/ FindJWTUser(c) \/ EnsureJWTUser(c) \/ ValidatePAT(c)
       \/ \E u \in Ids : ChangePassword(c, u) \/ GrantRole(c, u)
       \/ \E u \in Ids, p \in Pats : CreatePAT(c, u, p) \/ SoftDeleteToken(c, u, p)
       \/ \E p \in Pats : FindPAT(c, p)

Spec == Init /\ [][Next]_vars

-----------------------------------------------------------------------------
(* Properties *)

\* Where all accounts are registered ones, one of them is administrator; and
\* nobody, but whom Run names, becomes that after a registration asked for when
\* there was an account already, or without an audit row (CreatePasswordUser's
\* auto-grant, Run's order).
FirstIsAdmin ==
  /\ Rows # {} /\ (\A u \in Rows : users[u].source = "password") =>
       \E u \in Rows : users[u].admin
  /\ \A u \in Rows \ {BootstrapId} : users[u].source = "password" /\ users[u].admin =>
       u \in audits /\ ~ \E v \in Rows : users[v].created < users[u].asked

\* A session outlives the change of the password it was bought with only if
\* its login and a change overlap; no login that begins after the change gets
\* in with the old password, unless that was set again before; and no access
\* token gets in that was deleted or expired before its request came (Login,
\* UpdatePasswordHash, ValidatePAT).
CredentialsInForce ==
  /\ \A t \in {s \in tokens : s.op = "login"} :
       /\ t.iat >= users[t.user].tva /\ t.pw # users[t.user].pw =>
            \E ch \in changes : ch.user = t.user /\ t.iat >= ch.begun /\ t.at <= ch.committed
       /\ \A ch \in changes : ch.user = t.user /\ ch.old = t.pw /\ ch.committed < t.at =>
            \E d \in changes : /\ d.user = t.user /\ d.new = t.pw
                               /\ ch.committed <= d.committed /\ d.committed <= t.iat
  /\ \A e \in entered : pats[e.pat].deleted >= e.at /\ pats[e.pat].expires >= e.at

\* Somebody with a company JWT who has an account already when the request
\* comes is let in, whatever is registered or renamed meanwhile: only a new
\* one can fail, on the unique indexes (EnsureJWTUser).
KnownPersonsResolve ==
  \A c \in Calls : At(c, "failed") /\ Req(c).op = "jwt" =>
    \A u \in WithExternalId(<<"staff", Req(c).staff>>) : users[u].created >= call[c].at
===============================================================================
