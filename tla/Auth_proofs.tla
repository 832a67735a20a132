----------------------------- MODULE Auth_proofs -----------------------------
(***************************************************************************)
(* Theorems about the package internal/auth: Sessions, for every set of    *)
(* users, instances, requests and operations and every bound of the run,   *)
(* and LoginLimiter, for every number of logins and every setting of the   *)
(* limiter that its assumption admits.  The two share no state.            *)
(***************************************************************************)
EXTENDS Sessions, LoginLimiter, FiniteSetTheorems, WellFoundedInduction, TLAPS

-----------------------------------------------------------------------------
(* Sessions                                                                *)

\* A date cut to the second is not after the date (jwt.NewNumericDate).
LEMMA NumericDateBound ==
  ASSUME NEW t \in Nat
  PROVE  NumericDate(t) \in 0 .. t
  BY SessionsAssumption DEF NumericDate

\* The tokens issueToken has signed by now are tokens.
LEMMA IssuedType ==
  ASSUME now \in Time
  PROVE  Issued \subseteq Token
<1>1. ASSUME NEW u \in Users, NEW t \in 1 .. now
      PROVE  JWTRegisteredClaimsAt(u, t) \in Token
  <2>1. t \in Nat /\ t \in Time /\ t + TokenTTL \in Nat
    BY SessionsAssumption DEF Time
  <2>2. NumericDate(t) \in Time
    BY <2>1, NumericDateBound, SessionsAssumption DEF Time
  <2>3. NumericDate(t + TokenTTL) \in Nat
    BY <2>1, NumericDateBound
  <2> QED
    BY <2>1, <2>2, <2>3 DEF JWTRegisteredClaimsAt, Token
<1> QED
  BY <1>1 DEF Issued

\* A request in flight has a home, an owner and a stamp.
LEMMA InFlight ==
  ASSUME TypeOK, NEW r \in Requests, req[r].pc \in Steps
  PROVE  /\ req[r] \in Request
         /\ Home(r) \in Instances /\ Owner(r) \in Users
         /\ req[r].value \in Time /\ req[r].op \in Operations
<1>1. req[r] \in Request
  BY DEF TypeOK, Idle, Steps
<1> QED
  BY <1>1 DEF Request, Home, Owner, Token

-----------------------------------------------------------------------------
(* Type correctness.  A step of a request replaces that request by another  *)
(* one of the same home, owner and operation, or by Idle; GotoType says so  *)
(* once for all steps.                                                      *)

\* A request that moves on keeps its type.
LEMMA GotoType ==
  ASSUME TypeOK, NEW r \in Requests, req[r].pc \in Steps,
         NEW step \in Steps, NEW stamp \in Time
  PROVE  /\ [req EXCEPT ![r].pc = step] \in [Requests -> Request \cup {Idle}]
         /\ [req EXCEPT ![r].pc = step, ![r].value = stamp]
              \in [Requests -> Request \cup {Idle}]
         /\ [req EXCEPT ![r] = Idle] \in [Requests -> Request \cup {Idle}]
<1>1. req[r] \in Request
  BY InFlight
<1>2. [req[r] EXCEPT !.pc = step] \in Request
  BY <1>1 DEF Request
<1>3. [req[r] EXCEPT !.pc = step, !.value = stamp] \in Request
  BY <1>1 DEF Request
<1> QED
  BY <1>2, <1>3 DEF TypeOK

\* The initial state is well typed.
LEMMA InitType == Init => TypeOK
  BY SessionsAssumption DEF Init, TypeOK, Time, Epoch

\* Every step keeps the types.
LEMMA StepType == TypeOK /\ [Next]_vars => TypeOK'
<1> SUFFICES ASSUME TypeOK, [Next]_vars
             PROVE  TypeOK'
  OBVIOUS
<1>0. Epoch \in Time /\ Absent \notin Time /\ Absent \notin [Users -> Time]
  BY SessionsAssumption DEF Time, Epoch
<1>1. CASE Tick
  BY <1>1, SessionsAssumption DEF Tick, TypeOK, Time
<1>2. ASSUME NEW r \in Requests, NEW i \in Instances, NEW token \in Issued,
             NEW op \in Operations, Arrive(r, i, token, op)
      PROVE  TypeOK'
  <2>1. token \in Token
    BY IssuedType DEF TypeOK
  <2>2. acked[i][token.user] \in Time
    BY <2>1 DEF TypeOK, Token
  <2>3. [pc |-> "get", inst |-> i, op |-> op, token |-> token,
         value |-> Epoch, floor |-> acked[i][token.user]] \in Request
    BY <1>0, <2>1, <2>2 DEF Request, Steps
  <2>4. req' \in [Requests -> Request \cup {Idle}]
    BY <1>2, <2>3 DEF Arrive, TypeOK
  <2> QED
    BY <1>2, <2>4 DEF Arrive, TypeOK
<1>3. ASSUME NEW r \in Requests, Handle(r)
      PROVE  TypeOK'
  <2>0. req[r].pc \in Steps
    BY <1>3 DEF Handle, At, Steps, GetHit, GetMiss, Load, LoadFails,
       LoaderStores, Check, Respond, BumpBegins, BumpCommits, Reread,
       AnswerLost, Set
  <2>1. /\ Home(r) \in Instances /\ Owner(r) \in Users
        /\ req[r].value \in Time /\ req[r].op \in Operations
    BY <2>0, InFlight
  <2>2. {"check", "query", "store", "accepted", "refused", "bump", "reread",
         "set"} \subseteq Steps
    BY DEF Steps
  <2>3. CASE GetHit(r)
    <3>1. cache[Home(r)][Owner(r)] \in Time
      BY <2>1, <2>3 DEF GetHit, TypeOK
    <3>2. req' \in [Requests -> Request \cup {Idle}]
      BY <2>0, <2>2, <3>1, <2>3, GotoType DEF GetHit, GotoWith
    <3> QED
      BY <3>2, <2>3 DEF GetHit, TypeOK
  <2>4. CASE GetMiss(r)
    BY <1>0, <2>0, <2>1, <2>2, <2>4, GotoType, SessionsAssumption
       DEF GetMiss, Goto, TypeOK
  <2>5. CASE Load(r)
    BY <1>0, <2>0, <2>1, <2>2, <2>5, GotoType, SessionsAssumption
       DEF Load, GotoWith, TypeOK
  <2>6. CASE LoadFails(r)
    <3>1. req' \in [Requests -> Request \cup {Idle}]
      BY <1>0, <2>0, <2>2, <2>6, GotoType DEF LoadFails, GotoWith
    <3>2. failed' \in 0 .. MaxFailures
      BY <2>6, SessionsAssumption DEF LoadFails, TypeOK
    <3> QED
      BY <3>1, <3>2, <2>6 DEF LoadFails, TypeOK
  <2>7. CASE LoaderStores(r)
    <3>1. req' \in [Requests -> Request \cup {Idle}]
      BY <2>0, <2>2, <2>7, GotoType, <2>1 DEF LoaderStores, Goto
    <3>2. cache' \in [Instances -> [Users -> Time \cup {Absent}]]
      BY <2>1, <2>7 DEF LoaderStores, Store, TypeOK
    <3> QED
      BY <2>1, <3>1, <3>2, <2>7 DEF LoaderStores, TypeOK
  <2>8. CASE Check(r)
    <3>1. Verdict(req[r].token, req[r].value) \in Steps
      BY <2>2 DEF Verdict
    <3>2. req' \in [Requests -> Request \cup {Idle}]
      BY <1>0, <2>0, <3>1, <2>8, GotoType DEF Check, GotoWith
    <3> QED
      BY <3>2, <2>8 DEF Check, TypeOK
  <2>9. CASE Respond(r)
    BY <1>0, <2>0, <2>1, <2>2, <2>9, GotoType, SessionsAssumption
       DEF Respond, Finish, TypeOK
  <2>10. CASE BumpBegins(r)
    BY <1>0, <2>0, <2>1, <2>2, <2>10, GotoType, SessionsAssumption
       DEF BumpBegins, GotoWith, TypeOK
  <2>11. CASE BumpCommits(r)
    <3>1. AfterCommit(req[r].op) \in Steps
      BY <2>2 DEF AfterCommit
    <3>2. req' \in [Requests -> Request \cup {Idle}]
      BY <1>0, <2>0, <3>1, <2>11, GotoType DEF BumpCommits, Goto
    <3>3. tva' \in [Users -> Time] /\ stamps' \in [Users -> SUBSET Time]
      BY <2>1, <2>11 DEF BumpCommits, TypeOK
    <3> QED
      BY <3>2, <3>3, <2>11 DEF BumpCommits, TypeOK
  <2>12. CASE Reread(r)
    <3>1. tva[Owner(r)] \in Time
      BY <2>1 DEF TypeOK
    <3>2. req' \in [Requests -> Request \cup {Idle}]
      BY <2>0, <2>2, <3>1, <2>12, GotoType DEF Reread, GotoWith
    <3> QED
      BY <3>2, <2>12 DEF Reread, TypeOK
  <2>13. CASE AnswerLost(r)
    <3>1. req' \in [Requests -> Request \cup {Idle}]
      BY <2>0, <2>1, <2>2, <2>13, GotoType DEF AnswerLost, Finish
    <3>2. failed' \in 0 .. MaxFailures
      BY <2>13, SessionsAssumption DEF AnswerLost, TypeOK
    <3> QED
      BY <3>1, <3>2, <2>13 DEF AnswerLost, TypeOK
  <2>14. CASE Set(r)
    <3>1. req' \in [Requests -> Request \cup {Idle}]
      BY <2>0, <2>1, <2>2, <2>14, GotoType DEF Set, Finish
    <3>2. ReturnedStamp(r) \in Time
      BY <2>1 DEF ReturnedStamp
    <3>3. cache' \in [Instances -> [Users -> Time \cup {Absent}]]
      BY <2>1, <3>2, <2>14 DEF Set, Store, TypeOK
    <3>4. \A s \in Time : Latest(s, ReturnedStamp(r)) \in Time
      BY <3>2 DEF Latest
    <3>5. acked' \in [Instances -> [Users -> Time]]
      BY <2>1, <3>4, <2>14 DEF Set, TypeOK
    <3> QED
      BY <3>1, <3>3, <3>5, <2>14 DEF Set, TypeOK
  <2> QED
    BY <1>3, <2>3, <2>4, <2>5, <2>6, <2>7, <2>8, <2>9, <2>10,
       <2>11, <2>12, <2>13, <2>14 DEF Handle
<1>4. ASSUME NEW i \in Instances, RefreshLoads(i)
      PROVE  TypeOK'
  BY <1>4 DEF RefreshLoads, TypeOK
<1>5. ASSUME NEW i \in Instances, SetBatch(i)
      PROVE  TypeOK'
  BY <1>5 DEF SetBatch, WholeMap, TypeOK
<1>6. ASSUME NEW i \in Instances, Restart(i)
      PROVE  TypeOK'
  BY <1>6 DEF Restart, NewTokensCache, TypeOK
<1>7. CASE UNCHANGED vars
  BY <1>7 DEF vars, TypeOK
<1> QED
  BY <1>1, <1>2, <1>3, <1>4, <1>5, <1>6, <1>7 DEF Next

\* Every variable keeps its type in every behaviour of the system.
THEOREM SessionsTyped == Spec => []TypeOK
<1>1. Init => TypeOK
  BY InitType
<1>2. TypeOK /\ [Next]_vars => TypeOK'
  BY StepType
<1> QED
  BY <1>1, <1>2, PTL DEF Spec

-----------------------------------------------------------------------------
(* Provenance.  History only grows, so a stamp once known stays known; each *)
(* step hands on stamps that are known already, except the commit, which    *)
(* makes its own stamp known as it writes it.                               *)

\* The parts of StampsAreGenuine and RefusedOnlyAfterLogout that speak of one
\* request.
Sound(q) ==
  /\ q.pc \in Steps \ {"bump"} => Known(q.token.user, q.value)
  /\ q.pc = "refused" => \E s \in stamps[q.token.user] : q.token.iat < s

\* The same, variable by variable.
Genuine ==
  /\ \A u \in Users : Known(u, tva[u])
  /\ \A i \in Instances, u \in Users :
       cache[i][u] # Absent => Known(u, cache[i][u])
  /\ \A i \in Instances :
       refresh[i] # Absent => \A u \in Users : Known(u, refresh[i][u])
  /\ \A i \in Instances, u \in Users : Known(u, acked[i][u])

SoundRequests == \A r \in Requests : Sound(req[r])

\* The two properties are exactly the strengthening, part by part.
LEMMA Parts ==
  (StampsAreGenuine /\ RefusedOnlyAfterLogout) <=> (Genuine /\ SoundRequests)
  BY DEF StampsAreGenuine, RefusedOnlyAfterLogout, Genuine, SoundRequests,
         Sound, Owner, At

\* A step that leaves the history and all but one request alone.
LEMMA OneRequest ==
  ASSUME TypeOK, SoundRequests, NEW r \in Requests, NEW q,
         req' = [req EXCEPT ![r] = q],
         UNCHANGED stamps, Sound(q)
  PROVE  SoundRequests'
<1>1. \A x \in Requests : req'[x] = IF x = r THEN q ELSE req[x]
  BY DEF TypeOK
<1> QED
  BY <1>1 DEF Sound, SoundRequests, Known

\* The forms a step of a request takes, and what each keeps.
LEMMA GotoSound ==
  ASSUME TypeOK, SoundRequests, NEW r \in Requests, req[r].pc \in Steps,
         UNCHANGED stamps, NEW step \in Steps, NEW stamp \in Time
  PROVE  /\ Goto(r, step) /\ step # "refused" /\ req[r].pc # "bump"
              => SoundRequests'
         /\ GotoWith(r, step, stamp) /\ step # "refused"
              /\ (step # "bump" => Known(Owner(r), stamp)) => SoundRequests'
         /\ Finish(r) => SoundRequests'
<1>0. req[r] \in Request
  BY InFlight
<1>1. ASSUME Goto(r, step), step # "refused", req[r].pc # "bump"
      PROVE  SoundRequests'
  <2> DEFINE q == [req[r] EXCEPT !.pc = step]
  <2>1. q.pc = step /\ q.token = req[r].token /\ q.value = req[r].value
    BY <1>0 DEF Request
  <2>2. Sound(q)
    BY <2>1, <1>1 DEF Sound, SoundRequests
  <2>3. req' = [req EXCEPT ![r] = q]
    BY <1>1 DEF Goto
  <2> QED
    BY <2>2, <2>3, OneRequest
<1>2. ASSUME GotoWith(r, step, stamp), step # "refused",
             step # "bump" => Known(Owner(r), stamp)
      PROVE  SoundRequests'
  <2> DEFINE q == [req[r] EXCEPT !.pc = step, !.value = stamp]
  <2>1. q.pc = step /\ q.token = req[r].token /\ q.value = stamp
    BY <1>0 DEF Request
  <2>2. Sound(q)
    BY <2>1, <1>2 DEF Sound, Owner
  <2>3. req' = [req EXCEPT ![r] = q]
    BY <1>2 DEF GotoWith
  <2> QED
    BY <2>2, <2>3, OneRequest
<1>3. ASSUME Finish(r)
      PROVE  SoundRequests'
  <2>1. Sound(Idle)
    BY DEF Sound, Idle, Steps
  <2> QED
    BY <2>1, <1>3, OneRequest DEF Finish
<1> QED
  BY <1>1, <1>2, <1>3

\* Every step keeps the provenance of stamps and of requests.
LEMMA StepProvenance ==
  TypeOK /\ Genuine /\ SoundRequests /\ [Next]_vars
    => (Genuine /\ SoundRequests)'
<1> SUFFICES ASSUME TypeOK, Genuine, SoundRequests, [Next]_vars
             PROVE  (Genuine /\ SoundRequests)'
  OBVIOUS
<1> USE DEF Known
<1>1. CASE Tick \/ UNCHANGED vars
  BY <1>1 DEF Tick, vars, Genuine, SoundRequests, Sound
<1>2. ASSUME NEW r \in Requests, NEW i \in Instances, NEW token \in Issued,
             NEW op \in Operations, Arrive(r, i, token, op)
      PROVE  (Genuine /\ SoundRequests)'
  <2> DEFINE q == [pc |-> "get", inst |-> i, op |-> op, token |-> token,
                   value |-> Epoch, floor |-> acked[i][token.user]]
  <2>1. Sound(q)
    BY DEF Sound
  <2>2. SoundRequests'
    BY <1>2, <2>1, OneRequest DEF Arrive
  <2> QED
    BY <1>2, <2>2 DEF Arrive, Genuine
<1>3. ASSUME NEW r \in Requests, Handle(r)
      PROVE  (Genuine /\ SoundRequests)'
  <2>0. req[r].pc \in Steps
    BY <1>3 DEF Handle, At, Steps, GetHit, GetMiss, Load, LoadFails,
       LoaderStores, Check, Respond, BumpBegins, BumpCommits, Reread,
       AnswerLost, Set
  <2>1. /\ req[r] \in Request
        /\ Home(r) \in Instances /\ Owner(r) \in Users
        /\ req[r].value \in Time
    BY <2>0, InFlight
  <2>2. Sound(req[r])
    BY DEF SoundRequests
  <2>3. {"check", "query", "store", "accepted", "refused", "bump", "reread",
         "set"} \subseteq Steps
    BY DEF Steps
  <2>4. Epoch \in Time /\ Absent \notin Time
    BY SessionsAssumption DEF Epoch, Time
  <2>5. CASE GetHit(r)
    <3>1. /\ cache[Home(r)][Owner(r)] \in Time
          /\ Known(Owner(r), cache[Home(r)][Owner(r)])
      BY <2>1, <2>5 DEF GetHit, TypeOK, Genuine
    <3>2. SoundRequests'
      BY <2>0, <2>3, <3>1, <2>5, GotoSound DEF GetHit
    <3> QED
      BY <3>2, <2>5 DEF GetHit, Genuine
  <2>6. CASE GetMiss(r)
    <3>1. SoundRequests'
      BY <2>0, <2>3, <2>4, <2>6, GotoSound DEF GetMiss, At
    <3> QED
      BY <3>1, <2>6 DEF GetMiss, Genuine
  <2>7. CASE Load(r)
    <3>1. tva[Owner(r)] \in Time /\ Known(Owner(r), tva[Owner(r)])
      BY <2>1 DEF TypeOK, Genuine
    <3>2. SoundRequests'
      BY <2>0, <2>3, <3>1, <2>7, GotoSound DEF Load
    <3> QED
      BY <3>2, <2>7 DEF Load, Genuine
  <2>8. CASE LoadFails(r)
    <3>1. SoundRequests'
      BY <2>0, <2>3, <2>4, <2>8, GotoSound DEF LoadFails
    <3> QED
      BY <3>1, <2>8 DEF LoadFails, Genuine
  <2>9. CASE LoaderStores(r)
    <3>1. SoundRequests'
      BY <2>0, <2>3, <2>4, <2>9, GotoSound DEF LoaderStores, At
    <3>2. Known(Owner(r), req[r].value)
      BY <2>2, <2>9, <2>3 DEF LoaderStores, At, Sound, Owner
    <3>3. \A i \in Instances, u \in Users :
            cache'[i][u] = IF i = Home(r) /\ u = Owner(r) THEN req[r].value
                                                         ELSE cache[i][u]
      BY <2>9 DEF LoaderStores, Store, TypeOK
    <3> QED
      BY <3>1, <3>2, <3>3, <2>9 DEF LoaderStores, Genuine
  <2>10. CASE Check(r)
    <3>1. CASE Verdict(req[r].token, req[r].value) = "refused"
      <4> DEFINE q == [req[r] EXCEPT !.pc = "refused", !.value = Epoch]
      <4>1. q.pc = "refused" /\ q.token = req[r].token /\ q.value = Epoch
        BY <2>1 DEF Request
      <4>2. req[r].value # Epoch /\ req[r].token.iat < req[r].value
        BY <3>1 DEF Verdict, IsRevokedBy
      <4>3. req[r].value \in stamps[req[r].token.user]
        BY <2>2, <2>3, <4>2, <2>10 DEF Sound, Check, At
      <4>4. Sound(q)
        BY <4>1, <4>2, <4>3 DEF Sound
      <4>5. req' = [req EXCEPT ![r] = q]
        BY <3>1, <2>10 DEF Check, GotoWith
      <4>6. SoundRequests'
        BY <4>4, <4>5, <2>10, OneRequest DEF Check
      <4> QED
        BY <4>6, <2>10 DEF Check, Genuine
    <3>2. CASE Verdict(req[r].token, req[r].value) = "accepted"
      <4>1. SoundRequests'
        BY <2>0, <2>3, <2>4, <3>2, <2>10, GotoSound DEF Check
      <4> QED
        BY <4>1, <2>10 DEF Check, Genuine
    <3> QED
      BY <3>1, <3>2 DEF Verdict
  <2>11. CASE Respond(r)
    <3>1. SoundRequests'
      BY <2>0, <2>3, <2>4, <2>11, GotoSound DEF Respond
    <3> QED
      BY <3>1, <2>11 DEF Respond, Genuine
  <2>12. CASE BumpBegins(r)
    <3>1. now \in Time
      BY DEF TypeOK
    <3>2. SoundRequests'
      BY <2>0, <2>3, <3>1, <2>12, GotoSound DEF BumpBegins
    <3> QED
      BY <3>2, <2>12 DEF BumpBegins, Genuine
  <2>13. CASE BumpCommits(r)
    <3>1. /\ \A u \in Users : stamps[u] \subseteq stamps'[u]
          /\ req[r].value \in stamps'[Owner(r)]
      BY <2>1, <2>13 DEF BumpCommits, TypeOK
    <3>2. \A u \in Users :
            tva'[u] = IF u = Owner(r) THEN req[r].value ELSE tva[u]
      BY <2>13 DEF BumpCommits, TypeOK
    <3>3. Genuine'
      BY <3>1, <3>2, <2>13 DEF BumpCommits, Genuine
    <3> DEFINE q == [req[r] EXCEPT !.pc = AfterCommit(req[r].op)]
    <3>4. /\ q.pc = AfterCommit(req[r].op)
          /\ q.token = req[r].token /\ q.value = req[r].value
      BY <2>1 DEF Request
    <3>5. \A x \in Requests : req'[x] = IF x = r THEN q ELSE req[x]
      BY <2>13 DEF BumpCommits, Goto, TypeOK
    <3>6. /\ req'[r].pc = AfterCommit(req[r].op)
          /\ req'[r].token = req[r].token /\ req'[r].value = req[r].value
      BY <3>4, <3>5
    <3>7. ASSUME NEW x \in Requests, x # r
          PROVE  Sound(req[x])'
      <4>1. req'[x] = req[x]
        BY <3>5, <3>7
      <4>2. req[x].pc \in Steps => req[x].token.user \in Users
        BY InFlight DEF Owner
      <4>3. Sound(req[x])
        BY DEF SoundRequests
      <4> QED
        BY <2>3, <3>1, <4>1, <4>2, <4>3 DEF Sound
    <3>8. Sound(req[r])'
      BY <3>1, <3>6 DEF Sound, AfterCommit, Owner
    <3> QED
      BY <3>3, <3>7, <3>8 DEF SoundRequests
  <2>14. CASE Reread(r)
    <3>1. tva[Owner(r)] \in Time /\ Known(Owner(r), tva[Owner(r)])
      BY <2>1 DEF TypeOK, Genuine
    <3>2. SoundRequests'
      BY <2>0, <2>3, <3>1, <2>14, GotoSound DEF Reread
    <3> QED
      BY <3>2, <2>14 DEF Reread, Genuine
  <2>15. CASE AnswerLost(r)
    <3>1. SoundRequests'
      BY <2>0, <2>3, <2>4, <2>15, GotoSound DEF AnswerLost
    <3> QED
      BY <3>1, <2>15 DEF AnswerLost, Genuine
  <2>16. CASE Set(r)
    <3>1. SoundRequests'
      BY <2>0, <2>3, <2>4, <2>16, GotoSound DEF Set
    <3>2. Known(Owner(r), ReturnedStamp(r))
      BY <2>2, <2>3, <2>16 DEF Set, At, Sound, Owner, ReturnedStamp
    <3>3. \A i \in Instances, u \in Users :
            cache'[i][u] = IF i = Home(r) /\ u = Owner(r)
                           THEN ReturnedStamp(r) ELSE cache[i][u]
      BY <2>16 DEF Set, Store, TypeOK
    <3>4. \A i \in Instances, u \in Users :
            acked'[i][u] = IF i = Home(r) /\ u = Owner(r)
                           THEN Latest(acked[i][u], ReturnedStamp(r))
                           ELSE acked[i][u]
      BY <2>16 DEF Set, TypeOK
    <3>5. \A i \in Instances, u \in Users : Known(u, acked'[i][u])
      BY <3>2, <3>4 DEF Latest, Genuine
    <3>6. \A i \in Instances, u \in Users :
            cache'[i][u] # Absent => Known(u, cache'[i][u])
      BY <3>2, <3>3 DEF Genuine
    <3> QED
      BY <3>1, <3>5, <3>6, <2>16 DEF Set, Genuine
  <2> QED
    BY <1>3, <2>5, <2>6, <2>7, <2>8, <2>9, <2>10, <2>11, <2>12, <2>13,
       <2>14, <2>15, <2>16 DEF Handle
<1>4. ASSUME NEW i \in Instances, RefreshLoads(i)
      PROVE  (Genuine /\ SoundRequests)'
  <2>1. \A x \in Instances :
          refresh'[x] = IF x = i THEN tva ELSE refresh[x]
    BY <1>4 DEF RefreshLoads, TypeOK
  <2>2. SoundRequests'
    BY <1>4 DEF RefreshLoads, SoundRequests, Sound
  <2> QED
    BY <1>4, <2>1, <2>2 DEF RefreshLoads, Genuine
<1>5. ASSUME NEW i \in Instances, SetBatch(i)
      PROVE  (Genuine /\ SoundRequests)'
  <2>1. \A x \in Instances :
          /\ cache'[x] = IF x = i THEN refresh[i] ELSE cache[x]
          /\ refresh'[x] = IF x = i THEN Absent ELSE refresh[x]
    BY <1>5 DEF SetBatch, WholeMap, TypeOK
  <2>2. SoundRequests'
    BY <1>5 DEF SetBatch, SoundRequests, Sound
  <2> QED
    BY <1>5, <2>1, <2>2 DEF SetBatch, Genuine
<1>6. ASSUME NEW i \in Instances, Restart(i)
      PROVE  (Genuine /\ SoundRequests)'
  <2>1. \A x \in Instances :
          /\ cache'[x] = IF x = i THEN NewTokensCache ELSE cache[x]
          /\ refresh'[x] = IF x = i THEN Absent ELSE refresh[x]
    BY <1>6 DEF Restart, TypeOK
  <2>2. \A u \in Users : NewTokensCache[u] = Absent
    BY DEF NewTokensCache
  <2>3. \A r \in Requests : req'[r] \in {Idle, req[r]}
    BY <1>6 DEF Restart
  <2>4. SoundRequests'
    BY <1>6, <2>3 DEF Restart, SoundRequests, Sound, Idle, Steps
  <2> QED
    BY <1>6, <2>1, <2>2, <2>4 DEF Restart, Genuine
<1> QED
  BY <1>1, <1>2, <1>3, <1>4, <1>5, <1>6 DEF Next

\* The invariant behind both theorems below.
LEMMA Invariance == Spec => [](TypeOK /\ Genuine /\ SoundRequests)
<1>1. Init => TypeOK /\ Genuine /\ SoundRequests
  <2>1. Init => Genuine
    BY DEF Init, Genuine, Known
  <2>2. Init => SoundRequests
    BY DEF Init, SoundRequests, Sound, Idle, Steps
  <2> QED
    BY <2>1, <2>2, InitType
<1>2. TypeOK /\ Genuine /\ SoundRequests /\ [Next]_vars
        => (TypeOK /\ Genuine /\ SoundRequests)'
  BY StepType, StepProvenance
<1> QED
  BY <1>1, <1>2, PTL DEF Spec

\* Every stamp in a database row, a cache, a refresher or a request, and every
\* stamp a client was told of, was committed by a Logout or ChangePassword of
\* that very user.
THEOREM StampsStayGenuine == Spec => []StampsAreGenuine
<1>1. TypeOK /\ Genuine /\ SoundRequests => StampsAreGenuine
  BY Parts
<1> QED
  BY <1>1, Invariance, PTL

\* The middleware refuses a token as revoked only when a committed Logout or
\* ChangePassword of the token's user is later than the token.
THEOREM NoSpuriousRevocation == Spec => []RefusedOnlyAfterLogout
<1>1. TypeOK /\ Genuine /\ SoundRequests => RefusedOnlyAfterLogout
  BY Parts
<1> QED
  BY <1>1, Invariance, PTL

-----------------------------------------------------------------------------
(* The login limiter                                                       *)

\* One unit of time keeps the counts of the failures numbers of members.
LEMMA OlderTyped ==
  ASSUME LimiterTypeOK
  PROVE  Older \in [Ages -> Nat]
<1>1. ASSUME NEW age \in Ages
      PROVE  (IF age = 0 THEN 0
              ELSE IF age = Window THEN failures[age - 1] + failures[age]
              ELSE failures[age - 1]) \in Nat
  <2>1. CASE age = 0
    BY <2>1
  <2>2. CASE age # 0
    <3>1. age - 1 \in Ages
      BY <2>2, LoginLimiterAssumption DEF Ages
    <3>2. failures[age - 1] \in Nat /\ failures[age] \in Nat
      BY <3>1 DEF LimiterTypeOK
    <3> QED BY <2>2, <3>2
  <2> QED BY <2>1, <2>2
<1> QED BY <1>1 DEF Older

\* A login that moves to a place of the handler keeps the type of pc.
LEMMA MoveTyped ==
  ASSUME LimiterTypeOK, NEW a \in Attempts, NEW from, NEW to \in Places,
         Move(a, from, to)
  PROVE  pc' \in [Attempts -> Places]
BY DEF LimiterTypeOK, Move

\* Every step of Login, of Check, of Record and of time keeps the types.
LEMMA TypeStep ==
  ASSUME LimiterTypeOK, [LimiterNext]_limiterVars
  PROVE  LimiterTypeOK'
<1>1. CASE UNCHANGED limiterVars
  BY <1>1 DEF LimiterTypeOK, limiterVars
<1>2. CASE TimePasses
  BY <1>2, OlderTyped, LoginLimiterAssumption DEF LimiterTypeOK, TimePasses
<1>3. ASSUME NEW a \in Attempts, Login(a)
      PROVE  LimiterTypeOK'
  BY <1>3, MoveTyped DEF Login, Places, LimiterTypeOK
<1>4. ASSUME NEW a \in Attempts, Exists(a)
      PROVE  LimiterTypeOK'
  BY <1>4, MoveTyped DEF Exists, Places, LimiterTypeOK
<1>5. ASSUME NEW a \in Attempts, CountFailures(a)
      PROVE  LimiterTypeOK'
  BY <1>5, MoveTyped DEF CountFailures, Places, LimiterTypeOK
<1>6. ASSUME NEW a \in Attempts, LockOut(a)
      PROVE  LimiterTypeOK'
  BY <1>6, MoveTyped, LoginLimiterAssumption DEF LockOut, SetNX, Places, LimiterTypeOK
<1>7. ASSUME NEW a \in Attempts, Verify(a)
      PROVE  LimiterTypeOK'
  BY <1>7, MoveTyped DEF Verify, Places, LimiterTypeOK
<1>8. ASSUME NEW a \in Attempts, RecordFailure(a)
      PROVE  LimiterTypeOK'
  <2>1. failures' \in [Ages -> Nat]
    BY <1>8, LoginLimiterAssumption DEF RecordFailure, LimiterTypeOK, Ages
  <2> QED BY <1>8, <2>1, MoveTyped DEF RecordFailure, Places, LimiterTypeOK
<1>9. ASSUME NEW a \in Attempts, Trim(a)
      PROVE  LimiterTypeOK'
  BY <1>9, MoveTyped DEF Trim, Places, LimiterTypeOK
<1>10. ASSUME NEW a \in Attempts, RecordSuccess(a)
       PROVE  LimiterTypeOK'
  BY <1>10, MoveTyped, LoginLimiterAssumption
     DEF RecordSuccess, Empty, Places, LimiterTypeOK
<1>11. ASSUME NEW a \in Attempts, CallFails(a)
       PROVE  LimiterTypeOK'
  BY <1>11, LoginLimiterAssumption DEF CallFails, Places, LimiterTypeOK
<1> QED
  BY <1>1, <1>2, <1>3, <1>4, <1>5, <1>6, <1>7, <1>8, <1>9, <1>10, <1>11
     DEF LimiterNext, Continue

\* The type invariant of the limiter.
THEOREM LimiterTyped == LimiterSpec => []LimiterTypeOK
<1>1. LimiterInit => LimiterTypeOK
  BY LoginLimiterAssumption DEF LimiterInit, Empty, LimiterTypeOK, Places
<1> QED BY <1>1, TypeStep, PTL DEF LimiterSpec

\* Only LockOut makes the key, and only where there is none; time and a
\* successful login take from its TTL.
LEMMA LockoutStep ==
  ASSUME LimiterTypeOK, [LimiterNext]_limiterVars, lockout > 0
  PROVE  lockout' <= lockout
<1>1. lockout \in Nat
  BY LoginLimiterAssumption DEF LimiterTypeOK
<1>2. CASE TimePasses
  BY <1>1, <1>2 DEF TimePasses
<1>3. ASSUME NEW a \in Attempts, LockOut(a)
      PROVE  lockout' <= lockout
  BY <1>1, <1>3 DEF LockOut, SetNX
<1>4. ASSUME NEW a \in Attempts, RecordSuccess(a)
      PROVE  lockout' <= lockout
  BY <1>1, <1>4 DEF RecordSuccess
<1>5. ASSUME NEW a \in Attempts,
             \/ Login(a) \/ Exists(a) \/ CountFailures(a) \/ Verify(a)
             \/ RecordFailure(a) \/ Trim(a) \/ CallFails(a)
      PROVE  lockout' <= lockout
  BY <1>1, <1>5 DEF Login, Exists, CountFailures, Verify, RecordFailure, Trim,
                    CallFails
<1>6. CASE UNCHANGED limiterVars
  BY <1>1, <1>6 DEF limiterVars
<1> QED BY <1>2, <1>3, <1>4, <1>5, <1>6 DEF LimiterNext, Continue

\* However many logins of the address cross the threshold together, none
\* lengthens a lockout that is running (Check's SetNX).
THEOREM LockoutStays == LimiterSpec => LockoutNotProlonged
<1>1. LimiterTypeOK /\ [LimiterNext]_limiterVars
        => [lockout > 0 => lockout' <= lockout]_limiterVars
  BY LockoutStep
<1> QED BY <1>1, LimiterTyped, PTL DEF LimiterSpec, LockoutNotProlonged

-----------------------------------------------------------------------------
(* The number of failures.  It is a recursive function, and what is true   *)
(* of its values for all ages is shown by the least age for which it is    *)
(* not: there is one, as numbers are well-founded.                         *)

Descends == {pair \in Nat \X Nat : pair[1] < pair[2]}

\* The order of the ages is well-founded.
LEMMA AgesWellFounded == IsWellFoundedOn(Descends, Nat)
<1>1. Descends = OpToRel(<, Nat)
  BY DEF Descends, OpToRel
<1> QED BY <1>1, NatLessThanWellFounded

\* Of some ages one is the least.
LEMMA LeastAge ==
  ASSUME NEW S \in SUBSET Nat, S # {}
  PROVE  \E n \in S : \A m \in S : n <= m
<1>1. PICK n \in S : \A m \in S : ~ (<<m, n>> \in Descends)
  BY AgesWellFounded, WFMin
<1>2. ASSUME NEW m \in S
      PROVE  n <= m
  <2>1. <<m, n>> \in Nat \X Nat
    OBVIOUS
  <2>2. m < n => <<m, n>> \in Descends
    BY <2>1 DEF Descends
  <2> QED BY <1>1, <2>2
<1> QED BY <1>2

\* So what holds at 0 and passes from each age to the next holds at all.
LEMMA AgeInduction ==
  ASSUME NEW Good \in SUBSET Ages,
         0 \in Good,
         \A n \in Ages : n # 0 /\ n - 1 \in Good => n \in Good
  PROVE  Good = Ages
<1>1. SUFFICES ASSUME Ages \ Good # {}
               PROVE  FALSE
  OBVIOUS
<1>2. PICK n \in Ages \ Good : \A m \in Ages \ Good : n <= m
  <2>1. Ages \ Good \in SUBSET Nat
    BY LoginLimiterAssumption DEF Ages
  <2> QED BY <1>1, <2>1, LeastAge
<1>3. n - 1 \in Ages /\ ~ (n <= n - 1)
  BY <1>2, LoginLimiterAssumption DEF Ages
<1> QED BY <1>2, <1>3

\* The counts up to an age, as the function is meant.
Sums(counts, n, sum) ==
  /\ sum \in [0 .. n -> Nat]
  /\ \A m \in 0 .. n : sum[m] = counts[m] + (IF m = 0 THEN 0 ELSE sum[m - 1])

\* There is such a function up to every age.
LEMMA SumsExist ==
  ASSUME NEW counts \in [Ages -> Nat]
  PROVE  \E sum : Sums(counts, Window, sum)
<1> DEFINE Good == {n \in Ages : \E sum : Sums(counts, n, sum)}
<1>1. 0 \in Good
  <2>1. 0 \in Ages /\ counts[0] \in Nat
    BY LoginLimiterAssumption DEF Ages
  <2>2. Sums(counts, 0, [m \in 0 .. 0 |-> counts[0]])
    BY <2>1 DEF Sums
  <2> QED BY <2>1, <2>2
<1>2. ASSUME NEW n \in Ages, n # 0, n - 1 \in Good
      PROVE  n \in Good
  <2>1. PICK sum : Sums(counts, n - 1, sum)
    BY <1>2
  <2>2. n \in Nat /\ n - 1 \in Nat /\ counts[n] \in Nat
    BY <1>2, LoginLimiterAssumption DEF Ages
  <2> DEFINE next == [m \in 0 .. n |-> IF m = n THEN counts[n] + sum[n - 1] ELSE sum[m]]
  <2>3. sum[n - 1] \in Nat /\ \A m \in 0 .. n - 1 : sum[m] \in Nat
    BY <2>1, <2>2 DEF Sums
  <2>4. next \in [0 .. n -> Nat]
    BY <2>2, <2>3
  <2>5. ASSUME NEW m \in 0 .. n
        PROVE  next[m] = counts[m] + (IF m = 0 THEN 0 ELSE next[m - 1])
    <3>1. CASE m = n
      BY <1>2, <2>2, <3>1
    <3>2. CASE m # n
      <4>1. m \in 0 .. n - 1 /\ next[m] = sum[m] /\ (m # 0 => next[m - 1] = sum[m - 1])
        BY <2>2, <3>2
      <4> QED BY <2>1, <4>1 DEF Sums
    <3> QED BY <3>1, <3>2
  <2>6. Sums(counts, n, next)
    BY <2>4, <2>5 DEF Sums
  <2> QED BY <2>6
<1>3. Good = Ages
  <2> HIDE DEF Good
  <2>1. Good \in SUBSET Ages
    BY DEF Good
  <2> QED BY <1>1, <1>2, <2>1, AgeInduction
<1>4. Window \in Ages
  BY LoginLimiterAssumption DEF Ages
<1> QED BY <1>3, <1>4

\* UpTo is this function.
LEMMA UpToSums ==
  ASSUME NEW counts \in [Ages -> Nat]
  PROVE  /\ UpTo(counts) \in [Ages -> Nat]
         /\ \A n \in Ages :
              UpTo(counts)[n] = counts[n] + (IF n = 0 THEN 0 ELSE UpTo(counts)[n - 1])
<1> DEFINE Value(sum) == [age \in Ages |-> counts[age] + (IF age = 0 THEN 0 ELSE sum[age - 1])]
<1>1. PICK total : Sums(counts, Window, total)
  BY SumsExist
<1>2. total = Value(total)
  BY <1>1 DEF Sums, Ages
<1>3. UpTo(counts) = CHOOSE sum : sum = Value(sum)
  BY DEF UpTo
<1>4. UpTo(counts) = Value(UpTo(counts))
  <2> HIDE DEF Value
  <2> QED BY <1>2, <1>3
<1>5. \A n \in Ages :
        UpTo(counts)[n] = counts[n] + (IF n = 0 THEN 0 ELSE UpTo(counts)[n - 1])
  BY <1>4
<1>6. \A n \in Ages : UpTo(counts)[n] \in Nat
  <2> DEFINE Good == {n \in Ages : UpTo(counts)[n] \in Nat}
  <2>1. 0 \in Good
    <3>1. 0 \in Ages
      BY LoginLimiterAssumption DEF Ages
    <3> QED BY <1>5, <3>1
  <2>2. ASSUME NEW n \in Ages, n # 0, n - 1 \in Good
        PROVE  n \in Good
    BY <1>5, <2>2
  <2>3. Good = Ages
    <3> HIDE DEF Good
    <3>1. Good \in SUBSET Ages
      BY DEF Good
    <3> QED BY <2>1, <2>2, <3>1, AgeInduction
  <2> QED BY <2>3
<1>7. UpTo(counts) \in [Ages -> Nat]
  <2>1. \E g : UpTo(counts) = [age \in Ages |-> g[age]]
    <3> DEFINE g == [age \in Ages |->
                       counts[age] + (IF age = 0 THEN 0 ELSE UpTo(counts)[age - 1])]
    <3>1. UpTo(counts) = [age \in Ages |-> g[age]]
      BY <1>4
    <3> QED BY <3>1
  <2> QED BY <1>6, <2>1
<1> QED BY <1>5, <1>7

\* Where nothing has failed there is nothing to count.
LEMMA CountEmpty == UpTo(Empty)[Window] = 0
<1> DEFINE Good == {n \in Ages : UpTo(Empty)[n] = 0}
<1>1. Empty \in [Ages -> Nat] /\ \A n \in Ages : Empty[n] = 0
  BY DEF Empty
<1>2. \A n \in Ages : UpTo(Empty)[n] = IF n = 0 THEN 0 ELSE 0 + UpTo(Empty)[n - 1]
  BY <1>1, UpToSums
<1>3. 0 \in Ages /\ Window \in Ages
  BY LoginLimiterAssumption DEF Ages
<1>4. Good = Ages
  <2>1. 0 \in Good
    BY <1>2, <1>3
  <2>2. ASSUME NEW n \in Ages, n # 0, n - 1 \in Good
        PROVE  n \in Good
    BY <1>2, <2>2
  <2>3. Good \in SUBSET Ages
    OBVIOUS
  <2> HIDE DEF Good
  <2> QED BY <2>1, <2>2, <2>3, AgeInduction
<1> QED BY <1>3, <1>4

\* One more of age 0 is one more.
LEMMA CountOneMore ==
  ASSUME NEW counts \in [Ages -> Nat]
  PROVE  UpTo([counts EXCEPT ![0] = @ + 1])[Window] = UpTo(counts)[Window] + 1
<1> DEFINE more == [counts EXCEPT ![0] = @ + 1]
           Good == {n \in Ages : UpTo(more)[n] = UpTo(counts)[n] + 1}
<1>1. 0 \in Ages /\ Window \in Ages
  BY LoginLimiterAssumption DEF Ages
<1>2. more \in [Ages -> Nat] /\ more[0] = counts[0] + 1
      /\ \A n \in Ages \ {0} : more[n] = counts[n]
  BY <1>1
<1>3. \A n \in Ages : UpTo(more)[n] = more[n] + (IF n = 0 THEN 0 ELSE UpTo(more)[n - 1])
  <2> HIDE DEF more
  <2> QED BY <1>2, UpToSums
<1>4. Good = Ages
  <2> HIDE DEF more
  <2>1. 0 \in Good
    BY <1>1, <1>2, <1>3, UpToSums
  <2>2. ASSUME NEW n \in Ages, n # 0, n - 1 \in Good
        PROVE  n \in Good
    <3>1. n - 1 \in Ages /\ UpTo(more)[n - 1] = UpTo(counts)[n - 1] + 1
      BY <2>2
    <3>2. UpTo(counts)[n - 1] \in Nat /\ counts[n] \in Nat
      BY <3>1, UpToSums
    <3>3. UpTo(counts)[n] = counts[n] + UpTo(counts)[n - 1]
      BY <2>2, UpToSums
    <3>4. UpTo(more)[n] = counts[n] + UpTo(more)[n - 1]
      BY <1>2, <1>3, <2>2
    <3> QED BY <3>1, <3>2, <3>3, <3>4
  <2>3. Good \in SUBSET Ages
    OBVIOUS
  <2> HIDE DEF Good
  <2> QED BY <2>1, <2>2, <2>3, AgeInduction
<1> QED BY <1>1, <1>4

\* Dropping the oldest leaves no more than before.
LEMMA CountTrimmed ==
  ASSUME NEW counts \in [Ages -> Nat]
  PROVE  UpTo([counts EXCEPT ![Window] = 0])[Window] <= UpTo(counts)[Window]
<1> DEFINE less == [counts EXCEPT ![Window] = 0]
           Good == {n \in Ages : UpTo(less)[n] <= UpTo(counts)[n]}
<1>1. 0 \in Ages /\ Window \in Ages
  BY LoginLimiterAssumption DEF Ages
<1>2. less \in [Ages -> Nat] /\ \A n \in Ages : less[n] <= counts[n]
  BY <1>1
<1>3. \A n \in Ages : UpTo(less)[n] = less[n] + (IF n = 0 THEN 0 ELSE UpTo(less)[n - 1])
  <2> HIDE DEF less
  <2> QED BY <1>2, UpToSums
<1>4. Good = Ages
  <2> HIDE DEF less
  <2>1. 0 \in Good
    BY <1>1, <1>2, <1>3, UpToSums
  <2>2. ASSUME NEW n \in Ages, n # 0, n - 1 \in Good
        PROVE  n \in Good
    <3>1. n - 1 \in Ages /\ UpTo(less)[n - 1] <= UpTo(counts)[n - 1]
      BY <2>2
    <3>2. /\ UpTo(counts)[n - 1] \in Nat /\ UpTo(less)[n - 1] \in Nat
          /\ counts[n] \in Nat /\ less[n] \in Nat
      BY <1>2, <3>1, UpToSums
    <3>3. UpTo(counts)[n] = counts[n] + UpTo(counts)[n - 1]
      BY <2>2, UpToSums
    <3>4. UpTo(less)[n] = less[n] + UpTo(less)[n - 1] /\ less[n] <= counts[n]
      BY <1>2, <1>3, <2>2
    <3> QED BY <3>1, <3>2, <3>3, <3>4
  <2>3. Good \in SUBSET Ages
    OBVIOUS
  <2> HIDE DEF Good
  <2> QED BY <2>1, <2>2, <2>3, AgeInduction
<1> QED BY <1>1, <1>4

\* Growing older, every failure still counts.
LEMMA CountOlder ==
  ASSUME LimiterTypeOK
  PROVE  UpTo(Older)[Window] = ZCard
<1> DEFINE Good == {n \in Ages : n # 0 /\ n # Window => UpTo(Older)[n] = UpTo(failures)[n - 1]}
<1>1. /\ 0 \in Ages /\ Window \in Ages /\ Window - 1 \in Ages /\ Window # 0
      /\ Ages \subseteq Nat
  BY LoginLimiterAssumption DEF Ages
<1>2. failures \in [Ages -> Nat] /\ Older \in [Ages -> Nat]
  BY OlderTyped DEF LimiterTypeOK
<1>3. /\ Older[0] = 0 /\ Older[Window] = failures[Window - 1] + failures[Window]
      /\ \A n \in Ages \ {0, Window} : Older[n] = failures[n - 1]
  BY <1>1 DEF Older
<1>4. /\ UpTo(Older) \in [Ages -> Nat] /\ UpTo(failures) \in [Ages -> Nat]
      /\ \A n \in Ages : UpTo(Older)[n] = Older[n] + (IF n = 0 THEN 0 ELSE UpTo(Older)[n - 1])
      /\ \A n \in Ages : UpTo(failures)[n]
                           = failures[n] + (IF n = 0 THEN 0 ELSE UpTo(failures)[n - 1])
  BY <1>2, UpToSums
<1>5. Good = Ages
  <2>1. 0 \in Good
    BY <1>1
  <2>2. ASSUME NEW n \in Ages, n # 0, n - 1 \in Good
        PROVE  n \in Good
    <3>1. SUFFICES ASSUME n # Window
                   PROVE  UpTo(Older)[n] = UpTo(failures)[n - 1]
      OBVIOUS
    <3>2. n - 1 \in Ages /\ n - 1 # Window
      BY <2>2, LoginLimiterAssumption DEF Ages
    <3>3. UpTo(Older)[n] = failures[n - 1] + UpTo(Older)[n - 1]
      BY <1>3, <1>4, <2>2, <3>1
    <3>4. CASE n = 1
      <4>1. UpTo(Older)[0] = 0 /\ UpTo(failures)[0] = failures[0] /\ failures[0] \in Nat
        BY <1>1, <1>2, <1>3, <1>4
      <4> QED BY <3>3, <3>4, <4>1
    <3>5. CASE n # 1
      <4>1. n - 1 # 0
        BY <1>1, <2>2, <3>5
      <4>2. UpTo(Older)[n - 1] = UpTo(failures)[n - 1 - 1]
        BY <2>2, <3>2, <4>1
      <4>3. UpTo(failures)[n - 1] = failures[n - 1] + UpTo(failures)[n - 1 - 1]
        BY <1>4, <3>2, <4>1
      <4> QED BY <3>3, <4>2, <4>3
    <3> QED BY <3>4, <3>5
  <2>3. Good \in SUBSET Ages
    OBVIOUS
  <2> HIDE DEF Good
  <2> QED BY <2>1, <2>2, <2>3, AgeInduction
<1>6. UpTo(Older)[Window] = failures[Window - 1] + failures[Window] + UpTo(Older)[Window - 1]
  BY <1>1, <1>3, <1>4
<1>7. UpTo(failures)[Window] = failures[Window] + UpTo(failures)[Window - 1]
  BY <1>1, <1>4
<1>8. UpTo(failures)[Window - 1] = failures[Window - 1] + UpTo(Older)[Window - 1]
  <2>1. CASE Window = 1
    BY <1>1, <1>2, <1>3, <1>4, <2>1
  <2>2. CASE Window # 1
    <3>1. Window - 1 # 0 /\ Window - 1 # Window
      BY <2>2, LoginLimiterAssumption
    <3>2. UpTo(Older)[Window - 1] = UpTo(failures)[Window - 1 - 1]
      BY <1>1, <1>5, <3>1
    <3> QED BY <1>1, <1>4, <3>1, <3>2
  <2> QED BY <2>1, <2>2
<1>9. failures[Window] \in Nat /\ failures[Window - 1] \in Nat /\ UpTo(Older)[Window - 1] \in Nat
  BY <1>1, <1>2, <1>4
<1> QED BY <1>6, <1>7, <1>8, <1>9 DEF ZCard

-----------------------------------------------------------------------------
(* The bound *)

\* The logins past Check are some of all.
LEMMA PastCheckCounted ==
  ASSUME NEW S \in SUBSET Attempts
  PROVE  /\ IsFiniteSet(S) /\ Cardinality(S) \in Nat /\ Cardinality(Attempts) \in Nat
         /\ Cardinality(S) <= Cardinality(Attempts)
         /\ \A T \in SUBSET S : Cardinality(T) <= Cardinality(S) /\ Cardinality(T) \in Nat
         /\ \A a \in S : Cardinality(S \ {a}) = Cardinality(S) - 1
<1>1. IsFiniteSet(Attempts) /\ IsFiniteSet(S)
  BY FS_Subset, LoginLimiterAssumption
<1>2. \A T \in SUBSET S : IsFiniteSet(T) /\ Cardinality(T) <= Cardinality(S)
  BY <1>1, FS_Subset
<1>3. Cardinality(S) <= Cardinality(Attempts)
  BY <1>1, FS_Subset
<1> QED BY <1>1, <1>2, <1>3, FS_CardinalityType, FS_RemoveElement

\* What a step does to the two sides of the bound: no step but Check's
\* adds a login, and no step but Record's a failure, which takes its login.
LEMMA BoundStep ==
  ASSUME LimiterTypeOK, LimiterTypeOK', FailuresBounded, [LimiterNext]_limiterVars
  PROVE  FailuresBounded'
<1> DEFINE n == Cardinality(Attempts)
<1>1. /\ ZCard \in Nat /\ ZCard' \in Nat
      /\ ZCard = UpTo(failures)[Window] /\ ZCard' = UpTo(failures')[Window]
  <2>1. Window \in Ages
    BY LoginLimiterAssumption DEF Ages
  <2>2. failures \in [Ages -> Nat] /\ failures' \in [Ages -> Nat]
    BY DEF LimiterTypeOK
  <2> QED BY <2>1, <2>2, UpToSums DEF ZCard
<1>2. PastCheck \in SUBSET Attempts /\ PastCheck' \in SUBSET Attempts
  BY DEF PastCheck
<1>3. /\ Cardinality(PastCheck) \in Nat /\ Cardinality(PastCheck') \in Nat /\ n \in Nat
      /\ Cardinality(PastCheck') <= n
  BY <1>2, PastCheckCounted
<1>4. ASSUME ZCard' <= ZCard, PastCheck' \subseteq PastCheck
      PROVE  FailuresBounded'
  <2>1. Cardinality(PastCheck') <= Cardinality(PastCheck)
    BY <1>2, <1>4, PastCheckCounted
  <2> QED BY <1>1, <1>3, <1>4, <2>1, LoginLimiterAssumption DEF FailuresBounded
<1>5. CASE UNCHANGED limiterVars
  BY <1>1, <1>4, <1>5 DEF limiterVars, PastCheck
<1>6. CASE TimePasses
  BY <1>1, <1>4, <1>6, CountOlder DEF TimePasses, PastCheck
<1>7. ASSUME NEW a \in Attempts,
             Login(a) \/ Exists(a) \/ LockOut(a) \/ Verify(a) \/ CallFails(a)
      PROVE  FailuresBounded'
  <2>1. failures' = failures
    BY <1>7 DEF Login, Exists, LockOut, Verify, CallFails
  <2>2. PastCheck' \subseteq PastCheck
    BY <1>7 DEF Login, Exists, LockOut, Verify, CallFails, Move, PastCheck, LimiterTypeOK
  <2> QED BY <1>1, <1>4, <2>1, <2>2
<1>8. ASSUME NEW a \in Attempts, CountFailures(a)
      PROVE  FailuresBounded'
  <2>1. failures' = failures
    BY <1>8 DEF CountFailures
  <2>2. CASE TooMany(ZCard)
    <3>1. PastCheck' \subseteq PastCheck
      BY <1>8, <2>2 DEF CountFailures, Move, PastCheck, LimiterTypeOK
    <3> QED BY <1>1, <1>4, <2>1, <3>1
  <2>3. CASE ~ TooMany(ZCard)
    <3>1. ZCard < MaxAttempts
      BY <1>1, <2>3, LoginLimiterAssumption DEF TooMany
    <3> QED BY <1>1, <1>3, <2>1, <3>1, LoginLimiterAssumption DEF FailuresBounded
  <2> QED BY <2>2, <2>3
<1>9. ASSUME NEW a \in Attempts, RecordFailure(a)
      PROVE  FailuresBounded'
  <2>1. ZCard' = ZCard + 1
    BY <1>1, <1>9, CountOneMore DEF RecordFailure, LimiterTypeOK
  <2>2. a \in PastCheck /\ PastCheck' = PastCheck \ {a}
    BY <1>9 DEF RecordFailure, Move, PastCheck, LimiterTypeOK
  <2>3. Cardinality(PastCheck') = Cardinality(PastCheck) - 1
    BY <1>2, <2>2, PastCheckCounted
  <2> QED BY <1>1, <1>3, <2>1, <2>3, LoginLimiterAssumption DEF FailuresBounded
<1>10. ASSUME NEW a \in Attempts, Trim(a)
       PROVE  FailuresBounded'
  <2>1. ZCard' <= ZCard
    BY <1>1, <1>10, CountTrimmed DEF Trim, LimiterTypeOK
  <2>2. PastCheck' \subseteq PastCheck
    BY <1>10 DEF Trim, Move, PastCheck, LimiterTypeOK
  <2> QED BY <1>4, <2>1, <2>2
<1>11. ASSUME NEW a \in Attempts, RecordSuccess(a)
       PROVE  FailuresBounded'
  <2>1. ZCard' = 0
    BY <1>1, <1>11, CountEmpty DEF RecordSuccess
  <2>2. PastCheck' \subseteq PastCheck
    BY <1>11 DEF RecordSuccess, Move, PastCheck, LimiterTypeOK
  <2> QED BY <1>1, <1>4, <2>1, <2>2
<1> QED BY <1>5, <1>6, <1>7, <1>8, <1>9, <1>10, <1>11 DEF LimiterNext, Continue

\* However many logins of the address are between Check and Record, they
\* exceed MaxAttempts only by each other.
THEOREM FailuresStayBounded == LimiterSpec => []FailuresBounded
<1>1. LimiterInit => FailuresBounded
  <2>1. SUFFICES ASSUME LimiterInit
                 PROVE  FailuresBounded
    OBVIOUS
  <2>2. ZCard = 0
    BY <2>1, CountEmpty DEF LimiterInit, ZCard
  <2>3. PastCheck = {}
    BY <2>1 DEF LimiterInit, PastCheck
  <2>4. Cardinality(PastCheck) = 0 /\ Cardinality(Attempts) \in Nat
    BY <2>3, FS_EmptySet, FS_CardinalityType, LoginLimiterAssumption
  <2> QED BY <2>2, <2>4, LoginLimiterAssumption DEF FailuresBounded
<1>2. LimiterTypeOK /\ LimiterTypeOK' /\ FailuresBounded /\ [LimiterNext]_limiterVars
        => FailuresBounded'
  BY BoundStep
<1> QED BY <1>1, <1>2, LimiterTyped, PTL DEF LimiterSpec
=============================================================================
