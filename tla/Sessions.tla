------------------------------ MODULE Sessions ------------------------------
(***************************************************************************)
(* Forced logout.  Every users row carries tokens_valid_after (tva); every *)
(* application instance keeps a TokensCache of those stamps, filled by     *)
(* three writers: the loader of a request that missed, the handler of a    *)
(* Logout or ChangePassword, and a refresher that replaces the whole map.  *)
(* A token is refused when it was issued before the stamp its request got. *)
(*                                                                         *)
(* Modelled: internal/auth/tokens_cache.go, the revocation part of         *)
(* internal/auth/jwt.go, Logout / ChangePassword / issueToken of           *)
(* internal/service/auth_service.go and the tokens_valid_after statements  *)
(* of internal/store/postgres/auth.go.  One unit of time is one value of   *)
(* the database clock; TicksPerSecond of them make the second to which a   *)
(* JWT NumericDate is cut.                                                 *)
(***************************************************************************)
EXTENDS Integers, FiniteSets

CONSTANTS Users,          \* rows of the users table
          Instances,      \* application processes, each with its TokensCache
          Requests,       \* HTTP requests that may be in flight at once
          Operations,     \* what the requests ask for, of OpNames
          MaxTime,        \* bound: the clock stops here
          TicksPerSecond, \* clock values per second
          TokenTTL,       \* AuthServiceOptions.TokenTTL, in clock values
          MaxFailures,    \* bound: failing database calls in a behaviour
          Absent          \* no entry in a cache, no snapshot in a refresher

OpNames == {"read", "logout", "change"}
Time == 0 .. MaxTime
Epoch == 0                \* the column default, and Go's zero time

ASSUME SessionsAssumption ==
         /\ MaxTime \in Nat \ {0}
         /\ TicksPerSecond \in Nat \ {0}
         /\ TokenTTL \in Nat
         /\ MaxFailures \in Nat
         /\ Operations \subseteq OpNames
         /\ Absent \notin Nat
         /\ Absent \notin [Users -> Time]

VARIABLES now,      \* the clock, shared by database and instances
          tva,      \* users.tokens_valid_after
          cache,    \* TokensCache.values of each instance
          refresh,  \* the map a refresher has loaded and not yet stored
          req,      \* the requests in flight
          failed,   \* database calls that have failed
          stamps,   \* history: the stamps ever committed for a user
          acked     \* history: latest stamp an instance reported as set

vars == <<now, tva, cache, refresh, req, failed, stamps, acked>>

Idle == [pc |-> "idle"]
Steps == {"get", "query", "store", "check", "accepted", "refused",
          "bump", "reread", "set"}

Token == [user : Users, iat : Time, exp : Nat, issued : Time]

Request == [pc    : Steps,
            inst  : Instances,
            op    : Operations,
            token : Token,
            value : Time,     \* the stamp the current step works with
            floor : Time]     \* history: acked when the request arrived

TypeOK ==
  /\ now \in Time
  /\ tva \in [Users -> Time]
  /\ cache \in [Instances -> [Users -> Time \cup {Absent}]]
  /\ refresh \in [Instances -> [Users -> Time] \cup {Absent}]
  /\ req \in [Requests -> Request \cup {Idle}]
  /\ failed \in 0 .. MaxFailures
  /\ stamps \in [Users -> SUBSET Time]
  /\ acked \in [Instances -> [Users -> Time]]

Init ==
  /\ now = 1
  /\ tva = [u \in Users |-> Epoch]
  /\ cache = [i \in Instances |-> [u \in Users |-> Absent]]
  /\ refresh = [i \in Instances |-> Absent]
  /\ req = [r \in Requests |-> Idle]
  /\ failed = 0
  /\ stamps = [u \in Users |-> {}]
  /\ acked = [i \in Instances |-> [u \in Users |-> Epoch]]

-----------------------------------------------------------------------------
(* Tokens *)

\* Seconds are cut off, not rounded up.
NumericDateUp(t) == t + (TicksPerSecond - (t % TicksPerSecond))
NumericDate(t) == t - (t % TicksPerSecond)

JWTRegisteredClaimsAt(u, t) ==
  [user |-> u, iat |-> NumericDate(t), exp |-> NumericDate(t + TokenTTL),
   issued |-> t]

\* A token of the very stamp is not revoked by it.
IsRevokedAtOrBy(token, stamp) == stamp # Epoch /\ token.iat <= stamp
IsRevokedBy(token, stamp) == stamp # Epoch /\ token.iat < stamp

Tick ==
  /\ now < MaxTime
  /\ now' = now + 1
  /\ UNCHANGED <<tva, cache, refresh, req, failed, stamps, acked>>

\* Login and Register end in issueToken and change nothing else here, and any
\* user may have logged in at any moment: these are the tokens around by now.
Issued == {JWTRegisteredClaimsAt(u, t) : u \in Users, t \in 1 .. now}

-----------------------------------------------------------------------------
(* The middleware: TokensCache.Get, then IsRevokedBy *)

Owner(r) == req[r].token.user
Home(r) == req[r].inst
At(r, step) == req[r].pc = step
Goto(r, step) == req' = [req EXCEPT ![r].pc = step]
GotoWith(r, step, stamp) ==
  req' = [req EXCEPT ![r].pc = step, ![r].value = stamp]
Finish(r) == req' = [req EXCEPT ![r] = Idle]
Store(i, u, stamp) == cache' = [cache EXCEPT ![i][u] = stamp]

\* The signature and exp are verified before the cache is asked.
Arrive(r, i, token, op) ==
  /\ At(r, "idle")
  /\ token.exp > now
  /\ req' = [req EXCEPT ![r] =
               [pc |-> "get", inst |-> i, op |-> op, token |-> token,
                value |-> Epoch, floor |-> acked[i][token.user]]]
  /\ UNCHANGED <<now, tva, cache, refresh, failed, stamps, acked>>

\* The read-locked lookup of Get: a hit answers at once, a miss unlocks and
\* asks the loader.
GetHit(r) ==
  /\ At(r, "get")
  /\ cache[Home(r)][Owner(r)] # Absent
  /\ GotoWith(r, "check", cache[Home(r)][Owner(r)])
  /\ UNCHANGED <<now, tva, cache, refresh, failed, stamps, acked>>

GetMiss(r) ==
  /\ At(r, "get")
  /\ cache[Home(r)][Owner(r)] = Absent
  /\ Goto(r, "query")
  /\ UNCHANGED <<now, tva, cache, refresh, failed, stamps, acked>>

\* GetTokensValidAfter
Load(r) ==
  /\ At(r, "query")
  /\ GotoWith(r, "store", tva[Owner(r)])
  /\ UNCHANGED <<now, tva, cache, refresh, failed, stamps, acked>>

\* A failing loader lets the request pass with the zero time, uncached.
LoadFails(r) ==
  /\ At(r, "query")
  /\ failed < MaxFailures
  /\ failed' = failed + 1
  /\ GotoWith(r, "check", Epoch)
  /\ UNCHANGED <<now, tva, cache, refresh, stamps, acked>>

\* The second locked section of Get overwrites whatever is there by now.
LoaderStores(r) ==
  /\ At(r, "store")
  /\ Store(Home(r), Owner(r), req[r].value)
  /\ Goto(r, "check")
  /\ UNCHANGED <<now, tva, refresh, failed, stamps, acked>>

Verdict(token, stamp) ==
  IF IsRevokedBy(token, stamp) THEN "refused" ELSE "accepted"

\* The stamp is a local variable of the middleware, dead after the verdict.
Check(r) ==
  /\ At(r, "check")
  /\ GotoWith(r, Verdict(req[r].token, req[r].value), Epoch)
  /\ UNCHANGED <<now, tva, cache, refresh, failed, stamps, acked>>

\* The 401, the answer of another handler, or an error of Logout or
\* ChangePassword before their database transaction.
Respond(r) ==
  /\ At(r, "refused") \/ At(r, "accepted")
  /\ Finish(r)
  /\ UNCHANGED <<now, tva, cache, refresh, failed, stamps, acked>>

-----------------------------------------------------------------------------
(* Logout and ChangePassword *)

\* The transaction begins: PostgreSQL fixes now() here for its whole length.
BumpBegins(r) ==
  /\ At(r, "accepted")
  /\ req[r].op \in {"logout", "change"}
  /\ GotoWith(r, "bump", now)
  /\ UNCHANGED <<now, tva, cache, refresh, failed, stamps, acked>>

\* The update takes the row and commits.  Logout gets its own stamp back
\* (RETURNING); ChangePassword reads the row again after its commit.
AfterCommit(op) == IF op = "change" THEN "reread" ELSE "set"

BumpCommits(r) ==
  /\ At(r, "bump")
  /\ tva' = [tva EXCEPT ![Owner(r)] = req[r].value]
  /\ stamps' = [stamps EXCEPT ![Owner(r)] = @ \cup {req[r].value}]
  /\ Goto(r, AfterCommit(req[r].op))
  /\ UNCHANGED <<now, cache, refresh, failed, acked>>

Reread(r) ==
  /\ At(r, "reread")
  /\ GotoWith(r, "set", tva[Owner(r)])
  /\ UNCHANGED <<now, tva, cache, refresh, failed, stamps, acked>>

\* The answer of the commit or of the re-read is lost: the handler reports
\* an error and never reaches its cache.
AnswerLost(r) ==
  /\ At(r, "set") \/ At(r, "reread")
  /\ failed < MaxFailures
  /\ failed' = failed + 1
  /\ Finish(r)
  /\ UNCHANGED <<now, tva, cache, refresh, stamps, acked>>

\* TokensCache.Set with the stamp the database returned, not with the clock
\* of the process; then the successful response.
ClockStamp(r) == now
ReturnedStamp(r) == req[r].value
Latest(s, t) == IF s < t THEN t ELSE s

Set(r) ==
  /\ At(r, "set")
  /\ Store(Home(r), Owner(r), ReturnedStamp(r))
  /\ acked' = [acked EXCEPT ![Home(r)][Owner(r)] = Latest(@, ReturnedStamp(r))]
  /\ Finish(r)
  /\ UNCHANGED <<now, tva, refresh, failed, stamps>>

-----------------------------------------------------------------------------
(* The refresher of an instance, and the death and restart of the process. *)
(* A failing full load leaves everything as it was until the next tick.    *)

\* ListUsersWithTokensValidAfter
RefreshLoads(i) ==
  /\ refresh[i] = Absent
  /\ refresh' = [refresh EXCEPT ![i] = tva]
  /\ UNCHANGED <<now, tva, cache, req, failed, stamps, acked>>

\* The loaded map replaces the old one, entries already there included.
MissingFrom(i) ==
  [u \in Users |-> IF cache[i][u] = Absent THEN refresh[i][u] ELSE cache[i][u]]
WholeMap(i) == refresh[i]

SetBatch(i) ==
  /\ refresh[i] # Absent
  /\ cache' = [cache EXCEPT ![i] = WholeMap(i)]
  /\ refresh' = [refresh EXCEPT ![i] = Absent]
  /\ UNCHANGED <<now, tva, req, failed, stamps, acked>>

\* A new process starts with an empty cache; its requests are gone.
NewTokensCache == [u \in Users |-> Absent]

AtInstance(r, i) == ~ At(r, "idle") /\ Home(r) = i

Restart(i) ==
  /\ cache' = [cache EXCEPT ![i] = NewTokensCache]
  /\ refresh' = [refresh EXCEPT ![i] = Absent]
  /\ req' = [r \in Requests |-> IF AtInstance(r, i) THEN Idle ELSE req[r]]
  /\ UNCHANGED <<now, tva, failed, stamps, acked>>

-----------------------------------------------------------------------------
Handle(r) ==
  \/ GetHit(r) \/ GetMiss(r) \/ Load(r) \/ LoadFails(r) \/ LoaderStores(r)
  \/ Check(r) \/ Respond(r)
  \/ BumpBegins(r) \/ BumpCommits(r) \/ Reread(r) \/ AnswerLost(r) \/ Set(r)

Next ==
  \/ Tick
  \/ \E r \in Requests, i \in Instances, token \in Issued, op \in Operations :
       Arrive(r, i, token, op)
  \/ \E r \in Requests : Handle(r)
  \/ \E i \in Instances : RefreshLoads(i) \/ SetBatch(i) \/ Restart(i)

Spec == Init /\ [][Next]_vars

\* A handler that was started runs to its end; the ticker keeps firing.
Fairness ==
  /\ \A r \in Requests : WF_vars(Handle(r))
  /\ \A i \in Instances : WF_vars(RefreshLoads(i)) /\ WF_vars(SetBatch(i))

FairSpec == Spec /\ Fairness

-----------------------------------------------------------------------------
(* Properties *)

Known(u, stamp) == stamp = Epoch \/ stamp \in stamps[u]

\* Whatever path a stamp took (loader, refresher, Set, re-read), what a
\* request or a cache holds, and what a client was told, was committed for that
\* very user: JWTMiddleware (jwt.go) never judges a token by an invented or
\* foreign stamp, and no success is reported for a logout that did not happen.
StampsAreGenuine ==
  /\ \A u \in Users : Known(u, tva[u])
  /\ \A i \in Instances, u \in Users :
       cache[i][u] # Absent => Known(u, cache[i][u])
  /\ \A i \in Instances :
       refresh[i] # Absent => \A u \in Users : Known(u, refresh[i][u])
  /\ \A r \in Requests :
       req[r].pc \in Steps \ {"bump"} => Known(Owner(r), req[r].value)
  /\ \A i \in Instances, u \in Users : Known(u, acked[i][u])

\* A request is refused as revoked only when some Logout or ChangePassword of
\* the token's own user committed a stamp later than the token's iat
\* (JWTMiddleware's 401 with ErrTokenRevoked), whatever raced or failed.
RefusedOnlyAfterLogout ==
  \A r \in Requests :
    At(r, "refused") => \E s \in stamps[Owner(r)] : req[r].token.iat < s

\* Once logouts settle, every cache entry of every instance agrees with the
\* database for good: no stale overwrite outlives a refresher cycle
\* (tokens_cache.go: other instances follow through the refresher).
CachesConverge ==
  <>[](\A i \in Instances, u \in Users : cache[i][u] \in {Absent, tva[u]})

\* ... and so no revoked token keeps passing anywhere: from some time on an
\* accepted token is not older than the stamp in the database (JWTMiddleware
\* behind any cache, whatever it once held).
RevokedTokensDieOut ==
  <>[](\A r \in Requests :
         At(r, "accepted") => req[r].token.iat >= tva[Owner(r)])

-----------------------------------------------------------------------------
(* What a document says and the code does not keep: the README has the     *)
(* behaviours that TLC finds                                               *)

\* "Logout / ChangePassword Set the cache so that this process's next request
\* sees it at once": a request that arrives after the success was reported is
\* not accepted with a token issued before (tokens_cache.go Set and SetBatch).
RefusedHereAfterLogout ==
  \A r \in Requests :
    At(r, "accepted") => req[r].token.issued >= req[r].floor

\* A logout that was reported stays in force in the database, from where the
\* refreshers carry it to the whole cluster.
AckedLogoutStands ==
  \A i \in Instances, u \in Users : acked[i][u] <= tva[u]
=============================================================================
