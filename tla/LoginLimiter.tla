---------------------------- MODULE LoginLimiter ----------------------------
(***************************************************************************)
(* The login handler and its limiter on Redis: a sorted set with one       *)
(* member per failed attempt, scored with its time, and a lockout key with *)
(* a TTL.  All keys belong to one client address and addresses share none, *)
(* so one address is modelled.  Every Redis command is a step of its own:  *)
(* logins of one address interleave between them.                          *)
(*                                                                         *)
(* Modelled: internal/auth/ratelimit/ratelimit.go and Login of             *)
(* internal/service/auth_service.go.  Time is relative: a failure has an   *)
(* age (Window stands for "Window or older"), the lockout key a rest of    *)
(* its TTL, so no clock needs a bound.  One Redis round trip of Record is  *)
(* shorter than the unit of time.                                          *)
(***************************************************************************)
EXTENDS Integers, FiniteSets

CONSTANTS Attempts,       \* logins of the address that may be in flight
          MaxAttempts,    \* Options.MaxAttempts
          Window,         \* Options.Window
          LockoutPeriod,  \* Options.LockoutPeriod
          MaxErrors       \* bound: failing Redis or database calls

ASSUME LoginLimiterAssumption ==
         /\ MaxAttempts \in Nat \ {0}
         /\ Window \in Nat \ {0}
         /\ LockoutPeriod \in Nat \ {0}
         /\ MaxErrors \in Nat
         /\ IsFiniteSet(Attempts)

VARIABLES failures, \* how many members the failures set has of each age
          lockout,  \* rest of the lockout key's TTL, 0 when there is no key
          pc,       \* where each login is
          errors    \* calls that have failed

limiterVars == <<failures, lockout, pc, errors>>

Ages == 0 .. Window
Places == {"idle", "exists", "zcard", "setnx", "verify", "zadd", "trim", "del"}

\* Members up to each age, and all of them.
UpTo(counts) ==
  LET sum[age \in Ages] == counts[age] + (IF age = 0 THEN 0 ELSE sum[age - 1])
  IN  sum
ZCard == UpTo(failures)[Window]

LimiterTypeOK ==
  /\ failures \in [Ages -> Nat]
  /\ lockout \in 0 .. LockoutPeriod
  /\ pc \in [Attempts -> Places]
  /\ errors \in 0 .. MaxErrors

Empty == [age \in Ages |-> 0]

LimiterInit ==
  /\ failures = Empty
  /\ lockout = 0
  /\ pc = [a \in Attempts |-> "idle"]
  /\ errors = 0

Move(a, from, to) == pc[a] = from /\ pc' = [pc EXCEPT ![a] = to]

-----------------------------------------------------------------------------
\* Failures grow older and the TTL runs down.
Older ==
  [age \in Ages |-> IF age = 0 THEN 0
                    ELSE IF age = Window THEN failures[age - 1] + failures[age]
                    ELSE failures[age - 1]]

TimePasses ==
  /\ \A a \in Attempts : pc[a] # "trim"
  /\ failures' = Older
  /\ lockout' = IF lockout = 0 THEN 0 ELSE lockout - 1
  /\ UNCHANGED <<pc, errors>>

-----------------------------------------------------------------------------
(* Check *)

Login(a) ==
  /\ Move(a, "idle", "exists")
  /\ UNCHANGED <<failures, lockout, errors>>

Exists(a) ==
  /\ Move(a, "exists", IF lockout > 0 THEN "idle" ELSE "zcard")
  /\ UNCHANGED <<failures, lockout, errors>>

\* Every member counts, whatever its age.
OverBy1(n) == n > MaxAttempts
TooMany(n) == n >= MaxAttempts

CountFailures(a) ==
  /\ Move(a, "zcard", IF TooMany(ZCard) THEN "setnx" ELSE "verify")
  /\ UNCHANGED <<failures, lockout, errors>>

\* SET with NX: a key that is there keeps its TTL.
SetAlways == LockoutPeriod
SetNX == IF lockout = 0 THEN LockoutPeriod ELSE lockout

LockOut(a) ==
  /\ Move(a, "setnx", "idle")
  /\ lockout' = SetNX
  /\ UNCHANGED <<failures, errors>>

-----------------------------------------------------------------------------
(* The credentials, and Record *)

\* Unknown address, no password account or wrong password: a failure to
\* record.  A disabled account is turned away without one.
Verify(a) ==
  /\ \E next \in {"zadd", "idle", "del"} : Move(a, "verify", next)
  /\ UNCHANGED <<failures, lockout, errors>>

RecordFailure(a) ==
  /\ Move(a, "zadd", "trim")
  /\ failures' = [failures EXCEPT ![0] = @ + 1]
  /\ UNCHANGED <<lockout, errors>>

\* ZRemRangeByScore drops what is not younger than the window.
Trim(a) ==
  /\ Move(a, "trim", "idle")
  /\ failures' = [failures EXCEPT ![Window] = 0]
  /\ UNCHANGED <<lockout, errors>>

\* One DEL of both keys; the login succeeds.
RecordSuccess(a) ==
  /\ Move(a, "del", "idle")
  /\ failures' = Empty
  /\ lockout' = 0
  /\ UNCHANGED errors

\* An error of Check fails the login; one of Record is ignored by Login; the
\* error of SetNX is ignored by Check.  Here nothing was written; a command
\* whose answer alone is lost acts like one that succeeds, with the trim after
\* a ZADD then failing.
CallFails(a) ==
  /\ errors < MaxErrors
  /\ pc[a] \in Places \ {"idle"}
  /\ pc' = [pc EXCEPT ![a] = "idle"]
  /\ errors' = errors + 1
  /\ UNCHANGED <<failures, lockout>>

-----------------------------------------------------------------------------
Continue(a) ==
  \/ Exists(a) \/ CountFailures(a) \/ LockOut(a) \/ Verify(a)
  \/ RecordFailure(a) \/ Trim(a) \/ RecordSuccess(a) \/ CallFails(a)

LimiterNext == TimePasses \/ \E a \in Attempts : Login(a) \/ Continue(a)

LimiterSpec == LimiterInit /\ [][LimiterNext]_limiterVars

\* Time passes, and a login that was started runs to its end.
LimiterFairSpec ==
  /\ LimiterSpec
  /\ SF_limiterVars(TimePasses)
  /\ \A a \in Attempts : WF_limiterVars(Continue(a))

-----------------------------------------------------------------------------
(* Properties *)

\* Check and Record are not one step, so logins in flight together may exceed
\* MaxAttempts, but only by each other: the failures recorded, and those the
\* logins past Check can still record, never exceed MaxAttempts by as many as
\* there are logins at once (Check's ZCARD against Record's ZADD).
PastCheck == {a \in Attempts : pc[a] \in {"verify", "zadd"}}

FailuresBounded ==
  ZCard + Cardinality(PastCheck) < MaxAttempts + Cardinality(Attempts)

\* Two logins that cross the threshold together lock the address out once: no
\* later step lengthens a lockout that is running (Check's SetNX).
LockoutNotProlonged == [][lockout > 0 => lockout' <= lockout]_limiterVars

\* "the TTL is LockoutPeriod, after which it lifts by itself" (ratelimit.go
\* Check): an address that is locked out some day passes Check again.
Open == lockout = 0 /\ ~ TooMany(ZCard)
LockoutLifts == lockout > 0 ~> Open
=============================================================================
