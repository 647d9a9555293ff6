------------------------------- MODULE Lockout -------------------------------
(***************************************************************************)
(* The failed-login counter of one account and the lock it trips: several  *)
(* sign-ins of the same account check the lock, verify a password, count   *)
(* the failure and write locked_until in separate awaits.                  *)
(***************************************************************************)
EXTENDS Integers, FiniteSets

CONSTANTS
  Attempts,     \* sign-ins of the account that may be in flight
  MaxFailed,    \* maxFailedAttempts
  LockTicks,    \* lockoutSeconds, in ticks
  LastInstant      \* bounds time

VARIABLES
  now,
  failedCount,  \* users.failed_login_count
  lockedUntil,  \* users.locked_until, Null for none
  attempt,      \* what each sign-in is doing
  guesses       \* history: wrong passwords since the last success or lapse of a lock

\* Both settings are positive (config.ts:215-216).
ASSUME LockoutAssumption ==
  /\ IsFiniteSet(Attempts)
  /\ MaxFailed \in Nat \ {0} /\ LockTicks \in Nat \ {0} /\ LastInstant \in Nat

lockoutVars == <<now, failedCount, lockedUntil, attempt, guesses>>

Null == -1
N == Cardinality(Attempts)
MostGuesses == MaxFailed - 1 + (N * (N + 1)) \div 2
NotTrying == [stage |-> "idle"]
Attempt == [stage: {"idle", "verify", "login"}] \cup [stage: {"count"}, at: Nat]
           \cup [stage: {"lock"}, at: Nat, count: Nat]

LockoutInit ==
  /\ now = 0
  /\ failedCount = 0
  /\ lockedUntil = Null
  /\ attempt = [a \in Attempts |-> NotTrying]
  /\ guesses = 0

Locked == lockedUntil # Null /\ now < lockedUntil
Becomes(a, x) == attempt' = [attempt EXCEPT ![a] = x]

\* Mutant: one failure more than the threshold is let through.
LockoutPolicyLate(count, at) ==
  IF count <= MaxFailed \/ now >= at + LockTicks THEN Null ELSE at + LockTicks

\* lockoutPolicy, of a failure that happened at the instant it is decided.
LockoutPolicy(count, at) == IF count < MaxFailed THEN Null ELSE at + LockTicks

\* getLoginState: locked accounts are refused before the password is looked at.
CheckLock(a) ==
  /\ attempt[a] = NotTrying
  /\ ~Locked
  /\ Becomes(a, [stage |-> "verify"])
  /\ UNCHANGED <<now, failedCount, lockedUntil, guesses>>

Verify(a, right) ==
  /\ attempt[a].stage = "verify"
  /\ Becomes(a, IF right THEN [stage |-> "login"] ELSE [stage |-> "count", at |-> now])
  /\ UNCHANGED <<now, failedCount, lockedUntil, guesses>>

\* Mutant: an account that was never locked before is not counted.
CountNothing(a) ==
  /\ attempt[a].stage = "count"
  /\ guesses' = guesses + 1
  /\ Becomes(a, [stage |-> "lock", at |-> attempt[a].at, count |-> Null])
  /\ UNCHANGED <<now, failedCount, lockedUntil>>

\* One statement increments the counter and returns it.
RecordFailedLogin(a) ==
  /\ attempt[a].stage = "count"
  /\ failedCount' = failedCount + 1
  /\ guesses' = guesses + 1
  /\ Becomes(a, [stage |-> "lock", at |-> attempt[a].at, count |-> failedCount'])
  /\ UNCHANGED <<now, lockedUntil>>

\* Written whatever it was: a failure below the threshold writes null.
SetLockedUntil(a) ==
  /\ attempt[a].stage = "lock"
  /\ lockedUntil' = LockoutPolicy(attempt[a].count, attempt[a].at)
  /\ guesses' = IF lockedUntil' # Null /\ lockedUntil' <= now THEN 0 ELSE guesses
  /\ Becomes(a, NotTrying)
  /\ UNCHANGED <<now, failedCount>>

RecordLogin(a) ==
  /\ attempt[a].stage = "login"
  /\ failedCount' = 0 /\ lockedUntil' = Null /\ guesses' = 0
  /\ Becomes(a, NotTrying)
  /\ UNCHANGED now

\* The lock lapses by itself; the counter stays where it was.
PassTime ==
  /\ now < LastInstant
  /\ now' = now + 1
  /\ guesses' = IF lockedUntil # Null /\ now' = lockedUntil THEN 0 ELSE guesses
  /\ UNCHANGED <<failedCount, lockedUntil, attempt>>

LockoutNext ==
  \/ \E a \in Attempts : \/ CheckLock(a) \/ RecordFailedLogin(a) \/ SetLockedUntil(a) \/ RecordLogin(a)
                         \/ \E right \in BOOLEAN : Verify(a, right)
  \/ PassTime

LockoutSpec == LockoutInit /\ [][LockoutNext]_lockoutVars

-----------------------------------------------------------------------------
\* The account and every attempt have their types.
LockoutTypeOK ==
  /\ now \in 0..LastInstant
  /\ failedCount \in Nat
  /\ lockedUntil \in 0..LastInstant + LockTicks \cup {Null}
  /\ attempt \in [Attempts -> Attempt]

\* A lock is worth its threshold however the attempts interleave: between a
\* success (or the lapse of a lock) and the lock in force, at most so many wrong
\* passwords are looked at: one short of the threshold, and then, since a slow
\* failure below the threshold overwrites the lock of a faster one with null, as
\* many as the attempts in flight can still erase.
GuessesBounded == guesses <= MostGuesses

\* However sign-ins overlap, a lock is worth its threshold (authenticate.ts:77-205).
LockIsWorthIt == LockoutTypeOK /\ GuessesBounded
=============================================================================
