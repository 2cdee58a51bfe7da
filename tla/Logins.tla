------------------------------- MODULE Logins -------------------------------
(***************************************************************************)
(* The login backoff (src/auth/rate_limit.rs): consecutive failures and    *)
(* the lockout they earned.  Times are numbers of the first lockout; a     *)
(* doubling is a number of Width bits.                                     *)
(***************************************************************************)
EXTENDS Naturals

CONSTANTS FreeAttempts,    \* failures before the first lockout
          LongestLockout,
          Width,           \* bits of a doubling, 32 in the code
          MaxFailures      \* bound: failures in a row

LoginsOK == FreeAttempts \in Nat /\ LongestLockout \in Nat /\ Width \in Nat

VARIABLES failures, lockedUntil, latest  \* latest is auxiliary: the time of
                                         \* the last failure that was counted
loginVars == <<failures, lockedUntil, latest>>

InitLogins == failures = 0 /\ lockedUntil = 0 /\ latest = 0

IsLocked(now) == lockedUntil > now

Least(a, b) == IF a < b THEN a ELSE b

\* One, shifted so far.
Shifted[n \in Nat] == IF n = 0 THEN 1 ELSE 2 * Shifted[n - 1]

\* Slip: the doubling wraps.
LockoutWrapping(excess) == Least(Shifted[excess] % Shifted[Width], LongestLockout)

Lockout(excess) ==
  Least(IF excess < Width THEN Shifted[excess] ELSE Shifted[Width] - 1, LongestLockout)

RecordFailure(now) ==
  /\ failures < MaxFailures
  /\ failures' = failures + 1
  /\ lockedUntil' = IF failures + 1 >= FreeAttempts
                      THEN now + Lockout(failures + 1 - FreeAttempts)
                      ELSE lockedUntil
  /\ latest' = now

RecordSuccess == failures' = 0 /\ lockedUntil' = 0 /\ latest' = 0

RestartLogins == failures' = 0 /\ lockedUntil' = 0 /\ latest' = 0

=============================================================================
