---------------------------- MODULE LoginLockout ----------------------------
(***************************************************************************)
(* The lockout of an account after repeated failed logins: perform_login   *)
(* (services/auth.rs) asks the store of recent failures before it queries  *)
(* the account and hashes the password, and writes to it afterwards        *)
(* (rate_limit.rs); attempts run concurrently.                             *)
(*                                                                         *)
(* A name is a trimmed, lower-cased user name, of an account or of none.   *)
(* The store keeps the times of the failures of each name; only how many   *)
(* of them are within the window is ever asked, and time, which takes the  *)
(* oldest out of it, is a step of its own.                                 *)
(***************************************************************************)
EXTENDS Integers, FiniteSets

CONSTANTS
    Names,
    Attempts,                  \* logins that may be under way at a time
    LOGIN_FAILURE_THRESHOLD,
    NoName

ASSUME LockoutAssumption ==
    /\ IsFiniteSet(Attempts)
    /\ LOGIN_FAILURE_THRESHOLD \in Nat \ {0}
    /\ NoName \notin Names

VARIABLES
    attempt,    \* the name each login under way is for
    fails       \* the failures of each name that are within the window

lockoutVars == <<attempt, fails>>

LockoutTypeOK ==
    /\ attempt \in [Attempts -> Names \cup {NoName}]
    /\ fails \in [Names -> Nat]

LockoutInit ==
    /\ attempt = [a \in Attempts |-> NoName]
    /\ fails = [n \in Names |-> 0]

\* Bug: one more failure than the threshold is let through.
LenientLogin(n) == fails[n] =< LOGIN_FAILURE_THRESHOLD

\* login_allowed_for_account
LoginAllowed(n) == fails[n] < LOGIN_FAILURE_THRESHOLD

EndAttempt(a) == attempt' = [attempt EXCEPT ![a] = NoName]

\* perform_login looks at the lockout, ...
BeginLogin(a, n) ==
    /\ attempt[a] = NoName
    /\ LoginAllowed(n)
    /\ attempt' = [attempt EXCEPT ![a] = n]
    /\ UNCHANGED fails

\* ... and later records the failure: no such user, a disabled account or a wrong
\* password, ...
LoginFails(a) ==
    /\ attempt[a] # NoName
    /\ fails' = [fails EXCEPT ![attempt[a]] = @ + 1]
    /\ EndAttempt(a)

\* ... or forgets the failures of the name (clear_login_failures), ...
LoginSucceeds(a) ==
    /\ attempt[a] # NoName
    /\ fails' = [fails EXCEPT ![attempt[a]] = 0]
    /\ EndAttempt(a)

\* ... or fails for a reason of the server's, which is not recorded.
LoginErrs(a) ==
    /\ attempt[a] # NoName
    /\ EndAttempt(a)
    /\ UNCHANGED fails

\* LOGIN_FAILURE_WINDOW_SECS after it the oldest failure is not retained.
FailureExpires(n) ==
    /\ fails[n] > 0
    /\ fails' = [fails EXCEPT ![n] = @ - 1]
    /\ UNCHANGED attempt

LockoutNext ==
    \/ \E a \in Attempts :
          \/ LoginFails(a) \/ LoginSucceeds(a) \/ LoginErrs(a)
          \/ \E n \in Names : BeginLogin(a, n)
    \/ \E n \in Names : FailureExpires(n)

LockoutSpec == LockoutInit /\ [][LockoutNext]_lockoutVars

-----------------------------------------------------------------------------
(* Properties *)

\* Attempts that passed login_allowed_for_account before the threshold was reached
\* are still counted when they fail: the recorded failures of a name and the
\* attempts under way for it never exceed the threshold by as much as the attempts
\* that can be under way at a time.
LockoutBound ==
    \A n \in Names :
        fails[n] + Cardinality({a \in Attempts : attempt[a] = n})
            < LOGIN_FAILURE_THRESHOLD + Cardinality(Attempts)

=============================================================================
