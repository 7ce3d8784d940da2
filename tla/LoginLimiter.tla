---------------------------- MODULE LoginLimiter ----------------------------
(***************************************************************************)
(* The in-process brute-force protection of login (ratelimit.rs) as the    *)
(* login handler of auth.rs drives it.  A handler asks is_locked, then     *)
(* reads the database and verifies the password, then records a failure or *)
(* resets the key: three separate acquisitions of the mutex, with other    *)
(* handlers, the hourly prune and the clock in between.                    *)
(*                                                                         *)
(* Time is the age of each window in ticks; Window ticks are WINDOW_SECS.  *)
(***************************************************************************)
EXTENDS Naturals, Sequences, FiniteSets

CONSTANTS
    Requests,     \* slots for concurrently running logins
    Keys,         \* limiter keys, one per tenant and email
    MaxFailures,  \* MAX_FAILURES
    Window,       \* WINDOW_SECS
    None          \* no entry in the map, no key held

ASSUME LimiterAssumption ==
    /\ IsFiniteSet(Requests) /\ Requests # {}
    /\ MaxFailures \in Nat \ {0}
    /\ Window \in Nat \ {0}
    /\ None \notin Keys /\ None \notin [age: Nat, failures: Nat]

VARIABLES
    windows,   \* the map: for each key its FailureWindow, or None
    attempt,   \* attempt[q]: the key a login that passed is_locked is for, or None
    recent     \* history: ages of the failures of each key, oldest first,
               \* since its last success or the last restart

vars == <<windows, attempt, recent>>

FailureWindow == [age: 0..Window, failures: Nat]

TypeOK ==
    /\ windows \in [Keys -> FailureWindow \cup {None}]
    /\ attempt \in [Requests -> Keys \cup {None}]
    /\ recent \in [Keys -> Seq(0..(Window - 1))]

Init ==
    /\ windows = [k \in Keys |-> None]
    /\ attempt = [q \in Requests |-> None]
    /\ recent = [k \in Keys |-> <<>>]

-----------------------------------------------------------------------------
\* window_start.elapsed() >= WINDOW_SECS
Expired(k) == windows[k] # None /\ windows[k].age >= Window

\* Mutant: the count may reach the limit once more.
LockedLate(k) ==
    windows[k] # None /\ ~Expired(k) /\ windows[k].failures > MaxFailures

\* Mutant: the window is never found expired.
LockedForever(k) == windows[k] # None /\ windows[k].failures >= MaxFailures

\* What is_locked answers for key k.
Locked(k) ==
    windows[k] # None /\ ~Expired(k) /\ windows[k].failures >= MaxFailures

\* login passes is_locked, which drops an expired window; a locked key is
\* answered RateLimited and leaves everything as it is.
Begin(q, k) ==
    /\ attempt[q] = None
    /\ ~Locked(k)
    /\ windows' = [windows EXCEPT ![k] = IF Expired(k) THEN None ELSE @]
    /\ attempt' = [attempt EXCEPT ![q] = k]
    /\ UNCHANGED recent

\* Mutant: each failure opens a new window.
RecordFailureAnew(k) ==
    windows' = [windows EXCEPT ![k] = [age |-> 0, failures |-> 1]]

\* record_failure
RecordFailure(k) ==
    LET w == windows[k]
        counted == IF w = None \/ Expired(k)
                   THEN [age |-> 0, failures |-> 1]
                   ELSE [age |-> w.age, failures |-> w.failures + 1]
    IN  windows' = [windows EXCEPT ![k] = counted]

\* login_failure: unknown tenant or user, inactive user or wrong password.
Fail(q) ==
    LET k == attempt[q] IN
    /\ k # None
    /\ RecordFailure(k)
    /\ attempt' = [attempt EXCEPT ![q] = None]
    /\ recent' = [recent EXCEPT ![k] = Append(@, 0)]

\* The password is verified: reset.
Succeed(q) ==
    LET k == attempt[q] IN
    /\ k # None
    /\ windows' = [windows EXCEPT ![k] = None]
    /\ attempt' = [attempt EXCEPT ![q] = None]
    /\ recent' = [recent EXCEPT ![k] = <<>>]

\* A query fails or the client goes away before the outcome is known.
Abort(q) ==
    /\ attempt[q] # None
    /\ attempt' = [attempt EXCEPT ![q] = None]
    /\ UNCHANGED <<windows, recent>>

\* prune, from the housekeeping loop
Prune ==
    /\ windows' = [k \in Keys |-> IF Expired(k) THEN None ELSE windows[k]]
    /\ UNCHANGED <<attempt, recent>>

\* The map is in memory only.
Restart ==
    /\ windows' = [k \in Keys |-> None]
    /\ attempt' = [q \in Requests |-> None]
    /\ recent' = [k \in Keys |-> <<>>]

\* One tick of the clock; ages beyond Window are not told apart.  The oldest
\* failures come first: those that are as old as a window leave.
Tick ==
    /\ windows' = [k \in Keys |->
                     IF windows[k] = None \/ Expired(k) THEN windows[k]
                     ELSE [windows[k] EXCEPT !.age = @ + 1]]
    /\ recent' = [k \in Keys |->
                    LET old == Cardinality({i \in DOMAIN recent[k] :
                                              recent[k][i] + 1 >= Window})
                    IN  [i \in 1..(Len(recent[k]) - old) |-> recent[k][i + old] + 1]]
    /\ UNCHANGED attempt

Next ==
    \/ \E q \in Requests : \/ \E k \in Keys : Begin(q, k)
                           \/ Fail(q) \/ Succeed(q) \/ Abort(q)
    \/ Prune \/ Restart \/ Tick

Spec == Init /\ [][Next]_vars

\* Time passes.
FairSpec == Spec /\ WF_vars(Tick)

-----------------------------------------------------------------------------
(***************************************************************************)
(* A window never counts more failures than the limit and the logins that  *)
(* were let through before the limit was reached.                          *)
(***************************************************************************)
FailuresBounded ==
    \A k \in Keys : windows[k] # None =>
        windows[k].failures < MaxFailures + Cardinality(Requests)

(***************************************************************************)
(* The price of the fixed window: any stretch of Window ticks, wherever it *)
(* starts, sees the failures of two windows less the one that opened the   *)
(* first, and no more.                                                     *)
(***************************************************************************)
StretchBounded ==
    \A k \in Keys :
        Len(recent[k]) < 2 * (MaxFailures + Cardinality(Requests) - 1)

(***************************************************************************)
(* A lock ends: failures that were under way when it was set, and attempts *)
(* made while it holds, do not prolong it.                                 *)
(***************************************************************************)
LockEnds == \A k \in Keys : Locked(k) ~> ~Locked(k)
=============================================================================
