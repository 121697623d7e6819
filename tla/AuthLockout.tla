----------------------------- MODULE AuthLockout -----------------------------
(***************************************************************************)
(* AuthLockoutService for one account and the factor PASSWORD.  An attempt *)
(* is counted before the password is looked at, in a transaction that      *)
(* locks the row; a success deletes the row.  Time is counted in units of  *)
(* the smallest delay that matters.                                        *)
(***************************************************************************)
EXTENDS Naturals, FiniteSets

CONSTANTS
    Threshold, Window, BaseLock, MaxLock, LevelReset,   \* LOCKOUT_POLICIES; LevelReset is also STALE_AFTER_MS
    MaxTime                                             \* bound

ASSUME LockoutAssumption ==
    /\ {Threshold, Window, BaseLock, MaxLock, LevelReset} \subseteq Nat \ {0}
    /\ MaxTime \in Nat
    /\ Threshold > 1 /\ Window <= BaseLock /\ BaseLock <= MaxLock /\ MaxLock < LevelReset

VARIABLES
    lockout,   \* the row of auth_attempt_lockout, or nothing
    tries,     \* the attempts let through since the last success, by time and number
    time

lockoutVars == <<lockout, tries, time>>

\* lockedUntil is 0 for NULL.
LockoutRow == [failedCount : Nat, windowStartedAt : 0..MaxTime, lockLevel : Nat,
               lockedUntil : Nat, lastFailureAt : 0..MaxTime]

LockoutTypeOK ==
    /\ lockout \subseteq LockoutRow
    /\ Cardinality(lockout) <= 1
    /\ \A row \in lockout : row.failedCount < Threshold
    /\ tries \subseteq (0..MaxTime) \X Nat
    /\ time \in 0..MaxTime

LockoutInit == lockout = {} /\ tries = {} /\ time = 0

IsLocked == \E row \in lockout : row.lockedUntil > time

Smaller(a, b) == IF a < b THEN a ELSE b

\* Mutation: the level is counted from the lock before.
LockDurationFromZero(level) == Smaller(BaseLock * level, MaxLock)

LockDuration(level) == Smaller(BaseLock * 2^level, MaxLock)

\* The row that ON CONFLICT DO NOTHING leaves behind.
CurrentRow ==
    IF lockout = {}
    THEN [failedCount |-> 0, windowStartedAt |-> time, lockLevel |-> 0, lockedUntil |-> 0, lastFailureAt |-> time]
    ELSE CHOOSE row \in lockout : TRUE

CountAttempt(row) ==
    LET level == IF time - row.lastFailureAt < LevelReset THEN row.lockLevel ELSE 0
        active == time - row.windowStartedAt < Window
        failed == (IF active THEN row.failedCount ELSE 0) + 1
    IN  IF failed >= Threshold
        THEN [failedCount |-> 0, windowStartedAt |-> time, lockLevel |-> level + 1,
              lockedUntil |-> time + LockDuration(level), lastFailureAt |-> time]
        ELSE [failedCount |-> failed, windowStartedAt |-> IF active THEN row.windowStartedAt ELSE time,
              lockLevel |-> level, lockedUntil |-> 0, lastFailureAt |-> time]

PurgeStale(rows) == {row \in rows : ~(row.lastFailureAt + LevelReset < time /\ row.lockedUntil < time)}

\* registerAttempt, with the purge that ends it.
AttemptAllowed ==
    /\ ~IsLocked
    /\ lockout' = PurgeStale({CountAttempt(CurrentRow)})
    /\ tries' = tries \cup {<<time, Cardinality({x \in tries : x[1] = time})>>}
    /\ UNCHANGED time

AttemptRefused ==
    /\ IsLocked
    /\ lockout' = PurgeStale(lockout)
    /\ UNCHANGED <<tries, time>>

ClearAttempts ==
    /\ lockout' = {}
    /\ tries' = {}
    /\ UNCHANGED time

-----------------------------------------------------------------------------
(* Properties.                                                             *)

\* registerAttempt and countAttempt: between two successes, whoever tries at
\* the same time, no period as long as the window sees more attempts than the
\* last of one window, without the one that began it, and those of the next.
AttemptsAreBounded ==
    \A t \in 0..time :
        Cardinality({x \in tries : t <= x[1] /\ x[1] < t + Window}) <= 2 * Threshold - 2
=============================================================================
