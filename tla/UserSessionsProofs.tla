------------------------- MODULE UserSessionsProofs -------------------------
(***************************************************************************)
(* What the sessions and the lockout of a user keep, for any policy, any   *)
(* number of sessions, instances and concurrent requests, and any TTL of   *)
(* the caches.                                                             *)
(***************************************************************************)
EXTENDS UserSessions, FiniteSetTheorems, TLAPS

-----------------------------------------------------------------------------
(* The policy of the lockout.                                              *)

LEMMA Policy ==
    /\ Threshold \in Nat /\ Window \in Nat /\ BaseLock \in Nat /\ MaxLock \in Nat /\ LevelReset \in Nat /\ MaxTime \in Nat
    /\ Threshold > 1 /\ 0 < Window /\ Window <= BaseLock /\ BaseLock <= MaxLock
BY LockoutAssumption

\* 2^n is a number, and not 0: it counts the subsets of n elements.
LEMMA PowerOfTwo == \A n \in Nat : 2^n \in Nat /\ 2^n >= 1
<1> SUFFICES ASSUME NEW n \in Nat PROVE 2^n \in Nat /\ 2^n >= 1
    OBVIOUS
<1>1. IsFiniteSet(1..n) /\ Cardinality(1..n) = n
    BY FS_Interval
<1>2. IsFiniteSet(SUBSET (1..n)) /\ Cardinality(SUBSET (1..n)) = 2^n
    BY <1>1, FS_SUBSET
<1>3. SUBSET (1..n) # {} /\ Cardinality(SUBSET (1..n)) \in Nat
    BY <1>2, FS_CardinalityType
<1>4. Cardinality(SUBSET (1..n)) # 0
    BY <1>2, <1>3, FS_EmptySet
<1> QED
    BY <1>2, <1>3, <1>4

\* lockDurationMs: a lock lasts at least as long as the window.
LEMMA LockLasts == ASSUME NEW level \in Nat PROVE LockDuration(level) \in Nat /\ LockDuration(level) >= Window
<1>1. PICK p \in Nat : p = 2^level /\ p >= 1
    BY PowerOfTwo
<1>2. BaseLock * p \in Nat /\ BaseLock * p >= BaseLock
    BY <1>1, Policy
<1>3. LockDuration(level) = IF BaseLock * p < MaxLock THEN BaseLock * p ELSE MaxLock
    BY <1>1 DEF LockDuration, Smaller
<1> QED
    BY <1>2, <1>3, Policy

\* A set of at most n elements, and what a subset and one element more make of it.
Few(S, n) == IsFiniteSet(S) /\ Cardinality(S) <= n

LEMMA FewSubset == ASSUME NEW S, NEW A, NEW n \in Nat, NEW m \in Nat, Few(S, n), A \subseteq S, n <= m PROVE Few(A, m)
<1>1. IsFiniteSet(A) /\ Cardinality(A) <= Cardinality(S) /\ Cardinality(S) \in Nat /\ Cardinality(A) \in Nat
    BY FS_Subset, FS_CardinalityType DEF Few
<1> QED
    BY <1>1 DEF Few

LEMMA FewAndOne == ASSUME NEW S, NEW A, NEW x, NEW n \in Nat, Few(S, n), A \subseteq S \cup {x} PROVE Few(A, n + 1)
<1>1. IsFiniteSet(S \cup {x}) /\ Cardinality(S \cup {x}) <= Cardinality(S) + 1 /\ Cardinality(S) \in Nat
    <2>1. IsFiniteSet(S) /\ Cardinality(S) \in Nat
        BY FS_CardinalityType DEF Few
    <2>2. IsFiniteSet(S \cup {x}) /\ Cardinality(S \cup {x}) = IF x \in S THEN Cardinality(S) ELSE Cardinality(S) + 1
        BY <2>1, FS_AddElement
    <2> QED
        BY <2>1, <2>2
<1>2. Few(S \cup {x}, n + 1)
    <2>1. Cardinality(S \cup {x}) \in Nat
        BY <1>1, FS_CardinalityType
    <2> QED
        BY <1>1, <2>1 DEF Few
<1> QED
    BY <1>2, FewSubset

LEMMA FewTogether ==
    ASSUME NEW S, NEW T, NEW n \in Nat, NEW m \in Nat, Few(S, n), Few(T, m)
    PROVE  Few(S \cup T, n + m)
<1>1. /\ IsFiniteSet(S \cup T) /\ Cardinality(S \cup T) = Cardinality(S) + Cardinality(T) - Cardinality(S \cap T)
      /\ Cardinality(S) \in Nat /\ Cardinality(T) \in Nat
    BY FS_Union, FS_CardinalityType DEF Few
<1>2. Cardinality(S \cap T) \in Nat
    <2>1. IsFiniteSet(S \cap T)
        BY FS_Subset DEF Few
    <2> QED
        BY <2>1, FS_CardinalityType
<1> QED
    BY <1>1, <1>2 DEF Few

LEMMA FewNone == ASSUME NEW n \in Nat PROVE Few({}, n)
BY FS_EmptySet DEF Few

-----------------------------------------------------------------------------
(* The lockout of an account and the attempts it has let through.          *)

Since(s) == {x \in tries : s <= x[1]}
After(s) == {x \in tries : s < x[1]}
\* the attempts before s that a period of one window can see together with s
Before(s) == {x \in tries : x[1] < s /\ s < x[1] + Window}
\* the attempts that such a period that goes on after s has seen
Recent(s) == {x \in tries : s < x[1] + Window}
InPeriod(t) == {x \in tries : t <= x[1] /\ x[1] < t + Window}

\* After a lock began nothing was let through, and it lasts a window or more.
LockedFits(row) ==
    /\ row.lockedUntil >= row.windowStartedAt + Window
    /\ \A x \in tries : x[1] <= row.windowStartedAt

\* The row counts the attempts of its window, which began with one of them.
OpenFits(row) ==
    /\ row.failedCount \in Nat \ {0}
    /\ \A x \in tries : x[1] < row.windowStartedAt + Window
    /\ Few(Since(row.windowStartedAt), row.failedCount)
    /\ Few(After(row.windowStartedAt), row.failedCount - 1)
    /\ Few(Before(row.windowStartedAt), Threshold - 2)

AttemptsFit ==
    /\ \A row, other \in lockout : row = other
    /\ lockout = {} => tries = {}
    /\ IsFiniteSet(tries) /\ \A x \in tries : x[1] <= time
    /\ \A row \in lockout : row.windowStartedAt <= time /\ (LockedFits(row) \/ (OpenFits(row) /\ row.lockedUntil = 0))
    /\ \A t \in Nat : Few(InPeriod(t), 2 * Threshold - 2)

\* countAttempt: the attempt locks the account, counts in the window of the
\* row, or begins a window.
LEMMA CountAttemptResult ==
    ASSUME NEW row \in LockoutRow, time \in 0..MaxTime, row.windowStartedAt <= time, row.failedCount < Threshold
    PROVE  /\ CountAttempt(row) \in LockoutRow
           /\ CountAttempt(row).failedCount < Threshold /\ CountAttempt(row).lastFailureAt = time
           /\ \/ /\ time < row.windowStartedAt + Window /\ row.failedCount + 1 = Threshold
                 /\ CountAttempt(row).windowStartedAt = time /\ CountAttempt(row).lockedUntil >= time + Window
              \/ /\ time < row.windowStartedAt + Window
                 /\ CountAttempt(row).failedCount = row.failedCount + 1 /\ CountAttempt(row).lockedUntil = 0
                 /\ CountAttempt(row).windowStartedAt = row.windowStartedAt
              \/ /\ row.windowStartedAt + Window <= time
                 /\ CountAttempt(row).failedCount = 1 /\ CountAttempt(row).lockedUntil = 0
                 /\ CountAttempt(row).windowStartedAt = time
<1> DEFINE level == IF time - row.lastFailureAt < LevelReset THEN row.lockLevel ELSE 0
           active == time - row.windowStartedAt < Window
           failed == (IF active THEN row.failedCount ELSE 0) + 1
<1>0. /\ row.windowStartedAt \in Nat /\ row.failedCount \in Nat /\ row.lockLevel \in Nat /\ time \in Nat
      /\ row.windowStartedAt \in 0..MaxTime
    BY Policy DEF LockoutRow
<1>1. level \in Nat /\ failed \in Nat /\ failed <= Threshold
    BY <1>0, Policy
<1>2. LockDuration(level) \in Nat /\ LockDuration(level) >= Window
    BY <1>1, LockLasts
<1>3. active <=> time < row.windowStartedAt + Window
    BY <1>0, Policy
<1>4. CountAttempt(row) =
        IF failed >= Threshold
        THEN [failedCount |-> 0, windowStartedAt |-> time, lockLevel |-> level + 1,
              lockedUntil |-> time + LockDuration(level), lastFailureAt |-> time]
        ELSE [failedCount |-> failed, windowStartedAt |-> IF active THEN row.windowStartedAt ELSE time,
              lockLevel |-> level, lockedUntil |-> 0, lastFailureAt |-> time]
    BY DEF CountAttempt
<1>5. CASE failed >= Threshold
    <2>1. active /\ row.failedCount + 1 = Threshold
        BY <1>0, <1>1, <1>5, Policy
    <2> HIDE DEF level, failed, active
    <2>2. CountAttempt(row) = [failedCount |-> 0, windowStartedAt |-> time, lockLevel |-> level + 1,
                               lockedUntil |-> time + LockDuration(level), lastFailureAt |-> time]
        BY <1>4, <1>5
    <2>3. CountAttempt(row) \in LockoutRow
        BY <1>0, <1>1, <1>2, <2>2 DEF LockoutRow
    <2> QED
        BY <1>0, <1>2, <1>3, <2>1, <2>2, <2>3, Policy
<1>6. CASE ~(failed >= Threshold)
    <2>1. failed = IF active THEN row.failedCount + 1 ELSE 1
        BY <1>0
    <2> HIDE DEF level, failed, active
    <2>2. CountAttempt(row) = [failedCount |-> failed, windowStartedAt |-> IF active THEN row.windowStartedAt ELSE time,
                               lockLevel |-> level, lockedUntil |-> 0, lastFailureAt |-> time]
        BY <1>4, <1>6
    <2>3. CountAttempt(row) \in LockoutRow
        BY <1>0, <1>1, <2>2 DEF LockoutRow
    <2>4. failed < Threshold
        BY <1>1, <1>6, Policy
    <2>5. CASE active
        BY <1>0, <1>3, <2>1, <2>2, <2>3, <2>4, <2>5, Policy
    <2>6. CASE ~active
        BY <1>0, <1>3, <2>1, <2>2, <2>3, <2>4, <2>6, Policy
    <2> QED
        BY <2>5, <2>6
<1> QED
    BY <1>5, <1>6

\* registerAttempt: the attempt is counted before anything else is known of it.
LEMMA AllowedFits == ASSUME LockoutTypeOK, AttemptsFit, AttemptAllowed PROVE LockoutTypeOK' /\ AttemptsFit'
<1>0. /\ time \in Nat /\ time \in 0..MaxTime /\ time' = time /\ lockout \subseteq LockoutRow
      /\ \A x \in tries : x[1] \in Nat
    BY Policy DEF LockoutTypeOK, AttemptAllowed
<1>1. PICK y : /\ tries' = tries \cup {y} /\ y[1] = time
               /\ y \in (0..MaxTime) \X Nat
    <2>1. Cardinality({x \in tries : x[1] = time}) \in Nat
        BY FS_Subset, FS_CardinalityType DEF AttemptsFit
    <2>2. PICK n \in Nat : n = Cardinality({x \in tries : x[1] = time})
        BY <2>1
    <2>3. <<time, n>> \in (0..MaxTime) \X Nat /\ <<time, n>>[1] = time
        BY <1>0
    <2>4. tries' = tries \cup {<<time, n>>}
        BY <2>2 DEF AttemptAllowed
    <2> QED
        BY <2>3, <2>4
<1>2. PICK row : row = CurrentRow
    OBVIOUS
<1>3. /\ row \in LockoutRow /\ row.windowStartedAt <= time /\ row.failedCount < Threshold
      /\ row \in lockout => row.lockedUntil <= time
      /\ \/ row \in lockout
         \/ tries = {} /\ row.windowStartedAt = time /\ row.failedCount = 0
    <2>1. CASE lockout = {}
        <3>1. row = [failedCount |-> 0, windowStartedAt |-> time, lockLevel |-> 0, lockedUntil |-> 0, lastFailureAt |-> time]
            BY <1>2, <2>1 DEF CurrentRow
        <3> QED
            BY <1>0, <2>1, <3>1, Policy DEF LockoutRow, AttemptsFit
    <2>2. CASE lockout # {}
        <3>1. row \in lockout
            BY <1>2, <2>2 DEF CurrentRow
        <3>2. row.lockedUntil \in Nat
            BY <1>0, <3>1 DEF LockoutRow
        <3> QED
            BY <1>0, <3>1, <3>2 DEF AttemptsFit, LockoutTypeOK, AttemptAllowed, IsLocked
    <2> QED
        BY <2>1, <2>2
<1>4. PICK new : new = CountAttempt(row)
    OBVIOUS
<1>5. /\ new \in LockoutRow /\ new.failedCount < Threshold /\ new.lastFailureAt = time
      /\ \/ /\ time < row.windowStartedAt + Window /\ row.failedCount + 1 = Threshold
            /\ new.windowStartedAt = time /\ new.lockedUntil >= time + Window
         \/ /\ time < row.windowStartedAt + Window
            /\ new.failedCount = row.failedCount + 1 /\ new.lockedUntil = 0 /\ new.windowStartedAt = row.windowStartedAt
         \/ /\ row.windowStartedAt + Window <= time
            /\ new.failedCount = 1 /\ new.lockedUntil = 0 /\ new.windowStartedAt = time
    BY <1>0, <1>3, <1>4, CountAttemptResult
<1>6. lockout' = {new}
    <2>1. ~(new.lastFailureAt + LevelReset < time)
        BY <1>0, <1>5, Policy
    <2> QED
        BY <1>2, <1>4, <2>1 DEF AttemptAllowed, PurgeStale
<1>7. LockoutTypeOK'
    <2>1. Cardinality({new}) <= 1
        BY FS_Singleton
    <2> QED
        BY <1>0, <1>1, <1>5, <1>6, <2>1 DEF LockoutTypeOK
<1>8. /\ row.windowStartedAt \in Nat /\ row.failedCount \in Nat /\ new.windowStartedAt \in Nat /\ new.failedCount \in Nat
      /\ row.lockedUntil \in Nat /\ new.lockedUntil \in Nat
    BY <1>3, <1>5, Policy DEF LockoutRow
<1>9. IsFiniteSet(tries') /\ \A x \in tries' : x[1] \in Nat /\ x[1] <= time'
    BY <1>0, <1>1, FS_AddElement DEF AttemptsFit
\* What the periods that see the new attempt have seen before.
<1>10. ASSUME NEW m \in Nat, m + 1 <= 2 * Threshold - 2, \A t \in Nat : t <= time /\ time < t + Window => Few(InPeriod(t), m)
       PROVE  \A t \in Nat : Few(InPeriod(t)', 2 * Threshold - 2)
    <2> SUFFICES ASSUME NEW t \in Nat PROVE Few(InPeriod(t)', 2 * Threshold - 2)
        OBVIOUS
    <2>1. CASE t <= time /\ time < t + Window
        <3>1. InPeriod(t)' \subseteq InPeriod(t) \cup {y}
            BY <1>1 DEF InPeriod
        <3>2. Few(InPeriod(t)', m + 1)
            BY <1>10, <2>1, <3>1, FewAndOne
        <3> QED
            BY <1>10, <3>2, FewSubset, Policy
    <2>2. CASE ~(t <= time /\ time < t + Window)
        <3>1. InPeriod(t)' = InPeriod(t)
            BY <1>1, <2>2 DEF InPeriod
        <3> QED
            BY <3>1 DEF AttemptsFit
    <2> QED
        BY <2>1, <2>2
\* The attempts of an open window and those shortly before it.
<1>11. ASSUME row \in lockout, OpenFits(row), row.failedCount + 1 <= Threshold, time < row.windowStartedAt + Window
       PROVE  \A t \in Nat : Few(InPeriod(t)', 2 * Threshold - 2)
    <2>1. row.failedCount + (Threshold - 2) \in Nat /\ row.failedCount + (Threshold - 2) + 1 <= 2 * Threshold - 2 /\ Threshold - 2 \in Nat
        BY <1>8, <1>11, Policy
    <2>2. Few(Since(row.windowStartedAt) \cup Before(row.windowStartedAt), row.failedCount + (Threshold - 2))
        BY <1>8, <1>11, <2>1, FewTogether DEF OpenFits
    <2>3. ASSUME NEW t \in Nat, t <= time /\ time < t + Window PROVE Few(InPeriod(t), row.failedCount + (Threshold - 2))
        <3>1. InPeriod(t) \subseteq Since(row.windowStartedAt) \cup Before(row.windowStartedAt)
            BY <1>0, <1>3, <1>8, <2>3, Policy DEF InPeriod, Since, Before
        <3> QED
            BY <2>1, <2>2, <3>1, FewSubset
    <2> QED
        BY <1>10, <2>1, <2>3
\* The attempt begins a window.
<1>12. ASSUME new.failedCount = 1, new.lockedUntil = 0, new.windowStartedAt = time, \A x \in tries : x[1] < time,
              Few(Recent(time), Threshold - 2)
       PROVE  OpenFits(new)' /\ \A t \in Nat : Few(InPeriod(t)', 2 * Threshold - 2)
    <2>0. Threshold - 2 \in Nat /\ (Threshold - 2) + 1 <= 2 * Threshold - 2
        BY Policy
    <2>1. Since(time)' \subseteq {} \cup {y} /\ After(time)' = {} /\ Before(time)' \subseteq Recent(time)
        BY <1>0, <1>1, <1>12, Policy DEF Since, After, Before, Recent
    <2>2. Few(Since(time)', 0 + 1)
        BY <2>1, FewNone, FewAndOne
    <2>3. Few(After(time)', 0)
        BY <2>1, FewNone
    <2>4. Few(Before(time)', Threshold - 2)
        BY <1>12, <2>0, <2>1, FewSubset
    <2>5. OpenFits(new)'
        <3>1. \A x \in tries' : x[1] < time + Window
            BY <1>0, <1>1, <1>9, Policy
        <3> QED
            BY <1>0, <1>12, <2>2, <2>3, <2>4, <3>1 DEF OpenFits, Since, After, Before
    <2>6. ASSUME NEW t \in Nat, t <= time /\ time < t + Window PROVE Few(InPeriod(t), Threshold - 2)
        <3>1. InPeriod(t) \subseteq Recent(time)
            BY <1>0, <2>6, Policy DEF InPeriod, Recent
        <3> QED
            BY <1>12, <2>0, <3>1, FewSubset
    <2> QED
        BY <1>10, <2>0, <2>5, <2>6
\* The new row is the only one.
<1>13. ASSUME \A t \in Nat : Few(InPeriod(t)', 2 * Threshold - 2), LockedFits(new)' \/ (OpenFits(new)' /\ new.lockedUntil = 0)
       PROVE  AttemptsFit'
    <2>1. new.windowStartedAt <= time'
        BY <1>0, <1>3, <1>5, <1>8
    <2>2. \A r, other \in lockout' : r = other
        BY <1>6
    <2>3. lockout' = {} => tries' = {}
        BY <1>6
    <2>4. \A r \in lockout' : r.windowStartedAt <= time' /\ (LockedFits(r)' \/ (OpenFits(r)' /\ r.lockedUntil = 0))
        BY <1>6, <1>13, <2>1
    <2> QED
        BY <1>9, <1>13, <2>2, <2>3, <2>4 DEF AttemptsFit
<1>14. row \in lockout => LockedFits(row) \/ OpenFits(row)
    BY DEF AttemptsFit
<1>15. row \in lockout /\ LockedFits(row) => row.windowStartedAt + Window <= time
    BY <1>0, <1>3, <1>8, Policy DEF LockedFits
<1>16. CASE time < row.windowStartedAt + Window /\ row.failedCount + 1 = Threshold
            /\ new.windowStartedAt = time /\ new.lockedUntil >= time + Window
    <2>1. row \in lockout /\ OpenFits(row)
        BY <1>0, <1>3, <1>8, <1>14, <1>15, <1>16, Policy
    <2>2. \A t \in Nat : Few(InPeriod(t)', 2 * Threshold - 2)
        BY <1>8, <1>11, <1>16, <2>1, Policy
    <2>3. LockedFits(new)'
        BY <1>0, <1>9, <1>16 DEF LockedFits
    <2> QED
        BY <1>7, <1>13, <2>2, <2>3
<1>17. CASE time < row.windowStartedAt + Window /\ new.failedCount = row.failedCount + 1 /\ new.lockedUntil = 0
            /\ new.windowStartedAt = row.windowStartedAt
    <2>1. CASE row \in lockout
        <3>1. OpenFits(row)
            BY <1>0, <1>8, <1>14, <1>15, <1>17, <2>1, Policy
        <3>2. \A t \in Nat : Few(InPeriod(t)', 2 * Threshold - 2)
            <4>1. row.failedCount + 1 <= Threshold
                BY <1>3, <1>8, Policy
            <4> QED
                BY <1>11, <1>17, <2>1, <3>1, <4>1
        <3>3. PICK s \in Nat : s = row.windowStartedAt /\ s <= time
            BY <1>3, <1>8
        <3>4. PICK c \in Nat \ {0} : c = row.failedCount
            BY <3>1 DEF OpenFits
        <3>5. Few(Since(s), c) /\ Few(After(s), c - 1) /\ Few(Before(s), Threshold - 2) /\ \A x \in tries : x[1] < s + Window
            BY <3>1, <3>3, <3>4 DEF OpenFits
        <3>6. Since(s)' \subseteq Since(s) \cup {y} /\ After(s)' \subseteq After(s) \cup {y} /\ Before(s)' = Before(s)
            BY <1>0, <1>1, <3>3 DEF Since, After, Before
        <3>7. Few(Since(s)', c + 1) /\ Few(After(s)', c)
            <4>1. c - 1 \in Nat /\ (c - 1) + 1 = c
                OBVIOUS
            <4>2. Few(After(s)', (c - 1) + 1)
                BY <3>5, <3>6, <4>1, FewAndOne
            <4> QED
                BY <3>5, <3>6, <4>1, <4>2, FewAndOne
        <3>8. \A x \in tries' : x[1] < s + Window
            BY <1>1, <1>17, <3>3, <3>5
        <3>9. /\ new.windowStartedAt = s /\ new.failedCount = c + 1 /\ (c + 1) - 1 = c /\ c + 1 \in Nat \ {0}
              /\ new.windowStartedAt <= time'
            BY <1>0, <1>17, <3>3, <3>4
        <3>10. OpenFits(new)'
            BY <3>5, <3>6, <3>7, <3>8, <3>9 DEF OpenFits, Since, After, Before
        <3> QED
            BY <1>7, <1>17, <1>13, <3>2, <3>10
    <2>2. CASE tries = {} /\ row.windowStartedAt = time /\ row.failedCount = 0
        <3>1. Few(Recent(time), Threshold - 2)
            BY <2>2, FewNone, Policy DEF Recent
        <3>2. OpenFits(new)' /\ \A t \in Nat : Few(InPeriod(t)', 2 * Threshold - 2)
            BY <1>12, <1>17, <2>2, <3>1
        <3> QED
            BY <1>7, <1>17, <1>13, <3>2
    <2> QED
        BY <1>3, <1>7, <2>1, <2>2
<1>18. CASE row.windowStartedAt + Window <= time /\ new.failedCount = 1 /\ new.lockedUntil = 0 /\ new.windowStartedAt = time
    <2>1. row \in lockout
        BY <1>0, <1>3, <1>18, Policy
    <2>2. (\A x \in tries : x[1] < time) /\ Few(Recent(time), Threshold - 2)
        <3>1. CASE LockedFits(row)
            <4>1. Recent(time) = {} /\ \A x \in tries : x[1] < time
                BY <1>0, <1>8, <1>18, <3>1, Policy DEF LockedFits, Recent
            <4> QED
                BY <4>1, FewNone, Policy
        <3>2. CASE OpenFits(row)
            <4>1. Recent(time) \subseteq After(row.windowStartedAt) /\ \A x \in tries : x[1] < time
                BY <1>0, <1>8, <1>18, <3>2, Policy DEF OpenFits, Recent, After
            <4>2. row.failedCount - 1 \in Nat /\ row.failedCount - 1 <= Threshold - 2 /\ Threshold - 2 \in Nat
                BY <1>3, <1>8, <3>2, Policy DEF OpenFits
            <4> QED
                BY <3>2, <4>1, <4>2, FewSubset DEF OpenFits
        <3> QED
            BY <1>14, <2>1, <3>1, <3>2
    <2>3. OpenFits(new)' /\ \A t \in Nat : Few(InPeriod(t)', 2 * Threshold - 2)
        BY <1>12, <1>18, <2>2
    <2> QED
        BY <1>7, <1>18, <1>13, <2>3
<1> QED
    BY <1>5, <1>16, <1>17, <1>18

\* A refused attempt leaves a row that still locks.
LEMMA RefusedFits == ASSUME LockoutTypeOK, AttemptsFit, AttemptRefused PROVE LockoutTypeOK' /\ AttemptsFit'
<1>1. \A row \in lockout : row.lockedUntil > time /\ row.lockedUntil \in Nat /\ time \in Nat
    BY Policy DEF AttemptRefused, IsLocked, AttemptsFit, LockoutTypeOK, LockoutRow
<1>2. PurgeStale(lockout) = lockout
    BY <1>1 DEF PurgeStale
<1> QED
    BY <1>2 DEF AttemptRefused, LockoutTypeOK, AttemptsFit, LockedFits, OpenFits, Since, After, Before, InPeriod

\* A success forgets everything.
LEMMA ClearedFits == ASSUME LockoutTypeOK, ClearAttempts PROVE LockoutTypeOK' /\ AttemptsFit'
<1>1. lockout' = {} /\ tries' = {} /\ time' = time
    BY DEF ClearAttempts
<1>2. \A t \in Nat : Few(InPeriod(t)', 2 * Threshold - 2)
    <2>1. \A t \in Nat : InPeriod(t)' = {}
        BY <1>1 DEF InPeriod
    <2>2. 2 * Threshold - 2 \in Nat
        BY Policy
    <2> QED
        BY <2>1, <2>2, FewNone
<1>3. Cardinality({}) <= 1 /\ IsFiniteSet({})
    BY FS_EmptySet
<1> QED
    BY <1>1, <1>2, <1>3 DEF LockoutTypeOK, AttemptsFit

LEMMA TimeFits ==
    ASSUME LockoutTypeOK, AttemptsFit, time' \in 0..MaxTime, time <= time', UNCHANGED <<lockout, tries>>
    PROVE  LockoutTypeOK' /\ AttemptsFit'
<1>1. /\ time \in Nat /\ time' \in Nat /\ \A x \in tries : x[1] \in Nat
      /\ \A row \in lockout : row.windowStartedAt \in Nat
    BY Policy DEF LockoutTypeOK, LockoutRow
<1>2. (\A x \in tries : x[1] <= time') /\ \A row \in lockout : row.windowStartedAt <= time'
    BY <1>1 DEF AttemptsFit
<1> QED
    BY <1>2 DEF LockoutTypeOK, AttemptsFit, LockedFits, OpenFits, Since, After, Before, InPeriod

LEMMA AttemptsBounded == ASSUME LockoutTypeOK, AttemptsFit PROVE AttemptsAreBounded
<1>1. \A t \in 0..time : t \in Nat
    OBVIOUS
<1> QED
    BY <1>1 DEF AttemptsFit, AttemptsAreBounded, Few, InPeriod

-----------------------------------------------------------------------------
(* The sessions.                                                           *)

LEMMA Sessions ==
    /\ NoFamily \notin Families
    /\ Ttl \in Nat /\ MaxTokens \in Nat /\ MaxPasswords \in Nat /\ MaxCrashes \in Nat /\ MaxTime \in Nat
    /\ 0 < Ttl /\ 0 < MaxTokens /\ 0 < MaxPasswords
BY SessionAssumption, Policy

\* What an operation under way knows, after it has read it.
RequestFits(r) ==
    /\ request[r].op \in {"user", "rotate", "reuse"} =>
         request[r].family \in Families /\ family[request[r].family].status # "NONE"
    /\ request[r].op \in {"query", "found"} => request[r].family \in Families /\ request[r].now <= time
    /\ request[r].op = "found" => request[r].now <= lastLive[request[r].family]

\* The tokens of a session: none before it is issued, and the last is not exchanged.
FamilyFits(f) ==
    /\ family[f].status = "NONE" => family[f].token = 0
    /\ f \in reused => family[f].status # "NONE"
    /\ lastLive[f] <= time
    /\ \A n \in 1..MaxTokens : exchanged[f][n] <= 1 /\ (family[f].token <= n => exchanged[f][n] = 0)

SessionsFit ==
    /\ SessionTypeOK
    /\ \A r \in Requests : RequestFits(r)
    /\ \A f \in Families : FamilyFits(f)
    /\ CacheIsRecent
    /\ ReusedIsRevoked

(* What a step may do, by the state it changes. *)

RequestMoves(r) ==
    \/ request'[r] = request[r]
    \/ request'[r].op \notin {"user", "rotate", "reuse", "query", "found"}
    \/ /\ request'[r].op \in {"user", "reuse"} /\ request'[r].family \in Families
       /\ family[request'[r].family].token > 0
    \/ /\ request[r].op \in {"user", "rotate"} /\ request'[r].op \in {"rotate", "reuse"}
       /\ request'[r].family = request[r].family
    \/ request'[r].op = "query" /\ request'[r].family \in Families /\ request'[r].now = time
    \/ /\ request[r].op = "query" /\ request'[r].op = "found"
       /\ request'[r].family = request[r].family /\ request'[r].now = request[r].now /\ Live(request[r].family)'

FamilyMoves(f) ==
    /\ family[f].status # "NONE" => family'[f].status # "NONE"
    /\ family'[f].status = "ACTIVE" => family[f].status # "REVOKED"
    /\ \/ /\ family[f].status = "NONE" => family'[f].status = "NONE"
          /\ family'[f].token = family[f].token /\ exchanged'[f] = exchanged[f]
       \/ /\ family[f].status = "NONE" /\ family'[f].status = "ACTIVE"
          /\ family'[f].token = 1 /\ exchanged'[f] = exchanged[f]
       \/ /\ family[f].status = "ACTIVE" /\ family'[f].token = family[f].token + 1
          /\ \A n \in 1..MaxTokens : exchanged'[f][n] = IF n = family[f].token THEN exchanged[f][n] + 1 ELSE exchanged[f][n]

CacheMoves(i, f) ==
    \/ cache'[i][f] = cache[i][f]
    \/ cache'[i][f] = 0
    \/ \E r \in Requests : request[r].op = "found" /\ request[r].family = f /\ cache'[i][f] = request[r].now + Ttl

\* The operation that must revoke the family of an old token goes on, or has done it.
ReuseMoves(f) ==
    \/ \E r \in Requests : request'[r].op = "reuse" /\ request'[r].family = f
    \/ f \in reused /\ family'[f].status # "ACTIVE"
    \/ /\ f \in reused
       /\ \A r \in Requests : ~(request[r].op = "reuse" /\ request[r].family = f)

\* So does the one that must end the sessions of an older password.
PasswordMoves(f) ==
    \/ family'[f].status # "ACTIVE"
    \/ family'[f].password = account'.password
    \/ \E r \in Requests : request'[r].op = "signout"
    \/ /\ family[f].status = "ACTIVE" /\ family'[f].password = family[f].password /\ account'.password = account.password
       /\ \A r \in Requests : request[r].op # "signout"

SessionMoves ==
    /\ SessionTypeOK'
    /\ \A r \in Requests : RequestMoves(r)
    /\ \A f \in Families : FamilyMoves(f)
    /\ \A i \in Instances, f \in Families : CacheMoves(i, f)
    /\ \A f \in reused' : ReuseMoves(f)
    /\ \A f \in Families \ escaped' : f \notin escaped /\ PasswordMoves(f)

\* A step that moves so keeps what the sessions rely on.
LEMMA MovesKeep ==
    ASSUME SessionsFit, LockoutTypeOK, time' \in 0..MaxTime, time <= time', Watch, SessionMoves
    PROVE  SessionsFit'
<1>0. /\ MaxTime \in Nat /\ Ttl \in Nat /\ MaxTokens \in Nat
      /\ time \in Nat /\ time' \in Nat /\ time <= time' /\ SessionTypeOK /\ SessionTypeOK'
    BY Sessions DEF SessionsFit, SessionMoves, LockoutTypeOK
<1>1. \A f \in Families : /\ lastLive[f] \in Nat /\ lastLive'[f] \in Nat
                          /\ lastLive'[f] = IF Live(f)' THEN time' ELSE lastLive[f]
                          /\ lastLive[f] <= time
    BY <1>0 DEF SessionTypeOK, Watch, SessionsFit, FamilyFits
<1>2. \A f \in Families : lastLive[f] <= lastLive'[f] /\ lastLive'[f] <= time'
    BY <1>0, <1>1
<1>3. \A r \in Requests : request[r].now \in Nat
    BY <1>0 DEF SessionTypeOK
<1>4. ASSUME NEW r \in Requests PROVE RequestFits(r)'
    <2>0. RequestFits(r) /\ RequestMoves(r) /\ request[r].now \in Nat
        BY <1>3, <1>4 DEF SessionsFit, SessionMoves
    <2>1. \A f \in Families : family[f].status # "NONE" => family'[f].status # "NONE"
        BY DEF SessionMoves, FamilyMoves
    <2>2. \A f \in Families : family[f].token > 0 => family[f].status # "NONE"
        BY <1>0 DEF SessionsFit, FamilyFits
    <2>3. CASE request'[r] = request[r]
        <3>1. request[r].op = "found" => request[r].now <= lastLive'[request[r].family]
            BY <1>1, <1>2, <2>0 DEF RequestFits
        <3> QED
            BY <1>0, <2>0, <2>1, <2>3, <3>1 DEF RequestFits
    <2>4. CASE request'[r].op \notin {"user", "rotate", "reuse", "query", "found"}
        BY <2>4 DEF RequestFits
    <2>5. CASE /\ request'[r].op \in {"user", "reuse"} /\ request'[r].family \in Families
               /\ family[request'[r].family].token > 0
        BY <2>1, <2>2, <2>5 DEF RequestFits
    <2>6. CASE /\ request[r].op \in {"user", "rotate"} /\ request'[r].op \in {"rotate", "reuse"}
               /\ request'[r].family = request[r].family
        BY <2>0, <2>1, <2>6 DEF RequestFits
    <2>7. CASE request'[r].op = "query" /\ request'[r].family \in Families /\ request'[r].now = time
        BY <1>0, <2>7 DEF RequestFits
    <2>8. CASE /\ request[r].op = "query" /\ request'[r].op = "found"
               /\ request'[r].family = request[r].family /\ request'[r].now = request[r].now /\ Live(request[r].family)'
        <3>1. request[r].family \in Families /\ request[r].now <= time
            BY <2>0, <2>8 DEF RequestFits
        <3>2. lastLive'[request[r].family] = time'
            BY <1>1, <2>8, <3>1
        <3> QED
            BY <1>0, <2>0, <2>8, <3>1, <3>2 DEF RequestFits
    <2> QED
        BY <2>0, <2>3, <2>4, <2>5, <2>6, <2>7, <2>8 DEF RequestMoves
<1>5. ASSUME NEW f \in Families PROVE FamilyFits(f)'
    <2>0. FamilyFits(f) /\ FamilyMoves(f)
        BY <1>5 DEF SessionsFit, SessionMoves
    <2>1. f \in reused' => family'[f].status # "NONE"
        <3>1. SUFFICES ASSUME f \in reused' PROVE family'[f].status # "NONE"
            OBVIOUS
        <3>2. ReuseMoves(f)
            BY <3>1 DEF SessionMoves
        <3>3. CASE f \in reused
            BY <2>0, <3>3 DEF FamilyFits, FamilyMoves
        <3>4. CASE \E r \in Requests : request'[r].op = "reuse" /\ request'[r].family = f
            BY <1>4, <3>4 DEF RequestFits
        <3> QED
            BY <3>2, <3>3, <3>4 DEF ReuseMoves
    <2>2. /\ family[f].token \in Nat /\ family'[f].token \in Nat
          /\ \A n \in 1..MaxTokens : n \in Nat /\ 1 <= n /\ exchanged[f][n] \in Nat
        BY <1>0, <1>5 DEF SessionTypeOK
    <2>3. family'[f].status = "NONE" => family'[f].token = 0
        BY <2>0 DEF FamilyFits, FamilyMoves
    <2>4. ASSUME NEW n \in 1..MaxTokens PROVE exchanged'[f][n] <= 1 /\ (family'[f].token <= n => exchanged'[f][n] = 0)
        <3>1. exchanged[f][n] <= 1 /\ (family[f].token <= n => exchanged[f][n] = 0) /\ exchanged[f][n] \in Nat /\ n \in Nat /\ 1 <= n
            BY <2>0, <2>2, <2>4 DEF FamilyFits
        <3>2. CASE family'[f].token = family[f].token /\ exchanged'[f] = exchanged[f]
            BY <3>1, <3>2
        <3>3. CASE family[f].status = "NONE" /\ family'[f].token = 1 /\ exchanged'[f] = exchanged[f]
            BY <2>0, <3>1, <3>3 DEF FamilyFits
        <3>4. CASE /\ family'[f].token = family[f].token + 1
                   /\ exchanged'[f][n] = IF n = family[f].token THEN exchanged[f][n] + 1 ELSE exchanged[f][n]
            BY <2>2, <3>1, <3>4
        <3> QED
            BY <2>0, <3>2, <3>3, <3>4 DEF FamilyMoves
    <2> QED
        BY <1>2, <2>1, <2>3, <2>4 DEF FamilyFits
<1>6. CacheIsRecent'
    <2> SUFFICES ASSUME NEW i \in Instances, NEW f \in Families PROVE cache'[i][f] <= lastLive'[f] + Ttl
        BY DEF CacheIsRecent
    <2>0. cache[i][f] <= lastLive[f] + Ttl /\ cache[i][f] \in Nat /\ CacheMoves(i, f)
        BY <1>0 DEF SessionsFit, CacheIsRecent, SessionTypeOK, SessionMoves
    <2>1. lastLive[f] \in Nat /\ lastLive'[f] \in Nat /\ lastLive[f] <= lastLive'[f]
        BY <1>1, <1>2
    <2>2. CASE cache'[i][f] = cache[i][f] \/ cache'[i][f] = 0
        BY <1>0, <2>0, <2>1, <2>2
    <2>3. CASE \E r \in Requests : request[r].op = "found" /\ request[r].family = f /\ cache'[i][f] = request[r].now + Ttl
        <3>1. PICK r \in Requests : request[r].op = "found" /\ request[r].family = f /\ cache'[i][f] = request[r].now + Ttl
            BY <2>3
        <3>2. request[r].now <= lastLive[f] /\ request[r].now \in Nat
            BY <1>3, <3>1 DEF SessionsFit, RequestFits
        <3> QED
            BY <1>0, <2>1, <3>1, <3>2
    <2> QED
        BY <2>0, <2>2, <2>3 DEF CacheMoves
<1>7. ReusedIsRevoked'
    <2> SUFFICES ASSUME NEW f \in reused', family'[f].status = "ACTIVE"
                 PROVE  \E r \in Requests : request'[r].op = "reuse" /\ request'[r].family = f
        BY DEF ReusedIsRevoked
    <2>1. ReuseMoves(f) /\ f \in Families
        BY <1>0 DEF SessionMoves, SessionTypeOK
    <2>2. ASSUME f \in reused, \A r \in Requests : ~(request[r].op = "reuse" /\ request[r].family = f)
          PROVE  FALSE
        <3>1. family[f].status # "ACTIVE" /\ family[f].status # "NONE"
            BY <2>1, <2>2 DEF SessionsFit, ReusedIsRevoked, FamilyFits
        <3>2. family[f].status \in {"NONE", "ACTIVE", "REVOKED"} /\ family[f].status # "REVOKED"
            BY <1>0, <2>1 DEF SessionTypeOK, SessionMoves, FamilyMoves
        <3> QED
            BY <3>1, <3>2
    <2> QED
        BY <2>1, <2>2 DEF ReuseMoves
<1> QED
    BY <1>0, <1>4, <1>5, <1>6, <1>7 DEF SessionsFit

\* And the sessions of an older password have ended or are about to.
LEMMA MovesEndOldPasswords == ASSUME OldPasswordEnds, SessionMoves PROVE OldPasswordEnds'
<1> SUFFICES ASSUME NEW f \in Families \ escaped'
             PROVE  \/ family'[f].status # "ACTIVE"
                    \/ family'[f].password = account'.password
                    \/ \E r \in Requests : request'[r].op = "signout"
    BY DEF OldPasswordEnds
<1>1. PasswordMoves(f) /\ f \notin escaped
    BY DEF SessionMoves
<1>2. \/ family[f].status # "ACTIVE"
      \/ family[f].password = account.password
      \/ \E r \in Requests : request[r].op = "signout"
    BY <1>1 DEF OldPasswordEnds
<1> QED
    BY <1>1, <1>2 DEF PasswordMoves

-----------------------------------------------------------------------------
(* What each operation does to its request, and to the sessions.           *)

Row == [op : {"idle", "login", "password", "issue", "user", "rotate", "reuse", "query", "found", "signout", "forget"},
        read : SUBSET Account, family : Families \cup {NoFamily}, token : 0..MaxTokens,
        at : SUBSET Instances, now : 0..MaxTime]

LEMMA FreeIsARow == Free \in Row /\ Free.op = "idle"
BY Sessions DEF Free, Row

\* Only request r goes on, to row.
Goes(r, row) == row \in Row /\ request'[r] = row /\ \A q \in Requests \ {r} : request'[q] = request[q]

LEMMA RowGoes ==
    ASSUME SessionTypeOK, NEW r \in Requests, NEW row \in Row, request' = [request EXCEPT ![r] = row],
           row.op \in {"user", "rotate"} => row.token \in 1..MaxTokens
    PROVE  /\ request' \in [Requests -> Row]
           /\ \A q \in Requests : request'[q].op \in {"user", "rotate"} => request'[q].token \in 1..MaxTokens
           /\ Goes(r, row)
<1>1. request \in [Requests -> Row]
    BY DEF SessionTypeOK, Row
<1>2. request' \in [Requests -> Row] /\ Goes(r, row)
    BY <1>1 DEF Goes
<1> QED
    BY <1>1, <1>2 DEF Goes, SessionTypeOK

LEMMA EndsGoes ==
    ASSUME SessionTypeOK, NEW r \in Requests, Ends(r)
    PROVE  /\ request' \in [Requests -> Row]
           /\ \A q \in Requests : request'[q].op \in {"user", "rotate"} => request'[q].token \in 1..MaxTokens
           /\ Goes(r, Free)
BY FreeIsARow, RowGoes DEF Ends

LEMMA BecomesGoes ==
    ASSUME SessionTypeOK, NEW r \in Requests,
           NEW op \in {"password", "issue", "rotate", "reuse", "forget", "found"}, Becomes(r, op),
           op = "rotate" => request[r].token \in 1..MaxTokens
    PROVE  /\ request' \in [Requests -> Row]
           /\ \A q \in Requests : request'[q].op \in {"user", "rotate"} => request'[q].token \in 1..MaxTokens
           /\ \E row \in Row : Goes(r, row) /\ row.op = op /\ row.family = request[r].family /\ row.now = request[r].now
<1>1. request \in [Requests -> Row] /\ request[r] \in Row
    BY DEF SessionTypeOK, Row
<1>2. PICK row : row = [request[r] EXCEPT !.op = op]
    OBVIOUS
<1>3. /\ row \in Row /\ row.op = op /\ row.family = request[r].family /\ row.now = request[r].now
      /\ row.token = request[r].token
    BY <1>1, <1>2 DEF Row
<1>4. request' = [request EXCEPT ![r] = row]
    BY <1>1, <1>2 DEF Becomes
<1> QED
    BY <1>3, <1>4, RowGoes

\* Session states that a step leaves alone.
LEMMA FamiliesStay ==
    ASSUME UNCHANGED <<family, exchanged>> PROVE \A f \in Families : FamilyMoves(f)
BY DEF FamilyMoves

LEMMA CachesStay == ASSUME UNCHANGED cache PROVE \A i \in Instances, f \in Families : CacheMoves(i, f)
BY DEF CacheMoves

LEMMA ReuseGoesOn ==
    ASSUME UNCHANGED reused, NEW r \in Requests, NEW row, Goes(r, row), request[r].op # "reuse"
    PROVE  \A f \in reused' : ReuseMoves(f)
<1> SUFFICES ASSUME NEW f \in reused' PROVE ReuseMoves(f)
    OBVIOUS
<1>1. CASE \A q \in Requests : ~(request[q].op = "reuse" /\ request[q].family = f)
    BY <1>1 DEF ReuseMoves
<1>2. CASE \E q \in Requests : request[q].op = "reuse" /\ request[q].family = f
    <2>1. PICK q \in Requests : request[q].op = "reuse" /\ request[q].family = f
        BY <1>2
    <2>2. request'[q] = request[q]
        BY <2>1 DEF Goes
    <2> QED
        BY <2>1, <2>2 DEF ReuseMoves
<1> QED
    BY <1>1, <1>2

LEMMA PasswordsGoOn ==
    ASSUME SessionTypeOK, UNCHANGED <<account, escaped>>, NEW r \in Requests, NEW row, Goes(r, row), request[r].op # "signout",
           \A f \in Families : family'[f].status = "ACTIVE" => family[f].status = "ACTIVE" /\ family'[f].password = family[f].password
    PROVE  \A f \in Families \ escaped' : f \notin escaped /\ PasswordMoves(f)
<1> SUFFICES ASSUME NEW f \in Families \ escaped', family'[f].status = "ACTIVE" PROVE PasswordMoves(f)
    BY DEF PasswordMoves
<1>1. CASE \A q \in Requests : request[q].op # "signout"
    BY <1>1 DEF PasswordMoves
<1>2. CASE \E q \in Requests : request[q].op = "signout"
    <2>1. PICK q \in Requests : request[q].op = "signout"
        BY <1>2
    <2>2. request'[q] = request[q]
        BY <2>1 DEF Goes
    <2> QED
        BY <2>1, <2>2 DEF PasswordMoves
<1> QED
    BY <1>1, <1>2

\* The type of what is read and written beside the request.
LEMMA WatchType == ASSUME SessionTypeOK, LockoutTypeOK, time' \in 0..MaxTime, Watch PROVE lastLive' \in [Families -> 0..MaxTime]
BY DEF SessionTypeOK, Watch

LEMMA TypeMoves ==
    ASSUME SessionTypeOK, LockoutTypeOK, time' \in 0..MaxTime, Watch,
           request' \in [Requests -> Row],
           \A q \in Requests : request'[q].op \in {"user", "rotate"} => request'[q].token \in 1..MaxTokens,
           account' \in Account,
           family' \in [Families -> [status : {"NONE", "ACTIVE", "REVOKED"}, expired : BOOLEAN, token : 0..MaxTokens,
                                     password : 0..MaxPasswords]],
           cache' \in [Instances -> [Families -> 0..(MaxTime + Ttl)]],
           exchanged' \in [Families -> [1..MaxTokens -> Nat]],
           reused' \subseteq Families, escaped' \subseteq Families, crashes' \in 0..MaxCrashes
    PROVE  SessionTypeOK'
BY WatchType DEF SessionTypeOK, Row

\* A step of one request that leaves the sessions alone.
LEMMA OnlyRequestMoves ==
    ASSUME SessionTypeOK, LockoutTypeOK, time' \in 0..MaxTime, Watch, NEW r \in Requests, NEW row, Goes(r, row),
           request' \in [Requests -> Row],
           \A q \in Requests : request'[q].op \in {"user", "rotate"} => request'[q].token \in 1..MaxTokens,
           RequestMoves(r), request[r].op \notin {"reuse", "signout"},
           UNCHANGED <<account, family, cache, exchanged, reused, escaped, crashes>>
    PROVE  SessionMoves
<1>1. SessionTypeOK'
    BY TypeMoves DEF SessionTypeOK
<1>2. \A q \in Requests : RequestMoves(q)
    BY DEF Goes, RequestMoves
<1>3. \A f \in Families \ escaped' : f \notin escaped /\ PasswordMoves(f)
    BY PasswordsGoOn
<1>4. \A f \in reused' : ReuseMoves(f)
    BY ReuseGoesOn
<1> QED
    BY <1>1, <1>2, <1>3, <1>4, FamiliesStay, CachesStay DEF SessionMoves

\* login, and the refreshes and lookups that only read.
LEMMA QuietMoves ==
    ASSUME SessionsFit, LockoutTypeOK, time' \in 0..MaxTime, Watch, NEW r \in Requests,
           LoginReads(r) \/ LoginCounted(r) \/ LoginWrong(r) \/ LoginRight(r) \/ RefreshReadsUser(r)
    PROVE  SessionMoves
<1>0. SessionTypeOK /\ request[r] \in Row
    BY DEF SessionsFit, SessionTypeOK, Row
<1>1. request[r].op \notin {"reuse", "signout"} /\ UNCHANGED <<account, family, cache, exchanged, reused, escaped, crashes>>
    BY DEF LoginReads, LoginCounted, LoginWrong, LoginRight, RefreshReadsUser
<1>2. \/ Ends(r)
      \/ \E op \in {"password", "issue"} : Becomes(r, op)
      \/ request[r].op = "user" /\ Becomes(r, "rotate")
      \/ request' = [request EXCEPT ![r] = [Free EXCEPT !.op = "login", !.read = {account}]]
    BY DEF LoginReads, LoginCounted, LoginWrong, LoginRight, RefreshReadsUser
<1>3. CASE Ends(r)
    <2>1. RequestMoves(r)
        BY <1>0, <1>3, EndsGoes, FreeIsARow DEF Goes, RequestMoves
    <2> QED
        BY <1>0, <1>1, <1>3, <2>1, EndsGoes, OnlyRequestMoves
<1>4. CASE \E op \in {"password", "issue"} : Becomes(r, op)
    <2>1. PICK op \in {"password", "issue"} : Becomes(r, op)
        BY <1>4
    <2>2. PICK row \in Row : Goes(r, row) /\ row.op = op
        BY <1>0, <2>1, BecomesGoes
    <2>3. RequestMoves(r)
        BY <2>2 DEF Goes, RequestMoves
    <2>4. /\ request' \in [Requests -> Row]
          /\ \A q \in Requests : request'[q].op \in {"user", "rotate"} => request'[q].token \in 1..MaxTokens
        BY <1>0, <2>1, BecomesGoes
    <2> QED
        BY <1>0, <1>1, <2>2, <2>3, <2>4, OnlyRequestMoves
<1>5. CASE request[r].op = "user" /\ Becomes(r, "rotate")
    <2>1. request[r].token \in 1..MaxTokens
        BY <1>0, <1>5 DEF SessionTypeOK
    <2>2. PICK row \in Row : Goes(r, row) /\ row.op = "rotate" /\ row.family = request[r].family
        BY <1>0, <1>5, <2>1, BecomesGoes
    <2>3. RequestMoves(r)
        BY <1>5, <2>2 DEF Goes, RequestMoves
    <2>4. /\ request' \in [Requests -> Row]
          /\ \A q \in Requests : request'[q].op \in {"user", "rotate"} => request'[q].token \in 1..MaxTokens
        BY <1>0, <1>5, <2>1, BecomesGoes
    <2> QED
        BY <1>0, <1>1, <2>2, <2>3, <2>4, OnlyRequestMoves
<1>6. CASE request' = [request EXCEPT ![r] = [Free EXCEPT !.op = "login", !.read = {account}]]
    <2>1. PICK row : row = [Free EXCEPT !.op = "login", !.read = {account}]
        OBVIOUS
    <2>2. row \in Row /\ row.op = "login"
        <3>1. row = [op |-> "login", read |-> {account}, family |-> NoFamily, token |-> 0, at |-> {}, now |-> 0]
            BY <2>1 DEF Free
        <3>2. {account} \in SUBSET Account /\ 0 \in 0..MaxTokens /\ 0 \in 0..MaxTime
            BY <1>0, Sessions DEF SessionTypeOK
        <3> QED
            BY <3>1, <3>2 DEF Row
    <2>3. /\ request' \in [Requests -> Row]
          /\ \A q \in Requests : request'[q].op \in {"user", "rotate"} => request'[q].token \in 1..MaxTokens
          /\ Goes(r, row)
        BY <1>0, <1>6, <2>1, <2>2, RowGoes
    <2>4. RequestMoves(r)
        BY <2>2, <2>3 DEF Goes, RequestMoves
    <2> QED
        BY <1>0, <1>1, <2>3, <2>4, OnlyRequestMoves
<1> QED
    BY <1>2, <1>3, <1>4, <1>5, <1>6

\* A request that begins in one instance.
LEMMA AtGoes ==
    ASSUME SessionTypeOK, NEW r \in Requests, NEW i \in Instances, NEW op \in {"signout", "forget"}, At(r, op, i)
    PROVE  /\ request' \in [Requests -> Row]
           /\ \A q \in Requests : request'[q].op \in {"user", "rotate"} => request'[q].token \in 1..MaxTokens
           /\ \E row \in Row : Goes(r, row) /\ row.op = op
<1>1. PICK row : row = [Free EXCEPT !.op = op, !.at = {i}]
    OBVIOUS
<1>2. row \in Row /\ row.op = op
    <2>1. row = [op |-> op, read |-> {}, family |-> NoFamily, token |-> 0, at |-> {i}, now |-> 0]
        BY <1>1 DEF Free
    <2>2. {i} \in SUBSET Instances /\ 0 \in 0..MaxTokens /\ 0 \in 0..MaxTime
        BY Sessions
    <2> QED
        BY <2>1, <2>2 DEF Row
<1>3. request' = [request EXCEPT ![r] = row]
    BY <1>1 DEF At
<1> QED
    BY <1>2, <1>3, RowGoes

\* What ends sessions begins: logout, a new password, an account switched off or on.
LEMMA SignOutMoves ==
    ASSUME SessionsFit, LockoutTypeOK, time' \in 0..MaxTime, Watch, NEW r \in Requests, NEW i \in Instances,
           Logout(r, i) \/ PasswordChanges(r, i) \/ Deactivate(r, i) \/ Reactivate(r, i)
    PROVE  SessionMoves
<1>0. SessionTypeOK
    BY DEF SessionsFit
<1>1. request[r].op = "idle" /\ UNCHANGED <<family, cache, exchanged, reused, escaped, crashes>>
    BY DEF Logout, PasswordChanges, Deactivate, Reactivate
<1>2. PICK op \in {"signout", "forget"} : At(r, op, i) /\ (account'.password = account.password \/ op = "signout") /\ account' \in Account
    <2>1. account.password \in Nat /\ account.password <= MaxPasswords /\ 1 <= account.password /\ account.status \in {"ACTIVE", "INACTIVE"}
          /\ account = [status |-> account.status, password |-> account.password]
        BY <1>0, Sessions DEF SessionTypeOK, Account
    <2>2. CASE PasswordChanges(r, i)
        <3>1. account'.status = account.status /\ account'.password = account.password + 1 /\ account.password + 1 \in 1..MaxPasswords
            BY <2>1, <2>2, Sessions DEF PasswordChanges
        <3>2. account' \in Account
            BY <2>1, <2>2, <3>1 DEF PasswordChanges, Account
        <3> QED
            BY <2>2, <3>2 DEF PasswordChanges
    <2>3. CASE Logout(r, i)
        BY <1>0, <2>3 DEF Logout, SessionTypeOK
    <2>4. CASE Deactivate(r, i)
        BY <1>0, <2>4 DEF Deactivate, SessionTypeOK, Account
    <2>5. CASE Reactivate(r, i)
        BY <1>0, <2>5 DEF Reactivate, SessionTypeOK, Account
    <2> QED
        BY <2>2, <2>3, <2>4, <2>5
<1>3. PICK row \in Row : Goes(r, row) /\ row.op = op
    BY <1>0, <1>2, AtGoes
<1>4. SessionTypeOK'
    <2>1. /\ request' \in [Requests -> Row]
          /\ \A q \in Requests : request'[q].op \in {"user", "rotate"} => request'[q].token \in 1..MaxTokens
        BY <1>0, <1>2, AtGoes
    <2> QED
        BY <1>0, <1>1, <1>2, <2>1, TypeMoves DEF SessionTypeOK
<1>5. \A q \in Requests : RequestMoves(q)
    BY <1>3 DEF Goes, RequestMoves
<1>6. \A f \in reused' : ReuseMoves(f)
    BY <1>1, <1>3, ReuseGoesOn
<1>7. \A f \in Families \ escaped' : f \notin escaped /\ PasswordMoves(f)
    <2>1. CASE op = "signout"
        BY <1>1, <1>3, <2>1 DEF Goes, PasswordMoves
    <2>2. CASE account'.password = account.password
        <3> SUFFICES ASSUME NEW f \in Families \ escaped, family[f].status = "ACTIVE" PROVE PasswordMoves(f)
            BY <1>1 DEF PasswordMoves
        <3>1. CASE \A q \in Requests : request[q].op # "signout"
            BY <1>1, <2>2, <3>1 DEF PasswordMoves
        <3>2. CASE \E q \in Requests : request[q].op = "signout"
            <4>1. PICK q \in Requests : request[q].op = "signout"
                BY <3>2
            <4>2. request'[q] = request[q]
                BY <1>1, <1>3, <4>1 DEF Goes
            <4> QED
                BY <4>1, <4>2 DEF PasswordMoves
        <3> QED
            BY <3>1, <3>2
    <2> QED
        BY <1>2, <2>1, <2>2
<1> QED
    BY <1>1, <1>4, <1>5, <1>6, <1>7, FamiliesStay, CachesStay DEF SessionMoves

\* issueSession
LEMMA IssueMoves ==
    ASSUME SessionsFit, LockoutTypeOK, time' \in 0..MaxTime, Watch, NEW r \in Requests, NEW f \in Families, IssueSession(r, f)
    PROVE  SessionMoves
<1>0. SessionTypeOK /\ request[r].op = "issue" /\ UNCHANGED <<account, cache, exchanged, reused, crashes>>
    BY DEF SessionsFit, IssueSession
<1>1. PICK user \in request[r].read :
        /\ family' = [family EXCEPT ![f] = [status |-> "ACTIVE", expired |-> FALSE, token |-> 1, password |-> user.password]]
        /\ escaped' = IF user.password = account.password THEN escaped ELSE escaped \cup {f}
    BY DEF IssueSession
<1>2. user.password \in 0..MaxPasswords /\ 1 \in 0..MaxTokens /\ family[f].status = "NONE" /\ family[f].token = 0
    <2>1. user \in Account
        BY <1>0 DEF SessionTypeOK
    <2> QED
        BY <2>1, Sessions DEF Account, IssueSession, SessionsFit, FamilyFits
<1>3. /\ request' \in [Requests -> Row] /\ Goes(r, Free)
      /\ \A q \in Requests : request'[q].op \in {"user", "rotate"} => request'[q].token \in 1..MaxTokens
    BY <1>0, EndsGoes DEF IssueSession
<1>4. /\ family' \in [Families -> [status : {"NONE", "ACTIVE", "REVOKED"}, expired : BOOLEAN, token : 0..MaxTokens,
                                   password : 0..MaxPasswords]]
      /\ family'[f] = [status |-> "ACTIVE", expired |-> FALSE, token |-> 1, password |-> user.password]
      /\ \A g \in Families \ {f} : family'[g] = family[g]
    BY <1>0, <1>1, <1>2 DEF SessionTypeOK
<1>5. SessionTypeOK'
    BY <1>0, <1>1, <1>3, <1>4, TypeMoves DEF SessionTypeOK
<1>6. \A q \in Requests : RequestMoves(q)
    BY <1>3, FreeIsARow DEF Goes, RequestMoves
<1>7. \A g \in Families : FamilyMoves(g)
    BY <1>0, <1>2, <1>4 DEF FamilyMoves
<1>8. \A g \in reused' : ReuseMoves(g)
    BY <1>0, <1>3, ReuseGoesOn
<1>9. \A g \in Families \ escaped' : g \notin escaped /\ PasswordMoves(g)
    <2> SUFFICES ASSUME NEW g \in Families \ escaped' PROVE g \notin escaped /\ PasswordMoves(g)
        OBVIOUS
    <2>1. g \notin escaped
        BY <1>1
    <2>2. CASE g = f
        <3>1. family'[g].password = account'.password
            BY <1>0, <1>1, <1>4, <2>2
        <3> QED
            BY <2>1, <3>1 DEF PasswordMoves
    <2>3. CASE g # f
        <3>1. family'[g] = family[g]
            BY <1>4, <2>3
        <3>2. CASE \A q \in Requests : request[q].op # "signout"
            BY <1>0, <2>1, <3>1, <3>2 DEF PasswordMoves
        <3>3. CASE \E q \in Requests : request[q].op = "signout"
            <4>1. PICK q \in Requests : request[q].op = "signout"
                BY <3>3
            <4>2. request'[q] = request[q]
                BY <1>0, <1>3, <4>1 DEF Goes
            <4> QED
                BY <2>1, <4>1, <4>2 DEF PasswordMoves
        <3> QED
            BY <3>2, <3>3
    <2> QED
        BY <2>2, <2>3
<1> QED
    BY <1>0, <1>5, <1>6, <1>7, <1>8, <1>9, CachesStay DEF SessionMoves

\* refresh, when it has read the family of the token
LEMMA RefreshReadsMoves ==
    ASSUME SessionsFit, LockoutTypeOK, time' \in 0..MaxTime, Watch, NEW r \in Requests, NEW f \in Families,
           NEW n \in 1..MaxTokens, RefreshReads(r, f, n)
    PROVE  SessionMoves
<1>0. /\ SessionTypeOK /\ request[r].op = "idle" /\ UNCHANGED <<account, family, cache, exchanged, escaped, crashes>>
      /\ n \in Nat /\ n >= 1 /\ n \in 0..MaxTokens /\ family[f].token \in Nat /\ family[f].token > 0
    BY Sessions DEF SessionsFit, RefreshReads, SessionTypeOK
<1>1. PICK op \in {"user", "reuse"} :
        /\ request' = [request EXCEPT ![r] = [Free EXCEPT !.op = op, !.family = f, !.token = n]]
        /\ reused' = IF op = "user" THEN reused ELSE reused \cup {f}
    <2>1. CASE family[f].status = "ACTIVE" /\ ~family[f].expired /\ family[f].token = n
        BY <2>1 DEF RefreshReads
    <2>2. CASE ~(family[f].status = "ACTIVE" /\ ~family[f].expired /\ family[f].token = n)
        BY <2>2 DEF RefreshReads
    <2> QED
        BY <2>1, <2>2
<1>2. PICK row : row = [Free EXCEPT !.op = op, !.family = f, !.token = n]
    OBVIOUS
<1>3. row \in Row /\ row.op = op /\ row.family = f /\ row.token = n
    <2>1. row = [op |-> op, read |-> {}, family |-> f, token |-> n, at |-> {}, now |-> 0]
        BY <1>2 DEF Free
    <2>2. 0 \in 0..MaxTime
        BY Sessions
    <2> QED
        BY <1>0, <2>1, <2>2 DEF Row
<1>4. /\ request' \in [Requests -> Row] /\ Goes(r, row)
      /\ \A q \in Requests : request'[q].op \in {"user", "rotate"} => request'[q].token \in 1..MaxTokens
    BY <1>0, <1>1, <1>2, <1>3, RowGoes
<1>5. SessionTypeOK'
    <2>1. reused' \subseteq Families
        BY <1>0, <1>1 DEF SessionTypeOK
    <2> QED
        BY <1>0, <1>4, <2>1, TypeMoves DEF SessionTypeOK
<1>6. \A q \in Requests : RequestMoves(q)
    BY <1>0, <1>3, <1>4 DEF Goes, RequestMoves
<1>7. \A g \in reused' : ReuseMoves(g)
    <2> SUFFICES ASSUME NEW g \in reused' PROVE ReuseMoves(g)
        OBVIOUS
    <2>1. CASE g = f /\ op = "reuse"
        BY <1>3, <1>4, <2>1 DEF Goes, ReuseMoves
    <2>2. CASE g \in reused
        <3>1. CASE \A q \in Requests : ~(request[q].op = "reuse" /\ request[q].family = g)
            BY <2>2, <3>1 DEF ReuseMoves
        <3>2. CASE \E q \in Requests : request[q].op = "reuse" /\ request[q].family = g
            BY <1>0, <1>4, <3>2 DEF Goes, ReuseMoves
        <3> QED
            BY <3>1, <3>2
    <2> QED
        BY <1>1, <2>1, <2>2
<1>8. \A g \in Families \ escaped' : g \notin escaped /\ PasswordMoves(g)
    BY <1>0, <1>4, PasswordsGoOn
<1> QED
    BY <1>0, <1>5, <1>6, <1>7, <1>8, FamiliesStay, CachesStay DEF SessionMoves

\* rotate: the token of the family is still the one presented, or it was used
LEMMA RotateMoves ==
    ASSUME SessionsFit, LockoutTypeOK, time' \in 0..MaxTime, Watch, NEW r \in Requests, RefreshRotates(r)
    PROVE  SessionMoves
<1>0. /\ SessionTypeOK /\ request[r].op = "rotate" /\ UNCHANGED <<account, cache, escaped, crashes>>
      /\ request[r].family \in Families /\ request[r].token \in 1..MaxTokens
    BY DEF SessionsFit, RefreshRotates, SessionTypeOK, RequestFits
<1>1. PICK f \in Families : f = request[r].family
    BY <1>0
<1>2. family[f] \in [status : {"NONE", "ACTIVE", "REVOKED"}, expired : BOOLEAN, token : 0..MaxTokens, password : 0..MaxPasswords]
    BY <1>0 DEF SessionTypeOK
<1>3. CASE Rotates(r)
    <2>1. /\ family[f].status = "ACTIVE" /\ family[f].token = request[r].token /\ family[f].token < MaxTokens
          /\ family' = [family EXCEPT ![f].token = @ + 1, ![f].expired = FALSE]
          /\ exchanged' = [exchanged EXCEPT ![f][request[r].token] = @ + 1]
          /\ Ends(r) /\ UNCHANGED reused
        BY <1>1, <1>3 DEF RefreshRotates, Rotates
    <2>2. /\ request' \in [Requests -> Row] /\ Goes(r, Free)
          /\ \A q \in Requests : request'[q].op \in {"user", "rotate"} => request'[q].token \in 1..MaxTokens
        BY <1>0, <2>1, EndsGoes
    <2>3. PICK next : next = [family[f] EXCEPT !.token = family[f].token + 1, !.expired = FALSE]
        OBVIOUS
    <2>4. /\ next \in [status : {"NONE", "ACTIVE", "REVOKED"}, expired : BOOLEAN, token : 0..MaxTokens, password : 0..MaxPasswords]
          /\ next.token = family[f].token + 1 /\ next.status = "ACTIVE" /\ next.password = family[f].password
        <3>1. family[f].token + 1 \in 0..MaxTokens
            BY <1>2, <2>1, Sessions
        <3> QED
            BY <1>2, <2>1, <2>3, <3>1
    <2>5. family' = [family EXCEPT ![f] = next]
        BY <1>0, <1>2, <2>1, <2>3 DEF SessionTypeOK
    <2>6. /\ family' \in [Families -> [status : {"NONE", "ACTIVE", "REVOKED"}, expired : BOOLEAN, token : 0..MaxTokens,
                                       password : 0..MaxPasswords]]
          /\ family'[f] = next /\ \A g \in Families \ {f} : family'[g] = family[g]
        BY <1>0, <2>4, <2>5 DEF SessionTypeOK
    <2>7. /\ exchanged' \in [Families -> [1..MaxTokens -> Nat]]
          /\ \A n \in 1..MaxTokens : exchanged'[f][n] = IF n = request[r].token THEN exchanged[f][n] + 1 ELSE exchanged[f][n]
          /\ \A g \in Families \ {f} : exchanged'[g] = exchanged[g]
        <3>1. exchanged \in [Families -> [1..MaxTokens -> Nat]] /\ exchanged[f] \in [1..MaxTokens -> Nat]
            BY <1>0 DEF SessionTypeOK
        <3>2. PICK m \in 1..MaxTokens : m = request[r].token
            BY <1>0
        <3>3. PICK given : given = [exchanged[f] EXCEPT ![m] = exchanged[f][m] + 1]
            OBVIOUS
        <3>4. /\ given \in [1..MaxTokens -> Nat]
              /\ \A n \in 1..MaxTokens : given[n] = IF n = m THEN exchanged[f][n] + 1 ELSE exchanged[f][n]
            BY <3>1, <3>3
        <3>5. exchanged' = [exchanged EXCEPT ![f] = given]
            BY <2>1, <3>1, <3>2, <3>3
        <3> QED
            BY <3>1, <3>2, <3>4, <3>5
    <2>8. SessionTypeOK'
        BY <1>0, <2>1, <2>2, <2>6, <2>7, TypeMoves DEF SessionTypeOK
    <2>9. \A q \in Requests : RequestMoves(q)
        BY <2>2, FreeIsARow DEF Goes, RequestMoves
    <2>10. \A g \in Families : FamilyMoves(g)
        <3>1. FamilyMoves(f)
            <4>1. \A n \in 1..MaxTokens : exchanged'[f][n] = IF n = family[f].token THEN exchanged[f][n] + 1 ELSE exchanged[f][n]
                BY <2>1, <2>7
            <4>2. family[f].status = "ACTIVE" /\ family'[f].status = "ACTIVE" /\ family'[f].token = family[f].token + 1
                BY <2>1, <2>4, <2>6
            <4> QED
                BY <4>1, <4>2 DEF FamilyMoves
        <3>2. ASSUME NEW g \in Families \ {f} PROVE FamilyMoves(g)
            BY <2>6, <2>7, <3>2 DEF FamilyMoves
        <3> QED
            BY <3>1, <3>2
    <2>11. \A g \in reused' : ReuseMoves(g)
        BY <1>0, <2>1, <2>2, ReuseGoesOn
    <2>12. \A g \in Families \ escaped' : g \notin escaped /\ PasswordMoves(g)
        <3>1. \A g \in Families : family'[g].status = "ACTIVE" => family[g].status = "ACTIVE" /\ family'[g].password = family[g].password
            BY <2>1, <2>4, <2>6
        <3> QED
            BY <1>0, <2>2, <3>1, PasswordsGoOn
    <2> QED
        BY <1>0, <2>8, <2>9, <2>10, <2>11, <2>12, CachesStay DEF SessionMoves
<1>4. CASE ~Rotates(r)
    <2>1. Becomes(r, "reuse") /\ reused' = reused \cup {f} /\ UNCHANGED <<family, exchanged>>
        BY <1>1, <1>4 DEF RefreshRotates
    <2>2. PICK row \in Row : Goes(r, row) /\ row.op = "reuse" /\ row.family = f
        BY <1>0, <1>1, <2>1, BecomesGoes
    <2>3. /\ request' \in [Requests -> Row]
          /\ \A q \in Requests : request'[q].op \in {"user", "rotate"} => request'[q].token \in 1..MaxTokens
        BY <1>0, <2>1, BecomesGoes
    <2>4. SessionTypeOK'
        <3>1. reused' \subseteq Families
            BY <1>0, <2>1 DEF SessionTypeOK
        <3> QED
            BY <1>0, <2>1, <2>3, <3>1, TypeMoves DEF SessionTypeOK
    <2>5. \A q \in Requests : RequestMoves(q)
        BY <1>0, <1>1, <2>2 DEF Goes, RequestMoves
    <2>6. \A g \in reused' : ReuseMoves(g)
        <3> SUFFICES ASSUME NEW g \in reused' PROVE ReuseMoves(g)
            OBVIOUS
        <3>1. CASE g = f
            BY <2>2, <3>1 DEF Goes, ReuseMoves
        <3>2. CASE g # f
            <4>1. CASE \A q \in Requests : ~(request[q].op = "reuse" /\ request[q].family = g)
                BY <2>1, <3>2, <4>1 DEF ReuseMoves
            <4>2. CASE \E q \in Requests : request[q].op = "reuse" /\ request[q].family = g
                BY <1>0, <2>2, <4>2 DEF Goes, ReuseMoves
            <4> QED
                BY <4>1, <4>2
        <3> QED
            BY <3>1, <3>2
    <2>7. \A g \in Families \ escaped' : g \notin escaped /\ PasswordMoves(g)
        BY <1>0, <2>1, <2>2, PasswordsGoOn
    <2> QED
        BY <1>0, <2>1, <2>4, <2>5, <2>6, <2>7, FamiliesStay, CachesStay DEF SessionMoves
<1> QED
    BY <1>3, <1>4

\* What revocation makes of a session.
LEMMA RevokedFamily ==
    ASSUME SessionTypeOK, NEW f \in Families
    PROVE  /\ Revoked(f) \in [status : {"NONE", "ACTIVE", "REVOKED"}, expired : BOOLEAN, token : 0..MaxTokens, password : 0..MaxPasswords]
           /\ Revoked(f).status # "ACTIVE" /\ Revoked(f).token = family[f].token
           /\ Revoked(f).status = "NONE" <=> family[f].status = "NONE"
<1>1. family[f] \in [status : {"NONE", "ACTIVE", "REVOKED"}, expired : BOOLEAN, token : 0..MaxTokens, password : 0..MaxPasswords]
    BY DEF SessionTypeOK
<1>2. Revoked(f) = [family[f] EXCEPT !.status = IF family[f].status = "ACTIVE" THEN "REVOKED" ELSE family[f].status]
    BY DEF Revoked
<1>3. CASE family[f].status = "ACTIVE"
    BY <1>1, <1>2, <1>3
<1>4. CASE family[f].status # "ACTIVE"
    BY <1>1, <1>2, <1>4
<1> QED
    BY <1>3, <1>4

\* handleReuseDetected
LEMMA ReuseDetectedMoves ==
    ASSUME SessionsFit, LockoutTypeOK, time' \in 0..MaxTime, Watch, NEW r \in Requests, ReuseDetected(r)
    PROVE  SessionMoves
<1>0. /\ SessionTypeOK /\ request[r].op = "reuse" /\ UNCHANGED <<account, cache, exchanged, reused, escaped, crashes>>
      /\ request[r].family \in Families /\ Ends(r)
    BY DEF SessionsFit, ReuseDetected, RequestFits
<1>1. PICK f \in Families : f = request[r].family
    BY <1>0
<1>2. PICK next : next = Revoked(f)
    OBVIOUS
<1>3. /\ next \in [status : {"NONE", "ACTIVE", "REVOKED"}, expired : BOOLEAN, token : 0..MaxTokens, password : 0..MaxPasswords]
      /\ next.status # "ACTIVE" /\ next.token = family[f].token /\ (next.status = "NONE" <=> family[f].status = "NONE")
    BY <1>0, <1>2, RevokedFamily
<1>4. /\ family' \in [Families -> [status : {"NONE", "ACTIVE", "REVOKED"}, expired : BOOLEAN, token : 0..MaxTokens,
                                   password : 0..MaxPasswords]]
      /\ family'[f] = next /\ \A g \in Families \ {f} : family'[g] = family[g]
    BY <1>0, <1>1, <1>2, <1>3 DEF ReuseDetected, SessionTypeOK
<1>5. /\ request' \in [Requests -> Row] /\ Goes(r, Free)
      /\ \A q \in Requests : request'[q].op \in {"user", "rotate"} => request'[q].token \in 1..MaxTokens
    BY <1>0, EndsGoes
<1>6. SessionTypeOK'
    BY <1>0, <1>4, <1>5, TypeMoves DEF SessionTypeOK
<1>7. \A q \in Requests : RequestMoves(q)
    BY <1>5, FreeIsARow DEF Goes, RequestMoves
<1>8. \A g \in Families : FamilyMoves(g)
    <2>1. FamilyMoves(f)
        BY <1>0, <1>3, <1>4 DEF FamilyMoves
    <2>2. ASSUME NEW g \in Families \ {f} PROVE FamilyMoves(g)
        BY <1>0, <1>4, <2>2 DEF FamilyMoves
    <2> QED
        BY <2>1, <2>2
<1>9. \A g \in reused' : ReuseMoves(g)
    <2> SUFFICES ASSUME NEW g \in reused PROVE ReuseMoves(g)
        BY <1>0
    <2>1. CASE g = f
        BY <1>3, <1>4, <2>1 DEF ReuseMoves
    <2>2. CASE \A q \in Requests : ~(request[q].op = "reuse" /\ request[q].family = g)
        BY <2>2 DEF ReuseMoves
    <2>3. CASE g # f /\ \E q \in Requests : request[q].op = "reuse" /\ request[q].family = g
        <3>1. PICK q \in Requests : request[q].op = "reuse" /\ request[q].family = g
            BY <2>3
        <3>2. request'[q] = request[q]
            BY <1>1, <1>5, <2>3, <3>1 DEF Goes
        <3> QED
            BY <3>1, <3>2 DEF ReuseMoves
    <2> QED
        BY <2>1, <2>2, <2>3
<1>10. \A g \in Families \ escaped' : g \notin escaped /\ PasswordMoves(g)
    <2>1. \A g \in Families : family'[g].status = "ACTIVE" => family[g].status = "ACTIVE" /\ family'[g].password = family[g].password
        BY <1>3, <1>4
    <2> QED
        BY <1>0, <1>5, <2>1, PasswordsGoOn
<1> QED
    BY <1>0, <1>6, <1>7, <1>8, <1>9, <1>10, CachesStay DEF SessionMoves

\* revokeAllForUser
LEMMA RevokeAllMoves ==
    ASSUME SessionsFit, LockoutTypeOK, time' \in 0..MaxTime, Watch, NEW r \in Requests, RevokeAllForUser(r)
    PROVE  SessionMoves
<1>0. /\ SessionTypeOK /\ request[r].op = "signout" /\ UNCHANGED <<account, cache, exchanged, reused, escaped, crashes>>
      /\ family' = [f \in Families |-> Revoked(f)] /\ Becomes(r, "forget")
    BY DEF SessionsFit, RevokeAllForUser
<1>1. \A f \in Families :
        /\ family'[f] \in [status : {"NONE", "ACTIVE", "REVOKED"}, expired : BOOLEAN, token : 0..MaxTokens, password : 0..MaxPasswords]
        /\ family'[f].status # "ACTIVE" /\ family'[f].token = family[f].token
        /\ (family'[f].status = "NONE" <=> family[f].status = "NONE")
    BY <1>0, RevokedFamily
<1>2. family' \in [Families -> [status : {"NONE", "ACTIVE", "REVOKED"}, expired : BOOLEAN, token : 0..MaxTokens,
                                password : 0..MaxPasswords]]
    BY <1>0, RevokedFamily
<1>3. /\ request' \in [Requests -> Row]
      /\ \A q \in Requests : request'[q].op \in {"user", "rotate"} => request'[q].token \in 1..MaxTokens
    BY <1>0, BecomesGoes
<1>4. PICK row \in Row : Goes(r, row) /\ row.op = "forget"
    BY <1>0, BecomesGoes
<1>5. SessionTypeOK'
    BY <1>0, <1>2, <1>3, TypeMoves DEF SessionTypeOK
<1>6. \A q \in Requests : RequestMoves(q)
    BY <1>4 DEF Goes, RequestMoves
<1>7. \A g \in Families : FamilyMoves(g)
    BY <1>0, <1>1 DEF FamilyMoves
<1>8. \A g \in reused' : ReuseMoves(g)
    BY <1>0, <1>4, ReuseGoesOn
<1>9. \A g \in Families \ escaped' : g \notin escaped /\ PasswordMoves(g)
    BY <1>0, <1>1 DEF PasswordMoves
<1> QED
    BY <1>0, <1>5, <1>6, <1>7, <1>8, <1>9, CachesStay DEF SessionMoves

\* SessionStateService: a lookup begins ...
LEMMA MissMoves ==
    ASSUME SessionsFit, LockoutTypeOK, time' \in 0..MaxTime, Watch, NEW r \in Requests, NEW i \in Instances,
           NEW f \in Families, ResolveMisses(r, i, f)
    PROVE  SessionMoves
<1>0. /\ SessionTypeOK /\ request[r].op = "idle" /\ UNCHANGED <<account, family, cache, exchanged, reused, escaped, crashes>>
      /\ time \in 0..MaxTime
      /\ request' = [request EXCEPT ![r] = [Free EXCEPT !.op = "query", !.family = f, !.at = {i}, !.now = time]]
    BY DEF SessionsFit, ResolveMisses, LockoutTypeOK
<1>1. PICK row : row = [Free EXCEPT !.op = "query", !.family = f, !.at = {i}, !.now = time]
    OBVIOUS
<1>2. row \in Row /\ row.op = "query" /\ row.family = f /\ row.now = time
    <2>1. row = [op |-> "query", read |-> {}, family |-> f, token |-> 0, at |-> {i}, now |-> time]
        BY <1>1 DEF Free
    <2>2. 0 \in 0..MaxTokens
        BY Sessions
    <2> QED
        BY <1>0, <2>1, <2>2 DEF Row
<1>3. /\ request' \in [Requests -> Row] /\ Goes(r, row)
      /\ \A q \in Requests : request'[q].op \in {"user", "rotate"} => request'[q].token \in 1..MaxTokens
    BY <1>0, <1>1, <1>2, RowGoes
<1>4. RequestMoves(r)
    BY <1>2, <1>3 DEF Goes, RequestMoves
<1> QED
    BY <1>0, <1>3, <1>4, OnlyRequestMoves

\* ... and a step of one that writes no more than the cache.
LEMMA CacheStepMoves ==
    ASSUME SessionTypeOK, LockoutTypeOK, time' \in 0..MaxTime, Watch, NEW r \in Requests, NEW row, Goes(r, row),
           request' \in [Requests -> Row],
           \A q \in Requests : request'[q].op \in {"user", "rotate"} => request'[q].token \in 1..MaxTokens,
           RequestMoves(r), request[r].op \notin {"reuse", "signout"},
           cache' \in [Instances -> [Families -> 0..(MaxTime + Ttl)]],
           \A i \in Instances, f \in Families : CacheMoves(i, f),
           UNCHANGED <<account, family, exchanged, reused, escaped, crashes>>
    PROVE  SessionMoves
<1>1. SessionTypeOK'
    BY TypeMoves DEF SessionTypeOK
<1>2. \A q \in Requests : RequestMoves(q)
    BY DEF Goes, RequestMoves
<1>3. \A f \in Families \ escaped' : f \notin escaped /\ PasswordMoves(f)
    BY PasswordsGoOn
<1>4. \A f \in reused' : ReuseMoves(f)
    BY ReuseGoesOn
<1> QED
    BY <1>1, <1>2, <1>3, <1>4, FamiliesStay DEF SessionMoves

\* invalidate forgets what one instance knows.
LEMMA Forgotten ==
    ASSUME SessionTypeOK, NEW at, cache' = [i \in Instances |-> IF i \in at THEN [f \in Families |-> 0] ELSE cache[i]]
    PROVE  /\ cache' \in [Instances -> [Families -> 0..(MaxTime + Ttl)]]
           /\ \A i \in Instances, f \in Families : CacheMoves(i, f)
<1>1. 0 \in 0..(MaxTime + Ttl) /\ cache \in [Instances -> [Families -> 0..(MaxTime + Ttl)]]
    BY Sessions DEF SessionTypeOK
<1>2. cache' \in [Instances -> [Families -> 0..(MaxTime + Ttl)]]
    BY <1>1
<1>3. \A i \in Instances, f \in Families : cache'[i][f] = 0 \/ cache'[i][f] = cache[i][f]
    OBVIOUS
<1> QED
    BY <1>2, <1>3 DEF CacheMoves

LEMMA InvalidateMoves ==
    ASSUME SessionsFit, LockoutTypeOK, time' \in 0..MaxTime, Watch, NEW r \in Requests, Invalidate(r)
    PROVE  SessionMoves
<1>0. /\ SessionTypeOK /\ request[r].op = "forget" /\ UNCHANGED <<account, family, exchanged, reused, escaped, crashes>> /\ Ends(r)
    BY DEF SessionsFit, Invalidate
<1>1. /\ cache' \in [Instances -> [Families -> 0..(MaxTime + Ttl)]]
      /\ \A i \in Instances, f \in Families : CacheMoves(i, f)
    <2>1. PICK at : at = request[r].at
        OBVIOUS
    <2>2. cache' = [i \in Instances |-> IF i \in at THEN [f \in Families |-> 0] ELSE cache[i]]
        BY <2>1 DEF Invalidate
    <2> QED
        BY <1>0, <2>2, Forgotten
<1>2. /\ request' \in [Requests -> Row] /\ Goes(r, Free)
      /\ \A q \in Requests : request'[q].op \in {"user", "rotate"} => request'[q].token \in 1..MaxTokens
    BY <1>0, EndsGoes
<1>3. RequestMoves(r)
    BY <1>2, FreeIsARow DEF Goes, RequestMoves
<1> QED
    BY <1>0, <1>1, <1>2, <1>3, CacheStepMoves

LEMMA QueryMoves ==
    ASSUME SessionsFit, LockoutTypeOK, time' \in 0..MaxTime, Watch, NEW r \in Requests, ResolveQueries(r)
    PROVE  SessionMoves
<1>0. SessionTypeOK /\ request[r].op = "query" /\ UNCHANGED <<account, family, exchanged, reused, escaped, crashes>>
    BY DEF SessionsFit, ResolveQueries
<1>1. CASE Live(request[r].family)
    <2>1. Becomes(r, "found") /\ UNCHANGED cache
        BY <1>1 DEF ResolveQueries
    <2>2. PICK row \in Row : Goes(r, row) /\ row.op = "found" /\ row.family = request[r].family /\ row.now = request[r].now
        BY <1>0, <2>1, BecomesGoes
    <2>3. /\ request' \in [Requests -> Row]
          /\ \A q \in Requests : request'[q].op \in {"user", "rotate"} => request'[q].token \in 1..MaxTokens
        BY <1>0, <2>1, BecomesGoes
    <2>4. RequestMoves(r)
        <3>1. request'[r].family = request[r].family /\ family' = family /\ account' = account
            BY <1>0, <2>2 DEF Goes
        <3>2. Live(request[r].family)'
            BY <1>1, <3>1 DEF Live
        <3> QED
            BY <1>0, <2>2, <3>2 DEF Goes, RequestMoves
    <2> QED
        BY <1>0, <2>1, <2>2, <2>3, <2>4, OnlyRequestMoves
<1>2. CASE ~Live(request[r].family)
    <2>1. PICK at, g : at = request[r].at /\ g = request[r].family
        OBVIOUS
    <2>2. cache' = [i \in Instances |-> IF i \in at THEN [cache[i] EXCEPT ![g] = 0] ELSE cache[i]] /\ Ends(r)
        BY <1>2, <2>1 DEF ResolveQueries
    <2>3. 0 \in 0..(MaxTime + Ttl) /\ cache \in [Instances -> [Families -> 0..(MaxTime + Ttl)]]
        BY <1>0, Sessions DEF SessionTypeOK
    <2>4. cache' \in [Instances -> [Families -> 0..(MaxTime + Ttl)]]
        BY <2>2, <2>3
    <2>5. \A i \in Instances, f \in Families : CacheMoves(i, f)
        BY <2>2, <2>3 DEF CacheMoves
    <2>6. /\ request' \in [Requests -> Row] /\ Goes(r, Free)
          /\ \A q \in Requests : request'[q].op \in {"user", "rotate"} => request'[q].token \in 1..MaxTokens
        BY <1>0, <2>2, EndsGoes
    <2>7. RequestMoves(r)
        BY <2>6, FreeIsARow DEF Goes, RequestMoves
    <2> QED
        BY <1>0, <2>4, <2>5, <2>6, <2>7, CacheStepMoves
<1> QED
    BY <1>1, <1>2

LEMMA RememberMoves ==
    ASSUME SessionsFit, LockoutTypeOK, time' \in 0..MaxTime, Watch, NEW r \in Requests, NEW full \in BOOLEAN,
           ResolveRemembers(r, full)
    PROVE  SessionMoves
<1>0. /\ SessionTypeOK /\ request[r].op = "found" /\ UNCHANGED <<account, family, exchanged, reused, escaped, crashes>> /\ Ends(r)
      /\ request[r].now \in 0..MaxTime
    BY DEF SessionsFit, ResolveRemembers, SessionTypeOK
<1>1. PICK at, g, expiry : at = request[r].at /\ g = request[r].family /\ expiry = request[r].now + Ttl
    OBVIOUS
<1>2. cache' = [i \in Instances |->
          IF i \notin at THEN cache[i]
          ELSE [f \in Families |-> IF f = g THEN expiry ELSE IF full THEN 0 ELSE cache[i][f]]]
    BY <1>1 DEF ResolveRemembers, Expiry
<1>3. /\ 0 \in 0..(MaxTime + Ttl) /\ expiry \in 0..(MaxTime + Ttl)
      /\ cache \in [Instances -> [Families -> 0..(MaxTime + Ttl)]]
    BY <1>0, <1>1, Sessions DEF SessionTypeOK
<1>4. cache' \in [Instances -> [Families -> 0..(MaxTime + Ttl)]]
    BY <1>2, <1>3
<1>5. ASSUME NEW i \in Instances, NEW f \in Families PROVE CacheMoves(i, f)
    <2>1. cache'[i][f] = cache[i][f] \/ cache'[i][f] = 0 \/ (f = g /\ cache'[i][f] = expiry)
        BY <1>2, <1>5
    <2> QED
        BY <1>0, <1>1, <2>1 DEF CacheMoves
<1>6. /\ request' \in [Requests -> Row] /\ Goes(r, Free)
      /\ \A q \in Requests : request'[q].op \in {"user", "rotate"} => request'[q].token \in 1..MaxTokens
    BY <1>0, EndsGoes
<1>7. RequestMoves(r)
    BY <1>6, FreeIsARow DEF Goes, RequestMoves
<1> QED
    BY <1>0, <1>4, <1>5, <1>6, <1>7, CacheStepMoves

\* Time, and what time does to a session.
LEMMA PassingMoves ==
    ASSUME SessionsFit, LockoutTypeOK, time' \in 0..MaxTime, Watch,
           UNCHANGED <<account, request, cache, exchanged, reused, escaped, crashes>>,
           \/ UNCHANGED family
           \/ \E f \in Families : family' = [family EXCEPT ![f].expired = TRUE]
    PROVE  SessionMoves
<1>0. SessionTypeOK
    BY DEF SessionsFit
<1>1. /\ family' \in [Families -> [status : {"NONE", "ACTIVE", "REVOKED"}, expired : BOOLEAN, token : 0..MaxTokens,
                                   password : 0..MaxPasswords]]
      /\ \A g \in Families : /\ family'[g].status = family[g].status /\ family'[g].token = family[g].token
                             /\ family'[g].password = family[g].password
    <2>1. CASE UNCHANGED family
        BY <1>0, <2>1 DEF SessionTypeOK
    <2>2. CASE \E f \in Families : family' = [family EXCEPT ![f].expired = TRUE]
        <3>1. PICK f \in Families : family' = [family EXCEPT ![f].expired = TRUE]
            BY <2>2
        <3>2. \A g \in Families : family[g] \in [status : {"NONE", "ACTIVE", "REVOKED"}, expired : BOOLEAN,
                                                 token : 0..MaxTokens, password : 0..MaxPasswords]
            BY <1>0 DEF SessionTypeOK
        <3>3. PICK next : next = [family[f] EXCEPT !.expired = TRUE]
            OBVIOUS
        <3>4. /\ next \in [status : {"NONE", "ACTIVE", "REVOKED"}, expired : BOOLEAN, token : 0..MaxTokens, password : 0..MaxPasswords]
              /\ next.status = family[f].status /\ next.token = family[f].token /\ next.password = family[f].password
            BY <3>2, <3>3
        <3>5. family' = [family EXCEPT ![f] = next]
            BY <1>0, <3>1, <3>3 DEF SessionTypeOK
        <3> QED
            BY <1>0, <3>4, <3>5 DEF SessionTypeOK
    <2> QED
        BY <2>1, <2>2
<1>2. SessionTypeOK'
    <2>1. request' \in [Requests -> Row] /\ \A q \in Requests : request'[q].op \in {"user", "rotate"} => request'[q].token \in 1..MaxTokens
        BY <1>0 DEF SessionTypeOK, Row
    <2> QED
        BY <1>0, <1>1, <2>1, TypeMoves DEF SessionTypeOK
<1>3. \A q \in Requests : RequestMoves(q)
    BY DEF RequestMoves
<1>4. \A g \in Families : FamilyMoves(g)
    BY <1>1 DEF FamilyMoves
<1>5. \A g \in reused' : ReuseMoves(g)
    <2> SUFFICES ASSUME NEW g \in reused PROVE ReuseMoves(g)
        OBVIOUS
    <2> QED
        BY DEF ReuseMoves
<1>6. \A g \in Families \ escaped' : g \notin escaped /\ PasswordMoves(g)
    <2> SUFFICES ASSUME NEW g \in Families \ escaped PROVE PasswordMoves(g)
        OBVIOUS
    <2> QED
        BY <1>1 DEF PasswordMoves
<1> QED
    BY <1>2, <1>3, <1>4, <1>5, <1>6, CachesStay DEF SessionMoves

\* The instance dies, or a statement fails, in the middle of an operation.
LEMMA DeathMoves ==
    ASSUME SessionsFit, LockoutTypeOK, time' \in 0..MaxTime, Watch, NEW r \in Requests, OperationDies(r)
    PROVE  SessionMoves
<1>0. /\ SessionTypeOK /\ request[r].op \in {"signout", "forget", "reuse"} /\ UNCHANGED <<account, family, exchanged>> /\ Ends(r)
      /\ reused' = reused \ {request[r].family}
      /\ escaped' = IF request[r].op = "signout" THEN escaped \cup {f \in Families : family[f].status = "ACTIVE"} ELSE escaped
    BY DEF SessionsFit, OperationDies
<1>1. /\ cache' \in [Instances -> [Families -> 0..(MaxTime + Ttl)]]
      /\ \A i \in Instances, f \in Families : CacheMoves(i, f)
    <2>1. PICK at : at = request[r].at
        OBVIOUS
    <2>2. CASE cache' = [i \in Instances |-> IF i \in at THEN [f \in Families |-> 0] ELSE cache[i]]
        BY <1>0, <2>2, Forgotten
    <2>3. CASE cache' = cache
        BY <1>0, <2>3, CachesStay DEF SessionTypeOK
    <2> QED
        BY <2>1, <2>2, <2>3 DEF OperationDies
<1>2. /\ request' \in [Requests -> Row] /\ Goes(r, Free)
      /\ \A q \in Requests : request'[q].op \in {"user", "rotate"} => request'[q].token \in 1..MaxTokens
    BY <1>0, EndsGoes
<1>3. crashes' \in 0..MaxCrashes
    <2>1. crashes \in Nat /\ crashes < MaxCrashes /\ crashes' = crashes + 1
        BY <1>0, Sessions DEF OperationDies, SessionTypeOK
    <2> QED
        BY <2>1, Sessions
<1>4. SessionTypeOK'
    <2>1. reused' \subseteq Families /\ escaped' \subseteq Families
        BY <1>0 DEF SessionTypeOK
    <2> QED
        BY <1>0, <1>1, <1>2, <1>3, <2>1, TypeMoves DEF SessionTypeOK
<1>5. \A q \in Requests : RequestMoves(q)
    BY <1>2, FreeIsARow DEF Goes, RequestMoves
<1>6. \A g \in reused' : ReuseMoves(g)
    <2> SUFFICES ASSUME NEW g \in reused, g # request[r].family PROVE ReuseMoves(g)
        BY <1>0
    <2>1. CASE \A q \in Requests : ~(request[q].op = "reuse" /\ request[q].family = g)
        BY <2>1 DEF ReuseMoves
    <2>2. CASE \E q \in Requests : request[q].op = "reuse" /\ request[q].family = g
        <3>1. PICK q \in Requests : request[q].op = "reuse" /\ request[q].family = g
            BY <2>2
        <3>2. request'[q] = request[q]
            BY <1>2, <3>1 DEF Goes
        <3> QED
            BY <3>1, <3>2 DEF ReuseMoves
    <2> QED
        BY <2>1, <2>2
<1>7. \A g \in Families \ escaped' : g \notin escaped /\ PasswordMoves(g)
    <2>1. CASE request[r].op = "signout"
        BY <1>0, <2>1 DEF PasswordMoves
    <2>2. CASE request[r].op # "signout"
        BY <1>0, <1>2, <2>2, PasswordsGoOn
    <2> QED
        BY <2>1, <2>2
<1> QED
    BY <1>0, <1>1, <1>4, <1>5, <1>6, <1>7, FamiliesStay DEF SessionMoves

-----------------------------------------------------------------------------
(* The specification.                                                      *)

\* The inductive invariant.
AccessIInv == LockoutTypeOK /\ AttemptsFit /\ SessionsFit /\ OldPasswordEnds

LEMMA LockoutKept ==
    ASSUME AccessIInv, AccessStep
    PROVE  LockoutTypeOK' /\ AttemptsFit' /\ time' \in 0..MaxTime /\ time <= time'
<1>0. LockoutTypeOK /\ AttemptsFit /\ time \in 0..MaxTime /\ time \in Nat
    BY Policy DEF AccessIInv, LockoutTypeOK
<1>1. \/ AttemptAllowed \/ AttemptRefused \/ ClearAttempts
      \/ UNCHANGED lockoutVars
      \/ time < MaxTime /\ time' = time + 1 /\ UNCHANGED <<lockout, tries>>
    BY DEF AccessStep, LoginReads, LoginCounted, LoginWrong, LoginRight, RefreshReadsUser, RefreshRotates, ReuseDetected,
           RevokeAllForUser, Invalidate, ResolveQueries, OperationDies, ResolveRemembers, IssueSession, RefreshReads,
           Logout, PasswordChanges, Deactivate, Reactivate, ResolveMisses, FamilyExpires, Tick
<1>2. CASE AttemptAllowed
    BY <1>0, <1>2, AllowedFits DEF AttemptAllowed
<1>3. CASE AttemptRefused
    BY <1>0, <1>3, RefusedFits DEF AttemptRefused
<1>4. CASE ClearAttempts
    BY <1>0, <1>4, ClearedFits DEF ClearAttempts
<1>5. CASE UNCHANGED lockoutVars
    BY <1>0, <1>5, TimeFits DEF lockoutVars
<1>6. CASE time < MaxTime /\ time' = time + 1 /\ UNCHANGED <<lockout, tries>>
    <2>1. time' \in 0..MaxTime /\ time <= time'
        BY <1>0, <1>6, Policy
    <2> QED
        BY <1>0, <1>6, <2>1, TimeFits
<1> QED
    BY <1>1, <1>2, <1>3, <1>4, <1>5, <1>6

LEMMA EveryStepMoves ==
    ASSUME SessionsFit, LockoutTypeOK, time' \in 0..MaxTime, Watch, AccessStep
    PROVE  SessionMoves
<1>1. ASSUME NEW r \in Requests,
             LoginReads(r) \/ LoginCounted(r) \/ LoginWrong(r) \/ LoginRight(r) \/ RefreshReadsUser(r)
      PROVE  SessionMoves
    BY <1>1, QuietMoves
<1>2. ASSUME NEW r \in Requests, RefreshRotates(r) \/ ReuseDetected(r) \/ RevokeAllForUser(r) PROVE SessionMoves
    BY <1>2, RotateMoves, ReuseDetectedMoves, RevokeAllMoves
<1>3. ASSUME NEW r \in Requests, Invalidate(r) \/ ResolveQueries(r) \/ OperationDies(r) PROVE SessionMoves
    BY <1>3, InvalidateMoves, QueryMoves, DeathMoves
<1>4. ASSUME NEW r \in Requests, NEW full \in BOOLEAN, ResolveRemembers(r, full) PROVE SessionMoves
    BY <1>4, RememberMoves
<1>5. ASSUME NEW r \in Requests, NEW f \in Families, IssueSession(r, f) PROVE SessionMoves
    BY <1>5, IssueMoves
<1>6. ASSUME NEW r \in Requests, NEW f \in Families, NEW n \in 1..MaxTokens, RefreshReads(r, f, n) PROVE SessionMoves
    BY <1>6, RefreshReadsMoves
<1>7. ASSUME NEW r \in Requests, NEW i \in Instances,
             Logout(r, i) \/ PasswordChanges(r, i) \/ Deactivate(r, i) \/ Reactivate(r, i)
      PROVE  SessionMoves
    BY <1>7, SignOutMoves
<1>8. ASSUME NEW r \in Requests, NEW i \in Instances, NEW f \in Families, ResolveMisses(r, i, f) PROVE SessionMoves
    BY <1>8, MissMoves
<1>9. ASSUME NEW f \in Families, FamilyExpires(f) PROVE SessionMoves
    BY <1>9, PassingMoves DEF FamilyExpires
<1>10. ASSUME Tick PROVE SessionMoves
    BY <1>10, PassingMoves DEF Tick
<1> QED
    BY <1>1, <1>2, <1>3, <1>4, <1>5, <1>6, <1>7, <1>8, <1>9, <1>10 DEF AccessStep

LEMMA AccessBegins == AccessInit => AccessIInv
<1> SUFFICES ASSUME AccessInit PROVE AccessIInv
    OBVIOUS
<1> USE DEF AccessInit, LockoutInit, SessionInit
<1>1. LockoutTypeOK /\ AttemptsFit
    <2>1. IsFiniteSet({}) /\ Cardinality({}) <= 1
        BY FS_EmptySet
    <2>2. \A t \in Nat : Few(InPeriod(t), 2 * Threshold - 2)
        <3>1. \A t \in Nat : InPeriod(t) = {}
            BY DEF InPeriod
        <3>2. 2 * Threshold - 2 \in Nat
            BY Policy
        <3> QED
            BY <3>1, <3>2, FewNone
    <2> QED
        BY <2>1, <2>2, Policy DEF LockoutTypeOK, AttemptsFit
<1>2. SessionTypeOK
    <2>1. request \in [Requests -> Row] /\ \A r \in Requests : request[r] = Free
        BY FreeIsARow
    <2>2. 0 \in 0..MaxTokens /\ 0 \in 0..MaxPasswords /\ 1 \in 1..MaxPasswords /\ 0 \in 0..MaxTime
          /\ 0 \in 0..(MaxTime + Ttl) /\ 0 \in 0..MaxCrashes
        BY Sessions
    <2>3. account \in Account
        BY <2>2 DEF Account
    <2>4. \A r \in Requests : request[r].op \in {"user", "rotate"} => request[r].token \in 1..MaxTokens
        BY <2>1, FreeIsARow
    <2> QED
        BY <2>1, <2>2, <2>3, <2>4 DEF SessionTypeOK, Row
<1>3. \A r \in Requests : request[r].op = "idle"
    BY FreeIsARow
<1>4. \A r \in Requests : RequestFits(r)
    BY <1>3 DEF RequestFits
<1>5. \A f \in Families : FamilyFits(f)
    BY DEF FamilyFits
<1>6. CacheIsRecent
    BY Sessions DEF CacheIsRecent
<1>7. ReusedIsRevoked /\ OldPasswordEnds
    BY DEF ReusedIsRevoked, OldPasswordEnds
<1> QED
    BY <1>1, <1>2, <1>4, <1>5, <1>6, <1>7 DEF AccessIInv, SessionsFit

LEMMA AccessKept == AccessIInv /\ [AccessNext]_accessVars => AccessIInv'
<1> SUFFICES ASSUME AccessIInv, [AccessNext]_accessVars PROVE AccessIInv'
    OBVIOUS
<1>1. CASE AccessNext
    <2>1. AccessStep /\ Watch
        BY <1>1 DEF AccessNext
    <2>2. LockoutTypeOK' /\ AttemptsFit' /\ time' \in 0..MaxTime /\ time <= time'
        BY <2>1, LockoutKept
    <2>3. SessionMoves
        BY <2>1, <2>2, EveryStepMoves DEF AccessIInv
    <2>4. SessionsFit'
        BY <2>1, <2>2, <2>3, MovesKeep DEF AccessIInv
    <2>5. OldPasswordEnds'
        BY <2>3, MovesEndOldPasswords DEF AccessIInv
    <2> QED
        BY <2>2, <2>4, <2>5 DEF AccessIInv
<1>2. CASE UNCHANGED accessVars
    <2>1. LockoutTypeOK' /\ AttemptsFit'
        BY <1>2 DEF accessVars, lockoutVars, AccessIInv, LockoutTypeOK, AttemptsFit, LockedFits, OpenFits, Since, After, Before, InPeriod
    <2>2. SessionTypeOK'
        BY <1>2 DEF accessVars, sessionVars, AccessIInv, SessionsFit, SessionTypeOK
    <2>3. (\A r \in Requests : RequestFits(r)') /\ \A f \in Families : FamilyFits(f)'
        BY <1>2 DEF accessVars, sessionVars, lockoutVars, AccessIInv, SessionsFit, RequestFits, FamilyFits
    <2>4. CacheIsRecent' /\ ReusedIsRevoked' /\ OldPasswordEnds'
        BY <1>2 DEF accessVars, sessionVars, AccessIInv, SessionsFit, CacheIsRecent, ReusedIsRevoked, OldPasswordEnds
    <2> QED
        BY <2>1, <2>2, <2>3, <2>4 DEF AccessIInv, SessionsFit
<1> QED
    BY <1>1, <1>2

LEMMA AccessIsKept == AccessSpec => []AccessIInv
BY AccessBegins, AccessKept, PTL DEF AccessSpec

\* Whatever refreshes, reuse of old tokens, lookups and deaths of instances
\* race: rotate gives one token for each token, a family of which refresh saw
\* an old token is revoked or handleReuseDetected is about to revoke it, and no
\* entry that SessionStateService remembers outlives the session by more than
\* the TTL, since remember counts from before the query.
THEOREM AccessIsSound == AccessSpec => []AccessInv
<1>1. AccessIInv => AccessInv
    BY DEF AccessIInv, SessionsFit, FamilyFits, AccessInv, TokenRotatesOnce
<1> QED
    BY <1>1, AccessIsKept, PTL

\* Between two successes, no period as long as the window sees more attempts
\* than the last of one window, without the one that began it, and those of the
\* next, for any policy whose locks last a window or more: registerAttempt
\* counts before the password is looked at, and countAttempt locks with the
\* attempt that reaches the threshold.
THEOREM AttemptsStayBounded == AccessSpec => []AttemptsAreBounded
<1>1. AccessIInv => AttemptsAreBounded
    BY AttemptsBounded DEF AccessIInv
<1> QED
    BY <1>1, AccessIsKept, PTL

\* changePassword and resetPassword end every session of an older password, or
\* are about to: the only ones that stay are those whose login verified the old
\* hash and ended after the change, and those of an operation that died or
\* failed before revokeAllForUser.
THEOREM OldPasswordsEnd == AccessSpec => []OldPasswordEnds
<1>1. AccessIInv => OldPasswordEnds
    BY DEF AccessIInv
<1> QED
    BY <1>1, AccessIsKept, PTL

=============================================================================
