------------------------ MODULE LoginLimiter_proofs ------------------------
(***************************************************************************)
(* Proofs that a window of the login limiter counts at most MAX_FAILURES   *)
(* failures and one for every other login that may be under way, and that  *)
(* no stretch of WINDOW_SECS sees as many failures as two full windows.    *)
(*                                                                         *)
(* FailuresBounded alone is not inductive: a failure is recorded for a     *)
(* login that was let through long ago, so the count must be bounded       *)
(* together with the logins that may still add to it.                      *)
(***************************************************************************)
EXTENDS LoginLimiter, FiniteSetTheorems, TLAPS

\* The logins under way for key k when the attempts are a.
UnderWay(a, k) == {q \in Requests : a[q] = k}

Typed ==
    /\ windows \in [Keys -> FailureWindow \cup {None}]
    /\ attempt \in [Requests -> Keys \cup {None}]

\* What a window w of key k has counted, and may yet count, under attempts a.
Within(w, a, k) ==
    w # None =>
        w.failures + Cardinality(UnderWay(a, k))
            < MaxFailures + Cardinality(Requests)

Bounded == \A k \in Keys : Within(windows[k], attempt, k)

Limited == Typed /\ Bounded

-----------------------------------------------------------------------------
\* The logins under way for a key are a finite set, no larger than the slots.
LEMMA UnderWayFinite ==
    ASSUME NEW a, NEW k
    PROVE  /\ IsFiniteSet(UnderWay(a, k))
           /\ Cardinality(UnderWay(a, k)) \in Nat
           /\ Cardinality(UnderWay(a, k)) <= Cardinality(Requests)
           /\ Cardinality(Requests) \in Nat
  <1>1. UnderWay(a, k) \subseteq Requests
    BY DEF UnderWay
  <1>. QED
    BY <1>1, LimiterAssumption, FS_Subset, FS_CardinalityType

\* A login that ends leaves the logins of its own key by one, and those of
\* the other keys as they are.
LEMMA UnderWayEnds ==
    ASSUME NEW a \in [Requests -> Keys \cup {None}], NEW q \in Requests,
           a[q] # None, NEW k \in Keys
    PROVE  LET b == [a EXCEPT ![q] = None] IN
           /\ a[q] = k => Cardinality(UnderWay(b, k)) = Cardinality(UnderWay(a, k)) - 1
           /\ a[q] # k => UnderWay(b, k) = UnderWay(a, k)
  <1>. DEFINE b == [a EXCEPT ![q] = None]
  <1>1. ASSUME a[q] = k
        PROVE  Cardinality(UnderWay(b, k)) = Cardinality(UnderWay(a, k)) - 1
    <2>1. UnderWay(b, k) = UnderWay(a, k) \ {q}
      BY <1>1, LimiterAssumption DEF UnderWay
    <2>2. q \in UnderWay(a, k)
      BY <1>1 DEF UnderWay
    <2>. QED
      BY <2>1, <2>2, UnderWayFinite, FS_RemoveElement
  <1>2. ASSUME a[q] # k
        PROVE  UnderWay(b, k) = UnderWay(a, k)
    BY <1>2, LimiterAssumption DEF UnderWay
  <1>. QED
    BY <1>1, <1>2

\* A login that begins for one key leaves the logins of the others alone.
LEMMA UnderWayBegins ==
    ASSUME NEW a \in [Requests -> Keys \cup {None}], NEW q \in Requests,
           a[q] = None, NEW j \in Keys, NEW k \in Keys, j # k
    PROVE  UnderWay([a EXCEPT ![q] = j], k) = UnderWay(a, k)
  BY LimiterAssumption DEF UnderWay

\* A field of a stored window.
LEMMA WindowFields ==
    ASSUME Typed, NEW k \in Keys, windows[k] # None
    PROVE  /\ windows[k] \in FailureWindow
           /\ windows[k].failures \in Nat
           /\ windows[k].age \in 0..Window
  BY DEF Typed, FailureWindow

-----------------------------------------------------------------------------
LEMMA LimitedInit == Init => Limited
  BY DEF Init, Limited, Typed, Bounded, Within

LEMMA LimitedBegin ==
    ASSUME Limited, NEW q \in Requests, NEW j \in Keys, Begin(q, j)
    PROVE  Limited'
  <1>1. Typed'
    BY DEF Limited, Typed, Begin
  <1>2. ASSUME NEW k \in Keys
        PROVE  Within(windows'[k], attempt', k)
    <2>1. CASE k = j
      <3>1. SUFFICES ASSUME windows'[k] # None
                     PROVE  windows'[k].failures + Cardinality(UnderWay(attempt', k))
                              < MaxFailures + Cardinality(Requests)
        BY DEF Within
      <3>2. windows'[k] = windows[k] /\ windows[k] # None /\ ~Expired(k)
        BY <2>1, <3>1 DEF Limited, Typed, Begin
      <3>3. windows[k].failures < MaxFailures
        BY <2>1, <3>2, WindowFields, LimiterAssumption DEF Limited, Begin, Locked
      <3>. QED
        BY <3>2, <3>3, UnderWayFinite, WindowFields, LimiterAssumption DEF Limited
    <2>2. CASE k # j
      <3>1. windows'[k] = windows[k]
        BY <2>2 DEF Limited, Typed, Begin
      <3>2. UnderWay(attempt', k) = UnderWay(attempt, k)
        BY <2>2, UnderWayBegins DEF Limited, Typed, Begin
      <3>. QED
        BY <3>1, <3>2 DEF Limited, Bounded, Within
    <2>. QED
      BY <2>1, <2>2
  <1>. QED
    BY <1>1, <1>2 DEF Limited, Bounded

LEMMA LimitedFail ==
    ASSUME Limited, NEW q \in Requests, Fail(q)
    PROVE  Limited'
  <1>. DEFINE j == attempt[q]
  <1>1. j \in Keys /\ j # None
    BY DEF Limited, Typed, Fail
  <1>2. windows'[j] = IF windows[j] = None \/ Expired(j)
                      THEN [age |-> 0, failures |-> 1]
                      ELSE [age |-> windows[j].age, failures |-> windows[j].failures + 1]
    BY <1>1 DEF Limited, Typed, Fail, RecordFailure
  <1>3. ASSUME NEW k \in Keys, k # j
        PROVE  windows'[k] = windows[k]
    BY <1>1, <1>3 DEF Limited, Typed, Fail, RecordFailure
  <1>4. windows'[j] \in FailureWindow
    <2>1. CASE windows[j] = None \/ Expired(j)
      BY <1>2, <2>1, LimiterAssumption DEF FailureWindow
    <2>2. CASE ~(windows[j] = None \/ Expired(j))
      BY <1>1, <1>2, <2>2, WindowFields DEF Limited, FailureWindow
    <2>. QED
      BY <2>1, <2>2
  <1>5. windows' = [windows EXCEPT ![j] = windows'[j]]
    BY <1>1 DEF Limited, Typed, Fail, RecordFailure
  <1>6. attempt' = [attempt EXCEPT ![q] = None]
    BY DEF Fail
  <1>7. Typed'
    BY <1>1, <1>4, <1>5, <1>6 DEF Limited, Typed
  <1>8. ASSUME NEW k \in Keys
        PROVE  Within(windows'[k], attempt', k)
    <2>1. CASE k = j
      <3>1. Cardinality(UnderWay(attempt', j)) = Cardinality(UnderWay(attempt, j)) - 1
        BY <1>1, <1>6, UnderWayEnds DEF Limited, Typed
      <3>2. CASE windows[j] = None \/ Expired(j)
        <4>1. windows'[j].failures = 1
          BY <1>2, <3>2
        <4>. QED
          BY <2>1, <3>1, <4>1, UnderWayFinite, LimiterAssumption DEF Within
      <3>3. CASE ~(windows[j] = None \/ Expired(j))
        <4>1. windows'[j].failures = windows[j].failures + 1
          BY <1>1, <1>2, <3>3, WindowFields DEF Limited, FailureWindow
        <4>2. windows[j].failures + Cardinality(UnderWay(attempt, j))
                < MaxFailures + Cardinality(Requests)
          BY <1>1, <3>3 DEF Limited, Bounded, Within
        <4>. QED
          BY <1>1, <2>1, <3>1, <3>3, <4>1, <4>2, UnderWayFinite, WindowFields,
             LimiterAssumption DEF Within, Limited
      <3>. QED
        BY <3>2, <3>3
    <2>2. CASE k # j
      <3>1. UnderWay(attempt', k) = UnderWay(attempt, k)
        BY <1>1, <1>6, <2>2, UnderWayEnds DEF Limited, Typed
      <3>. QED
        BY <1>3, <2>2, <3>1 DEF Limited, Bounded, Within
    <2>. QED
      BY <2>1, <2>2
  <1>. QED
    BY <1>7, <1>8 DEF Limited, Bounded

\* A login that ends without a failure only lowers what may yet be counted.
LEMMA LimitedEnds ==
    ASSUME Limited, NEW q \in Requests, attempt[q] # None,
           attempt' = [attempt EXCEPT ![q] = None],
           NEW k \in Keys, windows'[k] \in {windows[k], None}
    PROVE  Within(windows'[k], attempt', k)
  <1>1. Cardinality(UnderWay(attempt', k)) <= Cardinality(UnderWay(attempt, k))
    <2>1. Cardinality(UnderWay(attempt, k)) \in Nat
      BY UnderWayFinite
    <2>2. CASE attempt[q] = k
      <3>1. Cardinality(UnderWay(attempt', k)) = Cardinality(UnderWay(attempt, k)) - 1
        BY <2>2, UnderWayEnds DEF Limited, Typed
      <3>. QED
        BY <2>1, <3>1
    <2>3. CASE attempt[q] # k
      <3>1. UnderWay(attempt', k) = UnderWay(attempt, k)
        BY <2>3, UnderWayEnds DEF Limited, Typed
      <3>. QED
        BY <2>1, <3>1
    <2>. QED
      BY <2>2, <2>3
  <1>2. CASE windows'[k] = None
    BY <1>2 DEF Within
  <1>3. CASE windows'[k] = windows[k] /\ windows[k] # None
    <2>1. windows[k].failures + Cardinality(UnderWay(attempt, k))
            < MaxFailures + Cardinality(Requests)
      BY <1>3 DEF Limited, Bounded, Within
    <2>. QED
      BY <1>1, <1>3, <2>1, UnderWayFinite, WindowFields, LimiterAssumption
         DEF Within, Limited
  <1>. QED
    BY <1>2, <1>3

LEMMA LimitedSucceed ==
    ASSUME Limited, NEW q \in Requests, Succeed(q)
    PROVE  Limited'
  <1>1. Typed'
    BY DEF Limited, Typed, Succeed
  <1>2. ASSUME NEW k \in Keys
        PROVE  windows'[k] \in {windows[k], None}
    BY DEF Limited, Typed, Succeed
  <1>. QED
    BY <1>1, <1>2, LimitedEnds DEF Limited, Bounded, Succeed

LEMMA LimitedAbort ==
    ASSUME Limited, NEW q \in Requests, Abort(q)
    PROVE  Limited'
  <1>1. Typed'
    BY DEF Limited, Typed, Abort
  <1>2. ASSUME NEW k \in Keys
        PROVE  windows'[k] \in {windows[k], None}
    BY DEF Abort
  <1>. QED
    BY <1>1, <1>2, LimitedEnds DEF Limited, Bounded, Abort

LEMMA LimitedPrune ==
    ASSUME Limited, Prune
    PROVE  Limited'
  <1>1. Typed'
    BY DEF Limited, Typed, Prune
  <1>2. ASSUME NEW k \in Keys
        PROVE  Within(windows'[k], attempt', k)
    <2>1. windows'[k] \in {windows[k], None}
      BY DEF Prune
    <2>. QED
      BY <2>1 DEF Limited, Bounded, Within, Prune
  <1>. QED
    BY <1>1, <1>2 DEF Limited, Bounded

LEMMA LimitedRestart ==
    ASSUME Limited, Restart
    PROVE  Limited'
  BY DEF Limited, Typed, Bounded, Within, Restart

LEMMA LimitedTick ==
    ASSUME Limited, Tick
    PROVE  Limited'
  <1>1. ASSUME NEW k \in Keys
        PROVE  /\ windows'[k] \in FailureWindow \cup {None}
               /\ windows[k] = None => windows'[k] = None
               /\ windows[k] # None =>
                    /\ windows'[k] # None
                    /\ windows'[k].failures = windows[k].failures
    <2>1. CASE windows[k] = None \/ Expired(k)
      BY <2>1 DEF Tick, Limited, Typed
    <2>2. CASE ~(windows[k] = None \/ Expired(k))
      <3>1. /\ windows[k] \in FailureWindow
            /\ windows[k].age \in 0..Window
            /\ windows[k].age < Window
        BY <2>2, WindowFields, LimiterAssumption DEF Limited, Expired
      <3>2. windows'[k] = [windows[k] EXCEPT !.age = @ + 1]
        BY <2>2 DEF Tick
      <3>3. /\ windows'[k] \in FailureWindow
            /\ windows'[k].failures = windows[k].failures
        BY <3>1, <3>2, LimiterAssumption DEF FailureWindow
      <3>4. windows'[k] # None
        BY <3>3, LimiterAssumption DEF FailureWindow
      <3>. QED
        BY <2>2, <3>3, <3>4
    <2>. QED
      BY <2>1, <2>2
  <1>2. attempt' = attempt
    BY DEF Tick
  <1>3. Typed'
    BY <1>1, <1>2 DEF Limited, Typed, Tick
  <1>4. ASSUME NEW k \in Keys
        PROVE  Within(windows'[k], attempt', k)
    BY <1>1, <1>2 DEF Limited, Bounded, Within
  <1>. QED
    BY <1>3, <1>4 DEF Limited, Bounded

-----------------------------------------------------------------------------
LEMMA LimitedAlways == Spec => []Limited
  <1>1. Limited /\ [Next]_vars => Limited'
    <2>. SUFFICES ASSUME Limited, [Next]_vars PROVE Limited'
      OBVIOUS
    <2>1. CASE \E q \in Requests, k \in Keys : Begin(q, k)
      BY <2>1, LimitedBegin
    <2>2. CASE \E q \in Requests : Fail(q)
      BY <2>2, LimitedFail
    <2>3. CASE \E q \in Requests : Succeed(q)
      BY <2>3, LimitedSucceed
    <2>4. CASE \E q \in Requests : Abort(q)
      BY <2>4, LimitedAbort
    <2>5. CASE Prune
      BY <2>5, LimitedPrune
    <2>6. CASE Restart
      BY <2>6, LimitedRestart
    <2>7. CASE Tick
      BY <2>7, LimitedTick
    <2>8. CASE UNCHANGED vars
      BY <2>8 DEF vars, Limited, Typed, Bounded, Within
    <2>. QED
      BY <2>1, <2>2, <2>3, <2>4, <2>5, <2>6, <2>7, <2>8 DEF Next
  <1>. QED
    BY LimitedInit, <1>1, PTL DEF Spec

(***************************************************************************)
(* Whatever the number of logins that run at once, the keys and the limit, *)
(* a window never counts more than the limit and the logins that is_locked *)
(* let through before it was reached.                                      *)
(***************************************************************************)
THEOREM FailuresStayBounded == Spec => []FailuresBounded
  <1>1. Limited => FailuresBounded
    <2>. SUFFICES ASSUME Limited, NEW k \in Keys, windows[k] # None
                  PROVE  windows[k].failures < MaxFailures + Cardinality(Requests)
      BY DEF FailuresBounded
    <2>1. windows[k].failures + Cardinality(UnderWay(attempt, k))
            < MaxFailures + Cardinality(Requests)
      BY DEF Limited, Bounded, Within
    <2>. QED
      BY <2>1, UnderWayFinite, WindowFields, LimiterAssumption DEF Limited
  <1>. QED
    BY <1>1, LimitedAlways, PTL

-----------------------------------------------------------------------------
(***************************************************************************)
(* The failures of the last Window ticks.  They are those of the open      *)
(* window and, before them, of the one that expired when it was opened:    *)
(* the failure that opened a window is as old as the window, and by the    *)
(* time the window expires it and all before it have left.                 *)
(***************************************************************************)
Ages  == 0..(Window - 1)
Limit == MaxFailures + Cardinality(Requests)

\* Older failures come first.
OldestFirst(s) == \A i, j \in 1..Len(s) : i <= j => s[j] <= s[i]

\* The failures s of a key whose window is w: p failures came before the one
\* that opened w.
Recorded(w, s) ==
    /\ s \in Seq(Ages)
    /\ OldestFirst(s)
    /\ w = None \/ w.age >= Window => Len(s) + 1 < Limit
    /\ w # None /\ ~(w.age >= Window) =>
         \E p \in Nat :
            /\ p + 1 < Limit /\ p + 1 <= Len(s)
            /\ s[p + 1] = w.age
            /\ Len(s) <= p + w.failures

AllRecorded ==
    /\ recent \in [Keys -> Seq(Ages)]
    /\ \A k \in Keys : Recorded(windows[k], recent[k])

LEMMA LimitIsNat == Limit \in Nat /\ Limit >= 2
  <1>1. Cardinality(Requests) \in Nat /\ Cardinality(Requests) # 0
    BY LimiterAssumption, FS_CardinalityType, FS_EmptySet
  <1>. QED
    BY <1>1, LimiterAssumption DEF Limit

LEMMA LimitValue == MaxFailures + Cardinality(Requests) - 1 = Limit - 1
  <1>1. Cardinality(Requests) \in Nat /\ MaxFailures \in Nat
    BY LimiterAssumption, FS_CardinalityType
  <1>. QED
    BY <1>1 DEF Limit

\* A stretch of indices from the first is as large as its last.
LEMMA UpTo ==
    ASSUME NEW n \in Nat
    PROVE  IsFiniteSet(1..n) /\ Cardinality(1..n) = n
  <1>1. 1 \in Int /\ n \in Int /\ (1 > n => n = 0) /\ n - 1 + 1 = n
    OBVIOUS
  <1>2. IsFiniteSet(1..n) /\ Cardinality(1..n) = IF 1 > n THEN 0 ELSE n - 1 + 1
    BY <1>1, FS_Interval, Zenon
  <1>. QED
    BY <1>1, <1>2

\* No finite set has more elements than one it is part of.
LEMMA PartIsSmaller ==
    ASSUME NEW T, IsFiniteSet(T), NEW S \in SUBSET T
    PROVE  /\ IsFiniteSet(S) /\ Cardinality(S) \in Nat /\ Cardinality(T) \in Nat
           /\ Cardinality(S) <= Cardinality(T)
  BY FS_Subset, FS_CardinalityType

\* Those that a tick takes out are the first d.
Leaving(s) == {i \in DOMAIN s : s[i] + 1 >= Window}

LEMMA OldestLeave ==
    ASSUME NEW s \in Seq(Ages), OldestFirst(s)
    PROVE  LET d == Cardinality(Leaving(s)) IN
           /\ d \in Nat /\ d <= Len(s)
           /\ \A i \in 1..Len(s) : s[i] + 1 >= Window <=> i <= d
  <1>. DEFINE D == Leaving(s)
              d == Cardinality(D)
  <1>1. /\ Len(s) \in Nat /\ DOMAIN s = 1..Len(s)
        /\ \A i \in 1..Len(s) : s[i] \in Ages
    OBVIOUS
  <1>2. D \subseteq 1..Len(s)
    BY <1>1 DEF Leaving
  <1>3. IsFiniteSet(D) /\ d \in Nat /\ d <= Len(s)
    <2>1. IsFiniteSet(1..Len(s)) /\ Cardinality(1..Len(s)) = Len(s)
      BY <1>1, UpTo
    <2>. QED
      BY <1>2, <2>1, PartIsSmaller
  <1>4. ASSUME NEW i \in D
        PROVE  i <= d
    <2>1. i \in 1..Len(s) /\ s[i] + 1 >= Window
      BY <1>1 DEF Leaving
    <2>2. ASSUME NEW j \in 1..i
          PROVE  j \in D
      <3>1. j \in 1..Len(s) /\ s[i] <= s[j]
        BY <2>1 DEF OldestFirst
      <3>2. s[i] \in Nat /\ s[j] \in Nat
        BY <1>1, <2>1, <3>1, LimiterAssumption DEF Ages
      <3>. QED
        BY <1>1, <2>1, <3>1, <3>2, LimiterAssumption DEF Leaving
    <2>3. i \in Nat /\ Cardinality(1..i) = i
      BY <2>1, UpTo
    <2>4. 1..i \in SUBSET D
      BY <2>2
    <2>5. Cardinality(1..i) <= Cardinality(D)
      BY <1>3, <2>4, PartIsSmaller
    <2>. QED
      BY <2>3, <2>5
  <1>5. ASSUME NEW i \in 1..Len(s), i \notin D
        PROVE  d < i
    <2>1. ASSUME NEW j \in D
          PROVE  j \in 1..(i - 1)
      <3>1. j \in 1..Len(s) /\ s[j] + 1 >= Window /\ ~(s[i] + 1 >= Window)
        BY <1>1, <1>5 DEF Leaving
      <3>2. s[i] \in Nat /\ s[j] \in Nat
        BY <1>1, <3>1, LimiterAssumption DEF Ages
      <3>3. ~(i <= j)
        BY <3>1, <3>2, LimiterAssumption DEF OldestFirst
      <3>. QED
        BY <3>1, <3>3
    <2>2. i - 1 \in Nat
      BY <1>1
    <2>3. IsFiniteSet(1..(i - 1)) /\ Cardinality(1..(i - 1)) = i - 1
      BY <2>2, UpTo
    <2>4. D \in SUBSET (1..(i - 1))
      BY <2>1
    <2>5. Cardinality(D) <= i - 1
      BY <2>3, <2>4, PartIsSmaller
    <2>. QED
      BY <1>3, <2>5
  <1>6. \A i \in 1..Len(s) : i \in D <=> s[i] + 1 >= Window
    BY <1>1 DEF Leaving
  <1>7. \A i \in 1..Len(s) : i \in D <=> i <= d
    BY <1>3, <1>4, <1>5
  <1>. QED
    BY <1>3, <1>6, <1>7

\* What a tick makes of the failures: the first d are gone, the others older.
LEMMA TickAges ==
    ASSUME NEW s \in Seq(Ages), OldestFirst(s), NEW d \in Nat, d <= Len(s),
           \A i \in 1..Len(s) : s[i] + 1 >= Window <=> i <= d
    PROVE  LET t == [i \in 1..(Len(s) - d) |-> s[i + d] + 1] IN
           /\ t \in Seq(Ages)
           /\ Len(t) = Len(s) - d
           /\ \A i \in 1..(Len(s) - d) : t[i] = s[i + d] + 1
           /\ OldestFirst(t)
  <1>. DEFINE n == Len(s) - d
              t == [i \in 1..n |-> s[i + d] + 1]
  <1>1. n \in Nat
    OBVIOUS
  <1>2. ASSUME NEW i \in 1..n
        PROVE  i + d \in 1..Len(s) /\ s[i + d] \in Nat /\ s[i + d] + 1 \in Ages
    <2>1. i + d \in 1..Len(s) /\ ~(i + d <= d)
      OBVIOUS
    <2>2. s[i + d] \in Ages /\ ~(s[i + d] + 1 >= Window)
      BY <2>1
    <2>. QED
      BY <2>1, <2>2, LimiterAssumption DEF Ages
  <1>3. t \in [1..n -> Ages]
    BY <1>2
  <1>4. \A i \in 1..n : t[i] = s[i + d] + 1
    OBVIOUS
  <1>. HIDE DEF t
  <1>5. t \in Seq(Ages) /\ Len(t) = n
    BY <1>1, <1>3
  <1>6. OldestFirst(t)
    <2>1. ASSUME NEW i \in 1..n, NEW j \in 1..n, i <= j
          PROVE  t[j] <= t[i]
      <3>1. s[j + d] <= s[i + d]
        BY <1>2, <2>1 DEF OldestFirst
      <3>2. t[i] = s[i + d] + 1 /\ t[j] = s[j + d] + 1
        BY <1>4
      <3>3. s[i + d] \in Nat /\ s[j + d] \in Nat
        BY <1>2
      <3>. QED
        BY <3>1, <3>2, <3>3
    <2>. QED
      BY <1>5, <2>1 DEF OldestFirst
  <1>. QED
    BY <1>4, <1>5, <1>6 DEF t

\* A failure is recorded behind the older ones.
LEMMA AppendAges ==
    ASSUME NEW s \in Seq(Ages), OldestFirst(s)
    PROVE  /\ Append(s, 0) \in Seq(Ages)
           /\ Len(Append(s, 0)) = Len(s) + 1
           /\ Append(s, 0)[Len(s) + 1] = 0
           /\ \A i \in 1..Len(s) : Append(s, 0)[i] = s[i]
           /\ OldestFirst(Append(s, 0))
  <1>. DEFINE t == Append(s, 0)
  <1>1. 0 \in Ages
    BY LimiterAssumption DEF Ages
  <1>2. /\ t \in Seq(Ages) /\ Len(t) = Len(s) + 1 /\ t[Len(s) + 1] = 0
        /\ \A i \in 1..Len(s) : t[i] = s[i]
    BY <1>1
  <1>3. \A i \in 1..Len(t) : t[i] \in Nat
    BY <1>2, LimiterAssumption DEF Ages
  <1>4. ASSUME NEW i \in 1..Len(t), NEW j \in 1..Len(t), i <= j
        PROVE  t[j] <= t[i]
    <2>1. CASE j = Len(s) + 1
      BY <1>2, <1>3, <2>1
    <2>2. CASE j # Len(s) + 1
      <3>1. i \in 1..Len(s) /\ j \in 1..Len(s)
        BY <1>2, <1>4, <2>2
      <3>. QED
        BY <1>2, <1>4, <3>1 DEF OldestFirst
    <2>. QED
      BY <2>1, <2>2
  <1>. QED
    BY <1>2, <1>4 DEF OldestFirst

\* An open window v and the p failures before it.
LEMMA OpenRecorded ==
    ASSUME NEW v, v # None, NEW t \in Seq(Ages), OldestFirst(t), ~(v.age >= Window),
           NEW p \in Nat, p + 1 < Limit, p + 1 <= Len(t), t[p + 1] = v.age,
           Len(t) <= p + v.failures
    PROVE  Recorded(v, t)
  BY DEF Recorded

LEMMA RecordedInit == Init => AllRecorded
  <1>1. <<>> \in Seq(Ages) /\ Len(<<>>) = 0 /\ OldestFirst(<<>>)
    BY DEF OldestFirst
  <1>. QED
    BY <1>1, LimitIsNat, LimiterAssumption DEF Init, AllRecorded, Recorded

\* A window that is dropped when it has expired changes nothing.
LEMMA RecordedDrop ==
    ASSUME NEW w, NEW v, NEW s, Recorded(w, s),
           v = w \/ (v = None /\ (w = None \/ w.age >= Window))
    PROVE  Recorded(v, s)
  BY DEF Recorded

LEMMA RecordedFail ==
    ASSUME Limited, AllRecorded, NEW q \in Requests, Fail(q)
    PROVE  AllRecorded'
  <1>. DEFINE j == attempt[q]
              w == windows[j]
              s == recent[j]
  <1>1. /\ j \in Keys /\ windows \in [Keys -> FailureWindow \cup {None}]
        /\ s \in Seq(Ages) /\ Len(s) \in Nat
    BY DEF Limited, Typed, Fail, AllRecorded
  <1>2. ASSUME NEW k \in Keys, k # j
        PROVE  windows'[k] = windows[k] /\ recent'[k] = recent[k]
    BY <1>1, <1>2 DEF Fail, RecordFailure, AllRecorded
  <1>3. windows'[j] = IF w = None \/ Expired(j)
                      THEN [age |-> 0, failures |-> 1]
                      ELSE [age |-> w.age, failures |-> w.failures + 1]
    BY <1>1 DEF Fail, RecordFailure
  <1>4. recent'[j] = Append(s, 0)
    BY <1>1 DEF Fail, AllRecorded
  <1>5. recent' \in [Keys -> Seq(Ages)]
    BY <1>1, AppendAges DEF Fail, AllRecorded, Recorded
  <1>. DEFINE t == Append(s, 0)
  <1>6. /\ t \in Seq(Ages) /\ Len(t) = Len(s) + 1 /\ t[Len(s) + 1] = 0
        /\ \A i \in 1..Len(s) : t[i] = s[i]
        /\ OldestFirst(t)
    BY <1>1, AppendAges DEF AllRecorded, Recorded
  <1>7. Recorded(windows'[j], recent'[j])
    <2>. HIDE DEF t
    <2>1. CASE w = None \/ Expired(j)
      <3>1. Len(s) + 1 < Limit
        BY <1>1, <2>1 DEF AllRecorded, Recorded, Expired
      <3>2. /\ windows'[j].age = 0 /\ windows'[j].failures = 1 /\ ~(0 >= Window)
        BY <1>3, <2>1, LimiterAssumption
      <3>3. /\ Len(s) + 1 <= Len(t) /\ t[Len(s) + 1] = 0
            /\ Len(t) <= Len(s) + 1
        BY <1>1, <1>6
      <3>4. windows'[j] # None
        BY <1>3, <2>1, LimiterAssumption
      <3>5. Recorded(windows'[j], t)
        BY <1>1, <1>6, <3>1, <3>2, <3>3, <3>4, OpenRecorded
      <3>. QED
        BY <1>4, <3>5 DEF t
    <2>2. CASE ~(w = None \/ Expired(j))
      <3>1. w \in FailureWindow /\ w.failures \in Nat /\ ~(w.age >= Window)
        BY <1>1, <2>2, WindowFields DEF Limited, Expired
      <3>2. PICK p \in Nat : /\ p + 1 < Limit /\ p + 1 <= Len(s)
                             /\ s[p + 1] = w.age
                             /\ Len(s) <= p + w.failures
        BY <1>1, <2>2, <3>1 DEF AllRecorded, Recorded
      <3>3. /\ windows'[j].age = w.age /\ windows'[j].failures = w.failures + 1
        BY <1>3, <2>2
      <3>4. /\ p + 1 <= Len(t) /\ t[p + 1] = w.age
            /\ Len(t) <= p + (w.failures + 1)
        BY <1>1, <1>6, <3>1, <3>2
      <3>5. windows'[j] # None
        BY <1>3, <2>2, <3>1, LimiterAssumption DEF FailureWindow
      <3>6. Recorded(windows'[j], t)
        BY <1>6, <3>1, <3>2, <3>3, <3>4, <3>5, OpenRecorded
      <3>. QED
        BY <1>4, <3>6 DEF t
    <2>. QED
      BY <2>1, <2>2
  <1>. QED
    BY <1>2, <1>5, <1>7 DEF AllRecorded

LEMMA RecordedTick ==
    ASSUME Limited, AllRecorded, Tick, NEW k \in Keys
    PROVE  recent'[k] \in Seq(Ages) /\ Recorded(windows'[k], recent'[k])
  <1>. DEFINE s == recent[k]
              d == Cardinality(Leaving(s))
              t == [i \in 1..(Len(s) - d) |-> s[i + d] + 1]
              w == windows[k]
              v == windows'[k]
  <1>1. s \in Seq(Ages) /\ OldestFirst(s) /\ Len(s) \in Nat
    BY DEF AllRecorded, Recorded
  <1>2. recent'[k] = t
    BY DEF Tick, Leaving
  <1>3. /\ d \in Nat /\ d <= Len(s)
        /\ \A i \in 1..Len(s) : s[i] + 1 >= Window <=> i <= d
    BY <1>1, OldestLeave
  <1>. HIDE DEF d
  <1>4. /\ t \in Seq(Ages) /\ Len(t) = Len(s) - d
        /\ \A i \in 1..(Len(s) - d) : t[i] = s[i + d] + 1
        /\ OldestFirst(t)
    BY <1>1, <1>3, TickAges
  <1>. HIDE DEF t
  <1>5. CASE w = None \/ Expired(k)
    <2>1. v = w
      BY <1>5 DEF Tick
    <2>2. Len(s) + 1 < Limit /\ (w # None => w.age >= Window)
      BY <1>5 DEF AllRecorded, Recorded, Expired
    <2>. QED
      BY <1>1, <1>2, <1>3, <1>4, <2>1, <2>2, LimitIsNat DEF Recorded
  <1>6. CASE ~(w = None \/ Expired(k))
    <2>1. /\ w \in FailureWindow /\ w.failures \in Nat /\ w.age \in 0..Window
          /\ ~(w.age >= Window) /\ w # None
      BY <1>6, WindowFields DEF Limited, Expired
    <2>2. v = [w EXCEPT !.age = @ + 1]
      BY <1>6 DEF Tick
    <2>3. v.age = w.age + 1 /\ v.failures = w.failures /\ v \in FailureWindow
      BY <2>1, <2>2, LimiterAssumption DEF FailureWindow
    <2>4. PICK p \in Nat : /\ p + 1 < Limit /\ p + 1 <= Len(s)
                           /\ s[p + 1] = w.age
                           /\ Len(s) <= p + w.failures
      BY <2>1 DEF AllRecorded, Recorded
    <2>5. w.failures < Limit
      BY <1>6, <2>1, UnderWayFinite, LimiterAssumption
         DEF Limited, Bounded, Within, Limit
    <2>6. p + 1 <= d <=> w.age + 1 >= Window
      BY <1>1, <1>3, <2>4
    <2>7. CASE w.age + 1 >= Window
      <3>1. Len(t) + 1 < Limit
        BY <1>1, <1>3, <1>4, <2>1, <2>4, <2>5, <2>6, <2>7, LimitIsNat
      <3>. QED
        BY <1>2, <1>4, <2>3, <2>7, <3>1 DEF Recorded
    <2>8. CASE ~(w.age + 1 >= Window)
      <3>1. p - d \in Nat /\ (p - d) + 1 + d = p + 1
        BY <1>3, <2>6, <2>8
      <3>2. /\ (p - d) + 1 < Limit /\ (p - d) + 1 <= Len(t)
            /\ Len(t) <= (p - d) + w.failures
        <4>1. /\ p + 1 < Limit /\ p + 1 <= Len(s) /\ Len(s) <= p + w.failures
              /\ Len(t) = Len(s) - d /\ d <= Len(s)
          BY ONLY <1>3, <1>4, <2>4
        <4>2. /\ Len(s) \in Nat /\ d \in Nat /\ Limit \in Nat /\ w.failures \in Nat
              /\ p \in Nat /\ p - d \in Nat
          BY ONLY <1>1, <1>3, <2>1, <2>4, <3>1, LimitIsNat
        <4>. QED
          BY ONLY <4>1, <4>2
      <3>3. (p - d) + 1 \in 1..(Len(s) - d)
        BY <1>4, <3>1, <3>2
      <3>4. t[(p - d) + 1] = w.age + 1
        BY <1>4, <2>4, <3>1, <3>3
      <3>5. v # None
        BY <2>3, LimiterAssumption DEF FailureWindow
      <3>6. Recorded(v, t)
        BY <1>4, <2>3, <2>8, <3>1, <3>2, <3>4, <3>5, OpenRecorded
      <3>. QED
        BY <1>2, <1>4, <3>6
    <2>. QED
      BY <2>7, <2>8
  <1>. QED
    BY <1>5, <1>6

LEMMA RecordedStep ==
    ASSUME Limited, AllRecorded, [Next]_vars
    PROVE  AllRecorded'
  <1>1. CASE UNCHANGED vars
    BY <1>1 DEF vars, AllRecorded
  <1>2. ASSUME NEW q \in Requests, NEW k \in Keys, Begin(q, k)
        PROVE  AllRecorded'
    <2>1. ASSUME NEW j \in Keys
          PROVE  Recorded(windows'[j], recent[j])
      <3>1. windows'[j] = windows[j] \/ (windows'[j] = None /\ windows[j].age >= Window)
        BY <1>2 DEF Begin, Expired, Limited, Typed
      <3>. QED
        BY <3>1, RecordedDrop DEF AllRecorded
    <2>. QED
      BY <1>2, <2>1 DEF Begin, AllRecorded
  <1>3. ASSUME NEW q \in Requests, Succeed(q)
        PROVE  AllRecorded'
    <2>1. <<>> \in Seq(Ages) /\ Recorded(None, <<>>)
      BY LimitIsNat DEF Recorded, OldestFirst
    <2>2. attempt[q] \in Keys
      BY <1>3 DEF Succeed, Limited, Typed
    <2>3. ASSUME NEW j \in Keys
          PROVE  Recorded(windows'[j], recent'[j])
      BY <1>3, <2>1, <2>2, <2>3 DEF Succeed, AllRecorded, Limited, Typed
    <2>. QED
      BY <1>3, <2>1, <2>2, <2>3 DEF Succeed, AllRecorded
  <1>4. ASSUME NEW q \in Requests, Abort(q)
        PROVE  AllRecorded'
    BY <1>4 DEF Abort, AllRecorded
  <1>5. CASE Prune
    <2>1. ASSUME NEW j \in Keys
          PROVE  Recorded(windows'[j], recent[j])
      <3>1. windows'[j] = windows[j] \/ (windows'[j] = None /\ windows[j].age >= Window)
        BY <1>5 DEF Prune, Expired
      <3>. QED
        BY <3>1, RecordedDrop DEF AllRecorded
    <2>. QED
      BY <1>5, <2>1 DEF Prune, AllRecorded
  <1>6. CASE Restart
    <2>1. <<>> \in Seq(Ages) /\ Recorded(None, <<>>)
      BY LimitIsNat DEF Recorded, OldestFirst
    <2>. QED
      BY <1>6, <2>1 DEF Restart, AllRecorded
  <1>7. CASE Tick
    <2>1. \A j \in Keys : recent'[j] \in Seq(Ages) /\ Recorded(windows'[j], recent'[j])
      BY <1>7, RecordedTick
    <2>2. DOMAIN recent' = Keys /\ recent' = [j \in Keys |-> recent'[j]]
      BY <1>7 DEF Tick
    <2>. QED
      BY <2>1, <2>2 DEF AllRecorded
  <1>. QED
    BY <1>1, <1>2, <1>3, <1>4, <1>5, <1>6, <1>7, RecordedFail DEF Next

(***************************************************************************)
(* Whatever Window, the limit, the keys and the number of logins that run  *)
(* at once: any stretch of Window ticks sees fewer failures of a key than  *)
(* two full windows, and the map and the history stay well typed.          *)
(***************************************************************************)
THEOREM StretchesStayBounded == Spec => [](TypeOK /\ StretchBounded)
  <1>1. Limited /\ AllRecorded /\ [Next]_vars => AllRecorded'
    BY RecordedStep
  <1>2. Limited /\ AllRecorded => StretchBounded
    <2>. SUFFICES ASSUME Limited, AllRecorded, NEW k \in Keys
                  PROVE  Len(recent[k]) < 2 * (MaxFailures + Cardinality(Requests) - 1)
      BY DEF StretchBounded
    <2>. DEFINE s == recent[k]
                w == windows[k]
    <2>1. Len(s) \in Nat
      BY DEF AllRecorded
    <2>2. CASE w = None \/ w.age >= Window
      <3>1. Len(s) + 1 < Limit
        BY <2>2 DEF AllRecorded, Recorded
      <3>. QED
        BY <2>1, <3>1, LimitIsNat, LimitValue
    <2>3. CASE ~(w = None \/ w.age >= Window)
      <3>1. w.failures \in Nat /\ w.failures < Limit
        BY <2>3, WindowFields, UnderWayFinite, LimiterAssumption
           DEF Limited, Bounded, Within, Limit
      <3>2. PICK p \in Nat : p + 1 < Limit /\ Len(s) <= p + w.failures
        BY <2>3 DEF AllRecorded, Recorded
      <3>. QED
        BY <2>1, <3>1, <3>2, LimitIsNat, LimitValue
    <2>. QED
      BY <2>2, <2>3
  <1>3. Limited /\ AllRecorded => TypeOK
    BY DEF Limited, Typed, AllRecorded, TypeOK, Ages
  <1>. QED
    BY RecordedInit, <1>1, <1>2, <1>3, LimitedAlways, PTL DEF Spec
=============================================================================
