--------------------------- MODULE ProviderProofs ---------------------------
(***************************************************************************)
(* Proofs about ProviderRequest: however long pages, retries and sleeps    *)
(* alternate, a call is bounded, and it gives up only after an outage; and *)
(* its pages, read at different times, are one answer.                     *)
(***************************************************************************)
EXTENDS ProviderRequest, FiniteSetTheorems, SequenceTheorems,
        WellFoundedInduction, TLAPS

LongestPage == (MaxAttempts - 1) * Longest

\* What the counters of a call relate to at each point of its loops.
CallInvariant ==
    /\ phase \in {"request", "sleep", "answered", "failed"}
    /\ attempt \in Nat /\ pages \in Nat /\ delay \in Nat
    /\ sent \in Nat /\ slept \in Nat /\ streak \in Nat
    /\ phase \in {"request", "sleep"} => pages < MaxPages
    /\ phase = "request" =>
          /\ attempt < MaxAttempts /\ delay = 0
          /\ streak = attempt
          /\ sent <= MaxAttempts * pages + attempt
          /\ slept <= LongestPage * pages + Longest * attempt
    /\ phase = "sleep" =>
          /\ attempt + 1 < MaxAttempts
          /\ streak = attempt + 1
          /\ sent <= MaxAttempts * pages + attempt + 1
          /\ slept + delay <= LongestPage * pages + Longest * (attempt + 1)
    /\ phase \in {"answered", "failed"} =>
          RequestsBounded /\ SleepBounded
    /\ phase = "failed" => streak \in {0, MaxAttempts}

\* The products of the invariant, as monotone bounds.
LEMMA Products ==
    /\ Longest \in Nat /\ LongestPage \in Nat
    /\ \A k \in {MaxAttempts, LongestPage} : \A p \in Nat :
          /\ k * p \in Nat
          /\ k * (p + 1) = k * p + k
          /\ p < MaxPages => k * p + k <= k * MaxPages
    /\ \A a \in Nat :
          /\ Longest * a \in Nat
          /\ Longest * (a + 1) = Longest * a + Longest
          /\ a < MaxAttempts => Longest * a <= LongestPage
    /\ LongestPage * MaxPages = (MaxAttempts - 1) * MaxPages * Longest
<1>1. Longest \in Nat
  BY ProviderAssumption DEF Longest
<1>2. /\ MaxAttempts \in Nat \ {0} /\ MaxPages \in Nat \ {0}
  BY ProviderAssumption
<1>3. LongestPage \in Nat
  BY <1>1, <1>2 DEF LongestPage
<1>4. ASSUME NEW k \in Nat, NEW p \in Nat
      PROVE  /\ k * p \in Nat
             /\ k * (p + 1) = k * p + k
             /\ p < MaxPages => k * p + k <= k * MaxPages
  BY <1>2
<1>5. ASSUME NEW a \in Nat
      PROVE  /\ Longest * a \in Nat
             /\ Longest * (a + 1) = Longest * a + Longest
             /\ a < MaxAttempts => Longest * a <= LongestPage
  BY <1>1, <1>2 DEF LongestPage
<1>6. LongestPage * MaxPages = (MaxAttempts - 1) * MaxPages * Longest
  BY <1>1, <1>2 DEF LongestPage
<1>7. QED
  BY <1>1, <1>2, <1>3, <1>4, <1>5, <1>6

\* No delay exceeds the cap and its jitter, whatever the server asks for.
LEMMA DelaysBounded ==
    ASSUME attempt \in 0 .. MaxAttempts
    PROVE  \A d \in Delays : d \in Nat /\ d <= Longest
<1>1. 2^attempt \in Nat /\ BaseDelay \in Nat /\ MaxDelay \in Nat
  BY PowerAssumption, ProviderAssumption
<1>2. ASSUME NEW d \in Backoff(attempt) PROVE d \in Nat /\ d <= Longest
  <2> DEFINE power == 2^attempt
             base == IF BaseDelay * power <= MaxDelay
                     THEN BaseDelay * power ELSE MaxDelay
  <2>1. d \in base .. base + base \div 10
    BY <1>2 DEF Backoff
  <2> HIDE DEF power
  <2>2. power \in Nat
    BY <1>1 DEF power
  <2>3. BaseDelay * power \in Nat
    BY <1>1, <2>2
  <2>4. base \in Nat /\ base <= MaxDelay
    BY <1>1, <2>3
  <2> HIDE DEF base
  <2>5. base \div 10 <= MaxDelay \div 10 /\ base \div 10 \in Nat
    BY <1>1, <2>4
  <2>6. QED
    BY <1>1, <2>1, <2>4, <2>5 DEF Longest
<1>3. ASSUME NEW h \in RetryAfters, NEW d \in RetryAfter(h)
      PROVE  d \in Nat /\ d <= Longest
  BY <1>1, <1>3, ProviderAssumption DEF RetryAfter, Longest
<1>4. QED
  BY <1>2, <1>3 DEF Delays

LEMMA CallInvariantInit == Init => CallInvariant
BY Products, ProviderAssumption DEF Init, CallInvariant

LEMMA ReadPageBounded ==
    ASSUME CallInvariant, ReadPage PROVE CallInvariant'
<1>1. /\ phase = "request" /\ pages < MaxPages /\ attempt < MaxAttempts
      /\ pages' = pages + 1 /\ sent' = sent + 1 /\ streak' = 0
      /\ delay = 0 /\ delay' = 0 /\ slept' = slept
      /\ attempt \in Nat /\ pages \in Nat /\ sent \in Nat /\ slept \in Nat
  BY DEF CallInvariant, ReadPage, Sent
<1>2. \/ phase' \in {"answered", "failed"} /\ attempt' = attempt
      \/ /\ phase' = "request" /\ attempt' = 0
         /\ pages + 1 # MaxPages
  BY <1>1 DEF ReadPage, Done, TooManyPages, NextPage
<1>3. /\ sent + 1 <= MaxAttempts * (pages + 1)
      /\ slept <= LongestPage * (pages + 1)
  BY <1>1, Products, ProviderAssumption DEF CallInvariant
<1>4. /\ MaxAttempts * (pages + 1) <= MaxAttempts * MaxPages
      /\ LongestPage * (pages + 1) <= LongestPage * MaxPages
  BY <1>1, Products
<1>5. RequestsBounded' /\ SleepBounded'
  BY <1>1, <1>3, <1>4, Products, ProviderAssumption
     DEF RequestsBounded, SleepBounded
<1>6. CASE phase' \in {"answered", "failed"}
  BY <1>1, <1>2, <1>5, <1>6 DEF CallInvariant
<1>7. CASE phase' = "request"
  BY <1>1, <1>2, <1>3, <1>7, Products, ProviderAssumption DEF CallInvariant
<1>8. QED
  BY <1>2, <1>6, <1>7

LEMMA EndBounded ==
    ASSUME CallInvariant, phase = "request", phase' \in {"answered", "failed"},
           attempt' = attempt, pages' \in {pages, pages + 1},
           sent' = sent + 1, slept' = slept, delay' = delay,
           streak' \in {0, MaxAttempts}
    PROVE  CallInvariant'
<1>1. /\ pages < MaxPages /\ attempt < MaxAttempts /\ delay = 0
      /\ attempt \in Nat /\ pages \in Nat /\ sent \in Nat /\ slept \in Nat
  BY DEF CallInvariant
<1>2. /\ sent + 1 <= MaxAttempts * (pages + 1)
      /\ slept <= LongestPage * (pages + 1)
  BY <1>1, Products, ProviderAssumption DEF CallInvariant
<1>3. /\ MaxAttempts * (pages + 1) <= MaxAttempts * MaxPages
      /\ LongestPage * (pages + 1) <= LongestPage * MaxPages
  BY <1>1, Products
<1>4. RequestsBounded' /\ SleepBounded'
  BY <1>1, <1>2, <1>3, Products, ProviderAssumption
     DEF RequestsBounded, SleepBounded
<1>5. /\ phase' \notin {"request", "sleep"} /\ phase' \in {"answered", "failed"}
      /\ attempt' \in Nat /\ pages' \in Nat /\ delay' \in Nat
      /\ sent' \in Nat /\ slept' \in Nat /\ streak' \in Nat
  BY <1>1, ProviderAssumption
<1>6. QED
  BY <1>4, <1>5 DEF CallInvariant

LEMMA TransientFailureBounded ==
    ASSUME CallInvariant, TransientFailure PROVE CallInvariant'
<1>1. /\ phase = "request" /\ attempt \in Nat /\ attempt < MaxAttempts
      /\ streak = attempt /\ delay = 0
      /\ UNCHANGED <<attempt, pages, slept>>
      /\ sent' = sent + 1 /\ streak' = streak + 1
  BY DEF CallInvariant, TransientFailure, Sent
<1>2. CASE attempt + 1 < MaxAttempts
  <2>1. phase' = "sleep" /\ delay' \in Delays
    BY <1>2 DEF TransientFailure
  <2>2. delay' \in Nat /\ delay' <= Longest
    BY <1>1, <2>1, DelaysBounded, ProviderAssumption
  <2>3. /\ pages \in Nat /\ sent \in Nat /\ slept \in Nat
        /\ sent <= MaxAttempts * pages + attempt
        /\ slept <= LongestPage * pages + Longest * attempt
        /\ pages < MaxPages
    BY <1>1 DEF CallInvariant
  <2>4. /\ sent' <= MaxAttempts * pages' + attempt' + 1
        /\ slept' + delay' <= LongestPage * pages' + Longest * (attempt' + 1)
    <3> DEFINE sends == MaxAttempts * pages
               sleeps == LongestPage * pages
               retries == Longest * attempt
    <3>1. /\ sends \in Nat /\ sleeps \in Nat /\ retries \in Nat
          /\ Longest * (attempt + 1) = retries + Longest
          /\ sent <= sends + attempt /\ slept <= sleeps + retries
      BY <1>1, <2>3, Products, ProviderAssumption
    <3>2. MaxAttempts * pages' = sends /\ LongestPage * pages' = sleeps
      BY <1>1
    <3>3. Longest \in Nat
      BY Products
    <3> HIDE DEF sends, sleeps, retries
    <3>4. QED
      BY <1>1, <2>2, <2>3, <3>1, <3>2, <3>3
  <2>5. /\ attempt' + 1 < MaxAttempts /\ streak' = attempt' + 1
        /\ pages' < MaxPages /\ pages' \in Nat /\ attempt' \in Nat
        /\ sent' \in Nat /\ slept' \in Nat /\ streak' \in Nat
    BY <1>1, <1>2, <2>3
  <2>6. QED
    BY <2>1, <2>2, <2>4, <2>5 DEF CallInvariant
<1>3. CASE ~(attempt + 1 < MaxAttempts)
  <2>1. phase' = "failed" /\ delay' = delay
    BY <1>3 DEF TransientFailure
  <2>2. streak' = MaxAttempts
    BY <1>1, <1>3, ProviderAssumption
  <2>3. QED
    BY <1>1, <2>1, <2>2, EndBounded
<1>4. QED
  BY <1>2, <1>3

LEMMA WakeBounded ==
    ASSUME CallInvariant, Wake PROVE CallInvariant'
BY Products, ProviderAssumption DEF CallInvariant, Wake

LEMMA CallInvariantStep == CallInvariant /\ [Next]_vars => CallInvariant'
<1> SUFFICES ASSUME CallInvariant, [Next]_vars PROVE CallInvariant'
  OBVIOUS
<1>1. CASE ReadPage
  BY <1>1, ReadPageBounded
<1>2. CASE ReadLatest
  BY <1>2, EndBounded DEF ReadLatest, Done, Sent, retry
<1>3. CASE TransientFailure
  BY <1>3, TransientFailureBounded
<1>4. CASE Wake
  BY <1>4, WakeBounded
<1>5. CASE PermanentFailure
  BY <1>5, EndBounded DEF PermanentFailure, Done, Sent, retry
<1>6. CASE Tick \/ Ended \/ UNCHANGED vars
  BY <1>6 DEF Tick, Ended, vars, CallInvariant, RequestsBounded, SleepBounded
<1>7. QED
  BY <1>1, <1>2, <1>3, <1>4, <1>5, <1>6 DEF Next, Step

LEMMA CallInvariantHolds == Spec => []CallInvariant
<1>1. QED
  BY CallInvariantInit, CallInvariantStep, PTL DEF Spec

LEMMA CallInvariantBounds ==
    ASSUME CallInvariant PROVE RequestsBounded /\ SleepBounded /\ OutageTolerated
<1>1. OutageTolerated
  BY ProviderAssumption DEF CallInvariant, OutageTolerated
<1>2. CASE phase \in {"answered", "failed"}
  BY <1>1, <1>2 DEF CallInvariant
<1>3. CASE phase \in {"request", "sleep"}
  <2>1. /\ attempt \in Nat /\ pages \in Nat /\ pages < MaxPages
        /\ sent \in Nat /\ slept \in Nat /\ delay \in Nat
    BY <1>3 DEF CallInvariant
  <2>2. sent <= MaxAttempts * (pages + 1) /\ slept + delay <= LongestPage * (pages + 1)
    BY <1>3, <2>1, Products, ProviderAssumption DEF CallInvariant
  <2>3. /\ MaxAttempts * (pages + 1) <= MaxAttempts * MaxPages
        /\ LongestPage * (pages + 1) <= LongestPage * MaxPages
    BY <2>1, Products
  <2>4. QED
    BY <1>1, <2>1, <2>2, <2>3, Products, ProviderAssumption
       DEF RequestsBounded, SleepBounded
<1>4. QED
  BY <1>2, <1>3 DEF CallInvariant

\* A call of the provider sends at most MAX_RETRY_ATTEMPTS requests a page, for
\* any limits and any answers of the server.
THEOREM ProviderRequestsBounded == Spec => []RequestsBounded
<1>1. CallInvariant => RequestsBounded
  BY CallInvariantBounds
<1>2. QED
  BY <1>1, CallInvariantHolds, PTL

\* A call of the provider sleeps no longer than its capped delays add up to,
\* whatever Retry-After headers the server sends.
THEOREM ProviderSleepBounded == Spec => []SleepBounded
<1>1. CallInvariant => SleepBounded
  BY CallInvariantBounds
<1>2. QED
  BY <1>1, CallInvariantHolds, PTL

\* A call that fails after a transient failure had as many of them in a row as
\* it has attempts: attempts are not lost from one page to the next.
THEOREM ProviderOutageTolerated == Spec => []OutageTolerated
<1>1. CallInvariant => OutageTolerated
  BY CallInvariantBounds
<1>2. QED
  BY <1>1, CallInvariantHolds, PTL

-----------------------------------------------------------------------------
\* Sorting.

\* A set of natural numbers that is not empty has a least element.
LEMMA NatMin ==
    ASSUME NEW S, S \subseteq Nat, S # {}
    PROVE  \E m \in S : \A n \in S : m <= n
<1> DEFINE R == {p \in Nat \X Nat : p[1] < p[2]}
<1>1. IsWellFoundedOn(R, Nat)
  BY NatLessThanWellFounded DEF OpToRel
<1>2. \A m, n \in Nat : <<n, m>> \in R <=> n < m
  OBVIOUS
<1> HIDE DEF R
<1>3. PICK m \in S : \A n \in S : ~ (<<n, m>> \in R)
  BY <1>1, WFMin
<1>4. ASSUME NEW n \in S PROVE m <= n
  <2>1. m \in Nat /\ n \in Nat
    OBVIOUS
  <2>2. ~ (n < m)
    BY <1>2, <1>3, <2>1
  <2>3. QED
    BY <2>1, <2>2
<1>5. QED
  BY <1>4

Rises(s) == \A i, j \in 1 .. Len(s) : i < j => s[i] < s[j]

\* s has the elements of S, in order.
Sorts(s, S) == s \in Seq(Int) /\ Rises(s) /\ Range(s) = S

\* A sequence of numbers that sorts a set has as many places.
LEMMA SortsLength ==
    ASSUME NEW S, NEW s, Sorts(s, S)
    PROVE  /\ S \subseteq Int /\ IsFiniteSet(S)
           /\ Cardinality(S) \in Nat /\ Len(s) = Cardinality(S)
           /\ DOMAIN s = 1 .. Cardinality(S)
           /\ s \in [1 .. Cardinality(S) -> S]
<1>1. /\ Len(s) \in Nat /\ DOMAIN s = 1 .. Len(s) /\ s \in [1 .. Len(s) -> Int]
  BY LenProperties DEF Sorts
<1>2. S = {s[i] : i \in 1 .. Len(s)}
  BY <1>1 DEF Sorts, Range
<1>3. s \in [1 .. Len(s) -> S]
  BY <1>1, <1>2
<1>4. \A i, j \in 1 .. Len(s) : i # j => s[i] # s[j]
  <2>1. \A i, j \in 1 .. Len(s) : i < j => s[i] < s[j]
    BY DEF Sorts, Rises
  <2>2. \A i, j \in 1 .. Len(s) : i # j => i < j \/ j < i
    OBVIOUS
  <2>3. \A i \in 1 .. Len(s) : s[i] \in Int
    BY <1>1
  <2>4. QED
    BY <2>1, <2>2, <2>3
<1>5. s \in Bijection(1 .. Len(s), S)
  BY <1>2, <1>3, <1>4 DEF Bijection, Injection, Surjection, IsInjective
<1>6. ExistsBijection(1 .. Len(s), S)
  BY <1>5 DEF ExistsBijection
<1>7. IsFiniteSet(1 .. Len(s)) /\ Cardinality(1 .. Len(s)) = Len(s)
  BY <1>1, FS_Interval
<1>8. IsFiniteSet(S) /\ Cardinality(S) = Len(s)
  BY <1>6, <1>7, FS_Bijection
<1>9. QED
  BY <1>1, <1>2, <1>3, <1>8

\* Numbers up to a bound can be sorted.
Sortable(n) == \A S : S \subseteq 1 .. n => \E s : Sorts(s, S)

\* The largest number goes last.
LEMMA SortableNext ==
    ASSUME NEW n \in Nat, Sortable(n)
    PROVE  Sortable(n + 1)
<1> SUFFICES ASSUME NEW S, S \subseteq 1 .. n + 1 PROVE \E s : Sorts(s, S)
  BY DEF Sortable
<1>1. PICK r : Sorts(r, S \ {n + 1})
  <2>1. S \ {n + 1} \subseteq 1 .. n
    OBVIOUS
  <2>2. QED
    BY <2>1 DEF Sortable
<1>2. CASE n + 1 \notin S
  <2>1. S \ {n + 1} = S
    BY <1>2
  <2>2. QED
    BY <1>1, <2>1
<1>3. CASE n + 1 \in S
  <2>1. r \in Seq(Int) /\ Len(r) \in Nat /\ DOMAIN r = 1 .. Len(r)
    BY <1>1, LenProperties DEF Sorts
  <2>2. \A i \in 1 .. Len(r) : r[i] \in Int /\ r[i] < n + 1
    <3>1. TAKE i \in 1 .. Len(r)
    <3>2. r[i] \in S \ {n + 1}
      BY <1>1, <2>1 DEF Sorts, Range
    <3>3. r[i] \in 1 .. n + 1 /\ r[i] # n + 1
      BY <3>2
    <3>4. QED
      BY <3>3
  <2> DEFINE s == Append(r, n + 1)
             l == Len(r) + 1
  <2>3. /\ s \in Seq(Int) /\ Len(s) = l /\ DOMAIN s = 1 .. l
        /\ s[l] = n + 1 /\ \A i \in 1 .. Len(r) : s[i] = r[i]
    BY <2>1
  <2> HIDE DEF s
  <2>4. \A i \in 1 .. l : i \in 1 .. Len(r) \/ i = l
    BY <2>1
  <2>5. Rises(s)
    <3>1. SUFFICES ASSUME NEW i \in 1 .. Len(s), NEW j \in 1 .. Len(s), i < j
                   PROVE  s[i] < s[j]
      BY DEF Rises
    <3>2. i < j
      BY <3>1
    <3>3. i \in 1 .. Len(r) /\ s[i] = r[i]
      BY <2>1, <2>3, <3>2
    <3>4. CASE j = l
      BY <2>2, <2>3, <3>3, <3>4
    <3>5. CASE j \in 1 .. Len(r)
      BY <1>1, <2>3, <3>2, <3>3, <3>5 DEF Sorts, Rises
    <3>6. QED
      BY <2>3, <2>4, <3>4, <3>5
  <2>6. Range(s) = S
    <3>1. ASSUME NEW x \in Range(s) PROVE x \in S
      <4>1. PICK i \in 1 .. l : x = s[i]
        BY <2>3, <3>1 DEF Range
      <4>2. CASE i \in 1 .. Len(r)
        <5>1. x \in Range(r)
          BY <2>1, <2>3, <4>1, <4>2 DEF Range
        <5>2. QED
          BY <1>1, <5>1 DEF Sorts
      <4>3. CASE i = l
        BY <1>3, <2>3, <4>1, <4>3
      <4>4. QED
        BY <2>4, <4>2, <4>3
    <3>2. ASSUME NEW x \in S PROVE x \in Range(s)
      <4>1. CASE x = n + 1
        <5>1. l \in DOMAIN s
          BY <2>1, <2>3
        <5>2. QED
          BY <2>3, <4>1, <5>1 DEF Range
      <4>2. CASE x # n + 1
        <5>1. x \in Range(r)
          BY <1>1, <4>2 DEF Sorts
        <5>2. PICK i \in 1 .. Len(r) : x = r[i]
          BY <2>1, <5>1 DEF Range
        <5>3. i \in DOMAIN s /\ x = s[i]
          BY <2>1, <2>3, <5>2
        <5>4. QED
          BY <5>3 DEF Range
      <4>3. QED
        BY <4>1, <4>2
    <3>3. QED
      BY <3>1, <3>2
  <2>7. QED
    BY <2>3, <2>5, <2>6 DEF Sorts
<1>4. QED
  BY <1>2, <1>3

LEMMA SortExists ==
    ASSUME NEW n \in Nat, NEW S, S \subseteq 1 .. n
    PROVE  \E s : Sorts(s, S)
<1> DEFINE U == {k \in Nat : ~ Sortable(k)}
<1>1. U = {}
  <2> SUFFICES ASSUME U # {} PROVE FALSE
    OBVIOUS
  <2>1. PICK m \in U : \A k \in U : m <= k
    <3>1. U \subseteq Nat
      OBVIOUS
    <3> HIDE DEF U
    <3>2. QED
      BY <3>1, NatMin, Zenon
  <2>2. Sortable(0)
    <3> SUFFICES ASSUME NEW T, T \subseteq 1 .. 0 PROVE Sorts(<<>>, T)
      BY DEF Sortable
    <3>1. T = {}
      OBVIOUS
    <3>2. <<>> \in Seq(Int) /\ Rises(<<>>)
      BY DEF Rises
    <3>3. Range(<<>>) = {}
      BY DEF Range
    <3>4. QED
      BY <3>1, <3>2, <3>3 DEF Sorts
  <2>3. m - 1 \in Nat /\ ~ (m <= m - 1) /\ (m - 1) + 1 = m
    BY <2>2
  <2>4. Sortable(m - 1)
    BY <2>1, <2>3
  <2>5. Sortable((m - 1) + 1)
    BY <2>3, <2>4, SortableNext
  <2>6. QED
    BY <2>3, <2>5
<1>2. QED
  BY <1>1 DEF Sortable

\* Ascending sorts what can be sorted.
LEMMA AscendingSorts ==
    ASSUME NEW S, \E s : Sorts(s, S)
    PROVE  Sorts(Ascending(S), S)
<1>1. PICK s : Sorts(s, S)
  OBVIOUS
<1> DEFINE n == Cardinality(S)
<1>2. /\ S \subseteq Int /\ IsFiniteSet(S) /\ n \in Nat
      /\ DOMAIN s = 1 .. n /\ Len(s) = n /\ s \in [1 .. n -> S]
  BY <1>1, SortsLength
<1> HIDE DEF n
<1> DEFINE a == Ascending(S)
<1>3. a \in [1 .. n -> S] /\ \A i, j \in 1 .. n : i < j => a[i] < a[j]
  <2> DEFINE Q(x) == \A i, j \in DOMAIN x : i < j => x[i] < x[j]
  <2>1. Q(s)
    BY <1>1, <1>2 DEF Sorts, Rises
  <2>2. a = CHOOSE x \in [1 .. n -> S] : Q(x)
    BY DEF Ascending, n
  <2> HIDE DEF a, Q
  <2>3. a \in [1 .. n -> S] /\ Q(a)
    BY <1>2, <2>1, <2>2
  <2>4. QED
    BY <2>3 DEF Q
<1> HIDE DEF a
<1>4. a \in Seq(Int) /\ Len(a) = n /\ DOMAIN a = 1 .. n
  <2>1. a \in [1 .. n -> Int]
    BY <1>2, <1>3
  <2>2. a \in Seq(Int)
    BY <1>2, <2>1, SeqDef
  <2>3. DOMAIN a = 1 .. n /\ DOMAIN a = 1 .. Len(a) /\ Len(a) \in Nat
    BY <1>3, <2>2, LenProperties
  <2>4. Len(a) = n
    BY <1>2, <2>3
  <2>5. QED
    BY <2>2, <2>3, <2>4
<1>5. Rises(a)
  BY <1>3, <1>4 DEF Rises
<1>6. Sorts(a, Range(a))
  BY <1>4, <1>5 DEF Sorts
<1>7. Cardinality(Range(a)) = n /\ Range(a) \subseteq S
  <2>1. Cardinality(Range(a)) = n
    BY <1>4, <1>6, SortsLength
  <2>2. Range(a) \subseteq S
    BY <1>3 DEF Range
  <2>3. QED
    BY <2>1, <2>2
<1>8. Range(a) = S
  BY <1>2, <1>7, FS_Subset DEF n
<1>9. QED
  BY <1>6, <1>8 DEF a

\* What comes after sorts into what comes before.
LEMMA ConcatSorts ==
    ASSUME NEW S, NEW T, NEW s, NEW t, Sorts(s, S), Sorts(t, T),
           \A x \in S, y \in T : x < y
    PROVE  Sorts(s \o t, S \cup T)
<1> DEFINE u == s \o t
           m == Len(s)
           n == Len(t)
<1>1. /\ s \in Seq(Int) /\ t \in Seq(Int) /\ m \in Nat /\ n \in Nat
      /\ DOMAIN s = 1 .. m /\ DOMAIN t = 1 .. n
  BY LenProperties DEF Sorts
<1>2. /\ u \in Seq(Int) /\ Len(u) = m + n /\ DOMAIN u = 1 .. m + n
      /\ \A i \in 1 .. m + n : u[i] = IF i <= m THEN s[i] ELSE t[i - m]
  BY <1>1, ConcatProperties, LenProperties
<1> HIDE DEF u
<1>3. /\ \A i, j \in 1 .. m : i < j => s[i] < s[j]
      /\ \A i, j \in 1 .. n : i < j => t[i] < t[j]
      /\ \A i \in 1 .. m : s[i] \in S
      /\ \A i \in 1 .. n : t[i] \in T
      /\ \A x \in S : \E i \in 1 .. m : x = s[i]
      /\ \A x \in T : \E i \in 1 .. n : x = t[i]
  BY <1>1 DEF Sorts, Rises, Range
<1> HIDE DEF m, n
<1>4. ASSUME NEW i \in 1 .. m + n
      PROVE  \/ i \in 1 .. m /\ u[i] = s[i]
             \/ /\ i > m /\ i - m \in 1 .. n
                /\ u[i] = t[i - m]
  <2>1. u[i] = IF i <= m THEN s[i] ELSE t[i - m]
    BY <1>2
  <2>2. i \in Int /\ m \in Int /\ n \in Int /\ 1 <= i /\ i <= m + n
    BY <1>1
  <2>3. CASE i <= m
    BY <2>1, <2>2, <2>3
  <2>4. CASE i > m
    <3>1. i - m \in 1 .. n /\ ~ (i <= m)
      BY <2>2, <2>4
    <3>2. QED
      BY <2>1, <2>4, <3>1
  <2>5. QED
    BY <2>2, <2>3, <2>4
<1>5. Rises(u)
  <2> SUFFICES ASSUME NEW i \in 1 .. m + n, NEW j \in 1 .. m + n, i < j
               PROVE  u[i] < u[j]
    BY <1>2 DEF Rises
  <2>1. CASE i \in 1 .. m /\ j \in 1 .. m
    BY <1>1, <1>2, <1>3, <2>1
  <2>2. CASE i \in 1 .. m /\ j > m
    <3>1. u[i] \in S /\ u[j] \in T
      BY <1>1, <1>3, <1>4, <2>2
    <3>2. QED
      BY <3>1
  <2>3. CASE i > m /\ j > m
    <3>1. /\ i - m \in 1 .. n /\ j - m \in 1 .. n /\ i - m < j - m
          /\ u[i] = t[i - m] /\ u[j] = t[j - m]
      BY <1>1, <1>4, <2>3
    <3>2. QED
      BY <1>3, <3>1
  <2>4. QED
    BY <1>1, <2>1, <2>2, <2>3
<1>6. Range(u) = S \cup T
  <2>1. ASSUME NEW x \in Range(u) PROVE x \in S \cup T
    <3>1. PICK i \in 1 .. m + n : x = u[i]
      BY <1>2, <2>1 DEF Range
    <3>2. QED
      BY <1>3, <1>4, <3>1
  <2>2. ASSUME NEW x \in S PROVE x \in Range(u)
    <3>1. PICK i \in 1 .. m : x = s[i]
      BY <1>3
    <3>2. i \in DOMAIN u /\ u[i] = x
      BY <1>1, <1>2, <3>1
    <3>3. QED
      BY <3>2 DEF Range
  <2>3. ASSUME NEW x \in T PROVE x \in Range(u)
    <3>1. PICK i \in 1 .. n : x = t[i]
      BY <1>3
    <3>2. /\ i + m \in DOMAIN u /\ ~ (i + m <= m) /\ (i + m) - m = i
          /\ i + m \in 1 .. m + n
      BY <1>1, <1>2
    <3>3. u[i + m] = x
      BY <1>2, <3>1, <3>2
    <3>4. QED
      BY <3>2, <3>3 DEF Range
  <2>4. QED
    BY <2>1, <2>2, <2>3
<1>7. QED
  BY <1>2, <1>5, <1>6 DEF Sorts, u

\* The first n of a sorted set.
LEMMA PrefixSorts ==
    ASSUME NEW S, NEW s, Sorts(s, S), NEW n \in 1 .. Cardinality(S)
    PROVE  LET p == SubSeq(s, 1, n) IN
           /\ p[n] \in S
           /\ Sorts(p, {x \in S : x <= p[n]})
           /\ n = Cardinality(S) => \A x \in S : x <= p[n]
<1> DEFINE p == SubSeq(s, 1, n)
           l == Cardinality(S)
<1>1. /\ S \subseteq Int /\ l \in Nat /\ Len(s) = l /\ DOMAIN s = 1 .. l
      /\ s \in [1 .. l -> S] /\ s \in Seq(Int)
  BY SortsLength DEF Sorts
<1> HIDE DEF l
<1>2. /\ n \in Nat /\ n <= l /\ n \in 1 .. n /\ n \in 1 .. l
      /\ \A i \in 1 .. n : i \in 1 .. l
  BY <1>1 DEF l
<1>3. \A i \in 1 .. n : s[i] \in Int
  BY <1>1, <1>2
<1>4. /\ p \in Seq(Int) /\ Len(p) = n /\ DOMAIN p = 1 .. n
      /\ \A i \in 1 .. n : p[i] = s[i]
  <2>1. /\ p \in Seq(Int) /\ Len(p) = n
        /\ \A i \in 1 .. n - 1 + 1 : p[i] = s[1 + i - 1]
    BY <1>2, <1>3, SubSeqProperties
  <2> HIDE DEF p
  <2>2. QED
    BY <1>2, <2>1, LenProperties
<1> HIDE DEF p
<1>5. /\ \A i, j \in 1 .. l : i < j => s[i] < s[j]
      /\ \A x \in S : \E i \in 1 .. l : x = s[i]
      /\ \A i \in 1 .. l : s[i] \in S /\ s[i] \in Int
  BY <1>1 DEF Sorts, Rises, Range
<1>6. p[n] = s[n] /\ p[n] \in S
  BY <1>2, <1>4, <1>5
<1>7. Rises(p)
  BY <1>2, <1>4, <1>5 DEF Rises
<1>8. \A i \in 1 .. l : s[i] <= s[n] <=> i <= n
  BY <1>2, <1>5
<1>9. Range(p) = {x \in S : x <= p[n]}
  <2>1. ASSUME NEW x \in Range(p) PROVE x \in S /\ x <= p[n]
    <3>1. PICK i \in 1 .. n : x = s[i]
      BY <1>4, <2>1 DEF Range
    <3>2. QED
      BY <1>2, <1>5, <1>6, <1>8, <3>1
  <2>2. ASSUME NEW x \in S, x <= p[n] PROVE x \in Range(p)
    <3>1. PICK i \in 1 .. l : x = s[i]
      BY <1>5
    <3>2. i \in 1 .. n
      BY <1>6, <1>8, <2>2, <3>1
    <3>3. i \in DOMAIN p /\ p[i] = x
      BY <1>4, <3>1, <3>2
    <3>4. QED
      BY <3>3 DEF Range
  <2>3. QED
    BY <2>1, <2>2
<1>10. n = l => \A x \in S : x <= p[n]
  BY <1>2, <1>5, <1>6, <1>8
<1>11. Sorts(p, {x \in S : x <= p[n]})
  BY <1>4, <1>7, <1>9 DEF Sorts
<1>12. QED
  BY <1>6, <1>10, <1>11 DEF p, l

\* The filter keeps the order.
LEMMA WithinSorts ==
    ASSUME NEW S, NEW s, Sorts(s, S)
    PROVE  Sorts(Within(s), {t \in S : asked.start <= t /\ t <= asked.end})
<1> DEFINE want(t) == asked.start <= t /\ t <= asked.end
           wanted == {i \in DOMAIN s : want(s[i])}
           index == Ascending(wanted)
           n == Len(index)
           l == Len(s)
           w == Within(s)
<1> HIDE DEF want
<1>1. /\ s \in Seq(Int) /\ l \in Nat /\ DOMAIN s = 1 .. l
  BY LenProperties DEF Sorts
<1>2. wanted \subseteq 1 .. l
  BY <1>1
<1>3. Sorts(index, wanted)
  <2> HIDE DEF wanted
  <2>1. \E q : Sorts(q, wanted)
    BY <1>1, <1>2, SortExists
  <2>2. QED
    BY <2>1, AscendingSorts
<1>4. w = [k \in DOMAIN index |-> s[index[k]]]
  BY DEF Within, want
<1> HIDE DEF index, w
<1>5. index \in Seq(Int) /\ n \in Nat /\ DOMAIN index = 1 .. n
  BY <1>3, LenProperties DEF Sorts
<1>6. /\ \A k \in 1 .. n : index[k] \in wanted
      /\ \A i \in wanted : \E k \in 1 .. n : index[k] = i
      /\ \A j, k \in 1 .. n : j < k => index[j] < index[k]
  BY <1>3, <1>5 DEF Sorts, Rises, Range
<1>7. /\ \A i, j \in 1 .. l : i < j => s[i] < s[j]
      /\ \A i \in 1 .. l : s[i] \in S /\ s[i] \in Int
      /\ \A x \in S : \E i \in 1 .. l : x = s[i]
  BY <1>1, ElementOfSeq DEF Sorts, Rises, Range
<1>8. /\ \A k \in 1 .. n : index[k] \in 1 .. l /\ want(s[index[k]])
      /\ \A i \in 1 .. l : want(s[i]) => \E k \in 1 .. n : index[k] = i
  BY <1>1, <1>6
<1> HIDE DEF wanted, n, l
<1>9. w \in Seq(Int) /\ Len(w) = n /\ DOMAIN w = 1 .. n
  <2>1. w \in [1 .. n -> Int]
    BY <1>4, <1>5, <1>7, <1>8
  <2>2. w \in Seq(Int)
    BY <1>5, <2>1, SeqDef
  <2>3. DOMAIN w = 1 .. n /\ DOMAIN w = 1 .. Len(w) /\ Len(w) \in Nat
    BY <2>1, <2>2, LenProperties
  <2>4. QED
    BY <1>5, <2>2, <2>3
<1>10. \A k \in 1 .. n : w[k] = s[index[k]]
  BY <1>4, <1>5
<1>11. Rises(w)
  <2> SUFFICES ASSUME NEW j \in 1 .. n, NEW k \in 1 .. n, j < k
               PROVE  w[j] < w[k]
    BY <1>9 DEF Rises
  <2>1. QED
    BY <1>6, <1>7, <1>8, <1>10
<1>12. Range(w) = {t \in S : want(t)}
  <2>1. ASSUME NEW x \in Range(w) PROVE x \in S /\ want(x)
    <3>1. PICK k \in 1 .. n : x = w[k]
      BY <1>9, <2>1 DEF Range
    <3>2. QED
      BY <1>7, <1>8, <1>10, <3>1
  <2>2. ASSUME NEW x \in S, want(x) PROVE x \in Range(w)
    <3>1. PICK i \in 1 .. l : x = s[i]
      BY <1>7
    <3>2. PICK k \in 1 .. n : index[k] = i
      BY <1>8, <2>2, <3>1
    <3>3. k \in DOMAIN w /\ w[k] = x
      BY <1>9, <1>10, <3>1, <3>2
    <3>4. QED
      BY <3>3 DEF Range
  <2>3. QED
    BY <2>1, <2>2
<1>13. QED
  BY <1>9, <1>11, <1>12 DEF Sorts, want, w

-----------------------------------------------------------------------------
\* The pages of a call.

\* What a historical query asks the server for, and what is so up to a page
\* token.
Queried == {t \in Published : /\ Format(asked.start) <= t
                              /\ t <= Format(asked.end)}

UpTo(last) == {t \in Queried : t <= last}

\* The pages read so far are what there is up to the token, and no bar is ever
\* published before the token.
PagesInvariant ==
    /\ now \in Instant /\ asked \in Calls
    /\ phase \in {"request", "sleep", "answered", "failed"}
    /\ phase \in {"request", "sleep"} => answer = <<>>
    /\ phase \in {"request", "sleep"} /\ asked.kind = "historical" =>
          /\ token \in Nat /\ token <= now
          /\ Sorts(raw_bars, UpTo(token))

LEMMA PublishedFacts ==
    /\ LastTime \in Nat /\ Instant \subseteq Nat
    /\ Published \subseteq 1 .. LastTime
    /\ \A t \in Published : t \in Nat /\ t % Second = 0
BY ProviderAssumption DEF Instant

LEMMA PublishedRange ==
    \A t \in Published : t \in Nat /\ 1 <= t
<1>1. Published \subseteq 1 .. LastTime /\ LastTime \in Nat
  BY PublishedFacts
<1>2. QED
  BY <1>1

LEMMA PublishedSorted ==
    ASSUME NEW S, S \subseteq Published
    PROVE  Sorts(Ascending(S), S)
<1>1. \E s : Sorts(s, S)
  BY PublishedFacts, SortExists
<1>2. QED
  BY <1>1, AscendingSorts

LEMMA EmptySorted == Sorts(<<>>, {})
BY DEF Sorts, Rises, Range

\* One more page.
LEMMA PageSorted ==
    ASSUME PagesInvariant, phase = "request", asked.kind = "historical",
           NEW n \in 0 .. Cardinality(Remaining)
    PROVE  LET page == SubSeq(Ascending(Remaining), 1, n)
               last == IF n = 0 THEN token ELSE page[n]
           IN  /\ last \in Nat /\ last <= now
               /\ Sorts(raw_bars \o page, UpTo(last))
               /\ ~ (n < Cardinality(Remaining)) => UpTo(last) = UpTo(now)
<1> DEFINE page == SubSeq(Ascending(Remaining), 1, n)
           last == IF n = 0 THEN token ELSE page[n]
           read == raw_bars \o page
<1>1. /\ token \in Nat /\ token <= now /\ now \in Nat
      /\ Sorts(raw_bars, UpTo(token))
  BY PublishedFacts DEF PagesInvariant
<1>2. /\ Remaining \subseteq Published
      /\ Remaining = {t \in Queried : token < t /\ t <= now}
      /\ Queried \subseteq Nat
  BY PublishedFacts DEF Remaining, Queried
<1>3. Sorts(Ascending(Remaining), Remaining)
  BY <1>2, PublishedSorted
<1>4. Cardinality(Remaining) \in Nat
  BY <1>3, SortsLength
<1>5. CASE n = 0
  <2>1. page = <<>>
    BY <1>5, SubSeqEmpty
  <2>2. raw_bars \in Seq(Int)
    BY <1>1 DEF Sorts
  <2>3. read = raw_bars
    BY <2>1, <2>2, ConcatEmptySeq
  <2>4. ASSUME ~ (n < Cardinality(Remaining)) PROVE UpTo(token) = UpTo(now)
    <3>1. Cardinality(Remaining) = 0
      BY <1>4, <1>5, <2>4
    <3>2. Remaining = {}
      BY <1>3, <3>1, SortsLength, FS_EmptySet
    <3>3. \A t \in Queried : t <= token <=> t <= now
      BY <1>1, <1>2, <3>2
    <3>4. QED
      BY <3>3 DEF UpTo
  <2>5. QED
    BY <1>1, <1>5, <2>3, <2>4
<1>6. CASE n # 0
  <2>1. n \in 1 .. Cardinality(Remaining)
    BY <1>6
  <2>2. /\ last = page[n] /\ last \in Remaining
        /\ Sorts(page, {x \in Remaining : x <= last})
        /\ n = Cardinality(Remaining) => \A x \in Remaining : x <= last
    BY <1>3, <1>6, <2>1, PrefixSorts
  <2> HIDE DEF page
  <2> HIDE DEF last
  <2>3. last \in Nat /\ token < last /\ last <= now
    BY <1>2, <2>2
  <2>4. \A x \in UpTo(token), y \in {z \in Remaining : z <= last} : x < y
    BY <1>1, <1>2 DEF UpTo
  <2>5. Sorts(read, UpTo(token) \cup {x \in Remaining : x <= last})
    BY <1>1, <2>2, <2>4, ConcatSorts
  <2>6. UpTo(last) = UpTo(token) \cup {x \in Remaining : x <= last}
    <3>1. \A t \in Queried :
             t <= last <=> t <= token \/ (token < t /\ t <= now /\ t <= last)
      BY <1>1, <1>2, <2>3
    <3>2. QED
      BY <1>2, <3>1 DEF UpTo
  <2>7. ASSUME ~ (n < Cardinality(Remaining)) PROVE UpTo(last) = UpTo(now)
    <3>1. \A x \in Remaining : x <= last
      BY <1>4, <2>1, <2>2, <2>7
    <3>2. \A t \in Queried : t <= last <=> t <= now
      BY <1>1, <1>2, <2>3, <3>1
    <3>3. QED
      BY <3>2 DEF UpTo
  <2>8. QED
    BY <2>3, <2>5, <2>6, <2>7 DEF page, last
<1>7. QED
  BY <1>5, <1>6

\* Dropping what is smaller than a second loses no bar of the range.
LEMMA FormatFacts ==
    ASSUME NEW t \in Nat, NEW b \in Nat, NEW s \in Nat \ {0}, b % s = 0
    PROVE  /\ t - (t % s) <= t
           /\ b <= t => b <= t - (t % s)
<1>1. t % s \in 0 .. s - 1 /\ t = s * (t \div s) + (t % s) /\ t \div s \in Nat
  OBVIOUS
<1>2. b = s * (b \div s) /\ b \div s \in Nat
  OBVIOUS
<1> DEFINE q == t \div s
           r == b \div s
<1>3. ASSUME b <= t PROVE r <= q
  <2>1. SUFFICES ASSUME q + 1 <= r PROVE FALSE
    BY <1>1, <1>2
  <2>2. s * (q + 1) <= s * r
    BY <1>1, <1>2, <2>1
  <2>3. s * (q + 1) = s * q + s
    BY <1>1
  <2>4. QED
    BY <1>1, <1>2, <1>3, <2>2, <2>3
<1>4. ASSUME b <= t PROVE s * r <= s * q
  BY <1>1, <1>2, <1>3, <1>4
<1>5. QED
  BY <1>1, <1>2, <1>4

\* What sorts the bars there are lists them.
LEMMA SortsLists ==
    ASSUME NEW S, NEW s, Sorts(s, {t \in S : t <= now})
    PROVE  Caller!Lists(s, S)
<1> DEFINE T == {t \in S : t <= now}
<1>1. /\ s \in Seq(Int) /\ DOMAIN s = 1 .. Len(s) /\ Len(s) \in Nat
  BY LenProperties DEF Sorts
<1>2. /\ \A i, j \in 1 .. Len(s) : i < j => s[i] < s[j]
      /\ {s[i] : i \in 1 .. Len(s)} = T
  BY <1>1 DEF Sorts, Rises, Range
<1>3. s \in Seq(T)
  <2>1. s \in [1 .. Len(s) -> T]
    BY <1>1, <1>2, LenProperties
  <2>2. QED
    BY <1>1, <2>1, SeqDef
<1>4. QED
  BY <1>1, <1>2, <1>3 DEF Caller!Lists

\* The bars of the range among those queried are those the caller asked for.
LEMMA RangeAnswered ==
    ASSUME asked \in Calls, asked.kind = "historical", NEW s,
           Sorts(s, UpTo(now))
    PROVE  Caller!WithinRange(Within(s))
<1>1. asked.start \in Nat /\ asked.end \in Nat
  BY PublishedFacts DEF Calls
<1> DEFINE S == {t \in UpTo(now) : asked.start <= t /\ t <= asked.end}
           R == {t \in Published : asked.start <= t /\ t <= asked.end}
<1>2. Sorts(Within(s), S)
  BY WithinSorts
<1>3. Second \in Nat \ {0}
  BY ProviderAssumption
<1>4. \A t \in Published : asked.start <= t /\ t <= asked.end => t \in Queried
  <2>1. TAKE t \in Published
  <2>2. t \in Nat /\ t % Second = 0
    BY PublishedFacts
  <2>3. Format(asked.start) <= asked.start /\ Format(asked.start) \in Int
    BY <1>1, <1>3, <2>2, FormatFacts DEF Format
  <2>4. t <= asked.end => t <= Format(asked.end)
    BY <1>1, <1>3, <2>2, FormatFacts DEF Format
  <2>5. QED
    BY <1>1, <2>2, <2>3, <2>4 DEF Queried
<1>5. S = {t \in R : t <= now}
  BY <1>4 DEF UpTo, Queried
<1> HIDE DEF R
<1>6. Caller!Lists(Within(s), R)
  BY <1>2, <1>5, SortsLists
<1>7. QED
  BY <1>6 DEF Caller!WithinRange, R

\* The last n of a sorted set, read from its end and turned round again.
LEMMA SuffixSorts ==
    ASSUME NEW S, NEW s, Sorts(s, S), NEW n \in 0 .. Cardinality(S)
    PROVE  LET p == Reverse(SubSeq(Reverse(s), 1, n)) IN
           /\ Len(p) = n
           /\ n = 0 => Sorts(p, {})
           /\ n # 0 => /\ p[1] \in S
                       /\ Sorts(p, {x \in S : p[1] <= x})
<1> DEFINE l == Cardinality(S)
           r == Reverse(s)
           q == SubSeq(r, 1, n)
           p == Reverse(q)
<1>1. /\ S \subseteq Int /\ l \in Nat /\ Len(s) = l /\ DOMAIN s = 1 .. l
      /\ s \in [1 .. l -> S] /\ s \in Seq(Int)
      /\ n \in Nat /\ n <= l
  BY SortsLength DEF Sorts
<1> HIDE DEF l
<1>2. /\ r = [i \in 1 .. l |-> s[l - i + 1]]
      /\ \A i \in 1 .. l : l - i + 1 \in 1 .. l
  BY <1>1 DEF Reverse
<1>3. \A i \in 1 .. l : r[i] = s[l - i + 1] /\ r[i] \in Int
  BY <1>1, <1>2
<1> HIDE DEF r
<1>4. /\ q \in Seq(Int) /\ Len(q) = n
      /\ \A i \in 1 .. n : q[i] = s[l - i + 1]
  <2>1. \A i \in 1 .. n : i \in 1 .. l
    BY <1>1
  <2>2. \A i \in 1 .. n : r[i] \in Int
    BY <1>3, <2>1
  <2>3. /\ q \in Seq(Int) /\ Len(q) = IF 1 <= n THEN n - 1 + 1 ELSE 0
        /\ \A i \in 1 .. n - 1 + 1 : q[i] = r[1 + i - 1]
    BY <1>1, <2>2, SubSeqProperties
  <2> HIDE DEF q
  <2>4. Len(q) = n
    BY <1>1, <2>3
  <2>5. \A i \in 1 .. n : q[i] = r[i]
    BY <1>1, <2>3
  <2>6. QED
    BY <1>3, <2>1, <2>3, <2>4, <2>5
<1> HIDE DEF q
<1>5. /\ p = [i \in 1 .. n |-> q[n - i + 1]]
      /\ \A i \in 1 .. n : n - i + 1 \in 1 .. n
  BY <1>1, <1>4 DEF Reverse
<1> HIDE DEF p
<1>6. \A i \in 1 .. n : p[i] = s[l - n + i] /\ l - n + i \in 1 .. l
  <2>1. TAKE i \in 1 .. n
  <2>2. p[i] = q[n - i + 1] /\ n - i + 1 \in 1 .. n
    BY <1>5
  <2>3. q[n - i + 1] = s[l - (n - i + 1) + 1]
    BY <1>4, <2>2
  <2>4. l - (n - i + 1) + 1 = l - n + i /\ l - n + i \in 1 .. l
    BY <1>1
  <2>5. QED
    BY <2>2, <2>3, <2>4
<1>7. /\ \A i, j \in 1 .. l : i < j => s[i] < s[j]
      /\ \A x \in S : \E i \in 1 .. l : x = s[i]
      /\ \A i \in 1 .. l : s[i] \in S /\ s[i] \in Int
  BY <1>1 DEF Sorts, Rises, Range
<1>8. p \in Seq(Int) /\ Len(p) = n /\ DOMAIN p = 1 .. n
  <2>1. p \in [1 .. n -> Int]
    BY <1>5, <1>6, <1>7
  <2>2. p \in Seq(Int)
    BY <1>1, <2>1, SeqDef
  <2>3. DOMAIN p = 1 .. n /\ DOMAIN p = 1 .. Len(p) /\ Len(p) \in Nat
    BY <2>1, <2>2, LenProperties
  <2>4. QED
    BY <1>1, <2>2, <2>3
<1>9. Rises(p)
  <2> SUFFICES ASSUME NEW i \in 1 .. n, NEW j \in 1 .. n, i < j
               PROVE  p[i] < p[j]
    BY <1>8 DEF Rises
  <2>1. l - n + i < l - n + j
    BY <1>1
  <2>2. QED
    BY <1>6, <1>7, <2>1
<1>10. CASE n = 0
  <2>1. Range(p) = {}
    BY <1>8, <1>10 DEF Range
  <2>2. QED
    BY <1>8, <1>9, <1>10, <2>1 DEF Sorts, p, q, r
<1>11. CASE n # 0
  <2>1. 1 \in 1 .. n /\ l - n + 1 \in 1 .. l
    BY <1>1, <1>11
  <2>2. p[1] = s[l - n + 1] /\ p[1] \in S
    BY <1>6, <1>7, <2>1
  <2>3. \A i \in 1 .. l : s[l - n + 1] <= s[i] <=> l - n + 1 <= i
    BY <1>1, <1>7, <2>1
  <2>4. ASSUME NEW x \in Range(p) PROVE x \in S /\ p[1] <= x
    <3>1. PICK i \in 1 .. n : x = p[i]
      BY <1>8, <2>4 DEF Range
    <3>2. x = s[l - n + i] /\ l - n + i \in 1 .. l /\ l - n + 1 <= l - n + i
      BY <1>1, <1>6, <3>1
    <3>3. QED
      BY <1>7, <2>2, <2>3, <3>2
  <2>5. ASSUME NEW x \in S, p[1] <= x PROVE x \in Range(p)
    <3>1. PICK k \in 1 .. l : x = s[k]
      BY <1>7
    <3>2. l - n + 1 <= k
      BY <2>2, <2>3, <2>5, <3>1
    <3>3. k - (l - n) \in 1 .. n /\ l - n + (k - (l - n)) = k
      BY <1>1, <3>2
    <3>4. k - (l - n) \in DOMAIN p /\ p[k - (l - n)] = x
      BY <1>6, <1>8, <3>1, <3>3
    <3>5. QED
      BY <3>4 DEF Range
  <2>6. Range(p) = {x \in S : p[1] <= x}
    BY <2>4, <2>5
  <2>7. Sorts(p, {x \in S : p[1] <= x})
    BY <1>8, <1>9, <2>6 DEF Sorts
  <2>8. QED
    BY <1>8, <1>11, <2>2, <2>7 DEF p, q, r
<1>12. QED
  BY <1>10, <1>11

\* The bars of a latest request are the most recent ones there are.
LEMMA LatestAnswered ==
    ASSUME now \in Nat, asked \in Calls,
           NEW n \in 0 .. Len(Reverse(Ascending({t \in Published : t <= now}))),
           n <= asked.limit
    PROVE  Caller!MostRecent(OldestFirst(
              SubSeq(Reverse(Ascending({t \in Published : t <= now})), 1, n)))
<1> DEFINE S == {t \in Published : t <= now}
           all == Ascending(S)
           p == Reverse(SubSeq(Reverse(all), 1, n))
<1>1. Sorts(all, S)
  BY PublishedSorted
<1>2. all \in Seq(Int) /\ Len(all) = Cardinality(S) /\ Cardinality(S) \in Nat
  BY <1>1, SortsLength DEF Sorts
<1>3. n \in 0 .. Cardinality(S)
  <2> HIDE DEF all, S
  <2>1. Len(Reverse(all)) = Len(all)
    BY <1>2 DEF Reverse
  <2>2. n \in 0 .. Len(Reverse(all))
    BY DEF all, S
  <2>3. QED
    BY <1>2, <2>1, <2>2
<1>4. /\ Len(p) = n
      /\ n = 0 => Sorts(p, {})
      /\ n # 0 => p[1] \in S /\ Sorts(p, {x \in S : p[1] <= x})
  <2> HIDE DEF all, S
  <2>1. QED
    BY <1>1, <1>3, SuffixSorts
<1>5. \A x \in S : x \in Nat /\ 1 <= x /\ x <= now /\ x \in Published
  BY PublishedFacts
<1> HIDE DEF p, all
<1>6. \E first \in 1 .. now + 1 : Caller!Lists(p, {t \in Published : first <= t})
  <2>1. CASE n = 0
    <3> DEFINE R == {t \in Published : now + 1 <= t}
    <3>1. {t \in R : t <= now} = {}
      BY PublishedRange
    <3> HIDE DEF R
    <3>2. Caller!Lists(p, R)
      BY <1>4, <2>1, <3>1, SortsLists
    <3>3. now + 1 \in 1 .. now + 1
      OBVIOUS
    <3>4. QED
      BY <3>2, <3>3 DEF R
  <2>2. CASE n # 0
    <3> DEFINE R == {t \in Published : p[1] <= t}
    <3>1. {t \in R : t <= now} = {x \in S : p[1] <= x}
      BY <1>5
    <3> HIDE DEF R
    <3>2. Caller!Lists(p, R)
      BY <1>4, <2>2, <3>1, SortsLists
    <3>3. p[1] \in 1 .. now + 1
      BY <1>4, <1>5, <2>2
    <3>4. QED
      BY <3>2, <3>3 DEF R
  <2>3. QED
    BY <2>1, <2>2
<1>7. Len(p) <= asked.limit
  BY <1>4
<1>8. Caller!MostRecent(p)
  BY <1>6, <1>7 DEF Caller!MostRecent
<1>9. QED
  BY <1>8 DEF OldestFirst, p, all

LEMMA PagesInvariantInit == Init => PagesInvariant
<1> SUFFICES ASSUME Init PROVE PagesInvariant
  OBVIOUS
<1>1. UpTo(0) = {}
  BY PublishedRange DEF UpTo, Queried
<1>2. Sorts(raw_bars, UpTo(token))
  BY <1>1, EmptySorted DEF Init
<1>3. token \in Nat /\ token <= now
  BY PublishedFacts DEF Init
<1>4. QED
  BY <1>2, <1>3 DEF Init, PagesInvariant

\* A page that is not the last one.
LEMMA NextPageKeeps ==
    ASSUME PagesInvariant, ReadPage, phase' \in {"request", "sleep"}
    PROVE  PagesInvariant'
<1>1. /\ phase = "request" /\ asked.kind = "historical"
      /\ UNCHANGED <<now, asked>>
  BY DEF ReadPage
<1>2. PICK n \in 0 .. Cardinality(Remaining), more \in BOOLEAN :
         LET page == SubSeq(Ascending(Remaining), 1, n)
         IN  /\ n <= asked.limit
             /\ n < Cardinality(Remaining) => more
             /\ raw_bars' = raw_bars \o page
             /\ IF ~more
                THEN /\ Done("answered", Within(raw_bars'))
                     /\ UNCHANGED <<token, attempt>>
                ELSE IF pages + 1 = MaxPages THEN TooManyPages(raw_bars')
                ELSE NextPage(IF n = 0 THEN token ELSE page[n])
  BY DEF ReadPage
<1> DEFINE page == SubSeq(Ascending(Remaining), 1, n)
           last == IF n = 0 THEN token ELSE page[n]
<1>3. /\ last \in Nat /\ last <= now
      /\ Sorts(raw_bars \o page, UpTo(last))
  BY <1>1, PageSorted
<1>4. raw_bars' = raw_bars \o page
  BY <1>2
<1>5. NextPage(last)
  BY <1>2 DEF Done, TooManyPages
<1> HIDE DEF last, page
<1>6. token' = last /\ UNCHANGED <<phase, answer>>
  BY <1>5 DEF NextPage
<1>7. UpTo(token)' = UpTo(last)
  BY <1>1, <1>6 DEF UpTo, Queried, Format
<1>8. /\ token' \in Nat /\ token' <= now' /\ Sorts(raw_bars, UpTo(token))'
  BY <1>1, <1>3, <1>4, <1>6, <1>7
<1>9. QED
  BY <1>1, <1>6, <1>8 DEF PagesInvariant

LEMMA PagesInvariantNext ==
    ASSUME PagesInvariant, [Next]_vars PROVE PagesInvariant'
<1>1. ASSUME now' \in Instant, asked' = asked, phase' \in {"answered", "failed"}
      PROVE  PagesInvariant'
  BY <1>1 DEF PagesInvariant
<1>2. now \in Instant
  BY DEF PagesInvariant
<1>3. ASSUME phase \in {"request", "sleep"}, phase' \in {"request", "sleep"},
             UNCHANGED <<asked, token, raw_bars, answer>>,
             now' \in Instant, now <= now'
      PROVE  PagesInvariant'
  <2>1. UpTo(token)' = UpTo(token)
    BY <1>3 DEF UpTo, Queried, Format
  <2>2. asked.kind = "historical" =>
           token' \in Nat /\ token' <= now' /\ Sorts(raw_bars, UpTo(token))'
    <3> SUFFICES ASSUME asked.kind = "historical"
                 PROVE  token' \in Nat /\ token' <= now' /\ Sorts(raw_bars, UpTo(token))'
      OBVIOUS
    <3>1. token \in Nat /\ token <= now /\ Sorts(raw_bars, UpTo(token))
      BY <1>3 DEF PagesInvariant
    <3>2. now \in Nat /\ now' \in Nat
      BY <1>2, <1>3, PublishedFacts
    <3>3. QED
      BY <1>3, <2>1, <3>1, <3>2
  <2>3. QED
    BY <1>3, <2>2 DEF PagesInvariant
<1>4. CASE ReadPage
  <2>1. phase' \in {"request", "sleep", "answered", "failed"}
    BY <1>4 DEF ReadPage, Done, TooManyPages, NextPage
  <2>2. CASE phase' \in {"request", "sleep"}
    BY <1>4, <2>2, NextPageKeeps
  <2>3. CASE phase' \in {"answered", "failed"}
    <3>1. UNCHANGED <<now, asked>>
      BY <1>4 DEF ReadPage
    <3>2. QED
      BY <1>1, <1>2, <2>3, <3>1
  <2>4. QED
    BY <2>1, <2>2, <2>3
<1>5. CASE ReadLatest
  BY <1>1, <1>2, <1>5 DEF ReadLatest, Done
<1>6. CASE TransientFailure
  <2>1. /\ phase = "request" /\ phase' \in {"sleep", "failed"}
        /\ UNCHANGED <<now, asked, token, raw_bars, answer>>
    BY <1>6 DEF TransientFailure
  <2>2. now <= now'
    BY <1>2, <2>1, PublishedFacts
  <2>3. QED
    BY <1>1, <1>2, <1>3, <2>1, <2>2
<1>7. CASE Wake
  <2>1. /\ phase = "sleep" /\ phase' = "request"
        /\ UNCHANGED <<now, asked, token, raw_bars, answer>>
    BY <1>7 DEF Wake
  <2>2. now <= now'
    BY <1>2, <2>1, PublishedFacts
  <2>3. QED
    BY <1>2, <1>3, <2>1, <2>2
<1>8. CASE PermanentFailure
  BY <1>1, <1>2, <1>8 DEF PermanentFailure, Done
<1>9. CASE Tick
  <2>1. now' = now + 1 /\ now < LastTime
        /\ UNCHANGED <<asked, phase, token, raw_bars, answer>>
    BY <1>9 DEF Tick
  <2>2. now' \in Instant /\ now <= now'
    BY <1>2, <2>1, PublishedFacts DEF Instant
  <2>3. QED
    BY <1>1, <1>3, <2>1, <2>2 DEF PagesInvariant
<1>10. CASE Ended \/ UNCHANGED vars
  <2>1. UNCHANGED vars
    BY <1>10 DEF Ended
  <2>2. now <= now'
    BY <1>2, <2>1, PublishedFacts DEF vars
  <2>3. QED
    BY <1>1, <1>2, <1>3, <2>1, <2>2 DEF vars, PagesInvariant
<1>11. QED
  BY <1>4, <1>5, <1>6, <1>7, <1>8, <1>9, <1>10 DEF Next, Step

\* The last page answers, too many pages fail, any other is no step of the
\* abstract specification.
LEMMA ReadPageAnswers ==
    ASSUME PagesInvariant, ReadPage
    PROVE  \/ Caller!Answer \/ Caller!Fail
           \/ UNCHANGED <<now, asked, IF phase \in {"request", "sleep"}
                                     THEN "asked" ELSE phase, answer>>
<1>1. /\ phase = "request" /\ asked.kind = "historical"
      /\ UNCHANGED <<now, asked>> /\ answer = <<>>
      /\ asked \in Calls
  BY DEF ReadPage, PagesInvariant
<1>2. PICK n \in 0 .. Cardinality(Remaining), more \in BOOLEAN :
         LET page == SubSeq(Ascending(Remaining), 1, n)
         IN  /\ n <= asked.limit
             /\ n < Cardinality(Remaining) => more
             /\ raw_bars' = raw_bars \o page
             /\ IF ~more
                THEN /\ Done("answered", Within(raw_bars'))
                     /\ UNCHANGED <<token, attempt>>
                ELSE IF pages + 1 = MaxPages THEN TooManyPages(raw_bars')
                ELSE NextPage(IF n = 0 THEN token ELSE page[n])
  BY DEF ReadPage
<1> DEFINE page == SubSeq(Ascending(Remaining), 1, n)
           last == IF n = 0 THEN token ELSE page[n]
<1>3. /\ Sorts(raw_bars \o page, UpTo(last))
      /\ ~ (n < Cardinality(Remaining)) => UpTo(last) = UpTo(now)
  BY <1>1, PageSorted
<1>4. raw_bars' = raw_bars \o page
  BY <1>2
<1>5. CASE ~more
  <2>1. ~ (n < Cardinality(Remaining)) /\ Done("answered", Within(raw_bars'))
    BY <1>2, <1>5
  <2> HIDE DEF page, last
  <2>2. Sorts(raw_bars', UpTo(now))
    BY <1>3, <1>4, <2>1
  <2>3. Caller!WithinRange(Within(raw_bars'))
    BY <1>1, <2>2, RangeAnswered
  <2>4. phase' = "answered" /\ answer' = Within(raw_bars')
    BY <2>1 DEF Done
  <2>5. Caller!WithinRange(answer')
    BY <2>3, <2>4
  <2>6. QED
    BY <1>1, <2>4, <2>5 DEF Caller!Answer
<1>6. CASE more
  <2> HIDE DEF page, last
  <2>1. \/ TooManyPages(raw_bars')
        \/ NextPage(last)
    BY <1>2, <1>6 DEF last, page
  <2>2. CASE TooManyPages(raw_bars')
    BY <1>1, <2>2 DEF TooManyPages, Done, Caller!Fail
  <2>3. CASE NextPage(last)
    BY <1>1, <2>3 DEF NextPage
  <2>4. QED
    BY <2>1, <2>2, <2>3
<1>7. QED
  BY <1>5, <1>6

LEMMA ReadLatestAnswers ==
    ASSUME PagesInvariant, ReadLatest PROVE Caller!Answer
<1>1. /\ phase = "request" /\ asked.kind = "latest" /\ asked \in Calls
      /\ UNCHANGED <<now, asked>> /\ now \in Nat
      /\ phase' = "answered" /\ answer' = OldestFirst(raw_bars')
  BY PublishedFacts DEF ReadLatest, Done, PagesInvariant
<1> DEFINE have == Reverse(Ascending({t \in Published : t <= now}))
<1>2. PICK n \in 0 .. Len(have) : n <= asked.limit /\ raw_bars' = SubSeq(have, 1, n)
  BY DEF ReadLatest
<1>3. Caller!MostRecent(OldestFirst(SubSeq(have, 1, n)))
  BY <1>1, <1>2, LatestAnswered
<1>4. Caller!MostRecent(answer')
  BY <1>1, <1>2, <1>3
<1>5. QED
  BY <1>1, <1>4 DEF Caller!Answer

\* A call, whatever it loses and however its pages interleave with bars that are
\* published, answers in its last step with the bars the provider has then, or
\* fails; any other step changes nothing a caller sees.
THEOREM ProviderImplementsAnswer == Spec => ImplementsAnswer
<1> DEFINE status == IF phase \in {"request", "sleep"} THEN "asked" ELSE phase
<1>1. Init => Caller!Init
  BY DEF Init, Caller!Init
<1>2. ASSUME PagesInvariant, [Next]_vars
      PROVE  [Caller!Answer \/ Caller!Fail \/ Caller!Pass]_<<now, asked, status, answer>>
  <2>1. CASE ReadPage
    BY <1>2, <2>1, ReadPageAnswers
  <2>2. CASE ReadLatest
    BY <1>2, <2>2, ReadLatestAnswers
  <2>3. CASE TransientFailure
    BY <2>3 DEF TransientFailure, Caller!Fail
  <2>4. CASE Wake
    BY <2>4 DEF Wake
  <2>5. CASE PermanentFailure
    BY <1>2, <2>5 DEF PermanentFailure, Done, Caller!Fail, PagesInvariant
  <2>6. CASE Tick
    <3>1. now \in Nat
      BY <1>2, PublishedFacts DEF PagesInvariant
    <3>2. QED
      BY <2>6, <3>1 DEF Tick, Caller!Pass
  <2>7. CASE Ended \/ UNCHANGED vars
    BY <2>7 DEF Ended, vars
  <2>8. QED
    BY <1>2, <2>1, <2>2, <2>3, <2>4, <2>5, <2>6, <2>7 DEF Next, Step
<1>3. Spec => []PagesInvariant
  BY PagesInvariantInit, PagesInvariantNext, PTL DEF Spec
<1>4. QED
  BY <1>1, <1>2, <1>3, PTL DEF Spec, ImplementsAnswer, Caller!Spec
=============================================================================
