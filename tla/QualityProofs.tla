--------------------------- MODULE QualityProofs ---------------------------
(***************************************************************************)
(* The checks of a payload are right for every payload, range, cadence and *)
(* threshold.                                                              *)
(*                                                                         *)
(* The dict of normalize_bars is, after each of its iterations, the last   *)
(* entry of each timestamp seen; its values, sorted, are strictly          *)
(* increasing; and so what lies between two neighbours has no bar.         *)
(***************************************************************************)
EXTENDS QualityChecks, SequenceTheorems, WellFoundedInduction, TLAPS

\* A set of natural numbers that is not empty has a least element.
LEMMA NatMin ==
    ASSUME NEW S, S \subseteq Nat, S # {}
    PROVE  \E m \in S : \A n \in S : m <= n
<1> DEFINE R == {p \in Nat \X Nat : p[1] < p[2]}
<1>1. IsWellFoundedOn(R, Nat)
  BY NatLessThanWellFounded DEF OpToRel
<1>2. \A m, n \in Nat : <<n, m>> \in R <=> n < m
  OBVIOUS
<1> HIDE DEF R
<1>3. PICK m \in S : \A n \in S : ~ (<<n, m>> \in R)
  BY <1>1, WFMin
<1>4. ASSUME NEW n \in S PROVE m <= n
  <2>1. m \in Nat /\ n \in Nat
    OBVIOUS
  <2>2. ~ (n < m)
    BY <1>2, <1>3, <2>1
  <2>3. QED
    BY <2>1, <2>2
<1>5. QED
  BY <1>4

-----------------------------------------------------------------------------
\* Sorting.

\* No two bars have one timestamp.
Distinct(d) == \A i, j \in DOMAIN d : i # j => d[i].ts # d[j].ts

Sorted(s, d) ==
    /\ s \in [DOMAIN d -> Range(d)]
    /\ Range(s) = Range(d)
    /\ \A i, j \in DOMAIN d : i < j => s[i].ts < s[j].ts

\* n bars with distinct timestamps.
Sample(d, n) ==
    DOMAIN d = 1 .. n /\ (\A i \in 1 .. n : d[i].ts \in Nat) /\ Distinct(d)

Sortable(n) == \A d : Sample(d, n) => \E s : Sorted(s, d)

\* The earliest bar goes first, the others follow in order.
LEMMA SortableNext ==
    ASSUME NEW m \in Nat, m # 0, Sortable(m - 1)
    PROVE  Sortable(m)
<1> SUFFICES ASSUME NEW d, Sample(d, m) PROVE \E s : Sorted(s, d)
  BY DEF Sortable
<1>1. /\ DOMAIN d = 1 .. m /\ \A i \in 1 .. m : d[i].ts \in Nat
      /\ \A i, j \in 1 .. m : i # j => d[i].ts # d[j].ts
  BY DEF Sample, Distinct
<1> DEFINE T == {d[i].ts : i \in 1 .. m}
<1>2. T \subseteq Nat /\ T # {}
  <2>1. 1 \in 1 .. m
    OBVIOUS
  <2>2. QED
    BY <1>1, <2>1
<1>3. PICK t \in T : \A u \in T : t <= u
  BY <1>2, NatMin, Zenon
<1>4. PICK p \in 1 .. m : t = d[p].ts
  OBVIOUS
<1>5. \A i \in 1 .. m : i # p => d[p].ts < d[i].ts
  <2>1. TAKE i \in 1 .. m
  <2>2. d[i].ts \in T
    OBVIOUS
  <2>3. d[p].ts <= d[i].ts
    BY <1>3, <1>4, <2>2
  <2>4. QED
    BY <1>1, <2>3
<1> HIDE DEF T
<1> DEFINE at(i) == IF i < p THEN i ELSE i + 1
           rest == [i \in 1 .. m - 1 |-> d[at(i)]]
<1>6. /\ \A i \in 1 .. m - 1 : at(i) \in 1 .. m /\ at(i) # p
      /\ \A i, j \in 1 .. m - 1 : i # j => at(i) # at(j)
      /\ \A k \in 1 .. m : k # p => \E i \in 1 .. m - 1 : at(i) = k
  <2>1. \A i \in 1 .. m - 1 : at(i) \in 1 .. m /\ at(i) # p
    OBVIOUS
  <2>2. \A i, j \in 1 .. m - 1 : i # j => at(i) # at(j)
    OBVIOUS
  <2>3. ASSUME NEW k \in 1 .. m, k # p PROVE \E i \in 1 .. m - 1 : at(i) = k
    <3>1. CASE k < p
      <4>1. k \in 1 .. m - 1 /\ at(k) = k
        BY <3>1
      <4>2. QED
        BY <4>1
    <3>2. CASE ~ (k < p)
      <4>1. k - 1 \in 1 .. m - 1 /\ at(k - 1) = k
        BY <2>3, <3>2
      <4>2. QED
        BY <4>1
    <3>3. QED
      BY <3>1, <3>2
  <2>4. QED
    BY <2>1, <2>2, <2>3
<1> HIDE DEF at
<1>7. DOMAIN rest = 1 .. m - 1 /\ \A i \in 1 .. m - 1 : rest[i] = d[at(i)]
  OBVIOUS
<1> HIDE DEF rest
<1>8. Sample(rest, m - 1)
  <2>1. \A i \in 1 .. m - 1 : rest[i].ts \in Nat
    BY <1>1, <1>6, <1>7
  <2>2. Distinct(rest)
    BY <1>1, <1>6, <1>7 DEF Distinct
  <2>3. QED
    BY <1>7, <2>1, <2>2 DEF Sample
<1>9. PICK r : Sorted(r, rest)
  BY <1>8 DEF Sortable
<1>10. /\ DOMAIN r = 1 .. m - 1
       /\ \A i \in 1 .. m - 1 : \E k \in 1 .. m : k # p /\ r[i] = d[k]
       /\ \A k \in 1 .. m : k # p => \E i \in 1 .. m - 1 : r[i] = d[k]
       /\ \A i, j \in 1 .. m - 1 : i < j => r[i].ts < r[j].ts
  <2>1. /\ DOMAIN r = 1 .. m - 1 /\ Range(r) = Range(rest)
        /\ \A i, j \in 1 .. m - 1 : i < j => r[i].ts < r[j].ts
    BY <1>7, <1>9 DEF Sorted
  <2>2. ASSUME NEW i \in 1 .. m - 1 PROVE \E k \in 1 .. m : k # p /\ r[i] = d[k]
    <3>1. r[i] \in Range(rest)
      BY <2>1 DEF Range
    <3>2. PICK q \in 1 .. m - 1 : r[i] = rest[q]
      BY <1>7, <3>1 DEF Range
    <3>3. QED
      BY <1>6, <1>7, <3>2
  <2>3. ASSUME NEW k \in 1 .. m, k # p PROVE \E i \in 1 .. m - 1 : r[i] = d[k]
    <3>1. PICK q \in 1 .. m - 1 : at(q) = k
      BY <1>6, <2>3
    <3>2. d[k] \in Range(rest)
      BY <1>7, <3>1 DEF Range
    <3>3. QED
      BY <2>1, <3>2 DEF Range
  <2>4. QED
    BY <2>1, <2>2, <2>3
<1> DEFINE s == [i \in 1 .. m |-> IF i = 1 THEN d[p] ELSE r[i - 1]]
<1>11. DOMAIN s = 1 .. m /\ s[1] = d[p] /\ \A i \in 2 .. m : s[i] = r[i - 1]
  OBVIOUS
<1> HIDE DEF s
<1>12. \A i \in 1 .. m : \E k \in 1 .. m : s[i] = d[k] /\ (k = p <=> i = 1)
  <2>1. TAKE i \in 1 .. m
  <2>2. CASE i = 1
    BY <1>11, <2>2
  <2>3. CASE i # 1
    <3>1. i \in 2 .. m /\ i - 1 \in 1 .. m - 1
      BY <2>3
    <3>2. QED
      BY <1>10, <1>11, <2>3, <3>1
  <2>4. QED
    BY <2>2, <2>3
<1>13. \A k \in 1 .. m : \E i \in 1 .. m : s[i] = d[k]
  <2>1. TAKE k \in 1 .. m
  <2>2. CASE k = p
    BY <1>11, <2>2
  <2>3. CASE k # p
    <3>1. PICK i \in 1 .. m - 1 : r[i] = d[k]
      BY <1>10, <2>3
    <3>2. i + 1 \in 2 .. m /\ i + 1 \in 1 .. m /\ (i + 1) - 1 = i
      OBVIOUS
    <3>3. QED
      BY <1>11, <3>1, <3>2
  <2>4. QED
    BY <2>2, <2>3
<1>14. \A i, j \in 1 .. m : i < j => s[i].ts < s[j].ts
  <2>1. TAKE i, j \in 1 .. m
  <2>2. HAVE i < j
  <2>3. CASE i = 1
    <3>1. j # 1
      BY <2>2, <2>3
    <3>2. PICK k \in 1 .. m : s[j] = d[k] /\ k # p
      BY <1>12, <3>1
    <3>3. QED
      BY <1>5, <1>11, <2>3, <3>2
  <2>4. CASE i # 1
    <3>1. /\ i \in 2 .. m /\ j \in 2 .. m
          /\ i - 1 \in 1 .. m - 1 /\ j - 1 \in 1 .. m - 1 /\ i - 1 < j - 1
      BY <2>2, <2>4
    <3>2. QED
      BY <1>10, <1>11, <3>1
  <2>5. QED
    BY <2>3, <2>4
<1>15. Range(s) = Range(d)
  <2>1. ASSUME NEW x \in Range(s) PROVE x \in Range(d)
    <3>1. PICK i \in 1 .. m : x = s[i]
      BY <1>11 DEF Range
    <3>2. PICK k \in 1 .. m : s[i] = d[k]
      BY <1>12
    <3>3. QED
      BY <1>1, <3>1, <3>2 DEF Range
  <2>2. ASSUME NEW x \in Range(d) PROVE x \in Range(s)
    <3>1. PICK k \in 1 .. m : x = d[k]
      BY <1>1 DEF Range
    <3>2. PICK i \in 1 .. m : s[i] = d[k]
      BY <1>13
    <3>3. QED
      BY <1>11, <3>1, <3>2 DEF Range
  <2>3. QED
    BY <2>1, <2>2
<1>16. s \in [DOMAIN d -> Range(d)]
  <2>1. s = [i \in 1 .. m |-> s[i]]
    BY DEF s
  <2>2. \A i \in 1 .. m : s[i] \in Range(d)
    BY <1>11, <1>15 DEF Range
  <2>3. QED
    BY <1>1, <2>1, <2>2
<1>17. QED
  BY <1>1, <1>14, <1>15, <1>16 DEF Sorted

\* Bars with distinct timestamps can be sorted, and Ordered sorts them.
LEMMA OrderedSorts ==
    ASSUME NEW n \in Nat, NEW d, Sample(d, n)
    PROVE  Sorted(Ordered(d), d)
<1> DEFINE S == {k \in Nat : ~ Sortable(k)}
<1>1. S = {}
  <2> SUFFICES ASSUME S # {} PROVE FALSE
    OBVIOUS
  <2>1. PICK m \in S : \A k \in S : m <= k
    <3>1. S \subseteq Nat
      OBVIOUS
    <3> HIDE DEF S
    <3>2. QED
      BY <3>1, NatMin, Zenon
  <2>2. m # 0
    <3>1. Sortable(0)
      <4> SUFFICES ASSUME NEW e, Sample(e, 0)
                   PROVE  Sorted([i \in {} |-> e[i]], e)
        BY DEF Sortable
      <4> DEFINE none == [i \in {} |-> e[i]]
      <4>1. DOMAIN e = {} /\ none \in [{} -> {}] /\ DOMAIN none = {}
        BY DEF Sample
      <4> HIDE DEF none
      <4>2. Range(e) = {} /\ Range(none) = {}
        BY <4>1 DEF Range
      <4>3. Sorted(none, e)
        BY <4>1, <4>2 DEF Sorted
      <4>4. QED
        BY <4>3 DEF none
    <3>2. QED
      BY <3>1
  <2>3. m - 1 \in Nat /\ ~ (m <= m - 1)
    BY <2>2
  <2>4. Sortable(m - 1)
    BY <2>1, <2>3
  <2>5. Sortable(m)
    BY <2>2, <2>4, SortableNext
  <2>6. QED
    BY <2>5
<1>2. Sortable(n)
  BY <1>1
<1>3. PICK s : Sorted(s, d)
  BY <1>2 DEF Sortable
<1> DEFINE Q(x) == Range(x) = Range(d) /\ \A i, j \in DOMAIN d : i < j => x[i].ts < x[j].ts
<1>4. \E x \in [DOMAIN d -> Range(d)] : Q(x)
  BY <1>3 DEF Sorted
<1> DEFINE o == CHOOSE x \in [DOMAIN d -> Range(d)] : Q(x)
<1>5. o \in [DOMAIN d -> Range(d)] /\ Q(o)
  <2> HIDE DEF Q
  <2>1. QED
    BY <1>4
<1>6. Ordered(d) = o
  BY DEF Ordered
<1>7. QED
  BY <1>5, <1>6 DEF Sorted

-----------------------------------------------------------------------------
\* The payload, entry by entry.

Wanted == {b \in Bars : request[1] <= b.ts /\ b.ts <= request[2]}

\* The dict d after the first n entries of e.
Kept(d, e, n) ==
    /\ d \in Seq(Bars)
    /\ Distinct(d)
    /\ \A i \in DOMAIN d : \E k \in 1 .. n :
          d[i] = e[k] /\ \A m \in 1 .. n : e[m].ts = d[i].ts => m <= k
    /\ \A k \in 1 .. n : \E i \in DOMAIN d : d[i].ts = e[k].ts
    /\ \A i, j \in DOMAIN d :
          i < j => \E k \in 1 .. n :
                      e[k].ts = d[i].ts /\ \A m \in 1 .. k : e[m].ts # d[j].ts

\* What Check writes.
Report ==
    LET ordered == Ordered(deduped)
        known == timeframe \in {"1d", "intraday"} /\ ordered # <<>>
    IN  [empty |-> deduped = <<>>,
         days |-> IF timeframe = "1d" THEN DailyGaps(ordered) ELSE {},
         slots |-> IF timeframe = "intraday" THEN IntradayGaps(ordered) ELSE {},
         jumps |-> PriceJumps(ordered),
         leading |-> IF known THEN Leading(ordered) ELSE {},
         trailing |-> IF known THEN Trailing(ordered) ELSE {}]

PayloadInvariant ==
    /\ request \in Requests
    /\ entries \in Payloads(request)
    /\ phase \in {"map", "dedupe", "check", "checked", "rejected"}
    /\ phase = "map" =>
          /\ deduped = <<>>
          /\ next \in 1 .. Len(entries) + 1
          /\ parsed \in Seq(Wanted) /\ Len(parsed) = next - 1
          /\ \A k \in 1 .. next - 1 : parsed[k] = entries[k]
    /\ phase \in {"dedupe", "check", "checked"} =>
          entries \in Seq(Wanted)
    /\ phase = "dedupe" =>
          /\ parsed = entries
          /\ next \in 1 .. Len(entries) + 1
          /\ Kept(deduped, entries, next - 1)
    /\ phase \in {"check", "checked"} => Kept(deduped, entries, Len(entries))
    /\ phase = "checked" => report = Report

\* A payload is a sequence of bars in the range and of malformed entries.
LEMMA PayloadFacts ==
    ASSUME request \in Requests, entries \in Payloads(request)
    PROVE  /\ entries \in Seq(Wanted \cup {Malformed})
           /\ Len(entries) \in Nat
           /\ DOMAIN entries = 1 .. Len(entries)
<1>1. PICK n \in 0 .. MaxEntries : entries \in [1 .. n -> Wanted \cup {Malformed}]
  BY DEF Payloads, Wanted
<1>2. n \in Nat
  BY QualityAssumption
<1>3. entries \in Seq(Wanted \cup {Malformed})
  BY <1>1, <1>2, SeqDef
<1>4. QED
  BY <1>3, LenProperties

\* One iteration over the parsed bars.
LEMMA KeepKept ==
    ASSUME NEW d, NEW e, NEW n \in Nat, Kept(d, e, n), e[n + 1] \in Bars
    PROVE  Kept(Keep(d, e[n + 1]), e, n + 1)
<1> DEFINE b == e[n + 1]
           new == Keep(d, b)
<1>1. d \in Seq(Bars) /\ DOMAIN d = 1 .. Len(d) /\ Len(d) \in Nat
  BY LenProperties DEF Kept
<1>2. /\ \A k \in 1 .. n : k \in 1 .. n + 1 /\ k <= n + 1
      /\ n + 1 \in 1 .. n + 1
      /\ \A k \in 1 .. n + 1 : k \in 1 .. n \/ k = n + 1
  OBVIOUS
<1> HIDE DEF b
<1>3. ASSUME \E i \in DOMAIN d : d[i].ts = b.ts
      PROVE  Kept(new, e, n + 1)
  <2>1. new = [i \in DOMAIN d |-> IF d[i].ts = b.ts THEN b ELSE d[i]]
    BY <1>3 DEF Keep
  <2> HIDE DEF new
  <2>2. /\ DOMAIN new = DOMAIN d
        /\ \A i \in DOMAIN d : new[i] = IF d[i].ts = b.ts THEN b ELSE d[i]
        /\ \A i \in DOMAIN d : new[i].ts = d[i].ts
    BY <2>1
  <2>3. new \in Seq(Bars)
    <3>1. b \in Bars
      BY DEF b
    <3>2. \A i \in DOMAIN d : d[i] \in Bars
      BY <1>1, ElementOfSeq
    <3>3. new \in [1 .. Len(d) -> Bars]
      BY <1>1, <2>1, <3>1, <3>2
    <3>4. QED
      BY <1>1, <3>3, SeqDef
  <2>4. Distinct(new)
    BY <2>2 DEF Distinct, Kept
  <2>5. ASSUME NEW i \in DOMAIN new
        PROVE  \E k \in 1 .. n + 1 :
                  new[i] = e[k]
                  /\ \A m \in 1 .. n + 1 : e[m].ts = new[i].ts => m <= k
    <3>1. CASE d[i].ts = b.ts
      <4>1. new[i] = e[n + 1]
        BY <2>2, <3>1 DEF b
      <4>2. QED
        BY <1>2, <4>1
    <3>2. CASE d[i].ts # b.ts
      <4>1. PICK k \in 1 .. n :
              d[i] = e[k] /\ \A m \in 1 .. n : e[m].ts = d[i].ts => m <= k
        BY <2>2 DEF Kept
      <4>2. new[i] = e[k] /\ e[n + 1].ts # d[i].ts /\ new[i].ts = d[i].ts
        BY <2>2, <3>2, <4>1 DEF b
      <4>3. QED
        BY <1>2, <4>1, <4>2
    <3>3. QED
      BY <3>1, <3>2
  <2>6. ASSUME NEW k \in 1 .. n + 1
        PROVE  \E i \in DOMAIN new : new[i].ts = e[k].ts
    <3>1. CASE k \in 1 .. n
      <4>1. PICK i \in DOMAIN d : d[i].ts = e[k].ts
        BY <3>1 DEF Kept
      <4>2. QED
        BY <2>2, <4>1
    <3>2. CASE k = n + 1
      <4>1. PICK i \in DOMAIN d : d[i].ts = b.ts
        BY <1>3
      <4>2. i \in DOMAIN new /\ new[i].ts = e[n + 1].ts
        BY <2>2, <4>1 DEF b
      <4>3. QED
        BY <3>2, <4>2
    <3>3. QED
      BY <1>2, <3>1, <3>2
  <2>7. ASSUME NEW i \in DOMAIN new, NEW j \in DOMAIN new, i < j
        PROVE  \E k \in 1 .. n + 1 :
                  e[k].ts = new[i].ts /\ \A m \in 1 .. k : e[m].ts # new[j].ts
    BY <1>2, <2>2, <2>7 DEF Kept
  <2>8. QED
    BY <2>3, <2>4, <2>5, <2>6, <2>7 DEF Kept
<1>4. ASSUME ~ \E i \in DOMAIN d : d[i].ts = b.ts
      PROVE  Kept(new, e, n + 1)
  <2> DEFINE last == Len(d) + 1
  <2>1. new = Append(d, b)
    BY <1>4 DEF Keep
  <2>2. b \in Bars
    BY DEF b
  <2> HIDE DEF new
  <2>3. /\ new \in Seq(Bars)
        /\ DOMAIN new = DOMAIN d \cup {last}
        /\ new[last] = b
        /\ \A i \in DOMAIN d : new[i] = d[i] /\ i < last /\ i # last
    BY <1>1, <2>1, <2>2
  <2> HIDE DEF last
  <2>4. Distinct(new)
    BY <1>4, <2>3 DEF Distinct, Kept
  <2>5. ASSUME NEW i \in DOMAIN new
        PROVE  \E k \in 1 .. n + 1 :
                  new[i] = e[k]
                  /\ \A m \in 1 .. n + 1 : e[m].ts = new[i].ts => m <= k
    <3>1. CASE i = last
      <4>1. new[i] = e[n + 1]
        BY <2>3, <3>1 DEF b
      <4>2. QED
        BY <1>2, <4>1
    <3>2. CASE i \in DOMAIN d
      <4>1. PICK k \in 1 .. n :
              d[i] = e[k] /\ \A m \in 1 .. n : e[m].ts = d[i].ts => m <= k
        BY <3>2 DEF Kept
      <4>2. new[i] = e[k] /\ e[n + 1].ts # d[i].ts /\ new[i] = d[i]
        BY <1>4, <2>3, <3>2, <4>1 DEF b
      <4>3. QED
        BY <1>2, <4>1, <4>2
    <3>3. QED
      BY <2>3, <3>1, <3>2
  <2>6. ASSUME NEW k \in 1 .. n + 1
        PROVE  \E i \in DOMAIN new : new[i].ts = e[k].ts
    <3>1. CASE k \in 1 .. n
      <4>1. PICK i \in DOMAIN d : d[i].ts = e[k].ts
        BY <3>1 DEF Kept
      <4>2. QED
        BY <2>3, <4>1
    <3>2. CASE k = n + 1
      BY <2>3, <3>2 DEF b
    <3>3. QED
      BY <1>2, <3>1, <3>2
  <2>7. ASSUME NEW i \in DOMAIN new, NEW j \in DOMAIN new, i < j
        PROVE  \E k \in 1 .. n + 1 :
                  e[k].ts = new[i].ts /\ \A m \in 1 .. k : e[m].ts # new[j].ts
    <3>1. CASE i \in DOMAIN d /\ j \in DOMAIN d
      <4>1. PICK k \in 1 .. n :
               e[k].ts = d[i].ts /\ \A m \in 1 .. k : e[m].ts # d[j].ts
        BY <2>7, <3>1 DEF Kept
      <4>2. QED
        BY <1>2, <2>3, <3>1, <4>1
    <3>2. CASE i \in DOMAIN d /\ j = last
      <4>1. PICK k \in 1 .. n : d[i] = e[k]
        BY <3>2 DEF Kept
      <4>2. \A m \in 1 .. k : m \in 1 .. n
        OBVIOUS
      <4>3. \A m \in 1 .. n : e[m].ts # b.ts
        BY <1>4 DEF Kept
      <4>4. QED
        BY <1>2, <2>3, <3>2, <4>1, <4>2, <4>3
    <3>3. CASE i = last
      <4>1. j \in DOMAIN d \/ j = last
        BY <2>3
      <4>2. j \in Int /\ last \in Int
        BY <1>1, <4>1 DEF last
      <4>3. QED
        BY <2>3, <2>7, <3>3, <4>1, <4>2
    <3>4. QED
      BY <2>3, <3>1, <3>2, <3>3
  <2>8. QED
    BY <2>3, <2>4, <2>5, <2>6, <2>7 DEF Kept
<1>5. QED
  BY <1>3, <1>4 DEF b

LEMMA PayloadInvariantInit == Init => PayloadInvariant
<1> SUFFICES ASSUME Init PROVE PayloadInvariant
  OBVIOUS
<1>1. request \in Requests /\ entries \in Payloads(request)
  BY DEF Init
<1>2. Len(entries) \in Nat
  BY <1>1, PayloadFacts
<1>3. parsed \in Seq(Wanted) /\ Len(parsed) = 0
  BY DEF Init
<1>4. next = 1 /\ 1 \in 1 .. Len(entries) + 1 /\ 1 .. next - 1 = {}
  BY <1>2 DEF Init
<1>5. QED
  BY <1>1, <1>3, <1>4 DEF Init, PayloadInvariant

LEMMA PayloadInvariantNext ==
    PayloadInvariant /\ [Next]_vars => PayloadInvariant'
<1> SUFFICES ASSUME PayloadInvariant, [Next]_vars PROVE PayloadInvariant'
  OBVIOUS
<1>1. /\ request \in Requests /\ entries \in Payloads(request)
      /\ entries \in Seq(Wanted \cup {Malformed})
      /\ Len(entries) \in Nat /\ DOMAIN entries = 1 .. Len(entries)
  BY PayloadFacts DEF PayloadInvariant
<1>2. ASSUME MapEntry PROVE PayloadInvariant'
  <2>1. /\ phase = "map" /\ next <= Len(entries) /\ next \in 1 .. Len(entries)
        /\ parsed \in Seq(Wanted) /\ Len(parsed) = next - 1
        /\ \A k \in 1 .. next - 1 : parsed[k] = entries[k]
        /\ deduped = <<>>
        /\ UNCHANGED <<request, entries, deduped>> /\ Wanted' = Wanted
    BY <1>1, <1>2 DEF MapEntry, PayloadInvariant, Wanted
  <2>2. CASE entries[next] = Malformed
    BY <1>1, <1>2, <2>1, <2>2 DEF MapEntry, PayloadInvariant
  <2>3. CASE entries[next] # Malformed
    <3>1. /\ parsed' = Append(parsed, entries[next]) /\ next' = next + 1
          /\ phase' = phase
      BY <1>2, <2>3 DEF MapEntry
    <3>2. entries[next] \in Wanted
      BY <1>1, <2>1, <2>3, ElementOfSeq
    <3>3. /\ parsed' \in Seq(Wanted) /\ Len(parsed') = next
          /\ parsed'[next] = entries[next]
          /\ \A k \in 1 .. next - 1 : parsed'[k] = parsed[k]
      BY <2>1, <3>1, <3>2
    <3>4. \A k \in 1 .. next : parsed'[k] = entries[k]
      BY <2>1, <3>3
    <3>5. next' \in 1 .. Len(entries) + 1 /\ next' - 1 = next
      BY <1>1, <2>1, <3>1
    <3>6. QED
      BY <1>1, <2>1, <3>1, <3>3, <3>4, <3>5 DEF PayloadInvariant
  <2>4. QED
    BY <2>2, <2>3
<1>3. ASSUME MapDone PROVE PayloadInvariant'
  <2>1. /\ phase = "map" /\ next = Len(entries) + 1
        /\ parsed \in Seq(Wanted) /\ Len(parsed) = next - 1
        /\ \A k \in 1 .. next - 1 : parsed[k] = entries[k]
        /\ deduped = <<>>
    BY <1>1, <1>3 DEF MapDone, PayloadInvariant
  <2>2. /\ phase' = "dedupe" /\ next' = 1
        /\ UNCHANGED <<request, entries, parsed, deduped>> /\ Wanted' = Wanted
    BY <1>3 DEF MapDone, Wanted
  <2>3. parsed = entries
    <3>1. parsed \in Seq(Wanted \cup {Malformed})
      BY <2>1, SeqMonotonic
    <3>2. Len(parsed) = Len(entries) /\ 1 .. Len(parsed) = 1 .. next - 1
      BY <1>1, <2>1
    <3>3. QED
      BY <1>1, <2>1, <3>1, <3>2, SeqEqual
  <2>4. Kept(<<>>, entries, 0)
    BY DEF Kept, Distinct
  <2>5. 1 \in 1 .. Len(entries) + 1 /\ 1 - 1 = 0
    BY <1>1
  <2>6. entries \in Seq(Wanted)
    BY <2>1, <2>3
  <2>7. QED
    BY <1>1, <2>1, <2>2, <2>3, <2>4, <2>5, <2>6 DEF PayloadInvariant
<1>4. ASSUME DedupeBar PROVE PayloadInvariant'
  <2>1. /\ phase = "dedupe" /\ parsed = entries /\ entries \in Seq(Wanted)
        /\ next \in 1 .. Len(entries)
        /\ Kept(deduped, entries, next - 1)
    BY <1>1, <1>4 DEF DedupeBar, PayloadInvariant
  <2>2. /\ deduped' = Keep(deduped, entries[next]) /\ next' = next + 1
        /\ UNCHANGED <<request, entries, parsed, phase>> /\ Wanted' = Wanted
    BY <1>4, <2>1 DEF DedupeBar, Wanted
  <2>3. Kept(deduped', entries, next)
    <3> DEFINE n == next - 1
    <3>1. n \in Nat /\ n + 1 = next
      BY <2>1
    <3>2. entries[next] \in Bars
      BY <2>1, ElementOfSeq DEF Wanted
    <3>3. Kept(deduped, entries, n)
      BY <2>1
    <3> HIDE DEF n
    <3>4. Kept(Keep(deduped, entries[n + 1]), entries, n + 1)
      BY <3>1, <3>2, <3>3, KeepKept
    <3>5. QED
      BY <2>2, <3>1, <3>4
  <2>4. next' \in 1 .. Len(entries) + 1 /\ next' - 1 = next
    BY <1>1, <2>1, <2>2
  <2>5. QED
    BY <1>1, <2>1, <2>2, <2>3, <2>4 DEF PayloadInvariant
<1>5. ASSUME DedupeDone PROVE PayloadInvariant'
  <2>1. /\ phase = "dedupe" /\ parsed = entries /\ entries \in Seq(Wanted)
        /\ next - 1 = Len(entries) /\ Kept(deduped, entries, next - 1)
    BY <1>1, <1>5 DEF DedupeDone, PayloadInvariant
  <2>2. /\ phase' = "check"
        /\ UNCHANGED <<request, entries, parsed, deduped>> /\ Wanted' = Wanted
    BY <1>5 DEF DedupeDone, Wanted
  <2>3. QED
    BY <1>1, <2>1, <2>2 DEF PayloadInvariant
<1>6. ASSUME Check PROVE PayloadInvariant'
  <2>1. /\ phase = "check" /\ phase' = "checked" /\ report' = Report
        /\ UNCHANGED <<timeframe, request, entries, deduped>> /\ Wanted' = Wanted
    BY <1>6 DEF Check, Report, Wanted
  <2>2. Report' = Report
    BY <2>1 DEF Report, Leading, Trailing
  <2>3. QED
    BY <1>1, <2>1, <2>2 DEF PayloadInvariant
<1>7. ASSUME UNCHANGED vars PROVE PayloadInvariant'
  <2>1. Wanted' = Wanted /\ Report' = Report
    BY <1>7 DEF vars, Wanted, Report, Leading, Trailing
  <2>2. QED
    BY <1>7, <2>1 DEF vars, PayloadInvariant
<1>8. QED
  BY <1>2, <1>3, <1>4, <1>5, <1>6, <1>7 DEF Next, Finished

LEMMA PayloadInvariantHolds == Spec => []PayloadInvariant
BY PayloadInvariantInit, PayloadInvariantNext, PTL DEF Spec

\* A payload becomes one bar a timestamp, the last one sent.
THEOREM QualityNormalizedOnce == Spec => []NormalizedOnce
<1>1. PayloadInvariant => NormalizedOnce
  <2> SUFFICES ASSUME PayloadInvariant, phase = "checked" PROVE NormalizedOnce
    BY DEF NormalizedOnce
  <2>1. DOMAIN entries = 1 .. Len(entries) /\ Kept(deduped, entries, Len(entries))
    BY PayloadFacts DEF PayloadInvariant
  <2>2. \A i, j \in DOMAIN deduped : i # j => deduped[i].ts # deduped[j].ts
    BY <2>1 DEF Kept, Distinct
  <2>3. ASSUME NEW i \in DOMAIN deduped
        PROVE  LET same == {k \in DOMAIN entries : entries[k].ts = deduped[i].ts}
               IN  \E k \in same : deduped[i] = entries[k]
                                   /\ \A m \in same : m <= k
    <3>1. PICK k \in DOMAIN entries :
            /\ deduped[i] = entries[k]
            /\ \A m \in DOMAIN entries : entries[m].ts = deduped[i].ts => m <= k
      BY <2>1 DEF Kept
    <3>2. QED
      BY <3>1
  <2>4. \A k \in DOMAIN entries : entries[k].ts \in Stored
    BY <2>1 DEF Kept, Stored
  <2>5. \A i, j \in DOMAIN deduped :
           i < j => \E k \in DOMAIN entries :
                       /\ entries[k].ts = deduped[i].ts
                       /\ \A m \in 1 .. k : entries[m].ts # deduped[j].ts
    <3>1. TAKE i, j \in DOMAIN deduped
    <3>2. HAVE i < j
    <3>3. PICK k \in 1 .. Len(entries) :
             /\ entries[k].ts = deduped[i].ts
             /\ \A m \in 1 .. k : entries[m].ts # deduped[j].ts
      BY <2>1, <3>2 DEF Kept
    <3>4. QED
      BY <2>1, <3>3
  <2>6. QED
    BY <2>2, <2>3, <2>4, <2>5 DEF NormalizedOnce
<1>2. QED
  BY <1>1, PayloadInvariantHolds, PTL

-----------------------------------------------------------------------------
\* The bars in order.

\* The sorted bars: n of them, the timestamps of Stored, strictly increasing.
InOrder(o, n) ==
    /\ n \in Nat /\ DOMAIN o = 1 .. n /\ Len(o) = n
    /\ \A i \in 1 .. n : /\ o[i].ts \in Nat /\ o[i].ts \in Stored
                         /\ request[1] <= o[i].ts /\ o[i].ts <= request[2]
    /\ \A t \in Stored : \E i \in 1 .. n : o[i].ts = t
    /\ \A i, j \in 1 .. n : i < j => o[i].ts < o[j].ts

LEMMA OrderFacts ==
    ASSUME PayloadInvariant, phase = "checked"
    PROVE  /\ InOrder(Ordered(deduped), Len(deduped))
           /\ \A k \in 1 .. Len(deduped) : \E i \in 1 .. Len(deduped) :
                 Ordered(deduped)[i] = deduped[k]
           /\ \A i \in 1 .. Len(deduped) : \E k \in 1 .. Len(deduped) :
                 Ordered(deduped)[i] = deduped[k]
           /\ request[1] \in Nat /\ request[2] \in Nat /\ request[1] <= request[2]
           /\ DOMAIN deduped = 1 .. Len(deduped)
           /\ deduped = <<>> <=> Len(deduped) = 0
<1> DEFINE o == Ordered(deduped)
           n == Len(deduped)
<1>1. /\ Kept(deduped, entries, Len(entries))
      /\ entries \in Seq(Wanted)
      /\ request \in Requests
  BY DEF PayloadInvariant
<1>2. deduped \in Seq(Bars) /\ DOMAIN deduped = 1 .. n /\ n \in Nat
      /\ (deduped = <<>> <=> n = 0)
  BY <1>1, LenProperties, EmptySeq DEF Kept
<1>3. request[1] \in Nat /\ request[2] \in Nat /\ request[1] <= request[2]
  BY <1>1, QualityAssumption
<1>4. \A i \in 1 .. n : deduped[i] \in Wanted
  <2>1. TAKE i \in 1 .. n
  <2>2. PICK k \in 1 .. Len(entries) : deduped[i] = entries[k]
    BY <1>1, <1>2 DEF Kept
  <2>3. QED
    BY <1>1, <2>2, ElementOfSeq
<1>5. \A i \in 1 .. n : /\ deduped[i].ts \in Nat
                        /\ request[1] <= deduped[i].ts
                        /\ deduped[i].ts <= request[2]
  BY <1>4, QualityAssumption DEF Wanted, Bars
<1>6. Sample(deduped, n)
  BY <1>1, <1>2, <1>5 DEF Sample, Kept
<1>7. Sorted(o, deduped)
  BY <1>2, <1>6, OrderedSorts
<1> HIDE DEF o
<1>8. /\ o \in [1 .. n -> Range(deduped)] /\ Range(o) = Range(deduped)
      /\ DOMAIN o = 1 .. n
      /\ \A i, j \in 1 .. n : i < j => o[i].ts < o[j].ts
  BY <1>2, <1>7 DEF Sorted
<1>9. Len(o) = n
  BY <1>2, <1>8
<1>10. \A i \in 1 .. n : \E k \in 1 .. n : o[i] = deduped[k]
  BY <1>2, <1>8 DEF Range
<1>11. \A k \in 1 .. n : \E i \in 1 .. n : o[i] = deduped[k]
  <2>1. TAKE k \in 1 .. n
  <2>2. deduped[k] \in Range(o)
    BY <1>2, <1>8 DEF Range
  <2>3. QED
    BY <1>8, <2>2 DEF Range
<1>12. \A i \in 1 .. n : /\ o[i].ts \in Nat /\ o[i].ts \in Stored
                         /\ request[1] <= o[i].ts /\ o[i].ts <= request[2]
  <2>1. TAKE i \in 1 .. n
  <2>2. PICK k \in 1 .. n : o[i] = deduped[k]
    BY <1>10
  <2>3. deduped[k].ts \in Stored
    BY <1>2 DEF Stored
  <2>4. QED
    BY <1>5, <2>2, <2>3
<1>13. \A t \in Stored : \E i \in 1 .. n : o[i].ts = t
  <2>1. TAKE t \in Stored
  <2>2. PICK k \in 1 .. n : t = deduped[k].ts
    BY <1>2 DEF Stored
  <2>3. QED
    BY <1>11, <2>2
<1>14. InOrder(o, n)
  BY <1>2, <1>8, <1>9, <1>12, <1>13 DEF InOrder
<1>15. QED
  BY <1>2, <1>3, <1>10, <1>11, <1>14 DEF o

\* Neighbours have nothing between them.
LEMMA NeighbourFacts ==
    ASSUME NEW o, NEW n, InOrder(o, n), NEW i \in 1 .. n - 1
    PROVE  /\ i \in 1 .. n /\ i + 1 \in 1 .. n /\ i \in Int
           /\ <<o[i], o[i + 1]>> \in Neighbours(o)
           /\ o[i].ts < o[i + 1].ts
           /\ \A t \in Stored : t <= o[i].ts \/ o[i + 1].ts <= t
<1>1. n \in Nat /\ Len(o) = n
  BY DEF InOrder
<1>2. i \in 1 .. n /\ i + 1 \in 1 .. n /\ i \in Int /\ i < i + 1
  BY <1>1
<1>3. <<o[i], o[i + 1]>> \in Neighbours(o)
  BY <1>1 DEF Neighbours
<1>4. o[i].ts < o[i + 1].ts
  BY <1>2 DEF InOrder
<1>5. ASSUME NEW t \in Stored PROVE t <= o[i].ts \/ o[i + 1].ts <= t
  <2>1. PICK k \in 1 .. n : o[k].ts = t
    BY DEF InOrder
  <2>2. o[i].ts \in Nat /\ o[i + 1].ts \in Nat /\ o[k].ts \in Nat
    BY <1>2, <2>1 DEF InOrder
  <2>3. k < i \/ k = i \/ k = i + 1 \/ i + 1 < k
    BY <1>2
  <2>4. /\ k < i => o[k].ts < o[i].ts
        /\ i + 1 < k => o[i + 1].ts < o[k].ts
    BY <1>2, <2>1 DEF InOrder
  <2>5. QED
    BY <2>1, <2>2, <2>3, <2>4
<1>6. QED
  BY <1>2, <1>3, <1>4, <1>5

LEMMA NeighboursAre ==
    ASSUME NEW o, NEW n, InOrder(o, n), NEW p \in Neighbours(o)
    PROVE  \E i \in 1 .. n - 1 : p[1] = o[i] /\ p[2] = o[i + 1]
<1>1. PICK i \in 1 .. n - 1 : p = <<o[i], o[i + 1]>>
  BY DEF Neighbours, InOrder
<1>2. QED
  BY <1>1

\* What holds of an early index and not of the last one stops holding somewhere.
LEMMA Crossing ==
    ASSUME NEW P, NEW n \in Nat, NEW a \in 1 .. n, a \in P, n \notin P
    PROVE  \E i \in 1 .. n - 1 : i \in P /\ i + 1 \notin P /\ a <= i
<1> DEFINE S == {k \in a .. n : k \notin P}
<1>1. S \subseteq Nat /\ n \in S
  OBVIOUS
<1>2. PICK m \in S : \A k \in S : m <= k
  BY <1>1, NatMin, Zenon
<1>3. m # a /\ m - 1 \in a .. n /\ ~ (m <= m - 1) /\ m \in a .. n
  OBVIOUS
<1>4. m - 1 \in P
  BY <1>2, <1>3
<1>5. m - 1 \in 1 .. n - 1 /\ (m - 1) + 1 = m /\ a <= m - 1
  BY <1>3
<1>6. QED
  BY <1>4, <1>5

\* A jump is a change between bars that follow each other in time.
THEOREM QualityJumpsChronological == Spec => []JumpsChronological
<1>1. PayloadInvariant => JumpsChronological
  <2> SUFFICES ASSUME PayloadInvariant, phase = "checked",
                      NEW q \in DOMAIN deduped
               PROVE  deduped[q].ts \in report.jumps <=>
                         \E j \in DOMAIN deduped :
                            /\ deduped[j].ts < deduped[q].ts
                            /\ \A t \in Stored : t <= deduped[j].ts \/ deduped[q].ts <= t
                            /\ Change(deduped[j].close, deduped[q].close) * 100
                                  > Threshold * deduped[j].close
    BY DEF JumpsChronological
  <2> DEFINE o == Ordered(deduped)
             n == Len(deduped)
             Jump(x, y) == Change(x.close, y.close) * 100 > Threshold * x.close
  <2>1. InOrder(o, n) /\ DOMAIN deduped = 1 .. n
    BY OrderFacts
  <2>2. /\ \A k \in 1 .. n : \E i \in 1 .. n : o[i] = deduped[k]
        /\ \A i \in 1 .. n : \E k \in 1 .. n : o[i] = deduped[k]
    BY OrderFacts
  <2>3. report.jumps = PriceJumps(o)
    BY DEF PayloadInvariant, Report
  <2> HIDE DEF o
  <2>4. PriceJumps(o) = {p[2].ts : p \in {x \in Neighbours(o) : Jump(x[1], x[2])}}
    BY DEF PriceJumps
  <2> HIDE DEF Jump, n
  <2>5. \A i, k \in 1 .. n : o[i].ts = o[k].ts => i = k
    <3>1. TAKE i, k \in 1 .. n
    <3>2. /\ i < k => o[i].ts < o[k].ts
          /\ k < i => o[k].ts < o[i].ts
          /\ o[i].ts \in Nat /\ o[k].ts \in Nat
      BY <2>1 DEF InOrder
    <3>3. i \in Int /\ k \in Int
      BY <2>1 DEF InOrder
    <3>4. QED
      BY <3>2, <3>3
  <2>6. ASSUME deduped[q].ts \in report.jumps
        PROVE  \E j \in DOMAIN deduped :
                  /\ deduped[j].ts < deduped[q].ts
                  /\ \A t \in Stored : t <= deduped[j].ts \/ deduped[q].ts <= t
                  /\ Jump(deduped[j], deduped[q])
    <3>1. PICK p \in Neighbours(o) : Jump(p[1], p[2]) /\ p[2].ts = deduped[q].ts
      BY <2>3, <2>4, <2>6
    <3>2. PICK i \in 1 .. n - 1 : p[1] = o[i] /\ p[2] = o[i + 1]
      BY <2>1, NeighboursAre
    <3>3. /\ i \in 1 .. n /\ i + 1 \in 1 .. n
          /\ o[i].ts < o[i + 1].ts
          /\ \A t \in Stored : t <= o[i].ts \/ o[i + 1].ts <= t
      BY <2>1, <3>2, NeighbourFacts
    <3>4. PICK j \in 1 .. n : o[i] = deduped[j]
      BY <2>2, <3>3
    <3>5. PICK k \in 1 .. n : o[k] = deduped[q]
      BY <2>1, <2>2
    <3>6. o[i + 1] = deduped[q]
      BY <2>5, <3>1, <3>2, <3>3, <3>5
    <3>7. QED
      BY <2>1, <3>1, <3>2, <3>3, <3>4, <3>6
  <2>7. ASSUME NEW j \in DOMAIN deduped,
               deduped[j].ts < deduped[q].ts,
               \A t \in Stored : t <= deduped[j].ts \/ deduped[q].ts <= t,
               Jump(deduped[j], deduped[q])
        PROVE  deduped[q].ts \in report.jumps
    <3>1. PICK i \in 1 .. n : o[i] = deduped[j]
      BY <2>1, <2>2
    <3>2. PICK k \in 1 .. n : o[k] = deduped[q]
      BY <2>1, <2>2
    <3>3. /\ n \in Nat /\ o[i].ts \in Nat /\ o[k].ts \in Nat
          /\ k < i => o[k].ts < o[i].ts
      BY <2>1 DEF InOrder
    <3>4. i < k
      BY <2>7, <3>1, <3>2, <3>3
    <3>5. i \in 1 .. n - 1 /\ i + 1 \in 1 .. n
      BY <3>3, <3>4
    <3>6. o[i + 1].ts \in Stored /\ o[i + 1].ts \in Nat /\ o[i].ts < o[i + 1].ts
      BY <2>1, <3>5, NeighbourFacts DEF InOrder
    <3>7. o[k].ts <= o[i + 1].ts
      BY <2>7, <3>1, <3>2, <3>3, <3>6
    <3>8. i + 1 = k
      <4>1. i + 1 < k => o[i + 1].ts < o[k].ts
        BY <2>1, <3>5 DEF InOrder
      <4>2. QED
        BY <3>3, <3>4, <3>6, <3>7, <4>1
    <3>9. <<o[i], o[i + 1]>> \in Neighbours(o)
      BY <2>1, <3>5, NeighbourFacts
    <3>10. QED
      <4> DEFINE p == <<o[i], o[i + 1]>>
      <4>1. p[1] = deduped[j] /\ p[2] = deduped[q] /\ p \in Neighbours(o)
        BY <3>1, <3>2, <3>8, <3>9
      <4> HIDE DEF p
      <4>2. QED
        BY <2>3, <2>4, <2>7, <4>1
  <2>8. QED
    BY <2>6, <2>7 DEF Jump
<1>2. QED
  BY <1>1, PayloadInvariantHolds, PTL

-----------------------------------------------------------------------------
\* Days and slots.

LEMMA DateFacts ==
    ASSUME NEW x \in Int
    PROVE  /\ Date(x) \in Int
           /\ Date(x - DayLength) = Date(x) - 1
           /\ Date(x + DayLength) = Date(x) + 1
           /\ \A y \in Int : x <= y => Date(x) <= Date(y)
<1>1. DayLength \in Nat \ {0}
  BY QualityAssumption
<1> DEFINE L == DayLength
<1> HIDE DEF L
<1>2. L \in Nat \ {0}
  BY <1>1 DEF L
<1>3. x \div L \in Int
  BY <1>2
<1>4. (x - L) \div L = x \div L - 1
  BY <1>2
<1>5. (x + L) \div L = x \div L + 1
  BY <1>2
<1>6. ASSUME NEW y \in Int, x <= y PROVE x \div L <= y \div L
  BY <1>2, <1>6
<1>7. QED
  BY <1>3, <1>4, <1>5, <1>6 DEF Date, L

\* The days of the requested range, by where they lie among the bars.
LEMMA DaysSplit ==
    ASSUME NEW o, NEW n, InOrder(o, n), n # 0, request[1] \in Nat, request[2] \in Nat
    PROVE  LET day(i) == Date(o[i].ts)
               first == Date(request[1])
               last == Date(request[2])
           IN  /\ 1 \in 1 .. n /\ n \in 1 .. n
               /\ first \in Int /\ last \in Int
               /\ \A i \in 1 .. n : day(i) \in Int /\ first <= day(i) /\ day(i) <= last
               /\ \A i, j \in 1 .. n : i <= j => day(i) <= day(j)
               /\ \A d \in Int : \/ d < day(1)
                                 \/ \E i \in 1 .. n : d = day(i)
                                 \/ \E i \in 1 .. n - 1 : day(i) < d /\ d < day(i + 1)
                                 \/ day(n) < d
<1> DEFINE day(i) == Date(o[i].ts)
           first == Date(request[1])
           last == Date(request[2])
<1>1. n \in Nat /\ 1 \in 1 .. n /\ n \in 1 .. n
  BY DEF InOrder
<1>2. \A i \in 1 .. n : o[i].ts \in Int /\ request[1] <= o[i].ts /\ o[i].ts <= request[2]
  BY DEF InOrder
<1>3. first \in Int /\ last \in Int /\ request[1] \in Int /\ request[2] \in Int
  BY DateFacts
<1>4. \A i \in 1 .. n : day(i) \in Int /\ first <= day(i) /\ day(i) <= last
  BY <1>2, <1>3, DateFacts
<1>5. \A i, j \in 1 .. n : i <= j => day(i) <= day(j)
  <2>1. TAKE i, j \in 1 .. n
  <2>2. HAVE i <= j
  <2>3. o[i].ts <= o[j].ts
    <3>1. i < j => o[i].ts < o[j].ts
      BY DEF InOrder
    <3>2. i < j \/ i = j
      BY <1>1, <2>2
    <3>3. QED
      BY <1>2, <3>1, <3>2
  <2>4. QED
    BY <1>2, <2>3, DateFacts
<1> HIDE DEF day, first, last
<1>6. ASSUME NEW d \in Int, ~ (d < day(1)), ~ (day(n) < d),
             ~ \E i \in 1 .. n : d = day(i)
      PROVE  \E i \in 1 .. n - 1 : day(i) < d /\ d < day(i + 1)
  <2> DEFINE P == {i \in 1 .. n : day(i) < d}
  <2>1. 1 \in P /\ n \notin P
    BY <1>1, <1>4, <1>6
  <2>2. PICK i \in 1 .. n - 1 : i \in P /\ i + 1 \notin P
    <3> HIDE DEF P
    <3>1. QED
      BY <1>1, <2>1, Crossing
  <2>3. i + 1 \in 1 .. n /\ ~ (day(i + 1) < d) /\ d # day(i + 1) /\ day(i + 1) \in Int
    <3>1. i + 1 \in 1 .. n
      BY <1>1
    <3>2. QED
      BY <1>4, <1>6, <2>2, <3>1
  <2>4. QED
    BY <2>2, <2>3
<1>7. QED
  BY <1>1, <1>3, <1>4, <1>5, <1>6 DEF day, first, last

\* A daily backfill: each trading day requested has a bar or is in one report.
THEOREM QualityDaysAccounted == Spec => []DaysAccounted
<1>1. PayloadInvariant => DaysAccounted
  <2> SUFFICES ASSUME PayloadInvariant, phase = "checked", timeframe = "1d",
                      ~ report.empty
               PROVE  DaysAccounted
    BY DEF DaysAccounted
  <2> DEFINE o == Ordered(deduped)
             n == Len(deduped)
             day(i) == Date(o[i].ts)
             first == Date(request[1])
             last == Date(request[2])
             wanted == {d \in first .. last : TradingDay(d)}
             have == {Date(t) : t \in Stored}
             parts == <<have \cap wanted, report.days, report.leading,
                        report.trailing>>
  <2>1. /\ InOrder(o, n) /\ request[1] \in Nat /\ request[2] \in Nat
        /\ (deduped = <<>> <=> n = 0)
    BY OrderFacts
  <2>2. report = Report
    BY DEF PayloadInvariant
  <2>3. n # 0 /\ Len(o) = n
    BY <2>1, <2>2 DEF Report, InOrder
  <2>4. o # <<>>
    BY <2>3
  <2>5. /\ report.days = DailyGaps(o)
        /\ report.leading = Leading(o) /\ report.trailing = Trailing(o)
    BY <2>2, <2>4 DEF Report
  <2> HIDE DEF o, n
  <2>6. /\ 1 \in 1 .. n /\ n \in 1 .. n
        /\ first \in Int /\ last \in Int
        /\ \A i \in 1 .. n : day(i) \in Int /\ first <= day(i) /\ day(i) <= last
        /\ \A i, j \in 1 .. n : i <= j => day(i) <= day(j)
        /\ \A d \in Int : \/ d < day(1)
                          \/ \E i \in 1 .. n : d = day(i)
                          \/ \E i \in 1 .. n - 1 : day(i) < d /\ d < day(i + 1)
                          \/ day(n) < d
    BY <2>1, <2>3, DaysSplit
  <2>7. /\ report.leading = {d \in first .. day(1) - 1 : TradingDay(d)}
        /\ report.trailing = {d \in day(n) + 1 .. last : TradingDay(d)}
    <3>1. /\ Date(request[1] - DayLength) + 1 = first
          /\ Date(request[2] + DayLength) - 1 = last
      <4>1. request[1] \in Int /\ request[2] \in Int
        BY <2>1
      <4>2. /\ Date(request[1] - DayLength) = first - 1
            /\ Date(request[2] + DayLength) = last + 1
        BY <4>1, DateFacts
      <4> HIDE DEF first, last
      <4>3. QED
        BY <2>6, <4>2
    <3> HIDE DEF first, last
    <3>2. QED
      BY <2>3, <2>5, <3>1 DEF Leading, Trailing, MissingWeekdays
  <2>8. \A d : d \in report.days <=>
                 \E i \in 1 .. n - 1 : d \in day(i) + 1 .. day(i + 1) - 1
                                       /\ TradingDay(d)
    <3>1. ASSUME NEW d \in report.days
          PROVE  \E i \in 1 .. n - 1 : d \in day(i) + 1 .. day(i + 1) - 1
                                       /\ TradingDay(d)
      <4>1. PICK p \in Neighbours(o) : d \in MissingWeekdays(p[1].ts, p[2].ts)
        BY <2>5, <3>1 DEF DailyGaps
      <4>2. PICK i \in 1 .. n - 1 : p[1] = o[i] /\ p[2] = o[i + 1]
        BY <2>1, NeighboursAre
      <4>3. QED
        BY <4>1, <4>2 DEF MissingWeekdays
    <3>2. ASSUME NEW d, NEW i \in 1 .. n - 1,
                 d \in day(i) + 1 .. day(i + 1) - 1, TradingDay(d)
          PROVE  d \in report.days
      <4> DEFINE p == <<o[i], o[i + 1]>>
      <4>1. p \in Neighbours(o) /\ p[1] = o[i] /\ p[2] = o[i + 1]
        BY <2>1, NeighbourFacts
      <4> HIDE DEF p
      <4>2. d \in MissingWeekdays(p[1].ts, p[2].ts)
        BY <3>2, <4>1 DEF MissingWeekdays
      <4>3. QED
        BY <2>5, <4>1, <4>2 DEF DailyGaps
    <3>3. QED
      BY <3>1, <3>2
  <2>9. \A d : d \in have <=> \E i \in 1 .. n : d = day(i)
    BY <2>1 DEF InOrder
  <2>10. \A i \in 1 .. n - 1 : i \in 1 .. n /\ i + 1 \in 1 .. n
    BY <2>1 DEF InOrder
  <2>11. \A i, j \in 1 .. n : i \in Int /\ j \in Int /\ 1 <= i /\ i <= n
    BY <2>1 DEF InOrder
  <2> HIDE DEF day, first, last, have
  <2>12. /\ parts[1] = have \cap wanted /\ parts[2] = report.days
         /\ parts[3] = report.leading /\ parts[4] = report.trailing
         /\ DOMAIN parts = 1 .. 4
    OBVIOUS
  <2> HIDE DEF parts
  <2>13. wanted = UNION {parts[i] : i \in DOMAIN parts}
    <3>1. ASSUME NEW d \in wanted PROVE \E i \in 1 .. 4 : d \in parts[i]
      <4>1. d \in Int /\ first <= d /\ d <= last /\ TradingDay(d)
        BY <2>6
      <4>2. CASE d < day(1)
        <5>1. d \in parts[3]
          BY <2>6, <2>7, <2>12, <4>1, <4>2
        <5>2. QED
          BY <5>1
      <4>3. CASE day(n) < d
        <5>1. d \in parts[4]
          BY <2>6, <2>7, <2>12, <4>1, <4>3
        <5>2. QED
          BY <5>1
      <4>4. CASE \E i \in 1 .. n : d = day(i)
        <5>1. d \in parts[1]
          BY <2>9, <2>12, <4>4
        <5>2. QED
          BY <5>1
      <4>5. CASE \E i \in 1 .. n - 1 : day(i) < d /\ d < day(i + 1)
        <5>1. PICK i \in 1 .. n - 1 : day(i) < d /\ d < day(i + 1)
          BY <4>5
        <5>2. day(i) \in Int /\ day(i + 1) \in Int
          BY <2>6, <2>10
        <5>3. d \in day(i) + 1 .. day(i + 1) - 1
          BY <4>1, <5>1, <5>2
        <5>4. d \in parts[2]
          BY <2>8, <2>12, <4>1, <5>3
        <5>5. QED
          BY <5>4
      <4>6. QED
        BY <2>6, <4>1, <4>2, <4>3, <4>4, <4>5
    <3>2. ASSUME NEW i \in 1 .. 4, NEW d \in parts[i] PROVE d \in wanted
      <4>1. CASE i = 1
        BY <2>12, <4>1
      <4>2. CASE i = 2
        <5>1. PICK k \in 1 .. n - 1 : d \in day(k) + 1 .. day(k + 1) - 1 /\ TradingDay(d)
          BY <2>8, <2>12, <4>2
        <5>2. /\ day(k) \in Int /\ day(k + 1) \in Int
              /\ first <= day(k) /\ day(k + 1) <= last
          BY <2>6, <2>10
        <5>3. QED
          BY <2>6, <5>1, <5>2
      <4>3. CASE i = 3
        BY <2>6, <2>7, <2>12, <4>3
      <4>4. CASE i = 4
        BY <2>6, <2>7, <2>12, <4>4
      <4>5. QED
        BY <4>1, <4>2, <4>3, <4>4
    <3>3. QED
      BY <2>12, <3>1, <3>2
  \* Where the days of a part lie: before, among or after those of the bars.
  <2>14. \A d : /\ d \in parts[1] => \E i \in 1 .. n : d = day(i)
                /\ d \in parts[2] => \E i \in 1 .. n - 1 :
                                        d \in Int /\ day(i) < d /\ d < day(i + 1)
                /\ d \in parts[3] => d \in Int /\ d < day(1)
                /\ d \in parts[4] => d \in Int /\ day(n) < d
    <3>1. TAKE d
    <3>2. d \in parts[1] => \E i \in 1 .. n : d = day(i)
      BY <2>9, <2>12
    <3>3. ASSUME d \in parts[2]
          PROVE  \E i \in 1 .. n - 1 : d \in Int /\ day(i) < d /\ d < day(i + 1)
      <4>1. PICK i \in 1 .. n - 1 : d \in day(i) + 1 .. day(i + 1) - 1
        BY <2>8, <2>12, <3>3
      <4>2. day(i) \in Int /\ day(i + 1) \in Int
        BY <2>6, <2>10
      <4>3. QED
        BY <4>1, <4>2
    <3>4. d \in parts[3] => d \in Int /\ d < day(1)
      BY <2>6, <2>7, <2>12
    <3>5. d \in parts[4] => d \in Int /\ day(n) < d
      BY <2>6, <2>7, <2>12
    <3>6. QED
      BY <3>2, <3>3, <3>4, <3>5
  <2>15. \A i \in 1 .. n : day(1) <= day(i) /\ day(i) <= day(n)
    BY <2>6, <2>11
  <2>16. \A d : ~ (d \in parts[1] /\ d \in parts[2])
    <3> SUFFICES ASSUME NEW d, d \in parts[1], d \in parts[2] PROVE FALSE
      OBVIOUS
    <3>1. PICK i \in 1 .. n : d = day(i)
      BY <2>14
    <3>2. PICK k \in 1 .. n - 1 : day(k) < d /\ d < day(k + 1)
      BY <2>14
    <3>3. k \in 1 .. n /\ k + 1 \in 1 .. n
      BY <2>10
    <3>4. /\ day(i) \in Int /\ day(k) \in Int /\ day(k + 1) \in Int
          /\ i <= k => day(i) <= day(k)
          /\ k + 1 <= i => day(k + 1) <= day(i)
      BY <2>6, <3>3
    <3>5. i <= k \/ k + 1 <= i
      BY <2>11, <3>3
    <3>6. QED
      BY <3>1, <3>2, <3>4, <3>5
  <2>17. \A d : ~ (d \in parts[1] /\ d \in parts[3]) /\ ~ (d \in parts[1] /\ d \in parts[4])
    BY <2>6, <2>14, <2>15
  <2>18. \A d : ~ (d \in parts[2] /\ d \in parts[3]) /\ ~ (d \in parts[2] /\ d \in parts[4])
    <3> SUFFICES ASSUME NEW d, d \in parts[2] PROVE d \notin parts[3] /\ d \notin parts[4]
      OBVIOUS
    <3>1. PICK k \in 1 .. n - 1 : d \in Int /\ day(k) < d /\ d < day(k + 1)
      BY <2>14
    <3>2. /\ day(1) <= day(k) /\ day(k + 1) <= day(n)
          /\ day(1) \in Int /\ day(n) \in Int /\ day(k) \in Int /\ day(k + 1) \in Int
      BY <2>6, <2>10, <2>15
    <3>3. QED
      BY <2>14, <3>1, <3>2
  <2>19. \A d : ~ (d \in parts[3] /\ d \in parts[4])
    <3>1. day(1) \in Int /\ day(n) \in Int /\ day(1) <= day(n)
      BY <2>6, <2>15
    <3>2. QED
      BY <2>14, <3>1
  <2>20. \A i, j \in DOMAIN parts : i # j => parts[i] \cap parts[j] = {}
    <3> SUFFICES ASSUME NEW i \in 1 .. 4, NEW j \in 1 .. 4, i # j,
                        NEW d, d \in parts[i], d \in parts[j]
                 PROVE  FALSE
      BY <2>12
    <3>1. /\ i = 1 \/ i = 2 \/ i = 3 \/ i = 4
          /\ j = 1 \/ j = 2 \/ j = 3 \/ j = 4
      OBVIOUS
    <3>2. QED
      BY <2>16, <2>17, <2>18, <2>19, <3>1
  <2>21. QED
    BY <2>13, <2>20 DEF DaysAccounted, parts, have, first, last
<1>2. QED
  BY <1>1, PayloadInvariantHolds, PTL

\* Facts of the division by a cadence.
LEMMA TimesMonotone ==
    ASSUME NEW p \in Int, NEW q \in Int, NEW L \in Nat \ {0}, p <= q
    PROVE  L * p <= L * q
OBVIOUS

LEMMA TimesCancel ==
    ASSUME NEW p \in Int, NEW q \in Int, NEW L \in Nat \ {0}, L * p < L * q + L
    PROVE  p <= q
OBVIOUS

LEMMA QuotientFacts ==
    ASSUME NEW x \in Int, NEW L \in Nat \ {0}
    PROVE  /\ x \div L \in Int
           /\ L * (x \div L) <= x /\ x < L * (x \div L) + L
           /\ (L * x) % L = 0
           /\ x % L = 0 => x = L * (x \div L)
<1>1. x \div L \in Int /\ L * (x \div L) <= x /\ x < L * (x \div L) + L
  OBVIOUS
<1>2. (L * x) % L = 0
  OBVIOUS
<1>3. x % L = 0 => x = L * (x \div L)
  OBVIOUS
<1>4. QED
  BY <1>1, <1>2, <1>3

\* The slots of a gap: a number of steps after the bar before, and at least one
\* step before the next bar.
LEMMA GapSlotsAre ==
    ASSUME NEW p \in Nat, NEW c \in Nat, NEW t \in Int
    PROVE  t \in GapSlots(p, c) <=>
              p < t /\ (t - p) % Step = 0 /\ t + Step <= c
<1> DEFINE L == Step
           q == (c - p) \div L
<1>1. L \in Nat \ {0}
  BY QualityAssumption
<1>2. GapSlots(p, c) = {p + k * L : k \in 1 .. q - 1}
  BY DEF GapSlots
<1> HIDE DEF L
<1>3. q \in Int /\ L * q <= c - p /\ c - p < L * q + L
  <2>1. c - p \in Int
    OBVIOUS
  <2>2. QED
    BY <1>1, <2>1, QuotientFacts
<1> HIDE DEF q
<1>4. ASSUME t \in GapSlots(p, c)
      PROVE  p < t /\ (t - p) % L = 0 /\ t + L <= c
  <2>1. PICK k \in 1 .. q - 1 : t = p + k * L
    BY <1>2, <1>4
  <2>2. k \in Int /\ 1 <= k /\ k + 1 <= q /\ k + 1 \in Int
    BY <1>3
  <2>3. L * k \in Int /\ k * L = L * k /\ t - p = L * k
    BY <1>1, <2>1, <2>2
  <2>4. L * 1 <= L * k /\ L * (k + 1) <= L * q
    BY <1>1, <1>3, <2>2, TimesMonotone
  <2>5. (t - p) % L = 0
    BY <1>1, <2>2, <2>3, QuotientFacts
  <2>6. L * (k + 1) = L * k + L /\ L * 1 = L /\ L * q \in Int
    BY <1>1, <1>3, <2>2
  <2>7. QED
    BY <1>1, <1>3, <2>3, <2>4, <2>5, <2>6
<1>5. ASSUME p < t, (t - p) % L = 0, t + L <= c
      PROVE  t \in GapSlots(p, c)
  <2> DEFINE k == (t - p) \div L
  <2>1. t - p \in Int
    OBVIOUS
  <2>2. k \in Int /\ t - p = L * k
    BY <1>1, <1>5, <2>1, QuotientFacts
  <2> HIDE DEF k
  <2>3. L * k \in Int /\ k * L = L * k /\ L * q \in Int
        /\ L * (k + 1) = L * k + L /\ L * 0 = 0
    BY <1>1, <1>3, <2>2
  <2>4. k + 1 <= q
    <3>1. L * (k + 1) < L * q + L
      BY <1>1, <1>3, <1>5, <2>2, <2>3
    <3>2. QED
      BY <1>1, <1>3, <2>2, <3>1, TimesCancel
  <2>5. 1 <= k
    <3> SUFFICES ASSUME ~ (1 <= k) PROVE FALSE
      OBVIOUS
    <3>1. L * k <= L * 0
      BY <1>1, <2>2, TimesMonotone
    <3>2. QED
      BY <1>5, <2>2, <2>3, <3>1
  <2>6. k \in 1 .. q - 1 /\ t = p + k * L
    BY <1>3, <2>2, <2>3, <2>4, <2>5
  <2>7. QED
    BY <1>2, <2>6
<1>6. QED
  BY <1>4, <1>5 DEF L

\* An intraday slot is reported when it is between two bars of its date, in step
\* with the one before, and no bar is less than one step away.
THEOREM QualitySlotsAccounted == Spec => []SlotsAccounted
<1>1. PayloadInvariant => SlotsAccounted
  <2> SUFFICES ASSUME PayloadInvariant, phase = "checked", timeframe = "intraday",
                      NEW t \in 0 .. request[2]
               PROVE  LET today == {u \in Stored : Date(u) = Date(t)}
                      IN  t \in report.slots <=>
                             \E before \in today :
                                /\ before < t /\ (t - before) % Step = 0
                                /\ \E after \in today : t < after
                                /\ \A u \in today : u <= before \/ t + Step <= u
    BY DEF SlotsAccounted
  <2> DEFINE o == Ordered(deduped)
             n == Len(deduped)
             today == {u \in Stored : Date(u) = Date(t)}
  <2>1. InOrder(o, n) /\ request[2] \in Nat
    BY OrderFacts
  <2>2. t \in Int
    BY <2>1
  <2>3. report.slots = IntradayGaps(o)
    BY DEF PayloadInvariant, Report
  <2>4. /\ Stored \subseteq Nat
        /\ \A i \in 1 .. n : o[i].ts \in Nat /\ o[i].ts \in Stored
    BY <2>1 DEF InOrder
  <2>5. Step \in Nat \ {0}
    BY QualityAssumption
  <2> HIDE DEF o, n
  <2>6. ASSUME t \in report.slots
        PROVE  \E before \in today :
                  /\ before < t /\ (t - before) % Step = 0
                  /\ \E after \in today : t < after
                  /\ \A u \in today : u <= before \/ t + Step <= u
    <3>1. PICK p \in Neighbours(o) :
             Date(p[1].ts) = Date(p[2].ts) /\ t \in GapSlots(p[1].ts, p[2].ts)
      BY <2>3, <2>6 DEF IntradayGaps
    <3>2. PICK i \in 1 .. n - 1 : p[1] = o[i] /\ p[2] = o[i + 1]
      BY <2>1, NeighboursAre
    <3> DEFINE before == o[i].ts
               after == o[i + 1].ts
    <3>3. /\ i \in 1 .. n /\ i + 1 \in 1 .. n
          /\ \A u \in Stored : u <= before \/ after <= u
      BY <2>1, NeighbourFacts
    <3>4. before \in Nat /\ after \in Nat /\ before \in Stored /\ after \in Stored
      BY <2>4, <3>3
    <3>5. Date(before) = Date(after) /\ t \in GapSlots(before, after)
      BY <3>1, <3>2
    <3> HIDE DEF before, after
    <3>6. before < t /\ (t - before) % Step = 0 /\ t + Step <= after
      BY <2>2, <3>4, <3>5, GapSlotsAre
    <3>7. t < after
      BY <2>2, <2>5, <3>4, <3>6
    <3>8. Date(before) = Date(t) /\ Date(after) = Date(t)
      <4>1. Date(before) <= Date(t) /\ Date(t) <= Date(after)
        BY <2>2, <3>4, <3>6, <3>7, DateFacts
      <4>2. Date(before) \in Int /\ Date(t) \in Int
        BY <2>2, <3>4, DateFacts
      <4>3. QED
        BY <3>5, <4>1, <4>2
    <3>9. before \in today /\ after \in today
      BY <3>4, <3>8
    <3>10. \A u \in today : u <= before \/ t + Step <= u
      <4>1. TAKE u \in today
      <4>2. u \in Nat /\ (u <= before \/ after <= u)
        BY <2>4, <3>3
      <4>3. QED
        BY <2>2, <2>5, <3>4, <3>6, <4>2
    <3>11. QED
      BY <3>6, <3>7, <3>9, <3>10
  <2>7. ASSUME NEW before \in today, before < t, (t - before) % Step = 0,
               NEW after \in today, t < after,
               \A u \in today : u <= before \/ t + Step <= u
        PROVE  t \in report.slots
    <3>1. /\ before \in Nat /\ after \in Nat /\ before \in Stored /\ after \in Stored
          /\ Date(before) = Date(t) /\ Date(after) = Date(t)
      BY <2>4
    <3>2. PICK i \in 1 .. n : o[i].ts = before
      BY <2>1, <3>1 DEF InOrder
    <3>3. PICK j \in 1 .. n : o[j].ts = after
      BY <2>1, <3>1 DEF InOrder
    <3>4. i < j
      <4>1. j < i => o[j].ts < o[i].ts
        BY <2>1 DEF InOrder
      <4>2. i \in Int /\ j \in Int /\ before < after
        BY <2>1, <2>2, <2>7, <3>1 DEF InOrder
      <4>3. QED
        BY <3>1, <3>2, <3>3, <4>1, <4>2
    <3>5. i \in 1 .. n - 1
      BY <2>1, <3>4 DEF InOrder
    <3> DEFINE next_ts == o[i + 1].ts
    <3>6. /\ i + 1 \in 1 .. n /\ before < next_ts
          /\ \A u \in Stored : u <= before \/ next_ts <= u
          /\ <<o[i], o[i + 1]>> \in Neighbours(o)
      BY <2>1, <3>2, <3>5, NeighbourFacts
    <3>7. next_ts \in Nat /\ next_ts \in Stored
      BY <2>4, <3>6
    <3> HIDE DEF next_ts
    <3>8. next_ts <= after
      BY <2>2, <2>7, <3>1, <3>6, <3>7
    <3>9. Date(next_ts) = Date(t)
      <4>1. Date(before) <= Date(next_ts) /\ Date(next_ts) <= Date(after)
        BY <3>1, <3>6, <3>7, <3>8, DateFacts
      <4>2. Date(next_ts) \in Int /\ Date(t) \in Int
        BY <2>2, <3>7, DateFacts
      <4>3. QED
        BY <3>1, <4>1, <4>2
    <3>10. t + Step <= next_ts
      <4>1. next_ts \in today
        BY <3>7, <3>9
      <4>2. ~ (next_ts <= before)
        BY <3>1, <3>6, <3>7
      <4>3. QED
        BY <2>7, <4>1, <4>2
    <3>11. t \in GapSlots(before, next_ts)
      BY <2>2, <2>7, <3>1, <3>7, <3>10, GapSlotsAre
    <3>12. QED
      <4> DEFINE p == <<o[i], o[i + 1]>>
      <4>1. p \in Neighbours(o) /\ p[1].ts = before /\ p[2].ts = next_ts
        BY <3>2, <3>6 DEF next_ts
      <4> HIDE DEF p
      <4>2. QED
        BY <2>3, <3>1, <3>9, <3>11, <4>1 DEF IntradayGaps
  <2>8. QED
    BY <2>6, <2>7
<1>2. QED
  BY <1>1, PayloadInvariantHolds, PTL
=============================================================================
