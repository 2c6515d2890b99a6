-------------------------- MODULE ReprocessProofs ---------------------------
(***************************************************************************)
(* Theorems about Reprocess for every number of calls and fetches, every   *)
(* set of bars and payloads, and every order of their steps.               *)
(***************************************************************************)
EXTENDS Reprocess, FiniteSetTheorems, WellFoundedInduction, TLAPS

\* A set of natural numbers that is not empty has a least element.
LEMMA NatMin ==
    ASSUME NEW S, S \subseteq Nat, S # {}
    PROVE  /\ Min(S) \in S
           /\ \A n \in S : Min(S) <= n
<1> DEFINE R == {p \in Nat \X Nat : p[1] < p[2]}
<1>1. IsWellFoundedOn(R, Nat)
  BY NatLessThanWellFounded DEF OpToRel
<1>2. \A m, n \in Nat : <<n, m>> \in R <=> n < m
  OBVIOUS
<1> HIDE DEF R
<1>3. PICK m \in S : \A n \in S : ~ (<<n, m>> \in R)
  BY <1>1, WFMin
<1>4. ASSUME NEW n \in S PROVE m <= n
  <2>1. m \in Nat /\ n \in Nat
    OBVIOUS
  <2>2. ~ (n < m)
    BY <1>2, <1>3, <2>1
  <2>3. QED
    BY <2>1, <2>2
<1>5. QED
  BY <1>4 DEF Min

\* A finite set of natural numbers that is not empty has a greatest element:
\* of the subsets that have none take a smallest, and remove a member of it.
LEMMA FiniteMax ==
    ASSUME NEW S, IsFiniteSet(S), S \subseteq Nat, S # {}
    PROVE  /\ Max(S) \in S
           /\ \A n \in S : n <= Max(S)
<1> DEFINE Topped(T) == \E m \in T : \A n \in T : n <= m
           Sizes == {c \in Nat : \E T \in SUBSET S : /\ T # {}
                                                     /\ ~Topped(T)
                                                     /\ Cardinality(T) = c}
<1>1. SUFFICES ASSUME ~Topped(S) PROVE FALSE
  BY DEF Max
<1>2. Cardinality(S) \in Sizes
  BY <1>1, FS_CardinalityType
<1>3. PICK c \in Sizes : \A d \in Sizes : c <= d
  <2>1. Sizes \subseteq Nat /\ Sizes # {}
    BY <1>2
  <2> HIDE DEF Sizes
  <2>2. QED
    BY <2>1, NatMin
<1>4. PICK T \in SUBSET S : T # {} /\ ~Topped(T) /\ Cardinality(T) = c
  BY <1>3
<1>5. PICK x \in T : TRUE
  BY <1>4
<1>6. /\ IsFiniteSet(T \ {x})
      /\ Cardinality(T \ {x}) = c - 1
      /\ c - 1 \in Nat
  <2>1. IsFiniteSet(T)
    BY <1>4, FS_Subset
  <2>2. /\ IsFiniteSet(T \ {x})
        /\ Cardinality(T \ {x}) = Cardinality(T) - 1
    BY <1>5, <2>1, FS_RemoveElement
  <2>3. Cardinality(T \ {x}) \in Nat
    BY <2>2, FS_CardinalityType
  <2>4. QED
    BY <1>4, <2>2, <2>3
<1>7. T \ {x} # {}
  BY <1>4, <1>5
<1>8. Topped(T \ {x})
  <2>1. c - 1 \notin Sizes
    BY <1>3, <1>6
  <2>2. QED
    BY <1>4, <1>6, <1>7, <2>1
<1>9. PICK m \in T \ {x} : \A n \in T \ {x} : n <= m
  BY <1>8
<1>10. m \in Nat /\ x \in Nat
  BY <1>4, <1>5
<1>11. CASE m <= x
  BY <1>4, <1>5, <1>9, <1>10, <1>11
<1>12. CASE x <= m
  BY <1>4, <1>5, <1>9, <1>12
<1>13. QED
  BY <1>10, <1>11, <1>12

\* The last bar of a table is one of its bars, or 0.
LEMMA LastBarStored ==
    ASSUME NEW stored \in [Keys -> Nat]
    PROVE  /\ LastBar(stored) \in Keys \cup {0}
           /\ LastBar(stored) # 0 => stored[LastBar(stored)] # 0
<1> DEFINE S == {0} \cup {t \in Keys : stored[t] # 0}
<1>1. IsFiniteSet({t \in Keys : stored[t] # 0})
  BY ReprocessAssumption, FS_Subset
<1>2. IsFiniteSet(S)
  BY <1>1, FS_Singleton, FS_Union
<1>3. S \subseteq Nat /\ S # {}
  <2>1. 0 \in S
    OBVIOUS
  <2>2. \A x \in S : x \in Nat
    BY ReprocessAssumption
  <2>3. QED
    BY <2>1, <2>2
<1>4. LastBar(stored) = Max(S)
  BY DEF LastBar
<1> HIDE DEF S
<1>5. LastBar(stored) \in S
  BY <1>2, <1>3, <1>4, FiniteMax
<1>6. QED
  BY <1>5 DEF S

\* The bar to write next is one of the payload that was not written yet.
LEMMA NextKeyOpen ==
    ASSUME NEW w, job[w].row.ts \subseteq Keys, job[w].done \subseteq job[w].row.ts,
           job[w].row.ts # job[w].done
    PROVE  NextKey(w) \in job[w].row.ts \ job[w].done
<1> DEFINE S == job[w].row.ts \ job[w].done
<1>1. S \subseteq Nat /\ S # {}
  BY ReprocessAssumption
<1>2. NextKey(w) = Min(S)
  BY DEF NextKey
<1> HIDE DEF S
<1>3. QED
  BY <1>1, <1>2, NatMin DEF S

\* The row to replay next is the oldest one left.
LEMMA NextRowOldest ==
    ASSUME NEW j, j.todo \subseteq RawRows, j.todo # {}
    PROVE  /\ NextRow(j) \in j.todo
           /\ \A q \in j.todo : NextRow(j).created <= q.created
<1> DEFINE S == {r.created : r \in j.todo}
<1>1. S \subseteq Nat /\ S # {}
  <2>1. \A r \in j.todo : r.created \in Nat
    BY DEF RawRows, Stamps
  <2>2. PICK r \in j.todo : TRUE
    OBVIOUS
  <2>3. r.created \in S
    OBVIOUS
  <2>4. ASSUME NEW x \in S PROVE x \in Nat
    BY <2>1
  <2>5. QED
    BY <2>3, <2>4
<1> HIDE DEF S
<1>2. PICK m \in S : \A n \in S : m <= n
  BY <1>1, NatMin
<1>3. PICK r \in j.todo : r.created = m
  BY DEF S
<1>4. \A q \in j.todo : r.created <= q.created
  BY <1>2, <1>3 DEF S
<1>5. QED
  BY <1>3, <1>4 DEF NextRow

-----------------------------------------------------------------------------
\* Types.

CallerOK(l, j) ==
    LET open == j.todo \cup (IF l = "write" THEN {j.row} ELSE {})
    IN  /\ l \in {"idle", "replay", "write", "commit"}
        /\ open \subseteq j.selected
        /\ j.failed + Cardinality(open) <= Cardinality(j.selected)
        /\ l = "write" => j.row \notin j.todo

IngesterOK(l, j) ==
    /\ l \in {"idle", "upload", "archive", "write"}
    /\ l = "write" => j.row.created \in Stamps

\* What a worker knows at a label, when the given raw rows are committed.
WorkerOK(w, l, j, rows) ==
    /\ j \in Jobs(rows)
    /\ j.done \subseteq j.row.ts
    /\ l # "write" => j.done = {}
    /\ w \in Callers => CallerOK(l, j)
    /\ w \in Ingesters => IngesterOK(l, j)

TablesOK ==
    /\ calls \in 0 .. MaxCalls
    /\ clock \in Stamps
    /\ bars \in [Keys -> Nat]
    /\ raw \subseteq RawRows
    /\ IsFiniteSet(raw)
    /\ cov \in Keys \cup {0}
    /\ objects \subseteq Stamps

\* TypeOK with what it takes to be inductive: there are finitely many raw rows,
\* a worker writes no bar its payload does not have, and an ingester inserts
\* bars when its raw row has a stamp.
TypeInv ==
    /\ TablesOK
    /\ DOMAIN pc = Workers /\ pc = [w \in Workers |-> pc[w]]
    /\ DOMAIN job = Workers /\ job = [w \in Workers |-> job[w]]
    /\ \A w \in Workers : WorkerOK(w, pc[w], job[w], raw)

LEMMA TypeInvTypeOK == TypeInv => TypeOK
<1> SUFFICES ASSUME TypeInv PROVE TypeOK
  OBVIOUS
<1>1. \A w \in Workers : w \in Callers \/ w \in Ingesters
  BY DEF Workers
<1>2. pc \in [Workers -> {"idle", "replay", "write", "commit", "upload", "archive"}]
  BY <1>1 DEF TypeInv, WorkerOK, CallerOK, IngesterOK
<1>3. job \in [Workers -> Jobs(raw)]
  BY DEF TypeInv, WorkerOK
<1>4. \A w \in Callers : CallerOK(pc[w], job[w])
  BY DEF TypeInv, WorkerOK, Workers
<1>5. \A i \in Ingesters : IngesterOK(pc[i], job[i])
  BY DEF TypeInv, WorkerOK, Workers
<1>6. QED
  BY <1>2, <1>3, <1>4, <1>5 DEF TypeOK, TypeInv, TablesOK, CallerOK, IngesterOK

LEMMA NoJobType ==
    ASSUME NEW w, NEW rows
    PROVE  /\ WorkerOK(w, "idle", NoJob, rows)
<1>1. NoJob \in Jobs(rows)
  BY ReprocessAssumption DEF NoJob, Jobs, NoRow, NoRun, RunRows
<1>2. CallerOK("idle", NoJob)
  BY FS_EmptySet DEF CallerOK, NoJob
<1>3. IngesterOK("idle", NoJob)
  BY DEF IngesterOK
<1>4. NoJob.done = {}
  BY DEF NoJob, NoRow
<1>5. QED
  BY <1>1, <1>2, <1>3, <1>4 DEF WorkerOK

\* A step of one worker moves no other, and keeps the types if it keeps those
\* of the tables and of what this worker knows.
LEMMA StepType ==
    ASSUME TypeInv, NEW w \in Workers, NEW l, NEW j, Goto(w, l, j),
           raw \subseteq raw', TablesOK', WorkerOK(w, l, j, raw')
    PROVE  TypeInv'
<1>1. /\ \A v \in Workers : pc'[v] = IF v = w THEN l ELSE pc[v]
      /\ \A v \in Workers : job'[v] = IF v = w THEN j ELSE job[v]
      /\ DOMAIN pc' = Workers /\ pc' = [v \in Workers |-> pc'[v]]
      /\ DOMAIN job' = Workers /\ job' = [v \in Workers |-> job'[v]]
  BY DEF Goto, TypeInv
<1>2. ASSUME NEW v \in Workers PROVE WorkerOK(v, pc'[v], job'[v], raw')
  <2>1. CASE v = w
    BY <1>1, <2>1
  <2>2. CASE v # w
    <3>1. WorkerOK(v, pc[v], job[v], raw)
      BY DEF TypeInv
    <3>2. job[v] \in Jobs(raw')
      BY <3>1 DEF WorkerOK, Jobs
    <3>3. QED
      BY <1>1, <2>2, <3>1, <3>2 DEF WorkerOK
  <2>3. QED
    BY <2>1, <2>2
<1>3. QED
  BY <1>1, <1>2 DEF TypeInv

\* The tables keep their types when none but the clock changes, forward.
LEMMA TablesSame ==
    ASSUME TablesOK, UNCHANGED <<calls, db>>, clock' \in {clock, clock + 1}
    PROVE  TablesOK' /\ raw \subseteq raw'
BY DEF TablesOK, db, Stamps

LEMMA InitType == Init => TypeInv
<1> SUFFICES ASSUME Init PROVE TypeInv
  OBVIOUS
<1> DEFINE Created == {r.created : r \in FirstRaw}
           Objects == {r.object : r \in FirstRaw}
           S == {0} \cup Created \cup Objects
<1>1. IsFiniteSet(Created)
  <2> DEFINE f == [r \in FirstRaw |-> r.created]
  <2>1. f \in Surjection(FirstRaw, Created)
    BY DEF Surjection
  <2>2. QED
    BY <2>1, FS_Surjection, ReprocessAssumption
<1>2. IsFiniteSet(Objects)
  <2> DEFINE f == [r \in FirstRaw |-> r.object]
  <2>1. f \in Surjection(FirstRaw, Objects)
    BY DEF Surjection
  <2>2. QED
    BY <2>1, FS_Surjection, ReprocessAssumption
<1>3. Created \subseteq Nat /\ Objects \subseteq Nat
  BY ReprocessAssumption DEF RawRows, Stamps
<1>4. clock = 1 + Max(S)
  BY DEF Init
<1>5. objects = Objects \ {0}
  BY DEF Init
<1> HIDE DEF Created, Objects
<1>6. IsFiniteSet(S)
  BY <1>1, <1>2, FS_Singleton, FS_Union
<1>7. S \subseteq Nat /\ S # {}
  BY <1>3
<1> HIDE DEF S
<1>8. clock \in Stamps
  <2>1. Max(S) \in Nat
    BY <1>6, <1>7, FiniteMax
  <2>2. QED
    BY <1>4, <2>1 DEF Stamps
<1>9. TablesOK
  <2>1. objects \subseteq Stamps
    BY <1>3, <1>5 DEF Stamps
  <2>2. /\ calls = 0
        /\ bars = [t \in Keys |-> 0]
        /\ raw = FirstRaw
        /\ cov = 0
    BY DEF Init
  <2>3. QED
    BY <1>8, <2>1, <2>2, ReprocessAssumption DEF TablesOK
<1>10. \A w \in Workers : WorkerOK(w, pc[w], job[w], raw)
  BY NoJobType DEF Init
<1>11. QED
  BY <1>9, <1>10 DEF TypeInv, Init

\* Who is at which label.
LEMMA CallerAt ==
    ASSUME TypeInv, NEW w \in Workers, w \in Callers \/ pc[w] \in {"replay", "commit"}
    PROVE  /\ w \in Callers /\ w \notin Ingesters
           /\ job[w] \in Jobs(raw) /\ job[w].done \subseteq job[w].row.ts
           /\ pc[w] # "write" => job[w].done = {}
           /\ CallerOK(pc[w], job[w])
<1>1. WorkerOK(w, pc[w], job[w], raw)
  BY DEF TypeInv
<1>2. w \in Callers /\ w \notin Ingesters
  BY <1>1, ReprocessAssumption DEF WorkerOK, IngesterOK, Workers
<1>3. QED
  BY <1>1, <1>2 DEF WorkerOK

LEMMA IngesterAt ==
    ASSUME TypeInv, NEW w \in Workers, w \in Ingesters \/ pc[w] \in {"upload", "archive"}
    PROVE  /\ w \in Ingesters /\ w \notin Callers
           /\ job[w] \in Jobs(raw) /\ job[w].done \subseteq job[w].row.ts
           /\ pc[w] # "write" => job[w].done = {}
           /\ IngesterOK(pc[w], job[w])
<1>1. WorkerOK(w, pc[w], job[w], raw)
  BY DEF TypeInv
<1>2. w \in Ingesters /\ w \notin Callers
  BY <1>1, ReprocessAssumption DEF WorkerOK, CallerOK, Workers
<1>3. QED
  BY <1>1, <1>2 DEF WorkerOK

\* Sets of raw rows and of bars are finite.
LEMMA FiniteData ==
    ASSUME TypeInv, NEW j \in Jobs(raw)
    PROVE  /\ IsFiniteSet(j.selected) /\ IsFiniteSet(j.todo)
           /\ IsFiniteSet(j.row.ts)
           /\ Cardinality(j.selected) \in Nat /\ Cardinality(j.todo) \in Nat
           /\ Cardinality(j.row.ts) \in Nat
<1>1. j.selected \in SUBSET raw /\ j.todo \in SUBSET raw /\ j.row.ts \in SUBSET Keys
  BY DEF Jobs
<1>2. IsFiniteSet(raw) /\ IsFiniteSet(Keys)
  BY ReprocessAssumption DEF TypeInv, TablesOK
<1>3. QED
  BY <1>1, <1>2, FS_Subset, FS_CardinalityType

LEMMA CallType ==
    ASSUME TypeInv, NEW w \in Callers, Call(w)
    PROVE  TypeInv'
<1>1. PICK rows \in SUBSET raw :
         Goto(w, "replay", [NoJob EXCEPT !.selected = rows, !.todo = rows])
  BY DEF Call
<1> DEFINE k == [NoJob EXCEPT !.selected = rows, !.todo = rows]
<1>2. w \in Workers /\ w \notin Ingesters
  BY ReprocessAssumption DEF Workers
<1>3. /\ k \in Jobs(raw)
      /\ k.selected = rows /\ k.todo = rows /\ k.failed = 0
      /\ k.done = {} /\ k.row = NoRow
  <2>1. NoJob \in Jobs(raw)
    BY NoJobType DEF WorkerOK
  <2>2. QED
    BY <2>1 DEF Jobs, NoJob
<1>4. TablesOK' /\ raw \subseteq raw' /\ raw' = raw
  <2>1. calls' \in 0 .. MaxCalls
    BY ReprocessAssumption DEF Call, TypeInv, TablesOK
  <2>2. QED
    BY <2>1 DEF Call, db, TypeInv, TablesOK
<1> HIDE DEF k
<1>5. CallerOK("replay", k)
  <2>1. Cardinality(rows) \in Nat
    BY <1>3, FiniteData
  <2>2. QED
    BY <1>3, <2>1 DEF CallerOK
<1>6. WorkerOK(w, "replay", k, raw')
  BY <1>2, <1>3, <1>4, <1>5 DEF WorkerOK
<1>7. QED
  BY <1>1, <1>2, <1>4, <1>6, StepType DEF k

LEMMA LoadPayloadType ==
    ASSUME TypeInv, NEW w \in Workers, LoadPayload(w)
    PROVE  TypeInv'
<1> DEFINE j == job[w]
           r == NextRow(j)
           k == [j EXCEPT !.row = r, !.todo = @ \ {r}]
<1>1. w \in Callers /\ w \notin Ingesters /\ j \in Jobs(raw) /\ CallerOK("replay", j)
  BY CallerAt DEF LoadPayload
<1>2. r \in j.todo /\ r \in RawRows
  <2>1. j.todo \subseteq RawRows
    BY <1>1 DEF Jobs, TypeInv, TablesOK
  <2>2. QED
    BY <2>1, NextRowOldest DEF LoadPayload
<1>3. TablesOK' /\ raw \subseteq raw' /\ raw' = raw
  BY TablesSame DEF LoadPayload, TypeInv, db
<1> HIDE DEF r
<1>4. /\ k \in Jobs(raw)
      /\ k.selected = j.selected /\ k.todo = j.todo \ {r} /\ k.row = r
      /\ k.failed = j.failed /\ k.done = j.done
  <2>1. r \in [created : Nat, ts : SUBSET Keys, object : Nat]
    BY <1>2 DEF RawRows, Stamps
  <2>2. QED
    BY <1>1, <1>2, <2>1 DEF Jobs
<1>5. CallerOK("write", k)
  <2>1. k.todo \cup {k.row} = j.todo
    BY <1>2, <1>4
  <2>2. /\ j.todo \subseteq j.selected
        /\ j.failed + Cardinality(j.todo) <= Cardinality(j.selected)
    BY <1>1 DEF CallerOK
  <2>3. k.row \notin k.todo
    BY <1>4
  <2> HIDE DEF j, k
  <2>4. QED
    BY <1>4, <2>1, <2>2, <2>3 DEF CallerOK
<1>6. WorkerOK(w, "write", k, raw')
  BY <1>1, <1>3, <1>4, <1>5, CallerAt DEF WorkerOK, LoadPayload
<1>7. QED
  BY <1>3, <1>6, StepType DEF LoadPayload, r

LEMMA LoadFailsType ==
    ASSUME TypeInv, NEW w \in Workers, LoadFails(w)
    PROVE  TypeInv'
<1> DEFINE j == job[w]
           r == NextRow(j)
           k == [j EXCEPT !.todo = @ \ {r}, !.failed = @ + 1]
<1>1. w \in Callers /\ w \notin Ingesters /\ j \in Jobs(raw) /\ CallerOK("replay", j)
  BY CallerAt DEF LoadFails
<1>2. r \in j.todo
  <2>1. j.todo \subseteq RawRows
    BY <1>1 DEF Jobs, TypeInv, TablesOK
  <2>2. QED
    BY <2>1, NextRowOldest DEF LoadFails
<1>3. TablesOK' /\ raw \subseteq raw' /\ raw' = raw
  BY TablesSame DEF LoadFails, TypeInv, db
<1> HIDE DEF r
<1>4. /\ k \in Jobs(raw)
      /\ k.selected = j.selected /\ k.todo = j.todo \ {r} /\ k.row = j.row
      /\ k.failed = j.failed + 1 /\ k.done = j.done
  <2>1. j.failed + 1 \in Nat
    BY <1>1 DEF Jobs
  <2>2. QED
    BY <1>1, <1>2, <2>1 DEF Jobs
<1>5. CallerOK("replay", k)
  <2>1. /\ j.todo \subseteq j.selected
        /\ j.failed + Cardinality(j.todo) <= Cardinality(j.selected)
    BY <1>1 DEF CallerOK
  <2>2. Cardinality(j.todo \ {r}) = Cardinality(j.todo) - 1
    BY <1>1, <1>2, FiniteData, FS_RemoveElement
  <2>3. /\ j.failed \in Nat /\ Cardinality(j.todo) \in Nat
        /\ Cardinality(j.selected) \in Nat
    BY <1>1, FiniteData DEF Jobs
  <2> HIDE DEF j, k
  <2>4. QED
    BY <1>4, <2>1, <2>2, <2>3 DEF CallerOK
<1>6. WorkerOK(w, "replay", k, raw')
  BY <1>1, <1>3, <1>4, <1>5, CallerAt DEF WorkerOK, LoadFails
<1>7. QED
  BY <1>3, <1>6, StepType DEF LoadFails, r

LEMMA UpsertType ==
    ASSUME TypeInv, NEW w \in Workers, Upsert(w)
    PROVE  TypeInv'
<1> DEFINE j == job[w]
           t == NextKey(w)
           k == [j EXCEPT !.done = @ \cup {t}]
<1>1. w \in Callers /\ w \notin Ingesters /\ j \in Jobs(raw) /\ CallerOK("write", j)
  BY CallerAt DEF Upsert, Writing
<1>2. t \in j.row.ts /\ j.row.ts \subseteq Keys /\ j.done \subseteq j.row.ts
  BY <1>1, NextKeyOpen, CallerAt DEF Upsert, Writing, Jobs
<1>3. TablesOK' /\ raw \subseteq raw' /\ raw' = raw
  BY TablesSame DEF Upsert, TypeInv, db
<1> HIDE DEF t
<1>4. /\ k \in Jobs(raw)
      /\ k.selected = j.selected /\ k.todo = j.todo /\ k.row = j.row
      /\ k.failed = j.failed /\ k.done = j.done \cup {t}
  BY <1>1, <1>2 DEF Jobs
<1>5. CallerOK("write", k)
  BY <1>1, <1>4 DEF CallerOK
<1>6. WorkerOK(w, "write", k, raw')
  BY <1>1, <1>2, <1>3, <1>4, <1>5 DEF WorkerOK
<1>7. QED
  BY <1>3, <1>6, StepType DEF Upsert, t

LEMMA RowDoneType ==
    ASSUME TypeInv, NEW w \in Workers, RowDone(w)
    PROVE  TypeInv'
<1> DEFINE j == job[w]
           image == [t \in Keys |-> IF t \in j.done THEN j.row.created ELSE j.image[t]]
           k == [j EXCEPT !.image = [t \in Keys |-> IF t \in j.done THEN j.row.created
                                                    ELSE @[t]],
                          !.inserted = @ + Cardinality(j.row.ts),
                          !.row = NoRow, !.done = {}]
<1>1. w \in Callers /\ w \notin Ingesters /\ j \in Jobs(raw) /\ CallerOK("write", j)
  BY CallerAt DEF RowDone
<1>2. image \in [Keys -> Nat] /\ j.inserted + Cardinality(j.row.ts) \in Nat
  <2>1. j.row.created \in Nat /\ j.image \in [Keys -> Nat] /\ j.inserted \in Nat
    BY <1>1 DEF Jobs
  <2>2. QED
    BY <1>1, <2>1, FiniteData
<1>3. TablesOK' /\ raw \subseteq raw' /\ raw' = raw
  BY TablesSame DEF RowDone, TypeInv, db
<1>4. k = [j EXCEPT !.image = image, !.inserted = j.inserted + Cardinality(j.row.ts),
                    !.row = NoRow, !.done = {}]
  BY <1>1 DEF Jobs
<1> HIDE DEF image, k
<1>5. /\ k \in Jobs(raw)
      /\ k.selected = j.selected /\ k.todo = j.todo
      /\ k.failed = j.failed /\ k.done = {}
  BY <1>1, <1>2, <1>4 DEF Jobs, NoRow
<1>6. CallerOK("replay", k)
  <2>1. /\ j.todo \cup {j.row} \subseteq j.selected
        /\ j.failed + Cardinality(j.todo \cup {j.row}) <= Cardinality(j.selected)
        /\ j.row \notin j.todo
    BY <1>1 DEF CallerOK
  <2>2. Cardinality(j.todo \cup {j.row}) = Cardinality(j.todo) + 1
    BY <1>1, <2>1, FiniteData, FS_AddElement
  <2>3. /\ j.failed \in Nat /\ Cardinality(j.todo) \in Nat
        /\ Cardinality(j.selected) \in Nat
    BY <1>1, FiniteData DEF Jobs
  <2> HIDE DEF j
  <2>4. QED
    BY <1>5, <2>1, <2>2, <2>3 DEF CallerOK
<1>7. WorkerOK(w, "replay", k, raw')
  BY <1>1, <1>3, <1>5, <1>6 DEF WorkerOK
<1>8. QED
  BY <1>3, <1>7, StepType DEF RowDone, k

LEMMA AbandonRowType ==
    ASSUME TypeInv, NEW w \in Callers, pc[w] = "write", AbandonRow(w),
           UNCHANGED <<calls, clock, db>>
    PROVE  TypeInv'
<1> DEFINE j == job[w]
           k == [j EXCEPT !.row = NoRow, !.done = {}, !.failed = @ + 1]
<1>1. /\ w \in Workers /\ w \notin Ingesters
      /\ j \in Jobs(raw) /\ CallerOK("write", j)
  BY CallerAt DEF Workers
<1>2. TablesOK' /\ raw \subseteq raw' /\ raw' = raw
  BY TablesSame DEF TypeInv, db
<1>3. /\ k \in Jobs(raw)
      /\ k.selected = j.selected /\ k.todo = j.todo
      /\ k.failed = j.failed + 1 /\ k.done = {}
  <2>1. j.failed + 1 \in Nat
    BY <1>1 DEF Jobs
  <2>2. NoRow \in [created : Nat, ts : SUBSET Keys, object : Nat]
    BY DEF NoRow
  <2>3. QED
    BY <1>1, <2>1, <2>2 DEF Jobs
<1>4. CallerOK("replay", k)
  <2>1. /\ j.todo \cup {j.row} \subseteq j.selected
        /\ j.failed + Cardinality(j.todo \cup {j.row}) <= Cardinality(j.selected)
        /\ j.row \notin j.todo
    BY <1>1 DEF CallerOK
  <2>2. Cardinality(j.todo \cup {j.row}) = Cardinality(j.todo) + 1
    BY <1>1, <2>1, FiniteData, FS_AddElement
  <2>3. /\ j.failed \in Nat /\ Cardinality(j.todo) \in Nat
        /\ Cardinality(j.selected) \in Nat
    BY <1>1, FiniteData DEF Jobs
  <2> HIDE DEF j, k
  <2>4. QED
    BY <1>3, <2>1, <2>2, <2>3 DEF CallerOK
<1>5. WorkerOK(w, "replay", k, raw')
  BY <1>1, <1>2, <1>3, <1>4 DEF WorkerOK
<1>6. QED
  BY <1>1, <1>2, <1>5, StepType DEF AbandonRow

LEMMA LeaveType ==
    ASSUME TypeInv, NEW w \in Workers, Leave(w), TablesOK', raw \subseteq raw'
    PROVE  TypeInv'
BY NoJobType, StepType DEF Leave

LEMMA VictimType ==
    ASSUME TypeInv, NEW w \in Workers, Victim(w)
    PROVE  TypeInv'
<1>1. pc[w] = "write"
  BY DEF Victim, Deadlocked, WaitsFor, Writing
<1>2. CASE w \in Callers
  BY <1>1, <1>2, AbandonRowType DEF Victim
<1>3. CASE w \notin Callers
  <2>1. TablesOK' /\ raw \subseteq raw'
    BY TablesSame DEF Victim, TypeInv, db
  <2>2. QED
    BY <1>3, <2>1, LeaveType DEF Victim
<1>4. QED
  BY <1>2, <1>3

LEMMA SyncedType ==
    ASSUME TypeInv, NEW j \in Jobs(raw)
    PROVE  /\ Image(j) \in [Keys -> Nat]
           /\ BoundsOf(j) \in Keys \cup {0} /\ Synced(j) \in Keys \cup {0}
           /\ Status(j) \in RunRows
<1>1. Image(j) \in [Keys -> Nat]
  BY DEF Image, Jobs, TypeInv, TablesOK
<1>2. BoundsOf(j) \in Keys \cup {0}
  BY <1>1, LastBarStored DEF BoundsOf
<1>3. Status(j) \in RunRows
  <2>1. /\ j.failed \in Nat /\ j.inserted \in Nat
        /\ Cardinality(j.selected) \in Nat
    BY FiniteData DEF Jobs
  <2>2. QED
    BY <2>1 DEF Status, RunRows
<1>4. QED
  BY <1>1, <1>2, <1>3 DEF Synced

\* Both ways to the commit.
LEMMA FinishType ==
    ASSUME TypeInv, NEW w \in Workers, pc[w] = "replay", job[w].todo = {},
           NEW run \in RunRows, NEW b \in Keys \cup {0},
           Goto(w, "commit", [job[w] EXCEPT !.run = run, !.bounds = b]),
           UNCHANGED <<calls, clock, db>>
    PROVE  TypeInv'
<1> DEFINE j == job[w]
           k == [j EXCEPT !.run = run, !.bounds = b]
<1>1. w \in Callers /\ w \notin Ingesters /\ j \in Jobs(raw) /\ CallerOK("replay", j)
  BY CallerAt
<1>2. TablesOK' /\ raw \subseteq raw' /\ raw' = raw
  BY TablesSame DEF TypeInv, db
<1>3. /\ k \in Jobs(raw)
      /\ k.selected = j.selected /\ k.todo = j.todo /\ k.row = j.row
      /\ k.failed = j.failed /\ k.done = j.done
  BY <1>1 DEF Jobs
<1>4. CallerOK("commit", k)
  BY <1>1, <1>3 DEF CallerOK
<1>5. WorkerOK(w, "commit", k, raw')
  BY <1>1, <1>2, <1>3, <1>4, CallerAt DEF WorkerOK
<1>6. QED
  BY <1>2, <1>5, StepType

LEMMA SyncType ==
    ASSUME TypeInv, NEW w \in Workers, Sync(w)
    PROVE  TypeInv'
<1>1. job[w] \in Jobs(raw)
  BY CallerAt DEF Sync
<1> DEFINE b == IF job[w].inserted > 0 THEN Synced(job[w]) ELSE 0
<1>2. b \in Keys \cup {0} /\ Status(job[w]) \in RunRows
  BY <1>1, SyncedType
<1>3. Goto(w, "commit", [job[w] EXCEPT !.run = Status(job[w]), !.bounds = b])
  BY DEF Sync
<1> HIDE DEF b
<1>4. QED
  BY <1>2, <1>3, FinishType DEF Sync

LEMMA FinalizeRaisesType ==
    ASSUME TypeInv, NEW w \in Callers, FinalizeRaises(w)
    PROVE  TypeInv'
<1>1. w \in Workers /\ job[w] \in Jobs(raw)
  BY CallerAt DEF Workers
<1> DEFINE run == [Status(job[w]) EXCEPT !.status = "failed", !.error = TRUE]
<1>2. PICK synced \in BOOLEAN :
         Goto(w, "commit", [job[w] EXCEPT !.run = run,
                                         !.bounds = IF synced THEN Synced(job[w]) ELSE 0])
  BY DEF FinalizeRaises
<1> DEFINE b == IF synced THEN Synced(job[w]) ELSE 0
<1>3. b \in Keys \cup {0} /\ Status(job[w]) \in RunRows
  BY <1>1, SyncedType
<1>4. run \in RunRows
  BY <1>3 DEF RunRows
<1>5. Goto(w, "commit", [job[w] EXCEPT !.run = run, !.bounds = b])
  BY <1>2
<1> HIDE DEF b, run
<1>6. QED
  BY <1>1, <1>3, <1>4, <1>5, FinishType DEF FinalizeRaises

LEMMA CommitType ==
    ASSUME TypeInv, NEW w \in Workers, Commit(w)
    PROVE  TypeInv'
<1>1. job[w] \in Jobs(raw)
  BY CallerAt DEF Commit
<1>2. Image(job[w]) \in [Keys -> Nat] /\ job[w].bounds \in Keys \cup {0}
  BY <1>1, SyncedType DEF Jobs
<1>3. TablesOK' /\ raw \subseteq raw'
  BY <1>2 DEF Commit, TypeInv, TablesOK
<1>4. QED
  BY <1>3, LeaveType DEF Commit

LEMMA FetchType ==
    ASSUME TypeInv, NEW w \in Ingesters, Fetch(w)
    PROVE  TypeInv'
<1>1. PICK ts \in Payloads, l \in {"upload", "archive"} :
         Goto(w, l, [NoJob EXCEPT !.row.ts = ts])
  BY DEF Fetch
<1> DEFINE k == [NoJob EXCEPT !.row.ts = ts]
<1>2. w \in Workers /\ w \notin Callers
  BY ReprocessAssumption DEF Workers
<1>3. k \in Jobs(raw) /\ k.done = {}
  <2>1. NoJob \in Jobs(raw)
    BY NoJobType DEF WorkerOK
  <2>2. ts \subseteq Keys
    BY ReprocessAssumption
  <2>3. QED
    BY <2>1, <2>2 DEF Jobs, NoJob, NoRow
<1>4. TablesOK' /\ raw \subseteq raw' /\ raw' = raw
  BY TablesSame DEF Fetch, TypeInv, db
<1>5. WorkerOK(w, l, k, raw')
  BY <1>2, <1>3, <1>4 DEF WorkerOK, IngesterOK
<1>6. QED
  BY <1>1, <1>2, <1>4, <1>5, StepType

LEMMA PutObjectType ==
    ASSUME TypeInv, NEW w \in Workers, PutObject(w)
    PROVE  TypeInv'
<1> DEFINE j == job[w]
           k == [j EXCEPT !.row.object = clock]
<1>1. w \in Ingesters /\ w \notin Callers /\ j \in Jobs(raw) /\ j.done = {}
  BY IngesterAt DEF PutObject
<1>2. k \in Jobs(raw) /\ k.done = {}
  BY <1>1 DEF Jobs, TypeInv, TablesOK, Stamps
<1>3. TablesOK' /\ raw \subseteq raw' /\ raw' = raw
  BY DEF PutObject, TypeInv, TablesOK, Stamps
<1>4. WorkerOK(w, "archive", k, raw')
  BY <1>1, <1>2, <1>3 DEF WorkerOK, IngesterOK
<1>5. QED
  BY <1>3, <1>4, StepType DEF PutObject

LEMMA PutFailsType ==
    ASSUME TypeInv, NEW w \in Workers, PutFails(w)
    PROVE  TypeInv'
<1>1. w \in Ingesters /\ w \notin Callers /\ job[w] \in Jobs(raw) /\ job[w].done = {}
  BY IngesterAt DEF PutFails
<1>2. TablesOK' /\ raw \subseteq raw' /\ raw' = raw
  BY TablesSame DEF PutFails, TypeInv, db
<1>3. WorkerOK(w, "archive", job[w], raw')
  BY <1>1, <1>2 DEF WorkerOK, IngesterOK
<1>4. QED
  BY <1>2, <1>3, StepType DEF PutFails

LEMMA CreateRawType ==
    ASSUME TypeInv, NEW w \in Workers, CreateRaw(w)
    PROVE  TypeInv'
<1> DEFINE j == job[w]
           k == [j EXCEPT !.row.created = clock]
<1>1. w \in Ingesters /\ w \notin Callers /\ j \in Jobs(raw) /\ j.done = {}
  BY IngesterAt DEF CreateRaw
<1>2. clock \in Stamps /\ clock \in Nat
  BY DEF TypeInv, TablesOK, Stamps
<1>3. k \in Jobs(raw) /\ k.done = {} /\ k.row.created = clock
  BY <1>1, <1>2 DEF Jobs
<1>4. TablesOK' /\ raw \subseteq raw' /\ raw' = raw
  BY DEF CreateRaw, TypeInv, TablesOK, Stamps, db
<1>5. WorkerOK(w, "write", k, raw')
  BY <1>1, <1>2, <1>3, <1>4 DEF WorkerOK, IngesterOK
<1>6. QED
  BY <1>4, <1>5, StepType DEF CreateRaw

LEMMA InsertType ==
    ASSUME TypeInv, NEW w \in Workers, Insert(w)
    PROVE  TypeInv'
<1> DEFINE j == job[w]
           t == NextKey(w)
           new == IF bars[t] = 0 THEN j.new \cup {t} ELSE j.new
           k == [j EXCEPT !.done = @ \cup {t}, !.new = new]
<1>1. /\ w \in Ingesters /\ w \notin Callers /\ j \in Jobs(raw)
      /\ IngesterOK("write", j)
  BY IngesterAt DEF Insert, Writing
<1>2. t \in j.row.ts /\ j.row.ts \subseteq Keys /\ j.done \subseteq j.row.ts
  BY <1>1, NextKeyOpen, IngesterAt DEF Insert, Writing, Jobs
<1>3. TablesOK' /\ raw \subseteq raw' /\ raw' = raw
  BY TablesSame DEF Insert, TypeInv, db
<1>4. Goto(w, "write", k)
  BY DEF Insert
<1> HIDE DEF t
<1>5. k \in Jobs(raw) /\ k.row = j.row /\ k.done = j.done \cup {t}
  <2>1. new \subseteq Keys
    BY <1>1, <1>2 DEF Jobs
  <2>2. QED
    BY <1>1, <1>2, <2>1 DEF Jobs
<1> HIDE DEF new, k
<1>6. WorkerOK(w, "write", k, raw')
  BY <1>1, <1>2, <1>3, <1>5 DEF WorkerOK, IngesterOK
<1>7. QED
  BY <1>3, <1>4, <1>6, StepType

LEMMA CommitFetchType ==
    ASSUME TypeInv, NEW w \in Workers, CommitFetch(w)
    PROVE  TypeInv'
<1> DEFINE j == job[w]
           stored == [t \in Keys |-> IF t \in j.new THEN j.row.created ELSE bars[t]]
<1>1. j \in Jobs(raw) /\ j.row.created \in Stamps
  BY IngesterAt DEF CommitFetch, IngesterOK
<1>2. stored \in [Keys -> Nat]
  BY <1>1 DEF Stamps, TypeInv, TablesOK
<1>3. LastBar(stored) \in Keys \cup {0}
  BY <1>2, LastBarStored
<1>4. j.row \in RawRows
  BY <1>1 DEF Jobs, RawRows
<1>5. IsFiniteSet(raw \cup {j.row})
  BY FS_AddElement DEF TypeInv, TablesOK
<1>6. TablesOK' /\ raw \subseteq raw'
  BY <1>2, <1>3, <1>4, <1>5 DEF CommitFetch, TypeInv, TablesOK
<1>7. QED
  BY <1>6, LeaveType DEF CommitFetch

LEMMA RollbackType ==
    ASSUME TypeInv, NEW w \in Workers, Rollback(w)
    PROVE  TypeInv'
BY TablesSame, LeaveType DEF Rollback, TypeInv, db

LEMMA StutterType ==
    ASSUME TypeInv, UNCHANGED vars
    PROVE  TypeInv'
BY DEF vars, TypeInv, TablesOK

LEMMA TypeStep == TypeInv /\ [Next]_vars => TypeInv'
<1> SUFFICES ASSUME TypeInv, [Next]_vars PROVE TypeInv'
  OBVIOUS
<1>1. ASSUME NEW w \in Callers, Call(w) \/ RowFails(w) \/ FinalizeRaises(w)
      PROVE  TypeInv'
  BY <1>1, CallType, AbandonRowType, FinalizeRaisesType DEF RowFails
<1>2. ASSUME NEW i \in Ingesters, Fetch(i) PROVE TypeInv'
  BY <1>2, FetchType
<1>3. ASSUME NEW w \in Workers, Work(w) PROVE TypeInv'
  BY <1>3, LoadPayloadType, LoadFailsType, UpsertType, RowDoneType, VictimType,
     SyncType, CommitType, PutObjectType, PutFailsType, CreateRawType, InsertType,
     CommitFetchType DEF Work
<1>4. ASSUME NEW w \in Workers, Rollback(w) PROVE TypeInv'
  BY <1>4, RollbackType
<1>5. CASE Rest \/ UNCHANGED vars
  BY <1>5, StutterType DEF Rest
<1>6. QED
  BY <1>1, <1>2, <1>3, <1>4, <1>5 DEF Next

\* Every reachable state is well typed, and no call deals with a raw row twice:
\* for any number of calls and fetches, whatever fails.
THEOREM ReprocessTypeOK == Spec => []TypeOK
<1>1. Spec => []TypeInv
  BY InitType, TypeStep, PTL DEF Spec
<1>2. QED
  BY <1>1, TypeInvTypeOK, PTL

-----------------------------------------------------------------------------
\* What a run says.

\* An upper bound of a set that is a member of it is its maximum.
LEMMA MaxUnique ==
    ASSUME NEW S, S \subseteq Nat, NEW m \in S, \A n \in S : n <= m
    PROVE  Max(S) = m
<1>1. \A n \in S : m >= n
  OBVIOUS
<1>2. Max(S) \in S /\ \A n \in S : Max(S) >= n
  BY <1>1 DEF Max
<1>3. Max(S) \in Nat /\ m \in Nat /\ Max(S) <= m /\ Max(S) >= m
  BY <1>2
<1>4. QED
  BY <1>3

\* A table of the bars of some raw rows, where the latest of them wins.
Shown(image, rows) ==
    \A t \in Keys :
        \/ image[t] = 0 /\ \A r \in rows : t \notin r.ts
        \/ \E r \in rows : /\ t \in r.ts
                           /\ image[t] = r.created
                           /\ \A q \in rows : t \in q.ts => q.created <= r.created

\* Some of the selected rows are replayed, older than those that are not yet;
\* all of them unless the call counted a failure.
Told(l, j) ==
    LET open == j.todo \cup (IF l = "write" THEN {j.row} ELSE {})
    IN  /\ \E rows \in SUBSET (j.selected \ open) :
              /\ Shown(j.image, rows)
              /\ \A r \in rows, q \in open : r.created <= q.created
              /\ j.failed = 0 => rows = j.selected \ open
              /\ j.inserted = 0 => \A r \in rows : r.ts = {}
        /\ l = "write" => \A q \in j.todo : j.row.created <= q.created
        /\ l = "commit" => /\ j.todo = {}
                           /\ j.run.inserted = j.inserted
                           /\ ~j.run.error => j.failed = 0

ReplayInv == \A w \in Callers : Told(pc[w], job[w])

LEMMA NoJobTold == Told("idle", NoJob)
<1>1. Shown(NoJob.image, {})
  BY DEF Shown, NoJob
<1>2. QED
  BY <1>1 DEF Told, NoJob

LEMMA StepTold ==
    ASSUME TypeInv, ReplayInv, NEW w \in Workers, NEW l, NEW j, Goto(w, l, j),
           w \in Callers => Told(l, j)
    PROVE  ReplayInv'
<1>1. ASSUME NEW v \in Callers PROVE Told(pc'[v], job'[v])
  <2>1. v \in Workers
    BY DEF Workers
  <2>2. /\ pc'[v] = IF v = w THEN l ELSE pc[v]
        /\ job'[v] = IF v = w THEN j ELSE job[v]
    BY <2>1 DEF Goto, TypeInv
  <2>3. CASE v = w
    BY <2>2, <2>3
  <2>4. CASE v # w
    BY <2>2, <2>4 DEF ReplayInv
  <2>5. QED
    BY <2>3, <2>4
<1>2. QED
  BY <1>1 DEF ReplayInv

LEMMA LeaveTold ==
    ASSUME TypeInv, ReplayInv, NEW w \in Workers, Leave(w)
    PROVE  ReplayInv'
BY NoJobTold, StepTold DEF Leave

LEMMA CallTold ==
    ASSUME TypeInv, ReplayInv, NEW w \in Callers, Call(w)
    PROVE  ReplayInv'
<1>1. PICK rows \in SUBSET raw :
         Goto(w, "replay", [NoJob EXCEPT !.selected = rows, !.todo = rows])
  BY DEF Call
<1> DEFINE k == [NoJob EXCEPT !.selected = rows, !.todo = rows]
<1>2. /\ k.selected = rows /\ k.todo = rows /\ k.failed = 0 /\ k.inserted = 0
      /\ k.image = NoJob.image
  BY DEF NoJob
<1>3. Shown(k.image, {})
  BY <1>2 DEF Shown, NoJob
<1> HIDE DEF k
<1>4. Told("replay", k)
  BY <1>2, <1>3 DEF Told
<1>5. QED
  BY <1>1, <1>4, StepTold DEF k, Workers

LEMMA LoadPayloadTold ==
    ASSUME TypeInv, ReplayInv, NEW w \in Workers, LoadPayload(w)
    PROVE  ReplayInv'
<1> DEFINE j == job[w]
           r == NextRow(j)
           k == [j EXCEPT !.row = r, !.todo = @ \ {r}]
<1>1. w \in Callers /\ j \in Jobs(raw)
  BY CallerAt DEF LoadPayload
<1>2. r \in j.todo /\ \A q \in j.todo : r.created <= q.created
  <2>1. j.todo \subseteq RawRows
    BY <1>1 DEF Jobs, TypeInv, TablesOK
  <2>2. QED
    BY <2>1, NextRowOldest DEF LoadPayload
<1>3. Told("replay", j)
  BY <1>1 DEF ReplayInv, LoadPayload
<1> HIDE DEF r
<1>4. /\ k.selected = j.selected /\ k.todo = j.todo \ {r} /\ k.row = r
      /\ k.failed = j.failed /\ k.inserted = j.inserted /\ k.image = j.image
  BY <1>1 DEF Jobs
<1>5. k.todo \cup {k.row} = j.todo
  BY <1>2, <1>4
<1> HIDE DEF j, k
<1>6. Told("write", k)
  BY <1>2, <1>3, <1>4, <1>5 DEF Told
<1>7. QED
  BY <1>6, StepTold DEF LoadPayload, j, k, r

LEMMA LoadFailsTold ==
    ASSUME TypeInv, ReplayInv, NEW w \in Workers, LoadFails(w)
    PROVE  ReplayInv'
<1> DEFINE j == job[w]
           r == NextRow(j)
           k == [j EXCEPT !.todo = @ \ {r}, !.failed = @ + 1]
<1>1. w \in Callers /\ j \in Jobs(raw) /\ Told("replay", j)
  BY CallerAt DEF LoadFails, ReplayInv
<1> HIDE DEF r
<1>2. /\ k.selected = j.selected /\ k.todo = j.todo \ {r}
      /\ k.failed # 0 /\ k.inserted = j.inserted /\ k.image = j.image
  BY <1>1 DEF Jobs
<1> HIDE DEF j, k
<1>3. Told("replay", k)
  BY <1>1, <1>2 DEF Told
<1>4. QED
  BY <1>3, StepTold DEF LoadFails, j, k, r

LEMMA UpsertTold ==
    ASSUME TypeInv, ReplayInv, NEW w \in Workers, Upsert(w)
    PROVE  ReplayInv'
<1> DEFINE j == job[w]
           k == [j EXCEPT !.done = @ \cup {NextKey(w)}]
<1>1. w \in Callers /\ j \in Jobs(raw) /\ Told("write", j)
  BY CallerAt DEF Upsert, Writing, ReplayInv
<1>2. /\ k.selected = j.selected /\ k.todo = j.todo /\ k.row = j.row
      /\ k.failed = j.failed /\ k.inserted = j.inserted /\ k.image = j.image
  BY <1>1 DEF Jobs
<1> HIDE DEF j, k
<1>3. Told("write", k)
  BY <1>1, <1>2 DEF Told
<1>4. QED
  BY <1>3, StepTold DEF Upsert, j, k

LEMMA RowDoneTold ==
    ASSUME TypeInv, ReplayInv, NEW w \in Workers, RowDone(w)
    PROVE  ReplayInv'
<1> DEFINE j == job[w]
           k == [j EXCEPT !.image = [t \in Keys |-> IF t \in j.done THEN j.row.created
                                                    ELSE @[t]],
                          !.inserted = @ + Cardinality(j.row.ts),
                          !.row = NoRow, !.done = {}]
<1>1. w \in Callers /\ j \in Jobs(raw) /\ Told("write", j) /\ CallerOK("write", j)
  BY CallerAt DEF RowDone, ReplayInv
<1>2. /\ j.row \in j.selected /\ j.row \notin j.todo /\ j.todo \subseteq j.selected
      /\ j.done = j.row.ts
  BY <1>1 DEF CallerOK, RowDone
<1>3. /\ k.selected = j.selected /\ k.todo = j.todo /\ k.failed = j.failed
      /\ k.inserted = j.inserted + Cardinality(j.row.ts)
      /\ \A t \in Keys : k.image[t] = IF t \in j.row.ts THEN j.row.created
                                      ELSE j.image[t]
  BY <1>1, <1>2 DEF Jobs
<1>4. PICK rows \in SUBSET (j.selected \ (j.todo \cup {j.row})) :
         /\ Shown(j.image, rows)
         /\ \A r \in rows, q \in j.todo \cup {j.row} : r.created <= q.created
         /\ j.failed = 0 => rows = j.selected \ (j.todo \cup {j.row})
         /\ j.inserted = 0 => \A r \in rows : r.ts = {}
  BY <1>1 DEF Told
<1> DEFINE more == rows \cup {j.row}
<1>5. k.inserted = 0 => \A r \in more : r.ts = {}
  <2>1. /\ j.inserted \in Nat /\ Cardinality(j.row.ts) \in Nat
        /\ IsFiniteSet(j.row.ts)
    BY <1>1, FiniteData DEF Jobs
  <2>2. k.inserted = 0 => j.inserted = 0 /\ Cardinality(j.row.ts) = 0
    BY <1>3, <2>1
  <2>3. k.inserted = 0 => j.row.ts = {}
    BY <2>1, <2>2, FS_EmptySet
  <2>4. QED
    BY <1>4, <2>2, <2>3
<1>6. \A r \in more, q \in j.todo : r.created <= q.created
  BY <1>1, <1>4 DEF Told
<1>7. \A r \in more : r.created \in Nat /\ r.created <= j.row.created
  <2>1. j.selected \subseteq RawRows
    BY <1>1 DEF Jobs, TypeInv, TablesOK
  <2>2. \A r \in more : r.created \in Nat
    BY <1>2, <1>4, <2>1 DEF RawRows, Stamps
  <2>3. QED
    BY <1>4, <2>2
<1> HIDE DEF j, k
<1>8. Shown(k.image, more)
  <2> SUFFICES ASSUME NEW t \in Keys
               PROVE  \/ k.image[t] = 0 /\ \A r \in more : t \notin r.ts
                      \/ \E r \in more :
                            /\ t \in r.ts
                            /\ k.image[t] = r.created
                            /\ \A q \in more : t \in q.ts => q.created <= r.created
    BY DEF Shown
  <2>1. CASE t \in j.row.ts
    BY <1>3, <1>7, <2>1
  <2>2. CASE t \notin j.row.ts
    BY <1>3, <1>4, <2>2 DEF Shown
  <2>3. QED
    BY <2>1, <2>2
<1>9. more \in SUBSET (k.selected \ k.todo) /\ (k.failed = 0 => more = k.selected \ k.todo)
  BY <1>2, <1>3, <1>4
<1> HIDE DEF more
<1>10. Told("replay", k)
  BY <1>3, <1>5, <1>6, <1>8, <1>9 DEF Told
<1>11. QED
  BY <1>10, StepTold DEF RowDone, j, k

LEMMA AbandonRowTold ==
    ASSUME TypeInv, ReplayInv, NEW w \in Callers, pc[w] = "write", AbandonRow(w)
    PROVE  ReplayInv'
<1> DEFINE j == job[w]
           k == [j EXCEPT !.row = NoRow, !.done = {}, !.failed = @ + 1]
<1>1. w \in Workers /\ j \in Jobs(raw) /\ Told("write", j)
  BY CallerAt DEF Workers, ReplayInv
<1>2. /\ k.selected = j.selected /\ k.todo = j.todo
      /\ k.failed # 0 /\ k.inserted = j.inserted /\ k.image = j.image
  BY <1>1 DEF Jobs
<1> HIDE DEF j, k
<1>3. Told("replay", k)
  BY <1>1, <1>2 DEF Told
<1>4. QED
  BY <1>1, <1>3, StepTold DEF AbandonRow, j, k

LEMMA FinishTold ==
    ASSUME TypeInv, ReplayInv, NEW w \in Workers, pc[w] = "replay", job[w].todo = {},
           NEW run, NEW b, run.inserted = job[w].inserted,
           ~run.error => job[w].failed = 0,
           Goto(w, "commit", [job[w] EXCEPT !.run = run, !.bounds = b])
    PROVE  ReplayInv'
<1> DEFINE j == job[w]
           k == [j EXCEPT !.run = run, !.bounds = b]
<1>1. w \in Callers /\ j \in Jobs(raw) /\ Told("replay", j)
  BY CallerAt DEF ReplayInv
<1>2. /\ k.selected = j.selected /\ k.todo = j.todo /\ k.failed = j.failed
      /\ k.inserted = j.inserted /\ k.image = j.image /\ k.run = run
  BY <1>1 DEF Jobs
<1>3. j.todo = {} /\ run.inserted = j.inserted /\ (~run.error => j.failed = 0)
  OBVIOUS
<1> HIDE DEF j, k
<1>4. Told("commit", k)
  BY <1>1, <1>2, <1>3 DEF Told
<1>5. QED
  BY <1>4, StepTold DEF j, k

LEMMA SyncTold ==
    ASSUME TypeInv, ReplayInv, NEW w \in Workers, Sync(w)
    PROVE  ReplayInv'
<1>1. job[w] \in Jobs(raw)
  BY CallerAt DEF Sync
<1>2. Status(job[w]).inserted = job[w].inserted
  BY DEF Status
<1>3. ~Status(job[w]).error => job[w].failed = 0
  <2>1. Status(job[w]).error = (job[w].failed > 0)
    BY Zenon DEF Status
  <2>2. job[w].failed \in Nat
    BY <1>1 DEF Jobs
  <2>3. ~(job[w].failed > 0) => job[w].failed = 0
    BY <2>2
  <2>4. QED
    BY <2>1, <2>3, Zenon
<1>4. QED
  BY <1>2, <1>3, FinishTold DEF Sync

LEMMA FinalizeRaisesTold ==
    ASSUME TypeInv, ReplayInv, NEW w \in Callers, FinalizeRaises(w)
    PROVE  ReplayInv'
<1> DEFINE run == [Status(job[w]) EXCEPT !.status = "failed", !.error = TRUE]
<1>1. w \in Workers
  BY DEF Workers
<1>2. run.inserted = job[w].inserted /\ run.error
  BY DEF Status
<1>3. PICK b : Goto(w, "commit", [job[w] EXCEPT !.run = run, !.bounds = b])
  BY DEF FinalizeRaises
<1> HIDE DEF run
<1>4. QED
  BY <1>1, <1>2, <1>3, FinishTold DEF FinalizeRaises

\* What an ingester does is no matter here.
LEMMA IngesterTold ==
    ASSUME TypeInv, ReplayInv, NEW w \in Workers, w \notin Callers,
           NEW l, NEW j, Goto(w, l, j)
    PROVE  ReplayInv'
BY StepTold

LEMMA ReplayStep == TypeInv /\ ReplayInv /\ [Next]_vars => ReplayInv'
<1> SUFFICES ASSUME TypeInv, ReplayInv, [Next]_vars PROVE ReplayInv'
  OBVIOUS
<1>1. ASSUME NEW w \in Callers, Call(w) \/ RowFails(w) \/ FinalizeRaises(w)
      PROVE  ReplayInv'
  BY <1>1, CallTold, AbandonRowTold, FinalizeRaisesTold DEF RowFails
<1>2. ASSUME NEW i \in Ingesters, Fetch(i) PROVE ReplayInv'
  <2>1. i \in Workers /\ i \notin Callers
    BY ReprocessAssumption DEF Workers
  <2>2. QED
    BY <1>2, <2>1, IngesterTold DEF Fetch
<1>3. ASSUME NEW w \in Workers, Work(w) PROVE ReplayInv'
  <2>1. CASE LoadPayload(w) \/ LoadFails(w) \/ Upsert(w) \/ RowDone(w) \/ Sync(w)
    BY <2>1, LoadPayloadTold, LoadFailsTold, UpsertTold, RowDoneTold, SyncTold
  <2>2. CASE Victim(w)
    <3>1. pc[w] = "write"
      BY <2>2 DEF Victim, Deadlocked, WaitsFor, Writing
    <3>2. QED
      BY <2>2, <3>1, AbandonRowTold, LeaveTold DEF Victim
  <2>3. CASE Commit(w) \/ CommitFetch(w)
    BY <2>3, LeaveTold DEF Commit, CommitFetch
  <2>4. CASE PutObject(w) \/ PutFails(w) \/ CreateRaw(w)
    <3>1. w \notin Callers
      BY <2>4, IngesterAt DEF PutObject, PutFails, CreateRaw
    <3>2. QED
      BY <2>4, <3>1, IngesterTold DEF PutObject, PutFails, CreateRaw
  <2>5. CASE Insert(w)
    <3>1. w \notin Callers
      BY <2>5, ReprocessAssumption DEF Insert
    <3>2. QED
      BY <2>5, <3>1, IngesterTold DEF Insert
  <2>6. QED
    BY <1>3, <2>1, <2>2, <2>3, <2>4, <2>5 DEF Work
<1>4. ASSUME NEW w \in Workers, Rollback(w) PROVE ReplayInv'
  BY <1>4, LeaveTold DEF Rollback
<1>5. CASE Rest \/ UNCHANGED vars
  BY <1>5 DEF Rest, vars, ReplayInv
<1>6. QED
  BY <1>1, <1>2, <1>3, <1>4, <1>5 DEF Next

LEMMA ReplayInvRunTellsTruth == TypeInv /\ ReplayInv => RunTellsTruth
<1> SUFFICES ASSUME TypeInv, ReplayInv, NEW w \in Callers, pc[w] = "commit"
             PROVE  LET j == job[w]
                        last == [t \in Keys |->
                                   Max({0} \cup {r.created : r \in {q \in j.selected :
                                                                    t \in q.ts}})]
                    IN  /\ ~j.run.error => j.image = last
                        /\ j.run.inserted = 0 => j.image = NoJob.image
  BY DEF RunTellsTruth
<1> DEFINE j == job[w]
           Having(t) == {0} \cup {r.created : r \in {q \in j.selected : t \in q.ts}}
<1>1. j \in Jobs(raw) /\ Told("commit", j)
  BY CallerAt DEF ReplayInv, Workers
<1>2. j.image \in [Keys -> Nat] /\ j.selected \subseteq RawRows
  BY <1>1 DEF Jobs, TypeInv, TablesOK
<1>3. PICK rows \in SUBSET j.selected :
         /\ Shown(j.image, rows)
         /\ j.failed = 0 => rows = j.selected
         /\ j.inserted = 0 => \A r \in rows : r.ts = {}
  BY <1>1 DEF Told
<1>4. ASSUME ~j.run.error, NEW t \in Keys PROVE j.image[t] = Max(Having(t))
  <2>1. Shown(j.image, j.selected)
    BY <1>1, <1>3, <1>4 DEF Told
  <2>2. Having(t) \subseteq Nat
    <3>1. \A r \in j.selected : r.created \in Nat
      BY <1>2 DEF RawRows, Stamps
    <3>2. \A x \in Having(t) : x \in Nat
      BY <3>1
    <3>3. QED
      BY <3>2
  <2>3. j.image[t] \in Having(t) /\ \A n \in Having(t) : n <= j.image[t]
    <3>1. CASE j.image[t] = 0 /\ \A r \in j.selected : t \notin r.ts
      BY <3>1
    <3>2. CASE \E r \in j.selected :
                  /\ t \in r.ts
                  /\ j.image[t] = r.created
                  /\ \A q \in j.selected : t \in q.ts => q.created <= r.created
      BY <1>2, <3>2
    <3>3. QED
      BY <2>1, <3>1, <3>2 DEF Shown
  <2> HIDE DEF Having
  <2>4. QED
    BY <2>2, <2>3, MaxUnique
<1>5. ASSUME j.run.inserted = 0, NEW t \in Keys PROVE j.image[t] = 0
  <2>1. \A r \in rows : r.ts = {}
    BY <1>1, <1>3, <1>5 DEF Told
  <2>2. QED
    BY <1>3, <2>1 DEF Shown
<1>6. QED
  BY <1>2, <1>4, <1>5 DEF NoJob

LEMMA InitReplay == Init => ReplayInv
<1>1. Init => \A w \in Callers : pc[w] = "idle" /\ job[w] = NoJob
  BY DEF Init, Workers
<1>2. QED
  BY <1>1, NoJobTold DEF ReplayInv

\* A run says what it did, for any number of raw rows that fail in any order.
THEOREM ReprocessRunTellsTruth == Spec => []RunTellsTruth
<1>1. Spec => [](TypeInv /\ ReplayInv)
  BY InitType, InitReplay, TypeStep, ReplayStep, PTL DEF Spec
<1>2. QED
  BY <1>1, ReplayInvRunTellsTruth, PTL

-----------------------------------------------------------------------------
\* Locks, and what an ingester found and inserted.

\* Held, of what a worker knows.
HeldBy(w, j) ==
    {t \in Keys : j.image[t] # 0} \cup (IF w \in Callers THEN j.done ELSE j.new)

\* No two transactions have written the same bar.
Exclusive == \A v, w \in Workers : v # w => Held(v) \cap Held(w) = {}

\* The bars of its payload an ingester has looked at are there, or it has
\* inserted them and nobody else has.
Fetched(j) ==
    /\ j.new \subseteq j.done
    /\ \A t \in j.new : bars[t] = 0
    /\ \A t \in j.done \ j.new : bars[t] # 0

LockInv == Exclusive /\ \A i \in Ingesters : Fetched(job[i])

LEMMA HeldIs == \A w : Held(w) = HeldBy(w, job[w])
BY DEF Held, HeldBy

LEMMA NoJobHolds ==
    /\ \A w : HeldBy(w, NoJob) = {}
    /\ NoJob.new = {} /\ NoJob.done = {}
BY DEF HeldBy, NoJob

LEMMA StepExclusive ==
    ASSUME TypeInv, Exclusive, NEW w \in Workers, NEW l, NEW k, Goto(w, l, k),
           \A v \in Workers \ {w} : HeldBy(w, k) \cap Held(v) = {}
    PROVE  Exclusive'
<1>1. \A v \in Workers : job'[v] = IF v = w THEN k ELSE job[v]
  BY DEF Goto, TypeInv
<1>2. \A v \in Workers : Held(v)' = HeldBy(v, job'[v])
  BY DEF Held, HeldBy
<1>3. \A v \in Workers : Held(v)' = IF v = w THEN HeldBy(w, k) ELSE Held(v)
  BY <1>1, <1>2, HeldIs
<1>4. ASSUME NEW u \in Workers, NEW v \in Workers, u # v
      PROVE  Held(u)' \cap Held(v)' = {}
  <2>1. Held(u) \cap Held(v) = {}
    BY <1>4 DEF Exclusive
  <2>2. CASE u = w
    BY <1>3, <1>4, <2>2
  <2>3. CASE v = w
    BY <1>3, <1>4, <2>3
  <2>4. CASE u # w /\ v # w
    BY <1>3, <2>1, <2>4
  <2>5. QED
    BY <2>2, <2>3, <2>4
<1>5. QED
  BY <1>4 DEF Exclusive

\* A step that locks nothing more and commits no bars.
LEMMA StepLocks ==
    ASSUME TypeInv, LockInv, NEW w \in Workers, NEW l, NEW k, Goto(w, l, k),
           UNCHANGED bars, HeldBy(w, k) \subseteq Held(w),
           w \in Ingesters => Fetched(k)
    PROVE  LockInv'
<1>1. Exclusive'
  BY StepExclusive DEF LockInv, Exclusive
<1>2. ASSUME NEW i \in Ingesters PROVE Fetched(job[i])'
  <2>1. job'[i] = IF i = w THEN k ELSE job[i]
    BY DEF Goto, TypeInv, Workers
  <2>2. QED
    BY <2>1 DEF LockInv, Fetched
<1>3. QED
  BY <1>1, <1>2 DEF LockInv

\* The end of a transaction, which may commit bars it has locked.
LEMMA LeaveLocks ==
    ASSUME TypeInv, LockInv, NEW w \in Workers, Leave(w),
           \A t \in Keys : /\ bars[t] # 0 => bars'[t] # 0
                           /\ bars[t] = 0 /\ bars'[t] # 0 => t \in Held(w)
    PROVE  LockInv'
<1>1. Exclusive'
  BY NoJobHolds, StepExclusive DEF LockInv, Leave
<1>2. ASSUME NEW i \in Ingesters PROVE Fetched(job[i])'
  <2>1. i \in Workers /\ job'[i] = IF i = w THEN NoJob ELSE job[i]
    BY DEF Leave, Goto, TypeInv, Workers
  <2>2. CASE i = w
    BY <2>1, <2>2, NoJobHolds DEF Fetched
  <2>3. CASE i # w
    <3>1. /\ job[i] \in Jobs(raw) /\ i \notin Callers
      BY <2>1, IngesterAt
    <3>2. job[i].new \subseteq Keys /\ job[i].done \subseteq Keys
      BY <3>1 DEF Jobs
    <3>3. job[i].new \subseteq Held(i)
      BY <3>1 DEF Held
    <3>4. Held(i) \cap Held(w) = {}
      BY <2>1, <2>3 DEF LockInv, Exclusive
    <3>5. Fetched(job[i])
      BY DEF LockInv
    <3>6. \A t \in job[i].new : bars'[t] = 0
      BY <3>2, <3>3, <3>4, <3>5 DEF Fetched
    <3>7. \A t \in job[i].done \ job[i].new : bars'[t] # 0
      BY <3>2, <3>5 DEF Fetched
    <3>8. QED
      BY <2>1, <2>3, <3>5, <3>6, <3>7 DEF Fetched
  <2>4. QED
    BY <2>2, <2>3
<1>3. QED
  BY <1>1, <1>2 DEF LockInv

\* What a caller does to its own locals, when it writes no bar.
LEMMA CallerLocks ==
    ASSUME TypeInv, LockInv, NEW w \in Workers, w \in Callers, NEW l, NEW k,
           Goto(w, l, k), UNCHANGED bars,
           \A t \in Keys : k.image[t] # 0 => job[w].image[t] # 0 \/ t \in job[w].done,
           k.done \subseteq job[w].done
    PROVE  LockInv'
<1>1. HeldBy(w, k) \subseteq Held(w)
  BY DEF Held, HeldBy
<1>2. QED
  BY <1>1, CallerAt, StepLocks

LEMMA CallLocks ==
    ASSUME TypeInv, LockInv, NEW w \in Callers, Call(w)
    PROVE  LockInv'
<1>1. PICK rows \in SUBSET raw :
         Goto(w, "replay", [NoJob EXCEPT !.selected = rows, !.todo = rows])
  BY DEF Call
<1> DEFINE k == [NoJob EXCEPT !.selected = rows, !.todo = rows]
<1>2. (\A t \in Keys : k.image[t] = 0) /\ k.done = {}
  BY DEF NoJob
<1>3. Goto(w, "replay", k)
  BY <1>1
<1> HIDE DEF k
<1>4. w \in Workers /\ UNCHANGED bars
  BY DEF Workers, Call, db
<1>5. QED
  BY <1>2, <1>3, <1>4, CallerLocks

LEMMA LoadLocks ==
    ASSUME TypeInv, LockInv, NEW w \in Workers, LoadPayload(w) \/ LoadFails(w)
    PROVE  LockInv'
<1> DEFINE j == job[w]
           r == NextRow(j)
           k1 == [j EXCEPT !.row = r, !.todo = @ \ {r}]
           k2 == [j EXCEPT !.todo = @ \ {r}, !.failed = @ + 1]
<1>1. w \in Callers /\ j \in Jobs(raw) /\ UNCHANGED bars
  BY CallerAt DEF LoadPayload, LoadFails, db
<1> HIDE DEF r
<1>2. /\ k1.image = j.image /\ k1.done = j.done
      /\ k2.image = j.image /\ k2.done = j.done
  BY <1>1 DEF Jobs
<1>3. Goto(w, "write", k1) \/ Goto(w, "replay", k2)
  BY DEF LoadPayload, LoadFails, r
<1> HIDE DEF k1, k2
<1>4. QED
  BY <1>1, <1>2, <1>3, CallerLocks

LEMMA RowDoneLocks ==
    ASSUME TypeInv, LockInv, NEW w \in Workers, RowDone(w)
    PROVE  LockInv'
<1> DEFINE j == job[w]
           k == [j EXCEPT !.image = [t \in Keys |-> IF t \in j.done THEN j.row.created
                                                    ELSE @[t]],
                          !.inserted = @ + Cardinality(j.row.ts),
                          !.row = NoRow, !.done = {}]
<1>1. w \in Callers /\ j \in Jobs(raw) /\ UNCHANGED bars
  BY CallerAt DEF RowDone, db
<1>2. /\ k.done = {}
      /\ \A t \in Keys : k.image[t] # 0 => j.image[t] # 0 \/ t \in j.done
  BY <1>1 DEF Jobs
<1>3. Goto(w, "replay", k)
  BY DEF RowDone
<1> HIDE DEF k
<1>4. QED
  BY <1>1, <1>2, <1>3, CallerLocks

LEMMA AbandonRowLocks ==
    ASSUME TypeInv, LockInv, NEW w \in Callers, AbandonRow(w), UNCHANGED bars
    PROVE  LockInv'
<1> DEFINE j == job[w]
           k == [j EXCEPT !.row = NoRow, !.done = {}, !.failed = @ + 1]
<1>1. w \in Workers /\ j \in Jobs(raw)
  BY CallerAt DEF Workers
<1>2. k.done = {} /\ k.image = j.image
  BY <1>1 DEF Jobs
<1>3. Goto(w, "replay", k)
  BY DEF AbandonRow
<1> HIDE DEF k
<1>4. QED
  BY <1>1, <1>2, <1>3, CallerLocks

LEMMA FinishLocks ==
    ASSUME TypeInv, LockInv, NEW w \in Workers, w \in Callers, NEW run, NEW b,
           Goto(w, "commit", [job[w] EXCEPT !.run = run, !.bounds = b]), UNCHANGED bars
    PROVE  LockInv'
<1> DEFINE k == [job[w] EXCEPT !.run = run, !.bounds = b]
<1>1. job[w] \in Jobs(raw)
  BY CallerAt
<1>2. k.done = job[w].done /\ k.image = job[w].image
  BY <1>1 DEF Jobs
<1>3. Goto(w, "commit", k)
  OBVIOUS
<1> HIDE DEF k
<1>4. QED
  BY <1>2, <1>3, CallerLocks

\* A statement goes on when no other transaction has written the bar.
LEMMA UpsertLocks ==
    ASSUME TypeInv, LockInv, NEW w \in Workers, Upsert(w)
    PROVE  LockInv'
<1> DEFINE j == job[w]
           k == [j EXCEPT !.done = @ \cup {NextKey(w)}]
<1>1. w \in Callers /\ w \notin Ingesters /\ j \in Jobs(raw)
  BY CallerAt DEF Upsert
<1>2. k.done = j.done \cup {NextKey(w)} /\ k.image = j.image
  BY <1>1 DEF Jobs
<1>3. HeldBy(w, k) = Held(w) \cup {NextKey(w)}
  BY <1>1, <1>2 DEF Held, HeldBy
<1>4. \A v \in Workers \ {w} : NextKey(w) \notin Held(v)
  BY DEF Upsert, WaitsFor
<1>5. Goto(w, "write", k) /\ UNCHANGED bars
  BY DEF Upsert, db
<1> HIDE DEF k
<1>6. Exclusive'
  BY <1>3, <1>4, <1>5, StepExclusive DEF LockInv, Exclusive
<1>7. \A i \in Ingesters : job'[i] = job[i]
  BY <1>1, <1>5 DEF Goto, TypeInv, Workers
<1>8. QED
  BY <1>5, <1>6, <1>7 DEF LockInv, Fetched

LEMMA InsertLocks ==
    ASSUME TypeInv, LockInv, NEW w \in Workers, Insert(w)
    PROVE  LockInv'
<1> DEFINE j == job[w]
           t == NextKey(w)
           new == IF bars[t] = 0 THEN j.new \cup {t} ELSE j.new
           k == [j EXCEPT !.done = @ \cup {t}, !.new = new]
<1>1. /\ w \in Ingesters /\ w \notin Callers /\ j \in Jobs(raw)
  BY IngesterAt DEF Insert
<1>2. t \notin j.done
  BY <1>1, NextKeyOpen, IngesterAt DEF Insert, Writing, Jobs
<1>3. Goto(w, "write", k) /\ UNCHANGED bars
  BY DEF Insert, db
<1>4. \A v \in Workers \ {w} : t \notin Held(v)
  BY DEF Insert, WaitsFor
<1> HIDE DEF t
<1>5. k.done = j.done \cup {t} /\ k.new = new /\ k.image = j.image
  BY <1>1 DEF Jobs
<1>6. HeldBy(w, k) \subseteq Held(w) \cup {t}
  BY <1>1, <1>5 DEF Held, HeldBy
<1>7. Fetched(k)
  <2>1. Fetched(j)
    BY <1>1 DEF LockInv
  <2> HIDE DEF j, k
  <2>2. QED
    BY <1>2, <1>5, <2>1 DEF Fetched
<1> HIDE DEF k, new
<1>8. Exclusive'
  BY <1>3, <1>4, <1>6, StepExclusive DEF LockInv, Exclusive
<1>9. \A i \in Ingesters : job'[i] = IF i = w THEN k ELSE job[i]
  BY <1>3 DEF Goto, TypeInv, Workers
<1>10. QED
  BY <1>3, <1>7, <1>8, <1>9 DEF LockInv, Fetched

\* An ingester that does not write.
LEMMA IngesterLocks ==
    ASSUME TypeInv, LockInv, NEW w \in Workers, w \in Ingesters, NEW l, NEW k,
           Goto(w, l, k), UNCHANGED bars, \A t \in Keys : k.image[t] # 0 => job[w].image[t] # 0,
           \/ k.new = {} /\ k.done = {}
           \/ k.new = job[w].new /\ k.done = job[w].done
    PROVE  LockInv'
<1>1. Fetched(job[w]) /\ w \notin Callers
  BY IngesterAt DEF LockInv
<1>2. HeldBy(w, k) \subseteq Held(w) /\ Fetched(k)
  BY <1>1 DEF Held, HeldBy, Fetched
<1>3. QED
  BY <1>2, StepLocks

LEMMA FetchLocks ==
    ASSUME TypeInv, LockInv, NEW w \in Ingesters, Fetch(w)
    PROVE  LockInv'
<1>1. PICK ts \in Payloads, l \in {"upload", "archive"} :
         Goto(w, l, [NoJob EXCEPT !.row.ts = ts])
  BY DEF Fetch
<1> DEFINE k == [NoJob EXCEPT !.row.ts = ts]
<1>2. /\ \A t \in Keys : k.image[t] = 0
      /\ k.new = {} /\ k.done = {}
  BY DEF NoJob
<1>3. w \in Workers /\ UNCHANGED bars
  BY DEF Workers, Fetch, db
<1> HIDE DEF k
<1>4. QED
  BY <1>1, <1>2, <1>3, IngesterLocks DEF k

LEMMA ArchiveLocks ==
    ASSUME TypeInv, LockInv, NEW w \in Workers,
           PutObject(w) \/ PutFails(w) \/ CreateRaw(w)
    PROVE  LockInv'
<1> DEFINE j == job[w]
           k1 == [j EXCEPT !.row.object = clock]
           k2 == [j EXCEPT !.row.created = clock]
<1>1. w \in Ingesters /\ j \in Jobs(raw) /\ UNCHANGED bars
  BY IngesterAt DEF PutObject, PutFails, CreateRaw, db
<1>2. /\ k1.image = j.image /\ k1.new = j.new /\ k1.done = j.done
      /\ k2.image = j.image /\ k2.new = j.new /\ k2.done = j.done
  BY <1>1 DEF Jobs
<1>3. Goto(w, "archive", k1) \/ Goto(w, "archive", j) \/ Goto(w, "write", k2)
  BY DEF PutObject, PutFails, CreateRaw
<1> HIDE DEF k1, k2
<1>4. QED
  BY <1>1, <1>2, <1>3, IngesterLocks

LEMMA CommitLocks ==
    ASSUME TypeInv, LockInv, NEW w \in Workers, Commit(w)
    PROVE  LockInv'
<1>1. bars' = Image(job[w]) /\ Leave(w)
  BY DEF Commit
<1>2. \A t \in Keys : bars'[t] = IF job[w].image[t] # 0 THEN job[w].image[t] ELSE bars[t]
  BY <1>1 DEF Image
<1>3. \A t \in Keys : job[w].image[t] # 0 => t \in Held(w)
  BY DEF Held
<1>4. QED
  BY <1>1, <1>2, <1>3, LeaveLocks

LEMMA CommitFetchLocks ==
    ASSUME TypeInv, LockInv, NEW w \in Workers, CommitFetch(w)
    PROVE  LockInv'
<1>1. /\ w \in Ingesters /\ w \notin Callers /\ job[w].row.created \in Stamps
      /\ job[w] \in Jobs(raw)
  BY IngesterAt DEF CommitFetch, IngesterOK
<1>2. /\ bars' = [t \in Keys |-> IF t \in job[w].new THEN job[w].row.created ELSE bars[t]]
      /\ Leave(w)
  BY DEF CommitFetch
<1>3. job[w].new \subseteq Held(w)
  BY <1>1 DEF Held
<1>4. job[w].row.created # 0
  BY <1>1 DEF Stamps
<1>5. QED
  BY <1>2, <1>3, <1>4, LeaveLocks

LEMMA LockStep == TypeInv /\ LockInv /\ [Next]_vars => LockInv'
<1> SUFFICES ASSUME TypeInv, LockInv, [Next]_vars PROVE LockInv'
  OBVIOUS
<1>1. ASSUME NEW w \in Callers, Call(w) \/ RowFails(w) \/ FinalizeRaises(w)
      PROVE  LockInv'
  <2>1. CASE Call(w) \/ RowFails(w)
    BY <2>1, CallLocks, AbandonRowLocks DEF RowFails, db
  <2>2. CASE FinalizeRaises(w)
    BY <2>2, FinishLocks DEF FinalizeRaises, Workers, db
  <2>3. QED
    BY <1>1, <2>1, <2>2
<1>2. ASSUME NEW i \in Ingesters, Fetch(i) PROVE LockInv'
  BY <1>2, FetchLocks
<1>3. ASSUME NEW w \in Workers, Leave(w), UNCHANGED bars PROVE LockInv'
  BY <1>3, LeaveLocks
<1>4. ASSUME NEW w \in Workers, Work(w) PROVE LockInv'
  <2>1. CASE Sync(w)
    BY <2>1, CallerAt, FinishLocks DEF Sync, db
  <2>2. CASE Victim(w)
    BY <1>3, <2>2, AbandonRowLocks DEF Victim, db
  <2>3. QED
    BY <1>4, <2>1, <2>2, LoadLocks, UpsertLocks, RowDoneLocks, CommitLocks,
       ArchiveLocks, InsertLocks, CommitFetchLocks DEF Work
<1>5. ASSUME NEW w \in Workers, Rollback(w) PROVE LockInv'
  BY <1>3, <1>5 DEF Rollback, db
<1>6. CASE Rest \/ UNCHANGED vars
  BY <1>6 DEF Rest, vars, LockInv, Exclusive, Held, Fetched
<1>7. QED
  BY <1>1, <1>2, <1>4, <1>5, <1>6 DEF Next

LEMMA InitLocks == Init => LockInv
<1> SUFFICES ASSUME Init PROVE LockInv
  OBVIOUS
<1>1. \A w \in Workers : job[w] = NoJob
  BY DEF Init
<1>2. \A w \in Workers : Held(w) = {}
  BY <1>1, NoJobHolds, HeldIs
<1>3. QED
  BY <1>1, <1>2, NoJobHolds DEF LockInv, Exclusive, Fetched, Workers

-----------------------------------------------------------------------------
\* Refinement.

\* A fetch inserts some steps before it commits; the locks say that what was
\* missing then is missing still.
LEMMA ArchiveStep ==
    ASSUME TypeInv, LockInv, NEW w \in Workers, CommitFetch(w)
    PROVE  History!Archive
<1> DEFINE j == job[w]
           row == [created |-> j.row.created, ts |-> j.row.ts]
<1>1. /\ w \in Ingesters /\ j \in Jobs(raw) /\ j.row.created \in Stamps
  BY IngesterAt DEF CommitFetch, IngesterOK
<1>2. row \in History!Rows
  BY <1>1 DEF Jobs, History!Rows
<1>3. Archived(raw') = Archived(raw) \cup {row}
  BY DEF CommitFetch, Archived
<1>4. /\ j.row.ts = j.done
      /\ bars' = [t \in Keys |-> IF t \in j.new THEN j.row.created ELSE bars[t]]
  BY DEF CommitFetch
<1>5. Fetched(j)
  BY <1>1 DEF LockInv
<1>6. ASSUME NEW t \in Keys
      PROVE  t \in j.new <=> t \in row.ts /\ bars[t] = 0
  BY <1>4, <1>5 DEF Fetched
<1>7. bars' = [t \in Keys |-> IF t \in row.ts /\ bars[t] = 0 THEN row.created
                              ELSE bars[t]]
  BY <1>4, <1>6
<1>8. QED
  BY <1>2, <1>3, <1>7 DEF History!Archive

\* A replay writes its bars one by one, and commits those of the latest of the
\* rows it replayed.
LEMMA RebuildStep ==
    ASSUME TypeInv, ReplayInv, NEW w \in Workers, Commit(w)
    PROVE  History!Rebuild
<1> DEFINE j == job[w]
<1>1. j \in Jobs(raw) /\ Told("commit", j)
  BY CallerAt DEF Commit, ReplayInv
<1>2. PICK rows \in SUBSET j.selected : Shown(j.image, rows)
  BY <1>1 DEF Told
<1>3. rows \subseteq raw /\ rows \subseteq RawRows
  BY <1>1 DEF Jobs, TypeInv, TablesOK
<1>4. Archived(rows) \in SUBSET Archived(raw)
  BY <1>3 DEF Archived
<1>5. bars' = [t \in Keys |-> IF j.image[t] # 0 THEN j.image[t] ELSE bars[t]]
  BY DEF Commit, Image
<1> HIDE DEF j
<1> DEFINE Having(t) == {r.created : r \in {q \in Archived(rows) : t \in q.ts}}
<1>6. ASSUME NEW t \in Keys
      PROVE  (IF j.image[t] # 0 THEN j.image[t] ELSE bars[t])
               = IF Having(t) = {} THEN bars[t] ELSE Max(Having(t))
  <2> DEFINE having == Having(t)
  <2>1. having = {r.created : r \in {q \in rows : t \in q.ts}}
    <3>1. ASSUME NEW n \in having PROVE \E r \in rows : t \in r.ts /\ n = r.created
      <4>1. PICK q \in Archived(rows) : t \in q.ts /\ n = q.created
        OBVIOUS
      <4>2. PICK r \in rows : q = [created |-> r.created, ts |-> r.ts]
        BY DEF Archived
      <4>3. QED
        BY <4>1, <4>2
    <3>2. ASSUME NEW r \in rows, t \in r.ts PROVE r.created \in having
      <4>1. [created |-> r.created, ts |-> r.ts] \in Archived(rows)
        BY DEF Archived
      <4>2. QED
        BY <3>2, <4>1
    <3>3. QED
      BY <3>1, <3>2
  <2>2. \A r \in rows : r.created \in Nat /\ r.created # 0
    BY <1>3 DEF RawRows, Stamps
  <2>3. CASE j.image[t] = 0 /\ \A r \in rows : t \notin r.ts
    BY <2>1, <2>3
  <2>4. CASE \E r \in rows : /\ t \in r.ts
                             /\ j.image[t] = r.created
                             /\ \A q \in rows : t \in q.ts => q.created <= r.created
    <3>1. /\ having \subseteq Nat
          /\ j.image[t] \in having /\ j.image[t] # 0
          /\ \A n \in having : n <= j.image[t]
      BY <2>1, <2>2, <2>4
    <3> HIDE DEF having
    <3>2. Max(having) = j.image[t]
      BY <3>1, MaxUnique
    <3>3. QED
      BY <3>1, <3>2 DEF having
  <2>5. QED
    BY <1>2, <2>3, <2>4 DEF Shown
<1>7. bars' = History!Replayed(Archived(rows))
  <2>1. History!Replayed(Archived(rows))
          = [t \in Keys |-> IF Having(t) = {} THEN bars[t] ELSE Max(Having(t))]
    BY DEF History!Replayed, History!Max, Max
  <2> HIDE DEF Having
  <2>2. QED
    BY <1>5, <1>6, <2>1
<1>8. UNCHANGED Archived(raw)
  BY DEF Commit
<1>9. QED
  BY <1>4, <1>7, <1>8 DEF History!Rebuild

\* Every other step leaves bars and raw rows alone.
LEMMA HistoryStep ==
    TypeInv /\ ReplayInv /\ LockInv /\ [Next]_vars
        => [History!Archive \/ History!Rebuild]_<<bars, Archived(raw)>>
<1> SUFFICES ASSUME TypeInv, ReplayInv, LockInv, [Next]_vars,
                    ~UNCHANGED <<bars, raw>>
             PROVE  History!Archive \/ History!Rebuild
  OBVIOUS
<1>1. ASSUME NEW w \in Workers, Work(w) PROVE History!Archive \/ History!Rebuild
  <2>1. Commit(w) \/ CommitFetch(w)
    BY <1>1 DEF Work, LoadPayload, LoadFails, Upsert, RowDone, Victim, Sync, PutObject,
                PutFails, CreateRaw, Insert, db
  <2>2. QED
    BY <2>1, ArchiveStep, RebuildStep
<1>2. PICK w \in Workers : Work(w)
  BY DEF Next, Call, RowFails, FinalizeRaises, Fetch, Rollback, Rest, vars, db
<1>3. QED
  BY <1>1, <1>2

\* Bars and raw rows behave as BarHistory says, however many transactions
\* write, wait, fail and deadlock at once.
THEOREM ReprocessImplementsHistory == Spec => ImplementsHistory
<1>1. Spec => [](TypeInv /\ ReplayInv /\ LockInv)
  BY InitType, InitReplay, InitLocks, TypeStep, ReplayStep, LockStep, PTL DEF Spec
<1>2. Init => History!Init
  BY DEF Init, History!Init
<1>3. QED
  BY <1>1, <1>2, HistoryStep, PTL DEF Spec, ImplementsHistory, History!Spec

-----------------------------------------------------------------------------
\* Coverage.

\* A stored bar stays stored.
LEMMA BarsStay ==
    ASSUME TypeInv, [Next]_vars, NEW t \in Keys, bars[t] # 0
    PROVE  bars'[t] # 0
<1>1. ASSUME NEW w \in Workers, Commit(w) PROVE bars'[t] # 0
  BY <1>1 DEF Commit, Image
<1>2. ASSUME NEW w \in Workers, CommitFetch(w) PROVE bars'[t] # 0
  <2>1. job[w].row.created # 0
    BY <1>2, IngesterAt DEF CommitFetch, IngesterOK, Stamps
  <2>2. QED
    BY <1>2, <2>1 DEF CommitFetch
<1>3. CASE UNCHANGED bars
  BY <1>3
<1>4. \/ \E w \in Workers : Commit(w) \/ CommitFetch(w)
      \/ UNCHANGED bars
  BY DEF Next, Call, RowFails, FinalizeRaises, Fetch, Rollback, Rest, Work, LoadPayload,
         LoadFails, Upsert, RowDone, Victim, Sync, PutObject, PutFails, CreateRaw,
         Insert, vars, db
<1>5. QED
  BY <1>1, <1>2, <1>3, <1>4

\* The bounds a call is about to write are a bar that is stored or that it
\* stores.
Bounded(l, j) == l = "commit" /\ j.bounds # 0 => Image(j)[j.bounds] # 0

CoverageInv ==
    /\ CoverageStored
    /\ \A w \in Callers : Bounded(pc[w], job[w])

\* Who is about to commit was so before, or has just read the bounds.
LEMMA AboutToCommit ==
    ASSUME TypeInv, [Next]_vars, NEW v \in Callers, pc'[v] = "commit"
    PROVE  \/ pc[v] = "commit" /\ job'[v] = job[v]
           \/ Sync(v) \/ FinalizeRaises(v)
<1>1. v \in Workers
  BY DEF Workers
<1>2. ASSUME NEW w \in Workers, NEW l, NEW k, Goto(w, l, k), l # "commit"
      PROVE  pc[v] = "commit" /\ job'[v] = job[v]
  BY <1>1, <1>2 DEF Goto, TypeInv
<1>3. ASSUME NEW w \in Workers, NEW l, NEW k, Goto(w, l, k), v # w
      PROVE  pc[v] = "commit" /\ job'[v] = job[v]
  BY <1>1, <1>3 DEF Goto, TypeInv
<1>4. ASSUME NEW w \in Callers, Call(w) \/ RowFails(w)
      PROVE  pc[v] = "commit" /\ job'[v] = job[v]
  <2>1. w \in Workers /\ \E k : Goto(w, "replay", k)
    BY <1>4 DEF Call, RowFails, AbandonRow, Workers
  <2>2. QED
    BY <1>2, <2>1
<1>5. ASSUME NEW w \in Callers, FinalizeRaises(w), v # w
      PROVE  pc[v] = "commit" /\ job'[v] = job[v]
  <2>1. w \in Workers /\ \E k : Goto(w, "commit", k)
    BY <1>5 DEF FinalizeRaises, Workers
  <2>2. QED
    BY <1>3, <1>5, <2>1
<1>6. ASSUME NEW w \in Workers, Sync(w), v # w
      PROVE  pc[v] = "commit" /\ job'[v] = job[v]
  <2>1. \E k : Goto(w, "commit", k)
    BY <1>6 DEF Sync
  <2>2. QED
    BY <1>3, <1>6, <2>1
<1>7. ASSUME NEW i \in Ingesters, Fetch(i) PROVE pc[v] = "commit" /\ job'[v] = job[v]
  <2>1. i \in Workers /\ \E l \in {"upload", "archive"} : \E k : Goto(i, l, k)
    BY <1>7 DEF Fetch, Workers
  <2>2. QED
    BY <1>2, <2>1
<1>8. ASSUME NEW w \in Workers, Work(w), ~Sync(w)
      PROVE  pc[v] = "commit" /\ job'[v] = job[v]
  <2>1. \E l \in {"idle", "replay", "write", "archive"} : \E k : Goto(w, l, k)
    BY <1>8 DEF Work, LoadPayload, LoadFails, Upsert, RowDone, Victim, AbandonRow, Leave,
                Commit, PutObject, PutFails, CreateRaw, Insert, CommitFetch
  <2>2. QED
    BY <1>2, <2>1
<1>9. ASSUME NEW w \in Workers, Rollback(w) PROVE pc[v] = "commit" /\ job'[v] = job[v]
  BY <1>2, <1>9 DEF Rollback, Leave
<1>10. CASE Rest \/ UNCHANGED vars
  BY <1>10 DEF Rest, vars
<1>11. QED
  BY <1>4, <1>5, <1>6, <1>7, <1>8, <1>9, <1>10 DEF Next

LEMMA FinishBounded ==
    ASSUME TypeInv, NEW w \in Callers, Sync(w) \/ FinalizeRaises(w)
    PROVE  Bounded("commit", job[w])'
<1> DEFINE j == job[w]
<1>1. w \in Workers /\ j \in Jobs(raw) /\ UNCHANGED bars
  BY CallerAt DEF Workers, Sync, FinalizeRaises, db
<1>2. PICK run, b : /\ b \in {Synced(j), 0}
                    /\ job' = [job EXCEPT ![w] = [j EXCEPT !.run = run, !.bounds = b]]
  <2>1. CASE Sync(w)
    BY <2>1 DEF Sync, Goto
  <2>2. CASE FinalizeRaises(w)
    BY <2>2 DEF FinalizeRaises, Goto
  <2>3. QED
    BY <2>1, <2>2
<1>3. job'[w].image = j.image /\ job'[w].bounds = b
  BY <1>1, <1>2 DEF Jobs, TypeInv
<1>4. b # 0 => Image(j)[b] # 0
  <2>1. Image(j) \in [Keys -> Nat]
    BY <1>1, SyncedType
  <2>2. BoundsOf(j) # 0 => Image(j)[BoundsOf(j)] # 0
    BY <2>1, LastBarStored DEF BoundsOf
  <2>3. Synced(j) # 0 => Synced(j) = BoundsOf(j)
    BY DEF Synced
  <2>4. QED
    BY <1>2, <2>2, <2>3
<1>5. Image(job[w])' = Image(j)
  BY <1>1, <1>3 DEF Image
<1>6. QED
  BY <1>3, <1>4, <1>5 DEF Bounded

LEMMA BoundedStep ==
    ASSUME TypeInv, CoverageInv, [Next]_vars, NEW v \in Callers
    PROVE  Bounded(pc[v], job[v])'
<1>1. SUFFICES ASSUME pc'[v] = "commit" PROVE Bounded("commit", job[v])'
  BY DEF Bounded
<1>2. CASE pc[v] = "commit" /\ job'[v] = job[v]
  <2>1. job[v] \in Jobs(raw)
    BY CallerAt DEF Workers
  <2>2. job[v].bounds \in Keys \cup {0}
    BY <2>1 DEF Jobs
  <2>3. Bounded("commit", job[v])
    BY <1>2 DEF CoverageInv
  <2>4. \A t \in Keys : Image(job[v])[t] # 0 => Image(job[v])'[t] # 0
    BY <1>2, BarsStay DEF Image
  <2>5. QED
    BY <1>2, <2>2, <2>3, <2>4 DEF Bounded
<1>3. CASE Sync(v) \/ FinalizeRaises(v)
  BY <1>3, FinishBounded
<1>4. QED
  BY <1>1, <1>2, <1>3, AboutToCommit

LEMMA CoverageStep == TypeInv /\ TypeInv' /\ CoverageInv /\ [Next]_vars => CoverageInv'
<1> SUFFICES ASSUME TypeInv, TypeInv', CoverageInv, [Next]_vars PROVE CoverageInv'
  OBVIOUS
<1>1. cov \in Keys \cup {0} /\ bars' \in [Keys -> Nat]
  BY DEF TypeInv, TablesOK
<1>2. cov' = cov => CoverageStored'
  BY <1>1, BarsStay DEF CoverageInv, CoverageStored
<1>3. ASSUME NEW w \in Workers, Commit(w) PROVE CoverageStored'
  <2>1. w \in Callers /\ Bounded("commit", job[w])
    BY <1>3 DEF Commit, CoverageInv
  <2>2. CASE job[w].bounds # 0
    BY <1>3, <2>1, <2>2 DEF Commit, Bounded, CoverageStored
  <2>3. CASE job[w].bounds = 0
    BY <1>2, <1>3, <2>3 DEF Commit
  <2>4. QED
    BY <2>2, <2>3
<1>4. ASSUME NEW w \in Workers, CommitFetch(w) PROVE CoverageStored'
  <2>1. CASE cov' = LastBar(bars')
    BY <1>1, <2>1, LastBarStored DEF CoverageStored
  <2>2. CASE cov' = cov
    BY <1>2, <2>2
  <2>3. QED
    BY <1>4, <2>1, <2>2 DEF CommitFetch
<1>5. \/ \E w \in Workers : Commit(w) \/ CommitFetch(w)
      \/ UNCHANGED cov
  BY DEF Next, Call, RowFails, FinalizeRaises, Fetch, Rollback, Rest, Work, LoadPayload,
         LoadFails, Upsert, RowDone, Victim, Sync, PutObject, PutFails, CreateRaw,
         Insert, vars, db
<1>6. QED
  BY <1>2, <1>3, <1>4, <1>5, BoundedStep DEF CoverageInv

\* coverage_end is a stored bar, although a call reads the bounds some steps
\* before it commits and others commit in between.
THEOREM ReprocessCoverageStored == Spec => []CoverageStored
<1>1. Init => CoverageInv
  <2>1. Init => cov = 0 /\ \A w \in Callers : pc[w] = "idle"
    BY DEF Init, Workers
  <2>2. QED
    BY <2>1 DEF CoverageInv, CoverageStored, Bounded
<1>2. Spec => [](TypeInv /\ CoverageInv)
  BY <1>1, InitType, TypeStep, CoverageStep, PTL DEF Spec
<1>3. QED
  BY <1>2, PTL DEF CoverageInv

-----------------------------------------------------------------------------
\* The object store.

\* What an ingester is about to archive can be read, too.
ObjectsInv ==
    /\ PayloadsReachable
    /\ \A i \in Ingesters : job[i].row.object \in objects \cup {0}

LEMMA StepObjects ==
    ASSUME TypeInv, ObjectsInv, NEW w \in Workers, NEW l, NEW k, Goto(w, l, k),
           objects \subseteq objects', raw' = raw,
           w \in Ingesters => k.row.object \in objects' \cup {0}
    PROVE  ObjectsInv'
<1>1. \A i \in Ingesters : job'[i] = IF i = w THEN k ELSE job[i]
  BY DEF Goto, TypeInv, Workers
<1>2. QED
  BY <1>1 DEF ObjectsInv, PayloadsReachable

LEMMA ObjectsStep == TypeInv /\ ObjectsInv /\ [Next]_vars => ObjectsInv'
<1> SUFFICES ASSUME TypeInv, ObjectsInv, [Next]_vars PROVE ObjectsInv'
  OBVIOUS
<1>1. NoJob.row.object = 0
  BY DEF NoJob, NoRow
<1>2. ASSUME NEW w \in Workers, w \notin Ingesters, NEW l, NEW k, Goto(w, l, k),
             UNCHANGED <<objects, raw>>
      PROVE  ObjectsInv'
  BY <1>2, StepObjects
<1>3. ASSUME NEW w \in Workers, Leave(w), UNCHANGED <<objects, raw>>
      PROVE  ObjectsInv'
  BY <1>1, <1>3, StepObjects DEF Leave
<1>4. ASSUME NEW w \in Callers, Call(w) \/ RowFails(w) \/ FinalizeRaises(w)
      PROVE  ObjectsInv'
  <2>1. w \in Workers /\ w \notin Ingesters
    BY ReprocessAssumption DEF Workers
  <2>2. (\E l, k : Goto(w, l, k)) /\ UNCHANGED <<objects, raw>>
    BY <1>4 DEF Call, RowFails, AbandonRow, FinalizeRaises, db
  <2>3. QED
    BY <1>2, <2>1, <2>2
<1>5. ASSUME NEW i \in Ingesters, Fetch(i) PROVE ObjectsInv'
  <2>1. PICK ts \in Payloads, l \in {"upload", "archive"} :
           Goto(i, l, [NoJob EXCEPT !.row.ts = ts])
    BY <1>5 DEF Fetch
  <2>2. [NoJob EXCEPT !.row.ts = ts].row.object = 0
    BY DEF NoJob, NoRow
  <2>3. i \in Workers /\ UNCHANGED <<objects, raw>>
    BY <1>5 DEF Workers, Fetch, db
  <2>4. QED
    BY <2>1, <2>2, <2>3, StepObjects
<1>6. ASSUME NEW w \in Workers, Work(w) PROVE ObjectsInv'
  <2>1. CASE LoadPayload(w) \/ LoadFails(w) \/ Upsert(w) \/ RowDone(w) \/ Sync(w)
    <3>1. w \notin Ingesters
      BY <2>1, CallerAt DEF LoadPayload, LoadFails, Upsert, RowDone, Sync
    <3>2. (\E l, k : Goto(w, l, k)) /\ UNCHANGED <<objects, raw>>
      BY <2>1 DEF LoadPayload, LoadFails, Upsert, RowDone, Sync, db
    <3>3. QED
      BY <1>2, <3>1, <3>2
  <2>2. CASE Victim(w)
    <3>1. CASE w \in Callers
      BY <1>2, <2>2, <3>1, ReprocessAssumption DEF Victim, AbandonRow, db
    <3>2. CASE w \notin Callers
      BY <1>3, <2>2, <3>2 DEF Victim, db
    <3>3. QED
      BY <3>1, <3>2
  <2>3. CASE Commit(w)
    BY <1>3, <2>3 DEF Commit
  <2>4. CASE PutObject(w)
    <3> DEFINE k == [job[w] EXCEPT !.row.object = clock]
    <3>1. job[w] \in Jobs(raw)
      BY <2>4, IngesterAt DEF PutObject
    <3>2. k.row.object = clock
      BY <3>1 DEF Jobs
    <3>3. Goto(w, "archive", k)
      BY <2>4 DEF PutObject
    <3> HIDE DEF k
    <3>4. QED
      BY <2>4, <3>2, <3>3, StepObjects DEF PutObject
  <2>5. CASE PutFails(w) \/ CreateRaw(w) \/ Insert(w)
    <3> DEFINE k1 == [job[w] EXCEPT !.row.created = clock]
               k2(done, new) == [job[w] EXCEPT !.done = done, !.new = new]
    <3>1. w \in Ingesters /\ job[w] \in Jobs(raw)
      BY <2>5, IngesterAt DEF PutFails, CreateRaw, Insert
    <3>2. /\ k1.row.object = job[w].row.object
          /\ \A done, new : k2(done, new).row.object = job[w].row.object
      BY <3>1 DEF Jobs
    <3>3. \/ Goto(w, "archive", job[w])
          \/ Goto(w, "write", k1)
          \/ \E done, new : Goto(w, "write", k2(done, new))
      BY <2>5 DEF PutFails, CreateRaw, Insert
    <3>4. UNCHANGED <<objects, raw>> /\ job[w].row.object \in objects \cup {0}
      BY <2>5, <3>1 DEF PutFails, CreateRaw, Insert, db, ObjectsInv
    <3> HIDE DEF k1, k2
    <3>5. QED
      BY <3>2, <3>3, <3>4, StepObjects
  <2>6. CASE CommitFetch(w)
    <3>1. /\ job[w].row.object \in objects \cup {0}
          /\ raw' = raw \cup {job[w].row} /\ objects' = objects
      BY <2>6 DEF CommitFetch, ObjectsInv
    <3>2. PayloadsReachable'
      BY <3>1 DEF ObjectsInv, PayloadsReachable
    <3>3. \A i \in Ingesters : job'[i] = IF i = w THEN NoJob ELSE job[i]
      BY <2>6 DEF CommitFetch, Leave, Goto, TypeInv, Workers
    <3>4. QED
      BY <1>1, <3>1, <3>2, <3>3 DEF ObjectsInv
  <2>7. QED
    BY <1>6, <2>1, <2>2, <2>3, <2>4, <2>5, <2>6 DEF Work
<1>7. ASSUME NEW w \in Workers, Rollback(w) PROVE ObjectsInv'
  BY <1>3, <1>7 DEF Rollback, db
<1>8. CASE Rest \/ UNCHANGED vars
  BY <1>8 DEF Rest, vars, ObjectsInv, PayloadsReachable
<1>9. QED
  BY <1>4, <1>5, <1>6, <1>7, <1>8 DEF Next

\* A durable raw row can be replayed, whatever is rolled back or crashes between
\* the upload of its payload and its commit.
THEOREM ReprocessPayloadsReachable == Spec => []PayloadsReachable
<1>1. Init => ObjectsInv
  <2>1. ASSUME Init PROVE PayloadsReachable
    BY <2>1 DEF Init, PayloadsReachable
  <2>2. Init => \A i \in Ingesters : job[i].row.object = 0
    BY DEF Init, Workers, NoJob, NoRow
  <2>3. QED
    BY <2>1, <2>2 DEF ObjectsInv
<1>2. Spec => [](TypeInv /\ ObjectsInv)
  BY <1>1, InitType, TypeStep, ObjectsStep, PTL DEF Spec
<1>3. QED
  BY <1>2, PTL DEF ObjectsInv
=============================================================================
