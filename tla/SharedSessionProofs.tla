------------------------ MODULE SharedSessionProofs -------------------------
(***************************************************************************)
(* Theorems about SharedSession, for any number of symbols, batches and    *)
(* failures.                                                               *)
(***************************************************************************)
EXTENDS SharedSession, FiniteSetTheorems, WellFoundedInduction, TLAPS

\* A set of natural numbers that is not empty has a least element.
LEMMA NatMin ==
    ASSUME NEW S, S \subseteq Nat, S # {}
    PROVE  /\ Min(S) \in S
           /\ \A n \in S : Min(S) <= n
<1> DEFINE R == {p \in Nat \X Nat : p[1] < p[2]}
<1>1. IsWellFoundedOn(R, Nat)
  BY NatLessThanWellFounded DEF OpToRel
<1>2. \A m, n \in Nat : <<n, m>> \in R <=> n < m
  OBVIOUS
<1> HIDE DEF R
<1>3. PICK m \in S : \A n \in S : ~ (<<n, m>> \in R)
  BY <1>1, WFMin
<1>4. ASSUME NEW n \in S PROVE m <= n
  <2>1. m \in Nat /\ n \in Nat
    OBVIOUS
  <2>2. ~ (n < m)
    BY <1>2, <1>3, <2>1
  <2>3. QED
    BY <2>1, <2>2
<1>5. QED
  BY <1>4 DEF Min

\* A set of instants that is not empty has a last one.
LEMMA TimeMax ==
    ASSUME NEW S, S \subseteq Time, S # {}
    PROVE  /\ Max(S) \in S
           /\ \A n \in S : n <= Max(S)
<1> DEFINE D == {d \in Nat : \E t \in S : d = MaxTime - t}
<1>1. \A t \in S : t \in Int /\ MaxTime - t \in Nat
  BY SharedSessionAssumption DEF Time
<1>2. D # {}
  BY <1>1
<1>3. PICK d \in D : \A e \in D : d <= e
  <2>1. D \subseteq Nat
    OBVIOUS
  <2> HIDE DEF D
  <2>2. QED
    BY <1>2, <2>1, NatMin
<1>4. PICK m \in S : d = MaxTime - m
  OBVIOUS
<1>5. ASSUME NEW n \in S PROVE m >= n /\ n <= m
  <2>1. m \in Int /\ n \in Int /\ MaxTime \in Int
    BY <1>1, SharedSessionAssumption
  <2>2. d <= MaxTime - n
    BY <1>1, <1>3
  <2>3. QED
    BY <1>4, <2>1, <2>2
<1>6. Max(S) \in S /\ \A n \in S : Max(S) >= n
  BY <1>5 DEF Max
<1>7. QED
  BY <1>1, <1>6

-----------------------------------------------------------------------------
\* Types.

Results == [out : {"none", "ok", "error"},
            run : {"none", "running", "succeeded", "failed"},
            cause : {"none", "session", "begin", "provider", "handler", "store", "tail"}]

Jobs == [todo : SUBSET Symbols, at : Symbols \cup {0}, since : Nat,
         seen : [Symbols -> Nat], reread : BOOLEAN, start : Int, end : Nat,
         batch : SUBSET Offered, staged : SUBSET Offered, bounds : Nat,
         aborted : BOOLEAN, unreadable : SUBSET Symbols,
         results : [Symbols -> Results]]

Busy == {"fetch", "handle", "store", "sync", "close"}

\* A batch that executes a turn has a symbol at hand; rows are staged, and new,
\* when the bounds are to be read.
LocalsOK(l, j) ==
    /\ j \in Jobs
    /\ l \in Busy \cup {"idle", "next"}
    /\ l \in Busy => j.at \in Symbols
    /\ l \notin Busy => j.at = 0
    /\ l = "sync" => j.staged # {}

TablesOK ==
    /\ now \in Time
    /\ coverage \in [Symbols -> Nat]
    /\ bars \in [Symbols -> SUBSET Offered]

TypeInv ==
    /\ TablesOK
    /\ DOMAIN pc = Batches /\ DOMAIN job = Batches
    /\ \A b \in Batches : LocalsOK(pc[b], job[b])

LEMMA NoJobType == LocalsOK("idle", NoJob)
<1>1. Pending \in Results
  BY DEF Pending, Results
<1>2. NoJob \in Jobs
  BY <1>1 DEF NoJob, Jobs
<1>3. NoJob.at = 0
  BY DEF NoJob
<1>4. QED
  BY <1>2, <1>3 DEF LocalsOK, Busy

LEMMA GotoMoves ==
    ASSUME TypeInv, NEW b \in Batches, NEW l, NEW k, Goto(b, l, k)
    PROVE  /\ DOMAIN pc' = Batches /\ DOMAIN job' = Batches
           /\ \A c \in Batches : /\ pc'[c] = IF c = b THEN l ELSE pc[c]
                                 /\ job'[c] = IF c = b THEN k ELSE job[c]
BY DEF Goto, TypeInv

LEMMA StepType ==
    ASSUME TypeInv, NEW b \in Batches, NEW l, NEW k, Goto(b, l, k), TablesOK',
           LocalsOK(l, k)
    PROVE  TypeInv'
BY GotoMoves DEF TypeInv

\* What the next turn starts with.
LEMMA TurnIs ==
    ASSUME NEW j \in Jobs, j.todo # {}, TablesOK
    PROVE  LET k == Turn(j)
           IN  /\ k \in Jobs
               /\ k.at \in j.todo /\ k.at \in Symbols /\ k.at # 0
               /\ k.todo = j.todo \ {k.at}
               /\ \A s \in k.todo : k.at < s
               /\ k.since = j.since /\ k.aborted = j.aborted /\ k.reread = j.reread
               /\ k.unreadable = j.unreadable /\ k.results = j.results
               /\ k.batch = j.batch /\ k.staged = j.staged
               /\ \A s \in Symbols \ {k.at} : k.seen[s] = j.seen[s]
               /\ k.seen[k.at] \in {coverage[k.at], j.seen[k.at]}
               /\ k.start = IF k.seen[k.at] # 0 THEN k.seen[k.at] ELSE now - Lookback
               /\ k.end = now
<1> DEFINE s == Min(j.todo)
           loaded == IF j.reread THEN coverage[s] ELSE j.seen[s]
           first == IF loaded # 0 THEN loaded ELSE now - Lookback
           seen == [j.seen EXCEPT ![s] = loaded]
           todo == j.todo \ {s}
           k == [j EXCEPT !.todo = todo, !.at = s, !.seen = seen, !.start = first,
                          !.end = now]
<1>1. j.todo \subseteq Symbols /\ j.todo \subseteq Nat \ {0}
  BY SharedSessionAssumption DEF Jobs
<1>2. /\ s \in j.todo /\ s \in Symbols /\ s \in Nat /\ s # 0
      /\ \A q \in j.todo : s <= q
  BY <1>1, NatMin
<1>3. now \in Nat /\ coverage[s] \in Nat /\ j.seen[s] \in Nat /\ j.seen \in [Symbols -> Nat]
  BY <1>2, SharedSessionAssumption DEF TablesOK, Time, Jobs
<1>4. loaded \in Nat /\ loaded \in {coverage[s], j.seen[s]}
  BY <1>3
<1>5. first \in Int
  BY <1>3, <1>4, SharedSessionAssumption
<1>6. seen \in [Symbols -> Nat] /\ seen[s] = loaded
      /\ \A q \in Symbols \ {s} : seen[q] = j.seen[q]
  BY <1>2, <1>3, <1>4
<1>7. Turn(j) = k
  BY DEF Turn, Jobs
<1>8. \A q \in todo : s < q
  BY <1>1, <1>2
<1>9. todo \in SUBSET Symbols
  BY <1>1
<1> HIDE DEF s, loaded, first, seen, todo
<1>10. /\ k \in Jobs
       /\ k.todo = todo /\ k.at = s /\ k.seen = seen /\ k.start = first /\ k.end = now
       /\ k.since = j.since /\ k.aborted = j.aborted /\ k.reread = j.reread
       /\ k.unreadable = j.unreadable /\ k.results = j.results
       /\ k.batch = j.batch /\ k.staged = j.staged
  BY <1>2, <1>3, <1>5, <1>6, <1>9 DEF Jobs
<1> HIDE DEF k
<1>11. first = IF loaded # 0 THEN loaded ELSE now - Lookback
  BY DEF first
<1>12. todo = j.todo \ {s}
  BY DEF todo
<1>13. QED
  BY <1>2, <1>4, <1>6, <1>7, <1>8, <1>10, <1>11, <1>12

\* What a turn leaves behind.
LEMMA OutcomeIs ==
    ASSUME NEW j \in Jobs, j.at \in Symbols, NEW out, NEW run, NEW cause,
           [out |-> out, run |-> run, cause |-> cause] \in Results
    PROVE  LET k == Outcome(j, out, run, cause)
           IN  /\ k \in Jobs
               /\ k.at = 0 /\ k.todo = j.todo /\ k.since = j.since
               /\ k.aborted = j.aborted /\ k.reread = j.reread
               /\ k.unreadable = j.unreadable /\ k.staged = {}
               /\ k.results[j.at] = [out |-> out, run |-> run, cause |-> cause]
               /\ \A s \in Symbols \ {j.at} : k.results[s] = j.results[s]
               /\ \A s \in Symbols : k.seen[s] = IF s = j.at THEN 0 ELSE j.seen[s]
<1> DEFINE r == [out |-> out, run |-> run, cause |-> cause]
           results == [j.results EXCEPT ![j.at] = r]
           seen == [j.seen EXCEPT ![j.at] = 0]
           k == [j EXCEPT !.results = results, !.at = 0, !.start = 0, !.end = 0,
                          !.batch = {}, !.staged = {}, !.bounds = 0, !.seen = seen]
<1>1. j.results \in [Symbols -> Results] /\ j.seen \in [Symbols -> Nat]
  BY DEF Jobs
<1>2. /\ results \in [Symbols -> Results] /\ results[j.at] = r
      /\ \A s \in Symbols \ {j.at} : results[s] = j.results[s]
  BY <1>1
<1>3. /\ seen \in [Symbols -> Nat]
      /\ \A s \in Symbols : seen[s] = IF s = j.at THEN 0 ELSE j.seen[s]
  BY <1>1
<1>4. Outcome(j, out, run, cause) = k
  BY DEF Outcome, Jobs
<1> HIDE DEF results, seen, r
<1>5. /\ k \in Jobs
      /\ k.at = 0 /\ k.todo = j.todo /\ k.since = j.since
      /\ k.aborted = j.aborted /\ k.reread = j.reread
      /\ k.unreadable = j.unreadable /\ k.staged = {}
      /\ k.results = results /\ k.seen = seen
  <2>1. k \in Jobs
    <3>1. 0 \in Symbols \cup {0} /\ 0 \in Nat /\ 0 \in Int /\ {} \in SUBSET Offered
      OBVIOUS
    <3>2. QED
      BY <1>2, <1>3, <3>1 DEF Jobs
  <2>2. k.at = 0 /\ k.todo = j.todo /\ k.since = j.since /\ k.staged = {}
    BY DEF Jobs
  <2>3. k.aborted = j.aborted /\ k.reread = j.reread /\ k.unreadable = j.unreadable
    BY DEF Jobs
  <2>4. k.results = results /\ k.seen = seen
    BY DEF Jobs
  <2>5. QED
    BY <2>1, <2>2, <2>3, <2>4
<1> HIDE DEF k
<1>6. QED
  BY <1>2, <1>3, <1>4, <1>5 DEF r

\* The same with what a failure leaves in the session.
LEMMA FailureIs ==
    ASSUME NEW o \in Jobs, NEW U \in SUBSET Symbols
    PROVE  /\ [o EXCEPT !.aborted = TRUE, !.unreadable = U] \in Jobs
           /\ [o EXCEPT !.reread = TRUE, !.unreadable = U] \in Jobs
           /\ [o EXCEPT !.aborted = TRUE, !.unreadable = U].unreadable = U
           /\ [o EXCEPT !.reread = TRUE, !.unreadable = U].unreadable = U
           /\ [o EXCEPT !.reread = TRUE, !.unreadable = U].aborted = o.aborted
           /\ \A k \in {[o EXCEPT !.aborted = TRUE, !.unreadable = U],
                        [o EXCEPT !.reread = TRUE, !.unreadable = U]} :
                 /\ k.at = o.at /\ k.todo = o.todo /\ k.since = o.since
                 /\ k.staged = o.staged /\ k.results = o.results /\ k.seen = o.seen
BY DEF Jobs

-----------------------------------------------------------------------------
\* What a turn leaves to the next.

\* Causes that leave an aborted transaction behind, and causes that may expire
\* the runs of earlier symbols.
Aborting == {"begin", "handler", "tail"}
Expiring == {"begin", "handler", "store", "tail"}

Done(j, r) == j.results[r].out # "none" \/ j.results[r].cause # "none"

\* Turns are taken in the order of the names, so that what is done comes before
\* the symbol at hand and those to come; an aborted transaction, a poisoned
\* symbol and an unreadable run each have an earlier failure to explain them.
SessionOK(j) ==
    /\ \A r \in Symbols : Done(j, r) =>
          (\A s \in j.todo : r < s) /\ (j.at # 0 => r < j.at)
    /\ j.at # 0 => \A s \in j.todo : j.at < s
    /\ j.aborted => \E r \in Symbols : j.results[r].cause \in Aborting
    /\ \A s \in Symbols :
          j.results[s].cause = "session" =>
              \E r \in Symbols : r < s /\ j.results[r].cause \in Aborting
    /\ j.unreadable # {} =>
          \E r, s \in Symbols :
              r < s /\ j.results[r].out = "ok" /\ j.results[s].cause \in Expiring

BatchOK(l, j) == LocalsOK(l, j) /\ SessionOK(j)

SessionInv == TypeInv /\ \A b \in Batches : SessionOK(job[b])

LEMMA NoJobOK == BatchOK("idle", NoJob)
<1>1. \A s \in Symbols : NoJob.results[s] = Pending
  BY DEF NoJob
<1>2. NoJob.at = 0 /\ NoJob.todo = {} /\ NoJob.aborted = FALSE /\ NoJob.unreadable = {}
  BY DEF NoJob
<1>3. SessionOK(NoJob)
  BY <1>1, <1>2 DEF SessionOK, Done, Pending
<1>4. QED
  BY <1>3, NoJobType DEF BatchOK

LEMMA StepSession ==
    ASSUME SessionInv, NEW b \in Batches, NEW l, NEW k, Goto(b, l, k), TablesOK',
           BatchOK(l, k)
    PROVE  SessionInv'
<1>1. TypeInv'
  BY StepType DEF SessionInv, BatchOK
<1>2. \A c \in Batches : SessionOK(job'[c])
  BY GotoMoves DEF SessionInv, BatchOK
<1>3. QED
  BY <1>1, <1>2 DEF SessionInv

LEMMA TablesSame ==
    ASSUME TablesOK, UNCHANGED <<now, db>>
    PROVE  TablesOK'
BY DEF TablesOK, db

\* What is said of symbols depends on the results alone.
LEMMA SameSession ==
    ASSUME NEW j, NEW k, SessionOK(j), k.at = j.at, k.todo = j.todo,
           k.aborted = j.aborted, k.unreadable = j.unreadable,
           \A s \in Symbols : /\ k.results[s].out = j.results[s].out
                             /\ k.results[s].cause = j.results[s].cause
    PROVE  SessionOK(k)
<1>1. \A s \in Symbols : Done(k, s) <=> Done(j, s)
  BY DEF Done
<1>2. QED
  BY <1>1, Zenon DEF SessionOK

LEMMA TurnSession ==
    ASSUME TablesOK, NEW j \in Jobs, SessionOK(j), j.at = 0, j.todo # {}
    PROVE  SessionOK(Turn(j))
<1> DEFINE k == Turn(j)
<1>1. /\ k.at \in j.todo /\ k.at # 0 /\ k.todo = j.todo \ {k.at}
      /\ \A s \in k.todo : k.at < s
      /\ k.aborted = j.aborted /\ k.unreadable = j.unreadable /\ k.results = j.results
  BY TurnIs
<1> HIDE DEF k
<1>2. \A s \in Symbols : Done(k, s) <=> Done(j, s)
  BY <1>1 DEF Done
<1>3. \A r \in Symbols : Done(k, r) =>
          (\A s \in k.todo : r < s) /\ (k.at # 0 => r < k.at)
  BY <1>1, <1>2 DEF SessionOK
<1>4. QED
  BY <1>1, <1>3 DEF SessionOK, k

\* The end of a turn, whatever it is.
LEMMA OutcomeSession ==
    ASSUME NEW j \in Jobs, j.at \in Symbols, SessionOK(j),
           NEW out \in {"ok", "error"}, NEW run, NEW cause,
           [out |-> out, run |-> run, cause |-> cause] \in Results,
           cause = "session" => j.aborted,
           NEW k, k.at = 0, k.todo = j.todo,
           k.results = Outcome(j, out, run, cause).results,
           k.aborted => j.aborted \/ cause \in Aborting,
           k.unreadable # {} =>
               j.unreadable # {} \/ (Succeeded(j) # {} /\ cause \in Expiring)
    PROVE  SessionOK(k)
<1>1. /\ k.results[j.at].out = out /\ k.results[j.at].cause = cause
      /\ \A s \in Symbols \ {j.at} : k.results[s] = j.results[s]
  BY OutcomeIs
<1>2. j.at \in Nat /\ j.at # 0 /\ Symbols \subseteq Nat
  BY SharedSessionAssumption
<1>3. ASSUME NEW r \in Symbols, Done(j, r)
      PROVE  r # j.at /\ r < j.at /\ k.results[r] = j.results[r]
  BY <1>1, <1>2, <1>3 DEF SessionOK
<1>4. \A r \in Symbols : j.results[r].cause \in Aborting \cup Expiring => Done(j, r)
  BY DEF Done, Aborting, Expiring
<1>5. ASSUME NEW r \in Symbols, Done(k, r) PROVE \A s \in k.todo : r < s
  <2>1. CASE r = j.at
    BY <1>2, <2>1 DEF SessionOK
  <2>2. CASE r # j.at
    <3>1. Done(j, r)
      BY <1>1, <1>5, <2>2 DEF Done
    <3>2. QED
      BY <3>1 DEF SessionOK
  <2>3. QED
    BY <2>1, <2>2
<1>6. j.aborted => \E r \in Symbols : r < j.at /\ k.results[r].cause \in Aborting
  BY <1>3, <1>4 DEF SessionOK
<1>7. k.aborted => \E r \in Symbols : k.results[r].cause \in Aborting
  BY <1>1, <1>6
<1>8. ASSUME NEW s \in Symbols, k.results[s].cause = "session"
      PROVE  \E r \in Symbols : r < s /\ k.results[r].cause \in Aborting
  <2>1. CASE s = j.at
    BY <1>1, <1>6, <1>8, <2>1
  <2>2. CASE s # j.at
    <3>1. PICK r \in Symbols : r < s /\ j.results[r].cause \in Aborting
      BY <1>1, <1>8, <2>2 DEF SessionOK
    <3>2. QED
      BY <1>3, <1>4, <3>1
  <2>3. QED
    BY <2>1, <2>2
<1>9. ASSUME k.unreadable # {}
      PROVE  \E r, s \in Symbols :
                r < s /\ k.results[r].out = "ok" /\ k.results[s].cause \in Expiring
  <2>1. CASE j.unreadable # {}
    <3>1. PICK r, s \in Symbols :
             r < s /\ j.results[r].out = "ok" /\ j.results[s].cause \in Expiring
      BY <2>1 DEF SessionOK
    <3>2. Done(j, r) /\ Done(j, s)
      BY <1>4, <3>1 DEF Done
    <3>3. QED
      BY <1>3, <3>1, <3>2
  <2>2. CASE Succeeded(j) # {} /\ cause \in Expiring
    <3>1. PICK r \in Symbols : j.results[r].out = "ok"
      BY <2>2 DEF Succeeded
    <3>2. Done(j, r)
      BY <3>1 DEF Done
    <3>3. r < j.at /\ k.results[r].out = "ok" /\ k.results[j.at].cause \in Expiring
      BY <1>1, <1>3, <2>2, <3>1, <3>2
    <3>4. QED
      BY <3>3
  <2>3. QED
    BY <1>9, <2>1, <2>2
<1>10. QED
  BY <1>5, <1>7, <1>8, <1>9 DEF SessionOK

LEMMA DetectSession ==
    ASSUME SessionInv, NEW b \in Batches, Detect(b)
    PROVE  SessionInv'
<1> DEFINE seen == [s \in Symbols |-> IF s \in Stale THEN coverage[s] ELSE 0]
           k == [NoJob EXCEPT !.todo = Stale, !.since = now, !.seen = seen]
<1>1. TablesOK /\ TablesOK' /\ Goto(b, "next", k)
  BY TablesSame DEF Detect, SessionInv, TypeInv, db
<1>2. seen \in [Symbols -> Nat] /\ Stale \in SUBSET Symbols /\ now \in Nat
  BY <1>1, SharedSessionAssumption DEF TablesOK, Stale, Time
<1>3. NoJob \in Jobs /\ NoJob.at = 0
  BY NoJobType DEF LocalsOK, Busy
<1> HIDE DEF seen
<1>4. /\ k \in Jobs /\ k.at = 0 /\ k.aborted = FALSE /\ k.unreadable = {}
      /\ \A s \in Symbols : k.results[s] = Pending
  BY <1>2, <1>3 DEF Jobs, NoJob
<1> HIDE DEF k
<1>5. SessionOK(k)
  BY <1>4 DEF SessionOK, Done, Pending
<1>6. LocalsOK("next", k)
  BY <1>4 DEF LocalsOK, Busy
<1>7. QED
  BY <1>1, <1>5, <1>6, StepSession DEF BatchOK

\* A batch between two turns.
LEMMA AtNext ==
    ASSUME SessionInv, NEW b \in Batches, TurnOf(b)
    PROVE  /\ TablesOK /\ Turn(job[b]) \in Jobs /\ Turn(job[b]).at \in Symbols
           /\ job[b] \in Jobs /\ job[b].todo # {}
           /\ SessionOK(Turn(job[b]))
<1>1. /\ TablesOK /\ job[b] \in Jobs /\ job[b].at = 0 /\ SessionOK(job[b])
      /\ job[b].todo # {}
  BY DEF SessionInv, TypeInv, LocalsOK, TurnOf, Busy
<1>2. QED
  BY <1>1, TurnIs, TurnSession

LEMMA BeginSession ==
    ASSUME SessionInv, NEW b \in Batches, Begin(b)
    PROVE  SessionInv'
<1> DEFINE j == Turn(job[b])
           r == [j.results[j.at] EXCEPT !.run = "running"]
           results == [j.results EXCEPT ![j.at] = r]
           k == [j EXCEPT !.results = results]
<1>1. j \in Jobs /\ j.at \in Symbols /\ SessionOK(j)
  BY AtNext DEF Begin
<1>2. TablesOK'
  BY TablesSame DEF Begin, SessionInv, TypeInv
<1>3. Goto(b, "fetch", [j EXCEPT !.results[j.at].run = "running"])
  BY DEF Begin
<1> HIDE DEF j
<1>4. [j EXCEPT !.results[j.at].run = "running"] = k
  BY <1>1 DEF Jobs
<1>5. j.results[j.at] \in Results /\ j.results \in [Symbols -> Results]
  BY <1>1 DEF Jobs
<1>6. r \in Results /\ r.out = j.results[j.at].out /\ r.cause = j.results[j.at].cause
  BY <1>5 DEF Results
<1> HIDE DEF r
<1>7. /\ results \in [Symbols -> Results] /\ results[j.at] = r
      /\ \A s \in Symbols \ {j.at} : results[s] = j.results[s]
  BY <1>1, <1>5, <1>6
<1> HIDE DEF results
<1>8. /\ k \in Jobs /\ k.at = j.at /\ k.todo = j.todo /\ k.aborted = j.aborted
      /\ k.unreadable = j.unreadable /\ k.results = results
  BY <1>1, <1>7 DEF Jobs
<1> HIDE DEF k
<1>9. SessionOK(k)
  BY <1>1, <1>6, <1>7, <1>8, SameSession
<1>10. LocalsOK("fetch", k)
  BY <1>1, <1>8 DEF LocalsOK, Busy
<1>11. QED
  BY <1>2, <1>3, <1>4, <1>9, <1>10, StepSession DEF BatchOK

\* The end of a turn that reaches the results in the usual way.
LEMMA OutcomeStep ==
    ASSUME SessionInv, NEW b \in Batches, NEW j \in Jobs, j.at \in Symbols, SessionOK(j),
           NEW out \in {"ok", "error"}, NEW run, NEW cause,
           [out |-> out, run |-> run, cause |-> cause] \in Results,
           cause = "session" => j.aborted,
           Goto(b, "next", Outcome(j, out, run, cause)), TablesOK'
    PROVE  SessionInv'
<1> DEFINE k == Outcome(j, out, run, cause)
<1>1. /\ k \in Jobs /\ k.at = 0 /\ k.todo = j.todo /\ k.aborted = j.aborted
      /\ k.unreadable = j.unreadable
  BY OutcomeIs
<1>2. k.results = Outcome(j, out, run, cause).results
  OBVIOUS
<1>3. Goto(b, "next", k)
  OBVIOUS
<1> HIDE DEF k
<1>4. /\ k.aborted => j.aborted \/ cause \in Aborting
      /\ k.unreadable # {} =>
             j.unreadable # {} \/ (Succeeded(j) # {} /\ cause \in Expiring)
  BY <1>1
<1>5. SessionOK(k)
  BY <1>1, <1>2, <1>4, OutcomeSession
<1>6. LocalsOK("next", k)
  BY <1>1 DEF LocalsOK, Busy
<1>7. QED
  BY <1>3, <1>5, <1>6, StepSession DEF BatchOK

\* And with a failure that aborts the transaction, or is rolled back, and may
\* expire the runs of earlier turns.
LEMMA FailureStep ==
    ASSUME SessionInv, NEW b \in Batches, NEW j \in Jobs, j.at \in Symbols, SessionOK(j),
           NEW run, NEW cause \in Expiring,
           [out |-> "error", run |-> run, cause |-> cause] \in Results,
           NEW U \in {Succeeded(j), j.unreadable}, NEW k,
           \/ /\ k = [Outcome(j, "error", run, cause) EXCEPT !.aborted = TRUE,
                                                             !.unreadable = U]
              /\ cause \in Aborting
           \/ k = [Outcome(j, "error", run, cause) EXCEPT !.reread = TRUE,
                                                          !.unreadable = U],
           Goto(b, "next", k), TablesOK'
    PROVE  SessionInv'
<1> DEFINE o == Outcome(j, "error", run, cause)
<1>1. /\ o \in Jobs /\ o.at = 0 /\ o.todo = j.todo /\ o.aborted = j.aborted
      /\ o.unreadable = j.unreadable
  BY OutcomeIs
<1>2. U \in SUBSET Symbols
  BY DEF Succeeded, Jobs
<1> HIDE DEF o
<1>3. /\ k \in Jobs /\ k.at = 0 /\ k.todo = j.todo /\ k.results = o.results
      /\ k.unreadable = U
      /\ k.aborted => j.aborted \/ cause \in Aborting
  <2>1. CASE /\ k = [o EXCEPT !.aborted = TRUE, !.unreadable = U]
             /\ cause \in Aborting
    BY <1>1, <1>2, <2>1, FailureIs
  <2>2. CASE k = [o EXCEPT !.reread = TRUE, !.unreadable = U]
    BY <1>1, <1>2, <2>2, FailureIs
  <2>3. QED
    BY <2>1, <2>2 DEF o
<1>4. k.unreadable # {} =>
          j.unreadable # {} \/ (Succeeded(j) # {} /\ cause \in Expiring)
  BY <1>3
<1>5. cause # "session"
  BY DEF Expiring
<1>6. SessionOK(k)
  <2> DEFINE out == "error"
  <2>1. out \in {"ok", "error"} /\ [out |-> out, run |-> run, cause |-> cause] \in Results
    OBVIOUS
  <2>2. k.results = Outcome(j, out, run, cause).results
    BY <1>3 DEF o
  <2> HIDE DEF out
  <2>3. QED
    BY <1>3, <1>4, <1>5, <2>1, <2>2, OutcomeSession
<1>7. LocalsOK("next", k)
  BY <1>3 DEF LocalsOK, Busy
<1>8. QED
  BY <1>6, <1>7, StepSession DEF BatchOK

\* A batch in the middle of a turn.
LEMMA InTurn ==
    ASSUME SessionInv, NEW b \in Batches, pc[b] \in Busy
    PROVE  TablesOK /\ job[b] \in Jobs /\ job[b].at \in Symbols /\ SessionOK(job[b])
BY DEF SessionInv, TypeInv, LocalsOK

LEMMA AlreadyCurrentSession ==
    ASSUME SessionInv, NEW b \in Batches, AlreadyCurrent(b)
    PROVE  SessionInv'
<1> DEFINE j == Turn(job[b])
<1>1. /\ j \in Jobs /\ j.at \in Symbols /\ SessionOK(j) /\ TablesOK'
      /\ Goto(b, "next", Outcome(j, "ok", "succeeded", "none"))
  BY AtNext, TablesSame DEF AlreadyCurrent
<1>2. [out |-> "ok", run |-> "succeeded", cause |-> "none"] \in Results
  BY DEF Results
<1> HIDE DEF j
<1>3. QED
  BY <1>1, <1>2, OutcomeStep

LEMMA BeginPoisonedSession ==
    ASSUME SessionInv, NEW b \in Batches, BeginPoisoned(b)
    PROVE  SessionInv'
<1> DEFINE j == Turn(job[b])
<1>1. /\ j \in Jobs /\ j.at \in Symbols /\ SessionOK(j) /\ TablesOK' /\ j.aborted
      /\ Goto(b, "next", Outcome(j, "error", "none", "session"))
  BY AtNext, TablesSame DEF BeginPoisoned
<1>2. [out |-> "error", run |-> "none", cause |-> "session"] \in Results
  BY DEF Results
<1> HIDE DEF j
<1>3. QED
  BY <1>1, <1>2, OutcomeStep

LEMMA BeginFailsSession ==
    ASSUME SessionInv, NEW b \in Batches, BeginFails(b)
    PROVE  SessionInv'
<1> DEFINE j == Turn(job[b])
<1>1. /\ j \in Jobs /\ j.at \in Symbols /\ SessionOK(j) /\ TablesOK'
  BY AtNext, TablesSame DEF BeginFails
<1>2. PICK flushing \in BOOLEAN :
         Goto(b, "next",
              [Outcome(j, "error", "none", "begin") EXCEPT
                 !.aborted = TRUE,
                 !.unreadable = IF flushing THEN Succeeded(j) ELSE @])
  BY DEF BeginFails
<1>3. [out |-> "error", run |-> "none", cause |-> "begin"] \in Results
  BY DEF Results
<1> HIDE DEF j
<1> DEFINE U == IF flushing THEN Succeeded(j) ELSE j.unreadable
           k == [Outcome(j, "error", "none", "begin") EXCEPT
                   !.aborted = TRUE, !.unreadable = U]
<1>4. U \in {Succeeded(j), j.unreadable}
  OBVIOUS
<1>5. Outcome(j, "error", "none", "begin").unreadable = j.unreadable
  BY <1>1, <1>3, OutcomeIs
<1>6. Goto(b, "next", k)
  BY <1>2, <1>5
<1> HIDE DEF U
<1>7. k = [Outcome(j, "error", "none", "begin") EXCEPT !.aborted = TRUE, !.unreadable = U]
  OBVIOUS
<1>8. "begin" \in Aborting /\ "begin" \in Expiring
  BY DEF Aborting, Expiring
<1> HIDE DEF k
<1>9. QED
  BY <1>1, <1>3, <1>4, <1>6, <1>7, <1>8, FailureStep

LEMMA FetchSession ==
    ASSUME SessionInv, NEW b \in Batches, Fetch(b)
    PROVE  SessionInv'
<1> DEFINE j == job[b]
           batch == Offered \cap (j.start .. j.end)
           k == [j EXCEPT !.batch = batch]
<1>1. j \in Jobs /\ j.at \in Symbols /\ SessionOK(j) /\ TablesOK' /\ Goto(b, "store", k)
  BY InTurn, TablesSame DEF Fetch, Busy
<1> HIDE DEF j
<1>2. batch \in SUBSET Offered
  OBVIOUS
<1> HIDE DEF batch
<1>3. /\ k \in Jobs /\ k.at = j.at /\ k.todo = j.todo /\ k.aborted = j.aborted
      /\ k.unreadable = j.unreadable /\ k.results = j.results
  BY <1>1, <1>2 DEF Jobs
<1> HIDE DEF k
<1>4. SessionOK(k)
  BY <1>1, <1>3, SameSession
<1>5. LocalsOK("store", k)
  BY <1>1, <1>3, SharedSessionAssumption DEF LocalsOK, Busy
<1>6. QED
  BY <1>1, <1>4, <1>5, StepSession DEF BatchOK

LEMMA FetchFailsSession ==
    ASSUME SessionInv, NEW b \in Batches, FetchFails(b)
    PROVE  SessionInv'
<1>1. /\ job[b] \in Jobs /\ job[b].at \in Symbols /\ SessionOK(job[b]) /\ TablesOK'
      /\ Goto(b, "handle", job[b])
  BY InTurn, TablesSame DEF FetchFails, Busy
<1>2. LocalsOK("handle", job[b])
  BY <1>1 DEF LocalsOK, Busy
<1>3. QED
  BY <1>1, <1>2, StepSession DEF BatchOK

LEMMA HandleSession ==
    ASSUME SessionInv, NEW b \in Batches, Handle(b)
    PROVE  SessionInv'
<1>1. /\ job[b] \in Jobs /\ job[b].at \in Symbols /\ SessionOK(job[b]) /\ TablesOK'
      /\ Goto(b, "next", Outcome(job[b], "error", "failed", "provider"))
  BY InTurn, TablesSame DEF Handle, Busy
<1>2. [out |-> "error", run |-> "failed", cause |-> "provider"] \in Results
  BY DEF Results
<1>3. QED
  BY <1>1, <1>2, OutcomeStep

LEMMA HandleFailsSession ==
    ASSUME SessionInv, NEW b \in Batches, HandleFails(b)
    PROVE  SessionInv'
<1> DEFINE j == job[b]
           k == [Outcome(j, "error", "running", "handler") EXCEPT
                   !.aborted = TRUE, !.unreadable = Succeeded(j)]
<1>1. j \in Jobs /\ j.at \in Symbols /\ SessionOK(j) /\ TablesOK' /\ Goto(b, "next", k)
  BY InTurn, TablesSame DEF HandleFails, Busy
<1> HIDE DEF j
<1>2. k = [Outcome(j, "error", "running", "handler") EXCEPT
             !.aborted = TRUE, !.unreadable = Succeeded(j)]
  OBVIOUS
<1>3. /\ [out |-> "error", run |-> "running", cause |-> "handler"] \in Results
      /\ "handler" \in Aborting /\ "handler" \in Expiring
  BY DEF Results, Aborting, Expiring
<1> HIDE DEF k
<1>4. QED
  BY <1>1, <1>2, <1>3, FailureStep

LEMMA StoreSession ==
    ASSUME SessionInv, NEW b \in Batches, Store(b)
    PROVE  SessionInv'
<1> DEFINE j == job[b]
           new == j.batch \ bars[j.at]
           k == [j EXCEPT !.staged = new]
           l == IF new = {} THEN "close" ELSE "sync"
<1>1. j \in Jobs /\ j.at \in Symbols /\ SessionOK(j) /\ TablesOK' /\ Goto(b, l, k)
  BY InTurn, TablesSame DEF Store, Busy
<1> HIDE DEF j
<1>2. new \in SUBSET Offered /\ (l = "sync" => new # {})
  BY <1>1 DEF Jobs
<1>3. l \in {"close", "sync"}
  OBVIOUS
<1> HIDE DEF new
<1>4. /\ k \in Jobs /\ k.at = j.at /\ k.todo = j.todo /\ k.aborted = j.aborted
      /\ k.unreadable = j.unreadable /\ k.results = j.results /\ k.staged = new
  BY <1>1, <1>2 DEF Jobs
<1> HIDE DEF k, l
<1>5. SessionOK(k)
  BY <1>1, <1>4, SameSession
<1>6. LocalsOK(l, k)
  BY <1>1, <1>2, <1>3, <1>4 DEF LocalsOK, Busy
<1>7. QED
  BY <1>1, <1>5, <1>6, StepSession DEF BatchOK

LEMMA StoreFailsSession ==
    ASSUME SessionInv, NEW b \in Batches, StoreFails(b)
    PROVE  SessionInv'
<1> DEFINE j == job[b]
           k == [Outcome(j, "error", "running", "store") EXCEPT
                   !.reread = TRUE, !.unreadable = Succeeded(j)]
<1>1. j \in Jobs /\ j.at \in Symbols /\ SessionOK(j) /\ TablesOK' /\ Goto(b, "next", k)
  BY InTurn, TablesSame DEF StoreFails, Busy
<1> HIDE DEF j
<1>2. k = [Outcome(j, "error", "running", "store") EXCEPT
             !.reread = TRUE, !.unreadable = Succeeded(j)]
  OBVIOUS
<1>3. /\ [out |-> "error", run |-> "running", cause |-> "store"] \in Results
      /\ "store" \in Expiring
  BY DEF Results, Expiring
<1> HIDE DEF k
<1>4. QED
  BY <1>1, <1>2, <1>3, FailureStep

LEMMA SyncSession ==
    ASSUME SessionInv, NEW b \in Batches, Sync(b)
    PROVE  SessionInv'
<1> DEFINE j == job[b]
           bounds == Max(bars[j.at] \cup j.staged)
           k == [j EXCEPT !.bounds = bounds]
<1>1. /\ j \in Jobs /\ j.at \in Symbols /\ SessionOK(j) /\ TablesOK /\ TablesOK'
      /\ Goto(b, "close", k)
  BY InTurn, TablesSame DEF Sync, Busy
<1>2. j.staged # {}
  BY DEF Sync, SessionInv, TypeInv, LocalsOK
<1> HIDE DEF j
<1>3. bounds \in Nat
  <2> DEFINE known == bars[j.at] \cup j.staged
  <2>1. known \subseteq Offered /\ known # {}
    BY <1>1, <1>2 DEF TablesOK, Jobs
  <2>2. Offered \subseteq Time /\ Time \subseteq Nat
    BY SharedSessionAssumption DEF Time
  <2> HIDE DEF known
  <2>3. Max(known) \in known
    BY <2>1, <2>2, TimeMax
  <2>4. QED
    BY <2>1, <2>2, <2>3 DEF known
<1> HIDE DEF bounds
<1>4. /\ k \in Jobs /\ k.at = j.at /\ k.todo = j.todo /\ k.aborted = j.aborted
      /\ k.unreadable = j.unreadable /\ k.results = j.results
  BY <1>1, <1>3 DEF Jobs
<1> HIDE DEF k
<1>5. SessionOK(k)
  BY <1>1, <1>4, SameSession
<1>6. LocalsOK("close", k)
  BY <1>1, <1>4 DEF LocalsOK, Busy
<1>7. QED
  BY <1>1, <1>5, <1>6, StepSession DEF BatchOK

LEMMA CloseSession ==
    ASSUME SessionInv, NEW b \in Batches, Close(b)
    PROVE  SessionInv'
<1>1. /\ job[b] \in Jobs /\ job[b].at \in Symbols /\ SessionOK(job[b]) /\ TablesOK
      /\ Goto(b, "next", Outcome(job[b], "ok", "succeeded", "none"))
  BY InTurn DEF Close, Busy
<1>2. job[b].staged \subseteq Offered /\ job[b].bounds \in Nat
  BY <1>1 DEF Jobs
<1>3. PICK x \in {job[b].bounds, coverage[job[b].at]} :
         /\ bars' = [bars EXCEPT ![job[b].at] = @ \cup job[b].staged]
         /\ coverage' = [coverage EXCEPT ![job[b].at] = x]
         /\ now' = now
  BY DEF Close
<1>4. TablesOK'
  BY <1>1, <1>2, <1>3 DEF TablesOK
<1>5. [out |-> "ok", run |-> "succeeded", cause |-> "none"] \in Results
  BY DEF Results
<1>6. QED
  BY <1>1, <1>4, <1>5, OutcomeStep

LEMMA TailFailsSession ==
    ASSUME SessionInv, NEW b \in Batches, TailFails(b)
    PROVE  SessionInv'
<1> DEFINE j == job[b]
           U == IF pc[b] = "close" THEN Succeeded(j) ELSE j.unreadable
           k == [Outcome(j, "error", "running", "tail") EXCEPT
                   !.aborted = TRUE, !.unreadable = U]
<1>1. j \in Jobs /\ j.at \in Symbols /\ SessionOK(j) /\ TablesOK'
  BY InTurn, TablesSame DEF TailFails, Busy
<1>2. /\ [out |-> "error", run |-> "running", cause |-> "tail"] \in Results
      /\ "tail" \in Aborting /\ "tail" \in Expiring
  BY DEF Results, Aborting, Expiring
<1>3. Goto(b, "next",
           [Outcome(j, "error", "running", "tail") EXCEPT
              !.aborted = TRUE,
              !.unreadable = IF pc[b] = "close" THEN Succeeded(j) ELSE @])
  BY DEF TailFails
<1> HIDE DEF j
<1>4. Outcome(j, "error", "running", "tail").unreadable = j.unreadable
  BY <1>1, <1>2, OutcomeIs
<1>5. Goto(b, "next", k)
  BY <1>3, <1>4
<1>6. U \in {Succeeded(j), j.unreadable}
  OBVIOUS
<1> HIDE DEF U
<1>7. k = [Outcome(j, "error", "running", "tail") EXCEPT !.aborted = TRUE, !.unreadable = U]
  OBVIOUS
<1> HIDE DEF k
<1>8. QED
  BY <1>1, <1>2, <1>5, <1>6, <1>7, FailureStep

LEMMA FinishSession ==
    ASSUME SessionInv, NEW b \in Batches, Finish(b)
    PROVE  SessionInv'
<1>1. TablesOK' /\ Goto(b, "idle", NoJob)
  BY TablesSame DEF Finish, Leave, SessionInv, TypeInv
<1>2. QED
  BY <1>1, NoJobOK, StepSession

LEMMA CrashSession ==
    ASSUME SessionInv, Crash
    PROVE  SessionInv'
<1>1. TablesOK'
  BY TablesSame DEF Crash, SessionInv, TypeInv
<1>2. /\ DOMAIN pc' = Batches /\ DOMAIN job' = Batches
      /\ \A b \in Batches : pc'[b] = "idle" /\ job'[b] = NoJob
  BY DEF Crash
<1>3. QED
  BY <1>1, <1>2, NoJobOK DEF SessionInv, TypeInv, BatchOK

\* Steps that leave the batches alone.
LEMMA OtherSession ==
    ASSUME SessionInv, UNCHANGED <<coverage, bars, pc, job>>, now' \in Time
    PROVE  SessionInv'
BY DEF SessionInv, TypeInv, TablesOK

LEMMA SessionInit ==
    ASSUME Init
    PROVE  SessionInv
<1>1. TablesOK
  BY SharedSessionAssumption DEF Init, TablesOK, Time
<1>2. /\ DOMAIN pc = Batches /\ DOMAIN job = Batches
      /\ \A b \in Batches : pc[b] = "idle" /\ job[b] = NoJob
  BY DEF Init
<1>3. QED
  BY <1>1, <1>2, NoJobOK DEF SessionInv, TypeInv, BatchOK

LEMMA SessionNext ==
    ASSUME SessionInv, [Next]_vars
    PROVE  SessionInv'
<1>1. now \in Time
  BY DEF SessionInv, TypeInv, TablesOK
<1>2. CASE UNCHANGED vars
  BY <1>1, <1>2, OtherSession DEF vars, db
<1>3. ASSUME NEW s \in Symbols, AddSymbol(s) \/ Deactivate(s) PROVE SessionInv'
  BY <1>1, <1>3, OtherSession DEF AddSymbol, Deactivate
<1>4. ASSUME NEW b \in Batches, Detect(b) \/ Work(b) PROVE SessionInv'
  BY <1>4, DetectSession, BeginSession, AlreadyCurrentSession, BeginPoisonedSession,
     FetchSession, HandleSession, StoreSession, SyncSession, CloseSession, FinishSession
     DEF Work
<1>5. ASSUME NEW b \in Batches, Fault(b) PROVE SessionInv'
  BY <1>5, BeginFailsSession, FetchFailsSession, HandleFailsSession, StoreFailsSession,
     TailFailsSession DEF Fault
<1>6. CASE Crash
  BY <1>6, CrashSession
<1>7. CASE Tick
  <2>1. now' \in Time
    BY <1>1, <1>7, SharedSessionAssumption DEF Tick, Time
  <2>2. QED
    BY <1>7, <2>1, OtherSession DEF Tick, db
<1>8. CASE Rest
  BY <1>2, <1>8 DEF Rest
<1>9. QED
  BY <1>2, <1>3, <1>4, <1>5, <1>6, <1>7, <1>8 DEF Next

LEMMA SessionAlways == Spec => []SessionInv
<1>1. Init => SessionInv
  BY SessionInit
<1>2. SessionInv /\ [Next]_vars => SessionInv'
  BY SessionNext
<1>3. QED
  BY <1>1, <1>2, PTL DEF Spec

\* The failure of one symbol reaches later ones only through the transaction of
\* the session that incremental_symbols shares among them, and only when it
\* happened where no handler rolls back.
THEOREM SharedSessionContained == Spec => []FailuresContained
<1>1. SessionInv => FailuresContained
  BY DEF SessionInv, SessionOK, FailuresContained, Aborting
<1>2. QED
  BY <1>1, SessionAlways, PTL

\* The bulk endpoint can build its summary unless the database failed after a
\* symbol that succeeded.
THEOREM SharedSessionSummary == Spec => []SummaryDelivered
<1>1. SessionInv => SummaryDelivered
  <2>1. SUFFICES ASSUME SessionInv, NEW b \in Bulk, job[b].unreadable # {}
                 PROVE  \E r, s \in Symbols :
                           /\ r < s
                           /\ job[b].results[r].out = "ok"
                           /\ job[b].results[s].cause \in {"begin", "handler", "store", "tail"}
    BY DEF SummaryDelivered
  <2>2. b \in Batches
    BY SharedSessionAssumption
  <2>3. QED
    BY <2>1, <2>2 DEF SessionInv, SessionOK, Expiring
<1>2. QED
  BY <1>1, SessionAlways, PTL

-----------------------------------------------------------------------------
\* What is stored.

UpTo(n) == {t \in Offered : t <= n}

\* The bars of a symbol have no hole, and reach its coverage.
HonestTables(h, cov) ==
    \A s \in Symbols :
        /\ \A t \in h[s] : UpTo(t) \subseteq h[s]
        /\ UpTo(cov[s]) \subseteq h[s]

\* What a batch loaded or reported is stored, now that it is n and the bars are h.
Kept(j, n, h) ==
    /\ j.since <= n
    /\ \A s \in Symbols : UpTo(j.seen[s]) \subseteq h[s]
    /\ \A s \in Symbols : j.results[s].out = "ok" =>
          j.results[s].run = "succeeded" /\ UpTo(j.since) \subseteq h[s]

\* A turn fetches what comes after the bars already stored; together with its
\* staged rows they are complete up to the end of its range.
Honest(l, j, n, h) ==
    /\ Kept(j, n, h)
    /\ l \in Busy => j.since <= j.end /\ UpTo(j.start - 1) \subseteq h[j.at]
    /\ l = "store" => j.batch = Offered \cap (j.start .. j.end)
    /\ l \in {"sync", "close"} =>
          UpTo(j.end) \subseteq h[j.at] \cup j.staged /\ j.staged \subseteq UpTo(j.end)
    /\ l = "close" /\ j.staged # {} => UpTo(j.bounds) \subseteq h[j.at] \cup j.staged

HonestInv ==
    /\ SessionInv
    /\ HonestTables(bars, coverage)
    /\ \A b \in Batches : Honest(pc[b], job[b], now, bars)

LEMMA Instants == \A t \in Offered : t \in Nat /\ t >= 1 /\ t <= MaxTime
BY SharedSessionAssumption DEF Time

LEMMA UpToLater ==
    ASSUME NEW m \in Int, NEW n \in Int, m <= n
    PROVE  UpTo(m) \subseteq UpTo(n)
<1>1. ASSUME NEW t \in Offered, t <= m PROVE t <= n
  <2>1. t \in Nat
    BY Instants
  <2>2. QED
    BY <1>1, <2>1
<1>2. QED
  BY <1>1 DEF UpTo

LEMMA UpToNothing ==
    ASSUME NEW n \in Int, n <= 0
    PROVE  UpTo(n) = {}
<1>1. ASSUME NEW t \in Offered, t <= n PROVE FALSE
  <2>1. t \in Nat /\ t >= 1
    BY Instants
  <2>2. QED
    BY <1>1, <2>1
<1>2. QED
  BY <1>1 DEF UpTo

\* Time goes on and bars are never removed.
LEMMA HonestGrows ==
    ASSUME NEW l, NEW j, LocalsOK(l, j), NEW n \in Nat, NEW m \in Nat, n <= m,
           NEW h, NEW g, \A s \in Symbols : h[s] \subseteq g[s], Honest(l, j, n, h)
    PROVE  Honest(l, j, m, g)
<1>1. j.since \in Nat
  BY DEF LocalsOK, Jobs
<1>2. Kept(j, m, g)
  BY <1>1 DEF Honest, Kept
<1>3. l \in Busy => h[j.at] \subseteq g[j.at]
  BY DEF LocalsOK
<1>4. QED
  BY <1>2, <1>3 DEF Honest, Busy

LEMMA StepHonest ==
    ASSUME HonestInv, SessionInv', NEW b \in Batches, NEW l, NEW k, Goto(b, l, k),
           now' = now, \A s \in Symbols : bars[s] \subseteq bars'[s],
           HonestTables(bars', coverage'), Honest(l, k, now', bars')
    PROVE  HonestInv'
<1>1. now \in Nat
  BY SharedSessionAssumption DEF HonestInv, SessionInv, TypeInv, TablesOK, Time
<1>2. ASSUME NEW c \in Batches PROVE Honest(pc'[c], job'[c], now', bars')
  <2>1. /\ pc'[c] = IF c = b THEN l ELSE pc[c]
        /\ job'[c] = IF c = b THEN k ELSE job[c]
    BY GotoMoves DEF HonestInv, SessionInv
  <2>2. CASE c = b
    BY <2>1, <2>2
  <2>3. CASE c # b
    <3>1. LocalsOK(pc[c], job[c]) /\ Honest(pc[c], job[c], now, bars)
      BY DEF HonestInv, SessionInv, TypeInv
    <3>2. Honest(pc[c], job[c], now', bars')
      BY <1>1, <3>1, HonestGrows
    <3>3. QED
      BY <2>1, <2>3, <3>2
  <2>4. QED
    BY <2>2, <2>3
<1>3. QED
  BY <1>2 DEF HonestInv

\* The same for the steps that leave the tables alone.
LEMMA QuietHonest ==
    ASSUME HonestInv, SessionInv', NEW b \in Batches, NEW l, NEW k, Goto(b, l, k),
           UNCHANGED <<now, db>>, Honest(l, k, now, bars)
    PROVE  HonestInv'
BY StepHonest DEF HonestInv, db

\* What a turn starts with: nothing is missing before its range, which is empty
\* only if nothing is missing at all.
LEMMA TurnHonest ==
    ASSUME Lookback >= MaxTime, HonestInv, NEW b \in Batches, TurnOf(b)
    PROVE  LET j == Turn(job[b])
           IN  /\ j \in Jobs /\ j.at \in Symbols /\ SessionOK(j)
               /\ Kept(j, now, bars)
               /\ j.since <= j.end
               /\ UpTo(j.start - 1) \subseteq bars[j.at]
               /\ j.results[j.at].out # "ok"
               /\ j.start >= j.end => UpTo(j.since) \subseteq bars[j.at]
<1> DEFINE i == job[b]
           j == Turn(i)
<1>1. /\ TablesOK /\ i \in Jobs /\ i.todo # {}
      /\ j \in Jobs /\ j.at \in Symbols /\ SessionOK(j)
  BY AtNext DEF HonestInv
<1>2. Kept(i, now, bars) /\ HonestTables(bars, coverage)
  BY DEF HonestInv, Honest
<1> HIDE DEF i
<1>3. /\ j.at # 0 /\ j.since = i.since /\ j.results = i.results /\ j.end = now
      /\ \A s \in Symbols \ {j.at} : j.seen[s] = i.seen[s]
      /\ j.seen[j.at] \in {coverage[j.at], i.seen[j.at]}
      /\ j.start = IF j.seen[j.at] # 0 THEN j.seen[j.at] ELSE now - Lookback
  BY <1>1, TurnIs
<1>4. /\ now \in Nat /\ now <= MaxTime /\ now >= 1 /\ MaxTime \in Nat /\ Lookback \in Nat
      /\ i.since \in Nat /\ j.start \in Int
  BY <1>1, SharedSessionAssumption DEF TablesOK, Time, Jobs
<1> HIDE DEF j
<1>5. j.seen[j.at] \in Nat
  BY <1>1 DEF Jobs
<1>6. \A s \in Symbols : UpTo(j.seen[s]) \subseteq bars[s]
  BY <1>1, <1>2, <1>3 DEF Kept, HonestTables
<1>7. Kept(j, now, bars)
  BY <1>2, <1>3, <1>6 DEF Kept
<1>8. j.since <= j.end
  BY <1>2, <1>3 DEF Kept
<1>9. UpTo(j.start - 1) \subseteq bars[j.at]
  <2>1. CASE j.seen[j.at] = 0
    <3>1. j.start - 1 \in Int /\ j.start - 1 <= 0
      BY <1>3, <1>4, <2>1
    <3>2. QED
      BY <3>1, UpToNothing
  <2>2. CASE j.seen[j.at] # 0
    <3>1. UpTo(j.start - 1) \subseteq UpTo(j.seen[j.at])
      <4>1. j.start - 1 \in Int /\ j.seen[j.at] \in Int /\ j.start - 1 <= j.seen[j.at]
        BY <1>3, <1>4, <1>5, <2>2
      <4>2. QED
        BY <4>1, UpToLater
    <3>2. QED
      BY <1>1, <1>6, <3>1
  <2>3. QED
    BY <2>1, <2>2
<1>10. j.results[j.at].out # "ok"
  <2>1. j.at \in Nat
    BY <1>1, SharedSessionAssumption
  <2>2. ~ (j.at < j.at)
    BY <2>1
  <2>3. QED
    BY <1>1, <1>3, <2>2 DEF SessionOK, Done
<1>11. ASSUME j.start >= j.end PROVE UpTo(j.since) \subseteq bars[j.at]
  <2>1. j.start = j.seen[j.at] /\ j.since <= j.seen[j.at]
    BY <1>2, <1>3, <1>4, <1>5, <1>11, SharedSessionAssumption DEF Kept
  <2>2. UpTo(j.since) \subseteq UpTo(j.seen[j.at])
    BY <1>3, <1>4, <1>5, <2>1, UpToLater
  <2>3. QED
    BY <1>1, <1>6, <2>2
<1>12. QED
  BY <1>1, <1>7, <1>8, <1>9, <1>10, <1>11 DEF j, i

\* The end of a turn: a success is to be justified.
LEMMA OutcomeHonest ==
    ASSUME NEW j \in Jobs, j.at \in Symbols, NEW n, NEW h, Kept(j, n, h),
           NEW out, NEW run, NEW cause,
           [out |-> out, run |-> run, cause |-> cause] \in Results,
           out = "ok" => run = "succeeded" /\ UpTo(j.since) \subseteq h[j.at],
           NEW k, k.since = Outcome(j, out, run, cause).since,
           k.seen = Outcome(j, out, run, cause).seen,
           k.results = Outcome(j, out, run, cause).results
    PROVE  Honest("next", k, n, h)
<1>1. /\ k.since = j.since
      /\ k.results[j.at].out = out /\ k.results[j.at].run = run
      /\ \A s \in Symbols \ {j.at} : k.results[s] = j.results[s]
      /\ \A s \in Symbols : k.seen[s] = IF s = j.at THEN 0 ELSE j.seen[s]
  BY OutcomeIs
<1>2. UpTo(0) = {}
  BY UpToNothing
<1>3. k.since <= n
  BY <1>1 DEF Kept
<1>4. \A s \in Symbols : UpTo(k.seen[s]) \subseteq h[s]
  BY <1>1, <1>2 DEF Kept
<1>5. \A s \in Symbols : k.results[s].out = "ok" =>
          k.results[s].run = "succeeded" /\ UpTo(k.since) \subseteq h[s]
  BY <1>1 DEF Kept
<1>6. QED
  BY <1>3, <1>4, <1>5 DEF Kept, Honest, Busy

\* A turn that ends with an exception, whatever it does to the session.
LEMMA ErrorHonest ==
    ASSUME HonestInv, SessionInv', NEW b \in Batches, UNCHANGED <<now, db>>,
           NEW j \in Jobs, j.at \in Symbols, Kept(j, now, bars), NEW run, NEW cause,
           [out |-> "error", run |-> run, cause |-> cause] \in Results,
           NEW U \in SUBSET Symbols, NEW k,
           \/ k = Outcome(j, "error", run, cause)
           \/ k = [Outcome(j, "error", run, cause) EXCEPT !.aborted = TRUE,
                                                          !.unreadable = U]
           \/ k = [Outcome(j, "error", run, cause) EXCEPT !.reread = TRUE,
                                                          !.unreadable = U],
           Goto(b, "next", k)
    PROVE  HonestInv'
<1> DEFINE o == Outcome(j, "error", run, cause)
<1>1. o \in Jobs
  BY OutcomeIs
<1>2. \/ k = o
      \/ k = [o EXCEPT !.aborted = TRUE, !.unreadable = U]
      \/ k = [o EXCEPT !.reread = TRUE, !.unreadable = U]
  OBVIOUS
<1> HIDE DEF o
<1>3. k.since = o.since /\ k.seen = o.seen /\ k.results = o.results
  <2>1. CASE k = o
    BY <2>1
  <2>2. CASE k = [o EXCEPT !.aborted = TRUE, !.unreadable = U]
    BY <1>1, <2>2, FailureIs
  <2>3. CASE k = [o EXCEPT !.reread = TRUE, !.unreadable = U]
    BY <1>1, <2>3, FailureIs
  <2>4. QED
    BY <1>2, <2>1, <2>2, <2>3
<1>4. Honest("next", k, now, bars)
  <2> DEFINE out == "error"
  <2>1. [out |-> out, run |-> run, cause |-> cause] \in Results /\ out # "ok"
    OBVIOUS
  <2>2. /\ k.since = Outcome(j, out, run, cause).since
        /\ k.seen = Outcome(j, out, run, cause).seen
        /\ k.results = Outcome(j, out, run, cause).results
    BY <1>3 DEF o
  <2> HIDE DEF out
  <2>3. QED
    BY <2>1, <2>2, OutcomeHonest
<1>5. QED
  BY <1>4, QuietHonest

LEMMA DetectHonest ==
    ASSUME HonestInv, SessionInv', NEW b \in Batches, Detect(b)
    PROVE  HonestInv'
<1> DEFINE seen == [s \in Symbols |-> IF s \in Stale THEN coverage[s] ELSE 0]
           k == [NoJob EXCEPT !.todo = Stale, !.since = now, !.seen = seen]
<1>1. UNCHANGED <<now, db>> /\ Goto(b, "next", k) /\ HonestTables(bars, coverage)
  BY DEF Detect, HonestInv
<1>2. now \in Nat
  BY SharedSessionAssumption DEF HonestInv, SessionInv, TypeInv, TablesOK, Time
<1>3. \A s \in Symbols : UpTo(seen[s]) \subseteq bars[s]
  BY <1>1, UpToNothing DEF HonestTables
<1> HIDE DEF seen
<1>4. k.since = now /\ k.seen = seen /\ \A s \in Symbols : k.results[s].out = "none"
  BY DEF NoJob, Pending
<1> HIDE DEF k
<1>5. Honest("next", k, now, bars)
  BY <1>2, <1>3, <1>4 DEF Honest, Kept, Busy
<1>6. QED
  BY <1>1, <1>5, QuietHonest

LEMMA BeginHonest ==
    ASSUME Lookback >= MaxTime, HonestInv, SessionInv', NEW b \in Batches, Begin(b)
    PROVE  HonestInv'
<1> DEFINE j == Turn(job[b])
           r == [j.results[j.at] EXCEPT !.run = "running"]
           results == [j.results EXCEPT ![j.at] = r]
           k == [j EXCEPT !.results = results]
<1>1. /\ j \in Jobs /\ j.at \in Symbols /\ Kept(j, now, bars) /\ j.since <= j.end
      /\ UpTo(j.start - 1) \subseteq bars[j.at] /\ j.results[j.at].out # "ok"
  BY TurnHonest DEF Begin
<1>2. UNCHANGED <<now, db>> /\ Goto(b, "fetch", [j EXCEPT !.results[j.at].run = "running"])
  BY DEF Begin
<1> HIDE DEF j
<1>3. [j EXCEPT !.results[j.at].run = "running"] = k
  BY <1>1 DEF Jobs
<1>4. j.results[j.at] \in Results /\ j.results \in [Symbols -> Results]
  BY <1>1 DEF Jobs
<1>5. r.out = j.results[j.at].out
  BY <1>4 DEF Results
<1> HIDE DEF r
<1>6. results[j.at] = r /\ \A s \in Symbols \ {j.at} : results[s] = j.results[s]
  BY <1>1, <1>4
<1> HIDE DEF results
<1>7. /\ k.at = j.at /\ k.since = j.since /\ k.start = j.start /\ k.end = j.end
      /\ k.seen = j.seen /\ k.results = results
  BY <1>1 DEF Jobs
<1> HIDE DEF k
<1>8. Kept(k, now, bars)
  BY <1>1, <1>5, <1>6, <1>7 DEF Kept
<1>9. Honest("fetch", k, now, bars)
  BY <1>1, <1>7, <1>8 DEF Honest
<1>10. QED
  BY <1>2, <1>3, <1>9, QuietHonest

LEMMA AlreadyCurrentHonest ==
    ASSUME Lookback >= MaxTime, HonestInv, SessionInv', NEW b \in Batches, AlreadyCurrent(b)
    PROVE  HonestInv'
<1> DEFINE j == Turn(job[b])
           k == Outcome(j, "ok", "succeeded", "none")
<1>1. /\ j \in Jobs /\ j.at \in Symbols /\ Kept(j, now, bars)
      /\ UpTo(j.since) \subseteq bars[j.at]
  BY TurnHonest DEF AlreadyCurrent
<1>2. UNCHANGED <<now, db>> /\ Goto(b, "next", k)
  BY DEF AlreadyCurrent
<1>3. [out |-> "ok", run |-> "succeeded", cause |-> "none"] \in Results
  BY DEF Results
<1> HIDE DEF j
<1>4. Honest("next", k, now, bars)
  BY <1>1, <1>3, OutcomeHonest
<1> HIDE DEF k
<1>5. QED
  BY <1>2, <1>4, QuietHonest

LEMMA BeginPoisonedHonest ==
    ASSUME Lookback >= MaxTime, HonestInv, SessionInv', NEW b \in Batches, BeginPoisoned(b)
    PROVE  HonestInv'
<1> DEFINE j == Turn(job[b])
<1>1. j \in Jobs /\ j.at \in Symbols /\ Kept(j, now, bars)
  BY TurnHonest DEF BeginPoisoned
<1>2. UNCHANGED <<now, db>> /\ Goto(b, "next", Outcome(j, "error", "none", "session"))
  BY DEF BeginPoisoned
<1>3. [out |-> "error", run |-> "none", cause |-> "session"] \in Results
  BY DEF Results
<1> HIDE DEF j
<1>4. QED
  BY <1>1, <1>2, <1>3, ErrorHonest

LEMMA BeginFailsHonest ==
    ASSUME Lookback >= MaxTime, HonestInv, SessionInv', NEW b \in Batches, BeginFails(b)
    PROVE  HonestInv'
<1> DEFINE j == Turn(job[b])
<1>1. j \in Jobs /\ j.at \in Symbols /\ Kept(j, now, bars)
  BY TurnHonest DEF BeginFails
<1>2. UNCHANGED <<now, db>>
  BY DEF BeginFails
<1>3. PICK flushing \in BOOLEAN :
         Goto(b, "next",
              [Outcome(j, "error", "none", "begin") EXCEPT
                 !.aborted = TRUE,
                 !.unreadable = IF flushing THEN Succeeded(j) ELSE @])
  BY DEF BeginFails
<1>4. [out |-> "error", run |-> "none", cause |-> "begin"] \in Results
  BY DEF Results
<1> HIDE DEF j
<1> DEFINE U == IF flushing THEN Succeeded(j) ELSE Outcome(j, "error", "none", "begin").unreadable
           k == [Outcome(j, "error", "none", "begin") EXCEPT
                   !.aborted = TRUE, !.unreadable = U]
<1>5. U \in SUBSET Symbols
  BY <1>1, <1>4, OutcomeIs DEF Succeeded, Jobs
<1>6. Goto(b, "next", k)
  BY <1>3
<1> HIDE DEF U
<1>7. k = [Outcome(j, "error", "none", "begin") EXCEPT !.aborted = TRUE, !.unreadable = U]
  OBVIOUS
<1> HIDE DEF k
<1>8. QED
  BY <1>1, <1>2, <1>4, <1>5, <1>6, <1>7, ErrorHonest

\* A batch in the middle of a turn.
LEMMA HonestTurn ==
    ASSUME HonestInv, NEW b \in Batches, pc[b] \in Busy
    PROVE  /\ TablesOK /\ job[b] \in Jobs /\ job[b].at \in Symbols
           /\ HonestTables(bars, coverage)
           /\ Kept(job[b], now, bars) /\ job[b].since <= job[b].end
           /\ UpTo(job[b].start - 1) \subseteq bars[job[b].at]
           /\ Honest(pc[b], job[b], now, bars)
BY InTurn DEF HonestInv, Honest

LEMMA FetchHonest ==
    ASSUME HonestInv, SessionInv', NEW b \in Batches, Fetch(b)
    PROVE  HonestInv'
<1> DEFINE j == job[b]
           batch == Offered \cap (j.start .. j.end)
           k == [j EXCEPT !.batch = batch]
<1>1. /\ j \in Jobs /\ Kept(j, now, bars) /\ j.since <= j.end
      /\ UpTo(j.start - 1) \subseteq bars[j.at]
      /\ UNCHANGED <<now, db>> /\ Goto(b, "store", k)
  BY HonestTurn DEF Fetch, Busy
<1> HIDE DEF j
<1>2. k.batch = Offered \cap (k.start .. k.end)
  BY <1>1 DEF Jobs
<1> HIDE DEF batch
<1>3. /\ k.at = j.at /\ k.since = j.since /\ k.start = j.start /\ k.end = j.end
      /\ k.seen = j.seen /\ k.results = j.results
  BY <1>1 DEF Jobs
<1> HIDE DEF k
<1>4. Honest("store", k, now, bars)
  BY <1>1, <1>2, <1>3 DEF Honest, Kept
<1>5. QED
  BY <1>1, <1>4, QuietHonest

LEMMA FetchFailsHonest ==
    ASSUME HonestInv, SessionInv', NEW b \in Batches, FetchFails(b)
    PROVE  HonestInv'
<1>1. /\ Kept(job[b], now, bars) /\ job[b].since <= job[b].end
      /\ UpTo(job[b].start - 1) \subseteq bars[job[b].at]
      /\ UNCHANGED <<now, db>> /\ Goto(b, "handle", job[b])
  BY HonestTurn DEF FetchFails, Busy
<1>2. Honest("handle", job[b], now, bars)
  BY <1>1 DEF Honest
<1>3. QED
  BY <1>1, <1>2, QuietHonest

LEMMA HandleHonest ==
    ASSUME HonestInv, SessionInv', NEW b \in Batches, Handle(b)
    PROVE  HonestInv'
<1>1. /\ job[b] \in Jobs /\ job[b].at \in Symbols /\ Kept(job[b], now, bars)
      /\ UNCHANGED <<now, db>>
      /\ Goto(b, "next", Outcome(job[b], "error", "failed", "provider"))
  BY HonestTurn DEF Handle, Busy
<1>2. [out |-> "error", run |-> "failed", cause |-> "provider"] \in Results
  BY DEF Results
<1>3. QED
  BY <1>1, <1>2, ErrorHonest

LEMMA HandleFailsHonest ==
    ASSUME HonestInv, SessionInv', NEW b \in Batches, HandleFails(b)
    PROVE  HonestInv'
<1> DEFINE j == job[b]
           k == [Outcome(j, "error", "running", "handler") EXCEPT
                   !.aborted = TRUE, !.unreadable = Succeeded(j)]
<1>1. /\ j \in Jobs /\ j.at \in Symbols /\ Kept(j, now, bars)
      /\ UNCHANGED <<now, db>> /\ Goto(b, "next", k)
  BY HonestTurn DEF HandleFails, Busy
<1> HIDE DEF j
<1>2. k = [Outcome(j, "error", "running", "handler") EXCEPT
             !.aborted = TRUE, !.unreadable = Succeeded(j)]
  OBVIOUS
<1>3. /\ [out |-> "error", run |-> "running", cause |-> "handler"] \in Results
      /\ Succeeded(j) \in SUBSET Symbols
  BY DEF Results, Succeeded
<1> HIDE DEF k
<1>4. QED
  BY <1>1, <1>2, <1>3, ErrorHonest

LEMMA StoreHonest ==
    ASSUME HonestInv, SessionInv', NEW b \in Batches, Store(b)
    PROVE  HonestInv'
<1> DEFINE j == job[b]
           new == j.batch \ bars[j.at]
           k == [j EXCEPT !.staged = new]
           l == IF new = {} THEN "close" ELSE "sync"
<1>1. /\ j \in Jobs /\ Kept(j, now, bars) /\ j.since <= j.end
      /\ UpTo(j.start - 1) \subseteq bars[j.at]
      /\ UNCHANGED <<now, db>> /\ Goto(b, l, k)
  BY HonestTurn DEF Store, Busy
<1>2. j.batch = Offered \cap (j.start .. j.end)
  BY DEF Store, HonestInv, Honest
<1> HIDE DEF j
<1>3. j.start \in Int /\ j.end \in Nat
  BY <1>1 DEF Jobs
<1>4. UpTo(j.end) \subseteq bars[j.at] \cup new /\ new \subseteq UpTo(j.end)
  <2>1. ASSUME NEW t \in Offered, t <= j.end, t \notin bars[j.at] PROVE t \in new
    <3>1. t \in Nat
      BY Instants
    <3>2. ~ (t <= j.start - 1)
      BY <1>1, <2>1 DEF UpTo
    <3>3. QED
      BY <1>2, <1>3, <2>1, <3>1, <3>2
  <2>2. ASSUME NEW t \in new PROVE t \in Offered /\ t <= j.end
    BY <1>2, <1>3, <2>2
  <2>3. QED
    BY <2>1, <2>2 DEF UpTo
<1>5. l \in {"close", "sync"} /\ (l = "close" => new = {})
  OBVIOUS
<1> HIDE DEF new
<1>6. /\ k.at = j.at /\ k.since = j.since /\ k.start = j.start /\ k.end = j.end
      /\ k.seen = j.seen /\ k.results = j.results /\ k.staged = new
  BY <1>1 DEF Jobs
<1> HIDE DEF k, l
<1>7. Kept(k, now, bars)
  BY <1>1, <1>6 DEF Kept
<1>8. Honest(l, k, now, bars)
  BY <1>1, <1>4, <1>5, <1>6, <1>7 DEF Honest
<1>9. QED
  BY <1>1, <1>8, QuietHonest

LEMMA StoreFailsHonest ==
    ASSUME HonestInv, SessionInv', NEW b \in Batches, StoreFails(b)
    PROVE  HonestInv'
<1> DEFINE j == job[b]
           k == [Outcome(j, "error", "running", "store") EXCEPT
                   !.reread = TRUE, !.unreadable = Succeeded(j)]
<1>1. /\ j \in Jobs /\ j.at \in Symbols /\ Kept(j, now, bars)
      /\ UNCHANGED <<now, db>> /\ Goto(b, "next", k)
  BY HonestTurn DEF StoreFails, Busy
<1> HIDE DEF j
<1>2. k = [Outcome(j, "error", "running", "store") EXCEPT
             !.reread = TRUE, !.unreadable = Succeeded(j)]
  OBVIOUS
<1>3. /\ [out |-> "error", run |-> "running", cause |-> "store"] \in Results
      /\ Succeeded(j) \in SUBSET Symbols
  BY DEF Results, Succeeded
<1> HIDE DEF k
<1>4. QED
  BY <1>1, <1>2, <1>3, ErrorHonest

LEMMA SyncHonest ==
    ASSUME HonestInv, SessionInv', NEW b \in Batches, Sync(b)
    PROVE  HonestInv'
<1> DEFINE j == job[b]
           known == bars[j.at] \cup j.staged
           bounds == Max(known)
           k == [j EXCEPT !.bounds = bounds]
<1>1. /\ j \in Jobs /\ j.at \in Symbols /\ Kept(j, now, bars) /\ j.since <= j.end
      /\ UpTo(j.start - 1) \subseteq bars[j.at]
      /\ TablesOK /\ HonestTables(bars, coverage)
      /\ UNCHANGED <<now, db>> /\ Goto(b, "close", k)
  BY HonestTurn DEF Sync, Busy
<1>2. j.staged # {} /\ UpTo(j.end) \subseteq known /\ j.staged \subseteq UpTo(j.end)
  BY DEF Sync, HonestInv, Honest, SessionInv, TypeInv, LocalsOK
<1> HIDE DEF j
<1>3. known \subseteq Offered /\ known # {}
  BY <1>1, <1>2 DEF TablesOK, Jobs
<1>4. bounds \in known
  <2>1. known \subseteq Time
    BY <1>3, SharedSessionAssumption
  <2> HIDE DEF known
  <2>2. QED
    BY <1>3, <2>1, TimeMax
<1>5. j.end \in Nat /\ bounds \in Nat
  BY <1>1, <1>3, <1>4, Instants DEF Jobs
<1> HIDE DEF bounds
<1>6. UpTo(bounds) \subseteq known
  <2>1. CASE bounds \in bars[j.at]
    BY <1>1, <2>1 DEF HonestTables
  <2>2. CASE bounds \in j.staged
    <3>1. bounds <= j.end
      BY <1>2, <2>2 DEF UpTo
    <3>2. UpTo(bounds) \subseteq UpTo(j.end)
      BY <1>5, <3>1, UpToLater
    <3>3. QED
      BY <1>2, <3>2
  <2>3. QED
    BY <1>4, <2>1, <2>2
<1>7. /\ k.at = j.at /\ k.since = j.since /\ k.start = j.start /\ k.end = j.end
      /\ k.seen = j.seen /\ k.results = j.results /\ k.staged = j.staged
      /\ k.bounds = bounds
  BY <1>1 DEF Jobs
<1> HIDE DEF k
<1>8. Kept(k, now, bars)
  BY <1>1, <1>7 DEF Kept
<1>9. Honest("close", k, now, bars)
  BY <1>1, <1>2, <1>6, <1>7, <1>8 DEF Honest
<1>10. QED
  BY <1>1, <1>9, QuietHonest

LEMMA CloseHonest ==
    ASSUME HonestInv, SessionInv', NEW b \in Batches, Close(b)
    PROVE  HonestInv'
<1> DEFINE j == job[b]
           s == j.at
           k == Outcome(j, "ok", "succeeded", "none")
<1>1. /\ j \in Jobs /\ s \in Symbols /\ Kept(j, now, bars) /\ j.since <= j.end
      /\ TablesOK /\ HonestTables(bars, coverage)
      /\ now' = now /\ Goto(b, "next", k)
  BY HonestTurn DEF Close, Busy
<1>2. /\ UpTo(j.end) \subseteq bars[s] \cup j.staged /\ j.staged \subseteq UpTo(j.end)
      /\ j.staged # {} => UpTo(j.bounds) \subseteq bars[s] \cup j.staged
  BY DEF Close, HonestInv, Honest
<1>3. /\ bars' = [bars EXCEPT ![s] = @ \cup j.staged]
      /\ \/ coverage' = [coverage EXCEPT ![s] = j.bounds] /\ j.staged # {}
         \/ coverage' = [coverage EXCEPT ![s] = coverage[s]]
  BY DEF Close
<1>4. j.end \in Nat /\ j.since \in Nat
  BY <1>1 DEF Jobs
<1> HIDE DEF j, s
<1>5. /\ bars'[s] = bars[s] \cup j.staged
      /\ \A q \in Symbols \ {s} : bars'[q] = bars[q]
      /\ \A q \in Symbols \ {s} : coverage'[q] = coverage[q]
      /\ coverage'[s] = coverage[s] \/ (coverage'[s] = j.bounds /\ j.staged # {})
  BY <1>1, <1>3 DEF TablesOK
<1>6. \A q \in Symbols : bars[q] \subseteq bars'[q]
  BY <1>5
<1>7. \A t \in bars'[s] : UpTo(t) \subseteq bars'[s]
  <2>1. ASSUME NEW t \in j.staged PROVE UpTo(t) \subseteq bars'[s]
    <3>1. t \in Offered /\ t <= j.end
      BY <1>2, <2>1 DEF UpTo
    <3>2. t \in Nat
      BY <3>1, Instants
    <3>3. UpTo(t) \subseteq UpTo(j.end)
      BY <1>4, <3>1, <3>2, UpToLater
    <3>4. QED
      BY <1>2, <1>5, <3>3
  <2>2. ASSUME NEW t \in bars[s] PROVE UpTo(t) \subseteq bars'[s]
    BY <1>1, <1>6, <2>2 DEF HonestTables
  <2>3. QED
    BY <1>5, <2>1, <2>2
<1>8. UpTo(coverage'[s]) \subseteq bars'[s]
  <2>1. CASE coverage'[s] = coverage[s]
    BY <1>1, <1>6, <2>1 DEF HonestTables
  <2>2. CASE coverage'[s] = j.bounds /\ j.staged # {}
    BY <1>2, <1>5, <2>2
  <2>3. QED
    BY <1>5, <2>1, <2>2
<1>9. HonestTables(bars', coverage')
  BY <1>1, <1>5, <1>7, <1>8 DEF HonestTables
<1>10. Kept(j, now, bars')
  BY <1>1, <1>6 DEF Kept
<1>11. UpTo(j.since) \subseteq bars'[s]
  <2>1. UpTo(j.since) \subseteq UpTo(j.end)
    BY <1>1, <1>4, UpToLater
  <2>2. QED
    BY <1>2, <1>5, <2>1
<1>12. [out |-> "ok", run |-> "succeeded", cause |-> "none"] \in Results
  BY DEF Results
<1>13. Honest("next", k, now, bars')
  BY <1>1, <1>10, <1>11, <1>12, OutcomeHonest DEF s
<1> HIDE DEF k
<1>14. QED
  BY <1>1, <1>6, <1>9, <1>13, StepHonest

LEMMA TailFailsHonest ==
    ASSUME HonestInv, SessionInv', NEW b \in Batches, TailFails(b)
    PROVE  HonestInv'
<1> DEFINE j == job[b]
           U == IF pc[b] = "close" THEN Succeeded(j)
                ELSE Outcome(j, "error", "running", "tail").unreadable
           k == [Outcome(j, "error", "running", "tail") EXCEPT
                   !.aborted = TRUE, !.unreadable = U]
<1>1. j \in Jobs /\ j.at \in Symbols /\ Kept(j, now, bars) /\ UNCHANGED <<now, db>>
  BY HonestTurn DEF TailFails, Busy
<1>2. [out |-> "error", run |-> "running", cause |-> "tail"] \in Results
  BY DEF Results
<1>3. Goto(b, "next", k)
  BY DEF TailFails
<1> HIDE DEF j
<1>4. U \in SUBSET Symbols
  BY <1>1, <1>2, OutcomeIs DEF Succeeded, Jobs
<1> HIDE DEF U
<1>5. k = [Outcome(j, "error", "running", "tail") EXCEPT !.aborted = TRUE, !.unreadable = U]
  OBVIOUS
<1> HIDE DEF k
<1>6. QED
  BY <1>1, <1>2, <1>3, <1>4, <1>5, ErrorHonest

LEMMA NoJobHonest ==
    ASSUME NEW n \in Nat, NEW h
    PROVE  Honest("idle", NoJob, n, h)
<1>1. UpTo(0) = {}
  BY UpToNothing
<1>2. /\ NoJob.since = 0
      /\ \A s \in Symbols : NoJob.seen[s] = 0 /\ NoJob.results[s].out = "none"
  BY DEF NoJob, Pending
<1>3. QED
  BY <1>1, <1>2 DEF Honest, Kept, Busy

LEMMA FinishHonest ==
    ASSUME HonestInv, SessionInv', NEW b \in Batches, Finish(b)
    PROVE  HonestInv'
<1>1. UNCHANGED <<now, db>> /\ Goto(b, "idle", NoJob)
  BY DEF Finish, Leave
<1>2. now \in Nat
  BY SharedSessionAssumption DEF HonestInv, SessionInv, TypeInv, TablesOK, Time
<1>3. QED
  BY <1>1, <1>2, NoJobHonest, QuietHonest

LEMMA CrashHonest ==
    ASSUME HonestInv, SessionInv', Crash
    PROVE  HonestInv'
<1>1. now \in Nat
  BY SharedSessionAssumption DEF HonestInv, SessionInv, TypeInv, TablesOK, Time
<1>2. \A b \in Batches : pc'[b] = "idle" /\ job'[b] = NoJob
  BY DEF Crash
<1>3. UNCHANGED <<now, coverage, bars>>
  BY DEF Crash, db
<1>4. QED
  BY <1>1, <1>2, <1>3, NoJobHonest DEF HonestInv

\* Steps that leave the bars and the batches alone.
LEMMA OtherHonest ==
    ASSUME HonestInv, SessionInv', UNCHANGED <<coverage, bars, pc, job>>, now <= now'
    PROVE  HonestInv'
<1>1. now \in Nat /\ now' \in Nat
  BY SharedSessionAssumption DEF HonestInv, SessionInv, TypeInv, TablesOK, Time
<1>2. ASSUME NEW b \in Batches PROVE Honest(pc'[b], job'[b], now', bars')
  <2>1. LocalsOK(pc[b], job[b]) /\ Honest(pc[b], job[b], now, bars)
    BY DEF HonestInv, SessionInv, TypeInv
  <2>2. Honest(pc[b], job[b], now', bars)
    BY <1>1, <2>1, HonestGrows
  <2>3. QED
    BY <2>2
<1>3. QED
  BY <1>2 DEF HonestInv

LEMMA HonestInit ==
    ASSUME Init
    PROVE  HonestInv
<1>1. now \in Nat
  BY DEF Init
<1>2. UpTo(0) = {}
  BY UpToNothing
<1>3. HonestTables(bars, coverage)
  BY <1>2 DEF Init, HonestTables
<1>4. \A b \in Batches : pc[b] = "idle" /\ job[b] = NoJob
  BY DEF Init
<1>5. QED
  BY <1>1, <1>3, <1>4, NoJobHonest, SessionInit DEF HonestInv

LEMMA HonestNext ==
    ASSUME Lookback >= MaxTime, HonestInv, [Next]_vars
    PROVE  HonestInv'
<1>1. SessionInv'
  BY SessionNext DEF HonestInv
<1>2. now \in Nat
  BY SharedSessionAssumption DEF HonestInv, SessionInv, TypeInv, TablesOK, Time
<1>3. CASE UNCHANGED vars
  BY <1>1, <1>2, <1>3, OtherHonest DEF vars, db
<1>4. ASSUME NEW s \in Symbols, AddSymbol(s) \/ Deactivate(s) PROVE HonestInv'
  BY <1>1, <1>2, <1>4, OtherHonest DEF AddSymbol, Deactivate
<1>5. ASSUME NEW b \in Batches, Detect(b) \/ Work(b) PROVE HonestInv'
  BY <1>1, <1>5, DetectHonest, BeginHonest, AlreadyCurrentHonest, BeginPoisonedHonest,
     FetchHonest, HandleHonest, StoreHonest, SyncHonest, CloseHonest, FinishHonest
     DEF Work
<1>6. ASSUME NEW b \in Batches, Fault(b) PROVE HonestInv'
  BY <1>1, <1>6, BeginFailsHonest, FetchFailsHonest, HandleFailsHonest, StoreFailsHonest,
     TailFailsHonest DEF Fault
<1>7. CASE Crash
  BY <1>1, <1>7, CrashHonest
<1>8. CASE Tick
  BY <1>1, <1>2, <1>8, OtherHonest DEF Tick, db
<1>9. CASE Rest
  BY <1>3, <1>9 DEF Rest
<1>10. QED
  BY <1>3, <1>4, <1>5, <1>6, <1>7, <1>8, <1>9 DEF Next

LEMMA HonestAlways ==
    ASSUME Lookback >= MaxTime
    PROVE  Spec => []HonestInv
<1>1. Init => HonestInv
  BY HonestInit
<1>2. HonestInv /\ [Next]_vars => HonestInv'
  BY HonestNext
<1>3. QED
  BY <1>1, <1>2, PTL DEF Spec

\* When the first increment of a symbol looks back far enough, no bar the
\* provider had is missing before coverage_end, whatever failed, in whatever
\* batch, and however the turns of the batches interleave.
THEOREM SharedSessionCoverage ==
    ASSUME Lookback >= MaxTime
    PROVE  Spec => []CoverageHonest
<1>1. HonestInv => CoverageHonest
  <2>1. SUFFICES ASSUME HonestInv, NEW s \in Symbols,
                        NEW t \in Offered \cap (1 .. coverage[s])
                 PROVE  t \in bars[s]
    BY DEF CoverageHonest
  <2>2. coverage[s] \in Nat
    BY <2>1 DEF HonestInv, SessionInv, TypeInv, TablesOK
  <2>3. t \in UpTo(coverage[s])
    BY <2>1, <2>2, Instants DEF UpTo
  <2>4. QED
    BY <2>1, <2>3 DEF HonestInv, HonestTables
<1>2. QED
  BY <1>1, HonestAlways, PTL

\* And a symbol whose turn ended without an exception has every bar there was
\* when its batch looked for stale symbols.
THEOREM SharedSessionCurrent ==
    ASSUME Lookback >= MaxTime
    PROVE  Spec => []SucceededCurrent
<1>1. HonestInv => SucceededCurrent
  <2>1. SUFFICES ASSUME HonestInv, NEW b \in Batches, NEW s \in Succeeded(job[b])
                 PROVE  /\ job[b].results[s].run = "succeeded"
                        /\ Offered \cap (1 .. job[b].since) \subseteq bars[s]
    BY DEF SucceededCurrent
  <2>2. /\ s \in Symbols /\ job[b].results[s].out = "ok" /\ Kept(job[b], now, bars)
        /\ job[b] \in Jobs
    BY <2>1 DEF Succeeded, HonestInv, Honest, SessionInv, TypeInv, LocalsOK
  <2>3. job[b].results[s].run = "succeeded" /\ UpTo(job[b].since) \subseteq bars[s]
    BY <2>2 DEF Kept
  <2>4. Offered \cap (1 .. job[b].since) \subseteq UpTo(job[b].since)
    BY <2>2, Instants DEF UpTo, Jobs
  <2>5. QED
    BY <2>3, <2>4
<1>2. QED
  BY <1>1, HonestAlways, PTL
=============================================================================
