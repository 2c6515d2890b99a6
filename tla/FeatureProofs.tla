---------------------------- MODULE FeatureProofs ---------------------------
(***************************************************************************)
(* Feature definitions and feature values, for any number of servers,      *)
(* files, symbols, features and changes of the bars.                       *)
(*                                                                         *)
(* Two servers may seed one definition at once.  The one that waits finds  *)
(* it committed, or gone with a transaction that ended; so no definition   *)
(* is ever overwritten, and a value that was usable stays so.  A request   *)
(* writes the blocks of one symbol after another into its image, and the   *)
(* image is, at any moment, exactly the values of the symbols it reports.  *)
(***************************************************************************)
EXTENDS FeatureStore, SequenceTheorems, WellFoundedInduction, TLAPS

Labels == {"down", "seed", "insert", "serve", "symbol", "upsert", "answered"}

Entries == [name : Names, lookback : Nat]

Starting == {"seed", "insert"}
Computing == {"symbol", "upsert", "answered"}

-----------------------------------------------------------------------------
\* The definitions.

\* A file that is being seeded: what is neither committed nor inserted is still
\* to come.
Seeds(label, j, file, known) ==
    /\ label \in Starting =>
          /\ j.entries \in Seq(Entries)
          /\ \A i \in DOMAIN file :
                \/ file[i].name \in known \cup DOMAIN j.seeded
                \/ \E k \in DOMAIN j.entries : j.entries[k].name = file[i].name
    /\ label = "insert" => j.entries # <<>>
    /\ label \notin Starting => DOMAIN j.seeded = {}

SeedInvariant ==
    /\ pc \in [Processes -> Labels]
    /\ job = [p \in Processes |-> job[p]]
    /\ SeededServes
    /\ \A p \in Processes :
          /\ DOMAIN job[p] = DOMAIN NoJob
          /\ Seeds(pc[p], job[p], File[p], DOMAIN definitions)
          /\ DOMAIN job[p].seeded \cap DOMAIN definitions = {}
          /\ \A q \in Processes \ {p} :
                DOMAIN job[p].seeded \cap DOMAIN job[q].seeded = {}

-----------------------------------------------------------------------------
\* The values.

\* What a request is to write for a symbol, given the bars it read.
ValueOf(frames, r, k) == Series[k[2]][BarsUntil(frames[k[1]], r.end)][k[3]]

KeysOf(frames, r, s) ==
    {k \in {s} \X Range(r.features) \X (r.start .. r.end) :
        ValueOf(frames, r, k) # NaN}

BlockOf(frames, r, s, name) == Block(s, name, frames[s], r)

BlocksOf(frames, r, s) == {BlockOf(frames, r, s, name) : name \in Range(r.features)}

\* A table that has some of the given keys, each with its value.
Right(frames, r, table, keys) ==
    /\ DOMAIN table \subseteq keys
    /\ \A k \in DOMAIN table : table[k] = ValueOf(frames, r, k)

\* The keys of the symbols a request reports as computed and had bars for.
Reported(j) ==
    UNION {KeysOf(j.frames, j.request, s) : s \in j.computed \cap DOMAIN j.frames}

Trusts(j, table) ==
    \A name \in Range(j.request.features) :
        name \in DOMAIN table /\ table[name] = Lookback(Registry[name])

\* The rows of the symbol at hand are staged, or in a block still to upsert.
Upserts(j, s) ==
    /\ s \in DOMAIN j.frames
    /\ Right(j.frames, j.request, j.staged, KeysOf(j.frames, j.request, s))
    /\ j.rows \in Seq(BlocksOf(j.frames, j.request, s))
    /\ \A name \in Range(j.request.features) :
          LET block == BlockOf(j.frames, j.request, s, name) IN
          \/ DOMAIN block \subseteq DOMAIN j.staged
          \/ \E i \in DOMAIN j.rows : j.rows[i] = block

\* What a request knows: its image is what it will report.
Computes(label, j, table) ==
    /\ j.request \in Requests
    /\ j.todo \in Seq(Symbols) /\ IsInjective(j.todo)
    /\ Range(j.todo) \cap j.computed = {}
    /\ \A s \in DOMAIN j.frames \cap Range(j.todo) :
          label = "upsert" /\ s = Head(j.todo)
    /\ DOMAIN j.frames # {} => Trusts(j, table)
    /\ DOMAIN j.image = Reported(j)
    /\ Right(j.frames, j.request, j.image, Reported(j))
    /\ label # "upsert" => DOMAIN j.staged = {}
    /\ label = "upsert" => j.todo # <<>> /\ Upserts(j, Head(j.todo))

ValueInvariant ==
    /\ SeedInvariant
    /\ ValuesUsable
    /\ \A p \in Processes :
          pc[p] \in Computing => Computes(pc[p], job[p], definitions)

-----------------------------------------------------------------------------
\* Tables, and what a process knows.

LEMMA WrittenFacts ==
    ASSUME NEW table, NEW rows
    PROVE  /\ DOMAIN Written(table, rows) = DOMAIN table \cup DOMAIN rows
           /\ \A k \in DOMAIN rows : Written(table, rows)[k] = rows[k]
           /\ \A k \in DOMAIN table \ DOMAIN rows :
                 Written(table, rows)[k] = table[k]
BY DEF Written

LEMMA EmptyFacts == DOMAIN Empty = {}
BY DEF Empty

Fields == {"entries", "seeded", "request", "todo", "rows", "staged", "image",
           "frames", "computed", "failed"}

LEMMA NoJobFacts ==
    /\ DOMAIN NoJob = Fields
    /\ DOMAIN NoJob.seeded = {} /\ DOMAIN NoJob.frames = {}
    /\ DOMAIN NoJob.staged = {} /\ DOMAIN NoJob.image = {}
    /\ NoJob.computed = {}
BY EmptyFacts DEF NoJob, Fields

\* After a move of process p, the others are where they were.
LEMMA Moved ==
    ASSUME SeedInvariant, NEW p \in Processes, NEW label, NEW j, Goto(p, label, j)
    PROVE  /\ pc'[p] = label /\ job'[p] = j
           /\ \A q \in Processes \ {p} : pc'[q] = pc[q] /\ job'[q] = job[q]
           /\ job' = [q \in Processes |-> job'[q]]
           /\ label \in Labels => pc' \in [Processes -> Labels]
BY DEF SeedInvariant, Goto

-----------------------------------------------------------------------------
\* Seeding.

Serving == {"serve", "symbol", "upsert", "answered"}

\* A process moves while no definition is committed; what it has inserted anew
\* nobody else has.
LEMMA SeedMove ==
    ASSUME SeedInvariant, NEW p \in Processes, NEW label \in Labels, NEW j,
           Goto(p, label, j), definitions' = definitions, DOMAIN j = Fields,
           Seeds(label, j, File[p], DOMAIN definitions),
           label \in Serving => pc[p] \in Serving,
           \A n \in DOMAIN j.seeded \ DOMAIN job[p].seeded :
              /\ n \notin DOMAIN definitions
              /\ \A q \in Processes \ {p} : n \notin DOMAIN job[q].seeded
    PROVE  SeedInvariant'
<1>1. /\ pc'[p] = label /\ job'[p] = j
      /\ \A q \in Processes \ {p} : pc'[q] = pc[q] /\ job'[q] = job[q]
      /\ job' = [q \in Processes |-> job'[q]]
      /\ pc' \in [Processes -> Labels]
  BY Moved
<1>2. ASSUME NEW q \in Processes
      PROVE  /\ DOMAIN job'[q] = DOMAIN NoJob
             /\ Seeds(pc'[q], job'[q], File[q], DOMAIN definitions')
             /\ DOMAIN job'[q].seeded \cap DOMAIN definitions' = {}
  BY <1>1, NoJobFacts DEF SeedInvariant
<1>3. ASSUME NEW q \in Processes, NEW r \in Processes \ {q}
      PROVE  DOMAIN job'[q].seeded \cap DOMAIN job'[r].seeded = {}
  <2>1. CASE q # p /\ r # p
    BY <1>1, <2>1 DEF SeedInvariant
  <2>2. CASE q = p \/ r = p
    BY <1>1, <2>2 DEF SeedInvariant
  <2>3. QED
    BY <2>1, <2>2
<1>4. SeededServes'
  BY <1>1 DEF SeedInvariant, SeededServes, Serving
<1>5. \A q \in Processes :
         /\ DOMAIN job'[q] = DOMAIN NoJob
         /\ Seeds(pc'[q], job'[q], File[q], DOMAIN definitions')
         /\ DOMAIN job'[q].seeded \cap DOMAIN definitions' = {}
         /\ \A r \in Processes \ {q} :
               DOMAIN job'[q].seeded \cap DOMAIN job'[r].seeded = {}
  BY <1>2, <1>3
<1>6. QED
  BY <1>1, <1>4, <1>5 DEF SeedInvariant, Seeds

\* The same for a process that has inserted no definition.
LEMMA PlainMove ==
    ASSUME SeedInvariant, NEW p \in Processes, NEW label \in Labels \ Starting,
           NEW j, Goto(p, label, j), definitions' = definitions,
           DOMAIN j = Fields, DOMAIN j.seeded = {},
           label \in Serving => pc[p] \in Serving
    PROVE  SeedInvariant'
<1>1. Seeds(label, j, File[p], DOMAIN definitions) /\ label \in Labels
  BY DEF Seeds, Starting
<1>2. \A n \in DOMAIN j.seeded \ DOMAIN job[p].seeded : FALSE
  OBVIOUS
<1>3. QED
  BY <1>1, <1>2, SeedMove

LEMMA StartSeeds ==
    ASSUME SeedInvariant, NEW p \in Processes, Start(p)
    PROVE  SeedInvariant'
<1> DEFINE j == [NoJob EXCEPT !.entries = File[p]]
<1>1. Goto(p, "seed", j) /\ definitions' = definitions
  BY DEF Start, db
<1>2. DOMAIN j = Fields /\ j.entries = File[p] /\ DOMAIN j.seeded = {}
  BY NoJobFacts DEF Fields
<1>3. File[p] \in Seq(Entries)
  BY FeatureStoreAssumption DEF Entries
<1> HIDE DEF j
<1>4. Seeds("seed", j, File[p], DOMAIN definitions)
  BY <1>2, <1>3 DEF Seeds, Starting
<1>5. QED
  BY <1>1, <1>2, <1>4, SeedMove DEF Labels, Serving

\* An entry that is known is done with.
LEMMA NextEntrySeeds ==
    ASSUME NEW j, NEW file, NEW known, NEW table, NEW label \in Starting,
           DOMAIN j = Fields, Seeds(label, j, file, known), j.entries # <<>>,
           DOMAIN j.seeded \cup {Head(j.entries).name}
              \subseteq known \cup DOMAIN table
    PROVE  LET next == [NextEntry(j) EXCEPT !.seeded = table]
           IN  DOMAIN next = Fields /\ next.seeded = table
               /\ Seeds("seed", next, file, known)
<1> DEFINE next == [NextEntry(j) EXCEPT !.seeded = table]
<1>1. DOMAIN next = Fields /\ next.seeded = table /\ next.entries = Tail(j.entries)
  BY DEF NextEntry, Fields
<1> HIDE DEF next
<1>2. j.entries \in Seq(Entries)
  BY DEF Seeds
<1>3. /\ Tail(j.entries) \in Seq(Entries) /\ Len(j.entries) \in Nat
      /\ Len(Tail(j.entries)) = Len(j.entries) - 1
      /\ \A i \in 1 .. Len(Tail(j.entries)) : Tail(j.entries)[i] = j.entries[i + 1]
      /\ DOMAIN j.entries = 1 .. Len(j.entries)
      /\ DOMAIN Tail(j.entries) = 1 .. Len(Tail(j.entries))
      /\ Head(j.entries) = j.entries[1]
  BY <1>2, HeadTailProperties, LenProperties
<1>4. ASSUME NEW i \in DOMAIN file
      PROVE  \/ file[i].name \in known \cup DOMAIN next.seeded
             \/ \E k \in DOMAIN next.entries : next.entries[k].name = file[i].name
  <2>1. CASE file[i].name \in known \cup DOMAIN j.seeded
    BY <1>1, <2>1
  <2>2. CASE \E k \in DOMAIN j.entries : j.entries[k].name = file[i].name
    <3>1. PICK k \in DOMAIN j.entries : j.entries[k].name = file[i].name
      BY <2>2
    <3>2. CASE k = 1
      BY <1>1, <1>3, <3>1, <3>2
    <3>3. CASE k # 1
      <4>1. k - 1 \in 1 .. Len(Tail(j.entries)) /\ (k - 1) + 1 = k
        BY <1>3, <3>3
      <4>2. Tail(j.entries)[k - 1] = j.entries[k]
        BY <1>3, <4>1
      <4>3. QED
        BY <1>1, <1>3, <3>1, <4>1, <4>2
    <3>4. QED
      BY <3>2, <3>3
  <2>3. QED
    BY <2>1, <2>2 DEF Seeds
<1>5. Seeds("seed", next, file, known)
  BY <1>1, <1>3, <1>4 DEF Seeds, Starting
<1>6. QED
  BY <1>1, <1>5 DEF next

LEMMA LookUpSeeds ==
    ASSUME SeedInvariant, NEW p \in Processes, LookUp(p)
    PROVE  SeedInvariant'
<1> DEFINE j == job[p]
           known == DOMAIN definitions \cup DOMAIN j.seeded
<1>1. /\ pc[p] = "seed" /\ j.entries # <<>> /\ definitions' = definitions
      /\ DOMAIN j = Fields /\ Seeds("seed", j, File[p], DOMAIN definitions)
  BY NoJobFacts DEF LookUp, SeedInvariant, db
<1>2. CASE Head(j.entries).name \in known
  <2> DEFINE next == [NextEntry(j) EXCEPT !.seeded = j.seeded]
  <2>1. Goto(p, "seed", NextEntry(j))
    BY <1>2 DEF LookUp
  <2>2. NextEntry(j) = next
    BY <1>1 DEF NextEntry, Fields
  <2>3. /\ DOMAIN next = Fields /\ next.seeded = j.seeded
        /\ Seeds("seed", next, File[p], DOMAIN definitions)
    BY <1>1, <1>2, NextEntrySeeds DEF Starting
  <2> HIDE DEF next
  <2>4. QED
    BY <1>1, <2>1, <2>2, <2>3, SeedMove DEF Labels, Serving
<1>3. CASE Head(j.entries).name \notin known
  <2>1. Goto(p, "insert", j)
    BY <1>3 DEF LookUp
  <2>2. Seeds("insert", j, File[p], DOMAIN definitions)
    BY <1>1 DEF Seeds, Starting
  <2>3. QED
    BY <1>1, <2>1, <2>2, SeedMove DEF Labels, Serving
<1>4. QED
  BY <1>2, <1>3

\* An insert that does not wait finds the name committed or free.
LEMMA InsertSeeds ==
    ASSUME SeedInvariant, NEW p \in Processes, Insert(p)
    PROVE  SeedInvariant'
<1> DEFINE j == job[p]
           entry == Head(j.entries)
<1>1. /\ pc[p] = "insert" /\ j.entries # <<>> /\ definitions' = definitions
      /\ DOMAIN j = Fields /\ Seeds("insert", j, File[p], DOMAIN definitions)
      /\ ~Waits(p)
  BY NoJobFacts DEF Insert, SeedInvariant, Seeds, db
<1>2. CASE entry.name \in DOMAIN definitions
  <2> DEFINE next == [NextEntry(j) EXCEPT !.seeded = j.seeded]
  <2>1. Goto(p, "seed", NextEntry(j))
    BY <1>2 DEF Insert
  <2>2. NextEntry(j) = next
    BY <1>1 DEF NextEntry, Fields
  <2>3. /\ DOMAIN next = Fields /\ next.seeded = j.seeded
        /\ Seeds("seed", next, File[p], DOMAIN definitions)
    BY <1>1, <1>2, NextEntrySeeds DEF Starting
  <2> HIDE DEF next
  <2>4. QED
    BY <1>1, <2>1, <2>2, <2>3, SeedMove DEF Labels, Serving
<1>3. CASE entry.name \notin DOMAIN definitions
  <2> DEFINE new == [n \in {entry.name} |-> entry.lookback]
             table == Written(j.seeded, new)
             next == [NextEntry(j) EXCEPT !.seeded = table]
             plain == [NextEntry(j) EXCEPT !.seeded = Written(@, new)]
  <2>1. Goto(p, "seed", plain)
    BY <1>3 DEF Insert
  <2>2. plain = next
    BY <1>1 DEF NextEntry, Fields
  <2>3. DOMAIN table = DOMAIN j.seeded \cup {entry.name}
    BY WrittenFacts
  <2> HIDE DEF table
  <2>4. /\ DOMAIN next = Fields /\ next.seeded = table
        /\ Seeds("seed", next, File[p], DOMAIN definitions)
    BY <1>1, <2>3, NextEntrySeeds DEF Starting
  <2>5. \A q \in Processes \ {p} : entry.name \notin DOMAIN job[q].seeded
    <3>1. SUFFICES ASSUME NEW q \in Processes \ {p},
                          entry.name \in DOMAIN job[q].seeded
                   PROVE  FALSE
      OBVIOUS
    <3>2. <<entry.name>> \in Wanted(p) /\ <<entry.name>> \in Held(q)
      BY <1>1, <3>1 DEF Wanted, Held
    <3>3. QED
      BY <1>1, <3>2 DEF Waits, WaitsFor
  <2> HIDE DEF next, plain
  <2>6. QED
    BY <1>1, <1>3, <2>1, <2>2, <2>3, <2>4, <2>5, SeedMove DEF Labels, Serving
<1>4. QED
  BY <1>2, <1>3

\* The commit of a startup adds the definitions its transaction inserted.
LEMMA SeededSeeds ==
    ASSUME SeedInvariant, NEW p \in Processes, Seeded(p)
    PROVE  /\ SeedInvariant'
           /\ \A n \in DOMAIN definitions :
                 n \in DOMAIN definitions' /\ definitions'[n] = definitions[n]
<1> DEFINE j == job[p]
<1>1. /\ pc[p] = "seed" /\ j.entries = <<>> /\ Goto(p, "serve", NoJob)
      /\ definitions' = Written(definitions, j.seeded)
      /\ Seeds("seed", j, File[p], DOMAIN definitions)
      /\ DOMAIN j.seeded \cap DOMAIN definitions = {}
  BY DEF Seeded, SeedInvariant
<1>2. /\ pc'[p] = "serve" /\ job'[p] = NoJob
      /\ \A q \in Processes \ {p} : pc'[q] = pc[q] /\ job'[q] = job[q]
      /\ job' = [q \in Processes |-> job'[q]]
      /\ pc' \in [Processes -> Labels]
  BY <1>1, Moved DEF Labels
<1>3. /\ DOMAIN definitions' = DOMAIN definitions \cup DOMAIN j.seeded
      /\ \A n \in DOMAIN definitions : definitions'[n] = definitions[n]
  <2>1. \A n \in DOMAIN definitions : n \notin DOMAIN j.seeded
    BY <1>1
  <2> HIDE DEF j
  <2>2. /\ DOMAIN Written(definitions, j.seeded)
           = DOMAIN definitions \cup DOMAIN j.seeded
        /\ \A n \in DOMAIN definitions \ DOMAIN j.seeded :
              Written(definitions, j.seeded)[n] = definitions[n]
    BY WrittenFacts
  <2>3. QED
    BY <1>1, <2>1, <2>2
<1>4. \A i \in DOMAIN File[p] : File[p][i].name \in DOMAIN definitions'
  BY <1>1, <1>3 DEF Seeds, Starting
<1>5. SeededServes'
  BY <1>2, <1>3, <1>4 DEF SeedInvariant, SeededServes
<1>6. ASSUME NEW q \in Processes
      PROVE  /\ DOMAIN job'[q] = DOMAIN NoJob
             /\ Seeds(pc'[q], job'[q], File[q], DOMAIN definitions')
             /\ DOMAIN job'[q].seeded \cap DOMAIN definitions' = {}
  <2>1. CASE q = p
    BY <1>2, <2>1, NoJobFacts DEF Seeds, Starting
  <2>2. CASE q # p
    <3>1. /\ DOMAIN job[q] = DOMAIN NoJob
          /\ Seeds(pc[q], job[q], File[q], DOMAIN definitions)
          /\ DOMAIN job[q].seeded \cap DOMAIN definitions = {}
          /\ DOMAIN job[q].seeded \cap DOMAIN j.seeded = {}
      BY <2>2 DEF SeedInvariant
    <3>2. QED
      BY <1>2, <1>3, <2>2, <3>1 DEF Seeds
  <2>3. QED
    BY <2>1, <2>2
<1>7. ASSUME NEW q \in Processes, NEW r \in Processes \ {q}
      PROVE  DOMAIN job'[q].seeded \cap DOMAIN job'[r].seeded = {}
  BY <1>2, NoJobFacts DEF SeedInvariant
<1>8. QED
  BY <1>2, <1>3, <1>5, <1>6, <1>7 DEF SeedInvariant, Seeds

-----------------------------------------------------------------------------
\* The image of a request.

\* After the head of a sequence without repetitions, it does not come again.
LEMMA TailFacts ==
    ASSUME NEW S, NEW seq \in Seq(S), IsInjective(seq), seq # <<>>
    PROVE  /\ Tail(seq) \in Seq(S) /\ IsInjective(Tail(seq))
           /\ Head(seq) \in Range(seq) /\ Head(seq) \notin Range(Tail(seq))
           /\ Range(Tail(seq)) \subseteq Range(seq)
<1>1. /\ Tail(seq) \in Seq(S) /\ Len(seq) \in Nat /\ Len(seq) # 0
      /\ Len(Tail(seq)) = Len(seq) - 1
      /\ \A i \in 1 .. Len(Tail(seq)) : Tail(seq)[i] = seq[i + 1]
      /\ DOMAIN seq = 1 .. Len(seq)
      /\ DOMAIN Tail(seq) = 1 .. Len(Tail(seq))
      /\ Head(seq) = seq[1]
  BY HeadTailProperties, LenProperties
<1>2. /\ \A i \in DOMAIN Tail(seq) : i + 1 \in DOMAIN seq /\ i + 1 # 1 /\ i \in Int
      /\ 1 \in DOMAIN seq
  BY <1>1
<1>3. /\ \A i, k \in DOMAIN seq : seq[i] = seq[k] => i = k
  BY DEF IsInjective
<1>4. IsInjective(Tail(seq))
  BY <1>1, <1>2, <1>3 DEF IsInjective
<1>5. QED
  BY <1>1, <1>2, <1>3, <1>4 DEF Range

LEMMA EmptySeqRange == Range(<<>>) = {}
BY DEF Range

\* The keys of a block are those of its feature.
LEMMA BlockKeys ==
    ASSUME NEW frames, NEW r, NEW s, NEW name \in Range(r.features)
    PROVE  LET block == BlockOf(frames, r, s, name) IN
           /\ Right(frames, r, block, KeysOf(frames, r, s))
           /\ \A k \in KeysOf(frames, r, s) : k[2] = name => k \in DOMAIN block
<1> DEFINE series == Series[name][BarsUntil(frames[s], r.end)]
           block == BlockOf(frames, r, s, name)
           times == {x \in r.start .. r.end : series[x] # NaN}
<1>1. block = [k \in {<<s, name, t>> : t \in times} |-> series[k[3]]]
  BY DEF BlockOf, Block
<1>2. \A t : ValueOf(frames, r, <<s, name, t>>) = series[t]
  BY DEF ValueOf
<1> HIDE DEF series
<1>3. ASSUME NEW k \in DOMAIN block
      PROVE  k \in KeysOf(frames, r, s) /\ block[k] = ValueOf(frames, r, k)
  <2>1. PICK t \in times : k = <<s, name, t>>
    BY <1>1, <1>3
  <2>2. block[k] = series[t]
    BY <1>1, <2>1
  <2> HIDE DEF block
  <2>3. QED
    BY <1>2, <2>1, <2>2 DEF KeysOf
<1>4. ASSUME NEW k \in KeysOf(frames, r, s), k[2] = name
      PROVE  k \in DOMAIN block
  <2>1. k[3] \in r.start .. r.end /\ k = <<s, name, k[3]>>
        /\ ValueOf(frames, r, k) # NaN
    BY <1>4 DEF KeysOf
  <2>2. k[3] \in times
    BY <1>2, <2>1
  <2>3. QED
    BY <1>1, <2>1, <2>2
<1> HIDE DEF block
<1>5. QED
  BY <1>3, <1>4 DEF Right, block

\* A request that begins has computed nothing.
LEMMA RequestComputes ==
    ASSUME NEW r \in Requests, NEW table
    PROVE  LET j == [NoJob EXCEPT !.request = r, !.todo = r.symbols]
           IN  /\ Computes("symbol", j, table)
               /\ DOMAIN j = Fields /\ DOMAIN j.seeded = {}
<1> DEFINE j == [NoJob EXCEPT !.request = r, !.todo = r.symbols]
<1>1. /\ DOMAIN j = Fields /\ DOMAIN j.seeded = {} /\ DOMAIN j.frames = {}
      /\ j.todo = r.symbols /\ j.request = r
      /\ DOMAIN j.staged = {} /\ DOMAIN j.image = {} /\ j.computed = {}
  BY NoJobFacts DEF Fields
<1> HIDE DEF j
<1>2. j.todo \in Seq(Symbols) /\ IsInjective(j.todo)
  BY <1>1, FeatureStoreAssumption
<1>3. Reported(j) = {}
  BY <1>1 DEF Reported
<1>4. QED
  BY <1>1, <1>2, <1>3 DEF Computes, Right, j

\* A symbol fails: the rows of the others stay.
LEMMA FailedComputes ==
    ASSUME NEW j, NEW label, NEW table, DOMAIN j = Fields,
           Computes(label, j, table), j.todo # <<>>
    PROVE  /\ Computes("symbol", SymbolFailed(j), table)
           /\ DOMAIN SymbolFailed(j) = Fields
           /\ SymbolFailed(j).seeded = j.seeded
<1> DEFINE k == SymbolFailed(j)
<1>1. /\ DOMAIN k = Fields /\ k.seeded = j.seeded /\ k.todo = Tail(j.todo)
      /\ k.frames = j.frames /\ k.computed = j.computed /\ k.image = j.image
      /\ k.request = j.request /\ k.staged = Empty
  BY DEF SymbolFailed, Fields
<1> HIDE DEF k
<1>2. /\ k.todo \in Seq(Symbols) /\ IsInjective(k.todo)
      /\ Head(j.todo) \notin Range(k.todo) /\ Range(k.todo) \subseteq Range(j.todo)
  BY <1>1, TailFacts DEF Computes
<1>3. Reported(k) = Reported(j)
  BY <1>1 DEF Reported
<1>4. /\ Range(k.todo) \cap k.computed = {}
      /\ DOMAIN k.frames \cap Range(k.todo) = {}
  BY <1>1, <1>2 DEF Computes
<1>5. Trusts(j, table) => Trusts(k, table)
  BY <1>1 DEF Trusts
<1>6. Computes("symbol", k, table)
  BY <1>1, <1>2, <1>3, <1>4, <1>5, EmptyFacts DEF Computes
<1>7. QED
  BY <1>1, <1>6 DEF k

\* A symbol is done: its rows, all of them staged, join those of the others.
LEMMA DoneComputes ==
    ASSUME NEW j, NEW label, NEW table, DOMAIN j = Fields,
           Computes(label, j, table), j.todo # <<>>,
           label = "upsert" => j.rows = <<>>,
           label # "upsert" => Head(j.todo) \notin DOMAIN j.frames
    PROVE  /\ Computes("symbol", SymbolDone(j), table)
           /\ DOMAIN SymbolDone(j) = Fields
           /\ SymbolDone(j).seeded = j.seeded
<1> DEFINE k == SymbolDone(j)
           s == Head(j.todo)
           keys(x) == KeysOf(j.frames, j.request, x)
<1>1. /\ DOMAIN k = Fields /\ k.seeded = j.seeded /\ k.todo = Tail(j.todo)
      /\ k.frames = j.frames /\ k.computed = j.computed \cup {s}
      /\ k.image = Written(j.image, j.staged)
      /\ k.request = j.request /\ k.staged = Empty
  BY DEF SymbolDone, Fields
<1> HIDE DEF k
<1>2. /\ k.todo \in Seq(Symbols) /\ IsInjective(k.todo)
      /\ s \in Range(j.todo) /\ s \notin Range(k.todo)
      /\ Range(k.todo) \subseteq Range(j.todo)
  BY <1>1, TailFacts DEF Computes
<1>3. /\ Range(k.todo) \cap k.computed = {}
      /\ DOMAIN k.frames \cap Range(k.todo) = {}
  BY <1>1, <1>2 DEF Computes
<1>4. Trusts(j, table) => Trusts(k, table)
  BY <1>1 DEF Trusts
<1>5. /\ s \in DOMAIN j.frames => DOMAIN j.staged = keys(s)
      /\ s \notin DOMAIN j.frames => DOMAIN j.staged = {}
      /\ \A x \in DOMAIN j.staged : j.staged[x] = ValueOf(j.frames, j.request, x)
  <2>1. CASE label # "upsert"
    BY <2>1 DEF Computes
  <2>2. CASE label = "upsert"
    <3>1. Upserts(j, s) /\ j.rows = <<>>
      BY <2>2 DEF Computes
    <3>2. /\ s \in DOMAIN j.frames /\ DOMAIN j.staged \subseteq keys(s)
          /\ \A x \in DOMAIN j.staged :
                j.staged[x] = ValueOf(j.frames, j.request, x)
      BY <3>1 DEF Upserts, Right
    <3>3. ASSUME NEW x \in keys(s) PROVE x \in DOMAIN j.staged
      <4>1. x[2] \in Range(j.request.features)
        BY <3>3 DEF KeysOf
      <4>2. x \in DOMAIN BlockOf(j.frames, j.request, s, x[2])
        BY <3>3, <4>1, BlockKeys
      <4>3. DOMAIN BlockOf(j.frames, j.request, s, x[2]) \subseteq DOMAIN j.staged
        BY <3>1, <4>1 DEF Upserts
      <4>4. QED
        BY <4>2, <4>3
    <3>4. QED
      BY <3>2, <3>3
  <2>3. QED
    BY <2>1, <2>2
<1>6. Reported(k) = Reported(j) \cup DOMAIN j.staged
  <2>1. CASE s \in DOMAIN j.frames
    <3>1. k.computed \cap DOMAIN k.frames
          = (j.computed \cap DOMAIN j.frames) \cup {s}
      BY <1>1, <2>1
    <3>2. QED
      BY <1>1, <1>5, <2>1, <3>1 DEF Reported
  <2>2. CASE s \notin DOMAIN j.frames
    <3>1. k.computed \cap DOMAIN k.frames = j.computed \cap DOMAIN j.frames
      BY <1>1, <2>2
    <3>2. QED
      BY <1>1, <1>5, <2>2, <3>1 DEF Reported
  <2>3. QED
    BY <2>1, <2>2
<1>7. /\ DOMAIN k.image = DOMAIN j.image \cup DOMAIN j.staged
      /\ \A x \in DOMAIN k.image : k.image[x] = ValueOf(j.frames, j.request, x)
  <2>1. /\ DOMAIN Written(j.image, j.staged) = DOMAIN j.image \cup DOMAIN j.staged
        /\ \A x \in DOMAIN j.staged :
              Written(j.image, j.staged)[x] = j.staged[x]
        /\ \A x \in DOMAIN j.image \ DOMAIN j.staged :
              Written(j.image, j.staged)[x] = j.image[x]
    BY WrittenFacts
  <2>2. \A x \in DOMAIN j.image : j.image[x] = ValueOf(j.frames, j.request, x)
    BY DEF Computes, Right
  <2>3. QED
    BY <1>1, <1>5, <2>1, <2>2
<1>8. DOMAIN k.image = Reported(k) /\ Right(k.frames, k.request, k.image, Reported(k))
  BY <1>1, <1>6, <1>7 DEF Computes, Right
<1>9. Computes("symbol", k, table)
  BY <1>1, <1>2, <1>3, <1>4, <1>8, EmptyFacts DEF Computes
<1>10. QED
  BY <1>1, <1>9 DEF k

LEMMA ReadFields ==
    ASSUME NEW j, NEW frames, NEW rows, DOMAIN j = Fields
    PROVE  LET k == [j EXCEPT !.frames = frames, !.rows = rows]
           IN  /\ DOMAIN k = Fields /\ k.seeded = j.seeded /\ k.todo = j.todo
               /\ k.frames = frames /\ k.computed = j.computed
               /\ k.image = j.image /\ k.request = j.request
               /\ k.staged = j.staged /\ k.rows = rows
BY DEF Fields

NewFrames(old, s, b) == Written(old, [x \in {s} |-> b])

NewRows(r, s, b) == [i \in DOMAIN r.features |-> Block(s, r.features[i], b, r)]

\* The frames f and the blocks rs after the bars of s were read into old.
Read(old, s, r, f, rs) ==
    /\ DOMAIN f = DOMAIN old \cup {s}
    /\ \A x \in DOMAIN old : x # s => f[x] = old[x]
    /\ rs \in Seq(BlocksOf(f, r, s))
    /\ \A name \in Range(r.features) :
          \E i \in DOMAIN rs : rs[i] = BlockOf(f, r, s, name)

\* The frames and the blocks of a symbol whose bars were read.
LEMMA ReadRows ==
    ASSUME NEW old, NEW s, NEW b, NEW r, r.features \in Seq(Names),
           NEW f, f = NewFrames(old, s, b), NEW rs, rs = NewRows(r, s, b)
    PROVE  Read(old, s, r, f, rs)
<1> DEFINE new == [x \in {s} |-> b]
           frames == Written(old, new)
           rows == [i \in DOMAIN r.features |-> Block(s, r.features[i], b, r)]
           blocks == BlocksOf(frames, r, s)
<1>1. DOMAIN new = {s} /\ new[s] = b
  OBVIOUS
<1> HIDE DEF new
<1>2. /\ DOMAIN frames = DOMAIN old \cup {s} /\ frames[s] = b
      /\ \A x \in DOMAIN old : x # s => frames[x] = old[x]
  <2>1. /\ DOMAIN frames = DOMAIN old \cup DOMAIN new
        /\ \A x \in DOMAIN new : frames[x] = new[x]
        /\ \A x \in DOMAIN old \ DOMAIN new : frames[x] = old[x]
    BY WrittenFacts
  <2>2. QED
    BY <1>1, <2>1
<1> HIDE DEF frames
<1>3. \A name : BlockOf(frames, r, s, name) = Block(s, name, b, r)
  BY <1>2 DEF BlockOf
<1>4. DOMAIN r.features = 1 .. Len(r.features) /\ Len(r.features) \in Nat
  BY LenProperties
<1>5. \A i \in DOMAIN r.features : r.features[i] \in Range(r.features)
  BY DEF Range
<1>6. \A i \in DOMAIN r.features : Block(s, r.features[i], b, r) \in blocks
  BY <1>3, <1>5 DEF BlocksOf
<1> HIDE DEF blocks
<1>7. rows \in [1 .. Len(r.features) -> blocks]
  BY <1>4, <1>6
<1>8. rows \in Seq(blocks)
  BY <1>4, <1>7, SeqDef
<1>9. \A name \in Range(r.features) :
         \E i \in DOMAIN rows : rows[i] = BlockOf(frames, r, s, name)
  BY <1>3 DEF Range
<1>10. f = frames /\ rs = rows
  BY DEF frames, new, NewFrames, NewRows
<1> HIDE DEF rows
<1>11. QED
  BY <1>2, <1>8, <1>9, <1>10 DEF blocks, Read

\* The bars of a symbol are read, and every feature has its block.
LEMMA ReadComputes ==
    ASSUME NEW j, NEW table, NEW k,
           Computes("symbol", j, table), j.todo # <<>>, Trusts(j, table),
           DOMAIN k.frames = DOMAIN j.frames \cup {Head(j.todo)},
           \A x \in DOMAIN j.frames :
              x # Head(j.todo) => k.frames[x] = j.frames[x],
           k.rows \in Seq(BlocksOf(k.frames, k.request, Head(j.todo))),
           \A name \in Range(k.request.features) : \E i \in DOMAIN k.rows :
              k.rows[i] = BlockOf(k.frames, k.request, Head(j.todo), name),
           k.todo = j.todo, k.computed = j.computed, k.image = j.image,
           k.request = j.request, k.staged = j.staged
    PROVE  Computes("upsert", k, table)
<1> DEFINE s == Head(j.todo)
           r == j.request
           frames == k.frames
<1>5. s \in Range(j.todo) /\ s \notin DOMAIN j.frames /\ s \notin j.computed
  BY TailFacts DEF Computes
<1>6. \A x \in DOMAIN j.frames : KeysOf(frames, r, x) = KeysOf(j.frames, r, x)
  <2>1. ASSUME NEW x \in DOMAIN j.frames, NEW key, key[1] = x
        PROVE  ValueOf(frames, r, key) = ValueOf(j.frames, r, key)
    BY <1>5, <2>1 DEF ValueOf
  <2>2. \A x, key : key \in {x} \X Range(r.features) \X (r.start .. r.end)
           => key[1] = x
    OBVIOUS
  <2>3. QED
    BY <2>1, <2>2 DEF KeysOf
<1>7. k.computed \cap DOMAIN k.frames = j.computed \cap DOMAIN j.frames
  BY <1>5
<1>8. Reported(k) = Reported(j)
  BY <1>6, <1>7 DEF Reported
<1>9. \A x \in DOMAIN k.image : k.image[x] = ValueOf(frames, r, x)
  <2>1. SUFFICES ASSUME NEW x \in DOMAIN k.image
                 PROVE  k.image[x] = ValueOf(frames, r, x)
    OBVIOUS
  <2>2. x \in Reported(j) /\ k.image[x] = ValueOf(j.frames, r, x)
    BY <2>1 DEF Computes, Right
  <2>3. x[1] \in DOMAIN j.frames
    BY <2>2 DEF Reported, KeysOf
  <2>4. QED
    BY <1>5, <2>2, <2>3 DEF ValueOf
<1>10. Upserts(k, s)
  <2>1. DOMAIN k.staged = {}
    BY DEF Computes
  <2>2. Right(k.frames, k.request, k.staged, KeysOf(k.frames, k.request, s))
    BY <2>1 DEF Right
  <2>3. QED
    BY <2>2 DEF Upserts
<1>11. Trusts(k, table)
  BY DEF Trusts
<1>12. \A x \in DOMAIN k.frames \cap Range(k.todo) : x = Head(k.todo)
  BY DEF Computes
<1>13. QED
  BY <1>8, <1>9, <1>10, <1>11, <1>12 DEF Computes, Right

\* One block is written.
LEMMA UpsertComputes ==
    ASSUME NEW j, NEW table, DOMAIN j = Fields,
           Computes("upsert", j, table), j.rows # <<>>
    PROVE  LET k == [j EXCEPT !.staged = Written(@, Head(j.rows)), !.rows = Tail(@)]
           IN  /\ Computes("upsert", k, table)
               /\ DOMAIN k = Fields /\ k.seeded = j.seeded
<1> DEFINE s == Head(j.todo)
           r == j.request
           row == Head(j.rows)
           keys == KeysOf(j.frames, r, s)
           blocks == BlocksOf(j.frames, r, s)
           k == [j EXCEPT !.staged = Written(@, row), !.rows = Tail(@)]
<1>1. /\ DOMAIN k = Fields /\ k.seeded = j.seeded /\ k.todo = j.todo
      /\ k.frames = j.frames /\ k.computed = j.computed /\ k.image = j.image
      /\ k.request = r /\ k.staged = Written(j.staged, row)
      /\ k.rows = Tail(j.rows)
  BY DEF Fields
<1> HIDE DEF k
<1>2. Upserts(j, s)
  BY DEF Computes
<1>3. j.rows \in Seq(blocks)
  BY <1>2 DEF Upserts
<1> HIDE DEF blocks
<1>4. /\ row \in blocks /\ Tail(j.rows) \in Seq(blocks) /\ row = j.rows[1]
      /\ Len(j.rows) \in Nat /\ Len(Tail(j.rows)) = Len(j.rows) - 1
      /\ \A i \in 1 .. Len(Tail(j.rows)) : Tail(j.rows)[i] = j.rows[i + 1]
      /\ DOMAIN j.rows = 1 .. Len(j.rows)
      /\ DOMAIN Tail(j.rows) = 1 .. Len(Tail(j.rows))
  BY <1>3, HeadTailProperties, LenProperties
<1>5. Right(j.frames, r, row, keys)
  BY <1>4, BlockKeys DEF blocks, BlocksOf
<1> HIDE DEF row
<1>6. /\ DOMAIN k.staged = DOMAIN j.staged \cup DOMAIN row
      /\ \A x \in DOMAIN row : k.staged[x] = row[x]
      /\ \A x \in DOMAIN j.staged \ DOMAIN row : k.staged[x] = j.staged[x]
  <2> DEFINE written == Written(j.staged, row)
  <2>1. /\ DOMAIN written = DOMAIN j.staged \cup DOMAIN row
        /\ \A x \in DOMAIN row : written[x] = row[x]
        /\ \A x \in DOMAIN j.staged \ DOMAIN row : written[x] = j.staged[x]
    BY WrittenFacts
  <2>2. k.staged = written
    BY <1>1
  <2> HIDE DEF written
  <2>3. QED
    BY <2>1, <2>2
<1>7. Right(j.frames, r, k.staged, keys)
  BY <1>2, <1>5, <1>6 DEF Upserts, Right
<1>8. ASSUME NEW name \in Range(r.features)
      PROVE  \/ DOMAIN BlockOf(j.frames, r, s, name) \subseteq DOMAIN k.staged
             \/ \E i \in DOMAIN k.rows : k.rows[i] = BlockOf(j.frames, r, s, name)
  <2> DEFINE block == BlockOf(j.frames, r, s, name)
  <2>1. DOMAIN block \subseteq DOMAIN j.staged
        \/ \E i \in DOMAIN j.rows : j.rows[i] = block
    BY <1>2 DEF Upserts
  <2> HIDE DEF block
  <2>2. CASE DOMAIN block \subseteq DOMAIN j.staged
    BY <1>6, <2>2 DEF block
  <2>3. ASSUME NEW i \in DOMAIN j.rows, j.rows[i] = block
        PROVE  \/ DOMAIN block \subseteq DOMAIN k.staged
               \/ \E m \in DOMAIN k.rows : k.rows[m] = block
    <3>1. CASE i = 1
      BY <1>4, <1>6, <2>3, <3>1
    <3>2. CASE i # 1
      <4>1. i - 1 \in 1 .. Len(Tail(j.rows)) /\ (i - 1) + 1 = i
        BY <1>4, <2>3, <3>2
      <4>2. Tail(j.rows)[i - 1] = block
        BY <1>4, <2>3, <4>1
      <4>3. QED
        BY <1>1, <1>4, <4>1, <4>2
    <3>3. QED
      BY <3>1, <3>2
  <2>4. QED
    BY <2>1, <2>2, <2>3 DEF block
<1>9. Upserts(k, s)
  BY <1>1, <1>2, <1>4, <1>7, <1>8 DEF Upserts, blocks
<1>10. Reported(k) = Reported(j)
  BY <1>1 DEF Reported
<1>11. Trusts(j, table) => Trusts(k, table)
  BY <1>1 DEF Trusts
<1>12. Computes("upsert", k, table)
  BY <1>1, <1>9, <1>10, <1>11 DEF Computes
<1>13. QED
  BY <1>1, <1>12 DEF k, row

-----------------------------------------------------------------------------
\* The steps.

\* What a request knows does not depend on definitions that are added.
LEMMA ComputesKeeps ==
    ASSUME NEW label, NEW j, NEW old, NEW table, Computes(label, j, old),
           \A n \in DOMAIN old : n \in DOMAIN table /\ table[n] = old[n]
    PROVE  Computes(label, j, table)
<1>1. Trusts(j, old) => Trusts(j, table)
  BY DEF Trusts
<1>2. QED
  BY <1>1 DEF Computes

\* A process that executes a request goes on, fails or ends; its values reach
\* the table only by a commit.
Proceeds(p, label, j) ==
    /\ Goto(p, label, j) /\ label \in Labels \ Starting
    /\ definitions' = definitions
    /\ DOMAIN j = Fields /\ DOMAIN j.seeded = {}
    /\ label \in Serving => pc[p] \in Serving
    /\ label \in Computing => Computes(label, j, definitions)
    /\ \/ values' = values
       \/ /\ pc[p] = "answered" /\ label = "serve"
          /\ values' = Written(values, job[p].image)

LEMMA ProceedsKeeps ==
    ASSUME ValueInvariant, NEW p \in Processes, NEW label, NEW j,
           Proceeds(p, label, j)
    PROVE  ValueInvariant'
<1>1. SeedInvariant'
  BY PlainMove DEF ValueInvariant, Proceeds
<1>2. /\ pc'[p] = label /\ job'[p] = j
      /\ \A q \in Processes \ {p} : pc'[q] = pc[q] /\ job'[q] = job[q]
  BY Moved DEF ValueInvariant, Proceeds
<1>3. \A q \in Processes :
         pc'[q] \in Computing => Computes(pc'[q], job'[q], definitions')
  BY <1>2 DEF ValueInvariant, Proceeds
<1>4. ValuesUsable'
  <2>1. definitions' = definitions
    BY DEF Proceeds
  <2>2. CASE values' = values
    BY <2>1, <2>2 DEF ValueInvariant, ValuesUsable, Usable
  <2>3. CASE pc[p] = "answered" /\ values' = Written(values, job[p].image)
    <3> DEFINE k == job[p]
    <3>1. Computes("answered", k, definitions)
      BY <2>3 DEF ValueInvariant, Computing
    <3>2. DOMAIN values' = DOMAIN values \cup DOMAIN k.image
      BY <2>3, WrittenFacts
    <3> HIDE DEF k
    <3>3. ASSUME NEW x \in DOMAIN k.image PROVE Usable(x[2])
      <4>1. PICK s \in k.computed \cap DOMAIN k.frames :
               x \in KeysOf(k.frames, k.request, s)
        BY <3>1, <3>3 DEF Computes, Reported
      <4>2. x[2] \in Range(k.request.features)
        BY <4>1 DEF KeysOf
      <4>3. Trusts(k, definitions)
        BY <3>1, <4>1 DEF Computes
      <4>4. QED
        BY <4>2, <4>3 DEF Trusts, Usable
    <3>4. QED
      BY <2>1, <3>2, <3>3 DEF ValueInvariant, ValuesUsable, Usable
  <2>4. QED
    BY <2>2, <2>3 DEF Proceeds
<1>5. QED
  BY <1>1, <1>3, <1>4 DEF ValueInvariant

\* Only a process that inserts or upserts is in a circle.
LEMMA DeadlockedWants ==
    ASSUME NEW p \in Processes, Deadlocked(p)
    PROVE  pc[p] \in {"insert", "upsert"}
BY DEF Deadlocked, WaitsFor, Wanted

\* What is known of a process that executes a request.
LEMMA ComputingFacts ==
    ASSUME ValueInvariant, NEW p \in Processes
    PROVE  /\ DOMAIN job[p] = Fields
           /\ pc[p] \notin Starting => DOMAIN job[p].seeded = {}
           /\ pc[p] \in Computing => Computes(pc[p], job[p], definitions)
BY NoJobFacts DEF ValueInvariant, SeedInvariant, Seeds

LEMMA NoJobProceeds ==
    ASSUME NEW p \in Processes, NEW label \in {"serve", "down"},
           Goto(p, label, NoJob), definitions' = definitions,
           label = "serve" => pc[p] \in Serving,
           \/ values' = values
           \/ /\ pc[p] = "answered" /\ label = "serve"
              /\ values' = Written(values, job[p].image)
    PROVE  Proceeds(p, label, NoJob)
BY NoJobFacts DEF Proceeds, Labels, Starting, Serving, Computing

LEMMA ReadBarsProceeds ==
    ASSUME ValueInvariant, NEW p \in Processes, ReadBars(p)
    PROVE  \E label, j : Proceeds(p, label, j)
<1> DEFINE j == job[p]
           s == Head(j.todo)
           b == bars[s]
           r == j.request
<1>1. /\ pc[p] = "symbol" /\ j.todo # <<>> /\ values' = values
      /\ definitions' = definitions
  BY DEF ReadBars, db
<1>2. /\ DOMAIN j = Fields /\ DOMAIN j.seeded = {}
      /\ Computes("symbol", j, definitions)
  BY <1>1, ComputingFacts DEF Computing, Starting
<1>3. s \notin DOMAIN j.frames
  BY <1>1, <1>2, TailFacts DEF Computes
<1>4. CASE Goto(p, "symbol", SymbolDone(j))
  BY <1>1, <1>2, <1>3, <1>4, DoneComputes
  DEF Proceeds, Labels, Starting, Serving, Computing
<1>5. CASE Goto(p, "symbol", SymbolFailed(j))
  BY <1>1, <1>2, <1>5, FailedComputes
  DEF Proceeds, Labels, Starting, Serving, Computing
<1> DEFINE k == [j EXCEPT !.frames = Written(@, [x \in {s} |-> b]),
                          !.rows = [i \in DOMAIN r.features |->
                                       Block(s, r.features[i], b, r)]]
<1>6. CASE /\ \A name \in Range(r.features) : Usable(name)
           /\ Goto(p, "upsert", k)
  <2>1. Trusts(j, definitions)
    BY <1>6 DEF Trusts, Usable
  <2>2. /\ Computes("upsert", k, definitions)
        /\ DOMAIN k = Fields /\ k.seeded = j.seeded
    <3> DEFINE frames == NewFrames(j.frames, s, b)
               rows == NewRows(r, s, b)
    <3>1. /\ DOMAIN k = Fields /\ k.seeded = j.seeded
          /\ k.todo = j.todo /\ k.frames = frames /\ k.computed = j.computed
          /\ k.image = j.image /\ k.request = r /\ k.staged = j.staged
          /\ k.rows = rows
      BY <1>1, <1>2, ReadFields DEF NewFrames, NewRows
    <3> HIDE DEF k
    <3>2. r.features \in Seq(Names) /\ j.todo # <<>>
      BY <1>1, <1>2, FeatureStoreAssumption DEF Computes
    <3>3. /\ DOMAIN frames = DOMAIN j.frames \cup {s}
          /\ \A x \in DOMAIN j.frames : x # s => frames[x] = j.frames[x]
          /\ rows \in Seq(BlocksOf(frames, r, s))
          /\ \A name \in Range(r.features) :
                \E i \in DOMAIN rows : rows[i] = BlockOf(frames, r, s, name)
      <4>1. frames = NewFrames(j.frames, s, b) /\ rows = NewRows(r, s, b)
        OBVIOUS
      <4> HIDE DEF frames, rows, b, j, s, r
      <4>2. r.features \in Seq(Names)
        BY <3>2
      <4>3. Read(j.frames, s, r, frames, rows)
        BY <4>1, <4>2, ReadRows
      <4>4. QED
        BY <4>3 DEF Read
    <3> HIDE DEF frames, rows, b, j
    <3>4. Computes("upsert", k, definitions)
      BY <1>2, <2>1, <3>1, <3>2, <3>3, ReadComputes
    <3>5. QED
      BY <3>1, <3>4
  <2> HIDE DEF k
  <2>3. QED
    BY <1>1, <1>2, <1>6, <2>2 DEF Proceeds, Labels, Starting, Serving, Computing
<1>7. QED
  BY <1>4, <1>5, <1>6 DEF ReadBars

LEMMA UpsertProceeds ==
    ASSUME ValueInvariant, NEW p \in Processes, Upsert(p)
    PROVE  \E label, j : Proceeds(p, label, j)
<1> DEFINE j == job[p]
           k == [j EXCEPT !.staged = Written(@, Head(j.rows)), !.rows = Tail(@)]
<1>1. /\ pc[p] = "upsert" /\ j.rows # <<>> /\ values' = values
      /\ definitions' = definitions /\ Goto(p, "upsert", k)
  BY DEF Upsert, db
<1>2. /\ DOMAIN j = Fields /\ DOMAIN j.seeded = {}
      /\ Computes("upsert", j, definitions)
  BY <1>1, ComputingFacts DEF Computing, Starting
<1>3. /\ Computes("upsert", k, definitions)
      /\ DOMAIN k = Fields /\ k.seeded = j.seeded
  <2>1. j.rows # <<>>
    BY <1>1
  <2> HIDE DEF j
  <2>2. QED
    BY <1>2, <2>1, UpsertComputes
<1> HIDE DEF k
<1>4. QED
  BY <1>1, <1>2, <1>3 DEF Proceeds, Labels, Starting, Serving, Computing

\* Each step of a request, and each fault, is of that form.
LEMMA RequestProceeds ==
    ASSUME ValueInvariant, NEW p \in Processes,
           \/ Request(p) \/ ReadBars(p) \/ Upsert(p) \/ ReleaseSymbol(p)
           \/ FailSymbol(p) \/ Victim(p) \/ Answer(p) \/ Commit(p)
           \/ Abort(p) \/ Crash(p)
    PROVE  \E label, j : Proceeds(p, label, j)
<1> DEFINE j == job[p]
<1>1. /\ DOMAIN j = Fields
      /\ pc[p] \notin Starting => DOMAIN j.seeded = {}
      /\ pc[p] \in Computing => Computes(pc[p], j, definitions)
  BY ComputingFacts
<1>2. CASE Request(p)
  <2>1. PICK r \in Requests :
           Goto(p, "symbol", [NoJob EXCEPT !.request = r, !.todo = r.symbols])
    BY <1>2 DEF Request
  <2>2. pc[p] = "serve" /\ definitions' = definitions /\ values' = values
    BY <1>2 DEF Request, db
  <2> DEFINE k == [NoJob EXCEPT !.request = r, !.todo = r.symbols]
  <2>3. /\ Computes("symbol", k, definitions)
        /\ DOMAIN k = Fields /\ DOMAIN k.seeded = {}
    BY RequestComputes
  <2> HIDE DEF k
  <2>4. QED
    BY <2>1, <2>2, <2>3 DEF Proceeds, Labels, Starting, Serving, Computing, k
<1>3. CASE ReadBars(p) \/ Upsert(p)
  BY <1>3, ReadBarsProceeds, UpsertProceeds
<1>4. CASE ReleaseSymbol(p)
  <2>1. /\ pc[p] = "upsert" /\ j.rows = <<>> /\ Goto(p, "symbol", SymbolDone(j))
        /\ definitions' = definitions /\ values' = values
    BY <1>4 DEF ReleaseSymbol, db
  <2>2. Computes("upsert", j, definitions) /\ j.todo # <<>>
    BY <1>1, <2>1 DEF Computing, Computes
  <2>3. QED
    BY <1>1, <2>1, <2>2, DoneComputes
    DEF Proceeds, Labels, Starting, Serving, Computing
<1>5. ASSUME Goto(p, "symbol", SymbolFailed(j)), definitions' = definitions,
             values' = values, pc[p] = "upsert" \/ (pc[p] = "symbol" /\ j.todo # <<>>)
      PROVE  \E label, k : Proceeds(p, label, k)
  <2>1. Computes(pc[p], j, definitions) /\ j.todo # <<>>
    BY <1>1, <1>5 DEF Computing, Computes
  <2>2. QED
    BY <1>1, <1>5, <2>1, FailedComputes
    DEF Proceeds, Labels, Starting, Serving, Computing
<1>6. CASE FailSymbol(p)
  BY <1>5, <1>6 DEF FailSymbol, db
<1>7. CASE Victim(p)
  BY <1>5, <1>7, DeadlockedWants, NoJobProceeds DEF Victim, db
<1>8. CASE Answer(p)
  <2>1. /\ pc[p] = "symbol" /\ Goto(p, "answered", j)
        /\ definitions' = definitions /\ values' = values
    BY <1>8 DEF Answer, db
  <2>2. Computes("answered", j, definitions)
    BY <1>1, <2>1 DEF Computing, Computes
  <2>3. QED
    BY <1>1, <2>1, <2>2 DEF Proceeds, Labels, Starting, Serving, Computing
<1>9. CASE Commit(p) \/ Abort(p) \/ Crash(p)
  BY <1>9, NoJobProceeds DEF Commit, Abort, Crash, Serving, db
<1>10. QED
  BY <1>2, <1>3, <1>4, <1>6, <1>7, <1>8, <1>9

LEMMA ValueInvariantNext ==
    ASSUME ValueInvariant, [Next]_vars
    PROVE  /\ ValueInvariant'
           /\ \A n \in DOMAIN definitions :
                 n \in DOMAIN definitions' /\ definitions'[n] = definitions[n]
<1>1. ASSUME NEW p \in Processes, NEW label, NEW j, Proceeds(p, label, j)
      PROVE  ValueInvariant' /\ definitions' = definitions
  BY <1>1, ProceedsKeeps DEF Proceeds
<1>2. ASSUME NEW p \in Processes, Start(p) \/ LookUp(p) \/ Insert(p) \/ Seeded(p)
      PROVE  /\ ValueInvariant'
             /\ \A n \in DOMAIN definitions :
                   n \in DOMAIN definitions' /\ definitions'[n] = definitions[n]
  <2>1. /\ SeedInvariant'
        /\ \A n \in DOMAIN definitions :
              n \in DOMAIN definitions' /\ definitions'[n] = definitions[n]
    <3>1. CASE Start(p) \/ LookUp(p) \/ Insert(p)
      <4>1. definitions' = definitions
        BY <3>1 DEF Start, LookUp, Insert, db
      <4>2. QED
        BY <3>1, <4>1, StartSeeds, LookUpSeeds, InsertSeeds DEF ValueInvariant
    <3>2. CASE Seeded(p)
      BY <3>2, SeededSeeds DEF ValueInvariant
    <3>3. QED
      BY <1>2, <3>1, <3>2
  <2>2. values' = values
    BY <1>2 DEF Start, LookUp, Insert, Seeded, db
  <2>3. PICK label \in {"seed", "insert", "serve"} : \E j : Goto(p, label, j)
    BY <1>2 DEF Start, LookUp, Insert, Seeded
  <2>4. ASSUME NEW q \in Processes, pc'[q] \in Computing
        PROVE  Computes(pc'[q], job'[q], definitions')
    <3>1. q # p /\ pc'[q] = pc[q] /\ job'[q] = job[q]
      BY <2>3, <2>4, Moved DEF ValueInvariant, Computing
    <3>2. Computes(pc[q], job[q], definitions)
      BY <2>4, <3>1 DEF ValueInvariant
    <3>3. Computes(pc[q], job[q], definitions')
      BY <2>1, <3>2, ComputesKeeps
    <3>4. QED
      BY <3>1, <3>3
  <2>5. ValuesUsable'
    BY <2>1, <2>2 DEF ValueInvariant, ValuesUsable, Usable
  <2>6. QED
    BY <2>1, <2>4, <2>5 DEF ValueInvariant
<1>3. ASSUME UNCHANGED <<definitions, values, pc, job>>
      PROVE  ValueInvariant'
  BY <1>3 DEF ValueInvariant, SeedInvariant, SeededServes, ValuesUsable, Usable
<1>4. CASE ChangeBar \/ Rest \/ UNCHANGED vars
  BY <1>3, <1>4 DEF ChangeBar, Rest, vars
<1>5. ASSUME NEW p \in Processes,
             \/ Start(p) \/ Work(p) \/ Request(p) \/ FailSymbol(p)
             \/ Abort(p) \/ Crash(p)
      PROVE  /\ ValueInvariant'
             /\ \A n \in DOMAIN definitions :
                   n \in DOMAIN definitions' /\ definitions'[n] = definitions[n]
  BY <1>1, <1>2, <1>5, RequestProceeds DEF Work
<1>6. CASE UNCHANGED definitions
  BY <1>4, <1>5, <1>6 DEF Next
<1>7. QED
  BY <1>4, <1>5, <1>6 DEF Next, ChangeBar, Rest, vars

LEMMA ValueInvariantInit == Init => ValueInvariant
BY NoJobFacts, EmptyFacts
DEF Init, ValueInvariant, SeedInvariant, SeededServes, Seeds, ValuesUsable,
    Labels, Starting, Computing

\* A process that serves requests finds every definition of its file, however
\* many servers start at once with whatever files, wait for each other, die or
\* are ended by a deadlock.
THEOREM FeatureSeededServes == Spec => []SeededServes
<1>1. ASSUME ValueInvariant, [Next]_vars PROVE ValueInvariant'
  BY <1>1, ValueInvariantNext
<1>2. ValueInvariant => SeededServes
  BY DEF ValueInvariant, SeedInvariant
<1>3. QED
  BY <1>1, <1>2, ValueInvariantInit, PTL DEF Spec

\* Every stored value has a definition with the lookback window of the code
\* that computed it, whatever servers start later with other files.
THEOREM FeatureValuesUsable == Spec => []ValuesUsable
<1>1. ASSUME ValueInvariant, [Next]_vars PROVE ValueInvariant'
  BY <1>1, ValueInvariantNext
<1>2. ValueInvariant => ValuesUsable
  BY DEF ValueInvariant
<1>3. QED
  BY <1>1, <1>2, ValueInvariantInit, PTL DEF Spec

-----------------------------------------------------------------------------
\* The commit of a request.

LEMMA CommitFacts ==
    ASSUME ValueInvariant, NEW p \in Processes, Commit(p)
    PROVE  /\ Computes("answered", job[p], definitions)
           /\ values' = Written(values, job[p].image)
           /\ DOMAIN values' = DOMAIN values \cup Reported(job[p])
           /\ \A k \in Reported(job[p]) :
                 values'[k] = ValueOf(job[p].frames, job[p].request, k)
           /\ \A k \in DOMAIN values \ Reported(job[p]) : values'[k] = values[k]
<1> DEFINE j == job[p]
<1>1. pc[p] = "answered" /\ values' = Written(values, j.image)
  BY DEF Commit
<1>2. Computes("answered", j, definitions)
  BY <1>1 DEF ValueInvariant, Computing
<1> HIDE DEF j
<1>3. /\ DOMAIN Written(values, j.image) = DOMAIN values \cup DOMAIN j.image
      /\ \A k \in DOMAIN j.image : Written(values, j.image)[k] = j.image[k]
      /\ \A k \in DOMAIN values \ DOMAIN j.image :
            Written(values, j.image)[k] = values[k]
  BY WrittenFacts
<1>4. DOMAIN j.image = Reported(j)
      /\ \A k \in Reported(j) : j.image[k] = ValueOf(j.frames, j.request, k)
  BY <1>2 DEF Computes, Right
<1>5. QED
  BY <1>1, <1>2, <1>3, <1>4 DEF j

\* Only a commit or an abort takes a process from the answer back to serving.
LEMMA AnsweredEnds ==
    ASSUME ValueInvariant, [Next]_vars, NEW p \in Processes,
           pc[p] = "answered", pc'[p] = "serve"
    PROVE  Commit(p) \/ values' = values
<1>1. SUFFICES ASSUME values' # values PROVE Commit(p)
  OBVIOUS
<1>2. PICK q \in Processes : Commit(q)
  BY <1>1
  DEF Next, Work, Start, LookUp, Insert, Seeded, Request, ReadBars, Upsert,
      ReleaseSymbol, FailSymbol, Victim, Answer, Abort, Crash, ChangeBar, Rest,
      vars, db
<1>3. q = p
  BY <1>2, Moved DEF Commit, ValueInvariant
<1>4. QED
  BY <1>2, <1>3

\* A request changes no value but those its answer names, for any number of
\* requests at once and whatever fails in them.
THEOREM FeatureAnswerTrue == Spec => AnswerTrue
<1>1. ASSUME ValueInvariant, [Next]_vars PROVE ValueInvariant'
  BY <1>1, ValueInvariantNext
<1>2. ASSUME ValueInvariant, [Next]_vars
      PROVE  \A p \in Processes :
                pc[p] = "answered" /\ pc'[p] = "serve" =>
                   LET r == job[p].request IN
                   \A k \in Keys :
                      \/ /\ k[1] \in job[p].computed
                         /\ k[2] \in Range(r.features)
                         /\ k[3] \in r.start .. r.end
                      \/ ValueAt(values', k) = ValueAt(values, k)
  <2> SUFFICES ASSUME NEW p \in Processes, pc[p] = "answered", pc'[p] = "serve",
                      NEW k \in Keys
               PROVE  \/ /\ k[1] \in job[p].computed
                         /\ k[2] \in Range(job[p].request.features)
                         /\ k[3] \in job[p].request.start .. job[p].request.end
                      \/ ValueAt(values', k) = ValueAt(values, k)
    OBVIOUS
  <2>1. CASE values' = values
    BY <2>1
  <2>2. CASE Commit(p)
    <3>1. CASE k \in Reported(job[p])
      BY <3>1 DEF Reported, KeysOf
    <3>2. CASE k \notin Reported(job[p])
      BY <1>2, <2>2, <3>2, CommitFacts DEF ValueAt
    <3>3. QED
      BY <3>1, <3>2
  <2>3. QED
    BY <1>2, <2>1, <2>2, AnsweredEnds
<1>3. QED
  BY <1>1, <1>2, ValueInvariantInit, PTL DEF Spec, AnswerTrue

\* A request that commits leaves the values of the bars as they are, if they did
\* not change after it read them: whatever was stored, and whatever other
\* requests wrote meanwhile.
THEOREM FeatureRecomputeRefreshes == Spec => RecomputeRefreshes
<1>1. ASSUME ValueInvariant, [Next]_vars PROVE ValueInvariant'
  BY <1>1, ValueInvariantNext
<1>2. ASSUME ValueInvariant, [Next]_vars
      PROVE  \A p \in Processes :
                Commit(p) =>
                   LET r == job[p].request IN
                   \A s \in job[p].computed, name \in Range(r.features),
                      t \in r.start .. r.end :
                      LET series == Series[name][BarsUntil(bars[s], r.end)]
                      IN  /\ s \in DOMAIN job[p].frames
                          /\ job[p].frames[s] = bars[s]
                          /\ series[t] # NaN
                          => ValueAt(values', <<s, name, t>>) = series[t]
  <2> SUFFICES ASSUME NEW p \in Processes, Commit(p),
                      NEW s \in job[p].computed,
                      NEW name \in Range(job[p].request.features),
                      NEW t \in job[p].request.start .. job[p].request.end,
                      s \in DOMAIN job[p].frames, job[p].frames[s] = bars[s],
                      Series[name][BarsUntil(bars[s], job[p].request.end)][t] # NaN
               PROVE  ValueAt(values', <<s, name, t>>)
                      = Series[name][BarsUntil(bars[s], job[p].request.end)][t]
    OBVIOUS
  <2> DEFINE k == <<s, name, t>>
  <2>1. ValueOf(job[p].frames, job[p].request, k)
        = Series[name][BarsUntil(bars[s], job[p].request.end)][t]
    BY DEF ValueOf
  <2>2. k \in Reported(job[p])
    BY <2>1 DEF Reported, KeysOf
  <2>3. k \in DOMAIN values'
        /\ values'[k] = ValueOf(job[p].frames, job[p].request, k)
    BY <1>2, <2>2, CommitFacts
  <2>4. QED
    BY <2>1, <2>3 DEF ValueAt
<1>3. QED
  BY <1>1, <1>2, ValueInvariantInit, PTL DEF Spec, RecomputeRefreshes

-----------------------------------------------------------------------------
(***************************************************************************)
(* The features alone: what holds of every frame, whatever the table of    *)
(* bars.  The loop of the RSI is recursive; its equation has one solution, *)
(* the changes since the last bad price, and everything about it follows.  *)
(***************************************************************************)

\* A set of natural numbers that is not empty has a least element.
LEMMA NatMin ==
    ASSUME NEW S, S \subseteq Nat, S # {}
    PROVE  \E m \in S : \A n \in S : m <= n
<1> DEFINE R == {p \in Nat \X Nat : p[1] < p[2]}
<1>1. IsWellFoundedOn(R, Nat)
  BY NatLessThanWellFounded DEF OpToRel
<1>2. \A m, n \in Nat : <<n, m>> \in R <=> n < m
  OBVIOUS
<1> HIDE DEF R
<1>3. PICK m \in S : \A n \in S : ~ (<<n, m>> \in R)
  BY <1>1, WFMin
<1>4. ASSUME NEW n \in S PROVE m <= n
  <2>1. m \in Nat /\ n \in Nat
    OBVIOUS
  <2>2. ~ (n < m)
    BY <1>2, <1>3, <2>1
  <2>3. QED
    BY <2>1, <2>2
<1>5. QED
  BY <1>4

\* A frame is a sequence of numbers.
LEMMA FrameFacts ==
    ASSUME NEW frame \in Frames
    PROVE  /\ frame \in Seq(Int)
           /\ Len(frame) \in Nat
           /\ DOMAIN frame = 1 .. Len(frame)
           /\ \A i \in DOMAIN frame : frame[i] \in Int
<1>1. PICK m \in 0 .. MaxRows : frame \in [1 .. m -> Cells]
  BY DEF Frames, BoundedSeq, SeqOf
<1>2. m \in Nat /\ Cells \subseteq Int
  BY <1>1, FeatureStoreAssumption
<1>3. frame \in [1 .. m -> Int]
  BY <1>1, <1>2
<1>4. frame \in Seq(Int)
  BY <1>2, <1>3, SeqDef
<1>5. QED
  BY <1>4, LenProperties

\* A registered feature asks for at least one row.
LEMMA RegistryFacts ==
    ASSUME NEW name \in Names
    PROVE  /\ Registry[name].n \in Nat \ {0}
           /\ Registry[name].kind \in
                 {"sma", "volume", "spike", "return", "volatility", "rsi", "cumulative"}
BY FeatureStoreAssumption

\* A window is the same in two series that agree on it.
LEMMA SubSeqSame ==
    ASSUME NEW f, NEW g, NEW a \in Int, NEW b \in Int,
           \A k \in a .. b : f[k] = g[k]
    PROVE  SubSeq(f, a, b) = SubSeq(g, a, b)
<1> DEFINE S == {f[k] : k \in a .. b}
<1>1. \A k \in a .. b : f[k] \in S /\ g[k] \in S
  OBVIOUS
<1> HIDE DEF S
<1>2. /\ SubSeq(f, a, b) \in Seq(S)
      /\ Len(SubSeq(f, a, b)) = IF a <= b THEN b - a + 1 ELSE 0
      /\ \A i \in 1 .. b - a + 1 : SubSeq(f, a, b)[i] = f[a + i - 1]
  BY <1>1, SubSeqProperties
<1>3. /\ SubSeq(g, a, b) \in Seq(S)
      /\ Len(SubSeq(g, a, b)) = IF a <= b THEN b - a + 1 ELSE 0
      /\ \A i \in 1 .. b - a + 1 : SubSeq(g, a, b)[i] = g[a + i - 1]
  BY <1>1, SubSeqProperties
<1>4. \A i \in 1 .. Len(SubSeq(f, a, b)) : a + i - 1 \in a .. b
                                         /\ i \in 1 .. b - a + 1
  BY <1>2
<1>5. QED
  BY <1>2, <1>3, <1>4, SeqEqual

\* A window that is not empty is no NaN, and its first value is that of the row
\* it begins with.
LEMMA WindowFacts ==
    ASSUME NEW f, NEW a \in Int, NEW b \in Int, a <= b
    PROVE  /\ SubSeq(f, a, b) # NaN
           /\ 1 \in DOMAIN SubSeq(f, a, b)
           /\ DOMAIN SubSeq(f, a, b) = 1 .. b - a + 1
           /\ \A i \in 1 .. b - a + 1 : SubSeq(f, a, b)[i] = f[a + i - 1]
<1> DEFINE S == {f[k] : k \in a .. b}
           w == SubSeq(f, a, b)
<1>1. \A k \in a .. b : f[k] \in S
  OBVIOUS
<1> HIDE DEF S
<1>2. /\ w \in Seq(S) /\ Len(w) = b - a + 1
      /\ \A i \in 1 .. b - a + 1 : w[i] = f[a + i - 1]
  BY <1>1, SubSeqProperties
<1> HIDE DEF w
<1>3. DOMAIN w = 1 .. b - a + 1 /\ 1 \in 1 .. b - a + 1
  BY <1>2, LenProperties
<1>4. Len(<<>>) = 0 /\ Len(w) # 0
  BY <1>2
<1>5. QED
  BY <1>2, <1>3, <1>4 DEF NaN, w

-----------------------------------------------------------------------------
\* NoLookAhead.

\* The series g is the beginning of the series f.
Begins(g, f) ==
    \E m \in Nat, l \in Nat :
        /\ m <= l /\ DOMAIN g = 1 .. m /\ DOMAIN f = 1 .. l
        /\ \A k \in 1 .. m : g[k] = f[k]

LEMMA CleanBegins ==
    ASSUME NEW f, NEW g, Begins(g, f)
    PROVE  /\ Begins(CleanClose(g), CleanClose(f))
           /\ Begins(CleanVolume(g), CleanVolume(f))
<1>1. PICK m \in Nat, l \in Nat :
         /\ m <= l /\ DOMAIN g = 1 .. m /\ DOMAIN f = 1 .. l
         /\ \A k \in 1 .. m : g[k] = f[k]
  BY DEF Begins
<1>2. /\ DOMAIN CleanClose(g) = 1 .. m /\ DOMAIN CleanClose(f) = 1 .. l
      /\ \A k \in 1 .. m : CleanClose(g)[k] = CleanClose(f)[k]
  <2>1. DOMAIN CleanClose(g) = 1 .. m /\ DOMAIN CleanClose(f) = 1 .. l
    BY <1>1 DEF CleanClose
  <2>2. ASSUME NEW k \in 1 .. m PROVE CleanClose(g)[k] = CleanClose(f)[k]
    <3> DEFINE clean(x) == IF x > 0 THEN <<x>> ELSE NaN
    <3>1. k \in 1 .. l /\ g[k] = f[k]
      BY <1>1
    <3>2. CleanClose(g)[k] = clean(g[k]) /\ CleanClose(f)[k] = clean(f[k])
      BY <1>1, <3>1, Zenon DEF CleanClose
    <3> HIDE DEF clean
    <3>3. QED
      BY <3>1, <3>2, Zenon
  <2>3. QED
    BY <2>1, <2>2
<1>3. /\ DOMAIN CleanVolume(g) = 1 .. m /\ DOMAIN CleanVolume(f) = 1 .. l
      /\ \A k \in 1 .. m : CleanVolume(g)[k] = CleanVolume(f)[k]
  <2>1. DOMAIN CleanVolume(g) = 1 .. m /\ DOMAIN CleanVolume(f) = 1 .. l
    BY <1>1 DEF CleanVolume
  <2>2. ASSUME NEW k \in 1 .. m PROVE CleanVolume(g)[k] = CleanVolume(f)[k]
    <3> DEFINE clean(x) == IF x >= 0 THEN <<x>> ELSE NaN
    <3>1. k \in 1 .. l /\ g[k] = f[k]
      BY <1>1
    <3>2. CleanVolume(g)[k] = clean(g[k]) /\ CleanVolume(f)[k] = clean(f[k])
      BY <1>1, <3>1, Zenon DEF CleanVolume
    <3> HIDE DEF clean
    <3>3. QED
      BY <3>1, <3>2, Zenon
  <2>3. QED
    BY <2>1, <2>2
<1>4. QED
  BY <1>1, <1>2, <1>3 DEF Begins

LEMMA CleanSame ==
    ASSUME NEW f, NEW g, Begins(g, f), NEW k \in DOMAIN g
    PROVE  CleanClose(g)[k] = CleanClose(f)[k]
<1>1. Begins(CleanClose(g), CleanClose(f)) /\ DOMAIN CleanClose(g) = DOMAIN g
  BY CleanBegins DEF CleanClose
<1>2. QED
  BY <1>1 DEF Begins

LEMMA RollingBegins ==
    ASSUME NEW f, NEW g, Begins(g, f), NEW n \in Nat \ {0}
    PROVE  Begins(Rolling(g, n), Rolling(f, n))
<1>1. PICK m \in Nat, l \in Nat :
         /\ m <= l /\ DOMAIN g = 1 .. m /\ DOMAIN f = 1 .. l
         /\ \A k \in 1 .. m : g[k] = f[k]
  BY DEF Begins
<1>2. DOMAIN Rolling(g, n) = 1 .. m /\ DOMAIN Rolling(f, n) = 1 .. l
  BY <1>1 DEF Rolling
<1>3. ASSUME NEW i \in 1 .. m PROVE Rolling(g, n)[i] = Rolling(f, n)[i]
  <2>1. i \in 1 .. l /\ i \in Int /\ i - n + 1 \in Int
    BY <1>1
  <2>2. ASSUME i >= n
        PROVE  \A k \in i - n + 1 .. i : g[k] = f[k]
    BY <1>1, <2>2
  <2>3. ASSUME i >= n
        PROVE  SubSeq(g, i - n + 1, i) = SubSeq(f, i - n + 1, i)
    BY <2>1, <2>2, <2>3, SubSeqSame
  <2>4. QED
    BY <1>1, <2>1, <2>2, <2>3 DEF Rolling
<1>4. QED
  BY <1>1, <1>2, <1>3 DEF Begins

LEMMA ReturnBegins ==
    ASSUME NEW f, NEW g, Begins(g, f), NEW n \in Nat \ {0}
    PROVE  Begins(Return(g, n), Return(f, n))
<1>1. PICK m \in Nat, l \in Nat :
         /\ m <= l /\ DOMAIN g = 1 .. m /\ DOMAIN f = 1 .. l
         /\ \A k \in 1 .. m : g[k] = f[k]
  BY DEF Begins
<1>2. DOMAIN Return(g, n) = 1 .. m /\ DOMAIN Return(f, n) = 1 .. l
  BY <1>1 DEF Return
<1>3. \A k \in 1 .. m : CleanClose(g)[k] = CleanClose(f)[k]
  BY <1>1, CleanSame
<1>4. ASSUME NEW i \in 1 .. m PROVE Return(g, n)[i] = Return(f, n)[i]
  <2>1. i \in 1 .. l
    BY <1>1
  <2>2. i > n => i - n \in 1 .. m
    BY <1>1
  <2>3. QED
    BY <1>1, <1>3, <2>1, <2>2 DEF Return
<1>5. QED
  BY <1>1, <1>2, <1>4 DEF Begins

LEMMA SpikeBegins ==
    ASSUME NEW f, NEW g, Begins(g, f), NEW n \in Nat \ {0}
    PROVE  Begins(Spike(g, n), Spike(f, n))
<1>1. Begins(Rolling(CleanVolume(g), n), Rolling(CleanVolume(f), n))
  BY CleanBegins, RollingBegins
<1> DEFINE v == Rolling(CleanVolume(g), n)
           w == Rolling(CleanVolume(f), n)
<1>2. PICK m \in Nat, l \in Nat :
         /\ m <= l /\ DOMAIN g = 1 .. m /\ DOMAIN f = 1 .. l
  BY DEF Begins
<1>3. DOMAIN v = DOMAIN g /\ DOMAIN w = DOMAIN f
  BY DEF Rolling, CleanVolume
<1>4. \A k \in 1 .. m : v[k] = w[k]
  <2> HIDE DEF v, w
  <2>1. Begins(v, w)
    BY <1>1 DEF v, w
  <2>2. QED
    BY <1>2, <1>3, <2>1 DEF Begins
<1> HIDE DEF v, w
<1>5. /\ Spike(g, n) = [i \in DOMAIN g |-> IF \E k \in DOMAIN v[i] : v[i][k][1] > 0
                                           THEN v[i] ELSE NaN]
      /\ Spike(f, n) = [i \in DOMAIN f |-> IF \E k \in DOMAIN w[i] : w[i][k][1] > 0
                                           THEN w[i] ELSE NaN]
  BY DEF Spike, v, w
<1>6. \A i \in 1 .. m : Spike(g, n)[i] = Spike(f, n)[i]
  BY <1>2, <1>4, <1>5
<1>7. QED
  BY <1>2, <1>5, <1>6 DEF Begins

LEMMA CumulativeBegins ==
    ASSUME NEW f, NEW g, Begins(g, f)
    PROVE  Begins(Cumulative(g), Cumulative(f))
<1>1. PICK m \in Nat, l \in Nat :
         /\ m <= l /\ DOMAIN g = 1 .. m /\ DOMAIN f = 1 .. l
         /\ \A k \in 1 .. m : g[k] = f[k]
  BY DEF Begins
<1> DEFINE v == CleanClose(g)
           w == CleanClose(f)
           first(c, i) == CHOOSE k \in 1 .. i :
                             c[k] # NaN /\ \A q \in 1 .. k - 1 : c[q] = NaN
<1>2. \A k \in 1 .. m : v[k] = w[k]
  BY <1>1, CleanSame
<1>3. /\ Cumulative(g) = [i \in DOMAIN g |-> IF v[i] = NaN THEN NaN
                                             ELSE <<v[first(v, i)], v[i]>>]
      /\ Cumulative(f) = [i \in DOMAIN f |-> IF w[i] = NaN THEN NaN
                                             ELSE <<w[first(w, i)], w[i]>>]
  BY DEF Cumulative
<1> HIDE DEF v, w
<1>4. ASSUME NEW i \in 1 .. m, v[i] # NaN
      PROVE  v[first(v, i)] = w[first(w, i)]
  <2>1. \A k \in 1 .. i :
           (v[k] # NaN /\ \A q \in 1 .. k - 1 : v[q] = NaN)
              <=> (w[k] # NaN /\ \A q \in 1 .. k - 1 : w[q] = NaN)
    <3>1. \A k \in 1 .. i : k \in 1 .. m /\ 1 .. k - 1 \subseteq 1 .. m
      BY <1>1
    <3>2. QED
      BY <1>2, <3>1
  <2>2. first(v, i) = first(w, i)
    BY <2>1
  <2>3. \E k \in 1 .. i : v[k] # NaN /\ \A q \in 1 .. k - 1 : v[q] = NaN
    <3> DEFINE S == {k \in 1 .. i : v[k] # NaN}
    <3>1. S \subseteq Nat /\ i \in S
      BY <1>4
    <3>2. PICK k \in S : \A q \in S : k <= q
      BY <3>1, NatMin, Zenon
    <3>3. \A q \in 1 .. k - 1 : q \in 1 .. i /\ ~ (k <= q)
      BY <3>2
    <3>4. QED
      BY <3>2, <3>3
  <2>4. first(v, i) \in 1 .. i
    <3> DEFINE Q(k) == v[k] # NaN /\ \A q \in 1 .. k - 1 : v[q] = NaN
    <3>1. \E k \in 1 .. i : Q(k)
      BY <2>3
    <3> HIDE DEF Q
    <3>2. (CHOOSE k \in 1 .. i : Q(k)) \in 1 .. i
      BY <3>1
    <3>3. QED
      BY <3>2 DEF Q
  <2> HIDE DEF first
  <2>5. first(v, i) \in 1 .. m
    BY <1>1, <2>4
  <2>6. QED
    BY <1>2, <2>2, <2>5
<1> HIDE DEF first
<1>5. \A i \in 1 .. m : Cumulative(g)[i] = Cumulative(f)[i]
  <2>1. TAKE i \in 1 .. m
  <2>2. i \in 1 .. l /\ v[i] = w[i]
    BY <1>1, <1>2
  <2>3. QED
    BY <1>1, <1>3, <1>4, <2>2
<1>6. QED
  BY <1>1, <1>3, <1>5 DEF Begins

-----------------------------------------------------------------------------
\* The RSI: its loop in closed form.

\* The last bad price of the first i.
LastBad(frame, i) == Max({0} \cup {k \in 1 .. i : frame[k] <= 0})

LEMMA LastBadFacts ==
    ASSUME NEW frame, NEW l \in Nat, DOMAIN frame = 1 .. l,
           \A k \in 1 .. l : frame[k] \in Int, NEW i \in 0 .. l
    PROVE  /\ LastBad(frame, i) \in 0 .. i
           /\ LastBad(frame, i) # 0 => frame[LastBad(frame, i)] <= 0
           /\ \A k \in LastBad(frame, i) + 1 .. i : frame[k] > 0
           /\ \A b \in 0 .. i :
                 /\ b # 0 => frame[b] <= 0
                 /\ \A k \in b + 1 .. i : frame[k] > 0
                 => b = LastBad(frame, i)
<1> DEFINE S == {0} \cup {k \in 1 .. i : frame[k] <= 0}
           D == {i - k : k \in S}
<1>1. S \subseteq 0 .. i /\ 0 \in S
  OBVIOUS
<1>2. D \subseteq Nat /\ D # {}
  BY <1>1
<1>3. PICK d \in D : \A e \in D : d <= e
  BY <1>2, NatMin, Zenon
<1>4. PICK m \in S : d = i - m
  BY <1>3
<1>5. \A k \in S : m >= k
  <2>1. TAKE k \in S
  <2>2. i - k \in D
    OBVIOUS
  <2>3. i - m <= i - k
    BY <1>3, <1>4, <2>2
  <2>4. QED
    BY <1>1, <2>3
<1>6. \E x \in S : \A y \in S : x >= y
  BY <1>5
<1>7. LastBad(frame, i) \in S /\ \A y \in S : LastBad(frame, i) >= y
  <2>1. Max(S) \in S /\ \A y \in S : Max(S) >= y
    <3> HIDE DEF S
    <3>1. QED
      BY <1>6 DEF Max
  <2>2. QED
    BY <2>1 DEF LastBad
<1>8. \A k \in 1 .. i : frame[k] \in Int
  OBVIOUS
<1> DEFINE bad == LastBad(frame, i)
<1> HIDE DEF bad
<1>9. bad \in 0 .. i /\ (bad # 0 => frame[bad] <= 0)
  BY <1>7 DEF bad
<1>10. \A k \in bad + 1 .. i : frame[k] > 0
  <2>1. TAKE k \in bad + 1 .. i
  <2>2. k \in 1 .. i /\ ~ (bad >= k)
    BY <1>9
  <2>3. k \notin S
    BY <1>7, <2>2 DEF bad
  <2>4. QED
    BY <1>8, <2>2, <2>3
<1> HIDE DEF S, D
<1>11. ASSUME NEW b \in 0 .. i, b # 0 => frame[b] <= 0,
              \A k \in b + 1 .. i : frame[k] > 0
       PROVE  b = bad
  <2>1. ASSUME b < bad PROVE FALSE
    <3>1. bad \in b + 1 .. i /\ bad # 0 /\ bad \in 1 .. i
      BY <1>9, <2>1
    <3>2. frame[bad] > 0 /\ frame[bad] <= 0 /\ frame[bad] \in Int
      BY <1>8, <1>9, <1>11, <3>1
    <3>3. QED
      BY <3>2
  <2>2. ASSUME bad < b PROVE FALSE
    <3>1. b \in bad + 1 .. i /\ b # 0 /\ b \in 1 .. i
      BY <1>9, <2>2
    <3>2. frame[b] > 0 /\ frame[b] <= 0 /\ frame[b] \in Int
      BY <1>8, <1>10, <1>11, <3>1
    <3>3. QED
      BY <3>2
  <2>3. QED
    BY <1>9, <2>1, <2>2
<1>12. QED
  BY <1>9, <1>10, <1>11 DEF bad

\* The first c changes after the bad price at b.
ChangesAfter(frame, b, c) ==
    [k \in 1 .. c |-> frame[b + k + 1] - frame[b + k]]

\* How many changes there are up to row i.
ChangeCount(frame, i) ==
    IF LastBad(frame, i) = i THEN 0 ELSE i - LastBad(frame, i) - 1

\* The state of the loop after row i.
Smoothed(frame, i, period) ==
    LET b == LastBad(frame, i)
        c == ChangeCount(frame, i)
    IN  [seed |-> ChangesAfter(frame, b, IF c < period THEN c ELSE period),
         averages |-> IF c < period THEN <<>> ELSE ChangesAfter(frame, b, c)]

LEMMA ChangesFacts ==
    ASSUME NEW frame, NEW l \in Nat, DOMAIN frame = 1 .. l,
           \A k \in 1 .. l : frame[k] \in Int,
           NEW b \in 0 .. l, NEW c \in Nat, b + c + 1 <= l
    PROVE  /\ ChangesAfter(frame, b, c) \in Seq(Int)
           /\ Len(ChangesAfter(frame, b, c)) = c
           /\ ChangesAfter(frame, b, c) = <<>> <=> c = 0
           /\ DOMAIN ChangesAfter(frame, b, c) = 1 .. c
<1> DEFINE s == ChangesAfter(frame, b, c)
<1>1. \A k \in 1 .. c : b + k + 1 \in 1 .. l /\ b + k \in 1 .. l
  OBVIOUS
<1>2. s \in [1 .. c -> Int]
  BY <1>1 DEF ChangesAfter
<1>3. s \in Seq(Int)
  BY <1>2, SeqDef
<1> HIDE DEF s
<1>4. DOMAIN s = 1 .. c /\ DOMAIN s = 1 .. Len(s) /\ Len(s) \in Nat
  BY <1>2, <1>3, LenProperties
<1>5. Len(s) = c
  BY <1>4
<1>6. s = <<>> <=> c = 0
  BY <1>3, <1>5, EmptySeq
<1>7. QED
  BY <1>3, <1>4, <1>5, <1>6 DEF s

\* One more change.
LEMMA ChangesAppend ==
    ASSUME NEW frame, NEW l \in Nat, DOMAIN frame = 1 .. l,
           \A k \in 1 .. l : frame[k] \in Int,
           NEW b \in 0 .. l, NEW c \in Nat, b + c + 2 <= l
    PROVE  ChangesAfter(frame, b, c) \o <<frame[b + c + 2] - frame[b + c + 1]>>
              = ChangesAfter(frame, b, c + 1)
<1> DEFINE s == ChangesAfter(frame, b, c)
           t == ChangesAfter(frame, b, c + 1)
           x == frame[b + c + 2] - frame[b + c + 1]
<1>1. /\ s \in Seq(Int) /\ Len(s) = c
      /\ t \in Seq(Int) /\ Len(t) = c + 1
  BY ChangesFacts
<1>2. x \in Int /\ <<x>> \in Seq(Int) /\ Len(<<x>>) = 1 /\ <<x>>[1] = x
  <2>1. b + c + 2 \in 1 .. l /\ b + c + 1 \in 1 .. l
    OBVIOUS
  <2>2. x \in Int
    BY <2>1
  <2> HIDE DEF x
  <2>3. QED
    BY <2>2
<1>3. \A k \in 1 .. c : t[k] = s[k]
  BY DEF ChangesAfter
<1>4. t[c + 1] = x
  BY DEF ChangesAfter
<1> HIDE DEF s, t, x
<1> DEFINE w == s \o <<x>>
           y == <<x>>
<1>5. /\ w \in Seq(Int) /\ Len(w) = c + 1
      /\ \A k \in 1 .. c + 1 : w[k] = IF k <= c THEN s[k] ELSE y[k - c]
  BY <1>1, <1>2, ConcatProperties
<1>head. y[1] = x
  BY <1>2
<1> HIDE DEF w, y
<1>6. \A k \in 1 .. c + 1 : w[k] = t[k]
  <2>1. TAKE k \in 1 .. c + 1
  <2>2. CASE k <= c
    BY <1>3, <1>5, <2>2
  <2>3. CASE k = c + 1
    <3>1. ~ (c + 1 <= c) /\ c + 1 - c = 1
      OBVIOUS
    <3>2. w[c + 1] = y[c + 1 - c]
      BY <1>5, <3>1
    <3>3. QED
      BY <1>head, <1>4, <2>3, <3>1, <3>2
  <2>4. QED
    BY <2>2, <2>3
<1>7. w = t
  BY <1>1, <1>5, <1>6, SeqEqual
<1>8. QED
  BY <1>7 DEF w, y, s, t, x

\* The change at row i, as the loop sees it.
RowChange(frame, i) ==
    LET close == CleanClose(frame)
    IN  IF close[i] = NaN \/ close[i - 1] = NaN THEN NaN
        ELSE <<close[i][1] - close[i - 1][1]>>

LEMMA RowChangeFacts ==
    ASSUME NEW frame, NEW l \in Nat, DOMAIN frame = 1 .. l,
           \A k \in 1 .. l : frame[k] \in Int, NEW i \in 2 .. l
    PROVE  RowChange(frame, i) =
              IF frame[i] <= 0 \/ frame[i - 1] <= 0 THEN NaN
              ELSE <<frame[i] - frame[i - 1]>>
<1> DEFINE close == CleanClose(frame)
<1>1. i \in 1 .. l /\ i - 1 \in 1 .. l
  OBVIOUS
<1>2. \A k \in 1 .. l : /\ frame[k] > 0 => close[k] = <<frame[k]>>
                        /\ ~ (frame[k] > 0) => close[k] = NaN
  BY DEF CleanClose
<1>3. \A x : <<x>> # NaN /\ <<x>>[1] = x
  BY DEF NaN
<1> HIDE DEF close
<1>4. \A k \in 1 .. l : /\ close[k] = NaN <=> frame[k] <= 0
                        /\ frame[k] > 0 => close[k][1] = frame[k]
  <2>1. TAKE k \in 1 .. l
  <2>2. CASE frame[k] > 0
    <3>1. close[k] = <<frame[k]>> /\ ~ (frame[k] <= 0)
      BY <1>2, <2>2
    <3>2. QED
      BY <1>3, <3>1
  <2>3. CASE ~ (frame[k] > 0)
    <3>1. close[k] = NaN /\ frame[k] <= 0
      BY <1>2, <2>3
    <3>2. QED
      BY <2>3, <3>1
  <2>4. QED
    BY <2>2, <2>3
<1>5. RowChange(frame, i) =
         IF close[i] = NaN \/ close[i - 1] = NaN THEN NaN
         ELSE <<close[i][1] - close[i - 1][1]>>
  BY DEF RowChange, close
<1>6. QED
  BY <1>1, <1>4, <1>5

\* One iteration of the loop, in closed form.
LEMMA SmoothedStep ==
    ASSUME NEW frame, NEW l \in Nat, DOMAIN frame = 1 .. l,
           \A k \in 1 .. l : frame[k] \in Int, NEW i \in 2 .. l,
           NEW period \in Nat \ {0}
    PROVE  Smooth(Smoothed(frame, i - 1, period), RowChange(frame, i), period)
              = Smoothed(frame, i, period)
<1> DEFINE b == LastBad(frame, i)
           a == LastBad(frame, i - 1)
           x == frame[i] - frame[i - 1]
           old == Smoothed(frame, i - 1, period)
<1>1. i \in 0 .. l /\ i - 1 \in 0 .. l /\ i \in 1 .. l /\ i - 1 \in 1 .. l
  OBVIOUS
<1>2. /\ a \in 0 .. i - 1
      /\ a # 0 => frame[a] <= 0
      /\ \A k \in a + 1 .. i - 1 : frame[k] > 0
      /\ \A q \in 0 .. i - 1 :
            (q # 0 => frame[q] <= 0) /\ (\A k \in q + 1 .. i - 1 : frame[k] > 0)
            => q = a
  BY <1>1, LastBadFacts, Zenon
<1>3. /\ b \in 0 .. i
      /\ \A q \in 0 .. i :
            (q # 0 => frame[q] <= 0) /\ (\A k \in q + 1 .. i : frame[k] > 0)
            => q = b
  BY <1>1, LastBadFacts, Zenon
<1>4. frame[i] \in Int /\ frame[i - 1] \in Int
  BY <1>1
<1> HIDE DEF a, b
<1>5. CASE frame[i] <= 0
  <2>1. b = i
    BY <1>3, <1>5, <1>1
  <2>2. ChangeCount(frame, i) = 0
    BY <2>1 DEF ChangeCount, b
  <2>3. ChangesAfter(frame, b, 0) = <<>>
    BY <2>1 DEF ChangesAfter
  <2>4. Smoothed(frame, i, period) = Reset
    BY <2>2, <2>3 DEF Smoothed, Reset, b
  <2>5. RowChange(frame, i) = NaN
    BY <1>5, RowChangeFacts
  <2>6. QED
    BY <2>4, <2>5 DEF Smooth
<1>6. CASE ~ (frame[i] <= 0) /\ frame[i - 1] <= 0
  <2>1. b = i - 1
    <3>1. \A k \in (i - 1) + 1 .. i : frame[k] > 0
      BY <1>4, <1>6
    <3>2. QED
      BY <1>1, <1>3, <1>6, <3>1
  <2>2. ChangeCount(frame, i) = 0
    BY <2>1 DEF ChangeCount, b
  <2>3. ChangesAfter(frame, b, 0) = <<>>
    BY <2>1 DEF ChangesAfter
  <2>4. Smoothed(frame, i, period) = Reset
    BY <2>2, <2>3 DEF Smoothed, Reset, b
  <2>5. RowChange(frame, i) = NaN
    BY <1>6, RowChangeFacts
  <2>6. QED
    BY <2>4, <2>5 DEF Smooth
<1>7. CASE ~ (frame[i] <= 0) /\ ~ (frame[i - 1] <= 0)
  <2> DEFINE c == i - 1 - a - 1
             s == ChangesAfter(frame, a, c)
             t == ChangesAfter(frame, a, c + 1)
  <2>1. a # i - 1 /\ a \in 0 .. i - 2 /\ a \in 0 .. l
    BY <1>1, <1>2, <1>4, <1>7
  <2>2. b = a
    <3>1. \A k \in a + 1 .. i : frame[k] > 0
      BY <1>2, <1>4, <1>7
    <3>2. QED
      BY <1>2, <1>3, <3>1
  <2>3. c \in Nat /\ c + 1 \in Nat /\ a + c + 2 = i
    BY <2>1
  <2>4. ChangeCount(frame, i - 1) = c /\ ChangeCount(frame, i) = c + 1
    BY <2>1, <2>2 DEF ChangeCount, a, b
  <2>5. RowChange(frame, i) = <<x>>
    BY <1>7, RowChangeFacts
  <2>6. s \o <<x>> = t
    <3>1. a + c + 2 <= l /\ a + c + 1 = i - 1
      BY <1>1, <2>1, <2>3
    <3>2. s \o <<frame[a + c + 2] - frame[a + c + 1]>> = t
      BY <2>1, <2>3, <3>1, ChangesAppend
    <3>3. QED
      BY <2>3, <3>1, <3>2
  <2>7. /\ s \in Seq(Int) /\ Len(s) = c /\ (s = <<>> <=> c = 0)
        /\ t \in Seq(Int) /\ Len(t) = c + 1
    <3>1. a + c + 1 <= l /\ a + (c + 1) + 1 <= l
      BY <1>1, <2>1, <2>3
    <3> HIDE DEF c
    <3>2. s \in Seq(Int) /\ Len(s) = c /\ (s = <<>> <=> c = 0)
      BY <2>1, <2>3, <3>1, ChangesFacts
    <3>3. t \in Seq(Int) /\ Len(t) = c + 1
      BY <2>1, <2>3, <3>1, ChangesFacts
    <3>4. QED
      BY <3>2, <3>3
  <2>8. <<x>> # NaN
    BY DEF NaN
  <2>9. old = [seed |-> ChangesAfter(frame, a, IF c < period THEN c ELSE period),
               averages |-> IF c < period THEN <<>> ELSE s]
    BY <2>4 DEF Smoothed, a
  <2>10. Smoothed(frame, i, period) =
            [seed |-> ChangesAfter(frame, a, IF c + 1 < period THEN c + 1 ELSE period),
             averages |-> IF c + 1 < period THEN <<>> ELSE t]
    BY <2>2, <2>4 DEF Smoothed, b
  <2> HIDE DEF c, s, t, old, x
  <2>11. CASE c < period
    <3>1. old = [seed |-> s, averages |-> <<>>]
      BY <2>9, <2>11 DEF s
    <3>2. Smooth(old, <<x>>, period) =
             [seed |-> s \o <<x>>,
              averages |-> IF Len(s \o <<x>>) < period THEN <<>> ELSE s \o <<x>>]
      BY <2>8, <3>1 DEF Smooth
    <3>3. (IF c + 1 < period THEN c + 1 ELSE period) = c + 1
      BY <2>3, <2>11
    <3>4. Smoothed(frame, i, period) =
             [seed |-> t, averages |-> IF c + 1 < period THEN <<>> ELSE t]
      BY <2>10, <3>3 DEF t
    <3>5. QED
      BY <2>5, <2>6, <2>7, <3>2, <3>4 DEF old
  <2>12. CASE ~ (c < period)
    <3>1. old = [seed |-> ChangesAfter(frame, a, period), averages |-> s]
      BY <2>9, <2>12
    <3>2. s # <<>>
      BY <2>3, <2>7, <2>12
    <3>3. Smooth(old, <<x>>, period) =
             [seed |-> ChangesAfter(frame, a, period), averages |-> s \o <<x>>]
      BY <2>8, <3>1, <3>2 DEF Smooth
    <3>4. Smoothed(frame, i, period) =
             [seed |-> ChangesAfter(frame, a, period), averages |-> t]
      BY <2>3, <2>10, <2>12
    <3>5. QED
      BY <2>5, <2>6, <3>3, <3>4 DEF old
  <2>13. QED
    BY <2>11, <2>12
<1>8. QED
  BY <1>5, <1>6, <1>7

\* What the RSI makes of its averages.
Index(averages) ==
    IF \E k \in DOMAIN averages : averages[k] # 0 THEN averages ELSE NaN

\* The loop computes the closed form: the equation of the loop has one solution.
LEMMA RsiClosed ==
    ASSUME NEW frame, NEW l \in Nat, DOMAIN frame = 1 .. l,
           \A k \in 1 .. l : frame[k] \in Int, NEW period \in Nat \ {0}
    PROVE  /\ DOMAIN Rsi(frame, period) = 1 .. l
           /\ \A i \in 1 .. l :
                 Rsi(frame, period)[i] = Index(Smoothed(frame, i, period).averages)
<1> DEFINE closed == [i \in 1 .. l |-> Smoothed(frame, i, period)]
           Solves(f) == f = [i \in DOMAIN frame |->
                               IF i = 1 THEN Reset
                               ELSE Smooth(f[i - 1], RowChange(frame, i), period)]
           state == CHOOSE f : Solves(f)
<1>1. ASSUME 1 \in 1 .. l PROVE Smoothed(frame, 1, period) = Reset
  <2>1. LastBad(frame, 1) \in 0 .. 1
    BY <1>1, LastBadFacts
  <2>2. ChangeCount(frame, 1) = 0
    BY <2>1 DEF ChangeCount
  <2>3. \A b : ChangesAfter(frame, b, 0) = <<>>
    BY DEF ChangesAfter
  <2>4. QED
    BY <2>2, <2>3 DEF Smoothed, Reset
<1>2. Solves(closed)
  <2>1. ASSUME NEW i \in 1 .. l
        PROVE  closed[i] = IF i = 1 THEN Reset
                           ELSE Smooth(closed[i - 1], RowChange(frame, i), period)
    <3>1. CASE i = 1
      BY <1>1, <3>1
    <3>2. CASE i # 1
      <4>1. i \in 2 .. l /\ i - 1 \in 1 .. l
        BY <3>2
      <4>2. QED
        BY <3>2, <4>1, SmoothedStep
    <3>3. QED
      BY <3>1, <3>2
  <2> DEFINE next == [i \in 1 .. l |->
                        IF i = 1 THEN Reset
                        ELSE Smooth(closed[i - 1], RowChange(frame, i), period)]
  <2>2. closed = next
    <3>1. \A i \in 1 .. l : closed[i] = next[i]
      BY <2>1
    <3>2. closed = [i \in 1 .. l |-> closed[i]] /\ next = [i \in 1 .. l |-> next[i]]
      OBVIOUS
    <3> HIDE DEF closed, next
    <3>3. QED
      BY <3>1, <3>2
  <2>3. QED
    BY <2>2
<1>3. Solves(state)
  <2> HIDE DEF closed, Solves
  <2>1. QED
    BY <1>2
<1> HIDE DEF closed
<1>4. \A i \in 1 .. l : state[i] = closed[i]
  <2> DEFINE S == {i \in 1 .. l : state[i] # closed[i]}
  <2> SUFFICES ASSUME S # {} PROVE FALSE
    OBVIOUS
  <2>1. S \subseteq Nat
    OBVIOUS
  <2>2. PICK m \in S : \A i \in S : m <= i
    BY <2>1, NatMin, Zenon
  <2> HIDE DEF state
  <2>3. /\ state[m] = IF m = 1 THEN Reset
                      ELSE Smooth(state[m - 1], RowChange(frame, m), period)
        /\ closed[m] = IF m = 1 THEN Reset
                       ELSE Smooth(closed[m - 1], RowChange(frame, m), period)
    BY <1>2, <1>3
  <2>4. m # 1 => m - 1 \in 1 .. l /\ ~ (m <= m - 1)
    OBVIOUS
  <2>5. m # 1 => state[m - 1] = closed[m - 1]
    BY <2>2, <2>4
  <2>6. state[m] = closed[m]
    BY <2>3, <2>5
  <2>7. QED
    BY <2>6
<1>5. Rsi(frame, period) = [i \in 1 .. l |-> Index(state[i].averages)]
  <2>1. Rsi(frame, period) =
           [i \in DOMAIN frame |-> IF \E k \in DOMAIN state[i].averages :
                                         state[i].averages[k] # 0
                                   THEN state[i].averages ELSE NaN]
    BY Zenon DEF Rsi, state, Solves, RowChange
  <2> HIDE DEF state
  <2>2. QED
    BY <2>1 DEF Index
<1> HIDE DEF state
<1>6. \A i \in 1 .. l : state[i] = Smoothed(frame, i, period)
  BY <1>4 DEF closed
<1>7. QED
  BY <1>5, <1>6

LEMMA ChangeCountFacts ==
    ASSUME NEW frame, NEW i, NEW b, LastBad(frame, i) = b
    PROVE  ChangeCount(frame, i) = IF b = i THEN 0 ELSE i - b - 1
BY DEF ChangeCount

LEMMA RowsBetween ==
    ASSUME NEW i \in Int, NEW m \in Int, i <= m, NEW b \in Nat, NEW c \in Int,
           b + c + 1 = i, NEW k \in 1 .. c
    PROVE  b + k + 1 \in 1 .. m /\ b + k \in 1 .. m
OBVIOUS

\* The frame g is the m rows after the first d of f; d is 0 or a bad price.
After(g, m, f, l, d) ==
    /\ l \in Nat /\ DOMAIN f = 1 .. l /\ \A k \in 1 .. l : f[k] \in Int
    /\ m \in Nat /\ DOMAIN g = 1 .. m /\ \A k \in 1 .. m : g[k] = f[d + k]
    /\ d \in Nat /\ d + m <= l /\ (d # 0 => f[d] <= 0)

\* Its index is that of f in the rows they share.
LEMMA RsiShift ==
    ASSUME NEW f, NEW l, NEW g, NEW m, NEW d, After(g, m, f, l, d),
           NEW period \in Nat \ {0}, NEW i \in 1 .. m
    PROVE  Rsi(g, period)[i] = Rsi(f, period)[d + i]
<1> USE DEF After
<1> DEFINE b == LastBad(g, i)
           c == ChangeCount(g, i)
<1>1. \A k \in 1 .. m : d + k \in 1 .. l /\ g[k] \in Int
  OBVIOUS
<1>2. i \in 0 .. m /\ d + i \in 0 .. l /\ d + i \in 1 .. l
  OBVIOUS
<1>3. /\ b \in 0 .. i
      /\ b # 0 => g[b] <= 0
      /\ \A k \in b + 1 .. i : g[k] > 0
  BY <1>1, <1>2, LastBadFacts
<1> HIDE DEF b
<1>4. d + b = LastBad(f, d + i)
  <2>1. d + b \in 0 .. d + i
    BY <1>3
  <2>2. d + b # 0 => f[d + b] <= 0
    <3>1. CASE b = 0
      BY <3>1
    <3>2. CASE b # 0
      <4>1. b \in 1 .. m
        BY <1>3, <3>2
      <4>2. QED
        BY <1>3, <3>2, <4>1
    <3>3. QED
      BY <3>1, <3>2
  <2>3. ASSUME NEW k \in d + b + 1 .. d + i PROVE f[k] > 0
    <3>1. k - d \in b + 1 .. i /\ k - d \in 1 .. m /\ d + (k - d) = k
      BY <1>3
    <3>2. g[k - d] > 0 /\ g[k - d] = f[d + (k - d)]
      BY <1>3, <3>1
    <3>3. QED
      BY <3>1, <3>2
  <2>4. \A q \in 0 .. d + i :
           /\ q # 0 => f[q] <= 0
           /\ \A k \in q + 1 .. d + i : f[k] > 0
           => q = LastBad(f, d + i)
    BY <1>2, LastBadFacts
  <2>5. QED
    BY <2>1, <2>2, <2>3, <2>4
<1>5. c = ChangeCount(f, d + i) /\ c \in Nat /\ (c # 0 => b + c + 1 = i)
  <2>1. c = IF b = i THEN 0 ELSE i - b - 1
    BY DEF ChangeCount, b
  <2> DEFINE r == d + i
             e == d + b
  <2>2. LastBad(f, r) = e
    BY <1>4
  <2> HIDE DEF c, e, r
  <2>3. ChangeCount(f, r) = IF e = r THEN 0 ELSE r - e - 1
    BY <2>2, ChangeCountFacts
  <2>4. QED
    BY <1>3, <2>1, <2>3 DEF e, r
<1> HIDE DEF c
<1>6. ChangesAfter(g, b, c) = ChangesAfter(f, d + b, c)
  <2>1. ASSUME NEW k \in 1 .. c
        PROVE  g[b + k + 1] - g[b + k] = f[d + b + k + 1] - f[d + b + k]
    <3>1. b + k + 1 \in 1 .. m /\ b + k \in 1 .. m
      <4>1. c # 0 /\ b + c + 1 = i
        BY <1>5
      <4>2. b \in Nat /\ c \in Int /\ i \in Int /\ m \in Int /\ i <= m
        BY <1>3, <1>5
      <4>3. QED
        BY <4>1, <4>2, RowsBetween
    <3>2. d + (b + k + 1) = d + b + k + 1 /\ d + (b + k) = d + b + k
      BY <1>3, <1>5
    <3>3. /\ g[b + k + 1] = f[d + (b + k + 1)]
          /\ g[b + k] = f[d + (b + k)]
      BY <3>1
    <3>4. g[b + k + 1] = f[d + b + k + 1] /\ g[b + k] = f[d + b + k]
      BY <3>2, <3>3
    <3>5. QED
      BY <3>4
  <2>2. QED
    BY <2>1 DEF ChangesAfter
<1>7. Smoothed(g, i, period).averages = Smoothed(f, d + i, period).averages
  BY <1>4, <1>5, <1>6 DEF Smoothed, b, c
<1>8. /\ Rsi(g, period)[i] = Index(Smoothed(g, i, period).averages)
      /\ Rsi(f, period)[d + i] = Index(Smoothed(f, d + i, period).averages)
  <2>1. Rsi(g, period)[i] = Index(Smoothed(g, i, period).averages)
    BY <1>1, RsiClosed
  <2> DEFINE e == d + i
  <2>2. e \in 1 .. l
    BY <1>2
  <2> HIDE DEF e
  <2>3. Rsi(f, period)[e] = Index(Smoothed(f, e, period).averages)
    BY <2>2, RsiClosed
  <2>4. QED
    BY <2>1, <2>3 DEF e
<1>9. QED
  BY <1>7, <1>8

LEMMA RsiBegins ==
    ASSUME NEW f, NEW g, Begins(g, f), \A k \in DOMAIN f : f[k] \in Int,
           NEW n \in Nat \ {0}
    PROVE  Begins(Rsi(g, n), Rsi(f, n))
<1>1. PICK m \in Nat, l \in Nat :
         /\ m <= l /\ DOMAIN g = 1 .. m /\ DOMAIN f = 1 .. l
         /\ \A k \in 1 .. m : g[k] = f[k]
  BY DEF Begins
<1>2. DOMAIN Rsi(g, n) = 1 .. m /\ DOMAIN Rsi(f, n) = 1 .. l
  BY <1>1 DEF Rsi
<1>3. ASSUME NEW i \in 1 .. m PROVE Rsi(g, n)[i] = Rsi(f, n)[i]
  <2> DEFINE d == 0
  <2>1. \A k \in 1 .. m : g[k] = f[d + k]
    BY <1>1
  <2>2. d \in Nat /\ d + m <= l /\ d + i = i /\ ~ (d # 0)
    BY <1>1
  <2>3. \A k \in 1 .. l : f[k] \in Int
    BY <1>1
  <2> HIDE DEF d
  <2>4. After(g, m, f, l, d)
    BY <1>1, <2>1, <2>2, <2>3 DEF After
  <2>5. Rsi(g, n)[i] = Rsi(f, n)[d + i]
    BY <2>4, RsiShift
  <2>6. QED
    BY <2>2, <2>5
<1>4. QED
  BY <1>1, <1>2, <1>3 DEF Begins

LEMMA RawDomain ==
    ASSUME NEW name \in Names, NEW x
    PROVE  DOMAIN Raw(Registry[name], x) = DOMAIN x
<1> DEFINE feature == Registry[name]
<1>1. feature.kind \in
         {"sma", "volume", "spike", "return", "volatility", "rsi", "cumulative"}
  BY RegistryFacts
<1> HIDE DEF feature
<1>2. CASE feature.kind = "sma"
  BY <1>2 DEF Raw, Rolling, CleanClose, feature
<1>3. CASE feature.kind = "return"
  BY <1>3 DEF Raw, Return, feature
<1>4. CASE feature.kind = "volatility"
  BY <1>4 DEF Raw, Volatility, Rolling, Return, feature
<1>5. CASE feature.kind = "rsi"
  BY <1>5 DEF Raw, Rsi, feature
<1>6. CASE feature.kind = "spike"
  BY <1>6 DEF Raw, Spike, feature
<1>7. CASE feature.kind = "cumulative"
  BY <1>7 DEF Raw, Cumulative, feature
<1>8. CASE feature.kind = "volume"
  BY <1>8 DEF Raw, Rolling, CleanVolume, feature
<1>9. QED
  BY <1>1, <1>2, <1>3, <1>4, <1>5, <1>6, <1>7, <1>8

\* Nor does masking look ahead.
LEMMA ComputeBegins ==
    ASSUME NEW name \in Names, NEW f, NEW g, Begins(g, f),
           \A k \in DOMAIN f : f[k] \in Int
    PROVE  Begins(Compute(Registry[name], g), Compute(Registry[name], f))
<1> DEFINE feature == Registry[name]
           v == Raw(feature, g)
           w == Raw(feature, f)
<1>1. feature.n \in Nat \ {0}
  BY RegistryFacts
<1>2. Begins(v, w)
  <2> HIDE DEF feature
  <2>1. CASE feature.kind = "sma"
    BY <1>1, <2>1, CleanBegins, RollingBegins DEF Raw
  <2>2. CASE feature.kind = "return"
    BY <1>1, <2>2, ReturnBegins DEF Raw
  <2>3. CASE feature.kind = "volatility"
    <3>1. 1 \in Nat \ {0}
      OBVIOUS
    <3>2. QED
      BY <1>1, <2>3, <3>1, ReturnBegins, RollingBegins DEF Raw, Volatility
  <2>4. CASE feature.kind = "rsi"
    BY <1>1, <2>4, RsiBegins DEF Raw
  <2>5. CASE feature.kind = "spike"
    BY <1>1, <2>5, SpikeBegins DEF Raw
  <2>6. CASE feature.kind = "cumulative"
    BY <2>6, CumulativeBegins DEF Raw
  <2>7. CASE feature.kind = "volume"
    BY <1>1, <2>7, CleanBegins, RollingBegins DEF Raw
  <2>8. QED
    BY <2>1, <2>2, <2>3, <2>4, <2>5, <2>6, <2>7, RegistryFacts DEF feature
<1>3. DOMAIN v = DOMAIN g /\ DOMAIN w = DOMAIN f
  <2> HIDE DEF feature
  <2>1. \A x : DOMAIN Raw(feature, x) = DOMAIN x
    BY RawDomain DEF feature
  <2>2. QED
    BY <2>1
<1>4. PICK m \in Nat, l \in Nat :
         /\ m <= l /\ DOMAIN g = 1 .. m /\ DOMAIN f = 1 .. l
  BY DEF Begins
<1> HIDE DEF v, w
<1>5. \A i \in 1 .. m : v[i] = w[i]
  BY <1>2, <1>3, <1>4 DEF Begins
<1> HIDE DEF feature
<1>6. /\ Compute(feature, g) =
            [i \in DOMAIN g |-> IF i < Lookback(feature) THEN NaN ELSE v[i]]
      /\ Compute(feature, f) =
            [i \in DOMAIN f |-> IF i < Lookback(feature) THEN NaN ELSE w[i]]
  BY DEF Compute, v, w
<1>7. \A i \in 1 .. m : Compute(feature, g)[i] = Compute(feature, f)[i]
  <2>1. TAKE i \in 1 .. m
  <2>2. i \in 1 .. l
    BY <1>4
  <2>3. QED
    BY <1>4, <1>5, <1>6, <2>2
<1>8. Begins(Compute(feature, g), Compute(feature, f))
  BY <1>4, <1>6, <1>7 DEF Begins
<1>9. QED
  BY <1>8 DEF feature

\* Values depend on the past alone, for every feature and every frame.
THEOREM FeatureNoLookAhead == Spec => []NoLookAhead
<1>1. ASSUME NEW name \in Names, NEW frame \in Frames, NEW i \in DOMAIN frame
      PROVE  Compute(Registry[name], SubSeq(frame, 1, i))
                = SubSeq(Compute(Registry[name], frame), 1, i)
  <2> DEFINE g == SubSeq(frame, 1, i)
             v == Compute(Registry[name], g)
             w == Compute(Registry[name], frame)
             S == {w[k] : k \in 1 .. i}
  <2>1. /\ Len(frame) \in Nat /\ DOMAIN frame = 1 .. Len(frame)
        /\ \A k \in DOMAIN frame : frame[k] \in Int
    BY FrameFacts
  <2>2. i \in Int /\ 1 <= i /\ i \in Nat /\ i <= Len(frame)
    BY <2>1
  <2>3. DOMAIN g = 1 .. i /\ \A k \in 1 .. i : g[k] = frame[k]
    <3>1. /\ DOMAIN g = 1 .. i - 1 + 1
          /\ \A k \in 1 .. i - 1 + 1 : g[k] = frame[1 + k - 1]
      BY <2>2, WindowFacts
    <3> HIDE DEF g
    <3>2. i - 1 + 1 = i /\ \A k \in 1 .. i : 1 + k - 1 = k
      BY <2>2
    <3>3. QED
      BY <3>1, <3>2
  <2> HIDE DEF g
  <2>4. Begins(g, frame)
    BY <2>1, <2>2, <2>3 DEF Begins
  <2>5. Begins(v, w)
    BY <2>1, <2>4, ComputeBegins
  <2>6. DOMAIN v = 1 .. i
    BY <2>3 DEF Compute
  <2> HIDE DEF v, w
  <2>7. \A k \in 1 .. i : v[k] = w[k]
    BY <2>5, <2>6 DEF Begins
  <2>8. v = [k \in 1 .. i |-> v[k]]
    BY <2>6 DEF v, Compute
  <2>9. \A k \in 1 .. i : w[k] \in S
    OBVIOUS
  <2> HIDE DEF S
  <2>10. v \in Seq(S)
    <3>1. v \in [1 .. i -> S]
      BY <2>7, <2>8, <2>9
    <3>2. QED
      BY <2>2, <3>1, SeqDef
  <2>11. Len(v) = i
    BY <2>2, <2>6, <2>10, LenProperties
  <2>12. /\ SubSeq(w, 1, i) \in Seq(S)
         /\ Len(SubSeq(w, 1, i)) = i
         /\ \A k \in 1 .. i : SubSeq(w, 1, i)[k] = w[k]
    <3>1. /\ SubSeq(w, 1, i) \in Seq(S)
          /\ Len(SubSeq(w, 1, i)) = IF 1 <= i THEN i - 1 + 1 ELSE 0
          /\ \A k \in 1 .. i - 1 + 1 : SubSeq(w, 1, i)[k] = w[1 + k - 1]
      BY <2>2, <2>9, SubSeqProperties
    <3>2. i - 1 + 1 = i /\ \A k \in 1 .. i : 1 + k - 1 = k
      BY <2>2
    <3>3. QED
      BY <2>2, <3>1, <3>2
  <2>13. v = SubSeq(w, 1, i)
    BY <2>7, <2>10, <2>11, <2>12, SeqEqual
  <2>14. QED
    BY <2>13 DEF v, w, g
<1>2. NoLookAhead
  BY <1>1 DEF NoLookAhead
<1>3. QED
  BY <1>2, PTL

-----------------------------------------------------------------------------
\* BadPricesReset.

\* An index needs `period` changes since the last bad price.
LEMMA RsiNeeds ==
    ASSUME NEW frame, NEW l \in Nat, DOMAIN frame = 1 .. l,
           \A k \in 1 .. l : frame[k] \in Int, NEW period \in Nat \ {0},
           NEW i \in 1 .. l, Rsi(frame, period)[i] # NaN
    PROVE  LastBad(frame, i) + period + 1 <= i
<1> DEFINE b == LastBad(frame, i)
           c == ChangeCount(frame, i)
           averages == Smoothed(frame, i, period).averages
<1>1. b \in 0 .. i
  <2>1. i \in 0 .. l
    OBVIOUS
  <2>2. QED
    BY <2>1, LastBadFacts
<1>2. c = IF b = i THEN 0 ELSE i - b - 1
  BY ChangeCountFacts
<1>3. Index(averages) # NaN
  BY RsiClosed
<1>4. averages = IF c < period THEN <<>> ELSE ChangesAfter(frame, b, c)
  BY DEF Smoothed
<1> HIDE DEF averages, b, c
<1>5. averages # <<>>
  BY <1>3 DEF Index, NaN
<1>6. ~ (c < period)
  BY <1>4, <1>5
<1>7. b + period + 1 <= i
  BY <1>1, <1>2, <1>6
<1>8. QED
  BY <1>7 DEF b

\* The rows of an RSI after a bad price, masked as if the bars began there.
LEMMA RsiReset ==
    ASSUME NEW name \in Names, Registry[name].kind = "rsi",
           NEW frame \in Frames, NEW i \in DOMAIN frame
    PROVE  Compute(Registry[name], frame)[i] =
              IF LastBad(frame, i) = i THEN NaN
              ELSE Compute(Registry[name], SubSeq(frame, LastBad(frame, i) + 1, i))
                      [i - LastBad(frame, i)]
<1> DEFINE feature == Registry[name]
           n == feature.n
           b == LastBad(frame, i)
           l == Len(frame)
           g == SubSeq(frame, b + 1, i)
           m == i - b
<1>1. /\ l \in Nat /\ DOMAIN frame = 1 .. l
      /\ \A k \in 1 .. l : frame[k] \in Int
  BY FrameFacts
<1>2. n \in Nat \ {0} /\ Lookback(feature) = n + 1
  <2>1. n \in Nat \ {0}
    BY RegistryFacts
  <2> HIDE DEF n
  <2>2. feature.kind = "rsi"
    OBVIOUS
  <2> HIDE DEF feature
  <2>3. QED
    BY <2>1, <2>2 DEF Lookback, n
<1>3. \A x, k : k \in DOMAIN x =>
         Compute(feature, x)[k] = IF k < n + 1 THEN NaN ELSE Rsi(x, n)[k]
  <2>1. feature.kind = "rsi"
    OBVIOUS
  <2>2. \A x : Raw(feature, x) = Rsi(x, n)
    <3> HIDE DEF feature
    <3>1. QED
      BY <2>1 DEF Raw
  <2> HIDE DEF feature, n
  <2>3. QED
    BY <1>2, <2>2 DEF Compute
<1>4. /\ b \in 0 .. i
      /\ b # 0 => frame[b] <= 0
  <2>1. i \in 0 .. l
    BY <1>1
  <2>2. QED
    BY <1>1, <2>1, LastBadFacts
<1>5. i \in 1 .. l /\ i \in Int
  BY <1>1
<1> HIDE DEF feature, n, b, l
<1>6. CASE b = i
  <2>1. Rsi(frame, n)[i] = NaN
    <3> SUFFICES ASSUME Rsi(frame, n)[i] # NaN PROVE FALSE
      OBVIOUS
    <3>1. b + n + 1 <= i
      BY <1>1, <1>2, <1>5, RsiNeeds DEF b
    <3>2. QED
      BY <1>2, <1>4, <1>5, <1>6, <3>1
  <2>2. Compute(feature, frame)[i] = NaN
    BY <1>3, <2>1
  <2>3. QED
    BY <1>6, <2>2 DEF feature, b
<1>7. CASE b # i
  <2>1. m \in Nat /\ m \in 1 .. m /\ b \in Nat /\ b + m = i /\ b + 1 <= i
    BY <1>4, <1>5, <1>7
  <2>2. DOMAIN g = 1 .. m /\ \A k \in 1 .. m : g[k] = frame[b + k]
    <3>1. /\ DOMAIN g = 1 .. i - (b + 1) + 1
          /\ \A k \in 1 .. i - (b + 1) + 1 : g[k] = frame[b + 1 + k - 1]
      BY <1>5, <2>1, WindowFacts
    <3> HIDE DEF g
    <3>2. i - (b + 1) + 1 = m /\ \A k \in 1 .. m : b + 1 + k - 1 = b + k
      BY <1>5, <2>1
    <3>3. QED
      BY <3>1, <3>2
  <2> HIDE DEF g
  <2> HIDE DEF m
  <2>3. After(g, m, frame, l, b)
    <3>1. b + m <= l
      BY <1>5, <2>1, <1>1
    <3>2. QED
      BY <1>1, <1>4, <2>1, <2>2, <3>1 DEF After
  <2>4. Rsi(g, n)[m] = Rsi(frame, n)[i]
    BY <1>2, <2>1, <2>3, RsiShift
  <2>5. /\ Compute(feature, g)[m] = IF m < n + 1 THEN NaN ELSE Rsi(g, n)[m]
        /\ Compute(feature, frame)[i] = IF i < n + 1 THEN NaN ELSE Rsi(frame, n)[i]
    BY <1>3, <2>1, <2>2
  <2>6. m < n + 1 => Rsi(frame, n)[i] = NaN
    <3> SUFFICES ASSUME m < n + 1, Rsi(frame, n)[i] # NaN PROVE FALSE
      OBVIOUS
    <3>1. b + n + 1 <= i
      BY <1>1, <1>2, <1>5, RsiNeeds DEF b
    <3>2. QED
      BY <1>2, <1>5, <2>1, <3>1
  <2>7. i < n + 1 => m < n + 1
    BY <1>2, <1>5, <2>1
  <2>8. Compute(feature, frame)[i] = Compute(feature, g)[m]
    BY <2>4, <2>5, <2>6, <2>7
  <2>9. QED
    BY <1>7, <2>8 DEF feature, g, b, m
<1>8. QED
  BY <1>6, <1>7

\* A bad price makes the RSI begin anew, for every frame and period.
THEOREM FeatureBadPricesReset == Spec => []BadPricesReset
<1>1. BadPricesReset
  BY RsiReset DEF BadPricesReset, LastBad
<1>2. QED
  BY <1>1, PTL

-----------------------------------------------------------------------------
\* LookbackExact.

\* A frame of prices that are valid and move.
Lively(frame) ==
    /\ \A i \in DOMAIN frame : frame[i] > 0
    /\ \A i \in 1 .. Len(frame) - 1 : frame[i] # frame[i + 1]

LEMMA CleanFacts ==
    ASSUME NEW frame, NEW i \in DOMAIN frame, frame[i] \in Int, frame[i] > 0
    PROVE  /\ CleanClose(frame)[i] = <<frame[i]>>
           /\ CleanVolume(frame)[i] = <<frame[i]>>
           /\ <<frame[i]>> # NaN
<1>1. <<frame[i]>> # NaN
  BY DEF NaN
<1>2. frame[i] >= 0
  OBVIOUS
<1>3. QED
  BY <1>1, <1>2 DEF CleanClose, CleanVolume

LEMMA RollingFacts ==
    ASSUME NEW series, NEW n \in Nat \ {0}, NEW i \in DOMAIN series, i \in Int
    PROVE  /\ Rolling(series, n)[i] # NaN <=>
                 i >= n /\ \A k \in i - n + 1 .. i : series[k] # NaN
           /\ Rolling(series, n)[i] # NaN =>
                 Rolling(series, n)[i] = SubSeq(series, i - n + 1, i)
<1>1. i - n + 1 \in Int /\ i - n + 1 <= i
  OBVIOUS
<1>2. SubSeq(series, i - n + 1, i) # NaN
  BY <1>1, WindowFacts
<1>3. QED
  BY <1>2 DEF Rolling

\* The rows with a value, kind by kind.
LEMMA SmaLookback ==
    ASSUME NEW frame, NEW l \in Nat, DOMAIN frame = 1 .. l,
           \A k \in 1 .. l : frame[k] \in Int, NEW n \in Nat \ {0},
           NEW i \in 1 .. l
    PROVE  LET raw == Rolling(CleanClose(frame), n)
           IN  /\ raw[i] # NaN => i >= n
               /\ (\A k \in 1 .. l : frame[k] > 0) /\ i >= n => raw[i] # NaN
<1>1. i \in DOMAIN CleanClose(frame) /\ i \in Int
  BY DEF CleanClose
<1>2. ASSUME \A k \in 1 .. l : frame[k] > 0, i >= n
      PROVE  \A k \in i - n + 1 .. i : CleanClose(frame)[k] # NaN
  <2>1. \A k \in i - n + 1 .. i : k \in 1 .. l
    BY <1>2
  <2>2. QED
    BY <1>2, <2>1, CleanFacts
<1>3. QED
  BY <1>1, <1>2, RollingFacts

LEMMA VolumeLookback ==
    ASSUME NEW frame, NEW l \in Nat, DOMAIN frame = 1 .. l,
           \A k \in 1 .. l : frame[k] \in Int, NEW n \in Nat \ {0},
           NEW i \in 1 .. l
    PROVE  LET raw == Rolling(CleanVolume(frame), n)
           IN  /\ raw[i] # NaN => i >= n
               /\ (\A k \in 1 .. l : frame[k] > 0) /\ i >= n => raw[i] # NaN
<1>1. i \in DOMAIN CleanVolume(frame) /\ i \in Int
  BY DEF CleanVolume
<1>2. ASSUME \A k \in 1 .. l : frame[k] > 0, i >= n
      PROVE  \A k \in i - n + 1 .. i : CleanVolume(frame)[k] # NaN
  <2>1. \A k \in i - n + 1 .. i : k \in 1 .. l
    BY <1>2
  <2>2. QED
    BY <1>2, <2>1, CleanFacts
<1>3. QED
  BY <1>1, <1>2, RollingFacts

LEMMA ReturnLookback ==
    ASSUME NEW frame, NEW l \in Nat, DOMAIN frame = 1 .. l,
           \A k \in 1 .. l : frame[k] \in Int, NEW n \in Nat \ {0},
           NEW i \in 1 .. l
    PROVE  /\ Return(frame, n)[i] # NaN => i >= n + 1
           /\ (\A k \in 1 .. l : frame[k] > 0) /\ i >= n + 1
                 => Return(frame, n)[i] # NaN
<1>1. Return(frame, n)[i] # NaN => i > n
  BY DEF Return
<1>2. ASSUME \A k \in 1 .. l : frame[k] > 0, i >= n + 1
      PROVE  Return(frame, n)[i] # NaN
  <2> DEFINE close == CleanClose(frame)
  <2>1. i - n \in 1 .. l /\ i > n
    BY <1>2
  <2>2. close[i] # NaN /\ close[i - n] # NaN
    BY <1>2, <2>1, CleanFacts
  <2>3. <<close[i - n], close[i]>> # NaN
    BY DEF NaN
  <2>4. QED
    BY <2>1, <2>2, <2>3 DEF Return
<1>3. QED
  BY <1>1, <1>2

LEMMA VolatilityLookback ==
    ASSUME NEW frame, NEW l \in Nat, DOMAIN frame = 1 .. l,
           \A k \in 1 .. l : frame[k] \in Int, NEW n \in Nat \ {0},
           NEW i \in 1 .. l
    PROVE  /\ Volatility(frame, n)[i] # NaN => i >= n + 1
           /\ (\A k \in 1 .. l : frame[k] > 0) /\ i >= n + 1
                 => Volatility(frame, n)[i] # NaN
<1> DEFINE r == Return(frame, 1)
<1>1. 1 \in Nat \ {0} /\ i \in Int
  OBVIOUS
<1>2. \A k \in 1 .. l :
         /\ r[k] # NaN => k >= 2
         /\ (\A q \in 1 .. l : frame[q] > 0) /\ k >= 2 => r[k] # NaN
  BY <1>1, ReturnLookback
<1>3. i \in DOMAIN r
  BY DEF Return
<1> HIDE DEF r
<1>4. Volatility(frame, n)[i] # NaN <=>
         i >= n /\ \A k \in i - n + 1 .. i : r[k] # NaN
  BY <1>1, <1>3, RollingFacts DEF Volatility, r
<1>5. ASSUME Volatility(frame, n)[i] # NaN PROVE i >= n + 1
  <2>1. i >= n /\ i - n + 1 \in i - n + 1 .. i /\ i - n + 1 \in 1 .. l
    BY <1>4, <1>5
  <2>2. i - n + 1 >= 2
    BY <1>2, <1>4, <1>5, <2>1
  <2>3. QED
    BY <2>2
<1>6. ASSUME \A k \in 1 .. l : frame[k] > 0, i >= n + 1
      PROVE  Volatility(frame, n)[i] # NaN
  <2>1. i >= n /\ \A k \in i - n + 1 .. i : k \in 1 .. l /\ k >= 2
    BY <1>6
  <2>2. QED
    BY <1>2, <1>4, <1>6, <2>1
<1>7. QED
  BY <1>5, <1>6

LEMMA SpikeLookback ==
    ASSUME NEW frame, NEW l \in Nat, DOMAIN frame = 1 .. l,
           \A k \in 1 .. l : frame[k] \in Int, NEW n \in Nat \ {0},
           NEW i \in 1 .. l
    PROVE  /\ Spike(frame, n)[i] # NaN => i >= n
           /\ (\A k \in 1 .. l : frame[k] > 0) /\ i >= n => Spike(frame, n)[i] # NaN
<1> DEFINE v == CleanVolume(frame)
           a == Rolling(v, n)
<1>1. i \in DOMAIN v /\ i \in Int /\ DOMAIN v = 1 .. l
  BY DEF CleanVolume
<1>2. Spike(frame, n)[i] = IF \E k \in DOMAIN a[i] : a[i][k][1] > 0
                           THEN a[i] ELSE NaN
  BY DEF Spike
<1>3. /\ a[i] # NaN <=> i >= n /\ \A k \in i - n + 1 .. i : v[k] # NaN
      /\ a[i] # NaN => a[i] = SubSeq(v, i - n + 1, i)
  <2> HIDE DEF v
  <2>1. QED
    BY <1>1, RollingFacts
<1> HIDE DEF a
<1>4. Spike(frame, n)[i] # NaN => i >= n
  BY <1>2, <1>3
<1>5. ASSUME \A k \in 1 .. l : frame[k] > 0, i >= n
      PROVE  Spike(frame, n)[i] # NaN
  <2>1. \A k \in i - n + 1 .. i : k \in 1 .. l
    BY <1>5
  <2>2. \A k \in 1 .. l : v[k] = <<frame[k]>> /\ v[k] # NaN
    BY <1>5, CleanFacts
  <2> DEFINE first == i - n + 1
  <2>3. first \in Int /\ first <= i /\ first \in 1 .. l /\ 1 \in 1 .. i - first + 1
    BY <1>5
  <2> HIDE DEF v
  <2>4. a[i] # NaN /\ a[i] = SubSeq(v, first, i)
    BY <1>3, <1>5, <2>1, <2>2
  <2> HIDE DEF first
  <2>5. 1 \in DOMAIN a[i] /\ a[i][1] = v[first + 1 - 1]
    BY <1>1, <2>3, <2>4, WindowFacts
  <2>6. a[i][1] = <<frame[first]>> /\ frame[first] > 0
    <3>1. first + 1 - 1 = first
      BY <2>3
    <3>2. QED
      BY <1>5, <2>2, <2>3, <2>5, <3>1
  <2>7. a[i][1][1] > 0
    BY <2>6
  <2>8. QED
    BY <1>2, <2>4, <2>5, <2>7
<1>6. QED
  BY <1>4, <1>5

LEMMA CumulativeLookback ==
    ASSUME NEW frame, NEW i \in DOMAIN frame, frame[i] \in Int, frame[i] > 0
    PROVE  Cumulative(frame)[i] # NaN
<1> DEFINE close == CleanClose(frame)
           first == CHOOSE k \in 1 .. i :
                       close[k] # NaN /\ \A m \in 1 .. k - 1 : close[m] = NaN
<1>1. close[i] # NaN
  BY CleanFacts
<1>2. \A x, y : <<x, y>> # NaN
  BY DEF NaN
<1>3. Cumulative(frame)[i] = IF close[i] = NaN THEN NaN
                             ELSE <<close[first], close[i]>>
  BY DEF Cumulative
<1> HIDE DEF close, first
<1>4. QED
  BY <1>1, <1>2, <1>3

LEMMA RsiLookback ==
    ASSUME NEW frame, NEW l \in Nat, DOMAIN frame = 1 .. l,
           \A k \in 1 .. l : frame[k] \in Int, NEW n \in Nat \ {0},
           NEW i \in 1 .. l
    PROVE  /\ Rsi(frame, n)[i] # NaN => i >= n + 1
           /\ /\ \A k \in 1 .. l : frame[k] > 0
              /\ \A k \in 1 .. l - 1 : frame[k] # frame[k + 1]
              /\ i >= n + 1
              => Rsi(frame, n)[i] # NaN
<1>1. i \in 0 .. l
  OBVIOUS
<1>2. LastBad(frame, i) \in 0 .. i
  BY <1>1, LastBadFacts
<1>3. Rsi(frame, n)[i] # NaN => i >= n + 1
  <2>1. Rsi(frame, n)[i] # NaN => LastBad(frame, i) + n + 1 <= i
    BY RsiNeeds
  <2>2. QED
    BY <1>2, <2>1
<1>4. ASSUME \A k \in 1 .. l : frame[k] > 0,
             \A k \in 1 .. l - 1 : frame[k] # frame[k + 1],
             i >= n + 1
      PROVE  Rsi(frame, n)[i] # NaN
  <2> DEFINE c == i - 1
             averages == Smoothed(frame, i, n).averages
  <2>1. LastBad(frame, i) = 0
    <3>1. /\ 0 \in 0 .. i /\ ~ (0 # 0)
          /\ \A k \in 0 + 1 .. i : frame[k] > 0
      BY <1>4
    <3>2. QED
      BY <1>1, <3>1, LastBadFacts
  <2>2. ChangeCount(frame, i) = c
    BY <2>1 DEF ChangeCount
  <2>3. c \in Nat /\ ~ (c < n) /\ 1 \in 1 .. c /\ c # 0 /\ 0 + c + 1 <= l
    BY <1>4
  <2>4. averages = ChangesAfter(frame, 0, c)
    BY <2>1, <2>2, <2>3 DEF Smoothed
  <2> HIDE DEF averages
  <2>5. DOMAIN averages = 1 .. c /\ averages # NaN
    <3>1. 0 \in 0 .. l
      OBVIOUS
    <3>2. QED
      BY <2>3, <2>4, <3>1, ChangesFacts DEF NaN
  <2>6. averages[1] = frame[2] - frame[1]
    BY <2>3, <2>4 DEF ChangesAfter
  <2>7. frame[2] - frame[1] # 0
    <3>1. 1 \in 1 .. l - 1 /\ 1 \in 1 .. l /\ 2 \in 1 .. l /\ 1 + 1 = 2
      BY <1>4
    <3>2. frame[1] # frame[1 + 1] /\ frame[1] \in Int /\ frame[2] \in Int
      BY <1>4, <3>1
    <3>3. QED
      BY <3>1, <3>2
  <2>8. Index(averages) # NaN
    BY <2>3, <2>5, <2>6, <2>7 DEF Index
  <2>9. QED
    BY <2>8, RsiClosed DEF averages
<1>5. QED
  BY <1>3, <1>4

\* The lookback window is exact, for every feature and every frame.
THEOREM FeatureLookbackExact == Spec => []LookbackExact
<1>1. ASSUME NEW name \in Names, NEW frame \in Frames, NEW i \in DOMAIN frame
      PROVE  /\ Raw(Registry[name], frame)[i] # NaN => i >= Lookback(Registry[name])
             /\ Lively(frame) /\ i >= Lookback(Registry[name])
                   => Raw(Registry[name], frame)[i] # NaN
  <2> DEFINE feature == Registry[name]
             n == feature.n
             l == Len(frame)
  <2>1. /\ l \in Nat /\ DOMAIN frame = 1 .. l /\ i \in 1 .. l
        /\ \A k \in 1 .. l : frame[k] \in Int
    BY FrameFacts
  <2>2. n \in Nat \ {0}
    BY RegistryFacts
  <2>3. Lively(frame) => /\ \A k \in 1 .. l : frame[k] > 0
                         /\ \A k \in 1 .. l - 1 : frame[k] # frame[k + 1]
    BY <2>1 DEF Lively
  <2> DEFINE Exact(raw, lookback) ==
               /\ raw[i] # NaN => i >= lookback
               /\ Lively(frame) /\ i >= lookback => raw[i] # NaN
  <2> HIDE DEF n, l, feature
  <2>4. ASSUME feature.kind = "sma"
        PROVE  Exact(Raw(feature, frame), Lookback(feature))
    <3>1. Raw(feature, frame) = Rolling(CleanClose(frame), n) /\ Lookback(feature) = n
      BY <2>4 DEF Raw, Lookback, n
    <3>2. QED
      BY <2>1, <2>2, <2>3, <3>1, SmaLookback
  <2>5. ASSUME feature.kind = "return"
        PROVE  Exact(Raw(feature, frame), Lookback(feature))
    <3>1. Raw(feature, frame) = Return(frame, n) /\ Lookback(feature) = n + 1
      BY <2>5 DEF Raw, Lookback, n
    <3>2. QED
      BY <2>1, <2>2, <2>3, <3>1, ReturnLookback
  <2>6. ASSUME feature.kind = "volatility"
        PROVE  Exact(Raw(feature, frame), Lookback(feature))
    <3>1. Raw(feature, frame) = Volatility(frame, n) /\ Lookback(feature) = n + 1
      BY <2>6 DEF Raw, Lookback, n
    <3>2. QED
      BY <2>1, <2>2, <2>3, <3>1, VolatilityLookback
  <2>7. ASSUME feature.kind = "rsi"
        PROVE  Exact(Raw(feature, frame), Lookback(feature))
    <3>1. Raw(feature, frame) = Rsi(frame, n) /\ Lookback(feature) = n + 1
      BY <2>7 DEF Raw, Lookback, n
    <3>2. Rsi(frame, n)[i] # NaN => i >= n + 1
      BY <2>1, <2>2, RsiLookback
    <3>3. Lively(frame) /\ i >= n + 1 => Rsi(frame, n)[i] # NaN
      BY <2>1, <2>2, <2>3, RsiLookback
    <3>4. QED
      BY <3>1, <3>2, <3>3
  <2>8. ASSUME feature.kind = "spike"
        PROVE  Exact(Raw(feature, frame), Lookback(feature))
    <3>1. Raw(feature, frame) = Spike(frame, n) /\ Lookback(feature) = n
      BY <2>8 DEF Raw, Lookback, n
    <3>2. QED
      BY <2>1, <2>2, <2>3, <3>1, SpikeLookback
  <2>9. ASSUME feature.kind = "cumulative"
        PROVE  Exact(Raw(feature, frame), Lookback(feature))
    <3>1. Raw(feature, frame) = Cumulative(frame) /\ Lookback(feature) = 1
      BY <2>9 DEF Raw, Lookback
    <3>2. i >= 1 /\ (Lively(frame) => Cumulative(frame)[i] # NaN)
      BY <2>1, <2>3, CumulativeLookback
    <3>3. QED
      BY <3>1, <3>2
  <2>10. ASSUME feature.kind = "volume"
         PROVE  Exact(Raw(feature, frame), Lookback(feature))
    <3>1. Raw(feature, frame) = Rolling(CleanVolume(frame), n) /\ Lookback(feature) = n
      BY <2>10 DEF Raw, Lookback, n
    <3>2. QED
      BY <2>1, <2>2, <2>3, <3>1, VolumeLookback
  <2>11. Exact(Raw(feature, frame), Lookback(feature))
    <3>1. feature.kind \in
             {"sma", "volume", "spike", "return", "volatility", "rsi", "cumulative"}
      BY RegistryFacts DEF feature
    <3> HIDE DEF Exact
    <3>2. QED
      BY <2>4, <2>5, <2>6, <2>7, <2>8, <2>9, <2>10, <3>1
  <2>12. QED
    BY <2>11 DEF feature
<1>2. LookbackExact
  BY <1>1 DEF LookbackExact, Lively
<1>3. QED
  BY <1>2, PTL
=============================================================================
