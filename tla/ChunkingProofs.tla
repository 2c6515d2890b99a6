--------------------------- MODULE ChunkingProofs ---------------------------
(***************************************************************************)
(* chunk_date_range is correct for every range and every window: the       *)
(* windows it returns are disjoint, none is too long, and together they    *)
(* are exactly the range.                                                  *)
(***************************************************************************)
EXTENDS Chunking, TLAPS

\* The end of a window lies between its start and the end of the range, and
\* the window is no longer than allowed; it is the end of the range, or it is
\* before it.
LEMMA WindowEndBounds ==
    ASSUME NEW from \in Int, NEW w \in Nat, NEW e \in Int, from <= e
    PROVE  /\ WindowEnd(from, w, e) \in Int
           /\ from <= WindowEnd(from, w, e)
           /\ WindowEnd(from, w, e) <= e
           /\ WindowEnd(from, w, e) - from <= w
BY DEF WindowEnd

\* Appending a window adds its instants to those covered.
LEMMA SpanAppend ==
    ASSUME NEW s \in Seq(Int \X Int), NEW a \in Int, NEW b \in Int
    PROVE  Span(Append(s, <<a, b>>)) = Span(s) \cup (a .. b)
<1> DEFINE s2 == Append(s, <<a, b>>)
<1>1. DOMAIN s2 = DOMAIN s \cup {Len(s) + 1}
  OBVIOUS
<1>2. \A i \in DOMAIN s : s2[i] = s[i]
  OBVIOUS
<1>3. s2[Len(s) + 1] = <<a, b>>
  OBVIOUS
<1>4. s2[Len(s) + 1][1] .. s2[Len(s) + 1][2] = a .. b
  BY <1>3
<1> HIDE DEF s2
<1>5. ASSUME NEW x, x \in Span(s2) PROVE x \in Span(s) \cup (a .. b)
  <2>1. PICK i \in DOMAIN s2 : x \in s2[i][1] .. s2[i][2]
    BY <1>5, Zenon DEF Span
  <2>2. CASE i \in DOMAIN s
    BY <2>1, <2>2, <1>2, Zenon DEF Span
  <2>3. CASE i = Len(s) + 1
    BY <2>1, <2>3, <1>4, Zenon
  <2>4. QED
    BY <1>1, <2>2, <2>3, Zenon
<1>6. ASSUME NEW x, x \in Span(s) PROVE x \in Span(s2)
  <2>1. PICK i \in DOMAIN s : x \in s[i][1] .. s[i][2]
    BY <1>6, Zenon DEF Span
  <2>2. i \in DOMAIN s2 /\ x \in s2[i][1] .. s2[i][2]
    BY <2>1, <1>1, <1>2, Zenon
  <2>3. QED
    BY <2>2, Zenon DEF Span
<1>7. ASSUME NEW x, x \in a .. b PROVE x \in Span(s2)
  <2>1. Len(s) + 1 \in DOMAIN s2
    BY <1>1
  <2>2. x \in s2[Len(s) + 1][1] .. s2[Len(s) + 1][2]
    BY <1>7, <1>4, Zenon
  <2>3. QED
    BY <2>1, <2>2, Zenon DEF Span
<1>8. Span(s2) = Span(s) \cup (a .. b)
  BY <1>5, <1>6, <1>7, Zenon
<1>9. QED
  BY <1>8 DEF s2

\* Every variable of the loop has its type.
THEOREM ChunkingTypeOK == Spec => []TypeOK
<1>1. Init => TypeOK
  BY ChunkingAssumption DEF Init, TypeOK
<1>2. TypeOK /\ [Next]_vars => TypeOK'
  <2> SUFFICES ASSUME TypeOK, [Next]_vars PROVE TypeOK'
    OBVIOUS
  <2>1. CASE Iterate
    <3>1. WindowEnd(chunk_start, window, end) \in Int
      BY <2>1, WindowEndBounds DEF TypeOK, Iterate
    <3>2. chunks' \in Seq(Int \X Int)
      BY <2>1, <3>1 DEF TypeOK, Iterate
    <3>3. chunk_start' \in Int /\ pc' \in {"while", "return"}
      BY <2>1, <3>1 DEF TypeOK, Iterate, NextWindow
    <3>4. QED
      BY <2>1, <3>2, <3>3 DEF TypeOK, Iterate
  <2>2. CASE Exit
    BY <2>2 DEF TypeOK, Exit
  <2>3. CASE UNCHANGED vars
    BY <2>3 DEF TypeOK, vars
  <2>4. QED
    BY <2>1, <2>2, <2>3 DEF Next, Returned
<1>3. QED
  BY <1>1, <1>2, PTL DEF Spec

\* What holds at the head of the loop: the windows made so far are the range up
\* to chunk_start.  When the loop is left, at the break or because the range is
\* empty, that is the whole range.
THEOREM ChunkingLoopInvariant == Spec => []LoopInvariant
<1>1. Init => LoopInvariant
  <2> SUFFICES ASSUME Init PROVE LoopInvariant
    OBVIOUS
  <2>1. start \in Int /\ end \in Int
    BY ChunkingAssumption DEF Init
  <2>2. Covered = {}
    BY DEF Init, Covered, Span
  <2>3. start .. chunk_start - 1 = {}
    BY <2>1 DEF Init
  <2>4. QED
    BY <2>1, <2>2, <2>3
    DEF Init, LoopInvariant, CoversRange, Disjoint, ProviderSafe
<1>2. LoopInvariant /\ TypeOK /\ [Next]_vars => LoopInvariant'
  <2> SUFFICES ASSUME LoopInvariant, TypeOK, [Next]_vars PROVE LoopInvariant'
    OBVIOUS
  <2>1. CASE Iterate
    <3> DEFINE ce == WindowEnd(chunk_start, window, end)
    <3>1. /\ start \in Int /\ end \in Int /\ chunk_start \in Int
          /\ window \in Nat /\ chunks \in Seq(Int \X Int)
          /\ pc = "while" /\ chunk_start <= end
          /\ UNCHANGED <<start, end, window>>
      BY <2>1 DEF TypeOK, Iterate
    <3>2. /\ ce \in Int /\ chunk_start <= ce /\ ce <= end
          /\ ce - chunk_start <= window
      BY <3>1, WindowEndBounds
    <3>3. /\ chunks' = Append(chunks, <<chunk_start, ce>>)
          /\ \/ /\ ce >= end /\ pc' = "return" /\ chunk_start' = chunk_start
             \/ /\ ~(ce >= end) /\ pc' = "while"
                /\ chunk_start' = ce + 1
      BY <2>1 DEF Iterate, NextWindow
    <3> HIDE DEF ce
    <3>4. Covered' = Covered \cup (chunk_start .. ce)
      BY <3>1, <3>2, <3>3, SpanAppend DEF Covered
    <3>5. start <= chunk_start
      BY DEF LoopInvariant
    <3>6. Covered' = start .. ce
      <4>1. Covered = start .. chunk_start - 1
        BY <3>1 DEF LoopInvariant
      <4>2. QED
        BY <3>1, <3>2, <3>4, <3>5, <4>1
    <3>7. /\ DOMAIN chunks' = DOMAIN chunks \cup {Len(chunks) + 1}
          /\ \A i \in DOMAIN chunks : chunks'[i] = chunks[i]
          /\ chunks'[Len(chunks) + 1] = <<chunk_start, ce>>
      BY <3>1, <3>2, <3>3
    <3>8. \A i \in DOMAIN chunks :
             /\ chunks[i][1] \in Int /\ chunks[i][2] \in Int
             /\ chunks[i][2] < chunk_start
      BY <3>1 DEF LoopInvariant
    <3>9. ProviderSafe'
      BY <3>1, <3>2, <3>7 DEF LoopInvariant, ProviderSafe
    <3>10. Disjoint'
      BY <3>1, <3>2, <3>7, <3>8 DEF LoopInvariant, Disjoint
    <3>11. CoversRange'
      BY <3>1, <3>2, <3>3, <3>6 DEF CoversRange
    <3>12. pc' = "while" => Covered' = start' .. chunk_start' - 1
      BY <3>1, <3>2, <3>3, <3>6
    <3>13. pc' = "while" => \A i \in DOMAIN chunks' : chunks'[i][2] < chunk_start'
      BY <3>1, <3>2, <3>3, <3>7, <3>8
    <3>14. start' <= chunk_start' /\ chunk_start' <= end' /\ start' <= end'
      BY <3>1, <3>2, <3>3, <3>5
    <3>15. QED
      BY <3>9, <3>10, <3>11, <3>12, <3>13, <3>14 DEF LoopInvariant
  <2>2. CASE Exit
    <3>1. /\ start \in Int /\ end \in Int /\ ~(start <= end)
          /\ chunk_start = start
      BY <2>2 DEF Exit, TypeOK, LoopInvariant
    <3>2. Covered = start .. end
      <4>1. Covered = start .. start - 1
        BY <2>2, <3>1 DEF Exit, LoopInvariant
      <4>2. QED
        BY <3>1, <4>1
    <3>3. /\ Covered' = Covered /\ pc' = "return"
          /\ UNCHANGED <<start, end, window, chunk_start, chunks>>
      BY <2>2 DEF Exit, Covered
    <3>4. Disjoint' /\ ProviderSafe'
      BY <3>3 DEF LoopInvariant, Disjoint, ProviderSafe
    <3>5. CoversRange'
      BY <3>2, <3>3 DEF CoversRange
    <3>6. QED
      BY <3>1, <3>3, <3>4, <3>5 DEF LoopInvariant
  <2>3. CASE UNCHANGED vars
    BY <2>3 DEF vars, LoopInvariant, CoversRange, Disjoint, ProviderSafe, Covered
  <2>4. QED
    BY <2>1, <2>2, <2>3 DEF Next, Returned
<1>3. QED
  BY <1>1, <1>2, ChunkingTypeOK, PTL DEF Spec

\* What a caller of chunk_date_range relies on, for every range and window.
THEOREM ChunkingCorrect == Spec => [](CoversRange /\ Disjoint /\ ProviderSafe)
BY ChunkingLoopInvariant, PTL DEF LoopInvariant
=============================================================================
