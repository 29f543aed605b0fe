---------------------------- MODULE CompareProofs ---------------------------
(***************************************************************************)
(* Proofs about Compare for answers of every length, every set of values   *)
(* and every max_report, and about LineSink, which stands before it, for   *)
(* texts and pieces of every length.                                       *)
(***************************************************************************)
EXTENDS Compare, LineSink, Lemmas

\* diffs lists the differing records read so far, in order.
ListsDiffering(s) ==
    /\ {s[k] : k \in 1..Len(s)} = Differing
    /\ \A k, l \in 1..Len(s) : k < l => s[k] < s[l]

\* While the comparison runs, every record read was there and was JSON, and
\* fewer than max_report differ.
Progress ==
    Running =>
        /\ \A i \in 1..n : i <= Len(candidate) /\ candidate[i].spelling # "not_json"
        /\ ListsDiffering(diffs)
        /\ Len(diffs) < MaxReport

IInv ==
    /\ TypeOK
    /\ n <= Len(expected)
    /\ Progress
    /\ VerdictExact
    /\ ReportsFirstDifferences
    /\ ReportsRightPosition

LEMMA BoundedSeqIsSeq ==
    ASSUME NEW S, NEW m \in Nat, NEW s \in BoundedSeq(S, m)
    PROVE  s \in Seq(S)
<1>1. PICK k \in 0..m : s \in [1..k -> S]
  BY DEF BoundedSeq, SeqOf
<1>2. k \in Nat
  OBVIOUS
<1>3. QED  BY <1>1, <1>2

LEMMA InitEstablishes == Init => IInv
<1> SUFFICES ASSUME Init PROVE IInv
  OBVIOUS
<1>1. expected \in Seq(Values) /\ candidate \in Seq(Line)
  BY BoundedSeqIsSeq, CompareAssumption DEF Init
<1>2. n = 0 /\ diffs = <<>> /\ result = Unfinished /\ Len(expected) \in Nat
  BY <1>1 DEF Init
<1>3. TypeOK
  BY <1>1, <1>2, EmptySeq DEF TypeOK, Unfinished, Result
<1>4. ListsDiffering(diffs) /\ Len(diffs) = 0
  BY <1>2 DEF ListsDiffering, Differing
<1>5. QED
  BY <1>2, <1>3, <1>4, CompareAssumption
     DEF IInv, Progress, VerdictExact, ReportsFirstDifferences, ReportsRightPosition,
         Running, Unfinished

\* Reading one record that is JSON: Differing grows by that record or not at all.
LEMMA DifferingStep ==
    ASSUME TypeOK, NextRecord
    PROVE  /\ n \in Nat
           /\ n' = n + 1
           /\ n' <= Len(expected)
           /\ expected' = expected
           /\ candidate' = candidate
           /\ \A i : i \in 1..n' <=> i \in 1..n \/ i = n'
           /\ Differing' = Differing \cup
                {i \in {n'} : i <= Len(candidate) /\ ~SameRecord(candidate[i], expected[i])}
<1>1. /\ n \in Nat /\ n' = n + 1 /\ n < Len(expected) /\ Len(expected) \in Nat
      /\ expected' = expected /\ candidate' = candidate
  BY DEF TypeOK, NextRecord
<1>2. \A i : i \in 1..n' <=> i \in 1..n \/ i = n'
  BY <1>1
<1>3. n' <= Len(expected)
  BY <1>1
<1>4. QED  BY <1>1, <1>2, <1>3 DEF Differing

LEMMA MissingPreserves ==
    ASSUME IInv, RecordMissing
    PROVE  IInv'
<1>1. TypeOK /\ NextRecord /\ Running /\ n' > Len(candidate)
  BY DEF IInv, RecordMissing, NextRecord
<1>2. /\ result' = Mismatch("candidate_output_truncated", n', <<>>)
      /\ diffs' = diffs
  BY DEF RecordMissing
<1>3. /\ n \in Nat /\ n' = n + 1 /\ n' <= Len(expected)
      /\ expected' = expected /\ candidate' = candidate
  BY <1>1, DifferingStep
<1>4. Len(candidate) \in Nat /\ Len(expected) \in Nat
  BY <1>1 DEF TypeOK
<1>5. Len(candidate) = n
  <2>1. n <= Len(candidate)
    <3>1. CASE n = 0
      BY <1>4, <3>1
    <3>2. CASE n # 0
      BY <1>1, <1>3, <3>2 DEF IInv, Progress
    <3>3. QED  BY <3>1, <3>2
  <2>2. QED  BY <1>1, <1>3, <1>4, <2>1
<1>6. TypeOK'
  BY <1>1, <1>2, <1>3, EmptySeq DEF TypeOK, Mismatch, Result
<1>7. ~Running' /\ result'.ok = FALSE /\ result'.kind = "candidate_output_truncated" /\ result'.at = n'
  BY <1>2 DEF Running, Unfinished, Mismatch
<1>8. ~CorrectAnswer'
  BY <1>3, <1>4, <1>5 DEF CorrectAnswer
<1>9. VerdictExact'
  BY <1>7, <1>8 DEF VerdictExact
<1>10. Progress' /\ ReportsFirstDifferences' /\ ReportsRightPosition'
  BY <1>3, <1>5, <1>7 DEF Progress, ReportsFirstDifferences, ReportsRightPosition
<1>11. QED  BY <1>3, <1>6, <1>9, <1>10 DEF IInv

LEMMA NotJsonPreserves ==
    ASSUME IInv, RecordNotJson
    PROVE  IInv'
<1>1. /\ TypeOK /\ NextRecord /\ Running /\ n' <= Len(candidate)
      /\ candidate[n'].spelling = "not_json"
  BY DEF IInv, RecordNotJson, NextRecord
<1>2. /\ result' = Mismatch("candidate_record_not_json", n', <<>>)
      /\ diffs' = diffs
  BY DEF RecordNotJson
<1>3. /\ n \in Nat /\ n' = n + 1 /\ n' <= Len(expected)
      /\ expected' = expected /\ candidate' = candidate
  BY <1>1, DifferingStep
<1>4. TypeOK'
  BY <1>1, <1>2, <1>3, EmptySeq DEF TypeOK, Mismatch, Result
<1>5. ~Running' /\ result'.ok = FALSE /\ result'.kind = "candidate_record_not_json" /\ result'.at = n'
  BY <1>2 DEF Running, Unfinished, Mismatch
<1>6. ~CorrectAnswer'
  <2>1. n' \in 1..Len(expected) /\ ~SameRecord(candidate[n'], expected[n'])
    BY <1>1, <1>3 DEF SameRecord, TypeOK
  <2>2. QED  BY <1>3, <2>1 DEF CorrectAnswer
<1>7. VerdictExact'
  BY <1>5, <1>6 DEF VerdictExact
<1>8. \A i \in 1..(n' - 1) : candidate[i].spelling # "not_json"
  BY <1>1, <1>3 DEF IInv, Progress
<1>9. Progress' /\ ReportsFirstDifferences' /\ ReportsRightPosition'
  BY <1>1, <1>3, <1>5, <1>8 DEF Progress, ReportsFirstDifferences, ReportsRightPosition
<1>10. QED  BY <1>3, <1>4, <1>7, <1>9 DEF IInv

LEMMA EqualPreserves ==
    ASSUME IInv, RecordEqual
    PROVE  IInv'
<1>1. /\ TypeOK /\ NextRecord /\ Running /\ n' <= Len(candidate)
      /\ SameRecord(candidate[n'], expected[n'])
      /\ diffs' = diffs /\ result' = result
  BY DEF IInv, RecordEqual, NextRecord
<1>2. /\ n \in Nat /\ n' = n + 1 /\ n' <= Len(expected)
      /\ expected' = expected /\ candidate' = candidate
      /\ \A i : i \in 1..n' <=> i \in 1..n \/ i = n'
      /\ Differing' = Differing
  BY <1>1, DifferingStep
<1>3. TypeOK'
  BY <1>1, <1>2 DEF TypeOK
<1>4. Running' /\ result'.kind = "none"
  BY <1>1 DEF Running, Unfinished
<1>5. Progress'
  <2>1. \A i \in 1..n' : i <= Len(candidate) /\ candidate[i].spelling # "not_json"
    BY <1>1, <1>2 DEF IInv, Progress, SameRecord
  <2>2. QED  BY <1>1, <1>2, <2>1 DEF IInv, Progress, ListsDiffering
<1>6. VerdictExact' /\ ReportsFirstDifferences' /\ ReportsRightPosition'
  BY <1>4 DEF VerdictExact, ReportsFirstDifferences, ReportsRightPosition
<1>7. QED  BY <1>2, <1>3, <1>5, <1>6 DEF IInv

LEMMA DiffersPreserves ==
    ASSUME IInv, RecordDiffers
    PROVE  IInv'
<1>1. /\ TypeOK /\ NextRecord /\ Running /\ n' <= Len(candidate)
      /\ candidate[n'].spelling # "not_json"
      /\ ~SameRecord(candidate[n'], expected[n'])
      /\ diffs' = Append(diffs, n')
  BY DEF IInv, RecordDiffers, NextRecord
<1>2. /\ n \in Nat /\ n' = n + 1 /\ n' \in Nat /\ n' <= Len(expected)
      /\ expected' = expected /\ candidate' = candidate
      /\ \A i : i \in 1..n' <=> i \in 1..n \/ i = n'
      /\ Differing' = Differing \cup {n'}
  BY <1>1, DifferingStep
<1>3. /\ diffs \in Seq(Nat) /\ Len(diffs) \in Nat
      /\ ListsDiffering(diffs) /\ Len(diffs) < MaxReport
      /\ \A i \in 1..n : i <= Len(candidate) /\ candidate[i].spelling # "not_json"
  BY <1>1 DEF IInv, TypeOK, Progress
<1>4. /\ diffs' \in Seq(Nat)
      /\ Len(diffs') = Len(diffs) + 1
      /\ \A k \in 1..Len(diffs) : diffs'[k] = diffs[k]
      /\ diffs'[Len(diffs) + 1] = n'
  BY <1>1, <1>2, <1>3, AppendProperties
<1>5. \A k : k \in 1..Len(diffs') <=> k \in 1..Len(diffs) \/ k = Len(diffs) + 1
  BY <1>3, <1>4
<1>6. ListsDiffering(diffs)'
  <2>1. {diffs'[k] : k \in 1..Len(diffs')} = Differing'
    BY <1>2, <1>3, <1>4, <1>5 DEF ListsDiffering
  <2>2. \A k \in 1..Len(diffs) : diffs[k] < n'
    <3>1. \A k \in 1..Len(diffs) : diffs[k] \in 1..n
      BY <1>3 DEF ListsDiffering, Differing
    <3>2. QED  BY <1>2, <3>1
  <2>3. \A k, l \in 1..Len(diffs') : k < l => diffs'[k] < diffs'[l]
    <3> SUFFICES ASSUME NEW k \in 1..Len(diffs'), NEW l \in 1..Len(diffs'), k < l
                 PROVE  diffs'[k] < diffs'[l]
      OBVIOUS
    <3>1. k \in 1..Len(diffs)
      BY <1>3, <1>4
    <3>2. CASE l \in 1..Len(diffs)
      BY <1>3, <1>4, <3>1, <3>2 DEF ListsDiffering
    <3>3. CASE l = Len(diffs) + 1
      BY <1>4, <2>2, <3>1, <3>3
    <3>4. QED  BY <1>5, <3>2, <3>3
  <2>4. QED  BY <2>1, <2>3 DEF ListsDiffering
<1>7. CASE Len(diffs') >= MaxReport
  <2>1. result' = Mismatch("records_differ", 0, diffs')
    BY <1>7 DEF RecordDiffers
  <2>2. Len(diffs') = MaxReport /\ diffs' # <<>>
    BY <1>3, <1>4, <1>7, CompareAssumption
  <2>3. /\ ~Running' /\ result'.ok = FALSE
        /\ result'.kind = "records_differ" /\ result'.first = diffs'
    BY <2>1 DEF Running, Unfinished, Mismatch
  <2>4. TypeOK'
    BY <1>1, <1>2, <1>4, <2>1 DEF TypeOK, Mismatch, Result
  <2>5. VerdictExact'
    <3>1. n' \in 1..Len(expected)
      BY <1>1, <1>2 DEF TypeOK
    <3>2. ~CorrectAnswer'
      BY <1>1, <1>2, <3>1 DEF CorrectAnswer
    <3>3. QED  BY <2>3, <3>2 DEF VerdictExact
  <2>6. ReportsFirstDifferences'
    BY <1>6, <2>2, <2>3, CompareAssumption DEF ReportsFirstDifferences, ListsDiffering
  <2>7. QED  BY <1>2, <2>3, <2>4, <2>5, <2>6 DEF IInv, Progress, ReportsRightPosition
<1>8. CASE ~(Len(diffs') >= MaxReport)
  <2>1. result' = result /\ Running' /\ result'.kind = "none"
    BY <1>1, <1>8 DEF RecordDiffers, Running, Unfinished
  <2>2. TypeOK'
    BY <1>1, <1>2, <1>4, <2>1 DEF TypeOK
  <2>3. Len(diffs') < MaxReport
    BY <1>3, <1>4, <1>8, CompareAssumption
  <2>4. Progress'
    BY <1>1, <1>2, <1>3, <1>6, <2>3 DEF Progress
  <2>5. QED
    BY <1>2, <2>1, <2>2, <2>4
       DEF IInv, VerdictExact, ReportsFirstDifferences, ReportsRightPosition
<1>9. QED  BY <1>7, <1>8

LEMMA EndPreserves ==
    ASSUME IInv, End
    PROVE  IInv'
<1>1. /\ TypeOK /\ Running /\ n = Len(expected)
      /\ expected' = expected /\ candidate' = candidate /\ n' = n /\ diffs' = diffs
  BY DEF IInv, End
<1>2. /\ n \in Nat /\ Len(candidate) \in Nat /\ diffs \in Seq(Nat) /\ Len(diffs) \in Nat
      /\ ListsDiffering(diffs) /\ Len(diffs) < MaxReport /\ MaxReport \in Nat
      /\ \A i \in 1..n : i <= Len(candidate) /\ candidate[i].spelling # "not_json"
  BY <1>1, CompareAssumption DEF IInv, TypeOK, Progress
<1>3. n <= Len(candidate)
  <2>1. CASE n = 0
    BY <1>2, <2>1
  <2>2. CASE n # 0
    BY <1>2, <2>2
  <2>3. QED  BY <2>1, <2>2
<1>4. Differing' = Differing
  BY <1>1 DEF Differing
<1>5. CASE diffs # <<>>
  <2>1. result' = Mismatch("records_differ", 0, diffs)
    BY <1>5 DEF End
  <2>2. /\ ~Running' /\ result'.ok = FALSE
        /\ result'.kind = "records_differ" /\ result'.first = diffs
    BY <2>1 DEF Running, Unfinished, Mismatch
  <2>3. TypeOK'
    BY <1>1, <1>2, <2>1 DEF TypeOK, Mismatch, Result
  <2>4. ~CorrectAnswer'
    <3>1. Len(diffs) # 0
      BY <1>2, <1>5
    <3>2. diffs[1] \in Differing
      BY <1>2, <3>1 DEF ListsDiffering
    <3>3. QED  BY <1>1, <3>2 DEF Differing, CorrectAnswer
  <2>5. ReportsFirstDifferences'
    BY <1>2, <1>4, <1>5, <2>2 DEF ReportsFirstDifferences, ListsDiffering
  <2>6. QED
    BY <1>1, <2>2, <2>3, <2>4, <2>5 DEF IInv, Progress, VerdictExact, ReportsRightPosition
<1>6. ASSUME diffs = <<>>
      PROVE  \A i \in 1..Len(expected) : SameRecord(candidate[i], expected[i])
  <2>1. Len(diffs) = 0
    BY <1>6
  <2>2. Differing = {}
    BY <1>2, <2>1 DEF ListsDiffering
  <2>3. QED  BY <1>1, <1>2, <2>2 DEF Differing
<1>7. CASE diffs = <<>> /\ Len(candidate) > n
  <2>1. result' = Mismatch("candidate_emitted_extra_records", n, <<>>)
    BY <1>7 DEF End
  <2>2. ~Running' /\ result'.ok = FALSE /\ result'.kind = "candidate_emitted_extra_records"
    BY <2>1 DEF Running, Unfinished, Mismatch
  <2>3. TypeOK'
    BY <1>1, <1>2, <2>1, EmptySeq DEF TypeOK, Mismatch, Result
  <2>4. ~CorrectAnswer'
    BY <1>1, <1>2, <1>7 DEF CorrectAnswer
  <2>5. QED
    BY <1>1, <1>6, <1>7, <2>2, <2>3, <2>4
       DEF IInv, Progress, VerdictExact, ReportsFirstDifferences, ReportsRightPosition
<1>8. CASE diffs = <<>> /\ ~(Len(candidate) > n)
  <2>1. result' = Match
    BY <1>8 DEF End
  <2>2. ~Running' /\ result'.ok = TRUE /\ result'.kind = "ok"
    BY <2>1 DEF Running, Unfinished, Match
  <2>3. TypeOK'
    BY <1>1, <2>1, EmptySeq DEF TypeOK, Match, Result
  <2>4. CorrectAnswer'
    BY <1>1, <1>2, <1>3, <1>6, <1>8 DEF CorrectAnswer
  <2>5. QED
    BY <1>1, <2>2, <2>3, <2>4
       DEF IInv, Progress, VerdictExact, ReportsFirstDifferences, ReportsRightPosition
<1>9. QED  BY <1>5, <1>7, <1>8

THEOREM Invariance == Spec => []IInv
<1>1. IInv /\ [Next]_vars => IInv'
  <2> SUFFICES ASSUME IInv, [Next]_vars
               PROVE  IInv'
    OBVIOUS
  <2>1. CASE RecordMissing
    BY <2>1, MissingPreserves
  <2>2. CASE RecordEqual
    BY <2>2, EqualPreserves
  <2>3. CASE RecordNotJson
    BY <2>3, NotJsonPreserves
  <2>4. CASE RecordDiffers
    BY <2>4, DiffersPreserves
  <2>5. CASE End
    BY <2>5, EndPreserves
  <2>6. CASE UNCHANGED vars
    BY <2>6 DEF vars, IInv, TypeOK, Progress, ListsDiffering, Differing, Running,
                VerdictExact, CorrectAnswer, ReportsFirstDifferences, ReportsRightPosition
  <2>7. QED  BY <2>1, <2>2, <2>3, <2>4, <2>5, <2>6 DEF Next, Returned
<1>2. QED  BY InitEstablishes, <1>1, PTL DEF Spec

\* A candidate passes the comparison exactly when its output is the reference
\* answer, record by record and to the last record.
THEOREM ComparisonIsExact == Spec => []VerdictExact
<1>1. IInv => VerdictExact
  BY DEF IInv
<1>2. QED  BY <1>1, Invariance, PTL

\* What a report of differences holds.
THEOREM DifferencesAreTheFirst == Spec => []ReportsFirstDifferences
<1>1. IInv => ReportsFirstDifferences
  BY DEF IInv
<1>2. QED  BY <1>1, Invariance, PTL

\* Where truncation, garbage and extra records are reported.
THEOREM PositionsAreRight == Spec => []ReportsRightPosition
<1>1. IInv => ReportsRightPosition
  BY DEF IInv
<1>2. QED  BY <1>1, Invariance, PTL

\* Type correctness.
THEOREM TypeCorrect == Spec => []TypeOK
<1>1. IInv => TypeOK
  BY DEF IInv
<1>2. QED  BY <1>1, Invariance, PTL

-----------------------------------------------------------------------------
(* The line sink *)

\* A function on 1..m is a list of m values.
LEMMA FunctionIsSeq ==
    ASSUME NEW T, NEW m \in Nat, NEW f \in [1..m -> T]
    PROVE  f \in Seq(T) /\ Len(f) = m
OBVIOUS

\* f flattens the first m of q, up to each of them.
Flattens(f, q, m) ==
    f = [i \in 1..m |-> IF i = 1 THEN q[i] ELSE f[i - 1] \o q[i]]

\* The recursion FlattenSeq is written with has a solution, whatever the length.
LEMMA FlattensExist ==
    ASSUME NEW q, NEW m \in Nat
    PROVE  \E f : Flattens(f, q, m)
<1> DEFINE T == {x \in Nat : ~\E f : Flattens(f, q, x)}
<1>1. SUFFICES ASSUME T # {}
               PROVE  FALSE
  OBVIOUS
<1>2. PICK x \in T : \A y \in T : x <= y
  BY <1>1, Least
<1>3. CASE x = 0
  <2> DEFINE f == [i \in 1..0 |-> q[i]]
  <2>1. f = [i \in 1..0 |-> IF i = 1 THEN q[i] ELSE f[i - 1] \o q[i]]
    OBVIOUS
  <2>2. Flattens(f, q, 0)
    <3> HIDE DEF f
    <3> QED  BY <2>1 DEF Flattens
  <2>3. QED  BY <1>3, <2>2
<1>4. CASE x # 0
  <2>1. x \in Nat /\ x - 1 \in Nat /\ x - 1 \notin T
    BY <1>2, <1>4
  <2>2. PICK g : Flattens(g, q, x - 1)
    BY <2>1
  <2>3. \A i \in 1..(x - 1) : g[i] = IF i = 1 THEN q[i] ELSE g[i - 1] \o q[i]
    BY <2>2 DEF Flattens
  <2> DEFINE top == IF x = 1 THEN q[x] ELSE g[x - 1] \o q[x]
             f == [i \in 1..x |-> IF i = x THEN top ELSE g[i]]
  <2>4. ASSUME NEW i \in 1..x
        PROVE  f[i] = IF i = 1 THEN q[i] ELSE f[i - 1] \o q[i]
    <3>1. i # 1 => i - 1 \in 1..x /\ i - 1 # x
      BY <2>1
    <3>2. i # 1 => f[i - 1] = g[i - 1]
      BY <3>1
    <3>3. f[i] = IF i = x THEN top ELSE g[i]
      OBVIOUS
    <3>4. i # x => i \in 1..(x - 1)
      BY <2>1
    <3>5. top = IF x = 1 THEN q[x] ELSE g[x - 1] \o q[x]
      OBVIOUS
    <3> HIDE DEF f, top
    <3>6. QED  BY <2>3, <3>2, <3>3, <3>4, <3>5
  <2>5. f = [i \in 1..x |-> f[i]]
    OBVIOUS
  <2>6. Flattens(f, q, x)
    <3> HIDE DEF f
    <3> QED  BY <2>4, <2>5 DEF Flattens
  <2>7. QED  BY <1>2, <2>6
<1>5. QED  BY <1>3, <1>4

\* FlattenSeq is that solution.
LEMMA FlattenIs ==
    ASSUME NEW q, Len(q) \in Nat \ {0}
    PROVE  \E f : Flattens(f, q, Len(q)) /\ FlattenSeq(q) = f[Len(q)]
<1> DEFINE g == CHOOSE f : f = [i \in 1..Len(q) |-> IF i = 1 THEN q[i] ELSE f[i - 1] \o q[i]]
<1>1. FlattenSeq(q) = g[Len(q)]
  BY DEF FlattenSeq
<1>2. PICK f : Flattens(f, q, Len(q))
  BY FlattensExist
<1>3. Flattens(g, q, Len(q))
  BY <1>2 DEF Flattens
<1>4. QED
  <2> HIDE DEF g
  <2> QED  BY <1>1, <1>3

\* Two of them agree where they flatten the same.
LEMMA FlattensAgree ==
    ASSUME NEW m \in Nat, NEW f, NEW q, Flattens(f, q, m),
           NEW g, NEW r, NEW m2 \in Nat, Flattens(g, r, m2),
           m <= m2, \A i \in 1..m : q[i] = r[i]
    PROVE  \A i \in 1..m : f[i] = g[i]
<1> DEFINE T == {i \in 1..m : f[i] # g[i]}
<1>1. SUFFICES ASSUME T # {}
               PROVE  FALSE
  OBVIOUS
<1>2. PICK x \in T : \A y \in T : x <= y
  <2>1. T \in SUBSET Nat
    OBVIOUS
  <2>2. QED
    <3> HIDE DEF T
    <3> QED  BY <1>1, <2>1, Least
<1>3. x \in 1..m /\ x \in 1..m2 /\ f[x] # g[x]
  BY <1>2
<1>4. /\ f[x] = IF x = 1 THEN q[x] ELSE f[x - 1] \o q[x]
      /\ g[x] = IF x = 1 THEN r[x] ELSE g[x - 1] \o r[x]
  BY <1>3 DEF Flattens
<1>5. x # 1
  BY <1>3, <1>4
<1>6. x - 1 \in 1..m
  BY <1>3, <1>5
<1>7. f[x - 1] = g[x - 1]
  BY <1>2, <1>6
<1>8. QED  BY <1>3, <1>4, <1>5, <1>7

\* Lists of T flatten to a list of T.
LEMMA FlattensType ==
    ASSUME NEW T, NEW q \in Seq(Seq(T)), NEW f, Flattens(f, q, Len(q))
    PROVE  \A i \in 1..Len(q) : f[i] \in Seq(T)
<1> DEFINE B == {i \in 1..Len(q) : f[i] \notin Seq(T)}
<1>1. SUFFICES ASSUME B # {}
               PROVE  FALSE
  OBVIOUS
<1>2. PICK x \in B : \A y \in B : x <= y
  <2>1. B \in SUBSET Nat
    OBVIOUS
  <2>2. QED
    <3> HIDE DEF B
    <3> QED  BY <1>1, <2>1, Least
<1>3. x \in 1..Len(q) /\ f[x] \notin Seq(T) /\ q[x] \in Seq(T)
  BY <1>2
<1>4. f[x] = IF x = 1 THEN q[x] ELSE f[x - 1] \o q[x]
  BY <1>3 DEF Flattens
<1>5. x # 1 /\ x - 1 \in 1..Len(q)
  BY <1>3, <1>4
<1>6. f[x - 1] \in Seq(T)
  BY <1>2, <1>5
<1>7. f[x - 1] \o q[x] \in Seq(T)
  BY <1>3, <1>6, ConcatProperties
<1>8. QED  BY <1>3, <1>4, <1>5, <1>7

\* One more list is put at the end.
LEMMA FlattenAppend ==
    ASSUME NEW T, NEW q \in Seq(Seq(T)), NEW e \in Seq(T)
    PROVE  /\ FlattenSeq(q) \in Seq(T)
           /\ FlattenSeq(Append(q, e)) = FlattenSeq(q) \o e
<1> DEFINE r == Append(q, e)
           m == Len(q)
<1>1. /\ r \in Seq(Seq(T)) /\ m \in Nat /\ Len(r) = m + 1 /\ r[m + 1] = e
      /\ \A i \in 1..m : r[i] = q[i]
  BY AppendProperties
<1> HIDE DEF r
<1>2. PICK g : Flattens(g, r, m + 1) /\ FlattenSeq(r) = g[m + 1]
  <2>1. Len(r) \in Nat \ {0}
    BY <1>1
  <2>2. QED  BY <1>1, <2>1, FlattenIs
<1>3. g[m + 1] = IF m + 1 = 1 THEN r[m + 1] ELSE g[m + 1 - 1] \o r[m + 1]
  <2>1. m + 1 \in 1..(m + 1)
    BY <1>1
  <2>2. \A i \in 1..(m + 1) : g[i] = IF i = 1 THEN r[i] ELSE g[i - 1] \o r[i]
    BY <1>2 DEF Flattens
  <2> HIDE DEF m
  <2>3. m \in Nat
    BY <1>1
  <2>4. QED  BY <2>1, <2>2, <2>3
<1>4. CASE m = 0
  <2>1. q = <<>>
    BY <1>4
  <2>2. FlattenSeq(q) = <<>>
    BY <2>1, EmptySeq DEF FlattenSeq
  <2>3. FlattenSeq(r) = e
    BY <1>1, <1>2, <1>3, <1>4
  <2>4. <<>> \o e = e /\ <<>> \in Seq(T)
    BY ConcatEmptySeq, EmptySeq
  <2>5. QED  BY <2>2, <2>3, <2>4 DEF r
<1>5. CASE m # 0
  <2>1. PICK f : Flattens(f, q, m) /\ FlattenSeq(q) = f[m]
    BY <1>1, <1>5, FlattenIs
  <2>2. \A i \in 1..m : f[i] = g[i]
    <3> HIDE DEF m
    <3>1. m \in Nat /\ m + 1 \in Nat /\ m <= m + 1 /\ \A i \in 1..m : q[i] = r[i]
      BY <1>1
    <3>2. Flattens(f, q, m) /\ Flattens(g, r, m + 1)
      BY <1>2, <2>1
    <3>3. QED  BY ONLY <3>1, <3>2, FlattensAgree
  <2>3. m \in 1..m /\ m + 1 - 1 = m /\ m + 1 # 1
    BY <1>1, <1>5
  <2>4. f[m] \in Seq(T)
    BY <2>1, <2>3, FlattensType
  <2> HIDE DEF m
  <2>5. g[m + 1] = f[m] \o e
    BY <1>1, <1>3, <2>2, <2>3
  <2>6. QED  BY <1>2, <2>1, <2>4, <2>5 DEF r
<1>6. QED  BY <1>4, <1>5

\* q is the numbers of C, in order, from a to b.
Climbs(q, C, a, b) ==
    /\ q = [k \in 1..Len(q) |-> q[k]] /\ Len(q) \in Nat /\ Len(q) >= 2
    /\ \A k \in 1..Len(q) : q[k] \in C
    /\ \A j, k \in 1..Len(q) : j < k <=> q[j] < q[k]
    /\ \A c \in C : \E k \in 1..Len(q) : q[k] = c
    /\ q[1] = a /\ q[Len(q)] = b

\* A text is cut before its first character, at its newlines and after its last.
LEMMA CutsClimb ==
    ASSUME NEW T, NEW text \in Seq(T)
    PROVE  Climbs(Cuts(text), CutsOf(text), 0, Len(text) + 1)
<1> DEFINE C == CutsOf(text)
           N == Cardinality(C)
           under(c) == {d \in C : d < c}
           before == {p \in C \X C : p[1] < p[2]}
           q == InOrder(C, before)
           cut == Cuts(text)
<1>1. /\ Len(text) \in Nat /\ C \subseteq 0..(Len(text) + 1)
      /\ 0 \in C /\ Len(text) + 1 \in C
      /\ \A c \in C : c \in Int
  BY DEF CutsOf
<1>2. IsFiniteSet(C)
  <2>1. IsFiniteSet(0..(Len(text) + 1))
    BY <1>1, FS_Interval
  <2> HIDE DEF C
  <2>2. QED  BY <1>1, <2>1, FS_Subset
<1>3. \A c, d \in C : <<c, d>> \in before <=> c < d
  OBVIOUS
<1>4. \A c \in C : {d \in C : <<d, c>> \in before} = under(c)
  <2> HIDE DEF C, before
  <2> QED  BY <1>3
<1>5. cut = [k \in 1..N |-> CHOOSE c \in C : Cardinality(under(c)) = k - 1]
  BY DEF Cuts
<1>6. Orders(C, before)
  <2> HIDE DEF C, before
  <2> QED  BY <1>1, <1>3 DEF Orders
<1>7. /\ N \in Nat
      /\ \A c \in C : \E k \in 1..N : q[k] = c
      /\ \A k \in 1..N : q[k] \in C
      /\ \A k \in 1..N : Cardinality({d \in C : <<d, q[k]>> \in before}) = k - 1
  <2> HIDE DEF C, before
  <2> QED  BY <1>2, <1>6, InOrderPlaces
<1>8. \A k \in 1..N : Cardinality(under(q[k])) = k - 1
  <2> HIDE DEF C, before, q, under, N
  <2> QED  BY <1>4, <1>7
<1>9. ASSUME NEW k \in 1..N
      PROVE  cut[k] = q[k]
  <2>1. cut[k] = CHOOSE c \in C : Cardinality(under(c)) = k - 1
    <3> HIDE DEF C, N, under, cut
    <3> QED  BY <1>5
  <2>2. \A c \in C : Cardinality(under(c)) = k - 1 <=> c = q[k]
    <3> SUFFICES ASSUME NEW c \in C, Cardinality(under(c)) = k - 1
                 PROVE  c = q[k]
      <4> HIDE DEF C, before, q, under, N
      <4> QED  BY <1>7, <1>8
    <3> HIDE DEF C, before, q, under, N
    <3>1. PICK j \in 1..N : q[j] = c
      BY <1>7
    <3>2. j - 1 = k - 1
      BY <1>8, <3>1
    <3>3. j = k
      BY <1>7, <3>2
    <3>4. QED  BY <3>1, <3>3
  <2> HIDE DEF C, q, under, N, cut
  <2>3. q[k] \in C
    BY <1>7
  <2>4. QED  BY <2>1, <2>2, <2>3
<1>10. ASSUME NEW j \in 1..N, NEW k \in 1..N, q[j] <= q[k]
       PROVE  j <= k
  <2> HIDE DEF C, before, q, N
  <2>1. q[j] \in Int /\ q[k] \in Int
    BY <1>1, <1>7
  <2>2. under(q[j]) \subseteq under(q[k])
    <3>1. \A c, x, y \in Int : c < x /\ x <= y => c < y
      OBVIOUS
    <3>2. \A c \in C : c < q[j] => c < q[k]
      BY <1>1, <1>10, <2>1, <3>1
    <3>3. QED  BY <3>2
  <2>3. IsFiniteSet(under(q[k]))
    BY <1>2, FS_Subset
  <2>4. Cardinality(under(q[j])) <= Cardinality(under(q[k]))
    <3> HIDE DEF under
    <3> QED  BY <2>2, <2>3, FS_Subset
  <2> HIDE DEF under
  <2>5. j - 1 <= k - 1
    BY <1>8, <2>4
  <2>6. QED  BY <1>7, <2>5
<1> HIDE DEF C, before, q, N, under
<1>11. \A j, k \in 1..N : j < k <=> cut[j] < cut[k]
  <2> SUFFICES ASSUME NEW j \in 1..N, NEW k \in 1..N
               PROVE  j < k <=> q[j] < q[k]
    <3> HIDE DEF cut
    <3> QED  BY <1>9
  <2>1. q[j] \in Int /\ q[k] \in Int
    BY <1>1, <1>7
  <2>2. q[j] <= q[k] => j <= k
    BY <1>10
  <2>3. q[k] <= q[j] => k <= j
    BY <1>10
  <2>4. q[j] = q[k] => j = k
    BY <1>7, <2>2, <2>3, <2>1
  <2>5. QED  BY <1>7, <2>1, <2>2, <2>3, <2>4
<1>12. cut = [k \in 1..N |-> cut[k]]
  <2> DEFINE pick(k) == CHOOSE c \in C : Cardinality(under(c)) = k - 1
  <2>1. cut = [k \in 1..N |-> pick(k)]
    BY <1>5
  <2> HIDE DEF pick, cut
  <2>2. QED  BY <2>1
<1> HIDE DEF cut
<1>13. \A k \in 1..N : cut[k] \in C
  BY <1>7, <1>9
<1>14. \A c \in C : \E k \in 1..N : cut[k] = c
  BY <1>7, <1>9
<1>15. Len(cut) = N
  <2>1. cut \in [1..N -> C]
    BY <1>12, <1>13
  <2>2. QED  BY <1>7, <2>1
<1>16. PICK j \in 1..N : cut[j] = 0
  BY <1>1, <1>14
<1>17. PICK k \in 1..N : cut[k] = Len(text) + 1
  BY <1>1, <1>14
<1>18. j = 1
  <2>1. 1 \in 1..N /\ ~(1 < j) => j = 1
    BY <1>7
  <2>2. 1 \in 1..N
    BY <1>7
  <2>3. cut[1] \in 0..(Len(text) + 1)
    BY <1>1, <1>13, <2>2
  <2>4. ~(cut[1] < cut[j])
    BY <1>16, <2>3
  <2>5. QED  BY <1>11, <2>1, <2>2, <2>4
<1>19. k = N
  <2>1. N \in 1..N /\ (~(k < N) => k = N)
    BY <1>7
  <2>2. cut[N] \in 0..(Len(text) + 1)
    BY <1>1, <1>13, <2>1
  <2>3. ~(cut[k] < cut[N])
    BY <1>1, <1>17, <2>2
  <2>4. QED  BY <1>11, <2>1, <2>3
<1>20. j < k
  BY <1>1, <1>11, <1>16, <1>17
<1>21. N >= 2
  BY <1>7, <1>18, <1>19, <1>20
<1>22. QED
  BY <1>7, <1>11, <1>12, <1>13, <1>14, <1>15, <1>16, <1>17, <1>18, <1>19, <1>21
     DEF Climbs, C, cut

\* The lines with their newlines, and as one text.
Ended(ls) == [k \in 1..Len(ls) |-> Append(ls[k], NL)]
OneText(ls) == FlattenSeq(Ended(ls))

\* One more line is put at the end, with its newline.
LEMMA OneTextAppend ==
    ASSUME NEW ls \in Seq(Seq(Chars)), NEW x \in Seq(Chars)
    PROVE  /\ OneText(ls) \in Text
           /\ Append(x, NL) \in Text
           /\ OneText(Append(ls, x)) = OneText(ls) \o Append(x, NL)
<1> DEFINE C == Chars \cup {NL}
           m == Len(ls)
<1>1. \A y \in Seq(Chars) : Append(y, NL) \in Seq(C)
  <2> SUFFICES ASSUME NEW y \in Seq(Chars)
               PROVE  Append(y, NL) \in Seq(C)
    OBVIOUS
  <2>1. y \in Seq(C) /\ NL \in C
    BY SeqMonotonic
  <2> HIDE DEF C
  <2>2. QED  BY <2>1, AppendProperties
<1>2. Text = Seq(C)
  BY DEF Text
<1> HIDE DEF C
<1>3. \A q \in Seq(Seq(Chars)) : /\ Ended(q) \in Seq(Seq(C)) /\ Len(Ended(q)) = Len(q)
                                 /\ \A k \in 1..Len(q) : Ended(q)[k] = Append(q[k], NL)
  <2> TAKE q \in Seq(Seq(Chars))
  <2>1. \A k \in 1..Len(q) : q[k] \in Seq(Chars)
    BY ElementOfSeq
  <2>2. Ended(q) \in [1..Len(q) -> Seq(C)]
    BY <1>1, <2>1 DEF Ended
  <2>3. \A k \in 1..Len(q) : Ended(q)[k] = Append(q[k], NL)
    BY DEF Ended
  <2>4. Ended(q) \in Seq(Seq(C)) /\ Len(Ended(q)) = Len(q)
    <3>1. PICK f : f = Ended(q)
      OBVIOUS
    <3>2. f \in [1..Len(q) -> Seq(C)] /\ Len(q) \in Nat
      BY <2>2, <3>1
    <3>3. f \in Seq(Seq(C)) /\ Len(f) = Len(q)
      BY ONLY <3>2, FunctionIsSeq
    <3>4. QED  BY <3>1, <3>3
  <2>5. QED  BY <2>3, <2>4
<1>4. /\ Append(ls, x) \in Seq(Seq(Chars)) /\ Len(Append(ls, x)) = m + 1 /\ m \in Nat
      /\ Append(ls, x)[m + 1] = x /\ \A k \in 1..m : Append(ls, x)[k] = ls[k]
  BY AppendProperties
<1> DEFINE q == Append(ls, x)
           r == Append(Ended(ls), Append(x, NL))
<1>5. /\ r \in Seq(Seq(C)) /\ Len(r) = m + 1 /\ r[m + 1] = Append(x, NL)
      /\ \A k \in 1..m : r[k] = Ended(ls)[k]
  <2>1. Ended(ls) \in Seq(Seq(C)) /\ Append(x, NL) \in Seq(C) /\ Len(Ended(ls)) = m
    BY <1>1, <1>3
  <2> HIDE DEF m
  <2>2. QED  BY <2>1, AppendProperties
<1>6. Ended(q) = r
  <2>1. /\ q \in Seq(Seq(Chars)) /\ Len(q) = m + 1 /\ q[m + 1] = x
        /\ \A k \in 1..m : q[k] = ls[k]
    BY <1>4
  <2> HIDE DEF q, r
  <2>2. /\ Ended(q) \in Seq(Seq(C)) /\ Len(Ended(q)) = m + 1
        /\ \A k \in 1..(m + 1) : Ended(q)[k] = Append(q[k], NL)
    BY <1>3, <2>1
  <2>3. \A k \in 1..m : Ended(ls)[k] = Append(ls[k], NL)
    BY <1>3
  <2>4. \A k \in 1..(m + 1) : Ended(q)[k] = r[k]
    <3> HIDE DEF m
    <3> TAKE k \in 1..(m + 1)
    <3>1. CASE k = m + 1
      BY <1>5, <2>1, <2>2, <3>1
    <3>2. CASE k # m + 1
      <4>1. k \in 1..m
        BY <1>4, <3>2
      <4>2. QED  BY <1>5, <2>1, <2>2, <2>3, <4>1
    <3>3. QED  BY <3>1, <3>2
  <2> HIDE DEF m
  <2>5. Len(Ended(q)) = Len(r) /\ \A k \in 1..Len(Ended(q)) : Ended(q)[k] = r[k]
    BY <1>5, <2>2, <2>4
  <2>6. QED  BY <1>5, <2>2, <2>5, SeqEqual
<1>7. Ended(ls) \in Seq(Seq(C)) /\ Append(x, NL) \in Seq(C)
  BY <1>1, <1>3
<1>8. /\ FlattenSeq(Ended(ls)) \in Seq(C)
      /\ FlattenSeq(r) = FlattenSeq(Ended(ls)) \o Append(x, NL)
  BY <1>7, FlattenAppend
<1>9. QED  BY <1>2, <1>6, <1>7, <1>8 DEF OneText

LEMMA OneTextEmpty == OneText(<<>>) = <<>>
<1>1. Len(<<>>) = 0
  BY EmptySeq
<1>2. Ended(<<>>) = <<>> 
  BY <1>1 DEF Ended
<1>3. QED  BY <1>1, <1>2 DEF OneText, FlattenSeq

\* Lines end with a newline.
LEMMA OneTextEnds ==
    ASSUME NEW ls \in Seq(Seq(Chars))
    PROVE  /\ OneText(ls) \in Text
           /\ OneText(ls) = <<>> \/ Last(OneText(ls)) = NL
<1>1. CASE ls = <<>>
  <2>1. <<>> \in Text
    BY EmptySeq DEF Text
  <2>2. QED  BY <1>1, <2>1, OneTextEmpty
<1>2. CASE ls # <<>>
  <2>1. PICK q \in Seq(Seq(Chars)), x \in Seq(Chars) : ls = Append(q, x)
    BY <1>2, SequenceEmptyOrAppend
  <2> DEFINE a == OneText(q)
             b == Append(x, NL)
  <2>2. OneText(ls) = a \o b /\ a \in Text /\ b \in Text
    BY <2>1, OneTextAppend
  <2>3. Len(b) = Len(x) + 1 /\ b[Len(x) + 1] = NL /\ Len(x) \in Nat
    BY AppendProperties
  <2> HIDE DEF a, b
  <2>4. /\ a \o b \in Text /\ Len(a \o b) = Len(a) + Len(b) /\ Len(a) \in Nat
        /\ \A i \in 1..(Len(a) + Len(b)) :
              (a \o b)[i] = IF i <= Len(a) THEN a[i] ELSE b[i - Len(a)]
    BY <2>2, ConcatProperties DEF Text
  <2>5. (a \o b)[Len(a) + Len(b)] = NL
    BY <2>3, <2>4
  <2>6. QED  BY <2>2, <2>4, <2>5 DEF Last
<1>3. QED  BY <1>1, <1>2

\* What a text is cut into: no newline in a part, and one behind each.
LEMMA PartsAre ==
    ASSUME NEW text \in Text
    PROVE  /\ Parts(text) \in Seq(Seq(Chars))
           /\ Len(Parts(text)) = Len(Cuts(text)) - 1
           /\ \A k \in 1..Len(Parts(text)) :
                 /\ Cuts(text)[k] \in 0..Len(text)
                 /\ Cuts(text)[k + 1] \in 1..(Len(text) + 1)
                 /\ Cuts(text)[k] < Cuts(text)[k + 1]
                 /\ Parts(text)[k] = SubSeq(text, Cuts(text)[k] + 1, Cuts(text)[k + 1] - 1)
                 /\ Append(text, NL)[Cuts(text)[k + 1]] = NL
<1> DEFINE q == Cuts(text)
           N == Len(text)
           m == Len(q) - 1
           A == Append(text, NL)
<1>1. /\ Len(q) \in Nat /\ Len(q) >= 2
      /\ \A k \in 1..Len(q) : q[k] \in CutsOf(text)
      /\ \A j, k \in 1..Len(q) : j < k <=> q[j] < q[k]
      /\ \A c \in CutsOf(text) : \E k \in 1..Len(q) : q[k] = c
      /\ q[1] = 0 /\ q[Len(q)] = N + 1
  BY CutsClimb DEF Text, Climbs
<1>2. /\ N \in Nat
      /\ \A c : c \in CutsOf(text) <=> \/ c \in 1..N /\ text[c] = NL
                                       \/ c = 0
                                       \/ c = N + 1
  BY DEF Text, CutsOf
<1>3. \A i \in 1..N : text[i] \in Chars \cup {NL}
  BY DEF Text
<1>4. Parts(text) = [k \in 1..m |-> SubSeq(text, q[k] + 1, q[k + 1] - 1)]
  BY DEF Parts
<1>5. /\ Len(A) = N + 1 /\ A[N + 1] = NL /\ \A i \in 1..N : A[i] = text[i]
  BY AppendProperties DEF Text
<1> HIDE DEF q, N, A
<1>6. ASSUME NEW k \in 1..m
      PROVE  /\ q[k] \in 0..N /\ q[k + 1] \in 1..(N + 1) /\ q[k] < q[k + 1]
             /\ A[q[k + 1]] = NL
             /\ \A i \in (q[k] + 1)..(q[k + 1] - 1) : i \in 1..N /\ text[i] # NL
  <2>1. k \in 1..Len(q) /\ k + 1 \in 1..Len(q) /\ k < k + 1
    BY <1>1
  <2>2. q[k] \in 0..(N + 1) /\ q[k + 1] \in 0..(N + 1) /\ q[k] < q[k + 1]
    BY <1>1, <1>2, <2>1, SMTT(30)
  <2>3. A[q[k + 1]] = NL
    BY <1>1, <1>2, <1>5, <2>1, <2>2
  <2>4. ASSUME NEW i \in (q[k] + 1)..(q[k + 1] - 1)
        PROVE  i \in 1..N /\ text[i] # NL
    <3>1. i \in 1..N /\ q[k] < i /\ i < q[k + 1]
      BY <1>2, <2>2
    <3>2. ASSUME text[i] = NL
          PROVE  FALSE
      <4>1. PICK j \in 1..Len(q) : q[j] = i
        BY <1>1, <1>2, <3>1, <3>2
      <4>2. k < j /\ j < k + 1
        BY <1>1, <2>1, <3>1, <4>1
      <4>3. QED  BY <1>1, <4>1, <4>2
    <3>3. QED  BY <3>1, <3>2
  <2>5. QED  BY <1>2, <2>2, <2>3, <2>4
<1>7. ASSUME NEW k \in 1..m
      PROVE  SubSeq(text, q[k] + 1, q[k + 1] - 1) \in Seq(Chars)
  <2>1. \A i \in (q[k] + 1)..(q[k + 1] - 1) : text[i] \in Chars
    BY <1>3, <1>6
  <2>2. q[k] + 1 \in Int /\ q[k + 1] - 1 \in Int
    BY <1>2, <1>6
  <2>3. QED  BY <2>1, <2>2, SubSeqProperties
<1>8. m \in Nat
  BY <1>1
<1> HIDE DEF m
<1>9. Parts(text) \in [1..m -> Seq(Chars)]
  BY <1>4, <1>7
<1>10. Parts(text) \in Seq(Seq(Chars)) /\ Len(Parts(text)) = m
  BY <1>8, <1>9, FunctionIsSeq
<1>11. \A k \in 1..m : Parts(text)[k] = SubSeq(text, q[k] + 1, q[k + 1] - 1)
  BY <1>4
<1>12. QED  BY <1>6, <1>10, <1>11 DEF m, q, N, A

\* A part with its newline is where it was in the text.
LEMMA PartEnded ==
    ASSUME NEW text \in Text, NEW k \in 1..Len(Parts(text))
    PROVE  Append(Parts(text)[k], NL)
             = SubSeq(Append(text, NL), Cuts(text)[k] + 1, Cuts(text)[k + 1])
<1> DEFINE A == Append(text, NL)
           part == Parts(text)[k]
           N == Len(text)
           C == Chars \cup {NL}
<1>1. PICK a, b : a = Cuts(text)[k] /\ b = Cuts(text)[k + 1]
  OBVIOUS
<1>2. /\ a \in 0..N /\ b \in 1..(N + 1) /\ a < b
      /\ part = SubSeq(text, a + 1, b - 1) /\ A[b] = NL
  BY <1>1, PartsAre
<1>3. /\ A \in Seq(C) /\ Len(A) = N + 1 /\ N \in Nat
      /\ \A i \in 1..N : A[i] = text[i] /\ text[i] \in C
  <2>1. NL \in C /\ text \in Seq(C)
    BY DEF Text
  <2> HIDE DEF C
  <2>2. A \in Seq(C) /\ Len(A) = Len(text) + 1 /\ \A i \in 1..Len(text) : A[i] = text[i]
    BY <2>1, AppendProperties
  <2>3. Len(text) \in Nat /\ \A i \in 1..Len(text) : text[i] \in C
    BY <2>1
  <2>4. QED  BY <2>2, <2>3
<1> HIDE DEF A, C
<1>4. \A i \in (a + 1)..(b - 1) : i \in 1..N
  BY <1>2, <1>3
<1>5. SubSeq(text, a + 1, b - 1) = SubSeq(A, a + 1, b - 1)
  <2> DEFINE x == SubSeq(text, a + 1, b - 1)
             y == SubSeq(A, a + 1, b - 1)
  <2>1. /\ a + 1 \in Int /\ b - 1 \in Int
        /\ \A i \in (a + 1)..(b - 1) : text[i] \in C
        /\ \A i \in (a + 1)..(b - 1) : A[i] \in C
    BY <1>2, <1>3, <1>4
  <2>2. /\ x \in Seq(C) /\ Len(x) = IF a + 1 <= b - 1 THEN b - 1 - (a + 1) + 1 ELSE 0
        /\ \A i \in 1..(b - 1 - (a + 1) + 1) : x[i] = text[a + 1 + i - 1]
    BY <2>1, SubSeqProperties
  <2>3. /\ y \in Seq(C) /\ Len(y) = IF a + 1 <= b - 1 THEN b - 1 - (a + 1) + 1 ELSE 0
        /\ \A i \in 1..(b - 1 - (a + 1) + 1) : y[i] = A[a + 1 + i - 1]
    BY <2>1, SubSeqProperties
  <2> HIDE DEF x, y
  <2>4. \A i \in 1..Len(x) : x[i] = y[i]
    <3> TAKE i \in 1..Len(x)
    <3>1. i \in 1..(b - 1 - (a + 1) + 1) /\ a + 1 + i - 1 \in (a + 1)..(b - 1)
      BY <1>2, <1>3, <2>2
    <3>2. A[a + 1 + i - 1] = text[a + 1 + i - 1]
      BY <1>3, <1>4, <3>1
    <3>3. QED  BY <2>2, <2>3, <3>1, <3>2
  <2>5. QED  BY <2>2, <2>3, <2>4, SeqEqual DEF x, y
<1>6. SubSeq(A, a + 1, b) = SubSeq(A, a + 1, b - 1) \o <<A[b]>>
  <2>1. a + 1 \in 1..Len(A) /\ b \in (a + 1)..Len(A)
    BY <1>2, <1>3
  <2>2. QED  BY <1>3, <2>1, SubSeqRecursiveSecond
<1>7. Append(part, NL) = part \o <<NL>>
  <2>1. part \in Seq(C) /\ NL \in C
    <3>1. part \in Seq(Chars)
      BY PartsAre, ElementOfSeq
    <3>2. Chars \subseteq C /\ NL \in C
      BY DEF C
    <3>3. QED  BY <3>1, <3>2, SeqMonotonic
  <2> HIDE DEF part
  <2>2. QED  BY <2>1, AppendIsConcat
<1>8. QED  BY <1>1, <1>2, <1>5, <1>6, <1>7 DEF A

\* Giving out the first parts of a text adds its beginning.
LEMMA PartsJoined ==
    ASSUME NEW ls \in Seq(Seq(Chars)), NEW text \in Text, NEW k \in 0..Len(Parts(text))
    PROVE  /\ ls \o SubSeq(Parts(text), 1, k) \in Seq(Seq(Chars))
           /\ OneText(ls \o SubSeq(Parts(text), 1, k))
                = OneText(ls) \o SubSeq(Append(text, NL), 1, Cuts(text)[k + 1])
<1> DEFINE P == Parts(text)
           A == Append(text, NL)
           q == Cuts(text)
           given(i) == ls \o SubSeq(P, 1, i)
           B == {i \in 0..Len(P) : ~(/\ given(i) \in Seq(Seq(Chars))
                                     /\ OneText(given(i)) = OneText(ls) \o SubSeq(A, 1, q[i + 1]))}
           C == Chars \cup {NL}
<1>1. SUFFICES ASSUME B # {}
               PROVE  FALSE
  OBVIOUS
<1>2. PICK x \in B : \A y \in B : x <= y
  <2>1. B \in SUBSET Nat
    OBVIOUS
  <2>2. QED
    <3> HIDE DEF B
    <3> QED  BY <1>1, <2>1, Least
<1>3. /\ P \in Seq(Seq(Chars)) /\ Len(P) \in Nat
      /\ \A i \in 1..Len(P) : /\ q[i] \in 0..Len(text) /\ q[i + 1] \in 1..(Len(text) + 1)
                               /\ q[i] < q[i + 1]
                               /\ Append(P[i], NL) = SubSeq(A, q[i] + 1, q[i + 1])
  <2>1. \A i \in 1..Len(P) : Append(P[i], NL) = SubSeq(A, q[i] + 1, q[i + 1])
    BY PartEnded
  <2>2. /\ P \in Seq(Seq(Chars))
        /\ \A i \in 1..Len(P) : /\ q[i] \in 0..Len(text) /\ q[i + 1] \in 1..(Len(text) + 1)
                                 /\ q[i] < q[i + 1]
    BY PartsAre
  <2> HIDE DEF P, A, q
  <2>3. Len(P) \in Nat
    BY <2>2
  <2>4. QED  BY ONLY <2>1, <2>2, <2>3
<1>4. A \in Seq(C) /\ Len(A) = Len(text) + 1 /\ Len(text) \in Nat /\ Text = Seq(C)
  <2>1. NL \in C /\ text \in Seq(C) /\ Text = Seq(C)
    BY DEF Text
  <2> HIDE DEF C
  <2>2. QED  BY <2>1, AppendProperties
<1>5. q[1] = 0
  BY CutsClimb DEF Text, Climbs
<1>6. x \in 0..Len(P) /\ \A i \in 0..Len(P) : i < x => i \notin B
  <2>1. x \in 0..Len(P)
    BY <1>2
  <2>2. \A i \in 0..Len(P) : i < x => ~(x <= i)
    BY <2>1
  <2> HIDE DEF B
  <2>3. QED  BY <1>2, <2>1, <2>2
<1>7. OneText(ls) \in Seq(C)
  BY <1>4, OneTextEnds
<1> HIDE DEF P, A, q, C
<1>8. CASE x = 0
  <2>1. SubSeq(P, 1, 0) = <<>> /\ SubSeq(A, 1, 0) = <<>>
    BY SubSeqEmpty
  <2>2. given(0) = ls
    BY <2>1, ConcatEmptySeq
  <2>3. OneText(ls) \o <<>> = OneText(ls)
    BY <1>7, ConcatEmptySeq
  <2>4. q[0 + 1] = 0
    BY <1>5
  <2>5. OneText(given(0)) = OneText(ls) \o SubSeq(A, 1, q[0 + 1])
    BY <2>1, <2>2, <2>3, <2>4
  <2>6. QED  BY <1>2, <1>8, <2>2, <2>5
<1>9. CASE x # 0
  <2>1. x \in 1..Len(P) /\ x - 1 \in 0..Len(P) /\ x - 1 + 1 = x
    BY <1>3, <1>6, <1>9
  <2> DEFINE g == given(x - 1)
             a == SubSeq(A, 1, q[x])
             b == SubSeq(A, q[x] + 1, q[x + 1])
  <2>2. g \in Seq(Seq(Chars)) /\ OneText(g) = OneText(ls) \o a
    <3>1. x - 1 \notin B
      <4>1. x - 1 < x
        BY <2>1
      <4> HIDE DEF B
      <4>2. QED  BY <1>6, <2>1, <4>1
    <3>2. QED  BY <2>1, <3>1
  <2>3. given(x) = Append(g, P[x])
    <3> DEFINE h == SubSeq(P, 1, x - 1)
    <3>1. SubSeq(P, 1, x) = h \o <<P[x]>>
      <4>1. 1 \in 1..Len(P) /\ x \in 1..Len(P)
        BY <1>3, <2>1
      <4>2. QED  BY <1>3, <4>1, SubSeqRecursiveSecond
    <3>2. P[x] \in Seq(Chars)
      BY <1>3, <2>1, ElementOfSeq
    <3>3. h \in Seq(Seq(Chars))
      <4>1. \A i \in 1..(x - 1) : P[i] \in Seq(Chars)
        BY <1>3, <2>1, ElementOfSeq
      <4>2. 1 \in Int /\ x - 1 \in Int
        BY <2>1
      <4>3. QED  BY <4>1, <4>2, SubSeqProperties
    <3>4. given(x) = ls \o (h \o <<P[x]>>) /\ g = ls \o h
      BY <3>1
    <3> HIDE DEF h, g, given
    <3>5. <<P[x]>> \in Seq(Seq(Chars))
      BY <3>2
    <3>6. (ls \o h) \o <<P[x]>> = ls \o (h \o <<P[x]>>)
      BY ONLY <3>3, <3>5, ls \in Seq(Seq(Chars)), ConcatAssociative, SMTT(30)
    <3>7. Append(g, P[x]) = g \o <<P[x]>>
      BY <2>2, <3>2, AppendIsConcat
    <3>8. QED  BY <3>4, <3>6, <3>7
  <2>4. P[x] \in Seq(Chars)
    BY <1>3, <2>1, ElementOfSeq
  <2> HIDE DEF g, given
  <2>5. /\ Append(g, P[x]) \in Seq(Seq(Chars))
        /\ OneText(Append(g, P[x])) = OneText(g) \o Append(P[x], NL)
    BY <2>2, <2>4, OneTextAppend, AppendProperties
  <2>6. Append(P[x], NL) = b
    BY <1>3, <2>1
  <2>a. /\ q[x] \in 0..Len(A) /\ q[x + 1] \in 0..Len(A) /\ Len(A) \in Nat
        /\ q[x] < q[x + 1]
    <3>1. q[x] \in 0..Len(text) /\ q[x + 1] \in 1..(Len(text) + 1) /\ q[x] < q[x + 1]
      BY <1>3, <2>1
    <3>2. Len(A) = Len(text) + 1 /\ Len(text) \in Nat
      BY <1>4
    <3>3. QED  BY ONLY <3>1, <3>2, SMTT(30)
  <2>7. a \o b = SubSeq(A, 1, q[x + 1])
    <3>1. /\ 1 \in 1..(Len(A) + 1) /\ q[x] \in (1 - 1)..Len(A)
          /\ q[x + 1] \in q[x]..Len(A)
      BY ONLY <2>a, SMTT(30)
    <3>2. QED  BY <1>4, <3>1, ConcatAdjacentSubSeq
  <2>8. a \in Seq(C) /\ b \in Seq(C)
    <3>1. PICK u, v : u = q[x] /\ v = q[x + 1]
      OBVIOUS
    <3>2. \A i \in 1..Len(A) : A[i] \in C
      BY <1>4, ElementOfSeq
    <3>3. \A i \in 1..u : A[i] \in C
      BY <2>a, <3>1, <3>2
    <3>4. \A i \in (u + 1)..v : A[i] \in C
      BY <2>a, <3>1, <3>2
    <3>5. 1 \in Int /\ u \in Int /\ u + 1 \in Int /\ v \in Int
      BY <2>a, <3>1
    <3>6. SubSeq(A, 1, u) \in Seq(C) /\ SubSeq(A, u + 1, v) \in Seq(C)
      BY <3>3, <3>4, <3>5, SubSeqProperties
    <3>7. QED  BY <3>1, <3>6
  <2> HIDE DEF a, b
  <2>9. (OneText(ls) \o a) \o b = OneText(ls) \o (a \o b)
    <3>1. PICK j : j = OneText(ls)
      OBVIOUS
    <3>2. j \in Seq(C)
      BY <1>7, <3>1
    <3>3. (j \o a) \o b = j \o (a \o b)
      BY ONLY <2>8, <3>2, ConcatAssociative, SMTT(30)
    <3>4. QED  BY <3>1, <3>3
  <2>10. /\ given(x) \in Seq(Seq(Chars))
         /\ OneText(given(x)) = OneText(ls) \o SubSeq(A, 1, q[x + 1])
    BY <2>2, <2>3, <2>5, <2>6, <2>7, <2>9
  <2>11. QED
    <3> USE DEF given
    <3> QED  BY <1>2, <2>10
<1>10. QED  BY <1>8, <1>9

\* While the sink is open the lines given out and the text kept are what was written;
\* that is all its steps rely on.
SinkInv == SinkTypeOK /\ LinesAreTheText

LEMMA RejoinedIs == Rejoined = OneText(lines)
BY DEF Rejoined, OneText, Ended

\* What begins with a text.
LEMMA Begins ==
    ASSUME NEW S, NEW a \in Seq(S), NEW b \in Seq(S)
    PROVE  IsPrefix(a, a \o b)
<1> DEFINE c == a \o b
<1>1. /\ c \in Seq(S) /\ Len(c) = Len(a) + Len(b) /\ Len(a) \in Nat /\ Len(b) \in Nat
      /\ \A i \in 1..Len(a) : c[i] = a[i]
  BY ConcatProperties
<1> HIDE DEF c
<1>2. SubSeq(c, 1, Len(a)) = a
  <2> DEFINE d == SubSeq(c, 1, Len(a))
  <2>1. d \in Seq(S) /\ Len(d) = Len(a) /\ \A i \in 1..Len(a) : d[i] = c[i]
    BY <1>1
  <2> HIDE DEF d
  <2>2. d = a
    BY <1>1, <2>1, SeqEqual
  <2>3. QED  BY <2>2 DEF d
<1>3. SubSeq(a, 1, Len(a)) = a
  BY SubSeqFull
<1>4. QED  BY <1>1, <1>2, <1>3 DEF IsPrefix, c

LEMMA SinkStarts == SinkInit => SinkInv
<1> SUFFICES ASSUME SinkInit
             PROVE  SinkInv
  OBVIOUS
<1>1. Rejoined = <<>>
  BY RejoinedIs, OneTextEmpty DEF SinkInit
<1>2. written = <<>> /\ buf = <<>> /\ lines = <<>> /\ state = "open"
  BY DEF SinkInit
<1>3. \A S : <<>> \in Seq(S) /\ <<>> \o <<>> = <<>>
  BY EmptySeq, ConcatEmptySeq
<1>4. SinkTypeOK
  BY <1>2, <1>3 DEF SinkTypeOK, Text
<1>5. LinesAreTheText
  BY <1>1, <1>2, <1>3 DEF LinesAreTheText
<1>6. QED  BY <1>4, <1>5 DEF SinkInv

\* Text without a newline goes from what is written to what is kept.
LEMMA SinkWritePiece ==
    ASSUME SinkInv, NEW s \in Seq(Chars \cup {NL}), WritePiece(s)
    PROVE  SinkInv'
<1>1. /\ state = "open" /\ state' = "open" /\ lines' = lines
      /\ buf' = buf \o s /\ written' = written \o s /\ NL \notin ToSet(s)
  BY DEF WritePiece
<1>2. s \in Seq(Chars)
  <2>1. \A i \in 1..Len(s) : s[i] \in Chars \cup {NL} /\ s[i] \in ToSet(s)
    BY LenProperties, ElementOfSeq DEF ToSet
  <2>2. \A i \in 1..Len(s) : s[i] \in Chars
    BY <1>1, <2>1
  <2>3. s \in [1..Len(s) -> Chars] /\ Len(s) \in Nat
    BY <2>2
  <2>4. QED  BY <2>3, FunctionIsSeq
<1>3. buf' \in Seq(Chars) /\ written' \in Text
  BY <1>1, <1>2, ConcatProperties DEF SinkInv, SinkTypeOK, Text
<1>4. Rejoined' = Rejoined
  BY <1>1 DEF Rejoined
<1>5. Rejoined \in Text /\ buf \in Text
  <2>1. Rejoined \in Text
    BY RejoinedIs, OneTextEnds DEF SinkInv, SinkTypeOK
  <2>2. buf \in Text
    BY SeqMonotonic DEF SinkInv, SinkTypeOK, Text
  <2>3. QED  BY <2>1, <2>2
<1>6. Rejoined' \o buf' = written'
  <2>1. (Rejoined \o buf) \o s = Rejoined \o (buf \o s)
    BY <1>5, ConcatAssociative DEF Text
  <2>2. Rejoined \o buf = written
    BY <1>1 DEF SinkInv, LinesAreTheText
  <2>3. QED  BY <1>1, <1>4, <2>1, <2>2
<1>7. QED
  BY <1>1, <1>3, <1>6 DEF SinkInv, SinkTypeOK, LinesAreTheText

\* The parts given out and the one kept are the text kept before and the new piece;
\* when on_line raises, what was given out is still where that begins.
LEMMA SinkWriteLines ==
    ASSUME SinkInv, NEW s \in Seq(Chars \cup {NL}), WriteLines(s)
    PROVE  SinkInv'
<1> DEFINE C == Chars \cup {NL}
           t == buf \o s
           P == Parts(t)
           m == Len(P) - 1
           q == Cuts(t)
           A == Append(t, NL)
           L == OneText(lines)
<1>1. /\ state = "open" /\ NL \in ToSet(s)
      /\ buf' = Last(P) /\ written' = written \o s /\ Deliver(Front(P))
  BY DEF WriteLines
<1>2. written \in Seq(C) /\ buf \in Seq(C) /\ buf \in Seq(Chars) /\ lines \in Seq(Seq(Chars))
  <2>1. Chars \subseteq C
    OBVIOUS
  <2>2. written \in Seq(C) /\ buf \in Seq(Chars) /\ lines \in Seq(Seq(Chars))
    BY DEF SinkInv, SinkTypeOK, Text
  <2> HIDE DEF C
  <2>3. QED  BY <2>1, <2>2, SeqMonotonic
<1>3. s \in Seq(C) /\ Text = Seq(C)
  BY DEF Text
<1> HIDE DEF C
<1>4. t \in Text /\ Len(t) \in Nat
  BY <1>2, <1>3, ConcatProperties
<1>5. L \in Seq(C)
  BY <1>2, <1>3, OneTextEnds
<1>6. L \o t = written'
  <2>1. L \o buf = written
    BY <1>1, RejoinedIs DEF SinkInv, LinesAreTheText
  <2> HIDE DEF L
  <2>2. (L \o buf) \o s = L \o (buf \o s)
    BY <1>2, <1>3, <1>5, ConcatAssociative, SMTT(30)
  <2>3. QED  BY <1>1, <2>1, <2>2
<1>7. Climbs(q, CutsOf(t), 0, Len(t) + 1)
  BY <1>4, CutsClimb DEF Text
<1> HIDE DEF t
<1>8. /\ P \in Seq(Seq(Chars)) /\ Len(P) = Len(q) - 1 /\ Len(P) \in Nat /\ Len(P) >= 1
      /\ \A k \in 1..Len(P) : /\ q[k] \in 0..Len(t) /\ q[k + 1] \in 1..(Len(t) + 1)
                               /\ P[k] = SubSeq(t, q[k] + 1, q[k + 1] - 1)
      /\ q[Len(P) + 1] = Len(t) + 1
  <2>1. /\ P \in Seq(Seq(Chars)) /\ Len(P) = Len(q) - 1
        /\ \A k \in 1..Len(P) : /\ q[k] \in 0..Len(t) /\ q[k + 1] \in 1..(Len(t) + 1)
                                 /\ P[k] = SubSeq(t, q[k] + 1, q[k + 1] - 1)
    BY <1>4, PartsAre
  <2>2. Len(q) \in Nat /\ Len(q) >= 2 /\ q[Len(q)] = Len(t) + 1
    BY <1>7 DEF Climbs
  <2> HIDE DEF P, q
  <2>3. Len(P) \in Nat /\ Len(P) >= 1 /\ Len(P) + 1 = Len(q)
    BY <2>1, <2>2
  <2>4. QED  BY <2>1, <2>2, <2>3
<1>9. \A k \in 0..Len(P) : /\ lines \o SubSeq(P, 1, k) \in Seq(Seq(Chars))
                           /\ OneText(lines \o SubSeq(P, 1, k)) = L \o SubSeq(A, 1, q[k + 1])
  BY <1>2, <1>4, PartsJoined
<1>10. /\ A \in Seq(C) /\ Len(A) = Len(t) + 1
       /\ SubSeq(A, 1, Len(t) + 1) = A
       /\ \A i \in 0..Len(t) : SubSeq(A, 1, i) = SubSeq(t, 1, i)
  <2>1. NL \in C
    BY DEF C
  <2>2. A \in Seq(C) /\ Len(A) = Len(t) + 1 /\ \A i \in 1..Len(t) : A[i] = t[i]
    BY <1>3, <1>4, <2>1, AppendProperties
  <2> HIDE DEF A
  <2>3. SubSeq(A, 1, Len(A)) = A
    BY <2>2, SubSeqFull
  <2>4. ASSUME NEW i \in 0..Len(t)
        PROVE  SubSeq(A, 1, i) = SubSeq(t, 1, i)
    <3> DEFINE x == SubSeq(A, 1, i)
               y == SubSeq(t, 1, i)
    <3>1. x \in Seq(C) /\ Len(x) = i /\ \A j \in 1..i : x[j] = A[j]
      BY <1>4, <2>2
    <3>2. y \in Seq(C) /\ Len(y) = i /\ \A j \in 1..i : y[j] = t[j]
      BY <1>3, <1>4
    <3> HIDE DEF x, y
    <3>3. \A j \in 1..Len(x) : x[j] = y[j]
      BY <1>4, <2>2, <3>1, <3>2
    <3>4. QED  BY <3>1, <3>2, <3>3, SeqEqual DEF x, y
  <2>5. QED  BY <2>2, <2>3, <2>4
<1>11. Front(P) = SubSeq(P, 1, m) /\ Last(P) = P[Len(P)]
  BY DEF Front, Last
<1>12. m \in 0..Len(P) /\ m \in Nat /\ Len(P) = m + 1 /\ m + 1 \in 1..Len(P)
  BY <1>8
<1> HIDE DEF P, q, A, m, L
<1>13. buf' \in Seq(Chars) /\ buf' = SubSeq(t, q[m + 1] + 1, Len(t))
  <2>1. P[m + 1] \in Seq(Chars)
    BY <1>8, <1>12, ElementOfSeq
  <2>2. P[m + 1] = SubSeq(t, q[m + 1] + 1, q[m + 1 + 1] - 1)
    BY <1>8, <1>12
  <2>3. q[m + 1 + 1] - 1 = Len(t)
    <3>1. Len(P) + 1 = m + 1 + 1
      BY <1>12
    <3>2. q[m + 1 + 1] = Len(t) + 1
      BY <1>8, <3>1
    <3>3. QED  BY <1>4, <3>2
  <2>4. QED  BY <1>1, <1>11, <1>12, <2>1, <2>2, <2>3
<1>14. written' \in Text
  BY <1>1, <1>2, <1>3, ConcatProperties
<1>15. ASSUME lines' = lines \o Front(P), state' = state
       PROVE  SinkInv'
  <2>1. lines' \in Seq(Seq(Chars)) /\ OneText(lines') = L \o SubSeq(A, 1, q[m + 1])
    BY <1>9, <1>11, <1>12, <1>15
  <2> DEFINE a == SubSeq(t, 1, q[m + 1])
             b == SubSeq(t, q[m + 1] + 1, Len(t))
  <2>2. q[m + 1] \in 0..Len(t)
    BY <1>8, <1>12
  <2>3. OneText(lines') = L \o a /\ buf' = b
    BY <1>10, <1>13, <2>1, <2>2
  <2>4. a \o b = t /\ a \in Seq(C) /\ b \in Seq(C)
    <3>1. PICK i : i = q[m + 1]
      OBVIOUS
    <3>2. i \in 0..Len(t) /\ t \in Seq(C)
      BY <1>3, <1>4, <2>2, <3>1
    <3>3. SubSeq(t, 1, i) \o SubSeq(t, i + 1, Len(t)) = SubSeq(t, 1, Len(t))
      <4>1. 1 \in 1..(Len(t) + 1) /\ i \in (1 - 1)..Len(t) /\ Len(t) \in i..Len(t)
        BY <1>4, <3>2
      <4>2. QED  BY <3>2, <4>1, ConcatAdjacentSubSeq
    <3>4. SubSeq(t, 1, Len(t)) = t
      BY <3>2, SubSeqFull
    <3>5. SubSeq(t, 1, i) \in Seq(C) /\ SubSeq(t, i + 1, Len(t)) \in Seq(C)
      BY <1>4, <3>2
    <3>6. QED  BY <3>1, <3>3, <3>4, <3>5
  <2> HIDE DEF a, b
  <2>5. (L \o a) \o b = L \o (a \o b)
    <3>1. a \in Seq(C) /\ b \in Seq(C)
      BY <2>4
    <3>2. PICK j : j = L
      OBVIOUS
    <3>3. j \in Seq(C)
      BY <1>5, <3>2
    <3>4. (j \o a) \o b = j \o (a \o b)
      BY ONLY <3>1, <3>3, ConcatAssociative, SMTT(30)
    <3>5. QED  BY <3>2, <3>4
  <2>6. Rejoined' \o buf' = written'
    <3>1. Rejoined' = OneText(lines')
      BY DEF Rejoined, OneText, Ended
    <3>2. QED  BY <1>6, <2>3, <2>4, <2>5, <3>1
  <2>7. QED
    BY <1>1, <1>13, <1>14, <1>15, <2>1, <2>6 DEF SinkInv, SinkTypeOK, LinesAreTheText
<1>16. ASSUME NEW k \in 1..Len(Front(P)), lines' = lines \o SubSeq(Front(P), 1, k),
              state' = "raised"
       PROVE  SinkInv'
  <2>1. Len(Front(P)) = m /\ k \in 1..m
    <3>1. Len(SubSeq(P, 1, m)) = m
      BY <1>8, <1>12
    <3>2. QED  BY <1>11, <1>16, <3>1
  <2>2. SubSeq(Front(P), 1, k) = SubSeq(P, 1, k)
    <3>1. /\ 1 \in 1..Len(P) /\ m \in 1..Len(P)
          /\ 1 \in 1..(m - 1 + 1) /\ k \in 1..(m - 1 + 1)
      BY <1>8, <1>12, <2>1
    <3>2. SubSeq(SubSeq(P, 1, m), 1, k) = SubSeq(P, 1 + 1 - 1, 1 + k - 1)
      BY <1>8, <3>1, SubSeqOfSubSeq
    <3>3. 1 + 1 - 1 = 1 /\ 1 + k - 1 = k
      BY <2>1
    <3>4. QED  BY <1>11, <3>2, <3>3
  <2>3. k \in 0..Len(P) /\ k \in 1..Len(P)
    BY <1>12, <2>1
  <2>4. lines' \in Seq(Seq(Chars)) /\ OneText(lines') = L \o SubSeq(A, 1, q[k + 1])
    BY <1>9, <1>16, <2>2, <2>3
  <2> DEFINE a == SubSeq(A, 1, q[k + 1])
             b == SubSeq(A, q[k + 1] + 1, Len(A))
  <2>5. a \o b = A /\ a \in Seq(C) /\ b \in Seq(C)
    <3>1. PICK i : i = q[k + 1]
      OBVIOUS
    <3>2. i \in 1..Len(A) /\ Len(A) \in Nat
      <4>1. q[k + 1] \in 1..(Len(t) + 1)
        BY <1>8, <2>3
      <4>2. QED  BY <1>4, <1>10, <3>1, <4>1
    <3>3. SubSeq(A, 1, i) \o SubSeq(A, i + 1, Len(A)) = SubSeq(A, 1, Len(A))
      <4>1. 1 \in 1..(Len(A) + 1) /\ i \in (1 - 1)..Len(A) /\ Len(A) \in i..Len(A)
        BY <3>2
      <4>2. QED  BY <1>10, <4>1, ConcatAdjacentSubSeq
    <3>4. SubSeq(A, 1, Len(A)) = A
      BY <1>10, SubSeqFull
    <3>5. SubSeq(A, 1, i) \in Seq(C) /\ SubSeq(A, i + 1, Len(A)) \in Seq(C)
      BY <1>10, <3>2
    <3>6. QED  BY <3>1, <3>3, <3>4, <3>5
  <2> HIDE DEF a, b
  <2>6. (L \o a) \o b = L \o A
    <3>1. a \in Seq(C) /\ b \in Seq(C)
      BY <2>5
    <3>2. PICK j : j = L
      OBVIOUS
    <3>3. j \in Seq(C)
      BY <1>5, <3>2
    <3>4. (j \o a) \o b = j \o (a \o b)
      BY ONLY <3>1, <3>3, ConcatAssociative, SMTT(30)
    <3>5. QED  BY <2>5, <3>2, <3>4
  <2>7. L \o A = Append(written', NL)
    <3>1. NL \in C /\ t \in Seq(C) /\ <<NL>> \in Seq(C)
      BY <1>3, <1>4 DEF C
    <3>2. A = t \o <<NL>>
      BY <3>1, AppendIsConcat DEF A
    <3>3. (L \o t) \o <<NL>> = L \o (t \o <<NL>>)
      BY <1>5, <3>1, ConcatAssociative, SMTT(30)
    <3>4. Append(written', NL) = written' \o <<NL>>
      BY <1>3, <1>14, <3>1, AppendIsConcat
    <3>5. QED  BY <1>6, <3>2, <3>3, <3>4
  <2>8. IsPrefix(L \o a, (L \o a) \o b)
    <3>1. L \o a \in Seq(C)
      BY <1>5, <2>5, ConcatProperties
    <3>2. PICK c : c = L \o a
      OBVIOUS
    <3>3. IsPrefix(c, c \o b)
      BY <2>5, <3>1, <3>2, Begins
    <3>4. QED  BY <3>2, <3>3
  <2>9. IsPrefix(Rejoined', Append(written', NL))
    <3>1. Rejoined' = OneText(lines')
      BY DEF Rejoined, OneText, Ended
    <3>2. OneText(lines') = L \o a
      BY <2>4 DEF a
    <3>3. QED  BY <2>6, <2>7, <2>8, <3>1, <3>2
  <2>10. QED
    BY <1>13, <1>14, <1>16, <2>4, <2>9 DEF SinkInv, SinkTypeOK, LinesAreTheText
<1>17. QED  BY <1>1, <1>15, <1>16 DEF Deliver

\* What is kept at the end is a line without its newline.
LEMMA SinkCloseOut ==
    ASSUME SinkInv, CloseOut
    PROVE  SinkInv'
<1> DEFINE C == Chars \cup {NL}
           L == OneText(lines)
<1>1. /\ state = "open" /\ written' = written /\ buf' = buf
      /\ lines' = IF buf = <<>> THEN lines ELSE Append(lines, buf)
      /\ state' \in {"closed"} \cup IF buf = <<>> THEN {} ELSE {"raised"}
  BY DEF CloseOut
<1>2. /\ written \in Text /\ buf \in Seq(Chars) /\ lines \in Seq(Seq(Chars))
      /\ L \o buf = written
  BY <1>1, RejoinedIs DEF SinkInv, SinkTypeOK, LinesAreTheText
<1>3. Text = Seq(C) /\ NL \in C /\ <<NL>> \in Seq(C)
  BY DEF Text
<1>4. buf \in Seq(C)
  <2>1. Chars \subseteq C
    OBVIOUS
  <2> HIDE DEF C
  <2>2. QED  BY <1>2, <2>1, SeqMonotonic
<1> HIDE DEF C
<1>5. L \in Seq(C) /\ (L = <<>> \/ Last(L) = NL)
  BY <1>2, <1>3, OneTextEnds
<1>6. CASE buf = <<>>
  <2>1. lines' = lines /\ state' = "closed"
    BY <1>1, <1>6
  <2>2. L \o <<>> = L
    BY <1>5, ConcatEmptySeq
  <2>3. written = L
    BY <1>2, <1>6, <2>2
  <2>4. Rejoined' = L
    BY <2>1 DEF Rejoined, OneText, Ended
  <2>5. written = <<>> \/ Last(written) = NL
    BY <1>5, <2>3
  <2>6. QED
    BY <1>1, <1>2, <2>1, <2>3, <2>4, <2>5 DEF SinkInv, SinkTypeOK, LinesAreTheText
<1>7. CASE buf # <<>>
  <2>1. lines' = Append(lines, buf) /\ state' \in {"closed", "raised"}
    BY <1>1, <1>7
  <2>2. lines' \in Seq(Seq(Chars))
    BY <1>2, <2>1, AppendProperties
  <2>3. Rejoined' = L \o Append(buf, NL)
    <3>1. OneText(Append(lines, buf)) = OneText(lines) \o Append(buf, NL)
      BY <1>2, OneTextAppend
    <3>2. Rejoined' = OneText(lines')
      BY DEF Rejoined, OneText, Ended
    <3>3. QED  BY <2>1, <3>1, <3>2
  <2>4. Append(buf, NL) = buf \o <<NL>> /\ Append(written, NL) = written \o <<NL>>
    BY <1>2, <1>3, <1>4, AppendIsConcat
  <2> HIDE DEF L
  <2>5. (L \o buf) \o <<NL>> = L \o (buf \o <<NL>>)
    BY <1>3, <1>4, <1>5, ConcatAssociative, SMTT(30)
  <2>6. Rejoined' = written \o <<NL>>
    BY <1>2, <2>3, <2>4, <2>5
  <2>7. Len(buf) \in Nat /\ Len(buf) # 0 /\ Len(L) \in Nat
    BY <1>2, <1>5, <1>7, EmptySeq
  <2>8. /\ Len(L \o buf) = Len(L) + Len(buf)
        /\ (L \o buf)[Len(L) + Len(buf)] = buf[Len(buf)]
    <3>1. /\ Len(L \o buf) = Len(L) + Len(buf)
          /\ \A i \in 1..(Len(L) + Len(buf)) :
                (L \o buf)[i] = IF i <= Len(L) THEN L[i] ELSE buf[i - Len(L)]
      BY <1>4, <1>5, ConcatProperties
    <3>2. /\ Len(L) + Len(buf) \in 1..(Len(L) + Len(buf))
          /\ ~(Len(L) + Len(buf) <= Len(L))
          /\ Len(L) + Len(buf) - Len(L) = Len(buf)
      BY <2>7
    <3>3. QED  BY <3>1, <3>2
  <2>9. buf[Len(buf)] \in Chars
    BY <1>2, <2>7
  <2>10. Last(written) \in Chars /\ written # <<>>
    <3>1. Len(written) = Len(L) + Len(buf) /\ Last(written) = buf[Len(buf)]
      BY <1>2, <2>8 DEF Last
    <3>2. written # <<>>
      BY <2>7, <3>1
    <3>3. QED  BY <2>9, <3>1, <3>2
  <2>11. Last(written) # NL
    BY <2>10, LineSinkAssumption
  <2>12. IsPrefix(Rejoined', Append(written, NL))
    <3>1. PICK c : c = written \o <<NL>>
      OBVIOUS
    <3>2. c \in Seq(C)
      BY <1>2, <1>3, <3>1, ConcatProperties
    <3>3. IsPrefix(c, c \o <<>>) /\ c \o <<>> = c
      BY <3>2, Begins, EmptySeq, ConcatEmptySeq
    <3>4. QED  BY <2>4, <2>6, <3>1, <3>3
  <2>13. QED
    BY <1>1, <1>2, <2>1, <2>2, <2>4, <2>6, <2>10, <2>11, <2>12
       DEF SinkInv, SinkTypeOK, LinesAreTheText
<1>8. QED  BY <1>6, <1>7

LEMMA SinkStutters == SinkInv /\ UNCHANGED sinkVars => SinkInv'
BY DEF SinkInv, SinkTypeOK, LinesAreTheText, Rejoined, sinkVars

LEMMA SinkStep == SinkInv /\ [SinkNext]_sinkVars => SinkInv'
<1>1. \A s \in Pieces : s \in Seq(Chars \cup {NL})
  BY BoundedSeqIsSeq, LineSinkAssumption DEF Pieces
<1>2. QED
  BY <1>1, SinkWritePiece, SinkWriteLines, SinkCloseOut, SinkStutters DEF SinkNext, Stopped

\* However the text is cut into pieces, what is kept and given out has its type.
THEOREM SinkTypeCorrect == SinkSpec => []SinkTypeOK
<1>1. SinkInv => SinkTypeOK
  BY DEF SinkInv
<1>2. QED  BY <1>1, SinkStarts, SinkStep, PTL DEF SinkSpec

\* on_expected is given the reference's lines: whatever the pieces they are written
\* in, nothing is lost, repeated, merged or torn.
THEOREM LinesAreAlwaysTheText == SinkSpec => []LinesAreTheText
<1>1. SinkInv => LinesAreTheText
  BY DEF SinkInv
<1>2. QED  BY <1>1, SinkStarts, SinkStep, PTL DEF SinkSpec

=============================================================================
