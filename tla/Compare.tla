------------------------------ MODULE Compare -------------------------------
(***************************************************************************)
(* _compare in grader/grade.py: the reference's records, as the sink       *)
(* delivers them one line at a time, against the lines of the candidate's  *)
(* output file.  One action is one call of on_expected, with the branch it *)
(* takes, or what follows the last record.                                 *)
(*                                                                         *)
(* A JSON value stands for itself up to norm (key order and spacing).  A   *)
(* candidate line either spells a value as the reference does, or spells   *)
(* it differently, or is not JSON.                                         *)
(***************************************************************************)
EXTENDS Integers, Sequences, SequencesExt

CONSTANTS
    Values,       \* JSON values, up to norm
    MaxRecords,   \* the longest answer
    MaxReport     \* the parameter max_report

ASSUME CompareAssumption ==
    /\ MaxRecords \in Nat
    /\ MaxReport \in Nat \ {0}

Line == [spelling : {"canonical", "other", "not_json"}, value : Values]

VARIABLES
    expected,    \* the reference answer
    candidate,   \* the lines of the candidate's output
    n,           \* state["n"]: records compared
    diffs,       \* state["diffs"]: the records that differ
    result       \* the pair that is returned

vars == <<expected, candidate, n, diffs, result>>

Unfinished == [ok |-> FALSE, kind |-> "none", at |-> 0, first |-> <<>>]
Mismatch(kind, at, first) == [ok |-> FALSE, kind |-> kind, at |-> at, first |-> first]
Match == [ok |-> TRUE, kind |-> "ok", at |-> 0, first |-> <<>>]

Result == [ok : BOOLEAN,
           kind : {"none", "ok", "candidate_output_truncated",
                   "candidate_record_not_json", "records_differ",
                   "candidate_emitted_extra_records"},
           at : Nat, first : Seq(Nat)]

TypeOK ==
    /\ expected \in Seq(Values)
    /\ candidate \in Seq(Line)
    /\ n \in Nat
    /\ diffs \in Seq(Nat)
    /\ result \in Result

Init ==
    /\ expected \in BoundedSeq(Values, MaxRecords)
    /\ candidate \in BoundedSeq(Line, MaxRecords)
    /\ n = 0
    /\ diffs = <<>>
    /\ result = Unfinished

-----------------------------------------------------------------------------
Running == result = Unfinished

\* actual_line == expected_line, or norm(actual) == norm(expected).
SameRecord(line, value) == line.spelling # "not_json" /\ line.value = value

\* on_expected, up to the branch on the line read: record n' is compared.
NextRecord ==
    /\ Running
    /\ n < Len(expected)
    /\ n' = n + 1
    /\ UNCHANGED <<expected, candidate>>

\* MUTANT of RecordMissing: the position is that of the record before.
RecordMissingBefore ==
    /\ NextRecord
    /\ n' > Len(candidate)
    /\ result' = Mismatch("candidate_output_truncated", n, <<>>)
    /\ UNCHANGED diffs

\* readline() returns "".
RecordMissing ==
    /\ NextRecord
    /\ n' > Len(candidate)
    /\ result' = Mismatch("candidate_output_truncated", n', <<>>)
    /\ UNCHANGED diffs

RecordEqual ==
    /\ NextRecord
    /\ n' <= Len(candidate)
    /\ SameRecord(candidate[n'], expected[n'])
    /\ UNCHANGED <<diffs, result>>

RecordNotJson ==
    /\ NextRecord
    /\ n' <= Len(candidate)
    /\ candidate[n'].spelling = "not_json"
    /\ result' = Mismatch("candidate_record_not_json", n', <<>>)
    /\ UNCHANGED diffs

\* MUTANT of RecordDiffers: one difference more than max_report.
RecordDiffersLate ==
    /\ NextRecord
    /\ n' <= Len(candidate)
    /\ candidate[n'].spelling # "not_json"
    /\ ~SameRecord(candidate[n'], expected[n'])
    /\ diffs' = Append(diffs, n')
    /\ result' = IF Len(diffs') > MaxReport
                   THEN Mismatch("records_differ", 0, diffs')
                   ELSE result

\* The differing record is kept; at max_report of them the comparison stops.
RecordDiffers ==
    /\ NextRecord
    /\ n' <= Len(candidate)
    /\ candidate[n'].spelling # "not_json"
    /\ ~SameRecord(candidate[n'], expected[n'])
    /\ diffs' = Append(diffs, n')
    /\ result' = IF Len(diffs') >= MaxReport
                   THEN Mismatch("records_differ", 0, diffs')
                   ELSE result

\* MUTANT of End: nothing looks for extra records.
EndWithoutExtra ==
    /\ Running
    /\ n = Len(expected)
    /\ result' = IF diffs # <<>> THEN Mismatch("records_differ", 0, diffs) ELSE Match
    /\ UNCHANGED <<expected, candidate, n, diffs>>

\* MUTANT of End: the extra records are reported by their number, negated.
EndMiscounts ==
    /\ Running
    /\ n = Len(expected)
    /\ result' = IF diffs # <<>> THEN Mismatch("records_differ", 0, diffs)
                 ELSE IF Len(candidate) > n
                   THEN Mismatch("candidate_emitted_extra_records", n - Len(candidate), <<>>)
                   ELSE Match
    /\ UNCHANGED <<expected, candidate, n, diffs>>

\* After the last record: report the differences kept, then anything left over.
End ==
    /\ Running
    /\ n = Len(expected)
    /\ result' = IF diffs # <<>> THEN Mismatch("records_differ", 0, diffs)
                 ELSE IF Len(candidate) > n
                   THEN Mismatch("candidate_emitted_extra_records", n, <<>>)
                   ELSE Match
    /\ UNCHANGED <<expected, candidate, n, diffs>>

Returned == ~Running /\ UNCHANGED vars

Next ==
    \/ RecordMissing
    \/ RecordEqual
    \/ RecordNotJson
    \/ RecordDiffers
    \/ End
    \/ Returned

Spec == Init /\ [][Next]_vars

-----------------------------------------------------------------------------
(* Safety *)

\* Sound and complete: the candidate matches exactly when it emitted as many
\* records as the reference and each is the same record.
CorrectAnswer ==
    /\ Len(candidate) = Len(expected)
    /\ \A i \in 1..Len(expected) : SameRecord(candidate[i], expected[i])

VerdictExact == ~Running => (result.ok <=> CorrectAnswer)

\* The records read so far that are JSON and differ.
Differing == {i \in 1..n : i <= Len(candidate) /\ ~SameRecord(candidate[i], expected[i])}

\* A report of differences names the first ones, in order and none skipped, and
\* at most max_report of them: the comparison holds no more than that.
ReportsFirstDifferences ==
    result.kind = "records_differ" =>
        /\ result.first # <<>>
        /\ Len(result.first) <= MaxReport
        /\ {result.first[k] : k \in 1..Len(result.first)} = Differing
        /\ \A k, l \in 1..Len(result.first) : k < l => result.first[k] < result.first[l]

\* Truncation and garbage are reported at the first line that is missing or is
\* not JSON, and extra records only after an answer correct to its end.
ReportsRightPosition ==
    /\ result.kind = "candidate_output_truncated" =>
          /\ result.at = Len(candidate) + 1
          /\ result.at <= Len(expected)
    /\ result.kind = "candidate_record_not_json" =>
          /\ candidate[result.at].spelling = "not_json"
          /\ \A i \in 1..(result.at - 1) : candidate[i].spelling # "not_json"
    /\ result.kind = "candidate_emitted_extra_records" =>
          /\ Len(candidate) > Len(expected)
          /\ \A i \in 1..Len(expected) : SameRecord(candidate[i], expected[i])

\* grader/grade.py:24, "a partial answer fails at the first differing record":
\* a failure names the first record that is missing, unparseable or different.
FailsAtFirstDifference ==
    ~Running /\ ~result.ok =>
        LET wrong == {i \in 1..Len(expected) :
                        i > Len(candidate) \/ ~SameRecord(candidate[i], expected[i])}
        IN  wrong # {} => Min(wrong) \in {result.at} \cup ToSet(result.first)

=============================================================================
