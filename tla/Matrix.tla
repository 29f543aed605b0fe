------------------------------- MODULE Matrix -------------------------------
(***************************************************************************)
(* scripts/verify.py: one grading for each row of MATRIX, the failure mode *)
(* that classify reads out of its verdict, the defects found and the       *)
(* summary; beside it, gradings started by hand in a kept directory.       *)
(***************************************************************************)
EXTENDS Grade

CONSTANTS
    MaxRows,   \* the longest matrix
    Modes      \* the failure modes a row may declare

ASSUME MatrixAssumption ==
    /\ MaxRows \in Nat
    /\ MaxRows <= MaxRuns

VARIABLES
    matrix,    \* MATRIX: the mode each row declares, "none" where PASS is expected
    mpc,       \* main: "rows", "started" while grade.py runs, or "summary"
    only,      \* --only: the number of a row, 0 without, more than any for an
               \* unknown name
    graded,    \* history: how the candidate of each row ended
    modes,     \* the mode of each row, "error" where there was no verdict
    defects,   \* the rows with a defect
    status     \* the exit status, -1 before

matrixVars == <<matrix, only, mpc, graded, modes, defects, status>>
vars == <<gradeVars, matrixVars>>

ModeNames == {"none", "memory", "fanout", "crash", "silent", "answer", "other", "error"}

Grades == [cause : Causes \cup {"none"} \cup NeverStarted,
           answer : Mismatches \cup {"none", "right"}, late : BOOLEAN]

TypeOK ==
    /\ GradeTypeOK
    /\ matrix \in Seq(Modes \cup {"none"})
    /\ only \in 0..(Len(matrix) + 1)
    /\ mpc \in {"rows", "started", "summary"}
    /\ graded \in Seq(Grades)
    /\ modes \in Seq(ModeNames)
    /\ defects \subseteq 1..Len(modes)
    /\ status \in {-1, 0, 1}

\* The first row is the reference; by hand there are no rows.
MatrixInit ==
    /\ Init
    /\ matrix \in IF keep THEN {<<>>}
                  ELSE {<<"none">> \o m : m \in BoundedSeq(Modes, MaxRows - 1)}
    /\ only \in 0..(Len(matrix) + 1)
    /\ mpc = "rows"
    /\ graded = <<>>
    /\ modes = <<>>
    /\ defects = {}
    /\ status = -1

-----------------------------------------------------------------------------
\* MUTANT of Own: the whole text is searched.
OwnWhole(t) == ToSet(t)

\* tail.rsplit(marker, 1)[1]: what follows the last marker.
Own(t) ==
    {t[i] : i \in {j \in 1..Len(t) : \A l \in j..Len(t) : t[l] # "marker"}}

ClassifyStatus(v) ==
    IF "MemoryError" \in Own(v.tail) THEN "memory"
    ELSE IF "BlockingIOError" \in Own(v.tail) THEN "fanout" ELSE "crash"

ClassifyDetail(v) ==
    IF v.detail \in {"candidate_output_truncated", "candidate_record_not_json"} THEN "silent"
    ELSE IF v.detail \in {"records_differ", "candidate_emitted_extra_records"} THEN "answer"
    ELSE "other"

\* classify
Classify(v) ==
    IF v.verdict = "PASS" THEN "none"
    ELSE IF v.execution.term_signal \/ v.execution.timed_out THEN "memory"
    ELSE IF v.execution.exit_code # "0" THEN ClassifyStatus(v) ELSE ClassifyDetail(v)

\* The rows that are run.
Rows == IF only = 0 THEN matrix
        ELSE IF only <= Len(matrix) THEN <<matrix[only]>> ELSE <<>>

\* The next row starts grade.py, in a directory of its own.
StartRow ==
    /\ ~keep
    /\ mpc = "rows"
    /\ Len(modes) < Len(Rows)
    /\ Start(seed)
    /\ mpc' = "started"
    /\ UNCHANGED <<matrix, only, graded, modes, defects, status>>

\* What the properties need to know of the candidate just graded.
Witness == [cause |-> ended.cause, answer |-> ended.answer, late |-> result.timed_out]

\* MUTANT of RowFails: a row without a verdict is listed and no defect.
RowFailsQuietly ==
    /\ mpc = "started"
    /\ gpc = "ended"
    /\ verdict = NoVerdict
    /\ graded' = Append(graded, Witness)
    /\ modes' = Append(modes, "error")
    /\ mpc' = "rows"
    /\ gpc' = "idle"
    /\ UNCHANGED <<keep, run, seed, input, answer, errors, result, reasons, detail, tail,
                   verdict, ended, matrix, only, defects, status>>

\* There is nothing on the grader's standard output.
RowFails ==
    /\ mpc = "started"
    /\ gpc = "ended"
    /\ verdict = NoVerdict
    /\ graded' = Append(graded, Witness)
    /\ modes' = Append(modes, "error")
    /\ defects' = defects \cup {Len(modes')}
    /\ mpc' = "rows"
    /\ gpc' = "idle"
    /\ UNCHANGED <<keep, run, seed, input, answer, errors, result, reasons, detail, tail,
                   verdict, ended, matrix, only, status>>

\* A verdict that is not the expected one, or fails in another mode, is a defect.
RowGraded ==
    /\ mpc = "started"
    /\ gpc = "ended"
    /\ verdict # NoVerdict
    /\ graded' = Append(graded, Witness)
    /\ modes' = Append(modes, Classify(verdict))
    /\ defects' = IF Last(modes') = Rows[Len(modes')] THEN defects
                  ELSE defects \cup {Len(modes')}
    /\ mpc' = "rows"
    /\ gpc' = "idle"
    /\ UNCHANGED <<keep, run, seed, input, answer, errors, result, reasons, detail, tail,
                   verdict, ended, matrix, only, status>>

\* "matrix clean", or the defects; max of no rows raises.
Summary ==
    /\ ~keep
    /\ mpc = "rows"
    /\ Len(modes) = Len(Rows)
    /\ mpc' = "summary"
    /\ status' = IF Rows # <<>> /\ defects = {} THEN 0 ELSE 1
    /\ UNCHANGED <<gradeVars, matrix, only, graded, modes, defects>>

\* grade.py --keep, started by hand with any seed.
StartByHand ==
    /\ keep
    /\ \E s \in Seeds : Start(s)
    /\ UNCHANGED matrixVars

EndByHand ==
    /\ keep
    /\ gpc = "ended"
    /\ gpc' = "idle"
    /\ UNCHANGED <<keep, run, seed, input, answer, errors, result, reasons, detail, tail,
                   verdict, ended, matrixVars>>

Next ==
    \/ Grading /\ UNCHANGED matrixVars
    \/ StartRow
    \/ RowFails
    \/ RowGraded
    \/ Summary
    \/ StartByHand
    \/ EndByHand

Spec == MatrixInit /\ [][Next]_vars

-----------------------------------------------------------------------------
(* Properties *)

\* PASS is given exactly when the candidate of this grading exited with status 0
\* in time and its answer is right for this grading's workload, whatever the
\* files of an earlier grading in the same directory would have given.
PassIsEarned ==
    gpc = "ended" /\ verdict # NoVerdict =>
        (verdict.verdict = "PASS" <=>
            /\ ended.cause = "ends"
            /\ ~result.timed_out
            /\ ended.answer = "right"
            /\ ended.seed = seed)

\* The text a verdict quotes is the candidate's own; only a candidate that never
\* started can be given that of an earlier one.
TailIsOwn ==
    gpc = "ended" /\ verdict # NoVerdict /\ keep /\ tail # <<>> =>
        \/ errors.run = run
        \/ ended.cause \in NeverStarted

\* The mode that classify derives, from a status and from text of which a part
\* may be cut off or written by apport, is the cause: no crash is taken for the
\* ceiling, no refused fork for a crash.  (A signal or a timeout says memory, whoever
\* sent it; MemoryMeansCeiling is about that.)
Cause(g) ==
    IF g.late \/ g.cause \in {"memory", "fault", "killed", "ceiling", "cpu", "wall"}
      THEN "memory"
    ELSE IF g.cause = "fanout" THEN "fanout"
    ELSE IF g.cause \in {"bug", "setup"} THEN "crash"
    ELSE IF g.answer = "right" THEN "none"
    ELSE IF g.answer \in {"records_differ", "candidate_emitted_extra_records"} THEN "answer"
    ELSE "silent"

ModeIsCause ==
    \A i \in 1..Len(modes) : modes[i] # "error" => modes[i] = Cause(graded[i])

\* Exit status 0 of the matrix is a statement about every row that was asked
\* for: it was graded to the end, and its candidate ended in the declared way.
\* Without --only the reference is one of them, and right.
CleanMatrixIsMeant ==
    status = 0 =>
        /\ Len(graded) = IF only = 0 THEN Len(matrix) ELSE 1
        /\ \A i \in 1..Len(graded) :
              /\ modes[i] # "error"
              /\ Cause(graded[i]) = matrix[IF only = 0 THEN i ELSE only]

\* verify.py:37: "memory" is "killed by the ceiling (SIGKILL / MemoryError)".
\* (Of the candidates: a child that never became one is left aside.)
MemoryMeansCeiling ==
    \A i \in 1..Len(modes) :
        modes[i] = "memory" => graded[i].cause \in {"memory", "ceiling"} \cup NeverStarted

=============================================================================
