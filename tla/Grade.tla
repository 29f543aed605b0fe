------------------------------- MODULE Grade --------------------------------
(***************************************************************************)
(* grade and main of grader/grade.py: one grading after another, each a    *)
(* process of its own, in a fresh working directory or, with --keep, in    *)
(* the same one.                                                           *)
(*                                                                         *)
(* The sandbox is taken at its word (Sandbox!ResultHonest): an exit status *)
(* or a signal, and whether the alarm fired.  The comparison is taken at   *)
(* its word too (Compare!VerdictExact).  An answer is right for one        *)
(* workload, or wrong in the way the comparison reports; standard error is *)
(* a sequence of the marks the verdicts are later searched for.            *)
(***************************************************************************)
EXTENDS Integers, Sequences, SequencesExt

CONSTANTS
    Seeds,      \* --seed, which determines the workload
    MaxRuns,    \* gradings one after another
    TailLength  \* marks that fit into the end of standard error that is kept

ASSUME GradeAssumption ==
    /\ MaxRuns \in Nat
    /\ TailLength \in Nat \ {0}

Mismatches == {"candidate_output_truncated", "candidate_record_not_json",
               "records_differ", "candidate_emitted_extra_records"}

\* Lines of standard error: the end of a traceback, apport's marker, other text.
Marks == {"MemoryError", "BlockingIOError", "TypeError", "marker", "text"}

\* What an exception leaves on standard error: its traceback, or what apport's
\* hook raises under the ceiling, the marker, and then the traceback.
Tracebacks(mark) == {<<mark>>, <<"text", "MemoryError", "marker", mark>>}

\* How a candidate can end: the cause, the status that wait4 returns, its answer
\* and its standard error.  One that was stopped may have written all of its
\* answer before, and the alarm can fire when it has just ended.  Each cause has
\* its own mark and no other: a traceback that chains two of them has no one cause.
Ending(cause, exit, timedOut, answers, errs) ==
    [cause : {cause}, exit_code : {exit}, term_signal : {exit = "none"},
     timed_out : timedOut, answer : answers, stderr : errs]

\* "bug" ends with a traceback and "fault" by a signal of its own making.
Causes == {"ends", "memory", "fanout", "bug", "fault", "ceiling", "cpu", "wall"}

\* Of a child that never became the candidate: it failed, or a signal ended it.
NeverStarted == {"setup", "killed"}

Partial == {"right", "candidate_output_truncated"}

Endings ==
    UNION {
        Ending("ends", "0", BOOLEAN, Mismatches \cup {"right"}, {<<>>, <<"text">>}),
        Ending("memory", "1", BOOLEAN, Partial, Tracebacks("MemoryError")),
        Ending("fanout", "1", BOOLEAN, Partial, Tracebacks("BlockingIOError")),
        Ending("bug", "1", BOOLEAN, Partial, Tracebacks("TypeError")),
        Ending("fault", "none", BOOLEAN, Partial, {<<>>, <<"text">>}),
        Ending("ceiling", "none", BOOLEAN, Partial, {<<>>}),
        Ending("cpu", "none", BOOLEAN, Partial, {<<>>}),
        Ending("wall", "none", {TRUE}, Partial, {<<>>})}

VARIABLES
    keep,      \* --keep: one working directory for all gradings
    run,       \* the number of the grading
    gpc,       \* the next part of grade, "idle" between gradings
    seed,      \* its --seed
    input,     \* events.ndjson: the grading it is of, 0 when there is no such
               \* file, and the seed it was generated from, 0 when it is not whole
    answer,    \* candidate.out: likewise, with how right it is for the seed
    errors,    \* candidate.err: likewise, with its marks
    result,    \* what sandbox.run returned
    reasons,   \* reasons
    detail,    \* detail["kind"], "none" when detail is None
    tail,      \* stderr_tail
    verdict,   \* what main wrote to standard output, if anything
    ended      \* history: how this grading's candidate ended

gradeVars == <<keep, run, gpc, seed, input, answer, errors, result, reasons, detail,
               tail, verdict, ended>>

NoInput == [run |-> 0, seed |-> 0]
NoAnswer == [run |-> 0, seed |-> 0, content |-> "none"]
NoErrors == [run |-> 0, content |-> <<>>]

NoResult == [exit_code |-> "none", term_signal |-> FALSE, timed_out |-> FALSE]
NoVerdict == [verdict |-> "none", detail |-> "none", execution |-> NoResult, tail |-> <<>>]
NotEnded == [cause |-> "none", answer |-> "none", seed |-> 0]

GradeTypeOK ==
    /\ keep \in BOOLEAN
    /\ run \in 0..MaxRuns
    /\ gpc \in {"idle", "generate", "sandbox", "judge", "stderr", "report", "ended"}
    /\ seed \in Seeds
    /\ input \in [run : 0..run, seed : Seeds \cup {0}]
    /\ answer \in [run : 0..run, seed : Seeds \cup {0},
                   content : Mismatches \cup {"none", "right"}]
    /\ errors \in [run : 0..run, content : Seq(Marks)]
    /\ result \in [exit_code : {"none", "0", "1", "127"}, term_signal : BOOLEAN,
                   timed_out : BOOLEAN]
    /\ reasons \subseteq {"timeout", "signal", "status", "answer"}
    /\ detail \in Mismatches \cup {"none", "ok"}
    /\ tail \in Seq(Marks) /\ Len(tail) <= TailLength
    /\ verdict.verdict \in {"none", "PASS", "FAIL"}
    /\ ended \in [cause : Causes \cup {"none"} \cup NeverStarted,
                  answer : Mismatches \cup {"none", "right"}, seed : Seeds \cup {0}]

Init ==
    /\ keep \in BOOLEAN
    /\ run = 0
    /\ gpc = "idle"
    /\ seed \in Seeds
    /\ input = NoInput
    /\ answer = NoAnswer
    /\ errors = NoErrors
    /\ result = NoResult
    /\ reasons = {}
    /\ detail = "none"
    /\ tail = <<>>
    /\ verdict = NoVerdict
    /\ ended = NotEnded

-----------------------------------------------------------------------------
\* A new process; without --keep its directory is new too.
Start(s) ==
    /\ gpc = "idle"
    /\ run < MaxRuns
    /\ run' = run + 1
    /\ seed' = s
    /\ gpc' = "generate"
    /\ IF keep THEN UNCHANGED <<input, answer, errors>>
       ELSE input' = NoInput /\ answer' = NoAnswer /\ errors' = NoErrors
    /\ result' = NoResult
    /\ reasons' = {}
    /\ detail' = "none"
    /\ tail' = <<>>
    /\ verdict' = NoVerdict
    /\ ended' = NotEnded
    /\ UNCHANGED keep

\* events.ndjson is written anew.
Generate ==
    /\ gpc = "generate"
    /\ gpc' = "sandbox"
    /\ input' = [run |-> run, seed |-> seed]
    /\ UNCHANGED <<keep, run, seed, answer, errors, result, reasons, detail, tail, verdict,
                   ended>>

\* The child fails, or is killed, before it is the candidate; the alarm may have
\* killed it, or have fired when it was failing (`late`).  `opened` is how many of
\* the two output files it had truncated by then.
SetupFails(opened, killed, late) ==
    /\ gpc = "sandbox"
    /\ gpc' = "judge"
    /\ answer' = IF opened >= 1
                   THEN [run |-> run, seed |-> seed, content |-> "candidate_output_truncated"]
                   ELSE answer
    /\ errors' = IF opened >= 2 THEN [run |-> run, content |-> <<>>]
                 ELSE errors
    /\ result' = [exit_code |-> IF killed THEN "none" ELSE "127", term_signal |-> killed,
                  timed_out |-> late]
    /\ ended' = [cause |-> IF killed THEN "killed" ELSE "setup", answer |-> "none", seed |-> seed]
    /\ UNCHANGED <<keep, run, seed, input, reasons, detail, tail, verdict>>

\* MUTANT of CandidateRuns: standard error is appended to, not truncated.
CandidateAppends(e) ==
    /\ gpc = "sandbox"
    /\ gpc' = "judge"
    /\ answer' = [run |-> run, seed |-> input.seed, content |-> e.answer]
    /\ errors' = IF errors.run # 0 THEN [errors EXCEPT !.content = @ \o e.stderr]
                 ELSE [run |-> run, content |-> e.stderr]
    /\ result' = [exit_code |-> e.exit_code, term_signal |-> e.term_signal,
                  timed_out |-> e.timed_out]
    /\ ended' = [cause |-> e.cause, answer |-> e.answer, seed |-> input.seed]
    /\ UNCHANGED <<keep, run, seed, input, reasons, detail, tail, verdict>>

\* The candidate reads the workload on its standard input, and ends.
CandidateRuns(e) ==
    /\ gpc = "sandbox"
    /\ gpc' = "judge"
    /\ answer' = [run |-> run, seed |-> input.seed, content |-> e.answer]
    /\ errors' = [run |-> run, content |-> e.stderr]
    /\ result' = [exit_code |-> e.exit_code, term_signal |-> e.term_signal,
                  timed_out |-> e.timed_out]
    /\ ended' = [cause |-> e.cause, answer |-> e.answer, seed |-> input.seed]
    /\ UNCHANGED <<keep, run, seed, input, reasons, detail, tail, verdict>>

\* MUTANT of Reasons: only a signal or a timeout, the status is left to the answer.
ReasonsWithoutStatus(r) ==
    (IF r.timed_out THEN {"timeout"} ELSE {})
        \cup (IF r.term_signal THEN {"signal"} ELSE {})

\* The reasons that the result alone gives.
Reasons(r) ==
    (IF r.timed_out THEN {"timeout"} ELSE {})
        \cup (IF r.term_signal THEN {"signal"}
              ELSE IF r.exit_code # "0" THEN {"status"} ELSE {})

\* _compare: right records of another workload differ from this one's.
Compared ==
    IF answer.content # "right" THEN answer.content
    ELSE IF answer.seed = input.seed THEN "ok" ELSE "records_differ"

\* The answer is looked at only when nothing else is wrong.
Judge ==
    /\ gpc = "judge"
    /\ Reasons(result) = {} => answer.run # 0
    /\ gpc' = "stderr"
    /\ IF Reasons(result) = {}
         THEN /\ detail' = Compared
              /\ reasons' = IF detail' = "ok" THEN {} ELSE {"answer"}
         ELSE /\ reasons' = Reasons(result)
              /\ UNCHANGED detail
    /\ UNCHANGED <<keep, run, seed, input, answer, errors, result, tail, verdict, ended>>

\* MUTANT of LastMarks: all of it.
AllMarks(t) == t

\* fh.read()[-2000:]
LastMarks(t) ==
    SubSeq(t, IF Len(t) > TailLength THEN Len(t) - TailLength + 1 ELSE 1, Len(t))

\* The last characters of candidate.err, none when there is no such file.
ReadStderr ==
    /\ gpc = "stderr"
    /\ gpc' = "report"
    /\ tail' = LastMarks(errors.content)
    /\ UNCHANGED <<keep, run, seed, input, answer, errors, result, reasons, detail, verdict,
                   ended>>

\* The verdict is written; a directory that is not kept is removed.
Report ==
    /\ gpc = "report"
    /\ gpc' = "ended"
    /\ verdict' = [verdict |-> IF reasons = {} THEN "PASS" ELSE "FAIL",
                   detail |-> detail, execution |-> result, tail |-> tail]
    /\ IF keep THEN UNCHANGED <<input, answer, errors>>
       ELSE input' = NoInput /\ answer' = NoAnswer /\ errors' = NoErrors
    /\ UNCHANGED <<keep, run, seed, result, reasons, detail, tail, ended>>

\* An exception nothing in grade catches, from a full disk, a refused fork or
\* the parser: the process ends with no verdict, and the directory stays.
Raises ==
    /\ gpc \in {"generate", "sandbox", "judge", "stderr"}
    /\ gpc = "judge" => Reasons(result) = {}
    /\ gpc' = "ended"
    /\ input' = IF gpc = "generate" THEN [run |-> run, seed |-> 0] ELSE input
    /\ UNCHANGED <<keep, run, seed, answer, errors, result, reasons, detail, tail, verdict,
                   ended>>

Grading ==
    \/ Generate
    \/ \E opened \in 0..2, killed, late \in BOOLEAN : SetupFails(opened, killed, late)
    \/ \E e \in Endings : CandidateRuns(e)
    \/ Judge
    \/ ReadStderr
    \/ Report
    \/ Raises

=============================================================================
