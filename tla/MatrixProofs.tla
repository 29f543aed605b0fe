---------------------------- MODULE MatrixProofs ----------------------------
(***************************************************************************)
(* Proofs about Matrix and the gradings it starts.                         *)
(***************************************************************************)
EXTENDS Matrix, SequenceTheorems, TLAPS

\* The verdict that the candidate of this grading has earned.
Right ==
    /\ ended.cause = "ends"
    /\ ~result.timed_out
    /\ ended.answer = "right"
    /\ ended.seed = seed

\* Between the candidate's end and the judgement: what is in the directory is
\* the candidate's own wherever the result gives no reason to fail it.
Judgeable ==
    /\ input.seed = seed
    /\ Reasons(result) = {} =>
          /\ ended = [cause |-> "ends", answer |-> answer.content, seed |-> answer.seed]
    /\ Reasons(result) # {} => ~Right

\* What each part of grade finds.
Progress ==
    /\ gpc = "sandbox" => input.seed = seed
    /\ gpc = "judge" => Judgeable
    /\ gpc \in {"generate", "sandbox", "judge"} => reasons = {} /\ detail = "none"
    /\ gpc \in {"stderr", "report"} => (reasons = {} <=> Right)
    /\ gpc \in {"generate", "sandbox", "judge", "stderr", "report"} => verdict = NoVerdict
    /\ gpc = "ended" => verdict = NoVerdict \/ (verdict.verdict = "PASS" <=> Right)

-----------------------------------------------------------------------------
\* What is found on standard error.
LEMMA StderrType ==
    /\ <<>> \in Seq(Marks)
    /\ <<"text">> \in Seq(Marks)
    /\ \A m \in Marks : Tracebacks(m) \subseteq Seq(Marks)
<1>1. <<>> \in Seq(Marks)
  OBVIOUS
<1>2. "text" \in Marks /\ "MemoryError" \in Marks /\ "marker" \in Marks
  BY DEF Marks
<1>3. \A m \in Marks : <<m>> \in Seq(Marks)
  OBVIOUS
<1>4. \A m \in Marks : <<"text", "MemoryError", "marker", m>> \in Seq(Marks)
  BY <1>2
<1> QED
  BY <1>1, <1>2, <1>3, <1>4 DEF Tracebacks

\* An ending gives reasons to fail unless the candidate ended by itself, in time.
LEMMA EndingReasons ==
    ASSUME NEW e \in Endings
    PROVE  /\ e.cause \in Causes
           /\ e.exit_code \in {"none", "0", "1"}
           /\ e.term_signal \in BOOLEAN
           /\ e.timed_out \in BOOLEAN
           /\ e.answer \in Mismatches \cup {"right"}
           /\ e.stderr \in Seq(Marks)
           /\ Reasons(e) = {} <=> e.cause = "ends" /\ ~e.timed_out
<1>1. "MemoryError" \in Marks /\ "BlockingIOError" \in Marks /\ "TypeError" \in Marks
  BY DEF Marks
<1>2. Partial \subseteq Mismatches \cup {"right"}
  BY DEF Partial, Mismatches
<1>3. CASE e \in Ending("ends", "0", BOOLEAN, Mismatches \cup {"right"}, {<<>>, <<"text">>})
  <2>1. /\ e.cause = "ends" /\ e.exit_code = "0" /\ e.term_signal = ("0" = "none")
        /\ e.timed_out \in BOOLEAN /\ e.answer \in Mismatches \cup {"right"} /\ e.stderr \in {<<>>, <<"text">>}
    BY <1>3 DEF Ending
  <2>2. e.stderr \in Seq(Marks)
    BY <1>1, <2>1, StderrType
  <2>3. Reasons(e) = {} <=> e.cause = "ends" /\ ~e.timed_out
    BY <2>1 DEF Reasons
  <2> QED
    BY <1>2, <2>1, <2>2, <2>3 DEF Causes
<1>4. CASE e \in Ending("memory", "1", BOOLEAN, Partial, Tracebacks("MemoryError"))
  <2>1. /\ e.cause = "memory" /\ e.exit_code = "1" /\ e.term_signal = ("1" = "none")
        /\ e.timed_out \in BOOLEAN /\ e.answer \in Partial /\ e.stderr \in Tracebacks("MemoryError")
    BY <1>4 DEF Ending
  <2>2. e.stderr \in Seq(Marks)
    BY <1>1, <2>1, StderrType
  <2>3. Reasons(e) = {} <=> e.cause = "ends" /\ ~e.timed_out
    BY <2>1 DEF Reasons
  <2> QED
    BY <1>2, <2>1, <2>2, <2>3 DEF Causes
<1>5. CASE e \in Ending("fanout", "1", BOOLEAN, Partial, Tracebacks("BlockingIOError"))
  <2>1. /\ e.cause = "fanout" /\ e.exit_code = "1" /\ e.term_signal = ("1" = "none")
        /\ e.timed_out \in BOOLEAN /\ e.answer \in Partial /\ e.stderr \in Tracebacks("BlockingIOError")
    BY <1>5 DEF Ending
  <2>2. e.stderr \in Seq(Marks)
    BY <1>1, <2>1, StderrType
  <2>3. Reasons(e) = {} <=> e.cause = "ends" /\ ~e.timed_out
    BY <2>1 DEF Reasons
  <2> QED
    BY <1>2, <2>1, <2>2, <2>3 DEF Causes
<1>6. CASE e \in Ending("bug", "1", BOOLEAN, Partial, Tracebacks("TypeError"))
  <2>1. /\ e.cause = "bug" /\ e.exit_code = "1" /\ e.term_signal = ("1" = "none")
        /\ e.timed_out \in BOOLEAN /\ e.answer \in Partial /\ e.stderr \in Tracebacks("TypeError")
    BY <1>6 DEF Ending
  <2>2. e.stderr \in Seq(Marks)
    BY <1>1, <2>1, StderrType
  <2>3. Reasons(e) = {} <=> e.cause = "ends" /\ ~e.timed_out
    BY <2>1 DEF Reasons
  <2> QED
    BY <1>2, <2>1, <2>2, <2>3 DEF Causes
<1>7. CASE e \in Ending("ceiling", "none", BOOLEAN, Partial, {<<>>})
  <2>1. /\ e.cause = "ceiling" /\ e.exit_code = "none" /\ e.term_signal = ("none" = "none")
        /\ e.timed_out \in BOOLEAN /\ e.answer \in Partial /\ e.stderr \in {<<>>}
    BY <1>7 DEF Ending
  <2>2. e.stderr \in Seq(Marks)
    BY <1>1, <2>1, StderrType
  <2>3. Reasons(e) = {} <=> e.cause = "ends" /\ ~e.timed_out
    BY <2>1 DEF Reasons
  <2> QED
    BY <1>2, <2>1, <2>2, <2>3 DEF Causes
<1>8. CASE e \in Ending("cpu", "none", BOOLEAN, Partial, {<<>>})
  <2>1. /\ e.cause = "cpu" /\ e.exit_code = "none" /\ e.term_signal = ("none" = "none")
        /\ e.timed_out \in BOOLEAN /\ e.answer \in Partial /\ e.stderr \in {<<>>}
    BY <1>8 DEF Ending
  <2>2. e.stderr \in Seq(Marks)
    BY <1>1, <2>1, StderrType
  <2>3. Reasons(e) = {} <=> e.cause = "ends" /\ ~e.timed_out
    BY <2>1 DEF Reasons
  <2> QED
    BY <1>2, <2>1, <2>2, <2>3 DEF Causes
<1>9. CASE e \in Ending("wall", "none", {TRUE}, Partial, {<<>>})
  <2>1. /\ e.cause = "wall" /\ e.exit_code = "none" /\ e.term_signal = ("none" = "none")
        /\ e.timed_out \in {TRUE} /\ e.answer \in Partial /\ e.stderr \in {<<>>}
    BY <1>9 DEF Ending
  <2>2. e.stderr \in Seq(Marks)
    BY <1>1, <2>1, StderrType
  <2>3. Reasons(e) = {} <=> e.cause = "ends" /\ ~e.timed_out
    BY <2>1 DEF Reasons
  <2> QED
    BY <1>2, <2>1, <2>2, <2>3 DEF Causes
<1>10. CASE e \in Ending("fault", "none", BOOLEAN, Partial, {<<>>, <<"text">>})
  <2>1. /\ e.cause = "fault" /\ e.exit_code = "none" /\ e.term_signal = ("none" = "none")
        /\ e.timed_out \in BOOLEAN /\ e.answer \in Partial /\ e.stderr \in {<<>>, <<"text">>}
    BY <1>10 DEF Ending
  <2>2. e.stderr \in Seq(Marks)
    BY <1>1, <2>1, StderrType
  <2>3. Reasons(e) = {} <=> e.cause = "ends" /\ ~e.timed_out
    BY <2>1 DEF Reasons
  <2> QED
    BY <1>2, <2>1, <2>2, <2>3 DEF Causes
<1> QED
  BY <1>3, <1>4, <1>5, <1>6, <1>7, <1>8, <1>9, <1>10 DEF Endings

LEMMA LastMarksType ==
    ASSUME NEW t \in Seq(Marks)
    PROVE  LastMarks(t) \in Seq(Marks) /\ Len(LastMarks(t)) <= TailLength
<1>1. TailLength \in Nat /\ Len(t) \in Nat
  BY GradeAssumption
<1>2. CASE Len(t) > TailLength
  <2>1. LastMarks(t) = SubSeq(t, Len(t) - TailLength + 1, Len(t))
    BY <1>2 DEF LastMarks
  <2>2. Len(t) - TailLength + 1 \in 1..(Len(t) + 1)
    BY <1>1, <1>2
  <2> QED
    BY <1>1, <1>2, <2>1, <2>2, SubSeqProperties
<1>3. CASE Len(t) <= TailLength
  <2>1. ~(Len(t) > TailLength)
    BY <1>1, <1>3
  <2>2. LastMarks(t) = SubSeq(t, 1, Len(t))
    BY <2>1 DEF LastMarks
  <2> QED
    BY <1>1, <1>3, <2>2, SubSeqProperties
<1> QED
  BY <1>1, <1>2, <1>3

-----------------------------------------------------------------------------
(* Types *)

LEMMA NothingTypes ==
    ASSUME NEW r \in Nat
    PROVE  /\ NoInput \in [run : 0..r, seed : Seeds \cup {0}]
           /\ NoAnswer \in [run : 0..r, seed : Seeds \cup {0},
                             content : Mismatches \cup {"none", "right"}]
           /\ NoErrors \in [run : 0..r, content : Seq(Marks)]
           /\ NoResult \in [exit_code : {"none", "0", "1", "127"}, term_signal : BOOLEAN,
                             timed_out : BOOLEAN]
           /\ NoVerdict.verdict = "none"
           /\ NotEnded \in [cause : Causes \cup {"none"} \cup NeverStarted,
                             answer : Mismatches \cup {"none", "right"},
                             seed : Seeds \cup {0}]
<1>1. 0 \in 0..r /\ <<>> \in Seq(Marks)
  OBVIOUS
<1> QED
  BY <1>1 DEF NoInput, NoAnswer, NoErrors, NoResult, NoVerdict, NotEnded

LEMMA StartTypes ==
    ASSUME GradeTypeOK, NEW s \in Seeds, Start(s)
    PROVE  GradeTypeOK'
<1>1. run' \in 0..MaxRuns /\ run' \in Nat /\ 0..run \subseteq 0..run'
  BY GradeAssumption DEF GradeTypeOK, Start
<1>2. /\ keep' \in BOOLEAN /\ seed' \in Seeds /\ gpc' = "generate"
      /\ reasons' = {} /\ detail' = "none"
      /\ tail' \in Seq(Marks) /\ Len(tail') <= TailLength
  BY GradeAssumption DEF GradeTypeOK, Start
<1>3. /\ input' \in [run : 0..run', seed : Seeds \cup {0}]
      /\ answer' \in [run : 0..run', seed : Seeds \cup {0},
                      content : Mismatches \cup {"none", "right"}]
      /\ errors' \in [run : 0..run', content : Seq(Marks)]
  <2>1. CASE keep
    BY <1>1, <2>1 DEF GradeTypeOK, Start
  <2>2. CASE ~keep
    BY <1>1, <2>2, NothingTypes DEF Start
  <2> QED
    BY <2>1, <2>2
<1>4. result' = NoResult /\ verdict' = NoVerdict /\ ended' = NotEnded
  BY DEF Start
<1> QED
  BY <1>1, <1>2, <1>3, <1>4, NothingTypes DEF GradeTypeOK

LEMMA GradingTypes ==
    ASSUME GradeTypeOK, Grading
    PROVE  GradeTypeOK'
<1> USE DEF GradeTypeOK
<1>0. run \in Nat /\ run \in 0..run
  OBVIOUS
<1>1. CASE Generate
  <2>1. input' \in [run : 0..run, seed : Seeds \cup {0}]
    BY <1>0, <1>1 DEF Generate
  <2> QED
    BY <1>1, <2>1 DEF Generate
<1>2. ASSUME NEW opened \in 0..2, NEW killed \in BOOLEAN, NEW late \in BOOLEAN,
             SetupFails(opened, killed, late)
      PROVE  GradeTypeOK'
  <2>1. answer' \in [run : 0..run, seed : Seeds \cup {0},
                     content : Mismatches \cup {"none", "right"}]
    BY <1>0, <1>2 DEF SetupFails, Mismatches
  <2>2. errors' \in [run : 0..run, content : Seq(Marks)]
    BY <1>0, <1>2, StderrType DEF SetupFails
  <2>3. /\ result' \in [exit_code : {"none", "0", "1", "127"}, term_signal : BOOLEAN,
                        timed_out : BOOLEAN]
        /\ ended' \in [cause : Causes \cup {"none"} \cup NeverStarted,
                       answer : Mismatches \cup {"none", "right"}, seed : Seeds \cup {0}]
    BY <1>2 DEF SetupFails, NeverStarted
  <2> QED
    BY <1>2, <2>1, <2>2, <2>3 DEF SetupFails
<1>3. ASSUME NEW e \in Endings, CandidateRuns(e)
      PROVE  GradeTypeOK'
  <2>1. answer' \in [run : 0..run, seed : Seeds \cup {0},
                     content : Mismatches \cup {"none", "right"}]
    BY <1>0, <1>3, EndingReasons DEF CandidateRuns
  <2>2. errors' \in [run : 0..run, content : Seq(Marks)]
    BY <1>0, <1>3, EndingReasons DEF CandidateRuns
  <2>3. /\ result' \in [exit_code : {"none", "0", "1", "127"}, term_signal : BOOLEAN,
                        timed_out : BOOLEAN]
        /\ ended' \in [cause : Causes \cup {"none"} \cup NeverStarted,
                       answer : Mismatches \cup {"none", "right"}, seed : Seeds \cup {0}]
    BY <1>3, EndingReasons DEF CandidateRuns
  <2> QED
    BY <1>3, <2>1, <2>2, <2>3 DEF CandidateRuns
<1>4. CASE Judge
  <2>1. CASE Reasons(result) = {}
    <3>1. answer.content # "none" => detail' \in Mismatches \cup {"ok"}
      BY <1>4, <2>1 DEF Judge, Compared, Mismatches
    <3>2. detail' \in Mismatches \cup {"none", "ok"}
      BY <1>4, <2>1, <3>1 DEF Judge, Compared
    <3> QED
      BY <1>4, <2>1, <3>2 DEF Judge
  <2>2. CASE Reasons(result) # {}
    <3>1. Reasons(result) \subseteq {"timeout", "signal", "status", "answer"}
      BY DEF Reasons
    <3>2. reasons' = Reasons(result) /\ detail' = detail
      BY <1>4, <2>2 DEF Judge
    <3> QED
      BY <1>4, <3>1, <3>2 DEF Judge
  <2> QED
    BY <2>1, <2>2
<1>5. CASE ReadStderr
  <2>1. errors.content \in Seq(Marks)
    OBVIOUS
  <2>2. tail' \in Seq(Marks) /\ Len(tail') <= TailLength
    BY <1>5, <2>1, LastMarksType DEF ReadStderr
  <2> QED
    BY <1>5, <2>2 DEF ReadStderr
<1>6. CASE Report
  <2>1. /\ input' \in [run : 0..run, seed : Seeds \cup {0}]
        /\ answer' \in [run : 0..run, seed : Seeds \cup {0},
                        content : Mismatches \cup {"none", "right"}]
        /\ errors' \in [run : 0..run, content : Seq(Marks)]
    <3>1. CASE keep
      BY <1>6, <3>1 DEF Report
    <3>2. CASE ~keep
      BY <1>0, <1>6, <3>2, NothingTypes DEF Report
    <3> QED
      BY <3>1, <3>2
  <2>2. verdict'.verdict \in {"none", "PASS", "FAIL"}
    BY <1>6 DEF Report
  <2> QED
    BY <1>6, <2>1, <2>2 DEF Report
<1>7. CASE Raises
  <2>1. input' \in [run : 0..run, seed : Seeds \cup {0}]
    BY <1>0, <1>7 DEF Raises
  <2> QED
    BY <1>7, <2>1 DEF Raises
<1> QED
  BY <1>1, <1>2, <1>3, <1>4, <1>5, <1>6, <1>7 DEF Grading

LEMMA ClassifyType == ASSUME NEW v PROVE Classify(v) \in ModeNames
<1>1. ClassifyStatus(v) \in ModeNames
  BY DEF ClassifyStatus, ModeNames
<1>2. ClassifyDetail(v) \in ModeNames
  BY DEF ClassifyDetail, ModeNames
<1> QED
  BY <1>1, <1>2 DEF Classify, ModeNames

LEMMA WitnessType == GradeTypeOK => Witness \in Grades
BY DEF GradeTypeOK, Witness, Grades

\* A row is added to the table.
LEMMA RowTypes ==
    ASSUME TypeOK, NEW mode \in ModeNames, graded' = Append(graded, Witness),
           modes' = Append(modes, mode), defects' \subseteq defects \cup {Len(modes')}
    PROVE  /\ graded' \in Seq(Grades)
           /\ modes' \in Seq(ModeNames)
           /\ defects' \subseteq 1..Len(modes')
<1>1. graded' \in Seq(Grades)
  BY WitnessType DEF TypeOK
<1>2. modes' \in Seq(ModeNames) /\ Len(modes') = Len(modes) + 1 /\ Len(modes) \in Nat
  BY DEF TypeOK
<1>3. 1..Len(modes) \subseteq 1..Len(modes') /\ Len(modes') \in 1..Len(modes')
  BY <1>2
<1> QED
  BY <1>1, <1>2, <1>3 DEF TypeOK

LEMMA TypeInit == MatrixInit => TypeOK
<1> SUFFICES ASSUME MatrixInit PROVE TypeOK
  OBVIOUS
<1>1. GradeTypeOK
  <2>1. 0 \in 0..MaxRuns /\ 0 \in Nat /\ <<>> \in Seq(Marks) /\ Len(<<>>) <= TailLength
    BY GradeAssumption
  <2>2. run = 0
    BY DEF MatrixInit, Init
  <2> QED
    BY <2>1, <2>2, NothingTypes DEF MatrixInit, Init, GradeTypeOK
<1>2. matrix \in Seq(Modes \cup {"none"})
  <2>1. \A m \in BoundedSeq(Modes, MaxRows - 1) : m \in Seq(Modes)
    BY DEF BoundedSeq, SeqOf
  <2>2. \A m \in Seq(Modes) : <<"none">> \o m \in Seq(Modes \cup {"none"})
    <3>1. <<"none">> \in Seq(Modes \cup {"none"})
      OBVIOUS
    <3>2. \A m \in Seq(Modes) : m \in Seq(Modes \cup {"none"})
      OBVIOUS
    <3> QED
      BY <3>1, <3>2
  <2>3. <<>> \in Seq(Modes \cup {"none"})
    OBVIOUS
  <2> QED
    BY <2>1, <2>2, <2>3 DEF MatrixInit
<1>3. graded \in Seq(Grades) /\ modes \in Seq(ModeNames) /\ defects \subseteq 1..Len(modes)
  BY DEF MatrixInit
<1> QED
  BY <1>1, <1>2, <1>3 DEF MatrixInit, TypeOK

LEMMA TypeStep == TypeOK /\ [Next]_vars => TypeOK'
<1> SUFFICES ASSUME TypeOK, [Next]_vars PROVE TypeOK'
  OBVIOUS
<1>1. CASE Grading /\ UNCHANGED matrixVars
  BY <1>1, GradingTypes DEF TypeOK, matrixVars
<1>2. CASE StartRow
  <2>1. GradeTypeOK'
    BY <1>2, StartTypes DEF TypeOK, GradeTypeOK, StartRow
  <2> QED
    BY <1>2, <2>1 DEF TypeOK, StartRow
<1>3. CASE RowFails
  <2>1. /\ graded' \in Seq(Grades)
        /\ modes' \in Seq(ModeNames)
        /\ defects' \subseteq 1..Len(modes')
    <3>1. "error" \in ModeNames
      BY DEF ModeNames
    <3> QED
      BY <1>3, <3>1, RowTypes DEF RowFails
  <2>2. GradeTypeOK'
    BY <1>3 DEF TypeOK, GradeTypeOK, RowFails
  <2> QED
    BY <1>3, <2>1, <2>2 DEF TypeOK, RowFails
<1>4. CASE RowGraded
  <2>1. /\ graded' \in Seq(Grades)
        /\ modes' \in Seq(ModeNames)
        /\ defects' \subseteq 1..Len(modes')
    <3>1. defects' \subseteq defects \cup {Len(modes')}
      BY <1>4 DEF RowGraded
    <3>2. graded' = Append(graded, Witness) /\ modes' = Append(modes, Classify(verdict))
      BY <1>4 DEF RowGraded
    <3> QED
      BY <3>1, <3>2, ClassifyType, RowTypes
  <2>2. GradeTypeOK'
    BY <1>4 DEF TypeOK, GradeTypeOK, RowGraded
  <2> QED
    BY <1>4, <2>1, <2>2 DEF TypeOK, RowGraded
<1>5. CASE Summary
  <2>1. GradeTypeOK'
    BY <1>5 DEF TypeOK, GradeTypeOK, Summary, gradeVars
  <2> QED
    BY <1>5, <2>1 DEF TypeOK, Summary
<1>6. CASE StartByHand
  <2>1. GradeTypeOK'
    BY <1>6, StartTypes DEF TypeOK, StartByHand
  <2> QED
    BY <1>6, <2>1 DEF TypeOK, StartByHand, matrixVars
<1>7. CASE EndByHand
  <2>1. GradeTypeOK'
    BY <1>7 DEF TypeOK, GradeTypeOK, EndByHand
  <2> QED
    BY <1>7, <2>1 DEF TypeOK, EndByHand, matrixVars
<1>8. CASE UNCHANGED vars
  <2>1. GradeTypeOK'
    BY <1>8 DEF TypeOK, GradeTypeOK, vars, gradeVars
  <2> QED
    BY <1>8, <2>1 DEF TypeOK, vars, matrixVars
<1> QED
  BY <1>1, <1>2, <1>3, <1>4, <1>5, <1>6, <1>7, <1>8 DEF Next

\* Every variable of the gradings and of the matrix keeps its type, for any
\* number of gradings and rows.
THEOREM TypeCorrect == Spec => []TypeOK
<1> QED
  BY TypeInit, TypeStep, PTL DEF Spec

-----------------------------------------------------------------------------
(* The verdict *)

LEMMA ProgressInit == MatrixInit => Progress
BY DEF MatrixInit, Init, Progress

\* Nothing that does not touch the grading disturbs its progress.
LEMMA ProgressKept == Progress /\ UNCHANGED gradeVars => Progress'
BY DEF Progress, Judgeable, Right, gradeVars

LEMMA ProgressIdle ==
    ASSUME gpc' = "idle"
    PROVE  Progress'
BY DEF Progress

LEMMA ProgressStart ==
    ASSUME NEW s \in Seeds, Start(s)
    PROVE  Progress'
BY DEF Start, Progress

LEMMA ProgressGrading ==
    ASSUME GradeTypeOK, Progress, Grading
    PROVE  Progress'
<1>1. CASE Generate
  BY <1>1 DEF Generate, Progress
<1>2. ASSUME NEW opened \in 0..2, NEW killed \in BOOLEAN, NEW late \in BOOLEAN,
             SetupFails(opened, killed, late)
      PROVE  Progress'
  <2>1. /\ gpc = "sandbox" /\ gpc' = "judge" /\ input' = input /\ seed' = seed
        /\ reasons' = reasons /\ detail' = detail /\ verdict' = verdict
        /\ ended'.cause # "ends"
        /\ Reasons(result') # {}
    BY <1>2 DEF SetupFails, Reasons
  <2>2. Judgeable'
    BY <2>1 DEF Progress, Judgeable, Right
  <2> QED
    BY <2>1, <2>2 DEF Progress
<1>3. ASSUME NEW e \in Endings, CandidateRuns(e)
      PROVE  Progress'
  <2>1. /\ gpc = "sandbox" /\ gpc' = "judge" /\ input' = input /\ seed' = seed
        /\ reasons' = reasons /\ detail' = detail /\ verdict' = verdict
        /\ ended' = [cause |-> e.cause, answer |-> e.answer, seed |-> input.seed]
        /\ answer'.content = e.answer /\ answer'.seed = input.seed
        /\ result'.timed_out = e.timed_out
    BY <1>3 DEF CandidateRuns
  <2>2. Reasons(result') = Reasons(e)
    BY <1>3 DEF CandidateRuns, Reasons
  <2>3. Reasons(result') = {} <=> ended'.cause = "ends" /\ ~result'.timed_out
    BY <2>1, <2>2, EndingReasons
  <2>4. Judgeable'
    BY <2>1, <2>3 DEF Progress, Judgeable, Right
  <2> QED
    BY <2>1, <2>4 DEF Progress
<1>4. CASE Judge
  <2>1. /\ gpc = "judge" /\ gpc' = "stderr" /\ Judgeable /\ verdict = NoVerdict
        /\ verdict' = verdict
        /\ Right' <=> Right
    BY <1>4 DEF Judge, Progress, Right
  <2>2. CASE Reasons(result) = {}
    <3>1. /\ ended.cause = "ends" /\ ended.answer = answer.content
          /\ ended.seed = answer.seed /\ input.seed = seed
      BY <2>1, <2>2 DEF Judgeable
    <3>2. ~result.timed_out
      BY <2>2 DEF Reasons
    <3>3. Compared = "ok" <=> answer.content = "right" /\ answer.seed = input.seed
      BY DEF Compared, GradeTypeOK, Mismatches
    <3>4. reasons' = {} <=> Compared = "ok"
      BY <1>4, <2>2 DEF Judge
    <3>5. reasons' = {} <=> Right
      BY <3>1, <3>2, <3>3, <3>4 DEF Right
    <3> QED
      BY <2>1, <3>5 DEF Progress
  <2>3. CASE Reasons(result) # {}
    <3>1. reasons' # {} /\ ~Right
      BY <1>4, <2>1, <2>3 DEF Judge, Judgeable
    <3> QED
      BY <2>1, <3>1 DEF Progress
  <2> QED
    BY <2>2, <2>3
<1>5. CASE ReadStderr
  BY <1>5 DEF ReadStderr, Progress, Right
<1>6. CASE Report
  <2>1. gpc = "report" /\ gpc' = "ended" /\ (reasons = {} <=> Right) /\ (Right' <=> Right)
    BY <1>6 DEF Report, Progress, Right
  <2>2. verdict'.verdict = "PASS" <=> reasons = {}
    BY <1>6 DEF Report
  <2> QED
    BY <2>1, <2>2 DEF Progress
<1>7. CASE Raises
  BY <1>7 DEF Raises, Progress
<1> QED
  BY <1>1, <1>2, <1>3, <1>4, <1>5, <1>6, <1>7 DEF Grading

LEMMA ProgressStep == TypeOK /\ Progress /\ [Next]_vars => Progress'
<1> SUFFICES ASSUME TypeOK, Progress, [Next]_vars PROVE Progress'
  OBVIOUS
<1>1. CASE Grading
  BY <1>1, ProgressGrading DEF TypeOK
<1>2. CASE StartRow \/ StartByHand
  BY <1>2, ProgressStart DEF StartRow, StartByHand, TypeOK, GradeTypeOK
<1>3. CASE RowFails \/ RowGraded \/ EndByHand
  BY <1>3, ProgressIdle DEF RowFails, RowGraded, EndByHand
<1>4. CASE Summary \/ UNCHANGED vars
  BY <1>4, ProgressKept DEF Summary, vars
<1> QED
  BY <1>1, <1>2, <1>3, <1>4 DEF Next

\* The verdict is PASS exactly for a right answer, given in time with status 0
\* by the candidate of this grading, whatever a kept directory holds.
THEOREM PassIsAlwaysEarned == Spec => []PassIsEarned
<1>1. MatrixInit => TypeOK /\ Progress
  BY TypeInit, ProgressInit
<1>2. TypeOK /\ Progress /\ [Next]_vars => (TypeOK /\ Progress)'
  BY TypeStep, ProgressStep
<1>3. TypeOK /\ Progress => PassIsEarned
  BY DEF Progress, PassIsEarned, Right
<1> QED
  BY <1>1, <1>2, <1>3, PTL DEF Spec

-----------------------------------------------------------------------------
(* The failure mode *)

\* The end of a traceback is among the last marks, and after apport's marker.
LEMMA OwnTraceback ==
    ASSUME NEW m \in Marks \ {"marker"}, NEW t \in Tracebacks(m)
    PROVE  Own(LastMarks(t)) = {m}
<1>1. TailLength \in Nat /\ TailLength >= 1
  BY GradeAssumption
<1>2. CASE t = <<m>>
  <2>1. Len(t) = 1 /\ t[1] = m
    BY <1>2
  <2>2. LastMarks(t) = SubSeq(t, 1, 1)
    BY <1>1, <2>1 DEF LastMarks
  <2>3. LastMarks(t) = <<m>>
    <3> DEFINE u == SubSeq(<<m>>, 1, 1)
    <3>1. Len(<<m>>) = 1 /\ <<m>>[1] = m /\ <<m>> \in Seq(Marks)
      OBVIOUS
    <3>2. u \in Seq(Marks) /\ Len(u) = 1 /\ u[1] = m
      BY <3>1
    <3>3. \A i \in 1 .. Len(u) : u[i] = <<m>>[i]
      BY <3>1, <3>2
    <3>4. u = <<m>>
      <4> HIDE DEF u
      <4> QED
        BY <3>1, <3>2, <3>3, SeqEqual
    <3> QED
      BY <1>2, <2>2, <3>4
  <2> QED
    <3>1. Len(<<m>>) = 1 /\ <<m>>[1] = m /\ m # "marker"
      OBVIOUS
    <3>2. Own(<<m>>) = {m}
      BY <3>1 DEF Own
    <3> QED
      BY <2>3, <3>2
<1>3. CASE t = <<"text", "MemoryError", "marker", m>>
  <2>1. Len(t) = 4
    BY <1>3
  <2>2. CASE TailLength = 1
    <3>1. LastMarks(t) = SubSeq(t, 4, 4)
      BY <2>1, <2>2 DEF LastMarks
    <3>2. LastMarks(t) = <<m>>
      BY <1>3, <3>1
    <3> QED
      BY <3>2 DEF Own
  <2>3. CASE TailLength = 2
    <3>1. LastMarks(t) = SubSeq(t, 3, 4)
      BY <2>1, <2>3 DEF LastMarks
    <3>2. LastMarks(t) = <<"marker", m>>
      BY <1>3, <3>1
    <3> QED
      BY <3>2 DEF Own
  <2>4. CASE TailLength = 3
    <3>1. LastMarks(t) = SubSeq(t, 2, 4)
      BY <2>1, <2>4 DEF LastMarks
    <3>2. LastMarks(t) = <<"MemoryError", "marker", m>>
      BY <1>3, <3>1
    <3> QED
      BY <3>2 DEF Own
  <2>5. CASE TailLength > 3
    <3>1. LastMarks(t) = SubSeq(t, 1, 4)
      BY <1>1, <2>1, <2>5 DEF LastMarks
    <3>2. LastMarks(t) = <<"text", "MemoryError", "marker", m>>
      BY <1>3, <3>1
    <3> QED
      BY <3>2 DEF Own
  <2> QED
    BY <1>1, <2>2, <2>3, <2>4, <2>5
<1> QED
  BY <1>2, <1>3 DEF Tracebacks

LEMMA OwnNothing == Own(LastMarks(<<>>)) = {}
<1>1. TailLength \in Nat
  BY GradeAssumption
<1>2. LastMarks(<<>>) = SubSeq(<<>>, 1, 0)
  BY <1>1 DEF LastMarks
<1>3. SubSeq(<<>>, 1, 0) = <<>>
  OBVIOUS
<1> QED
  BY <1>2, <1>3 DEF Own

\* The status and the words found on standard error tell the cause of an ending.
Tells(c, r, words) ==
    \/ r.timed_out
    \/ r.term_signal /\ c \in {"fault", "killed", "ceiling", "cpu", "wall"}
    \/ ~r.term_signal /\ r.exit_code = "0" /\ c = "ends"
    \/ ~r.term_signal /\ r.exit_code = "1" /\ c = "memory" /\ words = {"MemoryError"}
    \/ ~r.term_signal /\ r.exit_code = "1" /\ c = "fanout" /\ words = {"BlockingIOError"}
    \/ ~r.term_signal /\ r.exit_code = "1" /\ c = "bug" /\ words = {"TypeError"}
    \/ ~r.term_signal /\ r.exit_code = "127" /\ c = "setup" /\ words = {}

\* The answer alone decides where the result gives no reason to fail.
Answered(d) ==
    Reasons(result) = {} =>
        /\ ended.seed = seed
        /\ ended.answer # "none"
        /\ d = IF ended.answer = "right" THEN "ok" ELSE ended.answer

\* What is known of the grading of a row, whose directory is new.
Told ==
    /\ gpc \in {"generate", "sandbox"} => errors = NoErrors
    /\ gpc \in {"judge", "stderr"} =>
          Tells(ended.cause, result, Own(LastMarks(errors.content)))
    /\ gpc = "judge" => (Reasons(result) = {} =>
          answer.seed = input.seed /\ answer.content # "none")
    /\ gpc \in {"stderr", "report"} => Answered(detail)
    /\ gpc = "report" => Tells(ended.cause, result, Own(tail))
    /\ gpc = "ended" =>
          \/ verdict = NoVerdict
          \/ /\ verdict.execution = result
             /\ Answered(verdict.detail)
             /\ Tells(ended.cause, result, Own(verdict.tail))

LEMMA EndingTells ==
    ASSUME NEW e \in Endings
    PROVE  Tells(e.cause, e, Own(LastMarks(e.stderr)))
<1>1. CASE e \in Ending("ends", "0", BOOLEAN, Mismatches \cup {"right"}, {<<>>, <<"text">>})
  <2>1. /\ e.cause = "ends" /\ e.exit_code = "0" /\ e.term_signal = ("0" = "none")
        /\ e.timed_out \in BOOLEAN /\ e.stderr \in {<<>>, <<"text">>}
    BY <1>1 DEF Ending
  <2> QED
    BY <2>1 DEF Tells
<1>2. CASE e \in Ending("memory", "1", BOOLEAN, Partial, Tracebacks("MemoryError"))
  <2>1. /\ e.cause = "memory" /\ e.exit_code = "1" /\ e.term_signal = ("1" = "none")
        /\ e.timed_out \in BOOLEAN /\ e.stderr \in Tracebacks("MemoryError")
    BY <1>2 DEF Ending
  <2>2. Own(LastMarks(e.stderr)) = {"MemoryError"}
    BY <2>1, OwnTraceback DEF Marks
  <2> QED
    BY <2>1, <2>2 DEF Tells
<1>3. CASE e \in Ending("fanout", "1", BOOLEAN, Partial, Tracebacks("BlockingIOError"))
  <2>1. /\ e.cause = "fanout" /\ e.exit_code = "1" /\ e.term_signal = ("1" = "none")
        /\ e.timed_out \in BOOLEAN /\ e.stderr \in Tracebacks("BlockingIOError")
    BY <1>3 DEF Ending
  <2>2. Own(LastMarks(e.stderr)) = {"BlockingIOError"}
    BY <2>1, OwnTraceback DEF Marks
  <2> QED
    BY <2>1, <2>2 DEF Tells
<1>4. CASE e \in Ending("bug", "1", BOOLEAN, Partial, Tracebacks("TypeError"))
  <2>1. /\ e.cause = "bug" /\ e.exit_code = "1" /\ e.term_signal = ("1" = "none")
        /\ e.timed_out \in BOOLEAN /\ e.stderr \in Tracebacks("TypeError")
    BY <1>4 DEF Ending
  <2>2. Own(LastMarks(e.stderr)) = {"TypeError"}
    BY <2>1, OwnTraceback DEF Marks
  <2> QED
    BY <2>1, <2>2 DEF Tells
<1>5. CASE e \in Ending("ceiling", "none", BOOLEAN, Partial, {<<>>})
  <2>1. /\ e.cause = "ceiling" /\ e.exit_code = "none" /\ e.term_signal = ("none" = "none")
        /\ e.timed_out \in BOOLEAN /\ e.stderr \in {<<>>}
    BY <1>5 DEF Ending
  <2> QED
    BY <2>1 DEF Tells
<1>6. CASE e \in Ending("cpu", "none", BOOLEAN, Partial, {<<>>})
  <2>1. /\ e.cause = "cpu" /\ e.exit_code = "none" /\ e.term_signal = ("none" = "none")
        /\ e.timed_out \in BOOLEAN /\ e.stderr \in {<<>>}
    BY <1>6 DEF Ending
  <2> QED
    BY <2>1 DEF Tells
<1>7. CASE e \in Ending("wall", "none", {TRUE}, Partial, {<<>>})
  <2>1. /\ e.cause = "wall" /\ e.exit_code = "none" /\ e.term_signal = ("none" = "none")
        /\ e.timed_out \in {TRUE} /\ e.stderr \in {<<>>}
    BY <1>7 DEF Ending
  <2> QED
    BY <2>1 DEF Tells
<1>8. CASE e \in Ending("fault", "none", BOOLEAN, Partial, {<<>>, <<"text">>})
  <2>1. e.cause = "fault" /\ e.term_signal = ("none" = "none") /\ e.timed_out \in BOOLEAN
    BY <1>8 DEF Ending
  <2> QED
    BY <2>1 DEF Tells
<1> QED
  BY <1>1, <1>2, <1>3, <1>4, <1>5, <1>6, <1>7, <1>8 DEF Endings

\* classify finds the cause in what is told.
LEMMA Classified ==
    ASSUME GradeTypeOK,
           verdict.execution = result,
           verdict.verdict = "PASS" <=> Right,
           Answered(verdict.detail),
           Tells(ended.cause, result, Own(verdict.tail))
    PROVE  Classify(verdict) = Cause(Witness)
<1> DEFINE c == ended.cause
           words == Own(verdict.tail)
<1>1. /\ Witness.cause = ended.cause /\ Witness.answer = ended.answer
      /\ Witness.late = result.timed_out
      /\ result.timed_out \in BOOLEAN /\ result.term_signal \in BOOLEAN
  BY DEF Witness, GradeTypeOK
<1>2. CASE result.timed_out
  <2>1. verdict.verdict # "PASS"
    BY <1>2 DEF Right
  <2> QED
    BY <1>1, <1>2, <2>1 DEF Classify, Cause
<1>3. CASE ~result.timed_out /\ result.term_signal
  <2>1. c \in {"fault", "killed", "ceiling", "cpu", "wall"}
    BY <1>3 DEF Tells
  <2>2. verdict.verdict # "PASS"
    BY <2>1 DEF Right
  <2> QED
    BY <1>1, <1>3, <2>1, <2>2 DEF Classify, Cause
<1>4. CASE ~result.timed_out /\ ~result.term_signal /\ c = "ends"
  <2>1. result.exit_code = "0"
    BY <1>4 DEF Tells
  <2>2. Reasons(result) = {}
    BY <1>4, <2>1 DEF Reasons
  <2>3. /\ ended.seed = seed /\ ended.answer # "none"
        /\ verdict.detail = IF ended.answer = "right" THEN "ok" ELSE ended.answer
    BY <2>2 DEF Answered
  <2>4. Right <=> ended.answer = "right"
    BY <1>4, <2>3 DEF Right
  <2>5. ended.answer \in Mismatches \cup {"right"}
    BY <2>3 DEF GradeTypeOK
  <2>6. CASE ended.answer = "right"
    BY <1>1, <1>4, <2>4, <2>6 DEF Classify, Cause
  <2>7. CASE ended.answer \in Mismatches
    <3>1. verdict.verdict # "PASS" /\ verdict.detail = ended.answer
      BY <2>3, <2>4, <2>7 DEF Mismatches
    <3>2. Classify(verdict) = ClassifyDetail(verdict)
      BY <1>4, <2>1, <3>1 DEF Classify
    <3>3. ClassifyDetail(verdict) = Cause(Witness)
      BY <1>1, <1>4, <2>7, <3>1 DEF ClassifyDetail, Cause, Mismatches
    <3> QED
      BY <3>2, <3>3
  <2> QED
    BY <2>5, <2>6, <2>7
<1>5. CASE ~result.timed_out /\ ~result.term_signal /\ c # "ends"
  <2>1. /\ result.exit_code # "0"
        /\ \/ c = "memory" /\ words = {"MemoryError"}
           \/ c = "fanout" /\ words = {"BlockingIOError"}
           \/ c = "bug" /\ words = {"TypeError"}
           \/ c = "setup" /\ words = {}
    BY <1>5 DEF Tells
  <2>2. verdict.verdict # "PASS"
    BY <1>5 DEF Right
  <2>3. Classify(verdict) = ClassifyStatus(verdict)
    BY <1>5, <2>1, <2>2 DEF Classify
  <2>4. ClassifyStatus(verdict) = Cause(Witness)
    BY <1>1, <1>5, <2>1 DEF ClassifyStatus, Cause
  <2> QED
    BY <2>3, <2>4
<1> QED
  BY <1>1, <1>2, <1>3, <1>4, <1>5

LEMMA ToldKept == Told /\ UNCHANGED gradeVars => Told'
BY DEF Told, Answered, gradeVars

LEMMA ToldGrading ==
    ASSUME GradeTypeOK, Progress, Told, ~keep, Grading
    PROVE  Told'
<1>1. CASE Generate
  BY <1>1 DEF Generate, Told
<1>2. ASSUME NEW opened \in 0..2, NEW killed \in BOOLEAN, NEW late \in BOOLEAN,
             SetupFails(opened, killed, late)
      PROVE  Told'
  <2>1. gpc = "sandbox" /\ gpc' = "judge"
    BY <1>2 DEF SetupFails
  <2>2. errors'.content = <<>>
    BY <1>2, <2>1 DEF SetupFails, Told, NoErrors
  <2>3. Reasons(result') # {}
    BY <1>2 DEF SetupFails, Reasons
  <2>4. Tells(ended'.cause, result', {})
    BY <1>2 DEF SetupFails, Tells
  <2>5. Own(LastMarks(errors'.content)) = {}
    BY <2>2, OwnNothing
  <2> QED
    BY <2>1, <2>3, <2>4, <2>5 DEF Told
<1>3. ASSUME NEW e \in Endings, CandidateRuns(e)
      PROVE  Told'
  <2>1. /\ gpc' = "judge" /\ errors'.content = e.stderr /\ ended'.cause = e.cause
        /\ answer'.seed = input'.seed /\ answer'.content = e.answer
        /\ result' = [exit_code |-> e.exit_code, term_signal |-> e.term_signal,
                      timed_out |-> e.timed_out]
    BY <1>3 DEF CandidateRuns
  <2>2. Tells(ended'.cause, result', Own(LastMarks(errors'.content)))
    BY <2>1, EndingTells DEF Tells
  <2>3. answer'.content # "none"
    BY <2>1, EndingReasons DEF Mismatches
  <2> QED
    BY <2>1, <2>2, <2>3 DEF Told
<1>4. CASE Judge
  <2>1. /\ gpc = "judge" /\ gpc' = "stderr" /\ Judgeable
        /\ ended' = ended /\ result' = result /\ errors' = errors /\ seed' = seed
    BY <1>4 DEF Judge, Progress
  <2>2. Answered(detail)'
    <3>1. SUFFICES ASSUME Reasons(result) = {}
                   PROVE  /\ ended.seed = seed
                          /\ ended.answer # "none"
                          /\ detail' = IF ended.answer = "right" THEN "ok" ELSE ended.answer
      BY <2>1 DEF Answered
    <3>2. /\ ended.answer = answer.content /\ ended.seed = answer.seed /\ input.seed = seed
          /\ answer.seed = input.seed /\ answer.content # "none"
      BY <2>1, <3>1 DEF Judgeable, Told
    <3>3. detail' = Compared
      BY <1>4, <3>1 DEF Judge
    <3> QED
      BY <3>2, <3>3 DEF Compared
  <2>3. Tells(ended'.cause, result', Own(LastMarks(errors'.content)))
    BY <2>1 DEF Told
  <2> QED
    BY <2>1, <2>2, <2>3 DEF Told, Answered
<1>5. CASE ReadStderr
  <2>1. /\ gpc = "stderr" /\ gpc' = "report" /\ tail' = LastMarks(errors.content)
        /\ ended' = ended /\ result' = result /\ detail' = detail /\ seed' = seed
    BY <1>5 DEF ReadStderr
  <2>2. Answered(detail)'
    BY <2>1 DEF Told, Answered
  <2>3. Tells(ended'.cause, result', Own(tail'))
    BY <2>1 DEF Told
  <2> QED
    BY <2>1, <2>2, <2>3 DEF Told
<1>6. CASE Report
  <2>1. /\ gpc = "report" /\ gpc' = "ended" /\ verdict'.execution = result
        /\ verdict'.detail = detail /\ verdict'.tail = tail
        /\ ended' = ended /\ result' = result /\ seed' = seed
    BY <1>6 DEF Report
  <2>2. Answered(verdict.detail)'
    BY <2>1 DEF Told, Answered
  <2>3. Tells(ended'.cause, result', Own(verdict'.tail))
    BY <2>1 DEF Told
  <2> QED
    BY <2>1, <2>2, <2>3 DEF Told, Answered
<1>7. CASE Raises
  <2>1. gpc' = "ended" /\ verdict' = NoVerdict
    BY <1>7 DEF Raises, Progress
  <2> QED
    BY <2>1 DEF Told
<1> QED
  BY <1>1, <1>2, <1>3, <1>4, <1>5, <1>6, <1>7 DEF Grading

\* The rows graded so far.
RowsTold ==
    /\ mpc = "started" => ~keep /\ gpc # "idle"
    /\ ~keep => Told
    /\ Len(graded) = Len(modes)

LEMMA RowsToldInit == MatrixInit => RowsTold /\ ModeIsCause
BY DEF MatrixInit, Init, RowsTold, Told, ModeIsCause

\* A row is added with the mode that is its cause.
LEMMA ModeAdded ==
    ASSUME TypeOK, Len(graded) = Len(modes), ModeIsCause,
           NEW mode \in ModeNames, mode # "error" => mode = Cause(Witness),
           graded' = Append(graded, Witness), modes' = Append(modes, mode)
    PROVE  Len(graded') = Len(modes') /\ ModeIsCause'
<1> DEFINE n == Len(modes)
<1>1. /\ graded \in Seq(Grades) /\ modes \in Seq(ModeNames) /\ n \in Nat
      /\ Len(graded') = n + 1 /\ Len(modes') = n + 1
  BY DEF TypeOK
<1>2. ASSUME NEW i \in 1..(n + 1), modes'[i] # "error"
      PROVE  modes'[i] = Cause(graded'[i])
  <2>1. CASE i \in 1..n
    <3>1. modes'[i] = modes[i] /\ graded'[i] = graded[i]
      BY <1>1, <2>1
    <3> QED
      BY <1>2, <2>1, <3>1 DEF ModeIsCause
  <2>2. CASE i = n + 1
    <3>1. modes'[i] = mode /\ graded'[i] = Witness
      BY <1>1, <2>2
    <3> QED
      BY <1>2, <3>1
  <2> QED
    BY <1>1, <2>1, <2>2
<1> QED
  BY <1>1, <1>2 DEF ModeIsCause, Cause

LEMMA RowsToldStep ==
    TypeOK /\ Progress /\ RowsTold /\ ModeIsCause /\ [Next]_vars => (RowsTold /\ ModeIsCause)'
<1> SUFFICES ASSUME TypeOK, Progress, RowsTold, ModeIsCause, [Next]_vars
             PROVE  RowsTold' /\ ModeIsCause'
  OBVIOUS
<1> USE DEF RowsTold
<1>1. CASE Grading /\ UNCHANGED matrixVars
  <2>1. keep' = keep /\ gpc' # "idle"
    BY <1>1 DEF Grading, Generate, SetupFails, CandidateRuns, Judge, ReadStderr, Report, Raises
  <2>2. ~keep' => Told'
    BY <1>1, <2>1, ToldGrading DEF TypeOK
  <2> QED
    BY <1>1, <2>1, <2>2 DEF matrixVars, ModeIsCause, Cause
<1>2. CASE StartRow
  <2>1. ~keep /\ keep' = keep /\ gpc' = "generate" /\ errors' = NoErrors
    BY <1>2 DEF StartRow, Start
  <2> QED
    BY <1>2, <2>1 DEF StartRow, Told, ModeIsCause, Cause
<1>3. CASE RowFails
  <2>1. Len(graded') = Len(modes') /\ ModeIsCause'
    <3>1. "error" \in ModeNames
      BY DEF ModeNames
    <3> QED
      BY <1>3, <3>1, ModeAdded DEF RowFails
  <2> QED
    BY <1>3, <2>1 DEF RowFails, Told
<1>4. CASE RowGraded
  <2>1. Classify(verdict) = Cause(Witness)
    <3>1. gpc = "ended" /\ ~keep /\ verdict # NoVerdict
      BY <1>4 DEF RowGraded
    <3> QED
      BY <3>1, Classified DEF Told, Progress, TypeOK
  <2>2. Len(graded') = Len(modes') /\ ModeIsCause'
    BY <1>4, <2>1, ClassifyType, ModeAdded DEF RowGraded
  <2> QED
    BY <1>4, <2>2 DEF RowGraded, Told
<1>5. CASE Summary
  BY <1>5, ToldKept DEF Summary, gradeVars, ModeIsCause, Cause
<1>6. CASE StartByHand \/ EndByHand
  <2>1. keep /\ keep' = keep /\ UNCHANGED matrixVars
    BY <1>6 DEF StartByHand, EndByHand, Start
  <2> QED
    BY <2>1 DEF matrixVars, ModeIsCause, Cause
<1>7. CASE UNCHANGED vars
  BY <1>7, ToldKept DEF vars, gradeVars, matrixVars, ModeIsCause, Cause
<1> QED
  BY <1>1, <1>2, <1>3, <1>4, <1>5, <1>6, <1>7 DEF Next

\* The mode of every row that was graded is the cause its candidate ended by.
THEOREM ModeIsAlwaysCause == Spec => []ModeIsCause
<1> DEFINE Inv == TypeOK /\ Progress /\ RowsTold /\ ModeIsCause
<1>1. MatrixInit => Inv
  BY TypeInit, ProgressInit, RowsToldInit
<1>2. Inv /\ [Next]_vars => Inv'
  BY TypeStep, ProgressStep, RowsToldStep
<1> QED
  BY <1>1, <1>2, PTL DEF Spec

-----------------------------------------------------------------------------
(* The summary *)

\* A row without a defect ended as declared, and the exit status waits for all.
NoDefectHidden ==
    /\ mpc = "started" => Len(modes) < Len(Rows)
    /\ Len(modes) <= Len(Rows)
    /\ \A i \in 1..Len(modes) :
          i \notin defects => modes[i] # "error" /\ modes[i] = Rows[i]
    /\ status # -1 => mpc = "summary"
    /\ status = 0 => Rows # <<>> /\ defects = {} /\ Len(modes) = Len(Rows)

LEMMA RowsType == TypeOK => Rows \in Seq(Modes \cup {"none"})
<1> SUFFICES ASSUME TypeOK PROVE Rows \in Seq(Modes \cup {"none"})
  OBVIOUS
<1>1. matrix \in Seq(Modes \cup {"none"}) /\ only \in 0..(Len(matrix) + 1)
  BY DEF TypeOK
<1>2. CASE only # 0 /\ only <= Len(matrix)
  <2>1. only \in 1..Len(matrix)
    BY <1>1, <1>2
  <2>2. matrix[only] \in Modes \cup {"none"}
    BY <1>1, <2>1
  <2> QED
    BY <1>2, <2>2 DEF Rows
<1>3. CASE only = 0 \/ ~(only <= Len(matrix))
  BY <1>1, <1>3 DEF Rows
<1> QED
  BY <1>2, <1>3

LEMMA NoDefectInit == MatrixInit => NoDefectHidden
<1> SUFFICES ASSUME MatrixInit PROVE NoDefectHidden
  OBVIOUS
<1>1. Len(modes) = 0 /\ mpc = "rows" /\ status = -1
  BY DEF MatrixInit
<1>2. Len(Rows) \in Nat
  BY TypeInit, RowsType
<1> QED
  BY <1>1, <1>2 DEF NoDefectHidden

\* A row that is added is a defect unless it ended as declared.
LEMMA RowAdded ==
    ASSUME TypeOK, NoDefectHidden, mpc = "started", mpc' = "rows",
           Rows' = Rows, status' = status, NEW mode \in ModeNames,
           modes' = Append(modes, mode), defects \subseteq defects',
           Len(modes') \notin defects' => mode # "error" /\ mode = Rows[Len(modes')]
    PROVE  NoDefectHidden'
<1> DEFINE n == Len(modes)
<1>1. modes \in Seq(ModeNames) /\ n \in Nat /\ Len(modes') = n + 1
  BY DEF TypeOK
<1>2. Len(Rows) \in Nat /\ n + 1 <= Len(Rows)
  BY <1>1, RowsType DEF NoDefectHidden
<1>3. ASSUME NEW i \in 1..(n + 1), i \notin defects'
      PROVE  modes'[i] # "error" /\ modes'[i] = Rows[i]
  <2>1. CASE i \in 1..n
    <3>1. modes'[i] = modes[i] /\ i \notin defects
      BY <1>1, <1>3, <2>1
    <3> QED
      BY <2>1, <3>1 DEF NoDefectHidden
  <2>2. CASE i = n + 1
    <3>1. modes'[i] = mode
      BY <1>1, <2>2
    <3> QED
      BY <1>1, <1>3, <2>2, <3>1
  <2> QED
    BY <1>1, <2>1, <2>2
<1>4. status' = -1
  BY DEF NoDefectHidden
<1> QED
  BY <1>1, <1>2, <1>3, <1>4 DEF NoDefectHidden

LEMMA NoDefectStep == TypeOK /\ NoDefectHidden /\ [Next]_vars => NoDefectHidden'
<1> SUFFICES ASSUME TypeOK, NoDefectHidden, [Next]_vars PROVE NoDefectHidden'
  OBVIOUS
<1>1. CASE UNCHANGED matrixVars
  <2>1. Rows' = Rows
    BY <1>1 DEF matrixVars, Rows
  <2> QED
    BY <1>1, <2>1 DEF matrixVars, NoDefectHidden
<1>2. CASE StartRow
  <2>1. Rows' = Rows
    BY <1>2 DEF StartRow, Rows
  <2>2. mpc = "rows" /\ Len(modes) < Len(Rows) /\ status' = status
    BY <1>2 DEF StartRow
  <2> QED
    BY <1>2, <2>1, <2>2 DEF StartRow, NoDefectHidden
<1>3. CASE RowFails
  <2>1. /\ mpc = "started" /\ mpc' = "rows" /\ Rows' = Rows /\ status' = status
        /\ modes' = Append(modes, "error") /\ defects' = defects \cup {Len(modes')}
    BY <1>3 DEF RowFails, Rows
  <2>2. "error" \in ModeNames
    BY DEF ModeNames
  <2> QED
    BY <2>1, <2>2, RowAdded
<1>4. CASE RowGraded
  <2>1. /\ mpc = "started" /\ mpc' = "rows" /\ Rows' = Rows /\ status' = status
        /\ modes' = Append(modes, Classify(verdict))
        /\ defects \subseteq defects'
    BY <1>4 DEF RowGraded, Rows
  <2>2. Classify(verdict) \in ModeNames /\ Classify(verdict) # "error"
    BY ClassifyType DEF Classify, ClassifyStatus, ClassifyDetail
  <2>3. ASSUME Len(modes') \notin defects'
        PROVE  Classify(verdict) = Rows[Len(modes')]
    <3>1. Last(modes') = Rows[Len(modes')]
      BY <1>4, <2>3 DEF RowGraded
    <3>2. Last(modes') = Classify(verdict)
      <4>1. modes \in Seq(ModeNames)
        BY DEF TypeOK
      <4> QED
        BY <2>1, <2>2, <4>1 DEF Last
    <3> QED
      BY <3>1, <3>2
  <2> QED
    BY <2>1, <2>2, <2>3, RowAdded
<1>5. CASE Summary
  <2>1. /\ mpc' = "summary" /\ Rows' = Rows /\ UNCHANGED <<modes, defects>>
        /\ Len(modes) = Len(Rows)
        /\ status' = 0 => Rows # <<>> /\ defects = {}
    BY <1>5 DEF Summary, Rows
  <2> QED
    BY <2>1 DEF NoDefectHidden
<1> QED
  BY <1>1, <1>2, <1>3, <1>4, <1>5 DEF Next, vars, StartByHand, EndByHand, matrixVars

\* Exit status 0 means that every row asked for was graded to the end and ended
\* in the declared way.
THEOREM CleanMatrix == Spec => []CleanMatrixIsMeant
<1> DEFINE Inv == TypeOK /\ Progress /\ RowsTold /\ ModeIsCause /\ NoDefectHidden
<1>1. MatrixInit => Inv
  BY TypeInit, ProgressInit, RowsToldInit, NoDefectInit
<1>2. Inv /\ [Next]_vars => Inv'
  BY TypeStep, ProgressStep, RowsToldStep, NoDefectStep
<1>3. Inv => CleanMatrixIsMeant
  <2> SUFFICES ASSUME Inv, status = 0
               PROVE  /\ Len(graded) = IF only = 0 THEN Len(matrix) ELSE 1
                      /\ \A i \in 1..Len(graded) :
                            /\ modes[i] # "error"
                            /\ Cause(graded[i]) = matrix[IF only = 0 THEN i ELSE only]
    BY DEF CleanMatrixIsMeant
  <2>1. Rows # <<>> /\ defects = {} /\ Len(graded) = Len(Rows) /\ Len(modes) = Len(Rows)
    BY DEF NoDefectHidden, RowsTold
  <2>2. /\ Len(Rows) = IF only = 0 THEN Len(matrix) ELSE 1
        /\ \A i \in 1..Len(Rows) : Rows[i] = matrix[IF only = 0 THEN i ELSE only]
    BY <2>1 DEF Rows
  <2>3. ASSUME NEW i \in 1..Len(Rows)
        PROVE  modes[i] # "error" /\ Cause(graded[i]) = Rows[i]
    BY <2>1 DEF NoDefectHidden, ModeIsCause
  <2> QED
    BY <2>1, <2>2, <2>3
<1> QED
  BY <1>1, <1>2, <1>3, PTL DEF Spec

-----------------------------------------------------------------------------
(* Standard error in a kept directory *)

\* What is on standard error after the candidate's end is its own.
ErrorsOwn ==
    /\ gpc \in {"judge", "stderr", "report"} => errors.run = run \/ ended.cause \in NeverStarted
    /\ gpc = "ended" /\ keep =>
          errors.run = run \/ ended.cause \in NeverStarted \/ verdict = NoVerdict

LEMMA ErrorsOwnStep == Progress /\ ErrorsOwn /\ [Next]_vars => ErrorsOwn'
<1> SUFFICES ASSUME Progress, ErrorsOwn, [Next]_vars PROVE ErrorsOwn'
  OBVIOUS
<1>1. CASE Generate \/ Judge \/ ReadStderr
  BY <1>1 DEF Generate, Judge, ReadStderr, ErrorsOwn
<1>2. ASSUME NEW opened \in 0..2, NEW killed \in BOOLEAN, NEW late \in BOOLEAN,
             SetupFails(opened, killed, late)
      PROVE  ErrorsOwn'
  BY <1>2 DEF SetupFails, NeverStarted, ErrorsOwn
<1>3. ASSUME NEW e \in Endings, CandidateRuns(e)
      PROVE  ErrorsOwn'
  BY <1>3 DEF CandidateRuns, ErrorsOwn
<1>4. CASE Report
  BY <1>4 DEF Report, ErrorsOwn
<1>5. CASE Raises
  BY <1>5 DEF Raises, ErrorsOwn, Progress
<1>6. CASE StartRow \/ StartByHand
  BY <1>6 DEF StartRow, StartByHand, Start, ErrorsOwn
<1>7. CASE RowFails \/ RowGraded \/ EndByHand
  BY <1>7 DEF RowFails, RowGraded, EndByHand, ErrorsOwn
<1>8. CASE Summary \/ UNCHANGED vars
  BY <1>8 DEF Summary, vars, gradeVars, ErrorsOwn
<1> QED
  BY <1>1, <1>2, <1>3, <1>4, <1>5, <1>6, <1>7, <1>8 DEF Next, Grading

\* A verdict never quotes the text of an earlier candidate, unless its own never
\* started.
THEOREM TailIsAlwaysOwn == Spec => []TailIsOwn
<1>1. MatrixInit => TypeOK /\ Progress /\ ErrorsOwn
  BY TypeInit, ProgressInit DEF MatrixInit, Init, ErrorsOwn
<1>2. TypeOK /\ Progress /\ ErrorsOwn /\ [Next]_vars => (TypeOK /\ Progress /\ ErrorsOwn)'
  BY TypeStep, ProgressStep, ErrorsOwnStep
<1>3. ErrorsOwn => TailIsOwn
  BY DEF ErrorsOwn, TailIsOwn
<1> QED
  BY <1>1, <1>2, <1>3, PTL DEF Spec

=============================================================================
