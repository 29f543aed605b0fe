---------------------------- MODULE SandboxProofs ---------------------------
(***************************************************************************)
(* Proofs about Sandbox for any set of helper processes, any wall-clock    *)
(* limit and, unless a theorem says so, whatever interrupts the grader.    *)
(***************************************************************************)
EXTENDS Sandbox, TLAPS

-----------------------------------------------------------------------------
(* The inductive invariant *)

\* What the child has done, by the statement it is at.
ChildProgress ==
    /\ ppc = "fork" => cpc = "unborn"
    /\ cpc = "unborn" => ppc \in {"fork", "raised"}
    /\ cpc \in (SetupSteps \ {"setsid"}) \cup {"candidate"} => group = "own"
    /\ helpers # {} => group = "own"
    /\ cpc \in {"setgroups", "setresgid", "setresuid", "regain", "execvp", "candidate"}
          => limit = Limited
    /\ ids = "none" => cred.uids = {"user"}
    /\ cpc \in {"setgroups", "setresgid", "setresuid", "regain"} => ids = "nobody"
    /\ cpc \in {"setresgid", "setresuid", "regain"} => cred.groups = "none"
    /\ cpc \in {"setresuid", "regain"} => cred.gids = {"nobody"}
    /\ cpc = "regain" => cred.uids = {"nobody"}
    /\ cpc \in {"execvp", "candidate"} /\ ids = "nobody" =>
          cred = [uids |-> {"nobody"}, gids |-> {"nobody"}, groups |-> "none"]
    /\ helpers # {} => cpc \in {"candidate", "zombie", "reaped"}

\* When the handler is installed and the alarm armed, by the grader's statement.
AlarmProgress ==
    /\ ppc # "dead"
    /\ handler = "on_alarm" <=>
          ppc \in {"alarm", "wait4", "waiting", "disarm", "restore"}
    /\ timer = "armed" => ppc \in {"wait4", "waiting", "disarm"}
    /\ tripped # "no" => ppc \in {"wait4", "waiting", "disarm", "restore"}

\* How the child ends and who may have ended it.
EndProgress ==
    /\ cpc \in {"zombie", "reaped"} <=> ended # "not"
    /\ cpc = "reaped" =>
          ppc \in {"disarm", "restore", "killpg", "return", "returned"}
    /\ ppc \in {"return", "returned"} => cpc = "reaped" /\ helpers = {}
    /\ ended = "killed" => timedOut \/ ppc = "raised"
    /\ limit = Unlimited => ended \in {"not", "exit127", "killed"}

ResultFromStatus ==
    ppc = "returned" =>
        result = IF ended \in {"limit", "killed"}
                   THEN [exit_code |-> "none", term_signal |-> ended, timed_out |-> timedOut]
                   ELSE [exit_code |-> ExitCode[ended], term_signal |-> "none",
                         timed_out |-> timedOut]

IInv ==
    /\ TypeOK
    /\ ChildProgress
    /\ AlarmProgress
    /\ EndProgress
    /\ ResultFromStatus

LEMMA InitEstablishes == Init => IInv
<1> SUFFICES ASSUME Init
             PROVE  IInv
  OBVIOUS
<1>1. fds \in [Fds -> FdEntry]
  <2>1. /\ Opened("inherited", FALSE) \in FdEntry
        /\ Closed \in FdEntry
    BY DEF Opened, Closed, FdEntry
  <2>2. QED
    BY <2>1 DEF Init
<1>2. cred \in [uids : SUBSET {"root", "user", "nobody"},
                gids : SUBSET {"root", "user", "nobody"},
                groups : {"grader", "none"}]
  <2>1. CASE ids = "nobody"
    BY <2>1 DEF Init, Grader
  <2>2. CASE ids = "none"
    BY <2>2 DEF Init, Grader
  <2>3. QED
    BY <2>1, <2>2 DEF Init
<1>3. TypeOK
  BY <1>1, <1>2 DEF Init, TypeOK, NoResult, Unlimited
<1>4. ids = "none" => cred.uids = {"user"}
  BY DEF Init, Grader
<1>5. ChildProgress /\ AlarmProgress /\ EndProgress /\ ResultFromStatus
  BY <1>4 DEF Init, SetupSteps, ChildProgress, AlarmProgress, EndProgress, ResultFromStatus
<1>6. QED
  BY <1>3, <1>5 DEF IInv

\* A redirection keeps the descriptor table a table of descriptors.
LEMMA RedirectTyped ==
    ASSUME TypeOK, NEW file \in {"stdin", "stdout", "stderr"}, NEW target, Redirect(file, target)
    PROVE  fds' \in [Fds -> FdEntry]
<1> DEFINE fd == Min({d \in Fds : fds[d] = Closed})
<1>1. \A c \in BOOLEAN :
         Opened(file, c) \in FdEntry
  BY DEF Opened, FdEntry
<1>2. fds' = IF fd = target THEN [fds EXCEPT ![fd] = Opened(file, TRUE)]
             ELSE [fds EXCEPT ![target] = Opened(file, FALSE)]
  BY DEF Redirect
<1> HIDE DEF fd
<1>3. QED
  BY <1>1, <1>2 DEF TypeOK

LEMMA StepPreserves == IInv /\ [Next]_vars => IInv'
<1> SUFFICES ASSUME IInv, [Next]_vars
             PROVE  IInv'
  OBVIOUS
<1> USE DEF IInv, TypeOK, ChildProgress, AlarmProgress, EndProgress, ResultFromStatus
<1>1. CASE SetupFails
  BY <1>1 DEF SetupFails, SetupSteps
<1>2. CASE Setsid
  BY <1>2 DEF Setsid, ChildStep, SetupSteps
<1>3. CASE Chdir
  BY <1>3 DEF Chdir, ChildStep, SetupSteps
<1>4. CASE ApplyLimits
  BY <1>4 DEF ApplyLimits, ChildStep, SetupSteps, Limited, Unlimited
<1>5. CASE Setgroups
  BY <1>5 DEF Setgroups, ChildStep, SetupSteps
<1>6. CASE Setresgid
  BY <1>6 DEF Setresgid, ChildStep, SetupSteps
<1>7. CASE Setresuid
  BY <1>7 DEF Setresuid, ChildStep, SetupSteps
<1>8. CASE RegainFails
  BY <1>8 DEF RegainFails, ChildStep, SetupSteps
<1>9. CASE Execvp
  <2>1. \A d \in Fds : (IF fds[d].cloexec THEN Closed ELSE fds[d])
             \in FdEntry
    <3>1. Closed \in FdEntry
      BY DEF Closed, FdEntry
    <3>2. QED
      BY <3>1
  <2>2. fds' \in [Fds -> FdEntry]
    BY <1>9, <2>1 DEF Execvp
  <2>3. QED
    BY <1>9, <2>2 DEF Execvp, ChildStep, SetupSteps
<1>10. CASE Candidate
  <2>1. CASE RaiseLimit
    <3>1. limit = Limited /\ "root" \notin cred.uids
      <4>1. cpc = "candidate"
        BY <2>1 DEF RaiseLimit
      <4>2. QED  BY <4>1
    <3>2. UNCHANGED vars
      BY <2>1, <3>1 DEF RaiseLimit, CandidateUnchanged, Limited, vars, childVars
    <3>3. QED  BY <3>2 DEF vars, childVars
  <2>2. CASE CandidateEnds
    <3>1. limit # Unlimited
      <4>1. limit = Limited
        BY <2>2 DEF CandidateEnds
      <4>2. QED  BY <4>1 DEF Limited, Unlimited
    <3>2. QED  BY <2>2, <3>1 DEF CandidateEnds, CandidateUnchanged, SetupSteps
  <2>3. CASE HelperStarts \/ HelperLeaves
    BY <2>3 DEF HelperStarts, HelperLeaves, CandidateUnchanged
  <2>4. QED  BY <1>10, <2>1, <2>2, <2>3 DEF Candidate
<1>11. CASE AlarmFires
  BY <1>11 DEF AlarmFires, childVars
<1>12. CASE OnAlarm
  <2>1. /\ UNCHANGED <<ids, ppc, handler, timer, result, group, fds, limit, cred>>
        /\ tripped' = "no" /\ helpers' = {} /\ timedOut' = TRUE
        /\ ppc \in {"wait4", "waiting", "disarm", "restore"}
    BY <1>12 DEF OnAlarm, Killpg
  <2>2. \/ /\ cpc \in SetupSteps \cup {"candidate"}
           /\ group = "own" /\ cpc' = "zombie" /\ ended' = "killed"
        \/ UNCHANGED <<cpc, ended>>
    BY <1>12 DEF OnAlarm, Killpg, Alive
  <2>3. TypeOK'
    BY <2>1, <2>2
  <2>4. ChildProgress'
    BY <2>1, <2>2 DEF SetupSteps
  <2>5. AlarmProgress'
    BY <2>1
  <2>6. EndProgress'
    BY <2>1, <2>2 DEF SetupSteps
  <2>7. ResultFromStatus'
    BY <2>1
  <2>8. QED
    BY <2>3, <2>4, <2>5, <2>6, <2>7
<1>13. CASE Fork \/ ForkFails
  BY <1>13 DEF Fork, ForkFails, SetupSteps, childVars
<1>14. CASE InstallHandler
  BY <1>14 DEF InstallHandler, childVars
<1>15. CASE ArmAlarm
  BY <1>15 DEF ArmAlarm, childVars
<1>16. CASE Block
  BY <1>16 DEF Block, childVars
<1>17. CASE Reap
  BY <1>17 DEF Reap, SetupSteps
<1>18. CASE WaitRaises
  BY <1>18 DEF WaitRaises, childVars
<1>19. CASE Disarm
  BY <1>19 DEF Disarm, childVars
<1>20. CASE RestoreHandler
  BY <1>20 DEF RestoreHandler, childVars
<1>21. CASE Sweep
  BY <1>21 DEF Sweep, Killpg, Alive, SetupSteps
<1>22. CASE Return
  <2>1. /\ UNCHANGED <<ids, handler, timer, tripped, timedOut, cpc, group, fds, limit,
                     cred, helpers, ended>>
        /\ ppc = "return" /\ ppc' = "returned"
    BY <1>22 DEF Return, childVars
  <2>2. ended \in {"exit0", "exit1", "exit127", "limit", "killed"}
    BY <2>1
  <2>3. ResultFromStatus'
    BY <1>22, <2>1 DEF Return
  <2>4. result' \in [exit_code : {"none", "0", "1", "127"},
                    term_signal : {"none", "limit", "killed"},
                    timed_out : BOOLEAN]
    BY <1>22, <2>2 DEF Return, ExitCode
  <2>5. ChildProgress' /\ AlarmProgress' /\ EndProgress'
    BY <2>1
  <2>6. QED
    BY <2>1, <2>3, <2>4, <2>5
<1>23. CASE UNCHANGED vars
  BY <1>23 DEF vars, childVars
<1>24. CASE RedirectStdin \/ RedirectStdout \/ RedirectStderr
  <2>1. fds' \in [Fds -> FdEntry]
    BY <1>24, RedirectTyped DEF RedirectStdin, RedirectStdout, RedirectStderr
  <2>2. QED
    BY <1>24, <2>1 DEF RedirectStdin, RedirectStdout, RedirectStderr, ChildStep, SetupSteps
<1>25. QED
  BY <1>1, <1>2, <1>3, <1>4, <1>5, <1>6, <1>7, <1>8, <1>9, <1>10, <1>11, <1>12, <1>13, <1>14,
     <1>15, <1>16, <1>17, <1>18, <1>19, <1>20, <1>21, <1>22, <1>23, <1>24
     DEF Next, Child, Parent, Ended

-----------------------------------------------------------------------------
(* The theorems *)

THEOREM Invariance == Spec => []IInv
BY InitEstablishes, StepPreserves, PTL DEF Spec

\* Every variable keeps its type, the descriptor table of the child included.
THEOREM TypeCorrect == Spec => []TypeOK
<1>1. IInv => TypeOK
  BY DEF IInv
<1>2. QED
  BY <1>1, Invariance, PTL

\* No candidate runs its first instruction outside its own session, without the
\* limits or, under a root grader, with any of root's ids (sandbox.py:152-178).
THEOREM CandidateIsConfined == Spec => []CandidateConfined
<1>1. IInv => CandidateConfined
  BY DEF IInv, ChildProgress, CandidateConfined
<1>2. QED
  BY <1>1, Invariance, PTL

\* The alarm of one call never kills the grader and never fires after the call,
\* whatever interrupts the grader and whenever it does (sandbox.py:190-196).
THEOREM AlarmIsContained == Spec => []AlarmContained
<1>1. IInv => AlarmContained
  BY DEF IInv, TypeOK, AlarmProgress, AlarmContained
<1>2. QED
  BY <1>1, Invariance, PTL

\* What run returns is what happened to the child (sandbox.py:203-219).
THEOREM ResultIsHonest == Spec => []ResultHonest
<1>1. ASSUME IInv, ppc = "returned"
      PROVE  ResultHonest
  <2> USE DEF IInv
  <2>1. ended \in {"exit0", "exit1", "exit127", "limit", "killed"} /\ cpc = "reaped"
    BY <1>1 DEF TypeOK, EndProgress
  <2>2. CASE ended \in {"limit", "killed"}
    <3>1. /\ result.exit_code = "none" /\ result.term_signal = ended
          /\ result.timed_out = timedOut
      BY <1>1, <2>2 DEF ResultFromStatus
    <3>2. QED
      BY <1>1, <2>1, <2>2, <3>1 DEF EndProgress, ResultHonest
  <2>3. CASE ended \in {"exit0", "exit1", "exit127"}
    <3>1. /\ result.exit_code = ExitCode[ended] /\ result.term_signal = "none"
      BY <1>1, <2>3 DEF ResultFromStatus
    <3>2. /\ ended = "exit0" => result.exit_code = "0"
          /\ ended = "exit1" => result.exit_code = "1"
          /\ ended = "exit127" => result.exit_code = "127"
      BY <3>1 DEF ExitCode
    <3>3. limit = Unlimited => ended = "exit127"
      BY <1>1, <2>3 DEF EndProgress
    <3>4. QED
      BY <1>1, <2>1, <2>3, <3>1, <3>2, <3>3 DEF ResultHonest
  <2>4. QED
    BY <2>1, <2>2, <2>3
<1>2. IInv => ResultHonest
  BY <1>1 DEF ResultHonest
<1>3. QED
  BY <1>2, Invariance, PTL

-----------------------------------------------------------------------------
(* The process group *)

\* Once a prompt grader has left wait4, a child that lives has its own group, so
\* that the last killpg reaches it.
GroupSwept ==
    /\ ppc \in {"disarm", "restore", "killpg"} => group = "own" \/ ~Alive
    /\ ppc = "raised" => helpers = {} /\ ~Alive

LEMMA StepKeepsGroupSwept ==
    ASSUME Prompt = TRUE, IInv, GroupSwept, [Next]_vars
    PROVE  GroupSwept'
<1> USE DEF GroupSwept, IInv
<1>1. CASE Child
  <2>1. group' \in {group, "own"} /\ UNCHANGED <<ppc, helpers>> /\ Alive
    BY <1>1 DEF Child, SetupFails, Setsid, RedirectStdin, RedirectStdout, RedirectStderr,
                Chdir, ApplyLimits, Setgroups, Setresgid, Setresuid, RegainFails, Execvp,
                ChildStep, Alive, SetupSteps
  <2>2. QED
    BY <2>1
<1>2. CASE Candidate
  <2>1. UNCHANGED <<ppc, group>>
    BY <1>2 DEF Candidate, CandidateEnds, HelperStarts, HelperLeaves, RaiseLimit, CandidateUnchanged
  <2>2. ppc = "raised" => UNCHANGED <<cpc, helpers>>
    BY <1>2 DEF Candidate, CandidateEnds, HelperStarts, HelperLeaves, RaiseLimit, Alive
  <2>3. Alive' => Alive
    BY <1>2 DEF Candidate, CandidateEnds, HelperStarts, HelperLeaves, RaiseLimit,
                CandidateUnchanged, Alive, SetupSteps
  <2>4. QED
    BY <2>1, <2>2, <2>3
<1>3. CASE AlarmFires
  <2>1. UNCHANGED <<cpc, group, helpers>> /\ ppc' \in {ppc, "dead"}
    BY <1>3 DEF AlarmFires, childVars
  <2>2. QED
    BY <2>1 DEF Alive
<1>4. CASE OnAlarm
  BY <1>4 DEF OnAlarm, Killpg, Alive, SetupSteps
<1>5. CASE Reap
  BY <1>5 DEF Reap, Alive, SetupSteps
<1>6. CASE WaitRaises
  BY <1>6 DEF WaitRaises, MayInterrupt, ChildProgress, Alive, childVars
<1>7. CASE Sweep
  BY <1>7 DEF Sweep, Killpg, Alive, SetupSteps
<1>8. CASE Fork \/ ForkFails
  BY <1>8 DEF Fork, ForkFails, ChildProgress, Alive, SetupSteps, childVars
<1>9. CASE InstallHandler \/ ArmAlarm \/ Block \/ Disarm \/ RestoreHandler \/ Return
  BY <1>9 DEF InstallHandler, ArmAlarm, Block, Disarm, RestoreHandler, Return, Alive, childVars
<1>10. CASE UNCHANGED vars
  BY <1>10 DEF vars, childVars, Alive
<1>11. QED
  BY <1>1, <1>2, <1>3, <1>4, <1>5, <1>6, <1>7, <1>8, <1>9, <1>10 DEF Next, Parent, Ended

\* When nothing interrupts the grader early, no process of the candidate's group
\* outlives the call, on the normal path and on the exceptional one
\* (sandbox.py:197-201).
THEOREM NothingSurvives ==
    ASSUME Prompt = TRUE
    PROVE  Spec => []NoSurvivors
<1>1. Init => GroupSwept
  BY DEF Init, GroupSwept
<1>2. IInv /\ GroupSwept /\ [Next]_vars => GroupSwept'
  BY StepKeepsGroupSwept
<1>3. IInv /\ GroupSwept => NoSurvivors
  BY DEF IInv, GroupSwept, EndProgress, NoSurvivors, Alive, SetupSteps
<1>4. QED
  BY <1>1, <1>2, <1>3, Invariance, PTL DEF Spec

-----------------------------------------------------------------------------
(* The descriptors *)

StandardOnly ==
    /\ \A d \in {0, 1, 2} : fds[d] # Closed /\ fds[d].cloexec = FALSE
    /\ \A d \in {3, 4, 5} : fds[d] = Closed

\* A grader with its standard descriptors open gives the child nothing else, and
\* each redirection stays where it was put.
Redirected ==
    cpc \notin {"zombie", "reaped"} =>
        /\ StandardOnly
        /\ cpc \notin {"unborn", "setsid", "stdin"} => fds[0] = Opened("stdin", FALSE)
        /\ cpc \notin {"unborn", "setsid", "stdin", "stdout"} =>
              fds[1] = Opened("stdout", FALSE)
        /\ cpc \notin {"unborn", "setsid", "stdin", "stdout", "stderr"} =>
              fds[2] = Opened("stderr", FALSE)

\* os.open takes descriptor 3, and dup2 replaces the target.
LEMMA RedirectReplaces ==
    ASSUME TypeOK, StandardOnly,
           NEW file \in {"stdin", "stdout", "stderr"}, NEW target \in {0, 1, 2},
           Redirect(file, target)
    PROVE  /\ fds'[target] = Opened(file, FALSE)
           /\ \A d \in Fds \ {target} : fds'[d] = fds[d]
           /\ StandardOnly'
<1> DEFINE free == {d \in Fds : fds[d] = Closed}
<1>0. Fds = {0, 1, 2, 3, 4, 5}
  BY DEF Fds
<1>1. free = {3, 4, 5}
  BY <1>0 DEF StandardOnly
<1>2. Min(free) \in free
  <2>1. 3 \in free /\ \A y \in free : 3 =< y
    BY <1>1
  <2>2. Min(free) = CHOOSE x \in free : \A y \in free : x =< y
    BY DEF Min
  <2> HIDE DEF free
  <2>3. QED
    BY <2>1, <2>2
<1>3. Min(free) # target
  BY <1>1, <1>2
<1>4. fds' = [fds EXCEPT ![target] = Opened(file, FALSE)]
  BY <1>3 DEF Redirect
<1>5. /\ fds'[target] = Opened(file, FALSE)
      /\ \A d \in Fds \ {target} : fds'[d] = fds[d]
  BY <1>0, <1>4 DEF TypeOK
<1>6. Opened(file, FALSE) # Closed /\ Opened(file, FALSE).cloexec = FALSE
  BY DEF Opened, Closed
<1>7. QED
  BY <1>0, <1>5, <1>6 DEF StandardOnly

LEMMA StepKeepsRedirected ==
    ASSUME IInv, Redirected, [Next]_vars
    PROVE  Redirected'
<1>1. TypeOK
  BY DEF IInv
<1>2. CASE RedirectStdin \/ RedirectStdout \/ RedirectStderr
  <2>1. StandardOnly
    BY <1>2 DEF Redirected, RedirectStdin, RedirectStdout, RedirectStderr, ChildStep
  <2>2. CASE RedirectStdin
    <3>1. /\ fds'[0] = Opened("stdin", FALSE)
          /\ \A d \in Fds \ {0} : fds'[d] = fds[d]
          /\ StandardOnly'
      BY <1>1, <2>1, <2>2, RedirectReplaces DEF RedirectStdin
    <3>2. QED
      BY <2>2, <3>1 DEF RedirectStdin, ChildStep, Redirected, Fds
  <2>3. CASE RedirectStdout
    <3>1. /\ fds'[1] = Opened("stdout", FALSE)
          /\ \A d \in Fds \ {1} : fds'[d] = fds[d]
          /\ StandardOnly'
      BY <1>1, <2>1, <2>3, RedirectReplaces DEF RedirectStdout
    <3>2. fds'[0] = fds[0]
      BY <3>1 DEF Fds
    <3>3. QED
      BY <2>3, <3>1, <3>2 DEF RedirectStdout, ChildStep, Redirected
  <2>4. CASE RedirectStderr
    <3>1. /\ fds'[2] = Opened("stderr", FALSE)
          /\ \A d \in Fds \ {2} : fds'[d] = fds[d]
          /\ StandardOnly'
      BY <1>1, <2>1, <2>4, RedirectReplaces DEF RedirectStderr
    <3>2. fds'[0] = fds[0] /\ fds'[1] = fds[1]
      BY <3>1 DEF Fds
    <3>3. QED
      BY <2>4, <3>1, <3>2 DEF RedirectStderr, ChildStep, Redirected
  <2>5. QED
    BY <1>2, <2>2, <2>3, <2>4
<1>3. CASE Execvp
  <2>1. fds' = fds
    <3>1. \A d \in Fds : (IF fds[d].cloexec THEN Closed ELSE fds[d]) = fds[d]
      BY <1>3 DEF Execvp, ChildStep, Redirected, StandardOnly, Fds, Closed
    <3>2. QED
      BY <1>1, <1>3, <3>1 DEF Execvp, TypeOK
  <2>2. QED
    BY <1>3, <2>1 DEF Execvp, ChildStep, Redirected, StandardOnly
<1>4. CASE Setsid \/ Chdir \/ ApplyLimits \/ Setgroups \/ Setresgid \/ Setresuid \/ RegainFails
  BY <1>4 DEF Setsid, Chdir, ApplyLimits, Setgroups, Setresgid, Setresuid, RegainFails,
              ChildStep, Redirected, StandardOnly
<1>5. CASE SetupFails \/ Candidate \/ Reap
  BY <1>5 DEF SetupFails, Candidate, CandidateEnds, HelperStarts, HelperLeaves, RaiseLimit,
              CandidateUnchanged, Reap, Redirected, StandardOnly
<1>6. CASE OnAlarm \/ Sweep
  BY <1>6 DEF OnAlarm, Sweep, Killpg, Redirected, StandardOnly
<1>7. CASE Fork
  BY <1>7 DEF Fork, Redirected, StandardOnly, IInv, ChildProgress
<1>8. CASE ForkFails \/ AlarmFires \/ InstallHandler \/ ArmAlarm \/ Block \/ WaitRaises \/ Disarm
             \/ RestoreHandler \/ Return \/ UNCHANGED vars
  BY <1>8 DEF ForkFails, AlarmFires, InstallHandler, ArmAlarm, Block, WaitRaises, Disarm,
              RestoreHandler, Return, vars, childVars, Redirected, StandardOnly
<1>9. QED
  BY <1>2, <1>3, <1>4, <1>5, <1>6, <1>7, <1>8 DEF Next, Child, Parent, Ended

\* A grader whose three standard descriptors are open gives the candidate the
\* three redirections and no other descriptor (sandbox.py:155-166).
THEOREM CandidateIsRedirected ==
    ASSUME StdOpen = 0..2
    PROVE  Spec => []CandidateRedirected
<1>1. Init => Redirected
  BY DEF Init, Redirected, StandardOnly, Opened, Closed, Fds
<1>2. IInv /\ Redirected /\ [Next]_vars => Redirected'
  BY StepKeepsRedirected
<1>3. IInv /\ Redirected => CandidateRedirected
  <2> SUFFICES ASSUME IInv, Redirected, cpc = "candidate"
               PROVE  CandidateRedirected
    BY DEF CandidateRedirected
  <2> DEFINE want(d) == IF d = 0 THEN Opened("stdin", FALSE)
                        ELSE IF d = 1 THEN Opened("stdout", FALSE)
                        ELSE IF d = 2 THEN Opened("stderr", FALSE)
                        ELSE Closed
  <2>1. \A d \in Fds : fds[d] = want(d)
    <3>1. /\ fds[0] = Opened("stdin", FALSE) /\ fds[1] = Opened("stdout", FALSE)
          /\ fds[2] = Opened("stderr", FALSE)
          /\ \A d \in {3, 4, 5} : fds[d] = Closed
      BY DEF Redirected, StandardOnly
    <3>2. Fds = {0, 1, 2, 3, 4, 5}
      BY DEF Fds
    <3>3. QED
      BY <3>1, <3>2
  <2>2. fds \in [Fds -> FdEntry]
    BY DEF IInv, TypeOK
  <2>3. fds = [d \in Fds |-> want(d)]
    BY <2>1, <2>2
  <2>4. QED
    BY <2>3 DEF CandidateRedirected
<1>4. QED
  BY <1>1, <1>2, <1>3, Invariance, PTL DEF Spec

=============================================================================
