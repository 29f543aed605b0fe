------------------------------ MODULE Sandbox -------------------------------
(***************************************************************************)
(* One call of run in grader/sandbox.py: the grader (parent), the child it *)
(* forks, the candidate the child becomes, the processes the candidate     *)
(* forks, and the wall-clock alarm.                                        *)
(*                                                                         *)
(* The kernel is modelled by what the code relies on: a file descriptor is *)
(* the lowest free one, a descriptor Python opens is close-on-exec, wait4  *)
(* is interrupted by a signal that arrives while it blocks, killpg reaches *)
(* the processes that are in the group when it is called, and root can be  *)
(* regained while one of the three uids is 0.  A Python signal handler     *)
(* does not run when the signal arrives but at the interpreter's next      *)
(* check, and none is made inside wait4 unless it returns.                 *)
(*                                                                         *)
(* Assumed of the grader: it holds no inheritable descriptor but 0, 1, 2.  *)
(* run closes none, so any other would stay open in the candidate.         *)
(***************************************************************************)
EXTENDS Integers, FiniteSets, FiniteSetsExt

CONSTANTS
    Helpers,       \* processes the candidate may fork
    StdOpen,       \* which of fds 0, 1, 2 are open in the grader
    WallSeconds,   \* int(limits.wall_seconds)
    Prompt         \* TRUE: nothing interrupts the grader before it blocks in
                   \* wait4 and the child is past its setsid

ASSUME SandboxAssumption ==
    /\ StdOpen \subseteq 0..2
    /\ WallSeconds \in Nat
    /\ Prompt \in BOOLEAN

Fds == 0..5    \* the three standard ones and room for what is opened

FdEntry == [file : {"none", "inherited", "stdin", "stdout", "stderr"}, cloexec : BOOLEAN]
Closed == [file |-> "none", cloexec |-> FALSE]
Opened(file, cloexec) == [file |-> file, cloexec |-> cloexec]

Unlimited == [soft |-> "infinite", hard |-> "infinite"]
Limited   == [soft |-> "ceiling", hard |-> "ceiling"]

\* (real, effective, saved) user ids, group ids, and supplementary groups.
Grader(ids) ==
    [uids |-> IF ids = "nobody" THEN {"root"} ELSE {"user"},
     gids |-> IF ids = "nobody" THEN {"root"} ELSE {"user"},
     groups |-> "grader"]

VARIABLES
    ids,        \* unprivileged_ids(): "nobody", or "none" when not root
    ppc,        \* the grader's next statement in run
    handler,    \* the disposition of SIGALRM: "previous" or "on_alarm"
    timer,      \* the alarm: "off", "armed" or "fired"
    tripped,    \* SIGALRM noted but _on_alarm not run: "no", "pending", or
                \* "eintr" when it made wait4 return
    timedOut,   \* timed_out["v"]
    cpc,        \* the child's next statement, "candidate" after execvp,
                \* "zombie" when dead, "reaped" after wait4
    group,      \* the child's process group: "grader" or "own"
    fds,        \* the child's descriptors
    limit,      \* the child's RLIMIT_AS, for all limits
    cred,       \* the child's credentials
    helpers,    \* live descendants of the candidate in its process group
    ended,      \* how the child ended: "not", "exit0", "exit1", "exit127",
                \* "limit" (a signal not sent by the grader), "killed"
    result      \* the result dict

childVars == <<cpc, group, fds, limit, cred, helpers, ended>>
vars == <<ids, ppc, handler, timer, tripped, timedOut, childVars, result>>

NoResult == [exit_code |-> "none", term_signal |-> "none", timed_out |-> FALSE]

SetupSteps == {"setsid", "stdin", "stdout", "stderr", "chdir", "limits",
               "setgroups", "setresgid", "setresuid", "regain", "execvp"}

TypeOK ==
    /\ ids \in {"none", "nobody"}
    /\ ppc \in {"fork", "signal", "alarm", "wait4", "waiting", "disarm", "restore",
                "killpg", "return", "returned", "raised", "dead"}
    /\ handler \in {"previous", "on_alarm"}
    /\ timer \in {"off", "armed", "fired"}
    /\ tripped \in {"no", "pending", "eintr"}
    /\ timedOut \in BOOLEAN
    /\ cpc \in SetupSteps \cup {"unborn", "candidate", "zombie", "reaped"}
    /\ group \in {"grader", "own"}
    /\ fds \in [Fds -> FdEntry]
    /\ limit \in [soft : {"infinite", "ceiling"}, hard : {"infinite", "ceiling"}]
    /\ cred \in [uids : SUBSET {"root", "user", "nobody"},
                 gids : SUBSET {"root", "user", "nobody"},
                 groups : {"grader", "none"}]
    /\ helpers \subseteq Helpers
    /\ ended \in {"not", "exit0", "exit1", "exit127", "limit", "killed"}
    /\ result \in [exit_code : {"none", "0", "1", "127"},
                   term_signal : {"none", "limit", "killed"},
                   timed_out : BOOLEAN]

Init ==
    /\ ids \in {"none", "nobody"}
    /\ ppc = "fork"
    /\ handler = "previous"
    /\ timer = "off"
    /\ tripped = "no"
    /\ timedOut = FALSE
    /\ cpc = "unborn"
    /\ group = "grader"
    /\ fds = [d \in Fds |-> IF d \in StdOpen THEN Opened("inherited", FALSE) ELSE Closed]
    /\ limit = Unlimited
    /\ cred = Grader(ids)
    /\ helpers = {}
    /\ ended = "not"
    /\ result = NoResult

-----------------------------------------------------------------------------
(* The child, from fork to execvp *)

Alive == cpc \in SetupSteps \cup {"candidate"}

\* One statement of the child succeeds; `next` is the one after it.
ChildStep(step, next) ==
    /\ cpc = step
    /\ cpc' = next
    /\ UNCHANGED <<ids, ppc, handler, timer, tripped, timedOut, helpers, ended, result>>

\* Any statement may raise: the exception handler leaves by os._exit(127).
SetupFails ==
    /\ cpc \in SetupSteps
    /\ cpc' = "zombie"
    /\ ended' = "exit127"
    /\ UNCHANGED <<ids, ppc, handler, timer, tripped, timedOut, group, fds, limit,
                   cred, helpers, result>>

Setsid ==
    /\ ChildStep("setsid", "stdin")
    /\ group' = "own"
    /\ UNCHANGED <<fds, limit, cred>>

\* fd = os.open(path); os.dup2(fd, target); if fd != target: os.close(fd).
\* dup2 of a descriptor onto itself leaves its close-on-exec flag set.
Redirect(file, target) ==
    LET fd == Min({d \in Fds : fds[d] = Closed})
    IN  fds' = IF fd = target THEN [fds EXCEPT ![fd] = Opened(file, TRUE)]
               ELSE [fds EXCEPT ![target] = Opened(file, FALSE)]

RedirectStdin ==
    /\ ChildStep("stdin", "stdout")
    /\ Redirect("stdin", 0)
    /\ UNCHANGED <<group, limit, cred>>

RedirectStdout ==
    /\ ChildStep("stdout", "stderr")
    /\ Redirect("stdout", 1)
    /\ UNCHANGED <<group, limit, cred>>

\* MUTANT of RedirectStderr: it lands on the answer file's descriptor.
RedirectStderrToStdout ==
    /\ ChildStep("stderr", "chdir")
    /\ Redirect("stderr", 1)
    /\ UNCHANGED <<group, limit, cred>>

RedirectStderr ==
    /\ ChildStep("stderr", "chdir")
    /\ Redirect("stderr", 2)
    /\ UNCHANGED <<group, limit, cred>>

Chdir ==
    /\ ChildStep("chdir", "limits")
    /\ UNCHANGED <<group, fds, limit, cred>>

\* MUTANT of ApplyLimits: only the soft limit, as in every example.
ApplySoftLimits ==
    /\ ChildStep("limits", IF ids = "nobody" THEN "setgroups" ELSE "execvp")
    /\ limit' = [limit EXCEPT !.soft = "ceiling"]
    /\ UNCHANGED <<group, fds, cred>>

ApplyLimits ==
    /\ ChildStep("limits", IF ids = "nobody" THEN "setgroups" ELSE "execvp")
    /\ limit' = Limited
    /\ UNCHANGED <<group, fds, cred>>

\* _drop_privileges: setgroups and setresgid need root's effective uid.
Setgroups ==
    /\ ChildStep("setgroups", "setresgid")
    /\ "root" \in cred.uids
    /\ cred' = [cred EXCEPT !.groups = "none"]
    /\ UNCHANGED <<group, fds, limit>>

Setresgid ==
    /\ ChildStep("setresgid", "setresuid")
    /\ "root" \in cred.uids
    /\ cred' = [cred EXCEPT !.gids = {"nobody"}]
    /\ UNCHANGED <<group, fds, limit>>

Setresuid ==
    /\ ChildStep("setresuid", "regain")
    /\ cred' = [cred EXCEPT !.uids = {"nobody"}]
    /\ UNCHANGED <<group, fds, limit>>

\* setresuid(0, 0, 0) must fail; when it succeeds the child gives up.
RegainFails ==
    /\ ChildStep("regain", "execvp")
    /\ "root" \notin cred.uids
    /\ UNCHANGED <<group, fds, limit, cred>>

Execvp ==
    /\ ChildStep("execvp", "candidate")
    /\ fds' = [d \in Fds |-> IF fds[d].cloexec THEN Closed ELSE fds[d]]
    /\ UNCHANGED <<group, limit, cred>>

Child ==
    \/ SetupFails \/ Setsid
    \/ RedirectStdin \/ RedirectStdout \/ RedirectStderr
    \/ Chdir \/ ApplyLimits
    \/ Setgroups \/ Setresgid \/ Setresuid \/ RegainFails \/ Execvp

-----------------------------------------------------------------------------
(* The candidate and the processes it forks *)

CandidateUnchanged ==
    UNCHANGED <<ids, ppc, handler, timer, tripped, timedOut, group, fds, cred, result>>

\* It exits by itself, or a limit kills it.
CandidateEnds ==
    /\ cpc = "candidate"
    /\ cpc' = "zombie"
    /\ ended' \in {"exit0", "exit1", "limit"}
    /\ UNCHANGED <<helpers, limit>>
    /\ CandidateUnchanged

\* A live process of the group forks.
HelperStarts ==
    /\ cpc = "candidate" \/ helpers # {}
    /\ \E h \in Helpers \ helpers : helpers' = helpers \cup {h}
    /\ UNCHANGED <<cpc, ended, limit>>
    /\ CandidateUnchanged

\* A helper exits, or leaves for a session of its own.
HelperLeaves ==
    /\ \E h \in helpers : helpers' = helpers \ {h}
    /\ UNCHANGED <<cpc, ended, limit>>
    /\ CandidateUnchanged

\* m09: setrlimit to infinity, which only root may do, or else the soft limit to
\* the hard one.
RaiseLimit ==
    /\ cpc = "candidate"
    /\ limit' = IF "root" \in cred.uids THEN Unlimited
                ELSE [limit EXCEPT !.soft = limit.hard]
    /\ UNCHANGED <<cpc, helpers, ended>>
    /\ CandidateUnchanged

Candidate == CandidateEnds \/ HelperStarts \/ HelperLeaves \/ RaiseLimit

-----------------------------------------------------------------------------
(* The alarm *)

\* os.killpg(pid, SIGKILL).  ESRCH, when there is no such group, is swallowed.
Killpg ==
    /\ helpers' = {}
    /\ IF Alive /\ group = "own"
         THEN cpc' = "zombie" /\ ended' = "killed"
         ELSE UNCHANGED <<cpc, ended>>
    /\ UNCHANGED <<group, fds, limit, cred>>

\* May a signal reach the grader now?
MayInterrupt == Prompt => ppc # "wait4" /\ cpc \notin {"unborn", "setsid"}

\* The timer expires: SIGALRM is noted, or kills a grader that has no handler.
AlarmFires ==
    /\ timer = "armed"
    /\ MayInterrupt
    /\ timer' = "fired"
    /\ IF handler = "on_alarm"
         THEN /\ tripped' = IF ppc = "waiting" THEN "eintr" ELSE "pending"
              /\ UNCHANGED ppc
         ELSE /\ ppc' = "dead"
              /\ UNCHANGED tripped
    /\ UNCHANGED <<ids, handler, timedOut, childVars, result>>

\* MUTANT of OnAlarm: the timeout is not recorded.
OnAlarmUnrecorded ==
    /\ \/ tripped = "eintr" /\ ppc = "waiting"
       \/ tripped = "pending" /\ ppc \in {"wait4", "disarm", "restore"}
    /\ tripped' = "no"
    /\ Killpg
    /\ UNCHANGED <<ids, ppc, handler, timer, timedOut, result>>

\* MUTANT of OnAlarm: the timeout is recorded and nothing killed.
OnAlarmWithoutKill ==
    /\ \/ tripped = "eintr" /\ ppc = "waiting"
       \/ tripped = "pending" /\ ppc \in {"wait4", "disarm", "restore"}
    /\ tripped' = "no"
    /\ timedOut' = TRUE
    /\ UNCHANGED <<ids, ppc, handler, timer, childVars, result>>

\* The interpreter runs _on_alarm at one of its checks.
OnAlarm ==
    /\ \/ tripped = "eintr" /\ ppc = "waiting"
       \/ tripped = "pending" /\ ppc \in {"wait4", "disarm", "restore"}
    /\ tripped' = "no"
    /\ timedOut' = TRUE
    /\ Killpg
    /\ UNCHANGED <<ids, ppc, handler, timer, result>>

-----------------------------------------------------------------------------
(* The grader *)

Fork ==
    /\ ppc = "fork"
    /\ ppc' = "signal"
    /\ cpc' = "setsid"
    /\ UNCHANGED <<ids, handler, timer, tripped, timedOut, group, fds, limit, cred,
                   helpers, ended, result>>

\* No process can be had: run raises, and nothing has been changed.
ForkFails ==
    /\ ppc = "fork"
    /\ ppc' = "raised"
    /\ UNCHANGED <<ids, handler, timer, tripped, timedOut, childVars, result>>

InstallHandler ==
    /\ ppc = "signal"
    /\ ppc' = "alarm"
    /\ handler' = "on_alarm"
    /\ UNCHANGED <<ids, timer, tripped, timedOut, childVars, result>>

\* signal.alarm(int(limits.wall_seconds)): 0 cancels instead of arming.
ArmAlarm ==
    /\ ppc = "alarm"
    /\ ppc' = "wait4"
    /\ timer' = IF WallSeconds = 0 THEN "off" ELSE "armed"
    /\ UNCHANGED <<ids, handler, tripped, timedOut, childVars, result>>

\* Entering the system call: a signal noted since the last check stays noted.
Block ==
    /\ ppc = "wait4"
    /\ ppc' = "waiting"
    /\ UNCHANGED <<ids, handler, timer, tripped, timedOut, childVars, result>>

Reap ==
    /\ ppc = "waiting"
    /\ cpc = "zombie"
    /\ cpc' = "reaped"
    /\ ppc' = "disarm"
    /\ tripped' = IF tripped = "no" THEN "no" ELSE "pending"
    /\ UNCHANGED <<ids, handler, timer, timedOut, group, fds, limit, cred, helpers,
                   ended, result>>

\* wait4 raises (KeyboardInterrupt): the finally block runs all the same.
WaitRaises ==
    /\ ppc = "waiting"
    /\ MayInterrupt
    /\ ppc' = "disarm"
    /\ tripped' = IF tripped = "no" THEN "no" ELSE "pending"
    /\ UNCHANGED <<ids, handler, timer, timedOut, childVars, result>>

\* MUTANT of Disarm: the alarm stays armed.
DisarmForgotten ==
    /\ ppc = "disarm"
    /\ ppc' = "restore"
    /\ UNCHANGED <<ids, handler, timer, tripped, timedOut, childVars, result>>

\* signal.alarm(0)
Disarm ==
    /\ ppc = "disarm"
    /\ ppc' = "restore"
    /\ timer' = IF timer = "armed" THEN "off" ELSE timer
    /\ UNCHANGED <<ids, handler, tripped, timedOut, childVars, result>>

\* signal.signal runs the handlers of noted signals before it changes one.
RestoreHandler ==
    /\ ppc = "restore"
    /\ tripped = "no"
    /\ ppc' = "killpg"
    /\ handler' = "previous"
    /\ UNCHANGED <<ids, timer, tripped, timedOut, childVars, result>>

\* MUTANT of Sweep: no killpg.
SweepNothing ==
    /\ ppc = "killpg"
    /\ ppc' = IF cpc = "reaped" THEN "return" ELSE "raised"
    /\ UNCHANGED <<ids, handler, timer, tripped, timedOut, childVars, result>>

Sweep ==
    /\ ppc = "killpg"
    /\ ppc' = IF cpc = "reaped" THEN "return" ELSE "raised"
    /\ Killpg
    /\ UNCHANGED <<ids, handler, timer, tripped, timedOut, result>>

ExitCode == [exit0 |-> "0", exit1 |-> "1", exit127 |-> "127"]

\* MUTANT of Return: the status is returned undecoded.
ReturnUndecoded ==
    /\ ppc = "return"
    /\ ppc' = "returned"
    /\ result' = [exit_code |-> ended, term_signal |-> "none", timed_out |-> timedOut]
    /\ UNCHANGED <<ids, handler, timer, tripped, timedOut, childVars>>

\* The status is decoded and the result dict built.
Return ==
    /\ ppc = "return"
    /\ ppc' = "returned"
    /\ result' = IF ended \in {"limit", "killed"}
                   THEN [exit_code |-> "none", term_signal |-> ended, timed_out |-> timedOut]
                   ELSE [exit_code |-> ExitCode[ended], term_signal |-> "none",
                         timed_out |-> timedOut]
    /\ UNCHANGED <<ids, handler, timer, tripped, timedOut, childVars>>

Parent ==
    \/ Fork \/ InstallHandler \/ ArmAlarm \/ Block \/ Reap
    \/ Disarm \/ RestoreHandler \/ Sweep \/ Return

Ended == ppc \in {"returned", "raised", "dead"} /\ UNCHANGED vars

Next ==
    \/ Child \/ Candidate \/ AlarmFires \/ OnAlarm
    \/ Parent \/ ForkFails \/ WaitRaises \/ Ended

Spec == Init /\ [][Next]_vars

\* The grader and the child are scheduled, and time passes.  Nothing makes the
\* candidate stop, nor its helpers, and nobody need interrupt the grader.
FairSpec ==
    /\ Spec
    /\ WF_vars(Parent)
    /\ WF_vars(Child)
    /\ WF_vars(AlarmFires)
    /\ WF_vars(OnAlarm)

-----------------------------------------------------------------------------
(* Safety *)

\* What run promises of the candidate holds from its first instruction to its
\* last: its own session, the limits, which it cannot raise, and, under a root
\* grader, no trace of root in uid, gid or groups.
CandidateConfined ==
    cpc = "candidate" =>
        /\ group = "own"
        /\ limit = Limited
        /\ ids = "nobody" => cred = [uids |-> {"nobody"}, gids |-> {"nobody"},
                                     groups |-> "none"]

CandidateRedirected ==
    cpc = "candidate" =>
        fds = [d \in Fds |-> IF d = 0 THEN Opened("stdin", FALSE)
                             ELSE IF d = 1 THEN Opened("stdout", FALSE)
                             ELSE IF d = 2 THEN Opened("stderr", FALSE)
                             ELSE Closed]

\* Nothing left in the candidate's process group outlives the call, on the
\* normal path and when wait4 raises.
NoSurvivors ==
    ppc \in {"return", "returned", "raised"} =>
        /\ helpers = {}
        /\ ~Alive

\* The alarm does not outlive the call, and never meets a grader without its
\* handler.
AlarmContained ==
    /\ ppc # "dead"
    /\ ppc \in {"killpg", "return", "returned", "raised"} =>
          timer # "armed" /\ tripped = "no" /\ handler = "previous"

\* A clean result is the candidate's own: exit code 0 and no timeout only when
\* the candidate ran and exited with 0, and a kill by the grader is always
\* reported as a timeout.
ResultHonest ==
    ppc = "returned" =>
        /\ result.exit_code = "0" => ended = "exit0" /\ cpc = "reaped"
        /\ result.term_signal = "killed" => result.timed_out
        /\ result.exit_code = "none" <=> result.term_signal # "none"
        /\ limit = Unlimited => result.exit_code = "127" \/ result.timed_out

(* Liveness *)

\* "A candidate that dies, hangs, or is killed by a limit is a grading outcome"
\* (grader/sandbox.py:143): the call ends whatever the candidate does.
GraderReturns == <>(ppc \in {"returned", "raised"})

=============================================================================
