# Verification of graded-env-reference

The repository is a grading environment: a generator writes a stream of web
events, a candidate program has to turn it into sessions under a memory ceiling,
and a grader runs the candidate in a sandbox and compares its output, record by
record, with a streaming reference solution. This directory holds TLA+ models of
its parts, the TLC configurations that check them on small instances and TLAPS
proofs of what holds for every instance.

Run a check with `tlc -workers 2 -config X.cfg M` and the proofs with
`tlapm M.tla`, from this directory. `PROJECT.json` lists the runs, the lines each
definition translates, the hazards and the theorems.

## 1. The system

| part | source | state | operations | module |
| --- | --- | --- | --- | --- |
| streaming sessionizer | `grader/reference.py` | `OrderedDict` of open sessions, output | one event (flush, open or extend), end of stream | `Sessions`, `Sessionizer` |
| test oracle | `tests/test_reference.py` | none | whole input to whole answer | `SessionOracle` |
| comparison | `grader/grade.py` `_compare` | record count, differences kept | one expected record, end | `Compare` |
| line sink | `grader/grade.py` `_LineSink` | text not yet a line | `write`, `close_out` | `LineSink` |
| sandbox | `grader/sandbox.py` `run` | processes, groups, descriptors, credentials, alarm, handler | fork, child setup, alarm, wait, sweep, result | `Sandbox` |
| workload generator | `task/generate.py` | pool, tail of retired users, counters | one event, statistics | `Generator`, `Workload` |
| verdict | `grader/grade.py` `grade`, `main` | working directory, reasons | generate, run, compare, clean up | `Grade` |
| verification matrix | `scripts/verify.py` | rows, modes, defects | one row, summary | `Matrix` |
| fork-spread candidate | `mutants/m10_fork_spread.py` | pipes, shard processes | fork, feed, close, merge, wait | `ForkSpread` |
| other candidates | `mutants/` | as the reference, with one rule changed; closed sessions, users ever seen | one event, end of stream | `Candidates` |
| scripts, image | `scripts/*.sh`, `env/Dockerfile` | none of their own | | not modelled |

How they interact: `grade` calls the generator, hands the file it wrote to the
sandbox as the candidate's standard input, and on a clean result runs the
reference over the same file with the line sink as its output. The sink calls
`on_expected` for each line, which reads one line of the candidate's output and
may stop everything by raising `_Mismatch`. `verify.py` starts `grade.py` once
for each candidate and classifies the verdicts.

What is hard here:

* the early `break` of `flush` and the sort of one batch only, which are right
  because of the insertion order of a dictionary that many operations keep;
* the interleaving of grader, child, candidate, its descendants and a one-shot
  alarm, with signals that are noted at one moment and handled at another;
* descriptors taken lowest-first and closed on exec, privileges that have to go
  in one order, setups that fail half way;
* differences kept in state across calls, reported at the end or never;
* a bounded tail from which users return, and a working set that follows from it
  only together with the idle time of whoever reads the workload;
* candidates that must fail on the generated workload, for one reason and no other;
* a working directory that is used again, and failures that leave old files in it;
* a cause of failure derived from a status and from text that is cut off and
  partly written by somebody else;
* processes that block on pipes whose ends other processes inherited, and shards
  whose failure looks like the end of a complete answer.

## 2. Modules

**Sessions** holds events, sessions, records and the operations on one session
(`NewSession`, `Extended`, `Expired`, `Emit`, the order `Before`). Users are
numbers, since only the order of their names matters.

**Sessionizer** is `sessionize`. `open_s` is the `OrderedDict` as the sequence of
its items. `ReadEvent` is one iteration of the loop: `Flush` (the `while` loop,
`PopsReady`, and the sorted batch, `WritesReady`), then `StartSession` or
`ExtendSession`. `Finish` is the last flush. `input` is a history variable. The
sort is stated by what it yields: the batch is any arrangement of the popped
sessions in which no record is before an earlier one.

**SessionSpec** is what a sessionizer promises, without a data structure: a *set*
of live sessions; an event writes all that have expired, in order, exactly once.
`Sessionizer` implements it with `live` the set of items of `open_s`.

**SessionOracle** is the oracle of the tests, as operators of the events and the idle
time alone: `OracleSessions` the sessions it finds, `CloseIndex` and `ClosesBefore` its
sort key, `Oracle` its answer. A sorted list is `InOrder`: the k-th element is the one
with k - 1 before it.

**Candidates** extends `Sessionizer` by the single-process candidates of `mutants/`.
`candidate` says which one runs and never changes. `Streaming` are the reference and
those that change one of its rules: what ends a session (`Over`, m04), what a record
says (`Written`, m05 and m06), the key of the sort (`Precedes`, m03 and m12), or what
is kept (`closed`, m03; `seen`, m02). `Hoarding` (m01, m09) close a session when the
user's next event comes and sort once. `Silent` (m07, m08, m11) never look at an event.
Floats are values no integer equals, because that is how `norm` tells them apart.
**MCCandidates** puts the oracle beside them: for each candidate the wrong answer its
docstring announces (`Answer`, not asked of the silent ones) and the inputs on which it
is wrong (`Provoked`).

**Compare** is `_compare`. An action is one call of `on_expected` with the branch
it takes, or `End`, what follows the last record. JSON values stand for
themselves up to `norm`; a candidate line is canonical, spelled otherwise, or not
JSON.

**LineSink** is the adapter in front of `on_expected`, with `on_line` raising at
any line. `written` and `lines` are histories of the text received and of the calls.

**Sandbox** is one call of `run`. Variables `ppc` and `cpc` are the next
statements of grader and child. The child's statements are one action each, and
each may fail (`SetupFails`), as may the fork (`ForkFails`). `fds` is the child's descriptor table with the
close-on-exec flag: `os.open` takes the lowest free one, `dup2` onto itself
changes nothing, `execvp` closes what is flagged. The grader is assumed to hold no
inheritable descriptor beyond 0, 1 and 2: `run` closes none, so that any other would be
open in the candidate; Python opens its files with close-on-exec. `AlarmFires` is the timer's
expiry: the signal is noted (`tripped`), or kills a grader with no handler.
`OnAlarm` is `_on_alarm` at the interpreter's next check; a signal that arrives
while `wait4` blocks interrupts it, one noted just before does not. `helpers` are
descendants in the candidate's group; a helper that leaves for a session of its
own is out of `killpg`'s reach and out of the model. `limit` is one resource limit,
soft and hard, which `_apply_limits` sets and the candidate tries to raise again
(`RaiseLimit`, what m09 does). External: the kernel and the candidate.

**Generator** is `generate`. Every draw of the random generator is a choice; the
rates only weigh the choices. `Emit` is one iteration: an event, then the slot is
kept (`Keep`), given to somebody of the tail (`Revisit`) or to a new user
(`Replace`).

**Workload** composes the generator with the sessionizer. `grade` writes the whole file
before anybody reads it: `Generate` is a step of the generator, `ReadLine` gives the
sessionizer the next line, and `ReadEnd` the end of the file. `handed` is a history of
the events after which a slot went to another user.

**ForkSpread** is m10. A pipe is a queue of whole lines of bounded capacity;
`inherited[i]` are the children that hold copies of the ends its parent keeps of
shard i's pipes, and `Fork` adds to it; with the parent's own place it decides about
end of file (`InputOpen`) and broken pipes (`OutputRead`). `shard[i]` is the child: the
part of `child_main` it is in, its sessions, and the lines it has still to write.
`ppc` is the loop of `main` the parent is in and `k` its iterations. `pending` is the
line the parent has read (`NextLine`) and not yet sent on: `Feed` waits for room in the
shard's pipe, and until it has been sent the parent can neither read on nor end its
input. `out` is what has been written to `sys.stdout`. A shard may
fail at any line, also in the middle of one (`ShardKilledInLine`). `Raises` is what the
parent cannot get past: the pipe of a shard that is gone, a line that was cut short.
`ParentFails` is what may befall it at any point, also after every shard has exited
with 0: a refused fork, a `MemoryError`, a kill, a standard output that cannot be
written. **MCForkSpread** puts the oracle beside it.

**Grade** is `grade` and `main`: gradings one after another, each a process, in a
fresh directory or in a kept one. It composes the other components by what is
shown of them: the sandbox returns an exit status or a signal, and whether the
alarm fired (`ResultHonest`); the comparison accepts the right answer and nothing
else (`VerdictExact`). A file is the number of the grading that wrote it with what
the properties tell apart: for the answer, the workload it is for and how it would
fail; for standard error, a sequence of marks that `classify` searches for.
`Endings` lists how a candidate can end, by its cause. Each cause leaves one mark: a
traceback that chains two exceptions, of which `classify` takes the first it looks for,
has no one cause and is outside `ModeIsCause`. A signal is of a limit or of the
candidate's own making (`fault`); `SetupFails` is the child that ended, by itself or by
a signal, before it was the candidate, with or without the alarm.
`Raises` is every exception that ends a grading without a verdict.

**Matrix** extends it by `verify.py`: `StartRow`, then `RowGraded` or `RowFails`,
and `Summary`; `StartByHand` is `grade.py --keep` at a terminal. `graded` is a
history of how each candidate really ended.

Operators marked MUTANT in a comment are wrong variants of the definition that
follows them; each shows that a property notices such an error. Some are the
candidates of `mutants/` (m04).

## 3. What the runs show

| run | instance | properties |
| --- | --- | --- |
| `sessionizer` | 3 users, gaps 0, 2, 3 around an idle time of 2, 5 events | output globally ordered; table exactly the live sessions; sessions separated; no event lost; implements `SessionSpec`; every event reported in the end |
| `candidates` | 12 programs, 2 users, 2 paths, gaps 0, 2, 3 around an idle time of 2, 4 events | what each holds of the users it has met; every answer a prefix of what the oracle expects of it; wrong on exactly the inputs its docstring names, in the way `verify.py` declares |
| `compare` | answers of up to 3 records of 2 values, every spelling, `max_report` 2 | verdict exact; differences and positions reported right |
| `line_sink` | texts of 6 characters in pieces of 3 | lines are the text, however it is cut and wherever `on_line` raises |
| `sandbox` | 2 descendants, a wall-clock limit that arms the alarm | confinement, also against a candidate that raises its limits, redirection, no survivors, alarm contained, honest result, the call returns |
| `workload` | 2 slots, a tail of 2, ticks of 0 or 1, an idle time of 1, 5 events | users apart, the tail within its bound, statistics are bounds, forgotten for good; open sessions bounded by the slots and the slots given away within the idle time |
| `fork_spread` | 2 shards, pipes of 1 line, 2 users, gaps 0 and 3 below and above an idle time of 2, 4 events | exit status honest, also when the parent fails; output in order and right; status 0 means the oracle's answer; every process ends |
| `matrix` | 3 gradings, 2 seeds, matrices of up to 2 rows of 4 modes, a tail of 3 marks | PASS is earned; text is the candidate's own; the mode is the cause; a clean matrix means what it says |
| `compare_first` | `max_report` 3 | violated: see finding 1 |
| `sandbox_early_alarm` | alarm may come at any time | violated: see finding 2 |
| `sandbox_closed_stdout` | descriptor 1 closed in the grader | violated: see finding 3 |
| `matrix_memory` | as `matrix` | violated: see finding 4 |

Why the bounds suffice: the gaps lie below, at and above the idle time, so that
sessions of three users tie, extend, expire singly and in batches of three, and a
user returns, within five events. In `Compare` an answer of three records with a
limit of two reaches the limit, passes it, and ends before, at and after the other
side. In `Sandbox` every step happens once, so that the only parameter is the
number of descendants, and two are enough for one to fork while the other leaves.
Five events fill a tail of two and push three users out or bring them back; that a
forgotten user never returns needs four replacements. With ticks of 0 and 1 and an
idle time of 1, the same five events put retired users inside and outside the idle
time, so that `WorkingSetBounded` is met with equality and breaks if a session is kept
one tick too long.

In `candidates` four events of two users on two paths contain every provocation: a gap
of exactly the idle time (m04), a path seen twice (m05), sessions that close in one
batch in another order than they end (m12), and sessions that begin in another order
than they end (m03).

In `ForkSpread` four events are what it takes to fill both pipes of a shard while the
parent has another line for it, two sessions closed on the way: the mutant
`ReadLineEager`, a child that writes while it still reads, then blocks with its parent
for ever, and with three events it does not. They also make a shard write more lines
than its pipe holds, while the other is empty, ties with it or precedes it. A gap of
exactly the idle time is left to the proofs, which hold for all gaps, and to the runs
`sessionizer` and `candidates`. In `Matrix` a standard error
of four marks is cut by a tail of three, in front of or behind apport's marker; three
gradings in one directory leave files over two failures.

Constants that bound a run only (`MaxEvents`, `MaxRecords`, `MaxPiece`, `MaxText`,
`MaxRuns`, `MaxRows`) are free in the proofs.

### Fairness

`Sessionizer`: weak fairness of its next step; a single process reading a file
that ends. `Sandbox`: weak fairness of the grader's and the child's statements,
of the timer once armed and of the handler once noted. Nothing is assumed of the
candidate or of its descendants: they may run for ever. `GraderReturns` holds when
`Prompt` is TRUE, that is, when nothing interrupts the grader before it blocks in
`wait4` and the child is past its `setsid`. With limits of seconds and a setup of
milliseconds this is the normal case; finding 2 is what happens otherwise.

`ForkSpread`: weak fairness of the parent and of each shard, that is, a process that
is not blocked on a pipe or in `waitpid` goes on; failures, the parent's own among
them, never have to happen.
`EveryProcessEnds` needs no more. `Matrix` states no liveness.

### Findings

1. `grade.py:24` says a partial answer fails at the first differing record. The
   code keeps differences until there are `max_report` and drops them when a later
   record is missing or is not JSON: the first difference is then never reported.
2. The alarm is armed once. If it fires before the child has called `setsid`,
   `killpg` finds no group, and the error is swallowed; if it is noted between the
   interpreter's last check and `wait4`, the handler does not run. A hanging
   candidate is then never killed and `run` does not return.
3. When the grader runs with descriptor 1 closed, `os.open` returns 1 itself,
   `os.dup2(1, 1)` does not clear the close-on-exec flag, and the candidate runs
   with no standard output. The same holds for 0 and 2.
4. `verify.py:37` says "memory" is "killed by the ceiling". `classify` returns it for
   every signal and every timeout: a candidate that hangs, uses up its CPU time, or is
   ended by a signal of another cause fills a row that is meant to test the ceiling, which is what the file's own
   docstring wants to rule out.

## 4. What is proved

For all values of the constants, under the assumptions named in the modules
(`SessionAssumption`, `MaxEventsAssumption`, `CompareAssumption`,
`LineSinkAssumption`, `SandboxAssumption`, `GeneratorAssumption`, `WorkloadAssumption`,
`GradeAssumption`, `MatrixAssumption`, `ForkSpreadAssumption`):

**Lemmas** holds what several proofs use. Beside facts on sequences, least elements and
lists in order (`InOrderPlaces`), it is a small theory of the oracle: its sessions cover
the events and are apart (`EventInSession`, `SessionsApart`), and **what they become when
one event is appended** (`AppendSessions`): the session of that user that is within the
idle time grows, or a new one begins, and all the others stay. `CloseIndexAppend` and
`LiveAppend` say the same of the moment a session closes and of those still open, and
`OracleListsRecords` that the answer lists every session once. Each program is then
compared with the oracle event by event. `ShorterStarts` compares two idle times, for m04.

**SessionizerProofs.** `IInv` adds to the properties four facts none of them
states: the table is sorted by `last_ts` and has distinct keys (`OpenSorted`,
`OpenDistinct`, the comment in the code); every open session ends within `IdleMs`
of the watermark (`OpenWindow`); every written one is out of its reach
(`OutClosed`); the last event of an open session has been read (`Witnessed`).
`OutClosed` with `OpenWindow` is why batches follow each other in order: what is
written later ends later than everything before. `OpenSorted` is why the early
`break` misses nothing: an expired session behind one that is not would be
earlier. From `IInv` follow `OutputOrdered`, `SessionsSeparated`,
`EventsCovered`, `OpenExactlyLive`, and that each step of `Sessionizer` is one of
`SessionSpec` (`Refinement`): the popped prefix *is* the set of expired sessions.

**CandidatesProofs.** m02 is to be rejected for its memory alone: `M02IsTheReference`
shows that every step of it is a step of `Sessionizer`, so that whatever is proved of
the reference's output holds of m02's.

The other theorems rest on one invariant, `Account`, which says of every candidate what
it has written and holds in terms of the sessions the oracle finds in the events read
so far. `Heard`: these events are in order, the last of them at the watermark.
`Holdings`: the open sessions are exactly `StillOpen`, that is, those the next event
could still extend for a program that flushes, and every user's last one for a program
that hoards; the closed ones are some arrangement `gone` of all others. `Told`: `gone`
has been written line by line in the candidate's order, or is kept until the end. `Mute`
is what is left of this for the candidates that ignore their input. The invariant is
needed in this form because `AgreesWithOracle` speaks of the output only: a prefix of the
answer stays one only if what is still held is the rest of it, and comes later in the
order. One idle time `Idle` serves all, IdleMs - 1 for m04.

From it follow, in the section after each, `AgreesWithOracle` (an ordered list of all
records is *the* oracle's list), `HeldAsDeclared` (who is among `StillOpen` and `gone`)
and `FailsAsDeclared`, where for each candidate both directions are shown: on an input
that has what its docstring names, the answer differs from the oracle's where
`verify.py` says; on any other it does not.

These three assume `OffByOne`: when the candidate is m04, `IdleMs` is not 0 (the source
has 30 seconds). With `IdleMs` = 0 there is nothing to be off by: the idle time
of m04 would be -1, and a session would close at its own last event.

**CompareProofs.** The invariant counts: the differences kept are exactly those
among the records read, in order and fewer than `max_report` while running; every
record read is present and JSON. `VerdictExact` is then a case split on how the
comparison ended.

The line sink is proved in the same module, for pieces of every length. While it is open,
the lines given out, each with its newline, and the text kept are the text written
(`SinkInv`); `PartsJoined` shows for any text that giving out its first k parts adds
just its beginning up to the k-th newline, which also covers an `on_line` that raises
at the k-th line. `FlattenSeq` of the community modules is a recursive function, so that
its solution is first shown to exist at every length and to be unique (`FlattenIs`).

**SandboxProofs.** The invariant ties what the child has done to the statement it
is at, the handler and the alarm to the grader's statement, and how the child
ended to who ended it. `CandidateConfined`, `AlarmContained` and `ResultHonest`
need no assumption about when signals come. `NothingSurvives` assumes `Prompt`
(the last `killpg` must find the group); `CandidateIsRedirected` assumes the three
standard descriptors open: `os.open` then returns 3.

**GeneratorProofs.** The tail stays within its bound because the oldest leaves before one
is appended. Users are apart because a slot is filled either by a number
never used, larger than all in use, or by taking one user *out* of the tail, to
which the retired user was appended first. The statistics follow from a budget:
each event numbers one user, or counts one revisit, or neither.

For `Workload` the sessionizer's invariant is taken over by an INSTANCE of
`SessionizerProofs`, and `ReaderIsSessionizer` shows what this rests on: a generated
file is an input the sessionizer may be given, so that all that is proved of
`Sessionizer` holds of every workload. `Copied` ties the reader's input to the lines
written. `WorkingSetIsBounded` needs a fact about every window of time, not only the
last one (`Slots`): the users met since any moment, with those in the slots now, are no
more than the slots and the slots given away since. An event adds a user who is in a
slot already, and at most one handing over. `OpenExactlyLive` then says that the open
sessions are the users met in the window of the idle time.

**MatrixProofs.** `Progress` follows one grading: until the judgement the input is
this seed's, a result without a reason to fail comes from a candidate that wrote the
answer that is there, and after it `reasons` is empty exactly for a candidate that
was right, in time and with status 0. `Told` follows what is told of a row: status
and own words determine the cause (`Tells`), at every cut of standard error
(`OwnTraceback` goes through the lengths of the tail), and `Classified` shows that
`classify` reads it back. `NoDefectHidden` says that a row not among the defects
ended as declared. All five properties of the run are theorems; `PassIsAlwaysEarned`
holds for gradings in a kept directory as well, and whatever fails.

**ForkSpreadProofs.** For any number of shards, assignment of users and capacity of the
pipes. `Arrivals` and `Memory` say that what a shard is sent and has accumulated is of
its own users and in the order of time, so that its sort has no ties. `Departures`: what
a shard has shown the merge, has in its pipe and has still to write is one increasing
sequence, of which only a failed shard can have cut a line. `Merged`: all of it is after
what the parent has written, which `Merge` keeps because it looks at every live shard's
line first. `Phases` and `Progress` tie a shard's step to the parent's, and `Status`
says that `bad` is the number of failed shards among those waited for. From these follow
`OutputInOrder` and `ExitCodeHonest`: the number `main` prints is that of the failed
shards, and a status of 0 means that every shard was forked and exited with 0. The
converse does not hold, and is not claimed: the parent may fail when all shards have
exited with 0.

A second invariant, `Answers`, inductive given the first, relates the processes to the
oracle. `Fed`: what a child has read and what is still in its pipe make together the
sessions of its users in the whole input; it holds the last of each user open and has
recorded the others. `Carried`: every line on its way is a session of the input or cut
short, and a child that has not failed has lost none. `Delivered`, `Silence` and `Closed`
say what of this has reached the output, and that nothing has while events still come.
It is inductive because the sessions of one user depend on that user's events alone.
`OutputNeverWrong` follows directly. `ExitZeroIsAnswer` combines it with `Merged` and
`Status`: with status 0 every child has written all it had, in order, and two lists of
the same records in the same strict order are equal.

Only model-checked: `EveryEventReported`, `GraderReturns` and `EveryProcessEnds`, since
liveness under fairness is beyond this prover. Every other property of a passing run is
stated by a theorem.

## 5. What is not modelled, and the plan

Left out for good: JSON text, characters and encodings, the skipping of blank lines, the
sizes of the limits and resource usage (only the kernel enforces them), reuse of process
ids, the shell scripts and the image. `tree_limit_bytes` and `unprivileged_ids` read the
host once and keep nothing; the second is the choice of `ids` in `Sandbox`. m11's walk
through the file system is taken to find nothing, which is what the grader's layout
(the expected answer is never a file) is for. The random inputs of `tests/test_reference.py` are replaced by all inputs
within the bounds. A wall-clock limit under one second arms no alarm (`ArmAlarm` models
it); the run that shows that the call returns gives a limit of at least one.

Observed, with no run of its own:

* `docs/design.md:18-20` equates the sessions open at one time with `--concurrency`.
  Sessions of retired users stay open for `IDLE_MS` more: the default instance has
  1,794 open on average and 1,903 at most. `WorkingSetBounded` is the bound that does
  hold.
* `verify.py --only m04_idle_off_by_one`, when clean, prints "reference passes, all 0
  mutants fail", and an unknown name ends in an exception of `max`.
* `grade` removes its temporary directory only when nothing raises.

What could follow, in this order:

1. `Sandbox`: the composition of two calls, and a refinement of an abstract
   sandbox (one result for one candidate) that `Grade` would use in place of its
   `Endings`.
2. `LineSink` composed with `Compare` in one module, and `Compare` with the
   sessionizer as its source of expected records.
3. `tree_limit_bytes` and the limits a verdict reports.
