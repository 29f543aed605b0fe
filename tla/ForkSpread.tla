----------------------------- MODULE ForkSpread -----------------------------
(***************************************************************************)
(* mutants/m10_fork_spread.py: a sessionizer spread over processes.  The   *)
(* parent forks Shards children, each behind two pipes, sends every event  *)
(* to the child its user hashes to, closes the pipes, and merges what the  *)
(* children then write.                                                    *)
(*                                                                         *)
(* A pipe is a queue of whole lines with a bounded capacity.  A reader     *)
(* sees the end of its pipe when it is empty and no process holds the      *)
(* write end; a fork copies the ends its parent holds.  A writer fails     *)
(* when no process holds the read end.  User-space buffers are left out:   *)
(* they delay a line, and let a failed pipe be noticed at the close.       *)
(***************************************************************************)
EXTENDS Sessions, SequencesExt

CONSTANTS
    Shards,      \* SHARDS
    Capacity,    \* lines a pipe holds
    MaxEvents    \* the longest input

ASSUME ForkSpreadAssumption ==
    /\ Shards \in Nat \ {0}
    /\ Capacity \in Nat \ {0}
    /\ MaxEvents \in Nat

Shard == 1..Shards

VARIABLES
    shardOf,    \* hash(user) % SHARDS
    ppc,        \* the loop of main the parent is in
    k,          \* its iterations so far, where the loop runs over the shards
    pending,    \* the line of standard input not yet sent on, <<>> when there is none
    input,      \* the lines sent on to the shards
    live,       \* the readers heapq.merge has not seen the end of
    head,       \* the line read from each, <<>> when it is due to be read
    out,        \* the records written to standard output
    bad,        \* shards whose exit status was not 0
    code,       \* the parent's exit status: -1 while it runs, 1 for all but 0
    shard,      \* each child: its step, open and closed sessions, lines to write
    inherited,  \* the children that hold the parent's ends of a shard's pipes
    toChild,    \* the lines in the input pipes
    fromChild   \* the lines in the output pipes

mergeVars == <<live, head, out>>
parentVars == <<ppc, k, pending, input, mergeVars, bad, code>>
childVars == <<shard, inherited, toChild, fromChild>>
vars == <<shardOf, parentVars, childVars>>

\* A child at `step` with nothing but lines to write.
Process(step, lines) == [step |-> step, users |-> {}, done |-> {}, lines |-> lines]

Steps == {"unborn", "closing", "reading", "writing", "exit0", "exit1"}

TypeOK ==
    /\ shardOf \in [Users -> Shard]
    /\ ppc \in {"fork", "feed", "close", "merge", "wait", "return", "exited"}
    /\ k \in 0..(Shards - 1)
    /\ pending \in Seq(Event)
    /\ input \in Seq(Event)
    /\ live \subseteq Shard
    /\ head \in [Shard -> Seq(Record)]
    /\ out \in Seq(Record)
    /\ bad \in Nat
    /\ code \in {-1, 0, 1}
    /\ shard \in [Shard -> [step : Steps, users : SUBSET Session, done : SUBSET Record,
                            lines : Seq(Record)]]
    /\ inherited \in [Shard -> SUBSET Shard]
    /\ toChild \in [Shard -> Seq(Event)]
    /\ fromChild \in [Shard -> Seq(Record)]

Init ==
    /\ shardOf \in [Users -> Shard]
    /\ ppc = "fork"
    /\ k = 0
    /\ pending = <<>>
    /\ input = <<>>
    /\ live = Shard
    /\ head = [i \in Shard |-> <<>>]
    /\ out = <<>>
    /\ bad = 0
    /\ code = -1
    /\ shard = [i \in Shard |-> Process("unborn", <<>>)]
    /\ inherited = [i \in Shard |-> {}]
    /\ toChild = [i \in Shard |-> <<>>]
    /\ fromChild = [i \in Shard |-> <<>>]

-----------------------------------------------------------------------------
(* The ends of the pipes *)

\* Somebody can still write to shard i: the parent, or a child that has its end.
InputOpen(i) ==
    \/ inherited[i] # {}
    \/ ppc \in {"fork", "feed"}
    \/ ppc = "close" /\ k < i

\* Somebody can still read what shard i writes.
OutputRead(i) ==
    \/ inherited[i] # {}
    \/ ppc \in {"fork", "feed", "close", "merge"}

\* Shard i can still read what it is sent.
Listening(i) == shard[i].step \in {"closing", "reading"}

Ended(i) == shard[i].step \in {"exit0", "exit1"}

\* Child i closes the ends it inherited.
Release(i) == inherited' = [j \in Shard |-> inherited[j] \ {i}]

-----------------------------------------------------------------------------
(* A shard *)

\* MUTANT of CloseInherited: only the ends of its own pipes.
CloseOwn(i) ==
    /\ shard[i].step = "closing"
    /\ shard' = [shard EXCEPT ![i].step = "reading"]
    /\ inherited' = [inherited EXCEPT ![i] = @ \ {i}]
    /\ UNCHANGED <<toChild, fromChild>>

\* os.close of in_w, out_r, to_child and from_child.
CloseInherited(i) ==
    /\ shard[i].step = "closing"
    /\ shard' = [shard EXCEPT ![i].step = "reading"]
    /\ Release(i)
    /\ UNCHANGED <<toChild, fromChild>>

\* MUTANT of ReadLine: a closed session is written at once, when there is room.
ReadLineEager(i) ==
    /\ shard[i].step = "reading"
    /\ toChild[i] # <<>>
    /\ LET e     == Head(toChild[i])
           own   == {s \in shard[i].users : s.user = e.user}
           idle  == {s \in own : e.ts - s.last_ts > IdleMs}
           begun == IF own = idle THEN {NewSession(e)}
                    ELSE {Extended(s, e) : s \in own}
       IN  /\ idle # {} /\ OutputRead(i) => Len(fromChild[i]) < Capacity
           /\ shard' = [shard EXCEPT ![i].users = (@ \ own) \cup begun]
           /\ fromChild' = [fromChild EXCEPT ![i] = @ \o SetToSeq({Emit(s) : s \in idle})]
    /\ toChild' = [toChild EXCEPT ![i] = Tail(@)]
    /\ UNCHANGED inherited

\* One line: the user's session is closed when idle, then extended or begun.
ReadLine(i) ==
    /\ shard[i].step = "reading"
    /\ toChild[i] # <<>>
    /\ LET e     == Head(toChild[i])
           own   == {s \in shard[i].users : s.user = e.user}
           idle  == {s \in own : e.ts - s.last_ts > IdleMs}
           begun == IF own = idle THEN {NewSession(e)}
                    ELSE {Extended(s, e) : s \in own}
       IN  shard' = [shard EXCEPT ![i].done = @ \cup {Emit(s) : s \in idle},
                                  ![i].users = (@ \ own) \cup begun]
    /\ toChild' = [toChild EXCEPT ![i] = Tail(@)]
    /\ UNCHANGED <<inherited, fromChild>>

\* done.sort: the records of S in the order of their keys.
Sorted(S) == {s \in SetToSeqs(S) : \A m, n \in 1..Len(s) : m < n => ~Before(s[n], s[m])}

StartsWriting(i, records) ==
    /\ \E lines \in Sorted(records) : shard' = [shard EXCEPT ![i] = Process("writing", lines)]
    /\ UNCHANGED <<inherited, toChild, fromChild>>

Accumulated(i) == shard[i].done \cup {Emit(s) : s \in shard[i].users}

\* MUTANT of EndOfPipe: the sessions still open are forgotten.
EndOfPipeClosedOnly(i) ==
    /\ shard[i].step = "reading"
    /\ toChild[i] = <<>>
    /\ ~InputOpen(i)
    /\ StartsWriting(i, shard[i].done)

\* The end of the input pipe: the open sessions are closed too.
EndOfPipe(i) ==
    /\ shard[i].step = "reading"
    /\ toChild[i] = <<>>
    /\ ~InputOpen(i)
    /\ StartsWriting(i, Accumulated(i))

\* A line to write, and room for it.
CanWrite(i) ==
    /\ shard[i].step = "writing"
    /\ shard[i].lines # <<>>
    /\ OutputRead(i)
    /\ Len(fromChild[i]) < Capacity

WriteLine(i) ==
    /\ CanWrite(i)
    /\ fromChild' = [fromChild EXCEPT ![i] = Append(@, Head(shard[i].lines))]
    /\ shard' = [shard EXCEPT ![i].lines = Tail(@)]
    /\ UNCHANGED <<inherited, toChild>>

\* The end of a process frees its memory and closes the ends it still holds.
Exits(i, status) ==
    /\ shard' = [shard EXCEPT ![i] = Process(status, <<>>)]
    /\ Release(i)
    /\ UNCHANGED toChild

ChildDone(i) ==
    /\ shard[i].step = "writing"
    /\ shard[i].lines = <<>>
    /\ Exits(i, "exit0")
    /\ UNCHANGED fromChild

\* BrokenPipeError: nobody is left to read.
WriteBreaks(i) ==
    /\ shard[i].step = "writing"
    /\ shard[i].lines # <<>>
    /\ ~OutputRead(i)
    /\ Exits(i, "exit1")
    /\ UNCHANGED fromChild

\* MUTANT of ShardFails: what has been accumulated is written as if complete.
ShardGivesUp(i) ==
    /\ shard[i].step = "reading"
    /\ StartsWriting(i, Accumulated(i))

\* MemoryError, or a kill by the kernel, at any line.
ShardFails(i) ==
    /\ shard[i].step \in {"closing", "reading", "writing"}
    /\ Exits(i, "exit1")
    /\ UNCHANGED fromChild

\* A line that a kill cut short; no session has 0 events.
Cut(r) == [r EXCEPT !.events = 0]
IsCut(r) == r.events = 0

ShardKilledInLine(i) ==
    /\ CanWrite(i)
    /\ fromChild' = [fromChild EXCEPT ![i] = Append(@, Cut(Head(shard[i].lines)))]
    /\ Exits(i, "exit1")

ShardRuns(i) ==
    /\ \/ CloseInherited(i)
       \/ ReadLine(i)
       \/ EndOfPipe(i)
       \/ WriteLine(i)
       \/ ChildDone(i)
       \/ WriteBreaks(i)
    /\ UNCHANGED <<shardOf, parentVars>>

ShardDies(i) ==
    /\ ShardFails(i) \/ ShardKilledInLine(i)
    /\ UNCHANGED <<shardOf, parentVars>>

-----------------------------------------------------------------------------
(* The parent *)

\* One more iteration of a loop over the shards; then main is at `next`.
Loop(loop, next) ==
    /\ ppc = loop
    /\ IF k + 1 < Shards THEN k' = k + 1 /\ ppc' = loop ELSE k' = 0 /\ ppc' = next

\* The new process gets the ends its parent holds, those of its own pipes too.
\* The parent then closes the two ends that are the shard's alone.
Fork ==
    /\ Loop("fork", "feed")
    /\ shard' = [shard EXCEPT ![k + 1].step = "closing"]
    /\ inherited' = [i \in Shard |-> inherited[i] \cup IF i <= k + 1 THEN {k + 1} ELSE {}]
    /\ UNCHANGED <<pending, input, mergeVars, bad, code, toChild, fromChild>>

LastTs == IF input = <<>> THEN 0 ELSE Last(input).ts

\* The next line of standard input, which the parent then has to send on.
NextLine(gap, u, b, p) ==
    /\ ppc = "feed"
    /\ pending = <<>>
    /\ Len(input) < MaxEvents
    /\ pending' = <<[ts |-> LastTs + gap, user |-> u, bytes |-> b, path |-> p]>>
    /\ UNCHANGED <<ppc, k, input, mergeVars, bad, code, childVars>>

\* The write blocks until the shard's pipe has room.
Feed ==
    LET e == Head(pending)
        i == shardOf[e.user]
    IN  /\ ppc = "feed"
        /\ pending # <<>>
        /\ Listening(i)
        /\ Len(toChild[i]) < Capacity
        /\ pending' = <<>>
        /\ input' = Append(input, e)
        /\ toChild' = [toChild EXCEPT ![i] = Append(@, e)]
        /\ UNCHANGED <<ppc, k, mergeVars, bad, code, shard, inherited, fromChild>>

EndOfInput ==
    /\ ppc = "feed"
    /\ pending = <<>>
    /\ ppc' = "close"
    /\ UNCHANGED <<k, pending, input, mergeVars, bad, code, childVars>>

\* w.close: from here on InputOpen no longer counts the parent.
CloseWriter ==
    /\ Loop("close", "merge")
    /\ UNCHANGED <<pending, input, mergeVars, bad, code, childVars>>

\* heapq.merge reads from the first reader whose line is due.
Due == {i \in live : head[i] = <<>>}

Reads(i) ==
    /\ ppc = "merge"
    /\ i \in Due
    /\ \A j \in Due : i <= j

Pull(i) ==
    /\ Reads(i)
    /\ fromChild[i] # <<>>
    /\ head' = [head EXCEPT ![i] = <<Head(fromChild[i])>>]
    /\ fromChild' = [fromChild EXCEPT ![i] = Tail(@)]
    /\ UNCHANGED <<ppc, k, pending, input, live, out, bad, code, shard, inherited, toChild>>

\* The shard has exited, and nobody else held its write end.
PullEnd(i) ==
    /\ Reads(i)
    /\ fromChild[i] = <<>>
    /\ Ended(i)
    /\ live' = live \ {i}
    /\ UNCHANGED <<ppc, k, pending, input, head, out, bad, code, childVars>>

Writes(i) ==
    /\ out' = Append(out, head[i][1])
    /\ head' = [head EXCEPT ![i] = <<>>]
    /\ UNCHANGED <<ppc, k, pending, input, live, bad, code, childVars>>

\* MUTANT of Merge: a line is taken before every reader has shown its own.
MergeEarly(i) ==
    /\ ppc = "merge"
    /\ i \in live \ Due
    /\ \A j \in live \ Due : ~Before(head[j][1], head[i][1])
    /\ Writes(i)

\* The least of the lines is written.
Merge(i) ==
    /\ ppc = "merge"
    /\ Due = {}
    /\ i \in live
    /\ \A j \in live : ~Before(head[j][1], head[i][1])
    /\ Writes(i)

\* All readers are at their end, and closed.
MergeEnds ==
    /\ ppc = "merge"
    /\ live = {}
    /\ ppc' = "wait"
    /\ UNCHANGED <<k, pending, input, mergeVars, bad, code, childVars>>

WaitShard ==
    /\ Ended(k + 1)
    /\ Loop("wait", "return")
    /\ bad' = IF shard[k + 1].step = "exit0" THEN bad ELSE bad + 1
    /\ UNCHANGED <<pending, input, mergeVars, code, childVars>>

ExitsWith(status) ==
    /\ ppc' = "exited"
    /\ code' = status
    /\ UNCHANGED <<k, pending, input, mergeVars, bad, childVars>>

\* MUTANT of Return: the failed shards are only printed.
ReturnZero == ppc = "return" /\ ExitsWith(0)

\* MUTANT of Return: the number of failed shards is returned.
ReturnBad == ppc = "return" /\ ExitsWith(bad)

\* return 1 if bad else 0
Return == ppc = "return" /\ ExitsWith(IF bad = 0 THEN 0 ELSE 1)

\* What the parent cannot get past raises, and nothing in main catches it: the
\* pipe of a shard that is gone, at a write or when the close writes what was
\* buffered, and a line without its tabs, for int or an index of split.
Raises ==
    /\ \/ ppc = "feed" /\ pending # <<>> /\ ~Listening(shardOf[Head(pending).user])
       \/ ppc = "close" /\ ~Listening(k + 1)
       \/ ppc = "merge" /\ \E i \in live \ Due : IsCut(head[i][1])
    /\ ExitsWith(1)

\* The parent's own end, at any point: a fork that RLIMIT_NPROC refuses, its
\* MemoryError, a kill, a standard output that cannot be written, there and then
\* or when it is flushed after main has returned.
ParentFails ==
    /\ ppc # "exited"
    /\ ExitsWith(1)
    /\ UNCHANGED shardOf

ParentRuns ==
    /\ \/ Fork
       \/ \E gap \in Gaps, u \in Users, b \in Sizes, p \in Paths : NextLine(gap, u, b, p)
       \/ Feed
       \/ EndOfInput
       \/ CloseWriter
       \/ \E i \in Shard : Pull(i) \/ PullEnd(i) \/ Merge(i)
       \/ MergeEnds
       \/ WaitShard
       \/ Return
       \/ Raises
    /\ UNCHANGED shardOf

Next ==
    \/ ParentRuns
    \/ ParentFails
    \/ \E i \in Shard : ShardRuns(i) \/ ShardDies(i)

Spec == Init /\ [][Next]_vars

\* Every process that is not blocked keeps running; failures need not happen.
FairSpec ==
    /\ Spec
    /\ WF_vars(ParentRuns)
    /\ \A i \in Shard : WF_vars(ShardRuns(i))

-----------------------------------------------------------------------------
(* Properties *)

\* The exit status promises no more than it should, whatever fails and whenever,
\* the parent included: the count main prints is that of the shards that failed,
\* and status 0 means that every shard was forked and ended with 0.
ExitCodeHonest ==
    /\ ppc = "return" => bad = Cardinality({i \in Shard : shard[i].step = "exit1"})
    /\ code = 0 => \A i \in Shard : shard[i].step = "exit0"

\* However the shards are scheduled, the merge writes in (end_ts, user) order.
OutputInOrder ==
    \A m, n \in 1..Len(out) : m < n => Before(out[m], out[n])

\* "Children only write after their input hits EOF, so no deadlock": a parent
\* that blocks in a write to a full pipe gets on again, a shard sees the end of
\* its input although it inherited others' ends, and every process ends, whatever
\* fails and however little a pipe holds.
EveryProcessEnds ==
    <>(/\ ppc = "exited"
       /\ \A i \in Shard : shard[i].step \in {"unborn", "exit0", "exit1"})

=============================================================================
