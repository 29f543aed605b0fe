-------------------------- MODULE ForkSpreadProofs --------------------------
(***************************************************************************)
(* Proofs about ForkSpread for every number of shards, every assignment of *)
(* users to them, pipes of every capacity, inputs of every length, and     *)
(* processes that fail at any step, the parent among them.                 *)
(***************************************************************************)
EXTENDS MCForkSpread, Lemmas

-----------------------------------------------------------------------------
(* The inductive invariant *)

Increasing(s) == \A m, n \in 1..Len(s) : m < n => Before(s[m], s[n])

Below(s, t) == \A m \in 1..Len(s), n \in 1..Len(t) : Before(s[m], t[n])

\* What a child has accumulated: one open session for each of its users, and
\* closed ones that all ended before it and at different times.
Memory(i) ==
    /\ IsFiniteSet(Accumulated(i))
    /\ \A s \in shard[i].users :
          /\ s.n_events > 0
          /\ IsFiniteSet(s.paths)
          /\ shardOf[s.user] = i
    /\ \A s, t \in shard[i].users : s.user = t.user => s = t
    /\ \A r \in shard[i].done :
          /\ r.events > 0
          /\ \E s \in shard[i].users : s.user = r.user /\ r.end_ts < s.last_ts
    /\ \A q, r \in shard[i].done : q.user = r.user /\ q.end_ts = r.end_ts => q = r

\* What it is still to be sent is its own and later than what it has read.
Arrivals(i) ==
    /\ \A n \in 1..Len(toChild[i]) :
          /\ shardOf[toChild[i][n].user] = i
          /\ toChild[i][n].ts <= LastTs
          /\ \A m \in 1..n : toChild[i][m].ts <= toChild[i][n].ts
          /\ \A s \in shard[i].users : s.last_ts <= toChild[i][n].ts
    /\ \A s \in shard[i].users : s.last_ts <= LastTs

Own(i, s) == \A n \in 1..Len(s) : shardOf[s[n].user] = i

WholeOrDead(i, s) == \A n \in 1..Len(s) : s[n].events = 0 => shard[i].step = "exit1"

\* What it is to write, has written, and has shown the parent is one increasing
\* sequence of its own records; only a child that failed has cut one short.
Departures(i) ==
    /\ Increasing(shard[i].lines) /\ Increasing(fromChild[i]) /\ Len(head[i]) <= 1
    /\ Below(head[i], fromChild[i])
    /\ Below(head[i], shard[i].lines)
    /\ Below(fromChild[i], shard[i].lines)
    /\ Own(i, head[i]) /\ Own(i, fromChild[i]) /\ Own(i, shard[i].lines)
    /\ WholeOrDead(i, head[i]) /\ WholeOrDead(i, fromChild[i])
    /\ \A n \in 1..Len(shard[i].lines) : shard[i].lines[n].events > 0

\* Nothing is written before the input has ended, nor after the process has.
Phases(i) ==
    /\ shard[i].step # "writing" => shard[i].lines = <<>>
    /\ shard[i].step \in {"unborn", "closing", "reading"} =>
          fromChild[i] = <<>> /\ head[i] = <<>> /\ out = <<>>
    /\ i \notin live => Ended(i) /\ fromChild[i] = <<>> /\ head[i] = <<>>

\* The output is increasing and all that can still come is after it.
Merged(i) ==
    /\ Below(out, head[i])
    /\ Below(out, fromChild[i])
    /\ Below(out, shard[i].lines)

\* Where the parent is bounds where a child can be.
Progress(i) ==
    /\ ppc = "fork" => (shard[i].step = "unborn" <=> k < i)
    /\ ppc \notin {"fork", "exited"} => shard[i].step # "unborn"
    /\ ppc \in {"fork", "feed"} \/ (ppc = "close" /\ k < i) =>
          shard[i].step \notin {"writing", "exit0"}
    /\ ppc = "wait" /\ i <= k => Ended(i)
    /\ ppc = "return" => Ended(i)

\* The line the parent is to send on is not earlier than those it has.
Ahead == \A n \in 1..Len(pending) : LastTs <= pending[n].ts

Failures(last) == {i \in 1..last : shard[i].step = "exit1"}

\* What the parent knows of the exit statuses, before and after its own.
Status ==
    /\ ppc = "merge" => k = 0
    /\ ppc \notin {"wait", "return", "exited"} => bad = 0 /\ code = -1
    /\ ppc = "wait" => bad = Cardinality(Failures(k)) /\ code = -1
    /\ ppc = "return" => bad = Cardinality(Failures(Shards)) /\ code = -1
    /\ code = 0 => \A i \in Shard : shard[i].step = "exit0"

IInv ==
    /\ TypeOK
    /\ \A i \in Shard : Memory(i) /\ Arrivals(i) /\ Departures(i) /\ Phases(i)
    /\ \A i \in Shard : Merged(i)
    /\ Increasing(out)
    /\ \A i \in Shard : Progress(i)
    /\ Ahead
    /\ Status

-----------------------------------------------------------------------------
(* Order and sequences *)

LEMMA RecordKey ==
    ASSUME NEW r \in Record
    PROVE  r.user \in Users /\ r.user \in Nat /\ r.end_ts \in Nat
BY SessionAssumption DEF Record

LEMMA BeforeTransitive ==
    ASSUME NEW r \in Record, NEW s \in Record, NEW t \in Record, Before(r, s), Before(s, t)
    PROVE  Before(r, t)
BY RecordKey DEF Before

\* Records that are not in the order of their keys either way have the same key.
LEMMA BeforeTotal ==
    ASSUME NEW r \in Record, NEW s \in Record, ~Before(s, r)
    PROVE  Before(r, s) \/ (r.user = s.user /\ r.end_ts = s.end_ts)
BY RecordKey DEF Before

LEMMA EmitType ==
    ASSUME NEW s \in Session, IsFiniteSet(s.paths)
    PROVE  /\ Emit(s) \in Record
           /\ Emit(s).user = s.user /\ Emit(s).end_ts = s.last_ts
           /\ Emit(s).events = s.n_events
<1>1. Cardinality(s.paths) \in Nat
  BY FS_CardinalityType
<1>2. QED  BY <1>1 DEF Emit, Session, Record

LEMMA CutType ==
    ASSUME NEW r \in Record
    PROVE  /\ Cut(r) \in Record
           /\ Cut(r).user = r.user /\ Cut(r).end_ts = r.end_ts /\ Cut(r).events = 0
BY DEF Cut, Record

\* What done.sort returns, for a set of records with different keys.
LEMMA SortedRecords ==
    ASSUME NEW S \in SUBSET Record, IsFiniteSet(S), NEW s \in Sorted(S)
    PROVE  /\ s \in Seq(Record)
           /\ \A n \in 1..Len(s) : s[n] \in S
           /\ ToSet(s) = S
           /\ (\A q, r \in S : q.user = r.user /\ q.end_ts = r.end_ts => q = r)
                => Increasing(s)
<1>1. Cardinality(S) \in Nat
  BY FS_CardinalityType
<1>2. /\ s \in [1..Cardinality(S) -> S]
      /\ \A m, n \in 1..Cardinality(S) : m # n => s[m] # s[n]
      /\ \A m, n \in 1..Len(s) : m < n => ~Before(s[n], s[m])
  BY DEF Sorted, SetToSeqs
<1>3. s \in Seq(S) /\ s \in Seq(Record) /\ Len(s) = Cardinality(S)
  BY <1>1, <1>2
<1>4. ASSUME \A q, r \in S : q.user = r.user /\ q.end_ts = r.end_ts => q = r,
             NEW m \in 1..Len(s), NEW n \in 1..Len(s), m < n
      PROVE  Before(s[m], s[n])
  <2>1. s[m] \in S /\ s[n] \in S /\ s[m] # s[n] /\ ~Before(s[n], s[m])
    BY <1>2, <1>3, <1>4
  <2>2. QED  BY <1>4, <2>1, BeforeTotal
<1>5. {s[n] : n \in 1..Cardinality(S)} = S
  <2>1. Distinct(s, Cardinality(S))
    BY <1>2 DEF Distinct
  <2>2. Cardinality({s[n] : n \in 1..Cardinality(S)}) = Cardinality(S)
    BY <1>1, <2>1, CountDistinct
  <2>3. {s[n] : n \in 1..Cardinality(S)} \subseteq S
    BY <1>2
  <2>4. QED  BY <2>2, <2>3, FS_Subset
<1>6. ToSet(s) = S
  BY <1>2, <1>5 DEF ToSet
<1>7. QED  BY <1>2, <1>3, <1>4, <1>6 DEF Increasing

\* Removing the first element keeps the order, and leaves later ones only.
LEMMA IncreasingTail ==
    ASSUME NEW s \in Seq(Record), s # <<>>, Increasing(s)
    PROVE  Increasing(Tail(s)) /\ \A n \in 1..Len(Tail(s)) : Before(s[1], Tail(s)[n])
<1>1. /\ Len(s) \in Nat \ {0} /\ Len(Tail(s)) = Len(s) - 1
      /\ \A j \in 1..(Len(s) - 1) : Tail(s)[j] = s[j + 1]
  BY TailShifts
<1>2. QED  BY <1>1 DEF Increasing

LEMMA IncreasingAppend ==
    ASSUME NEW s \in Seq(Record), NEW r \in Record, Increasing(s),
           \A n \in 1..Len(s) : Before(s[n], r)
    PROVE  Increasing(Append(s, r))
BY AppendAdds DEF Increasing

LEMMA BelowTail ==
    ASSUME NEW s \in Seq(Record), NEW t \in Seq(Record), t # <<>>
    PROVE  /\ Below(s, t) => Below(s, Tail(t)) /\ \A n \in 1..Len(s) : Before(s[n], t[1])
           /\ Below(t, s) => Below(Tail(t), s)
<1>1. /\ Len(t) \in Nat \ {0} /\ Len(Tail(t)) = Len(t) - 1
      /\ \A j \in 1..(Len(t) - 1) : Tail(t)[j] = t[j + 1]
  BY TailShifts
<1>2. QED  BY <1>1 DEF Below

LEMMA BelowAppend ==
    ASSUME NEW s \in Seq(Record), NEW t \in Seq(Record), NEW r \in Record
    PROVE  /\ Below(s, t) /\ (\A n \in 1..Len(s) : Before(s[n], r)) => Below(s, Append(t, r))
           /\ Below(t, s) /\ (\A n \in 1..Len(s) : Before(r, s[n])) => Below(Append(t, r), s)
BY AppendAdds DEF Below

\* The first line of l becomes the last of f.
LEMMA LineMoves ==
    ASSUME NEW l \in Seq(Record), NEW f \in Seq(Record), l # <<>>,
           Increasing(f), Increasing(l), Below(f, l)
    PROVE  /\ Increasing(Append(f, l[1])) /\ Increasing(Tail(l))
           /\ Below(Append(f, l[1]), Tail(l))
           /\ \A s \in Seq(Record) :
                 Below(s, f) /\ Below(s, l) => Below(s, Append(f, l[1])) /\ Below(s, Tail(l))
           /\ Append(f, l[1]) \in Seq(Record) /\ Tail(l) \in Seq(Record)
<1>1. l[1] \in Record /\ 1 \in 1..Len(l) /\ Tail(l) \in Seq(Record)
  OBVIOUS
<1>2. Increasing(Tail(l)) /\ \A n \in 1..Len(Tail(l)) : Before(l[1], Tail(l)[n])
  BY IncreasingTail
<1>3. \A s \in Seq(Record) : Below(s, l) => /\ Below(s, Tail(l))
                                           /\ \A n \in 1..Len(s) : Before(s[n], l[1])
  BY BelowTail
<1>4. Increasing(Append(f, l[1]))
  BY <1>1, <1>3, IncreasingAppend
<1>5. Below(Append(f, l[1]), Tail(l))
  BY <1>1, <1>2, <1>3, BelowAppend
<1>6. \A s \in Seq(Record) : Below(s, f) /\ Below(s, l) => Below(s, Append(f, l[1]))
  BY <1>1, <1>3, BelowAppend
<1>7. QED  BY <1>1, <1>2, <1>3, <1>4, <1>5, <1>6, AppendAdds

LEMMA BelowEmpty ==
    ASSUME NEW s
    PROVE  Below(s, <<>>) /\ Below(<<>>, s) /\ Increasing(<<>>)
BY DEF Below, Increasing

-----------------------------------------------------------------------------
(* Types *)

LEMMA LoopAdvances ==
    ASSUME TypeOK, NEW loop, NEW next, Loop(loop, next)
    PROVE  /\ k + 1 \in Shard /\ k \in Nat
           /\ k' \in 0..(Shards - 1)
           /\ \/ k + 1 < Shards /\ k' = k + 1 /\ ppc' = loop
              \/ k + 1 = Shards /\ k' = 0 /\ ppc' = next
<1>1. k \in 0..(Shards - 1) /\ Shards \in Nat
  BY ForkSpreadAssumption DEF TypeOK
<1>2. k + 1 \in Shard /\ k \in Nat
  BY <1>1 DEF Shard
<1>3. CASE k + 1 < Shards
  BY <1>1, <1>2, <1>3 DEF Loop
<1>4. CASE ~(k + 1 < Shards)
  BY <1>1, <1>2, <1>4 DEF Loop
<1>5. QED  BY <1>2, <1>3, <1>4

LEMMA LastTsType ==
    ASSUME TypeOK
    PROVE  LastTs \in Nat
<1>1. CASE input = <<>>
  BY <1>1 DEF LastTs
<1>2. CASE input # <<>>
  <2>1. input[Len(input)] \in Event
    BY <1>2 DEF TypeOK
  <2>2. QED  BY <1>2, <2>1 DEF LastTs, Last, Event
<1>3. QED  BY <1>1, <1>2

LEMMA FedEvent ==
    ASSUME TypeOK, NEW gap \in Gaps, NEW u \in Users, NEW b \in Sizes, NEW p \in Paths
    PROVE  [ts |-> LastTs + gap, user |-> u, bytes |-> b, path |-> p] \in Event
BY LastTsType, SessionAssumption DEF Event

\* A child at another step, or with other sessions, is still a child.
LEMMA StepType ==
    ASSUME TypeOK, NEW i \in Shard, NEW s \in Steps
    PROVE  [shard EXCEPT ![i].step = s]
               \in [Shard -> [step : Steps, users : SUBSET Session, done : SUBSET Record,
                              lines : Seq(Record)]]
BY DEF TypeOK

LEMMA SessionsType ==
    ASSUME TypeOK, NEW i \in Shard, NEW u \in SUBSET Session, NEW d \in SUBSET Record
    PROVE  [shard EXCEPT ![i].done = d, ![i].users = u]
               \in [Shard -> [step : Steps, users : SUBSET Session, done : SUBSET Record,
                              lines : Seq(Record)]]
<1>1. shard \in [Shard -> [step : Steps, users : SUBSET Session, done : SUBSET Record,
                          lines : Seq(Record)]]
  BY DEF TypeOK
<1>2. [shard[i] EXCEPT !.done = d, !.users = u]
          \in [step : Steps, users : SUBSET Session, done : SUBSET Record, lines : Seq(Record)]
  BY <1>1
<1>3. [shard EXCEPT ![i].done = d, ![i].users = u]
          = [shard EXCEPT ![i] = [shard[i] EXCEPT !.done = d, !.users = u]]
  BY <1>1
<1>4. QED  BY <1>1, <1>2, <1>3

LEMMA ParentType ==
    ASSUME TypeOK, ParentRuns \/ ParentFails
    PROVE  TypeOK'
<1>0. UNCHANGED shardOf
  BY DEF ParentRuns, ParentFails
<1>1. CASE Fork
  <2>1. /\ k + 1 \in Shard
        /\ k' \in 0..(Shards - 1)
        /\ ppc' \in {"fork", "feed"}
    BY <1>1, LoopAdvances DEF Fork
  <2>2. shard' \in [Shard -> [step : Steps, users : SUBSET Session, done : SUBSET Record,
                              lines : Seq(Record)]]
    <3>1. shard' = [shard EXCEPT ![k + 1].step = "closing"] /\ "closing" \in Steps
      BY <1>1 DEF Fork, Steps
    <3>2. QED  BY <2>1, <3>1, StepType
  <2>3. inherited' \in [Shard -> SUBSET Shard]
    BY <1>1, <2>1 DEF Fork, TypeOK
  <2>4. QED  BY <1>0, <1>1, <2>1, <2>2, <2>3 DEF Fork, TypeOK, mergeVars
<1>2. CASE Feed
  <2> DEFINE e == Head(pending)
  <2>1. e \in Event
    BY <1>2 DEF Feed, TypeOK
  <2>2. shardOf[e.user] \in Shard
    BY <2>1 DEF TypeOK, Event
  <2> HIDE DEF e
  <2>3. /\ input' = Append(input, e) /\ pending' = <<>>
        /\ toChild' = [toChild EXCEPT ![shardOf[e.user]] = Append(@, e)]
    BY <1>2 DEF Feed, e
  <2>4. /\ input' \in Seq(Event) /\ pending' \in Seq(Event)
        /\ toChild' \in [Shard -> Seq(Event)]
    BY <2>1, <2>2, <2>3 DEF TypeOK
  <2>5. QED  BY <1>0, <1>2, <2>4 DEF Feed, TypeOK, mergeVars
<1>3. CASE EndOfInput
  BY <1>0, <1>3 DEF EndOfInput, TypeOK, mergeVars, childVars
<1>4. CASE CloseWriter
  <2>1. k' \in 0..(Shards - 1) /\ ppc' \in {"close", "merge"}
    BY <1>4, LoopAdvances DEF CloseWriter
  <2>2. QED  BY <1>0, <1>4, <2>1 DEF CloseWriter, TypeOK, mergeVars, childVars
<1>5. ASSUME NEW i \in Shard, Pull(i)
      PROVE  TypeOK'
  <2>1. Head(fromChild[i]) \in Record /\ Tail(fromChild[i]) \in Seq(Record)
    BY <1>5 DEF Pull, TypeOK
  <2>2. <<Head(fromChild[i])>> \in Seq(Record)
    BY <2>1
  <2>3. head' \in [Shard -> Seq(Record)] /\ fromChild' \in [Shard -> Seq(Record)]
    BY <1>5, <2>1, <2>2 DEF Pull, TypeOK
  <2>4. QED  BY <1>0, <1>5, <2>3 DEF Pull, TypeOK
<1>6. ASSUME NEW i \in Shard, PullEnd(i)
      PROVE  TypeOK'
  BY <1>0, <1>6 DEF PullEnd, TypeOK, childVars
<1>7. ASSUME NEW i \in Shard, Merge(i)
      PROVE  TypeOK'
  <2>1. head[i] \in Seq(Record) /\ head[i] # <<>>
    BY <1>7 DEF Merge, Due, TypeOK
  <2>2. head[i][1] \in Record
    BY <2>1
  <2>3. out' \in Seq(Record) /\ head' \in [Shard -> Seq(Record)]
    BY <1>7, <2>2 DEF Merge, Writes, TypeOK
  <2>4. QED  BY <1>0, <1>7, <2>3 DEF Merge, Writes, TypeOK, childVars
<1>8. CASE MergeEnds
  BY <1>0, <1>8 DEF MergeEnds, TypeOK, mergeVars, childVars
<1>9. CASE WaitShard
  <2>1. k' \in 0..(Shards - 1) /\ ppc' \in {"wait", "return"}
    BY <1>9, LoopAdvances DEF WaitShard
  <2>2. QED  BY <1>0, <1>9, <2>1 DEF WaitShard, TypeOK, mergeVars, childVars
<1>10. CASE Return
  BY <1>0, <1>10 DEF Return, ExitsWith, TypeOK, mergeVars, childVars
<1>11. CASE Raises
  BY <1>0, <1>11 DEF Raises, ExitsWith, TypeOK, mergeVars, childVars
<1>12. CASE ParentFails
  BY <1>0, <1>12 DEF ParentFails, ExitsWith, TypeOK, mergeVars, childVars
<1>13. ASSUME NEW gap \in Gaps, NEW u \in Users, NEW b \in Sizes, NEW p \in Paths,
              NextLine(gap, u, b, p)
       PROVE  TypeOK'
  <2> DEFINE e == [ts |-> LastTs + gap, user |-> u, bytes |-> b, path |-> p]
  <2>1. e \in Event
    BY FedEvent
  <2> HIDE DEF e
  <2>2. pending' = <<e>>
    BY <1>13 DEF NextLine, e
  <2>3. pending' \in Seq(Event)
    BY <2>1, <2>2
  <2>4. QED  BY <1>0, <1>13, <2>3 DEF NextLine, TypeOK, mergeVars, childVars
<1>14. QED
  BY <1>1, <1>2, <1>3, <1>4, <1>5, <1>6, <1>7, <1>8, <1>9, <1>10, <1>11, <1>12, <1>13
     DEF ParentRuns

\* What one event does to a child's sessions.
LEMMA ReadLineEffect ==
    ASSUME TypeOK, NEW i \in Shard, Memory(i), ReadLine(i)
    PROVE  LET e    == Head(toChild[i])
               users == shard[i].users
               done == shard[i].done
           IN  /\ e \in Event
               /\ shard' = [shard EXCEPT ![i].done = shard'[i].done, ![i].users = shard'[i].users]
               /\ \/ /\ \A s \in users : s.user # e.user
                     /\ shard'[i].users = users \cup {NewSession(e)}
                     /\ shard'[i].done = done
                  \/ \E s \in users :
                        /\ s.user = e.user
                        /\ e.ts - s.last_ts > IdleMs
                        /\ shard'[i].users = (users \ {s}) \cup {NewSession(e)}
                        /\ shard'[i].done = done \cup {Emit(s)}
                  \/ \E s \in users :
                        /\ s.user = e.user
                        /\ ~(e.ts - s.last_ts > IdleMs)
                        /\ shard'[i].users = (users \ {s}) \cup {Extended(s, e)}
                        /\ shard'[i].done = done
<1> DEFINE e     == Head(toChild[i])
           users == shard[i].users
           done  == shard[i].done
           own   == {s \in users : s.user = e.user}
           idle  == {s \in own : e.ts - s.last_ts > IdleMs}
           begun == IF own = idle THEN {NewSession(e)} ELSE {Extended(s, e) : s \in own}
<1>1. e \in Event
  BY DEF ReadLine, TypeOK
<1>2. shard' = [shard EXCEPT ![i].done = done \cup {Emit(s) : s \in idle},
                             ![i].users = (users \ own) \cup begun]
  BY DEF ReadLine
<1>3. /\ shard[i] \in [step : Steps, users : SUBSET Session, done : SUBSET Record,
                       lines : Seq(Record)]
      /\ shard'[i] = [shard[i] EXCEPT !.done = done \cup {Emit(s) : s \in idle},
                                      !.users = (users \ own) \cup begun]
  <2> HIDE DEF own, idle, begun, done, users
  <2>1. QED  BY <1>2 DEF TypeOK
<1>4. /\ shard'[i].done = done \cup {Emit(s) : s \in idle}
      /\ shard'[i].users = (users \ own) \cup begun
  <2> HIDE DEF own, idle, begun, done, users
  <2>1. QED  BY <1>3
<1>5. shard' = [shard EXCEPT ![i].done = shard'[i].done, ![i].users = shard'[i].users]
  <2> HIDE DEF own, idle, begun, done, users
  <2>1. QED  BY <1>2, <1>4
<1>6. CASE own = {}
  <2>1. /\ \A s \in users : s.user # e.user
        /\ shard'[i].users = users \cup {NewSession(e)}
        /\ shard'[i].done = done
    BY <1>4, <1>6
  <2>2. QED  BY <1>1, <1>5, <2>1
<1>7. CASE own # {}
  <2>1. PICK s \in users : own = {s}
    BY <1>7 DEF Memory
  <2>2. s.user = e.user
    BY <2>1
  <2>3. CASE e.ts - s.last_ts > IdleMs
    <3>1. idle = {s} /\ own = idle
      BY <2>1, <2>3
    <3>2. shard'[i].users = (users \ {s}) \cup {NewSession(e)}
      BY <1>4, <2>1, <3>1
    <3>3. shard'[i].done = done \cup {Emit(s)}
      BY <1>4, <3>1
    <3>4. QED  BY <1>1, <1>5, <2>2, <2>3, <3>2, <3>3
  <2>4. CASE ~(e.ts - s.last_ts > IdleMs)
    <3>1. idle = {} /\ own # idle
      BY <2>1, <2>4
    <3>2. shard'[i].users = (users \ {s}) \cup {Extended(s, e)}
      BY <1>4, <2>1, <3>1
    <3>3. shard'[i].done = done
      BY <1>4, <3>1
    <3>4. QED  BY <1>1, <1>5, <2>2, <2>4, <3>2, <3>3
  <2>5. QED  BY <2>3, <2>4
<1>8. QED  BY <1>6, <1>7

LEMMA NewSessionType ==
    ASSUME NEW e \in Event
    PROVE  /\ NewSession(e) \in Session
           /\ NewSession(e).user = e.user /\ NewSession(e).last_ts = e.ts
           /\ NewSession(e).n_events > 0 /\ IsFiniteSet(NewSession(e).paths)
<1>1. IsFiniteSet({e.path})
  BY FS_Singleton
<1>2. e.ts \in Nat /\ e.user \in Users /\ e.bytes \in Nat /\ e.path \in Paths
  BY SessionAssumption DEF Event
<1>3. NewSession(e) \in Session
  BY <1>2 DEF NewSession, Session
<1>4. QED  BY <1>1, <1>3 DEF NewSession

LEMMA ExtendedType ==
    ASSUME NEW e \in Event, NEW s \in Session, IsFiniteSet(s.paths)
    PROVE  /\ Extended(s, e) \in Session
           /\ Extended(s, e).user = s.user /\ Extended(s, e).last_ts = e.ts
           /\ Extended(s, e).n_events > 0 /\ IsFiniteSet(Extended(s, e).paths)
<1>1. IsFiniteSet(s.paths \cup {e.path})
  BY FS_AddElement
<1>2. e.ts \in Nat /\ e.bytes \in Nat /\ e.path \in Paths
  BY SessionAssumption DEF Event
<1>3. Extended(s, e) \in Session /\ s.n_events \in Nat
  BY <1>2 DEF Extended, Session
<1>4. QED  BY <1>1, <1>3 DEF Extended

\* The lines that a child starts to write.
LEMMA AccumulatedType ==
    ASSUME TypeOK, NEW i \in Shard, Memory(i)
    PROVE  /\ Accumulated(i) \in SUBSET Record
           /\ \A r \in Accumulated(i) : r.events > 0 /\ shardOf[r.user] = i
           /\ \A q, r \in Accumulated(i) : q.user = r.user /\ q.end_ts = r.end_ts => q = r
<1>1. shard[i].users \subseteq Session /\ shard[i].done \subseteq Record
  BY DEF TypeOK
<1>2. \A s \in shard[i].users :
         /\ Emit(s) \in Record
         /\ Emit(s).user = s.user /\ Emit(s).end_ts = s.last_ts
         /\ Emit(s).events = s.n_events
  BY <1>1, EmitType DEF Memory
<1>3. ASSUME NEW r \in Accumulated(i)
      PROVE  r \in Record /\ r.events > 0 /\ shardOf[r.user] = i
  <2>1. CASE r \in shard[i].done
    BY <1>1, <2>1 DEF Memory
  <2>2. CASE \E s \in shard[i].users : r = Emit(s)
    BY <1>2, <2>2 DEF Memory
  <2>3. QED  BY <2>1, <2>2 DEF Accumulated
<1>4. ASSUME NEW q \in Accumulated(i), NEW r \in Accumulated(i),
             q.user = r.user, q.end_ts = r.end_ts
      PROVE  q = r
  <2>1. ASSUME NEW p \in shard[i].done, NEW s \in shard[i].users, p.user = s.user
        PROVE  p.end_ts # s.last_ts
    <3>1. PICK t \in shard[i].users : t.user = p.user /\ p.end_ts < t.last_ts
      BY DEF Memory
    <3>2. t = s
      BY <2>1, <3>1 DEF Memory
    <3>3. p.end_ts \in Nat /\ s.last_ts \in Nat
      BY <1>1 DEF Session, Record
    <3>4. QED  BY <3>1, <3>2, <3>3
  <2>2. CASE q \in shard[i].done /\ r \in shard[i].done
    BY <1>4, <2>2 DEF Memory
  <2>3. CASE \E s \in shard[i].users : q = Emit(s) /\ r \in shard[i].done
    BY <1>2, <1>4, <2>1, <2>3
  <2>4. CASE \E s \in shard[i].users : r = Emit(s) /\ q \in shard[i].done
    BY <1>2, <1>4, <2>1, <2>4
  <2>5. CASE \E s, t \in shard[i].users : q = Emit(s) /\ r = Emit(t)
    BY <1>2, <1>4, <2>5 DEF Memory
  <2>6. QED  BY <2>2, <2>3, <2>4, <2>5 DEF Accumulated
<1>5. QED  BY <1>3, <1>4

LEMMA EmptyProcess ==
    ASSUME NEW step \in Steps, NEW lines \in Seq(Record)
    PROVE  Process(step, lines) \in [step : Steps, users : SUBSET Session,
                                     done : SUBSET Record, lines : Seq(Record)]
BY DEF Process

LEMMA ReleaseType ==
    ASSUME TypeOK, NEW i \in Shard, Release(i)
    PROVE  inherited' \in [Shard -> SUBSET Shard]
BY DEF TypeOK, Release

\* A child that exits leaves the types and the other children alone.
LEMMA ExitsType ==
    ASSUME TypeOK, NEW i \in Shard, NEW status \in Steps, Exits(i, status)
    PROVE  /\ shard' \in [Shard -> [step : Steps, users : SUBSET Session, done : SUBSET Record,
                                    lines : Seq(Record)]]
           /\ inherited' \in [Shard -> SUBSET Shard]
           /\ toChild' \in [Shard -> Seq(Event)]
<1>1. Process(status, <<>>) \in [step : Steps, users : SUBSET Session,
                                 done : SUBSET Record, lines : Seq(Record)]
  <2>1. <<>> \in Seq(Record)
    OBVIOUS
  <2>2. QED  BY <2>1, EmptyProcess
<1>2. shard' = [shard EXCEPT ![i] = Process(status, <<>>)] /\ UNCHANGED toChild
  BY DEF Exits
<1>3. QED  BY <1>1, <1>2, ReleaseType DEF Exits, TypeOK

LEMMA ChildType ==
    ASSUME TypeOK, NEW i \in Shard, Memory(i), ShardRuns(i) \/ ShardDies(i)
    PROVE  TypeOK'
<1> SUFFICES /\ shard' \in [Shard -> [step : Steps, users : SUBSET Session,
                                      done : SUBSET Record, lines : Seq(Record)]]
             /\ inherited' \in [Shard -> SUBSET Shard]
             /\ toChild' \in [Shard -> Seq(Event)]
             /\ fromChild' \in [Shard -> Seq(Record)]
  BY DEF ShardRuns, ShardDies, TypeOK, parentVars, mergeVars
<1>1. CASE CloseInherited(i)
  <2>1. shard' \in [Shard -> [step : Steps, users : SUBSET Session, done : SUBSET Record,
                              lines : Seq(Record)]]
    <3>1. shard' = [shard EXCEPT ![i].step = "reading"] /\ "reading" \in Steps
      BY <1>1 DEF CloseInherited, Steps
    <3>2. QED  BY <3>1, StepType
  <2>2. QED  BY <1>1, <2>1, ReleaseType DEF CloseInherited, TypeOK
<1>2. CASE ReadLine(i)
  <2> DEFINE e == Head(toChild[i])
  <2>1. e \in Event /\ toChild' \in [Shard -> Seq(Event)]
    BY <1>2 DEF ReadLine, TypeOK
  <2>2. NewSession(e) \in Session
    BY <2>1, NewSessionType
  <2>3. ASSUME NEW s \in shard[i].users
        PROVE  Extended(s, e) \in Session /\ Emit(s) \in Record
    <3>1. s \in Session /\ IsFiniteSet(s.paths)
      BY DEF TypeOK, Memory
    <3>2. QED  BY <2>1, <3>1, ExtendedType, EmitType
  <2>4. shard[i].users \subseteq Session /\ shard[i].done \subseteq Record
    BY DEF TypeOK
  <2>5. shard'[i].users \in SUBSET Session /\ shard'[i].done \in SUBSET Record
    <3> DEFINE users == shard[i].users
               done  == shard[i].done
    <3>1. \/ /\ shard'[i].users = users \cup {NewSession(e)}
             /\ shard'[i].done = done
          \/ \E s \in users : /\ shard'[i].users = (users \ {s}) \cup {NewSession(e)}
                             /\ shard'[i].done = done \cup {Emit(s)}
          \/ \E s \in users : /\ shard'[i].users = (users \ {s}) \cup {Extended(s, e)}
                             /\ shard'[i].done = done
      BY <1>2, ReadLineEffect
    <3> HIDE DEF e
    <3>2. QED  BY <2>2, <2>3, <2>4, <3>1
  <2>6. shard' = [shard EXCEPT ![i].done = shard'[i].done, ![i].users = shard'[i].users]
    BY <1>2, ReadLineEffect
  <2>7. shard' \in [Shard -> [step : Steps, users : SUBSET Session, done : SUBSET Record,
                              lines : Seq(Record)]]
    <3> DEFINE users == shard'[i].users
               done  == shard'[i].done
    <3>1. users \in SUBSET Session /\ done \in SUBSET Record
      BY <2>5
    <3>2. shard' = [shard EXCEPT ![i].done = done, ![i].users = users]
      BY <2>6, Zenon
    <3> HIDE DEF users, done
    <3>3. [shard EXCEPT ![i].done = done, ![i].users = users]
              \in [Shard -> [step : Steps, users : SUBSET Session, done : SUBSET Record,
                             lines : Seq(Record)]]
      BY <3>1, SessionsType
    <3>4. QED  BY <3>2, <3>3, Zenon
  <2>8. QED  BY <1>2, <2>1, <2>7 DEF ReadLine, TypeOK
<1>3. CASE EndOfPipe(i)
  <2>1. PICK lines \in Sorted(Accumulated(i)) :
            shard' = [shard EXCEPT ![i] = Process("writing", lines)]
    BY <1>3 DEF EndOfPipe, StartsWriting
  <2>2. lines \in Seq(Record)
    BY AccumulatedType, SortedRecords DEF Memory
  <2>3. Process("writing", lines) \in [step : Steps, users : SUBSET Session,
                                       done : SUBSET Record, lines : Seq(Record)]
    BY <2>2, EmptyProcess DEF Steps
  <2>4. QED  BY <1>3, <2>1, <2>3 DEF EndOfPipe, StartsWriting, TypeOK
<1>4. CASE WriteLine(i)
  <2>1. Head(shard[i].lines) \in Record /\ Tail(shard[i].lines) \in Seq(Record)
    BY <1>4 DEF WriteLine, CanWrite, TypeOK
  <2>2. fromChild' \in [Shard -> Seq(Record)]
    BY <1>4, <2>1 DEF WriteLine, TypeOK
  <2>3. shard' \in [Shard -> [step : Steps, users : SUBSET Session, done : SUBSET Record,
                              lines : Seq(Record)]]
    BY <1>4, <2>1 DEF WriteLine, TypeOK
  <2>4. inherited' = inherited /\ toChild' = toChild
    BY <1>4 DEF WriteLine
  <2>5. QED  BY <2>2, <2>3, <2>4 DEF TypeOK
<1>5. CASE ChildDone(i) \/ WriteBreaks(i) \/ ShardFails(i)
  <2>1. UNCHANGED fromChild /\ (Exits(i, "exit0") \/ Exits(i, "exit1"))
    BY <1>5 DEF ChildDone, WriteBreaks, ShardFails
  <2>2. QED  BY <2>1, ExitsType DEF Steps, TypeOK
<1>6. CASE ShardKilledInLine(i)
  <2>1. Head(shard[i].lines) \in Record
    BY <1>6 DEF ShardKilledInLine, CanWrite, TypeOK
  <2>2. Cut(Head(shard[i].lines)) \in Record
    BY <2>1, CutType
  <2>3. fromChild' \in [Shard -> Seq(Record)]
    BY <1>6, <2>2 DEF ShardKilledInLine, TypeOK
  <2>4. QED  BY <1>6, <2>3, ExitsType DEF ShardKilledInLine, Steps
<1>7. QED  BY <1>1, <1>2, <1>3, <1>4, <1>5, <1>6 DEF ShardRuns, ShardDies

-----------------------------------------------------------------------------
(* A child *)

Safe(i) == Memory(i) /\ Arrivals(i) /\ Departures(i) /\ Phases(i) /\ Merged(i)

LEMMA MemoryKept ==
    ASSUME NEW i \in Shard, Memory(i), UNCHANGED shardOf,
           shard'[i].users = shard[i].users, shard'[i].done = shard[i].done
    PROVE  Memory(i)'
<1>1. Accumulated(i)' = Accumulated(i)
  BY DEF Accumulated
<1>2. QED  BY <1>1 DEF Memory

\* A step that does not touch shard i.
LEMMA Untouched ==
    ASSUME NEW i \in Shard, Safe(i), UNCHANGED <<shardOf, input, live, out>>,
           shard'[i] = shard[i], toChild'[i] = toChild[i], fromChild'[i] = fromChild[i],
           head'[i] = head[i]
    PROVE  Safe(i)'
BY DEF Safe, Memory, Accumulated, Arrivals, LastTs, Departures, Own, WholeOrDead, Phases, Ended,
       Merged, Below, Increasing

\* The event's session is the only one of its user, and the latest.
LEMMA ReadLineMemory ==
    ASSUME TypeOK, NEW i \in Shard, Memory(i), Arrivals(i), ReadLine(i),
           UNCHANGED <<shardOf, input>>
    PROVE  Memory(i)' /\ Arrivals(i)'
<1> DEFINE e      == Head(toChild[i])
           users  == shard[i].users
           done   == shard[i].done
           others == {t \in users : t.user # e.user}
<1>1. /\ e \in Event /\ e.ts \in Nat /\ e = toChild[i][1]
      /\ users \subseteq Session /\ done \subseteq Record
      /\ toChild[i] \in Seq(Event) /\ toChild[i] # <<>> /\ Len(toChild[i]) \in Nat \ {0}
  <2>1. users \subseteq Session /\ done \subseteq Record
    BY DEF TypeOK
  <2>2. toChild[i] \in Seq(Event) /\ toChild[i] # <<>>
    BY DEF ReadLine, TypeOK
  <2>3. Len(toChild[i]) \in Nat \ {0} /\ e = toChild[i][1]
    BY <2>2
  <2>4. e \in Event
    BY <2>2, <2>3
  <2>5. e.ts \in Nat
    BY <2>4 DEF Event
  <2>6. QED  BY <2>1, <2>2, <2>3, <2>4, <2>5
<1>2. /\ shardOf[e.user] = i /\ e.ts <= LastTs
      /\ \A s \in users : s.last_ts <= e.ts /\ s.last_ts \in Nat
  BY <1>1 DEF Arrivals, Session
<1>3. \E n \in Session :
         /\ n.user = e.user /\ n.last_ts = e.ts /\ n.n_events > 0 /\ IsFiniteSet(n.paths)
         /\ shard'[i].users = others \cup {n}
         /\ \/ shard'[i].done = done
            \/ \E s \in users : /\ s.user = e.user /\ s.last_ts < e.ts
                                /\ shard'[i].done = done \cup {Emit(s)}
  <2>1. \/ /\ \A s \in users : s.user # e.user
           /\ shard'[i].users = users \cup {NewSession(e)}
           /\ shard'[i].done = done
        \/ \E s \in users :
              /\ s.user = e.user
              /\ e.ts - s.last_ts > IdleMs
              /\ shard'[i].users = (users \ {s}) \cup {NewSession(e)}
              /\ shard'[i].done = done \cup {Emit(s)}
        \/ \E s \in users :
              /\ s.user = e.user
              /\ shard'[i].users = (users \ {s}) \cup {Extended(s, e)}
              /\ shard'[i].done = done
    BY ReadLineEffect
  <2>2. /\ NewSession(e) \in Session
        /\ NewSession(e).user = e.user /\ NewSession(e).last_ts = e.ts
        /\ NewSession(e).n_events > 0 /\ IsFiniteSet(NewSession(e).paths)
    BY <1>1, NewSessionType
  <2>3. \A s \in users : s.user = e.user => others = users \ {s}
    BY DEF Memory
  <2> HIDE DEF e
  <2>4. CASE (\A s \in users : s.user # e.user)
             /\ shard'[i].users = users \cup {NewSession(e)} /\ shard'[i].done = done
    <3>1. others = users
      BY <2>4
    <3>2. QED  BY <2>2, <2>4, <3>1
  <2>5. ASSUME NEW s \in users, s.user = e.user, e.ts - s.last_ts > IdleMs,
               shard'[i].users = (users \ {s}) \cup {NewSession(e)},
               shard'[i].done = done \cup {Emit(s)}
        PROVE  <1>3!:
    <3>1. s.last_ts < e.ts
      BY <1>1, <1>2, <2>5, SessionAssumption
    <3>2. shard'[i].users = others \cup {NewSession(e)}
      BY <2>3, <2>5
    <3> HIDE DEF others, done
    <3>3. QED  BY <2>2, <2>5, <3>1, <3>2
  <2>6. ASSUME NEW s \in users, s.user = e.user,
               shard'[i].users = (users \ {s}) \cup {Extended(s, e)},
               shard'[i].done = done
        PROVE  <1>3!:
    <3>1. /\ Extended(s, e) \in Session
          /\ Extended(s, e).user = e.user /\ Extended(s, e).last_ts = e.ts
          /\ Extended(s, e).n_events > 0 /\ IsFiniteSet(Extended(s, e).paths)
      BY <1>1, <2>6, ExtendedType DEF Memory
    <3>2. shard'[i].users = others \cup {Extended(s, e)}
      BY <2>3, <2>6
    <3> HIDE DEF others, done
    <3>3. QED  BY <2>6, <3>1, <3>2
  <2>7. QED  BY <2>1, <2>4, <2>5, <2>6
<1>4. PICK n \in Session :
         /\ n.user = e.user /\ n.last_ts = e.ts /\ n.n_events > 0 /\ IsFiniteSet(n.paths)
         /\ shard'[i].users = others \cup {n}
         /\ \/ shard'[i].done = done
            \/ \E s \in users : /\ s.user = e.user /\ s.last_ts < e.ts
                                /\ shard'[i].done = done \cup {Emit(s)}
  BY <1>3
<1> HIDE DEF e
<1>5. IsFiniteSet(Accumulated(i))'
  <2>1. IsFiniteSet(Accumulated(i) \cup {Emit(n)})
    BY FS_AddElement DEF Memory
  <2>2. Accumulated(i)' \subseteq Accumulated(i) \cup {Emit(n)}
    BY <1>4 DEF Accumulated
  <2>3. QED  BY <2>1, <2>2, FS_Subset
<1>6. \A s \in shard'[i].users :
          /\ s.n_events > 0
          /\ IsFiniteSet(s.paths)
          /\ shardOf[s.user] = i
          /\ s.last_ts <= e.ts
  BY <1>1, <1>2, <1>4 DEF Memory
<1>7. \A s, t \in shard'[i].users : s.user = t.user => s = t
  BY <1>4 DEF Memory
<1>8. \A s \in users : Emit(s).user = s.user /\ Emit(s).end_ts = s.last_ts /\ Emit(s).events > 0
  BY <1>1, EmitType DEF Memory
<1>9. \A r \in done : r.events > 0 /\ \E s \in users : s.user = r.user /\ r.end_ts < s.last_ts
  BY DEF Memory
<1>10. ASSUME NEW r \in shard'[i].done
       PROVE  r.events > 0 /\ \E s \in shard'[i].users : s.user = r.user /\ r.end_ts < s.last_ts
  <2>1. CASE r \in done
    <3>1. PICK s \in users : s.user = r.user /\ r.end_ts < s.last_ts
      BY <1>9, <2>1
    <3>2. r.end_ts \in Nat /\ r.events > 0
      BY <1>1, <1>9, <2>1 DEF Record
    <3>3. CASE s.user = e.user
      BY <1>1, <1>2, <1>4, <3>1, <3>2, <3>3
    <3>4. CASE s.user # e.user
      BY <1>4, <3>1, <3>2, <3>4
    <3>5. QED  BY <3>3, <3>4
  <2>2. CASE \E s \in users : s.user = e.user /\ s.last_ts < e.ts /\ r = Emit(s)
    BY <1>4, <1>8, <2>2
  <2>3. QED  BY <1>4, <2>1, <2>2
<1>11. ASSUME NEW q \in shard'[i].done, NEW r \in shard'[i].done,
              q.user = r.user, q.end_ts = r.end_ts
       PROVE  q = r
  <2>1. ASSUME NEW p \in done, NEW s \in users, p.user = s.user
        PROVE  p.end_ts # s.last_ts
    <3>1. PICK t \in users : t.user = p.user /\ p.end_ts < t.last_ts
      BY <1>9
    <3>2. t = s
      BY <2>1, <3>1 DEF Memory
    <3>3. p.end_ts \in Nat /\ s.last_ts \in Nat
      BY <1>1, <1>2 DEF Record
    <3>4. QED  BY <3>1, <3>2, <3>3
  <2>2. CASE q \in done /\ r \in done
    BY <1>11, <2>2 DEF Memory
  <2>3. CASE \E s \in users : shard'[i].done = done \cup {Emit(s)}
    <3>1. PICK s \in users : shard'[i].done = done \cup {Emit(s)}
      BY <2>3
    <3>2. \A p \in done : ~(p.user = Emit(s).user /\ p.end_ts = Emit(s).end_ts)
      BY <1>8, <2>1
    <3>3. QED  BY <1>11, <2>2, <3>1, <3>2
  <2>4. QED  BY <1>4, <2>2, <2>3
<1>12. Memory(i)'
  BY <1>5, <1>6, <1>7, <1>10, <1>11 DEF Memory
<1>13. toChild'[i] = Tail(toChild[i])
  BY DEF ReadLine, TypeOK
<1>14. /\ Len(toChild'[i]) = Len(toChild[i]) - 1
       /\ \A j \in 1..(Len(toChild[i]) - 1) : toChild'[i][j] = toChild[i][j + 1]
  BY <1>1, <1>13, TailShifts
<1>15. LastTs' = LastTs /\ LastTs \in Nat
  BY LastTsType DEF LastTs
<1>16. \A s \in shard'[i].users : s.last_ts \in Nat
  BY <1>1, <1>4 DEF Session
<1>17. ASSUME NEW m \in 1..Len(toChild'[i])
       PROVE  /\ shardOf[toChild'[i][m].user] = i
              /\ toChild'[i][m].ts <= LastTs
              /\ \A j \in 1..m : toChild'[i][j].ts <= toChild'[i][m].ts
              /\ \A s \in shard'[i].users : s.last_ts <= toChild'[i][m].ts
  <2>1. /\ m + 1 \in 1..Len(toChild[i]) /\ toChild'[i][m] = toChild[i][m + 1]
        /\ \A j \in 1..m : /\ j + 1 \in 1..(m + 1)
                           /\ toChild'[i][j] = toChild[i][j + 1]
    BY <1>1, <1>14
  <2>2. toChild[i][m + 1].ts \in Nat /\ e.ts <= toChild[i][m + 1].ts
    <3>1. toChild[i][m + 1] \in Event
      BY <1>1, <2>1
    <3>2. 1 \in 1..(m + 1)
      BY <1>14
    <3>3. QED  BY <1>1, <2>1, <3>1, <3>2 DEF Arrivals, Event
  <2>3. \A s \in shard'[i].users : s.last_ts <= toChild'[i][m].ts
    BY <1>1, <1>6, <1>16, <2>1, <2>2
  <2>4. QED  BY <2>1, <2>3 DEF Arrivals
<1>18. \A s \in shard'[i].users : s.last_ts <= LastTs
  BY <1>1, <1>2, <1>6, <1>15, <1>16
<1>19. Arrivals(i)'
  BY <1>15, <1>17, <1>18 DEF Arrivals
<1>20. QED  BY <1>12, <1>19

\* A child that has let its sessions go.
LEMMA NothingHeld ==
    ASSUME NEW i \in Shard, Arrivals(i), UNCHANGED <<shardOf, input, toChild>>,
           shard'[i].users = {}, shard'[i].done = {}
    PROVE  Memory(i)' /\ Arrivals(i)'
<1>1. Accumulated(i)' = {}
  BY DEF Accumulated
<1>2. IsFiniteSet(Accumulated(i))'
  BY <1>1, FS_EmptySet
<1>3. QED  BY <1>2 DEF Memory, Arrivals, LastTs

\* The end of a child, with perhaps a last line that is cut short.
LEMMA ExitsSafe ==
    ASSUME TypeOK, NEW i \in Shard, Safe(i), NEW status \in {"exit0", "exit1"},
           Exits(i, status), UNCHANGED <<shardOf, parentVars>>,
           shard[i].step \in {"closing", "reading", "writing"},
           status = "exit0" => UNCHANGED fromChild,
           \/ UNCHANGED fromChild
           \/ /\ shard[i].lines # <<>>
              /\ fromChild' = [fromChild EXCEPT ![i] = Append(@, Cut(Head(shard[i].lines)))]
    PROVE  Safe(i)'
<1> DEFINE lines == shard[i].lines
           from  == fromChild[i]
<1>1. /\ shard'[i] = Process(status, <<>>)
      /\ shard'[i].users = {} /\ shard'[i].done = {} /\ shard'[i].lines = <<>>
      /\ shard'[i].step = status
      /\ UNCHANGED <<shardOf, input, live, head, out, toChild>>
  BY DEF Exits, Process, TypeOK, parentVars, mergeVars
<1>2. Memory(i)' /\ Arrivals(i)'
  BY <1>1, NothingHeld DEF Safe
<1>3. /\ from \in Seq(Record) /\ head[i] \in Seq(Record) /\ out \in Seq(Record)
      /\ lines \in Seq(Record)
  BY DEF TypeOK
<1>4. i \in live
  BY DEF Safe, Phases, Ended
<1>5. Phases(i)'
  BY <1>1, <1>4 DEF Phases
<1>6. CASE UNCHANGED fromChild
  <2>1. \A n \in 1..Len(from) : from[n].events # 0
    BY DEF Safe, Departures, WholeOrDead
  <2>2. \A n \in 1..Len(head[i]) : head[i][n].events # 0
    BY DEF Safe, Departures, WholeOrDead
  <2>3. Departures(i)'
    BY <1>1, <1>6, <2>1, <2>2, BelowEmpty DEF Safe, Departures, Own, WholeOrDead, Increasing, Below
  <2>4. Merged(i)'
    BY <1>1, <1>6, BelowEmpty DEF Safe, Merged, Below
  <2>5. QED  BY <1>2, <1>5, <2>3, <2>4 DEF Safe
<1>7. CASE /\ lines # <<>> /\ status = "exit1"
           /\ fromChild' = [fromChild EXCEPT ![i] = Append(@, Cut(Head(lines)))]
  <2> DEFINE r == Cut(lines[1])
  <2>1. lines[1] \in Record /\ Head(lines) = lines[1] /\ 1 \in 1..Len(lines)
    BY <1>3, <1>7
  <2>2. r \in Record /\ r.user = lines[1].user /\ r.end_ts = lines[1].end_ts
    BY <2>1, CutType
  <2>3. fromChild'[i] = Append(from, r)
    BY <1>7, <2>1 DEF TypeOK
  <2> HIDE DEF r
  <2>4. \A q \in Record : Before(q, lines[1]) => Before(q, r)
    BY <2>2 DEF Before
  <2>5. /\ \A n \in 1..Len(from) : Before(from[n], r)
        /\ \A n \in 1..Len(head[i]) : Before(head[i][n], r)
        /\ \A n \in 1..Len(out) : Before(out[n], r)
    <3>1. /\ \A n \in 1..Len(from) : Before(from[n], lines[1])
          /\ \A n \in 1..Len(head[i]) : Before(head[i][n], lines[1])
          /\ \A n \in 1..Len(out) : Before(out[n], lines[1])
      BY <2>1 DEF Safe, Departures, Merged, Below
    <3>2. /\ \A n \in 1..Len(from) : from[n] \in Record
          /\ \A n \in 1..Len(head[i]) : head[i][n] \in Record
          /\ \A n \in 1..Len(out) : out[n] \in Record
      BY <1>3
    <3>3. QED  BY <2>4, <3>1, <3>2
  <2>6. Increasing(fromChild'[i])
    BY <1>3, <2>2, <2>3, <2>5, IncreasingAppend DEF Safe, Departures
  <2>7. Below(head[i], fromChild'[i])
    BY <1>3, <2>2, <2>3, <2>5, BelowAppend DEF Safe, Departures
  <2>8. Below(out, fromChild'[i])
    BY <1>3, <2>2, <2>3, <2>5, BelowAppend DEF Safe, Merged
  <2>9. Own(i, fromChild'[i])
    <3>1. shardOf[r.user] = i
      BY <2>1, <2>2 DEF Safe, Departures, Own
    <3>2. QED  BY <1>3, <2>2, <2>3, <3>1, AppendAdds DEF Safe, Departures, Own
  <2>10. Departures(i)'
    BY <1>1, <1>7, <2>6, <2>7, <2>9, BelowEmpty
       DEF Safe, Departures, Own, WholeOrDead, Below, Increasing
  <2>11. Merged(i)'
    BY <1>1, <2>8, BelowEmpty DEF Safe, Merged, Below
  <2>12. QED  BY <1>2, <1>5, <2>10, <2>11 DEF Safe
<1>8. QED  BY <1>6, <1>7

LEMMA WriteLineSafe ==
    ASSUME TypeOK, NEW i \in Shard, Safe(i), WriteLine(i), UNCHANGED <<shardOf, parentVars>>
    PROVE  Safe(i)'
<1> DEFINE lines == shard[i].lines
           from  == fromChild[i]
<1>1. /\ from \in Seq(Record) /\ head[i] \in Seq(Record) /\ out \in Seq(Record)
      /\ lines \in Seq(Record) /\ lines # <<>>
  BY DEF TypeOK, WriteLine, CanWrite
<1>2. lines[1] \in Record /\ Head(lines) = lines[1] /\ 1 \in 1..Len(lines)
  BY <1>1
<1>3. /\ fromChild'[i] = Append(from, lines[1])
      /\ shard'[i] = [shard[i] EXCEPT !.lines = Tail(lines)]
      /\ UNCHANGED <<shardOf, input, live, head, out, toChild>>
  BY <1>2 DEF WriteLine, TypeOK, parentVars, mergeVars
<1>4. /\ shard'[i].lines = Tail(lines) /\ shard'[i].users = shard[i].users
      /\ shard'[i].done = shard[i].done /\ shard'[i].step = shard[i].step
      /\ shard[i].step = "writing"
  BY <1>3 DEF WriteLine, CanWrite, TypeOK
<1>5. Memory(i)' /\ Arrivals(i)'
  BY <1>3, <1>4 DEF Safe, Memory, Accumulated, Arrivals, LastTs
<1>6. /\ Len(lines) \in Nat \ {0} /\ Len(Tail(lines)) = Len(lines) - 1
      /\ \A j \in 1..(Len(lines) - 1) : Tail(lines)[j] = lines[j + 1]
  BY <1>1, TailShifts
<1>7. shardOf[lines[1].user] = i /\ lines[1].events > 0
  BY <1>2 DEF Safe, Departures, Own
<1>8. /\ Increasing(fromChild'[i]) /\ Increasing(Tail(lines))
      /\ Below(fromChild'[i], Tail(lines))
      /\ \A s \in Seq(Record) :
            Below(s, from) /\ Below(s, lines) => Below(s, fromChild'[i]) /\ Below(s, Tail(lines))
  <2>1. Increasing(from) /\ Increasing(lines) /\ Below(from, lines)
    BY DEF Safe, Departures
  <2> HIDE DEF lines, from
  <2>2. QED  BY <1>1, <1>3, <2>1, LineMoves
<1>9. /\ Below(head[i], fromChild'[i]) /\ Below(head[i], Tail(lines))
      /\ Below(out, fromChild'[i]) /\ Below(out, Tail(lines))
  BY <1>1, <1>8 DEF Safe, Departures, Merged
<1>10. /\ Len(from) \in Nat /\ Len(fromChild'[i]) = Len(from) + 1
       /\ \A j \in 1..Len(from) : fromChild'[i][j] = from[j]
       /\ fromChild'[i][Len(from) + 1] = lines[1]
  <2> HIDE DEF lines, from
  <2>1. QED  BY <1>1, <1>2, <1>3, AppendAdds
<1>11. \A n \in 1..Len(fromChild'[i]) :
          /\ shardOf[fromChild'[i][n].user] = i
          /\ fromChild'[i][n].events = 0 => shard[i].step = "exit1"
  <2>1. Own(i, from) /\ WholeOrDead(i, from)
    BY DEF Safe, Departures
  <2> HIDE DEF lines, from
  <2>2. QED  BY <1>7, <1>10, <2>1 DEF Own, WholeOrDead
<1>12. \A n \in 1..Len(Tail(lines)) :
          /\ shardOf[Tail(lines)[n].user] = i
          /\ Tail(lines)[n].events > 0
  <2>1. Own(i, lines) /\ \A n \in 1..Len(lines) : lines[n].events > 0
    BY DEF Safe, Departures
  <2> HIDE DEF lines, from
  <2>2. QED  BY <1>6, <2>1 DEF Own
<1>13. Own(i, head[i])' /\ WholeOrDead(i, head[i])' /\ Len(head[i]) <= 1
  BY <1>3, <1>4 DEF Safe, Departures, Own, WholeOrDead
<1>14. Departures(i)'
  <2> HIDE DEF lines, from
  <2>1. QED  BY <1>3, <1>4, <1>8, <1>9, <1>11, <1>12, <1>13
             DEF Departures, Own, WholeOrDead, Below, Increasing
<1>15. Phases(i)' /\ Merged(i)'
  BY <1>3, <1>4, <1>9 DEF Safe, Phases, Merged, Ended, Below
<1>16. QED  BY <1>5, <1>14, <1>15 DEF Safe

LEMMA ReadLineSafe ==
    ASSUME TypeOK, NEW i \in Shard, Safe(i), ReadLine(i), UNCHANGED <<shardOf, parentVars>>
    PROVE  Safe(i)'
<1>1. UNCHANGED <<shardOf, input, live, head, out, fromChild>>
  BY DEF ReadLine, parentVars, mergeVars
<1>2. Memory(i)' /\ Arrivals(i)'
  BY <1>1, ReadLineMemory DEF Safe
<1>3. shard' = [shard EXCEPT ![i].done = shard'[i].done, ![i].users = shard'[i].users]
  BY ReadLineEffect DEF Safe
<1>4. shard'[i].lines = shard[i].lines /\ shard'[i].step = shard[i].step
  BY <1>3 DEF TypeOK
<1>5. Departures(i)' /\ Phases(i)' /\ Merged(i)'
  BY <1>1, <1>4 DEF Safe, Departures, Own, WholeOrDead, Phases, Ended, Merged, Below, Increasing
<1>6. QED  BY <1>2, <1>5 DEF Safe

LEMMA EndOfPipeSafe ==
    ASSUME TypeOK, NEW i \in Shard, Safe(i), EndOfPipe(i), UNCHANGED <<shardOf, parentVars>>
    PROVE  Safe(i)'
<1>1. PICK lines \in Sorted(Accumulated(i)) :
          shard' = [shard EXCEPT ![i] = Process("writing", lines)]
  BY DEF EndOfPipe, StartsWriting
<1>2. /\ shard'[i].users = {} /\ shard'[i].done = {} /\ shard'[i].lines = lines
      /\ shard'[i].step = "writing"
      /\ UNCHANGED <<shardOf, input, live, head, out, toChild, fromChild>>
  BY <1>1 DEF EndOfPipe, StartsWriting, Process, TypeOK, parentVars, mergeVars
<1>3. Memory(i)' /\ Arrivals(i)'
  BY <1>2, NothingHeld DEF Safe
<1>4. /\ Accumulated(i) \in SUBSET Record
      /\ \A r \in Accumulated(i) : r.events > 0 /\ shardOf[r.user] = i
      /\ \A q, r \in Accumulated(i) : q.user = r.user /\ q.end_ts = r.end_ts => q = r
      /\ IsFiniteSet(Accumulated(i))
  BY AccumulatedType DEF Safe, Memory
<1>5. /\ \A n \in 1..Len(lines) : lines[n].events > 0 /\ shardOf[lines[n].user] = i
      /\ Increasing(lines)
  BY <1>4, SortedRecords
<1>6. fromChild[i] = <<>> /\ head[i] = <<>> /\ out = <<>> /\ i \in live
  BY DEF Safe, Phases, Ended, EndOfPipe
<1>7. fromChild'[i] = <<>> /\ head'[i] = <<>> /\ out' = <<>> /\ i \in live'
  BY <1>2, <1>6
<1>8. Departures(i)'
  BY <1>2, <1>5, <1>7 DEF Departures, Own, WholeOrDead, Below, Increasing
<1>9. Phases(i)' /\ Merged(i)'
  BY <1>2, <1>7, BelowEmpty DEF Phases, Merged, Below
<1>10. QED  BY <1>3, <1>8, <1>9 DEF Safe

LEMMA CloseSafe ==
    ASSUME TypeOK, NEW i \in Shard, Safe(i), CloseInherited(i), UNCHANGED <<shardOf, parentVars>>
    PROVE  Safe(i)'
<1>1. /\ shard'[i].users = shard[i].users /\ shard'[i].done = shard[i].done
      /\ shard'[i].lines = shard[i].lines
      /\ shard[i].step = "closing" /\ shard'[i].step = "reading"
      /\ UNCHANGED <<shardOf, input, live, head, out, toChild, fromChild>>
  BY DEF CloseInherited, TypeOK, parentVars, mergeVars
<1>2. Memory(i)' /\ Arrivals(i)' /\ Merged(i)'
  BY <1>1 DEF Safe, Memory, Accumulated, Arrivals, LastTs, Merged, Below
<1>3. fromChild[i] = <<>> /\ head[i] = <<>> /\ out = <<>> /\ i \in live
  BY <1>1 DEF Safe, Phases, Ended
<1>4. Phases(i)'
  BY <1>1, <1>3 DEF Safe, Phases
<1>5. Departures(i)'
  BY <1>1, <1>3 DEF Safe, Departures, Own, WholeOrDead, Below, Increasing
<1>6. QED  BY <1>2, <1>4, <1>5 DEF Safe

LEMMA OthersUntouched ==
    ASSUME TypeOK, NEW i \in Shard, ShardRuns(i) \/ ShardDies(i), NEW j \in Shard, j # i
    PROVE  shard'[j] = shard[j] /\ toChild'[j] = toChild[j] /\ fromChild'[j] = fromChild[j]
BY DEF ShardRuns, ShardDies, CloseInherited, ReadLine, EndOfPipe, StartsWriting, WriteLine,
       ChildDone, WriteBreaks, ShardFails, ShardKilledInLine, Exits, TypeOK

\* A step of one child keeps what is said of every child.
LEMMA ChildSafe ==
    ASSUME TypeOK, \A j \in Shard : Safe(j), NEW i \in Shard, ShardRuns(i) \/ ShardDies(i)
    PROVE  \A j \in Shard : Safe(j)'
<1>1. UNCHANGED <<shardOf, parentVars>> /\ Safe(i)
  BY DEF ShardRuns, ShardDies
<1>2. Safe(i)'
  <2>1. CASE CloseInherited(i) \/ ReadLine(i) \/ EndOfPipe(i) \/ WriteLine(i)
    BY <1>1, <2>1, CloseSafe, ReadLineSafe, EndOfPipeSafe, WriteLineSafe
  <2>2. CASE ChildDone(i)
    BY <1>1, <2>2, ExitsSafe DEF ChildDone
  <2>3. CASE WriteBreaks(i)
    BY <1>1, <2>3, ExitsSafe DEF WriteBreaks
  <2>4. CASE ShardFails(i)
    BY <1>1, <2>4, ExitsSafe DEF ShardFails
  <2>5. CASE ShardKilledInLine(i)
    BY <1>1, <2>5, ExitsSafe DEF ShardKilledInLine, CanWrite
  <2>6. QED  BY <2>1, <2>2, <2>3, <2>4, <2>5 DEF ShardRuns, ShardDies
<1>3. ASSUME NEW j \in Shard, j # i
      PROVE  shard'[j] = shard[j] /\ toChild'[j] = toChild[j] /\ fromChild'[j] = fromChild[j]
  BY <1>3, OthersUntouched
<1>4. ASSUME NEW j \in Shard, j # i
      PROVE  Safe(j)'
  BY <1>1, <1>3, <1>4, Untouched DEF parentVars, mergeVars
<1>5. QED  BY <1>2, <1>4

-----------------------------------------------------------------------------
(* The parent *)

LEMMA ForkSafe ==
    ASSUME TypeOK, \A j \in Shard : Safe(j) /\ Progress(j), Fork, UNCHANGED shardOf
    PROVE  \A j \in Shard : Safe(j)'
<1>1. k + 1 \in Shard /\ k \in Nat /\ ppc = "fork"
  BY LoopAdvances DEF Fork, Loop
<1>2. /\ shard' = [shard EXCEPT ![k + 1].step = "closing"]
      /\ UNCHANGED <<shardOf, input, live, head, out, toChild, fromChild>>
  BY DEF Fork, mergeVars
<1>3. shard[k + 1].step = "unborn"
  BY <1>1 DEF Progress
<1>4. ASSUME NEW j \in Shard, j = k + 1
      PROVE  Safe(j)'
  <2>1. /\ shard'[j].users = shard[j].users /\ shard'[j].done = shard[j].done
        /\ shard'[j].lines = shard[j].lines /\ shard'[j].step = "closing"
    BY <1>1, <1>2, <1>4 DEF TypeOK
  <2>2. Memory(j)' /\ Arrivals(j)' /\ Merged(j)'
    <3>1. Memory(j)'
      BY <1>2, <2>1, MemoryKept DEF Safe
    <3>2. Arrivals(j)'
      BY <1>2, <2>1 DEF Safe, Arrivals, LastTs
    <3>3. Merged(j)'
      BY <1>2, <2>1 DEF Safe, Merged, Below
    <3>4. QED  BY <3>1, <3>2, <3>3
  <2>3. fromChild[j] = <<>> /\ head[j] = <<>> /\ out = <<>> /\ j \in live
    BY <1>3, <1>4 DEF Safe, Phases, Ended
  <2>4. Phases(j)'
    BY <1>2, <1>3, <1>4, <2>1, <2>3 DEF Safe, Phases
  <2>5. Departures(j)'
    BY <1>2, <2>1, <2>3 DEF Safe, Departures, Own, WholeOrDead, Below, Increasing
  <2>6. QED  BY <2>2, <2>4, <2>5 DEF Safe
<1>5. ASSUME NEW j \in Shard, j # k + 1
      PROVE  Safe(j)'
  <2>1. shard'[j] = shard[j]
    BY <1>2, <1>5 DEF TypeOK
  <2>2. QED  BY <1>2, <2>1, Untouched
<1>6. QED  BY <1>4, <1>5

\* The line to send on is an event, at the time of the last one or later.
LEMMA NextIsLater ==
    ASSUME TypeOK, Ahead, Feed
    PROVE  LET e == Head(pending)
           IN  /\ e \in Event /\ e.ts \in Nat /\ e.bytes \in Nat
               /\ LastTs \in Nat /\ LastTs <= e.ts
               /\ shardOf[e.user] \in Shard
<1> DEFINE e == Head(pending)
<1>1. pending \in Seq(Event) /\ pending # <<>>
  BY DEF TypeOK, Feed
<1>2. e = pending[1] /\ 1 \in 1..Len(pending) /\ e \in Event
  BY <1>1
<1>3. LastTs <= e.ts
  BY <1>2 DEF Ahead
<1> HIDE DEF e
<1>4. e.ts \in Nat /\ e.bytes \in Nat /\ e.user \in Users
  BY <1>2, SessionAssumption DEF Event
<1>5. shardOf[e.user] \in Shard
  BY <1>4 DEF TypeOK
<1>6. QED  BY <1>2, <1>3, <1>4, <1>5, LastTsType DEF e

\* The time of a line is not before that of any other.
LEMMA FeedSafe ==
    ASSUME TypeOK, \A j \in Shard : Safe(j), Ahead, UNCHANGED shardOf, Feed
    PROVE  \A j \in Shard : Safe(j)'
<1>0. PICK e : e = Head(pending)
  OBVIOUS
<1> DEFINE i == shardOf[e.user]
<1>1. e \in Event /\ e.ts \in Nat /\ LastTs \in Nat /\ LastTs <= e.ts /\ i \in Shard
  BY <1>0, NextIsLater
<1>2. /\ input' = Append(input, e)
      /\ toChild' = [toChild EXCEPT ![i] = Append(@, e)]
      /\ UNCHANGED <<shardOf, live, head, out, shard, fromChild>>
  BY <1>0 DEF Feed, mergeVars
<1>3. LastTs' = e.ts
  <2>1. input' # <<>> /\ input'[Len(input')] = e
    <3>1. input \in Seq(Event) /\ e \in Event /\ input' = Append(input, e)
      BY <1>1, <1>2 DEF TypeOK
    <3>2. QED  BY ONLY <3>1
  <2>2. QED  BY <2>1 DEF LastTs, Last
<1>4. ASSUME NEW j \in Shard
      PROVE  Safe(j)'
  <2>1. Memory(j)' /\ Departures(j)' /\ Phases(j)' /\ Merged(j)'
    <3>1. Memory(j)'
      BY <1>2, MemoryKept DEF Safe
    <3>2. Departures(j)'
      <4>1. Departures(j)
        BY DEF Safe
      <4>2. UNCHANGED <<shardOf, head, shard, fromChild>>
        BY <1>2
      <4>3. QED  BY ONLY <4>1, <4>2 DEF Departures, Own, WholeOrDead, Below, Increasing
    <3>3. Phases(j)'
      BY <1>2 DEF Safe, Phases, Ended
    <3>4. Merged(j)'
      BY <1>2 DEF Safe, Merged, Below
    <3>5. QED  BY <3>1, <3>2, <3>3, <3>4
  <2>2. /\ toChild[j] \in Seq(Event) /\ Len(toChild[j]) \in Nat
        /\ \A n \in 1..Len(toChild[j]) : toChild[j][n].ts \in Nat /\ toChild[j][n].ts <= e.ts
        /\ \A s \in shard[j].users : s.last_ts \in Nat /\ s.last_ts <= e.ts
    <3>1. toChild[j] \in Seq(Event) /\ shard[j].users \subseteq Session
      BY DEF TypeOK
    <3>2. /\ \A n \in 1..Len(toChild[j]) : toChild[j][n].ts \in Nat
          /\ \A s \in shard[j].users : s.last_ts \in Nat
      <4>1. \A n \in 1..Len(toChild[j]) : toChild[j][n] \in Event
        BY <3>1
      <4>2. QED  BY <3>1, <4>1 DEF Event, Session
    <3>3. /\ \A n \in 1..Len(toChild[j]) : toChild[j][n].ts <= LastTs
          /\ \A s \in shard[j].users : s.last_ts <= LastTs
      BY DEF Safe, Arrivals
    <3>4. QED  BY <1>1, <3>1, <3>2, <3>3
  <2>3. CASE j = i
    <3>1. toChild'[j] = Append(toChild[j], e)
      BY <1>1, <1>2, <2>3 DEF TypeOK
    <3>2. /\ Len(toChild'[j]) = Len(toChild[j]) + 1
          /\ \A n \in 1..Len(toChild[j]) : toChild'[j][n] = toChild[j][n]
          /\ toChild'[j][Len(toChild[j]) + 1] = e
      BY <1>1, <2>2, <3>1, AppendAdds
    <3>3. shardOf[e.user] = j
      BY <1>1, <2>3
    <3>4. ASSUME NEW n \in 1..Len(toChild'[j])
          PROVE  /\ shardOf[toChild'[j][n].user] = j
                 /\ toChild'[j][n].ts <= e.ts
                 /\ \A m \in 1..n : toChild'[j][m].ts <= toChild'[j][n].ts
                 /\ \A s \in shard[j].users : s.last_ts <= toChild'[j][n].ts
      <4>1. CASE n \in 1..Len(toChild[j])
        <5>1. /\ shardOf[toChild[j][n].user] = j
              /\ \A m \in 1..n : toChild[j][m].ts <= toChild[j][n].ts
              /\ \A s \in shard[j].users : s.last_ts <= toChild[j][n].ts
          BY <4>1 DEF Safe, Arrivals
        <5>2. \A m \in 1..n : m \in 1..Len(toChild[j])
          BY <2>2, <4>1
        <5>3. QED  BY <2>2, <3>2, <4>1, <5>1, <5>2
      <4>2. CASE n = Len(toChild[j]) + 1
        <5>1. \A m \in 1..n : m = n \/ m \in 1..Len(toChild[j])
          BY <2>2, <4>2
        <5>2. toChild'[j][n] = e
          BY <3>2, <4>2
        <5>3. e.ts \in Nat
          BY <1>1 DEF Event
        <5>4. \A m \in 1..n : toChild'[j][m].ts <= e.ts
          <6>1. \A m \in 1..Len(toChild[j]) : toChild'[j][m].ts <= e.ts
            BY <2>2, <3>2
          <6>2. e.ts <= e.ts
            BY <5>3
          <6>3. QED  BY <5>1, <5>2, <6>1, <6>2, Zenon
        <5>5. QED  BY <2>2, <3>3, <5>2, <5>3, <5>4
      <4>3. QED  BY <2>2, <3>2, <4>1, <4>2
    <3>5. Arrivals(j)'
      BY <1>2, <1>3, <2>2, <3>4 DEF Arrivals
    <3>6. QED  BY <2>1, <3>5 DEF Safe
  <2>4. CASE j # i
    <3>1. toChild'[j] = toChild[j]
      BY <1>2, <2>4 DEF TypeOK
    <3>2. Arrivals(j)'
      BY <1>2, <1>3, <2>2, <3>1 DEF Safe, Arrivals
    <3>3. QED  BY <2>1, <3>2 DEF Safe
  <2>5. QED  BY <2>3, <2>4
<1>5. QED  BY <1>4

\* The first line of a pipe becomes the head of its reader.
LEMMA PullSafe ==
    ASSUME TypeOK, \A j \in Shard : Safe(j), UNCHANGED shardOf, NEW i \in Shard, Pull(i)
    PROVE  \A j \in Shard : Safe(j)'
<1> DEFINE from == fromChild[i]
<1>1. /\ from \in Seq(Record) /\ from # <<>> /\ shard[i].lines \in Seq(Record)
      /\ out \in Seq(Record) /\ head[i] = <<>>
  BY DEF TypeOK, Pull, Reads, Due
<1>2. from[1] \in Record /\ Head(from) = from[1] /\ 1 \in 1..Len(from)
  BY <1>1
<1>3. /\ head' = [head EXCEPT ![i] = <<from[1]>>]
      /\ fromChild' = [fromChild EXCEPT ![i] = Tail(from)]
      /\ UNCHANGED <<shardOf, input, live, out, shard, toChild>>
  BY <1>2 DEF Pull
<1>4. head'[i] = <<from[1]>> /\ fromChild'[i] = Tail(from)
  BY <1>3 DEF TypeOK
<1>5. /\ Len(head'[i]) = 1 /\ head'[i][1] = from[1]
      /\ Len(from) \in Nat \ {0} /\ Len(Tail(from)) = Len(from) - 1
      /\ \A n \in 1..(Len(from) - 1) : Tail(from)[n] = from[n + 1]
  BY <1>1, <1>4, TailShifts
<1>6. shard[i].step \notin {"unborn", "closing", "reading"} /\ i \in live
  BY <1>1 DEF Safe, Phases, Pull, Reads, Due
<1>7. /\ Increasing(from) /\ Below(from, shard[i].lines) /\ Below(out, from)
      /\ Own(i, from) /\ WholeOrDead(i, from)
  BY DEF Safe, Departures, Merged
<1> HIDE DEF from
<1>8. Increasing(Tail(from)) /\ \A n \in 1..Len(Tail(from)) : Before(from[1], Tail(from)[n])
  BY <1>1, <1>7, IncreasingTail
<1>9. /\ Below(Tail(from), shard[i].lines)
      /\ Below(out, Tail(from))
      /\ \A n \in 1..Len(out) : Before(out[n], from[1])
  BY <1>1, <1>7, BelowTail
<1>10. \A n \in 1..Len(shard[i].lines) : Before(from[1], shard[i].lines[n])
  BY <1>2, <1>7 DEF Below
<1>11. /\ Below(head'[i], Tail(from)) /\ Below(head'[i], shard[i].lines)
       /\ Below(out, head'[i])
  BY <1>5, <1>8, <1>9, <1>10 DEF Below
<1>12. \A n \in 1..Len(Tail(from)) :
          /\ shardOf[Tail(from)[n].user] = i
          /\ Tail(from)[n].events = 0 => shard[i].step = "exit1"
  BY <1>5, <1>7 DEF Own, WholeOrDead
<1>13. /\ shardOf[head'[i][1].user] = i
       /\ head'[i][1].events = 0 => shard[i].step = "exit1"
  BY <1>2, <1>5, <1>7 DEF Own, WholeOrDead
<1>14. Departures(i)'
  <2>1. /\ Increasing(shard[i].lines) /\ Own(i, shard[i].lines)
        /\ \A n \in 1..Len(shard[i].lines) : shard[i].lines[n].events > 0
    BY DEF Safe, Departures
  <2>3. (Own(i, head[i]) /\ WholeOrDead(i, head[i]))'
    BY <1>3, <1>5, <1>13 DEF Own, WholeOrDead
  <2>4. Own(i, shard[i].lines)'
    BY <1>3, <2>1 DEF Own
  <2>5. shard'[i].lines = shard[i].lines
    BY <1>3
  <2>6. fromChild'[i] = Tail(from) /\ Len(head'[i]) <= 1
    BY <1>4, <1>5
  <2>7. (Own(i, fromChild[i]) /\ WholeOrDead(i, fromChild[i]))'
    BY <1>3, <1>12, <2>6 DEF Own, WholeOrDead
  <2>8. QED  BY <1>8, <1>9, <1>11, <2>1, <2>3, <2>4, <2>5, <2>6, <2>7
             DEF Departures, Below, Increasing
<1>15. Merged(i)'
  BY <1>3, <1>4, <1>9, <1>11 DEF Safe, Merged, Below
<1>16. Phases(i)'
  BY <1>3, <1>6 DEF Safe, Phases
<1>17. Memory(i)' /\ Arrivals(i)'
  BY <1>3, MemoryKept DEF Safe, Arrivals, LastTs
<1>18. \A j \in Shard : j # i => Safe(j)'
  BY <1>3, Untouched DEF TypeOK
<1>19. QED  BY <1>14, <1>15, <1>16, <1>17, <1>18 DEF Safe

LEMMA PullEndSafe ==
    ASSUME TypeOK, \A j \in Shard : Safe(j), UNCHANGED shardOf, NEW i \in Shard, PullEnd(i)
    PROVE  \A j \in Shard : Safe(j)'
<1>1. /\ UNCHANGED <<shardOf, input, head, out, shard, toChild, fromChild>>
      /\ live' = live \ {i} /\ Ended(i) /\ fromChild[i] = <<>> /\ head[i] = <<>>
  BY DEF PullEnd, Reads, Due, childVars
<1>2. ASSUME NEW j \in Shard
      PROVE  Safe(j)'
  <2>1. Memory(j)' /\ Arrivals(j)'
    BY <1>1, MemoryKept DEF Safe, Arrivals, LastTs
  <2>2. Departures(j)'
    BY <1>1 DEF Safe, Departures, Own, WholeOrDead, Below, Increasing
  <2>3. Merged(j)'
    BY <1>1 DEF Safe, Merged, Below
  <2>4. Phases(j)'
    BY <1>1 DEF Safe, Phases, Ended
  <2>5. QED  BY <2>1, <2>2, <2>3, <2>4 DEF Safe
<1>3. QED  BY <1>2

\* The least head is before everything that any shard can still show.
LEMMA MergeSafe ==
    ASSUME TypeOK, \A j \in Shard : Safe(j), Increasing(out), UNCHANGED shardOf,
           NEW i \in Shard, Merge(i)
    PROVE  (\A j \in Shard : Safe(j)') /\ Increasing(out)'
<1> DEFINE r == head[i][1]
<1>1. /\ \A j \in live : j \in Shard /\ head[j] # <<>> /\ ~Before(head[j][1], r)
      /\ i \in live
  <2>1. live \subseteq Shard
    BY DEF TypeOK
  <2>2. \A j \in live : head[j] # <<>>
    BY DEF Merge, Due
  <2>3. QED  BY <2>1, <2>2 DEF Merge
<1>2. \A j \in Shard : /\ head[j] \in Seq(Record) /\ fromChild[j] \in Seq(Record)
                       /\ shard[j].lines \in Seq(Record) /\ out \in Seq(Record)
  BY DEF TypeOK
<1>3. \A j \in live : 1 \in 1..Len(head[j]) /\ head[j][1] \in Record
  BY <1>1, <1>2
<1>4. r \in Record
  BY <1>1, <1>3
<1>5. /\ out' = Append(out, r)
      /\ head' = [head EXCEPT ![i] = <<>>]
      /\ UNCHANGED <<shardOf, input, live, shard, toChild, fromChild>>
  BY DEF Merge, Writes, childVars
<1>6. shardOf[r.user] = i /\ \A n \in 1..Len(out) : Before(out[n], r)
  BY <1>1, <1>3 DEF Safe, Departures, Own, Merged, Below
<1> HIDE DEF r
<1>7. Increasing(out')
  BY <1>2, <1>4, <1>5, <1>6, IncreasingAppend
<1>8. ASSUME NEW j \in Shard
      PROVE  /\ \A n \in 1..Len(fromChild[j]) : Before(r, fromChild[j][n])
             /\ \A n \in 1..Len(shard[j].lines) : Before(r, shard[j].lines[n])
             /\ j # i => \A n \in 1..Len(head[j]) : Before(r, head[j][n])
  <2>1. CASE j \notin live
    BY <1>2, <2>1 DEF Safe, Phases, Ended
  <2>2. CASE j \in live
    <3> DEFINE h == head[j][1]
    <3>1. h \in Record /\ 1 \in 1..Len(head[j]) /\ Len(head[j]) <= 1
      BY <1>3, <2>2 DEF Safe, Departures
    <3>2. h = r \/ Before(r, h)
      <4>1. CASE j = i
        BY <4>1 DEF r
      <4>2. CASE j # i
        <5>1. shardOf[h.user] = j
          BY <3>1 DEF Safe, Departures, Own
        <5>2. h.user # r.user
          BY <1>6, <4>2, <5>1
        <5>3. QED  BY <1>1, <1>4, <2>2, <3>1, <5>2, BeforeTotal
      <4>3. QED  BY <4>1, <4>2
    <3>3. /\ \A n \in 1..Len(fromChild[j]) : Before(h, fromChild[j][n])
          /\ \A n \in 1..Len(shard[j].lines) : Before(h, shard[j].lines[n])
      BY <3>1 DEF Safe, Departures, Below
    <3>4. /\ \A n \in 1..Len(fromChild[j]) : fromChild[j][n] \in Record
          /\ \A n \in 1..Len(shard[j].lines) : shard[j].lines[n] \in Record
      BY <1>2
    <3>5. j # i => h # r
      <4>1. shardOf[h.user] = j
        BY <3>1 DEF Safe, Departures, Own
      <4>2. QED  BY <1>6, <4>1
    <3>6. \A n \in 1..Len(head[j]) : head[j][n] = h
      <4>1. Len(head[j]) \in Nat
        BY <1>2
      <4>2. QED  BY <3>1, <4>1
    <3> HIDE DEF h
    <3>7. \A q \in Record : Before(h, q) => Before(r, q)
      BY <1>4, <3>1, <3>2, BeforeTransitive
    <3>8. QED  BY <3>2, <3>3, <3>4, <3>5, <3>6, <3>7
  <2>3. QED  BY <2>1, <2>2
<1>9. ASSUME NEW j \in Shard
      PROVE  Safe(j)'
  <2>1. head'[j] = IF j = i THEN <<>> ELSE head[j]
    BY <1>5 DEF TypeOK
  <2>2. Memory(j)' /\ Arrivals(j)'
    <3>1. Memory(j)'
      BY <1>5, MemoryKept DEF Safe
    <3>2. Arrivals(j)'
      BY <1>5 DEF Safe, Arrivals, LastTs
    <3>3. QED  BY <3>1, <3>2
  <2>3. Departures(j)'
    <3>1. CASE j = i
      <4>1. head'[j] = <<>> /\ Len(head'[j]) = 0
        BY <2>1, <3>1
      <4>2. (Own(j, head[j]) /\ WholeOrDead(j, head[j]))'
        BY <4>1 DEF Own, WholeOrDead
      <4>3. Below(head[j], fromChild[j])' /\ Below(head[j], shard[j].lines)'
        BY <4>1 DEF Below
      <4>4. /\ Increasing(shard[j].lines) /\ Increasing(fromChild[j])
            /\ Below(fromChild[j], shard[j].lines)
            /\ \A n \in 1..Len(shard[j].lines) : shard[j].lines[n].events > 0
            /\ Own(j, fromChild[j]) /\ Own(j, shard[j].lines) /\ WholeOrDead(j, fromChild[j])
        BY DEF Safe, Departures
      <4>5. (Own(j, fromChild[j]) /\ Own(j, shard[j].lines) /\ WholeOrDead(j, fromChild[j]))'
        BY <1>5, <4>4 DEF Own, WholeOrDead
      <4>6. (/\ Increasing(shard[j].lines) /\ Increasing(fromChild[j])
             /\ \A n \in 1..Len(shard[j].lines) : shard[j].lines[n].events > 0)'
        BY <1>5, <4>4 DEF Increasing
      <4>7. Below(fromChild[j], shard[j].lines)'
        BY <1>5, <4>4 DEF Below
      <4>8. Len(head'[j]) <= 1
        BY <4>1
      <4>9. QED  BY <4>2, <4>3, <4>5, <4>6, <4>7, <4>8 DEF Departures
    <3>2. CASE j # i
      <4>1. head'[j] = head[j]
        BY <2>1, <3>2
      <4>2. Departures(j)
        BY DEF Safe
      <4>3. /\ UNCHANGED <<shardOf, shard, fromChild>>
            /\ head'[j] = head[j]
        BY <1>5, <4>1
      <4>4. (Own(j, head[j]) /\ Own(j, fromChild[j]) /\ Own(j, shard[j].lines))'
        BY <4>2, <4>3 DEF Departures, Own
      <4>5. (WholeOrDead(j, head[j]) /\ WholeOrDead(j, fromChild[j]))'
        BY <4>2, <4>3 DEF Departures, WholeOrDead
      <4>6. (Below(head[j], fromChild[j]) /\ Below(head[j], shard[j].lines)
                /\ Below(fromChild[j], shard[j].lines))'
        BY <4>2, <4>3 DEF Departures, Below
      <4>7. (Increasing(shard[j].lines) /\ Increasing(fromChild[j]))'
        BY <4>2, <4>3 DEF Departures, Increasing
      <4>8. /\ Len(head'[j]) <= 1
            /\ \A n \in 1..Len(shard'[j].lines) : shard'[j].lines[n].events > 0
        BY <4>2, <4>3 DEF Departures
      <4>9. QED  BY <4>4, <4>5, <4>6, <4>7, <4>8 DEF Departures
    <3>3. QED  BY <3>1, <3>2
  <2>4. /\ Below(out', fromChild[j]) /\ Below(out', shard[j].lines)
        /\ j # i => Below(out', head[j])
    <3>1. Below(out, fromChild[j]) /\ Below(out, shard[j].lines) /\ Below(out, head[j])
      BY DEF Safe, Merged
    <3>2. QED  BY <1>2, <1>4, <1>5, <1>8, <3>1, BelowAppend
  <2>5. Merged(j)'
    <3>1. Below(out', head'[j])
      BY <2>1, <2>4, BelowEmpty
    <3>2. QED  BY <1>5, <2>4, <3>1 DEF Merged
  <2>6. shard[j].step \notin {"unborn", "closing", "reading"}
    <3>1. CASE j \in live
      BY <1>1, <3>1 DEF Safe, Phases
    <3>2. CASE j \notin live
      BY <3>2 DEF Safe, Phases, Ended
    <3>3. QED  BY <3>1, <3>2
  <2>7. Phases(j)'
    BY <1>5, <2>1, <2>6 DEF Safe, Phases, Ended
  <2>8. QED  BY <2>2, <2>3, <2>5, <2>7 DEF Safe
<1>10. QED  BY <1>7, <1>9

\* The parent's steps that touch neither a pipe nor the merge.
Counts ==
    \/ \E gap \in Gaps, u \in Users, b \in Sizes, p \in Paths : NextLine(gap, u, b, p)
    \/ EndOfInput \/ CloseWriter \/ MergeEnds \/ WaitShard \/ Return \/ Raises \/ ParentFails

LEMMA ParentSafe ==
    ASSUME TypeOK, \A j \in Shard : Safe(j) /\ Progress(j), Increasing(out), Ahead,
           ParentRuns \/ ParentFails
    PROVE  (\A j \in Shard : Safe(j)') /\ Increasing(out)'
<1>1. UNCHANGED shardOf
  BY DEF ParentRuns, ParentFails
<1>2. CASE \E i \in Shard : Merge(i)
  BY <1>1, <1>2, MergeSafe
<1>3. CASE Feed
  BY <1>1, <1>3, FeedSafe DEF Feed, mergeVars
<1>4. CASE Fork
  BY <1>1, <1>4, ForkSafe DEF Fork, mergeVars
<1>5. CASE \E i \in Shard : Pull(i)
  BY <1>1, <1>5, PullSafe DEF Pull
<1>6. CASE \E i \in Shard : PullEnd(i)
  BY <1>1, <1>6, PullEndSafe DEF PullEnd
<1>7. CASE Counts
  <2>1. UNCHANGED <<input, mergeVars, childVars>>
    BY <1>7 DEF Counts, NextLine, EndOfInput, CloseWriter, MergeEnds, WaitShard, Return, Raises,
                ParentFails, ExitsWith
  <2>2. QED  BY <1>1, <2>1, Untouched DEF mergeVars, childVars
<1>8. QED  BY <1>2, <1>3, <1>4, <1>5, <1>6, <1>7 DEF ParentRuns, Counts

-----------------------------------------------------------------------------
(* Progress and exit statuses *)

\* A child moves from a running step, and starts to write only when its input
\* is at its end.
LEMMA ChildMoves ==
    ASSUME TypeOK, NEW i \in Shard, ShardRuns(i) \/ ShardDies(i)
    PROVE  /\ UNCHANGED parentVars
           /\ shard[i].step \in {"closing", "reading", "writing"}
           /\ shard'[i].step \in {"reading", "writing", "exit0", "exit1"}
           /\ shard'[i].step \in {"writing", "exit0"} => shard[i].step = "writing" \/ ~InputOpen(i)
           /\ \A j \in Shard : j # i => shard'[j] = shard[j]
<1>1. CASE CloseInherited(i)
  BY <1>1 DEF CloseInherited, TypeOK, ShardRuns, ShardDies
<1>2. CASE ReadLine(i)
  BY <1>2 DEF ReadLine, TypeOK, ShardRuns, ShardDies
<1>3. CASE EndOfPipe(i)
  BY <1>3 DEF EndOfPipe, StartsWriting, Process, TypeOK, ShardRuns, ShardDies
<1>4. CASE WriteLine(i)
  BY <1>4 DEF WriteLine, CanWrite, TypeOK, ShardRuns, ShardDies
<1>5. CASE ChildDone(i) \/ WriteBreaks(i)
  BY <1>5 DEF ChildDone, WriteBreaks, Exits, Process, TypeOK, ShardRuns, ShardDies
<1>6. CASE ShardDies(i)
  BY <1>6 DEF ShardDies, ShardFails, ShardKilledInLine, CanWrite, Exits, Process, TypeOK
<1>7. QED  BY <1>1, <1>2, <1>3, <1>4, <1>5, <1>6 DEF ShardRuns

LEMMA ChildProgress ==
    ASSUME TypeOK, \A j \in Shard : Progress(j), Status, NEW i \in Shard,
           ShardRuns(i) \/ ShardDies(i)
    PROVE  (\A j \in Shard : Progress(j)') /\ Status'
<1>1. /\ UNCHANGED <<ppc, k, bad, code>>
      /\ shard[i].step \in {"closing", "reading", "writing"}
      /\ shard'[i].step \in {"reading", "writing", "exit0", "exit1"}
      /\ shard'[i].step \in {"writing", "exit0"} => shard[i].step = "writing" \/ ~InputOpen(i)
      /\ \A j \in Shard : j # i => shard'[j] = shard[j]
  BY ChildMoves DEF parentVars
<1>2. Progress(i)'
  BY <1>1 DEF Progress, InputOpen, Ended
<1>3. ASSUME NEW j \in Shard, j # i
      PROVE  Progress(j)'
  BY <1>1, <1>3 DEF Progress, Ended
<1>4. Status'
  <2>1. k \in Nat /\ 1..k \subseteq Shard
    BY ForkSpreadAssumption DEF TypeOK, Shard
  <2>2. CASE ppc = "wait"
    <3>1. i \notin 1..k
      BY <1>1, <2>1, <2>2 DEF Progress, Ended
    <3>2. \A j \in 1..k : shard'[j] = shard[j]
      BY <1>1, <2>1, <3>1
    <3>3. Failures(k)' = Failures(k)
      BY <1>1, <3>2 DEF Failures
    <3>4. QED  BY <1>1, <2>2, <3>3 DEF Status
  <2>3. CASE ppc = "return"
    BY <1>1, <2>3 DEF Progress, Ended
  <2>4. CASE ppc \notin {"wait", "return"}
    BY <1>1, <2>4 DEF Status
  <2>5. QED  BY <2>2, <2>3, <2>4
<1>5. QED  BY <1>2, <1>3, <1>4

\* The next shard waited for adds itself to the failures, or nothing.
LEMMA OneMoreFailure ==
    ASSUME TypeOK, NEW n \in Nat, n + 1 \in Shard
    PROVE  /\ IsFiniteSet(Failures(n))
           /\ Cardinality(Failures(n + 1))
                = IF shard[n + 1].step = "exit1" THEN Cardinality(Failures(n)) + 1
                  ELSE Cardinality(Failures(n))
<1>1. Failures(n) \subseteq 1..n /\ n + 1 \notin Failures(n)
  BY DEF Failures
<1>2. IsFiniteSet(Failures(n))
  <2>1. IsFiniteSet(1..n)
    BY FS_Interval, 1 \in Int, n \in Int
  <2>2. QED  BY <1>1, <2>1, FS_Subset
<1>3. 1..(n + 1) = 1..n \cup {n + 1}
  OBVIOUS
<1>4. CASE shard[n + 1].step = "exit1"
  <2>1. Failures(n + 1) = Failures(n) \cup {n + 1}
    BY <1>3, <1>4 DEF Failures
  <2>2. QED  BY <1>1, <1>2, <1>4, <2>1, FS_AddElement
<1>5. CASE shard[n + 1].step # "exit1"
  <2>1. Failures(n + 1) = Failures(n)
    BY <1>3, <1>5 DEF Failures
  <2>2. QED  BY <1>2, <1>5, <2>1
<1>6. QED  BY <1>4, <1>5

\* No failures counted is no failures.
LEMMA NoFailures ==
    ASSUME TypeOK, NEW n \in Nat, Cardinality(Failures(n)) = 0
    PROVE  \A i \in 1..n : shard[i].step # "exit1"
<1>1. IsFiniteSet(Failures(n))
  <2>1. Failures(n) \subseteq 1..n
    BY DEF Failures
  <2>2. IsFiniteSet(1..n)
    BY FS_Interval, 1 \in Int, n \in Int
  <2>3. QED  BY <2>1, <2>2, FS_Subset
<1>2. Failures(n) = {}
  BY <1>1, FS_EmptySet
<1>3. QED  BY <1>2 DEF Failures

LEMMA ForkProgress ==
    ASSUME TypeOK, \A j \in Shard : Progress(j), Status, Fork
    PROVE  (\A j \in Shard : Progress(j)') /\ Status'
<1>1. /\ ppc = "fork" /\ k + 1 \in Shard /\ k \in Nat
      /\ \/ k + 1 < Shards /\ k' = k + 1 /\ ppc' = "fork"
         \/ k + 1 = Shards /\ k' = 0 /\ ppc' = "feed"
  BY LoopAdvances DEF Fork, Loop
<1>2. ASSUME NEW j \in Shard
      PROVE  shard'[j].step = IF j = k + 1 THEN "closing" ELSE shard[j].step
  BY <1>1 DEF Fork, TypeOK
<1>3. ASSUME NEW j \in Shard
      PROVE  Progress(j)'
  <2>1. j \in Nat /\ j <= Shards /\ Shards \in Nat
    BY ForkSpreadAssumption DEF Shard
  <2>2. (shard[j].step = "unborn" <=> k < j) /\ shard[j].step \notin {"writing", "exit0"}
    BY <1>1 DEF Progress
  <2>3. shard'[j].step = "unborn" <=> k + 1 < j
    BY <1>1, <1>2, <2>1, <2>2
  <2>4. shard'[j].step \notin {"writing", "exit0"}
    BY <1>2, <2>2
  <2>5. QED  BY <1>1, <2>1, <2>3, <2>4 DEF Progress
<1>4. UNCHANGED <<bad, code>>
  BY DEF Fork
<1>5. QED  BY <1>1, <1>3, <1>4 DEF Status

LEMMA WaitProgress ==
    ASSUME TypeOK, \A j \in Shard : Progress(j), Status, WaitShard
    PROVE  (\A j \in Shard : Progress(j)') /\ Status'
<1>1. /\ ppc = "wait" /\ k + 1 \in Shard /\ k \in Nat /\ Ended(k + 1) /\ UNCHANGED <<shard, code>>
      /\ \/ k + 1 < Shards /\ k' = k + 1 /\ ppc' = "wait"
         \/ k + 1 = Shards /\ k' = 0 /\ ppc' = "return"
  BY LoopAdvances DEF WaitShard, Loop, childVars
<1>2. ASSUME NEW j \in Shard
      PROVE  Progress(j)'
  <2>1. j \in Nat /\ j <= Shards /\ Shards \in Nat
    BY ForkSpreadAssumption DEF Shard
  <2>2. j <= k + 1 => Ended(j)
    BY <1>1, <2>1 DEF Progress
  <2>3. QED  BY <1>1, <2>1, <2>2 DEF Progress, Ended
<1>3. bad' = IF shard[k + 1].step = "exit1" THEN bad + 1 ELSE bad
  BY <1>1 DEF WaitShard, Ended
<1>4. bad' = Cardinality(Failures(k + 1))
  BY <1>1, <1>3, OneMoreFailure DEF Status
<1>5. \A n : Failures(n)' = Failures(n)
  BY <1>1 DEF Failures
<1>6. code = -1
  BY <1>1 DEF Status
<1>7. CASE ppc' = "wait" /\ k' = k + 1
  BY <1>1, <1>2, <1>4, <1>5, <1>6, <1>7 DEF Status
<1>8. CASE ppc' = "return" /\ k + 1 = Shards
  BY <1>1, <1>2, <1>4, <1>5, <1>6, <1>8 DEF Status
<1>9. QED  BY <1>1, <1>7, <1>8

LEMMA ParentProgress ==
    ASSUME TypeOK, \A j \in Shard : Progress(j), Status, ParentRuns \/ ParentFails
    PROVE  (\A j \in Shard : Progress(j)') /\ Status'
<1>1. CASE Fork
  BY <1>1, ForkProgress
<1>2. CASE Feed \/ \E gap \in Gaps, u \in Users, b \in Sizes, p \in Paths : NextLine(gap, u, b, p)
  <2>1. ppc = "feed" /\ UNCHANGED <<ppc, k, shard, bad, code>>
    BY <1>2 DEF Feed, NextLine, childVars
  <2>2. QED  BY <2>1 DEF Progress, Status
<1>3. CASE EndOfInput
  <2>1. ppc = "feed" /\ ppc' = "close" /\ UNCHANGED <<k, shard, bad, code>>
    BY <1>3 DEF EndOfInput, childVars
  <2>2. QED  BY <2>1 DEF Progress, Status
<1>4. CASE CloseWriter
  <2>1. /\ ppc = "close" /\ k + 1 \in Shard /\ k \in Nat /\ UNCHANGED <<shard, bad, code>>
        /\ \/ k + 1 < Shards /\ k' = k + 1 /\ ppc' = "close"
           \/ k + 1 = Shards /\ k' = 0 /\ ppc' = "merge"
    BY <1>4, LoopAdvances DEF CloseWriter, Loop, childVars
  <2>2. ASSUME NEW j \in Shard
        PROVE  Progress(j)'
    <3>1. j \in Nat
      BY DEF Shard
    <3>2. QED  BY <2>1, <3>1 DEF Progress
  <2>3. QED  BY <2>1, <2>2 DEF Status
<1>5. CASE \E i \in Shard : Pull(i) \/ PullEnd(i) \/ Merge(i)
  <2>1. ppc = "merge" /\ UNCHANGED <<ppc, k, shard, bad, code>>
    BY <1>5 DEF Pull, PullEnd, Merge, Reads, Writes, childVars
  <2>2. QED  BY <2>1 DEF Progress, Status
<1>6. CASE MergeEnds
  <2>1. ppc = "merge" /\ ppc' = "wait" /\ UNCHANGED <<k, shard, bad, code>> /\ k = 0 /\ bad = 0
    BY <1>6 DEF MergeEnds, childVars, Status
  <2>2. ASSUME NEW j \in Shard
        PROVE  Progress(j)'
    <3>1. j \in Nat /\ j > 0
      BY DEF Shard
    <3>2. QED  BY <2>1, <3>1 DEF Progress
  <2>3. Failures(k)' = {}
    BY <2>1 DEF Failures
  <2>4. Cardinality(Failures(k)') = 0
    BY <2>3, FS_EmptySet
  <2>5. QED  BY <2>1, <2>2, <2>4 DEF Status
<1>7. CASE WaitShard
  BY <1>7, WaitProgress
<1>8. CASE Return
  <2>1. /\ ppc = "return" /\ ppc' = "exited" /\ UNCHANGED shard
        /\ code' = IF bad = 0 THEN 0 ELSE 1
    BY <1>8 DEF Return, ExitsWith, childVars
  <2>2. \A j \in Shard : Progress(j)'
    BY <2>1 DEF Progress
  <2>3. \A j \in Shard : shard[j].step \in {"exit0", "exit1"}
    BY <2>1 DEF Progress, Ended
  <2>4. bad = 0 => \A j \in Shard : shard[j].step # "exit1"
    <3>1. Shards \in Nat /\ Shard = 1..Shards
      BY ForkSpreadAssumption DEF Shard
    <3>2. QED  BY <2>1, <3>1, NoFailures DEF Status
  <2>5. QED  BY <2>1, <2>2, <2>3, <2>4 DEF Status
<1>9. CASE Raises \/ ParentFails
  <2>1. ppc' = "exited" /\ code' = 1 /\ UNCHANGED shard
    BY <1>9 DEF Raises, ParentFails, ExitsWith, childVars
  <2>2. \A j \in Shard : Progress(j)'
    BY <2>1 DEF Progress
  <2>3. QED  BY <2>1, <2>2 DEF Status
<1>10. QED  BY <1>1, <1>2, <1>3, <1>4, <1>5, <1>6, <1>7, <1>8, <1>9 DEF ParentRuns

\* The time read next counts from that of the line before it.
LEMMA ParentAhead ==
    ASSUME TypeOK, Ahead, ParentRuns \/ ParentFails
    PROVE  Ahead'
<1>1. CASE Feed
  <2>1. pending' = <<>>
    BY <1>1 DEF Feed
  <2>2. QED  BY <2>1 DEF Ahead
<1>2. ASSUME NEW gap \in Gaps, NEW u \in Users, NEW b \in Sizes, NEW p \in Paths,
             NextLine(gap, u, b, p)
      PROVE  Ahead'
  <2>1. LastTs \in Nat /\ gap \in Nat
    BY LastTsType, SessionAssumption
  <2> DEFINE e == [ts |-> LastTs + gap, user |-> u, bytes |-> b, path |-> p]
  <2>2. pending' = <<e>> /\ UNCHANGED input
    BY <1>2 DEF NextLine
  <2>3. e.ts = LastTs + gap
    OBVIOUS
  <2> HIDE DEF e
  <2>4. Len(pending') = 1 /\ pending'[1] = e
    BY <2>2
  <2>5. LastTs' = LastTs
    BY <2>2 DEF LastTs
  <2>6. QED  BY <2>1, <2>3, <2>4, <2>5 DEF Ahead
<1>3. CASE UNCHANGED <<pending, input>>
  BY <1>3 DEF Ahead, LastTs
<1>4. CASE \E i \in Shard : Pull(i) \/ PullEnd(i) \/ Merge(i)
  BY <1>3, <1>4 DEF Pull, PullEnd, Merge, Writes
<1>5. CASE Fork \/ EndOfInput \/ CloseWriter \/ MergeEnds \/ WaitShard \/ Return \/ Raises \/ ParentFails
  BY <1>3, <1>5 DEF Fork, EndOfInput, CloseWriter, MergeEnds, WaitShard, Return, Raises,
                    ParentFails, ExitsWith
<1>6. QED  BY <1>1, <1>2, <1>4, <1>5 DEF ParentRuns

-----------------------------------------------------------------------------
(* The answer.  The second invariant relates what the processes hold to what *)
(* the oracle makes of the input; it is inductive given the first.           *)

Answered == OracleRecords(input, IdleMs)

OfShard(i) == {s \in OracleSessions(input, IdleMs) : shardOf[s.user] = i}

\* got is what child i has read: with what it is still to read it makes the
\* sessions of the child's users, and the last one of each user is held open.
FedWith(i, got) ==
    /\ Stream(got \o toChild[i])
    /\ \A n \in 1..Len(got \o toChild[i]) : (got \o toChild[i])[n].ts <= LastTs
    /\ OracleSessions(got \o toChild[i], IdleMs) = OfShard(i)
    /\ shard[i].users = Latest(OracleSessions(got, IdleMs))
    /\ shard[i].done = {RecordOf(s) : s \in Past(OracleSessions(got, IdleMs))}

Fed(i) ==
    shard[i].step \in {"unborn", "closing", "reading"} =>
        \E got \in Seq(Event) : FedWith(i, got)

InFlight(i) == ToSet(shard[i].lines) \cup ToSet(fromChild[i]) \cup ToSet(head[i])

\* Every line on its way that is not cut short is of the answer, and none of a
\* child that has not failed is lost.
Carried(i) ==
    /\ \A r \in InFlight(i) : r \in Answered \/ IsCut(r)
    /\ shard[i].step \in {"writing", "exit0"} =>
          \A r \in Answered : shardOf[r.user] = i => r \in InFlight(i) \cup ToSet(out)

Failed == \E i \in Shard : shard[i].step = "exit1"

Delivered == \A r \in ToSet(out) : r \in Answered \/ (IsCut(r) /\ Failed)

\* Nothing has been written while the answer can still change.
Silence == ppc \in {"fork", "feed"} => out = <<>> /\ \A i \in Shard : InFlight(i) = {}

\* The parent waits, and exits with 0, when it has read all pipes to their end.
Closed ==
    /\ ppc \in {"wait", "return"} \/ code = 0 => live = {}
    /\ ppc # "exited" => code = -1

Answers ==
    /\ Stream(input)
    /\ \A i \in Shard : Fed(i) /\ Carried(i)
    /\ Delivered
    /\ Silence
    /\ Closed

LEMMA InputBefore ==
    ASSUME TypeOK, Stream(input)
    PROVE  /\ input \in Seq(Event)
           /\ \A n \in 1..Len(input) : input[n].ts <= LastTs /\ input[n].user \in Nat
<1>1. input \in Seq(Event) /\ Len(input) \in Nat
  BY DEF TypeOK
<1>2. ASSUME NEW n \in 1..Len(input)
      PROVE  input[n].ts <= LastTs /\ input[n].user \in Nat
  <2>1. input # <<>> /\ Len(input) \in 1..Len(input) /\ n <= Len(input)
    BY <1>1
  <2>2. LastTs = input[Len(input)].ts
    BY <2>1 DEF LastTs, Last
  <2>3. input[n] \in Event
    BY <1>1
  <2>4. QED  BY <2>1, <2>2, <2>3, SessionAssumption DEF Stream, Event
<1>3. QED  BY <1>1, <1>2

\* The sessions of the oracle are those of the child.
LEMMA SameSessions ==
    /\ \A e : Fresh(e) = NewSession(e)
    /\ \A s, e : Longer(s, e) = Extended(s, e)
    /\ \A s : RecordOf(s) = Emit(s)
BY DEF Fresh, NewSession, Longer, Extended, RecordOf, Emit

LEMMA ReadFollows ==
    ASSUME NEW got \in Seq(Event), NEW q \in Seq(Event), Stream(got \o q)
    PROVE  /\ Stream(got)
           /\ q # <<>> => Follows(Head(q), got)
<1>1. /\ got \o q \in Seq(Event)
      /\ Len(got \o q) = Len(got) + Len(q)
      /\ \A j \in 1..(Len(got) + Len(q)) :
            (got \o q)[j] = IF j <= Len(got) THEN got[j] ELSE q[j - Len(got)]
  BY ConcatProperties
<1>2. Len(got) \in Nat /\ Len(q) \in Nat
  OBVIOUS
<1>3. \A j \in 1..Len(got) : (got \o q)[j] = got[j] /\ j \in 1..Len(got \o q)
  BY <1>1, <1>2
<1>4. Stream(got)
  BY <1>3 DEF Stream
<1>5. ASSUME q # <<>>
      PROVE  Follows(Head(q), got)
  <2>1. Head(q) = q[1] /\ Len(q) \in Nat \ {0}
    BY <1>5
  <2>2. Len(got) + 1 \in 1..Len(got \o q) /\ (got \o q)[Len(got) + 1] = Head(q)
    BY <1>1, <1>2, <2>1
  <2>3. \A j \in 1..Len(got) : j <= Len(got) + 1
    BY <1>2
  <2>4. QED  BY <1>3, <2>2, <2>3 DEF Stream, Follows
<1>6. QED  BY <1>4, <1>5

\* A line that is read makes of the child's sessions what it makes of the oracle's.
LEMMA ReadLineFed ==
    ASSUME TypeOK, NEW i \in Shard, Memory(i), Fed(i), ReadLine(i), UNCHANGED <<shardOf, input>>
    PROVE  Fed(i)'
<1> DEFINE q == toChild[i]
           e == Head(q)
<1>1. /\ shard[i].step = "reading" /\ q \in Seq(Event) /\ q # <<>> /\ toChild'[i] = Tail(q)
      /\ e \in Event
  BY DEF ReadLine, TypeOK
<1>2. PICK got \in Seq(Event) : FedWith(i, got)
  BY <1>1 DEF Fed
<1> DEFINE got2 == Append(got, e)
           S == OracleSessions(got, IdleMs)
           S2 == OracleSessions(got2, IdleMs)
<1>3. /\ Stream(got \o q)
      /\ \A n \in 1..Len(got \o q) : (got \o q)[n].ts <= LastTs
      /\ OracleSessions(got \o q, IdleMs) = OfShard(i)
      /\ shard[i].users = Latest(S)
      /\ shard[i].done = {RecordOf(s) : s \in Past(S)}
  BY <1>2 DEF FedWith
<1>4. got2 \in Seq(Event) /\ got2 \o Tail(q) = got \o q
  <2>1. got2 \in Seq(Event)
    BY <1>1
  <2>2. QED  BY <1>1, <2>1, Requeued
<1>5. Stream(got) /\ Follows(e, got) /\ IdleMs \in Nat
  BY <1>1, <1>3, ReadFollows, SessionAssumption
<1>6. LatestStep(got, IdleMs, e)
  BY <1>1, <1>5, LatestAppend
<1>7. \/ /\ \A s \in shard[i].users : s.user # e.user
         /\ shard'[i].users = shard[i].users \cup {NewSession(e)}
         /\ shard'[i].done = shard[i].done
      \/ \E s \in shard[i].users :
            /\ s.user = e.user
            /\ e.ts - s.last_ts > IdleMs
            /\ shard'[i].users = (shard[i].users \ {s}) \cup {NewSession(e)}
            /\ shard'[i].done = shard[i].done \cup {Emit(s)}
      \/ \E s \in shard[i].users :
            /\ s.user = e.user
            /\ ~(e.ts - s.last_ts > IdleMs)
            /\ shard'[i].users = (shard[i].users \ {s}) \cup {Extended(s, e)}
            /\ shard'[i].done = shard[i].done
  BY ReadLineEffect
<1>8. /\ \A s \in Latest(S) : s.user = e.user /\ ~(e.ts - s.last_ts > IdleMs) =>
            /\ Latest(S2) = (Latest(S) \ {s}) \cup {Extended(s, e)}
            /\ Past(S2) = Past(S)
      /\ \A s \in Latest(S) : s.user = e.user /\ e.ts - s.last_ts > IdleMs =>
            /\ Latest(S2) = (Latest(S) \ {s}) \cup {NewSession(e)}
            /\ Past(S2) = Past(S) \cup {s}
      /\ (\A s \in Latest(S) : s.user # e.user) =>
            /\ Latest(S2) = Latest(S) \cup {NewSession(e)}
            /\ Past(S2) = Past(S)
  BY <1>6, SameSessions DEF LatestStep
<1> HIDE DEF q, e, got2, S, S2
<1>9. /\ shard'[i].users = Latest(S2)
      /\ shard'[i].done = {RecordOf(s) : s \in Past(S2)}
  <2>1. CASE \A s \in shard[i].users : s.user # e.user
    BY <1>3, <1>7, <1>8, <2>1
  <2>2. ASSUME NEW s \in shard[i].users, s.user = e.user, e.ts - s.last_ts > IdleMs,
               shard'[i].users = (shard[i].users \ {s}) \cup {NewSession(e)},
               shard'[i].done = shard[i].done \cup {Emit(s)}
        PROVE  <1>9!:
    <3>1. Past(S2) = Past(S) \cup {s} /\ Latest(S2) = (Latest(S) \ {s}) \cup {NewSession(e)}
      BY <1>3, <1>8, <2>2
    <3>2. Emit(s) = RecordOf(s)
      BY SameSessions
    <3>3. QED  BY <1>3, <2>2, <3>1, <3>2
  <2>3. ASSUME NEW s \in shard[i].users, s.user = e.user, ~(e.ts - s.last_ts > IdleMs),
               shard'[i].users = (shard[i].users \ {s}) \cup {Extended(s, e)},
               shard'[i].done = shard[i].done
        PROVE  <1>9!:
    <3>1. Past(S2) = Past(S) /\ Latest(S2) = (Latest(S) \ {s}) \cup {Extended(s, e)}
      BY <1>3, <1>8, <2>3
    <3>2. QED  BY <1>3, <2>3, <3>1
  <2>4. QED  BY <1>7, <2>1, <2>2, <2>3
<1>10. OfShard(i)' = OfShard(i) /\ LastTs' = LastTs
  BY DEF OfShard, LastTs
<1>11. PICK read \in Seq(Event) : read = got2
  BY <1>4
<1>12. FedWith(i, read)'
  <2>1. /\ read \o toChild'[i] = got \o q
        /\ shard'[i].users = Latest(OracleSessions(read, IdleMs))
        /\ shard'[i].done = {RecordOf(s) : s \in Past(OracleSessions(read, IdleMs))}
    BY <1>1, <1>4, <1>9, <1>11 DEF S2
  <2>2. QED  BY <1>3, <1>10, <2>1 DEF FedWith
<1>13. QED  BY <1>12 DEF Fed

\* At the end of its input a child has accumulated the answer for its users.
LEMMA AccumulatedIs ==
    ASSUME TypeOK, NEW i \in Shard, Fed(i), shard[i].step = "reading", toChild[i] = <<>>
    PROVE  Accumulated(i) = {r \in Answered : shardOf[r.user] = i}
<1>1. PICK got \in Seq(Event) : FedWith(i, got)
  BY DEF Fed
<1> DEFINE S == OracleSessions(got, IdleMs)
<1>2. got \o toChild[i] = got
  BY ConcatEmptySeq
<1>3. /\ shard[i].users = Latest(S)
      /\ shard[i].done = {RecordOf(s) : s \in Past(S)}
      /\ S = OfShard(i)
  BY <1>1, <1>2 DEF FedWith
<1>4. S = Latest(S) \cup Past(S)
  BY DEF Latest, Past
<1> HIDE DEF S
<1>5. {Emit(s) : s \in shard[i].users} = {RecordOf(s) : s \in Latest(S)}
  BY <1>3, SameSessions
<1>6. Accumulated(i) = {RecordOf(s) : s \in S}
  BY <1>3, <1>4, <1>5 DEF Accumulated
<1>7. \A s : RecordOf(s).user = s.user
  BY DEF RecordOf
<1>8. QED  BY <1>3, <1>6, <1>7 DEF OfShard, Answered, OracleRecords

\* An event of one shard leaves the sessions of the others alone.
LEMMA FeedFed ==
    ASSUME TypeOK, Stream(input), UNCHANGED shardOf, \A j \in Shard : Fed(j) /\ Arrivals(j),
           Ahead, Feed
    PROVE  Stream(input)' /\ \A j \in Shard : Fed(j)'
<1>0. PICK e : e = Head(pending)
  OBVIOUS
<1> DEFINE i == shardOf[e.user]
<1>1. /\ e \in Event /\ e.ts \in Nat /\ e.bytes \in Nat
      /\ LastTs \in Nat /\ LastTs <= e.ts /\ i \in Shard
  BY <1>0, NextIsLater
<1>2. /\ input' = Append(input, e)
      /\ toChild' = [toChild EXCEPT ![i] = Append(@, e)]
      /\ UNCHANGED <<shardOf, shard>>
  BY <1>0 DEF Feed
<1>3. LastTs' = e.ts
  <2>1. input' # <<>> /\ input'[Len(input')] = e
    <3>1. input \in Seq(Event) /\ e \in Event /\ input' = Append(input, e)
      BY <1>1, <1>2 DEF TypeOK
    <3>2. QED  BY ONLY <3>1
  <2>2. QED  BY <2>1 DEF LastTs, Last
<1>4. /\ input \in Seq(Event)
      /\ \A n \in 1..Len(input) : input[n].ts <= LastTs /\ input[n].ts \in Nat
  BY InputBefore DEF Stream
<1>5. Follows(e, input) /\ IdleMs \in Int
  BY <1>1, <1>4, SessionAssumption DEF Follows
<1>6. Stream(input')
  BY <1>1, <1>2, <1>4, <1>5, StreamAppend
<1> DEFINE S == OracleSessions(input, IdleMs)
           S2 == OracleSessions(input', IdleMs)
           joined == Joined(input, IdleMs, e)
<1>7. /\ joined = {} => S2 = S \cup {Fresh(e)}
      /\ \A s \in joined : joined = {s} /\ S2 = (S \ {s}) \cup {Longer(s, e)}
  <2>1. e \in Event /\ input \in Seq(Event) /\ Stream(input)
    BY <1>1, <1>4
  <2>2. /\ Joined(input, IdleMs, e) = {} =>
              OracleSessions(Append(input, e), IdleMs)
                = OracleSessions(input, IdleMs) \cup {Fresh(e)}
        /\ \A s \in Joined(input, IdleMs, e) :
              /\ Joined(input, IdleMs, e) = {s}
              /\ OracleSessions(Append(input, e), IdleMs)
                   = (OracleSessions(input, IdleMs) \ {s}) \cup {Longer(s, e)}
    BY ONLY <2>1, <1>5, AppendSessions
  <2>3. input' = Append(input, e)
    BY <1>2
  <2>4. QED  BY ONLY <2>2, <2>3
<1>8. /\ Fresh(e).user = e.user
      /\ \A s : Longer(s, e).user = s.user
      /\ \A s \in joined : s \in S /\ s.user = e.user
  <2>1. Fresh(e).user = e.user /\ \A s : Longer(s, e).user = s.user
    BY DEF Fresh, Longer
  <2>2. \A s \in joined : s \in S /\ s.user = e.user
    BY DEF Joined
  <2>3. QED  BY <2>1, <2>2
<1>9. ASSUME NEW j \in Shard, j # i
      PROVE  OfShard(j)' = OfShard(j)
  <2>1. OfShard(j)' = {s \in S2 : shardOf[s.user] = j} /\ OfShard(j) = {s \in S : shardOf[s.user] = j}
    BY <1>2 DEF OfShard
  <2> HIDE DEF S, S2, joined
  <2>2. CASE joined = {}
    BY <1>1, <1>7, <1>8, <1>9, <2>1, <2>2
  <2>3. CASE joined # {}
    BY <1>1, <1>7, <1>8, <1>9, <2>1, <2>3
  <2>4. QED  BY <2>2, <2>3
<1>10. ASSUME NEW j \in Shard, j # i
       PROVE  Fed(j)'
  <2>1. toChild'[j] = toChild[j] /\ shard'[j] = shard[j]
    BY <1>2, <1>10 DEF TypeOK
  <2>2. SUFFICES ASSUME shard[j].step \in {"unborn", "closing", "reading"}
                 PROVE  \E got \in Seq(Event) : FedWith(j, got)'
    BY <2>1 DEF Fed
  <2>3. PICK got \in Seq(Event) : FedWith(j, got)
    BY <2>2 DEF Fed
  <2> DEFINE mine == got \o toChild[j]
  <2>4. \A n \in 1..Len(mine) : mine[n].ts <= LastTs /\ mine[n].ts \in Nat
    BY <2>3 DEF FedWith, Stream
  <2>5. \A n \in 1..Len(mine) : mine[n].ts <= LastTs'
    <3> HIDE DEF mine
    <3> QED  BY <1>1, <1>3, <2>4
  <2>6. FedWith(j, got)'
    BY <1>2, <1>9, <1>10, <2>1, <2>3, <2>5 DEF FedWith
  <2>7. QED  BY <2>6
<1>11. Fed(i)'
  <2>1. toChild'[i] = Append(toChild[i], e) /\ shard'[i] = shard[i] /\ toChild[i] \in Seq(Event)
    BY <1>1, <1>2 DEF TypeOK
  <2>2. SUFFICES ASSUME shard[i].step \in {"unborn", "closing", "reading"}
                 PROVE  \E got \in Seq(Event) : FedWith(i, got)'
    BY <1>2, <2>1 DEF Fed
  <2>3. PICK got \in Seq(Event) : FedWith(i, got)
    BY <1>1, <2>2 DEF Fed
  <2> DEFINE mine == got \o toChild[i]
             mine2 == Append(mine, e)
             M == OracleSessions(mine, IdleMs)
             M2 == OracleSessions(mine2, IdleMs)
  <2>4. /\ Stream(mine) /\ M = OfShard(i)
        /\ \A n \in 1..Len(mine) : mine[n].ts <= LastTs /\ mine[n].ts \in Nat
    BY <2>3 DEF FedWith, Stream
  <2>5. mine \in Seq(Event) /\ got \o toChild'[i] = mine2
    <3>1. toChild[i] \in Seq(Event)
      BY <1>1, <2>1
    <3>2. mine \in Seq(Event)
      BY <3>1, ConcatProperties
    <3>3. got \o Append(toChild[i], e) = mine2
      <4>1. e \in Event
        BY <1>1
      <4>2. QED  BY ONLY <3>1, <4>1, got \in Seq(Event), AppendLater, SMTT(30)
    <3>4. QED  BY <1>1, <2>1, <3>2, <3>3
  <2>6. Follows(e, mine)
    <3> HIDE DEF mine
    <3> QED  BY <1>1, <2>4 DEF Follows
  <2>7. /\ mine2 \in Seq(Event) /\ Stream(mine2) /\ Len(mine) \in Nat
        /\ Len(mine2) = Len(mine) + 1
        /\ \A n \in 1..Len(mine) : mine2[n] = mine[n]
        /\ mine2[Len(mine) + 1] = e
    <3> HIDE DEF mine
    <3> QED  BY <1>1, <2>4, <2>5, <2>6, StreamAppend
  <2>8. \A n \in 1..Len(mine2) : mine2[n].ts <= e.ts
    <3>1. \A n \in 1..Len(mine2) : n \in 1..Len(mine) \/ n = Len(mine) + 1
      <4> HIDE DEF mine, mine2
      <4> QED  BY <2>7
    <3> HIDE DEF mine, mine2
    <3>2. QED  BY <1>1, <2>4, <2>7, <3>1
  <2>9. /\ Joined(mine, IdleMs, e) = {} => M2 = M \cup {Fresh(e)}
        /\ \A s \in Joined(mine, IdleMs, e) : M2 = (M \ {s}) \cup {Longer(s, e)}
    <3> HIDE DEF mine
    <3> QED  BY <1>1, <1>5, <2>4, <2>5, <2>6, AppendSessions
  <2>10. Joined(mine, IdleMs, e) = joined
    <3>1. M = {s \in S : shardOf[s.user] = i}
      BY <2>4 DEF OfShard
    <3>2. /\ Joined(mine, IdleMs, e) = {s \in M : s.user = e.user /\ s.last_ts + IdleMs >= e.ts}
          /\ joined = {s \in S : s.user = e.user /\ s.last_ts + IdleMs >= e.ts}
      BY DEF Joined
    <3> HIDE DEF M, S, joined, mine
    <3>3. QED  BY <1>1, <3>1, <3>2
  <2>11. M2 = OfShard(i)'
    <3>1. OfShard(i)' = {s \in S2 : shardOf[s.user] = i} /\ M = {s \in S : shardOf[s.user] = i}
      BY <1>2, <2>4 DEF OfShard
    <3> HIDE DEF M, M2, S, S2, joined, mine
    <3>2. CASE joined = {}
      BY <1>1, <1>7, <1>8, <2>9, <2>10, <3>1, <3>2
    <3>3. CASE joined # {}
      <4>1. PICK s \in joined : TRUE
        BY <3>3
      <4>2. M2 = (M \ {s}) \cup {Longer(s, e)} /\ S2 = (S \ {s}) \cup {Longer(s, e)}
        BY <1>7, <2>9, <2>10, <4>1
      <4>3. shardOf[Longer(s, e).user] = i
        BY <1>1, <1>8, <4>1
      <4>4. QED  BY <3>1, <4>2, <4>3
    <3>4. QED  BY <3>2, <3>3
  <2>12. FedWith(i, got)'
    <3>1. /\ Stream(got \o toChild'[i])
          /\ \A n \in 1..Len(got \o toChild'[i]) : (got \o toChild'[i])[n].ts <= LastTs'
          /\ OracleSessions(got \o toChild'[i], IdleMs) = OfShard(i)'
      BY <1>3, <2>5, <2>7, <2>8, <2>11
    <3>2. shard'[i] = shard[i] /\ i' = i
      BY <1>2, <2>1
    <3>3. QED  BY <2>3, <3>1, <3>2 DEF FedWith
  <2>13. QED  BY <2>12
<1>12. ASSUME NEW j \in Shard
       PROVE  Fed(j)'
  <2>1. CASE j = i
    BY <1>2, <1>11, <2>1
  <2>2. CASE j # i
    BY <1>10, <2>2
  <2>3. QED  BY <2>1, <2>2
<1>13. QED  BY <1>6, <1>12

\* What a step of a child does to the lines on their way.
LEMMA ChildFlow ==
    ASSUME TypeOK, NEW i \in Shard, Safe(i), ShardRuns(i) \/ ShardDies(i)
    PROVE  \/ EndOfPipe(i) /\ InFlight(i) = {} /\ InFlight(i)' = Accumulated(i)
           \/ /\ shard[i].step = "writing"
              /\ \A r \in InFlight(i)' : r \in InFlight(i) \/ IsCut(r)
              /\ shard'[i].step # "exit1" => InFlight(i)' = InFlight(i)
           \/ /\ shard'[i].step \notin {"writing", "exit0"}
              /\ InFlight(i)' \subseteq InFlight(i)
<1> DEFINE lines == shard[i].lines
           from == fromChild[i]
<1>1. UNCHANGED head /\ lines \in Seq(Record) /\ from \in Seq(Record)
  BY DEF ShardRuns, ShardDies, parentVars, mergeVars, TypeOK
<1>2. CASE CloseInherited(i)
  <2>1. shard'[i].step = "reading" /\ shard'[i].lines = lines /\ UNCHANGED fromChild
    BY <1>2 DEF CloseInherited, TypeOK
  <2>2. QED  BY <1>1, <2>1 DEF InFlight
<1>3. CASE ReadLine(i)
  <2>1. shard' = [shard EXCEPT ![i].done = shard'[i].done, ![i].users = shard'[i].users]
    BY <1>3, ReadLineEffect DEF Safe
  <2>2. shard'[i].step = "reading" /\ shard'[i].lines = lines /\ UNCHANGED fromChild
    BY <1>3, <2>1 DEF ReadLine, TypeOK
  <2>3. QED  BY <1>1, <2>2 DEF InFlight
<1>4. CASE EndOfPipe(i)
  <2>1. PICK sorted \in Sorted(Accumulated(i)) :
            shard' = [shard EXCEPT ![i] = Process("writing", sorted)]
    BY <1>4 DEF EndOfPipe, StartsWriting
  <2>2. shard'[i].lines = sorted /\ UNCHANGED fromChild
    BY <1>4, <2>1 DEF EndOfPipe, StartsWriting, Process, TypeOK
  <2>3. Accumulated(i) \in SUBSET Record /\ IsFiniteSet(Accumulated(i))
    BY AccumulatedType DEF Safe, Memory
  <2>4. ToSet(sorted) = Accumulated(i)
    BY <2>3, SortedRecords
  <2>5. from = <<>> /\ head[i] = <<>> /\ lines = <<>>
    BY <1>4 DEF EndOfPipe, Safe, Phases
  <2>6. InFlight(i) = {} /\ InFlight(i)' = Accumulated(i)
    BY <1>1, <2>2, <2>4, <2>5, ElementsFew DEF InFlight
  <2>7. QED  BY <1>4, <2>6
<1>5. CASE WriteLine(i)
  <2>1. lines # <<>> /\ lines[1] \in Record /\ Head(lines) = lines[1] /\ shard[i].step = "writing"
    BY <1>1, <1>5 DEF WriteLine, CanWrite
  <2>2. fromChild'[i] = Append(from, lines[1]) /\ shard'[i].lines = Tail(lines)
    BY <1>5, <2>1 DEF WriteLine, TypeOK
  <2> HIDE DEF lines, from
  <2>3. ToSet(lines) = {lines[1]} \cup ToSet(Tail(lines))
    BY <1>1, <2>1, ElementsTail
  <2>4. ToSet(Append(from, lines[1])) = ToSet(from) \cup {lines[1]}
    BY <1>1, <2>1, ElementsAppend
  <2>5. InFlight(i)' = InFlight(i)
    BY <1>1, <2>2, <2>3, <2>4 DEF InFlight, lines, from
  <2>6. QED  BY <2>1, <2>5
<1>6. CASE ChildDone(i)
  <2>1. shard[i].step = "writing" /\ lines = <<>> /\ shard'[i].lines = <<>> /\ UNCHANGED fromChild
    BY <1>6 DEF ChildDone, Exits, Process, TypeOK
  <2>2. QED  BY <1>1, <2>1 DEF InFlight
<1>7. CASE WriteBreaks(i) \/ ShardFails(i)
  <2>1. shard'[i].step = "exit1" /\ shard'[i].lines = <<>> /\ UNCHANGED fromChild
    BY <1>7 DEF WriteBreaks, ShardFails, Exits, Process, TypeOK
  <2>2. QED  BY <1>1, <2>1, ElementsFew DEF InFlight
<1>8. CASE ShardKilledInLine(i)
  <2>1. lines # <<>> /\ Head(lines) \in Record /\ shard[i].step = "writing"
    BY <1>1, <1>8 DEF ShardKilledInLine, CanWrite
  <2>2. Cut(Head(lines)) \in Record /\ IsCut(Cut(Head(lines)))
    BY <2>1, CutType DEF IsCut
  <2>3. /\ fromChild'[i] = Append(from, Cut(Head(lines)))
        /\ shard'[i].step = "exit1" /\ shard'[i].lines = <<>>
    BY <1>8 DEF ShardKilledInLine, Exits, Process, TypeOK
  <2>4. ToSet(fromChild'[i]) = ToSet(from) \cup {Cut(Head(lines))}
    BY <1>1, <2>2, <2>3, ElementsAppend
  <2>5. \A r \in InFlight(i)' : r \in InFlight(i) \/ r = Cut(Head(lines))
    BY <1>1, <2>3, <2>4, ElementsFew DEF InFlight
  <2>6. QED  BY <2>1, <2>2, <2>3, <2>5
<1>9. QED  BY <1>2, <1>3, <1>4, <1>5, <1>6, <1>7, <1>8 DEF ShardRuns, ShardDies

\* A child that is still to write has only read, or closed what it inherited.
LEMMA ChildFed ==
    ASSUME TypeOK, NEW i \in Shard, Memory(i), Fed(i), ShardRuns(i) \/ ShardDies(i)
    PROVE  Fed(i)'
<1>1. UNCHANGED <<shardOf, input>>
  BY DEF ShardRuns, ShardDies, parentVars
<1>2. CASE ReadLine(i)
  BY <1>1, <1>2, ReadLineFed
<1>3. CASE CloseInherited(i)
  <2>1. /\ shard'[i].users = shard[i].users /\ shard'[i].done = shard[i].done
        /\ shard[i].step = "closing" /\ UNCHANGED toChild
    BY <1>3 DEF CloseInherited, TypeOK
  <2>2. PICK got \in Seq(Event) : FedWith(i, got)
    BY <2>1 DEF Fed
  <2>3. FedWith(i, got)'
    BY <1>1, <2>1, <2>2 DEF FedWith, OfShard, LastTs
  <2>4. QED  BY <2>3 DEF Fed
<1>4. CASE ~ReadLine(i) /\ ~CloseInherited(i)
  <2>1. shard'[i].step \in {"writing", "exit0", "exit1"}
    BY <1>4 DEF ShardRuns, ShardDies, EndOfPipe, StartsWriting, WriteLine, CanWrite, ChildDone,
                WriteBreaks, ShardFails, ShardKilledInLine, Exits, Process, TypeOK
  <2>2. QED  BY <2>1 DEF Fed
<1>5. QED  BY <1>2, <1>3, <1>4

LEMMA ChildAnswers ==
    ASSUME IInv, Answers, NEW i \in Shard, ShardRuns(i) \/ ShardDies(i)
    PROVE  Answers'
<1>1. /\ TypeOK /\ Safe(i) /\ Progress(i)
      /\ Stream(input) /\ Delivered /\ Silence /\ Closed
      /\ \A j \in Shard : Fed(j) /\ Carried(j)
  BY DEF IInv, Safe, Answers
<1>2. UNCHANGED <<shardOf, ppc, k, input, live, head, out, code>>
  BY DEF ShardRuns, ShardDies, parentVars, mergeVars
<1>3. /\ shard[i].step \in {"closing", "reading", "writing"}
      /\ shard'[i].step \in {"writing", "exit0"} => shard[i].step = "writing" \/ ~InputOpen(i)
      /\ \A j \in Shard : j # i => shard'[j] = shard[j]
  BY <1>1, ChildMoves
<1>4. \A j \in Shard : j # i => toChild'[j] = toChild[j] /\ fromChild'[j] = fromChild[j]
  BY <1>1, OthersUntouched
<1>5. Answered' = Answered /\ \A j \in Shard : OfShard(j)' = OfShard(j)
  BY <1>2 DEF Answered, OfShard
<1>6. ASSUME NEW j \in Shard, j # i
      PROVE  Fed(j)' /\ Carried(j)' /\ InFlight(j)' = InFlight(j)
  <2>1. shard'[j] = shard[j] /\ toChild'[j] = toChild[j] /\ fromChild'[j] = fromChild[j]
    BY <1>3, <1>4, <1>6
  <2>2. Fed(j)'
    <3>1. SUFFICES ASSUME shard[j].step \in {"unborn", "closing", "reading"}
                   PROVE  \E got \in Seq(Event) : FedWith(j, got)'
      BY <2>1 DEF Fed
    <3>2. PICK got \in Seq(Event) : FedWith(j, got)
      BY <1>1, <3>1 DEF Fed
    <3>3. FedWith(j, got)'
      BY <1>2, <1>5, <2>1, <3>2 DEF FedWith, LastTs
    <3>4. QED  BY <3>3
  <2>3. InFlight(j)' = InFlight(j)
    BY <1>2, <2>1 DEF InFlight
  <2>4. QED  BY <1>1, <1>2, <1>5, <2>1, <2>2, <2>3 DEF Carried
<1>7. Fed(i)'
  BY <1>1, ChildFed DEF Safe
<1>8. \/ EndOfPipe(i) /\ InFlight(i) = {} /\ InFlight(i)' = Accumulated(i)
      \/ /\ shard[i].step = "writing"
         /\ \A r \in InFlight(i)' : r \in InFlight(i) \/ IsCut(r)
         /\ shard'[i].step # "exit1" => InFlight(i)' = InFlight(i)
      \/ /\ shard'[i].step \notin {"writing", "exit0"}
         /\ InFlight(i)' \subseteq InFlight(i)
  BY <1>1, ChildFlow
<1>9. EndOfPipe(i) => Accumulated(i) = {r \in Answered : shardOf[r.user] = i}
  BY <1>1, AccumulatedIs DEF EndOfPipe
<1>10. Carried(i)'
  <2>1. CASE EndOfPipe(i) /\ InFlight(i)' = Accumulated(i)
    BY <1>2, <1>5, <1>9, <2>1 DEF Carried
  <2>2. CASE /\ shard[i].step = "writing"
             /\ \A r \in InFlight(i)' : r \in InFlight(i) \/ IsCut(r)
             /\ shard'[i].step # "exit1" => InFlight(i)' = InFlight(i)
    BY <1>1, <1>2, <1>5, <2>2 DEF Carried, IsCut
  <2>3. CASE /\ shard'[i].step \notin {"writing", "exit0"}
             /\ InFlight(i)' \subseteq InFlight(i)
    BY <1>1, <1>5, <2>3 DEF Carried, IsCut
  <2>4. QED  BY <1>8, <2>1, <2>2, <2>3
<1>11. Delivered'
  <2>1. Failed => Failed'
    BY <1>3 DEF Failed
  <2>2. QED  BY <1>1, <1>2, <1>5, <2>1 DEF Delivered, IsCut
<1>12. Silence'
  <2>1. SUFFICES ASSUME ppc \in {"fork", "feed"}
                 PROVE  \A j \in Shard : InFlight(j)' = {}
    BY <1>1, <1>2 DEF Silence
  <2>2. shard[i].step # "writing" /\ InputOpen(i)
    BY <1>1, <2>1 DEF Progress, InputOpen
  <2>3. InFlight(i)' \subseteq InFlight(i)
    BY <1>8, <2>2 DEF EndOfPipe
  <2>4. \A j \in Shard : InFlight(j) = {}
    BY <1>1, <2>1 DEF Silence
  <2>5. QED  BY <1>6, <2>3, <2>4
<1>13. Closed' /\ Stream(input)'
  BY <1>1, <1>2 DEF Closed
<1>14. \A j \in Shard : Fed(j)' /\ Carried(j)'
  BY <1>6, <1>7, <1>10
<1>15. QED  BY <1>11, <1>12, <1>13, <1>14 DEF Answers

\* A child whose sessions and input stay what they are is fed as it was.
LEMMA StillFed ==
    ASSUME UNCHANGED <<shardOf, input, toChild>>, NEW i \in Shard, Fed(i),
           shard'[i].users = shard[i].users, shard'[i].done = shard[i].done,
           shard'[i].step = shard[i].step \/ shard[i].step = "unborn"
    PROVE  Fed(i)'
<1>1. SUFFICES ASSUME shard[i].step \in {"unborn", "closing", "reading"}
               PROVE  \E got \in Seq(Event) : FedWith(i, got)'
  BY DEF Fed
<1>2. PICK got \in Seq(Event) : FedWith(i, got)
  BY <1>1 DEF Fed
<1>3. FedWith(i, got)'
  BY <1>2 DEF FedWith, OfShard, LastTs
<1>4. QED  BY <1>3

\* Between the feeding and the merge the parent only counts.
LEMMA LoopAnswers ==
    ASSUME TypeOK, Answers, UNCHANGED <<shardOf, input, live, head, out, shard, toChild, fromChild>>,
           Closed', ppc' \in {"fork", "feed"} => ppc \in {"fork", "feed"}
    PROVE  Answers'
<1>1. Answered' = Answered /\ \A i \in Shard : InFlight(i)' = InFlight(i)
  BY DEF Answered, InFlight
<1>2. \A i \in Shard : Fed(i)'
  BY StillFed DEF Answers
<1>3. \A i \in Shard : Carried(i)'
  BY <1>1 DEF Answers, Carried, IsCut
<1>4. Delivered' /\ Silence'
  BY <1>1 DEF Answers, Delivered, Silence, Failed, IsCut
<1>5. QED  BY <1>2, <1>3, <1>4 DEF Answers

LEMMA ForkAnswers ==
    ASSUME IInv, Answers, UNCHANGED shardOf, Fork
    PROVE  Answers'
<1>1. TypeOK /\ ppc = "fork" /\ k + 1 \in Shard /\ Progress(k + 1)
  <2>1. TypeOK /\ k \in 0..(Shards - 1) /\ Shards \in Nat
    BY ForkSpreadAssumption DEF IInv, TypeOK
  <2>2. k + 1 \in Shard
    BY <2>1 DEF Shard
  <2>3. QED  BY <2>1, <2>2 DEF IInv, Fork, Loop
<1>2. /\ UNCHANGED <<shardOf, input, live, head, out, toChild, fromChild, code>>
      /\ shard' = [shard EXCEPT ![k + 1].step = "closing"] /\ ppc' \in {"fork", "feed"}
  BY DEF Fork, Loop, mergeVars
<1>3. shard[k + 1].step = "unborn"
  <2>1. k < k + 1
    BY DEF IInv, TypeOK
  <2>2. QED  BY <1>1, <2>1 DEF Progress
<1>4. \A i \in Shard : /\ shard'[i].users = shard[i].users /\ shard'[i].done = shard[i].done
                       /\ shard'[i].lines = shard[i].lines
                       /\ \/ shard'[i].step = shard[i].step
                          \/ shard[i].step = "unborn" /\ shard'[i].step = "closing"
  BY <1>1, <1>2, <1>3 DEF TypeOK
<1>5. Answered' = Answered /\ \A i \in Shard : InFlight(i)' = InFlight(i)
  BY <1>2, <1>4 DEF Answered, InFlight
<1>6. \A i \in Shard : Fed(i)'
  BY <1>2, <1>4, StillFed DEF Answers
<1>7. \A i \in Shard : Carried(i)'
  BY <1>2, <1>4, <1>5 DEF Answers, Carried, IsCut
<1>8. out = <<>> /\ \A i \in Shard : InFlight(i) = {}
  BY <1>1 DEF Answers, Silence
<1>9. Delivered' /\ Silence'
  BY <1>2, <1>5, <1>8, ElementsFew DEF Delivered, Silence
<1>10. Closed'
  BY <1>1, <1>2 DEF Answers, Closed
<1>11. QED  BY <1>2, <1>6, <1>7, <1>9, <1>10 DEF Answers

LEMMA FeedAnswers ==
    ASSUME IInv, Answers, UNCHANGED shardOf, Feed
    PROVE  Answers'
<1>1. /\ TypeOK /\ Stream(input) /\ ppc = "feed" /\ Ahead
      /\ \A i \in Shard : Fed(i) /\ Arrivals(i) /\ Progress(i)
  BY DEF IInv, Answers, Feed
<1>2. UNCHANGED <<shardOf, ppc, live, head, out, code, shard, fromChild>>
  BY DEF Feed, mergeVars
<1>3. Stream(input)' /\ \A i \in Shard : Fed(i)'
  BY <1>1, FeedFed
<1>4. out = <<>> /\ \A i \in Shard : InFlight(i) = {} /\ InFlight(i)' = {}
  BY <1>1, <1>2 DEF Answers, Silence, InFlight
<1>5. \A i \in Shard : Carried(i)'
  BY <1>1, <1>2, <1>4 DEF Carried, Progress
<1>6. Delivered' /\ Silence'
  BY <1>2, <1>4, ElementsFew DEF Delivered, Silence
<1>7. Closed'
  BY <1>2 DEF Answers, Closed
<1>8. QED  BY <1>3, <1>5, <1>6, <1>7 DEF Answers

LEMMA OneElement ==
    ASSUME NEW S, NEW q \in Seq(S), q # <<>>, Len(q) <= 1
    PROVE  q[1] \in S /\ 1 \in 1..Len(q) /\ ToSet(q) = {q[1]}
<1>1. Len(q) = 1
  <2>1. Len(q) \in Nat /\ Len(q) # 0
    OBVIOUS
  <2>2. QED  BY <2>1
<1>2. DOMAIN q = {1} /\ q[1] \in S
  BY <1>1
<1>3. QED  BY <1>1, <1>2 DEF ToSet

\* A line that is read stays on its way, one that is written leaves it.
LEMMA PullAnswers ==
    ASSUME IInv, Answers, UNCHANGED shardOf, NEW i \in Shard, Pull(i)
    PROVE  Answers'
<1> DEFINE from == fromChild[i]
<1>1. TypeOK /\ from \in Seq(Record) /\ from # <<>> /\ head[i] = <<>> /\ ppc = "merge"
  BY DEF IInv, TypeOK, Pull, Reads, Due
<1>2. Head(from) = from[1]
  BY <1>1
<1>3. /\ UNCHANGED <<shardOf, input, live, out, shard, toChild, ppc, code>>
      /\ head'[i] = <<from[1]>> /\ fromChild'[i] = Tail(from)
      /\ \A j \in Shard : j # i => head'[j] = head[j] /\ fromChild'[j] = fromChild[j]
  BY <1>1, <1>2 DEF Pull, TypeOK
<1>4. InFlight(i)' = InFlight(i)
  <2> HIDE DEF from
  <2>1. ToSet(from) = {from[1]} \cup ToSet(Tail(from))
    BY <1>1, ElementsTail
  <2>2. ToSet(<<from[1]>>) = {from[1]} /\ ToSet(<<>>) = {}
    BY ElementsFew
  <2>3. InFlight(i)' = ToSet(shard[i].lines) \cup ToSet(Tail(from)) \cup {from[1]}
    BY <1>3, <2>2 DEF InFlight
  <2>4. InFlight(i) = ToSet(shard[i].lines) \cup ToSet(from)
    BY <1>1, <2>2 DEF InFlight, from
  <2>5. QED  BY <2>1, <2>3, <2>4
<1>5. Answered' = Answered /\ \A j \in Shard : InFlight(j)' = InFlight(j)
  BY <1>3, <1>4 DEF Answered, InFlight
<1>6. \A j \in Shard : Fed(j)'
  BY <1>3, StillFed DEF Answers
<1>7. \A j \in Shard : Carried(j)'
  BY <1>3, <1>5 DEF Answers, Carried, IsCut
<1>8. Delivered' /\ Silence' /\ Closed'
  BY <1>1, <1>3, <1>5 DEF Answers, Delivered, Silence, Closed, Failed, IsCut
<1>9. QED  BY <1>3, <1>6, <1>7, <1>8 DEF Answers

LEMMA MergeAnswers ==
    ASSUME IInv, Answers, UNCHANGED shardOf, NEW i \in Shard, Merge(i)
    PROVE  Answers'
<1> DEFINE r == head[i][1]
<1>1. TypeOK /\ Departures(i) /\ ppc = "merge" /\ head[i] # <<>> /\ head[i] \in Seq(Record)
      /\ out \in Seq(Record)
  BY DEF IInv, TypeOK, Merge, Due
<1>2. /\ UNCHANGED <<shardOf, input, live, shard, toChild, fromChild, ppc, code>>
      /\ head'[i] = <<>> /\ out' = Append(out, r)
      /\ \A j \in Shard : j # i => head'[j] = head[j]
  BY <1>1 DEF Merge, Writes, childVars, TypeOK
<1>3. r \in Record /\ 1 \in 1..Len(head[i]) /\ ToSet(head[i]) = {r}
  <2>1. Len(head[i]) <= 1
    BY <1>1 DEF Departures
  <2>2. QED  BY <1>1, <2>1, OneElement
<1>4. IsCut(r) => Failed
  BY <1>1, <1>3 DEF Departures, WholeOrDead, IsCut, Failed
<1> HIDE DEF r
<1>5. ToSet(head[i]) = {r}
  BY <1>3
<1>6. ToSet(out') = ToSet(out) \cup {r}
  BY <1>1, <1>2, <1>3, ElementsAppend
<1>7. InFlight(i) = InFlight(i)' \cup {r}
  BY <1>2, <1>5, ElementsFew DEF InFlight
<1>8. Answered' = Answered /\ \A j \in Shard : j # i => InFlight(j)' = InFlight(j)
  BY <1>2 DEF Answered, InFlight
<1>9. r \in Answered \/ IsCut(r)
  BY <1>7 DEF Answers, Carried
<1>10. \A j \in Shard : Carried(j)'
  BY <1>2, <1>6, <1>7, <1>8 DEF Answers, Carried, IsCut
<1>11. Delivered'
  BY <1>2, <1>4, <1>6, <1>8, <1>9 DEF Answers, Delivered, Failed, IsCut
<1>12. \A j \in Shard : Fed(j)'
  BY <1>2, StillFed DEF Answers
<1>13. Silence' /\ Closed'
  BY <1>1, <1>2 DEF Answers, Silence, Closed
<1>14. QED  BY <1>2, <1>10, <1>11, <1>12, <1>13 DEF Answers

LEMMA ParentAnswers ==
    ASSUME IInv, Answers, ParentRuns \/ ParentFails
    PROVE  Answers'
<1>1. UNCHANGED shardOf /\ TypeOK
  BY DEF ParentRuns, ParentFails, IInv
<1>2. CASE Fork
  BY <1>1, <1>2, ForkAnswers
<1>3. CASE Feed
  BY <1>1, <1>3, FeedAnswers
<1>4. ASSUME NEW i \in Shard, Pull(i) \/ PullEnd(i) \/ Merge(i)
      PROVE  Answers'
  <2>1. CASE PullEnd(i)
    <3>1. /\ UNCHANGED <<shardOf, input, head, out, shard, toChild, fromChild, ppc, code>>
          /\ live' = live \ {i} /\ ppc = "merge"
      BY <1>1, <2>1 DEF PullEnd, Reads, childVars
    <3>2. Answered' = Answered /\ \A j \in Shard : InFlight(j)' = InFlight(j)
      BY <3>1 DEF Answered, InFlight
    <3>3. \A j \in Shard : Fed(j)' /\ Carried(j)'
      BY <3>1, <3>2, StillFed DEF Answers, Carried, IsCut
    <3>4. Delivered' /\ Silence' /\ Closed'
      BY <3>1, <3>2 DEF Answers, Delivered, Silence, Closed, Failed, IsCut
    <3>5. QED  BY <3>1, <3>3, <3>4 DEF Answers
  <2>2. QED  BY <1>1, <1>4, <2>1, PullAnswers, MergeAnswers
<1>5. CASE \E gap \in Gaps, u \in Users, b \in Sizes, p \in Paths : NextLine(gap, u, b, p)
  <2>1. UNCHANGED <<shardOf, ppc, input, live, head, out, code, shard, toChild, fromChild>>
    BY <1>1, <1>5 DEF NextLine, mergeVars, childVars
  <2>2. Closed'
    BY <2>1 DEF Answers, Closed
  <2>3. QED  BY <1>1, <2>1, <2>2, LoopAnswers
<1>6. CASE EndOfInput \/ CloseWriter \/ MergeEnds \/ WaitShard \/ Return \/ Raises \/ ParentFails
  <2>1. UNCHANGED <<shardOf, input, live, head, out, shard, toChild, fromChild>>
    BY <1>1, <1>6 DEF EndOfInput, CloseWriter, MergeEnds, WaitShard, Return, Raises, ParentFails,
                      ExitsWith, mergeVars, childVars
  <2>2. ppc' \notin {"fork", "feed"}
    BY <1>6 DEF EndOfInput, CloseWriter, MergeEnds, WaitShard, Return, Raises, ParentFails,
                ExitsWith, Loop
  <2>3. Closed'
    BY <1>6, <2>1 DEF Answers, Closed, EndOfInput, CloseWriter, MergeEnds, WaitShard, Return,
                      Raises, ParentFails, ExitsWith, Loop
  <2>4. QED  BY <1>1, <2>1, <2>2, <2>3, LoopAnswers
<1>7. QED  BY <1>2, <1>3, <1>4, <1>5, <1>6 DEF ParentRuns

LEMMA InitAnswers == Init => Answers
<1> SUFFICES ASSUME Init PROVE Answers
  OBVIOUS
<1>1. /\ input = <<>> /\ out = <<>> /\ ppc = "fork" /\ code = -1
      /\ \A i \in Shard : /\ shard[i].step = "unborn" /\ shard[i].users = {}
                          /\ shard[i].done = {} /\ shard[i].lines = <<>>
                          /\ toChild[i] = <<>> /\ fromChild[i] = <<>> /\ head[i] = <<>>
  BY DEF Init, Process
<1>2. Stream(input) /\ Stream(<<>>)
  BY <1>1 DEF Stream
<1>3. ASSUME NEW i \in Shard
      PROVE  Fed(i)
  <2> DEFINE none == <<>>
  <2>1. none \in Seq(Event) /\ none \o toChild[i] = <<>>
    BY <1>1
  <2>2. OfShard(i) = {} /\ Latest({}) = {} /\ Past({}) = {}
    BY <1>1, NoSessions DEF OfShard, Latest, Past
  <2>3. OracleSessions(<<>>, IdleMs) = {}
    BY NoSessions
  <2>4. Len(none) = 0
    OBVIOUS
  <2>5. FedWith(i, none)
    <3>1. OfShard(i) = {} /\ shard[i].users = {} /\ shard[i].done = {}
      BY <1>1, <2>2
    <3>2. \A n \in 1..Len(none) : none[n].ts <= LastTs
      BY <2>4
    <3> HIDE DEF none
    <3>3. /\ OracleSessions(none, IdleMs) = {} /\ Stream(none)
          /\ {RecordOf(s) : s \in Past({})} = {}
      BY <1>2, <2>2, <2>3 DEF none
    <3>4. none \o toChild[i] = none
      BY <2>1 DEF none
    <3>5. QED  BY <2>2, <3>1, <3>2, <3>3, <3>4 DEF FedWith
  <2>6. QED  BY <2>1, <2>5 DEF Fed
<1>4. \A i \in Shard : InFlight(i) = {}
  BY <1>1, ElementsFew DEF InFlight
<1>5. \A i \in Shard : Carried(i)
  BY <1>1, <1>4 DEF Carried
<1>6. Delivered /\ Silence /\ Closed
  BY <1>1, <1>4, ElementsFew DEF Delivered, Silence, Closed
<1>7. QED  BY <1>2, <1>3, <1>5, <1>6 DEF Answers

LEMMA StepAnswers == IInv /\ Answers /\ [Next]_vars => Answers'
<1> SUFFICES ASSUME IInv, Answers, [Next]_vars PROVE Answers'
  OBVIOUS
<1>1. CASE UNCHANGED vars
  <2>1. UNCHANGED <<shardOf, ppc, input, live, head, out, code, shard, toChild, fromChild>>
    BY <1>1 DEF vars, parentVars, mergeVars, childVars
  <2>2. TypeOK /\ Closed'
    BY <2>1 DEF IInv, Answers, Closed
  <2>3. QED  BY <2>1, <2>2, LoopAnswers
<1>2. QED  BY <1>1, ParentAnswers, ChildAnswers DEF Next

\* A written record of the answer is one of the sequence the oracle returns.
LEMMA AnsweredIsRight ==
    ASSUME TypeOK, Stream(input), NEW r \in Answered
    PROVE  r \in ToSet(Oracle(input, IdleMs))
<1>1. input \in Seq(Event) /\ \A n \in 1..Len(input) : input[n].user \in Nat
  BY InputBefore
<1>2. IdleMs \in Nat
  BY SessionAssumption
<1>3. QED  BY <1>1, <1>2, OracleCovers DEF Answered

\* With exit status 0 the output has every record of the answer, once, in order.
LEMMA AllDelivered ==
    ASSUME IInv, Answers, code = 0
    PROVE  out = Oracle(input, IdleMs)
<1>1. /\ TypeOK /\ Stream(input) /\ Increasing(out) /\ ppc = "exited" /\ live = {}
      /\ \A i \in Shard : shard[i].step = "exit0"
      /\ out \in Seq(Record)
  BY DEF IInv, Answers, Closed, Status, TypeOK
<1>2. /\ input \in Seq(Event) /\ \A n \in 1..Len(input) : input[n].user \in Nat
      /\ IdleMs \in Nat
  BY <1>1, InputBefore, SessionAssumption
<1>3. \A i \in Shard : InFlight(i) = {}
  <2> TAKE i \in Shard
  <2>1. Phases(i)
    BY DEF IInv
  <2>2. shard[i].lines = <<>> /\ fromChild[i] = <<>> /\ head[i] = <<>>
    BY <1>1, <2>1 DEF Phases
  <2>3. QED  BY <2>2, ElementsFew DEF InFlight
<1>4. \A r \in ToSet(out) : r \in Answered
  BY <1>1 DEF Answers, Delivered, Failed
<1>5. \A r \in Answered : r \in ToSet(out)
  <2> TAKE r \in Answered
  <2>1. PICK s \in OracleSessions(input, IdleMs) : r = RecordOf(s)
    BY DEF Answered, OracleRecords
  <2>2. PICK n \in 1..Len(input) : s.user = input[n].user
    BY <1>1, <1>2, SessionsAre
  <2>3. input[n] \in Event
    BY <1>2
  <2>4. r.user \in Users
    BY <2>1, <2>2, <2>3 DEF RecordOf, Event
  <2>5. shardOf[r.user] \in Shard
    BY <1>1, <2>4 DEF TypeOK
  <2>6. QED  BY <1>1, <1>3, <2>5 DEF Answers, Carried
<1>6. /\ DOMAIN out = 1..Len(out) /\ Len(out) \in Nat
      /\ ToSet(out) = {out[n] : n \in 1..Len(out)}
      /\ \A n \in 1..Len(out) : out[n] \in Record
  BY <1>1 DEF ToSet
<1>7. \A m, n \in 1..Len(out) : m < n => EndsFirst(out[m], out[n])
  BY <1>1 DEF Increasing, Before, EndsFirst
<1>8. Distinct(out, Len(out))
  <2>1. \A n \in 1..Len(out) : out[n].end_ts \in Nat /\ out[n].user \in Nat
    BY <1>6, RecordKey
  <2>2. \A m, n \in 1..Len(out) : m < n => out[m] # out[n]
    BY <1>7, <2>1 DEF EndsFirst
  <2>3. QED  BY <1>6, <2>2 DEF Distinct
<1>9. Cardinality(Answered) = Len(out)
  <2>1. Answered = {out[n] : n \in 1..Len(out)}
    BY <1>4, <1>5, <1>6
  <2>2. Cardinality({out[n] : n \in 1..Len(out)}) = Len(out)
    BY <1>6, <1>8, CountDistinct
  <2>3. QED  BY <2>1, <2>2
<1>10. FirstRecords(out, Len(out), input, IdleMs)
  <2>1. \A r \in Answered : \E n \in 1..Len(out) : r = out[n]
    BY <1>5, <1>6
  <2>2. \A n \in 1..Len(out) : out[n] \in Answered
    BY <1>4, <1>6
  <2>3. QED  BY <1>7, <2>1, <2>2 DEF FirstRecords, Answered
<1>11. /\ Oracle(input, IdleMs) = [n \in 1..Len(out) |-> Oracle(input, IdleMs)[n]]
       /\ \A n \in 1..Len(out) : Oracle(input, IdleMs)[n] = out[n]
  <2>1. IdleMs \in Int
    BY <1>2
  <2>2. QED  BY <1>1, <1>2, <1>6, <1>9, <1>10, <2>1, OracleBegins DEF Answered
<1>12. out = [n \in 1..Len(out) |-> out[n]]
  BY <1>1
<1>13. QED  BY <1>11, <1>12

-----------------------------------------------------------------------------
(* The theorems *)

LEMMA InitSafe == Init => IInv
<1> SUFFICES ASSUME Init PROVE IInv
  OBVIOUS
<1>1. 0 \in 0..(Shards - 1) /\ 1 \in Shard
  BY ForkSpreadAssumption DEF Shard
<1>2. \A i \in Shard : shard[i] = Process("unborn", <<>>) /\ toChild[i] = <<>>
                       /\ fromChild[i] = <<>> /\ head[i] = <<>> /\ i \in live
  BY DEF Init
<1>3. TypeOK
  <2>1. Process("unborn", <<>>) \in [step : Steps, users : SUBSET Session,
                                     done : SUBSET Record, lines : Seq(Record)]
    BY DEF Process, Steps
  <2>2. QED  BY <1>1, <2>1 DEF Init, TypeOK
<1>4. \A i \in Shard : Memory(i) /\ Arrivals(i) /\ Departures(i) /\ Phases(i)
  <2> TAKE i \in Shard
  <2>1. /\ shard[i].step = "unborn" /\ shard[i].users = {} /\ shard[i].done = {}
        /\ shard[i].lines = <<>>
    BY <1>2 DEF Process
  <2>2. Memory(i)
    <3>1. Accumulated(i) = {}
      BY <2>1 DEF Accumulated
    <3>2. IsFiniteSet(Accumulated(i))
      BY <3>1, FS_EmptySet
    <3>3. QED  BY <2>1, <3>2 DEF Memory
  <2>3. Arrivals(i)
    BY <1>2, <2>1 DEF Arrivals
  <2>4. Departures(i)
    BY <1>2, <2>1 DEF Departures, Increasing, Below, Own, WholeOrDead
  <2>5. Phases(i)
    BY <1>2, <2>1 DEF Phases, Init
  <2>6. QED  BY <2>2, <2>3, <2>4, <2>5
<1>5. (\A i \in Shard : Merged(i)) /\ Increasing(out)
  BY DEF Init, Merged, Below, Increasing
<1>6. \A i \in Shard : Progress(i)
  <2> TAKE i \in Shard
  <2>1. 0 < i
    BY DEF Shard
  <2>2. QED  BY <1>2, <2>1 DEF Progress, Init, Process
<1>7. Ahead /\ Status
  BY DEF Ahead, Status, Init
<1>8. QED  BY <1>3, <1>4, <1>5, <1>6, <1>7 DEF IInv

LEMMA StepSafe == IInv /\ [Next]_vars => IInv'
<1> SUFFICES ASSUME IInv, [Next]_vars PROVE IInv'
  OBVIOUS
<1>1. /\ TypeOK /\ Increasing(out) /\ Ahead /\ Status
      /\ \A i \in Shard : Safe(i) /\ Progress(i)
  BY DEF IInv, Safe
<1>2. CASE ParentRuns \/ ParentFails
  <2>1. TypeOK'
    BY <1>1, <1>2, ParentType
  <2>2. (\A i \in Shard : Safe(i)') /\ Increasing(out)'
    BY <1>1, <1>2, ParentSafe
  <2>3. (\A i \in Shard : Progress(i)') /\ Status'
    BY <1>1, <1>2, ParentProgress
  <2>4. Ahead'
    BY <1>1, <1>2, ParentAhead
  <2>5. QED  BY <2>1, <2>2, <2>3, <2>4 DEF IInv, Safe
<1>3. ASSUME NEW i \in Shard, ShardRuns(i) \/ ShardDies(i)
      PROVE  IInv'
  <2>1. TypeOK'
    BY <1>1, <1>3, ChildType DEF Safe
  <2>2. \A j \in Shard : Safe(j)'
    BY <1>1, <1>3, ChildSafe
  <2>3. Increasing(out)'
    BY <1>1, <1>3 DEF ShardRuns, ShardDies, parentVars, mergeVars, Increasing
  <2>4. (\A j \in Shard : Progress(j)') /\ Status'
    BY <1>1, <1>3, ChildProgress
  <2>5. Ahead'
    BY <1>1, <1>3 DEF ShardRuns, ShardDies, parentVars, Ahead, LastTs
  <2>6. QED  BY <2>1, <2>2, <2>3, <2>4, <2>5 DEF IInv, Safe
<1>4. CASE UNCHANGED vars
  <2>1. UNCHANGED <<shardOf, ppc, k, pending, input, live, head, out, bad, code, shard,
                    inherited, toChild, fromChild>>
    BY <1>4 DEF vars, parentVars, mergeVars, childVars
  <2>2. TypeOK'
    BY <1>1, <2>1 DEF TypeOK
  <2>3. \A i \in Shard : Safe(i)'
    BY <1>1, <2>1, Untouched
  <2>4. (\A i \in Shard : Progress(i)') /\ Status' /\ Ahead' /\ Increasing(out)'
    BY <1>1, <2>1 DEF Progress, Ended, Status, Failures, Ahead, LastTs, Increasing
  <2>5. QED  BY <2>2, <2>3, <2>4 DEF IInv, Safe
<1>5. QED  BY <1>2, <1>3, <1>4 DEF Next

\* The inductive invariant holds of every run, whichever processes fail.
THEOREM Invariance == Spec => []IInv
BY InitSafe, StepSafe, PTL DEF Spec

\* Every variable keeps its type: what is in a pipe on its way in is an event,
\* on its way out a record.
THEOREM TypeCorrect == Spec => []TypeOK
<1>1. IInv => TypeOK
  BY DEF IInv
<1>2. QED  BY <1>1, Invariance, PTL

\* Whatever fails and whenever, any shard and the parent itself, the parent ends
\* with 0 only when every shard was forked and ended with 0, and the number of
\* failed shards that main prints is the number that failed.
THEOREM ExitCodeIsHonest == Spec => []ExitCodeHonest
<1>1. IInv => ExitCodeHonest
  <2>1. Failures(Shards) = {i \in Shard : shard[i].step = "exit1"}
    BY DEF Failures, Shard
  <2>2. QED  BY <2>1 DEF IInv, Status, ExitCodeHonest
<1>2. QED  BY <1>1, Invariance, PTL

\* The merge writes records in (end_ts, user) order for any number of shards and
\* any interleaving of them, failed ones included.
THEOREM OutputIsInOrder == Spec => []OutputInOrder
<1>1. IInv => OutputInOrder
  BY DEF IInv, Increasing, OutputInOrder
<1>2. QED  BY <1>1, Invariance, PTL

\* So does what relates the processes to the oracle of the tests.
THEOREM AnswersInvariance == Spec => []Answers
<1>1. Init => Answers
  BY InitAnswers
<1>2. IInv /\ Answers /\ [Next]_vars => Answers'
  BY StepAnswers
<1>3. QED  BY <1>1, <1>2, Invariance, PTL DEF Spec

\* Nothing the parent ever writes is wrong, up to a line that a kill cut short:
\* each record is a session of the whole input, with all its events, counted
\* once, for any number of shards and whichever of them fail.
THEOREM OutputIsNeverWrong == Spec => []OutputNeverWrong
<1>1. IInv /\ Answers => OutputNeverWrong
  <2> SUFFICES ASSUME IInv, Answers, NEW n \in 1..Len(out), ~IsCut(out[n])
               PROVE  out[n] \in ToSet(Oracle(input, IdleMs))
    BY DEF OutputNeverWrong, IInv, TypeOK
  <2>1. TypeOK /\ Stream(input) /\ Delivered
    BY DEF IInv, Answers
  <2>2. out[n] \in ToSet(out)
    BY <2>1 DEF TypeOK, ToSet
  <2>3. out[n] \in Answered
    BY <2>1, <2>2 DEF Delivered
  <2>4. QED  BY <2>1, <2>3, AnsweredIsRight
<1>2. QED  BY <1>1, Invariance, AnswersInvariance, PTL

\* Exit status 0 means the output is the oracle's answer to the whole input, no
\* record missing, in the oracle's order: for every sharding of the users, pipes
\* of every capacity and every schedule.
THEOREM ExitZeroMeansAnswer == Spec => []ExitZeroIsAnswer
<1>1. IInv /\ Answers => ExitZeroIsAnswer
  BY AllDelivered DEF ExitZeroIsAnswer
<1>2. QED  BY <1>1, Invariance, AnswersInvariance, PTL

=============================================================================
