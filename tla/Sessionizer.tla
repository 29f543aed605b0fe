---------------------------- MODULE Sessionizer -----------------------------
(***************************************************************************)
(* The streaming reference solution, sessionize in grader/reference.py.    *)
(*                                                                         *)
(* open_s is the OrderedDict of open sessions, as the sequence of its      *)
(* items in insertion order, so popitem(last=False) takes the head and     *)
(* move_to_end moves an item to the tail.  One ReadEvent action is one     *)
(* iteration of the loop over the input: the flush at the event's ts and   *)
(* the session the event opens or extends.  Finish is the flush at end of  *)
(* stream.                                                                 *)
(***************************************************************************)
EXTENDS Sessions, SequencesExt

CONSTANT MaxEvents   \* the longest input

ASSUME MaxEventsAssumption == MaxEvents \in Nat

VARIABLES
    input,      \* history: the events read so far
    watermark,  \* ts of the event read last
    open_s,     \* the OrderedDict, in insertion order
    out,        \* the records written
    done        \* sessionize has returned

vars == <<input, watermark, open_s, out, done>>

TypeOK ==
    /\ input \in Seq(Event)
    /\ watermark \in Nat
    /\ open_s \in Seq(Session)
    /\ out \in Seq(Record)
    /\ done \in BOOLEAN

Init ==
    /\ input = <<>>
    /\ watermark = 0
    /\ open_s = <<>>
    /\ out = <<>>
    /\ done = FALSE

-----------------------------------------------------------------------------
\* MUTANT of PopsReady: an `if` in place of the while loop.
PopsAtMostOne(w, k) ==
    /\ k = IF open_s # <<>> /\ Expired(Head(open_s), w) THEN 1 ELSE 0

\* flush(w).  The while loop pops the first k sessions and stops at the first
\* one that is not expired; ready.sort writes them in the order p.
PopsReady(w, k) ==
    /\ \A i \in 1..k : Expired(open_s[i], w)
    /\ k < Len(open_s) => ~Expired(open_s[k + 1], w)

\* MUTANT of WritesReady: the batch is not sorted.
WritesInPoppedOrder(k, p) ==
    out' = out \o [i \in 1..k |-> Emit(open_s[i])]

WritesReady(k, p) ==
    LET batch == [i \in 1..k |-> Emit(open_s[p[i]])]
    IN  /\ \A i, j \in 1..k : i < j => ~Before(batch[j], batch[i])
        /\ out' = out \o batch

Flush(w, k) ==
    /\ PopsReady(w, k)
    /\ \E p \in Bijection(1..k, 1..k) : WritesReady(k, p)

\* The sessions flush leaves open.
Remaining(k) == SubSeq(open_s, k + 1, Len(open_s))

\* The index of u's open session, as a set: empty when open_s.get(u) is None.
Found(q, u) == {i \in 1..Len(q) : q[i].user = u}

\* MUTANT of StartSession: the test for an open session is forgotten.
StartSessionAnew(q, e) ==
    open_s' = Append(SelectSeq(q, LAMBDA s : s.user # e.user), NewSession(e))

StartSession(q, e) ==
    /\ Found(q, e.user) = {}
    /\ open_s' = Append(q, NewSession(e))

\* MUTANT of ExtendSession: move_to_end is forgotten.
ExtendInPlace(q, e) ==
    \E i \in Found(q, e.user) : open_s' = [q EXCEPT ![i] = Extended(q[i], e)]

\* The session is updated in place and moved to the end.
ExtendSession(q, e) ==
    \E i \in Found(q, e.user) :
        open_s' = Append(RemoveAt(q, i), Extended(q[i], e))

ReadEvent(gap, u, b, p) ==
    LET e == [ts |-> watermark + gap, user |-> u, bytes |-> b, path |-> p]
    IN  /\ ~done
        /\ Len(input) < MaxEvents
        /\ input' = Append(input, e)
        /\ watermark' = e.ts
        /\ \E k \in 0..Len(open_s) :
              /\ Flush(e.ts, k)
              /\ \/ StartSession(Remaining(k), e)
                 \/ ExtendSession(Remaining(k), e)
        /\ UNCHANGED done

\* MUTANT of Finish: no flush at the end of the stream.
FinishWithoutFlush ==
    /\ ~done
    /\ open_s' = <<>>
    /\ done' = TRUE
    /\ UNCHANGED <<input, watermark, out>>

\* MUTANT of Finish: the infinite watermark is kept as that of the last event.
FinishKeepsInfinity ==
    /\ ~done
    /\ \E k \in 0..Len(open_s) :
          /\ Flush(Infinity, k)
          /\ open_s' = Remaining(k)
    /\ done' = TRUE
    /\ watermark' = Infinity
    /\ UNCHANGED input

\* End of stream: flush(float("inf")) and return.
Finish ==
    /\ ~done
    /\ \E k \in 0..Len(open_s) :
          /\ Flush(Infinity, k)
          /\ open_s' = Remaining(k)
    /\ done' = TRUE
    /\ UNCHANGED <<input, watermark>>

Terminated == done /\ UNCHANGED vars

Next ==
    \/ \E gap \in Gaps, u \in Users, b \in Sizes, p \in Paths : ReadEvent(gap, u, b, p)
    \/ Finish
    \/ Terminated

Spec == Init /\ [][Next]_vars

\* The process keeps running and its standard input is a file, which ends.
FairSpec == Spec /\ WF_vars(Next)

-----------------------------------------------------------------------------
(* Safety *)

\* The output is written in one global order, (end_ts, user), although each
\* flush sorts only its own batch.
OutputOrdered ==
    \A i, j \in 1..Len(out) : i < j => Before(out[i], out[j])

\* Bounded memory, the claim of the docstring: a user has an open session
\* exactly while an event of theirs is at most IdleMs behind the watermark, and
\* has only one.
OpenExactlyLive ==
    ~done =>
        /\ {open_s[i].user : i \in 1..Len(open_s)}
             = {input[n].user : n \in {m \in 1..Len(input) :
                                         input[m].ts + IdleMs >= watermark}}
        /\ \A i, j \in 1..Len(open_s) : open_s[i].user = open_s[j].user => i = j

\* Two sessions of one user are more than IdleMs apart, whether written or
\* still open: no session was cut while it could still be extended.
SessionsSeparated ==
    /\ \A i, j \in 1..Len(out) :
          i < j /\ out[i].user = out[j].user =>
              out[i].end_ts + IdleMs < out[j].start_ts
    /\ \A i \in 1..Len(out), j \in 1..Len(open_s) :
          out[i].user = open_s[j].user =>
              out[i].end_ts + IdleMs < open_s[j].start_ts

\* A record of the event's user covers its ts.
Reported(n) ==
    \E i \in 1..Len(out) :
        /\ out[i].user = input[n].user
        /\ out[i].start_ts <= input[n].ts
        /\ input[n].ts <= out[i].end_ts

\* No event is lost: a session of its user that is open or has been written
\* covers its ts.  At the end of the stream none is open.
EventsCovered ==
    \A n \in 1..Len(input) :
        \/ Reported(n)
        \/ \E j \in 1..Len(open_s) :
              /\ open_s[j].user = input[n].user
              /\ open_s[j].start_ts <= input[n].ts
              /\ input[n].ts <= open_s[j].last_ts

-----------------------------------------------------------------------------
(* Refinement and liveness *)

\* The streaming implementation implements the abstract sessionizer: the
\* sessions idle for too long are always a prefix of the OrderedDict, which is
\* what the early break of flush relies on.
Abstract == INSTANCE SessionSpec WITH live <- {open_s[i] : i \in 1..Len(open_s)},
                                      written <- out

RefinesSessionSpec == Abstract!SSpec

\* If the process keeps running, every event read is eventually reported.
EveryEventReported ==
    \A n \in 1..MaxEvents : (n <= Len(input)) ~> (n <= Len(input) /\ Reported(n))

=============================================================================
