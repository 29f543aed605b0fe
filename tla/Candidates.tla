----------------------------- MODULE Candidates -----------------------------
(***************************************************************************)
(* The candidates of mutants/ that run as one process, beside the          *)
(* reference.  Most are the streaming sessionizer with one rule changed    *)
(* (m02, m03, m04, m05, m06, m12); m01 and m09 keep one session for every  *)
(* user and sort at the end; m07, m08 and m11 never look at an event.      *)
(* m10 is ForkSpread.  What m09 tries on its limits is in Sandbox.         *)
(*                                                                         *)
(* open_s is the candidate's dict of sessions, out the lines it has        *)
(* written.  m11 does not read its input: for it, input is what the file   *)
(* holds, and the search it makes finds no answer.                         *)
(***************************************************************************)
EXTENDS Sessionizer

VARIABLES
    candidate,   \* which one runs
    closed,      \* sessions closed and kept for a sort at the end
    seen         \* m02's ever_seen

candidateVars == <<vars, candidate, closed, seen>>

Streaming == {"reference", "m02", "m03", "m04", "m05", "m06", "m12"}
Hoarding  == {"m01", "m09"}
Silent    == {"m07", "m08", "m11"}

\* The float of n, which no int equals: norm keeps "1234.0" and "1234" apart.
Float(n) == -1 - n

\* A line that is no record, "PASS" for instance: no session has 0 events.
NoRecord == [user |-> 0, start_ts |-> 0, end_ts |-> 0, events |-> 0, bytes |-> 0,
             paths |-> 0]

Line == [user : Users, start_ts : Nat, end_ts : Nat, events : Nat, bytes : Int, paths : Nat]
          \cup {NoRecord}

CandidateTypeOK ==
    /\ candidate \in Streaming \cup Hoarding \cup Silent
    /\ input \in Seq(Event)
    /\ watermark \in Nat
    /\ open_s \in Seq(Session)
    /\ closed \in Seq(Session)
    /\ seen \subseteq Users
    /\ out \in Seq(Line)
    /\ done \in BOOLEAN

CandidateInit ==
    /\ Init
    /\ candidate \in Streaming \cup Hoarding \cup Silent
    /\ closed = <<>>
    /\ seen = {}

-----------------------------------------------------------------------------
(* The rules that differ *)

\* MUTANT of Over: m04 without its mutation.
OverForAll(s, w) == Expired(s, w)

\* m04 ends a session at a gap of IdleMs, the others after it.
Over(s, w) ==
    IF candidate = "m04" THEN ExpiredAtBoundary(s, w) ELSE Expired(s, w)

\* _emit, patched by m05 and m06.
Written(s) ==
    [Emit(s) EXCEPT !.paths = IF candidate = "m05" THEN s.n_events ELSE @,
                    !.bytes = IF candidate = "m06" THEN Float(@) ELSE @]

\* The key of the candidate's sort: m03 by (start_ts, user), m12 by
\* (user, last_ts), the others by (last_ts, user).
Precedes(r1, r2) ==
    CASE candidate = "m03" -> \/ r1.start_ts < r2.start_ts
                              \/ r1.start_ts = r2.start_ts /\ r1.user < r2.user
      [] candidate = "m12" -> \/ r1.user < r2.user
                              \/ r1.user = r2.user /\ r1.end_ts < r2.end_ts
      [] OTHER             -> Before(r1, r2)

\* The sessions of q are sorted and written.
WritesSorted(q) ==
    \E p \in Bijection(1..Len(q), 1..Len(q)) :
        LET batch == [i \in 1..Len(q) |-> Written(q[p[i]])]
        IN  /\ \A i, j \in 1..Len(q) : i < j => ~Precedes(batch[j], batch[i])
            /\ out' = out \o batch

-----------------------------------------------------------------------------
(* The streaming candidates *)

\* The while loop of flush pops the first k sessions.
Pops(w, k) ==
    /\ \A i \in 1..k : Over(open_s[i], w)
    /\ k < Len(open_s) => ~Over(open_s[k + 1], w)

Popped(k) == SubSeq(open_s, 1, k)

\* flush(w): the batch is written, or kept by m03.
FlushBatch(w, k) ==
    /\ Pops(w, k)
    /\ IF candidate = "m03"
         THEN closed' = closed \o Popped(k) /\ UNCHANGED out
         ELSE WritesSorted(Popped(k)) /\ UNCHANGED closed

\* MUTANT of StreamEvent: m02 forgets the users that are no longer open.
StreamEventForgets(e) ==
    /\ candidate \in Streaming
    /\ \E k \in 0..Len(open_s) :
          /\ FlushBatch(e.ts, k)
          /\ \/ StartSession(Remaining(k), e)
             \/ ExtendSession(Remaining(k), e)
          /\ seen' = IF candidate = "m02"
                       THEN {e.user} \cup {Remaining(k)[i].user : i \in 1..Len(Remaining(k))}
                       ELSE {}

StreamEvent(e) ==
    /\ candidate \in Streaming
    /\ \E k \in 0..Len(open_s) :
          /\ FlushBatch(e.ts, k)
          /\ \/ StartSession(Remaining(k), e)
             \/ ExtendSession(Remaining(k), e)
    /\ seen' = IF candidate = "m02" THEN seen \cup {e.user} ELSE seen

\* flush(float("inf")); m03 then sorts what it kept.
StreamEnd ==
    /\ candidate \in Streaming
    /\ \E k \in 0..Len(open_s) :
          /\ Pops(Infinity, k)
          /\ open_s' = Remaining(k)
          /\ WritesSorted(closed \o Popped(k))
    /\ closed' = <<>>
    /\ UNCHANGED seen

-----------------------------------------------------------------------------
(* The candidates that accumulate *)

\* The user's session is closed when idle, then begun anew in its place.
HoardEvent(e) ==
    /\ candidate \in Hoarding
    /\ \/ StartSession(open_s, e) /\ UNCHANGED closed
       \/ \E i \in Found(open_s, e.user) :
             LET idle == e.ts - open_s[i].last_ts > IdleMs
             IN  /\ open_s' = [open_s EXCEPT ![i] = IF idle THEN NewSession(e)
                                                    ELSE Extended(@, e)]
                 /\ closed' = IF idle THEN Append(closed, open_s[i]) ELSE closed
    /\ UNCHANGED <<out, seen>>

\* MUTANT of HoardEnd: the sessions still open are forgotten.
HoardEndClosedOnly ==
    /\ candidate \in Hoarding
    /\ WritesSorted(closed)
    /\ open_s' = <<>>
    /\ closed' = <<>>
    /\ UNCHANGED seen

HoardEnd ==
    /\ candidate \in Hoarding
    /\ WritesSorted(closed \o open_s)
    /\ open_s' = <<>>
    /\ closed' = <<>>
    /\ UNCHANGED seen

-----------------------------------------------------------------------------
(* The candidates that only end *)

IgnoreEvent(e) ==
    /\ candidate \in Silent
    /\ UNCHANGED <<open_s, closed, seen, out>>

SilentEnd ==
    /\ candidate \in Silent
    /\ out' = IF candidate = "m08" THEN <<NoRecord, NoRecord>> ELSE <<>>
    /\ UNCHANGED <<open_s, closed, seen>>

-----------------------------------------------------------------------------
NextEvent(gap, u, b, p) ==
    LET e == [ts |-> watermark + gap, user |-> u, bytes |-> b, path |-> p]
    IN  /\ ~done
        /\ Len(input) < MaxEvents
        /\ input' = Append(input, e)
        /\ watermark' = e.ts
        /\ StreamEvent(e) \/ HoardEvent(e) \/ IgnoreEvent(e)
        /\ UNCHANGED <<candidate, done>>

\* MUTANT of EndOfInput: the infinite watermark is kept as a timestamp.
EndOfInputKeepsInfinity ==
    /\ ~done
    /\ StreamEnd \/ HoardEnd \/ SilentEnd
    /\ done' = TRUE
    /\ watermark' = Infinity
    /\ UNCHANGED <<candidate, input>>

EndOfInput ==
    /\ ~done
    /\ StreamEnd \/ HoardEnd \/ SilentEnd
    /\ done' = TRUE
    /\ UNCHANGED <<candidate, input, watermark>>

Exited == done /\ UNCHANGED candidateVars

CandidateNext ==
    \/ \E gap \in Gaps, u \in Users, b \in Sizes, p \in Paths : NextEvent(gap, u, b, p)
    \/ EndOfInput
    \/ Exited

CandidateSpec == CandidateInit /\ [][CandidateNext]_candidateVars

-----------------------------------------------------------------------------
(* Safety *)

\* The users some structure of the candidate holds something of.
Held ==
    seen \cup {open_s[i].user : i \in 1..Len(open_s)}
         \cup {closed[i].user : i \in 1..Len(closed)}

SeenUsers(n) == {input[i].user : i \in {m \in 1..Len(input) : input[m].ts >= n}}

\* What the ceiling separates, whatever the order of events: the candidates
\* that verify.py declares to fail by "memory" hold something of every user
\* they have met, also m02, whose dict is as bounded as the reference's; those
\* that are to fail otherwise hold nothing but the users of the last IdleMs.
HeldAsDeclared ==
    LET wanted == IF candidate \in {"m01", "m02", "m03", "m09"} THEN SeenUsers(0)
                  ELSE IF candidate \in Silent THEN {}
                  ELSE IF candidate = "m04" THEN SeenUsers(watermark - IdleMs + 1)
                  ELSE SeenUsers(watermark - IdleMs)
    IN  ~done => Held = wanted

=============================================================================
