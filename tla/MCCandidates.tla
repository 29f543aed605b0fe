---------------------------- MODULE MCCandidates ----------------------------
(* Model checking Candidates against the oracle of the tests. *)
EXTENDS Candidates, SessionOracle

Right == Oracle(input, IdleMs)

\* m03's key, and m12's within one closing batch.
StartsFirst(r, s) ==
    \/ r.start_ts < s.start_ts
    \/ r.start_ts = s.start_ts /\ r.user < s.user

Close(r) == CloseIndex(input, IdleMs, r)

ClosesFirst(r, s) ==
    \/ Close(r) < Close(s)
    \/ Close(r) = Close(s) /\ r.user < s.user

\* The right answer with its lines in another order.
Reordered(order(_, _)) ==
    LET R == OracleRecords(input, IdleMs)
    IN  InOrder(R, {p \in R \X R : order(p[1], p[2])})

\* What each docstring says its candidate answers, as a change of the right
\* answer.  The silent ones are not asked for one.
Answer ==
    LET right == Right
        All(F(_)) == [i \in 1..Len(right) |-> F(right[i])]
    IN  CASE candidate = "m03" -> Reordered(StartsFirst)
          [] candidate = "m12" -> Reordered(ClosesFirst)
          [] candidate = "m04" -> Oracle(input, IdleMs - 1)
          [] candidate = "m05" -> All(LAMBDA r : [r EXCEPT !.paths = r.events])
          [] candidate = "m06" -> All(LAMBDA r : [r EXCEPT !.bytes = Float(@)])
          [] OTHER -> right

\* At every point of every input, what a candidate has written is a prefix of
\* its answer to the events read so far, and the sessions missing from it are
\* the ones it holds; at the end it holds none.  The reference, m01, m02 and
\* m09 answer what tests/test_reference.py expects.
AgreesWithOracle ==
    LET answer == Answer
    IN  candidate \notin Silent =>
          /\ IsPrefix(out, answer)
          /\ Len(answer) = Len(out) + Len(open_s) + Len(closed)

\* Two events of one user with no gap over IdleMs at or between them.
SameSession(i, j) ==
    /\ input[i].user = input[j].user
    /\ \A m \in (i + 1)..j :
          input[m].user = input[i].user =>
              \E n \in i..(m - 1) : /\ input[n].user = input[i].user
                                    /\ input[m].ts - input[n].ts <= IdleMs

\* The inputs on which a candidate is wrong: what the generator must produce
\* for its row of the matrix to test anything.
Provoked ==
    LET right == Right
        Inverted(order(_, _)) ==
            \E i, j \in 1..Len(right) : i < j /\ order(right[j], right[i])
    IN  CASE candidate = "m04" ->
               \E i, j \in 1..Len(input) :
                  /\ i < j /\ input[i].user = input[j].user
                  /\ input[j].ts - input[i].ts = IdleMs
                  /\ \A m \in (i + 1)..(j - 1) : input[m].user # input[i].user
          [] candidate = "m05" ->
               \E i, j \in 1..Len(input) :
                  i < j /\ SameSession(i, j) /\ input[i].path = input[j].path
          [] candidate = "m12" -> Inverted(ClosesFirst)
          [] candidate = "m03" -> Inverted(StartsFirst)
          [] candidate \in {"m06", "m07", "m11"} -> input # <<>>
          [] candidate = "m08" -> TRUE
          [] OTHER -> FALSE

\* A candidate is wrong on exactly the inputs that provoke it, and then in the
\* way verify.py declares, whatever max_report is: a "silent" one at its first
\* line, missing or no record; the others without a line missing or unreadable,
\* for then _compare reports records that differ or are too many, "answer".
FailsAsDeclared ==
    LET right == Right
    IN  done =>
          /\ out # right <=> Provoked
          /\ IF candidate \in Silent
               THEN right # <<>> => out = <<>> \/ out[1] = NoRecord
               ELSE Len(out) >= Len(right) /\ NoRecord \notin ToSet(out)

=============================================================================
