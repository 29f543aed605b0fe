--------------------------- MODULE SessionOracle ----------------------------
(***************************************************************************)
(* The brute-force oracle of tests/test_reference.py: group the events by  *)
(* user, split each group at gaps over idle, and sort the sessions by the  *)
(* index of the event that closes them, then (last, user).  It needs the   *)
(* whole input and no state.  A session has the fields of Sessions.        *)
(***************************************************************************)
EXTENDS Integers, FiniteSets, SequencesExt

\* by_user[u]: the indices of u's events.
ByUser(evs, u) == {i \in 1..Len(evs) : evs[i].user = u}

\* The loop starts a session at i unless u's event before i is within idle.
Starts(evs, idle, i) ==
    LET earlier == {j \in ByUser(evs, evs[i].user) : j < i}
    IN  earlier # {} => evs[i].ts - evs[Max(earlier)].ts > idle

\* The events of the session that starts at i: up to the user's next start.
Members(evs, idle, i) ==
    {j \in ByUser(evs, evs[i].user) :
        /\ j >= i
        /\ \A n \in ByUser(evs, evs[i].user) : i < n /\ n <= j => ~Starts(evs, idle, n)}

\* The bytes of the events in m.
BytesOf(evs, m) ==
    LET total[n \in 0..Len(evs)] ==
          IF n = 0 THEN 0
          ELSE total[n - 1] + IF n \in m THEN evs[n].bytes ELSE 0
    IN  total[Len(evs)]

SessionAt(evs, idle, i) ==
    LET m == Members(evs, idle, i)
    IN  [user |-> evs[i].user, start_ts |-> evs[i].ts, last_ts |-> evs[Max(m)].ts,
         n_events |-> Cardinality(m), total_bytes |-> BytesOf(evs, m),
         paths |-> {evs[j].path : j \in m}]

OracleSessions(evs, idle) ==
    {SessionAt(evs, idle, i) : i \in {n \in 1..Len(evs) : Starts(evs, idle, n)}}

\* The record a session is returned as.
RecordOf(s) ==
    [user |-> s.user, start_ts |-> s.start_ts, end_ts |-> s.last_ts,
     events |-> s.n_events, bytes |-> s.total_bytes, paths |-> Cardinality(s.paths)]

\* The first event later than the session's end by more than idle; the end of
\* the stream, Len(evs) + 1, when there is none.
CloseIndex(evs, idle, r) ==
    Min({i \in 1..Len(evs) : evs[i].ts > r.end_ts + idle} \cup {Len(evs) + 1})

\* The sort key (close_index, last, user).
ClosesBefore(evs, idle, r1, r2) ==
    LET c1 == CloseIndex(evs, idle, r1)
        c2 == CloseIndex(evs, idle, r2)
    IN  \/ c1 < c2
        \/ c1 = c2 /\ r1.end_ts < r2.end_ts
        \/ c1 = c2 /\ r1.end_ts = r2.end_ts /\ r1.user < r2.user

\* The members of R in the strict order of the pairs in before: the k-th has
\* k - 1 members before it.
InOrder(R, before) ==
    [k \in 1..Cardinality(R) |->
        CHOOSE r \in R : Cardinality({s \in R : <<s, r>> \in before}) = k - 1]

OracleRecords(evs, idle) == {RecordOf(s) : s \in OracleSessions(evs, idle)}

Oracle(evs, idle) ==
    LET R == OracleRecords(evs, idle)
    IN  InOrder(R, {p \in R \X R : ClosesBefore(evs, idle, p[1], p[2])})

=============================================================================
