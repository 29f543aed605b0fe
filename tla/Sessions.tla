------------------------------ MODULE Sessions ------------------------------
(***************************************************************************)
(* The data of the sessionizer in grader/reference.py: events, sessions    *)
(* and output records, and the operations on one session.  The streaming   *)
(* implementation (Sessionizer), its abstract specification (SessionSpec)  *)
(* and the brute-force oracle of the tests (SessionOracle) share it.       *)
(***************************************************************************)
EXTENDS Integers, Sequences, FiniteSets

CONSTANTS
    Users,    \* user ids; numbers stand for the strings, only their order matters
    Paths,    \* request paths
    Sizes,    \* values of an event's "bytes"
    Gaps,     \* differences between the ts of consecutive events
    IdleMs    \* the idle_ms parameter of sessionize

ASSUME SessionAssumption ==
    /\ Users \subseteq Nat
    /\ Sizes \subseteq Nat
    /\ Gaps \subseteq Nat         \* the input is ordered by non-decreasing ts
    /\ IdleMs \in Nat

\* float("inf"), the watermark of the end of the stream.
Infinity == -1

Event == [ts : Nat, user : Users, bytes : Sizes, path : Paths]

Session == [user : Users, start_ts : Nat, last_ts : Nat, n_events : Nat,
            total_bytes : Nat, paths : SUBSET Paths]

Record == [user : Users, start_ts : Nat, end_ts : Nat, events : Nat,
           bytes : Nat, paths : Nat]

\* open_s[user] = [ts, ts, 1, bytes, {path}]
NewSession(e) ==
    [user |-> e.user, start_ts |-> e.ts, last_ts |-> e.ts, n_events |-> 1,
     total_bytes |-> e.bytes, paths |-> {e.path}]

\* An event of a user whose session is open.
Extended(s, e) ==
    [user |-> s.user, start_ts |-> s.start_ts, last_ts |-> e.ts,
     n_events |-> s.n_events + 1, total_bytes |-> s.total_bytes + e.bytes,
     paths |-> s.paths \cup {e.path}]

\* MUTANT of Expired: mutants/m04_idle_off_by_one.py, >= for >.
ExpiredAtBoundary(s, watermark) ==
    watermark = Infinity \/ s.last_ts + IdleMs <= watermark

\* flush keeps a session while s[1] + idle_ms >= watermark.
Expired(s, watermark) ==
    watermark = Infinity \/ s.last_ts + IdleMs < watermark

\* _emit
Emit(s) ==
    [user |-> s.user, start_ts |-> s.start_ts, end_ts |-> s.last_ts,
     events |-> s.n_events, bytes |-> s.total_bytes,
     paths |-> Cardinality(s.paths)]

\* The sort key of a batch of closing sessions, (last_ts, user), on the records
\* they are written as.
Before(r1, r2) ==
    \/ r1.end_ts < r2.end_ts
    \/ r1.end_ts = r2.end_ts /\ r1.user < r2.user

=============================================================================
