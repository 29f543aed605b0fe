----------------------------- MODULE Generator ------------------------------
(***************************************************************************)
(* generate in task/generate.py: the workload.  A pool of active users, of *)
(* which each event picks one; after the event the user may be retired, and *)
(* the slot goes to a user retired earlier or to a new one.                *)
(*                                                                         *)
(* Users are their numbers.  Every draw of the random generator is a       *)
(* choice; the rates decide how often, never whether, as long as they are  *)
(* neither 0 nor 1.  One Emit action is one iteration of the loop.         *)
(***************************************************************************)
EXTENDS Integers, Sequences, FiniteSets, SequencesExt

CONSTANTS
    Concurrency,    \* the size of the pool
    RetiredBound,   \* the bound on the tail of retired users, 4096
    Ticks,          \* the steps ts may take
    MaxEvents       \* n_events is at most this

ASSUME GeneratorAssumption ==
    /\ Concurrency \in Nat \ {0}
    /\ RetiredBound \in Nat \ {0}
    /\ Ticks \subseteq Nat
    /\ MaxEvents \in Nat

VARIABLES
    ts,         \* since the epoch of the instance
    next_user,  \* the next number never used
    pool,       \* the active users
    retired,    \* the bounded tail of retired users
    revisits,   \* how often a retired user came back
    out,        \* the events written
    stats       \* what is returned

vars == <<ts, next_user, pool, retired, revisits, out, stats>>

NoStats == [events |-> -1, distinct_users |-> -1, revisits |-> -1, span_ms |-> -1]

Returned == stats # NoStats

Event == [ts : Nat, user : Nat]

\* The tail never exceeds its bound, although a user is appended before one is
\* taken out.
TailBounded == Len(retired) <= RetiredBound

TypeOK ==
    /\ ts \in Nat
    /\ next_user \in Nat
    /\ pool \in [1..Concurrency -> Nat]
    /\ retired \in Seq(Nat) /\ TailBounded
    /\ revisits \in Nat
    /\ out \in Seq(Event)
    /\ stats \in {NoStats} \cup [events : Nat, distinct_users : Nat, revisits : Nat,
                                 span_ms : Nat]

Init ==
    /\ ts = 0
    /\ next_user = Concurrency
    /\ pool = [i \in 1..Concurrency |-> i - 1]
    /\ retired = <<>>
    /\ revisits = 0
    /\ out = <<>>
    /\ stats = NoStats

-----------------------------------------------------------------------------
\* The tail after `user` is appended: the oldest makes room when it is full.
Appended(user) ==
    Append(IF Len(retired) >= RetiredBound THEN Tail(retired) ELSE retired, user)

\* The user stays in its slot.
Keep ==
    UNCHANGED <<pool, retired, next_user, revisits>>

\* MUTANT of Revisit: the user chosen stays in the tail.
RevisitWithoutPop(idx) ==
    LET tail == Appended(pool[idx])
    IN  \E i \in 1..Len(tail) :
            /\ pool' = [pool EXCEPT ![idx] = tail[i]]
            /\ retired' = tail
            /\ revisits' = revisits + 1
            /\ UNCHANGED next_user

\* MUTANT of Revisit: the count runs backwards.
RevisitCountsDown(idx) ==
    LET tail == Appended(pool[idx])
    IN  \E i \in 1..Len(tail) :
            /\ pool' = [pool EXCEPT ![idx] = tail[i]]
            /\ retired' = RemoveAt(tail, i)
            /\ revisits' = revisits - 1
            /\ UNCHANGED next_user

\* The user is retired and one of the tail, perhaps the same, takes the slot.
Revisit(idx) ==
    LET tail == Appended(pool[idx])
    IN  \E i \in 1..Len(tail) :
            /\ pool' = [pool EXCEPT ![idx] = tail[i]]
            /\ retired' = RemoveAt(tail, i)
            /\ revisits' = revisits + 1
            /\ UNCHANGED next_user

\* MUTANT of Replace: the number of the new user is not consumed.
ReplaceWithoutCount(idx) ==
    /\ retired' = Appended(pool[idx])
    /\ pool' = [pool EXCEPT ![idx] = next_user]
    /\ UNCHANGED <<next_user, revisits>>

\* MUTANT of Replace: the numbers of new users wrap around.
ReplaceWraps(idx) ==
    /\ retired' = Appended(pool[idx])
    /\ pool' = [pool EXCEPT ![idx] = next_user % (Concurrency + RetiredBound + 1)]
    /\ next_user' = next_user + 1
    /\ UNCHANGED revisits

\* The user is retired and a new one takes the slot.
Replace(idx) ==
    /\ retired' = Appended(pool[idx])
    /\ pool' = [pool EXCEPT ![idx] = next_user]
    /\ next_user' = next_user + 1
    /\ UNCHANGED revisits

Emit(tick, idx) ==
    /\ ~Returned
    /\ Len(out) < MaxEvents
    /\ ts' = ts + tick
    /\ out' = Append(out, [ts |-> ts', user |-> pool[idx]])
    /\ Keep \/ Revisit(idx) \/ Replace(idx)
    /\ UNCHANGED stats

\* n_events have been written, whatever n_events is.
Return ==
    /\ ~Returned
    /\ stats' = [events |-> Len(out), distinct_users |-> next_user,
                 revisits |-> revisits, span_ms |-> ts]
    /\ UNCHANGED <<ts, next_user, pool, retired, revisits, out>>

Terminated == Returned /\ UNCHANGED vars

Next ==
    \/ \E tick \in Ticks, idx \in 1..Concurrency : Emit(tick, idx)
    \/ Return
    \/ Terminated

Spec == Init /\ [][Next]_vars

-----------------------------------------------------------------------------
(* Safety *)

Active == {pool[i] : i \in 1..Concurrency}
Resting == {retired[i] : i \in 1..Len(retired)}
Written == {out[i].user : i \in 1..Len(out)}

\* No user holds two slots, waits twice in the tail or does both, however often
\* users retire, return and are pushed out of the tail: otherwise a user would
\* be drawn twice as often and the number of sessions would shrink.
UsersApart ==
    /\ \A i, j \in 1..Concurrency : pool[i] = pool[j] => i = j
    /\ \A i, j \in 1..Len(retired) : retired[i] = retired[j] => i = j
    /\ Active \cap Resting = {}

\* The events are in the order the sessionizer's watermark needs.
EventsOrdered ==
    /\ \A i, j \in 1..Len(out) : i < j => out[i].ts <= out[j].ts
    /\ \A i \in 1..Len(out) : out[i].ts <= ts

\* The statistics are bounds on what was written: as many distinct users as are
\* reported or fewer, and no more than the pool and the slots given to new users.
StatsAccount ==
    Returned =>
        /\ Cardinality(Written) <= stats.distinct_users
        /\ stats.distinct_users + stats.revisits <= Concurrency + stats.events
        /\ stats.events = Len(out)

\* A user pushed out of the tail is gone for good: only the bounded tail can
\* return (task/generate.py:53-55).
ForgottenForGood ==
    [][\A u \in 0..(next_user - 1) :
          u \notin Active \cup Resting => u \notin (Active \cup Resting)']_vars

=============================================================================
