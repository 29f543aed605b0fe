------------------------------ MODULE Workload ------------------------------
(***************************************************************************)
(* The generator's file, read by the streaming sessionizer: what the       *)
(* memory ceiling of a grading rests on.  grade writes the whole file, and *)
(* then starts whoever reads it.  Paths and bytes are constant.            *)
(***************************************************************************)
EXTENDS Generator

CONSTANT IdleMs   \* IDLE_MS, of the generator and of the sessionizer

ASSUME WorkloadAssumption == IdleMs \in Nat

VARIABLES
    handed,     \* history: was the slot given to another user after event i?
    input,      \* the sessionizer's variables, records being its out
    watermark,
    open_s,
    records,
    done

Reader == INSTANCE Sessionizer WITH
    Users <- 0..(Concurrency + MaxEvents), Paths <- {"/"}, Sizes <- {1}, Gaps <- Ticks,
    out <- records

readerVars == <<input, watermark, open_s, records, done>>
workloadVars == <<vars, handed, readerVars>>

WorkloadInit ==
    /\ Init
    /\ handed = <<>>
    /\ Reader!Init

\* A step of generate.
Generate ==
    /\ \/ \E tick \in Ticks, idx \in 1..Concurrency : Emit(tick, idx)
       \/ Return
    /\ handed' = IF out' = out THEN handed ELSE Append(handed, pool' # pool)
    /\ UNCHANGED readerVars

\* The sessionizer reads the next line of the file.
ReadLine ==
    /\ Returned
    /\ Len(input) < Len(out)
    /\ LET e == out[Len(input) + 1]
       IN  Reader!ReadEvent(e.ts - watermark, e.user, 1, "/")
    /\ UNCHANGED <<vars, handed>>

ReadEnd ==
    /\ Returned
    /\ Len(input) = Len(out)
    /\ Reader!Finish
    /\ UNCHANGED <<vars, handed>>

Graded == done /\ UNCHANGED workloadVars

WorkloadNext == Generate \/ ReadLine \/ ReadEnd \/ Graded

WorkloadSpec == WorkloadInit /\ [][WorkloadNext]_workloadVars

-----------------------------------------------------------------------------
(* Safety *)

\* Times of the last IdleMs, as the sessionizer sees it.
Recent(t) == t + IdleMs >= watermark

\* The working set of a right solution: a session of every slot's user, and one
\* for every slot given away in the last IdleMs, however long the file is, how
\* often users return and how many have ever been seen.  The ceiling that a
\* grading sets is meant to hold this and nothing that grows with the file.
WorkingSetBounded ==
    Len(open_s) <= Concurrency
        + Cardinality({i \in 1..Len(input) : handed[i] /\ Recent(out[i].ts)})

=============================================================================
