---------------------------- MODULE SessionSpec -----------------------------
(***************************************************************************)
(* What a sessionizer promises, with no commitment to how open sessions    *)
(* are kept (task/instruction.md): when an event arrives, every session    *)
(* that has been idle for more than IdleMs is written, exactly once and in *)
(* the order of its batch, and the event then opens or extends a session.  *)
(***************************************************************************)
EXTENDS Sessions

VARIABLES
    live,       \* the set of sessions not yet written
    written,    \* the records written
    watermark,  \* ts of the last event
    done

sVars == <<live, written, watermark, done>>

SInit ==
    /\ live = {}
    /\ written = <<>>
    /\ watermark = 0
    /\ done = FALSE

\* The records of the sessions in `closing` are appended to the output in
\* strict (end_ts, user) order.
Closes(closing) ==
    LET n == Len(written)
    IN  /\ written' \in Seq(Record)
        /\ n <= Len(written')
        /\ \A i \in 1..n : written'[i] = written[i]
        /\ {written'[i] : i \in (n + 1)..Len(written')} = {Emit(s) : s \in closing}
        /\ \A i, j \in (n + 1)..Len(written') : i < j => Before(written'[i], written'[j])

SRead(gap, u, b, p) ==
    LET e       == [ts |-> watermark + gap, user |-> u, bytes |-> b, path |-> p]
        closing == {s \in live : Expired(s, e.ts)}
        rest    == live \ closing
        own     == {s \in rest : s.user = u}
    IN  /\ ~done
        /\ Closes(closing)
        /\ \/ own = {} /\ live' = rest \cup {NewSession(e)}
           \/ \E s \in own : live' = (rest \ {s}) \cup {Extended(s, e)}
        /\ watermark' = e.ts
        /\ UNCHANGED done

SFinish ==
    /\ ~done
    /\ Closes(live)
    /\ live' = {}
    /\ done' = TRUE
    /\ UNCHANGED watermark

SNext ==
    \/ \E gap \in Gaps, u \in Users, b \in Sizes, p \in Paths : SRead(gap, u, b, p)
    \/ SFinish

SSpec == SInit /\ [][SNext]_sVars

=============================================================================
