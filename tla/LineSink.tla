------------------------------ MODULE LineSink ------------------------------
(***************************************************************************)
(* _LineSink in grader/grade.py: the file the reference writes to inside   *)
(* the grader.  It cuts what is written, in pieces of any shape, into the  *)
(* lines on_line expects, and stops when on_line raises.                   *)
(***************************************************************************)
EXTENDS Integers, Sequences, FiniteSets, SequencesExt

CONSTANTS
    Chars,      \* characters other than the newline
    NL,         \* the newline
    MaxPiece,   \* the longest piece written at once
    MaxText     \* the longest text written in all

ASSUME LineSinkAssumption ==
    /\ NL \notin Chars
    /\ MaxPiece \in Nat
    /\ MaxText \in Nat

Text == Seq(Chars \cup {NL})

VARIABLES
    written,    \* history: everything written
    buf,        \* "".join(self._buf): text not yet part of a whole line
    lines,      \* history: the lines given to on_line
    state       \* "open", "closed", or "raised" when on_line raised

sinkVars == <<written, buf, lines, state>>

SinkTypeOK ==
    /\ written \in Text
    /\ buf \in Seq(Chars)
    /\ lines \in Seq(Seq(Chars))
    /\ state \in {"open", "closed", "raised"}

SinkInit ==
    /\ written = <<>>
    /\ buf = <<>>
    /\ lines = <<>>
    /\ state = "open"

-----------------------------------------------------------------------------
\* The positions of the newlines of a text, with 0 and the one past its end.
CutsOf(text) == {i \in 1..Len(text) : text[i] = NL} \cup {0, Len(text) + 1}

\* They in order: the k-th has k - 1 of them before it.
Cuts(text) ==
    [k \in 1..Cardinality(CutsOf(text)) |->
        CHOOSE c \in CutsOf(text) : Cardinality({d \in CutsOf(text) : d < c}) = k - 1]

\* text.split("\n")
Parts(text) ==
    LET cuts == Cuts(text)
    IN  [k \in 1..(Len(cuts) - 1) |-> SubSeq(text, cuts[k] + 1, cuts[k + 1] - 1)]

\* on_line is called for each part in turn and may raise at any of them.
Deliver(parts) ==
    \/ lines' = lines \o parts /\ UNCHANGED state
    \/ \E k \in 1..Len(parts) :
          /\ lines' = lines \o SubSeq(parts, 1, k)
          /\ state' = "raised"

\* A piece without a newline is only kept.
WritePiece(s) ==
    /\ state = "open"
    /\ NL \notin ToSet(s)
    /\ buf' = buf \o s
    /\ written' = written \o s
    /\ UNCHANGED <<lines, state>>

\* MUTANT of WriteLines: the text is not split.
WriteUnsplit(s) ==
    /\ state = "open"
    /\ NL \in ToSet(s)
    /\ buf' = <<>>
    /\ Deliver(<<buf \o s>>)
    /\ written' = written \o s

\* The part after the last newline is kept, before any line is given out.
WriteLines(s) ==
    LET parts == Parts(buf \o s)
    IN  /\ state = "open"
        /\ NL \in ToSet(s)
        /\ buf' = Last(parts)
        /\ Deliver(Front(parts))
        /\ written' = written \o s

\* MUTANT of CloseOut: what is kept is not given out.
CloseOutForgetsTail ==
    /\ state = "open"
    /\ state' = "closed"
    /\ UNCHANGED <<written, buf, lines>>

\* A last line without its newline.
CloseOut ==
    /\ state = "open"
    /\ lines' = IF buf = <<>> THEN lines ELSE Append(lines, buf)
    /\ state' \in {"closed"} \cup IF buf = <<>> THEN {} ELSE {"raised"}
    /\ UNCHANGED <<written, buf>>

Stopped == state # "open" /\ UNCHANGED sinkVars

Pieces == BoundedSeq(Chars \cup {NL}, MaxPiece)

SinkNext ==
    \/ \E s \in Pieces :
          /\ Len(written) + Len(s) <= MaxText
          /\ WritePiece(s) \/ WriteLines(s)
    \/ CloseOut
    \/ Stopped

SinkSpec == SinkInit /\ [][SinkNext]_sinkVars

-----------------------------------------------------------------------------
(* Safety *)

\* The lines as they were in the text.
Rejoined == FlattenSeq([k \in 1..Len(lines) |-> Append(lines[k], NL)])

\* However the text is cut into pieces, the lines given out and the text kept
\* are the text written: nothing is lost, repeated, merged or torn.  At the end
\* every line has been given out, the last one too when its newline is missing;
\* when on_line raised, what it was given is where the text begins.
LinesAreTheText ==
    /\ state = "open" => Rejoined \o buf = written
    /\ state = "closed" =>
          Rejoined = IF written = <<>> \/ Last(written) = NL THEN written
                     ELSE Append(written, NL)
    /\ state = "raised" => IsPrefix(Rejoined, Append(written, NL))

=============================================================================
