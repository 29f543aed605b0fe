---------------------------- MODULE MCForkSpread ----------------------------
(* Model checking ForkSpread against the oracle of the tests. *)
EXTENDS ForkSpread, SessionOracle

\* Every record written, up to a line that a kill cut short, is one of the right
\* answer: a shard that fails can leave records out, but none is ever written
\* with events missing or counted twice.
OutputNeverWrong ==
    \A n \in 1..Len(out) :
        (\A m \in 1..n : ~IsCut(out[m])) => out[n] \in ToSet(Oracle(input, IdleMs))

\* Exit status 0 is a promise: the merged output is then exactly the answer
\* that one streaming process gives, in the same order.
ExitZeroIsAnswer == code = 0 => out = Oracle(input, IdleMs)

=============================================================================
