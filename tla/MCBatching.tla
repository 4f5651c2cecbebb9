----------------------------- MODULE MCBatching -----------------------------
(* Instances of the pool, used directly and through asio_backend, for TLC. *)
EXTENDS AsioBackend

CONSTANTS pair, hook, late, w1, w2, k1, k2

\* A two-row predict_batch and two submit_callbacks.
MCCallbacks == {hook, late}
MCWidth == [c \in Calls |-> IF c = pair THEN 2 ELSE 1]

\* Only the second row of the pair has a bucket of its own.
PairSplit == [r \in Rows |-> IF r = <<pair, 2>> THEN 1 ELSE 0]

\* The pool used directly, shut down once, by two threads at a time or never, and used
\* through an asio_backend that is shut down, dropped, or both; each with other answers.
MCUses == {[calls |-> {pair, hook}, closers |-> {k1}, owned |-> FALSE, answers |-> {"throw"}],
           [calls |-> {hook}, closers |-> {k1, k2}, owned |-> FALSE,
            answers |-> {"ok", "error", "throw"}],
           [calls |-> {pair}, closers |-> {}, owned |-> FALSE,
            answers |-> {"ok", "error", "throw"}],
           [calls |-> {hook, late}, closers |-> {k1, k2}, owned |-> TRUE,
            answers |-> {"mismatch"}]}

FirstRow == {<<pair, 1>>}
SecondRow == {<<pair, 2>>}
=============================================================================
