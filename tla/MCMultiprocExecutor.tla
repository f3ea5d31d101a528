------------------------- MODULE MCMultiprocExecutor -------------------------
(* Settings for the TLC runs of MultiprocExecutor. *)
EXTENDS MultiprocExecutor

\* Several calls at a time, and calls one at a time that may run out of time;
\* steps of the model may fail.
MCSettings == {[non_block |-> TRUE, fail |-> {OutputRank}, expire |-> {}],
               [non_block |-> FALSE, fail |-> {OutputRank}, expire |-> {OutputRank}]}
=============================================================================
