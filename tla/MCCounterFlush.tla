--------------------------- MODULE MCCounterFlush ---------------------------
(* Instances of CounterFlush for TLC: the two flushers are interchangeable. *)
EXTENDS CounterFlush, TLC

Symmetry == Permutations(Flushers)
=============================================================================
