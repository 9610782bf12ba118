------------------------- MODULE MCCorrelationStore -------------------------
(* Instances of the correlation store for TLC.                             *)
EXTENDS CorrelationStore, TLC

\* Observers are interchangeable, and so are the evaluators' goroutines.
Symmetry == Permutations(Observers) \union Permutations(Getters)
=============================================================================
