-------------------------- MODULE MCCollectdManager --------------------------
(* Instances of the collectd manager for TLC.                              *)
EXTENDS CollectdManager, TLC

\* The monitors are interchangeable.
Symmetry == Permutations(Monitors)
=============================================================================
