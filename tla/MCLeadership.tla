---------------------------- MODULE MCLeadership ----------------------------
(* Instances of the leader notification for TLC.                           *)
EXTENDS Leadership, TLC

\* The cluster monitors are interchangeable, and so are the other nodes.
Symmetry == Permutations(Clusters \ Always) \union Permutations(Nodes \ {Self})
=============================================================================
