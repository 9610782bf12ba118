--------------------------- MODULE MCSubprocCore ---------------------------
(* Instances of the subprocess core for TLC.                               *)
EXTENDS SubprocCore
=============================================================================
