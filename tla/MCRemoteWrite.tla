--------------------------- MODULE MCRemoteWrite ---------------------------
(* A small instance of RemoteWrite: the values are in MCRemoteWrite.cfg.   *)
EXTENDS RemoteWrite
=============================================================================
