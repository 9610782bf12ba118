------------------------ MODULE MCDiscoveryReceiver ------------------------
(* Small instances of DiscoveryReceiver.                                   *)
EXTENDS DiscoveryReceiver, TLC

=============================================================================
