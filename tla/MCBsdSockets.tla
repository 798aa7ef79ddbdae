---------------------------- MODULE MCBsdSockets ----------------------------
(* Small instances of BsdSockets for TLC.                                  *)
EXTENDS BsdSockets

=============================================================================
