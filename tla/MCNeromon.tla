----------------------------- MODULE MCNeromon -----------------------------
(* Small instances of Neromon for TLC.                                     *)
EXTENDS Neromon, TLC

=============================================================================
