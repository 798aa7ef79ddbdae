------------------------------ MODULE MCIndexDb ------------------------------
(* Every input file of a bounded length, for TLC.                          *)
EXTENDS IndexDb

=============================================================================
