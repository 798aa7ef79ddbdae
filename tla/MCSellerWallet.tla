--------------------------- MODULE MCSellerWallet ---------------------------
(* Small instances of SellerWallet for TLC.                                *)
EXTENDS SellerWallet, TLC

\* The actions treat all orders alike.  For runs without temporal properties.
OrderSymmetry == Permutations(Orders)

=============================================================================
