------------------------- MODULE MCRevenueAttribution -------------------------
(***************************************************************************)
(* One experiment and one order; two visitors, so that there is somebody   *)
(* else to credit; two tokens and two kinds of identity, so that both can  *)
(* be linked; two cycles that overlap, one of which may fail half-way.     *)
(***************************************************************************)
EXTENDS RevenueAttribution, TLC

Symmetry == Permutations(Visitors) \cup Permutations(Tokens)
=============================================================================
