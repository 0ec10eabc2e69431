-------------------------- MODULE MCRevenuePromotion --------------------------
(***************************************************************************)
(* Two runners, two experiments of a product and two texts of its          *)
(* merchant; four revisions let both experiments be promoted and both be   *)
(* rolled back, in either order, or fewer of these with edits.             *)
(* MCRevenueSnapshot.cfg: one runner that promotes one experiment.         *)
(***************************************************************************)
EXTENDS RevenuePromotion, TLC

Symmetry ==
  Permutations(Runners) \cup Permutations(Experiments) \cup Permutations(Merchant)
=============================================================================
