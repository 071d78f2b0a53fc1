--------------------------- MODULE MCMerchantApply ---------------------------
(* Instances of MerchantApply for TLC. *)
EXTENDS MerchantApply, TLC

Symmetry == Permutations(Users) \cup Permutations(Reqs)
=============================================================================
