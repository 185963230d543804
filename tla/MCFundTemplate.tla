--------------------------- MODULE MCFundTemplate ---------------------------
(* Instances of FundTemplate: two assets that can be swapped, and sums that *)
(* overflow after two of the larger amounts.                                *)
EXTENDS FundTemplate, TLC

AmountsTo2 == 0..2

AssetSymmetry == Permutations(Assets)

=============================================================================
