---------------------------- MODULE MCBlockRewards ----------------------------
(* The values of BlockRewards' constants that a configuration cannot write.*)
EXTENDS BlockRewards

LimitRangesValue == {<<1, 5>>}
=============================================================================
