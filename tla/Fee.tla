--------------------------------- MODULE Fee ---------------------------------
(***************************************************************************)
(* The rates of the fee pallet (crates/fee) and what it computes from      *)
(* them.  Fees are rounded to the nearest token, the premium down.         *)
(***************************************************************************)
EXTENDS Amounts

CONSTANTS IssueFee, RedeemFee, PunishmentFee, PremiumRedeemFee,
          IssueGriefing, ReplaceGriefing,
          GriefingRate          \* price of the griefing currency

ASSUME FeeAssumption ==
    /\ IssueFee \in 0 .. DIV
    /\ RedeemFee \in 0 .. DIV
    /\ PunishmentFee \in Nat
    /\ PremiumRedeemFee \in Nat
    /\ IssueGriefing \in Nat
    /\ ReplaceGriefing \in Nat
    /\ GriefingRate \in Nat

get_issue_fee(amount) == mul_rounding_nearest(amount, IssueFee)
get_redeem_fee(amount) == mul_rounding_nearest(amount, RedeemFee)
get_punishment_fee(amount) == mul_rounding_nearest(amount, PunishmentFee)
get_premium_redeem_fee(amount) == checked_mul(amount, PremiumRedeemFee)

(* The griefing collateral for an amount of wrapped tokens.                *)
get_issue_griefing_collateral(tokens) ==
    mul_rounding_nearest(checked_mul(tokens, GriefingRate), IssueGriefing)

get_replace_griefing_collateral(tokens) ==
    mul_rounding_nearest(checked_mul(tokens, GriefingRate), ReplaceGriefing)
=============================================================================
