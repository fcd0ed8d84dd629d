----------------------------- MODULE SignedFixed -----------------------------
(***************************************************************************)
(* The signed fixed-point numbers (FixedI128) in which the reward, staking *)
(* and escrow-reward pools keep stakes, rewards and tallies: integers      *)
(* scaled by ONE.  Products and quotients are rounded towards zero, as     *)
(* sp_arithmetic does.  ONE is 10^18 in the code; a small scale makes TLC  *)
(* meet the roundings with small amounts.                                  *)
(***************************************************************************)
EXTENDS Integers

CONSTANT ONE                   \* SignedFixedPoint::DIV

ASSUME ONEAssumption == ONE \in Nat \ {0}

magnitude(x) == IF x >= 0 THEN x ELSE -x

(* Integer division that rounds towards zero.                              *)
truncated_div(x, y) ==
    IF (x >= 0) = (y >= 0) THEN magnitude(x) \div magnitude(y)
    ELSE -(magnitude(x) \div magnitude(y))

to_fixed(amount) == amount * ONE
truncate_to_inner(x) == truncated_div(x, ONE)

fixed_mul(x, y) == truncated_div(x * y, ONE)
fixed_div(x, y) == truncated_div(x * ONE, y)
=============================================================================
