------------------------------- MODULE Amounts -------------------------------
(***************************************************************************)
(* The arithmetic of crates/currency/src/amount.rs: balances are naturals, *)
(* fixed-point factors are naturals scaled by DIV (FixedU128 scales by     *)
(* 10^18; a smaller scale keeps every rounding case and lets TLC meet it   *)
(* with small numbers).  A checked operation that fails aborts its         *)
(* transactional extrinsic; `Try` is how the operators of this project     *)
(* write that: the set of the results, empty on error.                     *)
(***************************************************************************)
EXTENDS Integers

CONSTANT DIV                    \* UnsignedFixedPoint::DIV

ASSUME DIVAssumption == DIV \in Nat \ {0}

Try(guard, result) == IF guard THEN {result} ELSE {}

min(a, b) == IF a <= b THEN a ELSE b
max(a, b) == IF a >= b THEN a ELSE b

saturating_sub(a, b) == IF b <= a THEN a - b ELSE 0

(* The three roundings in use: Down, Up and NearestPrefUp (half up).       *)
checked_mul(x, factor) == (x * factor) \div DIV
mul_rounding_up(x, factor) == (x * factor + (DIV - 1)) \div DIV
mul_rounding_nearest(x, factor) == (2 * x * factor + DIV) \div (2 * DIV)

checked_div(x, factor) == (x * DIV) \div factor

(***************************************************************************)
(* calculate_collateral of the vault registry: the share numerator /       *)
(* denominator of an amount of collateral, all of it when both are zero.   *)
(* A zero denominator with a nonzero numerator is an error; every caller   *)
(* also requires the numerator to be at most the denominator, so the value *)
(* chosen here for that case never reaches the state.                      *)
(***************************************************************************)
calculate_collateral(collateral, numerator, denominator) ==
    IF denominator = 0 THEN collateral
    ELSE (collateral * numerator) \div denominator
=============================================================================
