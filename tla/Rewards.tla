------------------------------- MODULE Rewards -------------------------------
(***************************************************************************)
(* The reward pallet (crates/reward): a pool distributes what it is given  *)
(* in proportion to stakes without visiting the stakers.  RewardPerToken   *)
(* grows with each distribution, and a staker is owed                      *)
(*      stake * RewardPerToken - RewardTally.                              *)
(* The runtimes have four instances of it (escrow, vault capacity, vault   *)
(* and farming rewards); each is a pool record here, with the stakers its  *)
(* own set.  One reward currency is modelled: the pallet repeats the same  *)
(* steps for each, and a currency that was never distributed has a         *)
(* RewardPerToken of zero, which leaves its tallies alone.                 *)
(*                                                                         *)
(* As elsewhere a fallible call is the set of its results.                 *)
(***************************************************************************)
EXTENDS SignedFixed

(* Stake, TotalStake, RewardPerToken, RewardTally and TotalRewards.        *)
NewPool(Stakers) ==
    [stake |-> [s \in Stakers |-> 0], total |-> 0, per_token |-> 0,
     tally |-> [s \in Stakers |-> 0], rewards |-> 0]

(* A deposit carries a tally as if it had been there from the beginning;   *)
(* a withdrawal is a deposit of the negative amount.                       *)
change_stake(pool, staker, amount) ==
    [pool EXCEPT !.stake[staker] = @ + amount,
                 !.total = @ + amount,
                 !.tally[staker] = @ + fixed_mul(pool.per_token, amount)]

(* Mutant: new stake takes part in past rewards.                           *)
deposit_stake_without_tally(pool, staker, amount) ==
    [pool EXCEPT !.stake[staker] = @ + amount, !.total = @ + amount]

deposit_stake(pool, staker, amount) == change_stake(pool, staker, amount)

withdraw_stake(pool, staker, amount) ==
    IF amount > pool.stake[staker] THEN {}
    ELSE {change_stake(pool, staker, -amount)}

(* Nothing can be distributed to an empty pool.                            *)
distribute_reward(pool, reward) ==
    IF reward = 0 THEN {pool}
    ELSE IF pool.total = 0 THEN {}
    ELSE {[pool EXCEPT !.per_token = @ + fixed_div(reward, pool.total),
                       !.rewards = @ + reward]}

compute_reward(pool, staker) ==
    truncate_to_inner(fixed_mul(pool.stake[staker], pool.per_token) - pool.tally[staker])

(* All of the reward is taken; the tally starts afresh.  The amount paid   *)
(* is compute_reward, which must be a balance and so not negative.         *)
withdraw_reward(pool, staker) ==
    LET reward == compute_reward(pool, staker) IN
    IF reward < 0 THEN {}
    ELSE {[pool EXCEPT !.rewards = @ - to_fixed(reward),
                       !.tally[staker] = fixed_mul(pool.stake[staker], pool.per_token)]}

get_total_stake(pool) == truncate_to_inner(pool.total)
get_stake(pool, staker) == truncate_to_inner(pool.stake[staker])

(* Amounts of the API are balances.                                        *)
set_stake(pool, staker, amount) ==
    LET current == get_stake(pool, staker) IN
    IF current <= amount
    THEN {deposit_stake(pool, staker, to_fixed(amount - current))}
    ELSE withdraw_stake(pool, staker, to_fixed(current - amount))

withdraw_all_stake(pool, staker) ==
    withdraw_stake(pool, staker, to_fixed(get_stake(pool, staker)))
=============================================================================
