------------------------------- MODULE Staking -------------------------------
(***************************************************************************)
(* The staking pallet (crates/staking): the collateral of one vault,       *)
(* shared by the vault and its nominators.  A slash is applied lazily:     *)
(* SlashPerToken grows, and a staker's share of it is taken from Stake the *)
(* next time the staker is touched (apply_slash).  Rewards are distributed *)
(* as in the reward pallet.                                                *)
(*                                                                         *)
(* Forced refunds do not visit the nominators either: the vault moves on   *)
(* to a pool with a new nonce, and the nominators are to withdraw from the *)
(* old one.  A vault's record holds its nonce and one pool per nonce.  One *)
(* reward currency is modelled, the pallet treats its two alike.           *)
(***************************************************************************)
EXTENDS SignedFixed

(* Stake, TotalStake, TotalCurrentStake, SlashPerToken, SlashTally,        *)
(* RewardPerToken, RewardTally and TotalRewards at one nonce.              *)
NewPool(Stakers) ==
    LET zero == [s \in Stakers |-> 0] IN
    [stake |-> zero, total |-> 0, current |-> 0,
     slash_per_token |-> 0, slash_tally |-> zero,
     per_token |-> 0, tally |-> zero, rewards |-> 0]

(* compute_amount_to_slash: what the staker has yet to be slashed.         *)
amount_to_slash(pool, s) ==
    fixed_mul(pool.stake[s], pool.slash_per_token) - pool.slash_tally[s]

compute_precise_stake(pool, s) ==
    LET rest == pool.stake[s] - amount_to_slash(pool, s)
    IN  IF rest > 0 THEN rest ELSE 0

compute_stake_at_index(staking, index, s) ==
    truncate_to_inner(compute_precise_stake(staking.pool[index], s))

compute_stake(staking, s) == compute_stake_at_index(staking, staking.nonce, s)

total_current_stake(staking) == truncate_to_inner(staking.pool[staking.nonce].current)

(* Mutant: the slash leaves the stake and not the total.                   *)
apply_slash_keeping_total(staking, s) ==
    LET pool == staking.pool[staking.nonce]
        stake == pool.stake[s] - amount_to_slash(pool, s)
    IN  [staking EXCEPT !.pool[staking.nonce] =
            [pool EXCEPT !.stake[s] = stake,
                         !.slash_tally[s] = fixed_mul(stake, pool.slash_per_token)]]

(* Always in the current pool, whatever pool the caller is working on.     *)
apply_slash(staking, s) ==
    LET pool == staking.pool[staking.nonce]
        to_slash == amount_to_slash(pool, s)
        stake == pool.stake[s] - to_slash
    IN  [staking EXCEPT !.pool[staking.nonce] =
            [pool EXCEPT !.total = @ - to_slash,
                         !.stake[s] = stake,
                         !.slash_tally[s] = fixed_mul(stake, pool.slash_per_token)]]

(* New stake is entered as if it had seen all past slashes and rewards; a  *)
(* withdrawal enters the negative amount.                                  *)
change_stake(pool, s, amount) ==
    [pool EXCEPT !.stake[s] = @ + amount,
                 !.total = @ + amount,
                 !.current = @ + amount,
                 !.slash_tally[s] = @ + fixed_mul(pool.slash_per_token, amount),
                 !.tally[s] = @ + fixed_mul(pool.per_token, amount)]

deposit_stake(staking, s, amount) ==
    LET slashed == apply_slash(staking, s)
    IN  [slashed EXCEPT !.pool[slashed.nonce] = change_stake(@, s, amount)]

(* What is left by rounding goes when the last stake goes.                 *)
withdraw_stake(staking, s, amount, index) ==
    LET slashed == apply_slash(staking, s)
        pool == change_stake(slashed.pool[index], s, -amount)
    IN  IF amount = 0 THEN {slashed}
        ELSE IF amount > slashed.pool[slashed.nonce].stake[s] THEN {}
        ELSE {[slashed EXCEPT !.pool[index] =
                  [pool EXCEPT !.current = IF pool.total = 0 THEN 0 ELSE @]]}

increase_rewards(pool, reward) ==
    IF pool.current = 0 THEN pool
    ELSE [pool EXCEPT !.per_token = @ + fixed_div(reward, pool.current)]

(* Nothing is distributed, and nothing fails, without stake.               *)
distribute_reward(staking, reward) ==
    LET pool == staking.pool[staking.nonce] IN
    [staking EXCEPT !.pool[staking.nonce] =
        [increase_rewards(pool, reward) EXCEPT
            !.rewards = IF pool.current = 0 THEN @ ELSE @ + reward]]

(* Mutant: the rewards of the slashed stake are lost.                      *)
slash_stake_losing_rewards(staking, amount) ==
    LET pool == staking.pool[staking.nonce] IN
    IF amount = 0 THEN {staking}
    ELSE IF pool.total = 0 THEN {}
    ELSE {[staking EXCEPT !.pool[staking.nonce] =
              [pool EXCEPT !.slash_per_token = @ + fixed_div(amount, pool.total),
                           !.current = @ - amount]]}

(* Mutant: the slash is spread over the stake that is left, although the   *)
(* stakers apply it to their stake before pending slashes.                 *)
slash_stake_over_current(staking, amount) ==
    LET pool == staking.pool[staking.nonce] IN
    IF amount = 0 THEN {staking}
    ELSE IF pool.current = 0 THEN {}
    ELSE {[staking EXCEPT !.pool[staking.nonce] =
              [pool EXCEPT !.slash_per_token = @ + fixed_div(amount, pool.current),
                           !.current = @ - amount]]}

(* The slashed stake would take its share of past rewards with it; that    *)
(* share is distributed again.                                             *)
slash_stake(staking, amount) ==
    LET pool == staking.pool[staking.nonce]
        slashed == [pool EXCEPT !.slash_per_token = @ + fixed_div(amount, pool.total),
                                !.current = @ - amount]
    IN  IF amount = 0 THEN {staking}
        ELSE IF pool.total = 0 THEN {}
        ELSE {[staking EXCEPT !.pool[staking.nonce] =
                  increase_rewards(slashed, fixed_mul(pool.per_token, amount))]}

compute_reward_at_index(staking, index, s) ==
    LET pool == staking.pool[index]
        reward == truncate_to_inner(
                      fixed_mul(compute_precise_stake(pool, s), pool.per_token) - pool.tally[s])
    IN  IF reward > 0 THEN reward ELSE 0

(* The reward is computed after the slash is applied; it is returned by    *)
(* compute_reward_at_index in that state.                                  *)
withdraw_reward_at_index(staking, index, s) ==
    LET slashed == apply_slash(staking, s)
        pool == slashed.pool[index]
    IN  [slashed EXCEPT !.pool[index] =
            [pool EXCEPT !.rewards = @ - to_fixed(compute_reward_at_index(slashed, index, s)),
                         !.tally[s] = fixed_mul(pool.stake[s], pool.per_token)]]

(* The vault's own stake, in whole units, moves to a pool of its own.      *)
force_refund(staking, vault) ==
    LET stake == to_fixed(compute_stake(staking, vault)) IN
    {deposit_stake([withdrawn EXCEPT !.nonce = @ + 1], vault, stake) :
        withdrawn \in withdraw_stake(staking, vault, stake, staking.nonce)}

(* The collateral that the refund sets free.                               *)
refunded_collateral(staking, vault) ==
    truncate_to_inner(staking.pool[staking.nonce].current
                        - to_fixed(compute_stake(staking, vault)))
=============================================================================
