----------------------------- MODULE Nomination ------------------------------
(***************************************************************************)
(* Nominated collateral and the way of the fees: the nomination pallet,    *)
(* the PoolManager of the vault registry and the distribution of rewards   *)
(* by the fee pallet, over one staking pool per vault and two reward       *)
(* pools.                                                                  *)
(*                                                                         *)
(*   fee --> capacity pool --> vault pool --> commission + staking pool    *)
(*           (by currency)     (by vault)     (by nominator)               *)
(*                                                                         *)
(* Rewards are pushed down this chain before any stake changes.  One       *)
(* collateral currency is modelled, so that the capacity pool has one      *)
(* staker.  Of the tokens of a vault only the backed and the to-be-        *)
(* redeemed ones are kept: the collateral they require and the liquidation *)
(* need no more (module Bridge has the rest).                              *)
(***************************************************************************)
EXTENDS Amounts, SignedFixed, FiniteSetsExt

CONSTANTS Vaults, Nominators,
          CollateralAmounts,    \* amounts of collateral a call may name
          TokenAmounts,         \* values of backed and to-be-redeemed tokens
          FeeAmounts,           \* fees that may be distributed
          Rates,                \* prices
          Limits, Commissions,  \* values a vault may choose
          SecureThreshold, LiquidationThreshold, MinimumCollateral, Ceiling,
          MaxNonce,             \* bound: forced refunds of one vault
          MaxOperations         \* bound: calls other than prices, tokens and opting in

ASSUME NominationAssumption ==
    /\ Vaults \cap Nominators = {} /\ IsFiniteSet(Vaults \cup Nominators)
    /\ CollateralAmounts \cup TokenAmounts \cup FeeAmounts \cup Limits \cup Commissions
          \subseteq Nat
    /\ Rates \subseteq Nat \ {0}
    /\ {SecureThreshold, LiquidationThreshold} \subseteq Nat \ {0}
    /\ {MinimumCollateral, Ceiling, MaxNonce, MaxOperations} \subseteq Nat

VARIABLES pools,        \* the three kinds of pools and the fee pool's balance
          vaults,       \* status, tokens and liquidated collateral of a vault
          ledger,       \* reserved collateral, TotalUserVaultCollateral
          nomination,   \* NominationEnabled, Vaults, NominationLimit, Commission
          exchangeRate,
          operations    \* how many bounded calls were made

vars == <<pools, vaults, ledger, nomination, exchangeRate, operations>>

R == INSTANCE Rewards
S == INSTANCE Staking

Stakers == Vaults \cup Nominators

(* The staker of the capacity pool.                                        *)
Currency == "collateral"

Init ==
    /\ pools = [capacity |-> R!NewPool({Currency}), vault |-> R!NewPool(Vaults),
                staking |-> [v \in Vaults |-> [nonce |-> 0,
                                pool |-> [i \in 0..MaxNonce |-> S!NewPool(Stakers)]]],
                fee_pool |-> 0]
    /\ vaults = [v \in Vaults |-> [status |-> "accepting", backed |-> 0,
                                   to_be_redeemed |-> 0, liquidated |-> 0]]
    /\ ledger = [reserved |-> [v \in Vaults |-> 0], total |-> 0, lv |-> 0]
    /\ nomination = [enabled |-> TRUE, opted |-> {}, limit |-> [v \in Vaults |-> 0],
                     commission |-> [v \in Vaults |-> 0]]
    /\ exchangeRate \in Rates
    /\ operations = 0

backing(p, v) == S!total_current_stake(p.staking[v])
vault_collateral(p, v) == S!compute_stake(p.staking[v], v)
total_nominated(p, v) == backing(p, v) - vault_collateral(p, v)

-----------------------------------------------------------------------------
(* Fee pallet                                                              *)

(* The vault's part of the vault pool goes to its stakers, less the        *)
(* commission, which the vault is paid.                                    *)
distribute_to_stakers(p, v) ==
    LET reward == R!compute_reward(p.vault, v)
        commission == checked_mul(reward, nomination.commission[v])
    IN  {[p EXCEPT !.vault = pool,
                   !.fee_pool = @ - commission,
                   !.staking[v] = S!distribute_reward(@, to_fixed(reward - commission))] :
            pool \in IF commission <= p.fee_pool THEN R!withdraw_reward(p.vault, v) ELSE {}}

(* Down the chain.  A reward of the capacity pool cannot be passed on to a *)
(* vault pool without stake.                                               *)
distribute_vault_rewards(p, v) ==
    LET to_vaults == R!compute_reward(p.capacity, Currency) IN
    UNION {UNION {distribute_to_stakers([p EXCEPT !.capacity = capacity, !.vault = vault], v) :
                     vault \in R!distribute_reward(p.vault, to_fixed(to_vaults))} :
              capacity \in R!withdraw_reward(p.capacity, Currency)}

(* A fee that nobody can be given goes to the treasury.                    *)
distribute_rewards(amount) ==
    /\ operations < MaxOperations
    /\ LET capacity == R!distribute_reward(pools.capacity, to_fixed(amount)) IN
       pools' = IF capacity = {} THEN pools
                ELSE [pools EXCEPT !.capacity = CHOOSE c \in capacity : TRUE,
                                   !.fee_pool = @ + amount]
    /\ operations' = operations + 1
    /\ UNCHANGED <<vaults, ledger, nomination, exchangeRate>>

withdraw_rewards(v, n, index) ==
    LET nonce == pools.staking[v].nonce
        slashed(p) == S!apply_slash(p.staking[v], n)
        reward(p) == S!compute_reward_at_index(slashed(p), index, n)
    IN
    /\ operations < MaxOperations
    /\ index <= nonce
    /\ pools' \in UNION {
           Try(reward(p) <= p.fee_pool,
               [p EXCEPT !.staking[v] = S!withdraw_reward_at_index(@, index, n),
                         !.fee_pool = @ - reward(p)]) :
               p \in distribute_vault_rewards(pools, v)}
    /\ operations' = operations + 1
    /\ UNCHANGED <<vaults, ledger, nomination, exchangeRate>>

set_commission(v, commission) ==
    /\ v \in nomination.opted
    /\ commission <= DIV
    /\ operations < MaxOperations
    /\ nomination' = [nomination EXCEPT !.commission[v] = commission]
    /\ operations' = operations + 1
    /\ UNCHANGED <<pools, vaults, ledger, exchangeRate>>

-----------------------------------------------------------------------------
(* PoolManager: every change of stake is preceded by the distribution of   *)
(* all rewards and followed by the update of the stakes above.             *)

update_capacity_stake(p, rate) ==
    {[p EXCEPT !.capacity = c] :
        c \in R!set_stake(p.capacity, Currency, checked_div(R!get_total_stake(p.vault), rate))}

(* A total below zero is not a balance, and the call fails.                *)
set_reward_stake(p, v, accepts) ==
    LET stake == IF accepts THEN checked_div(backing(p, v), SecureThreshold) ELSE 0
    IN  UNION {update_capacity_stake([p EXCEPT !.vault = pool], exchangeRate) :
                  pool \in IF stake >= 0 THEN R!set_stake(p.vault, v, stake) ELSE {}}

update_reward_stake(p, v) == set_reward_stake(p, v, vaults[v].status = "accepting")

pool_deposit(p, v, n, amount) ==
    UNION {update_reward_stake([q EXCEPT !.staking[v] =
                                   S!deposit_stake(@, n, to_fixed(amount))], v) :
              q \in distribute_vault_rewards(p, v)}

(* `amount` is a fixed-point number: a withdrawal of everything takes the  *)
(* precise stake.                                                          *)
pool_withdraw(p, v, n, amount, index) ==
    UNION {UNION {update_reward_stake([q EXCEPT !.staking[v] = s], v) :
                     s \in S!withdraw_stake(q.staking[v], n, amount, index)} :
              q \in distribute_vault_rewards(p, v)}

pool_slash(p, v, amount) ==
    UNION {UNION {update_reward_stake([q EXCEPT !.staking[v] = s], v) :
                     s \in S!slash_stake(q.staking[v], to_fixed(amount))} :
              q \in distribute_vault_rewards(p, v)}

kick_nominators(p, v) ==
    UNION {UNION {update_reward_stake([q EXCEPT !.staking[v] = s], v) :
                     s \in S!force_refund(q.staking[v], v)} :
              q \in distribute_vault_rewards(p, v)}

-----------------------------------------------------------------------------
(* Nomination pallet                                                       *)

required_collateral(v, threshold) ==
    checked_mul(checked_mul(vaults[v].backed, exchangeRate), threshold)

(* FALSE stands for an error as well: both end the calls below.            *)
is_allowed_to_withdraw_collateral(v, amount) ==
    LET rest == backing(pools, v) - amount IN
    /\ backing(pools, v) >= 0 /\ rest >= 0
    /\ rest = 0 \/ rest >= MinimumCollateral
    /\ checked_div(checked_div(rest, exchangeRate), SecureThreshold) >= vaults[v].backed

set_nomination_enabled(enabled) ==
    /\ operations < MaxOperations
    /\ nomination' = [nomination EXCEPT !.enabled = enabled]
    /\ operations' = operations + 1
    /\ UNCHANGED <<pools, vaults, ledger, exchangeRate>>

opt_in_to_nomination(v) ==
    /\ nomination.enabled
    /\ v \notin nomination.opted
    /\ nomination' = [nomination EXCEPT !.opted = @ \cup {v}]
    /\ UNCHANGED <<pools, vaults, ledger, exchangeRate, operations>>

(* The nominators' collateral stays reserved, and is no longer counted.    *)
opt_out_of_nomination(v) ==
    /\ v \in nomination.opted
    /\ pools.staking[v].nonce < MaxNonce
    /\ total_nominated(pools, v) >= 0
    /\ is_allowed_to_withdraw_collateral(v, total_nominated(pools, v))
    /\ \E q \in distribute_vault_rewards(pools, v) :
          LET refunded == S!refunded_collateral(q.staking[v], v) IN
          /\ pools' \in kick_nominators(pools, v)
          /\ 0 <= refunded /\ refunded <= ledger.total
          /\ ledger' = [ledger EXCEPT !.total = @ - refunded]
    /\ nomination' = [nomination EXCEPT !.opted = @ \ {v}]
    /\ UNCHANGED <<vaults, exchangeRate, operations>>

set_nomination_limit(v, limit) ==
    /\ nomination' = [nomination EXCEPT !.limit[v] = limit]
    /\ UNCHANGED <<pools, vaults, ledger, exchangeRate, operations>>

within_limit(v, amount) ==
    /\ total_nominated(pools, v) >= 0
    /\ total_nominated(pools, v) + amount <= nomination.limit[v]

deposit_collateral(v, n, amount) ==
    /\ operations < MaxOperations
    /\ n # v => nomination.enabled /\ v \in nomination.opted /\ within_limit(v, amount)
    /\ ledger.total + amount <= Ceiling
    /\ pools' \in pool_deposit(pools, v, n, amount)
    /\ ledger' = [ledger EXCEPT !.reserved[v] = @ + amount, !.total = @ + amount]
    /\ operations' = operations + 1
    /\ UNCHANGED <<vaults, nomination, exchangeRate>>

(* What the pool gives up (a fixed-point number) and what is paid out.     *)
withdraw(v, n, taken, paid, index) ==
    /\ operations < MaxOperations
    /\ paid <= ledger.reserved[v] /\ paid <= ledger.total
    /\ pools' \in pool_withdraw(pools, v, n, taken, index)
    /\ ledger' = [ledger EXCEPT !.reserved[v] = @ - paid, !.total = @ - paid]
    /\ operations' = operations + 1
    /\ UNCHANGED <<vaults, nomination, exchangeRate>>

may_withdraw(v, n, rest_of, index) ==
    index = pools.staking[v].nonce =>
        /\ is_allowed_to_withdraw_collateral(v, rest_of)
        /\ n # v => nomination.enabled /\ v \in nomination.opted

withdraw_collateral(v, n, amount, index) ==
    /\ index <= pools.staking[v].nonce
    /\ may_withdraw(v, n, amount, index)
    /\ withdraw(v, n, to_fixed(amount), amount, index)

(* Without an amount: the whole stake, as it is after the distribution.    *)
withdraw_all_collateral(v, n, index) ==
    LET precise == S!compute_precise_stake(pools.staking[v].pool[index], n) IN
    /\ index <= pools.staking[v].nonce
    /\ may_withdraw(v, n, backing(pools, v), index)
    /\ withdraw(v, n, precise, truncate_to_inner(precise), index)

-----------------------------------------------------------------------------
(* Vault registry, as far as stakes and fees are concerned                 *)

accept_new_issues(v, accepts) ==
    /\ vaults[v].status # "liquidated"
    /\ vaults' = [vaults EXCEPT ![v].status = IF accepts THEN "accepting" ELSE "paused"]
    /\ pools' \in UNION {set_reward_stake(p, v, accepts) :
                            p \in distribute_vault_rewards(pools, v)}
    /\ UNCHANGED <<ledger, nomination, exchangeRate, operations>>

(* Requests and settlements of the issue and redeem pallets.               *)
change_tokens(v, backed, to_be_redeemed) ==
    /\ vaults[v].status # "liquidated"
    /\ to_be_redeemed <= backed
    /\ backed > vaults[v].backed =>
           checked_div(checked_div(backing(pools, v), exchangeRate), SecureThreshold) >= backed
    /\ vaults' = [vaults EXCEPT ![v] = [@ EXCEPT !.backed = backed,
                                                 !.to_be_redeemed = to_be_redeemed]]
    /\ UNCHANGED <<pools, ledger, nomination, exchangeRate, operations>>

(* transfer_funds_saturated out of the collateral, when a redeem fails.    *)
slash_collateral(v, amount) ==
    /\ operations < MaxOperations
    /\ vaults[v].status # "liquidated"
    /\ vaults[v].to_be_redeemed > 0
    /\ backing(pools, v) >= 0
    /\ LET taken == min(amount, backing(pools, v)) IN
       /\ taken <= ledger.reserved[v] /\ taken <= ledger.total
       /\ pools' \in pool_slash(pools, v, taken)
       /\ ledger' = [ledger EXCEPT !.reserved[v] = @ - taken, !.total = @ - taken]
    /\ operations' = operations + 1
    /\ UNCHANGED <<vaults, nomination, exchangeRate>>

(* slash_to_liquidation_vault: the vault's own stake first, the rest from  *)
(* everyone's.                                                             *)
slash_to_liquidation_vault(p, v, amount) ==
    LET own == min(amount, vault_collateral(p, v)) IN
    UNION {IF own < amount THEN pool_slash(q, v, amount - own) ELSE {q} :
              q \in pool_withdraw(p, v, v, to_fixed(own), p.staking[v].nonce)}

(* The reward stake of a liquidated vault is set to zero at the end, and   *)
(* the capacity pool is not told.                                          *)
liquidate_vault(v) ==
    LET w == vaults[v]
        liquidated == min(backing(pools, v), required_collateral(v, LiquidationThreshold))
        excluding_to_be_redeemed ==
            calculate_collateral(liquidated, w.backed - w.to_be_redeemed, w.backed)
        held == min(vault_collateral(pools, v), liquidated - excluding_to_be_redeemed)
    IN
    /\ w.status # "liquidated"
    /\ backing(pools, v) >= 0
    /\ checked_div(checked_div(backing(pools, v), exchangeRate), LiquidationThreshold) < w.backed
    /\ excluding_to_be_redeemed <= ledger.reserved[v]
    /\ \E p \in UNION {slash_to_liquidation_vault(q, v, excluding_to_be_redeemed) :
                          q \in pool_withdraw(pools, v, v, to_fixed(held),
                                              pools.staking[v].nonce)} :
          \E pool \in R!set_stake(p.vault, v, 0) : pools' = [p EXCEPT !.vault = pool]
    /\ ledger' = [ledger EXCEPT !.reserved[v] = @ - excluding_to_be_redeemed,
                                !.lv = @ + excluding_to_be_redeemed]
    /\ vaults' = [vaults EXCEPT ![v] = [@ EXCEPT !.status = "liquidated", !.backed = 0,
                                                 !.liquidated = held]]
    /\ UNCHANGED <<nomination, exchangeRate, operations>>

(* A redeem of a liquidated vault is executed: the vault is given back the *)
(* share of the collateral that was held for it.                           *)
redeem_tokens(v, tokens) ==
    LET w == vaults[v]
        to_be_released == calculate_collateral(w.liquidated, tokens, w.to_be_redeemed)
    IN
    /\ w.status = "liquidated"
    /\ tokens \in 1..w.to_be_redeemed
    /\ to_be_released <= ledger.reserved[v] /\ to_be_released <= ledger.total
    /\ ledger' = [ledger EXCEPT !.reserved[v] = @ - to_be_released,
                                !.total = @ - to_be_released]
    /\ vaults' = [vaults EXCEPT ![v] = [w EXCEPT !.to_be_redeemed = @ - tokens,
                                                 !.liquidated = @ - to_be_released]]
    /\ UNCHANGED <<pools, nomination, exchangeRate, operations>>

recover_vault_id(v) ==
    /\ vaults[v].status = "liquidated"
    /\ vaults[v].to_be_redeemed = 0
    /\ vaults' = [vaults EXCEPT ![v].status = "accepting"]
    /\ UNCHANGED <<pools, ledger, nomination, exchangeRate, operations>>

(* on_exchange_rate_change: an error is dropped.                           *)
update_exchange_rate(rate) ==
    /\ exchangeRate' = rate
    /\ rate # exchangeRate
    /\ LET updated == update_capacity_stake(pools, rate) IN
       IF updated = {} THEN UNCHANGED pools ELSE pools' \in updated
    /\ UNCHANGED <<vaults, ledger, nomination, operations>>

Next ==
    \/ \E amount \in FeeAmounts : distribute_rewards(amount)
    \/ \E v \in Vaults : \E n \in Nominators \cup {v}, i \in 0..MaxNonce :
          withdraw_rewards(v, n, i)
    \/ \E v \in Vaults, c \in Commissions : set_commission(v, c)
    \/ \E enabled \in BOOLEAN : set_nomination_enabled(enabled)
    \/ \E v \in Vaults : opt_in_to_nomination(v)
    \/ \E v \in Vaults : opt_out_of_nomination(v)
    \/ \E v \in Vaults, l \in Limits : set_nomination_limit(v, l)
    \/ \E v \in Vaults : \E n \in Nominators \cup {v}, a \in CollateralAmounts :
          deposit_collateral(v, n, a)
    \/ \E v \in Vaults : \E n \in Nominators \cup {v}, i \in 0..MaxNonce, a \in CollateralAmounts :
          withdraw_collateral(v, n, a, i)
    \/ \E v \in Vaults : \E n \in Nominators \cup {v}, i \in 0..MaxNonce :
          withdraw_all_collateral(v, n, i)
    \/ \E v \in Vaults, b \in BOOLEAN : accept_new_issues(v, b)
    \/ \E v \in Vaults, x, y \in TokenAmounts : change_tokens(v, x, y)
    \/ \E v \in Vaults, a \in CollateralAmounts : slash_collateral(v, a)
    \/ \E v \in Vaults : liquidate_vault(v)
    \/ \E v \in Vaults, t \in TokenAmounts : redeem_tokens(v, t)
    \/ \E v \in Vaults : recover_vault_id(v)
    \/ \E rate \in Rates : update_exchange_rate(rate)

Spec == Init /\ [][Next]_vars

-----------------------------------------------------------------------------
(* Properties                                                              *)

pool(v, i) == pools.staking[v].pool[i]

TypeOK ==
    /\ \A v \in Vaults : pools.staking[v].nonce \in 0..MaxNonce
    /\ \A v \in Vaults, i \in 0..MaxNonce, n \in Stakers :
          {pool(v, i).stake[n], pool(v, i).tally[n], pool(v, i).slash_tally[n]} \subseteq Int
    /\ pools.fee_pool \in Nat
    /\ \A v \in Vaults : ledger.reserved[v] \in Nat
    /\ ledger.total \in Nat /\ ledger.lv \in Nat
    /\ nomination.opted \subseteq Vaults
    /\ exchangeRate \in Rates
    /\ operations \in 0..MaxOperations

(* Slashes are applied to one staker at a time, whenever that staker is    *)
(* next touched; the total follows every time (apply_slash).               *)
TotalStakeIsSum ==
    \A v \in Vaults, i \in 0..MaxNonce :
        pool(v, i).total = MapThenSumSet(LAMBDA n : pool(v, i).stake[n], Stakers)

(* The books of the pools: typed, nothing below zero that is held, and the *)
(* totals what the stakers have.                                           *)
PoolsConsistent == TypeOK /\ TotalStakeIsSum

Sum(Op(_), T) == MapThenSumSet(Op, T)

(* What a staker has left, below zero when slashes took more than that.    *)
left(v, i, n) == pool(v, i).stake[n] - S!amount_to_slash(pool(v, i), n)

(* Stakes are negative after a withdrawal from an old pool that took more  *)
(* than the staker had there, and after a slash that was spread over stake *)
(* that earlier slashes had already used up.                               *)
NoNegativeStake ==
    \A v \in Vaults, i \in 0..MaxNonce, n \in Stakers :
        pool(v, i).stake[n] >= 0 /\ left(v, i, n) >= 0

(* TotalCurrentStake is what the stakers of the pool have left together,   *)
(* however many slashes each of them has yet to see: less than one unit of *)
(* collateral is lost or made by the roundings.                            *)
SlashesConserveStake ==
    NoNegativeStake =>
        \A v \in Vaults, i \in 0..MaxNonce :
            magnitude(Sum(LAMBDA n : left(v, i, n), Stakers) - pool(v, i).current) < ONE

(* The rewards the stakers can still claim, in all pools.                  *)
owed ==
    Sum(LAMBDA v : Sum(LAMBDA i : Sum(LAMBDA n :
            fixed_mul(S!compute_precise_stake(pool(v, i), n), pool(v, i).per_token)
                - pool(v, i).tally[n],
            Stakers), 0..MaxNonce), Vaults)
    + Sum(LAMBDA v : fixed_mul(pools.vault.stake[v], pools.vault.per_token)
                         - pools.vault.tally[v], Vaults)
    + fixed_mul(pools.capacity.total, pools.capacity.per_token)
        - pools.capacity.tally[Currency]

surplus == to_fixed(pools.fee_pool) - owed

(* The fee pool can pay every reward that was ever promised, wherever it   *)
(* is on its way down, up to the roundings.                                *)
RewardsCovered == NoNegativeStake => surplus > -ONE

(* A slash takes nobody's past rewards: the share of the slashed stake is  *)
(* given to the stake that remains.  (Each of the two withdrawals on the   *)
(* way down drops a fraction, and the slash rounds: three units.)          *)
SlashKeepsRewards ==
    [][ \A v \in Vaults :
          LET i == pools.staking[v].nonce IN
          /\ NoNegativeStake /\ NoNegativeStake'
          /\ pool(v, i)'.slash_per_token # pool(v, i).slash_per_token
          /\ pool(v, i)'.current > 0
          => surplus' < surplus + 3 * ONE ]_vars

(* Rewards can always be passed down to the vaults: fees are only accepted *)
(* into the capacity pool while the vault pool below has stake, because    *)
(* changes of reward stake are "also propagate[d] to capacity pool".       *)
(* Violated: liquidation sets the reward stake and does not propagate, and *)
(* with it every deposit, withdrawal and slash of the currency fails.      *)
RewardsMayFlow == \A v \in Vaults : distribute_vault_rewards(pools, v) # {}
=============================================================================
