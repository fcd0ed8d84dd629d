------------------------------- MODULE Farming -------------------------------
(***************************************************************************)
(* The farming pallet (crates/farming) on top of the general exchange: LP  *)
(* tokens are reserved as stake, and root's schedule pays a reward to the  *)
(* stakers every RewardPeriod.  One pool is modelled (its LP token and its *)
(* reward currency are constants); pools share nothing.  The calls of both *)
(* pallets interleave, as LP tokens are reserved here and spent there.     *)
(***************************************************************************)
EXTENDS DexGeneral, SignedFixed

CONSTANTS PoolToken, RewardCurrency, RewardPeriod, TreasuryFunds,
          PeriodCounts, RewardAmounts,          \* of the schedules root sets
          LiquidityAmounts, SwapAmounts, Paths, FeeRates, FeePoints,
          BootstrapParams, ContributionAmounts, ChargeAmounts,
          MaxHeight,            \* bound: the last block
          MaxCalls              \* bound: calls in a behaviour

ASSUME FarmingAssumption ==
    /\ PoolToken \in Pairs /\ RewardCurrency \in Assets
    /\ RewardPeriod \in Nat \ {0}
    /\ {"farm", "treasury"} \subseteq OtherAccounts
    /\ {MaxHeight, MaxCalls, TreasuryFunds} \subseteq Nat

VARIABLES dex,
          farm,         \* the RewardSchedule, its reward pool and the reserved LP tokens
          promised,     \* history: what stakers had earned when the schedule was set
          paid,         \* history: bootstrap rewards claimed, and paid a second time
          height, calls

vars == <<dex, farm, promised, paid, height, calls>>

R == INSTANCE Rewards

NoSchedule == [period_count |-> 0, per_period |-> 0]

NewFarm ==
    [schedule |-> NoSchedule, pool |-> R!NewPool(Users), reserved |-> [u \in Users |-> 0]]

FundedDex == [NewDex EXCEPT !.tokens["treasury"][RewardCurrency] = TreasuryFunds]

NothingPaid ==
    [claimed |-> [p \in Pairs |-> [a \in Assets |-> 0]], twice |-> [a \in Assets |-> 0]]

Init ==
    /\ dex = FundedDex
    /\ farm = NewFarm
    /\ promised = 0
    /\ paid = NothingPaid
    /\ height = 0 /\ calls = 0

pool_balance == dex.tokens["farm"][RewardCurrency]

(* What the stakers could claim now, in whole units, and what they have    *)
(* earned, in fixed point: a fraction of a unit is not paid.               *)
owed == MapThenSumSet(LAMBDA u : R!compute_reward(farm.pool, u), Users)
claims == MapThenSumSet(LAMBDA u : fixed_mul(farm.pool.stake[u], farm.pool.per_token)
                                       - farm.pool.tally[u], Users)
remaining(f) == f.schedule.period_count * f.schedule.per_period

-----------------------------------------------------------------------------
(* Farming                                                                 *)

(* A schedule that could not be distributed (no stake) is not advanced; a  *)
(* finished one is removed.                                                *)
on_initialize ==
    LET now == height + 1
        s == farm.schedule
        taken == [s EXCEPT !.period_count = @ - 1]
        pools == R!distribute_reward(farm.pool, to_fixed(s.per_period))
    IN
    /\ height < MaxHeight
    /\ height' = now
    /\ farm' \in IF now % RewardPeriod # 0 THEN {farm}
                 ELSE IF s.period_count = 0 THEN {[farm EXCEPT !.schedule = NoSchedule]}
                 ELSE IF pools = {} THEN {farm}
                 ELSE {[farm EXCEPT !.schedule = taken, !.pool = p] : p \in pools}
    /\ UNCHANGED <<dex, promised, paid, calls>>

Call ==
    /\ calls < MaxCalls
    /\ calls' = calls + 1
    /\ UNCHANGED height

(* Mutant: the rate is rounded up.                                         *)
per_period_rounded_up(total, periods) ==
    IF periods = 0 THEN 0 ELSE (total + periods - 1) \div periods

per_period(total, periods) == IF periods = 0 THEN 0 ELSE total \div periods

(* The whole balance of the pool's account is spread over the periods,     *)
(* rewards that were distributed and not claimed yet included.             *)
update_reward_schedule(periods, amount) ==
    /\ Call
    /\ dex' \in transfer(dex, RewardCurrency, "treasury", "farm", amount)
    /\ LET count == farm.schedule.period_count + periods IN
       farm' = [farm EXCEPT !.schedule =
                   [period_count |-> count,
                    per_period |-> per_period(dex'.tokens["farm"][RewardCurrency], count)]]
    /\ promised' = claims
    /\ UNCHANGED paid

(* Unclaimed rewards go to the treasury with the rest.                     *)
remove_reward_schedule ==
    /\ Call
    /\ dex' \in transfer(dex, RewardCurrency, "farm", "treasury", pool_balance)
    /\ farm' = [farm EXCEPT !.schedule = NoSchedule]
    /\ promised' = claims
    /\ UNCHANGED paid

deposit(who) ==
    LET amount == dex.tokens[who][PoolToken] IN
    /\ Call
    /\ dex' = [dex EXCEPT !.tokens[who][PoolToken] = 0]
    /\ farm' = [farm EXCEPT !.reserved[who] = @ + amount,
                            !.pool = R!deposit_stake(@, who, to_fixed(amount))]
    /\ UNCHANGED <<promised, paid>>

withdraw(who, amount) ==
    /\ Call
    /\ amount <= farm.reserved[who]
    /\ dex' = [dex EXCEPT !.tokens[who][PoolToken] = @ + amount]
    /\ farm' \in {[farm EXCEPT !.reserved[who] = @ - amount, !.pool = p] :
                     p \in R!withdraw_stake(farm.pool, who, to_fixed(amount))}
    /\ UNCHANGED <<promised, paid>>

claim(who) ==
    LET reward == R!compute_reward(farm.pool, who) IN
    /\ Call
    /\ farm' \in {[farm EXCEPT !.pool = p] : p \in R!withdraw_reward(farm.pool, who)}
    /\ dex' \in transfer(dex, RewardCurrency, "farm", who, reward)
    /\ UNCHANGED <<promised, paid>>

-----------------------------------------------------------------------------
(* The exchange                                                            *)

DexCall(results) ==
    /\ Call
    /\ dex' \in results
    /\ UNCHANGED <<farm, promised>>

Dex(results) == DexCall(results) /\ UNCHANGED paid

SetFeeReceiver(to) == Dex({[dex EXCEPT !.fee_to = to]})
SetFeePoint(point) == Dex({[dex EXCEPT !.fee_point = point]})

(* Anyone may send tokens to the account of a pair.                        *)
SendToPair(who, p, a, amount) == Dex(transfer(dex, a, who, p, amount))

Claim(who, recipient, p) ==
    /\ DexCall(bootstrap_claim(dex, who, recipient, p, height))
    /\ paid' = [paid EXCEPT !.claimed[p] =
                   [a \in Assets |-> @[a] + dex.tokens[Boot][a] - dex'.tokens[Boot][a]]]

(* What was claimed before is paid once more.                              *)
WithdrawReward(p, recipient) ==
    /\ DexCall(bootstrap_withdraw_reward(dex, p, recipient))
    /\ paid' = [claimed |-> [paid.claimed EXCEPT ![p] = NothingPaid.claimed[p]],
                twice |-> [a \in Assets |-> paid.twice[a] + paid.claimed[p][a]]]

DexNext ==
    \/ \E to \in {NoOne, "treasury"} : SetFeeReceiver(to)
    \/ \E point \in FeePoints : SetFeePoint(point)
    \/ \E p \in Pairs, f \in FeeRates : Dex(set_exchange_fee(dex, p, f))
    \/ \E p \in Pairs, f \in FeeRates : Dex(create_pair(dex, p, f, height))
    \/ \E u \in Users, p \in Pairs, x, y \in LiquidityAmounts : Dex(add_liquidity(dex, u, p, x, y))
    \/ \E u, r \in Users, p \in Pairs :
          \E x \in LiquidityAmounts \cup {dex.tokens[u][p]} : Dex(remove_liquidity(dex, u, p, x, r))
    \/ \E u, r \in Users, path \in Paths, x \in SwapAmounts :
          Dex(swap_exact_assets_for_assets(dex, u, r, x, path))
    \/ \E u, r \in Users, path \in Paths, x \in SwapAmounts :
          Dex(swap_assets_for_exact_assets(dex, u, r, x, path))
    \/ \E u \in Users, p \in Pairs, x \in SwapAmounts : SendToPair(u, p, PairAssets[p][1], x)
    \/ \E p \in Pairs, b \in BootstrapParams : Dex(bootstrap_create(dex, p, b, height))
    \/ \E p \in Pairs, b \in BootstrapParams : Dex(bootstrap_update(dex, p, b))
    \/ \E u \in Users, p \in Pairs, x, y \in ContributionAmounts :
          Dex(bootstrap_contribute(dex, u, p, x, y, height))
    \/ \E p \in Pairs : Dex(bootstrap_end(dex, p, height))
    \/ \E u, r \in Users, p \in Pairs : Claim(u, r, p)
    \/ \E u \in Users, p \in Pairs : Dex(bootstrap_refund(dex, u, p, height))
    \/ \E u \in Users, p \in Pairs, x \in ChargeAmounts :
          Dex(bootstrap_charge_reward(dex, u, p, x))
    \/ \E p \in Pairs : WithdrawReward(p, "treasury")

Next ==
    \/ on_initialize
    \/ \E n \in PeriodCounts, a \in RewardAmounts : update_reward_schedule(n, a)
    \/ remove_reward_schedule
    \/ \E u \in Users : deposit(u)
    \/ \E u \in Users, x \in LiquidityAmounts : withdraw(u, x)
    \/ \E u \in Users : claim(u)
    \/ DexNext

Spec == Init /\ [][Next]_vars

-----------------------------------------------------------------------------
(* Properties                                                              *)

TypeOK ==
    /\ \A h \in Holders, a \in Assets \cup Pairs : dex.tokens[h][a] \in Nat
    /\ \A p \in Pairs : dex.status[p].kind \in {"disable", "trading", "bootstrap"}
    /\ \A u \in Users : farm.reserved[u] \in Nat
    /\ farm.schedule.period_count \in Nat
    /\ height \in 0..MaxHeight /\ calls \in 0..MaxCalls

lp_tokens(p) ==
    MapThenSumSet(LAMBDA h : dex.tokens[h][p], Holders)
        + (IF p = PoolToken THEN MapThenSumSet(LAMBDA u : farm.reserved[u], Users) ELSE 0)

(* The supply shares are computed from counts every LP token there is,     *)
(* those that wait for a bootstrap claim or are farmed included, and each  *)
(* farmed token is stake once.                                             *)
LpTokensCounted ==
    /\ \A p \in Pairs : lp_tokens(p) = IF is_trading(dex, p) THEN dex.status[p].total_supply ELSE 0
    /\ \A u \in Users : farm.pool.stake[u] = to_fixed(farm.reserved[u])

(* The contributions of asset a that may have to be returned.              *)
refundable(a) ==
    MapThenSumSet(LAMBDA p :
        IF is_trading(dex, p) /\ ~bootstrap_disable(dex.end_status[p], height) THEN 0
        ELSE MapThenSumSet(LAMBDA u :
                dex.personal[p][u][IF PairAssets[p][1] = a THEN 1 ELSE 2], Users),
        {p \in Pairs : /\ a \in {PairAssets[p][1], PairAssets[p][2]}
                       /\ is_bootstrap(dex, p) \/ dex.end_status[p].kind = "bootstrap"})

(* The rewards in asset a that were charged and not claimed.               *)
unclaimed(a) ==
    MapThenSumSet(LAMBDA p : dex.rewards[p][a] - paid.claimed[p][a],
                  {p \in Pairs : a \in DOMAIN dex.rewards[p]})

(* All pairs share one bootstrap account.  It holds every contribution     *)
(* that may have to be returned and every reward that can still be         *)
(* claimed, whatever the other bootstraps did, with one exception: when    *)
(* root withdraws the rewards of a bootstrap, those that were claimed      *)
(* before are paid a second time, out of what belongs to the others, and   *)
(* exactly that much may be missing.                                       *)
ContributionsHeld ==
    \A a \in Assets : dex.tokens[Boot][a] + paid.twice[a] >= refundable(a) + unclaimed(a)

(* The LP tokens of a successful bootstrap are enough for every claim that *)
(* is still open: the rounding of the shares never favours a claimer.      *)
ClaimsCovered ==
    \A p \in Pairs :
        is_trading(dex, p) /\ dex.end_status[p].kind = "bootstrap"
            /\ ~bootstrap_disable(dex.end_status[p], height)
        => dex.tokens[p][p] >=
              MapThenSumSet(LAMBDA u : claim_liquidity(dex.personal[p][u],
                                                       dex.end_status[p].accumulated), Users)

(* A bootstrap gives every contributor the contribution or its LP tokens.  *)
BootstrapCovered == ContributionsHeld /\ ClaimsCovered

(* The protocol's fee is measured from a product the pair really had: what *)
(* is remembered is never more than what is there.                         *)
KLastNotAhead == \A p \in Pairs : dex.k_last[p] <= product(dex, p)

(* The books of the pairs: nothing below zero, every LP token counted, and *)
(* no growth remembered that was not there.                                *)
PairsConsistent == TypeOK /\ LpTokensCounted /\ KLastNotAhead

(* Nothing anyone does makes a share of a pair worth less while there is   *)
(* no protocol fee: product / supply^2 never decreases, with swaps along   *)
(* any path that uses no pair twice in one direction.                      *)
SharesKeepWorth ==
    [][ \A p \in Pairs :
          /\ is_trading(dex, p) /\ is_trading(dex, p)' /\ dex.fee_to = NoOne
          /\ dex.status[p].total_supply > 0 /\ dex'.status[p].total_supply > 0
          => product(dex, p)' * dex.status[p].total_supply * dex.status[p].total_supply
             >= product(dex, p) * dex'.status[p].total_supply * dex'.status[p].total_supply ]_vars

(* The pool's account pays what stakers are owed and what is scheduled but *)
(* for what had been earned when the schedule was set, which it spreads    *)
(* again: the shortfall does not grow, roundings included.                 *)
FarmFunded ==
    to_fixed(owed + remaining(farm)) <= to_fixed(pool_balance) + promised
=============================================================================
