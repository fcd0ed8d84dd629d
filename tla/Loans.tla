-------------------------------- MODULE Loans --------------------------------
(***************************************************************************)
(* The lending pallet (crates/loans): money markets in which an account    *)
(* mints lend tokens for an underlying asset, locks them as collateral and *)
(* borrows against them; interest accrues lazily, whenever a market is     *)
(* touched, and incentive rewards are spread by index.                     *)
(*                                                                         *)
(* The state is one record, since nearly every call changes several        *)
(* storage items of two or three accounts; a fallible call is the set of   *)
(* its results.  The time of a block is its number.  Stored but never read *)
(* by the pallet, and left out: ExchangeRate, BorrowRate, SupplyRate and   *)
(* UtilizationRatio.                                                       *)
(***************************************************************************)
EXTENDS Amounts, FiniteSetsExt

CONSTANTS Assets, Reference,    \* underlying currencies; the one values are expressed in
          Users, Pallet, Incentive,
          Configs,              \* market parameters governance may choose
          RateModels,           \* interest rate models governance may choose
          LoanAmounts,          \* amounts a call may name
          Funds,                \* of each asset that each user starts with
          LoanPrices,           \* oracle prices of the other asset; 0: no price
          RewardSpeeds, RewardScale,
          MinExchangeRate, MaxExchangeRate, SECONDS_PER_YEAR,
          MaxBlock, MaxLoanOperations   \* bounds: blocks; calls after the setup

ASSUME LoansAssumption ==
    /\ Reference \in Assets
    /\ Pallet # Incentive /\ {Pallet, Incentive} \cap Users = {}
    /\ LoanAmounts \cup LoanPrices \cup RewardSpeeds \subseteq Nat
    /\ {MaxBlock, MaxLoanOperations, Funds} \subseteq Nat
    /\ {RewardScale, MinExchangeRate, SECONDS_PER_YEAR} \subseteq Nat \ {0}

VARIABLES loans,        \* the storage of the pallet and the balances it moves
          price,        \* what the oracle says of the assets that are not the reference
          now,          \* block number and time
          calls,        \* how many bounded calls were made
          promised      \* history: incentive rewards of past blocks that are not yet paid

vars == <<loans, price, now, calls, promised>>

Holders == Users \cup {Pallet, Incentive}
ByAsset(x) == [a \in Assets |-> x]
ByHolder(x) == [a \in Assets |-> [h \in Holders |-> x]]

(* Before add_market a market has no state.                                *)
NewMarket ==
    [state |-> "none", config |-> CHOOSE c \in Configs : TRUE,
     rate_model |-> CHOOSE r \in RateModels : TRUE,
     total_borrows |-> 0, total_reserves |-> 0, borrow_index |-> 0, last_accrued |-> 0,
     supply_speed |-> 0, borrow_speed |-> 0,
     supply_state |-> [index |-> 0, block |-> 0],
     borrow_state |-> [index |-> 0, block |-> 0]]

Genesis ==
    [market |-> ByAsset(NewMarket),
     funds |-> [a \in Assets |-> [h \in Holders |-> IF h \in Users THEN Funds ELSE 0]],
     lend |-> ByHolder([free |-> 0, reserved |-> 0]),
     deposits |-> ByHolder(0),               \* AccountDeposits
     borrows |-> ByHolder([principal |-> 0, index |-> 0]),
     supplier_index |-> ByHolder(0),
     borrower_index |-> ByHolder(0),
     accrued |-> [h \in Holders |-> 0],      \* RewardAccrued
     reward_pool |-> 0]

Init ==
    /\ loans = Genesis
    /\ price \in LoanPrices
    /\ now = 1
    /\ calls = 0
    /\ promised = 0

is_active(L, a) == L.market[a].state = "active"
balance(L, a, h) == L.lend[a][h].free + L.lend[a][h].reserved
total_supply(L, a) == MapThenSumSet(LAMBDA h : balance(L, a, h), Holders)
get_total_cash(L, a) == L.funds[a][Pallet]

-----------------------------------------------------------------------------
(* rate_model.rs and interest.rs                                           *)

(* saturating_pow squares: u^9 = u * ((u^2)^2)^2.                          *)
get_borrow_rate(model, util) ==
    IF model.kind = "curve"
    THEN LET square(x) == checked_mul(x, x)
         IN  checked_mul(util, square(square(square(util)))) + model.base
    ELSE IF util <= model.jump_utilization
    THEN checked_div(checked_mul(model.jump - model.base, util), model.jump_utilization)
            + model.base
    ELSE checked_div(checked_mul(model.full - model.jump, util - model.jump_utilization),
                     DIV - model.jump_utilization) + model.jump

calc_utilization_ratio(cash, borrows, reserves) ==
    IF borrows = 0 THEN {0}
    ELSE Try(cash + borrows >= reserves,
             min(DIV, (borrows * DIV) \div max(1, cash + borrows - reserves)))

(* (1 + rate per second) ^ delta_time, compounded.                         *)
accrue_index(borrow_rate, index, delta_time) ==
    LET base_rate == DIV + borrow_rate \div SECONDS_PER_YEAR
        pow[n \in 0..delta_time] == IF n = 0 THEN DIV ELSE checked_mul(pow[n - 1], base_rate)
    IN  checked_mul(index, pow[delta_time])

calculate_exchange_rate(supply, cash, borrows, reserves) ==
    IF supply = 0 THEN {MinExchangeRate}
    ELSE LET rate == ((cash + borrows - reserves) * DIV) \div supply IN
         Try(cash + borrows >= reserves /\ rate \in MinExchangeRate..(MaxExchangeRate - 1), rate)

exchange_rate_stored(L, a) ==
    calculate_exchange_rate(total_supply(L, a), get_total_cash(L, a),
                            L.market[a].total_borrows, L.market[a].total_reserves)

(* Mutant: the debt of all borrowers together is rounded up.               *)
total_borrows_rounded_up(borrows, old_index, new_index) ==
    mul_rounding_up(borrows, checked_div(new_index, old_index))

(* borrow_balance_from_old_and_new_index, rounded down for the total ...   *)
total_borrows_at(borrows, old_index, new_index) ==
    checked_mul(borrows, checked_div(new_index, old_index))

(* ... and up for the debt of one borrower.                                *)
current_borrow_balance(L, a, h) ==
    LET snapshot == L.borrows[a][h] IN
    IF snapshot.principal = 0 \/ snapshot.index = 0 THEN 0
    ELSE mul_rounding_up(snapshot.principal,
                         checked_div(L.market[a].borrow_index, snapshot.index))

(* The first call only records the time.                                   *)
accrue_interest(L, a) ==
    LET m == L.market[a]
        cash == get_total_cash(L, a)
        accrue(util) ==
            LET index == accrue_index(get_borrow_rate(m.rate_model, util), m.borrow_index,
                                      now - m.last_accrued)
                borrows == total_borrows_at(m.total_borrows, m.borrow_index, index)
                reserves == m.total_reserves
                              + checked_mul(borrows - m.total_borrows, m.config.reserve_factor)
            IN  {[L EXCEPT !.market[a] = [@ EXCEPT !.total_borrows = borrows,
                                                   !.total_reserves = reserves,
                                                   !.borrow_index = index,
                                                   !.last_accrued = now]] :
                    rate \in calculate_exchange_rate(total_supply(L, a), cash, borrows, reserves)}
    IN  IF m.state = "none" THEN {}
        ELSE IF m.last_accrued = 0 THEN {[L EXCEPT !.market[a].last_accrued = now]}
        ELSE IF now <= m.last_accrued THEN {L}
        ELSE UNION {accrue(util) :
                util \in calc_utilization_ratio(cash, m.total_borrows, m.total_reserves)}

(* recompute_underlying_amount and recompute_collateral_amount: a          *)
(* conversion from or to lend tokens accrues first.                        *)
accrue_active(L, a) == IF is_active(L, a) THEN accrue_interest(L, a) ELSE {}
to_underlying(L, a, vouchers) == {checked_mul(vouchers, r) : r \in exchange_rate_stored(L, a)}
to_lend_token(L, a, amount) == {checked_div(amount, r) : r \in exchange_rate_stored(L, a)}

-----------------------------------------------------------------------------
(* farming.rs: incentive rewards                                           *)

calculate_reward_delta_index(delta_block, speed, total_share) ==
    IF total_share = 0 THEN 0 ELSE (delta_block * speed * RewardScale) \div total_share

calculate_reward_delta(share, delta_index) == (share * delta_index) \div RewardScale

updated(state, speed, total_share) ==
    [index |-> state.index + calculate_reward_delta_index(now - state.block, speed, total_share),
     block |-> now]

update_reward_supply_index(L, a) ==
    [L EXCEPT !.market[a].supply_state =
        updated(@, L.market[a].supply_speed, total_supply(L, a))]

update_reward_borrow_index(L, a) ==
    [L EXCEPT !.market[a].borrow_state =
        updated(@, L.market[a].borrow_speed,
                checked_div(L.market[a].total_borrows, L.market[a].borrow_index))]

distribute_supplier_reward(L, a, h) ==
    LET index == L.market[a].supply_state.index IN
    [L EXCEPT !.supplier_index[a][h] = index,
              !.accrued[h] = @ + calculate_reward_delta(balance(L, a, h),
                                                        index - L.supplier_index[a][h])]

distribute_borrower_reward(L, a, h) ==
    LET index == L.market[a].borrow_state.index
        share == checked_div(current_borrow_balance(L, a, h), L.market[a].borrow_index)
    IN  [L EXCEPT !.borrower_index[a][h] = index,
                  !.accrued[h] = @ + calculate_reward_delta(share, index - L.borrower_index[a][h])]

supplier_reward(L, a, h) == distribute_supplier_reward(update_reward_supply_index(L, a), a, h)
borrower_reward(L, a, h) == distribute_borrower_reward(update_reward_borrow_index(L, a), a, h)

collect_market_reward(L, a, h) == borrower_reward(supplier_reward(L, a, h), a, h)

pay_reward(L, h) ==
    Try(L.accrued[h] <= L.reward_pool,
        [L EXCEPT !.reward_pool = @ - L.accrued[h], !.accrued[h] = 0])

-----------------------------------------------------------------------------
(* Values in the reference currency and the liquidity of an account        *)

priced(a) == a = Reference \/ price # 0
get_asset_value(a, amount) == IF a = Reference THEN amount ELSE checked_div(amount, price)
from_value(a, amount) == IF a = Reference THEN amount ELSE checked_mul(amount, price)

(* Only active markets count.                                              *)
debts(L, h) == {a \in Assets : is_active(L, a) /\ current_borrow_balance(L, a, h) > 0}
collateral(L, h) == {a \in Assets : is_active(L, a) /\ L.deposits[a][h] > 0}

total_borrowed_value(L, h) ==
    Try(\A a \in debts(L, h) : priced(a),
        MapThenSumSet(LAMBDA a : get_asset_value(a, current_borrow_balance(L, a, h)), debts(L, h)))

(* The value of lend tokens, weighted with a factor of their market.       *)
weighted_value(L, a, vouchers, factor) ==
    {get_asset_value(a, mul_rounding_up(underlying, factor)) :
        underlying \in IF priced(a) THEN to_underlying(L, a, vouchers) ELSE {}}

(* Of an account's collateral, with the factor of that name.               *)
total_value(L, h, factor) ==
    LET values(a) == weighted_value(L, a, L.deposits[a][h], L.market[a].config[factor]) IN
    Try(\A a \in collateral(L, h) : values(a) # {},
        MapThenSumSet(LAMBDA a : CHOOSE v \in values(a) : TRUE, collateral(L, h)))

total_collateral_value(L, h) == total_value(L, h, "collateral_factor")
total_liquidation_threshold_value(L, h) == total_value(L, h, "liquidation_threshold")

(* Converting an account's collateral accrues interest in those markets,   *)
(* not in the markets it borrowed from.                                    *)
accrue_collateral(L, h) ==
    Try(\A a \in collateral(L, h) : accrue_interest(L, a) # {},
        [L EXCEPT !.market = [a \in Assets |->
            IF a \in collateral(L, h)
            THEN (CHOOSE K \in accrue_interest(L, a) : TRUE).market[a] ELSE @[a]]])

(* A shortfall of zero is neither liquidity nor shortfall.                 *)
ensure_liquidity(L, h, reduce_amount) ==
    \E c \in total_collateral_value(L, h), b \in total_borrowed_value(L, h) :
        saturating_sub(c, b) >= reduce_amount

has_shortfall(L, h) ==
    \E c \in total_liquidation_threshold_value(L, h), b \in total_borrowed_value(L, h) : b > c

-----------------------------------------------------------------------------
(* Lend tokens, with the hooks of the token pallet                         *)

transfer_funds(L, a, from, to, amount) ==
    Try(amount <= L.funds[a][from],
        IF from = to THEN L
        ELSE [L EXCEPT !.funds[a][from] = @ - amount, !.funds[a][to] = @ + amount])

unlock(L, a, h, amount) ==
    Try(amount <= L.lend[a][h].reserved,
        [L EXCEPT !.lend[a][h] = [free |-> @.free + amount, reserved |-> @.reserved - amount]])

lock(L, a, h, amount) ==
    Try(amount <= L.lend[a][h].free,
        [L EXCEPT !.lend[a][h] = [free |-> @.free - amount, reserved |-> @.reserved + amount]])

do_deposit_collateral(L, a, h, amount) ==
    {[K EXCEPT !.deposits[a][h] = @ + amount] :
        K \in IF is_active(L, a) THEN lock(L, a, h, amount) ELSE {}}

(* The "collateral toggle": all lend tokens of an account are collateral   *)
(* or none is.                                                             *)
lock_if_account_deposited(L, a, h, amount) ==
    IF L.deposits[a][h] = 0 THEN {L} ELSE do_deposit_collateral(L, a, h, amount)

(* Mutant: the receiver's rewards are computed with its new balance.       *)
pre_transfer_sender_only(L, a, from, to) == supplier_reward(L, a, from)

pre_transfer(L, a, from, to) ==
    distribute_supplier_reward(supplier_reward(L, a, from), a, to)

mint_lend(L, a, h, amount) ==
    LET K == supplier_reward(L, a, h)
    IN  lock_if_account_deposited([K EXCEPT !.lend[a][h].free = @ + amount], a, h, amount)

transfer_lend(L, a, from, to, amount) ==
    LET K == pre_transfer(L, a, from, to) IN
    IF amount = 0 \/ from = to THEN {L}
    ELSE IF amount > L.lend[a][from].free THEN {}
    ELSE lock_if_account_deposited(
            [K EXCEPT !.lend[a][from].free = @ - amount, !.lend[a][to].free = @ + amount],
            a, to, amount)

-----------------------------------------------------------------------------
(* LoansTrait                                                              *)

(* Mutant: the lend tokens are priced before interest has accrued.         *)
do_mint_before_accrual(L, a, h, amount) ==
    UNION {UNION {UNION {mint_lend(M, a, h, voucher) :
                            M \in transfer_funds(supplier_reward(K, a, h), a, h, Pallet, amount)} :
                     voucher \in to_lend_token(L, a, amount) \ {0}} :
              K \in IF get_total_cash(L, a) + amount <= L.market[a].config.supply_cap
                    THEN accrue_active(L, a) ELSE {}}

do_mint(L, a, h, amount) ==
    UNION {UNION {UNION {mint_lend(M, a, h, voucher) :
                            M \in transfer_funds(supplier_reward(K, a, h), a, h, Pallet, amount)} :
                     voucher \in to_lend_token(K, a, amount) \ {0}} :
              K \in IF get_total_cash(L, a) + amount <= L.market[a].config.supply_cap
                    THEN accrue_active(L, a) ELSE {}}

ensure_enough_cash(L, a, amount) ==
    amount <= get_total_cash(L, a) - L.market[a].total_reserves

set_debt(L, a, h, debt, total_borrows) ==
    [L EXCEPT !.borrows[a][h] = [principal |-> debt, index |-> L.market[a].borrow_index],
              !.market[a].total_borrows = total_borrows]

do_borrow(L, a, h, amount) ==
    LET allowed(K) == /\ K.market[a].total_borrows + amount <= K.market[a].config.borrow_cap
                      /\ ensure_enough_cash(K, a, amount)
                      /\ priced(a)
                      /\ ensure_liquidity(K, h, get_asset_value(a, amount))
        lent(K) == set_debt(K, a, h, current_borrow_balance(K, a, h) + amount,
                            K.market[a].total_borrows + amount)
    IN  UNION {UNION {transfer_funds(lent(borrower_reward(M, a, h)), a, Pallet, h, amount) :
                         M \in {N \in accrue_collateral(K, h) : allowed(N)}} :
                  K \in accrue_active(L, a)}

(* Mutant: the debt is not weighed against the remaining collateral.       *)
withdrawable_ignoring_debt(L, a, h, voucher) ==
    \E c \in total_collateral_value(L, h),
       w \in weighted_value(L, a, voucher, L.market[a].config.collateral_factor) : c >= w

withdrawable(L, a, h, voucher) ==
    \E c \in total_collateral_value(L, h), b \in total_borrowed_value(L, h),
       w \in weighted_value(L, a, voucher, L.market[a].config.collateral_factor) : c >= b + w

do_withdraw_collateral(L, a, h, voucher) ==
    UNION {{[M EXCEPT !.deposits[a][h] = @ - voucher] :
               M \in IF /\ voucher <= K.deposits[a][h] /\ withdrawable(K, a, h, voucher)
                     THEN unlock(K, a, h, voucher) ELSE {}} :
              K \in IF is_active(L, a) THEN accrue_collateral(L, h) ELSE {}}

repaid_total(total_borrows, amount) == saturating_sub(total_borrows, amount)

do_repay_borrow(L, a, h, amount) ==
    UNION {LET debt == current_borrow_balance(K, a, h)
               total == repaid_total(K.market[a].total_borrows, amount)
           IN  IF amount > debt THEN {}
               ELSE {set_debt(M, a, h, debt - amount, total) :
                        M \in transfer_funds(borrower_reward(K, a, h), a, h, Pallet, amount)} :
              K \in accrue_active(L, a)}

redeem_allowed(L, a, h, voucher) ==
    /\ voucher > 0
    /\ voucher <= L.lend[a][h].free
    /\ \E amount \in to_underlying(L, a, voucher) : ensure_enough_cash(L, a, amount)

do_redeem(L, a, h, underlying, voucher) ==
    LET released == IF L.deposits[a][h] = 0 THEN {L}
                    ELSE do_withdraw_collateral(L, a, h, voucher)
        burn(K) == [supplier_reward(K, a, h) EXCEPT !.lend[a][h].free = @ - voucher]
    IN  UNION {UNION {IF redeem_allowed(M, a, h, voucher)
                      THEN transfer_funds(burn(M), a, Pallet, h, underlying) ELSE {} :
                         M \in accrue_active(K, a)} :
                  K \in released}

(* The liquidator repays part of the debt and is given collateral for it,  *)
(* worth liquidate_incentive times as much; part of that goes to the       *)
(* incentive reserve.  The parameters are those of the market borrowed     *)
(* from.                                                                   *)
liquidated_transfer(L, debt_asset, coll_asset, liquidator, borrower, repay, seized) ==
    LET config == L.market[debt_asset].config
        reserved(v) == checked_mul(checked_div(v, config.liquidate_incentive),
                                   config.liquidate_incentive_reserved_factor)
        debt(K) == current_borrow_balance(K, debt_asset, borrower)
        repaid == {set_debt(K, debt_asset, borrower, debt(K) - repay,
                            K.market[debt_asset].total_borrows - repay) :
                      K \in {K \in transfer_funds(borrower_reward(L, debt_asset, liquidator),
                                                  debt_asset, liquidator, Pallet, repay) :
                                repay <= debt(K) /\ repay <= K.market[debt_asset].total_borrows}}
        rewarded(K) == distribute_supplier_reward(
                          pre_transfer(K, coll_asset, liquidator, borrower), coll_asset, Incentive)
        taken(K, v) ==
            {[M EXCEPT !.deposits[coll_asset][borrower] = @ - v] :
                M \in IF v <= K.deposits[coll_asset][borrower]
                      THEN unlock(rewarded(K), coll_asset, borrower, v) ELSE {}}
        paid(K, v) ==
            UNION {transfer_lend(M, coll_asset, borrower, Incentive, reserved(v)) :
                      M \in transfer_lend(K, coll_asset, borrower, liquidator, v - reserved(v))}
    IN  UNION {UNION {UNION {paid(M, v) : M \in taken(K, v)} :
                         v \in {v \in to_lend_token(K, coll_asset, seized) : reserved(v) <= v}} :
                  K \in repaid}

do_liquidate_borrow(L, debt_asset, coll_asset, liquidator, borrower, repay) ==
    LET config == L.market[debt_asset].config
        debt_value == get_asset_value(debt_asset, current_borrow_balance(L, debt_asset, borrower))
        repay_value == get_asset_value(debt_asset, repay)
        liquidate_value == checked_mul(repay_value, config.liquidate_incentive)
        enough(K) == \E u \in to_underlying(K, coll_asset, K.deposits[coll_asset][borrower]) :
                        get_asset_value(coll_asset, u) >= liquidate_value
    IN  IF /\ is_active(L, debt_asset) /\ is_active(L, coll_asset)
           /\ liquidator # borrower
           /\ priced(debt_asset) /\ priced(coll_asset)
           /\ repay_value <= mul_rounding_up(debt_value, config.close_factor)
           /\ L.deposits[coll_asset][borrower] > 0
        THEN UNION {liquidated_transfer(K, debt_asset, coll_asset, liquidator, borrower, repay,
                                        from_value(coll_asset, liquidate_value)) :
                       K \in {K \in accrue_collateral(L, borrower) :
                                 has_shortfall(K, borrower) /\ enough(K)}}
        ELSE {}

-----------------------------------------------------------------------------
(* Extrinsics                                                              *)

(* A bounded call that may fail.                                           *)
Call(results) ==
    /\ calls < MaxLoanOperations
    /\ loans' \in results
    /\ promised' = promised - saturating_sub(loans.reward_pool, loans'.reward_pool)
    /\ calls' = calls + 1
    /\ UNCHANGED <<price, now>>

check_model(model) ==
    IF model.kind = "curve" THEN model.base <= DIV \div 10
    ELSE /\ model.base <= DIV \div 10 /\ model.jump <= DIV /\ model.full <= 5 * DIV
         /\ model.base <= model.jump /\ model.jump <= model.full

valid_config(config) ==
    /\ config.collateral_factor < DIV
    /\ config.liquidation_threshold \in config.collateral_factor..(DIV - 1)
    /\ config.reserve_factor \in 1..(DIV - 1)
    /\ config.supply_cap > 0

add_market(a, config, model) ==
    /\ loans.market[a].state = "none"
    /\ check_model(model)
    /\ valid_config(config)
    /\ config.liquidate_incentive_reserved_factor < DIV
    /\ loans' = [loans EXCEPT !.market[a] =
                    [@ EXCEPT !.state = "pending", !.config = config, !.rate_model = model,
                              !.borrow_index = DIV]]
    /\ UNCHANGED <<price, now, calls, promised>>

activate_market(a) ==
    /\ loans.market[a].state \in {"pending", "supervision"}
    /\ loans' = [loans EXCEPT !.market[a].state = "active"]
    /\ UNCHANGED <<price, now, calls, promised>>

update_rate_model(a, model) ==
    Call(Try(check_model(model) /\ loans.market[a].state # "none",
             [loans EXCEPT !.market[a].rate_model = model]))

(* The reserved factor that is checked is the old one.                     *)
update_market(a, config) ==
    Call(Try(/\ loans.market[a].state # "none"
             /\ valid_config(config)
             /\ loans.market[a].config.liquidate_incentive_reserved_factor < DIV,
             [loans EXCEPT !.market[a].config = config]))

(* Replaces the market, with nothing checked but the rate model; the new   *)
(* market is taken to keep the old model, which update_rate_model changes, *)
(* and the old lend token.  Root may name a fresh one, which leaves the    *)
(* holders of the old token without a market: not modelled.                *)
force_update_market(a, state, config) ==
    Call(Try(loans.market[a].state # "none" /\ check_model(loans.market[a].rate_model),
             [loans EXCEPT !.market[a].state = state, !.market[a].config = config]))

add_reward(amount) ==
    Call(Try(amount > 0, [loans EXCEPT !.reward_pool = @ + amount]))

update_market_reward_speed(a, supply_speed, borrow_speed) ==
    LET m == loans.market[a]
        K == IF supply_speed = m.supply_speed THEN loans
             ELSE [update_reward_supply_index(loans, a) EXCEPT !.market[a].supply_speed = supply_speed]
        M == IF borrow_speed = m.borrow_speed THEN K
             ELSE [update_reward_borrow_index(K, a) EXCEPT !.market[a].borrow_speed = borrow_speed]
    IN  Call(IF is_active(loans, a) THEN {M} ELSE {})

collect_rewards(h) ==
    LET markets == {a \in Assets : loans.market[a].state # "none"}
    IN  FoldSet(LAMBDA a, L : collect_market_reward(L, a, h), loans, markets)

claim_reward(h) == Call(pay_reward(collect_rewards(h), h))

claim_reward_for_market(h, a) ==
    Call(IF loans.market[a].state = "none" THEN {}
         ELSE pay_reward(collect_market_reward(loans, a, h), h))

mint(h, a, amount) == Call(IF amount = 0 THEN {} ELSE do_mint(loans, a, h, amount))

(* Lend tokens are burned for the amount rounded down.                     *)
redeem_from(L, h, a, amount) ==
    UNION {UNION {do_redeem(K, a, h, amount, voucher) : voucher \in to_lend_token(K, a, amount)} :
              K \in IF amount = 0 THEN {} ELSE accrue_active(L, a)}

redeem(h, a, amount) == Call(redeem_from(loans, h, a, amount))

redeem_all(h, a) ==
    LET voucher == balance(loans, a, h) IN
    Call(UNION {UNION {do_redeem(K, a, h, amount, voucher) :
                          amount \in to_underlying(K, a, voucher)} :
                   K \in accrue_active(loans, a)})

borrow(h, a, amount) == Call(IF amount = 0 THEN {} ELSE do_borrow(loans, a, h, amount))

repay_borrow(h, a, amount) ==
    Call(IF amount = 0 THEN {} ELSE do_repay_borrow(loans, a, h, amount))

repay_borrow_all(h, a) ==
    Call(UNION {LET debt == current_borrow_balance(K, a, h) IN
                IF debt = 0 THEN {} ELSE do_repay_borrow(K, a, h, debt) :
                   K \in accrue_active(loans, a)})

deposit_all_collateral(h, a) ==
    LET tokens == loans.lend[a][h] IN
    Call(IF tokens.free > 0 /\ tokens.reserved = 0
         THEN do_deposit_collateral(loans, a, h, tokens.free) ELSE {})

withdraw_all_collateral(h, a) ==
    Call(IF loans.deposits[a][h] = 0 THEN {}
         ELSE do_withdraw_collateral(loans, a, h, loans.deposits[a][h]))

liquidate_borrow(h, borrower, debt_asset, repay, coll_asset) ==
    Call(UNION {UNION {do_liquidate_borrow(M, debt_asset, coll_asset, h, borrower, repay) :
                          M \in accrue_interest(K, coll_asset)} :
                   K \in IF repay = 0 THEN {} ELSE accrue_interest(loans, debt_asset)})

add_reserves(payer, a, amount) ==
    Call({[M EXCEPT !.market[a].total_reserves = @ + amount] :
             M \in UNION {transfer_funds(K, a, payer, Pallet, amount) :
                             K \in IF amount = 0 THEN {} ELSE accrue_active(loans, a)}})

reduce_reserves(receiver, a, amount) ==
    Call(UNION {IF amount = 0 \/ amount > K.market[a].total_reserves THEN {}
                ELSE transfer_funds([K EXCEPT !.market[a].total_reserves = @ - amount],
                                    a, Pallet, receiver, amount) :
                   K \in accrue_active(loans, a)})

reduce_incentive_reserves(receiver, a, amount) ==
    Call(UNION {transfer_funds(K, a, Incentive, receiver, amount) :
                   K \in redeem_from(loans, Incentive, a, amount)})

(* External: a transfer of lend tokens, and their use as collateral of a   *)
(* vault, which reserves them too.                                         *)
transfer_tokens(from, to, a, amount) ==
    Call(IF from = to \/ amount = 0 THEN {} ELSE transfer_lend(loans, a, from, to, amount))

lock_elsewhere(h, a, amount) == Call(IF amount = 0 THEN {} ELSE lock(loans, a, h, amount))

unlock_elsewhere(h, a, amount) ==
    Call(IF amount = 0 \/ amount > loans.lend[a][h].reserved - loans.deposits[a][h] THEN {}
         ELSE unlock(loans, a, h, amount))

set_price(p) == price' = p /\ p # price /\ UNCHANGED <<loans, now, calls, promised>>

NextBlock ==
    /\ now < MaxBlock
    /\ now' = now + 1
    /\ promised' = promised + MapThenSumSet(LAMBDA a : loans.market[a].supply_speed
                                            + loans.market[a].borrow_speed, Assets)
    /\ UNCHANGED <<loans, price, calls>>

Governance(a) ==
    \/ activate_market(a)
    \/ \E config \in Configs :
        \/ update_market(a, config)
        \/ \E model \in RateModels : add_market(a, config, model)
        \/ \E state \in {"active", "supervision"} : force_update_market(a, state, config)
    \/ \E model \in RateModels : update_rate_model(a, model)
    \/ \E supply_speed, borrow_speed \in RewardSpeeds :
            update_market_reward_speed(a, supply_speed, borrow_speed)
    \/ \E amount \in LoanAmounts, h \in Users :
        \/ add_reserves(h, a, amount) \/ reduce_reserves(h, a, amount)
        \/ reduce_incentive_reserves(h, a, amount)

User(h) ==
    \/ claim_reward(h)
    \/ \E a \in Assets :
        \/ claim_reward_for_market(h, a) \/ redeem_all(h, a) \/ repay_borrow_all(h, a)
        \/ deposit_all_collateral(h, a) \/ withdraw_all_collateral(h, a)
        \/ \E amount \in LoanAmounts :
            \/ mint(h, a, amount) \/ redeem(h, a, amount)
            \/ borrow(h, a, amount) \/ repay_borrow(h, a, amount)
            \/ lock_elsewhere(h, a, amount) \/ unlock_elsewhere(h, a, amount)
            \/ \E other \in Users :
                \/ transfer_tokens(h, other, a, amount)
                \/ \E b \in Assets : liquidate_borrow(h, other, a, amount, b)

Next ==
    \/ \E a \in Assets : Governance(a)
    \/ \E amount \in LoanAmounts : add_reward(amount)
    \/ \E h \in Users : User(h)
    \/ \E p \in LoanPrices : set_price(p)
    \/ NextBlock

Spec == Init /\ [][Next]_vars

-----------------------------------------------------------------------------
(* The amounts are balances: no step takes more than there is.             *)
TypeOK ==
    /\ \A a \in Assets :
        /\ loans.market[a].state \in {"none", "pending", "active", "supervision"}
        /\ {loans.market[a].total_borrows, loans.market[a].total_reserves} \subseteq Nat
        /\ \A h \in Holders :
            /\ loans.lend[a][h] \in [free : Nat, reserved : Nat]
            /\ {loans.funds[a][h], loans.deposits[a][h], loans.borrows[a][h].principal} \subseteq Nat
    /\ loans.accrued \in [Holders -> Nat] /\ loans.reward_pool \in Nat
    /\ price \in LoanPrices /\ now \in 1..MaxBlock /\ calls \in 0..MaxLoanOperations

(* The "collateral toggle" of deposit_all_collateral: an account whose     *)
(* lend tokens are collateral has no free ones and none reserved for       *)
(* another purpose, whoever sends it more.                                 *)
CollateralToggle ==
    \A a \in Assets, h \in Holders :
        loans.deposits[a][h] > 0 =>
            loans.lend[a][h] = [free |-> 0, reserved |-> loans.deposits[a][h]]

(* "total_borrows ... needs to be less than or equal to the sum of         *)
(* current_borrow_balance": otherwise lend tokens are worth more than the  *)
(* borrowers will pay back.                                                *)
BorrowsRoundedDown ==
    \A a \in Assets : loans.market[a].total_borrows <=
                          MapThenSumSet(LAMBDA h : current_borrow_balance(loans, a, h), Users)

(* The books of lend tokens and debts: nothing below zero, collateral is   *)
(* all of an account's lend tokens or none, and the recorded total of the  *)
(* debts, which lend tokens are valued with, is never more than is owed.   *)
LendTokensConsistent == TypeOK /\ CollateralToggle /\ BorrowsRoundedDown

(* What all accounts could claim together was set aside for some block,    *)
(* however lend tokens and speeds changed in between.  It holds for the    *)
(* rewards of suppliers; those of borrowers are shared out by debts that   *)
(* are rounded up, over a total that is rounded down.                      *)
IncentivesPromised ==
    (\A a \in Assets : loans.market[a].borrow_speed = 0 /\ loans.market[a].borrow_state.index = 0)
    => MapThenSumSet(LAMBDA h : collect_rewards(h).accrued[h], Holders) <= promised

(* What the lend tokens of a market stand for once interest has accrued.   *)
worth(a) ==
    {get_total_cash(L, a) + L.market[a].total_borrows - L.market[a].total_reserves :
        L \in accrue_interest(loans, a)}

(* No step dilutes the other suppliers by as much as one lend token: what  *)
(* roundings give away is less than that.  (A new rate model is applied to *)
(* the time since the last accrual too, so those steps are left out.)      *)
SuppliersKeepWorth ==
    [][ \A a \in Assets :
          /\ loans'.market[a].rate_model = loans.market[a].rate_model
          /\ loans'.market[a].config = loans.market[a].config
          /\ total_supply(loans, a) > 0 /\ total_supply(loans', a) > 0
          => \A w1 \in worth(a), w2 \in worth(a)' :
                w2 * total_supply(loans, a) > w1 * (total_supply(loans', a) - 1) ]_vars

(* The debt of an account in a later state, before its own step.           *)
debt_before(a, h) == current_borrow_balance([loans EXCEPT !.market = loans'.market], a, h)
debt_after(a, h) == current_borrow_balance(loans', a, h)

(* Whoever borrows, or takes collateral out, has enough left for all of    *)
(* its debt, as far as interest has accrued; seizing it in a liquidation   *)
(* is the exception.  Each conversion may be off by one.                   *)
SolventAfterOwnStep ==
    [][ \A h \in Users :
          \/ \E a \in Assets : debt_after(a, h) > debt_before(a, h)
          \/ /\ \E a \in Assets : loans'.deposits[a][h] < loans.deposits[a][h]
             /\ \A a \in Assets : debt_after(a, h) = debt_before(a, h)
          => \A c \in total_collateral_value(loans, h)', b \in total_borrowed_value(loans, h)' :
                b <= c + Cardinality(Assets) ]_vars
=============================================================================
