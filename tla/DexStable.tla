------------------------------ MODULE DexStable ------------------------------
(***************************************************************************)
(* The stable-swap exchange (crates/dex-stable): a pool trades currencies  *)
(* of about the same worth along a curve between constant sum and constant *)
(* product, set by the amplification A.  D, the worth of a pool, and the   *)
(* balance y that keeps D are found by Newton's iteration in integers.  A  *)
(* meta pool has the LP currency of a base pool as its last currency,      *)
(* valued with a virtual price that is cached for a while.                 *)
(*                                                                         *)
(* Base and meta pools are one record: base is the id of the base pool, 0  *)
(* for a base pool.  The operators work on [pools, tokens, now]; a         *)
(* fallible call is the set of its results, [state, out] where a caller    *)
(* goes on with the amount that came out.  The limits a user states        *)
(* (minimum, maximum, deadline) can only make a call fail and are left     *)
(* out.                                                                    *)
(***************************************************************************)
EXTENDS Integers, Sequences, SequencesExt, FiniteSetsExt

CONSTANTS Users, Currencies,
          LpCurrencies,         \* the LP currency of each pool id, also its account
          Multipliers,          \* of each currency: 10^(18 - decimals)
          A_PRECISION, FEE_DENOMINATOR, MAX_SWAP_FEE, MAX_ADMIN_FEE, MAX_A, MAX_A_CHANGE,
          VIRTUAL_PRICE_PRECISION, MAX_ITERATION, DAY, BASE_CACHE_EXPIRE_TIME,
          FeeReceiver, Endowment

ASSUME StableAssumption ==
    /\ {A_PRECISION, FEE_DENOMINATOR, MAX_A_CHANGE, VIRTUAL_PRICE_PRECISION, DAY} \subseteq Nat \ {0}
    /\ MAX_SWAP_FEE \in 0..FEE_DENOMINATOR /\ MAX_ADMIN_FEE \in 0..FEE_DENOMINATOR
    /\ {MAX_A, MAX_ITERATION, BASE_CACHE_EXPIRE_TIME, Endowment} \subseteq Nat

Lps == Range(LpCurrencies)
Tokens == Currencies \cup Lps
Holders == Users \cup Lps \cup {FeeReceiver}

NewStable(now) ==
    [pools |-> << >>, now |-> now,
     tokens |-> [h \in Holders |-> [c \in Tokens |->
                    IF h \in Users /\ c \in Currencies THEN Endowment ELSE 0]]]

-----------------------------------------------------------------------------
(* Fallible calls                                                          *)

Try(guard, result) == IF guard THEN {result} ELSE {}

(* Op goes on with each result, or fails with the call.                    *)
Then(results, Op(_)) == UNION {Op(r) : r \in results}

Out(s, amount) == [state |-> s, out |-> amount]

-----------------------------------------------------------------------------
(* The curve                                                               *)

distance(x, y) == IF x > y THEN x - y ELSE y - x

sum_of(balances) == FoldLeft(LAMBDA s, b : s + b, 0, balances)

(* Newton's iteration ends when a step moves by at most one, and fails if  *)
(* it does not within MAX_ITERATION steps.                                 *)
get_d(balances, amp) ==
    LET n == Len(balances)
        sum == sum_of(balances)
        ann == amp * n
        product(d) == FoldLeft(LAMBDA p, b : (p * d) \div (b * n), d, balances)
        numerator(d) == ((ann * sum) \div A_PRECISION + product(d) * n) * d
        denominator(d) == ((ann - A_PRECISION) * d) \div A_PRECISION + (n + 1) * product(d)
        RECURSIVE newton(_, _)
        newton(d, k) ==
            IF k = 0 \/ denominator(d) = 0 THEN {}
            ELSE LET next == numerator(d) \div denominator(d)
                 IN  IF distance(next, d) <= 1 THEN {next} ELSE newton(next, k - 1)
    IN  IF sum = 0 THEN {0}
        ELSE IF 0 \in Range(balances) THEN {}
        ELSE newton(sum, MAX_ITERATION)

(* The balance that makes a pool with the other balances worth d.          *)
solve_y(others, n, amp, d) ==
    LET ann == amp * n
        c == (FoldLeft(LAMBDA p, x : (p * d) \div (x * n), d, others) * d * A_PRECISION)
                 \div (ann * n)
        b == sum_of(others) + (d * A_PRECISION) \div ann
        RECURSIVE newton(_, _)
        newton(y, k) ==
            IF k = 0 \/ 2 * y + b <= d THEN {}
            ELSE LET next == (y * y + c) \div (2 * y + b - d)
                 IN  IF distance(next, y) <= 1 THEN {next} ELSE newton(next, k - 1)
    IN  IF 0 \in Range(others) THEN {} ELSE newton(d, MAX_ITERATION)

without(xs, j) == [n \in 1 .. Len(xs) - 1 |-> xs[IF n < j THEN n ELSE n + 1]]

get_y(xs, amp, i, j, x) ==
    LET with_x == [n \in DOMAIN xs |-> IF n = i THEN x ELSE xs[n]] IN
    Then(get_d(xs, amp), LAMBDA d : solve_y(without(with_x, j), Len(xs), amp, d))

get_yd(xs, amp, index, d) == solve_y(without(xs, index), Len(xs), amp, d)

(* A changes linearly during a ramp.                                       *)
get_a_precise(pool, now) ==
    LET elapsed == now - pool.initial_a_time
        duration == pool.future_a_time - pool.initial_a_time
    IN  IF now >= pool.future_a_time THEN pool.future_a
        ELSE IF pool.future_a > pool.initial_a
        THEN pool.initial_a + ((pool.future_a - pool.initial_a) * elapsed) \div duration
        ELSE pool.initial_a - ((pool.initial_a - pool.future_a) * elapsed) \div duration

-----------------------------------------------------------------------------
(* Tokens and pools                                                        *)

transfer(s, c, from, to, amount) ==
    Try(s.tokens[from][c] >= amount,
        [s EXCEPT !.tokens = [[@ EXCEPT ![from][c] = @ - amount] EXCEPT ![to][c] = @ + amount]])

transfer_all(s, pool, from, to, amounts) ==
    FoldLeft(LAMBDA states, i :
                 Then(states, LAMBDA t : transfer(t, pool.currencies[i], from, to, amounts[i])),
             {s}, [i \in DOMAIN amounts |-> i])

deposit(s, c, who, amount) == [s EXCEPT !.tokens[who][c] = @ + amount]
withdraw(s, c, who, amount) ==
    Try(s.tokens[who][c] >= amount, [s EXCEPT !.tokens[who][c] = @ - amount])

lp(k) == LpCurrencies[k]
supply(s, k) == MapThenSumSet(LAMBDA h : s.tokens[h][lp(k)], Holders)
last(pool) == Len(pool.currencies)
is_meta(pool) == pool.base # 0
is_base_lp(pool, i) == is_meta(pool) /\ i = last(pool)

(* Amounts of the base LP currency are valued with the virtual price.      *)
to_value(pool, i, amount) ==
    IF is_base_lp(pool, i)
    THEN (amount * pool.base_virtual_price) \div VIRTUAL_PRICE_PRECISION ELSE amount
from_value(pool, i, value) ==
    IF is_base_lp(pool, i)
    THEN (value * VIRTUAL_PRICE_PRECISION) \div pool.base_virtual_price ELSE value

xp(pool, balances) ==
    [i \in DOMAIN balances |-> to_value(pool, i, balances[i] * pool.multipliers[i])]

amp_of(s, k) == get_a_precise(s.pools[k], s.now)
worth(s, k, balances) == get_d(xp(s.pools[k], balances), amp_of(s, k))

cache_expired(s, pool) ==
    is_meta(pool) /\ s.now > pool.base_cache_last_updated + BASE_CACHE_EXPIRE_TIME

(* What one LP token is worth, with the price of the base pool's LP token  *)
(* renewed, in this reading only, once its cache has expired.              *)
RECURSIVE get_pool_virtual_price(_, _)
get_pool_virtual_price(s, k) ==
    LET pool == s.pools[k]
        price_with(base_price) ==
            LET valued == [s EXCEPT !.pools[k].base_virtual_price = base_price] IN
            Then(worth(valued, k, pool.balances), LAMBDA d :
                 IF supply(s, k) = 0 THEN {} ELSE {(d * VIRTUAL_PRICE_PRECISION) \div supply(s, k)})
    IN  IF cache_expired(s, pool)
        THEN Then(get_pool_virtual_price(s, pool.base), price_with)
        ELSE price_with(pool.base_virtual_price)

update_virtual_price(s, k) ==
    IF ~cache_expired(s, s.pools[k]) THEN {s}
    ELSE {[s EXCEPT !.pools[k].base_virtual_price = price,
                    !.pools[k].base_cache_last_updated = s.now] :
              price \in get_pool_virtual_price(s, s.pools[k].base)}

-----------------------------------------------------------------------------
(* Governance                                                              *)

inner_create_pool(s, currencies, base, price, a, fee, admin_fee) ==
    Try(/\ Len(s.pools) < Len(LpCurrencies)
        /\ a > 0 /\ a < MAX_A /\ fee <= MAX_SWAP_FEE /\ admin_fee <= MAX_ADMIN_FEE,
        [s EXCEPT !.pools = Append(@,
            [currencies |-> currencies,
             multipliers |-> [i \in DOMAIN currencies |-> Multipliers[currencies[i]]],
             balances |-> [i \in DOMAIN currencies |-> 0],
             fee |-> fee, admin_fee |-> admin_fee, admin_fee_receiver |-> FeeReceiver,
             initial_a |-> a * A_PRECISION, future_a |-> a * A_PRECISION,
             initial_a_time |-> 0, future_a_time |-> 0,
             base |-> base, base_virtual_price |-> price, base_cache_last_updated |-> s.now])])

create_base_pool(s, currencies, a, fee, admin_fee) ==
    inner_create_pool(s, currencies, 0, 0, a, fee, admin_fee)

create_meta_pool(s, currencies, a, fee, admin_fee) ==
    Then({k \in DOMAIN s.pools : lp(k) = Last(currencies)}, LAMBDA base :
         Then(get_pool_virtual_price(s, base), LAMBDA price :
              inner_create_pool(s, currencies, base, price, a, fee, admin_fee)))

set_swap_fee(s, k, fee) == Try(fee <= MAX_SWAP_FEE, [s EXCEPT !.pools[k].fee = fee])
set_admin_fee(s, k, fee) == Try(fee <= MAX_ADMIN_FEE, [s EXCEPT !.pools[k].admin_fee = fee])
update_fee_receiver(s, k, receiver) == {[s EXCEPT !.pools[k].admin_fee_receiver = receiver]}

with_a(s, k, initial_a, future_a, future_a_time) ==
    [s EXCEPT !.pools[k] = [@ EXCEPT !.initial_a = initial_a, !.future_a = future_a,
                                     !.initial_a_time = s.now, !.future_a_time = future_a_time]]

ramp_a(s, k, a, future_a_time) ==
    LET initial_a == amp_of(s, k)
        future_a == a * A_PRECISION
    IN  Try(/\ s.now >= s.pools[k].initial_a_time + DAY
            /\ future_a_time >= s.now + DAY
            /\ a > 0 /\ a < MAX_A
            /\ IF future_a < initial_a THEN future_a * MAX_A_CHANGE >= initial_a
                                       ELSE future_a <= initial_a * MAX_A_CHANGE,
            with_a(s, k, initial_a, future_a, future_a_time))

stop_ramp_a(s, k) ==
    Try(s.pools[k].future_a_time > s.now, with_a(s, k, amp_of(s, k), amp_of(s, k), s.now))

(* What the account has beyond the balances goes to the receiver.          *)
withdraw_admin_fee(s, k) ==
    LET pool == s.pools[k]
        surplus == [i \in DOMAIN pool.balances |->
                        s.tokens[lp(k)][pool.currencies[i]] - pool.balances[i]]
    IN  IF \E i \in DOMAIN surplus : surplus[i] < 0 THEN {}
        ELSE transfer_all(s, pool, lp(k), pool.admin_fee_receiver, surplus)

-----------------------------------------------------------------------------
(* Liquidity                                                               *)

minus(balances, amounts) == [i \in DOMAIN balances |-> balances[i] - amounts[i]]
plus(balances, amounts) == [i \in DOMAIN balances |-> balances[i] + amounts[i]]
no_negative(balances) == \A i \in DOMAIN balances : balances[i] >= 0

fee_of(amount, rate) == (amount * rate) \div FEE_DENOMINATOR

calculate_fee_per_token(pool) == (pool.fee * last(pool)) \div (4 * (last(pool) - 1))

(* Whatever moves the balances away from their proportions pays a fee on   *)
(* the difference; the admin's part of it leaves the balances.             *)
charge_fees(s, k, new, d0) ==
    Then(worth(s, k, new), LAMBDA d1 :
        LET pool == s.pools[k]
            ideal(i) == (d1 * pool.balances[i]) \div d0
            fees == [i \in DOMAIN new |->
                        fee_of(distance(ideal(i), new[i]), calculate_fee_per_token(pool))]
            admin_fees == [i \in DOMAIN new |-> fee_of(fees[i], pool.admin_fee)]
        IN  IF d0 = 0 \/ ~no_negative(minus(new, fees)) THEN {}
            ELSE {[state |-> [s EXCEPT !.pools[k].balances = minus(new, admin_fees)],
                   d1 |-> d1, d2 |-> d2] : d2 \in worth(s, k, minus(new, fees))})

(* Mutant: the fees are minted for as well.                                *)
growth_with_fees(c, d0) == c.d1 - d0

growth(c, d0) == c.d2 - d0

(* The first deposit needs every currency and is minted its worth; later   *)
(* ones are minted their part of the growth that the fees leave.           *)
mint_for(s, k, new, amounts, to) ==
    LET total == supply(s, k)
        minted(t, amount) == Out(deposit(t, lp(k), to, amount), amount)
    IN  IF total = 0
        THEN Then(worth(s, k, new), LAMBDA d1 :
                  Try(d1 > 0 /\ \A i \in DOMAIN amounts : amounts[i] > 0,
                      minted([s EXCEPT !.pools[k].balances = new], d1)))
        ELSE Then(worth(s, k, s.pools[k].balances), LAMBDA d0 :
             Then(charge_fees(s, k, new, d0), LAMBDA c :
                  Try(c.d1 > d0 /\ growth(c, d0) >= 0,
                      minted(c.state, (growth(c, d0) * total) \div d0))))

add_liquidity(s, who, k, amounts, to) ==
    Then(update_virtual_price(s, k), LAMBDA t :
    Then(transfer_all(t, t.pools[k], who, lp(k), amounts), LAMBDA u :
         mint_for(u, k, plus(u.pools[k].balances, amounts), amounts, to)))

(* Mutant: what went in is taken for what was minted.                      *)
add_single_reporting_input(s, who, k, index, amount, to) ==
    {Out(r.state, amount) :
        r \in add_liquidity(s, who, k, [i \in DOMAIN s.pools[k].balances |->
                                           IF i = index THEN amount ELSE 0], to)}

(* An amount of one currency.                                              *)
add_single(s, who, k, index, amount, to) ==
    add_liquidity(s, who, k,
                  [i \in DOMAIN s.pools[k].balances |-> IF i = index THEN amount ELSE 0], to)

(* All currencies in proportion, without a fee.                            *)
remove_liquidity(s, who, k, lp_amount, to) ==
    LET pool == s.pools[k]
        amounts == [i \in DOMAIN pool.balances |->
                        (pool.balances[i] * lp_amount) \div supply(s, k)]
    IN  IF lp_amount \notin 1..supply(s, k) THEN {}
        ELSE Then(transfer_all([s EXCEPT !.pools[k].balances = minus(@, amounts)],
                               pool, lp(k), to, amounts),
                  LAMBDA t : withdraw(t, lp(k), who, lp_amount))

(* What lp_amount is worth in one currency: dy, and the fee on it.         *)
calculate_remove_one(s, k, lp_amount, index) ==
    LET pool == s.pools[k]
        xs == xp(pool, pool.balances)
        m == pool.multipliers[index]
        value(x) == from_value(pool, index, x)
        d1(d0) == d0 - (lp_amount * d0) \div supply(s, k)
        y_at(balances, d0) == get_yd(balances, amp_of(s, k), index, d1(d0))
        kept(i, d0) == (xs[i] * d1(d0)) \div d0
        reduced(d0, new_y) ==
            [i \in DOMAIN xs |->
                xs[i] - fee_of(IF i = index THEN kept(i, d0) - new_y ELSE xs[i] - kept(i, d0),
                               calculate_fee_per_token(pool))]
    IN  Then(worth(s, k, pool.balances), LAMBDA d0 : IF d0 = 0 THEN {} ELSE
        Then(y_at(xs, d0), LAMBDA new_y : IF kept(index, d0) < new_y THEN {} ELSE
        Then(y_at(reduced(d0, new_y), d0), LAMBDA y :
            LET before == value(reduced(d0, new_y)[index] - y) - 1
                dy == before \div m
                fee == (value(xs[index]) - value(new_y)) \div m - dy
            IN  Try(reduced(d0, new_y)[index] >= y /\ before >= 0 /\ fee >= 0,
                    [dy |-> dy, fee |-> fee]))))

remove_liquidity_one_currency(s, who, k, lp_amount, index, to) ==
    Then(Try(lp_amount > 0 /\ s.tokens[who][lp(k)] >= lp_amount, s), LAMBDA r :
    Then(update_virtual_price(r, k), LAMBDA t :
    Then(calculate_remove_one(t, k, lp_amount, index), LAMBDA c :
        LET taken == c.dy + fee_of(c.fee, t.pools[k].admin_fee) IN
        Then(Try(taken <= t.pools[k].balances[index],
                 [t EXCEPT !.pools[k].balances[index] = @ - taken]), LAMBDA u :
        Then(withdraw(u, lp(k), who, lp_amount), LAMBDA v :
             {Out(w, c.dy) : w \in transfer(v, v.pools[k].currencies[index], lp(k), to, c.dy)})))))

(* Amounts the user names, for the LP tokens that are worth them and their *)
(* fees.                                                                   *)
remove_liquidity_imbalance(s, who, k, amounts, to) ==
    Then(update_virtual_price(s, k), LAMBDA t :
    Then(worth(t, k, t.pools[k].balances), LAMBDA d0 :
        LET new == minus(t.pools[k].balances, amounts)
            burned(d2) == ((d0 - d2) * supply(t, k)) \div d0
        IN  IF supply(t, k) = 0 \/ ~no_negative(new) THEN {} ELSE
            Then({c \in charge_fees(t, k, new, d0) : c.d2 <= d0 /\ burned(c.d2) > 0}, LAMBDA c :
            Then(withdraw(c.state, lp(k), who, burned(c.d2) + 1), LAMBDA u :
                 transfer_all(u, u.pools[k], lp(k), to, amounts)))))

-----------------------------------------------------------------------------
(* Swaps                                                                   *)

(* Mutant: digits the currency does not have are rounded up.               *)
in_units_rounded_up(value, multiplier) == (value + multiplier - 1) \div multiplier

in_units(value, multiplier) == value \div multiplier

(* The pool has the amount of currency i already; what comes out is        *)
(* rounded down and one less.                                              *)
exchange(s, k, i, j, amount, to) ==
    LET pool == s.pools[k]
        xs == xp(pool, pool.balances)
        x == to_value(pool, i, amount * pool.multipliers[i]) + xs[i]
    IN  Then({y \in get_y(xs, amp_of(s, k), i, j, x) : y < xs[j]}, LAMBDA y :
            LET before == from_value(pool, j, xs[j] - y - 1)
                fee == fee_of(before, pool.fee)
                dy == in_units(before - fee, pool.multipliers[j])
                admin_fee == in_units(fee_of(fee, pool.admin_fee), pool.multipliers[j])
            IN  IF dy + admin_fee > pool.balances[j] THEN {}
                ELSE {Out(t, dy) : t \in transfer([s EXCEPT !.pools[k].balances[i] = @ + amount,
                                                            !.pools[k].balances[j] = @ - dy - admin_fee],
                                                  pool.currencies[j], lp(k), to, dy)})

swap(s, who, k, i, j, amount, to) ==
    IF i = j THEN {} ELSE
    Then(update_virtual_price(s, k), LAMBDA t :
    Then(transfer(t, t.pools[k].currencies[i], who, lp(k), amount), LAMBDA u :
         exchange(u, k, i, j, amount, to)))

-----------------------------------------------------------------------------
(* A meta pool together with its base pool                                 *)

is_base_of(s, base, k) == is_meta(s.pools[k]) /\ s.pools[k].base = base

add_pool_and_base_pool_liquidity(s, who, k, base, meta_amounts, base_amounts, to) ==
    IF ~is_base_of(s, base, k) THEN {} ELSE
    Then(IF \E i \in DOMAIN base_amounts : base_amounts[i] > 0
         THEN add_liquidity(s, who, base, base_amounts, who) ELSE {Out(s, 0)},
         LAMBDA r : add_liquidity(r.state, who, k, [meta_amounts EXCEPT ![last(s.pools[k])] = r.out], to))

(* That base is the base pool is not checked: what k paid out of its LP    *)
(* currency is removed from it.                                            *)
remove_pool_and_base_pool_liquidity(s, who, k, base, amount, to) ==
    Then(remove_liquidity(s, who, k, amount, who), LAMBDA t :
         remove_liquidity(t, who, base, t.tokens[who][lp(base)] - s.tokens[who][lp(base)], to))

remove_pool_and_base_pool_liquidity_one_currency(s, who, k, base, amount, i, to) ==
    IF ~is_base_of(s, base, k) THEN {} ELSE
    Then(remove_liquidity_one_currency(s, who, k, amount, last(s.pools[k]), who), LAMBDA r :
         remove_liquidity_one_currency(r.state, who, base, r.out, i, to))

swap_pool_from_base(s, who, k, base, in_index, out_index, dx, to) ==
    IF ~is_base_of(s, base, k) THEN {} ELSE
    Then(add_single(s, who, base, in_index, dx, who),
         LAMBDA r : IF out_index = last(s.pools[k]) THEN {Out(r.state, 0)}
                    ELSE swap(r.state, who, k, last(s.pools[k]), out_index, r.out, to))

(* Here the pool may be any that has the LP currency of base.              *)
swap_pool_to_base(s, who, k, base, in_index, out_index, dx, to) ==
    Then({i \in DOMAIN s.pools[k].currencies : s.pools[k].currencies[i] = lp(base)}, LAMBDA i :
    Then(IF in_index = i THEN {Out(s, 0)} ELSE swap(s, who, k, in_index, i, dx, who), LAMBDA r :
         remove_liquidity_one_currency(r.state, who, base, r.out, out_index, to)))

(* The currencies of the base pool follow those of the meta pool; the      *)
(* account of the meta pool is the user of the base pool.                  *)
swap_meta_pool_underlying(s, who, k, from, into, dx, to) ==
    LET pool == s.pools[k]
        base == pool.base
        own(i) == i < last(pool)
        in_base(i) == i - last(pool) + 1
        currency(i) == IF own(i) THEN pool.currencies[i] ELSE s.pools[base].currencies[in_base(i)]
        to_base(r) ==
            Then(remove_liquidity_one_currency(r.state, lp(k), base, r.out, in_base(into), lp(k)),
                 LAMBDA o : {Out(t, o.out) : t \in transfer(o.state, currency(into), lp(k), to, o.out)})
        cross(t) ==
            CASE own(from) /\ own(into)   -> exchange(t, k, from, into, dx, to)
              [] ~own(from) /\ own(into)  ->
                    Then(add_single(t, lp(k), base, in_base(from), dx, lp(k)), LAMBDA r :
                         exchange(r.state, k, last(pool), into, r.out, to))
              [] own(from) /\ ~own(into)  ->
                    Then(exchange(t, k, from, last(pool), dx, lp(k)), to_base)
              [] ~own(from) /\ ~own(into) ->
                    {Out(r.state, 0) : r \in swap(t, lp(k), base, in_base(from), in_base(into), dx, to)}
    IN  IF ~is_meta(pool) \/ from = into THEN {} ELSE
        Then(update_virtual_price(s, k), LAMBDA t :
        Then(transfer(t, currency(from), who, lp(k), dx), cross))

-----------------------------------------------------------------------------
(* Specification.  Users keep what they get; anyone may send currencies to *)
(* a pool's account, which no pool notices.                                *)

CONSTANTS PoolCurrencies,       \* what new pools may trade
          As, SwapFees, AdminFees, RampTimes, TimeSteps,
          Deposits, LpAmounts, SwapAmounts, ProbeAmounts,
          StartTime, MaxTime, MaxCalls

VARIABLES stable, calls

vars == <<stable, calls>>

Init == stable = NewStable(StartTime) /\ calls = 0

Pools == DOMAIN stable.pools
Indexes(k) == DOMAIN stable.pools[k].currencies
UnderlyingIndexes(k) == 1 .. last(stable.pools[k]) - 1 + last(stable.pools[stable.pools[k].base])

Call(results) == calls < MaxCalls /\ stable' \in results /\ calls' = calls + 1
Trade(results) == Call({r.state : r \in results})

tick(step) ==
    /\ stable.now + step <= MaxTime
    /\ stable' = [stable EXCEPT !.now = @ + step]
    /\ UNCHANGED calls

GovernanceNext ==
    \/ \E cs \in PoolCurrencies, a \in As, f \in SwapFees, g \in AdminFees :
          Call(create_base_pool(stable, cs, a, f, g))
    \/ \E cs \in PoolCurrencies, a \in As, f \in SwapFees, g \in AdminFees :
          Call(create_meta_pool(stable, cs, a, f, g))
    \/ \E k \in Pools, f \in SwapFees : Call(set_swap_fee(stable, k, f))
    \/ \E k \in Pools, f \in AdminFees : Call(set_admin_fee(stable, k, f))
    \/ \E k \in Pools, h \in Users : Call(update_fee_receiver(stable, k, h))
    \/ \E k \in Pools, a \in As, t \in RampTimes : Call(ramp_a(stable, k, a, t))
    \/ \E k \in Pools : Call(stop_ramp_a(stable, k))

PoolNext ==
    \/ \E k \in Pools : Call(withdraw_admin_fee(stable, k))
    \/ \E u \in Users, k \in Pools, x \in SwapAmounts : \E i \in Indexes(k) :
          Call(transfer(stable, stable.pools[k].currencies[i], u, lp(k), x))
    \/ \E u \in Users, k \in Pools, xs \in Deposits : Trade(add_liquidity(stable, u, k, xs, u))
    \/ \E u \in Users, k \in Pools, x \in SwapAmounts : \E i, j \in Indexes(k) :
          Trade(swap(stable, u, k, i, j, x, u))
    \/ \E u \in Users, k \in Pools : \E x \in LpAmounts \cup {stable.tokens[u][lp(k)]} :
          Call(remove_liquidity(stable, u, k, x, u))
    \/ \E u \in Users, k \in Pools, x \in LpAmounts : \E i \in Indexes(k) :
          Trade(remove_liquidity_one_currency(stable, u, k, x, i, u))
    \/ \E u \in Users, k \in Pools, xs \in Deposits : Call(remove_liquidity_imbalance(stable, u, k, xs, u))

MetaNext ==
    \/ \E u \in Users, k, base \in Pools, xs, ys \in Deposits :
          Trade(add_pool_and_base_pool_liquidity(stable, u, k, base, xs, ys, u))
    \/ \E u \in Users, k, base \in Pools, x \in LpAmounts :
          Call(remove_pool_and_base_pool_liquidity(stable, u, k, base, x, u))
    \/ \E u \in Users, k, base \in Pools, x \in LpAmounts : \E i \in Indexes(base) :
          Trade(remove_pool_and_base_pool_liquidity_one_currency(stable, u, k, base, x, i, u))
    \/ \E u \in Users, k, base \in Pools, x \in SwapAmounts : \E i \in Indexes(base), j \in Indexes(k) :
          Trade(swap_pool_from_base(stable, u, k, base, i, j, x, u))
    \/ \E u \in Users, k, base \in Pools, x \in SwapAmounts : \E i \in Indexes(k), j \in Indexes(base) :
          Trade(swap_pool_to_base(stable, u, k, base, i, j, x, u))
    \/ \E u \in Users, k \in {p \in Pools : is_meta(stable.pools[p])}, x \in SwapAmounts :
          \E i, j \in UnderlyingIndexes(k) : Trade(swap_meta_pool_underlying(stable, u, k, i, j, x, u))

Next ==
    \/ GovernanceNext
    \/ PoolNext
    \/ MetaNext
    \/ \E step \in TimeSteps : tick(step)

Spec == Init /\ [][Next]_vars

-----------------------------------------------------------------------------
(* Properties                                                              *)

TypeOK ==
    /\ \A h \in Holders, c \in Tokens : stable.tokens[h][c] \in Nat
    /\ \A k \in Pools :
          /\ \A i \in Indexes(k) : stable.pools[k].balances[i] \in Nat
          /\ amp_of(stable, k) \in A_PRECISION .. MAX_A * A_PRECISION
    /\ stable.now \in Nat /\ calls \in 0..MaxCalls

(* A pool's account has what the pool counts as its own.                   *)
ReservesHeld ==
    \A k \in Pools : \A i \in Indexes(k) :
        stable.tokens[lp(k)][stable.pools[k].currencies[i]] >= stable.pools[k].balances[i]

(***************************************************************************)
(* The account of a pool has what the pool counts as its own, however fees *)
(* were taken out and whichever pool acted as the user of another; so      *)
(* whoever has LP tokens can take their part out, and the admin fee can be *)
(* withdrawn.  A ramp keeps A in its range.                                *)
(***************************************************************************)
PoolsBacked ==
    /\ TypeOK
    /\ ReservesHeld
    /\ \A k \in Pools, h \in Holders :
          stable.tokens[h][lp(k)] > 0 =>
              remove_liquidity(stable, h, k, stable.tokens[h][lp(k)], h) # {}
    /\ \A k \in Pools : withdraw_admin_fee(stable, k) # {}

(***************************************************************************)
(* Whoever swaps and swaps back, or deposits one currency and takes the LP *)
(* tokens out in it, gains at most the unit Newton's iteration may be off: *)
(* fees, the unit that a swap holds back and the rounding of digits and of *)
(* the virtual price never add up to more for the user.                    *)
(***************************************************************************)
RoundTripNeverPays ==
    LET u == CHOOSE u \in Users : TRUE IN
    \A k \in Pools, x \in ProbeAmounts : \A i, j \in Indexes(k) :
        /\ \A r \in swap(stable, u, k, i, j, x, u) :
              \A b \in swap(r.state, u, k, j, i, r.out, u) : b.out <= x + 1
        /\ \A r \in add_single(stable, u, k, i, x, u) :
              \A b \in remove_liquidity_one_currency(r.state, u, k, r.out, i, u) : b.out <= x + 1

(***************************************************************************)
(* No call makes an LP token worth less, beyond the unit by which D may be *)
(* off: whatever a user adds, removes or swaps, in the pool or through its *)
(* meta pool, the other holders lose nothing.  A ramp of A and a renewed   *)
(* virtual price change D by themselves.                                   *)
(***************************************************************************)
WorthKept ==
    [][\A k \in Pools :
          /\ amp_of(stable', k) = amp_of(stable, k)
          /\ stable'.pools[k].base_virtual_price = stable.pools[k].base_virtual_price
          /\ supply(stable, k) > 0 /\ supply(stable', k) > 0
          => \A before \in worth(stable, k, stable.pools[k].balances),
                after \in worth(stable', k, stable'.pools[k].balances) :
                after * supply(stable, k) >= (before - 1) * supply(stable', k)]_vars
=============================================================================
