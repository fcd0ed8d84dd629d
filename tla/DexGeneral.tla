----------------------------- MODULE DexGeneral ------------------------------
(***************************************************************************)
(* The general exchange (crates/dex-general): a pair of assets trades      *)
(* against the reserves its account holds, with a constant product, and    *)
(* mints liquidity (LP) tokens to whoever fills them.  A pair may first be *)
(* bootstrapped: contributions are collected until a block and become the  *)
(* first liquidity if the targets are met.                                 *)
(*                                                                         *)
(* The operators work on a record                                          *)
(*   [tokens, status, k_last, fee_to, fee_point, personal, end_status,     *)
(*    rewards, limits]                                                     *)
(* where tokens are free balances by account and asset, the LP token of a  *)
(* pair being the pair itself; a fallible call is the set of its results.  *)
(* The limits a caller states (minimum, maximum, deadline) can only make a *)
(* call fail and are left out.                                             *)
(***************************************************************************)
EXTENDS Amounts, Sequences, FiniteSetsExt

CONSTANTS Users, Assets, Pairs,
          PairAssets,           \* the assets of each pair, sorted
          OtherAccounts,        \* accounts of other pallets
          FEE_ADJUSTMENT, DEFAULT_FEE_RATE,
          Endowment             \* of each user, in each asset

ASSUME DexAssumption ==
    /\ \A p \in Pairs : PairAssets[p] \in Assets \X Assets
    /\ FEE_ADJUSTMENT \in Nat \ {0} /\ DEFAULT_FEE_RATE \in 0..(FEE_ADJUSTMENT - 1)
    /\ Endowment \in Nat

Boot == "boot"                  \* bootstrap_account_id: one account for all pairs
NoOne == "none"
Holders == Users \cup Pairs \cup {Boot} \cup OtherAccounts

Disable == [kind |-> "disable"]
Trading(total_supply, fee_rate) ==
    [kind |-> "trading", total_supply |-> total_supply, fee_rate |-> fee_rate]

NewDex ==
    [tokens |-> [h \in Holders |-> [a \in Assets \cup Pairs |->
                    IF h \in Users /\ a \in Assets THEN Endowment ELSE 0]],
     status |-> [p \in Pairs |-> Disable], k_last |-> [p \in Pairs |-> 0],
     fee_to |-> NoOne, fee_point |-> 0,
     personal |-> [p \in Pairs |-> [u \in Users |-> <<0, 0>>]],
     end_status |-> [p \in Pairs |-> Disable],
     rewards |-> [p \in Pairs |-> <<>>], limits |-> [p \in Pairs |-> <<>>]]

is_trading(dex, p) == dex.status[p].kind = "trading"
is_bootstrap(dex, p) == dex.status[p].kind = "bootstrap"

pair_of(a, b) == CHOOSE p \in Pairs : {PairAssets[p][1], PairAssets[p][2]} = {a, b}
reserve_of(dex, p, asset) == dex.tokens[p][asset]
reserve_0(dex, p) == reserve_of(dex, p, PairAssets[p][1])
reserve_1(dex, p) == reserve_of(dex, p, PairAssets[p][2])
product(dex, p) == reserve_0(dex, p) * reserve_1(dex, p)

transfer(dex, asset, from, to, amount) ==
    Try(dex.tokens[from][asset] >= amount,
        [dex EXCEPT !.tokens =
            [[@ EXCEPT ![from][asset] = @ - amount] EXCEPT ![to][asset] = @ + amount]])

transfer_both(dex, p, from, to, amount_0, amount_1) ==
    UNION {transfer(d, PairAssets[p][2], from, to, amount_1) :
               d \in transfer(dex, PairAssets[p][1], from, to, amount_0)}

integer_sqrt(n) == CHOOSE r \in 0..n : r * r <= n /\ (r + 1) * (r + 1) > n

-----------------------------------------------------------------------------
(* Governance                                                              *)

set_exchange_fee(dex, p, fee_rate) ==
    Try(fee_rate < FEE_ADJUSTMENT /\ is_trading(dex, p),
        [dex EXCEPT !.status[p].fee_rate = fee_rate])

(* After its end a bootstrap that missed a target is disabled.             *)
bootstrap_disable(params, now) ==
    /\ now > params.end
    /\ \E i \in 1..2 : params.accumulated[i] < params.target[i]

create_pair(dex, p, fee_rate, now) ==
    LET created == [dex EXCEPT !.status[p] = Trading(0, fee_rate)] IN
    IF fee_rate >= FEE_ADJUSTMENT \/ is_trading(dex, p) THEN {}
    ELSE IF ~is_bootstrap(dex, p) THEN {created}
    ELSE Try(bootstrap_disable(dex.status[p], now),
             [created EXCEPT !.end_status[p] = dex.status[p]])

-----------------------------------------------------------------------------
(* Liquidity                                                               *)

(* amount_0 * reserve_1 / reserve_0, and zero when that cannot be divided. *)
calculate_share_amount(amount, reserve_in, reserve_out) ==
    IF reserve_in = 0 THEN 0 ELSE (amount * reserve_out) \div reserve_in

(* Mutant: the better of the two shares.                                   *)
calculate_liquidity_of_larger(amount_0, amount_1, r0, r1, total) ==
    IF total = 0 THEN integer_sqrt(amount_0 * amount_1)
    ELSE max(calculate_share_amount(amount_0, r0, total),
             calculate_share_amount(amount_1, r1, total))

calculate_liquidity(amount_0, amount_1, r0, r1, total) ==
    IF total = 0 THEN integer_sqrt(amount_0 * amount_1)
    ELSE min(calculate_share_amount(amount_0, r0, total),
             calculate_share_amount(amount_1, r1, total))

(* The amounts that keep the ratio of the reserves.                        *)
calculate_added_amount(desired_0, desired_1, r0, r1) ==
    LET optimal_1 == calculate_share_amount(desired_0, r0, r1)
        optimal_0 == calculate_share_amount(desired_1, r1, r0)
    IN  IF r0 = 0 \/ r1 = 0 THEN {<<desired_0, desired_1>>}
        ELSE IF optimal_1 <= desired_1 THEN {<<desired_0, optimal_1>>}
        ELSE Try(optimal_0 <= desired_0, <<optimal_0, desired_1>>)

mint_lp(dex, p, who, amount) ==
    [dex EXCEPT !.tokens[who][p] = @ + amount, !.status[p].total_supply = @ + amount]

(* The protocol's part of what the pair earned since k_last.               *)
protocol_fee(dex, p) ==
    LET root_k == integer_sqrt(product(dex, p))
        root_k_last == integer_sqrt(dex.k_last[p])
    IN  IF dex.k_last[p] = 0 \/ root_k <= root_k_last THEN 0
        ELSE (dex.status[p].total_supply * (root_k - root_k_last))
                 \div (root_k * dex.fee_point + root_k_last)

mint_protocol_fee(dex, p) ==
    IF dex.fee_to = NoOne THEN [dex EXCEPT !.k_last[p] = 0]
    ELSE mint_lp(dex, p, dex.fee_to, protocol_fee(dex, p))

mutate_k_last(dex, p) ==
    IF dex.fee_to = NoOne THEN dex ELSE [dex EXCEPT !.k_last[p] = product(dex, p)]

add_liquidity(dex, who, p, desired_0, desired_1) ==
    LET charged == mint_protocol_fee(dex, p)
        minted(a) == calculate_liquidity(a[1], a[2], reserve_0(dex, p), reserve_1(dex, p),
                                         charged.status[p].total_supply)
    IN  IF ~is_trading(dex, p) THEN {}
        ELSE UNION { IF minted(a) = 0 THEN {}
                     ELSE {mutate_k_last(d, p) :
                             d \in transfer_both(mint_lp(charged, p, who, minted(a)), p,
                                                 who, p, a[1], a[2])} :
                     a \in calculate_added_amount(desired_0, desired_1,
                                                  reserve_0(dex, p), reserve_1(dex, p)) }

(* Mutant: k_last is taken before the reserves are paid out.               *)
remove_liquidity_remembering_first(dex, who, p, amount, recipient) ==
    LET total == dex.status[p].total_supply
        charged == mutate_k_last(mint_protocol_fee(dex, p), p)
    IN  IF ~is_trading(dex, p) \/ dex.tokens[who][p] < amount THEN {}
        ELSE transfer_both(mint_lp(charged, p, who, -amount), p, p, recipient,
                           calculate_share_amount(amount, total, reserve_0(dex, p)),
                           calculate_share_amount(amount, total, reserve_1(dex, p)))

(* The share is one of the supply before the protocol's fee is minted.     *)
remove_liquidity(dex, who, p, amount, recipient) ==
    LET total == dex.status[p].total_supply
        charged == mint_protocol_fee(dex, p)
    IN  IF ~is_trading(dex, p) \/ dex.tokens[who][p] < amount THEN {}
        ELSE {mutate_k_last(d, p) :
                d \in transfer_both(mint_lp(charged, p, who, -amount), p, p, recipient,
                                    calculate_share_amount(amount, total, reserve_0(dex, p)),
                                    calculate_share_amount(amount, total, reserve_1(dex, p)))}

-----------------------------------------------------------------------------
(* Swaps                                                                   *)

fee_rate(dex, p) == IF is_trading(dex, p) THEN dex.status[p].fee_rate ELSE DEFAULT_FEE_RATE

get_amount_out(input, rin, rout, fee) ==
    LET with_fee == input * (FEE_ADJUSTMENT - fee)
    IN  Try(rin # 0 /\ rout # 0 /\ input # 0,
            (with_fee * rout) \div (rin * FEE_ADJUSTMENT + with_fee))

get_amount_in(output, rin, rout, fee) ==
    LET denominator == (rout - output) * (FEE_ADJUSTMENT - fee)
    IN  Try(rin # 0 /\ rout # 0 /\ output # 0 /\ denominator > 0,
            (rin * output * FEE_ADJUSTMENT) \div denominator + 1)

(* "check K": a hop must not lower the product of the reserves read here.  *)
check_k(rin, rout, input, output) ==
    output <= rout /\ (rin + input) * (rout - output) >= rin * rout

hop_out(dex, a, b, input) ==
    LET p == pair_of(a, b)
        rin == reserve_of(dex, p, a)
        rout == reserve_of(dex, p, b)
    IN  {out \in get_amount_out(input, rin, rout, fee_rate(dex, p)) :
            out > 0 /\ check_k(rin, rout, input, out)}

hop_in(dex, a, b, output) ==
    LET p == pair_of(a, b)
        rin == reserve_of(dex, p, a)
        rout == reserve_of(dex, p, b)
    IN  {in \in get_amount_in(output, rin, rout, fee_rate(dex, p)) :
            check_k(rin, rout, in, output)}

(* The amounts along a path are all computed before anything moves.        *)
get_amount_out_by_path(dex, amount_in, path) ==
    LET amounts[k \in 1..Len(path)] ==
            IF k = 1 THEN {<<amount_in>>}
            ELSE UNION {{Append(s, out) : out \in hop_out(dex, path[k - 1], path[k], s[k - 1])} :
                            s \in amounts[k - 1]}
    IN  amounts[Len(path)]

get_amount_in_by_path(dex, amount_out, path) ==
    LET amounts[k \in 1..Len(path)] ==      \* of the last k assets
            IF k = 1 THEN {<<amount_out>>}
            ELSE LET i == Len(path) - k + 1 IN
                 UNION {{<<in>> \o s : in \in hop_in(dex, path[i], path[i + 1], s[1])} :
                            s \in amounts[k - 1]}
    IN  amounts[Len(path)]

(* The input goes to the first pair, each pair pays the next one, the last *)
(* pays the recipient.                                                     *)
swap(dex, who, recipient, path, amounts) ==
    LET last == Len(path)
        holder(i) == IF i = last THEN recipient ELSE pair_of(path[i], path[i + 1])
        paid[i \in 1..last] ==
            IF i = 1 THEN transfer(dex, path[1], who, holder(1), amounts[1])
            ELSE UNION {IF is_trading(d, holder(i - 1))
                        THEN transfer(d, path[i], holder(i - 1), holder(i), amounts[i]) ELSE {} :
                           d \in paid[i - 1]}
    IN  paid[last]

swap_exact_assets_for_assets(dex, who, recipient, amount_in, path) ==
    UNION {swap(dex, who, recipient, path, s) : s \in get_amount_out_by_path(dex, amount_in, path)}

swap_assets_for_exact_assets(dex, who, recipient, amount_out, path) ==
    UNION {swap(dex, who, recipient, path, s) : s \in get_amount_in_by_path(dex, amount_out, path)}

-----------------------------------------------------------------------------
(* Bootstrap                                                               *)

(* bootstrap_create and bootstrap_update: rewards must have been withdrawn *)
(* and start at zero; what was contributed before still counts.            *)
bootstrap_set(dex, p, params, accumulated) ==
    [dex EXCEPT !.status[p] = [kind |-> "bootstrap", target |-> params.target,
                               capacity |-> params.capacity, end |-> params.end,
                               accumulated |-> accumulated],
                !.rewards[p] = [a \in params.rewards |-> 0],
                !.limits[p] = params.limits]

no_rewards(dex, p) == \A a \in DOMAIN dex.rewards[p] : dex.rewards[p][a] = 0

bootstrap_create(dex, p, params, now) ==
    IF is_trading(dex, p) THEN {}
    ELSE IF ~is_bootstrap(dex, p) THEN {bootstrap_set(dex, p, params, <<0, 0>>)}
    ELSE Try(bootstrap_disable(dex.status[p], now) /\ no_rewards(dex, p),
             bootstrap_set(dex, p, params, dex.status[p].accumulated))

bootstrap_update(dex, p, params) ==
    IF is_bootstrap(dex, p) /\ no_rewards(dex, p)
    THEN {bootstrap_set(dex, p, params, dex.status[p].accumulated)} ELSE {}

bootstrap_check_limits(dex, p, who) ==
    \A a \in DOMAIN dex.limits[p] : dex.tokens[who][a] >= dex.limits[p][a]

(* What exceeds the capacity is cut off.                                   *)
bootstrap_contribute(dex, who, p, amount_0, amount_1, now) ==
    LET b == dex.status[p]
        part(i, amount) == min(amount, b.capacity[i] - b.accumulated[i])
        c0 == part(1, amount_0)
        c1 == part(2, amount_1)
    IN  IF /\ is_bootstrap(dex, p) /\ now < b.end
           /\ bootstrap_check_limits(dex, p, who)
           /\ c0 >= 0 /\ c1 >= 0 /\ (c0 >= 1 \/ c1 >= 1)
        THEN {[d EXCEPT !.personal[p][who] = <<@[1] + c0, @[2] + c1>>,
                        !.status[p].accumulated = <<@[1] + c0, @[2] + c1>>] :
                d \in transfer_both(dex, p, who, Boot, c0, c1)}
        ELSE {}

bootstrap_end(dex, p, now) ==
    LET b == dex.status[p]
        total == calculate_liquidity(b.accumulated[1], b.accumulated[2], 0, 0, 0)
    IN  IF /\ is_bootstrap(dex, p) /\ now >= b.end
           /\ \A i \in 1..2 : b.accumulated[i] >= b.target[i]
           /\ total > 0
        THEN {[d EXCEPT !.tokens[p][p] = @ + total,
                        !.status[p] = Trading(total, DEFAULT_FEE_RATE),
                        !.end_status[p] = b] :
                d \in transfer_both(dex, p, Boot, p, b.accumulated[1], b.accumulated[2])}
        ELSE {}

(* Mutant: the halving is forgotten.                                       *)
claim_liquidity_unhalved(contribution, accumulated) ==
    LET x == contribution[1] * accumulated[2]
        y == contribution[2] * accumulated[1]
    IN  integer_sqrt(((x + y) \div accumulated[2]) * ((x + y) \div accumulated[1]))

(* Half of each asset for an equal value of the other.                     *)
claim_liquidity(contribution, accumulated) ==
    LET x == contribution[1] * accumulated[2]
        y == contribution[2] * accumulated[1]
    IN  integer_sqrt(((x + y) \div (2 * accumulated[2])) * ((x + y) \div (2 * accumulated[1])))

(* The LP tokens wait with the pair, the rewards in the bootstrap account. *)
bootstrap_claim(dex, who, recipient, p, now) ==
    LET b == dex.end_status[p]
        c == dex.personal[p][who]
        share == claim_liquidity(c, b.accumulated)
        total == integer_sqrt(b.accumulated[1] * b.accumulated[2])
        paid(d) == FoldSet(LAMBDA a, ds :
                        UNION {transfer(x, a, Boot, who, (share * d.rewards[p][a]) \div total) :
                                   x \in ds},
                        {d}, DOMAIN d.rewards[p])
    IN  IF /\ is_trading(dex, p) /\ c # <<0, 0>>
           /\ b.kind = "bootstrap" /\ ~bootstrap_disable(b, now)
        THEN UNION {paid([d EXCEPT !.personal[p][who] = <<0, 0>>]) :
                        d \in transfer(dex, p, p, recipient, share)}
        ELSE {}

bootstrap_refund(dex, who, p, now) ==
    LET b == IF is_bootstrap(dex, p) THEN dex.status[p] ELSE dex.end_status[p]
        c == dex.personal[p][who]
        returned(d) == [d EXCEPT !.personal[p][who] = <<0, 0>>]
    IN  IF b.kind = "bootstrap" /\ bootstrap_disable(b, now) /\ c # <<0, 0>>
        THEN {IF is_bootstrap(dex, p)
              THEN [returned(d) EXCEPT !.status[p].accumulated = <<@[1] - c[1], @[2] - c[2]>>]
              ELSE returned(d) :
                d \in transfer_both(dex, p, Boot, who, c[1], c[2])}
        ELSE {}

bootstrap_charge_reward(dex, who, p, amount) ==
    FoldSet(LAMBDA a, ds : UNION {{[x EXCEPT !.rewards[p][a] = @ + amount] :
                                      x \in transfer(d, a, who, Boot, amount)} : d \in ds},
            {dex}, DOMAIN dex.rewards[p])

(* Mutant: the amounts are not reset.                                      *)
bootstrap_withdraw_reward_unreset(dex, p, recipient) ==
    FoldSet(LAMBDA a, ds : UNION {transfer(d, a, Boot, recipient, d.rewards[p][a]) : d \in ds},
            {dex}, DOMAIN dex.rewards[p])

(* All that was charged, claimed or not.                                   *)
bootstrap_withdraw_reward(dex, p, recipient) ==
    FoldSet(LAMBDA a, ds : UNION {{[x EXCEPT !.rewards[p][a] = 0] :
                                      x \in transfer(d, a, Boot, recipient, d.rewards[p][a])} :
                                  d \in ds},
            {dex}, DOMAIN dex.rewards[p])
=============================================================================
