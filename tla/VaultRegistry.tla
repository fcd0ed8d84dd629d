---------------------------- MODULE VaultRegistry ----------------------------
(***************************************************************************)
(* The vault registry (crates/vault-registry): the token counters and the  *)
(* collateral of every vault and of the liquidation vault, the thresholds  *)
(* they are judged by, and the operations through which the issue, redeem  *)
(* and replace pallets change them.                                        *)
(*                                                                         *)
(* One collateral currency, one wrapped currency and one vault per account *)
(* are modelled; the griefing currency is a third one.  A vault is backed  *)
(* by its own stake alone (no nominators; what theirs may leave behind in  *)
(* the capacity pool is a choice of liquidate_vault).  Of the currency     *)
(* ledgers only the reserved balances are kept: callers have the free      *)
(* balance they spend.  The oracle's price is always available.            *)
(*                                                                         *)
(* The storage of the pallet is one record, and an operation that may fail *)
(* maps it to the set of its results: {} when the Rust function returns an *)
(* Err, which rolls the whole extrinsic back.                              *)
(***************************************************************************)
EXTENDS Amounts

CONSTANTS Vaults,                 \* vault ids (= the accounts that own them)
          Users,                  \* other accounts
          Rates,                  \* prices the oracle may report
          CollateralAmounts,      \* collateral a call may name
          TokenAmounts,           \* wrapped amounts a call may name
          SecureThresholds,       \* values root may give each parameter
          PremiumThresholds,
          LiquidationThresholds,
          Minimums,
          Ceilings,
          CustomThresholds        \* values a vault may choose for itself

ASSUME RegistryAssumption ==
    /\ Vaults \cap Users = {}
    /\ Rates \subseteq Nat \ {0}
    /\ CollateralAmounts \subseteq Nat
    /\ TokenAmounts \subseteq Nat
    /\ SecureThresholds \subseteq Nat \ {0}
    /\ PremiumThresholds \subseteq Nat \ {0}
    /\ LiquidationThresholds \subseteq Nat \ {0}
    /\ Minimums \subseteq Nat
    /\ Ceilings \subseteq Nat
    /\ CustomThresholds \subseteq Nat

VARIABLES registry,       \* Vaults, LiquidationVault, TotalUserVaultCollateral
          exchangeRate,   \* oracle: collateral per wrapped token
          params          \* thresholds, minimum collateral and ceiling

registryVars == <<registry, exchangeRate, params>>

Accounts == Vaults \cup Users

-----------------------------------------------------------------------------
(* State                                                                   *)

(***************************************************************************)
(* "none" is an id that is not registered; "accepting" and "paused" are    *)
(* VaultStatus::Active(true) and Active(false).                            *)
(***************************************************************************)
VaultStatus == {"none", "accepting", "paused", "liquidated"}

(***************************************************************************)
(* A Vault together with what other pallets keep for it: its stake in the  *)
(* staking pool, its stake in the reward pool, and the collateral that is  *)
(* reserved on its account.  A custom threshold of 0 is None.              *)
(***************************************************************************)
Vault == [status : VaultStatus,
          banned : BOOLEAN,
          secure_collateral_threshold : Nat,
          issued : Nat, to_be_issued : Nat, to_be_redeemed : Nat,
          to_be_replaced : Nat,
          replace_collateral : Nat, active_replace_collateral : Nat,
          liquidated_collateral : Nat,
          stake : Nat, reward_stake : Nat, reserved : Nat]

NoVault == [status |-> "none", banned |-> FALSE,
            secure_collateral_threshold |-> 0,
            issued |-> 0, to_be_issued |-> 0, to_be_redeemed |-> 0,
            to_be_replaced |-> 0,
            replace_collateral |-> 0, active_replace_collateral |-> 0,
            liquidated_collateral |-> 0,
            stake |-> 0, reward_stake |-> 0, reserved |-> 0]

SystemVault == [issued : Nat, to_be_issued : Nat, to_be_redeemed : Nat,
                collateral : Nat, reserved : Nat]

(***************************************************************************)
(* The stake of the collateral currency in the capacity pool, as far as it *)
(* decides whether rewards can be handed on to the vaults: "current" when  *)
(* it follows the reward stakes of the vaults; "stale" when it outlived    *)
(* the last of them; "blocked" when a stale one has earned a reward, which *)
(* no vault's stake can take over (ZeroTotalStake).                        *)
(***************************************************************************)
Capacity == {"current", "stale", "blocked"}

(* lv is the liquidation vault, total is TotalUserVaultCollateral and      *)
(* griefing the reserved balances of the griefing currency.                *)
Registry == [vault : [Vaults -> Vault],
             lv : SystemVault,
             total : Nat,
             griefing : [Accounts -> Nat],
             capacity : Capacity]

Params == [secure : SecureThresholds, premium : PremiumThresholds,
           liquidation : LiquidationThresholds, minimum : Minimums,
           ceiling : Ceilings]

RegistryTypeOK ==
    /\ registry \in Registry
    /\ exchangeRate \in Rates
    /\ params \in Params

RegistryInit ==
    /\ registry = [vault |-> [v \in Vaults |-> NoVault],
                   lv |-> [issued |-> 0, to_be_issued |-> 0,
                           to_be_redeemed |-> 0, collateral |-> 0,
                           reserved |-> 0],
                   total |-> 0,
                   griefing |-> [a \in Accounts |-> 0],
                   capacity |-> "current"]
    /\ exchangeRate \in Rates
    /\ params \in Params

-----------------------------------------------------------------------------
(* Conversions and thresholds                                              *)

wrapped_to_collateral(tokens) == checked_mul(tokens, exchangeRate)
collateral_to_wrapped(amount) == checked_div(amount, exchangeRate)

is_active(w) == w.status \in {"accepting", "paused"}
is_liquidated(w) == w.status = "liquidated"
vault_exists(w) == w.status # "none"

backed_tokens(w) == w.issued + w.to_be_issued

(* The tokens of a vault or of the liquidation vault if every pending      *)
(* request executes.                                                       *)
to_be_backed_tokens(w) == w.issued + w.to_be_issued - w.to_be_redeemed

get_secure_threshold(w) == max(w.secure_collateral_threshold, params.secure)

calculate_max_wrapped_from_collateral_for_threshold(amount, threshold) ==
    checked_div(collateral_to_wrapped(amount), threshold)

is_collateral_below_threshold(amount, tokens, threshold) ==
    calculate_max_wrapped_from_collateral_for_threshold(amount, threshold) < tokens

is_vault_below_secure_threshold(w) ==
    is_collateral_below_threshold(w.stake, w.issued, get_secure_threshold(w))

(* Pending issues do not count here: only tokens that exist do.            *)
is_vault_below_liquidation_threshold(w) ==
    is_collateral_below_threshold(w.stake, w.issued, params.liquidation)

(* The one threshold check that counts pending requests.                   *)
will_be_below_premium_threshold(w) ==
    is_collateral_below_threshold(w.stake, to_be_backed_tokens(w), params.premium)

get_used_collateral(w, threshold) ==
    min(w.stake, checked_mul(wrapped_to_collateral(backed_tokens(w)), threshold))

get_free_collateral(w) == w.stake - get_used_collateral(w, get_secure_threshold(w))

issuable_tokens(w) ==
    IF w.banned THEN 0
    ELSE calculate_max_wrapped_from_collateral_for_threshold(
             get_free_collateral(w), get_secure_threshold(w))

get_required_collateral_for_wrapped(tokens) ==
    wrapped_to_collateral(mul_rounding_up(tokens, params.secure))

-----------------------------------------------------------------------------
(* Token counters.  On a liquidated vault the issued and to-be-issued      *)
(* tokens are those of the liquidation vault; the to-be-redeemed tokens    *)
(* are kept in both.                                                       *)

set_vault(r, v, w) == [r EXCEPT !.vault[v] = w]

decrease_to_be_issued(r, v, tokens) ==
    LET w == r.vault[v] IN
    IF is_liquidated(w)
    THEN Try(tokens <= r.lv.to_be_issued, [r EXCEPT !.lv.to_be_issued = @ - tokens])
    ELSE Try(tokens <= w.to_be_issued,
             set_vault(r, v, [w EXCEPT !.to_be_issued = @ - tokens]))

increase_issued(r, v, tokens) ==
    LET w == r.vault[v] IN
    IF is_liquidated(w) THEN [r EXCEPT !.lv.issued = @ + tokens]
    ELSE set_vault(r, v, [w EXCEPT !.issued = @ + tokens])

decrease_issued(r, v, tokens) ==
    LET w == r.vault[v] IN
    IF is_liquidated(w)
    THEN Try(tokens <= r.lv.issued, [r EXCEPT !.lv.issued = @ - tokens])
    ELSE Try(tokens <= w.issued, set_vault(r, v, [w EXCEPT !.issued = @ - tokens]))

(* Mutant: the liquidation vault's copy is not decreased.                  *)
decrease_to_be_redeemed_once(r, v, tokens) ==
    Try(tokens <= r.vault[v].to_be_redeemed,
        set_vault(r, v, [r.vault[v] EXCEPT !.to_be_redeemed = @ - tokens]))

decrease_to_be_redeemed(r, v, tokens) ==
    LET w == r.vault[v]
        s == set_vault(r, v, [w EXCEPT !.to_be_redeemed = @ - tokens])
    IN  IF is_liquidated(w)
        THEN Try(tokens <= w.to_be_redeemed /\ tokens <= r.lv.to_be_redeemed,
                 [s EXCEPT !.lv.to_be_redeemed = @ - tokens])
        ELSE Try(tokens <= w.to_be_redeemed, s)

(* issue_tokens: pending tokens become issued ones.                        *)
execute_issue_tokens(r, v, tokens) ==
    {increase_issued(s, v, tokens) : s \in decrease_to_be_issued(r, v, tokens)}

(* Mutant: burned tokens stay issued.                                      *)
execute_redeem_tokens_keeping_issued(r, v, tokens) ==
    decrease_to_be_redeemed(r, v, tokens)

(* decrease_tokens: to-be-redeemed tokens stop existing.                   *)
execute_redeem_tokens(r, v, tokens) ==
    UNION {decrease_issued(s, v, tokens) : s \in decrease_to_be_redeemed(r, v, tokens)}

(* ensure_not_banned also requires the vault to be active.                 *)
ensure_not_banned(w) == is_active(w) /\ ~w.banned

try_increase_to_be_issued_tokens(r, v, tokens) ==
    LET w == r.vault[v] IN
    Try(is_active(w) /\ issuable_tokens(w) >= tokens,
        set_vault(r, v, [w EXCEPT !.to_be_issued = @ + tokens]))

(* Mutant: tokens that are already to be redeemed are not counted.         *)
try_increase_to_be_redeemed_tokens_again(r, v, tokens) ==
    Try(is_active(r.vault[v]) /\ tokens <= r.vault[v].issued,
        set_vault(r, v, [r.vault[v] EXCEPT !.to_be_redeemed = @ + tokens]))

try_increase_to_be_redeemed_tokens(r, v, tokens) ==
    LET w == r.vault[v] IN
    Try(is_active(w) /\ w.to_be_redeemed + tokens <= w.issued,
        set_vault(r, v, [w EXCEPT !.to_be_redeemed = @ + tokens]))

try_increase_to_be_replaced_tokens(r, v, tokens) ==
    LET w == r.vault[v] IN
    Try(is_active(w) /\ w.to_be_replaced + tokens + w.to_be_redeemed <= w.issued,
        set_vault(r, v, [w EXCEPT !.to_be_replaced = @ + tokens]))

(* decrease_to_be_replaced_tokens takes what it can: the tokens and the    *)
(* griefing collateral it returns, and the vault it leaves.                *)
used_to_be_replaced(w, tokens) == min(tokens, w.to_be_replaced)

used_replace_collateral(w, tokens) ==
    min(calculate_collateral(w.replace_collateral, used_to_be_replaced(w, tokens),
                             w.to_be_replaced),
        w.replace_collateral)

(* Mutant: more is taken than is on offer.                                 *)
decrease_to_be_replaced_tokens_unclamped(r, v, tokens) ==
    set_vault(r, v, [r.vault[v] EXCEPT !.to_be_replaced = @ - tokens])

decrease_to_be_replaced_tokens(r, v, tokens) ==
    set_vault(r, v, [r.vault[v] EXCEPT
                        !.to_be_replaced = @ - used_to_be_replaced(r.vault[v], tokens)])

-----------------------------------------------------------------------------
(* Collateral                                                              *)

(* The reward stake follows the stake of a vault that accepts new issues.  *)
update_reward_stake(w) ==
    [w EXCEPT !.reward_stake = IF w.status = "accepting"
                               THEN checked_div(w.stake, get_secure_threshold(w))
                               ELSE 0]

set_capacity(r, capacity) == [r EXCEPT !.capacity = capacity]

(* Mutant: a capacity that has earned nothing yet is refused, too.         *)
update_pools_refusing_stale(r, v, w) ==
    Try(r.capacity = "current",
        set_vault(set_capacity(r, "current"), v, update_reward_stake(w)))

(***************************************************************************)
(* PoolManager: every change of a vault that its rewards depend on begins  *)
(* with distribute_all_vault_rewards, which hands on what the capacity     *)
(* pool has earned and fails if no vault has a reward stake to take it,    *)
(* and ends with the new stakes in the reward and the capacity pool.       *)
(***************************************************************************)
update_pools(r, v, w) ==
    Try(r.capacity # "blocked",
        set_vault(set_capacity(r, "current"), v, update_reward_stake(w)))

pool_deposit_collateral(r, v, amount) ==
    update_pools(r, v, [r.vault[v] EXCEPT !.stake = @ + amount])

(* A slash has no lower bound of its own: the collateral it takes is       *)
(* unlocked first, and that is what must not fail.                         *)
pool_slash_collateral(r, v, amount) ==
    update_pools(r, v, [r.vault[v] EXCEPT !.stake = @ - amount])

pool_withdraw_collateral(r, v, amount) ==
    IF amount <= r.vault[v].stake THEN pool_slash_collateral(r, v, amount) ELSE {}

(***************************************************************************)
(* distribute_rewards of the fee pallet: a fee is shared by the capacities *)
(* of the collateral currencies.  A stale one earns with the others; its   *)
(* share may be less than a unit, and then there is nothing to hand on.    *)
(***************************************************************************)
distribute_rewards(r, fee) ==
    {r} \cup Try(r.capacity = "stale" /\ fee # 0, set_capacity(r, "blocked"))

try_increase_total_backing_collateral(r, amount) ==
    Try(r.total + amount <= params.ceiling, [r EXCEPT !.total = @ + amount])

(* Mutant: the ceiling is checked on the way down, too.                    *)
decrease_total_backing_collateral_capped(r, amount) ==
    Try(amount <= r.total /\ r.total <= params.ceiling, [r EXCEPT !.total = @ - amount])

decrease_total_backing_collateral(r, amount) ==
    Try(amount <= r.total, [r EXCEPT !.total = @ - amount])

(* Amount::lock_on and unlock_on for the collateral of a vault account.    *)
lock_collateral(r, v, amount) ==
    set_vault(r, v, [r.vault[v] EXCEPT !.reserved = @ + amount])

unlock_collateral(r, v, amount) ==
    Try(amount <= r.vault[v].reserved,
        set_vault(r, v, [r.vault[v] EXCEPT !.reserved = @ - amount]))

(* _deposit_collateral of the nomination pallet for the vault's own stake, *)
(* which is also what try_deposit_collateral calls.                        *)
try_deposit_collateral(r, v, amount) ==
    UNION {try_increase_total_backing_collateral(lock_collateral(s, v, amount), amount) :
              s \in pool_deposit_collateral(r, v, amount)}

(* Mutant: the total is not decreased.                                     *)
force_withdraw_collateral_keeping_total(r, v, amount) ==
    UNION {pool_withdraw_collateral(s, v, amount) : s \in unlock_collateral(r, v, amount)}

force_withdraw_collateral(r, v, amount) ==
    UNION {pool_withdraw_collateral(t, v, amount) :
              t \in UNION {decrease_total_backing_collateral(s, amount) :
                              s \in unlock_collateral(r, v, amount)}}

(* is_allowed_to_withdraw_collateral answers no, yes, or with an error if  *)
(* less than the minimum, but more than nothing, would be left.            *)
withdraw_leaves_dust(w, amount) ==
    /\ amount < w.stake
    /\ w.stake - amount < params.minimum

is_allowed_to_withdraw_collateral(w, amount) ==
    /\ amount <= w.stake
    /\ ~is_collateral_below_threshold(w.stake - amount, backed_tokens(w),
                                      get_secure_threshold(w))

(***************************************************************************)
(* transfer_funds.  A CurrencySource is a pair <<kind, account>>.  Funds   *)
(* are released from the source to its free balance, transferred, and      *)
(* claimed at the destination; nothing is kept for free balances.  Only    *)
(* the destinations some pallet names are modelled.                        *)
(***************************************************************************)
unlock_griefing(r, a, amount) ==
    Try(amount <= r.griefing[a], [r EXCEPT !.griefing[a] = @ - amount])

release_funds(r, source, amount) ==
    LET kind == source[1]
        v == source[2]
    IN CASE kind = "Collateral" ->
              UNION {UNION {pool_slash_collateral(t, v, amount) :
                               t \in decrease_total_backing_collateral(s, amount)} :
                        s \in unlock_collateral(r, v, amount)}
         [] kind = "AvailableReplaceCollateral" ->
              IF is_active(r.vault[v]) /\ amount <= r.vault[v].replace_collateral
              THEN unlock_griefing([r EXCEPT !.vault[v].replace_collateral = @ - amount],
                                   v, amount)
              ELSE {}
         [] kind = "ActiveReplaceCollateral" ->
              IF amount <= r.vault[v].active_replace_collateral
              THEN unlock_griefing([r EXCEPT !.vault[v].active_replace_collateral = @ - amount],
                                   v, amount)
              ELSE {}
         [] kind = "UserGriefing" -> unlock_griefing(r, v, amount)
         [] kind = "LiquidatedCollateral" ->
              UNION {unlock_collateral(s, v, amount) :
                        s \in decrease_total_backing_collateral(r, amount)}
         [] kind = "LiquidationVault" ->
              Try(amount <= r.lv.collateral /\ amount <= r.total /\ amount <= r.lv.reserved,
                  [r EXCEPT !.lv.collateral = @ - amount,
                            !.lv.reserved = @ - amount,
                            !.total = @ - amount])
         [] kind = "FreeBalance" -> {r}

claim_funds(r, destination, amount) ==
    LET kind == destination[1]
        v == destination[2]
    IN CASE kind = "AvailableReplaceCollateral" ->
              Try(is_active(r.vault[v]),
                  [r EXCEPT !.vault[v].replace_collateral = @ + amount,
                            !.griefing[v] = @ + amount])
         [] kind = "ActiveReplaceCollateral" ->
              {[r EXCEPT !.vault[v].active_replace_collateral = @ + amount,
                         !.griefing[v] = @ + amount]}
         [] kind = "LiquidationVault" ->
              {[s EXCEPT !.lv.collateral = @ + amount, !.lv.reserved = @ + amount] :
                  s \in try_increase_total_backing_collateral(r, amount)}
         [] kind = "FreeBalance" -> {r}

transfer_funds(r, source, destination, amount) ==
    UNION {claim_funds(s, destination, amount) : s \in release_funds(r, source, amount)}

(* The available griefing collateral follows the tokens out.               *)
withdraw_replace_request(r, v, tokens) ==
    transfer_funds(decrease_to_be_replaced_tokens(r, v, tokens),
                   <<"AvailableReplaceCollateral", v>>, <<"FreeBalance", v>>,
                   used_replace_collateral(r.vault[v], tokens))

-----------------------------------------------------------------------------
(* Liquidation                                                             *)

(* Mutant: the collateral leaves the stake and is not recorded.            *)
slash_for_to_be_redeemed_unrecorded(r, v, amount) ==
    pool_withdraw_collateral(r, v, min(r.vault[v].stake, amount))

(* The share of the to-be-redeemed tokens leaves the stake but stays       *)
(* locked on the vault's account until each redeem is settled.             *)
slash_for_to_be_redeemed(r, v, amount) ==
    LET w == r.vault[v]
        taken == min(w.stake, amount)
    IN  pool_withdraw_collateral(
            set_vault(r, v, [w EXCEPT !.liquidated_collateral = @ + taken]), v, taken)

(* What the vault's own stake does not cover is taken from nominators.     *)
slash_to_liquidation_vault(r, v, amount) ==
    LET own == min(amount, r.vault[v].stake) IN
    UNION {transfer_funds(t, <<"LiquidatedCollateral", v>>, <<"LiquidationVault", v>>, amount) :
              t \in UNION {pool_slash_collateral(s, v, amount - own) :
                              s \in pool_withdraw_collateral(r, v, own)}}

(* Issued and to-be-issued tokens move to the liquidation vault, the       *)
(* to-be-redeemed ones are copied.                                         *)
move_tokens_to_liquidation_vault(r, v) ==
    LET w == r.vault[v] IN
    [set_vault(r, v, [w EXCEPT !.issued = 0, !.to_be_issued = 0,
                               !.status = "liquidated", !.reward_stake = 0])
        EXCEPT !.lv.issued = @ + w.issued,
               !.lv.to_be_issued = @ + w.to_be_issued,
               !.lv.to_be_redeemed = @ + w.to_be_redeemed]

(* Liquidation takes the vault out of the reward pool without telling the  *)
(* capacity pool.  What that pool still counts is the stake the slashes    *)
(* left, which is that of nominators: some or none.                        *)
leave_capacity(r, accepted) ==
    {r} \cup Try(accepted /\ \A u \in Vaults : r.vault[u].reward_stake = 0,
                set_capacity(r, "stale"))

liquidate_vault(r, v) ==
    LET w == r.vault[v]
        tokens == backed_tokens(w)
        liquidated == get_used_collateral(w, params.liquidation)
        excluding_to_be_redeemed ==
            calculate_collateral(liquidated, tokens - w.to_be_redeemed, tokens)
        for_to_be_redeemed == saturating_sub(liquidated, excluding_to_be_redeemed)
        slashed ==
            UNION {slash_to_liquidation_vault(t, v, excluding_to_be_redeemed) :
                      t \in UNION {slash_for_to_be_redeemed(s, v, for_to_be_redeemed) :
                                      s \in withdraw_replace_request(r, v, w.to_be_replaced)}}
    IN  IF is_active(w) /\ w.to_be_redeemed <= tokens
        THEN UNION {leave_capacity(move_tokens_to_liquidation_vault(s, v),
                                   w.status = "accepting") : s \in slashed}
        ELSE {}

-----------------------------------------------------------------------------
(* The operations of the redeem and replace pallets on a vault             *)

(* The share of the liquidated collateral that backs `tokens` of the       *)
(* to-be-redeemed tokens.                                                  *)
liquidated_share(w, tokens) ==
    calculate_collateral(w.liquidated_collateral, tokens, w.to_be_redeemed)

decrease_liquidated_collateral(r, v, amount) ==
    Try(amount <= r.vault[v].liquidated_collateral,
        set_vault(r, v, [r.vault[v] EXCEPT !.liquidated_collateral = @ - amount]))

(* An active vault pays the premium out of its stake; a liquidated one is  *)
(* given back the collateral that was held for these tokens.               *)
redeem_tokens(r, v, tokens, premium) ==
    LET released == liquidated_share(r.vault[v], tokens)
        settled(s) ==
            IF ~is_liquidated(s.vault[v])
            THEN IF premium = 0 THEN {s}
                 ELSE transfer_funds(s, <<"Collateral", v>>, <<"FreeBalance", v>>, premium)
            ELSE UNION {UNION {unlock_collateral(u, v, released) :
                                  u \in decrease_liquidated_collateral(t, v, released)} :
                           t \in decrease_total_backing_collateral(s, released)}
    IN  UNION {settled(s) : s \in execute_redeem_tokens(r, v, tokens)}

redeem_tokens_liquidation(r, redeemer, tokens) ==
    LET to_transfer == calculate_collateral(r.lv.collateral, tokens,
                                            to_be_backed_tokens(r.lv))
    IN  IF r.lv.to_be_redeemed + tokens <= r.lv.issued
        THEN {[s EXCEPT !.lv.issued = @ - tokens] :
                 s \in transfer_funds(r, <<"LiquidationVault", redeemer>>,
                                      <<"FreeBalance", redeemer>>, to_transfer)}
        ELSE {}

(* A liquidated old vault gets its collateral back into its stake.         *)
replace_tokens(r, old, new, tokens) ==
    LET w == r.vault[old]
        released == liquidated_share(w, tokens)
        redeposited ==
            IF is_liquidated(w)
            THEN UNION {pool_deposit_collateral(s, old, released) :
                           s \in decrease_liquidated_collateral(r, old, released)}
            ELSE {r}
    IN  UNION {UNION {execute_issue_tokens(t, new, tokens) :
                         t \in execute_redeem_tokens(s, old, tokens)} : s \in redeposited}

cancel_replace_tokens(r, old, new, tokens) ==
    LET w == r.vault[old]
        confiscated == liquidated_share(w, tokens)
        slashed ==
            IF is_liquidated(w)
            THEN UNION {transfer_funds(s, <<"LiquidatedCollateral", old>>,
                                       <<"LiquidationVault", old>>, confiscated) :
                           s \in decrease_liquidated_collateral(r, old, confiscated)}
            ELSE {r}
    IN  UNION {UNION {decrease_to_be_issued(t, new, tokens) :
                         t \in decrease_to_be_redeemed(s, old, tokens)} : s \in slashed}

(* The premium that would bring the vault back to the secure threshold:    *)
(* missing collateral * fee / (secure - fee).                              *)
get_vault_max_premium_redeem(w, fee) ==
    checked_mul(saturating_sub(get_required_collateral_for_wrapped(to_be_backed_tokens(w)),
                               w.stake),
                checked_div(fee, params.secure - fee))

ban_vault(r, v) ==
    Try(is_active(r.vault[v]), set_vault(r, v, [r.vault[v] EXCEPT !.banned = TRUE]))

-----------------------------------------------------------------------------
(* Extrinsics                                                              *)

register_vault(v, amount) ==
    /\ ~vault_exists(registry.vault[v])
    /\ amount >= params.minimum
    /\ registry' \in try_deposit_collateral(
                         set_vault(registry, v, [NoVault EXCEPT !.status = "accepting"]),
                         v, amount)
    /\ UNCHANGED <<exchangeRate, params>>

accept_new_issues(v, accepts) ==
    LET w == registry.vault[v] IN
    /\ is_active(w)
    /\ registry' \in update_pools(registry, v,
                       [w EXCEPT !.status = IF accepts THEN "accepting" ELSE "paused"])
    /\ UNCHANGED <<exchangeRate, params>>

(* A custom threshold must exceed the global one; 0 removes it.            *)
set_custom_secure_threshold(v, threshold) ==
    LET w == registry.vault[v] IN
    /\ vault_exists(w)
    /\ threshold # 0 => threshold > params.secure
    /\ registry' \in update_pools(registry, v,
                       [w EXCEPT !.secure_collateral_threshold = threshold])
    /\ UNCHANGED <<exchangeRate, params>>

report_undercollateralized_vault(v) ==
    /\ vault_exists(registry.vault[v])
    /\ is_vault_below_liquidation_threshold(registry.vault[v])
    /\ registry' \in liquidate_vault(registry, v)
    /\ UNCHANGED <<exchangeRate, params>>

recover_vault_id(v) ==
    LET w == registry.vault[v] IN
    /\ is_liquidated(w)
    /\ w.to_be_redeemed = 0
    /\ registry' = set_vault(registry, v, [w EXCEPT !.status = "accepting"])
    /\ UNCHANGED <<exchangeRate, params>>

(* deposit_collateral and withdraw_collateral of the nomination pallet,    *)
(* for the vault's own stake.                                              *)
deposit_collateral(v, amount) ==
    /\ vault_exists(registry.vault[v])
    /\ registry' \in try_deposit_collateral(registry, v, amount)
    /\ UNCHANGED <<exchangeRate, params>>

withdraw_collateral(v, amount) ==
    LET w == registry.vault[v] IN
    /\ vault_exists(w)
    /\ ~withdraw_leaves_dust(w, amount)
    /\ is_allowed_to_withdraw_collateral(w, amount)
    /\ registry' \in force_withdraw_collateral(registry, v, amount)
    /\ UNCHANGED <<exchangeRate, params>>

(* The setters of root.                                                    *)
set_parameters ==
    /\ \/ \E t \in SecureThresholds : params' = [params EXCEPT !.secure = t]
       \/ \E t \in PremiumThresholds : params' = [params EXCEPT !.premium = t]
       \/ \E t \in LiquidationThresholds : params' = [params EXCEPT !.liquidation = t]
       \/ \E m \in Minimums : params' = [params EXCEPT !.minimum = m]
       \/ \E c \in Ceilings : params' = [params EXCEPT !.ceiling = c]
    /\ UNCHANGED <<registry, exchangeRate>>

(* A new median of the oracle takes effect at the start of a block, and    *)
(* the capacity pool is told; a reward it has earned by then stays.        *)
feed_values(rate) ==
    /\ exchangeRate' = rate
    /\ registry' = IF registry.capacity = "stale" THEN set_capacity(registry, "current")
                   ELSE registry
    /\ UNCHANGED params

(* The share of a block reward, or of the fees of vaults of other          *)
(* collaterals, that the capacity of this currency earns.                  *)
distribute_block_reward ==
    /\ registry.capacity = "stale"
    /\ registry' = set_capacity(registry, "blocked")
    /\ UNCHANGED <<exchangeRate, params>>

(* PunishmentDelay blocks after ban_vault the vault is no longer banned.   *)
ban_expires(v) ==
    /\ registry.vault[v].banned
    /\ registry' = [registry EXCEPT !.vault[v].banned = FALSE]
    /\ UNCHANGED <<exchangeRate, params>>

RegistryNext ==
    \/ \E v \in Vaults :
          \/ \E c \in CollateralAmounts : register_vault(v, c)
          \/ \E c \in CollateralAmounts : deposit_collateral(v, c)
          \/ \E c \in CollateralAmounts \cup {registry.vault[v].stake} :
                withdraw_collateral(v, c)
          \/ \E b \in BOOLEAN : accept_new_issues(v, b)
          \/ \E t \in CustomThresholds : set_custom_secure_threshold(v, t)
          \/ report_undercollateralized_vault(v)
          \/ recover_vault_id(v)
          \/ ban_expires(v)
    \/ set_parameters
    \/ \E rate \in Rates : feed_values(rate)
    \/ distribute_block_reward
=============================================================================
