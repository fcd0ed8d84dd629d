-------------------------------- MODULE Redeem --------------------------------
(***************************************************************************)
(* The redeem pallet (crates/redeem): a user locks wrapped tokens and the  *)
(* vault must pay bitcoin; a request that is not executed in time is       *)
(* cancelled by the user, who is reimbursed in collateral or keeps the     *)
(* tokens.  Tokens can also be burned against the liquidation vault, or by *)
(* a vault for itself.                                                     *)
(*                                                                         *)
(* The Bitcoin payment has been verified by btc-relay; the inclusion fee   *)
(* is the oracle's current estimate, chosen when the request is made.      *)
(***************************************************************************)
EXTENDS Treasury, Fee, Sequences

CONSTANTS InclusionFees,       \* fee estimates the oracle may report
          RedeemBtcDustValue,
          MaxRedeems           \* bound: number of redeem requests

ASSUME RedeemAssumption ==
    /\ InclusionFees \subseteq Nat
    /\ RedeemBtcDustValue \in Nat
    /\ MaxRedeems \in Nat

VARIABLE redeemRequests

(* "ReimbursedOwed" is Reimbursed(false): the tokens were burned and the   *)
(* vault may mint them back once it can back them.  "Reimbursed" is        *)
(* Reimbursed(true).                                                       *)
RedeemRequestStatus == {"Pending", "Completed", "Retried", "ReimbursedOwed", "Reimbursed"}

RedeemRequest == [vault : Vaults, redeemer : Accounts,
                  amount_btc : Nat, transfer_fee_btc : Nat, fee : Nat,
                  premium : Nat, expired : BOOLEAN, status : RedeemRequestStatus]

RedeemTypeOK == redeemRequests \in Seq(RedeemRequest)

RedeemInit == redeemRequests = << >>

RedeemIds == DOMAIN redeemRequests

(* The tokens that the vault no longer backs when the request is settled.  *)
burn_amount(redeem) == redeem.amount_btc + redeem.transfer_fee_btc

set_redeem_status(i, status) ==
    [redeemRequests EXCEPT ![i].status = status, ![i].expired = FALSE]

(* Getting rid of tokens by a redeem is as good as by a replace: the       *)
(* vault's open replace request shrinks.                                   *)
release_replace_collateral(r, v, burned) ==
    LET griefing == used_replace_collateral(r.vault[v], burned)
        s == decrease_to_be_replaced_tokens(r, v, burned)
    IN  IF griefing = 0 THEN {s}
        ELSE transfer_funds(s, <<"AvailableReplaceCollateral", v>>, <<"FreeBalance", v>>,
                            griefing)

(* The premium for receiving this much: at most what brings the vault back *)
(* to the secure threshold.                                                *)
redeem_premium(w, received) ==
    min(get_vault_max_premium_redeem(w, PremiumRedeemFee),
        get_premium_redeem_fee(wrapped_to_collateral(received)))

request_redeem(redeemer, v, amount, inclusion_fee) ==
    LET w == registry.vault[v]
        fee == IF redeemer = v THEN 0 ELSE get_redeem_fee(amount)
        burned == amount - fee
        received == burned - inclusion_fee
    IN
    /\ Len(redeemRequests) < MaxRedeems
    /\ inclusion_fee <= burned
    /\ ensure_not_banned(w)
    /\ received >= RedeemBtcDustValue
    /\ w.to_be_redeemed <= backed_tokens(w)
    /\ PremiumRedeemFee < params.secure
    /\ registry' \in UNION {release_replace_collateral(s, v, burned) :
                               s \in try_increase_to_be_redeemed_tokens(registry, v, burned)}
    /\ tokens' \in lock_on(tokens, redeemer, amount)
    /\ redeemRequests' = Append(redeemRequests,
           [vault |-> v, redeemer |-> redeemer,
            amount_btc |-> received, transfer_fee_btc |-> inclusion_fee,
            fee |-> fee, premium |-> redeem_premium(w, received),
            expired |-> FALSE, status |-> "Pending"])
    /\ UNCHANGED <<exchangeRate, params>>

liquidation_redeem(redeemer, amount) ==
    /\ tokens' \in UNION {burn_from(t, redeemer, amount) : t \in lock_on(tokens, redeemer, amount)}
    /\ registry' \in redeem_tokens_liquidation(registry, redeemer, amount)
    /\ UNCHANGED <<exchangeRate, params, redeemRequests>>

execute_redeem(i) ==
    LET redeem == redeemRequests[i]
        burned == burn_amount(redeem)
    IN
    /\ redeem.status = "Pending"
    /\ tokens' \in UNION {unlock_and_transfer(t, redeem.redeemer, FeePool, redeem.fee) :
                             t \in burn_from(tokens, redeem.redeemer, burned)}
    /\ registry' \in UNION {redeem_tokens(s, redeem.vault, burned, redeem.premium) :
                               s \in distribute_rewards(registry, redeem.fee)}
    /\ redeemRequests' = set_redeem_status(i, "Completed")
    /\ UNCHANGED <<exchangeRate, params>>

(* A ban that fails is ignored.                                            *)
try_ban_vault(s, v) == IF ban_vault(s, v) = {} THEN {s} ELSE ban_vault(s, v)

(* Mutant: what a liquidated vault held for the request is not taken.      *)
slash_for_cancel_active(redeem, reimburse) ==
    LET w == registry.vault[redeem.vault] IN
    IF is_liquidated(w) THEN {registry}
    ELSE UNION {try_ban_vault(s, redeem.vault) :
                   s \in transfer_funds(registry, <<"Collateral", redeem.vault>>,
                                        <<"FreeBalance", redeem.redeemer>>,
                                        min(w.stake, wrapped_to_collateral(burn_amount(redeem))))}

(* Mutant: the punishment is taken in full, whatever is left of the stake. *)
slash_for_cancel_unsaturated(redeem, reimburse) ==
    LET v == redeem.vault
        w == registry.vault[v]
        burned == burn_amount(redeem)
        confiscated == liquidated_share(w, burned)
        in_collateral == wrapped_to_collateral(burned)
        punishment == get_punishment_fee(in_collateral)
        to_slash == IF reimburse THEN in_collateral + punishment ELSE punishment
    IN  IF is_liquidated(w)
        THEN UNION {transfer_funds(s, <<"LiquidatedCollateral", v>>,
                                   IF reimburse THEN <<"FreeBalance", redeem.redeemer>>
                                   ELSE <<"LiquidationVault", v>>, confiscated) :
                       s \in decrease_liquidated_collateral(registry, v, confiscated)}
        ELSE UNION {try_ban_vault(s, v) :
                       s \in transfer_funds(registry, <<"Collateral", v>>,
                                            <<"FreeBalance", redeem.redeemer>>, to_slash)}

(***************************************************************************)
(* cancel_redeem.  The collateral that is taken from the vault: its share  *)
(* of the liquidated collateral, or the punishment (plus, on reimburse,    *)
(* the value of the tokens) as far as the stake goes, and a ban.           *)
(***************************************************************************)
slash_for_cancel(redeem, reimburse) ==
    LET v == redeem.vault
        w == registry.vault[v]
        burned == burn_amount(redeem)
        confiscated == liquidated_share(w, burned)
        in_collateral == wrapped_to_collateral(burned)
        punishment == get_punishment_fee(in_collateral)
        to_slash == IF reimburse THEN in_collateral + punishment ELSE punishment
    IN  IF is_liquidated(w)
        THEN UNION {transfer_funds(s, <<"LiquidatedCollateral", v>>,
                                   IF reimburse THEN <<"FreeBalance", redeem.redeemer>>
                                   ELSE <<"LiquidationVault", v>>, confiscated) :
                       s \in decrease_liquidated_collateral(registry, v, confiscated)}
        ELSE UNION {try_ban_vault(s, v) :
                       s \in transfer_funds(registry, <<"Collateral", v>>,
                                            <<"FreeBalance", redeem.redeemer>>,
                                            min(w.stake, to_slash))}

(* The user gets collateral; the tokens are burned, or, if the vault can   *)
(* still back them after the slash, handed to the vault.                   *)
reimburse_redeem(i, s) ==
    LET redeem == redeemRequests[i]
        v == redeem.vault
        burned == burn_amount(redeem)
        fee_paid == unlock_and_transfer(tokens, redeem.redeemer, FeePool, redeem.fee)
        kept == ~is_liquidated(s.vault[v]) /\ ~is_vault_below_secure_threshold(s.vault[v])
    IN
    \/ /\ ~kept
       /\ tokens' \in UNION {burn_from(t, redeem.redeemer, burned) : t \in fee_paid}
       /\ registry' \in execute_redeem_tokens(s, v, burned)
       /\ redeemRequests' = set_redeem_status(i,
             IF is_liquidated(s.vault[v]) THEN "Reimbursed" ELSE "ReimbursedOwed")
    \/ /\ kept
       /\ tokens' \in UNION {unlock_and_transfer(t, redeem.redeemer, v, burned) : t \in fee_paid}
       /\ registry' \in decrease_to_be_redeemed(s, v, burned)
       /\ redeemRequests' = set_redeem_status(i, "Reimbursed")

(* Mutant: the fee stays locked.                                           *)
retry_redeem_keeping_fee(i, s) ==
    LET redeem == redeemRequests[i] IN
    /\ tokens' \in unlock_on(tokens, redeem.redeemer, burn_amount(redeem))
    /\ registry' \in decrease_to_be_redeemed(s, redeem.vault, burn_amount(redeem))
    /\ redeemRequests' = set_redeem_status(i, "Retried")

(* The user keeps the tokens and may try another vault.                    *)
retry_redeem(i, s) ==
    LET redeem == redeemRequests[i]
        burned == burn_amount(redeem)
    IN
    /\ tokens' \in unlock_on(tokens, redeem.redeemer, burned + redeem.fee)
    /\ registry' \in decrease_to_be_redeemed(s, redeem.vault, burned)
    /\ redeemRequests' = set_redeem_status(i, "Retried")

cancel_redeem(redeemer, i, reimburse) ==
    LET redeem == redeemRequests[i] IN
    /\ redeem.status = "Pending"
    /\ redeemer = redeem.redeemer
    /\ redeem.expired
    /\ \E s \in slash_for_cancel(redeem, reimburse) :
          IF reimburse
          THEN \E t \in distribute_rewards(s, redeem.fee) : reimburse_redeem(i, t)
          ELSE retry_redeem(i, s)
    /\ UNCHANGED <<exchangeRate, params>>

(* Mutant: the request stays owed, and can be minted for again.            *)
mint_tokens_for_reimbursed_redeem_again(v, i) ==
    LET reimbursed == burn_amount(redeemRequests[i]) IN
    /\ redeemRequests[i].status = "ReimbursedOwed"
    /\ redeemRequests[i].vault = v
    /\ registry' \in UNION {execute_issue_tokens(s, v, reimbursed) :
                               s \in try_increase_to_be_issued_tokens(registry, v, reimbursed)}
    /\ tokens' = mint_to(tokens, v, reimbursed)
    /\ UNCHANGED <<exchangeRate, params, redeemRequests>>

mint_tokens_for_reimbursed_redeem(v, i) ==
    LET redeem == redeemRequests[i]
        reimbursed == burn_amount(redeem)
    IN
    /\ redeem.status = "ReimbursedOwed"
    /\ redeem.vault = v
    /\ registry' \in UNION {execute_issue_tokens(s, v, reimbursed) :
                               s \in try_increase_to_be_issued_tokens(registry, v, reimbursed)}
    /\ tokens' = mint_to(tokens, v, reimbursed)
    /\ redeemRequests' = set_redeem_status(i, "Reimbursed")
    /\ UNCHANGED <<exchangeRate, params>>

(* A vault burns tokens it holds; no fee if it takes all it can redeem.    *)
self_redeem(v, amount) ==
    LET w == registry.vault[v]
        fee == IF amount = w.issued - w.to_be_redeemed THEN 0 ELSE get_redeem_fee(amount)
        consumed == amount - fee
    IN
    /\ ensure_not_banned(w)
    /\ amount # 0
    /\ w.to_be_redeemed <= w.issued
    /\ tokens' \in UNION {UNION {transfer(u, v, FeePool, fee) : u \in burn_from(t, v, consumed)} :
                             t \in lock_on(tokens, v, consumed)}
    /\ registry' \in
          UNION {UNION {release_replace_collateral(t, v, consumed) :
                           t \in redeem_tokens(s, v, consumed, 0)} :
                    s \in UNION {try_increase_to_be_redeemed_tokens(q, v, consumed) :
                                    q \in distribute_rewards(registry, fee)}}
    /\ UNCHANGED <<exchangeRate, params, redeemRequests>>

redeem_expires(i) ==
    /\ redeemRequests[i].status = "Pending"
    /\ ~redeemRequests[i].expired
    /\ redeemRequests' = [redeemRequests EXCEPT ![i].expired = TRUE]
    /\ UNCHANGED <<registryVars, tokens>>

RedeemNext ==
    \/ \E a \in Requesters, v \in Vaults, x \in TokenAmounts, f \in InclusionFees :
          request_redeem(a, v, x, f)
    \/ \E a \in Requesters, x \in TokenAmounts : liquidation_redeem(a, x)
    \/ \E i \in RedeemIds : execute_redeem(i)
    \/ \E i \in RedeemIds, a \in Requesters, b \in BOOLEAN : cancel_redeem(a, i, b)
    \/ \E i \in RedeemIds, v \in Vaults : mint_tokens_for_reimbursed_redeem(v, i)
    \/ \E v \in Vaults, x \in TokenAmounts : self_redeem(v, x)
    \/ \E i \in RedeemIds : redeem_expires(i)
=============================================================================
