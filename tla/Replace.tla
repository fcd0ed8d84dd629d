------------------------------- MODULE Replace -------------------------------
(***************************************************************************)
(* The replace pallet (crates/replace): a vault offers tokens for          *)
(* replacement and locks griefing collateral for them; another vault       *)
(* accepts part of the offer, the old vault pays it the bitcoin, and the   *)
(* tokens change hands.  An accepted request that is not executed in time  *)
(* can be cancelled by anyone, and still be executed after that.           *)
(***************************************************************************)
EXTENDS VaultRegistry, Fee, Sequences

CONSTANTS ReplaceBtcDustValue,
          MaxReplaces          \* bound: number of accepted requests

ASSUME ReplaceAssumption ==
    /\ ReplaceBtcDustValue \in Nat \ {0}
    /\ MaxReplaces \in Nat

VARIABLE replaceRequests

ReplaceRequest == [old_vault : Vaults, new_vault : Vaults,
                   amount : Nat, collateral : Nat, griefing_collateral : Nat,
                   expired : BOOLEAN,
                   status : {"Pending", "Completed", "Cancelled"}]

ReplaceTypeOK == replaceRequests \in Seq(ReplaceRequest)

ReplaceInit == replaceRequests = << >>

ReplaceIds == DOMAIN replaceRequests

(* As much of the amount as is neither being redeemed nor on offer yet.    *)
request_replace(v, amount) ==
    LET w == registry.vault[v]
        requestable == w.issued - w.to_be_replaced - w.to_be_redeemed
        increase == min(amount, requestable)
    IN
    /\ ensure_not_banned(w)
    /\ w.to_be_replaced + w.to_be_redeemed <= w.issued
    /\ increase # 0
    /\ w.to_be_replaced + increase >= ReplaceBtcDustValue
    /\ registry' \in
          UNION {transfer_funds(s, <<"FreeBalance", v>>, <<"AvailableReplaceCollateral", v>>,
                                get_replace_griefing_collateral(increase)) :
                    s \in try_increase_to_be_replaced_tokens(registry, v, increase)}
    /\ UNCHANGED <<exchangeRate, params, replaceRequests>>

withdraw_replace(v, amount) ==
    /\ vault_exists(registry.vault[v])
    /\ used_to_be_replaced(registry.vault[v], amount) # 0
    /\ registry' \in withdraw_replace_request(registry, v, amount)
    /\ UNCHANGED <<exchangeRate, params, replaceRequests>>

accept_replace_tokens(r, old, new, amount) ==
    UNION {try_increase_to_be_issued_tokens(s, new, amount) :
              s \in try_increase_to_be_redeemed_tokens(r, old, amount)}

accept_replace(old, new, amount, collateral) ==
    LET w == registry.vault[old]
        accepted == used_to_be_replaced(w, amount)
        griefing == used_replace_collateral(w, amount)
        added == calculate_collateral(collateral, accepted, amount)
        backed == UNION {accept_replace_tokens(s, old, new, accepted) :
                            s \in try_deposit_collateral(
                                      decrease_to_be_replaced_tokens(registry, old, amount),
                                      new, added)}
    IN
    /\ Len(replaceRequests) < MaxReplaces
    /\ old # new
    /\ ensure_not_banned(registry.vault[new])
    /\ vault_exists(w)
    /\ accepted >= ReplaceBtcDustValue
    /\ registry' \in UNION {transfer_funds(s, <<"AvailableReplaceCollateral", old>>,
                                           <<"ActiveReplaceCollateral", old>>, griefing) :
                               s \in backed}
    /\ replaceRequests' = Append(replaceRequests,
           [old_vault |-> old, new_vault |-> new, amount |-> accepted,
            collateral |-> added, griefing_collateral |-> griefing,
            expired |-> FALSE, status |-> "Pending"])
    /\ UNCHANGED <<exchangeRate, params>>

(* A pending request returns the griefing collateral; a cancelled one,     *)
(* whose griefing collateral is gone, has to be accepted again first.      *)
execute_replace(i) ==
    LET replace == replaceRequests[i]
        old == replace.old_vault
        new == replace.new_vault
        prepared == IF replace.status = "Pending"
                    THEN transfer_funds(registry, <<"ActiveReplaceCollateral", old>>,
                                        <<"FreeBalance", old>>, replace.griefing_collateral)
                    ELSE accept_replace_tokens(registry, old, new, replace.amount)
    IN
    /\ replace.status \in {"Pending", "Cancelled"}
    /\ registry' \in UNION {replace_tokens(s, old, new, replace.amount) : s \in prepared}
    /\ replaceRequests' = [replaceRequests EXCEPT ![i].status = "Completed", ![i].expired = FALSE]
    /\ UNCHANGED <<exchangeRate, params>>

(* The new vault keeps the griefing collateral, and its additional         *)
(* collateral is released if it can be spared.                             *)
release_new_vault_collateral(r, new, amount) ==
    LET w == r.vault[new] IN
    IF is_liquidated(w) THEN {r}
    ELSE IF withdraw_leaves_dust(w, amount) THEN {}
    ELSE IF is_allowed_to_withdraw_collateral(w, amount)
         THEN force_withdraw_collateral(r, new, amount)
         ELSE {r}

cancel_replace(i) ==
    LET replace == replaceRequests[i]
        old == replace.old_vault
        new == replace.new_vault
        slashed == UNION {transfer_funds(s, <<"ActiveReplaceCollateral", old>>,
                                         <<"FreeBalance", new>>, replace.griefing_collateral) :
                             s \in cancel_replace_tokens(registry, old, new, replace.amount)}
    IN
    /\ replace.status = "Pending"
    /\ replace.expired
    /\ registry' \in UNION {release_new_vault_collateral(s, new, replace.collateral) : s \in slashed}
    /\ replaceRequests' = [replaceRequests EXCEPT ![i].status = "Cancelled", ![i].expired = FALSE]
    /\ UNCHANGED <<exchangeRate, params>>

replace_expires(i) ==
    /\ replaceRequests[i].status = "Pending"
    /\ ~replaceRequests[i].expired
    /\ replaceRequests' = [replaceRequests EXCEPT ![i].expired = TRUE]
    /\ UNCHANGED registryVars

ReplaceNext ==
    \/ \E v \in Vaults, x \in TokenAmounts : request_replace(v, x)
    \/ \E v \in Vaults, x \in TokenAmounts : withdraw_replace(v, x)
    \/ \E old, new \in Vaults, x \in TokenAmounts, c \in CollateralAmounts :
          accept_replace(old, new, x, c)
    \/ \E i \in ReplaceIds : execute_replace(i)
    \/ \E i \in ReplaceIds : cancel_replace(i)
    \/ \E i \in ReplaceIds : replace_expires(i)
=============================================================================
