-------------------------------- MODULE Bridge --------------------------------
(***************************************************************************)
(* The bridge: the issue, redeem and replace pallets working on one vault  *)
(* registry.  Every step is one extrinsic (they are transactional, so a    *)
(* failing one changes nothing), a new price, or the passing of time.      *)
(***************************************************************************)
EXTENDS Issue, Redeem, Replace, Sums

(* There are finitely many accounts: sums over them are totals.            *)
ASSUME AccountsAssumption == IsFiniteSet(Vaults) /\ IsFiniteSet(Users)

vars == <<registry, exchangeRate, params, tokens,
          issueRequests, redeemRequests, replaceRequests>>

TypeOK ==
    /\ RegistryTypeOK
    /\ TreasuryTypeOK
    /\ IssueTypeOK
    /\ RedeemTypeOK
    /\ ReplaceTypeOK

Init ==
    /\ RegistryInit
    /\ TreasuryInit
    /\ IssueInit
    /\ RedeemInit
    /\ ReplaceInit

Next ==
    \/ RegistryNext /\ UNCHANGED <<tokens, issueRequests, redeemRequests, replaceRequests>>
    \/ IssueNext /\ UNCHANGED <<redeemRequests, replaceRequests>>
    \/ RedeemNext /\ UNCHANGED <<issueRequests, replaceRequests>>
    \/ ReplaceNext /\ UNCHANGED <<tokens, issueRequests, redeemRequests>>

Spec == Init /\ [][Next]_vars

(***************************************************************************)
(* Time passes, and a redeemer whose request has expired asks for          *)
(* reimbursement: cancel_redeem is the redeemer's call alone, so nothing   *)
(* less would make a request end.                                          *)
(***************************************************************************)
RedeemerCancels(i) ==
    /\ i \in RedeemIds
    /\ cancel_redeem(redeemRequests[i].redeemer, i, TRUE)
    /\ UNCHANGED <<issueRequests, replaceRequests>>

RedeemPeriodEnds(i) ==
    /\ i \in RedeemIds
    /\ redeem_expires(i)
    /\ UNCHANGED <<issueRequests, replaceRequests>>

FairSpec ==
    /\ Spec
    /\ \A i \in 1 .. MaxRedeems :
          WF_vars(RedeemPeriodEnds(i)) /\ WF_vars(RedeemerCancels(i))

-----------------------------------------------------------------------------
(* What the counters stand for                                             *)

Pending(requests) == {i \in DOMAIN requests : requests[i].status = "Pending"}

PendingIssues == Pending(issueRequests)
PendingRedeems == Pending(redeemRequests)
PendingReplaces == Pending(replaceRequests)

(* A field, or an amount, of each member of a family of records, and its   *)
(* sum over some of them.                                                  *)
Field(family, name) == [x \in DOMAIN family |-> family[x][name]]
issue_totals(requests) == [i \in DOMAIN requests |-> requests[i].amount + requests[i].fee]
burn_amounts(requests) == [i \in DOMAIN requests |-> burn_amount(requests[i])]
redeem_totals(requests) ==
    [i \in DOMAIN requests |-> burn_amount(requests[i]) + requests[i].fee]

Supply(t) == Total([a \in Holders |-> t[a].free + t[a].reserved], Holders)

TotalIssuance == Supply(tokens)

issued_tokens(r) == Total(Field(r.vault, "issued"), Vaults) + r.lv.issued
to_be_issued_tokens(r) == Total(Field(r.vault, "to_be_issued"), Vaults) + r.lv.to_be_issued

(***************************************************************************)
(* Every wrapped token in circulation is an issued token of some vault or  *)
(* of the liquidation vault, and conversely: mints and burns on the token  *)
(* ledger (issue, redeem) and the counters of the registry move together   *)
(* through execution, cancellation, reimbursement, replacement and         *)
(* liquidation.                                                            *)
(***************************************************************************)
SupplyBacked == TotalIssuance = issued_tokens(registry)

(***************************************************************************)
(* The to-be-redeemed tokens of a vault are exactly those of its pending   *)
(* redeem requests and of the pending replace requests it is the old vault *)
(* of, liquidated or not, and the liquidation vault holds the copy of      *)
(* those of every liquidated vault.                                        *)
(***************************************************************************)
RedeemsCovered ==
    /\ \A v \in Vaults :
          registry.vault[v].to_be_redeemed =
              Total(burn_amounts(redeemRequests),
                    {i \in PendingRedeems : redeemRequests[i].vault = v})
              + Total(Field(replaceRequests, "amount"),
                      {i \in PendingReplaces : replaceRequests[i].old_vault = v})
    /\ registry.lv.to_be_redeemed =
           Total(Field(registry.vault, "to_be_redeemed"),
                 {v \in Vaults : is_liquidated(registry.vault[v])})

(***************************************************************************)
(* The to-be-issued tokens of all vaults and the liquidation vault         *)
(* together are those of the pending issue requests and of the pending     *)
(* replace requests: partial payments, overpayments, cancellation and      *)
(* liquidation lose none and invent none.                                  *)
(***************************************************************************)
ToBeIssuedConserved ==
    to_be_issued_tokens(registry) =
        Total(issue_totals(issueRequests), PendingIssues)
        + Total(Field(replaceRequests, "amount"), PendingReplaces)

(***************************************************************************)
(* total_user_vault_collateral_integrity_check: the recorded total is the  *)
(* stake and the liquidated collateral of every vault plus the collateral  *)
(* of the liquidation vault.                                               *)
(***************************************************************************)
held_collateral(r) ==
    Total([v \in Vaults |-> r.vault[v].stake + r.vault[v].liquidated_collateral], Vaults)
    + r.lv.collateral

TotalCollateral == registry.total = held_collateral(registry)

(***************************************************************************)
(* The collateral a vault's account has locked is its stake and the        *)
(* collateral held for its to-be-redeemed tokens, and the liquidation      *)
(* vault's account has locked what the liquidation vault owns.             *)
(***************************************************************************)
CollateralLocked ==
    /\ \A v \in Vaults :
          registry.vault[v].reserved =
              registry.vault[v].stake + registry.vault[v].liquidated_collateral
    /\ registry.lv.reserved = registry.lv.collateral

(***************************************************************************)
(* Griefing collateral: what an account has locked is that of its pending  *)
(* issue requests and, for a vault, that of its replace offer and of the   *)
(* accepted requests, the latter being exactly its pending ones.           *)
(***************************************************************************)
GriefingLocked ==
    /\ \A a \in Accounts :
          registry.griefing[a] =
              Total(Field(issueRequests, "griefing_collateral"),
                    {i \in PendingIssues : issueRequests[i].requester = a})
              + IF a \in Vaults
                THEN registry.vault[a].replace_collateral
                     + registry.vault[a].active_replace_collateral
                ELSE 0
    /\ \A v \in Vaults :
          registry.vault[v].active_replace_collateral =
              Total(Field(replaceRequests, "griefing_collateral"),
                    {i \in PendingReplaces : replaceRequests[i].old_vault = v})

(***************************************************************************)
(* The wrapped tokens an account has locked are those of its pending       *)
(* redeem requests, fee included: no settlement forgets a part of them or  *)
(* releases another request's.                                             *)
(***************************************************************************)
RedeemTokensLocked ==
    \A a \in Accounts :
        tokens[a].reserved =
            Total(redeem_totals(redeemRequests),
                  {i \in PendingRedeems : redeemRequests[i].redeemer = a})

(***************************************************************************)
(* The counters of a vault are ordered the way the checked subtractions    *)
(* rely on: an active vault has issued what it is to redeem, a liquidated  *)
(* one has handed its tokens and its replace offer over.                   *)
(***************************************************************************)
TokensOrdered ==
    \A v \in Vaults :
        LET w == registry.vault[v] IN
        /\ w.status # "liquidated" => w.to_be_redeemed <= w.issued
        /\ w.status = "liquidated" =>
              /\ w.issued = 0 /\ w.to_be_issued = 0
              /\ w.to_be_replaced = 0 /\ w.replace_collateral = 0
              /\ w.reward_stake = 0

(***************************************************************************)
(* Collateral is held for to-be-redeemed tokens only as long as there are  *)
(* any: the last settled redeem or replace of a liquidated vault takes all *)
(* that proportional shares left, so that a recovered vault starts clean.  *)
(***************************************************************************)
NoStrandedCollateral ==
    \A v \in Vaults : registry.vault[v].to_be_redeemed = 0
                          => registry.vault[v].liquidated_collateral = 0

(***************************************************************************)
(* The collateral of a vault that is not liquidated cannot be touched when *)
(* the capacity pool has earned a reward that no vault can take over:      *)
(* every pool operation begins by handing the reward on, and fails.        *)
(***************************************************************************)
StakeFrozen(v) == registry.capacity = "blocked" /\ ~is_liquidated(registry.vault[v])

(***************************************************************************)
(* A redeemer does not get stuck: an expired pending redeem request can be *)
(* cancelled with reimbursement after any history of slashes, liquidation, *)
(* recovery, bans, prices, thresholds and ceilings, with one exception.    *)
(* The slash of a vault that is not liquidated distributes rewards first,  *)
(* and while the stakes of the currency are frozen it fails.               *)
(***************************************************************************)
RedeemSettlable ==
    \A i \in PendingRedeems :
        redeemRequests[i].expired /\ ~StakeFrozen(redeemRequests[i].vault)
            => ENABLED cancel_redeem(redeemRequests[i].redeemer, i, TRUE)

(***************************************************************************)
(* Under FairSpec every redeem request ends unless the stake of its vault  *)
(* gets frozen: neither liquidation, recovery or a ban of the vault, nor a *)
(* new price, threshold or ceiling, keeps the redeemer's tokens locked for *)
(* ever; an unclaimable reward of the capacity pool may.                   *)
(***************************************************************************)
RedeemsEnd ==
    \A i \in 1 .. MaxRedeems :
        i \in PendingRedeems ~> \/ i \in RedeemIds \ PendingRedeems
                                \/ i \in RedeemIds /\ StakeFrozen(redeemRequests[i].vault)

(***************************************************************************)
(* New obligations are collateralised: a step that makes an active vault   *)
(* back more tokens (a request, a late execution, an overpayment, an       *)
(* accepted replace, a mint after reimbursement) leaves it at its secure   *)
(* threshold.  The vault may miss it by what the conversions of the check  *)
(* round off: the threshold's multiple of one unit of collateral, whatever *)
(* the amounts and the price.                                              *)
(***************************************************************************)
AtSecureThreshold(w) ==
    LET threshold == get_secure_threshold(w) IN
    checked_mul(wrapped_to_collateral(backed_tokens(w)), threshold)
        <= w.stake + mul_rounding_up(1, threshold)

ObligationsCollateralised ==
    [][\A v \in Vaults :
          backed_tokens(registry'.vault[v]) > backed_tokens(registry.vault[v])
              => AtSecureThreshold(registry'.vault[v])]_vars

(***************************************************************************)
(* Tokens are minted once per payment: supply grows only in a step that    *)
(* completes one issue request, by its total, or settles one reimbursed    *)
(* redeem, by the tokens burned for it.                                    *)
(***************************************************************************)
Completed(requests, status) == {i \in DOMAIN requests : requests[i].status = status}

MintsMatchRequests ==
    [][TotalIssuance' > TotalIssuance =>
          \/ \E i \in IssueIds :
                /\ Completed(issueRequests', "Completed")
                      = Completed(issueRequests, "Completed") \cup {i}
                /\ i \notin Completed(issueRequests, "Completed")
                /\ TotalIssuance' - TotalIssuance
                      = issueRequests'[i].amount + issueRequests'[i].fee
          \/ \E i \in RedeemIds :
                /\ Completed(redeemRequests', "ReimbursedOwed")
                      = Completed(redeemRequests, "ReimbursedOwed") \ {i}
                /\ i \in Completed(redeemRequests, "ReimbursedOwed")
                /\ TotalIssuance' - TotalIssuance = burn_amount(redeemRequests[i])]_vars

(***************************************************************************)
(* The bridge implements Custody: seen from outside, with the vaults and   *)
(* the liquidation vault as one custodian, every extrinsic is a step of a  *)
(* request's life that mints or burns what that request stands for, and    *)
(* no sequence of late payments, reimbursements, replacements and          *)
(* liquidations pays a request twice or gives up what a redeemer awaits.   *)
(***************************************************************************)
Statuses(requests) == [i \in DOMAIN requests |-> requests[i].status]

C == INSTANCE Custody WITH
         circulation <- TotalIssuance,
         custody <- issued_tokens(registry),
         issues <- Statuses(issueRequests),
         redeems <- [i \in RedeemIds |-> [amount |-> burn_amount(redeemRequests[i]),
                                          status |-> redeemRequests[i].status]],
         replaces <- Statuses(replaceRequests)

ImplementsCustody == C!Spec
=============================================================================
