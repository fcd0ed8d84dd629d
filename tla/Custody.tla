------------------------------- MODULE Custody -------------------------------
(***************************************************************************)
(* What the bridge promises, with the vaults taken together as one         *)
(* custodian: tokens appear for payments the custodian received, once for  *)
(* each request, they disappear when they are paid out, and what redeemers *)
(* wait for is never given up.  Prices, collateral, griefing, liquidation  *)
(* and who the tokens move to are not seen.                                *)
(***************************************************************************)
EXTENDS Sequences, Sums

VARIABLES circulation,   \* wrapped tokens that exist
          custody,       \* tokens that vaults answer for
          issues,        \* the status of each issue request
          redeems,       \* the amount and the status of each redeem request
          replaces       \* the status of each replace request

vars == <<circulation, custody, issues, redeems, replaces>>

Init ==
    /\ circulation = 0 /\ custody = 0
    /\ issues = << >> /\ redeems = << >> /\ replaces = << >>

(* Circulation and custody change together or not at all.                  *)
Mint(n) == circulation' = circulation + n /\ custody' = custody + n
Burn(n) ==
    /\ n <= circulation /\ n <= custody
    /\ circulation' = circulation - n /\ custody' = custody - n
Hold == UNCHANGED <<circulation, custody>>

(* What the pending redeem requests are to be paid.                        *)
Promised ==
    Total([i \in DOMAIN redeems |-> redeems[i].amount],
          {i \in DOMAIN redeems : redeems[i].status = "Pending"})

-----------------------------------------------------------------------------

RequestIssue == issues' = Append(issues, "Pending") /\ Hold

CancelIssue(i) ==
    /\ issues[i] = "Pending"
    /\ issues' = [issues EXCEPT ![i] = "Cancelled"]
    /\ Hold

(* A payment that arrives late is still honoured.                          *)
ExecuteIssue(i) ==
    /\ issues[i] \in {"Pending", "Cancelled"}
    /\ issues' = [issues EXCEPT ![i] = "Completed"]
    /\ custody' >= custody
    /\ Mint(custody' - custody)

(* A new promise is made from tokens that are not promised yet.            *)
RequestRedeem ==
    /\ \E n \in 0 .. circulation - Promised :
          redeems' = Append(redeems, [amount |-> n, status |-> "Pending"])
    /\ Hold

SettleRedeem(i, status) ==
    /\ redeems[i].status = "Pending"
    /\ redeems' = [redeems EXCEPT ![i].status = status]

ExecuteRedeem(i) == SettleRedeem(i, "Completed") /\ Burn(redeems[i].amount)

(* The redeemer keeps the tokens, or the vault gets them for collateral.   *)
CancelRedeem(i) == (SettleRedeem(i, "Retried") \/ SettleRedeem(i, "Reimbursed")) /\ Hold

(* The tokens are burned against collateral; the vault may be owed them.   *)
ReimburseRedeem(i) ==
    /\ SettleRedeem(i, "Reimbursed") \/ SettleRedeem(i, "ReimbursedOwed")
    /\ Burn(redeems[i].amount)

MintReimbursed(i) ==
    /\ redeems[i].status = "ReimbursedOwed"
    /\ redeems' = [redeems EXCEPT ![i].status = "Reimbursed"]
    /\ Mint(redeems[i].amount)

(* Tokens burned without a request, never those of a promise.              *)
BurnFree ==
    /\ custody' <= custody
    /\ Burn(custody - custody')
    /\ Promised <= circulation'

AcceptReplace == replaces' = Append(replaces, "Pending") /\ Hold

EndReplace(i) ==
    /\ \/ replaces[i] \in {"Pending", "Cancelled"}
          /\ replaces' = [replaces EXCEPT ![i] = "Completed"]
       \/ replaces[i] = "Pending" /\ replaces' = [replaces EXCEPT ![i] = "Cancelled"]
    /\ Hold

Next ==
    \/ /\ \/ RequestIssue
          \/ \E i \in DOMAIN issues : CancelIssue(i) \/ ExecuteIssue(i)
       /\ UNCHANGED <<redeems, replaces>>
    \/ /\ \/ RequestRedeem
          \/ \E i \in DOMAIN redeems :
                ExecuteRedeem(i) \/ CancelRedeem(i) \/ ReimburseRedeem(i) \/ MintReimbursed(i)
       /\ UNCHANGED <<issues, replaces>>
    \/ BurnFree /\ UNCHANGED <<issues, redeems, replaces>>
    \/ /\ AcceptReplace \/ \E i \in DOMAIN replaces : EndReplace(i)
       /\ UNCHANGED <<issues, redeems>>

Spec == Init /\ [][Next]_vars
=============================================================================
