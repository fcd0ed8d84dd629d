-------------------------------- MODULE Issue --------------------------------
(***************************************************************************)
(* The issue pallet (crates/issue): a user reserves a vault's capacity,    *)
(* locks griefing collateral, pays the vault on Bitcoin and has wrapped    *)
(* tokens minted; a request that is not executed in time is cancelled, and *)
(* a cancelled one may still be executed if the vault can back it.         *)
(*                                                                         *)
(* The Bitcoin payment is an input of execute_issue: btc-relay has         *)
(* verified it.  Request ids are numbered in the order of the nonce.       *)
(* `expired` is has_request_expired; it is consulted for pending requests  *)
(* only and reset when a request leaves that status.                       *)
(***************************************************************************)
EXTENDS Treasury, Fee, Sequences

CONSTANTS IssueBtcDustValue,
          MaxIssues            \* bound: number of issue requests

ASSUME IssueAssumption ==
    /\ IssueBtcDustValue \in Nat
    /\ MaxIssues \in Nat

VARIABLE issueRequests

IssueRequest == [vault : Vaults, requester : Accounts,
                 amount : Nat, fee : Nat, griefing_collateral : Nat,
                 expired : BOOLEAN,
                 status : {"Pending", "Completed", "Cancelled"}]

IssueTypeOK == issueRequests \in Seq(IssueRequest)

IssueInit == issueRequests = << >>

IssueIds == DOMAIN issueRequests

(* set_issue_amount: the fee is taken from the amount actually issued.     *)
(* (The rate is constant here, so that redoing it for an unchanged amount, *)
(* which the code does not, changes nothing.)                              *)
set_issue_amount(issue, transferred) ==
    [issue EXCEPT !.fee = get_issue_fee(transferred),
                  !.amount = transferred - get_issue_fee(transferred)]

request_issue(requester, v, amount) ==
    LET w == registry.vault[v]
        griefing == get_issue_griefing_collateral(amount)
    IN
    /\ Len(issueRequests) < MaxIssues
    /\ w.status = "accepting"
    /\ ensure_not_banned(w)
    /\ amount >= IssueBtcDustValue
    /\ registry' \in {[s EXCEPT !.griefing[requester] = @ + griefing] :
                         s \in try_increase_to_be_issued_tokens(registry, v, amount)}
    /\ issueRequests' = Append(issueRequests,
           set_issue_amount([vault |-> v, requester |-> requester,
                             amount |-> 0, fee |-> 0,
                             griefing_collateral |-> griefing,
                             expired |-> FALSE, status |-> "Pending"], amount))
    /\ UNCHANGED <<exchangeRate, params, tokens>>

(***************************************************************************)
(* What execute_issue does before it mints, by status and by the amount    *)
(* paid: the registries it may lead to, and the amount that is issued.     *)
(***************************************************************************)

(* Mutant: the capacity of the vault is not checked again.                 *)
reopen_cancelled_unchecked(issue, transferred) ==
    {[registry EXCEPT !.vault[issue.vault].to_be_issued = @ + transferred]}

(* A cancelled request is taken up again with what was paid.               *)
reopen_cancelled(issue, transferred) ==
    IF registry.vault[issue.vault].status = "accepting"
    THEN try_increase_to_be_issued_tokens(registry, issue.vault, transferred)
    ELSE {}

(* Mutant: the deficit stays to be issued.                                 *)
decrease_issue_amount_keeping_deficit(issue, transferred) ==
    unlock_griefing(registry, issue.requester, issue.griefing_collateral)

(* decrease_issue_amount: the deficit is no longer to be issued, and the   *)
(* griefing collateral is split between the requester and the treasury.    *)
decrease_issue_amount(issue, transferred) ==
    UNION {unlock_griefing(s, issue.requester, issue.griefing_collateral) :
              s \in decrease_to_be_issued(registry, issue.vault,
                                          issue.amount + issue.fee - transferred)}

(* try_increase_issue_amount: the vault issues as much of the surplus as   *)
(* it can back.  For a vault that does not accept new issues the amount it *)
(* can issue is in the wrong currency, and the whole call fails.           *)
surplus_issued(issue, transferred) ==
    LET w == registry.vault[issue.vault]
        surplus == transferred - (issue.amount + issue.fee)
    IN  IF is_liquidated(w) THEN {0}
        ELSE Try(surplus = 0 \/ w.status = "accepting",
                 IF surplus = 0 THEN 0 ELSE min(surplus, issuable_tokens(w)))

increase_issue_amount(issue, increase) ==
    UNION {unlock_griefing(s, issue.requester, issue.griefing_collateral) :
              s \in IF increase = 0 THEN {registry}
                    ELSE try_increase_to_be_issued_tokens(registry, issue.vault, increase)}

(* issue_tokens, the two mints, the fee's distribution and the final       *)
(* status.                                                                 *)
finish_issue(i, prepared, total) ==
    LET issue == set_issue_amount(issueRequests[i], total) IN
    /\ registry' \in UNION {distribute_rewards(s, issue.fee) :
                               s \in UNION {execute_issue_tokens(q, issue.vault, total) :
                                               q \in prepared}}
    /\ tokens' = mint_to(mint_to(tokens, issue.requester, issue.amount), FeePool, issue.fee)
    /\ issueRequests' = [issueRequests EXCEPT ![i] =
                            [issue EXCEPT !.status = "Completed", !.expired = FALSE]]
    /\ UNCHANGED <<exchangeRate, params>>

execute_issue(executor, i, transferred) ==
    LET issue == issueRequests[i]
        expected == issue.amount + issue.fee
    IN
    \/ /\ issue.status = "Cancelled"
       /\ transferred < expected => executor = issue.requester
       /\ finish_issue(i, reopen_cancelled(issue, transferred), transferred)
    \/ /\ issue.status = "Pending"
       /\ transferred < expected
       /\ executor = issue.requester
       /\ finish_issue(i, decrease_issue_amount(issue, transferred), transferred)
    \/ /\ issue.status = "Pending"
       /\ transferred >= expected
       /\ \E increase \in surplus_issued(issue, transferred) :
             finish_issue(i, increase_issue_amount(issue, increase), expected + increase)

(* Mutant: the griefing collateral stays locked.                           *)
cancel_issue_keeping_griefing(canceller, i) ==
    LET issue == issueRequests[i] IN
    /\ issue.status = "Pending"
    /\ issue.expired \/ canceller = issue.requester
    /\ registry' \in decrease_to_be_issued(registry, issue.vault, issue.amount + issue.fee)
    /\ issueRequests' = [issueRequests EXCEPT ![i].status = "Cancelled", ![i].expired = FALSE]
    /\ UNCHANGED <<exchangeRate, params, tokens>>

(* The requester may cancel at any time, anyone once the request expired.  *)
(* All the griefing collateral is unlocked, whoever is given it.           *)
cancel_issue(canceller, i) ==
    LET issue == issueRequests[i] IN
    /\ issue.status = "Pending"
    /\ issue.expired \/ canceller = issue.requester
    /\ registry' \in UNION {decrease_to_be_issued(s, issue.vault, issue.amount + issue.fee) :
           s \in unlock_griefing(registry, issue.requester, issue.griefing_collateral)}
    /\ issueRequests' = [issueRequests EXCEPT ![i].status = "Cancelled", ![i].expired = FALSE]
    /\ UNCHANGED <<exchangeRate, params, tokens>>

(* The period of a pending request runs out (security and btc-relay).      *)
issue_expires(i) ==
    /\ issueRequests[i].status = "Pending"
    /\ ~issueRequests[i].expired
    /\ issueRequests' = [issueRequests EXCEPT ![i].expired = TRUE]
    /\ UNCHANGED <<registryVars, tokens>>

IssueNext ==
    \/ \E a \in Requesters, v \in Vaults, x \in TokenAmounts : request_issue(a, v, x)
    \/ \E i \in IssueIds, a \in Requesters, x \in TokenAmounts : execute_issue(a, i, x)
    \/ \E i \in IssueIds, a \in Requesters : cancel_issue(a, i)
    \/ \E i \in IssueIds : issue_expires(i)
=============================================================================
