------------------------------ MODULE Treasury ------------------------------
(***************************************************************************)
(* The ledger of the wrapped currency (orml-tokens), as the pallets use it *)
(* through the Amount type (crates/currency/src/amount.rs, mod actions).   *)
(* The fee pool account holds the fees until they are paid out as rewards. *)
(***************************************************************************)
EXTENDS VaultRegistry

CONSTANTS FeePool,
          Requesters        \* accounts that issue and redeem

ASSUME TreasuryAssumption ==
    /\ FeePool \notin Accounts
    /\ Requesters \subseteq Accounts

VARIABLE tokens               \* balances of the wrapped currency

Holders == Accounts \cup {FeePool}

Balance == [free : Nat, reserved : Nat]

TreasuryTypeOK == tokens \in [Holders -> Balance]

TreasuryInit == tokens = [a \in Holders |-> [free |-> 0, reserved |-> 0]]

mint_to(t, a, amount) == [t EXCEPT ![a].free = @ + amount]

lock_on(t, a, amount) ==
    Try(amount <= t[a].free,
        [t EXCEPT ![a] = [free |-> @.free - amount, reserved |-> @.reserved + amount]])

unlock_on(t, a, amount) ==
    Try(amount <= t[a].reserved,
        [t EXCEPT ![a] = [free |-> @.free + amount, reserved |-> @.reserved - amount]])

(* Burns reserved tokens only.                                             *)
burn_from(t, a, amount) ==
    Try(amount <= t[a].reserved, [t EXCEPT ![a].reserved = @ - amount])

transfer(t, from, to, amount) ==
    Try(amount <= t[from].free,
        [[t EXCEPT ![from].free = @ - amount] EXCEPT ![to].free = @ + amount])

(* The unlock-and-transfer pair of the redeem pallet.                      *)
unlock_and_transfer(t, from, to, amount) ==
    UNION {transfer(s, from, to, amount) : s \in unlock_on(t, from, amount)}
=============================================================================
