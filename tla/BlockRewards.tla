----------------------------- MODULE BlockRewards -----------------------------
(***************************************************************************)
(* The native currency from its inflation to the voters: the supply pallet *)
(* mints once per InflationPeriod, the runtime's DealWithRewards splits it *)
(* between the two annuities and the treasury, and each block the annuity  *)
(* pallet distributes a fixed amount, to the votes of the escrow pallet or *)
(* to the vaults.  Supply, EscrowAnnuity and VaultAnnuity run in this      *)
(* order at the beginning of a block; hooks are not transactional, so what *)
(* a failing hook did before the failure stays.                            *)
(***************************************************************************)
EXTENDS Escrow, SignedFixed, Sums

CONSTANTS LockAmounts, InitialSupply, UserFunds,
          LimitRanges, StartHeights, \* heights root may set
          Inflations,           \* rates root may set, scaled by DIV
          InflationPeriod, EmissionPeriod,
          EscrowShare, VaultShare,  \* ESCROW_/VAULT_INFLATION_REWARDS, scaled by DIV
          RewardsPerWrapped,    \* values of reward_per_wrapped root may set
          WrappedSupplies,      \* total issuance of the wrapped currency
          MaxCalls              \* bound: calls in a behaviour

ASSUME BlockRewardsAssumption ==
    /\ LockAmounts \cup Inflations \cup RewardsPerWrapped \cup WrappedSupplies
          \cup StartHeights \subseteq Nat
    /\ LimitRanges \subseteq Nat \X Nat
    /\ IsFiniteSet(Accounts)
    /\ {InitialSupply, UserFunds, EscrowShare, VaultShare, MaxCalls} \subseteq Nat
    /\ {InflationPeriod, EmissionPeriod} \subseteq Nat \ {0}
    /\ EscrowShare + VaultShare <= DIV

VARIABLES height, escrow,
          rewards,      \* the EscrowRewards pool
          supply,       \* StartHeight and Inflation
          annuity,      \* RewardPerBlock of both, RewardPerWrapped of the escrow's
          balances,     \* native currency
          capacity,     \* rewards given to the VaultCapacity pool
          rateSet,      \* history: when the escrow's rate was set, and the claims of then
          calls

vars == <<height, escrow, rewards, supply, annuity, balances, capacity, rateSet, calls>>

R == INSTANCE Rewards

None == [some |-> FALSE]
Some(x) == [some |-> TRUE, value |-> x]

Init ==
    /\ height = 0
    /\ escrow = NewEscrow
    /\ rewards = R!NewPool(Accounts)
    /\ \E i \in Inflations : supply = [start |-> 1, inflation |-> i]
    /\ annuity = [escrow |-> 0, vault |-> 0, per_wrapped |-> None]
    /\ balances = [supply |-> InitialSupply, escrow_annuity |-> 0, vault_annuity |-> 0,
                   treasury |-> 0, fee |-> 0, user |-> [a \in Accounts |-> UserFunds]]
    /\ capacity = 0
    /\ rateSet = [at |-> 0, claims |-> 0]
    /\ calls = 0

(* What the accounts could withdraw now, in whole units, and what they     *)
(* have earned, in fixed point: a fraction of a unit is not paid.          *)
owed == Total([a \in Accounts |-> R!compute_reward(rewards, a)], Accounts)

claim(pool, a) == fixed_mul(pool.stake[a], pool.per_token) - pool.tally[a]
claims == Total([a \in Accounts |-> claim(rewards, a)], Accounts)

total_issuance ==
    balances.supply + balances.escrow_annuity + balances.vault_annuity + balances.treasury
        + balances.fee + Total(balances.user, Accounts)

-----------------------------------------------------------------------------
(* Permill * amount: the nearest integer, the lower one of two.            *)
share(part, amount) == (2 * amount * part + DIV - 1) \div (2 * DIV)

(* update_reward_per_block: the balance counts what is already promised.   *)
reward_per_block(balance) == balance \div EmissionPeriod

(* on_inflation: failing transfers are ignored.                            *)
deal_with_rewards(b, amount) ==
    LET vault == share(VaultShare, amount)
        escrow_part == share(EscrowShare, amount)
        pay(x, account, value) ==
            IF value > x.supply THEN x
            ELSE [x EXCEPT !.supply = @ - value, ![account] = @ + value]
    IN  pay(pay(pay(b, "vault_annuity", vault), "escrow_annuity", escrow_part),
            "treasury", saturating_sub(saturating_sub(amount, vault), escrow_part))

(* Supply::begin_block: new balances and rates, if it is time.             *)
inflated(now) ==
    IF supply.start # now THEN [balances |-> balances, annuity |-> annuity, supply |-> supply]
    ELSE LET minted == checked_mul(total_issuance, supply.inflation)
             b == deal_with_rewards([balances EXCEPT !.supply = @ + minted], minted)
         IN  [balances |-> b,
              annuity |-> [annuity EXCEPT !.vault = reward_per_block(b.vault_annuity),
                                          !.escrow = reward_per_block(b.escrow_annuity)],
              supply |-> [supply EXCEPT !.start = now + InflationPeriod]]

min_reward_per_block(a, wrapped) ==
    IF a.per_wrapped.some THEN min(a.escrow, a.per_wrapped.value * wrapped) ELSE a.escrow

(* VaultBlockRewardProvider: the transfer to the fee account, and then the *)
(* distribution, which fails when no vault has stake and leaves the        *)
(* transferred amount where it is.                                         *)
vault_block_reward(b, amount, has_stake) ==
    IF amount > b.vault_annuity THEN [balances |-> b, capacity |-> capacity]
    ELSE [balances |-> [b EXCEPT !.vault_annuity = @ - amount, !.fee = @ + amount],
          capacity |-> capacity + (IF has_stake THEN amount ELSE 0)]

(* The escrow's rewards stay in the annuity's account until they are       *)
(* withdrawn.                                                              *)
on_initialize(wrapped, vaults_have_stake) ==
    LET now == height + 1
        i == inflated(now)
        distributed == R!distribute_reward(rewards, to_fixed(min_reward_per_block(i.annuity, wrapped)))
        v == vault_block_reward(i.balances, i.annuity.vault, vaults_have_stake)
    IN
    /\ height < MaxHeight
    /\ height' = now
    /\ supply' = i.supply /\ annuity' = i.annuity
    /\ rewards' = IF distributed = {} THEN rewards ELSE CHOOSE p \in distributed : TRUE
    /\ balances' = v.balances /\ capacity' = v.capacity
    /\ rateSet' = IF supply.start = now THEN [at |-> now, claims |-> claims] ELSE rateSet
    /\ UNCHANGED <<escrow, calls>>

-----------------------------------------------------------------------------
Call ==
    /\ calls < MaxCalls
    /\ calls' = calls + 1
    /\ height' = height

(* All stake is withdrawn and the votes of now are deposited.              *)
restake(pool, e, who) ==
    {R!deposit_stake(p, who, to_fixed(balance_at(e, who, height))) :
        p \in R!withdraw_all_stake(pool, who)}

Deposit(who, results) ==
    /\ Call
    /\ escrow' \in results
    /\ rewards' \in restake(rewards, escrow', who)
    /\ UNCHANGED <<supply, annuity, balances, capacity, rateSet>>

free(who) == balances.user[who]

CreateLock(who, amount, end) ==
    Deposit(who, create_lock(escrow, who, amount, end, free(who), height))
IncreaseAmount(who, amount) ==
    Deposit(who, increase_amount(escrow, who, amount, free(who), height))
IncreaseUnlockHeight(who, end) ==
    Deposit(who, increase_unlock_height(escrow, who, end, free(who), height))
UpdateUserStake(who) ==
    Deposit(who, deposit_for(escrow, who, 0, 0, free(who), height))

(* Mutant: the votes go and their stake stays.                             *)
withdraw_keeping_stake(who) ==
    /\ Call
    /\ escrow' \in remove_lock(escrow, who, height)
    /\ UNCHANGED <<rewards, supply, annuity, balances, capacity, rateSet>>

withdraw(who) ==
    /\ Call
    /\ escrow' \in remove_lock(escrow, who, height)
    /\ rewards' \in R!withdraw_all_stake(rewards, who)
    /\ UNCHANGED <<supply, annuity, balances, capacity, rateSet>>

SetAccountLimit(who, range) ==
    /\ Call
    /\ escrow' = [escrow EXCEPT !.limits[who] = range]
    /\ UNCHANGED <<rewards, supply, annuity, balances, capacity, rateSet>>

SetAccountBlock(who) ==
    /\ Call
    /\ escrow' = [escrow EXCEPT !.blocks = @ \cup {who}]
    /\ UNCHANGED <<rewards, supply, annuity, balances, capacity, rateSet>>

ReserveVotes(who, value) ==
    /\ Call
    /\ escrow' \in reserve(escrow, who, value, height)
    /\ UNCHANGED <<rewards, supply, annuity, balances, capacity, rateSet>>

UnreserveVotes(who, value) ==
    /\ Call
    /\ escrow' = unreserve(escrow, who, value)
    /\ UNCHANGED <<rewards, supply, annuity, balances, capacity, rateSet>>

withdraw_rewards(who) ==
    LET value == R!compute_reward(rewards, who) IN
    /\ Call
    /\ rewards' \in R!withdraw_reward(rewards, who)
    /\ value <= balances.escrow_annuity
    /\ balances' = [balances EXCEPT !.escrow_annuity = @ - value, !.user[who] = @ + value]
    /\ UNCHANGED <<escrow, supply, annuity, capacity, rateSet>>

update_rewards ==
    /\ Call
    /\ annuity' = [annuity EXCEPT !.escrow = reward_per_block(balances.escrow_annuity)]
    /\ rateSet' = [at |-> height, claims |-> claims]
    /\ UNCHANGED <<escrow, rewards, supply, balances, capacity>>

set_reward_per_wrapped(value) ==
    /\ Call
    /\ annuity' = [annuity EXCEPT !.per_wrapped = Some(value)]
    /\ UNCHANGED <<escrow, rewards, supply, balances, capacity, rateSet>>

set_start_height_and_inflation(start, inflation) ==
    /\ Call
    /\ supply' = [start |-> start, inflation |-> inflation]
    /\ UNCHANGED <<escrow, rewards, annuity, balances, capacity, rateSet>>

Next ==
    \/ \E w \in WrappedSupplies, s \in BOOLEAN : on_initialize(w, s)
    \/ \E who \in Accounts, a \in LockAmounts, h \in Heights : CreateLock(who, a, h)
    \/ \E who \in Accounts, a \in LockAmounts : IncreaseAmount(who, a)
    \/ \E who \in Accounts, h \in Heights : IncreaseUnlockHeight(who, h)
    \/ \E who \in Accounts : UpdateUserStake(who)
    \/ \E who \in Accounts : withdraw(who)
    \/ \E who \in Accounts, r \in LimitRanges : SetAccountLimit(who, r)
    \/ \E who \in Accounts : SetAccountBlock(who)
    \/ \E who \in Accounts, v \in LockAmounts : ReserveVotes(who, v)
    \/ \E who \in Accounts, v \in LockAmounts : UnreserveVotes(who, v)
    \/ \E who \in Accounts : withdraw_rewards(who)
    \/ update_rewards
    \/ \E v \in RewardsPerWrapped : set_reward_per_wrapped(v)
    \/ \E h \in StartHeights, i \in Inflations : set_start_height_and_inflation(h, i)

Spec == Init /\ [][Next]_vars

-----------------------------------------------------------------------------
(* Properties                                                              *)

TypeOK ==
    /\ height \in 0..MaxHeight
    /\ \A a \in Accounts : /\ escrow.locked[a].amount \in Nat
                           /\ escrow.locked[a].end \in Heights
                           /\ escrow.reserved[a] \in Nat
                           /\ balances.user[a] \in Nat
    /\ \A x \in {"supply", "escrow_annuity", "vault_annuity", "treasury", "fee"} :
          balances[x] \in Nat
    /\ rewards.total \in Nat
    /\ calls \in 0..MaxCalls

(* No vote is counted twice: the total the referenda are measured against  *)
(* (total_issuance of the escrow pallet) is at most the votes there are.   *)
SupplyAtMostVotes ==
    total_supply(escrow, height)
        <= Total([a \in Accounts |-> balance_at(escrow, a, height)], Accounts)

(* Block rewards are shared by votes: the stake of an account is what its  *)
(* votes were when its lock was last touched, and nothing once it left.    *)
StakeFollowsVotes ==
    \A a \in Accounts : rewards.stake[a] = to_fixed(escrow.user[a].bias)

(* For one emission period after a rate was set, the annuity's account can *)
(* pay every voter but for what they had earned before: the rate is a      *)
(* share of the account's balance, whoever that is already promised to.    *)
(* Until the rate is set again the shortfall does not grow, whatever the   *)
(* order of blocks, deposits and withdrawals, and roundings included.      *)
EscrowRewardsCovered ==
    height < rateSet.at + EmissionPeriod =>
        to_fixed(owed) <= to_fixed(balances.escrow_annuity) + rateSet.claims

(* The fee account holds every vault reward the capacity pool was told of, *)
(* whichever step of a block's rewards failed.                             *)
VaultRewardsFunded == capacity <= balances.fee

(* Rewards follow the votes, what was promised to voters and vaults is     *)
(* there, and no account of the runtime is ever overdrawn for it.          *)
RewardsFunded == TypeOK /\ StakeFollowsVotes /\ EscrowRewardsCovered /\ VaultRewardsFunded
=============================================================================
