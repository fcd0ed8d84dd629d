# A TLA+ verification project for interBTC

interBTC is a Substrate parachain that issues a wrapped Bitcoin. Users pay bitcoin to
*vaults*, which lock collateral on the parachain; wrapped tokens are minted against the
payment (issue) and burned against a payment back (redeem). A vault may hand its
obligations to another vault (replace). A vault whose collateral becomes too small is
liquidated: its tokens and collateral pass to the *liquidation vault*. Bitcoin payments are
proved to a light client, *btc-relay*, that stores block headers. Around this bridge the
parachain has pools that share collateral and rewards among nominators, a native currency
with inflation, votes for locked tokens, governance, money markets and exchanges.

This directory models these as state machines, checks them with TLC on small instances,
and proves the invariants of the bridge, of the relay, of the votes with the block rewards paid for
them and of the pallets that reserve votes, and that the bridge implements its abstract
specification, with TLAPS for all instances.

## 1. Inventory

| Component | State | Operations | Interacts with |
|---|---|---|---|
| `vault-registry` | vaults (token counters, replace offer, liquidated collateral, status, ban, custom threshold), liquidation vault, total collateral, thresholds, ceiling, minimum | register, settings, report (liquidate), recover, governance setters; counters and collateral changed by issue, redeem and replace | staking and reward pools, currency, oracle |
| `issue` | issue requests | request, execute, cancel | registry, fee, btc-relay, treasury |
| `redeem` | redeem requests | request, execute, cancel, liquidation redeem, self redeem, mint after reimbursement | registry, fee, btc-relay, treasury, replace offers |
| `replace` | replace requests | request, withdraw, accept, execute, cancel | registry, btc-relay |
| `nomination`, `staking` | stakes per vault and nominator, slash and reward tallies, nonces | deposit, withdraw, slash, refund, opt in and out | registry, fee |
| `reward`, `fee` | stake and reward tallies, rates, commissions | distribute, claim | staking, escrow, farming |
| `annuity`, `supply` | rates per block, start height, inflation | begin block, update, withdraw | escrow, reward, runtime |
| `escrow` | locks, points, slope changes, limits, blocks, reserved votes | lock, extend, withdraw, limit, reserve | reward, democracy, collator selection |
| `democracy`, `collator-selection` | proposals, deposits, referenda, votes, preimages; candidates, bonds | propose, second, vote, fast track, cancel, launch, bake; register, leave, sessions | escrow, scheduler |
| `loans` | markets, lend tokens, debts, collateral, indices, reserves | mint, redeem, borrow, repay, collateral, liquidate, settings | oracle, currency |
| `dex-general`, `farming` | pairs, reserves, LP supply, bootstraps; schedules and stakes | liquidity, swaps, bootstrap, fees; schedule, deposit, claim | currency, reward |
| `dex-stable` | base and meta pools: balances, fees, A and its ramp, cached virtual price | create, liquidity (balanced, one currency, imbalanced), swaps in and across pools, ramp, fees | currency |
| `currency` | (orml-tokens balances) | checked arithmetic, lock, unlock, mint, burn, transfer | all |
| `oracle` | raw values, aggregates, validity | feed, begin block, conversions | all that convert |
| `security` | active block counter, nonce | activate counter, begin block | btc-relay, registry (bans) |
| `btc-relay` | headers, chains by position, chains by id, index by height, best block | initialize, store header (extend, fork, reorganise), verify inclusion, expiry | security, bitcoin |
| `bitcoin` | none | parsing, Merkle proofs, retargeting | btc-relay |
| `tx-pause`, `clients-info`, `dex-swap-router`, `multi-transaction-payment`, runtimes, RPC | see section 5 | | |

What is hard:

* **Interleavings.** Every extrinsic is atomic (`#[transactional]`), but a request lives over
  many extrinsics of several actors, during which the vault may be liquidated, recovered,
  banned, slashed or have its thresholds changed.
* **Late answers.** A cancelled issue or replace can still be executed; a redeem reimbursed by
  burning can later be minted for again.
* **Two ledgers.** Liquidation copies counters from a vault to the liquidation vault while
  pending requests still refer to the vault; settling must then update both.
* **Caches and stale reads.** `RichVault` holds a copy of the stored vault; the total collateral,
  the reward stakes and the capacity stakes are derived data; denominators must be read before
  they change; votes decay under the deposits that were made with them.
* **Lazy accounting.** Slashes, rewards, interest, incentives and votes are kept as indices and
  tallies that are settled for one account at a time, in any order, with rounding at each step.
* **Hooks.** What a block hook did before it failed is not rolled back.
* **Rounding.** Shares of collateral, fees, griefing collateral, issuable tokens, interest and
  liquidity are rounded in different directions.
* **Forks.** Headers arrive in any order; a reorganisation may involve a chain of forks.
* **Two clocks.** A request expires when both the active parachain blocks and the Bitcoin height
  have passed; launches follow the timestamp and referenda the block number.

`PROJECT.json` lists each of these as a hazard at its line, with the property that covers it.

Correctness, per component: the counters of the registry are the sums over pending requests;
supply is backed; each locked balance belongs to something pending; new obligations are
collateralised; requests can be ended; the relay's indexes describe a tree of headers whose
main chain is only replaced by a fork sufficiently ahead; targets follow Bitcoin's rule; expiry
is final. Pools promise no more than was put into them, whatever the order in which accounts are
settled; the total of the votes is at most the votes there are; tallies and deposits are the sums
over what voters and proposers have on record; suppliers of a market and holders of LP tokens lose
nothing to others' calls; nobody leaves an own call undercollateralised.

## 2. Modules

| Module | Models |
|---|---|
| `Amounts` | arithmetic of `currency/src/amount.rs`, proportional shares |
| `VaultRegistry` | the registry, with a vault's stake as a number, and the price |
| `Treasury` | the ledger of wrapped tokens |
| `Fee` | fees and griefing collateral |
| `Issue`, `Redeem`, `Replace` | the three request pallets |
| `Sums` | totals over finite sets, for the properties of the bridge and of `BlockRewards`, and for `Custody` |
| `Bridge` | their composition on one registry, and its properties |
| `Custody` | the abstract specification of the bridge |
| `Security`, `BtcRelay` | block counter and light client, and their properties |
| `SignedFixed` | signed fixed-point numbers (`FixedI128`) |
| `Rewards`, `Staking` | the reward and the staking pallet, one pool each |
| `Nomination` | nomination, the pool manager of the registry and the way of the fees down the pools |
| `Escrow` | locks and votes |
| `BlockRewards` | supply, annuities and escrow rewards over `Escrow` and `Rewards` |
| `Democracy`, `CollatorSelection` | the two users of reserved votes |
| `EscrowUsers` | their composition over one `Escrow` |
| `Loans` | the money markets |
| `DexGeneral`, `Farming` | the exchange; LP farming on it, with the properties of both |
| `DexStable` | the stable-swap exchange and its properties |
| `MCBridge`, `MCBtcRelay`, `MCBlockRewards`, `MCLoans`, `MCFarming`, `MCDexStable` | symmetry, structured constants and warm initial states for TLC |
| `DataTheorems` | lemmas on totals, counts, induction and recursive functions |
| `BridgeProofs` | proofs: arithmetic and the registry; types and collateral; new obligations of a vault are collateralised |
| `ConservationProofs` | proofs: what each operation does to the sums; the conservation theorems, minting and refinement |
| `RelayProofs` | proofs: the relay's tree of headers, its reorganisations and its five properties |
| `EscrowTheorems` | lemmas on the escrow's operations: types, reserved votes, lines and the total of the votes |
| `BlockRewardsProofs` | proofs: the total of the votes, and the funding of block rewards |
| `EscrowUsersProofs` | proofs: democracy and collator selection on the escrow, all three properties |
| `NominationProofs` | proofs: the books of the staking pools, over every nonce |

**Failing calls.** An operator that translates a fallible Rust function maps the state it changes
(the registry, a pool, the markets) to the *set of its results*: a singleton, or `{}` for `Err`.
Calls are chained with `UNION {f(s) : s \in g(r)}`, and an extrinsic is the action
`registry' \in ...`. An empty set disables the action, which is the roll-back of a transactional
extrinsic. Where the code drops an error (`let _ = ban_vault`, the surplus of an issue, the hook on
a price change) the operator returns the old state instead; the begin-block hooks of
`BlockRewards` are not transactional, and keep what they did before the failing step.

**State of the bridge.** `registry` is one record: `vault[v]` (the `Vault` struct together with its
stake in the staking pool, its reward stake and the collateral reserved on its account), `lv` (the
liquidation vault), `total` (`TotalUserVaultCollateral`), `griefing` (reserved griefing currency
per account) and `capacity`. `params` are the governance parameters, `exchangeRate` the oracle's price, `tokens`
the wrapped balances. Requests are sequences; the position is the identifier. A request's `expired`
flag stands for `has_request_expired`; the clocks behind it are in `BtcRelay` and `Security`,
where `ExpiryIsFinal` justifies a flag that is never reset.

**Rewards in the bridge.** Every operation of the pool manager begins with
`distribute_all_vault_rewards(vault_id)?`, and fails with it (`pool_manager.rs:12, 25, 35, 43, 56`). How
much is distributed is `Nomination`'s subject; whether it can fail is the bridge's. `registry.capacity` keeps
what decides that: the currency's stake in the capacity pool is `"current"`; or `"stale"`, after a
liquidation took the last reward stake of the currency and the pool was not told; or `"blocked"`, once
a stale stake has earned something that no vault's reward stake can take over (`ZeroTotalStake`). It
becomes current with the next pool operation or price (`on_exchange_rate_change`), blocked with a
fee of any settlement or a block reward (`distribute_rewards`, `distribute_block_reward`), and
stays blocked: what could end it begins with the step that fails. Two details are choices: whether the
stale stake is zero (it is what slashing left of the nominators' part, which `VaultRegistry` does not
know), and whether the share of a fee comes to a whole unit.

**Bitcoin payments.** `execute_*` takes an amount: the payment was verified by the relay, once.
That the relay verifies correctly is the subject of `BtcRelay`; Merkle proofs and transaction
parsing are taken as correct.

**Custody.** The bridge implements (`ImplementsCustody`) a specification that sees the vaults as one
custodian: tokens appear for payments, at most once for each request, and disappear when paid
out; circulation and custody change together; what pending redeems wait for is never given up; and
requests follow their life cycles. The refinement mapping takes the total of the token balances, the
issued tokens of all vaults and of the liquidation vault, and the status of each request.

**BtcRelay.** `relay` holds the storage maps under their own names (`BlockHeaders`, `Chains`,
`ChainsIndex`, `ChainsHashes`, `BestBlock`, ...). `store_block_header` is one action: validation,
extension or creation of a chain, `reorganize_chains` with the swap of the main chain, and the new
best block. Loops over storage are recursive functions or set comprehensions. Targets are small
numbers with a compact encoding of base `CompactBase`, so that the truncation of the encoding
is met. Whether difficulty is checked at all is a value of the genesis, from which it never changes;
without the check nothing reads timestamps and targets, so `MCBtcRelay` uses one of each there.

**Pools.** `Staking` is one vault's staking pool with all its nonces, `Rewards` one pool of the reward
pallet. Fixed-point numbers are integers scaled by `ONE` (signed) or `DIV` (unsigned), 10^18 in
the code and small here, so that roundings are met with small amounts. `Nomination` has the three
levels through which a fee passes: capacity pool (by currency), vault pool (by vault), staking pool
(by nominator), with the vault's tokens as an input (`change_tokens`) because `Bridge` models them.

**Escrow.** A point is a line with a value, a slope and a time; the pallet keeps the history of
points, of which only the last one is read at the current height, so that only that one is kept.
`BlockRewards` composes it with inflation and the two annuities, `EscrowUsers` with the pallets that
reserve votes. A call proposed to democracy is opaque; the scheduler and the preimage store are
external, modelled as the set of scheduled calls and a count of holds.

**Loans.** The whole storage is one record. A missing price is the price 0, for which every
conversion fails. One asset is the oracle's reference.

**Farming.** One LP token and one reward currency are farmed on top of the exchange, whose pairs share
the bootstrap account, for contributions and for the rewards of contributors alike. The history variable
`paid` counts what was claimed of these rewards, and what was paid a second time because
`bootstrap_withdraw_reward` pays out everything that was charged. A swap takes a path of pairs, and its
amounts are computed before the first hop, as in the code.

**DexStable.** Base and meta pools are one record, a base pool being one without a base. `get_d` and
`solve_y` are the code's Newton iterations, with their stop at a step of at most one and their failure
after `MAX_ITERATION` steps; the 256-bit intermediate products are exact in both. A meta pool keeps the
virtual price of its base pool until it is `BASE_CACHE_EXPIRE_TIME` old. Scales are small (`A_PRECISION`
10, prices in thousandths, one currency with a multiplier of 10), so that every truncation is met
with balances of some hundreds. The limits a user states can only make a call fail and are left out,
and users keep what they get.

**Warm initial states.** `MCLoans`, `MCFarming` and `MCDexStable` also start from states in which markets are
supplied, borrowed from or liquidated, pairs traded or bootstrapped. Each is computed by the model's
own operators from the genesis state, hence reachable; the calls needed to get there are not spent
from the bound on calls.

**Abstractions.** In the bridge: one currency pair and one vault per account; callers have the free
balance they spend; the price is always available; fee rates and request periods are fixed.
Everywhere: integers are unbounded (balances are `u128` with checked arithmetic, whose overflow is an
error and changes nothing).

## 3. Runs

Runs that pass:

| Run | Instance | Shows |
|---|---|---|
| `IssueRedeem` | 1 vault, 1 user, 2 issues, 2 redeems, amounts 0–3, price tripling | `SupplyBacked`, `ToBeIssuedConserved`, `RedeemTokensLocked`, `NoStrandedCollateral`, `ObligationsCollateralised`, `MintsMatchRequests` |
| `VaultReplace` | 2 vaults, 1 issue, 1 redeem, 1 replace, fair time and redeemers | `TypeOK`, `RedeemsCovered`, `CollateralLocked`, `GriefingLocked`, `TokensOrdered`, `ImplementsCustody`, `RedeemsEnd` |
| `Governance` | 2 interchangeable vaults, 2 issues, 1 redeem, 2 secure thresholds, minimums and ceilings, a custom threshold | `TotalCollateral`, `RedeemSettlable` |
| `Relay` | without difficulty checks 8 headers in any tree, 2 confirmations, 2 active blocks, suspensions; with them 6 headers, 3 timestamps, period of 2 headers | `HeaderTree`, `VerifiedIsBuried`, `TargetsFollowConsensus`, `ReorgDepth`, `ExpiryIsFinal` |
| `Nomination` | 1 vault, 1 nominator, 2 nonces, 4 operations that add to the state | `PoolsConsistent`, `SlashesConserveStake`, `RewardsCovered`, `SlashKeepsRewards` |
| `BlockRewards` | 2 accounts, 6 blocks, spans of 2, 3 calls | `SupplyAtMostVotes`, `RewardsFunded` |
| `Loans` | 2 users, 2 markets, 3 blocks of a year's interest each, 2 calls from 4 initial states, prices up, down and missing | `LendTokensConsistent`, `IncentivesPromised`, `SuppliersKeepWorth`, `SolventAfterOwnStep` |
| `EscrowUsers` | 2 accounts, 1 call to propose, 4 blocks with late timestamps, 4 calls | `VotesHeldOnce`, `ReferendaInOrder`, `MinimumOfCandidates` |
| `Farming` | 2 users, 2 pairs of 3 assets, 2 bootstrap settings (one with rewards in an asset of the other pair), 2 blocks, 4 calls | `PairsConsistent`, `BootstrapCovered`, `FarmFunded`, `SharesKeepWorth` |
| `DexStable` | 2 users, a base pool of 2 currencies and a meta pool on it, fees 0 and 4 %, 2 calls from a fresh chain and 3 states with liquidity, time past the expiry of the cached price | `PoolsBacked`, `RoundTripNeverPays`, `WorthKept` |

Every property is stated, in words, above its definition, and for each one `PROJECT.json` names a
changed operator ("mutant") that breaks it. Where a property has an exception the comment names it:
`RedeemSettlable` and `RedeemsEnd` except a vault that is not liquidated while the capacity is blocked;
`BootstrapCovered` what was paid a second time; `SlashesConserveStake`, `RewardsCovered` and
`SlashKeepsRewards` hold up to named rounding bounds and while no stake is negative; `RewardsFunded` and
`FarmFunded` hold but for what had been earned when the rate or the schedule was set; `SharesKeepWorth`
while there is no protocol fee and no path uses a pair twice in one direction; `RoundTripNeverPays` and
`WorthKept` up to the one unit by which Newton's iteration may miss. What happens otherwise is in the
observations below.

Runs that end in a counterexample each compare the code with a sentence of the repository:

| Run | The repository says | The code |
|---|---|---|
| `RelayForkCheck` | the main chain is ahead of the next best fork (`btc-relay/src/lib.rs:1318`) | only position 1 is examined, and the list is not always sorted: an extended fork passes only one of several equally high ones (line 1212) |
| `RewardFlow` | changes of reward stake are "also propagate[d] to capacity pool" (`vault-registry/src/pool_manager.rs:75`) | liquidation sets the reward stake to zero without doing so (`types.rs:628`); fees still reach the capacity pool and cannot be passed down, so deposits, withdrawals and slashes of the currency fail, and with them registrations, liquidations, premium redeems and the cancellation of redeems from vaults that are not liquidated |

**Bounds.** Two requests of a kind suffice for one to disturb another's share; two vaults for each
to be old and new vault of a replace. Prices are chosen so that a vault passes from secure to below
the liquidation threshold, and so that a slash can exceed what is left of the stake. Fee rates (40 %
of amounts up to 3) make every rounding matter. Eight headers allow three forks, forks of forks and
a reorganisation with two confirmations. The ceiling bounds deposits and, with the number of
requests (`MaxIssues`, `MaxRedeems`, `MaxReplaces`), the state space; `MaxHeaders` and
`MaxActiveBlocks` bound the relay. In the other modules `MaxOperations`, `MaxCalls` or
`MaxLoanOperations` bound the calls, `MaxNonce` the forced refunds, and `MaxHeight` or `MaxBlock` the
time: long enough for locks to end, a referendum to be launched, voted on, fast tracked and
enacted, a bootstrap to end, and two accruals of interest around any call. Runs that reach these bounds stop there
(`CHECK_DEADLOCK FALSE`); the bridge and the relay are checked for deadlock. No state is cut off
by a constraint.

**Fairness.** `FairSpec` (run `VaultReplace`) assumes that time passes (a pending
request expires) and that a redeemer whose request has expired calls `cancel_redeem` with reimbursement.
Nothing else is fair: neither the vault's payment nor reports, recoveries or price changes. The
cancellation is the redeemer's alone (`ensure!(redeemer == redeem.redeemer)`), so without it no one ends
a request the vault ignores. The run thus shows that no one else can prevent it, but for one case that
the code has (`StakeFrozen`): the vault is not liquidated, and the liquidation of the last vault with
reward stake left a capacity that then earned a reward. The slash that the cancellation needs
distributes rewards first and fails, for good. `VaultReplace` and `Governance` reach it with a paused
vault and the liquidation of the other one. Under `Governance`, `RedeemSettlable` is the safety side of
the same: what has expired can be cancelled at once, under all settings.

**Observations.** Met while modelling; the models do the same, and no run is spent on them.

Bridge and relay:

* Taking offered tokens over "should never fail" (`replace/src/lib.rs:409`), but executing a
  cancelled replace does not reduce an offer made since: accept, cancel, offer again and execute leave
  an offer of more tokens than the vault has free. `TokensOrdered` and `ImplementsCustody` bound the
  tokens that are to be redeemed, not the offer.
* An expired issue cannot be cancelled after liquidation and recovery of the vault: its to-be-issued
  tokens stayed with the liquidation vault (`vault-registry/src/lib.rs:388`, `issue/src/lib.rs:457`).
* The premium "below the premium redeem threshold" (`redeem/src/lib.rs:504`) is paid below the secure
  threshold (line 513).
* A surplus payment to a vault that is paused makes `execute_issue` fail with `InvalidCurrency`
  (`issue/src/lib.rs:560`), where line 571 says "nothing to do on error".
* `cancel_replace` fails if the collateral to be released would leave less than the minimum
  (`replace/src/lib.rs:590-592`).
* The last retarget time is unknown on a fork that began inside the period
  (`btc-relay/src/lib.rs:989-999`).
* `recover_vault_id` does not refresh the reward stake that `collateral_integrity_check` asserts
  (`vault-registry/src/lib.rs:2058`); `TotalUserVaultCollateral` is documented as "excluding the
  liquidation vault" (line 631) and includes it, as `TotalCollateral` states; `Chains` is documented
  as sorted (`btc-relay/src/lib.rs:328`), which the counterexample of `RelayForkCheck` refutes.

Pools and votes:

* "nominators are always allowed to withdraw from stale staking pools" (`nomination/src/lib.rs:232`),
  but `withdraw_stake` compares the amount with the stake in the current pool
  (`staking/src/lib.rs:633`); and a withdrawal from a stale pool reduces
  `TotalUserVaultCollateral` a second time.
* `slash_stake` divides by `TotalStake`, which still contains slashes not yet applied.
* The unsigned, saturating slope changes of the escrow checkpoint let the total supply fall below the
  sum of the votes (equal in `escrow/src/tests.rs:149-150`); `SupplyAtMostVotes` is the direction
  that holds.
* `update_reward_per_block` counts rewards already promised as available; the vault annuity's transfer
  stays when its distribution fails; inflation stops for good if the start height is set into the past.
* `clear_public_proposals` leaves deposits and preimage holds for good, and such a proposal can still
  be seconded; `LowestUnbaked` is never advanced; cancelling a finished referendum leaves the
  scheduled call; the room of `MaxVotes` is freed only by `remove_vote`.
* `set_invulnerables` may name a candidate; "total balance excludes reserved"
  (`collator-selection/src/lib.rs:436`) is not so for escrow votes.

Loans and exchange:

* The exchange rate may leave the allowed range, and then every call to the market fails.
* `redeem` and `withdraw_all_collateral` judge debts in other markets by their last accrued index;
  debts in markets that are not active are not counted.
* `update_market` checks the old `liquidate_incentive_reserved_factor`; a new rate model or reserve
  factor applies to time already passed.
* A liquidation distributes the liquidator's borrower reward instead of the borrower's; the shares of
  borrowers can exceed the emission; liquidation fails where repaying saturates.
* `inner_remove_liquidity` takes shares of the supply before the protocol fee is minted, so that a
  pair may be emptied of reserves while LP tokens exist.
* `bootstrap_withdraw_reward` pays all that was charged although part was claimed
  (`dex-general/src/lib.rs:1082-1087`). If the reward is an asset of another pair it takes that from its
  contributors: three calls of the run `Farming` (end, claim, withdraw) reach a state in which their
  refund fails, which is why `BootstrapCovered` counts `paid.twice`.
* `k_last` survives a time without fee receiver.
* `MINUTE` is 3600 (`dex-stable/src/primitives.rs:26`), so the virtual price is cached for ten hours.
* `swap_meta_pool_underlying` between two currencies of the base pool reports an amount of 0;
  `remove_pool_and_base_pool_liquidity` and `swap_pool_to_base` do not check that the second pool is
  the base pool of the first.
* In a small and very imbalanced pool a round trip without fees can gain the unit that Newton's
  iteration misses.
* `update_reward_schedule` spreads, and `remove_reward_schedule` sweeps, rewards that are not yet
  claimed.

## 4. Proofs

The theorems hold for any sets of prices, amounts and parameters and any bounds on the numbers of
requests that satisfy the named `ASSUME`s: amounts and rates are naturals, prices, thresholds and
`DIV` are positive, vaults and users are disjoint and (`AccountsAssumption`) finite in number. The
last one is needed wherever a sum over accounts is taken; a chain has finitely many accounts. For the
relay (`RelayAssumption`, `SecurityAssumption`) confirmations, intervals and timespans are positive
naturals; the numbers of headers and forks, the heights, timestamps and targets are any. For the
users of the escrow (`EscrowAssumption`, `DemocracyAssumption`, `CollatorAssumption`,
`EscrowUsersAssumption`) accounts are finite in number, spans and periods positive, and the fast
track's voting period is at most the regular one, as both runtimes configure it
(`kintsugi/src/lib.rs:502-503`, `interlay/src/lib.rs:499-500`): without it `fast_track` could put
the end of a referendum later than `VotingPeriod` blocks away. For the block rewards
(`BlockRewardsAssumption`, `ONEAssumption`) amounts, rates and shares are naturals, both periods and
the scale `ONE` are positive, accounts are finite in number, and the two shares of the inflation are
at most all of it. For nomination (`NominationAssumption`, `DIVAssumption`) amounts, limits and
commissions are naturals, prices, thresholds and the scale are positive, and vaults and nominators are
disjoint and finite in number.

| Module | Theorem | States |
|---|---|---|
| `BridgeProofs` | `BridgeInvariant` | `Spec => []BridgeInv` |
| | `TypeCorrect` | `Spec => []TypeOK`: no counter or locked balance is ever decreased below zero |
| | `CollateralIsLocked`, `TokensStayOrdered`, `CollateralIsNotStranded` | `[]CollateralLocked`, `[]TokensOrdered`, `[]NoStrandedCollateral` |
| | `NewObligationsBacked` | `Spec => ObligationsCollateralised`, an action property |
| `ConservationProofs` | `BooksInvariant` | `Spec => []BooksInv` |
| | `SupplyIsBacked`, `ToBeIssuedIsConserved`, `RedeemsAreCovered`, `TotalCollateralHolds`, `GriefingIsLocked`, `RedeemTokensAreLocked` | `[]SupplyBacked`, `[]ToBeIssuedConserved`, `[]RedeemsCovered`, `[]TotalCollateral`, `[]GriefingLocked`, `[]RedeemTokensLocked` |
| | `MintsMatch` | `Spec => MintsMatchRequests`, an action property |
| | `BridgeImplementsCustody` | `Spec => ImplementsCustody`, the refinement |
| `RelayProofs` | `RelayInvariant` | `Spec => []RelayInv` |
| | `HeaderTreeHolds`, `VerifiedBlocksAreBuried`, `TargetsAreRight` | `[]HeaderTree`, `[]VerifiedIsBuried`, `[]TargetsFollowConsensus` |
| | `ReorgsAreDeep`, `ExpiryHolds` | `Spec => ReorgDepth`, `Spec => ExpiryIsFinal`, action properties |
| `BlockRewardsProofs` | `BlockRewardsInvariant` | `Spec => []IInv` |
| | `VotesNotCountedTwice`, `BlockRewardsAreFunded` | `[]SupplyAtMostVotes`, `[]RewardsFunded` |
| `EscrowUsersProofs` | `EscrowUsersInvariant` | `Spec => []IInv` |
| | `VotesAreHeldOnce` | `[]VotesHeldOnce` |
| | `ReferendaAreInOrder`, `MinimumRemains` | `Spec => ReferendaInOrder`, `Spec => MinimumOfCandidates`, action properties |
| `NominationProofs` | `NominationInvariant` | `Spec => []IInv` |
| | `StakingBooksAgree` | `[]PoolsConsistent` |

**Types and collateral.** The inductive invariant `BridgeInv` is the type invariant strengthened by
`RegistryOK`: for each vault what is locked is its stake plus its liquidated collateral (`Locked`); an
active vault has no liquidated collateral and has issued at least what it is to redeem, a liquidated
one has given everything else away, one that is not registered holds nothing (`Ordered`); no
liquidated collateral without to-be-redeemed tokens (`NotStranded`). `TypeOK` alone is not inductive:
that a subtraction stays in `Nat` when a liquidated vault is settled needs the order of the counters,
and that a recovered vault satisfies `Locked` with its stake alone needs `NotStranded`.

`NotStranded` does not hold in the middle of a settlement: the collateral of the settled tokens leaves
before the tokens do. `Settling(r, v, t)` states what holds in between: if `t` are the last tokens, the
collateral has gone. `BridgeProofs` has one lemma per registry operation (`RegistrySound`, `RegistryOK`
or `Settling` before and after) and then one per extrinsic, composed of them. The capacity decides only
whether an operation fails: registries that agree in all else (`SameParts`) satisfy the same invariants
and keep the same books. The arithmetic (products and quotients are naturals, a share is at most the
whole, the share of everything is everything) comes first.

**Obligations.** A vault may be far below its secure threshold: prices and thresholds move. What the
code promises is that no call *adds* to what such a vault backs. The last part of `BridgeProofs` sorts
the operations of the registry into those after which no vault backs more tokens (`NoMore`: slashing, withdrawing,
liquidating), those that moreover leave its stake and its threshold alone or better (`Eased`:
everything that settles a request), and the one that adds, `try_increase_to_be_issued_tokens`, which
checks `issuable_tokens` first. In every extrinsic a step of the last kind comes after steps of the
first kind only and before steps of the second only, so the check still holds when the call ends
(`ObligedAfter`, `ObligedBefore`); a call that slashed after its check, or issued without one, would
break the argument. How much the check is worth is arithmetic: `issuable_tokens` rounds down
twice on the way from collateral to tokens, and the used collateral is rounded down twice on the way
back. `RoundingBound` shows that the vault misses its threshold by at most `ceil(threshold)` units of
collateral, independent of the amounts and the price. A bound in tokens would not do: at a low price
a unit of collateral is worth many tokens.

**Sums.** The conservation properties sum amounts over requests and accounts. A sum defined by a
fold could only be reasoned about by an induction over its definition, which the library states with an
operator as parameter and the provers cannot instantiate. `Sums` therefore counts:
an element `x` contributes the `f[x]` pairs `<<x, 1>>`, ..., `<<x, f[x]>>`, and `Total` is the
cardinality of their union. The library's theorems on cardinalities of unions and differences then
give, in `DataTheorems`, what adding, removing or changing an element does to a total.

**Conservation.** `BooksInv` adds to `BridgeInv` the predicate `Books(registry, tokens,
issueRequests, redeemRequests, replaceRequests)`: supply is the issued tokens; to-be-issued tokens
are the claims of pending issues and replaces; each vault's to-be-redeemed tokens split into those of
pending redeems and of pending replaces; the recorded total exceeds the collateral by nothing, and
the liquidation vault's copy of to-be-redeemed tokens that of the liquidated vaults by nothing;
griefing collateral and locked wrapped tokens, account by account and in total, are those of the
pending requests. It is stronger than the properties together: the locked tokens are also counted over
the fee pool, and in total, because the refinement compares them with the supply. `BridgeInv` is
needed because the operations add up only where every checked subtraction is exact.

The argument has three layers. `ConservationProofs` shows first what each registry operation does to the sums
of one registry (`SameBooks` if nothing, else by how much which sum moves); liquidation, which moves
everything to the liquidation vault, is `SameBooks`. Then, what opening, closing or revising one
request does to the sums over the queues, what each ledger operation does to supply and
locks, and when both sides still agree (`IssueStep`, `RedeemStep`, `ReplaceStep`).
One lemma per extrinsic puts these together, and the theorems follow.

**Refinement.** The last part of `ConservationProofs` restates each step as what it does to the requests
and to the issued tokens (`IssueEffect`, `RedeemEffect`, `ReplaceEffect`). Since supply and issued
tokens agree before and after, growth of the supply is one of the two mints (`MintsMatch`), and each
effect is a step of `Custody` or invisible in it. That a burn without a request never takes promised
tokens follows from the state after it: what is promised is at most what redeemers have locked, which is
at most the supply.

**Relay.** The inductive invariant `RelayInv` says that the storage describes a tree. `Tree` is stated
on plain functions (the parent, chain and height of each header, the first and last height of each
chain), apart from the records that hold them: headers come after the ones they extend and one higher
(`Rooted`), chain and height determine the header (`Unique`), a chain has a header at each of its
heights (`Filled`) and is a path (`Linked`). `Stored` adds that `ChainsHashes` is the index of that
tree (`Indexed`) and that `Chains` lists every chain with the main chain first (`Listed`); `Headed`,
that the best block ends the main chain. `HeaderTree`, the property, is not inductive: that a swap
leaves every chain without gaps needs that a fork branches off *below* the end of the chain it extends
(`Linked`), and that the walk down from the fork meets the main chain needs `Rooted`.

A swap of the main chain moves a whole path, which may run through several forks (`PathTo`), and takes
from the old main chain what lies above the point where it meets it. `SwapTree` shows that what
results is a tree again, `SwapIndexed` that the index follows, and `SwapStored` puts both together for
`swap_main_blockchain`. `ReorganizeStored` is about the scan of `reorganize_chains`: it compares an
extended fork with the chains it passes in the list, and swaps only when the main chain is passed by
`Confirmations`. `NewForkTree` and `ExtendTree` are the two ways of adding a header, and `Grown` is
what a whole `store_block_header` leaves unchanged: every header but for its chain, and that too unless
the best height grew by `Confirmations`. `ReorgDepth` and `ExpiryIsFinal` follow from it.

The recursive function `Ancestor`, and the paths, need induction. Where it is over naturals it is done
over a set: the set of counterexamples, if not empty, has a least element (`NatSetInduction`, from the
library's well-founded order of the naturals), so no operator has to be instantiated. `AncestorOf`
shows in this way that the ancestors of the best block are the headers of the main chain, which gives
`VerifiedIsBuried`. `TargetsFollowConsensus` speaks of the line of ancestors of each header, which no
later step changes; the inductive part that it adds (`TargetsRight`) ties each stored target to that
line, and the work is in the step that stores the header, which looks the ancestor up by height.

**Votes.** The pallet keeps one line for each account and one for all of them, which a checkpoint
advances span by span, bending it at the ends of locks by the slope changes recorded there, and then
moves by the difference between the account's new and old lines. `SupplyAtMostVotes` compares the
total with the votes at one height; what is inductive is `VotesCounted`: at the current height the
total's last point is on or below the sum of the votes, its slope is at least the sum of theirs, and
each account's line is that of its lock while the lock lives, and at zero afterwards
(`LineKept`). Then both the total and the votes may decay for any time (`VotesDecay`): a vote loses at
most its slope in a block. Slope changes are unsigned and added, so they only make the total fall
faster, although they are there to flatten it at the end of a lock: `AdvancedBelow` shows, over the
loop of the spans, that the loop ends on or below the point's own line with a slope no smaller. The
total thus drops below the sum in general, as the observations say. `CheckpointVotes` shows that a
checkpoint keeps `VotesCounted`; it needs that a lock that lives is only made larger and longer
(`Grows`), so that the account has at least its old votes and the saturating difference that is added
to the total is the exact one.

**Block rewards.** A pool's stake is a whole number of units for each account (`PoolKept`), so the
products with the reward per token are exact and the claims, what accounts have earned in fixed
point, do not change when stake is withdrawn and deposited again (`StakeChanged`): only the division
that spreads a reward rounds, downwards (`Spread`), and so does the payment of whole units
(`ComputeReward`). Together the claims therefore grow by at most each reward (`Distributed`) and
fall by at least each payment (`Paid`). The inductive part is `Covered`: with the rewards of the blocks
left in the emission period, the claims are at most the account's balance and what was claimed when
the rate was set. A block moves one reward from "left" to "claimed"; a payment takes the same from
both sides; a new rate starts again (`NewRate`). `EscrowRewardsCovered` alone would not be
inductive, since it says nothing of the blocks to come. An earlier form of it, that everything owed is
there if nothing was owed in whole units when the rate was set, held on the instance and was found
not to hold in general while proving it: fractions below a unit, which no account can withdraw yet,
were already promised, and with many accounts they add up to units. The history `rateSet.claims` now
counts them, and `FarmFunded` of the farming pools was restated in the same way.

**Users of the escrow.** The inductive invariant `IInv` has four parts that the actions change apart:
`Clock` (time and the launches), `Money(escrow, props, collators)` (what is reserved is what
deposits and bonds account for), `Polls(refs, votes, height)` (open referenda count the votes on
record and end later) and `Holds(preimages, props.public, refs, agenda)`. The properties are not
inductive. That a tally can be reduced by the vote that is withdrawn, and stays the sum, needs that the
vote is part of the sum, for votes on closed referenda too (`VotesTyped`). That a deposit is returned
once needs that no two queued proposals share an index and that indices are below the count
(`PropsTyped`), and that a kicked candidate frees its bond alone needs that no account is a
candidate twice (`CollatorsTyped`). That no two launches fall in one period needs that the next launch
is a multiple of the period after the last one (`Launches`): the code advances it by whole periods, so
`LaunchesAgain` can compare quotients.

`compare_rationals` decides a referendum by the continued fractions of both sides. `ComparesRationals`
shows, by induction on the denominators, that the recursive function has exactly one value, the
comparison of the cross products; with `integer_sqrt` monotone, `ApprovedByMajority` follows: the
nays are divided by the root of the turnout, the ayes by the root of an electorate taken at least as
large, so more ayes are needed even if the votes behind the tally have decayed to nothing. Three more
recursions are met: the loop of `checkpoint` over the spans (`AdvancedTyped`), `unreserve_all` over
the depositors of a proposal, who may be the same account several times (`UnreserveAllTyped`), and
`kick_stale_candidates` over a copy of the candidates (`KickMoney`). All three go through
`RecursionExists` and `RecursionInvariant` of `DataTheorems`, which prove for functions
defined by `f[k]` from `f[k - 1]` that they exist and keep what each step keeps. They are stated
over sets instead of operators, from `NatSetInduction`.

A block (`BlockStep`) does everything at once: bonds are freed, two proposals become referenda
(`Launched` says what that leaves: money in order, old referenda untouched, new ones open, and each
hold handed from the proposal to its referendum), referenda end, and calls that are due run. In
`HoldsBlock` each hold that is dropped is paired with one user that has gone, and each that stays is
handed on.

**Staking pools.** A slash is recorded once for a whole pool and applied to a staker when that staker
is next touched, which changes the stake and has to change the total by the same. A withdrawal may be
from a pool that a forced refund has closed, and `force_refund` copies a part of the old pool to the
next nonce. `IInv` says, for every nonce of every vault and not only the current one, that the total
is the sum of the stakes (`StakePool`); next to it are the types of the three kinds of pools
(`Chain`), of the vaults and of the ledger. Two parts of it are not types. `RedeemsBacked`: what a
vault is to redeem is part of what it backs until it is liquidated; without it a liquidation would
move a negative share of the collateral. And balances are naturals although stakes and tallies are
not: stakes may drop below zero after a withdrawal from a closed pool, and then a total may, so that
the code's conversions to an unsigned balance fail. The model has these failures as guards where the
backing collateral is converted; the proof found the three places where they were missing.
Since stakes are signed, `Total` of `Sums` does not apply: `DataTheorems` has `SignedTotal` for them,
with `SumExists` by induction on the size of the set, `SignedTotalChange` for one stake that changes,
and that it is the fold the property is written with.

**Only model-checked.** In the bridge: `RedeemSettlable` (`ENABLED`) and `RedeemsEnd` (liveness under
fairness), which are out of the prover's reach. Of the relay: `OngoingForkDetected`, which does not hold (run
`RelayForkCheck`). Of nomination, `SlashesConserveStake`, `RewardsCovered` and `SlashKeepsRewards`: they
hold up to named rounding bounds that are those of the instance, since every slash rounds once for each
staker. In the money markets, farming and the exchanges: inequalities between sums of rounded
fixed-point products over several pools, and what the exchanges' Newton iterations compute, for which
the provers' arithmetic is too weak or the bounds are those of an instance; `DexStable` is written
with recursive operators besides.

## 5. Not modelled

* How the oracle makes its price (feeds, median, expiry): the price is any value at any time.
* The setters of request periods (which can make an expired request pending again) and of fee rates.
* A fresh lend token for a market: `force_update_market` of `Loans` keeps the one it has, although root may
  name another (`loans/src/lib.rs:822-831`), which would leave the holders of the old one behind.
* Bitcoin parsing, Merkle trees, scripts, addresses, deposit address derivation: byte-level and
  without state.
* `dex-swap-router`, `multi-transaction-payment`, `tx-pause`, `clients-info`, `traits`, RPC: no state
  of their own, or plain assignments.
* The runtimes: they wire the pallets together; only the hooks that move rewards are modelled.

## 6. Plan

1. (done) registry, issue, redeem, replace and their composition; type and collateral theorems.
2. (done) security and btc-relay.
3. (done) staking, rewards and nomination; escrow, annuities and supply; democracy and collator
   selection; loans; both exchanges and farming; the abstract specification `Custody`.
4. (done) Theorems: the conservation invariants of the bridge, `MintsMatchRequests`,
   `ImplementsCustody`, `ObligationsCollateralised`; the relay's tree of headers and its five
   properties.
5. (done) Theorems: the three properties of democracy and collator selection on the escrow; the total
   of the votes and the block rewards; the books of the staking pools.
6. Theorems: invariants of the money markets and the exchanges.
7. The period setters composed with `Bridge`, and the oracle's expiry of prices.
