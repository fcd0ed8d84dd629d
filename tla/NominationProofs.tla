--------------------------- MODULE NominationProofs ---------------------------
(***************************************************************************)
(* Proof that the books of the staking pools agree (PoolsConsistent of     *)
(* module Nomination) for any vaults, nominators, amounts, prices and      *)
(* scales: in the pool of every nonce the total is the sum of the stakes,  *)
(* however many slashes each staker has yet to see, and nothing that is    *)
(* held is below zero.                                                     *)
(***************************************************************************)
EXTENDS Nomination, DataTheorems

-----------------------------------------------------------------------------
(* Fixed-point arithmetic stays within the integers                        *)

LEMMA StakersFinite == IsFiniteSet(Stakers)
BY NominationAssumption DEF Stakers

LEMMA ProductInt ==
    ASSUME NEW x \in Int, NEW y \in Int
    PROVE  x * y \in Int
OBVIOUS

LEMMA QuotientInt ==
    ASSUME NEW x \in Int, NEW y \in Int, y # 0
    PROVE  R!truncated_div(x, y) \in Int /\ S!truncated_div(x, y) \in Int /\ truncated_div(x, y) \in Int
<1>. DEFINE a == IF x >= 0 THEN x ELSE -x
            b == IF y >= 0 THEN y ELSE -y
<1>1. a \in Nat /\ b \in Nat \ {0}
  OBVIOUS
<1>2. a \div b \in Int /\ -(a \div b) \in Int
  <2>. HIDE DEF a, b
  <2>. QED BY <1>1
<1>. QED BY <1>2 DEF R!truncated_div, R!magnitude, S!truncated_div, S!magnitude, truncated_div, magnitude

LEMMA FixedInt ==
    ASSUME NEW x \in Int, NEW y \in Int
    PROVE  /\ R!fixed_mul(x, y) \in Int /\ S!fixed_mul(x, y) \in Int
           /\ y # 0 => R!fixed_div(x, y) \in Int /\ S!fixed_div(x, y) \in Int
           /\ R!to_fixed(x) \in Int /\ S!to_fixed(x) \in Int /\ to_fixed(x) \in Int
           /\ R!truncate_to_inner(x) \in Int /\ S!truncate_to_inner(x) \in Int
           /\ truncate_to_inner(x) \in Int
<1>1. ONE \in Int /\ ONE # 0
  BY ONEAssumption
<1>2. x * y \in Int /\ x * ONE \in Int
  BY <1>1, ProductInt
<1>. QED BY <1>1, <1>2, QuotientInt
         DEF R!fixed_mul, S!fixed_mul, R!fixed_div, S!fixed_div, R!to_fixed, S!to_fixed, to_fixed,
             R!truncate_to_inner, S!truncate_to_inner, truncate_to_inner

LEMMA UnitsInt ==
    ASSUME NEW x \in Int
    PROVE  /\ R!to_fixed(x) \in Int /\ S!to_fixed(x) \in Int /\ to_fixed(x) \in Int
           /\ R!truncate_to_inner(x) \in Int /\ S!truncate_to_inner(x) \in Int
           /\ truncate_to_inner(x) \in Int
<1>1. 0 \in Int
  OBVIOUS
<1>. QED BY <1>1, FixedInt, Zenon

LEMMA CheckedInt ==
    ASSUME NEW x \in Int, NEW y \in Nat
    PROVE  checked_mul(x, y) \in Int /\ (y # 0 => checked_div(x, y) \in Int)
<1>1. DIV \in Nat \ {0}
  BY DIVAssumption
<1>2. x * y \in Int /\ x * DIV \in Int
  BY <1>1, ProductInt
<1>. QED BY <1>1, <1>2 DEF checked_mul, checked_div

-----------------------------------------------------------------------------
(* The pools of the reward pallet                                          *)

RewardPool(T) ==
    [stake : [T -> Int], total : Int, per_token : Int, tally : [T -> Int], rewards : Int]

LEMMA RewardChange ==
    ASSUME NEW T, NEW p \in RewardPool(T), NEW s \in T, NEW x \in Int
    PROVE  R!change_stake(p, s, x) \in RewardPool(T)
<1>1. PICK m : m = R!fixed_mul(p.per_token, x)
  OBVIOUS
<1>2. m \in Int
  BY <1>1, FixedInt DEF RewardPool
<1>3. PICK f, g : /\ f = [p.stake EXCEPT ![s] = @ + x]
                  /\ g = [p.tally EXCEPT ![s] = @ + m]
  OBVIOUS
<1>4. f \in [T -> Int] /\ g \in [T -> Int] /\ p.total + x \in Int
  BY <1>2, <1>3 DEF RewardPool
<1>5. R!change_stake(p, s, x) = [p EXCEPT !.stake = f, !.total = p.total + x, !.tally = g]
  BY <1>1, <1>3 DEF R!change_stake, RewardPool
<1>6. R!change_stake(p, s, x) = [stake |-> f, total |-> p.total + x, per_token |-> p.per_token,
                                 tally |-> g, rewards |-> p.rewards]
  BY <1>5 DEF RewardPool
<1>. QED BY <1>4, <1>6 DEF RewardPool

LEMMA RewardSet ==
    ASSUME NEW T, NEW p \in RewardPool(T), NEW s \in T, NEW x \in Int,
           NEW q \in R!set_stake(p, s, x)
    PROVE  q \in RewardPool(T)
<1>1. PICK c : c = R!get_stake(p, s)
  OBVIOUS
<1>2. c \in Int
  BY <1>1, FixedInt DEF R!get_stake, RewardPool
<1>3. PICK y, z : y = R!to_fixed(x - c) /\ z = R!to_fixed(c - x)
  OBVIOUS
<1>4. y \in Int /\ z \in Int /\ -z \in Int
  BY <1>2, <1>3, FixedInt
<1>5. q \in {R!change_stake(p, s, y)} \/ q \in {R!change_stake(p, s, -z)}
  BY <1>1, <1>3 DEF R!set_stake, R!deposit_stake, R!withdraw_stake
<1>. QED BY <1>4, <1>5, RewardChange

LEMMA RewardDistributed ==
    ASSUME NEW T, NEW p \in RewardPool(T), NEW x \in Int, NEW q \in R!distribute_reward(p, x)
    PROVE  q \in RewardPool(T)
<1>1. CASE q = p
  BY <1>1
<1>2. CASE q # p
  <2>1. PICK d : d = R!fixed_div(x, p.total)
    OBVIOUS
  <2>2. p.total # 0 /\ q = [p EXCEPT !.per_token = @ + d, !.rewards = @ + x]
    BY <1>2, <2>1 DEF R!distribute_reward
  <2>3. d \in Int
    BY <2>1, <2>2, FixedInt DEF RewardPool
  <2>4. p.per_token + d \in Int /\ p.rewards + x \in Int
    BY <2>3 DEF RewardPool
  <2>5. q = [stake |-> p.stake, total |-> p.total, per_token |-> p.per_token + d,
             tally |-> p.tally, rewards |-> p.rewards + x]
    BY <2>2 DEF RewardPool
  <2>. QED BY <2>4, <2>5 DEF RewardPool
<1>. QED BY <1>1, <1>2

LEMMA RewardComputed ==
    ASSUME NEW T, NEW p \in RewardPool(T), NEW s \in T
    PROVE  R!compute_reward(p, s) \in Int
<1>1. PICK m : m = R!fixed_mul(p.stake[s], p.per_token)
  OBVIOUS
<1>2. m \in Int
  BY <1>1, FixedInt DEF RewardPool
<1>3. m - p.tally[s] \in Int
  BY <1>2 DEF RewardPool
<1>. QED BY <1>1, <1>3, FixedInt DEF R!compute_reward

LEMMA RewardWithdrawn ==
    ASSUME NEW T, NEW p \in RewardPool(T), NEW s \in T, NEW q \in R!withdraw_reward(p, s)
    PROVE  q \in RewardPool(T) /\ R!compute_reward(p, s) \in Nat
<1>1. PICK r, m, x : r = R!compute_reward(p, s) /\ m = R!fixed_mul(p.stake[s], p.per_token)
                     /\ x = R!to_fixed(r)
  OBVIOUS
<1>2. r \in Int /\ m \in Int
  BY <1>1, RewardComputed, FixedInt DEF RewardPool
<1>3. x \in Int
  BY <1>1, <1>2, FixedInt
<1>4. r >= 0 /\ q = [p EXCEPT !.rewards = @ - x, !.tally[s] = m]
  BY <1>1, <1>2 DEF R!withdraw_reward
<1>5. PICK g : g = [p.tally EXCEPT ![s] = m]
  OBVIOUS
<1>6. g \in [T -> Int] /\ p.rewards - x \in Int
  BY <1>2, <1>3, <1>5 DEF RewardPool
<1>7. q = [stake |-> p.stake, total |-> p.total, per_token |-> p.per_token,
           tally |-> g, rewards |-> p.rewards - x]
  BY <1>4, <1>5 DEF RewardPool
<1>8. q \in RewardPool(T)
  BY <1>6, <1>7 DEF RewardPool
<1>. QED BY <1>1, <1>2, <1>4, <1>8

-----------------------------------------------------------------------------
(* The pools of the staking pallet: the total is the sum of the stakes     *)

StakePoolType ==
    [stake : [Stakers -> Int], total : Int, current : Int,
     slash_per_token : Int, slash_tally : [Stakers -> Int],
     per_token : Int, tally : [Stakers -> Int], rewards : Int]

StakePool == {p \in StakePoolType : p.total = SignedTotal(p.stake, Stakers)}

StakingPools == [nonce : 0 .. MaxNonce, pool : [0 .. MaxNonce -> StakePool]]

StakeRecord(f, t, c, u, g, k, h, w) ==
    [stake |-> f, total |-> t, current |-> c, slash_per_token |-> u, slash_tally |-> g,
     per_token |-> k, tally |-> h, rewards |-> w]

LEMMA StakeFields ==
    ASSUME NEW p \in StakePool
    PROVE  /\ p.stake \in [Stakers -> Int] /\ p.slash_tally \in [Stakers -> Int]
           /\ p.tally \in [Stakers -> Int]
           /\ p.total \in Int /\ p.current \in Int /\ p.slash_per_token \in Int
           /\ p.per_token \in Int /\ p.rewards \in Int
           /\ p.total = SignedTotal(p.stake, Stakers)
           /\ p = StakeRecord(p.stake, p.total, p.current, p.slash_per_token, p.slash_tally,
                              p.per_token, p.tally, p.rewards)
BY DEF StakePool, StakePoolType, StakeRecord

LEMMA StakeRecordTyped ==
    ASSUME NEW f \in [Stakers -> Int], NEW g \in [Stakers -> Int], NEW h \in [Stakers -> Int],
           NEW t \in Int, NEW c \in Int, NEW u \in Int, NEW k \in Int, NEW w \in Int,
           t = SignedTotal(f, Stakers)
    PROVE  StakeRecord(f, t, c, u, g, k, h, w) \in StakePool
BY DEF StakePool, StakePoolType, StakeRecord

LEMMA OneStakeChanged ==
    ASSUME NEW p \in StakePool, NEW s \in Stakers, NEW f \in [Stakers -> Int],
           \A y \in Stakers : y # s => f[y] = p.stake[y]
    PROVE  SignedTotal(f, Stakers) = p.total - p.stake[s] + f[s]
<1>1. p.stake \in [Stakers -> Int] /\ p.total = SignedTotal(p.stake, Stakers)
  BY StakeFields
<1>. QED BY <1>1, StakersFinite, SignedTotalChange

LEMMA AmountToSlash ==
    ASSUME NEW p \in StakePool, NEW s \in Stakers
    PROVE  S!amount_to_slash(p, s) \in Int
<1>1. p.stake[s] \in Int /\ p.slash_per_token \in Int /\ p.slash_tally[s] \in Int
  BY StakeFields
<1>2. S!fixed_mul(p.stake[s], p.slash_per_token) \in Int
  BY <1>1, FixedInt
<1>. QED BY <1>1, <1>2 DEF S!amount_to_slash

LEMMA PreciseStake ==
    ASSUME NEW p \in StakePool, NEW s \in Stakers
    PROVE  S!compute_precise_stake(p, s) \in Nat
<1>1. S!amount_to_slash(p, s) \in Int /\ p.stake[s] \in Int
  BY AmountToSlash, StakeFields
<1>. QED BY <1>1 DEF S!compute_precise_stake

LEMMA PoolReplaced ==
    ASSUME NEW st \in StakingPools, NEW i \in 0 .. MaxNonce, NEW q \in StakePool
    PROVE  /\ [st EXCEPT !.pool[i] = q] \in StakingPools
           /\ [st EXCEPT !.pool[i] = q].nonce = st.nonce
           /\ [st EXCEPT !.pool[i] = q].pool = [st.pool EXCEPT ![i] = q]
BY DEF StakingPools

LEMMA PoolNow ==
    ASSUME NEW st \in StakingPools
    PROVE  /\ st.nonce \in 0 .. MaxNonce /\ st.pool[st.nonce] \in StakePool
           /\ \A i \in 0 .. MaxNonce : st.pool[i] \in StakePool
BY DEF StakingPools

LEMMA SlashApplied ==
    ASSUME NEW st \in StakingPools, NEW s \in Stakers
    PROVE  S!apply_slash(st, s) \in StakingPools /\ S!apply_slash(st, s).nonce = st.nonce
<1>1. PICK i, p : i = st.nonce /\ p = st.pool[i]
  OBVIOUS
<1>2. i \in 0 .. MaxNonce /\ p \in StakePool
  BY <1>1, PoolNow
<1>3. PICK x, y, m : /\ x = S!amount_to_slash(p, s) /\ y = p.stake[s] - x
                     /\ m = S!fixed_mul(y, p.slash_per_token)
  OBVIOUS
<1>4. x \in Int /\ y \in Int /\ m \in Int /\ p.stake[s] \in Int
  <2>1. x \in Int /\ p.stake[s] \in Int /\ p.slash_per_token \in Int
    BY <1>2, <1>3, AmountToSlash, StakeFields
  <2>2. y \in Int
    BY <1>3, <2>1
  <2>. QED BY <1>3, <2>1, <2>2, FixedInt
<1>5. PICK f, g : f = [p.stake EXCEPT ![s] = y] /\ g = [p.slash_tally EXCEPT ![s] = m]
  OBVIOUS
<1>6. /\ f \in [Stakers -> Int] /\ g \in [Stakers -> Int]
      /\ p.total - x \in Int /\ p.total - x = SignedTotal(f, Stakers)
  <2>1. f \in [Stakers -> Int] /\ SignedTotal(f, Stakers) = p.total - p.stake[s] + y
    <3>1. p.stake \in [Stakers -> Int]
      BY <1>2, StakeFields
    <3>2. f \in [Stakers -> Int] /\ f[s] = y /\ \A z \in Stakers : z # s => f[z] = p.stake[z]
      BY <1>4, <1>5, <3>1
    <3>3. SignedTotal(f, Stakers) = p.total - p.stake[s] + f[s]
      BY <1>2, <3>2, OneStakeChanged
    <3>. QED BY <3>2, <3>3
  <2>2. p.total \in Int /\ p.slash_tally \in [Stakers -> Int]
    BY <1>2, StakeFields
  <2>. QED BY <1>3, <1>4, <1>5, <2>1, <2>2
<1>7. PICK q : q = [p EXCEPT !.total = @ - x, !.stake[s] = y, !.slash_tally[s] = m]
  OBVIOUS
<1>8. q = StakeRecord(f, p.total - x, p.current, p.slash_per_token, g,
                      p.per_token, p.tally, p.rewards)
  BY <1>2, <1>5, <1>7 DEF StakePool, StakePoolType, StakeRecord
<1>9. q \in StakePool
  BY <1>2, <1>6, <1>8, StakeFields, StakeRecordTyped
<1>10. S!apply_slash(st, s) = [st EXCEPT !.pool[i] = q]
  BY <1>1, <1>3, <1>7 DEF S!apply_slash
<1>. QED BY <1>1, <1>2, <1>9, <1>10, PoolReplaced

LEMMA StakeChanged ==
    ASSUME NEW p \in StakePool, NEW s \in Stakers, NEW x \in Int
    PROVE  S!change_stake(p, s, x) \in StakePool
<1>1. PICK m, n : m = S!fixed_mul(p.slash_per_token, x) /\ n = S!fixed_mul(p.per_token, x)
  OBVIOUS
<1>2. /\ p.stake \in [Stakers -> Int] /\ p.slash_tally \in [Stakers -> Int]
      /\ p.tally \in [Stakers -> Int] /\ p.total \in Int /\ p.current \in Int
      /\ p.slash_per_token \in Int /\ p.per_token \in Int /\ p.rewards \in Int
  BY StakeFields
<1>3. m \in Int /\ n \in Int
  BY <1>1, <1>2, FixedInt
<1>4. PICK f, g, h : /\ f = [p.stake EXCEPT ![s] = p.stake[s] + x]
                     /\ g = [p.slash_tally EXCEPT ![s] = p.slash_tally[s] + m]
                     /\ h = [p.tally EXCEPT ![s] = p.tally[s] + n]
  OBVIOUS
<1>5. /\ f \in [Stakers -> Int] /\ g \in [Stakers -> Int] /\ h \in [Stakers -> Int]
      /\ p.total + x \in Int /\ p.current + x \in Int
  BY <1>2, <1>3, <1>4
<1>6. p.total + x = SignedTotal(f, Stakers)
  <2>1. p.stake[s] \in Int /\ p.stake[s] + x \in Int
    BY <1>2
  <2>2. SignedTotal(f, Stakers) = p.total - p.stake[s] + (p.stake[s] + x)
    <3>1. f[s] = p.stake[s] + x /\ \A z \in Stakers : z # s => f[z] = p.stake[z]
      BY <1>2, <1>4
    <3>2. SignedTotal(f, Stakers) = p.total - p.stake[s] + f[s]
      BY <1>5, <3>1, OneStakeChanged
    <3>. QED BY <3>1, <3>2
  <2>. QED BY <1>2, <2>1, <2>2
<1>7. S!change_stake(p, s, x)
          = [p EXCEPT !.stake = f, !.total = p.total + x, !.current = p.current + x,
                      !.slash_tally = g, !.tally = h]
  BY <1>1, <1>4 DEF S!change_stake, StakePool, StakePoolType
<1>8. S!change_stake(p, s, x)
          = StakeRecord(f, p.total + x, p.current + x, p.slash_per_token, g,
                        p.per_token, h, p.rewards)
  BY <1>7 DEF StakePool, StakePoolType, StakeRecord
<1>. QED BY <1>2, <1>5, <1>6, <1>8, StakeRecordTyped

LEMMA StakeDeposited ==
    ASSUME NEW st \in StakingPools, NEW s \in Stakers, NEW x \in Int
    PROVE  S!deposit_stake(st, s, x) \in StakingPools /\ S!deposit_stake(st, s, x).nonce = st.nonce
<1>1. PICK t : t = S!apply_slash(st, s)
  OBVIOUS
<1>2. t \in StakingPools /\ t.nonce = st.nonce
  BY <1>1, SlashApplied
<1>3. PICK q : q = S!change_stake(t.pool[t.nonce], s, x)
  OBVIOUS
<1>4. t.nonce \in 0 .. MaxNonce /\ q \in StakePool
  BY <1>2, <1>3, PoolNow, StakeChanged
<1>5. S!deposit_stake(st, s, x) = [t EXCEPT !.pool[t.nonce] = q]
  BY <1>1, <1>3 DEF S!deposit_stake
<1>. QED BY <1>2, <1>4, <1>5, PoolReplaced

LEMMA CurrentChanged ==
    ASSUME NEW p \in StakePool, NEW c \in Int, NEW k \in Int, NEW u \in Int, NEW w \in Int
    PROVE  StakeRecord(p.stake, p.total, c, u, p.slash_tally, k, p.tally, w) \in StakePool
BY StakeFields, StakeRecordTyped

LEMMA StakeWithdrawn ==
    ASSUME NEW st \in StakingPools, NEW s \in Stakers, NEW x \in Int, NEW i \in 0 .. MaxNonce,
           NEW r \in S!withdraw_stake(st, s, x, i)
    PROVE  r \in StakingPools /\ r.nonce = st.nonce
<1>1. PICK t : t = S!apply_slash(st, s)
  OBVIOUS
<1>2. t \in StakingPools /\ t.nonce = st.nonce
  BY <1>1, SlashApplied
<1>3. PICK p : p = S!change_stake(t.pool[i], s, -x)
  OBVIOUS
<1>4. p \in StakePool
  BY <1>2, <1>3, PoolNow, StakeChanged
<1>5. PICK c : c = IF p.total = 0 THEN 0 ELSE p.current
  OBVIOUS
<1>6. PICK q : q = [p EXCEPT !.current = c]
  OBVIOUS
<1>7. p.current \in Int /\ p.slash_per_token \in Int /\ p.per_token \in Int /\ p.rewards \in Int
  BY <1>4, StakeFields
<1>8. c \in Int
  BY <1>5, <1>7
<1>9. q = StakeRecord(p.stake, p.total, c, p.slash_per_token, p.slash_tally,
                      p.per_token, p.tally, p.rewards)
  BY <1>4, <1>6 DEF StakePool, StakePoolType, StakeRecord
<1>10. q \in StakePool
  BY <1>4, <1>7, <1>8, <1>9, CurrentChanged
<1>11. r = t \/ r = [t EXCEPT !.pool[i] = q]
  BY <1>1, <1>3, <1>5, <1>6 DEF S!withdraw_stake
<1>12. [t EXCEPT !.pool[i] = q] \in StakingPools /\ [t EXCEPT !.pool[i] = q].nonce = t.nonce
  BY <1>2, <1>10, PoolReplaced
<1>. QED BY <1>2, <1>11, <1>12

LEMMA RewardsIncreased ==
    ASSUME NEW p \in StakePool, NEW x \in Int
    PROVE  S!increase_rewards(p, x) \in StakePool
<1>1. /\ p.current \in Int /\ p.slash_per_token \in Int /\ p.per_token \in Int /\ p.rewards \in Int
  BY StakeFields
<1>2. CASE p.current = 0
  BY <1>2 DEF S!increase_rewards
<1>3. CASE p.current # 0
  <2>1. PICK d : d = S!fixed_div(x, p.current)
    OBVIOUS
  <2>2. d \in Int
    BY <1>1, <1>3, <2>1, FixedInt
  <2>3. p.per_token + d \in Int
    BY <1>1, <2>2
  <2>4. S!increase_rewards(p, x) = [p EXCEPT !.per_token = p.per_token + d]
    BY <1>3, <2>1 DEF S!increase_rewards
  <2>5. S!increase_rewards(p, x)
            = StakeRecord(p.stake, p.total, p.current, p.slash_per_token, p.slash_tally,
                          p.per_token + d, p.tally, p.rewards)
    BY <2>4 DEF StakePool, StakePoolType, StakeRecord
  <2>. QED BY <1>1, <2>3, <2>5, CurrentChanged, ZenonT(60)
<1>. QED BY <1>2, <1>3

LEMMA StakeRewarded ==
    ASSUME NEW st \in StakingPools, NEW x \in Int
    PROVE  S!distribute_reward(st, x) \in StakingPools /\ S!distribute_reward(st, x).nonce = st.nonce
<1>1. PICK p, q : p = st.pool[st.nonce] /\ q = S!increase_rewards(p, x)
  OBVIOUS
<1>2. st.nonce \in 0 .. MaxNonce /\ p \in StakePool
  BY <1>1, PoolNow
<1>3. q \in StakePool
  BY <1>1, <1>2, RewardsIncreased
<1>4. PICK w : w = IF p.current = 0 THEN q.rewards ELSE q.rewards + x
  OBVIOUS
<1>5. PICK z : z = [q EXCEPT !.rewards = w]
  OBVIOUS
<1>6. q.current \in Int /\ q.slash_per_token \in Int /\ q.per_token \in Int /\ q.rewards \in Int
  BY <1>3, StakeFields
<1>7. w \in Int
  BY <1>4, <1>6
<1>8. z = StakeRecord(q.stake, q.total, q.current, q.slash_per_token, q.slash_tally,
                      q.per_token, q.tally, w)
  BY <1>3, <1>5 DEF StakePool, StakePoolType, StakeRecord
<1>9. z \in StakePool
  BY <1>3, <1>6, <1>7, <1>8, CurrentChanged
<1>10. S!distribute_reward(st, x) = [st EXCEPT !.pool[st.nonce] = z]
  BY <1>1, <1>4, <1>5 DEF S!distribute_reward
<1>. QED BY <1>2, <1>9, <1>10, PoolReplaced

LEMMA StakeSlashed ==
    ASSUME NEW st \in StakingPools, NEW x \in Int, NEW r \in S!slash_stake(st, x)
    PROVE  r \in StakingPools /\ r.nonce = st.nonce
<1>1. PICK p : p = st.pool[st.nonce]
  OBVIOUS
<1>2. st.nonce \in 0 .. MaxNonce /\ p \in StakePool
  BY <1>1, PoolNow
<1>3. CASE x = 0
  BY <1>3 DEF S!slash_stake
<1>4. CASE x # 0
  <2>1. PICK d, m : d = S!fixed_div(x, p.total) /\ m = S!fixed_mul(p.per_token, x)
    OBVIOUS
  <2>2. PICK q : q = [p EXCEPT !.slash_per_token = @ + d, !.current = @ - x]
    OBVIOUS
  <2>3. p.total # 0 /\ r = [st EXCEPT !.pool[st.nonce] = S!increase_rewards(q, m)]
    BY <1>1, <1>4, <2>1, <2>2 DEF S!slash_stake
  <2>4. /\ p.current \in Int /\ p.slash_per_token \in Int /\ p.per_token \in Int
        /\ p.rewards \in Int /\ p.total \in Int
    BY <1>2, StakeFields
  <2>5. d \in Int /\ m \in Int
    BY <2>1, <2>3, <2>4, FixedInt
  <2>6. p.slash_per_token + d \in Int /\ p.current - x \in Int
    BY <2>4, <2>5
  <2>7. q = StakeRecord(p.stake, p.total, p.current - x, p.slash_per_token + d, p.slash_tally,
                        p.per_token, p.tally, p.rewards)
    BY <1>2, <2>2 DEF StakePool, StakePoolType, StakeRecord
  <2>8. q \in StakePool
    BY <1>2, <2>4, <2>6, <2>7, CurrentChanged
  <2>9. S!increase_rewards(q, m) \in StakePool
    BY <2>5, <2>8, RewardsIncreased
  <2>. QED BY <1>2, <2>3, <2>9, PoolReplaced
<1>. QED BY <1>3, <1>4

LEMMA RewardAtIndex ==
    ASSUME NEW st \in StakingPools, NEW s \in Stakers, NEW i \in 0 .. MaxNonce
    PROVE  S!compute_reward_at_index(st, i, s) \in Nat
<1>1. PICK p, a, m : /\ p = st.pool[i] /\ a = S!compute_precise_stake(p, s)
                     /\ m = S!fixed_mul(a, p.per_token)
  OBVIOUS
<1>2. p \in StakePool
  BY <1>1, PoolNow
<1>3. a \in Int /\ p.per_token \in Int /\ p.tally[s] \in Int
  BY <1>1, <1>2, PreciseStake, StakeFields
<1>4. m \in Int
  BY <1>1, <1>3, FixedInt
<1>5. PICK r : r = S!truncate_to_inner(m - p.tally[s])
  OBVIOUS
<1>6. r \in Int
  <2>1. m - p.tally[s] \in Int
    BY <1>3, <1>4
  <2>. QED BY <1>5, <2>1, UnitsInt
<1>7. S!compute_reward_at_index(st, i, s) = IF r > 0 THEN r ELSE 0
  BY <1>1, <1>5 DEF S!compute_reward_at_index
<1>. QED BY <1>6, <1>7

LEMMA RewardTaken ==
    ASSUME NEW st \in StakingPools, NEW s \in Stakers, NEW i \in 0 .. MaxNonce
    PROVE  /\ S!withdraw_reward_at_index(st, i, s) \in StakingPools
           /\ S!withdraw_reward_at_index(st, i, s).nonce = st.nonce
<1>1. PICK t : t = S!apply_slash(st, s)
  OBVIOUS
<1>2. t \in StakingPools /\ t.nonce = st.nonce
  BY <1>1, SlashApplied
<1>3. PICK p, r, x, m : /\ p = t.pool[i] /\ r = S!compute_reward_at_index(t, i, s)
                        /\ x = S!to_fixed(r) /\ m = S!fixed_mul(p.stake[s], p.per_token)
  OBVIOUS
<1>4. p \in StakePool /\ r \in Nat
  BY <1>2, <1>3, PoolNow, RewardAtIndex
<1>5. /\ p.stake \in [Stakers -> Int] /\ p.tally \in [Stakers -> Int] /\ p.current \in Int
      /\ p.slash_per_token \in Int /\ p.per_token \in Int /\ p.rewards \in Int /\ p.total \in Int
      /\ p.slash_tally \in [Stakers -> Int] /\ p.total = SignedTotal(p.stake, Stakers)
  BY <1>4, StakeFields
<1>6. x \in Int /\ m \in Int
  <2>1. p.stake[s] \in Int /\ r \in Int
    BY <1>4, <1>5
  <2>. QED BY <1>3, <1>5, <2>1, FixedInt, UnitsInt
<1>7. PICK h : h = [p.tally EXCEPT ![s] = m]
  OBVIOUS
<1>8. h \in [Stakers -> Int] /\ p.rewards - x \in Int
  BY <1>5, <1>6, <1>7
<1>9. PICK q : q = [p EXCEPT !.rewards = @ - x, !.tally[s] = m]
  OBVIOUS
<1>10. q = StakeRecord(p.stake, p.total, p.current, p.slash_per_token, p.slash_tally,
                       p.per_token, h, p.rewards - x)
  BY <1>4, <1>7, <1>9 DEF StakePool, StakePoolType, StakeRecord
<1>11. q \in StakePool
  BY <1>5, <1>8, <1>10, StakeRecordTyped
<1>12. S!withdraw_reward_at_index(st, i, s) = [t EXCEPT !.pool[i] = q]
  BY <1>1, <1>3, <1>9 DEF S!withdraw_reward_at_index
<1>. QED BY <1>2, <1>11, <1>12, PoolReplaced

LEMMA StakeComputed ==
    ASSUME NEW st \in StakingPools, NEW s \in Stakers
    PROVE  /\ S!compute_stake(st, s) \in Int /\ S!total_current_stake(st) \in Int
           /\ S!refunded_collateral(st, s) \in Int
<1>1. PICK p : p = st.pool[st.nonce]
  OBVIOUS
<1>2. p \in StakePool
  BY <1>1, PoolNow
<1>3. S!compute_precise_stake(p, s) \in Int /\ p.current \in Int
  BY <1>2, PreciseStake, StakeFields
<1>4. S!compute_stake(st, s) \in Int
  BY <1>1, <1>3, FixedInt DEF S!compute_stake, S!compute_stake_at_index
<1>5. p.current - S!to_fixed(S!compute_stake(st, s)) \in Int
  <2>1. S!to_fixed(S!compute_stake(st, s)) \in Int
    BY <1>4, UnitsInt
  <2>. QED BY <1>3, <2>1
<1>. QED BY <1>1, <1>3, <1>4, <1>5, UnitsInt DEF S!total_current_stake, S!refunded_collateral

LEMMA Refunded ==
    ASSUME NEW st \in StakingPools, NEW s \in Stakers, st.nonce < MaxNonce,
           NEW r \in S!force_refund(st, s)
    PROVE  r \in StakingPools
<1>1. PICK x : x = S!to_fixed(S!compute_stake(st, s))
  OBVIOUS
<1>2. x \in Int
  BY <1>1, StakeComputed, FixedInt
<1>3. PICK w \in S!withdraw_stake(st, s, x, st.nonce) :
          r = S!deposit_stake([w EXCEPT !.nonce = @ + 1], s, x)
  BY <1>1 DEF S!force_refund
<1>4. w \in StakingPools /\ w.nonce = st.nonce
  BY <1>2, <1>3, PoolNow, StakeWithdrawn
<1>5. MaxNonce \in Nat
  BY NominationAssumption
<1>6. [w EXCEPT !.nonce = @ + 1] \in StakingPools
  BY <1>4, <1>5 DEF StakingPools
<1>. QED BY <1>2, <1>3, <1>6, StakeDeposited

-----------------------------------------------------------------------------
(* The chain of pools                                                      *)

Chain == [capacity : RewardPool({Currency}), vault : RewardPool(Vaults),
          staking : [Vaults -> StakingPools], fee_pool : Nat]

ChainRecord(c, r, f, x) == [capacity |-> c, vault |-> r, staking |-> f, fee_pool |-> x]

LEMMA ChainFields ==
    ASSUME NEW p \in Chain
    PROVE  /\ p.capacity \in RewardPool({Currency}) /\ p.vault \in RewardPool(Vaults)
           /\ p.staking \in [Vaults -> StakingPools] /\ p.fee_pool \in Nat
BY DEF Chain

LEMMA StakingReplaced ==
    ASSUME NEW p \in Chain, NEW v \in Vaults, NEW r \in StakingPools
    PROVE  [p EXCEPT !.staking[v] = r] \in Chain /\ [p EXCEPT !.staking[v] = r].staking[v] = r
<1>1. PICK f : f = [p.staking EXCEPT ![v] = r]
  OBVIOUS
<1>2. f \in [Vaults -> StakingPools] /\ f[v] = r
  BY <1>1, ChainFields
<1>3. [p EXCEPT !.staking[v] = r] = ChainRecord(p.capacity, p.vault, f, p.fee_pool)
  BY <1>1 DEF Chain, ChainRecord
<1>4. ChainRecord(p.capacity, p.vault, f, p.fee_pool) \in Chain
  BY <1>2, ChainFields DEF Chain, ChainRecord
<1>. QED BY <1>2, <1>3, <1>4 DEF ChainRecord

LEMMA VaultPoolReplaced ==
    ASSUME NEW p \in Chain, NEW r \in RewardPool(Vaults)
    PROVE  [p EXCEPT !.vault = r] \in Chain /\ [p EXCEPT !.vault = r].staking = p.staking
           /\ [p EXCEPT !.vault = r].vault = r
BY DEF Chain

LEMMA PassedToStakers ==
    ASSUME NEW o \in Chain, NEW v \in Vaults, nomination.commission[v] \in Nat,
           NEW q \in distribute_to_stakers(o, v)
    PROVE  q \in Chain /\ q.staking[v].nonce = o.staking[v].nonce
<1>1. PICK reward, fee : /\ reward = R!compute_reward(o.vault, v)
                         /\ fee = checked_mul(reward, nomination.commission[v])
  OBVIOUS
<1>2. PICK w \in R!withdraw_reward(o.vault, v) :
          /\ fee <= o.fee_pool
          /\ q = [o EXCEPT !.vault = w, !.fee_pool = @ - fee,
                           !.staking[v] = S!distribute_reward(@, to_fixed(reward - fee))]
  BY <1>1 DEF distribute_to_stakers
<1>3. w \in RewardPool(Vaults) /\ reward \in Nat
  BY <1>1, <1>2, ChainFields, RewardWithdrawn
<1>4. fee \in Int /\ o.fee_pool \in Nat
  BY <1>1, <1>3, CheckedInt, ChainFields
<1>5. PICK st : st = S!distribute_reward(o.staking[v], to_fixed(reward - fee))
  OBVIOUS
<1>6. st \in StakingPools /\ st.nonce = o.staking[v].nonce
  <2>1. reward - fee \in Int
    BY <1>3, <1>4
  <2>2. to_fixed(reward - fee) \in Int
    BY <2>1, UnitsInt
  <2>3. o.staking[v] \in StakingPools
    BY ChainFields
  <2>. QED BY <1>5, <2>2, <2>3, StakeRewarded
<1>7. PICK f : f = [o.staking EXCEPT ![v] = st]
  OBVIOUS
<1>8. f \in [Vaults -> StakingPools] /\ f[v] = st
  BY <1>6, <1>7, ChainFields
<1>9. q = [o EXCEPT !.vault = w, !.fee_pool = o.fee_pool - fee, !.staking = f]
  BY <1>2, <1>5, <1>7 DEF Chain
<1>10. q = ChainRecord(o.capacity, w, f, o.fee_pool - fee)
  BY <1>9 DEF Chain, ChainRecord
<1>11. o.fee_pool - fee \in Nat
  BY <1>2, <1>4
<1>12. q \in Chain
  BY <1>3, <1>8, <1>10, <1>11, ChainFields DEF Chain, ChainRecord
<1>13. q.staking = f
  BY <1>10 DEF ChainRecord
<1>. QED BY <1>6, <1>8, <1>12, <1>13

LEMMA RewardsPassedDown ==
    ASSUME NEW p \in Chain, NEW v \in Vaults, nomination.commission[v] \in Nat,
           NEW q \in distribute_vault_rewards(p, v)
    PROVE  q \in Chain /\ q.staking[v].nonce = p.staking[v].nonce
<1>1. PICK x : x = R!compute_reward(p.capacity, Currency)
  OBVIOUS
<1>2. x \in Int /\ to_fixed(x) \in Int
  <2>1. Currency \in {Currency}
    OBVIOUS
  <2>2. x \in Int
    BY <1>1, <2>1, ChainFields, RewardComputed
  <2>. QED BY <2>2, UnitsInt
<1>3. PICK c \in R!withdraw_reward(p.capacity, Currency),
           r \in R!distribute_reward(p.vault, to_fixed(x)) :
          q \in distribute_to_stakers([p EXCEPT !.capacity = c, !.vault = r], v)
  <2>1. PICK c \in R!withdraw_reward(p.capacity, Currency) :
            q \in UNION {distribute_to_stakers([p EXCEPT !.capacity = c, !.vault = r], v) :
                             r \in R!distribute_reward(p.vault, to_fixed(x))}
    BY <1>1, Zenon DEF distribute_vault_rewards
  <2>2. PICK r \in R!distribute_reward(p.vault, to_fixed(x)) :
            q \in distribute_to_stakers([p EXCEPT !.capacity = c, !.vault = r], v)
    BY <2>1, Zenon
  <2>. QED BY <2>2, Zenon
<1>4. c \in RewardPool({Currency}) /\ r \in RewardPool(Vaults)
  <2>1. Currency \in {Currency}
    OBVIOUS
  <2>. QED BY <1>2, <1>3, <2>1, ChainFields, RewardWithdrawn, RewardDistributed
<1>5. PICK o : o = [p EXCEPT !.capacity = c, !.vault = r]
  OBVIOUS
<1>6. o \in Chain /\ o.staking = p.staking
  BY <1>4, <1>5 DEF Chain
<1>7. q \in Chain /\ q.staking[v].nonce = o.staking[v].nonce
  BY <1>3, <1>5, <1>6, PassedToStakers
<1>. QED BY <1>6, <1>7

LEMMA CapacityUpdated ==
    ASSUME NEW p \in Chain, NEW rate \in Nat \ {0}, NEW q \in update_capacity_stake(p, rate)
    PROVE  q \in Chain /\ q.staking = p.staking
<1>1. PICK x : x = checked_div(R!get_total_stake(p.vault), rate)
  OBVIOUS
<1>2. x \in Int
  <2>1. p.vault.total \in Int
    BY ChainFields DEF RewardPool
  <2>2. R!get_total_stake(p.vault) \in Int
    BY <2>1, UnitsInt DEF R!get_total_stake
  <2>. QED BY <1>1, <2>2, CheckedInt
<1>3. PICK c \in R!set_stake(p.capacity, Currency, x) : q = [p EXCEPT !.capacity = c]
  BY <1>1 DEF update_capacity_stake
<1>4. c \in RewardPool({Currency})
  <2>1. Currency \in {Currency}
    OBVIOUS
  <2>. QED BY <1>2, <1>3, <2>1, ChainFields, RewardSet
<1>. QED BY <1>3, <1>4 DEF Chain

(* What the pool operations need of the state: prices are not zero,        *)
(* commissions are fractions.                                              *)
Priced ==
    /\ exchangeRate \in Nat \ {0}
    /\ \A v \in Vaults : nomination.commission[v] \in Nat

LEMMA RewardStakeSet ==
    ASSUME Priced, NEW p \in Chain, NEW v \in Vaults, NEW accepts,
           NEW q \in set_reward_stake(p, v, accepts)
    PROVE  q \in Chain /\ q.staking = p.staking
<1>1. PICK x : x = IF accepts THEN checked_div(backing(p, v), SecureThreshold) ELSE 0
  OBVIOUS
<1>2. x \in Int
  <2>1. v \in Stakers /\ p.staking[v] \in StakingPools
    BY ChainFields DEF Stakers
  <2>2. backing(p, v) \in Int
    BY <2>1, StakeComputed DEF backing
  <2>3. SecureThreshold \in Nat \ {0}
    BY NominationAssumption
  <2>4. checked_div(backing(p, v), SecureThreshold) \in Int
    BY <2>2, <2>3, CheckedInt
  <2>. QED BY <1>1, <2>4
<1>3. PICK r \in R!set_stake(p.vault, v, x) :
          q \in update_capacity_stake([p EXCEPT !.vault = r], exchangeRate)
  BY <1>1 DEF set_reward_stake
<1>4. r \in RewardPool(Vaults)
  BY <1>2, <1>3, ChainFields, RewardSet
<1>5. PICK o : o = [p EXCEPT !.vault = r]
  OBVIOUS
<1>6. o \in Chain /\ o.staking = p.staking
  BY <1>4, <1>5, VaultPoolReplaced
<1>7. exchangeRate \in Nat \ {0} /\ q \in update_capacity_stake(o, exchangeRate)
  BY <1>3, <1>5 DEF Priced
<1>8. q \in Chain /\ q.staking = o.staking
  BY <1>6, <1>7, CapacityUpdated
<1>. QED BY <1>6, <1>8

LEMMA RewardStakeUpdated ==
    ASSUME Priced, NEW p \in Chain, NEW v \in Vaults, NEW q \in update_reward_stake(p, v)
    PROVE  q \in Chain /\ q.staking = p.staking
BY RewardStakeSet DEF update_reward_stake

LEMMA VaultIsStaker ==
    ASSUME NEW v \in Vaults, NEW n \in Nominators \cup {v}
    PROVE  n \in Stakers /\ v \in Stakers
BY DEF Stakers

LEMMA StakingUpdated ==
    ASSUME Priced, NEW p \in Chain, NEW v \in Vaults, NEW st \in StakingPools,
           NEW q \in update_reward_stake([p EXCEPT !.staking[v] = st], v)
    PROVE  q \in Chain /\ q.staking[v] = st
<1>1. PICK o : o = [p EXCEPT !.staking[v] = st]
  OBVIOUS
<1>2. o \in Chain /\ o.staking[v] = st
  BY <1>1, StakingReplaced
<1>3. q \in Chain /\ q.staking = o.staking
  BY <1>1, <1>2, RewardStakeUpdated
<1>. QED BY <1>2, <1>3

LEMMA Down ==
    ASSUME Priced, NEW p \in Chain, NEW v \in Vaults, NEW q \in distribute_vault_rewards(p, v)
    PROVE  /\ q \in Chain /\ q.staking[v] \in StakingPools
           /\ q.staking[v].nonce = p.staking[v].nonce
<1>1. q \in Chain /\ q.staking[v].nonce = p.staking[v].nonce
  BY RewardsPassedDown DEF Priced
<1>. QED BY <1>1, ChainFields

LEMMA PoolDeposit ==
    ASSUME Priced, NEW p \in Chain, NEW v \in Vaults, NEW n \in Stakers, NEW a \in Int,
           NEW q \in pool_deposit(p, v, n, a)
    PROVE  q \in Chain
<1>1. PICK o \in distribute_vault_rewards(p, v) :
          q \in update_reward_stake([o EXCEPT !.staking[v] =
                                        S!deposit_stake(@, n, to_fixed(a))], v)
  BY Zenon DEF pool_deposit
<1>2. o \in Chain /\ o.staking[v] \in StakingPools
  BY <1>1, Down
<1>3. PICK st : st = S!deposit_stake(o.staking[v], n, to_fixed(a))
  OBVIOUS
<1>4. st \in StakingPools
  BY <1>2, <1>3, UnitsInt, StakeDeposited
<1>5. q \in update_reward_stake([o EXCEPT !.staking[v] = st], v)
  BY <1>1, <1>3
<1>. QED BY <1>2, <1>4, <1>5, StakingUpdated

LEMMA PoolWithdraw ==
    ASSUME Priced, NEW p \in Chain, NEW v \in Vaults, NEW n \in Stakers, NEW a \in Int,
           NEW i \in 0 .. MaxNonce, NEW q \in pool_withdraw(p, v, n, a, i)
    PROVE  q \in Chain
<1>1. PICK o \in distribute_vault_rewards(p, v) :
          q \in UNION {update_reward_stake([o EXCEPT !.staking[v] = s], v) :
                          s \in S!withdraw_stake(o.staking[v], n, a, i)}
  BY Zenon DEF pool_withdraw
<1>2. PICK st \in S!withdraw_stake(o.staking[v], n, a, i) :
          q \in update_reward_stake([o EXCEPT !.staking[v] = st], v)
  BY <1>1, Zenon
<1>3. o \in Chain /\ o.staking[v] \in StakingPools
  BY <1>1, Down
<1>4. st \in StakingPools
  BY <1>2, <1>3, StakeWithdrawn
<1>. QED BY <1>2, <1>3, <1>4, StakingUpdated

LEMMA PoolSlash ==
    ASSUME Priced, NEW p \in Chain, NEW v \in Vaults, NEW a \in Int,
           NEW q \in pool_slash(p, v, a)
    PROVE  q \in Chain
<1>1. PICK o \in distribute_vault_rewards(p, v) :
          q \in UNION {update_reward_stake([o EXCEPT !.staking[v] = s], v) :
                          s \in S!slash_stake(o.staking[v], to_fixed(a))}
  BY Zenon DEF pool_slash
<1>2. PICK st \in S!slash_stake(o.staking[v], to_fixed(a)) :
          q \in update_reward_stake([o EXCEPT !.staking[v] = st], v)
  BY <1>1, Zenon
<1>3. o \in Chain /\ o.staking[v] \in StakingPools
  BY <1>1, Down
<1>4. st \in StakingPools
  BY <1>2, <1>3, UnitsInt, StakeSlashed
<1>. QED BY <1>2, <1>3, <1>4, StakingUpdated

LEMMA NominatorsKicked ==
    ASSUME Priced, NEW p \in Chain, NEW v \in Vaults, p.staking[v].nonce < MaxNonce,
           NEW q \in kick_nominators(p, v)
    PROVE  q \in Chain
<1>1. PICK o \in distribute_vault_rewards(p, v) :
          q \in UNION {update_reward_stake([o EXCEPT !.staking[v] = s], v) :
                          s \in S!force_refund(o.staking[v], v)}
  BY Zenon DEF kick_nominators
<1>2. PICK st \in S!force_refund(o.staking[v], v) :
          q \in update_reward_stake([o EXCEPT !.staking[v] = st], v)
  BY <1>1, Zenon
<1>3. /\ o \in Chain /\ o.staking[v] \in StakingPools
      /\ o.staking[v].nonce = p.staking[v].nonce
  BY <1>1, Down
<1>4. v \in Stakers
  BY DEF Stakers
<1>5. st \in StakingPools
  BY <1>2, <1>3, <1>4, Refunded
<1>. QED BY <1>2, <1>3, <1>5, StakingUpdated

LEMMA CollateralInt ==
    ASSUME NEW p \in Chain, NEW v \in Vaults
    PROVE  /\ backing(p, v) \in Int /\ vault_collateral(p, v) \in Int
           /\ p.staking[v].nonce \in 0 .. MaxNonce
           /\ S!refunded_collateral(p.staking[v], v) \in Int
<1>1. p.staking[v] \in StakingPools /\ v \in Stakers
  BY ChainFields DEF Stakers
<1>. QED BY <1>1, StakeComputed, PoolNow DEF backing, vault_collateral

LEMMA SlashedToLiquidationVault ==
    ASSUME Priced, NEW p \in Chain, NEW v \in Vaults, NEW a \in Int,
           NEW q \in slash_to_liquidation_vault(p, v, a)
    PROVE  q \in Chain
<1>1. PICK own : own = min(a, vault_collateral(p, v))
  OBVIOUS
<1>2. own \in Int /\ to_fixed(own) \in Int /\ a - own \in Int
  <2>1. own \in Int
    BY <1>1, CollateralInt DEF min
  <2>. QED BY <2>1, UnitsInt
<1>3. PICK o \in pool_withdraw(p, v, v, to_fixed(own), p.staking[v].nonce) :
          q \in IF own < a THEN pool_slash(o, v, a - own) ELSE {o}
  BY <1>1 DEF slash_to_liquidation_vault
<1>4. o \in Chain
  <2>1. v \in Stakers /\ p.staking[v].nonce \in 0 .. MaxNonce
    BY CollateralInt DEF Stakers
  <2>. QED BY <1>2, <1>3, <2>1, PoolWithdraw
<1>5. CASE own < a
  BY <1>2, <1>3, <1>4, <1>5, PoolSlash
<1>6. CASE ~(own < a)
  BY <1>3, <1>4, <1>6
<1>. QED BY <1>5, <1>6

-----------------------------------------------------------------------------
(* The inductive invariant                                                 *)

VaultType ==
    [status : {"accepting", "paused", "liquidated"}, backed : Nat, to_be_redeemed : Nat,
     liquidated : Int]

LedgerType == [reserved : [Vaults -> Nat], total : Nat, lv : Nat]

NominationType ==
    [enabled : BOOLEAN, opted : SUBSET Vaults, limit : [Vaults -> Nat],
     commission : [Vaults -> Nat]]

(* What a vault is to redeem is part of what it backs until it is          *)
(* liquidated: otherwise a liquidation would take a share below zero.      *)
RedeemsBacked ==
    \A v \in Vaults :
        vaults[v].status # "liquidated" => vaults[v].to_be_redeemed <= vaults[v].backed

IInv ==
    /\ pools \in Chain
    /\ vaults \in [Vaults -> VaultType]
    /\ ledger \in LedgerType
    /\ nomination \in NominationType
    /\ exchangeRate \in Rates
    /\ operations \in 0 .. MaxOperations
    /\ RedeemsBacked

LEMMA ConstantsTyped ==
    /\ CollateralAmounts \subseteq Nat /\ TokenAmounts \subseteq Nat /\ FeeAmounts \subseteq Nat
    /\ Limits \subseteq Nat /\ Commissions \subseteq Nat /\ Rates \subseteq Nat \ {0}
    /\ SecureThreshold \in Nat \ {0} /\ LiquidationThreshold \in Nat \ {0}
    /\ MaxNonce \in Nat /\ MaxOperations \in Nat
BY NominationAssumption

LEMMA PricedFromIInv ==
    ASSUME IInv
    PROVE  Priced
BY ConstantsTyped DEF IInv, Priced, NominationType

LEMMA InitHolds ==
    ASSUME Init
    PROVE  IInv
<1>1. PICK z : z = [s \in Stakers |-> 0]
  OBVIOUS
<1>2. S!NewPool(Stakers) \in StakePool
  <2>1. S!NewPool(Stakers) = StakeRecord(z, 0, 0, 0, z, 0, z, 0)
    BY <1>1 DEF S!NewPool, StakeRecord
  <2>2. SignedTotal(z, Stakers) = 0
    BY <1>1, StakersFinite, SignedTotalZero
  <2>3. z \in [Stakers -> Int] /\ 0 \in Int
    BY <1>1
  <2>. QED BY <2>1, <2>2, <2>3, StakeRecordTyped
<1>3. R!NewPool({Currency}) \in RewardPool({Currency}) /\ R!NewPool(Vaults) \in RewardPool(Vaults)
  BY DEF R!NewPool, RewardPool
<1>4. PICK st : st = [nonce |-> 0, pool |-> [i \in 0 .. MaxNonce |-> S!NewPool(Stakers)]]
  OBVIOUS
<1>5. st \in StakingPools
  <2>1. 0 \in 0 .. MaxNonce
    BY ConstantsTyped
  <2>. QED BY <1>2, <1>4, <2>1 DEF StakingPools
<1>6. pools = [capacity |-> R!NewPool({Currency}), vault |-> R!NewPool(Vaults),
               staking |-> [v \in Vaults |-> st], fee_pool |-> 0]
  BY <1>4 DEF Init
<1>7. pools \in Chain
  BY <1>3, <1>5, <1>6 DEF Chain
<1>8. vaults \in [Vaults -> VaultType] /\ RedeemsBacked
  BY DEF Init, VaultType, RedeemsBacked
<1>9. ledger \in LedgerType /\ nomination \in NominationType
  BY DEF Init, LedgerType, NominationType
<1>10. exchangeRate \in Rates /\ operations \in 0 .. MaxOperations
  BY ConstantsTyped DEF Init
<1>. QED BY <1>7, <1>8, <1>9, <1>10 DEF IInv

(* A call that leaves the vaults alone, and counts as one.                 *)
LEMMA Counted ==
    ASSUME IInv, operations < MaxOperations, operations' = operations + 1
    PROVE  operations' \in 0 .. MaxOperations
BY ConstantsTyped DEF IInv

LEMMA KeptVaults ==
    ASSUME IInv, UNCHANGED vaults
    PROVE  vaults' \in [Vaults -> VaultType] /\ RedeemsBacked'
BY DEF IInv, RedeemsBacked

LEMMA DistributeRewardsHolds ==
    ASSUME IInv, NEW amount \in FeeAmounts, distribute_rewards(amount)
    PROVE  IInv'
<1>1. PICK C : C = R!distribute_reward(pools.capacity, to_fixed(amount))
  OBVIOUS
<1>2. pools' = IF C = {} THEN pools
               ELSE [pools EXCEPT !.capacity = CHOOSE c \in C : TRUE, !.fee_pool = @ + amount]
  BY <1>1 DEF distribute_rewards
<1>3. pools \in Chain /\ amount \in Nat /\ to_fixed(amount) \in Int
  BY ConstantsTyped, UnitsInt DEF IInv
<1>4. pools' \in Chain
  <2>1. CASE C = {}
    BY <1>2, <1>3, <2>1
  <2>2. CASE C # {}
    <3>1. PICK c : c = CHOOSE d \in C : TRUE
      OBVIOUS
    <3>2. c \in C
      BY <2>2, <3>1
    <3>3. c \in RewardPool({Currency})
      BY <1>1, <1>3, <3>2, ChainFields, RewardDistributed
    <3>4. pools' = [pools EXCEPT !.capacity = c, !.fee_pool = @ + amount]
      BY <1>2, <2>2, <3>1
    <3>5. pools' = ChainRecord(c, pools.vault, pools.staking, pools.fee_pool + amount)
      BY <1>3, <3>4 DEF Chain, ChainRecord
    <3>6. pools.fee_pool + amount \in Nat
      BY <1>3, ChainFields
    <3>. QED BY <1>3, <3>3, <3>5, <3>6, ChainFields DEF Chain, ChainRecord
  <2>. QED BY <2>1, <2>2
<1>5. /\ operations < MaxOperations /\ operations' = operations + 1
      /\ UNCHANGED <<vaults, ledger, nomination, exchangeRate>>
  BY DEF distribute_rewards
<1>. QED BY <1>4, <1>5, Counted, KeptVaults DEF IInv

LEMMA WithdrawRewardsHolds ==
    ASSUME IInv, NEW v \in Vaults, NEW n \in Nominators \cup {v}, NEW i \in 0 .. MaxNonce,
           withdraw_rewards(v, n, i)
    PROVE  IInv'
<1>1. PICK p, r :
          /\ p \in distribute_vault_rewards(pools, v)
          /\ r = S!compute_reward_at_index(S!apply_slash(p.staking[v], n), i, n)
          /\ r <= p.fee_pool
          /\ pools' = [p EXCEPT !.staking[v] = S!withdraw_reward_at_index(@, i, n),
                                !.fee_pool = @ - r]
  BY DEF withdraw_rewards, Try
<1>2. p \in Chain /\ p.staking[v] \in StakingPools
  BY <1>1, PricedFromIInv, Down DEF IInv
<1>3. n \in Stakers
  BY VaultIsStaker
<1>4. r \in Nat
  BY <1>1, <1>2, <1>3, SlashApplied, RewardAtIndex
<1>5. PICK st : st = S!withdraw_reward_at_index(p.staking[v], i, n)
  OBVIOUS
<1>6. st \in StakingPools
  BY <1>2, <1>3, <1>5, RewardTaken
<1>7. PICK f : f = [p.staking EXCEPT ![v] = st]
  OBVIOUS
<1>8. f \in [Vaults -> StakingPools] /\ p.fee_pool - r \in Nat
  BY <1>1, <1>2, <1>4, <1>6, <1>7, ChainFields
<1>9. pools' = [p EXCEPT !.staking = f, !.fee_pool = p.fee_pool - r]
  BY <1>1, <1>2, <1>5, <1>7 DEF Chain
<1>10. pools' = ChainRecord(p.capacity, p.vault, f, p.fee_pool - r)
  BY <1>2, <1>9 DEF Chain, ChainRecord
<1>11. pools' \in Chain
  BY <1>2, <1>8, <1>10, ChainFields DEF Chain, ChainRecord
<1>12. /\ operations < MaxOperations /\ operations' = operations + 1
       /\ UNCHANGED <<vaults, ledger, nomination, exchangeRate>>
  BY DEF withdraw_rewards
<1>. QED BY <1>11, <1>12, Counted, KeptVaults DEF IInv

LEMMA NominationSettingsHold ==
    ASSUME IInv,
           \/ \E v \in Vaults, c \in Commissions : set_commission(v, c)
           \/ \E enabled \in BOOLEAN : set_nomination_enabled(enabled)
           \/ \E v \in Vaults : opt_in_to_nomination(v)
           \/ \E v \in Vaults, l \in Limits : set_nomination_limit(v, l)
    PROVE  IInv'
<1>1. /\ UNCHANGED <<pools, vaults, ledger, exchangeRate>>
      /\ \/ UNCHANGED operations
         \/ operations < MaxOperations /\ operations' = operations + 1
  BY DEF set_commission, set_nomination_enabled, opt_in_to_nomination, set_nomination_limit
<1>2. nomination' \in NominationType
  <2>1. ASSUME NEW v \in Vaults, NEW c \in Commissions, set_commission(v, c)
        PROVE  nomination' \in NominationType
    <3>1. c \in Nat
      BY ConstantsTyped
    <3>. QED BY <2>1, <3>1 DEF set_commission, IInv, NominationType
  <2>2. ASSUME NEW enabled \in BOOLEAN, set_nomination_enabled(enabled)
        PROVE  nomination' \in NominationType
    BY <2>2 DEF set_nomination_enabled, IInv, NominationType
  <2>3. ASSUME NEW v \in Vaults, opt_in_to_nomination(v)
        PROVE  nomination' \in NominationType
    BY <2>3 DEF opt_in_to_nomination, IInv, NominationType
  <2>4. ASSUME NEW v \in Vaults, NEW l \in Limits, set_nomination_limit(v, l)
        PROVE  nomination' \in NominationType
    <3>1. l \in Nat
      BY ConstantsTyped
    <3>. QED BY <2>4, <3>1 DEF set_nomination_limit, IInv, NominationType
  <2>. QED BY <2>1, <2>2, <2>3, <2>4
<1>3. operations' \in 0 .. MaxOperations
  BY <1>1, Counted DEF IInv
<1>. QED BY <1>1, <1>2, <1>3, KeptVaults DEF IInv

(* The ledger: reserved collateral and totals that stay naturals.          *)
LEMMA LedgerSet ==
    ASSUME NEW L \in LedgerType, NEW v \in Vaults, NEW a \in Nat, NEW t \in Nat, NEW l \in Nat
    PROVE  /\ [L EXCEPT !.reserved[v] = a, !.total = t] \in LedgerType
           /\ [L EXCEPT !.reserved[v] = a, !.lv = l] \in LedgerType
BY DEF LedgerType

(* An amount that is there is paid out of a vault's reserved collateral.   *)
LEMMA LedgerPaid ==
    ASSUME NEW L \in LedgerType, NEW v \in Vaults, NEW x \in Int,
           x <= L.reserved[v], x <= L.total
    PROVE  [L EXCEPT !.reserved[v] = @ - x, !.total = @ - x] \in LedgerType
<1>1. L.reserved[v] - x \in Nat /\ L.total - x \in Nat
  BY DEF LedgerType
<1>. QED BY <1>1, LedgerSet

LEMMA OptOutHolds ==
    ASSUME IInv, NEW v \in Vaults, opt_out_of_nomination(v)
    PROVE  IInv'
<1>1. PICK q, x :
          /\ q \in distribute_vault_rewards(pools, v)
          /\ x = S!refunded_collateral(q.staking[v], v)
          /\ pools' \in kick_nominators(pools, v)
          /\ 0 <= x /\ x <= ledger.total
          /\ ledger' = [ledger EXCEPT !.total = @ - x]
  BY DEF opt_out_of_nomination
<1>2. pools \in Chain /\ Priced
  BY PricedFromIInv DEF IInv
<1>3. q \in Chain
  BY <1>1, <1>2, Down
<1>4. x \in Int
  BY <1>1, <1>3, CollateralInt
<1>5. pools' \in Chain
  <2>1. pools.staking[v].nonce < MaxNonce
    BY DEF opt_out_of_nomination
  <2>. QED BY <1>1, <1>2, <2>1, NominatorsKicked
<1>6. ledger' \in LedgerType
  BY <1>1, <1>4 DEF IInv, LedgerType
<1>7. nomination' \in NominationType
  BY DEF opt_out_of_nomination, IInv, NominationType
<1>8. UNCHANGED <<vaults, exchangeRate, operations>>
  BY DEF opt_out_of_nomination
<1>. QED BY <1>5, <1>6, <1>7, <1>8, KeptVaults DEF IInv

LEMMA DepositHolds ==
    ASSUME IInv, NEW v \in Vaults, NEW n \in Nominators \cup {v}, NEW a \in CollateralAmounts,
           deposit_collateral(v, n, a)
    PROVE  IInv'
<1>1. a \in Nat /\ n \in Stakers
  BY ConstantsTyped, VaultIsStaker
<1>2. pools' \in Chain
  <2>1. pools \in Chain /\ Priced /\ a \in Int
    BY <1>1, PricedFromIInv DEF IInv
  <2>2. pools' \in pool_deposit(pools, v, n, a)
    BY DEF deposit_collateral
  <2>. QED BY <1>1, <2>1, <2>2, PoolDeposit
<1>3. ledger' \in LedgerType
  <2>1. ledger' = [ledger EXCEPT !.reserved[v] = @ + a, !.total = @ + a]
    BY DEF deposit_collateral
  <2>2. ledger \in LedgerType
    BY DEF IInv
  <2>3. ledger.reserved[v] + a \in Nat /\ ledger.total + a \in Nat
    BY <1>1, <2>2 DEF LedgerType
  <2>. QED BY <2>1, <2>2, <2>3, LedgerSet
<1>4. /\ operations < MaxOperations /\ operations' = operations + 1
      /\ UNCHANGED <<vaults, nomination, exchangeRate>>
  BY DEF deposit_collateral
<1>. QED BY <1>2, <1>3, <1>4, Counted, KeptVaults DEF IInv

LEMMA WithdrawHolds ==
    ASSUME IInv, NEW v \in Vaults, NEW n \in Stakers, NEW taken \in Int, NEW paid \in Int,
           NEW i \in 0 .. MaxNonce, withdraw(v, n, taken, paid, i)
    PROVE  IInv'
<1>1. pools' \in Chain
  <2>1. pools \in Chain /\ Priced
    BY PricedFromIInv DEF IInv
  <2>2. pools' \in pool_withdraw(pools, v, n, taken, i)
    BY DEF withdraw
  <2>. QED BY <2>1, <2>2, PoolWithdraw
<1>2. ledger' \in LedgerType
  <2>1. /\ paid <= ledger.reserved[v] /\ paid <= ledger.total
        /\ ledger' = [ledger EXCEPT !.reserved[v] = @ - paid, !.total = @ - paid]
    BY DEF withdraw
  <2>2. ledger \in LedgerType
    BY DEF IInv
  <2>. QED BY <2>1, <2>2, LedgerPaid
<1>3. /\ operations < MaxOperations /\ operations' = operations + 1
      /\ UNCHANGED <<vaults, nomination, exchangeRate>>
  BY DEF withdraw
<1>. QED BY <1>1, <1>2, <1>3, Counted, KeptVaults DEF IInv

LEMMA WithdrawCollateralHolds ==
    ASSUME IInv, NEW v \in Vaults, NEW n \in Nominators \cup {v}, NEW i \in 0 .. MaxNonce,
           \/ \E a \in CollateralAmounts : withdraw_collateral(v, n, a, i)
           \/ withdraw_all_collateral(v, n, i)
    PROVE  IInv'
<1>1. n \in Stakers
  BY VaultIsStaker
<1>2. ASSUME NEW a \in CollateralAmounts, withdraw_collateral(v, n, a, i) PROVE IInv'
  <2>1. a \in Int /\ to_fixed(a) \in Int
    BY ConstantsTyped, UnitsInt
  <2>. QED BY <1>1, <1>2, <2>1, WithdrawHolds DEF withdraw_collateral
<1>3. CASE withdraw_all_collateral(v, n, i)
  <2>1. PICK x : x = S!compute_precise_stake(pools.staking[v].pool[i], n)
    OBVIOUS
  <2>2. pools.staking[v] \in StakingPools
    BY ChainFields DEF IInv
  <2>3. x \in Int
    BY <1>1, <2>1, <2>2, PoolNow, PreciseStake
  <2>4. truncate_to_inner(x) \in Int
    BY <2>3, UnitsInt
  <2>5. withdraw(v, n, x, truncate_to_inner(x), i)
    BY <1>3, <2>1 DEF withdraw_all_collateral
  <2>. QED BY <1>1, <2>3, <2>4, <2>5, WithdrawHolds
<1>. QED BY <1>2, <1>3

LEMMA AcceptNewIssuesHolds ==
    ASSUME IInv, NEW v \in Vaults, NEW b \in BOOLEAN, accept_new_issues(v, b)
    PROVE  IInv'
<1>1. PICK p \in distribute_vault_rewards(pools, v) : pools' \in set_reward_stake(p, v, b)
  BY Zenon DEF accept_new_issues
<1>2. pools \in Chain /\ Priced
  BY PricedFromIInv DEF IInv
<1>3. p \in Chain
  BY <1>1, <1>2, Down
<1>4. pools' \in Chain
  BY <1>1, <1>2, <1>3, RewardStakeSet
<1>5. /\ vaults[v].status # "liquidated"
      /\ vaults' = [vaults EXCEPT ![v].status = IF b THEN "accepting" ELSE "paused"]
  BY DEF accept_new_issues
<1>6. vaults' \in [Vaults -> VaultType]
  BY <1>5 DEF IInv, VaultType
<1>7. RedeemsBacked'
  BY <1>5 DEF IInv, VaultType, RedeemsBacked
<1>8. UNCHANGED <<ledger, nomination, exchangeRate, operations>>
  BY DEF accept_new_issues
<1>. QED BY <1>4, <1>6, <1>7, <1>8 DEF IInv

LEMMA ChangeTokensHolds ==
    ASSUME IInv, NEW v \in Vaults, NEW x \in TokenAmounts, NEW y \in TokenAmounts,
           change_tokens(v, x, y)
    PROVE  IInv'
<1>1. x \in Nat /\ y \in Nat
  BY ConstantsTyped
<1>2. y <= x /\ vaults' = [vaults EXCEPT ![v] = [@ EXCEPT !.backed = x, !.to_be_redeemed = y]]
  BY DEF change_tokens
<1>3. vaults' = [vaults EXCEPT ![v] = [status |-> vaults[v].status, backed |-> x,
                                       to_be_redeemed |-> y, liquidated |-> vaults[v].liquidated]]
  <2>1. vaults[v] \in VaultType
    BY DEF IInv
  <2>2. PICK w : w = [vaults[v] EXCEPT !.backed = x, !.to_be_redeemed = y]
    OBVIOUS
  <2>3. w = [status |-> vaults[v].status, backed |-> x,
             to_be_redeemed |-> y, liquidated |-> vaults[v].liquidated]
    BY <2>1, <2>2 DEF VaultType
  <2>. QED BY <1>2, <2>2, <2>3
<1>4. vaults' \in [Vaults -> VaultType]
  BY <1>1, <1>3 DEF IInv, VaultType
<1>5. RedeemsBacked'
  BY <1>2, <1>3 DEF IInv, VaultType, RedeemsBacked
<1>6. UNCHANGED <<pools, ledger, nomination, exchangeRate, operations>>
  BY DEF change_tokens
<1>. QED BY <1>4, <1>5, <1>6 DEF IInv

LEMMA SlashHolds ==
    ASSUME IInv, NEW v \in Vaults, NEW a \in CollateralAmounts, slash_collateral(v, a)
    PROVE  IInv'
<1>1. PICK t : t = min(a, backing(pools, v))
  OBVIOUS
<1>2. pools \in Chain /\ Priced /\ a \in Nat
  BY ConstantsTyped, PricedFromIInv DEF IInv
<1>3. t \in Int
  BY <1>1, <1>2, CollateralInt DEF min
<1>4. /\ t <= ledger.reserved[v] /\ t <= ledger.total
      /\ pools' \in pool_slash(pools, v, t)
      /\ ledger' = [ledger EXCEPT !.reserved[v] = @ - t, !.total = @ - t]
  BY <1>1 DEF slash_collateral
<1>5. pools' \in Chain
  BY <1>2, <1>3, <1>4, PoolSlash
<1>6. ledger' \in LedgerType
  <2>1. ledger \in LedgerType
    BY DEF IInv
  <2>. QED BY <1>3, <1>4, <2>1, LedgerPaid
<1>7. /\ operations < MaxOperations /\ operations' = operations + 1
      /\ UNCHANGED <<vaults, nomination, exchangeRate>>
  BY DEF slash_collateral
<1>. QED BY <1>5, <1>6, <1>7, Counted, KeptVaults DEF IInv

LEMMA ShareInt ==
    ASSUME NEW c \in Int, NEW n \in Nat, NEW d \in Nat
    PROVE  /\ calculate_collateral(c, n, d) \in Int
           /\ c \in Nat => calculate_collateral(c, n, d) \in Nat
<1>1. c * n \in Int /\ (c \in Nat => c * n \in Nat)
  BY ProductInt
<1>. QED BY <1>1 DEF calculate_collateral

LEMMA RequiredCollateralNat ==
    ASSUME IInv, NEW v \in Vaults
    PROVE  required_collateral(v, LiquidationThreshold) \in Nat
<1>1. /\ vaults[v].backed \in Nat /\ exchangeRate \in Nat /\ LiquidationThreshold \in Nat
      /\ DIV \in Nat \ {0}
  BY ConstantsTyped, DIVAssumption DEF IInv, VaultType
<1>2. \A x, y \in Nat : checked_mul(x, y) \in Nat
  <2>1. ASSUME NEW x \in Nat, NEW y \in Nat PROVE checked_mul(x, y) \in Nat
    <3>1. x * y \in Nat
      OBVIOUS
    <3>. QED BY <1>1, <3>1 DEF checked_mul
  <2>. QED BY <2>1
<1>. QED BY <1>1, <1>2 DEF required_collateral

LEMMA LiquidateHolds ==
    ASSUME IInv, NEW v \in Vaults, liquidate_vault(v)
    PROVE  IInv'
<1>1. PICK c, x, h :
          /\ c = min(backing(pools, v), required_collateral(v, LiquidationThreshold))
          /\ x = calculate_collateral(c, vaults[v].backed - vaults[v].to_be_redeemed,
                                      vaults[v].backed)
          /\ h = min(vault_collateral(pools, v), c - x)
  OBVIOUS
<1>2. /\ vaults[v].status # "liquidated" /\ backing(pools, v) >= 0
      /\ x <= ledger.reserved[v]
      /\ ledger' = [ledger EXCEPT !.reserved[v] = @ - x, !.lv = @ + x]
      /\ vaults' = [vaults EXCEPT ![v] = [@ EXCEPT !.status = "liquidated", !.backed = 0,
                                                   !.liquidated = h]]
      /\ UNCHANGED <<nomination, exchangeRate, operations>>
  BY <1>1 DEF liquidate_vault
<1>3. PICK p \in UNION {slash_to_liquidation_vault(q, v, x) :
                           q \in pool_withdraw(pools, v, v, to_fixed(h), pools.staking[v].nonce)} :
          \E r \in R!set_stake(p.vault, v, 0) : pools' = [p EXCEPT !.vault = r]
  BY <1>1, Zenon DEF liquidate_vault
<1>4. PICK q \in pool_withdraw(pools, v, v, to_fixed(h), pools.staking[v].nonce) :
          p \in slash_to_liquidation_vault(q, v, x)
  BY <1>3, Zenon
<1>5. pools \in Chain /\ Priced /\ vaults[v] \in VaultType /\ ledger \in LedgerType /\ RedeemsBacked
  BY PricedFromIInv DEF IInv
<1>6. c \in Nat /\ vault_collateral(pools, v) \in Int
  BY <1>1, <1>2, <1>5, CollateralInt, RequiredCollateralNat DEF min
<1>7. x \in Nat
  <2>1. /\ vaults[v].backed \in Nat
        /\ vaults[v].backed - vaults[v].to_be_redeemed \in Nat
    BY <1>2, <1>5 DEF VaultType, RedeemsBacked
  <2>2. PICK n, d : n = vaults[v].backed - vaults[v].to_be_redeemed /\ d = vaults[v].backed
    OBVIOUS
  <2>3. c \in Int /\ n \in Nat /\ d \in Nat
    BY <1>6, <2>1, <2>2
  <2>4. calculate_collateral(c, n, d) \in Nat
    BY <1>6, <2>3, ShareInt
  <2>. QED BY <1>1, <2>2, <2>4
<1>8. h \in Int /\ to_fixed(h) \in Int
  <2>1. h \in Int
    BY <1>1, <1>6, <1>7 DEF min
  <2>. QED BY <2>1, UnitsInt
<1>9. q \in Chain
  <2>1. v \in Stakers /\ pools.staking[v].nonce \in 0 .. MaxNonce
    BY <1>5, CollateralInt DEF Stakers
  <2>. QED BY <1>4, <1>5, <1>8, <2>1, PoolWithdraw
<1>10. p \in Chain
  <2>1. x \in Int
    BY <1>7
  <2>. QED BY <1>4, <1>5, <1>9, <2>1, SlashedToLiquidationVault
<1>11. PICK r \in R!set_stake(p.vault, v, 0) : pools' = [p EXCEPT !.vault = r]
  BY <1>3
<1>12. pools' \in Chain
  <2>1. 0 \in Int
    OBVIOUS
  <2>2. r \in RewardPool(Vaults)
    BY <1>10, <1>11, <2>1, ChainFields, RewardSet
  <2>. QED BY <1>10, <1>11, <2>2, VaultPoolReplaced
<1>13. ledger' \in LedgerType
  <2>1. ledger.reserved[v] - x \in Nat /\ ledger.lv + x \in Nat
    BY <1>2, <1>5, <1>7 DEF LedgerType
  <2>. QED BY <1>2, <1>5, <2>1, LedgerSet
<1>14. PICK w : w = [vaults[v] EXCEPT !.status = "liquidated", !.backed = 0, !.liquidated = h]
  OBVIOUS
<1>15. w \in VaultType /\ w.status = "liquidated"
  BY <1>5, <1>8, <1>14 DEF VaultType
<1>16. vaults' = [vaults EXCEPT ![v] = w]
  BY <1>2, <1>14
<1>17. vaults' \in [Vaults -> VaultType] /\ RedeemsBacked'
  BY <1>15, <1>16 DEF IInv, RedeemsBacked
<1>. QED BY <1>2, <1>12, <1>13, <1>17 DEF IInv

LEMMA RedeemHolds ==
    ASSUME IInv, NEW v \in Vaults, NEW t \in TokenAmounts, redeem_tokens(v, t)
    PROVE  IInv'
<1>1. PICK x : x = calculate_collateral(vaults[v].liquidated, t, vaults[v].to_be_redeemed)
  OBVIOUS
<1>2. /\ vaults[v].status = "liquidated" /\ t \in 1 .. vaults[v].to_be_redeemed
      /\ x <= ledger.reserved[v] /\ x <= ledger.total
      /\ ledger' = [ledger EXCEPT !.reserved[v] = @ - x, !.total = @ - x]
      /\ vaults' = [vaults EXCEPT ![v] =
                       [vaults[v] EXCEPT !.to_be_redeemed = vaults[v].to_be_redeemed - t,
                                         !.liquidated = vaults[v].liquidated - x]]
      /\ UNCHANGED <<pools, nomination, exchangeRate, operations>>
  BY <1>1 DEF redeem_tokens
<1>3. vaults[v] \in VaultType /\ ledger \in LedgerType
  BY DEF IInv
<1>4. /\ vaults[v].liquidated \in Int /\ vaults[v].to_be_redeemed \in Nat
      /\ t \in Nat /\ vaults[v].to_be_redeemed - t \in Nat
  BY <1>2, <1>3 DEF VaultType
<1>5. x \in Int /\ vaults[v].liquidated - x \in Int
  <2>1. x \in Int
    BY <1>1, <1>4, ShareInt
  <2>. QED BY <1>4, <2>1
<1>6. ledger' \in LedgerType
  BY <1>2, <1>3, <1>5, LedgerPaid
<1>7. PICK w : w = [vaults[v] EXCEPT !.to_be_redeemed = vaults[v].to_be_redeemed - t,
                                     !.liquidated = vaults[v].liquidated - x]
  OBVIOUS
<1>8. w \in VaultType /\ w.status = "liquidated"
  BY <1>2, <1>3, <1>4, <1>5, <1>7 DEF VaultType
<1>9. vaults' = [vaults EXCEPT ![v] = w]
  BY <1>2, <1>7
<1>10. vaults' \in [Vaults -> VaultType] /\ RedeemsBacked'
  BY <1>8, <1>9 DEF IInv, RedeemsBacked
<1>. QED BY <1>2, <1>6, <1>10 DEF IInv

LEMMA RecoverHolds ==
    ASSUME IInv, NEW v \in Vaults, recover_vault_id(v)
    PROVE  IInv'
<1>1. /\ vaults[v].to_be_redeemed = 0 /\ vaults' = [vaults EXCEPT ![v].status = "accepting"]
      /\ UNCHANGED <<pools, ledger, nomination, exchangeRate, operations>>
  BY DEF recover_vault_id
<1>2. vaults' \in [Vaults -> VaultType] /\ RedeemsBacked'
  BY <1>1 DEF IInv, VaultType, RedeemsBacked
<1>. QED BY <1>1, <1>2 DEF IInv

LEMMA PriceHolds ==
    ASSUME IInv, NEW rate \in Rates, update_exchange_rate(rate)
    PROVE  IInv'
<1>1. /\ exchangeRate' = rate /\ UNCHANGED <<vaults, ledger, nomination, operations>>
      /\ pools' = pools \/ pools' \in update_capacity_stake(pools, rate)
  BY DEF update_exchange_rate
<1>2. pools \in Chain /\ rate \in Nat \ {0}
  BY ConstantsTyped DEF IInv
<1>3. pools' \in Chain
  BY <1>1, <1>2, CapacityUpdated
<1>. QED BY <1>1, <1>3, KeptVaults DEF IInv

LEMMA NextHolds ==
    ASSUME IInv, [Next]_vars
    PROVE  IInv'
<1>1. CASE UNCHANGED vars
  BY <1>1 DEF vars, IInv, RedeemsBacked
<1>2. CASE Next
  BY <1>2, DistributeRewardsHolds, WithdrawRewardsHolds, NominationSettingsHold, OptOutHolds,
     DepositHolds, WithdrawCollateralHolds, AcceptNewIssuesHolds, ChangeTokensHolds, SlashHolds,
     LiquidateHolds, RedeemHolds, RecoverHolds, PriceHolds DEF Next
<1>. QED BY <1>1, <1>2

LEMMA ConsistentFromIInv ==
    ASSUME IInv
    PROVE  PoolsConsistent
<1>1. pools \in Chain
  BY DEF IInv
<1>2. ASSUME NEW v \in Vaults, NEW i \in 0 .. MaxNonce
      PROVE  pool(v, i) \in StakePool /\ pools.staking[v].nonce \in 0 .. MaxNonce
  <2>1. pools.staking[v] \in StakingPools
    BY <1>1, ChainFields
  <2>. QED BY <2>1, PoolNow DEF pool
<1>3. TotalStakeIsSum
  <2>1. ASSUME NEW v \in Vaults, NEW i \in 0 .. MaxNonce
        PROVE  pool(v, i).total = SignedTotal(pool(v, i).stake, Stakers)
    BY <1>2, StakeFields
  <2>. QED BY <2>1 DEF TotalStakeIsSum, MapThenSumSet, MapThenFoldSet, SignedTotal, IsSum, Chosen
<1>4. TypeOK
  <2>1. \A v \in Vaults : pools.staking[v].nonce \in 0 .. MaxNonce
    <3>1. 0 \in 0 .. MaxNonce
      BY ConstantsTyped
    <3>. QED BY <1>2, <3>1
  <2>2. \A v \in Vaults, i \in 0 .. MaxNonce, n \in Stakers :
            {pool(v, i).stake[n], pool(v, i).tally[n], pool(v, i).slash_tally[n]} \subseteq Int
    <3>1. ASSUME NEW v \in Vaults, NEW i \in 0 .. MaxNonce, NEW n \in Stakers
          PROVE  /\ pool(v, i).stake[n] \in Int /\ pool(v, i).tally[n] \in Int
                 /\ pool(v, i).slash_tally[n] \in Int
      BY <1>2, StakeFields
    <3>. QED BY <3>1
  <2>3. pools.fee_pool \in Nat
    BY <1>1, ChainFields
  <2>4. (\A v \in Vaults : ledger.reserved[v] \in Nat) /\ ledger.total \in Nat /\ ledger.lv \in Nat
    BY DEF IInv, LedgerType
  <2>5. nomination.opted \subseteq Vaults
    BY DEF IInv, NominationType
  <2>. QED BY <2>1, <2>2, <2>3, <2>4, <2>5 DEF TypeOK, IInv
<1>. QED BY <1>3, <1>4 DEF PoolsConsistent

(***************************************************************************)
(* IInv is an invariant: every pool on the way of the fees, at every       *)
(* nonce, stays well-formed with its total the sum of its stakes, the      *)
(* ledger of collateral never goes below zero, and what a vault that is    *)
(* not liquidated must redeem is part of what it backs.                    *)
(***************************************************************************)
THEOREM NominationInvariant == Spec => []IInv
<1>1. Init => IInv
  BY InitHolds
<1>2. IInv /\ [Next]_vars => IInv'
  BY NextHolds
<1>. QED BY <1>1, <1>2, PTL DEF Spec

(***************************************************************************)
(* For any vaults, nominators, amounts, prices and scales: however slashes *)
(* are applied to one staker at a time, stake is withdrawn from current or *)
(* old pools and nominators are refunded by moving on to a new nonce, the  *)
(* total of every staking pool is the sum of its stakes, and no balance    *)
(* goes below zero.                                                        *)
(***************************************************************************)
THEOREM StakingBooksAgree == Spec => []PoolsConsistent
<1>1. IInv => PoolsConsistent
  BY ConsistentFromIInv
<1>. QED BY <1>1, NominationInvariant, PTL
=============================================================================
