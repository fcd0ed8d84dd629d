-------------------------- MODULE BlockRewardsProofs --------------------------
(***************************************************************************)
(* The votes of the escrow pallet and the block rewards paid for them: no  *)
(* vote is counted twice, and what was promised to voters and vaults is    *)
(* there, for any number of accounts, amounts and blocks.                  *)
(***************************************************************************)
EXTENDS BlockRewards, EscrowTheorems

-----------------------------------------------------------------------------
(* Fixed-point arithmetic: what is a whole number of units is not rounded  *)

LEMMA ExactQuotient ==
    ASSUME NEW m \in Nat
    PROVE  m * ONE \in Nat /\ (m * ONE) \div ONE = m
BY ONEAssumption, SMT

LEMMA Regroup ==
    ASSUME NEW n \in Nat, NEW p \in Nat
    PROVE  /\ (n * ONE) * p = (n * p) * ONE /\ p * (n * ONE) = (n * p) * ONE
           /\ p * (0 - n * ONE) = 0 - (n * p) * ONE /\ n * p \in Nat
<1>1. ONE \in Nat
  BY ONEAssumption
<1>2. n * ONE \in Nat /\ n * p \in Nat
  BY <1>1, ProductNat
<1>3. (n * ONE) * p = (n * p) * ONE
  BY <1>1, SMT
<1>4. p * (n * ONE) = (n * ONE) * p
  BY <1>2, SMT
<1>5. p * (0 - n * ONE) = 0 - p * (n * ONE)
  <2>1. PICK x : x = n * ONE
    OBVIOUS
  <2>2. p * (0 - x) = 0 - p * x
    BY <1>2, <2>1, SMT
  <2>. QED BY <2>1, <2>2
<1>. QED BY <1>2, <1>3, <1>4, <1>5

LEMMA ExactProduct ==
    ASSUME NEW n \in Nat, NEW p \in Nat
    PROVE  /\ R!fixed_mul(n * ONE, p) = n * p
           /\ R!fixed_mul(p, n * ONE) = n * p
           /\ R!fixed_mul(p, 0 - n * ONE) = 0 - n * p
<1>1. ONE \in Nat \ {0}
  BY ONEAssumption
<1>2. PICK m, x : m = n * p /\ x = m * ONE
  OBVIOUS
<1>3. m \in Nat /\ x \in Nat /\ x \div ONE = m
  BY <1>2, ProductNat, ExactQuotient
<1>4. R!truncated_div(x, ONE) = m /\ R!truncated_div(0 - x, ONE) = 0 - m
  <2>1. x = 0 => m = 0
    BY <1>1, <1>3
  <2>2. R!magnitude(x) = x /\ R!magnitude(ONE) = ONE /\ R!magnitude(0 - x) = x
    BY <1>1, <1>3 DEF R!magnitude
  <2>. QED BY <1>1, <1>3, <2>1, <2>2 DEF R!truncated_div
<1>5. (n * ONE) * p = x /\ p * (n * ONE) = x /\ p * (0 - n * ONE) = 0 - x
  BY <1>2, Regroup
<1>. QED BY <1>2, <1>4, <1>5 DEF R!fixed_mul

-----------------------------------------------------------------------------
(* A pool whose stakes are whole numbers b[a]                              *)

PoolType == [stake : [Accounts -> Nat], total : Nat, per_token : Nat,
             tally : [Accounts -> Int], rewards : Int]

Amount == [Accounts -> Nat]

PoolKept(pool, b) ==
    /\ pool \in PoolType
    /\ \A a \in Accounts : pool.stake[a] = to_fixed(b[a])
    /\ pool.total = to_fixed(Total(b, Accounts))
    /\ \A a \in Accounts : pool.tally[a] <= b[a] * pool.per_token

LEMMA Fixed ==
    ASSUME NEW n \in Nat
    PROVE  to_fixed(n) = n * ONE /\ to_fixed(n) \in Nat /\ R!to_fixed(n) = n * ONE
BY ONEAssumption, ProductNat DEF to_fixed, R!to_fixed

(* What an account has earned, exactly.                                    *)
LEMMA ClaimIs ==
    ASSUME NEW b \in Amount, NEW pool, PoolKept(pool, b), NEW a \in Accounts
    PROVE  /\ claim(pool, a) = b[a] * pool.per_token - pool.tally[a]
           /\ claim(pool, a) \in Nat
<1>1. b[a] \in Nat /\ pool.per_token \in Nat /\ pool.tally[a] \in Int
  BY DEF PoolKept, PoolType, Amount
<1>2. pool.stake[a] = b[a] * ONE
  BY <1>1, Fixed DEF PoolKept
<1>3. fixed_mul(b[a] * ONE, pool.per_token) = b[a] * pool.per_token
  <2>1. R!fixed_mul(b[a] * ONE, pool.per_token) = b[a] * pool.per_token
    BY <1>1, ExactProduct
  <2>. QED BY <2>1 DEF fixed_mul, R!fixed_mul, truncated_div, R!truncated_div, magnitude, R!magnitude
<1>4. PICK x : x = b[a] * pool.per_token
  OBVIOUS
<1>5. x \in Nat /\ pool.tally[a] <= x
  BY <1>1, <1>4, ProductNat DEF PoolKept
<1>6. claim(pool, a) = x - pool.tally[a]
  BY <1>2, <1>3, <1>4 DEF claim
<1>. QED BY <1>1, <1>4, <1>5, <1>6

(* The pool with another stake and tally of one account.                   *)
pooled(pool, a, stake, total, tally) ==
    [pool EXCEPT !.stake = [@ EXCEPT ![a] = stake], !.total = total,
                 !.tally = [@ EXCEPT ![a] = tally]]

LEMMA PooledFields ==
    ASSUME NEW pool \in PoolType, NEW a \in Accounts, NEW s \in Nat, NEW t \in Nat, NEW y \in Int,
           NEW q, q = pooled(pool, a, s, t, y)
    PROVE  /\ q \in PoolType /\ q.total = t /\ q.per_token = pool.per_token
           /\ q.stake[a] = s /\ q.tally[a] = y
           /\ \A c \in Accounts : c # a => q.stake[c] = pool.stake[c] /\ q.tally[c] = pool.tally[c]
<1>1. PICK st, ta : st = [pool.stake EXCEPT ![a] = s] /\ ta = [pool.tally EXCEPT ![a] = y]
  OBVIOUS
<1>2. st \in [Accounts -> Nat] /\ ta \in [Accounts -> Int] /\ st[a] = s /\ ta[a] = y
      /\ \A c \in Accounts : c # a => st[c] = pool.stake[c] /\ ta[c] = pool.tally[c]
  BY <1>1 DEF PoolType
<1>3. q = [pool EXCEPT !.stake = st, !.total = t, !.tally = ta]
  BY <1>1 DEF pooled
<1>4. q \in PoolType /\ q.total = t /\ q.per_token = pool.per_token /\ q.stake = st /\ q.tally = ta
  BY <1>2, <1>3 DEF PoolType
<1>. QED BY <1>2, <1>4

LEMMA ChangeStake ==
    ASSUME NEW pool \in PoolType, NEW a \in Accounts, NEW x, NEW y, R!fixed_mul(pool.per_token, x) = y
    PROVE  R!change_stake(pool, a, x) =
               pooled(pool, a, pool.stake[a] + x, pool.total + x, pool.tally[a] + y)
BY DEF R!change_stake, pooled, PoolType

(* The whole stake of an account is taken out.                             *)
LEMMA WithdrawAll ==
    ASSUME NEW b \in Amount, NEW pool, PoolKept(pool, b), NEW a \in Accounts,
           NEW q \in R!withdraw_all_stake(pool, a)
    PROVE  q = pooled(pool, a, 0, pool.total - to_fixed(b[a]),
                      pool.tally[a] - b[a] * pool.per_token)
<1>1. /\ pool \in PoolType /\ b[a] \in Nat /\ pool.stake[a] = b[a] * ONE /\ pool.per_token \in Nat
      /\ pool.tally[a] \in Int /\ pool.total \in Nat
  BY Fixed DEF PoolKept, PoolType, Amount
<1>2. PICK n, x : n = b[a] /\ x = n * ONE
  OBVIOUS
<1>3. n \in Nat /\ x \in Nat /\ x \div ONE = n /\ pool.stake[a] = x /\ ONE \in Nat \ {0}
  BY <1>1, <1>2, ExactQuotient, ONEAssumption
<1>4. R!get_stake(pool, a) = n
  BY <1>3 DEF R!get_stake, R!truncate_to_inner, R!truncated_div, R!magnitude
<1>5. R!to_fixed(n) = x /\ to_fixed(n) = x
  BY <1>2, <1>3, Fixed
<1>6. q = R!change_stake(pool, a, -x) /\ -x = 0 - x
  BY <1>3, <1>4, <1>5 DEF R!withdraw_all_stake, R!withdraw_stake
<1>7. R!fixed_mul(pool.per_token, 0 - x) = 0 - n * pool.per_token
  BY <1>1, <1>2, <1>3, ExactProduct
<1>8. q = pooled(pool, a, pool.stake[a] + (0 - x), pool.total + (0 - x),
                 pool.tally[a] + (0 - n * pool.per_token))
  BY <1>1, <1>6, <1>7, ChangeStake
<1>9. n * pool.per_token \in Nat
  BY <1>1, <1>3, ProductNat
<1>10. PICK z : z = n * pool.per_token
  OBVIOUS
<1>11. /\ pool.stake[a] + (0 - x) = 0 /\ pool.total + (0 - x) = pool.total - x
       /\ pool.tally[a] + (0 - z) = pool.tally[a] - z
  <2>1. PICK s, t, y : s = pool.stake[a] /\ t = pool.total /\ y = pool.tally[a]
    OBVIOUS
  <2>2. s = x /\ x \in Nat /\ t \in Nat /\ y \in Int /\ z \in Nat
    BY <1>1, <1>3, <1>9, <1>10, <2>1
  <2>3. s + (0 - x) = 0 /\ t + (0 - x) = t - x /\ y + (0 - z) = y - z
    BY <2>2
  <2>. QED BY <2>1, <2>3
<1>. QED BY <1>2, <1>5, <1>8, <1>10, <1>11

LEMMA AmountNat ==
    ASSUME IsFiniteSet(Accounts), NEW b \in Amount
    PROVE  Total(b, Accounts) \in Nat /\ \A a \in Accounts : b[a] \in Nat
BY TotalNat DEF Amount

LEMMA OneOf ==
    ASSUME IsFiniteSet(Accounts), NEW b \in Amount, NEW a \in Accounts
    PROVE  b[a] <= Total(b, Accounts)
<1>1. PICK c : c = [x \in Accounts |-> IF x = a THEN 0 ELSE b[x]]
  OBVIOUS
<1>2. \A x \in Accounts : b[x] \in Nat /\ c[x] \in Nat /\ (x # a => c[x] = b[x])
  BY <1>1 DEF Amount
<1>3. c[a] = 0
  BY <1>1
<1>4. Total(c, Accounts) = Total(b, Accounts) - b[a] + c[a]
  BY <1>2, OneChanges
<1>5. Total(c, Accounts) \in Nat /\ Total(b, Accounts) \in Nat /\ b[a] \in Nat
  BY <1>2, TotalNat
<1>. QED BY <1>3, <1>4, <1>5

LEMMA FixedSums ==
    ASSUME NEW x \in Nat, NEW y \in Nat
    PROVE  /\ to_fixed(x + y) = to_fixed(x) + to_fixed(y)
           /\ x <= y => to_fixed(x) <= to_fixed(y) /\ to_fixed(y - x) = to_fixed(y) - to_fixed(x)
<1>1. ONE \in Nat
  BY ONEAssumption
<1>2. (x + y) * ONE = x * ONE + y * ONE
  BY <1>1, SMT
<1>3. x <= y => x * ONE <= y * ONE
  BY <1>1, SMT
<1>4. (y - x) * ONE = y * ONE - x * ONE
  BY <1>1, SMT
<1>. QED BY <1>2, <1>3, <1>4 DEF to_fixed

(* An account's stake of n units becomes m units: everyone has earned what *)
(* they had.                                                               *)
restaked(pool, who, n, m) ==
    pooled(pool, who, to_fixed(m), pool.total - to_fixed(n) + to_fixed(m),
           pool.tally[who] - n * pool.per_token + m * pool.per_token)

LEMMA StakeChanged ==
    ASSUME IsFiniteSet(Accounts), NEW b \in Amount, NEW c \in Amount, NEW pool, PoolKept(pool, b),
           NEW who \in Accounts, \A a \in Accounts : a # who => c[a] = b[a],
           NEW q, q = restaked(pool, who, b[who], c[who])
    PROVE  PoolKept(q, c) /\ \A a \in Accounts : claim(q, a) = claim(pool, a)
<1>1. /\ pool \in PoolType /\ pool.per_token \in Nat /\ pool.total \in Nat /\ pool.tally[who] \in Int
      /\ pool.total = to_fixed(Total(b, Accounts))
  BY DEF PoolKept, PoolType
<1>2. \A a \in Accounts : b[a] \in Nat /\ c[a] \in Nat
  BY DEF Amount
<1>3. PICK B, C : B = Total(b, Accounts) /\ C = Total(c, Accounts)
  OBVIOUS
<1>4. B \in Nat /\ C \in Nat /\ b[who] <= B /\ C = B - b[who] + c[who]
  BY <1>2, <1>3, AmountNat, OneOf, OneChanges
<1>5. PICK s, t, x, z : /\ s = to_fixed(c[who]) /\ t = pool.total - to_fixed(b[who]) + to_fixed(c[who])
                        /\ x = b[who] * pool.per_token /\ z = c[who] * pool.per_token
  OBVIOUS
<1>6. /\ s \in Nat /\ x \in Nat /\ z \in Nat
  BY <1>1, <1>2, <1>5, Fixed, ProductNat
<1>7. t = to_fixed(C) /\ t \in Nat
  <2>1. PICK d : d = B - b[who]
    OBVIOUS
  <2>2. d \in Nat /\ C = d + c[who]
    BY <1>2, <1>4, <2>1
  <2>3. to_fixed(d) = to_fixed(B) - to_fixed(b[who]) /\ to_fixed(C) = to_fixed(d) + to_fixed(c[who])
    BY <1>2, <1>4, <2>1, <2>2, FixedSums
  <2>4. to_fixed(C) \in Nat
    BY <1>4, Fixed
  <2>. QED BY <1>1, <1>3, <1>5, <2>3, <2>4
<1>8. PICK y : y = pool.tally[who] - x + z
  OBVIOUS
<1>9. y \in Int /\ pool.tally[who] <= x
  BY <1>1, <1>5, <1>6, <1>8 DEF PoolKept
<1>10. q = pooled(pool, who, s, t, y)
  BY <1>5, <1>8 DEF restaked
<1>11. /\ q \in PoolType /\ q.total = t /\ q.per_token = pool.per_token
       /\ q.stake[who] = s /\ q.tally[who] = y
       /\ \A a \in Accounts : a # who => q.stake[a] = pool.stake[a] /\ q.tally[a] = pool.tally[a]
  BY <1>1, <1>6, <1>7, <1>9, <1>10, PooledFields
<1>12. PoolKept(q, c)
  <2>1. ASSUME NEW a \in Accounts
        PROVE  q.stake[a] = to_fixed(c[a]) /\ q.tally[a] <= c[a] * q.per_token
    <3>1. CASE a = who
      <4>1. y <= z
        BY <1>1, <1>6, <1>8, <1>9
      <4>. QED BY <1>5, <1>11, <3>1, <4>1
    <3>2. CASE a # who
      <4>1. pool.stake[a] = to_fixed(b[a]) /\ pool.tally[a] <= b[a] * pool.per_token
        BY DEF PoolKept
      <4>2. c[a] = b[a]
        BY <3>2
      <4>. QED BY <1>11, <3>2, <4>1, <4>2, Zenon
    <3>. QED BY <3>1, <3>2
  <2>2. q.total = to_fixed(Total(c, Accounts))
    BY <1>3, <1>7, <1>11
  <2>. QED BY <1>11, <2>1, <2>2 DEF PoolKept
<1>13. ASSUME NEW a \in Accounts PROVE claim(q, a) = claim(pool, a)
  <2>1. /\ claim(q, a) = c[a] * q.per_token - q.tally[a]
        /\ claim(pool, a) = b[a] * pool.per_token - pool.tally[a]
    BY <1>12, ClaimIs
  <2>2. CASE a = who
    <3>1. claim(q, a) = z - y /\ claim(pool, a) = x - pool.tally[who]
      BY <1>5, <1>11, <2>1, <2>2
    <3>. QED BY <1>1, <1>6, <1>8, <3>1
  <2>3. CASE a # who
    <3>1. c[a] = b[a] /\ q.tally[a] = pool.tally[a]
      BY <1>11, <2>3
    <3>. QED BY <1>11, <2>1, <3>1, Zenon
  <2>. QED BY <2>2, <2>3
<1>. QED BY <1>12, <1>13

LEMMA PooledTwice ==
    ASSUME NEW pool \in PoolType, NEW a \in Accounts, NEW s \in Nat, NEW t \in Nat, NEW y \in Int,
           NEW u \in Nat, NEW v \in Nat, NEW z \in Int
    PROVE  pooled(pooled(pool, a, s, t, y), a, u, v, z) = pooled(pool, a, u, v, z)
<1>1. PICK q, st, ta : /\ q = pooled(pool, a, s, t, y) /\ st = [pool.stake EXCEPT ![a] = s]
                       /\ ta = [pool.tally EXCEPT ![a] = y]
  OBVIOUS
<1>2. q = [pool EXCEPT !.stake = st, !.total = t, !.tally = ta]
  BY <1>1 DEF pooled
<1>3. PICK st2, ta2 : st2 = [pool.stake EXCEPT ![a] = u] /\ ta2 = [pool.tally EXCEPT ![a] = z]
  OBVIOUS
<1>4. [st EXCEPT ![a] = u] = st2 /\ [ta EXCEPT ![a] = z] = ta2
  BY <1>1, <1>3 DEF PoolType
<1>5. q.stake = st /\ q.tally = ta
  BY <1>2 DEF PoolType
<1>6. pooled(q, a, u, v, z) = [q EXCEPT !.stake = st2, !.total = v, !.tally = ta2]
  BY <1>2, <1>4, <1>5 DEF pooled, PoolType
<1>7. pooled(pool, a, u, v, z) = [pool EXCEPT !.stake = st2, !.total = v, !.tally = ta2]
  BY <1>3 DEF pooled, PoolType
<1>. QED BY <1>1, <1>2, <1>6, <1>7 DEF PoolType

(* The stake without who's, in units.                                      *)
LEMMA Emptied ==
    ASSUME IsFiniteSet(Accounts), NEW b \in Amount, NEW pool, PoolKept(pool, b), NEW who \in Accounts,
           NEW x, x = to_fixed(b[who]), NEW z, z = b[who] * pool.per_token
    PROVE  /\ x \in Nat /\ z \in Nat /\ pool.total - x \in Nat /\ pool.tally[who] - z \in Int
           /\ pool.tally[who] \in Int /\ pool.total \in Nat /\ pool.per_token \in Nat
<1>1. /\ b[who] \in Nat /\ pool.per_token \in Nat /\ pool.tally[who] \in Int /\ pool.total \in Nat
      /\ Total(b, Accounts) \in Nat /\ b[who] <= Total(b, Accounts)
      /\ pool.total = to_fixed(Total(b, Accounts))
  BY AmountNat, OneOf DEF PoolKept, PoolType
<1>2. x \in Nat /\ z \in Nat
  BY <1>1, Fixed, ProductNat
<1>3. x <= pool.total
  BY <1>1, FixedSums
<1>. QED BY <1>1, <1>2, <1>3

LEMMA Redeposited ==
    ASSUME IsFiniteSet(Accounts), NEW b \in Amount, NEW pool, PoolKept(pool, b), NEW who \in Accounts,
           NEW m \in Nat, NEW p \in R!withdraw_all_stake(pool, who)
    PROVE  R!deposit_stake(p, who, to_fixed(m)) = restaked(pool, who, b[who], m)
<1>1. PICK x, z, u, w : /\ x = to_fixed(b[who]) /\ z = b[who] * pool.per_token
                        /\ u = to_fixed(m) /\ w = m * pool.per_token
  OBVIOUS
<1>2. /\ x \in Nat /\ z \in Nat /\ pool.total - x \in Nat /\ pool.tally[who] - z \in Int
      /\ pool.tally[who] \in Int /\ pool.total \in Nat /\ pool.per_token \in Nat /\ pool \in PoolType
  BY <1>1, Emptied DEF PoolKept
<1>3. u \in Nat /\ w \in Nat /\ u = m * ONE
  BY <1>1, <1>2, Fixed, ProductNat
<1>4. PICK t, y : t = pool.total - x /\ y = pool.tally[who] - z
  OBVIOUS
<1>5. p = pooled(pool, who, 0, t, y) /\ t \in Nat /\ y \in Int
  BY <1>1, <1>2, <1>4, WithdrawAll
<1>6. /\ p \in PoolType /\ p.total = t /\ p.per_token = pool.per_token
      /\ p.stake[who] = 0 /\ p.tally[who] = y
  <2>1. PICK n, q : n \in Nat /\ n = 0 /\ q = pooled(pool, who, n, t, y)
    OBVIOUS
  <2>2. p = q /\ pool \in PoolType
    BY <1>2, <1>5, <2>1
  <2>3. /\ q \in PoolType /\ q.total = t /\ q.per_token = pool.per_token
        /\ q.stake[who] = n /\ q.tally[who] = y
    BY <1>5, <2>1, <2>2, PooledFields
  <2>. QED BY <2>1, <2>2, <2>3
<1>7. R!fixed_mul(p.per_token, u) = w
  BY <1>1, <1>2, <1>3, <1>6, ExactProduct, ZenonT(60)
<1>8. R!deposit_stake(p, who, u) = pooled(p, who, 0 + u, t + u, y + w)
  BY <1>6, <1>7, ChangeStake DEF R!deposit_stake
<1>9. 0 + u = u /\ u \in Nat /\ t + u \in Nat /\ y + w \in Int /\ 0 \in Nat
  BY <1>3, <1>5
<1>10. R!deposit_stake(p, who, u) = pooled(pool, who, u, t + u, y + w)
  BY <1>2, <1>5, <1>8, <1>9, PooledTwice
<1>. QED BY <1>1, <1>4, <1>10 DEF restaked

LEMMA LeftAlone ==
    ASSUME IsFiniteSet(Accounts), NEW b \in Amount, NEW pool, PoolKept(pool, b), NEW who \in Accounts,
           NEW p \in R!withdraw_all_stake(pool, who)
    PROVE  p = restaked(pool, who, b[who], 0)
<1>1. PICK x, z : x = to_fixed(b[who]) /\ z = b[who] * pool.per_token
  OBVIOUS
<1>2. /\ x \in Nat /\ z \in Nat /\ pool.total - x \in Nat /\ pool.tally[who] - z \in Int
      /\ pool.tally[who] \in Int /\ pool.total \in Nat /\ pool.per_token \in Nat
  BY <1>1, Emptied
<1>3. p = pooled(pool, who, 0, pool.total - x, pool.tally[who] - z)
  BY <1>1, WithdrawAll
<1>4. to_fixed(0) = 0 /\ 0 * pool.per_token = 0
  BY <1>2, ONEAssumption DEF to_fixed
<1>5. PICK t, y : t = pool.total - x /\ y = pool.tally[who] - z
  OBVIOUS
<1>6. t + 0 = t /\ y + 0 = y
  BY <1>2, <1>5
<1>. QED BY <1>1, <1>3, <1>4, <1>5, <1>6 DEF restaked

-----------------------------------------------------------------------------
(* What the pool owes                                                      *)

earned(pool) == [a \in Accounts |-> claim(pool, a)]

LEMMA EarnedTyped ==
    ASSUME NEW b \in Amount, NEW pool, PoolKept(pool, b)
    PROVE  \A a \in Accounts : earned(pool)[a] = claim(pool, a) /\ earned(pool)[a] \in Nat
BY ClaimIs DEF earned

LEMMA EarnedNat ==
    ASSUME IsFiniteSet(Accounts), NEW b \in Amount, NEW pool, PoolKept(pool, b)
    PROVE  Total(earned(pool), Accounts) \in Nat
BY EarnedTyped, TotalNat

(* A stake that changes leaves all claims.                                 *)
LEMMA StakeChangedEarned ==
    ASSUME IsFiniteSet(Accounts), NEW b \in Amount, NEW c \in Amount, NEW pool, PoolKept(pool, b),
           NEW who \in Accounts, \A a \in Accounts : a # who => c[a] = b[a],
           NEW q, q = restaked(pool, who, b[who], c[who])
    PROVE  PoolKept(q, c) /\ Total(earned(q), Accounts) = Total(earned(pool), Accounts)
<1>1. PoolKept(q, c) /\ \A a \in Accounts : claim(q, a) = claim(pool, a)
  BY StakeChanged
<1>2. \A a \in Accounts : earned(q)[a] = earned(pool)[a]
  BY <1>1 DEF earned
<1>. QED BY <1>1, <1>2, TotalEqual

(* The division that spreads a reward over the stake rounds down.          *)
LEMMA Spread ==
    ASSUME NEW r \in Nat \ {0}, NEW n \in Nat \ {0}, NEW d,
           d = R!fixed_div(to_fixed(r), to_fixed(n))
    PROVE  d \in Nat /\ n * d \in Nat /\ n * d <= to_fixed(r)
<1>1. ONE \in Nat \ {0}
  BY ONEAssumption
<1>2. PICK x, y, w : x = r * ONE /\ y = n * ONE /\ w = x * ONE
  OBVIOUS
<1>3. x \in Nat \ {0} /\ y \in Nat \ {0} /\ w \in Nat
  <2>1. x \in Nat /\ y \in Nat /\ x # 0 /\ y # 0
    BY <1>1, <1>2, SMT
  <2>2. w \in Nat
    BY <1>1, <1>2, <2>1, ProductNat
  <2>. QED BY <2>1, <2>2
<1>4. to_fixed(r) = x /\ to_fixed(n) = y
  BY <1>2 DEF to_fixed
<1>5. d = w \div y
  <2>1. d = R!truncated_div(w, y)
    BY <1>2, <1>4 DEF R!fixed_div
  <2>2. R!magnitude(w) = w /\ R!magnitude(y) = y
    BY <1>3 DEF R!magnitude
  <2>. QED BY <1>3, <2>1, <2>2 DEF R!truncated_div
<1>6. d \in Nat /\ d * y <= w
  BY <1>3, <1>5, SMT
<1>7. PICK v : v = n * d
  OBVIOUS
<1>8. v \in Nat /\ d * y = v * ONE
  <2>1. d * (n * ONE) = (n * d) * ONE
    BY <1>1, <1>6, SMT
  <2>. QED BY <1>2, <1>6, <1>7, <2>1, ProductNat
<1>9. v * ONE <= x * ONE
  BY <1>2, <1>6, <1>8
<1>10. v <= x
  <2>1. SUFFICES ASSUME x < v PROVE FALSE
    BY <1>3, <1>8
  <2>2. x * ONE < v * ONE
    BY <1>1, <1>3, <1>8, <2>1, SMT
  <2>3. x * ONE \in Nat /\ v * ONE \in Nat
    BY <1>1, <1>3, <1>8, ProductNat
  <2>. QED BY <1>9, <2>2, <2>3
<1>. QED BY <1>4, <1>6, <1>7, <1>8, <1>10

(* A reward is distributed: together the claims grow by no more than it.   *)
LEMMA Distributed ==
    ASSUME IsFiniteSet(Accounts), NEW b \in Amount, NEW pool, PoolKept(pool, b), NEW r \in Nat,
           NEW q \in R!distribute_reward(pool, to_fixed(r))
    PROVE  /\ PoolKept(q, b)
           /\ Total(earned(q), Accounts) <= Total(earned(pool), Accounts) + to_fixed(r)
<1>1. PICK B : B = Total(b, Accounts)
  OBVIOUS
<1>2. /\ pool \in PoolType /\ B \in Nat /\ pool.total = to_fixed(B) /\ to_fixed(r) \in Nat
      /\ pool.per_token \in Nat /\ pool.rewards \in Int
      /\ Total(earned(pool), Accounts) \in Nat
      /\ \A a \in Accounts : b[a] \in Nat /\ pool.tally[a] \in Int
  BY <1>1, AmountNat, Fixed, EarnedNat DEF PoolKept, PoolType
<1>3. CASE to_fixed(r) = 0
  <2>1. q = pool
    BY <1>3 DEF R!distribute_reward
  <2>. QED BY <1>2, <2>1
<1>4. CASE to_fixed(r) # 0
  <2>1. PICK d : d = R!fixed_div(to_fixed(r), pool.total)
    OBVIOUS
  <2>2. /\ pool.total # 0
        /\ q = [pool EXCEPT !.per_token = @ + d, !.rewards = @ + to_fixed(r)]
    BY <1>4, <2>1 DEF R!distribute_reward
  <2>3. r # 0 /\ B # 0
    <3>1. to_fixed(0) = 0
      BY ONEAssumption DEF to_fixed
    <3>. QED BY <1>2, <1>4, <2>2, <3>1
  <2>4. d \in Nat /\ B * d \in Nat /\ B * d <= to_fixed(r)
    <3>1. r \in Nat \ {0} /\ B \in Nat \ {0} /\ d = R!fixed_div(to_fixed(r), to_fixed(B))
      BY <1>2, <2>1, <2>3
    <3>. QED BY <3>1, Spread
  <2>5. PICK p, w : p = pool.per_token + d /\ w = pool.rewards + to_fixed(r)
    OBVIOUS
  <2>6. p \in Nat /\ w \in Int /\ q = [pool EXCEPT !.per_token = p, !.rewards = w]
    BY <1>2, <2>2, <2>4, <2>5
  <2>7. /\ q \in PoolType /\ q.per_token = p /\ q.stake = pool.stake /\ q.total = pool.total
        /\ q.tally = pool.tally
    BY <1>2, <2>6 DEF PoolType
  <2>8. \A a \in Accounts : b[a] * p = b[a] * pool.per_token + b[a] * d
                            /\ b[a] * pool.per_token \in Nat /\ b[a] * d \in Nat
    <3>1. SUFFICES ASSUME NEW a \in Accounts
                   PROVE  b[a] * p = b[a] * pool.per_token + b[a] * d
                          /\ b[a] * pool.per_token \in Nat /\ b[a] * d \in Nat
      OBVIOUS
    <3>2. PICK n, k : n = b[a] /\ k = pool.per_token
      OBVIOUS
    <3>3. n \in Nat /\ k \in Nat /\ p = k + d
      BY <1>2, <2>5, <3>2
    <3>4. n * (k + d) = n * k + n * d /\ n * k \in Nat /\ n * d \in Nat
      BY <2>4, <3>3, SMT
    <3>. QED BY <3>2, <3>3, <3>4
  <2>9. PoolKept(q, b)
    <3>1. ASSUME NEW a \in Accounts PROVE q.tally[a] <= b[a] * q.per_token
      <4>1. PICK x, y, z : x = b[a] * pool.per_token /\ y = b[a] * d /\ z = b[a] * p
        OBVIOUS
      <4>2. z = x + y /\ x \in Nat /\ y \in Nat
        BY <2>8, <4>1
      <4>3. pool.tally[a] <= x /\ pool.tally[a] \in Int
        BY <1>2, <4>1 DEF PoolKept
      <4>4. pool.tally[a] <= z
        BY <4>2, <4>3
      <4>. QED BY <2>7, <4>1, <4>4
    <3>. QED BY <2>7, <3>1 DEF PoolKept
  <2>10. PICK f, g : f = earned(pool) /\ g = earned(q)
    OBVIOUS
  <2>11. \A a \in Accounts : f[a] \in Nat /\ b[a] \in Nat /\ g[a] = f[a] + b[a] * d
    <3>1. SUFFICES ASSUME NEW a \in Accounts
                   PROVE  f[a] \in Nat /\ b[a] \in Nat /\ g[a] = f[a] + b[a] * d
      OBVIOUS
    <3>2. /\ f[a] = b[a] * pool.per_token - pool.tally[a] /\ f[a] \in Nat
          /\ g[a] = b[a] * p - pool.tally[a]
      BY <2>7, <2>9, <2>10, ClaimIs, EarnedTyped
    <3>3. PICK x, y, z : x = b[a] * pool.per_token /\ y = b[a] * d /\ z = b[a] * p
      OBVIOUS
    <3>4. z = x + y /\ x \in Nat /\ y \in Nat /\ f[a] = x - pool.tally[a] /\ g[a] = z - pool.tally[a]
      BY <2>8, <3>2, <3>3
    <3>5. pool.tally[a] \in Int /\ b[a] \in Nat
      BY <1>2
    <3>6. g[a] = f[a] + y
      BY <3>4, <3>5
    <3>. QED BY <3>2, <3>3, <3>5, <3>6
  <2>12. Total(g, Accounts) = Total(f, Accounts) + B * d
    <3>1. Total(g, Accounts) = Total(f, Accounts) + Total(b, Accounts) * d
      BY <2>4, <2>11, TotalScaled, SMTT(30)
    <3>. QED BY <1>1, <3>1
  <2>13. PICK x : x = B * d
    OBVIOUS
  <2>14. Total(g, Accounts) <= Total(f, Accounts) + to_fixed(r)
    BY <1>2, <2>4, <2>10, <2>12, <2>13
  <2>. QED BY <2>9, <2>10, <2>14
<1>. QED BY <1>3, <1>4

(* What is paid is a whole number of units, at most the claim.             *)
LEMMA ComputeReward ==
    ASSUME NEW b \in Amount, NEW pool, PoolKept(pool, b), NEW a \in Accounts
    PROVE  /\ R!compute_reward(pool, a) \in Nat
           /\ to_fixed(R!compute_reward(pool, a)) <= claim(pool, a)
<1>1. PICK x : x = claim(pool, a)
  OBVIOUS
<1>2. x \in Nat /\ ONE \in Nat \ {0}
  BY <1>1, ClaimIs, ONEAssumption
<1>3. R!fixed_mul(pool.stake[a], pool.per_token) = fixed_mul(pool.stake[a], pool.per_token)
  BY DEF fixed_mul, R!fixed_mul, truncated_div, R!truncated_div, magnitude, R!magnitude
<1>4. R!compute_reward(pool, a) = R!truncated_div(x, ONE)
  BY <1>1, <1>3 DEF R!compute_reward, R!truncate_to_inner, claim
<1>5. R!truncated_div(x, ONE) = x \div ONE
  BY <1>2 DEF R!truncated_div, R!magnitude
<1>6. x \div ONE \in Nat /\ (x \div ONE) * ONE <= x
  BY <1>2, SMT
<1>. QED BY <1>1, <1>4, <1>5, <1>6 DEF to_fixed

LEMMA Paid ==
    ASSUME IsFiniteSet(Accounts), NEW b \in Amount, NEW pool, PoolKept(pool, b), NEW who \in Accounts,
           NEW q \in R!withdraw_reward(pool, who)
    PROVE  /\ PoolKept(q, b)
           /\ Total(earned(q), Accounts) + to_fixed(R!compute_reward(pool, who))
                <= Total(earned(pool), Accounts)
<1>1. PICK v, n, p : v = R!compute_reward(pool, who) /\ n = b[who] /\ p = pool.per_token
  OBVIOUS
<1>2. /\ pool \in PoolType /\ n \in Nat /\ p \in Nat /\ pool.rewards \in Int
      /\ pool.tally \in [Accounts -> Int] /\ v \in Nat /\ to_fixed(v) \in Nat
      /\ R!to_fixed(v) = to_fixed(v) /\ pool.stake[who] = n * ONE
  BY <1>1, ComputeReward, Fixed, ONEAssumption DEF PoolKept, PoolType, Amount
<1>3. PICK x : x = n * p
  OBVIOUS
<1>4. x \in Nat /\ R!fixed_mul(pool.stake[who], pool.per_token) = x
  <2>1. R!fixed_mul(n * ONE, p) = x /\ x \in Nat
    BY <1>2, <1>3, ExactProduct, ProductNat
  <2>. QED BY <1>1, <1>2, <2>1, Zenon
<1>5. PICK ta, w : ta = [pool.tally EXCEPT ![who] = x] /\ w = pool.rewards - to_fixed(v)
  OBVIOUS
<1>6. /\ ta \in [Accounts -> Int] /\ w \in Int /\ ta[who] = x
      /\ \A a \in Accounts : a # who => ta[a] = pool.tally[a]
  BY <1>2, <1>4, <1>5
<1>7. q = [pool EXCEPT !.rewards = w, !.tally = ta]
  <2>1. q = [pool EXCEPT !.rewards = @ - R!to_fixed(v),
                         !.tally[who] = R!fixed_mul(pool.stake[who], pool.per_token)]
    BY <1>1 DEF R!withdraw_reward
  <2>. QED BY <1>2, <1>4, <1>5, <2>1
<1>8. /\ q \in PoolType /\ q.per_token = p /\ q.stake = pool.stake /\ q.total = pool.total
      /\ q.tally = ta
  BY <1>1, <1>2, <1>6, <1>7 DEF PoolType
<1>9. PoolKept(q, b)
  <2>1. ASSUME NEW a \in Accounts PROVE q.tally[a] <= b[a] * q.per_token
    <3>1. CASE a = who
      BY <1>1, <1>3, <1>4, <1>6, <1>8, <3>1
    <3>2. CASE a # who
      <4>1. pool.tally[a] <= b[a] * pool.per_token
        BY DEF PoolKept
      <4>2. q.tally[a] = pool.tally[a] /\ q.per_token = pool.per_token
        BY <1>1, <1>6, <1>8, <3>2
      <4>. QED BY <4>1, <4>2, Zenon
    <3>. QED BY <3>1, <3>2
  <2>. QED BY <1>8, <2>1 DEF PoolKept
<1>10. PICK f, g : f = earned(pool) /\ g = earned(q)
  OBVIOUS
<1>11. /\ \A a \in Accounts : f[a] \in Nat /\ g[a] \in Nat /\ (a # who => g[a] = f[a])
       /\ g[who] = 0 /\ to_fixed(v) <= f[who]
  <2>1. \A a \in Accounts : /\ f[a] \in Nat /\ g[a] \in Nat
                            /\ f[a] = b[a] * p - pool.tally[a] /\ g[a] = b[a] * p - ta[a]
    BY <1>1, <1>8, <1>9, <1>10, ClaimIs, EarnedTyped
  <2>2. \A a \in Accounts : a # who => g[a] = f[a]
    <3>1. SUFFICES ASSUME NEW a \in Accounts, a # who PROVE g[a] = f[a]
      OBVIOUS
    <3>2. ta[a] = pool.tally[a]
      BY <1>6, <3>1
    <3>. QED BY <2>1, <3>2, Zenon
  <2>3. g[who] = x - x
    BY <1>1, <1>3, <1>6, <2>1
  <2>4. to_fixed(v) <= f[who]
    BY <1>1, <1>10, ComputeReward, EarnedTyped
  <2>. QED BY <1>4, <2>1, <2>2, <2>3, <2>4
<1>12. Total(g, Accounts) = Total(f, Accounts) - f[who] + g[who]
  BY <1>11, OneChanges
<1>13. Total(f, Accounts) \in Nat /\ Total(g, Accounts) \in Nat
  BY <1>11, TotalNat
<1>14. Total(g, Accounts) + to_fixed(v) <= Total(f, Accounts)
  <2>1. PICK F, G, y, z : F = Total(f, Accounts) /\ G = Total(g, Accounts) /\ y = f[who] /\ z = g[who]
    OBVIOUS
  <2>2. G = F - y + z /\ z = 0 /\ y \in Nat /\ F \in Nat /\ G \in Nat /\ to_fixed(v) <= y
    BY <1>11, <1>12, <1>13, <2>1
  <2>3. G + to_fixed(v) <= F
    BY <1>2, <2>2
  <2>. QED BY <2>1, <2>3
<1>. QED BY <1>1, <1>9, <1>10, <1>14

(* What could be withdrawn by all is at most what all have earned.         *)
LEMMA OwedBelow ==
    ASSUME IsFiniteSet(Accounts), NEW b \in Amount, NEW pool, PoolKept(pool, b), NEW f,
           f = [a \in Accounts |-> R!compute_reward(pool, a)]
    PROVE  Total(f, Accounts) \in Nat /\ to_fixed(Total(f, Accounts)) <= Total(earned(pool), Accounts)
<1>1. PICK z, g, h : /\ z = [a \in Accounts |-> 0] /\ g = [a \in Accounts |-> to_fixed(f[a])]
                     /\ h = earned(pool)
  OBVIOUS
<1>2. \A a \in Accounts : /\ f[a] \in Nat /\ g[a] = to_fixed(f[a]) /\ to_fixed(f[a]) <= h[a]
                          /\ h[a] \in Nat /\ to_fixed(f[a]) \in Nat /\ z[a] = 0
  BY <1>1, ComputeReward, EarnedTyped, Fixed
<1>3. \A a \in Accounts : z[a] \in Nat /\ f[a] \in Nat /\ g[a] = z[a] + f[a] * ONE
  <2>1. SUFFICES ASSUME NEW a \in Accounts PROVE z[a] \in Nat /\ f[a] \in Nat /\ g[a] = z[a] + f[a] * ONE
    OBVIOUS
  <2>2. f[a] \in Nat /\ g[a] = f[a] * ONE /\ g[a] \in Nat /\ z[a] = 0
    BY <1>2, Fixed
  <2>3. g[a] = 0 + g[a]
    BY <2>2
  <2>. QED BY <2>2, <2>3
<1>4. Total(g, Accounts) = Total(z, Accounts) + Total(f, Accounts) * ONE
  <2>1. ONE \in Nat
    BY ONEAssumption
  <2>. QED BY <1>3, <2>1, TotalScaled, SMTT(30)
<1>5. Total(z, Accounts) = 0 /\ Total(f, Accounts) \in Nat
  BY <1>2, TotalZero, TotalNat
<1>6. Total(g, Accounts) <= Total(h, Accounts)
  BY <1>2, TotalMonotone
<1>7. to_fixed(Total(f, Accounts)) = Total(g, Accounts)
  BY <1>4, <1>5, Fixed
<1>. QED BY <1>1, <1>5, <1>6, <1>7

-----------------------------------------------------------------------------
(* The inductive invariant                                                 *)

biases(e) == [a \in Accounts |-> e.user[a].bias]

SupplyType == [start : Nat, inflation : Nat]
AnnuityType == [escrow : Nat, vault : Nat, per_wrapped : {None} \cup [some : {TRUE}, value : Nat]]
BalancesType == [supply : Nat, escrow_annuity : Nat, vault_annuity : Nat, treasury : Nat,
                 fee : Nat, user : [Accounts -> Nat]]
RateType == [at : Nat, claims : Nat]

(* With n claimed at height h, the account can pay that and the rewards of *)
(* the blocks that are left, but for what was claimed when the rate was    *)
(* set.                                                                    *)
Covered(h, n, reward, balance, rs) ==
    h < rs.at + EmissionPeriod =>
        n + to_fixed((rs.at + EmissionPeriod - 1 - h) * reward) <= to_fixed(balance) + rs.claims

Paying ==
    /\ supply \in SupplyType /\ annuity \in AnnuityType /\ balances \in BalancesType
    /\ rateSet \in RateType /\ rateSet.at <= height
    /\ Covered(height, claims, annuity.escrow, balances.escrow_annuity, rateSet)
    /\ capacity \in Nat /\ capacity <= balances.fee

IInv ==
    /\ height \in 0 .. MaxHeight /\ calls \in 0 .. MaxCalls
    /\ VotesCounted(escrow, height)
    /\ PoolKept(rewards, biases(escrow))
    /\ Paying

LEMMA BiasesTyped ==
    ASSUME NEW e \in EscrowType
    PROVE  biases(e) \in Amount /\ \A a \in Accounts : biases(e)[a] = e.user[a].bias
<1>1. \A a \in Accounts : e.user[a].bias \in Nat
  BY DEF EscrowType, PointType
<1>. QED BY <1>1 DEF biases, Amount

LEMMA ClaimsEarned ==
    /\ claims = Total(earned(rewards), Accounts)
    /\ claims' = Total(earned(rewards'), Accounts)
BY DEF claims, earned, claim

LEMMA FiniteAccounts == IsFiniteSet(Accounts)
BY BlockRewardsAssumption

LEMMA KeptTyped ==
    ASSUME IInv
    PROVE  /\ escrow \in EscrowType /\ biases(escrow) \in Amount /\ height \in Nat
           /\ claims \in Nat
<1>1. escrow \in EscrowType /\ height \in Nat
  BY EscrowAssumption DEF IInv, VotesCounted
<1>2. biases(escrow) \in Amount
  BY <1>1, BiasesTyped
<1>3. PoolKept(rewards, biases(escrow))
  BY DEF IInv
<1>4. claims \in Nat
  BY <1>2, <1>3, FiniteAccounts, EarnedNat, ClaimsEarned
<1>. QED BY <1>1, <1>2, <1>4

LEMMA InitHolds == Init => IInv
<1>. SUFFICES ASSUME Init PROVE IInv
  OBVIOUS
<1>1. /\ height = 0 /\ escrow = NewEscrow /\ rewards = R!NewPool(Accounts) /\ calls = 0
      /\ rateSet = [at |-> 0, claims |-> 0] /\ capacity = 0
  BY DEF Init
<1>2. MaxHeight \in Nat /\ MaxCalls \in Nat /\ EmissionPeriod \in Nat \ {0} /\ ONE \in Nat
      /\ InitialSupply \in Nat /\ UserFunds \in Nat
  BY EscrowAssumption, BlockRewardsAssumption, ONEAssumption
<1>3. height \in 0 .. MaxHeight /\ calls \in 0 .. MaxCalls
  BY <1>1, <1>2
<1>4. VotesCounted(escrow, height)
  BY <1>1, FiniteAccounts, NewVotes
<1>5. \A a \in Accounts : biases(escrow)[a] = 0
  BY <1>1 DEF biases, NewEscrow, NoPoint
<1>6. biases(escrow) \in Amount
  <2>1. escrow \in EscrowType
    BY <1>4 DEF VotesCounted
  <2>. QED BY <2>1, BiasesTyped
<1>7. PoolKept(rewards, biases(escrow))
  <2>1. /\ rewards \in PoolType /\ rewards.total = 0 /\ rewards.per_token = 0
        /\ \A a \in Accounts : rewards.stake[a] = 0 /\ rewards.tally[a] = 0
    BY <1>1 DEF R!NewPool, PoolType
  <2>2. Total(biases(escrow), Accounts) = 0 /\ to_fixed(0) = 0
    BY <1>2, <1>5, TotalZero DEF to_fixed
  <2>. QED BY <1>5, <2>1, <2>2 DEF PoolKept
<1>8. claims = 0
  <2>1. \A a \in Accounts : claim(rewards, a) = biases(escrow)[a] * rewards.per_token - rewards.tally[a]
    BY <1>6, <1>7, ClaimIs
  <2>2. \A a \in Accounts : rewards.per_token = 0 /\ rewards.tally[a] = 0
    BY <1>1 DEF R!NewPool
  <2>3. \A a \in Accounts : earned(rewards)[a] = 0
    BY <1>5, <2>1, <2>2 DEF earned
  <2>. QED BY <2>3, TotalZero, ClaimsEarned
<1>9. supply \in SupplyType
  BY BlockRewardsAssumption DEF Init, SupplyType
<1>10. annuity \in AnnuityType /\ annuity.escrow = 0
  BY DEF Init, AnnuityType, None
<1>11. balances \in BalancesType /\ balances.escrow_annuity = 0 /\ balances.fee = 0
  BY <1>2 DEF Init, BalancesType
<1>12. rateSet \in RateType /\ rateSet.at = 0 /\ rateSet.claims = 0
  BY <1>1 DEF RateType
<1>13. Covered(height, claims, annuity.escrow, balances.escrow_annuity, rateSet)
  <2>1. PICK k : k = rateSet.at + EmissionPeriod - 1 - height
    OBVIOUS
  <2>2. k \in Int
    BY <1>1, <1>2, <1>12, <2>1
  <2>3. k * 0 = 0 /\ to_fixed(0) = 0
    BY <1>2, <2>2 DEF to_fixed
  <2>. QED BY <1>8, <1>10, <1>11, <1>12, <2>1, <2>3 DEF Covered
<1>. QED BY <1>1, <1>3, <1>4, <1>7, <1>9, <1>10, <1>11, <1>12, <1>13 DEF IInv, Paying

-----------------------------------------------------------------------------
(* Calls on the escrow                                                     *)

CallKept == height' = height /\ calls' \in 0 .. MaxCalls

LEMMA CallStep ==
    ASSUME IInv, Call
    PROVE  CallKept
<1>1. calls \in 0 .. MaxCalls /\ calls < MaxCalls /\ calls' = calls + 1 /\ MaxCalls \in Nat
  BY BlockRewardsAssumption DEF IInv, Call
<1>. QED BY <1>1 DEF Call, CallKept

(* Nothing is paid and nothing more is claimed.                            *)
LEMMA PayingSame ==
    ASSUME Paying, claims' = claims, height' = height,
           UNCHANGED <<supply, annuity, balances, capacity, rateSet>>
    PROVE  Paying'
BY DEF Paying

LEMMA StakeMoves ==
    ASSUME IInv, NEW who \in Accounts, Call, Relocks(escrow, escrow', who, height),
           rewards' = restaked(rewards, who, biases(escrow)[who], biases(escrow')[who]),
           UNCHANGED <<supply, annuity, balances, capacity, rateSet>>
    PROVE  IInv'
<1>1. escrow \in EscrowType /\ biases(escrow) \in Amount /\ PoolKept(rewards, biases(escrow))
  BY KeptTyped DEF IInv
<1>2. /\ VotesCounted(escrow', height) /\ escrow' \in EscrowType
      /\ \A a \in Accounts : a # who => escrow'.user[a] = escrow.user[a]
  BY DEF Relocks, VotesCounted
<1>3. biases(escrow') \in Amount
  BY <1>2, BiasesTyped
<1>4. \A a \in Accounts : a # who => biases(escrow')[a] = biases(escrow)[a]
  BY <1>1, <1>2, BiasesTyped
<1>5. /\ PoolKept(rewards', biases(escrow'))
      /\ Total(earned(rewards'), Accounts) = Total(earned(rewards), Accounts)
  BY <1>1, <1>3, <1>4, FiniteAccounts, StakeChangedEarned
<1>6. claims' = claims
  BY <1>5, ClaimsEarned
<1>7. CallKept
  BY CallStep
<1>8. Paying'
  BY <1>6, <1>7, PayingSame DEF IInv, CallKept
<1>9. biases(escrow)' = biases(escrow')
  BY DEF biases
<1>10. (height \in 0 .. MaxHeight)' /\ VotesCounted(escrow', height')
  BY <1>2, <1>7 DEF IInv, CallKept
<1>. QED BY <1>5, <1>7, <1>8, <1>9, <1>10 DEF IInv, CallKept

LEMMA DepositStep ==
    ASSUME IInv, NEW who \in Accounts, NEW results, Deposit(who, results),
           \A x \in results : Relocks(escrow, x, who, height)
    PROVE  IInv'
<1>1. /\ Call /\ escrow' \in results /\ rewards' \in restake(rewards, escrow', who)
      /\ UNCHANGED <<supply, annuity, balances, capacity, rateSet>>
  BY DEF Deposit
<1>2. Relocks(escrow, escrow', who, height)
  BY <1>1
<1>3. escrow' \in EscrowType /\ balance_at(escrow', who, height) = biases(escrow')[who]
  <2>1. escrow' \in EscrowType /\ value_at(escrow'.user[who], height) = escrow'.user[who].bias
    BY <1>2 DEF Relocks, VotesCounted
  <2>. QED BY <2>1, BiasesTyped DEF balance_at
<1>4. PICK m : m = biases(escrow')[who]
  OBVIOUS
<1>5. m \in Nat
  BY <1>3, <1>4, BiasesTyped DEF Amount
<1>6. PICK p \in R!withdraw_all_stake(rewards, who) :
          rewards' = R!deposit_stake(p, who, to_fixed(m))
  BY <1>1, <1>3, <1>4 DEF restake
<1>7. rewards' = restaked(rewards, who, biases(escrow)[who], m)
  <2>1. biases(escrow) \in Amount /\ PoolKept(rewards, biases(escrow))
    BY KeptTyped DEF IInv
  <2>. QED BY <1>5, <1>6, <2>1, FiniteAccounts, Redeposited
<1>. QED BY <1>1, <1>2, <1>4, <1>7, StakeMoves

LEMMA LockSteps ==
    ASSUME IInv, NEW who \in Accounts, NEW amount \in LockAmounts, NEW h \in Heights,
           CreateLock(who, amount, h) \/ IncreaseAmount(who, amount)
    PROVE  IInv'
<1>1. /\ height \in 0 .. MaxHeight /\ VotesCounted(escrow, height) /\ amount \in Nat
      /\ IsFiniteSet(Accounts)
  BY BlockRewardsAssumption DEF IInv
<1>2. CASE CreateLock(who, amount, h)
  <2>1. \A x \in create_lock(escrow, who, amount, h, free(who), height) :
            Relocks(escrow, x, who, height)
    BY <1>1, CreateLockVotes
  <2>. QED BY <1>2, <2>1, DepositStep DEF CreateLock
<1>3. CASE IncreaseAmount(who, amount)
  <2>1. \A x \in increase_amount(escrow, who, amount, free(who), height) :
            Relocks(escrow, x, who, height)
    BY <1>1, IncreaseAmountVotes
  <2>. QED BY <1>3, <2>1, DepositStep DEF IncreaseAmount
<1>. QED BY <1>2, <1>3

LEMMA UnlockStep ==
    ASSUME IInv, NEW who \in Accounts, NEW h \in Heights, IncreaseUnlockHeight(who, h)
    PROVE  IInv'
<1>1. height \in 0 .. MaxHeight /\ VotesCounted(escrow, height) /\ IsFiniteSet(Accounts)
  BY BlockRewardsAssumption DEF IInv
<1>2. \A x \in increase_unlock_height(escrow, who, h, free(who), height) :
          Relocks(escrow, x, who, height)
  BY <1>1, IncreaseUnlockVotes
<1>. QED BY <1>2, DepositStep DEF IncreaseUnlockHeight

LEMMA UpdateStakeStep ==
    ASSUME IInv, NEW who \in Accounts, UpdateUserStake(who)
    PROVE  IInv'
<1>1. height \in 0 .. MaxHeight /\ VotesCounted(escrow, height) /\ IsFiniteSet(Accounts)
  BY BlockRewardsAssumption DEF IInv
<1>2. \A x \in deposit_for(escrow, who, 0, 0, free(who), height) :
          Relocks(escrow, x, who, height)
  BY <1>1, DepositVotes, ZeroHeight
<1>. QED BY <1>2, DepositStep DEF UpdateUserStake

LEMMA WithdrawStep ==
    ASSUME IInv, NEW who \in Accounts, withdraw(who)
    PROVE  IInv'
<1>1. /\ Call /\ escrow' \in remove_lock(escrow, who, height)
      /\ rewards' \in R!withdraw_all_stake(rewards, who)
      /\ UNCHANGED <<supply, annuity, balances, capacity, rateSet>>
  BY DEF withdraw
<1>2. Relocks(escrow, escrow', who, height) /\ escrow'.user[who].bias = 0
  BY <1>1, FiniteAccounts, RemoveLockVotes DEF IInv
<1>3. biases(escrow')[who] = 0
  BY <1>2, BiasesTyped DEF Relocks, VotesCounted
<1>4. rewards' = restaked(rewards, who, biases(escrow)[who], 0)
  <2>1. biases(escrow) \in Amount /\ PoolKept(rewards, biases(escrow))
    BY KeptTyped DEF IInv
  <2>. QED BY <1>1, <2>1, FiniteAccounts, LeftAlone
<1>. QED BY <1>1, <1>2, <1>3, <1>4, StakeMoves

(* The lines and locks stay: limits, blocks and reserved votes.            *)
LEMMA LinesStay ==
    ASSUME IInv, Call, escrow' \in EscrowType, escrow'.user = escrow.user,
           escrow'.locked = escrow.locked, escrow'.point = escrow.point,
           UNCHANGED <<rewards, supply, annuity, balances, capacity, rateSet>>
    PROVE  IInv'
<1>1. CallKept
  BY CallStep
<1>2. VotesCounted(escrow', height)
  BY VotesSame DEF IInv
<1>3. biases(escrow)' = biases(escrow)
  BY DEF biases
<1>4. claims' = claims
  BY ClaimsEarned
<1>5. Paying'
  BY <1>1, <1>4, PayingSame DEF IInv, CallKept
<1>6. PoolKept(rewards, biases(escrow))'
  BY <1>3 DEF IInv
<1>. QED BY <1>1, <1>2, <1>5, <1>6 DEF IInv, CallKept

LEMMA LimitStep ==
    ASSUME IInv, NEW who \in Accounts, NEW range \in LimitRanges, SetAccountLimit(who, range)
    PROVE  IInv'
<1>1. escrow \in EscrowType /\ range \in Limits
  BY KeptTyped, BlockRewardsAssumption DEF Limits
<1>2. /\ Call /\ escrow' = [escrow EXCEPT !.limits[who] = range]
      /\ UNCHANGED <<rewards, supply, annuity, balances, capacity, rateSet>>
  BY DEF SetAccountLimit
<1>3. /\ escrow' \in EscrowType /\ escrow'.user = escrow.user
      /\ escrow'.locked = escrow.locked /\ escrow'.point = escrow.point
  BY <1>1, <1>2 DEF EscrowType
<1>. QED BY <1>2, <1>3, LinesStay

LEMMA BlockStep ==
    ASSUME IInv, NEW who \in Accounts, SetAccountBlock(who)
    PROVE  IInv'
<1>1. escrow \in EscrowType
  BY KeptTyped
<1>2. /\ Call /\ escrow' = [escrow EXCEPT !.blocks = @ \cup {who}]
      /\ UNCHANGED <<rewards, supply, annuity, balances, capacity, rateSet>>
  BY DEF SetAccountBlock
<1>3. /\ escrow' \in EscrowType /\ escrow'.user = escrow.user
      /\ escrow'.locked = escrow.locked /\ escrow'.point = escrow.point
  BY <1>1, <1>2 DEF EscrowType
<1>. QED BY <1>2, <1>3, LinesStay

LEMMA ReserveStep ==
    ASSUME IInv, NEW who \in Accounts, NEW value \in LockAmounts,
           ReserveVotes(who, value) \/ UnreserveVotes(who, value)
    PROVE  IInv'
<1>1. escrow \in EscrowType /\ value \in Nat
  BY KeptTyped, BlockRewardsAssumption
<1>2. /\ Call /\ UNCHANGED <<rewards, supply, annuity, balances, capacity, rateSet>>
  BY DEF ReserveVotes, UnreserveVotes
<1>3. PICK r : r \in [Accounts -> Nat] /\ escrow' = [escrow EXCEPT !.reserved = r]
  <2>1. escrow.reserved \in [Accounts -> Nat] /\ saturating_sub(escrow.reserved[who], value) \in Nat
    BY <1>1, SaturatingNat DEF EscrowType
  <2>2. CASE ReserveVotes(who, value)
    <3>1. PICK r : r = [escrow.reserved EXCEPT ![who] = @ + value]
      OBVIOUS
    <3>2. r \in [Accounts -> Nat]
      BY <1>1, <2>1, <3>1
    <3>3. escrow' = [escrow EXCEPT !.reserved = r]
      BY <2>2, <3>1 DEF ReserveVotes, reserve, Try
    <3>. QED BY <3>2, <3>3
  <2>3. CASE UnreserveVotes(who, value)
    <3>1. PICK r : r = [escrow.reserved EXCEPT ![who] = saturating_sub(@, value)]
      OBVIOUS
    <3>2. r \in [Accounts -> Nat]
      BY <2>1, <3>1
    <3>3. escrow' = [escrow EXCEPT !.reserved = r]
      BY <2>3, <3>1 DEF UnreserveVotes, unreserve
    <3>. QED BY <3>2, <3>3
  <2>. QED BY <2>2, <2>3
<1>4. /\ escrow' \in EscrowType /\ escrow'.user = escrow.user
      /\ escrow'.locked = escrow.locked /\ escrow'.point = escrow.point
  BY <1>1, <1>3 DEF EscrowType
<1>. QED BY <1>2, <1>4, LinesStay

-----------------------------------------------------------------------------
(* Rates, and payments                                                     *)

LEMMA Quotients ==
    ASSUME NEW x \in Nat, NEW y \in Nat \ {0}, NEW q, q = x \div y
    PROVE  q \in Nat /\ y * q \in Nat /\ y * q <= x
BY SMT

(* The rewards of an emission period at a new rate are in the account.     *)
LEMMA RateFits ==
    ASSUME NEW balance \in Nat, NEW reward, reward = reward_per_block(balance)
    PROVE  /\ reward \in Nat /\ (EmissionPeriod - 1) * reward \in Nat
           /\ to_fixed(reward) + to_fixed((EmissionPeriod - 1) * reward) <= to_fixed(balance)
<1>1. EmissionPeriod \in Nat \ {0}
  BY BlockRewardsAssumption
<1>2. reward \in Nat /\ EmissionPeriod * reward \in Nat /\ EmissionPeriod * reward <= balance
  BY <1>1, Quotients DEF reward_per_block
<1>3. PICK k, y : k = EmissionPeriod - 1 /\ y = k * reward
  OBVIOUS
<1>4. k \in Nat /\ y \in Nat /\ EmissionPeriod = k + 1
  BY <1>1, <1>2, <1>3, ProductNat
<1>5. (k + 1) * reward = reward + y
  BY <1>2, <1>3, <1>4, SMT
<1>6. reward + y <= balance /\ reward + y \in Nat
  BY <1>2, <1>4, <1>5
<1>7. to_fixed(reward + y) <= to_fixed(balance) /\ to_fixed(reward + y) = to_fixed(reward) + to_fixed(y)
  BY <1>2, <1>4, <1>6, FixedSums
<1>. QED BY <1>2, <1>3, <1>4, <1>7

LEMMA NewRate ==
    ASSUME NEW h \in Nat, NEW n \in Nat, NEW m \in Nat, NEW balance \in Nat, NEW reward,
           reward = reward_per_block(balance), m <= n + to_fixed(reward),
           NEW rs, rs.at = h, rs.claims = n
    PROVE  Covered(h, m, reward, balance, rs)
<1>1. EmissionPeriod \in Nat \ {0}
  BY BlockRewardsAssumption
<1>2. rs.at + EmissionPeriod - 1 - h = EmissionPeriod - 1
  BY <1>1
<1>3. PICK y : y = (EmissionPeriod - 1) * reward
  OBVIOUS
<1>4. y \in Nat /\ reward \in Nat /\ to_fixed(reward) + to_fixed(y) <= to_fixed(balance)
  BY <1>3, RateFits
<1>5. to_fixed(y) \in Nat /\ to_fixed(reward) \in Nat /\ to_fixed(balance) \in Nat
  BY <1>4, Fixed
<1>6. m + to_fixed(y) <= to_fixed(balance) + n
  BY <1>4, <1>5
<1>. QED BY <1>2, <1>3, <1>6 DEF Covered

LEMMA UpdateStep ==
    ASSUME IInv, update_rewards
    PROVE  IInv'
<1>1. PICK reward : reward = reward_per_block(balances.escrow_annuity)
  OBVIOUS
<1>2. /\ Call /\ annuity' = [annuity EXCEPT !.escrow = reward]
      /\ rateSet' = [at |-> height, claims |-> claims]
      /\ UNCHANGED <<escrow, rewards, supply, balances, capacity>>
  BY <1>1 DEF update_rewards
<1>3. CallKept
  BY <1>2, CallStep
<1>4. /\ annuity \in AnnuityType /\ balances \in BalancesType /\ balances.escrow_annuity \in Nat
      /\ height \in Nat /\ claims \in Nat
  BY KeptTyped DEF IInv, Paying, BalancesType
<1>5. reward \in Nat /\ to_fixed(reward) \in Nat
  BY <1>1, <1>4, RateFits, Fixed
<1>6. annuity' \in AnnuityType /\ annuity'.escrow = reward
  BY <1>2, <1>4, <1>5 DEF AnnuityType
<1>7. rateSet' \in RateType /\ rateSet'.at = height /\ rateSet'.claims = claims
  BY <1>2, <1>4 DEF RateType
<1>8. claims' = claims /\ claims <= claims + to_fixed(reward)
  BY <1>2, <1>4, <1>5, ClaimsEarned
<1>9. Covered(height, claims, reward, balances.escrow_annuity, rateSet')
  BY <1>1, <1>4, <1>7, <1>8, NewRate
<1>10. Paying'
  <2>1. height' = height /\ balances' = balances /\ capacity' = capacity /\ supply' = supply
    BY <1>2, <1>3 DEF CallKept
  <2>2. Covered(height', claims', annuity'.escrow, balances'.escrow_annuity, rateSet')
    BY <1>6, <1>8, <1>9, <2>1
  <2>3. rateSet'.at <= height'
    BY <1>4, <1>7, <2>1
  <2>4. supply \in SupplyType /\ capacity \in Nat /\ capacity <= balances.fee
    BY DEF IInv, Paying
  <2>. QED BY <1>4, <1>6, <1>7, <2>1, <2>2, <2>3, <2>4 DEF Paying
<1>. QED BY <1>2, <1>3, <1>10 DEF IInv, CallKept

LEMMA SettingsStep ==
    ASSUME IInv,
           \/ \E v \in RewardsPerWrapped : set_reward_per_wrapped(v)
           \/ \E h \in StartHeights, i \in Inflations : set_start_height_and_inflation(h, i)
    PROVE  IInv'
<1>1. Call
  BY DEF set_reward_per_wrapped, set_start_height_and_inflation
<1>2. /\ UNCHANGED <<escrow, rewards, balances, capacity, rateSet>>
      /\ annuity' \in AnnuityType /\ annuity'.escrow = annuity.escrow /\ supply' \in SupplyType
  <2>1. annuity \in AnnuityType /\ supply \in SupplyType
    BY DEF IInv, Paying
  <2>2. ASSUME NEW v \in RewardsPerWrapped, set_reward_per_wrapped(v)
        PROVE  <1>2!2 /\ UNCHANGED <<escrow, rewards, balances, capacity, rateSet>>
    <3>1. v \in Nat
      BY BlockRewardsAssumption
    <3>2. Some(v) \in [some : {TRUE}, value : Nat]
      BY <3>1 DEF Some
    <3>. QED BY <2>1, <2>2, <3>2 DEF set_reward_per_wrapped, AnnuityType
  <2>3. ASSUME NEW h \in StartHeights, NEW i \in Inflations, set_start_height_and_inflation(h, i)
        PROVE  <1>2!2 /\ UNCHANGED <<escrow, rewards, balances, capacity, rateSet>>
    <3>1. h \in Nat /\ i \in Nat
      BY BlockRewardsAssumption
    <3>. QED BY <2>1, <2>3, <3>1 DEF set_start_height_and_inflation, SupplyType
  <2>. QED BY <2>2, <2>3
<1>3. CallKept
  BY <1>1, CallStep
<1>4. claims' = claims
  BY <1>2, ClaimsEarned
<1>5. Paying'
  BY <1>2, <1>3, <1>4 DEF IInv, Paying, CallKept
<1>. QED BY <1>2, <1>3, <1>5 DEF IInv, CallKept

LEMMA WithdrawRewardsStep ==
    ASSUME IInv, NEW who \in Accounts, withdraw_rewards(who)
    PROVE  IInv'
<1>1. PICK v : v = R!compute_reward(rewards, who)
  OBVIOUS
<1>2. /\ Call /\ rewards' \in R!withdraw_reward(rewards, who) /\ v <= balances.escrow_annuity
      /\ balances' = [balances EXCEPT !.escrow_annuity = @ - v, !.user[who] = @ + v]
      /\ UNCHANGED <<escrow, supply, annuity, capacity, rateSet>>
  BY <1>1 DEF withdraw_rewards
<1>3. CallKept
  BY <1>2, CallStep
<1>4. /\ biases(escrow) \in Amount /\ PoolKept(rewards, biases(escrow))
      /\ claims \in Nat
  BY KeptTyped DEF IInv
<1>5. v \in Nat /\ to_fixed(v) \in Nat
  BY <1>1, <1>4, ComputeReward, Fixed
<1>6. PoolKept(rewards', biases(escrow)) /\ claims' + to_fixed(v) <= claims /\ claims' \in Nat
  BY <1>1, <1>2, <1>4, FiniteAccounts, Paid, ClaimsEarned, EarnedNat
<1>7. PICK x, u : x = balances.escrow_annuity - v /\ u = [balances.user EXCEPT ![who] = @ + v]
  OBVIOUS
<1>8. balances \in BalancesType /\ balances.escrow_annuity \in Nat /\ balances.user \in [Accounts -> Nat]
  BY DEF IInv, Paying, BalancesType
<1>9. x \in Nat /\ u \in [Accounts -> Nat] /\ balances' = [balances EXCEPT !.escrow_annuity = x, !.user = u]
  BY <1>2, <1>5, <1>7, <1>8
<1>10. balances' \in BalancesType /\ balances'.escrow_annuity = x /\ balances'.fee = balances.fee
  BY <1>8, <1>9 DEF BalancesType
<1>11. Covered(height, claims', annuity.escrow, x, rateSet)
  <2>1. SUFFICES ASSUME height < rateSet.at + EmissionPeriod
                 PROVE  claims' + to_fixed((rateSet.at + EmissionPeriod - 1 - height) * annuity.escrow)
                          <= to_fixed(x) + rateSet.claims
    BY DEF Covered
  <2>2. PICK y : y = to_fixed((rateSet.at + EmissionPeriod - 1 - height) * annuity.escrow)
    OBVIOUS
  <2>3. y \in Int
    <3>1. /\ rateSet.at \in Nat /\ height \in Nat /\ EmissionPeriod \in Nat /\ annuity.escrow \in Nat
          /\ ONE \in Nat
      BY KeptTyped, BlockRewardsAssumption, ONEAssumption DEF IInv, Paying, RateType, AnnuityType
    <3>2. PICK k, z : k = rateSet.at + EmissionPeriod - 1 - height /\ z = k * annuity.escrow
      OBVIOUS
    <3>3. k \in Int /\ z \in Int
      BY <3>1, <3>2, SMT
    <3>4. z * ONE \in Int
      BY <3>1, <3>3, SMT
    <3>. QED BY <2>2, <3>2, <3>4 DEF to_fixed
  <2>4. claims + y <= to_fixed(balances.escrow_annuity) + rateSet.claims /\ rateSet.claims \in Nat
    BY <2>1, <2>2 DEF IInv, Paying, Covered, RateType
  <2>5. to_fixed(x) = to_fixed(balances.escrow_annuity) - to_fixed(v)
    BY <1>2, <1>5, <1>7, <1>8, FixedSums
  <2>6. to_fixed(balances.escrow_annuity) \in Nat
    BY <1>8, Fixed
  <2>7. PICK B, C, c : B = to_fixed(balances.escrow_annuity) /\ C = claims' /\ c = rateSet.claims
    OBVIOUS
  <2>8. C + y <= (B - to_fixed(v)) + c
    BY <1>4, <1>5, <1>6, <2>3, <2>4, <2>6, <2>7
  <2>. QED BY <2>2, <2>5, <2>7, <2>8
<1>12. Paying'
  BY <1>2, <1>3, <1>10, <1>11 DEF IInv, Paying, CallKept
<1>. QED BY <1>2, <1>3, <1>6, <1>12 DEF IInv, CallKept

-----------------------------------------------------------------------------
(* The beginning of a block                                                *)

payTo(x, account, value) ==
    IF value > x.supply THEN x
    ELSE [x EXCEPT !.supply = @ - value, ![account] = @ + value]

LEMMA PayTo ==
    ASSUME NEW x \in BalancesType, NEW value \in Nat,
           NEW account \in {"vault_annuity", "escrow_annuity", "treasury"}
    PROVE  payTo(x, account, value) \in BalancesType /\ payTo(x, account, value).fee = x.fee
<1>1. CASE value > x.supply
  BY <1>1 DEF payTo
<1>2. CASE ~ (value > x.supply)
  <2>1. PICK s, t : s = x.supply - value /\ t = x[account] + value
    OBVIOUS
  <2>2. s \in Nat /\ t \in Nat
    <3>1. x.supply \in Nat /\ x["vault_annuity"] \in Nat /\ x["escrow_annuity"] \in Nat
          /\ x["treasury"] \in Nat
      BY DEF BalancesType
    <3>2. x[account] \in Nat
      BY <3>1
    <3>. QED BY <1>2, <2>1, <3>1, <3>2
  <2>3. CASE account = "vault_annuity"
    <3>1. payTo(x, account, value) = [x EXCEPT !.supply = s, !.vault_annuity = t]
      BY <1>2, <2>1, <2>3 DEF payTo, BalancesType
    <3>. QED BY <2>2, <3>1 DEF BalancesType
  <2>4. CASE account = "escrow_annuity"
    <3>1. payTo(x, account, value) = [x EXCEPT !.supply = s, !.escrow_annuity = t]
      BY <1>2, <2>1, <2>4 DEF payTo, BalancesType
    <3>. QED BY <2>2, <3>1 DEF BalancesType
  <2>5. CASE account = "treasury"
    <3>1. payTo(x, account, value) = [x EXCEPT !.supply = s, !.treasury = t]
      BY <1>2, <2>1, <2>5 DEF payTo, BalancesType
    <3>. QED BY <2>2, <3>1 DEF BalancesType
  <2>. QED BY <2>3, <2>4, <2>5
<1>. QED BY <1>1, <1>2

LEMMA ShareNat ==
    ASSUME NEW part \in Nat, NEW amount \in Nat
    PROVE  share(part, amount) \in Nat
<1>1. DIV \in Nat \ {0}
  BY DIVAssumption
<1>2. PICK n : n = 2 * amount * part + DIV - 1
  OBVIOUS
<1>3. n \in Nat
  <2>1. PICK m : m = 2 * amount
    OBVIOUS
  <2>2. m \in Nat /\ m * part \in Nat
    BY <2>1, ProductNat
  <2>. QED BY <1>1, <1>2, <2>1, <2>2
<1>4. n \div (2 * DIV) \in Nat
  BY <1>1, <1>3, QuotientNat
<1>. QED BY <1>2, <1>4 DEF share

LEMMA Dealt ==
    ASSUME NEW b \in BalancesType, NEW amount \in Nat
    PROVE  /\ deal_with_rewards(b, amount) \in BalancesType
           /\ deal_with_rewards(b, amount).fee = b.fee
<1>1. PICK v, e, t : /\ v = share(VaultShare, amount) /\ e = share(EscrowShare, amount)
                     /\ t = saturating_sub(saturating_sub(amount, v), e)
  OBVIOUS
<1>2. v \in Nat /\ e \in Nat /\ t \in Nat
  BY <1>1, BlockRewardsAssumption, ShareNat, SaturatingNat
<1>3. PICK x, y, z : /\ x = payTo(b, "vault_annuity", v) /\ y = payTo(x, "escrow_annuity", e)
                     /\ z = payTo(y, "treasury", t)
  OBVIOUS
<1>4. deal_with_rewards(b, amount) = z
  BY <1>1, <1>3, Zenon DEF deal_with_rewards, payTo
<1>5. x \in BalancesType /\ x.fee = b.fee
  BY <1>2, <1>3, PayTo
<1>6. y \in BalancesType /\ y.fee = x.fee
  BY <1>2, <1>3, <1>5, PayTo
<1>7. z \in BalancesType /\ z.fee = y.fee
  BY <1>2, <1>3, <1>6, PayTo
<1>. QED BY <1>4, <1>5, <1>6, <1>7

(* New money leaves the types and the fee account, and sets a new rate.    *)
LEMMA Inflated ==
    ASSUME Paying, NEW now \in Nat, NEW i, i = inflated(now)
    PROVE  /\ i.balances \in BalancesType /\ i.annuity \in AnnuityType /\ i.supply \in SupplyType
           /\ i.balances.fee = balances.fee
           /\ supply.start = now => i.annuity.escrow = reward_per_block(i.balances.escrow_annuity)
           /\ supply.start # now => i.balances = balances /\ i.annuity = annuity
<1>1. supply \in SupplyType /\ annuity \in AnnuityType /\ balances \in BalancesType
  BY DEF Paying
<1>2. CASE supply.start # now
  <2>1. i = [balances |-> balances, annuity |-> annuity, supply |-> supply]
    BY <1>2 DEF inflated
  <2>. QED BY <1>1, <1>2, <2>1
<1>3. CASE supply.start = now
  <2>1. PICK minted : minted = checked_mul(total_issuance, supply.inflation)
    OBVIOUS
  <2>2. minted \in Nat
    <3>1. total_issuance \in Nat
      <4>1. /\ balances.user \in [Accounts -> Nat] /\ balances.supply \in Nat
            /\ balances.escrow_annuity \in Nat /\ balances.vault_annuity \in Nat
            /\ balances.treasury \in Nat /\ balances.fee \in Nat
        BY <1>1 DEF BalancesType
      <4>2. Total(balances.user, Accounts) \in Nat
        BY <4>1, FiniteAccounts, TotalNat
      <4>. QED BY <4>1, <4>2 DEF total_issuance
    <3>2. supply.inflation \in Nat /\ DIV \in Nat \ {0}
      BY <1>1, DIVAssumption DEF SupplyType
    <3>3. total_issuance * supply.inflation \in Nat
      BY <3>1, <3>2, ProductNat
    <3>. QED BY <2>1, <3>2, <3>3, QuotientNat DEF checked_mul
  <2>3. PICK s, c : s = balances.supply + minted /\ c = [balances EXCEPT !.supply = s]
    OBVIOUS
  <2>4. c \in BalancesType /\ c.fee = balances.fee
    <3>1. s \in Nat
      BY <1>1, <2>2, <2>3 DEF BalancesType
    <3>. QED BY <1>1, <2>3, <3>1 DEF BalancesType
  <2>5. PICK b : b = deal_with_rewards(c, minted)
    OBVIOUS
  <2>6. b \in BalancesType /\ b.fee = balances.fee
    BY <2>2, <2>4, <2>5, Dealt
  <2>7. PICK v, e, n : /\ v = reward_per_block(b.vault_annuity) /\ e = reward_per_block(b.escrow_annuity)
                       /\ n = now + InflationPeriod
    OBVIOUS
  <2>8. v \in Nat /\ e \in Nat /\ n \in Nat
    <3>1. b.vault_annuity \in Nat /\ b.escrow_annuity \in Nat
      BY <2>6 DEF BalancesType
    <3>2. InflationPeriod \in Nat
      BY BlockRewardsAssumption
    <3>. QED BY <2>7, <3>1, <3>2, RateFits
  <2>9. i = [balances |-> b, annuity |-> [annuity EXCEPT !.vault = v, !.escrow = e],
             supply |-> [supply EXCEPT !.start = n]]
    <3>1. c = [balances EXCEPT !.supply = @ + minted]
      BY <2>3
    <3>. QED BY <1>3, <2>1, <2>5, <2>7, <3>1, Zenon DEF inflated
  <2>10. PICK an, su : an = [annuity EXCEPT !.vault = v, !.escrow = e] /\ su = [supply EXCEPT !.start = n]
    OBVIOUS
  <2>11. an \in AnnuityType /\ an.escrow = e /\ su \in SupplyType
    BY <1>1, <2>8, <2>10 DEF AnnuityType, SupplyType
  <2>12. i.balances = b /\ i.annuity = an /\ i.supply = su
    BY <2>9, <2>10
  <2>. QED BY <1>3, <2>6, <2>7, <2>11, <2>12
<1>. QED BY <1>2, <1>3

LEMMA VaultRewarded ==
    ASSUME NEW b \in BalancesType, NEW amount \in Nat, NEW has \in BOOLEAN, capacity \in Nat,
           capacity <= b.fee, NEW v, v = vault_block_reward(b, amount, has)
    PROVE  /\ v.balances \in BalancesType /\ v.balances.escrow_annuity = b.escrow_annuity
           /\ v.capacity \in Nat /\ v.capacity <= v.balances.fee
<1>1. CASE amount > b.vault_annuity
  <2>1. v = [balances |-> b, capacity |-> capacity]
    BY <1>1 DEF vault_block_reward
  <2>. QED BY <2>1
<1>2. CASE ~ (amount > b.vault_annuity)
  <2>1. PICK x, f, c : /\ x = b.vault_annuity - amount /\ f = b.fee + amount
                       /\ c = capacity + (IF has THEN amount ELSE 0)
    OBVIOUS
  <2>2. x \in Nat /\ f \in Nat /\ c \in Nat /\ c <= f
    <3>1. b.vault_annuity \in Nat /\ b.fee \in Nat
      BY DEF BalancesType
    <3>2. has \/ ~ has
      OBVIOUS
    <3>. QED BY <1>2, <2>1, <3>1, <3>2
  <2>3. PICK w : w = [b EXCEPT !.vault_annuity = x, !.fee = f]
    OBVIOUS
  <2>4. w \in BalancesType /\ w.escrow_annuity = b.escrow_annuity /\ w.fee = f
    BY <2>2, <2>3 DEF BalancesType
  <2>5. v = [balances |-> w, capacity |-> c]
    BY <1>2, <2>1, <2>3 DEF vault_block_reward
  <2>. QED BY <2>2, <2>4, <2>5
<1>. QED BY <1>1, <1>2

LEMMA MinRewardNat ==
    ASSUME NEW an \in AnnuityType, NEW wrapped \in Nat, NEW r, r = min_reward_per_block(an, wrapped)
    PROVE  r \in Nat /\ r <= an.escrow /\ an.escrow \in Nat
<1>1. an.escrow \in Nat
  BY DEF AnnuityType
<1>2. CASE an.per_wrapped.some
  <2>1. an.per_wrapped.value \in Nat
    <3>1. PICK w : w = an.per_wrapped
      OBVIOUS
    <3>2. w \in {None} \cup [some : {TRUE}, value : Nat] /\ w.some
      BY <1>2, <3>1 DEF AnnuityType
    <3>3. None.some = FALSE
      BY DEF None
    <3>4. w \in [some : {TRUE}, value : Nat]
      BY <3>2, <3>3
    <3>. QED BY <3>1, <3>4
  <2>2. an.per_wrapped.value * wrapped \in Nat
    BY <2>1, ProductNat
  <2>3. PICK z : z = an.per_wrapped.value * wrapped
    OBVIOUS
  <2>4. r = min(an.escrow, z)
    BY <1>2, <2>3 DEF min_reward_per_block
  <2>. QED BY <1>1, <2>2, <2>3, <2>4 DEF min
<1>3. CASE ~ an.per_wrapped.some
  BY <1>1, <1>3 DEF min_reward_per_block
<1>. QED BY <1>2, <1>3

(* One block less is left to pay for.                                      *)
LEMMA BlockPaid ==
    ASSUME NEW h \in Nat, NEW n \in Nat, NEW m \in Nat, NEW balance \in Nat, NEW reward \in Nat,
           NEW rs \in RateType, Covered(h, n, reward, balance, rs), m <= n + to_fixed(reward)
    PROVE  Covered(h + 1, m, reward, balance, rs)
<1>1. rs.at \in Nat /\ rs.claims \in Nat /\ EmissionPeriod \in Nat
  BY BlockRewardsAssumption DEF RateType
<1>2. SUFFICES ASSUME h + 1 < rs.at + EmissionPeriod
               PROVE  m + to_fixed((rs.at + EmissionPeriod - 1 - (h + 1)) * reward)
                        <= to_fixed(balance) + rs.claims
  BY DEF Covered
<1>3. PICK k, y : k = rs.at + EmissionPeriod - 1 - (h + 1) /\ y = k * reward
  OBVIOUS
<1>4. k \in Nat /\ rs.at + EmissionPeriod - 1 - h = k + 1 /\ h < rs.at + EmissionPeriod
  BY <1>1, <1>2, <1>3
<1>5. y \in Nat /\ (k + 1) * reward = y + reward
  <2>1. (k + 1) * reward = k * reward + reward
    BY <1>4, SMT
  <2>. QED BY <1>3, <1>4, <2>1, ProductNat
<1>6. n + to_fixed(y + reward) <= to_fixed(balance) + rs.claims
  BY <1>4, <1>5 DEF Covered
<1>7. to_fixed(y + reward) = to_fixed(y) + to_fixed(reward) /\ to_fixed(y) \in Nat
      /\ to_fixed(reward) \in Nat /\ to_fixed(balance) \in Nat
  BY <1>5, Fixed, FixedSums
<1>8. m + to_fixed(y) <= to_fixed(balance) + rs.claims
  BY <1>1, <1>6, <1>7
<1>. QED BY <1>3, <1>8

(* What a block's reward does to the pool: it may be refused.              *)
LEMMA PoolRewarded ==
    ASSUME NEW b \in Amount, NEW pool, PoolKept(pool, b), NEW r \in Nat, NEW q, NEW D,
           D = R!distribute_reward(pool, to_fixed(r)),
           q = IF D = {} THEN pool ELSE CHOOSE p \in D : TRUE
    PROVE  /\ PoolKept(q, b)
           /\ Total(earned(q), Accounts) <= Total(earned(pool), Accounts) + to_fixed(r)
           /\ Total(earned(q), Accounts) \in Nat
<1>1. CASE D = {}
  <2>1. q = pool
    BY <1>1
  <2>2. Total(earned(pool), Accounts) \in Nat /\ to_fixed(r) \in Nat
    BY FiniteAccounts, EarnedNat, Fixed
  <2>3. PICK t, u : t = Total(earned(pool), Accounts) /\ u = to_fixed(r)
    OBVIOUS
  <2>4. t <= t + u
    BY <2>2, <2>3
  <2>. QED BY <2>1, <2>2, <2>3, <2>4, Zenon
<1>2. CASE D # {}
  <2>1. q \in D
    BY <1>2
  <2>2. /\ PoolKept(q, b)
        /\ Total(earned(q), Accounts) <= Total(earned(pool), Accounts) + to_fixed(r)
    BY <2>1, FiniteAccounts, Distributed
  <2>. QED BY <2>2, FiniteAccounts, EarnedNat
<1>. QED BY <1>1, <1>2

LEMMA InitializeStep ==
    ASSUME IInv, NEW wrapped \in WrappedSupplies, NEW has \in BOOLEAN, on_initialize(wrapped, has)
    PROVE  IInv'
<1>1. PICK now, i, r, v, D :
          /\ now = height + 1 /\ i = inflated(now) /\ r = min_reward_per_block(i.annuity, wrapped)
          /\ v = vault_block_reward(i.balances, i.annuity.vault, has)
          /\ D = R!distribute_reward(rewards, to_fixed(r))
  OBVIOUS
<1>2. /\ height < MaxHeight /\ height' = now
      /\ supply' = i.supply /\ annuity' = i.annuity
      /\ rewards' = IF D = {} THEN rewards ELSE CHOOSE p \in D : TRUE
      /\ balances' = v.balances /\ capacity' = v.capacity
      /\ rateSet' = IF supply.start = now THEN [at |-> now, claims |-> claims] ELSE rateSet
      /\ UNCHANGED <<escrow, calls>>
  BY <1>1 DEF on_initialize
<1>3. /\ height \in 0 .. MaxHeight /\ calls \in 0 .. MaxCalls /\ VotesCounted(escrow, height)
      /\ PoolKept(rewards, biases(escrow)) /\ Paying /\ MaxHeight \in Nat /\ wrapped \in Nat
      /\ capacity \in Nat /\ capacity <= balances.fee /\ rateSet \in RateType
      /\ rateSet.at <= height
  BY EscrowAssumption, BlockRewardsAssumption DEF IInv, Paying
<1>4. biases(escrow) \in Amount /\ claims \in Nat /\ height \in Nat
  BY KeptTyped
<1>5. now \in Nat /\ now \in 0 .. MaxHeight
  BY <1>1, <1>2, <1>3, <1>4
<1>6. /\ i.balances \in BalancesType /\ i.annuity \in AnnuityType /\ i.supply \in SupplyType
      /\ i.balances.fee = balances.fee
      /\ supply.start = now => i.annuity.escrow = reward_per_block(i.balances.escrow_annuity)
      /\ supply.start # now => i.balances = balances /\ i.annuity = annuity
  BY <1>1, <1>3, <1>5, Inflated
<1>7. r \in Nat /\ r <= i.annuity.escrow /\ i.annuity.escrow \in Nat
  BY <1>1, <1>3, <1>6, MinRewardNat
<1>8. /\ v.balances \in BalancesType /\ v.balances.escrow_annuity = i.balances.escrow_annuity
      /\ v.capacity \in Nat /\ v.capacity <= v.balances.fee
  <2>1. i.annuity.vault \in Nat /\ capacity <= i.balances.fee
    BY <1>3, <1>6 DEF AnnuityType
  <2>. QED BY <1>1, <1>3, <1>6, <2>1, VaultRewarded
<1>9. PoolKept(rewards', biases(escrow)) /\ claims' <= claims + to_fixed(r) /\ claims' \in Nat
  <2>1. /\ PoolKept(rewards', biases(escrow))
        /\ Total(earned(rewards'), Accounts) <= Total(earned(rewards), Accounts) + to_fixed(r)
        /\ Total(earned(rewards'), Accounts) \in Nat
    BY <1>1, <1>2, <1>3, <1>4, <1>7, PoolRewarded
  <2>. QED BY <2>1, ClaimsEarned
<1>10. PICK reward, m, balance : reward = i.annuity.escrow /\ m = claims'
                                 /\ balance = i.balances.escrow_annuity
  OBVIOUS
<1>11. reward \in Nat /\ m \in Nat /\ balance \in Nat /\ m <= claims + to_fixed(reward)
  <2>1. to_fixed(r) <= to_fixed(reward) /\ to_fixed(r) \in Nat /\ to_fixed(reward) \in Nat
    BY <1>7, <1>10, Fixed, FixedSums
  <2>2. balance \in Nat
    BY <1>6, <1>10 DEF BalancesType
  <2>. QED BY <1>4, <1>7, <1>9, <1>10, <2>1, <2>2
<1>12. rateSet' \in RateType /\ rateSet'.at <= now /\ Covered(now, m, reward, balance, rateSet')
  <2>1. CASE supply.start = now
    <3>1. rateSet' = [at |-> now, claims |-> claims]
      BY <1>2, <2>1
    <3>2. rateSet' \in RateType /\ rateSet'.at = now /\ rateSet'.claims = claims
      BY <1>4, <1>5, <3>1 DEF RateType
    <3>3. reward = reward_per_block(balance)
      BY <1>6, <1>10, <2>1
    <3>4. Covered(now, m, reward, balance, rateSet')
      BY <1>4, <1>5, <1>11, <3>2, <3>3, NewRate
    <3>. QED BY <1>5, <3>2, <3>4
  <2>2. CASE supply.start # now
    <3>1. rateSet' = rateSet /\ reward = annuity.escrow /\ balance = balances.escrow_annuity
      BY <1>2, <1>6, <1>10, <2>2
    <3>2. Covered(height, claims, reward, balance, rateSet)
      BY <1>3, <3>1 DEF Paying
    <3>3. Covered(height + 1, m, reward, balance, rateSet)
      BY <1>3, <1>4, <1>11, <3>2, BlockPaid
    <3>4. rateSet.at <= now
      BY <1>1, <1>3, <1>4 DEF RateType
    <3>. QED BY <1>1, <1>3, <3>1, <3>3, <3>4
  <2>. QED BY <2>1, <2>2
<1>13. Paying'
  <2>1. /\ supply' \in SupplyType /\ annuity' \in AnnuityType /\ balances' \in BalancesType
        /\ capacity' \in Nat /\ capacity' <= balances'.fee
    BY <1>2, <1>6, <1>8
  <2>2. Covered(height', claims', annuity'.escrow, balances'.escrow_annuity, rateSet')
    BY <1>2, <1>8, <1>10, <1>12
  <2>. QED BY <1>2, <1>12, <2>1, <2>2 DEF Paying
<1>14. VotesCounted(escrow', height')
  <2>1. VotesCounted(escrow, height + 1)
    BY <1>3, <1>4, FiniteAccounts, VotesDecay
  <2>. QED BY <1>1, <1>2, <2>1
<1>15. PoolKept(rewards', biases(escrow'))
  BY <1>2, <1>9 DEF biases
<1>. QED BY <1>2, <1>3, <1>5, <1>13, <1>14, <1>15 DEF IInv

LEMMA NextHolds == IInv /\ [Next]_vars => IInv'
<1>. SUFFICES ASSUME IInv, [Next]_vars PROVE IInv'
  OBVIOUS
<1>1. CASE \E w \in WrappedSupplies, s \in BOOLEAN : on_initialize(w, s)
  BY <1>1, InitializeStep
<1>2. CASE \/ \E who \in Accounts, a \in LockAmounts, h \in Heights : CreateLock(who, a, h)
           \/ \E who \in Accounts, a \in LockAmounts : IncreaseAmount(who, a)
  BY <1>2, LockSteps, ZeroHeight
<1>3. CASE \E who \in Accounts, h \in Heights : IncreaseUnlockHeight(who, h)
  BY <1>3, UnlockStep
<1>4. CASE \E who \in Accounts : UpdateUserStake(who)
  BY <1>4, UpdateStakeStep
<1>5. CASE \E who \in Accounts : withdraw(who)
  BY <1>5, WithdrawStep
<1>6. CASE \/ \E who \in Accounts, r \in LimitRanges : SetAccountLimit(who, r)
           \/ \E who \in Accounts : SetAccountBlock(who)
  BY <1>6, LimitStep, BlockStep
<1>7. CASE \/ \E who \in Accounts, v \in LockAmounts : ReserveVotes(who, v)
           \/ \E who \in Accounts, v \in LockAmounts : UnreserveVotes(who, v)
  BY <1>7, ReserveStep
<1>8. CASE \E who \in Accounts : withdraw_rewards(who)
  BY <1>8, WithdrawRewardsStep
<1>9. CASE update_rewards
  BY <1>9, UpdateStep
<1>10. CASE \/ \E v \in RewardsPerWrapped : set_reward_per_wrapped(v)
            \/ \E h \in StartHeights, i \in Inflations : set_start_height_and_inflation(h, i)
  BY <1>10, SettingsStep
<1>11. CASE UNCHANGED vars
  <2>1. UNCHANGED <<height, escrow, rewards, supply, annuity, balances, capacity, rateSet, calls>>
    BY <1>11 DEF vars
  <2>2. claims' = claims
    BY <2>1, ClaimsEarned
  <2>3. Paying'
    BY <2>1, <2>2, PayingSame DEF IInv
  <2>. QED BY <2>1, <2>3 DEF IInv, biases
<1>. QED BY <1>1, <1>2, <1>3, <1>4, <1>5, <1>6, <1>7, <1>8, <1>9, <1>10, <1>11 DEF Next

-----------------------------------------------------------------------------
(* What the invariant says                                                 *)

LEMMA VotesHold == IInv => SupplyAtMostVotes
<1>. SUFFICES ASSUME IInv PROVE SupplyAtMostVotes
  OBVIOUS
<1>1. total_supply(escrow, height) <= Total(votesAt(escrow, height), Accounts)
  BY FiniteAccounts, SupplyBelowVotes DEF IInv
<1>2. votesAt(escrow, height) = [a \in Accounts |-> balance_at(escrow, a, height)]
  BY DEF votesAt, balance_at
<1>. QED BY <1>1, <1>2 DEF SupplyAtMostVotes

LEMMA TypesHold == IInv => TypeOK
<1>. SUFFICES ASSUME IInv PROVE TypeOK
  OBVIOUS
<1>1. height \in 0 .. MaxHeight /\ calls \in 0 .. MaxCalls /\ rewards.total \in Nat
  BY DEF IInv, PoolKept, PoolType
<1>2. \A a \in Accounts : /\ escrow.locked[a].amount \in Nat /\ escrow.locked[a].end \in Heights
                          /\ escrow.reserved[a] \in Nat
  <2>1. escrow \in EscrowType /\ \A a \in Accounts : escrow.locked[a].end \in Heights
    BY DEF IInv, VotesCounted, LineKept
  <2>. QED BY <2>1 DEF EscrowType, LockType
<1>3. balances \in BalancesType
  BY DEF IInv, Paying
<1>4. \A x \in {"supply", "escrow_annuity", "vault_annuity", "treasury", "fee"} : balances[x] \in Nat
  BY <1>3 DEF BalancesType
<1>5. \A a \in Accounts : balances.user[a] \in Nat
  BY <1>3 DEF BalancesType
<1>. QED BY <1>1, <1>2, <1>4, <1>5 DEF TypeOK

LEMMA CoverHolds == IInv => EscrowRewardsCovered
<1>. SUFFICES ASSUME IInv, height < rateSet.at + EmissionPeriod
              PROVE  to_fixed(owed) <= to_fixed(balances.escrow_annuity) + rateSet.claims
  BY DEF EscrowRewardsCovered
<1>1. /\ biases(escrow) \in Amount /\ PoolKept(rewards, biases(escrow)) /\ height \in Nat
      /\ claims \in Nat /\ rateSet.at \in Nat /\ rateSet.claims \in Nat /\ annuity.escrow \in Nat
      /\ balances.escrow_annuity \in Nat /\ EmissionPeriod \in Nat
  BY KeptTyped, BlockRewardsAssumption DEF IInv, Paying, RateType, AnnuityType, BalancesType
<1>2. owed \in Nat /\ to_fixed(owed) <= claims
  BY <1>1, FiniteAccounts, OwedBelow, ClaimsEarned DEF owed
<1>3. PICK k, y : k = rateSet.at + EmissionPeriod - 1 - height /\ y = k * annuity.escrow
  OBVIOUS
<1>4. k \in Nat
  BY <1>1, <1>3
<1>5. y \in Nat /\ to_fixed(y) \in Nat
  BY <1>1, <1>3, <1>4, ProductNat, Fixed
<1>6. claims + to_fixed(y) <= to_fixed(balances.escrow_annuity) + rateSet.claims
  BY <1>3 DEF IInv, Paying, Covered
<1>7. to_fixed(balances.escrow_annuity) \in Nat /\ to_fixed(owed) \in Nat
  BY <1>1, <1>2, Fixed
<1>8. PICK o, c, b, z, w : /\ o = to_fixed(owed) /\ c = claims /\ b = to_fixed(balances.escrow_annuity)
                           /\ z = to_fixed(y) /\ w = rateSet.claims
  OBVIOUS
<1>9. o <= b + w
  BY <1>1, <1>2, <1>5, <1>6, <1>7, <1>8
<1>. QED BY <1>8, <1>9

LEMMA RewardsHold == IInv => RewardsFunded
<1>. SUFFICES ASSUME IInv PROVE RewardsFunded
  OBVIOUS
<1>1. StakeFollowsVotes
  <2>1. \A a \in Accounts : rewards.stake[a] = to_fixed(biases(escrow)[a])
    BY DEF IInv, PoolKept
  <2>2. \A a \in Accounts : biases(escrow)[a] = escrow.user[a].bias
    BY KeptTyped, BiasesTyped
  <2>. QED BY <2>1, <2>2 DEF StakeFollowsVotes
<1>2. VaultRewardsFunded
  BY DEF IInv, Paying, VaultRewardsFunded
<1>. QED BY <1>1, <1>2, TypesHold, CoverHolds DEF RewardsFunded

-----------------------------------------------------------------------------
(* Theorems                                                                *)

(* The inductive invariant of the escrow and the block rewards: every call *)
(* and every block keeps it, whatever the periods, shares, amounts and     *)
(* rates, and in whatever order root resets them.                          *)
THEOREM BlockRewardsInvariant == Spec => []IInv
BY InitHolds, NextHolds, PTL DEF Spec

(* The total against which referenda are measured never counts more votes  *)
(* than the accounts have, although it is kept as a line of its own, which *)
(* checkpoints move and slope changes bend.                                *)
THEOREM VotesNotCountedTwice == Spec => []SupplyAtMostVotes
BY BlockRewardsInvariant, VotesHold, PTL

(* Stake in the reward pool is the votes of the last deposit; for one      *)
(* emission period after a rate is set the annuity's account pays every    *)
(* voter but for what was claimed at the time, roundings included; and the *)
(* fee account holds what the vaults were promised.                        *)
THEOREM BlockRewardsAreFunded == Spec => []RewardsFunded
BY BlockRewardsInvariant, RewardsHold, PTL
=============================================================================
